---------------------------- MODULE SocketProofs ----------------------------
(***************************************************************************)
(* Proofs about the machines a proxy's sockets are built from: the limit   *)
(* of connections, the packets cut from the input, the packets and the key *)
(* stream of the output, the functions on texts and the buffers of         *)
(* packets, for any number of threads, connections and packets, texts of   *)
(* any length and packets of any values.                                   *)
(***************************************************************************)
EXTENDS MCSockets, FiniteSetTheorems, SequenceTheorems, TLAPS

-----------------------------------------------------------------------------
(* Types of the connections.                                               *)

SocketType == [owned : BOOLEAN, registered : BOOLEAN, waiting : Nat, counted : BOOLEAN]

ThreadType ==
    [task : Task, socket : Socket \union {"none"}, step : {"none", "changed", "computed"},
     load : 0 .. CountModulus]

(* A thread with a task has a socket, and the step of one without is none. *)
TasksHaveSockets ==
    \A t \in Thread :
        /\ thread[t].task # "none" => thread[t].socket \in Socket
        /\ thread[t].task = "none" => thread[t].step = "none"

ConnTypes == ConnTypeOK /\ TasksHaveSockets

(* The load is one from the limit on, and zero below it.                   *)
LEMMA LoadOfCount ==
    ASSUME NEW n \in Nat
    PROVE  /\ n \div connection_limit \in 0 .. n
           /\ n < connection_limit => n \div connection_limit = 0
           /\ connection_limit <= n /\ n < 2 * connection_limit => n \div connection_limit = 1
BY ConnectionsAssumption

(* Whoever drops a reference may have the handle forgotten, and no more.   *)
LEMMA DroppedSocket ==
    ASSUME NEW t, NEW s, NEW c \in SocketType
    PROVE  /\ dropped(t, s, c) \in SocketType
           /\ dropped(t, s, c).counted = c.counted
           /\ dropped(t, s, c).owned = c.owned
<1> DEFINE d == [c EXCEPT !.registered = FALSE]
<1>1. d \in SocketType /\ d.counted = c.counted /\ d.owned = c.owned
  BY DEF SocketType
<1>2. dropped(t, s, c) = c \/ dropped(t, s, c) = d
  BY DEF dropped
<1> QED
  BY <1>1, <1>2

(* A query is answered, and its callback's reference dropped.              *)
LEMMA AnsweredSocket ==
    ASSUME NEW t, NEW s, NEW c \in SocketType, c.waiting > 0
    PROVE  LET d == dropped(t, s, [c EXCEPT !.waiting = @ - 1]) IN
           d \in SocketType /\ d.counted = c.counted /\ d.owned = c.owned
<1>1. PICK d : d = [c EXCEPT !.waiting = @ - 1]
  OBVIOUS
<1>2. d \in SocketType /\ d.counted = c.counted /\ d.owned = c.owned
  BY <1>1 DEF SocketType
<1> QED
  BY <1>1, <1>2, DroppedSocket

LEMMA RefusedSocket ==
    ASSUME NEW c \in SocketType, c.waiting > 0
    PROVE  LET d == [c EXCEPT !.counted = FALSE, !.waiting = @ - 1] IN
           d \in SocketType /\ ~d.counted
<1>1. PICK n : n = c.waiting - 1
  OBVIOUS
<1>2. n \in Nat
  BY <1>1 DEF SocketType
<1>3. [c EXCEPT !.counted = FALSE, !.waiting = n] \in SocketType
  BY <1>2 DEF SocketType
<1>4. ~[c EXCEPT !.counted = FALSE, !.waiting = n].counted
  BY DEF SocketType
<1> QED
  BY <1>1, <1>3, <1>4

(* Every variable of the connections keeps its type.                       *)
LEMMA ConnTypesStep == ConnTypes /\ [ConnNext]_connVars => ConnTypes'
<1> SUFFICES ASSUME ConnTypes, [ConnNext]_connVars
             PROVE  ConnTypes'
  OBVIOUS
<1> USE DEF ConnTypes, ConnTypeOK, TasksHaveSockets
<1>1. \A s \in Socket : FreeSlot \in SocketType
  BY DEF FreeSlot, SocketType
<1>2. ASSUME NEW t \in Thread, NEW task \in Task \ {"none"}, NEW s \in Socket, Started(t, task, s)
      PROVE  thread' \in [Thread -> ThreadType] /\ TasksHaveSockets'
  BY <1>2, ConnectionsAssumption DEF Started, ThreadType
<1>3. ASSUME NEW t \in Thread, thread' = [thread EXCEPT ![t] = IdleThread]
      PROVE  thread' \in [Thread -> ThreadType] /\ TasksHaveSockets'
  BY <1>3, ConnectionsAssumption DEF IdleThread, ThreadType, Task
<1>4. Up => current_connections' \in 0 .. CountModulus - 1
  BY ConnectionsAssumption DEF Up
<1>5. ASSUME NEW s \in Socket, Down(s)
      PROVE  current_connections' \in 0 .. CountModulus - 1 /\ drift' \in 0 .. MaxDrift
  BY <1>5, ConnectionsAssumption DEF Down
<1>6. \A t \in Thread : thread[t].load \in 0 .. CountModulus
  OBVIOUS
<1>7. ASSUME NEW t \in Thread, compute_load(t)
      PROVE  ConnTypes'
  <2>1. current_connections \div connection_limit \in 0 .. CountModulus
    <3>1. current_connections \in Nat /\ current_connections <= CountModulus
      BY ConnectionsAssumption
    <3>2. current_connections \div connection_limit \in 0 .. current_connections
      BY <3>1, LoadOfCount
    <3> QED
      BY <3>1, <3>2, ConnectionsAssumption
  <2> QED
    BY <1>7, <2>1 DEF compute_load
<1>8. ASSUME NEW t \in Thread, NEW s \in Socket, open(t, s) \/ open_refused(t, s)
      PROVE  ConnTypes'
  <2>1. /\ [FreeSlot EXCEPT !.owned = TRUE, !.counted = TRUE] \in SocketType
        /\ [FreeSlot EXCEPT !.owned = TRUE] \in SocketType
    BY DEF FreeSlot, SocketType
  <2>2. socket' \in [Socket -> SocketType]
    BY <1>8, <2>1 DEF open, open_refused, SocketType
  <2> QED
    BY <1>2, <1>4, <1>5, <1>8, <2>2 DEF open, open_refused, SocketType, ThreadType, Task
<1>9. ASSUME NEW t \in Thread, opened(t)
      PROVE  ConnTypes'
  <2>1. socket' \in [Socket -> SocketType]
    BY <1>9 DEF opened, SocketType
  <2> QED
    BY <1>3, <1>6, <1>9, <2>1 DEF opened, SocketType, ThreadType
<1>10. ASSUME NEW t \in Thread, open_unregistered(t)
       PROVE  ConnTypes'
  <2>1. socket' \in [Socket -> SocketType] /\ thread[t].socket \in Socket
    BY <1>10 DEF open_unregistered, SocketType
  <2> QED
    BY <1>2, <1>5, <1>6, <1>10, <2>1 DEF open_unregistered, SocketType, ThreadType, Task
<1>11. ASSUME NEW t \in Thread, NEW s \in Socket,
              \/ get_account(t, s) \/ account_retrieved(t, s) \/ account_refused(t, s)
              \/ handle_close(t, s)
       PROVE  ConnTypes'
  <2>1. socket' \in [Socket -> SocketType]
    <3>0. socket[s] \in SocketType
      BY DEF SocketType
    <3>1. CASE get_account(t, s)
      <4>1. PICK c : c = [socket[s] EXCEPT !.waiting = @ + 1]
        OBVIOUS
      <4>2. c \in SocketType
        BY <3>0, <4>1 DEF SocketType
      <4>3. socket' = [socket EXCEPT ![s] = c]
        BY <3>1, <4>1 DEF get_account
      <4> QED
        BY <4>2, <4>3 DEF SocketType
    <3>2. CASE account_retrieved(t, s)
      <4>1. PICK c : c = dropped(t, s, [socket[s] EXCEPT !.waiting = @ - 1])
        OBVIOUS
      <4>2. c \in SocketType
        BY <3>0, <3>2, <4>1, AnsweredSocket DEF account_retrieved
      <4>3. socket' = [socket EXCEPT ![s] = c]
        BY <3>2, <4>1 DEF account_retrieved
      <4> QED
        BY <4>2, <4>3 DEF SocketType
    <3>3. CASE account_refused(t, s)
      <4>1. PICK c : c = [socket[s] EXCEPT !.counted = FALSE, !.waiting = @ - 1]
        OBVIOUS
      <4>2. c \in SocketType
        BY <3>0, <3>3, <4>1, RefusedSocket DEF account_refused
      <4>3. socket' = [socket EXCEPT ![s] = c]
        BY <3>3, <4>1 DEF account_refused
      <4> QED
        BY <4>2, <4>3 DEF SocketType
    <3>4. CASE handle_close(t, s)
      <4>1. PICK c : c = [socket[s] EXCEPT !.registered = FALSE, !.counted = FALSE]
        OBVIOUS
      <4>2. c \in SocketType
        BY <3>0, <4>1 DEF SocketType
      <4>3. socket' = [socket EXCEPT ![s] = c]
        BY <3>4, <4>1 DEF handle_close
      <4> QED
        BY <4>2, <4>3 DEF SocketType
    <3> QED
      BY <1>11, <3>1, <3>2, <3>3, <3>4
  <2>2. CASE get_account(t, s) \/ account_retrieved(t, s)
    BY <2>1, <2>2 DEF get_account, account_retrieved, SocketType
  <2>3. CASE account_refused(t, s) \/ handle_close(t, s)
    BY <1>2, <1>5, <2>1, <2>3 DEF account_refused, handle_close, SocketType, ThreadType, Task
  <2> QED
    BY <1>11, <2>2, <2>3
<1>12. ASSUME NEW t \in Thread, died(t)
       PROVE  ConnTypes'
  <2>1. thread[t].socket \in Socket
    BY <1>12 DEF died
  <2>2. socket[thread[t].socket] \in SocketType
    BY <2>1 DEF SocketType
  <2>3. PICK c : c = dropped(t, thread[t].socket, released(t, socket[thread[t].socket]))
    OBVIOUS
  <2>4. socket' \in [Socket -> SocketType]
    <3>1. released(t, socket[thread[t].socket]) \in SocketType
      BY <2>2 DEF released, SocketType
    <3>2. c \in SocketType
      BY <2>3, <3>1, DroppedSocket
    <3>3. socket' = [socket EXCEPT ![thread[t].socket] = c]
      BY <1>12, <2>3 DEF died
    <3> QED
      BY <2>1, <3>2, <3>3 DEF SocketType
  <2> QED
    BY <1>3, <1>6, <1>12, <2>4 DEF died, SocketType, ThreadType
<1>13. CASE UNCHANGED connVars
  BY <1>13 DEF connVars
<1> QED
  BY <1>7, <1>8, <1>9, <1>10, <1>11, <1>12, <1>13 DEF ConnNext, Steps, Answers, Thread

-----------------------------------------------------------------------------
(* The limit of connections.                                               *)

(* Threads that will store a load from before the limit was reached.       *)
Stale == {t \in Thread : thread[t].step = "computed" /\ thread[t].load # 1}

(* The acceptor may let a connection in at once.                           *)
MayOpen == load # 1 /\ \A t \in Thread : thread[t].task # "open"

(* How many connections can still be opened without a new computation.     *)
Margin == Cardinality(Stale) + (IF MayOpen THEN 1 ELSE 0)

CountedHaveOwner == \A s \in Socket : socket[s].counted => socket[s].owned

EndingUncounted ==
    \A t \in Thread : thread[t].task \in {"close", "callback"}
                           => ~socket[thread[t].socket].counted

CountExact == current_connections = Cardinality(Open)

(* The thread that opens a connection knows of the limit it has reached.   *)
OpeningKnows ==
    \A t \in Thread :
        thread[t].task = "open" /\ t \in Stale => Cardinality(Open) < connection_limit

MarginBounded ==
    Cardinality(Open) >= connection_limit
        => Cardinality(Open) - connection_limit + Margin <= Cardinality(Thread) - 1

LimitInv ==
    /\ IsFiniteSet(Open)
    /\ CountedHaveOwner
    /\ EndingUncounted
    /\ drift = 0 => CountExact /\ OpeningKnows /\ MarginBounded

(* The count wraps around only beyond the limit and all threads.           *)
LEMMA CountWraps ==
    ASSUME NEW n \in Nat, n < CountModulus
    PROVE  /\ n + 1 < CountModulus => (n + 1) % CountModulus = n + 1
           /\ n > 0 => (n + CountModulus - 1) % CountModulus = n - 1
<1>1. \A m \in Nat, k \in Nat \ {0} : m < k => m % k = m /\ (m + k) % k = m
  OBVIOUS
<1>2. CountModulus \in Nat \ {0}
  BY ConnectionsAssumption
<1>3. ASSUME n + 1 < CountModulus
      PROVE  (n + 1) % CountModulus = n + 1
  <2>1. n + 1 \in Nat
    OBVIOUS
  <2> QED
    BY <1>1, <1>2, <1>3, <2>1
<1>4. ASSUME n > 0
      PROVE  (n + CountModulus - 1) % CountModulus = n - 1
  <2>1. n - 1 \in Nat /\ n - 1 < CountModulus /\ (n - 1) + CountModulus = n + CountModulus - 1
    BY <1>2, <1>4
  <2>2. ((n - 1) + CountModulus) % CountModulus = n - 1
    BY <1>1, <1>2, <2>1
  <2> QED
    BY <2>1, <2>2
<1> QED
  BY <1>3, <1>4

(* Sizes are numbers, and there are no more stale threads than threads.    *)
LEMMA MarginIsNumber ==
    /\ Cardinality(Thread) \in Nat
    /\ IsFiniteSet(Stale) /\ Cardinality(Stale) \in Nat
    /\ Cardinality(Stale) <= Cardinality(Thread)
    /\ Margin \in Nat
<1>1. Cardinality(Thread) \in Nat
  BY ConnectionsAssumption, FS_CardinalityType
<1>2. Stale \in SUBSET Thread
  BY DEF Stale
<1>3. /\ IsFiniteSet(Stale) /\ Cardinality(Stale) \in Nat
      /\ Cardinality(Stale) <= Cardinality(Thread)
  BY <1>2, ConnectionsAssumption, FS_Subset, FS_CardinalityType
<1> QED
  BY <1>1, <1>3 DEF Margin

(* What the invariant says of the number of connections.                   *)
LEMMA OpenFits ==
    ASSUME LimitInv, drift = 0
    PROVE  /\ Cardinality(Open) \in Nat
           /\ Cardinality(Open) <= connection_limit + Cardinality(Thread) - 1
           /\ Cardinality(Open) < 2 * connection_limit
           /\ Cardinality(Open) < CountModulus
<1>1. Cardinality(Open) \in Nat
  BY FS_CardinalityType DEF LimitInv
<1>2. Cardinality(Open) <= connection_limit + Cardinality(Thread) - 1
  BY <1>1, MarginIsNumber, ConnectionsAssumption DEF LimitInv, MarginBounded
<1> QED
  BY <1>1, <1>2, MarginIsNumber, ConnectionsAssumption

(* A step that opens no connection and adds nothing to the margin.         *)
LEMMA CalmConnections ==
    ASSUME LimitInv, CountedHaveOwner', EndingUncounted', Open' \subseteq Open,
           drift' = 0 =>
               /\ drift = 0
               /\ CountExact'
               /\ Cardinality(Open) >= connection_limit => Margin' <= Margin
               /\ \A t \in Thread :
                      thread'[t].task = "open" /\ t \in Stale' =>
                          \/ thread[t].task = "open" /\ t \in Stale
                          \/ Cardinality(Open) < connection_limit
    PROVE  LimitInv'
<1>1. /\ IsFiniteSet(Open') /\ Cardinality(Open') \in Nat /\ Cardinality(Open) \in Nat
      /\ Cardinality(Open') <= Cardinality(Open)
  BY FS_Subset, FS_CardinalityType DEF LimitInv
<1>2. Margin \in Nat /\ Margin' \in Nat /\ Cardinality(Thread) \in Nat
  <2>1. MarginIsNumber'
    BY MarginIsNumber, PTL
  <2> QED
    BY <2>1, MarginIsNumber
<1>3. ASSUME drift' = 0
      PROVE  OpeningKnows' /\ MarginBounded'
  <2>1. OpeningKnows'
    BY <1>1, <1>3, ConnectionsAssumption DEF LimitInv, OpeningKnows
  <2>2. MarginBounded'
    BY <1>1, <1>2, <1>3, ConnectionsAssumption DEF LimitInv, MarginBounded
  <2> QED
    BY <2>1, <2>2
<1> QED
  BY <1>1, <1>3 DEF LimitInv

(* A thread goes on to something that is not stale.                        *)
LEMMA StaleShrinks ==
    ASSUME ConnTypes, NEW t \in Thread, NEW x \in ThreadType,
           thread' = [thread EXCEPT ![t] = x], x.step # "computed" \/ x.load = 1
    PROVE  /\ Stale' = Stale \ {t}
           /\ thread'[t] = x /\ \A u \in Thread : u # t => thread'[u] = thread[u]
           /\ Cardinality(Stale') \in Nat /\ Cardinality(Stale) \in Nat
           /\ Cardinality(Stale') <= Cardinality(Stale)
           /\ Cardinality(Stale') =
                  IF t \in Stale THEN Cardinality(Stale) - 1 ELSE Cardinality(Stale)
<1>1. thread'[t] = x /\ \A u \in Thread : u # t => thread'[u] = thread[u]
  BY DEF ConnTypes, ConnTypeOK
<1>2. Stale' = Stale \ {t}
  BY <1>1 DEF Stale
<1>3. IsFiniteSet(Stale)
  BY MarginIsNumber
<1>4. IsFiniteSet(Stale \ {t})
  BY <1>3, FS_RemoveElement
<1>5. Cardinality(Stale \ {t}) =
          IF t \in Stale THEN Cardinality(Stale) - 1 ELSE Cardinality(Stale)
  BY <1>3, FS_RemoveElement
<1>6. Cardinality(Stale') \in Nat /\ Cardinality(Stale) \in Nat
  BY <1>2, <1>3, <1>4, FS_CardinalityType
<1>7. Cardinality(Stale') <= Cardinality(Stale)
  BY <1>2, <1>5, <1>6
<1> QED
  BY <1>1, <1>2, <1>5, <1>6, <1>7

(* A socket changes.                                                       *)
LEMMA SocketChanges ==
    ASSUME ConnTypes, NEW s \in Socket, NEW c \in SocketType, socket' = [socket EXCEPT ![s] = c]
    PROVE  /\ socket'[s] = c /\ \A r \in Socket : r # s => socket'[r] = socket[r]
           /\ Open' = IF c.counted THEN Open \union {s} ELSE Open \ {s}
<1>1. socket'[s] = c /\ \A r \in Socket : r # s => socket'[r] = socket[r]
  BY DEF ConnTypes, ConnTypeOK
<1>2. c.counted \in BOOLEAN
  BY DEF SocketType
<1>3. CASE c.counted
  BY <1>1, <1>3 DEF Open
<1>4. CASE ~c.counted
  BY <1>1, <1>4 DEF Open
<1> QED
  BY <1>1, <1>2, <1>3, <1>4

(* A socket is counted down, rightly or (and then drift is not 0) wrongly. *)
LEMMA CountedDown ==
    ASSUME ConnTypes, LimitInv, NEW s \in Socket, Down(s), Open' = Open \ {s}, drift' = 0
    PROVE  drift = 0 /\ CountExact'
<1>1. drift = 0 /\ socket[s].counted
  BY <1>1 DEF Down, ConnTypes, ConnTypeOK
<1>2. /\ Cardinality(Open) \in Nat /\ Cardinality(Open) < CountModulus
      /\ current_connections = Cardinality(Open)
  BY <1>1, OpenFits DEF LimitInv, CountExact
<1>3. s \in Open /\ IsFiniteSet(Open)
  BY <1>1 DEF Open, LimitInv
<1>4. Cardinality(Open \ {s}) = Cardinality(Open) - 1 /\ Cardinality(Open) > 0
  BY <1>2, <1>3, FS_RemoveElement, FS_EmptySet
<1> QED
  BY <1>1, <1>2, <1>4, CountWraps DEF Down, CountExact

(* die() begins: the socket is counted down, and the thread has to compute *)
(* and store the load.                                                     *)
LEMMA EndsConnection ==
    ASSUME ConnTypes, LimitInv, NEW t \in Thread, NEW s \in Socket, NEW c \in SocketType, ~c.counted,
           NEW task \in {"close", "callback"}, Started(t, task, s), Down(s),
           socket' = [socket EXCEPT ![s] = c],
           drift = 0 /\ Cardinality(Open) >= connection_limit
               => load' = 1 \/ (load' = load /\ thread[t].task # "open")
    PROVE  LimitInv'
<1> DEFINE x == [task |-> task, socket |-> s, step |-> "changed", load |-> 0]
<1>1. x \in ThreadType /\ x.step # "computed" /\ thread' = [thread EXCEPT ![t] = x]
  BY ConnectionsAssumption DEF ThreadType, Task, Started
<1> HIDE DEF x
<1>2. /\ Stale' = Stale \ {t}
      /\ thread'[t] = x /\ \A u \in Thread : u # t => thread'[u] = thread[u]
      /\ Cardinality(Stale') <= Cardinality(Stale)
      /\ Cardinality(Stale') \in Nat /\ Cardinality(Stale) \in Nat
  BY <1>1, StaleShrinks
<1> USE DEF x
<1>3. /\ socket'[s] = c /\ \A r \in Socket : r # s => socket'[r] = socket[r]
      /\ Open' = Open \ {s}
  BY SocketChanges
<1>4. CountedHaveOwner'
  BY <1>3 DEF CountedHaveOwner, LimitInv
<1>5. EndingUncounted'
  BY <1>2, <1>3 DEF EndingUncounted, LimitInv, ConnTypes, TasksHaveSockets
<1>6. ASSUME drift' = 0
      PROVE  /\ drift = 0 /\ CountExact'
             /\ Cardinality(Open) >= connection_limit => Margin' <= Margin
             /\ \A u \in Thread : thread'[u].task = "open" /\ u \in Stale' =>
                     thread[u].task = "open" /\ u \in Stale
  <2>1. drift = 0 /\ CountExact'
    BY <1>3, <1>6, CountedDown
  <2>2. ASSUME Cardinality(Open) >= connection_limit
        PROVE  MayOpen' => MayOpen
    BY <1>2, <2>1, <2>2 DEF MayOpen
  <2>3. Cardinality(Open) >= connection_limit => Margin' <= Margin
    BY <1>2, <2>2 DEF Margin
  <2>4. \A u \in Thread : thread'[u].task = "open" /\ u \in Stale' =>
            thread[u].task = "open" /\ u \in Stale
    BY <1>2
  <2> QED
    BY <2>1, <2>3, <2>4
<1> QED
  BY <1>3, <1>4, <1>5, <1>6, CalmConnections

(* open() lets a connection in: its thread is not stale, and no other      *)
(* connection is let in before this thread has stored the load.            *)
LEMMA OpensConnection ==
    ASSUME ConnTypes, LimitInv, NEW t \in Thread, NEW s \in Socket, open(t, s)
    PROVE  LimitInv'
<1> DEFINE c == [FreeSlot EXCEPT !.owned = TRUE, !.counted = TRUE]
           x == [task |-> "open", socket |-> s, step |-> "changed", load |-> 0]
<1>1. /\ Accepting(t, s) /\ below_limit /\ Up /\ socket' = [socket EXCEPT ![s] = c]
      /\ thread' = [thread EXCEPT ![t] = x] /\ load' = load /\ drift' = drift
  BY DEF open, Started
<1>2. c \in SocketType /\ c.counted /\ c.owned
  BY DEF FreeSlot, SocketType
<1>3. /\ x \in ThreadType /\ x.step # "computed" /\ x.step # "none" /\ x.task = "open"
      /\ x.socket = s
  BY ConnectionsAssumption DEF ThreadType, Task
<1> HIDE DEF x, c
<1>4. thread[t].task = "none" /\ t \notin Stale
  BY <1>1 DEF Accepting, Stale, ConnTypes, TasksHaveSockets
<1>5. /\ Stale' = Stale /\ Cardinality(Stale') = Cardinality(Stale)
      /\ thread'[t] = x /\ \A u \in Thread : u # t => thread'[u] = thread[u]
  <2>1. /\ Stale' = Stale \ {t}
        /\ thread'[t] = x /\ \A u \in Thread : u # t => thread'[u] = thread[u]
    BY <1>1, <1>3, StaleShrinks
  <2> QED
    BY <1>4, <2>1
<1>6. /\ socket'[s] = c /\ \A r \in Socket : r # s => socket'[r] = socket[r]
      /\ Open' = Open \union {s}
  BY <1>1, <1>2, SocketChanges
<1>7. ~socket[s].owned /\ \A u \in Thread : thread[u].socket # s
  BY <1>1 DEF Accepting, Freed, Working
<1>8. s \notin Open /\ IsFiniteSet(Open)
  BY <1>7 DEF Open, LimitInv, CountedHaveOwner
<1>9. /\ IsFiniteSet(Open') /\ Cardinality(Open') = Cardinality(Open) + 1
      /\ Cardinality(Open) \in Nat
  BY <1>6, <1>8, FS_AddElement, FS_CardinalityType
<1>10. CountedHaveOwner'
  BY <1>2, <1>6 DEF CountedHaveOwner, LimitInv
<1>11. EndingUncounted'
  <2> SUFFICES ASSUME NEW u \in Thread, thread'[u].task \in {"close", "callback"}
               PROVE  ~socket'[thread'[u].socket].counted
    BY DEF EndingUncounted
  <2>1. u # t /\ thread'[u] = thread[u]
    BY <1>3, <1>5
  <2>2. thread[u].socket \in Socket /\ thread[u].socket # s
    BY <1>7, <2>1 DEF ConnTypes, TasksHaveSockets
  <2> QED
    BY <1>6, <2>1, <2>2 DEF LimitInv, EndingUncounted
<1>12. ASSUME drift' = 0
       PROVE  CountExact' /\ OpeningKnows' /\ MarginBounded'
  <2>1. drift = 0
    BY <1>1, <1>12
  <2>2. current_connections = Cardinality(Open)
    BY <2>1 DEF LimitInv, CountExact
  <2>3. /\ Cardinality(Open) <= connection_limit + Cardinality(Thread) - 1
        /\ Cardinality(Open) + 1 < CountModulus
    BY <1>9, <2>1, OpenFits, MarginIsNumber, ConnectionsAssumption
  <2>4. CountExact'
    BY <1>1, <1>9, <2>2, <2>3, CountWraps, ConnectionsAssumption DEF Up, CountExact
  <2>5. OpeningKnows'
    BY <1>1, <1>4, <1>5 DEF OpeningKnows, Accepting
  <2>6. MayOpen /\ ~MayOpen'
    BY <1>1, <1>3, <1>5 DEF MayOpen, Accepting, below_limit
  <2>7. Cardinality(Stale) <= Cardinality(Thread) - 1
    <3>1. Stale \subseteq Thread \ {t} /\ IsFiniteSet(Thread \ {t})
      BY <1>4, ConnectionsAssumption, FS_RemoveElement DEF Stale
    <3>2. Cardinality(Thread \ {t}) = Cardinality(Thread) - 1
      BY ConnectionsAssumption, FS_RemoveElement
    <3> QED
      BY <3>1, <3>2, FS_Subset
  <2>8. Margin = Cardinality(Stale) + 1 /\ Margin' = Cardinality(Stale)
    BY <1>5, <2>6, MarginIsNumber DEF Margin
  <2>9. MarginBounded'
    <3>1. CASE Cardinality(Open) >= connection_limit
      BY <1>9, <2>1, <2>8, <3>1, MarginIsNumber, ConnectionsAssumption
         DEF MarginBounded, LimitInv
    <3>2. CASE Cardinality(Open) < connection_limit
      BY <1>9, <2>7, <2>8, <3>2, MarginIsNumber, ConnectionsAssumption DEF MarginBounded
    <3> QED
      BY <1>9, <3>1, <3>2, ConnectionsAssumption
  <2> QED
    BY <2>4, <2>5, <2>9
<1> QED
  BY <1>9, <1>10, <1>11, <1>12 DEF LimitInv

(* A load that is computed at the limit is 1.                              *)
LEMMA ComputesLoad ==
    ASSUME ConnTypes, LimitInv, NEW t \in Thread, compute_load(t)
    PROVE  LimitInv'
<1> DEFINE v == current_connections \div connection_limit
           x == [thread[t] EXCEPT !.step = "computed", !.load = v]
<1>1. /\ thread' = [thread EXCEPT ![t] = x] /\ thread[t].step = "changed"
      /\ UNCHANGED <<socket, current_connections, load, drift>>
  BY DEF compute_load, ConnTypes, ConnTypeOK
<1>2. /\ x.task = thread[t].task /\ x.socket = thread[t].socket /\ x.load = v
  BY DEF ConnTypes, ConnTypeOK
<1>3. /\ thread'[t] = x /\ \A u \in Thread : u # t => thread'[u] = thread[u]
  BY <1>1 DEF ConnTypes, ConnTypeOK
<1>4. Open' = Open
  BY <1>1 DEF Open
<1>5. CountedHaveOwner' /\ EndingUncounted' /\ (CountExact <=> CountExact')
  <2>1. EndingUncounted'
    BY <1>1, <1>2, <1>3 DEF EndingUncounted, LimitInv
  <2>2. CountedHaveOwner'
    BY <1>1 DEF CountedHaveOwner, LimitInv
  <2> QED
    BY <1>1, <1>4, <2>1, <2>2 DEF CountExact
<1>6. MayOpen' <=> MayOpen
  BY <1>1, <1>2, <1>3 DEF MayOpen
<1>7. ASSUME drift = 0, Cardinality(Open) >= connection_limit
      PROVE  Margin' <= Margin /\ Stale' = Stale \ {t}
  <2>1. v = 1
    BY <1>7, OpenFits, LoadOfCount DEF LimitInv, CountExact
  <2>2. x \in ThreadType
    <3>1. thread[t] \in ThreadType
      BY DEF ThreadType, ConnTypes, ConnTypeOK
    <3>2. v \in 0 .. CountModulus
      BY <2>1, ConnectionsAssumption
    <3> HIDE DEF v
    <3> QED
      BY <3>1, <3>2 DEF ThreadType
  <2>3. x.load = 1
    BY <1>2, <2>1
  <2> HIDE DEF x, v
  <2>4. /\ Stale' = Stale \ {t} /\ Cardinality(Stale') <= Cardinality(Stale)
        /\ Cardinality(Stale') \in Nat /\ Cardinality(Stale) \in Nat
    BY <1>1, <2>2, <2>3, StaleShrinks
  <2> QED
    BY <1>6, <2>4 DEF Margin
<1>8. Cardinality(Open) \in Nat
  BY FS_CardinalityType DEF LimitInv
<1>9. ASSUME drift' = 0
      PROVE  /\ drift = 0 /\ CountExact'
             /\ Cardinality(Open) >= connection_limit => Margin' <= Margin
             /\ \A u \in Thread :
                    thread'[u].task = "open" /\ u \in Stale' =>
                        \/ thread[u].task = "open" /\ u \in Stale
                        \/ Cardinality(Open) < connection_limit
  <2>1. drift = 0 /\ CountExact'
    BY <1>1, <1>5, <1>9 DEF LimitInv
  <2>2. CASE Cardinality(Open) >= connection_limit
    BY <1>3, <1>7, <2>1, <2>2
  <2>3. CASE Cardinality(Open) < connection_limit
    BY <1>8, <2>1, <2>3, ConnectionsAssumption
  <2> QED
    BY <1>8, <2>2, <2>3, ConnectionsAssumption
<1> QED
  BY <1>4, <1>5, <1>9, CalmConnections

(* The acceptor stores the load it has computed: 1 at the limit.           *)
LEMMA AcceptorStores ==
    ASSUME ConnTypes, LimitInv, NEW t \in Thread, thread[t].task = "open",
           thread[t].step = "computed", load' = thread[t].load,
           drift = 0, Cardinality(Open) >= connection_limit
    PROVE  load' = 1
<1>1. Cardinality(Open) \in Nat
  BY FS_CardinalityType DEF LimitInv
<1>2. t \notin Stale
  BY <1>1, ConnectionsAssumption DEF LimitInv, OpeningKnows
<1> QED
  BY <1>2 DEF Stale

LEMMA OpenedConnection ==
    ASSUME ConnTypes, LimitInv, NEW t \in Thread, opened(t)
    PROVE  LimitInv'
<1> DEFINE s == thread[t].socket
           c == [socket[s] EXCEPT !.registered = TRUE]
<1>1. /\ socket' = [socket EXCEPT ![s] = c] /\ thread' = [thread EXCEPT ![t] = IdleThread]
      /\ load' = thread[t].load /\ thread[t].task = "open" /\ thread[t].step = "computed"
      /\ UNCHANGED <<current_connections, drift>>
  BY DEF opened, ConnTypes, ConnTypeOK
<1>2. s \in Socket
  BY <1>1 DEF ConnTypes, TasksHaveSockets
<1>3. /\ c \in SocketType /\ c.counted = socket[s].counted /\ c.owned = socket[s].owned
  BY <1>2 DEF ConnTypes, ConnTypeOK, SocketType
<1>4. IdleThread \in ThreadType /\ IdleThread.step = "none" /\ IdleThread.task = "none"
  BY ConnectionsAssumption DEF IdleThread, ThreadType, Task
<1> HIDE DEF c, s
<1>5. /\ Stale' = Stale \ {t}
      /\ thread'[t] = IdleThread /\ \A u \in Thread : u # t => thread'[u] = thread[u]
      /\ Cardinality(Stale') <= Cardinality(Stale)
      /\ Cardinality(Stale') \in Nat /\ Cardinality(Stale) \in Nat
  BY <1>1, <1>4, StaleShrinks
<1>6. /\ socket'[s] = c /\ \A r \in Socket : r # s => socket'[r] = socket[r]
  BY <1>1, <1>2, <1>3, SocketChanges
<1>7. Open' = Open
  BY <1>3, <1>6 DEF Open
<1>8. CountedHaveOwner' /\ EndingUncounted'
  <2>1. CountedHaveOwner'
    BY <1>3, <1>6 DEF CountedHaveOwner, LimitInv
  <2>2. \A r \in Socket : socket'[r].counted = socket[r].counted
    BY <1>3, <1>6
  <2>3. EndingUncounted'
    BY <1>4, <1>5, <2>2 DEF EndingUncounted, LimitInv, ConnTypes, TasksHaveSockets
  <2> QED
    BY <2>1, <2>3
<1>9. ASSUME drift' = 0
      PROVE  /\ drift = 0 /\ CountExact'
             /\ Cardinality(Open) >= connection_limit => Margin' <= Margin
             /\ \A u \in Thread : thread'[u].task = "open" /\ u \in Stale' =>
                     thread[u].task = "open" /\ u \in Stale
  <2>1. drift = 0 /\ CountExact'
    BY <1>1, <1>7, <1>9 DEF LimitInv, CountExact
  <2>2. Cardinality(Open) >= connection_limit => load' = 1
    BY <1>1, <2>1, AcceptorStores
  <2>3. Cardinality(Open) >= connection_limit => Margin' <= Margin
    BY <1>5, <2>2 DEF Margin, MayOpen
  <2>4. \A u \in Thread : thread'[u].task = "open" /\ u \in Stale' =>
            thread[u].task = "open" /\ u \in Stale
    BY <1>5
  <2> QED
    BY <2>1, <2>3, <2>4
<1> QED
  BY <1>7, <1>8, <1>9, CalmConnections

(* die() ends: a thread that stores a load from below the limit lets at    *)
(* most one connection in, and is no longer stale.                         *)
LEMMA DiedConnection ==
    ASSUME ConnTypes, LimitInv, NEW t \in Thread, died(t)
    PROVE  LimitInv'
<1> DEFINE s == thread[t].socket
           d == released(t, socket[s])
           c == dropped(t, s, d)
<1>1. /\ socket' = [socket EXCEPT ![s] = c] /\ thread' = [thread EXCEPT ![t] = IdleThread]
      /\ load' = thread[t].load /\ thread[t].task \in {"close", "callback"}
      /\ thread[t].step = "computed"
      /\ UNCHANGED <<current_connections, drift>>
  BY DEF died, ConnTypes, ConnTypeOK
<1>2. s \in Socket /\ ~socket[s].counted
  BY <1>1 DEF ConnTypes, TasksHaveSockets, LimitInv, EndingUncounted
<1>3. c \in SocketType /\ ~c.counted
  <2>1. socket[s] \in SocketType
    BY <1>2 DEF ConnTypes, ConnTypeOK, SocketType
  <2>2. d \in SocketType /\ ~d.counted
    BY <1>2, <2>1 DEF SocketType, released
  <2> HIDE DEF d
  <2> QED
    BY <2>2, DroppedSocket
<1>4. IdleThread \in ThreadType /\ IdleThread.step = "none" /\ IdleThread.task = "none"
  BY ConnectionsAssumption DEF IdleThread, ThreadType, Task
<1> HIDE DEF c, d, s
<1>5. /\ Stale' = Stale \ {t}
      /\ thread'[t] = IdleThread /\ \A u \in Thread : u # t => thread'[u] = thread[u]
  BY <1>1, <1>4, StaleShrinks
<1>6. /\ Cardinality(Stale') \in Nat /\ Cardinality(Stale) \in Nat
      /\ Cardinality(Stale') =
             IF t \in Stale THEN Cardinality(Stale) - 1 ELSE Cardinality(Stale)
  BY <1>1, <1>4, StaleShrinks
<1>7. /\ socket'[s] = c /\ \A r \in Socket : r # s => socket'[r] = socket[r]
      /\ Open' = Open \ {s}
  BY <1>1, <1>2, <1>3, SocketChanges
<1>8. Open' = Open
  BY <1>2, <1>7 DEF Open
<1>9. CountedHaveOwner' /\ EndingUncounted'
  <2>1. CountedHaveOwner'
    BY <1>3, <1>7 DEF CountedHaveOwner, LimitInv
  <2>2. \A r \in Socket : socket'[r].counted => socket[r].counted
    BY <1>3, <1>7
  <2>3. EndingUncounted'
    BY <1>4, <1>5, <2>2 DEF EndingUncounted, LimitInv, ConnTypes, TasksHaveSockets
  <2> QED
    BY <2>1, <2>3
<1>10. Margin' <= Margin
  <2>1. CASE t \in Stale
    BY <1>6, <2>1 DEF Margin
  <2>2. CASE t \notin Stale
    <3>1. load' = 1
      BY <1>1, <2>2 DEF Stale
    <3>2. ~MayOpen'
      BY <3>1 DEF MayOpen
    <3> QED
      BY <1>6, <2>2, <3>2 DEF Margin
  <2> QED
    BY <2>1, <2>2
<1>11. ASSUME drift' = 0
       PROVE  /\ drift = 0 /\ CountExact'
              /\ \A u \in Thread : thread'[u].task = "open" /\ u \in Stale' =>
                     thread[u].task = "open" /\ u \in Stale
  <2>1. drift = 0 /\ CountExact'
    BY <1>1, <1>8, <1>11 DEF LimitInv, CountExact
  <2> QED
    BY <1>5, <2>1
<1> QED
  BY <1>8, <1>9, <1>10, <1>11, CalmConnections

(* Every step of the connections keeps the invariant.                      *)
LEMMA LimitStep == ConnTypes /\ LimitInv /\ [ConnNext]_connVars => LimitInv'
<1> SUFFICES ASSUME ConnTypes, LimitInv, [ConnNext]_connVars
             PROVE  LimitInv'
  OBVIOUS
<1> DEFINE Uncounted(s) == [socket[s] EXCEPT !.counted = FALSE]
<1>1. \A s \in Socket : socket[s] \in SocketType /\ Uncounted(s) \in SocketType
                            /\ ~Uncounted(s).counted
  BY DEF ConnTypes, ConnTypeOK, SocketType
<1>2. ASSUME NEW t \in Thread, open_unregistered(t)
      PROVE  LimitInv'
  <2> DEFINE s == thread[t].socket
  <2>1. s \in Socket
    BY <1>2 DEF open_unregistered, ConnTypes, TasksHaveSockets
  <2>2. socket' = [socket EXCEPT ![s] = Uncounted(s)]
    BY <1>2, <2>1 DEF open_unregistered, ConnTypes, ConnTypeOK
  <2>3. drift = 0 /\ Cardinality(Open) >= connection_limit => load' = 1
    BY <1>2, AcceptorStores DEF open_unregistered
  <2>4. Started(t, "close", s) /\ Down(s)
    BY <1>2 DEF open_unregistered
  <2> HIDE DEF s
  <2>5. Uncounted(s) \in SocketType /\ ~Uncounted(s).counted
    BY <1>1, <2>1
  <2> HIDE DEF Uncounted
  <2> QED
    BY <2>1, <2>2, <2>3, <2>4, <2>5, EndsConnection
<1>3. ASSUME NEW t \in Thread, NEW s \in Socket, open_refused(t, s)
      PROVE  LimitInv'
  <2> DEFINE c == [FreeSlot EXCEPT !.owned = TRUE]
  <2>1. c \in SocketType /\ ~c.counted
    BY DEF FreeSlot, SocketType
  <2>2. /\ socket' = [socket EXCEPT ![s] = c] /\ Started(t, "close", s) /\ Down(s)
        /\ load' = load /\ thread[t].task # "open"
    BY <1>3 DEF open_refused, Accepting
  <2> HIDE DEF c
  <2> QED
    BY <2>1, <2>2, EndsConnection
<1>4. ASSUME NEW t \in Thread, NEW s \in Socket, account_refused(t, s)
      PROVE  LimitInv'
  <2>1. PICK c : c = [socket[s] EXCEPT !.counted = FALSE, !.waiting = @ - 1]
    OBVIOUS
  <2>2. c \in SocketType /\ ~c.counted
    <3>1. socket[s] \in SocketType /\ socket[s].waiting > 0
      BY <1>1, <1>4 DEF account_refused
    <3> QED
      BY <2>1, <3>1, RefusedSocket
  <2>3. /\ socket' = [socket EXCEPT ![s] = c] /\ Started(t, "callback", s)
        /\ Down(s) /\ load' = load /\ thread[t].task # "open"
    BY <1>4, <2>1 DEF account_refused, Idle
  <2> QED
    BY <2>2, <2>3, EndsConnection
<1>5. ASSUME NEW t \in Thread, NEW s \in Socket, handle_close(t, s)
      PROVE  LimitInv'
  <2> DEFINE c == [socket[s] EXCEPT !.registered = FALSE, !.counted = FALSE]
  <2>1. c \in SocketType /\ ~c.counted
    BY <1>1 DEF SocketType
  <2>2. /\ socket' = [socket EXCEPT ![s] = c] /\ Started(t, "close", s) /\ Down(s)
        /\ load' = load /\ thread[t].task # "open"
    BY <1>5 DEF handle_close, Idle, ConnTypes, ConnTypeOK
  <2> HIDE DEF c
  <2> QED
    BY <2>1, <2>2, EndsConnection
<1>6. ASSUME thread' = thread, load' = load, drift' = drift,
             current_connections' = current_connections,
             \A s \in Socket : /\ socket'[s].counted = socket[s].counted
                               /\ socket'[s].owned = socket[s].owned
      PROVE  LimitInv'
  <2>1. Open' = Open /\ Stale' = Stale /\ (MayOpen' <=> MayOpen)
    BY <1>6 DEF Open, Stale, MayOpen
  <2>2. CountedHaveOwner' /\ EndingUncounted'
    BY <1>6 DEF CountedHaveOwner, EndingUncounted, LimitInv, ConnTypes, TasksHaveSockets
  <2>3. CountExact' <=> CountExact
    BY <1>6, <2>1 DEF CountExact
  <2>4. Margin' <= Margin
    BY <2>1, MarginIsNumber DEF Margin
  <2> QED
    BY <1>6, <2>1, <2>2, <2>3, <2>4, CalmConnections DEF LimitInv
<1>7. ASSUME NEW t \in Thread, NEW s \in Socket, get_account(t, s) \/ account_retrieved(t, s)
      PROVE  LimitInv'
  <2>1. PICK c : /\ socket' = [socket EXCEPT ![s] = c]
                 /\ c.counted = socket[s].counted /\ c.owned = socket[s].owned
    <3>1. CASE get_account(t, s)
      <4>1. PICK c : c = [socket[s] EXCEPT !.waiting = @ + 1]
        OBVIOUS
      <4>2. c.counted = socket[s].counted /\ c.owned = socket[s].owned
        BY <1>1, <4>1 DEF SocketType
      <4> QED
        BY <3>1, <4>1, <4>2 DEF get_account
    <3>2. CASE account_retrieved(t, s)
      <4>1. PICK c : c = dropped(t, s, [socket[s] EXCEPT !.waiting = @ - 1])
        OBVIOUS
      <4>2. c.counted = socket[s].counted /\ c.owned = socket[s].owned
        <5>1. socket[s] \in SocketType /\ socket[s].waiting > 0
          BY <1>1, <3>2 DEF account_retrieved
        <5> QED
          BY <4>1, <5>1, AnsweredSocket
      <4> QED
        BY <3>2, <4>1, <4>2 DEF account_retrieved
    <3> QED
      BY <1>7, <3>1, <3>2
  <2>2. \A r \in Socket : /\ socket'[r].counted = socket[r].counted
                          /\ socket'[r].owned = socket[r].owned
    BY <2>1 DEF ConnTypes, ConnTypeOK
  <2> QED
    BY <1>6, <1>7, <2>2 DEF get_account, account_retrieved
<1>8. CASE UNCHANGED connVars
  BY <1>6, <1>8 DEF connVars
<1> QED
  BY <1>2, <1>3, <1>4, <1>5, <1>7, <1>8, OpensConnection, ComputesLoad, OpenedConnection,
     DiedConnection DEF ConnNext, Steps, Answers, Thread

LEMMA ConnectionsInit == ConnInit => ConnTypes /\ LimitInv
<1> SUFFICES ASSUME ConnInit
             PROVE  ConnTypes /\ LimitInv
  OBVIOUS
<1>1. ConnTypes
  BY ConnectionsAssumption
     DEF ConnInit, ConnTypes, ConnTypeOK, TasksHaveSockets, FreeSlot, IdleThread, Task
<1>2. Open = {} /\ current_connections = 0
  BY DEF ConnInit, Open, FreeSlot
<1>3. CountedHaveOwner /\ EndingUncounted /\ OpeningKnows
  BY DEF ConnInit, CountedHaveOwner, EndingUncounted, OpeningKnows, FreeSlot, IdleThread
<1>4. IsFiniteSet(Open) /\ Cardinality(Open) = 0
  BY <1>2, FS_EmptySet
<1>5. CountExact /\ MarginBounded
  BY <1>2, <1>4, ConnectionsAssumption DEF CountExact, MarginBounded
<1> QED
  BY <1>1, <1>3, <1>4, <1>5 DEF LimitInv

LEMMA LimitInvGivesLimit == ConnTypes /\ LimitInv => LimitHeld
BY OpenFits DEF LimitHeld

-----------------------------------------------------------------------------
(* The output of a socket.                                                 *)

Done == Len(ends)

(* The first packet of the queue was written in part.                      *)
Begun == Done + 1 \in ToSet(torn)

OutputTypes ==
    /\ OutputTypeOK
    /\ sizes \in Seq(PacketSize) /\ Len(sizes) <= MaxQueued
    /\ ends \in Seq(Nat)
    /\ torn \in Seq(Nat)
    /\ {send_i, plain} \subseteq Nat

(* The reactor is asked exactly as long as packets wait, and a socket      *)
(* whose write failed is never written to again.                           *)
Interest ==
    /\ failed => out_active /\ ~registered
    /\ ~failed => (out_active <=> registered)
    /\ ~failed /\ packet_queue # <<>> => registered

(* The packets that wait are those queued last, and all but the one that   *)
(* was begun are as they were queued.                                      *)
QueueInOrder ==
    /\ Len(sizes) = Done + Len(packet_queue)
    /\ ToSet(torn) \subseteq 1 .. Done + 1
    /\ Begun => packet_queue # <<>>
    /\ continue_send => Begun
    /\ ~failed =>
           /\ proxyd /\ Begun => continue_send
           /\ \A k \in 1 .. Len(packet_queue) :
                  /\ \A i \in DOMAIN packet_queue[k] : packet_queue[k][i].of = Done + k
                  /\ Done + k \notin ToSet(torn) =>
                         packet_queue[k] = Buffer(Done + k, sizes[Done + k])

(* Headers that the cipher has seen or let pass.                           *)
HeadersWritten == IF continue_send THEN Done + 1 ELSE Done

(* Both sides count the key stream alike: four bytes for each packet       *)
(* behind those that were written before the cipher had its key.           *)
KeyStreamCounted ==
    /\ is_initialised => proxyd
    /\ ~is_initialised => send_i = 0
    /\ proxyd /\ ~failed =>
           IF is_initialised
           THEN plain <= HeadersWritten /\ send_i = CRYPTED_SEND_LEN * (HeadersWritten - plain)
           ELSE plain = HeadersWritten

WrittenIntact ==
    \A p \in 1 .. Done :
        /\ ends[p] <= Len(wire)
        /\ p \notin ToSet(torn) =>
               /\ sizes[p] <= ends[p]
               /\ SubSeq(wire, ends[p] - sizes[p] + 1, ends[p]) = Encoded(p)

OutputInv == OutputTypes /\ Interest /\ QueueInOrder /\ KeyStreamCounted /\ WrittenIntact

LEMMA LongerOfTwo == \A n \in Nat : Max({2, n}) = IF n <= 2 THEN 2 ELSE n
<1> SUFFICES ASSUME NEW n \in Nat
             PROVE  Max({2, n}) = IF n <= 2 THEN 2 ELSE n
  OBVIOUS
<1> DEFINE m == IF n <= 2 THEN 2 ELSE n
<1>1. m \in {2, n} /\ \A y \in {2, n} : m >= y
  OBVIOUS
<1>2. \A x \in {2, n} : (\A y \in {2, n} : x >= y) => x = m
  OBVIOUS
<1> HIDE DEF m
<1> QED
  BY <1>1, <1>2 DEF Max, m

LEMMA QueueTypes ==
    ASSUME OutputTypes
    PROVE  /\ packet_queue \in Seq(Seq(WireByte) \ {<<>>}) /\ wire \in Seq(WireByte)
           /\ sizes \in Seq(PacketSize) /\ ends \in Seq(Nat) /\ torn \in Seq(Nat)
           /\ send_i \in Nat /\ plain \in Nat
           /\ Len(packet_queue) \in Nat /\ Len(wire) \in Nat /\ Len(sizes) \in Nat
           /\ Done \in Nat /\ Len(torn) \in Nat
           /\ proxyd \in BOOLEAN /\ out_active \in BOOLEAN /\ registered \in BOOLEAN
           /\ continue_send \in BOOLEAN /\ is_initialised \in BOOLEAN /\ failed \in BOOLEAN
           /\ MaxQueued \in Nat /\ MaxParts \in Nat
           /\ \A i \in 1 .. Len(sizes) : sizes[i] \in Nat /\ 4 <= sizes[i] /\ sizes[i] <= 65537
           /\ \A i \in 1 .. Len(packet_queue) :
                  packet_queue[i] \in Seq(WireByte) /\ packet_queue[i] # <<>>
           /\ \A i \in 1 .. Len(ends) : ends[i] \in Nat
<1>1. packet_queue \in Seq(Seq(WireByte) \ {<<>>}) /\ wire \in Seq(WireByte)
  BY DEF OutputTypes, OutputTypeOK
<1>2. sizes \in Seq(PacketSize) /\ ends \in Seq(Nat) /\ torn \in Seq(Nat)
  BY DEF OutputTypes
<1>3. \A i \in 1 .. Len(sizes) : sizes[i] \in Nat /\ 4 <= sizes[i] /\ sizes[i] <= 65537
  BY <1>2, OutputAssumption
<1>4. \A i \in 1 .. Len(packet_queue) :
          packet_queue[i] \in Seq(WireByte) /\ packet_queue[i] # <<>>
  BY <1>1
<1>5. /\ proxyd \in BOOLEAN /\ out_active \in BOOLEAN /\ registered \in BOOLEAN
      /\ continue_send \in BOOLEAN /\ is_initialised \in BOOLEAN /\ failed \in BOOLEAN
  BY DEF OutputTypes, OutputTypeOK
<1>6. send_i \in Nat /\ plain \in Nat /\ MaxQueued \in Nat /\ MaxParts \in Nat
  BY OutputAssumption DEF OutputTypes
<1>7. \A i \in 1 .. Len(ends) : ends[i] \in Nat
  BY <1>2
<1>8. /\ Len(packet_queue) \in Nat /\ Len(wire) \in Nat /\ Len(sizes) \in Nat
      /\ Done \in Nat /\ Len(torn) \in Nat
  BY <1>1, <1>2 DEF Done
<1> QED
  BY <1>1, <1>2, <1>3, <1>4, <1>5, <1>6, <1>7, <1>8

LEMMA OutputInvInit == OutputInit => OutputInv
<1> SUFFICES ASSUME OutputInit
             PROVE  OutputInv
  OBVIOUS
<1>1. /\ sizes = <<>> /\ packet_queue = <<>> /\ wire = <<>> /\ ends = <<>> /\ torn = <<>>
      /\ out_active = FALSE /\ registered = FALSE /\ continue_send = FALSE
      /\ is_initialised = FALSE /\ failed = FALSE /\ send_i = 0 /\ plain = 0
      /\ proxyd \in BOOLEAN
  BY DEF OutputInit
<1>2. Done = 0 /\ ToSet(torn) = {} /\ ~Begun
  BY <1>1 DEF Done, ToSet, Begun
<1>3. OutputTypes
  <2> DEFINE Buffers == Seq(WireByte) \ {<<>>}
  <2>1. <<>> \in Seq(Buffers) /\ <<>> \in Seq(WireByte) /\ <<>> \in Seq(PacketSize) /\ <<>> \in Seq(Nat)
    <3> HIDE DEF Buffers
    <3> QED
      OBVIOUS
  <2>2. OutputTypeOK
    BY <1>1, <2>1 DEF OutputTypeOK
  <2>3. Len(sizes) <= MaxQueued /\ {send_i, plain} \subseteq Nat
    BY <1>1, OutputAssumption
  <2> QED
    BY <1>1, <2>1, <2>2, <2>3 DEF OutputTypes
<1>4. Interest /\ QueueInOrder /\ KeyStreamCounted /\ WrittenIntact
  BY <1>1, <1>2 DEF Interest, QueueInOrder, KeyStreamCounted, HeadersWritten, WrittenIntact
<1> QED
  BY <1>3, <1>4 DEF OutputInv

(* A packet is queued.                                                     *)
LEMMA OutputInvSend ==
    ASSUME OutputInv, NEW size \in PacketSize, send(size)
    PROVE  OutputInv'
<1> DEFINE n == Len(sizes)
           buffer == Buffer(n + 1, size)
<1>1. /\ n < MaxQueued
      /\ sizes' = Append(sizes, size)
      /\ packet_queue' = Append(packet_queue, buffer)
      /\ registered' = (registered \/ ~out_active) /\ out_active' = TRUE
      /\ UNCHANGED <<proxyd, continue_send, is_initialised, send_i, wire, plain, ends, torn,
                     failed>>
  BY DEF send
<1>2. /\ packet_queue \in Seq(Seq(WireByte) \ {<<>>}) /\ wire \in Seq(WireByte)
      /\ sizes \in Seq(PacketSize) /\ ends \in Seq(Nat)
      /\ n \in Nat /\ Len(packet_queue) \in Nat /\ Done \in Nat /\ MaxQueued \in Nat
      /\ registered \in BOOLEAN /\ out_active \in BOOLEAN
  BY QueueTypes DEF OutputInv
<1>3. size \in Nat /\ 4 <= size /\ size <= 65537
  BY OutputAssumption
<1>4. /\ buffer \in Seq(WireByte) \ {<<>>}
      /\ \A i \in DOMAIN buffer : buffer[i].of = n + 1
  <2>1. \A i \in 1 .. size : [of |-> n + 1, i |-> i, size |-> -1, key |-> 0] \in WireByte
    BY <1>1, <1>2, <1>3 DEF WireByte
  <2>2. buffer \in [1 .. size -> WireByte]
    BY <2>1 DEF Buffer
  <2>3. buffer \in Seq(WireByte) /\ Len(buffer) = size
    BY <1>3, <2>2
  <2>4. buffer # <<>> /\ \A i \in DOMAIN buffer : buffer[i].of = n + 1
    BY <1>3, <2>3 DEF Buffer
  <2> QED
    BY <2>3, <2>4
<1> HIDE DEF buffer, n
<1>5. /\ sizes' \in Seq(PacketSize) /\ Len(sizes') = n + 1
      /\ sizes'[n + 1] = size
      /\ \A i \in 1 .. n : sizes'[i] = sizes[i]
  BY <1>1, <1>2 DEF n
<1>6. /\ packet_queue' \in Seq(Seq(WireByte) \ {<<>>})
      /\ Len(packet_queue') = Len(packet_queue) + 1
      /\ packet_queue' # <<>>
      /\ packet_queue'[Len(packet_queue) + 1] = buffer
      /\ \A i \in 1 .. Len(packet_queue) : packet_queue'[i] = packet_queue[i]
  <2> DEFINE Buffers == Seq(WireByte) \ {<<>>}
  <2>1. packet_queue \in Seq(Buffers) /\ buffer \in Buffers
    BY <1>2, <1>4
  <2> HIDE DEF Buffers
  <2>2. /\ packet_queue' \in Seq(Buffers)
        /\ Len(packet_queue') = Len(packet_queue) + 1
        /\ packet_queue'[Len(packet_queue) + 1] = buffer
        /\ \A i \in 1 .. Len(packet_queue) : packet_queue'[i] = packet_queue[i]
    BY <1>1, <2>1, AppendProperties
  <2>3. packet_queue' # <<>>
    BY <2>2, <1>2
  <2> QED
    BY <2>2, <2>3 DEF Buffers
<1>7. Done' = Done /\ Begun' = Begun /\ HeadersWritten' = HeadersWritten
  BY <1>1 DEF Done, Begun, HeadersWritten
<1>8. n = Done + Len(packet_queue)
  BY DEF OutputInv, QueueInOrder, n
<1>9. OutputTypes' /\ Interest'
  <2>1. OutputTypeOK'
    BY <1>1, <1>2, <1>6 DEF OutputInv, OutputTypes, OutputTypeOK
  <2>2. OutputTypes'
    BY <2>1, <1>1, <1>2, <1>5 DEF OutputInv, OutputTypes
  <2>3. Interest'
    BY <1>1, <1>2, <1>6 DEF OutputInv, Interest
  <2> QED
    BY <2>2, <2>3
<1>10. QueueInOrder'
  <2>1. ASSUME NEW k \in 1 .. Len(packet_queue) + 1, ~failed
        PROVE  /\ \A i \in DOMAIN packet_queue'[k] : packet_queue'[k][i].of = Done + k
               /\ Done + k \notin ToSet(torn) =>
                      packet_queue'[k] = Buffer(Done + k, sizes'[Done + k])
    <3>1. CASE k = Len(packet_queue) + 1
      <4>1. Done + k = n + 1
        BY <3>1, <1>2, <1>8
      <4> QED
        BY <3>1, <4>1, <1>4, <1>5, <1>6 DEF buffer
    <3>2. CASE k \in 1 .. Len(packet_queue)
      <4>1. Done + k \in 1 .. n
        BY <3>2, <1>2, <1>8
      <4> QED
        BY <2>1, <3>2, <4>1, <1>5, <1>6 DEF OutputInv, QueueInOrder
    <3> QED
      BY <3>1, <3>2, <1>2
  <2>2. Len(sizes') = Done + Len(packet_queue')
    BY <1>2, <1>5, <1>6, <1>8
  <2> QED
    BY <1>1, <1>6, <1>7, <2>1, <2>2 DEF OutputInv, QueueInOrder
<1>11. KeyStreamCounted'
  BY <1>1, <1>7 DEF OutputInv, KeyStreamCounted
<1>12. WrittenIntact'
  <2>1. ASSUME NEW p \in 1 .. Done
        PROVE  sizes'[p] = sizes[p] /\ Encoded(p)' = Encoded(p)
    <3>1. p \in 1 .. n
      BY <1>2, <1>8
    <3> QED
      BY <1>1, <1>5, <3>1 DEF Encoded
  <2> QED
    BY <1>1, <1>7, <2>1 DEF OutputInv, WrittenIntact
<1> QED
  BY <1>9, <1>10, <1>11, <1>12 DEF OutputInv

(* The cipher gets its key.                                                *)
LEMMA OutputInvKey ==
    ASSUME OutputInv, set_key
    PROVE  OutputInv'
<1>1. /\ proxyd /\ is_initialised' = TRUE
      /\ UNCHANGED <<proxyd, sizes, packet_queue, out_active, registered, continue_send, send_i,
                   wire, plain, ends, torn, failed>>
  BY DEF set_key
<1>2. Done' = Done /\ Begun' = Begun /\ HeadersWritten' = HeadersWritten
  BY <1>1 DEF Done, Begun, HeadersWritten
<1>3. OutputTypes' /\ Interest' /\ QueueInOrder'
  BY <1>1, <1>2 DEF OutputInv, OutputTypes, OutputTypeOK, Interest, QueueInOrder
<1>4. KeyStreamCounted'
  <2>1. HeadersWritten \in Nat
    BY QueueTypes DEF OutputInv, HeadersWritten
  <2> QED
    BY <1>1, <1>2, <2>1 DEF OutputInv, KeyStreamCounted, CRYPTED_SEND_LEN
<1>5. WrittenIntact'
  BY <1>1, <1>2 DEF OutputInv, WrittenIntact, Encoded
<1> QED
  BY <1>3, <1>4, <1>5 DEF OutputInv

(* A buffer of bytes that belong to packet p.                              *)
BufferOf(b, p) ==
    /\ b \in Seq(WireByte)
    /\ b # <<>>
    /\ \A i \in DOMAIN b : b[i].of = p

LEMMA SizedBuffer ==
    ASSUME NEW p, NEW b, BufferOf(b, p)
    PROVE  BufferOf(WithSize(b), p) /\ DOMAIN WithSize(b) = 1 .. (IF Len(b) <= 2 THEN 2 ELSE Len(b))
<1> DEFINE n == IF Len(b) <= 2 THEN 2 ELSE Len(b)
           field == (Len(b) - 4 + 2) % 65536
           sized == [i \in 1 .. n |->
                        IF i <= 2 THEN [of |-> b[1].of, i |-> i, size |-> field, key |-> 0]
                        ELSE b[i]]
<1>1. /\ b \in Seq(WireByte) /\ Len(b) \in Nat \ {0} /\ n \in Nat \ {0}
      /\ \A i \in 1 .. Len(b) : b[i] \in WireByte /\ b[i].of = p
  BY DEF BufferOf
<1>2. field \in Int
  BY <1>1
<1>3. WithSize(b) = sized
  BY <1>1, LongerOfTwo DEF WithSize
<1> HIDE DEF field
<1>4. \A i \in 1 .. n : sized[i] \in WireByte /\ sized[i].of = p
  <2> SUFFICES ASSUME NEW i \in 1 .. n
               PROVE  sized[i] \in WireByte /\ sized[i].of = p
    OBVIOUS
  <2>1. CASE i <= 2
    <3>1. b[1].of = p /\ p \in 1 .. MaxQueued
      BY <1>1 DEF WireByte
    <3> QED
      BY <2>1, <3>1, <1>1, <1>2 DEF WireByte
  <2>2. CASE ~(i <= 2)
    BY <2>2, <1>1
  <2> QED
    BY <2>1, <2>2
<1>5. sized \in [1 .. n -> WireByte]
  BY <1>4
<1>6. sized \in Seq(WireByte) /\ Len(sized) = n /\ sized # <<>> /\ DOMAIN sized = 1 .. n
  BY <1>1, <1>5
<1> QED
  BY <1>3, <1>4, <1>6 DEF BufferOf

LEMMA EncryptedBuffer ==
    ASSUME NEW p, NEW b, BufferOf(b, p), send_i \in Nat
    PROVE  BufferOf(encrypt(b), p) /\ DOMAIN encrypt(b) = DOMAIN b
<1>1. /\ b \in Seq(WireByte) /\ Len(b) \in Nat \ {0} /\ DOMAIN b = 1 .. Len(b)
      /\ \A i \in 1 .. Len(b) : b[i] \in WireByte /\ b[i].of = p
  BY DEF BufferOf
<1>2. \A i \in 1 .. Len(b) : encrypt(b)[i] \in WireByte /\ encrypt(b)[i].of = p
  <2> SUFFICES ASSUME NEW i \in 1 .. Len(b)
               PROVE  encrypt(b)[i] \in WireByte /\ encrypt(b)[i].of = p
    OBVIOUS
  <2>1. [b[i] EXCEPT !.key = send_i + i] \in WireByte
    <3> DEFINE k == send_i + i
    <3>1. k \in Nat /\ b[i] \in WireByte
      BY <1>1
    <3> HIDE DEF k
    <3>2. [b[i] EXCEPT !.key = k] \in WireByte
      BY <3>1 DEF WireByte
    <3> QED
      BY <3>2 DEF k
  <2>2. [b[i] EXCEPT !.key = send_i + i].of = p
    BY <1>1 DEF WireByte
  <2> QED
    BY <1>1, <2>1, <2>2 DEF encrypt
<1>3. encrypt(b) \in [1 .. Len(b) -> WireByte]
  BY <1>1, <1>2 DEF encrypt
<1>4. encrypt(b) \in Seq(WireByte) /\ Len(encrypt(b)) = Len(b)
  BY <1>1, <1>3
<1> QED
  BY <1>1, <1>2, <1>3, <1>4 DEF BufferOf

(* What is given to the connection belongs to the first packet not yet     *)
(* written, and is that packet encoded if none of it was written before.   *)
LEMMA FirstWaits ==
    ASSUME OutputInv, Writes, NEW p, p = Done + 1
    PROVE  /\ ~failed /\ out_active /\ p \in 1 .. Len(sizes)
           /\ Head(packet_queue) = packet_queue[1]
           /\ BufferOf(packet_queue[1], p)
           /\ packet_queue[1][1].of = p
           /\ p \notin ToSet(torn) => /\ packet_queue[1] = Buffer(p, sizes[p])
                                      /\ ~continue_send
<1>1. registered /\ packet_queue # <<>>
  BY DEF Writes
<1>2. ~failed /\ out_active
  BY <1>1 DEF OutputInv, Interest
<1>3. /\ packet_queue \in Seq(Seq(WireByte) \ {<<>>}) /\ Done \in Nat
      /\ Len(packet_queue) \in Nat \ {0}
      /\ \A i \in 1 .. Len(packet_queue) :
             packet_queue[i] \in Seq(WireByte) /\ packet_queue[i] # <<>>
  BY <1>1, QueueTypes DEF OutputInv
<1>4. 1 \in 1 .. Len(packet_queue) /\ p \in 1 .. Len(sizes)
  BY <1>3 DEF OutputInv, QueueInOrder
<1>5. BufferOf(packet_queue[1], p)
  BY <1>2, <1>3, <1>4 DEF OutputInv, QueueInOrder, BufferOf
<1>6. packet_queue[1][1].of = p
  BY <1>5 DEF BufferOf
<1>7. Head(packet_queue) = packet_queue[1]
  BY <1>3
<1>8. p \notin ToSet(torn) => packet_queue[1] = Buffer(p, sizes[p]) /\ ~continue_send
  BY <1>2, <1>4 DEF OutputInv, QueueInOrder, Begun
<1> QED
  BY <1>2, <1>4, <1>5, <1>6, <1>7, <1>8

LEMMA WhatIsReady ==
    ASSUME OutputInv, Writes, NEW p, p = Done + 1
    PROVE  BufferOf(Ready, p)
<1> DEFINE head == Head(packet_queue)
           sized == IF proxyd THEN WithSize(head) ELSE head
<1>1. BufferOf(head, p)
  BY FirstWaits
<1>2. send_i \in Nat
  BY QueueTypes DEF OutputInv
<1> HIDE DEF head
<1>3. BufferOf(sized, p)
  BY <1>1, SizedBuffer
<1> HIDE DEF sized
<1>4. BufferOf(IF Encrypts THEN encrypt(sized) ELSE sized, p)
  BY <1>2, <1>3, EncryptedBuffer
<1>5. Ready = IF Encrypts THEN encrypt(sized) ELSE sized
  BY DEF Ready, sized, head
<1> QED
  BY <1>4, <1>5

(* The cipher's count after a header has been given to the connection.     *)
LEMMA CountsOn ==
    ASSUME OutputInv, Writes, NEW p, p = Done + 1
    PROVE  /\ send_i' \in Nat /\ plain' \in Nat
           /\ ~is_initialised => send_i' = 0
           /\ proxyd /\ is_initialised =>
                  plain' <= p /\ send_i' = CRYPTED_SEND_LEN * (p - plain')
           /\ proxyd /\ ~is_initialised => plain' = p
           /\ proxyd /\ p \notin ToSet(torn) /\ is_initialised =>
                  plain' = plain /\ plain < p /\ send_i = CRYPTED_SEND_LEN * (p - plain - 1)
           /\ proxyd /\ plain' # plain => plain' = p /\ plain = p - 1
<1>1. /\ send_i' = IF Encrypts THEN send_i + CRYPTED_SEND_LEN ELSE send_i
      /\ plain' = IF ~is_initialised /\ ~continue_send THEN p ELSE plain
  BY FirstWaits DEF Writes
<1>2. /\ send_i \in Nat /\ plain \in Nat /\ Done \in Nat
      /\ proxyd \in BOOLEAN /\ continue_send \in BOOLEAN /\ is_initialised \in BOOLEAN
  BY QueueTypes DEF OutputInv
<1>3. ~failed /\ (p \notin ToSet(torn) => ~continue_send)
  BY FirstWaits
<1>4. /\ is_initialised => proxyd
      /\ ~is_initialised => send_i = 0
      /\ proxyd => IF is_initialised
                   THEN /\ plain <= HeadersWritten
                        /\ send_i = CRYPTED_SEND_LEN * (HeadersWritten - plain)
                   ELSE plain = HeadersWritten
  BY <1>3 DEF OutputInv, KeyStreamCounted
<1>5. HeadersWritten = IF continue_send THEN p ELSE p - 1
  BY <1>2 DEF HeadersWritten
<1>6. CRYPTED_SEND_LEN = 4
  BY DEF CRYPTED_SEND_LEN
<1>7. CASE ~proxyd
  BY <1>1, <1>2, <1>3, <1>4, <1>7, <1>6 DEF Encrypts
<1>8. CASE proxyd /\ is_initialised
  BY <1>1, <1>2, <1>3, <1>4, <1>5, <1>6, <1>8 DEF Encrypts
<1>9. CASE proxyd /\ ~is_initialised
  BY <1>1, <1>2, <1>3, <1>4, <1>5, <1>6, <1>9 DEF Encrypts
<1> QED
  BY <1>2, <1>7, <1>8, <1>9

(* Packets written before keep their encoding.                             *)
LEMMA EncodingStands ==
    ASSUME OutputInv, Writes, UNCHANGED <<proxyd, sizes>>, NEW q \in 1 .. Done
    PROVE  Encoded(q)' = Encoded(q)
<1> DEFINE p == Done + 1
<1>1. Done \in Nat /\ plain \in Nat /\ proxyd \in BOOLEAN
  BY QueueTypes DEF OutputInv
<1>2. proxyd /\ plain' # plain => plain' = p /\ plain = p - 1
  BY CountsOn
<1>3. CASE ~proxyd
  BY <1>3 DEF Encoded
<1>4. CASE plain' = plain
  BY <1>4 DEF Encoded
<1>5. CASE proxyd /\ plain' # plain
  <2>1. ~(q > plain') /\ ~(q > plain)
    BY <1>1, <1>2, <1>5
  <2> QED
    BY <1>5, <2>1 DEF Encoded
<1> QED
  BY <1>1, <1>3, <1>4, <1>5

(* A packet of which nothing was written before is given to the connection *)
(* as the client has to receive it.                                        *)
LEMMA ReadyIsEncoded ==
    ASSUME OutputInv, Writes, UNCHANGED <<proxyd, sizes>>,
           NEW p, p = Done + 1, p \notin ToSet(torn)
    PROVE  Ready = Encoded(p)' /\ Len(Ready) = sizes[p]
<1> DEFINE size == sizes[p]
           head == Buffer(p, size)
           sized == [i \in 1 .. size |->
                        [of |-> p, i |-> i, size |-> IF i <= 2 THEN size - 2 ELSE -1, key |-> 0]]
<1>1. /\ Head(packet_queue) = head
      /\ ~failed /\ p \in 1 .. Len(sizes) /\ ~continue_send
  BY FirstWaits
<1>2. size \in Nat /\ 4 <= size /\ size <= 65537
  BY <1>1, QueueTypes DEF OutputInv
<1> HIDE DEF size
<1>3. Len(head) = size /\ DOMAIN head = 1 .. size /\ head[1].of = p
  BY <1>2 DEF Buffer
<1>4. WithSize(head) = sized
  <2>1. Max({2, Len(head)}) = size
    BY <1>2, <1>3, LongerOfTwo
  <2>2. (Len(head) - 4 + 2) % 65536 = size - 2
    BY <1>2, <1>3
  <2>3. WithSize(head) =
            [i \in 1 .. size |->
                IF i <= 2 THEN [of |-> p, i |-> i, size |-> size - 2, key |-> 0] ELSE head[i]]
    BY <1>3, <2>1, <2>2 DEF WithSize
  <2> QED
    BY <2>3 DEF Buffer
<1>5. /\ proxyd /\ is_initialised =>
             plain' = plain /\ plain < p /\ send_i = CRYPTED_SEND_LEN * (p - plain - 1)
      /\ proxyd /\ ~is_initialised => plain' = p
  BY CountsOn
<1>6. Encoded(p)' =
          [i \in 1 .. size |->
              [of |-> p, i |-> i,
               size |-> IF proxyd /\ i <= 2 THEN size - 2 ELSE -1,
               key |-> IF proxyd /\ i <= CRYPTED_SEND_LEN /\ p > plain'
                       THEN CRYPTED_SEND_LEN * (p - plain' - 1) + i ELSE 0]]
  BY DEF Encoded, size
<1>7. Ready = LET s == IF proxyd THEN WithSize(head) ELSE head
              IN  IF proxyd /\ is_initialised THEN encrypt(s) ELSE s
  BY <1>1 DEF Ready, Encrypts
<1>8. p \in Nat /\ plain \in Nat /\ proxyd \in BOOLEAN /\ is_initialised \in BOOLEAN
  BY QueueTypes DEF OutputInv
<1>9. CASE ~proxyd
  <2>1. is_initialised => proxyd
    BY DEF OutputInv, KeyStreamCounted
  <2>2. Ready = head
    BY <1>7, <1>9, <2>1
  <2>3. Encoded(p)' = head
    BY <1>6, <1>9 DEF Buffer
  <2> QED
    BY <1>3, <2>2, <2>3 DEF size
<1>10. CASE proxyd /\ ~is_initialised
  <2>1. Ready = sized
    BY <1>4, <1>7, <1>10
  <2>2. ~(p > plain')
    BY <1>5, <1>8, <1>10
  <2>3. Encoded(p)' = sized
    BY <1>6, <1>10, <2>2
  <2>4. Len(sized) = size
    BY <1>2
  <2> QED
    BY <2>1, <2>3, <2>4 DEF size
<1>11. CASE proxyd /\ is_initialised
  <2> DEFINE base == CRYPTED_SEND_LEN * (p - plain - 1)
             encoded == [i \in 1 .. size |->
                            [of |-> p, i |-> i, size |-> IF i <= 2 THEN size - 2 ELSE -1,
                             key |-> IF i <= CRYPTED_SEND_LEN THEN base + i ELSE 0]]
  <2>1. p > plain' /\ plain' = plain /\ send_i = base
    BY <1>5, <1>8, <1>11
  <2>2. Encoded(p)' = encoded
    BY <1>6, <1>11, <2>1
  <2> HIDE DEF base
  <2>3. encrypt(sized) = encoded
    BY <2>1 DEF encrypt
  <2>4. Ready = encrypt(sized)
    BY <1>4, <1>7, <1>11
  <2>5. Len(encoded) = size
    BY <1>2
  <2> QED
    BY <2>2, <2>3, <2>4, <2>5 DEF size
<1> QED
  BY <1>8, <1>9, <1>10, <1>11

(* The first part of a longer sequence, and its last part.                 *)
LEMMA PartsOfJoined ==
    ASSUME NEW S, NEW a \in Seq(S), NEW b \in Seq(S)
    PROVE  /\ a \o b \in Seq(S) /\ Len(a \o b) = Len(a) + Len(b)
           /\ \A m \in 1 .. Len(a) + 1, n \in 0 .. Len(a) :
                  SubSeq(a \o b, m, n) = SubSeq(a, m, n)
           /\ SubSeq(a \o b, Len(a) + 1, Len(a) + Len(b)) = b
<1>1. /\ a \o b \in Seq(S) /\ Len(a \o b) = Len(a) + Len(b)
      /\ \A i \in 1 .. Len(a) : (a \o b)[i] = a[i]
      /\ \A i \in 1 .. Len(b) : (a \o b)[Len(a) + i] = b[i]
  OBVIOUS
<1> DEFINE c == a \o b
<1>2. Len(a) \in Nat /\ Len(b) \in Nat
  OBVIOUS
<1> HIDE DEF c
<1>3. ASSUME NEW m \in 1 .. Len(a) + 1, NEW n \in 0 .. Len(a)
      PROVE  SubSeq(c, m, n) = SubSeq(a, m, n)
  <2>1. \A i \in 1 .. 1 + n - m : c[i + m - 1] = a[i + m - 1]
    <3> SUFFICES ASSUME NEW i \in 1 .. 1 + n - m
                 PROVE  c[i + m - 1] = a[i + m - 1]
      OBVIOUS
    <3>1. i + m - 1 \in 1 .. Len(a)
      BY <1>2
    <3> QED
      BY <1>1, <3>1 DEF c
  <2>2. /\ SubSeq(c, m, n) = [i \in 1 .. 1 + n - m |-> c[i + m - 1]]
        /\ SubSeq(a, m, n) = [i \in 1 .. 1 + n - m |-> a[i + m - 1]]
    BY <1>1, <1>2 DEF c
  <2> QED
    BY <2>1, <2>2
<1>4. SubSeq(c, Len(a) + 1, Len(a) + Len(b)) = b
  BY <1>1, <1>2 DEF c
<1> QED
  BY <1>1, <1>3, <1>4 DEF c

(* The bytes of a packet written before stay where they are.               *)
LEMMA WrittenStays ==
    ASSUME OutputInv, Writes, UNCHANGED <<proxyd, sizes>>,
           NEW q \in 1 .. Done, NEW more \in Seq(WireByte), wire' = wire \o more
    PROVE  /\ ends[q] <= Len(wire')
           /\ q \notin ToSet(torn) =>
                  /\ sizes[q] <= ends[q]
                  /\ SubSeq(wire', ends[q] - sizes[q] + 1, ends[q]) = Encoded(q)'
<1>1. /\ wire \in Seq(WireByte) /\ Len(wire) \in Nat /\ Done \in Nat
      /\ Len(packet_queue) \in Nat /\ Len(sizes) \in Nat
      /\ \A i \in 1 .. Len(sizes) : sizes[i] \in Nat
      /\ \A i \in 1 .. Len(ends) : ends[i] \in Nat
  BY QueueTypes DEF OutputInv
<1>2. q \in 1 .. Len(sizes) /\ q \in 1 .. Len(ends)
  BY <1>1 DEF OutputInv, QueueInOrder, Done
<1>3. /\ Len(wire') = Len(wire) + Len(more) /\ Len(more) \in Nat
      /\ \A m \in 1 .. Len(wire) + 1, n \in 0 .. Len(wire) :
             SubSeq(wire', m, n) = SubSeq(wire, m, n)
  BY <1>1, PartsOfJoined
<1>4. /\ ends[q] <= Len(wire)
      /\ q \notin ToSet(torn) =>
             /\ sizes[q] <= ends[q]
             /\ SubSeq(wire, ends[q] - sizes[q] + 1, ends[q]) = Encoded(q)
  BY DEF OutputInv, WrittenIntact
<1>5. ends[q] \in Nat /\ sizes[q] \in Nat
  BY <1>1, <1>2
<1>6. ASSUME q \notin ToSet(torn)
      PROVE  SubSeq(wire', ends[q] - sizes[q] + 1, ends[q]) = Encoded(q)'
  <2>1. ends[q] - sizes[q] + 1 \in 1 .. Len(wire) + 1 /\ ends[q] \in 0 .. Len(wire)
    BY <1>1, <1>4, <1>5, <1>6
  <2> QED
    BY <1>3, <1>4, <1>6, <2>1, EncodingStands
<1>7. q \notin ToSet(torn) =>
          /\ sizes[q] <= ends[q]
          /\ SubSeq(wire', ends[q] - sizes[q] + 1, ends[q]) = Encoded(q)'
  BY <1>4, <1>6
<1>8. ends[q] <= Len(wire')
  BY <1>1, <1>3, <1>4, <1>5
<1> QED
  BY <1>7, <1>8

(* The connection takes the whole buffer.                                  *)
LEMMA OutputInvWritePacket ==
    ASSUME OutputInv, write_packet
    PROVE  OutputInv'
<1> DEFINE p == Done + 1
           end == Len(wire) + Len(Ready)
<1>1. /\ Writes
      /\ wire' = wire \o Ready
      /\ ends' = Append(ends, end)
      /\ packet_queue' = Tail(packet_queue)
      /\ continue_send' = FALSE
      /\ registered' = (packet_queue' # <<>>)
      /\ out_active' = (packet_queue' # <<>>)
      /\ UNCHANGED <<proxyd, sizes, is_initialised, torn, failed>>
  BY DEF write_packet
<1>2. /\ packet_queue \in Seq(Seq(WireByte) \ {<<>>}) /\ wire \in Seq(WireByte)
      /\ ends \in Seq(Nat) /\ Len(ends) = Done
      /\ Len(packet_queue) \in Nat /\ Done \in Nat /\ Len(wire) \in Nat
      /\ p \in Nat
  BY QueueTypes DEF OutputInv, Done
<1>3. BufferOf(Ready, p) /\ ~failed /\ p \in 1 .. Len(sizes)
  BY <1>1, WhatIsReady, FirstWaits
<1>4. Ready \in Seq(WireByte) /\ Len(Ready) \in Nat /\ end \in Nat
  BY <1>2, <1>3 DEF BufferOf
<1>5. /\ ends' \in Seq(Nat) /\ Len(ends') = p
      /\ ends'[p] = end
      /\ \A q \in 1 .. Done : ends'[q] = ends[q]
  <2> HIDE DEF end
  <2> QED
    BY <1>1, <1>2, <1>4, AppendProperties
<1>6. /\ send_i' \in Nat /\ plain' \in Nat
      /\ ~is_initialised => send_i' = 0
      /\ proxyd /\ is_initialised => plain' <= p /\ send_i' = CRYPTED_SEND_LEN * (p - plain')
      /\ proxyd /\ ~is_initialised => plain' = p
  BY <1>1, CountsOn
<1>7. /\ packet_queue' \in Seq(Seq(WireByte) \ {<<>>})
      /\ Len(packet_queue') = Len(packet_queue) - 1
      /\ \A k \in 1 .. Len(packet_queue) - 1 : packet_queue'[k] = packet_queue[k + 1]
  <2> DEFINE Buffers == Seq(WireByte) \ {<<>>}
  <2>1. packet_queue \in Seq(Buffers) /\ packet_queue # <<>>
    BY <1>1, <1>2 DEF Writes
  <2> HIDE DEF Buffers
  <2>2. /\ packet_queue' \in Seq(Buffers)
        /\ Len(packet_queue') = Len(packet_queue) - 1
        /\ \A k \in 1 .. Len(packet_queue) - 1 : packet_queue'[k] = packet_queue[k + 1]
    BY <1>1, <2>1
  <2> QED
    BY <2>2 DEF Buffers
<1>8. wire' \in Seq(WireByte) /\ Len(wire') = end
  BY <1>1, <1>2, <1>4, PartsOfJoined
<1>9. Done' = p /\ ToSet(torn') = ToSet(torn) /\ ~Begun' /\ HeadersWritten' = p
  <2>1. Done' = p
    BY <1>5 DEF Done
  <2>2. ToSet(torn) \subseteq 1 .. p
    BY DEF OutputInv, QueueInOrder
  <2>3. p + 1 \notin ToSet(torn)
    BY <1>2, <2>2
  <2> QED
    BY <1>1, <2>1, <2>3 DEF Begun, HeadersWritten
<1> HIDE DEF end
<1>10. OutputTypes'
  <2>1. OutputTypeOK'
    BY <1>1, <1>7, <1>8 DEF OutputInv, OutputTypes, OutputTypeOK
  <2> QED
    BY <1>1, <1>5, <1>6, <2>1 DEF OutputInv, OutputTypes
<1>11. Interest'
  BY <1>1, <1>3 DEF OutputInv, Interest
<1>12. QueueInOrder'
  <2>1. Len(sizes) = Done + Len(packet_queue)
    BY DEF OutputInv, QueueInOrder
  <2>2. Len(sizes') = Done' + Len(packet_queue')
    BY <1>1, <1>2, <1>7, <1>9, <2>1
  <2>3. ToSet(torn') \subseteq 1 .. Done' + 1
    <3>1. ToSet(torn) \subseteq 1 .. p
      BY DEF OutputInv, QueueInOrder
    <3>2. 1 .. p \subseteq 1 .. p + 1
      BY <1>2
    <3> QED
      BY <1>9, <3>1, <3>2
  <2>4. ASSUME NEW k \in 1 .. Len(packet_queue')
        PROVE  /\ \A i \in DOMAIN packet_queue'[k] : packet_queue'[k][i].of = Done' + k
               /\ Done' + k \notin ToSet(torn') =>
                      packet_queue'[k] = Buffer(Done' + k, sizes'[Done' + k])
    <3>1. /\ k + 1 \in 1 .. Len(packet_queue) /\ packet_queue'[k] = packet_queue[k + 1]
          /\ Done' + k = Done + (k + 1)
      <4>1. /\ Done \in Nat /\ Done' = Done + 1 /\ Len(packet_queue) \in Nat
            /\ Len(packet_queue') = Len(packet_queue) - 1
        BY <1>2, <1>7, <1>9
      <4>2. k \in 1 .. Len(packet_queue) - 1
        BY <4>1
      <4>3. packet_queue'[k] = packet_queue[k + 1]
        BY <1>7, <4>2
      <4>4. k + 1 \in 1 .. Len(packet_queue) /\ Done' + k = Done + (k + 1)
        BY <4>1, <4>2
      <4> QED
        BY <4>3, <4>4
    <3>2. /\ \A i \in DOMAIN packet_queue[k + 1] : packet_queue[k + 1][i].of = Done + (k + 1)
          /\ Done + (k + 1) \notin ToSet(torn) =>
                 packet_queue[k + 1] = Buffer(Done + (k + 1), sizes[Done + (k + 1)])
      BY <1>3, <3>1 DEF OutputInv, QueueInOrder
    <3> QED
      BY <1>1, <1>9, <3>1, <3>2
  <2> QED
    BY <1>1, <1>9, <2>2, <2>3, <2>4 DEF QueueInOrder
<1>13. KeyStreamCounted'
  BY <1>1, <1>6, <1>9 DEF OutputInv, KeyStreamCounted
<1>14. WrittenIntact'
  <2>1. ASSUME NEW q \in 1 .. p
        PROVE  /\ ends'[q] <= Len(wire')
               /\ q \notin ToSet(torn') =>
                      /\ sizes'[q] <= ends'[q]
                      /\ SubSeq(wire', ends'[q] - sizes'[q] + 1, ends'[q]) = Encoded(q)'
    <3>1. CASE q \in 1 .. Done
      BY <1>1, <1>4, <1>5, <3>1, WrittenStays
    <3>2. CASE q = p
      <4>1. ends'[q] = end /\ end <= Len(wire')
        BY <1>4, <1>5, <1>8, <3>2
      <4>2. ASSUME q \notin ToSet(torn')
            PROVE  /\ sizes'[q] <= ends'[q]
                   /\ SubSeq(wire', ends'[q] - sizes'[q] + 1, ends'[q]) = Encoded(q)'
        <5>1. Ready = Encoded(q)' /\ Len(Ready) = sizes[q]
          BY <1>1, <3>2, <4>2, ReadyIsEncoded
        <5>2. /\ end = Len(wire) + Len(Ready) /\ end - sizes[q] + 1 = Len(wire) + 1
              /\ sizes[q] <= end
          BY <1>2, <1>4, <5>1 DEF end
        <5>3. SubSeq(wire', Len(wire) + 1, Len(wire) + Len(Ready)) = Ready
          BY <1>1, <1>2, <1>4, PartsOfJoined
        <5>4. SubSeq(wire', end - sizes[q] + 1, end) = Encoded(q)'
          BY <5>1, <5>2, <5>3
        <5>5. sizes'[q] = sizes[q]
          BY <1>1
        <5> QED
          BY <4>1, <5>2, <5>4, <5>5
      <4> QED
        BY <4>1, <4>2
    <3> QED
      BY <1>2, <3>1, <3>2
  <2> QED
    BY <1>9, <2>1 DEF WrittenIntact
<1> QED
  BY <1>10, <1>11, <1>12, <1>13, <1>14 DEF OutputInv

(* A buffer put in the place of the first one.                             *)
LEMMA HeadReplaced ==
    ASSUME NEW S, NEW s \in Seq(S), s # <<>>, NEW b \in S
    PROVE  LET t == <<b>> \o Tail(s)
           IN  /\ t \in Seq(S) /\ Len(t) = Len(s) /\ t # <<>>
               /\ t[1] = b
               /\ \A k \in 2 .. Len(s) : t[k] = s[k]
<1> DEFINE r == Tail(s)
           u == <<b>>
           t == u \o r
<1>1. /\ r \in Seq(S) /\ Len(r) = Len(s) - 1 /\ Len(s) \in Nat \ {0}
      /\ \A k \in 1 .. Len(s) - 1 : r[k] = s[k + 1]
  OBVIOUS
<1>2. u \in Seq(S) /\ Len(u) = 1 /\ u[1] = b
  OBVIOUS
<1> HIDE DEF r, u
<1>3. /\ t \in Seq(S) /\ Len(t) = 1 + Len(r)
      /\ t[1] = b
      /\ \A k \in 1 .. Len(r) : t[1 + k] = r[k]
  <2>r. r \in Seq(S)
    BY <1>1
  <2>u. u \in Seq(S)
    BY <1>2
  <2>t. /\ t \in Seq(S)
        /\ Len(t) = Len(u) + Len(r)
        /\ \A i \in 1 .. Len(u) + Len(r) :
               t[i] = IF i <= Len(u) THEN u[i] ELSE r[i - Len(u)]
    BY <2>r, <2>u, ConcatProperties
  <2> HIDE DEF t
  <2>1. /\ t \in Seq(S) /\ Len(t) = 1 + Len(r)
        /\ \A i \in 1 .. Len(u) + Len(r) :
               t[i] = IF i <= Len(u) THEN u[i] ELSE r[i - Len(u)]
    BY <2>t, <1>2
  <2>2. Len(r) \in Nat
    BY <1>1
  <2>3. t[1] = b
    BY <1>2, <2>1, <2>2
  <2>4. ASSUME NEW k \in 1 .. Len(r)
        PROVE  t[1 + k] = r[k]
    <3>1. 1 + k \in 1 .. Len(u) + Len(r) /\ ~(1 + k <= Len(u)) /\ 1 + k - Len(u) = k
      BY <1>2, <2>2
    <3> QED
      BY <2>1, <3>1
  <2> QED
    BY <2>1, <2>3, <2>4 DEF t
<1> HIDE DEF t
<1>4. ASSUME NEW k \in 2 .. Len(s)
      PROVE  t[k] = s[k]
  <2> DEFINE j == k - 1
  <2>1. j \in 1 .. Len(r) /\ 1 + j = k /\ j \in 1 .. Len(s) - 1 /\ j + 1 = k
    BY <1>1
  <2> HIDE DEF j
  <2>2. t[1 + j] = r[j] /\ r[j] = s[j + 1]
    BY <1>1, <1>3, <2>1
  <2> QED
    BY <2>1, <2>2
<1>5. t # <<>> /\ Len(t) = Len(s)
  BY <1>1, <1>3
<1> QED
  BY <1>3, <1>4, <1>5 DEF t, u, r

(* The connection takes a part of the buffer.                              *)
LEMMA OutputInvWritePart ==
    ASSUME OutputInv, write_part
    PROVE  OutputInv'
<1> DEFINE p == Done + 1
<1>1. PICK sent \in 1 .. Len(Ready) - 1 :
          /\ wire' = wire \o SubSeq(Ready, 1, sent)
          /\ packet_queue' = <<remainder(Ready, sent)>> \o Tail(packet_queue)
  BY DEF write_part
<1>2. /\ Writes
      /\ continue_send' = proxyd
      /\ torn' = Append(torn, Ready[1].of)
      /\ UNCHANGED <<proxyd, sizes, out_active, registered, is_initialised, ends, failed>>
  BY DEF write_part
<1> DEFINE piece == SubSeq(Ready, 1, sent)
           rest == remainder(Ready, sent)
<1>3. /\ packet_queue \in Seq(Seq(WireByte) \ {<<>>}) /\ wire \in Seq(WireByte)
      /\ torn \in Seq(Nat) /\ Len(torn) \in Nat
      /\ Len(packet_queue) \in Nat /\ Done \in Nat /\ Len(wire) \in Nat
      /\ p \in Nat /\ proxyd \in BOOLEAN
  BY QueueTypes DEF OutputInv
<1>4. BufferOf(Ready, p) /\ ~failed /\ out_active /\ p \in 1 .. Len(sizes)
  BY <1>2, WhatIsReady, FirstWaits
<1>5. /\ Ready \in Seq(WireByte) /\ Len(Ready) \in Nat
      /\ \A i \in 1 .. Len(Ready) : Ready[i] \in WireByte /\ Ready[i].of = p
      /\ Ready[1].of = p
  BY <1>4 DEF BufferOf
<1>6. piece \in Seq(WireByte)
  BY <1>5, SubSeqProperties
<1>7. BufferOf(rest, p)
  <2> DEFINE n == Len(Ready) - sent
  <2>1. n \in Nat \ {0} /\ \A i \in 1 .. n : sent + i - 1 \in 1 .. Len(Ready)
    BY <1>5
  <2>2. rest = [i \in 1 .. n |-> Ready[sent + i - 1]]
    BY DEF remainder
  <2> HIDE DEF n, rest
  <2>3. rest \in [1 .. n -> WireByte] /\ \A i \in 1 .. n : rest[i].of = p
    BY <1>5, <2>1, <2>2
  <2>4. rest \in Seq(WireByte) /\ Len(rest) = n /\ rest # <<>> /\ DOMAIN rest = 1 .. n
    BY <2>1, <2>3
  <2> QED
    BY <2>3, <2>4 DEF BufferOf
<1> HIDE DEF piece, rest
<1>8. /\ packet_queue' \in Seq(Seq(WireByte) \ {<<>>})
      /\ Len(packet_queue') = Len(packet_queue) /\ packet_queue' # <<>>
      /\ packet_queue'[1] = rest
      /\ \A k \in 2 .. Len(packet_queue) : packet_queue'[k] = packet_queue[k]
  <2> DEFINE Buffers == Seq(WireByte) \ {<<>>}
  <2>1. packet_queue \in Seq(Buffers) /\ packet_queue # <<>> /\ rest \in Buffers
    BY <1>2, <1>3, <1>7 DEF Writes, BufferOf
  <2>2. packet_queue' = <<rest>> \o Tail(packet_queue)
    BY <1>1 DEF rest
  <2> HIDE DEF Buffers
  <2>3. /\ packet_queue' \in Seq(Buffers)
        /\ Len(packet_queue') = Len(packet_queue) /\ packet_queue' # <<>>
        /\ packet_queue'[1] = rest
        /\ \A k \in 2 .. Len(packet_queue) : packet_queue'[k] = packet_queue[k]
    BY <2>1, <2>2, HeadReplaced
  <2> QED
    BY <2>3 DEF Buffers
<1>9. /\ wire' = wire \o piece
      /\ wire' \in Seq(WireByte)
  BY <1>1, <1>3, <1>6, PartsOfJoined DEF piece
<1>10. /\ torn' \in Seq(Nat)
       /\ ToSet(torn') = ToSet(torn) \union {p}
  <2>1. torn' = Append(torn, p)
    BY <1>2, <1>5
  <2> HIDE DEF p
  <2>2. /\ torn' \in Seq(Nat) /\ Len(torn') = Len(torn) + 1 /\ torn'[Len(torn) + 1] = p
        /\ \A i \in 1 .. Len(torn) : torn'[i] = torn[i]
    BY <1>3, <2>1, AppendProperties
  <2>3. ToSet(torn') = {torn'[i] : i \in 1 .. Len(torn) + 1}
    BY <2>2 DEF ToSet
  <2>4. ToSet(torn) = {torn[i] : i \in 1 .. Len(torn)}
    BY <1>3 DEF ToSet
  <2>5. \A i \in 1 .. Len(torn) + 1 : i \in 1 .. Len(torn) \/ i = Len(torn) + 1
    BY <1>3
  <2>6. Len(torn) + 1 \in 1 .. Len(torn) + 1 /\ \A i \in 1 .. Len(torn) : i \in 1 .. Len(torn) + 1
    BY <1>3
  <2>7. ASSUME NEW x \in ToSet(torn')
        PROVE  x \in ToSet(torn) \union {p}
    BY <2>2, <2>3, <2>4, <2>5
  <2>8. ASSUME NEW x \in ToSet(torn) \union {p}
        PROVE  x \in ToSet(torn')
    BY <2>2, <2>3, <2>4, <2>6
  <2> QED
    BY <2>2, <2>7, <2>8
<1>11. /\ send_i' \in Nat /\ plain' \in Nat
       /\ ~is_initialised => send_i' = 0
       /\ proxyd /\ is_initialised => plain' <= p /\ send_i' = CRYPTED_SEND_LEN * (p - plain')
       /\ proxyd /\ ~is_initialised => plain' = p
  BY <1>2, CountsOn
<1>12. Done' = Done /\ Begun' /\ (proxyd => HeadersWritten' = p)
  BY <1>2, <1>10 DEF Done, Begun, HeadersWritten
<1>13. OutputTypes'
  <2>1. OutputTypeOK'
    BY <1>2, <1>3, <1>4, <1>8, <1>9 DEF OutputInv, OutputTypes, OutputTypeOK
  <2> QED
    BY <1>2, <1>10, <1>11, <2>1 DEF OutputInv, OutputTypes
<1>14. Interest'
  BY <1>2, <1>4, <1>8 DEF OutputInv, Interest, Writes
<1>15. QueueInOrder'
  <2>1. Len(sizes') = Done' + Len(packet_queue')
    BY <1>2, <1>8, <1>12 DEF OutputInv, QueueInOrder
  <2>2. ToSet(torn') \subseteq 1 .. Done' + 1
    <3>1. p \in 1 .. Done + 1
      BY <1>3
    <3> QED
      BY <1>10, <1>12, <3>1 DEF OutputInv, QueueInOrder
  <2>3. ASSUME NEW k \in 1 .. Len(packet_queue')
        PROVE  /\ \A i \in DOMAIN packet_queue'[k] : packet_queue'[k][i].of = Done + k
               /\ Done + k \notin ToSet(torn') =>
                      packet_queue'[k] = Buffer(Done + k, sizes[Done + k])
    <3>1. CASE k = 1
      BY <1>7, <1>8, <1>10, <3>1 DEF BufferOf
    <3>2. CASE k \in 2 .. Len(packet_queue)
      <4>1. k \in 1 .. Len(packet_queue) /\ packet_queue'[k] = packet_queue[k]
        BY <1>3, <1>8, <3>2
      <4>2. Done + k \notin ToSet(torn') => Done + k \notin ToSet(torn)
        BY <1>10
      <4> QED
        BY <1>4, <4>1, <4>2 DEF OutputInv, QueueInOrder
    <3> QED
      BY <1>3, <1>8, <3>1, <3>2
  <2>4. /\ Begun' => packet_queue' # <<>>
        /\ continue_send' => Begun'
        /\ proxyd' /\ Begun' => continue_send'
    BY <1>2, <1>8, <1>12
  <2> QED
    BY <1>2, <1>12, <2>1, <2>2, <2>3, <2>4 DEF QueueInOrder
<1>16. KeyStreamCounted'
  BY <1>2, <1>11, <1>12 DEF OutputInv, KeyStreamCounted
<1>17. WrittenIntact'
  <2>1. ASSUME NEW q \in 1 .. Done
        PROVE  /\ ends[q] <= Len(wire')
               /\ q \notin ToSet(torn') =>
                      /\ sizes[q] <= ends[q]
                      /\ SubSeq(wire', ends[q] - sizes[q] + 1, ends[q]) = Encoded(q)'
    <3>1. q \notin ToSet(torn') => q \notin ToSet(torn)
      BY <1>10
    <3> QED
      BY <1>2, <1>6, <1>9, <3>1, WrittenStays
  <2> QED
    BY <1>2, <1>12, <2>1 DEF WrittenIntact
<1> QED
  BY <1>13, <1>14, <1>15, <1>16, <1>17 DEF OutputInv

(* The write fails: the buffer, sized and encrypted, stays.                *)
LEMMA OutputInvWriteFails ==
    ASSUME OutputInv, write_fails
    PROVE  OutputInv'
<1> DEFINE p == Done + 1
<1>1. /\ Writes
      /\ packet_queue' = <<Ready>> \o Tail(packet_queue)
      /\ continue_send' = FALSE
      /\ registered' = FALSE
      /\ failed' = TRUE
      /\ UNCHANGED <<proxyd, sizes, out_active, is_initialised, wire, ends, torn>>
  BY DEF write_fails
<1>2. packet_queue \in Seq(Seq(WireByte) \ {<<>>}) /\ wire \in Seq(WireByte)
  BY QueueTypes DEF OutputInv
<1>3. BufferOf(Ready, p) /\ out_active
  BY <1>1, WhatIsReady, FirstWaits
<1>4. /\ packet_queue' \in Seq(Seq(WireByte) \ {<<>>})
      /\ Len(packet_queue') = Len(packet_queue) /\ packet_queue' # <<>>
  <2> DEFINE Buffers == Seq(WireByte) \ {<<>>}
             first == Ready
  <2>1. packet_queue \in Seq(Buffers) /\ packet_queue # <<>> /\ first \in Buffers
    BY <1>1, <1>2, <1>3 DEF Writes, BufferOf
  <2>2. packet_queue' = <<first>> \o Tail(packet_queue)
    BY <1>1
  <2> HIDE DEF Buffers, first
  <2>3. /\ packet_queue' \in Seq(Buffers)
        /\ Len(packet_queue') = Len(packet_queue) /\ packet_queue' # <<>>
    BY <2>1, <2>2, HeadReplaced
  <2> QED
    BY <2>3 DEF Buffers
<1>5. send_i' \in Nat /\ plain' \in Nat /\ (~is_initialised => send_i' = 0)
  BY <1>1, CountsOn
<1>6. Done' = Done /\ Begun' = Begun
  BY <1>1 DEF Done, Begun
<1>7. OutputTypes'
  <2>1. OutputTypeOK'
    BY <1>1, <1>4 DEF OutputInv, OutputTypes, OutputTypeOK
  <2> QED
    BY <1>1, <1>5, <2>1 DEF OutputInv, OutputTypes
<1>8. Interest'
  BY <1>1, <1>3 DEF Interest
<1>9. QueueInOrder'
  BY <1>1, <1>4, <1>6 DEF OutputInv, QueueInOrder
<1>10. KeyStreamCounted'
  BY <1>1, <1>5 DEF OutputInv, KeyStreamCounted
<1>11. WrittenIntact'
  <2>1. ASSUME NEW q \in 1 .. Done
        PROVE  Encoded(q)' = Encoded(q)
    BY <1>1, EncodingStands
  <2> QED
    BY <1>1, <1>6, <2>1 DEF OutputInv, WrittenIntact
<1> QED
  BY <1>7, <1>8, <1>9, <1>10, <1>11 DEF OutputInv

LEMMA OutputInvStep == OutputInv /\ [OutputNext]_outputVars => OutputInv'
<1> SUFFICES ASSUME OutputInv, [OutputNext]_outputVars
             PROVE  OutputInv'
  OBVIOUS
<1>1. CASE UNCHANGED outputVars
  <2>1. UNCHANGED <<proxyd, sizes, packet_queue, out_active, registered, continue_send,
                    is_initialised, send_i, wire, plain, ends, torn, failed>>
    BY <1>1 DEF outputVars
  <2>2. Done' = Done /\ Begun' = Begun /\ HeadersWritten' = HeadersWritten
    BY <2>1 DEF Done, Begun, HeadersWritten
  <2>3. OutputTypes' /\ Interest' /\ QueueInOrder' /\ KeyStreamCounted'
    BY <2>1, <2>2 DEF OutputInv, OutputTypes, OutputTypeOK, Interest, QueueInOrder,
                      KeyStreamCounted
  <2>4. WrittenIntact'
    BY <2>1, <2>2 DEF OutputInv, WrittenIntact, Encoded
  <2> QED
    BY <2>3, <2>4 DEF OutputInv
<1> QED
  BY <1>1, OutputInvSend, OutputInvKey, OutputInvWritePacket, OutputInvWritePart,
     OutputInvWriteFails DEF OutputNext, handle_output

LEMMA OutputInvGivesWire == OutputInv => WireIntact /\ WriteInterest
<1> SUFFICES ASSUME OutputInv
             PROVE  WireIntact /\ WriteInterest
  OBVIOUS
<1>1. DOMAIN ends = 1 .. Done
  BY QueueTypes DEF OutputInv, Done
<1>2. WireIntact
  BY <1>1 DEF OutputInv, WrittenIntact, WireIntact
<1>3. WriteInterest
  BY DEF OutputInv, Interest, WriteInterest
<1> QED
  BY <1>2, <1>3

-----------------------------------------------------------------------------
(* The input of a socket.                                                  *)

(* A set of positions that holds all positions before its members begins   *)
(* at one and has no gap.                                                  *)
LEMMA WithoutGap ==
    ASSUME NEW n \in Nat, NEW A \in SUBSET (1 .. n), \A i \in A : 1 .. i \subseteq A
    PROVE  Cardinality(A) \in 0 .. n /\ A = 1 .. Cardinality(A)
<1>1. IsFiniteSet(1 .. n) /\ Cardinality(1 .. n) = n
  BY FS_Interval
<1>2. IsFiniteSet(A) /\ Cardinality(A) <= n /\ Cardinality(A) \in Nat
  BY <1>1, FS_Subset, FS_CardinalityType
<1>3. ASSUME NEW k \in A
      PROVE  k <= Cardinality(A)
  <2>1. Cardinality(1 .. k) = k /\ IsFiniteSet(1 .. k)
    BY FS_Interval
  <2> QED
    BY <1>2, <2>1, FS_Subset
<1>4. ASSUME NEW k \in 1 .. n, k \notin A
      PROVE  Cardinality(A) < k
  <2>1. Cardinality(1 .. k - 1) = k - 1 /\ IsFiniteSet(1 .. k - 1)
    BY FS_Interval
  <2>2. A \subseteq 1 .. k - 1
    BY <1>4
  <2>3. Cardinality(A) <= Cardinality(1 .. k - 1)
    BY <2>1, <2>2, FS_Subset
  <2> QED
    BY <1>2, <2>1, <2>3
<1>5. \A k \in 1 .. n : k \in A <=> k <= Cardinality(A)
  BY <1>2, <1>3, <1>4
<1>6. ASSUME NEW k \in A
      PROVE  k \in 1 .. Cardinality(A)
  <2>1. k \in 1 .. n
    OBVIOUS
  <2> QED
    BY <1>2, <1>5, <2>1
<1>7. ASSUME NEW k \in 1 .. Cardinality(A)
      PROVE  k \in A
  <2>1. k \in 1 .. n
    BY <1>2
  <2> QED
    BY <1>2, <1>5, <2>1
<1>8. A = 1 .. Cardinality(A)
  BY <1>6, <1>7
<1>9. Cardinality(A) \in 0 .. n
  BY <1>2
<1> QED
  BY <1>8, <1>9

(* What holds of the first position, and of the next one wherever it       *)
(* holds, holds of all: induction over a bounded interval, as a set.       *)
LEMMA UpTo ==
    ASSUME NEW n \in Nat, NEW T \in SUBSET (1 .. n),
           n # 0 => 1 \in T,
           \A k \in 1 .. n - 1 : k \in T => k + 1 \in T
    PROVE  T = 1 .. n
<1> DEFINE B == {k \in 1 .. n : 1 .. k \subseteq T}
           c == Cardinality(B)
<1>1. \A k \in B : 1 .. k \subseteq B
  <2> SUFFICES ASSUME NEW k \in B, NEW j \in 1 .. k
               PROVE  j \in B
    OBVIOUS
  <2>1. j \in 1 .. n /\ 1 .. j \subseteq 1 .. k
    OBVIOUS
  <2> QED
    BY <2>1
<1>2. c \in 0 .. n /\ B = 1 .. c
  <2> HIDE DEF B
  <2>1. B \in SUBSET (1 .. n)
    BY DEF B
  <2> QED
    BY <1>1, <2>1, WithoutGap
<1> HIDE DEF c
<1>3. 1 .. c \subseteq T
  <2>1. CASE c = 0
    BY <2>1
  <2>2. CASE c # 0
    <3>1. c \in B
      BY <1>2, <2>2
    <3> QED
      BY <3>1
  <2> QED
    BY <2>1, <2>2
<1>4. ASSUME c # n
      PROVE  FALSE
  <2>1. c + 1 \in T
    <3>1. CASE c = 0
      BY <1>2, <1>4, <3>1
    <3>2. CASE c # 0
      <4>1. c \in 1 .. n - 1 /\ c \in 1 .. c
        BY <1>2, <1>4, <3>2
      <4> QED
        BY <1>3, <4>1
    <3> QED
      BY <3>1, <3>2
  <2>2. \A j \in 1 .. c + 1 : j \in 1 .. c \/ j = c + 1
    BY <1>2
  <2>3. 1 .. c + 1 \subseteq T /\ c + 1 \in 1 .. n
    BY <1>2, <1>3, <1>4, <2>1, <2>2
  <2>4. c + 1 \in B
    BY <2>3
  <2>5. c + 1 \notin 1 .. c
    BY <1>2
  <2> QED
    BY <1>2, <2>4, <2>5
<1> QED
  BY <1>3, <1>4

(* FlattenSeq appends the sequences one after the other.                   *)
LEMMA Flattened ==
    ASSUME NEW s, NEW n \in Nat \ {0}, Len(s) = n
    PROVE  \E f : /\ f = [i \in 1 .. n |-> IF i = 1 THEN s[i] ELSE f[i - 1] \o s[i]]
                  /\ FlattenSeq(s) = f[n]
<1> DEFINE Solves(f, k) == f = [i \in 1 .. k |-> IF i = 1 THEN s[i] ELSE f[i - 1] \o s[i]]
           T == {k \in 1 .. n : \E f : Solves(f, k)}
<1>1. 1 \in T
  <2> DEFINE f == [i \in 1 .. 1 |-> s[i]]
  <2>1. Solves(f, 1)
    OBVIOUS
  <2> HIDE DEF f, Solves
  <2>2. \E h : Solves(h, 1)
    BY <2>1
  <2> QED
    BY <2>2
<1>2. ASSUME NEW k \in 1 .. n - 1, k \in T
      PROVE  k + 1 \in T
  <2>1. PICK f : Solves(f, k)
    BY <1>2
  <2> DEFINE g == [i \in 1 .. k + 1 |-> IF i <= k THEN f[i] ELSE f[k] \o s[i]]
  <2>2. \A i \in 1 .. k : f[i] = IF i = 1 THEN s[i] ELSE f[i - 1] \o s[i]
    BY <2>1
  <2>3. ASSUME NEW i \in 1 .. k + 1
        PROVE  g[i] = IF i = 1 THEN s[i] ELSE g[i - 1] \o s[i]
    <3>1. CASE i = 1
      BY <2>2, <3>1
    <3>2. CASE i # 1 /\ i <= k
      <4>1. i \in 1 .. k /\ i - 1 \in 1 .. k
        BY <3>2
      <4>2. g[i] = f[i] /\ g[i - 1] = f[i - 1]
        BY <4>1
      <4> HIDE DEF g
      <4> QED
        BY <2>2, <3>2, <4>1, <4>2
    <3>3. CASE i = k + 1
      <4>1. k \in 1 .. k + 1 /\ ~(i <= k) /\ k <= k /\ i - 1 = k /\ i # 1
        BY <3>3
      <4>2. g[i] = f[k] \o s[i] /\ g[k] = f[k]
        BY <4>1
      <4> HIDE DEF g
      <4> QED
        BY <4>1, <4>2
    <3> QED
      BY <3>1, <3>2, <3>3
  <2>4. Solves(g, k + 1)
    <3>1. g = [i \in 1 .. k + 1 |-> g[i]]
      OBVIOUS
    <3> HIDE DEF g
    <3> QED
      BY <2>3, <3>1
  <2> HIDE DEF g, Solves
  <2>5. \E h : Solves(h, k + 1)
    BY <2>4
  <2>6. k + 1 \in 1 .. n
    OBVIOUS
  <2> QED
    BY <2>5, <2>6
<1>3. \E f : Solves(f, n)
  <2> HIDE DEF Solves
  <2>1. T = 1 .. n
    <3>1. T \in SUBSET (1 .. n)
      OBVIOUS
    <3> HIDE DEF T
    <3> QED
      BY <1>1, <1>2, <3>1, UpTo
  <2>2. n \in T
    BY <2>1
  <2> QED
    BY <2>2
<1> DEFINE F == CHOOSE f : Solves(f, n)
<1>4. Solves(F, n)
  <2> HIDE DEF Solves
  <2> QED
    BY <1>3
<1>5. FlattenSeq(s) = F[n]
  BY DEF FlattenSeq
<1> HIDE DEF F
<1> QED
  BY <1>4, <1>5

(* The bytes of the stream.                                                *)
InputByte ==
    {b \in (1 .. Len(payloads)) \X Nat : b[2] \in 1 .. HeaderSize + payloads[b[1]]}

SizeOf(k) == HeaderSize + payloads[k]

(* The first k packets end at offset[k] of bytes.                          *)
Layout(k, offset, bytes) ==
    /\ offset \in [0 .. k -> Nat]
    /\ offset[0] = 0
    /\ \A j \in 1 .. k : offset[j] = offset[j - 1] + SizeOf(j)
    /\ \A j \in 0 .. k : offset[j] <= offset[k]
    /\ bytes \in Seq(InputByte)
    /\ Len(bytes) = offset[k]
    /\ \A j \in 1 .. k : \A i \in 1 .. SizeOf(j) : bytes[offset[j - 1] + i] = <<j, i>>

Whole == FlattenSeq(Packets)

Offset == CHOOSE offset : Layout(Len(payloads), offset, Whole)

InputSizes == payloads \in Seq(Payload) /\ Len(payloads) <= MaxPackets

LEMMA SizesOfPackets ==
    ASSUME InputSizes
    PROVE  /\ Len(payloads) \in Nat /\ DOMAIN payloads = 1 .. Len(payloads)
           /\ \A k \in 1 .. Len(payloads) :
                  /\ payloads[k] \in Payload /\ payloads[k] \in Nat
                  /\ SizeOf(k) \in Nat /\ SizeOf(k) >= HeaderSize /\ SizeOf(k) = 6 + payloads[k]
                  /\ PacketBytes(k) \in Seq(InputByte)
                  /\ Len(PacketBytes(k)) = SizeOf(k)
                  /\ \A i \in 1 .. SizeOf(k) : /\ PacketBytes(k)[i] = <<k, i>>
                                             /\ <<k, i>> \in InputByte
<1>1. Len(payloads) \in Nat /\ DOMAIN payloads = 1 .. Len(payloads)
  BY DEF InputSizes
<1>2. ASSUME NEW k \in 1 .. Len(payloads)
      PROVE  /\ payloads[k] \in Payload /\ payloads[k] \in Nat
             /\ SizeOf(k) \in Nat /\ SizeOf(k) >= HeaderSize /\ SizeOf(k) = 6 + payloads[k]
             /\ PacketBytes(k) \in Seq(InputByte)
             /\ Len(PacketBytes(k)) = SizeOf(k)
             /\ \A i \in 1 .. SizeOf(k) : /\ PacketBytes(k)[i] = <<k, i>>
                                        /\ <<k, i>> \in InputByte
  <2>1. payloads[k] \in Payload /\ payloads[k] \in Nat
    <3>1. payloads \in Seq(Payload)
      BY DEF InputSizes
    <3>2. payloads[k] \in Payload
      BY <3>1
    <3> QED
      BY <3>2, InputAssumption
  <2>2. SizeOf(k) \in Nat /\ SizeOf(k) >= HeaderSize /\ SizeOf(k) = 6 + payloads[k]
    BY <2>1 DEF SizeOf, HeaderSize
  <2>3. PacketBytes(k) = [i \in 1 .. SizeOf(k) |-> <<k, i>>]
    BY DEF PacketBytes, SizeOf
  <2>4. \A i \in 1 .. SizeOf(k) : <<k, i>> \in InputByte
    BY <1>2, <2>2 DEF InputByte, SizeOf
  <2>5. PacketBytes(k) \in [1 .. SizeOf(k) -> InputByte]
    BY <2>3, <2>4
  <2>6. PacketBytes(k) \in Seq(InputByte) /\ Len(PacketBytes(k)) = SizeOf(k)
    <3> HIDE DEF InputByte
    <3> QED
      BY <2>2, <2>5
  <2> QED
    BY <2>1, <2>2, <2>3, <2>4, <2>6
<1> QED
  BY <1>1, <1>2

(* One packet more.                                                        *)
LEMMA LayoutGrows ==
    ASSUME InputSizes, NEW k \in Nat, k + 1 \in 1 .. Len(payloads),
           NEW offset, NEW bytes, Layout(k, offset, bytes)
    PROVE  \E longer : Layout(k + 1, longer, bytes \o PacketBytes(k + 1))
<1> DEFINE longer == [j \in 0 .. k + 1 |-> IF j <= k THEN offset[j] ELSE offset[k] + SizeOf(k + 1)]
           more == PacketBytes(k + 1)
           joined == bytes \o more
<1>1. /\ SizeOf(k + 1) \in Nat /\ more \in Seq(InputByte) /\ Len(more) = SizeOf(k + 1)
      /\ \A i \in 1 .. SizeOf(k + 1) : more[i] = <<k + 1, i>>
  BY SizesOfPackets
<1>2. /\ offset \in [0 .. k -> Nat] /\ offset[0] = 0
      /\ \A j \in 1 .. k : offset[j] = offset[j - 1] + SizeOf(j)
      /\ \A j \in 0 .. k : offset[j] <= offset[k]
      /\ bytes \in Seq(InputByte) /\ Len(bytes) = offset[k]
      /\ \A j \in 1 .. k : \A i \in 1 .. SizeOf(j) : bytes[offset[j - 1] + i] = <<j, i>>
  BY DEF Layout
<1>3. \A j \in 0 .. k : offset[j] \in Nat
  BY <1>2
<1>4. offset[k] \in Nat
  BY <1>3
<1> HIDE DEF more
<1>5. /\ joined \in Seq(InputByte) /\ Len(joined) = Len(bytes) + Len(more)
      /\ \A i \in 1 .. Len(bytes) + Len(more) :
             joined[i] = IF i <= Len(bytes) THEN bytes[i] ELSE more[i - Len(bytes)]
  BY <1>1, <1>2, ConcatProperties
<1>6. /\ \A j \in 0 .. k : longer[j] = offset[j]
      /\ longer[k + 1] = offset[k] + SizeOf(k + 1)
  <2>1. \A j \in 0 .. k : j \in 0 .. k + 1 /\ j <= k
    OBVIOUS
  <2>2. k + 1 \in 0 .. k + 1 /\ ~(k + 1 <= k)
    OBVIOUS
  <2> QED
    BY <2>1, <2>2
<1>7. longer \in [0 .. k + 1 -> Nat]
  <2> SUFFICES ASSUME NEW j \in 0 .. k + 1
               PROVE  longer[j] \in Nat
    OBVIOUS
  <2> QED
    BY <1>1, <1>3, <1>4
<1> HIDE DEF longer, joined
<1>8. ASSUME NEW j \in 1 .. k + 1
      PROVE  /\ longer[j] = longer[j - 1] + SizeOf(j)
             /\ \A i \in 1 .. SizeOf(j) : joined[longer[j - 1] + i] = <<j, i>>
  <2>1. CASE j \in 1 .. k
    <3>1. /\ j \in 0 .. k /\ j - 1 \in 0 .. k
          /\ longer[j] = offset[j] /\ longer[j - 1] = offset[j - 1]
      BY <1>6, <2>1
    <3>2. offset[j] = offset[j - 1] + SizeOf(j) /\ offset[j] <= offset[k]
      BY <1>2, <2>1, <3>1
    <3>3. ASSUME NEW i \in 1 .. SizeOf(j)
          PROVE  joined[longer[j - 1] + i] = <<j, i>>
      <4>1. SizeOf(j) \in Nat /\ j \in 1 .. Len(payloads)
        BY <2>1, SizesOfPackets
      <4> DEFINE at == offset[j - 1] + i
      <4>2. offset[j - 1] \in Nat /\ offset[j] \in Nat /\ Len(bytes) = offset[k]
        BY <1>2, <1>3, <3>1
      <4>3. Len(more) \in Nat /\ i \in Nat /\ i >= 1 /\ i <= SizeOf(j)
        BY <1>1, <4>1
      <4>4. at \in Nat /\ at >= 1 /\ at <= Len(bytes)
        BY <1>4, <3>2, <4>1, <4>2, <4>3
      <4>5. at \in 1 .. Len(bytes) + Len(more)
        BY <1>4, <4>2, <4>3, <4>4
      <4>6. bytes[at] = <<j, i>>
        BY <1>2, <2>1
      <4> HIDE DEF at
      <4>7. joined[at] = <<j, i>>
        BY <1>5, <4>4, <4>5, <4>6
      <4> QED
        BY <3>1, <4>7 DEF at
    <3> QED
      BY <3>1, <3>2, <3>3
  <2>2. CASE j = k + 1
    <3>1. j - 1 = k /\ k \in 0 .. k /\ longer[j - 1] = offset[k]
      BY <1>6, <2>2
    <3>2. ASSUME NEW i \in 1 .. SizeOf(j)
          PROVE  joined[longer[j - 1] + i] = <<j, i>>
      <4> DEFINE at == offset[k] + i
      <4>1. /\ at \in 1 .. Len(bytes) + Len(more)
            /\ ~(at <= Len(bytes)) /\ at - Len(bytes) = i
        BY <1>1, <1>2, <1>4, <2>2
      <4> HIDE DEF at
      <4>2. joined[at] = more[at - Len(bytes)]
        BY <1>5, <4>1
      <4>3. more[i] = <<j, i>>
        BY <1>1, <2>2
      <4> QED
        BY <3>1, <4>1, <4>2, <4>3 DEF at
    <3> QED
      BY <1>6, <2>2, <3>1, <3>2
  <2> QED
    BY <2>1, <2>2
<1>9. ASSUME NEW j \in 0 .. k + 1
      PROVE  longer[j] <= longer[k + 1]
  <2>1. CASE j \in 0 .. k
    BY <1>1, <1>2, <1>3, <1>4, <1>6, <2>1
  <2>2. CASE j = k + 1
    BY <1>1, <1>4, <1>6, <2>2
  <2> QED
    BY <2>1, <2>2
<1>10. longer[0] = 0 /\ Len(joined) = longer[k + 1]
  BY <1>1, <1>2, <1>5, <1>6
<1>11. Layout(k + 1, longer, joined)
  BY <1>5, <1>7, <1>8, <1>9, <1>10 DEF Layout
<1> QED
  BY <1>11 DEF joined, more

(* The stream is the packets one after the other.                          *)
LEMMA WholeIsLaidOut ==
    ASSUME InputSizes
    PROVE  Layout(Len(payloads), Offset, Whole)
<1> DEFINE n == Len(payloads)
<1>1. n \in Nat /\ DOMAIN payloads = 1 .. n
  BY SizesOfPackets
<1>2. /\ Len(Packets) = n
      /\ \A k \in 1 .. n : Packets[k] = PacketBytes(k)
  BY <1>1 DEF Packets
<1>3. Layout(0, [j \in 0 .. 0 |-> 0], <<>>)
  <2> DEFINE start == [j \in 0 .. 0 |-> 0]
  <2>1. start \in [0 .. 0 -> Nat] /\ start[0] = 0 /\ \A j \in 0 .. 0 : j = 0
    OBVIOUS
  <2>2. <<>> \in Seq(InputByte) /\ Len(<<>>) = 0
    OBVIOUS
  <2> HIDE DEF start
  <2>3. Layout(0, start, <<>>)
    BY <2>1, <2>2 DEF Layout
  <2> QED
    BY <2>3 DEF start
<1>4. CASE n = 0
  <2>1. Whole = <<>>
    <3>1. Packets = <<>>
      BY <1>1, <1>4 DEF Packets
    <3> QED
      BY <3>1 DEF Whole, FlattenSeq
  <2>2. \E offset : Layout(n, offset, Whole)
    BY <1>3, <1>4, <2>1
  <2> QED
    BY <2>2 DEF Offset
<1>5. CASE n # 0
  <2>1. PICK f : /\ f = [i \in 1 .. n |-> IF i = 1 THEN Packets[i] ELSE f[i - 1] \o Packets[i]]
                 /\ FlattenSeq(Packets) = f[n]
    BY <1>1, <1>2, <1>5, Flattened
  <2>2. \A i \in 1 .. n : f[i] = IF i = 1 THEN Packets[i] ELSE f[i - 1] \o Packets[i]
    BY <2>1
  <2> DEFINE T == {k \in 1 .. n : \E offset : Layout(k, offset, f[k])}
  <2>3. 1 \in T
    <3>1. 1 \in 1 .. n /\ 0 + 1 \in 1 .. n
      BY <1>1, <1>5
    <3>2. \E offset : Layout(0 + 1, offset, <<>> \o PacketBytes(0 + 1))
      BY <1>3, <3>1, LayoutGrows
    <3>3. <<>> \o PacketBytes(1) = f[1]
      <4>1. f[1] = PacketBytes(1)
        BY <1>2, <2>2, <3>1
      <4>2. PacketBytes(1) \in Seq(InputByte)
        BY <3>1, SizesOfPackets
      <4> QED
        BY <4>1, <4>2, ConcatEmptySeq
    <3>4. \E offset : Layout(1, offset, f[1])
      BY <3>2, <3>3
    <3> QED
      BY <3>1, <3>4
  <2>4. ASSUME NEW k \in 1 .. n - 1, k \in T
        PROVE  k + 1 \in T
    <3>1. PICK offset : Layout(k, offset, f[k])
      BY <2>4
    <3>2. k \in Nat /\ k + 1 \in 1 .. n /\ k + 1 # 1 /\ (k + 1) - 1 = k
      BY <1>1
    <3>3. f[k + 1] = f[k] \o PacketBytes(k + 1)
      BY <1>2, <2>2, <3>2
    <3>4. \E longer : Layout(k + 1, longer, f[k + 1])
      BY <3>1, <3>2, <3>3, LayoutGrows
    <3> QED
      BY <3>2, <3>4
  <2>5. T = 1 .. n
    <3>1. T \in SUBSET (1 .. n)
      OBVIOUS
    <3> HIDE DEF T
    <3> QED
      BY <1>1, <2>3, <2>4, <3>1, UpTo
  <2>6. n \in T
    BY <1>1, <1>5, <2>5
  <2>7. \E offset : Layout(n, offset, Whole)
    BY <2>1, <2>6 DEF Whole
  <2> QED
    BY <2>7 DEF Offset
<1> QED
  BY <1>4, <1>5

LEMMA LayoutFixed ==
    ASSUME payloads' = payloads
    PROVE  /\ InputByte' = InputByte /\ Whole' = Whole /\ Offset' = Offset
           /\ InputSizes' <=> InputSizes
<1>1. InputByte' = InputByte
  BY DEF InputByte
<1>2. Whole' = Whole
  BY DEF Whole, Packets, PacketBytes
<1>3. Offset' = Offset
  BY <1>1, <1>2 DEF Offset, Layout, SizeOf
<1>4. InputSizes' <=> InputSizes
  BY DEF InputSizes
<1> QED
  BY <1>1, <1>2, <1>3, <1>4

Handled == Len(dispatched)

(* A packet was begun and is waited for.                                   *)
Receiving == expected_data # 0 /\ ~dangling

InputTypes ==
    /\ InputSizes
    /\ stream \in Seq(InputByte) /\ in_packet \in Seq(InputByte)
    /\ expected_data \in Nat
    /\ expected_data = 0 \/ \E size \in Payload : expected_data <= size
    /\ dangling \in BOOLEAN
    /\ reading \in {"on", "closed", "undefined"}

(* The packets handled are the first ones sent.                            *)
HandledInOrder ==
    /\ dispatched \in Seq(Seq(InputByte))
    /\ Handled <= Len(payloads)
    /\ \A j \in 1 .. Handled : dispatched[j] = PacketBytes(j)

(* Memory is misused only behind a packet that was handled.                *)
HeadersCounted ==
    /\ Receiving => Handled < Len(payloads)
    /\ decrypted = IF Receiving THEN Handled + 1 ELSE Handled
    /\ expected_data # 0 /\ dangling => Handled # 0
    /\ reading = "undefined" => expected_data # 0 /\ dangling

(* What was received of the packet that is waited for is its first part.   *)
PartReceived ==
    Receiving =>
        /\ Len(in_packet) + expected_data = SizeOf(Handled + 1)
        /\ \A i \in 1 .. Len(in_packet) : in_packet[i] = <<Handled + 1, i>>

(* Bytes taken off the stream.                                             *)
Position == Offset[Handled] + IF expected_data = 0 THEN 0 ELSE Len(in_packet)

(* The stream goes on behind them, until it is given up.                   *)
StreamFollows ==
    reading = "on" /\ (expected_data = 0 \/ ~dangling) =>
        /\ Len(stream) + Position = Len(Whole)
        /\ \A i \in 1 .. Len(stream) : stream[i] = Whole[Position + i]

InputInv == InputTypes /\ HandledInOrder /\ HeadersCounted /\ PartReceived /\ StreamFollows

LEMMA ReceivedBytes ==
    ASSUME NEW S, NEW from \in Seq(S), NEW n \in Nat, NEW m \in Received(from, n)
    PROVE  m \in Nat /\ m <= n /\ m <= Len(from)
<1>1. CASE n = 0 \/ from = <<>>
  BY <1>1 DEF Received
<1>2. CASE n # 0 /\ from # <<>>
  <2> DEFINE least == IF n <= Len(from) THEN n ELSE Len(from)
  <2>1. Len(from) \in Nat
    OBVIOUS
  <2>2. Min({n, Len(from)}) = least
    <3> DEFINE length == Len(from)
    <3>1. length \in Nat
      BY <2>1
    <3> HIDE DEF length
    <3> DEFINE short == IF n <= length THEN n ELSE length
    <3>2. short \in {n, length} /\ \A y \in {n, length} : short <= y
      BY <3>1
    <3>3. \A x \in {n, length} : (\A y \in {n, length} : x <= y) => x = short
      BY <3>1
    <3> HIDE DEF short
    <3>4. Min({n, length}) = short
      BY <3>2, <3>3 DEF Min
    <3> QED
      BY <3>4 DEF short, length
  <2>3. m \in 1 .. least
    BY <1>2, <2>2 DEF Received
  <2> HIDE DEF least
  <2>4. least <= n /\ least <= Len(from) /\ least \in Nat
    BY <2>1 DEF least
  <2> QED
    BY <2>1, <2>3, <2>4
<1> QED
  BY <1>1, <1>2

(* What is taken off a sequence, and what is left of it.                   *)
LEMMA TakenAndDropped ==
    ASSUME NEW S, NEW from \in Seq(S), NEW m \in Nat, m <= Len(from)
    PROVE  /\ Take(from, m) \in Seq(S) /\ Len(Take(from, m)) = m
           /\ \A i \in 1 .. m : Take(from, m)[i] = from[i]
           /\ Drop(from, m) \in Seq(S) /\ Len(Drop(from, m)) = Len(from) - m
           /\ \A i \in 1 .. Len(from) - m : Drop(from, m)[i] = from[m + i]
<1>1. /\ Take(from, m) \in Seq(S) /\ Len(Take(from, m)) = m
      /\ \A i \in 1 .. m : Take(from, m)[i] = from[i]
  BY DEF Take
<1>2. Drop(from, m) \in Seq(S) /\ Len(Drop(from, m)) = Len(from) - m
  BY DEF Drop
<1>3. \A i \in 1 .. Len(from) - m : Drop(from, m)[i] = from[m + i]
  BY DEF Drop
<1> QED
  BY <1>1, <1>2, <1>3

LEMMA InputFacts ==
    ASSUME InputInv
    PROVE  /\ Handled \in Nat /\ Handled <= Len(payloads) /\ Len(payloads) \in Nat
           /\ stream \in Seq(InputByte) /\ Len(stream) \in Nat
           /\ in_packet \in Seq(InputByte) /\ Len(in_packet) \in Nat
           /\ expected_data \in Nat /\ dangling \in BOOLEAN
           /\ dispatched \in Seq(Seq(InputByte))
           /\ Layout(Len(payloads), Offset, Whole)
           /\ \A k \in 0 .. Len(payloads) : Offset[k] \in Nat /\ Offset[k] <= Offset[Len(payloads)]
           /\ Len(Whole) = Offset[Len(payloads)]
           /\ Position \in Nat
<1>1. /\ InputSizes
      /\ stream \in Seq(InputByte) /\ in_packet \in Seq(InputByte)
      /\ expected_data \in Nat /\ dangling \in BOOLEAN
  BY DEF InputInv, InputTypes
<1>2. dispatched \in Seq(Seq(InputByte)) /\ Handled <= Len(payloads)
  BY DEF InputInv, HandledInOrder
<1>3. Handled \in Nat
  BY <1>2 DEF Handled
<1>4. Len(stream) \in Nat /\ Len(in_packet) \in Nat
  BY <1>1
<1>5. Len(payloads) \in Nat
  BY <1>1, SizesOfPackets
<1>6. Layout(Len(payloads), Offset, Whole)
  BY <1>1, WholeIsLaidOut
<1>7. /\ \A k \in 0 .. Len(payloads) : Offset[k] \in Nat /\ Offset[k] <= Offset[Len(payloads)]
      /\ Len(Whole) = Offset[Len(payloads)]
  BY <1>6 DEF Layout
<1>8. Position \in Nat
  <2>1. Offset[Handled] \in Nat
    BY <1>2, <1>3, <1>5, <1>7
  <2> QED
    BY <1>4, <2>1 DEF Position
<1> QED
  BY <1>1, <1>2, <1>3, <1>4, <1>5, <1>6, <1>7, <1>8

(* While a packet is received or another one is begun, the bytes ahead are *)
(* those of the first packet not yet handled.                              *)
LEMMA BytesAhead ==
    ASSUME InputInv, reading = "on", expected_data = 0 \/ ~dangling,
           NEW b \in Nat, b = IF expected_data = 0 THEN 0 ELSE Len(in_packet),
           stream # <<>>
    PROVE  /\ Handled < Len(payloads)
           /\ Len(stream) + Offset[Handled] + b = Len(Whole)
           /\ Offset[Handled + 1] = Offset[Handled] + SizeOf(Handled + 1)
           /\ \A i \in 1 .. Len(stream) : stream[i] = Whole[Offset[Handled] + b + i]
           /\ \A i \in 1 .. Len(stream) :
                  b + i <= SizeOf(Handled + 1) => stream[i] = <<Handled + 1, b + i>>
<1> DEFINE d == Handled
           n == Len(payloads)
<1>1. /\ d \in Nat /\ d <= n /\ n \in Nat /\ Len(stream) \in Nat /\ stream \in Seq(InputByte)
      /\ dangling \in BOOLEAN /\ expected_data \in Nat
      /\ Len(Whole) = Offset[n]
      /\ \A k \in 0 .. n : Offset[k] \in Nat
      /\ Layout(n, Offset, Whole)
  BY InputFacts
<1>2. Offset[d] \in Nat /\ Offset[n] \in Nat
  BY <1>1
<1>3. Position = Offset[d] + b
  BY DEF Position
<1>4. /\ Len(stream) + Position = Len(Whole)
      /\ \A i \in 1 .. Len(stream) : stream[i] = Whole[Position + i]
  BY DEF InputInv, StreamFollows
<1>5. Len(stream) # 0
  BY <1>1, EmptySeq
<1>6. d < n
  <2>1. CASE expected_data = 0
    BY <1>1, <1>2, <1>3, <1>4, <1>5, <2>1
  <2>2. CASE expected_data # 0
    BY <2>2 DEF InputInv, HeadersCounted, Receiving
  <2> QED
    BY <2>1, <2>2
<1>7. Len(stream) + Offset[d] + b = Len(Whole)
  BY <1>1, <1>2, <1>3, <1>4
<1>8. /\ d + 1 \in 1 .. n /\ (d + 1) - 1 = d
      /\ SizeOf(d + 1) \in Nat
      /\ Offset[d + 1] = Offset[d] + SizeOf(d + 1)
  <2>1. d + 1 \in 1 .. n /\ (d + 1) - 1 = d
    BY <1>1, <1>6
  <2>2. SizeOf(d + 1) \in Nat
    BY <2>1, SizesOfPackets DEF InputInv, InputTypes
  <2>3. Offset[d + 1] = Offset[(d + 1) - 1] + SizeOf(d + 1)
    BY <1>1, <2>1 DEF Layout
  <2> QED
    BY <2>1, <2>2, <2>3
<1>9. \A i \in 1 .. Len(stream) : stream[i] = Whole[Offset[d] + b + i]
  BY <1>3, <1>4
<1>10. ASSUME NEW i \in 1 .. Len(stream), b + i <= SizeOf(d + 1)
       PROVE  stream[i] = <<d + 1, b + i>>
  <2>1. b + i \in 1 .. SizeOf(d + 1)
    BY <1>1, <1>8, <1>10
  <2>2. Whole[Offset[(d + 1) - 1] + (b + i)] = <<d + 1, b + i>>
    BY <1>1, <1>8, <2>1 DEF Layout
  <2>3. Offset[(d + 1) - 1] + (b + i) = Offset[d] + b + i
    BY <1>2, <1>8
  <2> QED
    BY <1>9, <2>2, <2>3
<1> QED
  BY <1>6, <1>7, <1>8, <1>9, <1>10

LEMMA InputInvInit == InputInit => InputInv
<1> SUFFICES ASSUME InputInit
             PROVE  InputInv
  OBVIOUS
<1>1. /\ payloads \in UNION {[1 .. n -> Payload] : n \in 0 .. MaxPackets}
      /\ stream = Whole /\ in_packet = <<>> /\ expected_data = 0 /\ dangling = FALSE
      /\ decrypted = 0 /\ dispatched = <<>> /\ reading = "on"
  BY DEF InputInit, Whole
<1>2. InputSizes
  <2>1. PICK n \in 0 .. MaxPackets : payloads \in [1 .. n -> Payload]
    BY <1>1
  <2>2. n \in Nat /\ n <= MaxPackets
    BY <2>1, InputAssumption
  <2>3. payloads \in Seq(Payload) /\ Len(payloads) = n
    BY <2>1, <2>2
  <2> QED
    BY <2>2, <2>3 DEF InputSizes
<1>3. Layout(Len(payloads), Offset, Whole) /\ Len(payloads) \in Nat
  BY <1>2, WholeIsLaidOut, SizesOfPackets
<1>4. stream \in Seq(InputByte) /\ Offset[0] = 0
  BY <1>1, <1>3 DEF Layout
<1>5. Handled = 0 /\ ~Receiving /\ Position = 0
  BY <1>1, <1>4 DEF Handled, Receiving, Position
<1>6. InputTypes
  <2>1. in_packet \in Seq(InputByte)
    BY <1>1
  <2> QED
    BY <1>1, <1>2, <1>4, <2>1 DEF InputTypes
<1>7. HandledInOrder
  <2> DEFINE Bytes_ == Seq(InputByte)
  <2> HIDE DEF Bytes_
  <2>1. dispatched \in Seq(Bytes_)
    BY <1>1
  <2> QED
    BY <1>3, <1>5, <2>1 DEF HandledInOrder, Bytes_
<1>8. HeadersCounted /\ PartReceived
  BY <1>1, <1>5 DEF HeadersCounted, PartReceived
<1>9. StreamFollows
  <2>1. Len(stream) \in Nat /\ Len(stream) = Len(Whole)
    BY <1>1, <1>4
  <2>2. \A i \in 1 .. Len(stream) : Position + i = i
    BY <1>5
  <2> QED
    BY <1>1, <1>5, <2>1, <2>2 DEF StreamFollows
<1> QED
  BY <1>6, <1>7, <1>8, <1>9 DEF InputInv

(* A complete packet is handled.                                           *)
LEMMA OneMoreHandled ==
    ASSUME InputInv, Handled < Len(payloads), payloads' = payloads,
           NEW bytes \in Seq(InputByte), Len(bytes) = SizeOf(Handled + 1),
           \A i \in 1 .. Len(bytes) : bytes[i] = <<Handled + 1, i>>,
           dispatched' = Append(dispatched, bytes)
    PROVE  Handled' = Handled + 1 /\ HandledInOrder'
<1> DEFINE d == Handled
           Bytes_ == Seq(InputByte)
<1>1. /\ d \in Nat /\ Len(payloads) \in Nat /\ dispatched \in Seq(Bytes_) /\ d = Len(dispatched)
      /\ \A j \in 1 .. d : dispatched[j] = PacketBytes(j)
  BY InputFacts DEF InputInv, HandledInOrder, Handled
<1>2. /\ d + 1 \in 1 .. Len(payloads)
      /\ PacketBytes(d + 1) \in Seq(InputByte) /\ Len(PacketBytes(d + 1)) = SizeOf(d + 1)
      /\ \A i \in 1 .. SizeOf(d + 1) : PacketBytes(d + 1)[i] = <<d + 1, i>>
  <2>1. d + 1 \in 1 .. Len(payloads)
    BY <1>1
  <2> QED
    BY <2>1, SizesOfPackets DEF InputInv, InputTypes
<1>3. bytes = PacketBytes(d + 1)
  <2> DEFINE packet == PacketBytes(d + 1)
  <2>1. /\ packet \in Seq(InputByte) /\ Len(packet) = Len(bytes)
        /\ \A i \in 1 .. Len(bytes) : bytes[i] = packet[i]
    BY <1>2
  <2> HIDE DEF packet
  <2>2. bytes = packet
    BY <2>1, SeqEqual
  <2> QED
    BY <2>2 DEF packet
<1>4. bytes \in Bytes_
  OBVIOUS
<1> HIDE DEF Bytes_
<1>5. /\ dispatched' \in Seq(Bytes_) /\ Len(dispatched') = d + 1
      /\ dispatched'[d + 1] = bytes
      /\ \A j \in 1 .. d : dispatched'[j] = dispatched[j]
  BY <1>1, <1>4, AppendProperties
<1>6. Handled' = d + 1
  BY <1>5 DEF Handled
<1>7. ASSUME NEW j \in 1 .. d + 1
      PROVE  dispatched'[j] = PacketBytes(j)
  BY <1>1, <1>3, <1>5
<1>8. \A j \in 1 .. d + 1 : PacketBytes(j)' = PacketBytes(j)
  BY DEF PacketBytes
<1>9. Seq(InputByte)' = Bytes_
  BY LayoutFixed DEF Bytes_
<1>10. d + 1 <= Len(payloads')
  BY <1>2
<1> QED
  BY <1>5, <1>6, <1>7, <1>8, <1>9, <1>10 DEF HandledInOrder

(* The bytes are the first h + m of the sequence, the others are left.     *)
SplitBehind(S, from, h, m, bytes, left) ==
    /\ h + m <= Len(from)
    /\ bytes \in Seq(S) /\ Len(bytes) = h + m
    /\ \A i \in 1 .. h + m : bytes[i] = from[i]
    /\ left \in Seq(S) /\ Len(left) + h + m = Len(from)
    /\ \A i \in 1 .. Len(left) : left[i] = from[h + m + i]

(* A header and a part behind it, taken off a sequence.                    *)
LEMMA HeaderAndMore ==
    ASSUME NEW S, NEW from \in Seq(S), NEW h \in Nat, h <= Len(from),
           NEW m \in Nat, m <= Len(Drop(from, h))
    PROVE  SplitBehind(S, from, h, m, Take(from, h) \o Take(Drop(from, h), m),
                       Drop(Drop(from, h), m))
<1> DEFINE first == Take(from, h)
           rest == Drop(from, h)
           second == Take(rest, m)
           left == Drop(rest, m)
           bytes == first \o second
<1>1. Len(from) \in Nat
  OBVIOUS
<1>2. /\ first \in Seq(S) /\ Len(first) = h
      /\ \A i \in 1 .. h : first[i] = from[i]
      /\ rest \in Seq(S) /\ Len(rest) = Len(from) - h
      /\ \A i \in 1 .. Len(from) - h : rest[i] = from[h + i]
  BY TakenAndDropped
<1> HIDE DEF first, rest
<1>3. m <= Len(rest)
  BY DEF rest
<1>4. /\ second \in Seq(S) /\ Len(second) = m
      /\ \A i \in 1 .. m : second[i] = rest[i]
      /\ left \in Seq(S) /\ Len(left) = Len(rest) - m
      /\ \A i \in 1 .. Len(rest) - m : left[i] = rest[m + i]
  BY <1>2, <1>3, TakenAndDropped
<1> HIDE DEF second, left
<1>5. /\ bytes \in Seq(S) /\ Len(bytes) = Len(first) + Len(second)
      /\ \A i \in 1 .. Len(first) + Len(second) :
             bytes[i] = IF i <= Len(first) THEN first[i] ELSE second[i - Len(first)]
  <2>1. first \in Seq(S)
    BY <1>2
  <2>2. second \in Seq(S)
    BY <1>4
  <2> QED
    BY <2>1, <2>2, ConcatProperties
<1> HIDE DEF bytes
<1>6. ASSUME NEW i \in 1 .. h + m
      PROVE  bytes[i] = from[i]
  <2>1. CASE i <= h
    <3>1. i \in 1 .. h /\ i \in 1 .. Len(first) + Len(second) /\ i <= Len(first)
      BY <1>2, <1>4, <2>1
    <3> QED
      BY <1>2, <1>5, <3>1
  <2>2. CASE ~(i <= h)
    <3> DEFINE j == i - h
    <3>1. /\ j \in 1 .. m /\ j \in 1 .. Len(from) - h /\ h + j = i
          /\ i \in 1 .. Len(first) + Len(second) /\ ~(i <= Len(first)) /\ i - Len(first) = j
      BY <1>1, <1>2, <1>3, <1>4, <2>2
    <3> HIDE DEF j
    <3>2. bytes[i] = second[j]
      BY <1>5, <3>1
    <3>3. second[j] = rest[j]
      BY <1>4, <3>1
    <3>4. rest[j] = from[i]
      BY <1>2, <3>1
    <3> QED
      BY <3>2, <3>3, <3>4
  <2> QED
    BY <2>1, <2>2
<1>7. ASSUME NEW i \in 1 .. Len(left)
      PROVE  left[i] = from[h + m + i]
  <2> DEFINE j == m + i
  <2>1. i \in 1 .. Len(rest) - m
    BY <1>4
  <2>2. j \in 1 .. Len(from) - h /\ h + j = h + m + i
    BY <1>1, <1>2, <1>3, <2>1
  <2>3. left[i] = rest[j]
    BY <1>4, <2>1
  <2> HIDE DEF j
  <2>4. rest[j] = from[h + j]
    BY <1>2, <2>2
  <2> QED
    BY <2>2, <2>3, <2>4
<1>8. /\ h + m <= Len(from)
      /\ Len(left) + h + m = Len(from)
      /\ Len(bytes) = h + m
  BY <1>1, <1>2, <1>3, <1>4, <1>5
<1>9. SplitBehind(S, from, h, m, bytes, left)
  BY <1>4, <1>5, <1>6, <1>7, <1>8 DEF SplitBehind
<1> QED
  BY <1>9 DEF left, bytes, second, first, rest

(* The stream stands behind m more bytes.                                  *)
LEMMA StreamGoesOn ==
    ASSUME InputInv, payloads' = payloads, NEW p \in Nat, NEW k \in Nat, k <= Len(stream),
           Len(stream) + p = Len(Whole),
           \A i \in 1 .. Len(stream) : stream[i] = Whole[p + i],
           stream' \in Seq(InputByte), Len(stream') + k = Len(stream),
           \A i \in 1 .. Len(stream') : stream'[i] = stream[k + i],
           Position' = p + k
    PROVE  StreamFollows'
<1>1. Len(stream) \in Nat /\ Len(stream') \in Nat /\ Len(Whole) \in Nat
  BY InputFacts
<1>2. Whole' = Whole
  BY LayoutFixed
<1>3. Len(stream') + (p + k) = Len(Whole)
  <2>1. \A a, b, c \in Nat : a + k = b /\ b + p = c => a + (p + k) = c
    OBVIOUS
  <2> QED
    BY <1>1, <2>1
<1>4. ASSUME NEW i \in 1 .. Len(stream')
      PROVE  stream'[i] = Whole[(p + k) + i]
  <2>1. k + i \in 1 .. Len(stream) /\ p + (k + i) = (p + k) + i
    BY <1>1
  <2> QED
    BY <2>1
<1> QED
  BY <1>2, <1>3, <1>4 DEF StreamFollows

LEMMA InputInvReceivePacket ==
    ASSUME InputInv, reading = "on", receive_packet
    PROVE  InputInv'
<1>1. /\ expected_data = 0
      /\ HeaderSize \in Received(stream, HeaderSize)
      /\ decrypted' = decrypted + 1
      /\ UNCHANGED <<payloads, reading>>
  BY DEF receive_packet, decrypt
<1>2. PICK m \in Received(Drop(stream, HeaderSize), rest_of_packet(Take(stream, HeaderSize))) :
          /\ stream' = Drop(Drop(stream, HeaderSize), m)
          /\ expected_data' = PeekSize(Take(stream, HeaderSize)) - m - OpcodeSize
          /\ \/ /\ m + OpcodeSize = PeekSize(Take(stream, HeaderSize))
                /\ process_incoming(Take(stream, HeaderSize) \o Take(Drop(stream, HeaderSize), m))
             \/ /\ m + OpcodeSize # PeekSize(Take(stream, HeaderSize))
                /\ in_packet' = Take(stream, HeaderSize) \o Take(Drop(stream, HeaderSize), m)
                /\ dangling' = FALSE
                /\ UNCHANGED dispatched
  BY DEF receive_packet
<1>3. PICK d : d = Handled
  OBVIOUS
<1>4. PICK size : size = payloads[d + 1]
  OBVIOUS
<1>5. PICK bytes : bytes = Take(stream, HeaderSize) \o Take(Drop(stream, HeaderSize), m)
  OBVIOUS
<1>6. PICK start : start = Offset[d]
  OBVIOUS
<1>7. HeaderSize = 6 /\ OpcodeSize = 4 /\ HeaderSize \in Nat
  BY DEF HeaderSize, OpcodeSize
<1>8. /\ d \in Nat /\ d <= Len(payloads) /\ Len(payloads) \in Nat
      /\ stream \in Seq(InputByte) /\ Len(stream) \in Nat
      /\ \A k \in 0 .. Len(payloads) : Offset[k] \in Nat
  BY <1>3, InputFacts
<1>9. start \in Nat
  BY <1>6, <1>8
<1>10. HeaderSize <= Len(stream)
  BY <1>1, <1>7, <1>8, ReceivedBytes
<1>11. /\ d < Len(payloads)
       /\ Len(stream) + start = Len(Whole)
       /\ Offset[d + 1] = start + SizeOf(d + 1)
       /\ \A i \in 1 .. Len(stream) : stream[i] = Whole[start + i]
       /\ \A i \in 1 .. Len(stream) : i <= SizeOf(d + 1) => stream[i] = <<d + 1, i>>
  <2>1. stream # <<>>
    BY <1>7, <1>10
  <2>2. 0 = IF expected_data = 0 THEN 0 ELSE Len(in_packet)
    BY <1>1
  <2>3. /\ d < Len(payloads)
        /\ Len(stream) + start + 0 = Len(Whole)
        /\ Offset[d + 1] = start + SizeOf(d + 1)
        /\ \A i \in 1 .. Len(stream) : stream[i] = Whole[start + 0 + i]
        /\ \A i \in 1 .. Len(stream) : 0 + i <= SizeOf(d + 1) => stream[i] = <<d + 1, 0 + i>>
    BY <1>1, <1>3, <1>6, <2>1, <2>2, BytesAhead
  <2>4. start + 0 = start /\ \A i \in 1 .. Len(stream) : 0 + i = i
    BY <1>9
  <2> QED
    BY <1>8, <1>9, <2>3, <2>4
<1>12. /\ d + 1 \in 1 .. Len(payloads)
       /\ size \in Nat /\ size \in Payload /\ SizeOf(d + 1) = 6 + size
  <2>1. d + 1 \in 1 .. Len(payloads)
    BY <1>8, <1>11
  <2> QED
    BY <1>4, <2>1, SizesOfPackets DEF InputInv, InputTypes
<1>13. PeekSize(Take(stream, HeaderSize)) = size + 4 /\ rest_of_packet(Take(stream, HeaderSize)) = size
  <2>1. Take(stream, HeaderSize)[1] = stream[1]
    <3>1. \A i \in 1 .. HeaderSize : Take(stream, HeaderSize)[i] = stream[i]
      BY <1>7, <1>8, <1>10, TakenAndDropped
    <3> QED
      BY <1>7, <3>1
  <2>2. stream[1] = <<d + 1, 1>>
    BY <1>7, <1>8, <1>10, <1>11, <1>12
  <2>3. PeekSize(Take(stream, HeaderSize)) = size + 4
    BY <1>4, <1>7, <2>1, <2>2 DEF PeekSize
  <2> QED
    BY <1>7, <1>12, <2>3 DEF rest_of_packet
<1>14. m \in Nat /\ m <= size /\ m <= Len(Drop(stream, HeaderSize))
  <2>1. Drop(stream, HeaderSize) \in Seq(InputByte)
    BY <1>7, <1>8, <1>10, TakenAndDropped
  <2>2. m \in Received(Drop(stream, HeaderSize), size)
    BY <1>2, <1>13
  <2> QED
    BY <1>12, <2>1, <2>2, ReceivedBytes
<1>15. PICK k : k = 6 + m
  OBVIOUS
<1>16. /\ k \in Nat /\ k >= 6 /\ k <= 6 + size /\ k <= Len(stream)
       /\ bytes \in Seq(InputByte) /\ Len(bytes) = k
       /\ \A i \in 1 .. k : bytes[i] = stream[i]
       /\ stream' \in Seq(InputByte) /\ Len(stream') + k = Len(stream)
       /\ \A i \in 1 .. Len(stream') : stream'[i] = stream[k + i]
  <2>1. HeaderSize + m = k
    BY <1>7, <1>15
  <2>2. SplitBehind(InputByte, stream, HeaderSize, m,
                    Take(stream, HeaderSize) \o Take(Drop(stream, HeaderSize), m),
                    Drop(Drop(stream, HeaderSize), m))
    BY <1>7, <1>8, <1>10, <1>14, HeaderAndMore
  <2>3. /\ HeaderSize + m <= Len(stream)
        /\ bytes \in Seq(InputByte) /\ Len(bytes) = HeaderSize + m
        /\ \A i \in 1 .. HeaderSize + m : bytes[i] = stream[i]
        /\ stream' \in Seq(InputByte) /\ Len(stream') + HeaderSize + m = Len(stream)
        /\ \A i \in 1 .. Len(stream') : stream'[i] = stream[HeaderSize + m + i]
    BY <1>2, <1>5, <2>2 DEF SplitBehind
  <2>4. Len(stream') \in Nat /\ Len(stream') + HeaderSize + m = Len(stream)
    BY <2>3
  <2>5. Len(stream') + k = Len(stream)
    BY <2>4, <1>7, <1>14, <1>15
  <2>6. k \in Nat /\ k >= 6 /\ k <= 6 + size
    BY <1>12, <1>14, <1>15
  <2> QED
    BY <2>1, <2>3, <2>5, <2>6
<1>17. \A i \in 1 .. k : bytes[i] = <<d + 1, i>>
  BY <1>8, <1>11, <1>12, <1>16
<1>18. /\ InputByte' = InputByte /\ Whole' = Whole /\ Offset' = Offset /\ InputSizes'
       /\ Len(payloads') = Len(payloads) /\ SizeOf(d + 1)' = SizeOf(d + 1)
  BY <1>1, LayoutFixed DEF InputInv, InputTypes, SizeOf
<1>19. expected_data' = size - m /\ expected_data' \in Nat /\ expected_data' <= size
  BY <1>2, <1>7, <1>12, <1>13, <1>14
<1>20. decrypted' = d + 1
  BY <1>1, <1>3 DEF InputInv, HeadersCounted, Receiving
<1>21. CASE m = size
  <2>1. dispatched' = Append(dispatched, bytes) /\ in_packet' = bytes /\ dangling' = TRUE
    BY <1>2, <1>5, <1>7, <1>13, <1>21 DEF process_incoming
  <2>2. Handled' = d + 1 /\ HandledInOrder'
    <3>1. Len(bytes) = SizeOf(d + 1)
      BY <1>12, <1>15, <1>16, <1>21
    <3> QED
      BY <1>1, <1>3, <1>11, <1>16, <1>17, <2>1, <3>1, OneMoreHandled
  <2>3. expected_data' = 0 /\ ~Receiving'
    BY <1>12, <1>19, <1>21 DEF Receiving
  <2>4. InputTypes'
    BY <1>1, <1>16, <1>18, <2>1, <2>3 DEF InputInv, InputTypes
  <2>5. HeadersCounted' /\ PartReceived'
    BY <1>1, <1>20, <2>2, <2>3 DEF HeadersCounted, PartReceived
  <2>6. Position' = start + k
    <3>1. Position' = Offset'[d + 1] + 0
      BY <2>2, <2>3 DEF Position
    <3>2. Offset'[d + 1] = start + k
      BY <1>11, <1>12, <1>15, <1>18, <1>21
    <3> QED
      BY <1>9, <1>16, <3>1, <3>2
  <2>7. StreamFollows'
    BY <1>1, <1>9, <1>11, <1>16, <2>6, StreamGoesOn
  <2> QED
    BY <2>2, <2>4, <2>5, <2>7 DEF InputInv
<1>22. CASE m # size
  <2>1. dispatched' = dispatched /\ in_packet' = bytes /\ dangling' = FALSE
    <3>1. m + OpcodeSize # PeekSize(Take(stream, HeaderSize))
      BY <1>7, <1>12, <1>13, <1>14, <1>22
    <3> QED
      BY <1>2, <1>5, <3>1
  <2>2. Handled' = d /\ expected_data' # 0 /\ Receiving'
    BY <1>3, <1>12, <1>14, <1>19, <1>22, <2>1 DEF Handled, Receiving
  <2>3. HandledInOrder'
    <3>1. \A j \in 1 .. d : PacketBytes(j)' = PacketBytes(j)
      BY <1>1 DEF PacketBytes
    <3> QED
      BY <1>3, <1>18, <2>1, <2>2, <3>1 DEF InputInv, HandledInOrder
  <2>4. InputTypes'
    BY <1>1, <1>12, <1>16, <1>18, <1>19, <2>1 DEF InputInv, InputTypes
  <2>5. HeadersCounted'
    BY <1>1, <1>11, <1>18, <1>20, <2>1, <2>2 DEF HeadersCounted
  <2>6. PartReceived'
    <3>1. Len(in_packet') + expected_data' = SizeOf(d + 1)
      BY <1>12, <1>14, <1>15, <1>16, <1>19, <2>1
    <3>2. \A i \in 1 .. Len(in_packet') : in_packet'[i] = <<d + 1, i>>
      BY <1>16, <1>17, <2>1
    <3> QED
      BY <1>18, <2>2, <3>1, <3>2 DEF PartReceived
  <2>7. Position' = start + k
    BY <1>6, <1>16, <1>18, <2>1, <2>2 DEF Position
  <2>8. StreamFollows'
    BY <1>1, <1>9, <1>11, <1>16, <2>7, StreamGoesOn
  <2> QED
    BY <2>3, <2>4, <2>5, <2>6, <2>8 DEF InputInv
<1> QED
  BY <1>21, <1>22

LEMMA InputInvReceiveRest ==
    ASSUME InputInv, reading = "on", receive_rest
    PROVE  InputInv'
<1>1. /\ expected_data # 0 /\ ~dangling
      /\ UNCHANGED <<payloads, decrypted, reading>>
  BY DEF receive_rest
<1>2. PICK m \in Received(stream, expected_data) \ {0} :
          /\ stream' = Drop(stream, m)
          /\ expected_data' = left_expected(m)
          /\ \/ /\ m = expected_data
                /\ process_incoming(in_packet \o Take(stream, m))
             \/ /\ m # expected_data
                /\ in_packet' = in_packet \o Take(stream, m)
                /\ UNCHANGED <<dangling, dispatched>>
  BY DEF receive_rest
<1>3. PICK d : d = Handled
  OBVIOUS
<1>4. PICK bytes : bytes = in_packet \o Take(stream, m)
  OBVIOUS
<1>5. PICK b : b = Len(in_packet)
  OBVIOUS
<1>6. PICK start : start = Offset[d]
  OBVIOUS
<1>7. /\ d \in Nat /\ d <= Len(payloads) /\ Len(payloads) \in Nat
      /\ stream \in Seq(InputByte) /\ Len(stream) \in Nat
      /\ in_packet \in Seq(InputByte) /\ b \in Nat
      /\ expected_data \in Nat
      /\ \A k \in 0 .. Len(payloads) : Offset[k] \in Nat
  BY <1>3, <1>5, InputFacts
<1>8. start \in Nat
  BY <1>6, <1>7
<1>9. m \in Nat /\ m # 0 /\ m <= expected_data /\ m <= Len(stream)
  BY <1>2, <1>7, ReceivedBytes
<1>10. /\ d < Len(payloads)
       /\ Len(stream) + start + b = Len(Whole)
       /\ Offset[d + 1] = start + SizeOf(d + 1)
       /\ \A i \in 1 .. Len(stream) : stream[i] = Whole[start + b + i]
       /\ \A i \in 1 .. Len(stream) : b + i <= SizeOf(d + 1) => stream[i] = <<d + 1, b + i>>
  <2>1. stream # <<>>
    BY <1>7, <1>9
  <2>2. b = IF expected_data = 0 THEN 0 ELSE Len(in_packet)
    BY <1>1, <1>5
  <2> QED
    BY <1>1, <1>3, <1>6, <1>7, <2>1, <2>2, BytesAhead
<1>11. /\ b + expected_data = SizeOf(d + 1) /\ SizeOf(d + 1) \in Nat
       /\ \A i \in 1 .. b : in_packet[i] = <<d + 1, i>>
  <2>1. /\ b + expected_data = SizeOf(d + 1)
        /\ \A i \in 1 .. b : in_packet[i] = <<d + 1, i>>
    BY <1>1, <1>3, <1>5 DEF InputInv, PartReceived, Receiving
  <2> QED
    BY <1>7, <2>1
<1>12. /\ Take(stream, m) \in Seq(InputByte) /\ Len(Take(stream, m)) = m
       /\ \A i \in 1 .. m : Take(stream, m)[i] = stream[i]
       /\ stream' \in Seq(InputByte) /\ Len(stream') = Len(stream) - m
       /\ \A i \in 1 .. Len(stream) - m : stream'[i] = stream[m + i]
  BY <1>2, <1>7, <1>9, TakenAndDropped
<1>13. /\ bytes \in Seq(InputByte) /\ Len(bytes) = b + m
       /\ \A i \in 1 .. b + m : bytes[i] = <<d + 1, i>>
  <2>1. PICK piece : piece = Take(stream, m)
    OBVIOUS
  <2>2. piece \in Seq(InputByte)
    BY <1>12, <2>1
  <2>3. bytes = in_packet \o piece
    BY <1>4, <2>1
  <2>4. /\ bytes \in Seq(InputByte) /\ Len(bytes) = Len(in_packet) + Len(piece)
        /\ \A i \in 1 .. Len(in_packet) + Len(piece) :
               bytes[i] = IF i <= Len(in_packet) THEN in_packet[i] ELSE piece[i - Len(in_packet)]
    BY <1>7, <2>2, <2>3, ConcatProperties
  <2>5. /\ Len(bytes) = b + m
        /\ \A i \in 1 .. b + m : bytes[i] = IF i <= b THEN in_packet[i] ELSE piece[i - b]
    BY <1>5, <1>12, <2>1, <2>4
  <2>6. ASSUME NEW i \in 1 .. b + m
        PROVE  bytes[i] = <<d + 1, i>>
    <3>1. CASE i <= b
      BY <1>7, <1>9, <1>11, <2>5, <3>1
    <3>2. CASE ~(i <= b)
      <4>1. PICK j : j = i - b
        OBVIOUS
      <4>2. j \in 1 .. m /\ j \in 1 .. Len(stream) /\ b + j = i /\ b + j <= SizeOf(d + 1)
        BY <1>7, <1>9, <1>11, <3>2, <4>1
      <4>3. bytes[i] = piece[j]
        BY <2>5, <3>2, <4>1
      <4>4. piece[j] = stream[j]
        BY <1>12, <2>1, <4>2
      <4>5. stream[j] = <<d + 1, b + j>>
        BY <1>10, <4>2
      <4> QED
        BY <4>2, <4>3, <4>4, <4>5
    <3> QED
      BY <3>1, <3>2
  <2> QED
    BY <2>4, <2>5, <2>6
<1>14. /\ InputByte' = InputByte /\ Whole' = Whole /\ Offset' = Offset /\ InputSizes'
       /\ Len(payloads') = Len(payloads) /\ SizeOf(d + 1)' = SizeOf(d + 1)
  BY <1>1, LayoutFixed DEF InputInv, InputTypes, SizeOf
<1>15. decrypted' = d + 1
  BY <1>1, <1>3 DEF InputInv, HeadersCounted, Receiving
<1>16. \E size \in Payload : expected_data <= size
  BY <1>1 DEF InputInv, InputTypes
<1>17. CASE m = expected_data
  <2>1. dispatched' = Append(dispatched, bytes) /\ in_packet' = bytes /\ dangling' = TRUE
    BY <1>2, <1>4, <1>17 DEF process_incoming
  <2>2. expected_data' = expected_data
    BY <1>2, <1>17 DEF left_expected
  <2>3. Handled' = d + 1 /\ HandledInOrder'
    <3>1. Len(bytes) = SizeOf(d + 1)
      BY <1>11, <1>13, <1>17
    <3> QED
      BY <1>1, <1>3, <1>10, <1>13, <2>1, <3>1, OneMoreHandled
  <2>4. ~Receiving'
    BY <2>1 DEF Receiving
  <2>5. InputTypes'
    BY <1>1, <1>7, <1>12, <1>13, <1>14, <1>16, <2>1, <2>2 DEF InputInv, InputTypes
  <2>6. HeadersCounted' /\ PartReceived'
    BY <1>1, <1>7, <1>15, <2>1, <2>2, <2>3, <2>4 DEF HeadersCounted, PartReceived
  <2>7. StreamFollows'
    BY <1>1, <2>1, <2>2 DEF StreamFollows
  <2> QED
    BY <2>3, <2>5, <2>6, <2>7 DEF InputInv
<1>18. CASE m # expected_data
  <2>1. dispatched' = dispatched /\ in_packet' = bytes /\ dangling' = dangling
    BY <1>2, <1>4, <1>18
  <2>2. expected_data' = expected_data - m
    BY <1>2, <1>18 DEF left_expected
  <2>3. expected_data' \in Nat /\ expected_data' # 0
    BY <1>7, <1>9, <1>18, <2>2
  <2>4. Handled' = d /\ Receiving'
    BY <1>1, <1>3, <2>1, <2>3 DEF Handled, Receiving
  <2>5. HandledInOrder'
    <3>1. \A j \in 1 .. d : PacketBytes(j)' = PacketBytes(j)
      BY <1>1 DEF PacketBytes
    <3> QED
      BY <1>3, <1>14, <2>1, <2>4, <3>1 DEF InputInv, HandledInOrder
  <2>6. InputTypes'
    <3>1. PICK size \in Payload : expected_data <= size
      BY <1>16
    <3>2. expected_data' <= size
      BY <1>7, <1>9, <2>2, <3>1, InputAssumption
    <3> QED
      BY <1>1, <1>12, <1>13, <1>14, <2>1, <2>3, <3>1, <3>2 DEF InputInv, InputTypes
  <2>7. HeadersCounted'
    BY <1>1, <1>10, <1>14, <1>15, <2>1, <2>4 DEF HeadersCounted, InputInv
  <2>8. PartReceived'
    <3>1. Len(in_packet') + expected_data' = SizeOf(d + 1)
      <4>1. Len(in_packet') = b + m
        BY <1>13, <2>1
      <4>2. (b + m) + (expected_data - m) = b + expected_data
        BY <1>7, <1>9
      <4> QED
        BY <1>11, <2>2, <4>1, <4>2
    <3>2. \A i \in 1 .. Len(in_packet') : in_packet'[i] = <<d + 1, i>>
      BY <1>13, <2>1
    <3> QED
      BY <1>14, <2>4, <3>1, <3>2 DEF PartReceived
  <2>9. StreamFollows'
    <3>1. PICK p : p = start + b
      OBVIOUS
    <3>2. /\ p \in Nat /\ Len(stream) + p = Len(Whole)
          /\ \A i \in 1 .. Len(stream) : stream[i] = Whole[p + i]
      <4>1. p \in Nat /\ Len(stream) + p = Len(Whole)
        BY <1>7, <1>8, <1>10, <3>1
      <4>2. \A i \in 1 .. Len(stream) : stream[i] = Whole[p + i]
        BY <1>10, <3>1
      <4> QED
        BY <4>1, <4>2
    <3>3. Len(stream') + m = Len(stream) /\ \A i \in 1 .. Len(stream') : stream'[i] = stream[m + i]
      BY <1>7, <1>9, <1>12
    <3>4. Position' = p + m
      <4>1. Position' = start + (b + m)
        BY <1>6, <1>13, <1>14, <2>1, <2>3, <2>4 DEF Position
      <4> QED
        BY <1>7, <1>8, <1>9, <3>1, <4>1
    <3> QED
      BY <1>1, <1>9, <1>12, <3>2, <3>3, <3>4, StreamGoesOn
  <2> QED
    BY <2>5, <2>6, <2>7, <2>8, <2>9 DEF InputInv
<1> QED
  BY <1>17, <1>18

(* The stream ends, or the deleted packet is written to.                   *)
LEMMA InputInvGivenUp ==
    ASSUME InputInv, reading = "on", header_incomplete \/ receive_into_deleted \/ stream_ends
    PROVE  InputInv'
<1>1. /\ UNCHANGED <<payloads, in_packet, expected_data, dangling, decrypted, dispatched>>
      /\ reading' \in {"closed", "undefined"}
      /\ reading' = "undefined" => expected_data # 0 /\ dangling
  BY DEF header_incomplete, receive_into_deleted, stream_ends
<1>2. stream' \in Seq(InputByte)
  <2>1. stream \in Seq(InputByte)
    BY InputFacts
  <2>2. CASE header_incomplete
    <3>1. PICK m \in Received(stream, HeaderSize) : stream' = Drop(stream, m)
      BY <2>2 DEF header_incomplete
    <3>2. m \in Nat /\ m <= Len(stream)
      BY <2>1, <3>1, ReceivedBytes DEF HeaderSize
    <3> QED
      BY <2>1, <3>1, <3>2, TakenAndDropped
  <2> QED
    BY <2>1, <2>2 DEF receive_into_deleted, stream_ends
<1>3. /\ InputByte' = InputByte /\ InputSizes'
      /\ Handled' = Handled /\ (Receiving' <=> Receiving)
      /\ SizeOf(Handled + 1)' = SizeOf(Handled + 1)
      /\ \A j : PacketBytes(j)' = PacketBytes(j)
  BY <1>1, LayoutFixed DEF InputInv, InputTypes, Handled, Receiving, SizeOf, PacketBytes
<1>4. InputTypes'
  BY <1>1, <1>2, <1>3 DEF InputInv, InputTypes
<1>5. HandledInOrder'
  BY <1>1, <1>3 DEF InputInv, HandledInOrder
<1>6. HeadersCounted'
  BY <1>1, <1>3 DEF InputInv, HeadersCounted
<1>7. PartReceived'
  BY <1>1, <1>3 DEF InputInv, PartReceived
<1>8. StreamFollows'
  BY <1>1 DEF StreamFollows
<1> QED
  BY <1>4, <1>5, <1>6, <1>7, <1>8 DEF InputInv

LEMMA InputInvStep == InputInv /\ [InputNext]_inputVars => InputInv'
<1> SUFFICES ASSUME InputInv, [InputNext]_inputVars
             PROVE  InputInv'
  OBVIOUS
<1>1. CASE UNCHANGED inputVars
  <2>1. UNCHANGED <<payloads, stream, in_packet, expected_data, dangling, decrypted,
                    dispatched, reading>>
    BY <1>1 DEF inputVars
  <2>2. /\ InputByte' = InputByte /\ InputSizes' /\ Whole' = Whole /\ Offset' = Offset
        /\ Handled' = Handled /\ (Receiving' <=> Receiving)
        /\ SizeOf(Handled + 1)' = SizeOf(Handled + 1)
        /\ \A j : PacketBytes(j)' = PacketBytes(j)
    BY <2>1, LayoutFixed DEF InputInv, InputTypes, Handled, Receiving, SizeOf, PacketBytes
  <2>3. InputTypes'
    BY <2>1, <2>2 DEF InputInv, InputTypes
  <2>4. HandledInOrder'
    BY <2>1, <2>2 DEF InputInv, HandledInOrder
  <2>5. HeadersCounted'
    BY <2>1, <2>2 DEF InputInv, HeadersCounted
  <2>6. PartReceived'
    BY <2>1, <2>2 DEF InputInv, PartReceived
  <2>7. StreamFollows'
    <3>1. Position' = Position
      BY <2>1, <2>2 DEF Position
    <3> QED
      BY <2>1, <2>2, <3>1 DEF InputInv, StreamFollows
  <2> QED
    BY <2>3, <2>4, <2>5, <2>6, <2>7 DEF InputInv
<1> QED
  BY <1>1, InputInvReceivePacket, InputInvReceiveRest, InputInvGivenUp DEF InputNext

LEMMA InputInvGivesFrames == InputInv => FramesWhole /\ InputTypeOK
<1> SUFFICES ASSUME InputInv
             PROVE  FramesWhole /\ InputTypeOK
  OBVIOUS
<1>1. /\ Handled \in Nat /\ Handled <= Len(payloads) /\ Len(payloads) \in Nat
      /\ dispatched \in Seq(Seq(InputByte)) /\ Handled = Len(dispatched)
      /\ \A j \in 1 .. Handled : dispatched[j] = PacketBytes(j)
  BY InputFacts DEF InputInv, HandledInOrder, Handled
<1>2. IsPrefix(dispatched, Packets)
  <2>1. DOMAIN payloads = 1 .. Len(payloads)
    BY SizesOfPackets DEF InputInv, InputTypes
  <2>2. /\ Len(Packets) = Len(payloads)
        /\ \A j \in 1 .. Len(payloads) : Packets[j] = PacketBytes(j)
    BY <1>1, <2>1 DEF Packets
  <2> HIDE DEF Packets
  <2>3. SubSeq(dispatched, 1, Handled) = [j \in 1 .. Handled |-> dispatched[j]]
    BY <1>1
  <2>4. SubSeq(Packets, 1, Handled) = [j \in 1 .. Handled |-> Packets[j]]
    BY <1>1
  <2>5. \A j \in 1 .. Handled : dispatched[j] = Packets[j]
    BY <1>1, <2>2
  <2>6. SubSeq(dispatched, 1, Handled) = SubSeq(Packets, 1, Handled)
    BY <2>3, <2>4, <2>5
  <2> QED
    BY <1>1, <2>2, <2>6 DEF IsPrefix
<1>3. decrypted - Len(dispatched) \in {0, 1}
  BY <1>1 DEF InputInv, HeadersCounted
<1>4. (reading = "undefined") => expected_data # 0 /\ dispatched # <<>>
  BY <1>1 DEF InputInv, HeadersCounted
<1>5. FramesWhole
  BY <1>2, <1>3, <1>4 DEF FramesWhole
<1>6. ASSUME NEW s \in Seq(InputByte), NEW byte \in ToSet(s)
      PROVE  byte[1] \in DOMAIN payloads /\ byte[2] \in 1 .. HeaderSize + payloads[byte[1]]
  <2>1. byte \in InputByte
    BY <1>6 DEF ToSet
  <2>2. DOMAIN payloads = 1 .. Len(payloads)
    BY SizesOfPackets DEF InputInv, InputTypes
  <2> QED
    BY <2>1, <2>2 DEF InputByte
<1>7. decrypted \in 0 .. MaxPackets
  <2>1. Len(payloads) <= MaxPackets /\ MaxPackets \in Nat
    BY InputAssumption DEF InputInv, InputTypes, InputSizes
  <2> QED
    BY <1>1, <2>1 DEF InputInv, HeadersCounted
<1>8. \A byte \in ToSet(stream) \union ToSet(in_packet) :
          byte[1] \in DOMAIN payloads /\ byte[2] \in 1 .. HeaderSize + payloads[byte[1]]
  <2>1. stream \in Seq(InputByte) /\ in_packet \in Seq(InputByte)
    BY InputFacts
  <2> QED
    BY <1>6, <2>1
<1>9. InputTypeOK
  BY <1>7, <1>8 DEF InputTypeOK, InputInv, InputTypes
<1> QED
  BY <1>5, <1>9

-----------------------------------------------------------------------------
(* The machines side by side.                                              *)

SocketsInv == ConnTypes /\ LimitInv /\ InputInv /\ OutputInv

LEMMA SocketsInvInit == Init => SocketsInv
BY ConnectionsInit, InputInvInit, OutputInvInit DEF Init, SocketsInv

LEMMA SocketsInvStep == SocketsInv /\ [Next]_vars => SocketsInv'
<1> SUFFICES ASSUME SocketsInv, [Next]_vars
             PROVE  SocketsInv'
  OBVIOUS
<1>1. /\ [ConnNext]_connVars
      /\ [InputNext]_inputVars
      /\ [OutputNext]_outputVars
  BY DEF Next, vars
<1> QED
  BY <1>1, ConnTypesStep, LimitStep, InputInvStep, OutputInvStep DEF SocketsInv

LEMMA SocketsInvAlways == Spec => []SocketsInv
BY SocketsInvInit, SocketsInvStep, PTL DEF Spec

(* The variables of a connection's life, its input and its output keep     *)
(* their types: a thread that has something to do has a socket to do it    *)
(* for, every byte is one of a packet that was sent or queued, and nothing *)
(* is continued without a packet in the queue (Proxy_Socket).              *)
THEOREM SocketTypeCorrect == Spec => []TypeOK
<1>1. SocketsInv => TypeOK
  BY InputInvGivesFrames DEF SocketsInv, ConnTypes, OutputInv, OutputTypes, TypeOK
<1> QED
  BY <1>1, SocketsInvAlways, PTL

(* While nothing is counted down that was not counted up, the open         *)
(* connections exceed the limit by less than the number of threads: each   *)
(* thread but the accepting one can store one load that was computed below *)
(* the limit (Proxy_Socket::open, Proxy_Service::update_connections).      *)
THEOREM LimitIsHeld == Spec => []LimitHeld
<1>1. SocketsInv => LimitHeld
  BY LimitInvGivesLimit DEF SocketsInv
<1> QED
  BY <1>1, SocketsInvAlways, PTL

(* However the network cuts the stream, the packets handled are the first  *)
(* ones sent, whole and in order, each with one header decrypted, and      *)
(* memory that was freed is touched only behind a packet that came in      *)
(* pieces (Proxy_Socket::handle_input).                                    *)
THEOREM FramesAreWhole == Spec => []FramesWhole
<1>1. SocketsInv => FramesWhole
  BY InputInvGivesFrames DEF SocketsInv
<1> QED
  BY <1>1, SocketsInvAlways, PTL

(* Every packet written in one piece is on the wire as it was queued, its  *)
(* header encrypted with the piece of the key stream the client decrypts   *)
(* it with, whatever was torn before it and whenever the key was set       *)
(* (handle_output, Proxy_Crypto::encrypt).                                 *)
THEOREM WireStaysIntact == Spec => []WireIntact
<1>1. SocketsInv => WireIntact
  BY OutputInvGivesWire DEF SocketsInv
<1> QED
  BY <1>1, SocketsInvAlways, PTL

(* While packets wait the reactor is asked to write, unless a write has    *)
(* failed: no packet depends on a later send (send, handle_output).        *)
THEOREM WritesWanted == Spec => []WriteInterest
<1>1. SocketsInv => WriteInterest
  BY OutputInvGivesWire DEF SocketsInv
<1> QED
  BY <1>1, SocketsInvAlways, PTL

-----------------------------------------------------------------------------
(* Texts.                                                                  *)

Char == 0 .. 255

TextInv == text \in Seq(Char)

(* Letters: changing the case once more, or back, ends at the same letter. *)
LEMMA CaseOfChar ==
    ASSUME NEW c \in Char
    PROVE  /\ tolower(c) \in Char /\ toupper(c) \in Char
           /\ tolower(tolower(c)) = tolower(c) /\ tolower(toupper(c)) = tolower(c)
           /\ toupper(toupper(c)) = toupper(c) /\ toupper(tolower(c)) = toupper(c)
           /\ tolower(c) < 128 <=> c < 128
           /\ toupper(c) < 128 <=> c < 128
           /\ isBasicLatinCharacter(tolower(c)) <=> isBasicLatinCharacter(c)
           /\ isBasicLatinCharacter(toupper(c)) <=> isBasicLatinCharacter(c)
BY DEF Char, tolower, toupper, IsLower, IsUpper, isBasicLatinCharacter

(* A name that is normalised, letter by letter.                            *)
LEMMA NormalName ==
    ASSUME NEW s \in Seq(Char), s # <<>>
    PROVE  /\ normalizePlayerName(s) \in Seq(Char)
           /\ normalizePlayerName(s) # <<>>
           /\ Len(normalizePlayerName(s)) = Len(s)
           /\ DOMAIN normalizePlayerName(s) = DOMAIN s
           /\ 1 \in DOMAIN s
           /\ normalizePlayerName(s)
                  = [i \in DOMAIN s |-> IF i = 1 THEN toupper(s[i]) ELSE tolower(s[i])]
<1>1. Len(s) \in Nat /\ Len(s) # 0 /\ DOMAIN s = 1 .. Len(s)
  BY EmptySeq, LenProperties
<1>2. 1 \in DOMAIN s
  BY <1>1
<1>3. normalizePlayerName(s)
          = [i \in DOMAIN s |-> IF i = 1 THEN toupper(s[i]) ELSE tolower(s[i])]
  BY <1>2 DEF normalizePlayerName, strToLowerCase
<1>4. \A i \in DOMAIN s : toupper(s[i]) \in Char /\ tolower(s[i]) \in Char
  BY <1>1, CaseOfChar
<1>5. PICK n : n = normalizePlayerName(s)
  OBVIOUS
<1>6. n \in [1 .. Len(s) -> Char]
  BY <1>1, <1>3, <1>4, <1>5
<1>7. n \in Seq(Char) /\ Len(n) = Len(s) /\ DOMAIN n = DOMAIN s
  BY <1>1, <1>6, LenProperties
<1>8. n # <<>>
  BY <1>1, <1>7, EmptySeq
<1> QED
  BY <1>2, <1>3, <1>5, <1>7, <1>8

(* Names of the same letters are normalised to the same name.              *)
LEMMA SameNormal ==
    ASSUME NEW s \in Seq(Char), NEW t \in Seq(Char), s # <<>>, Len(t) = Len(s),
           \A i \in DOMAIN s : tolower(t[i]) = tolower(s[i]) /\ toupper(t[i]) = toupper(s[i])
    PROVE  normalizePlayerName(t) = normalizePlayerName(s)
<1>1. DOMAIN s = DOMAIN t /\ t # <<>>
  BY EmptySeq, LenProperties
<1>2. /\ normalizePlayerName(s)
             = [i \in DOMAIN s |-> IF i = 1 THEN toupper(s[i]) ELSE tolower(s[i])]
      /\ normalizePlayerName(t)
             = [i \in DOMAIN t |-> IF i = 1 THEN toupper(t[i]) ELSE tolower(t[i])]
  BY <1>1, NormalName
<1> QED
  BY <1>1, <1>2

LEMMA NamesAreNormal == TextInv => NamesNormal
<1> SUFFICES ASSUME text \in Seq(Char), text # <<>>
             PROVE  LET name == normalizePlayerName(text) IN
                    /\ normalizePlayerName(name) = name
                    /\ normalizePlayerName(strToLowerCase(text)) = name
                    /\ normalizePlayerName(strToUpperCase(text)) = name
                    /\ isValidName(name) = isValidName(text)
  BY DEF TextInv, NamesNormal
<1>1. PICK name : name = normalizePlayerName(text)
  OBVIOUS
<1>2. /\ name \in Seq(Char) /\ Len(name) = Len(text) /\ DOMAIN name = DOMAIN text
      /\ name = [i \in DOMAIN text |-> IF i = 1 THEN toupper(text[i]) ELSE tolower(text[i])]
  BY <1>1, NormalName
<1>3. DOMAIN text = 1 .. Len(text) /\ Len(text) \in Nat /\ \A i \in DOMAIN text : text[i] \in Char
  BY LenProperties
<1>4. \A i \in DOMAIN text : name[i] = toupper(text[i]) \/ name[i] = tolower(text[i])
  BY <1>2
<1>5. normalizePlayerName(name) = name
  <2>1. \A i \in DOMAIN text :
            tolower(name[i]) = tolower(text[i]) /\ toupper(name[i]) = toupper(text[i])
    BY <1>3, <1>4, CaseOfChar
  <2> QED
    BY <1>1, <1>2, <2>1, SameNormal
<1>6. ASSUME NEW t, t = [i \in DOMAIN text |-> tolower(text[i])]
                    \/ t = [i \in DOMAIN text |-> toupper(text[i])]
      PROVE  normalizePlayerName(t) = name
  <2>1. \A i \in DOMAIN text : t[i] \in Char /\
            tolower(t[i]) = tolower(text[i]) /\ toupper(t[i]) = toupper(text[i])
    BY <1>3, <1>6, CaseOfChar
  <2>2. t \in [1 .. Len(text) -> Char]
    BY <1>3, <1>6, <2>1
  <2>3. t \in Seq(Char) /\ Len(t) = Len(text)
    BY <1>3, <2>2, LenProperties
  <2> QED
    BY <1>1, <2>1, <2>3, SameNormal
<1>7. isValidName(name) = isValidName(text)
  <2>1. \A i \in DOMAIN text : /\ name[i] < 128 <=> text[i] < 128
                               /\ isBasicLatinCharacter(name[i]) <=> isBasicLatinCharacter(text[i])
    BY <1>3, <1>4, CaseOfChar
  <2> QED
    BY <1>2, <2>1 DEF isValidName
<1> QED
  BY <1>1, <1>5, <1>6, <1>7 DEF strToLowerCase, strToUpperCase

-----------------------------------------------------------------------------
(* Digits.                                                                 *)

LEMMA DigitBack ==
    ASSUME NEW n \in 0 .. 15
    PROVE  /\ Digit(n) \in Char
           /\ DigitValue(Digit(n)) = n /\ DigitValue(tolower(Digit(n))) = n
<1>1. CASE n < 10
  BY <1>1 DEF Digit, DigitValue, tolower, IsUpper, Char
<1>2. CASE ~(n < 10)
  BY <1>2 DEF Digit, DigitValue, tolower, IsUpper, Char
<1> QED
  BY <1>1, <1>2

LEMMA HalvesOfByte ==
    ASSUME NEW b \in Char, NEW high, NEW low, high = b \div 16, low = b % 16
    PROVE  high \in 0 .. 15 /\ low \in 0 .. 15 /\ 16 * high + low = b
<1>1. b \in Int /\ 0 <= b /\ b <= 255
  BY DEF Char
<1>2. low \in 0 .. 15 /\ high \in 0 .. 15
  BY <1>1
<1>3. low = b - 16 * high
  BY <1>1
<1> QED
  BY <1>1, <1>2, <1>3

(* The digits of byte i are at 2 * i - 1 and 2 * i.                        *)
LEMMA BytesAreReadBack == TextInv => BytesReadBack
<1> SUFFICES ASSUME text \in Seq(Char)
             PROVE  LET digits == byteArrayToAsciiString(text) IN
                    /\ asciiHexStringtoByteArray(digits) = text
                    /\ asciiHexStringtoByteArray(strToLowerCase(digits)) = text
  BY DEF TextInv, BytesReadBack
<1>1. PICK n \in Nat : n = Len(text)
  BY LenProperties
<1>2. DOMAIN text = 1 .. n /\ \A i \in 1 .. n : text[i] \in Char
  BY <1>1, LenProperties
<1>3. PICK digits : digits = byteArrayToAsciiString(text)
  OBVIOUS
<1>4. digits = [i \in 1 .. 2 * n |->
                   Digit(IF i % 2 = 1 THEN text[(i + 1) \div 2] \div 16
                                      ELSE text[(i + 1) \div 2] % 16)]
  BY <1>1, <1>3 DEF byteArrayToAsciiString
<1>5. ASSUME NEW i \in 1 .. n
      PROVE  /\ 2 * i - 1 \in 1 .. 2 * n /\ 2 * i \in 1 .. 2 * n
             /\ digits[2 * i - 1] = Digit(text[i] \div 16)
             /\ digits[2 * i] = Digit(text[i] % 16)
  <2>1. /\ 2 * i - 1 \in 1 .. 2 * n /\ 2 * i \in 1 .. 2 * n
        /\ (2 * i - 1) % 2 = 1 /\ (2 * i) % 2 # 1
        /\ ((2 * i - 1) + 1) \div 2 = i /\ (2 * i + 1) \div 2 = i
    OBVIOUS
  <2> QED
    BY <1>4, <2>1
<1>6. ASSUME NEW i \in 1 .. n
      PROVE  \E high, low \in 0 .. 15 :
                 /\ high = text[i] \div 16 /\ low = text[i] % 16
                 /\ digits[2 * i - 1] = Digit(high) /\ digits[2 * i] = Digit(low)
  <2>1. PICK high, low : high = text[i] \div 16 /\ low = text[i] % 16
    OBVIOUS
  <2>2. high \in 0 .. 15 /\ low \in 0 .. 15
    BY <1>2, <2>1, HalvesOfByte
  <2> QED
    BY <1>5, <2>1, <2>2
<1>7. digits \in [1 .. 2 * n -> Char]
  <2>1. ASSUME NEW i \in 1 .. 2 * n
        PROVE  digits[i] \in Char
    <3>1. (i + 1) \div 2 \in 1 .. n
      OBVIOUS
    <3>2. text[(i + 1) \div 2] \in Char
      BY <1>2, <3>1
    <3>3. PICK high, low :
              high = text[(i + 1) \div 2] \div 16 /\ low = text[(i + 1) \div 2] % 16
      OBVIOUS
    <3>4. high \in 0 .. 15 /\ low \in 0 .. 15
      BY <3>2, <3>3, HalvesOfByte
    <3>5. digits[i] = Digit(high) \/ digits[i] = Digit(low)
      BY <1>4, <3>3
    <3> QED
      BY <3>4, <3>5, DigitBack
  <2> QED
    BY <1>4, <2>1
<1>8. ASSUME NEW s, s \in [1 .. 2 * n -> Char],
             \A i \in 1 .. n : /\ DigitValue(s[2 * i - 1]) = text[i] \div 16
                               /\ DigitValue(s[2 * i]) = text[i] % 16
      PROVE  asciiHexStringtoByteArray(s) = text
  <2>1. Len(s) = 2 * n
    BY <1>8
  <2>2. asciiHexStringtoByteArray(s)
            = [i \in 1 .. n |-> 16 * DigitValue(s[2 * i - 1]) + DigitValue(s[2 * i])]
    <3>1. (2 * n) % 2 # 1 /\ (2 * n) \div 2 = n
      OBVIOUS
    <3> DEFINE byte(i) == 16 * DigitValue(s[2 * i - 1]) + DigitValue(s[2 * i])
    <3>2. PICK h : h = Len(s) \div 2
      OBVIOUS
    <3>3. Len(s) % 2 # 1 /\ h = n
      BY <2>1, <3>1, <3>2
    <3>4. asciiHexStringtoByteArray(s) = [i \in 1 .. h |-> byte(i)]
      BY <3>2, <3>3, Zenon DEF asciiHexStringtoByteArray
    <3> HIDE DEF byte
    <3>5. asciiHexStringtoByteArray(s) = [i \in 1 .. n |-> byte(i)]
      BY <3>3, <3>4
    <3> QED
      BY <3>5 DEF byte
  <2>3. ASSUME NEW i \in 1 .. n
        PROVE  16 * DigitValue(s[2 * i - 1]) + DigitValue(s[2 * i]) = text[i]
    <3>1. PICK high, low : high = text[i] \div 16 /\ low = text[i] % 16
      OBVIOUS
    <3>2. 16 * high + low = text[i]
      BY <1>2, <3>1, HalvesOfByte
    <3>3. DigitValue(s[2 * i - 1]) = high /\ DigitValue(s[2 * i]) = low
      BY <1>8, <3>1
    <3> QED
      BY <3>2, <3>3
  <2>4. asciiHexStringtoByteArray(s) = [i \in 1 .. n |-> text[i]]
    BY <2>2, <2>3
  <2> QED
    BY <1>1, <1>2, <2>4
<1>9. asciiHexStringtoByteArray(digits) = text
  BY <1>6, <1>7, <1>8, DigitBack
<1>10. asciiHexStringtoByteArray(strToLowerCase(digits)) = text
  <2>1. PICK low : low = strToLowerCase(digits)
    OBVIOUS
  <2>2. low = [i \in 1 .. 2 * n |-> tolower(digits[i])]
    BY <1>7, <2>1 DEF strToLowerCase
  <2>3. low \in [1 .. 2 * n -> Char]
    BY <1>7, <2>2, CaseOfChar
  <2>4. \A i \in 1 .. n : /\ low[2 * i - 1] = tolower(digits[2 * i - 1])
                          /\ low[2 * i] = tolower(digits[2 * i])
    BY <1>5, <2>2
  <2>5. \A i \in 1 .. n : /\ DigitValue(low[2 * i - 1]) = text[i] \div 16
                          /\ DigitValue(low[2 * i]) = text[i] % 16
    BY <1>6, <2>4, DigitBack
  <2> QED
    BY <1>8, <2>1, <2>3, <2>5
<1> QED
  BY <1>3, <1>9, <1>10

-----------------------------------------------------------------------------
(* Tokens.                                                                 *)

(* One more byte, as StrSplit takes it.                                    *)
Taken(before, c) ==
    IF c = Separator
    THEN [r |-> PushedBack(before), s |-> <<>>]
    ELSE [r |-> before.r, s |-> Append(before.s, c)]

(* The function that StrSplit is defined by exists.                        *)
LEMMA Splits ==
    ASSUME NEW src, NEW n \in Nat, Len(src) = n
    PROVE  \E f : /\ f[0] = [r |-> <<>>, s |-> <<>>]
                  /\ \A i \in 1 .. n : f[i] = Taken(f[i - 1], src[i])
                  /\ StrSplit(src) = PushedBack(f[n])
<1> DEFINE Value(f, i) == IF i = 0 THEN [r |-> <<>>, s |-> <<>>]
                          ELSE LET before == f[i - 1] IN
                               IF src[i] = Separator
                               THEN [r |-> PushedBack(before), s |-> <<>>]
                               ELSE [r |-> before.r, s |-> Append(before.s, src[i])]
           Solves(f, k) == f = [i \in 0 .. k |-> Value(f, i)]
           T == {k \in 1 .. n + 1 : \E f : Solves(f, k - 1)}
<1>1. 1 \in T
  <2> DEFINE f == [i \in 0 .. 0 |-> [r |-> <<>>, s |-> <<>>]]
  <2>1. \A i \in 0 .. 0 : f[i] = Value(f, i)
    OBVIOUS
  <2>2. f = [i \in 0 .. 0 |-> f[i]]
    OBVIOUS
  <2> HIDE DEF f, Value
  <2>3. Solves(f, 0)
    BY <2>1, <2>2
  <2> HIDE DEF Solves
  <2>4. \E g : Solves(g, 1 - 1)
    BY <2>3
  <2> QED
    BY <2>4
<1>2. ASSUME NEW k \in 1 .. n, k \in T
      PROVE  k + 1 \in T
  <2>1. PICK f : Solves(f, k - 1)
    BY <1>2
  <2> DEFINE g == [i \in 0 .. k |-> IF i < k THEN f[i] ELSE Value(f, k)]
  <2>2. \A i \in 0 .. k - 1 : f[i] = Value(f, i)
    <3> HIDE DEF Value
    <3> QED
      BY <2>1
  <2>3. ASSUME NEW i \in 0 .. k
        PROVE  g[i] = Value(f, i) /\ (i # 0 => g[i - 1] = f[i - 1])
    <3> HIDE DEF Value
    <3>1. CASE i < k
      <4>1. i \in 0 .. k - 1 /\ g[i] = f[i]
        BY <3>1
      <4>2. i # 0 => i - 1 \in 0 .. k /\ i - 1 < k /\ g[i - 1] = f[i - 1]
        BY <3>1
      <4> QED
        BY <2>2, <4>1, <4>2
    <3>2. CASE i = k
      <4>1. g[i] = Value(f, i)
        BY <3>2
      <4>2. i # 0 => i - 1 \in 0 .. k /\ i - 1 < k /\ g[i - 1] = f[i - 1]
        BY <3>2
      <4> QED
        BY <4>1, <4>2
    <3> QED
      BY <3>1, <3>2
  <2>4. g = [i \in 0 .. k |-> g[i]]
    <3> HIDE DEF Value
    <3> QED
      OBVIOUS
  <2> HIDE DEF g
  <2>5. \A i \in 0 .. k : g[i] = Value(g, i)
    BY <2>3
  <2> HIDE DEF Value
  <2>6. Solves(g, k)
    BY <2>4, <2>5
  <2> HIDE DEF Solves
  <2>7. \E h : Solves(h, (k + 1) - 1)
    <3>1. (k + 1) - 1 = k
      OBVIOUS
    <3> QED
      BY <2>6, <3>1
  <2>8. k + 1 \in 1 .. n + 1
    OBVIOUS
  <2> QED
    BY <2>7, <2>8
<1>3. \E f : Solves(f, n)
  <2> HIDE DEF Solves
  <2>1. T = 1 .. n + 1
    <3>1. T \in SUBSET (1 .. n + 1) /\ n + 1 \in Nat /\ (n + 1) - 1 = n
      OBVIOUS
    <3> HIDE DEF T
    <3> QED
      BY <1>1, <1>2, <3>1, UpTo
  <2>2. n + 1 \in T
    BY <2>1
  <2>3. (n + 1) - 1 = n
    OBVIOUS
  <2> QED
    BY <2>2, <2>3
<1> DEFINE F == CHOOSE f : Solves(f, n)
<1>4. Solves(F, n)
  <2> HIDE DEF Solves
  <2> QED
    BY <1>3
<1>5. StrSplit(src) = PushedBack(F[n])
  BY DEF StrSplit
<1> HIDE DEF F
<1>6. \A i \in 0 .. n : F[i] = Value(F, i)
  <2> HIDE DEF Value
  <2> QED
    BY <1>4
<1>7. F[0] = [r |-> <<>>, s |-> <<>>]
  <2>1. 0 \in 0 .. n
    OBVIOUS
  <2> QED
    BY <1>6, <2>1
<1>8. ASSUME NEW i \in 1 .. n
      PROVE  F[i] = Taken(F[i - 1], src[i])
  <2>1. i \in 0 .. n /\ i # 0
    OBVIOUS
  <2>2. F[i] = Value(F, i)
    BY <1>6, <2>1
  <2> QED
    BY <2>1, <2>2 DEF Taken
<1> QED
  BY <1>5, <1>7, <1>8

(* The tokens list the runs that end before m, in their order.             *)
Listed(tokens, at, m) ==
    /\ tokens \in Seq(Seq(Char))
    /\ at \in [1 .. Len(tokens) -> Runs]
    /\ \A j \in 1 .. Len(tokens) :
           at[j][2] < m /\ tokens[j] = SubSeq(text, at[j][1], at[j][2])
    /\ \A run \in Runs : run[2] < m => \E j \in 1 .. Len(tokens) : at[j] = run
    /\ \A i, j \in 1 .. Len(tokens) : i < j => at[i][2] < at[j][1]

(* From b on, up to i, there is no separator, and b is the first such.     *)
RunFrom(b, i) ==
    /\ b \in 1 .. i + 1
    /\ b = 1 \/ text[b - 1] = Separator
    /\ \A k \in b .. i : text[k] # Separator

(* A run that ends at i is the one from b on.                              *)
LEMMA RunEnds ==
    ASSUME TextInv, NEW i \in 0 .. Len(text), NEW b, RunFrom(b, i),
           i = Len(text) \/ text[i + 1] = Separator
    PROVE  /\ b <= i => <<b, i>> \in Runs
           /\ \A run \in Runs : run[2] < i + 1 => run[2] < b - 1 \/ (b <= i /\ run = <<b, i>>)
<1>1. PICK n \in Nat : n = Len(text) /\ DOMAIN text = 1 .. n
  BY LenProperties DEF TextInv
<1>2. b \in 1 .. i + 1 /\ i \in 0 .. n /\ b \in Int /\ i \in Int
  BY <1>1 DEF RunFrom
<1>3. b <= i => <<b, i>> \in Runs
  <2>1. SUFFICES ASSUME b <= i
                 PROVE  <<b, i>> \in Runs
    OBVIOUS
  <2>2. b \in 1 .. n /\ i \in 1 .. n
    BY <1>2, <2>1
  <2>3. PICK run : run = <<b, i>>
    OBVIOUS
  <2>4. run \in (1 .. n) \X (1 .. n) /\ run[1] = b /\ run[2] = i
    BY <2>2, <2>3
  <2>5. /\ b = 1 \/ text[b - 1] = Separator
        /\ i = n \/ text[i + 1] = Separator
        /\ \A k \in b .. i : text[k] # Separator
    BY <1>1 DEF RunFrom
  <2>6. /\ run[1] = 1 \/ text[run[1] - 1] = Separator
        /\ run[2] = Len(text) \/ text[run[2] + 1] = Separator
        /\ run[1] <= run[2] /\ \A k \in run[1] .. run[2] : text[k] # Separator
    BY <1>1, <2>1, <2>4, <2>5
  <2>7. run \in Runs
    BY <1>1, <2>4, <2>6 DEF Runs
  <2> QED
    BY <2>3, <2>7
<1>4. ASSUME NEW run \in Runs, run[2] < i + 1, ~(run[2] < b - 1)
      PROVE  b <= i /\ run = <<b, i>>
  <2> DEFINE IsRun(first, last) ==
               /\ \A k \in first .. last : text[k] # Separator
               /\ first = 1 \/ text[first - 1] = Separator
               /\ last = n \/ text[last + 1] = Separator
  <2>1. run \in (1 .. n) \X (1 .. n) /\ run[1] <= run[2] /\ IsRun(run[1], run[2])
    BY <1>1 DEF Runs
  <2>2. PICK first \in 1 .. n, last \in 1 .. n : run[1] = first /\ run[2] = last
    BY <2>1
  <2>3. run = <<first, last>> /\ first <= last
    BY <2>1, <2>2
  <2>4. IsRun(first, last)
    <3> HIDE DEF IsRun
    <3> QED
      BY <2>1, <2>2
  <2>5. /\ run = <<first, last>> /\ first <= last
        /\ \A k \in first .. last : text[k] # Separator
        /\ first = 1 \/ text[first - 1] = Separator
        /\ last = n \/ text[last + 1] = Separator
        /\ run[2] = last /\ first \in Int /\ last \in Int
    BY <2>2, <2>3, <2>4
  <2>6. last <= i /\ last >= b - 1
    BY <1>2, <1>4, <2>5
  <2>7. last \in first .. last
    BY <2>5
  <2>8. last # b - 1
    BY <2>5, <2>7 DEF RunFrom
  <2>9. last >= b /\ b <= i
    BY <1>2, <2>6, <2>8
  <2>10. last = i
    <3>1. SUFFICES ASSUME last < i
                   PROVE  FALSE
      BY <1>2, <2>6
    <3>2. last + 1 \in b .. i /\ last # n
      BY <1>2, <2>9, <3>1
    <3> QED
      BY <2>5, <3>2 DEF RunFrom
  <2>11. first = b
    <3>1. CASE first < b
      <4>1. b # 1 /\ b - 1 \in first .. last
        BY <1>2, <2>9, <3>1
      <4> QED
        BY <2>5, <4>1 DEF RunFrom
    <3>2. CASE first > b
      <4>1. first # 1 /\ first - 1 \in b .. i
        BY <1>2, <2>5, <2>6, <3>2
      <4> QED
        BY <2>5, <4>1 DEF RunFrom
    <3> QED
      BY <1>2, <3>1, <3>2
  <2> QED
    BY <2>5, <2>9, <2>10, <2>11
<1> QED
  BY <1>3, <1>4

(* What is between separators is pushed back, unless it is empty.          *)
LEMMA Pushed ==
    ASSUME TextInv, NEW i \in 0 .. Len(text), NEW b, RunFrom(b, i),
           i = Len(text) \/ text[i + 1] = Separator,
           NEW state, NEW at, Listed(state.r, at, b - 1), state.s = SubSeq(text, b, i)
    PROVE  \E all : Listed(PushedBack(state), all, i + 1)
<1>1. PICK n \in Nat : n = Len(text) /\ DOMAIN text = 1 .. n
  BY LenProperties DEF TextInv
<1>2. /\ b \in 1 .. i + 1 /\ i \in 0 .. n /\ b \in Int /\ i \in Int
      /\ text \in Seq(Char)
  BY <1>1 DEF RunFrom, TextInv
<1>3. /\ b <= i => <<b, i>> \in Runs
      /\ \A run \in Runs : run[2] < i + 1 => run[2] < b - 1 \/ (b <= i /\ run = <<b, i>>)
  BY RunEnds
<1>4. \A run \in Runs : run[1] \in Int /\ run[2] \in Int
  BY <1>1 DEF Runs
<1>5. PICK r, m : r = state.r /\ m = Len(r)
  OBVIOUS
<1>6. /\ r \in Seq(Seq(Char)) /\ m \in Nat
      /\ at \in [1 .. m -> Runs]
      /\ \A j \in 1 .. m : at[j][2] < b - 1 /\ r[j] = SubSeq(text, at[j][1], at[j][2])
      /\ \A run \in Runs : run[2] < b - 1 => \E j \in 1 .. m : at[j] = run
      /\ \A k, j \in 1 .. m : k < j => at[k][2] < at[j][1]
  BY <1>5, LenProperties DEF Listed
<1>7. CASE b <= i
  <2>1. /\ state.s \in Seq(Char) /\ state.s # <<>>
    <3>1. b \in 1 .. n + 1 /\ i \in b - 1 .. n /\ i \in 0 .. n
      BY <1>2, <1>7
    <3>2. Len(SubSeq(text, b, i)) = i - b + 1 /\ SubSeq(text, b, i) \in Seq(Char)
      BY <1>1, <1>2, <1>7, <3>1, SubSeqProperties
    <3>3. Len(<<>>) = 0
      OBVIOUS
    <3>4. i - b + 1 # 0
      BY <1>2, <1>7
    <3> QED
      BY <3>2, <3>3, <3>4
  <2>2. PICK tokens : tokens = Append(r, state.s)
    OBVIOUS
  <2>3. PushedBack(state) = tokens
    BY <1>5, <2>1, <2>2 DEF PushedBack
  <2>4. /\ tokens \in Seq(Seq(Char)) /\ Len(tokens) = m + 1
        /\ \A j \in 1 .. m : tokens[j] = r[j]
        /\ tokens[m + 1] = SubSeq(text, b, i)
    <3>1. PICK token : token = SubSeq(text, b, i)
      OBVIOUS
    <3>2. r \in Seq(Seq(Char)) /\ token \in Seq(Char) /\ state.s = token
      BY <1>6, <2>1, <3>1
    <3>3. PICK Tokens : Tokens = Seq(Char)
      OBVIOUS
    <3>4. r \in Seq(Tokens) /\ token \in Tokens /\ tokens = Append(r, token)
      BY <2>2, <3>2, <3>3
    <3>5. /\ tokens \in Seq(Tokens) /\ Len(tokens) = Len(r) + 1
          /\ \A j \in 1 .. Len(r) : tokens[j] = r[j]
          /\ tokens[Len(r) + 1] = token
      BY <3>4, AppendProperties
    <3> QED
      BY <1>5, <3>1, <3>3, <3>5
  <2>5. PICK run \in Runs : run = <<b, i>> /\ run[1] = b /\ run[2] = i
    BY <1>3, <1>7
  <2>6. PICK all : all = [j \in 1 .. m + 1 |-> IF j <= m THEN at[j] ELSE run]
    OBVIOUS
  <2>7. /\ \A j \in 1 .. m : j \in 1 .. m + 1 /\ all[j] = at[j] /\ at[j] \in Runs
        /\ m + 1 \in 1 .. m + 1 /\ all[m + 1] = run
        /\ \A j \in 1 .. m + 1 : j \in 1 .. m \/ j = m + 1
    BY <1>6, <2>6
  <2>8. all \in [1 .. m + 1 -> Runs]
    BY <2>6, <2>7
  <2>9. ASSUME NEW j \in 1 .. m + 1
        PROVE  all[j][2] < i + 1 /\ tokens[j] = SubSeq(text, all[j][1], all[j][2])
    <3>1. CASE j \in 1 .. m
      <4>1. all[j] = at[j] /\ tokens[j] = r[j] /\ at[j][2] < b - 1 /\ at[j][2] \in Int
        BY <1>4, <1>6, <2>4, <2>7, <3>1
      <4>2. all[j][2] < i + 1
        BY <1>2, <4>1
      <4>3. tokens[j] = SubSeq(text, all[j][1], all[j][2])
        <5>1. r[j] = SubSeq(text, at[j][1], at[j][2])
          BY <1>6, <3>1
        <5> QED
          BY <4>1, <5>1
      <4> QED
        BY <4>2, <4>3
    <3>2. CASE j = m + 1
      BY <1>2, <2>4, <2>5, <2>7, <3>2
    <3> QED
      BY <2>7, <3>1, <3>2
  <2>10. ASSUME NEW other \in Runs, other[2] < i + 1
         PROVE  \E j \in 1 .. m + 1 : all[j] = other
    <3>1. CASE other[2] < b - 1
      <4>1. PICK j \in 1 .. m : at[j] = other
        BY <1>6, <3>1
      <4> QED
        BY <2>7, <4>1
    <3>2. CASE other = <<b, i>>
      BY <2>5, <2>7, <3>2
    <3> QED
      BY <1>3, <2>10, <3>1, <3>2
  <2>11. ASSUME NEW k \in 1 .. m + 1, NEW j \in 1 .. m + 1, k < j
         PROVE  all[k][2] < all[j][1]
    <3>1. k \in 1 .. m
      BY <1>6, <2>11
    <3>2. CASE j \in 1 .. m
      BY <1>6, <2>7, <2>11, <3>1, <3>2
    <3>3. CASE j = m + 1
      <4>1. all[k] = at[k] /\ at[k][2] < b - 1 /\ at[k][2] \in Int
        BY <1>4, <1>6, <2>7, <3>1
      <4>2. all[j][1] = b
        BY <2>5, <2>7, <3>3
      <4> QED
        BY <1>2, <4>1, <4>2
    <3> QED
      BY <2>7, <3>2, <3>3
  <2>12. Listed(tokens, all, i + 1)
    BY <2>4, <2>8, <2>9, <2>10, <2>11 DEF Listed
  <2> QED
    BY <2>3, <2>12
<1>8. CASE ~(b <= i)
  <2>1. state.s = <<>>
    <3>1. Len(state.s) = 0 /\ state.s \in Seq(Char)
      BY <1>1, <1>2, <1>8, SubSeqProperties
    <3> QED
      BY <3>1, EmptySeq
  <2>2. PushedBack(state) = r
    BY <1>5, <2>1 DEF PushedBack
  <2>3. \A j \in 1 .. m : at[j][2] < i + 1
    <3>1. ASSUME NEW j \in 1 .. m
          PROVE  at[j][2] < i + 1
      <4>1. at[j][2] < b - 1 /\ at[j][2] \in Int
        BY <1>4, <1>6
      <4> QED
        BY <1>2, <4>1
    <3> QED
      BY <3>1
  <2>4. Listed(r, at, i + 1)
    BY <1>3, <1>5, <1>6, <1>8, <2>3 DEF Listed
  <2> QED
    BY <2>2, <2>4
<1> QED
  BY <1>7, <1>8

(* After each byte, the tokens so far are listed, and the rest is the run  *)
(* that has begun.                                                         *)
LEMMA SplitsSoFar ==
    ASSUME TextInv, NEW f, f[0] = [r |-> <<>>, s |-> <<>>],
           \A i \in 1 .. Len(text) : f[i] = Taken(f[i - 1], text[i])
    PROVE  \E b, at : /\ RunFrom(b, Len(text))
                      /\ f[Len(text)].s = SubSeq(text, b, Len(text))
                      /\ Listed(f[Len(text)].r, at, b - 1)
<1>1. PICK n \in Nat : n = Len(text) /\ DOMAIN text = 1 .. n
  BY LenProperties DEF TextInv
<1> DEFINE Q(i) == \E b, at : /\ RunFrom(b, i)
                              /\ f[i].s = SubSeq(text, b, i)
                              /\ Listed(f[i].r, at, b - 1)
           T == {k \in 1 .. n + 1 : Q(k - 1)}
<1>2. \A run \in Runs : run[1] \in 1 .. n /\ run[2] \in 1 .. n
  BY <1>1 DEF Runs
<1>3. Q(0)
  <2>1. RunFrom(1, 0)
    BY DEF RunFrom
  <2>2. f[0].s = SubSeq(text, 1, 0) /\ f[0].r = <<>>
    BY SubSeqEmpty
  <2>3. Listed(<<>>, <<>>, 1 - 1)
    <3>1. ~(\E run \in Runs : run[2] < 1 - 1)
      BY <1>2
    <3>2. <<>> \in Seq(Seq(Char)) /\ Len(<<>>) = 0 /\ <<>> \in [1 .. 0 -> Runs]
      OBVIOUS
    <3> QED
      BY <3>1, <3>2 DEF Listed
  <2> QED
    BY <2>1, <2>2, <2>3
<1>4. ASSUME NEW i \in 0 .. n, i < n, Q(i)
      PROVE  Q(i + 1)
  <2>1. PICK b, at : /\ RunFrom(b, i)
                     /\ f[i].s = SubSeq(text, b, i)
                     /\ Listed(f[i].r, at, b - 1)
    BY <1>4
  <2>2. /\ i + 1 \in 1 .. n /\ (i + 1) - 1 = i /\ i \in 0 .. Len(text)
        /\ b \in 1 .. i + 1 /\ b \in Int /\ i \in Int
        /\ text \in Seq(Char) /\ text[i + 1] \in Char
    <3>1. i + 1 \in 1 .. n /\ (i + 1) - 1 = i /\ i \in 0 .. Len(text) /\ i \in Int
      BY <1>1, <1>4
    <3>2. b \in 1 .. i + 1
      BY <2>1 DEF RunFrom
    <3>3. b \in Int
      BY <3>2
    <3>4. text \in Seq(Char) /\ text[i + 1] \in Char
      BY <1>1, <3>1, LenProperties DEF TextInv
    <3> QED
      BY <3>1, <3>2, <3>3, <3>4
  <2>3. f[i + 1] = Taken(f[i], text[i + 1])
    BY <1>1, <2>2
  <2>4. PICK state : state = f[i]
    OBVIOUS
  <2>5. CASE text[i + 1] = Separator
    <3>1. PICK all : Listed(PushedBack(state), all, i + 1)
      BY <2>1, <2>2, <2>4, <2>5, Pushed
    <3>2. f[i + 1].r = PushedBack(state) /\ f[i + 1].s = <<>>
      BY <2>3, <2>4, <2>5 DEF Taken
    <3>3. RunFrom(i + 2, i + 1)
      <4>1. i + 2 \in 1 .. (i + 1) + 1 /\ (i + 2) - 1 = i + 1 /\ (i + 2) .. (i + 1) = {}
        BY <2>2
      <4> QED
        BY <2>5, <4>1 DEF RunFrom
    <3>4. f[i + 1].s = SubSeq(text, i + 2, i + 1)
      <4>1. i + 2 \in Int /\ i + 1 \in Int /\ i + 1 < i + 2
        BY <2>2
      <4>2. SubSeq(text, i + 2, i + 1) = <<>>
        BY <4>1, SubSeqEmpty
      <4> QED
        BY <3>2, <4>2
    <3>5. Listed(f[i + 1].r, all, (i + 2) - 1)
      <4>1. (i + 2) - 1 = i + 1
        BY <2>2
      <4> QED
        BY <3>1, <3>2, <4>1
    <3> QED
      BY <3>3, <3>4, <3>5
  <2>6. CASE text[i + 1] # Separator
    <3>1. f[i + 1].r = state.r /\ f[i + 1].s = Append(state.s, text[i + 1])
      BY <2>3, <2>4, <2>6 DEF Taken
    <3>2. RunFrom(b, i + 1)
      <4>1. b \in 1 .. (i + 1) + 1 /\ \A k \in b .. (i + 1) : k \in b .. i \/ k = i + 1
        BY <2>2
      <4> QED
        BY <2>1, <2>6, <4>1 DEF RunFrom
    <3>3. f[i + 1].s = SubSeq(text, b, i + 1)
      <4>1. b \in 1 .. Len(text) /\ i + 1 \in b .. Len(text)
        BY <1>1, <2>2
      <4>2. SubSeq(text, b, i + 1) = SubSeq(text, b, (i + 1) - 1) \o <<text[i + 1]>>
        BY <2>2, <4>1, SubSeqRecursiveSecond
      <4>3. SubSeq(text, b, i) \in Seq(Char)
        <5>1. \A k \in b .. i : text[k] \in Char
          BY <1>1, <2>2, LenProperties
        <5> QED
          BY <2>2, <5>1, SubSeqProperties
      <4>4. Append(SubSeq(text, b, i), text[i + 1]) = SubSeq(text, b, i) \o <<text[i + 1]>>
        BY <2>2, <4>3, AppendIsConcat
      <4> QED
        BY <2>1, <2>2, <2>4, <3>1, <4>2, <4>4
    <3> QED
      BY <2>1, <2>4, <3>1, <3>2, <3>3
  <2> QED
    BY <2>5, <2>6
<1>5. Q(n)
  <2> HIDE DEF Q
  <2>1. 1 \in T
    <3>1. 1 - 1 = 0 /\ 1 \in 1 .. n + 1
      OBVIOUS
    <3> QED
      BY <1>3, <3>1
  <2>2. ASSUME NEW k \in 1 .. n, k \in T
        PROVE  k + 1 \in T
    <3>1. k - 1 \in 0 .. n /\ k - 1 < n /\ (k - 1) + 1 = (k + 1) - 1 /\ k + 1 \in 1 .. n + 1
      OBVIOUS
    <3>2. Q((k - 1) + 1)
      BY <1>4, <2>2, <3>1
    <3> QED
      BY <3>1, <3>2
  <2>3. T \in SUBSET (1 .. n + 1) /\ n + 1 \in Nat /\ (n + 1) - 1 = n
    OBVIOUS
  <2>4. T = 1 .. n + 1
    <3> HIDE DEF T
    <3> QED
      BY <2>1, <2>2, <2>3, UpTo
  <2>5. n + 1 \in T
    BY <2>4
  <2> QED
    BY <2>3, <2>5
<1> QED
  BY <1>1, <1>5

LEMMA TokensAreRuns == TextInv => SplitAtSeparators
<1> SUFFICES ASSUME TextInv
             PROVE  SplitAtSeparators
  OBVIOUS
<1>1. PICK n \in Nat : n = Len(text)
  BY LenProperties DEF TextInv
<1>2. PICK f : /\ f[0] = [r |-> <<>>, s |-> <<>>]
               /\ \A i \in 1 .. n : f[i] = Taken(f[i - 1], text[i])
               /\ StrSplit(text) = PushedBack(f[n])
  BY <1>1, Splits
<1>3. PICK b, at : /\ RunFrom(b, n)
                   /\ f[n].s = SubSeq(text, b, n)
                   /\ Listed(f[n].r, at, b - 1)
  BY <1>1, <1>2, SplitsSoFar
<1>4. PICK state : state = f[n]
  OBVIOUS
<1>5. PICK all : Listed(PushedBack(state), all, n + 1)
  <2>1. n \in 0 .. Len(text)
    BY <1>1
  <2> QED
    BY <1>1, <1>3, <1>4, <2>1, Pushed
<1>6. PICK tokens : tokens = StrSplit(text)
  OBVIOUS
<1>7. Listed(tokens, all, n + 1)
  BY <1>2, <1>4, <1>5, <1>6
<1>8. DOMAIN tokens = 1 .. Len(tokens)
  BY <1>7, LenProperties DEF Listed
<1>9. \A run \in Runs : run[2] < n + 1
  <2>1. \A run \in Runs : run[2] \in 1 .. n
    BY <1>1, LenProperties DEF Runs, TextInv
  <2> QED
    BY <2>1
<1>10. /\ all \in [DOMAIN tokens -> Runs]
       /\ \A run \in Runs : \E i \in DOMAIN tokens : all[i] = run
       /\ \A i, j \in DOMAIN tokens : i < j => all[i][2] < all[j][1]
       /\ \A i \in DOMAIN tokens : tokens[i] = SubSeq(text, all[i][1], all[i][2])
  BY <1>7, <1>8, <1>9 DEF Listed
<1> QED
  BY <1>6, <1>10 DEF SplitAtSeparators

-----------------------------------------------------------------------------
LEMMA TextInvInit == Init => TextInv
BY TextAssumption DEF Init, TextInit, TextInv, Char

LEMMA TextInvStep == TextInv /\ [Next]_vars => TextInv'
<1> SUFFICES ASSUME TextInv, [Next]_vars
             PROVE  TextInv'
  OBVIOUS
<1>1. CASE TextNext
  BY <1>1, TextAssumption, AppendProperties DEF TextNext, grow, TextInv, Char
<1>2. CASE UNCHANGED textVars
  BY <1>2 DEF textVars, TextInv
<1> QED
  BY <1>1, <1>2 DEF Next, vars

(* Whatever bytes a text is made of, and however long it is: a name is     *)
(* normalised whatever case it was typed in, a URL's tokens are its runs   *)
(* between separators, in their order, and bytes are read back from their  *)
(* digits (Util.h: normalizePlayerName, isValidName, StrSplit, byteArray-  *)
(* ToAsciiString, asciiHexStringtoByteArray).                              *)
THEOREM TextFunctionsAgree == Spec => []TextAgrees
<1>1. TextInv => TextAgrees
  BY NamesAreNormal, TokensAreRuns, BytesAreReadBack DEF TextAgrees
<1> QED
  BY <1>1, TextInvInit, TextInvStep, PTL DEF Spec

-----------------------------------------------------------------------------
(* A function that is defined by what it is after one step more exists.    *)
StepsFrom(S, first, N, step) ==
    \E f \in [0 .. N -> S] :
        f[0] = first /\ \A i \in 1 .. N : f[i] = step[i][f[i - 1]]

LEMMA Iterated ==
    ASSUME NEW S, NEW first \in S, NEW N \in Nat, NEW step,
           \A i \in 1 .. N, x \in S : step[i][x] \in S
    PROVE  StepsFrom(S, first, N, step)
<1> DEFINE Iterates(f, k) == /\ f \in [0 .. k -> S] /\ f[0] = first
                             /\ \A i \in 1 .. k : f[i] = step[i][f[i - 1]]
           T == {k \in 1 .. N + 1 : \E f : Iterates(f, k - 1)}
<1>1. 1 \in T
  <2>1. Iterates([i \in 0 .. 0 |-> first], 0)
    OBVIOUS
  <2> HIDE DEF Iterates
  <2>2. \E f : Iterates(f, 1 - 1)
    BY <2>1
  <2> QED
    BY <2>2
<1>2. ASSUME NEW k \in 1 .. N, k \in T
      PROVE  k + 1 \in T
  <2>1. PICK f : Iterates(f, k - 1)
    BY <1>2
  <2>2. PICK last : last = step[k][f[k - 1]]
    OBVIOUS
  <2>3. last \in S
    BY <2>1, <2>2
  <2>4. PICK g : g = [i \in 0 .. k |-> IF i < k THEN f[i] ELSE last]
    OBVIOUS
  <2>5. ASSUME NEW i \in 0 .. k
        PROVE  i < k => g[i] = f[i] /\ f[i] \in S
    BY <2>1, <2>4
  <2>6. g[k] = last /\ k - 1 \in 0 .. k /\ k - 1 < k
    BY <2>4
  <2>7. \A i \in 0 .. k : g[i] \in S
    <3>1. \A i \in 0 .. k : i < k \/ i = k
      OBVIOUS
    <3> QED
      BY <2>3, <2>5, <2>6, <3>1
  <2>8. g \in [0 .. k -> S]
    BY <2>4, <2>7
  <2>9. g[0] = first
    BY <2>1, <2>5
  <2>10. ASSUME NEW i \in 1 .. k
         PROVE  g[i] = step[i][g[i - 1]]
    <3>1. CASE i < k
      <4>1. i \in 0 .. k /\ i - 1 \in 0 .. k /\ i - 1 < k /\ i \in 1 .. k - 1
        BY <3>1
      <4> QED
        BY <2>1, <2>5, <3>1, <4>1
    <3>2. CASE i = k
      BY <2>2, <2>5, <2>6, <3>2
    <3> QED
      BY <3>1, <3>2
  <2>11. Iterates(g, k)
    BY <2>8, <2>9, <2>10
  <2> HIDE DEF Iterates
  <2>12. (k + 1) - 1 = k /\ k + 1 \in 1 .. N + 1
    OBVIOUS
  <2>13. \E h : Iterates(h, (k + 1) - 1)
    BY <2>11, <2>12
  <2> QED
    BY <2>12, <2>13
<1>3. \E f : Iterates(f, N)
  <2> HIDE DEF Iterates
  <2>1. T \in SUBSET (1 .. N + 1) /\ N + 1 \in Nat /\ (N + 1) - 1 = N
    OBVIOUS
  <2>2. T = 1 .. N + 1
    <3> HIDE DEF T
    <3> QED
      BY <1>1, <1>2, <2>1, UpTo
  <2>3. N + 1 \in T
    <3> HIDE DEF T
    <3> QED
      BY <2>1, <2>2
  <2> QED
    BY <2>1, <2>3
<1> QED
  BY <1>3 DEF StepsFrom

(* Numbers.                                                                *)
LEMMA Shifts ==
    ASSUME NEW v \in Nat
    PROVE  /\ Shifted(v) \in [0 .. 8 -> Nat]
           /\ Shifted(v)[0] = v
           /\ \A i \in 1 .. 8 : Shifted(v)[i] = Shifted(v)[i - 1] \div 256
<1> DEFINE Is(f) == f = [i \in 0 .. 8 |-> IF i = 0 THEN v ELSE f[i - 1] \div 256]
<1>1. \E f : Is(f)
  <2>1. PICK step : step = [i \in 1 .. 8 |-> [x \in Nat |-> x \div 256]]
    OBVIOUS
  <2>3. PICK f \in [0 .. 8 -> Nat] : f[0] = v /\ \A i \in 1 .. 8 : f[i] = step[i][f[i - 1]]
    <3>1. PICK S : S = Nat
      OBVIOUS
    <3>2. v \in S /\ 8 \in Nat /\ \A i \in 1 .. 8, x \in S : step[i][x] \in S
      BY <2>1, <3>1
    <3>3. PICK f \in [0 .. 8 -> S] : f[0] = v /\ \A i \in 1 .. 8 : f[i] = step[i][f[i - 1]]
      <4>1. StepsFrom(S, v, 8, step)
        BY <3>2, Iterated
      <4> QED
        BY <4>1 DEF StepsFrom
    <3> QED
      BY <3>1, <3>3
  <2>4. \A i \in 1 .. 8 : i - 1 \in 0 .. 8 /\ f[i] = f[i - 1] \div 256
    BY <2>1, <2>3
  <2>5. \A i \in 0 .. 8 : i = 0 \/ i \in 1 .. 8
    OBVIOUS
  <2>6. \A i \in 0 .. 8 : f[i] = IF i = 0 THEN v ELSE f[i - 1] \div 256
    BY <2>3, <2>4, <2>5
  <2>7. Is(f)
    BY <2>6
  <2> QED
    BY <2>7
<1> DEFINE F == CHOOSE f : Is(f)
<1>2. Shifted(v) = F
  BY DEF Shifted
<1>3. Is(F)
  <2> HIDE DEF Is
  <2> QED
    BY <1>1
<1> HIDE DEF F
<1>4. F[0] = v /\ \A i \in 1 .. 8 : F[i] = F[i - 1] \div 256
  BY <1>3
<1>5. /\ F[0] \in Nat /\ F[1] \in Nat /\ F[2] \in Nat /\ F[3] \in Nat /\ F[4] \in Nat
      /\ F[5] \in Nat /\ F[6] \in Nat /\ F[7] \in Nat /\ F[8] \in Nat
  BY <1>4
<1>6. \A i \in 0 .. 8 : F[i] \in Nat
  BY <1>5
<1>7. F \in [0 .. 8 -> Nat]
  BY <1>3, <1>6
<1> QED
  BY <1>2, <1>4, <1>7

(* Bytes from which a number is read back.                                 *)
ReadAs(t, w, v) ==
    /\ t \in [1 .. w -> Char]
    /\ \A storage, pos :
           (\A k \in 1 .. w : storage[pos + k] = t[k]) => NumberAt(storage, pos, w) = v

(* Eight bytes of which those beyond the width are zero.                   *)
LEMMA NumberIsReadBack ==
    ASSUME NEW w \in {1, 2, 4, 8}, NEW v, Fits(v, w)
    PROVE  ReadAs(Bytes(v, w), w, v)
<1> v \in Nat /\ Shifted(v)[w] = 0
  BY DEF Fits
<1>1. PICK q : q = Shifted(v)
  OBVIOUS
<1>2. q \in [0 .. 8 -> Nat] /\ q[0] = v /\ \A i \in 1 .. 8 : q[i] = q[i - 1] \div 256
  BY <1>1, Shifts
<1>3. PICK b : b = [i \in 1 .. 8 |-> q[i - 1] % 256]
  OBVIOUS
<1>4. ASSUME NEW i \in 1 .. 8
      PROVE  b[i] \in Char /\ q[i - 1] = b[i] + 256 * q[i]
  <2>1. q[i - 1] \in Nat /\ q[i] = q[i - 1] \div 256 /\ b[i] = q[i - 1] % 256
    BY <1>2, <1>3
  <2>2. PICK x, y, r : x = q[i - 1] /\ y = q[i] /\ r = b[i]
    OBVIOUS
  <2>3. x \in Nat /\ y = x \div 256 /\ r = x % 256
    BY <2>1, <2>2
  <2>4. r \in Char /\ x = r + 256 * y
    <3>1. y \in Int
      BY <2>3
    <3>2. r = x - 256 * y
      BY <2>3, <3>1
    <3>3. r \in Char
      BY <2>3 DEF Char
    <3> QED
      BY <2>3, <3>1, <3>2, <3>3
  <2> QED
    BY <2>2, <2>4
<1>5. /\ q[0] = b[1] + 256 * q[1] /\ q[1] = b[2] + 256 * q[2] /\ q[2] = b[3] + 256 * q[3]
      /\ q[3] = b[4] + 256 * q[4] /\ q[4] = b[5] + 256 * q[5] /\ q[5] = b[6] + 256 * q[6]
      /\ q[6] = b[7] + 256 * q[7] /\ q[7] = b[8] + 256 * q[8]
  BY <1>4
<1>6. Bytes(v, w) = [i \in 1 .. w |-> b[i]]
  BY <1>1, <1>3 DEF Bytes
<1>7. Bytes(v, w) \in [1 .. w -> Char]
  <2>1. \A i \in 1 .. w : i \in 1 .. 8
    OBVIOUS
  <2> QED
    BY <1>4, <1>6, <2>1
<1>8. ASSUME NEW storage, NEW pos, \A k \in 1 .. w : storage[pos + k] = Bytes(v, w)[k]
      PROVE  NumberAt(storage, pos, w) = v
  <2>1. \A k \in 1 .. w : storage[pos + k] = b[k]
    BY <1>6, <1>8
  <2>2. q[w] = 0
    BY <1>1
  <2>3. /\ q[0] \in Nat /\ q[1] \in Nat /\ q[2] \in Nat /\ q[3] \in Nat /\ q[4] \in Nat
        /\ q[5] \in Nat /\ q[6] \in Nat /\ q[7] \in Nat /\ q[8] \in Nat
    BY <1>2
  <2>4. CASE w = 1
    BY <1>2, <1>5, <2>1, <2>2, <2>3, <2>4 DEF NumberAt
  <2>5. CASE w = 2
    BY <1>2, <1>5, <2>1, <2>2, <2>3, <2>5 DEF NumberAt
  <2>6. CASE w = 4
    BY <1>2, <1>5, <2>1, <2>2, <2>3, <2>6 DEF NumberAt
  <2>7. CASE w = 8
    <3>1. /\ storage[pos + 1] = b[1] /\ storage[pos + 2] = b[2] /\ storage[pos + 3] = b[3]
          /\ storage[pos + 4] = b[4] /\ storage[pos + 5] = b[5] /\ storage[pos + 6] = b[6]
          /\ storage[pos + 7] = b[7] /\ storage[pos + 8] = b[8]
      BY <2>1, <2>7
    <3>2. NumberAt(storage, pos, w) = b[1] + 256 * (b[2] + 256 * (b[3] + 256 * (b[4]
              + 256 * (b[5] + 256 * (b[6] + 256 * (b[7] + 256 * b[8]))))))
      BY <2>7, <3>1 DEF NumberAt
    <3>3. q[7] = b[8]
      <4>1. b[8] \in Int
        BY <1>4 DEF Char
      <4> QED
        BY <1>5, <2>2, <2>7, <4>1
    <3> QED
      BY <1>2, <1>5, <3>2, <3>3
  <2> QED
    BY <2>4, <2>5, <2>6, <2>7
<1> QED
  BY <1>7, <1>8 DEF ReadAs

(* Packed guids.                                                           *)

LEMMA PowerOfTwo ==
    ASSUME NEW i \in 1 .. 8
    PROVE  2 ^ (i - 1) \in Nat
<1>1. CASE i = 1
  BY <1>1
<1>2. CASE i = 2
  BY <1>2
<1>3. CASE i = 3
  BY <1>3
<1>4. CASE i = 4
  BY <1>4
<1>5. CASE i = 5
  BY <1>5
<1>6. CASE i = 6
  BY <1>6
<1>7. CASE i = 7
  BY <1>7
<1>8. CASE i = 8
  BY <1>8
<1> QED
  BY <1>1, <1>2, <1>3, <1>4, <1>5, <1>6, <1>7, <1>8

LEMMA BitsOfMask ==
    ASSUME NEW b \in [1 .. 8 -> {0, 1}], NEW mask,
           mask = b[1] + 2 * b[2] + 4 * b[3] + 8 * b[4]
                      + 16 * b[5] + 32 * b[6] + 64 * b[7] + 128 * b[8]
    PROVE  mask \in Char /\ \A i \in 1 .. 8 : (mask \div 2 ^ (i - 1)) % 2 = b[i]
<1>1. PICK b1, b2, b3, b4, b5, b6, b7, b8 \in {0, 1} :
          /\ b[1] = b1 /\ b[2] = b2 /\ b[3] = b3 /\ b[4] = b4
          /\ b[5] = b5 /\ b[6] = b6 /\ b[7] = b7 /\ b[8] = b8
          /\ mask = b1 + 2 * b2 + 4 * b3 + 8 * b4 + 16 * b5 + 32 * b6 + 64 * b7 + 128 * b8
  <2>1. /\ b[1] \in {0, 1} /\ b[2] \in {0, 1} /\ b[3] \in {0, 1} /\ b[4] \in {0, 1}
        /\ b[5] \in {0, 1} /\ b[6] \in {0, 1} /\ b[7] \in {0, 1} /\ b[8] \in {0, 1}
    OBVIOUS
  <2> QED
    BY <2>1
<1>2. /\ b1 \in Int /\ b2 \in Int /\ b3 \in Int /\ b4 \in Int
      /\ b5 \in Int /\ b6 \in Int /\ b7 \in Int /\ b8 \in Int
      /\ 0 <= b1 /\ b1 <= 1 /\ 0 <= b2 /\ b2 <= 1 /\ 0 <= b3 /\ b3 <= 1 /\ 0 <= b4 /\ b4 <= 1
      /\ 0 <= b5 /\ b5 <= 1 /\ 0 <= b6 /\ b6 <= 1 /\ 0 <= b7 /\ b7 <= 1 /\ 0 <= b8 /\ b8 <= 1
  OBVIOUS
<1>3. mask \in Char
  BY <1>1, <1>2 DEF Char
<1>4. /\ (mask \div 1) % 2 = b1 /\ (mask \div 2) % 2 = b2
      /\ (mask \div 4) % 2 = b3 /\ (mask \div 8) % 2 = b4
  BY <1>1, <1>2
<1>5. /\ (mask \div 16) % 2 = b5 /\ (mask \div 32) % 2 = b6
      /\ (mask \div 64) % 2 = b7 /\ (mask \div 128) % 2 = b8
  BY <1>1, <1>2
<1>6. ASSUME NEW i \in 1 .. 8
      PROVE  (mask \div 2 ^ (i - 1)) % 2 = b[i]
  <2>1. i = 1 \/ i = 2 \/ i = 3 \/ i = 4 \/ i = 5 \/ i = 6 \/ i = 7 \/ i = 8
    OBVIOUS
  <2>2. (mask \div 2 ^ (i - 1)) % 2 = b[i]
    <3>1. CASE i = 1
      BY <1>1, <1>4, <3>1
    <3>2. CASE i = 2
      BY <1>1, <1>4, <3>2
    <3>3. CASE i = 3
      BY <1>1, <1>4, <3>3
    <3>4. CASE i = 4
      BY <1>1, <1>4, <3>4
    <3>5. CASE i = 5
      BY <1>1, <1>5, <3>5
    <3>6. CASE i = 6
      BY <1>1, <1>5, <3>6
    <3>7. CASE i = 7
      BY <1>1, <1>5, <3>7
    <3>8. CASE i = 8
      BY <1>1, <1>5, <3>8
    <3> QED
      BY <2>1, <3>1, <3>2, <3>3, <3>4, <3>5, <3>6, <3>7, <3>8
  <2> QED
    BY <2>2
<1> QED
  BY <1>3, <1>6

(* How many of the first bytes are not zero.                               *)
LEMMA NonZeros ==
    ASSUME NEW g
    PROVE  \E c \in [0 .. 8 -> Nat] :
               /\ \A i \in 0 .. 8 : c[i] = Cardinality({j \in 1 .. i : g[j] # 0})
               /\ c[0] = 0
               /\ \A i \in 1 .. 8 : c[i] = IF g[i] = 0 THEN c[i - 1] ELSE c[i - 1] + 1
<1> DEFINE Upto(i) == {j \in 1 .. i : g[j] # 0}
           c == [i \in 0 .. 8 |-> Cardinality(Upto(i))]
<1>1. ASSUME NEW i \in Nat
      PROVE  IsFiniteSet(Upto(i)) /\ Cardinality(Upto(i)) \in Nat
  <2>1. IsFiniteSet(1 .. i) /\ Upto(i) \subseteq 1 .. i
    BY FS_Interval
  <2> QED
    BY <2>1, FS_Subset, FS_CardinalityType
<1>2. Cardinality(Upto(0)) = 0
  <2>1. Upto(0) = {}
    OBVIOUS
  <2> QED
    BY <2>1, FS_EmptySet
<1>3. ASSUME NEW i \in 1 .. 8
      PROVE  Cardinality(Upto(i)) = IF g[i] = 0 THEN Cardinality(Upto(i - 1))
                                  ELSE Cardinality(Upto(i - 1)) + 1
  <2>1. i - 1 \in Nat
    OBVIOUS
  <2>2. g[i] = 0 => Upto(i) = Upto(i - 1)
    OBVIOUS
  <2>3. g[i] # 0 => Upto(i) = Upto(i - 1) \union {i}
    OBVIOUS
  <2>4. i \notin Upto(i - 1)
    OBVIOUS
  <2>5. IsFiniteSet(Upto(i - 1))
    BY <1>1, <2>1
  <2> HIDE DEF Upto
  <2> QED
    BY <2>2, <2>3, <2>4, <2>5, FS_AddElement
<1> HIDE DEF Upto
<1>4. c \in [0 .. 8 -> Nat]
  BY <1>1
<1>5. \A i \in 1 .. 8 : i - 1 \in 0 .. 8 /\ i \in 0 .. 8
  OBVIOUS
<1>6. /\ c[0] = 0
      /\ \A i \in 1 .. 8 : c[i] = IF g[i] = 0 THEN c[i - 1] ELSE c[i - 1] + 1
  BY <1>2, <1>3, <1>5
<1>7. \A i \in 0 .. 8 : c[i] = Cardinality({j \in 1 .. i : g[j] # 0})
  BY DEF Upto
<1> QED
  BY <1>4, <1>6, <1>7

(* A mask with one bit more, and the byte behind the others.               *)
Marked(s, bit, byte) == Append([s EXCEPT ![1] = @ + bit], byte)

IsMarked(t, s, bit, byte) ==
    /\ t \in Seq(Nat) \ {<<>>}
    /\ Len(t) = Len(s) + 1
    /\ t[1] = s[1] + bit
    /\ \A k \in 2 .. Len(s) : t[k] = s[k]
    /\ t[Len(s) + 1] = byte

LEMMA MarkedBytes ==
    ASSUME NEW s \in Seq(Nat), s # <<>>, NEW bit \in Nat, NEW byte \in Nat
    PROVE  IsMarked(Marked(s, bit, byte), s, bit, byte)
<1>1. Len(s) \in Nat /\ Len(s) # 0 /\ DOMAIN s = 1 .. Len(s)
  BY EmptySeq, LenProperties
<1>2. PICK t : t = [s EXCEPT ![1] = @ + bit]
  OBVIOUS
<1>3. s \in [1 .. Len(s) -> Nat]
  BY <1>1, LenProperties
<1>4. 1 \in 1 .. Len(s) /\ s[1] + bit \in Nat
  BY <1>1, <1>3
<1>5. t \in [1 .. Len(s) -> Nat] /\ t[1] = s[1] + bit /\ \A k \in 2 .. Len(s) : t[k] = s[k]
  BY <1>2, <1>3, <1>4
<1>6. t \in Seq(Nat) /\ Len(t) = Len(s)
  BY <1>1, <1>5, LenProperties
<1>7. PICK u : u = Append(t, byte)
  OBVIOUS
<1>8. /\ u \in Seq(Nat) /\ u # <<>> /\ Len(u) = Len(t) + 1
      /\ \A k \in 1 .. Len(t) : u[k] = t[k]
      /\ u[Len(t) + 1] = byte
  BY <1>6, <1>7, AppendProperties
<1>9. Marked(s, bit, byte) = u
  BY <1>2, <1>7 DEF Marked
<1> QED
  BY <1>4, <1>5, <1>6, <1>8, <1>9 DEF IsMarked

(* The function that appendPackGUID is defined by exists.                  *)
LEMMA GuidSteps ==
    ASSUME NEW g \in [1 .. 8 -> Char]
    PROVE  \E a : /\ a[0] = <<0>>
                  /\ \A i \in 1 .. 8 :
                        a[i] = IF g[i] = 0 THEN a[i - 1]
                               ELSE Marked(a[i - 1], 2 ^ (i - 1), g[i])
                  /\ appendPackGUID(g) = a[8]
<1> DEFINE StepOf(i, x) == IF g[i] = 0 THEN x ELSE Marked(x, 2 ^ (i - 1), g[i])
           Is(a) == a = [i \in 0 .. 8 |-> IF i = 0 THEN <<0>> ELSE StepOf(i, a[i - 1])]
<1>1. \E a : Is(a)
  <2>1. PICK S : S = Seq(Nat) \ {<<>>}
    OBVIOUS
  <2>2. PICK step : step = [i \in 1 .. 8 |-> [x \in S |-> StepOf(i, x)]]
    OBVIOUS
  <2>3. \A i \in 1 .. 8, x \in S : step[i][x] = StepOf(i, x)
    <3> HIDE DEF StepOf
    <3> QED
      BY <2>2
  <2>4. ASSUME NEW i \in 1 .. 8, NEW x \in S
        PROVE  StepOf(i, x) \in S
    <3>1. 2 ^ (i - 1) \in Nat
      BY PowerOfTwo
    <3>2. x \in Seq(Nat) /\ x # <<>> /\ g[i] \in Nat
      <4>1. g[i] \in Char
        OBVIOUS
      <4>2. g[i] \in Nat
        BY <4>1 DEF Char
      <4>3. x \in Seq(Nat) /\ x # <<>>
        BY <2>1, Zenon
      <4> QED
        BY <4>2, <4>3
    <3>3. Marked(x, 2 ^ (i - 1), g[i]) \in S
      BY <2>1, <3>1, <3>2, MarkedBytes DEF IsMarked
    <3> QED
      BY <3>3
  <2>5. <<0>> \in S
    BY <2>1
  <2> HIDE DEF StepOf
  <2>6. StepsFrom(S, <<0>>, 8, step)
    <3>1. 8 \in Nat /\ \A i \in 1 .. 8, x \in S : step[i][x] \in S
      BY <2>3, <2>4
    <3> QED
      BY <2>5, <3>1, Iterated
  <2>7. PICK f \in [0 .. 8 -> S] : f[0] = <<0>> /\ \A i \in 1 .. 8 : f[i] = step[i][f[i - 1]]
    BY <2>6 DEF StepsFrom
  <2>8. ASSUME NEW i \in 1 .. 8
        PROVE  f[i] = StepOf(i, f[i - 1])
    <3>1. i - 1 \in 0 .. 8
      OBVIOUS
    <3>2. f[i - 1] \in S
      BY <2>7, <3>1
    <3> QED
      BY <2>3, <2>7, <3>2
  <2>9. \A i \in 0 .. 8 : i = 0 \/ i \in 1 .. 8
    OBVIOUS
  <2>10. \A i \in 0 .. 8 : f[i] = IF i = 0 THEN <<0>> ELSE StepOf(i, f[i - 1])
    BY <2>7, <2>8, <2>9
  <2>11. f = [i \in 0 .. 8 |-> f[i]]
    BY <2>7
  <2>12. Is(f)
    BY <2>10, <2>11
  <2> QED
    BY <2>12
<1> DEFINE F == CHOOSE a : Is(a)
<1>2. appendPackGUID(g) = F[8]
  BY DEF appendPackGUID, Marked
<1>3. Is(F)
  <2> HIDE DEF Is
  <2> QED
    BY <1>1
<1> HIDE DEF F
<1>4. F[0] = <<0>>
  <2> HIDE DEF StepOf
  <2> QED
    BY <1>3
<1>5. \A i \in 1 .. 8 : F[i] = StepOf(i, F[i - 1])
  <2> HIDE DEF StepOf
  <2> QED
    BY <1>3
<1> QED
  BY <1>2, <1>4, <1>5

(* After the first bytes of a guid: its bytes so far follow the mask.      *)
Packed(g, c, s, mask, i) ==
    /\ s \in Seq(Nat) /\ s # <<>>
    /\ Len(s) = 1 + c[i]
    /\ s[1] = mask
    /\ \A j \in 1 .. i : g[j] # 0 => c[j] \in 1 .. c[i] /\ s[1 + c[j]] = g[j]

LEMMA PackedStep ==
    ASSUME NEW g \in [1 .. 8 -> Char], NEW c \in [0 .. 8 -> Nat], NEW i \in 1 .. 8,
           c[i] = IF g[i] = 0 THEN c[i - 1] ELSE c[i - 1] + 1,
           NEW s, NEW mask \in Nat, Packed(g, c, s, mask, i - 1),
           NEW bit \in Nat, NEW t,
           t = IF g[i] = 0 THEN s ELSE Marked(s, bit, g[i])
    PROVE  Packed(g, c, t, IF g[i] = 0 THEN mask ELSE mask + bit, i)
<1>1. \A j \in 1 .. i : j \in 1 .. i - 1 \/ j = i
  OBVIOUS
<1>2. i \in 0 .. 8 /\ i - 1 \in 0 .. 8 /\ c[i] \in Nat /\ c[i - 1] \in Nat
  OBVIOUS
<1>3. /\ s \in Seq(Nat) /\ s # <<>> /\ Len(s) = 1 + c[i - 1] /\ s[1] = mask
      /\ \A j \in 1 .. i - 1 : g[j] # 0 => c[j] \in 1 .. c[i - 1] /\ s[1 + c[j]] = g[j]
  BY DEF Packed
<1>4. CASE g[i] = 0
  <2>1. t = s /\ c[i] = c[i - 1]
    BY <1>4
  <2> QED
    BY <1>1, <1>3, <1>4, <2>1 DEF Packed
<1>5. CASE g[i] # 0
  <2>1. t = Marked(s, bit, g[i]) /\ c[i] = c[i - 1] + 1
    BY <1>5
  <2>2. PICK n \in Nat, byte \in Nat : n = c[i - 1] /\ byte = g[i]
    <3>1. g[i] \in Nat
      BY DEF Char
    <3> QED
      BY <1>2, <3>1
  <2>3. PICK d \in Nat, l \in Nat : d = c[i] /\ l = Len(s) /\ l = 1 + n /\ d = n + 1
    <3>1. Len(s) = 1 + n
      BY <1>3, <2>2, Zenon
    <3>2. c[i] = n + 1
      BY <2>1, <2>2, Zenon
    <3>3. n + 1 \in Nat /\ 1 + n \in Nat
      OBVIOUS
    <3> QED
      BY <3>1, <3>2, <3>3
  <2>4. /\ t \in Seq(Nat) /\ t # <<>> /\ Len(t) = Len(s) + 1 /\ t[1] = s[1] + bit
        /\ \A k \in 2 .. Len(s) : t[k] = s[k]
        /\ t[Len(s) + 1] = byte
    <3>1. s \in Seq(Nat) /\ s # <<>> /\ t = Marked(s, bit, byte)
      BY <1>3, <2>1, <2>2
    <3>2. PICK u : u = Marked(s, bit, byte)
      OBVIOUS
    <3>3. /\ u \in Seq(Nat) \ {<<>>} /\ Len(u) = Len(s) + 1 /\ u[1] = s[1] + bit
          /\ \A k \in 2 .. Len(s) : u[k] = s[k]
          /\ u[Len(s) + 1] = byte
      <4>1. IsMarked(u, s, bit, byte)
        BY <3>1, <3>2, MarkedBytes
      <4> QED
        BY <4>1 DEF IsMarked
    <3>4. u = t
      BY <3>1, <3>2
    <3> QED
      BY <3>3, <3>4
  <2>5. ASSUME NEW j \in 1 .. i, g[j] # 0
        PROVE  c[j] \in 1 .. c[i] /\ t[1 + c[j]] = g[j]
    <3>1. CASE j = i
      <4>1. d \in 1 .. d /\ 1 + d = l + 1
        BY <2>3
      <4> QED
        BY <2>2, <2>3, <2>4, <3>1, <4>1
    <3>2. CASE j \in 1 .. i - 1
      <4>1. PICK k : k = c[j]
        OBVIOUS
      <4>2. k \in 1 .. n /\ s[1 + k] = g[j]
        BY <1>3, <2>2, <2>5, <3>2, <4>1
      <4>3. k \in 1 .. n + 1 /\ 1 + k \in 2 .. 1 + n
        BY <4>2
      <4>4. t[1 + k] = s[1 + k]
        BY <2>3, <2>4, <4>3
      <4> QED
        BY <2>3, <4>1, <4>2, <4>3, <4>4
    <3> QED
      BY <1>1, <3>1, <3>2
  <2>6. Len(t) = 1 + c[i] /\ t[1] = mask + bit
    <3>1. 1 + d = l + 1
      BY <2>3
    <3> QED
      BY <1>3, <2>3, <2>4, <3>1
  <2> QED
    BY <1>5, <2>4, <2>5, <2>6 DEF Packed
<1> QED
  BY <1>4, <1>5

(* The mask has the bits of the bytes that are not zero, which follow it.  *)
LEMMA GuidIsPacked ==
    ASSUME NEW g \in [1 .. 8 -> Char], NEW c \in [0 .. 8 -> Nat], c[0] = 0,
           \A i \in 1 .. 8 : c[i] = IF g[i] = 0 THEN c[i - 1] ELSE c[i - 1] + 1
    PROVE  \E mask \in Char : /\ \A i \in 1 .. 8 : (mask \div 2 ^ (i - 1)) % 2 = 1 <=> g[i] # 0
                              /\ Packed(g, c, appendPackGUID(g), mask, 8)
<1>1. PICK a : /\ a[0] = <<0>>
               /\ \A i \in 1 .. 8 : a[i] = IF g[i] = 0 THEN a[i - 1]
                                           ELSE Marked(a[i - 1], 2 ^ (i - 1), g[i])
               /\ appendPackGUID(g) = a[8]
  BY GuidSteps
<1>2. PICK b : b = [i \in 1 .. 8 |-> IF g[i] = 0 THEN 0 ELSE 1]
  OBVIOUS
<1>3. b \in [1 .. 8 -> {0, 1}]
  BY <1>2
<1>4. Packed(g, c, a[0], 0, 0) /\ \A i \in 1 .. 8, m, bit \in Nat :
          bit = 2 ^ (i - 1) /\ Packed(g, c, a[i - 1], m, i - 1)
              => m + bit * b[i] \in Nat /\ Packed(g, c, a[i], m + bit * b[i], i)
  <2>1. Packed(g, c, a[0], 0, 0)
    BY <1>1 DEF Packed
  <2>2. ASSUME NEW i \in 1 .. 8, NEW m \in Nat, NEW bit \in Nat,
               bit = 2 ^ (i - 1), Packed(g, c, a[i - 1], m, i - 1)
        PROVE  m + bit * b[i] \in Nat /\ Packed(g, c, a[i], m + bit * b[i], i)
    <3>1. m + bit * b[i] = IF g[i] = 0 THEN m ELSE m + bit
      BY <1>2
    <3>2. PICK s, t : s = a[i - 1] /\ t = a[i]
      OBVIOUS
    <3>3. t = IF g[i] = 0 THEN s ELSE Marked(s, bit, g[i])
      BY <1>1, <2>2, <3>2
    <3>4. Packed(g, c, t, IF g[i] = 0 THEN m ELSE m + bit, i)
      BY <2>2, <3>2, <3>3, PackedStep
    <3> QED
      BY <3>1, <3>2, <3>4
  <2> QED
    BY <2>1, <2>2
<1>5. PICK m1 \in Nat : m1 = 0 + 1 * b[1] /\ Packed(g, c, a[1], m1, 1)
  BY <1>3, <1>4
<1>6. PICK m2 \in Nat : m2 = m1 + 2 * b[2] /\ Packed(g, c, a[2], m2, 2)
  BY <1>3, <1>4, <1>5
<1>7. PICK m3 \in Nat : m3 = m2 + 4 * b[3] /\ Packed(g, c, a[3], m3, 3)
  BY <1>3, <1>4, <1>6
<1>8. PICK m4 \in Nat : m4 = m3 + 8 * b[4] /\ Packed(g, c, a[4], m4, 4)
  BY <1>3, <1>4, <1>7
<1>9. PICK m5 \in Nat : m5 = m4 + 16 * b[5] /\ Packed(g, c, a[5], m5, 5)
  BY <1>3, <1>4, <1>8
<1>10. PICK m6 \in Nat : m6 = m5 + 32 * b[6] /\ Packed(g, c, a[6], m6, 6)
  BY <1>3, <1>4, <1>9
<1>11. PICK m7 \in Nat : m7 = m6 + 64 * b[7] /\ Packed(g, c, a[7], m7, 7)
  BY <1>3, <1>4, <1>10
<1>12. PICK m8 \in Nat : m8 = m7 + 128 * b[8] /\ Packed(g, c, a[8], m8, 8)
  BY <1>3, <1>4, <1>11
<1>13. m8 = b[1] + 2 * b[2] + 4 * b[3] + 8 * b[4]
                + 16 * b[5] + 32 * b[6] + 64 * b[7] + 128 * b[8]
  BY <1>3, <1>5, <1>6, <1>7, <1>8, <1>9, <1>10, <1>11, <1>12
<1>14. m8 \in Char /\ \A i \in 1 .. 8 : (m8 \div 2 ^ (i - 1)) % 2 = b[i]
  BY <1>3, <1>13, BitsOfMask
<1>15. \A i \in 1 .. 8 : b[i] = 1 <=> g[i] # 0
  BY <1>2
<1>16. PICK mask, packed : mask = m8 /\ mask \in Char /\ packed = appendPackGUID(g)
  BY <1>14
<1>17. \A i \in 1 .. 8 : (mask \div 2 ^ (i - 1)) % 2 = 1 <=> g[i] # 0
  <2> SUFFICES ASSUME NEW i \in 1 .. 8
               PROVE  (mask \div 2 ^ (i - 1)) % 2 = 1 <=> g[i] # 0
    OBVIOUS
  <2>1. PICK bit : bit = (m8 \div 2 ^ (i - 1)) % 2
    OBVIOUS
  <2>2. bit = b[i]
    BY <1>14, <2>1
  <2> QED
    BY <1>15, <1>16, <2>1, <2>2
<1>18. Packed(g, c, packed, mask, 8)
  BY <1>1, <1>12, <1>16
<1> QED
  BY <1>16, <1>17, <1>18, Zenon

(* What is streamed of each type.                                          *)

LEMMA SequenceOfMore ==
    ASSUME NEW S, NEW T, S \subseteq T, NEW s \in Seq(S)
    PROVE  s \in Seq(T)
<1>1. PICK n \in Nat : s \in [1 .. n -> S]
  BY LenProperties
<1>2. s \in [1 .. n -> T]
  BY <1>1
<1> QED
  BY <1>2

LEMMA SequenceOfBytes == ASSUME NEW s \in Seq(Char) PROVE s \in Seq(Nat)
<1>1. Char \subseteq Nat
  BY DEF Char
<1> QED
  BY <1>1, SequenceOfMore

LEMMA FunctionIsSequence ==
    ASSUME NEW S, NEW n \in Nat, NEW f \in [1 .. n -> S]
    PROVE  f \in Seq(S) /\ Len(f) = n
OBVIOUS

IsSlice(storage, pos, t) ==
    /\ pos + Len(t) <= Len(storage)
    /\ \A k \in 1 .. Len(t) : storage[pos + k] = t[k]

LEMMA SliceIsCopied ==
    ASSUME NEW storage \in Seq(Nat), NEW S, NEW t \in Seq(S), NEW pos \in Nat,
           IsSlice(storage, pos, t)
    PROVE  SubSeq(storage, pos + 1, pos + Len(t)) = t
<1>1. PICK n \in Nat, m \in Nat : n = Len(t) /\ m = Len(storage)
  BY LenProperties
<1>2. pos + n <= m /\ \A k \in 1 .. n : storage[pos + k] = t[k]
  BY <1>1 DEF IsSlice
<1>3. PICK first \in Int, last \in Int : first = pos + 1 /\ last = pos + n
  BY <1>1
<1>4. \A k \in first .. last : storage[k] \in Nat
  <2>1. \A k \in first .. last : k \in 1 .. m
    BY <1>2, <1>3
  <2> QED
    BY <1>1, <2>1, LenProperties
<1>5. PICK u : u = SubSeq(storage, first, last)
  OBVIOUS
<1>6. /\ u \in Seq(Nat) /\ Len(u) = (IF first <= last THEN last - first + 1 ELSE 0)
      /\ \A i \in 1 .. last - first + 1 : u[i] = storage[first + i - 1]
  BY <1>4, <1>5, SubSeqProperties
<1>7. last - first + 1 = n /\ (IF first <= last THEN last - first + 1 ELSE 0) = n
  BY <1>3
<1>8. Len(u) = n /\ \A i \in 1 .. n : u[i] = t[i]
  <2>1. \A i \in 1 .. n : first + i - 1 = pos + i
    BY <1>3
  <2> QED
    BY <1>2, <1>6, <1>7, <2>1
<1>9. u = t
  <2>1. u \in [1 .. n -> Nat] /\ t \in [1 .. n -> S]
    BY <1>1, <1>6, <1>8, LenProperties
  <2> QED
    BY <1>8, <2>1
<1> QED
  BY <1>1, <1>3, <1>5, <1>9

LEMMA StringIsExtracted ==
    ASSUME NEW s \in Seq(1 .. 255), _storage \in Seq(Nat), NEW pos \in Nat,
           IsSlice(_storage, pos, s \o << 0 >>)
    PROVE  /\ StringEnd(pos) = pos + Len(s)
           /\ SubSeq(_storage, pos + 1, StringEnd(pos)) = s
           /\ s \o << 0 >> \in Seq(Char) /\ Len(s \o <<0>>) = Len(s) + 1
<1>1. PICK n \in Nat, m \in Nat : n = Len(s) /\ m = Len(_storage)
  BY LenProperties
<1>2. PICK t : t = s \o <<0>>
  OBVIOUS
<1>3. /\ t \in Seq(Char) /\ Len(t) = n + 1
      /\ \A k \in 1 .. n : t[k] = s[k] /\ s[k] # 0
      /\ t[n + 1] = 0
  <2>1. s \in Seq(Char) /\ <<0>> \in Seq(Char) /\ Len(<<0>>) = 1
    BY DEF Char
  <2>2. /\ t \in Seq(Char) /\ Len(t) = n + 1
        /\ \A k \in 1 .. n : t[k] = s[k]
        /\ t[n + 1] = 0
    BY <1>1, <1>2, <2>1, ConcatProperties
  <2>3. \A k \in 1 .. n : s[k] \in 1 .. 255
    BY <1>1, LenProperties
  <2>4. \A k \in 1 .. n : s[k] # 0
    <3>1. 0 \notin 1 .. 255
      OBVIOUS
    <3> QED
      BY <2>3, <3>1, Zenon
  <2> QED
    BY <2>2, <2>4
<1>4. /\ pos + (n + 1) <= m
      /\ \A k \in 1 .. n : _storage[pos + k] = s[k] /\ _storage[pos + k] # 0
      /\ _storage[pos + (n + 1)] = 0
  BY <1>1, <1>2, <1>3 DEF IsSlice
<1> DEFINE Ends(i) == /\ i = Len(_storage) \/ _storage[i + 1] = 0
                      /\ \A j \in pos .. i - 1 : _storage[j + 1] # 0
<1>5. PICK e \in Nat : e = pos + n
  OBVIOUS
<1>6. e \in pos .. Len(_storage) /\ Ends(e)
  <2>1. e + 1 = pos + (n + 1)
    BY <1>5
  <2>2. ASSUME NEW j \in pos .. e - 1
        PROVE  _storage[j + 1] # 0
    <3>1. j - pos + 1 \in 1 .. n /\ pos + (j - pos + 1) = j + 1
      BY <1>5
    <3> QED
      BY <1>4, <3>1
  <2> QED
    BY <1>1, <1>4, <1>5, <2>1, <2>2
<1>7. ASSUME NEW i \in pos .. Len(_storage), Ends(i)
      PROVE  i = e
  <2>1. i \in Int /\ pos <= i /\ i <= m
    BY <1>1
  <2>2. CASE i < e
    <3>1. i - pos + 1 \in 1 .. n /\ pos + (i - pos + 1) = i + 1 /\ i # m
      BY <1>4, <1>5, <2>1, <2>2
    <3> QED
      BY <1>1, <1>4, <1>7, <3>1
  <2>3. CASE i > e
    <3>1. e \in pos .. i - 1 /\ e + 1 = pos + (n + 1)
      BY <1>5, <2>1, <2>3
    <3> QED
      BY <1>4, <1>7, <3>1
  <2> QED
    BY <2>1, <2>2, <2>3
<1>8. StringEnd(pos) = e
  <2> DEFINE P(i) == i \in pos .. Len(_storage) /\ Ends(i)
  <2>1. StringEnd(pos) = CHOOSE i \in pos .. Len(_storage) : Ends(i)
    BY DEF StringEnd
  <2> HIDE DEF Ends
  <2> QED
    BY <1>6, <1>7, <2>1
<1>9. IsSlice(_storage, pos, s)
  <2>1. pos + n <= m
    BY <1>4
  <2> QED
    BY <1>1, <1>4, <2>1 DEF IsSlice
<1>10. SubSeq(_storage, pos + 1, pos + Len(s)) = s
  BY <1>9, SliceIsCopied
<1> QED
  BY <1>1, <1>2, <1>3, <1>5, <1>8, <1>10

LEMMA VectorIsExtracted ==
    ASSUME NEW v \in Seq(Char), Fits(Len(v), 4),
           _storage \in Seq(Nat), NEW pos \in Nat,
           IsSlice(_storage, pos, Bytes(Len(v), 4) \o v)
    PROVE  /\ NumberAt(_storage, pos, 4) = Len(v)
           /\ SubSeq(_storage, pos + 5, pos + 4 + Len(v)) = v
           /\ Bytes(Len(v), 4) \o v \in Seq(Char)
           /\ Len(Bytes(Len(v), 4) \o v) = 4 + Len(v)
<1>0. PICK n \in Nat : n = Len(v)
  BY LenProperties
<1>1. PICK length : n = Len(v) /\ length = Bytes(n, 4)
  BY <1>0
<1>2. ReadAs(length, 4, n)
  <2>1. 4 \in {1, 2, 4, 8}
    OBVIOUS
  <2> QED
    BY <1>1, <2>1, NumberIsReadBack
<1>3. length \in Seq(Char) /\ Len(length) = 4
  <2>1. PICK m \in Nat : m = 4
    OBVIOUS
  <2>2. length \in [1 .. m -> Char]
    BY <1>2, <2>1 DEF ReadAs
  <2>3. length \in Seq(Char) /\ Len(length) = m
    BY <2>2, FunctionIsSequence
  <2> QED
    BY <2>1, <2>3
<1>4. PICK t : t = length \o v
  OBVIOUS
<1>5. /\ t \in Seq(Char) /\ Len(t) = 4 + n
      /\ \A k \in 1 .. 4 + n : t[k] = IF k <= 4 THEN length[k] ELSE v[k - 4]
  <2>1. /\ t \in Seq(Char) /\ Len(t) = Len(length) + Len(v)
        /\ \A k \in 1 .. Len(length) + Len(v) :
              t[k] = IF k <= Len(length) THEN length[k] ELSE v[k - Len(length)]
    BY <1>3, <1>4, ConcatProperties
  <2> QED
    BY <1>1, <1>3, <2>1
<1>6. IsSlice(_storage, pos, t)
  BY <1>1, <1>4
<1>7. NumberAt(_storage, pos, 4) = n
  <2>1. \A k \in 1 .. 4 : k \in 1 .. 4 + n /\ k <= 4
    OBVIOUS
  <2>2. \A k \in 1 .. 4 : _storage[pos + k] = length[k]
    BY <1>5, <1>6, <2>1 DEF IsSlice
  <2> QED
    BY <1>2, <2>2 DEF ReadAs
<1>8. PICK from \in Nat : from = pos + 4
  OBVIOUS
<1>9. IsSlice(_storage, from, v)
  <2>1. \A k \in 1 .. n : /\ 4 + k \in 1 .. 4 + n /\ ~(4 + k <= 4) /\ (4 + k) - 4 = k
                          /\ from + k = pos + (4 + k)
    BY <1>8
  <2>2. \A k \in 1 .. n : t[4 + k] = v[k]
    BY <1>5, <2>1
  <2>3. \A k \in 1 .. n : _storage[from + k] = v[k]
    BY <1>5, <1>6, <2>1, <2>2 DEF IsSlice
  <2>4. from + n = pos + (4 + n)
    BY <1>8
  <2>5. pos + (4 + n) <= Len(_storage)
    BY <1>5, <1>6 DEF IsSlice
  <2> QED
    BY <1>1, <2>3, <2>4, <2>5 DEF IsSlice
<1>10. SubSeq(_storage, from + 1, from + Len(v)) = v
  BY <1>9, SliceIsCopied
<1>11. from + 1 = pos + 5 /\ from + n = pos + 4 + n
  BY <1>8
<1> QED
  BY <1>1, <1>4, <1>5, <1>7, <1>10, <1>11

LEMMA GuidIsExtracted ==
    ASSUME NEW g \in [1 .. 8 -> Char], _storage \in Seq(Nat), NEW pos \in Nat,
           IsSlice(_storage, pos, appendPackGUID(g))
    PROVE  UnpackedGUID(pos) = [value |-> g, next |-> pos + Len(appendPackGUID(g))]
<1>1. PICK c \in [0 .. 8 -> Nat] :
          /\ \A i \in 0 .. 8 : c[i] = Cardinality({j \in 1 .. i : g[j] # 0})
          /\ c[0] = 0
          /\ \A i \in 1 .. 8 : c[i] = IF g[i] = 0 THEN c[i - 1] ELSE c[i - 1] + 1
  BY NonZeros
<1>2. PICK s : s = appendPackGUID(g)
  OBVIOUS
<1>3. PICK mask \in Char : /\ \A i \in 1 .. 8 : (mask \div 2 ^ (i - 1)) % 2 = 1 <=> g[i] # 0
                           /\ Packed(g, c, s, mask, 8)
  BY <1>1, <1>2, GuidIsPacked
<1>4. /\ s \in Seq(Nat) /\ Len(s) = 1 + c[8] /\ s[1] = mask /\ c[8] \in Nat
      /\ \A j \in 1 .. 8 : g[j] # 0 => c[j] \in 1 .. c[8] /\ s[1 + c[j]] = g[j]
  BY <1>3 DEF Packed
<1>5. \A k \in 1 .. 1 + c[8] : _storage[pos + k] = s[k]
  BY <1>2, <1>4 DEF IsSlice
<1>6. _storage[pos + 1] = mask
  <2>1. PICK n \in Nat : n = c[8]
    BY <1>4
  <2>2. 1 \in 1 .. 1 + n
    OBVIOUS
  <2> QED
    BY <1>4, <1>5, <2>1, <2>2
<1> DEFINE Has(i) == (_storage[pos + 1] \div 2 ^ (i - 1)) % 2 = 1
           Before(i) == Cardinality({j \in 1 .. i : Has(j)})
           value == [i \in 1 .. 8 |-> IF Has(i) THEN _storage[pos + 1 + Before(i)] ELSE 0]
<1>7. \A i \in 1 .. 8 : Has(i) <=> g[i] # 0
  BY <1>3, <1>6
<1>8. UnpackedGUID(pos) = [value |-> value, next |-> pos + 1 + Before(8)]
  BY DEF UnpackedGUID
<1> HIDE DEF Has
<1>9. ASSUME NEW i \in 1 .. 8
      PROVE  Before(i) = c[i]
  <2>1. {j \in 1 .. i : Has(j)} = {j \in 1 .. i : g[j] # 0}
    <3>1. \A j \in 1 .. i : j \in 1 .. 8
      OBVIOUS
    <3> QED
      BY <1>7, <3>1
  <2>2. i \in 0 .. 8
    OBVIOUS
  <2> QED
    BY <1>1, <2>1, <2>2
<1> HIDE DEF Before
<1>10. ASSUME NEW i \in 1 .. 8
       PROVE  value[i] = g[i]
  <2>1. CASE g[i] = 0
    BY <1>7, <2>1
  <2>2. CASE g[i] # 0
    <3>1. PICK n, k : n = c[8] /\ k = c[i]
      OBVIOUS
    <3>2. n \in Nat /\ k \in 1 .. n /\ s[1 + k] = g[i]
      BY <1>4, <2>2, <3>1
    <3>3. 1 + k \in 1 .. 1 + n /\ pos + 1 + k = pos + (1 + k)
      BY <3>2
    <3>4. _storage[pos + (1 + k)] = s[1 + k]
      BY <1>5, <3>1, <3>3
    <3>5. _storage[pos + 1 + c[i]] = g[i]
      BY <3>1, <3>2, <3>3, <3>4
    <3> QED
      BY <1>7, <1>9, <2>2, <3>5
  <2> QED
    BY <2>1, <2>2
<1>11. value = g
  BY <1>10
<1>12. pos + 1 + Before(8) = pos + Len(s)
  <2>1. Before(8) = c[8]
    BY <1>9
  <2>2. PICK n \in Nat : n = c[8]
    BY <1>4
  <2>3. Len(s) = 1 + n /\ pos + 1 + n = pos + (1 + n)
    BY <1>4, <2>2
  <2> QED
    BY <2>1, <2>2, <2>3
<1> QED
  BY <1>2, <1>8, <1>11, <1>12

LEMMA ItemKinds ==
    ASSUME NEW item \in Item
    PROVE  \/ \E n \in Number : item = [type |-> "number", value |-> n]
           \/ \E s \in String : item = [type |-> "string", value |-> s]
           \/ \E v \in Vector : item = [type |-> "vector", value |-> v]
           \/ \E g \in Guid : item = [type |-> "guid", value |-> g]
BY DEF Item

(* A value is read back from where it was streamed to, and ends there.     *)
LEMMA ItemIsExtracted ==
    ASSUME NEW item \in Item, _storage \in Seq(Nat), NEW pos \in Nat,
           IsSlice(_storage, pos, Streamed(item))
    PROVE  Extracted(item, pos) = [value |-> item.value, next |-> pos + Len(Streamed(item))]
<1>1. CASE \E n \in Number : item = [type |-> "number", value |-> n]
  <2>1. PICK n \in Number : item = [type |-> "number", value |-> n]
    BY <1>1
  <2>2. PICK w \in {1, 2, 4, 8}, v \in Nat : n = <<w, v>> /\ Fits(v, w)
    BY BufferAssumption
  <2>3. item.type = "number" /\ item.value = <<w, v>>
    BY <2>1, <2>2
  <2>4. PICK t : t = Bytes(v, w)
    OBVIOUS
  <2>5. Streamed(item) = t
    BY <2>3, <2>4 DEF Streamed
  <2>6. ReadAs(t, w, v)
    BY <2>2, <2>4, NumberIsReadBack
  <2>7. Len(t) = w
    <3>1. w \in Nat /\ t \in [1 .. w -> Char]
      BY <2>6 DEF ReadAs
    <3> QED
      BY <3>1, FunctionIsSequence
  <2>8. NumberAt(_storage, pos, w) = v
    <3>1. \A k \in 1 .. w : _storage[pos + k] = t[k]
      BY <2>5, <2>7 DEF IsSlice
    <3> QED
      BY <2>6, <3>1 DEF ReadAs
  <2>9. Extracted(item, pos) = [value |-> <<w, NumberAt(_storage, pos, w)>>, next |-> pos + w]
    BY <2>3 DEF Extracted
  <2> QED
    BY <2>3, <2>5, <2>7, <2>8, <2>9
<1>2. CASE \E s \in String : item = [type |-> "string", value |-> s]
  <2>1. PICK s \in String : item = [type |-> "string", value |-> s]
    BY <1>2
  <2>2. s \in Seq(1 .. 255) /\ item.type = "string" /\ item.value = s
    BY <2>1, BufferAssumption
  <2>3. Streamed(item) = s \o <<0>>
    BY <2>2 DEF Streamed
  <2>4. /\ StringEnd(pos) = pos + Len(s)
        /\ SubSeq(_storage, pos + 1, StringEnd(pos)) = s
        /\ Len(s \o <<0>>) = Len(s) + 1
    BY <2>2, <2>3, StringIsExtracted
  <2>5. Extracted(item, pos) = [value |-> SubSeq(_storage, pos + 1, StringEnd(pos)),
                                next |-> StringEnd(pos) + 1]
    BY <2>2 DEF Extracted
  <2>6. PICK n \in Nat : n = Len(s)
    BY <2>2, LenProperties
  <2>7. (pos + n) + 1 = pos + (n + 1)
    OBVIOUS
  <2> QED
    BY <2>2, <2>3, <2>4, <2>5, <2>6, <2>7
<1>3. CASE \E v \in Vector : item = [type |-> "vector", value |-> v]
  <2>1. PICK v \in Vector : item = [type |-> "vector", value |-> v]
    BY <1>3
  <2>2. v \in Seq(Char) /\ Fits(Len(v), 4) /\ item.type = "vector" /\ item.value = v
    BY <2>1, BufferAssumption DEF Char
  <2>3. Streamed(item) = Bytes(Len(v), 4) \o v
    BY <2>2 DEF Streamed
  <2>4. /\ NumberAt(_storage, pos, 4) = Len(v)
        /\ SubSeq(_storage, pos + 5, pos + 4 + Len(v)) = v
        /\ Len(Bytes(Len(v), 4) \o v) = 4 + Len(v)
    BY <2>2, <2>3, VectorIsExtracted
  <2>5. PICK n \in Nat : n = NumberAt(_storage, pos, 4) /\ n = Len(v)
    BY <2>2, <2>4, LenProperties
  <2>6. Extracted(item, pos) = [value |-> SubSeq(_storage, pos + 5, pos + 4 + n),
                                next |-> pos + 4 + n]
    BY <2>2, <2>5 DEF Extracted
  <2>7. pos + 4 + n = pos + (4 + n)
    OBVIOUS
  <2> QED
    BY <2>2, <2>3, <2>4, <2>5, <2>6, <2>7
<1>4. CASE \E g \in Guid : item = [type |-> "guid", value |-> g]
  <2>1. PICK g \in Guid : item = [type |-> "guid", value |-> g]
    BY <1>4
  <2>2. g \in [1 .. 8 -> Char] /\ item.type = "guid" /\ item.value = g
    BY <2>1, BufferAssumption DEF Char
  <2>3. Streamed(item) = appendPackGUID(g)
    BY <2>2 DEF Streamed
  <2>4. UnpackedGUID(pos) = [value |-> g, next |-> pos + Len(appendPackGUID(g))]
    BY <2>2, <2>3, GuidIsExtracted
  <2>5. Extracted(item, pos) = UnpackedGUID(pos)
    BY <2>2 DEF Extracted
  <2> QED
    BY <2>2, <2>3, <2>4, <2>5
<1> QED
  BY <1>1, <1>2, <1>3, <1>4, ItemKinds

LEMMA ItemIsStreamed ==
    ASSUME NEW item \in Item
    PROVE  Streamed(item) \in Seq(Nat) /\ Len(Streamed(item)) \in Nat \ {0}
<1>1. CASE \E n \in Number : item = [type |-> "number", value |-> n]
  <2>1. PICK n \in Number : item = [type |-> "number", value |-> n]
    BY <1>1
  <2>2. PICK w \in {1, 2, 4, 8}, v \in Nat : n = <<w, v>> /\ Fits(v, w)
    BY BufferAssumption
  <2>3. Streamed(item) = Bytes(v, w)
    <3>1. item.type = "number" /\ item.value[1] = w /\ item.value[2] = v
      BY <2>1, <2>2
    <3> QED
      BY <3>1 DEF Streamed
  <2>4. PICK t : t = Bytes(v, w)
    OBVIOUS
  <2>5. ReadAs(t, w, v)
    BY <2>2, <2>4, NumberIsReadBack
  <2>6. w \in Nat /\ w # 0 /\ t \in [1 .. w -> Char]
    BY <2>5 DEF ReadAs
  <2>7. t \in Seq(Char) /\ Len(t) = w
    BY <2>6, FunctionIsSequence
  <2>8. t \in Seq(Nat)
    BY <2>7, SequenceOfBytes
  <2> QED
    BY <2>3, <2>4, <2>6, <2>7, <2>8
<1>2. CASE \E s \in String : item = [type |-> "string", value |-> s]
  <2>1. PICK s \in String : item = [type |-> "string", value |-> s]
    BY <1>2
  <2>2. s \in Seq(Nat) /\ Streamed(item) = s \o <<0>>
    <3>1. s \in Seq(1 .. 255)
      BY BufferAssumption
    <3>2. s \in Seq(Nat)
      <4>1. 1 .. 255 \subseteq Nat
        OBVIOUS
      <4> QED
        BY <3>1, <4>1, SequenceOfMore
    <3> QED
      BY <2>1, <3>2 DEF Streamed
  <2>3. Len(s) \in Nat /\ <<0>> \in Seq(Nat) /\ Len(<<0>>) = 1
    BY <2>2, LenProperties
  <2> QED
    BY <2>2, <2>3, ConcatProperties
<1>3. CASE \E v \in Vector : item = [type |-> "vector", value |-> v]
  <2>1. PICK v \in Vector : item = [type |-> "vector", value |-> v]
    BY <1>3
  <2>2. v \in Seq(Nat) /\ Fits(Len(v), 4) /\ Streamed(item) = Bytes(Len(v), 4) \o v
    <3>1. v \in Seq(0 .. 255) /\ Fits(Len(v), 4)
      BY BufferAssumption
    <3>2. v \in Seq(Nat)
      BY <3>1, SequenceOfBytes DEF Char
    <3> QED
      BY <2>1, <3>1, <3>2 DEF Streamed
  <2>3. PICK length : length = Bytes(Len(v), 4)
    OBVIOUS
  <2>4. length \in Seq(Nat) /\ Len(length) = 4
    <3>1. Len(v) \in Nat /\ 4 \in {1, 2, 4, 8} /\ 4 \in Nat
      BY <2>2, LenProperties
    <3>2. ReadAs(length, 4, Len(v))
      BY <2>2, <2>3, <3>1, NumberIsReadBack
    <3>3. PICK m \in Nat : m = 4
      OBVIOUS
    <3>4. length \in [1 .. m -> Char]
      BY <3>2, <3>3 DEF ReadAs
    <3>5. length \in Seq(Char) /\ Len(length) = m
      BY <3>4, FunctionIsSequence
    <3> QED
      BY <3>3, <3>5, SequenceOfBytes
  <2>5. PICK t, n : t = length \o v /\ n = Len(v) /\ n \in Nat
    BY <2>2, LenProperties
  <2>6. t \in Seq(Nat) /\ Len(t) = 4 + n
    <3>1. t \in Seq(Nat) /\ Len(t) = Len(length) + Len(v)
      BY <2>2, <2>4, <2>5, ConcatProperties
    <3> QED
      BY <2>4, <2>5, <3>1
  <2>7. 4 + n \in Nat \ {0}
    BY <2>5
  <2> QED
    BY <2>2, <2>3, <2>5, <2>6, <2>7
<1>4. CASE \E g \in Guid : item = [type |-> "guid", value |-> g]
  <2>1. PICK g \in Guid : item = [type |-> "guid", value |-> g]
    BY <1>4
  <2>2. g \in [1 .. 8 -> Char] /\ Streamed(item) = appendPackGUID(g)
    BY <2>1, BufferAssumption DEF Char, Streamed
  <2>3. PICK c \in [0 .. 8 -> Nat] :
            /\ c[0] = 0
            /\ \A i \in 1 .. 8 : c[i] = IF g[i] = 0 THEN c[i - 1] ELSE c[i - 1] + 1
    BY NonZeros
  <2>4. PICK mask \in Char : Packed(g, c, appendPackGUID(g), mask, 8)
    BY <2>2, <2>3, GuidIsPacked
  <2>5. PICK n \in Nat : n = c[8]
    OBVIOUS
  <2>6. Streamed(item) \in Seq(Nat) /\ Len(Streamed(item)) = 1 + n
    BY <2>2, <2>4, <2>5 DEF Packed
  <2> QED
    BY <2>6
<1> QED
  BY <1>1, <1>2, <1>3, <1>4, ItemKinds

(* What is overwritten is there afterwards, and what is not stays.         *)
IsOverwritten(after, before, pos, t) ==
    /\ after \in Seq(Nat)
    /\ Len(after) = IF Len(before) < pos + Len(t) THEN pos + Len(t) ELSE Len(before)
    /\ IsSlice(after, pos, t)
    /\ \A k \in 1 .. Len(before) : k <= pos \/ k > pos + Len(t) => after[k] = before[k]

LEMMA OverwrittenSlice ==
    ASSUME NEW before \in Seq(Nat), NEW pos \in Nat, NEW t \in Seq(Nat)
    PROVE  IsOverwritten(Overwritten(before, pos, t), before, pos, t)
<1>1. PICK n \in Nat, l \in Nat : n = Len(t) /\ l = Len(before)
  BY LenProperties
<1>2. PICK size \in Nat : size = IF l < pos + n THEN pos + n ELSE l
  OBVIOUS
<1>3. pos + n <= size /\ l <= size
  BY <1>2
<1>4. PICK after : after = [i \in 1 .. size |->
                               IF i \in pos + 1 .. pos + n THEN t[i - pos]
                               ELSE IF i <= l THEN before[i] ELSE 0]
  OBVIOUS
<1>5. Overwritten(before, pos, t) = after
  BY <1>1, <1>2, <1>4 DEF Overwritten
<1>6. (\A k \in 1 .. n : t[k] \in Nat) /\ (\A k \in 1 .. l : before[k] \in Nat)
  BY <1>1, LenProperties
<1>7. ASSUME NEW i \in 1 .. size
      PROVE  after[i] \in Nat
  <2>1. CASE i \in pos + 1 .. pos + n
    <3>1. i - pos \in 1 .. n
      BY <2>1
    <3> QED
      BY <1>4, <1>6, <2>1, <3>1
  <2>2. CASE i \notin pos + 1 .. pos + n /\ i <= l
    <3>1. i \in 1 .. l
      BY <2>2
    <3> QED
      BY <1>4, <1>6, <2>2, <3>1
  <2>3. CASE i \notin pos + 1 .. pos + n /\ ~(i <= l)
    BY <1>4, <2>3
  <2> QED
    BY <2>1, <2>2, <2>3
<1>8. after \in [1 .. size -> Nat]
  BY <1>4, <1>7
<1>9. after \in Seq(Nat) /\ Len(after) = size
  BY <1>8, FunctionIsSequence
<1>10. ASSUME NEW k \in 1 .. n
       PROVE  after[pos + k] = t[k]
  <2>1. pos + k \in 1 .. size /\ pos + k \in pos + 1 .. pos + n /\ (pos + k) - pos = k
    BY <1>3
  <2> QED
    BY <1>4, <2>1
<1>11. ASSUME NEW k \in 1 .. l, k <= pos \/ k > pos + n
       PROVE  after[k] = before[k]
  <2>1. k \in 1 .. size /\ k \notin pos + 1 .. pos + n /\ k <= l
    BY <1>3, <1>11
  <2> QED
    BY <1>4, <2>1
<1>12. IsSlice(after, pos, t)
  BY <1>1, <1>3, <1>9, <1>10 DEF IsSlice
<1>13. Len(after) = IF Len(before) < pos + Len(t) THEN pos + Len(t) ELSE Len(before)
  BY <1>1, <1>2, <1>9
<1> QED
  BY <1>1, <1>5, <1>9, <1>11, <1>12, <1>13 DEF IsOverwritten

LEMMA SliceIsKept ==
    ASSUME NEW before \in Seq(Nat), NEW after, NEW pos \in Nat, NEW t \in Seq(Nat),
           IsOverwritten(after, before, pos, t),
           NEW S, NEW u \in Seq(S), NEW p \in Nat, IsSlice(before, p, u),
           p + Len(u) <= pos \/ pos + Len(t) <= p
    PROVE  IsSlice(after, p, u)
<1>1. PICK n, l, m : /\ n = Len(t) /\ l = Len(before) /\ m = Len(u)
                     /\ n \in Nat /\ l \in Nat /\ m \in Nat
  BY LenProperties
<1>2. /\ Len(after) = IF l < pos + n THEN pos + n ELSE l
      /\ \A k \in 1 .. l : k <= pos \/ k > pos + n => after[k] = before[k]
  BY <1>1 DEF IsOverwritten
<1>3. p + m <= l /\ \A k \in 1 .. m : before[p + k] = u[k]
  BY <1>1 DEF IsSlice
<1>4. p + m <= pos \/ pos + n <= p
  BY <1>1
<1>5. ASSUME NEW k \in 1 .. m
      PROVE  after[p + k] = u[k]
  <2>1. p + k \in 1 .. l /\ (p + k <= pos \/ p + k > pos + n)
    BY <1>1, <1>3, <1>4
  <2> QED
    BY <1>2, <1>3, <2>1
<1>6. p + m <= Len(after)
  BY <1>1, <1>2, <1>3
<1> QED
  BY <1>1, <1>5, <1>6 DEF IsSlice

-----------------------------------------------------------------------------
(* Packets.                                                                *)

(* Where each value of a packet begins, and where the last one ends.       *)
Placed(at, items, storage) ==
    /\ at \in [0 .. Len(items) -> Nat \ 0 .. 3]
    /\ at[0] = 4
    /\ \A i \in 1 .. Len(items) : /\ at[i] = at[i - 1] + Len(Streamed(items[i]))
                                  /\ IsSlice(storage, at[i - 1], Streamed(items[i]))

(* What a header is given lies before the first value.                     *)
HeaderPlaced(head, storage) ==
    /\ head \in [opcode : Nat \union {NotSet}, size : Nat \union {NotSet}]
    /\ head.opcode # NotSet =>
           Fits(head.opcode, 2) /\ IsSlice(storage, 2, Bytes(head.opcode, 2))
    /\ head.size # NotSet =>
           Fits(head.size, 2) /\ IsSlice(storage, 0, Reverse(Bytes(head.size, 2)))

BufferInv ==
    /\ _storage \in Seq(Nat)
    /\ written \in Seq(Item)
    /\ HeaderPlaced(header, _storage)
    /\ Len(_storage) <= _wpos
    /\ written # <<>> => Len(_storage) = _wpos
    /\ \E at : /\ Placed(at, written, _storage)
               /\ _wpos = at[Len(written)]
               /\ being_read => _rpos = at[Len(reads)]
    /\ Len(reads) \in 0 .. Len(written)
    /\ reads = SubSeq(written, 1, Len(reads))
    /\ IF being_read THEN header.opcode # NotSet /\ header.size # NotSet ELSE reads = <<>>

LEMMA TwoBytes ==
    ASSUME NEW n, Fits(n, 2)
    PROVE  /\ Bytes(n, 2) \in Seq(Nat) /\ Len(Bytes(n, 2)) = 2
           /\ Reverse(Bytes(n, 2)) \in Seq(Nat) /\ Len(Reverse(Bytes(n, 2))) = 2
           /\ Reverse(Bytes(n, 2))[1] = Bytes(n, 2)[2]
           /\ Reverse(Bytes(n, 2))[2] = Bytes(n, 2)[1]
           /\ ReadAs(Bytes(n, 2), 2, n)
<1>1. PICK t : t = Bytes(n, 2)
  OBVIOUS
<1>2. ReadAs(t, 2, n)
  <2>1. 2 \in {1, 2, 4, 8}
    OBVIOUS
  <2> QED
    BY <1>1, <2>1, NumberIsReadBack
<1>3. t \in [1 .. 2 -> Char] /\ 2 \in Nat
  BY <1>2 DEF ReadAs
<1>4. t \in Seq(Char) /\ Len(t) = 2
  BY <1>3, FunctionIsSequence
<1>5. t \in Seq(Nat)
  BY <1>4, SequenceOfBytes
<1>6. PICK r : r = Reverse(t)
  OBVIOUS
<1>7. r = [i \in 1 .. 2 |-> t[(2 - i) + 1]]
  BY <1>4, <1>6 DEF Reverse
<1>8. r[1] = t[2] /\ r[2] = t[1]
  BY <1>7
<1>9. t[1] \in Nat /\ t[2] \in Nat
  BY <1>3 DEF Char
<1>10. r \in [1 .. 2 -> Nat]
  BY <1>7, <1>9
<1>11. r \in Seq(Nat) /\ Len(r) = 2
  BY <1>3, <1>10, FunctionIsSequence
<1> QED
  BY <1>1, <1>2, <1>4, <1>5, <1>6, <1>8, <1>11

(* Values and header keep their places when the header is set.             *)
LEMMA ValuesAreKept ==
    ASSUME NEW items \in Seq(Item), NEW before \in Seq(Nat), NEW after,
           NEW pos \in Nat, NEW t \in Seq(Nat), IsOverwritten(after, before, pos, t),
           pos + Len(t) <= 4, NEW at, Placed(at, items, before)
    PROVE  Placed(at, items, after)
<1>1. PICK n \in Nat, l \in Nat : n = Len(items) /\ l = Len(t)
  BY LenProperties
<1>2. ASSUME NEW i \in 1 .. n
      PROVE  IsSlice(after, at[i - 1], Streamed(items[i]))
  <2>1. items[i] \in Item /\ i - 1 \in 0 .. n
    BY <1>1, LenProperties
  <2>2. at[i - 1] \in Nat \ 0 .. 3 /\ IsSlice(before, at[i - 1], Streamed(items[i]))
    BY <1>1, <2>1 DEF Placed
  <2>3. PICK p, u : p = at[i - 1] /\ u = Streamed(items[i])
    OBVIOUS
  <2>4. p \in Nat /\ p >= 4
    <3>1. p \in Nat \ 0 .. 3
      BY <2>2, <2>3
    <3> QED
      BY <3>1
  <2>5. u \in Seq(Nat)
    BY <2>1, <2>3, ItemIsStreamed
  <2>6. pos + Len(t) <= p
    BY <1>1, <2>4
  <2>7. IsSlice(after, p, u)
    BY <2>2, <2>3, <2>4, <2>5, <2>6, SliceIsKept
  <2> QED
    BY <2>3, <2>7
<1> QED
  BY <1>1, <1>2 DEF Placed

(* A value is placed behind the others.                                    *)
PlacedUpTo(items, storage, end) ==
    \E at : Placed(at, items, storage) /\ end = at[Len(items)]

LEMMA ValueIsPlaced ==
    ASSUME NEW items \in Seq(Item), NEW item \in Item, NEW before \in Seq(Nat), NEW after,
           NEW at, Placed(at, items, before), NEW pos, pos = at[Len(items)],
           Len(before) <= pos, IsOverwritten(after, before, pos, Streamed(item))
    PROVE  PlacedUpTo(Append(items, item), after, pos + Len(Streamed(item)))
<1>0. PICK n \in Nat : n = Len(items)
  BY LenProperties
<1>1. PICK more : n = Len(items) /\ more = Append(items, item)
  BY <1>0
<1>2. /\ more \in Seq(Item) /\ Len(more) = n + 1
      /\ \A i \in 1 .. n : more[i] = items[i]
      /\ more[n + 1] = item
  BY <1>1, AppendProperties
<1>3. PICK t, l : t = Streamed(item) /\ t \in Seq(Nat) /\ l = Len(t) /\ l \in Nat
  BY ItemIsStreamed, LenProperties
<1>4. /\ at \in [0 .. n -> Nat \ 0 .. 3] /\ at[0] = 4
      /\ \A i \in 1 .. n : /\ at[i] = at[i - 1] + Len(Streamed(items[i]))
                           /\ IsSlice(before, at[i - 1], Streamed(items[i]))
  BY <1>1 DEF Placed
<1>5. pos = at[n] /\ pos \in Nat /\ pos >= 4
  <2>1. n \in 0 .. n
    OBVIOUS
  <2>2. pos = at[n] /\ pos \in Nat \ 0 .. 3
    BY <1>1, <1>4, <2>1
  <2> QED
    BY <2>2
<1>6. PICK last : last = pos + l
  OBVIOUS
<1>7. last \in Nat \ 0 .. 3
  BY <1>3, <1>5, <1>6
<1>8. PICK all : all = [i \in 0 .. n + 1 |-> IF i <= n THEN at[i] ELSE last]
  OBVIOUS
<1>9. /\ \A i \in 0 .. n : all[i] = at[i]
      /\ all[n + 1] = last
  BY <1>8
<1>10. all \in [0 .. n + 1 -> Nat \ 0 .. 3]
  <2>1. \A i \in 0 .. n + 1 : i \in 0 .. n \/ i = n + 1
    OBVIOUS
  <2>2. \A i \in 0 .. n + 1 : all[i] \in Nat \ 0 .. 3
    BY <1>4, <1>7, <1>9, <2>1
  <2> QED
    BY <1>8, <2>2
<1>11. all[0] = 4
  BY <1>4, <1>9
<1>12. ASSUME NEW i \in 1 .. n + 1
       PROVE  /\ all[i] = all[i - 1] + Len(Streamed(more[i]))
              /\ IsSlice(after, all[i - 1], Streamed(more[i]))
  <2>1. CASE i \in 1 .. n
    <3>1. i \in 0 .. n /\ i - 1 \in 0 .. n
      BY <2>1
    <3>2. all[i] = at[i] /\ all[i - 1] = at[i - 1] /\ more[i] = items[i] /\ items[i] \in Item
      BY <1>1, <1>2, <1>9, <2>1, <3>1, LenProperties
    <3>3. PICK p, u : p = at[i - 1] /\ u = Streamed(items[i])
      OBVIOUS
    <3>4. p \in Nat /\ u \in Seq(Nat) /\ IsSlice(before, p, u)
      <4>1. p \in Nat \ 0 .. 3
        BY <1>4, <3>1, <3>3
      <4> QED
        BY <1>4, <2>1, <3>2, <3>3, <4>1, ItemIsStreamed
    <3>5. p + Len(u) <= pos
      <4>1. PICK a, b : a = Len(u) /\ b = Len(before) /\ a \in Nat /\ b \in Nat
        BY <3>4, LenProperties
      <4>2. p + a <= b /\ b <= pos
        BY <3>4, <4>1 DEF IsSlice
      <4> QED
        BY <1>5, <3>4, <4>1, <4>2
    <3>6. IsSlice(after, p, u)
      BY <1>3, <1>5, <3>4, <3>5, SliceIsKept
    <3> QED
      BY <1>4, <2>1, <3>2, <3>3, <3>6
  <2>2. CASE i = n + 1
    <3>1. i - 1 = n /\ n \in 0 .. n
      BY <2>2
    <3>2. all[i - 1] = pos /\ more[i] = item /\ all[i] = last
      BY <1>2, <1>5, <1>9, <2>2, <3>1
    <3>3. IsSlice(after, pos, t)
      BY <1>3 DEF IsOverwritten
    <3> QED
      BY <1>3, <1>6, <3>2, <3>3
  <2> QED
    BY <2>1, <2>2
<1>13. Placed(all, more, after)
  BY <1>2, <1>10, <1>11, <1>12 DEF Placed
<1>14. PlacedUpTo(more, after, last)
  BY <1>2, <1>9, <1>13 DEF PlacedUpTo
<1> QED
  BY <1>1, <1>3, <1>6, <1>14

-----------------------------------------------------------------------------
LEMMA BufferInvStream ==
    ASSUME BufferInv, NEW item \in Item, stream_item(item)
    PROVE  BufferInv'
<1> USE DEF stream_item
<1>1. PICK at : /\ Placed(at, written, _storage)
                /\ _wpos = at[Len(written)]
                /\ being_read => _rpos = at[Len(reads)]
  BY DEF BufferInv
<1>2. PICK n, l, t : /\ n = Len(written) /\ l = Len(_storage) /\ t = Streamed(item)
                     /\ n \in Nat /\ l \in Nat /\ t \in Seq(Nat) /\ Len(t) \in Nat \ {0}
  BY LenProperties, ItemIsStreamed DEF BufferInv
<1>3. _wpos \in Nat /\ _wpos >= 4 /\ l <= _wpos
  <2>1. n \in 0 .. n
    BY <1>2
  <2>2. _wpos \in Nat \ 0 .. 3
    BY <1>1, <1>2, <2>1 DEF Placed
  <2>3. l <= _wpos
    BY <1>2 DEF BufferInv
  <2> QED
    BY <2>2, <2>3
<1>4. IsOverwritten(_storage', _storage, _wpos, t)
  BY <1>2, <1>3, OverwrittenSlice DEF BufferInv
<1>5. PlacedUpTo(written', _storage', _wpos')
  <2>1. written \in Seq(Item) /\ _storage \in Seq(Nat) /\ Len(_storage) <= _wpos
    BY DEF BufferInv
  <2>2. IsOverwritten(_storage', _storage, _wpos, Streamed(item))
    BY <1>2, <1>4
  <2> QED
    BY <1>1, <2>1, <2>2, ValueIsPlaced
<1>6. written' \in Seq(Item) /\ Len(written') = Len(written) + 1 /\ written' # <<>>
  BY AppendProperties DEF BufferInv
<1>7. _storage' \in Seq(Nat) /\ Len(_storage') = _wpos'
  <2>1. Len(_storage') = IF l < _wpos + Len(t) THEN _wpos + Len(t) ELSE l
    BY <1>2, <1>4 DEF IsOverwritten
  <2>2. l < _wpos + Len(t)
    BY <1>2, <1>3
  <2> QED
    BY <1>2, <1>4, <2>1, <2>2 DEF IsOverwritten
<1>8. HeaderPlaced(header', _storage')
  <2>1. HeaderPlaced(header, _storage) /\ header' = header /\ _storage \in Seq(Nat)
    BY DEF BufferInv
  <2>2. ASSUME NEW u \in Seq(Nat), Len(u) = 2, NEW p \in Nat, p <= 2, IsSlice(_storage, p, u)
        PROVE  IsSlice(_storage', p, u)
    <3>1. p + Len(u) <= _wpos
      BY <1>3, <2>2
    <3> QED
      BY <1>2, <1>3, <1>4, <2>1, <2>2, <3>1, SliceIsKept
  <2> QED
    BY <2>1, <2>2, TwoBytes DEF HeaderPlaced
<1>9. reads = <<>> /\ reads' = reads /\ ~being_read'
  BY DEF BufferInv
<1>10. Len(reads') \in 0 .. Len(written') /\ reads' = SubSeq(written', 1, Len(reads'))
  <2>1. Len(<<>>) = 0 /\ Len(written') \in Nat
    BY <1>6, LenProperties
  <2>2. SubSeq(written', 1, 0) = <<>>
    BY SubSeqEmpty
  <2> QED
    BY <1>9, <2>1, <2>2
<1>11. _wpos' >= Len(_storage')
  BY <1>2, <1>3, <1>7
<1> QED
  BY <1>5, <1>6, <1>7, <1>8, <1>9, <1>10, <1>11 DEF BufferInv, PlacedUpTo

(* What is written into the header disturbs no value, and no length but    *)
(* one that was shorter than the header.                                   *)
SetsHeader(pos, t) ==
    /\ pos \in {0, 2} /\ t \in Seq(Nat) /\ Len(t) = 2
    /\ IsOverwritten(_storage', _storage, pos, t)
    /\ HeaderPlaced(header', _storage')
    /\ UNCHANGED <<_wpos, _rpos, written, reads, being_read>>
    /\ ~being_read

LEMMA HeaderIsSet ==
    ASSUME BufferInv, NEW pos, NEW t, SetsHeader(pos, t)
    PROVE  BufferInv'
<1> USE DEF SetsHeader
<1>1. PICK at : /\ Placed(at, written, _storage)
                /\ _wpos = at[Len(written)]
                /\ being_read => _rpos = at[Len(reads)]
  BY DEF BufferInv
<1>2. PICK n, l : n = Len(written) /\ l = Len(_storage) /\ n \in Nat /\ l \in Nat
  BY LenProperties DEF BufferInv
<1>3. _wpos \in Nat /\ _wpos >= 4
  <2>1. n \in 0 .. n
    BY <1>2
  <2>2. _wpos \in Nat \ 0 .. 3
    BY <1>1, <1>2, <2>1 DEF Placed
  <2> QED
    BY <2>2
<1>4. Placed(at, written, _storage')
  <2>1. pos \in Nat /\ pos + Len(t) <= 4
    OBVIOUS
  <2>2. written \in Seq(Item) /\ _storage \in Seq(Nat)
    BY DEF BufferInv
  <2> QED
    BY <1>1, <2>1, <2>2, ValuesAreKept
<1>5. _storage' \in Seq(Nat) /\ Len(_storage') = IF l < pos + 2 THEN pos + 2 ELSE l
  BY <1>2 DEF IsOverwritten
<1>6. Len(_storage') <= _wpos /\ (written # <<>> => Len(_storage') = _wpos)
  <2>1. l <= _wpos /\ (written # <<>> => l = _wpos)
    BY <1>2 DEF BufferInv
  <2>2. pos + 2 <= 4
    OBVIOUS
  <2> QED
    BY <1>2, <1>3, <1>5, <2>1, <2>2
<1> QED
  BY <1>1, <1>4, <1>5, <1>6 DEF BufferInv

LEMMA BufferInvOpcode ==
    ASSUME BufferInv, NEW op \in Opcodes, SetOpcode(op)
    PROVE  BufferInv'
<1> USE DEF SetOpcode
<1>1. PICK t : t = Bytes(op, 2)
  OBVIOUS
<1>2. Fits(op, 2) /\ op \in Nat
  BY BufferAssumption DEF Fits
<1>3. t \in Seq(Nat) /\ Len(t) = 2
  BY <1>1, <1>2, TwoBytes
<1>4. _storage \in Seq(Nat) /\ HeaderPlaced(header, _storage)
  BY DEF BufferInv
<1>5. IsOverwritten(_storage', _storage, 2, t)
  BY <1>1, <1>3, <1>4, OverwrittenSlice
<1>6. IsSlice(_storage', 2, t)
  BY <1>5 DEF IsOverwritten
<1>7. header.size # NotSet => IsSlice(_storage', 0, Reverse(Bytes(header.size, 2)))
  <2>1. SUFFICES ASSUME header.size # NotSet
                 PROVE  IsSlice(_storage', 0, Reverse(Bytes(header.size, 2)))
    OBVIOUS
  <2>2. PICK u : u = Reverse(Bytes(header.size, 2))
    OBVIOUS
  <2>3. u \in Seq(Nat) /\ Len(u) = 2 /\ IsSlice(_storage, 0, u)
    BY <1>4, <2>1, <2>2, TwoBytes DEF HeaderPlaced
  <2>4. PICK p, pos \in Nat : p = 0 /\ pos = 2
    OBVIOUS
  <2>5. p + Len(u) <= pos /\ IsSlice(_storage, p, u) /\ IsOverwritten(_storage', _storage, pos, t)
    BY <1>5, <2>3, <2>4
  <2>6. IsSlice(_storage', p, u)
    BY <1>3, <1>4, <2>3, <2>5, SliceIsKept
  <2> QED
    BY <2>2, <2>4, <2>6
<1>8. HeaderPlaced(header', _storage')
  <2>1. header \in [opcode : Nat \union {NotSet}, size : Nat \union {NotSet}]
    BY <1>4 DEF HeaderPlaced
  <2>2. /\ header' \in [opcode : Nat \union {NotSet}, size : Nat \union {NotSet}]
        /\ header'.opcode = op /\ header'.size = header.size
    BY <1>2, <2>1
  <2>3. header.size # NotSet => Fits(header.size, 2)
    BY <1>4 DEF HeaderPlaced
  <2> QED
    BY <1>1, <1>2, <1>6, <1>7, <2>2, <2>3 DEF HeaderPlaced
<1>9. SetsHeader(2, t)
  BY <1>3, <1>5, <1>8 DEF SetsHeader
<1> QED
  BY <1>9, HeaderIsSet

LEMMA BufferInvSize ==
    ASSUME BufferInv, NEW size \in Sizes, SetSize(size)
    PROVE  BufferInv'
<1>1. PICK n, t : /\ n = (size + 2) % 65536 /\ t = Reverse(Bytes(n, 2))
                  /\ _storage' = Overwritten(_storage, 0, t)
                  /\ header' = [header EXCEPT !.size = n]
                  /\ UNCHANGED <<_wpos, _rpos, written, reads, being_read>>
                  /\ ~being_read
  BY SMT DEF SetSize
<1>2. Fits(n, 2)
  <2>1. size \in Nat
    BY BufferAssumption DEF Fits
  <2>2. n \in Nat /\ n < 65536
    BY <1>1, <2>1, SMT
  <2>3. (n \div 256) \div 256 = 0
    BY <2>2, SMT
  <2>4. PICK q : q = Shifted(n)
    OBVIOUS
  <2>5. q[0] = n /\ \A i \in 1 .. 8 : q[i] = q[i - 1] \div 256
    BY <2>2, <2>4, Shifts
  <2>6. q[1] = n \div 256 /\ q[2] = q[1] \div 256
    BY <2>5
  <2> QED
    BY <2>2, <2>3, <2>4, <2>6 DEF Fits
<1>3. t \in Seq(Nat) /\ Len(t) = 2
  BY <1>1, <1>2, TwoBytes
<1>4. _storage \in Seq(Nat) /\ HeaderPlaced(header, _storage)
  BY DEF BufferInv
<1>5. IsOverwritten(_storage', _storage, 0, t)
  <2>1. PICK pos \in Nat : pos = 0
    OBVIOUS
  <2>2. IsOverwritten(Overwritten(_storage, pos, t), _storage, pos, t)
    BY <1>3, <1>4, OverwrittenSlice
  <2> QED
    BY <1>1, <2>1, <2>2
<1>6. IsSlice(_storage', 0, t)
  BY <1>5 DEF IsOverwritten
<1>7. header.opcode # NotSet => IsSlice(_storage', 2, Bytes(header.opcode, 2))
  <2>1. SUFFICES ASSUME header.opcode # NotSet
                 PROVE  IsSlice(_storage', 2, Bytes(header.opcode, 2))
    OBVIOUS
  <2>2. PICK u : u = Bytes(header.opcode, 2)
    OBVIOUS
  <2>3. u \in Seq(Nat) /\ Len(u) = 2 /\ IsSlice(_storage, 2, u)
    BY <1>4, <2>1, <2>2, TwoBytes DEF HeaderPlaced
  <2>4. PICK p, pos \in Nat : p = 2 /\ pos = 0
    OBVIOUS
  <2>5. pos + Len(t) <= p /\ IsSlice(_storage, p, u) /\ IsOverwritten(_storage', _storage, pos, t)
    BY <1>3, <1>5, <2>3, <2>4
  <2>6. IsSlice(_storage', p, u)
    BY <1>3, <1>4, <2>3, <2>5, SliceIsKept
  <2> QED
    BY <2>2, <2>4, <2>6
<1>8. HeaderPlaced(header', _storage')
  <2>1. header \in [opcode : Nat \union {NotSet}, size : Nat \union {NotSet}]
    BY <1>4 DEF HeaderPlaced
  <2>2. header' = [header EXCEPT !.size = n]
    BY <1>1
  <2>3. /\ header' \in [opcode : Nat \union {NotSet}, size : Nat \union {NotSet}]
        /\ header'.size = n /\ header'.opcode = header.opcode
    BY <1>2, <2>1, <2>2 DEF Fits
  <2>4. header.opcode # NotSet => Fits(header.opcode, 2)
    BY <1>4 DEF HeaderPlaced
  <2> QED
    BY <1>1, <1>2, <1>6, <1>7, <2>3, <2>4 DEF HeaderPlaced
<1>9. SetsHeader(0, t)
  BY <1>1, <1>3, <1>5, <1>8 DEF SetsHeader
<1> QED
  BY <1>9, HeaderIsSet

LEMMA BufferInvSend == BufferInv /\ send_packet => BufferInv'
<1> SUFFICES ASSUME BufferInv, send_packet
             PROVE  BufferInv'
  OBVIOUS
<1> USE DEF send_packet
<1>1. PICK at : Placed(at, written, _storage) /\ _wpos = at[Len(written)]
  BY DEF BufferInv
<1>2. reads = <<>> /\ Len(<<>>) = 0
  BY DEF BufferInv
<1>3. _rpos' = at[Len(reads')]
  BY <1>1, <1>2 DEF Placed
<1> QED
  BY <1>1, <1>3 DEF BufferInv

LEMMA BufferInvExtract == BufferInv /\ extract => BufferInv'
<1> SUFFICES ASSUME BufferInv, extract
             PROVE  BufferInv'
  OBVIOUS
<1> USE DEF extract
<1>1. PICK at : /\ Placed(at, written, _storage)
                /\ _wpos = at[Len(written)]
                /\ _rpos = at[Len(reads)]
  BY DEF BufferInv
<1>2. PICK n, m : /\ n = Len(written) /\ m = Len(reads) /\ n \in Nat /\ m \in 0 .. n /\ m < n
                  /\ written \in Seq(Item) /\ reads = SubSeq(written, 1, m)
  BY LenProperties DEF BufferInv
<1>3. PICK item : item = written[m + 1]
  OBVIOUS
<1>4. m + 1 \in 1 .. n /\ (m + 1) - 1 = m /\ m \in 0 .. n /\ m \in Nat
  BY <1>2
<1>5. item \in Item
  BY <1>2, <1>3, <1>4, LenProperties
<1>6. PICK pos \in Nat : pos = _rpos /\ pos = at[m]
  BY <1>1, <1>2, <1>4 DEF Placed
<1>7. /\ IsSlice(_storage, pos, Streamed(item))
      /\ at[m + 1] = pos + Len(Streamed(item))
  BY <1>1, <1>2, <1>3, <1>4, <1>6 DEF Placed
<1>8. PICK got : got = Extracted(item, pos)
  OBVIOUS
<1>9. got = [value |-> item.value, next |-> pos + Len(Streamed(item))]
  BY <1>5, <1>7, <1>8, ItemIsExtracted DEF BufferInv
<1>10. reads' = Append(reads, [item EXCEPT !.value = got.value]) /\ _rpos' = got.next
  BY <1>2, <1>3, <1>6, <1>8, Zenon
<1>11. [item EXCEPT !.value = item.value] = item
  BY <1>5 DEF Item
<1>12. reads' = Append(reads, item) /\ _rpos' = at[m + 1]
  BY <1>7, <1>9, <1>10, <1>11
<1>13. reads \in Seq(Item)
  <2>1. \A k \in 1 .. m : k \in 1 .. n
    BY <1>2
  <2>2. \A k \in 1 .. m : written[k] \in Item
    BY <1>2, <2>1, LenProperties
  <2> QED
    BY <1>2, <2>2, SubSeqProperties
<1>14. Len(reads') = m + 1
  BY <1>2, <1>5, <1>12, <1>13, AppendProperties
<1>15. reads' = SubSeq(written, 1, m + 1)
  <2>1. 1 \in 1 .. Len(written) /\ m + 1 \in 1 .. Len(written)
    BY <1>2
  <2>2. SubSeq(written, 1, m + 1) = SubSeq(written, 1, (m + 1) - 1) \o <<written[m + 1]>>
    BY <1>2, <2>1, SubSeqRecursiveSecond
  <2>3. reads' = reads \o <<item>>
    BY <1>5, <1>12, <1>13, AppendIsConcat
  <2> QED
    BY <1>2, <1>3, <1>4, <2>2, <2>3
<1>16. m + 1 \in 0 .. n
  BY <1>2
<1> QED
  BY <1>1, <1>2, <1>12, <1>14, <1>15, <1>16 DEF BufferInv

LEMMA BufferInvInit == Init => BufferInv
<1> SUFFICES ASSUME BufferInit
             PROVE  BufferInv
  BY DEF Init
<1> USE DEF BufferInit
<1>1. PICK at : at = [i \in 0 .. 0 |-> 4]
  OBVIOUS
<1>2. Placed(at, written, _storage) /\ _wpos = at[Len(written)]
  BY <1>1 DEF Placed
<1>3. HeaderPlaced(header, _storage)
  BY DEF HeaderPlaced, NotSet
<1>4. Len(<<>>) = 0 /\ SubSeq(<<>>, 1, 0) = <<>>
  BY SubSeqEmpty
<1> QED
  BY <1>2, <1>3, <1>4 DEF BufferInv

LEMMA BufferInvStep == BufferInv /\ [Next]_vars => BufferInv'
<1> SUFFICES ASSUME BufferInv, [Next]_vars
             PROVE  BufferInv'
  OBVIOUS
<1>1. CASE BufferNext
  BY <1>1, BufferInvStream, BufferInvOpcode, BufferInvSize, BufferInvSend, BufferInvExtract
     DEF BufferNext
<1>2. CASE UNCHANGED bufferVars
  BY <1>2 DEF bufferVars, BufferInv
<1> QED
  BY <1>1, <1>2 DEF Next, vars

LEMMA HeaderIsRead ==
    BufferInv /\ being_read => Opcode = header.opcode /\ Size = header.size
<1> SUFFICES ASSUME BufferInv, being_read
             PROVE  Opcode = header.opcode /\ Size = header.size
  OBVIOUS
<1>1. /\ _storage \in Seq(Nat)
      /\ Fits(header.opcode, 2) /\ IsSlice(_storage, 2, Bytes(header.opcode, 2))
      /\ Fits(header.size, 2) /\ IsSlice(_storage, 0, Reverse(Bytes(header.size, 2)))
  BY DEF BufferInv, HeaderPlaced
<1>2. Opcode = header.opcode
  <2>1. PICK n, t : n = header.opcode /\ t = Bytes(n, 2)
    OBVIOUS
  <2>2. Len(t) = 2 /\ ReadAs(t, 2, n) /\ IsSlice(_storage, 2, t)
    BY <1>1, <2>1, TwoBytes
  <2>3. NumberAt(_storage, 2, 2) = n
    BY <2>2 DEF ReadAs, IsSlice
  <2> QED
    BY <2>1, <2>3 DEF Opcode
<1>3. Size = header.size
  <2>1. PICK n, t, u : n = header.size /\ t = Bytes(n, 2) /\ u = Reverse(t)
    OBVIOUS
  <2>2. /\ Len(u) = 2 /\ u[1] = t[2] /\ u[2] = t[1] /\ ReadAs(t, 2, n) /\ u \in Seq(Nat)
        /\ IsSlice(_storage, 0, u)
    BY <1>1, <2>1, TwoBytes
  <2>3. SubSeq(_storage, 1, 2) = u
    <3>1. SubSeq(_storage, 0 + 1, 0 + Len(u)) = u
      BY <1>1, <2>2, SliceIsCopied
    <3>2. 0 + 1 = 1 /\ 0 + Len(u) = 2
      BY <2>2
    <3> QED
      BY <3>1, <3>2
  <2>4. PICK r : r = Reverse(u)
    OBVIOUS
  <2>5. r[1] = u[2] /\ r[2] = u[1]
    BY <2>2, <2>4 DEF Reverse
  <2>6. NumberAt(r, 0, 2) = n
    <3>1. \A k \in 1 .. 2 : r[0 + k] = t[k]
      BY <2>2, <2>5
    <3> QED
      BY <2>2, <3>1 DEF ReadAs
  <2> QED
    BY <2>1, <2>3, <2>4, <2>6 DEF Size
<1> QED
  BY <1>2, <1>3

LEMMA PacketsAreReadBack == BufferInv => PacketReadBack
<1> SUFFICES ASSUME BufferInv
             PROVE  PacketReadBack
  OBVIOUS
<1>1. reads = SubSeq(written, 1, Len(reads))
  BY DEF BufferInv
<1>2. being_read /\ Len(reads) = Len(written)
          => _rpos = IF written = <<>> THEN 4 ELSE Len(_storage)
  <2> SUFFICES ASSUME being_read, Len(reads) = Len(written)
               PROVE  _rpos = IF written = <<>> THEN 4 ELSE Len(_storage)
    OBVIOUS
  <2>1. PICK at : /\ Placed(at, written, _storage)
                  /\ _wpos = at[Len(written)] /\ _rpos = at[Len(reads)]
    BY DEF BufferInv
  <2>2. CASE written = <<>>
    BY <2>1, <2>2 DEF Placed
  <2>3. CASE written # <<>>
    BY <2>1, <2>3 DEF BufferInv
  <2> QED
    BY <2>2, <2>3
<1> QED
  BY <1>1, <1>2, HeaderIsRead DEF PacketReadBack

(* Whatever values a packet is made of, however many they are, and         *)
(* whenever its header is set: they are read back in their order, with the *)
(* header, and the last ends with the packet (ByteBuffer, ServerPkt).      *)
THEOREM PacketsReadBack == Spec => []PacketReadBack
BY BufferInvInit, BufferInvStep, PacketsAreReadBack, PTL DEF Spec
=============================================================================
