------------------------- MODULE RealmSessionProofs -------------------------
(***************************************************************************)
(* Proofs about RealmSession, for any sessions and addresses.              *)
(*                                                                         *)
(* For any number of workers, who failed too often is banned.  The counter *)
(* of failed logins that a session compares with the limit is loaded by a  *)
(* callback.  Were it loaded a second time, it could jump over the limit   *)
(* without a failure.  Most of that proof shows that it is loaded once: a  *)
(* session has at most one query under way that leads to a load, and none  *)
(* once its counter is loaded.                                             *)
(*                                                                         *)
(* For one worker, the row of the account settles.  The invariant says     *)
(* where the operations that wait lead: to the row that is expected.  That *)
(* needs every statement to be for the account, hence what the queries     *)
(* under way know of the name in their session.                            *)
(*                                                                         *)
(* And every variable keeps its type.  What is enqueued is for a name: the *)
(* states in which that happens are reached through a challenge, which     *)
(* leaves a name, and none is forgotten while a query is under way.        *)
(***************************************************************************)
EXTENDS ProxyLogin, SequenceTheorems, TLAPS

-----------------------------------------------------------------------------
(* Types of what the proof depends on.                                     *)

Logins == {"", "account", "unknown"}

Operation == [op : Query \union Statement, s : Session, login : Logins]
Emptying == [op : {"fix_sv"}, s : Session, login : Logins]

Counter == (0 .. CounterSize - 1) \union {-1}

Members ==
    [state : ConnectionState, handling : {"", "logon", "reconnect"}, owned : BOOLEAN,
     login : Logins, failed : Counter, challenged : BOOLEAN, answered : BOOLEAN,
     listed : BOOLEAN, wrong : BOOLEAN]

Row == [failed_logins : Nat, banned : BOOLEAN, sv : BOOLEAN,
        sessionkey : Session \union {"none"}, last_ip : Ips]

(* A callback, with a result that its session can use.                     *)
IsAnswer(o) ==
    /\ o.op = "callback" /\ o.s \in Session /\ o.of \in Query
    /\ o.of = "get_account" /\ o.result.is = "EXISTS" => o.result.failed \in Nat
    /\ o.of = "get_char_amount" => o.result \in BOOLEAN

IsDone(o) == o = Idle \/ o \in Operation \/ IsAnswer(o)

DoingTypes == doing = [w \in Worker |-> doing[w]] /\ \A w \in Worker : IsDone(doing[w])

SessionTypes ==
    /\ socket \in [Session -> Members]
    /\ urgent \in Seq(Emptying)
    /\ queue \in Seq(Operation)
    /\ DoingTypes
    /\ account \in Row
    /\ failures \in Nat

(* What a session's counter holds.                                         *)
LEMMA CounterValues ==
    ASSUME SessionAssumption
    PROVE  /\ -1 \in Counter /\ Counter \subseteq Int
           /\ \A n \in Nat : as_uint8(n) \in Counter /\ as_uint8(n) >= 0
           /\ \A c \in Counter : c >= 0 => c + 1 \in Nat
<1>1. CounterSize \in Nat \ {0}
  BY DEF SessionAssumption
<1>2. ASSUME NEW n \in Nat PROVE n % CounterSize \in 0 .. CounterSize - 1
  BY <1>1
<1>3. -1 \in Counter /\ Counter \subseteq Int
  BY <1>1 DEF Counter
<1> QED
  BY <1>1, <1>2, <1>3 DEF Counter, as_uint8

(* What is appended stands behind what was there.                          *)
LEMMA Behind ==
    ASSUME NEW S, NEW q \in Seq(S), NEW t \in Seq(S)
    PROVE  /\ q \o t \in Seq(S)
           /\ \A i \in DOMAIN q : i \in DOMAIN (q \o t) /\ (q \o t)[i] = q[i]
           /\ \A i \in DOMAIN (q \o t) :
                  i \in DOMAIN q \/ \E j \in DOMAIN t : (q \o t)[i] = t[j]
           /\ \A j \in DOMAIN t : \E i \in DOMAIN (q \o t) : (q \o t)[i] = t[j]
<1>1. /\ Len(q) \in Nat /\ DOMAIN q = 1 .. Len(q)
      /\ Len(t) \in Nat /\ DOMAIN t = 1 .. Len(t)
  BY LenProperties
<1>2. /\ q \o t \in Seq(S)
      /\ Len(q \o t) = Len(q) + Len(t)
      /\ \A i \in 1 .. Len(q) + Len(t) :
             (q \o t)[i] = IF i <= Len(q) THEN q[i] ELSE t[i - Len(q)]
  BY ConcatProperties
<1>3. PICK u : u = q \o t
  OBVIOUS
<1>4. DOMAIN u = 1 .. Len(q) + Len(t)
  BY <1>2, <1>3, LenProperties
<1>5. \A i \in DOMAIN q : i \in DOMAIN u /\ u[i] = q[i]
  BY <1>1, <1>2, <1>3, <1>4
<1>6. ASSUME NEW i \in DOMAIN u
      PROVE  i \in DOMAIN q \/ \E j \in DOMAIN t : u[i] = t[j]
  <2>1. CASE i <= Len(q)
    BY <1>1, <1>4, <2>1
  <2>2. CASE ~(i <= Len(q))
    <3>1. i - Len(q) \in DOMAIN t /\ u[i] = t[i - Len(q)]
      BY <1>1, <1>2, <1>3, <1>4, <2>2
    <3> QED
      BY <3>1
  <2> QED
    BY <2>1, <2>2
<1>7. ASSUME NEW j \in DOMAIN t
      PROVE  \E i \in DOMAIN u : u[i] = t[j]
  <2>1. /\ Len(q) + j \in DOMAIN u /\ ~(Len(q) + j <= Len(q))
        /\ (Len(q) + j) - Len(q) = j
    BY <1>1, <1>4
  <2>2. u[Len(q) + j] = t[j]
    BY <1>2, <1>3, <1>4, <2>1
  <2> QED
    BY <2>1, <2>2
<1> QED
  BY <1>2, <1>3, <1>5, <1>6, <1>7

(* The same for a single operation.                                        *)
LEMMA BehindOne ==
    ASSUME NEW S, NEW q \in Seq(S), NEW e \in S
    PROVE  /\ Append(q, e) \in Seq(S)
           /\ \A i \in DOMAIN q : i \in DOMAIN Append(q, e) /\ Append(q, e)[i] = q[i]
           /\ \A i \in DOMAIN Append(q, e) : i \in DOMAIN q \/ Append(q, e)[i] = e
           /\ \E i \in DOMAIN Append(q, e) : Append(q, e)[i] = e
BY AppendProperties, LenProperties

(* An operation is typed when it is made.                                  *)
LEMMA OpIsOperation ==
    ASSUME SessionTypes, NEW s \in Session, NEW name \in Query \union Statement
    PROVE  Op(name, s) \in Operation /\ Op(name, s).op = name /\ Op(name, s).s = s
BY DEF SessionTypes, Op, Operation, Members

-----------------------------------------------------------------------------
(* Types.                                                                  *)

(* A session's members change, those of no other do.                       *)
LEMMA MembersChange ==
    ASSUME socket \in [Session -> Members], NEW s \in Session, NEW m \in Members,
           socket' = [socket EXCEPT ![s] = m]
    PROVE  /\ socket' \in [Session -> Members]
           /\ socket'[s] = m
           /\ \A t \in Session : t # s => socket'[t] = socket[t]
OBVIOUS

(* A worker's operation changes.                                           *)
LEMMA DoingChanges ==
    ASSUME DoingTypes, NEW w \in Worker, NEW o, IsDone(o), doing' = [doing EXCEPT ![w] = o]
    PROVE  DoingTypes' /\ doing'[w] = o /\ \A v \in Worker : v # w => doing'[v] = doing[v]
<1>1. doing' = [v \in Worker |-> IF v = w THEN o ELSE doing[v]]
  BY DEF DoingTypes
<1>2. \A v \in Worker : doing'[v] = IF v = w THEN o ELSE doing[v]
  BY <1>1
<1>3. doing' = [v \in Worker |-> doing'[v]]
  BY <1>1
<1>4. \A v \in Worker : IsDone(doing[v])
  BY DEF DoingTypes
<1> QED
  BY <1>2, <1>3, <1>4 DEF DoingTypes, IsDone, IsAnswer

(* What an idle worker has is typed.                                       *)
LEMMA IdleIsDone == IsDone(Idle) /\ Idle.op = "idle"
BY DEF IsDone, Idle

(* What happens to the members of a session.                               *)
SetState(s, state, owned) ==
    socket' = [socket EXCEPT ![s] = [socket[s] EXCEPT !.state = state, !.owned = owned]]

(* The types of that, and what it leaves alone.                            *)
LEMMA SetStateTypes ==
    ASSUME SessionTypes, NEW s \in Session, NEW state \in ConnectionState, NEW owned \in BOOLEAN,
           SetState(s, state, owned)
    PROVE  /\ socket' \in [Session -> Members]
           /\ socket'[s].state = state
           /\ socket'[s].wrong = socket[s].wrong /\ socket'[s].failed = socket[s].failed
           /\ \A t \in Session : t # s => socket'[t] = socket[t]
<1>1. socket \in [Session -> Members] /\ socket[s] \in Members
  BY DEF SessionTypes
<1>2. PICK m : m = [socket[s] EXCEPT !.state = state, !.owned = owned]
  OBVIOUS
<1>3. m \in Members /\ m.state = state /\ m.wrong = socket[s].wrong /\ m.failed = socket[s].failed
  BY <1>1, <1>2 DEF Members
<1> QED
  BY <1>1, <1>2, <1>3, MembersChange DEF SetState

(* The ways in which handlers end a session or go on.                      *)
LEMMA SetStateOf ==
    ASSUME SessionTypes, NEW s \in Session
    PROVE  /\ die(s) => SetState(s, "CLOSING", FALSE)
           /\ socket' = [socket EXCEPT ![s].state = "AUTHED"] =>
                  SetState(s, "AUTHED", socket[s].owned)
           /\ socket' = [socket EXCEPT ![s].state = "NEED_RPROOF"] =>
                  SetState(s, "NEED_RPROOF", socket[s].owned)
           /\ socket[s].owned \in BOOLEAN
<1>1. socket \in [Session -> Members] /\ socket[s] \in Members
  BY DEF SessionTypes
<1>2. socket[s].owned \in BOOLEAN
  BY <1>1 DEF Members
<1>3. die(s) => SetState(s, "CLOSING", FALSE)
  BY <1>1 DEF die, SetState
<1>4. ASSUME NEW state \in ConnectionState
      PROVE  [socket[s] EXCEPT !.state = state]
                 = [socket[s] EXCEPT !.state = state, !.owned = socket[s].owned]
  BY <1>1 DEF Members
<1>5. ASSUME NEW state \in ConnectionState, socket' = [socket EXCEPT ![s].state = state]
      PROVE  SetState(s, state, socket[s].owned)
  BY <1>1, <1>4, <1>5 DEF SetState
<1> QED
  BY <1>2, <1>3, <1>5 DEF ConnectionState

(* The first session in a slot, or the next.                               *)
LEMMA OpenMembers ==
    ASSUME SessionTypes, NEW s \in Session, open(s)
    PROVE  /\ socket' \in [Session -> Members]
           /\ socket'[s].failed = -1 /\ socket'[s].wrong = FALSE
           /\ \A t \in Session : t # s => socket'[t] = socket[t]
<1>1. PICK m : m = [Closed EXCEPT !.state = "CONNECTED", !.owned = TRUE]
  OBVIOUS
<1>2. m \in Members /\ m.failed = -1 /\ m.wrong = FALSE
  <2>1. m = [state |-> "CONNECTED", handling |-> "", owned |-> TRUE, login |-> "",
             failed |-> -1, challenged |-> FALSE, answered |-> FALSE, listed |-> FALSE,
             wrong |-> FALSE]
    BY <1>1 DEF Closed
  <2>2. -1 \in Counter /\ "CONNECTED" \in ConnectionState /\ "" \in Logins
    BY CounterValues, SessionAssumption DEF ConnectionState, Logins
  <2> QED
    BY <2>1, <2>2 DEF Members
<1> QED
  BY <1>1, <1>2, MembersChange DEF SessionTypes, open

(* A challenge, of whichever kind.                                         *)
LEMMA LoginMembers ==
    ASSUME SessionTypes, NEW s \in Session, NEW login \in Logins,
           NEW handling \in {"", "logon", "reconnect"},
           \/ socket' = [socket EXCEPT ![s].login = login, ![s].handling = handling]
           \/ socket' = [socket EXCEPT ![s].login = login] /\ handling = socket[s].handling
    PROVE  /\ socket' \in [Session -> Members]
           /\ socket'[s].handling = handling /\ socket'[s].state = socket[s].state
           /\ socket'[s].wrong = socket[s].wrong /\ socket'[s].failed = socket[s].failed
           /\ \A t \in Session : t # s => socket'[t] = socket[t]
<1>1. socket \in [Session -> Members] /\ socket[s] \in Members
  BY DEF SessionTypes
<1>2. PICK m : m = [socket[s] EXCEPT !.login = login, !.handling = handling]
  OBVIOUS
<1>3. /\ m \in Members /\ m.handling = handling /\ m.state = socket[s].state
      /\ m.wrong = socket[s].wrong /\ m.failed = socket[s].failed
  BY <1>1, <1>2 DEF Members
<1>4. handling = socket[s].handling => [socket[s] EXCEPT !.login = login] = m
  BY <1>1, <1>2 DEF Members
<1>5. socket' = [socket EXCEPT ![s] = m]
  BY <1>1, <1>2, <1>4
<1> QED
  BY <1>1, <1>3, <1>5, MembersChange

(* state_set.                                                              *)
LEMMA StateSetMembers ==
    ASSUME SessionTypes, NEW s \in Session, state_set(s)
    PROVE  /\ socket' \in [Session -> Members]
           /\ socket'[s].state # "CONNECTED"
           /\ socket'[s].wrong = socket[s].wrong /\ socket'[s].failed = socket[s].failed
           /\ \A t \in Session : t # s => socket'[t] = socket[t]
<1>1. socket \in [Session -> Members] /\ socket[s] \in Members
  BY DEF SessionTypes
<1>2. PICK state : state = IF socket[s].handling = "logon" THEN "NEED_PROOF" ELSE "NEED_RPROOF"
  OBVIOUS
<1>3. PICK m : m = [socket[s] EXCEPT !.state = state, !.handling = ""]
  OBVIOUS
<1>4. state \in ConnectionState /\ state # "CONNECTED"
  BY <1>2 DEF ConnectionState
<1>5. m \in Members /\ m.state = state /\ m.wrong = socket[s].wrong /\ m.failed = socket[s].failed
  BY <1>1, <1>3, <1>4 DEF Members
<1>6. socket' = [socket EXCEPT ![s] = m]
  BY <1>1, <1>2, <1>3 DEF state_set
<1> QED
  BY <1>1, <1>4, <1>5, <1>6, MembersChange

(* A wrong proof.                                                          *)
LEMMA WrongMembers ==
    ASSUME SessionTypes, NEW s \in Session, NEW failed \in Counter, NEW wrong \in BOOLEAN,
           socket' = [socket EXCEPT ![s].wrong = wrong, ![s].failed = failed]
    PROVE  /\ socket' \in [Session -> Members]
           /\ socket'[s].state = socket[s].state
           /\ socket'[s].wrong = wrong /\ socket'[s].failed = failed
           /\ \A t \in Session : t # s => socket'[t] = socket[t]
<1>1. socket \in [Session -> Members] /\ socket[s] \in Members
  BY DEF SessionTypes
<1>2. PICK m : m = [socket[s] EXCEPT !.wrong = wrong, !.failed = failed]
  OBVIOUS
<1>3. m \in Members /\ m.wrong = wrong /\ m.failed = failed /\ m.state = socket[s].state
  BY <1>1, <1>2 DEF Members
<1>4. socket' = [socket EXCEPT ![s] = m]
  BY <1>1, <1>2
<1> QED
  BY <1>1, <1>3, <1>4, MembersChange

(* The callbacks of a logon.                                               *)
LEMMA CheckedMembers ==
    ASSUME SessionTypes, NEW s \in Session, NEW answered \in BOOLEAN, NEW failed \in Counter,
           NEW challenged \in BOOLEAN,
           socket' = [socket EXCEPT ![s].answered = answered, ![s].failed = failed,
                                    ![s].challenged = challenged]
    PROVE  /\ socket' \in [Session -> Members]
           /\ socket'[s].state = socket[s].state /\ socket'[s].handling = socket[s].handling
           /\ socket'[s].wrong = socket[s].wrong /\ socket'[s].failed = failed
           /\ \A t \in Session : t # s => socket'[t] = socket[t]
<1>1. socket \in [Session -> Members] /\ socket[s] \in Members
  BY DEF SessionTypes
<1>2. PICK m : m = [socket[s] EXCEPT !.answered = answered, !.failed = failed,
                                     !.challenged = challenged]
  OBVIOUS
<1>3. /\ m \in Members /\ m.wrong = socket[s].wrong /\ m.failed = failed
      /\ m.state = socket[s].state /\ m.handling = socket[s].handling
  BY <1>1, <1>2 DEF Members
<1>4. socket' = [socket EXCEPT ![s] = m]
  BY <1>1, <1>2
<1> QED
  BY <1>1, <1>3, <1>4, MembersChange

(* The other two: neither touches what the proof is about.                 *)
LEMMA ListedMembers ==
    ASSUME SessionTypes, NEW s \in Session, NEW b \in BOOLEAN,
           \/ socket' = [socket EXCEPT ![s].listed = b]
           \/ socket' = [socket EXCEPT ![s].answered = b]
    PROVE  /\ socket' \in [Session -> Members]
           /\ socket'[s].state = socket[s].state /\ socket'[s].handling = socket[s].handling
           /\ socket'[s].wrong = socket[s].wrong /\ socket'[s].failed = socket[s].failed
           /\ \A t \in Session : t # s => socket'[t] = socket[t]
<1>1. socket \in [Session -> Members] /\ socket[s] \in Members
  BY DEF SessionTypes
<1>2. PICK m : /\ m \in {[socket[s] EXCEPT !.listed = b], [socket[s] EXCEPT !.answered = b]}
               /\ socket' = [socket EXCEPT ![s] = m]
  BY <1>1
<1>3. /\ m \in Members /\ m.wrong = socket[s].wrong /\ m.failed = socket[s].failed
      /\ m.state = socket[s].state /\ m.handling = socket[s].handling
  BY <1>1, <1>2 DEF Members
<1> QED
  BY <1>1, <1>2, <1>3, MembersChange

-----------------------------------------------------------------------------
(* The queue.                                                              *)

Loading == {"check_ip_ban", "get_account"}

(* The operation, or the callback of one, that leads to a load.            *)
Loads(o) == o.op \in Loading \/ (o.op = "callback" /\ o.of \in Loading)

QueueGrows ==
    /\ queue' \in Seq(Operation)
    /\ \A i \in DOMAIN queue : i \in DOMAIN queue' /\ queue'[i] = queue[i]
    /\ \A i \in DOMAIN queue' : i \in DOMAIN queue \/ ~Loads(queue'[i])

(* Nothing is enqueued.                                                    *)
LEMMA SameGrows == ASSUME SessionTypes, queue' = queue PROVE QueueGrows
BY DEF SessionTypes, QueueGrows

(* An operation that loads nothing is enqueued.                            *)
LEMMA OneGrows ==
    ASSUME SessionTypes, NEW o \in Operation, o.op \notin Loading, queue' = Append(queue, o)
    PROVE  QueueGrows
<1>1. ~Loads(o)
  BY DEF Loads, Operation, Query, Statement
<1>2. queue \in Seq(Operation)
  BY DEF SessionTypes
<1> QED
  BY <1>1, <1>2, BehindOne DEF QueueGrows

(* Several are.                                                            *)
LEMMA MoreGrows ==
    ASSUME SessionTypes, NEW t \in Seq(Operation), \A j \in DOMAIN t : t[j].op \notin Loading,
           queue' = queue \o t
    PROVE  QueueGrows
<1>1. queue \in Seq(Operation)
  BY DEF SessionTypes
<1>2. /\ queue' \in Seq(Operation)
      /\ \A i \in DOMAIN queue : i \in DOMAIN queue' /\ queue'[i] = queue[i]
      /\ \A i \in DOMAIN queue' : i \in DOMAIN queue \/ \E j \in DOMAIN t : queue'[i] = t[j]
  BY <1>1, Behind
<1>3. \A j \in DOMAIN t : t[j] \in Operation
  BY LenProperties
<1>4. \A o \in Operation : o.op \notin Loading => ~Loads(o)
  BY DEF Loads, Operation, Query, Statement
<1> QED
  BY <1>2, <1>3, <1>4 DEF QueueGrows

(* set_vs, however often it is called.                                     *)
LEMMA SetVsGrows ==
    ASSUME SessionTypes, NEW s \in Session, NEW times \in Nat, set_vs(s, times)
    PROVE  QueueGrows /\ urgent' \in Seq(Emptying)
<1>1. Op("set_sv", s) \in Operation /\ Op("set_sv", s).op = "set_sv"
  BY OpIsOperation DEF Statement
<1>2. Op("fix_sv", s) \in Emptying
  BY DEF SessionTypes, Op, Emptying, Members
<1>3. PICK t : t = [i \in 1 .. times |-> Op("set_sv", s)]
  OBVIOUS
<1>4. PICK u : u = [i \in 1 .. times |-> Op("fix_sv", s)]
  OBVIOUS
<1>5. t \in Seq(Operation) /\ \A j \in DOMAIN t : t[j].op \notin Loading
  <2>1. t \in [1 .. times -> Operation]
    BY <1>1, <1>3
  <2>2. \A j \in DOMAIN t : t[j] = Op("set_sv", s)
    BY <1>3
  <2> QED
    BY <1>1, <2>1, <2>2 DEF Loading
<1>6. u \in Seq(Emptying)
  <2>1. u \in [1 .. times -> Emptying]
    BY <1>2, <1>4
  <2> QED
    BY <2>1
<1>7. queue' = queue \o t /\ urgent' = urgent \o u /\ urgent \in Seq(Emptying)
  BY <1>3, <1>4 DEF set_vs, SessionTypes
<1> QED
  BY <1>5, <1>6, <1>7, MoreGrows, ConcatProperties

-----------------------------------------------------------------------------
(* The invariant.                                                          *)

LoadsFor(o, s) == Loads(o) /\ o.s = s

IsLoading(s) ==
    \/ \E i \in DOMAIN queue : LoadsFor(queue[i], s)
    \/ \E w \in Worker : LoadsFor(doing[w], s)

(* A session's counter is loaded once at most.                             *)
LoadsOnce ==
    /\ \A i, j \in DOMAIN queue :
           i # j /\ Loads(queue[i]) /\ Loads(queue[j]) => queue[i].s # queue[j].s
    /\ \A v, w \in Worker :
           v # w /\ Loads(doing[v]) /\ Loads(doing[w]) => doing[v].s # doing[w].s
    /\ \A i \in DOMAIN queue, w \in Worker :
           Loads(queue[i]) /\ Loads(doing[w]) => queue[i].s # doing[w].s

Challengeable(s) == socket[s].state = "CONNECTED" /\ socket[s].handling = ""

CounterOfLoad ==
    \A s \in Session :
        /\ socket[s].wrong => socket[s].failed >= 0
        /\ IsLoading(s) => socket[s].failed < 0
        /\ Challengeable(s) => socket[s].failed < 0 /\ ~IsLoading(s)

Banned(s) == IF BanByIp THEN IpOf[s] \in banned_ips ELSE account.banned

Bans(o, s) == o.op = "ban_failed_logins" /\ o.s = s

BanWaits(s) ==
    \/ \E i \in DOMAIN queue : Bans(queue[i], s)
    \/ \E w \in Worker : Bans(doing[w], s)

FailedTooOften(s) == socket[s].wrong /\ socket[s].failed > WrongPassAmnt

BanFollows ==
    failures = 0 => \A s \in Session : FailedTooOften(s) => Banned(s) \/ BanWaits(s)

SessionInv == LoadsOnce /\ CounterOfLoad /\ BanFollows

(* What workers may do without moving a load or a ban.                     *)
DoingKeeps ==
    \A w \in Worker :
        /\ Loads(doing'[w]) => Loads(doing[w]) /\ doing'[w].s = doing[w].s
        /\ \A s \in Session : failures' = 0 /\ Bans(doing[w], s) => Bans(doing'[w], s)

(* No load begins, no ban is lost.                                         *)
LEMMA CalmStep ==
    ASSUME SessionTypes, LoadsOnce, QueueGrows, DoingKeeps
    PROVE  /\ LoadsOnce'
           /\ \A s \in Session : IsLoading(s)' => IsLoading(s)
           /\ \A s \in Session : failures' = 0 /\ BanWaits(s) => BanWaits(s)'
<1>1. /\ \A i \in DOMAIN queue : i \in DOMAIN queue' /\ queue'[i] = queue[i]
      /\ \A i \in DOMAIN queue' : Loads(queue'[i]) => i \in DOMAIN queue /\ queue'[i] = queue[i]
  BY DEF QueueGrows
<1>2. \A w \in Worker : Loads(doing'[w]) => Loads(doing[w]) /\ doing'[w].s = doing[w].s
  BY DEF DoingKeeps
<1>3. LoadsOnce'
  <2>1. \A i, j \in DOMAIN queue' :
            i # j /\ Loads(queue'[i]) /\ Loads(queue'[j]) => queue'[i].s # queue'[j].s
    BY <1>1 DEF LoadsOnce
  <2>2. \A v, w \in Worker :
            v # w /\ Loads(doing'[v]) /\ Loads(doing'[w]) => doing'[v].s # doing'[w].s
    BY <1>2 DEF LoadsOnce
  <2>3. \A i \in DOMAIN queue', w \in Worker :
            Loads(queue'[i]) /\ Loads(doing'[w]) => queue'[i].s # doing'[w].s
    BY <1>1, <1>2 DEF LoadsOnce
  <2> QED
    BY <2>1, <2>2, <2>3 DEF LoadsOnce, Loads
<1>4. ASSUME NEW s \in Session, IsLoading(s)'
      PROVE  IsLoading(s)
  <2>1. \/ \E i \in DOMAIN queue' : Loads(queue'[i]) /\ queue'[i].s = s
        \/ \E w \in Worker : Loads(doing'[w]) /\ doing'[w].s = s
    BY <1>4 DEF IsLoading, LoadsFor, Loads
  <2> QED
    BY <1>1, <1>2, <2>1 DEF IsLoading, LoadsFor
<1>5. ASSUME NEW s \in Session, failures' = 0, BanWaits(s)
      PROVE  BanWaits(s)'
  <2>1. \/ \E i \in DOMAIN queue' : Bans(queue'[i], s)
        \/ \E w \in Worker : Bans(doing'[w], s)
    BY <1>1, <1>5 DEF BanWaits, DoingKeeps
  <2> QED
    BY <2>1 DEF BanWaits, Bans
<1> QED
  BY <1>3, <1>4, <1>5

(* A step that leaves the counters alone, starts no load and loses no ban. *)
LEMMA CalmInv ==
    ASSUME SessionTypes, SessionInv, QueueGrows, DoingKeeps, failures' = 0 => failures = 0,
           \A s \in Session :
               /\ socket'[s].wrong = socket[s].wrong /\ socket'[s].failed = socket[s].failed
               /\ socket'[s].state = "CONNECTED" /\ socket'[s].handling = "" => Challengeable(s)
               /\ failures' = 0 /\ Banned(s) => Banned(s)'
    PROVE  SessionInv'
<1>1. /\ LoadsOnce'
      /\ \A s \in Session : IsLoading(s)' => IsLoading(s)
      /\ \A s \in Session : failures' = 0 /\ BanWaits(s) => BanWaits(s)'
  BY CalmStep DEF SessionInv
<1>2. CounterOfLoad'
  <2>1. \A s \in Session :
            /\ socket'[s].wrong => socket'[s].failed >= 0
            /\ IsLoading(s)' => socket'[s].failed < 0
            /\ Challengeable(s)' => socket'[s].failed < 0 /\ ~IsLoading(s)'
    BY <1>1 DEF SessionInv, CounterOfLoad, Challengeable
  <2> QED
    BY <2>1 DEF CounterOfLoad
<1>3. BanFollows'
  <2>1. ASSUME failures' = 0, NEW s \in Session, FailedTooOften(s)'
        PROVE  Banned(s)' \/ BanWaits(s)'
    <3>1. FailedTooOften(s)
      BY <2>1 DEF FailedTooOften
    <3>2. Banned(s) \/ BanWaits(s)
      BY <2>1, <3>1 DEF SessionInv, BanFollows
    <3> QED
      BY <1>1, <2>1, <3>2
  <2> QED
    BY <2>1 DEF BanFollows
<1> QED
  BY <1>1, <1>2, <1>3 DEF SessionInv

-----------------------------------------------------------------------------
(* Steps that start no load.                                               *)

(* A packet is handled that neither asks for a load nor counts.            *)
LEMMA PacketStep ==
    ASSUME SessionTypes, SessionInv, NEW s \in Session,
           socket' \in [Session -> Members],
           socket'[s].wrong = socket[s].wrong, socket'[s].failed = socket[s].failed,
           socket'[s].state = "CONNECTED" /\ socket'[s].handling = "" => Challengeable(s),
           \A t \in Session : t # s => socket'[t] = socket[t],
           QueueGrows,
           UNCHANGED <<urgent, doing, account, banned_ips, failures>>
    PROVE  SessionTypes' /\ SessionInv'
<1>1. DoingKeeps
  BY DEF DoingKeeps
<1>2. \A t \in Session :
          /\ socket'[t].wrong = socket[t].wrong /\ socket'[t].failed = socket[t].failed
          /\ socket'[t].state = "CONNECTED" /\ socket'[t].handling = "" => Challengeable(t)
          /\ failures' = 0 /\ Banned(t) => Banned(t)'
  BY DEF Banned, Challengeable
<1>3. SessionInv'
  BY <1>1, <1>2, CalmInv
<1>4. DoingTypes'
  BY DEF SessionTypes, DoingTypes, IsDone, IsAnswer
<1>5. SessionTypes'
  BY <1>4 DEF SessionTypes, QueueGrows
<1> QED
  BY <1>3, <1>5

(* A worker goes on with what is not a failure count or a ban.             *)
LEMMA WorkerStepCalm ==
    ASSUME SessionTypes, SessionInv, NEW w \in Worker, NEW o, IsDone(o),
           doing' = [doing EXCEPT ![w] = o],
           Loads(o) => Loads(doing[w]) /\ o.s = doing[w].s,
           doing[w].op = "ban_failed_logins" => failures' # 0,
           failures' \in Nat, failures' = 0 => failures = 0,
           socket' \in [Session -> Members],
           \A t \in Session :
               /\ socket'[t].wrong = socket[t].wrong /\ socket'[t].failed = socket[t].failed
               /\ socket'[t].state = "CONNECTED" /\ socket'[t].handling = "" => Challengeable(t),
           QueueGrows, urgent' \in Seq(Emptying),
           UNCHANGED <<account, banned_ips>>
    PROVE  SessionTypes' /\ SessionInv'
<1>1. DoingTypes' /\ doing'[w] = o /\ \A v \in Worker : v # w => doing'[v] = doing[v]
  BY DoingChanges DEF SessionTypes
<1>2. DoingKeeps
  <2>1. ASSUME NEW v \in Worker
        PROVE  /\ Loads(doing'[v]) => Loads(doing[v]) /\ doing'[v].s = doing[v].s
               /\ \A s \in Session : failures' = 0 /\ Bans(doing[v], s) => Bans(doing'[v], s)
    <3>1. CASE v = w
      BY <1>1, <3>1 DEF Bans
    <3>2. CASE v # w
      BY <1>1, <3>2
    <3> QED
      BY <3>1, <3>2
  <2> QED
    BY <2>1 DEF DoingKeeps
<1>3. \A t \in Session : failures' = 0 /\ Banned(t) => Banned(t)'
  BY DEF Banned
<1>4. SessionInv'
  BY <1>2, <1>3, CalmInv
<1>5. SessionTypes'
  BY <1>1 DEF SessionTypes, QueueGrows
<1> QED
  BY <1>4, <1>5

(* A session ends, or waits for its next packet.                           *)
LEMMA Quiet ==
    ASSUME SessionTypes, SessionInv, NEW s \in Session,
           \/ handle_close(s)
           \/ state_set(s)
           \/ right_proof(s)
           \/ handle_realm_list(s)
           \/ handle_auth_reconnect_proof(s)
    PROVE  SessionTypes' /\ SessionInv'
<1>1. CASE handle_close(s) \/ handle_auth_reconnect_proof(s)
  <2>1. /\ socket' = [socket EXCEPT ![s].state = "AUTHED"] \/ die(s)
        /\ queue' = queue /\ UNCHANGED <<urgent, doing, account, banned_ips, failures>>
    BY <1>1 DEF handle_close, handle_auth_reconnect_proof, database, history
  <2>2. PICK state \in {"AUTHED", "CLOSING"}, owned \in BOOLEAN : SetState(s, state, owned)
    BY <2>1, SetStateOf
  <2>3. state \in ConnectionState /\ state # "CONNECTED"
    BY DEF ConnectionState
  <2>4. /\ socket' \in [Session -> Members] /\ socket'[s].state # "CONNECTED"
        /\ socket'[s].wrong = socket[s].wrong /\ socket'[s].failed = socket[s].failed
        /\ \A t \in Session : t # s => socket'[t] = socket[t]
    BY <2>2, <2>3, SetStateTypes
  <2>5. QueueGrows
    BY <2>1, SameGrows
  <2> QED
    BY <2>1, <2>4, <2>5, PacketStep
<1>2. CASE state_set(s)
  <2>1. queue' = queue /\ UNCHANGED <<urgent, doing, account, banned_ips, failures>>
    BY <1>2 DEF state_set, database, history
  <2>2. QueueGrows
    BY <2>1, SameGrows
  <2> QED
    BY <1>2, <2>1, <2>2, StateSetMembers, PacketStep
<1>3. CASE right_proof(s)
  <2>1. /\ socket' = [socket EXCEPT ![s].state = "AUTHED"]
        /\ queue' = Append(queue, Op("update_account", s))
        /\ UNCHANGED <<urgent, doing, account, banned_ips, failures>>
    BY <1>3 DEF right_proof, database
  <2>2. SetState(s, "AUTHED", socket[s].owned) /\ socket[s].owned \in BOOLEAN
    BY <2>1, SetStateOf
  <2>3. /\ socket' \in [Session -> Members] /\ socket'[s].state = "AUTHED"
        /\ socket'[s].wrong = socket[s].wrong /\ socket'[s].failed = socket[s].failed
        /\ \A t \in Session : t # s => socket'[t] = socket[t]
    BY <2>2, SetStateTypes DEF ConnectionState
  <2>4. Op("update_account", s) \in Operation /\ Op("update_account", s).op = "update_account"
    BY OpIsOperation DEF Statement
  <2>5. QueueGrows
    BY <2>1, <2>4, OneGrows DEF Loading
  <2> QED
    BY <2>1, <2>3, <2>5, PacketStep
<1>4. CASE handle_realm_list(s)
  <2>1. /\ socket' = socket
        /\ queue' = Append(queue, Op("get_char_amount", s))
        /\ UNCHANGED <<urgent, doing, account, banned_ips, failures>>
    BY <1>4 DEF handle_realm_list, database, history
  <2>2. Op("get_char_amount", s) \in Operation /\ Op("get_char_amount", s).op = "get_char_amount"
    BY OpIsOperation DEF Query
  <2>3. QueueGrows
    BY <2>1, <2>2, OneGrows DEF Loading
  <2>4. socket' \in [Session -> Members]
    BY <2>1 DEF SessionTypes
  <2>5. socket'[s].state = "CONNECTED" /\ socket'[s].handling = "" => Challengeable(s)
    BY <2>1 DEF Challengeable
  <2> QED
    BY <2>1, <2>3, <2>4, <2>5, PacketStep
<1> QED
  BY <1>1, <1>2, <1>3, <1>4

(* What a name becomes.                                                    *)
LEMMA NamesAreLogins ==
    ASSUME NEW s \in Session, NEW name \in {"account", "unknown"}
    PROVE  name \in Logins /\ appended(s, name) \in Logins
BY DEF Logins, appended

(* The challenges that load nothing.                                       *)
LEMMA QuietChallenge ==
    ASSUME SessionTypes, SessionInv, NEW s \in Session, NEW name \in {"account", "unknown"},
           unsupported_build(s, name) \/ handle_auth_reconnect_challenge(s, name)
    PROVE  SessionTypes' /\ SessionInv'
<1>1. CASE unsupported_build(s, name)
  <2>1. /\ socket' = [socket EXCEPT ![s].login = appended(s, name)]
        /\ queue' = queue /\ UNCHANGED <<urgent, doing, account, banned_ips, failures>>
    BY <1>1 DEF unsupported_build, database, history
  <2>2. socket[s].handling \in {"", "logon", "reconnect"}
    BY DEF SessionTypes, Members
  <2>3. /\ socket' \in [Session -> Members]
        /\ socket'[s].handling = socket[s].handling /\ socket'[s].state = socket[s].state
        /\ socket'[s].wrong = socket[s].wrong /\ socket'[s].failed = socket[s].failed
        /\ \A t \in Session : t # s => socket'[t] = socket[t]
    BY <2>1, <2>2, NamesAreLogins, LoginMembers
  <2>4. QueueGrows
    BY <2>1, SameGrows
  <2>5. socket'[s].state = "CONNECTED" /\ socket'[s].handling = "" => Challengeable(s)
    BY <2>3 DEF Challengeable
  <2> QED
    BY <2>1, <2>3, <2>4, <2>5, PacketStep
<1>2. CASE handle_auth_reconnect_challenge(s, name)
  <2>1. /\ socket' = [socket EXCEPT ![s].login = name, ![s].handling = "reconnect"]
        /\ queue' = Append(queue, [op |-> "get_sessionkey", s |-> s, login |-> name])
        /\ UNCHANGED <<urgent, doing, account, banned_ips, failures>>
    BY <1>2 DEF handle_auth_reconnect_challenge, Challenged, database, history
  <2>2. /\ socket' \in [Session -> Members] /\ socket'[s].handling = "reconnect"
        /\ socket'[s].wrong = socket[s].wrong /\ socket'[s].failed = socket[s].failed
        /\ \A t \in Session : t # s => socket'[t] = socket[t]
    <3>1. name \in Logins /\ "reconnect" \in {"", "logon", "reconnect"}
      BY NamesAreLogins
    <3> QED
      BY <2>1, <3>1, LoginMembers
  <2>3. PICK o : o = [op |-> "get_sessionkey", s |-> s, login |-> name]
    OBVIOUS
  <2>4. o \in Operation /\ o.op = "get_sessionkey"
    BY <2>3, NamesAreLogins DEF Operation, Query
  <2>5. QueueGrows
    BY <2>1, <2>3, <2>4, OneGrows DEF Loading
  <2> QED
    BY <2>1, <2>2, <2>5, PacketStep
<1> QED
  BY <1>1, <1>2

(* The result of a query that is executed.                                 *)
LEMMA OneResult ==
    ASSUME NEW w \in Worker, execute_query(w)
    PROVE  /\ doing[w].op \in Query
           /\ \E result :
                  /\ doing[w].op = "check_ip_ban" => result = check_ip_ban(doing[w])
                  /\ doing[w].op = "get_account" => result = check_account(doing[w])
                  /\ doing[w].op = "get_sessionkey" => result = no_sessionkey_row(doing[w])
                  /\ doing[w].op = "get_char_amount" => result \in BOOLEAN
                  /\ doing' = [doing EXCEPT ![w] = Answer(doing[w], result)]
<1>1. /\ doing[w].op \in Query
      /\ \E r \in Results(doing[w]) : doing' = [doing EXCEPT ![w] = Answer(doing[w], r)]
  BY DEF execute_query
<1>2. PICK r : r \in Results(doing[w]) /\ doing' = [doing EXCEPT ![w] = Answer(doing[w], r)]
  BY <1>1
<1>3. CASE doing[w].op = "check_ip_ban"
  BY <1>1, <1>2, <1>3 DEF Results
<1>4. CASE doing[w].op = "get_account"
  BY <1>1, <1>2, <1>4 DEF Results
<1>5. CASE doing[w].op = "get_sessionkey"
  BY <1>1, <1>2, <1>5 DEF Results
<1>6. CASE doing[w].op = "get_char_amount"
  <2>1. Results(doing[w]) = getCharAmntObsv(doing[w])
    BY <1>6 DEF Results
  <2>2. getCharAmntObsv(doing[w]) \subseteq BOOLEAN
    BY SessionAssumption DEF SessionAssumption, getCharAmntObsv
  <2> QED
    BY <1>1, <1>2, <1>6, <2>1, <2>2
<1> QED
  BY <1>1, <1>3, <1>4, <1>5, <1>6 DEF Query

(* A query is executed, or fails, or a statement fails.                    *)
LEMMA Executes ==
    ASSUME SessionTypes, SessionInv, NEW w \in Worker, execute_query(w) \/ execution_fails(w)
    PROVE  SessionTypes' /\ SessionInv'
<1>1. IsDone(doing[w])
  BY DEF SessionTypes, DoingTypes
<1>2. socket' = socket /\ queue' = queue /\ urgent' = urgent
      /\ UNCHANGED <<account, banned_ips>>
  BY DEF execute_query, execution_fails, database, history
<1>3. /\ socket' \in [Session -> Members] /\ urgent' \in Seq(Emptying)
      /\ \A t \in Session :
            /\ socket'[t].wrong = socket[t].wrong /\ socket'[t].failed = socket[t].failed
            /\ socket'[t].state = "CONNECTED" /\ socket'[t].handling = "" => Challengeable(t)
  BY <1>2 DEF SessionTypes, Challengeable
<1>4. QueueGrows
  BY <1>2, SameGrows
<1>5. CASE execute_query(w)
  <2>1. PICK result :
            /\ doing[w].op = "get_account" => result = check_account(doing[w])
            /\ doing[w].op = "get_char_amount" => result \in BOOLEAN
            /\ doing' = [doing EXCEPT ![w] = Answer(doing[w], result)]
            /\ doing[w].op \in Query
    BY <1>5, OneResult
  <2>2. doing[w] \in Operation
    BY <1>1, <2>1 DEF IsDone, Idle, IsAnswer, Query
  <2>3. PICK o : o = Answer(doing[w], result)
    OBVIOUS
  <2>4. o.op = "callback" /\ o.s = doing[w].s /\ o.of = doing[w].op /\ o.result = result
    BY <2>3 DEF Answer
  <2>5. doing[w].op = "get_account" /\ result.is = "EXISTS" => result.failed \in Nat
    <3>1. SUFFICES ASSUME doing[w].op = "get_account", result.is = "EXISTS"
                   PROVE  result.failed \in Nat
      OBVIOUS
    <3>2. result = check_account(doing[w])
      BY <2>1, <3>1
    <3>3. account.failed_logins \in Nat
      BY DEF SessionTypes, Row
    <3>4. result.failed = account.failed_logins
      <4>1. CASE doing[w].login # "account"
        <5>1. result = [is |-> "NOTFOUND"]
          BY <3>2, <4>1 DEF check_account
        <5> QED
          BY <3>1, <5>1
      <4>2. CASE doing[w].login = "account" /\ account.banned
        <5>1. result = [is |-> "BANNED"]
          BY <3>2, <4>2 DEF check_account
        <5> QED
          BY <3>1, <5>1
      <4>3. CASE doing[w].login = "account" /\ ~account.banned
        <5>1. result = [is |-> "EXISTS", failed |-> account.failed_logins,
                        last_ip |-> account.last_ip]
          BY <3>2, <4>3 DEF check_account
        <5> QED
          BY <5>1
      <4> QED
        BY <4>1, <4>2, <4>3
    <3> QED
      BY <3>3, <3>4
  <2>6. doing[w].op = "get_char_amount" => result \in BOOLEAN
    BY <2>1
  <2>7. IsDone(o)
    BY <2>1, <2>2, <2>4, <2>5, <2>6 DEF IsDone, IsAnswer, Operation
  <2>8. Loads(o) => Loads(doing[w]) /\ o.s = doing[w].s
    BY <2>1, <2>4 DEF Loads, Loading
  <2>9. doing[w].op # "ban_failed_logins"
    BY <2>1 DEF Query
  <2>10. failures' = failures /\ failures' \in Nat
    BY <1>5 DEF execute_query, history, SessionTypes
  <2> QED
    BY <1>2, <1>3, <1>4, <2>1, <2>3, <2>7, <2>8, <2>9, <2>10, WorkerStepCalm
<1>6. CASE execution_fails(w)
  <2>1. failures' = failures + 1 /\ doing' = [doing EXCEPT ![w] = Idle]
    BY <1>6 DEF execution_fails
  <2>2. failures' \in Nat /\ failures' # 0
    BY <2>1 DEF SessionTypes
  <2>3. ~Loads(Idle)
    BY IdleIsDone DEF Loads, Loading
  <2> QED
    BY <1>2, <1>3, <1>4, <2>1, <2>2, <2>3, IdleIsDone, WorkerStepCalm
<1> QED
  BY <1>5, <1>6

(* What calls back is a callback.                                          *)
LEMMA CallbackIs ==
    ASSUME SessionTypes, NEW w \in Worker, doing[w].op = "callback"
    PROVE  IsAnswer(doing[w]) /\ doing[w].s \in Session
<1>1. IsDone(doing[w])
  BY DEF SessionTypes, DoingTypes
<1>2. doing[w] # Idle
  BY IdleIsDone
<1>3. doing[w] \notin Operation
  BY DEF Operation, Query, Statement
<1> QED
  BY <1>1, <1>2, <1>3 DEF IsDone, IsAnswer

(* The callbacks that load nothing.                                        *)
LEMMA QuietCallback ==
    ASSUME SessionTypes, SessionInv, NEW w \in Worker,
           \/ get_char_amount(w)
           \/ get_char_amount_of_unsupported_build(w)
           \/ get_sessionkey(w)
    PROVE  SessionTypes' /\ SessionInv'
<1>1. PICK s \in Session : s = doing[w].s
  BY CallbackIs DEF get_char_amount, get_char_amount_of_unsupported_build, get_sessionkey,
                    CallsBack
<1>2. /\ doing' = [doing EXCEPT ![w] = Idle]
      /\ doing[w].op = "callback"
      /\ UNCHANGED <<account, banned_ips, failures>>
  BY DEF get_char_amount, get_char_amount_of_unsupported_build, get_sessionkey, CallsBack,
         database, history
<1>3. ~Loads(Idle) /\ failures' \in Nat /\ (failures' = 0 => failures = 0)
  BY <1>2, IdleIsDone DEF Loads, Loading, SessionTypes
<1>4. ASSUME socket' \in [Session -> Members],
             socket'[s].wrong = socket[s].wrong, socket'[s].failed = socket[s].failed,
             socket'[s].state = "CONNECTED" /\ socket'[s].handling = "" => Challengeable(s),
             \A t \in Session : t # s => socket'[t] = socket[t],
             QueueGrows, urgent' \in Seq(Emptying)
      PROVE  SessionTypes' /\ SessionInv'
  <2>1. \A t \in Session :
            /\ socket'[t].wrong = socket[t].wrong /\ socket'[t].failed = socket[t].failed
            /\ socket'[t].state = "CONNECTED" /\ socket'[t].handling = "" => Challengeable(t)
    BY <1>4 DEF Challengeable
  <2> QED
    BY <1>2, <1>3, <1>4, <2>1, IdleIsDone, WorkerStepCalm
<1>5. CASE get_char_amount(w)
  <2>1. /\ \E b \in BOOLEAN : socket' = [socket EXCEPT ![s].listed = doing[w].result \/ b]
        /\ set_vs(s, IF doing[w].result THEN 1 ELSE 2)
        /\ doing[w].of = "get_char_amount"
    BY <1>1, <1>5 DEF get_char_amount, CallsBack
  <2>2. PICK b \in BOOLEAN : socket' = [socket EXCEPT ![s].listed = b]
    BY <2>1
  <2>3. /\ socket' \in [Session -> Members]
        /\ socket'[s].state = socket[s].state /\ socket'[s].handling = socket[s].handling
        /\ socket'[s].wrong = socket[s].wrong /\ socket'[s].failed = socket[s].failed
        /\ \A t \in Session : t # s => socket'[t] = socket[t]
    BY <2>2, ListedMembers
  <2>4. PICK times \in Nat : times = IF doing[w].result THEN 1 ELSE 2
    OBVIOUS
  <2>5. QueueGrows /\ urgent' \in Seq(Emptying)
    BY <2>1, <2>4, SetVsGrows
  <2> QED
    BY <1>4, <2>3, <2>5 DEF Challengeable
<1>6. CASE get_sessionkey(w) \/ get_char_amount_of_unsupported_build(w)
  <2>1. queue' = queue /\ urgent' = urgent
    BY <1>6 DEF get_sessionkey, get_char_amount_of_unsupported_build
  <2>2. QueueGrows /\ urgent' \in Seq(Emptying)
    BY <2>1, SameGrows DEF SessionTypes
  <2>3. socket' = [socket EXCEPT ![s].state = "NEED_RPROOF"] \/ die(s)
    BY <1>1, <1>6 DEF get_sessionkey, get_char_amount_of_unsupported_build
  <2>4. PICK state \in {"NEED_RPROOF", "CLOSING"}, owned \in BOOLEAN : SetState(s, state, owned)
    BY <2>3, SetStateOf
  <2>5. state \in ConnectionState /\ state # "CONNECTED"
    BY DEF ConnectionState
  <2>6. /\ socket' \in [Session -> Members] /\ socket'[s].state # "CONNECTED"
        /\ socket'[s].wrong = socket[s].wrong /\ socket'[s].failed = socket[s].failed
        /\ \A t \in Session : t # s => socket'[t] = socket[t]
    BY <2>4, <2>5, SetStateTypes
  <2> QED
    BY <1>4, <2>2, <2>6
<1> QED
  BY <1>5, <1>6

-----------------------------------------------------------------------------
(* Statements.                                                             *)

(* A statement leaves a row, in which a ban stays.                         *)
LEMMA ExecutedRow ==
    ASSUME SessionTypes, NEW o \in Operation
    PROVE  /\ Executed(o) \in Row
           /\ account.banned => Executed(o).banned
           /\ o.op = "ban_failed_logins" /\ ~BanByIp => Executed(o).banned
<1>1. account \in Row /\ account.failed_logins + 1 \in Nat
  BY DEF SessionTypes, Row
<1>2. o.s \in Session /\ IpOf[o.s] \in Ips
  BY DEF Operation, Ips
<1>3. CASE o.op = "update_account" /\ o.login = "account"
  <2>1. Executed(o) = [account EXCEPT !.sessionkey = o.s, !.failed_logins = 0,
                                      !.last_ip = IpOf[o.s]]
    BY <1>3 DEF Executed
  <2>2. PICK r : r = [account EXCEPT !.sessionkey = o.s, !.failed_logins = 0,
                                     !.last_ip = IpOf[o.s]]
    OBVIOUS
  <2>3. o.s \in Session \union {"none"} /\ 0 \in Nat
    BY <1>2
  <2>4. r \in Row /\ r.banned = account.banned
    BY <1>1, <1>2, <2>2, <2>3 DEF Row
  <2>5. o.op # "ban_failed_logins"
    BY <1>3
  <2> QED
    BY <2>1, <2>2, <2>4, <2>5
<1>4. CASE o.op = "increment_failed_logins"
  <2>1. Executed(o) = [account EXCEPT !.failed_logins = @ + 1]
    BY <1>4 DEF Executed
  <2> QED
    BY <1>1, <1>4, <2>1 DEF Row
<1>5. CASE o.op = "ban_failed_logins" /\ ~BanByIp
  <2>1. Executed(o) = [account EXCEPT !.banned = TRUE]
    BY <1>5 DEF Executed
  <2> QED
    BY <1>1, <1>5, <2>1 DEF Row
<1>6. CASE o.op = "fix_sv" /\ o.login = "account"
  <2>1. Executed(o) = [account EXCEPT !.sv = FALSE]
    BY <1>6 DEF Executed
  <2> QED
    BY <1>1, <1>6, <2>1 DEF Row
<1>7. CASE o.op = "set_sv" /\ o.login = "account"
  <2>1. Executed(o) = [account EXCEPT !.sv = TRUE]
    BY <1>7 DEF Executed
  <2> QED
    BY <1>1, <1>7, <2>1 DEF Row
<1>8. CASE ~(\/ o.op = "update_account" /\ o.login = "account"
             \/ o.op = "increment_failed_logins"
             \/ o.op = "ban_failed_logins" /\ ~BanByIp
             \/ o.op = "fix_sv" /\ o.login = "account"
             \/ o.op = "set_sv" /\ o.login = "account")
  <2>1. Executed(o) = account
    BY <1>8 DEF Executed
  <2> QED
    BY <1>1, <1>8, <2>1
<1> QED
  BY <1>3, <1>4, <1>5, <1>6, <1>7, <1>8

(* A ban that is executed is in force.                                     *)
LEMMA StatementExecuted ==
    ASSUME SessionTypes, SessionInv, NEW w \in Worker, execute_statement(w)
    PROVE  SessionTypes' /\ SessionInv'
<1>1. /\ doing[w].op \in Statement
      /\ account' = Executed(doing[w])
      /\ banned_ips' = IF doing[w].op = "ban_failed_logins" /\ BanByIp
                       THEN banned_ips \union {IpOf[doing[w].s]} ELSE banned_ips
      /\ doing' = [doing EXCEPT ![w] = Idle]
      /\ socket' = socket /\ urgent' = urgent /\ queue' = queue /\ failures' = failures
  BY DEF execute_statement, history
<1>2. doing[w] \in Operation
  <2>1. IsDone(doing[w])
    BY DEF SessionTypes, DoingTypes
  <2> QED
    BY <1>1, <2>1 DEF IsDone, Idle, IsAnswer, Statement
<1>3. PICK o \in Operation : o = doing[w]
  BY <1>2
<1>4. /\ account' \in Row
      /\ account.banned => account'.banned
      /\ o.op = "ban_failed_logins" /\ ~BanByIp => account'.banned
  BY <1>1, <1>3, ExecutedRow
<1>5. DoingTypes' /\ doing'[w] = Idle /\ \A v \in Worker : v # w => doing'[v] = doing[v]
  BY <1>1, IdleIsDone, DoingChanges DEF SessionTypes
<1>6. SessionTypes'
  BY <1>1, <1>4, <1>5 DEF SessionTypes
<1>7. QueueGrows
  BY <1>1, SameGrows
<1>8. ~Loads(Idle)
  BY IdleIsDone DEF Loads, Loading
<1>9. /\ \A i \in DOMAIN queue' : queue'[i] = queue[i]
      /\ \A v \in Worker : Loads(doing'[v]) => Loads(doing[v]) /\ doing'[v].s = doing[v].s
  BY <1>1, <1>5, <1>8
<1>10. LoadsOnce'
  <2>1. LoadsOnce
    BY DEF SessionInv
  <2>2. \A u, v \in Worker :
            u # v /\ Loads(doing'[u]) /\ Loads(doing'[v]) => doing'[u].s # doing'[v].s
    BY <1>9, <2>1 DEF LoadsOnce
  <2>3. \A i \in DOMAIN queue, v \in Worker :
            Loads(queue[i]) /\ Loads(doing'[v]) => queue[i].s # doing'[v].s
    BY <1>9, <2>1 DEF LoadsOnce
  <2> QED
    BY <1>1, <2>1, <2>2, <2>3 DEF LoadsOnce, Loads
<1>11. CounterOfLoad'
  <2>1. \A s \in Session : IsLoading(s)' => IsLoading(s)
    BY <1>1, <1>9 DEF IsLoading, LoadsFor, Loads
  <2> QED
    BY <1>1, <2>1 DEF SessionInv, CounterOfLoad, Challengeable
<1>12. BanFollows'
  <2>1. ASSUME failures' = 0, NEW s \in Session, FailedTooOften(s)'
        PROVE  Banned(s)' \/ BanWaits(s)'
    <3>1. Banned(s) \/ BanWaits(s)
      BY <1>1, <2>1 DEF SessionInv, BanFollows, FailedTooOften
    <3>2. CASE Banned(s)
      BY <1>1, <1>4, <3>2 DEF Banned
    <3>3. CASE Bans(doing[w], s)
      <4>1. o.op = "ban_failed_logins" /\ o.s = s
        BY <1>3, <3>3 DEF Bans
      <4> QED
        BY <1>1, <1>3, <1>4, <4>1 DEF Banned
    <3>4. CASE \E i \in DOMAIN queue : Bans(queue[i], s)
      BY <1>1, <3>4 DEF BanWaits, Bans
    <3>5. ASSUME NEW v \in Worker, v # w, Bans(doing[v], s)
          PROVE  BanWaits(s)'
      <4>1. Bans(doing'[v], s)
        BY <1>5, <3>5
      <4> QED
        BY <4>1 DEF BanWaits, Bans
    <3> QED
      BY <3>1, <3>2, <3>3, <3>4, <3>5 DEF BanWaits
  <2> QED
    BY <2>1 DEF BanFollows
<1> QED
  BY <1>6, <1>10, <1>11, <1>12 DEF SessionInv

-----------------------------------------------------------------------------
(* An operation is taken.                                                  *)

(* The queue without its first operation.                                  *)
LEMMA Shifted ==
    ASSUME NEW S, NEW q \in Seq(S), q # <<>>
    PROVE  /\ Head(q) \in S /\ Head(q) = q[1] /\ 1 \in DOMAIN q
           /\ Tail(q) \in Seq(S)
           /\ \A i \in DOMAIN Tail(q) :
                  i + 1 \in DOMAIN q /\ i + 1 # 1 /\ i \in Nat /\ Tail(q)[i] = q[i + 1]
           /\ \A i \in DOMAIN q : i = 1 \/ \E j \in DOMAIN Tail(q) : Tail(q)[j] = q[i]
<1>1. /\ Len(q) \in Nat /\ DOMAIN q = 1 .. Len(q) /\ Len(q) # 0
  BY EmptySeq, LenProperties
<1>2. /\ Head(q) \in S /\ Head(q) = q[1] /\ Tail(q) \in Seq(S)
      /\ Len(Tail(q)) = Len(q) - 1
      /\ \A i \in 1 .. Len(Tail(q)) : Tail(q)[i] = q[i + 1]
  BY HeadTailProperties
<1>3. DOMAIN Tail(q) = 1 .. Len(q) - 1
  BY <1>2, LenProperties
<1>4. ASSUME NEW i \in DOMAIN q, i # 1
      PROVE  \E j \in DOMAIN Tail(q) : Tail(q)[j] = q[i]
  <2>1. i - 1 \in DOMAIN Tail(q) /\ (i - 1) + 1 = i
    BY <1>1, <1>3, <1>4
  <2>2. Tail(q)[i - 1] = q[(i - 1) + 1]
    BY <1>2, <1>3, <2>1
  <2> QED
    BY <2>1, <2>2
<1> QED
  BY <1>1, <1>2, <1>3, <1>4

(* An operation that is taken from the queue is with the worker.           *)
LEMMA TakenFromQueue ==
    ASSUME SessionTypes, SessionInv, NEW w \in Worker, doing[w] = Idle, queue # <<>>,
           doing' = [doing EXCEPT ![w] = Head(queue)], queue' = Tail(queue),
           UNCHANGED <<socket, urgent, account, banned_ips, failures>>
    PROVE  SessionTypes' /\ SessionInv'
<1>1. queue \in Seq(Operation)
  BY DEF SessionTypes
<1>2. /\ Head(queue) \in Operation /\ Head(queue) = queue[1] /\ 1 \in DOMAIN queue
      /\ queue' \in Seq(Operation)
      /\ \A i \in DOMAIN queue' :
             i + 1 \in DOMAIN queue /\ i + 1 # 1 /\ i \in Nat /\ queue'[i] = queue[i + 1]
      /\ \A i \in DOMAIN queue : i = 1 \/ \E j \in DOMAIN queue' : queue'[j] = queue[i]
  BY <1>1, Shifted
<1>3. /\ DoingTypes' /\ doing'[w] = queue[1]
      /\ \A v \in Worker : v # w => doing'[v] = doing[v]
  BY <1>2, DoingChanges DEF SessionTypes, IsDone
<1>4. ~Loads(doing[w]) /\ \A s \in Session : ~Bans(doing[w], s)
  BY IdleIsDone DEF Loads, Loading, Bans
<1>5. LoadsOnce'
  <2>1. ASSUME NEW i \in DOMAIN queue', NEW j \in DOMAIN queue',
               i # j, Loads(queue'[i]), Loads(queue'[j])
        PROVE  queue'[i].s # queue'[j].s
    <3>1. i + 1 # j + 1
      BY <1>2, <2>1
    <3> QED
      BY <1>2, <2>1, <3>1 DEF SessionInv, LoadsOnce
  <2>2. ASSUME NEW u \in Worker, NEW v \in Worker,
               u # v, Loads(doing'[u]), Loads(doing'[v])
        PROVE  doing'[u].s # doing'[v].s
    <3>1. CASE u = w
      BY <1>2, <1>3, <2>2, <3>1 DEF SessionInv, LoadsOnce
    <3>2. CASE v = w
      BY <1>2, <1>3, <2>2, <3>2 DEF SessionInv, LoadsOnce
    <3>3. CASE u # w /\ v # w
      BY <1>3, <2>2, <3>3 DEF SessionInv, LoadsOnce
    <3> QED
      BY <3>1, <3>2, <3>3
  <2>3. ASSUME NEW i \in DOMAIN queue', NEW v \in Worker,
               Loads(queue'[i]), Loads(doing'[v])
        PROVE  queue'[i].s # doing'[v].s
    <3>1. CASE v = w
      <4>1. PICK k \in DOMAIN queue : k = i + 1 /\ k # 1 /\ queue'[i] = queue[k]
        BY <1>2
      <4>2. Loads(queue[k]) /\ Loads(queue[1]) /\ doing'[v] = queue[1] /\ 1 \in DOMAIN queue
        BY <1>2, <1>3, <2>3, <3>1, <4>1
      <4>3. queue[k].s # queue[1].s
        BY <4>1, <4>2 DEF SessionInv, LoadsOnce
      <4> QED
        BY <4>1, <4>2, <4>3
    <3>2. CASE v # w
      BY <1>2, <1>3, <2>3, <3>2 DEF SessionInv, LoadsOnce
    <3> QED
      BY <3>1, <3>2
  <2> QED
    BY <2>1, <2>2, <2>3 DEF LoadsOnce, Loads
<1>6. ASSUME NEW s \in Session, IsLoading(s)'
      PROVE  IsLoading(s)
  <2>1. \/ \E i \in DOMAIN queue' : LoadsFor(queue'[i], s)
        \/ \E v \in Worker : LoadsFor(doing'[v], s)
    BY <1>6 DEF IsLoading, LoadsFor, Loads
  <2> QED
    BY <1>2, <1>3, <2>1 DEF IsLoading
<1>7. ASSUME NEW s \in Session, BanWaits(s)
      PROVE  BanWaits(s)'
  <2>1. \/ \E i \in DOMAIN queue' : Bans(queue'[i], s)
        \/ \E v \in Worker : Bans(doing'[v], s)
    BY <1>2, <1>3, <1>4, <1>7 DEF BanWaits
  <2> QED
    BY <2>1 DEF BanWaits, Bans
<1>8. CounterOfLoad'
  BY <1>6 DEF SessionInv, CounterOfLoad, Challengeable
<1>9. BanFollows'
  <2>1. ASSUME failures' = 0, NEW s \in Session, FailedTooOften(s)'
        PROVE  Banned(s)' \/ BanWaits(s)'
    <3>1. Banned(s) \/ BanWaits(s)
      BY <2>1 DEF SessionInv, BanFollows, FailedTooOften
    <3>2. Banned(s) => Banned(s)'
      BY DEF Banned
    <3> QED
      BY <1>7, <3>1, <3>2
  <2> QED
    BY <2>1 DEF BanFollows
<1>10. SessionTypes'
  BY <1>2, <1>3 DEF SessionTypes
<1> QED
  BY <1>5, <1>8, <1>9, <1>10 DEF SessionInv

(* The emptying of s and v goes first.                                     *)
LEMMA Dequeued ==
    ASSUME SessionTypes, SessionInv, NEW w \in Worker, dequeue(w)
    PROVE  SessionTypes' /\ SessionInv'
<1>1. doing[w] = Idle /\ UNCHANGED <<socket, account, banned_ips, failures>>
  BY DEF dequeue, database, history
<1>2. CASE /\ urgent # <<>> /\ doing' = [doing EXCEPT ![w] = Head(urgent)]
           /\ urgent' = Tail(urgent) /\ queue' = queue
  <2>1. urgent \in Seq(Emptying)
    BY DEF SessionTypes
  <2>2. Head(urgent) \in Emptying /\ urgent' \in Seq(Emptying)
    BY <1>2, <2>1, Shifted
  <2>3. PICK o \in Emptying : o = Head(urgent)
    BY <2>2
  <2>4. o \in Operation /\ o.op = "fix_sv"
    BY DEF Emptying, Operation, Statement
  <2>5. IsDone(o) /\ ~Loads(o)
    BY <2>4 DEF IsDone, Loads, Loading
  <2>6. QueueGrows
    BY <1>2, SameGrows
  <2>7. failures' \in Nat /\ socket' \in [Session -> Members]
    BY <1>1 DEF SessionTypes
  <2>8. doing[w].op # "ban_failed_logins"
    BY <1>1, IdleIsDone
  <2>9. \A t \in Session :
            /\ socket'[t].wrong = socket[t].wrong /\ socket'[t].failed = socket[t].failed
            /\ socket'[t].state = "CONNECTED" /\ socket'[t].handling = "" => Challengeable(t)
    BY <1>1 DEF Challengeable
  <2> QED
    BY <1>1, <1>2, <2>2, <2>3, <2>5, <2>6, <2>7, <2>8, <2>9, WorkerStepCalm
<1>3. CASE /\ queue # <<>> /\ doing' = [doing EXCEPT ![w] = Head(queue)]
           /\ queue' = Tail(queue) /\ urgent' = urgent
  BY <1>1, <1>3, TakenFromQueue
<1> QED
  BY <1>2, <1>3 DEF dequeue

-----------------------------------------------------------------------------
(* Loads.                                                                  *)

(* A load begins, or goes on as the next query of the logon, for a session *)
(* that has no other.                                                      *)
LEMMA LoadAppended ==
    ASSUME SessionTypes, LoadsOnce, NEW s \in Session, NEW o \in Operation, o.s = s,
           queue' = Append(queue, o),
           \A i \in DOMAIN queue : Loads(queue[i]) => queue[i].s # s,
           \A v \in Worker : Loads(doing'[v]) => doing'[v] = doing[v] /\ doing[v].s # s
    PROVE  /\ queue' \in Seq(Operation)
           /\ LoadsOnce'
           /\ \A t \in Session : t # s /\ IsLoading(t)' => IsLoading(t)
           /\ \A i \in DOMAIN queue : i \in DOMAIN queue' /\ queue'[i] = queue[i]
<1>1. queue \in Seq(Operation)
  BY DEF SessionTypes
<1>2. PICK last : last = Len(queue) + 1
  OBVIOUS
<1>3. /\ queue' \in Seq(Operation)
      /\ \A i \in DOMAIN queue : i \in DOMAIN queue' /\ queue'[i] = queue[i]
      /\ \A i \in DOMAIN queue' : i \in DOMAIN queue \/ (i = last /\ queue'[i] = o)
  BY <1>1, <1>2, AppendProperties, LenProperties
<1>4. LoadsOnce'
  <2>1. ASSUME NEW i \in DOMAIN queue', NEW j \in DOMAIN queue',
               i # j, Loads(queue'[i]), Loads(queue'[j])
        PROVE  queue'[i].s # queue'[j].s
    BY <1>3, <2>1 DEF LoadsOnce
  <2>2. ASSUME NEW u \in Worker, NEW v \in Worker,
               u # v, Loads(doing'[u]), Loads(doing'[v])
        PROVE  doing'[u].s # doing'[v].s
    BY <2>2 DEF LoadsOnce
  <2>3. ASSUME NEW i \in DOMAIN queue', NEW v \in Worker,
               Loads(queue'[i]), Loads(doing'[v])
        PROVE  queue'[i].s # doing'[v].s
    BY <1>3, <2>3 DEF LoadsOnce
  <2> QED
    BY <2>1, <2>2, <2>3 DEF LoadsOnce, Loads
<1>5. ASSUME NEW t \in Session, t # s, IsLoading(t)'
      PROVE  IsLoading(t)
  <2>1. \/ \E i \in DOMAIN queue' : LoadsFor(queue'[i], t)
        \/ \E v \in Worker : LoadsFor(doing'[v], t)
    BY <1>5 DEF IsLoading, LoadsFor, Loads
  <2> QED
    BY <1>3, <1>5, <2>1 DEF IsLoading, LoadsFor
<1> QED
  BY <1>3, <1>4, <1>5

(* A logon challenge.                                                      *)
LEMMA LogonChallenge ==
    ASSUME SessionTypes, SessionInv, NEW s \in Session, NEW name \in {"account", "unknown"},
           handle_auth_logon_challenge(s, name)
    PROVE  SessionTypes' /\ SessionInv'
<1>1. PICK login \in Logins : login = appended(s, name)
  BY NamesAreLogins
<1>2. PICK o : o = [op |-> "check_ip_ban", s |-> s, login |-> login]
  OBVIOUS
<1>3. /\ socket' = [socket EXCEPT ![s].login = login, ![s].handling = "logon"]
      /\ queue' = Append(queue, o)
      /\ UNCHANGED <<urgent, doing, account, banned_ips, failures>>
      /\ Challengeable(s)
  BY <1>1, <1>2
     DEF handle_auth_logon_challenge, Challenged, Readable, Challengeable, database, history
<1>4. o \in Operation /\ o.op = "check_ip_ban" /\ o.s = s
  BY <1>2 DEF Operation, Query
<1>5. /\ socket' \in [Session -> Members] /\ socket'[s].handling = "logon"
      /\ socket'[s].wrong = socket[s].wrong /\ socket'[s].failed = socket[s].failed
      /\ \A t \in Session : t # s => socket'[t] = socket[t]
  BY <1>3, LoginMembers
<1>6. socket[s].failed < 0 /\ ~IsLoading(s) /\ LoadsOnce
  BY <1>3 DEF SessionInv, CounterOfLoad
<1>7. /\ queue' \in Seq(Operation)
      /\ LoadsOnce'
      /\ \A t \in Session : t # s /\ IsLoading(t)' => IsLoading(t)
      /\ \A i \in DOMAIN queue : i \in DOMAIN queue' /\ queue'[i] = queue[i]
  <2>1. /\ \A i \in DOMAIN queue : Loads(queue[i]) => queue[i].s # s
        /\ \A v \in Worker : Loads(doing'[v]) => doing'[v] = doing[v] /\ doing[v].s # s
    BY <1>3, <1>6 DEF IsLoading, LoadsFor
  <2> QED
    BY <1>3, <1>4, <1>6, <2>1, LoadAppended
<1>8. CounterOfLoad'
  <2>1. ASSUME NEW t \in Session
        PROVE  /\ socket'[t].wrong => socket'[t].failed >= 0
               /\ IsLoading(t)' => socket'[t].failed < 0
               /\ Challengeable(t)' => socket'[t].failed < 0 /\ ~IsLoading(t)'
    <3>1. CASE t = s
      BY <1>5, <1>6, <3>1 DEF SessionInv, CounterOfLoad, Challengeable
    <3>2. CASE t # s
      BY <1>5, <1>7, <3>2 DEF SessionInv, CounterOfLoad, Challengeable
    <3> QED
      BY <3>1, <3>2
  <2> QED
    BY <2>1 DEF CounterOfLoad
<1>9. BanFollows'
  <2>1. ASSUME failures' = 0, NEW t \in Session, FailedTooOften(t)'
        PROVE  Banned(t)' \/ BanWaits(t)'
    <3>1. FailedTooOften(t)
      BY <1>5, <2>1 DEF FailedTooOften
    <3>2. Banned(t) \/ BanWaits(t)
      BY <1>3, <2>1, <3>1 DEF SessionInv, BanFollows
    <3>3. Banned(t) => Banned(t)'
      BY <1>3 DEF Banned
    <3>4. BanWaits(t) => BanWaits(t)'
      <4>1. SUFFICES ASSUME BanWaits(t)
                     PROVE  \/ \E i \in DOMAIN queue' : Bans(queue'[i], t)
                            \/ \E w \in Worker : Bans(doing'[w], t)
        BY DEF BanWaits, Bans
      <4> QED
        BY <1>3, <1>7, <4>1 DEF BanWaits
    <3> QED
      BY <3>2, <3>3, <3>4
  <2> QED
    BY <2>1 DEF BanFollows
<1>10. SessionTypes'
  <2>1. DoingTypes'
    BY <1>3 DEF SessionTypes, DoingTypes, IsDone, IsAnswer
  <2> QED
    BY <1>3, <1>5, <1>7, <2>1 DEF SessionTypes
<1> QED
  BY <1>7, <1>8, <1>9, <1>10 DEF SessionInv

(* The second query of a logon takes the place of the first.               *)
LEMMA IpBanChecked ==
    ASSUME SessionTypes, SessionInv, NEW w \in Worker, ip_ban_checked(w)
    PROVE  SessionTypes' /\ SessionInv'
<1>1. PICK s \in Session : s = doing[w].s
  BY CallbackIs DEF ip_ban_checked, CallsBack
<1>2. /\ doing' = [doing EXCEPT ![w] = Idle]
      /\ doing[w].op = "callback" /\ doing[w].of = "check_ip_ban"
      /\ UNCHANGED <<urgent, account, banned_ips, failures>>
      /\ queue' = Append(queue, Op("get_account", s)) \/ queue' = queue
      /\ \E banned : socket' = [socket EXCEPT ![s].answered = @ \/ banned]
  BY <1>1 DEF ip_ban_checked, CallsBack, database, history
<1>3. /\ socket' \in [Session -> Members]
      /\ socket'[s].state = socket[s].state /\ socket'[s].handling = socket[s].handling
      /\ socket'[s].wrong = socket[s].wrong /\ socket'[s].failed = socket[s].failed
      /\ \A t \in Session : t # s => socket'[t] = socket[t]
  <2>1. PICK banned : socket' = [socket EXCEPT ![s].answered = @ \/ banned]
    BY <1>2
  <2>2. PICK b : b = (socket[s].answered \/ banned)
    OBVIOUS
  <2>3. b \in BOOLEAN
    BY <2>2
  <2>4. socket' = [socket EXCEPT ![s].answered = b]
    BY <2>1, <2>2 DEF SessionTypes
  <2> QED
    BY <2>3, <2>4, ListedMembers
<1>4. ~Loads(Idle) /\ failures' \in Nat /\ (failures' = 0 => failures = 0)
      /\ urgent' \in Seq(Emptying)
  BY <1>2, IdleIsDone DEF Loads, Loading, SessionTypes
<1>5. \A t \in Session :
          /\ socket'[t].wrong = socket[t].wrong /\ socket'[t].failed = socket[t].failed
          /\ socket'[t].state = "CONNECTED" /\ socket'[t].handling = "" => Challengeable(t)
  BY <1>3 DEF Challengeable
<1>6. CASE queue' = queue
  <2>1. QueueGrows
    BY <1>6, SameGrows
  <2> QED
    BY <1>2, <1>3, <1>4, <1>5, <2>1, IdleIsDone, WorkerStepCalm
<1>7. CASE queue' = Append(queue, Op("get_account", s))
  <2>1. /\ DoingTypes' /\ doing'[w] = Idle
        /\ \A v \in Worker : v # w => doing'[v] = doing[v]
    BY <1>2, IdleIsDone, DoingChanges DEF SessionTypes
  <2>2. LoadsFor(doing[w], s) /\ LoadsOnce
    BY <1>1, <1>2 DEF LoadsFor, Loads, Loading, SessionInv
  <2>3. Op("get_account", s) \in Operation /\ Op("get_account", s).s = s
    BY OpIsOperation DEF Query
  <2>4. /\ queue' \in Seq(Operation)
        /\ LoadsOnce'
        /\ \A t \in Session : t # s /\ IsLoading(t)' => IsLoading(t)
        /\ \A i \in DOMAIN queue : i \in DOMAIN queue' /\ queue'[i] = queue[i]
    <3>1. /\ \A i \in DOMAIN queue : Loads(queue[i]) => queue[i].s # s
          /\ \A v \in Worker : Loads(doing'[v]) => doing'[v] = doing[v] /\ doing[v].s # s
      BY <1>4, <2>1, <2>2 DEF LoadsOnce, LoadsFor
    <3> QED
      BY <1>7, <2>2, <2>3, <3>1, LoadAppended
  <2>5. IsLoading(s)
    BY <2>2 DEF IsLoading
  <2>6. CounterOfLoad'
    <3>1. ASSUME NEW t \in Session
          PROVE  /\ socket'[t].wrong => socket'[t].failed >= 0
                 /\ IsLoading(t)' => socket'[t].failed < 0
                 /\ Challengeable(t)' => socket'[t].failed < 0 /\ ~IsLoading(t)'
      <4>1. CASE t = s
        BY <1>5, <2>5, <4>1 DEF SessionInv, CounterOfLoad, Challengeable
      <4>2. CASE t # s
        BY <1>5, <2>4, <4>2 DEF SessionInv, CounterOfLoad, Challengeable
      <4> QED
        BY <4>1, <4>2
    <3> QED
      BY <3>1 DEF CounterOfLoad
  <2>7. BanFollows'
    <3>1. ASSUME failures' = 0, NEW t \in Session, FailedTooOften(t)'
          PROVE  Banned(t)' \/ BanWaits(t)'
      <4>1. FailedTooOften(t)
        BY <1>5, <3>1 DEF FailedTooOften
      <4>2. Banned(t) \/ BanWaits(t)
        BY <1>2, <3>1, <4>1 DEF SessionInv, BanFollows
      <4>3. Banned(t) => Banned(t)'
        BY <1>2 DEF Banned
      <4>4. BanWaits(t) => BanWaits(t)'
        <5>1. SUFFICES ASSUME BanWaits(t)
                       PROVE  \/ \E i \in DOMAIN queue' : Bans(queue'[i], t)
                              \/ \E v \in Worker : Bans(doing'[v], t)
          BY DEF BanWaits, Bans
        <5>2. ~Bans(doing[w], t)
          BY <1>2 DEF Bans
        <5> QED
          BY <2>1, <2>4, <5>1, <5>2 DEF BanWaits
      <4> QED
        BY <4>2, <4>3, <4>4
    <3> QED
      BY <3>1 DEF BanFollows
  <2>8. SessionTypes'
    BY <1>2, <1>3, <1>4, <2>1, <2>4 DEF SessionTypes
  <2> QED
    BY <2>4, <2>6, <2>7, <2>8 DEF SessionInv
<1> QED
  BY <1>2, <1>6, <1>7

(* The load ends, with a count or without.                                 *)
LEMMA AccountChecked ==
    ASSUME SessionTypes, SessionInv, NEW w \in Worker, account_checked(w)
    PROVE  SessionTypes' /\ SessionInv'
<1>1. PICK s \in Session : s = doing[w].s
  BY CallbackIs DEF account_checked, CallsBack
<1>2. /\ doing' = [doing EXCEPT ![w] = Idle]
      /\ doing[w].op = "callback" /\ doing[w].of = "get_account"
      /\ UNCHANGED <<account, banned_ips, failures>>
  BY DEF account_checked, CallsBack, database
<1>3. LoadsFor(doing[w], s) /\ IsLoading(s)
  BY <1>1, <1>2 DEF LoadsFor, Loads, Loading, IsLoading
<1>4. socket[s].failed < 0 /\ ~socket[s].wrong /\ ~Challengeable(s) /\ socket[s].failed \in Counter
  <2>1. socket[s].failed \in Counter
    BY DEF SessionTypes, Members
  <2>2. /\ socket[s].wrong => socket[s].failed >= 0
        /\ socket[s].failed < 0
        /\ Challengeable(s) => ~IsLoading(s)
    BY <1>3 DEF SessionInv, CounterOfLoad
  <2>3. socket[s].failed \in Int
    BY <2>1, CounterValues, SessionAssumption
  <2> QED
    BY <1>3, <2>1, <2>2, <2>3
<1>5. PICK failed \in Counter, answered \in BOOLEAN, challenged \in BOOLEAN :
          socket' = [socket EXCEPT ![s].answered = answered, ![s].failed = failed,
                                   ![s].challenged = challenged]
  <2>1. PICK exists, challenge :
            /\ socket' = [socket EXCEPT
                  ![s].answered = TRUE,
                  ![s].failed = IF exists THEN as_uint8(doing[w].result.failed) ELSE @,
                  ![s].challenged = @ \/ challenge]
            /\ exists <=> doing[w].result.is = "EXISTS"
    BY <1>1 DEF account_checked
  <2>2. PICK f : f = IF exists THEN as_uint8(doing[w].result.failed) ELSE socket[s].failed
    OBVIOUS
  <2>3. f \in Counter
    <3>1. exists => doing[w].result.failed \in Nat
      BY <1>2, <2>1, CallbackIs DEF IsAnswer
    <3> QED
      BY <1>4, <2>2, <3>1, CounterValues, SessionAssumption
  <2>4. PICK c : c = (socket[s].challenged \/ challenge)
    OBVIOUS
  <2>5. c \in BOOLEAN
    BY <2>4
  <2>6. socket' = [socket EXCEPT ![s].answered = TRUE, ![s].failed = f, ![s].challenged = c]
    BY <2>1, <2>2, <2>4 DEF SessionTypes
  <2> QED
    BY <2>3, <2>5, <2>6
<1>6. /\ socket' \in [Session -> Members]
      /\ socket'[s].state = socket[s].state /\ socket'[s].handling = socket[s].handling
      /\ socket'[s].wrong = socket[s].wrong
      /\ \A t \in Session : t # s => socket'[t] = socket[t]
  BY <1>5, CheckedMembers
<1>7. QueueGrows /\ urgent' \in Seq(Emptying)
  <2>1. CASE set_vs(s, 1)
    BY <2>1, SetVsGrows
  <2>2. CASE queue' = queue /\ urgent' = urgent
    BY <2>2, SameGrows DEF SessionTypes
  <2> QED
    BY <1>1, <2>1, <2>2 DEF account_checked
<1>8. /\ DoingTypes' /\ doing'[w] = Idle
      /\ \A v \in Worker : v # w => doing'[v] = doing[v]
  BY <1>2, IdleIsDone, DoingChanges DEF SessionTypes
<1>9. ~Loads(Idle) /\ \A t \in Session : ~Bans(doing[w], t)
  BY <1>2, IdleIsDone DEF Loads, Loading, Bans
<1>10. DoingKeeps
  BY <1>8, <1>9 DEF DoingKeeps
<1>11. /\ LoadsOnce'
       /\ \A t \in Session : IsLoading(t)' => IsLoading(t)
       /\ \A t \in Session : failures' = 0 /\ BanWaits(t) => BanWaits(t)'
  BY <1>7, <1>10, CalmStep DEF SessionInv
<1>12. CounterOfLoad'
  <2>1. ~IsLoading(s)'
    <3>1. SUFFICES ASSUME \/ \E i \in DOMAIN queue' : LoadsFor(queue'[i], s)
                          \/ \E v \in Worker : LoadsFor(doing'[v], s)
                   PROVE  FALSE
      BY DEF IsLoading, LoadsFor, Loads
    <3>2. ASSUME NEW i \in DOMAIN queue', LoadsFor(queue'[i], s)
          PROVE  FALSE
      <4>1. i \in DOMAIN queue /\ queue'[i] = queue[i]
        BY <1>7, <3>2 DEF QueueGrows, LoadsFor
      <4> QED
        BY <1>3, <3>2, <4>1 DEF SessionInv, LoadsOnce, LoadsFor
    <3>3. ASSUME NEW v \in Worker, LoadsFor(doing'[v], s)
          PROVE  FALSE
      <4>1. v # w /\ doing'[v] = doing[v]
        BY <1>8, <1>9, <3>3 DEF LoadsFor
      <4> QED
        BY <1>3, <3>3, <4>1 DEF SessionInv, LoadsOnce, LoadsFor
    <3> QED
      BY <3>1, <3>2, <3>3
  <2>2. ASSUME NEW t \in Session
        PROVE  /\ socket'[t].wrong => socket'[t].failed >= 0
               /\ IsLoading(t)' => socket'[t].failed < 0
               /\ Challengeable(t)' => socket'[t].failed < 0 /\ ~IsLoading(t)'
    <3>1. CASE t = s
      BY <1>4, <1>6, <2>1, <3>1 DEF Challengeable
    <3>2. CASE t # s
      BY <1>6, <1>11, <3>2 DEF SessionInv, CounterOfLoad, Challengeable
    <3> QED
      BY <3>1, <3>2
  <2> QED
    BY <2>2 DEF CounterOfLoad
<1>13. BanFollows'
  <2>1. ASSUME failures' = 0, NEW t \in Session, FailedTooOften(t)'
        PROVE  Banned(t)' \/ BanWaits(t)'
    <3>1. t # s
      BY <1>4, <1>6, <2>1 DEF FailedTooOften
    <3>2. FailedTooOften(t)
      BY <1>6, <2>1, <3>1 DEF FailedTooOften
    <3>3. Banned(t) \/ BanWaits(t)
      BY <1>2, <2>1, <3>2 DEF SessionInv, BanFollows
    <3>4. Banned(t) => Banned(t)'
      BY <1>2 DEF Banned
    <3> QED
      BY <1>11, <2>1, <3>3, <3>4
  <2> QED
    BY <2>1 DEF BanFollows
<1>14. SessionTypes'
  BY <1>2, <1>6, <1>7, <1>8 DEF SessionTypes, QueueGrows
<1> QED
  BY <1>11, <1>12, <1>13, <1>14 DEF SessionInv

(* A session begins without a count; its slot is free of loads.            *)
LEMMA Opened ==
    ASSUME SessionTypes, SessionInv, NEW s \in Session, open(s)
    PROVE  SessionTypes' /\ SessionInv'
<1>1. queue' = queue /\ UNCHANGED <<urgent, doing, account, banned_ips, failures>>
  BY DEF open, database, history
<1>2. /\ socket' \in [Session -> Members]
      /\ socket'[s].failed = -1 /\ socket'[s].wrong = FALSE
      /\ \A t \in Session : t # s => socket'[t] = socket[t]
  BY OpenMembers
<1>3. ~IsLoading(s)
  <2>1. ~Waits(s, Query \union {"callback"})
    BY DEF open, Freed
  <2>2. ASSUME NEW o, LoadsFor(o, s)
        PROVE  o.op \in Query \union {"callback"} /\ o.s = s
    BY <2>2 DEF LoadsFor, Loads, Loading, Query
  <2>3. IsLoading(s) => \/ \E i \in DOMAIN queue :
                              queue[i].op \in Query \union {"callback"} /\ queue[i].s = s
                        \/ \E v \in Worker :
                              doing[v].op \in Query \union {"callback"} /\ doing[v].s = s
    BY <2>2 DEF IsLoading
  <2> QED
    BY <2>1, <2>3 DEF Waits
<1>4. QueueGrows
  BY <1>1, SameGrows
<1>5. DoingKeeps
  BY <1>1 DEF DoingKeeps
<1>6. /\ LoadsOnce'
      /\ \A t \in Session : IsLoading(t)' => IsLoading(t)
      /\ \A t \in Session : failures' = 0 /\ BanWaits(t) => BanWaits(t)'
  BY <1>4, <1>5, CalmStep DEF SessionInv
<1>7. CounterOfLoad'
  <2>1. ASSUME NEW t \in Session
        PROVE  /\ socket'[t].wrong => socket'[t].failed >= 0
               /\ IsLoading(t)' => socket'[t].failed < 0
               /\ Challengeable(t)' => socket'[t].failed < 0 /\ ~IsLoading(t)'
    <3>1. CASE t = s
      BY <1>2, <1>3, <1>6, <3>1
    <3>2. CASE t # s
      BY <1>2, <1>6, <3>2 DEF SessionInv, CounterOfLoad, Challengeable
    <3> QED
      BY <3>1, <3>2
  <2> QED
    BY <2>1 DEF CounterOfLoad
<1>8. BanFollows'
  <2>1. ASSUME failures' = 0, NEW t \in Session, FailedTooOften(t)'
        PROVE  Banned(t)' \/ BanWaits(t)'
    <3>1. t # s
      BY <1>2, <2>1 DEF FailedTooOften
    <3>2. Banned(t) \/ BanWaits(t)
      BY <1>1, <1>2, <2>1, <3>1 DEF SessionInv, BanFollows, FailedTooOften
    <3>3. Banned(t) => Banned(t)'
      BY <1>1 DEF Banned
    <3> QED
      BY <1>6, <2>1, <3>2, <3>3
  <2> QED
    BY <2>1 DEF BanFollows
<1>9. SessionTypes'
  <2>1. DoingTypes'
    BY <1>1 DEF SessionTypes, DoingTypes, IsDone, IsAnswer
  <2> QED
    BY <1>1, <1>2, <2>1 DEF SessionTypes
<1> QED
  BY <1>6, <1>7, <1>8, <1>9 DEF SessionInv

(* A failure is counted; above the limit a ban is enqueued with it.        *)
LEMMA WrongProof ==
    ASSUME SessionTypes, SessionInv, NEW s \in Session, wrong_proof(s)
    PROVE  SessionTypes' /\ SessionInv'
<1>1. /\ socket[s].state = "NEED_PROOF"
      /\ UNCHANGED <<urgent, doing, account, banned_ips, failures>>
  BY DEF wrong_proof, database
<1>2. PICK loaded \in BOOLEAN : loaded <=> socket[s].failed >= 0
  <2>1. CASE socket[s].failed >= 0
    BY <2>1
  <2>2. CASE ~(socket[s].failed >= 0)
    BY <2>2
  <2> QED
    BY <2>1, <2>2
<1>3. socket[s].failed \in Counter /\ socket[s].failed \in Int
  BY CounterValues, SessionAssumption DEF SessionTypes, Members
<1>4. PICK failed \in Counter :
          /\ failed = IF loaded THEN as_uint8(socket[s].failed + 1) ELSE socket[s].failed
          /\ loaded => failed >= 0
  <2>1. loaded => socket[s].failed + 1 \in Nat
    BY <1>2, <1>3, CounterValues, SessionAssumption
  <2> QED
    BY <1>3, <2>1, CounterValues, SessionAssumption
<1>5. PICK hits \in BOOLEAN, bans \in BOOLEAN :
          LET increment == IF hits THEN <<Op("increment_failed_logins", s)>> ELSE <<>>
              ban == IF bans /\ (hits \/ BanByIp)
                     THEN <<Op("ban_failed_logins", s)>> ELSE <<>>
          IN  /\ loaded => hits /\ (bans <=> above_limit(failed))
              /\ socket' = [socket EXCEPT ![s].wrong = @ \/ loaded, ![s].failed = failed]
              /\ queue' = queue \o increment \o ban
  BY <1>2, <1>4 DEF wrong_proof
<1>6. PICK increment, ban :
          /\ increment = IF hits THEN <<Op("increment_failed_logins", s)>> ELSE <<>>
          /\ ban = IF bans /\ (hits \/ BanByIp) THEN <<Op("ban_failed_logins", s)>> ELSE <<>>
          /\ queue' = (queue \o increment) \o ban
  BY <1>5
<1>7. /\ Op("increment_failed_logins", s) \in Operation
      /\ Op("increment_failed_logins", s).op = "increment_failed_logins"
      /\ Op("ban_failed_logins", s) \in Operation
      /\ Op("ban_failed_logins", s).op = "ban_failed_logins"
      /\ Op("ban_failed_logins", s).s = s
  BY OpIsOperation DEF Statement
<1>8. /\ increment \in Seq(Operation)
      /\ \A j \in DOMAIN increment : increment[j] = Op("increment_failed_logins", s)
  BY <1>6, <1>7
<1>9. /\ ban \in Seq(Operation)
      /\ \A j \in DOMAIN ban : ban[j] = Op("ban_failed_logins", s)
      /\ bans /\ hits => 1 \in DOMAIN ban
  BY <1>6, <1>7
<1>10. PICK half :
           /\ half = queue \o increment /\ half \in Seq(Operation)
           /\ \A i \in DOMAIN queue : i \in DOMAIN half /\ half[i] = queue[i]
           /\ \A i \in DOMAIN half :
                  i \in DOMAIN queue \/ half[i] = Op("increment_failed_logins", s)
  <2>1. queue \in Seq(Operation)
    BY DEF SessionTypes
  <2>2. PICK u : u = queue \o increment
    OBVIOUS
  <2>3. /\ u \in Seq(Operation)
        /\ \A i \in DOMAIN queue : i \in DOMAIN u /\ u[i] = queue[i]
        /\ \A i \in DOMAIN u :
               i \in DOMAIN queue \/ \E j \in DOMAIN increment : u[i] = increment[j]
    BY <1>8, <2>1, <2>2, Behind
  <2> QED
    BY <1>8, <2>2, <2>3
<1>11. /\ queue' \in Seq(Operation)
       /\ \A i \in DOMAIN half : i \in DOMAIN queue' /\ queue'[i] = half[i]
       /\ \A i \in DOMAIN queue' :
              i \in DOMAIN half \/ queue'[i] = Op("ban_failed_logins", s)
       /\ bans /\ hits => \E i \in DOMAIN queue' : queue'[i] = Op("ban_failed_logins", s)
  <2>1. half \in Seq(Operation) /\ ban \in Seq(Operation) /\ queue' = half \o ban
    BY <1>6, <1>9, <1>10
  <2>2. /\ queue' \in Seq(Operation)
        /\ \A i \in DOMAIN half : i \in DOMAIN queue' /\ queue'[i] = half[i]
        /\ \A i \in DOMAIN queue' :
               i \in DOMAIN half \/ \E j \in DOMAIN ban : queue'[i] = ban[j]
        /\ \A j \in DOMAIN ban : \E i \in DOMAIN queue' : queue'[i] = ban[j]
    <3>1. PICK u : u = half \o ban
      OBVIOUS
    <3>2. /\ u \in Seq(Operation)
          /\ \A i \in DOMAIN half : i \in DOMAIN u /\ u[i] = half[i]
          /\ \A i \in DOMAIN u :
                 i \in DOMAIN half \/ \E j \in DOMAIN ban : u[i] = ban[j]
          /\ \A j \in DOMAIN ban : \E i \in DOMAIN u : u[i] = ban[j]
      BY <2>1, <3>1, Behind
    <3> QED
      BY <2>1, <3>1, <3>2
  <2> QED
    BY <1>9, <2>2
<1>12. QueueGrows
  <2>1. ~Loads(Op("increment_failed_logins", s)) /\ ~Loads(Op("ban_failed_logins", s))
    BY <1>7 DEF Loads, Loading
  <2> QED
    BY <1>10, <1>11, <2>1 DEF QueueGrows
<1>13. DoingKeeps
  BY <1>1 DEF DoingKeeps
<1>14. /\ LoadsOnce'
       /\ \A t \in Session : IsLoading(t)' => IsLoading(t)
       /\ \A t \in Session : failures' = 0 /\ BanWaits(t) => BanWaits(t)'
  BY <1>12, <1>13, CalmStep DEF SessionInv
<1>15. /\ socket' \in [Session -> Members]
       /\ socket'[s].state = socket[s].state
       /\ socket'[s].wrong = (socket[s].wrong \/ loaded) /\ socket'[s].failed = failed
       /\ \A t \in Session : t # s => socket'[t] = socket[t]
  <2>1. socket' = [socket EXCEPT ![s].wrong = @ \/ loaded, ![s].failed = failed]
    BY <1>5
  <2>2. PICK wrong : wrong = (socket[s].wrong \/ loaded)
    OBVIOUS
  <2>3. wrong \in BOOLEAN
    BY <2>2
  <2>4. socket \in [Session -> Members]
    BY DEF SessionTypes
  <2>5. socket' = [socket EXCEPT ![s].wrong = wrong, ![s].failed = failed]
    BY <2>1, <2>2, <2>4
  <2>6. /\ socket' \in [Session -> Members]
        /\ socket'[s].state = socket[s].state
        /\ socket'[s].wrong = wrong /\ socket'[s].failed = failed
        /\ \A t \in Session : t # s => socket'[t] = socket[t]
    BY <2>3, <2>5, WrongMembers
  <2> QED
    BY <2>2, <2>6
<1>16. /\ socket[s].wrong => socket[s].failed >= 0
       /\ IsLoading(s) => socket[s].failed < 0
  BY DEF SessionInv, CounterOfLoad
<1>17. CounterOfLoad'
  <2>1. ASSUME NEW t \in Session
        PROVE  /\ socket'[t].wrong => socket'[t].failed >= 0
               /\ IsLoading(t)' => socket'[t].failed < 0
               /\ Challengeable(t)' => socket'[t].failed < 0 /\ ~IsLoading(t)'
    <3>1. CASE t = s
      <4>1. socket'[t].wrong => socket'[t].failed >= 0
        BY <1>2, <1>3, <1>4, <1>15, <1>16, <3>1
      <4>2. IsLoading(t)' => socket'[t].failed < 0
        BY <1>2, <1>3, <1>4, <1>14, <1>15, <1>16, <3>1
      <4>3. ~Challengeable(t)'
        BY <1>1, <1>15, <3>1 DEF Challengeable
      <4> QED
        BY <4>1, <4>2, <4>3
    <3>2. CASE t # s
      BY <1>14, <1>15, <3>2 DEF SessionInv, CounterOfLoad, Challengeable
    <3> QED
      BY <3>1, <3>2
  <2> QED
    BY <2>1 DEF CounterOfLoad
<1>18. BanFollows'
  <2>1. ASSUME failures' = 0, NEW t \in Session, FailedTooOften(t)'
        PROVE  Banned(t)' \/ BanWaits(t)'
    <3>1. CASE t = s
      <4>1. loaded
        BY <1>2, <1>15, <1>16, <2>1, <3>1 DEF FailedTooOften
      <4>2. above_limit(failed)
        BY <1>15, <2>1, <3>1 DEF FailedTooOften, above_limit
      <4>3. bans /\ hits
        BY <1>5, <4>1, <4>2
      <4>4. \E i \in DOMAIN queue' : Bans(queue'[i], s)
        BY <1>7, <1>11, <4>3 DEF Bans
      <4> QED
        BY <3>1, <4>4 DEF BanWaits, Bans
    <3>2. CASE t # s
      <4>1. Banned(t) \/ BanWaits(t)
        BY <1>1, <1>15, <2>1, <3>2 DEF SessionInv, BanFollows, FailedTooOften
      <4>2. Banned(t) => Banned(t)'
        BY <1>1 DEF Banned
      <4> QED
        BY <1>14, <2>1, <4>1, <4>2
    <3> QED
      BY <3>1, <3>2
  <2> QED
    BY <2>1 DEF BanFollows
<1>19. SessionTypes'
  <2>1. DoingTypes'
    BY <1>1 DEF SessionTypes, DoingTypes, IsDone, IsAnswer
  <2> QED
    BY <1>1, <1>11, <1>15, <2>1 DEF SessionTypes
<1> QED
  BY <1>14, <1>17, <1>18, <1>19 DEF SessionInv

-----------------------------------------------------------------------------
(* The result.                                                             *)

(* A process that was just started.                                        *)
Fresh ==
    /\ socket = [s \in Session |-> Closed]
    /\ urgent = <<>>
    /\ queue = <<>>
    /\ doing = [w \in Worker |-> Idle]
    /\ account \in Row
    /\ failures \in Nat

(* Nothing is loaded, nobody has failed.                                   *)
LEMMA FreshInv == Fresh => SessionTypes /\ SessionInv
<1> SUFFICES ASSUME Fresh PROVE SessionTypes /\ SessionInv
  OBVIOUS
<1>1. /\ \A s \in Session : socket[s].failed = -1 /\ socket[s].wrong = FALSE
                            /\ socket[s].state = "NONE"
      /\ socket \in [Session -> Members]
  <2>1. PICK m : m = Closed
    OBVIOUS
  <2>2. m = [state |-> "NONE", handling |-> "", owned |-> FALSE, login |-> "", failed |-> -1,
             challenged |-> FALSE, answered |-> FALSE, listed |-> FALSE, wrong |-> FALSE]
    BY <2>1 DEF Closed
  <2>3. -1 \in Counter /\ "NONE" \in ConnectionState /\ "" \in Logins
    BY CounterValues, SessionAssumption DEF ConnectionState, Logins
  <2>4. m \in Members /\ m.failed = -1 /\ m.wrong = FALSE /\ m.state = "NONE"
    BY <2>2, <2>3 DEF Members
  <2>5. socket = [s \in Session |-> m]
    BY <2>1 DEF Fresh
  <2> QED
    BY <2>4, <2>5
<1>2. urgent = <<>> /\ queue = <<>> /\ failures \in Nat
  BY DEF Fresh
<1>3. DoingTypes /\ \A w \in Worker : doing[w] = Idle
  <2>1. doing = [w \in Worker |-> Idle]
    BY DEF Fresh
  <2> QED
    BY <2>1, IdleIsDone DEF DoingTypes
<1>4. account \in Row
  BY DEF Fresh
<1>5. SessionTypes
  BY <1>1, <1>2, <1>3, <1>4 DEF SessionTypes
<1>6. /\ \A w \in Worker : ~Loads(doing[w])
      /\ \A i \in DOMAIN queue : FALSE
  BY <1>2, <1>3, IdleIsDone DEF Loads, Loading
<1>7. LoadsOnce
  BY <1>6 DEF LoadsOnce
<1>8. CounterOfLoad
  BY <1>1, <1>6 DEF CounterOfLoad, IsLoading, LoadsFor, Challengeable
<1>9. BanFollows
  BY <1>1 DEF BanFollows, FailedTooOften
<1> QED
  BY <1>5, <1>7, <1>8, <1>9 DEF SessionInv

(* The first process.                                                      *)
LEMMA InitIsFresh == Init => Fresh
<1> SUFFICES ASSUME Init PROVE Fresh
  OBVIOUS
<1>1. account \in Row
  <2>1. PICK ip \in Ips : account = [failed_logins |-> 0, banned |-> FALSE, sv |-> FALSE,
                                     sessionkey |-> "none", last_ip |-> ip]
    BY DEF Init, Ips
  <2>2. "none" \in Session \union {"none"} /\ 0 \in Nat
    OBVIOUS
  <2> QED
    BY <2>1, <2>2 DEF Row
<1> QED
  BY <1>1 DEF Init, Fresh

(* In which nobody has failed.                                             *)
LEMMA InitInv == Init => SessionTypes /\ SessionInv
BY InitIsFresh, FreshInv

(* And the next.                                                           *)
LEMMA Restarted ==
    ASSUME SessionTypes, NEW w \in Worker, get_char_amount_without_account(w)
    PROVE  Fresh' /\ failures' # 0
<1>1. failures' = failures + 1 /\ failures \in Nat
  BY DEF get_char_amount_without_account, SessionTypes
<1>2. account' = account \/ account' = [account EXCEPT !.sv = FALSE]
  BY DEF get_char_amount_without_account
<1>3. account' \in Row
  BY <1>2 DEF SessionTypes, Row
<1>4. failures' \in Nat /\ failures' # 0
  BY <1>1
<1> QED
  BY <1>3, <1>4 DEF get_char_amount_without_account, Fresh

(* So nothing is loaded then either.                                       *)
LEMMA RestartedInv ==
    ASSUME SessionTypes, NEW w \in Worker, get_char_amount_without_account(w)
    PROVE  SessionTypes' /\ SessionInv'
<1>1. Fresh'
  BY Restarted
<1> QED
  BY <1>1, FreshInv, PTL

(* Each step keeps the invariant.                                          *)
LEMMA NextInv == SessionTypes /\ SessionInv /\ [Next]_vars => SessionTypes' /\ SessionInv'
<1> SUFFICES ASSUME SessionTypes, SessionInv, [Next]_vars
             PROVE  SessionTypes' /\ SessionInv'
  OBVIOUS
<1>1. ASSUME NEW s \in Session, ClientStep(s) \/ state_set(s)
      PROVE  SessionTypes' /\ SessionInv'
  <2>1. CASE open(s)
    BY <2>1, Opened
  <2>2. CASE \/ handle_close(s) \/ state_set(s) \/ right_proof(s)
             \/ handle_realm_list(s) \/ handle_auth_reconnect_proof(s)
    BY <2>2, Quiet
  <2>3. ASSUME NEW name \in {"account", "unknown"},
               \/ unsupported_build(s, name)
               \/ handle_auth_logon_challenge(s, name)
               \/ handle_auth_reconnect_challenge(s, name)
        PROVE  SessionTypes' /\ SessionInv'
    BY <2>3, QuietChallenge, LogonChallenge
  <2>4. CASE wrong_proof(s)
    BY <2>4, WrongProof
  <2> QED
    BY <1>1, <2>1, <2>2, <2>3, <2>4 DEF ClientStep
<1>2. ASSUME NEW w \in Worker, WorkerStep(w)
      PROVE  SessionTypes' /\ SessionInv'
  <2>1. CASE dequeue(w)
    BY <2>1, Dequeued
  <2>2. CASE execute_statement(w)
    BY <2>2, StatementExecuted
  <2>3. CASE execute_query(w) \/ execution_fails(w)
    BY <2>3, Executes
  <2>4. CASE ip_ban_checked(w)
    BY <2>4, IpBanChecked
  <2>5. CASE account_checked(w)
    BY <2>5, AccountChecked
  <2>6. CASE \/ get_char_amount(w)
             \/ get_char_amount_of_unsupported_build(w)
             \/ get_sessionkey(w)
    BY <2>6, QuietCallback
  <2>7. CASE get_char_amount_without_account(w)
    BY <2>7, RestartedInv
  <2> QED
    BY <1>2, <2>1, <2>2, <2>3, <2>4, <2>5, <2>6, <2>7 DEF WorkerStep
<1>3. CASE UNCHANGED vars
  <2>1. UNCHANGED <<socket, urgent, queue, doing, account, banned_ips, failures>>
    BY <1>3 DEF vars, database, history
  <2>2. DoingTypes'
    BY <2>1 DEF SessionTypes, DoingTypes, IsDone, IsAnswer
  <2>3. SessionTypes'
    BY <2>1, <2>2 DEF SessionTypes
  <2>4. QueueGrows
    BY <2>1, SameGrows
  <2>5. DoingKeeps
    BY <2>1 DEF DoingKeeps
  <2>6. SessionInv'
    BY <2>1, <2>4, <2>5, CalmInv DEF Challengeable, Banned
  <2> QED
    BY <2>3, <2>6
<1> QED
  BY <1>1, <1>2, <1>3 DEF Next

(* What the invariant says about bans is what the property says.           *)
LEMMA InvBans == SessionInv => BanInForce
<1> SUFFICES ASSUME SessionInv, NEW s \in Session, FailedTooOften(s),
                    ~Waits(s, {"ban_failed_logins"}), failures = 0
             PROVE  Banned(s)
  BY DEF BanInForce, FailedTooOften, Banned
<1>1. ~BanWaits(s)
  BY DEF BanWaits, Bans, Waits
<1> QED
  BY <1>1 DEF SessionInv, BanFollows

(* get_account, called by the callback of check_ip_ban: a session never    *)
(* has two logon queries under way, nor one when it can be challenged or   *)
(* when its counter is loaded, however callbacks and packets interleave.   *)
THEOREM CounterLoadedOnce == Spec => [](LoadsOnce /\ CounterOfLoad)
<1>1. SessionInv => LoadsOnce /\ CounterOfLoad
  BY DEF SessionInv
<1> QED
  BY <1>1, InitInv, NextInv, PTL DEF Spec

(* handle_failed_login: however logons, failures, callbacks and workers    *)
(* interleave, a client whose session counted more failures than           *)
(* WrongPassAmnt is banned once the ban it enqueued is executed.           *)
THEOREM FailuresBan == Spec => []BanInForce
<1> QED
  BY InitInv, NextInv, InvBans, PTL DEF Spec

-----------------------------------------------------------------------------
(* The names in operations.                                                *)

(* What an operation, or a callback, may rely on in its session: whoever   *)
(* is looked up has the name that is looked up, and what changes the row   *)
(* is for the account.                                                     *)
Knows(o, sessions) ==
    /\ o.op = "get_account" => o.login = sessions[o.s].login
    /\ o.op = "callback" /\ o.of = "get_account" =>
           (o.result.is = "EXISTS" => sessions[o.s].login = "account")
    /\ o.op \in {"update_account", "fix_sv", "set_sv"} => o.login = "account"

(* Only who has the account is challenged, or has its counter loaded.      *)
KnownFirst(m) ==
    m.challenged \/ m.failed >= 0 =>
        m.login = "account" /\ ~(m.state = "CONNECTED" /\ m.handling = "")

LoginInv ==
    /\ \A i \in DOMAIN queue : Knows(queue[i], socket)
    /\ \A i \in DOMAIN urgent : Knows(urgent[i], socket)
    /\ \A w \in Worker : Knows(doing[w], socket)
    /\ \A s \in Session : KnownFirst(socket[s])

LooksUp(o, s) ==
    (o.op = "get_account" \/ (o.op = "callback" /\ o.of = "get_account")) /\ o.s = s

(* Something under way relies on the session.                              *)
Relied(s) ==
    \/ \E i \in DOMAIN queue : LooksUp(queue[i], s)
    \/ \E w \in Worker : LooksUp(doing[w], s)

NameStands(o) == \A s \in Session : LooksUp(o, s) => socket'[s].login = socket[s].login

(* What is known stays known as long as the name does.                     *)
LEMMA KnownStays ==
    ASSUME NEW o, Knows(o, socket), o.s \in Session, NameStands(o)
    PROVE  Knows(o, socket')
BY DEF Knows, LooksUp, NameStands

(* What is enqueued or worked on belongs to a session.                     *)
LEMMA OwnSession ==
    ASSUME SessionTypes
    PROVE  /\ \A i \in DOMAIN queue : queue[i] \in Operation /\ queue[i].s \in Session
           /\ \A i \in DOMAIN urgent : urgent[i] \in Emptying /\ urgent[i].s \in Session
           /\ \A w \in Worker : doing[w].op # "idle" => doing[w].s \in Session
           /\ \A w \in Worker : doing[w] = Idle \/ doing[w].op # "idle"
<1>1. /\ \A i \in DOMAIN queue : queue[i] \in Operation
      /\ \A i \in DOMAIN urgent : urgent[i] \in Emptying
  BY LenProperties DEF SessionTypes
<1>2. \A o \in Operation : o.s \in Session /\ o.op # "idle"
  BY DEF Operation, Query, Statement
<1>3. \A o \in Emptying : o.s \in Session
  BY DEF Emptying
<1>4. ASSUME NEW w \in Worker
      PROVE  /\ doing[w].op # "idle" => doing[w].s \in Session
             /\ doing[w] = Idle \/ doing[w].op # "idle"
  <2>1. doing[w] = Idle \/ doing[w] \in Operation \/ IsAnswer(doing[w])
    BY DEF SessionTypes, DoingTypes, IsDone
  <2>2. doing[w] = Idle => doing[w].op = "idle"
    BY DEF Idle
  <2> QED
    BY <1>2, <2>1, <2>2 DEF IsAnswer
<1> QED
  BY <1>1, <1>2, <1>3, <1>4

LEMMA IdleKnows == \A sessions : Knows(Idle, sessions)
BY DEF Knows, Idle

(* A step for one session: what it makes is known, and its name changes    *)
(* only while nothing relies on it.                                        *)
LEMMA LoginStep ==
    ASSUME SessionTypes, LoginInv, NEW s \in Session, NEW m \in Members,
           socket' = [socket EXCEPT ![s] = m], KnownFirst(m),
           m.login = socket[s].login \/ ~Relied(s),
           \A i \in DOMAIN queue' :
               (\E j \in DOMAIN queue : queue'[i] = queue[j]) \/ Knows(queue'[i], socket'),
           \A i \in DOMAIN urgent' :
               (\E j \in DOMAIN urgent : urgent'[i] = urgent[j]) \/ Knows(urgent'[i], socket'),
           \A w \in Worker :
               \/ doing'[w] = doing[w]
               \/ \E j \in DOMAIN queue : doing'[w] = queue[j]
               \/ \E j \in DOMAIN urgent : doing'[w] = urgent[j]
               \/ Knows(doing'[w], socket')
    PROVE  LoginInv'
<1>1. /\ socket'[s] = m /\ \A t \in Session : t # s => socket'[t] = socket[t]
  BY MembersChange DEF SessionTypes
<1>2. ASSUME NEW t \in Session
      PROVE  ~Relied(t) \/ socket'[t].login = socket[t].login
  BY <1>1
<1>3. ASSUME NEW j \in DOMAIN queue
      PROVE  Knows(queue[j], socket')
  <2>1. Knows(queue[j], socket) /\ queue[j].s \in Session
    BY OwnSession DEF LoginInv
  <2>2. \A t \in Session : LooksUp(queue[j], t) => Relied(t)
    BY DEF Relied
  <2>3. NameStands(queue[j])
    BY <1>2, <2>2 DEF NameStands
  <2> QED
    BY <2>1, <2>3, KnownStays
<1>4. ASSUME NEW j \in DOMAIN urgent
      PROVE  Knows(urgent[j], socket')
  <2>1. Knows(urgent[j], socket) /\ urgent[j].s \in Session
    BY OwnSession DEF LoginInv
  <2>2. \A t \in Session : ~LooksUp(urgent[j], t)
    BY OwnSession DEF Emptying, LooksUp
  <2>3. NameStands(urgent[j])
    BY <2>2 DEF NameStands
  <2> QED
    BY <2>1, <2>3, KnownStays
<1>5. ASSUME NEW w \in Worker
      PROVE  Knows(doing[w], socket')
  <2>1. CASE doing[w] = Idle
    BY <2>1, IdleKnows
  <2>2. CASE doing[w] # Idle
    <3>1. Knows(doing[w], socket) /\ doing[w].s \in Session
      BY <2>2, OwnSession DEF LoginInv
    <3>2. \A t \in Session : LooksUp(doing[w], t) => Relied(t)
      BY DEF Relied
    <3>3. NameStands(doing[w])
      BY <1>2, <3>2 DEF NameStands
    <3> QED
      BY <3>1, <3>3, KnownStays
  <2> QED
    BY <2>1, <2>2
<1>6. \A i \in DOMAIN queue' : Knows(queue'[i], socket')
  BY <1>3
<1>7. \A i \in DOMAIN urgent' : Knows(urgent'[i], socket')
  BY <1>4
<1>8. \A w \in Worker : Knows(doing'[w], socket')
  BY <1>3, <1>4, <1>5
<1>9. \A t \in Session : KnownFirst(socket'[t])
  BY <1>1 DEF LoginInv
<1> QED
  BY <1>6, <1>7, <1>8, <1>9 DEF LoginInv

(* A new session begins in a slot nobody refers to.                        *)
LEMMA OpenKnows ==
    ASSUME SessionTypes, LoginInv, NEW s \in Session, open(s)
    PROVE  LoginInv'
<1>1. PICK m : m = [Closed EXCEPT !.state = "CONNECTED", !.owned = TRUE]
  OBVIOUS
<1>2. m = [state |-> "CONNECTED", handling |-> "", owned |-> TRUE, login |-> "",
           failed |-> -1, challenged |-> FALSE, answered |-> FALSE, listed |-> FALSE,
           wrong |-> FALSE]
  BY <1>1 DEF Closed
<1>3. m \in Members
  <2>1. -1 \in Counter /\ "CONNECTED" \in ConnectionState /\ "" \in Logins
    BY CounterValues, SessionAssumption DEF ConnectionState, Logins
  <2> QED
    BY <1>2, <2>1 DEF Members
<1>4. KnownFirst(m)
  <2>1. m.challenged = FALSE /\ m.failed = -1
    BY <1>2
  <2>2. ~(m.failed >= 0)
    BY <2>1
  <2> QED
    BY <2>1, <2>2 DEF KnownFirst
<1>5. ~Relied(s)
  <2>1. ~Waits(s, Query \union {"callback"})
    BY DEF open, Freed
  <2> QED
    BY <2>1 DEF Waits, Relied, LooksUp, Query
<1>6. /\ socket' = [socket EXCEPT ![s] = m]
      /\ queue' = queue /\ urgent' = urgent /\ doing' = doing
  BY <1>1 DEF open
<1> QED
  BY <1>3, <1>4, <1>5, <1>6, LoginStep

(* A packet of one session, to which at most one operation is due.         *)
LEMMA PacketKnows ==
    ASSUME SessionTypes, LoginInv, NEW s \in Session, NEW m \in Members,
           socket' = [socket EXCEPT ![s] = m], KnownFirst(m),
           m.login = socket[s].login \/ ~Relied(s),
           \/ queue' = queue
           \/ \E o \in Operation : queue' = Append(queue, o) /\ Knows(o, socket'),
           urgent' = urgent, doing' = doing
    PROVE  LoginInv'
<1>1. queue \in Seq(Operation)
  BY DEF SessionTypes
<1>2. \A i \in DOMAIN queue' :
          (\E j \in DOMAIN queue : queue'[i] = queue[j]) \/ Knows(queue'[i], socket')
  <2>1. CASE queue' = queue
    BY <2>1
  <2>2. ASSUME NEW o \in Operation, queue' = Append(queue, o), Knows(o, socket')
        PROVE  \A i \in DOMAIN queue' :
                   (\E j \in DOMAIN queue : queue'[i] = queue[j]) \/ Knows(queue'[i], socket')
    BY <1>1, <2>2, BehindOne
  <2> QED
    BY <2>1, <2>2
<1> QED
  BY <1>2, LoginStep

(* Whoever can still be challenged is relied on by nothing.                *)
LEMMA UnknownUnrelied ==
    ASSUME SessionTypes, SessionInv, LoginInv, NEW s \in Session, Challengeable(s)
    PROVE  ~Relied(s) /\ ~socket[s].challenged /\ ~(socket[s].failed >= 0)
<1>1. ~socket[s].challenged /\ ~(socket[s].failed >= 0)
  BY DEF LoginInv, KnownFirst, Challengeable
<1>2. ~IsLoading(s)
  BY DEF SessionInv, CounterOfLoad
<1>3. ASSUME NEW o, LooksUp(o, s)
      PROVE  LoadsFor(o, s)
  BY <1>3 DEF LooksUp, LoadsFor, Loads, Loading
<1> QED
  BY <1>1, <1>2, <1>3 DEF Relied, IsLoading

LEMMA ChallengeKnows ==
    ASSUME SessionTypes, SessionInv, LoginInv, NEW s \in Session,
           NEW name \in {"account", "unknown"},
           \/ unsupported_build(s, name)
           \/ handle_auth_logon_challenge(s, name)
           \/ handle_auth_reconnect_challenge(s, name)
    PROVE  LoginInv'
<1>1. Challengeable(s)
  BY DEF unsupported_build, handle_auth_logon_challenge, handle_auth_reconnect_challenge,
         Challenged, Readable, Challengeable
<1>2. /\ ~Relied(s) /\ ~socket[s].challenged /\ ~(socket[s].failed >= 0)
      /\ socket[s] \in Members
  BY <1>1, UnknownUnrelied DEF SessionTypes
<1>3. name \in Logins /\ appended(s, name) \in Logins
  BY NamesAreLogins
<1>4. ASSUME NEW login \in Logins, NEW handling \in {"", "logon", "reconnect"}
      PROVE  /\ [socket[s] EXCEPT !.login = login, !.handling = handling] \in Members
             /\ KnownFirst([socket[s] EXCEPT !.login = login, !.handling = handling])
             /\ [socket[s] EXCEPT !.login = login] \in Members
             /\ KnownFirst([socket[s] EXCEPT !.login = login])
  <2>1. socket[s].state = "CONNECTED"
    BY <1>1 DEF Challengeable
  <2> QED
    BY <1>2, <2>1 DEF Members, KnownFirst
<1>5. CASE unsupported_build(s, name)
  <2>1. /\ socket' = [socket EXCEPT ![s] = [socket[s] EXCEPT !.login = appended(s, name)]]
        /\ UNCHANGED <<queue, urgent, doing>>
    BY <1>5 DEF unsupported_build
  <2> QED
    BY <1>2, <1>3, <1>4, <2>1, PacketKnows
<1>6. ASSUME NEW query \in {"check_ip_ban", "get_sessionkey"},
             NEW handler \in {"logon", "reconnect"}, NEW login \in Logins,
             Challenged(s, query, handler, login)
      PROVE  LoginInv'
  <2>1. PICK m : m = [socket[s] EXCEPT !.login = login, !.handling = handler]
    OBVIOUS
  <2>2. PICK o : o = [op |-> query, s |-> s, login |-> login]
    OBVIOUS
  <2>3. /\ socket' = [socket EXCEPT ![s] = m]
        /\ queue' = Append(queue, o)
        /\ UNCHANGED <<urgent, doing>>
    BY <1>6, <2>1, <2>2 DEF Challenged
  <2>4. m \in Members /\ KnownFirst(m)
    BY <1>4, <2>1
  <2>5. o \in Operation /\ Knows(o, socket')
    BY <2>2 DEF Operation, Query, Knows
  <2> QED
    BY <1>2, <2>3, <2>4, <2>5, PacketKnows
<1>7. CASE handle_auth_logon_challenge(s, name)
  <2>1. Challenged(s, "check_ip_ban", "logon", appended(s, name))
    BY <1>7 DEF handle_auth_logon_challenge
  <2> QED
    BY <1>3, <1>6, <2>1
<1>8. CASE handle_auth_reconnect_challenge(s, name)
  <2>1. Challenged(s, "get_sessionkey", "reconnect", name)
    BY <1>8 DEF handle_auth_reconnect_challenge
  <2> QED
    BY <1>3, <1>6, <2>1
<1> QED
  BY <1>5, <1>7, <1>8

(* What stays known when only these members change.                        *)
LEMMA OtherMembers ==
    ASSUME SessionTypes, LoginInv, NEW s \in Session
    PROVE  /\ socket[s] \in Members /\ KnownFirst(socket[s])
           /\ \A state \in ConnectionState \ {"CONNECTED"}, owned \in BOOLEAN :
                  LET m == [socket[s] EXCEPT !.state = state, !.owned = owned]
                  IN  m \in Members /\ KnownFirst(m)
                      /\ m.login = socket[s].login /\ m.challenged = socket[s].challenged
           /\ \A state \in ConnectionState \ {"CONNECTED"} :
                  /\ LET m == [socket[s] EXCEPT !.state = state]
                     IN  m \in Members /\ KnownFirst(m)
                         /\ m.login = socket[s].login /\ m.challenged = socket[s].challenged
                  /\ LET m == [socket[s] EXCEPT !.state = state, !.handling = ""]
                     IN  m \in Members /\ KnownFirst(m)
                         /\ m.login = socket[s].login /\ m.challenged = socket[s].challenged
           /\ \A b \in BOOLEAN :
                  /\ LET m == [socket[s] EXCEPT !.answered = b]
                     IN  m \in Members /\ KnownFirst(m)
                         /\ m.login = socket[s].login /\ m.challenged = socket[s].challenged
                  /\ LET m == [socket[s] EXCEPT !.listed = b]
                     IN  m \in Members /\ KnownFirst(m)
                         /\ m.login = socket[s].login /\ m.challenged = socket[s].challenged
           /\ \A b \in BOOLEAN, n \in Counter :
                  LET m == [socket[s] EXCEPT !.wrong = b, !.failed = n]
                  IN  m \in Members /\ ((n >= 0 => socket[s].failed >= 0) => KnownFirst(m))
                      /\ m.login = socket[s].login /\ m.challenged = socket[s].challenged
<1>1. socket[s] \in Members /\ KnownFirst(socket[s])
  BY DEF SessionTypes, LoginInv
<1>2. ASSUME NEW state \in ConnectionState \ {"CONNECTED"}, NEW owned \in BOOLEAN,
             NEW m, m = [socket[s] EXCEPT !.state = state, !.owned = owned]
      PROVE  /\ m \in Members /\ KnownFirst(m)
             /\ m.login = socket[s].login /\ m.challenged = socket[s].challenged
  BY <1>1, <1>2 DEF Members, KnownFirst
<1>3. ASSUME NEW state \in ConnectionState \ {"CONNECTED"},
             NEW m, \/ m = [socket[s] EXCEPT !.state = state]
                    \/ m = [socket[s] EXCEPT !.state = state, !.handling = ""]
      PROVE  /\ m \in Members /\ KnownFirst(m)
             /\ m.login = socket[s].login /\ m.challenged = socket[s].challenged
  <2>1. /\ m \in Members /\ m.state = state /\ m.failed = socket[s].failed
        /\ m.login = socket[s].login /\ m.challenged = socket[s].challenged
    BY <1>1, <1>3 DEF Members
  <2> QED
    BY <1>1, <2>1 DEF KnownFirst
<1>4. ASSUME NEW b \in BOOLEAN,
             NEW m, \/ m = [socket[s] EXCEPT !.answered = b]
                    \/ m = [socket[s] EXCEPT !.listed = b]
      PROVE  /\ m \in Members /\ KnownFirst(m)
             /\ m.login = socket[s].login /\ m.challenged = socket[s].challenged
  BY <1>1, <1>4 DEF Members, KnownFirst
<1>5. ASSUME NEW b \in BOOLEAN, NEW n \in Counter,
             NEW m, m = [socket[s] EXCEPT !.wrong = b, !.failed = n]
      PROVE  /\ m \in Members /\ ((n >= 0 => socket[s].failed >= 0) => KnownFirst(m))
             /\ m.login = socket[s].login /\ m.challenged = socket[s].challenged
  BY <1>1, <1>5 DEF Members, KnownFirst
<1> QED
  BY <1>1, <1>2, <1>3, <1>4, <1>5

(* The session ends, or its state is set.                                  *)
LEMMA EndKnows ==
    ASSUME SessionTypes, LoginInv, NEW s \in Session,
           handle_close(s) \/ handle_auth_reconnect_proof(s) \/ state_set(s)
    PROVE  LoginInv'
<1>1. ASSUME NEW m \in Members, socket' = [socket EXCEPT ![s] = m], KnownFirst(m),
             m.login = socket[s].login, m.challenged = socket[s].challenged,
             UNCHANGED <<queue, urgent, doing>>
      PROVE  LoginInv'
  BY <1>1, PacketKnows
<1>2. CASE handle_close(s) \/ handle_auth_reconnect_proof(s)
  <2>1. /\ socket' = [socket EXCEPT ![s].state = "AUTHED"] \/ die(s)
        /\ UNCHANGED <<queue, urgent, doing>>
    BY <1>2 DEF handle_close, handle_auth_reconnect_proof
  <2>2. PICK state \in {"AUTHED", "CLOSING"}, owned \in BOOLEAN : SetState(s, state, owned)
    BY <2>1, SetStateOf
  <2>3. PICK m : m = [socket[s] EXCEPT !.state = state, !.owned = owned]
    OBVIOUS
  <2>4. state \in ConnectionState \ {"CONNECTED"}
    BY DEF ConnectionState
  <2>5. /\ m \in Members /\ KnownFirst(m) /\ socket' = [socket EXCEPT ![s] = m]
        /\ m.login = socket[s].login /\ m.challenged = socket[s].challenged
    BY <2>2, <2>3, <2>4, OtherMembers DEF SetState
  <2> QED
    BY <1>1, <2>1, <2>5
<1>3. CASE state_set(s)
  <2>1. PICK state : state = IF socket[s].handling = "logon" THEN "NEED_PROOF" ELSE "NEED_RPROOF"
    OBVIOUS
  <2>2. PICK m : m = [socket[s] EXCEPT !.state = state, !.handling = ""]
    OBVIOUS
  <2>3. socket' = [socket EXCEPT ![s] = m] /\ UNCHANGED <<queue, urgent, doing>>
    BY <1>3, <2>1, <2>2 DEF state_set
  <2>4. state \in ConnectionState \ {"CONNECTED"}
    BY <2>1 DEF ConnectionState
  <2>5. /\ m \in Members /\ KnownFirst(m)
        /\ m.login = socket[s].login /\ m.challenged = socket[s].challenged
    BY <2>2, <2>4, OtherMembers
  <2> QED
    BY <1>1, <2>3, <2>5
<1> QED
  BY <1>2, <1>3

(* Whoever was challenged is the account: what it enqueues is for it.      *)
LEMMA ChallengedOps ==
    ASSUME SessionTypes, LoginInv, NEW s \in Session, socket[s].challenged
    PROVE  /\ socket[s].login = "account"
           /\ \A op \in Query \union Statement :
                  Op(op, s) \in Operation /\ Op(op, s).op = op /\ Op(op, s).s = s
                  /\ Op(op, s).login = "account"
<1>1. socket[s].login = "account"
  BY DEF LoginInv, KnownFirst
<1>2. ASSUME NEW op \in Query \union Statement
      PROVE  Op(op, s).login = "account"
  BY <1>1 DEF Op
<1> QED
  BY <1>1, <1>2, OpIsOperation

LEMMA ProofKnows ==
    ASSUME SessionTypes, LoginInv, NEW s \in Session, right_proof(s) \/ handle_realm_list(s)
    PROVE  LoginInv'
<1>1. CASE right_proof(s)
  <2>1. PICK m : m = [socket[s] EXCEPT !.state = "AUTHED"]
    OBVIOUS
  <2>2. /\ socket' = [socket EXCEPT ![s] = m] /\ socket[s].challenged
        /\ queue' = Append(queue, Op("update_account", s)) /\ UNCHANGED <<urgent, doing>>
    BY <1>1, <2>1 DEF right_proof
  <2>3. socket[s] \in Members /\ KnownFirst(socket[s])
    BY OtherMembers
  <2>4. /\ m \in Members /\ KnownFirst(m)
        /\ m.login = socket[s].login /\ m.challenged = socket[s].challenged
    BY <2>1, <2>2, <2>3 DEF Members, KnownFirst, ConnectionState
  <2>5. PICK o : o = Op("update_account", s)
    OBVIOUS
  <2>6. o \in Operation /\ Knows(o, socket')
    <3>1. o \in Operation /\ o.op = "update_account" /\ o.login = "account"
      BY <2>2, <2>5, ChallengedOps DEF Statement
    <3> QED
      BY <3>1 DEF Knows
  <2> QED
    BY <2>2, <2>4, <2>5, <2>6, PacketKnows
<1>2. CASE handle_realm_list(s)
  <2>1. PICK m : m = socket[s]
    OBVIOUS
  <2>2. /\ socket' = socket /\ socket[s].state = "AUTHED"
        /\ queue' = Append(queue, Op("get_char_amount", s)) /\ UNCHANGED <<urgent, doing>>
    BY <1>2 DEF handle_realm_list
  <2>3. m \in Members /\ KnownFirst(m) /\ socket' = [socket EXCEPT ![s] = m]
    BY <2>1, <2>2, OtherMembers DEF SessionTypes
  <2>4. PICK o : o = Op("get_char_amount", s)
    OBVIOUS
  <2>5. o \in Operation /\ Knows(o, socket')
    <3>1. o \in Operation /\ o.op = "get_char_amount"
      BY <2>4, OpIsOperation DEF Query
    <3> QED
      BY <3>1 DEF Knows
  <2> QED
    BY <2>1, <2>2, <2>3, <2>4, <2>5, PacketKnows
<1> QED
  BY <1>1, <1>2

(* What a wrong proof enqueues: an increment that hits the account, or     *)
(* nothing, and behind it a ban, or nothing.                               *)
LEMMA WrongProofIs ==
    ASSUME SessionTypes, NEW s \in Session, wrong_proof(s)
    PROVE  \E wrong \in BOOLEAN, failed \in Counter, hits \in BOOLEAN,
              half \in Seq(Operation), ban \in Seq(Operation) :
               /\ failed >= 0 => socket[s].failed >= 0
               /\ socket' = [socket EXCEPT ![s] = [socket[s] EXCEPT !.wrong = wrong,
                                                                   !.failed = failed]]
               /\ half = IF hits THEN Append(queue, Op("increment_failed_logins", s))
                                 ELSE queue
               /\ \A j \in DOMAIN ban : ban[j] = Op("ban_failed_logins", s)
               /\ queue' = half \o ban
               /\ expected' = IF hits THEN [expected EXCEPT !.failed_logins = @ + 1]
                                      ELSE expected
               /\ UNCHANGED <<urgent, doing, account, failures>>
<1>1. socket \in [Session -> Members] /\ socket[s] \in Members /\ queue \in Seq(Operation)
  BY DEF SessionTypes
<1>2. socket[s].failed \in Counter /\ socket[s].wrong \in BOOLEAN
  BY <1>1 DEF Members
<1>3. PICK hits, bans, loaded :
          LET increment == IF hits THEN <<Op("increment_failed_logins", s)>> ELSE <<>>
              ban == IF bans /\ (hits \/ BanByIp)
                     THEN <<Op("ban_failed_logins", s)>> ELSE <<>>
          IN  /\ hits \in BOOLEAN /\ bans \in BOOLEAN
              /\ loaded <=> socket[s].failed >= 0
              /\ socket' = [socket EXCEPT
                               ![s].wrong = @ \/ loaded,
                               ![s].failed = IF loaded THEN as_uint8(socket[s].failed + 1) ELSE @]
              /\ queue' = queue \o increment \o ban
              /\ expected' = IF hits THEN [expected EXCEPT !.failed_logins = @ + 1]
                                     ELSE expected
  BY DEF wrong_proof
<1>4. PICK increment, ban :
          /\ increment = IF hits THEN <<Op("increment_failed_logins", s)>> ELSE <<>>
          /\ ban = IF bans /\ (hits \/ BanByIp) THEN <<Op("ban_failed_logins", s)>> ELSE <<>>
          /\ queue' = (queue \o increment) \o ban
  BY <1>3
<1>5. Op("increment_failed_logins", s) \in Operation /\ Op("ban_failed_logins", s) \in Operation
  BY OpIsOperation DEF Statement
<1>6. PICK half : half = IF hits THEN Append(queue, Op("increment_failed_logins", s)) ELSE queue
  OBVIOUS
<1>7. half \in Seq(Operation) /\ half = queue \o increment
  <2>1. CASE hits
    BY <1>1, <1>4, <1>5, <1>6, <2>1
  <2>2. CASE ~hits
    BY <1>1, <1>4, <1>6, <2>2, ConcatEmptySeq
  <2> QED
    BY <2>1, <2>2
<1>8. ban \in Seq(Operation) /\ \A j \in DOMAIN ban : ban[j] = Op("ban_failed_logins", s)
  BY <1>4, <1>5
<1>9. PICK wrong : wrong = (socket[s].wrong \/ loaded)
  OBVIOUS
<1>10. PICK failed : failed = IF loaded THEN as_uint8(socket[s].failed + 1)
                                        ELSE socket[s].failed
  OBVIOUS
<1>11. wrong \in BOOLEAN /\ failed \in Counter /\ (failed >= 0 => socket[s].failed >= 0)
  <2>1. loaded <=> socket[s].failed >= 0
    BY <1>3
  <2>2. loaded => socket[s].failed + 1 \in Nat
    BY <1>2, <2>1, CounterValues, SessionAssumption
  <2>3. failed \in Counter
    BY <1>2, <1>10, <2>2, CounterValues, SessionAssumption
  <2>4. failed >= 0 => socket[s].failed >= 0
    BY <1>10, <2>1
  <2> QED
    BY <1>9, <2>3, <2>4
<1>12. socket' = [socket EXCEPT ![s] = [socket[s] EXCEPT !.wrong = wrong, !.failed = failed]]
  <2>1. socket' = [socket EXCEPT
                      ![s].wrong = @ \/ loaded,
                      ![s].failed = IF loaded THEN as_uint8(socket[s].failed + 1) ELSE @]
    BY <1>3
  <2>2. [socket[s] EXCEPT !.wrong = @ \/ loaded,
                          !.failed = IF loaded THEN as_uint8(socket[s].failed + 1) ELSE @]
            = [socket[s] EXCEPT !.wrong = wrong, !.failed = failed]
    BY <1>1, <1>9, <1>10 DEF Members
  <2> QED
    BY <1>1, <2>1, <2>2
<1>13. /\ queue' = half \o ban
       /\ expected' = IF hits THEN [expected EXCEPT !.failed_logins = @ + 1] ELSE expected
       /\ UNCHANGED <<urgent, doing, account, failures>>
  BY <1>3, <1>4, <1>7 DEF wrong_proof, database
<1> QED
  BY <1>6, <1>7, <1>8, <1>11, <1>12, <1>13

LEMMA WrongKnows ==
    ASSUME SessionTypes, LoginInv, NEW s \in Session, wrong_proof(s)
    PROVE  LoginInv'
<1>1. PICK wrong \in BOOLEAN, failed \in Counter, hits \in BOOLEAN,
           half \in Seq(Operation), ban \in Seq(Operation) :
          /\ failed >= 0 => socket[s].failed >= 0
          /\ socket' = [socket EXCEPT ![s] = [socket[s] EXCEPT !.wrong = wrong, !.failed = failed]]
          /\ half = IF hits THEN Append(queue, Op("increment_failed_logins", s)) ELSE queue
          /\ \A j \in DOMAIN ban : ban[j] = Op("ban_failed_logins", s)
          /\ queue' = half \o ban
          /\ expected' = IF hits THEN [expected EXCEPT !.failed_logins = @ + 1] ELSE expected
          /\ UNCHANGED <<urgent, doing, account, failures>>
  BY WrongProofIs
<1>2. PICK m : m = [socket[s] EXCEPT !.wrong = wrong, !.failed = failed]
  OBVIOUS
<1>3. /\ m \in Members /\ KnownFirst(m)
      /\ m.login = socket[s].login /\ m.challenged = socket[s].challenged
  BY <1>1, <1>2, OtherMembers
<1>4. /\ Op("increment_failed_logins", s) \in Operation
      /\ Knows(Op("increment_failed_logins", s), socket')
      /\ Knows(Op("ban_failed_logins", s), socket')
  BY OpIsOperation DEF Statement, Knows
<1>5. \A i \in DOMAIN half :
          (\E j \in DOMAIN queue : half[i] = queue[j]) \/ Knows(half[i], socket')
  <2>1. queue \in Seq(Operation)
    BY DEF SessionTypes
  <2>2. CASE hits
    BY <1>1, <1>4, <2>1, <2>2, BehindOne
  <2>3. CASE ~hits
    BY <1>1, <2>3
  <2> QED
    BY <2>2, <2>3
<1>6. \A i \in DOMAIN queue' :
          (\E j \in DOMAIN queue : queue'[i] = queue[j]) \/ Knows(queue'[i], socket')
  <2>0. half \in Seq(Operation) /\ ban \in Seq(Operation) /\ queue' = half \o ban
    BY <1>1
  <2>1. /\ \A i \in DOMAIN half : queue'[i] = half[i]
        /\ \A i \in DOMAIN queue' : i \in DOMAIN half \/ \E j \in DOMAIN ban : queue'[i] = ban[j]
    BY <2>0, Behind
  <2> QED
    BY <1>1, <1>4, <1>5, <2>1
<1> QED
  BY <1>1, <1>2, <1>3, <1>6, LoginStep

-----------------------------------------------------------------------------
(* Names, while workers go on.                                             *)

(* A worker's step for one session: it ends up with nothing, or with       *)
(* something known.                                                        *)
LEMMA WorkerKnows ==
    ASSUME SessionTypes, LoginInv, NEW w \in Worker, NEW s \in Session, NEW m \in Members,
           socket' = [socket EXCEPT ![s] = m], KnownFirst(m),
           m.login = socket[s].login, NEW o, doing' = [doing EXCEPT ![w] = o], IsDone(o), Knows(o, socket'),
           \A i \in DOMAIN queue' :
               (\E j \in DOMAIN queue : queue'[i] = queue[j]) \/ Knows(queue'[i], socket'),
           \A i \in DOMAIN urgent' :
               (\E j \in DOMAIN urgent : urgent'[i] = urgent[j]) \/ Knows(urgent'[i], socket')
    PROVE  LoginInv'
<1>1. doing'[w] = o /\ \A v \in Worker : v # w => doing'[v] = doing[v]
  BY DoingChanges DEF SessionTypes
<1>2. \A v \in Worker : doing'[v] = doing[v] \/ Knows(doing'[v], socket')
  BY <1>1
<1> QED
  BY <1>2, LoginStep

(* The queue is put off to a later place, or an operation is taken.        *)
LEMMA DequeueKnows ==
    ASSUME SessionTypes, LoginInv, NEW w \in Worker, NEW s \in Session, dequeue(w)
    PROVE  LoginInv'
<1>1. PICK m : m = socket[s]
  OBVIOUS
<1>2. m \in Members /\ KnownFirst(m) /\ socket' = [socket EXCEPT ![s] = m]
  BY <1>1, OtherMembers DEF dequeue, SessionTypes
<1>3. socket' = socket
  BY DEF dequeue
<1>4. CASE /\ urgent # <<>> /\ doing' = [doing EXCEPT ![w] = Head(urgent)]
           /\ urgent' = Tail(urgent) /\ queue' = queue
  <2>1. urgent \in Seq(Emptying)
    BY DEF SessionTypes
  <2>2. /\ Head(urgent) \in Emptying /\ Head(urgent) = urgent[1] /\ 1 \in DOMAIN urgent
        /\ \A i \in DOMAIN Tail(urgent) :
               i + 1 \in DOMAIN urgent /\ Tail(urgent)[i] = urgent[i + 1]
    BY <1>4, <2>1, Shifted
  <2>3. PICK o : o = Head(urgent)
    OBVIOUS
  <2>4. o \in Operation /\ IsDone(o)
    BY <2>2, <2>3 DEF Emptying, Operation, Statement, IsDone
  <2>5. Knows(o, socket')
    BY <1>3, <2>2, <2>3 DEF LoginInv
  <2>6. \A i \in DOMAIN urgent' : \E j \in DOMAIN urgent : urgent'[i] = urgent[j]
    BY <1>4, <2>2
  <2> QED
    BY <1>1, <1>2, <1>4, <2>3, <2>4, <2>5, <2>6, WorkerKnows
<1>5. CASE /\ queue # <<>> /\ doing' = [doing EXCEPT ![w] = Head(queue)]
           /\ queue' = Tail(queue) /\ urgent' = urgent
  <2>1. queue \in Seq(Operation)
    BY DEF SessionTypes
  <2>2. /\ Head(queue) \in Operation /\ Head(queue) = queue[1] /\ 1 \in DOMAIN queue
        /\ \A i \in DOMAIN Tail(queue) :
               i + 1 \in DOMAIN queue /\ Tail(queue)[i] = queue[i + 1]
    BY <1>5, <2>1, Shifted
  <2>3. PICK o : o = Head(queue)
    OBVIOUS
  <2>4. IsDone(o)
    BY <2>2, <2>3 DEF IsDone
  <2>5. Knows(o, socket')
    BY <1>3, <2>2, <2>3 DEF LoginInv
  <2>6. \A i \in DOMAIN queue' : \E j \in DOMAIN queue : queue'[i] = queue[j]
    BY <1>5, <2>2
  <2> QED
    BY <1>1, <1>2, <1>5, <2>3, <2>4, <2>5, <2>6, WorkerKnows
<1> QED
  BY <1>4, <1>5 DEF dequeue

(* A worker executes: what it looked up is what the session is called.     *)
LEMMA ExecuteKnows ==
    ASSUME SessionTypes, LoginInv, NEW w \in Worker,
           execute_statement(w) \/ execution_fails(w) \/ execute_query(w)
    PROVE  LoginInv'
<1>1. socket' = socket /\ queue' = queue /\ urgent' = urgent
  BY DEF execute_statement, execution_fails, execute_query
<1>2. doing[w].op \in Query \union Statement
  BY DEF execute_statement, execution_fails, execute_query
<1>3. doing[w] \in Operation /\ doing[w].s \in Session /\ Knows(doing[w], socket)
  <2>1. IsDone(doing[w])
    BY DEF SessionTypes, DoingTypes
  <2>2. doing[w] \in Operation
    BY <1>2, <2>1 DEF IsDone, Idle, IsAnswer, Query, Statement
  <2> QED
    BY <2>2 DEF Operation, LoginInv
<1>4. PICK s \in Session : s = doing[w].s
  BY <1>3
<1>5. PICK m : m = socket[s]
  OBVIOUS
<1>6. m \in Members /\ KnownFirst(m) /\ socket' = [socket EXCEPT ![s] = m]
  BY <1>1, <1>5, OtherMembers DEF SessionTypes
<1>7. ASSUME NEW o, doing' = [doing EXCEPT ![w] = o], IsDone(o), Knows(o, socket')
      PROVE  LoginInv'
  BY <1>1, <1>5, <1>6, <1>7, WorkerKnows
<1>8. CASE execute_statement(w) \/ execution_fails(w)
  <2>1. doing' = [doing EXCEPT ![w] = Idle]
    BY <1>8 DEF execute_statement, execution_fails
  <2> QED
    BY <1>7, <2>1, IdleIsDone, IdleKnows
<1>9. CASE execute_query(w)
  <2>1. PICK result :
            /\ doing[w].op = "get_account" => result = check_account(doing[w])
            /\ doing[w].op = "get_char_amount" => result \in BOOLEAN
            /\ doing' = [doing EXCEPT ![w] = Answer(doing[w], result)]
            /\ doing[w].op \in Query
    BY <1>9, OneResult
  <2>2. PICK o : o = Answer(doing[w], result)
    OBVIOUS
  <2>3. o.op = "callback" /\ o.s = doing[w].s /\ o.of = doing[w].op /\ o.result = result
    BY <2>2 DEF Answer
  <2>4. doing[w].op = "get_account" /\ result.is = "EXISTS" =>
            doing[w].login = "account" /\ result.failed = account.failed_logins
    <3>1. SUFFICES ASSUME doing[w].op = "get_account", result.is = "EXISTS"
                   PROVE  doing[w].login = "account" /\ result.failed = account.failed_logins
      OBVIOUS
    <3>2. result = check_account(doing[w])
      BY <2>1, <3>1
    <3>3. CASE doing[w].login # "account"
      <4>1. result = [is |-> "NOTFOUND"]
        BY <3>2, <3>3 DEF check_account
      <4> QED
        BY <3>1, <4>1
    <3>4. CASE doing[w].login = "account" /\ account.banned
      <4>1. result = [is |-> "BANNED"]
        BY <3>2, <3>4 DEF check_account
      <4> QED
        BY <3>1, <4>1
    <3>5. CASE doing[w].login = "account" /\ ~account.banned
      <4>1. result = [is |-> "EXISTS", failed |-> account.failed_logins,
                      last_ip |-> account.last_ip]
        BY <3>2, <3>5 DEF check_account
      <4> QED
        BY <3>5, <4>1
    <3> QED
      BY <3>3, <3>4, <3>5
  <2>5. IsDone(o)
    <3>1. account.failed_logins \in Nat
      BY DEF SessionTypes, Row
    <3> QED
      BY <1>3, <2>1, <2>3, <2>4, <3>1 DEF IsDone, IsAnswer
  <2>6. Knows(o, socket')
    <3>1. doing[w].op = "get_account" => doing[w].login = socket[s].login
      BY <1>3, <1>4 DEF Knows
    <3> QED
      BY <1>1, <1>4, <2>3, <2>4, <3>1 DEF Knows
  <2> QED
    BY <1>7, <2>1, <2>2, <2>5, <2>6
<1> QED
  BY <1>8, <1>9

(* set_vs puts an emptying ahead, and a setting behind, for each call.     *)
LEMMA SetVsIs ==
    ASSUME SessionTypes, NEW s \in Session, NEW times \in Nat, set_vs(s, times)
    PROVE  \E t \in Seq(Operation), u \in Seq(Emptying) :
               /\ queue' = queue \o t /\ urgent' = urgent \o u
               /\ DOMAIN t = 1 .. times /\ \A j \in DOMAIN t : t[j] = Op("set_sv", s)
               /\ \A j \in DOMAIN u : u[j] = Op("fix_sv", s)
               /\ expected' = [expected EXCEPT !.sv = TRUE]
<1>1. Op("set_sv", s) \in Operation
  BY OpIsOperation DEF Statement
<1>2. Op("fix_sv", s) \in Emptying
  BY DEF SessionTypes, Op, Emptying, Members
<1>3. PICK t : t = [i \in 1 .. times |-> Op("set_sv", s)]
  OBVIOUS
<1>4. PICK u : u = [i \in 1 .. times |-> Op("fix_sv", s)]
  OBVIOUS
<1>5. t \in Seq(Operation)
  <2>1. t \in [1 .. times -> Operation]
    BY <1>1, <1>3
  <2> QED
    BY <2>1
<1>6. u \in Seq(Emptying)
  <2>1. u \in [1 .. times -> Emptying]
    BY <1>2, <1>4
  <2> QED
    BY <2>1
<1>7. /\ queue' = queue \o t /\ urgent' = urgent \o u
      /\ expected' = [expected EXCEPT !.sv = TRUE]
  BY <1>3, <1>4 DEF set_vs
<1>8. DOMAIN t = 1 .. times /\ \A j \in DOMAIN t : t[j] = Op("set_sv", s)
  BY <1>3
<1>9. \A j \in DOMAIN u : u[j] = Op("fix_sv", s)
  BY <1>4
<1> QED
  BY <1>5, <1>6, <1>7, <1>8, <1>9

(* It is for the account if the session is its.                            *)
LEMMA SetVsKnows ==
    ASSUME SessionTypes, NEW s \in Session, NEW times \in Nat, set_vs(s, times),
           socket[s].login = "account"
    PROVE  /\ \A i \in DOMAIN queue' :
                  (\E j \in DOMAIN queue : queue'[i] = queue[j]) \/ Knows(queue'[i], socket')
           /\ \A i \in DOMAIN urgent' :
                  (\E j \in DOMAIN urgent : urgent'[i] = urgent[j]) \/ Knows(urgent'[i], socket')
<1>1. PICK t \in Seq(Operation), u \in Seq(Emptying) :
          /\ queue' = queue \o t /\ urgent' = urgent \o u
          /\ DOMAIN t = 1 .. times /\ \A j \in DOMAIN t : t[j] = Op("set_sv", s)
          /\ \A j \in DOMAIN u : u[j] = Op("fix_sv", s)
          /\ expected' = [expected EXCEPT !.sv = TRUE]
  BY SetVsIs
<1>2. Knows(Op("set_sv", s), socket') /\ Knows(Op("fix_sv", s), socket')
  BY DEF Knows, Op
<1>3. /\ queue \in Seq(Operation) /\ queue' = queue \o t
      /\ urgent \in Seq(Emptying) /\ urgent' = urgent \o u
  BY <1>1 DEF SessionTypes
<1>4. /\ \A i \in DOMAIN queue' : i \in DOMAIN queue \/ \E j \in DOMAIN t : queue'[i] = t[j]
      /\ \A i \in DOMAIN queue : queue'[i] = queue[i]
  BY <1>3, Behind
<1>5. /\ \A i \in DOMAIN urgent' : i \in DOMAIN urgent \/ \E j \in DOMAIN u : urgent'[i] = u[j]
      /\ \A i \in DOMAIN urgent : urgent'[i] = urgent[i]
  BY <1>3, Behind
<1> QED
  BY <1>1, <1>2, <1>4, <1>5

LEMMA IpBanKnows ==
    ASSUME SessionTypes, LoginInv, NEW w \in Worker, ip_ban_checked(w)
    PROVE  LoginInv'
<1>1. PICK s \in Session : s = doing[w].s
  BY CallbackIs DEF ip_ban_checked, CallsBack
<1>2. /\ doing' = [doing EXCEPT ![w] = Idle] /\ urgent' = urgent
      /\ queue' = Append(queue, Op("get_account", s)) \/ queue' = queue
      /\ \E banned : socket' = [socket EXCEPT ![s].answered = @ \/ banned]
  BY <1>1 DEF ip_ban_checked, CallsBack
<1>3. PICK b \in BOOLEAN : socket' = [socket EXCEPT ![s].answered = b]
  <2>1. PICK banned : socket' = [socket EXCEPT ![s].answered = @ \/ banned]
    BY <1>2
  <2>2. PICK b : b = (socket[s].answered \/ banned)
    OBVIOUS
  <2> QED
    BY <2>1, <2>2 DEF SessionTypes
<1>4. PICK m : m = [socket[s] EXCEPT !.answered = b]
  OBVIOUS
<1>5. /\ m \in Members /\ KnownFirst(m) /\ socket' = [socket EXCEPT ![s] = m]
      /\ m.login = socket[s].login /\ m.challenged = socket[s].challenged
  BY <1>3, <1>4, OtherMembers
<1>6. socket'[s].login = socket[s].login
  BY <1>5, MembersChange DEF SessionTypes
<1>7. \A i \in DOMAIN queue' :
          (\E j \in DOMAIN queue : queue'[i] = queue[j]) \/ Knows(queue'[i], socket')
  <2>1. PICK o : o = Op("get_account", s)
    OBVIOUS
  <2>2. o \in Operation
    BY <2>1, OpIsOperation DEF Query
  <2>3. o.op = "get_account" /\ o.s = s /\ o.login = socket[s].login
    BY <2>1 DEF Op
  <2>4. Knows(o, socket')
    BY <1>6, <2>3 DEF Knows
  <2>5. CASE queue' = queue
    BY <2>5
  <2>6. CASE queue' = Append(queue, o)
    <3>1. queue \in Seq(Operation)
      BY DEF SessionTypes
    <3> QED
      BY <2>2, <2>4, <2>6, <3>1, BehindOne
  <2> QED
    BY <1>2, <2>1, <2>5, <2>6
<1> QED
  BY <1>2, <1>5, <1>7, IdleIsDone, IdleKnows, WorkerKnows

(* A session gets a challenge only for the account, and not a second one   *)
(* before it has set its state.                                            *)
LEMMA AccountKnows ==
    ASSUME SessionTypes, SessionInv, LoginInv, NEW w \in Worker, account_checked(w)
    PROVE  LoginInv'
<1>1. PICK s \in Session : s = doing[w].s
  BY CallbackIs DEF account_checked, CallsBack
<1>2. /\ doing' = [doing EXCEPT ![w] = Idle]
      /\ doing[w].op = "callback" /\ doing[w].of = "get_account"
  BY DEF account_checked, CallsBack
<1>3. PICK exists, challenge :
          /\ socket' = [socket EXCEPT
                ![s].answered = TRUE,
                ![s].failed = IF exists THEN as_uint8(doing[w].result.failed) ELSE @,
                ![s].challenged = @ \/ challenge]
          /\ exists <=> doing[w].result.is = "EXISTS"
          /\ challenge => exists
          /\ IF challenge THEN set_vs(s, 1) ELSE UNCHANGED <<urgent, queue, expected>>
  BY <1>1 DEF account_checked
<1>4. socket \in [Session -> Members] /\ socket[s] \in Members
  BY DEF SessionTypes
<1>5. PICK f : f = IF exists THEN as_uint8(doing[w].result.failed) ELSE socket[s].failed
  OBVIOUS
<1>6. f \in Counter
  <2>1. socket[s].failed \in Counter
    BY <1>4 DEF Members
  <2>2. exists => doing[w].result.failed \in Nat
    BY <1>2, <1>3, CallbackIs DEF IsAnswer
  <2> QED
    BY <1>5, <2>1, <2>2, CounterValues, SessionAssumption
<1>7. PICK c : c = (socket[s].challenged \/ challenge)
  OBVIOUS
<1>8. c \in BOOLEAN
  BY <1>7
<1>9. PICK m : m = [socket[s] EXCEPT !.answered = TRUE, !.failed = f, !.challenged = c]
  OBVIOUS
<1>10. socket' = [socket EXCEPT ![s] = m]
  BY <1>3, <1>4, <1>5, <1>7, <1>9
<1>11. /\ m \in Members /\ m.login = socket[s].login /\ m.challenged = c
       /\ m.state = socket[s].state /\ m.handling = socket[s].handling /\ m.failed = f
  BY <1>4, <1>6, <1>8, <1>9 DEF Members
<1>12. exists => socket[s].login = "account"
  BY <1>1, <1>2, <1>3 DEF LoginInv, Knows
<1>13. ~Challengeable(s)
  <2>1. IsLoading(s)
    BY <1>1, <1>2 DEF LoadsFor, Loads, Loading, IsLoading
  <2> QED
    BY <2>1 DEF SessionInv, CounterOfLoad
<1>14. KnownFirst(m)
  BY <1>3, <1>5, <1>7, <1>11, <1>12, <1>13 DEF KnownFirst, LoginInv, Challengeable
<1>15. /\ \A i \in DOMAIN queue' :
              (\E j \in DOMAIN queue : queue'[i] = queue[j]) \/ Knows(queue'[i], socket')
       /\ \A i \in DOMAIN urgent' :
              (\E j \in DOMAIN urgent : urgent'[i] = urgent[j]) \/ Knows(urgent'[i], socket')
  <2>1. CASE challenge
    <3>1. set_vs(s, 1) /\ socket[s].login = "account"
      BY <1>3, <1>12, <2>1
    <3> QED
      BY <3>1, SetVsKnows
  <2>2. CASE ~challenge
    <3>1. queue' = queue /\ urgent' = urgent
      BY <1>3, <2>2
    <3> QED
      BY <3>1
  <2> QED
    BY <2>1, <2>2
<1> QED
  BY <1>2, <1>10, <1>11, <1>14, <1>15, IdleIsDone, IdleKnows, WorkerKnows

LEMMA CharsKnows ==
    ASSUME SessionTypes, LoginInv, NEW w \in Worker,
           \/ get_char_amount(w)
           \/ get_char_amount_of_unsupported_build(w)
           \/ get_sessionkey(w)
    PROVE  LoginInv'
<1>1. PICK s \in Session : s = doing[w].s
  BY CallbackIs DEF get_char_amount, get_char_amount_of_unsupported_build, get_sessionkey,
                    CallsBack
<1>2. doing' = [doing EXCEPT ![w] = Idle] /\ doing[w].op = "callback"
  BY DEF get_char_amount, get_char_amount_of_unsupported_build, get_sessionkey, CallsBack
<1>3. CASE get_char_amount(w)
  <2>1. /\ \E b \in BOOLEAN : socket' = [socket EXCEPT ![s].listed = doing[w].result \/ b]
        /\ set_vs(s, IF doing[w].result THEN 1 ELSE 2)
        /\ Loaded(s)
    BY <1>1, <1>3 DEF get_char_amount
  <2>2. PICK b \in BOOLEAN : socket' = [socket EXCEPT ![s].listed = b]
    BY <2>1
  <2>3. PICK m : m = [socket[s] EXCEPT !.listed = b]
    OBVIOUS
  <2>4. /\ m \in Members /\ KnownFirst(m) /\ socket' = [socket EXCEPT ![s] = m]
        /\ m.login = socket[s].login /\ m.challenged = socket[s].challenged
    BY <2>2, <2>3, OtherMembers
  <2>5. socket[s].login = "account"
    BY <2>1 DEF LoginInv, KnownFirst, Loaded
  <2>6. PICK times \in Nat : times = IF doing[w].result THEN 1 ELSE 2
    OBVIOUS
  <2>7. /\ \A i \in DOMAIN queue' :
               (\E j \in DOMAIN queue : queue'[i] = queue[j]) \/ Knows(queue'[i], socket')
        /\ \A i \in DOMAIN urgent' :
               (\E j \in DOMAIN urgent : urgent'[i] = urgent[j]) \/ Knows(urgent'[i], socket')
    BY <2>1, <2>5, <2>6, SetVsKnows
  <2> QED
    BY <1>2, <2>4, <2>7, IdleIsDone, IdleKnows, WorkerKnows
<1>4. CASE get_sessionkey(w) \/ get_char_amount_of_unsupported_build(w)
  <2>1. queue' = queue /\ urgent' = urgent
    BY <1>4 DEF get_sessionkey, get_char_amount_of_unsupported_build
  <2>2. socket' = [socket EXCEPT ![s].state = "NEED_RPROOF"] \/ die(s)
    BY <1>1, <1>4 DEF get_sessionkey, get_char_amount_of_unsupported_build
  <2>3. PICK state \in {"NEED_RPROOF", "CLOSING"}, owned \in BOOLEAN : SetState(s, state, owned)
    BY <2>2, SetStateOf
  <2>4. state \in ConnectionState \ {"CONNECTED"}
    BY DEF ConnectionState
  <2>5. PICK m : m = [socket[s] EXCEPT !.state = state, !.owned = owned]
    OBVIOUS
  <2>6. /\ m \in Members /\ KnownFirst(m) /\ socket' = [socket EXCEPT ![s] = m]
        /\ m.login = socket[s].login /\ m.challenged = socket[s].challenged
    BY <2>3, <2>4, <2>5, OtherMembers DEF SetState
  <2> QED
    BY <1>2, <2>1, <2>6, IdleIsDone, IdleKnows, WorkerKnows
<1> QED
  BY <1>3, <1>4

LEMMA FreshKnows == Fresh => LoginInv
<1> SUFFICES ASSUME Fresh PROVE LoginInv
  OBVIOUS
<1>1. queue = <<>> /\ urgent = <<>>
  BY DEF Fresh
<1>2. \A w \in Worker : doing[w] = Idle
  BY DEF Fresh
<1>3. ASSUME NEW s \in Session
      PROVE  socket[s].challenged = FALSE /\ ~(socket[s].failed >= 0)
  <2>1. socket[s].challenged = FALSE /\ socket[s].failed = -1
    BY DEF Fresh, Closed
  <2>2. ~(socket[s].failed >= 0)
    BY <2>1
  <2> QED
    BY <2>1, <2>2
<1>4. DOMAIN queue = {} /\ DOMAIN urgent = {}
  BY <1>1
<1>5. \A s \in Session : KnownFirst(socket[s])
  BY <1>3 DEF KnownFirst
<1>6. \A w \in Worker : Knows(doing[w], socket)
  BY <1>2, IdleKnows
<1> QED
  BY <1>4, <1>5, <1>6 DEF LoginInv

(* Each step keeps what is known.                                          *)
LEMMA NextKnows == SessionTypes /\ SessionInv /\ LoginInv /\ [Next]_vars => LoginInv'
<1> SUFFICES ASSUME SessionTypes, SessionInv, LoginInv, [Next]_vars
             PROVE  LoginInv'
  OBVIOUS
<1>1. ASSUME NEW s \in Session, ClientStep(s) \/ state_set(s)
      PROVE  LoginInv'
  <2>1. CASE open(s)
    BY <2>1, OpenKnows
  <2>2. CASE handle_close(s) \/ state_set(s) \/ handle_auth_reconnect_proof(s)
    BY <2>2, EndKnows
  <2>3. CASE right_proof(s) \/ handle_realm_list(s)
    BY <2>3, ProofKnows
  <2>4. ASSUME NEW name \in {"account", "unknown"},
               \/ unsupported_build(s, name)
               \/ handle_auth_logon_challenge(s, name)
               \/ handle_auth_reconnect_challenge(s, name)
        PROVE  LoginInv'
    BY <2>4, ChallengeKnows
  <2>5. CASE wrong_proof(s)
    BY <2>5, WrongKnows
  <2> QED
    BY <1>1, <2>1, <2>2, <2>3, <2>4, <2>5 DEF ClientStep
<1>2. ASSUME NEW w \in Worker, WorkerStep(w)
      PROVE  LoginInv'
  <2>1. CASE dequeue(w)
    <3>1. doing[w] = Idle /\ (urgent # <<>> \/ queue # <<>>)
      BY <2>1 DEF dequeue
    <3>2. PICK s : s \in Session
      <4>1. CASE urgent # <<>>
        BY <4>1, OwnSession, Shifted DEF SessionTypes
      <4>2. CASE queue # <<>>
        BY <4>2, OwnSession, Shifted DEF SessionTypes
      <4> QED
        BY <3>1, <4>1, <4>2
    <3> QED
      BY <2>1, <3>2, DequeueKnows
  <2>2. CASE execute_statement(w) \/ execution_fails(w) \/ execute_query(w)
    BY <2>2, ExecuteKnows
  <2>3. CASE ip_ban_checked(w)
    BY <2>3, IpBanKnows
  <2>4. CASE account_checked(w)
    BY <2>4, AccountKnows
  <2>5. CASE \/ get_char_amount(w)
             \/ get_char_amount_of_unsupported_build(w)
             \/ get_sessionkey(w)
    BY <2>5, CharsKnows
  <2>6. CASE get_char_amount_without_account(w)
    BY <2>6, Restarted, FreshKnows, PTL
  <2> QED
    BY <1>2, <2>1, <2>2, <2>3, <2>4, <2>5, <2>6 DEF WorkerStep
<1>3. CASE UNCHANGED vars
  <2>1. UNCHANGED <<socket, urgent, queue, doing>>
    BY <1>3 DEF vars
  <2> QED
    BY <2>1 DEF LoginInv, Knows, KnownFirst
<1> QED
  BY <1>1, <1>2, <1>3 DEF Next

-----------------------------------------------------------------------------
(* The row of the account, and what is to come of it.                      *)

(* What an operation makes of the failures counted and the key.            *)
Effect(o, row) ==
    CASE o.op = "update_account" -> [count |-> 0, key |-> o.s]
      [] o.op = "increment_failed_logins" -> [row EXCEPT !.count = @ + 1]
      [] OTHER -> row

Value == [count : Nat, key : Session \union {"none"}]
Written == [count |-> account.failed_logins, key |-> account.sessionkey]
Wanted == [count |-> expected.failed_logins, key |-> expected.sessionkey]

(* A key is the last one if none is written behind it.                     *)
KeyKept(q, rows) ==
    \A i \in 0 .. Len(q) :
        (\A j \in i + 1 .. Len(q) : q[j].op # "update_account")
            => rows[i].key = rows[Len(q)].key

(* The operations of q, one after the other, lead from one row to another. *)
Leads(q, first, last) ==
    \E rows \in [0 .. Len(q) -> Value] :
        /\ rows[0] = first /\ rows[Len(q)] = last
        /\ \A i \in 1 .. Len(q) : rows[i] = Effect(q[i], rows[i - 1])
        /\ KeyKept(q, rows)

(* The row once the worker is done.                                        *)
FirstIs(f) ==
    /\ Worker = {} => f = Written
    /\ \A w \in Worker : f = Effect(doing[w], Written)

CountLeads == \E f \in Value : FirstIs(f) /\ Leads(queue, f, Wanted)

SetWaits == \E i \in DOMAIN queue : queue[i].op = "set_sv"
Does(op) == \E w \in Worker : doing[w].op = op

(* An emptying is always followed by a setting that still waits.           *)
SetFollows ==
    /\ \A i \in DOMAIN queue : queue[i].op # "fix_sv"
    /\ account.sv \/ SetWaits \/ Does("set_sv") <=> expected.sv
    /\ urgent # <<>> \/ Does("fix_sv") => SetWaits

ExpectedTypes ==
    expected \in [failed_logins : Nat, sessionkey : Session \union {"none"}, sv : BOOLEAN]

SettleInv ==
    /\ ExpectedTypes
    /\ failures = 0 => CountLeads /\ SetFollows

LEMMA EffectIs ==
    ASSUME NEW o, NEW row \in Value, o.op = "update_account" => o.s \in Session
    PROVE  /\ Effect(o, row) \in Value
           /\ o.op \notin {"update_account", "increment_failed_logins"} => Effect(o, row) = row
           /\ o.op = "update_account" => Effect(o, row) = [count |-> 0, key |-> o.s]
           /\ o.op = "increment_failed_logins" =>
                  Effect(o, row) = [row EXCEPT !.count = @ + 1]
<1>1. CASE o.op = "update_account"
  <2>1. Effect(o, row) = [count |-> 0, key |-> o.s]
    BY <1>1 DEF Effect
  <2> QED
    BY <1>1, <2>1 DEF Value
<1>2. CASE o.op = "increment_failed_logins"
  <2>1. Effect(o, row) = [row EXCEPT !.count = @ + 1]
    BY <1>2 DEF Effect
  <2> QED
    BY <1>2, <2>1 DEF Value
<1>3. CASE o.op \notin {"update_account", "increment_failed_logins"}
  <2>1. Effect(o, row) = row
    BY <1>3 DEF Effect
  <2> QED
    BY <1>3, <2>1
<1> QED
  BY <1>1, <1>2, <1>3

LEMMA RowsAreValues ==
    /\ SessionTypes => Written \in Value
    /\ ExpectedTypes => Wanted \in Value
BY DEF SessionTypes, Row, ExpectedTypes, Written, Wanted, Value

(* One more operation leads on.                                            *)
LEMMA LeadsOn ==
    ASSUME NEW q \in Seq(Operation), NEW o \in Operation, NEW first, NEW last,
           Leads(q, first, last)
    PROVE  Leads(Append(q, o), first, Effect(o, last))
<1>1. PICK rows \in [0 .. Len(q) -> Value] :
          /\ rows[0] = first /\ rows[Len(q)] = last
          /\ \A i \in 1 .. Len(q) : rows[i] = Effect(q[i], rows[i - 1])
          /\ KeyKept(q, rows)
  BY DEF Leads
<1>2. PICK n \in Nat : n = Len(q)
  BY LenProperties
<1>3. PICK r : r = Append(q, o)
  OBVIOUS
<1>4. /\ Len(r) = n + 1 /\ r[n + 1] = o
      /\ \A i \in 1 .. n : r[i] = q[i]
  BY <1>2, <1>3, AppendProperties
<1>5. last \in Value /\ Effect(o, last) \in Value
  <2>1. last \in Value
    BY <1>1, <1>2
  <2>2. o.s \in Session
    BY DEF Operation
  <2> QED
    BY <2>1, <2>2, EffectIs
<1>6. PICK next \in Value : next = Effect(o, last)
  BY <1>5
<1>7. PICK more : more = [i \in 0 .. n + 1 |-> IF i = n + 1 THEN next ELSE rows[i]]
  OBVIOUS
<1>8. more \in [0 .. n + 1 -> Value]
  <2>1. \A i \in 0 .. n + 1 : i # n + 1 => i \in 0 .. n
    OBVIOUS
  <2>2. \A i \in 0 .. n : rows[i] \in Value
    BY <1>1, <1>2
  <2> QED
    BY <1>7, <2>1, <2>2
<1>9. more[0] = first /\ more[n + 1] = next
  BY <1>1, <1>2, <1>7
<1>10. ASSUME NEW i \in 1 .. n + 1
       PROVE  more[i] = Effect(r[i], more[i - 1])
  <2>1. i - 1 \in 0 .. n + 1 /\ i - 1 # n + 1
    OBVIOUS
  <2>2. more[i - 1] = rows[i - 1]
    BY <1>7, <2>1
  <2>3. CASE i = n + 1
    <3>1. more[i] = next /\ rows[i - 1] = last /\ r[i] = o
      BY <1>1, <1>2, <1>4, <1>9, <2>3
    <3> QED
      BY <1>6, <2>2, <3>1
  <2>4. CASE i # n + 1
    <3>1. i \in 1 .. n /\ more[i] = rows[i] /\ r[i] = q[i]
      BY <1>4, <1>7, <2>4
    <3> QED
      BY <1>1, <1>2, <2>2, <3>1
  <2> QED
    BY <2>3, <2>4
<1>11. ASSUME NEW i \in 0 .. n + 1, \A j \in i + 1 .. n + 1 : r[j].op # "update_account"
       PROVE  more[i].key = next.key
  <2>1. CASE i = n + 1
    BY <1>9, <2>1
  <2>2. CASE i # n + 1
    <3>1. i \in 0 .. n /\ more[i] = rows[i] /\ n + 1 \in i + 1 .. n + 1
      BY <1>7, <2>2
    <3>2. \A j \in i + 1 .. n : j \in 1 .. n /\ j \in i + 1 .. n + 1
      BY <3>1
    <3>3. \A j \in i + 1 .. n : q[j].op # "update_account"
      BY <1>4, <1>11, <3>2
    <3>4. rows[i].key = last.key
      BY <1>1, <1>2, <3>1, <3>3 DEF KeyKept
    <3>5. o.op # "update_account"
      BY <1>4, <1>11, <3>1
    <3>6. next.key = last.key
      BY <1>5, <1>6, <3>5 DEF Effect, Value
    <3> QED
      BY <3>1, <3>4, <3>6
  <2> QED
    BY <2>1, <2>2
<1>12. KeyKept(r, more)
  BY <1>4, <1>9, <1>11 DEF KeyKept
<1>13. Leads(r, first, next)
  BY <1>4, <1>8, <1>9, <1>10, <1>12 DEF Leads
<1> QED
  BY <1>3, <1>6, <1>13

(* Operations without effect lead no further.                              *)
LEMMA LeadsAsFar ==
    ASSUME NEW q \in Seq(Operation), NEW t \in Seq(Operation), NEW first, NEW last,
           Leads(q, first, last),
           \A j \in DOMAIN t : t[j].op \notin {"update_account", "increment_failed_logins"}
    PROVE  Leads(q \o t, first, last)
<1>1. PICK rows \in [0 .. Len(q) -> Value] :
          /\ rows[0] = first /\ rows[Len(q)] = last
          /\ \A i \in 1 .. Len(q) : rows[i] = Effect(q[i], rows[i - 1])
          /\ KeyKept(q, rows)
  BY DEF Leads
<1>2. PICK n \in Nat, k \in Nat : n = Len(q) /\ k = Len(t)
  BY LenProperties
<1>3. PICK r : r = q \o t
  OBVIOUS
<1>4. /\ Len(r) = n + k
      /\ \A i \in 1 .. n + k : r[i] = IF i <= n THEN q[i] ELSE t[i - n]
  BY <1>2, <1>3, ConcatProperties
<1>5. last \in Value
  BY <1>1, <1>2
<1>6. PICK more : more = [i \in 0 .. n + k |-> IF i <= n THEN rows[i] ELSE last]
  OBVIOUS
<1>7. more \in [0 .. n + k -> Value]
  <2>1. \A i \in 0 .. n + k : i <= n => i \in 0 .. n
    OBVIOUS
  <2>2. \A i \in 0 .. n : rows[i] \in Value
    BY <1>1, <1>2
  <2> QED
    BY <1>5, <1>6, <2>1, <2>2
<1>8. more[0] = first
  BY <1>1, <1>6
<1>9. \A i \in n .. n + k : more[i] = last
  <2>1. ASSUME NEW i \in n .. n + k
        PROVE  more[i] = last
    <3>1. i \in 0 .. n + k
      OBVIOUS
    <3>2. CASE i = n
      BY <1>1, <1>2, <1>6, <3>1, <3>2
    <3>3. CASE i # n
      <4>1. ~(i <= n)
        BY <3>3
      <4> QED
        BY <1>6, <3>1, <4>1
    <3> QED
      BY <3>2, <3>3
  <2> QED
    BY <2>1
<1>10. ASSUME NEW i \in 1 .. n + k
       PROVE  more[i] = Effect(r[i], more[i - 1])
  <2>1. CASE i <= n
    <3>1. i \in 1 .. n /\ i \in 0 .. n + k /\ i - 1 \in 0 .. n + k /\ i - 1 <= n
      BY <2>1
    <3>2. more[i] = rows[i] /\ more[i - 1] = rows[i - 1]
      BY <1>6, <2>1, <3>1
    <3>3. r[i] = q[i]
      BY <1>4, <2>1
    <3> QED
      BY <1>1, <1>2, <3>1, <3>2, <3>3
  <2>2. CASE ~(i <= n)
    <3>1. i - n \in 1 .. k /\ i \in n .. n + k /\ i - 1 \in n .. n + k
      BY <2>2
    <3>2. r[i] = t[i - n]
      BY <1>4, <2>2
    <3>3. i - n \in DOMAIN t
      BY <1>2, <3>1, LenProperties
    <3>4. r[i].op \notin {"update_account", "increment_failed_logins"}
      BY <3>2, <3>3
    <3>5. Effect(r[i], last) = last
      BY <1>5, <3>4, EffectIs
    <3>6. more[i] = last /\ more[i - 1] = last
      BY <1>9, <3>1
    <3> QED
      BY <3>5, <3>6
  <2> QED
    BY <2>1, <2>2
<1>11. more[n + k] = last
  BY <1>9
<1>12. ASSUME NEW i \in 0 .. n + k, \A j \in i + 1 .. n + k : r[j].op # "update_account"
       PROVE  more[i].key = last.key
  <2>1. CASE i <= n
    <3>1. i \in 0 .. n /\ more[i] = rows[i]
      BY <1>6, <2>1
    <3>2. \A j \in i + 1 .. n : j \in 1 .. n + k /\ j \in i + 1 .. n + k /\ j <= n
      BY <3>1
    <3>3. \A j \in i + 1 .. n : q[j].op # "update_account"
      BY <1>4, <1>12, <3>2
    <3>4. rows[i].key = last.key
      BY <1>1, <1>2, <3>1, <3>3 DEF KeyKept
    <3> QED
      BY <3>1, <3>4
  <2>2. CASE ~(i <= n)
    BY <1>6, <2>2
  <2> QED
    BY <2>1, <2>2
<1>13. KeyKept(r, more)
  BY <1>4, <1>11, <1>12 DEF KeyKept
<1>14. Leads(r, first, last)
  BY <1>4, <1>7, <1>8, <1>10, <1>11, <1>13 DEF Leads
<1> QED
  BY <1>3, <1>14

(* The first operation leads to where the others go on.                    *)
LEMMA LeadsFromNext ==
    ASSUME NEW q \in Seq(Operation), q # <<>>, NEW first, NEW last, Leads(q, first, last)
    PROVE  Leads(Tail(q), Effect(Head(q), first), last) /\ Effect(Head(q), first) \in Value
<1>1. PICK rows \in [0 .. Len(q) -> Value] :
          /\ rows[0] = first /\ rows[Len(q)] = last
          /\ \A i \in 1 .. Len(q) : rows[i] = Effect(q[i], rows[i - 1])
          /\ KeyKept(q, rows)
  BY DEF Leads
<1>2. PICK n \in Nat : n + 1 = Len(q)
  <2>1. Len(q) \in Nat /\ Len(q) # 0
    BY EmptySeq, LenProperties
  <2> QED
    BY <2>1
<1>3. PICK r : r = Tail(q)
  OBVIOUS
<1>4. /\ Head(q) = q[1] /\ Len(r) = n
      /\ \A i \in 1 .. n : r[i] = q[i + 1]
  <2>1. /\ Head(q) = q[1] /\ Len(Tail(q)) = Len(q) - 1
        /\ \A i \in 1 .. Len(Tail(q)) : Tail(q)[i] = q[i + 1]
    BY HeadTailProperties
  <2>2. Len(Tail(q)) = n
    BY <1>2, <2>1
  <2> QED
    BY <1>3, <2>1, <2>2
<1>5. rows[1] = Effect(Head(q), first) /\ rows[1] \in Value
  <2>1. 1 \in 1 .. n + 1 /\ 1 - 1 = 0 /\ 1 \in 0 .. n + 1
    OBVIOUS
  <2> QED
    BY <1>1, <1>2, <1>4, <2>1
<1>6. PICK less : less = [i \in 0 .. n |-> rows[i + 1]]
  OBVIOUS
<1>7. less \in [0 .. n -> Value]
  <2>1. \A i \in 0 .. n : i + 1 \in 0 .. n + 1
    OBVIOUS
  <2>2. \A i \in 0 .. n + 1 : rows[i] \in Value
    BY <1>1, <1>2
  <2> QED
    BY <1>6, <2>1, <2>2
<1>8. less[0] = rows[1] /\ less[n] = last
  <2>1. 0 \in 0 .. n /\ n \in 0 .. n /\ 0 + 1 = 1
    OBVIOUS
  <2> QED
    BY <1>1, <1>2, <1>6, <2>1
<1>9. ASSUME NEW i \in 1 .. n
      PROVE  less[i] = Effect(r[i], less[i - 1])
  <2>1. /\ i \in 0 .. n /\ i - 1 \in 0 .. n /\ i + 1 \in 1 .. n + 1
        /\ (i - 1) + 1 = i /\ (i + 1) - 1 = i
    OBVIOUS
  <2>2. less[i] = rows[i + 1] /\ less[i - 1] = rows[i]
    BY <1>6, <2>1
  <2>3. rows[i + 1] = Effect(q[i + 1], rows[i])
    BY <1>1, <1>2, <2>1
  <2> QED
    BY <1>4, <2>2, <2>3
<1>10. ASSUME NEW i \in 0 .. n, \A j \in i + 1 .. n : r[j].op # "update_account"
       PROVE  less[i].key = last.key
  <2>1. less[i] = rows[i + 1] /\ i + 1 \in 0 .. n + 1
    BY <1>6
  <2>2. ASSUME NEW j \in (i + 1) + 1 .. n + 1
        PROVE  q[j].op # "update_account"
    <3>1. PICK k \in i + 1 .. n : k + 1 = j
      <4>1. j - 1 \in i + 1 .. n /\ (j - 1) + 1 = j
        OBVIOUS
      <4> QED
        BY <4>1
    <3>2. k \in 1 .. n
      OBVIOUS
    <3> QED
      BY <1>4, <1>10, <3>1, <3>2
  <2>3. \A j \in (i + 1) + 1 .. n + 1 : q[j].op # "update_account"
    BY <2>2
  <2>4. rows[i + 1].key = last.key
    BY <1>1, <1>2, <2>1, <2>3 DEF KeyKept
  <2> QED
    BY <2>1, <2>4
<1>11. KeyKept(r, less)
  BY <1>4, <1>8, <1>10 DEF KeyKept
<1>12. Leads(r, rows[1], last)
  BY <1>4, <1>7, <1>8, <1>9, <1>11 DEF Leads
<1> QED
  BY <1>3, <1>5, <1>12

LEMMA NothingLeads == ASSUME NEW first, NEW last, Leads(<<>>, first, last) PROVE first = last
<1>1. Len(<<>>) = 0
  OBVIOUS
<1> QED
  BY <1>1 DEF Leads

-----------------------------------------------------------------------------
(* The account, while operations are enqueued.                             *)

LEMMA LeadsAfter ==
    ASSUME NEW f \in Value, Worker = {} => f = Written',
           \A w \in Worker : f = Effect(doing'[w], Written'),
           Leads(queue', f, Wanted')
    PROVE  CountLeads'
BY DEF CountLeads, FirstIs, Leads, KeyKept, Effect, Value

(* Workers go on with what does not write.                                 *)
Calm(o) == o.op \notin Statement

StayCalm ==
    \A w \in Worker : doing'[w] = doing[w] \/ (Calm(doing[w]) /\ Calm(doing'[w]))

LEMMA CountGoesOn ==
    ASSUME SessionTypes, CountLeads, account' = account, StayCalm,
           \A f \in Value : Leads(queue, f, Wanted) => Leads(queue', f, Wanted')
    PROVE  CountLeads'
<1>1. PICK f \in Value : FirstIs(f) /\ Leads(queue, f, Wanted)
  BY DEF CountLeads
<1>2. Written' = Written /\ Written \in Value
  BY RowsAreValues DEF Written
<1>3. ASSUME NEW w \in Worker
      PROVE  f = Effect(doing'[w], Written)
  <2>1. f = Effect(doing[w], Written)
    BY <1>1 DEF FirstIs
  <2>2. CASE Calm(doing[w]) /\ Calm(doing'[w])
    <3>1. \A o : Calm(o) => o.op \notin {"update_account", "increment_failed_logins"}
      BY DEF Calm, Statement
    <3>2. Effect(doing[w], Written) = Written /\ Effect(doing'[w], Written) = Written
      BY <1>2, <2>2, <3>1, EffectIs
    <3> QED
      BY <2>1, <3>2
  <2> QED
    BY <2>1, <2>2 DEF StayCalm
<1>4. Worker = {} => f = Written
  BY <1>1 DEF FirstIs
<1>5. Leads(queue', f, Wanted')
  BY <1>1
<1> QED
  BY <1>2, <1>3, <1>4, <1>5, LeadsAfter

(* The emptying and the setting go on if both, or neither, are enqueued.   *)
LEMMA SetGoesOn ==
    ASSUME SessionTypes, SetFollows, account' = account, StayCalm,
           \A i \in DOMAIN queue : i \in DOMAIN queue' /\ queue'[i] = queue[i],
           \A i \in DOMAIN queue' : i \in DOMAIN queue \/ queue'[i].op # "fix_sv",
           \/ /\ urgent' = urgent /\ expected'.sv = expected.sv
              /\ \A i \in DOMAIN queue' : i \in DOMAIN queue \/ queue'[i].op # "set_sv"
           \/ /\ expected'.sv = TRUE
              /\ \E i \in DOMAIN queue' : queue'[i].op = "set_sv"
    PROVE  SetFollows'
<1>1. ASSUME NEW op \in Statement
      PROVE  (\E w \in Worker : doing'[w].op = op) <=> (\E w \in Worker : doing[w].op = op)
  BY DEF StayCalm, Calm
<1>2. "set_sv" \in Statement /\ "fix_sv" \in Statement
  BY DEF Statement
<1>3. /\ (\E w \in Worker : doing'[w].op = "set_sv") <=> Does("set_sv")
      /\ (\E w \in Worker : doing'[w].op = "fix_sv") <=> Does("fix_sv")
  BY <1>1, <1>2 DEF Does
<1>4. /\ \A i \in DOMAIN queue : queue[i].op # "fix_sv"
      /\ account.sv \/ SetWaits \/ Does("set_sv") <=> expected.sv
      /\ urgent # <<>> \/ Does("fix_sv") => SetWaits
  BY DEF SetFollows
<1>5. \A i \in DOMAIN queue' : queue'[i].op # "fix_sv"
  BY <1>4
<1>6. SetWaits => \E i \in DOMAIN queue' : queue'[i].op = "set_sv"
  BY DEF SetWaits
<1>7. CASE /\ urgent' = urgent /\ expected'.sv = expected.sv
           /\ \A i \in DOMAIN queue' : i \in DOMAIN queue \/ queue'[i].op # "set_sv"
  <2>1. (\E i \in DOMAIN queue' : queue'[i].op = "set_sv") => SetWaits
    BY <1>7 DEF SetWaits
  <2>2. /\ account'.sv \/ (\E i \in DOMAIN queue' : queue'[i].op = "set_sv")
                       \/ (\E w \in Worker : doing'[w].op = "set_sv") <=> expected'.sv
        /\ urgent' # <<>> \/ (\E w \in Worker : doing'[w].op = "fix_sv")
               => \E i \in DOMAIN queue' : queue'[i].op = "set_sv"
    BY <1>3, <1>4, <1>6, <1>7, <2>1
  <2> QED
    BY <1>5, <2>2 DEF SetFollows, SetWaits, Does
<1>8. CASE /\ expected'.sv = TRUE
           /\ \E i \in DOMAIN queue' : queue'[i].op = "set_sv"
  BY <1>5, <1>8 DEF SetFollows, SetWaits, Does
<1> QED
  BY <1>7, <1>8

(* What the row is to become changes with what is enqueued.                *)
LEMMA SettleGrows ==
    ASSUME SessionTypes, SettleInv, ExpectedTypes', StayCalm,
           account' = account, failures' = failures,
           \A f \in Value : Leads(queue, f, Wanted) => Leads(queue', f, Wanted'),
           \A i \in DOMAIN queue : i \in DOMAIN queue' /\ queue'[i] = queue[i],
           \A i \in DOMAIN queue' : i \in DOMAIN queue \/ queue'[i].op # "fix_sv",
           \/ /\ urgent' = urgent /\ expected'.sv = expected.sv
              /\ \A i \in DOMAIN queue' : i \in DOMAIN queue \/ queue'[i].op # "set_sv"
           \/ /\ expected'.sv = TRUE
              /\ \E i \in DOMAIN queue' : queue'[i].op = "set_sv"
    PROVE  SettleInv'
<1>1. SUFFICES ASSUME failures = 0
               PROVE  CountLeads' /\ SetFollows'
  BY DEF SettleInv
<1>2. CountLeads /\ SetFollows
  BY <1>1 DEF SettleInv
<1>3. CountLeads'
  BY <1>2, CountGoesOn
<1>4. SetFollows'
  BY <1>2, SetGoesOn
<1> QED
  BY <1>3, <1>4

(* Nothing is enqueued.                                                    *)
LEMMA SettleSame ==
    ASSUME SessionTypes, SettleInv, StayCalm,
           UNCHANGED <<queue, urgent, account, expected, failures>>
    PROVE  SettleInv'
<1>1. ExpectedTypes' /\ Wanted' = Wanted
  BY DEF SettleInv, ExpectedTypes, Wanted
<1> QED
  BY <1>1, SettleGrows

(* An operation is.                                                        *)
LEMMA SettleOne ==
    ASSUME SessionTypes, SettleInv, ExpectedTypes', StayCalm,
           UNCHANGED <<urgent, account, failures>>,
           NEW o \in Operation, o.op \notin {"fix_sv", "set_sv"},
           queue' = Append(queue, o),
           Wanted' = Effect(o, Wanted), expected'.sv = expected.sv
    PROVE  SettleInv'
<1>1. queue \in Seq(Operation)
  BY DEF SessionTypes
<1>2. \A f \in Value : Leads(queue, f, Wanted) => Leads(queue', f, Wanted')
  BY <1>1, LeadsOn
<1>3. /\ \A i \in DOMAIN queue : i \in DOMAIN queue' /\ queue'[i] = queue[i]
      /\ \A i \in DOMAIN queue' : i \in DOMAIN queue \/ queue'[i] = o
  BY <1>1, BehindOne
<1>4. /\ \A i \in DOMAIN queue' : i \in DOMAIN queue \/ queue'[i].op # "fix_sv"
      /\ \A i \in DOMAIN queue' : i \in DOMAIN queue \/ queue'[i].op # "set_sv"
  BY <1>3
<1> QED
  BY <1>2, <1>3, <1>4, SettleGrows

(* An operation that writes neither count, key, s nor v.                   *)
LEMMA SettleOther ==
    ASSUME SessionTypes, SettleInv, StayCalm,
           UNCHANGED <<urgent, account, failures, expected>>,
           NEW o \in Operation, o.op \in Query, queue' = Append(queue, o)
    PROVE  SettleInv'
<1>1. /\ o.op \notin {"fix_sv", "set_sv"}
      /\ o.op \notin {"update_account", "increment_failed_logins"}
  BY DEF Query
<1>2. ExpectedTypes' /\ Wanted' = Wanted /\ Wanted \in Value
  BY RowsAreValues DEF SettleInv, ExpectedTypes, Wanted
<1>3. Wanted' = Effect(o, Wanted)
  BY <1>1, <1>2, EffectIs
<1> QED
  BY <1>1, <1>2, <1>3, SettleOne

(* set_vs.                                                                 *)
LEMMA SettleSetVs ==
    ASSUME SessionTypes, SettleInv, StayCalm, NEW s \in Session, NEW times \in Nat \ {0},
           set_vs(s, times), UNCHANGED <<account, failures>>
    PROVE  SettleInv'
<1>1. PICK t \in Seq(Operation), u \in Seq(Emptying) :
          /\ queue' = queue \o t /\ urgent' = urgent \o u
          /\ DOMAIN t = 1 .. times /\ \A j \in DOMAIN t : t[j] = Op("set_sv", s)
          /\ \A j \in DOMAIN u : u[j] = Op("fix_sv", s)
          /\ expected' = [expected EXCEPT !.sv = TRUE]
  BY SetVsIs
<1>2. queue \in Seq(Operation) /\ queue' = queue \o t
  BY <1>1 DEF SessionTypes
<1>3. \A j \in DOMAIN t : t[j].op = "set_sv"
  BY <1>1 DEF Op
<1>4. ExpectedTypes' /\ Wanted' = Wanted /\ expected'.sv = TRUE
  BY <1>1 DEF SettleInv, ExpectedTypes, Wanted
<1>5. ASSUME NEW f \in Value, Leads(queue, f, Wanted)
      PROVE  Leads(queue', f, Wanted')
  <2>1. \A j \in DOMAIN t : t[j].op \notin {"update_account", "increment_failed_logins"}
    BY <1>3
  <2>2. Leads(queue \o t, f, Wanted)
    BY <1>2, <1>5, <2>1, LeadsAsFar
  <2> QED
    BY <1>2, <1>4, <2>2
<1>6. /\ \A i \in DOMAIN queue : i \in DOMAIN queue' /\ queue'[i] = queue[i]
      /\ \A i \in DOMAIN queue' : i \in DOMAIN queue \/ \E j \in DOMAIN t : queue'[i] = t[j]
      /\ \A j \in DOMAIN t : \E i \in DOMAIN queue' : queue'[i] = t[j]
  BY <1>2, Behind
<1>7. \A i \in DOMAIN queue' : i \in DOMAIN queue \/ queue'[i].op # "fix_sv"
  BY <1>3, <1>6
<1>8. \E i \in DOMAIN queue' : queue'[i].op = "set_sv"
  <2>1. 1 \in DOMAIN t
    BY <1>1
  <2> QED
    BY <1>3, <1>6, <2>1
<1> QED
  BY <1>4, <1>5, <1>6, <1>7, <1>8, SettleGrows

(* A wrong proof.                                                          *)
LEMMA SettleWrong ==
    ASSUME SessionTypes, SettleInv, NEW s \in Session, wrong_proof(s)
    PROVE  SettleInv'
<1>1. PICK wrong \in BOOLEAN, failed \in Counter, hits \in BOOLEAN,
           half \in Seq(Operation), ban \in Seq(Operation) :
          /\ failed >= 0 => socket[s].failed >= 0
          /\ socket' = [socket EXCEPT ![s] = [socket[s] EXCEPT !.wrong = wrong, !.failed = failed]]
          /\ half = IF hits THEN Append(queue, Op("increment_failed_logins", s)) ELSE queue
          /\ \A j \in DOMAIN ban : ban[j] = Op("ban_failed_logins", s)
          /\ queue' = half \o ban
          /\ expected' = IF hits THEN [expected EXCEPT !.failed_logins = @ + 1] ELSE expected
          /\ UNCHANGED <<urgent, doing, account, failures>>
  BY WrongProofIs
<1>2. /\ queue \in Seq(Operation) /\ queue' = half \o ban
      /\ \A j \in DOMAIN ban : ban[j].op = "ban_failed_logins"
  BY <1>1 DEF SessionTypes, Op
<1>3. PICK o \in Operation : o = Op("increment_failed_logins", s)
                             /\ o.op = "increment_failed_logins"
  BY OpIsOperation DEF Statement
<1>4. ExpectedTypes' /\ expected'.sv = expected.sv
  <2>1. ExpectedTypes
    BY DEF SettleInv
  <2>2. expected' = IF hits THEN [expected EXCEPT !.failed_logins = @ + 1] ELSE expected
    BY <1>1
  <2> QED
    BY <2>1, <2>2 DEF ExpectedTypes
<1>5. Wanted' = IF hits THEN Effect(o, Wanted) ELSE Wanted
  <2>1. Wanted \in Value
    BY RowsAreValues DEF SettleInv
  <2>2. Effect(o, Wanted) = [Wanted EXCEPT !.count = @ + 1]
    BY <1>3, <2>1, EffectIs
  <2> QED
    BY <1>1, <2>2 DEF SettleInv, ExpectedTypes, Wanted
<1>6. ASSUME NEW f \in Value, Leads(queue, f, Wanted)
      PROVE  Leads(queue', f, Wanted')
  <2>1. Leads(half, f, Wanted')
    BY <1>1, <1>2, <1>3, <1>5, <1>6, LeadsOn
  <2>2. \A j \in DOMAIN ban : ban[j].op \notin {"update_account", "increment_failed_logins"}
    BY <1>2
  <2>3. Leads(half \o ban, f, Wanted')
    BY <2>1, <2>2, LeadsAsFar
  <2> QED
    BY <1>2, <2>3
<1>7. /\ \A i \in DOMAIN queue : i \in DOMAIN half /\ half[i] = queue[i]
      /\ \A i \in DOMAIN half : i \in DOMAIN queue \/ half[i].op = "increment_failed_logins"
  <2>1. CASE hits
    BY <1>1, <1>2, <1>3, <2>1, BehindOne
  <2>2. CASE ~hits
    BY <1>1, <2>2
  <2> QED
    BY <2>1, <2>2
<1>8. /\ \A i \in DOMAIN half : i \in DOMAIN queue' /\ queue'[i] = half[i]
      /\ \A i \in DOMAIN queue' : i \in DOMAIN half \/ \E j \in DOMAIN ban : queue'[i] = ban[j]
  BY <1>2, Behind
<1>9. \A i \in DOMAIN queue' :
          \/ i \in DOMAIN queue
          \/ queue'[i].op \in {"increment_failed_logins", "ban_failed_logins"}
  BY <1>2, <1>7, <1>8
<1>10. /\ \A i \in DOMAIN queue' : i \in DOMAIN queue \/ queue'[i].op # "fix_sv"
       /\ \A i \in DOMAIN queue' : i \in DOMAIN queue \/ queue'[i].op # "set_sv"
  BY <1>9
<1>11. \A i \in DOMAIN queue : i \in DOMAIN queue' /\ queue'[i] = queue[i]
  BY <1>7, <1>8
<1>12. StayCalm /\ account' = account /\ failures' = failures /\ urgent' = urgent
  BY <1>1 DEF StayCalm
<1> QED
  BY <1>4, <1>6, <1>10, <1>11, <1>12, SettleGrows

(* A packet, or a connection.                                              *)
LEMMA ClientSettles ==
    ASSUME SessionTypes, LoginInv, SettleInv, NEW s \in Session, ClientStep(s) \/ state_set(s)
    PROVE  SettleInv'
<1>1. CASE \/ open(s) \/ handle_close(s) \/ handle_auth_reconnect_proof(s) \/ state_set(s)
           \/ \E name \in {"account", "unknown"} : unsupported_build(s, name)
  <2>1. UNCHANGED <<queue, urgent, doing, account, expected, failures>>
    BY <1>1 DEF open, handle_close, handle_auth_reconnect_proof, state_set, unsupported_build,
                database, history
  <2>2. StayCalm
    BY <2>1 DEF StayCalm
  <2> QED
    BY <2>1, <2>2, SettleSame
<1>2. ASSUME NEW o \in Operation, o.op \in Query, queue' = Append(queue, o),
             UNCHANGED <<urgent, doing, account, expected, failures>>
      PROVE  SettleInv'
  <2>1. StayCalm
    BY <1>2 DEF StayCalm
  <2> QED
    BY <1>2, <2>1, SettleOther
<1>3. ASSUME NEW name \in {"account", "unknown"},
             handle_auth_logon_challenge(s, name) \/ handle_auth_reconnect_challenge(s, name)
      PROVE  SettleInv'
  <2>1. PICK query \in {"check_ip_ban", "get_sessionkey"}, login \in Logins :
            /\ queue' = Append(queue, [op |-> query, s |-> s, login |-> login])
            /\ UNCHANGED <<urgent, doing, account, expected, failures>>
    BY <1>3, NamesAreLogins DEF handle_auth_logon_challenge, handle_auth_reconnect_challenge,
                                Challenged, database, history
  <2>2. PICK o : o = [op |-> query, s |-> s, login |-> login]
    OBVIOUS
  <2>3. o \in Operation /\ o.op \in Query
    BY <2>2 DEF Operation, Query
  <2> QED
    BY <1>2, <2>1, <2>2, <2>3
<1>4. CASE right_proof(s)
  <2>1. PICK o \in Operation : o = Op("update_account", s) /\ o.op = "update_account" /\ o.s = s
    BY OpIsOperation DEF Statement
  <2>2. /\ queue' = Append(queue, o)
        /\ expected' = [expected EXCEPT !.failed_logins = 0, !.sessionkey = s]
        /\ UNCHANGED <<urgent, doing, account, failures>>
    BY <1>4, <2>1 DEF right_proof, database
  <2>3. StayCalm
    BY <2>2 DEF StayCalm
  <2>4. ExpectedTypes /\ Wanted \in Value
    BY RowsAreValues DEF SettleInv
  <2>5. ExpectedTypes' /\ expected'.sv = expected.sv
    BY <2>2, <2>4 DEF ExpectedTypes
  <2>6. Wanted' = [count |-> 0, key |-> s]
    BY <2>2, <2>4 DEF ExpectedTypes, Wanted
  <2>7. Wanted' = Effect(o, Wanted)
    BY <2>1, <2>4, <2>6, EffectIs
  <2>8. o.op \notin {"fix_sv", "set_sv"}
    BY <2>1
  <2> QED
    BY <2>2, <2>3, <2>5, <2>7, <2>8, SettleOne
<1>5. CASE wrong_proof(s)
  BY <1>5, SettleWrong
<1>6. CASE handle_realm_list(s)
  <2>1. PICK o \in Operation : o = Op("get_char_amount", s) /\ o.op \in Query
    BY OpIsOperation DEF Query
  <2>2. queue' = Append(queue, o) /\ UNCHANGED <<urgent, doing, account, expected, failures>>
    BY <1>6, <2>1 DEF handle_realm_list, database, history
  <2> QED
    BY <1>2, <2>1, <2>2
<1> QED
  BY <1>1, <1>3, <1>4, <1>5, <1>6 DEF ClientStep

(* A query, or its callback.                                               *)
LEMMA QuerySettles ==
    ASSUME SessionTypes, SettleInv, NEW w \in Worker,
           \/ execute_query(w) \/ ip_ban_checked(w) \/ account_checked(w)
           \/ get_char_amount(w) \/ get_char_amount_of_unsupported_build(w) \/ get_sessionkey(w)
    PROVE  SettleInv'
<1>1. ASSUME NEW o, doing' = [doing EXCEPT ![w] = o], IsDone(o), Calm(o), Calm(doing[w])
      PROVE  StayCalm
  BY <1>1, DoingChanges DEF SessionTypes, StayCalm
<1>2. Calm(Idle)
  BY IdleIsDone DEF Calm, Statement
<1>3. CASE execute_query(w)
  <2>1. /\ doing[w].op \in Query
        /\ UNCHANGED <<queue, urgent, account, expected, failures>>
        /\ \E result : doing' = [doing EXCEPT ![w] = Answer(doing[w], result)]
    BY <1>3 DEF execute_query, database, history
  <2>2. PICK o : doing' = [doing EXCEPT ![w] = o] /\ o.op = "callback"
    <3>1. PICK result : doing' = [doing EXCEPT ![w] = Answer(doing[w], result)]
      BY <2>1
    <3>2. Answer(doing[w], result).op = "callback"
      BY DEF Answer
    <3> QED
      BY <3>1, <3>2
  <2>3. Calm(o) /\ Calm(doing[w])
    BY <2>1, <2>2 DEF Calm, Statement, Query
  <2>4. \A v \in Worker : v # w => doing'[v] = doing[v]
    BY <2>2 DEF SessionTypes, DoingTypes
  <2>5. doing'[w] = o
    BY <2>2 DEF SessionTypes, DoingTypes
  <2>6. StayCalm
    BY <2>3, <2>4, <2>5 DEF StayCalm
  <2> QED
    BY <2>1, <2>6, SettleSame
<1>4. CASE \/ ip_ban_checked(w) \/ account_checked(w) \/ get_char_amount(w)
           \/ get_char_amount_of_unsupported_build(w) \/ get_sessionkey(w)
  <2>1. doing' = [doing EXCEPT ![w] = Idle] /\ doing[w].op = "callback"
    BY <1>4 DEF ip_ban_checked, account_checked, get_char_amount,
                get_char_amount_of_unsupported_build, get_sessionkey, CallsBack
  <2>2. PICK s \in Session : s = doing[w].s
    BY <2>1, CallbackIs
  <2>3. StayCalm
    <3>1. Calm(doing[w])
      BY <2>1 DEF Calm, Statement
    <3> QED
      BY <1>1, <1>2, <2>1, <3>1, IdleIsDone
  <2>4. CASE ip_ban_checked(w)
    <3>1. PICK o \in Operation : o = Op("get_account", s) /\ o.op \in Query
      BY OpIsOperation DEF Query
    <3>2. /\ queue' = Append(queue, o) \/ queue' = queue
          /\ UNCHANGED <<urgent, account, expected, failures>>
      BY <2>2, <2>4, <3>1 DEF ip_ban_checked, database, history
    <3>3. CASE queue' = queue
      BY <2>3, <3>2, <3>3, SettleSame
    <3>4. CASE queue' = Append(queue, o)
      BY <2>3, <3>1, <3>2, <3>4, SettleOther
    <3> QED
      BY <3>2, <3>3, <3>4
  <2>5. CASE account_checked(w)
    <3>1. /\ set_vs(s, 1) \/ UNCHANGED <<urgent, queue, expected>>
          /\ UNCHANGED <<account, failures>>
      BY <2>2, <2>5 DEF account_checked, database
    <3>2. CASE set_vs(s, 1)
      BY <2>3, <3>1, <3>2, SettleSetVs
    <3>3. CASE UNCHANGED <<urgent, queue, expected>>
      BY <2>3, <3>1, <3>3, SettleSame
    <3> QED
      BY <3>1, <3>2, <3>3
  <2>6. CASE get_char_amount(w)
    <3>1. set_vs(s, IF doing[w].result THEN 1 ELSE 2) /\ UNCHANGED <<account, failures>>
      BY <2>2, <2>6 DEF get_char_amount, database
    <3>2. PICK times \in Nat \ {0} : times = IF doing[w].result THEN 1 ELSE 2
      OBVIOUS
    <3> QED
      BY <2>3, <3>1, <3>2, SettleSetVs
  <2>7. CASE get_sessionkey(w) \/ get_char_amount_of_unsupported_build(w)
    <3>1. UNCHANGED <<queue, urgent, account, expected, failures>>
      BY <2>7 DEF get_sessionkey, get_char_amount_of_unsupported_build, database, history
    <3> QED
      BY <2>3, <3>1, SettleSame
  <2> QED
    BY <1>4, <2>4, <2>5, <2>6, <2>7
<1> QED
  BY <1>3, <1>4

-----------------------------------------------------------------------------
(* The account, when one worker takes and executes what was enqueued.      *)

(* One worker at most: two could execute operations in another order than  *)
(* that of the queue.                                                      *)
OneWorker == \A v, w \in Worker : v = w

LEMMA DequeueSettles ==
    ASSUME OneWorker, SessionTypes, SettleInv, NEW w \in Worker, dequeue(w)
    PROVE  SettleInv'
<1>1. ExpectedTypes' /\ UNCHANGED <<account, expected, failures>>
  BY DEF SettleInv, ExpectedTypes, dequeue, database, history
<1>2. SUFFICES ASSUME failures = 0
               PROVE  CountLeads' /\ SetFollows'
  BY <1>1 DEF SettleInv
<1>3. CountLeads /\ SetFollows
  BY <1>2 DEF SettleInv
<1>4. doing[w] = Idle /\ doing[w].op = "idle" /\ \A v \in Worker : v = w
  BY IdleIsDone DEF dequeue, OneWorker
<1>5. Written' = Written /\ Written \in Value /\ Wanted' = Wanted
  BY <1>1, RowsAreValues DEF Written, Wanted
<1>6. Leads(queue, Written, Wanted)
  <2>1. PICK f \in Value : FirstIs(f) /\ Leads(queue, f, Wanted)
    BY <1>3 DEF CountLeads
  <2>2. Effect(doing[w], Written) = Written
    BY <1>4, <1>5, EffectIs
  <2> QED
    BY <2>1, <2>2 DEF FirstIs
<1>7. queue \in Seq(Operation) /\ urgent \in Seq(Emptying)
  BY DEF SessionTypes
<1>8. /\ \A i \in DOMAIN queue : queue[i].op # "fix_sv"
      /\ account.sv \/ SetWaits <=> expected.sv
      /\ urgent # <<>> => SetWaits
  BY <1>3, <1>4 DEF SetFollows, Does
<1>9. ASSUME NEW o, doing' = [doing EXCEPT ![w] = o]
      PROVE  doing'[w] = o
  BY <1>9 DEF SessionTypes, DoingTypes
<1>10. CASE /\ urgent # <<>> /\ doing' = [doing EXCEPT ![w] = Head(urgent)]
            /\ urgent' = Tail(urgent) /\ queue' = queue
  <2>1. PICK o \in Emptying : o = Head(urgent)
    BY <1>7, <1>10, Shifted
  <2>2. o.op = "fix_sv" /\ doing'[w] = o
    BY <1>9, <1>10, <2>1 DEF Emptying
  <2>3. CountLeads'
    <3>1. Effect(o, Written) = Written
      BY <1>5, <2>2, EffectIs
    <3>2. \A v \in Worker : Written = Effect(doing'[v], Written')
      BY <1>4, <1>5, <2>2, <3>1
    <3> QED
      BY <1>5, <1>6, <1>10, <3>2, LeadsAfter
  <2>4. SetFollows'
    <3>1. SetWaits
      BY <1>8, <1>10
    <3>2. expected'.sv /\ account'.sv = account.sv
      BY <1>1, <1>8, <3>1
    <3> QED
      BY <1>8, <1>10, <3>1, <3>2 DEF SetFollows, SetWaits, Does
  <2> QED
    BY <2>3, <2>4
<1>11. CASE /\ urgent = <<>> /\ queue # <<>> /\ doing' = [doing EXCEPT ![w] = Head(queue)]
            /\ queue' = Tail(queue) /\ urgent' = urgent
  <2>1. /\ Head(queue) \in Operation /\ Head(queue) = queue[1] /\ 1 \in DOMAIN queue
        /\ \A i \in DOMAIN Tail(queue) :
               i + 1 \in DOMAIN queue /\ Tail(queue)[i] = queue[i + 1]
        /\ \A i \in DOMAIN queue : i = 1 \/ \E j \in DOMAIN Tail(queue) : Tail(queue)[j] = queue[i]
    BY <1>7, <1>11, Shifted
  <2>2. PICK o \in Operation : o = Head(queue)
    BY <2>1
  <2>3. doing'[w] = o /\ o = queue[1]
    BY <1>9, <1>11, <2>1, <2>2
  <2>4. CountLeads'
    <3>1. Leads(queue', Effect(o, Written), Wanted) /\ Effect(o, Written) \in Value
      BY <1>6, <1>7, <1>11, <2>2, LeadsFromNext
    <3>2. \A v \in Worker : Effect(o, Written) = Effect(doing'[v], Written')
      BY <1>4, <1>5, <2>3
    <3>3. Worker # {}
      OBVIOUS
    <3> QED
      BY <1>5, <3>1, <3>2, <3>3, LeadsAfter
  <2>5. SetFollows'
    <3>1. \A i \in DOMAIN queue' : queue'[i].op # "fix_sv"
      BY <1>8, <1>11, <2>1
    <3>2. (\E v \in Worker : doing'[v].op = "set_sv") <=> o.op = "set_sv"
      BY <1>4, <2>3
    <3>3. ~ \E v \in Worker : doing'[v].op = "fix_sv"
      BY <1>4, <1>8, <2>1, <2>3
    <3>4. SetWaits <=> o.op = "set_sv" \/ \E i \in DOMAIN queue' : queue'[i].op = "set_sv"
      <4>1. SetWaits => o.op = "set_sv" \/ \E i \in DOMAIN queue' : queue'[i].op = "set_sv"
        BY <1>11, <2>1, <2>3 DEF SetWaits
      <4>2. o.op = "set_sv" => SetWaits
        BY <2>1, <2>3 DEF SetWaits
      <4>3. (\E i \in DOMAIN queue' : queue'[i].op = "set_sv") => SetWaits
        BY <1>11, <2>1 DEF SetWaits
      <4> QED
        BY <4>1, <4>2, <4>3
    <3>5. urgent' = <<>>
      BY <1>11
    <3>6. account'.sv = account.sv /\ expected'.sv = expected.sv
      BY <1>1
    <3> QED
      BY <1>8, <3>1, <3>2, <3>3, <3>4, <3>5, <3>6 DEF SetFollows, SetWaits, Does
  <2> QED
    BY <2>4, <2>5
<1> QED
  BY <1>10, <1>11 DEF dequeue

(* What a statement for the account leaves in the row.                     *)
LEMMA ExecutedIs ==
    ASSUME SessionTypes, NEW o \in Operation, Knows(o, socket), account' = Executed(o)
    PROVE  /\ Written' = Effect(o, Written)
           /\ o.op = "set_sv" => account'.sv = TRUE
           /\ o.op = "fix_sv" => account'.sv = FALSE
           /\ o.op \notin {"set_sv", "fix_sv"} => account'.sv = account.sv
<1>1. account \in Row /\ Written \in Value
  BY RowsAreValues DEF SessionTypes
<1>2. o.s \in Session /\ IpOf[o.s] \in Ips
  BY DEF Operation, Ips
<1>3. CASE o.op = "update_account"
  <2>1. o.login = "account"
    BY <1>3 DEF Knows
  <2>2. account' = [account EXCEPT !.sessionkey = o.s, !.failed_logins = 0, !.last_ip = IpOf[o.s]]
    BY <1>3, <2>1 DEF Executed
  <2>3. Effect(o, Written) = [count |-> 0, key |-> o.s]
    BY <1>1, <1>2, <1>3, EffectIs
  <2>4. account'.failed_logins = 0 /\ account'.sessionkey = o.s /\ account'.sv = account.sv
    BY <1>1, <2>2 DEF Row
  <2> QED
    BY <1>3, <2>3, <2>4 DEF Written
<1>4. CASE o.op = "increment_failed_logins"
  <2>1. account' = [account EXCEPT !.failed_logins = @ + 1]
    BY <1>4 DEF Executed
  <2>2. Effect(o, Written) = [Written EXCEPT !.count = @ + 1]
    BY <1>1, <1>4, EffectIs
  <2>3. /\ account'.failed_logins = account.failed_logins + 1
        /\ account'.sessionkey = account.sessionkey /\ account'.sv = account.sv
    BY <1>1, <2>1 DEF Row
  <2> QED
    BY <1>4, <2>2, <2>3 DEF Written
<1>5. CASE o.op \notin {"update_account", "increment_failed_logins"}
  <2>1. Effect(o, Written) = Written
    BY <1>1, <1>5, EffectIs
  <2>2. CASE o.op = "ban_failed_logins" /\ ~BanByIp
    <3>1. account' = [account EXCEPT !.banned = TRUE]
      BY <2>2 DEF Executed
    <3>2. /\ account'.failed_logins = account.failed_logins
          /\ account'.sessionkey = account.sessionkey /\ account'.sv = account.sv
      BY <1>1, <3>1 DEF Row
    <3> QED
      BY <2>1, <2>2, <3>2 DEF Written
  <2>3. CASE o.op \in {"fix_sv", "set_sv"}
    <3>1. o.login = "account"
      BY <2>3 DEF Knows
    <3>2. PICK b \in BOOLEAN : b <=> o.op = "set_sv"
      OBVIOUS
    <3>3. account' = [account EXCEPT !.sv = b]
      <4>1. CASE o.op = "fix_sv"
        <5>1. account' = [account EXCEPT !.sv = FALSE]
          BY <3>1, <4>1 DEF Executed
        <5> QED
          BY <3>2, <4>1, <5>1
      <4>2. CASE o.op = "set_sv"
        <5>1. account' = [account EXCEPT !.sv = TRUE]
          BY <3>1, <4>2 DEF Executed
        <5> QED
          BY <3>2, <4>2, <5>1
      <4> QED
        BY <2>3, <4>1, <4>2
    <3>4. /\ account'.failed_logins = account.failed_logins
          /\ account'.sessionkey = account.sessionkey /\ account'.sv = b
      BY <1>1, <3>3 DEF Row
    <3> QED
      BY <2>1, <2>3, <3>2, <3>4 DEF Written
  <2>4. CASE ~(o.op = "ban_failed_logins" /\ ~BanByIp) /\ o.op \notin {"fix_sv", "set_sv"}
    <3>1. account' = account
      BY <1>5, <2>4 DEF Executed
    <3> QED
      BY <2>1, <2>4, <3>1 DEF Written
  <2> QED
    BY <2>2, <2>3, <2>4
<1> QED
  BY <1>3, <1>4, <1>5

(* A statement is executed: an emptying never has the last word, since a   *)
(* setting still waits.                                                    *)
LEMMA StatementSettles ==
    ASSUME OneWorker, SessionTypes, LoginInv, SettleInv, NEW w \in Worker, execute_statement(w)
    PROVE  SettleInv'
<1>1. /\ doing[w].op \in Statement
      /\ account' = Executed(doing[w])
      /\ doing' = [doing EXCEPT ![w] = Idle]
      /\ UNCHANGED <<urgent, queue, expected, failures>>
  BY DEF execute_statement, history
<1>2. ExpectedTypes'
  BY <1>1 DEF SettleInv, ExpectedTypes
<1>3. SUFFICES ASSUME failures = 0
               PROVE  CountLeads' /\ SetFollows'
  BY <1>1, <1>2 DEF SettleInv
<1>4. CountLeads /\ SetFollows
  BY <1>3 DEF SettleInv
<1>5. doing[w] \in Operation
  <2>1. IsDone(doing[w])
    BY DEF SessionTypes, DoingTypes
  <2> QED
    BY <1>1, <2>1 DEF IsDone, Idle, IsAnswer, Statement
<1>6. PICK o \in Operation : o = doing[w] /\ Knows(o, socket)
  BY <1>5 DEF LoginInv
<1>7. /\ Written' = Effect(o, Written)
      /\ o.op = "set_sv" => account'.sv = TRUE
      /\ o.op = "fix_sv" => account'.sv = FALSE
      /\ o.op \notin {"set_sv", "fix_sv"} => account'.sv = account.sv
  BY <1>1, <1>6, ExecutedIs
<1>8. doing'[w] = Idle /\ \A v \in Worker : v = w
  BY <1>1, IdleIsDone, DoingChanges DEF SessionTypes, OneWorker
<1>9. CountLeads'
  <2>1. PICK f \in Value : FirstIs(f) /\ Leads(queue, f, Wanted)
    BY <1>4 DEF CountLeads
  <2>2. f = Written'
    BY <1>6, <1>7, <2>1 DEF FirstIs
  <2>3. Effect(Idle, Written') = Written'
    BY <2>1, <2>2, IdleIsDone, EffectIs
  <2>4. \A v \in Worker : f = Effect(doing'[v], Written')
    BY <1>8, <2>2, <2>3
  <2>5. queue' = queue /\ Wanted' = Wanted
    BY <1>1 DEF Wanted
  <2> QED
    BY <2>1, <2>2, <2>4, <2>5, LeadsAfter
<1>10. SetFollows'
  <2>1. /\ \A i \in DOMAIN queue : queue[i].op # "fix_sv"
        /\ account.sv \/ SetWaits \/ o.op = "set_sv" <=> expected.sv
        /\ urgent # <<>> \/ o.op = "fix_sv" => SetWaits
    BY <1>4, <1>6, <1>8 DEF SetFollows, Does
  <2>2. \A v \in Worker : doing'[v].op \notin {"set_sv", "fix_sv"}
    BY <1>8, IdleIsDone
  <2>3. account'.sv \/ SetWaits <=> expected.sv
    BY <1>7, <2>1
  <2> QED
    BY <1>1, <2>1, <2>2, <2>3 DEF SetFollows, SetWaits, Does
<1> QED
  BY <1>9, <1>10

(* Each step keeps what the row is to become.                              *)
LEMMA NextSettles ==
    ASSUME OneWorker
    PROVE  SessionTypes /\ LoginInv /\ SettleInv /\ [Next]_vars => SettleInv'
<1> SUFFICES ASSUME SessionTypes, LoginInv, SettleInv, [Next]_vars
             PROVE  SettleInv'
  OBVIOUS
<1>1. ASSUME NEW s \in Session, ClientStep(s) \/ state_set(s)
      PROVE  SettleInv'
  BY <1>1, ClientSettles
<1>2. ASSUME NEW w \in Worker, WorkerStep(w)
      PROVE  SettleInv'
  <2>1. CASE dequeue(w)
    BY <2>1, DequeueSettles
  <2>2. CASE execute_statement(w)
    BY <2>2, StatementSettles
  <2>3. CASE execution_fails(w) \/ get_char_amount_without_account(w)
    <3>1. failures' = failures + 1 /\ failures \in Nat /\ expected' = expected
      BY <2>3 DEF execution_fails, get_char_amount_without_account, SessionTypes
    <3>2. failures' # 0
      BY <3>1
    <3> QED
      BY <3>1, <3>2 DEF SettleInv, ExpectedTypes
  <2>4. CASE \/ execute_query(w) \/ ip_ban_checked(w) \/ account_checked(w)
             \/ get_char_amount(w) \/ get_char_amount_of_unsupported_build(w)
             \/ get_sessionkey(w)
    BY <2>4, QuerySettles
  <2> QED
    BY <1>2, <2>1, <2>2, <2>3, <2>4 DEF WorkerStep
<1>3. CASE UNCHANGED vars
  <2>1. UNCHANGED <<queue, urgent, doing, account, expected, failures>>
    BY <1>3 DEF vars, database, history
  <2>2. StayCalm
    BY <2>1 DEF StayCalm
  <2> QED
    BY <2>1, <2>2, SettleSame
<1> QED
  BY <1>1, <1>2, <1>3 DEF Next

LEMMA InitSettles == Init => SettleInv
<1> SUFFICES ASSUME Init PROVE SettleInv
  OBVIOUS
<1>1. /\ queue = <<>> /\ urgent = <<>> /\ doing = [w \in Worker |-> Idle]
      /\ expected = [failed_logins |-> 0, sessionkey |-> "none", sv |-> FALSE]
  BY DEF Init
<1>2. account.failed_logins = 0 /\ account.sessionkey = "none" /\ account.sv = FALSE
  BY DEF Init
<1>3. ExpectedTypes /\ expected.sv = FALSE
  <2>1. "none" \in Session \union {"none"}
    OBVIOUS
  <2> QED
    BY <1>1, <2>1 DEF ExpectedTypes
<1>4. Written = Wanted /\ Wanted \in Value
  BY <1>1, <1>2, <1>3, RowsAreValues DEF Written, Wanted
<1>5. \A w \in Worker : doing[w] = Idle /\ doing[w].op = "idle"
  BY <1>1, IdleIsDone
<1>6. CountLeads
  <2>1. FirstIs(Written)
    <3>1. Effect(Idle, Written) = Written
      BY <1>4, IdleIsDone, EffectIs
    <3> QED
      BY <1>5, <3>1 DEF FirstIs
  <2>2. Leads(queue, Written, Wanted)
    <3>1. PICK rows : rows = [i \in 0 .. 0 |-> Written]
      OBVIOUS
    <3>2. rows \in [0 .. 0 -> Value] /\ rows[0] = Written
      BY <1>4, <3>1
    <3>3. Len(queue) = 0
      BY <1>1
    <3>4. \A i \in 1 .. 0 : rows[i] = Effect(queue[i], rows[i - 1])
      OBVIOUS
    <3>5. KeyKept(queue, rows)
      <4>1. \A i \in 0 .. 0 : i = 0
        OBVIOUS
      <4> QED
        BY <3>3, <4>1 DEF KeyKept
    <3> QED
      BY <1>4, <3>2, <3>3, <3>4, <3>5 DEF Leads
  <2> QED
    BY <1>4, <2>1, <2>2 DEF CountLeads
<1>7. SetFollows
  <2>1. DOMAIN queue = {}
    BY <1>1
  <2> QED
    BY <1>1, <1>2, <1>3, <1>5, <2>1 DEF SetFollows, SetWaits, Does
<1> QED
  BY <1>3, <1>6, <1>7 DEF SettleInv

(* When nothing is left to do, the row is what it was to become.           *)
LEMMA InvSettles == SessionTypes /\ SettleInv => AccountSettles
<1> SUFFICES ASSUME SessionTypes, SettleInv, AllDone, failures = 0
             PROVE  /\ account.failed_logins = expected.failed_logins
                    /\ account.sessionkey = expected.sessionkey
                    /\ account.sv = expected.sv
  BY DEF AccountSettles
<1>1. queue = <<>> /\ \A w \in Worker : doing[w] = Idle /\ doing[w].op = "idle"
  BY IdleIsDone DEF AllDone
<1>2. CountLeads /\ SetFollows /\ ExpectedTypes
  BY DEF SettleInv
<1>3. PICK f \in Value : FirstIs(f) /\ Leads(queue, f, Wanted)
  BY <1>2 DEF CountLeads
<1>4. f = Written
  <2>1. Effect(Idle, Written) = Written
    BY RowsAreValues, IdleIsDone, EffectIs
  <2> QED
    BY <1>1, <1>3, <2>1 DEF FirstIs
<1>5. Written = Wanted
  BY <1>1, <1>3, <1>4, NothingLeads
<1>6. /\ Written.count = account.failed_logins /\ Written.key = account.sessionkey
      /\ Wanted.count = expected.failed_logins /\ Wanted.key = expected.sessionkey
  BY DEF Written, Wanted
<1>7. account.sv <=> expected.sv
  <2>1. DOMAIN queue = {}
    BY <1>1
  <2> QED
    BY <1>1, <1>2, <2>1 DEF SetFollows, SetWaits, Does
<1>8. account.sv \in BOOLEAN /\ expected.sv \in BOOLEAN
  BY <1>2 DEF SessionTypes, Row, ExpectedTypes
<1> QED
  BY <1>5, <1>6, <1>7, <1>8

(* update_account, handle_failed_login, set_vs: with one database thread   *)
(* (DBThreads = 1; the configuration that is shipped has 3, with which run *)
(* Verifier shows that s and v get lost) the row ends up as the proofs and *)
(* challenges asked, however sessions interleave, callbacks are delayed    *)
(* and emptyings overtake.                                                 *)
THEOREM AccountIsSettled ==
    ASSUME OneWorker
    PROVE  Spec => []AccountSettles
<1>1. Init => SessionTypes /\ SessionInv /\ LoginInv /\ SettleInv
  BY InitInv, InitIsFresh, FreshKnows, InitSettles
<1>2. /\ SessionTypes /\ SessionInv /\ LoginInv /\ SettleInv /\ [Next]_vars
             => SessionTypes' /\ SessionInv' /\ LoginInv' /\ SettleInv'
  BY NextInv, NextKnows, NextSettles
<1>3. SessionTypes /\ SettleInv => AccountSettles
  BY InvSettles
<1> QED
  BY <1>1, <1>2, <1>3, PTL DEF Spec

-----------------------------------------------------------------------------
(* What the proxy reads.                                                   *)

(* When nothing that renews the row waits, it is what it was to become.    *)
LEMMA NothingRenews ==
    ASSUME OneWorker, SessionTypes, SettleInv, failures = 0, ~Renewing
    PROVE  account.sessionkey = expected.sessionkey /\ account.sv = expected.sv
<1>1. CountLeads /\ SetFollows /\ ExpectedTypes
  BY DEF SettleInv
<1>2. \A i \in DOMAIN queue : queue[i].s \in Session
  <2>1. queue \in Seq(Operation)
    BY DEF SessionTypes
  <2>2. \A i \in DOMAIN queue : queue[i] \in Operation
    BY <2>1, ElementOfSeq, LenProperties
  <2> QED
    BY <2>2 DEF Operation
<1>3. \A i \in DOMAIN queue : queue[i].op \notin {"update_account", "set_sv"}
  BY <1>2 DEF Renewing, Waits
<1>4. ASSUME NEW w \in Worker
      PROVE  doing[w].op \notin {"update_account", "set_sv"}
  <2>1. IsDone(doing[w])
    BY DEF SessionTypes, DoingTypes
  <2>2. CASE doing[w] \in Operation
    <3>1. doing[w].s \in Session
      BY <2>2 DEF Operation
    <3> QED
      BY <3>1 DEF Renewing, Waits
  <2>3. CASE doing[w] = Idle \/ IsAnswer(doing[w])
    BY <2>3, IdleIsDone DEF IsAnswer
  <2> QED
    BY <2>1, <2>2, <2>3 DEF IsDone
<1>5. PICK f \in Value : FirstIs(f) /\ Leads(queue, f, Wanted)
  BY <1>1 DEF CountLeads
<1>6. f.key = Written.key
  <2>1. Written \in Value
    BY RowsAreValues
  <2>2. ASSUME NEW w \in Worker
        PROVE  Effect(doing[w], Written).key = Written.key
    BY <1>4, <2>1 DEF Effect, Value
  <2> QED
    BY <1>5, <2>2 DEF FirstIs
<1>7. Wanted.key = f.key
  <2>1. PICK n \in Nat : n = Len(queue) /\ DOMAIN queue = 1 .. n
    BY LenProperties DEF SessionTypes
  <2>2. PICK rows \in [0 .. n -> Value] :
            rows[0] = f /\ rows[n] = Wanted /\ KeyKept(queue, rows)
    BY <1>5, <2>1 DEF Leads
  <2>3. 0 \in 0 .. n /\ \A j \in 0 + 1 .. n : j \in 1 .. n
    OBVIOUS
  <2>4. \A j \in 0 + 1 .. n : queue[j].op # "update_account"
    BY <1>3, <2>1, <2>3
  <2> QED
    BY <2>1, <2>2, <2>3, <2>4 DEF KeyKept
<1>8. account.sessionkey = expected.sessionkey
  BY <1>6, <1>7 DEF Written, Wanted
<1>9. account.sv <=> expected.sv
  BY <1>1, <1>3, <1>4 DEF SetFollows, SetWaits, Does
<1>10. account.sv \in BOOLEAN /\ expected.sv \in BOOLEAN
  BY <1>1 DEF SessionTypes, Row, ExpectedTypes
<1> QED
  BY <1>8, <1>9, <1>10

(* A session is challenged with the s and v it stores, and a key belongs   *)
(* to a challenge.                                                         *)
ChallengeInv ==
    /\ \A s \in Session : socket[s].challenged => expected.sv
    /\ expected.sessionkey # "none" => expected.sv

(* What a step writes of one session, or none, and of what is expected.    *)
LEMMA ChallengedStep ==
    ASSUME SessionTypes, ExpectedTypes, ChallengeInv,
           NEW s \in Session, NEW m, socket' = [socket EXCEPT ![s] = m],
           m.challenged => socket[s].challenged \/ expected'.sv,
           expected'.sv = expected.sv \/ expected'.sv = TRUE,
           \/ expected'.sessionkey = expected.sessionkey
           \/ socket[s].challenged
    PROVE  ChallengeInv'
<1>1. /\ \A t \in Session : t # s => socket'[t] = socket[t]
      /\ socket'[s] = m
  BY DEF SessionTypes
<1>2. expected.sv => expected'.sv
  OBVIOUS
<1>3. \A t \in Session : socket'[t].challenged => expected'.sv
  BY <1>1, <1>2 DEF ChallengeInv
<1>4. expected'.sessionkey # "none" => expected'.sv
  BY <1>2 DEF ChallengeInv
<1> QED
  BY <1>3, <1>4 DEF ChallengeInv

LEMMA SameSocket ==
    ASSUME SessionTypes, NEW s \in Session, socket' = socket
    PROVE  socket' = [socket EXCEPT ![s] = socket[s]]
BY DEF SessionTypes

(* A client's packet.                                                      *)
LEMMA ClientChallenged ==
    ASSUME SessionTypes, ExpectedTypes, ChallengeInv, NEW s \in Session,
           ClientStep(s) \/ state_set(s)
    PROVE  ChallengeInv'
<1>1. socket \in [Session -> Members] /\ socket[s] \in Members
  BY DEF SessionTypes
<1>2. ASSUME NEW m, socket' = [socket EXCEPT ![s] = m], m.challenged = socket[s].challenged,
             expected' = expected
      PROVE  ChallengeInv'
  BY <1>2, ChallengedStep
<1>3. CASE open(s)
  <2>1. PICK m : m = [Closed EXCEPT !.state = "CONNECTED", !.owned = TRUE]
    OBVIOUS
  <2>2. socket' = [socket EXCEPT ![s] = m] /\ expected' = expected
    BY <1>3, <2>1 DEF open, history
  <2>3. m.challenged = FALSE
    BY <2>1 DEF Closed
  <2> QED
    BY <2>2, <2>3, ChallengedStep
<1>4. CASE handle_close(s) \/ handle_auth_reconnect_proof(s)
  <2>1. /\ die(s) \/ socket' = [socket EXCEPT ![s].state = "AUTHED"]
        /\ expected' = expected
    BY <1>4 DEF handle_close, handle_auth_reconnect_proof, history
  <2>2. PICK state, owned : SetState(s, state, owned)
    BY <2>1, SetStateOf
  <2>3. PICK m : m = [socket[s] EXCEPT !.state = state, !.owned = owned]
    OBVIOUS
  <2>4. socket' = [socket EXCEPT ![s] = m]
    BY <2>2, <2>3 DEF SetState
  <2>5. m.challenged = socket[s].challenged
    BY <1>1, <2>3 DEF Members
  <2> QED
    BY <1>2, <2>1, <2>4, <2>5
<1>5. CASE state_set(s)
  <2>1. PICK state : state = IF socket[s].handling = "logon" THEN "NEED_PROOF" ELSE "NEED_RPROOF"
    OBVIOUS
  <2>2. PICK m : m = [socket[s] EXCEPT !.state = state, !.handling = ""]
    OBVIOUS
  <2>3. socket' = [socket EXCEPT ![s] = m] /\ expected' = expected
    BY <1>1, <1>5, <2>1, <2>2 DEF state_set, history
  <2>4. m.challenged = socket[s].challenged
    BY <1>1, <2>2 DEF Members
  <2> QED
    BY <1>2, <2>3, <2>4
<1>6. CASE \E name \in {"account", "unknown"} :
               \/ unsupported_build(s, name)
               \/ handle_auth_logon_challenge(s, name)
               \/ handle_auth_reconnect_challenge(s, name)
  <2>1. PICK login, handling :
            /\ \/ socket' = [socket EXCEPT ![s].login = login, ![s].handling = handling]
               \/ socket' = [socket EXCEPT ![s].login = login]
                  /\ handling = socket[s].handling
            /\ expected' = expected
    BY <1>6 DEF unsupported_build, handle_auth_logon_challenge,
                handle_auth_reconnect_challenge, Challenged, history
  <2>2. PICK m : m = [socket[s] EXCEPT !.login = login, !.handling = handling]
    OBVIOUS
  <2>3. m.challenged = socket[s].challenged
    BY <1>1, <2>2 DEF Members
  <2>4. handling = socket[s].handling => [socket[s] EXCEPT !.login = login] = m
    BY <1>1, <2>2 DEF Members
  <2>5. socket' = [socket EXCEPT ![s] = m]
    BY <1>1, <2>1, <2>2, <2>4
  <2> QED
    BY <1>2, <2>1, <2>3, <2>5
<1>7. CASE right_proof(s)
  <2>1. /\ socket[s].challenged
        /\ socket' = [socket EXCEPT ![s].state = "AUTHED"]
        /\ expected' = [expected EXCEPT !.failed_logins = 0, !.sessionkey = s]
    BY <1>7 DEF right_proof
  <2>2. PICK m : m = [socket[s] EXCEPT !.state = "AUTHED"]
    OBVIOUS
  <2>3. socket' = [socket EXCEPT ![s] = m] /\ m.challenged = socket[s].challenged
    BY <1>1, <2>1, <2>2 DEF Members
  <2>4. expected'.sv = expected.sv
    BY <2>1 DEF ExpectedTypes
  <2> QED
    BY <2>1, <2>3, <2>4, ChallengedStep
<1>8. CASE wrong_proof(s)
  <2>1. PICK wrong \in BOOLEAN, failed \in Counter, hits \in BOOLEAN :
            /\ socket' = [socket EXCEPT ![s] = [socket[s] EXCEPT !.wrong = wrong,
                                                                !.failed = failed]]
            /\ expected' = IF hits THEN [expected EXCEPT !.failed_logins = @ + 1]
                                   ELSE expected
    BY <1>8, WrongProofIs
  <2>2. PICK m : m = [socket[s] EXCEPT !.wrong = wrong, !.failed = failed]
    OBVIOUS
  <2>3. socket' = [socket EXCEPT ![s] = m] /\ m.challenged = socket[s].challenged
    BY <1>1, <2>1, <2>2 DEF Members
  <2>4. expected'.sv = expected.sv /\ expected'.sessionkey = expected.sessionkey
    BY <2>1 DEF ExpectedTypes
  <2> QED
    BY <2>3, <2>4, ChallengedStep
<1>9. CASE handle_realm_list(s)
  <2>1. socket' = socket /\ expected' = expected
    BY <1>9 DEF handle_realm_list, history
  <2> QED
    BY <1>2, <2>1, SameSocket
<1> QED
  BY <1>3, <1>4, <1>5, <1>6, <1>7, <1>8, <1>9 DEF ClientStep

(* A worker's step.                                                        *)
LEMMA WorkerChallenged ==
    ASSUME SessionTypes, ExpectedTypes, ChallengeInv, NEW w \in Worker, WorkerStep(w)
    PROVE  ChallengeInv'
<1>1. socket \in [Session -> Members]
  BY DEF SessionTypes
<1>2. CASE dequeue(w) \/ execute_statement(w) \/ execute_query(w) \/ execution_fails(w)
  <2>1. socket' = socket /\ expected' = expected
    BY <1>2 DEF dequeue, execute_statement, execute_query, execution_fails, history
  <2> QED
    BY <2>1 DEF ChallengeInv
<1>3. CASE \/ ip_ban_checked(w) \/ account_checked(w) \/ get_char_amount(w)
           \/ get_char_amount_of_unsupported_build(w) \/ get_sessionkey(w)
  <2>1. doing[w].op = "callback"
    BY <1>3 DEF ip_ban_checked, account_checked, get_char_amount,
                get_char_amount_of_unsupported_build, get_sessionkey, CallsBack
  <2>2. PICK s \in Session : s = doing[w].s
    BY <2>1, CallbackIs
  <2>3. socket[s] \in Members
    BY <1>1
  <2>4. ASSUME NEW m, socket' = [socket EXCEPT ![s] = m],
               m.challenged = socket[s].challenged, expected' = expected
        PROVE  ChallengeInv'
    BY <2>4, ChallengedStep
  <2>5. CASE ip_ban_checked(w)
    <3>1. PICK answered : socket' = [socket EXCEPT ![s].answered = answered]
                          /\ expected' = expected
      BY <1>1, <2>2, <2>5 DEF ip_ban_checked, history
    <3>2. PICK m : m = [socket[s] EXCEPT !.answered = answered]
      OBVIOUS
    <3>3. socket' = [socket EXCEPT ![s] = m] /\ m.challenged = socket[s].challenged
      BY <1>1, <2>3, <3>1, <3>2 DEF Members
    <3> QED
      BY <2>4, <3>1, <3>3
  <2>6. CASE account_checked(w)
    <3>1. PICK exists, challenge :
              /\ exists = (doing[w].result.is = "EXISTS")
              /\ challenge = (exists /\ (Locked => IpOf[s] = doing[w].result.last_ip))
      OBVIOUS
    <3>2. PICK failed : failed = IF exists THEN as_uint8(doing[w].result.failed)
                                           ELSE socket[s].failed
      OBVIOUS
    <3>3. PICK m : m = [socket[s] EXCEPT !.answered = TRUE, !.failed = failed,
                                         !.challenged = @ \/ challenge]
      OBVIOUS
    <3>4. socket' = [socket EXCEPT ![s] = m]
      BY <1>1, <2>2, <2>6, <3>1, <3>2, <3>3 DEF account_checked
    <3>5. m.challenged = (socket[s].challenged \/ challenge)
      BY <2>3, <3>3 DEF Members
    <3>6. IF challenge THEN set_vs(s, 1) ELSE UNCHANGED <<urgent, queue, expected>>
      BY <2>2, <2>6, <3>1 DEF account_checked
    <3>7. set_vs(s, 1) => expected' = [expected EXCEPT !.sv = TRUE]
      BY DEF set_vs
    <3>8. CASE challenge
      <4>1. expected'.sv = TRUE /\ expected'.sessionkey = expected.sessionkey
        BY <3>6, <3>7, <3>8 DEF ExpectedTypes
      <4> QED
        BY <3>4, <4>1, ChallengedStep
    <3>9. CASE ~challenge
      <4>1. expected' = expected /\ m.challenged = socket[s].challenged
        BY <2>3, <3>5, <3>6, <3>9 DEF Members
      <4> QED
        BY <2>4, <3>4, <4>1
    <3> QED
      BY <3>8, <3>9
  <2>7. CASE get_char_amount(w)
    <3>1. PICK listed : socket' = [socket EXCEPT ![s].listed = listed]
      BY <2>2, <2>7 DEF get_char_amount
    <3>2. expected' = [expected EXCEPT !.sv = TRUE]
      BY <2>2, <2>7 DEF get_char_amount, set_vs
    <3>3. PICK m : m = [socket[s] EXCEPT !.listed = listed]
      OBVIOUS
    <3>4. socket' = [socket EXCEPT ![s] = m] /\ m.challenged = socket[s].challenged
      BY <1>1, <2>3, <3>1, <3>3 DEF Members
    <3>5. expected'.sv = TRUE /\ expected'.sessionkey = expected.sessionkey
      BY <3>2 DEF ExpectedTypes
    <3> QED
      BY <3>4, <3>5, ChallengedStep
  <2>8. CASE get_char_amount_of_unsupported_build(w) \/ get_sessionkey(w)
    <3>1. /\ die(s) \/ socket' = [socket EXCEPT ![s].state = "NEED_RPROOF"]
          /\ expected' = expected
      BY <2>2, <2>8 DEF get_char_amount_of_unsupported_build, get_sessionkey, history
    <3>2. PICK state, owned : SetState(s, state, owned)
      BY <3>1, SetStateOf
    <3>3. PICK m : m = [socket[s] EXCEPT !.state = state, !.owned = owned]
      OBVIOUS
    <3>4. socket' = [socket EXCEPT ![s] = m]
      BY <3>2, <3>3 DEF SetState
    <3>5. m.challenged = socket[s].challenged
      BY <2>3, <3>3 DEF Members
    <3> QED
      BY <2>4, <3>1, <3>4, <3>5
  <2> QED
    BY <1>3, <2>5, <2>6, <2>7, <2>8
<1>4. CASE get_char_amount_without_account(w)
  <2>1. socket' = [s \in Session |-> Closed] /\ expected' = expected
    BY <1>4 DEF get_char_amount_without_account
  <2>2. Closed.challenged = FALSE
    BY DEF Closed
  <2> QED
    BY <2>1, <2>2 DEF ChallengeInv
<1> QED
  BY <1>2, <1>3, <1>4 DEF WorkerStep

LEMMA NextChallenged ==
    SessionTypes /\ SettleInv /\ ChallengeInv /\ [Next]_vars => ChallengeInv'
<1>1. ASSUME SettleInv
      PROVE  ExpectedTypes
  BY <1>1 DEF SettleInv
<1>2. ASSUME UNCHANGED vars, ChallengeInv
      PROVE  ChallengeInv'
  BY <1>2 DEF vars, history, ChallengeInv
<1> QED
  BY <1>1, <1>2, ClientChallenged, WorkerChallenged DEF Next

(* What clients do on their way to the proxy.                              *)
LoginTypes == client \in [Session -> {"none", "key", "asked", "in"}]

ProxyInv == SessionTypes /\ SessionInv /\ LoginInv /\ SettleInv /\ ChallengeInv /\ LoginTypes

LEMMA LoginInitInv == LoginInit => ProxyInv
<1> SUFFICES ASSUME LoginInit PROVE ProxyInv
  OBVIOUS
<1>1. Init
  BY DEF LoginInit
<1>2. SessionTypes /\ SessionInv /\ LoginInv /\ SettleInv
  BY <1>1, InitInv, InitIsFresh, FreshKnows, InitSettles
<1>3. ChallengeInv
  <2>1. socket = [s \in Session |-> Closed] /\ expected.sessionkey = "none"
    BY <1>1 DEF Init
  <2>2. Closed.challenged = FALSE
    BY DEF Closed
  <2> QED
    BY <2>1, <2>2 DEF ChallengeInv
<1>4. LoginTypes
  BY DEF LoginInit, LoginTypes
<1> QED
  BY <1>2, <1>3, <1>4 DEF ProxyInv

LEMMA LoginNextInv ==
    ASSUME OneWorker
    PROVE  ProxyInv /\ [LoginNext]_loginVars => ProxyInv'
<1> SUFFICES ASSUME ProxyInv, [LoginNext]_loginVars PROVE ProxyInv'
  OBVIOUS
<1>1. [Next]_vars
  BY DEF LoginNext, realmd_step, handle_cmsg_auth_session, account_retrieved, loginVars
<1>2. LoginTypes'
  BY DEF ProxyInv, LoginTypes, LoginNext, realmd_step, handle_cmsg_auth_session,
         account_retrieved, loginVars
<1>3. SessionTypes' /\ SessionInv' /\ LoginInv' /\ SettleInv' /\ ChallengeInv'
  BY <1>1, NextInv, NextKnows, NextSettles, NextChallenged DEF ProxyInv
<1> QED
  BY <1>2, <1>3 DEF ProxyInv

(* The key the client has is the last one, and belongs to a challenge.     *)
LEMMA RefusalIsOf ==
    ASSUME OneWorker, ProxyInv, LoginNext, NEW s \in Session,
           client[s] = "asked", client'[s] = "key", ~(failures > 0), ~Renewing,
           expected.sessionkey = s
    PROVE  FALSE
<1>1. failures = 0
  BY DEF ProxyInv, SessionTypes
<1>2. account.sessionkey = expected.sessionkey /\ account.sv = expected.sv
  BY <1>1, NothingRenews DEF ProxyInv
<1>3. PICK t \in Session : account_retrieved(t) /\ t = s
  <2>1. ~realmd_step
    BY DEF realmd_step, ProxyInv, LoginTypes
  <2>2. \A t \in Session : handle_cmsg_auth_session(t) => FALSE
    BY DEF handle_cmsg_auth_session, ProxyInv, LoginTypes
  <2>3. \A t \in Session : account_retrieved(t) => t = s
    BY DEF account_retrieved, ProxyInv, LoginTypes
  <2> QED
    BY <2>1, <2>2, <2>3 DEF LoginNext
<1>4. ~Accepts(s)
  BY <1>3 DEF account_retrieved, ProxyInv, LoginTypes
<1>5. ~account.sv
  BY <1>2, <1>4 DEF Accepts
<1>6. expected.sessionkey # "none" => expected.sv
  BY DEF ProxyInv, ChallengeInv
<1> QED
  BY <1>2, <1>5, <1>6, LoginAssumption

(* handle_cmsg_auth_session, account_retrieved, get_char_amount: with one  *)
(* database thread a client that comes to a proxy with the last key given  *)
(* is refused only while an emptying or storing is on its way, or after an *)
(* operation failed; also when realmd emptied s and v behind its back.     *)
THEOREM RefusedMeanwhile ==
    ASSUME OneWorker
    PROVE  LoginSpec => RefusedOnlyMeanwhile
<1>1. ASSUME ProxyInv, LoginNext
      PROVE  \A s \in Session :
                 client[s] = "asked" /\ client'[s] = "key"
                     => Renewing \/ failures > 0 \/ expected.sessionkey # s
  BY <1>1, RefusalIsOf
<1>2. ProxyInv /\ [LoginNext]_loginVars =>
          [\A s \in Session :
               client[s] = "asked" /\ client'[s] = "key"
                   => Renewing \/ failures > 0 \/ expected.sessionkey # s]_loginVars
  BY <1>1
<1> QED
  BY <1>2, LoginInitInv, LoginNextInv, PTL DEF LoginSpec, RefusedOnlyMeanwhile

-----------------------------------------------------------------------------
(* Type correctness: the bounds of numbers, and that operations, results   *)
(* and the names they are about are of their kind.                         *)

Asks(o) == o.op \in Query \union {"callback"}

(* An operation has a name, a callback a result of its query's kind; and   *)
(* while a query is under way its session has a name.                      *)
Named(o, sessions) ==
    /\ o.op \in Query \union Statement => o.login # ""
    /\ o.op = "callback" => o \in CallbackType(o.of)
    /\ Asks(o) => sessions[o.s].login # ""

(* The name is there before the state in which operations are made of it.  *)
NamedFirst(m) ==
    m.login = "" => m.state \in {"NONE", "CONNECTED", "CLOSING"} /\ m.handling = ""

NameInv ==
    /\ \A i \in DOMAIN urgent : Named(urgent[i], socket)
    /\ \A i \in DOMAIN queue : Named(queue[i], socket) /\ queue[i].op # "fix_sv"
    /\ \A w \in Worker : Named(doing[w], socket)
    /\ \A s \in Session : NamedFirst(socket[s])

Asked(s) ==
    \/ \E i \in DOMAIN queue : Asks(queue[i]) /\ queue[i].s = s
    \/ \E w \in Worker : Asks(doing[w]) /\ doing[w].s = s

(* What the rest of the types says of the tables and of failed operations. *)
TableTypes ==
    /\ banned_ips \subseteq Ips \ {"elsewhere"}
    /\ failures \in 0 .. MaxFailures
    /\ leaked \subseteq Session

LEMMA IdleNamed == \A sessions : Named(Idle, sessions)
BY DEF Named, Idle, Query, Statement, Asks

(* A name that is there stays while somebody relies on it.                 *)
LEMMA NamedStays ==
    ASSUME NEW o, Named(o, socket), Asks(o) => o.s \in Session,
           \A s \in Session : Asks(o) /\ o.s = s /\ socket[s].login # "" => socket'[s].login # ""
    PROVE  Named(o, socket')
BY DEF Named

(* A step for one session.                                                 *)
LEMMA NameStep ==
    ASSUME SessionTypes, NameInv, NEW s \in Session, NEW m \in Members,
           socket' = [socket EXCEPT ![s] = m], NamedFirst(m),
           m.login # "" \/ m.login = socket[s].login \/ ~Asked(s),
           \A i \in DOMAIN queue' :
               \/ \E j \in DOMAIN queue : queue'[i] = queue[j]
               \/ Named(queue'[i], socket') /\ queue'[i].op # "fix_sv",
           \A i \in DOMAIN urgent' :
               (\E j \in DOMAIN urgent : urgent'[i] = urgent[j]) \/ Named(urgent'[i], socket'),
           \A w \in Worker :
               \/ doing'[w] = doing[w]
               \/ \E j \in DOMAIN queue : doing'[w] = queue[j]
               \/ \E j \in DOMAIN urgent : doing'[w] = urgent[j]
               \/ Named(doing'[w], socket')
    PROVE  NameInv'
<1>1. /\ socket'[s] = m /\ \A t \in Session : t # s => socket'[t] = socket[t]
  BY MembersChange DEF SessionTypes
<1>2. \A t \in Session : ~Asked(t) \/ (socket[t].login # "" => socket'[t].login # "")
  BY <1>1
<1>3. ASSUME NEW j \in DOMAIN queue
      PROVE  Named(queue[j], socket') /\ queue[j].op # "fix_sv"
  <2>1. Named(queue[j], socket) /\ queue[j].s \in Session /\ queue[j].op # "fix_sv"
    BY OwnSession DEF NameInv
  <2>2. \A t \in Session : Asks(queue[j]) /\ queue[j].s = t => Asked(t)
    BY DEF Asked
  <2> QED
    BY <1>2, <2>1, <2>2, NamedStays
<1>4. ASSUME NEW j \in DOMAIN urgent
      PROVE  Named(urgent[j], socket')
  <2>1. Named(urgent[j], socket)
    BY DEF NameInv
  <2>2. ~Asks(urgent[j])
    BY OwnSession DEF Emptying, Asks, Query
  <2> QED
    BY <2>1, <2>2, NamedStays
<1>5. ASSUME NEW w \in Worker
      PROVE  Named(doing[w], socket')
  <2>1. CASE doing[w] = Idle
    BY <2>1, IdleNamed
  <2>2. CASE doing[w] # Idle
    <3>1. Named(doing[w], socket) /\ doing[w].s \in Session
      BY <2>2, OwnSession DEF NameInv
    <3>2. \A t \in Session : Asks(doing[w]) /\ doing[w].s = t => Asked(t)
      BY DEF Asked
    <3> QED
      BY <1>2, <3>1, <3>2, NamedStays
  <2> QED
    BY <2>1, <2>2
<1>6. \A i \in DOMAIN queue' : Named(queue'[i], socket') /\ queue'[i].op # "fix_sv"
  BY <1>3
<1>7. \A i \in DOMAIN urgent' : Named(urgent'[i], socket')
  BY <1>4
<1>8. \A w \in Worker : Named(doing'[w], socket')
  BY <1>3, <1>4, <1>5
<1>9. \A t \in Session : NamedFirst(socket'[t])
  BY <1>1 DEF NameInv
<1> QED
  BY <1>6, <1>7, <1>8, <1>9 DEF NameInv

(* What is in a queue was there, or was appended.                          *)
LEMMA OldOrNew ==
    ASSUME NEW S, NEW q \in Seq(S), NEW e \in S, NEW i \in DOMAIN Append(q, e)
    PROVE  (\E j \in DOMAIN q : Append(q, e)[i] = q[j]) \/ Append(q, e)[i] = e
BY BehindOne

(* An operation that is made for a name is enqueued.                       *)
LEMMA OneNamed ==
    ASSUME queue \in Seq(Operation), NEW o \in Operation, queue' = Append(queue, o),
           Named(o, socket'), o.op # "fix_sv"
    PROVE  \A i \in DOMAIN queue' :
               \/ \E j \in DOMAIN queue : queue'[i] = queue[j]
               \/ Named(queue'[i], socket') /\ queue'[i].op # "fix_sv"
<1>1. \A i \in DOMAIN Append(queue, o) :
          (\E j \in DOMAIN queue : Append(queue, o)[i] = queue[j]) \/ Append(queue, o)[i] = o
  BY OldOrNew
<1> QED
  BY <1>1

(* A packet of one session, to which at most one operation is due.         *)
LEMMA PacketNames ==
    ASSUME SessionTypes, NameInv, NEW s \in Session, NEW m \in Members,
           socket' = [socket EXCEPT ![s] = m], NamedFirst(m),
           m.login # "" \/ m.login = socket[s].login \/ ~Asked(s),
           \/ queue' = queue
           \/ \E o \in Operation :
                  queue' = Append(queue, o) /\ Named(o, socket') /\ o.op # "fix_sv",
           urgent' = urgent, doing' = doing
    PROVE  NameInv'
<1>1. \A i \in DOMAIN queue' :
          \/ \E j \in DOMAIN queue : queue'[i] = queue[j]
          \/ Named(queue'[i], socket') /\ queue'[i].op # "fix_sv"
  BY OneNamed DEF SessionTypes
<1> QED
  BY <1>1, NameStep

(* A worker goes on to what is known of o.                                 *)
LEMMA WorkerNames ==
    ASSUME SessionTypes, NameInv, NEW w \in Worker, NEW s \in Session, NEW m \in Members,
           socket' = [socket EXCEPT ![s] = m], NamedFirst(m), m.login = socket[s].login,
           NEW o, doing' = [doing EXCEPT ![w] = o], IsDone(o), Named(o, socket'),
           \A i \in DOMAIN queue' :
               \/ \E j \in DOMAIN queue : queue'[i] = queue[j]
               \/ Named(queue'[i], socket') /\ queue'[i].op # "fix_sv",
           \A i \in DOMAIN urgent' :
               (\E j \in DOMAIN urgent : urgent'[i] = urgent[j]) \/ Named(urgent'[i], socket')
    PROVE  NameInv'
<1>1. doing'[w] = o /\ \A v \in Worker : v # w => doing'[v] = doing[v]
  BY DoingChanges DEF SessionTypes
<1>2. \A v \in Worker : doing'[v] = doing[v] \/ Named(doing'[v], socket')
  BY <1>1
<1> QED
  BY <1>2, NameStep

(* Operations are made for a name.                                         *)
LEMMA OpNamed ==
    ASSUME SessionTypes, NEW s \in Session, NEW op \in Query \union Statement,
           socket[s].login # "", socket'[s].login = socket[s].login
    PROVE  Op(op, s) \in Operation /\ Named(Op(op, s), socket') /\ Op(op, s).op = op
<1>1. PICK o : o = Op(op, s)
  OBVIOUS
<1>2. o \in Operation /\ o.op = op /\ o.s = s
  BY <1>1, OpIsOperation
<1>3. o.login # ""
  BY <1>1 DEF Op
<1>4. o.op # "callback"
  BY <1>2 DEF Query, Statement
<1>5. Named(o, socket')
  BY <1>2, <1>3, <1>4 DEF Named
<1> QED
  BY <1>1, <1>2, <1>5

(* The members that handlers change, and what that leaves of the name.     *)
LEMMA OtherNames ==
    ASSUME SessionTypes, NameInv, NEW s \in Session
    PROVE  /\ socket[s] \in Members /\ NamedFirst(socket[s])
           /\ \A state \in ConnectionState, owned \in BOOLEAN :
                  state = "CLOSING" \/ socket[s].login # "" =>
                      LET m == [socket[s] EXCEPT !.state = state, !.owned = owned]
                      IN  m \in Members /\ NamedFirst(m) /\ m.login = socket[s].login
           /\ \A state \in ConnectionState :
                  socket[s].login # "" =>
                      /\ LET m == [socket[s] EXCEPT !.state = state]
                         IN  m \in Members /\ NamedFirst(m) /\ m.login = socket[s].login
                      /\ LET m == [socket[s] EXCEPT !.state = state, !.handling = ""]
                         IN  m \in Members /\ NamedFirst(m) /\ m.login = socket[s].login
           /\ \A b \in BOOLEAN :
                  /\ LET m == [socket[s] EXCEPT !.answered = b]
                     IN  m \in Members /\ NamedFirst(m) /\ m.login = socket[s].login
                  /\ LET m == [socket[s] EXCEPT !.listed = b]
                     IN  m \in Members /\ NamedFirst(m) /\ m.login = socket[s].login
           /\ \A b \in BOOLEAN, n \in Counter :
                  LET m == [socket[s] EXCEPT !.wrong = b, !.failed = n]
                  IN  m \in Members /\ NamedFirst(m) /\ m.login = socket[s].login
<1>1. socket[s] \in Members /\ NamedFirst(socket[s])
  BY DEF SessionTypes, NameInv
<1>2. ASSUME NEW state \in ConnectionState, NEW owned \in BOOLEAN,
             state = "CLOSING" \/ socket[s].login # "",
             NEW m, m = [socket[s] EXCEPT !.state = state, !.owned = owned]
      PROVE  m \in Members /\ NamedFirst(m) /\ m.login = socket[s].login
  BY <1>1, <1>2 DEF Members, NamedFirst
<1>3. ASSUME NEW state \in ConnectionState, socket[s].login # "",
             NEW m, \/ m = [socket[s] EXCEPT !.state = state]
                    \/ m = [socket[s] EXCEPT !.state = state, !.handling = ""]
      PROVE  m \in Members /\ NamedFirst(m) /\ m.login = socket[s].login
  BY <1>1, <1>3 DEF Members, NamedFirst
<1>4. ASSUME NEW b \in BOOLEAN,
             NEW m, \/ m = [socket[s] EXCEPT !.answered = b]
                    \/ m = [socket[s] EXCEPT !.listed = b]
      PROVE  m \in Members /\ NamedFirst(m) /\ m.login = socket[s].login
  BY <1>1, <1>4 DEF Members, NamedFirst
<1>5. ASSUME NEW b \in BOOLEAN, NEW n \in Counter,
             NEW m, m = [socket[s] EXCEPT !.wrong = b, !.failed = n]
      PROVE  m \in Members /\ NamedFirst(m) /\ m.login = socket[s].login
  <2>1. /\ m \in Members /\ m.login = socket[s].login
        /\ m.state = socket[s].state /\ m.handling = socket[s].handling
    BY <1>1, <1>5 DEF Members
  <2> QED
    BY <1>1, <2>1 DEF NamedFirst
<1> QED
  BY <1>1, <1>2, <1>3, <1>4, <1>5

(* A new session begins in a slot nobody refers to.                        *)
LEMMA OpenNames ==
    ASSUME SessionTypes, NameInv, NEW s \in Session, open(s)
    PROVE  NameInv'
<1>1. PICK m : m = [Closed EXCEPT !.state = "CONNECTED", !.owned = TRUE]
  OBVIOUS
<1>2. m = [state |-> "CONNECTED", handling |-> "", owned |-> TRUE, login |-> "",
           failed |-> -1, challenged |-> FALSE, answered |-> FALSE, listed |-> FALSE,
           wrong |-> FALSE]
  BY <1>1 DEF Closed
<1>3. m \in Members /\ NamedFirst(m)
  <2>1. -1 \in Counter /\ "CONNECTED" \in ConnectionState /\ "" \in Logins
    BY CounterValues, SessionAssumption DEF ConnectionState, Logins
  <2>2. m \in Members
    BY <1>2, <2>1 DEF Members
  <2>3. m.state = "CONNECTED" /\ m.handling = ""
    BY <1>2
  <2> QED
    BY <2>2, <2>3 DEF NamedFirst
<1>4. ~Asked(s)
  <2>1. ~Waits(s, Query \union {"callback"})
    BY DEF open, Freed
  <2> QED
    BY <2>1 DEF Waits, Asked, Asks
<1>5. /\ socket' = [socket EXCEPT ![s] = m]
      /\ queue' = queue /\ urgent' = urgent /\ doing' = doing
  BY <1>1 DEF open
<1> QED
  BY <1>3, <1>4, <1>5, NameStep

(* A challenge gives the session a name.                                   *)
LEMMA ChallengeNames ==
    ASSUME SessionTypes, NameInv, NEW s \in Session,
           NEW name \in {"account", "unknown"},
           \/ unsupported_build(s, name)
           \/ handle_auth_logon_challenge(s, name)
           \/ handle_auth_reconnect_challenge(s, name)
    PROVE  NameInv'
<1>1. socket[s] \in Members /\ NamedFirst(socket[s])
  BY OtherNames
<1>2. name \in Logins \ {""} /\ appended(s, name) \in Logins \ {""}
  BY DEF appended, Logins
<1>3. ASSUME NEW login \in Logins \ {""}, NEW handling \in {"", "logon", "reconnect"},
             NEW m, m = [socket[s] EXCEPT !.login = login, !.handling = handling]
      PROVE  m \in Members /\ NamedFirst(m) /\ m.login = login
  BY <1>1, <1>3 DEF Members, NamedFirst
<1>4. CASE unsupported_build(s, name)
  <2>1. PICK m : m = [socket[s] EXCEPT !.login = appended(s, name)]
    OBVIOUS
  <2>2. /\ socket' = [socket EXCEPT ![s] = m]
        /\ UNCHANGED <<queue, urgent, doing>>
    BY <1>4, <2>1 DEF unsupported_build
  <2>3. m \in Members /\ NamedFirst(m) /\ m.login # ""
    BY <1>1, <1>2, <2>1 DEF Members, NamedFirst
  <2> QED
    BY <2>2, <2>3, PacketNames
<1>5. ASSUME NEW query \in {"check_ip_ban", "get_sessionkey"},
             NEW handler \in {"logon", "reconnect"}, NEW login \in Logins \ {""},
             Challenged(s, query, handler, login)
      PROVE  NameInv'
  <2>1. PICK m : m = [socket[s] EXCEPT !.login = login, !.handling = handler]
    OBVIOUS
  <2>2. PICK o : o = [op |-> query, s |-> s, login |-> login]
    OBVIOUS
  <2>3. /\ socket' = [socket EXCEPT ![s] = m]
        /\ queue' = Append(queue, o)
        /\ UNCHANGED <<urgent, doing>>
    BY <1>5, <2>1, <2>2 DEF Challenged
  <2>4. m \in Members /\ NamedFirst(m) /\ m.login = login
    <3>1. handler \in {"", "logon", "reconnect"}
      OBVIOUS
    <3> QED
      BY <1>3, <2>1, <3>1
  <2>5. socket'[s] = m
    BY <2>3, <2>4, MembersChange DEF SessionTypes
  <2>6. o \in Operation /\ o.op = query /\ o.s = s /\ o.login = login
    BY <2>2 DEF Operation, Query
  <2>7. Named(o, socket') /\ o.op # "fix_sv"
    BY <2>4, <2>5, <2>6 DEF Named
  <2> QED
    BY <2>3, <2>4, <2>6, <2>7, PacketNames
<1>6. CASE handle_auth_logon_challenge(s, name)
  <2>1. Challenged(s, "check_ip_ban", "logon", appended(s, name))
    BY <1>6 DEF handle_auth_logon_challenge
  <2> QED
    BY <1>2, <1>5, <2>1
<1>7. CASE handle_auth_reconnect_challenge(s, name)
  <2>1. Challenged(s, "get_sessionkey", "reconnect", name)
    BY <1>7 DEF handle_auth_reconnect_challenge
  <2> QED
    BY <1>2, <1>5, <2>1
<1> QED
  BY <1>4, <1>6, <1>7

(* The session ends, or its state is set.                                  *)
LEMMA EndNames ==
    ASSUME SessionTypes, NameInv, NEW s \in Session,
           handle_close(s) \/ handle_auth_reconnect_proof(s) \/ state_set(s)
    PROVE  NameInv'
<1>1. ASSUME NEW m \in Members, socket' = [socket EXCEPT ![s] = m], NamedFirst(m),
             m.login = socket[s].login, UNCHANGED <<queue, urgent, doing>>
      PROVE  NameInv'
  BY <1>1, PacketNames
<1>2. CASE handle_close(s) \/ handle_auth_reconnect_proof(s)
  <2>1. /\ \/ die(s)
           \/ /\ socket[s].state = "NEED_RPROOF"
              /\ socket' = [socket EXCEPT ![s].state = "AUTHED"]
        /\ UNCHANGED <<queue, urgent, doing>>
    <3>1. CASE handle_close(s)
      BY <3>1 DEF handle_close
    <3>2. CASE handle_auth_reconnect_proof(s)
      BY <3>2 DEF handle_auth_reconnect_proof
    <3> QED
      BY <1>2, <3>1, <3>2
  <2>2. PICK state \in {"AUTHED", "CLOSING"}, owned \in BOOLEAN :
            /\ SetState(s, state, owned)
            /\ state = "CLOSING" \/ socket[s].state = "NEED_RPROOF"
    BY <2>1, SetStateOf
  <2>3. state = "CLOSING" \/ socket[s].login # ""
    BY <2>2, OtherNames DEF NamedFirst
  <2>4. PICK m : m = [socket[s] EXCEPT !.state = state, !.owned = owned]
    OBVIOUS
  <2>5. state \in ConnectionState
    BY DEF ConnectionState
  <2>6. m \in Members /\ NamedFirst(m) /\ m.login = socket[s].login
    BY <2>3, <2>4, <2>5, OtherNames
  <2>7. socket' = [socket EXCEPT ![s] = m]
    BY <2>2, <2>4 DEF SetState
  <2> QED
    BY <1>1, <2>1, <2>6, <2>7
<1>3. CASE state_set(s)
  <2>1. PICK state : state = IF socket[s].handling = "logon" THEN "NEED_PROOF" ELSE "NEED_RPROOF"
    OBVIOUS
  <2>2. PICK m : m = [socket[s] EXCEPT !.state = state, !.handling = ""]
    OBVIOUS
  <2>3. /\ socket' = [socket EXCEPT ![s] = m] /\ UNCHANGED <<queue, urgent, doing>>
        /\ socket[s].handling # ""
    BY <1>3, <2>1, <2>2 DEF state_set
  <2>4. state \in ConnectionState
    BY <2>1 DEF ConnectionState
  <2>5. socket[s].login # ""
    BY <2>3, OtherNames DEF NamedFirst
  <2>6. m \in Members /\ NamedFirst(m) /\ m.login = socket[s].login
    BY <2>2, <2>4, <2>5, OtherNames
  <2> QED
    BY <1>1, <2>3, <2>6
<1> QED
  BY <1>2, <1>3

(* Proofs and requests of the list come from sessions with a name.         *)
LEMMA ProofNames ==
    ASSUME SessionTypes, NameInv, NEW s \in Session, right_proof(s) \/ handle_realm_list(s)
    PROVE  NameInv'
<1>1. CASE right_proof(s)
  <2>1. PICK m : m = [socket[s] EXCEPT !.state = "AUTHED"]
    OBVIOUS
  <2>2. /\ socket' = [socket EXCEPT ![s] = m] /\ socket[s].state = "NEED_PROOF"
        /\ queue' = Append(queue, Op("update_account", s)) /\ UNCHANGED <<urgent, doing>>
    BY <1>1, <2>1 DEF right_proof
  <2>3. socket[s].login # "" /\ "AUTHED" \in ConnectionState
    BY <2>2, OtherNames DEF NamedFirst, ConnectionState
  <2>4. m \in Members /\ NamedFirst(m) /\ m.login = socket[s].login
    BY <2>1, <2>3, OtherNames
  <2>5. socket'[s] = m
    BY <2>2, <2>4, MembersChange DEF SessionTypes
  <2>6. PICK o : o = Op("update_account", s)
    OBVIOUS
  <2>7. o \in Operation /\ Named(o, socket') /\ o.op # "fix_sv"
    BY <2>3, <2>4, <2>5, <2>6, OpNamed DEF Statement
  <2> QED
    BY <2>2, <2>4, <2>6, <2>7, PacketNames
<1>2. CASE handle_realm_list(s)
  <2>1. PICK m : m = socket[s]
    OBVIOUS
  <2>2. /\ socket' = socket /\ socket[s].state = "AUTHED"
        /\ queue' = Append(queue, Op("get_char_amount", s)) /\ UNCHANGED <<urgent, doing>>
    BY <1>2 DEF handle_realm_list
  <2>3. m \in Members /\ NamedFirst(m) /\ socket' = [socket EXCEPT ![s] = m]
    BY <2>1, <2>2, OtherNames DEF SessionTypes
  <2>4. socket[s].login # ""
    BY <2>2, OtherNames DEF NamedFirst
  <2>5. PICK o : o = Op("get_char_amount", s)
    OBVIOUS
  <2>6. o \in Operation /\ Named(o, socket') /\ o.op # "fix_sv"
    BY <2>2, <2>4, <2>5, OpNamed DEF Query
  <2> QED
    BY <2>1, <2>2, <2>3, <2>5, <2>6, PacketNames
<1> QED
  BY <1>1, <1>2

LEMMA WrongNames ==
    ASSUME SessionTypes, NameInv, NEW s \in Session, wrong_proof(s)
    PROVE  NameInv'
<1>1. PICK wrong \in BOOLEAN, failed \in Counter, hits \in BOOLEAN,
           half \in Seq(Operation), ban \in Seq(Operation) :
          /\ failed >= 0 => socket[s].failed >= 0
          /\ socket' = [socket EXCEPT ![s] = [socket[s] EXCEPT !.wrong = wrong, !.failed = failed]]
          /\ half = IF hits THEN Append(queue, Op("increment_failed_logins", s)) ELSE queue
          /\ \A j \in DOMAIN ban : ban[j] = Op("ban_failed_logins", s)
          /\ queue' = half \o ban
          /\ expected' = IF hits THEN [expected EXCEPT !.failed_logins = @ + 1] ELSE expected
          /\ UNCHANGED <<urgent, doing, account, failures>>
  BY WrongProofIs
<1>2. PICK m : m = [socket[s] EXCEPT !.wrong = wrong, !.failed = failed]
  OBVIOUS
<1>3. socket[s] \in Members /\ NamedFirst(socket[s]) /\ socket[s].login # ""
  BY OtherNames DEF wrong_proof, NamedFirst
<1>4. /\ m \in Members /\ m.login = socket[s].login
      /\ m.state = socket[s].state /\ m.handling = socket[s].handling
  BY <1>2, <1>3 DEF Members
<1>5. socket'[s] = m
  BY <1>1, <1>2, <1>4, MembersChange DEF SessionTypes
<1>6. NamedFirst(m)
  BY <1>3, <1>4 DEF NamedFirst
<1>7. /\ Op("increment_failed_logins", s) \in Operation
      /\ Named(Op("increment_failed_logins", s), socket')
      /\ Op("increment_failed_logins", s).op # "fix_sv"
      /\ Named(Op("ban_failed_logins", s), socket')
      /\ Op("ban_failed_logins", s).op # "fix_sv"
  BY <1>3, <1>4, <1>5, OpNamed DEF Statement
<1>8. \A i \in DOMAIN half :
          \/ \E j \in DOMAIN queue : half[i] = queue[j]
          \/ Named(half[i], socket') /\ half[i].op # "fix_sv"
  <2>1. queue \in Seq(Operation)
    BY DEF SessionTypes
  <2>2. CASE hits
    <3>1. PICK o : o = Op("increment_failed_logins", s)
      OBVIOUS
    <3>2. half = Append(queue, o) /\ o \in Operation
      BY <1>1, <1>7, <2>2, <3>1
    <3>3. /\ \A i \in DOMAIN queue : half[i] = queue[i]
          /\ \A i \in DOMAIN half : i \in DOMAIN queue \/ half[i] = o
      BY <2>1, <3>2, BehindOne
    <3> QED
      BY <1>7, <3>1, <3>3
  <2>3. CASE ~hits
    BY <1>1, <2>3
  <2> QED
    BY <2>2, <2>3
<1>9. \A i \in DOMAIN queue' :
          \/ \E j \in DOMAIN queue : queue'[i] = queue[j]
          \/ Named(queue'[i], socket') /\ queue'[i].op # "fix_sv"
  <2>1. queue' = half \o ban
    BY <1>1
  <2>2. /\ \A i \in DOMAIN half : queue'[i] = half[i]
        /\ \A i \in DOMAIN queue' : i \in DOMAIN half \/ \E j \in DOMAIN ban : queue'[i] = ban[j]
    BY <2>1, Behind
  <2>3. \A j \in DOMAIN ban : Named(ban[j], socket') /\ ban[j].op # "fix_sv"
    BY <1>1, <1>7
  <2> QED
    BY <1>8, <2>2, <2>3
<1>10. urgent' = urgent /\ doing' = doing
  BY <1>1
<1> QED
  BY <1>1, <1>2, <1>4, <1>6, <1>9, <1>10, NameStep

(* What a worker takes is as it was in the queue.                          *)
LEMMA DequeueNames ==
    ASSUME SessionTypes, NameInv, NEW w \in Worker, NEW s \in Session, dequeue(w)
    PROVE  NameInv'
<1>1. PICK m : m = socket[s]
  OBVIOUS
<1>2. m \in Members /\ NamedFirst(m) /\ socket' = [socket EXCEPT ![s] = m]
  BY <1>1, OtherNames DEF dequeue, SessionTypes
<1>3. socket' = socket
  BY DEF dequeue
<1>4. CASE /\ urgent # <<>> /\ doing' = [doing EXCEPT ![w] = Head(urgent)]
           /\ urgent' = Tail(urgent) /\ queue' = queue
  <2>1. urgent \in Seq(Emptying)
    BY DEF SessionTypes
  <2>2. /\ Head(urgent) \in Emptying /\ Head(urgent) = urgent[1] /\ 1 \in DOMAIN urgent
        /\ \A i \in DOMAIN Tail(urgent) :
               i + 1 \in DOMAIN urgent /\ Tail(urgent)[i] = urgent[i + 1]
    BY <1>4, <2>1, Shifted
  <2>3. PICK o : o = Head(urgent)
    OBVIOUS
  <2>4. o \in Operation /\ IsDone(o)
    BY <2>2, <2>3 DEF Emptying, Operation, Statement, IsDone
  <2>5. Named(o, socket')
    BY <1>3, <2>2, <2>3 DEF NameInv
  <2>6. \A i \in DOMAIN urgent' : \E j \in DOMAIN urgent : urgent'[i] = urgent[j]
    BY <1>4, <2>2
  <2> QED
    BY <1>1, <1>2, <1>4, <2>3, <2>4, <2>5, <2>6, WorkerNames
<1>5. CASE /\ queue # <<>> /\ doing' = [doing EXCEPT ![w] = Head(queue)]
           /\ queue' = Tail(queue) /\ urgent' = urgent
  <2>1. queue \in Seq(Operation)
    BY DEF SessionTypes
  <2>2. /\ Head(queue) \in Operation /\ Head(queue) = queue[1] /\ 1 \in DOMAIN queue
        /\ \A i \in DOMAIN Tail(queue) :
               i + 1 \in DOMAIN queue /\ Tail(queue)[i] = queue[i + 1]
    BY <1>5, <2>1, Shifted
  <2>3. PICK o : o = Head(queue)
    OBVIOUS
  <2>4. IsDone(o)
    BY <2>2, <2>3 DEF IsDone
  <2>5. Named(o, socket')
    BY <1>3, <2>2, <2>3 DEF NameInv
  <2>6. \A i \in DOMAIN queue' : \E j \in DOMAIN queue : queue'[i] = queue[j]
    BY <1>5, <2>2
  <2> QED
    BY <1>1, <1>2, <1>5, <2>3, <2>4, <2>5, <2>6, WorkerNames
<1> QED
  BY <1>4, <1>5 DEF dequeue

(* What an observer makes of a result set is of the query's kind.          *)
LEMMA ResultTypes ==
    ASSUME SessionTypes, NEW o \in Operation
    PROVE  /\ check_ip_ban(o) \in BOOLEAN
           /\ check_account(o) \in Checked
           /\ no_sessionkey_row(o) \in BOOLEAN
<1>1. account.failed_logins \in Nat /\ account.last_ip \in Ips /\ account.banned \in BOOLEAN
  BY DEF SessionTypes, Row
<1>2. check_account(o) \in Checked
  <2>1. CASE o.login # "account"
    <3>1. check_account(o) = [is |-> "NOTFOUND"]
      BY <2>1 DEF check_account
    <3> QED
      BY <3>1 DEF Checked
  <2>2. CASE o.login = "account" /\ account.banned
    <3>1. check_account(o) = [is |-> "BANNED"]
      BY <2>2 DEF check_account
    <3> QED
      BY <3>1 DEF Checked
  <2>3. CASE o.login = "account" /\ ~account.banned
    <3>1. check_account(o) = [is |-> "EXISTS", failed |-> account.failed_logins,
                              last_ip |-> account.last_ip]
      BY <2>3 DEF check_account
    <3> QED
      BY <1>1, <3>1 DEF Checked
  <2> QED
    BY <2>1, <2>2, <2>3
<1> QED
  BY <1>2 DEF check_ip_ban, no_sessionkey_row

(* A worker executes: its session has a name, its result the type.         *)
LEMMA ExecuteNames ==
    ASSUME SessionTypes, NameInv, NEW w \in Worker,
           execute_statement(w) \/ execution_fails(w) \/ execute_query(w)
    PROVE  NameInv'
<1>1. socket' = socket /\ queue' = queue /\ urgent' = urgent
  BY DEF execute_statement, execution_fails, execute_query
<1>2. doing[w].op \in Query \union Statement
  BY DEF execute_statement, execution_fails, execute_query
<1>3. doing[w] \in Operation /\ doing[w].s \in Session /\ Named(doing[w], socket)
  <2>1. IsDone(doing[w])
    BY DEF SessionTypes, DoingTypes
  <2>2. doing[w] \in Operation
    BY <1>2, <2>1 DEF IsDone, Idle, IsAnswer, Query, Statement
  <2> QED
    BY <2>2 DEF Operation, NameInv
<1>4. PICK s \in Session : s = doing[w].s
  BY <1>3
<1>5. PICK m : m = socket[s]
  OBVIOUS
<1>6. m \in Members /\ NamedFirst(m) /\ socket' = [socket EXCEPT ![s] = m]
  BY <1>1, <1>5, OtherNames DEF SessionTypes
<1>7. ASSUME NEW o, doing' = [doing EXCEPT ![w] = o], IsDone(o), Named(o, socket')
      PROVE  NameInv'
  BY <1>1, <1>5, <1>6, <1>7, WorkerNames
<1>8. CASE execute_statement(w) \/ execution_fails(w)
  <2>1. doing' = [doing EXCEPT ![w] = Idle]
    BY <1>8 DEF execute_statement, execution_fails
  <2> QED
    BY <1>7, <2>1, IdleIsDone, IdleNamed
<1>9. CASE execute_query(w)
  <2>1. PICK result :
            /\ doing[w].op = "check_ip_ban" => result = check_ip_ban(doing[w])
            /\ doing[w].op = "get_account" => result = check_account(doing[w])
            /\ doing[w].op = "get_sessionkey" => result = no_sessionkey_row(doing[w])
            /\ doing[w].op = "get_char_amount" => result \in BOOLEAN
            /\ doing' = [doing EXCEPT ![w] = Answer(doing[w], result)]
            /\ doing[w].op \in Query
    BY <1>9, OneResult
  <2>2. result \in IF doing[w].op = "get_account" THEN Checked ELSE BOOLEAN
    BY <1>3, <2>1, ResultTypes DEF Query
  <2>3. PICK o : o = Answer(doing[w], result)
    OBVIOUS
  <2>4. /\ o = [op |-> "callback", s |-> s, of |-> doing[w].op, result |-> result]
        /\ o.op = "callback" /\ o.s = s /\ o.of = doing[w].op /\ o.result = result
    BY <1>4, <2>3 DEF Answer
  <2>5. o \in CallbackType(o.of)
    BY <2>2, <2>4 DEF CallbackType
  <2>6. IsDone(o)
    <3>1. \A c \in Checked : c.is = "EXISTS" => c.failed \in Nat
      BY DEF Checked
    <3> QED
      BY <2>1, <2>2, <2>4, <3>1 DEF IsDone, IsAnswer
  <2>7. Named(o, socket')
    <3>1. socket[s].login # ""
      BY <1>3, <1>4, <2>1 DEF Named, Asks
    <3>2. o.op \notin Query \union Statement
      BY <2>4 DEF Query, Statement
    <3> QED
      BY <1>1, <2>4, <2>5, <3>1, <3>2 DEF Named
  <2> QED
    BY <1>7, <2>1, <2>3, <2>6, <2>7
<1> QED
  BY <1>8, <1>9

(* The callback of a query is about a session with a name.                 *)
LEMMA CallbackNamed ==
    ASSUME SessionTypes, NameInv, NEW w \in Worker, doing[w].op = "callback"
    PROVE  socket[doing[w].s].login # "" /\ doing[w] \in CallbackType(doing[w].of)
BY DEF NameInv, Named, Asks

LEMMA IpBanNames ==
    ASSUME SessionTypes, NameInv, NEW w \in Worker, ip_ban_checked(w)
    PROVE  NameInv'
<1>1. PICK s \in Session : s = doing[w].s
  BY CallbackIs DEF ip_ban_checked, CallsBack
<1>2. /\ doing' = [doing EXCEPT ![w] = Idle] /\ urgent' = urgent
      /\ queue' = Append(queue, Op("get_account", s)) \/ queue' = queue
      /\ \E banned : socket' = [socket EXCEPT ![s].answered = @ \/ banned]
      /\ socket[s].login # ""
  BY <1>1, CallbackNamed DEF ip_ban_checked, CallsBack
<1>3. PICK b \in BOOLEAN : socket' = [socket EXCEPT ![s].answered = b]
  <2>1. PICK banned : socket' = [socket EXCEPT ![s].answered = @ \/ banned]
    BY <1>2
  <2>2. PICK b : b = (socket[s].answered \/ banned)
    OBVIOUS
  <2> QED
    BY <2>1, <2>2 DEF SessionTypes
<1>4. PICK m : m = [socket[s] EXCEPT !.answered = b]
  OBVIOUS
<1>5. /\ m \in Members /\ NamedFirst(m) /\ socket' = [socket EXCEPT ![s] = m]
      /\ m.login = socket[s].login
  BY <1>3, <1>4, OtherNames
<1>6. socket'[s].login = socket[s].login
  BY <1>5, MembersChange DEF SessionTypes
<1>7. \A i \in DOMAIN queue' :
          \/ \E j \in DOMAIN queue : queue'[i] = queue[j]
          \/ Named(queue'[i], socket') /\ queue'[i].op # "fix_sv"
  <2>1. PICK o : o = Op("get_account", s)
    OBVIOUS
  <2>2. o \in Operation /\ Named(o, socket') /\ o.op # "fix_sv"
    BY <1>2, <1>6, <2>1, OpNamed DEF Query
  <2> QED
    BY <1>2, <2>1, <2>2, OneNamed DEF SessionTypes
<1> QED
  BY <1>2, <1>5, <1>7, IdleIsDone, IdleNamed, WorkerNames

(* The same for several.                                                   *)
LEMMA OldOrAppended ==
    ASSUME NEW S, NEW q \in Seq(S), NEW t \in Seq(S), NEW i \in DOMAIN (q \o t)
    PROVE  (\E j \in DOMAIN q : (q \o t)[i] = q[j]) \/ \E j \in DOMAIN t : (q \o t)[i] = t[j]
BY Behind

LEMMA QueueAppended ==
    ASSUME queue \in Seq(Operation), NEW t \in Seq(Operation), queue' = queue \o t
    PROVE  \A i \in DOMAIN queue' :
               \/ \E j \in DOMAIN queue : queue'[i] = queue[j]
               \/ \E j \in DOMAIN t : queue'[i] = t[j]
<1>1. ASSUME NEW i \in DOMAIN (queue \o t)
      PROVE  \/ \E j \in DOMAIN queue : (queue \o t)[i] = queue[j]
             \/ \E j \in DOMAIN t : (queue \o t)[i] = t[j]
  BY OldOrAppended, SMTT(30)
<1> QED
  BY <1>1

LEMMA UrgentAppended ==
    ASSUME urgent \in Seq(Emptying), NEW t \in Seq(Emptying), urgent' = urgent \o t
    PROVE  \A i \in DOMAIN urgent' :
               \/ \E j \in DOMAIN urgent : urgent'[i] = urgent[j]
               \/ \E j \in DOMAIN t : urgent'[i] = t[j]
<1>1. ASSUME NEW i \in DOMAIN (urgent \o t)
      PROVE  \/ \E j \in DOMAIN urgent : (urgent \o t)[i] = urgent[j]
             \/ \E j \in DOMAIN t : (urgent \o t)[i] = t[j]
  BY OldOrAppended, SMTT(30)
<1> QED
  BY <1>1

(* set_vs enqueues for a name, the emptying ahead.                         *)
LEMMA SetVsNames ==
    ASSUME SessionTypes, NEW s \in Session, NEW times \in Nat, set_vs(s, times),
           socket[s].login # "", socket'[s].login = socket[s].login
    PROVE  /\ \A i \in DOMAIN queue' :
                  \/ \E j \in DOMAIN queue : queue'[i] = queue[j]
                  \/ Named(queue'[i], socket') /\ queue'[i].op # "fix_sv"
           /\ \A i \in DOMAIN urgent' :
                  (\E j \in DOMAIN urgent : urgent'[i] = urgent[j]) \/ Named(urgent'[i], socket')
<1>1. PICK t \in Seq(Operation), u \in Seq(Emptying) :
          /\ queue' = queue \o t /\ urgent' = urgent \o u
          /\ DOMAIN t = 1 .. times /\ \A j \in DOMAIN t : t[j] = Op("set_sv", s)
          /\ \A j \in DOMAIN u : u[j] = Op("fix_sv", s)
          /\ expected' = [expected EXCEPT !.sv = TRUE]
  BY SetVsIs
<1>2. /\ Named(Op("set_sv", s), socket') /\ Op("set_sv", s).op # "fix_sv"
      /\ Named(Op("fix_sv", s), socket')
  BY OpNamed DEF Statement
<1>3. /\ queue \in Seq(Operation) /\ queue' = queue \o t
      /\ urgent \in Seq(Emptying) /\ urgent' = urgent \o u
  BY <1>1 DEF SessionTypes
<1>4. \A i \in DOMAIN queue' :
          (\E j \in DOMAIN queue : queue'[i] = queue[j]) \/ \E j \in DOMAIN t : queue'[i] = t[j]
  BY <1>3, QueueAppended
<1>5. \A i \in DOMAIN urgent' :
          (\E j \in DOMAIN urgent : urgent'[i] = urgent[j]) \/ \E j \in DOMAIN u : urgent'[i] = u[j]
  BY <1>3, UrgentAppended
<1> QED
  BY <1>1, <1>2, <1>4, <1>5

LEMMA AccountNames ==
    ASSUME SessionTypes, NameInv, NEW w \in Worker, account_checked(w)
    PROVE  NameInv'
<1>1. PICK s \in Session : s = doing[w].s
  BY CallbackIs DEF account_checked, CallsBack
<1>2. /\ doing' = [doing EXCEPT ![w] = Idle]
      /\ doing[w].op = "callback" /\ doing[w].of = "get_account"
  BY DEF account_checked, CallsBack
<1>3. PICK exists, challenge :
          /\ socket' = [socket EXCEPT
                ![s].answered = TRUE,
                ![s].failed = IF exists THEN as_uint8(doing[w].result.failed) ELSE @,
                ![s].challenged = @ \/ challenge]
          /\ exists <=> doing[w].result.is = "EXISTS"
          /\ challenge => exists
          /\ IF challenge THEN set_vs(s, 1) ELSE UNCHANGED <<urgent, queue, expected>>
  BY <1>1 DEF account_checked
<1>4. socket \in [Session -> Members] /\ socket[s] \in Members /\ NamedFirst(socket[s])
  BY DEF SessionTypes, NameInv
<1>5. PICK f : f = IF exists THEN as_uint8(doing[w].result.failed) ELSE socket[s].failed
  OBVIOUS
<1>6. f \in Counter
  <2>1. socket[s].failed \in Counter
    BY <1>4 DEF Members
  <2>2. exists => doing[w].result.failed \in Nat
    BY <1>2, <1>3, CallbackIs DEF IsAnswer
  <2> QED
    BY <1>5, <2>1, <2>2, CounterValues, SessionAssumption
<1>7. PICK c : c = (socket[s].challenged \/ challenge)
  OBVIOUS
<1>8. c \in BOOLEAN
  BY <1>7
<1>9. PICK m : m = [socket[s] EXCEPT !.answered = TRUE, !.failed = f, !.challenged = c]
  OBVIOUS
<1>10. socket' = [socket EXCEPT ![s] = m]
  BY <1>3, <1>4, <1>5, <1>7, <1>9
<1>11. /\ m \in Members /\ m.login = socket[s].login
       /\ m.state = socket[s].state /\ m.handling = socket[s].handling
  BY <1>4, <1>6, <1>8, <1>9 DEF Members
<1>12. NamedFirst(m) /\ socket[s].login # ""
  BY <1>1, <1>2, <1>4, <1>11, CallbackNamed DEF NamedFirst
<1>13. socket'[s].login = socket[s].login
  BY <1>10, <1>11, MembersChange DEF SessionTypes
<1>14. /\ \A i \in DOMAIN queue' :
              \/ \E j \in DOMAIN queue : queue'[i] = queue[j]
              \/ Named(queue'[i], socket') /\ queue'[i].op # "fix_sv"
       /\ \A i \in DOMAIN urgent' :
              (\E j \in DOMAIN urgent : urgent'[i] = urgent[j]) \/ Named(urgent'[i], socket')
  <2>1. CASE challenge
    <3>1. set_vs(s, 1)
      BY <1>3, <2>1
    <3> QED
      BY <1>12, <1>13, <3>1, SetVsNames
  <2>2. CASE ~challenge
    <3>1. queue' = queue /\ urgent' = urgent
      BY <1>3, <2>2
    <3> QED
      BY <3>1
  <2> QED
    BY <2>1, <2>2
<1> QED
  BY <1>2, <1>10, <1>11, <1>12, <1>14, IdleIsDone, IdleNamed, WorkerNames

LEMMA CharsNames ==
    ASSUME SessionTypes, NameInv, NEW w \in Worker,
           \/ get_char_amount(w)
           \/ get_char_amount_of_unsupported_build(w)
           \/ get_sessionkey(w)
    PROVE  NameInv'
<1>1. PICK s \in Session : s = doing[w].s
  BY CallbackIs DEF get_char_amount, get_char_amount_of_unsupported_build, get_sessionkey,
                    CallsBack
<1>2. doing' = [doing EXCEPT ![w] = Idle] /\ doing[w].op = "callback"
  BY DEF get_char_amount, get_char_amount_of_unsupported_build, get_sessionkey, CallsBack
<1>3. socket[s].login # ""
  BY <1>1, <1>2, CallbackNamed
<1>4. CASE get_char_amount(w)
  <2>1. /\ \E b \in BOOLEAN : socket' = [socket EXCEPT ![s].listed = doing[w].result \/ b]
        /\ set_vs(s, IF doing[w].result THEN 1 ELSE 2)
    BY <1>1, <1>4 DEF get_char_amount
  <2>2. PICK b \in BOOLEAN : socket' = [socket EXCEPT ![s].listed = b]
    BY <2>1
  <2>3. PICK m : m = [socket[s] EXCEPT !.listed = b]
    OBVIOUS
  <2>4. /\ m \in Members /\ NamedFirst(m) /\ socket' = [socket EXCEPT ![s] = m]
        /\ m.login = socket[s].login
    BY <2>2, <2>3, OtherNames
  <2>5. socket'[s].login = socket[s].login
    BY <2>4, MembersChange DEF SessionTypes
  <2>6. PICK times \in Nat : times = IF doing[w].result THEN 1 ELSE 2
    OBVIOUS
  <2>7. /\ \A i \in DOMAIN queue' :
               \/ \E j \in DOMAIN queue : queue'[i] = queue[j]
               \/ Named(queue'[i], socket') /\ queue'[i].op # "fix_sv"
        /\ \A i \in DOMAIN urgent' :
               (\E j \in DOMAIN urgent : urgent'[i] = urgent[j]) \/ Named(urgent'[i], socket')
    BY <1>3, <2>1, <2>5, <2>6, SetVsNames
  <2> QED
    BY <1>2, <2>4, <2>7, IdleIsDone, IdleNamed, WorkerNames
<1>5. CASE get_sessionkey(w) \/ get_char_amount_of_unsupported_build(w)
  <2>1. queue' = queue /\ urgent' = urgent
    BY <1>5 DEF get_sessionkey, get_char_amount_of_unsupported_build
  <2>2. socket' = [socket EXCEPT ![s].state = "NEED_RPROOF"] \/ die(s)
    BY <1>1, <1>5 DEF get_sessionkey, get_char_amount_of_unsupported_build
  <2>3. PICK state \in {"NEED_RPROOF", "CLOSING"}, owned \in BOOLEAN : SetState(s, state, owned)
    BY <2>2, SetStateOf
  <2>4. state \in ConnectionState
    BY DEF ConnectionState
  <2>5. PICK m : m = [socket[s] EXCEPT !.state = state, !.owned = owned]
    OBVIOUS
  <2>6. /\ m \in Members /\ NamedFirst(m) /\ socket' = [socket EXCEPT ![s] = m]
        /\ m.login = socket[s].login
    BY <1>3, <2>3, <2>4, <2>5, OtherNames DEF SetState
  <2> QED
    BY <1>2, <2>1, <2>6, IdleIsDone, IdleNamed, WorkerNames
<1> QED
  BY <1>4, <1>5

LEMMA FreshNames == Fresh => NameInv
<1> SUFFICES ASSUME Fresh PROVE NameInv
  OBVIOUS
<1>1. DOMAIN queue = {} /\ DOMAIN urgent = {}
  BY DEF Fresh
<1>2. \A w \in Worker : Named(doing[w], socket)
  BY IdleNamed DEF Fresh
<1>3. ASSUME NEW s \in Session
      PROVE  NamedFirst(socket[s])
  <2>1. socket[s].state = "NONE" /\ socket[s].handling = ""
    BY DEF Fresh, Closed
  <2> QED
    BY <2>1 DEF NamedFirst
<1> QED
  BY <1>1, <1>2, <1>3 DEF NameInv

LEMMA InitTables == Init => TableTypes
BY SessionAssumption DEF SessionAssumption, Init, TableTypes

(* Each step keeps the names.                                              *)
LEMMA NextNames == SessionTypes /\ NameInv /\ [Next]_vars => NameInv'
<1> SUFFICES ASSUME SessionTypes, NameInv, [Next]_vars
             PROVE  NameInv'
  OBVIOUS
<1>1. ASSUME NEW s \in Session, ClientStep(s) \/ state_set(s)
      PROVE  NameInv'
  <2>1. CASE open(s)
    BY <2>1, OpenNames
  <2>2. CASE handle_close(s) \/ state_set(s) \/ handle_auth_reconnect_proof(s)
    BY <2>2, EndNames
  <2>3. CASE right_proof(s) \/ handle_realm_list(s)
    BY <2>3, ProofNames
  <2>4. ASSUME NEW name \in {"account", "unknown"},
               \/ unsupported_build(s, name)
               \/ handle_auth_logon_challenge(s, name)
               \/ handle_auth_reconnect_challenge(s, name)
        PROVE  NameInv'
    BY <2>4, ChallengeNames
  <2>5. CASE wrong_proof(s)
    BY <2>5, WrongNames
  <2> QED
    BY <1>1, <2>1, <2>2, <2>3, <2>4, <2>5 DEF ClientStep
<1>2. ASSUME NEW w \in Worker, WorkerStep(w)
      PROVE  NameInv'
  <2>1. CASE dequeue(w)
    <3>1. doing[w] = Idle /\ (urgent # <<>> \/ queue # <<>>)
      BY <2>1 DEF dequeue
    <3>2. PICK s : s \in Session
      <4>1. CASE urgent # <<>>
        BY <4>1, OwnSession, Shifted DEF SessionTypes
      <4>2. CASE queue # <<>>
        BY <4>2, OwnSession, Shifted DEF SessionTypes
      <4> QED
        BY <3>1, <4>1, <4>2
    <3> QED
      BY <2>1, <3>2, DequeueNames
  <2>2. CASE execute_statement(w) \/ execution_fails(w) \/ execute_query(w)
    BY <2>2, ExecuteNames
  <2>3. CASE ip_ban_checked(w)
    BY <2>3, IpBanNames
  <2>4. CASE account_checked(w)
    BY <2>4, AccountNames
  <2>5. CASE \/ get_char_amount(w)
             \/ get_char_amount_of_unsupported_build(w)
             \/ get_sessionkey(w)
    BY <2>5, CharsNames
  <2>6. CASE get_char_amount_without_account(w)
    BY <2>6, Restarted, FreshNames, PTL
  <2> QED
    BY <1>2, <2>1, <2>2, <2>3, <2>4, <2>5, <2>6 DEF WorkerStep
<1>3. CASE UNCHANGED vars
  <2>1. UNCHANGED <<socket, urgent, queue, doing>>
    BY <1>3 DEF vars
  <2> QED
    BY <2>1 DEF NameInv, Named, NamedFirst, Asks, CallbackType
<1> QED
  BY <1>1, <1>2, <1>3 DEF Next

(* Only a ban by address writes to ip_banned, only failures are counted.   *)
LEMMA NextTables == SessionTypes /\ TableTypes /\ [Next]_vars => TableTypes'
<1> SUFFICES ASSUME SessionTypes, TableTypes, [Next]_vars
             PROVE  TableTypes'
  OBVIOUS
<1>1. CASE UNCHANGED <<banned_ips, failures, leaked>>
  BY <1>1 DEF TableTypes
<1>2. ASSUME NEW w \in Worker, execute_statement(w)
      PROVE  TableTypes'
  <2>1. doing[w].s \in Session
    <3>1. doing[w].op # "idle"
      BY <1>2 DEF execute_statement, Statement
    <3> QED
      BY <3>1, OwnSession
  <2>2. IpOf[doing[w].s] \in Ips \ {"elsewhere"}
    BY <2>1, SessionAssumption DEF Ips
  <2>3. /\ banned_ips' = banned_ips \/ banned_ips' = banned_ips \union {IpOf[doing[w].s]}
        /\ UNCHANGED <<failures, leaked>>
    BY <1>2 DEF execute_statement, history
  <2> QED
    BY <2>2, <2>3 DEF TableTypes
<1>3. ASSUME NEW w \in Worker, execution_fails(w)
      PROVE  TableTypes'
  <2>1. doing[w].s \in Session
    <3>1. doing[w].op # "idle"
      BY <1>3 DEF execution_fails, Statement, Query
    <3> QED
      BY <3>1, OwnSession
  <2>2. /\ failures < MaxFailures /\ failures' = failures + 1
        /\ leaked' = leaked \/ leaked' = leaked \union {doing[w].s}
        /\ banned_ips' = banned_ips
    BY <1>3 DEF execution_fails, database
  <2> QED
    BY <2>1, <2>2, SessionAssumption DEF TableTypes
<1>4. ASSUME NEW s \in Session, ClientStep(s) \/ state_set(s)
      PROVE  UNCHANGED <<banned_ips, failures, leaked>>
  BY <1>4 DEF ClientStep, state_set, open, handle_close, unsupported_build,
     handle_auth_logon_challenge, handle_auth_reconnect_challenge, Challenged, right_proof,
     wrong_proof, handle_realm_list, handle_auth_reconnect_proof, database, history
<1>5. ASSUME NEW w \in Worker, WorkerStep(w)
      PROVE  \/ execute_statement(w) \/ execution_fails(w)
             \/ get_char_amount_without_account(w)
             \/ UNCHANGED <<banned_ips, failures, leaked>>
  BY <1>5 DEF WorkerStep, dequeue, execute_query, ip_ban_checked, account_checked,
     get_char_amount, get_char_amount_of_unsupported_build, get_sessionkey, database, history
<1>6. ASSUME NEW w \in Worker, get_char_amount_without_account(w)
      PROVE  TableTypes'
  <2>1. /\ failures < MaxFailures /\ failures' = failures + 1
        /\ leaked' = {} /\ banned_ips' = banned_ips
    BY <1>6 DEF get_char_amount_without_account
  <2> QED
    BY <2>1, SessionAssumption DEF SessionAssumption, TableTypes
<1>7. CASE UNCHANGED vars
  BY <1>1, <1>7 DEF vars, database, history
<1> QED
  BY <1>1, <1>2, <1>3, <1>4, <1>5, <1>6, <1>7 DEF Next

LEMMA OtherElements ==
    ASSUME NEW R, NEW S, NEW q \in Seq(R), \A i \in DOMAIN q : q[i] \in S
    PROVE  q \in Seq(S)
<1>1. q \in [1 .. Len(q) -> S] /\ Len(q) \in Nat
  BY LenProperties
<1> QED
  BY <1>1

(* Typed: what the invariants of this module say of the types.             *)
LEMMA InvTypes == SessionTypes /\ NameInv /\ TableTypes => TypeOK
<1> SUFFICES ASSUME SessionTypes, NameInv, TableTypes
             PROVE  TypeOK
  OBVIOUS
<1>1. socket \in [Session -> SessionType]
  <2>1. ASSUME NEW s \in Session
        PROVE  socket[s] \in SessionType
    <3>1. socket[s] \in Members
      BY DEF SessionTypes
    <3> QED
      BY <3>1 DEF Members, Counter, Logins, SessionType
  <2> QED
    BY <2>1 DEF SessionTypes
<1>2. \A o \in Operation : o.op \in Query \union Statement /\ (o.login # "" =>
          o \in OpType(Query \union Statement)
          /\ (o.op # "fix_sv" => o \in OpType((Query \union Statement) \ {"fix_sv"})))
  BY DEF Operation, OpType, Logins
<1>3. urgent \in Seq(OpType({"fix_sv"}))
  <2>1. urgent \in Seq(Emptying) /\ DOMAIN urgent = 1 .. Len(urgent) /\ Len(urgent) \in Nat
    BY LenProperties DEF SessionTypes
  <2>2. ASSUME NEW i \in DOMAIN urgent
        PROVE  urgent[i] \in OpType({"fix_sv"})
    <3>1. urgent[i] \in Emptying /\ Named(urgent[i], socket)
      BY OwnSession DEF NameInv
    <3>2. urgent[i].login # ""
      BY <3>1 DEF Emptying, Named, Statement
    <3> QED
      BY <3>1, <3>2 DEF Emptying, OpType, Logins
  <2>3. urgent \in [1 .. Len(urgent) -> OpType({"fix_sv"})]
    BY <2>1, <2>2
  <2> QED
    BY <2>1, <2>3
<1>4. queue \in Seq(OpType((Query \union Statement) \ {"fix_sv"}))
  <2>1. queue \in Seq(Operation) /\ DOMAIN queue = 1 .. Len(queue) /\ Len(queue) \in Nat
    BY LenProperties DEF SessionTypes
  <2>2. ASSUME NEW i \in DOMAIN queue
        PROVE  queue[i] \in OpType((Query \union Statement) \ {"fix_sv"})
    <3>1. queue[i] \in Operation /\ Named(queue[i], socket) /\ queue[i].op # "fix_sv"
      BY OwnSession DEF NameInv
    <3> QED
      BY <1>2, <3>1 DEF Named
  <2> QED
    BY <2>1, <2>2, OtherElements
<1>5. ASSUME NEW w \in Worker
      PROVE  \/ doing[w] = Idle
             \/ doing[w] \in OpType(Query \union Statement)
             \/ doing[w].op = "callback" /\ doing[w].of \in Query
                /\ doing[w] \in CallbackType(doing[w].of)
  <2>1. IsDone(doing[w]) /\ Named(doing[w], socket)
    BY DEF SessionTypes, DoingTypes, NameInv
  <2>2. CASE doing[w] \in Operation
    BY <1>2, <2>1, <2>2 DEF Named
  <2>3. CASE IsAnswer(doing[w])
    BY <2>1, <2>3 DEF Named, IsAnswer
  <2> QED
    BY <2>1, <2>2, <2>3 DEF IsDone
<1>6. account \in [failed_logins : Nat, banned : BOOLEAN, sv : BOOLEAN,
                   sessionkey : Session \union {"none"}, last_ip : Ips]
  BY DEF SessionTypes, Row
<1> QED
  BY <1>1, <1>3, <1>4, <1>5, <1>6 DEF TypeOK, TableTypes

(* Every callback gets a result of its query's kind, and whatever is made  *)
(* of a session's name is made when it has one: the handlers of later      *)
(* packets need the state that only a challenge leads to (Realm_Socket).   *)
THEOREM SessionTypeCorrect == Spec => []TypeOK
<1>1. Init => SessionTypes /\ SessionInv /\ NameInv /\ TableTypes
  BY InitInv, InitIsFresh, FreshNames, InitTables
<1>2. /\ SessionTypes /\ SessionInv /\ NameInv /\ TableTypes /\ [Next]_vars
             => SessionTypes' /\ SessionInv' /\ NameInv' /\ TableTypes'
  BY NextInv, NextNames, NextTables
<1>3. SessionTypes /\ NameInv /\ TableTypes => TypeOK
  BY InvTypes
<1> QED
  BY <1>1, <1>2, <1>3, PTL DEF Spec
=============================================================================
