-------------------------- MODULE ProxyConnections --------------------------
(***************************************************************************)
(* The connections of a proxy and their count (Proxy_Socket::open, close,  *)
(* handle_close and die; Proxy_Service::update_connections).               *)
(*                                                                         *)
(* The count is changed atomically, but the load is computed from it and   *)
(* stored in two further steps, by any network thread or database worker.  *)
(* A socket object lives as long as its own reference (ptr) or callbacks   *)
(* that still wait for their queries, of which a client may have several.  *)
(***************************************************************************)
EXTENDS Integers, FiniteSets

LOCAL INSTANCE FiniteSetsExt

CONSTANTS
    Socket,            \* slots for connections
    NetThread,         \* NetThreads: one of them at a time runs the acceptor
    DatabaseThread,    \* DBThreads: they run the callbacks
    connection_limit,
    CountModulus,      \* current_connections is a uint32; a smaller modulus here
    MaxDrift,          \* bound on decrements without an increment
    MaxWaiting         \* bound on the queries that are waited for

Thread == NetThread \union DatabaseThread

(* By default 6 threads for 1000 connections; the limit is a uint16, the   *)
(* count a uint32.                                                         *)
ASSUME ConnectionsAssumption ==
    /\ connection_limit \in Nat \ {0}
    /\ IsFiniteSet(Thread)
    /\ Cardinality(Thread) <= connection_limit
    /\ CountModulus \in Nat
    /\ CountModulus > 2 * connection_limit
    /\ {MaxDrift, MaxWaiting} \subseteq Nat

VARIABLES
    socket,               \* see FreeSlot
    thread,               \* see IdleThread
    current_connections,
    load,
    drift                 \* history: decrements for refused or already counted-down sockets

connVars == <<socket, thread, current_connections, load, drift>>

FreeSlot ==
    [owned      |-> FALSE,  \* ptr refers to the object
     registered |-> FALSE,  \* with the reactor, for reading
     waiting    |-> 0,      \* callbacks to come that refer to the object
     counted    |-> FALSE]  \* history: incremented and not yet decremented

(* What a thread is doing, and the load it has computed but not stored.    *)
IdleThread == [task |-> "none", socket |-> "none", step |-> "none", load |-> 0]

Task == {"none", "open", "close", "callback"}

Working(s) == {t \in Thread : thread[t].socket = s}

Freed(s) == ~socket[s].owned /\ socket[s].waiting = 0 /\ Working(s) = {}

ConnInit ==
    /\ socket = [s \in Socket |-> FreeSlot]
    /\ thread = [t \in Thread |-> IdleThread]
    /\ current_connections = 0
    /\ load = 0
    /\ drift = 0

-----------------------------------------------------------------------------
(* update_connections: change the count, then compute, then store.         *)

Started(t, task, s) ==
    thread' = [thread EXCEPT ![t] = [task |-> task, socket |-> s, step |-> "changed", load |-> 0]]

(* Mutant: an increment that does not undo the wrap of a decrement.        *)
Up_unwrapped == current_connections' = current_connections + 1

Up == current_connections' = (current_connections + 1) % CountModulus

Down(s) ==
    /\ current_connections' = (current_connections + CountModulus - 1) % CountModulus
    /\ drift' = IF socket[s].counted THEN drift ELSE drift + 1
    /\ drift' <= MaxDrift

compute_load(t) ==
    /\ thread[t].step = "changed"
    /\ thread' = [thread EXCEPT ![t].step = "computed",
                                ![t].load = current_connections \div connection_limit]
    /\ UNCHANGED <<socket, current_connections, load, drift>>

-----------------------------------------------------------------------------
(* Connections come.                                                       *)

(* The reactor runs the acceptor in one thread at a time.                  *)
Accepting(t, s) ==
    /\ thread[t].task = "none"
    /\ \A u \in Thread : thread[u].task # "open"
    /\ Freed(s)

(* Mutant: one whole limit too late.                                       *)
below_twice_limit == load # 2

below_limit == load # 1

open(t, s) ==
    /\ Accepting(t, s)
    /\ below_limit
    /\ Up
    /\ socket' = [socket EXCEPT ![s] = [FreeSlot EXCEPT !.owned = TRUE, !.counted = TRUE]]
    /\ Started(t, "open", s)
    /\ UNCHANGED <<load, drift>>

(* open() returns -1, and the acceptor closes the new handler: close()     *)
(* calls die(), which counts down what was never counted up.               *)
open_refused(t, s) ==
    /\ Accepting(t, s)
    /\ ~below_limit
    /\ Down(s)
    /\ socket' = [socket EXCEPT ![s] = [FreeSlot EXCEPT !.owned = TRUE]]
    /\ Started(t, "close", s)
    /\ UNCHANGED load

(* The load is stored and the socket registered.                           *)
opened(t) ==
    LET s == thread[t].socket IN
    /\ thread[t].task = "open"
    /\ thread[t].step = "computed"
    /\ load' = thread[t].load
    /\ socket' = [socket EXCEPT ![s].registered = TRUE]
    /\ thread' = [thread EXCEPT ![t] = IdleThread]
    /\ UNCHANGED <<current_connections, drift>>

(* The socket cannot be registered: open() fails, close() counts it down.  *)
open_unregistered(t) ==
    LET s == thread[t].socket IN
    /\ thread[t].task = "open"
    /\ thread[t].step = "computed"
    /\ load' = thread[t].load
    /\ Down(s)
    /\ socket' = [socket EXCEPT ![s].counted = FALSE]
    /\ Started(t, "close", s)

-----------------------------------------------------------------------------
(* Packets that need the database, and connections that end.               *)

Idle(t) == thread[t].task = "none"

(* The object is deleted with the last reference; its destructor removes   *)
(* the handle from the reactor.                                            *)
dropped(t, s, c) ==
    IF \/ c.owned \/ c.waiting > 0
       \/ \E u \in DatabaseThread \ {t} : thread[u].socket = s
    THEN c
    ELSE [c EXCEPT !.registered = FALSE]

Waiting(s) == socket[s].waiting

queries == MapThenSumSet(Waiting, Socket)

(* handle_cmsg_auth_session and handle_cmsg_char_enum, which a client may  *)
(* send again before the answer: each callback keeps the object.  Without  *)
(* ptr nothing is asked.                                                   *)
get_account(t, s) ==
    /\ Idle(t)
    /\ socket[s].registered
    /\ socket[s].owned
    /\ queries < MaxWaiting
    /\ socket' = [socket EXCEPT ![s].waiting = @ + 1]
    /\ UNCHANGED <<thread, current_connections, load, drift>>

(* The account may play, or its characters are listed.                     *)
account_retrieved(t, s) ==
    /\ Idle(t)
    /\ socket[s].waiting > 0
    /\ LET c == [socket[s] EXCEPT !.waiting = @ - 1]
       IN  socket' = [socket EXCEPT ![s] = dropped(t, s, c)]
    /\ UNCHANGED <<thread, current_connections, load, drift>>

(* It may not: the callback calls die() in the worker's thread, also when  *)
(* the connection has been closed and counted down meanwhile.              *)
account_refused(t, s) ==
    /\ Idle(t)
    /\ socket[s].waiting > 0
    /\ Down(s)
    /\ socket' = [socket EXCEPT ![s].counted = FALSE, ![s].waiting = @ - 1]
    /\ Started(t, "callback", s)
    /\ UNCHANGED load

(* End of input or a bad packet: the reactor forgets the handle and calls  *)
(* handle_close, which calls die().                                        *)
handle_close(t, s) ==
    /\ Idle(t)
    /\ socket[s].registered
    /\ Down(s)
    /\ socket' = [socket EXCEPT ![s].registered = FALSE, ![s].counted = FALSE]
    /\ Started(t, "close", s)
    /\ UNCHANGED load

(* Mutant: ptr is only released in a callback, not when close() refuses a  *)
(* connection or handle_close ends one.                                    *)
released_by_callback(t, c) == [c EXCEPT !.owned = @ /\ thread[t].task = "close"]

(* die() ends with ptr.release().                                          *)
released(t, c) == [c EXCEPT !.owned = FALSE]

died(t) ==
    LET s == thread[t].socket IN
    /\ thread[t].task \in {"close", "callback"}
    /\ thread[t].step = "computed"
    /\ load' = thread[t].load
    /\ socket' = [socket EXCEPT ![s] = dropped(t, s, released(t, @))]
    /\ thread' = [thread EXCEPT ![t] = IdleThread]
    /\ UNCHANGED <<current_connections, drift>>

Steps(t) == compute_load(t) \/ opened(t) \/ open_unregistered(t) \/ died(t)

Answers(s) == \E t \in DatabaseThread : account_retrieved(t, s) \/ account_refused(t, s)

ConnNext ==
    \/ \E t \in Thread : Steps(t)
    \/ \E t \in NetThread, s \in Socket :
           open(t, s) \/ open_refused(t, s) \/ get_account(t, s) \/ handle_close(t, s)
    \/ \E s \in Socket : Answers(s)

(* Threads that started to update the load go on, and queries are answered.*)
ConnFairness ==
    /\ \A t \in Thread : WF_connVars(compute_load(t) \/ opened(t) \/ died(t))
    /\ \A s \in Socket : SF_connVars(Answers(s))

-----------------------------------------------------------------------------
(* Type correctness.                                                       *)
ConnTypeOK ==
    /\ socket \in [Socket -> [owned : BOOLEAN, registered : BOOLEAN,
                              waiting : Nat, counted : BOOLEAN]]
    /\ thread \in [Thread -> [task : Task, socket : Socket \union {"none"},
                              step : {"none", "changed", "computed"},
                              load : 0 .. CountModulus]]
    /\ current_connections \in 0 .. CountModulus - 1
    /\ load \in 0 .. CountModulus
    /\ drift \in 0 .. MaxDrift

Open == {s \in Socket : socket[s].counted}

(* The limit holds but for the threads: a stale load can be stored by each *)
(* thread other than the accepting one and let one more connection in.     *)
(* It holds while no connection was counted down that was not counted up,  *)
(* and only then (Proxy_Socket::open, Proxy_Service::update_connections).  *)
LimitHeld ==
    drift = 0 => Cardinality(Open) <= connection_limit + Cardinality(Thread) - 1

(* A socket that was counted down and is not watched is deleted in the     *)
(* end: one refused at the limit, one whose callback comes after           *)
(* handle_close, and one on which die() is called twice (Proxy_Socket::    *)
(* die).                                                                   *)
ClosedGetsFreed ==
    \A s \in Socket : (~socket[s].registered /\ ~socket[s].counted) ~> Freed(s)
=============================================================================
