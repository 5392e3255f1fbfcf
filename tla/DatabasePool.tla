---------------------------- MODULE DatabasePool ----------------------------
(***************************************************************************)
(* The pool of database connections both daemons use (DatabaseHolder): one *)
(* priority queue of operations, one worker thread for each connection.    *)
(* An operation is an update, a query whose caller waits for the result,   *)
(* or a transaction of several updates.  The engine is MySQL: a statement  *)
(* is stored at once while the server's autocommit of the connection is    *)
(* on, and joins the open transaction of the connection while it is off.   *)
(*                                                                         *)
(* MySQLConnection keeps a member autoCommit beside the server's mode and  *)
(* never initialises it; a transaction reads it and puts it back.          *)
(***************************************************************************)
EXTENDS Integers, Sequences, FiniteSets

CONSTANTS
    Op,            \* the operations that will be enqueued, each once
    KindOf,        \* KindOf[o]: "update", "query" or "transaction"
    SizeOf,        \* SizeOf[o]: how many changes the operation makes
    PriorityOf,    \* PriorityOf[o]: 0 .. 2
    DBThreads,     \* the number in the configuration
    UninitialisedFlag,  \* the values autoCommit may have in a new connection
    MaxFailures    \* bound on statements and commits the server fails

(* The holder refuses numbers it finds absurd.                             *)
Threads(num) == IF num < 1 \/ num > 32 THEN 1 ELSE num

Worker == 1 .. Threads(DBThreads)

ASSUME PoolAssumption ==
    /\ KindOf \in [Op -> {"update", "query", "transaction"}]
    /\ SizeOf \in [Op -> Nat]
    /\ \A o \in Op : /\ KindOf[o] = "update" => SizeOf[o] = 1
                     /\ KindOf[o] = "query" => SizeOf[o] = 0
    /\ PriorityOf \in [Op -> 0 .. 2]
    /\ DBThreads \in Int
    /\ UninitialisedFlag \subseteq BOOLEAN
    /\ MaxFailures \in Nat

VARIABLES
    holder,      \* "new", "open", "unusable" (the test of the data failed), "closed", "exited"
    submitted,   \* operations given to enqueue
    queue,       \* waiting operations
    alive,       \* workers whose loop runs
    job,         \* job[w]: the operation w executes, as a set of at most one
    done,        \* done[w]: how many requests of its transaction w has executed, or NotBegun
    connection,  \* connection[w]: see NewConnection
    stored,      \* changes that reached the database
    outcome,     \* outcome[o]: what became of an operation
    failures     \* history: statements and commits that failed

vars == <<holder, submitted, queue, alive, job, done, connection, stored, outcome, failures>>

Change == Op \X (Nat \ {0})

Connection == [autocommit : BOOLEAN, flag : BOOLEAN, saved : BOOLEAN, found : BOOLEAN,
               dirty : SUBSET Change]

(* The server's autocommit is switched on; the flag is what the memory     *)
(* held ("found" keeps it for the properties).                             *)
NewConnection(found) ==
    [autocommit |-> TRUE,   \* the mode of the server
     flag       |-> found,  \* the member autoCommit
     saved      |-> found,  \* autocommit_state of the transaction being executed
     found      |-> found,
     dirty      |-> {}]     \* changes of the connection's open transaction

NotBegun == -1

Changes(o) == {o} \X (1 .. SizeOf[o])

Pending == {queue[i] : i \in DOMAIN queue}

Idle(w) == job[w] = {}

InTransaction(w) == done[w] # NotBegun

Init ==
    /\ holder = "new"
    /\ submitted = {}
    /\ queue = <<>>
    /\ alive = {}
    /\ job = [w \in Worker |-> {}]
    /\ done = [w \in Worker |-> NotBegun]
    /\ \E found \in [Worker -> UninitialisedFlag] :
           connection = [w \in Worker |-> NewConnection(found[w])]
    /\ stored = {}
    /\ outcome = [o \in Op |-> "none"]
    /\ failures = 0

-----------------------------------------------------------------------------
(* The holder.                                                             *)

(* A connection is made and deleted to test the data, then each            *)
(* DatabaseConnection connects and starts its worker.                      *)
open ==
    /\ holder = "new"
    /\ holder' = "open"
    /\ alive' = Worker
    /\ UNCHANGED <<submitted, queue, job, done, connection, stored, outcome, failures>>

(* open() returns false, which neither daemon looks at.                    *)
open_fails ==
    /\ holder = "new"
    /\ holder' = "unusable"
    /\ UNCHANGED <<submitted, queue, alive, job, done, connection, stored, outcome, failures>>

(* Behind those of the same priority.                                      *)
Inserted(o, ops) ==
    LET ahead == Cardinality({i \in DOMAIN ops : PriorityOf[ops[i]] >= PriorityOf[o]})
    IN  SubSeq(ops, 1, ahead) \o <<o>> \o SubSeq(ops, ahead + 1, Len(ops))

(* A closed queue takes nothing, and nobody is told.                       *)
enqueue(o) ==
    /\ holder \in {"open", "unusable", "closed"}
    /\ o \notin submitted
    /\ submitted' = submitted \union {o}
    /\ \/ /\ holder # "closed"
          /\ queue' = Inserted(o, queue)
          /\ UNCHANGED outcome
       \/ /\ holder = "closed"
          /\ outcome' = [outcome EXCEPT ![o] = "dropped"]
          /\ UNCHANGED queue
    /\ UNCHANGED <<holder, alive, job, done, connection, stored, failures>>

(* What waits is dropped.                                                  *)
close ==
    /\ holder \in {"open", "unusable"}
    /\ holder' = "closed"
    /\ queue' = <<>>
    /\ outcome' = [o \in Op |-> IF o \in Pending THEN "dropped" ELSE outcome[o]]
    /\ UNCHANGED <<submitted, alive, job, done, connection, stored, failures>>

(* The process ends without waiting for its detached workers: the server   *)
(* rolls back what they left open.                                         *)
exit ==
    /\ holder \in {"closed", "unusable"}
    /\ holder' = "exited"
    /\ queue' = <<>>
    /\ alive' = {}
    /\ job' = [w \in Worker |-> {}]
    /\ connection' = [w \in Worker |-> [connection[w] EXCEPT !.dirty = {}]]
    /\ done' = [w \in Worker |-> NotBegun]
    /\ outcome' = [o \in Op |-> IF o \in Pending \union UNION {job[w] : w \in Worker}
                                THEN "dropped" ELSE outcome[o]]
    /\ UNCHANGED <<submitted, stored, failures>>

-----------------------------------------------------------------------------
(* A worker.                                                               *)

dequeue(w) ==
    /\ w \in alive
    /\ Idle(w)
    /\ queue # <<>>
    /\ job' = [job EXCEPT ![w] = {Head(queue)}]
    /\ queue' = Tail(queue)
    /\ done' = [done EXCEPT ![w] = NotBegun]
    /\ UNCHANGED <<holder, submitted, alive, connection, stored, outcome, failures>>

(* Mutant: one NULL is enqueued, which ends one worker.                    *)
worker_takes_null(w) ==
    /\ w \in alive
    /\ Idle(w)
    /\ holder = "closed"
    /\ alive = Worker
    /\ alive' = alive \ {w}
    /\ UNCHANGED <<holder, submitted, queue, job, done, connection, stored, outcome, failures>>

(* dequeue() returns NULL once the queue is closed.                        *)
worker_ends(w) ==
    /\ w \in alive
    /\ Idle(w)
    /\ holder = "closed"
    /\ alive' = alive \ {w}
    /\ UNCHANGED <<holder, submitted, queue, job, done, connection, stored, outcome, failures>>

Finished(w, result) ==
    /\ job' = [job EXCEPT ![w] = {}]
    /\ outcome' = [o \in Op |-> IF o \in job[w] THEN result ELSE outcome[o]]

(* What the server does with changes made on connection w.                 *)
Made(w, changes) ==
    IF connection[w].autocommit
    THEN /\ stored' = stored \union changes
         /\ UNCHANGED connection
    ELSE /\ connection' = [connection EXCEPT ![w].dirty = @ \union changes]
         /\ UNCHANGED stored

(* A single request: an update, or a query whose future is set.            *)
call_request(w, o) ==
    /\ job[w] = {o}
    /\ KindOf[o] # "transaction"
    /\ Made(w, Changes(o))
    /\ Finished(w, "executed")
    /\ UNCHANGED <<holder, submitted, queue, alive, done, failures>>

Fails ==
    /\ failures < MaxFailures
    /\ failures' = failures + 1

(* Mutant: the worker's loop ends with the failed operation.               *)
request_ends_worker(w, o) ==
    /\ job[w] = {o}
    /\ KindOf[o] # "transaction"
    /\ Fails
    /\ Finished(w, "failed")
    /\ alive' = alive \ {w}
    /\ UNCHANGED <<holder, submitted, queue, done, connection, stored>>

(* execute() returns -1, which the worker ignores: the future of a query   *)
(* is never set.                                                           *)
request_fails(w, o) ==
    /\ job[w] = {o}
    /\ KindOf[o] # "transaction"
    /\ Fails
    /\ Finished(w, "failed")
    /\ UNCHANGED <<holder, submitted, queue, alive, done, connection, stored>>

-----------------------------------------------------------------------------
(* A transaction.                                                          *)

(* Mutant: the mode is read but not changed.                               *)
began_in_autocommit(w) ==
    [connection[w] EXCEPT !.saved = connection[w].flag, !.flag = FALSE]

(* getAutoCommit() reads the member; setAutoCommit(false) changes both the *)
(* server's mode and the member.                                           *)
began(w) ==
    [connection[w] EXCEPT !.saved = connection[w].flag, !.flag = FALSE, !.autocommit = FALSE]

begin(w, o) ==
    /\ job[w] = {o}
    /\ KindOf[o] = "transaction"
    /\ ~InTransaction(w)
    /\ connection' = [connection EXCEPT ![w] = began(w)]
    /\ done' = [done EXCEPT ![w] = 0]
    /\ UNCHANGED <<holder, submitted, queue, alive, job, stored, outcome, failures>>

(* One request: executed, deleted and popped.                              *)
call_next(w, o) ==
    /\ job[w] = {o}
    /\ InTransaction(w)
    /\ done[w] < SizeOf[o]
    /\ Made(w, {<<o, done[w] + 1>>})
    /\ done' = [done EXCEPT ![w] = @ + 1]
    /\ UNCHANGED <<holder, submitted, queue, alive, job, outcome, failures>>

(* Mutant: the destructor leaves the connection as it is.                  *)
mode_kept(w, c) == c

(* ~SqlOperationTransaction calls setAutoCommit with the saved state.  The *)
(* transaction has been committed or rolled back, so nothing is dirty.     *)
mode_restored(w, c) == [c EXCEPT !.flag = c.saved, !.autocommit = c.saved]

(* Mutant: the next transaction finds the counter of this one.             *)
Ended_uncounted(w, result) ==
    /\ connection' = [connection EXCEPT
           ![w] = mode_restored(w, [connection[w] EXCEPT !.dirty = {}])]
    /\ Finished(w, result)
    /\ UNCHANGED <<holder, submitted, queue, alive, done>>

Ended(w, result) ==
    /\ connection' = [connection EXCEPT
           ![w] = mode_restored(w, [connection[w] EXCEPT !.dirty = {}])]
    /\ done' = [done EXCEPT ![w] = NotBegun]
    /\ Finished(w, result)
    /\ UNCHANGED <<holder, submitted, queue, alive>>

commit_transaction(w, o) ==
    /\ job[w] = {o}
    /\ InTransaction(w)
    /\ done[w] = SizeOf[o]
    /\ stored' = stored \union connection[w].dirty
    /\ Ended(w, "executed")
    /\ UNCHANGED failures

(* The result of mysql_commit is ignored: for the code this is a success.  *)
commit_is_lost(w, o) ==
    /\ job[w] = {o}
    /\ InTransaction(w)
    /\ done[w] = SizeOf[o]
    /\ Fails
    /\ Ended(w, "lost")
    /\ UNCHANGED stored

(* A request fails: the loop stops, everything is rolled back.             *)
rollback_transaction(w, o) ==
    /\ job[w] = {o}
    /\ InTransaction(w)
    /\ done[w] < SizeOf[o]
    /\ Fails
    /\ Ended(w, "failed")
    /\ UNCHANGED stored

Executes(w, o) ==
    \/ call_request(w, o)
    \/ request_fails(w, o)
    \/ begin(w, o)
    \/ call_next(w, o)
    \/ commit_transaction(w, o)
    \/ commit_is_lost(w, o)
    \/ rollback_transaction(w, o)

Works(w) == dequeue(w) \/ worker_ends(w) \/ \E o \in Op : Executes(w, o)

Next ==
    \/ open
    \/ open_fails
    \/ close
    \/ exit
    \/ \E o \in Op : enqueue(o)
    \/ \E w \in Worker : Works(w)

(* The threads of the pool run: nothing else is assumed.                   *)
Fairness == \A w \in Worker : WF_vars(Works(w))

Spec == Init /\ [][Next]_vars

FairSpec == Spec /\ Fairness

-----------------------------------------------------------------------------
(* Type correctness; a counter is that of the transaction being executed.  *)
TypeOK ==
    /\ holder \in {"new", "open", "unusable", "closed", "exited"}
    /\ submitted \subseteq Op
    /\ queue \in Seq(Op)
    /\ alive \subseteq Worker
    /\ job \in [Worker -> SUBSET Op]
    /\ done \in [Worker -> Nat \union {NotBegun}]
    /\ connection \in [Worker -> Connection]
    /\ stored \subseteq Change
    /\ outcome \in [Op -> {"none", "executed", "failed", "lost", "dropped"}]
    /\ failures \in 0 .. MaxFailures
    /\ \A w \in Worker : InTransaction(w) =>
           \E o \in job[w] : KindOf[o] = "transaction" /\ done[w] <= SizeOf[o]

(* Transactions are atomic: the store changes by whole operations, however *)
(* the statements of several connections interleave, whichever of them     *)
(* fails and whenever the process ends in the middle of one                *)
(* (SqlOperationTransaction::call).                                        *)
Atomic == INSTANCE AtomicStore WITH accepted <- submitted

StoreRefined == Atomic!Spec

(* Nothing that succeeded is lost: the changes of an operation a worker    *)
(* has executed are in the store, also after other operations of the same  *)
(* connection were rolled back or the process ended.  It depends on each   *)
(* transaction leaving the connection in the mode it found, and so holds   *)
(* for connections whose flag happened to tell the truth.                  *)
Durable ==
    (\A w \in Worker : connection[w].found) =>
        \A o \in Op : outcome[o] = "executed" => Changes(o) \subseteq stored

(* A caller of enqueue_synch_query waits without limit: its query is       *)
(* executed, fails or is dropped, if only the pool could be opened.        *)
OperationsSettle ==
    \A o \in Op : (o \in submitted /\ holder = "open") ~> outcome[o] # "none"

(* close() ends every worker, the ones that wait for operations too.       *)
CloseEndsWorkers == (holder \notin {"new", "open"}) ~> (alive = {})

(* Database.h promises that autocommit "is restored in its initial state   *)
(* after the transaction is done": a connection starts with autocommit on. *)
AutocommitRestored == \A w \in Worker : Idle(w) => connection[w].autocommit
=============================================================================
