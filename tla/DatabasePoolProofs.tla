------------------------- MODULE DatabasePoolProofs -------------------------
(***************************************************************************)
(* Proofs about DatabasePool, for any operations, of any number of         *)
(* requests, and any number of threads.                                    *)
(***************************************************************************)
EXTENDS DatabasePool, FiniteSetTheorems, TLAPS

-----------------------------------------------------------------------------
(* The queue.                                                              *)

(* An operation is put somewhere between those that wait, which stay.      *)
LEMMA InsertedType ==
    ASSUME NEW ops \in Seq(Op), NEW o \in Op
    PROVE  /\ Inserted(o, ops) \in Seq(Op)
           /\ \A i \in DOMAIN Inserted(o, ops) :
                  \/ Inserted(o, ops)[i] = o
                  \/ \E j \in DOMAIN ops : Inserted(o, ops)[i] = ops[j]
<1> DEFINE A == {i \in DOMAIN ops : PriorityOf[ops[i]] >= PriorityOf[o]}
           a == Cardinality(A)
<1>1. a \in 0 .. Len(ops)
  <2>0. Len(ops) \in Nat
    OBVIOUS
  <2>1. IsFiniteSet(1 .. Len(ops)) /\ Cardinality(1 .. Len(ops)) = Len(ops)
    BY <2>0, FS_Interval
  <2>2. A \subseteq 1 .. Len(ops)
    OBVIOUS
  <2>3. IsFiniteSet(A) /\ Cardinality(A) <= Len(ops)
    BY <2>1, <2>2, FS_Subset
  <2> QED
    BY <2>3, FS_CardinalityType
<1> HIDE DEF a
<1>2. Inserted(o, ops) = SubSeq(ops, 1, a) \o <<o>> \o SubSeq(ops, a + 1, Len(ops))
  BY DEF Inserted, a
<1> DEFINE s == SubSeq(ops, 1, a)
           t == SubSeq(ops, a + 1, Len(ops))
<1>3. s \in Seq(Op) /\ Len(s) = a /\ \A i \in 1 .. a : s[i] = ops[i]
  BY <1>1
<1>4. t \in Seq(Op) /\ Len(t) = Len(ops) - a /\ \A i \in 1 .. Len(t) : t[i] = ops[a + i]
  BY <1>1
<1> HIDE DEF s, t
<1>5. s \o <<o>> \in Seq(Op) /\ Len(s \o <<o>>) = a + 1
      /\ \A i \in 1 .. a + 1 : (s \o <<o>>)[i] = IF i = a + 1 THEN o ELSE ops[i]
  BY <1>1, <1>3
<1> DEFINE u == s \o <<o>>
<1>6. u \o t \in Seq(Op) /\ Len(u \o t) = Len(ops) + 1
      /\ \A i \in 1 .. Len(ops) + 1 :
             (u \o t)[i] = IF i <= a + 1 THEN u[i] ELSE t[i - (a + 1)]
  BY <1>1, <1>4, <1>5
<1>7. \A i \in 1 .. Len(ops) + 1 :
          \/ (u \o t)[i] = o
          \/ \E j \in 1 .. Len(ops) : (u \o t)[i] = ops[j]
  <2> TAKE i \in 1 .. Len(ops) + 1
  <2>1. CASE i < a + 1
    BY <1>1, <1>5, <1>6, <2>1
  <2>2. CASE i = a + 1
    BY <1>1, <1>5, <1>6, <2>2
  <2>3. CASE i > a + 1
    <3>1. (u \o t)[i] = t[i - (a + 1)]
      BY <1>1, <1>6, <2>3
    <3>2. t[i - (a + 1)] = ops[a + (i - (a + 1))]
      BY <1>1, <1>4, <2>3
    <3>3. i - 1 \in 1 .. Len(ops) /\ a + (i - (a + 1)) = i - 1
      BY <1>1, <2>3
    <3> QED
      BY <3>1, <3>2, <3>3
  <2>4. i < a + 1 \/ i = a + 1 \/ i > a + 1
    BY <1>1
  <2> QED
    BY <2>1, <2>2, <2>3, <2>4
<1> HIDE DEF u
<1>8. Inserted(o, ops) = u \o t
  BY <1>2 DEF s, t, u
<1>9. DOMAIN (u \o t) = 1 .. Len(ops) + 1
  BY <1>6
<1> QED
  BY <1>6, <1>7, <1>8, <1>9

-----------------------------------------------------------------------------
(* Type correctness.                                                       *)

(* What an operation changes is a set of changes.                          *)
LEMMA ChangesType == \A o \in Op : Changes(o) \subseteq Change
BY PoolAssumption DEF Changes, Change

(* What is made on a connection.                                           *)
LEMMA MadeType ==
    ASSUME TypeOK, NEW w \in Worker, NEW changes \in SUBSET Change, Made(w, changes)
    PROVE  stored' \subseteq Change /\ connection' \in [Worker -> Connection]
<1>1. CASE connection[w].autocommit
  BY <1>1 DEF TypeOK, Made
<1>2. CASE ~connection[w].autocommit
  <2>1. connection[w].dirty \union changes \in SUBSET Change
    BY DEF TypeOK, Connection
  <2> DEFINE c == [connection[w] EXCEPT !.dirty = connection[w].dirty \union changes]
  <2>2. c \in Connection
    <3> DEFINE d == connection[w].dirty \union changes
    <3>1. connection[w] \in Connection /\ d \in SUBSET Change
      BY <2>1 DEF TypeOK
    <3> HIDE DEF d
    <3>2. [connection[w] EXCEPT !.dirty = d] \in Connection
      BY <3>1 DEF Connection
    <3> QED
      BY <3>2 DEF d
  <2>3. connection' = [connection EXCEPT ![w] = c]
    BY <1>2 DEF Made
  <2> HIDE DEF c
  <2> QED
    BY <1>2, <2>2, <2>3 DEF TypeOK, Made
<1> QED
  BY <1>1, <1>2

(* What an operation leaves when it is finished is typed.                  *)
LEMMA FinishedType ==
    ASSUME TypeOK, NEW w \in Worker, NEW result \in {"executed", "failed", "lost"},
           Finished(w, result)
    PROVE  /\ job' \in [Worker -> SUBSET Op]
           /\ outcome' \in [Op -> {"none", "executed", "failed", "lost", "dropped"}]
BY DEF TypeOK, Finished

(* The last of a transaction's steps.                                      *)
LEMMA EndedType ==
    ASSUME TypeOK, NEW w \in Worker, NEW result \in {"executed", "failed", "lost"},
           Ended(w, result), stored' \subseteq Change, failures' \in 0 .. MaxFailures
    PROVE  TypeOK'
<1>1. connection' \in [Worker -> Connection]
  <2>1. [connection[w] EXCEPT !.dirty = {}] \in Connection
    BY DEF TypeOK, Connection
  <2>2. mode_restored(w, [connection[w] EXCEPT !.dirty = {}]) \in Connection
    BY <2>1 DEF mode_restored, Connection
  <2> QED
    BY <2>2 DEF TypeOK, Ended
<1>2. done' \in [Worker -> Nat \union {NotBegun}]
  BY DEF TypeOK, Ended
<1>3. \A v \in Worker : InTransaction(v)' =>
          \E o \in job'[v] : KindOf[o] = "transaction" /\ done'[v] <= SizeOf[o]
  BY DEF TypeOK, Ended, Finished, InTransaction
<1> QED
  BY <1>1, <1>2, <1>3, FinishedType DEF TypeOK, Ended

(* Failures stay within their bound.                                       *)
LEMMA FailsType ==
    ASSUME TypeOK, Fails
    PROVE  failures' \in 0 .. MaxFailures
BY PoolAssumption DEF TypeOK, Fails

(* Types are inductive: one step for each action of the pool.              *)
LEMMA TypeStep == TypeOK /\ [Next]_vars => TypeOK'
<1> SUFFICES ASSUME TypeOK, [Next]_vars
             PROVE  TypeOK'
  OBVIOUS
<1>1. CASE open
  BY <1>1 DEF open, TypeOK, InTransaction
<1>2. CASE open_fails
  BY <1>2 DEF open_fails, TypeOK, InTransaction
<1>3. CASE close
  BY <1>3 DEF close, TypeOK, InTransaction
<1>4. CASE exit
  <2>1. connection' \in [Worker -> Connection]
    BY <1>4 DEF exit, TypeOK, Connection
  <2> QED
    BY <1>4, <2>1 DEF exit, TypeOK, InTransaction
<1>5. ASSUME NEW o \in Op, enqueue(o)
      PROVE  TypeOK'
  <2>1. queue' \in Seq(Op)
    BY <1>5, InsertedType DEF enqueue, TypeOK
  <2> QED
    BY <1>5, <2>1 DEF enqueue, TypeOK, InTransaction
<1>6. ASSUME NEW w \in Worker, dequeue(w)
      PROVE  TypeOK'
  <2>1. Head(queue) \in Op /\ Tail(queue) \in Seq(Op)
    BY <1>6 DEF dequeue, TypeOK
  <2> QED
    BY <1>6, <2>1 DEF dequeue, TypeOK, InTransaction
<1>7. ASSUME NEW w \in Worker, worker_ends(w)
      PROVE  TypeOK'
  BY <1>7 DEF worker_ends, TypeOK, InTransaction
<1>8. ASSUME NEW w \in Worker, NEW o \in Op, Executes(w, o)
      PROVE  TypeOK'
  <2>1. CASE call_request(w, o)
    <3>1. \A v \in Worker : InTransaction(v)' =>
              \E d \in job'[v] : KindOf[d] = "transaction" /\ done'[v] <= SizeOf[d]
      BY <2>1 DEF call_request, Finished, TypeOK, InTransaction
    <3> QED
      BY <2>1, <3>1, ChangesType, MadeType, FinishedType DEF call_request, TypeOK
  <2>2. CASE request_fails(w, o)
    <3>1. \A v \in Worker : InTransaction(v)' =>
              \E d \in job'[v] : KindOf[d] = "transaction" /\ done'[v] <= SizeOf[d]
      BY <2>2 DEF request_fails, Finished, TypeOK, InTransaction
    <3> QED
      BY <2>2, <3>1, FailsType, FinishedType DEF request_fails, TypeOK
  <2>3. CASE begin(w, o)
    <3>1. connection' \in [Worker -> Connection]
      BY <2>3 DEF begin, began, TypeOK, Connection
    <3>2. 0 <= SizeOf[o] /\ done' \in [Worker -> Nat \union {NotBegun}]
      BY <2>3, PoolAssumption DEF begin, TypeOK
    <3>3. \A v \in Worker : InTransaction(v)' =>
              \E d \in job'[v] : KindOf[d] = "transaction" /\ done'[v] <= SizeOf[d]
      BY <2>3, <3>2 DEF begin, TypeOK, InTransaction
    <3> QED
      BY <2>3, <3>1, <3>2, <3>3 DEF begin, TypeOK
  <2>4. CASE call_next(w, o)
    <3>1. done[w] \in Nat /\ SizeOf[o] \in Nat /\ done[w] < SizeOf[o]
      BY <2>4, PoolAssumption DEF call_next, TypeOK, InTransaction
    <3>2. {<<o, done[w] + 1>>} \in SUBSET Change
      BY <3>1 DEF Change
    <3>3. stored' \subseteq Change /\ connection' \in [Worker -> Connection]
      BY <2>4, <3>2, MadeType DEF call_next
    <3>4. \A v \in Worker : InTransaction(v)' =>
              \E d \in job'[v] : KindOf[d] = "transaction" /\ done'[v] <= SizeOf[d]
      BY <2>4, <3>1 DEF call_next, TypeOK, InTransaction
    <3>5. done' \in [Worker -> Nat \union {NotBegun}]
      BY <2>4, <3>1 DEF call_next, TypeOK
    <3> QED
      BY <2>4, <3>3, <3>4, <3>5 DEF call_next, TypeOK
  <2>5. CASE commit_transaction(w, o)
    <3>1. stored' \subseteq Change /\ failures' \in 0 .. MaxFailures
      BY <2>5 DEF commit_transaction, TypeOK, Connection
    <3> QED
      BY <2>5, <3>1, EndedType DEF commit_transaction
  <2>6. CASE commit_is_lost(w, o)
    <3>1. stored' \subseteq Change
      BY <2>6 DEF commit_is_lost, TypeOK
    <3> QED
      BY <2>6, <3>1, FailsType, EndedType DEF commit_is_lost
  <2>7. CASE rollback_transaction(w, o)
    <3>1. stored' \subseteq Change
      BY <2>7 DEF rollback_transaction, TypeOK
    <3> QED
      BY <2>7, <3>1, FailsType, EndedType DEF rollback_transaction
  <2> QED
    BY <1>8, <2>1, <2>2, <2>3, <2>4, <2>5, <2>6, <2>7 DEF Executes
<1>9. CASE UNCHANGED vars
  BY <1>9 DEF vars, TypeOK, InTransaction
<1> QED
  BY <1>1, <1>2, <1>3, <1>4, <1>5, <1>6, <1>7, <1>8, <1>9 DEF Next, Works

(* Every variable of the pool keeps its type, and the counter of a worker  *)
(* is that of the transaction it executes.                                 *)
THEOREM TypeCorrect == Spec => []TypeOK
<1>1. Init => TypeOK
  <2> SUFFICES ASSUME Init
               PROVE  TypeOK
    OBVIOUS
  <2>1. connection \in [Worker -> Connection]
    BY PoolAssumption DEF Init, NewConnection, Connection
  <2> QED
    BY <2>1, PoolAssumption DEF Init, TypeOK, InTransaction
<1> QED
  BY <1>1, TypeStep, PTL DEF Spec

-----------------------------------------------------------------------------
(* Transactions are atomic.                                                *)

(* All changes of some operations.                                         *)
Whole(ops) == UNION {Changes(o) : o \in ops}

(* What the transaction worker w executes has changed so far.              *)
Begun(w) == UNION {{o} \X (1 .. done[w]) : o \in job[w]}

(* What is queued or executed was submitted, one operation to a worker.    *)
JobsAccepted ==
    /\ \A i \in DOMAIN queue : queue[i] \in submitted
    /\ \A w \in Worker : job[w] = {} \/ \E o \in submitted : job[w] = {o}

(* A connection's open transaction holds the changes of whole operations   *)
(* and those of the transaction its worker executes -- the former are      *)
(* requests that were executed while autocommit was left off -- and a      *)
(* transaction is executed with autocommit off.                            *)
DirtyWhole ==
    \A w \in Worker :
        /\ InTransaction(w) => ~connection[w].autocommit
        /\ \E ops \in SUBSET submitted : connection[w].dirty = Whole(ops) \union Begun(w)

(* The changes of one more whole operation.                                *)
LEMMA WholeOfTwo ==
    ASSUME NEW ops, NEW o
    PROVE  Whole(ops) \union Changes(o) = Whole(ops \union {o})
BY DEF Whole

(* A worker that is not in a transaction has changed nothing in one.       *)
LEMMA NothingBegun ==
    ASSUME NEW w \in Worker, done[w] = NotBegun
    PROVE  Begun(w) = {}
<1>1. 1 .. done[w] = {}
  BY DEF NotBegun
<1> QED
  BY <1>1 DEF Begun

(* What is queued or executed was submitted, in each step.                 *)
LEMMA JobsStep == TypeOK /\ JobsAccepted /\ [Next]_vars => JobsAccepted'
<1> SUFFICES ASSUME TypeOK, JobsAccepted, [Next]_vars
             PROVE  JobsAccepted'
  OBVIOUS
<1>1. CASE open \/ open_fails \/ close \/ exit
  BY <1>1 DEF open, open_fails, close, exit, JobsAccepted
<1>2. ASSUME NEW o \in Op, enqueue(o)
      PROVE  JobsAccepted'
  <2>1. CASE queue' = Inserted(o, queue)
    <3>1. \A i \in DOMAIN queue' : queue'[i] = o \/ \E j \in DOMAIN queue : queue'[i] = queue[j]
      BY <2>1, InsertedType DEF TypeOK
    <3>2. \A i \in DOMAIN queue' : queue'[i] \in submitted'
      BY <1>2, <3>1 DEF enqueue, JobsAccepted
    <3> QED
      BY <1>2, <3>2 DEF enqueue, JobsAccepted
  <2>2. CASE UNCHANGED queue
    BY <1>2, <2>2 DEF enqueue, JobsAccepted
  <2> QED
    BY <1>2, <2>1, <2>2 DEF enqueue
<1>3. ASSUME NEW w \in Worker, dequeue(w)
      PROVE  JobsAccepted'
  <2>1. /\ Head(queue) = queue[1] /\ 1 \in DOMAIN queue
        /\ \A i \in DOMAIN Tail(queue) : i + 1 \in DOMAIN queue /\ Tail(queue)[i] = queue[i + 1]
    BY <1>3 DEF dequeue, TypeOK
  <2>2. \A i \in DOMAIN queue' : queue'[i] \in submitted'
    BY <1>3, <2>1 DEF dequeue, JobsAccepted
  <2>3. job' = [job EXCEPT ![w] = {queue[1]}] /\ queue[1] \in submitted'
    BY <1>3, <2>1 DEF dequeue, JobsAccepted
  <2>4. \A v \in Worker : job'[v] = {} \/ \E o \in submitted' : job'[v] = {o}
    BY <1>3, <2>3 DEF dequeue, JobsAccepted, TypeOK
  <2> QED
    BY <2>2, <2>4 DEF JobsAccepted
<1>4. ASSUME NEW w \in Worker, worker_ends(w)
      PROVE  JobsAccepted'
  BY <1>4 DEF worker_ends, JobsAccepted
<1>5. ASSUME NEW w \in Worker, NEW o \in Op, Executes(w, o)
      PROVE  JobsAccepted'
  <2>1. UNCHANGED <<queue, submitted>> /\ job' \in {job, [job EXCEPT ![w] = {}]}
    BY <1>5 DEF Executes, call_request, request_fails, begin, call_next, commit_transaction,
                commit_is_lost, rollback_transaction, Ended, Finished
  <2> QED
    BY <2>1 DEF JobsAccepted, TypeOK
<1>6. CASE UNCHANGED vars
  BY <1>6 DEF vars, JobsAccepted
<1> QED
  BY <1>1, <1>2, <1>3, <1>4, <1>5, <1>6 DEF Next, Works

(* The worker of a request or of the end of a transaction.                 *)
LEMMA WorkerSettles ==
    ASSUME TypeOK, DirtyWhole, NEW w \in Worker, UNCHANGED submitted,
           \A v \in Worker \ {w} : /\ connection'[v] = connection[v]
                                   /\ job'[v] = job[v] /\ done'[v] = done[v],
           (InTransaction(w) => ~connection[w].autocommit)',
           \E ops \in SUBSET submitted : connection'[w].dirty = Whole(ops) \union Begun(w)'
    PROVE  DirtyWhole'
<1>1. \A v \in Worker \ {w} : Begun(v)' = Begun(v) /\ (InTransaction(v)' <=> InTransaction(v))
  BY DEF Begun, InTransaction
<1> QED
  BY <1>1 DEF DirtyWhole, Whole, Changes

(* What is not committed stays whole operations and what was begun, in     *)
(* each step.                                                              *)
LEMMA DirtyStep == TypeOK /\ JobsAccepted /\ DirtyWhole /\ [Next]_vars => DirtyWhole'
<1> SUFFICES ASSUME TypeOK, JobsAccepted, DirtyWhole, [Next]_vars
             PROVE  DirtyWhole'
  OBVIOUS
<1>1. CASE open \/ open_fails \/ close \/ \E w \in Worker : worker_ends(w)
  BY <1>1 DEF open, open_fails, close, worker_ends, DirtyWhole, Begun, InTransaction, Whole, Changes
<1>2. CASE exit
  <2>1. \A w \in Worker : connection'[w].dirty = {}
    BY <1>2 DEF exit, TypeOK, Connection
  <2>2. \A w \in Worker : Begun(w)' = {} /\ ~InTransaction(w)'
    BY <1>2 DEF exit, Begun, InTransaction
  <2>3. Whole({}) = {}
    BY DEF Whole
  <2> QED
    BY <2>1, <2>2, <2>3 DEF DirtyWhole, Whole, Changes
<1>3. ASSUME NEW o \in Op, enqueue(o)
      PROVE  DirtyWhole'
  <2>1. submitted \subseteq submitted' /\ connection' = connection
    BY <1>3 DEF enqueue
  <2>2. \A w \in Worker : Begun(w)' = Begun(w) /\ (InTransaction(w)' <=> InTransaction(w))
    BY <1>3 DEF enqueue, Begun, InTransaction
  <2> QED
    BY <2>1, <2>2 DEF DirtyWhole, Whole, Changes
<1>4. ASSUME NEW w \in Worker, dequeue(w)
      PROVE  DirtyWhole'
  <2>1. done'[w] = NotBegun
    BY <1>4 DEF dequeue, TypeOK
  <2>2. Begun(w)' = {} /\ ~InTransaction(w)'
    <3>1. 1 .. done'[w] = {}
      BY <2>1 DEF NotBegun
    <3> QED
      BY <2>1, <3>1 DEF Begun, InTransaction
  <2>3. Begun(w) = {}
    BY <1>4 DEF dequeue, Begun, Idle
  <2> QED
    BY <1>4, <2>2, <2>3, WorkerSettles DEF dequeue, DirtyWhole, TypeOK
<1>5. ASSUME NEW w \in Worker, NEW o \in Op, Executes(w, o)
      PROVE  DirtyWhole'
  <2>1. job[w] = {o} /\ o \in submitted /\ UNCHANGED submitted
    BY <1>5 DEF JobsAccepted, Executes, call_request, request_fails, begin, call_next,
                commit_transaction, commit_is_lost, rollback_transaction, Ended
  <2>2. PICK ops \in SUBSET submitted : connection[w].dirty = Whole(ops) \union Begun(w)
    BY DEF DirtyWhole
  <2>3. CASE call_request(w, o)
    <3>1. done[w] = NotBegun /\ done' = done
      BY <2>3, <2>1 DEF call_request, TypeOK, InTransaction
    <3>2. Begun(w) = {} /\ Begun(w)' = {} /\ ~InTransaction(w)'
      <4>1. 1 .. done[w] = {} /\ 1 .. done'[w] = {}
        BY <3>1 DEF NotBegun
      <4> QED
        BY <3>1, <4>1 DEF Begun, InTransaction
    <3>3. connection'[w].dirty \in {connection[w].dirty, connection[w].dirty \union Changes(o)}
      BY <2>3 DEF call_request, Made, TypeOK, Connection
    <3>4. \E all \in SUBSET submitted : connection'[w].dirty = Whole(all)
      <4>1. connection[w].dirty = Whole(ops)
        BY <2>2, <3>2
      <4>2. connection[w].dirty \union Changes(o) = Whole(ops \union {o})
        BY <4>1, WholeOfTwo
      <4>3. ops \union {o} \in SUBSET submitted
        BY <2>1, <2>2
      <4> QED
        BY <2>2, <3>3, <4>1, <4>2, <4>3
    <3>5. \A v \in Worker \ {w} : connection'[v] = connection[v] /\ job'[v] = job[v]
      BY <2>3 DEF call_request, Made, Finished, TypeOK
    <3> QED
      BY <2>1, <3>1, <3>2, <3>4, <3>5, WorkerSettles
  <2>4. CASE request_fails(w, o)
    <3>1. done[w] = NotBegun /\ done' = done
      BY <2>4, <2>1 DEF request_fails, TypeOK, InTransaction
    <3>2. Begun(w) = {} /\ Begun(w)' = {} /\ ~InTransaction(w)'
      <4>1. 1 .. done[w] = {} /\ 1 .. done'[w] = {}
        BY <3>1 DEF NotBegun
      <4> QED
        BY <3>1, <4>1 DEF Begun, InTransaction
    <3> QED
      BY <2>1, <2>2, <2>4, <3>1, <3>2, WorkerSettles DEF request_fails, Finished, TypeOK
  <2>5. CASE begin(w, o)
    <3>1. Begun(w) = {}
      BY <2>5, NothingBegun DEF begin, InTransaction
    <3>2. Begun(w)' = {}
      BY <2>5 DEF begin, Begun, TypeOK
    <3>3. connection'[w].dirty = connection[w].dirty /\ ~connection'[w].autocommit
      BY <2>5 DEF begin, began, TypeOK, Connection
    <3>4. \A v \in Worker \ {w} : /\ connection'[v] = connection[v]
                                  /\ job'[v] = job[v] /\ done'[v] = done[v]
      BY <2>5 DEF begin, TypeOK
    <3> QED
      BY <2>1, <2>2, <3>1, <3>2, <3>3, <3>4, WorkerSettles
  <2>6. CASE call_next(w, o)
    <3>1. ~connection[w].autocommit /\ done[w] \in Nat
      BY <2>6 DEF call_next, DirtyWhole, TypeOK, InTransaction
    <3>2. /\ connection'[w].dirty = connection[w].dirty \union {<<o, done[w] + 1>>}
          /\ connection'[w].autocommit = connection[w].autocommit
      BY <2>6, <3>1 DEF call_next, Made, TypeOK, Connection
    <3>3. Begun(w)' = Begun(w) \union {<<o, done[w] + 1>>}
      <4>1. Begun(w) = {o} \X (1 .. done[w])
        BY <2>1 DEF Begun
      <4>2. Begun(w)' = {o} \X (1 .. done[w] + 1)
        BY <2>1, <2>6 DEF call_next, Begun, TypeOK
      <4>3. 1 .. done[w] + 1 = (1 .. done[w]) \union {done[w] + 1}
        BY <3>1
      <4> QED
        BY <4>1, <4>2, <4>3
    <3>4. \A v \in Worker \ {w} : /\ connection'[v] = connection[v]
                                  /\ job'[v] = job[v] /\ done'[v] = done[v]
      BY <2>6, <3>1 DEF call_next, Made, TypeOK
    <3>5. \E all \in SUBSET submitted : connection'[w].dirty = Whole(all) \union Begun(w)'
      BY <2>2, <3>2, <3>3
    <3> QED
      BY <2>1, <3>1, <3>2, <3>4, <3>5, WorkerSettles
  <2>7. ASSUME NEW result, Ended(w, result)
        PROVE  DirtyWhole'
    <3>1. connection'[w].dirty = {}
      BY <2>7 DEF Ended, mode_restored, TypeOK, Connection
    <3>2. done'[w] = NotBegun /\ job'[w] = {}
      BY <2>7 DEF Ended, Finished, TypeOK
    <3>3. Begun(w)' = {} /\ ~InTransaction(w)' /\ Whole({}) = {}
      BY <3>2 DEF Begun, InTransaction, Whole
    <3>4. \A v \in Worker \ {w} : /\ connection'[v] = connection[v]
                                  /\ job'[v] = job[v] /\ done'[v] = done[v]
      BY <2>7 DEF Ended, Finished, TypeOK
    <3> QED
      BY <2>1, <3>1, <3>3, <3>4, WorkerSettles
  <2> QED
    BY <1>5, <2>3, <2>4, <2>5, <2>6, <2>7
       DEF Executes, commit_transaction, commit_is_lost, rollback_transaction
<1>6. CASE UNCHANGED vars
  BY <1>6 DEF vars, DirtyWhole, Begun, InTransaction, Whole, Changes
<1> QED
  BY <1>1, <1>2, <1>3, <1>4, <1>5, <1>6 DEF Next, Works

(* What is stored in one step are the changes of whole operations.         *)
LEMMA StoreStep ==
    ASSUME TypeOK, JobsAccepted, DirtyWhole, [Next]_vars
    PROVE  [Atomic!Next]_<<submitted, stored>>
<1> USE DEF Atomic!Next, Atomic!Accept, Atomic!Store, Atomic!Changes
<1>1. ASSUME NEW o \in Op, enqueue(o)
      PROVE  [Atomic!Next]_<<submitted, stored>>
  BY <1>1 DEF enqueue
<1>2. ASSUME NEW w \in Worker, NEW o \in Op, Executes(w, o)
      PROVE  [Atomic!Next]_<<submitted, stored>>
  <2>1. job[w] = {o} /\ o \in submitted /\ UNCHANGED submitted
    BY <1>2 DEF JobsAccepted, Executes, call_request, request_fails, begin, call_next,
                commit_transaction, commit_is_lost, rollback_transaction, Ended
  <2>2. CASE call_request(w, o)
    <3>1. stored' = stored \/ stored' = stored \union Changes(o)
      BY <2>2 DEF call_request, Made
    <3>2. Changes(o) = UNION {Atomic!Changes(d) : d \in {o}}
      BY DEF Changes
    <3>3. {o} \in SUBSET submitted /\ {o} # {}
      BY <2>1
    <3> QED
      BY <2>1, <3>1, <3>2, <3>3
  <2>3. CASE request_fails(w, o) \/ begin(w, o) \/ commit_is_lost(w, o) \/ rollback_transaction(w, o)
    BY <2>1, <2>3 DEF request_fails, begin, commit_is_lost, rollback_transaction
  <2>4. CASE call_next(w, o)
    BY <2>1, <2>4 DEF call_next, Made, DirtyWhole
  <2>5. CASE commit_transaction(w, o)
    <3>1. PICK ops \in SUBSET submitted : connection[w].dirty = Whole(ops) \union Begun(w)
      BY DEF DirtyWhole
    <3>2. Begun(w) = Changes(o)
      BY <2>1, <2>5 DEF commit_transaction, Begun, Changes
    <3>3. connection[w].dirty = Whole(ops \union {o})
      BY <3>1, <3>2, WholeOfTwo
    <3>4. Whole(ops \union {o}) = UNION {Atomic!Changes(d) : d \in ops \union {o}}
      BY DEF Whole, Changes
    <3>5. stored' = stored \union UNION {Atomic!Changes(d) : d \in ops \union {o}}
      BY <2>5, <3>3, <3>4 DEF commit_transaction
    <3>6. ops \union {o} \in SUBSET submitted /\ ops \union {o} # {}
      BY <2>1, <3>1
    <3> QED
      BY <2>1, <3>5, <3>6
  <2> QED
    BY <1>2, <2>2, <2>3, <2>4, <2>5 DEF Executes
<1>3. CASE open \/ open_fails \/ close \/ exit \/ UNCHANGED vars
           \/ \E w \in Worker : dequeue(w) \/ worker_ends(w)
  BY <1>3 DEF open, open_fails, close, exit, vars, dequeue, worker_ends
<1> QED
  BY <1>1, <1>2, <1>3 DEF Next, Works

(* The pool implements AtomicStore: however the statements of several      *)
(* connections interleave, whichever of them fails and whenever the        *)
(* process ends, the changes of an operation are stored together or not at *)
(* all (SqlOperationTransaction::call).                                    *)
THEOREM TransactionsAtomic == Spec => StoreRefined
<1>1. Init => JobsAccepted /\ DirtyWhole
  <2> SUFFICES ASSUME Init
               PROVE  JobsAccepted /\ DirtyWhole
    OBVIOUS
  <2>1. JobsAccepted
    BY DEF Init, JobsAccepted
  <2>2. \A w \in Worker : /\ connection[w].dirty = {} /\ Begun(w) = {}
                         /\ ~InTransaction(w) /\ Whole({}) = {}
    BY DEF Init, NewConnection, Begun, Whole, InTransaction
  <2> QED
    BY <2>1, <2>2 DEF DirtyWhole
<1>2. Init => Atomic!Init
  BY DEF Init, Atomic!Init
<1>3. Spec => [](JobsAccepted /\ DirtyWhole)
  BY <1>1, TypeCorrect, JobsStep, DirtyStep, PTL DEF Spec
<1> QED
  BY <1>2, <1>3, TypeCorrect, StoreStep, PTL DEF Spec, StoreRefined, Atomic!Spec

-----------------------------------------------------------------------------
(* Nothing that succeeded is lost.                                         *)

AllFlagsTrue == \A w \in Worker : connection[w].found

(* Where the flag told the truth it goes on doing so: outside transactions *)
(* a connection is in autocommit and holds nothing back, inside it holds   *)
(* what the transaction has changed.                                       *)
ModeKept ==
    \A w \in Worker :
        IF InTransaction(w)
        THEN /\ connection[w].saved /\ ~connection[w].autocommit
             /\ connection[w].dirty = Begun(w)
        ELSE holder # "exited" =>
                 connection[w].autocommit /\ connection[w].flag /\ connection[w].dirty = {}

ExitedIsStill == holder = "exited" => alive = {} /\ \A w \in Worker : job[w] = {}

DurableInv == ExitedIsStill /\ (AllFlagsTrue => ModeKept /\ Durable)

(* No worker lives or has a job after the program has ended.               *)
LEMMA StillStep == TypeOK /\ ExitedIsStill /\ [Next]_vars => ExitedIsStill'
<1> SUFFICES ASSUME TypeOK, ExitedIsStill, [Next]_vars
             PROVE  ExitedIsStill'
  OBVIOUS
<1>1. CASE open \/ open_fails \/ close \/ exit \/ UNCHANGED vars \/ \E o \in Op : enqueue(o)
  BY <1>1 DEF open, open_fails, close, exit, vars, enqueue, ExitedIsStill
<1>2. ASSUME NEW w \in Worker, dequeue(w) \/ worker_ends(w)
      PROVE  ExitedIsStill'
  BY <1>2 DEF dequeue, worker_ends, ExitedIsStill
<1>3. ASSUME NEW w \in Worker, NEW o \in Op, Executes(w, o)
      PROVE  ExitedIsStill'
  BY <1>3 DEF Executes, call_request, request_fails, begin, call_next, commit_transaction,
              commit_is_lost, rollback_transaction, Ended, ExitedIsStill
<1> QED
  BY <1>1, <1>2, <1>3 DEF Next, Works

(* One worker's connection changes.                                        *)
LEMMA ModeSettles ==
    ASSUME TypeOK, ModeKept, NEW w \in Worker, UNCHANGED holder,
           \A v \in Worker \ {w} : /\ connection'[v] = connection[v]
                                   /\ job'[v] = job[v] /\ done'[v] = done[v],
           IF InTransaction(w)'
           THEN /\ connection'[w].saved /\ ~connection'[w].autocommit
                /\ connection'[w].dirty = Begun(w)'
           ELSE /\ connection'[w].autocommit /\ connection'[w].flag
                /\ connection'[w].dirty = {}
    PROVE  ModeKept'
<1>1. \A v \in Worker \ {w} : Begun(v)' = Begun(v) /\ (InTransaction(v)' <=> InTransaction(v))
  BY DEF Begun, InTransaction
<1> QED
  BY <1>1 DEF ModeKept

(* One operation is finished.                                              *)
LEMMA DurableSettles ==
    ASSUME TypeOK, Durable, AllFlagsTrue, AllFlagsTrue', stored \subseteq stored',
           NEW w \in Worker, NEW o \in Op, job[w] = {o}, NEW result, Finished(w, result),
           result = "executed" => Changes(o) \subseteq stored'
    PROVE  Durable'
BY DEF Durable, AllFlagsTrue, Finished, TypeOK, Changes

(* No step changes what a connection's flag was found to be.               *)
LEMMA FlagsStep ==
    ASSUME TypeOK, [Next]_vars
    PROVE  AllFlagsTrue' <=> AllFlagsTrue
<1>1. \A w \in Worker : connection'[w].found = connection[w].found
  <2>1. ASSUME NEW v \in Worker, NEW o \in Op, Executes(v, o)
        PROVE  \A w \in Worker : connection'[w].found = connection[w].found
    <3>1. CASE call_request(v, o) \/ call_next(v, o)
      BY <3>1 DEF call_request, call_next, Made, TypeOK, Connection
    <3>2. CASE request_fails(v, o)
      BY <3>2 DEF request_fails
    <3>3. CASE begin(v, o)
      BY <3>3 DEF begin, began, TypeOK, Connection
    <3>4. ASSUME NEW result, Ended(v, result)
          PROVE  \A w \in Worker : connection'[w].found = connection[w].found
      BY <3>4 DEF Ended, mode_restored, TypeOK, Connection
    <3> QED
      BY <2>1, <3>1, <3>2, <3>3, <3>4
         DEF Executes, commit_transaction, commit_is_lost, rollback_transaction
  <2>2. CASE exit
    BY <2>2 DEF exit, TypeOK, Connection
  <2>3. CASE open \/ open_fails \/ close \/ UNCHANGED vars \/ (\E o \in Op : enqueue(o))
             \/ \E w \in Worker : dequeue(w) \/ worker_ends(w)
    BY <2>3 DEF open, open_fails, close, vars, enqueue, dequeue, worker_ends
  <2> QED
    BY <2>1, <2>2, <2>3 DEF Next, Works
<1> QED
  BY <1>1 DEF AllFlagsTrue

(* With true flags the mode of a connection and the stored changes stay    *)
(* right, in each step.                                                    *)
LEMMA DurableStep ==
    ASSUME TypeOK, ExitedIsStill, AllFlagsTrue, ModeKept, Durable, [Next]_vars
    PROVE  ModeKept' /\ Durable'
<1>1. AllFlagsTrue'
  BY FlagsStep
<1>2. CASE open \/ open_fails \/ UNCHANGED vars \/ \E w \in Worker : worker_ends(w)
  <2>1. \/ UNCHANGED <<connection, job, done, stored, outcome>> /\ holder # "exited"
        \/ UNCHANGED vars
    BY <1>2 DEF open, open_fails, worker_ends
  <2>2. \A w \in Worker : Begun(w)' = Begun(w) /\ (InTransaction(w)' <=> InTransaction(w))
    BY <1>2 DEF open, open_fails, worker_ends, vars, Begun, InTransaction
  <2>3. ModeKept'
    BY <2>1, <2>2 DEF ModeKept, vars
  <2> QED
    BY <2>1, <2>3 DEF Durable, Changes, vars
<1>3. CASE close \/ \E o \in Op : enqueue(o)
  <2>1. UNCHANGED <<connection, job, done, stored>> /\ holder # "exited"
    BY <1>3 DEF close, enqueue
  <2>2. \A o \in Op : outcome'[o] = "executed" => outcome[o] = "executed"
    BY <1>3 DEF close, enqueue, TypeOK
  <2>3. \A w \in Worker : Begun(w)' = Begun(w) /\ (InTransaction(w)' <=> InTransaction(w))
    BY <2>1 DEF Begun, InTransaction
  <2>4. ModeKept'
    BY <2>1, <2>3 DEF ModeKept
  <2> QED
    BY <1>1, <2>1, <2>2, <2>4 DEF Durable, Changes, AllFlagsTrue
<1>4. CASE exit
  <2>1. ModeKept'
    BY <1>4 DEF exit, ModeKept, InTransaction
  <2>2. \A o \in Op : outcome'[o] = "executed" => outcome[o] = "executed"
    BY <1>4 DEF exit, TypeOK
  <2>3. stored' = stored
    BY <1>4 DEF exit
  <2> QED
    BY <1>1, <2>1, <2>2, <2>3 DEF Durable, Changes, AllFlagsTrue
<1>5. ASSUME NEW w \in Worker, dequeue(w)
      PROVE  ModeKept' /\ Durable'
  <2>1. ~InTransaction(w) /\ ~InTransaction(w)' /\ holder # "exited"
    BY <1>5 DEF dequeue, TypeOK, Idle, InTransaction, ExitedIsStill
  <2>2. ModeKept'
    BY <1>5, <2>1, ModeSettles DEF dequeue, ModeKept, TypeOK
  <2> QED
    BY <1>5, <2>2 DEF dequeue, Durable, Changes
<1>6. ASSUME NEW w \in Worker, NEW o \in Op, Executes(w, o)
      PROVE  ModeKept' /\ Durable'
  <2>1. job[w] = {o} /\ holder # "exited" /\ holder' = holder
    BY <1>6 DEF Executes, call_request, request_fails, begin, call_next, commit_transaction,
                commit_is_lost, rollback_transaction, Ended, ExitedIsStill
  <2>2. CASE call_request(w, o)
    <3>1. ~InTransaction(w) /\ done' = done
      BY <2>1, <2>2 DEF call_request, TypeOK, InTransaction
    <3>2. connection[w].autocommit /\ connection' = connection /\ stored' = stored \union Changes(o)
      BY <2>1, <2>2, <3>1 DEF call_request, Made, ModeKept
    <3>3. ModeKept'
      BY <2>1, <2>2, <3>1, <3>2, ModeSettles DEF call_request, Finished, ModeKept, InTransaction, TypeOK
    <3>4. Durable'
      BY <1>1, <2>1, <2>2, <3>2, DurableSettles DEF call_request
    <3> QED
      BY <3>3, <3>4
  <2>3. CASE request_fails(w, o)
    <3>1. ~InTransaction(w) /\ UNCHANGED <<done, connection, stored>>
      BY <2>1, <2>3 DEF request_fails, TypeOK, InTransaction
    <3>2. ModeKept'
      BY <2>1, <2>3, <3>1, ModeSettles DEF request_fails, Finished, ModeKept, InTransaction, TypeOK
    <3>3. Durable'
      BY <1>1, <2>1, <2>3, <3>1, DurableSettles DEF request_fails
    <3> QED
      BY <3>2, <3>3
  <2>4. CASE begin(w, o)
    <3>1. connection[w].flag /\ connection[w].dirty = {}
      BY <2>1, <2>4 DEF begin, ModeKept
    <3>2. /\ connection'[w].saved /\ ~connection'[w].autocommit /\ connection'[w].dirty = {}
      BY <2>4, <3>1 DEF begin, began, TypeOK, Connection
    <3>3. Begun(w)' = {} /\ InTransaction(w)'
      BY <2>4 DEF begin, Begun, TypeOK, InTransaction, NotBegun
    <3>4. ModeKept'
      BY <2>1, <2>4, <3>2, <3>3, ModeSettles DEF begin, TypeOK
    <3> QED
      BY <1>1, <2>4, <3>4 DEF begin, Durable, Changes, AllFlagsTrue
  <2>5. CASE call_next(w, o)
    <3>1. ~connection[w].autocommit /\ done[w] \in Nat
      BY <2>5 DEF call_next, ModeKept, TypeOK, InTransaction
    <3>2. /\ connection'[w].dirty = connection[w].dirty \union {<<o, done[w] + 1>>}
          /\ connection'[w].autocommit = connection[w].autocommit
          /\ connection'[w].saved = connection[w].saved
          /\ UNCHANGED <<stored, outcome>>
      BY <2>5, <3>1 DEF call_next, Made, TypeOK, Connection
    <3>3. Begun(w)' = Begun(w) \union {<<o, done[w] + 1>>} /\ InTransaction(w)'
      <4>1. Begun(w) = {o} \X (1 .. done[w])
        BY <2>1 DEF Begun
      <4>2. Begun(w)' = {o} \X (1 .. done[w] + 1)
        BY <2>1, <2>5 DEF call_next, Begun, TypeOK
      <4>3. 1 .. done[w] + 1 = (1 .. done[w]) \union {done[w] + 1}
        BY <3>1
      <4>4. InTransaction(w)'
        BY <2>5, <3>1 DEF call_next, InTransaction, TypeOK, NotBegun
      <4> QED
        BY <4>1, <4>2, <4>3, <4>4
    <3>4. \A v \in Worker \ {w} : /\ connection'[v] = connection[v]
                                  /\ job'[v] = job[v] /\ done'[v] = done[v]
      BY <2>5, <3>1 DEF call_next, Made, TypeOK
    <3>5. connection[w].saved /\ connection[w].dirty = Begun(w)
      BY <2>5 DEF call_next, ModeKept
    <3>6. ModeKept'
      BY <2>1, <3>1, <3>2, <3>3, <3>4, <3>5, ModeSettles
    <3> QED
      BY <1>1, <3>2, <3>6 DEF Durable, Changes, AllFlagsTrue
  <2>6. ASSUME NEW result, InTransaction(w), Ended(w, result), stored \subseteq stored',
               result = "executed" => Changes(o) \subseteq stored'
        PROVE  ModeKept' /\ Durable'
    <3>1. connection[w].saved
      BY <2>6 DEF ModeKept
    <3>2. connection'[w].autocommit /\ connection'[w].flag /\ connection'[w].dirty = {}
      BY <2>6, <3>1 DEF Ended, mode_restored, TypeOK, Connection
    <3>3. ~InTransaction(w)'
      BY <2>6 DEF Ended, TypeOK, InTransaction
    <3>4. \A v \in Worker \ {w} : /\ connection'[v] = connection[v]
                                  /\ job'[v] = job[v] /\ done'[v] = done[v]
      BY <2>6 DEF Ended, Finished, TypeOK
    <3>5. ModeKept'
      BY <2>1, <3>2, <3>3, <3>4, ModeSettles
    <3> QED
      BY <1>1, <2>1, <2>6, <3>5, DurableSettles DEF Ended
  <2>7. CASE commit_transaction(w, o)
    <3>1. connection[w].dirty = Changes(o)
      BY <2>1, <2>7 DEF commit_transaction, ModeKept, Begun, Changes
    <3> QED
      BY <2>6, <2>7, <3>1 DEF commit_transaction
  <2>8. CASE commit_is_lost(w, o) \/ rollback_transaction(w, o)
    BY <2>6, <2>8 DEF commit_is_lost, rollback_transaction
  <2> QED
    BY <1>6, <2>2, <2>3, <2>4, <2>5, <2>7, <2>8 DEF Executes
<1> QED
  BY <1>2, <1>3, <1>4, <1>5, <1>6 DEF Next, Works

(* The changes of an operation a worker has executed are in the store,     *)
(* also after other operations of the same connection were rolled back or  *)
(* the process ended, for connections whose uninitialised flag happened to *)
(* tell the truth (~SqlOperationTransaction, MySQLConnection).             *)
THEOREM ExecutedIsDurable == Spec => []Durable
<1>1. Init => DurableInv
  <2> SUFFICES ASSUME Init
               PROVE  DurableInv
    OBVIOUS
  <2>1. AllFlagsTrue => ModeKept
    BY DEF Init, NewConnection, AllFlagsTrue, ModeKept, InTransaction
  <2> QED
    BY <2>1 DEF Init, DurableInv, ExitedIsStill, Durable
<1>2. TypeOK /\ DurableInv /\ [Next]_vars => DurableInv'
  BY StillStep, FlagsStep, DurableStep DEF DurableInv
<1>3. DurableInv => Durable
  BY DEF DurableInv, AllFlagsTrue, Durable
<1> QED
  BY <1>1, <1>2, <1>3, TypeCorrect, PTL DEF Spec
=============================================================================
