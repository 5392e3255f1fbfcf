---------------------------- MODULE SupportProofs ----------------------------
(***************************************************************************)
(* Proofs about the four machines beside the daemons' main paths, for any  *)
(* number of threads, timers, parameters, rows, records and processes.     *)
(***************************************************************************)
EXTENDS MCSupport, FiniteSetTheorems, SequenceTheorems, TLAPS

-----------------------------------------------------------------------------
(* The announce timer.                                                     *)

(* A timer that is scheduled gets the next number.                         *)
LEMMA NextNumber ==
    ASSUME TimerTypeOK, NEW t \in Timer, schedule_timer(t)
    PROVE  /\ allocated' \in 0 .. MaxTimers
           /\ scheduled' \subseteq 1 .. allocated'
           /\ t \notin scheduled /\ t \in scheduled'
           /\ t = allocated + 1 /\ allocated' = t
           /\ scheduled \subseteq scheduled'
BY TimersAssumption DEF TimerTypeOK, schedule_timer, Timer

(* Every variable of the timer keeps its type.                             *)
LEMMA TimerTypesStep == TimerTypeOK /\ [TimerNext]_timerVars => TimerTypeOK'
<1> SUFFICES ASSUME TimerTypeOK, [TimerNext]_timerVars
             PROVE  TimerTypeOK'
  OBVIOUS
<1>1. CASE start_schedules
  <2>1. PICK t \in Timer : schedule_timer(t) /\ first' = t
    BY <1>1 DEF start_schedules
  <2> QED
    BY <1>1, <2>1, NextNumber DEF start_schedules, TimerTypeOK
<1>2. CASE start_stores
  BY <1>2 DEF start_stores, TimerTypeOK
<1>3. ASSUME NEW h \in Handler, push(h)
      PROVE  TimerTypeOK'
  BY <1>3 DEF push, TimerTypeOK
<1>4. ASSUME NEW h \in Handler, request_cancels(h)
      PROVE  TimerTypeOK'
  BY <1>4 DEF request_cancels, TimerTypeOK
<1>5. ASSUME NEW h \in Handler, request_schedules(h)
      PROVE  TimerTypeOK'
  <2>1. PICK t \in Timer : schedule_timer(t) /\ number' = [number EXCEPT ![h] = t]
    BY <1>5 DEF request_schedules
  <2> QED
    BY <1>5, <2>1, NextNumber DEF request_schedules, TimerTypeOK
<1>6. ASSUME NEW h \in Handler, request_finds_no_timer(h)
      PROVE  TimerTypeOK'
  BY <1>6 DEF request_finds_no_timer, TimerTypeOK
<1>7. ASSUME NEW h \in Handler, request_stores(h)
      PROVE  TimerTypeOK'
  BY <1>7 DEF request_stores, TimerTypeOK
<1>8. CASE UNCHANGED timerVars
  BY <1>8 DEF timerVars, TimerTypeOK
<1> QED
  BY <1>1, <1>2, <1>3, <1>4, <1>5, <1>6, <1>7, <1>8 DEF TimerNext

(* The number is -1 until start() has stored the first timer, and so no    *)
(* request gets past its second test before; a number that is about to be  *)
(* stored belongs to a timer that is scheduled and that nobody else knows  *)
(* of; while the timer the number names is cancelled, the request that     *)
(* cancelled it is still being handled.                                    *)
Unstored == {h \in Handler : handling[h] = "scheduled"}

BeforeStart ==
    /\ start = "done" <=> announce_timer_id # NoTimer
    /\ start # "done" => Unstored = {}
    /\ start = "activated" => first = NoTimer
    /\ start = "scheduled" => first \in scheduled

OwnNumber ==
    \A h \in Unstored :
        /\ number[h] \in scheduled
        /\ number[h] # announce_timer_id
        /\ \A k \in Handler \ {h} : number[k] # number[h]

FirstIsOwn == start = "scheduled" => \A h \in Handler : number[h] # first

NumbersGiven ==
    /\ {announce_timer_id, first} \subseteq (1 .. allocated) \union {NoTimer}
    /\ \A h \in Handler : number[h] \in (1 .. allocated) \union {NoTimer}

SomebodySchedules ==
    start = "done" => \/ announce_timer_id \in scheduled
                      \/ \E h \in Handler : handling[h] \in {"cancelled", "scheduled"}

TimerInv == BeforeStart /\ OwnNumber /\ FirstIsOwn /\ NumbersGiven /\ SomebodySchedules

(* The invariant is inductive: one step for each action of the timer.      *)
LEMMA TimerInvStep == TimerTypeOK /\ TimerInv /\ [TimerNext]_timerVars => TimerInv'
<1> SUFFICES ASSUME TimerTypeOK, TimerInv, [TimerNext]_timerVars
             PROVE  TimerInv'
  OBVIOUS
<1> USE DEF TimerTypeOK, TimerInv, BeforeStart, OwnNumber, FirstIsOwn, NumbersGiven,
            SomebodySchedules, Unstored, NoTimer, Timer
<1>1. CASE start_schedules
  <2>1. PICK t \in Timer : schedule_timer(t) /\ first' = t
    BY <1>1 DEF start_schedules
  <2> QED
    BY <1>1, <2>1, NextNumber DEF start_schedules
<1>2. CASE start_stores
  BY <1>2 DEF start_stores
<1>3. ASSUME NEW h \in Handler, push(h)
      PROVE  TimerInv'
  BY <1>3 DEF push
<1>4. ASSUME NEW h \in Handler, request_cancels(h)
      PROVE  TimerInv'
  BY <1>4 DEF request_cancels
<1>5. ASSUME NEW h \in Handler, request_schedules(h)
      PROVE  TimerInv'
  <2>1. PICK t \in Timer : schedule_timer(t) /\ number' = [number EXCEPT ![h] = t]
    BY <1>5 DEF request_schedules
  <2> QED
    BY <1>5, <2>1, NextNumber DEF request_schedules
<1>6. ASSUME NEW h \in Handler, request_finds_no_timer(h)
      PROVE  TimerInv'
  BY <1>6 DEF request_finds_no_timer
<1>7. ASSUME NEW h \in Handler, request_stores(h)
      PROVE  TimerInv'
  BY <1>7 DEF request_stores
<1>8. CASE UNCHANGED timerVars
  BY <1>8 DEF timerVars
<1> QED
  BY <1>1, <1>2, <1>3, <1>4, <1>5, <1>6, <1>7, <1>8 DEF TimerNext

LEMMA TimerInvInit == TimerInit => TimerTypeOK /\ TimerInv
BY TimersAssumption
   DEF TimerInit, TimerTypeOK, TimerInv, BeforeStart, OwnNumber, FirstIsOwn, NumbersGiven,
       SomebodySchedules, Unstored, NoTimer

LEMMA TimerKeepsAnnouncing == TimerTypeOK /\ TimerInv => KeepsAnnouncing
BY DEF TimerInv, SomebodySchedules, KeepsAnnouncing

-----------------------------------------------------------------------------
(* The database drivers.                                                   *)

(* The histories have their types.                                         *)
Given ==
    /\ executed \in 0 .. MaxExecutions
    /\ worker = "setting" => executed < MaxExecutions
    /\ used \in [Execution -> [Param -> Value \union {Unset}]]
    /\ asked \in [Execution -> [Param -> Value \union {Unset}]]

(* The parameters up to index are the operation's; those behind it, and    *)
(* all of a worker that has nothing to do, were cleared, unless an         *)
(* operation failed since.                                                 *)
SetSoFar ==
    /\ index <= ParamCount
    /\ worker = "setting" => \A i \in Param : i <= index => bind[i] = given[i]
    /\ worker = "setting" /\ executed + 1 \notin soiled =>
           \A i \in Param : i > index => bind[i] = Unset
    /\ worker = "idle" /\ executed + 1 \notin soiled => \A i \in Param : bind[i] = Unset

(* An observer deletes its result before the worker goes on.  A statement  *)
(* of SQLite that it stepped has no parameter and never gets one again.    *)
ObserverFirst ==
    reader = "observer" =>
        /\ open \subseteq {executed}
        /\ worker # "executed" => open = {}
        /\ disturbed = {}
        /\ worker # "executed" /\ Misused => \A i \in Param : bind[i] = Unset

(* An open result set has a handle that was executed.                      *)
HandlesExecuted ==
    /\ engine \in {"mysql", "sqlite"}
    /\ api \in {"prepared", "direct"}
    /\ \A h \in Handle : cursor[h].state # "none" => cursor[h].exec \in 1 .. executed
    /\ \A e \in open :
           /\ cursor[HandleOf(e)].exec \in 1 .. executed
           /\ api = "prepared" => bound_set \in 1 .. executed
    /\ \A e \in Execution : e > executed => rowPosition[e] = 0

(* What a reader of result set e has reached, by engine.                   *)
MySQLReached(e) ==
    LET c == cursor[HandleOf(e)] IN
    /\ c.state = "ready"
    /\ c.fetched = (IF rowPosition[e] <= numRows[e] THEN rowPosition[e] ELSE numRows[e])
    /\ rowPosition[e] \in 1 .. numRows[e] => buffer[e] = <<e, rowPosition[e]>>

SQLiteReached(e) ==
    LET c == cursor[HandleOf(e)] IN
    /\ c.state \in {"ready", "row", "done"}
    /\ c.state # "done" => c.fetched = rowPosition[e]

(* A set that shares its handle with no other has it for itself.           *)
OwnHandle ==
    \A e \in open \ disturbed :
        /\ cursor[HandleOf(e)].exec = e
        /\ api = "prepared" => open = {e} /\ bound_set = e
        /\ engine = "mysql" => MySQLReached(e)
        /\ engine = "sqlite" => SQLiteReached(e)

DriverInv ==
    /\ DriverTypeOK /\ Given /\ SetSoFar /\ BoundAsAsked
    /\ ObserverFirst /\ HandlesExecuted /\ OwnHandle

LEMMA DriverInvInit == DriverInit => DriverInv
<1> SUFFICES ASSUME DriverInit
             PROVE  DriverInv
  OBVIOUS
<1> USE DriversAssumption DEF DriverInit, DriverInv, Param, Execution, Handle, Closed, NoRow
<1>1. DriverTypeOK
  <2>1. given \in Seq(Value) /\ Len(given) = 0
    OBVIOUS
  <2> QED
    BY <2>1 DEF DriverTypeOK
<1>2. Given /\ SetSoFar /\ BoundAsAsked /\ ObserverFirst
  BY DEF Given, SetSoFar, BoundAsAsked, ObserverFirst, Misused
<1>3. HandlesExecuted /\ OwnHandle
  BY DEF HandlesExecuted, OwnHandle
<1> QED
  BY <1>1, <1>2, <1>3

(* What leaves the result sets alone; more of them may count as disturbed. *)
LEMMA ResultsKept ==
    ASSUME DriverInv, UNCHANGED <<configVars, executed, resultVars>>, disturbed \subseteq disturbed'
    PROVE  HandlesExecuted' /\ OwnHandle'
<1>1. UNCHANGED <<engine, api, executed, numRows, cursor, bound_set, buffer, rowPosition, open>>
  BY DEF configVars, resultVars
<1>2. HandlesExecuted'
  BY <1>1 DEF DriverInv, HandlesExecuted, HandleOf
<1>3. OwnHandle'
  BY <1>1 DEF DriverInv, OwnHandle, MySQLReached, SQLiteReached, HandleOf
<1> QED
  BY <1>2, <1>3

(* An operation is taken, its parameters are set, it fails or is done.     *)
LEMMA DriverInvTake ==
    ASSUME DriverInv, take_operation
    PROVE  DriverInv'
<1>1. PICK n \in 0 .. (ParamCount + 1) : \E params \in [1 .. n -> Value] : given' = params
  BY DEF take_operation
<1>2. given' \in Seq(Value) /\ Len(given') = n
  BY <1>1
<1>3. /\ index' = 0 /\ worker = "idle" /\ worker' = "setting" /\ executed < MaxExecutions
      /\ UNCHANGED <<configVars, bind, executed, errors, used, asked, soiled, disturbed, resultVars>>
  BY DEF take_operation
<1>4. DriverTypeOK'
  BY <1>1, <1>2, <1>3, DriversAssumption DEF DriverInv, DriverTypeOK, resultVars
<1>5. Given' /\ BoundAsAsked'
  BY <1>3 DEF DriverInv, Given, BoundAsAsked
<1>6. SetSoFar'
  BY <1>3, DriversAssumption DEF DriverInv, SetSoFar, Param
<1>7. ObserverFirst'
  BY <1>3 DEF DriverInv, ObserverFirst, Misused, configVars, resultVars
<1> QED
  BY <1>3, <1>4, <1>5, <1>6, <1>7, ResultsKept DEF DriverInv

LEMMA DriverInvSet ==
    ASSUME DriverInv, set_parameter
    PROVE  DriverInv'
<1>1. /\ worker = "setting" /\ index < Len(given) /\ index + 1 \in Param /\ ~Misused
      /\ bind' = [bind EXCEPT ![index + 1] = given[index + 1]]
      /\ index' = index + 1
      /\ disturbed' = IF engine = "sqlite" THEN disturbed \union open ELSE disturbed
      /\ UNCHANGED <<configVars, worker, given, executed, errors, used, asked, soiled, resultVars>>
  BY DEF set_parameter
<1>2. /\ index \in Nat /\ index <= ParamCount /\ Len(given) \in Nat
      /\ given \in Seq(Value) /\ given[index + 1] \in Value
      /\ bind \in [Param -> Value \union {Unset}]
  <2>1. /\ index \in 0 .. Len(given) /\ given \in Seq(Value) /\ index <= ParamCount
        /\ bind \in [Param -> Value \union {Unset}]
    BY DEF DriverInv, DriverTypeOK, SetSoFar
  <2>2. Len(given) \in Nat
    BY <2>1
  <2>3. index + 1 \in 1 .. Len(given)
    BY <2>1, <2>2, <1>1
  <2> QED
    BY <2>1, <2>2, <2>3
<1>3. \A i \in Param : bind'[i] = IF i = index + 1 THEN given[index + 1] ELSE bind[i]
  BY <1>1, <1>2
<1>4. DriverTypeOK'
  <2>1. bind' \in [Param -> Value \union {Unset}] /\ index' \in 0 .. Len(given')
    BY <1>1, <1>2
  <2> QED
    BY <1>1, <2>1 DEF DriverInv, DriverTypeOK, resultVars
<1>5. Given' /\ BoundAsAsked'
  BY <1>1 DEF DriverInv, Given, BoundAsAsked
<1>6. SetSoFar'
  BY <1>1, <1>2, <1>3, DriversAssumption DEF DriverInv, SetSoFar, Param
<1>7. ObserverFirst'
  BY <1>1 DEF DriverInv, ObserverFirst, Misused, configVars, resultVars
<1> QED
  BY <1>1, <1>4, <1>5, <1>6, <1>7, ResultsKept DEF DriverInv

LEMMA DriverInvThrows ==
    ASSUME DriverInv, execute_throws
    PROVE  DriverInv'
<1>1. /\ worker = "setting" /\ worker' = "idle" /\ soiled' = soiled \union {executed + 1}
      /\ UNCHANGED <<configVars, given, index, bind, executed, used, asked, disturbed, resultVars>>
  BY DEF execute_throws
<1>2. DriverTypeOK'
  BY <1>1 DEF DriverInv, DriverTypeOK, resultVars
<1>3. Given' /\ BoundAsAsked' /\ SetSoFar'
  BY <1>1 DEF DriverInv, Given, BoundAsAsked, SetSoFar
<1>4. ObserverFirst'
  BY <1>1 DEF DriverInv, ObserverFirst, Misused, configVars, resultVars
<1> QED
  BY <1>1, <1>2, <1>3, <1>4, ResultsKept DEF DriverInv

LEMMA DriverInvClear ==
    ASSUME DriverInv, clearParameters
    PROVE  DriverInv'
<1>1. /\ worker = "executed" /\ worker' = "idle"
      /\ reader = "observer" => executed \notin open
      /\ bind' = [i \in Param |-> Unset]
      /\ UNCHANGED <<configVars, given, index, errors, used, asked, soiled, numRows, executed,
                     disturbed, cursor, bound_set, buffer, rowPosition, open>>
  BY DEF clearParameters, cleared, askVars
<1>2. DriverTypeOK'
  BY <1>1 DEF DriverInv, DriverTypeOK
<1>3. Given' /\ BoundAsAsked' /\ SetSoFar'
  BY <1>1 DEF DriverInv, Given, BoundAsAsked, SetSoFar
<1>4. ObserverFirst'
  BY <1>1 DEF DriverInv, ObserverFirst, Misused, configVars
<1> QED
  BY <1>1, <1>2, <1>3, <1>4, ResultsKept DEF DriverInv, resultVars

LEMMA DriverInvStutter ==
    ASSUME DriverInv, UNCHANGED driverVars
    PROVE  DriverInv'
<1>1. UNCHANGED <<configVars, worker, bind, given, index, errors, used, asked, soiled, numRows,
                  executed, disturbed, resultVars>>
  BY DEF driverVars, askVars
<1>2. DriverTypeOK'
  BY <1>1 DEF DriverInv, DriverTypeOK, resultVars
<1>3. Given' /\ BoundAsAsked' /\ SetSoFar'
  BY <1>1 DEF DriverInv, Given, BoundAsAsked, SetSoFar
<1>4. ObserverFirst'
  BY <1>1 DEF DriverInv, ObserverFirst, Misused, configVars, resultVars
<1> QED
  BY <1>1, <1>2, <1>3, <1>4, ResultsKept DEF DriverInv

(* A new result set: the sets that were open before lose a shared handle.  *)
LEMMA DriverInvExecute ==
    ASSUME DriverInv, executeQuery
    PROVE  DriverInv'
<1> DEFINE e == executed + 1
<1>1. executed' = e /\ e \in Execution /\ executed \in 0 .. MaxExecutions
  BY DriversAssumption DEF DriverInv, Given, executeQuery, Execution
<1>2. PICK n \in 0 .. MaxRows : numRows' = [numRows EXCEPT ![e] = n]
  BY DEF executeQuery, new_result_set
<1>3. /\ cursor' = IF Misused THEN cursor
                    ELSE [cursor EXCEPT ![HandleOf(e)] =
                              [exec |-> e, fetched |-> 0, state |-> "ready"]]
      /\ bound_set' = e
      /\ open' = open \union {e}
      /\ disturbed' = IF Misused \/ (api = "prepared" /\ open # {})
                      THEN disturbed \union open \union {e}
                      ELSE disturbed
  BY <1>1 DEF executeQuery, new_result_set
<1>4. /\ worker = "setting" /\ worker' = "executed" /\ index = Len(given)
      /\ engine = "sqlite" /\ api = "prepared" => \A i \in Param : bind[i] # Unset
      /\ used' = [used EXCEPT ![e] = bind]
      /\ asked' = [asked EXCEPT ![e] =
                       [i \in Param |-> IF i <= Len(given) THEN given[i] ELSE Unset]]
      /\ UNCHANGED <<engine, api, reader, given, index, bind, errors, soiled, buffer, rowPosition>>
  BY <1>1 DEF executeQuery, configVars
<1>5. HandleOf(e) \in Handle /\ (api = "prepared" => HandleOf(e) = 0)
      /\ (api = "direct" => HandleOf(e) = e)
  BY <1>1, DriversAssumption DEF HandleOf, Handle, Execution
<1> HIDE DEF e
<1> USE DriversAssumption DEF DriverInv
<1>6. DriverTypeOK'
  <2>1. cursor' \in [Handle -> [exec : 0 .. executed', fetched : 0 .. MaxRows,
                                state : {"none", "ready", "row", "done", "freed"}]]
    <3> DEFINE CursorAt(k) == [exec : 0 .. k, fetched : 0 .. MaxRows,
                               state : {"none", "ready", "row", "done", "freed"}]
    <3>1. CursorAt(executed) \subseteq CursorAt(executed')
      BY <1>1 DEF e
    <3>2. [exec |-> e, fetched |-> 0, state |-> "ready"] \in CursorAt(executed')
      BY <1>1, DriversAssumption DEF Execution
    <3>3. cursor \in [Handle -> CursorAt(executed)]
      BY DEF DriverTypeOK
    <3> HIDE DEF CursorAt
    <3>4. cursor' \in [Handle -> CursorAt(executed')]
      <4>1. CASE Misused
        BY <4>1, <1>3, <3>1, <3>3
      <4>2. CASE ~Misused
        BY <4>2, <1>3, <1>5, <3>1, <3>2, <3>3
      <4> QED
        BY <4>1, <4>2
    <3> QED
      BY <3>4 DEF CursorAt
  <2>2. open' \subseteq 1 .. executed' /\ bound_set' \in 0 .. executed'
    BY <1>1, <1>3 DEF DriverTypeOK, Execution, e
  <2>3. buffer' \in [Execution -> (0 .. executed') \X (0 .. MaxRows)]
    BY <1>1, <1>4 DEF DriverTypeOK, Execution, e
  <2> QED
    BY <1>1, <1>2, <1>4, <2>1, <2>2, <2>3 DEF DriverTypeOK
<1>7. Given' /\ SetSoFar' /\ BoundAsAsked'
  <2> DEFINE all == [i \in Param |-> IF i <= Len(given) THEN given[i] ELSE Unset]
  <2>1. /\ given \in Seq(Value) /\ Len(given) \in Nat
        /\ bind \in [Param -> Value \union {Unset}]
    BY DEF DriverTypeOK
  <2>2. \A i \in Param : i <= Len(given) => i \in 1 .. Len(given) /\ given[i] \in Value
    <3>1. \A i \in Param : i <= Len(given) => i \in 1 .. Len(given)
      BY <2>1, DriversAssumption DEF Param
    <3> QED
      BY <2>1, <3>1, ElementOfSeq
  <2>3. all \in [Param -> Value \union {Unset}]
    BY <2>2
  <2>4. Given'
    <3>1. /\ executed' \in 0 .. MaxExecutions /\ worker' # "setting"
          /\ used' = [used EXCEPT ![e] = bind] /\ asked' = [asked EXCEPT ![e] = all]
      BY <1>1, <1>4, DriversAssumption DEF Execution
    <3> HIDE DEF all
    <3> QED
      BY <3>1, <2>1, <2>3 DEF Given
  <2>5. SetSoFar'
    BY <1>4 DEF SetSoFar
  <2>6. \A i \in Param : bind[i] = all[i] \/ (all[i] = Unset /\ e \in soiled)
    BY <1>4, <2>1, <2>2, DriversAssumption DEF SetSoFar, Param, e
  <2>7. ASSUME NEW d \in 1 .. executed', NEW i \in Param
        PROVE  used'[d][i] = asked'[d][i] \/ (asked'[d][i] = Unset /\ d \in soiled)
    <3>1. d \in Execution
      BY <2>7, <1>1, DriversAssumption DEF Execution
    <3>2. CASE d = e
      <4>1. used'[d] = bind /\ asked'[d] = all
        BY <3>1, <3>2, <1>4 DEF Given
      <4> QED
        BY <3>2, <4>1, <2>6
    <3>3. CASE d # e
      <4>1. used'[d] = used[d] /\ asked'[d] = asked[d] /\ d \in 1 .. executed
        BY <2>7, <3>1, <3>3, <1>1, <1>4 DEF Given, e
      <4> QED
        BY <4>1 DEF BoundAsAsked
    <3> QED
      BY <3>2, <3>3
  <2>8. BoundAsAsked'
    BY <2>7, <1>4 DEF BoundAsAsked
  <2> QED
    BY <2>4, <2>5, <2>8
<1>8. ObserverFirst'
  <2>1. reader = "observer" => ~Misused
    <3>1. 1 \in Param
      BY DEF Param
    <3> QED
      BY <3>1, <1>4 DEF ObserverFirst, Misused
  <2> QED
    BY <2>1, <1>1, <1>3, <1>4 DEF ObserverFirst
<1>9. HandlesExecuted'
  <2>1. ASSUME NEW k \in Handle, cursor'[k].state # "none"
        PROVE  cursor'[k].exec \in 1 .. executed'
    <3>1. CASE cursor'[k] = cursor[k]
      BY <2>1, <3>1, <1>1 DEF HandlesExecuted, e
    <3>2. CASE cursor'[k] # cursor[k]
      <4>1. cursor'[k] = [exec |-> e, fetched |-> 0, state |-> "ready"]
        BY <3>2, <1>3, <1>5 DEF DriverTypeOK
      <4> QED
        BY <4>1, <1>1 DEF e
    <3> QED
      BY <3>1, <3>2
  <2>2. ASSUME NEW d \in open'
        PROVE  cursor'[HandleOf(d)].exec \in 1 .. executed'
    <3>1. CASE Misused
      <4>1. HandleOf(d) = 0 /\ cursor'[0] = cursor[0] /\ cursor[0].state # "none"
        BY <3>1, <1>3 DEF Misused, HandleOf
      <4>2. 0 \in Handle
        BY DEF Handle
      <4> QED
        BY <4>1, <4>2, <2>1
    <3>2. CASE ~Misused /\ HandleOf(d) = HandleOf(e)
      <4>1. cursor'[HandleOf(d)] = [exec |-> e, fetched |-> 0, state |-> "ready"]
        BY <3>2, <1>3, <1>5 DEF DriverTypeOK
      <4> QED
        BY <4>1, <1>1 DEF e
    <3>3. CASE ~Misused /\ HandleOf(d) # HandleOf(e)
      <4>1. d \in open
        BY <2>2, <3>3, <1>3
      <4>2. HandleOf(d) \in Handle
        BY <4>1, <1>1, DriversAssumption DEF HandleOf, Handle, DriverTypeOK
      <4>3. cursor'[HandleOf(d)] = cursor[HandleOf(d)]
        BY <3>3, <4>2, <1>3, <1>5 DEF DriverTypeOK
      <4> QED
        BY <4>1, <4>3, <1>1 DEF HandlesExecuted, e
    <3> QED
      BY <3>1, <3>2, <3>3
  <2>3. \A d : HandleOf(d)' = HandleOf(d)
    BY <1>4 DEF HandleOf
  <2>4. bound_set' \in 1 .. executed'
    BY <1>1, <1>3 DEF e
  <2> QED
    BY <2>1, <2>2, <2>3, <2>4, <1>1, <1>4 DEF HandlesExecuted, e, Execution
<1>10. OwnHandle'
  <2>1. ASSUME NEW d \in (open \ disturbed)'
        PROVE  /\ (cursor[HandleOf(d)].exec = d)'
               /\ (api = "prepared" => open = {d} /\ bound_set = d)'
               /\ (engine = "mysql" => MySQLReached(d))'
               /\ (engine = "sqlite" => SQLiteReached(d))'
    <3>0. ~Misused
      BY <2>1, <1>3
    <3>1. CASE d = e
      <4>1. cursor'[HandleOf(d)'] = [exec |-> e, fetched |-> 0, state |-> "ready"]
        BY <3>0, <3>1, <1>3, <1>4, <1>5 DEF DriverTypeOK, HandleOf
      <4>2. rowPosition'[e] = 0 /\ numRows'[e] \in Nat
        BY <1>1, <1>2, <1>4 DEF HandlesExecuted, DriverTypeOK, e
      <4>3. api = "prepared" => open = {}
        BY <2>1, <3>1, <3>0, <1>3
      <4> QED
        BY <2>1, <3>1, <1>1, <1>3, <1>4, <4>1, <4>2, <4>3 DEF MySQLReached, SQLiteReached
    <3>2. CASE d # e
      <4>1. d \in open \ disturbed /\ api = "direct" /\ d \in 1 .. executed
        BY <2>1, <3>0, <3>2, <1>3 DEF DriverTypeOK, HandlesExecuted
      <4>2. HandleOf(d) = d /\ HandleOf(d)' = d /\ d \in Handle /\ d \in Execution
        BY <4>1, <1>1, <1>4 DEF HandleOf, Handle, Execution
      <4>3. cursor'[d] = cursor[d] /\ numRows'[d] = numRows[d]
        BY <3>0, <3>2, <4>1, <4>2, <1>1, <1>2, <1>3, <1>5 DEF DriverTypeOK
      <4> QED
        BY <4>1, <4>2, <4>3, <1>4 DEF OwnHandle, MySQLReached, SQLiteReached
    <3> QED
      BY <3>1, <3>2
  <2> QED
    BY <2>1 DEF OwnHandle
<1> QED
  BY <1>6, <1>7, <1>8, <1>9, <1>10

(* The types of what the result sets change.                               *)
ResultTypes ==
    /\ numRows \in [Execution -> 0 .. MaxRows]
    /\ cursor \in [Handle -> [exec : 0 .. executed, fetched : 0 .. MaxRows,
                              state : {"none", "ready", "row", "done", "freed"}]]
    /\ buffer \in [Execution -> (0 .. executed) \X (0 .. MaxRows)]
    /\ rowPosition \in [Execution -> 0 .. MaxRows + 1]
    /\ open \subseteq 1 .. executed
    /\ executed \in 0 .. MaxExecutions

LEMMA ResultTyped == DriverInv => ResultTypes
BY DEF DriverInv, DriverTypeOK, Given, ResultTypes

(* A row is fetched.                                                       *)
LEMMA DriverInvNext ==
    ASSUME DriverInv, NEW e \in Execution, next(e)
    PROVE  DriverInv'
<1> DEFINE h == HandleOf(e)
           c == cursor[h]
<1>1. e \in open /\ rowPosition[e] <= numRows[e] /\ c.state # "done"
  BY DEF next
<1>2. UNCHANGED <<engine, api, reader, given, index, errors, used, asked, soiled, numRows, executed,
                  disturbed, worker, bind, bound_set, open>>
  BY DEF next, configVars, askVars
<1>3. /\ h \in Handle /\ (api = "prepared" => h = 0) /\ (api = "direct" => h = e)
      /\ c \in [exec : 0 .. executed, fetched : 0 .. MaxRows,
                state : {"none", "ready", "row", "done", "freed"}]
      /\ c.exec \in 1 .. executed /\ c.exec \in Execution
      /\ numRows[c.exec] \in 0 .. MaxRows /\ numRows[e] \in 0 .. MaxRows
      /\ rowPosition[e] \in 0 .. MaxRows
      /\ executed \in 0 .. MaxExecutions
  <2>1. h \in Handle /\ (api = "prepared" => h = 0) /\ (api = "direct" => h = e)
    BY DriversAssumption DEF HandleOf, Handle, Execution, DriverInv, HandlesExecuted
  <2>2. c \in [exec : 0 .. executed, fetched : 0 .. MaxRows,
                state : {"none", "ready", "row", "done", "freed"}]
    BY <2>1 DEF DriverInv, DriverTypeOK
  <2>3. executed \in 0 .. MaxExecutions /\ c.exec \in 1 .. executed
    BY <1>1 DEF DriverInv, Given, HandlesExecuted
  <2>4. c.exec \in Execution
    BY <2>3, DriversAssumption DEF Execution
  <2>5. numRows[c.exec] \in 0 .. MaxRows /\ numRows[e] \in 0 .. MaxRows
    BY <2>4 DEF DriverInv, DriverTypeOK
  <2>6. rowPosition[e] \in 0 .. MaxRows
    BY <2>5, <1>1, DriversAssumption DEF DriverInv, DriverTypeOK
  <2> QED
    BY <2>1, <2>2, <2>3, <2>4, <2>5, <2>6
<1>4. ASSUME NEW d \in open \ disturbed, d # e
      PROVE  d # h /\ HandleOf(d) = d /\ d \in Handle /\ d \in Execution /\ api = "direct"
  <2>1. api = "direct"
    BY <1>1, <1>4 DEF DriverInv, OwnHandle, HandlesExecuted
  <2> QED
    BY <2>1, <1>3, <1>4, DriversAssumption DEF HandleOf, Handle, Execution, DriverInv, DriverTypeOK
<1> HIDE DEF h
<1>5. Given' /\ SetSoFar' /\ BoundAsAsked' /\ ObserverFirst'
  <2>1. reader = "observer" => worker = "executed"
    BY <1>1 DEF DriverInv, ObserverFirst
  <2>2. ObserverFirst'
    BY <2>1, <1>2 DEF DriverInv, ObserverFirst
  <2> QED
    BY <2>2, <1>2 DEF DriverInv, Given, SetSoFar, BoundAsAsked
<1>6. CASE mysql_next(e)
  <2> DEFINE fetches == c.state = "ready" /\ c.fetched < numRows[c.exec]
             target == IF api = "prepared" THEN bound_set ELSE e
  <2>1. /\ engine = "mysql"
        /\ fetches => /\ cursor' = [cursor EXCEPT ![h].fetched = @ + 1]
                      /\ buffer' = [buffer EXCEPT ![target] = <<c.exec, c.fetched + 1>>]
        /\ ~fetches => UNCHANGED <<cursor, buffer>>
        /\ rowPosition' = [rowPosition EXCEPT ![e] = @ + 1]
    BY <1>6 DEF mysql_next, h
  <2>2. target \in Execution
    BY <1>1, <1>3, DriversAssumption DEF DriverInv, HandlesExecuted, Execution
  <2>3. DriverTypeOK'
    <3>1. rowPosition' \in [Execution -> 0 .. MaxRows + 1]
      BY <2>1, <1>3, ResultTyped, DriversAssumption DEF ResultTypes
    <3>2. fetches => c.fetched + 1 \in 0 .. MaxRows
      BY <1>3, DriversAssumption
    <3>3. cursor' \in [Handle -> [exec : 0 .. executed, fetched : 0 .. MaxRows,
                              state : {"none", "ready", "row", "done", "freed"}]]
      BY <2>1, <3>2, <1>3, ResultTyped DEF ResultTypes
    <3>4. buffer' \in [Execution -> (0 .. executed) \X (0 .. MaxRows)]
      BY <2>1, <2>2, <3>2, <1>3, ResultTyped DEF ResultTypes
    <3> QED
      BY <1>2, <3>1, <3>3, <3>4 DEF DriverInv, DriverTypeOK
  <2>4. \A k \in Handle : cursor'[k].exec = cursor[k].exec /\ cursor'[k].state = cursor[k].state
    <3>1. fetches => \A k \in Handle : cursor'[k] = IF k = h THEN [c EXCEPT !.fetched = @ + 1]
                                                              ELSE cursor[k]
      BY <2>1, <1>3 DEF DriverInv, DriverTypeOK, h
    <3>2. [c EXCEPT !.fetched = @ + 1].exec = c.exec /\ [c EXCEPT !.fetched = @ + 1].state = c.state
      BY <1>3
    <3> QED
      BY <3>1, <3>2, <2>1 DEF h
  <2>5. HandlesExecuted'
    <3>1. \A d \in open : HandleOf(d) \in Handle
      BY DriversAssumption DEF DriverInv, DriverTypeOK, Given, HandleOf, Handle
    <3>2. \A d : HandleOf(d)' = HandleOf(d)
      BY <1>2 DEF HandleOf
    <3>3. \A d \in Execution : d > executed => rowPosition'[d] = 0
      <4>1. e <= executed
        BY <1>1, <1>3 DEF DriverInv, DriverTypeOK
      <4>2. \A d \in Execution : d # e => rowPosition'[d] = rowPosition[d]
        BY <2>1 DEF DriverInv, DriverTypeOK
      <4> QED
        BY <4>1, <4>2, <1>3, DriversAssumption DEF DriverInv, HandlesExecuted, Execution
    <3>4. \A k \in Handle : cursor'[k].state # "none" => cursor'[k].exec \in 1 .. executed
      <4>1. \A k \in Handle : k # h => cursor'[k] = cursor[k]
        BY <2>1 DEF DriverInv, DriverTypeOK
      <4>2. cursor'[h].exec \in 1 .. executed
        BY <2>4, <1>3
      <4> QED
        BY <4>1, <4>2 DEF DriverInv, HandlesExecuted
    <3> QED
      BY <1>2, <2>4, <3>1, <3>2, <3>3, <3>4 DEF DriverInv, HandlesExecuted
  <2>6. ASSUME NEW d \in open \ disturbed
        PROVE  /\ cursor'[HandleOf(d)].exec = d
               /\ api = "prepared" => open = {d} /\ bound_set = d
               /\ MySQLReached(d)'
    <3>0. HandleOf(d)' = HandleOf(d)
      BY <1>2 DEF HandleOf
    <3>1. /\ cursor[HandleOf(d)].exec = d
          /\ api = "prepared" => open = {d} /\ bound_set = d
          /\ MySQLReached(d)
      BY <2>1 DEF DriverInv, OwnHandle
    <3>2. CASE d = e
      <4>1. target = e /\ c.exec = e /\ c.state = "ready"
        BY <3>1, <3>2, <1>1 DEF MySQLReached, h
      <4>2. c.fetched = (IF rowPosition[e] <= numRows[e] THEN rowPosition[e] ELSE numRows[e])
        BY <3>1, <3>2 DEF MySQLReached, h
      <4>3. rowPosition'[e] = rowPosition[e] + 1
        BY <2>1 DEF DriverInv, DriverTypeOK
      <4>4. CASE fetches
        <5>1. cursor'[h].fetched = c.fetched + 1 /\ buffer'[e] = <<e, c.fetched + 1>>
          BY <4>1, <4>4, <2>1, <1>3 DEF DriverInv, DriverTypeOK
        <5> QED
          BY <3>0, <3>1, <3>2, <4>1, <4>2, <4>3, <4>4, <5>1, <2>4, <1>2, <1>3, <1>1
             DEF MySQLReached, h
      <4>5. CASE ~fetches
        BY <3>0, <3>1, <3>2, <4>1, <4>2, <4>3, <4>5, <2>1, <2>4, <1>2, <1>3, <1>1
           DEF MySQLReached, h
      <4> QED
        BY <4>4, <4>5
    <3>3. CASE d # e
      <4>1. target = e
        BY <1>4, <3>3
      <4>2. cursor'[d] = cursor[d] /\ buffer'[d] = buffer[d] /\ rowPosition'[d] = rowPosition[d]
        BY <1>4, <3>3, <4>1, <2>1 DEF DriverInv, DriverTypeOK
      <4> QED
        BY <1>2, <1>4, <3>0, <3>1, <3>3, <4>2 DEF MySQLReached
    <3> QED
      BY <3>2, <3>3
  <2>7. OwnHandle'
    <3>1. \A d : HandleOf(d)' = HandleOf(d)
      BY <1>2 DEF HandleOf
    <3> QED
      BY <2>1, <2>6, <1>2, <3>1 DEF OwnHandle
  <2> QED
    BY <1>5, <2>3, <2>5, <2>7 DEF DriverInv
<1>7. CASE sqlite_next(e)
  <2> DEFINE fetches == c.fetched < numRows[c.exec]
  <2>1. /\ engine = "sqlite" /\ UNCHANGED buffer
        /\ fetches => /\ cursor' = [cursor EXCEPT ![h].fetched = c.fetched + 1,
                                                  ![h].state = "row"]
                      /\ rowPosition' = [rowPosition EXCEPT ![e] = @ + 1]
        /\ ~fetches => /\ cursor' = [cursor EXCEPT ![h].state = "done"]
                       /\ UNCHANGED rowPosition
    BY <1>7, <1>1 DEF sqlite_next, h
  <2>3. DriverTypeOK'
    <3>1. rowPosition' \in [Execution -> 0 .. MaxRows + 1]
      BY <2>1, <1>3, ResultTyped, DriversAssumption DEF ResultTypes
    <3>2. fetches => c.fetched + 1 \in 0 .. MaxRows
      BY <1>3, DriversAssumption
    <3>3. cursor' \in [Handle -> [exec : 0 .. executed, fetched : 0 .. MaxRows,
                              state : {"none", "ready", "row", "done", "freed"}]]
      BY <2>1, <3>2, <1>3, ResultTyped DEF ResultTypes
    <3> QED
      BY <1>2, <2>1, <3>1, <3>3 DEF DriverInv, DriverTypeOK
  <2>4. \A k \in Handle : cursor'[k].exec = cursor[k].exec
    <3>1. \A k \in Handle : k # h => cursor'[k] = cursor[k]
      BY <2>1, ResultTyped DEF ResultTypes
    <3>2. CASE fetches
      <4>1. cursor'[h] = [c EXCEPT !.fetched = c.fetched + 1, !.state = "row"]
        BY <3>2, <2>1, <1>3, ResultTyped DEF ResultTypes, h
      <4> QED
        BY <3>1, <4>1, <1>3 DEF h
    <3>3. CASE ~fetches
      <4>1. cursor'[h] = [c EXCEPT !.state = "done"]
        BY <3>3, <2>1, <1>3, ResultTyped DEF ResultTypes, h
      <4> QED
        BY <3>1, <4>1, <1>3 DEF h
    <3> QED
      BY <3>2, <3>3
  <2>5. HandlesExecuted'
    <3>1. \A d \in open : HandleOf(d) \in Handle
      BY DriversAssumption DEF DriverInv, DriverTypeOK, Given, HandleOf, Handle
    <3>2. \A d : HandleOf(d)' = HandleOf(d)
      BY <1>2 DEF HandleOf
    <3>3. \A d \in Execution : d > executed => rowPosition'[d] = 0
      <4>1. e <= executed
        BY <1>1, <1>3 DEF DriverInv, DriverTypeOK
      <4>2. \A d \in Execution : d # e => rowPosition'[d] = rowPosition[d]
        BY <2>1 DEF DriverInv, DriverTypeOK
      <4> QED
        BY <4>1, <4>2, <1>3, DriversAssumption DEF DriverInv, HandlesExecuted, Execution
    <3>4. \A k \in Handle : cursor'[k].state # "none" => cursor'[k].exec \in 1 .. executed
      <4>1. \A k \in Handle : k # h => cursor'[k] = cursor[k]
        BY <2>1 DEF DriverInv, DriverTypeOK
      <4>2. cursor'[h].exec \in 1 .. executed
        BY <2>4, <1>3
      <4> QED
        BY <4>1, <4>2 DEF DriverInv, HandlesExecuted
    <3> QED
      BY <1>2, <2>4, <3>1, <3>2, <3>3, <3>4 DEF DriverInv, HandlesExecuted
  <2>6. ASSUME NEW d \in open \ disturbed
        PROVE  /\ cursor'[HandleOf(d)].exec = d
               /\ api = "prepared" => open = {d} /\ bound_set = d
               /\ SQLiteReached(d)'
    <3>0. HandleOf(d)' = HandleOf(d)
      BY <1>2 DEF HandleOf
    <3>1. /\ cursor[HandleOf(d)].exec = d
          /\ api = "prepared" => open = {d} /\ bound_set = d
          /\ SQLiteReached(d)
      BY <2>1 DEF DriverInv, OwnHandle
    <3>2. CASE d = e
      <4>1. c.exec = e /\ c.fetched = rowPosition[e]
        BY <3>1, <3>2, <1>1 DEF SQLiteReached, h
      <4>2. CASE fetches
        <5>1. /\ cursor'[h].fetched = c.fetched + 1 /\ cursor'[h].state = "row"
              /\ rowPosition'[e] = rowPosition[e] + 1
          BY <4>2, <2>1, <1>3 DEF DriverInv, DriverTypeOK
        <5> QED
          BY <3>0, <3>1, <3>2, <4>1, <5>1, <2>4, <1>3 DEF SQLiteReached, h
      <4>3. CASE ~fetches
        <5>1. cursor'[h].state = "done"
          BY <4>3, <2>1, <1>3 DEF DriverInv, DriverTypeOK
        <5> QED
          BY <3>0, <3>1, <3>2, <5>1, <2>4, <1>3 DEF SQLiteReached, h
      <4> QED
        BY <4>2, <4>3
    <3>3. CASE d # e
      <4>1. cursor'[d] = cursor[d] /\ rowPosition'[d] = rowPosition[d]
        BY <1>4, <3>3, <2>1 DEF DriverInv, DriverTypeOK
      <4> QED
        BY <1>2, <1>4, <3>0, <3>1, <3>3, <4>1 DEF SQLiteReached
    <3> QED
      BY <3>2, <3>3
  <2>7. OwnHandle'
    <3>1. \A d : HandleOf(d)' = HandleOf(d)
      BY <1>2 DEF HandleOf
    <3> QED
      BY <2>1, <2>6, <1>2, <3>1 DEF OwnHandle
  <2> QED
    BY <1>5, <2>3, <2>5, <2>7 DEF DriverInv
<1> QED
  BY <1>6, <1>7 DEF next

(* A result set is deleted.                                                *)
LEMMA DriverInvDelete ==
    ASSUME DriverInv, NEW e \in Execution, delete_result(e)
    PROVE  DriverInv'
<1>1. /\ e \in open /\ open' = open \ {e}
      /\ UNCHANGED <<engine, api, reader, given, index, errors, used, asked, soiled, numRows,
                     executed, disturbed, worker, bind, bound_set, buffer, rowPosition>>
      /\ cursor' = IF engine = "mysql"
                   THEN [cursor EXCEPT ![HandleOf(e)].state = "freed"]
                   ELSE cursor
  BY DEF delete_result, configVars, askVars
<1>2. \A d \in open : HandleOf(d) \in Handle /\ HandleOf(d)' = HandleOf(d)
  BY <1>1, DriversAssumption DEF DriverInv, DriverTypeOK, Given, HandleOf, Handle
<1>3. Given' /\ SetSoFar' /\ BoundAsAsked' /\ ObserverFirst'
  <2>1. reader = "observer" => worker = "executed"
    BY <1>1 DEF DriverInv, ObserverFirst
  <2>2. ObserverFirst'
    BY <2>1, <1>1 DEF DriverInv, ObserverFirst
  <2> QED
    BY <2>2, <1>1 DEF DriverInv, Given, SetSoFar, BoundAsAsked
<1>4. DriverTypeOK'
  <2>1. cursor' \in [Handle -> [exec : 0 .. executed, fetched : 0 .. MaxRows,
                                state : {"none", "ready", "row", "done", "freed"}]]
    BY <1>1, <1>2 DEF DriverInv, DriverTypeOK
  <2> QED
    BY <1>1, <2>1 DEF DriverInv, DriverTypeOK
<1>5. \A k \in Handle : cursor'[k].exec = cursor[k].exec
  BY <1>1, <1>2 DEF DriverInv, DriverTypeOK
<1>6. HandlesExecuted'
  <2>1. cursor[HandleOf(e)].exec \in 1 .. executed /\ HandleOf(e) \in Handle
    BY <1>1, <1>2 DEF DriverInv, HandlesExecuted
  <2>2. \A k \in Handle : k # HandleOf(e) => cursor'[k] = cursor[k]
    BY <1>1, <1>2 DEF DriverInv, DriverTypeOK
  <2>3. \A k \in Handle : cursor'[k].state # "none" => cursor'[k].exec \in 1 .. executed
    BY <2>1, <2>2, <1>5 DEF DriverInv, HandlesExecuted
  <2> QED
    BY <2>3, <1>1, <1>2, <1>5 DEF DriverInv, HandlesExecuted
<1>7. ASSUME NEW d \in open \ disturbed, d # e
      PROVE  /\ cursor'[HandleOf(d)] = cursor[HandleOf(d)]
             /\ (api = "prepared" => open' = {d})
  <2>1. api = "direct"
    BY <1>1, <1>7 DEF DriverInv, OwnHandle, HandlesExecuted
  <2>2. HandleOf(d) = d /\ HandleOf(e) = e
    BY <2>1 DEF HandleOf
  <2> QED
    BY <1>1, <1>2, <1>7, <2>1, <2>2 DEF DriverInv, DriverTypeOK
<1>8. OwnHandle'
  <2>1. ASSUME NEW d \in open \ disturbed, d # e
        PROVE  /\ (cursor[HandleOf(d)].exec = d)'
               /\ (api = "prepared" => open = {d} /\ bound_set = d)'
               /\ (engine = "mysql" => MySQLReached(d))'
               /\ (engine = "sqlite" => SQLiteReached(d))'
    <3>1. (cursor[HandleOf(d)])' = cursor[HandleOf(d)]
      BY <2>1, <1>2, <1>7
    <3>2. /\ cursor[HandleOf(d)].exec = d
          /\ api = "prepared" => open = {d} /\ bound_set = d
          /\ engine = "mysql" => MySQLReached(d)
          /\ engine = "sqlite" => SQLiteReached(d)
      BY <2>1 DEF DriverInv, OwnHandle
    <3>3. api = "prepared" => open' = {d}
      BY <2>1, <1>7
    <3> QED
      BY <1>1, <3>1, <3>2, <3>3 DEF MySQLReached, SQLiteReached
  <2>2. \A d \in (open \ disturbed)' : d \in open \ disturbed /\ d # e
    BY <1>1
  <2> QED
    BY <2>1, <2>2 DEF OwnHandle
<1> QED
  BY <1>3, <1>4, <1>6, <1>8 DEF DriverInv

LEMMA DriverInvStep == DriverInv /\ [DriverNext]_driverVars => DriverInv'
BY DriverInvTake, DriverInvSet, DriverInvThrows, DriverInvClear, DriverInvStutter,
   DriverInvExecute, DriverInvNext, DriverInvDelete DEF DriverNext

(* What the getters find for a set that has its handle for itself.         *)
LEMMA OwnRowIsRead == DriverInv => ReadsOwnRow
<1> SUFFICES ASSUME DriverInv, NEW e \in open, NEW idx \in Column,
                    reader = "observer" \/ e \notin disturbed,
                    rowPosition[e] \in 1 .. numRows[e]
             PROVE  LET cell == Getter(e, idx) IN
                    IF engine = "mysql" THEN cell = <<e, rowPosition[e], idx>>
                    ELSE Len(cell) = 3 => cell[1] = e /\ cell[2] = rowPosition[e]
  BY DEF ReadsOwnRow
<1>1. e \in open \ disturbed
  BY DEF DriverInv, ObserverFirst
<1>2. e \in Execution /\ numRows[e] \in 0 .. MaxRows /\ rowPosition[e] \in 1 .. MaxRows
  BY ResultTyped, DriversAssumption DEF ResultTypes, Execution
<1>3. ~Invalid(e, idx)
  BY <1>2, DriversAssumption DEF Invalid
<1>4. CASE engine = "mysql"
  <2>1. buffer[e] = <<e, rowPosition[e]>>
    BY <1>1, <1>4 DEF DriverInv, OwnHandle, MySQLReached
  <2>2. buffer[e] \o <<idx>> = <<e, rowPosition[e], idx>>
    <3> DEFINE cell == <<e, rowPosition[e]>> \o <<idx>>
    <3>1. <<e, rowPosition[e]>> \in Seq(Int) /\ <<idx>> \in Seq(Int)
      BY <1>2, DriversAssumption DEF Execution, Column
    <3>2. Len(cell) = 3 /\ cell \in Seq(Int)
      BY <3>1
    <3>3. cell[1] = e /\ cell[2] = rowPosition[e] /\ cell[3] = idx
      BY <3>1
    <3>4. cell = <<e, rowPosition[e], idx>>
      <4> DEFINE triple == <<e, rowPosition[e], idx>>
      <4>1. triple \in Seq(Int) /\ Len(triple) = 3
        BY <1>2, DriversAssumption DEF Execution, Column
      <4>2. \A i \in 1 .. 3 : cell[i] = triple[i]
        BY <3>3
      <4> HIDE DEF cell, triple
      <4>3. cell = triple
        BY <3>2, <4>1, <4>2, SeqEqual
      <4> QED
        BY <4>3 DEF triple
    <3> QED
      BY <2>1, <3>4
  <2>3. api = "direct" \/ bound_set = e
    BY <1>1 DEF DriverInv, OwnHandle, HandlesExecuted
  <2>4. Getter(e, idx) = buffer[e] \o <<idx>>
    BY <1>3, <1>4, <2>3 DEF Getter, mysql_direct_cell, mysql_prepared_cell
  <2> QED
    BY <1>4, <2>2, <2>4
<1>5. CASE engine = "sqlite"
  <2>1. Getter(e, idx) = sqlite_cell(e, idx)
    BY <1>3, <1>5 DEF Getter
  <2>2. CASE cursor[HandleOf(e)].state = "row"
    <3>1. sqlite_cell(e, idx) = <<e, rowPosition[e], idx + 1>>
      BY <2>2, <1>1, <1>5 DEF sqlite_cell, DriverInv, OwnHandle, SQLiteReached
    <3> QED
      BY <1>5, <2>1, <3>1
  <2>3. CASE cursor[HandleOf(e)].state # "row"
    <3>1. sqlite_cell(e, idx) = <<"null">>
      BY <2>3 DEF sqlite_cell
    <3> QED
      BY <1>5, <2>1, <3>1
  <2> QED
    BY <2>2, <2>3
<1> QED
  BY <1>4, <1>5 DEF DriverInv, HandlesExecuted

-----------------------------------------------------------------------------
(* The client's data files.                                                *)

CallName == {"read_uint32", "skip_field", "read_string"}

LEMMA TimesLength ==
    ASSUME NEW n \in Nat, NEW name \in CallName
    PROVE  Times(n, name) \in Seq(CallName) /\ Len(Times(n, name)) = n
           /\ \A i \in 1 .. n : Times(n, name)[i] = name
BY DEF Times

(* Calls in a row.                                                         *)
LEMMA CallsJoined ==
    ASSUME NEW s \in Seq(CallName), NEW n \in Nat, NEW name \in CallName
    PROVE  /\ s \o Times(n, name) \in Seq(CallName)
           /\ Len(s \o Times(n, name)) = Len(s) + n
           /\ s # <<>> => (s \o Times(n, name))[1] = s[1]
<1> DEFINE t == Times(n, name)
<1>1. t \in Seq(CallName) /\ Len(t) = n
  BY TimesLength
<1> HIDE DEF t
<1>2. /\ s \o t \in Seq(CallName)
      /\ Len(s \o t) = Len(s) + Len(t)
      /\ \A i \in 1 .. Len(s) + Len(t) : (s \o t)[i] = IF i <= Len(s) THEN s[i] ELSE t[i - Len(s)]
  BY <1>1, ConcatProperties
<1>3. s # <<>> => 1 \in 1 .. Len(s)
  OBVIOUS
<1>4. s # <<>> => (s \o t)[1] = s[1]
  BY <1>1, <1>2, <1>3
<1> QED
  BY <1>1, <1>2, <1>4 DEF t

(* A loader makes as many calls as a record has fields, the first of which *)
(* reads the key.                                                          *)
AsManyCalls(calls, n) ==
    calls \in Seq(CallName) /\ Len(calls) = n /\ n \in Nat \ {0} /\ calls[1] = "read_uint32"

LEMMA CallsBegin == \A n \in Nat \ {0} : AsManyCalls(Read(n), n)
BY TimesLength DEF AsManyCalls, Read, CallName

LEMMA CallsGoOn ==
    ASSUME NEW s, NEW k \in Nat, AsManyCalls(s, k), NEW n \in Nat
    PROVE  /\ AsManyCalls(s \o Read(n), k + n)
           /\ AsManyCalls(s \o Skip(n), k + n)
           /\ AsManyCalls(s \o Strings(n), k + n)
<1>1. s \in Seq(CallName) /\ s # <<>> /\ Len(s) = k /\ k # 0 /\ s[1] = "read_uint32"
  BY DEF AsManyCalls
<1>2. ASSUME NEW name \in CallName
      PROVE  AsManyCalls(s \o Times(n, name), k + n)
  <2> DEFINE t == s \o Times(n, name)
  <2>1. t \in Seq(CallName) /\ Len(t) = Len(s) + n /\ t[1] = s[1]
    BY <1>1, CallsJoined
  <2>2. k + n \in Nat \ {0}
    BY <1>1
  <2> HIDE DEF t
  <2>3. AsManyCalls(t, k + n)
    BY <1>1, <2>1, <2>2 DEF AsManyCalls
  <2> QED
    BY <2>3 DEF t
<1> QED
  BY <1>2 DEF Read, Skip, Strings, CallName

LEMMA ItemCalls == AsManyCalls(load_item, 4)
BY CallsBegin DEF load_item

LEMMA EnchantmentCalls == AsManyCalls(load_spell_item_enchantment, 34)
<1> DEFINE a == Read(1) \o Read(3)
           b == a \o Read(3)
           c == b \o Skip(3)
           d == c \o Read(3)
           e == d \o Strings(1)
           f == e \o Skip(16)
           g == f \o Read(4)
<1>1. AsManyCalls(Read(1), 1)
  BY CallsBegin
<1> HIDE DEF a, b, c, d, e, f, g
<1>2. AsManyCalls(a, 4)
  BY <1>1, CallsGoOn DEF a
<1>3. AsManyCalls(b, 7)
  BY <1>2, CallsGoOn DEF b
<1>4. AsManyCalls(c, 10)
  BY <1>3, CallsGoOn DEF c
<1>5. AsManyCalls(d, 13)
  BY <1>4, CallsGoOn DEF d
<1>6. AsManyCalls(e, 14)
  BY <1>5, CallsGoOn DEF e
<1>7. AsManyCalls(f, 30)
  BY <1>6, CallsGoOn DEF f
<1>8. AsManyCalls(g, 34)
  BY <1>7, CallsGoOn DEF g
<1> QED
  BY <1>8 DEF a, b, c, d, e, f, g, load_spell_item_enchantment

LEMMA RacesCalls == AsManyCalls(load_chr_races, 69)
<1> DEFINE a == Read(1) \o Skip(1)
           b == a \o Read(1)
           c == b \o Skip(1)
           d == c \o Read(2)
           e == d \o Skip(2)
           f == e \o Read(1)
           g == f \o Skip(4)
           h == g \o Read(1)
           i == h \o Strings(16)
           j == i \o Skip(38)
           k == j \o Read(1)
<1>1. AsManyCalls(Read(1), 1)
  BY CallsBegin
<1> HIDE DEF a, b, c, d, e, f, g, h, i, j, k
<1>2. AsManyCalls(a, 2)
  BY <1>1, CallsGoOn DEF a
<1>3. AsManyCalls(b, 3)
  BY <1>2, CallsGoOn DEF b
<1>4. AsManyCalls(c, 4)
  BY <1>3, CallsGoOn DEF c
<1>5. AsManyCalls(d, 6)
  BY <1>4, CallsGoOn DEF d
<1>6. AsManyCalls(e, 8)
  BY <1>5, CallsGoOn DEF e
<1>7. AsManyCalls(f, 9)
  BY <1>6, CallsGoOn DEF f
<1>8. AsManyCalls(g, 13)
  BY <1>7, CallsGoOn DEF g
<1>9. AsManyCalls(h, 14)
  BY <1>8, CallsGoOn DEF h
<1>10. AsManyCalls(i, 30)
  BY <1>9, CallsGoOn DEF i
<1>11. AsManyCalls(j, 68)
  BY <1>10, CallsGoOn DEF j
<1>12. AsManyCalls(k, 69)
  BY <1>11, CallsGoOn DEF k
<1> QED
  BY <1>12 DEF a, b, c, d, e, f, g, h, i, j, k, load_chr_races

LEMMA ClassesCalls == AsManyCalls(load_chr_classes, 58)
<1> DEFINE a == Read(1) \o Skip(1)
           b == a \o Read(1)
           c == b \o Skip(1)
           d == c \o Strings(16)
           e == d \o Skip(36)
           f == e \o Read(1)
           g == f \o Skip(1)
<1>1. AsManyCalls(Read(1), 1)
  BY CallsBegin
<1> HIDE DEF a, b, c, d, e, f, g
<1>2. AsManyCalls(a, 2)
  BY <1>1, CallsGoOn DEF a
<1>3. AsManyCalls(b, 3)
  BY <1>2, CallsGoOn DEF b
<1>4. AsManyCalls(c, 4)
  BY <1>3, CallsGoOn DEF c
<1>5. AsManyCalls(d, 20)
  BY <1>4, CallsGoOn DEF d
<1>6. AsManyCalls(e, 56)
  BY <1>5, CallsGoOn DEF e
<1>7. AsManyCalls(f, 57)
  BY <1>6, CallsGoOn DEF f
<1>8. AsManyCalls(g, 58)
  BY <1>7, CallsGoOn DEF g
<1> QED
  BY <1>8 DEF a, b, c, d, e, f, g, load_chr_classes

LEMMA EveryLoader == \A f \in File : AsManyCalls(Calls[f], Fields[f])
BY ItemCalls, EnchantmentCalls, RacesCalls, ClassesCalls DEF File, Calls, Fields

LEMMA OrderOfFiles ==
    /\ \A i \in 1 .. 4 : LoadOrder[i] \in File
    /\ \A i, j \in 1 .. 4 : i # j => LoadOrder[i] # LoadOrder[j]
    /\ Len(LoadOrder) = 4
BY DEF LoadOrder, File

DBCTypes ==
    /\ directory \in [File -> FileOnDisk]
    /\ loading \in 1 .. 4
    /\ {record, call, get_ptr} \subseteq Nat
    /\ failed \in BOOLEAN
    /\ store \in {"opening", "loading", "loaded", "threw", "hung"}
    /\ entries \in [File -> SUBSET Int]

(* The position in a whole file is the one of the next call in the next    *)
(* record, and the keys are those of the records that were begun.          *)
Position ==
    store = "loading" =>
        /\ header.valid
        /\ record \in 0 .. header.records
        /\ call \in 0 .. Fields[Current] - 1
        /\ record = header.records => call = 0
        /\ Whole(header) =>
               /\ ~failed
               /\ get_ptr = record * RecordSize(Current) + 4 * call
               /\ entries[Current] = Keys(Current, IF call = 0 THEN record ELSE record + 1)

(* Whole files that were closed are complete, files not yet opened empty.  *)
OtherFiles ==
    \A i \in 1 .. 4 :
        /\ Whole(directory[LoadOrder[i]]) /\ (i < loading \/ store = "loaded") =>
               entries[LoadOrder[i]] = Keys(LoadOrder[i], directory[LoadOrder[i]].records)
        /\ i > loading \/ (i = loading /\ store = "opening") => entries[LoadOrder[i]] = {}

(* Where loading stopped, keys of the file were read.                      *)
StoppedFile ==
    store \in {"threw", "hung"} /\ Whole(header) =>
        entries[Current] \subseteq Keys(Current, header.records)

DBCInv == DBCTypes /\ Position /\ OtherFiles /\ StoppedFile

LEMMA FileTypes ==
    ASSUME DBCTypes
    PROVE  /\ Current \in File
           /\ \A f \in File : directory[f].valid => /\ directory[f].records \in 1 .. MaxRecords
                                                    /\ directory[f].field_size \in Nat
           /\ \A f \in File : /\ Fields[f] \in Nat \ {0} /\ Len(Calls[f]) = Fields[f]
                              /\ RecordSize(f) = 4 * Fields[f]
                              /\ Calls[f][1] = "read_uint32"
           /\ header = directory[Current]
<1>1. Current \in File
  BY OrderOfFiles DEF DBCTypes, Current
<1>2. ASSUME NEW f \in File, directory[f].valid
      PROVE  directory[f].records \in 1 .. MaxRecords /\ directory[f].field_size \in Nat
  <2>1. directory[f] \in FileOnDisk
    BY DEF DBCTypes
  <2>2. directory[f] # [valid |-> FALSE]
    BY <1>2
  <2>3. directory[f] \in [valid : {TRUE}, records : 1 .. MaxRecords, strings : BOOLEAN,
                          field_size : {3, 4},
                          ends : {"in data", "in strings", "behind strings"}]
    BY <2>1, <2>2 DEF FileOnDisk
  <2>4. directory[f].records \in 1 .. MaxRecords
    BY <2>3
  <2>5. directory[f].field_size \in {3, 4}
    BY <2>3
  <2> QED
    BY <2>4, <2>5
<1> QED
  BY <1>1, <1>2, EveryLoader DEF AsManyCalls, RecordSize, header

LEMMA KeysGrow ==
    ASSUME NEW f \in File, NEW n \in Nat
    PROVE  /\ Keys(f, n + 1) = Keys(f, n) \union {n * RecordSize(f)}
           /\ \A m \in 0 .. n : Keys(f, m) \subseteq Keys(f, n)
           /\ Keys(f, 0) = {}
           /\ Keys(f, n) \subseteq Nat
<1>1. RecordSize(f) \in Nat
  BY EveryLoader DEF AsManyCalls, RecordSize
<1>2. \A i \in 0 .. n - 1 : i * RecordSize(f) \in Nat
  BY <1>1
<1>3. 0 .. (n + 1) - 1 = (0 .. n - 1) \union {n}
  OBVIOUS
<1>4. Keys(f, 0) = {}
  BY DEF Keys
<1>5. Keys(f, n + 1) = Keys(f, n) \union {n * RecordSize(f)}
  BY <1>3 DEF Keys
<1>6. \A m \in 0 .. n : Keys(f, m) \subseteq Keys(f, n)
  BY DEF Keys
<1>7. Keys(f, n) \subseteq Nat
  BY <1>2 DEF Keys
<1> QED
  BY <1>4, <1>5, <1>6, <1>7

LEMMA DBCInvInit == DBCInit => DBCInv
<1> SUFFICES ASSUME DBCInit
             PROVE  DBCInv
  OBVIOUS
<1>1. DBCTypes
  <2>1. entries \in [File -> SUBSET Int] /\ directory \in [File -> FileOnDisk]
    BY DEF DBCInit
  <2>2. failed \in BOOLEAN
    BY DEF DBCInit
  <2>3. loading \in 1 .. 4 /\ {record, call, get_ptr} \subseteq Nat
    BY DEF DBCInit
  <2>4. store \in {"opening", "loading", "loaded", "threw", "hung"}
    BY DEF DBCInit
  <2> QED
    BY <2>1, <2>2, <2>3, <2>4 DEF DBCTypes
<1>2. Position /\ StoppedFile
  BY DEF DBCInit, Position, StoppedFile
<1>3. OtherFiles
  BY OrderOfFiles DEF DBCInit, OtherFiles
<1> QED
  BY <1>1, <1>2, <1>3 DEF DBCInv

LEMMA DBCInvOpen ==
    ASSUME DBCInv, open_file
    PROVE  DBCInv'
<1>1. /\ store = "opening" /\ Current \in File /\ Current' = Current
      /\ Fields[Current] \in Nat \ {0}
      /\ UNCHANGED <<directory, loading, entries>>
  BY FileTypes DEF DBCInv, open_file, Throws, Current
<1>2. entries[Current] = {}
  BY <1>1 DEF DBCInv, DBCTypes, OtherFiles, Current
<1>3. CASE header.valid
  <2>1. store' = "loading" /\ record' = 0 /\ call' = 0 /\ get_ptr' = 0 /\ failed' = FALSE
    BY <1>3 DEF open_file
  <2>2. header.records \in Nat /\ header' = header
    BY <1>1, <1>3, FileTypes, FilesAssumption DEF DBCInv, header
  <2>3. entries'[Current'] = Keys(Current', 0)
    BY <1>1, <1>2, KeysGrow
  <2>4. get_ptr' = record' * RecordSize(Current') + 4 * call'
    BY <1>1, <2>1, EveryLoader DEF AsManyCalls, RecordSize
  <2>5. Position'
    BY <1>1, <1>3, <2>1, <2>2, <2>3, <2>4 DEF Position
  <2>6. DBCTypes'
    <3>1. failed' \in BOOLEAN
      BY <2>1
    <3>2. {record', call', get_ptr'} \subseteq Nat
      BY <2>1
    <3> QED
      BY <1>1, <2>1, <3>1, <3>2 DEF DBCInv, DBCTypes
  <2>7. OtherFiles' /\ StoppedFile'
    BY <1>1, <2>1 DEF DBCInv, OtherFiles, StoppedFile, Keys
  <2> QED
    BY <2>5, <2>6, <2>7 DEF DBCInv
<1>4. CASE ~header.valid
  <2>1. /\ store' = "threw"
        /\ UNCHANGED <<directory, loading, record, call, get_ptr, failed, entries>>
    BY <1>4 DEF open_file, Throws
  <2>2. DBCTypes'
    BY <2>1 DEF DBCInv, DBCTypes
  <2>3. Position' /\ StoppedFile'
    BY <1>1, <1>4, <2>1 DEF Position, StoppedFile, Whole, header
  <2>4. OtherFiles'
    BY <1>1, <2>1 DEF DBCInv, OtherFiles, Keys
  <2> QED
    BY <2>2, <2>3, <2>4 DEF DBCInv
<1> QED
  BY <1>3, <1>4

(* Where a call that reads or skips a field leaves the file.               *)
LEMMA DBCInvMoves ==
    ASSUME DBCInv, Reading, NEW bytes \in Nat, Moves(bytes),
           failed' \in BOOLEAN, Whole(header) => ~failed' /\ bytes = 4,
           entries' = IF call = 0
                      THEN [entries EXCEPT ![Current] =
                                @ \union {IF failed' THEN Undefined ELSE get_ptr}]
                      ELSE entries
    PROVE  DBCInv'
<1> DEFINE F == Fields[Current]
           R == RecordSize(Current)
<1>1. /\ store = "loading" /\ Current \in File /\ Current' = Current
      /\ F \in Nat \ {0} /\ Len(Calls[Current]) = F /\ R = 4 * F
      /\ UNCHANGED <<directory, loading, store>>
      /\ header' = header /\ header.valid /\ header.records \in Nat
  <2>1. store = "loading" /\ UNCHANGED <<directory, loading, store>>
    BY DEF Reading, Moves
  <2>2. Current' = Current
    BY <2>1 DEF Current
  <2>3. header' = header
    BY <2>1, <2>2 DEF header
  <2>4. Current \in File /\ F \in Nat \ {0} /\ Len(Calls[Current]) = F /\ R = 4 * F
    BY FileTypes DEF DBCInv
  <2>5. header.valid
    BY <2>1 DEF DBCInv, Position
  <2>6. header.records \in Nat
    BY <2>4, <2>5, FileTypes, FilesAssumption DEF DBCInv
  <2> QED
    BY <2>1, <2>2, <2>3, <2>4, <2>5, <2>6
<1>2. record \in Nat /\ record < header.records /\ call \in 0 .. F - 1
  BY DEF Reading, DBCInv, DBCTypes, Position
<1>3. Whole(header) =>
        /\ get_ptr = record * R + 4 * call
        /\ entries[Current] = Keys(Current, IF call = 0 THEN record ELSE record + 1)
  BY <1>1 DEF DBCInv, Position
<1>4. /\ get_ptr \in Nat /\ get_ptr' = IF failed' THEN get_ptr ELSE get_ptr + bytes
      /\ call' = (call + 1) % F
      /\ record' = IF call' = 0 THEN record + 1 ELSE record
  BY <1>1 DEF Moves, DBCInv, DBCTypes
<1> HIDE DEF F, R
<1>5. record * R \in Nat /\ (record + 1) * R = record * R + R
  BY <1>1, <1>2
<1>6. IF call + 1 = F THEN call' = 0 ELSE call' = call + 1
  BY <1>1, <1>2, <1>4
<1>7. /\ record' \in 0 .. header.records /\ call' \in 0 .. F - 1
      /\ record' = header.records => call' = 0
      /\ Whole(header) => get_ptr' = record' * R + 4 * call'
  <2>1. CASE call + 1 = F
    <3>1. call' = 0 /\ record' = record + 1
      BY <2>1, <1>4, <1>6
    <3>2. Whole(header) => get_ptr' = (record + 1) * R
      BY <2>1, <1>1, <1>2, <1>3, <1>4, <1>5
    <3>3. Whole(header) => get_ptr' = record' * R + 4 * call'
      BY <3>1, <3>2, <1>1, <1>2, <1>5
    <3> QED
      BY <3>1, <3>3, <1>1, <1>2
  <2>2. CASE call + 1 # F
    <3>1. call' = call + 1 /\ call' # 0 /\ record' = record
      BY <2>2, <1>2, <1>4, <1>6
    <3>2. Whole(header) => get_ptr' = record' * R + 4 * call'
      BY <3>1, <1>1, <1>2, <1>3, <1>4, <1>5
    <3> QED
      BY <3>1, <3>2, <2>2, <1>1, <1>2
  <2> QED
    BY <2>1, <2>2
<1>8. Whole(header) => entries'[Current] = Keys(Current, record + 1)
  <2>1. CASE Whole(header) /\ call = 0
    <3>1. get_ptr = record * R /\ ~failed'
      BY <2>1, <1>3, <1>5
    <3>2. entries'[Current] = Keys(Current, record) \union {record * R}
      BY <2>1, <3>1, <1>1, <1>3 DEF DBCInv, DBCTypes
    <3> QED
      BY <3>2, <1>1, <1>2, KeysGrow DEF R
  <2>2. CASE Whole(header) /\ call # 0
    BY <2>2, <1>3
  <2> QED
    BY <2>1, <2>2
<1>9. Whole(header) =>
          entries'[Current'] = Keys(Current', IF call' = 0 THEN record' ELSE record' + 1)
  BY <1>1, <1>4, <1>8
<1>10. DBCTypes'
  <2>1. (IF failed' THEN Undefined ELSE get_ptr) \in Int
    BY <1>4 DEF Undefined
  <2>2. entries' \in [File -> SUBSET Int]
    BY <2>1, <1>1 DEF DBCInv, DBCTypes
  <2>3. {record', call', get_ptr'} \subseteq Nat
    BY <1>1, <1>2, <1>4, <1>7
  <2> QED
    BY <1>1, <2>2, <2>3 DEF DBCInv, DBCTypes
<1>11. Position'
  <2>1. RecordSize(Current') = R
    BY <1>1 DEF R
  <2> QED
    BY <2>1, <1>1, <1>7, <1>9 DEF Position, F
<1>12. OtherFiles'
  <2>1. \A f \in File : f # Current => entries'[f] = entries[f]
    BY <1>1 DEF DBCInv, DBCTypes
  <2>2. ASSUME NEW i \in 1 .. 4, i # loading
        PROVE  entries'[LoadOrder[i]] = entries[LoadOrder[i]]
    BY <2>1, <2>2, OrderOfFiles DEF DBCInv, DBCTypes, Current
  <2>3. ASSUME NEW i \in 1 .. 4
        PROVE  /\ (Whole(directory[LoadOrder[i]]) /\ (i < loading \/ store = "loaded") =>
                      entries[LoadOrder[i]] = Keys(LoadOrder[i], directory[LoadOrder[i]].records))'
               /\ (i > loading \/ (i = loading /\ store = "opening")
                      => entries[LoadOrder[i]] = {})'
    <3>1. CASE i = loading
      BY <3>1, <1>1 DEF DBCInv, DBCTypes
    <3>2. CASE i # loading
      <4>1. (Keys(LoadOrder[i], directory[LoadOrder[i]].records))'
                = Keys(LoadOrder[i], directory[LoadOrder[i]].records)
        BY <1>1 DEF Keys
      <4> QED
        BY <3>2, <4>1, <1>1, <2>2 DEF DBCInv, OtherFiles
    <3> QED
      BY <3>1, <3>2
  <2> QED
    BY <2>3 DEF OtherFiles
<1>13. StoppedFile'
  BY <1>1 DEF StoppedFile
<1> QED
  BY <1>10, <1>11, <1>12, <1>13 DEF DBCInv

LEMMA DBCInvRead ==
    ASSUME DBCInv, read_uint32 \/ skip_field \/ read_string
    PROVE  DBCInv'
<1>1. Reading /\ Current \in File /\ header.valid /\ header.field_size \in Nat /\ failed \in BOOLEAN
  BY FileTypes DEF read_uint32, skip_field, read_string, Reading, DBCInv, DBCTypes, Position
<1>2. call = 0 => NextCall = "read_uint32"
  BY FileTypes DEF DBCInv, NextCall
<1>3. Whole(header) => ~failed /\ ~data_may_end /\ ~string_may_end /\ header.field_size = 4
  BY <1>1 DEF Whole, data_may_end, string_may_end, DBCInv, Position, Reading
<1>4. /\ failed' \in BOOLEAN /\ (Whole(header) => ~failed')
      /\ entries' = IF call = 0
                    THEN [entries EXCEPT ![Current] =
                              @ \union {IF failed' THEN Undefined ELSE get_ptr}]
                    ELSE entries
  <2>1. CASE read_uint32
    BY <1>1, <1>3, <2>1 DEF read_uint32
  <2>2. CASE skip_field
    BY <1>1, <1>2, <1>3, <2>2 DEF skip_field
  <2>3. CASE read_string
    BY <1>1, <1>2, <1>3, <2>3 DEF read_string
  <2> QED
    BY <2>1, <2>2, <2>3
<1>5. CASE Moves(4)
  BY <1>1, <1>4, <1>5, DBCInvMoves
<1>6. CASE Moves(header.field_size)
  BY <1>1, <1>3, <1>4, <1>6, DBCInvMoves
<1> QED
  BY <1>5, <1>6 DEF read_uint32, skip_field, read_string

(* A string that cannot be read ends the loading, and so does a file that  *)
(* was read.                                                               *)
LEMMA DBCInvStops ==
    ASSUME DBCInv, read_string_throws \/ read_string_hangs
    PROVE  DBCInv'
<1>1. /\ store = "loading" /\ store' \in {"threw", "hung"} /\ Current' = Current
      /\ UNCHANGED <<directory, loading, record, call, get_ptr, failed, entries>>
      /\ header' = header /\ Current \in File
  BY FileTypes DEF read_string_throws, read_string_hangs, Throws, Reading, DBCInv, Current, header
<1>2. Whole(header) => entries[Current] \subseteq Keys(Current, header.records)
  <2>1. /\ header.records \in Nat /\ record \in 0 .. header.records
        /\ record = header.records => call = 0
        /\ Whole(header) =>
               entries[Current] = Keys(Current, IF call = 0 THEN record ELSE record + 1)
    BY <1>1, FileTypes, FilesAssumption DEF DBCInv, Position
  <2> QED
    BY <2>1, <1>1, KeysGrow
<1> QED
  BY <1>1, <1>2 DEF DBCInv, DBCTypes, Position, OtherFiles, StoppedFile

LEMMA DBCInvClose ==
    ASSUME DBCInv, close_file
    PROVE  DBCInv'
<1>1. /\ store = "loading" /\ record = header.records /\ Current \in File
      /\ UNCHANGED <<directory, record, call, get_ptr, failed, entries>>
      /\ IF loading < 4 THEN store' = "opening" /\ loading' = loading + 1
                        ELSE store' = "loaded" /\ UNCHANGED loading
  BY FileTypes, OrderOfFiles DEF close_file, DBCInv
<1>2. Whole(header) => entries[Current] = Keys(Current, header.records)
  BY <1>1 DEF DBCInv, Position
<1>3. DBCTypes'
  BY <1>1 DEF DBCInv, DBCTypes
<1>4. OtherFiles'
  BY <1>1, <1>2 DEF DBCInv, DBCTypes, OtherFiles, Current, header
<1> QED
  BY <1>1, <1>3, <1>4 DEF DBCInv, Position, StoppedFile

LEMMA DBCInvStep == DBCInv /\ [DBCNext]_dbcVars => DBCInv'
<1>1. ASSUME DBCInv, UNCHANGED dbcVars
      PROVE  DBCInv'
  BY <1>1 DEF dbcVars, DBCInv, DBCTypes, Position, OtherFiles, StoppedFile, Current, header
<1> QED
  BY <1>1, DBCInvOpen, DBCInvRead, DBCInvStops, DBCInvClose DEF DBCNext

LEMMA AlignedFiles == DBCInv => RecordsAligned
<1> SUFFICES ASSUME DBCInv, NEW i \in 1 .. 4
             PROVE  LET f == LoadOrder[i]
                        file == directory[f]
                    IN  Whole(file) =>
                            /\ entries[f] \subseteq Keys(f, file.records)
                            /\ i < loading \/ store = "loaded" =>
                                   entries[f] = Keys(f, file.records)
  BY OrderOfFiles DEF RecordsAligned
<1> DEFINE f == LoadOrder[i]
<1>1. f \in File /\ loading \in 1 .. 4
  BY OrderOfFiles DEF DBCInv, DBCTypes
<1>2. Whole(directory[f]) /\ (i < loading \/ store = "loaded") =>
          entries[f] = Keys(f, directory[f].records)
  BY DEF DBCInv, OtherFiles
<1>3. i > loading \/ (i = loading /\ store = "opening") => entries[f] = {}
  BY DEF DBCInv, OtherFiles
<1>4. CASE i = loading /\ store \in {"threw", "hung"}
  BY <1>2, <1>4 DEF DBCInv, StoppedFile, Current, header
<1>5. CASE i = loading /\ store = "loading"
  <2>1. /\ header.records \in Nat /\ record \in 0 .. header.records
        /\ record = header.records => call = 0
        /\ Whole(header) =>
               entries[Current] = Keys(Current, IF call = 0 THEN record ELSE record + 1)
        /\ Current = f /\ header = directory[f]
    BY <1>5, FileTypes, FilesAssumption DEF DBCInv, Position, Current
  <2>2. Whole(directory[f]) => entries[f] \subseteq Keys(f, directory[f].records)
    BY <2>1, <1>1, KeysGrow
  <2> QED
    BY <2>2, <1>2
<1> QED
  BY <1>1, <1>2, <1>3, <1>4, <1>5 DEF DBCInv, DBCTypes

-----------------------------------------------------------------------------
(* The multimap of the service manager.                                    *)

Entry == [kind : Service, pid : Pid]

Pids(entries_) == {entries_[i].pid : i \in 1 .. Len(entries_)}

(* Entries are ordered by kind and name different processes of the kind.   *)
WellFormed(map, kinds) ==
    /\ map \in Seq(Entry)
    /\ \A i, j \in 1 .. Len(map) : i < j => map[i].kind <= map[j].kind
    /\ \A i, j \in 1 .. Len(map) : map[i].pid = map[j].pid => i = j
    /\ \A i \in 1 .. Len(map) : map[i].kind = kinds[map[i].pid]

(* A set of positions that holds all positions before its members begins   *)
(* at one and has no gap.                                                  *)
LEMMA WithoutGap ==
    ASSUME NEW n \in Nat, NEW A \in SUBSET (1 .. n), \A i \in A : 1 .. i \subseteq A
    PROVE  Cardinality(A) \in 0 .. n /\ A = 1 .. Cardinality(A)
<1>1. IsFiniteSet(1 .. n) /\ Cardinality(1 .. n) = n
  BY FS_Interval
<1>2. IsFiniteSet(A) /\ Cardinality(A) <= n /\ Cardinality(A) \in Nat
  BY <1>1, FS_Subset, FS_CardinalityType
<1>3. ASSUME NEW k \in A
      PROVE  k <= Cardinality(A)
  <2>1. Cardinality(1 .. k) = k /\ IsFiniteSet(1 .. k)
    BY FS_Interval
  <2> QED
    BY <1>2, <2>1, FS_Subset
<1>4. ASSUME NEW k \in 1 .. n, k \notin A
      PROVE  Cardinality(A) < k
  <2>1. Cardinality(1 .. k - 1) = k - 1 /\ IsFiniteSet(1 .. k - 1)
    BY FS_Interval
  <2>2. A \subseteq 1 .. k - 1
    BY <1>4
  <2>3. Cardinality(A) <= Cardinality(1 .. k - 1)
    BY <2>1, <2>2, FS_Subset
  <2> QED
    BY <1>2, <2>1, <2>3
<1>5. \A k \in 1 .. n : k \in A <=> k <= Cardinality(A)
  BY <1>2, <1>3, <1>4
<1>6. ASSUME NEW k \in A
      PROVE  k \in 1 .. Cardinality(A)
  <2>1. k \in 1 .. n
    OBVIOUS
  <2> QED
    BY <1>2, <1>5, <2>1
<1>7. ASSUME NEW k \in 1 .. Cardinality(A)
      PROVE  k \in A
  <2>1. k \in 1 .. n
    BY <1>2
  <2> QED
    BY <1>2, <1>5, <2>1
<1>8. A = 1 .. Cardinality(A)
  BY <1>6, <1>7
<1>9. Cardinality(A) \in 0 .. n
  BY <1>2
<1> QED
  BY <1>8, <1>9

(* Two sequences in a row, by positions.                                   *)
LEMMA Joined ==
    ASSUME NEW S, NEW s \in Seq(S), NEW t \in Seq(S), NEW m, NEW n, Len(s) = m, Len(t) = n
    PROVE  /\ s \o t \in Seq(S) /\ Len(s \o t) = m + n
           /\ \A i \in 1 .. m : (s \o t)[i] = s[i]
           /\ \A i \in 1 .. n : (s \o t)[m + i] = t[i]
<1>1. m \in Nat /\ n \in Nat
  OBVIOUS
<1>2. /\ s \o t \in Seq(S)
      /\ Len(s \o t) = Len(s) + Len(t)
      /\ \A i \in 1 .. Len(s) + Len(t) : (s \o t)[i] = IF i <= Len(s) THEN s[i] ELSE t[i - Len(s)]
  BY ConcatProperties
<1>3. \A i \in 1 .. n : m + i \in 1 .. m + n /\ ~(m + i <= m) /\ (m + i) - m = i
  BY <1>1
<1>4. \A i \in 1 .. m : i \in 1 .. m + n /\ i <= m
  BY <1>1
<1> QED
  BY <1>2, <1>3, <1>4

(* The entries of a map are as many as the processes they name.            *)
LEMMA PidsCounted ==
    ASSUME NEW map, NEW kinds, WellFormed(map, kinds)
    PROVE  Cardinality(Pids(map)) = Len(map)
<1> DEFINE f == [i \in 1 .. Len(map) |-> map[i].pid]
<1>1. Len(map) \in Nat /\ IsFiniteSet(1 .. Len(map)) /\ Cardinality(1 .. Len(map)) = Len(map)
  <2>1. Len(map) \in Nat
    BY DEF WellFormed
  <2> QED
    BY <2>1, FS_Interval
<1>2. f \in [1 .. Len(map) -> Pids(map)]
  BY DEF Pids
<1>3. \A i, j \in 1 .. Len(map) : f[i] = f[j] => i = j
  BY DEF WellFormed
<1>4. \A p \in Pids(map) : \E i \in 1 .. Len(map) : f[i] = p
  BY DEF Pids
<1> HIDE DEF f
<1>5. f \in Bijection(1 .. Len(map), Pids(map))
  BY <1>2, <1>3, <1>4 DEF Bijection, Injection, Surjection, IsInjective
<1>6. ExistsBijection(1 .. Len(map), Pids(map))
  BY <1>5 DEF ExistsBijection
<1> QED
  BY <1>1, <1>6, FS_Bijection

(* Where multimap::insert puts an entry.                                   *)
LEMMA InsertedPlace ==
    ASSUME WellFormed(svcs, kind), NEW s \in Service
    PROVE  LET ahead == Cardinality({i \in Positions : svcs[i].kind <= s}) IN
           /\ ahead \in 0 .. Len(svcs)
           /\ \A i \in 1 .. Len(svcs) : svcs[i].kind <= s <=> i <= ahead
<1> DEFINE A == {i \in Positions : svcs[i].kind <= s}
<1>1. Positions = 1 .. Len(svcs) /\ Len(svcs) \in Nat
  BY DEF WellFormed, Positions
<1>2. A \in SUBSET (1 .. Len(svcs))
  BY <1>1
<1>3. ASSUME NEW i \in A, NEW j \in 1 .. i
      PROVE  j \in A
  <2>1. j \in 1 .. Len(svcs) /\ i \in 1 .. Len(svcs)
    BY <1>1
  <2>0. svcs[j] \in Entry /\ svcs[i] \in Entry
    BY <2>1 DEF WellFormed
  <2>2. svcs[j].kind \in Int /\ svcs[i].kind \in Int
    BY <2>0 DEF Entry, Service, LOGINSERVER, GAMESERVER
  <2>3. j < i => svcs[j].kind <= svcs[i].kind
    BY <2>1 DEF WellFormed
  <2> QED
    BY <1>1, <2>1, <2>2, <2>3 DEF Service, LOGINSERVER, GAMESERVER
<1>4. Cardinality(A) \in 0 .. Len(svcs) /\ A = 1 .. Cardinality(A)
  <2> HIDE DEF A
  <2> QED
    BY <1>1, <1>2, <1>3, WithoutGap
<1>5. \A i \in 1 .. Len(svcs) : svcs[i].kind <= s <=> i \in A
  BY <1>1
<1> QED
  BY <1>4, <1>5

(* Inserting a process that has no entry yet.                              *)
LEMMA MapInserted ==
    ASSUME WellFormed(svcs, kind), NEW s \in Service, NEW p \in Pid, p \notin Pids(svcs),
           kind \in [Pid -> Service]
    PROVE  LET map == Inserted(s, p) IN
           /\ WellFormed(map, [kind EXCEPT ![p] = s])
           /\ Len(map) = Len(svcs) + 1
           /\ Pids(map) = Pids(svcs) \union {p}
           /\ \A i \in 1 .. Len(svcs) : svcs[i].kind <= s => map[i] = svcs[i]
<1> DEFINE ahead == Cardinality({i \in Positions : svcs[i].kind <= s})
           new == [kind |-> s, pid |-> p]
           n == Len(svcs)
           front == SubSeq(svcs, 1, ahead)
           back == SubSeq(svcs, ahead + 1, n)
           middle == front \o <<new>>
           map == middle \o back
<1>1. Inserted(s, p) = map
  BY DEF Inserted
<1>2. ahead \in 0 .. n /\ \A i \in 1 .. n : svcs[i].kind <= s <=> i <= ahead
  BY InsertedPlace
<1>3. n \in Nat /\ svcs \in Seq(Entry) /\ \A i \in 1 .. n : svcs[i] \in Entry
  BY DEF WellFormed
<1> HIDE DEF ahead
<1>4. new \in Entry
  BY DEF Entry
<1>5. /\ front \in Seq(Entry) /\ Len(front) = ahead
      /\ \A i \in 1 .. ahead : front[i] = svcs[i]
  BY <1>2, <1>3, SubSeqProperties
<1>6. /\ back \in Seq(Entry) /\ Len(back) = n - ahead
      /\ \A i \in 1 .. n - ahead : back[i] = svcs[ahead + i]
  BY <1>2, <1>3, SubSeqProperties
<1> HIDE DEF front, back, n, new
<1>0. ahead \in 0 .. n /\ n \in Nat
  BY <1>2, <1>3
<1>7. /\ middle \in Seq(Entry) /\ Len(middle) = ahead + 1
      /\ \A i \in 1 .. ahead : middle[i] = svcs[i]
      /\ middle[ahead + 1] = new
  <2>1. <<new>> \in Seq(Entry) /\ Len(<<new>>) = 1 /\ <<new>>[1] = new
    BY <1>4
  <2> QED
    BY <1>5, <2>1, Joined
<1> HIDE DEF middle
<1>8. /\ map \in Seq(Entry) /\ Len(map) = (ahead + 1) + (n - ahead)
      /\ \A i \in 1 .. ahead + 1 : map[i] = middle[i]
      /\ \A i \in 1 .. n - ahead : map[(ahead + 1) + i] = back[i]
  BY <1>6, <1>7, Joined
<1> HIDE DEF map
<1>9. /\ Len(map) = n + 1
      /\ \A i \in 1 .. ahead : map[i] = svcs[i]
      /\ map[ahead + 1] = new
      /\ \A i \in ahead + 2 .. n + 1 : map[i] = svcs[i - 1] /\ i - 1 \in 1 .. n
  <2>1. Len(map) = n + 1
    BY <1>2, <1>3, <1>8
  <2>2. ASSUME NEW i \in ahead + 2 .. n + 1
        PROVE  map[i] = svcs[i - 1] /\ i - 1 \in 1 .. n
    <3>1. PICK k \in 1 .. n - ahead : i = (ahead + 1) + k /\ i - 1 = ahead + k
      <4>1. i - ahead - 1 \in 1 .. n - ahead /\ i = (ahead + 1) + (i - ahead - 1)
            /\ i - 1 = ahead + (i - ahead - 1)
        BY <1>0
      <4> QED
        BY <4>1
    <3>2. i - 1 \in 1 .. n
      BY <1>2, <1>3
    <3> QED
      BY <1>6, <1>8, <3>1, <3>2
  <2>3. \A i \in 1 .. ahead + 1 : i = ahead + 1 \/ i \in 1 .. ahead
    BY <1>2, <1>3
  <2>4. ahead + 1 \in 1 .. ahead + 1 /\ \A i \in 1 .. ahead : i \in 1 .. ahead + 1
    BY <1>2, <1>3
  <2> QED
    BY <1>7, <1>8, <2>1, <2>2, <2>4
<1> DEFINE old(i) == IF i <= ahead THEN i ELSE i - 1
<1>10. \A i \in 1 .. n + 1 : i = ahead + 1 \/ (old(i) \in 1 .. n /\ map[i] = svcs[old(i)])
  BY <1>2, <1>3, <1>9
<1>11. new.kind = s /\ new.pid = p
  BY DEF new
<1>12. \A i \in 1 .. n : svcs[i].pid # p /\ svcs[i].kind \in Int /\ svcs[i].pid \in Pid
  BY <1>3 DEF Pids, n, Entry, Service, LOGINSERVER, GAMESERVER
<1>13. ASSUME NEW i \in 1 .. n + 1, NEW j \in 1 .. n + 1
       PROVE  /\ i < j => map[i].kind <= map[j].kind
              /\ map[i].pid = map[j].pid => i = j
  <2>1. /\ \A k, l \in 1 .. n : k < l => svcs[k].kind <= svcs[l].kind
        /\ \A k, l \in 1 .. n : svcs[k].pid = svcs[l].pid => k = l
    BY DEF WellFormed, n
  <2>2. s \in Int
    BY DEF Service, LOGINSERVER, GAMESERVER
  <2> DEFINE there(k) == k # ahead + 1
  <2>3. /\ there(i) => old(i) \in 1 .. n /\ map[i] = svcs[old(i)]
        /\ there(j) => old(j) \in 1 .. n /\ map[j] = svcs[old(j)]
        /\ ~there(i) => map[i] = new
        /\ ~there(j) => map[j] = new
    BY <1>9, <1>10
  <2>4. CASE there(i) /\ there(j)
    <3>1. (old(i) = old(j) => i = j) /\ (i < j => old(i) < old(j))
      BY <2>4, <1>2, <1>3
    <3> HIDE DEF old, there
    <3> QED
      BY <2>1, <2>3, <2>4, <3>1
  <2>5. CASE there(i) /\ ~there(j)
    <3>1. i < j => old(i) <= ahead
      BY <2>5, <1>2, <1>3
    <3> HIDE DEF old, there
    <3> QED
      BY <1>2, <1>11, <1>12, <2>3, <2>5, <3>1
  <2>6. CASE ~there(i) /\ there(j)
    <3>1. i < j => ~(old(j) <= ahead)
      BY <2>6, <1>2, <1>3
    <3> HIDE DEF old, there
    <3>2. i < j => ~(svcs[old(j)].kind <= s)
      BY <1>2, <2>3, <2>6, <3>1
    <3> QED
      BY <1>11, <1>12, <2>2, <2>3, <2>6, <3>2
  <2>7. CASE ~there(i) /\ ~there(j)
    BY <2>2, <2>3, <2>7, <1>11
  <2> QED
    BY <2>4, <2>5, <2>6, <2>7
<1>14. ASSUME NEW i \in 1 .. n + 1
       PROVE  map[i].kind = [kind EXCEPT ![p] = s][map[i].pid]
  <2>1. \A k \in 1 .. n : svcs[k].kind = kind[svcs[k].pid]
    BY DEF WellFormed, n
  <2> QED
    BY <1>9, <1>10, <1>11, <1>12, <2>1
<1>15. WellFormed(map, [kind EXCEPT ![p] = s])
  BY <1>3, <1>8, <1>9, <1>13, <1>14 DEF WellFormed
<1>16. Pids(map) = Pids(svcs) \union {p}
  <2>1. \A i \in 1 .. n + 1 : map[i].pid \in Pids(svcs) \union {p}
    BY <1>9, <1>10, <1>11 DEF Pids, n
  <2>2. ASSUME NEW i \in 1 .. n
        PROVE  svcs[i].pid \in Pids(map)
    <3>1. i \in 1 .. n + 1 /\ i + 1 \in 1 .. n + 1
      BY <1>3
    <3>2. svcs[i] = IF i <= ahead THEN map[i] ELSE map[i + 1]
      BY <1>2, <1>3, <1>9
    <3> QED
      BY <3>1, <3>2, <1>9 DEF Pids
  <2>3. p \in Pids(map)
    BY <1>2, <1>3, <1>8, <1>9, <1>11 DEF Pids
  <2> QED
    BY <2>1, <2>2, <2>3, <1>9 DEF Pids, n
<1>17. \A i \in 1 .. n : svcs[i].kind <= s => map[i] = svcs[i]
  BY <1>2, <1>9
<1> QED
  BY <1>1, <1>9, <1>15, <1>16, <1>17 DEF n

(* Erasing an entry.                                                       *)
LEMMA MapErased ==
    ASSUME NEW map, NEW kinds, WellFormed(map, kinds), NEW i \in 1 .. Len(map)
    PROVE  /\ WellFormed(Erased(map, i), kinds)
           /\ Len(Erased(map, i)) = Len(map) - 1
           /\ Pids(Erased(map, i)) = Pids(map) \ {map[i].pid}
<1> DEFINE n == Len(map)
           front == SubSeq(map, 1, i - 1)
           back == SubSeq(map, i + 1, n)
           rest == front \o back
<1>1. Erased(map, i) = rest
  BY DEF Erased
<1>2. n \in Nat /\ map \in Seq(Entry) /\ \A k \in 1 .. n : map[k] \in Entry
  BY DEF WellFormed
<1>3. /\ front \in Seq(Entry) /\ Len(front) = i - 1
      /\ \A k \in 1 .. i - 1 : front[k] = map[k]
  BY <1>2, SubSeqProperties
<1>4. /\ back \in Seq(Entry) /\ Len(back) = n - i
      /\ \A k \in 1 .. n - i : back[k] = map[i + k]
  BY <1>2, SubSeqProperties
<1> HIDE DEF front, back
<1>5. /\ rest \in Seq(Entry) /\ Len(rest) = (i - 1) + (n - i)
      /\ \A k \in 1 .. i - 1 : rest[k] = front[k]
      /\ \A k \in 1 .. n - i : rest[(i - 1) + k] = back[k]
  <2>1. PICK ahead, behind : ahead = i - 1 /\ behind = n - i
    OBVIOUS
  <2>3. Len(front) = ahead /\ Len(back) = behind /\ front \in Seq(Entry) /\ back \in Seq(Entry)
    BY <1>3, <1>4, <2>1
  <2>2. /\ rest \in Seq(Entry) /\ Len(rest) = ahead + behind
        /\ \A k \in 1 .. ahead : rest[k] = front[k]
        /\ \A k \in 1 .. behind : rest[ahead + k] = back[k]
    BY <2>3, Joined
  <2> QED
    BY <2>1, <2>2
<1> HIDE DEF rest
<1>10. Len(rest) = n - 1
  BY <1>2, <1>5
<1> DEFINE old(k) == IF k < i THEN k ELSE k + 1
<1>6. ASSUME NEW k \in 1 .. n - 1
      PROVE  old(k) \in 1 .. n /\ old(k) # i /\ rest[k] = map[old(k)]
  <2>1. CASE k < i
    <3>1. k \in 1 .. i - 1 /\ old(k) = k /\ k \in 1 .. n
      BY <1>2, <2>1
    <3> QED
      BY <1>2, <1>3, <1>5, <2>1, <3>1
  <2>2. CASE ~(k < i)
    <3>1. PICK l \in 1 .. n - i : k = (i - 1) + l /\ k + 1 = i + l
      <4>1. k - i + 1 \in 1 .. n - i /\ k = (i - 1) + (k - i + 1) /\ k + 1 = i + (k - i + 1)
        BY <1>2, <2>2
      <4> QED
        BY <4>1
    <3>2. old(k) = k + 1 /\ k + 1 \in 1 .. n /\ k + 1 # i
      BY <1>2, <2>2
    <3> QED
      BY <1>4, <1>5, <3>1, <3>2
  <2> QED
    BY <2>1, <2>2
<1>7. \A k, l \in 1 .. n - 1 : (old(k) = old(l) => k = l) /\ (k < l => old(k) < old(l))
  BY <1>2
<1>8. WellFormed(rest, kinds)
  <2> HIDE DEF old
  <2>1. /\ \A k, l \in 1 .. n : k < l => map[k].kind <= map[l].kind
        /\ \A k, l \in 1 .. n : map[k].pid = map[l].pid => k = l
        /\ \A k \in 1 .. n : map[k].kind = kinds[map[k].pid]
    BY DEF WellFormed
  <2>2. ASSUME NEW k \in 1 .. n - 1, NEW l \in 1 .. n - 1
        PROVE  /\ k < l => rest[k].kind <= rest[l].kind
               /\ rest[k].pid = rest[l].pid => k = l
    <3>1. /\ old(k) \in 1 .. n /\ rest[k] = map[old(k)]
          /\ old(l) \in 1 .. n /\ rest[l] = map[old(l)]
      BY <1>6
    <3>2. k < l => map[old(k)].kind <= map[old(l)].kind
      BY <1>7, <2>1, <3>1
    <3>3. map[old(k)].pid = map[old(l)].pid => k = l
      BY <1>7, <2>1, <3>1
    <3> QED
      BY <3>1, <3>2, <3>3
  <2>3. ASSUME NEW k \in 1 .. n - 1
        PROVE  rest[k].kind = kinds[rest[k].pid]
    BY <1>6, <2>1
  <2>4. rest \in Seq(Entry)
    BY <1>5
  <2> QED
    BY <1>10, <2>2, <2>3, <2>4 DEF WellFormed
<1>9. Pids(rest) = Pids(map) \ {map[i].pid}
  <2>1. \A k \in 1 .. n - 1 : rest[k].pid \in Pids(map) \ {map[i].pid}
    <3> HIDE DEF old
    <3> QED
      BY <1>6 DEF Pids, WellFormed
  <2>2. ASSUME NEW k \in 1 .. n, k # i
        PROVE  map[k].pid \in Pids(rest)
    <3>1. \E l \in 1 .. n - 1 : old(l) = k
      <4>1. CASE k < i
        BY <4>1, <1>2
      <4>2. CASE k > i
        <5>1. k - 1 \in 1 .. n - 1 /\ old(k - 1) = k
          BY <4>2, <1>2
        <5> QED
          BY <5>1
      <4> QED
        BY <4>1, <4>2, <2>2
    <3> HIDE DEF old
    <3> QED
      BY <3>1, <1>10, <1>6 DEF Pids
  <2> QED
    BY <2>1, <2>2, <1>10 DEF Pids
<1> QED
  BY <1>1, <1>10, <1>8, <1>9

-----------------------------------------------------------------------------
(* No second copy of a service.                                            *)

KnownOf(s) == {p \in Pids(svcs) : kind[p] = s}

ManagerTypes ==
    /\ wanted \in [Service -> 0 .. MaxWanted]
    /\ WellFormed(svcs, kind)
    /\ process \in [Pid -> {"none", "runs", "zombie", "gone"}]
    /\ kind \in [Pid -> Service]
    /\ iter \in 0 .. Len(svcs)
    /\ manager \in {"starting", "waits", "polls", "hung"}
    /\ leaked \in 0 .. OpenMax
    /\ spawn_failures \in 0 .. MaxSpawnFailures
    /\ manager = "polls" <=> iter # 0
    /\ Started = 1 .. Cardinality(Started)
    /\ Pids(svcs) \subseteq Started

(* A service has no more entries than the arguments ask for, and a process *)
(* that runs has one.                                                      *)
EntriesWanted == \A s \in Service : Cardinality(KnownOf(s)) <= wanted[s]

AllRegisteredAtStart == manager = "starting" => Pids(svcs) = Started

RunningKnown ==
    leaked < OpenMax => \A p \in Pid : process[p] = "runs" => p \in Pids(svcs)

ManagerInv == ManagerTypes /\ EntriesWanted /\ AllRegisteredAtStart /\ RunningKnown

LEMMA PidsFinite == IsFiniteSet(Pid) /\ Pid \subseteq Nat
BY FS_Interval, ManagerAssumption DEF Pid

LEMMA MapDomain ==
    ASSUME ManagerTypes
    PROVE  Positions = 1 .. Len(svcs) /\ Len(svcs) \in Nat /\ Registered = Pids(svcs)
BY DEF ManagerTypes, WellFormed, Positions, Registered, Pids

LEMMA StartedFinite ==
    ASSUME ManagerTypes
    PROVE  /\ IsFiniteSet(Started) /\ Cardinality(Started) \in Nat
           /\ Started \subseteq Pid /\ IsFiniteSet(Pids(svcs))
           /\ \A s : IsFiniteSet(KnownOf(s)) /\ Cardinality(KnownOf(s)) \in Nat
<1>1. Started \subseteq Pid
  BY DEF Started
<1>2. IsFiniteSet(Started) /\ Cardinality(Started) \in Nat
  BY <1>1, PidsFinite, FS_Subset, FS_CardinalityType
<1>3. IsFiniteSet(Pids(svcs))
  BY <1>2, FS_Subset DEF ManagerTypes
<1>4. ASSUME NEW s
      PROVE  IsFiniteSet(KnownOf(s)) /\ Cardinality(KnownOf(s)) \in Nat
  <2>1. KnownOf(s) \subseteq Pids(svcs)
    BY DEF KnownOf
  <2> QED
    BY <2>1, <1>3, FS_Subset, FS_CardinalityType
<1> QED
  BY <1>1, <1>2, <1>3, <1>4

(* A process that is started has the next number.                          *)
LEMMA NextProcess ==
    ASSUME ManagerTypes, NEW s \in Service, NEW p \in Pid, Spawns(s, p)
    PROVE  /\ p \notin Started /\ p \notin Pids(svcs)
           /\ Started' = Started \union {p} /\ (Started = 1 .. Cardinality(Started))'
           /\ process' = [process EXCEPT ![p] = "runs"]
           /\ kind' = [kind EXCEPT ![p] = s]
           /\ process' \in [Pid -> {"none", "runs", "zombie", "gone"}]
           /\ kind' \in [Pid -> Service]
<1>1. /\ p = Cardinality(Started) + 1
      /\ process' = [process EXCEPT ![p] = "runs"]
      /\ kind' = [kind EXCEPT ![p] = s]
  BY DEF Spawns
<1>2. Cardinality(Started) \in Nat /\ Started = 1 .. Cardinality(Started) /\ IsFiniteSet(Started)
  BY StartedFinite DEF ManagerTypes
<1>3. p \notin Started
  BY <1>1, <1>2
<1>4. Started' = Started \union {p}
  BY <1>1 DEF Started, ManagerTypes
<1>5. Cardinality(Started') = Cardinality(Started) + 1
  BY <1>2, <1>3, <1>4, FS_AddElement
<1>6. Started' = 1 .. Cardinality(Started) + 1
  BY <1>1, <1>2, <1>4
<1> QED
  BY <1>1, <1>3, <1>4, <1>5, <1>6 DEF ManagerTypes

(* What moves the loop or ends a process leaves the map alone.             *)
LEMMA ManagerInvQuiet ==
    ASSUME ManagerInv,
           \/ started \/ wait \/ service_is_alive \/ UNCHANGED managerVars
           \/ \E p \in Pid : process_ends(p)
    PROVE  ManagerInv'
<1>1. Positions = 1 .. Len(svcs) /\ Len(svcs) \in Nat
  BY MapDomain DEF ManagerInv
<1>2. UNCHANGED <<wanted, svcs, kind, leaked, spawn_failures>>
  BY DEF started, wait, service_is_alive, managerVars, process_ends
<1>3. /\ process' \in [Pid -> {"none", "runs", "zombie", "gone"}]
      /\ \A p \in Pid : process'[p] = "none" <=> process[p] = "none"
      /\ \A p \in Pid : process'[p] = "runs" => process[p] = "runs"
  <2>1. CASE UNCHANGED process
    BY <2>1 DEF ManagerInv, ManagerTypes
  <2>2. CASE wait
    BY <2>2 DEF wait, ManagerInv, ManagerTypes
  <2>3. ASSUME NEW p \in Pid, process_ends(p)
        PROVE  <1>3!:
    BY <2>3 DEF process_ends, ManagerInv, ManagerTypes
  <2> QED
    BY <2>1, <2>2, <2>3 DEF started, service_is_alive, managerVars
<1>4. Started' = Started
  BY <1>3 DEF Started
<1>5. /\ iter' \in 0 .. Len(svcs)
      /\ manager' \in {"starting", "waits", "polls", "hung"}
      /\ manager' = "polls" <=> iter' # 0
      /\ manager' = "starting" => manager = "starting"
  <2>1. CASE started
    BY <2>1 DEF started, ManagerInv, ManagerTypes
  <2>2. CASE wait
    <3>1. svcs # <<>> => 1 \in 0 .. Len(svcs)
      BY <1>1 DEF ManagerInv, ManagerTypes, WellFormed
    <3> QED
      BY <2>2, <3>1, <1>1 DEF wait, Polling
  <2>3. CASE service_is_alive
    BY <2>3, <1>1 DEF service_is_alive, Continue, ManagerInv, ManagerTypes, Positions
  <2>4. CASE UNCHANGED <<iter, manager>>
    BY <2>4 DEF ManagerInv, ManagerTypes
  <2> QED
    BY <2>1, <2>2, <2>3, <2>4 DEF process_ends, managerVars
<1>6. ManagerTypes'
  BY <1>2, <1>3, <1>4, <1>5 DEF ManagerInv, ManagerTypes
<1>7. EntriesWanted' /\ AllRegisteredAtStart' /\ RunningKnown'
  BY <1>2, <1>3, <1>4, <1>5
     DEF ManagerInv, EntriesWanted, KnownOf, AllRegisteredAtStart, RunningKnown
<1> QED
  BY <1>6, <1>7 DEF ManagerInv

(* The daemons are started: one entry for each, as long as one is wanted.  *)
LEMMA ManagerInvStart ==
    ASSUME ManagerInv, start_services
    PROVE  ManagerInv'
<1>1. PICK s \in Service :
          /\ wanted[s] > Cardinality({p \in Started : kind[p] = s})
          /\ \/ \E p \in Pid : Spawns(s, p) /\ svcs' = Inserted(s, p) /\ UNCHANGED wanted
             \/ SpawnFails /\ wanted' = [wanted EXCEPT ![s] = @ - 1] /\ UNCHANGED svcs
  BY DEF start_services
<1>2. manager = "starting" /\ iter = 0 /\ UNCHANGED <<iter, manager, leaked>>
  BY DEF start_services, ManagerInv, ManagerTypes
<1>3. KnownOf(s) = {p \in Started : kind[p] = s}
  BY <1>2 DEF ManagerInv, AllRegisteredAtStart, KnownOf
<1>4. Cardinality(KnownOf(s)) \in Nat /\ Cardinality(KnownOf(s)) < wanted[s]
      /\ \A r \in Service : wanted[r] \in 0 .. MaxWanted
  BY <1>1, <1>3, StartedFinite DEF ManagerInv, ManagerTypes
<1>5. ASSUME NEW p \in Pid, Spawns(s, p), svcs' = Inserted(s, p), UNCHANGED wanted
      PROVE  ManagerInv'
  <2>1. /\ p \notin Started /\ p \notin Pids(svcs)
        /\ Started' = Started \union {p} /\ (Started = 1 .. Cardinality(Started))'
        /\ process' = [process EXCEPT ![p] = "runs"]
        /\ kind' = [kind EXCEPT ![p] = s]
        /\ process' \in [Pid -> {"none", "runs", "zombie", "gone"}]
        /\ kind' \in [Pid -> Service]
    BY <1>5, NextProcess DEF ManagerInv
  <2>2. /\ WellFormed(svcs', kind') /\ Len(svcs') = Len(svcs) + 1
        /\ Pids(svcs') = Pids(svcs) \union {p}
    BY <1>5, <2>1, MapInserted DEF ManagerInv, ManagerTypes
  <2>3. ManagerTypes'
    <3>1. Len(svcs') \in Nat /\ UNCHANGED spawn_failures
      BY <1>5, <2>2 DEF WellFormed, Spawns
    <3>2. iter' = 0 /\ iter' \in 0 .. Len(svcs')
      BY <1>2, <3>1
    <3>3. Pids(svcs') \subseteq Started'
      BY <2>1, <2>2 DEF ManagerInv, ManagerTypes
    <3>4. Pids(svcs)' = Pids(svcs') /\ WellFormed(svcs, kind)'
      BY <2>2
    <3> QED
      BY <1>2, <1>5, <2>1, <3>1, <3>2, <3>3, <3>4 DEF ManagerInv, ManagerTypes
  <2>4. EntriesWanted'
    <3>1. ASSUME NEW r \in Service
          PROVE  Cardinality(KnownOf(r)') <= wanted[r]
      <4>1. KnownOf(r)' = IF r = s THEN KnownOf(r) \union {p} ELSE KnownOf(r)
        BY <2>1, <2>2, StartedFinite DEF KnownOf, ManagerInv, ManagerTypes
      <4>2. Cardinality(KnownOf(s) \union {p}) <= Cardinality(KnownOf(s)) + 1
        <5>1. IsFiniteSet(KnownOf(s)) /\ Cardinality(KnownOf(s)) \in Nat
          BY StartedFinite DEF ManagerInv
        <5>2. Cardinality(KnownOf(s) \union {p})
                  \in {Cardinality(KnownOf(s)), Cardinality(KnownOf(s)) + 1}
          BY <5>1, FS_AddElement
        <5> QED
          BY <5>1, <5>2
      <4>3. Cardinality(KnownOf(s) \union {p}) <= wanted[s]
        <5>1. Cardinality(KnownOf(s) \union {p}) \in Nat
          BY StartedFinite, FS_AddElement, FS_CardinalityType DEF ManagerInv
        <5> QED
          BY <4>2, <5>1, <1>4
      <4>4. Cardinality(KnownOf(r)) <= wanted[r]
        BY DEF ManagerInv, EntriesWanted
      <4> QED
        BY <4>1, <4>3, <4>4
    <3> QED
      BY <1>5, <3>1 DEF EntriesWanted
  <2>5. AllRegisteredAtStart' /\ RunningKnown'
    BY <1>2, <2>1, <2>2 DEF ManagerInv, ManagerTypes, AllRegisteredAtStart, RunningKnown
  <2> QED
    BY <2>3, <2>4, <2>5 DEF ManagerInv
<1>6. ASSUME SpawnFails, wanted' = [wanted EXCEPT ![s] = @ - 1], UNCHANGED svcs
      PROVE  ManagerInv'
  <2>1. UNCHANGED <<process, kind, svcs>> /\ spawn_failures' \in 0 .. MaxSpawnFailures
    BY <1>6, ManagerAssumption DEF SpawnFails, ManagerInv, ManagerTypes
  <2>2. Started' = Started /\ \A r : KnownOf(r)' = KnownOf(r)
    BY <2>1 DEF Started, KnownOf
  <2>3. wanted' \in [Service -> 0 .. MaxWanted] /\ wanted'[s] = wanted[s] - 1
        /\ \A r \in Service : r # s => wanted'[r] = wanted[r]
    <3>1. wanted[s] - 1 \in 0 .. MaxWanted
      <4>1. wanted[s] \in 0 .. MaxWanted /\ MaxWanted \in Nat
        BY <1>4, ManagerAssumption
      <4>2. wanted[s] # 0
        BY <1>4, <4>1
      <4> QED
        BY <4>1, <4>2
    <3> QED
      BY <3>1, <1>6 DEF ManagerInv, ManagerTypes
  <2>4. \A r \in Service : Cardinality(KnownOf(r)) <= wanted'[r]
    BY <1>4, <2>3 DEF ManagerInv, EntriesWanted
  <2> QED
    BY <1>2, <2>1, <2>2, <2>3, <2>4
       DEF ManagerInv, ManagerTypes, EntriesWanted, AllRegisteredAtStart, RunningKnown
<1> QED
  BY <1>1, <1>5, <1>6

(* What a dead entry leaves behind.                                        *)
LEMMA DeadEntry ==
    ASSUME ManagerInv, manager = "polls", IsDead(svcs[iter].pid),
           leaked' = Leaked(svcs[iter].pid)
    PROVE  /\ iter \in 1 .. Len(svcs) /\ svcs[iter] \in Entry
           /\ svcs[iter].kind = kind[svcs[iter].pid]
           /\ svcs[iter].pid \in Pids(svcs)
           /\ leaked' \in 0 .. OpenMax
           /\ leaked' < OpenMax => leaked < OpenMax /\ process[svcs[iter].pid] # "runs"
<1>1. iter \in 1 .. Len(svcs)
  BY DEF ManagerInv, ManagerTypes, WellFormed
<1>2. svcs[iter] \in Entry /\ svcs[iter].kind = kind[svcs[iter].pid]
  BY <1>1 DEF ManagerInv, ManagerTypes, WellFormed
<1>3. leaked \in 0 .. OpenMax /\ OpenMax \in Nat
  BY ManagerAssumption DEF ManagerInv, ManagerTypes
<1>4. leaked' \in 0 .. OpenMax /\ (leaked' < OpenMax => leaked < OpenMax)
  BY <1>3 DEF Leaked, OpensStat
<1>5. leaked < OpenMax => process[svcs[iter].pid] # "runs"
  BY DEF IsDead, OpensStat
<1>6. svcs[iter].pid \in Pids(svcs)
  BY <1>1 DEF Pids
<1> QED
  BY <1>1, <1>2, <1>4, <1>5, <1>6

(* A service is started again: the new entry is inserted at or behind the  *)
(* old one, which is erased.                                               *)
LEMMA ManagerInvRestart ==
    ASSUME ManagerInv, restart_service
    PROVE  ManagerInv'
<1> DEFINE s == svcs[iter].kind
           q == svcs[iter].pid
<1>1. /\ manager = "polls" /\ UNCHANGED wanted
      /\ IsDead(q) /\ leaked' = Leaked(q)
  BY DEF restart_service
<1>2. PICK p \in Pid :
          /\ Spawns(s, p)
          /\ svcs' = Erased(Inserted(s, p), iter)
          /\ Continue(iter + 1, svcs')
  BY DEF restart_service
<1>3. /\ iter \in 1 .. Len(svcs) /\ s \in Service /\ q \in Pid
      /\ s = kind[q] /\ q \in Pids(svcs)
      /\ leaked' \in 0 .. OpenMax
      /\ leaked' < OpenMax => leaked < OpenMax /\ process[q] # "runs"
  BY <1>1, DeadEntry DEF Entry
<1>4. /\ p \notin Started /\ p \notin Pids(svcs)
      /\ Started' = Started \union {p} /\ (Started = 1 .. Cardinality(Started))'
      /\ process' = [process EXCEPT ![p] = "runs"]
      /\ kind' = [kind EXCEPT ![p] = s]
      /\ process' \in [Pid -> {"none", "runs", "zombie", "gone"}]
      /\ kind' \in [Pid -> Service]
  BY <1>2, <1>3, NextProcess DEF ManagerInv
<1> DEFINE map == Inserted(s, p)
<1>5. /\ WellFormed(map, kind') /\ Len(map) = Len(svcs) + 1
      /\ Pids(map) = Pids(svcs) \union {p} /\ map[iter] = svcs[iter]
  <2>1. s <= s
    BY <1>3 DEF Service, LOGINSERVER, GAMESERVER
  <2>2. WellFormed(svcs, kind) /\ kind \in [Pid -> Service]
    BY DEF ManagerInv, ManagerTypes
  <2>3. /\ WellFormed(map, [kind EXCEPT ![p] = s])
        /\ Len(map) = Len(svcs) + 1
        /\ Pids(map) = Pids(svcs) \union {p}
        /\ \A i \in 1 .. Len(svcs) : svcs[i].kind <= s => map[i] = svcs[i]
    <3> HIDE DEF s
    <3> QED
      BY <1>3, <1>4, <2>2, MapInserted
  <2> QED
    BY <1>3, <1>4, <2>1, <2>3
<1>6. Len(svcs) \in Nat /\ iter \in 1 .. Len(map)
  BY <1>3, <1>5, MapDomain DEF ManagerInv
<1> HIDE DEF map
<1>7. /\ WellFormed(svcs', kind') /\ Len(svcs') = Len(svcs)
      /\ Pids(svcs') = (Pids(svcs) \union {p}) \ {q}
  <2>1. svcs' = Erased(map, iter)
    BY <1>2 DEF map
  <2> QED
    BY <1>5, <1>6, <2>1, MapErased
<1>8. /\ iter' \in 0 .. Len(svcs') /\ manager' \in {"polls", "waits"}
      /\ manager' = "polls" <=> iter' # 0
  <2>1. DOMAIN svcs' = 1 .. Len(svcs)
    BY <1>6, <1>7 DEF WellFormed
  <2> QED
    BY <1>2, <1>3, <1>6, <1>7, <2>1 DEF Continue
<1>9. q # p
  BY <1>3, <1>4
<1>10. ManagerTypes'
  <2>1. UNCHANGED spawn_failures
    BY <1>2 DEF Spawns
  <2>2. Pids(svcs') \subseteq Started'
    BY <1>4, <1>7 DEF ManagerInv, ManagerTypes
  <2> QED
    BY <1>1, <1>3, <1>4, <1>7, <1>8, <2>1, <2>2 DEF ManagerInv, ManagerTypes
<1>11. EntriesWanted'
  <2>1. ASSUME NEW r \in Service
        PROVE  Cardinality(KnownOf(r)') <= wanted[r]
    <3>1. KnownOf(r)' = IF r = s THEN (KnownOf(r) \ {q}) \union {p} ELSE KnownOf(r)
      BY <1>3, <1>4, <1>7, <1>9, StartedFinite DEF KnownOf, ManagerInv, ManagerTypes
    <3>2. r = s => q \in KnownOf(r) /\ p \notin KnownOf(r)
      BY <1>3, <1>4 DEF KnownOf
    <3>3. IsFiniteSet(KnownOf(r)) /\ Cardinality(KnownOf(r)) \in Nat
      BY StartedFinite DEF ManagerInv
    <3>4. r = s => /\ IsFiniteSet(KnownOf(r) \ {q})
                   /\ Cardinality(KnownOf(r) \ {q}) = Cardinality(KnownOf(r)) - 1
      BY <3>2, <3>3, FS_RemoveElement
    <3>5. r = s => Cardinality((KnownOf(r) \ {q}) \union {p}) = Cardinality(KnownOf(r))
      <4>1. r = s => Cardinality((KnownOf(r) \ {q}) \union {p})
                        = Cardinality(KnownOf(r) \ {q}) + 1
        BY <3>2, <3>4, FS_AddElement
      <4> QED
        BY <4>1, <3>3, <3>4
    <3> QED
      BY <3>1, <3>5 DEF ManagerInv, EntriesWanted
  <2> QED
    BY <1>1, <2>1 DEF EntriesWanted
<1>12. AllRegisteredAtStart' /\ RunningKnown'
  BY <1>3, <1>4, <1>7, <1>8 DEF ManagerInv, ManagerTypes, AllRegisteredAtStart, RunningKnown
<1> QED
  BY <1>10, <1>11, <1>12 DEF ManagerInv

(* A spawn fails: the entry is lost, and the loop goes on somewhere.       *)
LEMMA ManagerInvLost ==
    ASSUME ManagerInv, restart_fails
    PROVE  ManagerInv'
<1> DEFINE q == svcs[iter].pid
<1>1. /\ manager = "polls" /\ UNCHANGED wanted
      /\ IsDead(q) /\ leaked' = Leaked(q) /\ SpawnFails
      /\ svcs' = Erased(svcs, iter)
  BY DEF restart_fails
<1>2. /\ iter \in 1 .. Len(svcs) /\ q \in Pids(svcs)
      /\ leaked' \in 0 .. OpenMax
      /\ leaked' < OpenMax => leaked < OpenMax /\ process[q] # "runs"
  BY <1>1, DeadEntry
<1>3. UNCHANGED <<process, kind>> /\ spawn_failures' \in 0 .. MaxSpawnFailures
  BY <1>1, ManagerAssumption DEF SpawnFails, ManagerInv, ManagerTypes
<1>4. /\ WellFormed(svcs', kind) /\ Len(svcs') = Len(svcs) - 1
      /\ Pids(svcs') = Pids(svcs) \ {q}
  BY <1>1, <1>2, MapErased DEF ManagerInv, ManagerTypes
<1>5. /\ iter' \in 0 .. Len(svcs') /\ manager' \in {"polls", "waits", "hung"}
      /\ manager' = "polls" <=> iter' # 0
  <2>1. DOMAIN svcs' = 1 .. Len(svcs') /\ Len(svcs') \in Nat
    BY <1>4 DEF WellFormed
  <2>2. ASSUME NEW i \in Nat \ {0}, Continue(i, svcs')
        PROVE  <1>5!:
    BY <2>1, <2>2 DEF Continue
  <2>3. \/ \E i \in Nat \ {0} : Continue(i, svcs')
        \/ manager' = "hung" /\ iter' = 0
    <3>1. iter + 1 \in Nat \ {0} /\ \A i \in 1 .. Len(svcs) : i \in Nat \ {0}
      BY <1>2
    <3> QED
      BY <3>1 DEF restart_fails
  <2> QED
    BY <2>1, <2>2, <2>3
<1>6. Started' = Started
  BY <1>3 DEF Started
<1>7. ManagerTypes'
  BY <1>1, <1>2, <1>3, <1>4, <1>5, <1>6 DEF ManagerInv, ManagerTypes
<1>8. EntriesWanted'
  <2>1. ASSUME NEW r \in Service
        PROVE  Cardinality(KnownOf(r)') <= wanted[r]
    <3>1. KnownOf(r)' \subseteq KnownOf(r)
      BY <1>3, <1>4 DEF KnownOf
    <3>2. IsFiniteSet(KnownOf(r)) /\ Cardinality(KnownOf(r)) \in Nat
      BY StartedFinite DEF ManagerInv
    <3>3. /\ Cardinality(KnownOf(r)') <= Cardinality(KnownOf(r))
          /\ Cardinality(KnownOf(r)') \in Nat
      BY <3>1, <3>2, FS_Subset, FS_CardinalityType
    <3>4. Cardinality(KnownOf(r)) <= wanted[r] /\ wanted[r] \in 0 .. MaxWanted
      BY DEF ManagerInv, ManagerTypes, EntriesWanted
    <3> QED
      BY <3>2, <3>3, <3>4
  <2> QED
    BY <1>1, <2>1 DEF EntriesWanted
<1>9. AllRegisteredAtStart' /\ RunningKnown'
  BY <1>2, <1>3, <1>4, <1>5 DEF ManagerInv, AllRegisteredAtStart, RunningKnown
<1> QED
  BY <1>7, <1>8, <1>9 DEF ManagerInv

LEMMA ManagerInvInit == ManagerInit => ManagerInv
<1> SUFFICES ASSUME ManagerInit
             PROVE  ManagerInv
  OBVIOUS
<1>1. svcs = <<>> /\ Len(svcs) = 0 /\ Pids(svcs) = {} /\ WellFormed(svcs, kind)
  BY DEF ManagerInit, Pids, WellFormed
<1>2. Started = {} /\ Cardinality(Started) = 0
  BY FS_EmptySet DEF ManagerInit, Started
<1>3. Started = 1 .. Cardinality(Started)
  BY <1>2
<1>4. \A s : KnownOf(s) = {} /\ Cardinality(KnownOf(s)) = 0
  BY <1>1, FS_EmptySet DEF KnownOf
<1>5. ManagerTypes
  BY <1>1, <1>2, <1>3, ManagerAssumption
     DEF ManagerInit, ManagerTypes, Service, LOGINSERVER, GAMESERVER
<1>6. EntriesWanted
  BY <1>4 DEF ManagerInit, EntriesWanted
<1> QED
  BY <1>1, <1>2, <1>5, <1>6
     DEF ManagerInit, ManagerInv, AllRegisteredAtStart, RunningKnown

LEMMA ManagerInvStep == ManagerInv /\ [ManagerNext]_managerVars => ManagerInv'
BY ManagerInvQuiet, ManagerInvStart, ManagerInvRestart, ManagerInvLost
   DEF ManagerNext, ManagerStep, update_services

LEMMA ManagerTypesHold == ManagerInv => ManagerTypeOK
<1> SUFFICES ASSUME ManagerInv
             PROVE  ManagerTypeOK
  OBVIOUS
<1>1. Registered = Pids(svcs)
  BY MapDomain DEF ManagerInv
<1>2. Cardinality(Pids(svcs)) = Len(svcs)
  BY PidsCounted DEF ManagerInv, ManagerTypes
<1>3. svcs \in Seq([kind : Service, pid : Pid])
  BY DEF ManagerInv, ManagerTypes, WellFormed, Entry
<1> QED
  BY <1>1, <1>2, <1>3 DEF ManagerInv, ManagerTypes, ManagerTypeOK

(* The processes of a service that run are among those it has entries for. *)
LEMMA ServiceOnce == ManagerInv => NoSecondCopy
<1> SUFFICES ASSUME ManagerInv, leaked < OpenMax, NEW s \in Service
             PROVE  /\ Running(s) \subseteq Registered
                    /\ Cardinality(Running(s)) <= wanted[s]
  BY DEF NoSecondCopy
<1>1. Running(s) \subseteq KnownOf(s) /\ Running(s) \subseteq Registered
  BY MapDomain DEF ManagerInv, RunningKnown, Running, KnownOf
<1>2. IsFiniteSet(KnownOf(s)) /\ Cardinality(KnownOf(s)) \in Nat
  BY StartedFinite DEF ManagerInv
<1>3. Cardinality(Running(s)) <= Cardinality(KnownOf(s)) /\ Cardinality(Running(s)) \in Nat
  BY <1>1, <1>2, FS_Subset, FS_CardinalityType
<1>4. Cardinality(KnownOf(s)) <= wanted[s] /\ wanted[s] \in 0 .. MaxWanted
  BY DEF ManagerInv, ManagerTypes, EntriesWanted
<1> QED
  BY <1>1, <1>2, <1>3, <1>4

-----------------------------------------------------------------------------
(* The four machines together: a step is one of a machine and leaves the   *)
(* variables of the others alone.                                          *)

SupportInv == TimerTypeOK /\ TimerInv /\ DriverInv /\ DBCInv /\ ManagerInv

LEMMA SupportInvInit == Init => SupportInv
BY TimerInvInit, DriverInvInit, DBCInvInit, ManagerInvInit DEF Init, SupportInv

LEMMA SupportInvStep == SupportInv /\ [Next]_vars => SupportInv'
<1> SUFFICES ASSUME SupportInv, [Next]_vars
             PROVE  SupportInv'
  OBVIOUS
<1>1. /\ [ManagerNext]_managerVars
      /\ [TimerNext]_timerVars
      /\ [DriverNext]_driverVars
      /\ [DBCNext]_dbcVars
  BY DEF Next, vars
<1> QED
  BY <1>1, TimerTypesStep, TimerInvStep, DriverInvStep, DBCInvStep, ManagerInvStep
     DEF SupportInv

LEMMA SupportInvAlways == Spec => []SupportInv
BY SupportInvInit, SupportInvStep, PTL DEF Spec

(* The variables of the supervisor, the announce timer and the database    *)
(* drivers keep their types, whatever the bounds.                          *)
THEOREM SupportTypeCorrect == Spec => []TypeOK
<1>1. SupportInv => TypeOK
  BY ManagerTypesHold DEF SupportInv, DriverInv, TypeOK
<1> QED
  BY <1>1, SupportInvAlways, PTL

(* However requests overlap with the start and with each other, the timer  *)
(* announce_timer_id names is scheduled whenever no request is being       *)
(* handled (EC_Communicator::push).                                        *)
THEOREM AlwaysAnnouncing == Spec => []KeepsAnnouncing
<1>1. SupportInv => KeepsAnnouncing
  BY TimerKeepsAnnouncing DEF SupportInv
<1> QED
  BY <1>1, SupportInvAlways, PTL

(* No service is started a second time while it runs, and every process    *)
(* that runs has its entry, however many daemons end in whatever order,    *)
(* until leaked descriptors have used up the limit (update_services).      *)
THEOREM ServicesOnce == Spec => []NoSecondCopy
<1>1. SupportInv => NoSecondCopy
  BY ServiceOnce DEF SupportInv
<1> QED
  BY <1>1, SupportInvAlways, PTL

(* An operation is executed with the value of each parameter it sets, and  *)
(* with no other unless one failed just before it, for any number of       *)
(* parameters set and of failures (SqlOperationBase::execute).             *)
THEOREM OwnParameters == Spec => []BoundAsAsked
<1>1. SupportInv => BoundAsAsked
  BY DEF SupportInv, DriverInv
<1> QED
  BY <1>1, SupportInvAlways, PTL

(* A result set that an observer reads, or that shares its handle with no  *)
(* other, gives the rows of its own execution, in both drivers.            *)
THEOREM OwnRows == Spec => []ReadsOwnRow
<1>1. SupportInv => ReadsOwnRow
  BY OwnRowIsRead DEF SupportInv
<1> QED
  BY <1>1, SupportInvAlways, PTL

(* Every record of every whole file is read where it lies, for any number  *)
(* of records and whatever the files before are like (DBC_Store).          *)
THEOREM FilesReadAligned == Spec => []RecordsAligned
<1>1. SupportInv => RecordsAligned
  BY AlignedFiles DEF SupportInv
<1> QED
  BY <1>1, SupportInvAlways, PTL
=============================================================================
