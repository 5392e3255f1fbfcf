------------------------------- MODULE Drivers -------------------------------
(***************************************************************************)
(* The two database drivers: one statement of one connection, the worker   *)
(* that executes operations with it, and the result sets that are read by  *)
(* whoever asked.  All result sets of a prepared statement share its       *)
(* handle; a direct statement has a handle for each result and is taken    *)
(* as one without parameters.                                              *)
(*                                                                         *)
(* A cell of a result is named by its execution, row and column, so that   *)
(* one read from the wrong place is told apart.                            *)
(***************************************************************************)
EXTENDS Integers, Sequences

CONSTANTS
    Value,          \* what a parameter can be set to
    ParamCount,     \* parameters of the statement
    numFields,      \* columns of its result
    MaxRows,        \* bound on the rows of a result
    MaxExecutions,  \* bound on the executions
    MaxErrors       \* bound on the executions the server refuses

ASSUME DriversAssumption ==
    /\ ParamCount \in Nat \ {0}
    /\ {numFields, MaxRows, MaxExecutions, MaxErrors} \subseteq Nat

Unset == "unset"

Param == 1 .. ParamCount
Execution == 1 .. MaxExecutions
Column == 1 .. numFields

VARIABLES
    engine,     \* "mysql" or "sqlite"
    api,        \* "prepared", the only one the daemons use, or "direct"
    reader,     \* who reads results: the worker's "observer", or another thread by a "future"
    worker,     \* "idle", "setting" or "executed"
    given,      \* statement_data of the operation
    index,      \* i, how many of them are set
    bind,       \* the parameters the statement holds
    executed,   \* how many executions there were
    errors,     \* how many operations failed
    used, asked,   \* history: used[e] and asked[e], the parameters of execution e
    soiled,     \* history: executions that an operation which failed went before
    numRows,    \* numRows[e]: rows the server answered
    cursor,     \* cursor[h]: what handle h stands at
    bound_set,  \* the result set whose buffers the prepared handle fills, or 0
    buffer,     \* buffer[e]: execution and row last fetched for result set e
    rowPosition,   \* rowPosition[e]
    open,       \* result sets that are not deleted
    disturbed   \* history: result sets that shared their handle with another

configVars == <<engine, api, reader>>

askVars == <<given, index, errors, used, asked, soiled, numRows, executed, disturbed>>

resultVars == <<numRows, cursor, bound_set, buffer, rowPosition, open>>

driverVars == <<configVars, worker, bind, askVars, resultVars>>

HandleOf(e) == IF api = "prepared" THEN 0 ELSE e

Handle == 0 .. MaxExecutions

NoRow == <<0, 0>>

Closed == [exec |-> 0, fetched |-> 0, state |-> "none"]

DriverInit ==
    /\ engine \in {"mysql", "sqlite"}
    /\ api \in {"prepared", "direct"}
    /\ reader \in {"observer", "future"}
    /\ worker = "idle"
    /\ given = << >>
    /\ index = 0
    /\ bind = [i \in Param |-> Unset]
    /\ executed = 0
    /\ errors = 0
    /\ soiled = {}
    /\ used = [e \in Execution |-> bind]
    /\ asked = [e \in Execution |-> bind]
    /\ numRows = [e \in Execution |-> 0]
    /\ cursor = [h \in Handle |-> Closed]
    /\ bound_set = 0
    /\ buffer = [e \in Execution |-> NoRow]
    /\ rowPosition = [e \in Execution |-> 0]
    /\ open = {}
    /\ disturbed = {}

-----------------------------------------------------------------------------
(* SqlOperationBase::execute.                                              *)

(* SQLite refuses to bind to a statement that was stepped and not reset,   *)
(* and the driver never resets one.                                        *)
Misused == engine = "sqlite" /\ api = "prepared" /\ cursor[0].state \in {"row", "done"}

(* The worker takes an operation.  Its statement_data may be shorter than  *)
(* the statement's parameters, or longer.                                  *)
take_operation ==
    /\ worker = "idle"
    /\ executed < MaxExecutions
    /\ \E n \in 0 .. (ParamCount + 1) : \E params \in [1 .. n -> Value] :
           /\ api = "direct" => n = 0
           /\ given' = params
    /\ index' = 0
    /\ worker' = "setting"
    /\ UNCHANGED <<configVars, bind, executed, errors, used, asked, soiled, disturbed, resultVars>>

(* SQLite has not begun with a result set that was not stepped yet, and    *)
(* will begin with the parameters that are bound then.                     *)
set_parameter ==
    /\ worker = "setting"
    /\ index < Len(given)
    /\ index + 1 \in Param
    /\ ~Misused
    /\ bind' = [bind EXCEPT ![index + 1] = given[index + 1]]
    /\ index' = index + 1
    /\ disturbed' = IF engine = "sqlite" THEN disturbed \union open ELSE disturbed
    /\ UNCHANGED <<configVars, worker, given, executed, errors, used, asked, soiled, resultVars>>

(* What makes SQLExceptions: an index the statement has not, a binding     *)
(* that is refused, an execution that the server or the driver refuses.    *)
(* Parameters stay set: clearParameters is jumped over.                    *)
execute_throws ==
    /\ worker = "setting"
    /\ index < Len(given) => index + 1 \notin Param \/ Misused
    /\ errors < MaxErrors
    /\ errors' = errors + 1
    /\ soiled' = soiled \union {executed + 1}
    /\ worker' = "idle"
    /\ UNCHANGED <<configVars, given, index, bind, executed, used, asked, disturbed, resultVars>>

(* The new result set takes the handle from those that are still open: it  *)
(* binds buffers of its own to it, and in MySQL the lengths and null flags *)
(* of the set before are deleted.                                          *)
new_result_set(e) ==
    /\ \E n \in 0 .. MaxRows : numRows' = [numRows EXCEPT ![e] = n]
    /\ cursor' = IF Misused THEN cursor
                 ELSE [cursor EXCEPT ![HandleOf(e)] =
                           [exec |-> e, fetched |-> 0, state |-> "ready"]]
    /\ bound_set' = e
    /\ open' = open \union {e}
    /\ disturbed' = IF Misused \/ (api = "prepared" /\ open # {})
                    THEN disturbed \union open \union {e}
                    ELSE disturbed

(* Only SQLite tests that all parameters are set.                          *)
executeQuery ==
    /\ worker = "setting"
    /\ index = Len(given)
    /\ engine = "sqlite" /\ api = "prepared" => \A i \in Param : bind[i] # Unset
    /\ executed' = executed + 1
    /\ used' = [used EXCEPT ![executed'] = bind]
    /\ asked' = [asked EXCEPT ![executed'] =
                     [i \in Param |-> IF i <= Len(given) THEN given[i] ELSE Unset]]
    /\ new_result_set(executed')
    /\ worker' = "executed"
    /\ UNCHANGED <<configVars, given, index, bind, errors, soiled, buffer, rowPosition>>

(* Mutant: the parameters stay set after an execution, too.                *)
cleared_not == bind

cleared == [i \in Param |-> Unset]

(* Mutant: the worker goes on while its observer still reads.              *)
clearParameters_early ==
    /\ worker = "executed"
    /\ bind' = cleared
    /\ worker' = "idle"
    /\ UNCHANGED <<configVars, askVars, cursor, bound_set, buffer, rowPosition, open>>

(* An observer is called by ACE_Future::set and deletes the result; who    *)
(* waits for a future reads in its own thread, now or later.               *)
clearParameters ==
    /\ worker = "executed"
    /\ reader = "observer" => executed \notin open
    /\ bind' = cleared
    /\ worker' = "idle"
    /\ UNCHANGED <<configVars, askVars, cursor, bound_set, buffer, rowPosition, open>>

-----------------------------------------------------------------------------
(* Result sets.                                                            *)

(* The row is fetched into the buffers that are bound to the handle.  The  *)
(* position counts calls, also those that find no row.                     *)
mysql_next(e) ==
    /\ engine = "mysql"
    /\ LET h == HandleOf(e)
           c == cursor[h]
           target == IF api = "prepared" THEN bound_set ELSE e
       IN  IF c.state = "ready" /\ c.fetched < numRows[c.exec]
           THEN /\ cursor' = [cursor EXCEPT ![h].fetched = @ + 1]
                /\ buffer' = [buffer EXCEPT ![target] = <<c.exec, c.fetched + 1>>]
           ELSE UNCHANGED <<cursor, buffer>>
    /\ rowPosition' = [rowPosition EXCEPT ![e] = @ + 1]

(* sqlite3_step; after the last row it would begin again.                  *)
sqlite_next(e) ==
    /\ engine = "sqlite"
    /\ LET h == HandleOf(e)
           c == cursor[h]
           from == IF c.state = "done" THEN 0 ELSE c.fetched
       IN  IF from < numRows[c.exec]
           THEN /\ cursor' = [cursor EXCEPT ![h].fetched = from + 1, ![h].state = "row"]
                /\ rowPosition' = [rowPosition EXCEPT ![e] = @ + 1]
           ELSE /\ cursor' = [cursor EXCEPT ![h].state = "done"]
                /\ UNCHANGED rowPosition
    /\ UNCHANGED buffer

(* A reader stops at the first call that returns false.                    *)
next(e) ==
    /\ e \in open
    /\ rowPosition[e] <= numRows[e]
    /\ cursor[HandleOf(e)].state # "done"
    /\ mysql_next(e) \/ sqlite_next(e)
    /\ UNCHANGED <<configVars, askVars, worker, bind, bound_set, open>>

(* mysql_stmt_free_result drops whatever result the handle holds.          *)
delete_result(e) ==
    /\ e \in open
    /\ open' = open \ {e}
    /\ cursor' = IF engine = "mysql"
                 THEN [cursor EXCEPT ![HandleOf(e)].state = "freed"]
                 ELSE cursor
    /\ UNCHANGED <<configVars, askVars, worker, bind, bound_set, buffer, rowPosition>>

(* checkValidity: a direct result of MySQL also knows its end.             *)
Invalid(e, idx) ==
    \/ idx \notin Column
    \/ rowPosition[e] = 0
    \/ engine = "mysql" /\ api = "direct" /\ rowPosition[e] > numRows[e]

(* What the getters of each driver find; the conversions of the values are *)
(* left out.  A prepared result of MySQL reads the buffers of its own,     *)
(* which the handle fills only while no other set is bound to it.          *)
mysql_prepared_cell(e, idx) ==
    IF bound_set = e THEN buffer[e] \o <<idx>> ELSE <<"undefined">>

mysql_direct_cell(e, idx) == buffer[e] \o <<idx>>

(* The columns of SQLite begin at 0, which its driver does not allow for.  *)
sqlite_cell(e, idx) ==
    LET c == cursor[HandleOf(e)] IN
    IF c.state = "row" THEN <<c.exec, c.fetched, idx + 1>> ELSE <<"null">>

Getter(e, idx) ==
    CASE Invalid(e, idx) -> <<"thrown">>
      [] ~Invalid(e, idx) /\ engine = "sqlite" -> sqlite_cell(e, idx)
      [] ~Invalid(e, idx) /\ engine = "mysql" /\ api = "direct" -> mysql_direct_cell(e, idx)
      [] OTHER -> mysql_prepared_cell(e, idx)

DriverNext ==
    \/ take_operation
    \/ set_parameter
    \/ execute_throws
    \/ executeQuery
    \/ clearParameters
    \/ \E e \in Execution : next(e) \/ delete_result(e)

-----------------------------------------------------------------------------
(* Type correctness; only executions that happened are open.               *)
DriverTypeOK ==
    /\ worker \in {"idle", "setting", "executed"}
    /\ given \in Seq(Value) /\ Len(given) <= ParamCount + 1
    /\ index \in 0 .. Len(given)
    /\ bind \in [Param -> Value \union {Unset}]
    /\ numRows \in [Execution -> 0 .. MaxRows]
    /\ cursor \in [Handle -> [exec : 0 .. executed, fetched : 0 .. MaxRows,
                              state : {"none", "ready", "row", "done", "freed"}]]
    /\ buffer \in [Execution -> (0 .. executed) \X (0 .. MaxRows)]
    /\ rowPosition \in [Execution -> 0 .. MaxRows + 1]
    /\ open \subseteq 1 .. executed
    /\ bound_set \in 0 .. executed

(* Each parameter an operation sets is executed with the value it set, and *)
(* one it does not set is unset, whatever was executed before; unless an   *)
(* operation failed just before it (SqlOperationBase::execute, which       *)
(* jumps over clearParameters, and MySQL's doQuery, which does not test    *)
(* that all have been set).                                                *)
BoundAsAsked ==
    \A e \in 1 .. executed : \A i \in Param :
        used[e][i] = asked[e][i] \/ (asked[e][i] = Unset /\ e \in soiled)

(* A result set read by an observer, or by a caller whom no other          *)
(* execution of the statement overtakes, gives each row of its own         *)
(* execution once and in order, with every column of MySQL in its place.   *)
ReadsOwnRow ==
    \A e \in open : \A idx \in Column :
        (reader = "observer" \/ e \notin disturbed) /\ rowPosition[e] \in 1 .. numRows[e] =>
            LET cell == Getter(e, idx) IN
            IF engine = "mysql" THEN cell = <<e, rowPosition[e], idx>>
            ELSE Len(cell) = 3 => cell[1] = e /\ cell[2] = rowPosition[e]
=============================================================================
