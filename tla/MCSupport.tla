------------------------------ MODULE MCSupport ------------------------------
(***************************************************************************)
(* Four machines beside the daemons' main paths, which share no variable:  *)
(* the supervisor, the announce timer, the database drivers and the client *)
(* data files.  Each behaviour runs one of them.                           *)
(***************************************************************************)
EXTENDS ServiceManager, AnnounceTimer, Drivers, DBCStore

CONSTANT MaxFlaws   \* bound on what is wrong with the files of a directory

VARIABLE part

FlawsOf(file) ==
    IF ~file.valid THEN {"header"}
    ELSE (IF file.strings THEN {} ELSE {"strings"})
             \union (IF file.field_size = 4 THEN {} ELSE {"field_size"})
             \union (IF file.ends = "behind strings" THEN {} ELSE {file.ends})

Flaws == UNION {{f} \X FlawsOf(directory[f]) : f \in File}

Init ==
    /\ part \in {"manager", "timer", "drivers", "files"}
    /\ part # "manager" => wanted = [s \in Service |-> 0]
    /\ part # "drivers" => engine = "mysql" /\ api = "prepared" /\ reader = "observer"
    /\ part # "files" => directory = [f \in File |-> [valid |-> FALSE]]
    /\ ManagerInit
    /\ TimerInit
    /\ DriverInit
    /\ DBCInit
    /\ part = "files" => Cardinality(Flaws) <= MaxFlaws

Next ==
    \/ /\ part = "manager"
       /\ ManagerNext
       /\ UNCHANGED <<part, timerVars, driverVars, dbcVars>>
    \/ /\ part = "timer"
       /\ TimerNext
       /\ UNCHANGED <<part, managerVars, driverVars, dbcVars>>
    \/ /\ part = "drivers"
       /\ DriverNext
       /\ UNCHANGED <<part, managerVars, timerVars, dbcVars>>
    \/ /\ part = "files"
       /\ DBCNext
       /\ UNCHANGED <<part, managerVars, timerVars, driverVars>>

vars == <<part, managerVars, timerVars, driverVars, dbcVars>>

Spec ==
    /\ Init
    /\ [][Next]_vars
    /\ part = "manager" => ManagerFairness

-----------------------------------------------------------------------------
(* Type correctness of the four machines.                                  *)
TypeOK == ManagerTypeOK /\ TimerTypeOK /\ DriverTypeOK
=============================================================================
