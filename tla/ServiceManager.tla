--------------------------- MODULE ServiceManager ---------------------------
(***************************************************************************)
(* The supervisor: the process that was started without "runrealmd" or     *)
(* "rungamed" spawns the daemons its arguments name, and once a second     *)
(* goes through the multimap of services and starts those again whose      *)
(* process is gone or a zombie.                                            *)
(*                                                                         *)
(* A process number is not given to a second process in the model.         *)
(***************************************************************************)
EXTENDS Integers, Sequences, FiniteSets

CONSTANTS
    MaxSpawns,    \* bound on the processes that are started
    MaxSpawnFailures,  \* bound on the calls of spawn that fail
    MaxWanted,    \* bound on the number of arguments "-realm" and "-proxy"
    OpenMax       \* how many descriptors the manager may have open

ASSUME ManagerAssumption == {MaxSpawns, MaxSpawnFailures, MaxWanted, OpenMax} \subseteq Nat

(* In the order of enum MorpheusServices, which is the order of the map.   *)
LOGINSERVER == 0
GAMESERVER == 1
Service == {LOGINSERVER, GAMESERVER}

Pid == 1 .. MaxSpawns

VARIABLES
    wanted,    \* wanted[s]: how often the arguments name service s
    svcs,      \* the multimap: a sequence of [kind, pid], ordered by kind
    process,   \* process[p]: "none", "runs", "zombie" or "gone"
    kind,      \* kind[p]: the service p was started as
    iter,      \* position in svcs, or 0 when update_services is not running
    manager,   \* "starting", "waits", "polls" or "hung"
    leaked,    \* descriptors of /proc files that were not closed
    spawn_failures   \* history: calls of spawn that failed

managerVars == <<wanted, svcs, process, kind, iter, manager, leaked, spawn_failures>>

Positions == DOMAIN svcs

Started == {p \in Pid : process[p] # "none"}

Running(s) == {p \in Pid : process[p] = "runs" /\ kind[p] = s}

Registered == {svcs[i].pid : i \in Positions}

ManagerInit ==
    /\ wanted \in [Service -> 0 .. MaxWanted]
    /\ svcs = <<>>
    /\ process = [p \in Pid |-> "none"]
    /\ kind = [p \in Pid |-> LOGINSERVER]
    /\ iter = 0
    /\ manager = "starting"
    /\ leaked = 0
    /\ spawn_failures = 0

-----------------------------------------------------------------------------
(* multimap::insert: behind the entries of the same kind.                  *)
Inserted(s, p) ==
    LET ahead == Cardinality({i \in Positions : svcs[i].kind <= s})
    IN  SubSeq(svcs, 1, ahead) \o <<[kind |-> s, pid |-> p]>>
            \o SubSeq(svcs, ahead + 1, Len(svcs))

Erased(entries, i) == SubSeq(entries, 1, i - 1) \o SubSeq(entries, i + 1, Len(entries))

(* run_realmd and run_proxyd, up to the insertion.                         *)
Spawns(s, p) ==
    /\ p = Cardinality(Started) + 1
    /\ p \in Pid
    /\ process' = [process EXCEPT ![p] = "runs"]
    /\ kind' = [kind EXCEPT ![p] = s]
    /\ UNCHANGED spawn_failures

SpawnFails ==
    /\ spawn_failures < MaxSpawnFailures
    /\ spawn_failures' = spawn_failures + 1
    /\ UNCHANGED <<process, kind>>

(* main: one call for each argument, whose result is ignored.              *)
start_services ==
    /\ manager = "starting"
    /\ \E s \in Service :
           /\ wanted[s] > Cardinality({p \in Started : kind[p] = s})
           /\ \/ \E p \in Pid :
                     /\ Spawns(s, p)
                     /\ svcs' = Inserted(s, p)
                     /\ UNCHANGED wanted
              \/ /\ SpawnFails
                 /\ wanted' = [wanted EXCEPT ![s] = @ - 1]
                 /\ UNCHANGED svcs
    /\ UNCHANGED <<iter, manager, leaked>>

started ==
    /\ manager = "starting"
    /\ \A s \in Service : wanted[s] = Cardinality({p \in Started : kind[p] = s})
    /\ manager' = "waits"
    /\ UNCHANGED <<wanted, svcs, process, kind, iter, leaked, spawn_failures>>

(* Mutant: the loop enters an empty map.                                   *)
Polling_anyway ==
    /\ iter' = 1
    /\ manager' = "polls"

Polling ==
    /\ iter' = IF svcs = <<>> THEN 0 ELSE 1
    /\ manager' = IF svcs = <<>> THEN "waits" ELSE "polls"

(* ACE_Process_Manager::wait: collects one child that ended, or returns    *)
(* after a second without any; update_services begins.                     *)
wait ==
    /\ manager = "waits"
    /\ \/ \E p \in Pid :
              /\ process[p] = "zombie"
              /\ process' = [process EXCEPT ![p] = "gone"]
       \/ UNCHANGED process
    /\ Polling
    /\ UNCHANGED <<wanted, svcs, kind, leaked, spawn_failures>>

(* A daemon ends: by itself, by a signal, or because it failed to start.   *)
process_ends(p) ==
    /\ process[p] = "runs"
    /\ process' = [process EXCEPT ![p] = "zombie"]
    /\ UNCHANGED <<wanted, svcs, kind, iter, manager, leaked, spawn_failures>>

-----------------------------------------------------------------------------
(* One turn of the loop in update_services.                                *)

OpensStat(p) == process[p] \in {"runs", "zombie"} /\ leaked < OpenMax

(* The descriptor of a zombie's file is not closed.                        *)
Leaked(p) == IF OpensStat(p) THEN leaked + 1 ELSE leaked

(* Where the loop goes on: behind the last entry it ends.                  *)
Continue(i, entries) ==
    /\ iter' = IF i \in DOMAIN entries THEN i ELSE 0
    /\ manager' = IF i \in DOMAIN entries THEN "polls" ELSE "waits"

service_is_alive ==
    /\ manager = "polls"
    /\ OpensStat(svcs[iter].pid)
    /\ process[svcs[iter].pid] = "runs"
    /\ Continue(iter + 1, svcs)
    /\ UNCHANGED <<wanted, svcs, process, kind, leaked, spawn_failures>>

IsDead(p) == ~OpensStat(p) \/ process[p] = "zombie"

(* Mutant: the old entry stays in the map.                                 *)
restart_keeping_entry ==
    /\ manager = "polls"
    /\ LET entry == svcs[iter] IN
           /\ IsDead(entry.pid)
           /\ leaked' = Leaked(entry.pid)
           /\ \E p \in Pid :
                  /\ Spawns(entry.kind, p)
                  /\ svcs' = Inserted(entry.kind, p)
                  /\ Continue(iter + 2, svcs')
    /\ UNCHANGED wanted

(* Mutant: the switch has no case for GAMESERVER.                          *)
restart_without_game_case ==
    /\ manager = "polls"
    /\ LET entry == svcs[iter] IN
           /\ IsDead(entry.pid)
           /\ leaked' = Leaked(entry.pid)
           /\ IF entry.kind = LOGINSERVER
              THEN \E p \in Pid :
                       /\ Spawns(entry.kind, p)
                       /\ svcs' = Erased(Inserted(entry.kind, p), iter)
              ELSE /\ svcs' = Erased(svcs, iter)
                   /\ UNCHANGED <<process, kind, spawn_failures>>
           /\ Continue(iter + 1, svcs')
    /\ UNCHANGED wanted

(* The new entry is inserted behind its kind, the old one is erased and    *)
(* the iterator moved on twice: by erase(iter++) and by the loop.  One     *)
(* entry is skipped, which always exists.                                  *)
restart_service ==
    /\ manager = "polls"
    /\ LET entry == svcs[iter] IN
           /\ IsDead(entry.pid)
           /\ leaked' = Leaked(entry.pid)
           /\ \E p \in Pid :
                  /\ Spawns(entry.kind, p)
                  /\ svcs' = Erased(Inserted(entry.kind, p), iter)
                  /\ Continue(iter + 1, svcs')
    /\ UNCHANGED wanted

(* The result of the spawn is ignored: the entry is erased.  Behind the    *)
(* last entry the iterator is moved past the end of the map, which is      *)
(* undefined: the loop ends, goes on anywhere, or never returns.           *)
restart_fails ==
    /\ manager = "polls"
    /\ LET entry == svcs[iter] IN
           /\ IsDead(entry.pid)
           /\ leaked' = Leaked(entry.pid)
           /\ SpawnFails
           /\ svcs' = Erased(svcs, iter)
           /\ IF iter \in DOMAIN svcs'
              THEN Continue(iter + 1, svcs')
              ELSE \/ \E i \in 1 .. Len(svcs) : Continue(i, svcs')
                   \/ /\ manager' = "hung"
                      /\ iter' = 0
    /\ UNCHANGED wanted

update_services == service_is_alive \/ restart_service \/ restart_fails

ManagerStep == start_services \/ started \/ wait \/ update_services

ManagerNext == ManagerStep \/ \E p \in Pid : process_ends(p)

(* The manager's one thread runs; a daemon need not end.                   *)
ManagerFairness == WF_managerVars(ManagerStep)

-----------------------------------------------------------------------------
(* Type correctness; a number is registered once and only if it was given  *)
(* to a process, and update_services stands at an entry while it runs.     *)
ManagerTypeOK ==
    /\ wanted \in [Service -> 0 .. MaxWanted]
    /\ svcs \in Seq([kind : Service, pid : Pid])
    /\ process \in [Pid -> {"none", "runs", "zombie", "gone"}]
    /\ kind \in [Pid -> Service]
    /\ iter \in 0 .. Len(svcs)
    /\ manager \in {"starting", "waits", "polls", "hung"}
    /\ leaked \in 0 .. OpenMax
    /\ spawn_failures \in 0 .. MaxSpawnFailures
    /\ (manager = "polls") <=> (iter # 0)
    /\ Registered \subseteq Started
    /\ Cardinality(Registered) = Len(svcs)

(* No service is started a second time while it runs, and no process that  *)
(* runs is lost to the supervisor: every one has its entry, and a kind has *)
(* no more than were asked for.  It holds until leaked descriptors have    *)
(* used up the limit: then every file fails to open and counts as dead.    *)
NoSecondCopy ==
    leaked < OpenMax =>
        \A s \in Service :
            /\ Running(s) \subseteq Registered
            /\ Cardinality(Running(s)) <= wanted[s]

(* What a restart needs: spawn never failed, and numbers of the model and  *)
(* descriptors are left.                                                   *)
Lasting == spawn_failures = 0 /\ leaked < OpenMax /\ Pid # Started

(* Daemons that ended are started again, in whatever order they end and    *)
(* whichever entries the loop skips (update_services).                     *)
ServicesRestarted ==
    \A s \in Service :
        <>[](Lasting /\ manager # "starting" => Cardinality(Running(s)) = wanted[s])
=============================================================================
