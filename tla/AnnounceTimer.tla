--------------------------- MODULE AnnounceTimer ---------------------------
(***************************************************************************)
(* The timer a proxy announces itself by, and the requests of realmd that  *)
(* restart it.  The network threads run before the thread that starts the  *)
(* service has scheduled the first timer, and several of them can handle   *)
(* requests at the same time; announce_timer_id has no lock.               *)
(***************************************************************************)
EXTENDS Integers, FiniteSets

CONSTANTS
    Handler,     \* network threads that handle requests
    MaxTimers    \* bound on the timers that are scheduled

ASSUME TimersAssumption == MaxTimers \in Nat

NoTimer == -1

Timer == 1 .. MaxTimers

VARIABLES
    start,       \* where Proxy_Service::start is: "activated", "scheduled", "done"
    handling,    \* handling[h]: "none", "asked", "cancelled" or "scheduled"
    number,      \* number[h]: the timer h is about to cancel, or to store
    first,       \* the timer start() has scheduled
    announce_timer_id,
    scheduled,   \* timers the reactor holds
    allocated    \* how many timers were scheduled so far

timerVars == <<start, handling, number, first, announce_timer_id, scheduled, allocated>>

TimerInit ==
    /\ start = "activated"
    /\ handling = [h \in Handler |-> "none"]
    /\ number = [h \in Handler |-> NoTimer]
    /\ first = NoTimer
    /\ announce_timer_id = NoTimer
    /\ scheduled = {}
    /\ allocated = 0

schedule_timer(t) ==
    /\ allocated < MaxTimers
    /\ t = allocated + 1
    /\ allocated' = t
    /\ scheduled' = scheduled \union {t}

(* The first announcement, then the first timer.                           *)
start_schedules ==
    /\ start = "activated"
    /\ \E t \in Timer : schedule_timer(t) /\ first' = t
    /\ start' = "scheduled"
    /\ UNCHANGED <<handling, number, announce_timer_id>>

start_stores ==
    /\ start = "scheduled"
    /\ announce_timer_id' = first
    /\ start' = "done"
    /\ UNCHANGED <<handling, number, first, scheduled, allocated>>

(* A request for the proxy's realm; one for another realm is ignored.      *)
push(h) ==
    /\ handling[h] = "none"
    /\ handling' = [handling EXCEPT ![h] = "asked"]
    /\ number' = [number EXCEPT ![h] = announce_timer_id]
    /\ UNCHANGED <<start, first, announce_timer_id, scheduled, allocated>>

(* cancel_timer of a timer that is already cancelled does nothing, and -1  *)
(* is not cancelled.                                                       *)
request_cancels(h) ==
    /\ handling[h] = "asked"
    /\ scheduled' = scheduled \ {number[h]}
    /\ number' = [number EXCEPT ![h] = NoTimer]
    /\ handling' = [handling EXCEPT ![h] = "cancelled"]
    /\ UNCHANGED <<start, first, announce_timer_id, allocated>>

(* After the announcement the number is tested again.                      *)
request_schedules(h) ==
    /\ handling[h] = "cancelled"
    /\ announce_timer_id # NoTimer
    /\ \E t \in Timer :
           /\ schedule_timer(t)
           /\ number' = [number EXCEPT ![h] = t]
    /\ handling' = [handling EXCEPT ![h] = "scheduled"]
    /\ UNCHANGED <<start, first, announce_timer_id>>

request_finds_no_timer(h) ==
    /\ handling[h] = "cancelled"
    /\ announce_timer_id = NoTimer
    /\ handling' = [handling EXCEPT ![h] = "none"]
    /\ UNCHANGED <<start, number, first, announce_timer_id, scheduled, allocated>>

(* Mutant: the number of the new timer is not kept.                        *)
request_forgets(h) ==
    /\ handling[h] = "scheduled"
    /\ number' = [number EXCEPT ![h] = NoTimer]
    /\ handling' = [handling EXCEPT ![h] = "none"]
    /\ UNCHANGED <<start, first, announce_timer_id, scheduled, allocated>>

request_stores(h) ==
    /\ handling[h] = "scheduled"
    /\ announce_timer_id' = number[h]
    /\ number' = [number EXCEPT ![h] = NoTimer]
    /\ handling' = [handling EXCEPT ![h] = "none"]
    /\ UNCHANGED <<start, first, scheduled, allocated>>

TimerNext ==
    \/ start_schedules
    \/ start_stores
    \/ \E h \in Handler :
           \/ push(h)
           \/ request_cancels(h)
           \/ request_schedules(h)
           \/ request_finds_no_timer(h)
           \/ request_stores(h)

-----------------------------------------------------------------------------
(* Type correctness.                                                       *)
TimerTypeOK ==
    /\ start \in {"activated", "scheduled", "done"}
    /\ handling \in [Handler -> {"none", "asked", "cancelled", "scheduled"}]
    /\ number \in [Handler -> Timer \union {NoTimer}]
    /\ first \in Timer \union {NoTimer}
    /\ announce_timer_id \in Timer \union {NoTimer}
    /\ scheduled \subseteq 1 .. allocated
    /\ allocated \in 0 .. MaxTimers

(* A proxy that has started never falls silent: however requests overlap   *)
(* with the start and with each other, the timer the number names is       *)
(* scheduled whenever no request is being handled.  (Others may be too:    *)
(* timers whose number was overwritten run until the process ends.)        *)
KeepsAnnouncing ==
    start = "done" /\ (\A h \in Handler : handling[h] = "none")
        => announce_timer_id \in scheduled
=============================================================================
