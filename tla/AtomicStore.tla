----------------------------- MODULE AtomicStore -----------------------------
(***************************************************************************)
(* What the database pool promises to those who enqueue operations: an     *)
(* operation asks for changes 1 .. SizeOf[o], and its changes reach the    *)
(* store together or not at all, once the operation has been accepted.     *)
(* Several operations may become visible in one step.                      *)
(***************************************************************************)
EXTENDS Integers

CONSTANTS Op, SizeOf

VARIABLES accepted, stored

Changes(o) == {o} \X (1 .. SizeOf[o])

Init ==
    /\ accepted = {}
    /\ stored = {}

Accept(o) ==
    /\ o \notin accepted
    /\ accepted' = accepted \union {o}
    /\ UNCHANGED stored

Store(done) ==
    /\ done # {}
    /\ stored' = stored \union UNION {Changes(o) : o \in done}
    /\ UNCHANGED accepted

Next ==
    \/ \E o \in Op : Accept(o)
    \/ \E done \in SUBSET accepted : Store(done)

Spec == Init /\ [][Next]_<<accepted, stored>>
=============================================================================
