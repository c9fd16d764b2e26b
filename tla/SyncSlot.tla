------------------------------ MODULE SyncSlot ------------------------------
(***************************************************************************)
(* What CliManager promises its callers, without its mutex, generations,   *)
(* supervisor or monitors: there is one slot for a CLI process, a stop     *)
(* revokes every permit handed out before it, and a stop returns only with *)
(* the slot empty.                                                         *)
(***************************************************************************)
EXTENDS Naturals

CONSTANTS
    Tasks,   \* tasks that call stop_sync
    Pids     \* identities of CLI child processes

VARIABLES
    epoch,     \* the number of stops requested so far
    stopping,  \* tasks whose stop has revoked the permits and not returned
    procs      \* the occupied slot: a process and the epoch of its permit

vars == <<epoch, stopping, procs>>

Init == epoch = 0 /\ stopping = {} /\ procs = {}

\* From here on every permit handed out before is stale.
Revoke(t) ==
    /\ t \notin stopping
    /\ epoch' = epoch + 1 /\ stopping' = stopping \cup {t}
    /\ UNCHANGED procs

\* Only into an empty slot; and only under a current permit, unless a stop
\* is on its way to end the process again.
Launch(p, permit) ==
    /\ procs = {}
    /\ permit = epoch \/ stopping # {}
    /\ procs' = {[id |-> p, permit |-> permit]}
    /\ UNCHANGED <<epoch, stopping>>

\* The process is gone and nobody reads or reports it any more.
Vacate ==
    /\ procs # {} /\ procs' = {}
    /\ UNCHANGED <<epoch, stopping>>

Return(t) ==
    /\ t \in stopping /\ procs = {}
    /\ stopping' = stopping \ {t}
    /\ UNCHANGED <<epoch, procs>>

Next ==
    \/ \E t \in Tasks : Revoke(t) \/ Return(t)
    \/ \E p \in Pids, permit \in 0 .. epoch : Launch(p, permit)
    \/ Vacate

Spec == Init /\ [][Next]_vars
=============================================================================
