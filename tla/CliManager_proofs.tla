------------------------- MODULE CliManager_proofs -------------------------
(***************************************************************************)
(* Safety of CliManager for any number of callers, process identities and  *)
(* stops, and any wrap-around of the generation counter; and that it       *)
(* implements SyncSlot.                                                    *)
(***************************************************************************)
EXTENDS CliManager, TLAPS

(* Every variable keeps its type. *)
LEMMA InitType == Init => TypeOK
<1> SUFFICES ASSUME Init PROVE TypeOK
  OBVIOUS
<1> USE DEF Init, Permits, Epochs, Stages, Generations
<1>1. desired \in BOOLEAN /\ epoch \in Epochs /\ stage \in Stages /\ running \in BOOLEAN
  OBVIOUS
<1>2. lock \in Tasks \cup {None} /\ {supervisor, stopTx, inHand} \subseteq Pids \cup {None}
  OBVIOUS
<1>3. pc \in [Tasks -> Pcs] /\ permit \in [Tasks -> Permits]
  BY DEF Pcs
<1>4. nextGen \in {0} \cup Generations /\ active \in {0} \cup Generations
  BY GenAssumption
<1>5. child \in [Pids -> {"alive", "dead"}] /\ sup \in [Pids -> SupSteps]
  BY DEF SupSteps
<1>6. gen \in [Pids -> {0} \cup Generations] /\ launchEpoch \in [Pids -> Permits]
  OBVIOUS
<1>7. stopSent \in [Pids -> BOOLEAN]
  OBVIOUS
<1>8. mon \in [Pids -> [Streams -> {"reading", "handling", "done"}]]
  BY DEF Streams
<1>9. syncState \in SyncStates
  BY DEF SyncStates
<1> QED BY <1>1, <1>2, <1>3, <1>4, <1>5, <1>6, <1>7, <1>8, <1>9 DEF TypeOK

LEMMA NextGenerationType ==
  ASSUME TypeOK
  PROVE  NextGeneration \in Generations
  BY GenAssumption DEF TypeOK, Generations, NextGeneration

LEMMA WrittenType ==
  /\ {"Scanning", "Error"} \cup Written \subseteq SyncStates
  /\ \A s : MonitorStates(s) \subseteq SyncStates
  BY WrittenAssumption DEF SyncStates, MonitorStates

LEMMA TaskStepType ==
  ASSUME TypeOK, NEW t \in Tasks, TaskStep(t)
  PROVE  TypeOK'
<1> USE DEF TypeOK, Permits, Epochs, Stages, Goto, At, Unlock, intent, lifecycle, calls,
            process, shared, Pcs, LockedPcs, StartPcs, StopPcs
<1>1. CASE RequestStart(t)
  BY <1>1 DEF RequestStart
<1>16. CASE LoadEpoch(t) \/ RetryLoadEpoch(t)
  <2>1. permit' = [permit EXCEPT ![t] = epoch]
    BY <1>16 DEF LoadEpoch, RetryLoadEpoch
  <2>3. pc' \in [Tasks -> Pcs]
    BY <1>16 DEF LoadEpoch, RetryLoadEpoch
  <2>2. UNCHANGED <<intent, lock, stage, inHand, lifecycle, process, shared>>
    BY <1>16 DEF LoadEpoch, RetryLoadEpoch
  <2> QED BY <2>1, <2>2, <2>3
<1>2. CASE RetryLoadDesired(t)
  BY <1>2 DEF RetryLoadDesired
<1>3. CASE LockForStart(t) \/ PermitDesired(t)
  BY <1>3 DEF LockForStart, PermitDesired
<1>4. CASE PermitEpoch(t)
  <2>1. AfterCheck[stage] \in Pcs
    BY DEF AfterCheck
  <2> QED BY <1>4, <2>1 DEF PermitEpoch
<1>5. CASE WriteSyncPairs(t) \/ SpawnFails(t)
  BY <1>5 DEF WriteSyncPairs, SpawnFails
<1>6. ASSUME NEW p \in Pids, SpawnChild(t, p) PROVE TypeOK'
  BY <1>6 DEF SpawnChild
<1>7. CASE PublishScanning(t)
  BY <1>7, WrittenType DEF PublishScanning
<1>8. CASE AdoptChild(t)
  <2> USE <1>8 DEF AdoptChild
  <2>1. mon' \in [Pids -> [Streams -> {"reading", "handling", "done"}]]
    OBVIOUS
  <2>2. stopSent' \in [Pids -> BOOLEAN] /\ sup' \in [Pids -> SupSteps]
    BY DEF SupSteps
  <2>3. /\ nextGen' \in {0} \cup Generations /\ active' \in {0} \cup Generations
        /\ gen' \in [Pids -> {0} \cup Generations]
    BY NextGenerationType
  <2>4. pc' \in [Tasks -> Pcs] /\ permit' \in [Tasks -> Permits]
    OBVIOUS
  <2> QED BY <2>1, <2>2, <2>3, <2>4
<1>9. CASE HandleStartError(t)
  <2>1. syncState' \in SyncStates
    BY <1>9, WrittenType DEF HandleStartError
  <2>2. pc' \in [Tasks -> Pcs] /\ UNCHANGED <<permit, stage, lock, inHand>>
    BY <1>9 DEF HandleStartError
  <2>3. UNCHANGED <<intent, lifecycle, process, active, running>>
    BY <1>9 DEF HandleStartError
  <2> QED BY <2>1, <2>2, <2>3
<1>10. CASE RequestStop(t)
  BY <1>10 DEF RequestStop
<1>15. CASE RevokePermits(t)
  <2>1. epoch' \in Nat
    BY <1>15 DEF RevokePermits
  <2> QED BY <1>15, <2>1 DEF RevokePermits
<1>11. CASE LockForStop(t) \/ Invalidate(t)
  BY <1>11 DEF LockForStop, Invalidate
<1>12. CASE SignalStop(t)
  BY <1>12 DEF SignalStop
<1>13. CASE JoinSupervisor(t)
  BY <1>13 DEF JoinSupervisor, SupSteps
<1>14. CASE CallerWrites(t)
  <2>1. syncState' \in SyncStates
    BY <1>14, WrittenType DEF CallerWrites
  <2> QED BY <1>14, <2>1 DEF CallerWrites
<1> QED BY <1>1, <1>2, <1>3, <1>4, <1>5, <1>6, <1>7, <1>8, <1>9, <1>10, <1>11, <1>12, <1>13,
           <1>14, <1>15, <1>16 DEF TaskStep

LEMMA ProcessStepType ==
  ASSUME TypeOK, NEW p \in Pids, SupervisorStep(p) \/ ChildExits(p)
  PROVE  TypeOK'
<1> USE DEF TypeOK, SupGoto, intent, lifecycle, calls, shared
<1>1. CASE SuperviseStop(p) \/ SuperviseExit(p)
  BY <1>1 DEF SuperviseStop, SuperviseExit, SupSteps
<1>2. CASE Terminate(p) \/ JoinMonitors(p)
  BY <1>2 DEF Terminate, JoinMonitors, SupSteps
<1>3. CASE DiagnoseExit(p)
  BY <1>3 DEF DiagnoseExit, SupSteps
<1>4. CASE ReportExit(p)
  BY <1>4, WrittenType DEF ReportExit, SupSteps
<1>5. CASE ClearActive(p)
  BY <1>5 DEF ClearActive, SupSteps
<1>6. CASE ChildExits(p)
  BY <1>6 DEF ChildExits
<1> QED BY <1>1, <1>2, <1>3, <1>4, <1>5, <1>6 DEF SupervisorStep

LEMMA MonitorStepType ==
  ASSUME TypeOK, NEW p \in Pids, NEW s \in Streams, MonitorStep(p, s)
  PROVE  TypeOK'
<1> USE DEF TypeOK, MonGoto, intent, lifecycle, calls, shared
<1>1. CASE AbortMonitor(p, s)
  BY <1>1 DEF AbortMonitor
<1>2. CASE MonitorRead(p, s)
  BY <1>2 DEF MonitorRead
<1>3. CASE MonitorEnd(p, s)
  BY <1>3 DEF MonitorEnd
<1>4. CASE MonitorHandle(p, s)
  <2>1. syncState' \in SyncStates
    BY <1>4, WrittenType DEF MonitorHandle
  <2>2. mon' \in [Pids -> [Streams -> {"reading", "handling", "done"}]]
    BY <1>4 DEF MonitorHandle
  <2> QED BY <1>4, <2>1, <2>2 DEF MonitorHandle
<1> QED BY <1>1, <1>2, <1>3, <1>4 DEF MonitorStep

THEOREM TypeCorrect == Spec => []TypeOK
<1>1. TypeOK /\ [Next]_vars => TypeOK'
  <2> SUFFICES ASSUME TypeOK, [Next]_vars PROVE TypeOK'
    OBVIOUS
  <2>1. CASE UNCHANGED vars
    BY <2>1 DEF TypeOK, vars, intent, lifecycle, calls, process, shared
  <2>2. CASE Next
    BY <2>2, TaskStepType, ProcessStepType, MonitorStepType DEF Next
  <2> QED BY <2>1, <2>2
<1> QED BY <1>1, InitType, PTL DEF Spec

-----------------------------------------------------------------------------
(* The inductive invariant                                                 *)

LEMMA InitInv == Init => IInv
<1> SUFFICES ASSUME Init PROVE IInv
  OBVIOUS
<1> USE DEF Init
<1>1. LockInv
  BY NoneAssumption DEF LockInv, LockedPcs, StartPcs, StopPcs
<1>2. PhaseInv
  BY DEF PhaseInv, HandEmpty, Detached, LockedPcs, StartPcs, StopPcs
<1>3. ProcInv
  BY DEF ProcInv
<1>4. PermitInv
  BY DEF PermitInv, RevokedOnlyWhileStopping
<1>5. LateWritesAwaited
  BY DEF LateWritesAwaited
<1> QED BY <1>1, <1>2, <1>3, <1>4, <1>5, InitType DEF IInv

(* A step that leaves the processes alone, and nobody's stop, leaves the late  *)
(* writers awaited.                                                            *)
LEMMA LateFrame ==
  ASSUME LateWritesAwaited, UNCHANGED <<mon, sup, gen, active>>,
         \A u \in Tasks : pc[u] \in {"signal", "join"} => pc'[u] = pc[u]
  PROVE  LateWritesAwaited'
  BY DEF LateWritesAwaited, IsActive

(* Whichever check it is, the second load of permit_is_current leaves the     *)
(* lock holder where the phases of the transaction expect it.               *)
LEMMA PermitEpochPhase == ASSUME IInv, NEW t \in Tasks, PermitEpoch(t) PROVE LockInv' /\ PhaseInv'
<1> USE DEF Goto, At, Unlock, SupGoto, MonGoto, intent, lifecycle, calls, process, shared,
            IsActive, LockedPcs, StartPcs, StopPcs
<1> USE DEF IInv, TypeOK, LockInv, PhaseInv, HandEmpty, Detached
<1>1. CASE epoch # permit[t]
  <2>1. /\ pc' = [pc EXCEPT ![t] = "idle"] /\ permit' = [permit EXCEPT ![t] = None]
        /\ lock' = None /\ inHand' = None /\ stage' = "locked" /\ UNCHANGED <<supervisor, sup>>
    BY <1>1 DEF PermitEpoch
  <2>2. lock = t
    BY DEF PermitEpoch
  <2>3. LockInv'
    BY <2>1, <2>2, NoneAssumption
  <2>4. PhaseInv'
    BY <2>1, <2>2
  <2> QED BY <2>3, <2>4
<1>2. CASE epoch = permit[t]
  <2>1. pc' = [pc EXCEPT ![t] = AfterCheck[stage]] /\ UNCHANGED <<lock, inHand, stage, permit, supervisor, sup>>
    BY <1>2 DEF PermitEpoch
  <2>2. pc[t] = "permitEpoch" BY DEF PermitEpoch
  <2>3. \/ stage = "locked" /\ AfterCheck[stage] = "invalidate"
        \/ stage = "stopped" /\ AfterCheck[stage] = "writePairs"
        \/ stage = "pairs" /\ AfterCheck[stage] = "spawn"
    BY DEF AfterCheck, Stages
  <2>4. LockInv'
    BY <2>1, <2>2, <2>3
  <2>5. PhaseInv'
    BY <2>1, <2>2, <2>3
  <2> QED BY <2>4, <2>5
<1> QED BY <1>1, <1>2

(* stop_sync_locked has joined the supervisor: nothing is left to write,     *)
(* nothing is left alive.                                                    *)
LEMMA JoinQuiet ==
  ASSUME IInv, NEW t \in Tasks, JoinSupervisor(t), NEW p \in Pids
  PROVE  /\ child'[p] # "alive" /\ sup'[p] \in {"none", "done"}
         /\ \A s \in Streams : mon'[p][s] = "done"
<1> USE DEF At
<1>1. lock = t /\ pc[t] = "join" /\ supervisor = None
  BY DEF IInv, JoinSupervisor, LockInv, PhaseInv, Detached, LockedPcs, StopPcs
<1>2. sup[p] \in {"none", "done"}
  BY <1>1, NoneAssumption DEF IInv, JoinSupervisor, ProcInv
<1>3. child[p] # "alive" /\ \A s \in Streams : mon[p][s] = "done"
  BY <1>1, <1>2 DEF IInv, ProcInv
<1> QED BY <1>2, <1>3 DEF JoinSupervisor, IInv, TypeOK

LEMMA JoinPermitLate ==
  ASSUME IInv, NEW t \in Tasks, JoinSupervisor(t), TypeOK'
  PROVE  LateWritesAwaited' /\ PermitInv'
<1>1. LateWritesAwaited'
  BY JoinQuiet DEF LateWritesAwaited
<1>2. RevokedOnlyWhileStopping'
  BY JoinQuiet DEF RevokedOnlyWhileStopping
<1>3. pc[t] = "join" /\ \A u \in Tasks : pc[u] # "spawn"
  BY DEF JoinSupervisor, IInv, LockInv, At, LockedPcs, StartPcs, StopPcs
<1>4. pc' \in {[pc EXCEPT ![t] = "idle"], [pc EXCEPT ![t] = "permitDesired"]}
  BY DEF JoinSupervisor, Unlock, Goto
<1>5. \A u \in Tasks : pc'[u] # "spawn"
  BY <1>3, <1>4 DEF IInv, TypeOK
<1> QED BY <1>1, <1>2, <1>5 DEF PermitInv

(* The supervisor that clears active_generation is the only one there is.    *)
LEMMA ClearLate == ASSUME IInv, NEW p \in Pids, ClearActive(p) PROVE LateWritesAwaited'
<1> USE DEF Goto, At, Unlock, SupGoto, MonGoto, intent, lifecycle, calls, process, shared,
            IsActive, LockedPcs, StartPcs, StopPcs
<1>1. \A q \in Pids : sup[q] # "none" => q = p
  <2>1. CASE p = supervisor
    BY <2>1, NoneAssumption DEF IInv, ProcInv, PhaseInv, LockInv, Detached, TypeOK, ClearActive
  <2>2. CASE p # supervisor
    BY <2>2, NoneAssumption DEF IInv, ProcInv, PhaseInv, LockInv, Detached, TypeOK, ClearActive
  <2> QED BY <2>1, <2>2
<1>2. ASSUME NEW q \in Pids
      PROVE  sup'[q] \in {"none", "done"} /\ \A s \in Streams : mon'[q][s] = "done"
  <2>1. sup[q] \in {"none", "clearing"}
    BY <1>1 DEF ClearActive
  <2>2. \A s \in Streams : mon[q][s] = "done"
    BY <2>1 DEF IInv, ProcInv
  <2>3. sup'[q] \in {"none", "done"} /\ UNCHANGED mon
    BY <1>1, <2>1 DEF ClearActive, IInv, TypeOK
  <2> QED BY <2>2, <2>3
<1> QED BY <1>2 DEF LateWritesAwaited, IInv, TypeOK

(* A stop that gets the mutex finds no launch under way.                     *)
LEMMA LockForStopPermit == ASSUME IInv, NEW t \in Tasks, LockForStop(t) PROVE PermitInv'
<1> USE DEF Goto, At, Unlock, SupGoto, MonGoto, intent, lifecycle, calls, process, shared,
            IsActive, LockedPcs, StartPcs, StopPcs
<1>1. \A u \in Tasks : pc[u] # "spawn" /\ pc'[u] # "spawn"
  BY NoneAssumption DEF LockForStop, IInv, LockInv, TypeOK
<1>2. Stopping(t)'
  BY DEF Stopping, LockForStop, IInv, TypeOK, PhaseInv
<1> QED BY <1>1, <1>2 DEF PermitInv, RevokedOnlyWhileStopping

(* Applying output changes nothing about who holds the process.             *)
LEMMA HandleProc == ASSUME IInv, NEW p \in Pids, NEW s \in Streams, MonitorHandle(p, s) PROVE ProcInv'
<1> USE DEF Goto, At, Unlock, SupGoto, MonGoto, intent, lifecycle, calls, process, shared,
            IsActive, LockedPcs, StartPcs, StopPcs
<1>1. sup[p] \in {"watching", "terminating", "killed", "exited"}
  BY DEF IInv, ProcInv, MonitorHandle
<1>2. UNCHANGED <<sup, child, running, supervisor, inHand, lock, pc>>
  BY DEF MonitorHandle
<1>3. \A q \in Pids : q # p => mon'[q] = mon[q]
  BY DEF MonitorHandle, IInv, TypeOK
<1> QED BY <1>1, <1>2, <1>3 DEF IInv, ProcInv
LEMMA TaskStepInv ==
  ASSUME IInv, NEW t \in Tasks, TaskStep(t)
  PROVE  IInv'
<1> USE DEF IInv, TypeOK, Goto, At, Unlock, SupGoto, MonGoto, IsActive, intent, lifecycle, calls,
            process, shared, LockedPcs, StartPcs, StopPcs
<1>1. CASE RequestStart(t)
  <2>1. TypeOK'
    BY <1>1, TaskStepType DEF TaskStep
  <2>2. LockInv' /\ PhaseInv'
    BY <1>1, <2>1, NoneAssumption DEF RequestStart, LockInv, PhaseInv, HandEmpty, Detached, Epochs
  <2>3. ProcInv'
    BY <1>1, <2>1, <2>2, NoneAssumption DEF RequestStart, LockInv, PhaseInv, ProcInv, HandEmpty, Detached
  <2>4. PermitInv'
    BY <1>1, <2>1, <2>2, NoneAssumption DEF RequestStart, LockInv, PhaseInv, HandEmpty, Detached, PermitInv,
       RevokedOnlyWhileStopping, Stopping
  <2>5. LateWritesAwaited'
    <3>1. UNCHANGED <<mon, sup, gen, active>>
      BY <1>1 DEF RequestStart
    <3>2. \A u \in Tasks : pc[u] \in {"signal", "join"} => pc'[u] = pc[u]
      BY <1>1 DEF RequestStart
    <3> QED BY <3>1, <3>2, LateFrame
  <2> QED BY <2>1, <2>2, <2>3, <2>4, <2>5
<1>2. CASE LoadEpoch(t)
  <2>1. TypeOK'
    BY <1>2, TaskStepType DEF TaskStep
  <2>2. LockInv' /\ PhaseInv'
    BY <1>2, <2>1, NoneAssumption DEF LoadEpoch, LockInv, PhaseInv, HandEmpty, Detached, Epochs
  <2>3. ProcInv'
    BY <1>2, <2>1, <2>2, NoneAssumption DEF LoadEpoch, LockInv, PhaseInv, ProcInv, HandEmpty, Detached
  <2>4. PermitInv'
    BY <1>2, <2>1, <2>2, NoneAssumption DEF LoadEpoch, LockInv, PhaseInv, HandEmpty, Detached, PermitInv,
       RevokedOnlyWhileStopping, Stopping
  <2>5. LateWritesAwaited'
    <3>1. UNCHANGED <<mon, sup, gen, active>>
      BY <1>2 DEF LoadEpoch
    <3>2. \A u \in Tasks : pc[u] \in {"signal", "join"} => pc'[u] = pc[u]
      BY <1>2 DEF LoadEpoch
    <3> QED BY <3>1, <3>2, LateFrame
  <2> QED BY <2>1, <2>2, <2>3, <2>4, <2>5
<1>3. CASE RetryLoadEpoch(t)
  <2>1. TypeOK'
    BY <1>3, TaskStepType DEF TaskStep
  <2>2. LockInv' /\ PhaseInv'
    BY <1>3, <2>1, NoneAssumption DEF RetryLoadEpoch, LockInv, PhaseInv, HandEmpty, Detached, Epochs
  <2>3. ProcInv'
    BY <1>3, <2>1, <2>2, NoneAssumption DEF RetryLoadEpoch, LockInv, PhaseInv, ProcInv, HandEmpty, Detached
  <2>4. PermitInv'
    BY <1>3, <2>1, <2>2, NoneAssumption DEF RetryLoadEpoch, LockInv, PhaseInv, HandEmpty, Detached, PermitInv,
       RevokedOnlyWhileStopping, Stopping
  <2>5. LateWritesAwaited'
    <3>1. UNCHANGED <<mon, sup, gen, active>>
      BY <1>3 DEF RetryLoadEpoch
    <3>2. \A u \in Tasks : pc[u] \in {"signal", "join"} => pc'[u] = pc[u]
      BY <1>3 DEF RetryLoadEpoch
    <3> QED BY <3>1, <3>2, LateFrame
  <2> QED BY <2>1, <2>2, <2>3, <2>4, <2>5
<1>4. CASE RetryLoadDesired(t)
  <2>1. TypeOK'
    BY <1>4, TaskStepType DEF TaskStep
  <2>2. LockInv' /\ PhaseInv'
    BY <1>4, <2>1, NoneAssumption DEF RetryLoadDesired, LockInv, PhaseInv, HandEmpty, Detached, Epochs
  <2>3. ProcInv'
    BY <1>4, <2>1, <2>2, NoneAssumption DEF RetryLoadDesired, LockInv, PhaseInv, ProcInv, HandEmpty, Detached
  <2>4. PermitInv'
    BY <1>4, <2>1, <2>2, NoneAssumption DEF RetryLoadDesired, LockInv, PhaseInv, HandEmpty, Detached, PermitInv,
       RevokedOnlyWhileStopping, Stopping
  <2>5. LateWritesAwaited'
    <3>1. UNCHANGED <<mon, sup, gen, active>>
      BY <1>4 DEF RetryLoadDesired
    <3>2. \A u \in Tasks : pc[u] \in {"signal", "join"} => pc'[u] = pc[u]
      BY <1>4 DEF RetryLoadDesired
    <3> QED BY <3>1, <3>2, LateFrame
  <2> QED BY <2>1, <2>2, <2>3, <2>4, <2>5
<1>5. CASE LockForStart(t)
  <2>1. TypeOK'
    BY <1>5, TaskStepType DEF TaskStep
  <2>2. LockInv' /\ PhaseInv'
    BY <1>5, <2>1, NoneAssumption DEF LockForStart, LockInv, PhaseInv, HandEmpty, Detached, Epochs
  <2>3. ProcInv'
    BY <1>5, <2>1, <2>2, NoneAssumption DEF LockForStart, LockInv, PhaseInv, ProcInv, HandEmpty, Detached
  <2>4. PermitInv'
    BY <1>5, <2>1, <2>2, NoneAssumption DEF LockForStart, LockInv, PhaseInv, HandEmpty, Detached, PermitInv,
       RevokedOnlyWhileStopping, Stopping
  <2>5. LateWritesAwaited'
    <3>1. UNCHANGED <<mon, sup, gen, active>>
      BY <1>5 DEF LockForStart
    <3>2. \A u \in Tasks : pc[u] \in {"signal", "join"} => pc'[u] = pc[u]
      BY <1>5 DEF LockForStart
    <3> QED BY <3>1, <3>2, LateFrame
  <2> QED BY <2>1, <2>2, <2>3, <2>4, <2>5
<1>6. CASE PermitDesired(t)
  <2>1. TypeOK'
    BY <1>6, TaskStepType DEF TaskStep
  <2>2. LockInv' /\ PhaseInv'
    <3>1. LockInv'
      BY <1>6, <2>1, NoneAssumption DEF PermitDesired, LockInv
    <3>2. PhaseInv'
      BY <1>6, <2>1, NoneAssumption DEF PermitDesired, LockInv, PhaseInv, HandEmpty, Detached
    <3> QED BY <3>1, <3>2
  <2>3. ProcInv'
    BY <1>6, <2>1, <2>2, NoneAssumption DEF PermitDesired, LockInv, PhaseInv, ProcInv, HandEmpty, Detached
  <2>4. PermitInv'
    BY <1>6, <2>1, <2>2, NoneAssumption DEF PermitDesired, LockInv, PhaseInv, HandEmpty, Detached, PermitInv,
       RevokedOnlyWhileStopping, Stopping
  <2>5. LateWritesAwaited'
    <3>1. UNCHANGED <<mon, sup, gen, active>>
      BY <1>6 DEF PermitDesired
    <3>2. \A u \in Tasks : pc[u] \in {"signal", "join"} => pc'[u] = pc[u]
      BY <1>6 DEF PermitDesired
    <3> QED BY <3>1, <3>2, LateFrame
  <2> QED BY <2>1, <2>2, <2>3, <2>4, <2>5
<1>7. CASE PermitEpoch(t)
  <2>1. TypeOK'
    BY <1>7, TaskStepType DEF TaskStep
  <2>2. LockInv' /\ PhaseInv'
    BY <1>7, PermitEpochPhase
  <2>3. ProcInv'
    BY <1>7, <2>1, <2>2, NoneAssumption DEF PermitEpoch, LockInv, PhaseInv, ProcInv, HandEmpty, Detached, AfterCheck
  <2>4. PermitInv'
    BY <1>7, <2>1, <2>2, NoneAssumption DEF PermitEpoch, LockInv, PhaseInv, HandEmpty, Detached, PermitInv,
       RevokedOnlyWhileStopping, Stopping, AfterCheck
  <2>5. LateWritesAwaited'
    <3>1. UNCHANGED <<mon, sup, gen, active>>
      BY <1>7 DEF PermitEpoch
    <3>2. \A u \in Tasks : pc[u] \in {"signal", "join"} => pc'[u] = pc[u]
      BY <1>7 DEF PermitEpoch
    <3> QED BY <3>1, <3>2, LateFrame
  <2> QED BY <2>1, <2>2, <2>3, <2>4, <2>5
<1>8. CASE WriteSyncPairs(t)
  <2>1. TypeOK'
    BY <1>8, TaskStepType DEF TaskStep
  <2>2. LockInv' /\ PhaseInv'
    <3>1. LockInv'
      BY <1>8, <2>1, NoneAssumption DEF WriteSyncPairs, LockInv
    <3>2. PhaseInv'
      BY <1>8, <2>1, NoneAssumption DEF WriteSyncPairs, LockInv, PhaseInv, HandEmpty, Detached
    <3> QED BY <3>1, <3>2
  <2>3. ProcInv'
    BY <1>8, <2>1, <2>2, NoneAssumption DEF WriteSyncPairs, LockInv, PhaseInv, ProcInv, HandEmpty, Detached
  <2>4. PermitInv'
    BY <1>8, <2>1, <2>2, NoneAssumption DEF WriteSyncPairs, LockInv, PhaseInv, HandEmpty, Detached, PermitInv,
       RevokedOnlyWhileStopping, Stopping
  <2>5. LateWritesAwaited'
    <3>1. UNCHANGED <<mon, sup, gen, active>>
      BY <1>8 DEF WriteSyncPairs
    <3>2. \A u \in Tasks : pc[u] \in {"signal", "join"} => pc'[u] = pc[u]
      BY <1>8 DEF WriteSyncPairs
    <3> QED BY <3>1, <3>2, LateFrame
  <2> QED BY <2>1, <2>2, <2>3, <2>4, <2>5
<1>9. ASSUME NEW p \in Pids, SpawnChild(t, p) PROVE IInv'
  <2>1. TypeOK'
    BY <1>9, TaskStepType DEF TaskStep
  <2>2. LockInv' /\ PhaseInv'
    BY <1>9, <2>1, NoneAssumption DEF SpawnChild, LockInv, PhaseInv, HandEmpty, Detached, Epochs
  <2>3. ProcInv'
    BY <1>9, <2>1, <2>2, NoneAssumption DEF SpawnChild, LockInv, PhaseInv, ProcInv, HandEmpty, Detached
  <2>4. PermitInv'
    BY <1>9, <2>1, <2>2, NoneAssumption DEF SpawnChild, LockInv, PhaseInv, HandEmpty, Detached, PermitInv,
       RevokedOnlyWhileStopping, Stopping
  <2>5. LateWritesAwaited'
    BY <1>9, <2>1, NoneAssumption DEF SpawnChild, LockInv, PhaseInv, ProcInv, HandEmpty, Detached,
       LateWritesAwaited
  <2> QED BY <2>1, <2>2, <2>3, <2>4, <2>5
<1>10. CASE SpawnFails(t)
  <2>1. TypeOK'
    BY <1>10, TaskStepType DEF TaskStep
  <2>2. LockInv' /\ PhaseInv'
    BY <1>10, <2>1, NoneAssumption DEF SpawnFails, LockInv, PhaseInv, HandEmpty, Detached, Epochs
  <2>3. ProcInv'
    BY <1>10, <2>1, <2>2, NoneAssumption DEF SpawnFails, LockInv, PhaseInv, ProcInv, HandEmpty, Detached
  <2>4. PermitInv'
    BY <1>10, <2>1, <2>2, NoneAssumption DEF SpawnFails, LockInv, PhaseInv, HandEmpty, Detached, PermitInv,
       RevokedOnlyWhileStopping, Stopping
  <2>5. LateWritesAwaited'
    <3>1. UNCHANGED <<mon, sup, gen, active>>
      BY <1>10 DEF SpawnFails
    <3>2. \A u \in Tasks : pc[u] \in {"signal", "join"} => pc'[u] = pc[u]
      BY <1>10 DEF SpawnFails
    <3> QED BY <3>1, <3>2, LateFrame
  <2> QED BY <2>1, <2>2, <2>3, <2>4, <2>5
<1>11. CASE PublishScanning(t)
  <2>1. TypeOK'
    BY <1>11, TaskStepType DEF TaskStep
  <2>2. LockInv' /\ PhaseInv'
    BY <1>11, <2>1, NoneAssumption DEF PublishScanning, LockInv, PhaseInv, HandEmpty, Detached, Epochs
  <2>3. ProcInv'
    BY <1>11, <2>1, <2>2, NoneAssumption DEF PublishScanning, LockInv, PhaseInv, ProcInv, HandEmpty, Detached
  <2>4. PermitInv'
    BY <1>11, <2>1, <2>2, NoneAssumption DEF PublishScanning, LockInv, PhaseInv, HandEmpty, Detached, PermitInv,
       RevokedOnlyWhileStopping, Stopping
  <2>5. LateWritesAwaited'
    <3>1. UNCHANGED <<mon, sup, gen, active>>
      BY <1>11 DEF PublishScanning
    <3>2. \A u \in Tasks : pc[u] \in {"signal", "join"} => pc'[u] = pc[u]
      BY <1>11 DEF PublishScanning
    <3> QED BY <3>1, <3>2, LateFrame
  <2> QED BY <2>1, <2>2, <2>3, <2>4, <2>5
<1>12. CASE AdoptChild(t)
  <2>1. TypeOK'
    BY <1>12, TaskStepType DEF TaskStep
  <2>2. LockInv' /\ PhaseInv'
    BY <1>12, <2>1, NoneAssumption DEF AdoptChild, LockInv, PhaseInv, HandEmpty, Detached, Epochs
  <2>3. ProcInv'
    BY <1>12, <2>1, <2>2, NoneAssumption DEF AdoptChild, LockInv, PhaseInv, ProcInv, HandEmpty, Detached
  <2>4. PermitInv'
    BY <1>12, <2>1, <2>2, NoneAssumption DEF AdoptChild, LockInv, PhaseInv, HandEmpty, Detached, PermitInv,
       RevokedOnlyWhileStopping, Stopping
  <2>5. LateWritesAwaited'
    <3>0. supervisor = None /\ pc[lock] = "adopt"
      BY <1>12 DEF AdoptChild, LockInv, PhaseInv, Detached
    <3>1. \A p \in Pids : sup[p] = "none" /\ \A r \in Streams : mon[p][r] = "done"
      BY <3>0, NoneAssumption DEF ProcInv
    <3>2. \A p \in Pids : sup'[p] \in {"none", "watching"}
      BY <1>12, <3>1 DEF AdoptChild
    <3>3. \A p \in Pids, r \in Streams : mon'[p][r] \in {"done", "reading"}
      BY <1>12, <3>1 DEF AdoptChild
    <3> QED BY <3>2, <3>3 DEF LateWritesAwaited
  <2> QED BY <2>1, <2>2, <2>3, <2>4, <2>5
<1>13. CASE HandleStartError(t)
  <2>1. TypeOK'
    BY <1>13, TaskStepType DEF TaskStep
  <2>2. LockInv' /\ PhaseInv'
    BY <1>13, <2>1, NoneAssumption DEF HandleStartError, LockInv, PhaseInv, HandEmpty, Detached, Epochs
  <2>3. ProcInv'
    BY <1>13, <2>1, <2>2, NoneAssumption DEF HandleStartError, LockInv, PhaseInv, ProcInv, HandEmpty, Detached
  <2>4. PermitInv'
    BY <1>13, <2>1, <2>2, NoneAssumption DEF HandleStartError, LockInv, PhaseInv, HandEmpty, Detached, PermitInv,
       RevokedOnlyWhileStopping, Stopping
  <2>5. LateWritesAwaited'
    <3>1. UNCHANGED <<mon, sup, gen, active>>
      BY <1>13 DEF HandleStartError
    <3>2. \A u \in Tasks : pc[u] \in {"signal", "join"} => pc'[u] = pc[u]
      BY <1>13 DEF HandleStartError
    <3> QED BY <3>1, <3>2, LateFrame
  <2> QED BY <2>1, <2>2, <2>3, <2>4, <2>5
<1>14. CASE RequestStop(t)
  <2>1. TypeOK'
    BY <1>14, TaskStepType DEF TaskStep
  <2>2. LockInv' /\ PhaseInv'
    BY <1>14, <2>1, NoneAssumption DEF RequestStop, LockInv, PhaseInv, HandEmpty, Detached, Epochs
  <2>3. ProcInv'
    BY <1>14, <2>1, <2>2, NoneAssumption DEF RequestStop, LockInv, PhaseInv, ProcInv, HandEmpty, Detached
  <2>4. PermitInv'
    BY <1>14, <2>1, <2>2, NoneAssumption DEF RequestStop, LockInv, PhaseInv, HandEmpty, Detached, PermitInv,
       RevokedOnlyWhileStopping, Stopping
  <2>5. LateWritesAwaited'
    <3>1. UNCHANGED <<mon, sup, gen, active>>
      BY <1>14 DEF RequestStop
    <3>2. \A u \in Tasks : pc[u] \in {"signal", "join"} => pc'[u] = pc[u]
      BY <1>14 DEF RequestStop
    <3> QED BY <3>1, <3>2, LateFrame
  <2> QED BY <2>1, <2>2, <2>3, <2>4, <2>5
<1>15. CASE RevokePermits(t)
  <2>1. TypeOK'
    BY <1>15, TaskStepType DEF TaskStep
  <2>2. LockInv' /\ PhaseInv'
    BY <1>15, <2>1, NoneAssumption DEF RevokePermits, LockInv, PhaseInv, HandEmpty, Detached, Epochs
  <2>3. ProcInv'
    BY <1>15, <2>1, <2>2, NoneAssumption DEF RevokePermits, LockInv, PhaseInv, ProcInv, HandEmpty, Detached
  <2>4. PermitInv'
    BY <1>15, <2>1, <2>2, NoneAssumption DEF RevokePermits, LockInv, PhaseInv, HandEmpty, Detached, PermitInv,
       RevokedOnlyWhileStopping, Stopping
  <2>5. LateWritesAwaited'
    <3>1. UNCHANGED <<mon, sup, gen, active>>
      BY <1>15 DEF RevokePermits
    <3>2. \A u \in Tasks : pc[u] \in {"signal", "join"} => pc'[u] = pc[u]
      BY <1>15 DEF RevokePermits
    <3> QED BY <3>1, <3>2, LateFrame
  <2> QED BY <2>1, <2>2, <2>3, <2>4, <2>5
<1>16. CASE LockForStop(t)
  <2>1. TypeOK'
    BY <1>16, TaskStepType DEF TaskStep
  <2>2. LockInv' /\ PhaseInv'
    BY <1>16, <2>1, NoneAssumption DEF LockForStop, LockInv, PhaseInv, HandEmpty, Detached, Epochs
  <2>3. ProcInv'
    BY <1>16, <2>1, <2>2, NoneAssumption DEF LockForStop, LockInv, PhaseInv, ProcInv, HandEmpty, Detached
  <2>4. PermitInv'
    BY <1>16, LockForStopPermit
  <2>5. LateWritesAwaited'
    <3>1. UNCHANGED <<mon, sup, gen, active>>
      BY <1>16 DEF LockForStop
    <3>2. \A u \in Tasks : pc[u] \in {"signal", "join"} => pc'[u] = pc[u]
      BY <1>16 DEF LockForStop
    <3> QED BY <3>1, <3>2, LateFrame
  <2> QED BY <2>1, <2>2, <2>3, <2>4, <2>5
<1>17. CASE Invalidate(t)
  <2>1. TypeOK'
    BY <1>17, TaskStepType DEF TaskStep
  <2>2. LockInv' /\ PhaseInv'
    BY <1>17, <2>1, NoneAssumption DEF Invalidate, LockInv, PhaseInv, HandEmpty, Detached, Epochs
  <2>3. ProcInv'
    BY <1>17, <2>1, <2>2, NoneAssumption DEF Invalidate, LockInv, PhaseInv, ProcInv, HandEmpty, Detached
  <2>4. PermitInv'
    BY <1>17, <2>1, <2>2, NoneAssumption DEF Invalidate, LockInv, PhaseInv, HandEmpty, Detached, PermitInv,
       RevokedOnlyWhileStopping, Stopping
  <2>5. LateWritesAwaited'
    BY <1>17, <2>1, NoneAssumption DEF Invalidate, LockInv, PhaseInv, ProcInv, HandEmpty, Detached,
       LateWritesAwaited
  <2> QED BY <2>1, <2>2, <2>3, <2>4, <2>5
<1>18. CASE SignalStop(t)
  <2>1. TypeOK'
    BY <1>18, TaskStepType DEF TaskStep
  <2>2. LockInv' /\ PhaseInv'
    BY <1>18, <2>1, NoneAssumption DEF SignalStop, LockInv, PhaseInv, HandEmpty, Detached, Epochs
  <2>3. ProcInv'
    BY <1>18, <2>1, <2>2, NoneAssumption DEF SignalStop, LockInv, PhaseInv, ProcInv, HandEmpty, Detached
  <2>4. PermitInv'
    BY <1>18, <2>1, <2>2, NoneAssumption DEF SignalStop, LockInv, PhaseInv, HandEmpty, Detached, PermitInv,
       RevokedOnlyWhileStopping, Stopping
  <2>5. LateWritesAwaited'
    BY <1>18, <2>1, NoneAssumption DEF SignalStop, LockInv, PhaseInv, ProcInv, HandEmpty, Detached,
       LateWritesAwaited
  <2> QED BY <2>1, <2>2, <2>3, <2>4, <2>5
<1>19. CASE JoinSupervisor(t)
  <2>1. TypeOK'
    BY <1>19, TaskStepType DEF TaskStep
  <2>2. LockInv' /\ PhaseInv'
    BY <1>19, <2>1, NoneAssumption DEF JoinSupervisor, LockInv, PhaseInv, HandEmpty, Detached, Epochs
  <2>3. ProcInv'
    BY <1>19, <2>1, <2>2, NoneAssumption DEF JoinSupervisor, LockInv, PhaseInv, ProcInv, HandEmpty, Detached
  <2>4. PermitInv' /\ LateWritesAwaited'
    BY <1>19, <2>1, JoinPermitLate
  <2> QED BY <2>1, <2>2, <2>3, <2>4
<1>20. CASE CallerWrites(t)
  <2>1. TypeOK'
    BY <1>20, TaskStepType DEF TaskStep
  <2>2. LockInv' /\ PhaseInv'
    BY <1>20, <2>1, NoneAssumption DEF CallerWrites, LockInv, PhaseInv, HandEmpty, Detached, Epochs
  <2>3. ProcInv'
    BY <1>20, <2>1, <2>2, NoneAssumption DEF CallerWrites, LockInv, PhaseInv, ProcInv, HandEmpty, Detached
  <2>4. PermitInv'
    BY <1>20, <2>1, <2>2, NoneAssumption DEF CallerWrites, LockInv, PhaseInv, HandEmpty, Detached, PermitInv,
       RevokedOnlyWhileStopping, Stopping
  <2>5. LateWritesAwaited'
    <3>1. UNCHANGED <<mon, sup, gen, active>>
      BY <1>20 DEF CallerWrites
    <3>2. \A u \in Tasks : pc[u] \in {"signal", "join"} => pc'[u] = pc[u]
      BY <1>20 DEF CallerWrites
    <3> QED BY <3>1, <3>2, LateFrame
  <2> QED BY <2>1, <2>2, <2>3, <2>4, <2>5
<1> QED BY <1>1, <1>2, <1>3, <1>4, <1>5, <1>6, <1>7, <1>8, <1>9, <1>10, <1>11, <1>12,
        <1>13, <1>14, <1>15, <1>16, <1>17, <1>18, <1>19, <1>20 DEF TaskStep

LEMMA ProcessStepInv ==
  ASSUME IInv, NEW p \in Pids, SupervisorStep(p) \/ ChildExits(p)
  PROVE  IInv'
<1> USE DEF IInv, TypeOK, Goto, At, Unlock, SupGoto, MonGoto, IsActive, intent, lifecycle, calls,
            process, shared, LockedPcs, StartPcs, StopPcs
<1>1. CASE SuperviseStop(p)
  <2>1. TypeOK'
    BY <1>1, ProcessStepType DEF SupervisorStep
  <2>2. LockInv' /\ PhaseInv'
    BY <1>1 DEF SuperviseStop, LockInv, PhaseInv, ProcInv, HandEmpty, Detached
  <2>3. ProcInv'
    BY <1>1, <2>1, <2>2, NoneAssumption DEF SuperviseStop, LockInv, PhaseInv, ProcInv, HandEmpty, Detached
  <2>4. PermitInv'
    BY <1>1, <2>1, <2>2, NoneAssumption DEF SuperviseStop, LockInv, PhaseInv, HandEmpty, Detached, PermitInv,
       RevokedOnlyWhileStopping, Stopping
  <2>5. LateWritesAwaited'
    BY <1>1, <2>1, NoneAssumption DEF SuperviseStop, LockInv, PhaseInv, ProcInv, HandEmpty, Detached,
       LateWritesAwaited
  <2> QED BY <2>1, <2>2, <2>3, <2>4, <2>5
<1>2. CASE SuperviseExit(p)
  <2>1. TypeOK'
    BY <1>2, ProcessStepType DEF SupervisorStep
  <2>2. LockInv' /\ PhaseInv'
    BY <1>2 DEF SuperviseExit, LockInv, PhaseInv, ProcInv, HandEmpty, Detached
  <2>3. ProcInv'
    BY <1>2, <2>1, <2>2, NoneAssumption DEF SuperviseExit, LockInv, PhaseInv, ProcInv, HandEmpty, Detached
  <2>4. PermitInv'
    BY <1>2, <2>1, <2>2, NoneAssumption DEF SuperviseExit, LockInv, PhaseInv, HandEmpty, Detached, PermitInv,
       RevokedOnlyWhileStopping, Stopping
  <2>5. LateWritesAwaited'
    BY <1>2, <2>1, NoneAssumption DEF SuperviseExit, LockInv, PhaseInv, ProcInv, HandEmpty, Detached,
       LateWritesAwaited
  <2> QED BY <2>1, <2>2, <2>3, <2>4, <2>5
<1>3. CASE Terminate(p)
  <2>1. TypeOK'
    BY <1>3, ProcessStepType DEF SupervisorStep
  <2>2. LockInv' /\ PhaseInv'
    BY <1>3 DEF Terminate, LockInv, PhaseInv, ProcInv, HandEmpty, Detached
  <2>3. ProcInv'
    BY <1>3, <2>1, <2>2, NoneAssumption DEF Terminate, LockInv, PhaseInv, ProcInv, HandEmpty, Detached
  <2>4. PermitInv'
    BY <1>3, <2>1, <2>2, NoneAssumption DEF Terminate, LockInv, PhaseInv, HandEmpty, Detached, PermitInv,
       RevokedOnlyWhileStopping, Stopping
  <2>5. LateWritesAwaited'
    BY <1>3, <2>1, NoneAssumption DEF Terminate, LockInv, PhaseInv, ProcInv, HandEmpty, Detached,
       LateWritesAwaited
  <2> QED BY <2>1, <2>2, <2>3, <2>4, <2>5
<1>4. CASE JoinMonitors(p)
  <2>1. TypeOK'
    BY <1>4, ProcessStepType DEF SupervisorStep
  <2>2. LockInv' /\ PhaseInv'
    BY <1>4 DEF JoinMonitors, LockInv, PhaseInv, ProcInv, HandEmpty, Detached
  <2>3. ProcInv'
    BY <1>4, <2>1, <2>2, NoneAssumption DEF JoinMonitors, LockInv, PhaseInv, ProcInv, HandEmpty, Detached
  <2>4. PermitInv'
    BY <1>4, <2>1, <2>2, NoneAssumption DEF JoinMonitors, LockInv, PhaseInv, HandEmpty, Detached, PermitInv,
       RevokedOnlyWhileStopping, Stopping
  <2>5. LateWritesAwaited'
    BY <1>4, <2>1, NoneAssumption DEF JoinMonitors, LockInv, PhaseInv, ProcInv, HandEmpty, Detached,
       LateWritesAwaited
  <2> QED BY <2>1, <2>2, <2>3, <2>4, <2>5
<1>5. CASE DiagnoseExit(p)
  <2>1. TypeOK'
    BY <1>5, ProcessStepType DEF SupervisorStep
  <2>2. LockInv' /\ PhaseInv'
    BY <1>5 DEF DiagnoseExit, LockInv, PhaseInv, ProcInv, HandEmpty, Detached
  <2>3. ProcInv'
    BY <1>5, <2>1, <2>2, NoneAssumption DEF DiagnoseExit, LockInv, PhaseInv, ProcInv, HandEmpty, Detached
  <2>4. PermitInv'
    BY <1>5, <2>1, <2>2, NoneAssumption DEF DiagnoseExit, LockInv, PhaseInv, HandEmpty, Detached, PermitInv,
       RevokedOnlyWhileStopping, Stopping
  <2>5. LateWritesAwaited'
    BY <1>5, <2>1, NoneAssumption DEF DiagnoseExit, LockInv, PhaseInv, ProcInv, HandEmpty, Detached,
       LateWritesAwaited
  <2> QED BY <2>1, <2>2, <2>3, <2>4, <2>5
<1>6. CASE ReportExit(p)
  <2>1. TypeOK'
    BY <1>6, ProcessStepType DEF SupervisorStep
  <2>2. LockInv' /\ PhaseInv'
    BY <1>6 DEF ReportExit, LockInv, PhaseInv, ProcInv, HandEmpty, Detached
  <2>3. ProcInv'
    BY <1>6, <2>1, <2>2, NoneAssumption DEF ReportExit, LockInv, PhaseInv, ProcInv, HandEmpty, Detached
  <2>4. PermitInv'
    BY <1>6, <2>1, <2>2, NoneAssumption DEF ReportExit, LockInv, PhaseInv, HandEmpty, Detached, PermitInv,
       RevokedOnlyWhileStopping, Stopping
  <2>5. LateWritesAwaited'
    BY <1>6, <2>1, NoneAssumption DEF ReportExit, LockInv, PhaseInv, ProcInv, HandEmpty, Detached,
       LateWritesAwaited
  <2> QED BY <2>1, <2>2, <2>3, <2>4, <2>5
<1>7. CASE ClearActive(p)
  <2>1. TypeOK'
    BY <1>7, ProcessStepType DEF SupervisorStep
  <2>2. LockInv' /\ PhaseInv'
    BY <1>7 DEF ClearActive, LockInv, PhaseInv, ProcInv, HandEmpty, Detached
  <2>3. ProcInv'
    BY <1>7, <2>1, <2>2, NoneAssumption DEF ClearActive, LockInv, PhaseInv, ProcInv, HandEmpty, Detached
  <2>4. PermitInv'
    BY <1>7, <2>1, <2>2, NoneAssumption DEF ClearActive, LockInv, PhaseInv, HandEmpty, Detached, PermitInv,
       RevokedOnlyWhileStopping, Stopping
  <2>5. LateWritesAwaited'
    BY <1>7, ClearLate
  <2> QED BY <2>1, <2>2, <2>3, <2>4, <2>5
<1>8. CASE ChildExits(p)
  <2>1. TypeOK'
    BY <1>8, ProcessStepType DEF SupervisorStep
  <2>2. LockInv' /\ PhaseInv'
    BY <1>8 DEF ChildExits, LockInv, PhaseInv, ProcInv, HandEmpty, Detached
  <2>3. ProcInv'
    BY <1>8, <2>1, <2>2, NoneAssumption DEF ChildExits, LockInv, PhaseInv, ProcInv, HandEmpty, Detached
  <2>4. PermitInv'
    BY <1>8, <2>1, <2>2, NoneAssumption DEF ChildExits, LockInv, PhaseInv, HandEmpty, Detached, PermitInv,
       RevokedOnlyWhileStopping, Stopping
  <2>5. LateWritesAwaited'
    BY <1>8, <2>1, NoneAssumption DEF ChildExits, LockInv, PhaseInv, ProcInv, HandEmpty, Detached,
       LateWritesAwaited
  <2> QED BY <2>1, <2>2, <2>3, <2>4, <2>5
<1> QED BY <1>1, <1>2, <1>3, <1>4, <1>5, <1>6, <1>7, <1>8 DEF SupervisorStep

LEMMA MonitorStepInv ==
  ASSUME IInv, NEW p \in Pids, NEW s \in Streams, MonitorStep(p, s)
  PROVE  IInv'
<1> USE DEF IInv, TypeOK, Goto, At, Unlock, SupGoto, MonGoto, IsActive, intent, lifecycle, calls,
            process, shared, LockedPcs, StartPcs, StopPcs
<1>1. CASE AbortMonitor(p, s)
  <2>1. TypeOK'
    BY <1>1, MonitorStepType DEF MonitorStep
  <2>2. LockInv' /\ PhaseInv'
    BY <1>1 DEF AbortMonitor, LockInv, PhaseInv, ProcInv, HandEmpty, Detached
  <2>3. ProcInv'
    BY <1>1, <2>1, <2>2, NoneAssumption DEF AbortMonitor, LockInv, PhaseInv, ProcInv, HandEmpty, Detached
  <2>4. PermitInv'
    BY <1>1, <2>1, <2>2, NoneAssumption DEF AbortMonitor, LockInv, PhaseInv, HandEmpty, Detached, PermitInv,
       RevokedOnlyWhileStopping, Stopping
  <2>5. LateWritesAwaited'
    BY <1>1, <2>1, NoneAssumption DEF AbortMonitor, LockInv, PhaseInv, ProcInv, HandEmpty, Detached,
       LateWritesAwaited
  <2> QED BY <2>1, <2>2, <2>3, <2>4, <2>5
<1>2. CASE MonitorRead(p, s)
  <2>1. TypeOK'
    BY <1>2, MonitorStepType DEF MonitorStep
  <2>2. LockInv' /\ PhaseInv'
    BY <1>2 DEF MonitorRead, LockInv, PhaseInv, ProcInv, HandEmpty, Detached
  <2>3. ProcInv'
    BY <1>2, <2>1, <2>2, NoneAssumption DEF MonitorRead, LockInv, PhaseInv, ProcInv, HandEmpty, Detached
  <2>4. PermitInv'
    BY <1>2, <2>1, <2>2, NoneAssumption DEF MonitorRead, LockInv, PhaseInv, HandEmpty, Detached, PermitInv,
       RevokedOnlyWhileStopping, Stopping
  <2>5. LateWritesAwaited'
    BY <1>2, <2>1, NoneAssumption DEF MonitorRead, LockInv, PhaseInv, ProcInv, HandEmpty, Detached,
       LateWritesAwaited
  <2> QED BY <2>1, <2>2, <2>3, <2>4, <2>5
<1>3. CASE MonitorEnd(p, s)
  <2>1. TypeOK'
    BY <1>3, MonitorStepType DEF MonitorStep
  <2>2. LockInv' /\ PhaseInv'
    BY <1>3 DEF MonitorEnd, LockInv, PhaseInv, ProcInv, HandEmpty, Detached
  <2>3. ProcInv'
    BY <1>3, <2>1, <2>2, NoneAssumption DEF MonitorEnd, LockInv, PhaseInv, ProcInv, HandEmpty, Detached
  <2>4. PermitInv'
    BY <1>3, <2>1, <2>2, NoneAssumption DEF MonitorEnd, LockInv, PhaseInv, HandEmpty, Detached, PermitInv,
       RevokedOnlyWhileStopping, Stopping
  <2>5. LateWritesAwaited'
    BY <1>3, <2>1, NoneAssumption DEF MonitorEnd, LockInv, PhaseInv, ProcInv, HandEmpty, Detached,
       LateWritesAwaited
  <2> QED BY <2>1, <2>2, <2>3, <2>4, <2>5
<1>4. CASE MonitorHandle(p, s)
  <2>1. TypeOK'
    BY <1>4, MonitorStepType DEF MonitorStep
  <2>2. LockInv' /\ PhaseInv'
    BY <1>4 DEF MonitorHandle, LockInv, PhaseInv, ProcInv, HandEmpty, Detached
  <2>3. ProcInv'
    BY <1>4, HandleProc
  <2>4. PermitInv'
    BY <1>4, <2>1, <2>2, NoneAssumption DEF MonitorHandle, LockInv, PhaseInv, HandEmpty, Detached, PermitInv,
       RevokedOnlyWhileStopping, Stopping
  <2>5. LateWritesAwaited'
    <3>1. UNCHANGED <<pc, sup, gen, active>>
      BY <1>4 DEF MonitorHandle
    <3>2. \A q \in Pids, r \in Streams :
             mon'[q][r] = "handling" => \E v \in Streams : mon[q][v] = "handling"
      BY <1>4 DEF MonitorHandle
    <3> QED BY <3>1, <3>2 DEF LateWritesAwaited
  <2> QED BY <2>1, <2>2, <2>3, <2>4, <2>5
<1> QED BY <1>1, <1>2, <1>3, <1>4 DEF MonitorStep

LEMMA StepInv == IInv /\ [Next]_vars => IInv'
<1> SUFFICES ASSUME IInv, [Next]_vars PROVE IInv'
  OBVIOUS
<1>1. CASE UNCHANGED vars
  BY <1>1 DEF vars, intent, lifecycle, calls, process, shared, IInv, TypeOK, LockInv, PhaseInv,
     ProcInv, PermitInv, LateWritesAwaited, RevokedOnlyWhileStopping, Stopping, IsActive
<1>2. CASE Next
  BY <1>2, TaskStepInv, ProcessStepInv, MonitorStepInv DEF Next
<1> QED BY <1>1, <1>2

THEOREM Invariance == Spec => []IInv
  BY InitInv, StepInv, PTL DEF Spec

-----------------------------------------------------------------------------
(* What the callers rely on                                                *)

LEMMA BusyHasOwner ==
  ASSUME IInv, NEW p \in Pids, Busy(p)
  PROVE  \/ p = supervisor /\ ~\E t \in Tasks : pc[t] \in Detached
         \/ p = inHand /\ \E t \in Tasks : pc[t] \in {"join", "publish", "adopt"}
<1>1. lock # None => lock \in Tasks
  BY DEF IInv, TypeOK
<1>2. p = supervisor \/ (p = inHand /\ pc[lock] \in {"join", "publish", "adopt"})
  BY DEF IInv, Busy, ProcInv, TypeOK, SupSteps
<1>3. CASE p = supervisor
  BY <1>3, NoneAssumption DEF IInv, PhaseInv
<1>4. CASE p # supervisor
  BY <1>1, <1>2, <1>4, NoneAssumption DEF IInv, PhaseInv
<1> QED BY <1>3, <1>4

(* However starts, retries and stops interleave, at most one CLI process is   *)
(* alive, supervised or monitored.                                            *)
THEOREM OneProcess == Spec => []AtMostOneProcess
<1>1. IInv => AtMostOneProcess
  <2> SUFFICES ASSUME IInv, NEW p \in Pids, NEW q \in Pids, Busy(p), Busy(q) PROVE p = q
    BY DEF AtMostOneProcess
  <2> QED BY BusyHasOwner DEF Detached
<1> QED BY <1>1, Invariance, PTL

(* A process outlives the revocation of its permit only while the revoking     *)
(* stop_sync is still in progress.                                             *)
THEOREM NothingSurvivesStop == Spec => []RevokedOnlyWhileStopping
<1>1. IInv => RevokedOnlyWhileStopping
  BY DEF IInv, PermitInv
<1> QED BY <1>1, Invariance, PTL

(* With the mutex free and `running` down no CLI process is alive.             *)
THEOREM HonestFlag == Spec => []RunningFlagHonest
<1>1. IInv => RunningFlagHonest
  <2> SUFFICES ASSUME IInv, lock = None, ~running, NEW p \in Pids, child[p] = "alive" PROVE FALSE
    BY DEF RunningFlagHonest
  <2>1. inHand = None
    BY DEF IInv, PhaseInv
  <2> QED BY <2>1, NoneAssumption DEF IInv, ProcInv
<1> QED BY <1>1, Invariance, PTL

(* A writer of an invalidated generation is being waited for.                  *)
THEOREM LateWriters == Spec => []LateWritesAwaited
<1>1. IInv => LateWritesAwaited
  BY DEF IInv
<1> QED BY <1>1, Invariance, PTL

(* Only the join of the supervisor takes a task out of "join".                *)
LEMMA LeavesJoin ==
  ASSUME IInv, [Next]_vars, NEW t \in Tasks, pc[t] = "join", pc'[t] # "join"
  PROVE  JoinSupervisor(t)
<1> USE DEF IInv, TypeOK, At, Goto, Unlock, calls
<1>1. Next
  BY DEF vars
<1>2. ASSUME NEW p \in Pids, SupervisorStep(p) \/ ChildExits(p) PROVE FALSE
  BY <1>2 DEF SupervisorStep, SuperviseStop, SuperviseExit, Terminate, JoinMonitors, DiagnoseExit,
     ReportExit, ClearActive, ChildExits
<1>3. ASSUME NEW p \in Pids, NEW s \in Streams, MonitorStep(p, s) PROVE FALSE
  BY <1>3 DEF MonitorStep, AbortMonitor, MonitorRead, MonitorEnd, MonitorHandle
<1>4. PICK u \in Tasks : TaskStep(u)
  BY <1>1, <1>2, <1>3 DEF Next
<1>5. \A v \in Tasks : v # u => pc'[v] = pc[v]
  <2> USE <1>4 DEF TaskStep
  <2>1. CASE RequestStart(u) \/ LoadEpoch(u) \/ RetryLoadEpoch(u) \/ RetryLoadDesired(u)
             \/ LockForStart(u) \/ PermitDesired(u) \/ PermitEpoch(u) \/ WriteSyncPairs(u)
    BY <2>1 DEF RequestStart, LoadEpoch, RetryLoadEpoch, RetryLoadDesired, LockForStart,
       PermitDesired, PermitEpoch, WriteSyncPairs
  <2>2. CASE (\E p \in Pids : SpawnChild(u, p)) \/ SpawnFails(u) \/ PublishScanning(u)
             \/ AdoptChild(u) \/ HandleStartError(u) \/ CallerWrites(u)
    BY <2>2 DEF SpawnChild, SpawnFails, PublishScanning, AdoptChild, HandleStartError, CallerWrites
  <2>3. CASE RequestStop(u) \/ RevokePermits(u) \/ LockForStop(u) \/ Invalidate(u)
             \/ SignalStop(u) \/ JoinSupervisor(u)
    BY <2>3 DEF RequestStop, RevokePermits, LockForStop, Invalidate, SignalStop, JoinSupervisor
  <2> QED BY <2>1, <2>2, <2>3
<1>6. u = t
  BY <1>5
<1> QED BY <1>4, <1>6 DEF TaskStep, RequestStart, LoadEpoch, RetryLoadEpoch, RetryLoadDesired,
        LockForStart, PermitDesired, PermitEpoch, WriteSyncPairs, SpawnChild, SpawnFails,
        PublishScanning, AdoptChild, HandleStartError, RequestStop, RevokePermits, LockForStop,
        Invalidate, SignalStop, CallerWrites

(* stop_sync returns with nothing alive, supervised or monitored.              *)
THEOREM QuietStop == Spec => StopReturnsQuiet
<1> DEFINE Quiet == \A t \in Tasks :
               At(t, "join") /\ pc'[t] = "idle" => \A p \in Pids : ~Busy(p)'
<1>1. IInv /\ [Next]_vars => Quiet
  <2> SUFFICES ASSUME IInv, [Next]_vars, NEW t \in Tasks, At(t, "join"), pc'[t] = "idle",
                      NEW p \in Pids
               PROVE  ~Busy(p)'
    OBVIOUS
  <2>1. JoinSupervisor(t)
    BY LeavesJoin DEF At
  <2> QED BY <2>1, JoinQuiet DEF Busy
<1>2. IInv /\ [Next]_vars => [Quiet]_vars
  BY <1>1
<1> HIDE DEF Quiet
<1>3. Spec => [][Quiet]_vars
  BY <1>2, Invariance, PTL DEF Spec
<1> QED BY <1>3 DEF Quiet, StopReturnsQuiet

-----------------------------------------------------------------------------
(***************************************************************************)
(* CliManager implements SyncSlot.                                         *)
(***************************************************************************)

\* The process was spawned by the lock holder and has no supervisor yet.
Held(p) == p = inHand /\ pc[lock] \in {"publish", "adopt"}

\* No permit is ahead of the epoch.
PermitBound == \A t \in Tasks : permit[t] # None => permit[t] <= epoch

LEMMA PermitBounded == Spec => []PermitBound
<1>1. Init => PermitBound
  BY DEF Init, PermitBound
<1>2. TypeOK /\ PermitBound /\ [Next]_vars => PermitBound'
  <2> SUFFICES ASSUME TypeOK, PermitBound, [Next]_vars PROVE PermitBound'
    OBVIOUS
  <2> USE NoneAssumption DEF PermitBound, TypeOK, Permits, Epochs
  <2>1. ASSUME NEW t \in Tasks, permit' = [permit EXCEPT ![t] = epoch] \/ permit' = [permit EXCEPT ![t] = None],
               epoch' = epoch
        PROVE PermitBound'
    BY <2>1
  <2>2. CASE permit' = permit /\ epoch' = epoch
    BY <2>2
  <2>3. CASE permit' = permit /\ epoch' = epoch + 1
    BY <2>3
  <2>4. ASSUME NEW t \in Tasks, TaskStep(t) PROVE PermitBound'
    <3> USE <2>1, <2>2, <2>3 DEF Unlock, intent
    <3>1. CASE LoadEpoch(t) \/ RetryLoadEpoch(t) \/ RetryLoadDesired(t)
      BY <3>1 DEF LoadEpoch, RetryLoadEpoch, RetryLoadDesired
    <3>2. CASE PermitDesired(t) \/ PermitEpoch(t) \/ WriteSyncPairs(t) \/ SpawnFails(t) \/ AdoptChild(t)
      BY <3>2 DEF PermitDesired, PermitEpoch, WriteSyncPairs, SpawnFails, AdoptChild
    <3>3. CASE JoinSupervisor(t)
      BY <3>3 DEF JoinSupervisor
    <3>4. CASE RevokePermits(t)
      BY <3>4 DEF RevokePermits
    <3>5. CASE RequestStart(t) \/ LockForStart(t) \/ (\E p \in Pids : SpawnChild(t, p)) \/ PublishScanning(t)
               \/ HandleStartError(t) \/ RequestStop(t) \/ LockForStop(t) \/ Invalidate(t) \/ SignalStop(t)
               \/ CallerWrites(t)
      <4>1. UNCHANGED <<epoch, permit>>
        BY <3>5 DEF RequestStart, LockForStart, SpawnChild, PublishScanning, HandleStartError, RequestStop,
                    LockForStop, Invalidate, SignalStop, CallerWrites, calls
      <4> QED BY <4>1
    <3> QED BY <2>4, <3>1, <3>2, <3>3, <3>4, <3>5 DEF TaskStep
  <2>5. ASSUME NEW p \in Pids, SupervisorStep(p) \/ ChildExits(p) PROVE PermitBound'
    <3>1. UNCHANGED <<epoch, permit>>
      BY <2>5 DEF SupervisorStep, SuperviseStop, SuperviseExit, Terminate, JoinMonitors, DiagnoseExit,
                  ReportExit, ClearActive, ChildExits, intent, calls
    <3> QED BY <3>1
  <2>6. ASSUME NEW p \in Pids, NEW s \in Streams, MonitorStep(p, s) PROVE PermitBound'
    <3>1. UNCHANGED <<epoch, permit>>
      BY <2>6 DEF MonitorStep, AbortMonitor, MonitorRead, MonitorEnd, MonitorHandle, intent, calls
    <3> QED BY <3>1
  <2>7. CASE UNCHANGED vars
    BY <2>7 DEF vars, intent, calls
  <2> QED BY <2>4, <2>5, <2>6, <2>7 DEF Next
<1> QED BY <1>1, <1>2, TypeCorrect, PTL DEF Spec

(* A process is in the slot exactly while its supervisor is at work or the  *)
(* lock holder is still launching it.                                       *)
LEMMA SlotChar ==
  ASSUME IInv, NEW p \in Pids
  PROVE  InSlot(p) <=> sup[p] \notin {"none", "done"} \/ Held(p)
<1>1. child[p] = "alive" => sup[p] \notin {"none", "done"} \/ Held(p)
  BY DEF IInv, ProcInv, Held
<1>2. ASSUME NEW s \in Streams, mon[p][s] # "done" PROVE sup[p] \notin {"none", "done"}
  BY <1>2 DEF IInv, ProcInv
<1> QED BY <1>1, <1>2 DEF InSlot, Busy, Held

LEMMA SlotCharNext ==
  ASSUME IInv', NEW p \in Pids
  PROVE  InSlot(p)' <=> sup'[p] \notin {"none", "done"} \/ Held(p)'
<1>1. child'[p] = "alive" => sup'[p] \notin {"none", "done"} \/ Held(p)'
  BY DEF IInv, ProcInv, Held
<1>2. ASSUME NEW s \in Streams, mon'[p][s] # "done" PROVE sup'[p] \notin {"none", "done"}
  BY <1>2 DEF IInv, ProcInv
<1> QED BY <1>1, <1>2 DEF InSlot, Busy, Held

(* The slot is unchanged when its occupants are. *)
LEMMA SameSlot ==
  ASSUME IInv, IInv', launchEpoch' = launchEpoch,
         \A p \in Pids : /\ (sup'[p] \notin {"none", "done"}) <=> (sup[p] \notin {"none", "done"})
                         /\ Held(p)' <=> Held(p)
  PROVE  Occupied' = Occupied
<1>1. \A p \in Pids : InSlot(p)' <=> InSlot(p)
  BY SlotChar, SlotCharNext
<1> QED BY <1>1 DEF Occupied

(* The mutex holder's location is the one Held looks at. *)
LEMMA HeldBy ==
  ASSUME IInv, NEW p \in Pids, NEW t \in Tasks, pc[t] \in LockedPcs
  PROVE  /\ Held(p) <=> p = inHand /\ pc[t] \in {"publish", "adopt"}
         /\ \A u \in Tasks : pc[u] \in LockedPcs => u = t
  BY DEF IInv, LockInv, Held

LEMMA HeldByNext ==
  ASSUME IInv', NEW p \in Pids, NEW t \in Tasks, pc'[t] \in LockedPcs
  PROVE  Held(p)' <=> p = inHand' /\ pc'[t] \in {"publish", "adopt"}
  BY DEF IInv, LockInv, Held

LEMMA NoneHeld ==
  ASSUME IInv, NEW p \in Pids, lock = None
  PROVE  ~Held(p)
  BY NoneAssumption DEF IInv, PhaseInv, Held

LEMMA NoneHeldNext ==
  ASSUME IInv', NEW p \in Pids, lock' = None
  PROVE  ~Held(p)'
  BY NoneAssumption DEF IInv, PhaseInv, Held

(* At most one process is in the slot. *)
LEMMA OneInSlot ==
  ASSUME IInv, NEW p \in Pids, NEW q \in Pids, InSlot(p), InSlot(q)
  PROVE  p = q
<1>1. ASSUME NEW r \in Pids, sup[r] # "none" PROVE r = supervisor \/ (r = inHand /\ pc[lock] = "join")
  BY <1>1 DEF IInv, ProcInv
<1>2. CASE lock = None
  BY <1>1, <1>2, SlotChar, NoneHeld, NoneAssumption DEF IInv, PhaseInv
<1>3. CASE lock \in Tasks
  <2>1. pc[lock] \in LockedPcs
    BY <1>3 DEF IInv, LockInv
  <2>2. pc[lock] \in Detached => supervisor = None
    BY <1>3 DEF IInv, PhaseInv
  <2> QED BY <1>1, <2>1, <2>2, SlotChar, NoneAssumption DEF Held, Detached
<1> QED BY <1>2, <1>3 DEF IInv, TypeOK

(* A step of a task outside the mutex disturbs no occupant, ... *)
LEMMA OutsideFrame ==
  ASSUME IInv, IInv', NEW t \in Tasks, NEW to \in Pcs, pc[t] \notin LockedPcs,
         pc' = [pc EXCEPT ![t] = to], UNCHANGED <<lock, inHand, sup, launchEpoch>>
  PROVE  Occupied' = Occupied
<1>1. CASE lock = None
  BY <1>1, SameSlot, NoneHeld, NoneHeldNext
<1>2. CASE lock \in Tasks
  <2>1. pc'[lock] = pc[lock]
    BY <1>2 DEF IInv, LockInv, TypeOK
  <2> QED BY <2>1, SameSlot DEF Held
<1> QED BY <1>1, <1>2 DEF IInv, TypeOK

(* ... nor does one inside it that launches nothing. *)
LEMMA InsideFrame ==
  ASSUME IInv, IInv', NEW t \in Tasks, UNCHANGED <<sup, launchEpoch>>,
         lock = None \/ pc[t] \in LockedPcs \ {"publish", "adopt"},
         lock' = None \/ pc'[t] \in LockedPcs \ {"publish", "adopt"}
  PROVE  Occupied' = Occupied
<1>1. \A p \in Pids : ~Held(p)
  BY NoneHeld, HeldBy
<1>2. \A p \in Pids : ~Held(p)'
  BY NoneHeldNext, HeldByNext
<1> QED BY <1>1, <1>2, SameSlot

(* No stop starts or ends in a step that keeps every task's Stopping. *)
LEMMA SameStopping ==
  ASSUME TypeOK, NEW t \in Tasks, NEW to \in Pcs, pc' = [pc EXCEPT ![t] = to],
         \A u \in Tasks \ {t} : permit'[u] = permit[u],
         Stopping(t)' <=> Stopping(t)
  PROVE  StoppingTasks' = StoppingTasks
<1>1. \A u \in Tasks \ {t} : Stopping(u)' <=> Stopping(u)
  BY DEF Stopping, TypeOK
<1> QED BY <1>1 DEF StoppingTasks

(* Most of what a task does is invisible in the slot. *)
LEMMA OutsideStep ==
  ASSUME IInv, IInv', NEW t \in Tasks,
         \/ RequestStart(t) \/ LoadEpoch(t) \/ RetryLoadEpoch(t) \/ RetryLoadDesired(t)
         \/ HandleStartError(t) \/ RequestStop(t)
  PROVE  UNCHANGED <<epoch, StoppingTasks, Occupied>>
<1> USE DEF RequestStart, LoadEpoch, RetryLoadEpoch, RetryLoadDesired, HandleStartError, RequestStop
<1>1. PICK to \in Pcs \ (LockedPcs \cup {"lockStop"}) : pc' = [pc EXCEPT ![t] = to]
  BY DEF Goto, Pcs, LockedPcs, StartPcs, StopPcs
<1>2. pc[t] \notin LockedPcs \cup {"lockStop"}
  BY DEF At, LockedPcs, StartPcs, StopPcs
<1>3. UNCHANGED <<epoch, lock, inHand, sup, launchEpoch>>
  BY DEF intent, process
<1>4. \A u \in Tasks \ {t} : permit'[u] = permit[u]
  BY DEF IInv, TypeOK
<1>5. ~Stopping(t) /\ ~Stopping(t)'
  BY <1>1, <1>2 DEF Stopping, LockedPcs, IInv, TypeOK
<1>6. Occupied' = Occupied
  BY <1>1, <1>2, <1>3, OutsideFrame
<1>7. StoppingTasks' = StoppingTasks
  BY <1>1, <1>4, <1>5, SameStopping DEF IInv
<1> QED BY <1>3, <1>6, <1>7

LEMMA StartStep ==
  ASSUME IInv, IInv', NEW t \in Tasks,
         \/ LockForStart(t) \/ PermitDesired(t) \/ PermitEpoch(t) \/ WriteSyncPairs(t) \/ SpawnFails(t)
  PROVE  UNCHANGED <<epoch, StoppingTasks, Occupied>>
<1> USE DEF LockForStart, PermitDesired, PermitEpoch, WriteSyncPairs, SpawnFails
<1>1. PICK to \in Pcs : pc' = [pc EXCEPT ![t] = to]
  BY DEF Goto, Unlock, Pcs, LockedPcs, StartPcs, StopPcs, AfterCheck, IInv, TypeOK, Stages
<1>2. UNCHANGED <<epoch, sup, launchEpoch>>
  BY DEF intent, process
<1>3. \A u \in Tasks \ {t} : permit'[u] = permit[u]
  BY DEF Unlock, IInv, TypeOK
<1>4. lock = None \/ pc[t] \in LockedPcs \ {"publish", "adopt"}
  BY DEF At, LockedPcs, StartPcs
<1>5. lock' = None \/ pc'[t] \in LockedPcs \ {"publish", "adopt"}
  BY DEF Goto, Unlock, LockedPcs, StartPcs, StopPcs, AfterCheck, IInv, TypeOK, Stages
<1>6. permit[t] # None
  BY DEF At, IInv, PhaseInv, StartPcs
<1>7. ~Stopping(t)
  BY <1>6 DEF Stopping, At, StopPcs
<1>8. ~Stopping(t)'
  BY <1>6 DEF Stopping, StopPcs, Goto, Unlock, AfterCheck, IInv, TypeOK, Stages
<1>9. StoppingTasks' = StoppingTasks
  BY <1>1, <1>3, <1>7, <1>8, SameStopping DEF IInv
<1>10. Occupied' = Occupied
  BY <1>2, <1>4, <1>5, InsideFrame
<1> QED BY <1>2, <1>9, <1>10

LEMMA StopStep ==
  ASSUME IInv, IInv', NEW t \in Tasks, LockForStop(t) \/ Invalidate(t) \/ SignalStop(t)
  PROVE  UNCHANGED <<epoch, StoppingTasks, Occupied>>
<1> USE DEF LockForStop, Invalidate, SignalStop, Goto, At
<1>1. PICK to \in StopPcs : pc' = [pc EXCEPT ![t] = to]
  BY DEF StopPcs
<1>2. UNCHANGED <<epoch, permit, sup, launchEpoch>>
  BY DEF intent, process
<1>3. pc'[t] = to /\ to \in Pcs /\ to \in LockedPcs \ {"publish", "adopt"}
  BY <1>1 DEF IInv, TypeOK, Pcs, LockedPcs, StopPcs
<1>4. Stopping(t)' <=> Stopping(t)
  BY <1>2, <1>3, <1>1 DEF Stopping, StopPcs, IInv, PhaseInv
<1>5. StoppingTasks' = StoppingTasks
  BY <1>1, <1>2, <1>3, <1>4, SameStopping DEF IInv
<1>6. lock = None \/ pc[t] \in LockedPcs \ {"publish", "adopt"}
  BY DEF LockedPcs, StopPcs
<1>7. Occupied' = Occupied
  BY <1>2, <1>3, <1>6, InsideFrame
<1> QED BY <1>2, <1>5, <1>7

LEMMA LaunchingStep ==
  ASSUME IInv, IInv', NEW t \in Tasks, PublishScanning(t) \/ AdoptChild(t)
  PROVE  UNCHANGED <<epoch, StoppingTasks, Occupied>>
<1> USE DEF Goto, At
<1>1. UNCHANGED <<epoch, launchEpoch>>
  BY DEF PublishScanning, AdoptChild, intent, process
<1>2. pc[t] \in {"publish", "adopt"} /\ inHand \in Pids /\ sup[inHand] = "none"
  BY DEF PublishScanning, AdoptChild, IInv, PhaseInv
<1>3. \A p \in Pids : Held(p) <=> p = inHand
  BY <1>2, HeldBy DEF LockedPcs, StartPcs
<1>4. StoppingTasks' = StoppingTasks
  <2>1. PICK to \in {"adopt", "idle"} : pc' = [pc EXCEPT ![t] = to]
    BY DEF PublishScanning, AdoptChild, Unlock
  <2>2. \A u \in Tasks \ {t} : permit'[u] = permit[u]
    BY DEF PublishScanning, AdoptChild, Unlock, IInv, TypeOK
  <2>3. ~Stopping(t) /\ ~Stopping(t)'
    BY <1>2, <2>1 DEF Stopping, StopPcs, IInv, TypeOK
  <2>4. to \in Pcs
    BY DEF Pcs, LockedPcs, StartPcs
  <2> QED BY <2>1, <2>2, <2>3, <2>4, SameStopping DEF IInv
<1>5. CASE PublishScanning(t)
  <2>1. sup' = sup /\ inHand' = inHand /\ pc'[t] = "adopt"
    BY <1>5 DEF PublishScanning, process, IInv, TypeOK
  <2>2. \A p \in Pids : Held(p)' <=> p = inHand
    BY <2>1, HeldByNext DEF LockedPcs, StartPcs
  <2>3. Occupied' = Occupied
    BY <1>1, <1>3, <2>1, <2>2, SameSlot
  <2> QED BY <1>1, <1>4, <2>3
<1>6. CASE AdoptChild(t)
  <2>1. sup' = [sup EXCEPT ![inHand] = "watching"] /\ lock' = None
    BY <1>6 DEF AdoptChild, Unlock
  <2>2. \A p \in Pids : InSlot(p)' <=> sup'[p] \notin {"none", "done"}
    BY <2>1, SlotCharNext, NoneHeldNext
  <2>3. \A p \in Pids : InSlot(p) <=> sup[p] \notin {"none", "done"} \/ p = inHand
    BY <1>3, SlotChar
  <2>4. \A p \in Pids : InSlot(p)' <=> InSlot(p)
    BY <1>2, <2>1, <2>2, <2>3 DEF IInv, TypeOK
  <2>5. Occupied' = Occupied
    BY <1>1, <2>4 DEF Occupied
  <2> QED BY <1>1, <1>4, <2>5
<1> QED BY <1>5, <1>6

(* A spawn takes the empty slot under a permit that is current or revoked   *)
(* by a stop still in progress.                                             *)
LEMMA SpawnLaunches ==
  ASSUME IInv, IInv', PermitBound, NEW t \in Tasks, NEW p \in Pids, SpawnChild(t, p)
  PROVE  Slot!Next
<1> USE DEF SpawnChild, Goto, At
<1>1. pc[t] = "spawn" /\ pc'[t] = "publish" /\ inHand' = p /\ sup' = sup
  BY DEF IInv, TypeOK
<1>2. \A q \in Pids : ~InSlot(q)
  <2>1. \A q \in Pids : ~Held(q)
    BY <1>1, HeldBy DEF LockedPcs, StartPcs
  <2>2. supervisor = None
    BY <1>1 DEF IInv, PhaseInv, Detached
  <2>3. pc[lock] = "spawn"
    BY <1>1 DEF IInv, LockInv, LockedPcs, StartPcs
  <2>4. \A q \in Pids : sup[q] = "none"
    BY <2>2, <2>3, NoneAssumption DEF IInv, ProcInv
  <2> QED BY <2>1, <2>4, SlotChar
<1>3. \A q \in Pids : InSlot(q)' <=> q = p
  <2>1. \A q \in Pids : Held(q)' <=> q = p
    BY <1>1, HeldByNext DEF LockedPcs, StartPcs
  <2>2. \A q \in Pids : sup[q] \in {"none", "done"}
    BY <1>2, SlotChar
  <2> QED BY <1>1, <2>1, <2>2, SlotCharNext
<1>4. Occupied = {}
  BY <1>2 DEF Occupied
<1>5. launchEpoch'[p] = permit[t]
  BY DEF IInv, TypeOK
<1>6. Occupied' = {[id |-> p, permit |-> permit[t]]}
  BY <1>3, <1>5 DEF Occupied
<1>7. permit[t] = epoch \/ StoppingTasks # {}
  BY <1>1 DEF IInv, PermitInv, StoppingTasks
<1>8. permit[t] \in 0 .. epoch
  <2>1. permit[t] # None
    BY <1>1 DEF IInv, PhaseInv, StartPcs
  <2> QED BY <2>1 DEF PermitBound, IInv, TypeOK, Permits, Epochs
<1>9. StoppingTasks' = StoppingTasks
  <2>1. ~Stopping(t) /\ ~Stopping(t)'
    BY <1>1 DEF Stopping, StopPcs
  <2>2. "publish" \in Pcs
    BY DEF Pcs, LockedPcs, StartPcs
  <2> QED BY <2>1, <2>2, SameStopping DEF IInv
<1>10. epoch' = epoch
  BY DEF intent
<1>11. Slot!Launch(p, permit[t])
  BY <1>4, <1>6, <1>7, <1>9, <1>10 DEF Slot!Launch
<1> QED BY <1>8, <1>11 DEF Slot!Next

LEMMA RevokeRevokes ==
  ASSUME IInv, IInv', NEW t \in Tasks, RevokePermits(t)
  PROVE  Slot!Next
<1> USE DEF RevokePermits, Goto, At
<1>1. ~Stopping(t)
  BY DEF Stopping, StopPcs
<1>2. Stopping(t)'
  BY DEF Stopping, IInv, TypeOK
<1>3. \A u \in Tasks \ {t} : Stopping(u)' <=> Stopping(u)
  BY DEF Stopping, IInv, TypeOK
<1>4. StoppingTasks' = StoppingTasks \cup {t}
  BY <1>2, <1>3 DEF StoppingTasks
<1>5. t \notin StoppingTasks
  BY <1>1 DEF StoppingTasks
<1>6. "lockStop" \in Pcs /\ pc[t] \notin LockedPcs
  BY DEF Pcs, LockedPcs, StartPcs, StopPcs
<1>7. Occupied' = Occupied
  BY <1>6, OutsideFrame DEF process
<1> QED BY <1>4, <1>5, <1>7 DEF Slot!Next, Slot!Revoke

(* A stop that returns leaves an empty slot; a start that has joined its    *)
(* predecessor is still launching.                                          *)
LEMMA JoinReturns ==
  ASSUME IInv, IInv', NEW t \in Tasks, JoinSupervisor(t)
  PROVE  Slot!Next \/ UNCHANGED <<epoch, StoppingTasks, Occupied>>
<1> USE DEF JoinSupervisor, At
<1>1. pc[t] = "join" /\ epoch' = epoch
  BY DEF intent
<1>2. pc[t] \in LockedPcs
  BY <1>1 DEF LockedPcs, StopPcs
<1>3. \A p \in Pids : ~Held(p)
  BY <1>1, <1>2, HeldBy
<1>4. \A p \in Pids : sup[p] \in {"none", "done"}
  <2>1. supervisor = None
    BY <1>1 DEF IInv, PhaseInv, Detached
  <2>2. \A p \in Pids : sup[p] # "none" => p = inHand
    BY <2>1, NoneAssumption DEF IInv, ProcInv
  <2>3. inHand # None => sup[inHand] = "done"
    OBVIOUS
  <2> QED BY <2>2, <2>3, NoneAssumption
<1>5. \A p \in Pids : ~InSlot(p)
  BY <1>3, <1>4, SlotChar
<1>6. \A p \in Pids : ~InSlot(p)'
  <2>1. \A p \in Pids : sup'[p] \in {"none", "done"}
    BY <1>4
  <2>2. \A p \in Pids : ~Held(p)'
    <3>1. CASE lock' = None
      BY <3>1, NoneHeldNext
    <3>2. CASE lock' # None
      <4>1. pc'[t] = "permitDesired"
        BY <3>2 DEF Unlock, Goto, IInv, TypeOK
      <4> QED BY <4>1, HeldByNext DEF LockedPcs, StartPcs
    <3> QED BY <3>1, <3>2
  <2> QED BY <2>1, <2>2, SlotCharNext
<1>7. Occupied = {} /\ Occupied' = {}
  BY <1>5, <1>6 DEF Occupied
<1>8. CASE permit[t] = None
  <2>1. Stopping(t)
    BY <1>1, <1>8 DEF Stopping, StopPcs
  <2>2. ~Stopping(t)'
    BY <1>8 DEF Stopping, StopPcs, Unlock, Goto, IInv, TypeOK
  <2>3. \A u \in Tasks \ {t} : Stopping(u)' <=> Stopping(u)
    BY <1>8 DEF Stopping, Unlock, Goto, IInv, TypeOK
  <2>4. t \in StoppingTasks /\ StoppingTasks' = StoppingTasks \ {t}
    BY <2>1, <2>2, <2>3 DEF StoppingTasks
  <2> QED BY <1>1, <1>7, <2>4 DEF Slot!Next, Slot!Return
<1>9. CASE permit[t] # None
  <2>1. ~Stopping(t)
    BY <1>1, <1>9 DEF Stopping
  <2>2. ~Stopping(t)'
    BY <1>9 DEF Stopping, StopPcs, Goto, IInv, TypeOK
  <2>3. "permitDesired" \in Pcs /\ permit' = permit /\ pc' = [pc EXCEPT ![t] = "permitDesired"]
    BY <1>9 DEF Pcs, LockedPcs, StartPcs, Goto
  <2>4. StoppingTasks' = StoppingTasks
    BY <2>1, <2>2, <2>3, SameStopping DEF IInv
  <2> QED BY <1>1, <1>7, <2>4
<1> QED BY <1>8, <1>9

(* A supervisor vacates the slot with its last step. *)
LEMMA ProcessVacates ==
  ASSUME IInv, IInv', NEW p \in Pids, SupervisorStep(p) \/ ChildExits(p)
  PROVE  Slot!Next \/ UNCHANGED <<epoch, StoppingTasks, Occupied>>
<1> USE DEF SupervisorStep, SuperviseStop, SuperviseExit, Terminate, JoinMonitors, DiagnoseExit,
            ReportExit, ClearActive, ChildExits, SupGoto
<1>1. UNCHANGED <<epoch, lock, pc, permit, inHand, launchEpoch>>
  BY DEF intent, calls
<1>2. StoppingTasks' = StoppingTasks
  BY <1>1 DEF StoppingTasks, Stopping
<1>3. \A q \in Pids : Held(q)' <=> Held(q)
  BY <1>1 DEF Held
<1>4. \A q \in Pids \ {p} : sup'[q] = sup[q]
  BY DEF IInv, TypeOK
<1>5. CASE (sup'[p] \notin {"none", "done"}) <=> (sup[p] \notin {"none", "done"})
  <2>1. Occupied' = Occupied
    BY <1>1, <1>3, <1>4, <1>5, SameSlot
  <2> QED BY <1>1, <1>2, <2>1
<1>6. CASE ~((sup'[p] \notin {"none", "done"}) <=> (sup[p] \notin {"none", "done"}))
  <2>1. sup[p] \notin {"none", "done"} /\ sup'[p] = "done"
    BY <1>6 DEF IInv, TypeOK
  <2>2. InSlot(p)
    BY <2>1, SlotChar
  <2>3. \A q \in Pids : q # p => ~InSlot(q)
    BY <2>2, OneInSlot
  <2>4. ~Held(p)
    BY <2>1, NoneAssumption DEF Held, IInv, PhaseInv, LockInv, TypeOK
  <2>5. ~InSlot(p)'
    BY <1>3, <2>1, <2>4, SlotCharNext
  <2>6. \A q \in Pids : q # p => ~InSlot(q)'
    BY <1>3, <1>4, <2>3, SlotChar, SlotCharNext
  <2>7. Occupied # {} /\ Occupied' = {}
    BY <2>2, <2>5, <2>6 DEF Occupied
  <2> QED BY <1>1, <1>2, <2>7 DEF Slot!Next, Slot!Vacate
<1> QED BY <1>5, <1>6

LEMMA MonitorInvisible ==
  ASSUME IInv, IInv', NEW p \in Pids, NEW s \in Streams, MonitorStep(p, s)
  PROVE  UNCHANGED <<epoch, StoppingTasks, Occupied>>
<1>1. UNCHANGED <<epoch, lock, pc, permit, inHand, launchEpoch, sup>>
  BY DEF MonitorStep, AbortMonitor, MonitorRead, MonitorEnd, MonitorHandle, intent, calls
<1>2. StoppingTasks' = StoppingTasks
  BY <1>1 DEF StoppingTasks, Stopping
<1>3. Occupied' = Occupied
  BY <1>1, SameSlot DEF Held
<1> QED BY <1>1, <1>2, <1>3

LEMMA StepRefines ==
  IInv /\ IInv' /\ PermitBound /\ [Next]_vars => [Slot!Next]_(Slot!vars)
<1> SUFFICES ASSUME IInv, IInv', PermitBound, [Next]_vars
             PROVE  Slot!Next \/ UNCHANGED <<epoch, StoppingTasks, Occupied>>
  BY DEF Slot!vars
<1>1. ASSUME NEW t \in Tasks, TaskStep(t)
      PROVE  Slot!Next \/ UNCHANGED <<epoch, StoppingTasks, Occupied>>
  <2>1. CASE CallerWrites(t)
    <3>1. UNCHANGED <<epoch, lock, pc, permit, inHand, launchEpoch, sup>>
      BY <2>1 DEF CallerWrites, intent, calls, process
    <3>2. UNCHANGED <<child, mon>>
      BY <2>1 DEF CallerWrites, process
    <3> QED BY <3>1, <3>2 DEF StoppingTasks, Stopping, Occupied, InSlot, Busy
  <2>2. CASE \E p \in Pids : SpawnChild(t, p)
    BY <2>2, SpawnLaunches
  <2> QED BY <1>1, <2>1, <2>2, OutsideStep, StartStep, StopStep, LaunchingStep, RevokeRevokes, JoinReturns
          DEF TaskStep
<1>2. CASE UNCHANGED vars
  <2>1. UNCHANGED <<epoch, lock, pc, permit, inHand, launchEpoch, sup, child, mon>>
    BY <1>2 DEF vars, intent, calls, process
  <2> QED BY <2>1 DEF StoppingTasks, Stopping, Occupied, InSlot, Busy
<1> QED BY <1>1, <1>2, ProcessVacates, MonitorInvisible DEF Next

(* Whatever the callers and the CLI do, the manager of cli/mod.rs behaves   *)
(* as one slot: a launch finds it empty and its permit current or about to  *)
(* be enforced, and stop_sync returns with it empty.                        *)
THEOREM Refinement == Spec => SlotSpec
<1>1. Init => Slot!Init
  BY NoneAssumption DEF Init, Slot!Init, StoppingTasks, Stopping, StopPcs, Occupied, InSlot, Busy
<1> QED BY <1>1, StepRefines, Invariance, PermitBounded, PTL DEF Spec, SlotSpec, Slot!Spec
=============================================================================
