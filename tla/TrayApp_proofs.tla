--------------------------- MODULE TrayApp_proofs ---------------------------
(***************************************************************************)
(* Safety of TrayApp for any number of clicks and retries, whatever the CLI *)
(* reports, with or without failing launches, signals and dialogs.          *)
(***************************************************************************)
EXTENDS TrayApp, TLAPS

\* The step formula of PauseSticks.
StickStep ==
  syncState = "Paused" /\ syncState' # "Paused" =>
    \/ pc'["handler"] # pc["handler"]
    \/ pc["autostart"] = "failed"

-----------------------------------------------------------------------------
(* The parts of the type invariant                                         *)

TaskTypes ==
  pc \in [Tasks -> Steps] /\ permit \in [Tasks -> Nat \cup {None}] /\ plan \in [Tasks -> Plans]
ManagerTypes ==
  /\ desired \in BOOLEAN /\ epoch \in Nat
  /\ lock \in Tasks \cup {None} /\ slot \in {"empty", "running"}
AppTypes ==
  syncState \in SyncStates /\ session \in BOOLEAN /\ dirty \in BOOLEAN /\ seen \in SyncStates
MenuTypes == menu \in [login : {"unknown", "in", "out"}, status : SyncStates, icon : SyncStates]
InputTypes ==
  /\ queue \in Seq(MenuActions) /\ clicks \in 0..MaxClicks /\ loginWindow \in BOOLEAN
  /\ retries \in 0..MaxRetries /\ exited \in BOOLEAN

LEMMA TypeParts == TypeOK <=> TaskTypes /\ ManagerTypes /\ AppTypes /\ MenuTypes /\ InputTypes
  BY DEF TypeOK, TaskTypes, ManagerTypes, AppTypes, MenuTypes, InputTypes

LEMMA TypePartsNext ==
  ASSUME TaskTypes', ManagerTypes', AppTypes', MenuTypes', InputTypes'
  PROVE  TypeOK'
  BY DEF TypeOK, TaskTypes, ManagerTypes, AppTypes, MenuTypes, InputTypes

\* Steps are functions of the task, so that a goto changes one of them.
USE DEF TrayInv, Tasks, managerVars, appVars, trayVars, inputVars, taskVars

LEMMA InitKeeps == Init => TrayInv
<1> SUFFICES ASSUME Init PROVE TrayInv
  OBVIOUS
<1>1. TypeOK
  <2>1. TaskTypes
    BY DEF Init, TaskTypes, Steps, Plans
  <2>2. ManagerTypes /\ AppTypes /\ MenuTypes
    BY DEF Init, ManagerTypes, AppTypes, MenuTypes, SyncStates
  <2>3. InputTypes
    <3>1. 0 \in 0..MaxClicks /\ 0 \in 0..MaxRetries
      BY TrayAssumption
    <3>2. queue \in Seq(MenuActions)
      BY DEF Init
    <3> QED BY <3>1, <3>2 DEF Init, InputTypes
  <2> QED BY <2>1, <2>2, <2>3, TypeParts
<1>2. NothingUnwanted /\ MutexHeld /\ PauseRevokes /\ PausedIsQuiet /\ ResumeUnpauses
  BY DEF Init, NothingUnwanted, MutexHeld, PauseRevokes, PausedIsQuiet, ResumeUnpauses
<1>3. BeforeAutostart /\ PlansKnown
  BY DEF Init, BeforeAutostart, PlansKnown
<1> QED BY <1>1, <1>2, <1>3

LEMMA RequestStartKeeps ==
  ASSUME TrayInv, NEW t \in {"handler", "autostart", "loop"}, RequestStart(t)
  PROVE  TrayInv' /\ StickStep
<1>1. TypeOK'
  <2>1. TaskTypes'
    BY DEF TypeOK, TaskTypes, RequestStart, Goto, Steps
  <2>2. ManagerTypes'
    BY DEF TypeOK, ManagerTypes, RequestStart
  <2>3. AppTypes'
    BY TrayAssumption DEF TypeOK, AppTypes, RequestStart
  <2>4. MenuTypes'
    BY DEF TypeOK, MenuTypes, RequestStart
  <2>5. InputTypes'
    BY TrayAssumption DEF TypeOK, InputTypes, RequestStart
  <2> QED BY <2>1, <2>2, <2>3, <2>4, <2>5, TypePartsNext
<1>2. NothingUnwanted' /\ MutexHeld'
  BY DEF TypeOK, NothingUnwanted, MutexHeld, RequestStart, Goto
<1>3. PauseRevokes'
  BY DEF TypeOK, PauseRevokes, BeforeAutostart, PlansKnown, Quiet, RequestStart, Goto
<1>4. PausedIsQuiet'
  BY DEF TypeOK, PausedIsQuiet, ResumeUnpauses, BeforeAutostart, PlansKnown, Quiet,
         RequestStart, Goto
<1>5. ResumeUnpauses' /\ PlansKnown'
  BY DEF TypeOK, ResumeUnpauses, PlansKnown, RequestStart, Goto
<1>6. BeforeAutostart'
  BY DEF TypeOK, BeforeAutostart, RequestStart, Goto
<1>7. StickStep
  BY DEF StickStep, RequestStart
<1> QED BY <1>1, <1>2, <1>3, <1>4, <1>5, <1>6, <1>7

LEMMA LockForStartKeeps ==
  ASSUME TrayInv, NEW t \in {"handler", "autostart", "loop"}, LockForStart(t)
  PROVE  TrayInv' /\ StickStep
<1>1. TypeOK'
  BY DEF TypeOK, LockForStart, StartReturns, Goto, Begin, Steps, Plans
<1>2. NothingUnwanted'
  BY DEF TypeOK, NothingUnwanted, LockForStart, StartReturns, Goto, Begin
<1>3. MutexHeld'
  BY TrayAssumption DEF TypeOK, MutexHeld, LockForStart, StartReturns, Goto, Begin
<1>4. PauseRevokes'
  BY DEF TypeOK, PauseRevokes, Quiet, LockForStart, StartReturns, Current, Goto, Begin
<1>5. PausedIsQuiet'
  BY DEF TypeOK, PausedIsQuiet, Quiet, LockForStart, StartReturns, Current, Goto, Begin
<1>6. ResumeUnpauses' /\ PlansKnown'
  BY DEF TypeOK, ResumeUnpauses, PlansKnown, LockForStart, StartReturns, Goto, Begin
<1>7. BeforeAutostart'
  BY DEF TypeOK, BeforeAutostart, LockForStart, StartReturns, Goto, Begin
<1>8. StickStep
  BY DEF StickStep, LockForStart
<1> QED BY <1>1, <1>2, <1>3, <1>4, <1>5, <1>6, <1>7, <1>8

LEMMA LaunchKeeps ==
  ASSUME TrayInv, NEW t \in {"handler", "autostart", "loop"}, Launch(t)
  PROVE  TrayInv' /\ StickStep
<1>1. TypeOK'
  BY DEF TypeOK, Launch, StartReturns, Goto, Begin, Steps, Plans
<1>2. NothingUnwanted' /\ MutexHeld'
  BY DEF TypeOK, NothingUnwanted, MutexHeld, Launch, StartReturns, Current, Goto, Begin
<1>3. PauseRevokes'
  BY DEF TypeOK, PauseRevokes, Quiet, Launch, StartReturns, Goto, Begin
<1>4. PausedIsQuiet'
  BY DEF PausedIsQuiet, Quiet, Launch
<1>5. ResumeUnpauses' /\ PlansKnown'
  BY DEF TypeOK, ResumeUnpauses, PlansKnown, Launch, StartReturns, Goto, Begin
<1>6. BeforeAutostart'
  BY DEF TypeOK, BeforeAutostart, Launch, StartReturns, Goto, Begin
<1>7. StickStep
  BY DEF StickStep, Launch
<1> QED BY <1>1, <1>2, <1>3, <1>4, <1>5, <1>6, <1>7

LEMMA PublishKeeps ==
  ASSUME TrayInv, NEW t \in {"handler", "autostart", "loop"}, Publish(t)
  PROVE  TrayInv' /\ StickStep
<1>1. TypeOK'
  BY DEF TypeOK, Publish, SetSyncState, StartReturns, Goto, Begin, Steps, SyncStates, Plans
<1>2. NothingUnwanted' /\ MutexHeld'
  BY DEF TypeOK, NothingUnwanted, MutexHeld, Publish, StartReturns, Goto, Begin
<1>3. PauseRevokes'
  BY DEF PauseRevokes, Quiet, Publish, StartReturns, Goto, Begin
<1>4. PausedIsQuiet'
  BY DEF PausedIsQuiet, Publish, SetSyncState
<1>5. ResumeUnpauses' /\ PlansKnown'
  BY DEF ResumeUnpauses, PlansKnown, Publish, SetSyncState, StartReturns, Goto, Begin
<1>6. BeforeAutostart'
  BY DEF BeforeAutostart, Publish, StartReturns, Goto, Begin
<1>7. StickStep
  BY DEF StickStep, PausedIsQuiet, Quiet, Publish
<1> QED BY <1>1, <1>2, <1>3, <1>4, <1>5, <1>6, <1>7

LEMMA RevokePermitsKeeps ==
  ASSUME TrayInv, NEW t \in {"handler", "signal"}, RevokePermits(t)
  PROVE  TrayInv' /\ StickStep
<1>1. TypeOK'
  <2>1. TaskTypes'
    BY DEF TypeOK, TaskTypes, RevokePermits, Goto, Steps
  <2>2. ManagerTypes'
    <3>1. epoch \in Nat /\ epoch' = epoch + 1
      BY DEF TypeOK, RevokePermits
    <3>2. epoch' \in Nat
      BY <3>1
    <3> QED BY <3>2 DEF TypeOK, ManagerTypes, RevokePermits
  <2>3. AppTypes'
    BY TrayAssumption DEF TypeOK, AppTypes, RevokePermits
  <2>4. MenuTypes'
    BY DEF TypeOK, MenuTypes, RevokePermits
  <2>5. InputTypes'
    BY TrayAssumption DEF TypeOK, InputTypes, RevokePermits
  <2> QED BY <2>1, <2>2, <2>3, <2>4, <2>5, TypePartsNext
<1>2. NothingUnwanted' /\ MutexHeld'
  BY DEF TypeOK, NothingUnwanted, MutexHeld, RevokePermits, Goto
<1>3. PauseRevokes'
  BY DEF PauseRevokes, Quiet, RevokePermits, Goto
<1>4. PausedIsQuiet'
  BY DEF PausedIsQuiet, Quiet, RevokePermits, Goto
<1>5. ResumeUnpauses' /\ PlansKnown'
  BY DEF ResumeUnpauses, PlansKnown, RevokePermits, Goto
<1>6. BeforeAutostart'
  BY DEF BeforeAutostart, RevokePermits, Goto
<1>7. StickStep
  BY DEF StickStep, RevokePermits
<1> QED BY <1>1, <1>2, <1>3, <1>4, <1>5, <1>6, <1>7

LEMMA LockForStopKeeps ==
  ASSUME TrayInv, NEW t \in {"handler", "signal"}, LockForStop(t)
  PROVE  TrayInv' /\ StickStep
<1>1. TypeOK'
  BY DEF TypeOK, LockForStop, Goto, Steps
<1>2. NothingUnwanted'
  BY DEF NothingUnwanted, LockForStop, Goto
<1>3. MutexHeld'
  BY TrayAssumption DEF MutexHeld, LockForStop, Goto
<1>4. PauseRevokes'
  BY DEF PauseRevokes, Quiet, LockForStop, Goto
<1>5. PausedIsQuiet'
  BY DEF PausedIsQuiet, Quiet, LockForStop, Goto
<1>6. ResumeUnpauses' /\ PlansKnown'
  BY DEF ResumeUnpauses, PlansKnown, LockForStop, Goto
<1>7. BeforeAutostart'
  BY DEF BeforeAutostart, LockForStop, Goto
<1>8. StickStep
  BY DEF StickStep, LockForStop
<1> QED BY <1>1, <1>2, <1>3, <1>4, <1>5, <1>6, <1>7, <1>8

LEMMA StopReturnsKeeps ==
  ASSUME TrayInv, NEW t \in {"handler", "signal"}, StopReturns(t)
  PROVE  TrayInv' /\ StickStep
<1>1. TypeOK'
  BY DEF TypeOK, StopReturns, Goto, Steps
<1>2. NothingUnwanted' /\ MutexHeld'
  BY DEF TypeOK, NothingUnwanted, MutexHeld, StopReturns, Goto
<1>3. PauseRevokes'
  BY DEF PauseRevokes, MutexHeld, Quiet, StopReturns, Goto
<1>4. PausedIsQuiet'
  BY DEF PausedIsQuiet, Quiet, StopReturns, Goto
<1>5. ResumeUnpauses' /\ PlansKnown'
  BY DEF ResumeUnpauses, PlansKnown, StopReturns, Goto
<1>6. BeforeAutostart'
  BY DEF BeforeAutostart, StopReturns, Goto
<1>7. StickStep
  BY DEF StickStep, StopReturns
<1> QED BY <1>1, <1>2, <1>3, <1>4, <1>5, <1>6, <1>7

LEMMA AfterStopKeeps ==
  ASSUME TrayInv, NEW t \in {"handler", "signal"}, AfterStop(t)
  PROVE  TrayInv' /\ StickStep
<1>1. TypeOK'
  <2>1. TaskTypes'
    <3>1. /\ pc' = [pc EXCEPT ![t] = pc'[t]] /\ pc'[t] \in {"idle", "undraw", "exiting"}
          /\ plan' = [plan EXCEPT ![t] = plan'[t]] /\ plan'[t] \in {plan[t], "none"}
          /\ permit' = permit
      BY DEF TypeOK, AfterStop, Goto, Begin
    <3> QED BY <3>1 DEF TypeOK, TaskTypes, Steps, Plans
  <2>2. ManagerTypes'
    BY DEF TypeOK, ManagerTypes, AfterStop
  <2>3. AppTypes'
    BY TrayAssumption
       DEF TypeOK, AppTypes, PlansKnown, AfterStop, SetSyncState, Goto, Begin, SyncStates
  <2>4. MenuTypes'
    BY DEF TypeOK, MenuTypes, AfterStop
  <2>5. InputTypes'
    BY TrayAssumption DEF TypeOK, InputTypes, AfterStop
  <2> QED BY <2>1, <2>2, <2>3, <2>4, <2>5, TypePartsNext
<1>2. NothingUnwanted' /\ MutexHeld'
  BY DEF TypeOK, NothingUnwanted, MutexHeld, AfterStop, SetSyncState, Goto, Begin
<1>3. PauseRevokes'
  BY DEF TypeOK, PauseRevokes, BeforeAutostart, PlansKnown, MutexHeld, Quiet, AfterStop,
         SetSyncState, Goto, Begin
<1>4. PausedIsQuiet'
  BY DEF TypeOK, PauseRevokes, PausedIsQuiet, PlansKnown, Quiet, AfterStop, SetSyncState,
         Goto, Begin
<1>5. ResumeUnpauses' /\ PlansKnown'
  BY DEF TypeOK, ResumeUnpauses, PlansKnown, AfterStop, SetSyncState, Goto, Begin
<1>6. BeforeAutostart'
  <2>1. ASSUME pc["autostart"] \in {"probe", "permit", "state"} PROVE plan[t] \notin {"pause", "Logout"}
    BY <2>1 DEF AfterStop, BeforeAutostart, PlansKnown
  <2>2. pc'["autostart"] = pc["autostart"]
    BY DEF TypeOK, AfterStop, Goto, Begin
  <2>3. CASE pc["autostart"] \in {"probe", "permit", "state"}
    <3>1. pc' = [pc EXCEPT ![t] = "exiting"] /\ UNCHANGED <<appVars, plan>>
      BY <2>1, <2>3 DEF AfterStop, Goto
    <3> QED BY <2>3, <3>1 DEF TypeOK, BeforeAutostart, AfterStop
  <2> QED BY <2>2, <2>3 DEF BeforeAutostart
<1>7. StickStep
  BY DEF TypeOK, StickStep, PausedIsQuiet, BeforeAutostart, PlansKnown, AfterStop, Goto, Begin
<1> QED BY <1>1, <1>2, <1>3, <1>4, <1>5, <1>6, <1>7

LEMMA HandlerBeginKeeps ==
  ASSUME TrayInv, HandlerBegin
  PROVE  TrayInv' /\ StickStep
<1>1. TypeOK'
  BY DEF TypeOK, HandlerBegin, SetSyncState, Goto, Steps, SyncStates
<1>2. NothingUnwanted' /\ MutexHeld'
  BY DEF NothingUnwanted, MutexHeld, HandlerBegin, Goto
<1>3. PauseRevokes'
  BY DEF PauseRevokes, HandlerBegin, Goto
<1>4. PausedIsQuiet'
  BY DEF PausedIsQuiet, HandlerBegin, SetSyncState
<1>5. ResumeUnpauses' /\ PlansKnown'
  BY DEF ResumeUnpauses, PlansKnown, HandlerBegin, SetSyncState, Goto
<1>6. BeforeAutostart'
  BY DEF BeforeAutostart, HandlerBegin, Goto
<1>7. StickStep
  BY DEF TypeOK, StickStep, HandlerBegin, Goto
<1> QED BY <1>1, <1>2, <1>3, <1>4, <1>5, <1>6, <1>7

LEMMA AnswerDialogKeeps ==
  ASSUME TrayInv, AnswerDialog
  PROVE  TrayInv' /\ StickStep
<1>1. TypeOK'
  BY DEF TypeOK, AnswerDialog, Begin, Goto, Steps, Plans
<1>2. NothingUnwanted' /\ MutexHeld'
  BY DEF TypeOK, NothingUnwanted, MutexHeld, AnswerDialog, Begin, Goto
<1>3. PauseRevokes'
  BY DEF TypeOK, PauseRevokes, AnswerDialog, Begin
<1>4. PausedIsQuiet'
  BY DEF TypeOK, PausedIsQuiet, Quiet, AnswerDialog, Begin, Goto
<1>5. ResumeUnpauses' /\ PlansKnown'
  BY DEF TypeOK, ResumeUnpauses, PlansKnown, AnswerDialog, Begin, Goto
<1>6. BeforeAutostart'
  BY DEF TypeOK, BeforeAutostart, AnswerDialog, Begin, Goto
<1>7. StickStep
  BY DEF StickStep, AnswerDialog
<1> QED BY <1>1, <1>2, <1>3, <1>4, <1>5, <1>6, <1>7

LEMMA DrawLogoutKeeps ==
  ASSUME TrayInv, DrawLogout
  PROVE  TrayInv' /\ StickStep
<1>1. TypeOK'
  <2>1. TaskTypes'
    BY DEF TypeOK, TaskTypes, DrawLogout, Begin, Goto, Steps, Plans
  <2>2. ManagerTypes'
    BY DEF TypeOK, ManagerTypes, DrawLogout
  <2>3. AppTypes'
    BY TrayAssumption DEF TypeOK, AppTypes, DrawLogout
  <2>4. MenuTypes'
    BY DEF TypeOK, MenuTypes, DrawLogout, SyncStates
  <2>5. InputTypes'
    BY TrayAssumption DEF TypeOK, InputTypes, DrawLogout
  <2> QED BY <2>1, <2>2, <2>3, <2>4, <2>5, TypePartsNext
<1>2. NothingUnwanted' /\ MutexHeld'
  BY DEF NothingUnwanted, MutexHeld, DrawLogout, Begin, Goto
<1>3. PauseRevokes'
  BY DEF PauseRevokes, DrawLogout, Begin, Goto
<1>4. PausedIsQuiet'
  BY DEF PausedIsQuiet, Quiet, DrawLogout, Begin, Goto
<1>5. ResumeUnpauses' /\ PlansKnown'
  BY DEF ResumeUnpauses, PlansKnown, DrawLogout, Begin, Goto
<1>6. BeforeAutostart'
  BY DEF BeforeAutostart, DrawLogout, Begin, Goto
<1>7. StickStep
  BY DEF StickStep, DrawLogout
<1> QED BY <1>1, <1>2, <1>3, <1>4, <1>5, <1>6, <1>7

LEMMA DrawLoginKeeps ==
  ASSUME TrayInv, NEW t \in {"handler", "autostart"}, DrawLogin(t)
  PROVE  TrayInv' /\ StickStep
<1>1. TypeOK'
  BY DEF TypeOK, DrawLogin, Draw, Goto, Steps, MenuActions
<1>2. NothingUnwanted' /\ MutexHeld'
  BY DEF NothingUnwanted, MutexHeld, DrawLogin, Goto
<1>3. PauseRevokes'
  BY DEF PauseRevokes, Quiet, DrawLogin, Goto
<1>4. PausedIsQuiet'
  BY DEF PausedIsQuiet, Quiet, DrawLogin, Goto
<1>5. ResumeUnpauses' /\ PlansKnown'
  BY DEF ResumeUnpauses, PlansKnown, DrawLogin, Goto
<1>6. BeforeAutostart'
  BY DEF BeforeAutostart, DrawLogin, Goto
<1>7. StickStep
  BY DEF StickStep, DrawLogin
<1> QED BY <1>1, <1>2, <1>3, <1>4, <1>5, <1>6, <1>7

LEMMA DrawStatusKeeps ==
  ASSUME TrayInv, NEW t \in {"handler", "autostart"}, DrawStatus(t)
  PROVE  TrayInv' /\ StickStep
<1>1. TypeOK'
  <2>1. TaskTypes'
    BY DEF TypeOK, TaskTypes, DrawStatus, Goto, Steps
  <2>2. ManagerTypes'
    BY DEF TypeOK, ManagerTypes, DrawStatus
  <2>3. AppTypes'
    BY TrayAssumption DEF TypeOK, AppTypes, DrawStatus
  <2>4. MenuTypes'
    BY DEF TypeOK, MenuTypes, PlansKnown, DrawStatus, Draw, NewState, SyncStates
  <2>5. InputTypes'
    BY TrayAssumption DEF TypeOK, InputTypes, DrawStatus
  <2> QED BY <2>1, <2>2, <2>3, <2>4, <2>5, TypePartsNext
<1>2. NothingUnwanted' /\ MutexHeld'
  BY DEF NothingUnwanted, MutexHeld, DrawStatus, Goto
<1>3. PauseRevokes'
  BY DEF PauseRevokes, Quiet, DrawStatus, Goto
<1>4. PausedIsQuiet'
  BY DEF PausedIsQuiet, Quiet, DrawStatus, Goto
<1>5. ResumeUnpauses' /\ PlansKnown'
  BY DEF ResumeUnpauses, PlansKnown, DrawStatus, Goto
<1>6. BeforeAutostart'
  BY DEF BeforeAutostart, DrawStatus, Goto
<1>7. StickStep
  BY DEF StickStep, DrawStatus
<1> QED BY <1>1, <1>2, <1>3, <1>4, <1>5, <1>6, <1>7

LEMMA StartFailedKeeps ==
  ASSUME TrayInv, NEW t \in {"handler", "autostart"}, StartFailed(t)
  PROVE  TrayInv' /\ StickStep
<1>1. TypeOK'
  <2>1. TaskTypes'
    BY DEF TypeOK, TaskTypes, StartFailed, Begin, Goto, Steps, Plans
  <2>2. ManagerTypes'
    BY DEF TypeOK, ManagerTypes, StartFailed
  <2>3. AppTypes'
    BY TrayAssumption DEF TypeOK, AppTypes, StartFailed, SetSyncState, SyncStates
  <2>4. MenuTypes'
    BY DEF TypeOK, MenuTypes, StartFailed
  <2>5. InputTypes'
    BY TrayAssumption DEF TypeOK, InputTypes, StartFailed
  <2> QED BY <2>1, <2>2, <2>3, <2>4, <2>5, TypePartsNext
<1>2. NothingUnwanted' /\ MutexHeld'
  BY DEF TypeOK, NothingUnwanted, MutexHeld, StartFailed, Begin, Goto
<1>3. PauseRevokes'
  BY DEF TypeOK, PauseRevokes, Quiet, StartFailed, Begin, Goto
<1>4. PausedIsQuiet'
  BY DEF PausedIsQuiet, StartFailed, SetSyncState
<1>5. ResumeUnpauses' /\ PlansKnown'
  BY DEF TypeOK, ResumeUnpauses, PlansKnown, StartFailed, SetSyncState, Begin, Goto
<1>6. BeforeAutostart'
  BY DEF TypeOK, BeforeAutostart, StartFailed, Begin, Goto
<1>7. StickStep
  BY DEF TypeOK, StickStep, StartFailed, Begin, Goto
<1> QED BY <1>1, <1>2, <1>3, <1>4, <1>5, <1>6, <1>7

LEMMA DrawFailureKeeps ==
  ASSUME TrayInv, NEW t \in {"handler", "autostart"}, DrawFailure(t)
  PROVE  TrayInv' /\ StickStep
<1>1. TypeOK'
  <2>1. TaskTypes'
    BY DEF TypeOK, TaskTypes, DrawFailure, Begin, Goto, Steps, Plans
  <2>2. ManagerTypes'
    BY DEF TypeOK, ManagerTypes, DrawFailure
  <2>3. AppTypes'
    BY TrayAssumption DEF TypeOK, AppTypes, DrawFailure
  <2>4. MenuTypes'
    BY DEF TypeOK, MenuTypes, DrawFailure, Draw, SyncStates
  <2>5. InputTypes'
    BY TrayAssumption DEF TypeOK, InputTypes, DrawFailure
  <2> QED BY <2>1, <2>2, <2>3, <2>4, <2>5, TypePartsNext
<1>2. NothingUnwanted' /\ MutexHeld'
  BY DEF NothingUnwanted, MutexHeld, DrawFailure, Begin, Goto
<1>3. PauseRevokes'
  BY DEF PauseRevokes, Quiet, DrawFailure, Begin, Goto
<1>4. PausedIsQuiet'
  BY DEF PausedIsQuiet, Quiet, DrawFailure, Begin, Goto
<1>5. ResumeUnpauses' /\ PlansKnown'
  BY DEF ResumeUnpauses, PlansKnown, DrawFailure, Begin, Goto
<1>6. BeforeAutostart'
  BY DEF BeforeAutostart, DrawFailure, Begin, Goto
<1>7. StickStep
  BY DEF StickStep, DrawFailure
<1> QED BY <1>1, <1>2, <1>3, <1>4, <1>5, <1>6, <1>7

LEMMA ExitKeeps ==
  ASSUME TrayInv, NEW t \in {"handler", "signal"}, Exit(t)
  PROVE  TrayInv' /\ StickStep
<1>1. TypeOK'
  BY DEF TypeOK, Exit, Steps
<1>2. NothingUnwanted' /\ MutexHeld'
  BY DEF NothingUnwanted, MutexHeld, Exit
<1>3. PauseRevokes'
  BY DEF PauseRevokes, Exit
<1>4. PausedIsQuiet'
  BY DEF PausedIsQuiet, Quiet, Exit
<1>5. ResumeUnpauses' /\ PlansKnown'
  BY DEF ResumeUnpauses, PlansKnown, Exit
<1>6. BeforeAutostart'
  BY DEF BeforeAutostart, Exit
<1>7. StickStep
  BY DEF StickStep, Exit
<1> QED BY <1>1, <1>2, <1>3, <1>4, <1>5, <1>6, <1>7

LEMMA ProbeKeeps ==
  ASSUME TrayInv, Probe
  PROVE  TrayInv' /\ StickStep
<1>1. TypeOK'
  BY DEF TypeOK, Probe, Begin, Goto, Steps, Plans
<1>2. NothingUnwanted' /\ MutexHeld'
  BY DEF NothingUnwanted, MutexHeld, Probe, Begin, Goto
<1>3. PauseRevokes'
  BY DEF PauseRevokes, Quiet, Probe, Begin, Goto
<1>4. PausedIsQuiet'
  BY DEF PausedIsQuiet, Quiet, Probe, Begin, Goto
<1>5. ResumeUnpauses' /\ PlansKnown'
  BY DEF TypeOK, ResumeUnpauses, PlansKnown, Probe, Begin, Goto
<1>6. BeforeAutostart'
  BY DEF BeforeAutostart, Probe, Begin, Goto
<1>7. StickStep
  BY DEF StickStep, Probe
<1> QED BY <1>1, <1>2, <1>3, <1>4, <1>5, <1>6, <1>7

LEMMA AutoStateKeeps ==
  ASSUME TrayInv, AutoState
  PROVE  TrayInv' /\ StickStep
<1>1. TypeOK'
  <2>1. TaskTypes'
    BY DEF TypeOK, TaskTypes, AutoState, Goto, Steps
  <2>2. ManagerTypes'
    BY DEF TypeOK, ManagerTypes, AutoState
  <2>3. AppTypes'
    BY TrayAssumption
       DEF TypeOK, AppTypes, PlansKnown, AutoState, NewState, SetSyncState, SyncStates
  <2>4. MenuTypes'
    BY DEF TypeOK, MenuTypes, AutoState
  <2>5. InputTypes'
    BY TrayAssumption DEF TypeOK, InputTypes, AutoState
  <2> QED BY <2>1, <2>2, <2>3, <2>4, <2>5, TypePartsNext
<1>2. NothingUnwanted' /\ MutexHeld'
  BY DEF NothingUnwanted, MutexHeld, AutoState, Goto
<1>3. PauseRevokes'
  BY DEF PauseRevokes, Quiet, AutoState, Goto
<1>4. PausedIsQuiet'
  BY DEF PausedIsQuiet, PlansKnown, AutoState, NewState, SetSyncState
<1>5. ResumeUnpauses' /\ PlansKnown'
  BY DEF ResumeUnpauses, PlansKnown, AutoState, NewState, SetSyncState, Goto
<1>6. BeforeAutostart'
  BY DEF TypeOK, BeforeAutostart, AutoState, Goto
<1>7. StickStep
  BY DEF StickStep, BeforeAutostart, AutoState
<1> QED BY <1>1, <1>2, <1>3, <1>4, <1>5, <1>6, <1>7

LEMMA DrawIconKeeps ==
  ASSUME TrayInv, DrawIcon
  PROVE  TrayInv' /\ StickStep
<1>1. TypeOK'
  <2>1. TaskTypes'
    BY DEF TypeOK, TaskTypes, DrawIcon, Goto, Steps
  <2>2. ManagerTypes'
    BY DEF TypeOK, ManagerTypes, DrawIcon
  <2>3. AppTypes'
    BY TrayAssumption DEF TypeOK, AppTypes, DrawIcon
  <2>4. MenuTypes'
    BY DEF TypeOK, MenuTypes, PlansKnown, DrawIcon, Draw, NewState, SyncStates
  <2>5. InputTypes'
    BY TrayAssumption DEF TypeOK, InputTypes, DrawIcon
  <2> QED BY <2>1, <2>2, <2>3, <2>4, <2>5, TypePartsNext
<1>2. NothingUnwanted' /\ MutexHeld'
  BY DEF NothingUnwanted, MutexHeld, DrawIcon, Goto
<1>3. PauseRevokes'
  BY DEF PauseRevokes, Quiet, DrawIcon, Goto
<1>4. PausedIsQuiet'
  BY DEF PausedIsQuiet, Quiet, DrawIcon, Goto
<1>5. ResumeUnpauses' /\ PlansKnown'
  BY DEF ResumeUnpauses, PlansKnown, DrawIcon, Goto
<1>6. BeforeAutostart'
  BY DEF BeforeAutostart, DrawIcon, Goto
<1>7. StickStep
  BY DEF StickStep, DrawIcon
<1> QED BY <1>1, <1>2, <1>3, <1>4, <1>5, <1>6, <1>7

LEMMA LoopSeesKeeps ==
  ASSUME TrayInv, LoopSees
  PROVE  TrayInv' /\ StickStep
<1>1. TypeOK'
  <2>1. TaskTypes'
    BY DEF TypeOK, TaskTypes, LoopSees, Goto, Steps
  <2>2. ManagerTypes'
    BY DEF TypeOK, ManagerTypes, LoopSees
  <2>3. AppTypes'
    BY TrayAssumption DEF TypeOK, AppTypes, LoopSees
  <2>4. MenuTypes'
    BY DEF TypeOK, MenuTypes, LoopSees
  <2>5. InputTypes'
    BY TrayAssumption DEF TypeOK, InputTypes, LoopSees
  <2> QED BY <2>1, <2>2, <2>3, <2>4, <2>5, TypePartsNext
<1>2. NothingUnwanted' /\ MutexHeld'
  BY DEF NothingUnwanted, MutexHeld, LoopSees, Goto
<1>3. PauseRevokes'
  BY DEF PauseRevokes, Quiet, LoopSees, Goto
<1>4. PausedIsQuiet'
  BY DEF PausedIsQuiet, Quiet, LoopSees, Goto
<1>5. ResumeUnpauses' /\ PlansKnown'
  BY DEF ResumeUnpauses, PlansKnown, LoopSees, Goto
<1>6. BeforeAutostart'
  BY DEF BeforeAutostart, LoopSees, Goto
<1>7. StickStep
  BY DEF StickStep, LoopSees
<1> QED BY <1>1, <1>2, <1>3, <1>4, <1>5, <1>6, <1>7

LEMMA LoopDrawsKeeps ==
  ASSUME TrayInv, LoopDraws
  PROVE  TrayInv' /\ StickStep
<1>1. TypeOK'
  BY DEF TypeOK, LoopDraws, Draw, Goto, Steps
<1>2. NothingUnwanted' /\ MutexHeld'
  BY DEF TypeOK, NothingUnwanted, MutexHeld, LoopDraws, Goto
<1>3. PauseRevokes'
  BY DEF TypeOK, PauseRevokes, Quiet, LoopDraws, Goto
<1>4. PausedIsQuiet'
  BY DEF TypeOK, PausedIsQuiet, Quiet, LoopDraws, Goto
<1>5. ResumeUnpauses' /\ PlansKnown'
  BY DEF TypeOK, ResumeUnpauses, PlansKnown, LoopDraws, Goto
<1>6. BeforeAutostart'
  BY DEF TypeOK, BeforeAutostart, LoopDraws, Goto
<1>7. StickStep
  BY DEF StickStep, LoopDraws
<1> QED BY <1>1, <1>2, <1>3, <1>4, <1>5, <1>6, <1>7

LEMMA LoopRetriesKeeps ==
  ASSUME TrayInv, LoopRetries
  PROVE  TrayInv' /\ StickStep
<1>1. TypeOK'
  <2>1. TaskTypes'
    BY DEF TypeOK, TaskTypes, LoopRetries, Begin, Goto, Steps, Plans
  <2>2. ManagerTypes'
    BY DEF TypeOK, ManagerTypes, LoopRetries
  <2>3. AppTypes'
    BY TrayAssumption DEF TypeOK, AppTypes, LoopRetries
  <2>4. MenuTypes'
    BY DEF TypeOK, MenuTypes, LoopRetries
  <2>5. InputTypes'
    BY TrayAssumption DEF TypeOK, InputTypes, LoopRetries
  <2> QED BY <2>1, <2>2, <2>3, <2>4, <2>5, TypePartsNext
<1>2. NothingUnwanted' /\ MutexHeld'
  BY DEF NothingUnwanted, MutexHeld, LoopRetries, Begin, Goto
<1>3. PauseRevokes'
  BY DEF PauseRevokes, Quiet, LoopRetries, Begin, Goto
<1>4. PausedIsQuiet'
  BY DEF PausedIsQuiet, Quiet, LoopRetries, Begin, Goto
<1>5. ResumeUnpauses' /\ PlansKnown'
  BY DEF TypeOK, ResumeUnpauses, PlansKnown, LoopRetries, Begin, Goto
<1>6. BeforeAutostart'
  BY DEF BeforeAutostart, LoopRetries, Begin, Goto
<1>7. StickStep
  BY DEF StickStep, LoopRetries
<1> QED BY <1>1, <1>2, <1>3, <1>4, <1>5, <1>6, <1>7

LEMMA SignalKeeps ==
  ASSUME TrayInv, Signal
  PROVE  TrayInv' /\ StickStep
<1>1. TypeOK'
  <2>1. TaskTypes'
    BY DEF TypeOK, TaskTypes, Signal, Begin, Goto, Steps, Plans
  <2>2. ManagerTypes'
    BY DEF TypeOK, ManagerTypes, Signal
  <2>3. AppTypes'
    BY TrayAssumption DEF TypeOK, AppTypes, Signal
  <2>4. MenuTypes'
    BY DEF TypeOK, MenuTypes, Signal
  <2>5. InputTypes'
    BY TrayAssumption DEF TypeOK, InputTypes, Signal
  <2> QED BY <2>1, <2>2, <2>3, <2>4, <2>5, TypePartsNext
<1>2. NothingUnwanted' /\ MutexHeld'
  BY DEF NothingUnwanted, MutexHeld, Signal, Begin, Goto
<1>3. PauseRevokes'
  BY DEF PauseRevokes, Quiet, Signal, Begin, Goto
<1>4. PausedIsQuiet'
  BY DEF PausedIsQuiet, Quiet, Signal, Begin, Goto
<1>5. ResumeUnpauses' /\ PlansKnown'
  BY DEF TypeOK, ResumeUnpauses, PlansKnown, Signal, Begin, Goto
<1>6. BeforeAutostart'
  BY DEF BeforeAutostart, Signal, Begin, Goto
<1>7. StickStep
  BY DEF StickStep, Signal
<1> QED BY <1>1, <1>2, <1>3, <1>4, <1>5, <1>6, <1>7

LEMMA ClickKeeps ==
  ASSUME TrayInv, Click
  PROVE  TrayInv' /\ StickStep
<1>1. TypeOK'
  <2>1. TaskTypes'
    BY DEF TypeOK, TaskTypes, Click
  <2>2. ManagerTypes'
    BY DEF TypeOK, ManagerTypes, Click
  <2>3. AppTypes'
    BY TrayAssumption DEF TypeOK, AppTypes, Click
  <2>4. MenuTypes'
    BY DEF TypeOK, MenuTypes, Click
  <2>5. InputTypes'
    <3>1. clicks \in 0..MaxClicks /\ clicks < MaxClicks /\ clicks' = clicks + 1 /\ MaxClicks \in Nat
      BY TrayAssumption DEF TypeOK, Click
    <3>2. clicks' \in 0..MaxClicks
      BY <3>1
    <3>3. PICK action \in Offered : queue' = Append(queue, action)
      BY DEF Click
    <3>4. action \in MenuActions /\ queue \in Seq(MenuActions)
      BY DEF TypeOK, Offered, MenuActions
    <3>5. queue' \in Seq(MenuActions)
      BY <3>3, <3>4
    <3> QED BY <3>2, <3>5 DEF TypeOK, InputTypes, Click
  <2> QED BY <2>1, <2>2, <2>3, <2>4, <2>5, TypePartsNext
<1>2. NothingUnwanted' /\ MutexHeld'
  BY DEF NothingUnwanted, MutexHeld, Click
<1>3. PauseRevokes'
  BY DEF PauseRevokes, Quiet, Click
<1>4. PausedIsQuiet'
  BY DEF PausedIsQuiet, Quiet, Click
<1>5. ResumeUnpauses' /\ PlansKnown'
  BY DEF ResumeUnpauses, PlansKnown, Click
<1>6. BeforeAutostart'
  <2>1. PICK action \in Offered : queue' = Append(queue, action)
    BY DEF Click
  <2>2. menu.login = "unknown" => action \in {"About", "Quit"}
    BY <2>1 DEF Offered, PauseResumeEnabled
  <2>3. queue \in Seq(MenuActions) /\ action \in MenuActions
    BY <2>1 DEF TypeOK, Offered, MenuActions
  <2>4. /\ Len(queue') = Len(queue) + 1 /\ Len(queue) \in Nat
        /\ \A i \in 1..Len(queue) : queue'[i] = queue[i]
        /\ queue'[Len(queue) + 1] = action
    BY <2>1, <2>3
  <2>5. (\A i \in 1..Len(queue) : queue[i] \in {"About", "Quit"}) /\ menu.login = "unknown"
          => \A i \in 1..Len(queue') : queue'[i] \in {"About", "Quit"}
    BY <2>2, <2>4
  <2> QED BY <2>5 DEF BeforeAutostart, Click
<1>7. StickStep
  BY DEF StickStep, Click
<1> QED BY <1>1, <1>2, <1>3, <1>4, <1>5, <1>6, <1>7

LEMMA LogInKeeps ==
  ASSUME TrayInv, LogIn
  PROVE  TrayInv' /\ StickStep
<1>1. TypeOK'
  <2>1. TaskTypes'
    BY DEF TypeOK, TaskTypes, LogIn
  <2>2. ManagerTypes'
    BY DEF TypeOK, ManagerTypes, LogIn
  <2>3. AppTypes'
    BY TrayAssumption DEF TypeOK, AppTypes, LogIn
  <2>4. MenuTypes'
    BY DEF TypeOK, MenuTypes, LogIn
  <2>5. InputTypes'
    <3>1. queue' = Append(queue, "LoginCompleted") /\ "LoginCompleted" \in MenuActions
          /\ queue \in Seq(MenuActions)
      BY DEF TypeOK, LogIn, MenuActions
    <3>2. queue' \in Seq(MenuActions)
      BY <3>1
    <3> QED BY <3>2 DEF TypeOK, InputTypes, LogIn
  <2> QED BY <2>1, <2>2, <2>3, <2>4, <2>5, TypePartsNext
<1>2. NothingUnwanted' /\ MutexHeld'
  BY DEF NothingUnwanted, MutexHeld, LogIn
<1>3. PauseRevokes'
  BY DEF PauseRevokes, Quiet, LogIn
<1>4. PausedIsQuiet'
  BY DEF PausedIsQuiet, Quiet, LogIn
<1>5. ResumeUnpauses' /\ PlansKnown'
  BY DEF ResumeUnpauses, PlansKnown, LogIn
<1>6. BeforeAutostart'
  BY DEF BeforeAutostart, LogIn
<1>7. StickStep
  BY DEF StickStep, LogIn
<1> QED BY <1>1, <1>2, <1>3, <1>4, <1>5, <1>6, <1>7

LEMMA CliWritesKeeps ==
  ASSUME TrayInv, CliWrites
  PROVE  TrayInv' /\ StickStep
<1>1. TypeOK'
  <2>1. TaskTypes'
    BY DEF TypeOK, TaskTypes, CliWrites
  <2>2. ManagerTypes'
    BY DEF TypeOK, ManagerTypes, CliWrites
  <2>3. AppTypes'
    BY TrayAssumption DEF TypeOK, AppTypes, CliWrites, SetSyncState, SyncStates
  <2>4. MenuTypes'
    BY DEF TypeOK, MenuTypes, CliWrites
  <2>5. InputTypes'
    BY TrayAssumption DEF TypeOK, InputTypes, CliWrites
  <2> QED BY <2>1, <2>2, <2>3, <2>4, <2>5, TypePartsNext
<1>2. NothingUnwanted' /\ MutexHeld'
  BY DEF NothingUnwanted, MutexHeld, CliWrites
<1>3. PauseRevokes'
  BY DEF PauseRevokes, Quiet, CliWrites
<1>4. PausedIsQuiet'
  BY TrayAssumption DEF PausedIsQuiet, CliWrites, SetSyncState
<1>5. ResumeUnpauses' /\ PlansKnown'
  BY TrayAssumption DEF ResumeUnpauses, PlansKnown, CliWrites, SetSyncState
<1>6. BeforeAutostart'
  BY DEF BeforeAutostart, CliWrites
<1>7. StickStep
  BY DEF StickStep, PausedIsQuiet, Quiet, CliWrites
<1> QED BY <1>1, <1>2, <1>3, <1>4, <1>5, <1>6, <1>7

LEMMA CliExitsKeeps ==
  ASSUME TrayInv, CliExits
  PROVE  TrayInv' /\ StickStep
<1>1. TypeOK'
  BY DEF TypeOK, CliExits, SetSyncState, SyncStates
<1>2. NothingUnwanted' /\ MutexHeld'
  BY DEF NothingUnwanted, MutexHeld, CliExits
<1>3. PauseRevokes'
  BY DEF PauseRevokes, Quiet, CliExits
<1>4. PausedIsQuiet'
  BY DEF PausedIsQuiet, CliExits, SetSyncState
<1>5. ResumeUnpauses' /\ PlansKnown'
  BY DEF ResumeUnpauses, PlansKnown, CliExits, SetSyncState
<1>6. BeforeAutostart'
  BY DEF BeforeAutostart, CliExits
<1>7. StickStep
  BY DEF StickStep, PausedIsQuiet, Quiet, CliExits
<1> QED BY <1>1, <1>2, <1>3, <1>4, <1>5, <1>6, <1>7

LEMMA TakeActionKeeps ==
  ASSUME TrayInv, TakeAction
  PROVE  TrayInv' /\ StickStep
<1> DEFINE action == Head(queue)
<1>1. /\ queue \in Seq(MenuActions) /\ queue # <<>>
      /\ queue' = Tail(queue) /\ pc["handler"] = "idle"
  BY DEF TypeOK, TakeAction
<1>2. /\ action \in MenuActions /\ queue' \in Seq(MenuActions) /\ action = queue[1]
      /\ Len(queue') \in Nat /\ Len(queue) = Len(queue') + 1
      /\ \A i \in 1..Len(queue') : queue'[i] = queue[i + 1]
  BY <1>1
<1> DEFINE step == pc'["handler"]
           what == plan'["handler"]
<1>3. /\ pc' = [pc EXCEPT !["handler"] = step] /\ plan' = [plan EXCEPT !["handler"] = what]
      /\ \/ step = "idle" /\ action = "Login" /\ what = plan["handler"]
         \/ step = "dialog" /\ action \in {"Login", "Logout", "About"} /\ what = action
         \/ step = "begin" /\ action \in {"Login", "LoginCompleted"} /\ what = action
         \/ step = "begin" /\ action = "TogglePause" /\ what = "resume"
         \/ step = "revoke" /\ action = "TogglePause" /\ what = "pause"
         \/ step = "revoke" /\ action = "Quit" /\ what = "exit"
      /\ loginWindow' \in BOOLEAN /\ (loginWindow' # loginWindow => action = "Login")
  <2>1. CASE action = "LoginCompleted" \/ (action = "Login" /\ session)
    BY <1>1, <2>1 DEF TypeOK, TakeAction, Begin, Goto
  <2>2. CASE action = "Login" /\ ~session
    BY <1>1, <2>2 DEF TypeOK, TakeAction, Begin, Goto
  <2>3. CASE action \in {"Logout", "About"}
    BY <1>1, <2>3 DEF TypeOK, TakeAction, Begin, Goto
  <2>4. CASE action = "TogglePause"
    BY <1>1, <2>4 DEF TypeOK, TakeAction, Begin, Goto
  <2>5. CASE action = "Quit"
    BY <1>1, <2>5 DEF TypeOK, TakeAction, Begin, Goto
  <2> QED BY <1>2, <2>1, <2>2, <2>3, <2>4, <2>5 DEF MenuActions
<1>4. UNCHANGED <<desired, epoch, lock, slot, syncState, dirty, session, menu, seen,
                  clicks, permit, retries, exited>>
  BY DEF TakeAction
<1> HIDE DEF action, step, what
<1>5. TypeOK'
  <2>1. TaskTypes'
    BY <1>2, <1>3, <1>4 DEF TypeOK, TaskTypes, Steps, Plans
  <2>2. ManagerTypes' /\ AppTypes' /\ MenuTypes'
    BY <1>4 DEF TypeOK, ManagerTypes, AppTypes, MenuTypes
  <2>3. InputTypes'
    BY <1>2, <1>3, <1>4 DEF TypeOK, InputTypes
  <2> QED BY <2>1, <2>2, <2>3, TypePartsNext
<1>6. \A u \in Tasks : u # "handler" => pc'[u] = pc[u] /\ plan'[u] = plan[u]
  BY <1>3
<1>7. step \in {"idle", "dialog", "begin", "revoke"} /\ pc'["handler"] = step /\ plan'["handler"] = what
  BY <1>3 DEF step, what
<1>8. NothingUnwanted' /\ MutexHeld'
  BY <1>1, <1>4, <1>6, <1>7 DEF NothingUnwanted, MutexHeld
<1>9. PauseRevokes' /\ ResumeUnpauses'
  BY <1>7 DEF PauseRevokes, ResumeUnpauses
<1>10. PausedIsQuiet'
  BY <1>4, <1>6, <1>7 DEF PausedIsQuiet, Quiet
<1>11. PlansKnown'
  BY <1>6 DEF PlansKnown
<1>12. BeforeAutostart'
  <2> SUFFICES ASSUME pc["autostart"] \in {"probe", "permit", "state"}, BeforeAutostart
               PROVE  BeforeAutostart'
    BY <1>6 DEF BeforeAutostart
  <2>1. \A i \in 1..Len(queue) : queue[i] \in {"About", "Quit"}
    BY DEF BeforeAutostart
  <2>2. action \in {"About", "Quit"} /\ \A i \in 1..Len(queue') : queue'[i] \in {"About", "Quit"}
    BY <1>2, <2>1
  <2>3. step \in {"dialog", "revoke"} /\ what \in {"About", "exit"} /\ loginWindow' = loginWindow
    BY <1>3, <2>2
  <2> QED BY <1>4, <1>6, <1>7, <2>2, <2>3 DEF BeforeAutostart
<1>13. StickStep
  BY <1>4 DEF StickStep
<1> QED BY <1>5, <1>8, <1>9, <1>10, <1>11, <1>12, <1>13

-----------------------------------------------------------------------------
(* The theorems                                                            *)

LEMMA NextKeeps ==
  ASSUME TrayInv, [Next]_vars
  PROVE  TrayInv' /\ StickStep
<1>1. ASSUME NEW t \in {"handler", "autostart", "loop"}, Starting(t)
      PROVE  TrayInv' /\ StickStep
  BY <1>1, RequestStartKeeps, LockForStartKeeps, LaunchKeeps, PublishKeeps DEF Starting
<1>2. ASSUME NEW t \in {"handler", "signal"}, Stopping(t)
      PROVE  TrayInv' /\ StickStep
  BY <1>2, RevokePermitsKeeps, LockForStopKeeps, StopReturnsKeeps, AfterStopKeeps DEF Stopping
<1>3. CASE Handler
  BY <1>1, <1>2, <1>3, TakeActionKeeps, HandlerBeginKeeps, DrawLoginKeeps, DrawStatusKeeps,
     StartFailedKeeps, DrawFailureKeeps, DrawLogoutKeeps, ExitKeeps DEF Handler
<1>4. CASE Autostart
  BY <1>1, <1>4, ProbeKeeps, AutoStateKeeps, DrawLoginKeeps, DrawStatusKeeps, DrawIconKeeps,
     StartFailedKeeps, DrawFailureKeeps DEF Autostart
<1>5. CASE Loop
  BY <1>1, <1>5, LoopSeesKeeps, LoopDrawsKeeps, LoopRetriesKeeps DEF Loop
<1>6. CASE OnSignal
  BY <1>2, <1>6, ExitKeeps DEF OnSignal
<1>7. CASE Environment
  BY <1>7, ClickKeeps, LogInKeeps, SignalKeeps, AnswerDialogKeeps, CliWritesKeeps, CliExitsKeeps
     DEF Environment
<1>8. CASE UNCHANGED vars
  BY <1>8 DEF vars, TypeOK, NothingUnwanted, MutexHeld, PauseRevokes, PausedIsQuiet, Quiet,
     ResumeUnpauses, BeforeAutostart, PlansKnown, StickStep
<1> QED BY <1>3, <1>4, <1>5, <1>6, <1>7, <1>8 DEF Next

\* lib.rs, actions.rs: whatever the tasks of the application do, and in
\* whatever order, a CLI that nobody wants is about to be stopped, the mutex
\* is held around launches and stops, and a pause that has stopped the CLI
\* is quiet until the user resumes or logs in.
THEOREM TasksInterleave == Spec => []TrayInv
<1>1. Init => TrayInv
  BY InitKeeps
<1>2. TrayInv /\ [Next]_vars => TrayInv'
  BY NextKeeps
<1> QED BY <1>1, <1>2, PTL DEF Spec

\* actions.rs:171: only the user's next action takes the app out of Paused;
\* a failed autostart is the exception.
THEOREM PauseIsFinal == Spec => PauseSticks
<1>1. TrayInv /\ [Next]_vars => [StickStep]_vars
  BY NextKeeps
<1>2. [][StickStep]_vars <=> PauseSticks
  BY PTL DEF StickStep, PauseSticks
<1> QED BY <1>1, <1>2, TasksInterleave, PTL DEF Spec

=============================================================================
