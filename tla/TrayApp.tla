------------------------------- MODULE TrayApp -------------------------------
(***************************************************************************)
(* The wiring of the application (lib.rs, actions.rs): the task that takes *)
(* the tray's actions from their queue, the autostart, the retries of the  *)
(* status loop and the signal handler, all calling one CLI manager, writing *)
(* one AppState and drawing one tray menu.                                 *)
(*                                                                         *)
(* The manager is what SyncSlot promises, with the mutex that orders its   *)
(* transactions: permits, one slot, stops that return with the slot empty. *)
(* A step is the code between two awaits or two calls of the tray.         *)
(***************************************************************************)
EXTENDS Naturals, Sequences

CONSTANTS MaxClicks,     \* bound: menu items clicked, a signal counted with them
          MaxRetries,    \* how often the status loop retries
          CliStates,     \* what the running CLI's events may set
          SpawnMayFail,  \* whether a launch may fail
          WithSignal,    \* whether a SIGTERM or SIGINT may come
          WithDialogs,   \* whether items that open a dialog are clicked
          None           \* no task, no permit

SyncStates == {"Starting", "NotLoggedIn", "Synced", "Scanning", "Syncing",
               "Paused", "Error", "CliNotFound", "Offline"}

ASSUME TrayAssumption ==
  /\ MaxClicks \in Nat /\ MaxRetries \in Nat
  /\ CliStates \subseteq {"Scanning", "Syncing", "Synced", "Error", "Offline"}
  /\ {SpawnMayFail, WithSignal, WithDialogs} \subseteq BOOLEAN
  /\ None \notin Nat \cup {"handler", "autostart", "loop", "signal"}

Tasks == {"handler", "autostart", "loop", "signal"}

VARIABLES
  desired, epoch, lock, slot,   \* the manager: intent, mutex, CLI process
  syncState, session,           \* AppState.sync_state; the CLI's stored session
  menu,                         \* what the tray shows: login, status, icon
  dirty, seen,                  \* the watch channel and the loop's snapshot
  queue, clicks, loginWindow,   \* the tray's actions; clicks made; the window
  pc, permit, plan,             \* each task: next step, permit, what it is about
  retries, exited

managerVars == <<desired, epoch, lock, slot>>
appVars     == <<syncState, dirty, session>>
trayVars    == <<menu, seen>>
inputVars   == <<queue, clicks, loginWindow>>
taskVars    == <<pc, permit, plan>>
vars == <<managerVars, appVars, trayVars, inputVars, taskVars, retries, exited>>

-----------------------------------------------------------------------------
MenuActions == {"Login", "LoginCompleted", "Logout", "TogglePause", "About", "Quit"}
Plans == MenuActions \cup {"none", "resume", "pause", "exit", "retry"}
           \cup {"CliNotFound", "NotLoggedIn", "Synced", "Scanning"}
Steps == {"idle", "draw", "icon",
          "probe", "state", "login", "status", "icon2",
          "dialog", "begin", "set", "permit", "lock", "launch", "publish", "failed", "redraw",
          "revoke", "stopLock", "stopping", "stopped", "tidy", "undraw", "exiting", "done"}

TypeOK ==
  /\ desired \in BOOLEAN /\ epoch \in Nat
  /\ lock \in Tasks \cup {None} /\ slot \in {"empty", "running"}
  /\ syncState \in SyncStates /\ session \in BOOLEAN
  /\ menu \in [login : {"unknown", "in", "out"}, status : SyncStates, icon : SyncStates]
  /\ dirty \in BOOLEAN /\ seen \in SyncStates
  /\ queue \in Seq(MenuActions) /\ clicks \in 0..MaxClicks /\ loginWindow \in BOOLEAN
  /\ pc \in [Tasks -> Steps]
  /\ permit \in [Tasks -> Nat \cup {None}]
  /\ plan \in [Tasks -> Plans]
  /\ retries \in 0..MaxRetries /\ exited \in BOOLEAN

Init ==
  /\ desired = FALSE /\ epoch = 0 /\ lock = None /\ slot = "empty"
  /\ syncState = "Starting" /\ session \in BOOLEAN
  /\ menu = [login |-> "unknown", status |-> "Starting", icon |-> "Starting"]
  /\ dirty = FALSE /\ seen = "Starting"
  /\ queue = <<>> /\ clicks = 0 /\ loginWindow = FALSE
  /\ pc = [t \in Tasks |-> IF t = "autostart" THEN "probe" ELSE "idle"]
  /\ permit = [t \in Tasks |-> None]
  /\ plan = [t \in Tasks |-> "none"]
  /\ retries = 0 /\ exited = FALSE

\* AppState.set_sync_state: setting the same state notifies nobody.
SetSyncState(state) ==
  /\ syncState' = state
  /\ dirty' = (dirty \/ state # syncState)

Goto(t, step) == pc' = [pc EXCEPT ![t] = step]
Begin(t, step, what) == Goto(t, step) /\ plan' = [plan EXCEPT ![t] = what]
Draw(field, value) == menu' = [menu EXCEPT ![field] = value]

-----------------------------------------------------------------------------
(* The user, the CLI's login and the signals                               *)

\* tray/mod.rs: in which states the pause/resume item is enabled.
PauseResumeEnabled(state, login) ==
  login = "in" /\ state \in {"Synced", "Scanning", "Syncing", "Paused", "Error", "Offline"}

\* The items the menu offers; what is drawn may be behind the state.
Offered ==
  (IF PauseResumeEnabled(menu.icon, menu.login) THEN {"TogglePause"} ELSE {})
    \cup (IF menu.login = "in" THEN {"Logout"} ELSE {})
    \cup (IF menu.login = "out" THEN {"Login"} ELSE {})
    \cup (IF WithDialogs THEN {"About"} ELSE {}) \cup {"Quit"}

Click ==
  /\ ~exited /\ clicks < MaxClicks
  /\ \E action \in Offered : queue' = Append(queue, action)
  /\ clicks' = clicks + 1
  /\ UNCHANGED <<managerVars, appVars, trayVars, loginWindow, taskVars, retries, exited>>

\* LoginCommandContext::report: the in-app login stored a session.
LogIn ==
  /\ ~exited /\ loginWindow
  /\ session' = TRUE /\ loginWindow' = FALSE
  /\ queue' = Append(queue, "LoginCompleted")
  /\ UNCHANGED <<managerVars, syncState, dirty, trayVars, clicks, taskVars, retries, exited>>

Signal ==
  /\ WithSignal /\ pc["signal"] = "idle"
  /\ clicks < MaxClicks /\ clicks' = clicks + 1
  /\ Begin("signal", "revoke", "exit")
  /\ UNCHANGED <<managerVars, appVars, trayVars, queue, loginWindow, permit, retries, exited>>

-----------------------------------------------------------------------------
(* The manager's transactions, for any task                                *)

\* A mutant of RequestStart: a retry asks for the sync like the user does.
RequestStartAlways(t) ==
  /\ pc[t] = "permit"
  /\ desired' = TRUE
  /\ permit' = [permit EXCEPT ![t] = epoch]
  /\ Goto(t, IF t = "autostart" THEN "state" ELSE "lock")
  /\ UNCHANGED <<epoch, lock, slot, appVars, trayVars, inputVars, plan, retries, exited>>

\* request_sync_start of an explicit start, retry_sync_permit of a retry.
RequestStart(t) ==
  /\ pc[t] = "permit"
  /\ IF plan[t] = "retry" /\ ~desired
     THEN Goto(t, "idle") /\ UNCHANGED <<desired, permit>>
     ELSE /\ desired' = TRUE
          /\ permit' = [permit EXCEPT ![t] = epoch]
          /\ Goto(t, IF t = "autostart" THEN "state" ELSE "lock")
  /\ UNCHANGED <<epoch, lock, slot, appVars, trayVars, inputVars, plan, retries, exited>>

Current(t) == desired /\ permit[t] = epoch

StartReturns(t) ==
  /\ lock' = None
  /\ permit' = [permit EXCEPT ![t] = None]
  /\ Begin(t, IF t \in {"handler", "loop"} THEN "idle" ELSE "done", "none")

\* A stale permit is discarded without an error.
LockForStart(t) ==
  /\ pc[t] = "lock" /\ lock = None
  /\ IF Current(t)
     THEN lock' = t /\ Goto(t, "launch") /\ UNCHANGED <<permit, plan>>
     ELSE StartReturns(t)
  /\ UNCHANGED <<desired, epoch, slot, appVars, trayVars, inputVars, retries, exited>>

\* A mutant of Launch: a failure returns without giving the mutex back.
LaunchKeepsLock(t) ==
  /\ pc[t] = "launch"
  /\ \/ /\ Current(t)
        /\ slot' = "running" /\ Goto(t, "publish")
        /\ UNCHANGED <<lock, permit, plan>>
     \/ /\ ~Current(t)
        /\ slot' = "empty" /\ StartReturns(t)
     \/ /\ SpawnMayFail
        /\ slot' = "empty" /\ lock' = lock
        /\ permit' = [permit EXCEPT ![t] = None]
        /\ Begin(t, IF t = "loop" THEN "idle" ELSE "failed",
                 IF t = "loop" THEN "none" ELSE plan[t])
  /\ UNCHANGED <<desired, epoch, appVars, trayVars, inputVars, retries, exited>>

\* The old process is gone, the sync pairs are written, the permit is looked
\* at again, and the CLI is spawned; or writing or spawning fails.
Launch(t) ==
  /\ pc[t] = "launch"
  /\ \/ /\ Current(t)
        /\ slot' = "running" /\ Goto(t, "publish")
        /\ UNCHANGED <<lock, permit, plan>>
     \/ /\ ~Current(t)
        /\ slot' = "empty" /\ StartReturns(t)
     \/ /\ SpawnMayFail
        /\ slot' = "empty" /\ lock' = None
        /\ permit' = [permit EXCEPT ![t] = None]
        /\ Begin(t, IF t = "loop" THEN "idle" ELSE "failed",
                 IF t = "loop" THEN "none" ELSE plan[t])
  /\ UNCHANGED <<desired, epoch, appVars, trayVars, inputVars, retries, exited>>

\* The authoritative Scanning, still under the mutex.
Publish(t) ==
  /\ pc[t] = "publish"
  /\ SetSyncState("Scanning")
  /\ StartReturns(t)
  /\ UNCHANGED <<desired, epoch, slot, session, trayVars, inputVars, retries, exited>>

RevokePermits(t) ==
  /\ pc[t] = "revoke"
  /\ desired' = FALSE /\ epoch' = epoch + 1
  /\ Goto(t, "stopLock")
  /\ UNCHANGED <<lock, slot, appVars, trayVars, inputVars, permit, plan, retries, exited>>

LockForStop(t) ==
  /\ pc[t] = "stopLock" /\ lock = None
  /\ lock' = t /\ Goto(t, "stopping")
  /\ UNCHANGED <<desired, epoch, slot, appVars, trayVars, inputVars, permit, plan,
                 retries, exited>>

\* A mutant of StopReturns: the process is told to end, and not awaited.
StopReturnsAtOnce(t) ==
  /\ pc[t] = "stopping"
  /\ lock' = None
  /\ Goto(t, "stopped")
  /\ UNCHANGED <<desired, epoch, slot, appVars, trayVars, inputVars, permit, plan,
                 retries, exited>>

\* The supervisor has been joined, and nothing writes for the process any more.
StopReturns(t) ==
  /\ pc[t] = "stopping"
  /\ slot' = "empty" /\ lock' = None
  /\ Goto(t, "stopped")
  /\ UNCHANGED <<desired, epoch, appVars, trayVars, inputVars, permit, plan,
                 retries, exited>>

-----------------------------------------------------------------------------
(* The CLI process                                                         *)

\* The monitors set the state while the process is in the slot; also while a
\* stop waits for them.
CliWrites ==
  /\ ~exited /\ slot = "running" /\ \A t \in Tasks : pc[t] # "publish"
  /\ \E state \in CliStates : state # syncState /\ SetSyncState(state)
  /\ UNCHANGED <<managerVars, session, trayVars, inputVars, taskVars, retries, exited>>

\* An exit nobody asked for is an Error, unless stderr said Offline.
CliExits ==
  /\ ~exited /\ slot = "running"
  /\ \A t \in Tasks : pc[t] \notin {"publish", "stopping", "launch"}
  /\ slot' = "empty"
  /\ SetSyncState(IF syncState = "Offline" THEN "Offline" ELSE "Error")
  /\ UNCHANGED <<desired, epoch, lock, session, trayVars, inputVars, taskVars, retries, exited>>

-----------------------------------------------------------------------------
(* The action handler                                                      *)

\* handle_tray_action, up to its first await.  Without a session Login opens
\* the login window, or a dialog says that it cannot be opened.
TakeAction ==
  /\ pc["handler"] = "idle" /\ queue # <<>>
  /\ queue' = Tail(queue)
  /\ LET action == Head(queue) IN
       CASE action = "LoginCompleted" \/ (action = "Login" /\ session) ->
              Begin("handler", "begin", action) /\ UNCHANGED loginWindow
         [] action = "Login" /\ ~session ->
              \/ loginWindow' = TRUE /\ UNCHANGED <<pc, plan>>
              \/ WithDialogs /\ Begin("handler", "dialog", "Login") /\ UNCHANGED loginWindow
         [] action \in {"Logout", "About"} ->
              Begin("handler", "dialog", action) /\ UNCHANGED loginWindow
         [] action = "TogglePause" ->
              /\ IF syncState = "Paused" THEN Begin("handler", "begin", "resume")
                                         ELSE Begin("handler", "revoke", "pause")
              /\ UNCHANGED loginWindow
         [] action = "Quit" ->
              Begin("handler", "revoke", "exit") /\ UNCHANGED loginWindow
  /\ UNCHANGED <<managerVars, appVars, trayVars, clicks, permit, retries, exited>>

\* The user closes a dialog, which the handler's task has been blocked by.
AnswerDialog ==
  /\ pc["handler"] = "dialog"
  /\ \/ plan["handler"] = "Logout" /\ Begin("handler", "revoke", "Logout")
     \/ Begin("handler", "idle", "none")
  /\ UNCHANGED <<managerVars, appVars, trayVars, inputVars, permit, retries, exited>>

\* start_authenticated_sync and the resume of toggle_pause set Scanning first.
HandlerBegin ==
  /\ pc["handler"] = "begin"
  /\ SetSyncState("Scanning")
  /\ Goto("handler", IF plan["handler"] = "resume" THEN "permit" ELSE "login")
  /\ UNCHANGED <<managerVars, session, trayVars, inputVars, permit, plan, retries, exited>>

\* A failed start is shown as an Error; a resume does not draw it itself.
StartFailed(t) ==
  /\ pc[t] = "failed"
  /\ SetSyncState("Error")
  /\ IF plan[t] = "resume" THEN Begin(t, "idle", "none")
                           ELSE Goto(t, "redraw") /\ UNCHANGED plan
  /\ UNCHANGED <<managerVars, session, trayVars, inputVars, permit, retries, exited>>

DrawFailure(t) ==
  /\ pc[t] = "redraw"
  /\ Draw("status", "Error")
  /\ Begin(t, IF t = "handler" THEN "idle" ELSE "done", "none")
  /\ UNCHANGED <<managerVars, appVars, seen, inputVars, permit, retries, exited>>

\* What follows a stop: the pause sets Paused, the logout deletes the session
\* (a failure is ignored) and sets NotLoggedIn, and Quit and the signal flush and exit.
AfterStop(t) ==
  /\ pc[t] = "stopped"
  /\ CASE plan[t] = "pause" ->
            SetSyncState("Paused") /\ Begin(t, "idle", "none") /\ UNCHANGED session
       [] plan[t] = "Logout" ->
            /\ session' \in {session, FALSE}
            /\ SetSyncState("NotLoggedIn") /\ Goto(t, "undraw") /\ UNCHANGED plan
       [] OTHER ->
            Goto(t, "exiting") /\ UNCHANGED <<appVars, plan>>
  /\ UNCHANGED <<managerVars, trayVars, inputVars, permit, retries, exited>>

DrawLogout ==
  /\ pc["handler"] = "undraw"
  /\ menu' = [menu EXCEPT !.login = "out", !.status = "NotLoggedIn"]
  /\ Begin("handler", "idle", "none")
  /\ UNCHANGED <<managerVars, appVars, seen, inputVars, permit, retries, exited>>

\* exit(0) ends every task and runs no destructor: a CLI that runs then goes
\* on without the app.
Exit(t) ==
  /\ pc[t] = "exiting"
  /\ exited' = TRUE /\ pc' = [u \in Tasks |-> "done"]
  /\ UNCHANGED <<managerVars, appVars, trayVars, inputVars, permit, plan, retries>>

-----------------------------------------------------------------------------
(* The autostart, and the draws that the handler's login shares with it    *)

\* What the task makes the app show; the autostart plans a state.
NewState(t) == IF t = "autostart" THEN plan[t] ELSE "Scanning"

\* The bundled CLI is missing, there is no session, or auto_start is off or
\* on; the permit is taken before Scanning is shown.
Probe ==
  /\ pc["autostart"] = "probe"
  /\ \E state \in {"CliNotFound", "NotLoggedIn", "Synced", "Scanning"} :
       /\ state = "NotLoggedIn" => ~session
       /\ state \in {"Synced", "Scanning"} => session
       /\ Begin("autostart", IF state = "Scanning" THEN "permit" ELSE "state", state)
  /\ UNCHANGED <<managerVars, appVars, trayVars, inputVars, permit, retries, exited>>

AutoState ==
  /\ pc["autostart"] = "state"
  /\ SetSyncState(NewState("autostart"))
  /\ Goto("autostart", IF NewState("autostart") = "CliNotFound" THEN "status" ELSE "login")
  /\ UNCHANGED <<managerVars, session, trayVars, inputVars, permit, plan, retries, exited>>

DrawLogin(t) ==
  /\ pc[t] = "login"
  /\ Draw("login", IF NewState(t) = "NotLoggedIn" THEN "out" ELSE "in")
  /\ Goto(t, "status")
  /\ UNCHANGED <<managerVars, appVars, seen, inputVars, permit, plan, retries, exited>>

DrawStatus(t) ==
  /\ pc[t] = "status"
  /\ Draw("status", NewState(t))
  /\ Goto(t, IF t = "autostart" THEN "icon2" ELSE "permit")
  /\ UNCHANGED <<managerVars, appVars, seen, inputVars, permit, plan, retries, exited>>

DrawIcon ==
  /\ pc["autostart"] = "icon2"
  /\ Draw("icon", NewState("autostart"))
  /\ Goto("autostart", IF permit["autostart"] = None THEN "done" ELSE "lock")
  /\ UNCHANGED <<managerVars, appVars, seen, inputVars, permit, plan, retries, exited>>

-----------------------------------------------------------------------------
(* The status loop; StatusLoop has its counters                            *)

LoopSees ==
  /\ pc["loop"] = "idle" /\ dirty
  /\ dirty' = FALSE /\ seen' = syncState
  /\ Goto("loop", "draw")
  /\ UNCHANGED <<managerVars, syncState, session, menu, inputVars, permit, plan, retries, exited>>

LoopDraws ==
  \/ /\ pc["loop"] = "draw"
     /\ Draw("status", seen) /\ Goto("loop", "icon")
     /\ UNCHANGED <<managerVars, appVars, seen, inputVars, permit, plan, retries, exited>>
  \/ /\ pc["loop"] = "icon"
     /\ Draw("icon", seen) /\ Goto("loop", "idle")
     /\ UNCHANGED <<managerVars, appVars, seen, inputVars, permit, plan, retries, exited>>

LoopRetries ==
  /\ pc["loop"] = "idle" /\ seen \in {"Offline", "Error"} /\ retries < MaxRetries
  /\ retries' = retries + 1
  /\ Begin("loop", "permit", "retry")
  /\ UNCHANGED <<managerVars, appVars, trayVars, inputVars, permit, exited>>

-----------------------------------------------------------------------------
Starting(t) == RequestStart(t) \/ LockForStart(t) \/ Launch(t) \/ Publish(t)
Stopping(t) == RevokePermits(t) \/ LockForStop(t) \/ StopReturns(t) \/ AfterStop(t)

Handler ==
  \/ Starting("handler") \/ Stopping("handler") \/ TakeAction \/ HandlerBegin
  \/ DrawLogin("handler") \/ DrawStatus("handler") \/ StartFailed("handler")
  \/ DrawFailure("handler") \/ DrawLogout \/ Exit("handler")

Autostart ==
  \/ Starting("autostart") \/ Probe \/ AutoState \/ DrawLogin("autostart")
  \/ DrawStatus("autostart") \/ DrawIcon \/ StartFailed("autostart")
  \/ DrawFailure("autostart")

Loop == Starting("loop") \/ LoopSees \/ LoopDraws \/ LoopRetries
OnSignal == Stopping("signal") \/ Exit("signal")

Environment == Click \/ LogIn \/ Signal \/ AnswerDialog \/ CliWrites \/ CliExits

Next == Handler \/ Autostart \/ Loop \/ OnSignal \/ Environment

\* Tasks that are ready are polled, and the mutex is handed out in order.
Fairness ==
  /\ WF_vars(Handler) /\ WF_vars(Autostart) /\ WF_vars(Loop) /\ WF_vars(OnSignal)
  /\ \A t \in Tasks : SF_vars(LockForStart(t) \/ LockForStop(t))

Spec == Init /\ [][Next]_vars /\ Fairness
-----------------------------------------------------------------------------
\* While the application runs, a CLI process that nobody wants is one that a
\* stop is about to end: no retry, no late autostart and no start that was
\* overtaken brings it back.
NothingUnwanted ==
  ~exited /\ slot = "running" /\ ~desired =>
    \E t \in Tasks : pc[t] \in {"stopLock", "stopping"}

\* The lifecycle mutex is held around every launch and every stop.
MutexHeld == \A t \in Tasks : pc[t] \in {"launch", "publish", "stopping"} => lock = t

\* Nobody wants a CLI, none runs, and no task is in the middle of a launch.
Quiet == ~desired /\ slot = "empty" /\ \A t \in Tasks : pc[t] \notin {"launch", "publish"}

\* actions.rs, toggle_pause: from the revocation on nothing asks for a sync,
\* and once the stop has returned all is quiet, Paused or about to be.
PauseRevokes ==
  plan["handler"] = "pause" =>
    /\ pc["handler"] \in {"stopLock", "stopping", "stopped"} => ~desired
    /\ pc["handler"] = "stopped" => Quiet
PausedIsQuiet == syncState = "Paused" => Quiet
ResumeUnpauses == pc["handler"] \in {"login", "status", "permit"} => syncState # "Paused"

\* lib.rs, the autostart: until its first write the app is as it was launched,
\* and the menu offers nothing that starts, pauses or logs in or out.
BeforeAutostart ==
  pc["autostart"] \in {"probe", "permit", "state"} =>
    /\ syncState = "Starting" /\ slot = "empty" /\ seen = "Starting" /\ ~dirty
    /\ menu.login = "unknown" /\ ~loginWindow
    /\ \A i \in 1..Len(queue) : queue[i] \in {"About", "Quit"}
    /\ pc["loop"] \in {"idle", "done"}
    /\ plan["handler"] \in {"none", "About", "exit"}
    /\ pc["handler"] \in {"idle", "dialog", "revoke", "stopLock", "stopping", "stopped",
                          "exiting", "done"}

\* What each task is about, where its next step depends on it.
PlansKnown ==
  /\ pc["autostart"] \in {"permit", "state", "login", "status", "icon2"} =>
       plan["autostart"] \in {"CliNotFound", "NotLoggedIn", "Synced", "Scanning"}
  /\ pc["loop"] = "permit" => plan["loop"] = "retry"
  /\ pc["signal"] \in {"revoke", "stopLock", "stopping", "stopped"} => plan["signal"] = "exit"

\* lib.rs, actions.rs: what holds while the tasks of the application interleave.
TrayInv ==
  /\ TypeOK /\ NothingUnwanted /\ MutexHeld /\ PauseRevokes /\ PausedIsQuiet
  /\ ResumeUnpauses /\ BeforeAutostart /\ PlansKnown

\* actions.rs:171: a pause shows what the user meant.  Only the user's next
\* action (the handler) takes the app out of Paused; neither the CLI's last
\* words nor a retry does.  A failed autostart is the exception.
PauseSticks ==
  [][syncState = "Paused" /\ syncState' # "Paused" =>
       \/ pc'["handler"] # pc["handler"]
       \/ pc["autostart"] = "failed"]_vars

\* The same without the exception.
\* The code does not keep it (README, Other disagreements).
PauseStays ==
  [][syncState = "Paused" /\ syncState' # "Paused" =>
       pc'["handler"] # pc["handler"]]_vars

\* lib.rs:109, "Stop the CLI process tree before Unix terminates the app": no
\* CLI is running when the application exits.
NoOrphan == exited => slot = "empty"

\* state.rs:56, "NotLoggedIn -> Scanning, Syncing": from there only a login
\* leads on.
\* The code does not keep it (README, Other disagreements).
NotLoggedInTransitions ==
  [][syncState = "NotLoggedIn" =>
       syncState' \in {"NotLoggedIn", "Scanning", "Syncing"}]_vars

\* lib.rs:160, "Reactive updates via watch channel when state changes": once
\* every task is at rest the tray shows the state.
\* The code does not keep it (README, Other disagreements).
MenuInSync ==
  /\ ~exited /\ ~dirty /\ \A t \in Tasks : pc[t] \in {"idle", "done"}
  => menu.status = syncState /\ menu.icon = syncState

\* A Quit that is being handled, or a signal, ends the application.
QuitExits ==
  (\E t \in {"handler", "signal"} : pc[t] = "revoke" /\ plan[t] = "exit") ~> exited

\* Every action is handled to its end, unless a dialog is left open or the
\* application exits.
ActionsHandled ==
  queue # <<>> \/ pc["handler"] # "idle" ~>
    \/ queue = <<>> /\ pc["handler"] = "idle"
    \/ exited \/ pc["handler"] = "dialog"

\* lib.rs: no task waits for ever, on the lifecycle mutex or on another task.
TasksFinish == QuitExits /\ ActionsHandled
=============================================================================
