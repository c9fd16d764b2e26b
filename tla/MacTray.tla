------------------------------- MODULE MacTray -------------------------------
(***************************************************************************)
(* tray/macos.rs: the tray on macOS.  Its native menu stays up while its   *)
(* items are changed in place; only a login or a logout builds another     *)
(* menu.  Three tasks call it, and a call is several steps: it writes the  *)
(* shared MenuState, reads it again, and sets the items through the        *)
(* handles in MenuItems, which a rebuild replaces.                         *)
(*                                                                         *)
(* Around it: the AppState's part of what is drawn, the status loop's      *)
(* redraws, and what autostart, login and logout draw themselves.          *)
(***************************************************************************)
EXTENDS TrayMenu, Sequences

CONSTANTS CliStates,   \* what the CLI's events set
          MaxChanges,  \* bound: changes by autostart or a click
          MaxEvents    \* bound: events

MacAssumption == CliStates \subseteq SyncStates /\ {MaxChanges, MaxEvents} \subseteq Nat

Tasks == {"loop", "autostart", "handler"}

VARIABLES
  state, reading,     \* MenuState; the tasks that hold its lock for reading
  shown, builder,     \* the menu on display and the task that built it last
  attached,           \* whether MenuItems are the items of that menu
  using,              \* the tasks that hold the lock on MenuItems for reading
  icon, tooltip,
  todo, pc, local,    \* each task's calls; its step in the first; what it computed
  app, dirty, seen,   \* AppState; whether the loop has yet to see it; what it saw
  frame,              \* the loop's animation_frame
  running,            \* whether a CLI runs
  changes, events     \* what MaxChanges and MaxEvents bound
trayVars == <<state, reading, shown, builder, attached, using, icon, tooltip>>
taskVars == <<todo, pc, local>>
counted  == <<changes, events>>
appVars  == <<app, dirty, seen, frame, running, counted>>
vars == <<trayVars, taskVars, appVars>>

Snapshot(sync, count, transfer) == [sync |-> sync, count |-> count, transfer |-> transfer]
Snapshots == [sync : SyncStates, count : 0..MaxCount, transfer : Transfers \cup {Nothing}]

\* A call of the tray that a task has yet to make, or a start or a probe.
Calling == [op : {"icon"}, arg : SyncStates, frame : 0..MaxFrame]
             \cup [op : {"status"}, arg : SyncStates] \cup [op : {"count"}, arg : 0..MaxCount]
             \cup [op : {"synced"}, arg : Times \cup {Nothing}]
             \cup [op : {"transfer"}, arg : Transfers \cup {Nothing}]
             \cup [op : {"login"}, arg : BOOLEAN] \cup [op : {"boot", "launch", "resume"}]
Steps == {"idle", "read", "pending", "pause", "icon", "tip", "item", "set",
          "build", "replace", "items"}
Items == {"status", "pending", "transfer", "label", "enabled", "actions"}

TypeOK ==
  /\ state \in TrayState /\ reading \subseteq Tasks /\ using \subseteq Tasks
  /\ shown = [f \in Items |-> shown[f]]
  /\ attached \in BOOLEAN /\ builder \in Tasks /\ icon \in SyncStates
  /\ app \in Snapshots /\ seen \in Snapshots
  /\ changes \in 0..MaxChanges /\ events \in 0..MaxEvents
  /\ todo \in [Tasks -> Seq(Calling)] /\ pc \in [Tasks -> Steps]
  /\ local = [t \in Tasks |-> local[t]]
  /\ \A t \in Tasks : pc[t] = "idle" \/ todo[t] # <<>>
  /\ frame \in 0..MaxFrame /\ {dirty, running} \subseteq BOOLEAN

Init ==
  /\ state = InitialState /\ reading = {} /\ using = {}
  /\ shown = MenuOf(InitialState) /\ attached = TRUE /\ builder = "autostart"
  /\ icon = "Starting" /\ tooltip = Label("name", Nothing)
  /\ pc = [t \in Tasks |-> "idle"] /\ local = [t \in Tasks |-> Nothing]
  /\ todo = [t \in Tasks |-> IF t = "autostart" THEN <<[op |-> "boot"]>> ELSE <<>>]
  /\ app = Snapshot("Starting", 0, Nothing) /\ dirty = FALSE /\ seen = app /\ frame = 0
  /\ running = FALSE /\ changes = 0 /\ events = 0

-----------------------------------------------------------------------------
Call(op, arg) == [op |-> op, arg |-> arg]
IconCall(sync, f) == [op |-> "icon", arg |-> sync, frame |-> f]

First(t)  == Head(todo[t])
At(t, op, step) == todo[t] # <<>> /\ First(t).op = op /\ pc[t] = step
Goto(t, step) == pc' = [pc EXCEPT ![t] = step] /\ UNCHANGED todo
Done(t) == /\ todo' = [todo EXCEPT ![t] = Tail(@)]
           /\ pc' = [pc EXCEPT ![t] = "idle"]
Compute(t, value) == local' = [local EXCEPT ![t] = value]

Writable == reading = {}

\* The items that MenuItems refer to, if they are those on display.
SetItem(fields) ==
  shown' = IF attached THEN [f \in DOMAIN shown |-> IF f \in DOMAIN fields THEN fields[f]
                                                   ELSE shown[f]]
           ELSE shown

-----------------------------------------------------------------------------
(* update_icon                                                             *)

WriteIcon(t) ==
  /\ At(t, "icon", "idle") /\ Writable
  /\ LET sync == First(t).arg
         newState == state.sync # sync
         newFrame == state.frame # First(t).frame
         needsMenu == newState \/ (newFrame /\ sync \in Loading)
         needsIcon == newState \/ (newFrame /\ sync \in Animated)
     IN /\ state' = [state EXCEPT !.sync = sync, !.frame = First(t).frame]
        /\ IF needsMenu THEN Goto(t, "read") ELSE IF needsIcon THEN Goto(t, "icon") ELSE Done(t)
  /\ UNCHANGED <<reading, shown, builder, attached, using, icon, tooltip, local, appVars>>

ReadIcon(t) ==
  /\ At(t, "icon", "read")
  /\ Compute(t, [pending |-> PendingText(state.sync, state.count, First(t).frame, state.synced),
                 label   |-> PauseResumeLabel(state.sync),
                 enabled |-> PauseResumeEnabled(state.sync, state.login)])
  /\ Goto(t, "pending")
  /\ UNCHANGED <<trayVars, appVars>>

SetPendingItem(t) ==
  /\ At(t, "icon", "pending")
  /\ using' = using \cup {t}
  /\ SetItem([pending |-> local[t].pending])
  /\ Goto(t, "pause")
  /\ UNCHANGED <<state, reading, builder, attached, icon, tooltip, local, appVars>>

SetPauseItem(t) ==
  /\ At(t, "icon", "pause")
  /\ using' = using \ {t}
  /\ SetItem([label |-> local[t].label, enabled |-> local[t].enabled])
  /\ Compute(t, Nothing) /\ Goto(t, "icon")
  /\ UNCHANGED <<state, reading, builder, attached, icon, tooltip, appVars>>

SetIcon(t) ==
  /\ At(t, "icon", "icon")
  /\ icon' = First(t).arg
  /\ Done(t)
  /\ UNCHANGED <<state, reading, shown, builder, attached, using, tooltip, local, appVars>>

-----------------------------------------------------------------------------
(* update_status, which holds the state until the item is set              *)

WriteStatus(t) ==
  /\ At(t, "status", "idle") /\ Writable
  /\ IF state.status # First(t).arg
     THEN state' = [state EXCEPT !.status = First(t).arg] /\ Goto(t, "tip")
     ELSE UNCHANGED state /\ Done(t)
  /\ UNCHANGED <<reading, shown, builder, attached, using, icon, tooltip, local, appVars>>

SetStatusTip(t) ==
  /\ At(t, "status", "tip")
  /\ reading' = reading \cup {t}
  /\ tooltip' = Tooltip([state EXCEPT !.status = First(t).arg])
  /\ Goto(t, "item")
  /\ UNCHANGED <<state, shown, builder, attached, using, icon, local, appVars>>

SetStatusItem(t) ==
  /\ At(t, "status", "item")
  /\ SetItem([status |-> First(t).arg])
  /\ reading' = reading \ {t}
  /\ Done(t)
  /\ UNCHANGED <<state, builder, attached, using, icon, tooltip, local, appVars>>

-----------------------------------------------------------------------------
(* update_pending_count, update_last_synced and update_current_transfer    *)

WriteField(t, op) ==
  /\ At(t, op, "idle") /\ Writable
  /\ IF state[op] # First(t).arg
     THEN state' = [state EXCEPT ![op] = First(t).arg] /\ Goto(t, "read")
     ELSE UNCHANGED state /\ Done(t)
  /\ UNCHANGED <<reading, shown, builder, attached, using, icon, tooltip, local, appVars>>

ReadCount(t) ==
  /\ At(t, "count", "read")
  /\ tooltip' = Tooltip([state EXCEPT !.count = First(t).arg])
  /\ Compute(t, PendingText(state.sync, First(t).arg, state.frame, state.synced))
  /\ Goto(t, "set")
  /\ UNCHANGED <<state, reading, shown, builder, attached, using, icon, appVars>>

ReadSynced(t) ==
  /\ At(t, "synced", "read")
  /\ Compute(t, Pending(state))
  /\ Goto(t, "set")
  /\ UNCHANGED <<trayVars, appVars>>

SetPending(t) ==
  /\ At(t, "count", "set") \/ At(t, "synced", "set")
  /\ SetItem([pending |-> local[t]])
  /\ Compute(t, Nothing) /\ Done(t)
  /\ UNCHANGED <<state, reading, builder, attached, using, icon, tooltip, appVars>>

SetTransfer(t) ==
  /\ At(t, "transfer", "read")
  /\ SetItem([transfer |-> TransferText(First(t).arg)])
  /\ Done(t)
  /\ UNCHANGED <<state, reading, builder, attached, using, icon, tooltip, local, appVars>>

-----------------------------------------------------------------------------
(* set_login_state and rebuild_menu, which holds the state throughout      *)

WriteLogin(t) ==
  /\ At(t, "login", "idle") /\ Writable
  /\ IF state.login # First(t).arg
     THEN state' = [state EXCEPT !.login = First(t).arg] /\ Goto(t, "build")
     ELSE UNCHANGED state /\ Done(t)
  /\ UNCHANGED <<reading, shown, builder, attached, using, icon, tooltip, local, appVars>>

\* A mutant of BuildMenu: the state is not held while the menu is replaced.
BuildMenuUnlocked(t) ==
  /\ At(t, "login", "build")
  /\ Compute(t, MenuOf(state)) /\ Goto(t, "replace")
  /\ UNCHANGED <<trayVars, appVars>>

BuildMenu(t) ==
  /\ At(t, "login", "build")
  /\ reading' = reading \cup {t}
  /\ Compute(t, MenuOf(state)) /\ Goto(t, "replace")
  /\ UNCHANGED <<state, shown, builder, attached, using, icon, tooltip, appVars>>

SetMenu(t) ==
  /\ At(t, "login", "replace")
  /\ shown' = local[t] /\ builder' = t /\ attached' = FALSE
  /\ Compute(t, Nothing) /\ Goto(t, "items")
  /\ UNCHANGED <<state, reading, using, icon, tooltip, appVars>>

ReplaceItems(t) ==
  /\ At(t, "login", "items") /\ using = {}
  /\ attached' = (builder = t) /\ reading' = reading \ {t}
  /\ Done(t)
  /\ UNCHANGED <<state, shown, builder, using, icon, tooltip, local, appVars>>

Step(t) ==
  \/ WriteIcon(t) \/ ReadIcon(t) \/ SetPendingItem(t) \/ SetPauseItem(t) \/ SetIcon(t)
  \/ WriteStatus(t) \/ SetStatusTip(t) \/ SetStatusItem(t)
  \/ \E op \in {"count", "synced", "transfer"} : WriteField(t, op)
  \/ ReadCount(t) \/ ReadSynced(t) \/ SetPending(t) \/ SetTransfer(t)
  \/ WriteLogin(t) \/ BuildMenu(t) \/ SetMenu(t) \/ ReplaceItems(t)

-----------------------------------------------------------------------------
(* The callers                                                             *)

Publish(new) == app' = new /\ dirty' = (dirty \/ new # app)
\* A resume and a failed start follow a step that counts.
Counted == changes < MaxChanges /\ changes' = changes + 1 /\ UNCHANGED events
SetSync(sync) == Publish([app EXCEPT !.sync = sync])
Calls(t, calls) == todo' = [todo EXCEPT ![t] = calls] /\ UNCHANGED pc
Free(t) == todo[t] = <<>>

\* apply_state_to_tray
Redraw ==
  /\ Free("loop") /\ dirty /\ dirty' = FALSE /\ seen' = app
  /\ \E time \in IF app.sync = "Synced" THEN Times \cup {state.synced} ELSE {state.synced} :
       Calls("loop", <<Call("status", app.sync), Call("synced", time),
                       IconCall(app.sync, frame), Call("count", app.count),
                       Call("transfer", app.transfer)>>)
  /\ UNCHANGED <<trayVars, local, app, frame, running, counted>>

Animate ==
  /\ Free("loop") /\ seen.sync \in Animated
  /\ frame' = (frame + 1) % (MaxFrame + 1)
  /\ Calls("loop", <<IconCall(seen.sync, frame')>>)
  /\ UNCHANGED <<trayVars, local, app, dirty, seen, running, counted>>

\* The CLI's events, while it runs, each setter on its own.
Event ==
  /\ running /\ events < MaxEvents /\ events' = events + 1
  /\ \/ \E sync \in CliStates : SetSync(sync)
     \/ \E count \in 0..MaxCount : Publish([app EXCEPT !.count = count])
     \/ \E text \in Transfers \cup {Nothing} : Publish([app EXCEPT !.transfer = text])
  /\ UNCHANGED <<trayVars, taskVars, seen, frame, running, changes>>

\* lib.rs: what the probe finds, and what is drawn for it.
Boot ==
  /\ pc["autostart"] = "idle" /\ ~Free("autostart") /\ First("autostart").op = "boot"
  /\ \E sync \in {"CliNotFound", "NotLoggedIn", "Synced", "Scanning"} :
       /\ Counted /\ SetSync(sync)
       /\ Calls("autostart",
            (CASE sync = "CliNotFound" -> <<>>
               [] sync = "NotLoggedIn" -> <<Call("login", FALSE)>>
               [] OTHER                -> <<Call("login", TRUE)>>)
            \o <<Call("status", sync), IconCall(sync, 0)>>
            \o (IF sync = "Scanning" THEN <<[op |-> "launch"]>> ELSE <<>>))
  /\ UNCHANGED <<trayVars, local, seen, frame, running>>

\* actions.rs: an item of the menu on display is clicked and handled.
LogIn ==
  /\ Free("handler") /\ "Login" \in shown.actions
  /\ Counted /\ SetSync("Scanning")
  /\ Calls("handler", <<Call("login", TRUE), Call("status", "Scanning"), [op |-> "launch"]>>)
  /\ UNCHANGED <<trayVars, local, seen, frame, running>>

LogOut ==
  /\ Free("handler") /\ "Logout" \in shown.actions
  /\ running' = FALSE /\ Counted /\ SetSync("NotLoggedIn")
  /\ Calls("handler", <<Call("login", FALSE), Call("status", "NotLoggedIn")>>)
  /\ UNCHANGED <<trayVars, local, seen, frame>>

TogglePause ==
  /\ Free("handler") /\ shown.enabled
  /\ \/ /\ app.sync = "Paused" /\ SetSync("Scanning")
        /\ Calls("handler", <<[op |-> "resume"]>>) /\ UNCHANGED <<running, counted>>
     \/ /\ app.sync # "Paused" /\ SetSync("Paused") /\ Counted
        /\ running' = FALSE /\ UNCHANGED <<todo, pc>>
  /\ UNCHANGED <<trayVars, local, seen, frame>>

\* The start of the sync that follows: it fails, or not.  A resume leaves the
\* drawing to the loop.
Launch(t) ==
  /\ At(t, "launch", "idle") \/ At(t, "resume", "idle")
  /\ \/ running' = TRUE /\ Done(t) /\ UNCHANGED <<app, dirty, counted>>
     \/ /\ SetSync("Error") /\ UNCHANGED <<running, counted>>
        /\ \/ First(t).op = "launch" /\ Calls(t, <<Call("status", "Error")>>)
           \/ First(t).op = "resume" /\ Done(t)
  /\ UNCHANGED <<trayVars, local, seen, frame>>

Environment ==
  \/ Redraw \/ Animate \/ Event \/ Boot \/ LogIn \/ LogOut \/ TogglePause
  \/ \E t \in Tasks \ {"loop"} : Launch(t)

Next == Environment \/ \E t \in Tasks : Step(t)

Spec == Init /\ [][Next]_vars
-----------------------------------------------------------------------------
\* A task is in set_login_state, at one of these steps.
Rebuilding(t, steps) == todo[t] # <<>> /\ First(t).op = "login" /\ pc[t] \in steps

\* A menu that has the actions and the transfer of the state.
MenuCurrent(menu) ==
  /\ menu = [f \in Items |-> menu[f]]
  /\ menu.actions = Actions(state.login) /\ menu.transfer = TransferText(state.transfer)

\* rebuild_menu: one at a time, with the state held from the menu that is
\* built to the items that are replaced, and only then no items attached.
Rebuild ==
  /\ \A t \in Tasks :
       /\ Rebuilding(t, {"replace", "items"}) => t \in reading
       /\ Rebuilding(t, {"replace"}) => MenuCurrent(local[t])
       /\ Rebuilding(t, {"items"}) => MenuCurrent(shown) /\ builder = t /\ ~attached
       /\ Rebuilding(t, {"build", "replace", "items"}) =>
            \A u \in Tasks \ {t} : ~Rebuilding(u, {"build", "replace", "items"})
  /\ attached \/ \E t \in Tasks : Rebuilding(t, {"items"})

\* A login or a logout is what the calls of a task begin with, and until
\* autostart has set its menu there is nothing to click that leads to one.
FirstMenu ==
  /\ \A t \in Tasks : \A i \in 1..Len(todo[t]) :
       todo[t][i].op = "login" => i = 1 /\ t # "loop"
  /\ \A i \in 1..Len(todo["autostart"]) : todo["autostart"][i].op = "boot" => i = 1
  /\ At("autostart", "boot", "idle") \/ Rebuilding("autostart", {"idle", "build", "replace"}) =>
       shown.actions = Always /\ ~Rebuilding("handler", Steps)

\* The menu is behind the state only where a task is about to set it.
MenuFollows ==
  /\ \/ shown.actions = Actions(state.login)
     \/ \E t \in Tasks : Rebuilding(t, {"build", "replace"})
  /\ shown.transfer = TransferText(state.transfer) \/ At("loop", "transfer", "read")

\* lib.rs: the loop alone draws the transfer, and no redraw is without it.
TransferFollows ==
  /\ \A t \in Tasks : \A i \in 1..Len(todo[t]) :
       todo[t][i].op = "transfer" => t = "loop" /\ todo[t][i].arg = seen.transfer
  /\ At("loop", "transfer", "read") => First("loop").arg = state.transfer
  /\ ~dirty => seen = app
  /\ \/ state.transfer = seen.transfer
     \/ \E i \in 1..Len(todo["loop"]) : todo["loop"][i].op = "transfer"

MacInv == TypeOK /\ Rebuild /\ FirstMenu /\ MenuFollows /\ TransferFollows

AtRest == ~dirty /\ \A t \in Tasks : Free(t)

\* macos.rs:112-128, 275-291: a transfer that is drawn while a login or a
\* logout replaces the menu is neither set in the old menu only nor set back to
\* what the new one was built with, and of two menus the one that stays is the
\* newer: with no call under way the menu has the actions of the login state
\* and the transfer of the AppState, and its items are those that are set.  No
\* such promise is kept for the pause item: PauseItemInSync below.
RebuildKeepsUp ==
  AtRest => /\ attached
            /\ shown.actions = Actions(state.login)
            /\ shown.transfer = TransferText(app.transfer)

\* macos.rs:177: "Keep the pause/resume item in sync with the state".  The code
\* does not keep it: what update_icon computed before a menu was rebuilt is set
\* in the new one after it (README, Other disagreements).
PauseItemInSync ==
  AtRest /\ seen.sync \notin Animated =>
    shown.enabled = PauseResumeEnabled(state.sync, state.login)

\* macos.rs:216: the status item is that of the current status.
\* The code does not keep it (README, Other disagreements).
StatusItemInSync == AtRest => shown.status = state.status
=============================================================================
