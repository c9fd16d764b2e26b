------------------------------ MODULE LinuxTray ------------------------------
(***************************************************************************)
(* tray/linux.rs: the tray on Linux.  Every change of the shared state     *)
(* spawns an update; ksni's service takes the updates one by one and asks  *)
(* the tray again for everything it shows.  A question and a change        *)
(* exclude each other by the lock on the state, an update as a whole and a *)
(* change do not.                                                          *)
(***************************************************************************)
EXTENDS TrayMenu, Naturals

CONSTANTS MaxUpdates,  \* bound: updates that are under way
          States       \* the sync states the tray is told

LinuxAssumption == MaxUpdates \in Nat \ {0} /\ States \subseteq SyncStates

Parts == {"icon", "attention", "tip", "menu"}

VARIABLES state,      \* LinuxTrayState
          spawned,    \* updates that wait for the service
          asking,     \* what the update under way still asks for
          shown       \* what the host was last told of each part
vars == <<state, spawned, asking, shown>>

IconName(s)  == IF s.sync \in Failed THEN "dialog-error" ELSE "folder-sync"
Attention(s) == s.sync \in Failed
ToolTip(s)   == [title |-> Tooltip(s), description |-> Pending(s)]
Menu(s)      == MenuOf(s)

Shows(s, part) == CASE part = "icon"      -> IconName(s)
                    [] part = "attention" -> Attention(s)
                    [] part = "tip"       -> ToolTip(s)
                    [] part = "menu"      -> Menu(s)

\* create_tray: the service asks for everything when it starts.
Init ==
  /\ state = InitialState /\ spawned = 0 /\ asking = {}
  /\ shown = [part \in Parts |-> Shows(InitialState, part)]

TypeOK ==
  /\ state \in TrayState /\ spawned \in 0..MaxUpdates /\ asking \subseteq Parts
  /\ DOMAIN shown = Parts

-----------------------------------------------------------------------------
\* A change is written, and an update spawned unless nothing changed.
Change(new, changed) ==
  /\ changed => spawned < MaxUpdates
  /\ state' = new
  /\ spawned' = IF changed THEN spawned + 1 ELSE spawned
  /\ UNCHANGED <<asking, shown>>

\* A mutant of UpdateIcon: only frames of the animation trigger updates.
UpdateIconFrames(sync, frame) ==
  Change([state EXCEPT !.sync = sync, !.frame = frame],
         sync \in Loading /\ frame # state.frame)

UpdateIcon(sync, frame) ==
  Change([state EXCEPT !.sync = sync, !.frame = frame],
         sync # state.sync \/ (sync \in Loading /\ frame # state.frame))

Update(field, value) ==
  Change([state EXCEPT ![field] = value], value # state[field])

UpdateStatus(sync)           == Update("status", sync)
UpdatePendingCount(count)    == Update("count", count)
SetLoginState(login)         == Update("login", login)
UpdateCurrentTransfer(text)  == Update("transfer", text)
UpdateLastSynced(time)       == Update("synced", time)

\* What the status loop, the autostart and the action handler call.
Call ==
  \/ \E sync \in States, frame \in 0..MaxFrame : UpdateIcon(sync, frame)
  \/ \E sync \in States : UpdateStatus(sync)
  \/ \E count \in 0..MaxCount : UpdatePendingCount(count)
  \/ \E login \in BOOLEAN : SetLoginState(login)
  \/ \E text \in Transfers \cup {Nothing} : UpdateCurrentTransfer(text)
  \/ \E time \in Times : UpdateLastSynced(time)

\* handle.update, taken by the service.
BeginUpdate ==
  /\ spawned > 0 /\ asking = {}
  /\ spawned' = spawned - 1 /\ asking' = Parts
  /\ UNCHANGED <<state, shown>>

\* One of icon_name, status, tool_tip and menu.
Ask ==
  \E part \in asking :
    /\ shown' = [shown EXCEPT ![part] = Shows(state, part)]
    /\ asking' = asking \ {part}
    /\ UNCHANGED <<state, spawned>>

Next == Call \/ BeginUpdate \/ Ask

Spec == Init /\ [][Next]_vars
-----------------------------------------------------------------------------
\* linux.rs:48-51: an update fires only when something visible changed, and
\* then always.  A part that does not show the state is about to be asked for
\* again; when no update is under way, everything shows the state.
StaleIsAsked ==
  \A part \in Parts : shown[part] # Shows(state, part) => spawned > 0 \/ part \in asking
=============================================================================
