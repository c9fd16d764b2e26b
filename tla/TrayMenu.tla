------------------------------ MODULE TrayMenu ------------------------------
(***************************************************************************)
(* tray/mod.rs and the menus the two trays build of it: what the tray      *)
(* shows for what it was told.  A label is a record or a name, not a text; *)
(* Nothing is a login state, a transfer or a time that is not known.       *)
(***************************************************************************)
EXTENDS Naturals

CONSTANTS MaxCount,    \* bound: the largest pending count
          MaxFrame,    \* bound: the last animation frame, three in the code
          Transfers,   \* texts of transfers
          Times,       \* texts of times
          Nothing

MenuAssumption ==
  /\ {MaxCount, MaxFrame} \subseteq Nat
  /\ Nothing \notin Transfers \cup Times \cup BOOLEAN

SyncStates == {"Starting", "NotLoggedIn", "Synced", "Scanning", "Syncing",
               "Paused", "Error", "CliNotFound", "Offline"}
Loading  == {"Starting", "Scanning"}
Animated == Loading \cup {"Syncing"}
Failed   == {"Error", "CliNotFound"}

\* MenuState and LinuxTrayState.
TrayState == [login : BOOLEAN \cup {Nothing}, status : SyncStates, sync : SyncStates,
              count : 0..MaxCount, frame : 0..MaxFrame,
              transfer : Transfers \cup {Nothing}, synced : Times \cup {Nothing}]

InitialState == [login |-> Nothing, status |-> "Starting", sync |-> "Starting",
                 count |-> 0, frame |-> 0, transfer |-> Nothing, synced |-> Nothing]

AnimatedDots(frame) == frame % 3

Label(kind, detail) == [kind |-> kind, detail |-> detail]

PendingText(sync, count, frame, synced) ==
  CASE sync = "Offline"           -> Label("no internet", Nothing)
    [] sync = "Paused"            -> Label("paused", Nothing)
    [] sync \in Loading           -> Label("dots", AnimatedDots(frame))
    [] sync \notin Loading \cup {"Offline", "Paused"} /\ count > 0
                                  -> Label("remaining", count)
    [] sync = "Synced" /\ count = 0 -> Label("up to date", synced)
    [] OTHER                      -> Label("up to date", Nothing)

Pending(s) == PendingText(s.sync, s.count, s.frame, s.synced)

PauseResumeEnabled(sync, login) ==
  login = TRUE /\ sync \in {"Synced", "Scanning", "Syncing", "Paused", "Error", "Offline"}

PauseResumeLabel(sync) == IF sync = "Paused" THEN "resume" ELSE "pause"

TransferText(transfer) == IF transfer = Nothing THEN "idle" ELSE transfer

Tooltip(s) == IF s.count > 0 THEN Label("syncing", s.count) ELSE Label("status", s.status)

Always == {"OpenWebUI", "RecentActivity", "Settings", "ShowLogs", "About",
           "CheckForUpdates", "Quit"}

\* The items that can be clicked, but for the pause item.
Actions(login) ==
  Always \cup (CASE login = Nothing -> {}
                 [] login = TRUE    -> {"OpenFolder", "Logout"}
                 [] login = FALSE   -> {"Login"})

\* The menu that is built for a state.
MenuOf(s) ==
  [status   |-> s.status,
   pending  |-> Pending(s),
   transfer |-> TransferText(s.transfer),
   label    |-> PauseResumeLabel(s.sync),
   enabled  |-> PauseResumeEnabled(s.sync, s.login),
   actions  |-> Actions(s.login)]
=============================================================================
