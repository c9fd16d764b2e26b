------------------------------ MODULE MCScreen ------------------------------
(***************************************************************************)
(* Model checking of what the user sees: the tray on Linux, the tray on    *)
(* macOS, of which a build has one, and the Recent Activity window.  They  *)
(* share no state.  A behaviour is one of the part it begins with; the     *)
(* others stay as they are initially.                                      *)
(***************************************************************************)
EXTENDS Naturals

CONSTANTS MaxCount, MaxFrame, Transfers, Times, Nothing,   \* TrayMenu
          MaxUpdates, States, LinuxCount, LinuxTransfers,  \* LinuxTray
          CliStates, MaxChanges, MaxEvents, MacFrame,      \* MacTray
          MaxRecords, MaxClears, MaxRetries, None          \* ActivityPage

VARIABLES
  part,
  linuxState, spawned, asking, told,
  state, reading, shown, builder, attached, using, icon, tooltip, todo, pc, local,
  app, dirty, seen, frame, running, changes, events,
  recorded, cleared, untold, changed, page, requests, generation, timer, entries, view,
  known, clearing, confirmed, clears, retries, reliable

linuxVars == <<linuxState, spawned, asking, told>>
macVars   == <<state, reading, shown, builder, attached, using, icon, tooltip, todo, pc, local,
               app, dirty, seen, frame, running, changes, events>>
pageVars  == <<recorded, cleared, untold, changed, page, requests, generation, timer,
               entries, view, known, clearing, confirmed, clears, retries, reliable>>
vars == <<part, linuxVars, macVars, pageVars>>

\* The two trays have bounds of their own for what is drawn in one way.
Linux == INSTANCE LinuxTray
           WITH state <- linuxState, shown <- told,
                MaxCount <- LinuxCount, Transfers <- LinuxTransfers

Mac == INSTANCE MacTray WITH MaxFrame <- MacFrame

Activity == INSTANCE ActivityPage

ASSUME ScreenAssumption ==
  /\ Linux!MenuAssumption /\ Linux!LinuxAssumption /\ Mac!MenuAssumption /\ Mac!MacAssumption
  /\ Activity!PageAssumption

Init ==
  /\ part \in {"linux", "mac", "page"}
  /\ Linux!Init /\ Mac!Init
  /\ Activity!Init /\ (part # "page" => recorded = 0 /\ reliable)

\* One part takes a step, and what is not its own stays.
LinuxStep == part = "linux" /\ Linux!Next
MacStep   == part = "mac" /\ Mac!Next
PageStep  == part = "page" /\ Activity!Next

Next ==
  \/ LinuxStep /\ UNCHANGED <<part, macVars, pageVars>>
  \/ MacStep   /\ UNCHANGED <<part, linuxVars, pageVars>>
  \/ PageStep  /\ UNCHANGED <<part, linuxVars, macVars>>

\* Nothing that is fair is enabled in a part before its first step.
Spec == Init /\ [][Next]_vars /\ Activity!Fairness
-----------------------------------------------------------------------------
\* The type invariants of the three parts; tray/linux.rs:
\* LinuxTray!StaleIsAsked, of updates that ask for one part after the other;
\* and what a rebuilt menu on macOS and the answers to the page rest on.
ScreenInv ==
  /\ Linux!TypeOK /\ Linux!StaleIsAsked
  /\ Mac!MacInv
  /\ Activity!TypeOK /\ Activity!RefreshesOwed /\ Activity!AnswersCurrent

\* tray/macos.rs: MacTray!RebuildKeepsUp, of a menu that is replaced while the
\* transfer is drawn.
RebuildKeepsUp == Mac!RebuildKeepsUp

\* activity.js: ClearedNotShown and CatchesUp of ActivityPage, of answers that
\* come in any order.
ClearedNotShown == Activity!ClearedNotShown
CatchesUp       == Activity!CatchesUp
=============================================================================
