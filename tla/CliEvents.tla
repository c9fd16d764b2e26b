------------------------------ MODULE CliEvents ------------------------------
(***************************************************************************)
(* What the application makes of the CLI's output (cli/mod.rs, events.rs): *)
(* the stdout monitor turns each event into calls of AppState and of the   *)
(* activity history, the stderr monitor writes its diagnoses, and once both *)
(* have ended, or were aborted two seconds after the exit, the supervisor   *)
(* diagnoses an exit nobody asked for.                                     *)
(*                                                                         *)
(* Each call of AppState takes its lock for itself, so a handler that asks *)
(* for the state and then sets it can be overtaken by the other monitor.   *)
(* The CLI is the environment: its cycles are emitted in their order, on   *)
(* two pipes that are read independently.                                  *)
(***************************************************************************)
EXTENDS Naturals, Sequences

CONSTANTS MaxTasks,    \* tasks, of all cycles together
          MaxCycles,   \* cycles that are begun
          MaxTrouble,  \* records on stderr, and processes after the first
          PipeSize     \* events in a pipe

ASSUME EventAssumption ==
  {MaxTasks, MaxCycles, MaxTrouble, PipeSize} \subseteq Nat

SyncStates == {"Starting", "NotLoggedIn", "Synced", "Scanning", "Syncing",
               "Paused", "Error", "CliNotFound", "Offline"}

VARIABLES
  syncState, pending, current, cyclesSynced,  \* AppState; last_synced as a count
  watch,                                      \* what the watch channel holds
  recorded,                                   \* entries in the activity history
  ops, read,                                  \* stdout monitor: calls left, count read
  network,                                    \* stderr monitor: network_error_detected
  exit,                                       \* the supervisor
  out, err,                                   \* the pipes
  phase, todo, failed, ended,                 \* the CLI: cycle, tasks left, failed, over
  said,                                       \* history: the CLI's word on the network
  cycles, records, starts

appVars == <<syncState, pending, current, cyclesSynced, watch>>
monitorVars == <<recorded, ops, read, network, exit>>
cliVars == <<out, err, phase, todo, failed, ended, said, cycles, records, starts>>
vars == <<appVars, monitorVars, cliVars>>

Phases == {"off", "idle", "trees", "tasks", "copying", "copied"}

\* The events the handlers tell apart, and the calls they make.
Events ==
  [type : {"cycleGettingTreesStarted", "cycleProcessingTasksStarted", "cycleSuccess",
           "doneSyncing", "syncing"}]
  \cup [type : {"cycleError"}, network : BOOLEAN]
  \cup [type : {"deltasCount"}, count : 0..MaxTasks]
  \cup [type : {"transfer"}, of : {"upload", "uploadFile", "createLocalDirectory"},
        status : {"queued", "started", "finished", "success", "error"}]

Operations ==
  [call : {"unless"}, states : SUBSET SyncStates]
  \cup [call : {"state"}, state : SyncStates]
  \cup [call : {"pending"}, count : 0..MaxTasks]
  \cup [call : {"transfer"}, shown : BOOLEAN]
  \cup [call : {"record", "readPending", "writePending", "lastSynced"}]

Snapshot == [syncState |-> syncState, pending |-> pending, current |-> current,
             cyclesSynced |-> cyclesSynced]

TypeOK ==
  /\ syncState \in SyncStates /\ pending \in 0..MaxTasks /\ current \in BOOLEAN
  /\ cyclesSynced \in 0..MaxCycles
  /\ recorded \in 0..MaxTasks /\ read \in 0..MaxTasks
  /\ network \in BOOLEAN /\ exit \in {"none", "exited", "joined", "reported"}
  /\ out \in Seq(Events) /\ Len(out) <= PipeSize
  /\ ops \in Seq(Operations) /\ Len(ops) <= 6
  /\ err \in Seq({"network", "error", "other"}) /\ Len(err) <= MaxTrouble
  /\ phase \in Phases /\ todo \in 0..MaxTasks /\ failed \in 0..MaxTasks
  /\ ended \in 0..MaxTasks /\ said \in {"none", "earlier", "racing", "last"}
  /\ cycles \in 0..MaxCycles /\ records \in 0..MaxTrouble /\ starts \in 1..(MaxTrouble + 1)

Init ==
  /\ syncState = "Scanning" /\ pending = 0 /\ current = FALSE /\ cyclesSynced = 0
  /\ watch = Snapshot
  /\ recorded = 0 /\ ops = <<>> /\ read = 0 /\ network = FALSE /\ exit = "none"
  /\ out = <<>> /\ err = <<>> /\ phase = "idle" /\ todo = 0 /\ failed = 0 /\ ended = 0
  /\ said = "none" /\ cycles = 0 /\ records = 0 /\ starts = 1

-----------------------------------------------------------------------------
(* AppState: each setter changes its field under the lock and notifies     *)

Publish == watch' = [syncState |-> syncState', pending |-> pending',
                     current |-> current', cyclesSynced |-> cyclesSynced']

SetSyncState(state) ==
  /\ syncState' = state
  /\ UNCHANGED <<pending, current, cyclesSynced>>
  /\ IF state # syncState THEN Publish ELSE UNCHANGED watch

SetPendingCount(count) ==
  /\ pending' = count
  /\ UNCHANGED <<syncState, current, cyclesSynced>>
  /\ IF count # pending THEN Publish ELSE UNCHANGED watch

SetCurrentTransfer(shown) ==
  /\ current' = shown
  /\ UNCHANGED <<syncState, pending, cyclesSynced>> /\ Publish

SetLastSynced ==
  /\ cyclesSynced' = cyclesSynced + 1
  /\ UNCHANGED <<syncState, pending, current>> /\ Publish

-----------------------------------------------------------------------------
(* handle_cli_event: an event as the calls it makes, in their order.  An   *)
(* Unless ends the handler when the state is one of those it names.        *)

Unless(states)  == [call |-> "unless", states |-> states]
State(state)    == [call |-> "state", state |-> state]
Pending(count)  == [call |-> "pending", count |-> count]
Transfer(shown) == [call |-> "transfer", shown |-> shown]
Call(name)      == [call |-> name]

\* is_task_operation; the other operation is the raw copy of a file.
IsTask(of) == of \in {"uploadFile", "createLocalDirectory"}

\* A mutant of TransferOps: the raw end of a copy counts as the task's.
TransferOpsRaw(of, type) ==
  IF type \in {"finished", "success"}
  THEN <<Call("record"), Call("readPending"), Call("writePending"), Transfer(FALSE)>>
  ELSE IF type = "error" THEN <<Call("record"), Transfer(FALSE)>>
  ELSE IF of = "createLocalDirectory" THEN <<>> ELSE <<Transfer(TRUE)>>

TransferOps(of, type) ==
  IF IsTask(of) /\ type = "success"
  THEN <<Call("record"), Call("readPending"), Call("writePending"), Transfer(FALSE)>>
  ELSE IF IsTask(of) /\ type = "error" THEN <<Call("record"), Transfer(FALSE)>>
  ELSE IF type \in {"finished", "success", "error"} THEN <<Transfer(FALSE)>>
  ELSE IF of = "createLocalDirectory" THEN <<>> ELSE <<Transfer(TRUE)>>

\* handle_text_output: the lines between the JSON, "Done syncing" and "Syncing ".
TextOps(line) ==
  CASE line = "doneSyncing" -> <<Unless({"Synced"}), State("Synced"), Pending(0)>>
    [] line = "syncing" -> <<Unless({"Scanning", "Syncing"}), State("Syncing")>>

Ops(e) ==
  CASE e.type = "cycleStarted" -> <<>>
    [] e.type = "cycleGettingTreesStarted" ->
         <<Unless({"Scanning", "Syncing"}), State("Scanning")>>
    [] e.type \in {"cycleProcessingTasksStarted", "uploadProgress"} ->
         <<Unless({"Syncing"}), State("Syncing")>>
    [] e.type = "cycleSuccess" ->
         <<State("Synced"), Pending(0), Transfer(FALSE), Call("lastSynced")>>
    [] e.type = "cycleError" ->
         <<State(IF e.network THEN "Offline" ELSE "Error"), Pending(0), Transfer(FALSE)>>
    [] e.type = "deltasCount" ->
         <<Pending(e.count)>> \o (IF e.count > 0 THEN <<State("Syncing")>> ELSE <<>>)
    [] e.type = "transfer" ->
         TransferOps(e.of, e.status) \o <<Unless({"Syncing"}), State("Syncing")>>
    [] OTHER -> TextOps(e.type)

-----------------------------------------------------------------------------
(* The stdout monitor                                                      *)

ReadEvent ==
  /\ ops = <<>> /\ out # <<>>
  /\ ops' = Ops(Head(out)) /\ out' = Tail(out)
  /\ UNCHANGED <<appVars, recorded, read, network, exit,
                 err, phase, todo, failed, ended, said, cycles, records, starts>>

\* The next call of the handler.
Calls(name) == ops # <<>> /\ Head(ops).call = name
Handled     == ops' = Tail(ops) /\ UNCHANGED <<network, exit, cliVars>>

AskState ==
  /\ Calls("unless")
  /\ ops' = IF syncState \in Head(ops).states THEN <<>> ELSE Tail(ops)
  /\ UNCHANGED <<appVars, recorded, read, network, exit, cliVars>>

WriteState ==
  /\ Calls("state") /\ Handled
  /\ SetSyncState(Head(ops).state) /\ UNCHANGED <<recorded, read>>

WritePending ==
  /\ \/ Calls("pending") /\ SetPendingCount(Head(ops).count)
     \/ Calls("writePending") /\ read > 0 /\ SetPendingCount(read - 1)
     \/ Calls("writePending") /\ read = 0 /\ UNCHANGED appVars
  /\ Handled /\ UNCHANGED <<recorded, read>>

ReadPending ==
  /\ Calls("readPending") /\ Handled
  /\ read' = pending /\ UNCHANGED <<appVars, recorded>>

WriteTransfer ==
  /\ Calls("transfer") /\ Handled
  /\ SetCurrentTransfer(Head(ops).shown) /\ UNCHANGED <<recorded, read>>

WriteLastSynced ==
  /\ Calls("lastSynced") /\ Handled
  /\ SetLastSynced /\ UNCHANGED <<recorded, read>>

Record ==
  /\ Calls("record") /\ Handled
  /\ recorded' = recorded + 1 /\ UNCHANGED <<appVars, read>>

-----------------------------------------------------------------------------
(* The stderr monitor and the supervisor                                   *)

\* What becomes of the word when the CLI goes on, or the word is not read.
Earlier == IF said = "none" THEN "none" ELSE "earlier"

\* handle_stderr_record: a network error, any other error, or neither.
ReadRecord ==
  /\ err # <<>> /\ err' = Tail(err)
  /\ CASE Head(err) = "network" -> SetSyncState("Offline") /\ network' = TRUE
       [] Head(err) = "error" /\ ~network -> SetSyncState("Error") /\ UNCHANGED network
       [] OTHER -> UNCHANGED <<appVars, network>>
  /\ UNCHANGED <<recorded, ops, read, exit, out, phase, todo, failed, ended, said,
                 cycles, records, starts>>

\* A mutant of JoinMonitors: the exit is diagnosed at once.
JoinNothing ==
  /\ exit = "exited" /\ exit' = "joined"
  /\ UNCHANGED <<appVars, recorded, ops, read, network, cliVars>>

\* Both monitors have ended: with their pipes at the end, or aborted.
JoinMonitors ==
  /\ exit = "exited" /\ out = <<>> /\ err = <<>> /\ ops = <<>>
  /\ exit' = "joined"
  /\ UNCHANGED <<appVars, recorded, ops, read, network, cliVars>>

\* join_monitor gives each monitor two seconds after the exit and aborts it,
\* between two calls of its handler: what it had not handled is lost.
AbortStdout ==
  /\ exit = "exited" /\ (out # <<>> \/ ops # <<>>)
  /\ out' = <<>> /\ ops' = <<>>
  /\ todo' = 0 /\ failed' = 0 /\ ended' = recorded
  /\ UNCHANGED <<appVars, recorded, read, network, exit, err, phase, said,
                 cycles, records, starts>>

AbortStderr ==
  /\ exit = "exited" /\ err # <<>> /\ err' = <<>>
  /\ said' = Earlier
  /\ UNCHANGED <<appVars, monitorVars, out, phase, todo, failed, ended,
                 cycles, records, starts>>

\* A mutant of DiagnoseExit: the diagnosis of stderr is replaced.
DiagnoseError ==
  /\ exit = "joined" /\ exit' = "reported"
  /\ SetSyncState("Error")
  /\ UNCHANGED <<recorded, ops, read, network, cliVars>>

DiagnoseExit ==
  /\ exit = "joined" /\ exit' = "reported"
  /\ SetSyncState(IF syncState = "Offline" THEN "Offline" ELSE "Error")
  /\ UNCHANGED <<recorded, ops, read, network, cliVars>>

-----------------------------------------------------------------------------
(* The CLI, and the manager that starts and stops it.  said tells how the   *)
(* process spoke of the network: not at all, on stderr with the output      *)
(* before it handled and nothing printed since ("last"), with output that   *)
(* was still to be handled ("racing"), or earlier than what it printed last.*)

OutHandled == out = <<>> /\ ops = <<>>

Emit(e, then) ==
  /\ phase # "off" /\ Len(out) < PipeSize
  /\ out' = Append(out, e) /\ phase' = then
  /\ said' = IF e.type = "cycleError" /\ e.network THEN "earlier" ELSE Earlier
  /\ UNCHANGED <<appVars, monitorVars, err, records, starts>>

Event(type) == [type |-> type]
CopyEvent(of, status) == [type |-> "transfer", of |-> of, status |-> status]

BeginCycle ==
  /\ phase = "idle" /\ cycles < MaxCycles /\ cycles' = cycles + 1
  /\ Emit(Event("cycleGettingTreesStarted"), "trees")
  /\ UNCHANGED <<todo, failed, ended>>

CountDeltas ==
  /\ phase = "trees"
  /\ \E n \in 0..(MaxTasks - ended) :
       todo' = n /\ Emit([type |-> "deltasCount", count |-> n], "tasks")
  /\ failed' = 0 /\ UNCHANGED <<ended, cycles>>

\* Events of a running cycle that say nothing new.
Repeat ==
  /\ phase \in {"tasks", "copying"}
  /\ \E e \in {Event("cycleProcessingTasksStarted"), CopyEvent("createLocalDirectory", "queued")} :
       Emit(e, phase)
  /\ UNCHANGED <<todo, failed, ended, cycles>>

\* The lines of the text mode, which repeat what the JSON says.
PrintText ==
  /\ \/ phase = "idle" /\ cycles > 0 /\ Emit(Event("doneSyncing"), phase)
     \/ Emit(Event("syncing"), phase)
  /\ UNCHANGED <<todo, failed, ended, cycles>>

BeginCopy ==
  /\ phase = "tasks" /\ todo > 0
  /\ Emit(CopyEvent("upload", "started"), "copying")
  /\ UNCHANGED <<todo, failed, ended, cycles>>

FinishCopy ==
  /\ phase = "copying" /\ Emit(CopyEvent("upload", "finished"), "copied")
  /\ UNCHANGED <<todo, failed, ended, cycles>>

\* The canonical event that ends a task: a copy after its raw events, or
\* another task.
EndTask ==
  /\ todo > 0 /\ todo' = todo - 1 /\ ended' = ended + 1
  /\ \E status \in {"success", "error"} :
       /\ failed' = IF status = "error" THEN failed + 1 ELSE failed
       /\ \/ phase = "copied" /\ Emit(CopyEvent("uploadFile", status), "tasks")
          \/ phase = "tasks" /\ Emit(CopyEvent("createLocalDirectory", status), "tasks")
  /\ UNCHANGED cycles

EndCycle ==
  /\ \/ phase = "tasks" /\ todo = 0 /\ Emit(Event("cycleSuccess"), "idle")
     \/ /\ phase \in {"trees", "tasks"}
        /\ \E net \in BOOLEAN : Emit([type |-> "cycleError", network |-> net], "idle")
  /\ todo' = 0 /\ failed' = 0 /\ UNCHANGED <<ended, cycles>>

WriteRecord ==
  /\ phase # "off" /\ records + starts <= MaxTrouble /\ records' = records + 1
  /\ \E record \in {"network", "error", "other"} :
       /\ err' = Append(err, record)
       /\ said' = IF record # "network" THEN said
                  ELSE IF OutHandled THEN "last" ELSE "racing"
  /\ UNCHANGED <<appVars, monitorVars, out, phase, todo, failed, ended, cycles, starts>>

CliExits ==
  /\ phase # "off" /\ phase' = "off" /\ exit' = "exited"
  /\ UNCHANGED <<appVars, recorded, ops, read, network, out, err, todo, failed, ended,
                 said, cycles, records, starts>>

\* Pause: the monitors of the invalidated generation are joined first, and
\* what they have not handled is lost.
Stop ==
  /\ exit # "reported" /\ phase' = "off" /\ exit' = "reported"
  /\ SetSyncState("Paused")
  /\ out' = <<>> /\ err' = <<>> /\ ops' = <<>> /\ todo' = 0 /\ failed' = 0
  /\ ended' = recorded
  /\ UNCHANGED <<recorded, read, network, said, cycles, records, starts>>

\* The next process, with monitors of its own; its count is not reset.
Start ==
  /\ exit = "reported" /\ records + starts <= MaxTrouble /\ starts' = starts + 1
  /\ SetSyncState("Scanning")
  /\ exit' = "none" /\ network' = FALSE /\ phase' = "idle" /\ said' = "none"
  /\ todo' = 0 /\ failed' = 0
  /\ UNCHANGED <<recorded, ops, read, out, err, ended, cycles, records>>

-----------------------------------------------------------------------------
Stdout == \/ ReadEvent \/ AskState \/ WriteState \/ WritePending \/ ReadPending
          \/ WriteTransfer \/ WriteLastSynced \/ Record
Supervisor == AbortStdout \/ AbortStderr \/ JoinMonitors \/ DiagnoseExit
Monitors == Stdout \/ ReadRecord \/ Supervisor
Cli == \/ BeginCycle \/ CountDeltas \/ Repeat \/ PrintText \/ BeginCopy \/ FinishCopy
       \/ EndTask \/ EndCycle \/ WriteRecord \/ CliExits
Next == Monitors \/ Cli \/ Stop \/ Start

\* The application's tasks run; the CLI may do what it likes.
Spec == Init /\ [][Next]_vars /\ WF_vars(Stdout) /\ WF_vars(ReadRecord)
             /\ WF_vars(Supervisor)
-----------------------------------------------------------------------------

\* state.rs: the snapshot that subscribers are given is the state, although
\* every setter builds it anew and some notify only of a change.
WatchCurrent == watch = Snapshot

\* cli/mod.rs:84-87, the CLI emits two completion events for a copied file:
\* once the output is handled the count is that of the tasks which have not
\* succeeded yet, and the history has one entry per task.
PendingIsWhatRemains ==
  OutHandled /\ phase \in {"tasks", "copying", "copied"} => pending = todo + failed
RecordedOnce == OutHandled => recorded = ended

\* "Up to date" is shown for Synced, so nothing is left to do then, whichever
\* of JSON, text and stderr came first.  Between an exit and its diagnosis it
\* may not hold: the abort can fall between Synced and the count.
SyncedMeansDone ==
  OutHandled /\ syncState = "Synced" /\ exit = "none" => pending = 0

-----------------------------------------------------------------------------
(* What these rest on: where a handler is, and what the events that are    *)
(* still to be handled will make of the count and of the history.          *)

Makes(name, calls) == \E i \in DOMAIN calls : calls[i].call = name

\* The calls a handler has left.  None is made twice; Synced is followed at
\* once by a count of zero, and a count above zero by Syncing; what an Unless
\* may skip is the state and a count that is zero when it does.
InOrder(calls) ==
  /\ \A i, j \in DOMAIN calls : calls[i].call = calls[j].call => i = j
  /\ \A i \in DOMAIN calls :
       /\ calls[i].call = "state" /\ calls[i].state = "Synced" =>
            i + 1 \in DOMAIN calls /\ calls[i + 1] = Pending(0)
       /\ calls[i].call = "pending" /\ calls[i].count > 0 =>
            i + 1 \in DOMAIN calls /\ calls[i + 1] = State("Syncing")
       /\ calls[i].call = "unless" =>
            \A j \in DOMAIN calls : j > i =>
              \/ calls[j].call = "state"
              \/ calls[j] = Pending(0) /\ calls[i].states = {"Synced"}
       /\ calls[i].call = "writePending" =>
            /\ ~Makes("pending", calls)
            /\ \A j \in DOMAIN calls : calls[j].call = "readPending" => j < i
       /\ calls[i].call = "readPending" => Makes("writePending", calls)

\* A count is written between the two calls that change both, unless the
\* handler is aborted there.
SyncedWaits ==
  syncState = "Synced" /\ pending > 0 =>
    \/ ops # <<>> /\ Head(ops) \in {Pending(0), State("Syncing")}
    \/ OutHandled /\ exit # "none"

\* The supervisor waits for the monitors, and they for what was printed.
ExitAwaits ==
  /\ exit # "none" => phase = "off"
  /\ exit \in {"joined", "reported"} => out = <<>> /\ err = <<>> /\ ops = <<>>

\* Nobody shows Offline, or will, before the CLI spoke of the network, and a
\* last word is on its way or shown.
WordFollows ==
  /\ said = "none" =>
       /\ syncState # "Offline" /\ ~network
       /\ \A i \in DOMAIN err : err[i] # "network"
       /\ \A i \in DOMAIN out : out[i].type = "cycleError" => ~out[i].network
       /\ \A i \in DOMAIN ops : ops[i].call = "state" => ops[i].state # "Offline"
  /\ said = "last" =>
       /\ OutHandled
       /\ \/ \E i \in DOMAIN err : err[i] = "network"
          \/ network /\ syncState = "Offline"
          \/ exit = "reported" /\ syncState = "Paused"

\* A bounded count goes down with each task that succeeds.
Less(n) == IF n > 0 THEN n - 1 ELSE 0

Succeeds(e) == e.type = "transfer" /\ IsTask(e.of) /\ e.status = "success"
Fails(e)    == e.type = "transfer" /\ IsTask(e.of) /\ e.status = "error"

CountAfter(e, n) ==
  IF e.type = "deltasCount" THEN e.count
  ELSE IF e.type \in {"cycleSuccess", "cycleError", "doneSyncing"} THEN 0
  ELSE IF Succeeds(e) THEN Less(n) ELSE n

One(condition) == IF condition THEN 1 ELSE 0

\* The count after the handler in hand (0) and after each event in the pipe.
CountFollows ==
  \E count \in [0..Len(out) -> 0..MaxTasks] :
    /\ \A i \in DOMAIN ops : ops[i].call = "pending" => count[0] = ops[i].count
    /\ Makes("writePending", ops) =>
         count[0] = Less(pending) /\ (~Makes("readPending", ops) => read = pending)
    /\ ~Makes("pending", ops) /\ ~Makes("writePending", ops) => count[0] = pending
    /\ \A i \in 1..Len(out) : count[i] = CountAfter(out[i], count[i - 1])
    /\ phase \in {"tasks", "copying", "copied"} => count[Len(out)] = todo + failed

\* The same of the entries in the history.
HistoryFollows ==
  \E entries \in [0..Len(out) -> 0..MaxTasks] :
    /\ entries[0] = recorded + One(Makes("record", ops))
    /\ \A i \in 1..Len(out) :
         entries[i] = entries[i - 1] + One(Succeeds(out[i]) \/ Fails(out[i]))
    /\ entries[Len(out)] = ended

\* The same of the cycles that were brought to an end.
CyclesFollow ==
  \E synced \in [0..Len(out) -> 0..cycles] :
    /\ synced[0] = cyclesSynced + One(Makes("lastSynced", ops))
    /\ \A i \in 1..Len(out) : synced[i] = synced[i - 1] + One(out[i].type = "cycleSuccess")
    /\ synced[Len(out)] + One(phase \notin {"off", "idle"}) <= cycles

BoundsKept ==
  /\ todo + ended <= MaxTasks /\ failed <= ended
  /\ Len(err) <= records

\* cli/mod.rs, state.rs: what the tray is given of the CLI's work, with what
\* that rests on.
EventsInv ==
  /\ TypeOK /\ WatchCurrent /\ PendingIsWhatRemains /\ RecordedOnce /\ SyncedMeansDone
  /\ InOrder(ops) /\ SyncedWaits /\ ExitAwaits /\ BoundsKept
  /\ CountFollows /\ HistoryFollows /\ CyclesFollow /\ WordFollows

\* cli/mod.rs:746-754, the monitors are joined, or aborted, before an exit is
\* diagnosed: what they still had to say about the process does not replace
\* the diagnosis, until there is another process.
ExitShown ==
  [][exit = "reported" /\ exit' = "reported" => syncState' = syncState]_vars

\* cli/mod.rs:756-759, "preserve its more specific Offline diagnosis": no
\* state of a living CLI outlasts the process; Offline is shown only when the
\* CLI spoke of the network, and always when that was its last word, was read
\* and came after all its output was handled.  When stdout is still at work
\* the comment is not kept, see OfflinePreserved.
ExitDiagnosed ==
  exit = "reported" =>
    /\ syncState \in {"Paused", "Offline", "Error"}
    /\ syncState = "Offline" => said # "none"
    /\ said = "last" /\ syncState # "Paused" => syncState = "Offline"

\* cli/mod.rs:756, "Stderr has now been fully processed, so preserve its more
\* specific Offline diagnosis": a CLI that printed nothing after it spoke of
\* the network on stderr, and whose word was read, leaves the app Offline.
\* The code does not keep it (README, Other disagreements).
OfflinePreserved ==
  exit = "reported" /\ said \in {"racing", "last"} /\ syncState # "Paused" =>
    syncState = "Offline"

\* tray/mod.rs: what the line below the status says.
PendingText ==
  CASE syncState = "Offline" -> "no internet"
    [] syncState = "Paused" -> "paused"
    [] syncState \in {"Scanning", "Starting"} -> "dots"
    [] OTHER -> IF pending > 0 THEN "files remaining" ELSE "up to date"

\* tray/mod.rs:38, "File count when syncing".
\* The code does not keep it (README, Other disagreements).
CountWhenSyncing == exit = "reported" => PendingText # "files remaining"
=============================================================================
