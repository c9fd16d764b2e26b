# Verification of filen-menubar

TLA+ modules of the Filen Menubar application (`src/src-tauri/src`), TLC
configurations that check them on small instances, and TLAPS proofs for every
value of the constants.  The modules follow the source; a definition names the
function it stands for where the name differs.

* [The system](#the-system)
* [The modules](#the-modules)
* [The runs](#the-runs)
* [The proofs](#the-proofs)
* [Findings](#findings)
* [What is not modelled, and the plan](#what-is-not-modelled-and-the-plan)

## The system

A tray application keeps one `filen sync --continuous` process running, shows
its state, and lets the user pause, resume, log in and out and look at recent
activity.  All of it runs in one process: tokio tasks, a main thread for the
windows and the tray, a few plain threads.

| Part | Source | State | Operations | Talks to |
| --- | --- | --- | --- | --- |
| CLI manager | `cli/mod.rs` | intent (`desired_running`, `start_epoch`), lifecycle behind a mutex (`next_generation`, `stop_tx`, `supervisor`), `active_generation`, `running` | `start_sync`, `request_sync_start` and `retry_sync_permit` + `start_sync_if_permitted`, `stop_sync`; per process a supervisor and two monitor tasks | called by every task below; writes AppState and the activity history |
| CLI events, sync state | `cli/mod.rs`, `cli/events.rs`, `cli/network.rs`, `state.rs` | sync state, login flag, pending count, current transfer behind an RwLock; a watch channel | `handle_cli_event`, stderr records, setters | written by monitors, supervisor, actions, autostart; watched by the status loop |
| Framing | `cli/framer.rs`, `cli/mod.rs` | a buffer per pipe | `push_chunk`, `finish`, `take_valid_utf8` | between pipe and events |
| Status loop | `lib.rs` | a copy of the last snapshot, tick and back-off counters | on change: draw; on tick: animate, retry offline, restart after an error | retries through the manager |
| Tray actions, wiring | `lib.rs`, `actions.rs` | a queue of actions | login, logout, pause/resume, quit; autostart; SIGTERM/SIGINT | manager, credentials, tray, windows |
| Tray | `tray/` | menu, icon | draw | queues actions |
| Login | `login.rs`, `src/login.js` | `current` session; per session two channels, a flag, a killer | `start`, `submit_two_factor`, `cancel` | a CLI in a pseudo-terminal; queues `LoginCompleted` |
| Activity history | `activity.rs` | entries, next id, revision behind an RwLock; `flush_lock`; a file | record, flush, clear, load | written by the stdout monitor |
| Activity persistence, window | `activity_view.rs`, `src/activity.js` | unseen versions; refresh generation | debounce and flush; forward, refresh, clear | the history |
| Credentials, configuration | `credentials.rs`, `config.rs` | files | exists, delete; load, write sync pairs | |
| Update, logging, discovery | `update.rs`, `logging.rs`, `cli/discovery.rs` | none shared | | |

What is hard, and what makes each part correct:

* **Start against stop.**  Five tasks (actions, autostart, status loop, signal
  handler, and each process's own supervisor) start, retry and stop with
  awaits in between.  There must never be two CLI processes, no launch may
  slip behind a stop, a stop must return with nothing left that writes, and it
  must return even when the CLI ignores SIGTERM or a pipe never closes.
* **Late writers.**  A monitor looks at its generation and then awaits; what
  it applies after a stop must be waited for.
* **A file with several writers.**  Debounced flushes, the flush of Quit and of
  the signal handler, and a clear overlap; the disk must never go back, cleared
  entries must not return, ids must stay unique over crashes.
* **A login over three kinds of thread.**  A webview command, the worker that
  owns the terminal, and the main thread that closes the window; no login may
  be left that nobody can cancel, no child without an owner, no command
  without an answer.
* **State seen late.**  Queued tray actions, the status loop's copy, the
  autostart's writes outside the mutex, the macOS tray's values computed under
  a lock that is dropped, the page's answers in any order: what the user chose
  must stay, and what is shown must end up being what is.
* **Two readers of one process.**  The stdout and the stderr monitor write the
  same state, field by field; the counts and the diagnosis of an exit must not
  depend on who came first.
* **Input in pieces.**  Reads end anywhere and buffers are bounded; no event,
  character, record or login prompt may be lost, taken twice or mixed up, and
  what is too long must not take along what follows.
* **Files written in place.**  The configuration and the sync pairs may be torn.

## The modules

| Module | What it is |
| --- | --- |
| `CliManager` | the CLI manager, with its mutant definitions and the inductive invariant |
| `SyncSlot` | the abstract specification: one slot, permits revoked by stops |
| `MCCliManager` | symmetry for TLC |
| `CliManager_proofs` | type correctness, the inductive invariant and what follows from it, and the proof that `CliManager` implements `SyncSlot` |
| `ActivityHistory`, `MCActivityHistory` | the activity history with its callers; the initial files for TLC |
| `LoginManager` | the login manager, its worker threads and the window |
| `LoginDialogue` | the prompts and answers of one login, beneath `LoginManager` |
| `TrayApp` | the wiring: action queue and handlers, autostart, retries, signal handler, over the slot that `SyncSlot` promises |
| `StatusLoop` | the status loop with its timers and counters |
| `CliEvents` | what the monitors and the supervisor make of the CLI's output |
| `JsonFramer`, `Utf8Chunks`, `LineFramer` | the three ways bytes become events, characters and records |
| `TrayMenu` | what a tray shows, as operators of the state it was told |
| `LinuxTray`, `MacTray` | the two trays, over `TrayMenu` |
| `ActivityPage` | the Recent Activity window with the commands and the forwarding task |
| `ConfigFiles` | `config.json` and `syncPairs.json` |
| `MCCliInterface` | for TLC: the framers, `LoginDialogue` and `ConfigFiles` in one run |
| `MCScreen` | for TLC: the two trays and `ActivityPage` in one run |
| `ActivityHistory_proofs`, `LoginManager_proofs`, `TrayApp_proofs`, `StatusLoop_proofs`, `CliEvents_proofs` | the theorems about these modules |
| `CliInterface_proofs`, `Screen_proofs` | the theorems about the parts of the two composite modules |

How they fit: `CliManager` implements `SyncSlot` (proved), and `TrayApp` and
`StatusLoop` use the manager as `SyncSlot` describes it, the first with the
mutex that orders its transactions.  `JsonFramer`, `Utf8Chunks` and
`LineFramer` give `CliEvents` its input, one event or record at a time, since
they are shown to lose and invent none; what `CliEvents` writes is among what
`CliManager` lets a monitor write.  `MacTray` and `LinuxTray` are drawn by the
status loop and by what `TrayApp` lets draw.  `ActivityPage` reads the history
whose memory and file `ActivityHistory` models.

`MCCliInterface` and `MCScreen` put modules side by side that share no state:
`part` says which of them a behaviour is of, and the others keep their initial
values.  It is a way to run small modules together, not a claim that they
interact.  The named instances substitute only constants and variables; their
assumptions on constants are collected in one ASSUME.

Definitions introduced by "Mutant" or "A mutant of" are plausible bugs.  They
are part of no specification: each run's properties have been seen to fail when
one of them takes the place of the definition it is a mutant of.

### CliManager

A step is the code between two awaits, two SeqCst atomic accesses or two writes
of AppState.  `Tasks` are the callers, each in one call at a time (`pc`).

| Code | Model |
| --- | --- |
| `desired_running`, `start_epoch` | `desired`, `epoch` (two loads or stores are two steps) |
| lifecycle mutex | `lock`; its FIFO queue only matters for fairness |
| `SyncStartPermit` | `permit[t]`, the epoch it was handed out in |
| the three permit checks of a start | `PermitDesired`, `PermitEpoch`, reached at three values of `stage` |
| `stop_sync_locked`, in a start and in a stop | `Invalidate`, `SignalStop`, `JoinSupervisor` |
| `start_sync_locked` | `SpawnChild` / `SpawnFails`, `PublishScanning`, `AdoptChild` |
| `ProcessGeneration::number`, wrapping | `gen[p]`, `NextGeneration` modulo `GenModulus`, skipping 0 |
| `supervise_process` | `sup[p]`: watching, terminating, ..., done |
| `terminate_process_tree` | `Terminate`: the child is dead at its end, by SIGTERM or SIGKILL |
| `join_monitor` with its two seconds | `AbortMonitor` |
| `monitor_stdout`, `monitor_stderr` | `MonitorRead`, `MonitorHandle`, `MonitorEnd`: what they write is any state the events of that pipe can cause |
| actions and autostart between their calls | `CallerWrites`, `HandleStartError` |

The environment: `ChildExits` at any time; a spawn or `write_sync_pairs` may
fail.  `SyncSlot` forgets the mutex, the generations, the supervisor and the
monitors: `Revoke`, `Launch`, `Vacate`, `Return`.  A process is in the slot
(`InSlot`) from its spawn until its supervisor has finished.

### ActivityHistory

An entry is its id; the write lock is not a variable since only the clear keeps
it over a step (`WriteLocked`).  `Record` and `NotifyRecord` are the stdout
monitor, `PersistWake` and `PersistDrain` the debounced task, `FlushLock` to
`FlushCheck` the loop of `flush`, run by three tasks, and `ClearLock` to
`NotifyClear` `clear_and_flush`.  `FlushFails` and `ClearFails` fail before or
after the rename.  `Die` ends the process anywhere and `Exit` where Quit or the
handler does; the next process loads what the file then holds
(`FromPersisted`, in `Ends`), and `Restart` starts it.  `StartSync` may happen
at any time, also between the stop of a Quit and its exit, as `tray_orphan`
shows it can: what that CLI records may be lost.  What a quit owes is what was
there, or recorded by the CLI it stops, when it stopped it: `owing` and `owed`
are history variables for that, and the code has nothing like them.  A rename is atomic and the file system
keeps writes in order: a power cut that loses a completed rename is outside.

### LoginManager

A session is named by the `start_login` that created it, as `Arc::ptr_eq` sees
it.  `pc[c]` is a webview command (a tokio task), `worker[s]` the thread of
`run_login_process`, and `pc[Window]`, `pc[Quit]` callers of `cancel` on the
main thread and in the action or signal handler.  `CancelMark` and `CancelKill`
are `LoginSession::cancel`, which a timed-out wait enters as well.
`CliPrint` and `CliDie` are the CLI: it may ask for a code, store the session
(`"saved"`) or refuse, hang, or die.  Abstracted: answering the prompts for
email, password and "keep me logged in" leaves the model's state as it is;
every outcome the page shows as an error and lets the user try again after is
`"failed"`; a kill is effective at once; the Cancel button's first `cancel()`
is one with the two of the window it closes.

### LoginDialogue

The terminal carries tokens: a text the driver looks for is two, so that a read
can end within it; banners, echoes and escape codes are noise.  `Read` is
`reader.read` with `LoginPromptDriver::push` (`Trimmed`, `Actions`), `sent` its
flags, `todo` the actions it returned, which are taken in the order in which
`push` looks for them (`Place`); `SendField`, `SendRemember`,
`NeedsTwoFactor`, `Terminal` and `Finish` the arms of the loop.  The driver's
`terminal` flag is not a variable: the loop ends with the action that set it.
The CLI asks in its order, reads one line at each question, may end after any
of them, and may ask for the email again after a refusal.

### TrayApp

`Tasks` are the action handler, the autostart, the status loop and the signal
handler; a step is the code between two awaits or two calls of the tray, and
`pc` and `plan` say where a task is and what it is about.  The manager's
transactions are the steps from `lock` to `launch` and from `revoke` to
`stopped`.  The user clicks what the menu on display enables at that moment;
the click waits in `queue` behind the action in hand, a modal dialog included.

### StatusLoop

`See` is the `changed()` arm of `select!`, `Tick` the timer's, `RetryPermit`
and `StartReturns` a retry that is awaited while nothing else is seen.  The
seconds of the delays are constants.  `gap`, `strikes` and `completed` are
history variables for the back-off.

### CliEvents

Each handler is a list of calls of AppState and of the history (`ops`) that the
stdout monitor makes one by one; a call that asks for the state before it is
set is two.  The stderr monitor handles a record the same way.  `pending`,
`current`, `cyclesSynced` are the fields of AppState, `watch` what its
channel holds.  `AbortStdout` and `AbortStderr` are the two seconds that
`join_monitor` gives each monitor: the handler ends between two of its calls and
what it had not read is lost.  `said` is a history variable that tells how the
process spoke of the network.  The CLI emits cycles in the order of its own protocol, on two
pipes that are read independently, and may be replaced after it has ended.

### The framers

`JsonFramer` takes one character at a time, of seven classes; beside it runs
the writer, which knows what frame is due.  `Utf8Chunks` keeps the bytes of the
whole stream and compares what was decoded with the stream decoded at once.
`LineFramer` does the same for records.

### The trays

`TrayMenu` has the texts, labels and enabled items of `tray/mod.rs` as functions
of the state.  In `LinuxTray` a change spawns an update, and an update asks for
each part on its own; in `MacTray` a call is a write of `MenuState`, a read and
one step for each item set, with the two read-write locks as sets of readers,
and `set_login_state` builds another menu.  `builder` and `attached` say whose
menu is on display and whether the handles in `MenuItems` are those of its
items.

### ActivityPage

`reliable` is chosen at the start: whether the commands of this behaviour
always succeed.  `requests` are the refreshes in flight with their generation; each is answered
in any order, or refused.  The forwarding task is `Forward`, the page's start
`Listen` and `FirstRefresh`, the timer `FireTimer`.  The filters and the search
redraw the page from `entries` at any time.

### ConfigFiles

An option has its default or another value.  A write in place is two steps; a
failed one leaves what the first did.  The user edits `config.json` at any
moment but the one in which the first start creates it.

## The runs

| Run | Bounds | Shows |
| --- | --- | --- |
| `cli_safety` | 2 callers, 2 processes, generations modulo 3, no stop once 2 were requested, written states Paused and Offline | one process at most, nothing revoked survives its stop, `running` is honest, late writers are awaited, a stop returns with everything gone, the invariant of the proof holds (the types are its first part), `SyncSlot` is implemented |
| `cli_liveness` | 2 callers, 1 process, 1 stop | stops return and permitted starts settle |
| `activity_history` | 2 entries, ids to 4, 1 clear, 1 death; at the start one entry on disk, or one too many | cleared entries stay cleared, nothing else is lost, ids are in order (`HistoryInv`), the disk never goes back, Quit and the signal save what the CLI they stopped had recorded (`QuitSaves`), and a change reaches the disk without another change |
| `login_safety` | 2 commands, 2 windows, 1 close, a Quit | an uncancelled login is the current one; no child without its worker (`LoginInv`) |
| `login_liveness` | 2 commands, 1 window, 1 close | a cancelled child dies; the slot is given back; a stored session is reported unless the wait timed out |
| `login_single` | 2 commands, 2 windows, 1 close | a finding |
| `tray` | 2 clicks, of which one may be a signal, 1 retry, launches that may fail, dialogs | no CLI runs that nobody wants (`TrayInv`); a pause is only undone by the user or by an autostart that fails late; Quit, the signal and every queued action come to their end (`TasksFinish`) |
| `tray_orphan` | 2 clicks | a finding |
| `status_loop` | 5 ticks offline, delays of 1 to 5 seconds | the counters stay in bounds and the delay keeps up with the failures (`LoopInv`), the back-off holds, a failure is always answered by another attempt |
| `cli_events` | 2 cycles with 2 tasks between them, 2 stderr records or further starts, pipes of 1 | the count, the watch channel and Synced agree with the tasks, now and after each event that is still in the pipe, and the history has each task once (`EventsInv`); an exit is shown as one, Offline where the CLI's word on the network came last (`ExitDiagnosed`), and no late word replaces what it shows (`ExitShown`) |
| `cli_interface` | see below | what the framers, the login and the sync pairs rest on (`InterfaceInv`); exactly the frames that are due, and a framer that recovers; text decoded as if it had come at once, and no byte that stalls it; each record whole and once; each question of a login gets its own answer and none is missed; the CLI syncs what its program runs with |
| `screen` | see below | what is stale is about to be asked for, one task at a time rebuilds the menu, the current answer has nothing that is cleared (`ScreenInv`); a macOS menu that is replaced while a transfer is drawn ends up with the transfer and the actions of the state (`RebuildKeepsUp`); nothing cleared comes back to the page, and the page ends up with the history |

The bounds of the two composite runs: JSON of any length nested twice, or any
characters, with a buffer of 5; streams of 6 bytes in reads of 1 to 3; records
up to and past 5 bytes; terminal reads of 1 to 4 tokens, a buffer of 5 and up to
4 tokens of noise before each text; 2 edits, 2 deaths, 2 required options and 1
optional one.  On Linux 2 states and 1 pending update; on macOS 1
event and 2 other changes of the AppState (autostart's and each click; a resume
and a failed start come on top), by 3 tasks; 2 records, 1 clear and 1 retry of
the page.  Frames and, on Linux, counts and transfers are drawn like the fields that
vary, and do not vary.

**Why the bounds are enough.**  With two callers every pair of operations
overlaps; a start against a start against a stop was run once with three
callers (1.4 million states, no error), and the proofs hold for any number.
Two processes are the fewest that can violate "one", and identities are used
again after a process has gone.  Modulo 3 leaves two generations, so the
counter wraps and meets an older number within a behaviour; two stops let a
permit be stale by one and by two.  A history of two entries that has one
is full after a record and drops one at the next; with ids to 4 it can be
cleared before, between and after them, on either side of a death, and a file
with more entries than fit is cut.  With two records and a clear a process has
four revisions, one for each of three flushers to hold and one for the memory.
A missing file is read as an empty history, which a clear leaves as well; the
proofs cover it, and `InitialDisk` with `None` alone was once run for the safety
properties (no error).  Two commands are a login and its two-factor code, or
two logins; two windows are needed for a command that outlives its window and
meets its successor.  The second window is not closed again (`MaxCloses`): the
run was once done with both closes (4.4 million states, no error).
A read of four tokens is longer than a text and as long as a buffer of five
allows; texts are cut at both ends of reads and pushed out of the buffer.  Two
clicks are the fewest for one action queued behind another, and with the
autostart, a retry and the signal they are four tasks at the manager.  The loop's delay
doubles three times and meets its limit off a power of two, and an offline wait
lies between two delays.  Two tasks, two records or starts, and cycles in JSON or in text let each
handler of one monitor overlap each of the other, within and after a process.
A buffer of five holds an object of two levels and overflows within one, within
a string, within text and between; nesting beyond it is the same counter.
Six bytes hold two three-byte characters, cut at every place by three reads.
A tray has each kind of part stale with one update under way while the next is
spawned; the three changes on macOS are a boot, a login or a logout, and a transfer,
so that the transfer is drawn while the menu is replaced, with redraws between
their steps: without any of them no transfer is ever set during a rebuild.  Two records
and a clear give the page an answer that is too old, one that is current and a
change after it.  Two deaths leave either file torn for the start
after the next.
`CHECK_DEADLOCK FALSE` is set where the bounded inputs may be used up, or the
application may end, and the program then rests; `status_loop` never does and is
checked for deadlock.  In the composite runs the safety of one part cannot be
helped by another, since no step of another is ever taken, and a fairness
condition of a part that is not the behaviour's has nothing enabled.

**Fairness.**  Tasks that are ready are polled by tokio and threads run, so
every step of the program is weakly fair.  tokio's Mutex is FIFO, so
acquisitions of the lifecycle mutex and of `flush_lock` are strongly fair.
The time-outs elapse: two seconds for SIGTERM and for a monitor, 120 seconds
for a login.  `LoginManager` needs less: some system step happens while one is
possible, since none of its tasks loops for ever by itself.  `StatusLoop` is strongly
fair to both arms of its `select!`, which picks one at random where both are
ready.  In
`ActivityPage` commands are answered and timers fire, in `LoginDialogue` the
worker runs and a CLI reads the line it asked for.  Nothing obliges a
caller to call, the user to click, the CLI to exit, print or obey SIGTERM.

## The proofs

Every safety invariant and every action property that a run checks is a theorem
for all values of the constants.  A run shows a property on one small instance,
the theorem for any number of callers, tasks, entries, clicks, records or
bytes.  The arguments are all of one form: an invariant that is inductive, and
the properties as what follows from it or from a step that starts in it.  TLC
has checked each part of those invariants, in its own form or, of the decoder
(`DecoderInv`, which speaks of parts of a stream that exist), as `DecodedExact`.

**The manager.**  The safety properties are not inductive alone.  `IInv` adds
what they rest on:

* `LockInv`: the mutex is held exactly by the task inside a transaction;
* `PhaseInv`: what the holder has in hand at each point, in particular that
  `lifecycle.supervisor` is empty from the join on, and who carries a permit;
* `ProcInv`: a process has a supervisor only if the manager or the holder's
  hand refers to it, is alive only while supervised or in hand, and its monitors
  run only while its supervisor waits for them;
* `PermitInv`: a permit that passed the last check is current, or a stop that
  revoked it is waiting for the mutex;
* `LateWritesAwaited`.

`CliManager_proofs` shows `TypeCorrect` and `Invariance` (one step per action,
one case per conjunct an action disturbs) and derives `OneProcess`,
`NothingSurvivesStop`, `HonestFlag`, `LateWriters` and, for the step in which
a stop returns, `QuietStop`.  `Refinement` shows that each step is a step
or a stutter of `SyncSlot`: the spawn is `Launch`, the end of the supervisor
`Vacate`, the epoch's increment `Revoke`, the join that ends a stop `Return`.
It needs one more invariant, that no permit is from the future
(`PermitBounded`).

**The activity history.**  The file, the memory and the snapshot a flusher
holds are `Whole`: their ids follow each other up to the next one, and of the
newest none is missing that was not cleared.  That is preserved by recording
and trimming (`AppendWhole`), loading (`LoadedWhole`) and clearing
(`EmptyWhole`), and implies the order and completeness of the ids.  With it go
the mutex (`LockHeld`), what a held snapshot can be between the file and the
memory (`HeldBetween`), and `FileRevision`, from which `DiskMonotone` follows.
`ClearIsFinal` needs that no snapshot from before a clear is still to be
written when the clear is confirmed; `QuitLosesNothing` needs `OwedKept`: what
is owed to a quit is settled at its stop, is in the snapshot it takes, and
stays on disk, since no later write is of an older one.  It does not need that
nothing is recorded after the stop.

**Login.**  `LoginInv` and `UncancelledIsCurrent` are inductive together and
neither is alone: that an uncancelled login is the current one rests on which
task clears the slot for which session (`ClearedIsOver`, `SessionsHeld`), and
that a child has its worker (`ChildOwned`) on the worker's last word
(`LastWord`).

**The application.**  `TrayInv` is the argument of `PermitInv` over the slot:
a running CLI that nobody wants is one that a stop is about to end.  It
needs what each task plans (`PlansKnown`), that the mutex surrounds launches and stops
(`MutexHeld`), what a pause has achieved at each of its steps (`PauseRevokes`,
`PausedIsQuiet`), and that nothing that starts a CLI can be clicked before the
autostart has drawn (`BeforeAutostart`).  `PauseIsFinal` is read off the steps that
write the state.

**The status loop.**  `LoopInv` ties the delay to the number of failures since
the last completed cycle (`WaitKept`); the doubling of a capped power of two
is the lemma `WaitDoubles`.

**Events and state.**  Events wait in a pipe, and a handler is a list of calls
made one by one between those of the other monitor, so the count agrees with
the CLI's tasks only once all is handled.  The inductive form says what the
count, the history and the cycles *will be* after the handler in hand and after
each event in the pipe (`CountFollows`, `HistoryFollows`, `CyclesFollow`): a
read of an event moves the trace by one, a new event extends it, a call leaves
it as it is.  `SyncedWaits` says where a Synced may be on its way, `ExitAwaits`
that the diagnosis of an exit comes when no monitor has anything left, be it
handled or lost to an abort.  `WordFollows` says that Offline is shown, or on
its way, only when the CLI spoke of the network, and that a last word is still
in the pipe of stderr or shown; `TheExitIsDiagnosed` is the case of an exit.
`Consequences` is the
case of an empty pipe: `PendingIsWhatRemains`, `SyncedMeansDone` and
`RecordedOnce`.

**Framing, configuration.**  `BufferIsLine` of `LineFramer` says that the buffer
is the record so far, or that it is too long and discarded; `RecordsFramed` is
about each step from there.  `PairsInStep` says what the pairs on disk are when
a CLI is spawned and before it has read them.

`FramerInv` of `JsonFramer` has three parts.  `FlagsFit` says which of the six
flags exclude each other and that a framer which discards an object remembers what its
line consists of; `FramerRecovers` follows from it, of any input at all.
`ObjectScanned` says that the depth and the string flags are those of a scan of
the buffer from its first brace on; that what is handed on as JSON is whole
follows when the last brace comes.  The scan is a recursive function of the
whole text.  That it extends by one step when the text grows by a character
(`ScanGrows`) is shown from the smallest position at which two traces could
differ.  `WriterFollowed` says that a CLI which keeps to its layout and the
framer agree on the nesting, the strings and the record so far, that a record over the limit
is one that is discarded, and that the line of a last brace, which ends what is
discarded, never looks begun while an object goes on: with an indented layout
the only brace at column zero is the last.  `ObjectsFramed` follows.

`DriverInv` of `LoginDialogue` rests on the place where a text is: a text that
the CLI printed has been found, or it is still to come, if only by the second
of its tokens, the first being the end of the buffer (`NothingOverlooked`).  So a
verdict cannot be missed by a worker that has read to the end.  Of what was
printed and is not yet dealt with, the question in hand or the verdict is all
there is (`FreshIs`, `OneCurrent`): a read finds one text at most that it has
not found before, and the order in which `push` looks for several and its stop after a
verdict never matter.  An answer on its way is therefore the answer to the question that
waits (`AnswerInOrder`), and what the worker decides is the verdict or comes
before there is one (`VerdictKnown`).  `QuestionsOwnAnswers` follows.  Of the
buffer only `BufferLimit > MaxChunk` is used.

`CharactersDecoded` is about two decodings that are recursive functions of the
stream.  Both are read off one trace, from the last byte backwards
(`TraceExists`), and what holds from every position on is shown from the
largest at which it could fail.  Where a stream consists of two parts, the second
is decoded behind the first as it is alone (`Behind`), and if the first is whole, so is
the result joined (`Concatenated`); bytes before the first error are whole
(`PrefixWhole`), and what begins a stream of characters is one, but for its end
(`StillWhole`).  `DecoderInv` then says that what waits is the end of what was
read and begins a character (`Waits`), and that the rest is whole and is what
was decoded (`Decodes`).  `InterfaceKept` adds the types of the five parts and
joins their invariants.

**The screen.**  `StaleIsAsked` of `LinuxTray` is inductive with its types.
`MacInv` says who rebuilds the menu (`Rebuild`), that the menu is behind the
state only where a task is about to set it (`MenuFollows`), and that a
transfer the loop has seen is in the menu or still in its calls
(`TransferFollows`); `MenuKeepsUp` is the case of no call under way, and about
the transfer and the actions alone: the pause item may be set back.
`AnswersCurrent` of `ActivityPage` says that an answer which would be shown has nothing
cleared; it needs `RefreshesOwed`, which bounds the generations by what was
recorded, cleared and retried, for the type of the counter only.

The composite modules are proved part by part: a step of another part is a
stutter of this one.

Attempts that failed said something about the model or the code, and the model
or the invariant was changed:

* the file that `ActivityHistory` starts with may have lost entries to a clear of an earlier run,
  so what was wiped is not empty at the start;
* the arms of a CASE for the writer of `LineFramer` overlapped, which TLC
  resolves by order and the semantics does not;
* that the transfer follows was not inductive before it said what the loop is
  about to draw;
* in `CliEvents` the pending count that a handler has read is still the count when it
  writes it back because the only other writer is the same monitor: the
  invariant has to say so (`CountFollows`), and the code relies on it without a lock;
* a handler that skips its state where another one is set still writes its
  count, so that Synced and a count above zero are kept apart by the order of
  the calls and not by their guards (`SyncedWaits`);
* in an object whose brace was kept behind blanks the buffer holds one byte more than a
  text may (`JsonFramer!TypeOK` had one bound for both), since the brace is pushed
  without a look at the limit (`framer.rs:67`);
* while the user is asked for the code the worker has decided nothing: the
  invariant of `LoginDialogue` has to say so (`VerdictKnown`), since a code that
  is written after a verdict would answer another question.

Assumptions on the constants are the ones named ASSUME in the modules, which
TLC evaluates in every run: `None` is nothing it stands for the absence of;
bounds are natural numbers, and those of buffers, entries and delays positive;
`GenModulus` is at least 2; written and reported states are sync states; a file
that is found at the first start is one that a run of the program can have left
(`DiskAssumption`); a text to draw is not the sign for none.

Only model-checked:

* the liveness properties, since fairness and ENABLED are beyond the prover;
* that the two findings below are violations.

## Findings

* `login_single`: `login.rs:99` says the manager owns "the single interactive
  login process allowed at a time".  `cancel` frees the slot at once; when the
  window is closed before the worker thread has spawned its CLI and a login is
  started from a new window, both workers spawn.  The first one then sees its
  cancelled flag and kills its own, so the overlap is short (`CancelledDies`),
  and the first session cannot be taken for the second
  (`UncancelledIsCurrent`).
* `tray_orphan`: `lib.rs:109` says the handler stops the CLI before the
  application ends.  Nothing forbids a start between the stop and the exit; an
  autostart that takes its permit there leaves a CLI behind.

### Other disagreements

Definitions in the modules that state what a doc or a comment says and the code
does not keep.  No run checks them; named under INVARIANT or PROPERTY in the
`.cfg` of the run that is given here, alone, each is violated (of
a part of a composite run, after a definition such as
`EmptyIsEmpty == Activity!EmptyIsEmpty` in its MC module).

| Definition | Run | What TLC shows |
| --- | --- | --- |
| `TrayApp!PauseStays` | `tray` | a failed autostart writes Error after it has released the mutex, over the Paused of a pause that came first (`actions.rs:171`) |
| `TrayApp!NotLoggedInTransitions` | `tray` | a pause clicked before a logout is confirmed is applied after it: Paused without a session, not among the transitions of `state.rs:56` |
| `TrayApp!MenuInSync` | `tray` | the autostart draws the state it decided on after the status loop drew a newer one (`lib.rs:156`) |
| `StatusLoop!ResetAfterSync` | `status_loop` | a Synced that is followed by an Error at once is not seen, and the back-off not reset (`lib.rs:262`) |
| `CliEvents!OfflinePreserved` | `cli_events` | an event of stdout that was printed before the network error of stderr and is handled after it makes an exit Error that `cli/mod.rs:756` wants preserved as Offline; what is kept is `ExitDiagnosed` |
| `CliEvents!CountWhenSyncing` | `cli_events` | after a crash the tray shows the remaining files (`tray/mod.rs:38`: "when syncing") |
| `Utf8Chunks!ChunksDontMatter` | `cli_interface` | a read with an invalid byte that ends within a character splits it (`cli/mod.rs:254`) |
| `MacTray!PauseItemInSync`, `MacTray!StatusItemInSync` | `screen` | an item of the macOS menu is set to a value computed before a newer one was drawn, and stays so (`tray/macos.rs:177`, `203`) |
| `ActivityPage!EmptyIsEmpty` | `screen` | a filter or a search while the history is loading, or could not be loaded, shows "No activity yet" (`locales/en.yml:114`) |
| `ConfigFiles!OmittedTakesDefault` | `cli_interface` | `README.md:254` gives every option a default; a file that leaves out `localPath`, `remotePath`, `syncMode` or `autoStart` is ignored as a whole, and the program syncs the default folder both ways |

## What is not modelled, and the plan

Not modelled:

* drawing pixels, D-Bus and AppKit calls, the layout of rows and dates;
* the update check (one request and a comparison of two versions), logging, the
  version probe of the CLI (an input of `TrayApp`), `cli/process.rs`, which the
  running program does not use, packaging, scripts and vendored crates;
* of the credentials, which directory holds them and the two environment
  variables: `TrayApp` knows whether a session is stored;
* the words that make a message a network error (`cli/network.rs`), which are
  one bit, and the fields of events that no handler reads;
* process groups, of which a natural exit of the CLI may leave members behind
  (that write into its pipes until the monitors are aborted), and reuse of process identifiers by the operating system;
* two copies of the application running at once.
