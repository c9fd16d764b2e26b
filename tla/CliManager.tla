----------------------------- MODULE CliManager -----------------------------
(***************************************************************************)
(* cli/mod.rs: CliManager, the owner of the one `filen sync --continuous`  *)
(* process.  Any number of tokio tasks (tray actions, status loop,         *)
(* autostart, signal handler) call start_sync, retry or stop_sync at any   *)
(* time.  Every await, every SeqCst atomic and every write of AppState is  *)
(* a step; the code between two of them runs as one.                       *)
(***************************************************************************)
EXTENDS Naturals

CONSTANTS
    Tasks,       \* tasks that call the manager
    Pids,        \* identities of CLI child processes
    None,        \* no task, no process, no permit
    GenModulus,  \* next_generation wraps here (2^64 in the code)
    MaxStops,    \* bound: no stop_sync is called once the epoch is this large
    Written      \* bound: the sync states the writers choose among

ASSUME NoneAssumption == None \notin Tasks \cup Pids \cup Nat
ASSUME GenAssumption  == GenModulus \in Nat /\ GenModulus >= 2
ASSUME StopAssumption == MaxStops \in Nat

Streams    == {"stdout", "stderr"}
SyncStates == {"Starting", "NotLoggedIn", "Synced", "Scanning", "Syncing",
               "Paused", "Error", "CliNotFound", "Offline"}

ASSUME WrittenAssumption == Written \subseteq SyncStates

VARIABLES
    desired,     \* desired_running
    epoch,       \* start_epoch
    lock,        \* holder of the lifecycle mutex
    pc,          \* where each task is in its call of the manager
    permit,      \* the SyncStartPermit a task carries; None in stop_sync
    stage,       \* how far the start transaction under the lock has come
    inHand,      \* process the lock holder is joining or launching
    nextGen,     \* CliLifecycle::next_generation
    stopTx,      \* CliLifecycle::stop_tx, as the process at its other end
    supervisor,  \* CliLifecycle::supervisor
    active,      \* active_generation
    running,     \* running
    syncState,   \* AppStateInner::sync_state
    child,       \* the operating system's view of each process
    sup,         \* supervise_process of each process
    gen,         \* ProcessGeneration::number
    stopSent,    \* the oneshot holds a stop
    mon,         \* monitor_stdout and monitor_stderr of each process
    launchEpoch  \* history: epoch of the permit a process was launched under

intent    == <<desired, epoch>>
lifecycle == <<nextGen, stopTx, supervisor>>
calls     == <<lock, pc, permit, stage, inHand>>
process   == <<child, sup, gen, stopSent, mon, launchEpoch>>
shared    == <<active, running, syncState>>
vars      == <<intent, lifecycle, calls, process, shared>>

\* What a monitor can make of the sync state: handle_cli_frames on stdout,
\* handle_stderr_record on stderr.
MonitorStates(s) ==
    Written \cap IF s = "stdout"
                   THEN {"Scanning", "Syncing", "Synced", "Error", "Offline"}
                   ELSE {"Error", "Offline"}

StartPcs  == {"permitDesired", "permitEpoch", "writePairs", "spawn", "publish", "adopt"}
StopPcs   == {"invalidate", "signal", "join"}
LockedPcs == StartPcs \cup StopPcs
Pcs       == LockedPcs \cup {"idle", "loadEpoch", "retryDesired", "permitted",
                             "failed", "stopEpoch", "lockStop"}
Stages    == {"locked", "stopped", "pairs"}
SupSteps  == {"none", "watching", "terminating", "killed", "exited", "diagnosing",
              "erring", "clearing", "done"}
Epochs    == Nat
Permits   == Epochs \cup {None}
Generations == 1 .. (GenModulus - 1)

TypeOK ==
    /\ desired \in BOOLEAN /\ epoch \in Epochs
    /\ lock \in Tasks \cup {None}
    /\ pc \in [Tasks -> Pcs] /\ permit \in [Tasks -> Permits]
    /\ stage \in Stages /\ inHand \in Pids \cup {None}
    /\ nextGen \in {0} \cup Generations
    /\ stopTx \in Pids \cup {None} /\ supervisor \in Pids \cup {None}
    /\ active \in {0} \cup Generations /\ running \in BOOLEAN
    /\ syncState \in SyncStates
    /\ child \in [Pids -> {"alive", "dead"}]
    /\ sup \in [Pids -> SupSteps]
    /\ gen \in [Pids -> {0} \cup Generations]
    /\ stopSent \in [Pids -> BOOLEAN]
    /\ mon \in [Pids -> [Streams -> {"reading", "handling", "done"}]]
    /\ launchEpoch \in [Pids -> Permits]

Init ==
    /\ desired = FALSE /\ epoch = 0
    /\ lock = None
    /\ pc = [t \in Tasks |-> "idle"] /\ permit = [t \in Tasks |-> None]
    /\ stage = "locked" /\ inHand = None
    /\ nextGen = 0 /\ stopTx = None /\ supervisor = None
    /\ active = 0 /\ running = FALSE /\ syncState = "Starting"
    /\ child = [p \in Pids |-> "dead"] /\ sup = [p \in Pids |-> "none"]
    /\ gen = [p \in Pids |-> 0] /\ stopSent = [p \in Pids |-> FALSE]
    /\ mon = [p \in Pids |-> [s \in Streams |-> "done"]]
    /\ launchEpoch = [p \in Pids |-> 0]

Goto(t, to) == pc' = [pc EXCEPT ![t] = to]
At(t, from) == pc[t] = from

-----------------------------------------------------------------------------
(* Permits: request_sync_start and retry_sync_permit                       *)

\* request_sync_start publishes the intent first ...
RequestStart(t) ==
    /\ At(t, "idle") /\ Goto(t, "loadEpoch")
    /\ desired' = TRUE
    /\ UNCHANGED <<epoch, lock, permit, stage, inHand, lifecycle, process, shared>>

\* ... and reads the epoch after it.
LoadEpoch(t) ==
    /\ At(t, "loadEpoch") /\ Goto(t, "permitted")
    /\ permit' = [permit EXCEPT ![t] = epoch]
    /\ UNCHANGED <<intent, lock, stage, inHand, lifecycle, process, shared>>

\* retry_sync_permit reads them in the opposite order ...
RetryLoadEpoch(t) ==
    /\ At(t, "idle") /\ Goto(t, "retryDesired")
    /\ permit' = [permit EXCEPT ![t] = epoch]
    /\ UNCHANGED <<intent, lock, stage, inHand, lifecycle, process, shared>>

\* ... and yields no permit when nothing should be running.
RetryLoadDesired(t) ==
    /\ At(t, "retryDesired")
    /\ IF desired THEN Goto(t, "permitted") /\ UNCHANGED permit
                  ELSE Goto(t, "idle") /\ permit' = [permit EXCEPT ![t] = None]
    /\ UNCHANGED <<intent, lock, stage, inHand, lifecycle, process, shared>>

-----------------------------------------------------------------------------
(* start_sync_if_permitted                                                 *)

\* Mutant: the transaction does not take the lifecycle mutex.
LockForStartUnlocked(t) ==
    /\ At(t, "permitted") /\ Goto(t, "permitDesired")
    /\ lock' = t
    /\ UNCHANGED <<intent, permit, stage, inHand, lifecycle, process, shared>>

LockForStart(t) ==
    /\ At(t, "permitted") /\ Goto(t, "permitDesired")
    /\ lock = None /\ lock' = t
    /\ UNCHANGED <<intent, permit, stage, inHand, lifecycle, process, shared>>

\* The transaction returns and its locals are gone: Ok leaves the caller
\* "idle", Err leaves it "failed".
Unlock(t, to) ==
    /\ Goto(t, to)
    /\ lock' = None /\ inHand' = None /\ stage' = "locked"
    /\ permit' = [permit EXCEPT ![t] = None]

\* permit_is_current, first load: a stale start is discarded with Ok(()).
PermitDesired(t) ==
    /\ At(t, "permitDesired")
    /\ IF desired THEN Goto(t, "permitEpoch") /\ UNCHANGED <<lock, inHand, stage, permit>>
                  ELSE Unlock(t, "idle")
    /\ UNCHANGED <<intent, lifecycle, process, shared>>

\* permit_is_current, second load; what comes next depends on which of the
\* three checks this is.
AfterCheck == [locked |-> "invalidate", stopped |-> "writePairs", pairs |-> "spawn"]

\* Mutant: permit_is_current looks at the intent alone.
PermitEpochUnchecked(t) ==
    /\ At(t, "permitEpoch") /\ Goto(t, AfterCheck[stage])
    /\ UNCHANGED <<intent, permit, lock, inHand, stage, lifecycle, process, shared>>

PermitEpoch(t) ==
    /\ At(t, "permitEpoch")
    /\ IF epoch = permit[t]
         THEN Goto(t, AfterCheck[stage]) /\ UNCHANGED <<lock, inHand, stage, permit>>
         ELSE Unlock(t, "idle")
    /\ UNCHANGED <<intent, lifecycle, process, shared>>

\* Config::write_sync_pairs
WriteSyncPairs(t) ==
    /\ At(t, "writePairs")
    /\ \/ Goto(t, "permitDesired") /\ stage' = "pairs" /\ UNCHANGED <<lock, inHand, permit>>
       \/ Unlock(t, "failed")
    /\ UNCHANGED <<intent, lifecycle, process, shared>>

\* start_sync_locked: Command::spawn succeeds ...
SpawnChild(t, p) ==
    /\ At(t, "spawn") /\ Goto(t, "publish")
    /\ sup[p] = "none" /\ child[p] = "dead"
    /\ inHand' = p
    /\ child' = [child EXCEPT ![p] = "alive"]
    /\ launchEpoch' = [launchEpoch EXCEPT ![p] = permit[t]]
    /\ UNCHANGED <<intent, lock, permit, stage, lifecycle, sup, gen, stopSent, mon, shared>>

\* ... or fails.
SpawnFails(t) ==
    /\ At(t, "spawn") /\ Unlock(t, "failed")
    /\ UNCHANGED <<intent, lifecycle, process, shared>>

PublishScanning(t) ==
    /\ At(t, "publish") /\ Goto(t, "adopt")
    /\ syncState' = "Scanning"
    /\ UNCHANGED <<intent, lock, permit, stage, inHand, lifecycle, process, active, running>>

\* next_generation.wrapping_add(1).max(1)
NextGeneration == IF nextGen + 1 >= GenModulus THEN 1 ELSE nextGen + 1

\* The rest of start_sync_locked, with the supervisor and its two monitors
\* spawned: nothing else can run the lifecycle before the lock is released.
AdoptChild(t) ==
    /\ At(t, "adopt") /\ Unlock(t, "idle")
    /\ nextGen' = NextGeneration
    /\ active' = NextGeneration /\ running' = TRUE
    /\ stopTx' = inHand /\ supervisor' = inHand
    /\ sup' = [sup EXCEPT ![inHand] = "watching"]
    /\ gen' = [gen EXCEPT ![inHand] = NextGeneration]
    /\ stopSent' = [stopSent EXCEPT ![inHand] = FALSE]
    /\ mon' = [mon EXCEPT ![inHand] = [s \in Streams |-> "reading"]]
    /\ UNCHANGED <<intent, child, launchEpoch, syncState>>

\* The caller of a start that returned Err: it shows Error (actions.rs,
\* autostart) or only logs (status loop).
HandleStartError(t) ==
    /\ At(t, "failed") /\ Goto(t, "idle")
    /\ syncState' \in {syncState, "Error"}
    /\ UNCHANGED <<intent, lock, permit, stage, inHand, lifecycle, process, active, running>>

-----------------------------------------------------------------------------
(* stop_sync and stop_sync_locked                                          *)

\* The intent is published before the mutex is waited for ...
RequestStop(t) ==
    /\ At(t, "idle") /\ Goto(t, "stopEpoch")
    /\ epoch < MaxStops
    /\ desired' = FALSE
    /\ UNCHANGED <<epoch, lock, permit, stage, inHand, lifecycle, process, shared>>

\* ... and every earlier permit is revoked.
RevokePermits(t) ==
    /\ At(t, "stopEpoch") /\ Goto(t, "lockStop")
    /\ epoch' = epoch + 1
    /\ UNCHANGED <<desired, lock, permit, stage, inHand, lifecycle, process, shared>>

LockForStop(t) ==
    /\ At(t, "lockStop") /\ Goto(t, "invalidate")
    /\ lock = None /\ lock' = t
    /\ UNCHANGED <<intent, permit, stage, inHand, lifecycle, process, shared>>

\* stop_sync_locked invalidates the old generation,
Invalidate(t) ==
    /\ At(t, "invalidate") /\ Goto(t, "signal")
    /\ active' = 0
    /\ UNCHANGED <<intent, lock, permit, stage, inHand, lifecycle, process, running, syncState>>

\* Mutant: the stop is sent and nobody waits for the supervisor.
SignalStopUnjoined(t) ==
    /\ At(t, "signal") /\ Goto(t, "join")
    /\ stopSent' = [p \in Pids |-> stopSent[p] \/ p = stopTx]
    /\ stopTx' = None /\ supervisor' = None
    /\ UNCHANGED <<intent, lock, permit, stage, inHand, nextGen, child, sup, gen, mon, launchEpoch, shared>>

\* sends it the stop, takes the join handle,
SignalStop(t) ==
    /\ At(t, "signal") /\ Goto(t, "join")
    /\ stopSent' = [p \in Pids |-> stopSent[p] \/ p = stopTx]
    /\ stopTx' = None
    /\ inHand' = supervisor /\ supervisor' = None
    /\ UNCHANGED <<intent, lock, permit, stage, nextGen, child, sup, gen, mon, launchEpoch, shared>>

\* Mutant: the join times out and the transaction goes on regardless.
JoinSupervisorUnawaited(t) ==
    /\ At(t, "join")
    /\ running' = FALSE
    /\ sup' = [p \in Pids |-> IF p = inHand THEN "none" ELSE sup[p]]
    /\ gen' = [p \in Pids |-> IF p = inHand THEN 0 ELSE gen[p]]
    /\ stopSent' = [p \in Pids |-> p # inHand /\ stopSent[p]]
    /\ launchEpoch' = [p \in Pids |-> IF p = inHand THEN 0 ELSE launchEpoch[p]]
    /\ IF permit[t] = None
         THEN Unlock(t, "idle")
         ELSE /\ Goto(t, "permitDesired") /\ stage' = "stopped" /\ inHand' = None
              /\ UNCHANGED <<lock, permit>>
    /\ UNCHANGED <<intent, lifecycle, child, mon, active, syncState>>

\* and goes on once the supervisor has finished.  What a joined supervisor
\* owned is dropped, and its process identity is free for another launch.
JoinSupervisor(t) ==
    /\ At(t, "join")
    /\ inHand # None => sup[inHand] = "done"
    /\ running' = FALSE
    /\ sup' = [p \in Pids |-> IF p = inHand THEN "none" ELSE sup[p]]
    /\ gen' = [p \in Pids |-> IF p = inHand THEN 0 ELSE gen[p]]
    /\ stopSent' = [p \in Pids |-> p # inHand /\ stopSent[p]]
    /\ launchEpoch' = [p \in Pids |-> IF p = inHand THEN 0 ELSE launchEpoch[p]]
    /\ IF permit[t] = None
         THEN Unlock(t, "idle")
         ELSE /\ Goto(t, "permitDesired") /\ stage' = "stopped" /\ inHand' = None
              /\ UNCHANGED <<lock, permit>>
    /\ UNCHANGED <<intent, lifecycle, child, mon, active, syncState>>

-----------------------------------------------------------------------------
(* supervise_process, join_monitor and terminate_process_tree              *)

SupGoto(p, to) == sup' = [sup EXCEPT ![p] = to]
IsActive(p) == active = gen[p]

\* The biased select!: the stop wins over an exit seen at the same poll.
SuperviseStop(p) ==
    /\ sup[p] = "watching" /\ SupGoto(p, "terminating")
    /\ stopSent[p]
    /\ UNCHANGED <<intent, calls, lifecycle, child, gen, stopSent, mon, launchEpoch, shared>>

\* Mutant: the exit is reported before the child has been reaped.
SuperviseExitUnreaped(p) ==
    /\ sup[p] = "watching" /\ SupGoto(p, "exited")
    /\ ~stopSent[p]
    /\ running' = FALSE
    /\ UNCHANGED <<intent, calls, lifecycle, child, gen, stopSent, mon, launchEpoch, active, syncState>>

\* child.wait() returned.  (The code takes an error of wait for an exit too;
\* the system reports none for a child that nobody else reaps.)
SuperviseExit(p) ==
    /\ sup[p] = "watching" /\ SupGoto(p, "exited")
    /\ ~stopSent[p] /\ child[p] = "dead"
    /\ running' = FALSE
    /\ UNCHANGED <<intent, calls, lifecycle, child, gen, stopSent, mon, launchEpoch, active, syncState>>

\* Mutant: SIGTERM without the escalation to SIGKILL.
TerminateGraceful(p) ==
    /\ sup[p] = "terminating" /\ SupGoto(p, "killed")
    /\ child[p] = "dead"
    /\ running' = FALSE
    /\ UNCHANGED <<intent, calls, lifecycle, child, gen, stopSent, mon, launchEpoch, active, syncState>>

\* SIGTERM to the group, SIGKILL after two seconds: the child is gone and
\* reaped when terminate_process_tree returns.
Terminate(p) ==
    /\ sup[p] = "terminating" /\ SupGoto(p, "killed")
    /\ child' = [child EXCEPT ![p] = "dead"]
    /\ running' = FALSE
    /\ UNCHANGED <<intent, calls, lifecycle, gen, stopSent, mon, launchEpoch, active, syncState>>

\* Mutant: a monitor whose pipe stays open is awaited for ever.
AbortMonitorNever(p, s) == FALSE

\* join_monitor's two-second timeout
AbortMonitor(p, s) ==
    /\ sup[p] \in {"killed", "exited"}
    /\ mon[p][s] # "done" /\ mon' = [mon EXCEPT ![p][s] = "done"]
    /\ UNCHANGED <<intent, calls, lifecycle, child, sup, gen, stopSent, launchEpoch, shared>>

\* Mutant: the supervisor does not join its monitors.
JoinMonitorsUnjoined(p) ==
    /\ sup[p] \in {"killed", "exited"}
    /\ SupGoto(p, IF sup[p] = "killed" \/ ~IsActive(p) THEN "done" ELSE "diagnosing")
    /\ UNCHANGED <<intent, calls, lifecycle, child, gen, stopSent, mon, launchEpoch, shared>>

\* Both monitors are joined; only an unintended exit of the active generation
\* is diagnosed.
JoinMonitors(p) ==
    /\ sup[p] \in {"killed", "exited"}
    /\ \A s \in Streams : mon[p][s] = "done"
    /\ SupGoto(p, IF sup[p] = "killed" \/ ~IsActive(p) THEN "done" ELSE "diagnosing")
    /\ UNCHANGED <<intent, calls, lifecycle, child, gen, stopSent, mon, launchEpoch, shared>>

\* get_sync_state: Offline is the more specific diagnosis
DiagnoseExit(p) ==
    /\ sup[p] = "diagnosing"
    /\ SupGoto(p, IF syncState = "Offline" THEN "clearing" ELSE "erring")
    /\ UNCHANGED <<intent, calls, lifecycle, child, gen, stopSent, mon, launchEpoch, shared>>

ReportExit(p) ==
    /\ sup[p] = "erring" /\ SupGoto(p, "clearing")
    /\ syncState' = "Error"
    /\ UNCHANGED <<intent, calls, lifecycle, child, gen, stopSent, mon, launchEpoch, active, running>>

\* compare_exchange of active_generation
ClearActive(p) ==
    /\ sup[p] = "clearing" /\ SupGoto(p, "done")
    /\ active' = IF IsActive(p) THEN 0 ELSE active
    /\ UNCHANGED <<intent, calls, lifecycle, child, gen, stopSent, mon, launchEpoch, running, syncState>>

-----------------------------------------------------------------------------
(* monitor_stdout and monitor_stderr                                       *)

MonGoto(p, s, to) == mon' = [mon EXCEPT ![p][s] = to]

\* A read returned data and is_active still held after it.
MonitorRead(p, s) ==
    /\ mon[p][s] = "reading" /\ MonGoto(p, s, "handling")
    /\ IsActive(p)
    /\ UNCHANGED <<intent, calls, lifecycle, child, sup, gen, stopSent, launchEpoch, shared>>

\* The generation is no longer active, or the stream ended or failed.
MonitorEnd(p, s) ==
    /\ mon[p][s] = "reading" /\ MonGoto(p, s, "done")
    /\ UNCHANGED <<intent, calls, lifecycle, child, sup, gen, stopSent, launchEpoch, shared>>

\* One frame or record is applied.  stdout goes through all the frames of a
\* chunk without another look at is_active, stderr looks before each record.
MonitorHandle(p, s) ==
    /\ mon[p][s] = "handling"
    /\ syncState' \in {syncState} \cup MonitorStates(s)
    /\ \/ MonGoto(p, s, "reading")
       \/ s = "stdout" /\ UNCHANGED mon
       \/ s = "stderr" /\ IsActive(p) /\ UNCHANGED mon
       \/ MonGoto(p, s, "done")
    /\ UNCHANGED <<intent, calls, lifecycle, child, sup, gen, stopSent, launchEpoch, active, running>>

-----------------------------------------------------------------------------
(* The environment                                                         *)

\* The CLI crashes, is killed from outside, or dies of the SIGTERM.
ChildExits(p) ==
    /\ child[p] = "alive" /\ child' = [child EXCEPT ![p] = "dead"]
    /\ UNCHANGED <<intent, calls, lifecycle, sup, gen, stopSent, mon, launchEpoch, shared>>

\* A caller writes the sync state between two calls, or between the capture
\* of its permit and the start (autostart publishes Scanning there).
CallerWrites(t) ==
    /\ pc[t] \in {"idle", "permitted"}
    /\ syncState' \in Written
    /\ UNCHANGED <<intent, calls, lifecycle, process, active, running>>

TaskStep(t) ==
    \/ RequestStart(t) \/ LoadEpoch(t) \/ RetryLoadEpoch(t) \/ RetryLoadDesired(t)
    \/ LockForStart(t) \/ PermitDesired(t) \/ PermitEpoch(t) \/ WriteSyncPairs(t)
    \/ (\E p \in Pids : SpawnChild(t, p)) \/ SpawnFails(t)
    \/ PublishScanning(t) \/ AdoptChild(t) \/ HandleStartError(t)
    \/ RequestStop(t) \/ RevokePermits(t) \/ LockForStop(t)
    \/ Invalidate(t) \/ SignalStop(t) \/ JoinSupervisor(t)
    \/ CallerWrites(t)

SupervisorStep(p) ==
    \/ SuperviseStop(p) \/ SuperviseExit(p) \/ Terminate(p) \/ JoinMonitors(p)
    \/ DiagnoseExit(p) \/ ReportExit(p) \/ ClearActive(p)

MonitorStep(p, s) ==
    \/ AbortMonitor(p, s) \/ MonitorRead(p, s) \/ MonitorEnd(p, s) \/ MonitorHandle(p, s)

Next ==
    \/ \E t \in Tasks : TaskStep(t)
    \/ \E p \in Pids : SupervisorStep(p) \/ ChildExits(p)
    \/ \E p \in Pids, s \in Streams : MonitorStep(p, s)

Spec == Init /\ [][Next]_vars

-----------------------------------------------------------------------------
(* Fairness: tokio polls every ready task; its Mutex is FIFO, hence strong  *)
(* fairness for the acquisitions; the two-second timeouts end every join.   *)
(* Nothing obliges a caller to call, or the CLI to exit or to write.        *)

UnderLock(t) ==
    \/ PermitDesired(t) \/ PermitEpoch(t) \/ WriteSyncPairs(t)
    \/ (\E p \in Pids : SpawnChild(t, p)) \/ SpawnFails(t)
    \/ PublishScanning(t) \/ AdoptChild(t)
    \/ Invalidate(t) \/ SignalStop(t) \/ JoinSupervisor(t)

Fairness ==
    /\ \A t \in Tasks :
          /\ WF_vars(LoadEpoch(t) \/ RevokePermits(t))
          /\ WF_vars(UnderLock(t))
          /\ SF_vars(LockForStart(t)) /\ SF_vars(LockForStop(t))
    /\ \A p \in Pids :
          /\ WF_vars(SupervisorStep(p))
          /\ \A s \in Streams : WF_vars(AbortMonitor(p, s))

LiveSpec == Spec /\ Fairness

-----------------------------------------------------------------------------
(* Properties                                                              *)

\* A process some part of the application still has a hand in.
Busy(p) ==
    \/ child[p] = "alive"
    \/ sup[p] \notin {"none", "done"}
    \/ \E s \in Streams : mon[p][s] # "done"

\* stop_sync of task t has revoked the permits and has not returned.
Stopping(t) ==
    \/ pc[t] = "lockStop"
    \/ pc[t] \in StopPcs /\ permit[t] = None

\* However starts, retries and stops interleave, there are never two CLI
\* processes, nor a live supervisor or monitor of one beside another
\* (concurrent_starts_join_stale_monitors_and_leave_one_process).
AtMostOneProcess ==
    \A p, q \in Pids : Busy(p) /\ Busy(q) => p = q

\* A process launched under a permit that has since been revoked is alive only
\* while the stop that revoked it is still in progress: nothing survives a
\* pause, logout or quit, and nothing is launched behind its back
\* (stop_queued_after_start_prevents_a_late_process_launch).
RevokedOnlyWhileStopping ==
    \A p \in Pids :
        child[p] = "alive" /\ launchEpoch[p] # epoch => \E t \in Tasks : Stopping(t)

\* `running` never hides a child: with the mutex free and the flag down, no
\* CLI process is alive.
RunningFlagHonest ==
    lock = None /\ ~running => \A p \in Pids : child[p] # "alive"

\* stop_sync returns with the process gone, its supervisor finished and both
\* monitors joined, so the caller's Paused or NotLoggedIn is the last word.
StopReturnsQuiet ==
    [][\A t \in Tasks :
          At(t, "join") /\ pc'[t] = "idle" => \A p \in Pids : ~Busy(p)']_vars

\* A monitor that still applies output, or a supervisor that still reports an
\* exit, belongs to the active generation, or a transaction that invalidated
\* that generation is waiting for it to finish.
LateWritesAwaited ==
    \A p \in Pids :
        (\E s \in Streams : mon[p][s] = "handling") \/ sup[p] \in {"diagnosing", "erring"}
           => IsActive(p) \/ \E t \in Tasks : pc[t] \in {"signal", "join"}

\* Every stop returns: no lock cycle between a stop, the supervisor it awaits
\* and the monitors that one awaits.
StopReturns == \A t \in Tasks : At(t, "lockStop") ~> At(t, "idle")

\* Every start that holds a permit is settled: launched, discarded or failed.
StartSettles == \A t \in Tasks : At(t, "permitted") ~> pc[t] \in {"idle", "failed"}

-----------------------------------------------------------------------------
(* The inductive invariant behind the safety properties                    *)

\* The mutex is held exactly by the task that is inside a transaction.
LockInv == \A t \in Tasks : lock = t <=> pc[t] \in LockedPcs

\* What the lock holder knows at each point of its transaction.
HandEmpty == LockedPcs \ {"join", "publish", "adopt"}
Detached  == {"join", "writePairs", "spawn", "publish", "adopt"}
PhaseInv ==
    /\ lock = None => inHand = None /\ stage = "locked"
    /\ \A t \in Tasks :
        /\ pc[t] \in HandEmpty => inHand = None
        /\ pc[t] \in {"publish", "adopt"} => inHand \in Pids
        /\ pc[t] \in {"publish", "adopt"} => sup[inHand] = "none"
        /\ pc[t] \in Detached => supervisor = None
        /\ pc[t] \in {"permitDesired", "permitEpoch"} /\ stage # "locked" => supervisor = None
        /\ pc[t] \in StopPcs => stage = "locked"
        /\ pc[t] \in StartPcs => permit[t] # None
        /\ pc[t] \in {"retryDesired", "permitted"} => permit[t] # None
        /\ pc[t] \in {"idle", "failed", "loadEpoch", "stopEpoch", "lockStop"} => permit[t] = None

\* Who may still hold a process.
ProcInv == \A p \in Pids :
    /\ sup[p] # "none" => p = supervisor \/ (p = inHand /\ pc[lock] = "join")
    /\ child[p] = "alive" =>
          sup[p] \in {"watching", "terminating"} \/ (p = inHand /\ pc[lock] \in {"publish", "adopt"})
    /\ \A s \in Streams :
          mon[p][s] # "done" => sup[p] \in {"watching", "terminating", "killed", "exited"}
    /\ sup[p] \in {"watching", "terminating"} => running

\* A permit that passed the last check is current, or its revoker is waiting.
PermitInv ==
    /\ \A t \in Tasks :
          pc[t] = "spawn" /\ permit[t] # epoch => \E u \in Tasks : Stopping(u)
    /\ RevokedOnlyWhileStopping

IInv == TypeOK /\ LockInv /\ PhaseInv /\ ProcInv /\ PermitInv /\ LateWritesAwaited

-----------------------------------------------------------------------------
(* The abstract slot this implements                                       *)

\* A process takes the slot with its spawn, before it has a supervisor.
InSlot(p) == Busy(p) \/ (p = inHand /\ pc[lock] \in {"publish", "adopt"})

StoppingTasks == {t \in Tasks : Stopping(t)}
Occupied == {[id |-> p, permit |-> launchEpoch[p]] : p \in {q \in Pids : InSlot(q)}}

Slot == INSTANCE SyncSlot WITH stopping <- StoppingTasks, procs <- Occupied

\* The manager implements the slot: every launch finds it empty and is either
\* under a current permit or already condemned by a pending stop, and every
\* stop returns with it empty (start_sync_if_permitted, stop_sync).
SlotSpec == Slot!Spec
=============================================================================
