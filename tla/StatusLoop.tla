----------------------------- MODULE StatusLoop -----------------------------
(***************************************************************************)
(* status_update_loop of lib.rs: one task that waits for the watch channel *)
(* of AppState and for a 500 ms timer, keeps a snapshot of the state, and  *)
(* restarts the CLI after it went offline or failed.                       *)
(*                                                                         *)
(* The channel keeps the last value only, so the loop may not see a state; *)
(* and while a restart is awaited it sees nothing at all.                  *)
(***************************************************************************)
EXTENDS Naturals

CONSTANTS OfflineTicks,    \* 60 in the code
          TicksPerSecond,  \* 2
          MinDelay,        \* 5, in seconds
          MaxDelay         \* 60

ASSUME DelayAssumption ==
  /\ {OfflineTicks, TicksPerSecond, MinDelay, MaxDelay} \subseteq Nat \ {0}
  /\ MinDelay <= MaxDelay

Frames == 4
SyncStates == {"Starting", "NotLoggedIn", "Synced", "Scanning", "Syncing",
               "Paused", "Error", "CliNotFound", "Offline"}

VARIABLES
  syncState, dirty,      \* AppState.sync_state; the channel has news
  desired, running,      \* the CLI manager: intent, and a CLI process
  pc,                    \* the loop: in select!, asking for a permit, starting
  seen, frame,           \* current_snapshot.sync_state, animation_frame
  offlineTicks, errorTicks, delay,
  gap, strikes,          \* ticks since, and number of, attempts after an Error
  completed              \* a sync cycle completed since the last of them

stateVars == <<syncState, dirty, desired, running>>
loopVars  == <<pc, seen, frame, offlineTicks, errorTicks, delay>>
ghostVars == <<gap, strikes, completed>>
vars == <<stateVars, loopVars, ghostVars>>

Lower(a, b) == IF a < b THEN a ELSE b
Animated(state) == state \in {"Starting", "Scanning", "Syncing"}
NeedsTimerTick(state) == Animated(state) \/ state \in {"Offline", "Error"}

\* What the back-off is to be after that many attempts in a row.
Wait(attempts) == Lower(MinDelay * 2^attempts, MaxDelay)
Strikes == 0..Lower(MaxDelay, 6)

TypeOK ==
  /\ syncState \in SyncStates /\ seen \in SyncStates
  /\ {dirty, desired, running, completed} \subseteq BOOLEAN
  /\ pc \in {"select", "retry", "starting"}
  /\ frame \in 0..(Frames - 1)
  /\ offlineTicks \in 0..(OfflineTicks - 1)
  /\ errorTicks \in 0..(TicksPerSecond * MaxDelay - 1)
  /\ delay \in MinDelay..MaxDelay
  /\ gap \in 0..(TicksPerSecond * MaxDelay) /\ strikes \in Strikes

Init ==
  /\ syncState = "Starting" /\ dirty = FALSE /\ desired = FALSE /\ running = FALSE
  /\ pc = "select" /\ seen = "Starting" /\ frame = 0
  /\ offlineTicks = 0 /\ errorTicks = 0 /\ delay = MinDelay
  /\ gap = 0 /\ strikes = 0 /\ completed = FALSE

SetSyncState(state) ==
  /\ syncState' = state
  /\ dirty' = (dirty \/ state # syncState)
  /\ completed' = (completed \/ state = "Synced")

-----------------------------------------------------------------------------
(* What the CLI and the user do to the state meanwhile                     *)

\* Events and stderr records of the running CLI.
CliReports ==
  /\ running
  /\ \E state \in {"Scanning", "Synced", "Error", "Offline"} :
       state # syncState /\ SetSyncState(state)
  /\ UNCHANGED <<desired, running, loopVars, gap, strikes>>

\* A pending count or a transfer changed: news without another state.
Notify ==
  /\ running /\ dirty' = TRUE
  /\ UNCHANGED <<syncState, desired, running, loopVars, ghostVars>>

CliExits ==
  /\ running /\ running' = FALSE
  /\ SetSyncState(IF syncState = "Offline" THEN "Offline" ELSE "Error")
  /\ UNCHANGED <<desired, loopVars, gap, strikes>>

\* toggle_pause; a Resume may fail to start the CLI.
Pause ==
  /\ syncState \notin {"Starting", "Paused"}
  /\ desired' = FALSE /\ running' = FALSE /\ SetSyncState("Paused")
  /\ UNCHANGED <<loopVars, gap, strikes>>

Resume ==
  /\ syncState \in {"Starting", "Paused"} /\ desired' = TRUE
  /\ \/ running' = TRUE /\ SetSyncState("Scanning")
     \/ running' = FALSE /\ SetSyncState("Error")
  /\ UNCHANGED <<loopVars, gap, strikes>>

-----------------------------------------------------------------------------
(* The loop                                                                *)

\* A mutant of See: the back-off is forgotten as soon as the CLI works.
SeeEager ==
  /\ pc = "select" /\ dirty
  /\ dirty' = FALSE /\ seen' = syncState
  /\ offlineTicks' = IF syncState = "Offline" THEN offlineTicks ELSE 0
  /\ errorTicks' = IF syncState = "Error" THEN errorTicks ELSE 0
  /\ delay' = IF syncState # "Error" THEN MinDelay ELSE delay
  /\ strikes' = IF syncState = "Synced" THEN 0 ELSE strikes
  /\ UNCHANGED <<syncState, desired, running, pc, frame, gap, completed>>

\* The changed() branch: draw, and reset what the new state resets.
See ==
  /\ pc = "select" /\ dirty
  /\ dirty' = FALSE /\ seen' = syncState
  /\ offlineTicks' = IF syncState = "Offline" THEN offlineTicks ELSE 0
  /\ errorTicks' = IF syncState = "Error" THEN errorTicks ELSE 0
  /\ delay' = IF syncState = "Synced" THEN MinDelay ELSE delay
  /\ strikes' = IF syncState = "Synced" THEN 0 ELSE strikes
  /\ UNCHANGED <<syncState, desired, running, pc, frame, gap, completed>>

ErrorDue   == seen = "Error" /\ errorTicks + 1 >= TicksPerSecond * delay
OfflineDue == seen = "Offline" /\ offlineTicks + 1 >= OfflineTicks

CountOffline ==
  offlineTicks' = IF seen # "Offline" THEN offlineTicks
                  ELSE IF OfflineDue THEN 0 ELSE offlineTicks + 1

\* A mutant of CountError: the delay is not capped.
CountErrorUncapped ==
  IF ErrorDue
  THEN /\ errorTicks' = 0 /\ delay' = delay * 2
       /\ gap' = 0 /\ completed' = FALSE
       /\ strikes' = IF strikes + 1 \in Strikes THEN strikes + 1 ELSE strikes
  ELSE /\ errorTicks' = IF seen = "Error" THEN errorTicks + 1 ELSE errorTicks
       /\ gap' = Lower(gap + 1, TicksPerSecond * MaxDelay)
       /\ UNCHANGED <<delay, strikes, completed>>

\* The delay is doubled before the attempt, whatever becomes of it.
CountError ==
  IF ErrorDue
  THEN /\ errorTicks' = 0 /\ delay' = Lower(delay * 2, MaxDelay)
       /\ gap' = 0 /\ completed' = FALSE
       /\ strikes' = IF strikes + 1 \in Strikes THEN strikes + 1 ELSE strikes
  ELSE /\ errorTicks' = IF seen = "Error" THEN errorTicks + 1 ELSE errorTicks
       /\ gap' = Lower(gap + 1, TicksPerSecond * MaxDelay)
       /\ UNCHANGED <<delay, strikes, completed>>

\* The timer branch.
Tick ==
  /\ pc = "select" /\ NeedsTimerTick(seen)
  /\ frame' = (frame + 1) % Frames
  /\ CountOffline /\ CountError
  /\ pc' = IF OfflineDue \/ ErrorDue THEN "retry" ELSE "select"
  /\ UNCHANGED <<stateVars, seen>>

\* A mutant of RetryPermit: an attempt is made only while the CLI is alive.
RetryPermitRunning ==
  /\ pc = "retry"
  /\ pc' = IF desired /\ running THEN "starting" ELSE "select"
  /\ UNCHANGED <<stateVars, seen, frame, offlineTicks, errorTicks, delay, ghostVars>>

\* retry_sync_permit: no permit after a pause or a logout.
RetryPermit ==
  /\ pc = "retry"
  /\ pc' = IF desired THEN "starting" ELSE "select"
  /\ UNCHANGED <<stateVars, seen, frame, offlineTicks, errorTicks, delay, ghostVars>>

\* start_sync_if_permitted returns: discarded, started, or failed; a failure
\* is only logged.
StartReturns ==
  /\ pc = "starting" /\ pc' = "select"
  /\ \/ ~desired /\ UNCHANGED <<syncState, dirty, running, completed>>
     \/ desired /\ running' = TRUE /\ SetSyncState("Scanning")
     \/ desired /\ running' = FALSE /\ UNCHANGED <<syncState, dirty, completed>>
  /\ UNCHANGED <<desired, seen, frame, offlineTicks, errorTicks, delay, gap, strikes>>

-----------------------------------------------------------------------------
Environment == CliReports \/ Notify \/ CliExits \/ Pause \/ Resume
Next == See \/ Tick \/ RetryPermit \/ StartReturns \/ Environment

\* select! picks among the ready branches at random; starts return
\* (StartSettles of CliManager).
Fairness == SF_vars(See) /\ SF_vars(Tick) /\ WF_vars(RetryPermit \/ StartReturns)

Spec == Init /\ [][Next]_vars /\ Fairness
-----------------------------------------------------------------------------
\* The delay is at least what the attempts make it, and the ticks that count
\* towards it have passed since the last of them.
WaitKept ==
  /\ Wait(strikes) <= delay
  /\ errorTicks < TicksPerSecond * delay /\ errorTicks <= gap

LoopInv == TypeOK /\ WaitKept

\* lib.rs:258-262: a CLI that keeps failing without completing a cycle waits
\* longer from attempt to attempt, up to the limit, whatever states the loop
\* sees in between, offline retries included.
BackOffHolds ==
  [][pc = "select" /\ pc' = "retry" /\ seen = "Error" =>
       gap + 1 >= TicksPerSecond * Wait(strikes)]_vars

\* An Offline or Error that lasts while the user wants the sync is answered
\* by an attempt to start the CLI, however often other news arrive.
FailureRetried ==
  \A state \in {"Offline", "Error"} :
    syncState = state /\ desired ~> pc = "starting" \/ syncState # state \/ ~desired

\* lib.rs:262, "Reset happens when a sync cycle completes (Synced)": the first
\* attempt after a completed cycle comes at the minimum delay.
\* The code does not keep it (README, Other disagreements).
ResetAfterSync ==
  [][pc = "select" /\ pc' = "retry" /\ seen = "Error" /\ completed =>
       delay = MinDelay]_vars
=============================================================================
