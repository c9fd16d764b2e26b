------------------------- MODULE StatusLoop_proofs -------------------------
(***************************************************************************)
(* The back-off of the status loop, for any delays and any number of       *)
(* failures.                                                               *)
(***************************************************************************)
EXTENDS StatusLoop, TLAPS

\* The step formula of BackOffHolds.
BackOffStep ==
  pc = "select" /\ pc' = "retry" /\ seen = "Error" =>
    gap + 1 >= TicksPerSecond * Wait(strikes)

LEMMA Delays ==
  /\ OfflineTicks \in Nat /\ OfflineTicks > 0 /\ TicksPerSecond \in Nat /\ TicksPerSecond > 0
  /\ MinDelay \in Nat /\ MinDelay > 0 /\ MaxDelay \in Nat /\ MinDelay <= MaxDelay
  BY DelayAssumption

LEMMA LowerFacts ==
  ASSUME NEW a \in Nat, NEW b \in Nat
  PROVE  Lower(a, b) \in Nat /\ Lower(a, b) <= a /\ Lower(a, b) <= b
  BY DEF Lower

\* A product grows with its factor.
LEMMA Grows ==
  ASSUME NEW n \in Nat, NEW a \in Nat, NEW b \in Nat, a <= b
  PROVE  n * a \in Nat /\ n * b \in Nat /\ n * a <= n * b
  OBVIOUS

LEMMA Positive ==
  ASSUME NEW a \in Nat, NEW b \in Nat, a > 0, b > 0
  PROVE  a * b \in Nat /\ a * b > 0
  OBVIOUS

LEMMA PowersOfTwo ==
  /\ 2^0 = 1
  /\ \A n \in 0..5 : 2^n \in Nat /\ 2^(n + 1) \in Nat /\ 2^(n + 1) = 2 * 2^n
<1>1. 2^0 = 1 /\ 2^1 = 2 /\ 2^2 = 4 /\ 2^3 = 8 /\ 2^4 = 16 /\ 2^5 = 32 /\ 2^6 = 64
  OBVIOUS
<1>2. \A n \in 0..5 : n = 0 \/ n = 1 \/ n = 2 \/ n = 3 \/ n = 4 \/ n = 5
  OBVIOUS
<1>3. 0 + 1 = 1 /\ 1 + 1 = 2 /\ 2 + 1 = 3 /\ 3 + 1 = 4 /\ 4 + 1 = 5 /\ 5 + 1 = 6
  OBVIOUS
<1> QED BY <1>1, <1>2, <1>3

LEMMA StrikesBound == \A n \in Strikes : n \in 0..6
<1>1. Lower(MaxDelay, 6) \in Nat /\ Lower(MaxDelay, 6) <= 6
  BY Delays, LowerFacts
<1> QED BY <1>1 DEF Strikes

LEMMA WaitFacts ==
  ASSUME NEW n \in Strikes
  PROVE  Wait(n) \in Nat /\ Wait(n) <= MaxDelay /\ Wait(n) <= MinDelay * 2^n /\ 2^n \in Nat
<1>1. n \in 0..6
  BY StrikesBound
<1>2. 2^n \in Nat
  <2>1. CASE n \in 0..5
    BY <2>1, PowersOfTwo
  <2>2. CASE n = 6
    <3>1. 5 + 1 = 6 /\ 5 \in 0..5
      OBVIOUS
    <3> QED BY <2>2, <3>1, PowersOfTwo
  <2> QED BY <1>1, <2>1, <2>2
<1>3. MinDelay * 2^n \in Nat
  BY <1>2, Delays
<1> QED BY <1>2, <1>3, Delays, LowerFacts DEF Wait

LEMMA FirstWait == 0 \in Strikes /\ Wait(0) = MinDelay
<1>1. 0 \in Strikes
  BY Delays, LowerFacts DEF Strikes
<1>2. MinDelay * 2^0 = MinDelay
  BY PowersOfTwo, Delays
<1> QED BY <1>1, <1>2, Delays DEF Wait, Lower

\* Doubling the delay, up to the limit, keeps up with another strike.
LEMMA WaitDoubles ==
  ASSUME NEW n \in Strikes, NEW d \in Nat, Wait(n) <= d,
         NEW m \in Strikes, m = n \/ m = n + 1
  PROVE  Wait(m) <= Lower(d * 2, MaxDelay)
<1>1. /\ Wait(n) \in Nat /\ Wait(n) <= MaxDelay /\ 2^n \in Nat
      /\ Wait(m) \in Nat /\ Wait(m) <= MaxDelay /\ Wait(m) <= MinDelay * 2^m /\ 2^m \in Nat
      /\ MaxDelay \in Nat /\ MinDelay \in Nat
  BY WaitFacts, Delays
<1>2. Wait(m) <= 2 * d
  <2>1. CASE m = n
    BY <1>1, <2>1
  <2>2. CASE m = n + 1
    <3>1. n \in 0..5
      BY <2>2, StrikesBound
    <3>2. 2^m = 2 * 2^n
      BY <2>2, <3>1, PowersOfTwo
    <3>3. MinDelay * 2^m = 2 * (MinDelay * 2^n) /\ MinDelay * 2^n \in Nat
      BY <1>1, <3>2
    <3>4. CASE Wait(n) = MinDelay * 2^n
      BY <1>1, <3>3, <3>4
    <3>5. CASE Wait(n) = MaxDelay
      BY <1>1, <3>5
    <3> QED BY <3>4, <3>5 DEF Wait, Lower
  <2> QED BY <2>1, <2>2
<1> QED BY <1>1, <1>2 DEF Lower

\* The loop's counters as numbers.
LEMMA Counters ==
  ASSUME LoopInv
  PROVE  /\ delay \in Nat /\ MinDelay <= delay /\ delay <= MaxDelay /\ strikes \in Strikes
         /\ errorTicks \in Nat /\ gap \in Nat /\ TicksPerSecond * delay \in Nat
         /\ TicksPerSecond * MaxDelay \in Nat
         /\ TicksPerSecond * delay <= TicksPerSecond * MaxDelay
         /\ gap <= TicksPerSecond * MaxDelay
<1>1. /\ delay \in Nat /\ MinDelay <= delay /\ delay <= MaxDelay /\ strikes \in Strikes
  BY Delays DEF LoopInv, TypeOK
<1>2. /\ TicksPerSecond * delay \in Nat /\ TicksPerSecond * MaxDelay \in Nat
      /\ TicksPerSecond * delay <= TicksPerSecond * MaxDelay
  BY <1>1, Delays, Grows
<1>3. errorTicks \in Nat /\ gap \in Nat /\ gap <= TicksPerSecond * MaxDelay
  BY <1>2 DEF LoopInv, TypeOK
<1> QED BY <1>1, <1>2, <1>3

\* What else the type invariant says.
StateTypes ==
  /\ syncState \in SyncStates /\ seen \in SyncStates
  /\ {dirty, desired, running, completed} \subseteq BOOLEAN
  /\ pc \in {"select", "retry", "starting"}
  /\ frame \in 0..(Frames - 1) /\ offlineTicks \in 0..(OfflineTicks - 1)

LEMMA CountersKept ==
  ASSUME StateTypes', strikes' \in Strikes, delay' \in MinDelay..MaxDelay, gap' \in Nat,
         gap' <= TicksPerSecond * MaxDelay, errorTicks' \in Nat, WaitKept'
  PROVE  LoopInv'
<1>1. delay' \in Nat /\ delay' <= MaxDelay
  BY Delays
<1>2. TicksPerSecond * delay' \in Nat /\ TicksPerSecond * MaxDelay \in Nat
      /\ TicksPerSecond * delay' <= TicksPerSecond * MaxDelay
  BY <1>1, Delays, Grows
<1>3. errorTicks' \in 0..(TicksPerSecond * MaxDelay - 1) /\ gap' \in 0..(TicksPerSecond * MaxDelay)
  BY <1>2 DEF WaitKept
<1> QED BY <1>3 DEF LoopInv, TypeOK, StateTypes

LEMMA InitKept == Init => LoopInv
<1> SUFFICES ASSUME Init PROVE LoopInv
  OBVIOUS
<1>1. /\ 0 \in 0..(Frames - 1) /\ 0 \in 0..(OfflineTicks - 1) /\ MinDelay \in MinDelay..MaxDelay
  BY Delays DEF Frames
<1>2. TicksPerSecond * MinDelay \in Nat /\ TicksPerSecond * MinDelay > 0
      /\ TicksPerSecond * MaxDelay \in Nat /\ TicksPerSecond * MaxDelay > 0
  BY Delays, Positive
<1>3. TypeOK
  <2>1. 0 \in 0..(TicksPerSecond * MaxDelay - 1) /\ 0 \in 0..(TicksPerSecond * MaxDelay)
    BY <1>2
  <2> QED BY <1>1, <2>1, FirstWait DEF Init, TypeOK, SyncStates
<1>4. WaitKept
  BY <1>2, FirstWait, Delays DEF Init, WaitKept
<1> QED BY <1>3, <1>4 DEF LoopInv

LEMMA SeeKeeps ==
  ASSUME LoopInv, See
  PROVE  LoopInv'
<1>1. StateTypes'
  <2>1. offlineTicks' \in 0..(OfflineTicks - 1)
    BY Delays DEF LoopInv, TypeOK, See
  <2>2. UNCHANGED <<syncState, desired, running, pc, frame, completed>>
        /\ seen' = syncState /\ dirty' = FALSE
    BY DEF See
  <2> QED BY <2>1, <2>2 DEF LoopInv, TypeOK, StateTypes
<1>2. CASE syncState = "Synced"
  <2>1. delay' = MinDelay /\ strikes' = 0 /\ errorTicks' = 0 /\ gap' = gap
    BY <1>2 DEF See
  <2>2. TicksPerSecond * MinDelay \in Nat /\ TicksPerSecond * MinDelay > 0
    BY Delays, Positive
  <2>3. WaitKept'
    BY <2>1, <2>2, FirstWait, Delays, Counters DEF WaitKept
  <2>4. delay' \in MinDelay..MaxDelay
    BY <2>1, Delays
  <2> QED BY <1>1, <2>1, <2>3, <2>4, FirstWait, Counters, CountersKept
<1>3. CASE syncState # "Synced"
  <2>1. delay' = delay /\ strikes' = strikes /\ gap' = gap
        /\ (errorTicks' = errorTicks \/ errorTicks' = 0)
    BY <1>3 DEF See
  <2>2. TicksPerSecond * delay > 0
    BY Counters DEF LoopInv, WaitKept
  <2>3. WaitKept'
    BY <2>1, <2>2, Counters DEF LoopInv, WaitKept
  <2>4. delay' \in MinDelay..MaxDelay
    BY <2>1, Delays, Counters
  <2> QED BY <1>1, <2>1, <2>3, <2>4, Counters, CountersKept
<1> QED BY <1>2, <1>3

\* The count of the ticks towards the delay, or the attempt it ends in.
LEMMA TickKeeps ==
  ASSUME LoopInv, Tick
  PROVE  LoopInv'
<1>1. StateTypes'
  <2>1. frame' \in 0..(Frames - 1)
    BY DEF LoopInv, TypeOK, Tick, Frames
  <2>2. offlineTicks' \in 0..(OfflineTicks - 1)
    BY Delays DEF LoopInv, TypeOK, Tick, CountOffline, OfflineDue
  <2>3. {dirty', desired', running', completed'} \subseteq BOOLEAN
    BY DEF LoopInv, TypeOK, Tick, CountError, stateVars
  <2>4. syncState' = syncState /\ seen' = seen /\ pc' \in {"select", "retry"}
    BY DEF Tick, stateVars
  <2> QED BY <2>1, <2>2, <2>3, <2>4 DEF LoopInv, TypeOK, StateTypes
<1>2. CASE ErrorDue
  <2>1. /\ errorTicks' = 0 /\ delay' = Lower(delay * 2, MaxDelay) /\ gap' = 0
        /\ strikes' \in Strikes /\ (strikes' = strikes \/ strikes' = strikes + 1)
    BY <1>2, Counters DEF Tick, CountError
  <2>2. delay' \in MinDelay..MaxDelay
    BY <2>1, Counters, Delays DEF Lower
  <2>3. Wait(strikes') <= delay'
    BY <2>1, Counters, WaitDoubles DEF LoopInv, WaitKept
  <2>4. TicksPerSecond * delay' > 0
    <3>1. delay' \in Nat /\ delay' > 0
      BY <2>2, Delays
    <3> QED BY <3>1, Delays, Positive
  <2>5. WaitKept'
    BY <2>1, <2>3, <2>4 DEF WaitKept
  <2> QED BY <1>1, <2>1, <2>2, <2>5, Counters, CountersKept
<1>3. CASE ~ErrorDue
  <2>1. /\ delay' = delay /\ strikes' = strikes /\ gap' = Lower(gap + 1, TicksPerSecond * MaxDelay)
        /\ errorTicks' = IF seen = "Error" THEN errorTicks + 1 ELSE errorTicks
    BY <1>3 DEF Tick, CountError
  <2>2. errorTicks' \in Nat /\ errorTicks' < TicksPerSecond * delay /\ errorTicks' <= gap + 1
    BY <1>3, <2>1, Counters DEF ErrorDue, LoopInv, WaitKept
  <2>3. gap' \in Nat /\ gap' <= TicksPerSecond * MaxDelay /\ errorTicks' <= gap'
    BY <2>1, <2>2, Counters DEF Lower
  <2>4. WaitKept'
    BY <2>1, <2>2, <2>3 DEF LoopInv, WaitKept
  <2>5. delay' \in MinDelay..MaxDelay
    BY <2>1, Counters, Delays
  <2> QED BY <1>1, <2>1, <2>2, <2>3, <2>4, <2>5, Counters, CountersKept
<1> QED BY <1>2, <1>3

\* Every other step leaves the counters as they are.
LEMMA OtherKeeps ==
  ASSUME LoopInv, Environment \/ RetryPermit \/ StartReturns \/ UNCHANGED vars
  PROVE  LoopInv'
<1>1. StateTypes'
  BY DEF LoopInv, TypeOK, StateTypes, SyncStates, Environment, CliReports, Notify, CliExits, Pause,
     Resume, SetSyncState, RetryPermit, StartReturns, loopVars, stateVars, ghostVars, vars
<1>2. UNCHANGED <<delay, strikes, gap, errorTicks>>
  BY DEF Environment, CliReports, Notify, CliExits, Pause, Resume, RetryPermit, StartReturns,
     loopVars, ghostVars, vars
<1>3. WaitKept' /\ delay' \in MinDelay..MaxDelay
  BY <1>2, Counters, Delays DEF LoopInv, WaitKept
<1> QED BY <1>1, <1>2, <1>3, Counters, CountersKept

LEMMA NextKeeps == LoopInv /\ [Next]_vars => LoopInv'
  BY SeeKeeps, TickKeeps, OtherKeeps DEF Next

LEMMA BackOff ==
  ASSUME LoopInv, [Next]_vars
  PROVE  [BackOffStep]_vars
<1> SUFFICES ASSUME Next, pc = "select", pc' = "retry", seen = "Error"
             PROVE  gap + 1 >= TicksPerSecond * Wait(strikes)
  BY DEF BackOffStep
<1>1. Tick
  BY DEF Next, See, Environment, CliReports, Notify, CliExits, Pause, Resume, RetryPermit,
     StartReturns, loopVars
<1>2. ErrorDue
  BY <1>1 DEF Tick, OfflineDue
<1>3. errorTicks + 1 >= TicksPerSecond * delay /\ errorTicks <= gap /\ Wait(strikes) <= delay
  BY <1>2 DEF ErrorDue, LoopInv, WaitKept
<1>4. TicksPerSecond * Wait(strikes) <= TicksPerSecond * delay
      /\ TicksPerSecond * Wait(strikes) \in Nat
  BY <1>3, Counters, WaitFacts, Delays, Grows
<1> QED BY <1>3, <1>4, Counters

\* lib.rs: the counters of the loop stay within their bounds and the delay
\* keeps up with the failures, for any delays and any number of failures.
THEOREM DelayBounded == Spec => []LoopInv
  BY InitKept, NextKeeps, PTL DEF Spec

\* lib.rs:258-262: however often the CLI fails, whatever the loop sees in
\* between, and whatever the delays, an attempt after an Error waits as long
\* as the failures since the last completed cycle make it.
THEOREM FailuresBackOff == Spec => BackOffHolds
<1>1. [][BackOffStep]_vars <=> BackOffHolds
  BY PTL DEF BackOffStep, BackOffHolds
<1> QED BY <1>1, InitKept, NextKeeps, BackOff, PTL DEF Spec
=============================================================================
