------------------------ MODULE LoginManager_proofs ------------------------
(***************************************************************************)
(* Safety of LoginManager for any number of calls, windows and closes, with *)
(* or without a Quit.                                                      *)
(***************************************************************************)
EXTENDS LoginManager, TLAPS

\* What a step preserves together: neither part is inductive alone.
IInv == LoginInv /\ UncancelledIsCurrent

(* A call is neither of the two that cancel from outside.                   *)
LEMMA ActorsApart ==
  /\ Window \in Cancellers /\ Window \in Actors /\ Window # Quit
  /\ \A c \in Calls : c \in Actors /\ c \notin Cancellers /\ c # None
  /\ Cancellers \subseteq Actors
  /\ \A a \in Actors : a \in Calls \/ a \in Cancellers
  BY LoginAssumption DEF Calls, Window, Quit, Cancellers, Actors, None

LEMMA InitInv == Init => IInv
<1> SUFFICES ASSUME Init PROVE IInv
  OBVIOUS
<1> USE LoginAssumption, ActorsApart DEF Init
<1>1. TypeOK
  <2>1. NoCli \in LoginProcess
    BY DEF NoCli, LoginProcess
  <2>2. login \in [Calls -> LoginSession]
    BY DEF LoginSession
  <2>3. worker \in [Calls -> WorkerSteps] /\ pc \in [Actors -> CallSteps]
    BY DEF WorkerSteps, CallSteps
  <2> QED BY <2>1, <2>2, <2>3 DEF TypeOK
<1>2. ChildOwned
  BY DEF ChildOwned, NoCli
<1>3. SessionsHeld
  BY DEF SessionsHeld
<1>4. LastWord
  BY DEF LastWord
<1>5. ClearedIsOver /\ UncancelledIsCurrent
  BY DEF ClearedIsOver, UncancelledIsCurrent, Active
<1> QED BY <1>1, <1>2, <1>3, <1>4, <1>5 DEF IInv, LoginInv

-----------------------------------------------------------------------------
(* Types.  Two of them need more than the types: the verdict a worker reports
   is an outcome, and a cancel of the window's has a close to its name.     *)

(* What the steps put into a session's channels fits them.                  *)
LEMMA ChannelTypes ==
  ASSUME TypeOK, NEW s \in Calls
  PROVE  /\ \A i \in Inputs : Append(login[s].inbox, i) \in Seq(Inputs)
         /\ \A o \in Outcomes : Append(login[s].events, o) \in Seq(Outcomes)
         /\ login[s].inbox # <<>> =>
              Head(login[s].inbox) \in Inputs /\ Tail(login[s].inbox) \in Seq(Inputs)
         /\ login[s].events # <<>> =>
              Head(login[s].events) \in Outcomes /\ Tail(login[s].events) \in Seq(Outcomes)
<1>1. login[s].inbox \in Seq(Inputs) /\ login[s].events \in Seq(Outcomes)
  BY DEF TypeOK, LoginSession
<1> QED BY <1>1

LEMMA UserStepType == ASSUME IInv, UserStep PROVE TypeOK'
<1> USE LoginAssumption
    DEF IInv, LoginInv, TypeOK, callVars, sessionVars, windowVars, Goto
<1>1. CASE OpenWindow
  BY <1>1 DEF OpenWindow
<1>2. CASE CloseWindow
  BY <1>2 DEF CloseWindow
<1>3. ASSUME NEW c \in Calls, Invoke(c) PROVE TypeOK'
  BY <1>3 DEF Invoke, CallSteps
<1> QED BY <1>1, <1>2, <1>3 DEF UserStep

LEMMA CancelStepType == ASSUME IInv, NEW a \in Actors, CancelStep(a) PROVE TypeOK'
<1> USE ActorsApart DEF callVars, sessionVars, windowVars, Goto
<1>0. TypeOK /\ SessionsHeld /\ login \in [Calls -> LoginSession] /\ cli \in [Calls -> LoginProcess]
  BY DEF IInv, LoginInv, TypeOK
<1>1. CASE Cancel(a)
  BY <1>0, <1>1 DEF Cancel, CallSteps, TypeOK
<1>2. CASE CancelMark(a)
  <2> DEFINE s == target[a]
             inbox == IF worker[s] = "gone" THEN login[s].inbox
                                            ELSE Append(login[s].inbox, "cancel")
  <2>1. s \in Calls
    BY <1>0, <1>2 DEF CancelMark, TypeOK, SessionsHeld
  <2>2. inbox \in Seq(Inputs)
    BY <1>0, <2>1, ChannelTypes DEF Inputs, LoginSession
  <2>3. login' = [login EXCEPT ![s].cancelled = TRUE, ![s].inbox = inbox]
    BY <1>2 DEF CancelMark
  <2> HIDE DEF inbox, s
  <2>4. login' \in [Calls -> LoginSession]
    BY <1>0, <2>1, <2>2, <2>3 DEF LoginSession
  <2> QED BY <1>0, <1>2, <2>4 DEF CancelMark, CallSteps, TypeOK
<1>3. CASE CancelKill(a)
  <2> DEFINE s == target[a]
  <2>1. s \in Calls
    BY <1>0, <1>3 DEF CancelKill, TypeOK, SessionsHeld
  <2>2. UNCHANGED cli \/ KillChild(s)
    BY <1>3 DEF CancelKill
  <2> HIDE DEF s
  <2>3. cli' \in [Calls -> LoginProcess]
    BY <1>0, <2>1, <2>2 DEF KillChild, LoginProcess
  <2>4. pc' \in [Actors -> CallSteps]
    BY <1>0, <1>3 DEF CancelKill, CallSteps, TypeOK
  <2>5. target' \in [Actors -> Calls \cup {None}]
    BY <1>0, <1>3 DEF CancelKill, TypeOK
  <2>6. closing' \in 0..2 /\ window' \in {"closed", "open", "closing"}
    BY <1>0, <1>3 DEF CancelKill, TypeOK, SessionsHeld
  <2> QED BY <1>0, <1>3, <2>3, <2>4, <2>5, <2>6 DEF CancelKill, TypeOK
<1> QED BY <1>1, <1>2, <1>3 DEF CancelStep

LEMMA CallStepType == ASSUME IInv, NEW c \in Calls, CallStep(c) PROVE TypeOK'
<1> USE ActorsApart DEF callVars, sessionVars, windowVars, Goto, Answer
<1>0. TypeOK /\ SessionsHeld /\ login \in [Calls -> LoginSession]
  BY DEF IInv, LoginInv, TypeOK
<1>1. CASE MissingFields(c) \/ StartCheck(c)
  BY <1>0, <1>1 DEF MissingFields, StartCheck, CallSteps, Outcomes, Terminal, TypeOK
<1>2. CASE StartClaim(c)
  <2>1. worker' \in [Calls -> WorkerSteps]
    BY <1>0, <1>2 DEF StartClaim, Install, WorkerSteps, TypeOK
  <2>2. pc' \in [Actors -> CallSteps] /\ answer' \in [Calls -> Outcomes \cup {"none"}]
    BY <1>0, <1>2 DEF StartClaim, Install, CallSteps, Outcomes, Terminal, TypeOK
  <2> QED BY <1>0, <1>2, <2>1, <2>2 DEF StartClaim, Install, TypeOK
<1>3. CASE SubmitLookup(c)
  BY <1>0, <1>3 DEF SubmitLookup, CallSteps, Outcomes, Terminal, TypeOK
<1>4. CASE SubmitSend(c)
  <2> DEFINE s == target[c]
             inbox == Append(login[s].inbox, "code")
  <2>1. s \in Calls
    BY <1>0, <1>4 DEF SubmitSend, SessionsHeld, TypeOK
  <2>2. inbox \in Seq(Inputs)
    BY <1>0, <2>1, ChannelTypes DEF Inputs
  <2>3. UNCHANGED login \/ login' = [login EXCEPT ![s].inbox = inbox]
    BY <1>4 DEF SubmitSend
  <2> HIDE DEF inbox, s
  <2>4. login' \in [Calls -> LoginSession]
    BY <1>0, <2>1, <2>2, <2>3 DEF LoginSession
  <2> QED BY <1>0, <1>4, <2>4 DEF SubmitSend, CallSteps, Outcomes, Terminal, TypeOK
<1>5. CASE WaitLock(c) \/ TimeOut(c) \/ Clear(c)
  BY <1>0, <1>5 DEF WaitLock, TimeOut, Clear, CallSteps, Outcomes, Terminal, TypeOK
<1>6. CASE Receive(c)
  <2> DEFINE s == target[c]
             outcome == IF login[s].events = <<>> THEN "failed" ELSE Head(login[s].events)
             events == IF login[s].events = <<>> THEN login[s].events
                                                 ELSE Tail(login[s].events)
  <2>1. s \in Calls
    BY <1>0, <1>6 DEF Receive, SessionsHeld, TypeOK
  <2>2. outcome \in Outcomes /\ events \in Seq(Outcomes)
    BY <1>0, <2>1, ChannelTypes DEF Outcomes, Terminal, LoginSession
  <2>3. login' = [login EXCEPT ![s].events = events]
    BY <1>6 DEF Receive
  <2>4. answer' = [answer EXCEPT ![c] = outcome] /\ pc' \in [Actors -> CallSteps]
    BY <1>0, <1>6 DEF Receive, CallSteps, TypeOK
  <2> HIDE DEF events, outcome, s
  <2>5. login' \in [Calls -> LoginSession]
    BY <1>0, <2>1, <2>2, <2>3 DEF LoginSession
  <2> QED BY <1>0, <1>6, <2>2, <2>4, <2>5 DEF Receive, TypeOK
<1>7. CASE ReportAnswer(c)
  <2>1. completed' \subseteq Calls
    BY <1>0, <1>7 DEF ReportAnswer, SessionsHeld, TypeOK
  <2>2. page' \in {"form", "code", "done"} /\ pending' \in Calls \cup {None}
    <3>1. CASE pending # c
      BY <1>0, <1>7, <3>1 DEF ReportAnswer, TypeOK
    <3>2. CASE pending = c
      <4>1. page' \in {"code", "done", page}
        BY <1>7, <3>2 DEF ReportAnswer
      <4> QED BY <1>0, <1>7, <3>2, <4>1 DEF ReportAnswer, TypeOK
    <3> QED BY <3>1, <3>2
  <2> QED BY <1>0, <1>7, <2>1, <2>2 DEF ReportAnswer, CallSteps, TypeOK
<1>8. CASE CancelStep(c)
  BY <1>8, CancelStepType
<1> QED BY <1>1, <1>2, <1>3, <1>4, <1>5, <1>6, <1>7, <1>8 DEF CallStep

LEMMA WorkerStepType == ASSUME IInv, NEW s \in Calls, WorkerStep(s) PROVE TypeOK'
<1> USE DEF callVars, sessionVars, windowVars, WorkerTo, Conclude
<1>0. /\ TypeOK /\ LastWord
      /\ login \in [Calls -> LoginSession] /\ cli \in [Calls -> LoginProcess]
  BY DEF IInv, LoginInv, TypeOK
<1>1. CASE WorkerOpen(s)
  <2>1. cli' \in [Calls -> LoginProcess]
    BY <1>0, <1>1 DEF WorkerOpen, LoginProcess
  <2> QED BY <1>0, <1>1, <2>1 DEF WorkerOpen, WorkerSteps, Outcomes, Terminal, TypeOK
<1>2. CASE WorkerArm(s)
  <2>1. login' \in [Calls -> LoginSession]
    BY <1>0, <1>2 DEF WorkerArm, LoginSession
  <2> QED BY <1>0, <1>2, <2>1 DEF WorkerArm, WorkerSteps, TypeOK
<1>3. CASE WorkerCheck(s)
  BY <1>0, <1>3 DEF WorkerCheck, WorkerSteps, Outcomes, Terminal, TypeOK
<1>4. CASE WorkerRead(s)
  <2>1. cli' \in [Calls -> LoginProcess]
    BY <1>0, <1>4 DEF WorkerRead, ReadPrompt, ReadVerdict, ReadEnd, LoginProcess
  <2>2. worker' \in [Calls -> WorkerSteps] /\ verdict' \in [Calls -> Outcomes \cup {"none"}]
    BY <1>0, <1>4
    DEF WorkerRead, ReadPrompt, ReadVerdict, ReadEnd, WorkerSteps, Outcomes, Terminal, TypeOK
  <2> DEFINE events == Append(login[s].events, "needsTwoFactor")
  <2>3. events \in Seq(Outcomes)
    BY <1>0, ChannelTypes DEF Outcomes
  <2>4. UNCHANGED login \/ login' = [login EXCEPT ![s].events = events]
    BY <1>4 DEF WorkerRead, ReadPrompt, ReadVerdict, ReadEnd
  <2> HIDE DEF events
  <2>5. login' \in [Calls -> LoginSession]
    BY <1>0, <2>3, <2>4 DEF LoginSession
  <2> QED BY <1>0, <1>4, <2>1, <2>2, <2>5 DEF WorkerRead, TypeOK
<1>5. CASE WorkerTwoFactor(s)
  <2> DEFINE inbox == Tail(login[s].inbox)
             cancelled == login[s].cancelled \/ Head(login[s].inbox) = "cancel"
  <2>1. login' = [login EXCEPT ![s].inbox = inbox, ![s].cancelled = cancelled]
    BY <1>5 DEF WorkerTwoFactor
  <2>2. inbox \in Seq(Inputs) /\ cancelled \in BOOLEAN
    BY <1>0, <1>5, ChannelTypes DEF WorkerTwoFactor, LoginSession
  <2>3. cli' \in [Calls -> LoginProcess]
    BY <1>0, <1>5 DEF WorkerTwoFactor, WriteInput, LoginProcess
  <2>4. worker' \in [Calls -> WorkerSteps] /\ verdict' \in [Calls -> Outcomes \cup {"none"}]
    BY <1>0, <1>5 DEF WorkerTwoFactor, WriteInput, WorkerSteps, Outcomes, Terminal, TypeOK
  <2> HIDE DEF inbox, cancelled
  <2>5. login' \in [Calls -> LoginSession]
    BY <1>0, <2>1, <2>2 DEF LoginSession
  <2> QED BY <1>0, <1>5, <2>3, <2>4, <2>5 DEF WorkerTwoFactor, TypeOK
<1>6. CASE WorkerStop(s)
  <2>1. login' \in [Calls -> LoginSession]
    BY <1>0, <1>6 DEF WorkerStop, LoginSession
  <2>2. cli' \in [Calls -> LoginProcess]
    BY <1>0, <1>6 DEF WorkerStop, KillChild, LoginProcess
  <2> QED BY <1>0, <1>6, <2>1, <2>2 DEF WorkerStop, WorkerSteps, TypeOK
<1>7. CASE WorkerReport(s)
  <2> DEFINE events == Append(login[s].events, verdict[s])
  <2>1. events \in Seq(Outcomes)
    BY <1>0, <1>7, ChannelTypes DEF WorkerReport, LastWord, Outcomes, Terminal
  <2>2. login' = [login EXCEPT ![s].events = events]
    BY <1>7 DEF WorkerReport
  <2> HIDE DEF events
  <2>3. login' \in [Calls -> LoginSession]
    BY <1>0, <2>1, <2>2 DEF LoginSession
  <2> QED BY <1>0, <1>7, <2>3 DEF WorkerReport, WorkerSteps, TypeOK
<1>8. CASE WorkerReturn(s)
  <2>1. login' \in [Calls -> LoginSession]
    <3>1. <<>> \in Seq(Inputs)
      OBVIOUS
    <3> QED BY <1>0, <1>8, <3>1 DEF WorkerReturn, LoginSession
  <2>2. cli' \in [Calls -> LoginProcess]
    BY <1>0, <1>8 DEF WorkerReturn, NoCli, LoginProcess
  <2> QED BY <1>0, <1>8, <2>1, <2>2 DEF WorkerReturn, WorkerSteps, TypeOK
<1> QED BY <1>1, <1>2, <1>3, <1>4, <1>5, <1>6, <1>7, <1>8 DEF WorkerStep

LEMMA CliStepType == ASSUME IInv, NEW s \in Calls, CliStep(s) PROVE TypeOK'
<1> USE DEF callVars, sessionVars, windowVars
<1>0. TypeOK /\ cli \in [Calls -> LoginProcess]
  BY DEF IInv, LoginInv, TypeOK
<1>1. cli' \in [Calls -> LoginProcess]
  BY <1>0 DEF CliStep, CliPrint, CliDie, KillChild, LoginProcess
<1> QED BY <1>0, <1>1 DEF CliStep, CliPrint, CliDie, TypeOK

-----------------------------------------------------------------------------
(* The other conjuncts, action by action.                                   *)

LEMMA UserStepInv == ASSUME IInv, UserStep PROVE IInv'
<1> USE ActorsApart DEF callVars, sessionVars, Goto
<1>0. /\ TypeOK /\ ChildOwned /\ SessionsHeld /\ LastWord /\ ClearedIsOver
      /\ UncancelledIsCurrent
  BY DEF IInv, LoginInv
<1>1. /\ UNCHANGED <<current, target, answer, sessionVars>>
      /\ closing' \in {closing, 2}
      /\ \A a \in Actors :
           \/ pc'[a] = pc[a]
           \/ pc[a] = "idle" /\ pc'[a] \in {"start", "submit"}
  BY <1>0 DEF UserStep, OpenWindow, CloseWindow, Invoke, TypeOK
<1>2. ChildOwned' /\ LastWord'
  BY <1>0, <1>1 DEF ChildOwned, LastWord
<1>3. SessionsHeld'
  BY <1>0, <1>1 DEF SessionsHeld
<1>4. ClearedIsOver' /\ UncancelledIsCurrent'
  BY <1>0, <1>1 DEF ClearedIsOver, UncancelledIsCurrent, Active
<1> QED BY <1>2, <1>3, <1>4, UserStepType DEF IInv, LoginInv

LEMMA CancelStepInv == ASSUME IInv, NEW a \in Actors, CancelStep(a) PROVE IInv'
<1> USE ActorsApart DEF callVars, sessionVars, windowVars, Goto
<1>0. /\ TypeOK /\ ChildOwned /\ SessionsHeld /\ LastWord /\ ClearedIsOver
      /\ UncancelledIsCurrent
  BY DEF IInv, LoginInv
<1>1. CASE Cancel(a)
  <2>1. /\ current' = None /\ UNCHANGED <<answer, sessionVars>>
        /\ target' = [target EXCEPT ![a] = current]
        /\ a \in Cancellers /\ pc[a] = "idle"
        /\ \A b \in Actors : b # a => pc'[b] = pc[b]
        /\ \/ pc'[a] = "mark" /\ current # None
           \/ pc'[a] \in {"idle", "answered"}
    BY <1>0, <1>1 DEF Cancel, TypeOK
  <2>2. ChildOwned' /\ LastWord'
    BY <1>0, <2>1 DEF ChildOwned, LastWord
  <2>3. pc'[Window] \in {"mark", "kill"} => closing' > 0
    BY <1>0, <1>1 DEF Cancel, TypeOK, SessionsHeld
  <2>4. SessionsHeld'
    BY <1>0, <2>1, <2>3 DEF SessionsHeld, TypeOK
  <2>5. ClearedIsOver'
    BY <1>0, <2>1 DEF ClearedIsOver, Active, TypeOK
  <2>6. UncancelledIsCurrent'
    <3> SUFFICES ASSUME NEW s \in Calls, Active(s), ~login[s].cancelled
                 PROVE  \E b \in Actors : pc'[b] = "mark" /\ target'[b] = s
      BY <2>1 DEF UncancelledIsCurrent, Active
    <3>1. CASE current = s
      <4>1. pc'[a] = "mark" /\ target'[a] = s
        BY <1>0, <1>1, <3>1 DEF Cancel, TypeOK
      <4> QED BY <4>1
    <3>2. ASSUME NEW b \in Actors, pc[b] = "mark", target[b] = s
          PROVE  pc'[b] = "mark" /\ target'[b] = s
      BY <1>0, <2>1, <3>2 DEF TypeOK
    <3> QED BY <1>0, <3>1, <3>2 DEF UncancelledIsCurrent
  <2> QED BY <2>2, <2>4, <2>5, <2>6, CancelStepType DEF IInv, LoginInv
<1>2. CASE CancelMark(a)
  <2>1. /\ pc[a] = "mark" /\ pc' = [pc EXCEPT ![a] = "kill"] /\ target[a] \in Calls
        /\ UNCHANGED <<current, target, answer, worker, verdict, cli, closing>>
    BY <1>0, <1>2 DEF CancelMark, SessionsHeld, TypeOK
  <2>2. \A s \in Calls : /\ login'[s].events = login[s].events
                         /\ s = target[a] => login'[s].cancelled
                         /\ s # target[a] => login'[s].cancelled = login[s].cancelled
    <3> DEFINE t == target[a]
               inbox == IF worker[t] = "gone" THEN login[t].inbox
                                              ELSE Append(login[t].inbox, "cancel")
    <3>1. t \in Calls /\ login \in [Calls -> LoginSession]
      BY <1>0, <2>1 DEF TypeOK
    <3>2. login' = [login EXCEPT ![t].cancelled = TRUE, ![t].inbox = inbox]
      BY <1>2 DEF CancelMark
    <3> HIDE DEF inbox, t
    <3>3. /\ login'[t].events = login[t].events /\ login'[t].cancelled
          /\ \A s \in Calls : s # t => login'[s] = login[s]
      BY <3>1, <3>2 DEF LoginSession
    <3> QED BY <3>3 DEF t
  <2>3. ChildOwned' /\ LastWord'
    BY <1>0, <2>1, <2>2 DEF ChildOwned, LastWord
  <2>4. SessionsHeld'
    BY <1>0, <2>1 DEF SessionsHeld, TypeOK
  <2>5. ClearedIsOver'
    BY <1>0, <2>1, <2>2 DEF ClearedIsOver, SessionsHeld, Active, TypeOK
  <2>6. UncancelledIsCurrent'
    BY <1>0, <2>1, <2>2 DEF UncancelledIsCurrent, Active, TypeOK
  <2> QED BY <2>3, <2>4, <2>5, <2>6, CancelStepType DEF IInv, LoginInv
<1>3. CASE CancelKill(a)
  <2>1. /\ pc[a] = "kill" /\ target[a] \in Calls /\ login[target[a]].cancelled
        /\ UNCHANGED <<current, answer, login, worker, verdict>>
    BY <1>0, <1>3 DEF CancelKill, SessionsHeld, ClearedIsOver, TypeOK
  <2>2. /\ \A b \in Actors : b # a => pc'[b] = pc[b] /\ target'[b] = target[b]
        /\ a \in Calls => pc'[a] = "clear" /\ target'[a] = target[a]
        /\ a \notin Calls => pc'[a] \in {"idle", "answered"} /\ target'[a] = None
    BY <1>0, <1>3 DEF CancelKill, TypeOK
  <2>3. \A s \in Calls : cli'[s].child = cli[s].child \/ cli'[s].child = "dead"
    <3>1. cli \in [Calls -> LoginProcess] /\ (UNCHANGED cli \/ KillChild(target[a]))
      BY <1>0, <1>3 DEF TypeOK, CancelKill
    <3> QED BY <2>1, <3>1 DEF KillChild, LoginProcess
  <2>4. ChildOwned' /\ LastWord'
    BY <1>0, <2>1, <2>3 DEF ChildOwned, LastWord
  <2>5. pc'[Window] \in {"mark", "kill"} => closing' > 0
    BY <1>0, <1>3, <2>2 DEF CancelKill, TypeOK, SessionsHeld
  <2>6. SessionsHeld'
    BY <1>0, <2>1, <2>2, <2>5 DEF SessionsHeld, TypeOK
  <2>7. ClearedIsOver'
    BY <1>0, <2>1, <2>2 DEF ClearedIsOver, SessionsHeld, Active, TypeOK
  <2>8. UncancelledIsCurrent'
    BY <1>0, <2>1, <2>2 DEF UncancelledIsCurrent, Active, TypeOK
  <2> QED BY <2>4, <2>6, <2>7, <2>8, CancelStepType DEF IInv, LoginInv
<1> QED BY <1>1, <1>2, <1>3 DEF CancelStep

(* What a step of a call does not touch keeps two of the conjuncts.          *)
LEMMA CallFrame ==
  ASSUME ChildOwned, LastWord, UNCHANGED <<worker, verdict, cli>>,
         \A s \in Calls : login'[s].events = login[s].events
  PROVE  ChildOwned' /\ LastWord'
  BY DEF ChildOwned, LastWord

LEMMA CallStepInv == ASSUME IInv, NEW c \in Calls, CallStep(c) PROVE IInv'
<1> USE ActorsApart DEF callVars, sessionVars, windowVars, Goto, Answer
<1>0. /\ TypeOK /\ ChildOwned /\ SessionsHeld /\ LastWord /\ ClearedIsOver
      /\ UncancelledIsCurrent
  BY DEF IInv, LoginInv
<1>1. CASE MissingFields(c) \/ StartCheck(c) \/ WaitLock(c) \/ TimeOut(c)
  <2>1. /\ UNCHANGED <<current, target, sessionVars, closing>>
        /\ \A b \in Actors : b # c => pc'[b] = pc[b]
        /\ \/ pc[c] = "start" /\ pc'[c] \in {"report", "claim"}
           \/ pc[c] = "submit" /\ pc'[c] = "report"
           \/ pc[c] = "wait" /\ pc'[c] = "recv"
           \/ pc[c] = "recv" /\ pc'[c] = "mark"
        /\ \A d \in Calls : answer'[d] = "success" => answer[d] = "success"
    BY <1>0, <1>1 DEF MissingFields, StartCheck, WaitLock, TimeOut, TypeOK
  <2>2. ChildOwned' /\ LastWord'
    BY <1>0, <2>1, CallFrame
  <2>3. SessionsHeld'
    BY <1>0, <2>1 DEF SessionsHeld
  <2>4. ClearedIsOver' /\ UncancelledIsCurrent'
    BY <1>0, <2>1 DEF ClearedIsOver, UncancelledIsCurrent, Active
  <2> QED BY <2>2, <2>3, <2>4, CallStepType DEF IInv, LoginInv
<1>2. CASE StartClaim(c) /\ current # None
  <2>1. /\ UNCHANGED <<current, target, sessionVars, closing>>
        /\ \A b \in Actors : b # c => pc'[b] = pc[b]
        /\ pc[c] = "claim" /\ pc'[c] = "report"
        /\ \A d \in Calls : answer'[d] = "success" => answer[d] = "success"
    BY <1>0, <1>2 DEF StartClaim, TypeOK
  <2>2. ChildOwned' /\ LastWord'
    BY <1>0, <2>1, CallFrame
  <2>3. SessionsHeld'
    BY <1>0, <2>1 DEF SessionsHeld
  <2>4. ClearedIsOver' /\ UncancelledIsCurrent'
    BY <1>0, <2>1 DEF ClearedIsOver, UncancelledIsCurrent, Active
  <2> QED BY <2>2, <2>3, <2>4, CallStepType DEF IInv, LoginInv
<1>3. CASE StartClaim(c) /\ current = None
  <2>1. /\ current = None /\ current' = c
        /\ target' = [target EXCEPT ![c] = c]
        /\ UNCHANGED <<login, verdict, cli, closing>>
        /\ \A s \in Calls : s # c => worker'[s] = worker[s]
        /\ \A b \in Actors : b # c => pc'[b] = pc[b]
        /\ pc[c] = "claim" /\ worker[c] = "none"
        /\ \/ pc'[c] = "wait" /\ worker'[c] = "open"
           \/ pc'[c] = "clear" /\ worker'[c] = "none"
        /\ \A d \in Calls : answer'[d] = "success" => answer[d] = "success"
    BY <1>0, <1>3 DEF StartClaim, Install, SessionsHeld, TypeOK
  <2>2. ChildOwned'
    BY <1>0, <2>1 DEF ChildOwned
  <2>3. LastWord'
    BY <1>0, <2>1 DEF LastWord
  <2>4. SessionsHeld'
    BY <1>0, <2>1 DEF SessionsHeld, TypeOK
  <2>5. ClearedIsOver'
    BY <1>0, <2>1 DEF ClearedIsOver, SessionsHeld, Active, TypeOK
  <2>6. UncancelledIsCurrent'
    <3> SUFFICES ASSUME NEW s \in Calls, s # c, Active(s), ~login[s].cancelled
                 PROVE  \E b \in Actors : pc'[b] = "mark" /\ target'[b] = s
      BY <2>1 DEF UncancelledIsCurrent, Active
    <3>1. PICK b \in Actors : pc[b] = "mark" /\ target[b] = s
      BY <1>0, <2>1 DEF UncancelledIsCurrent
    <3>2. pc'[b] = "mark" /\ target'[b] = s
      BY <1>0, <2>1, <3>1 DEF TypeOK
    <3> QED BY <3>2
  <2> QED BY <2>2, <2>3, <2>4, <2>5, <2>6, CallStepType DEF IInv, LoginInv
<1>4. CASE SubmitLookup(c)
  <2>1. /\ UNCHANGED <<current, sessionVars, closing>> /\ pc[c] = "submit"
        /\ \A b \in Actors : b # c => pc'[b] = pc[b] /\ target'[b] = target[b]
        /\ \/ pc'[c] = "report" /\ target'[c] = target[c]
           \/ pc'[c] = "send" /\ target'[c] = current /\ current # None
        /\ \A d \in Calls : answer'[d] = "success" => answer[d] = "success"
    BY <1>0, <1>4 DEF SubmitLookup, TypeOK
  <2>2. ChildOwned' /\ LastWord'
    BY <1>0, <2>1, CallFrame
  <2>3. SessionsHeld'
    BY <1>0, <2>1 DEF SessionsHeld, TypeOK
  <2>4. ClearedIsOver' /\ UncancelledIsCurrent'
    BY <1>0, <2>1 DEF ClearedIsOver, UncancelledIsCurrent, Active
  <2> QED BY <2>2, <2>3, <2>4, CallStepType DEF IInv, LoginInv
<1>5. CASE SubmitSend(c)
  <2>1. /\ UNCHANGED <<current, target, worker, verdict, cli, closing>>
        /\ \A b \in Actors : b # c => pc'[b] = pc[b]
        /\ pc[c] = "send" /\ target[c] \in Calls
        /\ \/ pc'[c] = "wait"
           \/ pc'[c] = "clear" /\ worker[target[c]] = "gone"
        /\ \A d \in Calls : answer'[d] = "success" => answer[d] = "success"
    <3>1. pc[c] = "send" /\ target[c] \in Calls
      BY <1>0, <1>5 DEF SubmitSend, SessionsHeld, TypeOK
    <3> QED BY <1>0, <1>5, <3>1 DEF SubmitSend, TypeOK
  <2>2. \A s \in Calls : login'[s].events = login[s].events
                         /\ login'[s].cancelled = login[s].cancelled
    <3> DEFINE t == target[c]
               inbox == Append(login[t].inbox, "code")
    <3>1. t \in Calls /\ login \in [Calls -> LoginSession]
      BY <1>0, <2>1 DEF TypeOK
    <3>2. UNCHANGED login \/ login' = [login EXCEPT ![t].inbox = inbox]
      BY <1>5 DEF SubmitSend
    <3> HIDE DEF inbox, t
    <3>3. ASSUME login' = [login EXCEPT ![t].inbox = inbox]
          PROVE  /\ login'[t].events = login[t].events
                 /\ login'[t].cancelled = login[t].cancelled
                 /\ \A s \in Calls : s # t => login'[s] = login[s]
      BY <3>1, <3>3 DEF LoginSession
    <3> QED BY <3>2, <3>3
  <2>3. ChildOwned' /\ LastWord'
    BY <1>0, <2>1, <2>2, CallFrame
  <2>4. SessionsHeld'
    BY <1>0, <2>1 DEF SessionsHeld
  <2>5. ClearedIsOver'
    BY <1>0, <2>1, <2>2 DEF ClearedIsOver, SessionsHeld, Active, TypeOK
  <2>6. UncancelledIsCurrent'
    BY <1>0, <2>1, <2>2 DEF UncancelledIsCurrent, Active
  <2> QED BY <2>3, <2>4, <2>5, <2>6, CallStepType DEF IInv, LoginInv
<1>6. CASE Receive(c)
  <2> DEFINE t == target[c]
             events == IF login[t].events = <<>> THEN login[t].events
                                                 ELSE Tail(login[t].events)
  <2>1. t \in Calls /\ login \in [Calls -> LoginSession] /\ login[t].events \in Seq(Outcomes)
    BY <1>0, <1>6 DEF Receive, SessionsHeld, TypeOK, LoginSession
  <2>2. /\ login'[t].events = events /\ login'[t].cancelled = login[t].cancelled
        /\ \A s \in Calls : s # t => login'[s] = login[s]
    <3>1. login' = [login EXCEPT ![t].events = events]
      BY <1>6 DEF Receive
    <3> HIDE DEF events, t
    <3> QED BY <2>1, <3>1 DEF LoginSession
  <2>3. /\ UNCHANGED <<current, target, worker, verdict, cli, closing>>
        /\ pc[c] = "recv" /\ pc'[c] \in {"clear", "report"}
        /\ \A b \in Actors : b # c => pc'[b] = pc[b]
        /\ \A d \in Calls : d # c => answer'[d] = answer[d]
    BY <1>0, <1>6 DEF Receive, TypeOK
  <2>4. ChildOwned'
    BY <1>0, <2>3 DEF ChildOwned
  <2>5. LastWord'
    <3>1. ASSUME worker[t] \notin {"return", "gone"}, NEW i \in 1..Len(events)
          PROVE  events[i] = "needsTwoFactor"
      <4>1. \E j \in 1..Len(login[t].events) : events[i] = login[t].events[j]
        <5>1. CASE login[t].events = <<>>
          BY <2>1, <5>1
        <5>2. CASE login[t].events # <<>>
          <6>1. events[i] = login[t].events[i + 1] /\ i + 1 \in 1..Len(login[t].events)
            BY <2>1, <5>2
          <6> QED BY <6>1
        <5> QED BY <5>1, <5>2
      <4> QED BY <1>0, <2>1, <3>1, <4>1 DEF LastWord
    <3> HIDE DEF t, events
    <3>2. ASSUME NEW s \in Calls, worker[s] \notin {"return", "gone"},
                 NEW i \in 1..Len(login'[s].events)
          PROVE  login'[s].events[i] = "needsTwoFactor"
      <4>1. CASE s = t
        BY <2>2, <3>1, <3>2, <4>1
      <4>2. CASE s # t
        BY <1>0, <2>2, <3>2, <4>2 DEF LastWord
      <4> QED BY <4>1, <4>2
    <3> QED BY <1>0, <2>3, <3>2 DEF LastWord
  <2>6. SessionsHeld'
    BY <1>0, <2>1, <2>3 DEF SessionsHeld
  <2>7. pc'[c] = "clear" => worker[t] \in {"return", "gone"}
    <3>1. CASE login[t].events = <<>>
      BY <1>6, <3>1 DEF Receive
    <3>2. CASE login[t].events # <<>>
      <4>1. pc'[c] = "clear" => Head(login[t].events) \in Terminal
        BY <1>0, <1>6, <3>2 DEF Receive, TypeOK
      <4>2. Head(login[t].events) = login[t].events[1] /\ 1 \in 1..Len(login[t].events)
        BY <2>1, <3>2
      <4> QED BY <1>0, <2>1, <4>1, <4>2 DEF LastWord, Terminal
    <3> QED BY <3>1, <3>2
  <2> HIDE DEF t, events
  <2>8. \A s \in Calls : login'[s].cancelled = login[s].cancelled
    BY <2>1, <2>2
  <2>9. ClearedIsOver'
    BY <1>0, <2>3, <2>7, <2>8 DEF ClearedIsOver, SessionsHeld, Active, TypeOK, t
  <2>10. UncancelledIsCurrent'
    BY <1>0, <2>3, <2>8 DEF UncancelledIsCurrent, Active
  <2> QED BY <2>4, <2>5, <2>6, <2>9, <2>10, CallStepType DEF IInv, LoginInv
<1>7. CASE Clear(c)
  <2>1. /\ UNCHANGED <<target, answer, sessionVars, closing>>
        /\ pc[c] = "clear" /\ pc'[c] = "report" /\ target[c] \in Calls
        /\ \A b \in Actors : b # c => pc'[b] = pc[b]
        /\ current' = IF current = target[c] THEN None ELSE current
    BY <1>0, <1>7 DEF Clear, SessionsHeld, TypeOK
  <2>2. ChildOwned' /\ LastWord'
    BY <1>0, <2>1, CallFrame
  <2>3. SessionsHeld'
    BY <1>0, <2>1 DEF SessionsHeld
  <2>4. ClearedIsOver' /\ UncancelledIsCurrent'
    BY <1>0, <2>1 DEF ClearedIsOver, UncancelledIsCurrent, Active
  <2> QED BY <2>2, <2>3, <2>4, CallStepType DEF IInv, LoginInv
<1>8. CASE ReportAnswer(c)
  <2>1. /\ UNCHANGED <<current, sessionVars, closing>>
        /\ pc[c] = "report" /\ pc'[c] = "answered" /\ target'[c] = None /\ answer'[c] = "none"
        /\ \A b \in Actors : b # c => pc'[b] = pc[b] /\ target'[b] = target[b]
        /\ \A d \in Calls : d # c => answer'[d] = answer[d]
    BY <1>0, <1>8 DEF ReportAnswer, TypeOK
  <2>2. ChildOwned' /\ LastWord'
    BY <1>0, <2>1, CallFrame
  <2>3. SessionsHeld'
    BY <1>0, <2>1 DEF SessionsHeld
  <2>4. ClearedIsOver' /\ UncancelledIsCurrent'
    BY <1>0, <2>1 DEF ClearedIsOver, UncancelledIsCurrent, Active
  <2> QED BY <2>2, <2>3, <2>4, CallStepType DEF IInv, LoginInv
<1>9. CASE CancelStep(c)
  BY <1>9, CancelStepInv
<1> QED BY <1>1, <1>2, <1>3, <1>4, <1>5, <1>6, <1>7, <1>8, <1>9 DEF CallStep

(* The worker of s runs on, and the session is no less cancelled, or it ends:  *)
(* nothing a caller holds or clears is disturbed.                             *)
LEMMA WorkerFrame ==
  ASSUME SessionsHeld, ClearedIsOver, UncancelledIsCurrent,
         UNCHANGED <<current, pc, target, answer, closing>>, NEW s \in Calls,
         worker[s] # "none", Active(s)' => Active(s),
         login[s].cancelled => login'[s].cancelled,
         \A t \in Calls : t # s => /\ worker'[t] = worker[t]
                                   /\ login'[t].cancelled = login[t].cancelled,
         TypeOK
  PROVE  SessionsHeld' /\ ClearedIsOver' /\ UncancelledIsCurrent'
<1> USE ActorsApart
<1>1. SessionsHeld'
  BY DEF SessionsHeld
<1>2. ClearedIsOver'
  BY DEF ClearedIsOver, SessionsHeld, Active, TypeOK
<1>3. UncancelledIsCurrent'
  BY DEF UncancelledIsCurrent, Active
<1> QED BY <1>1, <1>2, <1>3

LEMMA WorkerStepInv == ASSUME IInv, NEW s \in Calls, WorkerStep(s) PROVE IInv'
<1> USE DEF callVars, sessionVars, windowVars, WorkerTo, Conclude
<1>0. /\ TypeOK /\ ChildOwned /\ SessionsHeld /\ LastWord /\ ClearedIsOver
      /\ UncancelledIsCurrent
      /\ login \in [Calls -> LoginSession] /\ cli \in [Calls -> LoginProcess]
      /\ worker \in [Calls -> WorkerSteps]
      /\ verdict \in [Calls -> Outcomes \cup {"none"}]
  BY DEF IInv, LoginInv, TypeOK
<1>1. /\ UNCHANGED <<current, pc, target, answer, closing>>
      /\ worker[s] \notin {"none", "gone"}
      /\ \A t \in Calls : t # s => worker'[t] = worker[t] /\ verdict'[t] = verdict[t]
  BY <1>0 DEF WorkerStep, WorkerOpen, WorkerArm, WorkerCheck, WorkerRead, ReadPrompt, ReadVerdict,
              ReadEnd, WorkerTwoFactor, WriteInput, WorkerStop, WorkerReport, WorkerReturn
<1>2. \A t \in Calls : t # s => login'[t] = login[t] /\ cli'[t] = cli[t]
  BY <1>0 DEF WorkerStep, WorkerOpen, WorkerArm, WorkerCheck, WorkerRead, ReadPrompt, ReadVerdict,
              ReadEnd, WorkerTwoFactor, WriteInput, WorkerStop, WorkerReport, WorkerReturn,
              KillChild
<1>3. SUFFICES /\ Active(s)' => Active(s)
               /\ login[s].cancelled => login'[s].cancelled
               /\ cli'[s].child = "running" =>
                    worker'[s] \in {"arm", "check", "read", "twoFactor", "stop"}
               /\ worker'[s] \notin {"return", "gone"} =>
                    \A i \in 1..Len(login'[s].events) : login'[s].events[i] = "needsTwoFactor"
               /\ worker'[s] \in {"stop", "report"} => verdict'[s] \in {"success", "failed"}
  <2> SUFFICES ASSUME /\ Active(s)' => Active(s)
                      /\ login[s].cancelled => login'[s].cancelled
                      /\ cli'[s].child = "running" =>
                           worker'[s] \in {"arm", "check", "read", "twoFactor", "stop"}
                      /\ worker'[s] \notin {"return", "gone"} =>
                           \A i \in 1..Len(login'[s].events) :
                             login'[s].events[i] = "needsTwoFactor"
                      /\ worker'[s] \in {"stop", "report"} => verdict'[s] \in {"success", "failed"}
               PROVE  IInv'
    OBVIOUS
  <2>1. ChildOwned'
    BY <1>0, <1>1, <1>2 DEF ChildOwned
  <2>2. LastWord'
    BY <1>0, <1>1, <1>2 DEF LastWord
  <2>3. SessionsHeld' /\ ClearedIsOver' /\ UncancelledIsCurrent'
    BY <1>0, <1>1, <1>2, WorkerFrame
  <2> QED BY <2>1, <2>2, <2>3, WorkerStepType DEF IInv, LoginInv
<1>4. CASE WorkerOpen(s)
  BY <1>0, <1>4 DEF WorkerOpen, Active, ChildOwned, LastWord, LoginProcess
<1>5. CASE WorkerArm(s)
  <2>1. worker[s] = "arm" /\ worker'[s] = "check" /\ cli' = cli
    BY <1>0, <1>5 DEF WorkerArm
  <2>2. login'[s].events = login[s].events /\ login'[s].cancelled = login[s].cancelled
    BY <1>0, <1>5 DEF WorkerArm, LoginSession
  <2> QED BY <1>0, <2>1, <2>2 DEF Active, LastWord
<1>6. CASE WorkerCheck(s)
  BY <1>0, <1>6 DEF WorkerCheck, Active, ChildOwned, LastWord
<1>7. CASE WorkerRead(s)
  <2>1. /\ worker[s] = "read" /\ worker'[s] \in {"twoFactor", "stop"}
        /\ worker'[s] = "stop" => verdict'[s] \in {"success", "failed"}
    BY <1>0, <1>7 DEF WorkerRead, ReadPrompt, ReadVerdict, ReadEnd
  <2>2. login'[s].cancelled = login[s].cancelled
    <3> DEFINE events == Append(login[s].events, "needsTwoFactor")
    <3>1. UNCHANGED login \/ login' = [login EXCEPT ![s].events = events]
      BY <1>7 DEF WorkerRead, ReadPrompt, ReadVerdict, ReadEnd
    <3> HIDE DEF events
    <3> QED BY <1>0, <3>1 DEF LoginSession
  <2>3. \A i \in 1..Len(login'[s].events) : login'[s].events[i] = "needsTwoFactor"
    <3>1. CASE UNCHANGED login
      BY <1>0, <2>1, <3>1 DEF LastWord
    <3>2. CASE login' = [login EXCEPT ![s].events = Append(@, "needsTwoFactor")]
      <4>1. login'[s].events = Append(login[s].events, "needsTwoFactor")
        BY <1>0, <3>2 DEF LoginSession
      <4>2. login[s].events \in Seq(Outcomes)
        BY <1>0 DEF LoginSession
      <4> QED BY <1>0, <2>1, <4>1, <4>2 DEF LastWord
    <3> QED BY <1>7, <3>1, <3>2 DEF WorkerRead, ReadPrompt, ReadVerdict, ReadEnd
  <2> QED BY <2>1, <2>2, <2>3 DEF Active
<1>8. CASE WorkerTwoFactor(s)
  <2>1. /\ worker[s] = "twoFactor" /\ worker'[s] \in {"read", "stop"}
        /\ worker'[s] = "stop" => verdict'[s] \in {"success", "failed"}
    BY <1>0, <1>8 DEF WorkerTwoFactor, WriteInput
  <2>2. /\ login'[s].events = login[s].events
        /\ login[s].cancelled => login'[s].cancelled
    <3> DEFINE inbox == Tail(login[s].inbox)
               cancelled == login[s].cancelled \/ Head(login[s].inbox) = "cancel"
    <3>1. login' = [login EXCEPT ![s].inbox = inbox, ![s].cancelled = cancelled]
      BY <1>8 DEF WorkerTwoFactor
    <3>2. login[s].cancelled => cancelled
      OBVIOUS
    <3> HIDE DEF inbox, cancelled
    <3> QED BY <1>0, <3>1, <3>2 DEF LoginSession
  <2> QED BY <1>0, <2>1, <2>2 DEF Active, LastWord
<1>9. CASE WorkerStop(s)
  <2>1. worker[s] = "stop" /\ worker'[s] = "report" /\ verdict' = verdict
    BY <1>0, <1>9 DEF WorkerStop
  <2>2. login'[s].events = login[s].events /\ login'[s].cancelled = login[s].cancelled
    BY <1>0, <1>9 DEF WorkerStop, LoginSession
  <2>3. cli'[s].child # "running"
    BY <1>0, <1>9 DEF WorkerStop, KillChild, LoginProcess
  <2> QED BY <1>0, <2>1, <2>2, <2>3 DEF Active, LastWord
<1>10. CASE WorkerReport(s)
  <2>1. worker[s] = "report" /\ worker'[s] = "return" /\ cli' = cli
    BY <1>0, <1>10 DEF WorkerReport
  <2>2. login'[s].cancelled = login[s].cancelled
    BY <1>0, <1>10 DEF WorkerReport, LoginSession
  <2> QED BY <1>0, <2>1, <2>2 DEF Active, ChildOwned
<1>11. CASE WorkerReturn(s)
  BY <1>0, <1>11 DEF WorkerReturn, NoCli, Active, LoginSession
<1> QED BY <1>4, <1>5, <1>6, <1>7, <1>8, <1>9, <1>10, <1>11 DEF WorkerStep

LEMMA CliStepInv == ASSUME IInv, NEW s \in Calls, CliStep(s) PROVE IInv'
<1> USE DEF callVars, sessionVars, windowVars
<1>0. /\ TypeOK /\ ChildOwned /\ SessionsHeld /\ LastWord /\ ClearedIsOver
      /\ UncancelledIsCurrent
      /\ cli \in [Calls -> LoginProcess]
  BY DEF IInv, LoginInv, TypeOK
<1>1. UNCHANGED <<current, pc, target, answer, login, worker, verdict, closing>>
  BY DEF CliStep, CliPrint, CliDie
<1>2. \A t \in Calls : cli'[t].child \in {cli[t].child, "dead"}
  BY <1>0 DEF CliStep, CliPrint, CliDie, KillChild, LoginProcess
<1>3. ChildOwned'
  BY <1>0, <1>1, <1>2 DEF ChildOwned
<1>4. SessionsHeld' /\ LastWord'
  BY <1>0, <1>1 DEF SessionsHeld, LastWord
<1>5. ClearedIsOver' /\ UncancelledIsCurrent'
  BY <1>0, <1>1 DEF ClearedIsOver, UncancelledIsCurrent, Active
<1> QED BY <1>3, <1>4, <1>5, CliStepType DEF IInv, LoginInv

-----------------------------------------------------------------------------

LEMMA Inductive == Spec => []IInv
<1>1. IInv /\ [Next]_vars => IInv'
  <2> SUFFICES ASSUME IInv, [Next]_vars PROVE IInv'
    OBVIOUS
  <2>1. CASE UNCHANGED vars
    BY <2>1
    DEF vars, callVars, sessionVars, windowVars, IInv, LoginInv, TypeOK, ChildOwned, SessionsHeld,
        LastWord, ClearedIsOver, UncancelledIsCurrent, Active
  <2>2. CASE Next
    BY <2>2, ActorsApart, UserStepInv, CancelStepInv, CallStepInv, WorkerStepInv, CliStepInv
    DEF Next
  <2> QED BY <2>1, <2>2
<1> QED BY <1>1, InitInv, PTL DEF Spec

(* However the calls, the worker threads, the window's close, the Quit and    *)
(* the login CLIs interleave: every login child is owned by a worker that will *)
(* stop it, a session is held by nobody before it is claimed, the outcome is   *)
(* the worker's last word, and only a session that is over loses the slot.     *)
THEOREM LoginsOwned == Spec => []LoginInv
BY Inductive, PTL DEF IInv

(* A login that runs and is not cancelled can be cancelled: it is the current *)
(* one, or the cancel that took it is about to mark it.                       *)
THEOREM LoginsReachable == Spec => []UncancelledIsCurrent
BY Inductive, PTL DEF IInv
=============================================================================
