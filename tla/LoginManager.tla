---------------------------- MODULE LoginManager ----------------------------
(***************************************************************************)
(* The in-app login (login.rs, with the page src/login.js that drives it). *)
(* Each webview command is a task of the async runtime; the login CLI runs  *)
(* in a pseudo-terminal owned by one worker thread per LoginSession; the    *)
(* window's close events run on the main thread.  Nothing orders the three *)
(* but the mutex round `current`, the session's channels and its atomics.  *)
(*                                                                         *)
(* A session is named by the start_login call that created it: that is the *)
(* identity Arc::ptr_eq compares.                                          *)
(***************************************************************************)
EXTENDS Naturals, Sequences, FiniteSets

CONSTANTS MaxCalls,    \* how many start_login and submit_two_factor are invoked
          WithQuit,    \* whether the tray's Quit or a signal comes as well
          MaxWindows,  \* how often the login window is opened
          MaxCloses    \* how many of these openings end in a close

ASSUME LoginAssumption ==
  /\ MaxCalls \in Nat /\ MaxWindows \in Nat /\ MaxCloses \in Nat
  /\ WithQuit \in BOOLEAN

Calls  == 1..MaxCalls   \* in the order of their invocation
Window == MaxCalls + 1  \* the main thread, in the window's close events
Quit   == MaxCalls + 2  \* the action handler or the signal handler
Cancellers == IF WithQuit THEN {Window, Quit} ELSE {Window}
Actors == Calls \cup Cancellers

None   == 0             \* no session, no call

VARIABLES
  current,    \* LoginManager.current
  pc,         \* what each call or canceller does next
  target,     \* the session it holds an Arc of
  answer,     \* the LoginOutcome a call returns
  login,      \* LoginSession, by session: inbox, events, cancelled, killer
  worker,     \* where the session's worker thread is
  verdict,    \* the outcome the worker is about to send
  cli,        \* the session's child process and its terminal
  completed,  \* sessions for which LoginCompleted was sent to the tray
  window, page, pending, opened, closing  \* the login window and its page

sessionVars == <<login, worker, verdict, cli>>
windowVars  == <<window, page, pending, opened, closing>>
callVars    == <<pc, target, answer>>
vars == <<current, callVars, sessionVars, completed, windowVars>>

-----------------------------------------------------------------------------
\* "failed" stands for every refusal the page shows as an error and tries
\* again after: Invalid*, KeychainUnavailable, Cancelled, Failed, Busy, ...
Terminal == {"success", "failed", "timeout"}
Outcomes == Terminal \cup {"needsTwoFactor"}
WorkerSteps == {"none", "open", "arm", "check", "read", "twoFactor",
                "stop", "report", "return", "gone"}
Inputs == {"code", "cancel"}
LoginSession == [inbox : Seq(Inputs), events : Seq(Outcomes),
                 cancelled : BOOLEAN, killer : BOOLEAN]
LoginProcess == [child : {"none", "running", "dead"},
                 prompt : {"none", "askCode", "saved", "refused"},
                 dialogue : {"start", "asked", "coded", "told"}]
CallSteps == {"idle", "start", "claim", "submit", "send", "wait", "recv",
              "mark", "kill", "clear", "report", "answered"}

TypeOK ==
  /\ current \in Calls \cup {None}
  /\ pc \in [Actors -> CallSteps]
  /\ target \in [Actors -> Calls \cup {None}]
  /\ answer \in [Calls -> Outcomes \cup {"none"}]
  /\ login \in [Calls -> LoginSession]
  /\ worker \in [Calls -> WorkerSteps]
  /\ verdict \in [Calls -> Outcomes \cup {"none"}]
  /\ cli \in [Calls -> LoginProcess]
  /\ completed \subseteq Calls
  /\ window \in {"closed", "open", "closing"}
  /\ page \in {"form", "code", "done"}
  /\ pending \in Calls \cup {None}
  /\ opened \in 0..MaxWindows
  /\ closing \in 0..2

NoCli == [child |-> "none", prompt |-> "none", dialogue |-> "start"]

Init ==
  /\ current = None
  /\ pc = [a \in Actors |-> "idle"]
  /\ target = [a \in Actors |-> None]
  /\ answer = [c \in Calls |-> "none"]
  /\ login = [s \in Calls |-> [inbox |-> <<>>, events |-> <<>>,
                               cancelled |-> FALSE, killer |-> FALSE]]
  /\ worker = [s \in Calls |-> "none"]
  /\ verdict = [s \in Calls |-> "none"]
  /\ cli = [s \in Calls |-> NoCli]
  /\ completed = {}
  /\ window = "closed" /\ page = "form" /\ pending = None
  /\ opened = 0 /\ closing = 0

Goto(a, step) == pc' = [pc EXCEPT ![a] = step]

Answer(c, outcome, step) ==
  /\ answer' = [answer EXCEPT ![c] = outcome]
  /\ Goto(c, step)

-----------------------------------------------------------------------------
(* The window and its page: one form submission in flight per page.        *)

\* The tray's Login without stored credentials opens the only "login" window.
OpenWindow ==
  /\ window = "closed" /\ opened < MaxWindows
  /\ window' = "open" /\ page' = "form" /\ pending' = None
  /\ opened' = opened + 1
  /\ UNCHANGED <<current, callVars, sessionVars, completed, closing>>

\* submitCredentials or submitTwoFactor: every control of the form is
\* disabled until the command answers.
Invoke(c) ==
  /\ window = "open" /\ pending = None /\ page \in {"form", "code"}
  /\ pc[c] = "idle" /\ \A d \in 1..(c - 1) : pc[d] # "idle"
  /\ Goto(c, IF page = "form" THEN "start" ELSE "submit")
  /\ pending' = c
  /\ UNCHANGED <<current, target, answer, sessionVars, completed, window, page,
                 opened, closing>>

\* Closing the window cancels on CloseRequested and again on Destroyed.  (The
\* Cancel button cancels first, on the same thread, with no command running.)
CloseWindow ==
  /\ window = "open" /\ opened <= MaxCloses
  /\ window' = "closing" /\ page' = "form" /\ pending' = None
  /\ closing' = 2
  /\ UNCHANGED <<current, callVars, sessionVars, completed, opened>>

\* The command reports a success to the tray, and its promise resolves.  A
\* page that was closed hears nothing.
ReportAnswer(c) ==
  /\ pc[c] = "report"
  /\ Answer(c, "none", "answered")
  /\ completed' = IF answer[c] = "success" THEN completed \cup {target[c]} ELSE completed
  /\ target' = [target EXCEPT ![c] = None]
  /\ IF pending = c
     THEN /\ pending' = None
          /\ page' = CASE answer[c] = "needsTwoFactor" /\ page = "form" -> "code"
                       [] answer[c] = "success" -> "done"
                       [] OTHER -> page
     ELSE UNCHANGED <<pending, page>>
  /\ UNCHANGED <<current, sessionVars, window, opened, closing>>

-----------------------------------------------------------------------------
(* LoginManager::start                                                     *)

MissingFields(c) ==
  /\ pc[c] \in {"start", "submit"}
  /\ Answer(c, "failed", "report")
  /\ UNCHANGED <<current, target, sessionVars, completed, windowVars>>

StartCheck(c) ==
  /\ pc[c] = "start"
  /\ IF current # None THEN Answer(c, "failed", "report")
                       ELSE Goto(c, "claim") /\ UNCHANGED answer
  /\ UNCHANGED <<current, target, sessionVars, completed, windowVars>>

\* `current` is set and the worker's thread started, unless that fails.  (A
\* cancel between the two finds the worker as one that has not yet begun.)
Install(c) ==
  /\ current' = c
  /\ target' = [target EXCEPT ![c] = c]
  /\ \/ /\ worker' = [worker EXCEPT ![c] = "open"]
        /\ Goto(c, "wait")
        /\ UNCHANGED answer
     \/ /\ Answer(c, "failed", "clear")
        /\ UNCHANGED worker

StartClaim(c) ==
  /\ pc[c] = "claim"
  /\ IF current = None THEN Install(c)
     ELSE /\ Answer(c, "failed", "report")
          /\ UNCHANGED <<current, target, worker>>
  /\ UNCHANGED <<login, verdict, cli, completed, windowVars>>

-----------------------------------------------------------------------------
(* LoginManager::submit_two_factor                                         *)

SubmitLookup(c) ==
  /\ pc[c] = "submit"
  /\ IF current = None
     THEN Answer(c, "failed", "report") /\ UNCHANGED target
     ELSE /\ target' = [target EXCEPT ![c] = current]
          /\ Goto(c, "send")
          /\ UNCHANGED answer
  /\ UNCHANGED <<current, sessionVars, completed, windowVars>>

\* The send fails once the worker has dropped its end of the channel.
SubmitSend(c) ==
  /\ pc[c] = "send"
  /\ IF worker[target[c]] = "gone"
     THEN Answer(c, "failed", "clear") /\ UNCHANGED login
     ELSE /\ login' = [login EXCEPT ![target[c]].inbox = Append(@, "code")]
          /\ Goto(c, "wait")
          /\ UNCHANGED answer
  /\ UNCHANGED <<current, target, worker, verdict, cli, completed, windowVars>>

-----------------------------------------------------------------------------
(* wait_for_outcome and clear_if_current                                   *)

\* The session's event_rx is behind a mutex: one call receives at a time.
WaitLock(c) ==
  /\ pc[c] = "wait"
  /\ \A d \in Calls : pc[d] = "recv" => target[d] # target[c]
  /\ Goto(c, "recv")
  /\ UNCHANGED <<current, target, answer, login, worker, verdict, cli, completed, windowVars>>

\* A mutant of Receive: a cancelled session's outcome is replaced.
ReceiveUnlessCancelled(c) ==
  LET s == target[c] IN
  /\ pc[c] = "recv"
  /\ login[s].events # <<>>
  /\ Answer(c, IF login[s].cancelled THEN "failed" ELSE Head(login[s].events),
            IF Head(login[s].events) \in Terminal \/ login[s].cancelled
            THEN "clear" ELSE "report")
  /\ login' = [login EXCEPT ![s].events = Tail(@)]
  /\ UNCHANGED <<current, target, worker, verdict, cli, completed, windowVars>>

\* An outcome, or None when the worker has dropped event_tx.
Receive(c) ==
  LET s == target[c] IN
  /\ pc[c] = "recv"
  /\ login[s].events # <<>> \/ worker[s] = "gone"
  /\ LET outcome == IF login[s].events = <<>> THEN "failed" ELSE Head(login[s].events)
     IN  Answer(c, outcome, IF outcome \in Terminal THEN "clear" ELSE "report")
  /\ login' = [login EXCEPT ![s].events = IF @ = <<>> THEN @ ELSE Tail(@)]
  /\ UNCHANGED <<current, target, worker, verdict, cli, completed, windowVars>>

\* LOGIN_TIMEOUT: the wait gives up and cancels the session it waited for.
TimeOut(c) ==
  LET s == target[c] IN
  /\ pc[c] = "recv"
  /\ login[s].events = <<>> /\ worker[s] # "gone"
  /\ Answer(c, "timeout", "mark")
  /\ UNCHANGED <<current, target, login, worker, verdict, cli, completed, windowVars>>

\* A mutant of Clear: whatever session is current goes.
ClearAny(c) ==
  /\ pc[c] = "clear"
  /\ current' = None
  /\ Goto(c, "report")
  /\ UNCHANGED <<target, answer, sessionVars, completed, windowVars>>

\* A mutant of Clear: the slot is left to the window's cancel.
ClearNothing(c) ==
  /\ pc[c] = "clear"
  /\ Goto(c, "report")
  /\ UNCHANGED <<current, target, answer, sessionVars, completed, windowVars>>

Clear(c) ==
  /\ pc[c] = "clear"
  /\ current' = IF current = target[c] THEN None ELSE current
  /\ Goto(c, "report")
  /\ UNCHANGED <<target, answer, sessionVars, completed, windowVars>>

-----------------------------------------------------------------------------
(* LoginManager::cancel, called by the window's events (main thread), and by
   the tray's Quit or the signal handler; LoginSession::cancel, which a wait
   that timed out enters directly at "mark".                              *)

Cancel(a) ==
  /\ a \in Cancellers /\ pc[a] = "idle"
  /\ a = Window => closing > 0
  /\ current' = None
  /\ target' = [target EXCEPT ![a] = current]
  /\ IF current # None
     THEN Goto(a, "mark") /\ UNCHANGED <<window, closing>>
     ELSE /\ Goto(a, IF a = Window THEN "idle" ELSE "answered")
          /\ closing' = IF a = Window THEN closing - 1 ELSE closing
          /\ window'  = IF a = Window /\ closing = 1 THEN "closed" ELSE window
  /\ UNCHANGED <<answer, sessionVars, completed, page, pending, opened>>

\* The flag, then the message; sending to a worker that has returned fails
\* and is ignored.
CancelMark(a) ==
  /\ pc[a] = "mark"
  /\ login' = [login EXCEPT ![target[a]].cancelled = TRUE,
                            ![target[a]].inbox =
                              IF worker[target[a]] = "gone" THEN @ ELSE Append(@, "cancel")]
  /\ Goto(a, "kill")
  /\ UNCHANGED <<current, target, answer, worker, verdict, cli, completed, windowVars>>

KillChild(s) ==
  cli' = [cli EXCEPT ![s].child = IF @ = "running" THEN "dead" ELSE @]

\* The killer is there only once the worker has armed it.
CancelKill(a) ==
  /\ pc[a] = "kill"
  /\ IF login[target[a]].killer THEN KillChild(target[a]) ELSE UNCHANGED cli
  /\ IF a \in Calls
     THEN Goto(a, "clear") /\ UNCHANGED <<target, window, closing>>
     ELSE /\ Goto(a, IF a = Window THEN "idle" ELSE "answered")
          /\ target' = [target EXCEPT ![a] = None]
          /\ closing' = IF a = Window THEN closing - 1 ELSE closing
          /\ window'  = IF a = Window /\ closing = 1 THEN "closed" ELSE window
  /\ UNCHANGED <<current, answer, login, worker, verdict, completed, page, pending,
                 opened>>

-----------------------------------------------------------------------------
(* run_login_process: the worker thread of session s                       *)

WorkerTo(s, step) == worker' = [worker EXCEPT ![s] = step]

Conclude(s, outcome, step) ==
  /\ verdict' = [verdict EXCEPT ![s] = outcome]
  /\ WorkerTo(s, step)

\* Neither a pseudo-terminal nor a child may be had.
WorkerOpen(s) ==
  /\ worker[s] = "open"
  /\ \/ /\ cli' = [cli EXCEPT ![s].child = "running"]
        /\ WorkerTo(s, "arm")
        /\ UNCHANGED verdict
     \/ /\ Conclude(s, "failed", "report")
        /\ UNCHANGED cli
  /\ UNCHANGED <<current, callVars, login, completed, windowVars>>

WorkerArm(s) ==
  /\ worker[s] = "arm"
  /\ login' = [login EXCEPT ![s].killer = TRUE]
  /\ WorkerTo(s, "check")
  /\ UNCHANGED <<current, callVars, verdict, cli, completed, windowVars>>

\* A mutant of WorkerCheck: a cancel that came before the killer is missed.
WorkerCheckBlind(s) ==
  /\ worker[s] = "check"
  /\ \/ WorkerTo(s, "read") /\ UNCHANGED verdict
     \/ Conclude(s, "failed", "stop")
  /\ UNCHANGED <<current, callVars, login, cli, completed, windowVars>>

\* A mutant of WorkerCheck: a failed set-up leaves the child behind.
WorkerCheckLeaking(s) ==
  /\ worker[s] = "check"
  /\ \/ ~login[s].cancelled /\ WorkerTo(s, "read") /\ UNCHANGED verdict
     \/ Conclude(s, "failed", "report")
  /\ UNCHANGED <<current, callVars, login, cli, completed, windowVars>>

\* A session cancelled by now is stopped; so is one whose reader or writer of
\* the terminal does not open.
WorkerCheck(s) ==
  /\ worker[s] = "check"
  /\ \/ ~login[s].cancelled /\ WorkerTo(s, "read") /\ UNCHANGED verdict
     \/ Conclude(s, "failed", "stop")
  /\ UNCHANGED <<current, callVars, login, cli, completed, windowVars>>

\* write_input of the code; the terminal of a dead child may still take it.
WriteInput(s) ==
  \/ /\ cli' = [cli EXCEPT ![s].dialogue = "coded"]
     /\ WorkerTo(s, "read")
     /\ UNCHANGED verdict
  \/ /\ cli[s].child = "dead"
     /\ Conclude(s, "failed", "stop")
     /\ UNCHANGED cli

\* A prompt for email, password or "keep me logged in" is answered at once,
\* which changes nothing here.
ReadPrompt(s) ==
  /\ cli[s].prompt = "askCode"
  /\ login' = [login EXCEPT ![s].events = Append(@, "needsTwoFactor")]
  /\ cli' = [cli EXCEPT ![s].prompt = "none"]
  /\ WorkerTo(s, "twoFactor")
  /\ UNCHANGED verdict

ReadVerdict(s) ==
  /\ cli[s].prompt \in {"saved", "refused"}
  /\ Conclude(s, IF cli[s].prompt = "saved" THEN "success" ELSE "failed", "stop")
  /\ cli' = [cli EXCEPT ![s].prompt = "none"]
  /\ UNCHANGED login

\* Once the child is gone and everything it printed has been read, reading or
\* answering a prompt fails.
ReadEnd(s) ==
  /\ cli[s].prompt = "none" /\ cli[s].child = "dead"
  /\ Conclude(s, "failed", "stop")
  /\ UNCHANGED <<login, cli>>

\* A chunk of output, as LoginPromptDriver::push reads it, or its end.
WorkerRead(s) ==
  /\ worker[s] = "read"
  /\ ReadPrompt(s) \/ ReadVerdict(s) \/ ReadEnd(s)
  /\ UNCHANGED <<current, callVars, completed, windowVars>>

\* input_rx.recv() has no timeout of its own.
WorkerTwoFactor(s) ==
  /\ worker[s] = "twoFactor"
  /\ login[s].inbox # <<>>
  /\ login' = [login EXCEPT ![s].inbox = Tail(@),
                            ![s].cancelled = @ \/ Head(login[s].inbox) = "cancel"]
  /\ IF Head(login[s].inbox) = "code"
     THEN WriteInput(s)
     ELSE Conclude(s, "failed", "stop") /\ UNCHANGED cli
  /\ UNCHANGED <<current, callVars, completed, windowVars>>

\* stop_child kills before it takes the killer away; a reaper waits for it.
WorkerStop(s) ==
  /\ worker[s] = "stop"
  /\ KillChild(s)
  /\ login' = [login EXCEPT ![s].killer = FALSE]
  /\ WorkerTo(s, "report")
  /\ UNCHANGED <<current, callVars, verdict, completed, windowVars>>

WorkerReport(s) ==
  /\ worker[s] = "report"
  /\ login' = [login EXCEPT ![s].events = Append(@, verdict[s])]
  /\ WorkerTo(s, "return")
  /\ UNCHANGED <<current, callVars, verdict, cli, completed, windowVars>>

\* Returning drops event_tx, input_rx with what it holds, and the terminal.
WorkerReturn(s) ==
  /\ worker[s] = "return"
  /\ login' = [login EXCEPT ![s].inbox = <<>>]
  /\ cli' = [cli EXCEPT ![s] = [NoCli EXCEPT !.child = "dead"]]
  /\ Conclude(s, "none", "gone")
  /\ UNCHANGED <<current, callVars, completed, windowVars>>

-----------------------------------------------------------------------------
(* The CLI: perhaps asks for a code, then refuses or stores the session and
   says so.  It may die at any time.                                       *)

CliPrint(s) ==
  /\ cli[s].child = "running" /\ cli[s].dialogue \in {"start", "coded"}
  /\ \E prompt \in {"askCode", "saved", "refused"} :
       /\ prompt = "askCode" => cli[s].dialogue = "start"
       /\ cli' = [cli EXCEPT ![s].prompt = prompt,
                             ![s].dialogue = IF prompt = "askCode" THEN "asked" ELSE "told"]
  /\ UNCHANGED <<current, callVars, login, worker, verdict, completed, windowVars>>

CliDie(s) ==
  /\ cli[s].child = "running"
  /\ KillChild(s)
  /\ UNCHANGED <<current, callVars, login, worker, verdict, completed, windowVars>>

-----------------------------------------------------------------------------
CancelStep(a) == Cancel(a) \/ CancelMark(a) \/ CancelKill(a)

\* A call whose wait timed out cancels as well.
CallStep(c) ==
  \/ MissingFields(c) \/ StartCheck(c) \/ StartClaim(c)
  \/ SubmitLookup(c) \/ SubmitSend(c) \/ WaitLock(c) \/ Receive(c) \/ TimeOut(c)
  \/ Clear(c) \/ ReportAnswer(c) \/ CancelStep(c)

WorkerStep(s) ==
  \/ WorkerOpen(s) \/ WorkerArm(s) \/ WorkerCheck(s) \/ WorkerRead(s)
  \/ WorkerTwoFactor(s) \/ WorkerStop(s) \/ WorkerReport(s) \/ WorkerReturn(s)

UserStep == OpenWindow \/ CloseWindow \/ \E c \in Calls : Invoke(c)
CliStep(s) == CliPrint(s) \/ CliDie(s)

Next ==
  \/ UserStep
  \/ \E a \in Cancellers : CancelStep(a)
  \/ \E c \in Calls : CallStep(c) \/ WorkerStep(c) \/ CliStep(c)

\* The runtime polls ready tasks, the worker threads and the main thread run,
\* and LOGIN_TIMEOUT elapses: while one of them can go on, some of them do (none
\* has a loop that others would wait behind for ever).  Nothing obliges the
\* user, the Quit or the CLI.
SystemStep ==
  \/ \E c \in Calls : CallStep(c) \/ WorkerStep(c)
  \/ CancelStep(Window)
  \/ WithQuit /\ pc[Quit] # "idle" /\ CancelStep(Quit)

Fairness == WF_vars(SystemStep)

Spec == Init /\ [][Next]_vars /\ Fairness

-----------------------------------------------------------------------------
\* The worker runs and has not told an outcome yet.
Active(s) == worker[s] \notin {"none", "return", "gone"}

\* A session whose worker still runs and that nobody has cancelled is the
\* manager's current one, or a cancel that has just taken it is about to mark
\* it: no login goes on that the Quit or the window's close cannot reach.
UncancelledIsCurrent ==
  \A s \in Calls : Active(s) /\ ~login[s].cancelled =>
    \/ current = s
    \/ \E a \in Actors : pc[a] = "mark" /\ target[a] = s

\* No login process outlives the worker that owns its terminal: whichever of
\* its early returns the worker takes, the child is stopped first.
ChildOwned ==
  \A s \in Calls : cli[s].child = "running" =>
    worker[s] \in {"arm", "check", "read", "twoFactor", "stop"}

\* Who holds which session: a start_login that has not claimed the slot has no
\* session, and nobody else has its; a call that waits or has a success to
\* report, and a cancel under way, hold one; the window's cancel under way is that of a close.
SessionsHeld ==
  /\ \A c \in Calls : pc[c] \in {"idle", "start", "claim"} =>
       /\ worker[c] = "none" /\ current # c
       /\ \A a \in Actors : target[a] # c
  /\ \A a \in Actors :
       pc[a] \in {"send", "wait", "recv", "mark", "kill", "clear"} => target[a] # None
  /\ \A c \in Calls : answer[c] = "success" => target[c] # None
  /\ pc[Window] \in {"mark", "kill"} => closing > 0

\* What the worker says, and when: the outcome that ends the login is its last
\* word, and nothing but requests for a code came before.
LastWord ==
  \A s \in Calls :
    /\ worker[s] \notin {"return", "gone"} =>
         \A i \in 1..Len(login[s].events) : login[s].events[i] = "needsTwoFactor"
    /\ worker[s] \in {"stop", "report"} => verdict[s] \in {"success", "failed"}

\* A call clears the slot only of a session that has ended or is cancelled.
ClearedIsOver ==
  \A a \in Actors :
    /\ pc[a] = "kill" => login[target[a]].cancelled
    /\ pc[a] = "clear" => ~Active(target[a]) \/ login[target[a]].cancelled

\* login.rs: what holds of the threads of a login at each of their steps.
LoginInv == TypeOK /\ ChildOwned /\ SessionsHeld /\ LastWord /\ ClearedIsOver

\* login.rs:99 says the manager owns "the single interactive login process
\* allowed at a time": two login children never run together.
SingleLoginProcess ==
  \A s, t \in Calls :
    cli[s].child = "running" /\ cli[t].child = "running" => s = t

Doomed(s) == login[s].cancelled /\ cli[s].child = "running"

\* The processes of cancelled logins die, also when the cancel came before
\* the worker had a process to kill.
CancelledDies == (\E s \in Calls : Doomed(s)) ~> (\A s \in Calls : ~Doomed(s))

\* The slot of a login that has ended is given back, so that the next try is
\* not refused as busy for ever.
SlotFreed ==
  (current # None /\ worker[current] = "gone") ~>
    (current = None \/ worker[current] # "gone")

\* When a wait is on and the CLI has stored a session, the tray is told so,
\* also when the window was closed meanwhile; only LOGIN_TIMEOUT may lose it.
SuccessReported ==
  \A s \in Calls :
    (verdict[s] = "success" /\ \E c \in Calls : target[c] = s /\ pc[c] = "recv")
      ~> (s \in completed \/ \E c \in Calls : target[c] = s /\ answer[c] = "timeout")
=============================================================================
