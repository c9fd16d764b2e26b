--------------------------- MODULE LoginDialogue ---------------------------
(***************************************************************************)
(* login.rs: the dialogue of one login.  LoginPromptDriver looks for the   *)
(* prompts and verdicts of the Filen CLI in what its terminal shows, and   *)
(* run_login_process answers.  The two run concurrently; a read ends       *)
(* anywhere, and what it found stays in the driver's buffer.               *)
(*                                                                         *)
(* The terminal carries tokens: a text the driver looks for is two of them *)
(* so that a read can end within it, everything else the CLI writes and    *)
(* the terminal echoes is noise.                                           *)
(***************************************************************************)
EXTENDS Naturals, Sequences

CONSTANTS MaxChunk,    \* the longest read
          BufferLimit, \* OUTPUT_BUFFER_LIMIT
          MaxNoise     \* bound: noise before each text

\* login.rs:21, 608: the buffer is longer than any read and any text.
LimitAssumption ==
  /\ {MaxChunk, BufferLimit, MaxNoise} \subseteq Nat
  /\ 0 < MaxChunk /\ MaxChunk < BufferLimit

Verdicts == {"badCode", "badLogin", "keychain", "saved"}

\* The texts, and their places in the order in which push looks for them.
Texts == {"email", "password", "code", "remember"} \cup Verdicts
Place == [email |-> 1, password |-> 2, badCode |-> 3, badLogin |-> 4,
          code |-> 5, remember |-> 6, keychain |-> 7, saved |-> 8]

\* What answers each; a CLI that refused may ask for the email again.
RightAnswer == [email |-> "email", password |-> "password", code |-> "code",
                remember |-> "y", keychain |-> "n", saved |-> "exit"]
Answers   == {RightAnswer[q] : q \in DOMAIN RightAnswer}
Questions == DOMAIN RightAnswer \cup {"again"}

VARIABLES
  alive, asks, told, given,          \* the CLI: what it printed last, its verdict, what it read
  terminal, input,                   \* what it printed and what it is sent
  output, sent, fields,              \* the driver; sent holds its flags
  todo, waiting, verdict, outcome,   \* the worker's loop; outcome is what it reported
  cancelled

cliVars    == <<alive, asks, told, given>>
driverVars == <<output, sent>>
vars == <<cliVars, terminal, input, driverVars, fields, todo, waiting, verdict, outcome, cancelled>>

Token == (Texts \cup {"noise"}) \X {1, 2}
Outcomes == Verdicts \cup {"none", "failed", "cancelled"}

TypeOK ==
  /\ {alive, waiting, cancelled} \subseteq BOOLEAN
  /\ asks \in Questions \cup Texts \cup {"start"} /\ told \in Verdicts \cup {"none"}
  /\ given \in [Questions -> Answers \cup {"none"}]
  /\ terminal \in Seq(Token) /\ input \in Seq(Answers)
  /\ output \in Seq(Token) /\ Len(output) <= BufferLimit
  /\ sent \subseteq Texts /\ fields \subseteq {"email", "password"}
  /\ todo \subseteq Texts /\ {verdict, outcome} \subseteq Outcomes

Init ==
  /\ alive = TRUE /\ asks = "start" /\ told = "none" /\ given = [q \in Questions |-> "none"]
  /\ terminal = <<>> /\ input = <<>>
  /\ output = <<>> /\ sent = {} /\ fields = {"email", "password"}
  /\ todo = {} /\ waiting = FALSE /\ verdict = "none" /\ outcome = "none" /\ cancelled = FALSE
-----------------------------------------------------------------------------
(* The Filen CLI                                                           *)

Follows == [start |-> {"email"}, email |-> {"password"},
            password |-> {"badLogin", "code", "remember"},
            code |-> {"badCode", "remember"}, remember |-> {"saved", "keychain"},
            badLogin |-> {"again"}, badCode |-> {"again"}]

Said(text, n) == [i \in 1..n |-> <<"noise", 1>>] \o <<<<text, 1>>, <<text, 2>>>>

\* It goes on once it has read the answer to what it asked.
CliSay ==
  /\ alive /\ asks \in DOMAIN Follows
  /\ asks \in Questions => given[asks] # "none"
  /\ \E next \in Follows[asks], n \in 0..MaxNoise :
       LET text == IF next = "again" THEN "email" ELSE next
       IN /\ asks' = next
          /\ told' = IF next \in Verdicts THEN next ELSE told
          /\ terminal' = terminal \o Said(text, n)
  /\ UNCHANGED <<alive, given, input, driverVars, fields, todo, waiting, verdict, outcome, cancelled>>

CliTake ==
  /\ alive /\ input # <<>> /\ asks \in Questions /\ given[asks] = "none"
  /\ given' = [given EXCEPT ![asks] = Head(input)]
  /\ input' = Tail(input)
  /\ UNCHANGED <<alive, asks, told, terminal, driverVars, fields, todo, waiting, verdict, outcome, cancelled>>

\* It exits or crashes; what it printed can still be read.
CliEnd ==
  /\ alive /\ alive' = FALSE
  /\ UNCHANGED <<asks, told, given, terminal, input, driverVars, fields, todo, waiting, verdict, outcome, cancelled>>

\* LoginSession::cancel as it reaches the worker: the flag, then the kill.
Cancel ==
  /\ outcome = "none" /\ ~cancelled
  /\ cancelled' = TRUE /\ alive' = FALSE
  /\ UNCHANGED <<asks, told, given, terminal, input, driverVars, fields, todo, waiting, verdict, outcome>>
-----------------------------------------------------------------------------
(* LoginPromptDriver                                                       *)

\* A mutant of Trimmed: only the last read is looked at.
TrimmedToChunk(buffer, chunk) == chunk

Trimmed(buffer, chunk) ==
  LET all == buffer \o chunk
  IN SubSeq(all, IF Len(all) > BufferLimit THEN Len(all) - BufferLimit + 1 ELSE 1, Len(all))

Shows(buffer, text) ==
  \E i \in 1..(Len(buffer) - 1) : buffer[i] = <<text, 1>> /\ buffer[i + 1] = <<text, 2>>

\* A mutant of Actions: a prompt is answered as long as it is in the buffer.
ActionsAgain(buffer) == {text \in Texts : Shows(buffer, text)}

\* What push returns: each text once, and nothing after a verdict.
Actions(buffer) ==
  LET found == {text \in Texts : Shows(buffer, text) /\ text \notin sent}
  IN {text \in found : \A last \in found \cap Verdicts : Place[text] <= Place[last]}
-----------------------------------------------------------------------------
(* run_login_process                                                       *)

Reading == outcome = "none" /\ verdict = "none" /\ todo = {} /\ ~waiting

Read ==
  /\ Reading
  /\ \E n \in 1..MaxChunk :
       /\ n <= Len(terminal)
       /\ output' = Trimmed(output, SubSeq(terminal, 1, n))
       /\ terminal' = SubSeq(terminal, n + 1, Len(terminal))
       /\ todo' = Actions(output') /\ sent' = sent \cup todo'
  /\ UNCHANGED <<cliVars, input, fields, waiting, verdict, outcome, cancelled>>

ReadEnd ==
  /\ Reading /\ ~alive /\ terminal = <<>>
  /\ verdict' = IF cancelled THEN "cancelled" ELSE "failed"
  /\ UNCHANGED <<cliVars, terminal, input, driverVars, fields, todo, waiting, outcome, cancelled>>

\* write_input, which fails once nothing reads the terminal.
WriteInput(value) ==
  \/ input' = Append(input, value) /\ UNCHANGED verdict
  \/ ~alive /\ verdict' = "failed" /\ UNCHANGED input

Doing(text) ==
  /\ verdict = "none" /\ ~waiting
  /\ text \in todo /\ \A other \in todo : Place[text] <= Place[other]

SendField ==
  /\ \E field \in {"email", "password"} :
       /\ Doing(field)
       /\ fields' = fields \ {field}
       /\ IF field \in fields THEN WriteInput(field)
          ELSE verdict' = "failed" /\ UNCHANGED input
       /\ todo' = todo \ {field}
  /\ UNCHANGED <<cliVars, terminal, driverVars, waiting, outcome, cancelled>>

SendRemember ==
  /\ Doing("remember") /\ WriteInput("y") /\ todo' = todo \ {"remember"}
  /\ UNCHANGED <<cliVars, terminal, driverVars, fields, waiting, outcome, cancelled>>

NeedsTwoFactor ==
  /\ Doing("code") /\ waiting' = TRUE /\ todo' = todo \ {"code"}
  /\ UNCHANGED <<cliVars, terminal, input, driverVars, fields, verdict, outcome, cancelled>>

TwoFactor ==
  /\ waiting /\ waiting' = FALSE
  /\ \/ WriteInput("code") /\ UNCHANGED cancelled
     \/ verdict' = "cancelled" /\ cancelled' = TRUE /\ UNCHANGED input
  /\ UNCHANGED <<cliVars, terminal, driverVars, fields, todo, outcome>>

\* Never consent automatically to Filen's plaintext fallback.
Parting(text) ==
  IF text = "saved" THEN <<"exit">> ELSE IF text = "keychain" THEN <<"n">> ELSE <<>>

Terminal ==
  /\ \E text \in Verdicts :
       /\ Doing(text)
       /\ verdict' = text
       /\ input' = input \o Parting(text)
       /\ todo' = todo \ {text}
  /\ UNCHANGED <<cliVars, terminal, driverVars, fields, waiting, outcome, cancelled>>

\* finish_with: the child is killed, then the outcome sent.
Finish ==
  /\ verdict # "none" /\ outcome = "none"
  /\ alive' = FALSE /\ outcome' = verdict
  /\ UNCHANGED <<asks, told, given, terminal, input, driverVars, fields, todo, waiting, verdict, cancelled>>

Worker == Read \/ ReadEnd \/ SendField \/ SendRemember \/ NeedsTwoFactor \/ Terminal \/ Finish

Next == CliSay \/ CliTake \/ CliEnd \/ Cancel \/ TwoFactor \/ Worker

Spec == Init /\ [][Next]_vars

\* The worker is a thread of its own, and a CLI reads what it asked for.  Of
\* the user nothing is assumed, nor that the CLI goes on after an answer.
Fairness == WF_vars(Worker) /\ WF_vars(CliTake)

-----------------------------------------------------------------------------
\* login.rs:446-524, 640-727: wherever the reads end, and although what was
\* found stays in the buffer, every question of the CLI reads its own answer:
\* no secret at another's prompt, no consent to the plaintext fallback and
\* nothing to a CLI that asks again after its verdict.
OwnAnswers ==
  \A q \in Questions :
    given[q] # "none" => q \in DOMAIN RightAnswer /\ given[q] = RightAnswer[q]

\* login.rs:612-636, 690-727: the outcome is the CLI's verdict if it gave one,
\* though it died right after; "failed" and "cancelled" stand for none.
OutcomeIsVerdict ==
  outcome # "none" =>
    \/ outcome = told
    \/ outcome = "failed" /\ told = "none"
    \/ outcome = "cancelled" /\ cancelled /\ told = "none"

\* login.rs: what is written to the CLI and what is said of it are right.
DialogueInv == OwnAnswers /\ OutcomeIsVerdict

-----------------------------------------------------------------------------
(* What DialogueInv rests on                                               *)

\* How far the CLI is when it has printed a text.
Stage == [start |-> 0, email |-> 1, password |-> 2, code |-> 3, remember |-> 4,
          badCode |-> 5, badLogin |-> 5, keychain |-> 5, saved |-> 5, again |-> 6]

\* The CLI goes on once it has its answer, and has one verdict.
CliOnItsWay ==
  /\ \A q \in Questions : given[q] # "none" => Stage[q] <= Stage[asks]
  /\ asks \notin {"start", "email"} => given["email"] # "none"
  /\ told = IF asks \in Verdicts THEN asks ELSE IF asks = "again" THEN told ELSE "none"
  /\ asks = "again" => told \in {"badCode", "badLogin"}

Printed ==
  {text \in Texts : \/ text \in {asks, told}
                    \/ text \in DOMAIN RightAnswer /\ given[text] # "none"}

\* Nothing is on its way to the question, which waits.
Unanswered(q) == asks = q /\ given[q] = "none" /\ input = <<>>

\* One answer is on its way at most, to the question that was seen last.
AnswerInOrder ==
  /\ input # <<>> =>
       asks \in DOMAIN RightAnswer /\ given[asks] = "none" /\ input = <<RightAnswer[asks]>>
  /\ \A q \in DOMAIN RightAnswer :
       given[q] # "none" \/ (asks = q /\ input # <<>>) => q \in sent
  /\ todo \subseteq sent /\ sent \subseteq Printed
  /\ \A text \in todo :
       IF text \in DOMAIN RightAnswer THEN Unanswered(text) ELSE told = text
  /\ waiting => todo = {} /\ Unanswered("code") /\ "code" \in sent

\* A text that has not been found is still to be read, if only its end.
Ahead(text) ==
  \/ \E i \in 1..(Len(terminal) - 1) : terminal[i] = <<text, 1>> /\ terminal[i + 1] = <<text, 2>>
  \/ /\ output # <<>> /\ terminal # <<>>
     /\ output[Len(output)] = <<text, 1>> /\ terminal[1] = <<text, 2>>
NothingOverlooked ==
  /\ \A i \in DOMAIN terminal : terminal[i][1] \in Printed \cup {"noise"}
  /\ \A i \in DOMAIN output : output[i][1] \in Printed \cup {"noise"}
  /\ \A text \in Printed \ sent : Ahead(text)

\* What the worker has decided.
VerdictKnown ==
  /\ told \in sent => told \in todo \/ verdict # "none"
  /\ verdict \in Verdicts => verdict = told
  /\ verdict \in {"failed", "cancelled"} =>
       told = "none" /\ (~alive \/ \E q \in DOMAIN RightAnswer : Unanswered(q))
  /\ verdict = "cancelled" => cancelled
  /\ waiting => verdict = "none"
  /\ outcome # "none" => outcome = verdict /\ ~alive

DriverInv ==
  TypeOK /\ CliOnItsWay /\ AnswerInOrder /\ NothingOverlooked /\ VerdictKnown /\ OwnAnswers
-----------------------------------------------------------------------------
\* login.rs:446-457: no prompt is lost to the trimmed buffer or to the end of
\* a read.  A CLI that asks gets its answer, or the login is over; only the
\* two-factor code waits for the user.
PromptsAnswered ==
  \A q \in {"email", "password", "remember"} :
    (alive /\ asks = q) ~> (given[q] # "none" \/ ~alive)

\* login.rs:690-727: a verdict is reported.
VerdictReported == told # "none" ~> outcome # "none"

\* login.rs: of what the CLI prints nothing is overlooked.
NothingMissed == PromptsAnswered /\ VerdictReported
=============================================================================
