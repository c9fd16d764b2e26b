---------------------------- MODULE ActivityPage ----------------------------
(***************************************************************************)
(* The Recent Activity window: activity.js in its page, the commands of    *)
(* activity_view.rs it invokes, the task that forwards changes to it, and  *)
(* the history both read.  An entry is its id; what is cleared is a prefix.*)
(* Commands are answered in any order, and the page handles one answer,    *)
(* event or timer at a time.                                               *)
(***************************************************************************)
EXTENDS Naturals, FiniteSets

CONSTANTS MaxRecords,   \* bound: entries recorded
          MaxClears,    \* bound: clears confirmed
          MaxRetries,   \* bound: clicks on the retry button
          None          \* no answer yet, no timer

PageAssumption ==
  /\ {MaxRecords, MaxClears, MaxRetries} \subseteq Nat
  /\ None \notin Nat /\ \A answer \in SUBSET (0..MaxRecords) : answer # None

Views == {"nothing", "loading", "list", "empty", "error"}

VARIABLES
  recorded, cleared,   \* the history holds the ids after cleared up to recorded
  untold, changed,     \* a change not yet sent to the subscribers; one they have not seen
  page,                \* how far the page has come
  requests,            \* refreshes that are not answered: generation and answer
  generation, timer,   \* refreshGeneration, scheduledRefresh
  entries, view,       \* what the page shows
  known,               \* ghost: the page has read the history
  clearing,            \* the clear command: idle, asked, done or failed
  confirmed,           \* ghost: what the page was told is cleared
  clears, retries,
  reliable             \* no command fails
historyVars == <<recorded, cleared, untold, changed>>
pageVars    == <<page, requests, generation, timer, entries, view, known>>
clearVars   == <<clearing, confirmed, clears>>
vars == <<historyVars, pageVars, clearVars, retries, reliable>>

Entries == (cleared + 1)..recorded
Failure == {0}

TypeOK ==
  /\ recorded \in 0..MaxRecords /\ cleared \in 0..recorded /\ confirmed \in 0..cleared
  /\ {untold, changed, timer, known, reliable} \subseteq BOOLEAN
  /\ page \in {"none", "copying", "listening", "ready"}
  /\ generation \in 0..(2 + MaxRecords + 2 * MaxClears + MaxRetries)
  /\ \A r \in requests :
       /\ r = [generation |-> r.generation, answer |-> r.answer]
       /\ r.generation \in 1..generation
       /\ r.answer \in {None, Failure} \/ r.answer \subseteq 1..MaxRecords
  /\ entries \subseteq 1..MaxRecords /\ view \in Views
  /\ clearing \in {"idle", "asked", "done", "failed"}
  /\ clears \in 0..MaxClears /\ retries \in 0..MaxRetries

Init ==
  /\ recorded \in {0, 1} /\ recorded <= MaxRecords /\ cleared = 0
  /\ untold = FALSE /\ changed = FALSE
  /\ page = "none" /\ requests = {} /\ generation = 0 /\ timer = FALSE
  /\ entries = {} /\ view = "nothing" /\ known = FALSE
  /\ clearing = "idle" /\ confirmed = 0 /\ clears = 0 /\ retries = 0
  /\ reliable \in BOOLEAN

-----------------------------------------------------------------------------
(* The history and its commands                                            *)

Record ==
  /\ recorded < MaxRecords /\ recorded' = recorded + 1 /\ untold' = TRUE
  /\ UNCHANGED <<cleared, changed, pageVars, clearVars, retries, reliable>>

\* send_replace; changes that were not seen yet are one.
Notify ==
  /\ untold /\ untold' = FALSE /\ changed' = TRUE
  /\ UNCHANGED <<recorded, cleared, pageVars, clearVars, retries, reliable>>

\* clear_activity, which tells the subscribers before it answers.
ClearHistory ==
  /\ clearing = "asked"
  /\ \/ /\ clearing' = "done" /\ cleared' = recorded
        /\ changed' = TRUE
     \/ ~reliable /\ clearing' = "failed" /\ UNCHANGED <<cleared, changed>>
  /\ UNCHANGED <<recorded, untold, pageVars, confirmed, clears, retries, reliable>>

\* recent_activity: the answer to a request is on its way.
AnswerRecent ==
  \E r \in requests :
    /\ r.answer = None
    /\ \E answer \in {Entries} \cup (IF reliable THEN {} ELSE {Failure}) :
         requests' = (requests \ {r}) \cup {[r EXCEPT !.answer = answer]}
    /\ UNCHANGED <<historyVars, page, generation, timer, entries, view, known, clearVars,
                   retries, reliable>>

\* A mutant of Forward: nothing is scheduled while a refresh is under way.
ForwardIdle ==
  /\ changed /\ changed' = FALSE
  /\ timer' = ((page \in {"listening", "ready"} /\ requests = {}) \/ timer)
  /\ UNCHANGED <<recorded, cleared, untold, page, requests, generation, entries, view,
                 known, clearVars, retries, reliable>>

\* forward_activity_updates emits, and scheduleRefresh sets the timer unless
\* it is set; before the page listens the event is lost.
Forward ==
  /\ changed /\ changed' = FALSE
  /\ timer' = (page \in {"listening", "ready"} \/ timer)
  /\ UNCHANGED <<recorded, cleared, untold, page, requests, generation, entries, view,
                 known, clearVars, retries, reliable>>

-----------------------------------------------------------------------------
(* The page                                                                *)

\* open_activity_window; a window that is closed is only hidden.
Open ==
  /\ page = "none" /\ page' = "copying"
  /\ UNCHANGED <<historyVars, requests, generation, timer, entries, view, known, clearVars,
                 retries, reliable>>

\* activity_copy has been answered and listen asked for.  It returns when the
\* backend knows of the listener.
Listen ==
  /\ page = "copying" /\ page' = "listening" /\ view' = "loading"
  /\ UNCHANGED <<historyVars, requests, generation, timer, entries, known, clearVars,
                 retries, reliable>>

\* refresh, up to its await
Refresh(showLoading) ==
  /\ generation' = generation + 1
  /\ requests' = requests \cup {[generation |-> generation', answer |-> None]}
  /\ view' = IF showLoading THEN "loading" ELSE view

FirstRefresh ==
  /\ page = "listening" /\ page' = "ready" /\ Refresh(TRUE)
  /\ UNCHANGED <<historyVars, timer, entries, known, clearVars, retries, reliable>>

FireTimer ==
  /\ timer /\ timer' = FALSE /\ Refresh(FALSE)
  /\ UNCHANGED <<historyVars, page, entries, known, clearVars, retries, reliable>>

\* The button that is shown with the error.
Retry ==
  /\ view = "error" /\ retries < MaxRetries /\ retries' = retries + 1
  /\ Refresh(TRUE)
  /\ UNCHANGED <<historyVars, page, timer, entries, known, clearVars, reliable>>

ViewOf(es) == IF es = {} THEN "empty" ELSE "list"

Show(r) ==
  /\ requests' = requests \ {r}
  /\ entries' = IF r.answer = Failure THEN entries ELSE r.answer
  /\ view' = IF r.answer = Failure THEN "error" ELSE ViewOf(r.answer)
  /\ known' = (known \/ r.answer # Failure)

\* A mutant of TakeAnswer: whatever answer arrives is shown.
TakeAnyAnswer ==
  \E r \in requests :
    /\ r.answer # None /\ Show(r)
    /\ UNCHANGED <<historyVars, page, generation, timer, clearVars, retries, reliable>>

\* refresh, after its await: answers to an older refresh are passed over.
TakeAnswer ==
  \E r \in requests :
    /\ r.answer # None
    /\ \/ r.generation = generation /\ Show(r)
       \/ /\ r.generation # generation
          /\ requests' = requests \ {r} /\ UNCHANGED <<entries, view, known>>
    /\ UNCHANGED <<historyVars, page, generation, timer, clearVars, retries, reliable>>

\* A filter or a search: render.
Filter ==
  /\ page \in {"listening", "ready"}
  /\ view' = ViewOf(entries)
  /\ UNCHANGED <<historyVars, page, requests, generation, timer, entries, known, clearVars,
                 retries, reliable>>

\* clearActivity, whose buttons are disabled until it ends.  An error leaves
\* the entries, and with them the button, as they are.
Clear ==
  /\ page = "ready" /\ entries # {} /\ clearing = "idle"
  /\ clears < MaxClears /\ clears' = clears + 1
  /\ clearing' = "asked"
  /\ UNCHANGED <<historyVars, pageVars, confirmed, retries, reliable>>

ClearAnswered ==
  /\ clearing = "done" /\ clearing' = "idle"
  /\ confirmed' = cleared /\ entries' = {}
  /\ generation' = generation + 1
  /\ requests' = requests \cup {[generation |-> generation', answer |-> None]}
  /\ view' = "empty"
  /\ UNCHANGED <<historyVars, page, timer, known, clears, retries, reliable>>

ClearRefused ==
  /\ clearing = "failed" /\ clearing' = "idle"
  /\ UNCHANGED <<historyVars, pageVars, confirmed, clears, retries, reliable>>

History == Record \/ Notify \/ ClearHistory \/ AnswerRecent \/ Forward
Page == \/ Open \/ Listen \/ FirstRefresh \/ FireTimer \/ Retry \/ TakeAnswer \/ Filter
        \/ Clear \/ ClearAnswered \/ ClearRefused

Next == History \/ Page

Spec == Init /\ [][Next]_vars

\* Commands are answered, tokio runs the forwarder and the page its events and
\* timers.  The user does as he likes.
Fairness ==
  /\ WF_vars(Notify) /\ WF_vars(ClearHistory) /\ WF_vars(AnswerRecent) /\ WF_vars(Forward)
  /\ WF_vars(Listen) /\ WF_vars(FirstRefresh) /\ WF_vars(FireTimer) /\ WF_vars(TakeAnswer)
  /\ WF_vars(ClearAnswered) /\ WF_vars(ClearRefused)

LiveSpec == Spec /\ Fairness
-----------------------------------------------------------------------------
\* Every refresh has its reason: the first, a change that came as an event, a
\* clear, which is such a change and a refresh of its own, or the user.
Owed == (IF timer THEN 1 ELSE 0) + (IF changed THEN 1 ELSE 0) + (IF untold THEN 1 ELSE 0)
          + (CASE clearing = "asked" -> 2 [] clearing = "done" -> 1 [] OTHER -> 0)
RefreshesOwed ==
  generation + Owed <= (IF page = "ready" THEN 1 ELSE 0) + recorded + 2 * clears + retries

\* An answer that would be shown has nothing that the page knows is cleared.
AnswersCurrent ==
  \A r \in requests :
    r.generation = generation /\ r.answer # None => r.answer \cap 1..confirmed = {}

\* activity.js:316-328: once the page has been told that the history is
\* cleared it shows no cleared entry again, whichever refresh was under way
\* and in whatever order the answers come.
ClearedNotShown == entries \cap 1..confirmed = {}

\* The page does not go on loading.
Loads == view = "loading" ~> view # "loading"

\* activity.js:503-509, 344-352: listening before the first refresh, and
\* coalescing events into one timer, the page ends up with the history: what
\* it shows is, or is being brought, up to date.  Where commands fail it at
\* least does not go on loading.
CatchesUp == Loads /\ (reliable => <>[](page # "none" => entries = Entries))

\* locales/en.yml:114: "No activity yet" is said of a history that the page
\* has read.
\* The code does not keep it (README, Other disagreements).
EmptyIsEmpty == view = "empty" => known
=============================================================================
