--------------------------- MODULE Screen_proofs ---------------------------
(***************************************************************************)
(* Safety of the two trays and of the activity page, for any bounds and any *)
(* texts, times and states: what the invariants of MCScreen say.           *)
(***************************************************************************)
EXTENDS MCScreen, Sequences, TLAPS

-----------------------------------------------------------------------------
(* LinuxTray                                                               *)

LinuxInv == Linux!TypeOK /\ Linux!StaleIsAsked

LEMMA LinuxBounds ==
  /\ LinuxCount \in Nat /\ MaxFrame \in Nat /\ MaxUpdates \in Nat /\ MaxUpdates > 0
  /\ States \subseteq Linux!SyncStates
  BY ScreenAssumption DEF Linux!MenuAssumption, Linux!LinuxAssumption

LEMMA LinuxInit == Linux!Init => LinuxInv
<1> SUFFICES ASSUME Linux!Init PROVE LinuxInv
  OBVIOUS
<1>1. linuxState \in Linux!TrayState
  BY LinuxBounds DEF Linux!Init, Linux!InitialState, Linux!TrayState, Linux!SyncStates
<1>2. spawned \in 0..MaxUpdates /\ asking \subseteq Linux!Parts /\ DOMAIN told = Linux!Parts
  BY LinuxBounds DEF Linux!Init
<1>3. \A p \in Linux!Parts : told[p] = Linux!Shows(linuxState, p)
  BY DEF Linux!Init
<1> QED BY <1>1, <1>2, <1>3 DEF LinuxInv, Linux!TypeOK, Linux!StaleIsAsked

\* A change that leaves everything shown as it is need not spawn an update.
LEMMA LinuxChange ==
  ASSUME LinuxInv, NEW new \in Linux!TrayState, NEW differs \in BOOLEAN,
         Linux!Change(new, differs),
         ~differs => \A p \in Linux!Parts : Linux!Shows(new, p) = Linux!Shows(linuxState, p)
  PROVE  LinuxInv'
<1>1. /\ linuxState' = new /\ asking' = asking /\ told' = told
      /\ spawned' = IF differs THEN spawned + 1 ELSE spawned
      /\ differs => spawned < MaxUpdates
  BY DEF Linux!Change
<1>2. spawned \in Nat /\ spawned <= MaxUpdates /\ asking \subseteq Linux!Parts
      /\ DOMAIN told = Linux!Parts
  BY LinuxBounds DEF LinuxInv, Linux!TypeOK
<1>3. spawned' \in 0..MaxUpdates /\ (differs => spawned' > 0)
  BY <1>1, <1>2, LinuxBounds
<1>4. Linux!TypeOK'
  BY <1>1, <1>2, <1>3 DEF Linux!TypeOK
<1>5. ASSUME ~differs PROVE Linux!StaleIsAsked'
  BY <1>1, <1>5 DEF LinuxInv, Linux!StaleIsAsked
<1>6. ASSUME differs PROVE Linux!StaleIsAsked'
  BY <1>3, <1>6 DEF Linux!StaleIsAsked
<1> QED BY <1>4, <1>5, <1>6 DEF LinuxInv

\* Only the dots are animated.
LEMMA PendingFrames ==
  ASSUME NEW sync, NEW count, NEW synced, NEW f, NEW g, sync \in Linux!Loading => f = g
  PROVE  Linux!PendingText(sync, count, f, synced) = Linux!PendingText(sync, count, g, synced)
<1>1. CASE sync \in Linux!Loading
  BY <1>1
<1>2. CASE sync \notin Linux!Loading
  BY <1>2 DEF Linux!PendingText
<1> QED BY <1>1, <1>2

LEMMA LinuxNext ==
  ASSUME LinuxInv, Linux!Next
  PROVE  LinuxInv'
<1>0. linuxState \in Linux!TrayState
  BY DEF LinuxInv, Linux!TypeOK
<1>1. ASSUME NEW sync \in States, NEW f \in 0..MaxFrame, Linux!UpdateIcon(sync, f)
      PROVE  LinuxInv'
  <2> DEFINE new == [linuxState EXCEPT !.sync = sync, !.frame = f]
             differs == \/ sync # linuxState.sync
                        \/ sync \in Linux!Loading /\ f # linuxState.frame
  <2>1. new \in Linux!TrayState
    BY <1>0, LinuxBounds DEF Linux!TrayState
  <2>2. Linux!Change(new, differs)
    BY <1>1 DEF Linux!UpdateIcon
  <2>3. ASSUME ~differs, NEW p \in Linux!Parts
        PROVE  Linux!Shows(new, p) = Linux!Shows(linuxState, p)
    <3>1. /\ new.sync = linuxState.sync /\ new.status = linuxState.status
          /\ new.count = linuxState.count /\ new.login = linuxState.login
          /\ new.transfer = linuxState.transfer /\ new.synced = linuxState.synced
          /\ linuxState.sync \in Linux!Loading => new.frame = linuxState.frame
      BY <1>0, <2>3
    <3>2. Linux!Pending(new) = Linux!Pending(linuxState)
      BY <3>1, PendingFrames DEF Linux!Pending
    <3>3. Linux!MenuOf(new) = Linux!MenuOf(linuxState)
      BY <3>1, <3>2 DEF Linux!MenuOf
    <3>4. Linux!Tooltip(new) = Linux!Tooltip(linuxState)
      BY <3>1 DEF Linux!Tooltip
    <3> QED BY <3>1, <3>2, <3>3, <3>4
            DEF Linux!Shows, Linux!IconName, Linux!Attention, Linux!ToolTip, Linux!Menu
  <2> HIDE DEF new, differs
  <2>4. differs \in BOOLEAN
    BY DEF differs
  <2> QED BY <2>1, <2>2, <2>3, <2>4, LinuxChange
<1>2. ASSUME NEW field \in {"status", "count", "login", "transfer", "synced"}, NEW value,
             [linuxState EXCEPT ![field] = value] \in Linux!TrayState,
             Linux!Update(field, value)
      PROVE  LinuxInv'
  <2> DEFINE new == [linuxState EXCEPT ![field] = value]
  <2>1. Linux!Change(new, value # linuxState[field])
    BY <1>2 DEF Linux!Update
  <2>2. ASSUME value = linuxState[field] PROVE new = linuxState
    BY <1>0, <2>2 DEF Linux!TrayState
  <2>3. (value # linuxState[field]) \in BOOLEAN /\ new \in Linux!TrayState
    BY <1>2
  <2> HIDE DEF new
  <2> QED BY <2>1, <2>2, <2>3, LinuxChange
<1>3. CASE Linux!Call
  <2>1. ASSUME NEW sync \in States, Linux!UpdateStatus(sync) PROVE LinuxInv'
    <3>1. [linuxState EXCEPT !["status"] = sync] \in Linux!TrayState
      BY <1>0, LinuxBounds DEF Linux!TrayState
    <3> QED BY <1>2, <2>1, <3>1 DEF Linux!UpdateStatus
  <2>2. ASSUME NEW count \in 0..LinuxCount, Linux!UpdatePendingCount(count) PROVE LinuxInv'
    <3>1. [linuxState EXCEPT !["count"] = count] \in Linux!TrayState
      BY <1>0 DEF Linux!TrayState
    <3> QED BY <1>2, <2>2, <3>1 DEF Linux!UpdatePendingCount
  <2>3. ASSUME NEW login \in BOOLEAN, Linux!SetLoginState(login) PROVE LinuxInv'
    <3>1. [linuxState EXCEPT !["login"] = login] \in Linux!TrayState
      BY <1>0 DEF Linux!TrayState
    <3> QED BY <1>2, <2>3, <3>1 DEF Linux!SetLoginState
  <2>4. ASSUME NEW text \in LinuxTransfers \cup {Nothing}, Linux!UpdateCurrentTransfer(text)
        PROVE  LinuxInv'
    <3>1. [linuxState EXCEPT !["transfer"] = text] \in Linux!TrayState
      BY <1>0 DEF Linux!TrayState
    <3> QED BY <1>2, <2>4, <3>1 DEF Linux!UpdateCurrentTransfer
  <2>5. ASSUME NEW time \in Times, Linux!UpdateLastSynced(time) PROVE LinuxInv'
    <3>1. [linuxState EXCEPT !["synced"] = time] \in Linux!TrayState
      BY <1>0 DEF Linux!TrayState
    <3> QED BY <1>2, <2>5, <3>1 DEF Linux!UpdateLastSynced
  <2> QED BY <1>1, <1>3, <2>1, <2>2, <2>3, <2>4, <2>5 DEF Linux!Call
<1>4. CASE Linux!BeginUpdate
  <2>1. /\ spawned' = spawned - 1 /\ spawned > 0 /\ asking' = Linux!Parts
        /\ linuxState' = linuxState /\ told' = told
    BY <1>4 DEF Linux!BeginUpdate
  <2>2. spawned' \in 0..MaxUpdates
    BY <2>1, LinuxBounds DEF LinuxInv, Linux!TypeOK
  <2> QED BY <2>1, <2>2 DEF LinuxInv, Linux!TypeOK, Linux!StaleIsAsked
<1>5. CASE Linux!Ask
  <2>1. PICK p \in asking :
          /\ told' = [told EXCEPT ![p] = Linux!Shows(linuxState, p)]
          /\ asking' = asking \ {p} /\ linuxState' = linuxState /\ spawned' = spawned
    BY <1>5 DEF Linux!Ask
  <2>2. DOMAIN told = Linux!Parts /\ p \in Linux!Parts
    BY <2>1 DEF LinuxInv, Linux!TypeOK
  <2>3. /\ DOMAIN told' = Linux!Parts /\ told'[p] = Linux!Shows(linuxState, p)
        /\ \A q \in Linux!Parts : q # p => told'[q] = told[q]
    BY <2>1, <2>2
  <2>4. Linux!TypeOK'
    BY <2>1, <2>3 DEF LinuxInv, Linux!TypeOK
  <2>5. Linux!StaleIsAsked'
    BY <2>1, <2>3 DEF LinuxInv, Linux!StaleIsAsked
  <2> QED BY <2>4, <2>5 DEF LinuxInv
<1> QED BY <1>3, <1>4, <1>5 DEF Linux!Next
-----------------------------------------------------------------------------
(* ActivityPage                                                            *)

PageInv ==
  /\ Activity!TypeOK /\ Activity!RefreshesOwed
  /\ Activity!AnswersCurrent /\ Activity!ClearedNotShown

LEMMA PageBounds ==
  /\ MaxRecords \in Nat /\ MaxClears \in Nat /\ MaxRetries \in Nat
  /\ None \notin Nat /\ \A answer \in SUBSET (0..MaxRecords) : answer # None
  BY ScreenAssumption DEF Activity!PageAssumption

\* The counters as numbers.
Counters ==
  /\ recorded \in Nat /\ recorded <= MaxRecords /\ cleared \in Nat /\ cleared <= recorded
  /\ confirmed \in Nat /\ confirmed <= cleared
  /\ clears \in Nat /\ clears <= MaxClears /\ retries \in Nat /\ retries <= MaxRetries
  /\ generation \in Nat

\* The rest of the type invariant.
PageTypes ==
  /\ {untold, changed, timer, known, reliable} \subseteq BOOLEAN
  /\ page \in {"none", "copying", "listening", "ready"}
  /\ entries \subseteq 1..MaxRecords /\ view \in Activity!Views
  /\ clearing \in {"idle", "asked", "done", "failed"}
RequestTypes ==
  \A r \in requests :
    /\ r = [generation |-> r.generation, answer |-> r.answer]
    /\ r.generation \in 1..generation
    /\ r.answer \in {None, Activity!Failure} \/ r.answer \subseteq 1..MaxRecords

LEMMA PageFacts ==
  ASSUME PageInv
  PROVE  Counters /\ PageTypes /\ RequestTypes
<1>1. Activity!TypeOK
  BY DEF PageInv
<1>2. PageTypes /\ RequestTypes
  BY <1>1 DEF Activity!TypeOK, PageTypes, RequestTypes
<1>3. /\ recorded \in 0..MaxRecords /\ cleared \in 0..recorded /\ confirmed \in 0..cleared
      /\ clears \in 0..MaxClears /\ retries \in 0..MaxRetries
      /\ generation \in 0..(2 + MaxRecords + 2 * MaxClears + MaxRetries)
  BY <1>1 DEF Activity!TypeOK
<1>4. Counters
  BY <1>3, PageBounds DEF Counters
<1> QED BY <1>2, <1>4

\* What a step is shown to keep.
PageParts ==
  /\ Counters /\ PageTypes /\ RequestTypes /\ Activity!RefreshesOwed
  /\ Activity!AnswersCurrent /\ Activity!ClearedNotShown

\* The bound on the generation follows from what the refreshes are owed to.
LEMMA PageIntro == PageParts => PageInv
<1> SUFFICES ASSUME PageParts PROVE PageInv
  OBVIOUS
<1>0. Counters /\ PageTypes /\ RequestTypes /\ Activity!RefreshesOwed
  BY DEF PageParts
<1>1. Activity!Owed \in Nat
  <2>1. /\ (IF timer THEN 1 ELSE 0) \in Nat /\ (IF changed THEN 1 ELSE 0) \in Nat
        /\ (IF untold THEN 1 ELSE 0) \in Nat
        /\ (CASE clearing = "asked" -> 2 [] clearing = "done" -> 1 [] OTHER -> 0) \in Nat
    OBVIOUS
  <2> QED BY <2>1 DEF Activity!Owed
<1>2. generation <= 1 + recorded + 2 * clears + retries
  BY <1>0, <1>1 DEF Activity!RefreshesOwed, Counters
<1>3. generation \in 0..(2 + MaxRecords + 2 * MaxClears + MaxRetries)
  BY <1>0, <1>2, PageBounds DEF Counters
<1>4. /\ recorded \in 0..MaxRecords /\ cleared \in 0..recorded /\ confirmed \in 0..cleared
      /\ clears \in 0..MaxClears /\ retries \in 0..MaxRetries
  BY <1>0, PageBounds DEF Counters
<1>5. Activity!TypeOK
  BY <1>0, <1>3, <1>4 DEF Activity!TypeOK, PageTypes, RequestTypes
<1> QED BY <1>5 DEF PageInv, PageParts

LEMMA PageIntroNext == PageParts' => PageInv'
  BY PageIntro, PTL

LEMMA PageInit == Activity!Init => PageInv
<1> SUFFICES ASSUME Activity!Init PROVE PageParts
  BY PageIntro
<1>1. Counters
  BY PageBounds DEF Activity!Init, Counters
<1>2. PageTypes /\ RequestTypes
  BY DEF Activity!Init, PageTypes, RequestTypes, Activity!Views
<1>3. Activity!RefreshesOwed
  <2>1. Activity!Owed = 0
    BY DEF Activity!Init, Activity!Owed
  <2>2. generation = 0 /\ recorded \in Nat /\ clears = 0 /\ retries = 0 /\ page = "none"
    BY DEF Activity!Init
  <2> QED BY <2>1, <2>2 DEF Activity!RefreshesOwed
<1>4. Activity!AnswersCurrent /\ Activity!ClearedNotShown
  BY DEF Activity!Init, Activity!AnswersCurrent, Activity!ClearedNotShown
<1> QED BY <1>1, <1>2, <1>3, <1>4 DEF PageParts

LEMMA PageRecord ==
  ASSUME PageInv, Activity!Record
  PROVE  PageInv'
<1>0. PageParts
  BY PageFacts DEF PageInv, PageParts
<1>1. Counters'
  BY <1>0, PageBounds
     DEF PageParts, Counters, Activity!Record, Activity!historyVars, Activity!pageVars,
         Activity!clearVars
<1>2. PageTypes'
  BY <1>0
     DEF PageParts, PageTypes, Activity!Views, Activity!Record, Activity!historyVars,
         Activity!pageVars, Activity!clearVars
<1>3. RequestTypes'
  BY <1>0
     DEF PageParts, Counters, RequestTypes, Activity!Record, Activity!historyVars,
         Activity!pageVars, Activity!clearVars
<1>4. Activity!RefreshesOwed'
  BY <1>0
     DEF PageParts, Counters, PageTypes, Activity!RefreshesOwed, Activity!Owed,
         Activity!Record, Activity!historyVars, Activity!pageVars, Activity!clearVars
<1>5. Activity!AnswersCurrent'
  BY <1>0
     DEF PageParts, Counters, RequestTypes, Activity!AnswersCurrent, Activity!Record,
         Activity!historyVars, Activity!pageVars, Activity!clearVars
<1>6. Activity!ClearedNotShown'
  BY <1>0
     DEF PageParts, Counters, Activity!AnswersCurrent, Activity!ClearedNotShown,
         Activity!Record, Activity!historyVars, Activity!pageVars, Activity!clearVars
<1> QED BY <1>1, <1>2, <1>3, <1>4, <1>5, <1>6, PageIntroNext DEF PageParts

LEMMA PageNotify ==
  ASSUME PageInv, Activity!Notify
  PROVE  PageInv'
<1>0. PageParts
  BY PageFacts DEF PageInv, PageParts
<1>1. Counters'
  BY <1>0, PageBounds
     DEF PageParts, Counters, Activity!Notify, Activity!historyVars, Activity!pageVars,
         Activity!clearVars
<1>2. PageTypes'
  BY <1>0
     DEF PageParts, PageTypes, Activity!Views, Activity!Notify, Activity!historyVars,
         Activity!pageVars, Activity!clearVars
<1>3. RequestTypes'
  BY <1>0
     DEF PageParts, Counters, RequestTypes, Activity!Notify, Activity!historyVars,
         Activity!pageVars, Activity!clearVars
<1>4. Activity!RefreshesOwed'
  BY <1>0
     DEF PageParts, Counters, PageTypes, Activity!RefreshesOwed, Activity!Owed,
         Activity!Notify, Activity!historyVars, Activity!pageVars, Activity!clearVars
<1>5. Activity!AnswersCurrent'
  BY <1>0
     DEF PageParts, Counters, RequestTypes, Activity!AnswersCurrent, Activity!Notify,
         Activity!historyVars, Activity!pageVars, Activity!clearVars
<1>6. Activity!ClearedNotShown'
  BY <1>0
     DEF PageParts, Counters, Activity!AnswersCurrent, Activity!ClearedNotShown,
         Activity!Notify, Activity!historyVars, Activity!pageVars, Activity!clearVars
<1> QED BY <1>1, <1>2, <1>3, <1>4, <1>5, <1>6, PageIntroNext DEF PageParts

LEMMA PageClearHistory ==
  ASSUME PageInv, Activity!ClearHistory
  PROVE  PageInv'
<1>0. PageParts
  BY PageFacts DEF PageInv, PageParts
<1>1. Counters'
  BY <1>0, PageBounds
     DEF PageParts, Counters, Activity!ClearHistory, Activity!historyVars,
         Activity!pageVars, Activity!clearVars
<1>2. PageTypes'
  BY <1>0
     DEF PageParts, PageTypes, Activity!Views, Activity!ClearHistory, Activity!historyVars,
         Activity!pageVars, Activity!clearVars
<1>3. RequestTypes'
  BY <1>0
     DEF PageParts, Counters, RequestTypes, Activity!ClearHistory, Activity!historyVars,
         Activity!pageVars, Activity!clearVars
<1>4. Activity!RefreshesOwed'
  BY <1>0
     DEF PageParts, Counters, PageTypes, Activity!RefreshesOwed, Activity!Owed,
         Activity!ClearHistory, Activity!historyVars, Activity!pageVars, Activity!clearVars
<1>5. Activity!AnswersCurrent'
  BY <1>0
     DEF PageParts, Counters, RequestTypes, Activity!AnswersCurrent, Activity!ClearHistory,
         Activity!historyVars, Activity!pageVars, Activity!clearVars
<1>6. Activity!ClearedNotShown'
  BY <1>0
     DEF PageParts, Counters, Activity!AnswersCurrent, Activity!ClearedNotShown,
         Activity!ClearHistory, Activity!historyVars, Activity!pageVars, Activity!clearVars
<1> QED BY <1>1, <1>2, <1>3, <1>4, <1>5, <1>6, PageIntroNext DEF PageParts

LEMMA PageAnswerRecent ==
  ASSUME PageInv, Activity!AnswerRecent
  PROVE  PageInv'
<1>0. PageParts
  BY PageFacts DEF PageInv, PageParts
<1>1. PICK r \in requests, answer \in {Activity!Entries, Activity!Failure} :
        /\ r.answer = None
        /\ requests' = (requests \ {r}) \cup {[r EXCEPT !.answer = answer]}
        /\ UNCHANGED <<Activity!historyVars, page, generation, timer, entries, view, known,
                       Activity!clearVars, retries, reliable>>
  BY DEF Activity!AnswerRecent
<1>2. Counters' /\ PageTypes' /\ Activity!RefreshesOwed' /\ Activity!ClearedNotShown'
  BY <1>0, <1>1 DEF PageParts, Counters, PageTypes, Activity!RefreshesOwed, Activity!Owed,
     Activity!ClearedNotShown, Activity!historyVars, Activity!clearVars
<1>3. /\ \/ answer = Activity!Failure
         \/ answer \subseteq 1..MaxRecords /\ answer \cap 1..confirmed = {}
      /\ Activity!Failure \cap 1..confirmed = {}
  <2>1. /\ \A i \in Activity!Entries : i \in Nat /\ i > cleared /\ i <= recorded
        /\ \A i \in 1..confirmed : i \in Nat /\ 1 <= i /\ i <= confirmed
    BY <1>0 DEF PageParts, Counters, Activity!Entries
  <2>2. Activity!Entries \subseteq 1..MaxRecords /\ Activity!Entries \cap 1..confirmed = {}
    BY <1>0, <2>1, PageBounds DEF PageParts, Counters
  <2>3. Activity!Failure \cap 1..confirmed = {}
    BY <2>1 DEF Activity!Failure
  <2> QED BY <1>1, <2>2, <2>3
<1>4. ASSUME NEW q \in requests'
      PROVE  \/ q \in requests
             \/ q = [generation |-> r.generation, answer |-> answer]
  BY <1>0, <1>1, <1>4 DEF PageParts, RequestTypes
<1>5. generation' = generation /\ confirmed' = confirmed /\ r.generation \in 1..generation
  BY <1>0, <1>1 DEF PageParts, RequestTypes, Activity!clearVars
<1>6. RequestTypes'
  BY <1>0, <1>3, <1>4, <1>5 DEF PageParts, RequestTypes
<1>7. Activity!AnswersCurrent'
  BY <1>0, <1>3, <1>4, <1>5 DEF PageParts, Activity!AnswersCurrent
<1> QED BY <1>2, <1>6, <1>7, PageIntroNext DEF PageParts

LEMMA PageForward ==
  ASSUME PageInv, Activity!Forward
  PROVE  PageInv'
<1>0. PageParts
  BY PageFacts DEF PageInv, PageParts
<1>1. Counters'
  BY <1>0, PageBounds
     DEF PageParts, Counters, Activity!Forward, Activity!historyVars, Activity!pageVars,
         Activity!clearVars
<1>2. PageTypes'
  BY <1>0
     DEF PageParts, PageTypes, Activity!Views, Activity!Forward, Activity!historyVars,
         Activity!pageVars, Activity!clearVars
<1>3. RequestTypes'
  BY <1>0
     DEF PageParts, Counters, RequestTypes, Activity!Forward, Activity!historyVars,
         Activity!pageVars, Activity!clearVars
<1>4. Activity!RefreshesOwed'
  BY <1>0
     DEF PageParts, Counters, PageTypes, Activity!RefreshesOwed, Activity!Owed,
         Activity!Forward, Activity!historyVars, Activity!pageVars, Activity!clearVars
<1>5. Activity!AnswersCurrent'
  BY <1>0
     DEF PageParts, Counters, RequestTypes, Activity!AnswersCurrent, Activity!Forward,
         Activity!historyVars, Activity!pageVars, Activity!clearVars
<1>6. Activity!ClearedNotShown'
  BY <1>0
     DEF PageParts, Counters, Activity!AnswersCurrent, Activity!ClearedNotShown,
         Activity!Forward, Activity!historyVars, Activity!pageVars, Activity!clearVars
<1> QED BY <1>1, <1>2, <1>3, <1>4, <1>5, <1>6, PageIntroNext DEF PageParts

LEMMA PageOpen ==
  ASSUME PageInv, Activity!Open
  PROVE  PageInv'
<1>0. PageParts
  BY PageFacts DEF PageInv, PageParts
<1>1. Counters'
  BY <1>0, PageBounds
     DEF PageParts, Counters, Activity!Open, Activity!historyVars, Activity!pageVars,
         Activity!clearVars
<1>2. PageTypes'
  BY <1>0
     DEF PageParts, PageTypes, Activity!Views, Activity!Open, Activity!historyVars,
         Activity!pageVars, Activity!clearVars
<1>3. RequestTypes'
  BY <1>0
     DEF PageParts, Counters, RequestTypes, Activity!Open, Activity!historyVars,
         Activity!pageVars, Activity!clearVars
<1>4. Activity!RefreshesOwed'
  BY <1>0
     DEF PageParts, Counters, PageTypes, Activity!RefreshesOwed, Activity!Owed,
         Activity!Open, Activity!historyVars, Activity!pageVars, Activity!clearVars
<1>5. Activity!AnswersCurrent'
  BY <1>0
     DEF PageParts, Counters, RequestTypes, Activity!AnswersCurrent, Activity!Open,
         Activity!historyVars, Activity!pageVars, Activity!clearVars
<1>6. Activity!ClearedNotShown'
  BY <1>0
     DEF PageParts, Counters, Activity!AnswersCurrent, Activity!ClearedNotShown,
         Activity!Open, Activity!historyVars, Activity!pageVars, Activity!clearVars
<1> QED BY <1>1, <1>2, <1>3, <1>4, <1>5, <1>6, PageIntroNext DEF PageParts

LEMMA PageListen ==
  ASSUME PageInv, Activity!Listen
  PROVE  PageInv'
<1>0. PageParts
  BY PageFacts DEF PageInv, PageParts
<1>1. Counters'
  BY <1>0, PageBounds
     DEF PageParts, Counters, Activity!Listen, Activity!historyVars, Activity!pageVars,
         Activity!clearVars
<1>2. PageTypes'
  BY <1>0
     DEF PageParts, PageTypes, Activity!Views, Activity!Listen, Activity!historyVars,
         Activity!pageVars, Activity!clearVars
<1>3. RequestTypes'
  BY <1>0
     DEF PageParts, Counters, RequestTypes, Activity!Listen, Activity!historyVars,
         Activity!pageVars, Activity!clearVars
<1>4. Activity!RefreshesOwed'
  BY <1>0
     DEF PageParts, Counters, PageTypes, Activity!RefreshesOwed, Activity!Owed,
         Activity!Listen, Activity!historyVars, Activity!pageVars, Activity!clearVars
<1>5. Activity!AnswersCurrent'
  BY <1>0
     DEF PageParts, Counters, RequestTypes, Activity!AnswersCurrent, Activity!Listen,
         Activity!historyVars, Activity!pageVars, Activity!clearVars
<1>6. Activity!ClearedNotShown'
  BY <1>0
     DEF PageParts, Counters, Activity!AnswersCurrent, Activity!ClearedNotShown,
         Activity!Listen, Activity!historyVars, Activity!pageVars, Activity!clearVars
<1> QED BY <1>1, <1>2, <1>3, <1>4, <1>5, <1>6, PageIntroNext DEF PageParts

LEMMA PageFirstRefresh ==
  ASSUME PageInv, Activity!FirstRefresh
  PROVE  PageInv'
<1>0. PageParts
  BY PageFacts DEF PageInv, PageParts
<1>1. Counters'
  BY <1>0, PageBounds
     DEF PageParts, Counters, Activity!FirstRefresh, Activity!Refresh, Activity!historyVars,
         Activity!pageVars, Activity!clearVars
<1>2. PageTypes'
  BY <1>0
     DEF PageParts, PageTypes, Activity!Views, Activity!FirstRefresh, Activity!Refresh,
         Activity!historyVars, Activity!pageVars, Activity!clearVars
<1>3. RequestTypes'
  BY <1>0
     DEF PageParts, Counters, RequestTypes, Activity!FirstRefresh, Activity!Refresh,
         Activity!historyVars, Activity!pageVars, Activity!clearVars
<1>4. Activity!RefreshesOwed'
  BY <1>0
     DEF PageParts, Counters, PageTypes, Activity!RefreshesOwed, Activity!Owed,
         Activity!FirstRefresh, Activity!Refresh, Activity!historyVars, Activity!pageVars,
         Activity!clearVars
<1>5. Activity!AnswersCurrent'
  BY <1>0
     DEF PageParts, Counters, RequestTypes, Activity!AnswersCurrent, Activity!FirstRefresh,
         Activity!Refresh, Activity!historyVars, Activity!pageVars, Activity!clearVars
<1>6. Activity!ClearedNotShown'
  BY <1>0
     DEF PageParts, Counters, Activity!AnswersCurrent, Activity!ClearedNotShown,
         Activity!FirstRefresh, Activity!Refresh, Activity!historyVars, Activity!pageVars,
         Activity!clearVars
<1> QED BY <1>1, <1>2, <1>3, <1>4, <1>5, <1>6, PageIntroNext DEF PageParts

LEMMA PageFireTimer ==
  ASSUME PageInv, Activity!FireTimer
  PROVE  PageInv'
<1>0. PageParts
  BY PageFacts DEF PageInv, PageParts
<1>1. Counters'
  BY <1>0, PageBounds
     DEF PageParts, Counters, Activity!FireTimer, Activity!Refresh, Activity!historyVars,
         Activity!pageVars, Activity!clearVars
<1>2. PageTypes'
  BY <1>0
     DEF PageParts, PageTypes, Activity!Views, Activity!FireTimer, Activity!Refresh,
         Activity!historyVars, Activity!pageVars, Activity!clearVars
<1>3. RequestTypes'
  BY <1>0
     DEF PageParts, Counters, RequestTypes, Activity!FireTimer, Activity!Refresh,
         Activity!historyVars, Activity!pageVars, Activity!clearVars
<1>4. Activity!RefreshesOwed'
  BY <1>0
     DEF PageParts, Counters, PageTypes, Activity!RefreshesOwed, Activity!Owed,
         Activity!FireTimer, Activity!Refresh, Activity!historyVars, Activity!pageVars,
         Activity!clearVars
<1>5. Activity!AnswersCurrent'
  BY <1>0
     DEF PageParts, Counters, RequestTypes, Activity!AnswersCurrent, Activity!FireTimer,
         Activity!Refresh, Activity!historyVars, Activity!pageVars, Activity!clearVars
<1>6. Activity!ClearedNotShown'
  BY <1>0
     DEF PageParts, Counters, Activity!AnswersCurrent, Activity!ClearedNotShown,
         Activity!FireTimer, Activity!Refresh, Activity!historyVars, Activity!pageVars,
         Activity!clearVars
<1> QED BY <1>1, <1>2, <1>3, <1>4, <1>5, <1>6, PageIntroNext DEF PageParts

LEMMA PageRetry ==
  ASSUME PageInv, Activity!Retry
  PROVE  PageInv'
<1>0. PageParts
  BY PageFacts DEF PageInv, PageParts
<1>1. Counters'
  BY <1>0, PageBounds
     DEF PageParts, Counters, Activity!Retry, Activity!Refresh, Activity!historyVars,
         Activity!pageVars, Activity!clearVars
<1>2. PageTypes'
  BY <1>0
     DEF PageParts, PageTypes, Activity!Views, Activity!Retry, Activity!Refresh,
         Activity!historyVars, Activity!pageVars, Activity!clearVars
<1>3. RequestTypes'
  BY <1>0
     DEF PageParts, Counters, RequestTypes, Activity!Retry, Activity!Refresh,
         Activity!historyVars, Activity!pageVars, Activity!clearVars
<1>4. Activity!RefreshesOwed'
  BY <1>0
     DEF PageParts, Counters, PageTypes, Activity!RefreshesOwed, Activity!Owed,
         Activity!Retry, Activity!Refresh, Activity!historyVars, Activity!pageVars,
         Activity!clearVars
<1>5. Activity!AnswersCurrent'
  BY <1>0
     DEF PageParts, Counters, RequestTypes, Activity!AnswersCurrent, Activity!Retry,
         Activity!Refresh, Activity!historyVars, Activity!pageVars, Activity!clearVars
<1>6. Activity!ClearedNotShown'
  BY <1>0
     DEF PageParts, Counters, Activity!AnswersCurrent, Activity!ClearedNotShown,
         Activity!Retry, Activity!Refresh, Activity!historyVars, Activity!pageVars,
         Activity!clearVars
<1> QED BY <1>1, <1>2, <1>3, <1>4, <1>5, <1>6, PageIntroNext DEF PageParts

LEMMA PageTakeAnswer ==
  ASSUME PageInv, Activity!TakeAnswer
  PROVE  PageInv'
<1>0. PageParts
  BY PageFacts DEF PageInv, PageParts
<1>1. Counters'
  BY <1>0, PageBounds
     DEF PageParts, Counters, Activity!TakeAnswer, Activity!Show, Activity!ViewOf,
         Activity!historyVars, Activity!pageVars, Activity!clearVars
<1>2. PageTypes'
  <2>1. PICK r \in requests :
          /\ r.answer # None
          /\ Activity!Show(r) \/ UNCHANGED <<entries, view, known>>
          /\ UNCHANGED <<Activity!historyVars, page, timer, Activity!clearVars, retries, reliable>>
    BY DEF Activity!TakeAnswer
  <2>2. r.answer = Activity!Failure \/ r.answer \subseteq 1..MaxRecords
    BY <1>0, <2>1 DEF PageParts, RequestTypes
  <2>3. entries' \subseteq 1..MaxRecords /\ view' \in Activity!Views /\ known' \in BOOLEAN
    BY <1>0, <2>1, <2>2 DEF PageParts, PageTypes, Activity!Show, Activity!ViewOf, Activity!Views
  <2> QED BY <1>0, <2>1, <2>3 DEF PageParts, PageTypes, Activity!historyVars, Activity!clearVars
<1>3. RequestTypes'
  BY <1>0
     DEF PageParts, Counters, RequestTypes, Activity!TakeAnswer, Activity!Show,
         Activity!ViewOf, Activity!historyVars, Activity!pageVars, Activity!clearVars
<1>4. Activity!RefreshesOwed'
  BY <1>0
     DEF PageParts, Counters, PageTypes, Activity!RefreshesOwed, Activity!Owed,
         Activity!TakeAnswer, Activity!Show, Activity!ViewOf, Activity!historyVars,
         Activity!pageVars, Activity!clearVars
<1>5. Activity!AnswersCurrent'
  BY <1>0
     DEF PageParts, Counters, RequestTypes, Activity!AnswersCurrent, Activity!TakeAnswer,
         Activity!Show, Activity!ViewOf, Activity!historyVars, Activity!pageVars,
         Activity!clearVars
<1>6. Activity!ClearedNotShown'
  BY <1>0
     DEF PageParts, Counters, Activity!AnswersCurrent, Activity!ClearedNotShown,
         Activity!TakeAnswer, Activity!Show, Activity!ViewOf, Activity!historyVars,
         Activity!pageVars, Activity!clearVars
<1> QED BY <1>1, <1>2, <1>3, <1>4, <1>5, <1>6, PageIntroNext DEF PageParts

LEMMA PageFilter ==
  ASSUME PageInv, Activity!Filter
  PROVE  PageInv'
<1>0. PageParts
  BY PageFacts DEF PageInv, PageParts
<1>1. Counters'
  BY <1>0, PageBounds
     DEF PageParts, Counters, Activity!Filter, Activity!ViewOf, Activity!historyVars,
         Activity!pageVars, Activity!clearVars
<1>2. PageTypes'
  BY <1>0
     DEF PageParts, PageTypes, Activity!Views, Activity!Filter, Activity!ViewOf,
         Activity!historyVars, Activity!pageVars, Activity!clearVars
<1>3. RequestTypes'
  BY <1>0
     DEF PageParts, Counters, RequestTypes, Activity!Filter, Activity!ViewOf,
         Activity!historyVars, Activity!pageVars, Activity!clearVars
<1>4. Activity!RefreshesOwed'
  BY <1>0
     DEF PageParts, Counters, PageTypes, Activity!RefreshesOwed, Activity!Owed,
         Activity!Filter, Activity!ViewOf, Activity!historyVars, Activity!pageVars,
         Activity!clearVars
<1>5. Activity!AnswersCurrent'
  BY <1>0
     DEF PageParts, Counters, RequestTypes, Activity!AnswersCurrent, Activity!Filter,
         Activity!ViewOf, Activity!historyVars, Activity!pageVars, Activity!clearVars
<1>6. Activity!ClearedNotShown'
  BY <1>0
     DEF PageParts, Counters, Activity!AnswersCurrent, Activity!ClearedNotShown,
         Activity!Filter, Activity!ViewOf, Activity!historyVars, Activity!pageVars,
         Activity!clearVars
<1> QED BY <1>1, <1>2, <1>3, <1>4, <1>5, <1>6, PageIntroNext DEF PageParts

LEMMA PageClear ==
  ASSUME PageInv, Activity!Clear
  PROVE  PageInv'
<1>0. PageParts
  BY PageFacts DEF PageInv, PageParts
<1>1. Counters'
  BY <1>0, PageBounds
     DEF PageParts, Counters, Activity!Clear, Activity!historyVars, Activity!pageVars,
         Activity!clearVars
<1>2. PageTypes'
  BY <1>0
     DEF PageParts, PageTypes, Activity!Views, Activity!Clear, Activity!historyVars,
         Activity!pageVars, Activity!clearVars
<1>3. RequestTypes'
  BY <1>0
     DEF PageParts, Counters, RequestTypes, Activity!Clear, Activity!historyVars,
         Activity!pageVars, Activity!clearVars
<1>4. Activity!RefreshesOwed'
  BY <1>0
     DEF PageParts, Counters, PageTypes, Activity!RefreshesOwed, Activity!Owed,
         Activity!Clear, Activity!historyVars, Activity!pageVars, Activity!clearVars
<1>5. Activity!AnswersCurrent'
  BY <1>0
     DEF PageParts, Counters, RequestTypes, Activity!AnswersCurrent, Activity!Clear,
         Activity!historyVars, Activity!pageVars, Activity!clearVars
<1>6. Activity!ClearedNotShown'
  BY <1>0
     DEF PageParts, Counters, Activity!AnswersCurrent, Activity!ClearedNotShown,
         Activity!Clear, Activity!historyVars, Activity!pageVars, Activity!clearVars
<1> QED BY <1>1, <1>2, <1>3, <1>4, <1>5, <1>6, PageIntroNext DEF PageParts

LEMMA PageClearAnswered ==
  ASSUME PageInv, Activity!ClearAnswered
  PROVE  PageInv'
<1>0. PageParts
  BY PageFacts DEF PageInv, PageParts
<1>1. Counters'
  BY <1>0, PageBounds
     DEF PageParts, Counters, Activity!ClearAnswered, Activity!historyVars,
         Activity!pageVars, Activity!clearVars
<1>2. PageTypes'
  BY <1>0
     DEF PageParts, PageTypes, Activity!Views, Activity!ClearAnswered, Activity!historyVars,
         Activity!pageVars, Activity!clearVars
<1>3. RequestTypes'
  BY <1>0
     DEF PageParts, Counters, RequestTypes, Activity!ClearAnswered, Activity!historyVars,
         Activity!pageVars, Activity!clearVars
<1>4. Activity!RefreshesOwed'
  BY <1>0
     DEF PageParts, Counters, PageTypes, Activity!RefreshesOwed, Activity!Owed,
         Activity!ClearAnswered, Activity!historyVars, Activity!pageVars, Activity!clearVars
<1>5. Activity!AnswersCurrent'
  BY <1>0
     DEF PageParts, Counters, RequestTypes, Activity!AnswersCurrent, Activity!ClearAnswered,
         Activity!historyVars, Activity!pageVars, Activity!clearVars
<1>6. Activity!ClearedNotShown'
  BY <1>0
     DEF Counters, Activity!AnswersCurrent, Activity!ClearedNotShown,
         Activity!ClearAnswered, Activity!historyVars, Activity!pageVars, Activity!clearVars
<1> QED BY <1>1, <1>2, <1>3, <1>4, <1>5, <1>6, PageIntroNext DEF PageParts

LEMMA PageClearRefused ==
  ASSUME PageInv, Activity!ClearRefused
  PROVE  PageInv'
<1>0. PageParts
  BY PageFacts DEF PageInv, PageParts
<1>1. Counters'
  BY <1>0, PageBounds
     DEF PageParts, Counters, Activity!ClearRefused, Activity!historyVars,
         Activity!pageVars, Activity!clearVars
<1>2. PageTypes'
  BY <1>0
     DEF PageParts, PageTypes, Activity!Views, Activity!ClearRefused, Activity!historyVars,
         Activity!pageVars, Activity!clearVars
<1>3. RequestTypes'
  BY <1>0
     DEF PageParts, Counters, RequestTypes, Activity!ClearRefused, Activity!historyVars,
         Activity!pageVars, Activity!clearVars
<1>4. Activity!RefreshesOwed'
  BY <1>0
     DEF PageParts, Counters, PageTypes, Activity!RefreshesOwed, Activity!Owed,
         Activity!ClearRefused, Activity!historyVars, Activity!pageVars, Activity!clearVars
<1>5. Activity!AnswersCurrent'
  BY <1>0
     DEF PageParts, Counters, RequestTypes, Activity!AnswersCurrent, Activity!ClearRefused,
         Activity!historyVars, Activity!pageVars, Activity!clearVars
<1>6. Activity!ClearedNotShown'
  BY <1>0
     DEF PageParts, Counters, Activity!AnswersCurrent, Activity!ClearedNotShown,
         Activity!ClearRefused, Activity!historyVars, Activity!pageVars, Activity!clearVars
<1> QED BY <1>1, <1>2, <1>3, <1>4, <1>5, <1>6, PageIntroNext DEF PageParts
-----------------------------------------------------------------------------
(* MacTray                                                                 *)

LEMMA MacBounds ==
  /\ MaxCount \in Nat /\ MacFrame \in Nat /\ MaxChanges \in Nat /\ MaxEvents \in Nat
  /\ CliStates \subseteq Mac!SyncStates /\ Nothing \notin BOOLEAN
  BY ScreenAssumption DEF Mac!MacAssumption, Mac!MenuAssumption

\* The parts of the type invariant.
StateTypes == state \in Mac!TrayState
ShownTypes ==
  /\ reading \subseteq Mac!Tasks /\ using \subseteq Mac!Tasks
  /\ shown = [f \in Mac!Items |-> shown[f]]
  /\ attached \in BOOLEAN /\ builder \in Mac!Tasks /\ icon \in Mac!SyncStates
CallTypes ==
  /\ todo \in [Mac!Tasks -> Seq(Mac!Calling)] /\ pc \in [Mac!Tasks -> Mac!Steps]
  /\ local = [t \in Mac!Tasks |-> local[t]]
  /\ \A t \in Mac!Tasks : pc[t] = "idle" \/ todo[t] # <<>>
Bounded == changes \in 0..MaxChanges /\ events \in 0..MaxEvents
AppTypes ==
  /\ app \in Mac!Snapshots /\ seen \in Mac!Snapshots /\ Bounded
  /\ frame \in 0..MacFrame /\ {dirty, running} \subseteq BOOLEAN

LEMMA MacTypes == Mac!TypeOK <=> StateTypes /\ ShownTypes /\ CallTypes /\ AppTypes
  BY DEF Mac!TypeOK, StateTypes, ShownTypes, CallTypes, AppTypes, Bounded

\* The parts of MacInv, which the steps below keep one by one.
MacParts ==
  /\ StateTypes /\ ShownTypes /\ CallTypes /\ AppTypes
  /\ Mac!Rebuild /\ Mac!FirstMenu /\ Mac!MenuFollows /\ Mac!TransferFollows

LEMMA MacPartsInv == MacParts <=> Mac!MacInv
  BY MacTypes DEF MacParts, Mac!MacInv

\* What a call carries.
LEMMA CallFields ==
  ASSUME NEW c \in Mac!Calling
  PROVE  /\ c.op = "icon" => c.arg \in Mac!SyncStates /\ c.frame \in 0..MacFrame
         /\ c.op = "status" => c.arg \in Mac!SyncStates
         /\ c.op = "count" => c.arg \in 0..MaxCount
         /\ c.op = "synced" => c.arg \in Times \cup {Nothing}
         /\ c.op = "transfer" => c.arg \in Transfers \cup {Nothing}
         /\ c.op = "login" => c.arg \in BOOLEAN
  BY DEF Mac!Calling

LEMMA FirstCall ==
  ASSUME CallTypes, NEW t \in Mac!Tasks, todo[t] # <<>>
  PROVE  Mac!First(t) \in Mac!Calling /\ Mac!First(t) = todo[t][1] /\ Len(todo[t]) \in Nat \ {0}
<1>1. todo[t] \in Seq(Mac!Calling)
  BY DEF CallTypes
<1> QED BY <1>1 DEF Mac!First

\* The next step of the same call.
LEMMA GotoEffect ==
  ASSUME CallTypes, NEW t \in Mac!Tasks, NEW s \in Mac!Steps, todo[t] # <<>>, Mac!Goto(t, s),
         local' = [u \in Mac!Tasks |-> local'[u]]
  PROVE  /\ CallTypes' /\ todo' = todo /\ pc'[t] = s
         /\ \A u \in Mac!Tasks : u # t => pc'[u] = pc[u]
  BY DEF CallTypes, Mac!Goto

\* The end of the call: the next one is the first.
LEMMA DoneEffect ==
  ASSUME CallTypes, NEW t \in Mac!Tasks, todo[t] # <<>>, Mac!Done(t),
         local' = [u \in Mac!Tasks |-> local'[u]]
  PROVE  /\ CallTypes' /\ pc'[t] = "idle"
         /\ \A u \in Mac!Tasks : u # t => pc'[u] = pc[u] /\ todo'[u] = todo[u]
         /\ Len(todo'[t]) \in Nat /\ Len(todo[t]) = Len(todo'[t]) + 1
         /\ \A i \in 1..Len(todo'[t]) : todo'[t][i] = todo[t][i + 1]
<1>1. todo[t] \in Seq(Mac!Calling) /\ todo[t] # <<>>
  BY DEF CallTypes
<1>2. /\ Tail(todo[t]) \in Seq(Mac!Calling) /\ Len(Tail(todo[t])) \in Nat
      /\ Len(todo[t]) = Len(Tail(todo[t])) + 1
      /\ \A i \in 1..Len(Tail(todo[t])) : Tail(todo[t])[i] = todo[t][i + 1]
  BY <1>1
<1>3. /\ todo' = [todo EXCEPT ![t] = Tail(todo[t])] /\ pc' = [pc EXCEPT ![t] = "idle"]
  BY DEF Mac!Done
<1>4. /\ todo'[t] = Tail(todo[t]) /\ pc'[t] = "idle"
      /\ \A u \in Mac!Tasks : u # t => pc'[u] = pc[u] /\ todo'[u] = todo[u]
  BY <1>3 DEF CallTypes
<1>5. CallTypes'
  BY <1>2, <1>3, <1>4 DEF CallTypes, Mac!Steps
<1> QED BY <1>2, <1>4, <1>5

\* Items are set in the menu on display, or in one that is not.
LEMMA SetItemEffect ==
  ASSUME ShownTypes, NEW fields, Mac!SetItem(fields)
  PROVE  /\ shown' = [f \in Mac!Items |-> shown'[f]]
         /\ \A f \in Mac!Items :
              shown'[f] = IF attached /\ f \in DOMAIN fields THEN fields[f] ELSE shown[f]
<1>1. DOMAIN shown = Mac!Items
  BY DEF ShownTypes
<1> QED BY <1>1 DEF ShownTypes, Mac!SetItem

\* What a step within a call does to the calls of its task: the same one goes
\* on, or it ends; what FirstMenu and TransferFollows say of them stays.
LEMMA StepCalls ==
  ASSUME MacParts, NEW t \in Mac!Tasks, todo[t] # <<>>,
         (\E s \in Mac!Steps : Mac!Goto(t, s)) \/ Mac!Done(t),
         local' = [u \in Mac!Tasks |-> local'[u]]
  PROVE  /\ CallTypes'
         /\ \A u \in Mac!Tasks : u # t => pc'[u] = pc[u] /\ todo'[u] = todo[u]
         /\ \/ todo'[t] = todo[t]
            \/ /\ pc'[t] = "idle"
               /\ Len(todo'[t]) \in Nat /\ Len(todo[t]) = Len(todo'[t]) + 1
               /\ \A i \in 1..Len(todo'[t]) : todo'[t][i] = todo[t][i + 1]
<1>1. CallTypes
  BY DEF MacParts
<1>2. ASSUME NEW s \in Mac!Steps, Mac!Goto(t, s)
      PROVE  CallTypes' /\ todo' = todo /\ \A u \in Mac!Tasks : u # t => pc'[u] = pc[u]
  BY <1>1, <1>2, GotoEffect
<1>3. CASE \E s \in Mac!Steps : Mac!Goto(t, s)
  BY <1>2, <1>3
<1>4. CASE Mac!Done(t)
  BY <1>1, <1>4, DoneEffect
<1> QED BY <1>3, <1>4

LEMMA StepKeeps ==
  ASSUME MacParts, NEW t \in Mac!Tasks, todo[t] # <<>>,
         (\E s \in Mac!Steps : Mac!Goto(t, s)) \/ Mac!Done(t),
         local' = [u \in Mac!Tasks |-> local'[u]]
  PROVE  /\ \A u \in Mac!Tasks : \A i \in 1..Len(todo'[u]) :
              /\ todo'[u][i].op = "login" =>
                   i = 1 /\ u # "loop" /\ (u = t => todo'[t] = todo[t])
              /\ u = "autostart" /\ todo'[u][i].op = "boot" =>
                   i = 1 /\ (u = t => todo'[t] = todo[t])
              /\ todo'[u][i].op = "transfer" => u = "loop" /\ todo'[u][i].arg = seen.transfer
         /\ \A u \in Mac!Tasks : u # t =>
              \A S : Mac!Rebuilding(u, S)' <=> Mac!Rebuilding(u, S)
         /\ todo'[t] = todo[t] \/ \A S : ~Mac!Rebuilding(t, S)'
         /\ Mac!At("autostart", "boot", "idle")' =>
              IF t = "autostart" THEN Mac!First(t).op = "boot"
                                 ELSE Mac!At("autostart", "boot", "idle")
<1>1. /\ CallTypes'
      /\ \A u \in Mac!Tasks : u # t => pc'[u] = pc[u] /\ todo'[u] = todo[u]
      /\ \/ todo'[t] = todo[t]
         \/ /\ pc'[t] = "idle"
            /\ Len(todo'[t]) \in Nat /\ Len(todo[t]) = Len(todo'[t]) + 1
            /\ \A i \in 1..Len(todo'[t]) : todo'[t][i] = todo[t][i + 1]
  BY StepCalls
<1>2. /\ \A u \in Mac!Tasks : \A i \in 1..Len(todo[u]) :
           /\ todo[u][i].op = "login" => i = 1 /\ u # "loop"
           /\ u = "autostart" /\ todo[u][i].op = "boot" => i = 1
           /\ todo[u][i].op = "transfer" => u = "loop" /\ todo[u][i].arg = seen.transfer
  BY DEF MacParts, Mac!FirstMenu, Mac!TransferFollows
<1>3. ASSUME NEW u \in Mac!Tasks, NEW i \in 1..Len(todo'[u])
      PROVE  /\ todo'[u][i].op = "login" =>
                  i = 1 /\ u # "loop" /\ (u = t => todo'[t] = todo[t])
             /\ u = "autostart" /\ todo'[u][i].op = "boot" =>
                  i = 1 /\ (u = t => todo'[t] = todo[t])
             /\ todo'[u][i].op = "transfer" => u = "loop" /\ todo'[u][i].arg = seen.transfer
  <2>1. CASE todo'[u] = todo[u]
    <3>1. i \in 1..Len(todo[u]) /\ todo'[u][i] = todo[u][i] /\ (u = t => todo'[t] = todo[t])
      BY <2>1
    <3> QED BY <1>2, <3>1
  <2>2. CASE /\ u = t /\ Len(todo'[t]) \in Nat /\ Len(todo[t]) = Len(todo'[t]) + 1
             /\ \A j \in 1..Len(todo'[t]) : todo'[t][j] = todo[t][j + 1]
    <3>1. i \in Nat /\ i >= 1 /\ i + 1 \in 1..Len(todo[u]) /\ i + 1 # 1
          /\ todo'[u][i] = todo[u][i + 1]
      BY <2>2
    <3> QED BY <1>2, <3>1
  <2> QED BY <1>1, <2>1, <2>2
<1>4. \A u \in Mac!Tasks : u # t => \A S : Mac!Rebuilding(u, S)' <=> Mac!Rebuilding(u, S)
  BY <1>1 DEF Mac!Rebuilding, Mac!First
<1>5. \A u \in Mac!Tasks : todo'[u] # <<>> =>
        1 \in 1..Len(todo'[u]) /\ Mac!First(u)' = todo'[u][1]
  <2> SUFFICES ASSUME NEW u \in Mac!Tasks, todo'[u] # <<>>
               PROVE  1 \in 1..Len(todo'[u]) /\ Mac!First(u)' = todo'[u][1]
    OBVIOUS
  <2>1. todo'[u] \in Seq(Mac!Calling)
    BY <1>1 DEF CallTypes
  <2> QED BY <2>1 DEF Mac!First
<1>6. todo'[t] = todo[t] \/ \A S : ~Mac!Rebuilding(t, S)'
  BY <1>3, <1>5 DEF Mac!Rebuilding
<1>7. ASSUME Mac!At("autostart", "boot", "idle")'
      PROVE  IF t = "autostart" THEN Mac!First(t).op = "boot"
                                ELSE Mac!At("autostart", "boot", "idle")
  <2>1. "autostart" \in Mac!Tasks
    BY DEF Mac!Tasks
  <2>2. CASE t = "autostart"
    BY <1>3, <1>5, <1>7, <2>1, <2>2 DEF Mac!At, Mac!First
  <2>3. CASE t # "autostart"
    BY <1>1, <1>7, <2>1, <2>3 DEF Mac!At, Mac!First
  <2> QED BY <2>2, <2>3
<1> QED BY <1>3, <1>4, <1>6, <1>7

\* A step within a call that is neither of the login nor of the transfer: it
\* leaves what the invariants are about, and goes on or ends the call.
DrawStep(t) ==
  /\ todo[t] # <<>> /\ Mac!First(t).op \in {"icon", "status", "count", "synced", "launch", "resume"}
  /\ (\E s \in Mac!Steps : Mac!Goto(t, s)) \/ Mac!Done(t)
  /\ state'.login = state.login /\ state'.transfer = state.transfer
  /\ shown'.actions = shown.actions /\ shown'.transfer = shown.transfer
  /\ shown' = [f \in Mac!Items |-> shown'[f]]
  /\ local' = [u \in Mac!Tasks |-> local'[u]]
  /\ \A u \in Mac!Tasks : u # t => local'[u] = local[u] /\ (u \in reading => u \in reading')
  /\ UNCHANGED <<attached, builder, seen>>
  /\ (dirty => dirty') /\ (dirty' \/ app' = app)

\* The task that draws is in no rebuild, before or after.
LEMMA DrawRebuilding ==
  ASSUME MacParts, NEW t \in Mac!Tasks, DrawStep(t)
  PROVE  \A S : ~Mac!Rebuilding(t, S) /\ ~Mac!Rebuilding(t, S)'
<1>1. Mac!First(t).op # "login" /\ todo[t] # <<>>
  BY DEF DrawStep
<1>2. todo'[t] = todo[t] \/ \A S : ~Mac!Rebuilding(t, S)'
  BY StepKeeps DEF DrawStep
<1> QED BY <1>1, <1>2 DEF Mac!Rebuilding, Mac!First

LEMMA DrawRebuild ==
  ASSUME MacParts, NEW t \in Mac!Tasks, DrawStep(t)
  PROVE  Mac!Rebuild'
<1>1. /\ \A S : ~Mac!Rebuilding(t, S)' /\ ~Mac!Rebuilding(t, S)
      /\ \A u \in Mac!Tasks : u # t => \A S : Mac!Rebuilding(u, S)' <=> Mac!Rebuilding(u, S)
  BY DrawRebuilding, StepKeeps DEF DrawStep
<1>2. /\ state'.login = state.login /\ state'.transfer = state.transfer
      /\ shown'.actions = shown.actions /\ shown'.transfer = shown.transfer
      /\ shown' = [f \in Mac!Items |-> shown'[f]] /\ attached' = attached /\ builder' = builder
      /\ \A u \in Mac!Tasks : u # t => local'[u] = local[u] /\ (u \in reading => u \in reading')
  BY DEF DrawStep
<1>3. Mac!Rebuild
  BY DEF MacParts
<1>4. ASSUME NEW u \in Mac!Tasks, Mac!Rebuilding(u, {"replace", "items"})' PROVE u \in reading'
  BY <1>1, <1>2, <1>3, <1>4 DEF Mac!Rebuild
<1>5. ASSUME NEW u \in Mac!Tasks, Mac!Rebuilding(u, {"replace"})' PROVE Mac!MenuCurrent(local[u])'
  <2>1. u # t /\ Mac!MenuCurrent(local[u])
    BY <1>1, <1>3, <1>5 DEF Mac!Rebuild
  <2> QED BY <1>2, <2>1 DEF Mac!MenuCurrent
<1>6. ASSUME NEW u \in Mac!Tasks, Mac!Rebuilding(u, {"items"})'
      PROVE  Mac!MenuCurrent(shown)' /\ builder' = u /\ ~attached'
  <2>1. Mac!MenuCurrent(shown) /\ builder = u /\ ~attached
    BY <1>1, <1>3, <1>6 DEF Mac!Rebuild
  <2> QED BY <1>2, <2>1 DEF Mac!MenuCurrent
<1>7. ASSUME NEW u \in Mac!Tasks, Mac!Rebuilding(u, {"build", "replace", "items"})',
             NEW v \in Mac!Tasks \ {u}, Mac!Rebuilding(v, {"build", "replace", "items"})'
      PROVE  FALSE
  BY <1>1, <1>3, <1>7 DEF Mac!Rebuild
<1>8. attached' \/ \E u \in Mac!Tasks : Mac!Rebuilding(u, {"items"})'
  BY <1>1, <1>2, <1>3 DEF Mac!Rebuild
<1> QED BY <1>4, <1>5, <1>6, <1>7, <1>8 DEF Mac!Rebuild

LEMMA DrawFirstMenu ==
  ASSUME MacParts, NEW t \in Mac!Tasks, DrawStep(t)
  PROVE  Mac!FirstMenu'
<1>1. /\ \A u \in Mac!Tasks : \A i \in 1..Len(todo'[u]) :
           /\ todo'[u][i].op = "login" => i = 1 /\ u # "loop"
           /\ u = "autostart" /\ todo'[u][i].op = "boot" => i = 1
      /\ \A u \in Mac!Tasks : u # t => \A S : Mac!Rebuilding(u, S)' <=> Mac!Rebuilding(u, S)
      /\ Mac!At("autostart", "boot", "idle")' => Mac!At("autostart", "boot", "idle")
  BY StepKeeps DEF DrawStep
<1>2. \A S : ~Mac!Rebuilding(t, S) /\ ~Mac!Rebuilding(t, S)'
  BY DrawRebuilding
<1>3. \/ Mac!At("autostart", "boot", "idle") \/ Mac!Rebuilding("autostart", {"idle", "build", "replace"})
      => shown.actions = Mac!Always /\ ~Mac!Rebuilding("handler", Mac!Steps)
  BY DEF MacParts, Mac!FirstMenu
<1>4. \/ Mac!At("autostart", "boot", "idle")' \/ Mac!Rebuilding("autostart", {"idle", "build", "replace"})'
      => shown'.actions = Mac!Always /\ ~Mac!Rebuilding("handler", Mac!Steps)'
  BY <1>1, <1>2, <1>3 DEF DrawStep, Mac!Tasks
<1>5. "autostart" \in Mac!Tasks
  BY DEF Mac!Tasks
<1> QED BY <1>1, <1>4, <1>5 DEF Mac!FirstMenu

LEMMA DrawTransfer ==
  ASSUME MacParts, NEW t \in Mac!Tasks, DrawStep(t)
  PROVE  /\ Mac!At("loop", "transfer", "read")' <=> Mac!At("loop", "transfer", "read")
         /\ Mac!TransferFollows'
<1>1. /\ CallTypes'
      /\ \A u \in Mac!Tasks : u # t => pc'[u] = pc[u] /\ todo'[u] = todo[u]
      /\ \/ todo'[t] = todo[t]
         \/ /\ pc'[t] = "idle"
            /\ Len(todo'[t]) \in Nat /\ Len(todo[t]) = Len(todo'[t]) + 1
            /\ \A i \in 1..Len(todo'[t]) : todo'[t][i] = todo[t][i + 1]
  BY StepCalls DEF DrawStep
<1>2. Mac!TransferFollows
  BY DEF MacParts
<1>3. /\ todo[t] # <<>> /\ todo[t][1].op # "transfer" /\ Mac!First(t) = todo[t][1]
  BY FirstCall DEF MacParts, DrawStep
<1>4. \A u \in Mac!Tasks : \A i \in 1..Len(todo'[u]) :
        todo'[u][i].op = "transfer" => u = "loop" /\ todo'[u][i].arg = seen'.transfer
  BY StepKeeps DEF DrawStep
<1>5. Mac!At("loop", "transfer", "read")' <=> Mac!At("loop", "transfer", "read")
  BY <1>1, <1>3 DEF Mac!At, Mac!First, Mac!Tasks
<1>6. Mac!At("loop", "transfer", "read")' => Mac!First("loop")'.arg = state'.transfer
  BY <1>1, <1>2, <1>3 DEF Mac!TransferFollows, Mac!At, Mac!First, DrawStep, Mac!Tasks
<1>7. ~dirty' => seen' = app'
  BY <1>2 DEF DrawStep, Mac!TransferFollows
<1>8. \/ state'.transfer = seen'.transfer
       \/ \E i \in 1..Len(todo'["loop"]) : todo'["loop"][i].op = "transfer"
  <2>1. state'.transfer = state.transfer /\ seen' = seen
    BY DEF DrawStep
  <2>2. CASE state.transfer = seen.transfer
    BY <2>1, <2>2
  <2>3. ASSUME NEW i \in 1..Len(todo["loop"]), todo["loop"][i].op = "transfer"
        PROVE  \E j \in 1..Len(todo'["loop"]) : todo'["loop"][j].op = "transfer"
    <3>1. CASE todo'["loop"] = todo["loop"]
      BY <2>3, <3>1
    <3>2. CASE /\ t = "loop" /\ Len(todo'[t]) \in Nat /\ Len(todo[t]) = Len(todo'[t]) + 1
               /\ \A j \in 1..Len(todo'[t]) : todo'[t][j] = todo[t][j + 1]
      <4>1. i # 1 /\ i \in 1..Len(todo'["loop"]) + 1
        BY <1>3, <2>3, <3>2
      <4>2. i - 1 \in 1..Len(todo'["loop"]) /\ (i - 1) + 1 = i
        BY <4>1, <3>2
      <4>3. todo'["loop"][i - 1].op = "transfer"
        BY <2>3, <3>2, <4>2
      <4> QED BY <4>2, <4>3
    <3> QED BY <1>1, <3>1, <3>2 DEF Mac!Tasks
  <2> QED BY <1>2, <2>2, <2>3 DEF Mac!TransferFollows
<1> QED BY <1>4, <1>5, <1>6, <1>7, <1>8 DEF Mac!TransferFollows

\* So a draw step keeps all that is not a type.
LEMMA DrawKeeps ==
  ASSUME MacParts, NEW t \in Mac!Tasks, DrawStep(t)
  PROVE  CallTypes' /\ Mac!Rebuild' /\ Mac!FirstMenu' /\ Mac!MenuFollows' /\ Mac!TransferFollows'
<1>1. /\ Mac!At("loop", "transfer", "read")' <=> Mac!At("loop", "transfer", "read")
      /\ Mac!TransferFollows'
  BY DrawTransfer
<1>2. /\ ~Mac!Rebuilding(t, {"build", "replace"})
      /\ \A u \in Mac!Tasks : u # t =>
           (Mac!Rebuilding(u, {"build", "replace"})' <=> Mac!Rebuilding(u, {"build", "replace"}))
  BY DrawRebuilding, StepKeeps DEF DrawStep
<1>3. /\ state'.login = state.login /\ state'.transfer = state.transfer
      /\ shown'.actions = shown.actions /\ shown'.transfer = shown.transfer
  BY DEF DrawStep
<1>4. Mac!MenuFollows'
  BY <1>1, <1>2, <1>3 DEF MacParts, Mac!MenuFollows
<1>5. CallTypes'
  BY StepCalls DEF DrawStep
<1> QED BY <1>1, <1>4, <1>5, DrawRebuild, DrawFirstMenu

(* update_icon *)
LEMMA MacWriteIcon ==
  ASSUME MacParts, NEW t \in Mac!Tasks, Mac!WriteIcon(t)
  PROVE  MacParts'
<1>0. StateTypes /\ ShownTypes /\ CallTypes /\ AppTypes
  BY DEF MacParts
<1>1. todo[t] # <<>> /\ (Mac!First(t).op = "icon")
  BY DEF Mac!WriteIcon, Mac!At
<1>2. Mac!First(t) \in Mac!Calling
  BY <1>0, <1>1, FirstCall
<1>3. StateTypes' /\ state'.login = state.login /\ state'.transfer = state.transfer
  <2>1. Mac!First(t).arg \in Mac!SyncStates /\ Mac!First(t).frame \in 0..MacFrame
    BY <1>1, <1>2, CallFields
  <2> QED BY <1>0, <2>1 DEF Mac!WriteIcon, StateTypes, Mac!TrayState
<1>4. (\E s \in Mac!Steps : Mac!Goto(t, s)) \/ Mac!Done(t)
  BY DEF Mac!WriteIcon, Mac!Steps
<1>5. /\ local' = [u \in Mac!Tasks |-> local'[u]]
      /\ \A u \in Mac!Tasks : u # t => local'[u] = local[u] /\ (u \in reading => u \in reading')
  BY <1>0 DEF Mac!WriteIcon, Mac!trayVars, Mac!Compute, CallTypes
<1>6. /\ ShownTypes' /\ shown'.actions = shown.actions /\ shown'.transfer = shown.transfer
  BY <1>0, <1>2, CallFields, <1>1 DEF Mac!WriteIcon, Mac!trayVars, ShownTypes
<1>7. AppTypes' /\ UNCHANGED <<attached, builder, dirty, seen, app>>
  BY <1>0 DEF Mac!WriteIcon, Mac!trayVars, Mac!appVars, AppTypes, Bounded, Mac!counted
<1>8. DrawStep(t)
  BY <1>0, <1>1, <1>3, <1>4, <1>5, <1>6, <1>7 DEF DrawStep, ShownTypes
<1> QED BY <1>3, <1>6, <1>7, <1>8, DrawKeeps DEF MacParts

LEMMA MacReadIcon ==
  ASSUME MacParts, NEW t \in Mac!Tasks, Mac!ReadIcon(t)
  PROVE  MacParts'
<1>0. StateTypes /\ ShownTypes /\ CallTypes /\ AppTypes
  BY DEF MacParts
<1>1. todo[t] # <<>> /\ (Mac!First(t).op = "icon")
  BY DEF Mac!ReadIcon, Mac!At
<1>2. Mac!First(t) \in Mac!Calling
  BY <1>0, <1>1, FirstCall
<1>3. StateTypes' /\ state'.login = state.login /\ state'.transfer = state.transfer
  BY <1>0 DEF Mac!ReadIcon, Mac!trayVars, StateTypes
<1>4. (\E s \in Mac!Steps : Mac!Goto(t, s)) \/ Mac!Done(t)
  BY DEF Mac!ReadIcon, Mac!Steps
<1>5. /\ local' = [u \in Mac!Tasks |-> local'[u]]
      /\ \A u \in Mac!Tasks : u # t => local'[u] = local[u] /\ (u \in reading => u \in reading')
  BY <1>0 DEF Mac!ReadIcon, Mac!trayVars, Mac!Compute, CallTypes
<1>6. /\ ShownTypes' /\ shown'.actions = shown.actions /\ shown'.transfer = shown.transfer
  BY <1>0, <1>2, CallFields, <1>1 DEF Mac!ReadIcon, Mac!trayVars, ShownTypes
<1>7. AppTypes' /\ UNCHANGED <<attached, builder, dirty, seen, app>>
  BY <1>0 DEF Mac!ReadIcon, Mac!trayVars, Mac!appVars, AppTypes, Bounded, Mac!counted
<1>8. DrawStep(t)
  BY <1>0, <1>1, <1>3, <1>4, <1>5, <1>6, <1>7 DEF DrawStep, ShownTypes
<1> QED BY <1>3, <1>6, <1>7, <1>8, DrawKeeps DEF MacParts

LEMMA MacSetPendingItem ==
  ASSUME MacParts, NEW t \in Mac!Tasks, Mac!SetPendingItem(t)
  PROVE  MacParts'
<1>0. StateTypes /\ ShownTypes /\ CallTypes /\ AppTypes
  BY DEF MacParts
<1>1. todo[t] # <<>> /\ (Mac!First(t).op = "icon")
  BY DEF Mac!SetPendingItem, Mac!At
<1>2. Mac!First(t) \in Mac!Calling
  BY <1>0, <1>1, FirstCall
<1>3. StateTypes' /\ state'.login = state.login /\ state'.transfer = state.transfer
  BY <1>0 DEF Mac!SetPendingItem, Mac!trayVars, StateTypes
<1>4. (\E s \in Mac!Steps : Mac!Goto(t, s)) \/ Mac!Done(t)
  BY DEF Mac!SetPendingItem, Mac!Steps
<1>5. /\ local' = [u \in Mac!Tasks |-> local'[u]]
      /\ \A u \in Mac!Tasks : u # t => local'[u] = local[u] /\ (u \in reading => u \in reading')
  BY <1>0 DEF Mac!SetPendingItem, Mac!trayVars, Mac!Compute, CallTypes
<1>6. /\ ShownTypes' /\ shown'.actions = shown.actions /\ shown'.transfer = shown.transfer
  <2>1. PICK fields : Mac!SetItem(fields) /\ "actions" \notin DOMAIN fields /\ "transfer" \notin DOMAIN fields
    BY DEF Mac!SetPendingItem
  <2>2. shown' = [f \in Mac!Items |-> shown'[f]] /\ shown'.actions = shown.actions /\ shown'.transfer = shown.transfer
    BY <1>0, <2>1, SetItemEffect DEF Mac!Items
  <2> QED BY <1>0, <2>2 DEF Mac!SetPendingItem, ShownTypes
<1>7. AppTypes' /\ UNCHANGED <<attached, builder, dirty, seen, app>>
  BY <1>0 DEF Mac!SetPendingItem, Mac!trayVars, Mac!appVars, AppTypes, Bounded, Mac!counted
<1>8. DrawStep(t)
  BY <1>0, <1>1, <1>3, <1>4, <1>5, <1>6, <1>7 DEF DrawStep, ShownTypes
<1> QED BY <1>3, <1>6, <1>7, <1>8, DrawKeeps DEF MacParts

LEMMA MacSetPauseItem ==
  ASSUME MacParts, NEW t \in Mac!Tasks, Mac!SetPauseItem(t)
  PROVE  MacParts'
<1>0. StateTypes /\ ShownTypes /\ CallTypes /\ AppTypes
  BY DEF MacParts
<1>1. todo[t] # <<>> /\ (Mac!First(t).op = "icon")
  BY DEF Mac!SetPauseItem, Mac!At
<1>2. Mac!First(t) \in Mac!Calling
  BY <1>0, <1>1, FirstCall
<1>3. StateTypes' /\ state'.login = state.login /\ state'.transfer = state.transfer
  BY <1>0 DEF Mac!SetPauseItem, Mac!trayVars, StateTypes
<1>4. (\E s \in Mac!Steps : Mac!Goto(t, s)) \/ Mac!Done(t)
  BY DEF Mac!SetPauseItem, Mac!Steps
<1>5. /\ local' = [u \in Mac!Tasks |-> local'[u]]
      /\ \A u \in Mac!Tasks : u # t => local'[u] = local[u] /\ (u \in reading => u \in reading')
  BY <1>0 DEF Mac!SetPauseItem, Mac!trayVars, Mac!Compute, CallTypes
<1>6. /\ ShownTypes' /\ shown'.actions = shown.actions /\ shown'.transfer = shown.transfer
  <2>1. PICK fields : Mac!SetItem(fields) /\ "actions" \notin DOMAIN fields /\ "transfer" \notin DOMAIN fields
    BY DEF Mac!SetPauseItem
  <2>2. shown' = [f \in Mac!Items |-> shown'[f]] /\ shown'.actions = shown.actions /\ shown'.transfer = shown.transfer
    BY <1>0, <2>1, SetItemEffect DEF Mac!Items
  <2> QED BY <1>0, <2>2 DEF Mac!SetPauseItem, ShownTypes
<1>7. AppTypes' /\ UNCHANGED <<attached, builder, dirty, seen, app>>
  BY <1>0 DEF Mac!SetPauseItem, Mac!trayVars, Mac!appVars, AppTypes, Bounded, Mac!counted
<1>8. DrawStep(t)
  BY <1>0, <1>1, <1>3, <1>4, <1>5, <1>6, <1>7 DEF DrawStep, ShownTypes
<1> QED BY <1>3, <1>6, <1>7, <1>8, DrawKeeps DEF MacParts

LEMMA MacSetIcon ==
  ASSUME MacParts, NEW t \in Mac!Tasks, Mac!SetIcon(t)
  PROVE  MacParts'
<1>0. StateTypes /\ ShownTypes /\ CallTypes /\ AppTypes
  BY DEF MacParts
<1>1. todo[t] # <<>> /\ (Mac!First(t).op = "icon")
  BY DEF Mac!SetIcon, Mac!At
<1>2. Mac!First(t) \in Mac!Calling
  BY <1>0, <1>1, FirstCall
<1>3. StateTypes' /\ state'.login = state.login /\ state'.transfer = state.transfer
  BY <1>0 DEF Mac!SetIcon, Mac!trayVars, StateTypes
<1>4. (\E s \in Mac!Steps : Mac!Goto(t, s)) \/ Mac!Done(t)
  BY DEF Mac!SetIcon, Mac!Steps
<1>5. /\ local' = [u \in Mac!Tasks |-> local'[u]]
      /\ \A u \in Mac!Tasks : u # t => local'[u] = local[u] /\ (u \in reading => u \in reading')
  BY <1>0 DEF Mac!SetIcon, Mac!trayVars, Mac!Compute, CallTypes
<1>6. /\ ShownTypes' /\ shown'.actions = shown.actions /\ shown'.transfer = shown.transfer
  BY <1>0, <1>2, CallFields, <1>1 DEF Mac!SetIcon, Mac!trayVars, ShownTypes
<1>7. AppTypes' /\ UNCHANGED <<attached, builder, dirty, seen, app>>
  BY <1>0 DEF Mac!SetIcon, Mac!trayVars, Mac!appVars, AppTypes, Bounded, Mac!counted
<1>8. DrawStep(t)
  BY <1>0, <1>1, <1>3, <1>4, <1>5, <1>6, <1>7 DEF DrawStep, ShownTypes
<1> QED BY <1>3, <1>6, <1>7, <1>8, DrawKeeps DEF MacParts

(* update_status *)
LEMMA MacWriteStatus ==
  ASSUME MacParts, NEW t \in Mac!Tasks, Mac!WriteStatus(t)
  PROVE  MacParts'
<1>0. StateTypes /\ ShownTypes /\ CallTypes /\ AppTypes
  BY DEF MacParts
<1>1. todo[t] # <<>> /\ (Mac!First(t).op = "status")
  BY DEF Mac!WriteStatus, Mac!At
<1>2. Mac!First(t) \in Mac!Calling
  BY <1>0, <1>1, FirstCall
<1>3. StateTypes' /\ state'.login = state.login /\ state'.transfer = state.transfer
  <2>1. Mac!First(t).arg \in Mac!SyncStates
    BY <1>1, <1>2, CallFields
  <2> QED BY <1>0, <2>1 DEF Mac!WriteStatus, StateTypes, Mac!TrayState
<1>4. (\E s \in Mac!Steps : Mac!Goto(t, s)) \/ Mac!Done(t)
  BY DEF Mac!WriteStatus, Mac!Steps
<1>5. /\ local' = [u \in Mac!Tasks |-> local'[u]]
      /\ \A u \in Mac!Tasks : u # t => local'[u] = local[u] /\ (u \in reading => u \in reading')
  BY <1>0 DEF Mac!WriteStatus, Mac!trayVars, Mac!Compute, CallTypes
<1>6. /\ ShownTypes' /\ shown'.actions = shown.actions /\ shown'.transfer = shown.transfer
  BY <1>0, <1>2, CallFields, <1>1 DEF Mac!WriteStatus, Mac!trayVars, ShownTypes
<1>7. AppTypes' /\ UNCHANGED <<attached, builder, dirty, seen, app>>
  BY <1>0 DEF Mac!WriteStatus, Mac!trayVars, Mac!appVars, AppTypes, Bounded, Mac!counted
<1>8. DrawStep(t)
  BY <1>0, <1>1, <1>3, <1>4, <1>5, <1>6, <1>7 DEF DrawStep, ShownTypes
<1> QED BY <1>3, <1>6, <1>7, <1>8, DrawKeeps DEF MacParts

LEMMA MacSetStatusTip ==
  ASSUME MacParts, NEW t \in Mac!Tasks, Mac!SetStatusTip(t)
  PROVE  MacParts'
<1>0. StateTypes /\ ShownTypes /\ CallTypes /\ AppTypes
  BY DEF MacParts
<1>1. todo[t] # <<>> /\ (Mac!First(t).op = "status")
  BY DEF Mac!SetStatusTip, Mac!At
<1>2. Mac!First(t) \in Mac!Calling
  BY <1>0, <1>1, FirstCall
<1>3. StateTypes' /\ state'.login = state.login /\ state'.transfer = state.transfer
  BY <1>0 DEF Mac!SetStatusTip, Mac!trayVars, StateTypes
<1>4. (\E s \in Mac!Steps : Mac!Goto(t, s)) \/ Mac!Done(t)
  BY DEF Mac!SetStatusTip, Mac!Steps
<1>5. /\ local' = [u \in Mac!Tasks |-> local'[u]]
      /\ \A u \in Mac!Tasks : u # t => local'[u] = local[u] /\ (u \in reading => u \in reading')
  BY <1>0 DEF Mac!SetStatusTip, Mac!trayVars, Mac!Compute, CallTypes
<1>6. /\ ShownTypes' /\ shown'.actions = shown.actions /\ shown'.transfer = shown.transfer
  BY <1>0, <1>2, CallFields, <1>1 DEF Mac!SetStatusTip, Mac!trayVars, ShownTypes
<1>7. AppTypes' /\ UNCHANGED <<attached, builder, dirty, seen, app>>
  BY <1>0 DEF Mac!SetStatusTip, Mac!trayVars, Mac!appVars, AppTypes, Bounded, Mac!counted
<1>8. DrawStep(t)
  BY <1>0, <1>1, <1>3, <1>4, <1>5, <1>6, <1>7 DEF DrawStep, ShownTypes
<1> QED BY <1>3, <1>6, <1>7, <1>8, DrawKeeps DEF MacParts

LEMMA MacSetStatusItem ==
  ASSUME MacParts, NEW t \in Mac!Tasks, Mac!SetStatusItem(t)
  PROVE  MacParts'
<1>0. StateTypes /\ ShownTypes /\ CallTypes /\ AppTypes
  BY DEF MacParts
<1>1. todo[t] # <<>> /\ (Mac!First(t).op = "status")
  BY DEF Mac!SetStatusItem, Mac!At
<1>2. Mac!First(t) \in Mac!Calling
  BY <1>0, <1>1, FirstCall
<1>3. StateTypes' /\ state'.login = state.login /\ state'.transfer = state.transfer
  BY <1>0 DEF Mac!SetStatusItem, Mac!trayVars, StateTypes
<1>4. (\E s \in Mac!Steps : Mac!Goto(t, s)) \/ Mac!Done(t)
  BY DEF Mac!SetStatusItem, Mac!Steps
<1>5. /\ local' = [u \in Mac!Tasks |-> local'[u]]
      /\ \A u \in Mac!Tasks : u # t => local'[u] = local[u] /\ (u \in reading => u \in reading')
  BY <1>0 DEF Mac!SetStatusItem, Mac!trayVars, Mac!Compute, CallTypes
<1>6. /\ ShownTypes' /\ shown'.actions = shown.actions /\ shown'.transfer = shown.transfer
  <2>1. PICK fields : Mac!SetItem(fields) /\ "actions" \notin DOMAIN fields /\ "transfer" \notin DOMAIN fields
    BY DEF Mac!SetStatusItem
  <2>2. shown' = [f \in Mac!Items |-> shown'[f]] /\ shown'.actions = shown.actions /\ shown'.transfer = shown.transfer
    BY <1>0, <2>1, SetItemEffect DEF Mac!Items
  <2> QED BY <1>0, <2>2 DEF Mac!SetStatusItem, ShownTypes
<1>7. AppTypes' /\ UNCHANGED <<attached, builder, dirty, seen, app>>
  BY <1>0 DEF Mac!SetStatusItem, Mac!trayVars, Mac!appVars, AppTypes, Bounded, Mac!counted
<1>8. DrawStep(t)
  BY <1>0, <1>1, <1>3, <1>4, <1>5, <1>6, <1>7 DEF DrawStep, ShownTypes
<1> QED BY <1>3, <1>6, <1>7, <1>8, DrawKeeps DEF MacParts

(* update_pending_count and update_last_synced *)
LEMMA MacWriteCount ==
  ASSUME MacParts, NEW t \in Mac!Tasks, Mac!WriteField(t, "count")
  PROVE  MacParts'
<1>0. StateTypes /\ ShownTypes /\ CallTypes /\ AppTypes
  BY DEF MacParts
<1>1. todo[t] # <<>> /\ (Mac!First(t).op = "count")
  BY DEF Mac!WriteField, Mac!At
<1>2. Mac!First(t) \in Mac!Calling
  BY <1>0, <1>1, FirstCall
<1>3. StateTypes' /\ state'.login = state.login /\ state'.transfer = state.transfer
  <2>1. Mac!First(t).arg \in 0..MaxCount
    BY <1>1, <1>2, CallFields
  <2> QED BY <1>0, <2>1 DEF Mac!WriteField, StateTypes, Mac!TrayState
<1>4. (\E s \in Mac!Steps : Mac!Goto(t, s)) \/ Mac!Done(t)
  BY DEF Mac!WriteField, Mac!Steps
<1>5. /\ local' = [u \in Mac!Tasks |-> local'[u]]
      /\ \A u \in Mac!Tasks : u # t => local'[u] = local[u] /\ (u \in reading => u \in reading')
  BY <1>0 DEF Mac!WriteField, Mac!trayVars, Mac!Compute, CallTypes
<1>6. /\ ShownTypes' /\ shown'.actions = shown.actions /\ shown'.transfer = shown.transfer
  BY <1>0, <1>2, CallFields, <1>1 DEF Mac!WriteField, Mac!trayVars, ShownTypes
<1>7. AppTypes' /\ UNCHANGED <<attached, builder, dirty, seen, app>>
  BY <1>0 DEF Mac!WriteField, Mac!trayVars, Mac!appVars, AppTypes, Bounded, Mac!counted
<1>8. DrawStep(t)
  BY <1>0, <1>1, <1>3, <1>4, <1>5, <1>6, <1>7 DEF DrawStep, ShownTypes
<1> QED BY <1>3, <1>6, <1>7, <1>8, DrawKeeps DEF MacParts

LEMMA MacWriteSynced ==
  ASSUME MacParts, NEW t \in Mac!Tasks, Mac!WriteField(t, "synced")
  PROVE  MacParts'
<1>0. StateTypes /\ ShownTypes /\ CallTypes /\ AppTypes
  BY DEF MacParts
<1>1. todo[t] # <<>> /\ (Mac!First(t).op = "synced")
  BY DEF Mac!WriteField, Mac!At
<1>2. Mac!First(t) \in Mac!Calling
  BY <1>0, <1>1, FirstCall
<1>3. StateTypes' /\ state'.login = state.login /\ state'.transfer = state.transfer
  <2>1. Mac!First(t).arg \in Times \cup {Nothing}
    BY <1>1, <1>2, CallFields
  <2> QED BY <1>0, <2>1 DEF Mac!WriteField, StateTypes, Mac!TrayState
<1>4. (\E s \in Mac!Steps : Mac!Goto(t, s)) \/ Mac!Done(t)
  BY DEF Mac!WriteField, Mac!Steps
<1>5. /\ local' = [u \in Mac!Tasks |-> local'[u]]
      /\ \A u \in Mac!Tasks : u # t => local'[u] = local[u] /\ (u \in reading => u \in reading')
  BY <1>0 DEF Mac!WriteField, Mac!trayVars, Mac!Compute, CallTypes
<1>6. /\ ShownTypes' /\ shown'.actions = shown.actions /\ shown'.transfer = shown.transfer
  BY <1>0, <1>2, CallFields, <1>1 DEF Mac!WriteField, Mac!trayVars, ShownTypes
<1>7. AppTypes' /\ UNCHANGED <<attached, builder, dirty, seen, app>>
  BY <1>0 DEF Mac!WriteField, Mac!trayVars, Mac!appVars, AppTypes, Bounded, Mac!counted
<1>8. DrawStep(t)
  BY <1>0, <1>1, <1>3, <1>4, <1>5, <1>6, <1>7 DEF DrawStep, ShownTypes
<1> QED BY <1>3, <1>6, <1>7, <1>8, DrawKeeps DEF MacParts

LEMMA MacReadCount ==
  ASSUME MacParts, NEW t \in Mac!Tasks, Mac!ReadCount(t)
  PROVE  MacParts'
<1>0. StateTypes /\ ShownTypes /\ CallTypes /\ AppTypes
  BY DEF MacParts
<1>1. todo[t] # <<>> /\ (Mac!First(t).op = "count")
  BY DEF Mac!ReadCount, Mac!At
<1>2. Mac!First(t) \in Mac!Calling
  BY <1>0, <1>1, FirstCall
<1>3. StateTypes' /\ state'.login = state.login /\ state'.transfer = state.transfer
  BY <1>0 DEF Mac!ReadCount, Mac!trayVars, StateTypes
<1>4. (\E s \in Mac!Steps : Mac!Goto(t, s)) \/ Mac!Done(t)
  BY DEF Mac!ReadCount, Mac!Steps
<1>5. /\ local' = [u \in Mac!Tasks |-> local'[u]]
      /\ \A u \in Mac!Tasks : u # t => local'[u] = local[u] /\ (u \in reading => u \in reading')
  BY <1>0 DEF Mac!ReadCount, Mac!trayVars, Mac!Compute, CallTypes
<1>6. /\ ShownTypes' /\ shown'.actions = shown.actions /\ shown'.transfer = shown.transfer
  BY <1>0, <1>2, CallFields, <1>1 DEF Mac!ReadCount, Mac!trayVars, ShownTypes
<1>7. AppTypes' /\ UNCHANGED <<attached, builder, dirty, seen, app>>
  BY <1>0 DEF Mac!ReadCount, Mac!trayVars, Mac!appVars, AppTypes, Bounded, Mac!counted
<1>8. DrawStep(t)
  BY <1>0, <1>1, <1>3, <1>4, <1>5, <1>6, <1>7 DEF DrawStep, ShownTypes
<1> QED BY <1>3, <1>6, <1>7, <1>8, DrawKeeps DEF MacParts

LEMMA MacReadSynced ==
  ASSUME MacParts, NEW t \in Mac!Tasks, Mac!ReadSynced(t)
  PROVE  MacParts'
<1>0. StateTypes /\ ShownTypes /\ CallTypes /\ AppTypes
  BY DEF MacParts
<1>1. todo[t] # <<>> /\ (Mac!First(t).op = "synced")
  BY DEF Mac!ReadSynced, Mac!At
<1>2. Mac!First(t) \in Mac!Calling
  BY <1>0, <1>1, FirstCall
<1>3. StateTypes' /\ state'.login = state.login /\ state'.transfer = state.transfer
  BY <1>0 DEF Mac!ReadSynced, Mac!trayVars, StateTypes
<1>4. (\E s \in Mac!Steps : Mac!Goto(t, s)) \/ Mac!Done(t)
  BY DEF Mac!ReadSynced, Mac!Steps
<1>5. /\ local' = [u \in Mac!Tasks |-> local'[u]]
      /\ \A u \in Mac!Tasks : u # t => local'[u] = local[u] /\ (u \in reading => u \in reading')
  BY <1>0 DEF Mac!ReadSynced, Mac!trayVars, Mac!Compute, CallTypes
<1>6. /\ ShownTypes' /\ shown'.actions = shown.actions /\ shown'.transfer = shown.transfer
  BY <1>0, <1>2, CallFields, <1>1 DEF Mac!ReadSynced, Mac!trayVars, ShownTypes
<1>7. AppTypes' /\ UNCHANGED <<attached, builder, dirty, seen, app>>
  BY <1>0 DEF Mac!ReadSynced, Mac!trayVars, Mac!appVars, AppTypes, Bounded, Mac!counted
<1>8. DrawStep(t)
  BY <1>0, <1>1, <1>3, <1>4, <1>5, <1>6, <1>7 DEF DrawStep, ShownTypes
<1> QED BY <1>3, <1>6, <1>7, <1>8, DrawKeeps DEF MacParts

LEMMA MacSetPending ==
  ASSUME MacParts, NEW t \in Mac!Tasks, Mac!SetPending(t)
  PROVE  MacParts'
<1>0. StateTypes /\ ShownTypes /\ CallTypes /\ AppTypes
  BY DEF MacParts
<1>1. todo[t] # <<>> /\ (Mac!First(t).op = "count" \/ Mac!First(t).op = "synced")
  BY DEF Mac!SetPending, Mac!At
<1>2. Mac!First(t) \in Mac!Calling
  BY <1>0, <1>1, FirstCall
<1>3. StateTypes' /\ state'.login = state.login /\ state'.transfer = state.transfer
  BY <1>0 DEF Mac!SetPending, Mac!trayVars, StateTypes
<1>4. (\E s \in Mac!Steps : Mac!Goto(t, s)) \/ Mac!Done(t)
  BY DEF Mac!SetPending, Mac!Steps
<1>5. /\ local' = [u \in Mac!Tasks |-> local'[u]]
      /\ \A u \in Mac!Tasks : u # t => local'[u] = local[u] /\ (u \in reading => u \in reading')
  BY <1>0 DEF Mac!SetPending, Mac!trayVars, Mac!Compute, CallTypes
<1>6. /\ ShownTypes' /\ shown'.actions = shown.actions /\ shown'.transfer = shown.transfer
  <2>1. PICK fields : Mac!SetItem(fields) /\ "actions" \notin DOMAIN fields /\ "transfer" \notin DOMAIN fields
    BY DEF Mac!SetPending
  <2>2. shown' = [f \in Mac!Items |-> shown'[f]] /\ shown'.actions = shown.actions /\ shown'.transfer = shown.transfer
    BY <1>0, <2>1, SetItemEffect DEF Mac!Items
  <2> QED BY <1>0, <2>2 DEF Mac!SetPending, ShownTypes
<1>7. AppTypes' /\ UNCHANGED <<attached, builder, dirty, seen, app>>
  BY <1>0 DEF Mac!SetPending, Mac!trayVars, Mac!appVars, AppTypes, Bounded, Mac!counted
<1>8. DrawStep(t)
  BY <1>0, <1>1, <1>3, <1>4, <1>5, <1>6, <1>7 DEF DrawStep, ShownTypes
<1> QED BY <1>3, <1>6, <1>7, <1>8, DrawKeeps DEF MacParts

-----------------------------------------------------------------------------
(* update_current_transfer                                                 *)

\* The loop alone has it, with the transfer that was last seen.
LEMMA TransferTask ==
  ASSUME MacParts, NEW t \in Mac!Tasks, todo[t] # <<>>, Mac!First(t).op = "transfer"
  PROVE  /\ t = "loop" /\ Mac!First(t).arg = seen.transfer
         /\ \A S : ~Mac!Rebuilding(t, S)
<1>1. Mac!First(t) = todo[t][1] /\ 1 \in 1..Len(todo[t])
  BY FirstCall DEF MacParts
<1>2. t = "loop" /\ todo[t][1].arg = seen.transfer
  BY <1>1 DEF MacParts, Mac!TransferFollows
<1> QED BY <1>1, <1>2 DEF Mac!Rebuilding

\* A rebuild of another task goes on, and the first menu is not concerned.
LEMMA TransferRebuild ==
  ASSUME MacParts, todo["loop"] # <<>>, Mac!First("loop").op = "transfer",
         (\E s \in Mac!Steps : Mac!Goto("loop", s)) \/ Mac!Done("loop"),
         UNCHANGED <<local, attached, builder, reading>>, state'.login = state.login,
         shown'.actions = shown.actions, shown' = [f \in Mac!Items |-> shown'[f]],
         \A u \in Mac!Tasks :
           /\ Mac!Rebuilding(u, {"replace"}) => Mac!MenuCurrent(local[u])'
           /\ Mac!Rebuilding(u, {"items"}) => Mac!MenuCurrent(shown)'
  PROVE  Mac!Rebuild' /\ Mac!FirstMenu'
<1>0. "loop" \in Mac!Tasks /\ "autostart" \in Mac!Tasks /\ "handler" \in Mac!Tasks
  BY DEF Mac!Tasks
<1>1. local' = [u \in Mac!Tasks |-> local'[u]]
  BY DEF MacParts, CallTypes
<1>2. \A S : ~Mac!Rebuilding("loop", S)
  BY <1>0, TransferTask
<1>3. /\ \A u \in Mac!Tasks : \A i \in 1..Len(todo'[u]) :
           /\ todo'[u][i].op = "login" =>
                i = 1 /\ u # "loop" /\ (u = "loop" => todo'["loop"] = todo["loop"])
           /\ u = "autostart" /\ todo'[u][i].op = "boot" => i = 1
      /\ \A u \in Mac!Tasks : u # "loop" =>
           \A S : Mac!Rebuilding(u, S)' <=> Mac!Rebuilding(u, S)
      /\ todo'["loop"] = todo["loop"] \/ \A S : ~Mac!Rebuilding("loop", S)'
      /\ Mac!At("autostart", "boot", "idle")' => Mac!At("autostart", "boot", "idle")
  BY <1>0, <1>1, StepKeeps
<1>4. \A S : ~Mac!Rebuilding("loop", S)'
  BY <1>2, <1>3 DEF Mac!Rebuilding, Mac!First
<1>5. \A u \in Mac!Tasks : \A S : Mac!Rebuilding(u, S)' <=> Mac!Rebuilding(u, S)
  BY <1>2, <1>3, <1>4
<1>6. Mac!Rebuild'
  BY <1>5 DEF MacParts, Mac!Rebuild
<1>7. \/ Mac!At("autostart", "boot", "idle")' \/ Mac!Rebuilding("autostart", {"idle", "build", "replace"})'
      => shown'.actions = Mac!Always /\ ~Mac!Rebuilding("handler", Mac!Steps)'
  BY <1>0, <1>3, <1>5 DEF MacParts, Mac!FirstMenu
<1> QED BY <1>0, <1>3, <1>6, <1>7 DEF Mac!FirstMenu

LEMMA MacWriteTransfer ==
  ASSUME MacParts, NEW t \in Mac!Tasks, Mac!WriteField(t, "transfer")
  PROVE  MacParts'
<1>0. StateTypes /\ ShownTypes /\ CallTypes /\ AppTypes
  BY DEF MacParts
<1>1. todo[t] # <<>> /\ Mac!First(t).op = "transfer" /\ pc[t] = "idle" /\ reading = {}
  BY DEF Mac!WriteField, Mac!At, Mac!Writable
<1>2. t = "loop" /\ Mac!First(t).arg = seen.transfer /\ Mac!First(t) \in Mac!Calling
  BY <1>0, <1>1, TransferTask, FirstCall
<1>3. /\ StateTypes' /\ state'.login = state.login /\ state'.transfer = seen.transfer
      /\ (state' = state /\ Mac!Done(t)) \/ Mac!Goto(t, "read")
  <2>1. Mac!First(t).arg \in Transfers \cup {Nothing}
    BY <1>1, <1>2, CallFields
  <2> QED BY <1>0, <1>2, <2>1 DEF Mac!WriteField, StateTypes, Mac!TrayState
<1>4. /\ UNCHANGED <<reading, shown, builder, attached, using, icon, local>>
      /\ UNCHANGED <<app, dirty, seen, frame, running, Mac!counted>>
  BY DEF Mac!WriteField, Mac!appVars
<1>5. ShownTypes' /\ AppTypes'
  BY <1>0, <1>4 DEF ShownTypes, AppTypes, Bounded, Mac!counted
<1>6. (\E s \in Mac!Steps : Mac!Goto(t, s)) \/ Mac!Done(t)
  BY <1>3 DEF Mac!Steps
<1>7. \A u \in Mac!Tasks : ~Mac!Rebuilding(u, {"replace"}) /\ ~Mac!Rebuilding(u, {"items"})
  <2>1. \A u \in Mac!Tasks : ~Mac!Rebuilding(u, {"replace", "items"})
    BY <1>1 DEF MacParts, Mac!Rebuild
  <2> QED BY <2>1 DEF Mac!Rebuilding
<1>8. Mac!Rebuild' /\ Mac!FirstMenu'
  BY <1>0, <1>1, <1>2, <1>3, <1>4, <1>5, <1>6, <1>7, TransferRebuild DEF ShownTypes
<1>9. local' = [u \in Mac!Tasks |-> local'[u]]
  BY <1>0, <1>4 DEF CallTypes
<1>10. /\ CallTypes'
       /\ \A u \in Mac!Tasks : \A i \in 1..Len(todo'[u]) :
            todo'[u][i].op = "transfer" => u = "loop" /\ todo'[u][i].arg = seen.transfer
       /\ \A u \in Mac!Tasks : u # t =>
            \A S : Mac!Rebuilding(u, S)' <=> Mac!Rebuilding(u, S)
  BY <1>1, <1>6, <1>9, StepCalls, StepKeeps
<1>11. /\ Mac!Goto(t, "read") => Mac!At("loop", "transfer", "read")'
       /\ Mac!At("loop", "transfer", "read")' => Mac!First("loop")'.arg = state'.transfer
  <2>1. CASE Mac!Goto(t, "read")
    <3>1. pc'[t] = "read" /\ todo' = todo
      BY <1>0, <1>1, <1>9, <2>1, GotoEffect DEF Mac!Steps
    <3> QED BY <1>1, <1>2, <1>3, <3>1 DEF Mac!At, Mac!First
  <2>2. CASE Mac!Done(t) /\ ~Mac!Goto(t, "read")
    <3>1. pc'[t] = "idle"
      BY <1>0, <1>1, <1>9, <2>2, DoneEffect
    <3> QED BY <1>2, <2>2, <3>1 DEF Mac!At
  <2> QED BY <1>3, <2>1, <2>2
<1>12. Mac!TransferFollows'
  <2>1. ~dirty' => seen' = app'
    BY <1>4 DEF MacParts, Mac!TransferFollows
  <2>2. seen' = seen /\ state'.transfer = seen'.transfer
    BY <1>3, <1>4
  <2> QED BY <1>10, <1>11, <2>1, <2>2 DEF Mac!TransferFollows
<1>13. Mac!MenuFollows'
  <2>1. \/ shown'.actions = Mac!Actions(state'.login)
        \/ \E u \in Mac!Tasks : Mac!Rebuilding(u, {"build", "replace"})'
    <3>1. \/ shown.actions = Mac!Actions(state.login)
          \/ \E u \in Mac!Tasks : Mac!Rebuilding(u, {"build", "replace"})
      BY DEF MacParts, Mac!MenuFollows
    <3>2. ~Mac!Rebuilding(t, {"build", "replace"})
      BY <1>1 DEF Mac!Rebuilding
    <3> QED BY <1>3, <1>4, <1>10, <3>1, <3>2
  <2>2. CASE Mac!Goto(t, "read")
    BY <1>11, <2>1, <2>2 DEF Mac!MenuFollows
  <2>3. CASE state' = state /\ Mac!Done(t)
    <3>1. shown.transfer = Mac!TransferText(state.transfer)
      BY <1>1, <1>2 DEF MacParts, Mac!MenuFollows, Mac!At
    <3> QED BY <1>4, <2>1, <2>3, <3>1 DEF Mac!MenuFollows
  <2> QED BY <1>3, <2>2, <2>3
<1> QED BY <1>3, <1>5, <1>8, <1>10, <1>12, <1>13 DEF MacParts

LEMMA MacSetTransfer ==
  ASSUME MacParts, NEW t \in Mac!Tasks, Mac!SetTransfer(t)
  PROVE  MacParts'
<1>0. StateTypes /\ ShownTypes /\ CallTypes /\ AppTypes
  BY DEF MacParts
<1>1. todo[t] # <<>> /\ Mac!First(t).op = "transfer" /\ Mac!At(t, "transfer", "read")
  BY DEF Mac!SetTransfer, Mac!At
<1>2. t = "loop" /\ Mac!First(t).arg = seen.transfer /\ Mac!First(t).arg = state.transfer
  BY <1>1, TransferTask DEF MacParts, Mac!TransferFollows
<1>3. /\ Mac!Done(t) /\ Mac!SetItem([transfer |-> Mac!TransferText(state.transfer)])
      /\ UNCHANGED <<state, reading, builder, attached, using, icon, local>>
      /\ UNCHANGED <<app, dirty, seen, frame, running, Mac!counted>>
  BY <1>2 DEF Mac!SetTransfer, Mac!appVars
<1>4. /\ shown' = [f \in Mac!Items |-> shown'[f]] /\ shown'.actions = shown.actions
      /\ shown'.transfer = IF attached THEN Mac!TransferText(state.transfer) ELSE shown.transfer
  <2> DEFINE fields == [transfer |-> Mac!TransferText(state.transfer)]
  <2>1. DOMAIN fields = {"transfer"} /\ fields["transfer"] = Mac!TransferText(state.transfer)
    OBVIOUS
  <2>2. Mac!SetItem(fields)
    BY <1>3
  <2> HIDE DEF fields
  <2> QED BY <1>0, <2>1, <2>2, SetItemEffect DEF Mac!Items
<1>5. StateTypes' /\ ShownTypes' /\ AppTypes'
  BY <1>0, <1>3, <1>4 DEF StateTypes, ShownTypes, AppTypes, Bounded, Mac!counted
<1>6. shown'.transfer = Mac!TransferText(state'.transfer)
  <2>1. CASE attached
    BY <1>3, <1>4, <2>1
  <2>2. CASE ~attached
    <3>1. Mac!MenuCurrent(shown)
      BY <2>2 DEF MacParts, Mac!Rebuild
    <3> QED BY <1>3, <1>4, <2>2, <3>1 DEF Mac!MenuCurrent
  <2> QED BY <2>1, <2>2
<1>7. local' = [u \in Mac!Tasks |-> local'[u]]
  BY <1>0, <1>3 DEF CallTypes
<1>8. /\ CallTypes'
      /\ \A u \in Mac!Tasks : \A i \in 1..Len(todo'[u]) :
           todo'[u][i].op = "transfer" => u = "loop" /\ todo'[u][i].arg = seen.transfer
      /\ \A u \in Mac!Tasks : u # t =>
           \A S : Mac!Rebuilding(u, S)' <=> Mac!Rebuilding(u, S)
  BY <1>1, <1>3, <1>7, StepCalls, StepKeeps
<1>9. ASSUME NEW u \in Mac!Tasks
      PROVE  /\ Mac!Rebuilding(u, {"replace"}) => Mac!MenuCurrent(local[u])'
             /\ Mac!Rebuilding(u, {"items"}) => Mac!MenuCurrent(shown)'
  <2>1. /\ Mac!Rebuilding(u, {"replace"}) => Mac!MenuCurrent(local[u])
        /\ Mac!Rebuilding(u, {"items"}) => Mac!MenuCurrent(shown)
    BY DEF MacParts, Mac!Rebuild
  <2>2. Mac!MenuCurrent(local[u]) => Mac!MenuCurrent(local[u])'
    BY <1>3 DEF Mac!MenuCurrent
  <2>3. Mac!MenuCurrent(shown) => Mac!MenuCurrent(shown)'
    BY <1>3, <1>4, <1>6 DEF Mac!MenuCurrent
  <2> QED BY <2>1, <2>2, <2>3
<1>10. Mac!Rebuild' /\ Mac!FirstMenu'
  <2>1. state'.login = state.login /\ UNCHANGED <<local, attached, builder, reading>>
    BY <1>3
  <2> QED BY <1>1, <1>2, <1>3, <1>4, <1>9, <2>1, TransferRebuild
<1>11. pc'["loop"] = "idle"
  BY <1>0, <1>1, <1>2, <1>3, <1>7, DoneEffect
<1>12. Mac!TransferFollows'
  <2>1. ~dirty' => seen' = app'
    BY <1>3 DEF MacParts, Mac!TransferFollows
  <2>2. seen' = seen /\ state'.transfer = seen'.transfer
    BY <1>2, <1>3
  <2> QED BY <1>8, <1>11, <2>1, <2>2 DEF Mac!TransferFollows, Mac!At
<1>13. Mac!MenuFollows'
  <2>1. \/ shown.actions = Mac!Actions(state.login)
        \/ \E u \in Mac!Tasks : Mac!Rebuilding(u, {"build", "replace"})
    BY DEF MacParts, Mac!MenuFollows
  <2>2. ~Mac!Rebuilding(t, {"build", "replace"})
    BY <1>1, TransferTask
  <2> QED BY <1>3, <1>4, <1>6, <1>8, <2>1, <2>2 DEF Mac!MenuFollows
<1> QED BY <1>5, <1>8, <1>10, <1>12, <1>13 DEF MacParts

-----------------------------------------------------------------------------
(* set_login_state and rebuild_menu                                        *)

\* A step of a login leaves what is drawn of a transfer to the loop.
LEMMA LoginKeeps ==
  ASSUME MacParts, NEW t \in Mac!Tasks, todo[t] # <<>>, Mac!First(t).op = "login",
         (\E s \in Mac!Steps : Mac!Goto(t, s)) \/ Mac!Done(t),
         local' = [u \in Mac!Tasks |-> local'[u]],
         state'.transfer = state.transfer, UNCHANGED <<app, dirty, seen>>
  PROVE  /\ t # "loop" /\ CallTypes' /\ Mac!TransferFollows'
         /\ \A u \in Mac!Tasks : u # t =>
              /\ \A S : Mac!Rebuilding(u, S)' <=> Mac!Rebuilding(u, S)
              /\ pc'[u] = pc[u] /\ todo'[u] = todo[u]
         /\ \A u \in Mac!Tasks : \A i \in 1..Len(todo'[u]) :
              /\ todo'[u][i].op = "login" => i = 1 /\ u # "loop"
              /\ u = "autostart" /\ todo'[u][i].op = "boot" => i = 1
         /\ Mac!At("autostart", "boot", "idle")' => Mac!At("autostart", "boot", "idle")
         /\ todo'[t] = todo[t] \/ \A S : ~Mac!Rebuilding(t, S)'
         /\ Mac!At("loop", "transfer", "read")' <=> Mac!At("loop", "transfer", "read")
<1>0. "loop" \in Mac!Tasks /\ "autostart" \in Mac!Tasks
  BY DEF Mac!Tasks
<1>1. /\ CallTypes'
      /\ \A u \in Mac!Tasks : u # t => pc'[u] = pc[u] /\ todo'[u] = todo[u]
  BY StepCalls
<1>2. t # "loop"
  <2>1. Mac!First(t) = todo[t][1] /\ 1 \in 1..Len(todo[t])
    BY FirstCall DEF MacParts
  <2> QED BY <2>1 DEF MacParts, Mac!FirstMenu
<1>3. /\ \A u \in Mac!Tasks : \A i \in 1..Len(todo'[u]) :
           /\ todo'[u][i].op = "login" => i = 1 /\ u # "loop"
           /\ u = "autostart" /\ todo'[u][i].op = "boot" => i = 1
           /\ todo'[u][i].op = "transfer" => u = "loop" /\ todo'[u][i].arg = seen.transfer
      /\ \A u \in Mac!Tasks : u # t =>
           \A S : Mac!Rebuilding(u, S)' <=> Mac!Rebuilding(u, S)
      /\ todo'[t] = todo[t] \/ \A S : ~Mac!Rebuilding(t, S)'
      /\ Mac!At("autostart", "boot", "idle")' => Mac!At("autostart", "boot", "idle")
  BY StepKeeps
<1>4. Mac!At("loop", "transfer", "read")' <=> Mac!At("loop", "transfer", "read")
  BY <1>0, <1>1, <1>2 DEF Mac!At, Mac!First
<1>5. Mac!TransferFollows'
  <2>1. Mac!TransferFollows
    BY DEF MacParts
  <2>2. todo'["loop"] = todo["loop"] /\ Mac!First("loop")' = Mac!First("loop")
    BY <1>0, <1>1, <1>2 DEF Mac!First
  <2> QED BY <1>3, <1>4, <2>1, <2>2 DEF Mac!TransferFollows
<1> QED BY <1>1, <1>2, <1>3, <1>4, <1>5

\* One task at a time is in a rebuild, and nothing is read outside it.
LEMMA MacWriteLogin ==
  ASSUME MacParts, NEW t \in Mac!Tasks, Mac!WriteLogin(t)
  PROVE  MacParts'
<1>0. StateTypes /\ ShownTypes /\ CallTypes /\ AppTypes
  BY DEF MacParts
<1>1. /\ todo[t] # <<>> /\ Mac!First(t).op = "login" /\ pc[t] = "idle" /\ reading = {}
      /\ Mac!Rebuilding(t, {"idle", "build", "replace"}) /\ Mac!Rebuilding(t, Mac!Steps)
      /\ \A S : "idle" \notin S => ~Mac!Rebuilding(t, S)
  BY DEF Mac!WriteLogin, Mac!At, Mac!Writable, Mac!Rebuilding, Mac!Steps
<1>2. /\ StateTypes' /\ state'.transfer = state.transfer
      /\ (state' = state /\ Mac!Done(t)) \/ Mac!Goto(t, "build")
  <2>1. Mac!First(t).arg \in BOOLEAN
    BY <1>0, <1>1, FirstCall, CallFields
  <2> QED BY <1>0, <2>1 DEF Mac!WriteLogin, StateTypes, Mac!TrayState
<1>3. /\ UNCHANGED <<reading, shown, builder, attached, using, icon, local>>
      /\ UNCHANGED <<app, dirty, seen, frame, running, Mac!counted>>
  BY DEF Mac!WriteLogin, Mac!appVars
<1>4. ShownTypes' /\ AppTypes'
  BY <1>0, <1>3 DEF ShownTypes, AppTypes, Bounded, Mac!counted
<1>5. (\E s \in Mac!Steps : Mac!Goto(t, s)) \/ Mac!Done(t)
  BY <1>2 DEF Mac!Steps
<1>6. local' = [u \in Mac!Tasks |-> local'[u]]
  BY <1>0, <1>3 DEF CallTypes
<1>7. /\ t # "loop" /\ CallTypes' /\ Mac!TransferFollows'
      /\ \A u \in Mac!Tasks : u # t => \A S : Mac!Rebuilding(u, S)' <=> Mac!Rebuilding(u, S)
      /\ \A u \in Mac!Tasks : \A i \in 1..Len(todo'[u]) :
           /\ todo'[u][i].op = "login" => i = 1 /\ u # "loop"
           /\ u = "autostart" /\ todo'[u][i].op = "boot" => i = 1
      /\ Mac!At("autostart", "boot", "idle")' => Mac!At("autostart", "boot", "idle")
      /\ todo'[t] = todo[t] \/ \A S : ~Mac!Rebuilding(t, S)'
      /\ Mac!At("loop", "transfer", "read")' <=> Mac!At("loop", "transfer", "read")
  BY <1>1, <1>2, <1>3, <1>5, <1>6, LoginKeeps
<1>8. \A u \in Mac!Tasks :
        /\ ~Mac!Rebuilding(u, {"replace", "items"})
        /\ ~Mac!Rebuilding(u, {"replace"}) /\ ~Mac!Rebuilding(u, {"items"})
  <2>1. \A u \in Mac!Tasks : ~Mac!Rebuilding(u, {"replace", "items"})
    BY <1>1 DEF MacParts, Mac!Rebuild
  <2> QED BY <2>1 DEF Mac!Rebuilding
<1>9. \A u \in Mac!Tasks : u # t => ~Mac!Rebuilding(u, {"build", "replace", "items"})
  <2>1. ASSUME NEW u \in Mac!Tasks, u # t, Mac!Rebuilding(u, {"build", "replace", "items"})
        PROVE  FALSE
    <3>1. Mac!Rebuilding(u, {"idle", "build", "replace"}) /\ Mac!Rebuilding(u, Mac!Steps)
      BY <1>8, <2>1 DEF Mac!Rebuilding, Mac!Steps
    <3>2. u # "loop"
      <4>1. todo[u] # <<>> /\ Mac!First(u).op = "login"
        BY <2>1 DEF Mac!Rebuilding
      <4>2. Mac!First(u) = todo[u][1] /\ 1 \in 1..Len(todo[u])
        BY <1>0, <4>1, FirstCall
      <4> QED BY <4>1, <4>2 DEF MacParts, Mac!FirstMenu
    <3> QED BY <1>1, <1>7, <2>1, <3>1, <3>2 DEF MacParts, Mac!FirstMenu, Mac!Tasks
  <2> QED BY <2>1
<1>10. CASE Mac!Goto(t, "build")
  <2>1. todo' = todo /\ pc'[t] = "build"
    BY <1>0, <1>1, <1>6, <1>10, GotoEffect DEF Mac!Steps
  <2>2. /\ \A S : Mac!Rebuilding(t, S)' <=> "build" \in S
    BY <1>1, <2>1 DEF Mac!Rebuilding, Mac!First
  <2>3. Mac!Rebuild'
    <3>1. \A u \in Mac!Tasks : /\ ~Mac!Rebuilding(u, {"replace", "items"})'
                               /\ ~Mac!Rebuilding(u, {"replace"})' /\ ~Mac!Rebuilding(u, {"items"})'
      BY <1>7, <1>8, <2>2
    <3>2. \A u \in Mac!Tasks : u # t => ~Mac!Rebuilding(u, {"build", "replace", "items"})'
      BY <1>7, <1>9
    <3>3. attached'
      BY <1>3, <1>8 DEF MacParts, Mac!Rebuild
    <3> QED BY <3>1, <3>2, <3>3 DEF Mac!Rebuild
  <2>4. Mac!FirstMenu'
    <3>1. \/ Mac!At("autostart", "boot", "idle")' \/ Mac!Rebuilding("autostart", {"idle", "build", "replace"})'
          => shown'.actions = Mac!Always /\ ~Mac!Rebuilding("handler", Mac!Steps)'
      BY <1>1, <1>3, <1>7 DEF MacParts, Mac!FirstMenu, Mac!Tasks
    <3> QED BY <1>7, <3>1 DEF Mac!FirstMenu, Mac!Tasks
  <2>5. Mac!MenuFollows'
    <3>1. Mac!Rebuilding(t, {"build", "replace"})'
      BY <2>2
    <3> QED BY <1>2, <1>3, <1>7, <3>1 DEF MacParts, Mac!MenuFollows
  <2> QED BY <1>2, <1>4, <1>7, <2>3, <2>4, <2>5 DEF MacParts
<1>11. CASE state' = state /\ Mac!Done(t)
  <2>1. \A S : ~Mac!Rebuilding(t, S)'
    <3>1. Len(todo'[t]) \in Nat /\ Len(todo[t]) = Len(todo'[t]) + 1
      BY <1>0, <1>1, <1>6, <1>11, DoneEffect
    <3>2. todo'[t] # todo[t]
      BY <3>1
    <3> QED BY <1>7, <3>2
  <2>3. Mac!Rebuild'
    <3>1. \A u \in Mac!Tasks : /\ ~Mac!Rebuilding(u, {"replace", "items"})'
                               /\ ~Mac!Rebuilding(u, {"replace"})' /\ ~Mac!Rebuilding(u, {"items"})'
      BY <1>7, <1>8, <2>1
    <3>2. \A u \in Mac!Tasks : ~Mac!Rebuilding(u, {"build", "replace", "items"})'
      BY <1>7, <1>9, <2>1
    <3>3. attached'
      BY <1>3, <1>8 DEF MacParts, Mac!Rebuild
    <3> QED BY <3>1, <3>2, <3>3 DEF Mac!Rebuild
  <2>4. Mac!FirstMenu'
    <3>1. \/ Mac!At("autostart", "boot", "idle")' \/ Mac!Rebuilding("autostart", {"idle", "build", "replace"})'
          => shown'.actions = Mac!Always /\ ~Mac!Rebuilding("handler", Mac!Steps)'
      BY <1>1, <1>3, <1>7, <2>1 DEF MacParts, Mac!FirstMenu, Mac!Tasks
    <3> QED BY <1>7, <3>1 DEF Mac!FirstMenu, Mac!Tasks
  <2>5. Mac!MenuFollows'
    <3>1. ~Mac!Rebuilding(t, {"build", "replace"})
      BY <1>1
    <3> QED BY <1>3, <1>7, <1>11, <3>1 DEF MacParts, Mac!MenuFollows
  <2> QED BY <1>2, <1>4, <1>7, <2>3, <2>4, <2>5 DEF MacParts
<1> QED BY <1>2, <1>10, <1>11

\* The steps of a rebuild, which no other task is in.
LEMMA RebuildSteps ==
  ASSUME MacParts, NEW t \in Mac!Tasks, Mac!BuildMenu(t) \/ Mac!SetMenu(t) \/ Mac!ReplaceItems(t)
  PROVE  /\ todo[t] # <<>> /\ Mac!First(t).op = "login"
         /\ (\E s \in Mac!Steps : Mac!Goto(t, s)) \/ Mac!Done(t)
         /\ local' = [u \in Mac!Tasks |-> local'[u]] /\ \A u \in Mac!Tasks : u # t => local'[u] = local[u]
         /\ StateTypes' /\ AppTypes'
         /\ UNCHANGED <<state, using, icon, app, dirty, seen>>
         /\ \A u \in Mac!Tasks \ {t} : ~Mac!Rebuilding(u, {"build", "replace", "items"})
         /\ \A u \in Mac!Tasks \ {t} : /\ ~Mac!Rebuilding(u, {"build", "replace"})
                                       /\ ~Mac!Rebuilding(u, {"replace", "items"})
                                       /\ ~Mac!Rebuilding(u, {"replace"})
                                       /\ ~Mac!Rebuilding(u, {"items"})
<1>0. StateTypes /\ CallTypes /\ AppTypes
  BY DEF MacParts
<1>1. /\ todo[t] # <<>> /\ Mac!First(t).op = "login" /\ pc[t] \in {"build", "replace", "items"}
      /\ Mac!Rebuilding(t, {"build", "replace", "items"})
  BY DEF Mac!BuildMenu, Mac!SetMenu, Mac!ReplaceItems, Mac!At, Mac!Rebuilding
<1>2. (\E s \in Mac!Steps : Mac!Goto(t, s)) \/ Mac!Done(t)
  BY DEF Mac!BuildMenu, Mac!SetMenu, Mac!ReplaceItems, Mac!Steps
<1>3. /\ local' = [u \in Mac!Tasks |-> local'[u]]
      /\ \A u \in Mac!Tasks : u # t => local'[u] = local[u]
  BY <1>0 DEF Mac!BuildMenu, Mac!SetMenu, Mac!ReplaceItems, Mac!Compute, CallTypes
<1>4. UNCHANGED <<state, using, icon, app, dirty, seen, frame, running, Mac!counted>>
  BY DEF Mac!BuildMenu, Mac!SetMenu, Mac!ReplaceItems, Mac!appVars
<1>5. StateTypes' /\ AppTypes'
  BY <1>0, <1>4 DEF StateTypes, AppTypes, Bounded, Mac!counted
<1>6. \A u \in Mac!Tasks \ {t} : ~Mac!Rebuilding(u, {"build", "replace", "items"})
  BY <1>1 DEF MacParts, Mac!Rebuild
<1> QED BY <1>1, <1>2, <1>3, <1>4, <1>5, <1>6 DEF Mac!Rebuilding

LEMMA MacBuildMenu ==
  ASSUME MacParts, NEW t \in Mac!Tasks, Mac!BuildMenu(t)
  PROVE  MacParts'
<1>0. /\ todo[t] # <<>> /\ Mac!First(t).op = "login" /\ pc[t] = "build"
      /\ (\E s \in Mac!Steps : Mac!Goto(t, s)) \/ Mac!Done(t)
      /\ local' = [u \in Mac!Tasks |-> local'[u]] /\ StateTypes' /\ AppTypes'
      /\ UNCHANGED <<state, app, dirty, seen>>
      /\ \A u \in Mac!Tasks \ {t} : /\ ~Mac!Rebuilding(u, {"build", "replace", "items"})
                                    /\ ~Mac!Rebuilding(u, {"replace", "items"})
                                    /\ ~Mac!Rebuilding(u, {"replace"})
                                    /\ ~Mac!Rebuilding(u, {"items"})
  BY RebuildSteps DEF Mac!BuildMenu, Mac!At
<1>1. /\ t # "loop" /\ CallTypes' /\ Mac!TransferFollows'
      /\ \A u \in Mac!Tasks : u # t => \A S : Mac!Rebuilding(u, S)' <=> Mac!Rebuilding(u, S)
      /\ \A u \in Mac!Tasks : \A i \in 1..Len(todo'[u]) :
           /\ todo'[u][i].op = "login" => i = 1 /\ u # "loop"
           /\ u = "autostart" /\ todo'[u][i].op = "boot" => i = 1
      /\ Mac!At("autostart", "boot", "idle")' => Mac!At("autostart", "boot", "idle")
      /\ Mac!At("loop", "transfer", "read")' <=> Mac!At("loop", "transfer", "read")
  BY <1>0, LoginKeeps
<1>2. /\ reading' = reading \cup {t} /\ UNCHANGED <<state, shown, builder, attached, using, icon>>
      /\ Mac!Goto(t, "replace") /\ Mac!Compute(t, Mac!MenuOf(state))
  BY DEF Mac!BuildMenu
<1>3. ShownTypes'
  BY <1>2 DEF MacParts, ShownTypes
<1>4. CallTypes
  BY DEF MacParts
<1>5. todo' = todo /\ pc'[t] = "replace" /\ local'[t] = Mac!MenuOf(state)
  BY <1>0, <1>2, <1>4, GotoEffect DEF Mac!Steps, Mac!Compute, CallTypes
<1>6. /\ \A S : Mac!Rebuilding(t, S)' <=> "replace" \in S
      /\ \A S : Mac!Rebuilding(t, S) <=> "build" \in S
  BY <1>0, <1>5 DEF Mac!Rebuilding, Mac!First
<1>7. Mac!Rebuild'
  <2>1. Mac!MenuCurrent(local[t])'
    <3>1. Mac!MenuCurrent(Mac!MenuOf(state))
      BY DEF Mac!MenuCurrent, Mac!MenuOf, Mac!Items
    <3> QED BY <1>2, <1>5, <3>1 DEF Mac!MenuCurrent
  <2>2. attached'
    BY <1>0, <1>2, <1>6 DEF MacParts, Mac!Rebuild
  <2>3. \A u \in Mac!Tasks \ {t} : /\ ~Mac!Rebuilding(u, {"build", "replace", "items"})'
                                   /\ ~Mac!Rebuilding(u, {"replace", "items"})'
                                   /\ ~Mac!Rebuilding(u, {"replace"})'
                                   /\ ~Mac!Rebuilding(u, {"items"})'
    BY <1>0, <1>1
  <2> QED BY <1>2, <1>6, <2>1, <2>2, <2>3 DEF Mac!Rebuild
<1>8. Mac!FirstMenu'
  <2>1. \/ Mac!At("autostart", "boot", "idle")' \/ Mac!Rebuilding("autostart", {"idle", "build", "replace"})'
        => shown'.actions = Mac!Always /\ ~Mac!Rebuilding("handler", Mac!Steps)'
    <3>1. Mac!Rebuilding(t, Mac!Steps) /\ Mac!Rebuilding(t, {"idle", "build", "replace"})
      BY <1>6 DEF Mac!Steps
    <3> QED BY <1>1, <1>2, <3>1 DEF MacParts, Mac!FirstMenu, Mac!Tasks
  <2> QED BY <1>1, <2>1 DEF Mac!FirstMenu, Mac!Tasks
<1>9. Mac!MenuFollows'
  <2>1. Mac!Rebuilding(t, {"build", "replace"})'
    BY <1>6
  <2> QED BY <1>1, <1>2, <2>1 DEF MacParts, Mac!MenuFollows
<1> QED BY <1>0, <1>1, <1>3, <1>7, <1>8, <1>9 DEF MacParts

LEMMA MacSetMenu ==
  ASSUME MacParts, NEW t \in Mac!Tasks, Mac!SetMenu(t)
  PROVE  MacParts'
<1>0. /\ todo[t] # <<>> /\ Mac!First(t).op = "login" /\ pc[t] = "replace"
      /\ (\E s \in Mac!Steps : Mac!Goto(t, s)) \/ Mac!Done(t)
      /\ local' = [u \in Mac!Tasks |-> local'[u]] /\ StateTypes' /\ AppTypes'
      /\ UNCHANGED <<state, app, dirty, seen>>
      /\ \A u \in Mac!Tasks \ {t} : /\ ~Mac!Rebuilding(u, {"build", "replace", "items"})
                                    /\ ~Mac!Rebuilding(u, {"replace", "items"})
                                    /\ ~Mac!Rebuilding(u, {"replace"})
                                    /\ ~Mac!Rebuilding(u, {"items"})
  BY RebuildSteps DEF Mac!SetMenu, Mac!At
<1>1. /\ t # "loop" /\ CallTypes' /\ Mac!TransferFollows'
      /\ \A u \in Mac!Tasks : u # t => \A S : Mac!Rebuilding(u, S)' <=> Mac!Rebuilding(u, S)
      /\ \A u \in Mac!Tasks : \A i \in 1..Len(todo'[u]) :
           /\ todo'[u][i].op = "login" => i = 1 /\ u # "loop"
           /\ u = "autostart" /\ todo'[u][i].op = "boot" => i = 1
      /\ Mac!At("autostart", "boot", "idle")' => Mac!At("autostart", "boot", "idle")
  BY <1>0, LoginKeeps
<1>2. /\ UNCHANGED <<state, reading, using, icon>> /\ shown' = local[t] /\ builder' = t
      /\ attached' = FALSE /\ Mac!Goto(t, "items")
  BY DEF Mac!SetMenu
<1>3. CallTypes /\ Mac!Rebuild /\ ShownTypes
  BY DEF MacParts
<1>4. todo' = todo /\ pc'[t] = "items"
  BY <1>0, <1>2, <1>3, GotoEffect DEF Mac!Steps
<1>5. /\ \A S : Mac!Rebuilding(t, S)' <=> "items" \in S
      /\ \A S : Mac!Rebuilding(t, S) <=> "replace" \in S
  BY <1>0, <1>4 DEF Mac!Rebuilding, Mac!First
<1>6. Mac!MenuCurrent(shown)' /\ t \in reading'
  <2>1. Mac!MenuCurrent(local[t]) /\ t \in reading
    BY <1>3, <1>5 DEF Mac!Rebuild
  <2> QED BY <1>2, <2>1 DEF Mac!MenuCurrent
<1>7. ShownTypes'
  BY <1>2, <1>3, <1>6 DEF ShownTypes, Mac!MenuCurrent
<1>8. Mac!Rebuild'
  <2>1. \A u \in Mac!Tasks \ {t} : /\ ~Mac!Rebuilding(u, {"build", "replace", "items"})'
                                   /\ ~Mac!Rebuilding(u, {"replace", "items"})'
                                   /\ ~Mac!Rebuilding(u, {"replace"})'
                                   /\ ~Mac!Rebuilding(u, {"items"})'
    BY <1>0, <1>1
  <2> QED BY <1>2, <1>5, <1>6, <2>1 DEF Mac!Rebuild
<1>9. Mac!FirstMenu'
  <2>1. ~(Mac!At("autostart", "boot", "idle")' \/ Mac!Rebuilding("autostart", {"idle", "build", "replace"})')
    <3>1. Mac!Rebuilding(t, Mac!Steps) /\ Mac!Rebuilding(t, {"idle", "build", "replace"})
      BY <1>5 DEF Mac!Steps
    <3>2. ~Mac!At("autostart", "boot", "idle") \/ t # "autostart"
      BY <1>0 DEF Mac!At
    <3>3. t = "autostart" => ~Mac!Rebuilding("autostart", {"idle", "build", "replace"})'
      BY <1>5
    <3> QED BY <1>1, <3>1, <3>2, <3>3 DEF MacParts, Mac!FirstMenu, Mac!Tasks
  <2> QED BY <1>1, <2>1 DEF Mac!FirstMenu, Mac!Tasks
<1>10. Mac!MenuFollows'
  BY <1>6 DEF Mac!MenuCurrent, Mac!MenuFollows
<1> QED BY <1>0, <1>1, <1>7, <1>8, <1>9, <1>10 DEF MacParts

LEMMA MacReplaceItems ==
  ASSUME MacParts, NEW t \in Mac!Tasks, Mac!ReplaceItems(t)
  PROVE  MacParts'
<1>0. /\ todo[t] # <<>> /\ Mac!First(t).op = "login" /\ pc[t] = "items"
      /\ (\E s \in Mac!Steps : Mac!Goto(t, s)) \/ Mac!Done(t)
      /\ local' = [u \in Mac!Tasks |-> local'[u]] /\ StateTypes' /\ AppTypes'
      /\ UNCHANGED <<state, app, dirty, seen>>
      /\ \A u \in Mac!Tasks \ {t} : /\ ~Mac!Rebuilding(u, {"build", "replace", "items"})
                                    /\ ~Mac!Rebuilding(u, {"build", "replace"})
                                    /\ ~Mac!Rebuilding(u, {"replace", "items"})
                                    /\ ~Mac!Rebuilding(u, {"replace"})
                                    /\ ~Mac!Rebuilding(u, {"items"})
  BY RebuildSteps DEF Mac!ReplaceItems, Mac!At
<1>1. /\ t # "loop" /\ CallTypes' /\ Mac!TransferFollows'
      /\ \A u \in Mac!Tasks : u # t => \A S : Mac!Rebuilding(u, S)' <=> Mac!Rebuilding(u, S)
      /\ \A u \in Mac!Tasks : \A i \in 1..Len(todo'[u]) :
           /\ todo'[u][i].op = "login" => i = 1 /\ u # "loop"
           /\ u = "autostart" /\ todo'[u][i].op = "boot" => i = 1
      /\ Mac!At("autostart", "boot", "idle")' => Mac!At("autostart", "boot", "idle")
      /\ todo'[t] = todo[t] \/ \A S : ~Mac!Rebuilding(t, S)'
      /\ Mac!At("loop", "transfer", "read")' <=> Mac!At("loop", "transfer", "read")
  BY <1>0, LoginKeeps
<1>2. /\ UNCHANGED <<state, shown, builder, using, icon>> /\ reading' = reading \ {t}
      /\ attached' = (builder = t) /\ Mac!Done(t)
  BY DEF Mac!ReplaceItems
<1>3. CallTypes /\ Mac!Rebuild /\ ShownTypes
  BY DEF MacParts
<1>4. \A S : ~Mac!Rebuilding(t, S)'
  <2>1. Len(todo'[t]) \in Nat /\ Len(todo[t]) = Len(todo'[t]) + 1
    BY <1>0, <1>2, <1>3, DoneEffect
  <2>2. todo'[t] # todo[t]
    BY <2>1
  <2> QED BY <1>1, <2>2
<1>5. /\ \A S : Mac!Rebuilding(t, S) <=> "items" \in S
  BY <1>0 DEF Mac!Rebuilding
<1>6. Mac!MenuCurrent(shown) /\ builder = t
  BY <1>3, <1>5 DEF Mac!Rebuild
<1>7. ShownTypes'
  BY <1>2, <1>3 DEF ShownTypes
<1>8. Mac!Rebuild'
  <2>1. \A u \in Mac!Tasks : /\ ~Mac!Rebuilding(u, {"build", "replace", "items"})'
                             /\ ~Mac!Rebuilding(u, {"replace", "items"})'
                             /\ ~Mac!Rebuilding(u, {"replace"})'
                             /\ ~Mac!Rebuilding(u, {"items"})'
    BY <1>0, <1>1, <1>4
  <2> QED BY <1>2, <1>6, <2>1 DEF Mac!Rebuild
<1>9. Mac!FirstMenu'
  <2>1. \/ Mac!At("autostart", "boot", "idle")' \/ Mac!Rebuilding("autostart", {"idle", "build", "replace"})'
        => shown'.actions = Mac!Always /\ ~Mac!Rebuilding("handler", Mac!Steps)'
    BY <1>1, <1>2, <1>4 DEF MacParts, Mac!FirstMenu, Mac!Tasks
  <2> QED BY <1>1, <2>1 DEF Mac!FirstMenu, Mac!Tasks
<1>10. Mac!MenuFollows'
  BY <1>2, <1>6 DEF Mac!MenuCurrent, Mac!MenuFollows
<1> QED BY <1>0, <1>1, <1>7, <1>8, <1>9, <1>10 DEF MacParts

-----------------------------------------------------------------------------
(* The callers                                                             *)

\* A change of the AppState is one that the loop has yet to see.
LEMMA PublishKeeps ==
  ASSUME MacParts, NEW new, Mac!Publish(new), seen' = seen
  PROVE  app' = new /\ dirty' \in BOOLEAN /\ (~dirty' => seen' = app')
<1>1. (~dirty => seen = app) /\ dirty \in BOOLEAN
  BY DEF MacParts, AppTypes, Mac!TransferFollows
<1> QED BY <1>1 DEF Mac!Publish

LEMMA SyncTypes ==
  ASSUME AppTypes, NEW sync \in Mac!SyncStates
  PROVE  [app EXCEPT !.sync = sync] \in Mac!Snapshots
  BY DEF AppTypes, Mac!Snapshots

\* No task has another call.
LEMMA QuietKeeps ==
  ASSUME MacParts, UNCHANGED <<Mac!trayVars, Mac!taskVars, seen>>, AppTypes',
         ~dirty' => seen' = app'
  PROVE  MacParts'
<1>1. /\ UNCHANGED <<state, reading, shown, builder, attached, using, icon, todo, pc, local, seen>>
  BY DEF Mac!trayVars, Mac!taskVars
<1>2. StateTypes' /\ ShownTypes' /\ CallTypes'
  BY <1>1 DEF MacParts, StateTypes, ShownTypes, CallTypes
<1>3. /\ \A u \in Mac!Tasks : Mac!First(u)' = Mac!First(u)
      /\ \A u \in Mac!Tasks : \A S : Mac!Rebuilding(u, S)' <=> Mac!Rebuilding(u, S)
      /\ \A u \in Mac!Tasks : \A op, step : Mac!At(u, op, step)' <=> Mac!At(u, op, step)
  BY <1>1 DEF Mac!Rebuilding, Mac!First, Mac!At
<1>4. /\ \A u \in Mac!Tasks : Mac!MenuCurrent(local[u])' <=> Mac!MenuCurrent(local[u])
      /\ Mac!MenuCurrent(shown)' <=> Mac!MenuCurrent(shown)
  BY <1>1 DEF Mac!MenuCurrent
<1>5. Mac!Rebuild'
  BY <1>1, <1>3, <1>4 DEF MacParts, Mac!Rebuild
<1>6. Mac!FirstMenu'
  BY <1>1, <1>3 DEF MacParts, Mac!FirstMenu, Mac!Tasks
<1>7. Mac!MenuFollows'
  BY <1>1, <1>3 DEF MacParts, Mac!MenuFollows, Mac!Tasks
<1>8. Mac!TransferFollows'
  BY <1>1, <1>3 DEF MacParts, Mac!TransferFollows, Mac!Tasks
<1> QED BY <1>2, <1>5, <1>6, <1>7, <1>8 DEF MacParts

\* A task has other calls, the first of which has not begun.
LEMMA CallsKeep ==
  ASSUME MacParts, NEW t \in Mac!Tasks, NEW calls \in Seq(Mac!Calling), Mac!Calls(t, calls),
         UNCHANGED <<Mac!trayVars, local>>, pc[t] = "idle", AppTypes', ~dirty' => seen' = app',
         \A i \in 1..Len(calls) :
           /\ calls[i].op = "login" =>
                /\ i = 1
                /\ \/ t = "autostart" /\ Mac!At("autostart", "boot", "idle")
                   \/ t = "handler" /\ shown.actions # Mac!Always
           /\ calls[i].op # "boot"
           /\ calls[i].op = "transfer" => t = "loop" /\ calls[i].arg = seen'.transfer,
         t # "loop" => seen' = seen,
         t = "loop" => \/ state.transfer = seen'.transfer
                       \/ \E i \in 1..Len(calls) : calls[i].op = "transfer"
  PROVE  MacParts'
<1>1. /\ UNCHANGED <<state, reading, shown, builder, attached, using, icon, local, pc>>
      /\ todo' = [todo EXCEPT ![t] = calls]
  BY DEF Mac!trayVars, Mac!Calls
<1>2. StateTypes' /\ ShownTypes'
  BY <1>1 DEF MacParts, StateTypes, ShownTypes
<1>3. /\ todo'[t] = calls /\ \A u \in Mac!Tasks : u # t => todo'[u] = todo[u]
      /\ CallTypes'
  BY <1>1 DEF MacParts, CallTypes
<1>4. /\ \A u \in Mac!Tasks : u # t => \A S : Mac!Rebuilding(u, S)' <=> Mac!Rebuilding(u, S)
      /\ \A u \in Mac!Tasks : u # t => \A op, step : Mac!At(u, op, step)' <=> Mac!At(u, op, step)
      /\ \A S : "idle" \notin S => ~Mac!Rebuilding(t, S)' /\ ~Mac!Rebuilding(t, S)
      /\ \A op : ~Mac!At(t, op, "read")' /\ ~Mac!At(t, op, "read")
  BY <1>1, <1>3 DEF Mac!Rebuilding, Mac!First, Mac!At
<1>5. calls # <<>> => 1 \in 1..Len(calls) /\ Head(calls) = calls[1]
  OBVIOUS
<1>6. /\ \A u \in Mac!Tasks : Mac!MenuCurrent(local[u])' <=> Mac!MenuCurrent(local[u])
      /\ Mac!MenuCurrent(shown)' <=> Mac!MenuCurrent(shown)
  BY <1>1 DEF Mac!MenuCurrent
<1>7. Mac!Rebuild'
  <2>1. \A u \in Mac!Tasks :
          /\ Mac!Rebuilding(u, {"replace", "items"})' <=> Mac!Rebuilding(u, {"replace", "items"})
          /\ Mac!Rebuilding(u, {"replace"})' <=> Mac!Rebuilding(u, {"replace"})
          /\ Mac!Rebuilding(u, {"items"})' <=> Mac!Rebuilding(u, {"items"})
          /\ Mac!Rebuilding(u, {"build", "replace", "items"})' <=>
               Mac!Rebuilding(u, {"build", "replace", "items"})
    BY <1>4
  <2> QED BY <1>1, <1>6, <2>1 DEF MacParts, Mac!Rebuild
<1>8. Mac!FirstMenu'
  <2>1. \A u \in Mac!Tasks : \A i \in 1..Len(todo'[u]) :
          todo'[u][i].op = "login" => i = 1 /\ u # "loop"
    BY <1>3 DEF MacParts, Mac!FirstMenu
  <2>2. \A i \in 1..Len(todo'["autostart"]) : todo'["autostart"][i].op = "boot" => i = 1
    BY <1>3 DEF MacParts, Mac!FirstMenu, Mac!Tasks
  <2>3. ASSUME \/ Mac!At("autostart", "boot", "idle")'
               \/ Mac!Rebuilding("autostart", {"idle", "build", "replace"})'
        PROVE  shown'.actions = Mac!Always /\ ~Mac!Rebuilding("handler", Mac!Steps)'
    <3>1. \/ Mac!At("autostart", "boot", "idle")
          \/ Mac!Rebuilding("autostart", {"idle", "build", "replace"})
      <4>1. CASE t = "autostart"
        <5>1. calls # <<>> /\ (calls[1].op = "boot" \/ calls[1].op = "login")
          BY <1>3, <1>5, <2>3, <4>1 DEF Mac!At, Mac!Rebuilding, Mac!First
        <5> QED BY <1>5, <4>1, <5>1
      <4>2. CASE t # "autostart"
        BY <1>4, <2>3, <4>2 DEF Mac!Tasks
      <4> QED BY <4>1, <4>2
    <3>2. shown.actions = Mac!Always /\ ~Mac!Rebuilding("handler", Mac!Steps)
      BY <3>1 DEF MacParts, Mac!FirstMenu
    <3>3. ~Mac!Rebuilding("handler", Mac!Steps)'
      <4>1. CASE t = "handler"
        BY <1>3, <1>5, <3>2, <4>1 DEF Mac!Rebuilding, Mac!First
      <4>2. CASE t # "handler"
        BY <1>4, <3>2, <4>2 DEF Mac!Tasks
      <4> QED BY <4>1, <4>2
    <3> QED BY <1>1, <3>2, <3>3
  <2> QED BY <2>1, <2>2, <2>3 DEF Mac!FirstMenu
<1>9. Mac!MenuFollows'
  <2>1. \A u \in Mac!Tasks :
          Mac!Rebuilding(u, {"build", "replace"})' <=> Mac!Rebuilding(u, {"build", "replace"})
    BY <1>4
  <2>2. Mac!At("loop", "transfer", "read")' <=> Mac!At("loop", "transfer", "read")
    BY <1>4 DEF Mac!Tasks
  <2> QED BY <1>1, <2>1, <2>2 DEF MacParts, Mac!MenuFollows
<1>10. Mac!TransferFollows'
  <2>1. Mac!TransferFollows
    BY DEF MacParts
  <2>2. \A u \in Mac!Tasks : \A i \in 1..Len(todo'[u]) :
          todo'[u][i].op = "transfer" => u = "loop" /\ todo'[u][i].arg = seen'.transfer
    BY <1>3, <2>1 DEF Mac!TransferFollows
  <2>3. Mac!At("loop", "transfer", "read")' => Mac!First("loop")'.arg = state'.transfer
    BY <1>1, <1>3, <1>4, <2>1 DEF Mac!TransferFollows, Mac!Tasks, Mac!First
  <2>4. \/ state'.transfer = seen'.transfer
        \/ \E i \in 1..Len(todo'["loop"]) : todo'["loop"][i].op = "transfer"
    BY <1>1, <1>3, <2>1 DEF Mac!TransferFollows, Mac!Tasks
  <2> QED BY <2>2, <2>3, <2>4 DEF Mac!TransferFollows
<1> QED BY <1>2, <1>3, <1>7, <1>8, <1>9, <1>10 DEF MacParts

LEMMA CallTypesAre ==
  /\ \A sync \in Mac!SyncStates : Mac!Call("status", sync) \in Mac!Calling
  /\ \A sync \in Mac!SyncStates : \A f \in 0..MacFrame : Mac!IconCall(sync, f) \in Mac!Calling
  /\ \A n \in 0..MaxCount : Mac!Call("count", n) \in Mac!Calling
  /\ \A time \in Times \cup {Nothing} : Mac!Call("synced", time) \in Mac!Calling
  /\ \A text \in Transfers \cup {Nothing} : Mac!Call("transfer", text) \in Mac!Calling
  /\ \A b \in BOOLEAN : Mac!Call("login", b) \in Mac!Calling
  /\ [op |-> "launch"] \in Mac!Calling /\ [op |-> "resume"] \in Mac!Calling
  /\ [op |-> "boot"] \in Mac!Calling
  BY DEF Mac!Call, Mac!IconCall, Mac!Calling

LEMMA MacRedraw ==
  ASSUME MacParts, Mac!Redraw
  PROVE  MacParts'
<1>1. /\ StateTypes /\ CallTypes /\ AppTypes
  BY DEF MacParts
<1>2. /\ todo["loop"] = <<>> /\ seen' = app /\ dirty' = FALSE
      /\ UNCHANGED <<app, frame, running, Mac!counted>> /\ UNCHANGED <<Mac!trayVars, local>>
  BY DEF Mac!Redraw, Mac!Free
<1>3. AppTypes' /\ pc["loop"] = "idle" /\ "loop" \in Mac!Tasks
  BY <1>1, <1>2 DEF AppTypes, Bounded, Mac!counted, CallTypes, Mac!Tasks
<1>4. PICK time \in Times \cup {Nothing} :
        Mac!Calls("loop", <<Mac!Call("status", app.sync), Mac!Call("synced", time),
                            Mac!IconCall(app.sync, frame), Mac!Call("count", app.count),
                            Mac!Call("transfer", app.transfer)>>)
  <2>1. state.synced \in Times \cup {Nothing}
    BY <1>1 DEF StateTypes, Mac!TrayState
  <2> QED BY <2>1 DEF Mac!Redraw
<1> DEFINE a == Mac!Call("status", app.sync)
           b == Mac!Call("synced", time)
           c == Mac!IconCall(app.sync, frame)
           d == Mac!Call("count", app.count)
           e == Mac!Call("transfer", app.transfer)
           calls == <<a, b, c, d, e>>
<1>5. /\ a \in Mac!Calling /\ b \in Mac!Calling /\ c \in Mac!Calling /\ d \in Mac!Calling
      /\ e \in Mac!Calling
      /\ a.op = "status" /\ b.op = "synced" /\ c.op = "icon" /\ d.op = "count"
      /\ e.op = "transfer" /\ e.arg = app.transfer
  <2>1. /\ app.sync \in Mac!SyncStates /\ frame \in 0..MacFrame /\ app.count \in 0..MaxCount
        /\ app.transfer \in Transfers \cup {Nothing}
    BY <1>1 DEF AppTypes, Mac!Snapshots
  <2>2. /\ a \in Mac!Calling /\ b \in Mac!Calling /\ c \in Mac!Calling /\ d \in Mac!Calling
        /\ e \in Mac!Calling
    BY <2>1, CallTypesAre
  <2>3. /\ a.op = "status" /\ b.op = "synced" /\ c.op = "icon" /\ d.op = "count"
        /\ e.op = "transfer" /\ e.arg = app.transfer
    BY DEF Mac!Call, Mac!IconCall
  <2> QED BY <2>2, <2>3
<1>6. Mac!Calls("loop", calls)
  BY <1>4
<1> HIDE DEF a, b, c, d, e
<1>7. /\ calls \in Seq(Mac!Calling) /\ 5 \in 1..Len(calls) /\ calls[5] = e
      /\ \A i \in 1..Len(calls) : calls[i] \in {a, b, c, d} \/ calls[i] = e
  BY <1>5
<1> HIDE DEF calls
<1>8. \A i \in 1..Len(calls) :
        /\ calls[i].op # "login" /\ calls[i].op # "boot"
        /\ calls[i].op = "transfer" => calls[i].arg = seen'.transfer
  BY <1>2, <1>5, <1>7
<1>9. /\ \E i \in 1..Len(calls) : calls[i].op = "transfer"
      /\ seen' = app'
  BY <1>2, <1>5, <1>7
<1> QED BY <1>2, <1>3, <1>6, <1>7, <1>8, <1>9, CallsKeep

LEMMA MacAnimate ==
  ASSUME MacParts, Mac!Animate
  PROVE  MacParts'
<1>1. CallTypes /\ AppTypes /\ Mac!TransferFollows
  BY DEF MacParts
<1>2. /\ todo["loop"] = <<>> /\ frame' = (frame + 1) % (MacFrame + 1)
      /\ Mac!Calls("loop", <<Mac!IconCall(seen.sync, frame')>>)
      /\ UNCHANGED <<app, dirty, seen, running, Mac!counted>> /\ UNCHANGED <<Mac!trayVars, local>>
  BY DEF Mac!Animate, Mac!Free
<1>3. frame' \in 0..MacFrame
  <2>1. MacFrame \in Nat /\ frame \in Nat
    BY <1>1, MacBounds DEF AppTypes
  <2> QED BY <1>2, <2>1
<1>4. AppTypes' /\ pc["loop"] = "idle" /\ "loop" \in Mac!Tasks
  BY <1>1, <1>2, <1>3 DEF AppTypes, Bounded, Mac!counted, CallTypes, Mac!Tasks
<1> DEFINE c == Mac!IconCall(seen.sync, frame')
           calls == <<c>>
<1>5. c \in Mac!Calling /\ c.op = "icon"
  <2>1. seen.sync \in Mac!SyncStates
    BY <1>1 DEF AppTypes, Mac!Snapshots
  <2> QED BY <1>3, <2>1, CallTypesAre DEF Mac!IconCall
<1>6. Mac!Calls("loop", calls)
  BY <1>2
<1> HIDE DEF c
<1>7. calls \in Seq(Mac!Calling) /\ \A i \in 1..Len(calls) : calls[i] = c
  BY <1>5
<1> HIDE DEF calls
<1>8. \A i \in 1..Len(calls) :
        calls[i].op # "login" /\ calls[i].op # "boot" /\ calls[i].op # "transfer"
  BY <1>5, <1>7
<1>9. state.transfer = seen'.transfer /\ (~dirty' => seen' = app')
  <2>1. ~(\E i \in 1..Len(todo["loop"]) : todo["loop"][i].op = "transfer")
    BY <1>2
  <2> QED BY <1>1, <1>2, <2>1 DEF Mac!TransferFollows
<1> QED BY <1>2, <1>4, <1>6, <1>7, <1>8, <1>9, CallsKeep

LEMMA CountedTypes ==
  ASSUME AppTypes, Mac!Counted
  PROVE  Bounded'
<1>1. /\ changes \in Nat /\ MaxChanges \in Nat /\ changes < MaxChanges /\ changes' = changes + 1
      /\ events' \in 0..MaxEvents
  BY MacBounds DEF AppTypes, Bounded, Mac!Counted
<1>2. changes' \in 0..MaxChanges
  BY <1>1
<1> QED BY <1>1, <1>2 DEF Bounded

LEMMA MacEvent ==
  ASSUME MacParts, Mac!Event
  PROVE  MacParts'
<1>1. AppTypes
  BY DEF MacParts
<1>2. UNCHANGED <<Mac!trayVars, Mac!taskVars, seen, frame, running>> /\ Bounded'
  <2>1. /\ events \in Nat /\ MaxEvents \in Nat /\ events < MaxEvents /\ events' = events + 1
        /\ changes' \in 0..MaxChanges
    BY <1>1, MacBounds DEF AppTypes, Bounded, Mac!Event
  <2>2. events' \in 0..MaxEvents
    BY <2>1
  <2> QED BY <2>1, <2>2 DEF Bounded, Mac!Event
<1>3. \E new \in Mac!Snapshots : Mac!Publish(new)
  <2>1. ASSUME NEW sync \in CliStates, Mac!SetSync(sync)
        PROVE  \E new \in Mac!Snapshots : Mac!Publish(new)
    BY <1>1, <2>1, SyncTypes, MacBounds DEF Mac!SetSync
  <2>2. ASSUME NEW count \in 0..MaxCount, Mac!Publish([app EXCEPT !.count = count])
        PROVE  \E new \in Mac!Snapshots : Mac!Publish(new)
    <3>1. [app EXCEPT !.count = count] \in Mac!Snapshots
      BY <1>1 DEF AppTypes, Mac!Snapshots
    <3> QED BY <2>2, <3>1
  <2>3. ASSUME NEW text \in Transfers \cup {Nothing}, Mac!Publish([app EXCEPT !.transfer = text])
        PROVE  \E new \in Mac!Snapshots : Mac!Publish(new)
    <3>1. [app EXCEPT !.transfer = text] \in Mac!Snapshots
      BY <1>1 DEF AppTypes, Mac!Snapshots
    <3> QED BY <2>3, <3>1
  <2> QED BY <2>1, <2>2, <2>3 DEF Mac!Event
<1>4. app' \in Mac!Snapshots /\ dirty' \in BOOLEAN /\ (~dirty' => seen' = app')
  BY <1>2, <1>3, PublishKeeps
<1>5. AppTypes'
  BY <1>1, <1>2, <1>4 DEF AppTypes
<1> QED BY <1>2, <1>4, <1>5, QuietKeeps

\* What a change of the sync state alone does to the AppState.
LEMMA SetSyncKeeps ==
  ASSUME MacParts, NEW sync \in Mac!SyncStates, Mac!SetSync(sync), UNCHANGED <<seen, frame>>,
         running' \in BOOLEAN, Bounded'
  PROVE  AppTypes' /\ (~dirty' => seen' = app')
<1>1. AppTypes
  BY DEF MacParts
<1>2. app' \in Mac!Snapshots /\ dirty' \in BOOLEAN /\ (~dirty' => seen' = app')
  BY <1>1, SyncTypes, PublishKeeps DEF Mac!SetSync
<1> QED BY <1>1, <1>2 DEF AppTypes

\* What follows in a sequence of calls.
LEMMA Follows ==
  ASSUME NEW a \in Seq(Mac!Calling), NEW b \in Seq(Mac!Calling), NEW i \in 1..Len(a \o b)
  PROVE  \/ i \in 1..Len(a) /\ (a \o b)[i] = a[i]
         \/ \E j \in 1..Len(b) : (a \o b)[i] = b[j]
<1>1. /\ Len(a \o b) = Len(a) + Len(b) /\ Len(a) \in Nat /\ Len(b) \in Nat
  OBVIOUS
<1>2. CASE i <= Len(a)
  BY <1>1, <1>2
<1>3. CASE i > Len(a)
  <2>1. i - Len(a) \in 1..Len(b) /\ (a \o b)[i] = b[i - Len(a)] /\ i = Len(a) + (i - Len(a))
    BY <1>1, <1>3
  <2> QED BY <2>1
<1> QED BY <1>1, <1>2, <1>3

LEMMA MacBoot ==
  ASSUME MacParts, Mac!Boot
  PROVE  MacParts'
<1>1. PICK sync \in {"CliNotFound", "NotLoggedIn", "Synced", "Scanning"} :
        /\ Mac!Counted /\ Mac!SetSync(sync)
        /\ Mac!Calls("autostart",
             (CASE sync = "CliNotFound" -> <<>>
                [] sync = "NotLoggedIn" -> <<Mac!Call("login", FALSE)>>
                [] OTHER                -> <<Mac!Call("login", TRUE)>>)
             \o <<Mac!Call("status", sync), Mac!IconCall(sync, 0)>>
             \o (IF sync = "Scanning" THEN <<[op |-> "launch"]>> ELSE <<>>))
  BY DEF Mac!Boot
<1>2. /\ UNCHANGED <<Mac!trayVars, local>> /\ UNCHANGED <<seen, frame, running>>
      /\ Mac!At("autostart", "boot", "idle") /\ pc["autostart"] = "idle"
      /\ "autostart" \in Mac!Tasks /\ sync \in Mac!SyncStates
  BY DEF Mac!Boot, Mac!At, Mac!Free, Mac!Tasks, Mac!SyncStates
<1>3. AppTypes' /\ (~dirty' => seen' = app')
  <2>1. running' \in BOOLEAN /\ Bounded'
    BY <1>1, <1>2, CountedTypes DEF MacParts, AppTypes
  <2> QED BY <1>1, <1>2, <2>1, SetSyncKeeps
<1> DEFINE first == CASE sync = "CliNotFound" -> <<>>
                      [] sync = "NotLoggedIn" -> <<Mac!Call("login", FALSE)>>
                      [] OTHER                -> <<Mac!Call("login", TRUE)>>
           draw == <<Mac!Call("status", sync), Mac!IconCall(sync, 0)>>
           last == IF sync = "Scanning" THEN <<[op |-> "launch"]>> ELSE <<>>
           calls == first \o draw \o last
<1>4. /\ first \in Seq(Mac!Calling) /\ Len(first) <= 1
      /\ \A i \in 1..Len(first) : first[i].op = "login"
  <2> DEFINE f == Mac!Call("login", FALSE)
             g == Mac!Call("login", TRUE)
  <2>1. f \in Mac!Calling /\ g \in Mac!Calling /\ f.op = "login" /\ g.op = "login"
    BY CallTypesAre DEF Mac!Call
  <2>2. first = <<>> \/ first = <<f>> \/ first = <<g>>
    OBVIOUS
  <2> HIDE DEF f, g, first
  <2>3. CASE first = <<>>
    BY <2>3
  <2>4. CASE first = <<f>>
    BY <2>1, <2>4
  <2>5. CASE first = <<g>>
    BY <2>1, <2>5
  <2> QED BY <2>2, <2>3, <2>4, <2>5
<1>5. /\ draw \in Seq(Mac!Calling) /\ Len(draw) = 2
      /\ \A i \in 1..Len(draw) : draw[i].op \in {"status", "icon"}
  <2> DEFINE f == Mac!Call("status", sync)
             g == Mac!IconCall(sync, 0)
  <2>1. f \in Mac!Calling /\ g \in Mac!Calling /\ f.op = "status" /\ g.op = "icon"
    BY <1>2, CallTypesAre, MacBounds DEF Mac!Call, Mac!IconCall
  <2>2. draw = <<f, g>>
    OBVIOUS
  <2> HIDE DEF f, g, draw
  <2>3. draw \in Seq(Mac!Calling) /\ Len(draw) = 2 /\ draw[1] = f /\ draw[2] = g
    BY <2>1, <2>2
  <2>4. \A i \in 1..2 : i = 1 \/ i = 2
    OBVIOUS
  <2> QED BY <2>1, <2>3, <2>4
<1>6. last \in Seq(Mac!Calling) /\ \A i \in 1..Len(last) : last[i].op = "launch"
  BY CallTypesAre
<1>7. Mac!Calls("autostart", calls)
  BY <1>1
<1> HIDE DEF first, draw, last
<1>8. /\ calls \in Seq(Mac!Calling)
      /\ \A i \in 1..Len(calls) :
           \/ i = 1 /\ calls[i].op = "login"
           \/ calls[i].op \in {"status", "icon", "launch"}
  <2> DEFINE begin == first \o draw
  <2>0. first \in Seq(Mac!Calling) /\ draw \in Seq(Mac!Calling)
    BY <1>4, <1>5
  <2>1. begin \in Seq(Mac!Calling)
    BY <2>0
  <2>2. ASSUME NEW i \in 1..Len(begin)
        PROVE  \/ i = 1 /\ begin[i].op = "login"
               \/ begin[i].op \in {"status", "icon"}
    <3>1. \/ i \in 1..Len(first) /\ begin[i] = first[i]
          \/ \E j \in 1..Len(draw) : begin[i] = draw[j]
      BY <2>0, Follows
    <3>2. i \in 1..Len(first) => i = 1
      BY <1>4
    <3> QED BY <1>4, <1>5, <3>1, <3>2
  <2>3. calls = begin \o last
    OBVIOUS
  <2> HIDE DEF begin, calls
  <2>4. calls \in Seq(Mac!Calling)
    BY <1>6, <2>1, <2>3
  <2>5. ASSUME NEW i \in 1..Len(calls)
        PROVE  \/ i = 1 /\ calls[i].op = "login"
               \/ calls[i].op \in {"status", "icon", "launch"}
    <3>1. \/ i \in 1..Len(begin) /\ calls[i] = begin[i]
          \/ \E j \in 1..Len(last) : calls[i] = last[j]
      BY <1>6, <2>1, <2>3, Follows
    <3> QED BY <1>6, <2>2, <3>1
  <2> QED BY <2>4, <2>5
<1> HIDE DEF calls
<1>9. \A i \in 1..Len(calls) : /\ calls[i].op = "login" => i = 1
                               /\ calls[i].op # "boot" /\ calls[i].op # "transfer"
  BY <1>8
<1> QED BY <1>2, <1>3, <1>7, <1>8, <1>9, CallsKeep

\* What a handler or a start is left with, of one to three calls.
LEMMA HandlerKeeps ==
  ASSUME MacParts, NEW t \in {"autostart", "handler"}, NEW sync \in Mac!SyncStates,
         Mac!SetSync(sync), UNCHANGED <<seen, frame>>,
         running' \in BOOLEAN, Bounded',
         UNCHANGED <<Mac!trayVars, local>>, pc[t] = "idle",
         NEW calls \in Seq(Mac!Calling), Mac!Calls(t, calls),
         \A i \in 1..Len(calls) :
           /\ calls[i].op = "login" => i = 1 /\ t = "handler" /\ shown.actions # Mac!Always
           /\ calls[i].op # "boot" /\ calls[i].op # "transfer"
  PROVE  MacParts'
<1>1. AppTypes' /\ (~dirty' => seen' = app')
  BY SetSyncKeeps
<1>2. t \in Mac!Tasks /\ t # "loop"
  BY DEF Mac!Tasks
<1> QED BY <1>1, <1>2, CallsKeep

LEMMA FreeIsIdle ==
  ASSUME CallTypes, NEW t \in Mac!Tasks, Mac!Free(t)
  PROVE  pc[t] = "idle"
  BY DEF CallTypes, Mac!Free

LEMMA MacLogIn ==
  ASSUME MacParts, Mac!LogIn
  PROVE  MacParts'
<1>1. /\ Mac!Counted /\ Mac!SetSync("Scanning") /\ UNCHANGED <<seen, frame, running>>
      /\ UNCHANGED <<Mac!trayVars, local>>
      /\ Mac!Calls("handler", <<Mac!Call("login", TRUE), Mac!Call("status", "Scanning"),
                                [op |-> "launch"]>>)
      /\ shown.actions # Mac!Always
  BY DEF Mac!LogIn, Mac!Always
<1>2. /\ pc["handler"] = "idle" /\ running' \in BOOLEAN /\ Bounded'
  BY <1>1, FreeIsIdle, CountedTypes DEF MacParts, AppTypes, Mac!LogIn, Mac!Tasks
<1> DEFINE a == Mac!Call("login", TRUE)
           b == Mac!Call("status", "Scanning")
           c == [op |-> "launch"]
           calls == <<a, b, c>>
<1>3. /\ a \in Mac!Calling /\ b \in Mac!Calling /\ c \in Mac!Calling
      /\ a.op = "login" /\ b.op = "status" /\ c.op = "launch"
  BY CallTypesAre DEF Mac!Call, Mac!SyncStates
<1>4. Mac!Calls("handler", calls)
  BY <1>1
<1> HIDE DEF a, b, c
<1>5. /\ calls \in Seq(Mac!Calling)
      /\ \A i \in 1..Len(calls) :
           (i = 1 /\ calls[i] = a) \/ calls[i] = b \/ calls[i] = c
  BY <1>3
<1> HIDE DEF calls
<1>6. \A i \in 1..Len(calls) : /\ calls[i].op = "login" => i = 1
                               /\ calls[i].op # "boot" /\ calls[i].op # "transfer"
  BY <1>3, <1>5
<1>7. "Scanning" \in Mac!SyncStates
  BY DEF Mac!SyncStates
<1> QED BY <1>1, <1>2, <1>4, <1>5, <1>6, <1>7, HandlerKeeps

LEMMA MacLogOut ==
  ASSUME MacParts, Mac!LogOut
  PROVE  MacParts'
<1>1. /\ Mac!Counted /\ Mac!SetSync("NotLoggedIn") /\ UNCHANGED <<seen, frame>> /\ running' = FALSE
      /\ UNCHANGED <<Mac!trayVars, local>>
      /\ Mac!Calls("handler", <<Mac!Call("login", FALSE), Mac!Call("status", "NotLoggedIn")>>)
      /\ shown.actions # Mac!Always
  BY DEF Mac!LogOut, Mac!Always
<1>2. /\ pc["handler"] = "idle" /\ running' \in BOOLEAN /\ Bounded'
  BY <1>1, FreeIsIdle, CountedTypes DEF MacParts, Mac!LogOut, Mac!Tasks
<1> DEFINE a == Mac!Call("login", FALSE)
           b == Mac!Call("status", "NotLoggedIn")
           calls == <<a, b>>
<1>3. /\ a \in Mac!Calling /\ b \in Mac!Calling /\ a.op = "login" /\ b.op = "status"
  BY CallTypesAre DEF Mac!Call, Mac!SyncStates
<1>4. Mac!Calls("handler", calls)
  BY <1>1
<1> HIDE DEF a, b
<1>5. /\ calls \in Seq(Mac!Calling)
      /\ \A i \in 1..Len(calls) : (i = 1 /\ calls[i] = a) \/ calls[i] = b
  BY <1>3
<1> HIDE DEF calls
<1>6. \A i \in 1..Len(calls) : /\ calls[i].op = "login" => i = 1
                               /\ calls[i].op # "boot" /\ calls[i].op # "transfer"
  BY <1>3, <1>5
<1>7. "NotLoggedIn" \in Mac!SyncStates
  BY DEF Mac!SyncStates
<1> QED BY <1>1, <1>2, <1>4, <1>5, <1>6, <1>7, HandlerKeeps

LEMMA MacTogglePause ==
  ASSUME MacParts, Mac!TogglePause
  PROVE  MacParts'
<1>1. /\ UNCHANGED <<seen, frame>> /\ UNCHANGED <<Mac!trayVars, local>> /\ pc["handler"] = "idle"
      /\ running \in BOOLEAN /\ Bounded
      /\ "Scanning" \in Mac!SyncStates /\ "Paused" \in Mac!SyncStates
  BY FreeIsIdle DEF MacParts, AppTypes, Mac!TogglePause, Mac!Tasks, Mac!SyncStates
<1>2. CASE /\ Mac!SetSync("Scanning") /\ Mac!Calls("handler", <<[op |-> "resume"]>>)
           /\ UNCHANGED <<running, Mac!counted>>
  <2> DEFINE c == [op |-> "resume"]
             calls == <<c>>
  <2>1. c \in Mac!Calling /\ c.op = "resume"
    BY CallTypesAre
  <2>2. Mac!Calls("handler", calls)
    BY <1>2
  <2> HIDE DEF c
  <2>3. calls \in Seq(Mac!Calling) /\ \A i \in 1..Len(calls) : calls[i] = c
    BY <2>1
  <2> HIDE DEF calls
  <2>4. \A i \in 1..Len(calls) :
          calls[i].op # "login" /\ calls[i].op # "boot" /\ calls[i].op # "transfer"
    BY <2>1, <2>3
  <2>5. running' \in BOOLEAN /\ Bounded'
    BY <1>1, <1>2 DEF Bounded, Mac!counted
  <2> QED BY <1>1, <1>2, <2>2, <2>3, <2>4, <2>5, HandlerKeeps
<1>3. CASE Mac!SetSync("Paused") /\ Mac!Counted /\ running' = FALSE /\ UNCHANGED <<todo, pc>>
  <2>1. running' \in BOOLEAN /\ Bounded'
    BY <1>3, CountedTypes DEF MacParts
  <2>2. AppTypes' /\ (~dirty' => seen' = app')
    BY <1>1, <1>3, <2>1, SetSyncKeeps
  <2> QED BY <1>1, <1>3, <2>2, QuietKeeps DEF Mac!taskVars
<1> QED BY <1>2, <1>3 DEF Mac!TogglePause

\* A start that goes well, or a resume that fails, ends a call of the handler;
\* of a start that fails the status is drawn.
LEMMA MacLaunch ==
  ASSUME MacParts, NEW t \in Mac!Tasks \ {"loop"}, Mac!Launch(t)
  PROVE  MacParts'
<1>0. StateTypes /\ ShownTypes /\ CallTypes /\ AppTypes
  BY DEF MacParts
<1>1. /\ todo[t] # <<>> /\ Mac!First(t).op \in {"launch", "resume"} /\ pc[t] = "idle"
      /\ UNCHANGED <<Mac!trayVars, local>> /\ UNCHANGED <<seen, frame>>
  BY DEF Mac!Launch, Mac!At
<1>2. UNCHANGED <<state, reading, shown, builder, attached, using, icon, local, seen>>
  BY <1>1 DEF Mac!trayVars
<1>3. StateTypes' /\ ShownTypes' /\ local' = [u \in Mac!Tasks |-> local'[u]]
  BY <1>0, <1>2 DEF StateTypes, ShownTypes, CallTypes
<1>4. "Error" \in Mac!SyncStates /\ running \in BOOLEAN /\ Bounded
  BY <1>0 DEF Mac!SyncStates, AppTypes
<1>5. ASSUME Mac!Done(t), AppTypes', dirty => dirty', dirty' \/ app' = app
      PROVE  MacParts'
  <2>1. DrawStep(t)
    BY <1>1, <1>2, <1>3, <1>5 DEF DrawStep, ShownTypes
  <2> QED BY <1>3, <1>5, <2>1, DrawKeeps DEF MacParts
<1>6. CASE running' = TRUE /\ Mac!Done(t) /\ UNCHANGED <<app, dirty, Mac!counted>>
  <2>1. AppTypes'
    BY <1>0, <1>1, <1>6 DEF AppTypes, Bounded, Mac!counted
  <2> QED BY <1>5, <1>6, <2>1
<1>7. CASE Mac!SetSync("Error") /\ UNCHANGED <<running, Mac!counted>> /\ Mac!Done(t)
  <2>1. AppTypes'
    BY <1>1, <1>4, <1>7, SetSyncKeeps DEF Bounded, Mac!counted
  <2>2. (dirty => dirty') /\ (dirty' \/ app' = app)
    BY <1>7 DEF Mac!SetSync, Mac!Publish
  <2> QED BY <1>5, <1>7, <2>1, <2>2
<1>8. CASE /\ Mac!SetSync("Error") /\ UNCHANGED <<running, Mac!counted>>
           /\ Mac!First(t).op = "launch" /\ Mac!Calls(t, <<Mac!Call("status", "Error")>>)
  <2>1. AppTypes' /\ (~dirty' => seen' = app')
    BY <1>1, <1>4, <1>8, SetSyncKeeps DEF Bounded, Mac!counted
  <2> DEFINE c == Mac!Call("status", "Error")
             calls == <<c>>
  <2>2. c \in Mac!Calling /\ c.op = "status" /\ Mac!Calls(t, calls)
    BY <1>4, <1>8, CallTypesAre DEF Mac!Call
  <2> HIDE DEF c
  <2>3. calls \in Seq(Mac!Calling) /\ \A i \in 1..Len(calls) : calls[i] = c
    BY <2>2
  <2> HIDE DEF calls
  <2>4. \A i \in 1..Len(calls) :
          calls[i].op # "login" /\ calls[i].op # "boot" /\ calls[i].op # "transfer"
    BY <2>2, <2>3
  <2> QED BY <1>1, <2>1, <2>2, <2>3, <2>4, CallsKeep
<1> QED BY <1>6, <1>7, <1>8 DEF Mac!Launch

-----------------------------------------------------------------------------
(* The trays and the page                                                  *)

LEMMA MacInit == Mac!Init => MacParts
<1> SUFFICES ASSUME Mac!Init PROVE MacParts
  OBVIOUS
<1> DEFINE initial == Mac!InitialState
<1>1. /\ state = initial /\ reading = {} /\ using = {} /\ shown = Mac!MenuOf(initial)
      /\ attached = TRUE /\ builder = "autostart" /\ icon = "Starting"
      /\ pc = [t \in Mac!Tasks |-> "idle"] /\ local = [t \in Mac!Tasks |-> Nothing]
      /\ todo = [t \in Mac!Tasks |-> IF t = "autostart" THEN <<[op |-> "boot"]>> ELSE <<>>]
      /\ app = Mac!Snapshot("Starting", 0, Nothing) /\ dirty = FALSE /\ seen = app /\ frame = 0
      /\ running = FALSE /\ changes = 0 /\ events = 0
  BY DEF Mac!Init
<1>2. /\ initial \in Mac!TrayState /\ initial.login = Nothing /\ initial.transfer = Nothing
  BY MacBounds DEF Mac!InitialState, Mac!TrayState, Mac!SyncStates
<1>3. StateTypes
  BY <1>1, <1>2 DEF StateTypes
<1>4. ShownTypes
  BY <1>1 DEF ShownTypes, Mac!MenuOf, Mac!Items, Mac!Tasks, Mac!SyncStates
<1>5. AppTypes
  <2>1. 0 \in 0..MaxCount /\ 0 \in 0..MaxChanges /\ 0 \in 0..MaxEvents /\ 0 \in 0..MacFrame
    BY MacBounds
  <2>2. Mac!Snapshot("Starting", 0, Nothing) \in Mac!Snapshots
    BY <2>1 DEF Mac!Snapshot, Mac!Snapshots, Mac!SyncStates
  <2> QED BY <1>1, <2>1, <2>2 DEF AppTypes, Bounded
<1>6. /\ "autostart" \in Mac!Tasks /\ "handler" \in Mac!Tasks /\ "loop" \in Mac!Tasks
      /\ todo["autostart"] = <<[op |-> "boot"]>> /\ todo["handler"] = <<>> /\ todo["loop"] = <<>>
      /\ \A t \in Mac!Tasks : t = "autostart" \/ todo[t] = <<>>
  BY <1>1 DEF Mac!Tasks
<1>7. CallTypes
  <2>1. [op |-> "boot"] \in Mac!Calling
    BY CallTypesAre
  <2>2. <<[op |-> "boot"]>> \in Seq(Mac!Calling) /\ <<>> \in Seq(Mac!Calling)
    BY <2>1
  <2> QED BY <1>1, <2>2 DEF CallTypes, Mac!Steps
<1>8. \A t \in Mac!Tasks : \A i \in 1..Len(todo[t]) : i = 1 /\ todo[t][i].op = "boot"
  BY <1>6
<1>9. \A t \in Mac!Tasks : \A S : ~Mac!Rebuilding(t, S)
  BY <1>6 DEF Mac!Rebuilding, Mac!First
<1>10. Mac!Rebuild
  BY <1>1, <1>9 DEF Mac!Rebuild
<1>11. shown.actions = Mac!Always /\ shown.actions = Mac!Actions(state.login)
  <2>1. shown.actions = Mac!Actions(Nothing)
    BY <1>1, <1>2 DEF Mac!MenuOf
  <2>2. Mac!Actions(Nothing) = Mac!Always
    BY MacBounds DEF Mac!Actions
  <2> QED BY <1>1, <1>2, <2>1, <2>2
<1>12. Mac!FirstMenu
  BY <1>6, <1>8, <1>9, <1>11 DEF Mac!FirstMenu
<1>13. Mac!MenuFollows
  <2>1. shown.transfer = Mac!TransferText(state.transfer)
    BY <1>1 DEF Mac!MenuOf
  <2> QED BY <1>11, <2>1 DEF Mac!MenuFollows
<1>14. Mac!TransferFollows
  <2>1. seen.transfer = Nothing
    BY <1>1 DEF Mac!Snapshot
  <2> QED BY <1>1, <1>2, <1>6, <1>8, <2>1 DEF Mac!TransferFollows, Mac!At
<1> QED BY <1>3, <1>4, <1>5, <1>7, <1>10, <1>12, <1>13, <1>14 DEF MacParts

LEMMA MacNext ==
  ASSUME MacParts, Mac!Next
  PROVE  MacParts'
<1>1. CASE Mac!Environment
  BY <1>1, MacRedraw, MacAnimate, MacEvent, MacBoot, MacLogIn, MacLogOut, MacTogglePause,
     MacLaunch DEF Mac!Environment
<1>2. ASSUME NEW t \in Mac!Tasks, Mac!Step(t) PROVE MacParts'
  <2>1. CASE \/ Mac!WriteIcon(t) \/ Mac!ReadIcon(t) \/ Mac!SetPendingItem(t)
             \/ Mac!SetPauseItem(t) \/ Mac!SetIcon(t)
    BY <2>1, MacWriteIcon, MacReadIcon, MacSetPendingItem, MacSetPauseItem, MacSetIcon
  <2>2. CASE Mac!WriteStatus(t) \/ Mac!SetStatusTip(t) \/ Mac!SetStatusItem(t)
    BY <2>2, MacWriteStatus, MacSetStatusTip, MacSetStatusItem
  <2>3. CASE \E op \in {"count", "synced", "transfer"} : Mac!WriteField(t, op)
    BY <2>3, MacWriteCount, MacWriteSynced, MacWriteTransfer
  <2>4. CASE Mac!ReadCount(t) \/ Mac!ReadSynced(t) \/ Mac!SetPending(t) \/ Mac!SetTransfer(t)
    BY <2>4, MacReadCount, MacReadSynced, MacSetPending, MacSetTransfer
  <2>5. CASE Mac!WriteLogin(t) \/ Mac!BuildMenu(t) \/ Mac!SetMenu(t) \/ Mac!ReplaceItems(t)
    BY <2>5, MacWriteLogin, MacBuildMenu, MacSetMenu, MacReplaceItems
  <2> QED BY <1>2, <2>1, <2>2, <2>3, <2>4, <2>5 DEF Mac!Step
<1> QED BY <1>1, <1>2 DEF Mac!Next

LEMMA PageNext ==
  ASSUME PageInv, Activity!Next
  PROVE  PageInv'
<1>1. CASE Activity!History
  BY <1>1, PageRecord, PageNotify, PageClearHistory, PageAnswerRecent, PageForward
  DEF Activity!History
<1>2. CASE Activity!Page
  BY <1>2, PageOpen, PageListen, PageFirstRefresh, PageFireTimer, PageRetry,
     PageTakeAnswer, PageFilter, PageClear, PageClearAnswered, PageClearRefused DEF Activity!Page
<1> QED BY <1>1, <1>2 DEF Activity!Next

\* What all three keep, whichever of them takes a step.
Kept == LinuxInv /\ MacParts /\ PageInv

LEMMA KeptInit == Init => Kept
  BY LinuxInit, MacInit, PageInit DEF Init, Kept

LEMMA KeptNext == Kept /\ [Next]_vars => Kept'
<1> SUFFICES ASSUME Kept, [Next]_vars PROVE Kept'
  OBVIOUS
<1>1. LinuxInv'
  <2>1. CASE LinuxStep
    BY <2>1, LinuxNext DEF LinuxStep, Kept
  <2>2. CASE UNCHANGED linuxVars
    BY <2>2 DEF linuxVars, Kept, LinuxInv, Linux!TypeOK, Linux!StaleIsAsked
  <2> QED BY <2>1, <2>2 DEF Next, vars
<1>2. MacParts'
  <2>1. CASE MacStep
    BY <2>1, MacNext DEF MacStep, Kept
  <2>2. CASE UNCHANGED macVars
    <3>1. UNCHANGED <<Mac!trayVars, Mac!taskVars, seen>> /\ UNCHANGED <<app, dirty, frame, running, Mac!counted>>
      BY <2>2 DEF macVars, Mac!trayVars, Mac!taskVars, Mac!counted
    <3>2. AppTypes' /\ (~dirty' => seen' = app')
      BY <3>1 DEF Kept, MacParts, AppTypes, Bounded, Mac!counted, Mac!TransferFollows
    <3> QED BY <3>1, <3>2, QuietKeeps DEF Kept
  <2> QED BY <2>1, <2>2 DEF Next, vars
<1>3. PageInv'
  <2>1. CASE PageStep
    BY <2>1, PageNext DEF PageStep, Kept
  <2>2. CASE UNCHANGED pageVars
    BY <2>2 DEF pageVars, Kept, PageInv, Activity!TypeOK, Activity!RefreshesOwed, Activity!Owed,
       Activity!AnswersCurrent, Activity!ClearedNotShown
  <2> QED BY <2>1, <2>2 DEF Next, vars
<1> QED BY <1>1, <1>2, <1>3 DEF Kept

LEMMA KeptAlways == Spec => []Kept
  BY KeptInit, KeptNext, PTL DEF Spec

\* At rest the loop has drawn what it saw, and no task is about to set a menu.
LEMMA RestIsCurrent == MacParts => Mac!RebuildKeepsUp
<1> SUFFICES ASSUME MacParts, Mac!AtRest
             PROVE  /\ attached /\ shown.actions = Mac!Actions(state.login)
                    /\ shown.transfer = Mac!TransferText(app.transfer)
  BY DEF Mac!RebuildKeepsUp
<1>1. ~dirty /\ \A t \in Mac!Tasks : todo[t] = <<>>
  BY DEF Mac!AtRest, Mac!Free
<1>2. /\ \A t \in Mac!Tasks : \A S : ~Mac!Rebuilding(t, S)
      /\ ~Mac!At("loop", "transfer", "read")
      /\ ~(\E i \in 1..Len(todo["loop"]) : todo["loop"][i].op = "transfer")
  BY <1>1 DEF Mac!Rebuilding, Mac!At, Mac!Tasks
<1>3. attached
  BY <1>2 DEF MacParts, Mac!Rebuild
<1>4. shown.actions = Mac!Actions(state.login) /\ shown.transfer = Mac!TransferText(state.transfer)
  BY <1>2 DEF MacParts, Mac!MenuFollows
<1>5. state.transfer = app.transfer
  BY <1>1, <1>2 DEF MacParts, Mac!TransferFollows
<1> QED BY <1>3, <1>4, <1>5

\* tray/linux.rs, tray/macos.rs and activity.js: whatever is drawn, counted or
\* recorded, and whichever of the tasks is where, a part of the Linux menu
\* that is out of date is about to be asked for; on macOS the menu is behind
\* the state only where a task is about to set it, and one task at a time
\* replaces it; and what comes to the page as the current answer has nothing
\* that the page knows is cleared.
THEOREM ScreenKept == Spec => []ScreenInv
<1>1. Kept => ScreenInv
  BY MacPartsInv DEF Kept, LinuxInv, PageInv, ScreenInv
<1> QED BY <1>1, KeptAlways, PTL

\* tray/macos.rs: with any number of changes, clicks and redraws, a menu that
\* is replaced while its items are set ends up with its items attached, the
\* actions of the login state and the transfer of the last redraw.
THEOREM MenuKeepsUp == Spec => []RebuildKeepsUp
<1>1. Kept => RebuildKeepsUp
  BY RestIsCurrent DEF Kept, RebuildKeepsUp
<1> QED BY <1>1, KeptAlways, PTL

\* activity.js: with any number of records, clears and retries, an entry that
\* the page has been told is cleared is not shown again.
THEOREM ClearedStaysHidden == Spec => []ClearedNotShown
<1>1. Kept => ClearedNotShown
  BY DEF Kept, PageInv, ClearedNotShown
<1> QED BY <1>1, KeptAlways, PTL
=============================================================================
