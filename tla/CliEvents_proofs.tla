-------------------------- MODULE CliEvents_proofs --------------------------
(***************************************************************************)
(* What the monitors and the supervisor make of the CLI's output, for any  *)
(* number of tasks, cycles and records and any size of the pipes.          *)
(***************************************************************************)
EXTENDS CliEvents, TLAPS

Done(e) == Succeeds(e) \/ Fails(e)

\* What the calls of an event's handler do, taken together.
Handles(calls, e) ==
  /\ calls \in Seq(Operations) /\ Len(calls) <= 6 /\ InOrder(calls)
  /\ \A i \in DOMAIN calls : calls[i].call = "pending" =>
       \A n \in Nat : calls[i].count = CountAfter(e, n)
  /\ Makes("writePending", calls) =>
       Makes("readPending", calls) /\ \A n \in Nat : CountAfter(e, n) = Less(n)
  /\ ~Makes("pending", calls) /\ ~Makes("writePending", calls) =>
       \A n \in Nat : CountAfter(e, n) = n
  /\ Makes("record", calls) <=> Done(e)
  /\ Makes("lastSynced", calls) <=> e.type = "cycleSuccess"
  /\ \A i \in DOMAIN calls : calls[i].call = "state" /\ calls[i].state = "Offline" =>
       e.type = "cycleError" /\ e.network

LEMMA TypeOfEvent ==
  ASSUME NEW e \in Events
  PROVE  \/ e.type \in {"cycleGettingTreesStarted", "cycleProcessingTasksStarted",
                        "cycleSuccess", "doneSyncing", "syncing"}
         \/ e.type = "cycleError" /\ e.network \in BOOLEAN
         \/ e.type = "deltasCount" /\ e.count \in 0..MaxTasks
         \/ /\ e.type = "transfer"
            /\ e.of \in {"upload", "uploadFile", "createLocalDirectory"}
            /\ e.status \in {"queued", "started", "finished", "success", "error"}
  BY DEF Events

LEMMA Typed ==
  /\ \A x \in SUBSET SyncStates : Unless(x) \in Operations
  /\ \A x \in SyncStates : State(x) \in Operations
  /\ \A x \in 0..MaxTasks : Pending(x) \in Operations
  /\ \A x \in BOOLEAN : Transfer(x) \in Operations
  /\ \A x \in {"record", "readPending", "writePending", "lastSynced"} : Call(x) \in Operations
  BY DEF Operations, Unless, State, Pending, Transfer, Call

LEMMA TheCalls ==
  /\ \A x \in {"Synced", "Syncing", "Error", "Offline"} : State(x) \in Operations
  /\ Pending(0) \in Operations
  /\ \A x \in {"Synced", "Syncing"} : Unless({x}) \in Operations
  /\ Transfer(FALSE) \in Operations /\ Transfer(TRUE) \in Operations
<1>1. {"Synced", "Syncing", "Error", "Offline"} \subseteq SyncStates
  BY DEF SyncStates
<1>2. 0 \in 0..MaxTasks
  BY EventAssumption
<1>3. \A x \in SyncStates : {x} \in SUBSET SyncStates
  OBVIOUS
<1> QED BY <1>1, <1>2, <1>3, Typed

\* An event that only moves the state on.
LEMMA MovesOn ==
  ASSUME NEW e \in Events, NEW x \in SUBSET SyncStates,
         NEW s \in SyncStates \ {"Synced", "Offline"},
         \A n \in Nat : CountAfter(e, n) = n, ~Done(e), e.type # "cycleSuccess"
  PROVE  Handles(<<Unless(x), State(s)>>, e)
<1> DEFINE calls == <<Unless(x), State(s)>>
<1>0. /\ Unless(x) \in Operations
      /\ State(s) \in Operations
  BY Typed, TheCalls
<1>1. calls \in Seq(Operations) /\ Len(calls) <= 6
  BY <1>0
<1>2. /\ DOMAIN calls = {1, 2}
      /\ calls[1].call = "unless"
      /\ calls[1].states = x
      /\ calls[2].call = "state"
      /\ calls[2].state = s
  BY DEF Unless, State, Pending, Transfer, Call
<1> HIDE DEF calls
<1>3. InOrder(calls)
  BY <1>2 DEF InOrder, Makes
<1>4. Handles(calls, e)
  BY <1>1, <1>2, <1>3 DEF Handles, Makes, CountAfter, Done, Succeeds, Fails, Less
<1> QED BY <1>4 DEF calls

\* The end of a cycle.
LEMMA Succeeded ==
  ASSUME NEW e \in Events, NEW shown \in BOOLEAN, e.type = "cycleSuccess"
  PROVE  Handles(<<State("Synced"), Pending(0), Transfer(shown), Call("lastSynced")>>, e)
<1> DEFINE calls == <<State("Synced"), Pending(0), Transfer(shown), Call("lastSynced")>>
<1>0. /\ State("Synced") \in Operations
      /\ Pending(0) \in Operations
      /\ Transfer(shown) \in Operations
      /\ Call("lastSynced") \in Operations
  BY Typed, TheCalls
<1>1. calls \in Seq(Operations) /\ Len(calls) <= 6
  BY <1>0
<1>2. /\ DOMAIN calls = {1, 2, 3, 4}
      /\ calls[1].call = "state"
      /\ calls[1].state = "Synced"
      /\ calls[2].call = "pending"
      /\ calls[2].count = 0
      /\ calls[3].call = "transfer"
      /\ calls[4].call = "lastSynced"
      /\ calls[2] = Pending(0)
  BY DEF Unless, State, Pending, Transfer, Call
<1> HIDE DEF calls
<1>3. InOrder(calls)
  BY <1>2 DEF InOrder, Makes
<1>4. Handles(calls, e)
  BY <1>1, <1>2, <1>3 DEF Handles, Makes, CountAfter, Done, Succeeds, Fails, Less
<1> QED BY <1>4 DEF calls

\* The failure of a cycle.
LEMMA Failed ==
  ASSUME NEW e \in Events, NEW s \in SyncStates \ {"Synced"}, NEW shown \in BOOLEAN,
         e.type = "cycleError", s = "Offline" => e.network
  PROVE  Handles(<<State(s), Pending(0), Transfer(shown)>>, e)
<1> DEFINE calls == <<State(s), Pending(0), Transfer(shown)>>
<1>0. /\ State(s) \in Operations
      /\ Pending(0) \in Operations
      /\ Transfer(shown) \in Operations
  BY Typed, TheCalls
<1>1. calls \in Seq(Operations) /\ Len(calls) <= 6
  BY <1>0
<1>2. /\ DOMAIN calls = {1, 2, 3}
      /\ calls[1].call = "state"
      /\ calls[1].state = s
      /\ calls[2].call = "pending"
      /\ calls[2].count = 0
      /\ calls[3].call = "transfer"
  BY DEF Unless, State, Pending, Transfer, Call
<1> HIDE DEF calls
<1>3. InOrder(calls)
  BY <1>2 DEF InOrder, Makes
<1>4. Handles(calls, e)
  BY <1>1, <1>2, <1>3 DEF Handles, Makes, CountAfter, Done, Succeeds, Fails, Less
<1> QED BY <1>4 DEF calls

LEMMA NothingToDo ==
  ASSUME NEW e \in Events, e.type = "deltasCount", e.count = 0
  PROVE  Handles(<<Pending(0)>>, e)
<1> DEFINE calls == <<Pending(0)>>
<1>0. /\ Pending(0) \in Operations
  BY Typed, TheCalls
<1>1. calls \in Seq(Operations) /\ Len(calls) <= 6
  BY <1>0
<1>2. /\ DOMAIN calls = {1}
      /\ calls[1].call = "pending"
      /\ calls[1].count = 0
  BY DEF Unless, State, Pending, Transfer, Call
<1> HIDE DEF calls
<1>3. InOrder(calls)
  BY <1>2 DEF InOrder, Makes
<1>4. Handles(calls, e)
  BY <1>1, <1>2, <1>3 DEF Handles, Makes, CountAfter, Done, Succeeds, Fails, Less
<1> QED BY <1>4 DEF calls

LEMMA Deltas ==
  ASSUME NEW e \in Events, e.type = "deltasCount", e.count \in 0..MaxTasks
  PROVE  Handles(<<Pending(e.count), State("Syncing")>>, e)
<1> DEFINE calls == <<Pending(e.count), State("Syncing")>>
<1>0. /\ Pending(e.count) \in Operations
      /\ State("Syncing") \in Operations
  BY Typed, TheCalls
<1>1. calls \in Seq(Operations) /\ Len(calls) <= 6
  BY <1>0
<1>2. /\ DOMAIN calls = {1, 2}
      /\ calls[1].call = "pending"
      /\ calls[1].count = e.count
      /\ calls[2].call = "state"
      /\ calls[2].state = "Syncing"
      /\ calls[2] = State("Syncing")
  BY DEF Unless, State, Pending, Transfer, Call
<1> HIDE DEF calls
<1>3. InOrder(calls)
  BY <1>2 DEF InOrder, Makes
<1>4. Handles(calls, e)
  BY <1>1, <1>2, <1>3 DEF Handles, Makes, CountAfter, Done, Succeeds, Fails, Less
<1> QED BY <1>4 DEF calls

LEMMA DoneSyncing ==
  ASSUME NEW e \in Events, NEW x \in SUBSET SyncStates, e.type = "doneSyncing"
  PROVE  x = {"Synced"} => Handles(<<Unless(x), State("Synced"), Pending(0)>>, e)
<1> DEFINE calls == <<Unless(x), State("Synced"), Pending(0)>>
<1>0. /\ Unless(x) \in Operations
      /\ State("Synced") \in Operations
      /\ Pending(0) \in Operations
  BY Typed, TheCalls
<1>1. calls \in Seq(Operations) /\ Len(calls) <= 6
  BY <1>0
<1>2. /\ DOMAIN calls = {1, 2, 3}
      /\ calls[1].call = "unless"
      /\ calls[1].states = x
      /\ calls[2].call = "state"
      /\ calls[2].state = "Synced"
      /\ calls[3].call = "pending"
      /\ calls[3].count = 0
      /\ calls[3] = Pending(0)
  BY DEF Unless, State, Pending, Transfer, Call
<1> HIDE DEF calls
<1>3. x = {"Synced"} => InOrder(calls)
  BY <1>2 DEF InOrder, Makes
<1>4. x = {"Synced"} => Handles(calls, e)
  BY <1>1, <1>2, <1>3 DEF Handles, Makes, CountAfter, Done, Succeeds, Fails, Less
<1> QED BY <1>4 DEF calls

LEMMA TaskSucceeded ==
  ASSUME NEW e \in Events, NEW shown \in BOOLEAN, NEW x \in SUBSET SyncStates, Succeeds(e)
  PROVE  Handles(<<Call("record"), Call("readPending"), Call("writePending"),
                   Transfer(shown), Unless(x), State("Syncing")>>, e)
<1> DEFINE calls == <<Call("record"), Call("readPending"), Call("writePending"),
                      Transfer(shown), Unless(x), State("Syncing")>>
<1>0. /\ Call("record") \in Operations
      /\ Call("readPending") \in Operations
      /\ Call("writePending") \in Operations
      /\ Transfer(shown) \in Operations
      /\ Unless(x) \in Operations
      /\ State("Syncing") \in Operations
  BY Typed, TheCalls
<1>1. calls \in Seq(Operations) /\ Len(calls) <= 6
  BY <1>0
<1>2. /\ DOMAIN calls = {1, 2, 3, 4, 5, 6}
      /\ calls[1].call = "record"
      /\ calls[2].call = "readPending"
      /\ calls[3].call = "writePending"
      /\ calls[4].call = "transfer"
      /\ calls[5].call = "unless"
      /\ calls[5].states = x
      /\ calls[6].call = "state"
      /\ calls[6].state = "Syncing"
  BY DEF Unless, State, Pending, Transfer, Call
<1> HIDE DEF calls
<1>3. InOrder(calls)
  BY <1>2 DEF InOrder, Makes
<1>4. Handles(calls, e)
  BY <1>1, <1>2, <1>3 DEF Handles, Makes, CountAfter, Done, Succeeds, Fails, Less
<1> QED BY <1>4 DEF calls

LEMMA TaskFailed ==
  ASSUME NEW e \in Events, NEW shown \in BOOLEAN, NEW x \in SUBSET SyncStates, Fails(e)
  PROVE  Handles(<<Call("record"), Transfer(shown), Unless(x), State("Syncing")>>, e)
<1> DEFINE calls == <<Call("record"), Transfer(shown), Unless(x), State("Syncing")>>
<1>0. /\ Call("record") \in Operations
      /\ Transfer(shown) \in Operations
      /\ Unless(x) \in Operations
      /\ State("Syncing") \in Operations
  BY Typed, TheCalls
<1>1. calls \in Seq(Operations) /\ Len(calls) <= 6
  BY <1>0
<1>2. /\ DOMAIN calls = {1, 2, 3, 4}
      /\ calls[1].call = "record"
      /\ calls[2].call = "transfer"
      /\ calls[3].call = "unless"
      /\ calls[3].states = x
      /\ calls[4].call = "state"
      /\ calls[4].state = "Syncing"
  BY DEF Unless, State, Pending, Transfer, Call
<1> HIDE DEF calls
<1>3. InOrder(calls)
  BY <1>2 DEF InOrder, Makes
<1>4. Handles(calls, e)
  BY <1>1, <1>2, <1>3 DEF Handles, Makes, CountAfter, Done, Succeeds, Fails, Less
<1> QED BY <1>4 DEF calls

LEMMA TransferShown ==
  ASSUME NEW e \in Events, NEW shown \in BOOLEAN, NEW x \in SUBSET SyncStates,
         e.type = "transfer", ~Done(e)
  PROVE  Handles(<<Transfer(shown), Unless(x), State("Syncing")>>, e)
<1> DEFINE calls == <<Transfer(shown), Unless(x), State("Syncing")>>
<1>0. /\ Transfer(shown) \in Operations
      /\ Unless(x) \in Operations
      /\ State("Syncing") \in Operations
  BY Typed, TheCalls
<1>1. calls \in Seq(Operations) /\ Len(calls) <= 6
  BY <1>0
<1>2. /\ DOMAIN calls = {1, 2, 3}
      /\ calls[1].call = "transfer"
      /\ calls[2].call = "unless"
      /\ calls[2].states = x
      /\ calls[3].call = "state"
      /\ calls[3].state = "Syncing"
  BY DEF Unless, State, Pending, Transfer, Call
<1> HIDE DEF calls
<1>3. InOrder(calls)
  BY <1>2 DEF InOrder, Makes
<1>4. Handles(calls, e)
  BY <1>1, <1>2, <1>3 DEF Handles, Makes, CountAfter, Done, Succeeds, Fails, Less
<1> QED BY <1>4 DEF calls

LEMMA EventTypes ==
  /\ {"Scanning", "Syncing"} \in SUBSET SyncStates /\ {"Syncing"} \in SUBSET SyncStates
  /\ {"Synced"} \in SUBSET SyncStates
  /\ \A s \in {"Scanning", "Syncing"} : s \in SyncStates \ {"Synced", "Offline"}
  /\ \A s \in {"Error", "Offline"} : s \in SyncStates \ {"Synced"}
  BY DEF SyncStates

LEMMA Concatenation ==
  ASSUME NEW s \in Seq(Operations), NEW t \in Seq(Operations)
  PROVE  /\ s \o t \in Seq(Operations) /\ Len(s \o t) = Len(s) + Len(t)
         /\ Len(s) \in Nat /\ Len(t) \in Nat
         /\ \A i \in 1..Len(s) : (s \o t)[i] = s[i]
         /\ \A i \in 1..Len(t) : (s \o t)[Len(s) + i] = t[i]
  OBVIOUS

LEMMA SameSequence ==
  ASSUME NEW s \in Seq(Operations), NEW t \in Seq(Operations), Len(s) = Len(t),
         \A i \in 1..Len(s) : s[i] = t[i]
  PROVE  s = t
<1> DEFINE n == Len(s)
<1>1. n \in Nat /\ s \in [1..n -> Operations] /\ t \in [1..n -> Operations]
  OBVIOUS
<1> HIDE DEF n
<1>2. s = [i \in 1..n |-> s[i]] /\ t = [i \in 1..n |-> t[i]]
  BY <1>1
<1>3. \A i \in 1..n : s[i] = t[i]
  BY DEF n
<1> QED BY <1>2, <1>3

LEMMA JoinedTo ==
  ASSUME NEW s \in Seq(Operations), NEW t \in Seq(Operations), NEW r \in Seq(Operations),
         Len(r) = Len(s) + Len(t),
         \A i \in 1..Len(s) : r[i] = s[i],
         \A i \in 1..Len(t) : r[Len(s) + i] = t[i]
  PROVE  s \o t = r
<1>1. \A i \in 1..Len(r) : (s \o t)[i] = r[i]
  <2> TAKE i \in 1..Len(r)
  <2>1. CASE i \in 1..Len(s)
    BY <2>1, Concatenation
  <2>2. CASE i \notin 1..Len(s)
    <3>1. i - Len(s) \in 1..Len(t) /\ Len(s) + (i - Len(s)) = i
      BY <2>2, Concatenation
    <3> QED BY <3>1, Concatenation
  <2> QED BY <2>1, <2>2
<1> QED BY <1>1, Concatenation, SameSequence

LEMMA OneAndOne ==
  ASSUME NEW a \in Operations, NEW u \in Operations
  PROVE  <<a>> \o <<u>> = <<a, u>>
<1> DEFINE front == <<a>>
           back == <<u>>
           all == <<a, u>>
<1>1. front \in Seq(Operations) /\ back \in Seq(Operations) /\ all \in Seq(Operations)
  OBVIOUS
<1>2. Len(all) = Len(front) + Len(back)
  OBVIOUS
<1>3. \A i \in 1..Len(front) : all[i] = front[i]
  OBVIOUS
<1>4. \A i \in 1..Len(back) : all[Len(front) + i] = back[i]
  OBVIOUS
<1> HIDE DEF front, back, all
<1>5. front \o back = all
  BY <1>1, <1>2, <1>3, <1>4, JoinedTo
<1> QED BY <1>5 DEF front, back, all

LEMMA OneAndTwo ==
  ASSUME NEW a \in Operations, NEW u \in Operations, NEW v \in Operations
  PROVE  <<a>> \o <<u, v>> = <<a, u, v>>
<1> DEFINE front == <<a>>
           back == <<u, v>>
           all == <<a, u, v>>
<1>1. front \in Seq(Operations) /\ back \in Seq(Operations) /\ all \in Seq(Operations)
  OBVIOUS
<1>2. Len(all) = Len(front) + Len(back)
  OBVIOUS
<1>3. \A i \in 1..Len(front) : all[i] = front[i]
  OBVIOUS
<1>4. \A i \in 1..Len(back) : all[Len(front) + i] = back[i]
  OBVIOUS
<1> HIDE DEF front, back, all
<1>5. front \o back = all
  BY <1>1, <1>2, <1>3, <1>4, JoinedTo
<1> QED BY <1>5 DEF front, back, all

LEMMA TwoAndTwo ==
  ASSUME NEW a \in Operations, NEW b \in Operations, NEW u \in Operations, NEW v \in Operations
  PROVE  <<a, b>> \o <<u, v>> = <<a, b, u, v>>
<1> DEFINE front == <<a, b>>
           back == <<u, v>>
           all == <<a, b, u, v>>
<1>1. front \in Seq(Operations) /\ back \in Seq(Operations) /\ all \in Seq(Operations)
  OBVIOUS
<1>2. Len(all) = Len(front) + Len(back)
  OBVIOUS
<1>3. \A i \in 1..Len(front) : all[i] = front[i]
  OBVIOUS
<1>4. \A i \in 1..Len(back) : all[Len(front) + i] = back[i]
  OBVIOUS
<1> HIDE DEF front, back, all
<1>5. front \o back = all
  BY <1>1, <1>2, <1>3, <1>4, JoinedTo
<1> QED BY <1>5 DEF front, back, all

LEMMA FourAndTwo ==
  ASSUME NEW a \in Operations, NEW b \in Operations, NEW c \in Operations,
         NEW d \in Operations, NEW u \in Operations, NEW v \in Operations
  PROVE  <<a, b, c, d>> \o <<u, v>> = <<a, b, c, d, u, v>>
<1> DEFINE front == <<a, b, c, d>>
           back == <<u, v>>
           all == <<a, b, c, d, u, v>>
<1>1. front \in Seq(Operations) /\ back \in Seq(Operations) /\ all \in Seq(Operations)
  OBVIOUS
<1>2. Len(all) = Len(front) + Len(back)
  OBVIOUS
<1>3. \A i \in 1..Len(front) : all[i] = front[i]
  OBVIOUS
<1>4. \A i \in 1..Len(back) : all[Len(front) + i] = back[i]
  OBVIOUS
<1> HIDE DEF front, back, all
<1>5. front \o back = all
  BY <1>1, <1>2, <1>3, <1>4, JoinedTo
<1> QED BY <1>5 DEF front, back, all

\* Each handler's calls are in order and do what the event says.
LEMMA Handlers ==
  ASSUME NEW e \in Events
  PROVE  Handles(Ops(e), e)
<1>1. CASE e.type \in {"cycleGettingTreesStarted", "cycleProcessingTasksStarted", "syncing"}
  <2>1. /\ \A n \in Nat : CountAfter(e, n) = n
        /\ ~Done(e) /\ e.type # "cycleSuccess"
    BY <1>1 DEF CountAfter, Done, Succeeds, Fails
  <2>2. \/ Ops(e) = <<Unless({"Scanning", "Syncing"}), State("Scanning")>>
        \/ Ops(e) = <<Unless({"Syncing"}), State("Syncing")>>
        \/ Ops(e) = <<Unless({"Scanning", "Syncing"}), State("Syncing")>>
    BY <1>1 DEF Ops, TextOps
  <2> QED BY <2>1, <2>2, EventTypes, MovesOn
<1>2. CASE e.type = "cycleSuccess"
  <2>1. Ops(e) = <<State("Synced"), Pending(0), Transfer(FALSE), Call("lastSynced")>>
    BY <1>2 DEF Ops
  <2> QED BY <1>2, <2>1, Succeeded
<1>3. CASE e.type = "cycleError"
  <2>1. Ops(e) = <<State(IF e.network THEN "Offline" ELSE "Error"), Pending(0), Transfer(FALSE)>>
    BY <1>3 DEF Ops
  <2>2. CASE e.network
    <3>1. Ops(e) = <<State("Offline"), Pending(0), Transfer(FALSE)>>
      BY <2>1, <2>2
    <3> QED BY <1>3, <2>2, <3>1, EventTypes, Failed
  <2>3. CASE ~e.network
    <3>1. Ops(e) = <<State("Error"), Pending(0), Transfer(FALSE)>>
      BY <2>1, <2>3
    <3> QED BY <1>3, <3>1, EventTypes, Failed
  <2> QED BY <2>2, <2>3
<1>4. CASE e.type = "deltasCount"
  <2>1. e.count \in 0..MaxTasks /\ MaxTasks \in Nat
    BY <1>4, TypeOfEvent, EventAssumption
  <2>2. Ops(e) = <<Pending(e.count)>> \o (IF e.count > 0 THEN <<State("Syncing")>> ELSE <<>>)
    BY <1>4 DEF Ops
  <2>3. CASE e.count > 0
    <3>1. Ops(e) = <<Pending(e.count), State("Syncing")>>
      BY <2>1, <2>2, <2>3, OneAndOne, Typed, TheCalls
    <3> QED BY <1>4, <2>1, <3>1, Deltas
  <2>4. CASE e.count = 0
    <3>1. Ops(e) = <<Pending(0)>>
      BY <2>2, <2>4
    <3> QED BY <1>4, <2>4, <3>1, NothingToDo
  <2> QED BY <2>1, <2>3, <2>4
<1>5. CASE e.type = "transfer"
  <2>1. /\ Ops(e) = TransferOps(e.of, e.status) \o <<Unless({"Syncing"}), State("Syncing")>>
        /\ Unless({"Syncing"}) \in Operations /\ State("Syncing") \in Operations
        /\ Transfer(FALSE) \in Operations
        /\ Call("record") \in Operations /\ Call("readPending") \in Operations
        /\ Call("writePending") \in Operations
    BY <1>5, Typed, TheCalls DEF Ops
  <2>2. CASE Succeeds(e)
    <3>1. \E shown \in BOOLEAN : TransferOps(e.of, e.status) =
            <<Call("record"), Call("readPending"), Call("writePending"), Transfer(shown)>>
      BY <2>2 DEF Succeeds, TransferOps
    <3>2. PICK shown \in BOOLEAN : TransferOps(e.of, e.status) =
            <<Call("record"), Call("readPending"), Call("writePending"), Transfer(shown)>>
      BY <3>1
    <3>3. Ops(e) = <<Call("record"), Call("readPending"), Call("writePending"), Transfer(shown),
                     Unless({"Syncing"}), State("Syncing")>>
      BY <2>1, <3>2, FourAndTwo, Typed
    <3> QED BY <2>2, <3>3, EventTypes, TaskSucceeded
  <2>3. CASE Fails(e)
    <3>1. \E shown \in BOOLEAN :
            TransferOps(e.of, e.status) = <<Call("record"), Transfer(shown)>>
      BY <2>3 DEF Fails, TransferOps
    <3>2. PICK shown \in BOOLEAN :
            TransferOps(e.of, e.status) = <<Call("record"), Transfer(shown)>>
      BY <3>1
    <3>3. Ops(e) = <<Call("record"), Transfer(shown), Unless({"Syncing"}), State("Syncing")>>
      BY <2>1, <3>2, TwoAndTwo, Typed
    <3> QED BY <2>3, <3>3, EventTypes, TaskFailed
  <2>4. CASE ~Done(e)
    <3>1. \/ TransferOps(e.of, e.status) = <<>>
          \/ \E shown \in BOOLEAN : TransferOps(e.of, e.status) = <<Transfer(shown)>>
      BY <1>5, <2>4 DEF Done, Succeeds, Fails, TransferOps
    <3>2. CASE TransferOps(e.of, e.status) = <<>>
      <4>1. Ops(e) = <<Unless({"Syncing"}), State("Syncing")>>
        BY <2>1, <3>2
      <4>2. (\A n \in Nat : CountAfter(e, n) = n) /\ e.type # "cycleSuccess"
        BY <1>5, <2>4 DEF CountAfter, Done
      <4> QED BY <2>4, <4>1, <4>2, EventTypes, MovesOn
    <3>3. ASSUME NEW shown \in BOOLEAN, TransferOps(e.of, e.status) = <<Transfer(shown)>>
          PROVE  Handles(Ops(e), e)
      <4>1. Ops(e) = <<Transfer(shown), Unless({"Syncing"}), State("Syncing")>>
        BY <2>1, <3>3, OneAndTwo, Typed
      <4> QED BY <1>5, <2>4, <4>1, EventTypes, TransferShown
    <3> QED BY <3>1, <3>2, <3>3
  <2> QED BY <2>2, <2>3, <2>4 DEF Done
<1>6. CASE e.type = "doneSyncing"
  <2>1. Ops(e) = <<Unless({"Synced"}), State("Synced"), Pending(0)>>
    BY <1>6 DEF Ops, TextOps
  <2> QED BY <1>6, <2>1, EventTypes, DoneSyncing
<1> QED BY <1>1, <1>2, <1>3, <1>4, <1>5, <1>6, TypeOfEvent

-----------------------------------------------------------------------------
(* A call is made                                                          *)

LEMMA TailOfSequence ==
  ASSUME NEW s \in Seq(Operations), s # <<>>
  PROVE  /\ Tail(s) \in Seq(Operations) /\ Len(Tail(s)) = Len(s) - 1 /\ Len(s) \in Nat
         /\ Head(s) \in Operations /\ Head(s) = s[1] /\ 1 \in DOMAIN s
         /\ \A i \in DOMAIN Tail(s) : i + 1 \in DOMAIN s /\ Tail(s)[i] = s[i + 1]
         /\ \A i \in DOMAIN s : i # 1 => i - 1 \in DOMAIN Tail(s) /\ s[i] = Tail(s)[i - 1]
         /\ \A i \in DOMAIN s : i \in Nat /\ i >= 1
         /\ \A i \in DOMAIN Tail(s) : i \in Nat /\ i >= 1
  OBVIOUS

\* What is left after a call is in order, and makes all the other calls.
LEMMA TailInOrder ==
  ASSUME NEW s \in Seq(Operations), s # <<>>, InOrder(s)
  PROVE  /\ InOrder(Tail(s))
         /\ \A name : Makes(name, Tail(s)) <=> Makes(name, s) /\ name # Head(s).call
<1> DEFINE t == Tail(s)
<1>0. /\ Head(s) = s[1] /\ 1 \in DOMAIN s
      /\ \A i \in DOMAIN t : i + 1 \in DOMAIN s /\ t[i] = s[i + 1]
      /\ \A i \in DOMAIN s : i # 1 => i - 1 \in DOMAIN t /\ s[i] = t[i - 1]
      /\ \A i \in DOMAIN s : i \in Nat /\ i >= 1
      /\ \A i \in DOMAIN t : i \in Nat /\ i >= 1
  BY TailOfSequence
<1> HIDE DEF t
<1>1. ASSUME NEW name PROVE Makes(name, t) <=> Makes(name, s) /\ name # Head(s).call
  <2>1. ASSUME Makes(name, t) PROVE Makes(name, s) /\ name # Head(s).call
    <3>1. PICK i \in DOMAIN t : t[i].call = name
      BY <2>1 DEF Makes
    <3>2. i + 1 \in DOMAIN s /\ s[i + 1].call = name /\ i + 1 # 1
      BY <1>0, <3>1
    <3> QED BY <1>0, <3>2 DEF InOrder, Makes
  <2>2. ASSUME Makes(name, s), name # Head(s).call PROVE Makes(name, t)
    BY <1>0, <2>2 DEF Makes
  <2> QED BY <2>1, <2>2
<1>2. \A i, j \in DOMAIN t : t[i].call = t[j].call => i = j
  <2> TAKE i, j \in DOMAIN t
  <2>1. s[i + 1].call = s[j + 1].call => i + 1 = j + 1
    BY <1>0 DEF InOrder
  <2> QED BY <1>0, <2>1
<1>3. ASSUME NEW i \in DOMAIN t
      PROVE  /\ t[i].call = "state" /\ t[i].state = "Synced" =>
                  i + 1 \in DOMAIN t /\ t[i + 1] = Pending(0)
             /\ t[i].call = "pending" /\ t[i].count > 0 =>
                  i + 1 \in DOMAIN t /\ t[i + 1] = State("Syncing")
  <2>1. i + 1 \in DOMAIN s /\ i + 1 # 1 /\ t[i] = s[i + 1] /\ i \in Nat /\ i >= 1
    BY <1>0
  <2>2. ASSUME i + 1 + 1 \in DOMAIN s PROVE i + 1 \in DOMAIN t /\ t[i + 1] = s[i + 1 + 1]
    <3>1. (i + 1 + 1) - 1 = i + 1 /\ i + 1 + 1 # 1
      BY <2>1
    <3> QED BY <1>0, <2>2, <3>1
  <2> QED BY <2>1, <2>2 DEF InOrder
<1>4. ASSUME NEW i \in DOMAIN t, t[i].call = "unless", NEW j \in DOMAIN t, j > i
      PROVE  t[j].call = "state" \/ (t[j] = Pending(0) /\ t[i].states = {"Synced"})
  <2>1. i + 1 \in DOMAIN s /\ j + 1 \in DOMAIN s /\ j + 1 > i + 1
        /\ t[i] = s[i + 1] /\ t[j] = s[j + 1]
    BY <1>0, <1>4
  <2>2. s[i + 1].call = "unless"
    BY <1>4, <2>1
  <2>3. \A p, q \in DOMAIN s : s[p].call = "unless" /\ q > p =>
          s[q].call = "state" \/ (s[q] = Pending(0) /\ s[p].states = {"Synced"})
    BY DEF InOrder
  <2>4. s[j + 1].call = "state" \/ (s[j + 1] = Pending(0) /\ s[i + 1].states = {"Synced"})
    BY <2>1, <2>2, <2>3
  <2> QED BY <2>1, <2>4
<1>5. ASSUME NEW i \in DOMAIN t, t[i].call = "writePending"
      PROVE  /\ ~Makes("pending", t)
             /\ \A j \in DOMAIN t : t[j].call = "readPending" => j < i
  <2>1. i + 1 \in DOMAIN s /\ s[i + 1].call = "writePending" /\ i \in Nat
    BY <1>0, <1>5
  <2>2. ~Makes("pending", s)
    BY <2>1 DEF InOrder
  <2>3. ASSUME NEW j \in DOMAIN t, t[j].call = "readPending" PROVE j < i
    <3>1. j + 1 \in DOMAIN s /\ s[j + 1].call = "readPending" /\ j \in Nat
      BY <1>0, <2>3
    <3>2. j + 1 < i + 1
      BY <2>1, <3>1 DEF InOrder
    <3> QED BY <2>1, <3>1, <3>2
  <2> QED BY <1>1, <2>2, <2>3
<1>6. ASSUME NEW i \in DOMAIN t, t[i].call = "readPending" PROVE Makes("writePending", t)
  <2>1. i + 1 \in DOMAIN s /\ s[i + 1].call = "readPending" /\ i \in Nat /\ i >= 1
    BY <1>0, <1>6
  <2>2. PICK k \in DOMAIN s : s[k].call = "writePending"
    BY <2>1 DEF InOrder, Makes
  <2>3. i + 1 < k /\ k \in Nat
    BY <1>0, <2>1, <2>2 DEF InOrder
  <2>4. k - 1 \in DOMAIN t /\ t[k - 1].call = "writePending"
    BY <1>0, <2>1, <2>2, <2>3
  <2> QED BY <2>4 DEF Makes
<1>7. InOrder(t)
  BY <1>2, <1>3, <1>4, <1>5, <1>6 DEF InOrder
<1> QED BY <1>1, <1>7 DEF t

-----------------------------------------------------------------------------
(* What is still to be handled                                             *)

Parts ==
  /\ TypeOK /\ WatchCurrent /\ InOrder(ops) /\ SyncedWaits /\ ExitAwaits /\ BoundsKept
  /\ CountFollows /\ HistoryFollows /\ CyclesFollow

\* The states of the three existential invariants, with their witness.
CountIs(count) ==
  /\ count \in [0..Len(out) -> 0..MaxTasks]
  /\ \A i \in DOMAIN ops : ops[i].call = "pending" => count[0] = ops[i].count
  /\ Makes("writePending", ops) =>
       count[0] = Less(pending) /\ (~Makes("readPending", ops) => read = pending)
  /\ ~Makes("pending", ops) /\ ~Makes("writePending", ops) => count[0] = pending
  /\ \A i \in 1..Len(out) : count[i] = CountAfter(out[i], count[i - 1])
  /\ phase \in {"tasks", "copying", "copied"} => count[Len(out)] = todo + failed

HistoryIs(entries) ==
  /\ entries \in [0..Len(out) -> 0..MaxTasks]
  /\ entries[0] = recorded + One(Makes("record", ops))
  /\ \A i \in 1..Len(out) : entries[i] = entries[i - 1] + One(Done(out[i]))
  /\ entries[Len(out)] = ended

CyclesAre(synced) ==
  /\ synced \in [0..Len(out) -> 0..cycles]
  /\ synced[0] = cyclesSynced + One(Makes("lastSynced", ops))
  /\ \A i \in 1..Len(out) : synced[i] = synced[i - 1] + One(out[i].type = "cycleSuccess")
  /\ synced[Len(out)] + One(phase \notin {"off", "idle"}) <= cycles

LEMMA Witnesses ==
  /\ CountFollows <=> \E count : CountIs(count)
  /\ HistoryFollows <=> \E entries : HistoryIs(entries)
  /\ CyclesFollow <=> \E synced : CyclesAre(synced)
  BY DEF CountFollows, HistoryFollows, CyclesFollow, CountIs, HistoryIs, CyclesAre, Done

LEMMA WitnessesNext ==
  /\ CountFollows' <=> \E count : CountIs(count)'
  /\ HistoryFollows' <=> \E entries : HistoryIs(entries)'
  /\ CyclesFollow' <=> \E synced : CyclesAre(synced)'
  BY DEF CountFollows, HistoryFollows, CyclesFollow, CountIs, HistoryIs, CyclesAre, Done

LEMMA NoCalls ==
  /\ <<>> \in Seq(Operations) /\ Len(<<>>) = 0 /\ InOrder(<<>>)
  /\ \A name : ~Makes(name, <<>>)
  BY DEF InOrder, Makes

LEMMA OneIs == One(TRUE) = 1 /\ One(FALSE) = 0
  BY DEF One

\* An event leaves the pipe.
LEMMA CountRead ==
  ASSUME TypeOK, CountFollows, ReadEvent
  PROVE  CountFollows'
<1>1. PICK count : CountIs(count)
  BY Witnesses
<1>2. /\ ops = <<>> /\ out # <<>> /\ ops' = Ops(Head(out)) /\ out' = Tail(out)
      /\ UNCHANGED <<pending, phase, todo, failed>>
  BY DEF ReadEvent, appVars
<1>3. /\ out \in Seq(Events) /\ Len(out) \in Nat /\ Len(out) >= 1 /\ Len(out') = Len(out) - 1
      /\ Head(out) = out[1] /\ out[1] \in Events
      /\ \A i \in 1..Len(out') : out'[i] = out[i + 1]
  BY <1>2 DEF TypeOK
<1>4. Handles(ops', out[1])
  BY <1>2, <1>3, Handlers
<1>a. PICK after : after = [i \in 0..(Len(out) - 1) |-> count[i + 1]]
  OBVIOUS
<1>5. /\ count \in [0..Len(out) -> 0..MaxTasks] /\ count[0] = pending
      /\ count[1] = CountAfter(out[1], pending)
      /\ \A i \in 1..Len(out) : count[i] = CountAfter(out[i], count[i - 1])
      /\ phase \in {"tasks", "copying", "copied"} => count[Len(out)] = todo + failed
  BY <1>1, <1>2, <1>3, NoCalls DEF CountIs
<1>6. /\ after \in [0..Len(out') -> 0..MaxTasks] /\ after[0] = CountAfter(out[1], pending)
      /\ after[Len(out')] = count[Len(out)]
  BY <1>a, <1>3, <1>5
<1>7. ASSUME NEW i \in 1..Len(out') PROVE after[i] = CountAfter(out'[i], after[i - 1])
  <2>1. i + 1 \in 1..Len(out) /\ after[i] = count[i + 1] /\ (i + 1) - 1 = i
        /\ i - 1 \in 0..Len(out') /\ after[i - 1] = count[i]
    BY <1>a, <1>3
  <2> QED BY <1>3, <1>5, <2>1
<1>8. pending \in Nat
  BY EventAssumption DEF TypeOK
<1>9. CountIs(after)'
  <2>1. \A i \in DOMAIN ops' : ops'[i].call = "pending" => after[0] = ops'[i].count
    BY <1>4, <1>6, <1>8 DEF Handles
  <2>2. /\ Makes("writePending", ops') => after[0] = Less(pending) /\ Makes("readPending", ops')
        /\ ~Makes("pending", ops') /\ ~Makes("writePending", ops') => after[0] = pending
    BY <1>4, <1>6, <1>8 DEF Handles
  <2> QED BY <1>2, <1>5, <1>6, <1>7, <2>1, <2>2 DEF CountIs
<1> QED BY <1>9, WitnessesNext

LEMMA HistoryRead ==
  ASSUME TypeOK, HistoryFollows, ReadEvent
  PROVE  HistoryFollows'
<1>1. PICK entries : HistoryIs(entries)
  BY Witnesses
<1>2. /\ ops = <<>> /\ out # <<>> /\ ops' = Ops(Head(out)) /\ out' = Tail(out)
      /\ UNCHANGED <<recorded, ended>>
  BY DEF ReadEvent
<1>3. /\ out \in Seq(Events) /\ Len(out) \in Nat /\ Len(out) >= 1 /\ Len(out') = Len(out) - 1
      /\ Head(out) = out[1] /\ out[1] \in Events
      /\ \A i \in 1..Len(out') : out'[i] = out[i + 1]
  BY <1>2 DEF TypeOK
<1>4. Makes("record", ops') <=> Done(out[1])
  BY <1>2, <1>3, Handlers DEF Handles
<1>a. PICK after : after = [i \in 0..(Len(out) - 1) |-> entries[i + 1]]
  OBVIOUS
<1>5. /\ entries \in [0..Len(out) -> 0..MaxTasks] /\ entries[0] = recorded + One(FALSE)
      /\ \A i \in 1..Len(out) : entries[i] = entries[i - 1] + One(Done(out[i]))
      /\ entries[Len(out)] = ended
  BY <1>1, <1>2, NoCalls DEF HistoryIs, One
<1>6. recorded \in Nat /\ entries[1] = entries[0] + One(Done(out[1])) /\ entries[0] = recorded
  <2>1. 1 \in 1..Len(out) /\ 1 - 1 = 0 /\ recorded \in Nat
    BY <1>3, EventAssumption DEF TypeOK
  <2>2. recorded + One(FALSE) = recorded
    BY <2>1 DEF One
  <2> QED BY <1>5, <2>1, <2>2
<1>7. /\ after \in [0..Len(out') -> 0..MaxTasks]
      /\ after[0] = recorded + One(Makes("record", ops'))
      /\ after[Len(out')] = entries[Len(out)]
  BY <1>a, <1>3, <1>4, <1>5, <1>6 DEF One
<1>8. ASSUME NEW i \in 1..Len(out') PROVE after[i] = after[i - 1] + One(Done(out'[i]))
  <2>1. i + 1 \in 1..Len(out) /\ after[i] = entries[i + 1] /\ (i + 1) - 1 = i
        /\ i - 1 \in 0..Len(out') /\ after[i - 1] = entries[i]
    BY <1>a, <1>3
  <2> QED BY <1>3, <1>5, <2>1
<1>9. HistoryIs(after)'
  BY <1>2, <1>5, <1>7, <1>8 DEF HistoryIs
<1> QED BY <1>9, WitnessesNext

LEMMA CyclesRead ==
  ASSUME TypeOK, CyclesFollow, ReadEvent
  PROVE  CyclesFollow'
<1>1. PICK synced : CyclesAre(synced)
  BY Witnesses
<1>2. /\ ops = <<>> /\ out # <<>> /\ ops' = Ops(Head(out)) /\ out' = Tail(out)
      /\ UNCHANGED <<cyclesSynced, phase, cycles>>
  BY DEF ReadEvent, appVars
<1>3. /\ out \in Seq(Events) /\ Len(out) \in Nat /\ Len(out) >= 1 /\ Len(out') = Len(out) - 1
      /\ Head(out) = out[1] /\ out[1] \in Events
      /\ \A i \in 1..Len(out') : out'[i] = out[i + 1]
  BY <1>2 DEF TypeOK
<1>4. Makes("lastSynced", ops') <=> out[1].type = "cycleSuccess"
  BY <1>2, <1>3, Handlers DEF Handles
<1>a. PICK after : after = [i \in 0..(Len(out) - 1) |-> synced[i + 1]]
  OBVIOUS
<1>5. /\ synced \in [0..Len(out) -> 0..cycles] /\ synced[0] = cyclesSynced + One(FALSE)
      /\ \A i \in 1..Len(out) : synced[i] = synced[i - 1] + One(out[i].type = "cycleSuccess")
      /\ synced[Len(out)] + One(phase \notin {"off", "idle"}) <= cycles
  BY <1>1, <1>2, NoCalls DEF CyclesAre, One
<1>6. /\ cyclesSynced \in Nat /\ synced[0] = cyclesSynced
      /\ synced[1] = synced[0] + One(out[1].type = "cycleSuccess")
  <2>1. 1 \in 1..Len(out) /\ 1 - 1 = 0 /\ cyclesSynced \in Nat
    BY <1>3, EventAssumption DEF TypeOK
  <2>2. cyclesSynced + One(FALSE) = cyclesSynced
    BY <2>1 DEF One
  <2> QED BY <1>5, <2>1, <2>2
<1>7. /\ after \in [0..Len(out') -> 0..cycles]
      /\ after[0] = cyclesSynced + One(Makes("lastSynced", ops'))
      /\ after[Len(out')] = synced[Len(out)]
  BY <1>a, <1>3, <1>4, <1>5, <1>6 DEF One
<1>8. ASSUME NEW i \in 1..Len(out')
      PROVE  after[i] = after[i - 1] + One(out'[i].type = "cycleSuccess")
  <2>1. i + 1 \in 1..Len(out) /\ after[i] = synced[i + 1] /\ (i + 1) - 1 = i
        /\ i - 1 \in 0..Len(out') /\ after[i - 1] = synced[i]
    BY <1>a, <1>3
  <2> QED BY <1>3, <1>5, <2>1
<1>9. CyclesAre(after)'
  BY <1>2, <1>5, <1>7, <1>8 DEF CyclesAre
<1> QED BY <1>9, WitnessesNext

\* A call is made: what is left of the handler.
LEMMA Called ==
  ASSUME TypeOK, InOrder(ops), ops # <<>>, ops' = Tail(ops)
  PROVE  /\ InOrder(ops') /\ ops' \in Seq(Operations) /\ Len(ops') <= 6
         /\ \A name : Makes(name, ops') <=> Makes(name, ops) /\ name # Head(ops).call
         /\ Head(ops) = ops[1] /\ 1 \in DOMAIN ops /\ Makes(Head(ops).call, ops)
         /\ \A i \in DOMAIN ops' : i + 1 \in DOMAIN ops /\ ops'[i] = ops[i + 1]
<1>1. ops \in Seq(Operations) /\ Len(ops) <= 6
  BY DEF TypeOK
<1>2. /\ ops' \in Seq(Operations) /\ Len(ops') = Len(ops) - 1 /\ Len(ops) \in Nat
      /\ Head(ops) = ops[1] /\ 1 \in DOMAIN ops
      /\ \A i \in DOMAIN ops' : i + 1 \in DOMAIN ops /\ ops'[i] = ops[i + 1]
  BY <1>1, TailOfSequence
<1>3. /\ InOrder(ops')
      /\ \A name : Makes(name, ops') <=> Makes(name, ops) /\ name # Head(ops).call
  BY <1>1, TailInOrder
<1>4. Makes(Head(ops).call, ops)
  BY <1>2 DEF Makes
<1> QED BY <1>1, <1>2, <1>3, <1>4

CountCall ==
  \/ /\ Head(ops).call \notin {"pending", "writePending", "readPending"}
     /\ UNCHANGED <<pending, read>>
  \/ Head(ops).call = "pending" /\ pending' = Head(ops).count /\ UNCHANGED read
  \/ Head(ops).call = "readPending" /\ read' = pending /\ UNCHANGED pending
  \/ /\ Head(ops).call = "writePending" /\ UNCHANGED read
     /\ (read > 0 /\ pending' = read - 1) \/ (read = 0 /\ pending' = pending)

LEMMA CountCalled ==
  ASSUME TypeOK, InOrder(ops), CountFollows, ops # <<>>, ops' = Tail(ops), CountCall,
         UNCHANGED <<out, phase, todo, failed>>
  PROVE  CountFollows'
<1>1. PICK count : CountIs(count)
  BY Witnesses
<1>2. /\ \A name : Makes(name, ops') <=> Makes(name, ops) /\ name # Head(ops).call
      /\ Head(ops) = ops[1] /\ 1 \in DOMAIN ops /\ Makes(Head(ops).call, ops)
      /\ \A i \in DOMAIN ops' : i + 1 \in DOMAIN ops /\ ops'[i] = ops[i + 1]
  BY Called
<1>3. /\ \A i \in DOMAIN ops : ops[i].call = "pending" => count[0] = ops[i].count
      /\ Makes("writePending", ops) =>
           count[0] = Less(pending) /\ (~Makes("readPending", ops) => read = pending)
      /\ ~Makes("pending", ops) /\ ~Makes("writePending", ops) => count[0] = pending
  BY <1>1 DEF CountIs
<1>4. \A i \in DOMAIN ops' : ops'[i].call = "pending" => count[0] = ops'[i].count
  BY <1>2, <1>3
<1>5. Makes("writePending", ops) => ~Makes("pending", ops)
  BY DEF InOrder, Makes
<1>6. Head(ops).call = "writePending" => ~Makes("readPending", ops)
  <2>1. SUFFICES ASSUME ops[1].call = "writePending", NEW j \in DOMAIN ops,
                        ops[j].call = "readPending"
                 PROVE  FALSE
    BY <1>2 DEF Makes
  <2>2. j < 1 /\ j \in Nat /\ j >= 1
    BY <1>2, <2>1, TailOfSequence DEF InOrder, TypeOK
  <2> QED BY <2>2
<1>7. Head(ops).call = "readPending" => Makes("writePending", ops)
  BY <1>2 DEF InOrder
<1>8. /\ Makes("writePending", ops') =>
           count[0] = Less(pending') /\ (~Makes("readPending", ops') => read' = pending')
      /\ ~Makes("pending", ops') /\ ~Makes("writePending", ops') => count[0] = pending'
  <2>1. CASE Head(ops).call \notin {"pending", "writePending", "readPending"}
    BY <1>2, <1>3, <2>1 DEF CountCall
  <2>2. CASE Head(ops).call = "pending"
    BY <1>2, <1>3, <1>5, <2>2 DEF CountCall
  <2>3. CASE Head(ops).call = "readPending"
    BY <1>2, <1>3, <1>5, <1>7, <2>3 DEF CountCall
  <2>4. CASE Head(ops).call = "writePending"
    <3>1. read = pending /\ count[0] = Less(pending)
      BY <1>2, <1>3, <1>6, <2>4
    <3>2. pending' = Less(pending)
      BY <2>4, <3>1 DEF CountCall, Less
    <3> QED BY <1>2, <1>3, <1>5, <2>4, <3>1, <3>2
  <2> QED BY <2>1, <2>2, <2>3, <2>4
<1>9. CountIs(count)'
  BY <1>1, <1>4, <1>8 DEF CountIs
<1> QED BY <1>9, WitnessesNext

\* A handler that ends at an Unless has nothing left that counts.
LEMMA UnlessSkips ==
  ASSUME TypeOK, InOrder(ops), SyncedWaits, CountFollows, ops # <<>>,
         Head(ops).call = "unless", syncState \in Head(ops).states
  PROVE  /\ \A name \in {"record", "readPending", "writePending", "lastSynced"} :
              ~Makes(name, ops)
         /\ \A count : CountIs(count) => count[0] = pending
<1>1. /\ Head(ops) = ops[1] /\ 1 \in DOMAIN ops
      /\ \A i \in DOMAIN ops : i \in Nat /\ i >= 1
  BY TailOfSequence DEF TypeOK
<1>2. \A j \in DOMAIN ops : j > 1 =>
        ops[j].call = "state" \/ (ops[j] = Pending(0) /\ ops[1].states = {"Synced"})
  BY <1>1 DEF InOrder
<1>3. \A j \in DOMAIN ops : ops[j].call \in {"unless", "state", "pending"}
  BY <1>1, <1>2 DEF Pending
<1>4. \A name \in {"record", "readPending", "writePending", "lastSynced"} : ~Makes(name, ops)
  BY <1>3 DEF Makes
<1>5. ASSUME NEW count, CountIs(count) PROVE count[0] = pending
  <2>1. CASE ~Makes("pending", ops)
    BY <1>4, <1>5, <2>1 DEF CountIs
  <2>2. ASSUME NEW j \in DOMAIN ops, ops[j].call = "pending" PROVE count[0] = pending
    <3>1. j > 1
      BY <1>1, <2>2
    <3>2. ops[j] = Pending(0) /\ ops[1].states = {"Synced"}
      BY <1>2, <2>2, <3>1
    <3>3. count[0] = 0
      BY <1>5, <2>2, <3>2 DEF CountIs, Pending
    <3>4. syncState = "Synced"
      BY <1>1, <3>2
    <3>5. ~(pending > 0)
      BY <3>4 DEF SyncedWaits, OutHandled, Pending, State
    <3>6. pending \in Nat
      BY EventAssumption DEF TypeOK
    <3> QED BY <3>3, <3>5, <3>6
  <2> QED BY <2>1, <2>2 DEF Makes
<1> QED BY <1>4, <1>5

LEMMA CountDropped ==
  ASSUME CountFollows, ops' = <<>>, \A count : CountIs(count) => count[0] = pending,
         UNCHANGED <<out, pending, read, phase, todo, failed>>
  PROVE  CountFollows'
<1>1. PICK count : CountIs(count)
  BY Witnesses
<1>2. count[0] = pending
  BY <1>1
<1>3. \A i \in DOMAIN ops' : FALSE
  OBVIOUS
<1>4. CountIs(count)'
  BY <1>1, <1>2, <1>3 DEF CountIs, Makes
<1> QED BY <1>4, WitnessesNext

LEMMA CountQuiet ==
  ASSUME CountFollows, UNCHANGED <<out, ops, pending, read>>,
         UNCHANGED <<phase, todo, failed>> \/ phase' \in {"off", "idle"}
  PROVE  CountFollows'
<1>1. PICK count : CountIs(count)
  BY Witnesses
<1>2. CountIs(count)'
  BY <1>1 DEF CountIs
<1> QED BY <1>2, WitnessesNext

\* An event enters the pipe.
LEMMA Appended ==
  ASSUME out \in Seq(Events), NEW e \in Events, out' = Append(out, e)
  PROVE  /\ Len(out) \in Nat /\ Len(out') = Len(out) + 1 /\ out'[Len(out) + 1] = e
         /\ \A i \in 1..Len(out) : out'[i] = out[i]
  OBVIOUS

LEMMA CountEmitted ==
  ASSUME TypeOK, CountFollows, NEW e \in Events, out' = Append(out, e),
         UNCHANGED <<ops, pending, read>>,
         \A n \in 0..MaxTasks :
           /\ phase \in {"tasks", "copying", "copied"} => n = todo + failed
           /\ phase' \in {"tasks", "copying", "copied"}
           => CountAfter(e, n) = todo' + failed'
  PROVE  CountFollows'
<1>q. out \in Seq(Events)
  BY DEF TypeOK
<1>0. /\ out \in Seq(Events) /\ Len(out) \in Nat /\ Len(out') = Len(out) + 1
      /\ out'[Len(out) + 1] = e /\ \A i \in 1..Len(out) : out'[i] = out[i]
  BY <1>q, Appended
<1>1. PICK count : CountIs(count)
  BY Witnesses
<1>2. /\ count \in [0..Len(out) -> 0..MaxTasks]
      /\ \A i \in 1..Len(out) : count[i] = CountAfter(out[i], count[i - 1])
      /\ phase \in {"tasks", "copying", "copied"} => count[Len(out)] = todo + failed
  BY <1>1 DEF CountIs
<1> DEFINE last == count[Len(out)]
<1>3. last \in 0..MaxTasks
  BY <1>0, <1>2
<1>4. CountAfter(e, last) \in 0..MaxTasks
  BY <1>3, TypeOfEvent, EventAssumption DEF CountAfter, Less
<1>5. PICK n \in Nat, x \in 0..MaxTasks : n = Len(out) /\ x = CountAfter(e, last)
  BY <1>0, <1>4
<1>6. PICK after : after = [i \in 0..(n + 1) |-> IF i <= n THEN count[i] ELSE x]
  OBVIOUS
<1>7. /\ after \in [0..Len(out') -> 0..MaxTasks] /\ after[0] = count[0]
      /\ after[Len(out')] = CountAfter(e, last)
      /\ after[Len(out)] = last
  BY <1>0, <1>2, <1>5, <1>6
<1>8. ASSUME NEW i \in 1..Len(out') PROVE after[i] = CountAfter(out'[i], after[i - 1])
  <2>1. CASE i \in 1..Len(out)
    <3>1. after[i] = count[i] /\ after[i - 1] = count[i - 1] /\ out'[i] = out[i]
      BY <1>0, <1>5, <1>6, <2>1
    <3> QED BY <1>2, <2>1, <3>1
  <2>2. CASE i = Len(out) + 1
    <3>1. i - 1 = Len(out)
      BY <1>0, <2>2
    <3> QED BY <1>0, <1>7, <2>2, <3>1
  <2> QED BY <1>0, <2>1, <2>2
<1>9. phase' \in {"tasks", "copying", "copied"} => after[Len(out')] = todo' + failed'
  BY <1>2, <1>3, <1>7
<1>10. CountIs(after)'
  BY <1>1, <1>7, <1>8, <1>9 DEF CountIs
<1> QED BY <1>10, WitnessesNext

LEMMA CountStopped ==
  ASSUME TypeOK, pending' \in 0..MaxTasks, out' = <<>>, ops' = <<>>,
         phase' \notin {"tasks", "copying", "copied"}
  PROVE  CountFollows'
<1>1. PICK x \in 0..MaxTasks : x = pending'
  OBVIOUS
<1>2. PICK count : count = [i \in 0..0 |-> x]
  OBVIOUS
<1>3. Len(out') = 0 /\ count \in [0..0 -> 0..MaxTasks] /\ count[0] = x /\ 0 \in 0..0
  BY <1>2
<1>4. CountIs(count)'
  <2>1. \A i \in DOMAIN ops' : FALSE
    OBVIOUS
  <2>2. \A i \in 1..0 : FALSE
    OBVIOUS
  <2> QED BY <1>1, <1>3, <2>1, <2>2 DEF CountIs, Makes
<1> QED BY <1>4, WitnessesNext

-----------------------------------------------------------------------------
\* The entries in the history.

LEMMA HistoryCalled ==
  ASSUME TypeOK, InOrder(ops), HistoryFollows, ops # <<>>, ops' = Tail(ops),
         recorded' = recorded + One(Head(ops).call = "record"), UNCHANGED <<out, ended>>
  PROVE  HistoryFollows'
<1>1. PICK entries : HistoryIs(entries)
  BY Witnesses
<1>2. /\ Makes("record", ops') <=> Makes("record", ops) /\ "record" # Head(ops).call
      /\ Makes(Head(ops).call, ops)
  BY Called
<1>3. recorded \in Nat
  BY EventAssumption DEF TypeOK
<1>4. entries[0] = recorded' + One(Makes("record", ops'))
  <2>1. entries[0] = recorded + One(Makes("record", ops))
    BY <1>1 DEF HistoryIs
  <2>2. CASE Head(ops).call = "record"
    BY <1>2, <1>3, <2>1, <2>2 DEF One
  <2>3. CASE Head(ops).call # "record"
    BY <1>2, <1>3, <2>1, <2>3 DEF One
  <2> QED BY <2>2, <2>3
<1>5. HistoryIs(entries)'
  BY <1>1, <1>4 DEF HistoryIs
<1> QED BY <1>5, WitnessesNext

LEMMA HistoryQuiet ==
  ASSUME HistoryFollows, UNCHANGED <<out, recorded, ended>>,
         Makes("record", ops') <=> Makes("record", ops)
  PROVE  HistoryFollows'
<1>1. PICK entries : HistoryIs(entries)
  BY Witnesses
<1>2. HistoryIs(entries)'
  BY <1>1 DEF HistoryIs, One
<1> QED BY <1>2, WitnessesNext

LEMMA HistoryEmitted ==
  ASSUME TypeOK, HistoryFollows, NEW e \in Events, out' = Append(out, e),
         UNCHANGED <<ops, recorded>>,
         ended' = ended + One(Done(e)), ended' \in 0..MaxTasks
  PROVE  HistoryFollows'
<1>q. out \in Seq(Events)
  BY DEF TypeOK
<1>0. /\ out \in Seq(Events) /\ Len(out) \in Nat /\ Len(out') = Len(out) + 1
      /\ out'[Len(out) + 1] = e /\ \A i \in 1..Len(out) : out'[i] = out[i]
  BY <1>q, Appended
<1>1. PICK entries : HistoryIs(entries)
  BY Witnesses
<1>2. /\ entries \in [0..Len(out) -> 0..MaxTasks]
      /\ \A i \in 1..Len(out) : entries[i] = entries[i - 1] + One(Done(out[i]))
      /\ entries[Len(out)] = ended
  BY <1>1 DEF HistoryIs
<1>3. PICK n \in Nat, x \in 0..MaxTasks : n = Len(out) /\ x = ended'
  BY <1>0
<1>4. PICK after : after = [i \in 0..(n + 1) |-> IF i <= n THEN entries[i] ELSE x]
  OBVIOUS
<1>5. /\ after \in [0..Len(out') -> 0..MaxTasks] /\ after[0] = entries[0]
      /\ after[Len(out')] = ended' /\ after[Len(out)] = ended
  BY <1>0, <1>2, <1>3, <1>4
<1>6. ASSUME NEW i \in 1..Len(out') PROVE after[i] = after[i - 1] + One(Done(out'[i]))
  <2>1. CASE i \in 1..Len(out)
    <3>1. after[i] = entries[i] /\ after[i - 1] = entries[i - 1] /\ out'[i] = out[i]
      BY <1>0, <1>3, <1>4, <2>1
    <3> QED BY <1>2, <2>1, <3>1
  <2>2. CASE i = Len(out) + 1
    <3>1. i - 1 = Len(out) /\ i = Len(out')
      BY <1>0, <2>2
    <3> QED BY <1>0, <1>5, <2>2, <3>1
  <2> QED BY <1>0, <2>1, <2>2
<1>7. HistoryIs(after)'
  BY <1>1, <1>5, <1>6 DEF HistoryIs
<1> QED BY <1>7, WitnessesNext

LEMMA HistoryStopped ==
  ASSUME TypeOK, UNCHANGED recorded, ended' = recorded, out' = <<>>, ops' = <<>>
  PROVE  HistoryFollows'
<1>1. PICK x \in 0..MaxTasks : x = recorded
  BY DEF TypeOK
<1>2. PICK entries : entries = [i \in 0..0 |-> x]
  OBVIOUS
<1>3. /\ Len(out') = 0 /\ entries \in [0..0 -> 0..MaxTasks] /\ entries[0] = x
      /\ recorded' = x /\ ended' = x /\ x \in Nat
  BY <1>1, <1>2, EventAssumption
<1>4. One(Makes("record", ops')) = 0 /\ x + 0 = x
  BY <1>3, NoCalls DEF One
<1>5. HistoryIs(entries)'
  <2>1. \A i \in 1..0 : FALSE
    OBVIOUS
  <2> QED BY <1>3, <1>4, <2>1 DEF HistoryIs
<1> QED BY <1>5, WitnessesNext

-----------------------------------------------------------------------------
\* The cycles that were brought to an end.

LEMMA CyclesCalled ==
  ASSUME TypeOK, InOrder(ops), CyclesFollow, ops # <<>>, ops' = Tail(ops),
         cyclesSynced' = cyclesSynced + One(Head(ops).call = "lastSynced"),
         UNCHANGED <<out, phase, cycles>>
  PROVE  CyclesFollow'
<1>1. PICK synced : CyclesAre(synced)
  BY Witnesses
<1>2. /\ Makes("lastSynced", ops') <=> Makes("lastSynced", ops) /\ "lastSynced" # Head(ops).call
      /\ Makes(Head(ops).call, ops)
  BY Called
<1>3. cyclesSynced \in Nat
  BY EventAssumption DEF TypeOK
<1>4. synced[0] = cyclesSynced' + One(Makes("lastSynced", ops'))
  <2>1. synced[0] = cyclesSynced + One(Makes("lastSynced", ops))
    BY <1>1 DEF CyclesAre
  <2>2. CASE Head(ops).call = "lastSynced"
    BY <1>2, <1>3, <2>1, <2>2 DEF One
  <2>3. CASE Head(ops).call # "lastSynced"
    BY <1>2, <1>3, <2>1, <2>3 DEF One
  <2> QED BY <2>2, <2>3
<1>5. CyclesAre(synced)'
  BY <1>1, <1>4 DEF CyclesAre
<1> QED BY <1>5, WitnessesNext

LEMMA CyclesQuiet ==
  ASSUME TypeOK, CyclesFollow, UNCHANGED <<out, cyclesSynced, cycles>>,
         Makes("lastSynced", ops') <=> Makes("lastSynced", ops),
         UNCHANGED phase \/ phase' \in {"off", "idle"}
  PROVE  CyclesFollow'
<1>1. PICK synced : CyclesAre(synced)
  BY Witnesses
<1>2. /\ synced \in [0..Len(out) -> 0..cycles] /\ cycles \in Nat /\ Len(out) \in Nat
      /\ synced[Len(out)] + One(phase \notin {"off", "idle"}) <= cycles
  BY <1>1, EventAssumption DEF CyclesAre, TypeOK
<1>3. synced[Len(out)] \in 0..cycles
  BY <1>2
<1>4. synced[Len(out)] + One(phase' \notin {"off", "idle"}) <= cycles
  BY <1>2, <1>3 DEF One
<1>5. synced[0] = cyclesSynced + One(Makes("lastSynced", ops'))
  BY <1>1 DEF CyclesAre, One
<1>6. CyclesAre(synced)'
  BY <1>1, <1>4, <1>5 DEF CyclesAre
<1> QED BY <1>6, WitnessesNext

LEMMA CyclesEmitted ==
  ASSUME TypeOK, CyclesFollow, NEW e \in Events, out' = Append(out, e),
         UNCHANGED <<ops, cyclesSynced>>, cycles' \in Nat, cycles' >= cycles,
         One(e.type = "cycleSuccess") + One(phase' \notin {"off", "idle"})
           <= One(phase \notin {"off", "idle"}) + (cycles' - cycles)
  PROVE  CyclesFollow'
<1>q. out \in Seq(Events)
  BY DEF TypeOK
<1>0. /\ out \in Seq(Events) /\ Len(out) \in Nat /\ Len(out') = Len(out) + 1
      /\ out'[Len(out) + 1] = e /\ \A i \in 1..Len(out) : out'[i] = out[i]
  BY <1>q, Appended
<1>b. MaxCycles \in Nat /\ cycles \in 0..MaxCycles
  BY EventAssumption DEF TypeOK
<1>c. cycles \in Nat
  BY <1>b
<1>1. PICK synced : CyclesAre(synced)
  BY Witnesses
<1>2. /\ synced \in [0..Len(out) -> 0..cycles]
      /\ \A i \in 1..Len(out) : synced[i] = synced[i - 1] + One(out[i].type = "cycleSuccess")
      /\ synced[Len(out)] + One(phase \notin {"off", "idle"}) <= cycles
  BY <1>1 DEF CyclesAre
<1>3. synced[Len(out)] \in 0..cycles
  BY <1>0, <1>2, <1>c
<1>4. /\ One(e.type = "cycleSuccess") \in {0, 1} /\ One(phase' \notin {"off", "idle"}) \in {0, 1}
      /\ One(phase \notin {"off", "idle"}) \in {0, 1}
  BY DEF One
<1>5a. PICK last \in Nat : last = synced[Len(out)]
  BY <1>0, <1>3
<1>5b. PICK more \in {0, 1} : more = One(e.type = "cycleSuccess")
  BY <1>4
<1>5c. PICK now \in {0, 1} : now = One(phase' \notin {"off", "idle"})
  BY <1>4
<1>5d. PICK was \in {0, 1} : was = One(phase \notin {"off", "idle"})
  BY <1>4
<1>5e. PICK c \in Nat, d \in Nat : c = cycles /\ d = cycles'
  BY <1>c
<1>5. /\ last = synced[Len(out)] /\ more = One(e.type = "cycleSuccess")
      /\ now = One(phase' \notin {"off", "idle"}) /\ was = One(phase \notin {"off", "idle"})
      /\ c = cycles /\ d = cycles'
  BY <1>5a, <1>5b, <1>5c, <1>5d, <1>5e
<1>6. last + was <= c /\ more + now <= was + (d - c) /\ d >= c
  BY <1>2, <1>5
<1>7. last + more + now <= d /\ last + more \in 0..d
  BY <1>6
<1>8. PICK n \in Nat : n = Len(out)
  BY <1>0
<1>9. PICK after : after = [i \in 0..(n + 1) |-> IF i <= n THEN synced[i] ELSE last + more]
  OBVIOUS
<1>10. /\ after[0] = synced[0] /\ after[Len(out')] = last + more /\ after[Len(out)] = last
  <2>1. n + 1 \in 0..(n + 1) /\ ~(n + 1 <= n) /\ n \in 0..(n + 1) /\ 0 \in 0..(n + 1) /\ 0 <= n
    OBVIOUS
  <2>2. after[0] = synced[0] /\ after[n + 1] = last + more /\ after[n] = synced[n]
    BY <1>9, <2>1
  <2> QED BY <1>0, <1>5a, <1>8, <2>2
<1>11. after \in [0..Len(out') -> 0..cycles']
  <2>1. \A i \in 0..n : synced[i] \in 0..d
    <3> TAKE i \in 0..n
    <3>1. synced[i] \in 0..c
      BY <1>2, <1>5, <1>8
    <3> QED BY <3>1, <1>6
  <2>2. \A i \in 0..(n + 1) : after[i] \in 0..d
    BY <1>7, <1>9, <2>1
  <2> QED BY <1>0, <1>5, <1>8, <1>9, <2>2
<1>12. ASSUME NEW i \in 1..Len(out')
       PROVE  after[i] = after[i - 1] + One(out'[i].type = "cycleSuccess")
  <2>1. CASE i \in 1..Len(out)
    <3>1. after[i] = synced[i] /\ after[i - 1] = synced[i - 1] /\ out'[i] = out[i]
      BY <1>0, <1>8, <1>9, <2>1
    <3> QED BY <1>2, <2>1, <3>1
  <2>2. CASE i = Len(out) + 1
    <3>1. i - 1 = Len(out) /\ i = Len(out')
      BY <1>0, <2>2
    <3> QED BY <1>0, <1>5, <1>10, <2>2, <3>1
  <2> QED BY <1>0, <2>1, <2>2
<1>13. after[Len(out')] + One(phase' \notin {"off", "idle"}) <= cycles'
  BY <1>5, <1>7, <1>10
<1>14. CyclesAre(after)'
  BY <1>1, <1>10, <1>11, <1>12, <1>13 DEF CyclesAre
<1> QED BY <1>14, WitnessesNext

LEMMA CyclesStopped ==
  ASSUME TypeOK, CyclesFollow, UNCHANGED <<cyclesSynced, cycles>>, out' = <<>>, ops' = <<>>,
         phase' \in {"off", "idle"}
  PROVE  CyclesFollow'
<1>1. PICK synced : CyclesAre(synced)
  BY Witnesses
<1>2. cyclesSynced \in 0..cycles
  <2>1. Len(out) \in Nat /\ cyclesSynced \in Nat /\ cycles \in Nat
    BY EventAssumption DEF TypeOK
  <2>2. synced[0] \in 0..cycles /\ synced[0] = cyclesSynced + One(Makes("lastSynced", ops))
    BY <1>1, <2>1 DEF CyclesAre
  <2>3. One(Makes("lastSynced", ops)) \in {0, 1}
    BY DEF One
  <2> QED BY <2>1, <2>2, <2>3
<1>3. cycles \in Nat
  BY EventAssumption DEF TypeOK
<1>4. PICK c \in Nat, x \in Nat : c = cycles /\ x = cyclesSynced /\ x \in 0..c
  BY <1>2, <1>3
<1>5. PICK after : after = [i \in 0..0 |-> x]
  OBVIOUS
<1>6. /\ Len(out') = 0 /\ after \in [0..0 -> 0..c] /\ after[0] = x
      /\ cyclesSynced' = x /\ cycles' = c /\ x \in Nat
  BY <1>4, <1>5
<1>7. /\ One(Makes("lastSynced", ops')) = 0 /\ x + 0 = x
      /\ One(phase' \notin {"off", "idle"}) = 0
  BY <1>6, NoCalls DEF One
<1>8. CyclesAre(after)'
  <2>1. \A i \in 1..0 : FALSE
    OBVIOUS
  <2>2. x + 0 <= c
    BY <1>4
  <2> QED BY <1>6, <1>7, <2>1, <2>2 DEF CyclesAre
<1> QED BY <1>8, WitnessesNext

-----------------------------------------------------------------------------
\* The steps, each as what it does to the three and to the rest.

CallActions == WriteState \/ WritePending \/ ReadPending \/ WriteTransfer
               \/ WriteLastSynced \/ Record

Bounds == MaxTasks \in Nat /\ MaxCycles \in Nat /\ MaxTrouble \in Nat /\ PipeSize \in Nat

LEMMA BoundsAreNumbers == Bounds
  BY EventAssumption DEF Bounds

LEMMA HeadOfCalls ==
  ASSUME TypeOK, ops # <<>>
  PROVE  /\ Head(ops).call = "state" => Head(ops).state \in SyncStates
         /\ Head(ops).call = "pending" => Head(ops).count \in 0..MaxTasks
         /\ Head(ops).call = "transfer" => Head(ops).shown \in BOOLEAN
<1>1. Head(ops) \in Operations
  BY DEF TypeOK
<1> QED BY <1>1 DEF Operations

\* A setter tells the subscribers what it has set.
LEMMA SettersPublish ==
  ASSUME WatchCurrent
  PROVE  /\ \A x : SetSyncState(x) => WatchCurrent'
         /\ \A x : SetPendingCount(x) => WatchCurrent'
         /\ \A x : SetCurrentTransfer(x) => WatchCurrent'
         /\ SetLastSynced => WatchCurrent'
         /\ UNCHANGED appVars => WatchCurrent'
  BY DEF WatchCurrent, Snapshot, SetSyncState, SetPendingCount, SetCurrentTransfer,
         SetLastSynced, Publish, appVars

LEMMA CallsAnswered ==
  ASSUME TypeOK, CallActions
  PROVE  /\ ops # <<>> /\ ops' = Tail(ops) /\ CountCall
         /\ recorded' = recorded + One(Head(ops).call = "record")
         /\ cyclesSynced' = cyclesSynced + One(Head(ops).call = "lastSynced")
         /\ UNCHANGED <<network, exit, out, err, phase, todo, failed, ended, said, cycles,
                        records, starts>>
         /\ syncState' \in SyncStates /\ pending' \in 0..MaxTasks /\ current' \in BOOLEAN
         /\ read' \in 0..MaxTasks
         /\ Head(ops).call # "state" => UNCHANGED syncState
         /\ Head(ops).call = "state" => syncState' = Head(ops).state
         /\ WatchCurrent => WatchCurrent'
<1>1. /\ recorded \in Nat /\ cyclesSynced \in Nat /\ read \in 0..MaxTasks
      /\ pending \in 0..MaxTasks /\ syncState \in SyncStates /\ current \in BOOLEAN
  BY EventAssumption DEF TypeOK
<1>2. /\ ops # <<>> /\ ops' = Tail(ops)
      /\ UNCHANGED <<network, exit, out, err, phase, todo, failed, ended, said, cycles,
                     records, starts>>
  BY DEF CallActions, WriteState, WritePending, ReadPending, WriteTransfer,
         WriteLastSynced, Record, Calls, Handled, cliVars
<1>a. /\ Head(ops).call = "state" => Head(ops).state \in SyncStates
      /\ Head(ops).call = "pending" => Head(ops).count \in 0..MaxTasks
      /\ Head(ops).call = "transfer" => Head(ops).shown \in BOOLEAN
  BY <1>2, HeadOfCalls
<1>3. /\ Head(ops).call # "record" /\ recorded' = recorded
         => recorded' = recorded + One(Head(ops).call = "record")
      /\ Head(ops).call # "lastSynced" /\ cyclesSynced' = cyclesSynced
         => cyclesSynced' = cyclesSynced + One(Head(ops).call = "lastSynced")
  BY <1>1 DEF One
<1>4. CASE WriteState
  <2>1. /\ Head(ops).call = "state" /\ syncState' = Head(ops).state
        /\ UNCHANGED <<pending, current, cyclesSynced, recorded, read>>
    BY <1>4 DEF WriteState, Calls, SetSyncState
  <2>2. WatchCurrent => WatchCurrent'
    BY <1>4, SettersPublish DEF WriteState
  <2> QED BY <1>1, <1>2, <1>3, <1>a, <2>1, <2>2 DEF CountCall
<1>5. CASE WritePending
  <2>1. /\ Head(ops).call \in {"pending", "writePending"}
        /\ UNCHANGED <<syncState, current, cyclesSynced, recorded, read>>
        /\ Head(ops).call = "pending" => pending' = Head(ops).count
    BY <1>5 DEF WritePending, Calls, SetPendingCount, appVars
  <2>2. WatchCurrent => WatchCurrent'
    BY <1>5, SettersPublish DEF WritePending
  <2>3. Head(ops).call = "writePending" =>
          (read > 0 /\ pending' = read - 1) \/ (read = 0 /\ pending' = pending)
    BY <1>5 DEF WritePending, Calls, SetPendingCount, appVars
  <2>4. Head(ops).call = "writePending" => pending' \in 0..MaxTasks
    <3>1. \A r \in 0..MaxTasks : r > 0 => r - 1 \in 0..MaxTasks
      BY EventAssumption
    <3> QED BY <1>1, <2>3, <3>1
  <2>5. pending' \in 0..MaxTasks
    BY <1>a, <2>1, <2>4
  <2>6. CountCall
    BY <2>1, <2>3 DEF CountCall
  <2> QED BY <1>1, <1>2, <1>3, <2>1, <2>2, <2>5, <2>6
<1>6. CASE ReadPending
  <2>1. /\ Head(ops).call = "readPending" /\ read' = pending
        /\ UNCHANGED <<syncState, pending, current, cyclesSynced, recorded>>
    BY <1>6 DEF ReadPending, Calls, appVars
  <2>2. WatchCurrent => WatchCurrent'
    BY <1>6, SettersPublish DEF ReadPending
  <2> QED BY <1>1, <1>2, <1>3, <2>1, <2>2 DEF CountCall
<1>7. CASE WriteTransfer
  <2>1. /\ Head(ops).call = "transfer" /\ current' = Head(ops).shown
        /\ UNCHANGED <<syncState, pending, cyclesSynced, recorded, read>>
    BY <1>7 DEF WriteTransfer, Calls, SetCurrentTransfer
  <2>2. WatchCurrent => WatchCurrent'
    BY <1>7, SettersPublish DEF WriteTransfer
  <2> QED BY <1>1, <1>2, <1>3, <1>a, <2>1, <2>2 DEF CountCall
<1>8. CASE WriteLastSynced
  <2>1. /\ Head(ops).call = "lastSynced" /\ cyclesSynced' = cyclesSynced + 1
        /\ UNCHANGED <<syncState, pending, current, recorded, read>>
    BY <1>8 DEF WriteLastSynced, Calls, SetLastSynced
  <2>2. WatchCurrent => WatchCurrent'
    BY <1>8, SettersPublish DEF WriteLastSynced
  <2>3. One(Head(ops).call = "lastSynced") = 1
    BY <2>1 DEF One
  <2> QED BY <1>1, <1>2, <1>3, <2>1, <2>2, <2>3 DEF CountCall
<1>9. CASE Record
  <2>1. /\ Head(ops).call = "record" /\ recorded' = recorded + 1
        /\ UNCHANGED <<syncState, pending, current, cyclesSynced, read>>
    BY <1>9 DEF Record, Calls, appVars
  <2>2. WatchCurrent => WatchCurrent'
    BY <1>9, SettersPublish DEF Record
  <2>3. One(Head(ops).call = "record") = 1
    BY <2>1 DEF One
  <2> QED BY <1>1, <1>2, <1>3, <2>1, <2>2, <2>3 DEF CountCall
<1> QED BY <1>4, <1>5, <1>6, <1>7, <1>8, <1>9 DEF CallActions

\* What the CLI does when it prints an event.
Printed(e) ==
  /\ phase # "off" /\ Len(out) < PipeSize /\ out' = Append(out, e)
  /\ UNCHANGED <<appVars, monitorVars, err, records, starts>>
  /\ phase' \in Phases \ {"off"}
  /\ todo' \in Nat /\ failed' \in 0..ended' /\ ended' \in Nat /\ todo' + ended' <= MaxTasks
  /\ ended' = ended + One(Done(e))
  /\ cycles' \in 0..MaxCycles /\ cycles' >= cycles
  /\ One(e.type = "cycleSuccess") + One(phase' \notin {"off", "idle"})
       <= One(phase \notin {"off", "idle"}) + (cycles' - cycles)
  /\ \A n \in 0..MaxTasks :
       /\ phase \in {"tasks", "copying", "copied"} => n = todo + failed
       /\ phase' \in {"tasks", "copying", "copied"}
       => CountAfter(e, n) = todo' + failed'

Emissions == BeginCycle \/ CountDeltas \/ Repeat \/ PrintText \/ BeginCopy \/ FinishCopy
             \/ EndTask \/ EndCycle

LEMMA Amounts ==
  ASSUME TypeOK, BoundsKept
  PROVE  /\ todo \in Nat /\ failed \in Nat /\ ended \in Nat /\ cycles \in 0..MaxCycles
         /\ todo + ended <= MaxTasks /\ failed <= ended /\ failed \in 0..ended /\ Bounds
  BY BoundsAreNumbers DEF TypeOK, BoundsKept, Bounds

\* An event that says nothing of the tasks.
LEMMA SaysNothing ==
  ASSUME NEW e,
         \/ e.type \in {"cycleGettingTreesStarted", "cycleProcessingTasksStarted", "syncing"}
         \/ e.type = "transfer" /\ ~Done(e)
  PROVE  /\ \A n : CountAfter(e, n) = n
         /\ ~Done(e) /\ e.type # "cycleSuccess"
  BY DEF CountAfter, Done, Succeeds, Fails

LEMMA PrintedQuietly ==
  ASSUME TypeOK, BoundsKept, NEW e, NEW then \in Phases \ {"off"}, Emit(e, then),
         \/ e.type \in {"cycleGettingTreesStarted", "cycleProcessingTasksStarted", "syncing"}
         \/ e.type = "transfer" /\ ~Done(e),
         UNCHANGED <<todo, failed, ended>>, cycles' \in 0..MaxCycles, cycles' >= cycles,
         \/ phase \notin {"off", "idle"}
         \/ then = "idle"
         \/ cycles' = cycles + 1,
         then \in {"tasks", "copying", "copied"} => phase \in {"tasks", "copying", "copied"}
  PROVE  Printed(e)
<1>1. /\ phase # "off" /\ Len(out) < PipeSize /\ out' = Append(out, e) /\ phase' = then
      /\ UNCHANGED <<appVars, monitorVars, err, records, starts>>
  BY DEF Emit
<1>2. /\ todo \in Nat /\ failed \in 0..ended /\ ended \in Nat /\ todo + ended <= MaxTasks
      /\ cycles \in Nat /\ cycles' \in Nat
  BY Amounts DEF Bounds
<1>s. /\ \A n : CountAfter(e, n) = n
      /\ ~Done(e) /\ e.type # "cycleSuccess"
  BY SaysNothing
<1>3. /\ \A n : CountAfter(e, n) = n
      /\ One(Done(e)) = 0 /\ One(e.type = "cycleSuccess") = 0
  BY <1>s DEF One
<1>4. ended' = ended + One(Done(e))
  BY <1>2, <1>3
<1>5. One(e.type = "cycleSuccess") + One(phase' \notin {"off", "idle"})
       <= One(phase \notin {"off", "idle"}) + (cycles' - cycles)
  <2>1. CASE phase \notin {"off", "idle"}
    <3>1. One(phase \notin {"off", "idle"}) = 1 /\ One(phase' \notin {"off", "idle"}) <= 1
      BY <2>1 DEF One
    <3>2. One(phase' \notin {"off", "idle"}) \in Nat
      BY DEF One
    <3> QED BY <1>2, <1>3, <3>1, <3>2
  <2>2. CASE then = "idle"
    <3>1. One(phase' \notin {"off", "idle"}) = 0 /\ One(phase \notin {"off", "idle"}) \in {0, 1}
      BY <1>1, <2>2 DEF One
    <3> QED BY <1>2, <1>3, <3>1
  <2>3. CASE cycles' = cycles + 1
    BY <1>2, <1>3, <2>3 DEF One
  <2> QED BY <2>1, <2>2, <2>3
<1>6. \A n \in 0..MaxTasks :
       /\ phase \in {"tasks", "copying", "copied"} => n = todo + failed
       /\ phase' \in {"tasks", "copying", "copied"}
       => CountAfter(e, n) = todo' + failed'
  BY <1>1, <1>3
<1> QED BY <1>1, <1>2, <1>4, <1>5, <1>6 DEF Printed

LEMMA EventsAre ==
  /\ \A type \in {"cycleGettingTreesStarted", "cycleProcessingTasksStarted", "cycleSuccess",
                  "doneSyncing", "syncing"} : Event(type) \in Events /\ Event(type).type = type
  /\ \A of \in {"upload", "uploadFile", "createLocalDirectory"},
        status \in {"queued", "started", "finished", "success", "error"} :
       /\ CopyEvent(of, status) \in Events /\ CopyEvent(of, status).type = "transfer"
       /\ CopyEvent(of, status).of = of /\ CopyEvent(of, status).status = status
  /\ \A n \in 0..MaxTasks :
       /\ [type |-> "deltasCount", count |-> n] \in Events
       /\ [type |-> "deltasCount", count |-> n].type = "deltasCount"
       /\ [type |-> "deltasCount", count |-> n].count = n
  /\ \A net \in BOOLEAN : /\ [type |-> "cycleError", network |-> net] \in Events
                          /\ [type |-> "cycleError", network |-> net].type = "cycleError"
  BY DEF Events, Event, CopyEvent

LEMMA CliPrints ==
  ASSUME TypeOK, BoundsKept, Emissions
  PROVE  \E e \in Events : Printed(e)
<1>0. /\ todo \in Nat /\ failed \in 0..ended /\ ended \in Nat /\ todo + ended <= MaxTasks
      /\ cycles \in 0..MaxCycles /\ cycles \in Nat /\ Bounds
  BY Amounts DEF Bounds
<1>p. /\ phase \in Phases
      /\ {"trees", "tasks", "copying", "copied", "idle"} \subseteq Phases \ {"off"}
  BY DEF TypeOK, Phases
<1>1. CASE BeginCycle
  <2>1. cycles' = cycles + 1 /\ cycles' \in 0..MaxCycles
    BY <1>0, <1>1 DEF BeginCycle, Bounds
  <2>2. Printed(Event("cycleGettingTreesStarted"))
    BY <1>0, <1>1, <1>p, <2>1, EventsAre, PrintedQuietly DEF BeginCycle
  <2> QED BY <2>2, EventsAre
<1>2. CASE CountDeltas
  <2>1. PICK n \in 0..(MaxTasks - ended) :
          todo' = n /\ Emit([type |-> "deltasCount", count |-> n], "tasks")
    BY <1>2 DEF CountDeltas
  <2>2. phase = "trees" /\ failed' = 0 /\ UNCHANGED <<ended, cycles>>
    BY <1>2 DEF CountDeltas
  <2>3. n \in 0..MaxTasks /\ n \in Nat /\ n + ended <= MaxTasks
    BY <1>0, <2>1 DEF Bounds
  <2>4. PICK e \in Events : e = [type |-> "deltasCount", count |-> n]
    BY <2>3, EventsAre
  <2>5. e.type = "deltasCount" /\ e.count = n
    BY <2>4
  <2>6. ~Done(e) /\ \A k : CountAfter(e, k) = n
    BY <2>5 DEF Done, Succeeds, Fails, CountAfter
  <2>7. /\ One(Done(e)) = 0 /\ One(e.type = "cycleSuccess") = 0
        /\ One(phase \notin {"off", "idle"}) = 1
    BY <2>2, <2>5, <2>6 DEF One
  <2>8. /\ phase # "off" /\ Len(out) < PipeSize /\ out' = Append(out, e) /\ phase' = "tasks"
        /\ UNCHANGED <<appVars, monitorVars, err, records, starts>>
    BY <2>1, <2>4 DEF Emit
  <2>9. One(phase' \notin {"off", "idle"}) = 1
    BY <2>8 DEF One
  <2>10. /\ todo' \in Nat /\ failed' \in 0..ended' /\ ended' \in Nat /\ todo' + ended' <= MaxTasks
         /\ ended' = ended + One(Done(e)) /\ cycles' \in 0..MaxCycles /\ cycles' >= cycles
    BY <1>0, <2>1, <2>2, <2>3, <2>7
  <2>11. One(e.type = "cycleSuccess") + One(phase' \notin {"off", "idle"})
           <= One(phase \notin {"off", "idle"}) + (cycles' - cycles)
    BY <1>0, <2>2, <2>7, <2>9
  <2>12. \A k \in 0..MaxTasks : CountAfter(e, k) = todo' + failed'
    BY <2>1, <2>2, <2>3, <2>6
  <2>13. Printed(e)
    BY <1>p, <2>8, <2>10, <2>11, <2>12 DEF Printed
  <2> QED BY <2>13
<1>3. CASE Repeat
  <2>1. PICK e \in {Event("cycleProcessingTasksStarted"),
                    CopyEvent("createLocalDirectory", "queued")} : Emit(e, phase)
    BY <1>3 DEF Repeat
  <2>2. /\ e \in Events
        /\ \/ e.type \in {"cycleGettingTreesStarted", "cycleProcessingTasksStarted", "syncing"}
           \/ e.type = "transfer" /\ ~Done(e)
    BY <2>1, EventsAre DEF Done, Succeeds, Fails
  <2>3. /\ phase \in {"tasks", "copying"} /\ phase \in Phases \ {"off"}
        /\ UNCHANGED <<todo, failed, ended, cycles>>
    BY <1>3, <1>p DEF Repeat
  <2>4. phase \notin {"off", "idle"} /\ cycles' \in 0..MaxCycles /\ cycles' >= cycles
    BY <1>0, <2>3
  <2>5. Printed(e)
    BY <2>1, <2>2, <2>3, <2>4, PrintedQuietly
  <2> QED BY <2>2, <2>5
<1>4. CASE PrintText
  <2>1. /\ UNCHANGED <<todo, failed, ended, cycles>>
        /\ cycles' \in 0..MaxCycles /\ cycles' >= cycles
    BY <1>0, <1>4 DEF PrintText
  <2>2. CASE Emit(Event("syncing"), phase)
    <3>1. phase # "off" /\ phase \in Phases \ {"off"}
      BY <1>p, <2>2 DEF Emit
    <3>2. PICK e \in Events : e = Event("syncing") /\ e.type = "syncing"
      BY EventsAre
    <3>3. Emit(e, phase)
      BY <2>2, <3>2
    <3>4. phase \notin {"off", "idle"} \/ phase = "idle"
      BY <3>1
    <3>5. Printed(e)
      BY <2>1, <3>1, <3>2, <3>3, <3>4, PrintedQuietly
    <3> QED BY <3>5
  <2>3. ASSUME phase = "idle", Emit(Event("doneSyncing"), phase)
        PROVE  \E e \in Events : Printed(e)
    <3>1. PICK e \in Events : e = Event("doneSyncing") /\ e.type = "doneSyncing"
      BY EventsAre
    <3>2. /\ phase # "off" /\ Len(out) < PipeSize /\ out' = Append(out, e) /\ phase' = "idle"
          /\ UNCHANGED <<appVars, monitorVars, err, records, starts>>
      BY <2>3, <3>1 DEF Emit
    <3>3. /\ One(Done(e)) = 0 /\ One(e.type = "cycleSuccess") = 0
          /\ One(phase \notin {"off", "idle"}) = 0 /\ One(phase' \notin {"off", "idle"}) = 0
      BY <2>3, <3>1, <3>2 DEF One, Done, Succeeds, Fails
    <3>4. /\ ended' = ended + One(Done(e))
          /\ One(e.type = "cycleSuccess") + One(phase' \notin {"off", "idle"})
               <= One(phase \notin {"off", "idle"}) + (cycles' - cycles)
      BY <1>0, <2>1, <3>3
    <3>5. Printed(e)
      BY <1>0, <1>p, <2>1, <3>2, <3>4 DEF Printed
    <3> QED BY <3>5
  <2> QED BY <1>4, <2>2, <2>3 DEF PrintText
<1>5. CASE BeginCopy
  <2>1. PICK e \in Events : /\ e = CopyEvent("upload", "started") /\ e.type = "transfer"
                            /\ e.of = "upload" /\ e.status = "started"
    BY EventsAre
  <2>2. ~Done(e) /\ Emit(e, "copying") /\ phase = "tasks"
        /\ UNCHANGED <<todo, failed, ended, cycles>>
    BY <1>5, <2>1 DEF BeginCopy, Done, Succeeds, Fails
  <2>3. cycles' \in 0..MaxCycles /\ cycles' >= cycles
    BY <1>0, <2>2
  <2>4. Printed(e)
    BY <1>p, <2>1, <2>2, <2>3, PrintedQuietly
  <2> QED BY <2>4
<1>6. CASE FinishCopy
  <2>1. PICK e \in Events : /\ e = CopyEvent("upload", "finished") /\ e.type = "transfer"
                            /\ e.of = "upload" /\ e.status = "finished"
    BY EventsAre
  <2>2. ~Done(e) /\ Emit(e, "copied") /\ phase = "copying"
        /\ UNCHANGED <<todo, failed, ended, cycles>>
    BY <1>6, <2>1 DEF FinishCopy, Done, Succeeds, Fails, IsTask
  <2>3. cycles' \in 0..MaxCycles /\ cycles' >= cycles
    BY <1>0, <2>2
  <2>4. Printed(e)
    BY <1>p, <2>1, <2>2, <2>3, PrintedQuietly
  <2> QED BY <2>4
<1>7. CASE EndTask
  <2>1. PICK status \in {"success", "error"} :
          /\ failed' = IF status = "error" THEN failed + 1 ELSE failed
          /\ \/ phase = "copied" /\ Emit(CopyEvent("uploadFile", status), "tasks")
             \/ phase = "tasks" /\ Emit(CopyEvent("createLocalDirectory", status), "tasks")
    BY <1>7 DEF EndTask
  <2>2. PICK of \in {"uploadFile", "createLocalDirectory"} : Emit(CopyEvent(of, status), "tasks")
    BY <2>1
  <2>3. PICK e \in Events : /\ e = CopyEvent(of, status) /\ e.type = "transfer"
                            /\ e.of = of /\ e.status = status
    BY EventsAre
  <2>4. /\ todo > 0 /\ todo' = todo - 1 /\ ended' = ended + 1 /\ UNCHANGED cycles
        /\ phase \in {"tasks", "copying", "copied"}
    BY <1>7, <2>1 DEF EndTask
  <2>5. /\ phase # "off" /\ Len(out) < PipeSize /\ out' = Append(out, e) /\ phase' = "tasks"
        /\ UNCHANGED <<appVars, monitorVars, err, records, starts>>
    BY <2>2, <2>3 DEF Emit
  <2>6. Done(e) /\ (Succeeds(e) <=> status = "success")
    BY <2>3 DEF Done, Succeeds, Fails, IsTask
  <2>7. One(Done(e)) = 1 /\ One(e.type = "cycleSuccess") = 0
        /\ One(phase \notin {"off", "idle"}) = 1 /\ One(phase' \notin {"off", "idle"}) = 1
    BY <2>3, <2>4, <2>5, <2>6 DEF One
  <2>8. /\ todo' \in Nat /\ ended' \in Nat /\ todo' + ended' <= MaxTasks
        /\ ended' = ended + One(Done(e)) /\ cycles' \in 0..MaxCycles /\ cycles' >= cycles
    BY <1>0, <2>4, <2>7 DEF Bounds
  <2>9. failed' \in 0..ended'
    BY <1>0, <2>1, <2>4
  <2>10. One(e.type = "cycleSuccess") + One(phase' \notin {"off", "idle"})
           <= One(phase \notin {"off", "idle"}) + (cycles' - cycles)
    BY <1>0, <2>4, <2>7
  <2>11. CountAfter(e, todo + failed) = todo' + failed'
    <3>1. CASE status = "success"
      <4>1. CountAfter(e, todo + failed) = Less(todo + failed)
        BY <2>3, <2>6, <3>1 DEF CountAfter
      <4> QED BY <1>0, <2>1, <2>4, <3>1, <4>1 DEF Less
    <3>2. CASE status = "error"
      <4>1. CountAfter(e, todo + failed) = todo + failed
        BY <2>3, <2>6, <3>2 DEF CountAfter
      <4>2. failed' = failed + 1
        BY <2>1, <3>2
      <4> QED BY <1>0, <2>4, <4>1, <4>2
    <3> QED BY <3>1, <3>2
  <2>12. Printed(e)
    BY <1>p, <2>4, <2>5, <2>8, <2>9, <2>10, <2>11 DEF Printed
  <2> QED BY <2>12
<1>8. CASE EndCycle
  <2>1. todo' = 0 /\ failed' = 0 /\ UNCHANGED <<ended, cycles>> /\ phase \in {"trees", "tasks"}
    BY <1>8 DEF EndCycle
  <2>2. PICK e \in Events : Emit(e, "idle") /\ e.type \in {"cycleSuccess", "cycleError"}
    BY <1>8, EventsAre DEF EndCycle
  <2>3. /\ phase # "off" /\ Len(out) < PipeSize /\ out' = Append(out, e) /\ phase' = "idle"
        /\ UNCHANGED <<appVars, monitorVars, err, records, starts>>
    BY <2>2 DEF Emit
  <2>4. /\ One(Done(e)) = 0 /\ One(e.type = "cycleSuccess") \in {0, 1}
        /\ One(phase \notin {"off", "idle"}) = 1 /\ One(phase' \notin {"off", "idle"}) = 0
    BY <2>1, <2>2, <2>3 DEF One, Done, Succeeds, Fails
  <2>5. /\ todo' \in Nat /\ failed' \in 0..ended' /\ ended' \in Nat /\ todo' + ended' <= MaxTasks
        /\ ended' = ended + One(Done(e)) /\ cycles' \in 0..MaxCycles /\ cycles' >= cycles
    <3>1. 0 \in 0..ended /\ ended + 0 = ended /\ 0 + ended <= MaxTasks /\ cycles >= cycles
      BY <1>0 DEF Bounds
    <3>2. One(Done(e)) = 0
      BY <2>4
    <3> QED BY <1>0, <2>1, <3>1, <3>2
  <2>6. One(e.type = "cycleSuccess") + One(phase' \notin {"off", "idle"})
          <= One(phase \notin {"off", "idle"}) + (cycles' - cycles)
    BY <1>0, <2>1, <2>4
  <2>7. Printed(e)
    BY <1>p, <2>3, <2>5, <2>6 DEF Printed
  <2> QED BY <2>7
<1> QED BY <1>1, <1>2, <1>3, <1>4, <1>5, <1>6, <1>7, <1>8 DEF Emissions

-----------------------------------------------------------------------------
(* Every step keeps the invariant                                          *)

\* The two counts stay within their bounds since the traces end there.
LEMMA RecordedBounded ==
  ASSUME recorded' \in Nat, out' \in Seq(Events), HistoryFollows'
  PROVE  recorded' \in 0..MaxTasks
<1>1. PICK entries : HistoryIs(entries)'
  BY WitnessesNext
<1>2. Len(out') \in Nat /\ entries[0] \in 0..MaxTasks
  BY <1>1 DEF HistoryIs
<1>3. entries[0] = recorded' + One(Makes("record", ops')) /\ One(Makes("record", ops')) \in {0, 1}
  BY <1>1 DEF HistoryIs, One
<1> QED BY <1>2, <1>3, BoundsAreNumbers DEF Bounds

LEMMA CyclesBounded ==
  ASSUME cyclesSynced' \in Nat, cycles' \in 0..MaxCycles, out' \in Seq(Events), CyclesFollow'
  PROVE  cyclesSynced' \in 0..MaxCycles
<1>1. PICK synced : CyclesAre(synced)'
  BY WitnessesNext
<1>2. Len(out') \in Nat /\ synced[0] \in 0..cycles'
  BY <1>1 DEF CyclesAre
<1>3. /\ synced[0] = cyclesSynced' + One(Makes("lastSynced", ops'))
      /\ One(Makes("lastSynced", ops')) \in {0, 1}
  BY <1>1 DEF CyclesAre, One
<1> QED BY <1>2, <1>3, BoundsAreNumbers DEF Bounds

\* Only a state of Synced and the counts that come with it matter to
\* SyncedWaits, which a call of the handler keeps.
LEMMA SyncedCalled ==
  ASSUME TypeOK, InOrder(ops), SyncedWaits, CountFollows, CallActions
  PROVE  SyncedWaits'
<1>1. /\ ops # <<>> /\ ops' = Tail(ops) /\ CountCall
      /\ UNCHANGED exit
      /\ Head(ops).call # "state" => UNCHANGED syncState
      /\ Head(ops).call = "state" => syncState' = Head(ops).state
  BY CallsAnswered
<1>2. /\ ops \in Seq(Operations) /\ Head(ops) = ops[1] /\ 1 \in DOMAIN ops
      /\ \A i \in DOMAIN ops' : i + 1 \in DOMAIN ops /\ ops'[i] = ops[i + 1]
      /\ \A i \in DOMAIN ops : i # 1 => i - 1 \in DOMAIN ops' /\ ops[i] = ops'[i - 1]
  BY <1>1, TailOfSequence DEF TypeOK
<1>3. pending \in Nat
  BY BoundsAreNumbers DEF TypeOK, Bounds
<1>4. ASSUME 1 + 1 \in DOMAIN ops PROVE ops' # <<>> /\ Head(ops') = ops[1 + 1]
  <2>1. 1 + 1 # 1 /\ (1 + 1) - 1 = 1
    OBVIOUS
  <2>2. 1 \in DOMAIN ops' /\ ops'[1] = ops[1 + 1]
    BY <1>2, <1>4, <2>1
  <2>3. ops' # <<>>
    BY <2>2
  <2>4. ops' \in Seq(Operations) /\ Head(ops') = ops'[1]
    BY <1>1, <1>2, <2>3, TailOfSequence
  <2> QED BY <2>2, <2>3, <2>4
<1>5. CASE Head(ops).call = "state"
  <2>1. UNCHANGED pending
    BY <1>1, <1>5 DEF CountCall
  <2>2. CASE Head(ops).state = "Synced"
    <3>1. 1 + 1 \in DOMAIN ops /\ ops[1 + 1] = Pending(0)
      BY <1>2, <1>5, <2>2 DEF InOrder
    <3> QED BY <1>1, <1>4, <3>1 DEF SyncedWaits
  <2>3. CASE Head(ops).state # "Synced"
    BY <1>1, <1>5, <2>3 DEF SyncedWaits
  <2> QED BY <2>2, <2>3
<1>6. CASE Head(ops).call = "pending"
  <2>1. pending' = Head(ops).count
    BY <1>1, <1>6 DEF CountCall
  <2>2. CASE Head(ops).count > 0
    <3>1. 1 + 1 \in DOMAIN ops /\ ops[1 + 1] = State("Syncing")
      BY <1>2, <1>6, <2>2 DEF InOrder
    <3> QED BY <1>1, <1>4, <3>1 DEF SyncedWaits
  <2>3. CASE ~(Head(ops).count > 0)
    BY <1>1, <2>1, <2>3 DEF SyncedWaits
  <2> QED BY <2>2, <2>3
<1>7. CASE Head(ops).call \notin {"state", "pending"}
  <2>1. UNCHANGED syncState
    BY <1>1, <1>7
  <2>2. ~(syncState = "Synced" /\ pending > 0)
    BY <1>1, <1>7 DEF SyncedWaits, OutHandled, Pending, State
  <2>3. CASE Head(ops).call # "writePending"
    <3>1. UNCHANGED pending
      BY <1>1, <1>7, <2>3 DEF CountCall
    <3> QED BY <1>1, <2>1, <2>2, <3>1 DEF SyncedWaits
  <2>4. CASE Head(ops).call = "writePending"
    <3>1. PICK count : CountIs(count)
      BY Witnesses
    <3>2. Makes("writePending", ops)
      BY <1>2, <2>4 DEF Makes
    <3>3. ~Makes("readPending", ops)
      <4>1. SUFFICES ASSUME NEW j \in DOMAIN ops, ops[j].call = "readPending" PROVE FALSE
        BY DEF Makes
      <4>2. j < 1
        BY <1>2, <2>4, <4>1 DEF InOrder
      <4>3. j \in Nat /\ j >= 1
        BY <1>1, <1>2, TailOfSequence
      <4> QED BY <4>2, <4>3
    <3>4. read = pending
      BY <3>1, <3>2, <3>3 DEF CountIs
    <3>5. pending' > 0 => pending > 0
      BY <1>1, <1>3, <2>4, <3>4 DEF CountCall
    <3> QED BY <1>1, <2>1, <2>2, <3>5 DEF SyncedWaits
  <2> QED BY <2>3, <2>4
<1> QED BY <1>5, <1>6, <1>7

LEMMA StartKept ==
  ASSUME Init
  PROVE  Parts
<1>1. TypeOK
  <2>1. <<>> \in Seq(Events) /\ <<>> \in Seq({"network", "error", "other"}) /\ Len(<<>>) = 0
    OBVIOUS
  <2>2. 0 \in 0..MaxTasks /\ 0 \in 0..MaxCycles /\ 0 \in 0..MaxTrouble /\ 1 \in 1..(MaxTrouble + 1)
        /\ 0 <= PipeSize /\ 0 <= MaxTrouble
    BY BoundsAreNumbers DEF Bounds
  <2>3. /\ out \in Seq(Events) /\ Len(out) <= PipeSize
        /\ err \in Seq({"network", "error", "other"}) /\ Len(err) <= MaxTrouble
        /\ ops \in Seq(Operations) /\ Len(ops) <= 6
    BY <2>1, <2>2, NoCalls DEF Init
  <2>4. "Scanning" \in SyncStates /\ "idle" \in Phases
    BY DEF SyncStates, Phases
  <2> QED BY <2>2, <2>3, <2>4 DEF Init, TypeOK
<1>2. WatchCurrent /\ SyncedWaits /\ ExitAwaits
  BY DEF Init, WatchCurrent, SyncedWaits, ExitAwaits
<1>3. BoundsKept
  BY BoundsAreNumbers DEF Init, BoundsKept, Bounds
<1>4. InOrder(ops)
  BY NoCalls DEF Init
<1>5. CountFollows /\ HistoryFollows /\ CyclesFollow
  <2>1. PICK zero : zero = [i \in 0..0 |-> 0]
    OBVIOUS
  <2>2. /\ Len(out) = 0 /\ ops = <<>> /\ cycles = 0 /\ recorded = 0 /\ cyclesSynced = 0
        /\ ended = 0 /\ pending = 0 /\ phase = "idle"
    BY DEF Init
  <2>3. /\ zero \in [0..0 -> 0..MaxTasks] /\ zero \in [0..0 -> 0..0] /\ zero[0] = 0
    BY <2>1, BoundsAreNumbers DEF Bounds
  <2>4. \A i \in 1..0 : FALSE
    OBVIOUS
  <2>5. \A i \in DOMAIN ops : FALSE
    BY <2>2
  <2>6. /\ One(Makes("record", ops)) = 0 /\ One(Makes("lastSynced", ops)) = 0
        /\ One(phase \notin {"off", "idle"}) = 0 /\ 0 + 0 = 0
    BY <2>2, NoCalls DEF One
  <2>7. CountIs(zero)
    BY <2>2, <2>3, <2>4, <2>5 DEF CountIs, Makes
  <2>8. HistoryIs(zero)
    BY <2>2, <2>3, <2>4, <2>6 DEF HistoryIs
  <2>9. CyclesAre(zero)
    BY <2>2, <2>3, <2>4, <2>6 DEF CyclesAre
  <2> QED BY <2>7, <2>8, <2>9, Witnesses
<1> QED BY <1>1, <1>2, <1>3, <1>4, <1>5 DEF Parts

\* The word on the network is one of four.
SaidTyped == said \in {"none", "earlier", "racing", "last"}

LEMMA WordsTyped ==
  ASSUME TypeOK, Next
  PROVE  SaidTyped'
<1>1. SaidTyped
  BY DEF TypeOK, SaidTyped
<1>2. Earlier \in {"none", "earlier"}
  BY DEF Earlier
<1>3. ASSUME Cli \/ Stop \/ Start PROVE SaidTyped'
  <2>1. ASSUME NEW e, NEW then, Emit(e, then) PROVE SaidTyped'
    BY <1>2, <2>1 DEF Emit, SaidTyped
  <2>2. CASE WriteRecord
    BY <1>1, <2>2 DEF WriteRecord, SaidTyped
  <2>3. CASE CliExits \/ Stop \/ Start
    BY <1>1, <2>3 DEF CliExits, Stop, Start, SaidTyped
  <2> QED BY <1>3, <2>1, <2>2, <2>3
          DEF Cli, BeginCycle, CountDeltas, Repeat, PrintText, BeginCopy, FinishCopy,
              EndTask, EndCycle
<1>4. ASSUME Stdout PROVE SaidTyped'
  BY <1>1, <1>4 DEF Stdout, ReadEvent, AskState, WriteState, WritePending, ReadPending,
     WriteTransfer, WriteLastSynced, Record, Handled, cliVars, SaidTyped
<1>5. ASSUME ReadRecord \/ Supervisor PROVE SaidTyped'
  BY <1>1, <1>2, <1>5 DEF Supervisor, ReadRecord, AbortStdout, AbortStderr, JoinMonitors,
     DiagnoseExit, cliVars, SaidTyped
<1> QED BY <1>3, <1>4, <1>5 DEF Next, Monitors

LEMMA ReadKept ==
  ASSUME Parts, ReadEvent, SaidTyped'
  PROVE  Parts'
<1>0. /\ TypeOK /\ WatchCurrent /\ InOrder(ops) /\ SyncedWaits /\ ExitAwaits /\ BoundsKept
      /\ CountFollows /\ HistoryFollows /\ CyclesFollow
  BY DEF Parts
<1>1. /\ ops = <<>> /\ out # <<>> /\ ops' = Ops(Head(out)) /\ out' = Tail(out)
      /\ UNCHANGED <<appVars, recorded, read, network, exit,
                     err, phase, todo, failed, ended, said, cycles, records, starts>>
  BY DEF ReadEvent
<1>2. /\ out \in Seq(Events) /\ out' \in Seq(Events) /\ Len(out') <= PipeSize
      /\ Head(out) \in Events
  BY <1>0, <1>1, BoundsAreNumbers DEF TypeOK, Bounds
<1>3. ops' \in Seq(Operations) /\ Len(ops') <= 6 /\ InOrder(ops')
  BY <1>1, <1>2, Handlers DEF Handles
<1>4. TypeOK'
  BY <1>0, <1>1, <1>2, <1>3 DEF TypeOK, SaidTyped, appVars
<1>5. CountFollows' /\ HistoryFollows' /\ CyclesFollow'
  BY <1>0, CountRead, HistoryRead, CyclesRead
<1>6. WatchCurrent' /\ SyncedWaits' /\ ExitAwaits' /\ BoundsKept'
  BY <1>0, <1>1 DEF WatchCurrent, Snapshot, SyncedWaits, OutHandled, ExitAwaits,
       BoundsKept, appVars
<1> QED BY <1>3, <1>4, <1>5, <1>6 DEF Parts

LEMMA CallKept ==
  ASSUME Parts, CallActions, SaidTyped'
  PROVE  Parts'
<1>0. /\ TypeOK /\ WatchCurrent /\ InOrder(ops) /\ SyncedWaits /\ ExitAwaits /\ BoundsKept
      /\ CountFollows /\ HistoryFollows /\ CyclesFollow
  BY DEF Parts
<1>1. /\ ops # <<>> /\ ops' = Tail(ops) /\ CountCall
      /\ recorded' = recorded + One(Head(ops).call = "record")
      /\ cyclesSynced' = cyclesSynced + One(Head(ops).call = "lastSynced")
      /\ UNCHANGED <<network, exit, out, err, phase, todo, failed, ended, cycles,
                     records, starts>>
      /\ syncState' \in SyncStates /\ pending' \in 0..MaxTasks /\ current' \in BOOLEAN
      /\ read' \in 0..MaxTasks /\ WatchCurrent'
  BY <1>0, CallsAnswered
<1>2. InOrder(ops') /\ ops' \in Seq(Operations) /\ Len(ops') <= 6
  BY <1>0, <1>1, Called
<1>3. CountFollows'
  BY <1>0, <1>1, CountCalled
<1>4. HistoryFollows'
  BY <1>0, <1>1, HistoryCalled
<1>5. CyclesFollow'
  BY <1>0, <1>1, CyclesCalled
<1>6. recorded' \in Nat /\ cyclesSynced' \in Nat /\ out' \in Seq(Events)
      /\ cycles' \in 0..MaxCycles
  <2>1. recorded \in Nat /\ cyclesSynced \in Nat
    BY <1>0, BoundsAreNumbers DEF TypeOK, Bounds
  <2>2. One(Head(ops).call = "record") \in Nat /\ One(Head(ops).call = "lastSynced") \in Nat
    BY DEF One
  <2>3. recorded' \in Nat
    BY <1>1, <2>1, <2>2
  <2>4. cyclesSynced' \in Nat
    BY <1>1, <2>1, <2>2
  <2>5. out' \in Seq(Events) /\ cycles' \in 0..MaxCycles
    BY <1>0, <1>1 DEF TypeOK
  <2> QED BY <2>3, <2>4, <2>5
<1>7. recorded' \in 0..MaxTasks /\ cyclesSynced' \in 0..MaxCycles
  BY <1>4, <1>5, <1>6, RecordedBounded, CyclesBounded
<1>8. TypeOK'
  BY <1>0, <1>1, <1>2, <1>7 DEF TypeOK, SaidTyped
<1>9. SyncedWaits'
  BY <1>0, SyncedCalled
<1>10. ExitAwaits' /\ BoundsKept'
  BY <1>0, <1>1 DEF ExitAwaits, BoundsKept
<1> QED BY <1>1, <1>2, <1>3, <1>4, <1>5, <1>8, <1>9, <1>10 DEF Parts

LEMMA UnlessKept ==
  ASSUME Parts, AskState, SaidTyped'
  PROVE  Parts'
<1>0. /\ TypeOK /\ WatchCurrent /\ InOrder(ops) /\ SyncedWaits /\ ExitAwaits /\ BoundsKept
      /\ CountFollows /\ HistoryFollows /\ CyclesFollow
  BY DEF Parts
<1>1. /\ ops # <<>> /\ Head(ops).call = "unless"
      /\ ops' = IF syncState \in Head(ops).states THEN <<>> ELSE Tail(ops)
      /\ UNCHANGED <<appVars, recorded, read, network, exit, cliVars>>
      /\ UNCHANGED <<out, err, phase, todo, failed, ended, cycles, records, starts>>
      /\ UNCHANGED <<syncState, pending, current, cyclesSynced, watch>>
  BY DEF AskState, Calls, cliVars, appVars
<1>2. ~(syncState = "Synced" /\ pending > 0)
  BY <1>0, <1>1 DEF SyncedWaits, OutHandled, Pending, State
<1>3. WatchCurrent' /\ SyncedWaits' /\ ExitAwaits' /\ BoundsKept'
  BY <1>0, <1>1, <1>2 DEF WatchCurrent, Snapshot, SyncedWaits, OutHandled, ExitAwaits, BoundsKept
<1>4. InOrder(ops') /\ ops' \in Seq(Operations) /\ Len(ops') <= 6
  <2>1. CASE ops' = <<>>
    BY <2>1, NoCalls
  <2>2. CASE ops' = Tail(ops)
    BY <1>0, <1>1, <2>2, Called
  <2> QED BY <1>1, <2>1, <2>2
<1>5. TypeOK'
  BY <1>0, <1>1, <1>4 DEF TypeOK, SaidTyped
<1>6. CountFollows' /\ HistoryFollows' /\ CyclesFollow'
  <2>1. CASE syncState \in Head(ops).states
    <3>1. /\ \A name \in {"record", "readPending", "writePending", "lastSynced"} :
               ~Makes(name, ops)
          /\ \A count : CountIs(count) => count[0] = pending
      BY <1>0, <1>1, <2>1, UnlessSkips
    <3>2. ops' = <<>> /\ ~Makes("record", ops') /\ ~Makes("lastSynced", ops')
      BY <1>1, <2>1, NoCalls
    <3>3. CountFollows'
      BY <1>0, <1>1, <3>1, <3>2, CountDropped
    <3>4. HistoryFollows' /\ CyclesFollow'
      BY <1>0, <1>1, <3>1, <3>2, HistoryQuiet, CyclesQuiet
    <3> QED BY <3>3, <3>4
  <2>2. CASE syncState \notin Head(ops).states
    <3>1. ops' = Tail(ops)
      BY <1>1, <2>2
    <3>2. CountCall
      BY <1>1 DEF CountCall
    <3>3. CountFollows'
      BY <1>0, <1>1, <3>1, <3>2, CountCalled
    <3>4. /\ Makes("record", ops') <=> Makes("record", ops)
          /\ Makes("lastSynced", ops') <=> Makes("lastSynced", ops)
      BY <1>0, <1>1, <3>1, Called
    <3>5. HistoryFollows' /\ CyclesFollow'
      BY <1>0, <1>1, <3>4, HistoryQuiet, CyclesQuiet
    <3> QED BY <3>3, <3>5
  <2> QED BY <2>1, <2>2
<1> QED BY <1>3, <1>4, <1>5, <1>6 DEF Parts

LEMMA PrintKept ==
  ASSUME Parts, NEW e \in Events, Printed(e), SaidTyped'
  PROVE  Parts'
<1>0. /\ TypeOK /\ WatchCurrent /\ InOrder(ops) /\ SyncedWaits /\ ExitAwaits /\ BoundsKept
      /\ CountFollows /\ HistoryFollows /\ CyclesFollow
  BY DEF Parts
<1>1. /\ phase # "off" /\ Len(out) < PipeSize /\ out' = Append(out, e)
      /\ UNCHANGED <<syncState, pending, current, cyclesSynced, watch, recorded, ops, read,
                     network, exit, err, records, starts>>
  BY DEF Printed, appVars, monitorVars
<1>2. /\ phase' \in Phases \ {"off"}
      /\ todo' \in Nat /\ failed' \in 0..ended' /\ ended' \in Nat /\ todo' + ended' <= MaxTasks
      /\ cycles' \in 0..MaxCycles /\ cycles' >= cycles
  BY DEF Printed
<1>3. todo' \in 0..MaxTasks /\ failed' \in 0..MaxTasks /\ ended' \in 0..MaxTasks
      /\ failed' <= ended'
  <2>1. \A t, f, d : t \in Nat /\ f \in 0..d /\ d \in Nat /\ t + d <= MaxTasks =>
          t \in 0..MaxTasks /\ f \in 0..MaxTasks /\ d \in 0..MaxTasks /\ f <= d
    BY BoundsAreNumbers DEF Bounds
  <2>2. /\ todo' \in Nat /\ failed' \in 0..ended' /\ ended' \in Nat /\ todo' + ended' <= MaxTasks
    BY <1>2
  <2> QED BY <2>1, <2>2
<1>4. out' \in Seq(Events) /\ Len(out') <= PipeSize
  <2>1. out \in Seq(Events) /\ PipeSize \in Nat
    BY <1>0, BoundsAreNumbers DEF TypeOK, Bounds
  <2> QED BY <1>1, <2>1
<1>5. TypeOK'
  BY <1>0, <1>1, <1>2, <1>3, <1>4 DEF TypeOK, SaidTyped
<1>6. WatchCurrent' /\ InOrder(ops') /\ SyncedWaits' /\ ExitAwaits' /\ BoundsKept'
  BY <1>0, <1>1, <1>2, <1>3
     DEF WatchCurrent, Snapshot, SyncedWaits, OutHandled, ExitAwaits, BoundsKept, TypeOK
<1>7. CountFollows'
  <2>1. \A n \in 0..MaxTasks :
          /\ phase \in {"tasks", "copying", "copied"} => n = todo + failed
          /\ phase' \in {"tasks", "copying", "copied"}
          => CountAfter(e, n) = todo' + failed'
    BY DEF Printed
  <2> QED BY <1>0, <1>1, <2>1, CountEmitted
<1>8. HistoryFollows'
  <2>1. ended' = ended + One(Done(e))
    BY DEF Printed
  <2> QED BY <1>0, <1>1, <1>3, <2>1, HistoryEmitted
<1>9. CyclesFollow'
  <2>1. One(e.type = "cycleSuccess") + One(phase' \notin {"off", "idle"})
          <= One(phase \notin {"off", "idle"}) + (cycles' - cycles)
    BY DEF Printed
  <2>2. cycles' \in Nat
    BY <1>2, BoundsAreNumbers DEF Bounds
  <2> QED BY <1>0, <1>1, <1>2, <2>1, <2>2, CyclesEmitted
<1> QED BY <1>5, <1>6, <1>7, <1>8, <1>9 DEF Parts

\* The steps that neither read nor print an event, nor make a call.
OtherSteps == ReadRecord \/ AbortStderr \/ JoinMonitors \/ DiagnoseExit \/ WriteRecord
              \/ CliExits \/ Start

LEMMA OtherwiseQuiet ==
  ASSUME Parts, OtherSteps
  PROVE  /\ UNCHANGED <<pending, current, cyclesSynced, recorded, ops, read, out, ended, cycles>>
         /\ \/ UNCHANGED <<phase, todo, failed>>
            \/ /\ phase' \in {"off", "idle"} /\ phase' \in Phases
               /\ todo' \in {0, todo} /\ failed' \in {0, failed}
         /\ syncState' \in SyncStates /\ network' \in BOOLEAN
         /\ syncState' = "Synced" => syncState = "Synced" /\ (exit # "none" => exit' # "none")
         /\ WatchCurrent'
<1>0. WatchCurrent /\ TypeOK
  BY DEF Parts
<1>s. {"Offline", "Error", "Scanning"} \subseteq SyncStates
  BY DEF SyncStates
<1>p. "off" \in Phases /\ "idle" \in Phases
  BY DEF Phases
<1>1. CASE ReadRecord
  <2>1. UNCHANGED <<recorded, ops, read, exit, out, ended, cycles, phase, todo, failed>>
    BY <1>1 DEF ReadRecord
  <2>2. \/ SetSyncState("Offline") /\ network' = TRUE
        \/ SetSyncState("Error") /\ UNCHANGED network
        \/ UNCHANGED <<appVars, network>>
    BY <1>1 DEF ReadRecord
  <2> QED BY <1>0, <1>s, <2>1, <2>2, SettersPublish DEF SetSyncState, appVars, TypeOK
<1>a. CASE AbortStderr
  BY <1>0, <1>a, SettersPublish DEF AbortStderr, appVars, monitorVars, TypeOK
<1>2. CASE JoinMonitors
  BY <1>0, <1>2, SettersPublish DEF JoinMonitors, appVars, cliVars, TypeOK
<1>3. CASE DiagnoseExit
  <2>1. UNCHANGED <<recorded, ops, read, network, cliVars>> /\ exit' = "reported"
    BY <1>3 DEF DiagnoseExit
  <2>2. PICK x \in {"Offline", "Error"} : SetSyncState(x)
    BY <1>3 DEF DiagnoseExit
  <2> QED BY <1>0, <1>s, <2>1, <2>2, SettersPublish DEF SetSyncState, cliVars, TypeOK
<1>4. CASE WriteRecord
  BY <1>0, <1>4, SettersPublish DEF WriteRecord, appVars, monitorVars, TypeOK
<1>5. CASE CliExits
  BY <1>0, <1>5, <1>p, SettersPublish DEF CliExits, appVars, TypeOK
<1>6. CASE Start
  <2>1. UNCHANGED <<recorded, ops, read, out, ended, cycles>>
        /\ phase' = "idle" /\ todo' = 0 /\ failed' = 0 /\ network' = FALSE
    BY <1>6 DEF Start
  <2>2. SetSyncState("Scanning")
    BY <1>6 DEF Start
  <2> QED BY <1>0, <1>s, <1>p, <2>1, <2>2, SettersPublish DEF SetSyncState
<1> QED BY <1>1, <1>a, <1>2, <1>3, <1>4, <1>5, <1>6 DEF OtherSteps

LEMMA OtherTypes ==
  ASSUME TypeOK, BoundsKept, OtherSteps
  PROVE  /\ err' \in Seq({"network", "error", "other"}) /\ Len(err') <= records'
         /\ records' \in 0..MaxTrouble /\ Len(err') <= MaxTrouble
         /\ starts' \in 1..(MaxTrouble + 1)
         /\ exit' \in {"none", "exited", "joined", "reported"}
<1>0. /\ err \in Seq({"network", "error", "other"}) /\ Len(err) <= records /\ Len(err) \in Nat
      /\ records \in 0..MaxTrouble /\ starts \in 1..(MaxTrouble + 1) /\ MaxTrouble \in Nat
      /\ records \in Nat /\ starts \in Nat /\ Len(err) <= MaxTrouble
      /\ exit \in {"none", "exited", "joined", "reported"}
  BY BoundsAreNumbers DEF TypeOK, BoundsKept, Bounds
<1>1. CASE ReadRecord
  <2>1. err # <<>> /\ err' = Tail(err) /\ UNCHANGED <<exit, records, starts>>
    BY <1>1 DEF ReadRecord
  <2>2. err' \in Seq({"network", "error", "other"}) /\ Len(err') = Len(err) - 1
    BY <1>0, <2>1
  <2> QED BY <1>0, <2>1, <2>2
<1>a. CASE AbortStderr
  <2>1. err' = <<>> /\ UNCHANGED <<exit, records, starts>>
    BY <1>a DEF AbortStderr, monitorVars
  <2>2. err' \in Seq({"network", "error", "other"}) /\ Len(err') = 0
    BY <2>1
  <2> QED BY <1>0, <2>1, <2>2
<1>2. CASE JoinMonitors
  BY <1>0, <1>2 DEF JoinMonitors, cliVars
<1>3. CASE DiagnoseExit
  BY <1>0, <1>3 DEF DiagnoseExit, cliVars
<1>4. CASE WriteRecord
  <2>1. PICK record \in {"network", "error", "other"} : err' = Append(err, record)
    BY <1>4 DEF WriteRecord
  <2>2. /\ records + starts <= MaxTrouble /\ records' = records + 1
        /\ UNCHANGED <<exit, starts>>
    BY <1>4 DEF WriteRecord, monitorVars
  <2>3. err' \in Seq({"network", "error", "other"}) /\ Len(err') = Len(err) + 1
    BY <1>0, <2>1
  <2>4. records' \in 0..MaxTrouble /\ Len(err') <= records'
    BY <1>0, <2>2, <2>3
  <2> QED BY <1>0, <2>2, <2>3, <2>4
<1>5. CASE CliExits
  BY <1>0, <1>5 DEF CliExits
<1>6. CASE Start
  <2>1. /\ records + starts <= MaxTrouble /\ starts' = starts + 1 /\ exit' = "none"
        /\ UNCHANGED <<err, records>>
    BY <1>6 DEF Start
  <2> QED BY <1>0, <2>1
<1> QED BY <1>1, <1>a, <1>2, <1>3, <1>4, <1>5, <1>6 DEF OtherSteps

LEMMA OtherExits ==
  ASSUME ExitAwaits, OtherSteps
  PROVE  ExitAwaits'
<1>1. CASE ReadRecord
  BY <1>1 DEF ReadRecord, ExitAwaits
<1>a. CASE AbortStderr
  BY <1>a DEF AbortStderr, monitorVars, ExitAwaits
<1>2. CASE JoinMonitors
  BY <1>2 DEF JoinMonitors, cliVars, ExitAwaits
<1>3. CASE DiagnoseExit
  BY <1>3 DEF DiagnoseExit, cliVars, ExitAwaits
<1>4. CASE WriteRecord
  BY <1>4 DEF WriteRecord, monitorVars, ExitAwaits
<1>5. CASE CliExits
  BY <1>5 DEF CliExits, ExitAwaits
<1>6. CASE Start
  BY <1>6 DEF Start, ExitAwaits
<1> QED BY <1>1, <1>a, <1>2, <1>3, <1>4, <1>5, <1>6 DEF OtherSteps

LEMMA OthersKept ==
  ASSUME Parts, OtherSteps, SaidTyped'
  PROVE  Parts'
<1>0. /\ TypeOK /\ WatchCurrent /\ InOrder(ops) /\ SyncedWaits /\ ExitAwaits /\ BoundsKept
      /\ CountFollows /\ HistoryFollows /\ CyclesFollow
  BY DEF Parts
<1>1. /\ UNCHANGED <<pending, current, cyclesSynced, recorded, ops, read, out, ended, cycles>>
      /\ \/ UNCHANGED <<phase, todo, failed>>
         \/ /\ phase' \in {"off", "idle"} /\ phase' \in Phases
            /\ todo' \in {0, todo} /\ failed' \in {0, failed}
      /\ syncState' \in SyncStates /\ network' \in BOOLEAN
      /\ syncState' = "Synced" => syncState = "Synced" /\ (exit # "none" => exit' # "none")
      /\ WatchCurrent'
  BY OtherwiseQuiet
<1>2. /\ err' \in Seq({"network", "error", "other"}) /\ Len(err') <= records'
      /\ records' \in 0..MaxTrouble /\ Len(err') <= MaxTrouble
      /\ starts' \in 1..(MaxTrouble + 1)
      /\ exit' \in {"none", "exited", "joined", "reported"}
  BY <1>0, OtherTypes
<1>3. phase' \in Phases /\ todo' \in {0, todo} /\ failed' \in {0, failed}
  BY <1>0, <1>1 DEF TypeOK
<1>4. /\ todo' \in 0..MaxTasks /\ failed' \in 0..MaxTasks
      /\ todo' + ended' <= MaxTasks /\ failed' <= ended'
  <2>1. /\ todo \in Nat /\ failed \in Nat /\ ended \in Nat /\ todo + ended <= MaxTasks
        /\ failed <= ended /\ MaxTasks \in Nat /\ ended' = ended
    BY <1>0, <1>1, Amounts DEF Bounds
  <2>2. todo' \in Nat /\ todo' <= todo
    BY <1>3, <2>1
  <2>3. failed' \in Nat /\ failed' <= failed
    BY <1>3, <2>1
  <2>4. todo' + ended <= MaxTasks /\ todo' \in 0..MaxTasks
    <3>1. \A t, u, d, m \in Nat : t <= u /\ u + d <= m => t + d <= m /\ t \in 0..m
      OBVIOUS
    <3> QED BY <2>1, <2>2, <3>1
  <2>5. failed' <= ended /\ failed' \in 0..MaxTasks
    <3>1. \A u, f, g, d, m \in Nat : u + d <= m /\ f <= g /\ g <= d => f <= d /\ f \in 0..m
      OBVIOUS
    <3> QED BY <2>1, <2>3, <3>1
  <2>6. ended' = ended
    BY <2>1
  <2> QED BY <2>4, <2>5, <2>6
<1>5. TypeOK'
  BY <1>0, <1>1, <1>2, <1>3, <1>4 DEF TypeOK, SaidTyped
<1>6. InOrder(ops') /\ SyncedWaits' /\ BoundsKept'
  BY <1>0, <1>1, <1>2, <1>4 DEF SyncedWaits, OutHandled, BoundsKept
<1>7. ExitAwaits'
  BY <1>0, OtherExits
<1>8. CountFollows'
  BY <1>0, <1>1, CountQuiet
<1>9. HistoryFollows'
  BY <1>0, <1>1, HistoryQuiet
<1>10. CyclesFollow'
  BY <1>0, <1>1, CyclesQuiet
<1> QED BY <1>1, <1>5, <1>6, <1>7, <1>8, <1>9, <1>10 DEF Parts

\* Stopping loses what was not handled, and the tasks it told of.
LEMMA StopKept ==
  ASSUME Parts, Stop, SaidTyped'
  PROVE  Parts'
<1>0. /\ TypeOK /\ WatchCurrent /\ InOrder(ops) /\ SyncedWaits /\ ExitAwaits /\ BoundsKept
      /\ CountFollows /\ HistoryFollows /\ CyclesFollow
  BY DEF Parts
<1>1. /\ phase' = "off" /\ exit' = "reported" /\ SetSyncState("Paused")
      /\ out' = <<>> /\ err' = <<>> /\ ops' = <<>> /\ todo' = 0 /\ failed' = 0
      /\ ended' = recorded
      /\ UNCHANGED <<recorded, read, network, cycles, records, starts>>
  BY DEF Stop
<1>2. syncState' = "Paused" /\ UNCHANGED <<pending, current, cyclesSynced>>
  BY <1>1 DEF SetSyncState
<1>3. /\ out' \in Seq(Events) /\ Len(out') = 0
      /\ err' \in Seq({"network", "error", "other"}) /\ Len(err') = 0
  BY <1>1
<1>4. ops' \in Seq(Operations) /\ Len(ops') <= 6 /\ InOrder(ops')
  BY <1>1, NoCalls
<1>5. "Paused" \in SyncStates /\ "off" \in Phases
  BY DEF SyncStates, Phases
<1>6. /\ recorded \in 0..MaxTasks /\ records \in 0..MaxTrouble /\ Bounds
      /\ 0 \in 0..MaxTasks /\ 0 + recorded <= MaxTasks /\ 0 <= recorded /\ 0 <= records
      /\ 0 <= PipeSize /\ 0 <= MaxTrouble
  BY <1>0, BoundsAreNumbers DEF TypeOK, Bounds
<1>7. TypeOK'
  BY <1>0, <1>1, <1>2, <1>3, <1>4, <1>5, <1>6 DEF TypeOK, SaidTyped
<1>8. WatchCurrent'
  BY <1>0, <1>1, SettersPublish
<1>9. SyncedWaits' /\ ExitAwaits' /\ BoundsKept'
  BY <1>1, <1>2, <1>3, <1>6 DEF SyncedWaits, ExitAwaits, BoundsKept
<1>10. CountFollows'
  <2>1. pending' \in 0..MaxTasks
    BY <1>0, <1>2 DEF TypeOK
  <2> QED BY <1>0, <1>1, <2>1, CountStopped
<1>11. HistoryFollows'
  BY <1>0, <1>1, HistoryStopped
<1>12. CyclesFollow'
  BY <1>0, <1>1, <1>2, CyclesStopped
<1> QED BY <1>4, <1>7, <1>8, <1>9, <1>10, <1>11, <1>12 DEF Parts

\* So does aborting the stdout monitor, but the process has ended by itself.
LEMMA AbortKept ==
  ASSUME Parts, AbortStdout, SaidTyped'
  PROVE  Parts'
<1>0. /\ TypeOK /\ WatchCurrent /\ InOrder(ops) /\ SyncedWaits /\ ExitAwaits /\ BoundsKept
      /\ CountFollows /\ HistoryFollows /\ CyclesFollow
  BY DEF Parts
<1>1. /\ exit = "exited" /\ out' = <<>> /\ ops' = <<>> /\ todo' = 0 /\ failed' = 0
      /\ ended' = recorded
      /\ UNCHANGED <<syncState, pending, current, cyclesSynced, watch, recorded, read,
                     network, exit, err, phase, cycles, records, starts>>
  BY DEF AbortStdout, appVars
<1>2. phase = "off"
  BY <1>0, <1>1 DEF ExitAwaits
<1>3. out' \in Seq(Events) /\ Len(out') = 0
  BY <1>1
<1>4. ops' \in Seq(Operations) /\ Len(ops') <= 6 /\ InOrder(ops')
  BY <1>1, NoCalls
<1>5. /\ recorded \in 0..MaxTasks /\ Bounds
      /\ 0 \in 0..MaxTasks /\ 0 + recorded <= MaxTasks /\ 0 <= recorded /\ 0 <= PipeSize
  BY <1>0, BoundsAreNumbers DEF TypeOK, Bounds
<1>6. TypeOK'
  BY <1>0, <1>1, <1>3, <1>4, <1>5 DEF TypeOK, SaidTyped
<1>7. WatchCurrent' /\ SyncedWaits' /\ ExitAwaits' /\ BoundsKept'
  BY <1>0, <1>1, <1>2, <1>5
     DEF WatchCurrent, Snapshot, SyncedWaits, OutHandled, ExitAwaits, BoundsKept
<1>8. CountFollows'
  <2>1. pending' \in 0..MaxTasks /\ phase' \notin {"tasks", "copying", "copied"}
    BY <1>0, <1>1, <1>2 DEF TypeOK
  <2> QED BY <1>0, <1>1, <2>1, CountStopped
<1>9. HistoryFollows'
  BY <1>0, <1>1, HistoryStopped
<1>10. CyclesFollow'
  BY <1>0, <1>1, <1>2, CyclesStopped
<1> QED BY <1>4, <1>6, <1>7, <1>8, <1>9, <1>10 DEF Parts

LEMMA StepKept ==
  ASSUME Parts, [Next]_vars
  PROVE  Parts'
<1>1. CASE Next
  <2>1. \/ ReadEvent \/ AskState \/ CallActions \/ Emissions \/ OtherSteps \/ Stop
        \/ AbortStdout
    BY <1>1 DEF Next, Monitors, Stdout, Supervisor, Cli, CallActions, Emissions, OtherSteps
  <2>2. SaidTyped'
    BY <1>1, WordsTyped DEF Parts
  <2>3. CASE Emissions
    BY <2>2, <2>3, CliPrints, PrintKept DEF Parts
  <2> QED BY <2>1, <2>2, <2>3, ReadKept, UnlessKept, CallKept, OthersKept, StopKept, AbortKept
<1>2. CASE UNCHANGED vars
  <2>1. UNCHANGED <<syncState, pending, current, cyclesSynced, watch, recorded, ops, read,
                    network, exit, out, err, phase, todo, failed, ended, said, cycles,
                    records, starts>>
    BY <1>2 DEF vars, appVars, monitorVars, cliVars
  <2>2. TypeOK' /\ WatchCurrent' /\ InOrder(ops') /\ SyncedWaits' /\ ExitAwaits' /\ BoundsKept'
    BY <2>1 DEF Parts, TypeOK, WatchCurrent, Snapshot, SyncedWaits, OutHandled,
          ExitAwaits, BoundsKept
  <2>3. CountFollows' /\ HistoryFollows' /\ CyclesFollow'
    BY <2>1, CountQuiet, HistoryQuiet, CyclesQuiet DEF Parts
  <2> QED BY <2>2, <2>3 DEF Parts
<1> QED BY <1>1, <1>2

-----------------------------------------------------------------------------
(* What the parts imply once the output is handled                         *)

LEMMA Consequences ==
  ASSUME Parts
  PROVE  PendingIsWhatRemains /\ SyncedMeansDone /\ RecordedOnce
<1>1. ASSUME OutHandled
      PROVE  /\ phase \in {"tasks", "copying", "copied"} => pending = todo + failed
             /\ recorded = ended
             /\ syncState = "Synced" /\ exit = "none" => pending = 0
  <2>1. out = <<>> /\ ops = <<>> /\ Len(out) = 0
    BY <1>1 DEF OutHandled
  <2>2. PICK count, entries : CountIs(count) /\ HistoryIs(entries)
    BY Witnesses DEF Parts
  <2>3. count[0] = pending
    BY <2>1, <2>2, NoCalls DEF CountIs
  <2>4. phase \in {"tasks", "copying", "copied"} => count[0] = todo + failed
    BY <2>1, <2>2 DEF CountIs
  <2>5. entries[0] = ended
    BY <2>1, <2>2 DEF HistoryIs
  <2>6. recorded \in Nat /\ pending \in Nat
    BY BoundsAreNumbers DEF Parts, TypeOK, Bounds
  <2>7. entries[0] = recorded + One(Makes("record", ops)) /\ One(Makes("record", ops)) = 0
    BY <2>1, <2>2, NoCalls DEF HistoryIs, One
  <2>8. entries[0] = recorded
    BY <2>6, <2>7
  <2>9. syncState = "Synced" /\ exit = "none" => pending = 0
    BY <2>1, <2>6 DEF Parts, SyncedWaits
  <2> QED BY <2>3, <2>4, <2>5, <2>8, <2>9
<1> QED BY <1>1 DEF PendingIsWhatRemains, SyncedMeansDone, RecordedOnce

-----------------------------------------------------------------------------
(* The word on the network and the diagnosis of the exit                   *)

\* The two halves of WordFollows, and what an exit leaves shown.
Silent ==
  /\ syncState # "Offline" /\ ~network
  /\ \A i \in DOMAIN err : err[i] # "network"
  /\ \A i \in DOMAIN out : out[i].type = "cycleError" => ~out[i].network
  /\ \A i \in DOMAIN ops : ops[i].call = "state" => ops[i].state # "Offline"

Final ==
  /\ OutHandled
  /\ \/ \E i \in DOMAIN err : err[i] = "network"
     \/ network /\ syncState = "Offline"
     \/ exit = "reported" /\ syncState = "Paused"

Left == exit = "reported" => syncState \in {"Paused", "Offline", "Error"}

Diagnosis == WordFollows /\ Left

LEMMA Halves ==
  /\ Diagnosis <=> (said = "none" => Silent) /\ (said = "last" => Final) /\ Left
  /\ Diagnosis' <=> (said' = "none" => Silent') /\ (said' = "last" => Final') /\ Left'
  BY DEF Diagnosis, WordFollows, Silent, Final

\* Neither half is about anything but these.
LEMMA WordQuiet ==
  ASSUME Diagnosis, UNCHANGED <<syncState, network, err, out, ops, exit, said>>
  PROVE  Diagnosis'
<1>1. (Silent => Silent') /\ (Final => Final') /\ (Left => Left')
  BY DEF Silent, Final, Left, OutHandled
<1> QED BY <1>1, Halves

\* What the stdout monitor does next comes of what there was.
LEMMA WordHandled ==
  ASSUME TypeOK, ExitAwaits, Diagnosis, Stdout
  PROVE  Diagnosis'
<1>0. /\ UNCHANGED <<network, exit, err, said>> /\ ~OutHandled
      /\ out' = out \/ (ops = <<>> /\ out # <<>> /\ out' = Tail(out) /\ ops' = Ops(Head(out)))
  BY DEF Stdout, ReadEvent, AskState, WriteState, WritePending, ReadPending, WriteTransfer,
         WriteLastSynced, Record, Handled, Calls, OutHandled, cliVars
<1>1. said # "last"
  BY <1>0, Halves DEF Final
<1>2. exit # "reported"
  BY <1>0 DEF ExitAwaits, OutHandled
<1>3. ASSUME Silent PROVE Silent'
  <2>1. CASE ReadEvent
    <3>1. /\ out # <<>> /\ out' = Tail(out) /\ ops' = Ops(Head(out)) /\ UNCHANGED syncState
      BY <2>1 DEF ReadEvent, appVars
    <3>2. /\ Head(out) \in Events /\ Head(out) = out[1] /\ 1 \in DOMAIN out
          /\ \A i \in DOMAIN out' : i + 1 \in DOMAIN out /\ out'[i] = out[i + 1]
      BY <3>1 DEF TypeOK
    <3>3. PICK e \in Events : e = Head(out)
      BY <3>2
    <3>4. e.type = "cycleError" => ~e.network
      BY <1>3, <3>2, <3>3 DEF Silent
    <3>5. \A i \in DOMAIN ops' : ops'[i].call = "state" => ops'[i].state # "Offline"
      BY <3>1, <3>3, <3>4, Handlers DEF Handles
    <3>6. \A i \in DOMAIN out' : out'[i].type = "cycleError" => ~out'[i].network
      BY <1>3, <3>2 DEF Silent
    <3> QED BY <1>0, <1>3, <3>1, <3>5, <3>6 DEF Silent
  <2>2. CASE AskState
    <3>1. /\ ops # <<>> /\ UNCHANGED <<syncState, out>>
          /\ ops' = <<>> \/ ops' = Tail(ops)
      BY <2>2 DEF AskState, Calls, appVars, cliVars
    <3>2. CASE ops' = <<>>
      BY <1>0, <1>3, <3>1, <3>2 DEF Silent
    <3>3. CASE ops' = Tail(ops)
      <4>1. \A i \in DOMAIN ops' : i + 1 \in DOMAIN ops /\ ops'[i] = ops[i + 1]
        BY <3>1, <3>3, TailOfSequence DEF TypeOK
      <4> QED BY <1>0, <1>3, <3>1, <4>1 DEF Silent
    <3> QED BY <3>1, <3>2, <3>3
  <2>3. CASE CallActions
    <3>1. /\ ops # <<>> /\ ops' = Tail(ops) /\ UNCHANGED out
          /\ Head(ops).call # "state" => UNCHANGED syncState
          /\ Head(ops).call = "state" => syncState' = Head(ops).state
      BY <2>3, CallsAnswered
    <3>2. \A i \in DOMAIN ops' : ops'[i].call = "state" => ops'[i].state # "Offline"
      BY <1>3, <3>1, TailOfSequence DEF Silent, TypeOK
    <3>3. syncState' # "Offline"
      BY <1>3, <3>1, TailOfSequence DEF Silent, TypeOK
    <3> QED BY <1>0, <1>3, <3>1, <3>2, <3>3 DEF Silent
  <2> QED BY <2>1, <2>2, <2>3 DEF Stdout, CallActions
<1>4. Left'
  BY <1>0, <1>2 DEF Left
<1> QED BY <1>0, <1>1, <1>3, <1>4, Halves

\* A network record is always shown, another error only if none was.
LEMMA WordRead ==
  ASSUME TypeOK, ExitAwaits, Diagnosis, ReadRecord
  PROVE  Diagnosis'
<1>1. /\ err # <<>> /\ err' = Tail(err) /\ UNCHANGED <<ops, exit, out, said>>
      /\ Head(err) = "network" => syncState' = "Offline" /\ network' = TRUE
      /\ Head(err) = "error" /\ ~network => syncState' = "Error" /\ UNCHANGED network
      /\ Head(err) # "network" /\ (network \/ Head(err) # "error") =>
           UNCHANGED <<syncState, network>>
  BY DEF ReadRecord, SetSyncState, appVars
<1>2. /\ Head(err) = err[1] /\ 1 \in DOMAIN err
      /\ \A i \in DOMAIN err' : i + 1 \in DOMAIN err /\ err'[i] = err[i + 1]
      /\ \A i \in DOMAIN err : i # 1 => i - 1 \in DOMAIN err' /\ err'[i - 1] = err[i]
  <2>1. PICK s \in Seq({"network", "error", "other"}) : s = err /\ s # <<>>
    BY <1>1 DEF TypeOK
  <2>2. /\ Head(s) = s[1] /\ 1 \in DOMAIN s
        /\ \A i \in DOMAIN Tail(s) : i + 1 \in DOMAIN s /\ Tail(s)[i] = s[i + 1]
    BY <2>1
  <2>3. ASSUME NEW i \in DOMAIN s, i # 1 PROVE i - 1 \in DOMAIN Tail(s) /\ Tail(s)[i - 1] = s[i]
    <3>1. Len(s) \in Nat /\ i \in 1..Len(s) /\ Len(Tail(s)) = Len(s) - 1
      BY <2>1, <2>3
    <3>2. i - 1 \in 1..Len(Tail(s)) /\ (i - 1) + 1 = i
      BY <2>3, <3>1
    <3> QED BY <2>1, <2>2, <3>2
  <2> QED BY <1>1, <2>1, <2>2, <2>3
<1>3. exit # "reported"
  BY <1>1 DEF ExitAwaits
<1>4. ASSUME Silent PROVE Silent'
  <2>1. Head(err) # "network" /\ ~network
    BY <1>2, <1>4 DEF Silent
  <2>2. ~network' /\ syncState' # "Offline"
    BY <1>1, <1>4, <2>1 DEF Silent
  <2>3. \A i \in DOMAIN err' : err'[i] # "network"
    BY <1>2, <1>4 DEF Silent
  <2> QED BY <1>1, <1>4, <2>2, <2>3 DEF Silent
<1>5. ASSUME Final PROVE Final'
  <2>1. OutHandled'
    BY <1>1, <1>5 DEF Final, OutHandled
  <2>2. CASE Head(err) = "network"
    BY <1>1, <2>1, <2>2 DEF Final
  <2>3. ASSUME Head(err) # "network", NEW i \in DOMAIN err, err[i] = "network" PROVE Final'
    <3>1. i # 1
      BY <1>2, <2>3
    <3>2. i - 1 \in DOMAIN err' /\ err'[i - 1] = "network"
      BY <1>2, <2>3, <3>1
    <3> QED BY <2>1, <3>2 DEF Final
  <2>4. CASE Head(err) # "network" /\ network /\ syncState = "Offline"
    BY <1>1, <2>1, <2>4 DEF Final
  <2> QED BY <1>3, <1>5, <2>2, <2>3, <2>4 DEF Final
<1>6. Left'
  BY <1>1, <1>3 DEF Left
<1> QED BY <1>1, <1>4, <1>5, <1>6, Halves

\* The supervisor: an abort loses the word or what was printed after it.
LEMMA WordDiagnosed ==
  ASSUME TypeOK, ExitAwaits, Diagnosis, Supervisor
  PROVE  Diagnosis'
<1>1. CASE AbortStdout
  <2>1. /\ exit = "exited" /\ ~OutHandled /\ out' = <<>> /\ ops' = <<>>
        /\ UNCHANGED <<syncState, network, exit, err, said>>
    BY <1>1 DEF AbortStdout, OutHandled, appVars
  <2>2. said # "last"
    BY <2>1, Halves DEF Final
  <2>3. Silent => Silent'
    BY <2>1 DEF Silent
  <2>4. Left'
    BY <2>1 DEF Left
  <2> QED BY <2>1, <2>2, <2>3, <2>4, Halves
<1>2. CASE AbortStderr
  <2>1. /\ exit = "exited" /\ err' = <<>>
        /\ UNCHANGED <<syncState, network, exit, ops, out>>
        /\ said' \in {"none", "earlier"} /\ (said' = "none" => said = "none")
    BY <1>2 DEF AbortStderr, Earlier, appVars, monitorVars
  <2>2. Silent => Silent'
    BY <2>1 DEF Silent
  <2>3. Left'
    BY <2>1 DEF Left
  <2> QED BY <2>1, <2>2, <2>3, Halves
<1>3. CASE JoinMonitors
  <2>1. /\ exit = "exited" /\ exit' = "joined"
        /\ UNCHANGED <<syncState, network, err, ops, out, said>>
    BY <1>3 DEF JoinMonitors, appVars, cliVars
  <2>2. Silent => Silent'
    BY <2>1 DEF Silent
  <2>3. Final => Final'
    BY <2>1 DEF Final, OutHandled
  <2>4. Left'
    BY <2>1 DEF Left
  <2> QED BY <2>1, <2>2, <2>3, <2>4, Halves
<1>4. CASE DiagnoseExit
  <2>1. /\ exit = "joined" /\ exit' = "reported"
        /\ UNCHANGED <<network, err, ops, out, said>>
        /\ syncState = "Offline" => syncState' = "Offline"
        /\ syncState # "Offline" => syncState' = "Error"
    BY <1>4 DEF DiagnoseExit, SetSyncState, cliVars
  <2>2. err = <<>>
    BY <2>1 DEF ExitAwaits
  <2>3. Silent => Silent'
    BY <2>1 DEF Silent
  <2>4. Final => Final'
    BY <2>1, <2>2 DEF Final, OutHandled
  <2>5. Left'
    BY <2>1 DEF Left
  <2> QED BY <2>1, <2>3, <2>4, <2>5, Halves
<1> QED BY <1>1, <1>2, <1>3, <1>4 DEF Supervisor

\* The CLI: what it prints makes its word an earlier one.
LEMMA WordPrinted ==
  ASSUME TypeOK, ExitAwaits, Diagnosis, NEW e, NEW then, Emit(e, then)
  PROVE  Diagnosis'
<1>1. /\ phase # "off" /\ out' = Append(out, e)
      /\ UNCHANGED <<syncState, network, exit, err, ops>>
      /\ said' \in {"none", "earlier"}
      /\ said' = "none" => said = "none" /\ ~(e.type = "cycleError" /\ e.network)
  BY DEF Emit, Earlier, appVars, monitorVars
<1>2. /\ \A i \in DOMAIN out' : i \in DOMAIN out \/ i = Len(out) + 1
      /\ \A i \in DOMAIN out : out'[i] = out[i]
      /\ out'[Len(out) + 1] = e
  BY <1>1 DEF TypeOK
<1>3. ASSUME Silent, said' = "none" PROVE Silent'
  <2>1. ASSUME NEW i \in DOMAIN out', out'[i].type = "cycleError" PROVE ~out'[i].network
    <3>1. CASE i \in DOMAIN out
      <4>1. out'[i] = out[i]
        BY <1>2, <3>1
      <4> QED BY <1>3, <2>1, <3>1, <4>1 DEF Silent
    <3>2. CASE i = Len(out) + 1
      <4>1. out'[i] = e
        BY <1>2, <3>2
      <4> QED BY <1>1, <1>3, <2>1, <4>1
    <3> QED BY <1>2, <3>1, <3>2
  <2> QED BY <1>1, <1>3, <2>1 DEF Silent
<1>4. Left'
  BY <1>1 DEF Left, ExitAwaits
<1> QED BY <1>1, <1>3, <1>4, Halves

LEMMA WordWritten ==
  ASSUME TypeOK, ExitAwaits, Diagnosis, WriteRecord
  PROVE  Diagnosis'
<1>1. PICK record \in {"network", "error", "other"} :
        /\ err' = Append(err, record)
        /\ said' = IF record # "network" THEN said
                   ELSE IF OutHandled THEN "last" ELSE "racing"
  BY DEF WriteRecord
<1>2. phase # "off" /\ UNCHANGED <<syncState, network, exit, ops, out>>
  BY DEF WriteRecord, appVars, monitorVars
<1>3. /\ \A i \in DOMAIN err' : i \in DOMAIN err \/ i = Len(err) + 1
      /\ \A i \in DOMAIN err : i \in DOMAIN err' /\ err'[i] = err[i]
      /\ Len(err) + 1 \in DOMAIN err' /\ err'[Len(err) + 1] = record
  BY <1>1 DEF TypeOK
<1>4. exit # "reported" /\ Left'
  BY <1>2 DEF ExitAwaits, Left
<1>5. CASE record = "network"
  <2>1. said' # "none"
    BY <1>1, <1>5
  <2>2. said' = "last" => OutHandled'
    BY <1>1, <1>2, <1>5 DEF OutHandled
  <2>3. OutHandled' => Final'
    BY <1>3, <1>5 DEF Final
  <2> QED BY <1>4, <2>1, <2>2, <2>3, Halves
<1>6. CASE record # "network"
  <2>1. said' = said
    BY <1>1, <1>6
  <2>2. ASSUME Silent PROVE Silent'
    <3>1. \A i \in DOMAIN err' : err'[i] # "network"
      BY <1>3, <1>6, <2>2 DEF Silent
    <3> QED BY <1>2, <2>2, <3>1 DEF Silent
  <2>3. Final => Final'
    BY <1>2, <1>3 DEF Final, OutHandled
  <2> QED BY <1>4, <2>1, <2>2, <2>3, Halves
<1> QED BY <1>5, <1>6

LEMMA WordKept ==
  ASSUME TypeOK, ExitAwaits, Diagnosis, Next
  PROVE  Diagnosis'
<1>1. CASE CliExits
  <2>1. /\ phase # "off" /\ exit' = "exited"
        /\ UNCHANGED <<syncState, network, err, ops, out, said>>
    BY <1>1 DEF CliExits, appVars
  <2>2. exit # "reported"
    BY <2>1 DEF ExitAwaits
  <2>3. (Silent => Silent') /\ Left'
    BY <2>1 DEF Silent, Left
  <2>4. Final => Final'
    BY <2>1, <2>2 DEF Final, OutHandled
  <2> QED BY <2>1, <2>3, <2>4, Halves
<1>2. CASE Stop
  <2>1. /\ exit' = "reported" /\ syncState' = "Paused" /\ UNCHANGED <<network, said>>
        /\ out' = <<>> /\ err' = <<>> /\ ops' = <<>>
    BY <1>2 DEF Stop, SetSyncState
  <2>2. (Silent => Silent') /\ Final' /\ Left'
    BY <2>1 DEF Silent, Final, OutHandled, Left
  <2> QED BY <2>1, <2>2, Halves
<1>3. CASE Start
  <2>1. /\ exit = "reported" /\ exit' = "none" /\ syncState' = "Scanning"
        /\ network' = FALSE /\ said' = "none" /\ UNCHANGED <<out, err, ops>>
    BY <1>3 DEF Start, SetSyncState
  <2>2. out = <<>> /\ err = <<>> /\ ops = <<>>
    BY <2>1 DEF ExitAwaits
  <2>3. Silent' /\ Left'
    BY <2>1, <2>2 DEF Silent, Left
  <2> QED BY <2>1, <2>3, Halves
<1>4. CASE Emissions
  BY <1>4, WordPrinted
     DEF Emissions, BeginCycle, CountDeltas, Repeat, PrintText, BeginCopy, FinishCopy,
         EndTask, EndCycle
<1> QED BY <1>1, <1>2, <1>3, <1>4, WordHandled, WordRead, WordDiagnosed, WordWritten
        DEF Next, Monitors, Cli, Emissions

LEMMA InvariantAlways == Spec => [](Parts /\ Diagnosis)
<1>1. Init => Parts /\ Diagnosis
  <2>1. Init => Diagnosis
    BY Halves DEF Init, Silent, Left
  <2> QED BY <2>1, StartKept
<1>2. ASSUME Parts /\ Diagnosis, [Next]_vars PROVE (Parts /\ Diagnosis)'
  <2>1. Parts'
    BY <1>2, StepKept
  <2>2. CASE Next
    BY <1>2, <2>1, <2>2, WordKept DEF Parts
  <2>3. CASE UNCHANGED vars
    BY <1>2, <2>1, <2>3, WordQuiet DEF vars, appVars, monitorVars, cliVars
  <2> QED BY <1>2, <2>2, <2>3
<1> QED BY <1>1, <1>2, PTL DEF Spec

\* cli/mod.rs, state.rs: whatever the order in which stdout, stderr, the
\* supervisor and Pause reach AppState, subscribers hold the state, the count
\* is that of the tasks which remain, the history has one entry for each task
\* that ended, and Synced means that none remains.
THEOREM EventsKept == Spec => []EventsInv
<1>1. Parts /\ Diagnosis => EventsInv
  BY Consequences DEF Parts, Diagnosis, EventsInv
<1> QED BY <1>1, InvariantAlways, PTL

LEMMA StateHeld ==
  ASSUME Parts, Next, syncState' # syncState
  PROVE  \/ CallActions /\ Calls("state") /\ ops # <<>>
         \/ /\ ReadRecord /\ err # <<>>
            /\ syncState' = "Offline" \/ (syncState' = "Error" /\ ~network)
         \/ DiagnoseExit /\ exit = "joined"
         \/ Stop /\ exit # "reported" /\ syncState' = "Paused"
         \/ Start /\ exit' = "none" /\ syncState' = "Scanning"
<1>0. TypeOK /\ BoundsKept
  BY DEF Parts
<1>1. ~ReadEvent /\ ~AskState /\ ~AbortStdout /\ ~AbortStderr
      /\ ~JoinMonitors /\ ~WriteRecord /\ ~CliExits
  BY DEF ReadEvent, AskState, AbortStdout, AbortStderr, JoinMonitors, WriteRecord, CliExits, appVars
<1>2. ~Emissions
  <2>1. ASSUME Emissions PROVE FALSE
    <3>1. PICK e \in Events : Printed(e)
      BY <1>0, <2>1, CliPrints
    <3> QED BY <3>1 DEF Printed, appVars
  <2> QED BY <2>1
<1>3. CASE CallActions
  <2>1. ops # <<>> /\ Head(ops).call = "state"
    BY <1>0, <1>3, CallsAnswered
  <2> QED BY <1>3, <2>1 DEF Calls
<1>4. CASE ReadRecord
  BY <1>4 DEF ReadRecord, SetSyncState, appVars
<1>5. CASE DiagnoseExit
  BY <1>5 DEF DiagnoseExit
<1>6. CASE Stop
  BY <1>6 DEF Stop, SetSyncState
<1>7. CASE Start
  BY <1>7 DEF Start, SetSyncState
<1> QED BY <1>1, <1>2, <1>3, <1>4, <1>5, <1>6, <1>7
        DEF Next, Monitors, Stdout, Supervisor, Cli, CallActions, Emissions

\* cli/mod.rs:746-754: what the monitors still had to say about a process
\* does not replace the diagnosis of its exit.
THEOREM NothingReplacesTheDiagnosis == Spec => ExitShown
<1>1. ASSUME Parts /\ Diagnosis, [Next]_vars
      PROVE  [exit = "reported" /\ exit' = "reported" => syncState' = syncState]_vars
  <2>1. CASE Next /\ syncState' # syncState
    <3>1. exit = "reported" => err = <<>> /\ ops = <<>>
      BY <1>1 DEF Parts, ExitAwaits
    <3> QED BY <1>1, <2>1, <3>1, StateHeld
  <2> QED BY <1>1, <2>1
<1> QED BY <1>1, InvariantAlways, PTL DEF Spec, ExitShown

\* cli/mod.rs:756-759: an exit leaves no state of the living CLI shown, and
\* Offline only, and always, when the CLI's word on the network calls for it.
THEOREM TheExitIsDiagnosed == Spec => []ExitDiagnosed
<1>1. ASSUME Parts, Diagnosis PROVE ExitDiagnosed
  <2>1. SUFFICES ASSUME exit = "reported" PROVE ExitDiagnosed
    BY DEF ExitDiagnosed
  <2>2. err = <<>>
    BY <1>1, <2>1 DEF Parts, ExitAwaits
  <2>3. said = "none" => syncState # "Offline"
    BY <1>1, Halves DEF Silent
  <2>4. said = "last" /\ syncState # "Paused" => syncState = "Offline"
    BY <1>1, <2>2, Halves DEF Final
  <2> QED BY <1>1, <2>1, <2>3, <2>4, Halves DEF Left, ExitDiagnosed
<1> QED BY <1>1, InvariantAlways, PTL

=============================================================================
