----------------------- MODULE ActivityHistory_proofs -----------------------
(***************************************************************************)
(* Safety of ActivityHistory for any cap on the entries, any number of ids, *)
(* clears and deaths, and any file that a run of the program may have left. *)
(***************************************************************************)
EXTENDS ActivityHistory, TLAPS

IInv == HistoryInv /\ ClearedStaysCleared

-----------------------------------------------------------------------------
(* Snapshots                                                               *)

LEMMA Bounds == MaxEntries \in Nat /\ MaxEntries > 0 /\ MaxId \in Nat
  BY BoundsAssumption

(* What Whole says, with the types that arithmetic needs.                   *)
LEMMA WholeFacts ==
  ASSUME NEW es, NEW next, NEW gone, Whole(Snapshot(es, next), gone)
  PROVE  /\ es \in Seq(Ids) /\ next \in Ids /\ next \in Nat /\ Len(es) \in Nat
         /\ DOMAIN es = 1 .. Len(es)
         /\ \A i \in 1 .. Len(es) : es[i] \in Nat /\ es[i] + Len(es) + 1 = next + i
         /\ \A id \in Ids : id < next /\ id + MaxEntries >= next => id \in Elems(es) \cup gone
<1>1. es \in Seq(Ids) /\ next \in Ids
  BY DEF Whole, Snapshot, Snapshots
<1>2. \A i \in 1 .. Len(es) : es[i] \in Nat
  <2>1. \A i \in 1 .. Len(es) : es[i] \in Ids
    BY <1>1
  <2>2. Ids \subseteq Nat
    BY DEF Ids
  <2> QED BY <2>1, <2>2
<1>3. \A i \in 1 .. Len(es) : es[i] + Len(es) + 1 = next + i
  BY DEF Whole, Snapshot
<1>4. \A id \in Ids : id < next /\ id + MaxEntries >= next => id \in Elems(es) \cup gone
  BY DEF Whole, Snapshot
<1>5. next \in Nat /\ Len(es) \in Nat /\ DOMAIN es = 1 .. Len(es)
  BY <1>1 DEF Ids
<1> QED BY <1>1, <1>2, <1>3, <1>4, <1>5

LEMMA WholeIntro ==
  ASSUME NEW es \in Seq(Ids), NEW next \in Ids, NEW gone,
         \A i \in 1 .. Len(es) : es[i] + Len(es) + 1 = next + i,
         \A id \in Ids : id < next /\ id + MaxEntries >= next => id \in Elems(es) \cup gone
  PROVE  Whole(Snapshot(es, next), gone)
  BY DEF Whole, Snapshot, Snapshots

LEMMA WholeSnapshot ==
  ASSUME NEW d, NEW gone, Whole(d, gone)
  PROVE  d = Snapshot(d.entries, d.nextId) /\ d \in Snapshots
  BY DEF Whole, Snapshot, Snapshots

LEMMA EmptyWhole ==
  ASSUME NEW es, NEW next, NEW gone, Whole(Snapshot(es, next), gone)
  PROVE  Whole(Snapshot(<<>>, next), gone \cup Elems(es)) /\ Elems(<<>>) = {}
<1>1. Elems(<<>>) = {} /\ <<>> \in Seq(Ids) /\ 1 .. Len(<<>>) = {}
  BY DEF Elems
<1>2. /\ next \in Ids
      /\ \A id \in Ids : id < next /\ id + MaxEntries >= next =>
           id \in Elems(<<>>) \cup (gone \cup Elems(es))
  BY WholeFacts
<1> QED BY <1>1, <1>2, WholeIntro

LEMMA MoreGone ==
  ASSUME NEW d, NEW gone, NEW more, Whole(d, gone)
  PROVE  Whole(d, gone \cup more)
  BY DEF Whole

(* The cap drops the oldest entries, which no snapshot needs.               *)
LEMMA NewestWhole ==
  ASSUME NEW es, NEW next, NEW gone, Whole(Snapshot(es, next), gone)
  PROVE  /\ Whole(Snapshot(Newest(es), next), gone)
         /\ Len(Newest(es)) <= MaxEntries
         /\ Elems(Newest(es)) \subseteq Elems(es)
         /\ Len(es) <= MaxEntries => Newest(es) = es
<1> DEFINE n == Newest(es)
           k == IF Len(es) > MaxEntries THEN Len(es) - MaxEntries ELSE 0
<1>1. es \in Seq(Ids) /\ next \in Ids /\ next \in Nat /\ Len(es) \in Nat
  BY WholeFacts
<1>2. /\ k \in Nat /\ k <= Len(es) /\ Len(es) - k <= MaxEntries
      /\ k = 0 \/ Len(es) - k = MaxEntries
  BY <1>1, Bounds
<1>3. /\ n \in Seq(Ids) /\ Len(n) = Len(es) - k
      /\ \A i \in 1 .. Len(n) : n[i] = es[i + k]
      /\ Len(es) <= MaxEntries => n = es
  <2>1. CASE Len(es) <= MaxEntries
    BY <1>1, <2>1, Bounds DEF Newest
  <2>2. CASE Len(es) > MaxEntries
    <3>1. k + 1 \in 1 .. Len(es) /\ n = SubSeq(es, k + 1, Len(es))
      BY <1>1, <2>2, Bounds DEF Newest
    <3> HIDE DEF k, n
    <3>2. /\ n \in Seq(Ids) /\ Len(n) = Len(es) - (k + 1) + 1
          /\ \A i \in 1 .. Len(n) : n[i] = es[(k + 1) + i - 1]
      BY <1>1, <1>2, <3>1
    <3> QED BY <1>1, <1>2, <2>2, <3>2, Bounds
  <2> QED BY <1>1, <2>1, <2>2, Bounds
<1> HIDE DEF n, k
<1>4. Elems(n) \subseteq Elems(es)
  <2> SUFFICES ASSUME NEW i \in 1 .. Len(n) PROVE n[i] \in Elems(es)
    BY <1>3 DEF Elems
  <2>1. i + k \in 1 .. Len(es)
    BY <1>1, <1>2, <1>3
  <2> QED BY <1>1, <1>3, <2>1 DEF Elems
<1>5. ASSUME NEW i \in 1 .. Len(n) PROVE n[i] + Len(n) + 1 = next + i
  <2>1. i + k \in 1 .. Len(es) /\ n[i] = es[i + k]
    BY <1>1, <1>2, <1>3
  <2>2. es[i + k] + Len(es) + 1 = next + (i + k) /\ es[i + k] \in Nat
    BY <2>1, WholeFacts
  <2>3. i \in Nat /\ n[i] \in Nat /\ n[i] + Len(es) + 1 = next + (i + k)
    BY <2>1, <2>2
  <2>4. n[i] + (Len(es) - k) + 1 = next + i
    BY <1>1, <1>2, <2>3
  <2> QED BY <1>3, <2>4
<1>6. ASSUME NEW id \in Ids, id < next, id + MaxEntries >= next PROVE id \in Elems(n) \cup gone
  <2> SUFFICES ASSUME id \notin gone PROVE id \in Elems(n)
    OBVIOUS
  <2>1. PICK j \in 1 .. Len(es) : es[j] = id
    <3>1. id \in Elems(es) /\ DOMAIN es = 1 .. Len(es)
      BY <1>6, WholeFacts
    <3> QED BY <3>1 DEF Elems
  <2>2. id + Len(es) + 1 = next + j /\ id \in Nat
    BY <2>1, WholeFacts
  <2>3. j - k \in 1 .. Len(n)
    BY <1>1, <1>2, <1>3, <1>6, <2>1, <2>2, Bounds
  <2>4. n[j - k] = id
    <3>1. n[j - k] = es[(j - k) + k] /\ (j - k) + k = j
      BY <1>1, <1>2, <1>3, <2>1, <2>3
    <3> QED BY <2>1, <3>1
  <2> QED BY <1>3, <2>3, <2>4 DEF Elems
<1>7. Whole(Snapshot(n, next), gone)
  BY <1>1, <1>3, <1>5, <1>6, WholeIntro
<1> QED BY <1>1, <1>2, <1>3, <1>4, <1>7 DEF n

(* The entry that is recorded is the next one.                              *)
LEMMA AppendWhole ==
  ASSUME NEW es, NEW next, NEW gone, Whole(Snapshot(es, next), gone), next < MaxId
  PROVE  /\ Whole(Snapshot(Append(es, next), next + 1), gone)
         /\ Elems(Append(es, next)) = Elems(es) \cup {next}
<1> DEFINE more == Append(es, next)
<1>1. es \in Seq(Ids) /\ next \in Ids /\ next + 1 \in Ids /\ next \in Nat /\ Len(es) \in Nat
  BY WholeFacts, Bounds DEF Ids
<1>2. /\ more \in Seq(Ids) /\ Len(more) = Len(es) + 1 /\ more[Len(es) + 1] = next
      /\ \A i \in 1 .. Len(es) : more[i] = es[i]
  BY <1>1
<1> HIDE DEF more
<1>3. Elems(more) = Elems(es) \cup {next}
  <2>1. DOMAIN more = (1 .. Len(es)) \cup {Len(es) + 1} /\ DOMAIN es = 1 .. Len(es)
    BY <1>1, <1>2
  <2> QED BY <1>2, <2>1 DEF Elems
<1>4. ASSUME NEW i \in 1 .. Len(more) PROVE more[i] + Len(more) + 1 = (next + 1) + i
  <2>1. CASE i = Len(es) + 1
    BY <1>1, <1>2, <2>1
  <2>2. CASE i # Len(es) + 1
    <3>1. i \in 1 .. Len(es) /\ more[i] = es[i]
      BY <1>1, <1>2, <2>2
    <3>2. es[i] + Len(es) + 1 = next + i /\ es[i] \in Nat
      BY <3>1, WholeFacts
    <3> QED BY <1>1, <1>2, <3>1, <3>2
  <2> QED BY <2>1, <2>2
<1>5. ASSUME NEW id \in Ids, id < next + 1, id + MaxEntries >= next + 1
      PROVE  id \in Elems(more) \cup gone
  <2>1. id = next \/ (id < next /\ id + MaxEntries >= next)
    BY <1>1, <1>5, Bounds DEF Ids
  <2> QED BY <1>3, <1>5, <2>1, WholeFacts
<1>6. Whole(Snapshot(more, next + 1), gone)
  BY <1>1, <1>2, <1>4, <1>5, WholeIntro
<1> QED BY <1>3, <1>6 DEF more

(* What a whole history in memory promises: the ids are in order, and none of *)
(* the newest is missing.                                                    *)
LEMMA WholePromises ==
  ASSUME Whole(Snapshot(entries, nextId), wiped)
  PROVE  NothingLost /\ IdsInOrder
<1>1. /\ nextId \in Nat /\ Len(entries) \in Nat /\ DOMAIN entries = 1 .. Len(entries)
      /\ \A i \in 1 .. Len(entries) :
           entries[i] \in Nat /\ entries[i] + Len(entries) + 1 = nextId + i
  BY WholeFacts
<1>2. IdsInOrder
  BY <1>1 DEF IdsInOrder
<1>3. NothingLost
  BY WholeFacts DEF NothingLost
<1> QED BY <1>2, <1>3

-----------------------------------------------------------------------------
(* Init                                                                    *)

LEMMA NoneApart ==
  /\ None \notin Tasks /\ None \notin Flushers /\ None \notin Snapshots
  /\ \A f \in Flushers : f \in Tasks /\ f # "clear"
  /\ \A q \in Quitters : q \in Flushers /\ q \in Tasks /\ q # "persist" /\ q # "clear"
  /\ "clear" \in Tasks /\ Flushers \subseteq Tasks
  BY NoneAssumption DEF Tasks, Flushers, Quitters

(* A file that a run of the program left is whole, but for what was cleared. *)
LEMMA InitialWhole ==
  ASSUME NEW d \in InitialDisk, d # None
  PROVE  Whole(d, (1 .. d.nextId - 1) \ Elems(d.entries))
<1>1. PICK n \in Ids, k \in Ids :
        n <= k /\ d = Snapshot([i \in 1 .. k - n |-> n - 1 + i], k)
  BY DiskAssumption
<1> DEFINE es == [i \in 1 .. k - n |-> n - 1 + i]
<1>2. n \in Nat /\ k \in Nat /\ n > 0 /\ k <= MaxId /\ k - n \in Nat
  BY <1>1, Bounds DEF Ids
<1>3. es \in Seq(Ids) /\ Len(es) = k - n
  <2>1. \A i \in 1 .. k - n : n - 1 + i \in Ids
    BY <1>2, Bounds DEF Ids
  <2>2. es \in [1 .. k - n -> Ids]
    BY <2>1
  <2> QED BY <1>2, <2>2
<1>4. ASSUME NEW i \in 1 .. Len(es) PROVE es[i] + Len(es) + 1 = k + i
  BY <1>2, <1>3
<1>5. d.entries = es /\ d.nextId = k /\ d = Snapshot(es, k)
  BY <1>1 DEF Snapshot
<1> HIDE DEF es
<1>6. \A id \in Ids : id < k => id \in Elems(es) \cup ((1 .. k - 1) \ Elems(es))
  BY <1>2, Bounds DEF Ids
<1>7. Whole(Snapshot(es, k), (1 .. k - 1) \ Elems(es))
  BY <1>3, <1>4, <1>6, WholeIntro
<1> QED BY <1>5, <1>7

LEMMA LoadedWhole ==
  ASSUME NEW d, NEW gone, d # None => Whole(d, gone)
  PROVE  LET m == FromPersisted(d) IN
         /\ Whole(Snapshot(m.entries, m.nextId), gone)
         /\ m.entries \in Seq(Ids) /\ Len(m.entries) <= MaxEntries /\ m.nextId \in Ids
         /\ d = None => m.entries = <<>>
         /\ d # None => m.nextId = d.nextId /\ Elems(m.entries) \subseteq Elems(d.entries)
<1> DEFINE m == FromPersisted(d)
<1>1. CASE d = None
  <2>1. m.entries = <<>> /\ m.nextId = 1 /\ Len(<<>>) = 0 /\ <<>> \in Seq(Ids) /\ 1 \in Ids
    BY <1>1, BoundsAssumption DEF FromPersisted, Snapshot, Ids
  <2>2. \A id \in Ids : ~(id < 1)
    BY DEF Ids
  <2>3. Whole(Snapshot(<<>>, 1), gone)
    <3>1. 1 .. Len(<<>>) = {}
      OBVIOUS
    <3> QED BY <2>1, <2>2, <3>1, WholeIntro
  <2> QED BY <1>1, <2>1, <2>3, Bounds
<1>2. CASE d # None
  <2>1. m.entries = Newest(d.entries) /\ m.nextId = d.nextId
    BY <1>2 DEF FromPersisted, Snapshot
  <2>2. Whole(Snapshot(d.entries, d.nextId), gone)
    BY <1>2, WholeSnapshot
  <2> QED BY <1>2, <2>1, <2>2, NewestWhole, WholeFacts
<1> QED BY <1>1, <1>2

LEMMA InitInv == Init => IInv
<1> SUFFICES ASSUME Init PROVE IInv
  OBVIOUS
<1> USE NoneApart
<1>1. disk # None => Whole(disk, wiped)
  BY InitialWhole DEF Init
<1>2. /\ Whole(Snapshot(entries, nextId), wiped)
      /\ entries \in Seq(Ids) /\ Len(entries) <= MaxEntries /\ nextId \in Ids
      /\ disk # None => nextId = disk.nextId
  BY <1>1, LoadedWhole DEF Init
<1>3. disk # None => disk \in Snapshots /\ disk.nextId \in Nat /\ disk.nextId \in Ids
  BY <1>1, WholeSnapshot DEF Snapshots, Ids
<1>4. wiped \subseteq Ids /\ (disk # None => \A id \in wiped : id < disk.nextId)
  BY <1>3, Bounds DEF Init, Ids
<1>5. TypeOK
  BY <1>2, <1>3, <1>4 DEF Init, TypeOK, NothingHeld, Steps
<1>6. SnapshotsWhole
  <2>1. disk # None => disk.nextId <= nextId
    BY <1>2, <1>3
  <2> QED BY <1>1, <1>2, <1>4, <2>1 DEF Init, SnapshotsWhole
<1>7. LockHeld /\ HeldBetween
  BY DEF Init, LockHeld, HeldBetween, Tasks, Flushers
<1>10. OwedKept
  <2>1. nextId <= nextId
    BY <1>2, Bounds DEF Ids
  <2> QED BY <2>1 DEF Init, OwedKept
<1>8. FileRevision
  BY DEF Init, FileRevision, WriteLocked
<1>9. ClearedStaysCleared
  BY DEF Init, ClearedStaysCleared
<1> QED BY <1>2, <1>5, <1>6, <1>7, <1>8, <1>9, <1>10, WholePromises
  DEF IInv, HistoryInv

-----------------------------------------------------------------------------
(* Steps                                                                   *)

\* What is left to show of the invariant after a step: HistoryInv's other two
\* conjuncts follow from it.
Core ==
  /\ TypeOK /\ SnapshotsWhole /\ LockHeld /\ HeldBetween /\ FileRevision /\ OwedKept
  /\ ClearedStaysCleared

LEMMA CoreSuffices == (IInv => Core) /\ (Core => IInv)
  BY WholePromises DEF Core, IInv, HistoryInv, SnapshotsWhole

Inside == {"snapshot", "write", "check", "replace", "commit"}

\* Steps that neither take the lock nor hold it, nor record.
Outside ==
  /\ UNCHANGED <<memory, flushLock, held, stable, owed>>
  /\ \E t \in Tasks, to \in Steps :
       /\ pc' = [pc EXCEPT ![t] = to]
       /\ to # pc[t] => pc[t] \notin Inside /\ to \notin Inside
       /\ to = "exit" => pc[t] = "exit"
  /\ {up', hasChanged', syncing'} \subseteq BOOLEAN /\ recorder' \in {"idle", "notify"}
  /\ owing' \subseteq Quitters
  /\ \A q \in owing' : pc'[q] = "idle"

LEMMA OutsideKeeps == ASSUME Core, Outside PROVE Core'
<1> USE NoneApart DEF memory, stable
<1>1. TypeOK'
  BY DEF Core, Outside, TypeOK
<1>2. SnapshotsWhole' /\ ClearedStaysCleared'
  BY DEF Core, Outside, SnapshotsWhole, ClearedStaysCleared
<1>3. \A t \in Tasks, s \in Inside : pc'[t] = s <=> pc[t] = s
  BY DEF Core, Outside, TypeOK
<1>4. LockHeld'
  BY <1>3 DEF Core, Outside, LockHeld, Inside
<1>5. HeldBetween'
  BY <1>3 DEF Core, Outside, HeldBetween, Inside
<1>6. FileRevision'
  BY <1>3 DEF Core, Outside, FileRevision, WriteLocked, Inside
<1>7. OwedKept'
  <2>1. \A q \in Quitters : pc'[q] = "exit" => pc[q] = "exit"
    BY DEF Core, Outside, TypeOK
  <2> QED BY <1>3, <2>1 DEF Core, Outside, OwedKept, Inside
<1> QED BY <1>1, <1>2, <1>4, <1>5, <1>6, <1>7 DEF Core

LEMMA OutsideSteps ==
  ASSUME Core,
         \/ StartSync \/ NotifyRecord \/ PersistWake \/ PersistDrain
         \/ \E q \in Quitters : StopBeforeFlush(q)
         \/ RequestClear \/ NotifyClear \/ Restart
  PROVE  Outside
<1> USE DEF memory, tasks, stable, ghosts, At, Goto
<1>0. /\ {up, hasChanged, syncing} \subseteq BOOLEAN /\ recorder \in {"idle", "notify"}
      /\ pc \in [Tasks -> Steps]
      /\ owing \subseteq Quitters /\ \A q \in owing : pc[q] = "idle"
  BY DEF Core, TypeOK, OwedKept
<1>1. UNCHANGED pc => \E t \in Tasks, to \in Steps : /\ pc' = [pc EXCEPT ![t] = to]
                                                    /\ to = pc[t]
  <2>1. pc = [pc EXCEPT !["clear"] = pc["clear"]] /\ "clear" \in Tasks /\ pc["clear"] \in Steps
    BY <1>0, NoneApart
  <2> QED BY <2>1
<1>2. CASE StartSync \/ NotifyRecord \/ Restart
  <2>1. /\ UNCHANGED <<pc, memory, flushLock, held, stable, owed>>
        /\ {up', hasChanged', syncing'} \subseteq BOOLEAN /\ recorder' \in {"idle", "notify"}
        /\ owing' \subseteq Quitters /\ \A q \in owing' : pc[q] = "idle"
    BY <1>0, <1>2 DEF StartSync, NotifyRecord, Restart
  <2> QED BY <1>1, <2>1 DEF Outside
<1>3. CASE PersistWake \/ PersistDrain
  <2>1. /\ UNCHANGED <<memory, flushLock, held, stable, owed, owing>>
        /\ {up', hasChanged', syncing'} \subseteq BOOLEAN /\ recorder' \in {"idle", "notify"}
    BY <1>0, <1>3 DEF PersistWake, PersistDrain
  <2>2. PICK to \in {"debounce", "lock"} :
          pc' = [pc EXCEPT !["persist"] = to] /\ pc["persist"] \in {"idle", "debounce"}
    BY <1>3 DEF PersistWake, PersistDrain
  <2>3. "persist" \in Tasks /\ to \in Steps
    BY DEF Tasks, Flushers, Steps
  <2>4. \A q \in owing' : pc'[q] = "idle"
    BY <1>0, <2>1, <2>2, NoneApart
  <2> QED BY <1>0, <2>1, <2>2, <2>3, <2>4 DEF Outside, Inside
<1>4. ASSUME NEW q \in Quitters, StopBeforeFlush(q) PROVE Outside
  <2>1. /\ UNCHANGED <<memory, flushLock, held, stable, owed>>
        /\ {up', hasChanged', syncing'} \subseteq BOOLEAN /\ recorder' \in {"idle", "notify"}
        /\ owing' = {} /\ q \in Tasks /\ pc[q] = "idle" /\ pc' = [pc EXCEPT ![q] = "lock"]
    BY <1>0, <1>4, NoneApart DEF StopBeforeFlush
  <2> QED BY <2>1 DEF Outside, Inside, Steps
<1>6. CASE RequestClear \/ NotifyClear
  <2>1. /\ UNCHANGED <<memory, flushLock, held, stable, owed, owing>>
        /\ {up', hasChanged', syncing'} \subseteq BOOLEAN /\ recorder' \in {"idle", "notify"}
    BY <1>0, <1>6 DEF RequestClear, NotifyClear
  <2>2. PICK to \in {"lock", "idle"} :
          pc' = [pc EXCEPT !["clear"] = to] /\ pc["clear"] \in {"idle", "notify"}
    BY <1>6 DEF RequestClear, NotifyClear
  <2>3. "clear" \in Tasks /\ to \in Steps
    BY DEF Tasks, Steps
  <2>4. \A q \in owing' : pc'[q] = "idle"
    BY <1>0, <2>1, <2>2, NoneApart
  <2> QED BY <1>0, <2>1, <2>2, <2>3, <2>4 DEF Outside, Inside
<1> QED BY <1>2, <1>3, <1>4, <1>6

(* The lock admits one: whoever is inside excludes the others.              *)
LEMMA OneInside ==
  ASSUME LockHeld
  PROVE  /\ \A f, g \in Flushers : /\ pc[f] \in {"snapshot", "write", "check"}
                                   /\ pc[g] \in {"snapshot", "write", "check"}
                                   => f = g
         /\ \A f \in Flushers : pc[f] \in {"snapshot", "write", "check"} =>
              pc["clear"] \notin {"replace", "commit"}
  BY NoneApart DEF LockHeld

LEMMA CoreTypes ==
  ASSUME Core
  PROVE  /\ revision \in Nat /\ diskRev \in Nat /\ nextId \in Nat /\ nextId \in Ids
         /\ entries \in Seq(Ids) /\ pc \in [Tasks -> Steps]
         /\ held \in [Flushers -> [snap : Snapshots \cup {None}, rev : Nat]]
         /\ \A f \in Flushers : held[f].rev \in Nat
         /\ disk # None => disk.nextId \in Nat
         /\ \A f \in Flushers : held[f].snap # None => held[f].snap.nextId \in Nat
         /\ \A id \in wiped : id \in Nat
         /\ confirmed \subseteq wiped /\ wiped \subseteq Ids
         /\ owing \subseteq Quitters /\ owed \in [Quitters -> Ids]
         /\ \A q \in Quitters : owed[q] \in Nat
  BY DEF Core, TypeOK, Snapshots, Ids

LEMMA FlushLockKeeps == ASSUME Core, NEW f \in Flushers, FlushLock(f) PROVE Core'
<1> USE NoneApart, CoreTypes DEF At, Goto, stable, memory
<1>1. TypeOK'
  BY DEF Core, FlushLock, TypeOK, Steps, ghosts
<1>2. SnapshotsWhole' /\ ClearedStaysCleared'
  BY DEF Core, FlushLock, SnapshotsWhole, ClearedStaysCleared
<1>3. LockHeld'
  BY DEF Core, FlushLock, LockHeld
<1>4. HeldBetween'
  BY DEF Core, FlushLock, HeldBetween
<1>5. FileRevision' /\ OwedKept'
  BY DEF Core, FlushLock, FileRevision, OwedKept, WriteLocked, ghosts
<1> QED BY <1>1, <1>2, <1>3, <1>4, <1>5 DEF Core

LEMMA FlushSnapshotKeeps == ASSUME Core, NEW f \in Flushers, FlushSnapshot(f) PROVE Core'
<1> USE NoneApart, CoreTypes DEF At, Goto, stable, memory
<1> DEFINE mine == [snap |-> Snapshot(entries, nextId), rev |-> revision]
<1>0. /\ pc[f] = "snapshot" /\ pc' = [pc EXCEPT ![f] = "write"] /\ ~WriteLocked
      /\ held' = [held EXCEPT ![f] = mine]
      /\ UNCHANGED <<up, memory, hasChanged, syncing, recorder, flushLock, stable, ghosts>>
  BY DEF FlushSnapshot
<1>1. TypeOK'
  <2>1. mine \in [snap : Snapshots \cup {None}, rev : Nat]
    BY DEF Snapshots, Snapshot
  <2>2. held' \in [Flushers -> [snap : Snapshots \cup {None}, rev : Nat]]
    BY <1>0, <2>1
  <2> HIDE DEF mine
  <2> QED BY <1>0, <2>2 DEF Core, TypeOK, Steps, ghosts
<1>2. SnapshotsWhole' /\ ClearedStaysCleared'
  BY <1>0 DEF Core, SnapshotsWhole, ClearedStaysCleared
<1>3. LockHeld'
  BY <1>0 DEF Core, LockHeld
<1>4. HeldBetween'
  <2> SUFFICES ASSUME NEW g \in Flushers, pc'[g] \in {"write", "check"}
               PROVE  /\ g = f /\ pc'[g] # "check"
                      /\ Whole(mine.snap, wiped)
                      /\ confirmed \cap Elems(mine.snap.entries) = {}
                      /\ diskRev <= mine.rev /\ mine.rev <= revision
                      /\ disk # None => disk.nextId <= mine.snap.nextId
                      /\ mine.snap.nextId <= nextId
                      /\ mine.snap = Snapshot(entries, nextId)
    BY <1>0 DEF HeldBetween
  <2>1. g = f
    BY <1>0, OneInside DEF Core
  <2> QED BY <1>0, <2>1 DEF Core, SnapshotsWhole, FileRevision, ClearedStaysCleared, Snapshot
<1>5. FileRevision'
  BY <1>0 DEF Core, FileRevision, WriteLocked
<1>6. OwedKept'
  BY <1>0 DEF Core, OwedKept, ghosts, Snapshot
<1> QED BY <1>1, <1>2, <1>3, <1>4, <1>5, <1>6 DEF Core

LEMMA FlushWriteKeeps == ASSUME Core, NEW f \in Flushers, FlushWrite(f) PROVE Core'
<1> USE NoneApart, CoreTypes DEF At, Goto, memory
<1>0. /\ pc[f] = "write" /\ pc' = [pc EXCEPT ![f] = "check"]
      /\ disk' = held[f].snap /\ diskRev' = held[f].rev /\ failed' = FALSE
      /\ UNCHANGED <<up, memory, hasChanged, syncing, recorder, flushLock, held, confirmed, wiped,
                     ghosts>>
  BY DEF FlushWrite
<1>1. /\ Whole(held[f].snap, wiped) /\ held[f].snap \in Snapshots
      /\ confirmed \cap Elems(held[f].snap.entries) = {}
      /\ held[f].rev <= revision
      /\ disk # None => disk.nextId <= held[f].snap.nextId
      /\ held[f].snap.nextId <= nextId
      /\ held[f].rev = revision => held[f].snap = Snapshot(entries, nextId)
  BY <1>0, WholeSnapshot DEF Core, HeldBetween
<1>2. /\ \A g \in Flushers : pc'[g] \in {"write", "check"} => g = f
      /\ pc["clear"] \notin {"replace", "commit"} /\ pc'["clear"] = pc["clear"]
  BY <1>0, OneInside DEF Core
<1>3. TypeOK'
  BY <1>0, <1>1 DEF Core, TypeOK, Steps, ghosts
<1>4. SnapshotsWhole'
  <2>1. \A id \in wiped : id < held[f].snap.nextId
    BY <1>1 DEF Core, SnapshotsWhole
  <2> QED BY <1>0, <1>1, <2>1 DEF Core, SnapshotsWhole
<1>5. LockHeld'
  BY <1>0 DEF Core, LockHeld
<1>6. HeldBetween'
  BY <1>0, <1>1, <1>2 DEF HeldBetween
<1>7. FileRevision'
  BY <1>0, <1>1, <1>2 DEF FileRevision, WriteLocked
<1>8. OwedKept'
  BY <1>0, <1>1 DEF Core, OwedKept, ghosts
<1>9. ClearedStaysCleared'
  BY <1>0, <1>1 DEF Core, ClearedStaysCleared
<1> QED BY <1>3, <1>4, <1>5, <1>6, <1>7, <1>8, <1>9 DEF Core

(* The end of a flush, whatever it has written.                             *)
LEMMA ReleaseKeeps ==
  ASSUME Core, NEW f \in Flushers, pc[f] \in {"write", "check"},
         NEW to \in {"idle", "exit", "unsaved"}, Release(f, to),
         UNCHANGED <<up, memory, hasChanged, syncing, recorder, confirmed, wiped, ghosts>>,
         \/ UNCHANGED <<disk, diskRev>>
         \/ disk' = held[f].snap /\ diskRev' = held[f].rev,
         failed' \in BOOLEAN,
         to = "exit" => disk' = held[f].snap
  PROVE  Core'
<1> USE NoneApart, CoreTypes DEF memory
<1>0. /\ pc' = [pc EXCEPT ![f] = to]
      /\ flushLock = f /\ flushLock' = None
      /\ held' = [held EXCEPT ![f] = [snap |-> None, rev |-> 0]]
  BY DEF Core, Release, Goto, LockHeld, NothingHeld
<1>1. /\ Whole(held[f].snap, wiped) /\ held[f].snap \in Snapshots
      /\ confirmed \cap Elems(held[f].snap.entries) = {}
      /\ held[f].rev <= revision
      /\ disk # None => disk.nextId <= held[f].snap.nextId
      /\ held[f].snap.nextId <= nextId
  BY <1>0, WholeSnapshot DEF Core, HeldBetween
<1>2. /\ \A g \in Flushers : pc'[g] \notin {"snapshot", "write", "check"}
      /\ pc["clear"] \notin {"replace", "commit"} /\ pc'["clear"] = pc["clear"]
  BY <1>0, OneInside DEF Core
<1>3. TypeOK'
  <2>1. held' \in [Flushers -> [snap : Snapshots \cup {None}, rev : Nat]]
    BY <1>0
  <2> QED BY <1>0, <1>1, <2>1 DEF Core, TypeOK, Steps, ghosts
<1>4. SnapshotsWhole'
  <2>1. \A id \in wiped : id < held[f].snap.nextId
    BY <1>1 DEF Core, SnapshotsWhole
  <2> QED BY <1>0, <1>1, <2>1 DEF Core, SnapshotsWhole
<1>5. LockHeld'
  BY <1>0, <1>2 DEF LockHeld
<1>6. HeldBetween'
  BY <1>2 DEF HeldBetween
<1>7. FileRevision'
  BY <1>0, <1>1, <1>2 DEF Core, FileRevision, WriteLocked
<1>8. OwedKept'
  <2> SUFFICES ASSUME NEW q \in Quitters
               PROVE  /\ q \in owing => pc'[q] = "idle"
                      /\ owed[q] <= nextId
                      /\ pc'[q] = "exit" => disk' # None /\ owed[q] <= disk'.nextId
    BY <1>2 DEF OwedKept, ghosts
  <2>1. owed[q] <= nextId /\ (q \in owing => pc[q] = "idle" /\ q # f)
    BY DEF Core, OwedKept
  <2>2. CASE q = f
    <3>1. owed[f] <= held[f].snap.nextId
      BY <2>2 DEF Core, OwedKept
    <3> QED BY <1>0, <1>1, <2>1, <2>2, <3>1
  <2>3. CASE q # f
    <3>1. pc[q] = "exit" => disk # None /\ owed[q] <= disk.nextId
      BY DEF Core, OwedKept
    <3> QED BY <1>0, <1>1, <2>1, <2>3, <3>1
  <2> QED BY <2>2, <2>3
<1>9. ClearedStaysCleared'
  BY <1>0, <1>1 DEF Core, ClearedStaysCleared
<1> QED BY <1>3, <1>4, <1>5, <1>6, <1>7, <1>8, <1>9 DEF Core

LEMMA FlushEndKeeps ==
  ASSUME Core, NEW f \in Flushers, FlushFails(f) \/ FlushCheck(f)
  PROVE  Core'
<1> USE DEF At, stable, memory
<1>1. CASE FlushFails(f)
  <2>1. AfterFailure(f) \in {"idle", "unsaved"}
    BY DEF AfterFailure
  <2>2. Release(f, AfterFailure(f))
    BY <1>1 DEF FlushFails
  <2>3. PICK to \in {"idle", "unsaved"} : Release(f, to)
    BY <2>1, <2>2
  <2>4. /\ pc[f] \in {"write", "check"} /\ failed' = TRUE
        /\ UNCHANGED <<up, memory, hasChanged, syncing, recorder, confirmed, wiped, ghosts>>
        /\ \/ UNCHANGED <<disk, diskRev>>
           \/ disk' = held[f].snap /\ diskRev' = held[f].rev
    BY <1>1 DEF FlushFails
  <2> QED BY <2>3, <2>4, ReleaseKeeps DEF memory
<1>2. CASE FlushCheck(f) /\ revision = held[f].rev
  <2>1. disk = held[f].snap
    BY <1>2 DEF Core, FlushCheck, HeldBetween
  <2>2. failed \in BOOLEAN
    BY DEF Core, TypeOK
  <2>3. AfterFlush(f) \in {"idle", "exit"} /\ Release(f, AfterFlush(f))
    BY <1>2 DEF AfterFlush, FlushCheck
  <2>4. PICK to \in {"idle", "exit"} : Release(f, to)
    BY <2>3
  <2>5. /\ pc[f] \in {"write", "check"}
        /\ UNCHANGED <<up, memory, hasChanged, syncing, recorder, stable, ghosts>>
    BY <1>2 DEF FlushCheck
  <2> QED BY <2>1, <2>2, <2>4, <2>5, ReleaseKeeps DEF memory
<1>3. CASE FlushCheck(f) /\ revision # held[f].rev
  <2> USE NoneApart, CoreTypes
  <2>0. /\ pc[f] = "check" /\ pc' = [pc EXCEPT ![f] = "snapshot"]
        /\ UNCHANGED <<up, memory, hasChanged, syncing, recorder, flushLock, held, stable, ghosts>>
    BY <1>3 DEF FlushCheck, Goto
  <2>1. TypeOK'
    BY <2>0 DEF Core, TypeOK, Steps, ghosts
  <2>2. SnapshotsWhole' /\ ClearedStaysCleared'
    BY <2>0 DEF Core, SnapshotsWhole, ClearedStaysCleared
  <2>3. LockHeld'
    BY <2>0 DEF Core, LockHeld
  <2>4. HeldBetween'
    BY <2>0 DEF Core, HeldBetween
  <2>5. FileRevision' /\ OwedKept'
    BY <2>0 DEF Core, FileRevision, OwedKept, WriteLocked, ghosts
  <2> QED BY <2>1, <2>2, <2>3, <2>4, <2>5 DEF Core
<1> QED BY <1>1, <1>2, <1>3

LEMMA ClearLockKeeps == ASSUME Core, ClearLock PROVE Core'
<1> USE NoneApart, CoreTypes DEF At, Goto, stable, memory
<1>1. TypeOK'
  BY DEF Core, ClearLock, TypeOK, Steps, ghosts
<1>2. SnapshotsWhole' /\ ClearedStaysCleared'
  BY DEF Core, ClearLock, SnapshotsWhole, ClearedStaysCleared
<1>3. LockHeld'
  BY DEF Core, ClearLock, LockHeld
<1>4. HeldBetween'
  BY DEF Core, ClearLock, HeldBetween
<1>5. FileRevision' /\ OwedKept'
  BY DEF Core, ClearLock, FileRevision, OwedKept, WriteLocked, ghosts
<1> QED BY <1>1, <1>2, <1>3, <1>4, <1>5 DEF Core

(* While the clear holds the lock no flusher does.                          *)
LEMMA ClearInside ==
  ASSUME LockHeld, pc["clear"] \in {"replace", "commit"}
  PROVE  /\ flushLock = "clear"
         /\ \A f \in Flushers : pc[f] \notin {"snapshot", "write", "check"}
  BY NoneApart DEF LockHeld

(* What a wipe leaves in the file and takes note of.                        *)
LEMMA WipeWhole ==
  ASSUME Core, Wipe, UNCHANGED memory
  PROVE  /\ SnapshotsWhole' /\ Elems(disk'.entries) = {}
         /\ disk' \in Snapshots /\ wiped' \subseteq Ids /\ wiped \subseteq wiped'
<1> USE NoneApart, CoreTypes DEF memory
<1>1. Whole(Snapshot(entries, nextId), wiped)
  BY DEF Core, SnapshotsWhole
<1>2. /\ Whole(disk', wiped') /\ disk' \in Snapshots
      /\ disk'.nextId = nextId /\ disk'.entries = <<>>
  BY <1>1, EmptyWhole, WholeSnapshot DEF Wipe, Snapshot
<1>3. Whole(Snapshot(entries, nextId), wiped')
  BY <1>1, MoreGone DEF Wipe
<1>4. \A id \in Elems(entries) : id \in Ids /\ id < nextId
  BY <1>1, WholeFacts DEF Elems
<1>5. \A id \in wiped : id < nextId
  BY DEF Core, SnapshotsWhole
<1>6. \A id \in wiped' : id < nextId
  BY <1>4, <1>5 DEF Wipe
<1>7. SnapshotsWhole'
  BY <1>2, <1>3, <1>6 DEF SnapshotsWhole
<1> QED BY <1>2, <1>4, <1>7, EmptyWhole, <1>1 DEF Wipe

LEMMA ClearReplaceKeeps == ASSUME Core, ClearReplace PROVE Core'
<1> USE NoneApart, CoreTypes DEF memory
<1>0. /\ pc["clear"] = "replace" /\ pc' = [pc EXCEPT !["clear"] = "commit"]
      /\ Wipe /\ diskRev' = revision + 1 /\ failed' = FALSE
      /\ UNCHANGED <<up, memory, hasChanged, syncing, recorder, flushLock, held, confirmed, ghosts>>
  BY DEF ClearReplace, At, Goto
<1>1. /\ SnapshotsWhole' /\ Elems(disk'.entries) = {}
      /\ disk' \in Snapshots /\ wiped' \subseteq Ids /\ wiped \subseteq wiped'
  BY <1>0, WipeWhole
<1>2. \A f \in Flushers : pc'[f] = pc[f] /\ pc[f] \notin {"snapshot", "write", "check"}
  BY <1>0, ClearInside DEF Core
<1>3. TypeOK'
  <2>1. diskRev' \in Nat /\ confirmed' \subseteq wiped' /\ pc' \in [Tasks -> Steps]
    BY <1>0, <1>1 DEF Steps
  <2> QED BY <1>0, <1>1, <2>1 DEF Core, TypeOK, ghosts
<1>4. LockHeld'
  BY <1>0 DEF Core, LockHeld
<1>5. HeldBetween'
  BY <1>2 DEF HeldBetween
<1>6. FileRevision' /\ WriteLocked'
  BY <1>0 DEF FileRevision, WriteLocked, Wipe
<1>7. OwedKept'
  <2>1. disk' # None /\ disk'.nextId = nextId
    BY <1>0, <1>1 DEF Wipe, Snapshot
  <2> QED BY <1>0, <1>2, <2>1 DEF Core, OwedKept, ghosts
<1>8. ClearedStaysCleared'
  BY <1>0, <1>1 DEF Core, ClearedStaysCleared
<1> QED BY <1>1, <1>3, <1>4, <1>5, <1>6, <1>7, <1>8 DEF Core

LEMMA ClearFailsKeeps == ASSUME Core, ClearFails PROVE Core'
<1> USE NoneApart, CoreTypes DEF memory
<1>0. /\ pc["clear"] = "replace" /\ pc' = [pc EXCEPT !["clear"] = "idle"]
      /\ flushLock = "clear" /\ flushLock' = None
      /\ Wipe \/ UNCHANGED <<disk, wiped>>
      /\ failed' = TRUE
      /\ UNCHANGED <<up, memory, hasChanged, syncing, recorder, held, diskRev, confirmed, ghosts>>
  BY ClearInside DEF ClearFails, At, Goto, Core
<1>1. /\ SnapshotsWhole' /\ wiped \subseteq wiped' /\ wiped' \subseteq Ids
      /\ disk' \in Snapshots \cup {None}
      /\ disk' = disk \/ (disk' # None /\ disk'.nextId = nextId)
  <2>1. CASE Wipe
    BY <1>0, <2>1, WipeWhole DEF Wipe, Snapshot
  <2>2. CASE UNCHANGED <<disk, wiped>>
    <3>1. SnapshotsWhole'
      BY <1>0, <2>2 DEF Core, SnapshotsWhole
    <3>2. disk \in Snapshots \cup {None} /\ wiped \subseteq Ids
      BY DEF Core, TypeOK
    <3>3. disk' = disk /\ wiped' = wiped
      BY <2>2
    <3> QED BY <3>1, <3>2, <3>3
  <2> QED BY <1>0, <2>1, <2>2
<1>2. \A f \in Flushers : pc'[f] = pc[f] /\ pc[f] \notin {"snapshot", "write", "check"}
  BY <1>0, ClearInside DEF Core
<1>3. TypeOK'
  BY <1>0, <1>1 DEF Core, TypeOK, Steps, ghosts
<1>4. LockHeld'
  BY <1>0, <1>2 DEF LockHeld
<1>5. HeldBetween'
  BY <1>2 DEF HeldBetween
<1>6. FileRevision'
  BY <1>0 DEF Core, FileRevision, WriteLocked
<1>7. OwedKept'
  BY <1>0, <1>1, <1>2 DEF Core, OwedKept, ghosts
<1>8. ClearedStaysCleared'
  <2>1. CASE Wipe
    BY <1>0, <2>1, WipeWhole DEF Core, ClearedStaysCleared
  <2>2. CASE UNCHANGED <<disk, wiped>>
    BY <1>0, <2>2 DEF Core, ClearedStaysCleared
  <2> QED BY <1>0, <2>1, <2>2
<1> QED BY <1>1, <1>3, <1>4, <1>5, <1>6, <1>7, <1>8 DEF Core

LEMMA ClearCommitKeeps == ASSUME Core, ClearCommit PROVE Core'
<1> USE NoneApart, CoreTypes
<1>0. /\ pc["clear"] = "commit" /\ pc' = [pc EXCEPT !["clear"] = "notify"]
      /\ flushLock = "clear" /\ flushLock' = None
      /\ entries' = <<>> /\ revision' = revision + 1
      /\ confirmed' = confirmed \cup Elems(entries)
      /\ UNCHANGED <<up, nextId, hasChanged, syncing, recorder, held, disk, diskRev, failed, wiped,
                     ghosts>>
  BY ClearInside DEF ClearCommit, At, Goto, Core
<1>1. /\ disk = Snapshot(<<>>, nextId) /\ diskRev = revision + 1 /\ Elems(entries) \subseteq wiped
      /\ disk.entries = <<>> /\ Elems(<<>>) = {}
  BY <1>0 DEF Core, FileRevision, WriteLocked, Snapshot, Elems
<1>2. \A f \in Flushers : pc'[f] = pc[f] /\ pc[f] \notin {"snapshot", "write", "check"}
  BY <1>0, ClearInside DEF Core
<1>3. TypeOK'
  <2>1. <<>> \in Seq(Ids) /\ Len(<<>>) <= MaxEntries
    BY Bounds
  <2> QED BY <1>0, <1>1, <2>1 DEF Core, TypeOK, Steps, ghosts
<1>4. SnapshotsWhole'
  <2>1. disk # None /\ Whole(disk, wiped)
    <3>1. disk # None
      <4>1. Snapshot(<<>>, nextId) \in Snapshots
        BY EmptyWhole, WholeSnapshot DEF Core, SnapshotsWhole
      <4> QED BY <1>1, <4>1
    <3> QED BY <3>1 DEF Core, SnapshotsWhole
  <2> QED BY <1>0, <1>1, <2>1 DEF Core, SnapshotsWhole
<1>5. LockHeld'
  BY <1>0, <1>2 DEF LockHeld
<1>6. HeldBetween'
  BY <1>2 DEF HeldBetween
<1>7. FileRevision'
  BY <1>0, <1>1 DEF FileRevision, WriteLocked
<1>8. OwedKept'
  BY <1>0, <1>2 DEF Core, OwedKept, ghosts
<1>9. ClearedStaysCleared'
  BY <1>0, <1>1 DEF ClearedStaysCleared
<1> QED BY <1>3, <1>4, <1>5, <1>6, <1>7, <1>8, <1>9 DEF Core

LEMMA RecordKeeps == ASSUME Core, Record PROVE Core'
<1> USE NoneApart, CoreTypes
<1>0. /\ syncing /\ recorder' = "notify" /\ ~WriteLocked
      /\ nextId < MaxId /\ nextId' = nextId + 1
      /\ entries' = Newest(Append(entries, nextId)) /\ revision' = revision + 1
      /\ owed' = [q \in Quitters |-> IF q \in owing THEN nextId + 1 ELSE owed[q]]
      /\ UNCHANGED <<up, hasChanged, syncing, pc, flushLock, held, stable, owing>>
  BY DEF Record, Owe
<1>1. /\ Whole(Snapshot(entries', nextId'), wiped) /\ Len(entries') <= MaxEntries
      /\ Elems(entries') \subseteq Elems(entries) \cup {nextId}
  <2>1. /\ Whole(Snapshot(Append(entries, nextId), nextId + 1), wiped)
        /\ Elems(Append(entries, nextId)) = Elems(entries) \cup {nextId}
    BY <1>0, AppendWhole DEF Core, SnapshotsWhole
  <2> QED BY <1>0, <2>1, NewestWhole
<1>2. entries' \in Seq(Ids) /\ nextId' \in Ids
  BY <1>1, WholeFacts
<1>3. TypeOK'
  <2>1. owed' \in [Quitters -> Ids]
    BY <1>0, <1>2
  <2> QED BY <1>0, <1>1, <1>2, <2>1 DEF Core, TypeOK, stable
<1>4. SnapshotsWhole'
  BY <1>0, <1>1 DEF Core, SnapshotsWhole, stable
<1>5. LockHeld'
  BY <1>0 DEF Core, LockHeld
<1>6. HeldBetween'
  <2> SUFFICES ASSUME NEW f \in Flushers, pc[f] \in {"write", "check"}
               PROVE  held[f].rev < revision' /\ held[f].snap.nextId <= nextId'
    BY <1>0 DEF Core, HeldBetween, stable
  <2>1. held[f].snap # None /\ held[f].rev <= revision /\ held[f].snap.nextId <= nextId
    BY WholeSnapshot DEF Core, HeldBetween
  <2> QED BY <1>0, <2>1
<1>7. FileRevision'
  BY <1>0 DEF Core, FileRevision, WriteLocked, stable
<1>8. OwedKept'
  <2> SUFFICES ASSUME NEW q \in Quitters
               PROVE  /\ q \in owing => pc[q] = "idle"
                      /\ owed'[q] <= nextId'
                      /\ pc[q] \in {"write", "check"} => owed'[q] <= held[q].snap.nextId
                      /\ pc[q] = "exit" => disk # None /\ owed'[q] <= disk.nextId
    BY <1>0 DEF OwedKept, stable
  <2>1. /\ q \in owing => pc[q] = "idle"
        /\ owed[q] <= nextId
        /\ pc[q] \in {"write", "check"} => owed[q] <= held[q].snap.nextId
        /\ pc[q] = "exit" => disk # None /\ owed[q] <= disk.nextId
    BY DEF Core, OwedKept
  <2>2. CASE q \in owing
    BY <1>0, <2>1, <2>2
  <2>3. CASE q \notin owing
    BY <1>0, <2>1, <2>3
  <2> QED BY <2>2, <2>3
<1>9. ClearedStaysCleared'
  <2>1. nextId \notin wiped
    BY DEF Core, SnapshotsWhole
  <2> QED BY <1>0, <1>1, <2>1 DEF Core, ClearedStaysCleared, stable
<1> QED BY <1>3, <1>4, <1>5, <1>6, <1>7, <1>8, <1>9 DEF Core

(* Whenever the process ends, the next one can go on from the file.         *)
LEMMA EndsKeeps == ASSUME Core, Ends PROVE Core'
<1> USE NoneApart, CoreTypes
<1> DEFINE m == FromPersisted(disk)
<1>0. /\ up' = FALSE /\ entries' = m.entries /\ nextId' = m.nextId
      /\ revision' = 0 /\ hasChanged' = FALSE /\ diskRev' = 0
      /\ syncing' = FALSE /\ recorder' = "idle"
      /\ pc' = [t \in Tasks |-> "idle"] /\ flushLock' = None /\ held' = NothingHeld
      /\ owing' = {} /\ owed' = [q \in Quitters |-> nextId']
      /\ UNCHANGED <<disk, failed, confirmed, wiped>>
  BY DEF Ends
<1>1. disk # None => Whole(disk, wiped)
  BY DEF Core, SnapshotsWhole
<1>2. /\ Whole(Snapshot(m.entries, m.nextId), wiped)
      /\ m.entries \in Seq(Ids) /\ Len(m.entries) <= MaxEntries /\ m.nextId \in Ids
      /\ disk = None => m.entries = <<>>
      /\ disk # None => m.nextId = disk.nextId /\ Elems(m.entries) \subseteq Elems(disk.entries)
  BY <1>1, LoadedWhole
<1> HIDE DEF m
<1>3. TypeOK'
  <2>1. NothingHeld \in [Flushers -> [snap : Snapshots \cup {None}, rev : Nat]]
    BY DEF NothingHeld
  <2> QED BY <1>0, <1>2, <2>1 DEF Core, TypeOK, Steps
<1>4. SnapshotsWhole'
  BY <1>0, <1>2 DEF Core, SnapshotsWhole
<1>5. LockHeld' /\ HeldBetween'
  BY <1>0 DEF LockHeld, HeldBetween, Flushers, Tasks
<1>8. OwedKept'
  <2>1. nextId' \in Nat
    BY <1>0, <1>2, Bounds DEF Ids
  <2> QED BY <1>0, <2>1 DEF OwedKept
<1>6. FileRevision'
  BY <1>0 DEF FileRevision, WriteLocked
<1>7. ClearedStaysCleared'
  <2>1. CASE disk = None
    BY <1>0, <1>2, <2>1 DEF ClearedStaysCleared, Elems
  <2>2. CASE disk # None
    BY <1>0, <1>2, <2>2 DEF Core, ClearedStaysCleared
  <2> QED BY <2>1, <2>2
<1> QED BY <1>3, <1>4, <1>5, <1>6, <1>7, <1>8 DEF Core

-----------------------------------------------------------------------------

LEMMA CoreKept == ASSUME Core, [Next]_vars PROVE Core'
<1>1. CASE UNCHANGED vars
  BY <1>1
  DEF vars, memory, tasks, stable, ghosts, Core, TypeOK, SnapshotsWhole, LockHeld, HeldBetween,
      FileRevision, WriteLocked, OwedKept, ClearedStaysCleared
<1>2. CASE Next
  BY <1>2, OutsideSteps, OutsideKeeps, FlushLockKeeps, FlushSnapshotKeeps, FlushWriteKeeps,
     FlushEndKeeps, ClearLockKeeps, ClearReplaceKeeps, ClearFailsKeeps, ClearCommitKeeps,
     RecordKeeps, EndsKeeps
  DEF Next, FlushStep, ClearStep, Exit, Die
<1> QED BY <1>1, <1>2

LEMMA Inductive == Spec => []IInv
<1>1. IInv /\ [Next]_vars => IInv'
  <2>1. ASSUME IInv, [Next]_vars PROVE Core'
    BY <2>1, CoreSuffices, CoreKept
  <2>2. Core' => IInv'
    BY CoreSuffices, PTL
  <2> QED BY <2>1, <2>2
<1> QED BY <1>1, InitInv, PTL DEF Spec

(* Over any interleaving of the monitor, the flushes and the clear, and over   *)
(* deaths and restarts: of the newest entries none is lost that was not        *)
(* cleared, the ids are in order, flush_lock excludes, and what a flusher holds *)
(* is between the file and the memory.                                        *)
THEOREM HistoryKept == Spec => []HistoryInv
BY Inductive, PTL DEF IInv

(* A cleared entry never comes back, whatever flush was under way and whatever *)
(* the process died of (clear_and_flush).                                     *)
THEOREM ClearIsFinal == Spec => []ClearedStaysCleared
BY Inductive, PTL DEF IInv

(* The revision on disk only grows while the process lives (activity.rs:178). *)
THEOREM DiskMonotone == Spec => DiskNeverOlder
<1>1. ASSUME Core, [Next]_vars PROVE [up /\ up' => diskRev' >= diskRev]_vars
  <2> SUFFICES ASSUME up, up', diskRev' # diskRev PROVE diskRev' >= diskRev
    BY <1>1, CoreTypes
  <2>1. \/ Ends \/ ClearReplace
        \/ \E f \in Flushers : FlushWrite(f) \/ FlushFails(f)
    BY <1>1
    DEF Next, vars, memory, tasks, stable, Restart, StartSync, Record, NotifyRecord, PersistWake,
        PersistDrain, FlushStep, FlushLock, FlushSnapshot, FlushCheck, StopBeforeFlush, Exit,
        RequestClear, ClearStep, ClearLock, ClearFails, ClearCommit, NotifyClear, Die
  <2>2. CASE Ends
    BY <2>2 DEF Ends
  <2>3. CASE ClearReplace
    BY <1>1, <2>3, CoreTypes DEF Core, ClearReplace, At, FileRevision, WriteLocked
  <2>4. ASSUME NEW f \in Flushers, FlushWrite(f) \/ FlushFails(f) PROVE diskRev' >= diskRev
    BY <1>1, <2>4, CoreTypes DEF Core, FlushWrite, FlushFails, At, HeldBetween
  <2> QED BY <2>1, <2>2, <2>3, <2>4
<1>2. IInv /\ [Next]_vars => [up /\ up' => diskRev' >= diskRev]_vars
  BY <1>1, CoreSuffices
<1> QED BY <1>2, Inductive, PTL DEF Spec, DiskNeverOlder

(* When its flush has succeeded a Quit, or a signal, leaves on disk what was   *)
(* recorded from the CLI it stopped, whatever other tasks write, and whatever  *)
(* CLI starts, before the exit (actions.rs:373-381).                           *)
THEOREM QuitLosesNothing == Spec => []QuitSaves
<1>1. ASSUME Core PROVE QuitSaves
  <2> SUFFICES ASSUME NEW q \in Quitters, pc[q] = "exit"
               PROVE  /\ disk # None
                      /\ \A id \in Ids :
                           id < owed[q] /\ id + MaxEntries >= disk.nextId =>
                             id \in Elems(disk.entries) \cup wiped
    BY DEF QuitSaves
  <2>1. disk # None /\ owed[q] <= disk.nextId /\ Whole(disk, wiped)
    BY <1>1 DEF Core, OwedKept, SnapshotsWhole
  <2>2. disk.nextId \in Nat /\ owed[q] \in Nat
    BY <1>1, <2>1, CoreTypes
  <2>3. ASSUME NEW id \in Ids, id < owed[q], id + MaxEntries >= disk.nextId
        PROVE  id \in Elems(disk.entries) \cup wiped
    <3>1. id < disk.nextId
      BY <2>1, <2>2, <2>3 DEF Ids
    <3> QED BY <2>1, <2>3, <3>1 DEF Whole
  <2> QED BY <2>1, <2>3
<1>2. IInv => QuitSaves
  BY <1>1, CoreSuffices
<1> QED BY <1>2, Inductive, PTL
=============================================================================
