--------------------------- MODULE ActivityHistory ---------------------------
(***************************************************************************)
(* activity.rs: ActivityHistory, with the tasks that use it: the stdout    *)
(* monitor that records, persist_activity_updates, the tray's Quit and the *)
(* signal handler that flush, and the window's clear command.  An entry is *)
(* its id.  The program may die between any two steps and start again.     *)
(***************************************************************************)
EXTENDS Naturals, Sequences, FiniteSets

CONSTANTS
    None,         \* no lock holder; no usable snapshot on disk
    MaxEntries,   \* MAX_ACTIVITY_ENTRIES, 500 in the code
    MaxId,        \* bound: no entry is recorded from this id on (2^64 in the code)
    MaxClears,    \* bound: clears asked for
    MaxDeaths,    \* bound: deaths of the process
    InitialDisk   \* snapshots the file may hold at the first start, or None

Ids      == 1 .. MaxId
Quitters == {"quit", "signal"}
Flushers == Quitters \cup {"persist"}
Tasks    == Flushers \cup {"clear"}
Snapshot(es, next) == [entries |-> es, nextId |-> next]
Snapshots == [entries : Seq(Ids), nextId : Ids]

ASSUME BoundsAssumption == {MaxEntries, MaxId} \subseteq Nat \ {0} /\ {MaxClears, MaxDeaths} \subseteq Nat
ASSUME NoneAssumption == None \notin Tasks /\ None \notin Snapshots
ASSUME DiskAssumption ==
    \A d \in InitialDisk \ {None} :
        \E n, k \in Ids : n <= k /\ d = Snapshot([i \in 1 .. k - n |-> n - 1 + i], k)

VARIABLES
    up,          \* the process runs
    entries,     \* ActivityState::entries, oldest first
    nextId,      \* ActivityState::next_id
    revision,    \* ActivityState::revision
    hasChanged,  \* the persistence task's receiver has an unseen version
    syncing,     \* a CLI process is monitored
    recorder,    \* the stdout monitor in record_transfer
    pc,          \* where each other task is
    flushLock,   \* holder of flush_lock
    held,        \* what each flusher is about to write, and its revision
    disk,        \* the snapshot file; None: missing, corrupt, other version
    diskRev,     \* history: the revision on disk
    failed,      \* history: the last attempt to write failed
    confirmed,   \* history: entries a clear reported as removed
    wiped,       \* history: entries a clear removed from disk, now or before
                 \* the first start
    owing,       \* history: who had not stopped syncing when the CLI started
    owed,        \* history: for each of them, the id after the last entry it
                 \* finds on disk, in memory, or recorded from a CLI it stops
    clears, deaths

memory == <<entries, nextId, revision>>
tasks  == <<syncing, recorder, pc, flushLock, held>>
stable == <<disk, diskRev, failed, confirmed, wiped>>
ghosts == <<owing, owed>>
vars   == <<up, memory, hasChanged, tasks, stable, ghosts, clears, deaths>>

Elems(s) == {s[i] : i \in DOMAIN s}
Newest(s) == IF Len(s) > MaxEntries THEN SubSeq(s, Len(s) - MaxEntries + 1, Len(s)) ELSE s

\* Mutant: next_id follows the entries alone.
FromPersistedEntries(d) ==
    IF d = None \/ d.entries = <<>> THEN Snapshot(<<>>, 1)
    ELSE Snapshot(Newest(d.entries), d.entries[Len(d.entries)] + 1)

\* load_or_empty: what the program makes of the file.  The code takes the
\* maximum of next_id and the successors of the entries, which are smaller.
FromPersisted(d) ==
    IF d = None THEN Snapshot(<<>>, 1) ELSE Snapshot(Newest(d.entries), d.nextId)

Steps == {"idle", "debounce", "lock", "snapshot", "write", "check",
          "replace", "commit", "notify", "exit", "unsaved"}

TypeOK ==
    /\ up \in BOOLEAN /\ hasChanged \in BOOLEAN /\ syncing \in BOOLEAN
    /\ entries \in Seq(Ids) /\ Len(entries) <= MaxEntries
    /\ nextId \in Ids /\ revision \in Nat
    /\ recorder \in {"idle", "notify"}
    /\ pc \in [Tasks -> Steps]
    /\ flushLock \in Tasks \cup {None}
    /\ held \in [Flushers -> [snap : Snapshots \cup {None}, rev : Nat]]
    /\ disk \in Snapshots \cup {None} /\ diskRev \in Nat /\ failed \in BOOLEAN
    /\ confirmed \subseteq wiped /\ wiped \subseteq Ids
    /\ owing \subseteq Quitters /\ owed \in [Quitters -> Ids]

NothingHeld == [f \in Flushers |-> [snap |-> None, rev |-> 0]]

\* The process is gone, and with it all that was not on disk.  Nothing else
\* writes the file, so what the next process loads of it (with_activity) is
\* settled.
Ends ==
    /\ up' = FALSE
    /\ entries' = FromPersisted(disk).entries /\ nextId' = FromPersisted(disk).nextId
    /\ revision' = 0 /\ hasChanged' = FALSE /\ diskRev' = 0
    /\ syncing' = FALSE /\ recorder' = "idle"
    /\ pc' = [t \in Tasks |-> "idle"] /\ flushLock' = None /\ held' = NothingHeld
    /\ owing' = {} /\ owed' = [q \in Quitters |-> nextId']
    /\ UNCHANGED <<disk, failed, confirmed, wiped, clears>>

Init ==
    /\ disk \in InitialDisk
    /\ up = TRUE
    /\ entries = FromPersisted(disk).entries /\ nextId = FromPersisted(disk).nextId
    /\ revision = 0 /\ hasChanged = FALSE /\ diskRev = 0
    /\ syncing = FALSE /\ recorder = "idle"
    /\ pc = [t \in Tasks |-> "idle"] /\ flushLock = None /\ held = NothingHeld
    /\ owing = {} /\ owed = [q \in Quitters |-> nextId]
    /\ failed = FALSE /\ confirmed = {}
    /\ wiped = IF disk = None THEN {} ELSE (1 .. disk.nextId - 1) \ Elems(disk.entries)
    /\ clears = 0 /\ deaths = 0

At(t, from)  == up /\ pc[t] = from
Goto(t, to)  == pc' = [pc EXCEPT ![t] = to]

\* clear_and_flush holds the state's write lock from the replacement of the
\* file to the removal of the entries.
WriteLocked == pc["clear"] = "commit"

-----------------------------------------------------------------------------
(* The stdout monitor                                                      *)

\* A CLI may also start after a Quit's stop and before its exit: an autostart
\* that takes its permit then (lib.rs:551) launches one that nobody stops.
StartSync ==
    /\ up /\ ~syncing /\ syncing' = TRUE
    /\ owing' = {q \in Quitters : pc[q] = "idle"}
    /\ UNCHANGED <<up, memory, hasChanged, recorder, pc, flushLock, held, stable, owed, clears, deaths>>

\* An entry of a CLI that Quit is going to stop is owed to it.
Owe == owed' = [q \in Quitters |-> IF q \in owing THEN nextId + 1 ELSE owed[q]]

\* Mutant: record_transfer does not wait for the state's lock.
RecordUnlocked ==
    /\ up /\ syncing /\ recorder = "idle" /\ recorder' = "notify"
    /\ nextId < MaxId /\ nextId' = nextId + 1
    /\ entries' = Newest(Append(entries, nextId))
    /\ revision' = revision + 1 /\ Owe
    /\ UNCHANGED <<up, hasChanged, syncing, pc, flushLock, held, stable, owing, clears, deaths>>

\* record_transfer of a terminal task event, under the write lock ...
Record ==
    /\ up /\ syncing /\ recorder = "idle" /\ recorder' = "notify"
    /\ ~WriteLocked
    /\ nextId < MaxId /\ nextId' = nextId + 1
    /\ entries' = Newest(Append(entries, nextId))
    /\ revision' = revision + 1 /\ Owe
    /\ UNCHANGED <<up, hasChanged, syncing, pc, flushLock, held, stable, owing, clears, deaths>>

\* ... and send_replace after it.
NotifyRecord ==
    /\ up /\ recorder = "notify" /\ recorder' = "idle"
    /\ hasChanged' = TRUE
    /\ UNCHANGED <<up, memory, syncing, pc, flushLock, held, stable, ghosts, clears, deaths>>

-----------------------------------------------------------------------------
(* flush and its callers                                                   *)

\* persist_activity_updates: changed() returns and marks the version seen,
PersistWake ==
    /\ At("persist", "idle") /\ Goto("persist", "debounce")
    /\ hasChanged /\ hasChanged' = FALSE
    /\ UNCHANGED <<up, memory, syncing, recorder, flushLock, held, stable, ghosts, clears, deaths>>

\* and what came during the debounce is seen as well.
PersistDrain ==
    /\ At("persist", "debounce") /\ Goto("persist", "lock")
    /\ hasChanged' = FALSE
    /\ UNCHANGED <<up, memory, syncing, recorder, flushLock, held, stable, ghosts, clears, deaths>>

\* Mutant: the flush does not wait for the monitor to be joined.
StopBeforeFlushUnjoined(q) ==
    /\ At(q, "idle") /\ Goto(q, "lock")
    /\ UNCHANGED <<up, memory, hasChanged, syncing, recorder, flushLock, held, stable, ghosts, clears, deaths>>

\* Quit and the signal handler: stop_sync joins the monitor before the flush.
StopBeforeFlush(q) ==
    /\ At(q, "idle") /\ Goto(q, "lock")
    /\ recorder = "idle" /\ syncing' = FALSE /\ owing' = {}
    /\ UNCHANGED <<up, memory, hasChanged, recorder, flushLock, held, stable, owed, clears, deaths>>

\* Mutant: flush does not take flush_lock.
FlushLockSkipped(f) ==
    /\ At(f, "lock") /\ Goto(f, "snapshot")
    /\ UNCHANGED <<up, memory, hasChanged, syncing, recorder, flushLock, held, stable, ghosts, clears, deaths>>

FlushLock(f) ==
    /\ At(f, "lock") /\ Goto(f, "snapshot")
    /\ flushLock = None /\ flushLock' = f
    /\ UNCHANGED <<up, memory, hasChanged, syncing, recorder, held, stable, ghosts, clears, deaths>>

\* The snapshot and its revision are taken under the read lock.
FlushSnapshot(f) ==
    /\ At(f, "snapshot") /\ Goto(f, "write")
    /\ ~WriteLocked
    /\ held' = [held EXCEPT ![f] = [snap |-> Snapshot(entries, nextId), rev |-> revision]]
    /\ UNCHANGED <<up, memory, hasChanged, syncing, recorder, flushLock, stable, ghosts, clears, deaths>>

\* The persistence task waits for the next change; the others exit, and a
\* failure is no more than logged.
AfterFlush(f) == IF f = "persist" THEN "idle" ELSE "exit"
AfterFailure(f) == IF f = "persist" THEN "idle" ELSE "unsaved"

Release(f, to) ==
    /\ Goto(f, to) /\ flushLock' = None
    /\ held' = [held EXCEPT ![f] = NothingHeld[f]]

\* atomic_replace: the file is renamed into place,
FlushWrite(f) ==
    /\ At(f, "write") /\ Goto(f, "check")
    /\ disk' = held[f].snap /\ diskRev' = held[f].rev /\ failed' = FALSE
    /\ UNCHANGED <<up, memory, hasChanged, syncing, recorder, flushLock, held, confirmed, wiped, ghosts, clears, deaths>>

\* or it fails, before the rename or (setting the permissions) after it.
FlushFails(f) ==
    /\ At(f, "write") /\ Release(f, AfterFailure(f))
    /\ \/ UNCHANGED <<disk, diskRev>>
       \/ disk' = held[f].snap /\ diskRev' = held[f].rev
    /\ failed' = TRUE
    /\ UNCHANGED <<up, memory, hasChanged, syncing, recorder, confirmed, wiped, ghosts, clears, deaths>>

\* Mutant: the snapshot is taken outside the loop.
FlushCheckStale(f) ==
    /\ At(f, "check")
    /\ ~WriteLocked
    /\ IF revision = held[f].rev
         THEN Release(f, AfterFlush(f))
         ELSE Goto(f, "write") /\ UNCHANGED <<flushLock, held>>
    /\ UNCHANGED <<up, memory, hasChanged, syncing, recorder, stable, ghosts, clears, deaths>>

\* The loop catches what was recorded during the write.
FlushCheck(f) ==
    /\ At(f, "check")
    /\ ~WriteLocked
    /\ IF revision = held[f].rev
         THEN Release(f, AfterFlush(f))
         ELSE Goto(f, "snapshot") /\ UNCHANGED <<flushLock, held>>
    /\ UNCHANGED <<up, memory, hasChanged, syncing, recorder, stable, ghosts, clears, deaths>>

\* app_handle.exit(0)
Exit(q) ==
    /\ At(q, "exit") \/ At(q, "unsaved")
    /\ Ends /\ UNCHANGED deaths

-----------------------------------------------------------------------------
(* clear_and_flush                                                         *)

RequestClear ==
    /\ At("clear", "idle") /\ Goto("clear", "lock")
    /\ clears < MaxClears /\ clears' = clears + 1
    /\ UNCHANGED <<up, memory, hasChanged, syncing, recorder, flushLock, held, stable, ghosts, deaths>>

ClearLock ==
    /\ At("clear", "lock") /\ Goto("clear", "replace")
    /\ flushLock = None /\ flushLock' = "clear"
    /\ UNCHANGED <<up, memory, hasChanged, syncing, recorder, held, stable, ghosts, clears, deaths>>

Wipe ==
    /\ disk' = Snapshot(<<>>, nextId)
    /\ wiped' = wiped \cup Elems(entries)

\* With the write lock held, the file is replaced by an empty one,
ClearReplace ==
    /\ At("clear", "replace") /\ Goto("clear", "commit")
    /\ Wipe /\ diskRev' = revision + 1 /\ failed' = FALSE
    /\ UNCHANGED <<up, memory, hasChanged, syncing, recorder, flushLock, held, confirmed, ghosts, clears, deaths>>

\* unless that fails (the command reports it and keeps the entries),
ClearFails ==
    /\ At("clear", "replace") /\ Goto("clear", "idle")
    /\ flushLock' = None
    /\ Wipe \/ UNCHANGED <<disk, wiped>>
    /\ failed' = TRUE
    /\ UNCHANGED <<up, memory, hasChanged, syncing, recorder, held, diskRev, confirmed, ghosts, clears, deaths>>

\* then the entries are removed,
ClearCommit ==
    /\ At("clear", "commit") /\ Goto("clear", "notify")
    /\ flushLock' = None
    /\ entries' = <<>> /\ revision' = revision + 1
    /\ confirmed' = confirmed \cup Elems(entries)
    /\ UNCHANGED <<up, nextId, hasChanged, syncing, recorder, held, disk, diskRev, failed, wiped, ghosts, clears, deaths>>

\* and send_replace tells the subscribers.
NotifyClear ==
    /\ At("clear", "notify") /\ Goto("clear", "idle")
    /\ hasChanged' = TRUE
    /\ UNCHANGED <<up, memory, syncing, recorder, flushLock, held, stable, ghosts, clears, deaths>>

-----------------------------------------------------------------------------
(* The process                                                             *)

\* A crash, SIGKILL or a power cut with the file system's writes in order.
Die ==
    /\ up /\ Ends
    /\ deaths < MaxDeaths /\ deaths' = deaths + 1

Restart ==
    /\ ~up /\ up' = TRUE
    /\ UNCHANGED <<memory, hasChanged, tasks, stable, ghosts, clears, deaths>>

FlushStep(f) ==
    FlushLock(f) \/ FlushSnapshot(f) \/ FlushWrite(f) \/ FlushFails(f) \/ FlushCheck(f)

ClearStep ==
    ClearLock \/ ClearReplace \/ ClearFails \/ ClearCommit \/ NotifyClear

Next ==
    \/ StartSync \/ Record \/ NotifyRecord
    \/ PersistWake \/ PersistDrain
    \/ \E f \in Flushers : FlushStep(f)
    \/ \E q \in Quitters : StopBeforeFlush(q) \/ Exit(q)
    \/ RequestClear \/ ClearStep
    \/ Die \/ Restart

Spec == Init /\ [][Next]_vars

\* Whoever holds flush_lock goes on: a flush up to its end, or a clear.
HolderStep ==
    \/ \E f \in Flushers : FlushSnapshot(f) \/ FlushWrite(f) \/ FlushFails(f) \/ FlushCheck(f)
    \/ ClearReplace \/ ClearFails \/ ClearCommit

\* tokio polls every ready task, the debounce ends, flush_lock is FIFO and the
\* blocking pool runs what it is given.  Once a task has the lock, or has been
\* woken, nothing but a death keeps it from its next step.
Fairness ==
    /\ WF_vars(NotifyRecord) /\ WF_vars(NotifyClear)
    /\ WF_vars(PersistWake \/ PersistDrain)
    /\ \A f \in Flushers : SF_vars(FlushLock(f))
    /\ SF_vars(ClearLock)
    /\ WF_vars(HolderStep)

LiveSpec == Spec /\ Fairness

-----------------------------------------------------------------------------
(* Properties                                                              *)

\* The program would load what it has in memory.
Saved == FromPersisted(disk) = Snapshot(entries, nextId)

\* Once the window was told that the history is cleared, no cleared entry is
\* seen again, in memory or on disk, through any flush that was under way and
\* any restart; nor is its id given to another entry (clear_and_flush).
ClearedStaysCleared ==
    confirmed \cap (Elems(entries) \cup (IF disk = None THEN {} ELSE Elems(disk.entries))) = {}

\* A clear removes what it removed from disk and nothing recorded meanwhile,
\* a failed one removes nothing, and otherwise the newest MaxEntries are kept.
NothingLost ==
    up => \A id \in Ids : id < nextId /\ id + MaxEntries >= nextId => id \in Elems(entries) \cup wiped

\* Entries are in the order of their ids, each id given once, and the next one
\* is ahead of them all, across restarts.
IdsInOrder ==
    /\ \A i, j \in DOMAIN entries : i < j => entries[i] < entries[j]
    /\ \A i \in DOMAIN entries : entries[i] < nextId

\* A snapshot of a history from which the ids in gone were cleared: its ids
\* follow each other up to the next one, and of the newest none is missing.
Whole(d, gone) ==
    /\ d \in Snapshots
    /\ \A i \in 1 .. Len(d.entries) : d.entries[i] + Len(d.entries) + 1 = d.nextId + i
    /\ \A id \in Ids :
          id < d.nextId /\ id + MaxEntries >= d.nextId => id \in Elems(d.entries) \cup gone

\* The memory, the file and what a flusher is about to write are whole; the
\* file is not ahead of the memory, and no wiped id can be given again.
SnapshotsWhole ==
    /\ Whole(Snapshot(entries, nextId), wiped)
    /\ disk = None => wiped = {}
    /\ disk # None => /\ Whole(disk, wiped) /\ disk.nextId <= nextId
                      /\ \A id \in wiped : id < disk.nextId

\* flush_lock is held from the lock to the end of the flush, or of the clear up
\* to the removal of the entries.
LockHeld ==
    /\ \A f \in Flushers : pc[f] \in {"snapshot", "write", "check"} <=> flushLock = f
    /\ pc["clear"] \in {"replace", "commit"} <=> flushLock = "clear"

\* What a flusher holds is no older than the file and no newer than the memory,
\* and its revision tells whether it is still the memory's.
HeldBetween ==
    \A f \in Flushers : pc[f] \in {"write", "check"} =>
      /\ Whole(held[f].snap, wiped)
      /\ confirmed \cap Elems(held[f].snap.entries) = {}
      /\ diskRev <= held[f].rev /\ held[f].rev <= revision
      /\ disk # None => disk.nextId <= held[f].snap.nextId
      /\ held[f].snap.nextId <= nextId
      /\ held[f].rev = revision => held[f].snap = Snapshot(entries, nextId)
      /\ pc[f] = "check" => disk = held[f].snap /\ diskRev = held[f].rev

\* Between the replacement of the file and the removal of the entries the file
\* is one revision ahead, and empty; otherwise it is never ahead.
FileRevision ==
    IF WriteLocked
      THEN /\ disk = Snapshot(<<>>, nextId) /\ diskRev = revision + 1
           /\ Elems(entries) \subseteq wiped
      ELSE diskRev <= revision

\* A CLI that a quit has stopped records no more; what is owed to a quit was
\* recorded, is in what it writes, and is on disk when its flush has succeeded.
OwedKept ==
    \A q \in Quitters :
      /\ q \in owing => pc[q] = "idle"
      /\ owed[q] <= nextId
      /\ pc[q] \in {"write", "check"} => owed[q] <= held[q].snap.nextId
      /\ pc[q] = "exit" => disk # None /\ owed[q] <= disk.nextId

\* activity.rs: what holds of every history, over deaths and restarts.
HistoryInv ==
    /\ TypeOK /\ NothingLost /\ IdsInOrder
    /\ SnapshotsWhole /\ LockHeld /\ HeldBetween /\ FileRevision /\ OwedKept

\* "an older snapshot can never replace a newer one" (activity.rs:178).
DiskNeverOlder == [][up /\ up' => diskRev' >= diskRev]_vars

\* Quit and a signal lose nothing of the CLI they stop: from the end of a flush
\* that succeeded to the exit, every entry recorded from it is on disk, but
\* for those that were cleared or that newer ones have pushed out; whatever
\* another flush, a clear, or a CLI that starts after the stop do meanwhile.
QuitSaves ==
    \A q \in Quitters : pc[q] = "exit" =>
      /\ disk # None
      /\ \A id \in Ids :
            id < owed[q] /\ id + MaxEntries >= disk.nextId => id \in Elems(disk.entries) \cup wiped

\* Whatever was recorded or cleared reaches the disk without another change,
\* unless a write fails or the process ends.
SavedEventually == (up /\ ~Saved) ~> (Saved \/ failed \/ ~up)
=============================================================================
