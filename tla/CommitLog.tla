------------------------------ MODULE CommitLog ------------------------------
(***************************************************************************)
(* The durable write path of the StrikeDB storage engine: callers enqueue  *)
(* commits, one flusher thread drains them in groups (one WAL append and   *)
(* one fsync per group), a checkpoint rotates the log and replaces the     *)
(* snapshot file, FLUSHALL renames the files away, and recovery rebuilds   *)
(* the store from snapshot, rotated segment and live log.                  *)
(*                                                                         *)
(* Files are sets of commits: frames are appended in timestamp order, so a *)
(* prefix of a file is the commits up to some timestamp.  A value is       *)
(* identified by the commit that wrote it.  Values, OCC validation and     *)
(* version pruning are the subject of module Mvcc.                         *)
(***************************************************************************)
EXTENDS Naturals, FiniteSets

CONSTANTS Key,      \* the keys of the store
          Write,    \* the write sets a caller may submit, see WriteSet
          MaxId,    \* bound: commits submitted in a behaviour
          MaxBoot,  \* bound: crashes in a behaviour
          MaxWipe   \* bound: FLUSHALLs submitted in a behaviour

\* "cond" tells the commits that may turn out to write nothing when they are
\* resolved (a read set that conflicts, a failing operation) from blind writes.
WriteSet == [puts : SUBSET Key, dels : SUBSET Key, cond : BOOLEAN]

ASSUME WriteAssumption ==
  /\ Write \subseteq WriteSet
  /\ \A w \in Write : w.puts \cap w.dels = {} /\ w.puts \cup w.dels # {}

ASSUME BoundAssumption == MaxId \in Nat /\ MaxBoot \in Nat /\ MaxWipe \in Nat

VARIABLES
  up,        \* the process runs
  clock,     \* Engine.clock
  visible,   \* FlushCore.visible_ts
  appended,  \* FlushCore.last_appended
  poisoned,  \* Wal.poisoned
  queue,     \* FlushCore.write_queue
  pc,        \* where the flusher thread is
  batch,     \* the commits it drained
  kept,      \* those that resolved to Apply with something to write
  flushOk,   \* flush_result.is_ok()
  wipeOk,    \* flush_all_err.is_none()
  mem,       \* the version chains of all the shards
  wal,       \* frames in the live log
  synced,    \* those an fsync covers
  seg,       \* frames in <wal>.ckpt
  segUp,     \* <wal>.ckpt exists
  snap,      \* versions in <wal>.snap ({} also stands for no file)
  bak,       \* frames renamed to the FLUSHALL backup while the wipe runs
  ckpt,      \* the thread in checkpoint(): where it is, its snap_ts and its .snap.tmp
  nextId,    \* history: commits submitted so far
  boots,     \* history: crashes so far
  wipes,     \* history: FLUSHALLs submitted so far
  acked,     \* history: commits answered Ok
  logged,    \* history: commits appended and not lost in a crash
  floor,     \* history: commits up to this id may have gone with a FLUSHALL
  before     \* history: what recovery gave when the last wipe began

front == <<clock, queue, nextId, wipes>>
flusher == <<pc, batch, kept, flushOk, wipeOk>>
files == <<wal, synced, seg, segUp, snap, bak>>
ghosts == <<boots, acked, logged, floor, before>>
vars == <<up, clock, visible, appended, poisoned, queue, pc, batch, kept,
          flushOk, wipeOk, mem, wal, synced, seg, segUp, snap, bak, ckpt,
          nextId, boots, wipes, acked, logged, floor, before>>

-----------------------------------------------------------------------------
\* "id" is the order of submission over all restarts; the program has only ts.
Commit == [id : Nat, ts : Nat, puts : SUBSET Key, dels : SUBSET Key,
           cond : BOOLEAN, wipe : BOOLEAN]
Version == [key : Key, id : Nat, ts : Nat, live : BOOLEAN]

Touched(c) == c.puts \cup c.dels

\* The versions that applying or replaying a set of commits adds to the chains.
VersionsOf(C) ==
  UNION {{[key |-> k, id |-> c.id, ts |-> c.ts, live |-> k \in c.puts] :
             k \in Touched(c)} : c \in C}

\* Chain.visible for every key: the newest version at or below s, tombstones hidden.
VisibleAt(vs, s) ==
  {v \in vs : /\ v.live
              /\ v.ts <= s
              /\ \A w \in vs : w.key = v.key /\ w.ts <= s => w.ts <= v.ts}

\* Chain.latest for every key.
Latest(vs) == {v \in vs : v.live /\ \A w \in vs : w.key = v.key => w.ts <= v.ts}

Oldest(C, c) == c \in C /\ \A d \in C : c.ts <= d.ts                \* mutant
Newest(C, c) == c \in C /\ \A d \in C : d.ts <= c.ts
Larger(m, n) == IF m > n THEN m ELSE n

\* The wal mutex: one critical section from append to fsync, one for the file
\* part of a wipe, and one while a checkpoint folds the log into <wal>.ckpt.
FlusherHoldsWal == pc \in {"sync", "wipe_snap", "wipe_open"}
CheckpointHoldsWalToRead == ckpt.pc \in {"truncate", "read"}       \* mutant
CheckpointHoldsWal == ckpt.pc = "truncate"

\* check_poisoned: no write and no fsync after a failed one.
NeverPoisoned == TRUE                                              \* mutant
Sound == ~poisoned

-----------------------------------------------------------------------------
\* What Engine::open reads: the snapshot, then <wal>.ckpt, then the live log.
OnDisk(log) == snap \cup VersionsOf(seg \cup log)

\* The live log after a crash: all that was fsynced and some prefix of the rest.
Cut(n) == synced \cup {c \in wal : c.ts <= n}
Crashes == {OnDisk(Cut(n)) : n \in 0..MaxId}

-----------------------------------------------------------------------------
NoCheckpoint == [pc |-> "idle", ts |-> 0, tmp |-> {}]

Init ==
  /\ up = TRUE /\ clock = 0 /\ visible = 0 /\ appended = 0 /\ poisoned = FALSE
  /\ queue = {} /\ pc = "idle" /\ batch = {} /\ kept = {}
  /\ flushOk = TRUE /\ wipeOk = TRUE
  /\ mem = {} /\ wal = {} /\ synced = {} /\ seg = {} /\ segUp = FALSE
  /\ snap = {} /\ bak = {} /\ ckpt = NoCheckpoint
  /\ nextId = 0 /\ boots = 0 /\ wipes = 0
  /\ acked = {} /\ logged = {} /\ floor = 0 /\ before = {}

\* A caller reserves a timestamp and enqueues, both under the queue lock.
Enqueue(c) ==
  /\ up
  /\ nextId < MaxId
  /\ clock' = clock + 1
  /\ nextId' = nextId + 1
  /\ queue' = queue \cup {c}
  /\ UNCHANGED <<up, visible, appended, poisoned, mem, ckpt, flusher, files, ghosts>>

Submit(w) ==
  /\ Enqueue([id |-> nextId + 1, ts |-> clock + 1, puts |-> w.puts,
              dels |-> w.dels, cond |-> w.cond, wipe |-> FALSE])
  /\ UNCHANGED wipes

SubmitFlushAll ==
  /\ wipes < MaxWipe
  /\ Enqueue([id |-> nextId + 1, ts |-> clock + 1, puts |-> {}, dels |-> {},
              cond |-> FALSE, wipe |-> TRUE])
  /\ wipes' = wipes + 1

-----------------------------------------------------------------------------
\* The flusher takes the whole queue and resolves it in order.  Which of the
\* conditional commits end up writing is left open here.
DrainNewest == {c \in queue : Newest(queue, c)}                    \* mutant
Drained == queue

Drain ==
  /\ up /\ pc = "idle" /\ queue # {}
  /\ batch' = Drained
  /\ queue' = queue \ Drained
  /\ \E drop \in SUBSET {c \in Drained : c.cond} :
        kept' = {c \in Drained : ~c.wipe} \ drop
  /\ pc' = "append"
  /\ flushOk' = TRUE /\ wipeOk' = TRUE
  /\ UNCHANGED <<up, clock, visible, appended, poisoned, mem, ckpt, nextId, wipes, files, ghosts>>

HasWipe == \E c \in batch : c.wipe
AfterLog == IF HasWipe THEN "wipe" ELSE "apply"

\* append_frames: all the frames of the group in one write, then last_appended.
Append ==
  /\ up /\ pc = "append" /\ kept # {} /\ Sound /\ ~CheckpointHoldsWal
  /\ wal' = wal \cup kept
  /\ logged' = logged \cup kept
  /\ \E c \in batch : Newest(batch, c) /\ appended' = Larger(appended, c.ts)
  /\ pc' = "sync"
  /\ UNCHANGED <<up, clock, visible, poisoned, queue, batch, kept, flushOk, wipeOk, mem,
                 synced, seg, segUp, snap, bak, ckpt, nextId, wipes, boots, acked, floor, before>>

AppendNothing ==
  /\ up /\ pc = "append" /\ kept = {}
  /\ pc' = AfterLog
  /\ UNCHANGED <<up, visible, appended, poisoned, mem, ckpt, front, batch, kept, flushOk, wipeOk, files, ghosts>>

\* A refused or failed write: the file is cut back to whole frames, or, when
\* that fails as well, the log is poisoned with what reached it (replay keeps
\* the whole frames of a torn tail).
AppendFails ==
  /\ up /\ pc = "append" /\ kept # {} /\ ~CheckpointHoldsWal
  /\ \/ UNCHANGED <<poisoned, wal, logged>>
     \/ /\ Sound /\ poisoned' = TRUE
        /\ \E n \in 0..clock : wal' = wal \cup {c \in kept : c.ts <= n}
        /\ logged' = logged \cup wal'
  /\ flushOk' = FALSE
  /\ pc' = AfterLog
  /\ UNCHANGED <<up, visible, appended, mem, ckpt, front, batch, kept, wipeOk,
                 synced, seg, segUp, snap, bak, boots, acked, floor, before>>

Sync ==
  /\ up /\ pc = "sync"
  /\ synced' = wal
  /\ pc' = AfterLog
  /\ UNCHANGED <<up, visible, appended, poisoned, mem, ckpt, front, batch, kept, flushOk, wipeOk,
                 wal, seg, segUp, snap, bak, ghosts>>

\* A failed fsync promises nothing about the frames it covered.
SyncFails ==
  /\ up /\ pc = "sync"
  /\ poisoned' = TRUE
  /\ flushOk' = FALSE
  /\ pc' = AfterLog
  /\ UNCHANGED <<up, visible, appended, mem, ckpt, front, batch, kept, wipeOk, files, ghosts>>

-----------------------------------------------------------------------------
\* perform_flush_all: fsync the log and rename it to the backup, ...
WipeRenameLog ==
  /\ up /\ pc = "wipe" /\ Sound /\ ~CheckpointHoldsWal
  /\ before' = Latest(OnDisk(wal))
  /\ bak' = wal
  /\ wal' = {} /\ synced' = {}
  /\ pc' = "wipe_snap"
  /\ UNCHANGED <<up, visible, appended, poisoned, mem, ckpt, front, batch, kept, flushOk, wipeOk,
                 seg, segUp, snap, boots, acked, logged, floor>>

\* ... unless the log is poisoned, or the fsync or the rename fails, ...
WipeRefused ==
  /\ up /\ pc = "wipe" /\ ~CheckpointHoldsWal
  /\ \/ poisoned' = TRUE /\ UNCHANGED synced
     \/ Sound /\ synced' = wal /\ UNCHANGED poisoned
  /\ wipeOk' = FALSE
  /\ before' = Latest(OnDisk(wal))
  /\ pc' = "publish"
  /\ UNCHANGED <<up, visible, appended, mem, ckpt, front, batch, kept, flushOk,
                 wal, seg, segUp, snap, bak, boots, acked, logged, floor>>

\* ... rename the snapshot, ...
WipeRenameSnap ==
  /\ up /\ pc = "wipe_snap"
  /\ snap' = {}
  /\ pc' = "wipe_open"
  /\ UNCHANGED <<up, visible, appended, poisoned, mem, ckpt, front, batch, kept, flushOk, wipeOk,
                 wal, synced, seg, segUp, bak, ghosts>>

\* ... or put the log back when that fails, ...
WipeSnapFails ==
  /\ up /\ pc = "wipe_snap" /\ snap # {}
  /\ wal' = bak /\ synced' = bak
  /\ wipeOk' = FALSE
  /\ pc' = "publish"
  /\ UNCHANGED <<up, visible, appended, poisoned, mem, ckpt, front, batch, kept, flushOk,
                 seg, segUp, snap, bak, ghosts>>

\* Commits whose files a wipe has taken away.
Doomed(n) == \E c \in batch : (\A d \in batch : d.id <= c.id) /\ n = c.id

\* ... open a fresh log, ...
WipeOpen ==
  /\ up /\ pc = "wipe_open"
  /\ Doomed(floor')
  /\ pc' = "wipe_clear"
  /\ UNCHANGED <<up, visible, appended, poisoned, mem, ckpt, front, batch, kept, flushOk, wipeOk,
                 files, boots, acked, logged, before>>

\* ... or put the log back when that fails: the test for the snapshot looks at
\* the path it was just renamed from, so the snapshot stays in the backup.
WipeOpenFails ==
  /\ up /\ pc = "wipe_open"
  /\ wal' = bak /\ synced' = bak
  /\ wipeOk' = FALSE
  /\ Doomed(floor')
  /\ pc' = "publish"
  /\ UNCHANGED <<up, visible, appended, poisoned, mem, ckpt, front, batch, kept, flushOk,
                 seg, segUp, snap, bak, boots, acked, logged, before>>

\* ... and clear the shards.
WipeClear ==
  /\ up /\ pc = "wipe_clear"
  /\ mem' = {}
  /\ pc' = "publish"
  /\ UNCHANGED <<up, visible, appended, poisoned, ckpt, front, batch, kept, flushOk, wipeOk, files, ghosts>>

-----------------------------------------------------------------------------
Apply ==
  /\ up /\ pc = "apply"
  /\ mem' = IF flushOk THEN mem \cup VersionsOf(kept) ELSE mem
  /\ pc' = "publish"
  /\ UNCHANGED <<up, visible, appended, poisoned, ckpt, front, batch, kept, flushOk, wipeOk, files, ghosts>>

Publish ==
  /\ up /\ pc = "publish"
  /\ \E c \in batch : Newest(batch, c) /\ visible' = Larger(visible, c.ts)
  /\ pc' = "answer"
  /\ UNCHANGED <<up, appended, poisoned, mem, ckpt, front, batch, kept, flushOk, wipeOk, files, ghosts>>

Answer ==
  /\ up /\ pc = "answer"
  /\ acked' = IF flushOk /\ wipeOk THEN acked \cup kept ELSE acked
  /\ pc' = "idle"
  /\ batch' = {} /\ kept' = {} /\ bak' = {} /\ before' = {}
  /\ UNCHANGED <<up, visible, appended, poisoned, mem, ckpt, front, flushOk, wipeOk,
                 wal, synced, seg, segUp, snap, boots, logged, floor>>

-----------------------------------------------------------------------------
\* pending.exists(): an earlier checkpoint left its segment.
NoSegmentLeft == FALSE                                             \* mutant
SegmentLeft == segUp

\* checkpoint(): rotate the log under the wal lock, ...
CkptRotate ==
  /\ up /\ ckpt.pc = "idle" /\ Sound /\ ~FlusherHoldsWal
  /\ ~SegmentLeft
  /\ seg' = wal /\ segUp' = TRUE
  /\ wal' = {} /\ synced' = {}
  /\ ckpt' = [NoCheckpoint EXCEPT !.pc = "read", !.ts = appended]
  /\ UNCHANGED <<up, visible, appended, poisoned, mem, front, flusher, snap, bak, ghosts>>

\* ... or fold it into the segment an earlier checkpoint left: copy and fsync, ...
CkptFold ==
  /\ up /\ ckpt.pc = "idle" /\ Sound /\ ~FlusherHoldsWal
  /\ SegmentLeft
  /\ synced' = wal
  /\ seg' = seg \cup wal
  /\ ckpt' = [NoCheckpoint EXCEPT !.pc = "truncate"]
  /\ UNCHANGED <<up, visible, appended, poisoned, mem, front, flusher, wal, segUp, snap, bak, ghosts>>

\* ... then truncate the live log.
CkptTruncateLength ==                                              \* mutant
  /\ up /\ ckpt.pc = "truncate"
  /\ wal' = {} /\ synced' = synced
  /\ ckpt' = [ckpt EXCEPT !.pc = "read", !.ts = appended]
  /\ UNCHANGED <<up, visible, appended, poisoned, mem, front, flusher, seg, segUp, snap, bak, ghosts>>

CkptTruncate ==
  /\ up /\ ckpt.pc = "truncate"
  /\ wal' = {} /\ synced' = {}
  /\ ckpt' = [ckpt EXCEPT !.pc = "read", !.ts = appended]
  /\ UNCHANGED <<up, visible, appended, poisoned, mem, front, flusher, seg, segUp, snap, bak, ghosts>>

\* An fsync that fails in checkpoint() poisons the log and ends it.
CkptSyncFails ==
  /\ up /\ Sound
  /\ \/ ckpt.pc = "idle" /\ ~FlusherHoldsWal /\ UNCHANGED <<wal, synced>>
     \/ ckpt.pc = "truncate" /\ wal' = {} /\ synced' = {}
  /\ poisoned' = TRUE
  /\ ckpt' = NoCheckpoint
  /\ UNCHANGED <<up, visible, appended, mem, front, flusher, seg, segUp, snap, bak, ghosts>>

\* Wait until everything up to S is applied, then stream the state visible at S.
ReadyAtOnce == TRUE                                                \* mutant
SnapshotReady == visible >= ckpt.ts

CkptRead ==
  /\ up /\ ckpt.pc = "read" /\ SnapshotReady
  /\ ckpt' = [ckpt EXCEPT !.pc = "rename", !.tmp = VisibleAt(mem, ckpt.ts)]
  /\ UNCHANGED <<up, visible, appended, poisoned, mem, front, flusher, files, ghosts>>

CkptRename ==
  /\ up /\ ckpt.pc = "rename"
  /\ snap' = ckpt.tmp
  /\ ckpt' = [ckpt EXCEPT !.pc = "remove", !.tmp = {}]
  /\ UNCHANGED <<up, visible, appended, poisoned, mem, front, flusher, wal, synced, seg, segUp, bak, ghosts>>

CkptRemove ==
  /\ up /\ ckpt.pc = "remove"
  /\ seg' = {} /\ segUp' = FALSE
  /\ ckpt' = NoCheckpoint
  /\ UNCHANGED <<up, visible, appended, poisoned, mem, front, flusher, wal, synced, snap, bak, ghosts>>

\* Any other I/O error: checkpoint() returns it and leaves <wal>.ckpt behind.
CkptFails ==
  /\ up /\ ckpt.pc # "idle"
  /\ ckpt' = NoCheckpoint
  /\ UNCHANGED <<up, visible, appended, poisoned, mem, front, flusher, files, ghosts>>

-----------------------------------------------------------------------------
\* The process dies: the files stay, with a prefix of the unsynced tail.
Crash ==
  /\ up /\ boots < MaxBoot
  /\ up' = FALSE
  /\ boots' = boots + 1
  /\ \E n \in 0..clock : wal' = Cut(n) /\ synced' = Cut(n) /\ logged' = logged \ (wal \ Cut(n))
  /\ IF pc \in {"wipe_snap", "wipe_open"} THEN Doomed(floor') ELSE UNCHANGED floor
  /\ queue' = {} /\ pc' = "idle" /\ batch' = {} /\ kept' = {}
  /\ flushOk' = TRUE /\ wipeOk' = TRUE
  /\ mem' = {} /\ bak' = {} /\ before' = {} /\ ckpt' = NoCheckpoint
  /\ clock' = 0 /\ visible' = 0 /\ appended' = 0 /\ poisoned' = FALSE
  /\ UNCHANGED <<seg, segUp, snap, nextId, wipes, acked>>

\* Engine::open: chains that end in a tombstone are dropped, the clocks resume
\* from the highest timestamp found on disk.
Recover ==
  /\ ~up
  /\ up' = TRUE
  /\ mem' = {v \in OnDisk(wal) : \E w \in Latest(OnDisk(wal)) : w.key = v.key}
  /\ \E t \in {0} \cup {v.ts : v \in OnDisk(wal)} :
        /\ \A v \in OnDisk(wal) : v.ts <= t
        /\ clock' = t /\ visible' = t /\ appended' = t
  /\ UNCHANGED <<poisoned, queue, nextId, wipes, flusher, files, ckpt, ghosts>>

-----------------------------------------------------------------------------
FlushStep ==
  \/ Drain \/ Append \/ AppendNothing \/ AppendFails \/ Sync \/ SyncFails
  \/ WipeRenameLog \/ WipeRefused \/ WipeRenameSnap \/ WipeSnapFails
  \/ WipeOpen \/ WipeOpenFails \/ WipeClear
  \/ Apply \/ Publish \/ Answer

CkptStep == CkptTruncate \/ CkptRead \/ CkptRename \/ CkptRemove

Next ==
  \/ \E w \in Write : Submit(w)
  \/ SubmitFlushAll
  \/ FlushStep
  \/ CkptRotate \/ CkptFold \/ CkptSyncFails \/ CkptFails \/ CkptStep
  \/ Crash \/ Recover

Spec == Init /\ [][Next]_vars

\* The flusher thread and a thread inside checkpoint() are scheduled.  Strong
\* fairness for the flusher: checkpoints that follow one another release the
\* wal mutex in between, and it gets its turn.
Fairness == SF_vars(FlushStep) /\ WF_vars(CkptStep)

-----------------------------------------------------------------------------
TypeOK ==
  /\ up \in BOOLEAN /\ poisoned \in BOOLEAN /\ flushOk \in BOOLEAN /\ wipeOk \in BOOLEAN
  /\ clock \in Nat /\ visible \in Nat /\ appended \in Nat
  /\ nextId \in Nat /\ boots \in Nat /\ wipes \in Nat /\ floor \in Nat
  /\ queue \subseteq Commit /\ batch \subseteq Commit /\ kept \subseteq batch
  /\ pc \in {"idle", "append", "sync", "wipe", "wipe_snap", "wipe_open", "wipe_clear",
             "apply", "publish", "answer"}
  /\ mem \subseteq Version
  /\ wal \subseteq Commit /\ synced \subseteq wal /\ seg \subseteq Commit /\ bak \subseteq Commit
  /\ segUp \in BOOLEAN /\ snap \subseteq Version
  /\ ckpt \in [pc : {"idle", "truncate", "read", "rename", "remove"}, ts : Nat, tmp : SUBSET Version]
  /\ acked \subseteq Commit /\ logged \subseteq Commit /\ before \subseteq Version
-----------------------------------------------------------------------------
\* The version a set of versions leaves at a key, whichever restart wrote it.
NewerOrDeleted(vs, c, k) ==
  \/ \E v \in vs : v.key = k /\ v.id >= c.id
  \/ /\ \A v \in vs : v.key # k
     /\ \E d \in logged : d.id >= c.id /\ k \in d.dels

\* Group commit answers Ok only for what a crash cannot take back: whatever
\* prefix of the unsynced tail survives, and wherever a checkpoint stands
\* between its renames, recovery finds every acknowledged commit or a newer one
\* (commits whose files a FLUSHALL took away, and a FLUSHALL in the middle of
\* its renames, excepted).
AckedSurvive ==
  pc \in {"wipe_snap", "wipe_open"} \/
    \A disk \in Crashes : \A c \in acked :
      c.id > floor => \A k \in Touched(c) : NewerOrDeleted(Latest(disk), c, k)

\* What the commits in C leave, by order of submission: the reference for recovery.
Outcome(C) ==
  {w \in Key \X {c.id : c \in C} :
     /\ \E c \in C : c.id = w[2] /\ w[1] \in c.puts
     /\ \A c \in C : w[1] \in Touched(c) => c.id <= w[2]}

\* Snapshot, rotated segment and live log together always hold the state after
\* a whole prefix of the commits, in order and each commit entire: recovery
\* never gives half a batch or a later commit without an earlier one.
RecoveryIsAPrefix ==
  wipes = 0 =>
    \A disk \in Crashes : \E n \in 0..nextId :
      /\ {<<v.key, v.id>> : v \in Latest(disk)} = Outcome({c \in logged : c.id <= n})
      /\ \A c \in acked : c.id <= n

\* A caller that got its Ok reads its own write, or a newer one, at once.
ReadYourWrites ==
  up => \A c \in acked : c.id > floor =>
          \A k \in Touched(c) : NewerOrDeleted(VisibleAt(mem, visible), c, k)

\* A snapshot, once handed out, never changes: no later commit lands at or below
\* a published visible_ts.  Only a FLUSHALL, or a restart, takes it away.
SnapshotsAreStable ==
  [][up /\ up' /\ pc # "wipe_clear" =>
       \A s \in 0..visible : VisibleAt(mem', s) = VisibleAt(mem, s)]_vars

\* After a failed fsync nothing more is promised durable until a restart.
PoisonIsFinal ==
  [][poisoned /\ up' => poisoned' /\ synced' \subseteq synced
                        /\ (acked' # acked => flushOk)]_vars

Waiting(n) == \E c \in queue \cup batch : c.id = n

\* Every caller is answered unless the process dies, even while a checkpoint
\* holds the log, the log is poisoned, or a FLUSHALL fails half-way.
EveryCommitIsAnswered == \A n \in 1..MaxId : [](Waiting(n) => <>~Waiting(n))

\* A checkpoint waits for visible_ts to reach its S, and that always happens.
CheckpointsEnd == ckpt.pc # "idle" ~> ckpt.pc = "idle"

\* flushall_with_backup's promise: a crash (or a failure) in the middle of a
\* FLUSHALL leaves either the old world or the new, empty one on disk.
FlushOldOrNew ==
  \/ pc \in {"wipe_snap", "wipe_open", "wipe_clear"}
  \/ pc \in {"publish", "answer"} /\ HasWipe
  => Latest(OnDisk(wal)) \in {before, {}}

\* flushall_with_backup's other promise: a commit enqueued after the FLUSHALL
\* lands on the fresh log, so once acknowledged it can be read.
CommitsAfterFlushStay ==
  [][\A c \in acked' \ acked :
       (\E f \in batch : f.wipe /\ f.id < c.id) =>
         \A k \in Touched(c) : NewerOrDeleted(VisibleAt(mem, visible), c, k)]_vars
=============================================================================
