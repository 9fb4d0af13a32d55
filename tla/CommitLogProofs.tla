-------------------------- MODULE CommitLogProofs --------------------------
(***************************************************************************)
(* Theorems about CommitLog, for every set of keys, every set of write     *)
(* sets and every bound: the type invariant, that a published snapshot     *)
(* never changes, that a poisoned log promises nothing more; and what is   *)
(* kept through crashes, failed writes, checkpoints and FLUSHALLs: an       *)
(* acknowledged commit is found again by recovery and read at once by its  *)
(* caller, and recovery gives the state after a prefix of the commits.     *)
(***************************************************************************)
EXTENDS CommitLog, WellFoundedInduction, TLAPS

\* The flusher has drained a group and not yet published its timestamps.
Unpublished == {"append", "sync", "wipe", "wipe_snap", "wipe_open", "wipe_clear",
                "apply", "publish"}

\* Timestamps are handed out in queue order: what waits is newer than what is
\* being flushed, which is newer than what is published.
CommitOrder ==
  /\ visible <= clock /\ appended <= clock
  /\ \A c \in queue \cup batch : c.ts <= clock
  /\ \A c \in queue : visible < c.ts /\ \A d \in batch : d.ts < c.ts
  /\ pc \in Unpublished => \A c \in batch : visible < c.ts
  /\ pc = "idle" => batch = {}
  /\ ~up => queue = {} /\ pc = "idle"

\* A log is fsynced, or renamed, only while it is sound, and whoever holds the
\* wal mutex holds it alone.
LogGuarded ==
  /\ FlusherHoldsWal => ~poisoned /\ ~CheckpointHoldsWal
  /\ CheckpointHoldsWal => ~poisoned
  /\ ~up => ~poisoned

-----------------------------------------------------------------------------
\* The types of what Enqueue puts in the queue.
LEMMA EnqueuedIsCommit ==
  ASSUME TypeOK, NEW P \in SUBSET Key, NEW D \in SUBSET Key,
         NEW e \in BOOLEAN, NEW f \in BOOLEAN
  PROVE  [id |-> nextId + 1, ts |-> clock + 1, puts |-> P, dels |-> D,
          cond |-> e, wipe |-> f] \in Commit
BY SMT DEF TypeOK, Commit

\* Applying commits adds typed versions.
LEMMA VersionsOfType ==
  ASSUME NEW C \in SUBSET Commit
  PROVE  VersionsOf(C) \in SUBSET Version
<1>1. SUFFICES ASSUME NEW c \in C, NEW k \in Touched(c)
               PROVE  [key |-> k, id |-> c.id, ts |-> c.ts, live |-> k \in c.puts] \in Version
  BY DEF VersionsOf
<1>2. c \in Commit
  OBVIOUS
<1>3. k \in Key
  BY <1>2 DEF Touched, Commit
<1>4. c.id \in Nat /\ c.ts \in Nat
  BY <1>2 DEF Commit
<1>5. (k \in c.puts) \in BOOLEAN
  OBVIOUS
<1>. QED  BY <1>3, <1>4, <1>5 DEF Version

\* Recovery reads typed versions.
LEMMA OnDiskType ==
  ASSUME TypeOK
  PROVE  OnDisk(wal) \in SUBSET Version
<1>1. seg \cup wal \in SUBSET Commit
  BY DEF TypeOK
<1>2. VersionsOf(seg \cup wal) \in SUBSET Version
  BY <1>1, VersionsOfType
<1>. QED  BY <1>2 DEF OnDisk, TypeOK

\* What a crash leaves of the log is part of it.
LEMMA CutType ==
  ASSUME TypeOK, NEW n \in Nat
  PROVE  Cut(n) \in SUBSET Commit /\ Cut(n) \subseteq wal
BY DEF TypeOK, Cut

\* The checkpointer at rest is typed.
LEMMA NoCheckpointType ==
  NoCheckpoint \in [pc : {"idle", "truncate", "read", "rename", "remove"},
                    ts : Nat, tmp : SUBSET Version]
BY DEF NoCheckpoint

\* The larger of two numbers is a number no smaller than either.
LEMMA LargerType ==
  ASSUME NEW m \in Nat, NEW n \in Nat
  PROVE  /\ Larger(m, n) \in Nat /\ m <= Larger(m, n) /\ n <= Larger(m, n)
         /\ Larger(m, n) \in {m, n}
BY DEF Larger

-----------------------------------------------------------------------------
\* Every step keeps every variable in its type.
LEMMA TypeStep ==
  ASSUME TypeOK, [Next]_vars
  PROVE  TypeOK'
<1>. USE DEF TypeOK, front, flusher, files, ghosts
<1>1. ASSUME NEW w \in Write, Submit(w)
      PROVE  TypeOK'
  <2>1. w \in WriteSet
    BY <1>1, WriteAssumption
  <2>2. w.puts \in SUBSET Key /\ w.dels \in SUBSET Key /\ w.cond \in BOOLEAN
    BY <2>1 DEF WriteSet
  <2>3. [id |-> nextId + 1, ts |-> clock + 1, puts |-> w.puts, dels |-> w.dels,
         cond |-> w.cond, wipe |-> FALSE] \in Commit
    BY <2>2, EnqueuedIsCommit
  <2>4. queue' \subseteq Commit
    BY <1>1, <2>3 DEF Submit, Enqueue
  <2>. QED  BY <1>1, <2>4 DEF Submit, Enqueue
<1>2. ASSUME SubmitFlushAll
      PROVE  TypeOK'
  <2>1. queue' \subseteq Commit
    BY <1>2, EnqueuedIsCommit DEF SubmitFlushAll, Enqueue
  <2>. QED  BY <1>2, <2>1 DEF SubmitFlushAll, Enqueue
<1>3. CASE Drain
  BY <1>3 DEF Drain, Drained
<1>4. CASE Append
  <2>1. appended' \in Nat
    BY <1>4, LargerType DEF Append, Newest, Commit
  <2>. QED  BY <1>4, <2>1 DEF Append
<1>5. CASE AppendNothing
  BY <1>5 DEF AppendNothing, AfterLog, HasWipe
<1>6. CASE AppendFails
  BY <1>6 DEF AppendFails, AfterLog, HasWipe
<1>7. CASE Sync
  BY <1>7 DEF Sync, AfterLog, HasWipe
<1>8. CASE SyncFails
  BY <1>8 DEF SyncFails, AfterLog, HasWipe
<1>9. CASE WipeRenameLog
  BY <1>9, OnDiskType DEF WipeRenameLog, Latest
<1>10. CASE WipeRefused
  BY <1>10, OnDiskType DEF WipeRefused, Latest
<1>11. CASE WipeRenameSnap
  BY <1>11 DEF WipeRenameSnap, AfterLog, HasWipe
<1>12. CASE WipeSnapFails
  BY <1>12 DEF WipeSnapFails, AfterLog, HasWipe
<1>13. CASE WipeClear
  BY <1>13 DEF WipeClear, AfterLog, HasWipe
<1>14. CASE WipeOpen
  BY <1>14 DEF WipeOpen, Doomed, Commit
<1>15. CASE WipeOpenFails
  BY <1>15 DEF WipeOpenFails, Doomed, Commit
<1>16. CASE Apply
  <2>1. VersionsOf(kept) \in SUBSET Version
    BY VersionsOfType
  <2>. QED  BY <1>16, <2>1 DEF Apply
<1>17. CASE Publish
  <2>1. visible' \in Nat
    BY <1>17, LargerType DEF Publish, Newest, Commit
  <2>. QED  BY <1>17, <2>1 DEF Publish
<1>18. CASE Answer
  BY <1>18 DEF Answer
<1>19. CASE CkptRotate
  BY <1>19 DEF CkptRotate, NoCheckpoint
<1>20. CASE CkptFold
  BY <1>20 DEF CkptFold, NoCheckpoint
<1>21. CASE CkptTruncate
  BY <1>21 DEF CkptTruncate, NoCheckpoint
<1>22. CASE CkptSyncFails
  BY <1>22, NoCheckpointType DEF CkptSyncFails
<1>23. CASE CkptRename
  BY <1>23, NoCheckpointType DEF CkptRename
<1>24. CASE CkptRemove
  BY <1>24, NoCheckpointType DEF CkptRemove
<1>25. CASE CkptFails
  BY <1>25, NoCheckpointType DEF CkptFails
<1>26. CASE CkptRead
  BY <1>26 DEF CkptRead, VisibleAt
<1>27. CASE Crash
  <2>1. wal' \subseteq Commit /\ synced' \subseteq wal'
    BY <1>27, CutType DEF Crash
  <2>2. floor' \in Nat
    BY <1>27 DEF Crash, Doomed, Commit
  <2>3. ckpt' \in [pc : {"idle", "truncate", "read", "rename", "remove"}, ts : Nat,
        tmp : SUBSET Version]
    BY <1>27, NoCheckpointType DEF Crash
  <2>4. up' \in BOOLEAN /\ poisoned' \in BOOLEAN /\ flushOk' \in BOOLEAN /\ wipeOk' \in BOOLEAN
    BY <1>27 DEF Crash
  <2>5. clock' \in Nat /\ visible' \in Nat /\ appended' \in Nat /\ nextId' \in Nat
        /\ boots' \in Nat /\ wipes' \in Nat
    BY <1>27 DEF Crash
  <2>. QED  BY <1>27, <2>1, <2>2, <2>3, <2>4, <2>5 DEF Crash
<1>28. CASE Recover
  <2>1. OnDisk(wal) \in SUBSET Version
    BY OnDiskType
  <2>2. mem' \subseteq Version
    BY <1>28, <2>1 DEF Recover
  <2>3. clock' \in Nat /\ visible' \in Nat /\ appended' \in Nat
    BY <1>28, <2>1 DEF Recover, Version
  <2>. QED  BY <1>28, <2>2, <2>3 DEF Recover
<1>29. CASE UNCHANGED vars
  BY <1>29 DEF vars
<1>. QED
  BY <1>1, <1>2, <1>3, <1>4, <1>5, <1>6, <1>7, <1>8, <1>9, <1>10, <1>11, <1>12, <1>13, <1>14,
     <1>15, <1>16, <1>17, <1>18, <1>19, <1>20, <1>21, <1>22, <1>23, <1>24, <1>25, <1>26, <1>27,
     <1>28, <1>29
     DEF Next, FlushStep, CkptStep

\* The initial state is typed.
LEMMA InitType == ASSUME Init PROVE TypeOK
<1>1. ckpt \in [pc : {"idle", "truncate", "read", "rename", "remove"}, ts : Nat,
      tmp : SUBSET Version]
  BY NoCheckpointType DEF Init
<1>2. up \in BOOLEAN /\ poisoned \in BOOLEAN /\ flushOk \in BOOLEAN /\ wipeOk \in BOOLEAN
  BY DEF Init
<1>3. clock \in Nat /\ visible \in Nat /\ appended \in Nat /\ nextId \in Nat /\ boots \in Nat
      /\ wipes \in Nat /\ floor \in Nat
  BY DEF Init
<1>. QED  BY <1>1, <1>2, <1>3 DEF Init, TypeOK

\* Every variable of the write path keeps its type, for any keys and write sets.
THEOREM TypeCorrect == Spec => []TypeOK
<1>1. Init => TypeOK
  BY InitType
<1>2. TypeOK /\ [Next]_vars => TypeOK'
  BY TypeStep
<1>. QED  BY <1>1, <1>2, PTL DEF Spec

-----------------------------------------------------------------------------
\* Every step hands out, publishes and drains timestamps in order.
LEMMA OrderStep ==
  ASSUME TypeOK, CommitOrder, [Next]_vars
  PROVE  CommitOrder'
<1>. USE DEF CommitOrder, Unpublished, front, flusher, files, ghosts
<1>1. ASSUME NEW c, c.ts = clock + 1, Enqueue(c)
      PROVE  CommitOrder'
  <2>1. \A d \in queue \cup batch : d.ts \in Nat
    BY DEF TypeOK, Commit
  <2>2. visible \in Nat /\ clock \in Nat /\ appended \in Nat
    BY DEF TypeOK
  <2>. QED  BY <1>1, <2>1, <2>2 DEF Enqueue
<1>2. CASE \E w \in Write : Submit(w)
  BY <1>1, <1>2 DEF Submit
<1>3. CASE SubmitFlushAll
  BY <1>1, <1>3 DEF SubmitFlushAll
<1>4. CASE Drain
  BY <1>4 DEF Drain, Drained
<1>5. CASE Append
  <2>1. PICK c \in batch : appended' = Larger(appended, c.ts)
    BY <1>5 DEF Append
  <2>2. appended' \in {appended, c.ts}
    BY <2>1, LargerType DEF TypeOK, Commit
  <2>. QED  BY <1>5, <2>2 DEF Append
<1>6. CASE Publish
  <2>1. PICK c \in batch : Newest(batch, c) /\ visible' = Larger(visible, c.ts)
    BY <1>6 DEF Publish
  <2>2. visible' \in {visible, c.ts}
    BY <2>1, LargerType DEF TypeOK, Commit
  <2>. QED  BY <1>6, <2>1, <2>2 DEF Publish
<1>7. CASE Crash
  BY <1>7 DEF Crash
<1>8. CASE Recover
  BY <1>8 DEF Recover, TypeOK
<1>9. CASE AppendNothing
  BY <1>9 DEF AppendNothing, AfterLog
<1>10. CASE AppendFails
  BY <1>10 DEF AppendFails, AfterLog
<1>11. CASE Sync
  BY <1>11 DEF Sync, AfterLog
<1>12. CASE SyncFails
  BY <1>12 DEF SyncFails, AfterLog
<1>13. CASE WipeRenameLog
  BY <1>13 DEF WipeRenameLog
<1>14. CASE WipeRefused
  BY <1>14 DEF WipeRefused
<1>15. CASE WipeRenameSnap
  BY <1>15 DEF WipeRenameSnap
<1>16. CASE WipeSnapFails
  BY <1>16 DEF WipeSnapFails
<1>17. CASE WipeOpen
  BY <1>17 DEF WipeOpen
<1>18. CASE WipeOpenFails
  BY <1>18 DEF WipeOpenFails
<1>19. CASE WipeClear
  BY <1>19 DEF WipeClear
<1>20. CASE Apply
  BY <1>20 DEF Apply
<1>21. CASE Answer
  BY <1>21 DEF Answer
<1>22. CASE CkptRotate
  BY <1>22 DEF CkptRotate
<1>23. CASE CkptFold
  BY <1>23 DEF CkptFold
<1>24. CASE CkptTruncate
  BY <1>24 DEF CkptTruncate
<1>25. CASE CkptSyncFails
  BY <1>25 DEF CkptSyncFails
<1>26. CASE CkptRead
  BY <1>26 DEF CkptRead
<1>27. CASE CkptRename
  BY <1>27 DEF CkptRename
<1>28. CASE CkptRemove
  BY <1>28 DEF CkptRemove
<1>29. CASE CkptFails
  BY <1>29 DEF CkptFails
<1>30. CASE UNCHANGED vars
  BY <1>30 DEF vars
<1>. QED
  BY <1>1, <1>2, <1>3, <1>4, <1>5, <1>6, <1>7, <1>8, <1>9, <1>10, <1>11, <1>12, <1>13, <1>14, <1>15,
     <1>16, <1>17, <1>18, <1>19, <1>20, <1>21, <1>22, <1>23, <1>24, <1>25, <1>26, <1>27, <1>28,
     <1>29, <1>30
     DEF Next, FlushStep, CkptStep

\* Every step respects the wal mutex and the poison.
LEMMA GuardStep ==
  ASSUME TypeOK, CommitOrder, LogGuarded, [Next]_vars
  PROVE  LogGuarded'
<1>. USE DEF LogGuarded, FlusherHoldsWal, CheckpointHoldsWal, Sound, front, flusher, files, ghosts
<1>1. ASSUME NEW c, Enqueue(c)
      PROVE  LogGuarded'
  BY <1>1 DEF Enqueue
<1>2. CASE \E w \in Write : Submit(w)
  BY <1>1, <1>2 DEF Submit
<1>3. CASE SubmitFlushAll
  BY <1>1, <1>3 DEF SubmitFlushAll
<1>4. CASE Drain
  BY <1>4 DEF Drain, Drained
<1>5. CASE Append
  BY <1>5 DEF Append
<1>6. CASE AppendNothing
  BY <1>6 DEF AppendNothing, AfterLog
<1>7. CASE AppendFails
  BY <1>7 DEF AppendFails, AfterLog
<1>8. CASE Sync
  BY <1>8 DEF Sync, AfterLog
<1>9. CASE SyncFails
  BY <1>9 DEF SyncFails, AfterLog
<1>10. CASE WipeRenameLog
  BY <1>10 DEF WipeRenameLog
<1>11. CASE WipeRefused
  BY <1>11 DEF WipeRefused
<1>12. CASE WipeRenameSnap
  BY <1>12 DEF WipeRenameSnap
<1>13. CASE WipeSnapFails
  BY <1>13 DEF WipeSnapFails
<1>14. CASE WipeOpen
  BY <1>14 DEF WipeOpen
<1>15. CASE WipeOpenFails
  BY <1>15 DEF WipeOpenFails
<1>16. CASE WipeClear
  BY <1>16 DEF WipeClear
<1>17. CASE Apply
  BY <1>17 DEF Apply
<1>18. CASE Publish
  BY <1>18 DEF Publish
<1>19. CASE Answer
  BY <1>19 DEF Answer
<1>20. CASE CkptRotate
  BY <1>20 DEF CkptRotate, NoCheckpoint, TypeOK
<1>21. CASE CkptFold
  BY <1>21 DEF CkptFold, NoCheckpoint, TypeOK
<1>22. CASE CkptTruncate
  BY <1>22 DEF CkptTruncate, NoCheckpoint, TypeOK
<1>23. CASE CkptSyncFails
  BY <1>23 DEF CkptSyncFails, NoCheckpoint, TypeOK
<1>24. CASE CkptRead
  BY <1>24 DEF CkptRead, NoCheckpoint, TypeOK
<1>25. CASE CkptRename
  BY <1>25 DEF CkptRename, NoCheckpoint, TypeOK
<1>26. CASE CkptRemove
  BY <1>26 DEF CkptRemove, NoCheckpoint, TypeOK
<1>27. CASE CkptFails
  BY <1>27 DEF CkptFails, NoCheckpoint, TypeOK
<1>28. CASE Crash
  BY <1>28 DEF Crash, NoCheckpoint
<1>29. CASE Recover
  BY <1>29 DEF Recover, CommitOrder
<1>30. CASE UNCHANGED vars
  BY <1>30 DEF vars
<1>. QED
  BY <1>1, <1>2, <1>3, <1>4, <1>5, <1>6, <1>7, <1>8, <1>9, <1>10, <1>11, <1>12, <1>13, <1>14, <1>15,
     <1>16, <1>17, <1>18, <1>19, <1>20, <1>21, <1>22, <1>23, <1>24, <1>25, <1>26, <1>27, <1>28,
     <1>29, <1>30
     DEF Next, FlushStep, CkptStep

\* The inductive invariant behind the theorems below.
IInv == TypeOK /\ CommitOrder /\ LogGuarded

\* Timestamps are published in the order they were handed out, and the log is
\* written only by one holder of its mutex while it is sound.
THEOREM Invariance == Spec => []IInv
<1>1. Init => IInv
  <2>1. Init => TypeOK
    BY InitType
  <2>2. Init => CommitOrder
    BY DEF Init, CommitOrder, Unpublished
  <2>3. Init => LogGuarded
    BY DEF Init, LogGuarded, FlusherHoldsWal, CheckpointHoldsWal, NoCheckpoint
  <2>. QED  BY <2>1, <2>2, <2>3 DEF IInv
<1>2. IInv /\ [Next]_vars => IInv'
  BY TypeStep, OrderStep, GuardStep DEF IInv
<1>. QED  BY <1>1, <1>2, PTL DEF Spec

-----------------------------------------------------------------------------
\* Versions newer than a snapshot do not change what it shows.
LEMMA LaterVersionsAreInvisible ==
  ASSUME NEW vs \in SUBSET Version, NEW new \in SUBSET Version, NEW s \in Nat,
         \A v \in new : s < v.ts
  PROVE  VisibleAt(vs \cup new, s) = VisibleAt(vs, s)
<1>1. \A v \in vs \cup new : v.ts \in Nat
  BY DEF Version
<1>. QED  BY <1>1 DEF VisibleAt

\* Only Apply, a wipe and a restart change the chains.
LEMMA ChainsChange ==
  ASSUME [Next]_vars, up, up', pc # "wipe_clear", mem' # mem
  PROVE  Apply
<1>. USE DEF front, flusher, files, ghosts
<1>1. ASSUME NEW c, Enqueue(c)
      PROVE  mem' = mem
  BY <1>1 DEF Enqueue
<1>2. CASE \E w \in Write : Submit(w)
  BY <1>1, <1>2 DEF Submit
<1>3. CASE SubmitFlushAll
  BY <1>1, <1>3 DEF SubmitFlushAll
<1>4. CASE Drain
  BY <1>4 DEF Drain, Drained
<1>5. CASE Append
  BY <1>5 DEF Append
<1>6. CASE AppendNothing
  BY <1>6 DEF AppendNothing
<1>7. CASE AppendFails
  BY <1>7 DEF AppendFails
<1>8. CASE Sync
  BY <1>8 DEF Sync
<1>9. CASE SyncFails
  BY <1>9 DEF SyncFails
<1>10. CASE WipeRenameLog
  BY <1>10 DEF WipeRenameLog
<1>11. CASE WipeRefused
  BY <1>11 DEF WipeRefused
<1>12. CASE WipeRenameSnap
  BY <1>12 DEF WipeRenameSnap
<1>13. CASE WipeSnapFails
  BY <1>13 DEF WipeSnapFails
<1>14. CASE WipeOpen
  BY <1>14 DEF WipeOpen
<1>15. CASE WipeOpenFails
  BY <1>15 DEF WipeOpenFails
<1>16. CASE Publish
  BY <1>16 DEF Publish
<1>17. CASE Answer
  BY <1>17 DEF Answer
<1>18. CASE CkptRotate
  BY <1>18 DEF CkptRotate
<1>19. CASE CkptFold
  BY <1>19 DEF CkptFold
<1>20. CASE CkptTruncate
  BY <1>20 DEF CkptTruncate
<1>21. CASE CkptSyncFails
  BY <1>21 DEF CkptSyncFails
<1>22. CASE CkptRead
  BY <1>22 DEF CkptRead
<1>23. CASE CkptRename
  BY <1>23 DEF CkptRename
<1>24. CASE CkptRemove
  BY <1>24 DEF CkptRemove
<1>25. CASE CkptFails
  BY <1>25 DEF CkptFails
<1>26. ~WipeClear /\ ~Crash /\ ~Recover
  BY DEF WipeClear, Crash, Recover
<1>27. CASE UNCHANGED vars
  BY <1>27 DEF vars
<1>. QED
  BY <1>1, <1>2, <1>3, <1>4, <1>5, <1>6, <1>7, <1>8, <1>9, <1>10, <1>11, <1>12, <1>13, <1>14, <1>15,
     <1>16, <1>17, <1>18, <1>19, <1>20, <1>21, <1>22, <1>23, <1>24, <1>25, <1>26, <1>27
     DEF Next, FlushStep, CkptStep

\* A published snapshot never changes, however commits, checkpoints, failures
\* and callers interleave: every version is applied above visible_ts.
THEOREM StableSnapshots == Spec => SnapshotsAreStable
<1>1. ASSUME IInv, [Next]_vars, up, up', pc # "wipe_clear", NEW s \in 0..visible
      PROVE  VisibleAt(mem', s) = VisibleAt(mem, s)
  <2>1. CASE mem' = mem
    BY <2>1
  <2>2. CASE mem' # mem
    <3>1. Apply
      BY <1>1, <2>2, ChainsChange
    <3>2. mem' = mem \cup VersionsOf(kept)
      BY <2>2, <3>1 DEF Apply
    <3>3. s \in Nat /\ s <= visible /\ visible \in Nat
      BY <1>1 DEF IInv, TypeOK
    <3>4. kept \in SUBSET Commit /\ mem \in SUBSET Version /\ kept \subseteq batch
      BY <1>1 DEF IInv, TypeOK
    <3>5. \A c \in kept : c.ts \in Nat /\ visible < c.ts
      BY <1>1, <3>1, <3>4 DEF IInv, CommitOrder, Apply, Unpublished, Commit
    <3>6. \A v \in VersionsOf(kept) : \E c \in kept : v.ts = c.ts
      BY DEF VersionsOf
    <3>7. \A v \in VersionsOf(kept) : s < v.ts
      BY <3>3, <3>5, <3>6
    <3>. QED  BY <3>2, <3>3, <3>4, <3>7, VersionsOfType, LaterVersionsAreInvisible
  <2>. QED  BY <2>1, <2>2
<1>2. IInv /\ [Next]_vars =>
        [up /\ up' /\ pc # "wipe_clear" =>
           \A s \in 0..visible : VisibleAt(mem', s) = VisibleAt(mem, s)]_vars
  BY <1>1
<1>. QED  BY <1>2, Invariance, PTL DEF Spec, SnapshotsAreStable

-----------------------------------------------------------------------------
\* What a step of a running, poisoned log may do.
Poisoned == poisoned' /\ synced' \subseteq synced /\ (acked' # acked => flushOk)

\* Once poisoned, the log stays so until a restart: no fsync covers another
\* frame, and only a group whose own fsync had succeeded is still answered Ok.
THEOREM PoisonStays == Spec => PoisonIsFinal
<1>1. ASSUME IInv, [Next]_vars, poisoned, up'
      PROVE  Poisoned
  <2>. USE <1>1 DEF Poisoned, IInv, LogGuarded, Sound, FlusherHoldsWal, CheckpointHoldsWal,
                    front, flusher, files, ghosts
  <2>1. ASSUME NEW c, Enqueue(c)
        PROVE  Poisoned
    BY <2>1 DEF Enqueue
  <2>2. CASE \E w \in Write : Submit(w)
    BY <2>1, <2>2 DEF Submit
  <2>3. CASE SubmitFlushAll
    BY <2>1, <2>3 DEF SubmitFlushAll
  <2>4. CASE Drain
    BY <2>4 DEF Drain, Drained
  <2>5. CASE Append
    BY <2>5 DEF Append
  <2>6. CASE AppendNothing
    BY <2>6 DEF AppendNothing
  <2>7. CASE AppendFails
    BY <2>7 DEF AppendFails
  <2>8. CASE Sync
    BY <2>8 DEF Sync
  <2>9. CASE SyncFails
    BY <2>9 DEF SyncFails
  <2>10. CASE WipeRenameLog
    BY <2>10 DEF WipeRenameLog
  <2>11. CASE WipeRefused
    BY <2>11 DEF WipeRefused
  <2>12. CASE WipeRenameSnap
    BY <2>12 DEF WipeRenameSnap
  <2>13. CASE WipeSnapFails
    BY <2>13 DEF WipeSnapFails
  <2>14. CASE WipeOpen
    BY <2>14 DEF WipeOpen
  <2>15. CASE WipeOpenFails
    BY <2>15 DEF WipeOpenFails
  <2>16. CASE Publish
    BY <2>16 DEF Publish
  <2>17. CASE Answer
    BY <2>17 DEF Answer
  <2>18. CASE CkptRotate
    BY <2>18 DEF CkptRotate
  <2>19. CASE CkptFold
    BY <2>19 DEF CkptFold
  <2>20. CASE CkptTruncate
    BY <2>20 DEF CkptTruncate
  <2>21. CASE CkptSyncFails
    BY <2>21 DEF CkptSyncFails
  <2>22. CASE CkptRead
    BY <2>22 DEF CkptRead
  <2>23. CASE CkptRename
    BY <2>23 DEF CkptRename
  <2>24. CASE CkptRemove
    BY <2>24 DEF CkptRemove
  <2>25. CASE CkptFails
    BY <2>25 DEF CkptFails
  <2>26. CASE WipeClear
    BY <2>26 DEF WipeClear
  <2>27. CASE Apply
    BY <2>27 DEF Apply
  <2>28. CASE Crash
    BY <2>28 DEF Crash
  <2>29. CASE Recover
    BY <2>29 DEF Recover
  <2>30. CASE UNCHANGED vars
    BY <2>30 DEF vars
  <2>. QED
    BY <2>1, <2>2, <2>3, <2>4, <2>5, <2>6, <2>7, <2>8, <2>9, <2>10, <2>11, <2>12, <2>13, <2>14,
       <2>15,
       <2>16, <2>17, <2>18, <2>19, <2>20, <2>21, <2>22, <2>23, <2>24, <2>25, <2>26, <2>27, <2>28,
       <2>29, <2>30
       DEF Next, FlushStep, CkptStep
<1>2. IInv /\ [Next]_vars => [poisoned /\ up' => Poisoned]_vars
  BY <1>1
<1>. QED  BY <1>2, Invariance, PTL DEF Spec, PoisonIsFinal, Poisoned

-----------------------------------------------------------------------------
(* Recovery.                                                               *)

Wiping == {"wipe", "wipe_snap", "wipe_open", "wipe_clear"}
AfterSync == Wiping \cup {"apply", "publish", "answer"}

\* The live log, wherever a wipe has it for the moment.
Live == IF pc \in {"wipe_snap", "wipe_open"} THEN bak ELSE wal

\* The commits no crash can take back.
Durable == logged \ (wal \ synced)

\* The commits of the group that will be answered Ok.
Promised == IF flushOk /\ wipeOk /\ pc \in AfterSync THEN kept ELSE {}

\* The commits that must be found: all durable ones as long as no FLUSHALL was
\* submitted, afterwards those answered Ok, or about to be.
Obliged == {c \in IF wipes = 0 THEN Durable ELSE acked \cup Promised : c.id > floor}

\* A set of versions accounts for a commit: at each of its keys it has the
\* commit's version or a newer one, or nothing, because a deletion followed.
Holds(vs, D, c) ==
  \A k \in Touched(c) :
    \/ \E v \in vs : v.key = k /\ v.id >= c.id
    \/ /\ \A v \in vs : v.key # k
       /\ \E d \in D : d.id >= c.id /\ k \in d.dels

\* The versions at or below a timestamp.
UpTo(vs, s) == {v \in vs : v.ts <= s}

-----------------------------------------------------------------------------
Filed == wal \cup seg \cup bak \cup mem \cup snap \cup ckpt.tmp
Stamped == queue \cup batch \cup Filed

\* Commits are numbered in the order they are submitted, and the timestamps in
\* use, which a restart may hand out again, agree with that order.
Numbered ==
  /\ \A c \in queue \cup batch \cup logged : 1 <= c.id /\ c.id <= nextId
  /\ \A c, d \in queue \cup batch \cup logged : c.id = d.id => c = d
  /\ \A c \in queue, d \in batch \cup logged : d.id < c.id
  /\ \A c \in batch, d \in logged \ kept : d.id < c.id
  /\ \A x, y \in Stamped : x.id < y.id <=> x.ts < y.ts
  /\ up => \A x \in Stamped : x.ts <= clock

\* A commit writes something, unless it is a FLUSHALL, and no key twice.
WellFormed(c) == (Touched(c) = {} => c.wipe) /\ c.puts \cap c.dels = {}

\* What the files and the chains hold comes from commits that were logged, and
\* all but the end of the live log is durable.
Sourced ==
  /\ wal \subseteq logged /\ acked \subseteq Durable
  /\ seg \cup bak \subseteq Durable
  /\ mem \cup snap \cup ckpt.tmp \subseteq VersionsOf(Durable)
  /\ \A c \in queue \cup batch \cup logged : WellFormed(c)
  /\ \A c \in logged \cup kept : ~c.wipe
  /\ \A c \in wal \ synced, d \in Durable : d.id < c.id
  /\ Sound /\ pc # "sync" => synced = wal
  /\ ~up => synced = wal /\ bak = {} /\ mem = {} /\ ckpt = NoCheckpoint

\* How far the group the flusher drained has come.
Grouped ==
  /\ pc = "append" => kept \cap logged = {} /\ flushOk
  /\ pc = "sync" => kept \subseteq wal \ synced /\ wal \ synced \subseteq kept /\ flushOk
  /\ pc \in AfterSync /\ flushOk => kept \subseteq Durable
  /\ ~flushOk => kept \cap Durable = {}
  /\ kept \cap acked = {}
  /\ pc \in AfterSync \cup {"sync"} /\ flushOk /\ kept # {} => \A c \in batch : c.ts <= appended
  /\ pc = "idle" => kept = {}

\* A FLUSHALL runs only when one was submitted, and once it has a fresh log
\* all that came before is gone.
Wiped ==
  /\ pc \in Wiping => HasWipe
  /\ wipes = 0 => floor = 0 /\ wipeOk /\ \A c \in queue \cup batch : ~c.wipe
  /\ pc = "wipe_clear" => \A c \in acked \cup batch : c.id <= floor

\* The chains are ahead of visible_ts by the group in flight at most, and never
\* ahead of the log.  A fold copies the whole log before it truncates it.
Chained ==
  /\ \A v \in mem : v.ts <= appended
  /\ \A v \in mem : visible < v.ts => pc = "publish" /\ \E c \in kept : v.id = c.id
  /\ ckpt.pc = "truncate" => wal \subseteq seg
  /\ ~segUp => seg = {}

-----------------------------------------------------------------------------
\* A version is what some commit wrote to some key.
LEMMA InVersionsOf ==
  ASSUME NEW C, NEW v
  PROVE  v \in VersionsOf(C) <=>
           \E c \in C : \E k \in Touched(c) :
             v = [key |-> k, id |-> c.id, ts |-> c.ts, live |-> k \in c.puts]
BY DEF VersionsOf

\* More commits, more versions.
LEMMA VersionsGrow ==
  ASSUME NEW C, NEW D, C \subseteq D
  PROVE  VersionsOf(C) \subseteq VersionsOf(D)
BY DEF VersionsOf

\* No step takes back what is durable, and only an fsync and a crash, which
\* keeps part of the unsynced tail, add to it.
LEMMA DurableStep ==
  ASSUME TypeOK, CommitOrder, LogGuarded, Sourced, Grouped, [Next]_vars
  PROVE  /\ Durable \subseteq Durable'
         /\ ~Sync /\ ~Crash => Durable' = Durable
<1>. USE DEF Durable, TypeOK, LogGuarded, Sourced, Grouped, Sound, FlusherHoldsWal,
     CheckpointHoldsWal,
             front, flusher, files, ghosts
<1>1. CASE \E w \in Write : Submit(w)
  BY <1>1 DEF Submit, Enqueue
<1>2. CASE SubmitFlushAll
  BY <1>2 DEF SubmitFlushAll, Enqueue
<1>3. CASE Drain
  BY <1>3 DEF Drain
<1>4. CASE Append
  BY <1>4 DEF Append
<1>5. CASE AppendNothing
  BY <1>5 DEF AppendNothing
<1>6. CASE AppendFails
  BY <1>6 DEF AppendFails
<1>7. CASE Sync
  BY <1>7 DEF Sync
<1>8. CASE SyncFails
  BY <1>8 DEF SyncFails
<1>9. CASE WipeRenameLog
  BY <1>9 DEF WipeRenameLog
<1>10. CASE WipeRefused
  BY <1>10 DEF WipeRefused
<1>11. CASE WipeRenameSnap
  BY <1>11 DEF WipeRenameSnap
<1>12. CASE WipeSnapFails
  BY <1>12 DEF WipeSnapFails
<1>13. CASE WipeClear
  BY <1>13 DEF WipeClear
<1>14. CASE WipeOpen
  BY <1>14 DEF WipeOpen
<1>15. CASE WipeOpenFails
  BY <1>15 DEF WipeOpenFails
<1>16. CASE Apply
  BY <1>16 DEF Apply
<1>17. CASE Publish
  BY <1>17 DEF Publish
<1>18. CASE Answer
  BY <1>18 DEF Answer
<1>19. CASE CkptRotate
  BY <1>19 DEF CkptRotate
<1>20. CASE CkptFold
  BY <1>20 DEF CkptFold
<1>21. CASE CkptTruncate
  BY <1>21 DEF CkptTruncate
<1>22. CASE CkptSyncFails
  BY <1>22 DEF CkptSyncFails
<1>23. CASE CkptRename
  BY <1>23 DEF CkptRename
<1>24. CASE CkptRemove
  BY <1>24 DEF CkptRemove
<1>25. CASE CkptFails
  BY <1>25 DEF CkptFails
<1>26. CASE CkptRead
  BY <1>26 DEF CkptRead
<1>27. CASE Crash
  BY <1>27 DEF Crash, Cut
<1>28. CASE Recover
  BY <1>28 DEF Recover
<1>29. CASE UNCHANGED vars
  BY <1>29 DEF vars
<1>. QED
  BY <1>1, <1>2, <1>3, <1>4, <1>5, <1>6, <1>7, <1>8, <1>9, <1>10, <1>11, <1>12, <1>13, <1>14,
     <1>15, <1>16, <1>17, <1>18, <1>19, <1>20, <1>21, <1>22, <1>23, <1>24, <1>25, <1>26, <1>27,
     <1>28, <1>29
     DEF Next, FlushStep, CkptStep

\* A version carries the number and the timestamp of its commit.
LEMMA VersionsCarry ==
  ASSUME NEW C, NEW v \in VersionsOf(C)
  PROVE  \E c \in C : /\ v.id = c.id /\ v.ts = c.ts
                      /\ v.key \in Touched(c)
                      /\ v.live = (v.key \in c.puts)
<1>1. PICK c \in C : \E k \in Touched(c) :
        v = [key |-> k, id |-> c.id, ts |-> c.ts, live |-> k \in c.puts]
  BY InVersionsOf
<1>. PICK k \in Touched(c) :
        v = [key |-> k, id |-> c.id, ts |-> c.ts, live |-> k \in c.puts]
  BY <1>1
<1>2. v.id = c.id /\ v.ts = c.ts /\ v.key = k
  OBVIOUS
<1>3. v.live = (k \in c.puts)
  OBVIOUS
<1>. QED  BY <1>2, <1>3

\* A commit has a version at each key it touches.
LEMMA VersionsReach ==
  ASSUME NEW C, NEW e \in C, NEW k \in Touched(e)
  PROVE  \E v \in VersionsOf(C) : /\ v.key = k /\ v.id = e.id /\ v.ts = e.ts
                                  /\ v.live = (k \in e.puts)
<1>. DEFINE v == [key |-> k, id |-> e.id, ts |-> e.ts, live |-> k \in e.puts]
<1>1. v \in VersionsOf(C)
  BY InVersionsOf
<1>2. v.key = k /\ v.id = e.id /\ v.ts = e.ts
  OBVIOUS
<1>3. v.live = (k \in e.puts)
  OBVIOUS
<1>. QED  BY <1>1, <1>2, <1>3

\* Whatever a step other than a submission stores was stamped before.
LEMMA StampsStep ==
  ASSUME TypeOK, CommitOrder, Sourced, Next,
         ~\E w \in Write : Submit(w), ~SubmitFlushAll
  PROVE  \A x \in Stamped' : \E y \in Stamped : x.id = y.id /\ x.ts = y.ts
<1>. USE DEF Stamped, Filed, TypeOK, front, flusher, files, ghosts
<1>1. CASE Drain
  BY <1>1 DEF Drain, Drained
<1>2. CASE Append
  BY <1>2 DEF Append
<1>3. CASE AppendNothing
  BY <1>3 DEF AppendNothing
<1>4. CASE AppendFails
  BY <1>4 DEF AppendFails
<1>5. CASE Sync
  BY <1>5 DEF Sync
<1>6. CASE SyncFails
  BY <1>6 DEF SyncFails
<1>7. CASE WipeRenameLog
  BY <1>7 DEF WipeRenameLog
<1>8. CASE WipeRefused
  BY <1>8 DEF WipeRefused
<1>9. CASE WipeRenameSnap
  BY <1>9 DEF WipeRenameSnap
<1>10. CASE WipeSnapFails
  BY <1>10 DEF WipeSnapFails
<1>11. CASE WipeOpen
  BY <1>11 DEF WipeOpen
<1>12. CASE WipeOpenFails
  BY <1>12 DEF WipeOpenFails
<1>13. CASE WipeClear
  BY <1>13 DEF WipeClear
<1>14. CASE Apply
  BY <1>14, VersionsCarry DEF Apply
<1>15. CASE Publish
  BY <1>15 DEF Publish
<1>16. CASE Answer
  BY <1>16 DEF Answer
<1>17. CASE CkptRotate
  BY <1>17 DEF CkptRotate, NoCheckpoint
<1>18. CASE CkptFold
  BY <1>18 DEF CkptFold, NoCheckpoint
<1>19. CASE CkptTruncate
  BY <1>19 DEF CkptTruncate
<1>20. CASE CkptSyncFails
  BY <1>20 DEF CkptSyncFails, NoCheckpoint
<1>21. CASE CkptFails
  BY <1>21 DEF CkptFails, NoCheckpoint
<1>22. CASE CkptRead
  BY <1>22 DEF CkptRead, VisibleAt
<1>23. CASE CkptRename
  BY <1>23 DEF CkptRename
<1>24. CASE CkptRemove
  BY <1>24 DEF CkptRemove, NoCheckpoint
<1>25. CASE Crash
  BY <1>25 DEF Crash, NoCheckpoint, Cut
<1>26. CASE Recover
  BY <1>26, VersionsCarry DEF Recover, OnDisk
<1>. QED
  BY <1>1, <1>2, <1>3, <1>4, <1>5, <1>6, <1>7, <1>8, <1>9, <1>10, <1>11, <1>12, <1>13, <1>14,
     <1>15, <1>16, <1>17, <1>18, <1>19, <1>20, <1>21, <1>22, <1>23, <1>24, <1>25, <1>26
     DEF Next, FlushStep, CkptStep

\* The commits a wipe dooms are all those of its batch, by number.
LEMMA DoomedBounds ==
  ASSUME TypeOK, NEW n, Doomed(n)
  PROVE  n \in Nat /\ \A c \in batch : c.id <= n
BY DEF TypeOK, Doomed, Commit

\* A submission is the newest commit of all.
LEMMA NumberedSubmit ==
  ASSUME TypeOK, CommitOrder, Sourced, Numbered, NEW c,
         c.id = nextId + 1, c.ts = clock + 1, Enqueue(c),
         \A x \in Stamped : x.id \in Nat /\ x.ts \in Nat /\ x.id <= nextId
  PROVE  Numbered'
<1>. USE DEF Enqueue, front, flusher, files, ghosts
<1>1. Stamped' = Stamped \cup {c} /\ logged' = logged /\ batch' = batch /\ kept' = kept
      /\ up' = up /\ clock' = clock + 1 /\ nextId' = nextId + 1 /\ queue' = queue \cup {c} /\ up
  BY DEF Stamped, Filed
<1>2. nextId \in Nat /\ clock \in Nat
  BY DEF TypeOK
<1>3. \A d \in queue \cup batch \cup logged : d.id \in Nat
  BY DEF TypeOK, Commit
<1>4. \A x, y \in Stamped' : x.id < y.id <=> x.ts < y.ts
  BY <1>1, <1>2 DEF Numbered
<1>. QED  BY <1>1, <1>2, <1>3, <1>4 DEF Numbered

\* The stamps in use are numbers, and no larger than those handed out.
LEMMA StampsType ==
  ASSUME TypeOK, Sourced, Numbered
  PROVE  \A x \in Stamped : x.id \in Nat /\ x.ts \in Nat /\ x.id <= nextId
<1>1. \A c \in queue \cup batch \cup logged : c.id \in Nat /\ c.ts \in Nat /\ c.id <= nextId
  BY DEF TypeOK, Commit, Numbered
<1>2. wal \cup seg \cup bak \subseteq logged
  BY DEF Sourced, Durable
<1>3. \A v \in mem \cup snap \cup ckpt.tmp : \E c \in logged : v.id = c.id /\ v.ts = c.ts
  BY VersionsCarry DEF Sourced, Durable
<1>. QED  BY <1>1, <1>2, <1>3 DEF Stamped, Filed

\* No step disturbs the numbering.
LEMMA NumberedStep ==
  ASSUME TypeOK, CommitOrder, Sourced, Grouped, Numbered, [Next]_vars
  PROVE  Numbered'
<1>. USE DEF front, flusher, files, ghosts
<1>1. CASE \E w \in Write : Submit(w)
  BY <1>1, StampsType, NumberedSubmit DEF Submit
<1>2. CASE SubmitFlushAll
  BY <1>2, StampsType, NumberedSubmit DEF SubmitFlushAll
<1>3. ASSUME Next, ~\E w \in Write : Submit(w), ~SubmitFlushAll
      PROVE  Numbered'
  <2>1. \A x, y \in Stamped' : x.id < y.id <=> x.ts < y.ts
    BY <1>3, StampsStep DEF Numbered
  <2>2. up' => \A x \in Stamped' : x.ts <= clock'
    <3>1. CASE ~Recover
      <4>1. up' => up /\ clock' = clock
        <5>. USE <1>3, <3>1
        <5>1. CASE Drain
          BY <5>1 DEF Drain
        <5>2. CASE Append
          BY <5>2 DEF Append
        <5>3. CASE AppendNothing
          BY <5>3 DEF AppendNothing
        <5>4. CASE AppendFails
          BY <5>4 DEF AppendFails
        <5>5. CASE Sync
          BY <5>5 DEF Sync
        <5>6. CASE SyncFails
          BY <5>6 DEF SyncFails
        <5>7. CASE WipeRenameLog
          BY <5>7 DEF WipeRenameLog
        <5>8. CASE WipeRefused
          BY <5>8 DEF WipeRefused
        <5>9. CASE WipeRenameSnap
          BY <5>9 DEF WipeRenameSnap
        <5>10. CASE WipeSnapFails
          BY <5>10 DEF WipeSnapFails
        <5>11. CASE WipeOpen
          BY <5>11 DEF WipeOpen
        <5>12. CASE WipeOpenFails
          BY <5>12 DEF WipeOpenFails
        <5>13. CASE WipeClear
          BY <5>13 DEF WipeClear
        <5>14. CASE Apply
          BY <5>14 DEF Apply
        <5>15. CASE Publish
          BY <5>15 DEF Publish
        <5>16. CASE Answer
          BY <5>16 DEF Answer
        <5>17. CASE CkptRotate
          BY <5>17 DEF CkptRotate
        <5>18. CASE CkptFold
          BY <5>18 DEF CkptFold
        <5>19. CASE CkptTruncate
          BY <5>19 DEF CkptTruncate
        <5>20. CASE CkptSyncFails
          BY <5>20 DEF CkptSyncFails
        <5>21. CASE CkptFails
          BY <5>21 DEF CkptFails
        <5>22. CASE CkptRead
          BY <5>22 DEF CkptRead
        <5>23. CASE CkptRename
          BY <5>23 DEF CkptRename
        <5>24. CASE CkptRemove
          BY <5>24 DEF CkptRemove
        <5>25. CASE Crash
          BY <5>25 DEF Crash
        <5>. QED
          BY <1>3, <3>1, <5>1, <5>2, <5>3, <5>4, <5>5, <5>6, <5>7, <5>8, <5>9, <5>10, <5>11, <5>12,
             <5>13, <5>14, <5>15, <5>16, <5>17, <5>18, <5>19, <5>20, <5>21, <5>22, <5>23, <5>24,
             <5>25
             DEF Next, FlushStep, CkptStep
      <4>. QED  BY <1>3, <4>1, StampsStep DEF Numbered
    <3>2. CASE Recover
      <4>1. queue' = {} /\ batch' = {} /\ wal' = wal /\ seg' = seg /\ snap' = snap
            /\ bak' = {} /\ ckpt'.tmp = {} /\ mem' \subseteq OnDisk(wal)
        BY <3>2 DEF Recover, CommitOrder, Sourced, NoCheckpoint
      <4>2. \A v \in OnDisk(wal) : v.ts <= clock'
        BY <3>2 DEF Recover
      <4>3. \A c \in wal \cup seg : \E v \in OnDisk(wal) : v.ts = c.ts
        <5>1. SUFFICES ASSUME NEW c \in wal \cup seg
                       PROVE  \E v \in OnDisk(wal) : v.ts = c.ts
          OBVIOUS
        <5>2. PICK k \in Touched(c) : TRUE
          BY DEF Sourced, WellFormed, Durable
        <5>. QED  BY <5>2, VersionsReach DEF OnDisk
      <4>. QED  BY <4>1, <4>2, <4>3 DEF Stamped, Filed, OnDisk
    <3>. QED  BY <3>1, <3>2
  <2>3. /\ \A c \in queue' \cup batch' \cup logged' : 1 <= c.id /\ c.id <= nextId'
        /\ \A c, d \in queue' \cup batch' \cup logged' : c.id = d.id => c = d
        /\ \A c \in queue', d \in batch' \cup logged' : d.id < c.id
        /\ \A c \in batch', d \in logged' \ kept' : d.id < c.id
    <3>. USE <1>3 DEF Numbered
    <3>1. CASE Drain
      BY <3>1 DEF Drain, Drained
    <3>2. CASE Append
      BY <3>2 DEF Append, TypeOK
    <3>3. CASE AppendNothing
      BY <3>3 DEF AppendNothing
    <3>4. CASE AppendFails
      <4>1. logged' \subseteq logged \cup kept
        BY <3>4 DEF AppendFails, Sourced
      <4>. QED  BY <3>4, <4>1 DEF AppendFails, TypeOK
    <3>5. CASE Sync
      BY <3>5 DEF Sync
    <3>6. CASE SyncFails
      BY <3>6 DEF SyncFails
    <3>7. CASE WipeRenameLog
      BY <3>7 DEF WipeRenameLog
    <3>8. CASE WipeRefused
      BY <3>8 DEF WipeRefused
    <3>9. CASE WipeRenameSnap
      BY <3>9 DEF WipeRenameSnap
    <3>10. CASE WipeSnapFails
      BY <3>10 DEF WipeSnapFails
    <3>11. CASE WipeOpen
      BY <3>11 DEF WipeOpen
    <3>12. CASE WipeOpenFails
      BY <3>12 DEF WipeOpenFails
    <3>13. CASE WipeClear
      BY <3>13 DEF WipeClear
    <3>14. CASE Apply
      BY <3>14 DEF Apply
    <3>15. CASE Publish
      BY <3>15 DEF Publish
    <3>16. CASE Answer
      BY <3>16 DEF Answer
    <3>17. CASE CkptRotate
      BY <3>17 DEF CkptRotate
    <3>18. CASE CkptFold
      BY <3>18 DEF CkptFold
    <3>19. CASE CkptTruncate
      BY <3>19 DEF CkptTruncate
    <3>20. CASE CkptSyncFails
      BY <3>20 DEF CkptSyncFails
    <3>21. CASE CkptFails
      BY <3>21 DEF CkptFails
    <3>22. CASE CkptRead
      BY <3>22 DEF CkptRead
    <3>23. CASE CkptRename
      BY <3>23 DEF CkptRename
    <3>24. CASE CkptRemove
      BY <3>24 DEF CkptRemove
    <3>25. CASE Crash
      BY <3>25 DEF Crash
    <3>26. CASE Recover
      BY <3>26 DEF Recover
    <3>. QED
      BY <1>3, <3>1, <3>2, <3>3, <3>4, <3>5, <3>6, <3>7, <3>8, <3>9, <3>10, <3>11, <3>12, <3>13,
         <3>14, <3>15, <3>16, <3>17, <3>18, <3>19, <3>20, <3>21, <3>22, <3>23, <3>24, <3>25, <3>26
         DEF Next, FlushStep, CkptStep
  <2>. QED  BY <2>1, <2>2, <2>3 DEF Numbered
<1>4. CASE UNCHANGED vars
  BY <1>4 DEF vars, Numbered, Stamped, Filed
<1>. QED  BY <1>1, <1>2, <1>3, <1>4

\* What the logs and the answered commits have in common with what is durable.
LEMMA LogsStep ==
  ASSUME TypeOK, CommitOrder, LogGuarded, Sourced, Grouped, [Next]_vars
  PROVE  /\ wal' \subseteq logged' /\ acked' \subseteq Durable'
         /\ seg' \cup bak' \subseteq Durable'
         /\ \A c \in logged' \cup kept' : ~c.wipe
         /\ Sound' /\ pc' # "sync" => synced' = wal'
         /\ ~up' => synced' = wal' /\ bak' = {} /\ mem' = {} /\ ckpt' = NoCheckpoint
<1>. USE DurableStep DEF Sourced, TypeOK, LogGuarded, Grouped, CommitOrder, Sound,
     FlusherHoldsWal, CheckpointHoldsWal,
         front, flusher, files, ghosts
<1>1. CASE \E w \in Write : Submit(w)
  BY <1>1 DEF Submit, Enqueue
<1>2. CASE SubmitFlushAll
  BY <1>2 DEF SubmitFlushAll, Enqueue
<1>3. CASE Drain
  BY <1>3 DEF Drain, Drained
<1>4. CASE Append
  BY <1>4 DEF Append, Durable
<1>5. CASE AppendNothing
  BY <1>5 DEF AppendNothing, AfterLog
<1>6. CASE AppendFails
  BY <1>6 DEF AppendFails, Durable, AfterLog
<1>7. CASE Sync
  BY <1>7 DEF Sync, Durable, AfterLog
<1>8. CASE SyncFails
  BY <1>8 DEF SyncFails, AfterLog
<1>9. CASE WipeRenameLog
  BY <1>9 DEF WipeRenameLog, Durable
<1>10. CASE WipeRefused
  BY <1>10 DEF WipeRefused, Durable
<1>11. CASE WipeRenameSnap
  BY <1>11 DEF WipeRenameSnap
<1>12. CASE WipeSnapFails
  BY <1>12 DEF WipeSnapFails, Durable
<1>13. CASE WipeOpen
  BY <1>13 DEF WipeOpen
<1>14. CASE WipeOpenFails
  BY <1>14 DEF WipeOpenFails, Durable
<1>15. CASE WipeClear
  BY <1>15 DEF WipeClear
<1>16. CASE Apply
  BY <1>16 DEF Apply
<1>17. CASE Publish
  BY <1>17 DEF Publish
<1>18. CASE Answer
  BY <1>18 DEF Answer, AfterSync
<1>19. CASE CkptRotate
  BY <1>19 DEF CkptRotate, Durable
<1>20. CASE CkptFold
  BY <1>20 DEF CkptFold, Durable
<1>21. CASE CkptTruncate
  BY <1>21 DEF CkptTruncate, Durable
<1>22. CASE CkptSyncFails
  BY <1>22 DEF CkptSyncFails
<1>23. CASE CkptFails
  BY <1>23 DEF CkptFails
<1>24. CASE CkptRead
  BY <1>24 DEF CkptRead
<1>25. CASE CkptRename
  BY <1>25 DEF CkptRename
<1>26. CASE CkptRemove
  BY <1>26 DEF CkptRemove
<1>27. CASE Crash
  BY <1>27 DEF Crash, Cut, Durable
<1>28. CASE Recover
  BY <1>28 DEF Recover
<1>29. CASE UNCHANGED vars
  BY <1>29 DEF vars
<1>. QED
  BY <1>1, <1>2, <1>3, <1>4, <1>5, <1>6, <1>7, <1>8, <1>9, <1>10, <1>11, <1>12, <1>13, <1>14,
     <1>15, <1>16, <1>17, <1>18, <1>19, <1>20, <1>21, <1>22, <1>23, <1>24, <1>25, <1>26, <1>27,
     <1>28,
     <1>29
     DEF Next, FlushStep, CkptStep

\* The chains, the snapshot and the checkpoint's file hold versions of durable
\* commits only.
LEMMA ChainsSourced ==
  ASSUME TypeOK, CommitOrder, LogGuarded, Sourced, Grouped, [Next]_vars
  PROVE  mem' \cup snap' \cup ckpt'.tmp \subseteq VersionsOf(Durable')
<1>. DEFINE V == VersionsOf(Durable)
<1>a. V \subseteq VersionsOf(Durable')
  BY DurableStep, VersionsGrow
<1>b. mem \cup snap \cup ckpt.tmp \subseteq V
  BY DEF Sourced
<1>c. mem' \cup snap' \cup ckpt'.tmp \subseteq V
  <2>. HIDE DEF V
  <2>. USE <1>b DEF TypeOK, front, flusher, files, ghosts
  <2>1. CASE \E w \in Write : Submit(w)
    BY <2>1 DEF Submit, Enqueue
  <2>2. CASE SubmitFlushAll
    BY <2>2 DEF SubmitFlushAll, Enqueue
  <2>3. CASE Drain
    BY <2>3 DEF Drain
  <2>4. CASE Append
    BY <2>4 DEF Append
  <2>5. CASE AppendNothing
    BY <2>5 DEF AppendNothing
  <2>6. CASE AppendFails
    BY <2>6 DEF AppendFails
  <2>7. CASE Sync
    BY <2>7 DEF Sync
  <2>8. CASE SyncFails
    BY <2>8 DEF SyncFails
  <2>9. CASE WipeRenameLog
    BY <2>9 DEF WipeRenameLog
  <2>10. CASE WipeRefused
    BY <2>10 DEF WipeRefused
  <2>11. CASE WipeRenameSnap
    BY <2>11 DEF WipeRenameSnap
  <2>12. CASE WipeSnapFails
    BY <2>12 DEF WipeSnapFails
  <2>13. CASE WipeOpen
    BY <2>13 DEF WipeOpen
  <2>14. CASE WipeOpenFails
    BY <2>14 DEF WipeOpenFails
  <2>15. CASE WipeClear
    BY <2>15 DEF WipeClear
  <2>16. CASE Apply
    <3>1. flushOk => VersionsOf(kept) \subseteq V
      BY <2>16, VersionsGrow DEF Apply, Grouped, AfterSync, V
    <3>. QED  BY <2>16, <3>1 DEF Apply
  <2>17. CASE Publish
    BY <2>17 DEF Publish
  <2>18. CASE Answer
    BY <2>18 DEF Answer
  <2>19. CASE CkptRotate
    BY <2>19 DEF CkptRotate, NoCheckpoint
  <2>20. CASE CkptFold
    BY <2>20 DEF CkptFold, NoCheckpoint
  <2>21. CASE CkptTruncate
    BY <2>21 DEF CkptTruncate
  <2>22. CASE CkptSyncFails
    BY <2>22 DEF CkptSyncFails, NoCheckpoint
  <2>23. CASE CkptFails
    BY <2>23 DEF CkptFails, NoCheckpoint
  <2>24. CASE CkptRead
    BY <2>24 DEF CkptRead, VisibleAt
  <2>25. CASE CkptRename
    BY <2>25 DEF CkptRename
  <2>26. CASE CkptRemove
    BY <2>26 DEF CkptRemove, NoCheckpoint
  <2>27. CASE Crash
    BY <2>27 DEF Crash, NoCheckpoint
  <2>28. CASE Recover
    <3>1. seg \cup wal \subseteq Durable
      BY <2>28 DEF Recover, Sourced, Durable
    <3>2. OnDisk(wal) \subseteq V
      BY <3>1, VersionsGrow DEF OnDisk, V
    <3>. QED  BY <2>28, <3>2 DEF Recover
  <2>29. CASE UNCHANGED vars
    BY <2>29 DEF vars
  <2>. QED
    BY <2>1, <2>2, <2>3, <2>4, <2>5, <2>6, <2>7, <2>8, <2>9, <2>10, <2>11, <2>12, <2>13, <2>14,
       <2>15, <2>16, <2>17, <2>18, <2>19, <2>20, <2>21, <2>22, <2>23, <2>24, <2>25, <2>26, <2>27,
       <2>28,
       <2>29
       DEF Next, FlushStep, CkptStep
<1>. QED  BY <1>a, <1>c

\* Unsynced frames are the newest.
LEMMA TailStep ==
  ASSUME TypeOK, CommitOrder, LogGuarded, Numbered, Sourced, Grouped, [Next]_vars
  PROVE  \A c \in wal' \ synced', d \in Durable' : d.id < c.id
<1>. USE DEF Durable, Sourced, TypeOK, LogGuarded, Grouped, Sound, FlusherHoldsWal,
     CheckpointHoldsWal,
         front, flusher, files, ghosts
<1>1. CASE \E w \in Write : Submit(w)
  BY <1>1 DEF Submit, Enqueue
<1>2. CASE SubmitFlushAll
  BY <1>2 DEF SubmitFlushAll, Enqueue
<1>3. CASE Drain
  BY <1>3 DEF Drain
<1>4. CASE Append
  BY <1>4 DEF Append, Durable, Numbered
<1>5. CASE AppendNothing
  BY <1>5 DEF AppendNothing
<1>6. CASE AppendFails
  BY <1>6 DEF AppendFails, Durable, Numbered
<1>7. CASE Sync
  BY <1>7 DEF Sync
<1>8. CASE SyncFails
  BY <1>8 DEF SyncFails
<1>9. CASE WipeRenameLog
  BY <1>9 DEF WipeRenameLog
<1>10. CASE WipeRefused
  BY <1>10 DEF WipeRefused
<1>11. CASE WipeRenameSnap
  BY <1>11 DEF WipeRenameSnap
<1>12. CASE WipeSnapFails
  BY <1>12 DEF WipeSnapFails
<1>13. CASE WipeOpen
  BY <1>13 DEF WipeOpen
<1>14. CASE WipeOpenFails
  BY <1>14 DEF WipeOpenFails
<1>15. CASE WipeClear
  BY <1>15 DEF WipeClear
<1>16. CASE Apply
  BY <1>16 DEF Apply
<1>17. CASE Publish
  BY <1>17 DEF Publish
<1>18. CASE Answer
  BY <1>18 DEF Answer
<1>19. CASE CkptRotate
  BY <1>19 DEF CkptRotate
<1>20. CASE CkptFold
  BY <1>20 DEF CkptFold
<1>21. CASE CkptTruncate
  BY <1>21 DEF CkptTruncate
<1>22. CASE CkptSyncFails
  BY <1>22 DEF CkptSyncFails
<1>23. CASE CkptFails
  BY <1>23 DEF CkptFails
<1>24. CASE CkptRead
  BY <1>24 DEF CkptRead
<1>25. CASE CkptRename
  BY <1>25 DEF CkptRename
<1>26. CASE CkptRemove
  BY <1>26 DEF CkptRemove
<1>27. CASE Crash
  BY <1>27 DEF Crash, Cut
<1>28. CASE Recover
  BY <1>28 DEF Recover
<1>29. CASE UNCHANGED vars
  BY <1>29 DEF vars
<1>. QED
  BY <1>1, <1>2, <1>3, <1>4, <1>5, <1>6, <1>7, <1>8, <1>9, <1>10, <1>11, <1>12, <1>13, <1>14,
     <1>15, <1>16, <1>17, <1>18, <1>19, <1>20, <1>21, <1>22, <1>23, <1>24, <1>25, <1>26, <1>27,
     <1>28,
     <1>29
     DEF Next, FlushStep, CkptStep

\* Every commit on its way to the log has a shape the code gives commits.
LEMMA WellFormedStep ==
  ASSUME TypeOK, Sourced, [Next]_vars
  PROVE  \A c \in queue' \cup batch' \cup logged' : WellFormed(c)
<1>. USE DEF Sourced, TypeOK, front, flusher, files, ghosts
<1>1. CASE \E w \in Write : Submit(w)
  <2>1. PICK w \in Write : Submit(w)
    BY <1>1
  <2>2. w.puts \cap w.dels = {} /\ w.puts \cup w.dels # {}
    BY WriteAssumption
  <2>. QED  BY <2>1, <2>2 DEF Submit, Enqueue, WellFormed, Touched
<1>2. CASE SubmitFlushAll
  BY <1>2 DEF SubmitFlushAll, Enqueue, WellFormed, Touched
<1>3. CASE Drain
  BY <1>3 DEF Drain, Drained
<1>4. CASE Append
  BY <1>4 DEF Append
<1>5. CASE AppendNothing
  BY <1>5 DEF AppendNothing
<1>6. CASE AppendFails
  <2>1. logged' \subseteq logged \cup kept
    BY <1>6 DEF AppendFails
  <2>. QED  BY <1>6, <2>1 DEF AppendFails
<1>7. CASE Sync
  BY <1>7 DEF Sync
<1>8. CASE SyncFails
  BY <1>8 DEF SyncFails
<1>9. CASE WipeRenameLog
  BY <1>9 DEF WipeRenameLog
<1>10. CASE WipeRefused
  BY <1>10 DEF WipeRefused
<1>11. CASE WipeRenameSnap
  BY <1>11 DEF WipeRenameSnap
<1>12. CASE WipeSnapFails
  BY <1>12 DEF WipeSnapFails
<1>13. CASE WipeOpen
  BY <1>13 DEF WipeOpen
<1>14. CASE WipeOpenFails
  BY <1>14 DEF WipeOpenFails
<1>15. CASE WipeClear
  BY <1>15 DEF WipeClear
<1>16. CASE Apply
  BY <1>16 DEF Apply
<1>17. CASE Publish
  BY <1>17 DEF Publish
<1>18. CASE Answer
  BY <1>18 DEF Answer
<1>19. CASE CkptRotate
  BY <1>19 DEF CkptRotate
<1>20. CASE CkptFold
  BY <1>20 DEF CkptFold
<1>21. CASE CkptTruncate
  BY <1>21 DEF CkptTruncate
<1>22. CASE CkptSyncFails
  BY <1>22 DEF CkptSyncFails
<1>23. CASE CkptFails
  BY <1>23 DEF CkptFails
<1>24. CASE CkptRead
  BY <1>24 DEF CkptRead
<1>25. CASE CkptRename
  BY <1>25 DEF CkptRename
<1>26. CASE CkptRemove
  BY <1>26 DEF CkptRemove
<1>27. CASE Crash
  BY <1>27 DEF Crash
<1>28. CASE Recover
  BY <1>28 DEF Recover
<1>29. CASE UNCHANGED vars
  BY <1>29 DEF vars
<1>. QED
  BY <1>1, <1>2, <1>3, <1>4, <1>5, <1>6, <1>7, <1>8, <1>9, <1>10, <1>11, <1>12, <1>13, <1>14,
     <1>15, <1>16, <1>17, <1>18, <1>19, <1>20, <1>21, <1>22, <1>23, <1>24, <1>25, <1>26, <1>27,
     <1>28,
     <1>29
     DEF Next, FlushStep, CkptStep

\* No step gives a stored version another source.
LEMMA SourcedStep ==
  ASSUME TypeOK, CommitOrder, LogGuarded, Numbered, Sourced, Grouped, [Next]_vars
  PROVE  Sourced'
BY LogsStep, ChainsSourced, TailStep, WellFormedStep DEF Sourced

\* The group is logged, made durable and answered as one.
LEMMA GroupedStep ==
  ASSUME TypeOK, CommitOrder, LogGuarded, Numbered, Sourced, Grouped, [Next]_vars
  PROVE  Grouped'
<1>. USE DEF Durable, Grouped, AfterSync, Wiping, Sourced, TypeOK, LogGuarded, Sound,
     FlusherHoldsWal, CheckpointHoldsWal,
         front, flusher, files, ghosts
<1>1. CASE \E w \in Write : Submit(w)
  BY <1>1 DEF Submit, Enqueue
<1>2. CASE SubmitFlushAll
  BY <1>2 DEF SubmitFlushAll, Enqueue
<1>3. CASE Drain
  <2>1. queue \cap logged = {}
    <3>1. \A c \in queue : c.id \in Nat
      BY DEF Commit
    <3>. QED  BY <3>1 DEF Numbered
  <2>2. kept' \subseteq queue
    BY <1>3 DEF Drain, Drained
  <2>. QED  BY <1>3, <2>1, <2>2 DEF Drain
<1>4. CASE Append
  <2>1. \A c \in batch : c.ts <= appended'
    <3>1. PICK c \in batch : Newest(batch, c) /\ appended' = Larger(appended, c.ts)
      BY <1>4 DEF Append
    <3>2. c.ts <= appended'
      BY <3>1, LargerType DEF Commit
    <3>3. \A d \in batch : d.ts \in Nat /\ d.ts <= c.ts
      BY <3>1 DEF Newest, Commit
    <3>4. appended' \in Nat
      BY <3>1, LargerType DEF Commit
    <3>. QED  BY <3>2, <3>3, <3>4
  <2>. QED  BY <1>4, <2>1 DEF Append, Durable
<1>5. CASE AppendNothing
  BY <1>5 DEF AppendNothing, AfterLog
<1>6. CASE AppendFails
  BY <1>6 DEF AppendFails, Durable, AfterLog
<1>7. CASE Sync
  BY <1>7 DEF Sync, AfterLog, Durable
<1>8. CASE SyncFails
  BY <1>8 DEF SyncFails, AfterLog, Durable
<1>9. CASE WipeRenameLog
  BY <1>9 DEF WipeRenameLog
<1>10. CASE WipeRefused
  BY <1>10 DEF WipeRefused, Durable
<1>11. CASE WipeRenameSnap
  BY <1>11 DEF WipeRenameSnap
<1>12. CASE WipeSnapFails
  BY <1>12 DEF WipeSnapFails
<1>13. CASE WipeOpen
  BY <1>13 DEF WipeOpen
<1>14. CASE WipeOpenFails
  BY <1>14 DEF WipeOpenFails
<1>15. CASE WipeClear
  BY <1>15 DEF WipeClear
<1>16. CASE Apply
  BY <1>16 DEF Apply
<1>17. CASE Publish
  BY <1>17 DEF Publish
<1>18. CASE Answer
  BY <1>18 DEF Answer
<1>19. CASE CkptRotate
  BY <1>19 DEF CkptRotate
<1>20. CASE CkptFold
  BY <1>20 DEF CkptFold
<1>21. CASE CkptTruncate
  BY <1>21 DEF CkptTruncate
<1>22. CASE CkptSyncFails
  BY <1>22 DEF CkptSyncFails
<1>23. CASE CkptFails
  BY <1>23 DEF CkptFails
<1>24. CASE CkptRead
  BY <1>24 DEF CkptRead
<1>25. CASE CkptRename
  BY <1>25 DEF CkptRename
<1>26. CASE CkptRemove
  BY <1>26 DEF CkptRemove
<1>27. CASE Crash
  BY <1>27 DEF Crash
<1>28. CASE Recover
  BY <1>28 DEF Recover, CommitOrder
<1>29. CASE UNCHANGED vars
  BY <1>29 DEF vars
<1>. QED
  BY <1>1, <1>2, <1>3, <1>4, <1>5, <1>6, <1>7, <1>8, <1>9, <1>10, <1>11, <1>12, <1>13, <1>14,
     <1>15, <1>16, <1>17, <1>18, <1>19, <1>20, <1>21, <1>22, <1>23, <1>24, <1>25, <1>26, <1>27,
     <1>28,
     <1>29
     DEF Next, FlushStep, CkptStep

\* A wipe always has a FLUSHALL behind it, in every step.
LEMMA WipedStep ==
  ASSUME TypeOK, CommitOrder, Numbered, Sourced, Grouped, Wiped, [Next]_vars
  PROVE  Wiped'
<1>. USE DEF Wiped, Wiping, HasWipe, TypeOK, front, flusher, files, ghosts
<1>1. CASE \E w \in Write : Submit(w)
  BY <1>1 DEF Submit, Enqueue
<1>2. CASE SubmitFlushAll
  BY <1>2 DEF SubmitFlushAll, Enqueue
<1>3. CASE Drain
  BY <1>3 DEF Drain, Drained
<1>4. CASE Append
  BY <1>4 DEF Append
<1>5. CASE AppendNothing
  BY <1>5 DEF AppendNothing, AfterLog
<1>6. CASE AppendFails
  BY <1>6 DEF AppendFails, AfterLog
<1>7. CASE Sync
  BY <1>7 DEF Sync, AfterLog
<1>8. CASE SyncFails
  BY <1>8 DEF SyncFails, AfterLog
<1>9. CASE WipeRenameLog
  BY <1>9 DEF WipeRenameLog
<1>10. CASE WipeRefused
  BY <1>10 DEF WipeRefused
<1>11. CASE WipeRenameSnap
  BY <1>11 DEF WipeRenameSnap
<1>12. CASE WipeSnapFails
  BY <1>12 DEF WipeSnapFails
<1>13. CASE WipeOpen
  <2>1. floor' \in Nat /\ \A c \in batch : c.id <= floor'
    BY <1>13 DEF WipeOpen, Doomed, Commit
  <2>2. PICK c \in batch : c.wipe /\ c.id <= floor'
    BY <2>1, <1>13 DEF WipeOpen
  <2>3. \A d \in acked : d.id < c.id
    BY DEF Numbered, Sourced, Durable, Grouped
  <2>4. \A d \in acked \cup batch : d.id \in Nat
    BY DEF Commit
  <2>5. \A d \in acked : d.id <= floor'
    BY <2>1, <2>2, <2>3, <2>4
  <2>. QED  BY <1>13, <2>1, <2>2, <2>5 DEF WipeOpen
<1>14. CASE WipeOpenFails
  BY <1>14 DEF WipeOpenFails
<1>15. CASE WipeClear
  BY <1>15 DEF WipeClear
<1>16. CASE Apply
  BY <1>16 DEF Apply
<1>17. CASE Publish
  BY <1>17 DEF Publish
<1>18. CASE Answer
  BY <1>18 DEF Answer
<1>19. CASE CkptRotate
  BY <1>19 DEF CkptRotate
<1>20. CASE CkptFold
  BY <1>20 DEF CkptFold
<1>21. CASE CkptTruncate
  BY <1>21 DEF CkptTruncate
<1>22. CASE CkptSyncFails
  BY <1>22 DEF CkptSyncFails
<1>23. CASE CkptFails
  BY <1>23 DEF CkptFails
<1>24. CASE CkptRead
  BY <1>24 DEF CkptRead
<1>25. CASE CkptRename
  BY <1>25 DEF CkptRename
<1>26. CASE CkptRemove
  BY <1>26 DEF CkptRemove
<1>27. CASE Crash
  BY <1>27 DEF Crash
<1>28. CASE Recover
  BY <1>28 DEF Recover, CommitOrder
<1>29. CASE UNCHANGED vars
  BY <1>29 DEF vars
<1>. QED
  BY <1>1, <1>2, <1>3, <1>4, <1>5, <1>6, <1>7, <1>8, <1>9, <1>10, <1>11, <1>12, <1>13, <1>14,
     <1>15, <1>16, <1>17, <1>18, <1>19, <1>20, <1>21, <1>22, <1>23, <1>24, <1>25, <1>26, <1>27,
     <1>28,
     <1>29
     DEF Next, FlushStep, CkptStep

\* The chains never get ahead of the log, in any step.
LEMMA ChainedStep ==
  ASSUME TypeOK, CommitOrder, LogGuarded, Numbered, Sourced, Grouped, Chained, [Next]_vars
  PROVE  Chained'
<1>. USE DEF Chained, TypeOK, LogGuarded, Sound, FlusherHoldsWal, CheckpointHoldsWal, front,
     flusher, files, ghosts
<1>1. CASE \E w \in Write : Submit(w)
  BY <1>1 DEF Submit, Enqueue
<1>2. CASE SubmitFlushAll
  BY <1>2 DEF SubmitFlushAll, Enqueue
<1>3. CASE Drain
  BY <1>3 DEF Drain
<1>4. CASE Append
  <2>1. appended' \in Nat /\ appended <= appended'
    BY <1>4, LargerType DEF Append, Commit
  <2>2. \A v \in mem : v.ts \in Nat
    BY DEF Version
  <2>. QED  BY <1>4, <2>1, <2>2 DEF Append
<1>5. CASE AppendNothing
  BY <1>5 DEF AppendNothing
<1>6. CASE AppendFails
  BY <1>6 DEF AppendFails
<1>7. CASE Sync
  BY <1>7 DEF Sync
<1>8. CASE SyncFails
  BY <1>8 DEF SyncFails
<1>9. CASE WipeRenameLog
  BY <1>9 DEF WipeRenameLog
<1>10. CASE WipeRefused
  BY <1>10 DEF WipeRefused
<1>11. CASE WipeRenameSnap
  BY <1>11 DEF WipeRenameSnap
<1>12. CASE WipeSnapFails
  BY <1>12 DEF WipeSnapFails
<1>13. CASE WipeOpen
  BY <1>13 DEF WipeOpen
<1>14. CASE WipeOpenFails
  BY <1>14 DEF WipeOpenFails
<1>15. CASE WipeClear
  BY <1>15 DEF WipeClear
<1>16. CASE Apply
  <2>1. \A v \in VersionsOf(kept) : \E c \in kept : v.id = c.id /\ v.ts = c.ts
    BY VersionsCarry
  <2>2. flushOk => \A c \in kept : c.ts <= appended
    BY <1>16 DEF Apply, Grouped, AfterSync
  <2>. QED  BY <1>16, <2>1, <2>2 DEF Apply
<1>17. CASE Publish
  <2>1. PICK c \in batch : Newest(batch, c) /\ visible' = Larger(visible, c.ts)
    BY <1>17 DEF Publish
  <2>2. visible' \in Nat /\ visible <= visible' /\ c.ts <= visible'
    BY <2>1, LargerType DEF Commit
  <2>3. \A d \in kept : d.ts <= visible'
    BY <2>1, <2>2 DEF Newest, Commit
  <2>4. \A v \in mem, d \in kept : v.id = d.id => v.ts = d.ts
    <3>1. SUFFICES ASSUME NEW v \in mem, NEW d \in kept, v.id = d.id PROVE v.ts = d.ts
      OBVIOUS
    <3>2. v \in Stamped /\ d \in Stamped
      BY DEF Stamped, Filed
    <3>3. ~(v.ts < d.ts) /\ ~(d.ts < v.ts)
      BY <3>1, <3>2, StampsType DEF Numbered
    <3>. QED  BY <3>2, <3>3, StampsType
  <2>5. \A v \in mem : v.ts \in Nat
    BY DEF Version
  <2>6. \A v \in mem : v.ts <= visible'
    BY <2>2, <2>3, <2>4, <2>5
  <2>. QED  BY <1>17, <2>2, <2>5, <2>6 DEF Publish
<1>18. CASE Answer
  BY <1>18 DEF Answer
<1>19. CASE CkptRotate
  BY <1>19 DEF CkptRotate, NoCheckpoint, SegmentLeft
<1>20. CASE CkptFold
  BY <1>20 DEF CkptFold, NoCheckpoint, SegmentLeft
<1>21. CASE CkptTruncate
  BY <1>21 DEF CkptTruncate
<1>22. CASE CkptSyncFails
  BY <1>22 DEF CkptSyncFails, NoCheckpoint
<1>23. CASE CkptFails
  BY <1>23 DEF CkptFails, NoCheckpoint
<1>24. CASE CkptRead
  BY <1>24 DEF CkptRead
<1>25. CASE CkptRename
  BY <1>25 DEF CkptRename
<1>26. CASE CkptRemove
  BY <1>26 DEF CkptRemove, NoCheckpoint
<1>27. CASE Crash
  BY <1>27 DEF Crash, NoCheckpoint
<1>28. CASE Recover
  <2>1. mem' \subseteq OnDisk(wal) /\ (\A v \in OnDisk(wal) : v.ts <= appended')
        /\ visible' = appended'
    BY <1>28 DEF Recover
  <2>2. \A v \in mem' : v.ts <= appended' /\ v.ts \in Nat
    BY <2>1, OnDiskType DEF Version
  <2>3. visible' \in Nat
    BY <1>28, OnDiskType DEF Recover, Version
  <2>4. ckpt' = ckpt /\ ckpt.pc # "truncate" /\ seg' = seg /\ segUp' = segUp
    BY <1>28 DEF Recover, Sourced, NoCheckpoint
  <2>. QED  BY <2>1, <2>2, <2>3, <2>4
<1>29. CASE UNCHANGED vars
  BY <1>29 DEF vars
<1>. QED
  BY <1>1, <1>2, <1>3, <1>4, <1>5, <1>6, <1>7, <1>8, <1>9, <1>10, <1>11, <1>12, <1>13, <1>14,
     <1>15, <1>16, <1>17, <1>18, <1>19, <1>20, <1>21, <1>22, <1>23, <1>24, <1>25, <1>26, <1>27,
     <1>28,
     <1>29
     DEF Next, FlushStep, CkptStep

-----------------------------------------------------------------------------
\* A newer version, or a later deletion, does not make a commit unaccounted for.
LEMMA HoldsMore ==
  ASSUME NEW vs, NEW ws, NEW D, NEW E, NEW e, Holds(vs, D, e),
         vs \subseteq ws, \A v \in ws \ vs : v.id >= e.id, D \subseteq E
  PROVE  Holds(ws, E, e)
BY DEF Holds

\* A commit accounts for itself.
LEMMA HoldsOwn ==
  ASSUME NEW e \in Commit, NEW vs, NEW D, VersionsOf({e}) \subseteq vs
  PROVE  Holds(vs, D, e)
<1>1. SUFFICES ASSUME NEW k \in Touched(e)
               PROVE  \E v \in vs : v.key = k /\ v.id >= e.id
  BY DEF Holds
<1>2. PICK v \in VersionsOf({e}) : v.key = k /\ v.id = e.id
  BY VersionsReach
<1>. QED  BY <1>2 DEF Commit

\* A bounded set of numbers that is not empty has a largest.
LEMMA LargestNumber ==
  ASSUME NEW N \in Nat, NEW T \in SUBSET (0..N), T # {}
  PROVE  \E m \in T : \A n \in T : n <= m
<1>. DEFINE U == {N - n : n \in T}
<1>1. U \subseteq Nat /\ U # {}
  OBVIOUS
<1>2. PICK u \in U : \A w \in U : <<w, u>> \notin OpToRel(<, Nat)
  <2>. HIDE DEF U
  <2>. QED  BY <1>1, NatLessThanWellFounded, WFMin
<1>3. \A w \in U : ~(w < u)
  BY <1>1, <1>2 DEF OpToRel
<1>4. PICK m \in T : u = N - m
  OBVIOUS
<1>5. \A n \in T : ~(N - n < N - m)
  BY <1>3, <1>4
<1>. QED  BY <1>5

\* Of the versions of a key, one is the newest.
LEMMA NewestVersion ==
  ASSUME NEW N \in Nat, NEW vs, \A v \in vs : v.id \in Nat /\ v.id <= N,
         NEW v0 \in vs
  PROVE  \E w \in vs : /\ w.key = v0.key
                       /\ \A v \in vs : v.key = v0.key => v.id <= w.id
<1>. DEFINE T == {v.id : v \in {u \in vs : u.key = v0.key}}
<1>1. T \in SUBSET (0..N) /\ T # {}
  OBVIOUS
<1>2. PICK m \in T : \A n \in T : n <= m
  <2>. HIDE DEF T
  <2>. QED  BY <1>1, LargestNumber
<1>. QED  BY <1>2

\* The order of numbers and that of timestamps are one.
InStep(vs) == \A x, y \in vs : x.id < y.id <=> x.ts < y.ts

\* Reading the newest versions, tombstones hidden, loses sight of no commit.
LEMMA LatestHolds ==
  ASSUME NEW D \in SUBSET Commit, \A d, e \in D : d.id = e.id => d = e,
         NEW vs \in SUBSET VersionsOf(D), InStep(vs),
         NEW N \in Nat, \A d \in D : d.id <= N,
         NEW c \in Commit, Holds(vs, D, c)
  PROVE  Holds(Latest(vs), D, c)
<1>1. SUFFICES ASSUME NEW k \in Touched(c)
               PROVE  \/ \E v \in Latest(vs) : v.key = k /\ v.id >= c.id
                      \/ /\ \A v \in Latest(vs) : v.key # k
                         /\ \E d \in D : d.id >= c.id /\ k \in d.dels
  BY DEF Holds
<1>2. CASE \A v \in vs : v.key # k
  BY <1>2 DEF Holds, Latest
<1>3. CASE \E v \in vs : v.key = k
  <2>1. PICK v0 \in vs : v0.key = k /\ v0.id >= c.id
    BY <1>3 DEF Holds
  <2>2. \A v \in vs : v.id \in Nat /\ v.ts \in Nat /\ v.id <= N
    BY VersionsCarry DEF Commit
  <2>3. PICK w \in vs : /\ w.key = k
                        /\ \A v \in vs : v.key = k => v.id <= w.id
    BY <2>1, <2>2, NewestVersion
  <2>4. w.id >= c.id
    BY <2>1, <2>2, <2>3 DEF Commit
  <2>5. \A v \in vs : v.key = k => v.ts <= w.ts
    BY <2>2, <2>3 DEF InStep
  <2>6. PICK d \in D : w.id = d.id /\ k \in Touched(d) /\ w.live = (k \in d.puts)
    BY <2>3, VersionsCarry
  <2>7. CASE k \in d.puts
    BY <2>3, <2>4, <2>5, <2>6, <2>7 DEF Latest
  <2>8. CASE k \notin d.puts
    <3>1. \A v \in Latest(vs) : v.key # k
      <4>1. SUFFICES ASSUME NEW v \in Latest(vs), v.key = k
                     PROVE  FALSE
        OBVIOUS
      <4>2. v \in vs /\ v.live /\ w.ts <= v.ts
        BY <4>1, <2>3 DEF Latest
      <4>3. v.id = w.id
        BY <4>1, <4>2, <2>2, <2>3 DEF InStep
      <4>4. PICK e \in D : v.id = e.id /\ v.live = (k \in e.puts)
        BY <4>1, <4>2, VersionsCarry
      <4>. QED  BY <4>2, <4>3, <4>4, <2>6, <2>8
    <3>2. k \in d.dels /\ d.id >= c.id
      BY <2>4, <2>6, <2>8 DEF Touched
    <3>. QED  BY <3>1, <3>2
  <2>. QED  BY <2>7, <2>8
<1>. QED  BY <1>2, <1>3

\* A read at a snapshot is the latest of the versions up to it.
LEMMA VisibleIsLatest ==
  ASSUME NEW vs, NEW s
  PROVE  VisibleAt(vs, s) = Latest(UpTo(vs, s))
BY DEF VisibleAt, Latest, UpTo

-----------------------------------------------------------------------------
\* The live log and the rotated segment hold nothing older than an obligation
\* that is no longer in them.
InOrder ==
  /\ \A c \in Obliged \ Live : \A x \in Live : c.id < x.id
  /\ \A c \in Obliged \ (seg \cup Live) : \A x \in seg : c.id < x.id

\* What neither log holds any more, the snapshot accounts for.
OnFile == pc # "wipe_open" => \A c \in Obliged \ (seg \cup Live) : Holds(snap, Durable, c)

\* Commits of the group that are durable but cannot be read yet.
Pending == IF pc \in Wiping \cup {"apply", "publish"} THEN kept ELSE {}

\* The chains, as far as they are published, account for all the others.
InMemory ==
  up => \A c \in Obliged :
          /\ c \notin Pending => Holds(UpTo(mem, visible), Durable, c)
          /\ pc = "publish" /\ c \in kept => VersionsOf({c}) \subseteq mem

\* A checkpoint that has rotated the log away will account for what was in it:
\* with the state at its timestamp, the file it has streamed, the snapshot.
Folding ==
  pc # "wipe_open" => \A c \in Obliged \ Live :
    /\ ckpt.pc = "read" => IF c \in kept /\ pc \in Wiping \cup {"apply"}
                           THEN c.ts <= ckpt.ts
                           ELSE Holds(UpTo(mem, ckpt.ts), Durable, c)
    /\ ckpt.pc = "rename" => Holds(ckpt.tmp, Durable, c)
    /\ ckpt.pc = "remove" => Holds(snap, Durable, c)

\* The invariants about order and origin that every step keeps.
Base == IInv /\ Numbered /\ Sourced /\ Grouped /\ Wiped /\ Chained

\* The conjuncts that hold without regard to what was acknowledged.
LEMMA BaseStep == ASSUME Base, [Next]_vars PROVE Base'
BY TypeStep, OrderStep, GuardStep, NumberedStep, SourcedStep, GroupedStep, WipedStep, ChainedStep
   DEF Base, IInv

\* Only durable commits are obligations.
LEMMA ObligedDurable == ASSUME Base PROVE Obliged \subseteq Durable
BY DEF Base, Obliged, Promised, Sourced, Grouped

\* A wipe that has opened its log leaves no obligation.
LEMMA NothingObliged ==
  ASSUME Base, pc \in Wiping, NEW n, Doomed(n)
  PROVE  /\ wipes # 0
         /\ \A c \in acked \cup kept : c.id \in Nat /\ n \in Nat /\ c.id <= n
<1>1. wipes # 0
  BY DEF Base, Wiped, HasWipe
<1>2. n \in Nat /\ \A c \in batch : c.id <= n
  BY DoomedBounds DEF Base, IInv
<1>3. PICK d \in batch : TRUE
  BY DEF Doomed
<1>4. \A c \in acked : c.id < d.id
  BY DEF Base, Numbered, Sourced, Durable, Grouped
<1>5. \A c \in acked \cup batch : c.id \in Nat
  BY DEF Base, IInv, TypeOK, Commit
<1>6. kept \subseteq batch
  BY DEF Base, IInv, TypeOK
<1>. QED  BY <1>1, <1>2, <1>3, <1>4, <1>5, <1>6

\* While FLUSHALL clears memory no commit is left that must survive.
LEMMA ClearedObliged == ASSUME Base, pc = "wipe_clear" PROVE Obliged = {}
<1>1. wipes # 0
  BY DEF Base, Wiped, HasWipe, Wiping
<1>2. \A c \in acked \cup kept : c.id <= floor /\ c.id \in Nat
  BY DEF Base, Wiped, IInv, TypeOK, Commit
<1>3. floor \in Nat
  BY DEF Base, IInv, TypeOK
<1>. QED  BY <1>1, <1>2, <1>3 DEF Obliged, Promised

\* A step makes no new obligation but the commits it finds, or leaves, synced.
LEMMA ObligedStep ==
  ASSUME Base, [Next]_vars
  PROVE  /\ Obliged' \subseteq Obliged \cup Live'
         /\ up' => Obliged' \subseteq Obliged \cup Pending'
         /\ up' /\ pc # "sync" => Obliged' \subseteq Obliged
<1>. USE DEF Obliged, Promised, AfterSync, Wiping, front, flusher, files, ghosts
<1>a. TypeOK /\ CommitOrder /\ LogGuarded /\ Sourced /\ Grouped /\ Wiped
  BY DEF Base, IInv
<1>b. /\ Durable \subseteq Durable'
      /\ ~Sync /\ ~Crash => Durable' = Durable
  BY <1>a, DurableStep
<1>c. acked \subseteq Durable /\ floor \in Nat
  BY <1>a DEF Sourced, TypeOK

<1>1. CASE \E w \in Write : Submit(w)
  BY <1>1 DEF Submit, Enqueue, Durable
<1>2. CASE SubmitFlushAll
  <2>1. wipes' # 0 /\ Promised' = Promised /\ acked' = acked /\ floor' = floor
    BY <1>2, <1>a DEF SubmitFlushAll, Enqueue, TypeOK
  <2>2. acked \cup Promised \subseteq Durable
    BY <1>a, <1>c DEF Grouped
  <2>. QED  BY <2>1, <2>2
<1>3. CASE Drain
  BY <1>3 DEF Drain, Durable
<1>4. CASE Append
  <2>1. ~Sync /\ ~Crash
    BY <1>4 DEF Append, Sync, Crash
  <2>. QED  BY <1>4, <1>b, <2>1 DEF Append
<1>5. CASE AppendNothing
  BY <1>5 DEF AppendNothing, Durable, AfterLog
<1>6. CASE AppendFails
  <2>1. ~Sync /\ ~Crash
    BY <1>6 DEF AppendFails, Sync, Crash
  <2>. QED  BY <1>6, <1>b, <2>1 DEF AppendFails
<1>7. CASE Sync
  <2>1. kept \subseteq wal /\ wal \ synced \subseteq kept
    BY <1>7, <1>a DEF Sync, Grouped
  <2>2. Live' = wal /\ Pending' = kept
    BY <1>7 DEF Sync, AfterLog, Live, Pending, Wiping
  <2>3. Durable' \subseteq Durable \cup kept
    BY <1>7, <2>1 DEF Sync, Durable
  <2>. QED  BY <1>7, <2>1, <2>2, <2>3 DEF Sync
<1>8. CASE SyncFails
  BY <1>8 DEF SyncFails, Durable, AfterLog
<1>9. CASE WipeRenameLog
  BY <1>9, <1>a DEF WipeRenameLog, Durable, Sourced, Wiping
<1>10. CASE WipeRefused
  BY <1>10, <1>a DEF WipeRefused, Durable, Sourced, Wiped, Wiping, HasWipe
<1>11. CASE WipeRenameSnap
  BY <1>11 DEF WipeRenameSnap, Durable
<1>12. CASE WipeSnapFails
  BY <1>12, <1>a DEF WipeSnapFails, Durable, Wiped, Wiping, HasWipe, LogGuarded, FlusherHoldsWal,
     Sourced
<1>13. CASE WipeOpen
  <2>1. Doomed(floor') /\ wipes' = wipes /\ acked' = acked /\ kept' = kept
    BY <1>13 DEF WipeOpen
  <2>2. Obliged' = {}
    BY <1>13, <2>1, NothingObliged DEF WipeOpen, Wiping
  <2>. QED  BY <2>2
<1>14. CASE WipeOpenFails
  <2>1. Doomed(floor') /\ wipes' = wipes /\ acked' = acked /\ kept' = kept
    BY <1>14 DEF WipeOpenFails
  <2>2. Obliged' = {}
    BY <1>14, <2>1, NothingObliged DEF WipeOpenFails, Wiping
  <2>. QED  BY <2>2
<1>15. CASE WipeClear
  BY <1>15 DEF WipeClear, Durable
<1>16. CASE Apply
  BY <1>16 DEF Apply, Durable
<1>17. CASE Publish
  BY <1>17 DEF Publish, Durable
<1>18. CASE Answer
  BY <1>18, <1>a, <1>b DEF Answer, Durable, Grouped
<1>19. CASE CkptRotate
  BY <1>19, <1>a DEF CkptRotate, Durable, LogGuarded, Sourced, Sound, FlusherHoldsWal
<1>20. CASE CkptFold
  BY <1>20, <1>a DEF CkptFold, Durable, LogGuarded, Sourced, Sound, CheckpointHoldsWal,
     FlusherHoldsWal
<1>21. CASE CkptTruncate
  BY <1>21, <1>a DEF CkptTruncate, Durable, LogGuarded, Sourced, Sound, CheckpointHoldsWal,
     FlusherHoldsWal
<1>22. CASE CkptSyncFails
  BY <1>22, <1>a DEF CkptSyncFails, Durable, LogGuarded, Sourced, Sound, CheckpointHoldsWal,
     FlusherHoldsWal
<1>23. CASE CkptFails
  BY <1>23 DEF CkptFails, Durable
<1>24. CASE CkptRead
  BY <1>24 DEF CkptRead, Durable
<1>25. CASE CkptRename
  BY <1>25 DEF CkptRename, Durable
<1>26. CASE CkptRemove
  BY <1>26 DEF CkptRemove, Durable
<1>27. CASE Crash
  <2>1. CASE pc \in {"wipe_snap", "wipe_open"}
    <3>1. Doomed(floor') /\ wipes' = wipes /\ acked' = acked /\ kept' = {}
      BY <1>27, <2>1 DEF Crash
    <3>2. Obliged' = {}
      BY <1>27, <2>1, <3>1, NothingObliged DEF Crash, Wiping
    <3>. QED  BY <3>2
  <2>2. CASE pc \notin {"wipe_snap", "wipe_open"}
    <3>1. floor' = floor /\ kept' = {} /\ acked' = acked /\ wipes' = wipes /\ Live' = wal'
          /\ up' = FALSE
      BY <1>27, <2>2 DEF Crash, Live
    <3>2. Durable' \subseteq Durable \cup wal'
      BY <1>27 DEF Crash, Durable, Cut
    <3>. QED  BY <3>1, <3>2
  <2>. QED  BY <2>1, <2>2
<1>28. CASE Recover
  BY <1>28 DEF Recover, Durable
<1>29. CASE UNCHANGED vars
  BY <1>29 DEF vars, Durable
<1>. QED
  BY <1>1, <1>2, <1>3, <1>4, <1>5, <1>6, <1>7, <1>8, <1>9, <1>10, <1>11, <1>12, <1>13, <1>14,
     <1>15, <1>16, <1>17, <1>18, <1>19, <1>20, <1>21, <1>22, <1>23, <1>24, <1>25, <1>26, <1>27,
     <1>28,
     <1>29
     DEF Next, FlushStep, CkptStep

\* A wipe that has lost its log, by opening a fresh one, failing to, or crashing
\* between, discharges every commit before it.
LEMMA ObligedEmpties ==
  ASSUME Base, WipeOpen \/ WipeOpenFails \/ (Crash /\ pc \in {"wipe_snap", "wipe_open"})
  PROVE  Obliged' = {}
<1>1. Doomed(floor') /\ wipes' = wipes /\ acked' = acked /\ kept' \subseteq kept /\ pc \in Wiping
  BY DEF WipeOpen, WipeOpenFails, Crash, Wiping, flusher, front, ghosts
<1>. QED  BY <1>1, NothingObliged DEF Obliged, Promised

\* No step leaves an older commit in a log than one that has left it.
LEMMA InOrderStep ==
  ASSUME Base, InOrder, [Next]_vars
  PROVE  InOrder'
<1>. USE DEF InOrder, Live, front, flusher, files, ghosts
<1>a. Obliged' \subseteq Obliged \cup Live'
  BY ObligedStep
<1>b. Obliged \subseteq Durable
  BY ObligedDurable
<1>c. \A c \in Durable, d \in kept : pc = "append" => c.id < d.id
  BY DEF Base, Numbered, Grouped, Durable, IInv, TypeOK
<1>d. /\ FlusherHoldsWal => ~CheckpointHoldsWal
      /\ CheckpointHoldsWal => wal \subseteq seg /\ ~FlusherHoldsWal
      /\ ~segUp => seg = {}
  BY DEF Base, IInv, LogGuarded, Chained, CheckpointHoldsWal
<1>. USE <1>a
<1>1. CASE \E w \in Write : Submit(w)
  BY <1>1 DEF Submit, Enqueue
<1>2. CASE SubmitFlushAll
  BY <1>2 DEF SubmitFlushAll, Enqueue
<1>3. CASE Drain
  BY <1>3 DEF Drain
<1>4. CASE Append
  BY <1>4, <1>b, <1>c DEF Append
<1>5. CASE AppendNothing
  BY <1>5 DEF AppendNothing, AfterLog
<1>6. CASE AppendFails
  <2>1. wal' \subseteq wal \cup kept /\ seg' = seg /\ Live' = wal' /\ Live = wal
    BY <1>6 DEF AppendFails, AfterLog
  <2>. QED  BY <1>6, <2>1, <1>b, <1>c DEF AppendFails
<1>7. CASE Sync
  BY <1>7 DEF Sync, AfterLog
<1>8. CASE SyncFails
  BY <1>8 DEF SyncFails, AfterLog
<1>9. CASE WipeRenameLog
  BY <1>9 DEF WipeRenameLog
<1>10. CASE WipeRefused
  BY <1>10 DEF WipeRefused
<1>11. CASE WipeRenameSnap
  BY <1>11 DEF WipeRenameSnap
<1>12. CASE WipeSnapFails
  BY <1>12 DEF WipeSnapFails
<1>13. CASE WipeOpen
  <2>1. Obliged' = {}
    BY <1>13, ObligedEmpties
  <2>. QED  BY <2>1
<1>14. CASE WipeOpenFails
  <2>1. Obliged' = {}
    BY <1>14, ObligedEmpties
  <2>. QED  BY <2>1
<1>15. CASE WipeClear
  BY <1>15 DEF WipeClear
<1>16. CASE Apply
  BY <1>16 DEF Apply
<1>17. CASE Publish
  BY <1>17 DEF Publish
<1>18. CASE Answer
  BY <1>18 DEF Answer
<1>19. CASE CkptRotate
  BY <1>19, <1>d DEF CkptRotate, SegmentLeft, FlusherHoldsWal
<1>20. CASE CkptFold
  BY <1>20, <1>d DEF CkptFold, FlusherHoldsWal
<1>21. CASE CkptTruncate
  BY <1>21, <1>d DEF CkptTruncate, FlusherHoldsWal, CheckpointHoldsWal
<1>22. CASE CkptSyncFails
  BY <1>22, <1>d DEF CkptSyncFails, FlusherHoldsWal, CheckpointHoldsWal
<1>23. CASE CkptFails
  BY <1>23 DEF CkptFails
<1>24. CASE CkptRead
  BY <1>24 DEF CkptRead
<1>25. CASE CkptRename
  BY <1>25 DEF CkptRename
<1>26. CASE CkptRemove
  BY <1>26 DEF CkptRemove
<1>27. CASE Crash
  <2>1. CASE pc \in {"wipe_snap", "wipe_open"}
    <3>1. Obliged' = {}
      BY <1>27, <2>1, ObligedEmpties
    <3>. QED  BY <3>1
  <2>2. CASE pc \notin {"wipe_snap", "wipe_open"}
    <3>1. Live' = wal' /\ Live = wal /\ seg' = seg /\ synced \subseteq wal' /\ wal' \subseteq wal
      BY <1>27, <2>2 DEF Crash, Cut, Base, IInv, TypeOK
    <3>2. \A c \in Obliged : c \in wal => c \in wal'
      BY <1>b, <3>1 DEF Durable
    <3>. QED  BY <3>1, <3>2
  <2>. QED  BY <2>1, <2>2
<1>28. CASE Recover
  BY <1>28 DEF Recover, Base, IInv, CommitOrder
<1>29. CASE UNCHANGED vars
  BY <1>29 DEF vars
<1>. QED
  BY <1>1, <1>2, <1>3, <1>4, <1>5, <1>6, <1>7, <1>8, <1>9, <1>10, <1>11, <1>12, <1>13, <1>14,
     <1>15, <1>16, <1>17, <1>18, <1>19, <1>20, <1>21, <1>22, <1>23, <1>24, <1>25, <1>26, <1>27,
     <1>28,
     <1>29
     DEF Next, FlushStep, CkptStep

\* Recovery finds every obligation, whatever part of the unsynced tail is left.
LEMMA DiskHolds ==
  ASSUME Base, InOrder, OnFile, pc \notin {"wipe_snap", "wipe_open"},
         NEW L, synced \subseteq L, L \subseteq wal, NEW c \in Obliged
  PROVE  Holds(OnDisk(L), Durable, c)
<1>1. c \in Durable /\ c \in Commit /\ Live = wal
  BY ObligedDurable DEF Live, Durable, Base, IInv, TypeOK
<1>2. CASE c \in seg \cup L
  <2>1. VersionsOf({c}) \subseteq OnDisk(L)
    BY <1>2, VersionsGrow DEF OnDisk
  <2>. QED  BY <1>1, <2>1, HoldsOwn
<1>3. CASE c \notin seg \cup L
  <2>1. c \notin seg \cup Live
    BY <1>1, <1>3 DEF Durable
  <2>2. Holds(snap, Durable, c)
    BY <2>1 DEF OnFile
  <2>3. \A x \in seg \cup L : x.id >= c.id
    <3>1. \A x \in seg \cup L : c.id < x.id
      BY <1>1, <2>1 DEF InOrder
    <3>2. \A x \in seg \cup L : x.id \in Nat
      BY DEF Base, IInv, TypeOK, Commit
    <3>. QED  BY <1>1, <3>1, <3>2 DEF Commit
  <2>4. \A v \in VersionsOf(seg \cup L) : v.id >= c.id
    BY <2>3, VersionsCarry
  <2>. QED  BY <2>2, <2>4, HoldsMore DEF OnDisk
<1>. QED  BY <1>2, <1>3

\* No step takes a commit that must survive out of all the files.
LEMMA OnFileStep ==
  ASSUME Base, InOrder, OnFile, Folding, [Next]_vars
  PROVE  OnFile'
<1>. USE DEF OnFile, Live, front, flusher, files, ghosts
<1>a. Obliged' \subseteq Obliged \cup Live'
  BY ObligedStep
<1>b. \A c, vs : Holds(vs, Durable, c) => Holds(vs, Durable', c)
  BY DurableStep, HoldsMore DEF Base, IInv
<1>d. /\ FlusherHoldsWal => ~CheckpointHoldsWal
      /\ CheckpointHoldsWal => wal \subseteq seg /\ ~FlusherHoldsWal
      /\ ~segUp => seg = {}
  BY DEF Base, IInv, LogGuarded, Chained, CheckpointHoldsWal
<1>. USE <1>a, <1>b
<1>1. CASE \E w \in Write : Submit(w)
  BY <1>1 DEF Submit, Enqueue
<1>2. CASE SubmitFlushAll
  BY <1>2 DEF SubmitFlushAll, Enqueue
<1>3. CASE Drain
  BY <1>3 DEF Drain
<1>4. CASE Append
  BY <1>4 DEF Append
<1>5. CASE AppendNothing
  BY <1>5 DEF AppendNothing, AfterLog
<1>6. CASE AppendFails
  BY <1>6 DEF AppendFails, AfterLog
<1>7. CASE Sync
  BY <1>7 DEF Sync, AfterLog
<1>8. CASE SyncFails
  BY <1>8 DEF SyncFails, AfterLog
<1>9. CASE WipeRenameLog
  BY <1>9 DEF WipeRenameLog
<1>10. CASE WipeRefused
  BY <1>10 DEF WipeRefused
<1>11. CASE WipeRenameSnap
  BY <1>11 DEF WipeRenameSnap
<1>12. CASE WipeSnapFails
  BY <1>12 DEF WipeSnapFails
<1>13. CASE WipeOpen
  <2>1. Obliged' = {}
    BY <1>13, ObligedEmpties
  <2>. QED  BY <2>1
<1>14. CASE WipeOpenFails
  <2>1. Obliged' = {}
    BY <1>14, ObligedEmpties
  <2>. QED  BY <2>1
<1>15. CASE WipeClear
  BY <1>15 DEF WipeClear
<1>16. CASE Apply
  BY <1>16 DEF Apply
<1>17. CASE Publish
  BY <1>17 DEF Publish
<1>18. CASE Answer
  BY <1>18 DEF Answer
<1>19. CASE CkptRotate
  BY <1>19, <1>d DEF CkptRotate, SegmentLeft, FlusherHoldsWal
<1>20. CASE CkptFold
  BY <1>20, <1>d DEF CkptFold, FlusherHoldsWal
<1>21. CASE CkptTruncate
  BY <1>21, <1>d DEF CkptTruncate, FlusherHoldsWal, CheckpointHoldsWal
<1>22. CASE CkptSyncFails
  BY <1>22, <1>d DEF CkptSyncFails, FlusherHoldsWal, CheckpointHoldsWal
<1>23. CASE CkptFails
  BY <1>23 DEF CkptFails
<1>24. CASE CkptRead
  BY <1>24 DEF CkptRead
<1>25. CASE CkptRename
  BY <1>25 DEF CkptRename, Folding
<1>26. CASE CkptRemove
  BY <1>26 DEF CkptRemove, Folding
<1>27. CASE Crash
  <2>1. CASE pc \in {"wipe_snap", "wipe_open"}
    <3>1. Obliged' = {}
      BY <1>27, <2>1, ObligedEmpties
    <3>. QED  BY <3>1
  <2>2. CASE pc \notin {"wipe_snap", "wipe_open"}
    <3>1. Live' = wal' /\ Live = wal /\ seg' = seg /\ snap' = snap /\ synced \subseteq wal'
      BY <1>27, <2>2 DEF Crash, Cut
    <3>2. \A c \in Obliged : c \in wal => c \in wal'
      BY ObligedDurable, <3>1 DEF Durable
    <3>. QED  BY <2>2, <3>1, <3>2
  <2>. QED  BY <2>1, <2>2
<1>28. CASE Recover
  BY <1>28 DEF Recover, Base, IInv, CommitOrder
<1>29. CASE UNCHANGED vars
  BY <1>29 DEF vars
<1>. QED
  BY <1>1, <1>2, <1>3, <1>4, <1>5, <1>6, <1>7, <1>8, <1>9, <1>10, <1>11, <1>12, <1>13, <1>14,
     <1>15, <1>16, <1>17, <1>18, <1>19, <1>20, <1>21, <1>22, <1>23, <1>24, <1>25, <1>26, <1>27,
     <1>28,
     <1>29
     DEF Next, FlushStep, CkptStep

\* What is stored comes from durable commits whose numbers and timestamps agree.
LEMMA StoredInStep ==
  ASSUME Base
  PROVE  /\ Durable \subseteq Commit /\ \A d, e \in Durable : d.id = e.id => d = e
         /\ \A d \in Durable : d.id \in Nat /\ d.id <= nextId
         /\ nextId \in Nat
         /\ mem \subseteq VersionsOf(Durable)
         /\ \A vs : vs \subseteq mem => InStep(vs)
<1>1. Durable \subseteq logged /\ logged \subseteq Commit
  BY DEF Durable, Base, IInv, TypeOK
<1>2. mem \subseteq Stamped
  BY DEF Stamped, Filed
<1>. QED  BY <1>1, <1>2 DEF Base, Numbered, Sourced, InStep, IInv, TypeOK, Commit

\* Whatever part of the live log is left, numbers and timestamps on disk agree.
LEMMA DiskInStep ==
  ASSUME Base, NEW L, L \subseteq wal
  PROVE  InStep(OnDisk(L))
<1>1. \A v \in OnDisk(L) : \E x \in Stamped : v.id = x.id /\ v.ts = x.ts
  BY VersionsCarry DEF OnDisk, Stamped, Filed
<1>. QED  BY <1>1 DEF InStep, Base, Numbered

\* Versions the chains hold above visible_ts are newer than every obligation
\* outside the group in flight.
LEMMA UnpublishedIsNewer ==
  ASSUME Base, NEW c \in Obliged, c \notin kept, NEW v \in mem, ~(v.ts <= visible)
  PROVE  v.id >= c.id
<1>1. v.ts \in Nat /\ visible \in Nat
  BY DEF Base, IInv, TypeOK, Version
<1>2. PICK d \in kept : v.id = d.id
  BY <1>1 DEF Base, Chained
<1>3. c \in logged \ kept /\ d \in batch
  BY ObligedDurable DEF Durable, Base, IInv, TypeOK
<1>4. c.id < d.id /\ c.id \in Nat /\ d.id \in Nat
  BY <1>3 DEF Base, Numbered, IInv, TypeOK, Commit
<1>. QED  BY <1>2, <1>4

\* Recovery gives back every commit that must survive.
LEMMA RecoverHolds ==
  ASSUME Base, InOrder, OnFile, Recover, NEW c \in Obliged
  PROVE  Holds(UpTo(mem', visible'), Durable, c)
<1>. DEFINE disk == OnDisk(wal)
<1>1. pc = "idle" /\ synced = wal
  BY DEF Base, IInv, CommitOrder, Sourced, Recover
<1>2. Holds(disk, Durable, c)
  BY <1>1, DiskHolds
<1>3. disk \subseteq VersionsOf(Durable)
  <2>1. seg \cup wal \subseteq Durable
    BY <1>1 DEF Base, Sourced, Durable
  <2>. QED  BY <2>1, VersionsGrow DEF OnDisk, Base, Sourced
<1>4. c \in Commit
  BY ObligedDurable, StoredInStep
<1>5. Holds(Latest(disk), Durable, c)
  <2>1. InStep(disk)
    BY DiskInStep
  <2>. HIDE DEF disk
  <2>. QED  BY <1>2, <1>3, <1>4, <2>1, StoredInStep, LatestHolds
<1>6. mem' = {v \in disk : \E w \in Latest(disk) : w.key = v.key}
  BY DEF Recover
<1>7. UpTo(mem', visible') = mem'
  BY <1>6 DEF Recover, UpTo
<1>. QED  BY <1>5, <1>6, <1>7 DEF Holds, Latest

\* No step takes a published commit out of memory.
LEMMA InMemoryStep ==
  ASSUME Base, InOrder, OnFile, InMemory, [Next]_vars
  PROVE  InMemory'
<1>. USE DEF InMemory, Pending, Wiping, front, flusher, files, ghosts
<1>a. /\ up' => Obliged' \subseteq Obliged \cup Pending'
      /\ up' /\ pc # "sync" => Obliged' \subseteq Obliged
  BY ObligedStep
<1>b. \A c, vs : Holds(vs, Durable, c) => Holds(vs, Durable', c)
  BY DurableStep, HoldsMore DEF Base, IInv
<1>c. /\ kept \cap acked = {}
      /\ pc = "idle" => kept = {}
      /\ pc \in Wiping => wipes # 0
      /\ ~flushOk => kept \cap Obliged = {}
  BY ObligedDurable DEF Base, Grouped, Wiped, HasWipe
<1>. USE <1>a, <1>b
<1>1. CASE \E w \in Write : Submit(w)
  BY <1>1 DEF Submit, Enqueue
<1>2. CASE SubmitFlushAll
  BY <1>2 DEF SubmitFlushAll, Enqueue
<1>3. CASE Drain
  BY <1>3, <1>c DEF Drain
<1>4. CASE Append
  BY <1>4 DEF Append
<1>5. CASE AppendNothing
  BY <1>5 DEF AppendNothing, AfterLog
<1>6. CASE AppendFails
  BY <1>6 DEF AppendFails, AfterLog
<1>7. CASE Sync
  BY <1>7 DEF Sync, AfterLog
<1>8. CASE SyncFails
  BY <1>8 DEF SyncFails, AfterLog
<1>9. CASE WipeRenameLog
  BY <1>9 DEF WipeRenameLog
<1>10. CASE WipeRefused
  <2>1. Obliged' \cap kept = {}
    BY <1>10, <1>c DEF WipeRefused, Obliged, Promised
  <2>. QED  BY <1>10, <2>1 DEF WipeRefused
<1>11. CASE WipeRenameSnap
  BY <1>11 DEF WipeRenameSnap
<1>12. CASE WipeSnapFails
  <2>1. Obliged' \cap kept = {}
    BY <1>12, <1>c DEF WipeSnapFails, Obliged, Promised
  <2>. QED  BY <1>12, <2>1 DEF WipeSnapFails
<1>13. CASE WipeOpen
  <2>1. Obliged' = {}
    BY <1>13, ObligedEmpties
  <2>. QED  BY <2>1
<1>14. CASE WipeOpenFails
  <2>1. Obliged' = {}
    BY <1>14, ObligedEmpties
  <2>. QED  BY <2>1
<1>15. CASE WipeClear
  BY <1>15, ClearedObliged DEF WipeClear
<1>16. CASE Apply
  <2>1. UpTo(mem', visible') = UpTo(mem, visible)
    <3>1. \A d \in kept : visible < d.ts /\ d.ts \in Nat
      BY <1>16 DEF Apply, Base, IInv, CommitOrder, Unpublished, TypeOK, Commit
    <3>2. \A v \in VersionsOf(kept) : ~(v.ts <= visible)
      <4>1. \A v \in VersionsOf(kept) : \E d \in kept : v.ts = d.ts
        BY VersionsCarry
      <4>. QED  BY <3>1, <4>1 DEF Base, IInv, TypeOK
    <3>3. UpTo(mem \cup VersionsOf(kept), visible) = UpTo(mem, visible)
      BY <3>2 DEF UpTo
    <3>. QED  BY <1>16, <3>3 DEF Apply
  <2>2. \A c \in Obliged \cap kept : VersionsOf({c}) \subseteq mem'
    BY <1>16, <1>c, VersionsGrow DEF Apply
  <2>. QED  BY <1>16, <2>1, <2>2 DEF Apply
<1>17. CASE Publish
  <2>1. /\ up /\ pc = "publish" /\ mem' = mem /\ pc' = "answer" /\ Obliged' \subseteq Obliged
    BY <1>17 DEF Publish
  <2>2. visible' \in Nat /\ visible <= visible' /\ \A d \in kept : d.ts <= visible'
    <3>1. PICK c \in batch : Newest(batch, c) /\ visible' = Larger(visible, c.ts)
      BY <1>17 DEF Publish
    <3>2. visible \in Nat /\ c.ts \in Nat /\ \A d \in kept : d.ts \in Nat /\ d.ts <= c.ts
      BY <3>1 DEF Base, IInv, TypeOK, Commit, Newest
    <3>3. visible' \in Nat /\ visible <= visible' /\ c.ts <= visible'
      BY <3>1, <3>2, LargerType
    <3>. QED  BY <3>2, <3>3
  <2>3. ASSUME NEW c \in Obliged PROVE Holds(UpTo(mem', visible'), Durable, c)
    <3>0. c \in Commit
      BY ObligedDurable, StoredInStep
    <3>1. CASE c \in kept
      <4>0. \A v \in VersionsOf({c}) : v.ts = c.ts
        BY VersionsCarry
      <4>1. VersionsOf({c}) \subseteq UpTo(mem', visible')
        BY <2>1, <2>2, <3>1, <4>0 DEF UpTo
      <4>. QED  BY <3>0, <4>1, HoldsOwn
    <3>2. CASE c \notin kept
      <4>1. Holds(UpTo(mem, visible), Durable, c)
        BY <2>1, <3>2
      <4>2. UpTo(mem, visible) \subseteq UpTo(mem', visible')
        <5>1. \A v \in mem : v.ts \in Nat /\ visible \in Nat
          BY DEF Base, IInv, TypeOK, Version
        <5>. QED  BY <5>1, <2>1, <2>2 DEF UpTo
      <4>3. \A v \in UpTo(mem', visible') \ UpTo(mem, visible) : v.id >= c.id
        BY <2>1, <3>2, UnpublishedIsNewer DEF UpTo
      <4>. QED  BY <4>1, <4>2, <4>3, HoldsMore
    <3>. QED  BY <3>1, <3>2
  <2>. QED  BY <2>1, <2>3
<1>18. CASE Answer
  BY <1>18 DEF Answer
<1>19. CASE CkptRotate
  BY <1>19 DEF CkptRotate
<1>20. CASE CkptFold
  BY <1>20 DEF CkptFold
<1>21. CASE CkptTruncate
  BY <1>21 DEF CkptTruncate
<1>22. CASE CkptSyncFails
  BY <1>22 DEF CkptSyncFails
<1>23. CASE CkptFails
  BY <1>23 DEF CkptFails
<1>24. CASE CkptRead
  BY <1>24 DEF CkptRead
<1>25. CASE CkptRename
  BY <1>25 DEF CkptRename
<1>26. CASE CkptRemove
  BY <1>26 DEF CkptRemove
<1>27. CASE Crash
  BY <1>27 DEF Crash
<1>28. CASE Recover
  <2>1. Obliged' \subseteq Obliged /\ Pending' = {} /\ pc' = "idle"
    BY <1>28, <1>c DEF Recover, Base, IInv, CommitOrder
  <2>. QED  BY <1>28, <2>1, RecoverHolds
<1>29. CASE UNCHANGED vars
  BY <1>29 DEF vars
<1>. QED
  BY <1>1, <1>2, <1>3, <1>4, <1>5, <1>6, <1>7, <1>8, <1>9, <1>10, <1>11, <1>12, <1>13, <1>14,
     <1>15, <1>16, <1>17, <1>18, <1>19, <1>20, <1>21, <1>22, <1>23, <1>24, <1>25, <1>26, <1>27,
     <1>28,
     <1>29
     DEF Next, FlushStep, CkptStep

\* When the log is rotated away, what it held is in the chains, or will be, at
\* or below the timestamp the checkpoint takes.
LEMMA RotatedHolds ==
  ASSUME Base, InMemory, up, ~FlusherHoldsWal, pc # "wipe_clear", NEW c \in Obliged
  PROVE  IF c \in kept /\ pc \in Wiping \cup {"apply"}
         THEN c.ts <= appended
         ELSE Holds(UpTo(mem, appended), Durable, c)
<1>0. c \in Durable /\ c \in Commit /\ kept \subseteq batch
  BY ObligedDurable, StoredInStep DEF Base, IInv, TypeOK
<1>1. UpTo(mem, appended) = mem
  BY DEF Base, Chained, UpTo
<1>2. CASE c \in kept
  <2>1. pc \in AfterSync /\ flushOk
    BY <1>0, <1>2 DEF Base, Grouped, FlusherHoldsWal, AfterSync, Durable, IInv, TypeOK, Wiping
  <2>2. c.ts <= appended
    BY <1>0, <1>2, <2>1 DEF Base, Grouped
  <2>3. CASE pc = "publish"
    BY <1>0, <1>1, <1>2, <2>3, HoldsOwn DEF InMemory, Wiping
  <2>4. CASE pc = "answer"
    <3>1. Holds(UpTo(mem, visible), Durable, c)
      BY <2>4 DEF InMemory, Pending, Wiping
    <3>2. UpTo(mem, visible) = mem
      BY <2>4 DEF Base, Chained, UpTo, IInv, TypeOK, Version
    <3>. QED  BY <1>1, <2>4, <3>1, <3>2 DEF Wiping
  <2>. QED  BY <1>2, <2>1, <2>2, <2>3, <2>4 DEF AfterSync
<1>3. CASE c \notin kept
  <2>1. Holds(UpTo(mem, visible), Durable, c)
    BY <1>3 DEF InMemory, Pending
  <2>2. \A v \in mem \ UpTo(mem, visible) : v.id >= c.id
    BY <1>3, UnpublishedIsNewer DEF UpTo
  <2>3. Holds(mem, Durable, c)
    BY <2>1, <2>2, HoldsMore DEF UpTo
  <2>. QED  BY <1>1, <1>3, <2>3
<1>. QED  BY <1>2, <1>3

\* The file a checkpoint streams accounts for all it has rotated away.
LEMMA ReadHolds ==
  ASSUME Base, Folding, CkptRead, pc # "wipe_open", NEW c \in Obliged, c \notin Live
  PROVE  Holds(ckpt'.tmp, Durable, c)
<1>1. ckpt.pc = "read" /\ ckpt.ts <= visible /\ ckpt'.tmp = VisibleAt(mem, ckpt.ts)
  BY DEF CkptRead, SnapshotReady, Base, IInv, TypeOK
<1>2. c \in Commit /\ visible \in Nat /\ ckpt.ts \in Nat
  BY ObligedDurable, StoredInStep DEF Base, IInv, TypeOK
<1>3. ~(c \in kept /\ pc \in Wiping \cup {"apply"} /\ c.ts <= ckpt.ts)
  BY <1>1, <1>2 DEF Base, IInv, CommitOrder, TypeOK, Unpublished, Wiping, Commit
<1>4. Holds(UpTo(mem, ckpt.ts), Durable, c)
  BY <1>1, <1>3 DEF Folding
<1>5. UpTo(mem, ckpt.ts) \subseteq mem
  BY DEF UpTo
<1>. DEFINE vs == UpTo(mem, ckpt.ts)
<1>6. vs \subseteq VersionsOf(Durable) /\ InStep(vs)
  BY <1>5, StoredInStep
<1>7. Holds(Latest(vs), Durable, c)
  <2>. HIDE DEF vs
  <2>1. Holds(vs, Durable, c)
    BY <1>4 DEF vs
  <2>. QED  BY <1>2, <1>6, <2>1, StoredInStep, LatestHolds
<1>. QED  BY <1>1, <1>7, VisibleIsLatest

\* No step, of the checkpoint or beside it, loses what the next snapshot must carry.
LEMMA FoldingStep ==
  ASSUME Base, InOrder, OnFile, InMemory, Folding, [Next]_vars
  PROVE  Folding'
<1>. USE DEF Folding, Live, Wiping, front, flusher, files, ghosts
<1>a. Obliged' \subseteq Obliged \cup Live'
  BY ObligedStep
<1>b. \A c, vs : Holds(vs, Durable, c) => Holds(vs, Durable', c)
  BY DurableStep, HoldsMore DEF Base, IInv
<1>c. /\ kept \cap acked = {}
      /\ pc = "idle" => kept = {}
      /\ pc \in Wiping => wipes # 0
      /\ ~flushOk => kept \cap Obliged = {}
      /\ pc = "append" => kept \cap Obliged = {}
      /\ ~up => ckpt = NoCheckpoint
  BY ObligedDurable DEF Base, Grouped, Wiped, HasWipe, Durable, Sourced
<1>d. ckpt \in [pc : {"idle", "truncate", "read", "rename", "remove"}, ts : Nat,
      tmp : SUBSET Version]
  BY DEF Base, IInv, TypeOK
<1>e. FlusherHoldsWal => ~CheckpointHoldsWal
  BY DEF Base, IInv, LogGuarded
<1>f. NoCheckpoint.pc = "idle"
  BY DEF NoCheckpoint
<1>. USE <1>a, <1>b
<1>1. CASE \E w \in Write : Submit(w)
  BY <1>1 DEF Submit, Enqueue
<1>2. CASE SubmitFlushAll
  BY <1>2 DEF SubmitFlushAll, Enqueue
<1>3. CASE Drain
  BY <1>3, <1>c DEF Drain
<1>4. CASE Append
  BY <1>4 DEF Append
<1>5. CASE AppendNothing
  BY <1>5, <1>c DEF AppendNothing, AfterLog
<1>6. CASE AppendFails
  <2>1. Obliged' \subseteq Obliged /\ wal \subseteq wal'
    BY <1>6, ObligedStep DEF AppendFails
  <2>. QED  BY <1>6, <1>c, <2>1 DEF AppendFails, AfterLog
<1>7. CASE Sync
  <2>1. kept \subseteq wal
    BY <1>7 DEF Sync, Base, Grouped
  <2>. QED  BY <1>7, <2>1 DEF Sync, AfterLog
<1>8. CASE SyncFails
  <2>1. kept \subseteq wal
    BY <1>8 DEF SyncFails, Base, Grouped
  <2>. QED  BY <1>8, <2>1 DEF SyncFails, AfterLog
<1>9. CASE WipeRenameLog
  BY <1>9 DEF WipeRenameLog
<1>10. CASE WipeRefused
  <2>1. Obliged' \cap kept = {}
    BY <1>10, <1>c DEF WipeRefused, Obliged, Promised
  <2>. QED  BY <1>10, <2>1 DEF WipeRefused
<1>11. CASE WipeRenameSnap
  BY <1>11 DEF WipeRenameSnap
<1>12. CASE WipeSnapFails
  <2>1. Obliged' \cap kept = {}
    BY <1>12, <1>c DEF WipeSnapFails, Obliged, Promised
  <2>. QED  BY <1>12, <2>1 DEF WipeSnapFails
<1>13. CASE WipeOpen
  <2>1. Obliged' = {}
    BY <1>13, ObligedEmpties
  <2>. QED  BY <2>1
<1>14. CASE WipeOpenFails
  <2>1. Obliged' = {}
    BY <1>14, ObligedEmpties
  <2>. QED  BY <2>1
<1>15. CASE WipeClear
  <2>1. Obliged' = {}
    BY <1>15, ClearedObliged, ObligedStep DEF WipeClear
  <2>. QED  BY <2>1
<1>16. CASE Apply
  <2>0. /\ up /\ pc = "apply" /\ pc' = "publish" /\ ckpt' = ckpt /\ Live' = wal /\ snap' = snap
           /\ kept' = kept /\ wal' = wal /\ mem \subseteq mem'
    BY <1>16 DEF Apply
  <2>1. Obliged' \subseteq Obliged
    BY <1>16, ObligedStep DEF Apply
  <2>2. ASSUME NEW c \in Obliged, c \notin wal, ckpt.pc = "read"
        PROVE  Holds(UpTo(mem', ckpt.ts), Durable, c)
    <3>0. c \in Commit /\ c \in Durable
      BY ObligedDurable, StoredInStep
    <3>1. CASE c \in kept
      <4>1. c.ts <= ckpt.ts
        BY <2>0, <2>2, <3>1
      <4>2. VersionsOf({c}) \subseteq mem'
        BY <1>16, <1>c, <3>1, VersionsGrow DEF Apply
      <4>0. \A v \in VersionsOf({c}) : v.ts = c.ts
        BY VersionsCarry
      <4>3. VersionsOf({c}) \subseteq UpTo(mem', ckpt.ts)
        BY <4>0, <4>1, <4>2 DEF UpTo
      <4>. QED  BY <3>0, <4>3, HoldsOwn
    <3>2. CASE c \notin kept
      <4>1. Holds(UpTo(mem, ckpt.ts), Durable, c)
        BY <2>0, <2>2, <3>2
      <4>2. \A d \in kept : c.id < d.id /\ c.id \in Nat /\ d.id \in Nat
        BY <3>0, <3>2 DEF Base, Numbered, Durable, IInv, TypeOK, Commit
      <4>3. \A v \in VersionsOf(kept) : v.id >= c.id
        BY <4>2, VersionsCarry
      <4>4. \A v \in UpTo(mem', ckpt.ts) \ UpTo(mem, ckpt.ts) : v.id >= c.id
        BY <1>16, <4>3 DEF Apply, UpTo
      <4>. QED  BY <2>0, <4>1, <4>4, HoldsMore DEF UpTo
    <3>. QED  BY <3>1, <3>2
  <2>. QED  BY <2>0, <2>1, <2>2
<1>17. CASE Publish
  <2>1. Obliged' \subseteq Obliged
    BY <1>17, ObligedStep DEF Publish
  <2>. QED  BY <1>17, <2>1 DEF Publish
<1>18. CASE Answer
  BY <1>18 DEF Answer
<1>19. CASE CkptRotate
  <2>1. pc # "wipe_clear" => \A c \in Obliged : IF c \in kept /\ pc \in Wiping
        \cup {"apply"} THEN c.ts <= appended ELSE Holds(UpTo(mem, appended), Durable, c)
    BY <1>19, RotatedHolds DEF CkptRotate
  <2>2. pc = "wipe_clear" => Obliged = {}
    BY ClearedObliged
  <2>3. Live' = {} /\ Obliged' \subseteq Obliged /\ mem' = mem /\ kept' = kept /\ pc' = pc
    BY <1>19, <1>a DEF CkptRotate, FlusherHoldsWal
  <2>4. ckpt'.pc = "read" /\ ckpt'.ts = appended
    BY <1>19 DEF CkptRotate, NoCheckpoint
  <2>. QED  BY <2>1, <2>2, <2>3, <2>4
<1>20. CASE CkptFold
  BY <1>20 DEF CkptFold, NoCheckpoint
<1>21. CASE CkptTruncate
  <2>0. ~FlusherHoldsWal /\ up
    BY <1>21, <1>e DEF CkptTruncate, CheckpointHoldsWal
  <2>1. pc # "wipe_clear" => \A c \in Obliged : IF c \in kept /\ pc \in Wiping
        \cup {"apply"} THEN c.ts <= appended ELSE Holds(UpTo(mem, appended), Durable, c)
    BY <2>0, RotatedHolds
  <2>2. pc = "wipe_clear" => Obliged = {}
    BY ClearedObliged
  <2>3. Live' = {} /\ Obliged' \subseteq Obliged /\ mem' = mem /\ kept' = kept /\ pc' = pc
    BY <1>21, <2>0, <1>a DEF CkptTruncate, FlusherHoldsWal
  <2>4. ckpt'.pc = "read" /\ ckpt'.ts = appended
    BY <1>21, <1>d DEF CkptTruncate
  <2>. QED  BY <2>1, <2>2, <2>3, <2>4
<1>22. CASE CkptSyncFails
  BY <1>22, <1>f DEF CkptSyncFails
<1>23. CASE CkptFails
  BY <1>23, <1>f DEF CkptFails
<1>24. CASE CkptRead
  <2>1. ckpt'.pc = "rename" /\ Live' = Live /\ pc' = pc
    BY <1>24, <1>d DEF CkptRead
  <2>2. Obliged' \subseteq Obliged \cup Live
    BY <2>1, <1>a
  <2>. QED  BY <1>24, <2>1, <2>2, ReadHolds
<1>25. CASE CkptRename
  <2>1. ckpt.pc = "rename" /\ ckpt'.pc = "remove" /\ snap' = ckpt.tmp /\ Live' = Live /\ pc' = pc
    BY <1>25, <1>d DEF CkptRename
  <2>. QED  BY <2>1
<1>26. CASE CkptRemove
  BY <1>26, <1>f DEF CkptRemove
<1>27. CASE Crash
  BY <1>27, <1>f DEF Crash
<1>28. CASE Recover
  BY <1>28, <1>c, <1>f DEF Recover
<1>29. CASE UNCHANGED vars
  BY <1>29 DEF vars
<1>. QED
  BY <1>1, <1>2, <1>3, <1>4, <1>5, <1>6, <1>7, <1>8, <1>9, <1>10, <1>11, <1>12, <1>13, <1>14,
     <1>15, <1>16, <1>17, <1>18, <1>19, <1>20, <1>21, <1>22, <1>23, <1>24, <1>25, <1>26, <1>27,
     <1>28,
     <1>29
     DEF Next, FlushStep, CkptStep

-----------------------------------------------------------------------------
\* The inductive invariant behind the theorems about recovery.
RInv == Base /\ InOrder /\ OnFile /\ InMemory /\ Folding

\* The invariant holds in the empty engine.
LEMMA RInvInit == ASSUME Init PROVE RInv
<1>1. IInv
  <2>1. CommitOrder
    BY DEF Init, CommitOrder, Unpublished
  <2>2. LogGuarded
    BY DEF Init, LogGuarded, FlusherHoldsWal, CheckpointHoldsWal, NoCheckpoint
  <2>. QED  BY <2>1, <2>2, InitType DEF IInv
<1>2. ckpt.pc = "idle" /\ ckpt.tmp = {}
  BY DEF Init, NoCheckpoint
<1>3. Numbered
  BY <1>2 DEF Init, Numbered, Stamped, Filed
<1>4. Sourced
  BY <1>2 DEF Init, Sourced, Durable
<1>5. Grouped /\ Wiped /\ Chained
  BY <1>2 DEF Init, Grouped, Wiped, Chained, AfterSync, Wiping
<1>6. Obliged = {}
  BY DEF Init, Obliged, Durable
<1>. QED  BY <1>1, <1>3, <1>4, <1>5, <1>6 DEF RInv, Base, InOrder, OnFile, InMemory, Folding

\* Every obligation is always accounted for: by the logs or the snapshot on
\* disk, by the chains in memory, and by what a checkpoint is about to put in
\* their place.
THEOREM RecoveryInvariance == Spec => []RInv
<1>1. RInv /\ [Next]_vars => RInv'
  BY BaseStep, InOrderStep, OnFileStep, InMemoryStep, FoldingStep DEF RInv
<1>. QED  BY <1>1, RInvInit, PTL DEF Spec

-----------------------------------------------------------------------------
\* The commits a crash leaves in the logs: the durable ones and part of the tail.
Left(n) == Durable \cup Cut(n)

\* A crash leaves of the log at least what was synced.
LEMMA CutBounds == ASSUME Base, NEW n PROVE synced \subseteq Cut(n) /\ Cut(n) \subseteq wal
BY DEF Cut, Base, IInv, TypeOK

\* The commits a crash leaves are commits with a number each.
LEMMA LeftSources ==
  ASSUME Base, NEW n
  PROVE  /\ Left(n) \subseteq Commit /\ \A d, e \in Left(n) : d.id = e.id => d = e
         /\ \A d \in Left(n) : d.id \in Nat /\ 1 <= d.id /\ d.id <= nextId /\ WellFormed(d)
         /\ OnDisk(Cut(n)) \subseteq VersionsOf(Left(n))
         /\ InStep(OnDisk(Cut(n)))
<1>1. Left(n) \subseteq logged
  BY CutBounds DEF Left, Durable, Base, Sourced
<1>2. VersionsOf(Durable) \subseteq VersionsOf(Left(n))
  BY VersionsGrow DEF Left
<1>3. VersionsOf(seg \cup Cut(n)) \subseteq VersionsOf(Left(n))
  <2>1. seg \cup Cut(n) \subseteq Left(n)
    BY DEF Left, Base, Sourced
  <2>. QED  BY <2>1, VersionsGrow
<1>4. InStep(OnDisk(Cut(n)))
  BY CutBounds, DiskInStep
<1>. QED  BY <1>1, <1>2, <1>3, <1>4 DEF Base, Numbered, Sourced, IInv, TypeOK, Commit, OnDisk

\* An obligation is found in what a crash leaves.
LEMMA CrashHolds ==
  ASSUME RInv, pc \notin {"wipe_snap", "wipe_open"}, NEW n, NEW c \in Obliged
  PROVE  Holds(OnDisk(Cut(n)), Left(n), c)
<1>1. Holds(OnDisk(Cut(n)), Durable, c)
  BY CutBounds, DiskHolds DEF RInv
<1>. QED  BY <1>1, HoldsMore DEF Left

\* Whatever prefix of the unsynced tail survives a crash, and wherever a
\* checkpoint stands, recovery finds every commit that was answered Ok.
THEOREM AcknowledgedCommitsSurvive == Spec => []AckedSurvive
<1>1. ASSUME RInv PROVE AckedSurvive
  <2>1. SUFFICES ASSUME pc \notin {"wipe_snap", "wipe_open"}, NEW n \in 0..MaxId, NEW c \in acked,
                        c.id > floor, NEW k \in Touched(c)
                 PROVE  NewerOrDeleted(Latest(OnDisk(Cut(n))), c, k)
    BY DEF AckedSurvive, Crashes
  <2>. DEFINE disk == OnDisk(Cut(n))
  <2>2. Base
    BY <1>1 DEF RInv
  <2>3. c \in Obliged /\ c \in Commit
    BY <2>1, <2>2 DEF Obliged, Base, Sourced, IInv, TypeOK
  <2>4. Holds(disk, Left(n), c)
    BY <1>1, <2>1, <2>3, CrashHolds
  <2>5. Holds(Latest(disk), Left(n), c)
    <3>1. disk \subseteq VersionsOf(Left(n)) /\ InStep(disk) /\ nextId \in Nat
      BY <2>2, LeftSources DEF Base, IInv, TypeOK
    <3>. HIDE DEF disk
    <3>. QED  BY <2>2, <2>3, <2>4, <3>1, LeftSources, LatestHolds
  <2>6. Left(n) \subseteq logged
    BY <2>2, CutBounds DEF Left, Durable, Base, Sourced
  <2>. QED  BY <2>1, <2>5, <2>6 DEF Holds, NewerOrDeleted
<1>. QED  BY <1>1, RecoveryInvariance, PTL

\* A caller that was answered Ok reads its own write, or what replaced it.
THEOREM OwnWritesAreRead == Spec => []ReadYourWrites
<1>1. ASSUME RInv PROVE ReadYourWrites
  <2>1. SUFFICES ASSUME up, NEW c \in acked, c.id > floor, NEW k \in Touched(c)
                 PROVE  NewerOrDeleted(VisibleAt(mem, visible), c, k)
    BY DEF ReadYourWrites
  <2>. DEFINE vs == UpTo(mem, visible)
  <2>2. Base
    BY <1>1 DEF RInv
  <2>3. c \in Obliged /\ c \in Commit /\ c \notin kept
    BY <2>1, <2>2 DEF Obliged, Base, Sourced, Grouped, IInv, TypeOK
  <2>4. Holds(vs, Durable, c)
    BY <1>1, <2>1, <2>3 DEF RInv, InMemory, Pending
  <2>5. vs \subseteq VersionsOf(Durable) /\ InStep(vs)
    BY <2>2, StoredInStep DEF UpTo
  <2>6. Holds(Latest(vs), Durable, c)
    <3>. HIDE DEF vs
    <3>. QED  BY <2>2, <2>3, <2>4, <2>5, StoredInStep, LatestHolds
  <2>. QED  BY <2>1, <2>6, VisibleIsLatest DEF Holds, NewerOrDeleted, Durable
<1>. QED  BY <1>1, RecoveryInvariance, PTL

-----------------------------------------------------------------------------
\* What a crash leaves is a prefix of the commits that were logged.
LEMMA LeftIsAPrefix ==
  ASSUME Base, NEW n \in Nat
  PROVE  \E m \in 0..nextId : Left(n) = {c \in logged : c.id <= m}
<1>1. Left(n) \subseteq logged /\ \A c \in logged : c.id \in Nat /\ c.ts \in Nat
  BY CutBounds DEF Left, Durable, Base, Sourced, IInv, TypeOK, Commit
<1>2. ASSUME NEW c \in Left(n), NEW d \in logged \ Left(n)
      PROVE  c.id < d.id
  <2>1. d \in wal \ synced /\ d \notin Cut(n) /\ ~(d.ts <= n)
    BY <1>2, CutBounds DEF Left, Durable, Cut
  <2>2. CASE c \in Durable
    BY <2>1, <2>2 DEF Base, Sourced
  <2>3. CASE c \notin Durable
    <3>1. c \in wal /\ c.ts <= n
      BY <1>2, <2>3, CutBounds DEF Left, Cut, Durable, Base, Sourced
    <3>2. c.ts < d.ts
      BY <1>1, <1>2, <2>1, <3>1
    <3>3. c \in Stamped /\ d \in Stamped
      BY <2>1, <3>1 DEF Stamped, Filed
    <3>. QED  BY <3>2, <3>3 DEF Base, Numbered
  <2>. QED  BY <2>2, <2>3
<1>3. CASE Left(n) = {}
  <2>1. \A c \in logged : ~(c.id <= 0)
    BY <1>1 DEF Base, Numbered
  <2>2. 0 \in 0..nextId
    BY DEF Base, IInv, TypeOK
  <2>. QED  BY <1>3, <2>1, <2>2
<1>4. CASE Left(n) # {}
  <2>. DEFINE T == {c.id : c \in Left(n)}
  <2>1. T \in SUBSET (0..nextId) /\ T # {} /\ nextId \in Nat
    BY <1>1, <1>4 DEF Base, Numbered, IInv, TypeOK
  <2>2. PICK m \in T : \A i \in T : i <= m
    <3>. HIDE DEF T
    <3>. QED  BY <2>1, LargestNumber
  <2>3. PICK c \in Left(n) : m = c.id
    OBVIOUS
  <2>4. \A d \in Left(n) : d.id <= m
    BY <2>2
  <2>5. \A d \in logged \ Left(n) : ~(d.id <= m)
    BY <1>1, <1>2, <2>3
  <2>. QED  BY <1>1, <2>1, <2>4, <2>5
<1>. QED  BY <1>3, <1>4

\* Without a FLUSHALL, recovery accounts for every commit it is left with.
LEMMA AllLeftHold ==
  ASSUME RInv, wipes = 0, NEW n, NEW c \in Left(n)
  PROVE  Holds(OnDisk(Cut(n)), Left(n), c)
<1>1. Base /\ c \in Commit /\ c.id > floor /\ pc \notin Wiping
  BY LeftSources DEF RInv, Base, Wiped, HasWipe
<1>2. CASE c \in Durable
  BY <1>1, <1>2, CrashHolds DEF Obliged, Wiping
<1>3. CASE c \in Cut(n)
  <2>1. VersionsOf({c}) \subseteq OnDisk(Cut(n))
    BY <1>3, VersionsGrow DEF OnDisk
  <2>. QED  BY <1>1, <2>1, HoldsOwn
<1>. QED  BY <1>2, <1>3 DEF Left

\* Recovery gives what the commits it is left with give, in order.
LEMMA RecoveryIsTheOutcome ==
  ASSUME RInv, wipes = 0, NEW n
  PROVE  {<<v.key, v.id>> : v \in Latest(OnDisk(Cut(n)))} = Outcome(Left(n))
<1>. DEFINE disk == OnDisk(Cut(n))
            D == Left(n)
<1>1. /\ D \subseteq Commit /\ \A d, e \in D : d.id = e.id => d = e
      /\ \A d \in D : d.id \in Nat /\ WellFormed(d)
      /\ disk \subseteq VersionsOf(D) /\ InStep(disk)
  BY LeftSources DEF RInv
<1>2. \A c \in D : Holds(disk, D, c)
  BY AllLeftHold
<1>. HIDE DEF disk, D
<1>3. \A v \in disk : \E d \in D : v.id = d.id /\ v.key \in Touched(d)
      /\ v.live = (v.key \in d.puts)
  BY <1>1, VersionsCarry
<1>4. ASSUME NEW v \in Latest(disk)
      PROVE  <<v.key, v.id>> \in Outcome(D)
  <2>1. v \in disk /\ v.live /\ \A u \in disk : u.key = v.key => u.ts <= v.ts
    BY DEF Latest
  <2>2. PICK d \in D : v.id = d.id /\ v.key \in d.puts
    BY <1>3, <2>1
  <2>3. v.key \in Key
    BY <1>1, <2>2 DEF Commit
  <2>4. ASSUME NEW c \in D, v.key \in Touched(c) PROVE c.id <= v.id
    <3>1. PICK u \in disk : u.key = v.key /\ u.id >= c.id
      BY <1>2, <2>1, <2>4 DEF Holds
    <3>2. PICK e \in D : u.id = e.id
      BY <1>3
    <3>3. u.ts <= v.ts
      BY <2>1, <3>1
    <3>4. ~(v.id < u.id)
      <4>1. v.ts \in Nat /\ u.ts \in Nat
        BY <1>1, <2>1, VersionsCarry DEF Commit
      <4>. QED  BY <1>1, <2>1, <3>3, <4>1 DEF InStep
    <3>. QED  BY <1>1, <2>2, <3>1, <3>2, <3>4
  <2>. QED  BY <2>2, <2>3, <2>4 DEF Outcome
<1>5. ASSUME NEW w \in Outcome(D)
      PROVE  \E v \in Latest(disk) : w = <<v.key, v.id>>
  <2>1. PICK k \in Key, i \in {c.id : c \in D} : w = <<k, i>>
    BY DEF Outcome
  <2>2. PICK c \in D : c.id = i /\ k \in c.puts
    BY <2>1 DEF Outcome
  <2>3. \A d \in D : k \in Touched(d) => d.id <= i
    BY <2>1 DEF Outcome
  <2>4. k \in Touched(c) /\ k \notin c.dels
    BY <1>1, <2>2 DEF Touched, WellFormed
  <2>5. PICK v \in disk : v.key = k /\ v.id >= c.id
    <3>1. ASSUME NEW d \in D, d.id >= c.id, k \in d.dels PROVE FALSE
      <4>1. d.id <= c.id
        BY <2>2, <2>3, <3>1 DEF Touched
      <4>2. d = c
        BY <1>1, <3>1, <4>1
      <4>. QED  BY <2>4, <3>1, <4>2
    <3>. QED  BY <1>2, <2>4, <3>1 DEF Holds
  <2>6. PICK d \in D : v.id = d.id /\ k \in Touched(d) /\ v.live = (k \in d.puts)
    BY <1>3, <2>5
  <2>7. v.id = i /\ d = c
    BY <1>1, <2>2, <2>3, <2>5, <2>6
  <2>8. \A u \in disk : u.key = k => u.ts <= v.ts
    <3>1. SUFFICES ASSUME NEW u \in disk, u.key = k PROVE u.ts <= v.ts
      OBVIOUS
    <3>2. u.id <= v.id /\ u.id \in Nat /\ v.id \in Nat
      BY <1>1, <1>3, <2>3, <2>6, <2>7, <3>1
    <3>3. u.ts \in Nat /\ v.ts \in Nat
      BY <1>1, VersionsCarry DEF Commit
    <3>4. ~(v.ts < u.ts)
      BY <1>1, <3>2 DEF InStep
    <3>. QED  BY <3>3, <3>4
  <2>9. v \in Latest(disk)
    BY <2>2, <2>5, <2>6, <2>7, <2>8 DEF Latest
  <2>. QED  BY <2>1, <2>5, <2>7, <2>9
<1>. QED  BY <1>4, <1>5 DEF disk, D

\* Without a FLUSHALL, what recovery gives is the state after a prefix of the
\* commits, each of them entire, and no commit answered Ok is missing.
THEOREM RecoveryGivesAPrefix == Spec => []RecoveryIsAPrefix
<1>1. ASSUME RInv PROVE RecoveryIsAPrefix
  <2>1. SUFFICES ASSUME wipes = 0, NEW n \in 0..MaxId
                 PROVE  \E m \in 0..nextId :
                          /\ {<<v.key, v.id>> : v \in Latest(OnDisk(Cut(n)))}
                               = Outcome({c \in logged : c.id <= m})
                          /\ \A c \in acked : c.id <= m
    BY DEF RecoveryIsAPrefix, Crashes
  <2>2. n \in Nat
    BY BoundAssumption
  <2>3. PICK m \in 0..nextId : Left(n) = {c \in logged : c.id <= m}
    BY <1>1, <2>2, LeftIsAPrefix DEF RInv
  <2>4. acked \subseteq Left(n)
    BY <1>1 DEF RInv, Base, Sourced, Left
  <2>. QED  BY <1>1, <2>1, <2>3, <2>4, RecoveryIsTheOutcome
<1>. QED  BY <1>1, RecoveryInvariance, PTL
=============================================================================
