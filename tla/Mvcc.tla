-------------------------------- MODULE Mvcc --------------------------------
(***************************************************************************)
(* Version chains, snapshots and optimistic transactions of the StrikeDB   *)
(* storage engine: the flusher resolves a group of commits in queue order  *)
(* against the chains and an overlay of the group's earlier writes, applies *)
(* them shard by shard (pruning history no open snapshot reads), publishes *)
(* visible_ts, and sweeps away, a shard at a time, chains that end in a    *)
(* tombstone.                                                              *)
(*                                                                         *)
(* Every key is in a shard of its own.  The write-ahead log, FLUSHALL and  *)
(* restarts are the subject of module CommitLog; here the log only accepts *)
(* or refuses a group.                                                     *)
(***************************************************************************)
EXTENDS Naturals, Sequences, FiniteSets

CONSTANTS Key,          \* the keys of the store
          Client,       \* clients that run transactions or WATCH keys
          NoClient,     \* who submits a commit that reads nothing
          Blind,        \* the commits without a read set, see Request
          Txn,          \* the commits transactions and EXECs make, see Request
          MaxVersions,  \* MAX_VERSIONS_PER_KEY
          MaxInt,       \* the largest counter value (i64::MAX)
          MaxTs,        \* bound: timestamps handed out
          GroupLimit    \* bound: queued commits that write one key

Nothing == [live |-> FALSE, n |-> 0]
Cell == [live : {TRUE}, n : 0..MaxInt] \cup {Nothing}

\* A request: the keys it has read or watched, what it writes (a tombstone is
\* a cell that is not live), the keys it increments.
Request == [checks : SUBSET Key, cells : UNION {[K -> Cell] : K \in SUBSET Key}, incr : SUBSET Key]

ASSUME RequestAssumption ==
  /\ Blind \subseteq Request /\ \A r \in Blind : r.checks = {}
  /\ Txn \subseteq Request
ASSUME ClientAssumption == NoClient \notin Client
ASSUME BoundAssumption ==
  /\ MaxVersions \in Nat \ {0} /\ MaxInt \in Nat \ {0}
  /\ MaxTs \in Nat /\ GroupLimit \in Nat

VARIABLES
  clock,      \* Engine.clock
  visible,    \* FlushCore.visible_ts
  chain,      \* the shard maps: a chain for every key present
  queue,      \* FlushCore.write_queue
  pc,         \* where the flusher is
  batch,      \* drained commits still to resolve
  overlay,    \* what the group's resolved commits write
  group,      \* the group's resolved commits
  top,        \* the highest timestamp of the group
  graveyard,  \* FlushCore.graveyard
  gcHorizon,  \* FlushCore.gc_horizon
  ready,      \* tombstones the sweep under way still has to look at
  removed,    \* the tombstones whose chains it has removed (max_removed)
  client,     \* each client's transaction or WATCH, and its snapshot
  hist        \* history: every commit that resolved to Apply, in order

vars == <<clock, visible, chain, queue, pc, batch, overlay, group, top,
          graveyard, gcHorizon, ready, removed, client, hist>>
sweeping == <<ready, removed>>

-----------------------------------------------------------------------------
Version == [ts : Nat, live : BOOLEAN, n : 0..MaxInt]
EmptyChain == [vs |-> {}, latest |-> 0, pruned |-> 0, first |-> 0]

CellOf(v) == [live |-> v.live, n |-> IF v.live THEN v.n ELSE 0]

\* Chain.visible, or Nothing.
ReadAt(vs, s) ==
  IF \E v \in vs : v.ts <= s
  THEN CellOf(CHOOSE v \in vs : v.ts <= s /\ \A w \in vs : w.ts <= s => w.ts <= v.ts)
  ELSE Nothing

\* get_at: a key without a chain reads as absent.
GetAt(k, s) == IF k \in DOMAIN chain THEN ReadAt(chain[k].vs, s) ELSE Nothing

\* Engine::key_version and Chain.latest.
LatestTs(k) == IF k \in DOMAIN chain THEN chain[k].latest ELSE 0
LatestCell(k) == IF k \in DOMAIN chain THEN ReadAt(chain[k].vs, chain[k].latest) ELSE Nothing

\* The snapshots transactions have pinned.
Active == {client[c].snap : c \in {d \in Client : client[d].st \in {"open", "waiting", "done"}}}

\* A version is kept while it is one of the newest MaxVersions, or serves a
\* pinned snapshot: one between it and its successor.
Keep(vs, v, pins) ==
  \/ Cardinality({w \in vs : w.ts > v.ts}) < MaxVersions
  \/ \E s \in pins : v.ts <= s /\ \A w \in vs : w.ts > v.ts => s < w.ts

Highest(S) == CHOOSE t \in S : \A u \in S : u <= t

\* Chain.push of a group's versions, in order, with the snapshots pinned then.
Push(c, new, pins) ==
  LET all == c.vs \cup new
      kept == {v \in all : Keep(all, v, pins)}
  IN  [vs |-> kept,
       latest |-> Highest({v.ts : v \in all}),
       pruned |-> Highest({c.pruned} \cup {v.ts : v \in all \ kept}),
       first |-> IF c = EmptyChain
                 THEN CHOOSE t \in {v.ts : v \in new} : \A v \in new : t <= v.ts
                 ELSE c.first]

-----------------------------------------------------------------------------
Init ==
  /\ clock = 0 /\ visible = 0
  /\ chain = [k \in {} |-> EmptyChain]
  /\ queue = <<>> /\ pc = "idle" /\ batch = <<>>
  /\ overlay = [k \in {} |-> Nothing] /\ group = <<>> /\ top = 0
  /\ graveyard = {} /\ gcHorizon = 0 /\ ready = {} /\ removed = {}
  /\ client = [c \in Client |-> [st |-> "idle", snap |-> 0, key |-> {}]]
  /\ hist = <<>>

Writes(r) == DOMAIN r.cells \cup r.incr

\* A timestamp is taken and the commit queued under the queue lock.
Enqueue(who, r, snap) ==
  /\ clock < MaxTs
  /\ \A k \in Writes(r) :
       Cardinality({i \in DOMAIN queue : k \in Writes(queue[i].req)}) < GroupLimit
  /\ clock' = clock + 1
  /\ queue' = Append(queue, [ts |-> clock + 1, who |-> who, req |-> r, snap |-> snap])
  /\ UNCHANGED <<visible, chain, pc, batch, overlay, group, top, graveyard, gcHorizon, sweeping, hist>>

Submit(r) == Enqueue(NoClient, r, 0) /\ UNCHANGED client

BeginAtClock(c) ==  \* mutant: the snapshot is the raw clock
  /\ client[c].st = "idle"
  /\ client' = [client EXCEPT ![c] = [st |-> "open", snap |-> clock, key |-> {}]]
  /\ UNCHANGED <<clock, visible, chain, queue, pc, batch, overlay, group, top,
                 graveyard, gcHorizon, sweeping, hist>>

\* Engine::begin: the snapshot is read and pinned under one lock.
Begin(c) ==
  /\ client[c].st = "idle"
  /\ client' = [client EXCEPT ![c] = [st |-> "open", snap |-> visible, key |-> {}]]
  /\ UNCHANGED <<clock, visible, chain, queue, pc, batch, overlay, group, top,
                 graveyard, gcHorizon, sweeping, hist>>

\* Txn::commit: the read set travels with the writes; the pin stays.
Commit(c, r) ==
  /\ client[c].st = "open"
  /\ Enqueue(c, r, client[c].snap)
  /\ client' = [client EXCEPT ![c].st = "waiting"]

\* Txn::drop, after the answer or instead of a commit.
Drop(c) ==
  /\ client[c].st \in {"open", "done"}
  /\ client' = [client EXCEPT ![c] = [st |-> "idle", snap |-> 0, key |-> {}]]
  /\ UNCHANGED <<clock, visible, chain, queue, pc, batch, overlay, group, top,
                 graveyard, gcHorizon, sweeping, hist>>

\* WATCH remembers the snapshot and pins nothing.
Watch(c, k) ==
  /\ client[c].st = "idle"
  /\ client' = [client EXCEPT ![c] = [st |-> "watching", snap |-> visible, key |-> {k}]]
  /\ UNCHANGED <<clock, visible, chain, queue, pc, batch, overlay, group, top,
                 graveyard, gcHorizon, sweeping, hist>>

\* EXEC runs the queued commands as one commit that checks the watched key.
Exec(c, r) ==
  /\ client[c].st = "watching" /\ r.checks = client[c].key
  /\ Enqueue(NoClient, r, client[c].snap)
  /\ client' = [client EXCEPT ![c] = [st |-> "idle", snap |-> 0, key |-> {}]]

-----------------------------------------------------------------------------
\* sweep_tombstones: physically remove the chains whose newest version is a
\* tombstone that every open and every future snapshot sees.
HorizonVisible == visible  \* mutant: the horizon ignores open snapshots
Horizon ==
  CHOOSE h \in Active \cup {visible} : \A s \in Active \cup {visible} : h <= s
Buried == {g \in graveyard : g.ts <= Horizon}

CollectAll ==  \* mutant: tombstones above the horizon leave the graveyard too
  /\ ready' = Buried
  /\ graveyard' = {}
\* What every snapshot sees leaves the graveyard, ...
Collect ==
  /\ ready' = Buried
  /\ graveyard' = graveyard \ Buried

\* The flusher takes the whole queue and begins its sweep.
Drain ==
  /\ pc = "idle" /\ queue # <<>>
  /\ batch' = queue /\ queue' = <<>>
  /\ top' = queue[Len(queue)].ts
  /\ overlay' = [k \in {} |-> Nothing] /\ group' = <<>>
  /\ Collect
  /\ pc' = IF Buried = {} THEN "resolve" ELSE "sweep"
  /\ UNCHANGED <<clock, visible, chain, gcHorizon, removed, client, hist>>

\* ... its chains go one by one, each under its shard's write lock, where the
\* tombstone is still the newest version ...
Dead(g) == g.key \in DOMAIN chain /\ ~LatestCell(g.key).live /\ g.ts = chain[g.key].latest
Bury(g) ==
  /\ pc = "sweep" /\ g \in ready
  /\ ready' = ready \ {g}
  /\ IF Dead(g)
     THEN /\ chain' = [k \in DOMAIN chain \ {g.key} |-> chain[k]]
          /\ removed' = removed \cup {g}
     ELSE UNCHANGED <<chain, removed>>
  /\ UNCHANGED <<clock, visible, queue, pc, batch, overlay, group, top,
                 graveyard, gcHorizon, client, hist>>

RaiseNothing ==  \* mutant: the collection horizon is not recorded
  /\ pc = "sweep" /\ ready = {}
  /\ removed' = {}
  /\ pc' = "resolve"
  /\ UNCHANGED <<clock, visible, chain, queue, batch, overlay, group, top,
                 graveyard, gcHorizon, ready, client, hist>>
\* ... and only then the collection horizon is raised over all of them.
Raise ==
  /\ pc = "sweep" /\ ready = {}
  /\ gcHorizon' = Highest({gcHorizon} \cup {g.ts : g \in removed})
  /\ removed' = {}
  /\ pc' = "resolve"
  /\ UNCHANGED <<clock, visible, chain, queue, batch, overlay, group, top,
                 graveyard, ready, client, hist>>

ConflictStored(p) == \E k \in p.req.checks : LatestTs(k) > p.snap  \* mutant: the group's own writes are missed
\* A commit conflicts when a key it read or watched was written since: by an
\* earlier commit of the group, or by a version newer than its snapshot.
Conflict(p) == \E k \in p.req.checks : k \in DOMAIN overlay \/ LatestTs(k) > p.snap

\* What an increment finds: the overlay first, then the newest version.
Counter(k) == IF k \in DOMAIN overlay THEN overlay[k] ELSE LatestCell(k)
NoOverflow(p) == FALSE  \* mutant: unchecked add
Overflow(p) == \E k \in p.req.incr : Counter(k).n = MaxInt

Cells(p) ==
  [k \in Writes(p.req) |->
     IF k \in p.req.incr THEN [live |-> TRUE, n |-> Counter(k).n + 1] ELSE p.req.cells[k]]

\* One drained commit, in queue order: it conflicts, its increment overflows,
\* or it applies.
Resolve ==
  /\ pc = "resolve" /\ batch # <<>>
  /\ batch' = Tail(batch)
  /\ LET p == Head(batch)
         cells == Cells(p)
     IN  IF Conflict(p) \/ Overflow(p)
         THEN UNCHANGED <<overlay, group, hist>>
         ELSE /\ overlay' = [k \in DOMAIN overlay \cup DOMAIN cells |->
                               IF k \in DOMAIN cells THEN cells[k] ELSE overlay[k]]
              /\ group' = Append(group, [ts |-> p.ts, cells |-> cells])
              /\ hist' = Append(hist, [ts |-> p.ts, who |-> p.who, checks |-> p.req.checks,
                                       snap |-> p.snap, incr |-> p.req.incr, cells |-> cells])
  /\ UNCHANGED <<clock, visible, chain, queue, pc, top, graveyard, gcHorizon, sweeping, client>>

\* The group is durable, ...
Logged ==
  /\ pc = "resolve" /\ batch = <<>>
  /\ pc' = "apply"
  /\ UNCHANGED <<clock, visible, chain, queue, batch, overlay, group, top,
                 graveyard, gcHorizon, sweeping, client, hist>>

\* ... or its append or fsync failed and none of it is applied.
LogFails ==
  /\ pc = "resolve" /\ batch = <<>> /\ group # <<>>
  /\ pc' = "apply"
  /\ hist' = SubSeq(hist, 1, Len(hist) - Len(group))
  /\ group' = <<>> /\ overlay' = [k \in {} |-> Nothing]
  /\ UNCHANGED <<clock, visible, chain, queue, batch, top, graveyard, gcHorizon, sweeping, client>>

\* The versions the group adds to a key.
NewVersions(k) ==
  {[ts |-> group[i].ts, live |-> group[i].cells[k].live, n |-> group[i].cells[k].n] :
     i \in {j \in DOMAIN group : k \in DOMAIN group[j].cells}}

\* apply_refs_to_shards: one shard at a time, under its write lock, with the
\* snapshots that are pinned at that moment.
ApplyShard(k) ==
  /\ pc = "apply" /\ k \in DOMAIN overlay
  /\ chain' = [j \in DOMAIN chain \cup {k} |->
                 IF j = k
                 THEN Push(IF k \in DOMAIN chain THEN chain[k] ELSE EmptyChain, NewVersions(k), Active)
                 ELSE chain[j]]
  /\ graveyard' = graveyard \cup {[key |-> k, ts |-> v.ts] : v \in {w \in NewVersions(k) : ~w.live}}
  /\ overlay' = [j \in DOMAIN overlay \ {k} |-> overlay[j]]
  /\ UNCHANGED <<clock, visible, queue, pc, batch, group, top, gcHorizon, sweeping, client, hist>>

\* visible_ts moves to the end of the group and the callers are answered.
Publish ==
  /\ pc = "apply" /\ DOMAIN overlay = {}
  /\ visible' = top
  /\ pc' = "idle"
  /\ client' = [c \in Client |->
                  IF client[c].st = "waiting" /\ \A i \in DOMAIN queue : queue[i].who # c
                  THEN [client[c] EXCEPT !.st = "done"] ELSE client[c]]
  /\ group' = <<>>
  /\ UNCHANGED <<clock, chain, queue, batch, overlay, top, graveyard, gcHorizon, sweeping, hist>>

-----------------------------------------------------------------------------
FlushStep ==
  \/ Drain \/ (\E g \in ready : Bury(g)) \/ Raise
  \/ Resolve \/ Logged \/ LogFails \/ (\E k \in Key : ApplyShard(k)) \/ Publish

Next ==
  \/ \E r \in Blind : Submit(r)
  \/ \E c \in Client :
       \/ Begin(c) \/ Drop(c)
       \/ \E r \in Txn : Commit(c, r) \/ Exec(c, r)
       \/ \E k \in Key : Watch(c, k)
  \/ FlushStep

Spec == Init /\ [][Next]_vars

-----------------------------------------------------------------------------
\* Every variable has its type: timestamps stay in their ranges, queued and
\* drained commits are requests (the shapes the operators above rely on).
TypeOK ==
  /\ clock \in 0..MaxTs /\ visible \in 0..clock /\ top \in 0..clock /\ gcHorizon \in 0..visible
  /\ DOMAIN chain \subseteq Key
  /\ \A k \in DOMAIN chain :
       /\ chain[k].vs \in SUBSET Version /\ chain[k].vs # {}
       /\ chain[k].latest = Highest({v.ts : v \in chain[k].vs})
       /\ chain[k].pruned \in 0..clock /\ chain[k].first \in 0..clock
  /\ \A p \in {queue[i] : i \in DOMAIN queue} \cup {batch[i] : i \in DOMAIN batch} :
       p.ts \in 1..clock /\ p.who \in Client \cup {NoClient} /\ p.req \in Blind \cup Txn /\ p.snap \in 0..visible
  /\ pc \in {"idle", "sweep", "resolve", "apply"}
  /\ DOMAIN overlay \subseteq Key /\ \A k \in DOMAIN overlay : overlay[k] \in Cell
  /\ \A i \in DOMAIN group : group[i].ts \in 1..top
  /\ graveyard \cup ready \cup removed \subseteq [key : Key, ts : 1..MaxTs]
  /\ client \in [Client -> [st : {"idle", "open", "waiting", "done", "watching"},
                            snap : 0..visible, key : SUBSET Key]]

\* The engine implements the serial store: a transaction's reads (get_at at its
\* pinned snapshot, whatever is applied, pruned or swept meanwhile) are one
\* published prefix of the commits, and a commit enters the serial order only
\* while what it read is still current.
Published == Cardinality({i \in DOMAIN hist : hist[i].ts <= visible})
Pinned(c) == client[c].st \in {"open", "waiting", "done"}
View == [c \in Client |-> [open |-> Pinned(c),
                           store |-> [k \in Key |-> IF Pinned(c) THEN GetAt(k, client[c].snap) ELSE Nothing]]]
Serial == INSTANCE SerialStore WITH log <- hist, shown <- Published, view <- View
ImplementsSerialStore == Serial!Spec

\* Whether the i-th applied commit finds k written after the snapshot it checks.
WrittenSince(i, k) == \E j \in 1..i-1 : hist[j].ts > hist[i].snap /\ k \in DOMAIN hist[j].cells

\* No transaction commits over a write to a key it read, not even one that
\* restored the value or deleted a key that was then swept (resolve's conflict
\* check, and the sweep horizon that spares chains an open Txn can still need).
TxnReadsStand ==
  \A i \in DOMAIN hist : hist[i].who # NoClient =>
    \A k \in hist[i].checks : ~WrittenSince(i, k)

\* No EXEC is applied when a watched key has changed and exists: the version
\* check of exec_multi on the commit path, across groups and inside one.
ExecMissesOnlyDeletes ==
  \A i \in DOMAIN hist : \A k \in hist[i].checks :
    WrittenSince(i, k) => ~Serial!After(hist, i - 1)[k].live

\* A key whose newest version is a tombstone is never forgotten by the garbage
\* collector: its tombstone waits in the graveyard, or with the sweep that took
\* it from there, until the chain is removed (or the key is written again).
TombstonesAreTracked ==
  \A k \in DOMAIN chain : ~LatestCell(k).live =>
    [key |-> k, ts |-> chain[k].latest] \in graveyard \cup ready

\* get_at_checked: an error when the snapshot predates the retained history,
\* where "did not exist" would be wrong.
NoAnswer == [live |-> FALSE, n |-> MaxInt]
GetAtChecked(k, s) ==
  IF k \notin DOMAIN chain
  THEN IF s < gcHorizon THEN NoAnswer ELSE Nothing
  ELSE IF 0 < chain[k].first /\ s < chain[k].first
       THEN Nothing
       ELSE IF chain[k].pruned > 0 /\ \A v \in chain[k].vs : s < v.ts
            THEN NoAnswer
            ELSE ReadAt(chain[k].vs, s)

\* The store the commits up to timestamp s left.
StoreAt(s) == Serial!After(hist, Cardinality({i \in DOMAIN hist : hist[i].ts <= s}))

\* A sweep has removed the chain of k and not yet raised the collection horizon
\* over its tombstone, which is younger than s.
GoneUnrecorded(k, s) == \E g \in removed : g.key = k /\ s < g.ts

\* A point-in-time read, at any moment of a group, is exact or refused as far back
\* as the collection horizon, whatever was pruned or swept meanwhile.  Two reads
\* are left out.  One is of a key whose chain the sweep under way has removed, at
\* a snapshot older than its tombstone: between the removal and fetch_max the code
\* answers "did not exist" for a key that did.  The other is of a chain in which a
\* snapshot that was open then kept a version older than a pruned one.
AsOfIsExactOrRefused ==
  \A k \in Key, s \in gcHorizon..visible :
    /\ ~GoneUnrecorded(k, s)
    /\ k \in DOMAIN chain => \A v \in chain[k].vs : v.ts > chain[k].pruned
    => GetAtChecked(k, s) \in {NoAnswer, StoreAt(s)[k]}

\* apply_refs_to_shards: a snapshot registered after the open snapshots were
\* read "reads a ts this push already covers".  The run refutes it: visible_ts
\* moves only at Publish, and until then a group with MaxVersions writes to one
\* key has pruned the version every reader asks for.
PublishedIsReadable ==
  \A k \in Key : GetAt(k, visible) = StoreAt(visible)[k]
=============================================================================
