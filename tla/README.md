# StrikeDB in TLA+

Specifications of StrikeDB's concurrent core, the TLC runs that check them on
small instances, and TLAPS proofs of what must hold for every instance. Source
paths are relative to `src/crates/`.

## 1. The system and its parts

| part | state it keeps | operations | hard behaviour | what makes it correct |
|---|---|---|---|---|
| write-ahead log (`storage/wal.rs`) | file, poisoned flag | append a group, fsync, truncate, replay | fsync failure, torn tail, crash | recovery gives a prefix of whole commits; after a failed fsync nothing is promised |
| storage engine (`storage/engine.rs`) | version chains in 32 shards, `clock`, `visible_ts`, write queue, active snapshots, graveyard | commit, submit_op, transactions, checkpoint, FLUSHALL, sweep, point-in-time reads | one flusher for all writers; checkpoint and FLUSHALL beside it; pruning under open snapshots | acknowledged commits survive; commits form one serial order; snapshots do not change |
| keyspace (`server/keyspace.rs`) | headers, elements, indexes and deadlines as engine keys; in memory the expiry index | ~200 commands, MULTI/EXEC/WATCH, reaper | a value is several keys kept in step by hand; index and store are not updated together | what is stored is the value the type promises; EXEC runs only if no watched key changed; no live key is hidden or purged |
| streams (`server/keyspace/stream.rs`) | entries, groups, pending lists, consumers | XADD, XTRIM, XGROUP, XREADGROUP, XACK, XCLAIM, XSETID | blocked readers, moved positions, deletions under a group | no entry falls between "still to read" and "pending"; lag is exact; a blocked reader is served |
| event loop and pool (`server/eventloop.rs`) | connection slots with generations, job queue, thread counts | read, run inline or hand to the pool, take back, flush, close | edge-triggered input while a pool thread owns the connection | no reply to another client, no input forgotten, no starved job |
| pub/sub (`server/pubsub.rs`) | channel and pattern tables, sockets to shut | subscribe, publish, evict, leave | slow subscribers, eviction while subscribing | a subscriber gets each message in order or is disconnected; closed sessions end |
| reactive hub (`reactive`) | enable flag, numbered ring, subscriptions | notify, subscribe, replay | enabling and joining while commits run | a joiner that replays misses nothing |
| replication (`server/replication.rs`) | hub of bounded queues, per-replica ack, replica epoch | register, dump, stream, heartbeat, resync | dump races the commits, queue overflow, lost links, promotion | a synchronised replica equals the primary; WAIT counts what is applied |
| version control (`server/vcs.rs`) | dirty set with epochs, commit graph, histories, branches, HEAD | VC.INIT, COMMIT, CHECKOUT, MERGE, RESET, REVERT, RESTORE, BRANCH | the dirty set is noted beside the commit path and lost on restart | no change is missed; the working copy is HEAD plus the dirty keys; merges commute |
| vector index (`views/vector.rs`) | HNSW nodes with tombstones, id map, dimension; vectors in the engine | VADD, VDEL, VADDBATCH (append or rebuild), reload | graph and engine are written in two steps under different locks | what searches return is what the engine holds |
| agent memory (`memory`) | records as texts, meta data, vectors and keywords in the engine; in memory the record index, a count, the next id | store, invalidate, touch, forget, recall, reload | a record is many commits and mirrors, without a lock | a record is whole or gone, and recall sees it as stored |
| other views, rag, router | key layouts, hot map with TTL | inserts, searches | scores, statistics | - |
| access control (`server/acl.rs`) | rules | check, set | little | - |
| consensus | hybrid clock, CRDT values | now, update, merge | clock going back | timestamps increase, merges commute |
| compute | breakers, shard locks | invoke, reenable | concurrent invocations | three errors in a row quarantine |
| vugva-core | allocators, page table, tiered pool, prefetch in flight | allocate, free, promote, demote, prefetch, sweep | demotion under use, prefetch in flight | no two allocations share bytes, no stale page served |
| gpu (`gpu/lib.rs`) | device copies of the vectors; queue, rows and leaders of shared searches | batched search | queries ride in batches other threads lead | every query comes back with its own row |
| vugva | a cache prototype | lookup | little | - |
| mitm, opusedge, apgc, protocol, engine binary, benches, demos | - | - | - | not modelled: counters, numerical code, parsing, wiring |

How they interact. A client's bytes reach the event loop, which runs a batch
inline or lends the connection to a pool thread. A command becomes one or more
engine commits: it takes a timestamp and queues the commit under one lock, and
waits. The flusher thread drains the queue, resolves the group in order, appends
it with one fsync, applies it shard by shard, calls the commit hooks
(replication hub, reactive hub, version control's dirty set), publishes
`visible_ts` and wakes the callers; the caller then brings the in-memory expiry
index up to date by itself. Checkpoint, FLUSHALL, transactions and replica dumps
all meet that thread through the wal mutex, the shard locks, `visible_ts` and
the table of active snapshots. `PROJECT.json` lists the hazards of this, at
their lines.

## 2. The modules

### Storage

**CommitLog** (`engine.rs`, `wal.rs`): the durable commit path. Variables are the
engine's fields (`clock`, `visible`, `appended`, `queue`), the flusher's position
`pc` with its group, the chains `mem` as a set of versions, and the files: live
log `wal` with its fsynced part `synced`, rotated segment `seg`, snapshot `snap`.
A file is the set of commits (frames) or versions in it. One action per step
that another thread or a crash can see between: enqueue; drain and resolve;
append; fsync; the three file steps of FLUSHALL and the clearing of the shards;
apply; publish; answer; and for a checkpoint rotate (or fold, truncate), read,
rename, remove. Every I/O step has its failing twin. `Crash` keeps what was
fsynced and any prefix of the rest; `Recover` is `Engine::open`. Which
conditional commits (read sets, operations) turn out to write is left open; that
is Mvcc's subject. The ids of commits, and `acked`, `logged`, `floor`, `before`,
are history that properties read and no guard does (`nextId`, `boots` and `wipes`
also carry the bounds).

**SerialStore**: the contract of the transaction layer, not code: one log of
commits, readers see a published prefix, a transaction keeps the prefix it began
with, a commit is entered only while what it read is still current.

**Mvcc** (`engine.rs`, `keyspace.rs` exec_multi): version chains with pruning,
resolution of a group against the chains and the overlay, increments with
overflow, transactions and their pins, WATCH and EXEC, application shard by
shard, publication, `get_at_checked`, and the tombstone sweep: `Collect` takes what is
ready from the graveyard, `Bury` removes one chain under its shard's lock, `Raise` moves
`gc_horizon` after the last one, and readers run between them. It is shown to implement
SerialStore: `log` is the commits that resolved to Apply, `shown` how many of
them `visible_ts` covers, and the view of an open transaction is what `get_at`
returns for every key at its pinned snapshot, whatever is applied, pruned or
swept meanwhile.

**ChangeFeed** (`reactive/lib.rs`): the change hub beside concurrent committers.
A notification takes a number and enters the ring under one lock, and is sent to
the subscribers under another; a late joiner subscribes and then replays the
ring. `commits` is the history it is compared with.

### Server

**EventLoop** (`eventloop.rs`): one epoll worker and its pool. `calls` is the
worker's stack of calls (`readable`, `process`, `flush`, `close`, ... ), so that
each return continues where the code does; a slot holds generation, connection,
`muted`, `paused` and `more_to_read`; a socket delivers an edge only when new
bytes come or space frees. Pool threads take jobs, retire when idle and send
completions back; a completion names slot and generation. A client's script is a
sequence of kinds of pieces: a command that may run inline ("read"), one that must
run on the pool ("write"), the first half of a long command ("part", which stays in
the buffer until the next piece is there), QUIT and SUBSCRIBE. Input is the numbers of
pieces, a reply is units of output that carry the number of the piece they answer
(`Big` units for a long command), so what a client reads names the commands it sent.
`ScriptsEnd`: a SUBSCRIBE is the last piece, because what follows is the business of
the thread the connection is handed to.

**ExpiryMirror** (`keyspace.rs`, fast paths of `main.rs`): one key, its stored
value and deadline, and the two things kept in memory beside them, the expiry
index and the "has collections" flag. Callers commit, and bring the index up to
date in a later step; the reaper collects, purges and clears in three; the SET,
DEL and INCR runs look at the index before they commit.

**Streams** (`keyspace/stream.rs`, `main.rs` stream_block): one stream with one
group: entries, last ids, `max_deleted`, the group's position and
`entries_read`, the pending list and consumers, and an XREADGROUP that blocks.
`settled` (entries acknowledged or taken out of the group's reach) and `skewed`
(somebody set a position by hand) are history.

**Broker** (`pubsub.rs`, `main.rs` subscribe loop): both tables, publishers that
walk one and then the other, eviction step by step, one subscriber's session
thread with its forwarder, its clean-up and its return to normal service.

**KeyTypes** is the contract of the data types: what every command makes of the
values strings, hashes, lists, sets and sorted sets, with deadlines. **Keyspace**
(`keyspace.rs`) is what the code stores: a header with a count or a head and
tail, element keys, the index of scores, the positions of set members and the
deadline keys, each written by the command's own helper calls. Keyspace
implements KeyTypes under the mapping that reads a value back from these keys.
Both are one action per command; concurrency of commands is Mvcc's subject.

**Vcs** (`vcs.rs`): the dirty set and its epochs, noted by a hook inside the
commit path, the scan that VC.INIT and a restart make at a snapshot, and the
repository: commits with one or two parents, the histories of keys, branches and
HEAD. A caller runs one command at a time in the steps another thread can see
between (read, commit to the engine, settle the dirty set). A group may fail at its
append, its fsync or its FLUSHALL (`Fail`): nothing of it is applied, no hook runs, and
every caller in it gets an error, which makes VC.INIT switch the tracking off (`Off`).
`raced` records that a VC.INIT left the tracking off or scanned too early, `unseen` the
keys whose last change the hooks did not note while it was off.

**VectorIndex** (`views/vector.rs`): the engine's vector of each id, the graph's
node of each id, nodes that no id leads to any more (`lost`) and nodes marked
deleted (`dead`). VADD, VDEL, VADDBATCH and its PAR form (append, or export,
build and swap) are the steps between which another connection gets the lock or
the engine; FLUSHALL and a restart, which reloads the graph, are there too.
`broken` is a graph whose lock a panic poisoned.

**Memory** (`memory/lib.rs`): long-term records of agent memory, each command in
the commits and mirror updates that another thread can see between. A record is
four entries in the engine (`text`, `meta`, `vec`, `words`), an entry of the record
index, a share of `count` and an id below `next`. FLUSHALL, the reload after
replicated writes, failures of a commit and a restart are there too; `loose` are
the ids two commands met on, or that a failure or a crash left half done.

**QueryCoalescer** (`gpu/lib.rs` gpu_search_coalesced): the queue of queries, the
rows that wait for their threads, the number of leaders, and where each thread is
(waiting, woken, launching a batch). `Loop` is the head of the code's loop, under
the lock; a launch ends with rows (`Land`) or without (`Fail`). `mixed` is history:
some thread got a row computed for another query or another shape.

### Copies

**Replication** (`replication.rs`, and the hook order of `engine.rs`): primary's
commit thread (apply, one broadcast per entry, publish), the hub, a serving
thread per connection (register, pin, dump shard by shard, READY, forward, drain,
heartbeat, leave), the replica loop. Each direction of a connection is a FIFO
that can be cut at any time. A broadcast is one step: it holds the hub's read
lock while it sends and while it stores `active`.

**TieredPool** (`vugva-core/tiered.rs`, `vmt.rs`): pages of one or more shards in
device memory, pinned memory or the spill file: allocate, access with its
promotion, prefetch and claim, write, demote copy by copy, deallocate and the
two sweeps; a kernel of the caller's may rewrite a block it was given (`Compute`).
Blocks and bytes' contents are tokens. Two variables are history. `outrun` holds the
names with a prefetch in flight that is older than the page's last `write_page` or
allocation. `exposed` holds the pages whose device copy the pool itself made or left
stale: `Exposed(p, why)` is called in three places, and section 3 names them.

**RangeAlloc** (`vugva-core/range_alloc.rs`, used by `spill.rs`; `DramPool` in
`tiered.rs` is a copy of the same code): the allocator of the spill file's
offsets. `offset` and `free` are the code's fields, the sorted list as a set of
blocks; `live` is history, the ranges callers hold. `Reuse`, `Extend` and
`Refused` are the three outcomes of `allocate`; `Return` is `free` with its early
returns, both merges and the retraction; `Free` calls it for a range somebody
holds (also after a failed write of a spilled page), `Stray` for a range nobody
holds.

### Proofs

Eight modules hold the theorems: **CommitLogProofs** (of CommitLog: snapshots,
recovery), **MvccProofs** (of Mvcc and its refinement), **StorageProofs** (of
ChangeFeed and VectorIndex, as MCStorage instantiates them), **EventLoopProofs**,
**ServerProofs** (of Broker, Streams and ExpiryMirror, as in MCServer),
**CopiesProofs** (of RangeAlloc, Replication and TieredPool, as in MCCopies),
**VcsProofs** and **KeyspaceProofs** (of Memory, as in MCKeyspace).
Section 4 says what they establish and how.

### How the runs combine modules

The modules named **MC...** give the constants. Some of them hold several modules
in one state: **MCStorage** (Mvcc twice, ChangeFeed, VectorIndex), **MCCopies**
(Replication, TieredPool, RangeAlloc), **MCLive** (CommitLog, Replication),
**MCServer** (ExpiryMirror, Broker, Streams, QueryCoalescer), **MCKeyspace**
(Keyspace, Vcs twice, Memory; it extends Vcs, as MCCopies extends RangeAlloc, so that
TLC evaluates their assumptions). There a variable `subject`, fixed by the initial state, says which part
the behaviour is about: that part takes its steps, the variables of the others
stand still, and invariants of the others are trivially those of an initial
state. The behaviours of such a run are the disjoint union of the parts' own
behaviours; nothing is composed that the code does not compose. Fairness is
stated for the subject's actions only (`Turn(s, A)`).

Definitions marked `mutant` are used by nothing: each is a plausible bug in the
definition after it, and `PROJECT.json` says which property it breaks.

## 3. The runs

| run | question | bounds |
|---|---|---|
| `storage` | does the engine implement SerialStore under write skew and over a long history; does a joiner of the change feed miss something; is what vector searches can return what is stored | versions: 2 clients, 2 keys, 3 timestamps, or 1 client, 1 key, 5 timestamps, chains of 2, counters to 2; feed: 2 committers, 5 commits, ring of 4; index: 2 connections, 2 ids, 3 vectors of 2 dimensions, 3 commands, 1 restart |
| `live` | do acknowledged commits survive, is recovery a prefix, do writers read their writes, do snapshots stay, is poison final, is every commit answered, does every checkpoint end; is every published commit acknowledged by a replica | 2 commits over 2 keys (of three kinds: conditional on both, a put, a deletion), 1 FLUSHALL, 1 crash; 1 key, 2 entries (the second before a second connection), 2 connections, queue of 1 |
| `copies` | does a replica converge and never go back; do pages keep their bytes and blocks one owner; can an allocator's bytes have two owners, be lost, or be refused although free | 2 keys, 3 entries in groups of up to 2 (the third before a second connection), 2 connections, queue of 2, socket of 1; 2 pages, 1 device, room for 2 in each memory, 1 prefetch in flight; a region of 19 bytes, alignment 2, requests up to 7 |
| `event_loop` | is every command answered, once, in order, to its client, and no job left without a thread | 2 clients with the scripts of `MCEventLoop`, 2 pool threads, socket of 1 unit, high-water mark 2, long replies of 3 units |
| `server` | are live keys never hidden until two commands meet, are overdue entries dropped; does a subscriber lose a message unnoticed, do closed sessions end; does an entry slip through a consumer group, is the lag exact, is a blocked reader served; does every search that shares a launch come back with its own row | expiry: 2 callers and the reaper, 1 key, 1 deadline; broker: 2 publishers, queue and socket of 1; stream: 2 consumers (1 blocks), 2 ids, 2 additions; searches: 3 threads that go on asking, 2 shapes, 2 leaders, batches of 2, 2 failed launches |
| `keyspace` | is what is stored the value the types promise, with nothing left behind; does version control miss a change, do merges commute, is the working copy HEAD; are records of agent memory whole or gone | 2 keys, 2 members, 2 scores, integers to 1, lists of 2, one deadline; tracking: 2 callers, 1 key, 3 commits, FLUSHALL and restart; graph: 1 caller, a key of two engine keys, 2 branches, 5 commits; memory: 2 threads, 2 ids, 3 commands after a first store, 1 restart |
| `flush_crash`, `flush_tail` | the two promises in the comment of `flushall_with_backup` (refuted) | as the log of `live`, with 3 commits |
| `hot_key` | the comment about pins in `apply_refs_to_shards` (refuted) | as the history of `storage`, 3 writes of one key in a group |
| `sync_gap` | the comment in `serve_replica` (refuted) | as `copies` |
| `slow_reader` | the comment on the high-water mark of output (refuted) | as `event_loop` with 1 thread, a script of its own and replies of 1 unit, high-water mark 1 |
| `stale_index` | the comment that fast paths "stay exact under TTLs" (refuted) | 2 clients, 1 key, 1 deadline |

Why the bounds are enough. Two commits give a commit on each side of any
checkpoint, FLUSHALL or crash, in one group or in two; what three commits and more
crashes could show of the log's safety is proved (section 4), for any number.
A second crash starts from files that a first crash could have left as well. `MaxVersions = 2` instead
of 8 makes pruning happen with three writes, and five timestamps make it happen
twice around an open snapshot. Three log entries allow one before, one during
and one after the dump, and a queue of two overflows with a third; two
connections give one eviction and one resynchronisation. `GroupLimit` bounds the
queued commits that write one key: it keeps below `MaxVersions`, because at
`MaxVersions` the finding of `hot_key` makes reads at the published timestamp
wrong, and with them every property about reads. `SnapBatch` stands for the 4096
keys a replica loads at once; no instance needs it exceeded beyond one batch. Two
pages and room for two make every promotion of a third copy evict; one prefetch
in flight is what the code's claim can meet. A region of 19 bytes with alignment 2
holds nine units (one byte is never usable), enough for held ranges on both sides
of holes of different lengths; a request of 7 needs four units and so several
merged holes. What no instance can show, any size, is proved. In `event_loop` the
scripts hold a command split over two reads, one that must run on the pool, one
whose reply fills the output, a batch from the pool that passes the high-water mark
beside announced input, and a QUIT; with a socket of one unit every flush
blocks. Two clients and a reaper are the three parties that touch an expiry entry
(caller, racing caller, purge). Two publishers make an eviction meet another
eviction. Two members fill a set and empty it, with the swap of positions in
between; two keys are what RENAME and the set operations need. Five version
control commits allow a criss-cross merge (root, one on each branch, two merges).

The models stop when their bounds are used up, so deadlock is not checked:
"nothing more to do" is a legal end of these bounded instances, and the liveness
properties look for waiting that does not end.

**Findings.** Six runs refute a sentence of the repository's comments; the
counterexamples are short and named in `PROJECT.json`:

* `flush_crash`: FLUSHALL renames two files one after the other and forgets
  `<wal>.ckpt`, so a crash can leave a mixture of old and new.
* `flush_tail`: commits drained with a FLUSHALL but enqueued after it are
  acknowledged and lost.
* `hot_key`: a group with many writes to one key prunes the version that readers
  still ask for.
* `sync_gap`: a replica that registers between broadcast and publication misses
  a commit.
* `slow_reader`: replies that reach the high-water mark on a pool thread while
  input was announced are not flushed, although the socket would take them.
* `stale_index`: two commands on one key update the expiry index in the wrong
  order, and GET answers nil for a live key.

The passing properties exempt exactly these cases, and others of their kind, and
say so:

* `AckedSurvive`, `ReadYourWrites`: commits up to `floor` (those a FLUSHALL,
  successful or not, may have taken). `RecoveryIsAPrefix` is about histories
  without a FLUSHALL.
* `CleanSyncConverges`: replicas that registered between groups and were not
  flushed before their dump. A FLUSH that was queued before the dump empties the copy
  after it; `CopyMovesForward` allows that too, so neither property catches it.
* `ExecMissesOnlyDeletes`: a watched key that was deleted and whose tombstone was swept.
  It reads as never written, and EXEC goes ahead although the comment on `exec_multi`
  (`keyspace.rs` 485-486) says that any change aborts. WATCH pins no snapshot.
* `AsOfIsExactOrRefused` holds at any moment, in the middle of a group too, with two
  exceptions. `GoneUnrecorded`: `sweep_tombstones` removes chains one shard lock at a
  time (`engine.rs` 597-604) and raises `gc_horizon` after all of them (605); a
  `get_at_checked` in between finds neither chain nor horizon and answers `Ok(None)`
  for a key that lived at that time. The other is a chain in which a snapshot that was
  open then kept a version older than a pruned one.
* `EveryCommandAnswered`: a connection that is stranded (`Stranded`): paused over the
  high-water mark by what came back from the pool while input was announced, with a
  socket that would take its replies and no event due. That is the finding of
  `slow_reader`; a script of the run leads there, and without the exemption the
  property fails.
* `ExactUntilTheyMeet`: the key until two commands on it overlap (`met`).
* `LagIsExact`: groups whose position or counter somebody set by hand ahead of what
  they read (XGROUP CREATE or SETID, XSETID), or ahead of whose position entries
  were deleted or trimmed (`skewed`), where the code says "unknown" or keeps an
  estimate.
* `AuthorityIsCurrent`: a page is `exposed` from one of three steps until it is written
  without a device copy, allocated anew or freed; without any one of them the property
  fails. (1) `write_page` on a page that has a device copy leaves that copy stale
  (`tiered.rs` 1120-1123 says so). (2) A prefetch that was issued before the page was
  written, or before its name was freed and allocated again, is claimed (1084-1106): its
  old bytes become the authoritative copy. The comment allows a stale copy only for a page
  resident in device memory, and this page was not; no text of the repository mentions
  it. (3) The result of the copy in `access` (611) is ignored: if the driver refuses it,
  the block's old contents become authoritative. A write through a device address
  (`Compute`) is not an exemption: the block it changes is the authoritative one.
* `NothingIsMissed` and `WorkingCopyIsHead`: a key that is `Missed`, that is, one whose
  last change the hooks did not note although there was a repository, or was to be one.
  There are two ways to that. VC.INIT sets `enabled` after a group's hooks have run and
  before the group is published, so a key of that group is neither in the scanned
  snapshot nor noted; a FLUSHALL or a second VC.INIT that is refused in between has the
  same effect. And a VC.INIT whose group fails switches the tracking off whether or not
  there is a repository (`vcs.rs` 691-695), until the next VC.INIT or a restart. Either
  way the comment at 655-657 is wrong. The exemption is by key, and ends when the key is
  written while the tracking is on, has HEAD's value again, or a restart has all scanned.
  Without it `NothingIsMissed` fails after some ten steps; there is no separate run for it.
* `GraphIsStore`: ids that two commands met on (a PAR rebuild and FLUSHALL touch
  every id) or whose write failed (`loose`), and ids that a batch added although
  they had a node (`doubled`). In the last case VADDBATCH leaves the old node live,
  and after VDEL searches still return it, although the comment on VDEL
  (`server/main.rs`) says the vector is gone from the graph; the property
  fails without the exemption after three commands.
* `RecordsAreWhole`: ids that two commands met on, or that a failure or a crash
  left half done (`loose`); the count and the next id, only while there is no such
  id: a store that a crash cuts short before its count is counted after the restart.
  So half failures, crashes half-way, two commands on one id and a reload beside a
  command are not covered; the code does leave parts of such records. What the property
  catches is a mirror that was not told, a command that disturbs another id, and a restart
  or a reload that comes back with something else than was stored.

**Fairness.** Only threads the program keeps running are fair, and no client is
ever forced to send, to start a checkpoint or to fail.

* CommitLog: strong fairness of the flusher (a blocked mutex is released between
  checkpoints and it gets its turn), weak fairness of a thread inside
  `checkpoint`.
* Replication: weak fairness of the commit thread, of each serving thread and its
  ACK reader, and of the replica loop, which retries for ever; strong fairness of
  the heartbeat, which is due again every 100 ms. `EveryWaitEnds` excuses a
  replica without a connection once `MaxLinks` is used up.
* EventLoop: weak fairness of the worker, of each pool thread, of clients that take
  what their socket holds, and of the thread a connection was handed off to.
* ExpiryMirror: weak fairness of the reaper, which a timer starts again for ever,
  and of commands under way.
* Broker: weak fairness of the session thread, its forwarder and publishers in
  the middle of a publish.
* Streams: weak fairness of the poll of a blocked reader, which wakes up on a timer.
* QueryCoalescer: weak fairness of each thread that was woken (it gets the lock) and
  of each launch (the code waits for its stream with a limit). Nobody has to ask again;
  failures are bounded, because each one puts queries back into the queue.

## 4. What is proved

Every theorem is about the specification itself, for all values of its constants
that satisfy the named assumptions (TLC evaluates these in the runs). Each rests on
an inductive invariant, proved in three steps: the initial states have it, every
action keeps it, it implies the property. Bounds such as `MaxId`, `MaxTs` or
`MaxCommits` are constants like the others, so the theorems hold whatever they are.

**The log** (`CommitLogProofs`; `WriteAssumption`: a commit
touches some key and does not both put and delete it, as `Mutation` lists do;
`BoundAssumption`: the bounds are natural numbers).

* `TypeCorrect`. `synced \subseteq wal` makes it more than typing: no truncation,
  rotation or FLUSHALL leaves a stale fsynced length.
* `Invariance`: `IInv == TypeOK /\ CommitOrder /\ LogGuarded`. `CommitOrder`: what is
  queued or drained is newer than everything published until it is published
  itself. `LogGuarded`: flusher and checkpoint hold the log one at a time, and only
  while it is sound.
* `StableSnapshots`: that `Apply` adds only versions above `visible` is `CommitOrder`,
  and that needs timestamps and queue positions to be given out under one lock and
  the whole queue to be drained.
* `PoisonStays`: a fsync in progress would extend `synced` after poisoning;
  `LogGuarded` says that none is.
* `RecoveryInvariance`: `RInv`. The commits that must survive (`Obliged`) are each in
  the live log, in the rotated segment, or accounted for by the snapshot (`OnFile`),
  where "accounted for" allows a later durable write of the same key. `InOrder`: what
  is still in a log is younger than what is in none, so that replaying a segment over
  a newer snapshot changes nothing. `InMemory`: the published chains account for all
  but the group on its way. `Folding`: so does what a checkpoint holds between its
  steps, which is why the next rotation may lose the segment.
* `AcknowledgedCommitsSurvive`, `OwnWritesAreRead`: consequences of `RInv`, for every
  prefix of the unsynced log that a crash may keep.
* `RecoveryGivesAPrefix`: the files together are the state after some prefix of what
  was logged; the version of a key with the highest timestamp wins wherever it lies.

**Versions and transactions** (`MvccProofs`; `RequestAssumption`: only transactions
have read sets; `ClientAssumption`; `BoundAssumption`: `MaxVersions` and `MaxInt` above 0).

* `MvccInvariance`: `MInv`. A history variable of the model lists the resolved commits;
  `Chains` says what a chain has of it: the newest settled version, and from its first
  version on every one newer than the newest pruned; a key without a chain has a
  history that ends in a tombstone behind every pin. `Queued` and `Serials`: timestamps
  follow the queue's order, and what precedes the group being flushed is what readers
  see. `Overlaid`: the overlay has the group's newest write of each key. `Waits`: a
  queued transaction's client is still waiting with the same snapshot, hence its pin.
  `Sweeping`: what a sweep still has to look at, and what it has removed, are tombstones
  behind every snapshot; a key without a chain ends at `Swept(k)`, the horizon or the
  tombstone that the sweep under way has removed and not recorded yet.
* `TransactionsAreSerial` (`TxnReadsStand`): the check at resolution sees a conflict
  wherever it is: in the overlay, in the chain, pruned, or swept after a deletion.
* `ExecIsGuarded`, `TombstonesTracked`, `AsOfReadsAreExact`: from `Chains`. The last holds
  in every state, between the steps of a sweep and of a group too: what is applied above
  `visible` and what is pruned for it do not change an answer at or below it.
* `EngineIsSerial`: the refinement of SerialStore, step by step, under one condition:
  `GroupLimit < MaxVersions`. `Readable` (the published timestamp can be read exactly)
  is invariant only then: a group that writes one key `MaxVersions` times prunes the
  version readers still ask for before it publishes, which is what `hot_key` shows. The
  code has no such limit; the theorem says what holds as long as groups keep to it.

**The change feed and the vector index** (`StorageProofs`; `FeedAssumption`: the ring
and the number of prefixes are as large as the hub's constructor makes them).

* `FeedInvariance`, `JoinersMissNothing`: an event the joiner is owed is with its
  committer, in the ring, or was dropped from it (`NothingDueIsLost`), because an event
  is logged before it is sent and the joiner is in the table before it reads the ring.
* `IndexInvariance`, `GraphIsTheStore`: `Place` states for every point of every command
  how the graph's node and the engine's row of an id may differ, as long as no second
  command touched the id.

**The event loop and its pool** (`EventLoopProofs`; `FinitePool`: finitely many
threads; `ScriptsEnd`; `LimitsAreNumbers`: socket, pause limit and length of a long
reply are natural numbers).

* `PoolInvariance`, `NoQueuedJobIsForgotten`: `JobsHaveThreads` counts. A thread waits
  only if every queued job has a thread woken for it, and a thread is left unstarted
  only if every queued job has one on its way; the timeout of an idle thread does not
  break this, since it looks at the queue once more under the lock.
* `RepliesInvariance`: `ReplyInv`, which says for every state how far each client has
  come. `Follows(kinds, n, q, w, h)` is the heart of it: there is an m such that the
  client has the replies `w` to its first m pieces, and the input the server holds (`h`)
  with the input in the socket (`q`) is exactly the pieces from m + 1 to the last one
  sent. `ConnOK` says it of a connection the worker has (or that it has ended with QUIT
  and everything is answered), `JobOK` of a batch that is queued or with a pool thread,
  `CompOK` of a completion on its way back, counting the replies it carries; `ClientOK`
  of the clients without a slot. Three more parts make that inductive. `LentOnce`: a
  connection, named by slot and generation, is with one place of work at most (a job, a
  thread, a completion, a call of the worker), so two of them never continue the same
  replies. A generation older than the slot's is stale, and what names it claims nothing
  (`Live`); a job that writes to the socket itself (`direct`) is never stale and its
  connection has no output queued ahead. `OneSlotEach`: a client has one slot.
* `RepliesAreInOrder` (`RepliesInOrder`) and `ClosesAfterLastReply`
  (`ClosedAfterLastReply`) follow. They rest on what `Output`, a function defined along
  a batch, computes: that it exists and is what its definition says (from the least index
  that would fail), that the replies to two batches one after the other are those to
  both together (`Unstopped` batches), and that a batch that ends with QUIT or SUBSCRIBE
  leaves the replies of the whole script.

**Broker, streams, expiry index** (`ServerProofs`; `StreamAssumption`: ids are bounded;
`MirrorAssumption`: time is bounded and clients are finitely many).

* `BrokerInvariance`, `NoSubscriptionLost`: an eviction that has begun ends at the
  socket, and a session that may hold subscriptions has its handle or a shut socket.
* `StreamInvariance`, `NoEntrySlips`: header, position, pending list and what was settled
  together cover every entry the group is past.
* `LagInvariance`, `LagsAreExact`: `LagInv`. A header counts its entries, and while
  nobody skewed the group, `added - read` is the number of entries after the position
  whenever `read` is known (`ReadIsExact`). What makes it inductive is the code's
  `estimate`, which sees that no entry after the position was deleted, and the walk of
  one XREADGROUP, whose counter is proved exact at every delivered entry.
* `MirrorInvariance`, `MirrorsAgree`: until two commands on the key meet, one thread at
  most is under way, and what it still owes brings index and flag up to date (`Here`, one
  clause per place). Commands that wait behind a purge are continuations, so the
  invariant nests two deep.

**Replication** (`CopiesProofs`; `CopyAssumption`: bounds and limits are natural numbers,
the queue, the socket and batches hold at least one, FLUSHALL is not a key).

* `CopyInvariance`: `CopyInv`. `QueueHolds`: a registered connection's queue is exactly the
  end of what the hooks have seen, so what it was sent is a prefix. `WireHolds`: frames
  come as dump, READY, stream, and nothing of one part in another. `OrderHolds`: what
  arrives is never older than what is there; a key not dumped yet has no value.
  `CleanHolds`: if no FLUSHALL follows, replica, load buffer and wire together end with
  the primary's value of every key dumped.
* `CleanSyncsConverge`: with queue and wire empty, `CleanHolds` is the property.
* `CopyNeverGoesBack`: from `OrderHolds`; without it a dump could be loaded over a
  newer streamed value.

**The allocator** (`CopiesProofs`; `SizeAssumption`: alignment above 0; that it is a
power of two is not needed).

* `AllocatorInvariance`: `AllocatorInv == TypeOK /\ NoAliasing /\ NothingIsLost /\ Coalesced`. The first
  three hold each other up: that `free` ignores what nobody holds follows only because
  held and free ranges cover everything below `offset`, so that a stray range is empty,
  above it, or on the list. `Coalesced`: no two free blocks touch, and none touches
  `offset`.
* `NeverAliases`, `NeverLoses`: two of its conjuncts.
* `HonestRefusals`: an unused run of bytes is covered by free blocks and the top; by
  `Coalesced` it lies in one of them, so best fit finds it.

**The tiered pool** (`CopiesProofs`; `SizesAreNumbers`: sizes are natural numbers; and
the hypothesis `Gpus = 1` of each theorem, for the reasons of section 5).

* `PoolInvariance`: `PoolInv`. `Owned`: a block of a page or of a prefetch is not cached
  and nobody else's. `Queued`: a copy still in the stream goes to a prefetch, and comes
  from the page it was made for, or from memory that is no page's any more, and then
  the prefetch is outrun. `Sound`: a page that is not exposed is current wherever the
  next operation will look, also in a block that a prefetch fills or will have filled
  when it is claimed, unless the prefetch is outrun.
* `OneOwnerEach`: from `Owned`. `NothingIsOverwritten` (`AuthorityIsCurrent`): from
  `Sound`; the copies in the stream are in the invariant because a claim waits for
  them and only for them.

**Version control** (`VcsProofs`; `NoneIsNoBranch`: the branch names do not include
`None`).

* `VcsInvariance`: `VcsInv`. `NotedIfDue`: a key that differs from HEAD is in the dirty
  set, or in the group whose hooks have yet to run. `ScanCovers`: while a command that
  scanned waits, such a key may also be among those it scanned or in HEAD's history, which is
  where the command looks. `SettlesOnlyOld`: what differs once a command has run was
  noted after the epoch it will settle. `StoredIsSeen` and `SeenIsPublished`: a snapshot
  shows every stored key but those of the group on its way, which the hooks note.
  `OneRequestEach`: a caller has one request on the commit path, and waits for it.
  `ScansWhenNeeded`: a command that needs the whole keyspace scans it. `TrackingIsOn`:
  the hooks note keys as long as there is a repository or may be one, until a VC.INIT
  fails or comes too late (`raced`); from then on every clause leaves out the keys that
  are `Missed`, and no others. `FallsBack`: the same holds of what was published, with
  the dirty set as it is, because a group that fails brings that content back while what
  its commands did to the dirty set and the epoch stays.
* `NothingMissed`: from `NotedIfDue`. `SettledIsHead` (`WorkingCopyIsHead`): each command
  that settles is shown to leave a store that its new commit, read back through the
  ancestors of HEAD, gives.
* `MergeOrder` (`MergesCommute`): a user whose keys nobody changed since the base has the
  base's state, so the rule of the merge is symmetric. `Ancestors` is recursive over
  commit numbers; that it satisfies its equation is shown by the least commit to which
  it could not be drawn out (`LineageIs`).

**Agent memory** (`KeyspaceProofs`; `IdsAreNumbered`: ids are the numbers from 1 to some
bound).

* `MemoryInvariance`: `MemoryInv`. `Placed` says, for every point of every command, what
  of its record is written and what the index has; `Resting`, that a record nobody works
  on is whole or gone, and indexed as stored; both about ids that no second
  command, failure or crash met (`loose`). `OneOwner`: one thread at most works on such an id. `Counting`: MEM.COUNT is the number of texts, corrected by the
  commands between their text and their count.
* `RecordsStayWhole` (`RecordsAreWhole`): from `Resting` and `Counting`.

**What only TLC checks, and why.**

* Liveness (`EveryCommandAnswered`, `EveryCommitIsAnswered`, `CheckpointsEnd`,
  `EveryWaitEnds`, `OverdueEntriesGo`, `ClosedSessionsEnd`, `BlockedReadersAreServed`,
  `EveryQueryGetsItsRow`): it rests on fairness and ENABLED, which the prover does not cover.
* `ImplementsKeyTypes`, `KeysAreWhole`: they need what definitions over whole data
  structures compute (lists, sets and sorted sets read back from element keys), which is
  induction over data. The prover can do it only by hand, from the least number that
  fails, once per definition: this was done for the counter of a group's reads, for
  ancestors in a commit graph and for the replies to a batch, not for these.
* `BlocksHaveOneOwner`, `AuthorityIsCurrent` with several devices: false there
  (section 5).

## 5. What is not modelled

* CommitLog: corrupt frames in the middle of a file; a fold that fails half-way
  through its copy; a failed reopen after rotation; the non-durable mode; `Drop`,
  whose orderly stop leaves files that some crash leaves too; directory entries are
  taken to be durable in the order of their operations; a checkpoint reads the
  chains in one step (the snapshot it is pinned at is stable: `SnapshotsAreStable`).
  Operations submitted to the flusher are commits whose effect is decided at
  resolution.
* Mvcc: shards with several keys, range scans, restarts.
* Keyspace: bit operations, HyperLogLog and geo commands, which change a string or
  a sorted set through the helpers that are modelled; scores and strings are
  members of small sets. Its commands are atomic, as the engine makes them
  (`submit_op` on the flusher, or one transaction), so races are left to
  ExpiryMirror and Mvcc.
* ExpiryMirror: one key, and no restart while a command is under way.
* Streams: one group; entry fields, delivery counts and idle times; reading one's
  own pending entries; the options ENTRIESADDED and MAXDELETEDID of XSETID
  (`stream.rs` 739-753) and ENTRIESREAD of XGROUP CREATE and SETID (1157, 1178). They set
  by hand a counter that only the lag is computed from, so `LagIsExact` would exempt
  the group as `skewed`, and no other property reads them.
* EventLoop: several loop threads (connections never move between them), the limit
  on accepted connections, a command that panics on a pool thread (a listed hazard).
* Broker: one subscriber; SSUBSCRIBE uses the same tables.
* Vcs: tags (revisions like any other), the encoding of commits, replies of the
  commands that only read, the reload of in-memory mirrors after a checkout. A group
  whose append or fsync failed is never read back: what the log holds of it at a restart
  is CommitLog's subject. In the runs, groups fail in the instance about tracking, not in
  the one about merges.
* Replication: several replicas, epochs and promotion, authentication; a deletion
  is a value like any other, and values are timestamps.
* TieredPool: driver calls fail where the code goes on after the failure (the copy in
  `access`) and where that copy cannot be waited for; those that only end a call early, and
  at most lose its block, are left out, as are allocations the driver refuses although
  there is room. Scores and idle times are choices; the pool of the run and of the
  theorems has one device. With several a prefetch copies a whole page from the
  address of its first shard (a listed hazard) and `AuthorityIsCurrent` fails in the
  model as it does in the code. `BlocksHaveOneOwner` fails too: `demote` frees the
  block of one chunk and may return an error on a later chunk, which leaves the freed
  block in the page's `vram_chunks` (five steps with two devices and a page of 3).
* RangeAlloc: sums of offsets beyond `usize`, and callers that free with a size
  other than the one they allocated or free a range twice after it was handed out
  again: `tiered.rs` frees each chunk once, with the size stored beside it (and
  spilled ranges not at all, a listed hazard).
* VectorIndex: edges, quantisation and what a search finds; the lexical index
  (where an older document of an id stays when it is added again); the copy on the
  GPU; the reload a replica does; partial failure inside FLUSHALL.
* Memory: working memory, episodes and procedures, edges between records (an id
  that is given out again after a restart inherits those of the record it had), and
  the replicated writes between two reloads, which happen while nobody stores here.
* QueryCoalescer: the data of queries and rows, a panic of a leader, and tickets
  that wrap around.
* Everything numerical: recall and distances of the vector index, scores of rag and
  memory, the kernels of gpu and vugva-core. What is left of those parts is parsing,
  formatting and wiring. Components that no module covers are listed in
  `PROJECT.json` with their reason; the bench and demo programs, the RESP parser
  and the dispatch table of `main.rs` are a large share of the lines and hold no
  state of their own.

## 6. Plan

Done: every module of section 2; proofs of the safety properties of CommitLog, Mvcc
with its refinement, ChangeFeed, VectorIndex, EventLoop, Broker, Streams, ExpiryMirror,
Replication, RangeAlloc, TieredPool, Vcs and Memory. Next, in this order:

1. Shared searches: that no row is mixed up, as an invariant with a proof
   (`EveryQueryGetsItsRow` has it inside a liveness property).
2. **Replication** with epochs and promotion.
3. **Breaker** and **Hlc**: small modules, both with proofs.
4. The refinement of KeyTypes, one type at a time.
