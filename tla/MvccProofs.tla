----------------------------- MODULE MvccProofs -----------------------------
(***************************************************************************)
(* Theorems about Mvcc: no transaction commits over a write to what it     *)
(* read, a point-in-time read is exact or refused, tombstones are never    *)
(* forgotten, and, when a group cannot write one key MaxVersions times,    *)
(* the engine implements the serial store.  For every set of keys, clients *)
(* and requests and every bound.                                           *)
(***************************************************************************)
EXTENDS Mvcc, TLAPS, FiniteSetTheorems, FunctionTheorems, SequenceTheorems,
        WellFoundedInduction

(***************************************************************************)
(* The history of a key is a set of versions with distinct timestamps.     *)
(***************************************************************************)
VersionOf(c, k) == [ts |-> c.ts, live |-> c.cells[k].live, n |-> c.cells[k].n]

\* What the commits of h wrote to k.
Past(h, k) == {VersionOf(h[i], k) : i \in {j \in DOMAIN h : k \in DOMAIN h[j].cells}}

UpTo(P, s) == {v \in P : v.ts <= s}
Newest(P, v) == v \in P /\ \A w \in P : w.ts <= v.ts

\* Typed versions of which no two have one timestamp; a tombstone has no value.
Versioned(P) ==
  /\ P \in SUBSET Version
  /\ \A v \in P : ~v.live => v.n = 0
  /\ \A v, w \in P : v.ts = w.ts => v = w

\* Commits in the order of their timestamps.
Ordered(h) == \A i, j \in DOMAIN h : i < j => h[i].ts < h[j].ts

CellsOf == UNION {[K -> Cell] : K \in SUBSET Key}
Pending == [ts : Nat, who : Client \cup {NoClient}, req : Blind \cup Txn, snap : Nat]
Resolved == [ts : Nat, cells : CellsOf]
Entered == [ts : Nat, who : Client \cup {NoClient}, checks : SUBSET Key, snap : Nat,
            incr : SUBSET Key, cells : CellsOf]

\* The sequences and functions of the state have the shapes the code gives them.
Shapes ==
  /\ queue \in Seq(Pending) /\ batch \in Seq(Pending)
  /\ group \in Seq(Resolved) /\ hist \in Seq(Entered)
  /\ overlay \in [DOMAIN overlay -> Cell]
  /\ chain \in [DOMAIN chain -> [vs : SUBSET Version, latest : Nat, pruned : Nat, first : Nat]]

-----------------------------------------------------------------------------
\* A bounded set of numbers that is not empty has a largest.
LEMMA LargestNumber ==
  ASSUME NEW N \in Nat, NEW T \in SUBSET (0..N), T # {}
  PROVE  \E m \in T : \A n \in T : n <= m
<1>. DEFINE U == {N - n : n \in T}
<1>1. U \subseteq Nat /\ U # {}
  <2>1. \A n \in T : n \in 0..N /\ N - n \in Nat
    BY SMT
  <2>. QED  BY <2>1
<1>2. PICK u \in U : \A w \in U : <<w, u>> \notin OpToRel(<, Nat)
  <2>. HIDE DEF U
  <2>. QED  BY <1>1, NatLessThanWellFounded, WFMin
<1>3. \A w \in U : ~(w < u)
  BY <1>1, <1>2 DEF OpToRel
<1>4. PICK m \in T : u = N - m
  OBVIOUS
<1>5. \A n \in T : ~(N - n < N - m)
  BY <1>3, <1>4
<1>. QED  BY <1>5

\* A set of numbers that is not empty has a smallest.
LEMMA SmallestNumber ==
  ASSUME NEW T \in SUBSET Nat, T # {}
  PROVE  \E m \in T : \A n \in T : m <= n
<1>1. PICK u \in T : \A w \in T : <<w, u>> \notin OpToRel(<, Nat)
  BY NatLessThanWellFounded, WFMin
<1>2. \A w \in T : ~(w < u)
  BY <1>1 DEF OpToRel
<1>. QED  BY <1>2

\* What Highest returns.
LEMMA HighestIs ==
  ASSUME NEW N \in Nat, NEW S \in SUBSET (0..N), S # {}
  PROVE  Highest(S) \in S /\ \A u \in S : u <= Highest(S)
<1>1. \E m \in S : \A n \in S : n <= m
  BY LargestNumber
<1>. QED  BY <1>1 DEF Highest

\* A number that bounds the others of a set is its highest.
LEMMA HighestEquals ==
  ASSUME NEW S \in SUBSET Nat, NEW m \in S, \A n \in S : n <= m
  PROVE  Highest(S) = m
<1>1. Highest(S) \in S /\ \A u \in S : u <= Highest(S)
  BY DEF Highest
<1>2. Highest(S) \in Nat /\ Highest(S) <= m /\ m <= Highest(S)
  BY <1>1
<1>. QED  BY <1>2, SMT

\* Of the versions up to a snapshot, one is the newest.
LEMMA NewestUpTo ==
  ASSUME NEW P \in SUBSET Version, NEW s \in Nat, NEW v0 \in P, v0.ts <= s
  PROVE  \E v \in P : Newest(UpTo(P, s), v)
<1>. DEFINE T == {v.ts : v \in UpTo(P, s)}
<1>1. T \in SUBSET (0..s)
  BY DEF UpTo, Version
<1>2. T # {}
  BY DEF UpTo
<1>3. PICK m \in T : \A n \in T : n <= m
  <2>. HIDE DEF T
  <2>. QED  BY <1>1, <1>2, LargestNumber
<1>. QED  BY <1>3 DEF Newest, UpTo

\* Chain.visible returns the newest version the snapshot sees ...
LEMMA ReadAtNewest ==
  ASSUME NEW P, Versioned(P), NEW s \in Nat, NEW v, Newest(UpTo(P, s), v)
  PROVE  ReadAt(P, s) = CellOf(v)
<1>. DEFINE R(u) == u \in P /\ u.ts <= s /\ \A w \in P : w.ts <= s => w.ts <= u.ts
            x == CHOOSE u \in P : u.ts <= s /\ \A w \in P : w.ts <= s => w.ts <= u.ts
<1>1. R(v)
  BY DEF Newest, UpTo
<1>2. x \in P /\ x.ts <= s /\ \A w \in P : w.ts <= s => w.ts <= x.ts
  BY <1>1
<1>3. x.ts = v.ts
  BY <1>1, <1>2 DEF Versioned, Version
<1>4. x = v
  BY <1>1, <1>2, <1>3 DEF Versioned
<1>. QED  BY <1>1, <1>4 DEF ReadAt

\* ... or nothing when it sees none.
LEMMA ReadAtNone ==
  ASSUME NEW P, NEW s, \A w \in P : ~(w.ts <= s)
  PROVE  ReadAt(P, s) = Nothing
BY DEF ReadAt

\* A read depends on the newest visible version alone.
LEMMA SameRead ==
  ASSUME NEW P, Versioned(P), NEW Q, Versioned(Q), NEW s \in Nat,
         UpTo(Q, s) \subseteq P, \A v \in P : Newest(UpTo(P, s), v) => v \in Q
  PROVE  ReadAt(P, s) = ReadAt(Q, s)
<1>1. CASE \E v \in P : v.ts <= s
  <2>1. PICK v \in P : Newest(UpTo(P, s), v)
    BY <1>1, NewestUpTo DEF Versioned
  <2>2. Newest(UpTo(Q, s), v)
    BY <2>1 DEF Newest, UpTo
  <2>. QED  BY <2>1, <2>2, ReadAtNewest
<1>2. CASE ~ \E v \in P : v.ts <= s
  <2>1. \A v \in Q : ~(v.ts <= s)
    BY <1>2 DEF UpTo
  <2>. QED  BY <1>2, <2>1, ReadAtNone
<1>. QED  BY <1>1, <1>2

\* A tombstone reads as absent, and every other version as its cell.
LEMMA CellOfVersion ==
  ASSUME NEW P, Versioned(P), NEW v \in P
  PROVE  /\ CellOf(v) = [live |-> v.live, n |-> v.n] /\ CellOf(v).live = v.live
         /\ CellOf(v) \in Cell /\ (~v.live => CellOf(v) = Nothing)
BY DEF CellOf, Nothing, Cell, Versioned, Version

\* Subsets and restrictions keep the shape of a history.
LEMMA VersionedSubset ==
  ASSUME NEW P, Versioned(P), NEW Q \in SUBSET P
  PROVE  Versioned(Q)
BY DEF Versioned

-----------------------------------------------------------------------------
\* A cell is its two fields, and one that is not live has no value.
LEMMA CellFields ==
  ASSUME NEW x \in Cell
  PROVE  /\ x.live \in BOOLEAN /\ x.n \in 0..MaxInt /\ (~x.live => x.n = 0)
         /\ x = [live |-> x.live, n |-> x.n]
<1>1. CASE x = Nothing
  BY <1>1, BoundAssumption DEF Nothing
<1>2. CASE x \in [live : {TRUE}, n : 0..MaxInt]
  BY <1>2
<1>. QED  BY <1>1, <1>2 DEF Cell

\* A resolved commit's version of a key it writes.
LEMMA VersionOfType ==
  ASSUME NEW c, c.ts \in Nat, c.cells \in CellsOf, NEW k \in DOMAIN c.cells
  PROVE  /\ k \in Key /\ c.cells[k] \in Cell
         /\ VersionOf(c, k) \in Version
         /\ ~VersionOf(c, k).live => VersionOf(c, k).n = 0
         /\ CellOf(VersionOf(c, k)) = c.cells[k]
<1>1. c.cells[k] \in Cell /\ k \in Key
  BY DEF CellsOf
<1>2. c.cells[k].live \in BOOLEAN /\ c.cells[k].n \in 0..MaxInt
      /\ (~c.cells[k].live => c.cells[k].n = 0)
      /\ c.cells[k] = [live |-> c.cells[k].live, n |-> c.cells[k].n]
  BY <1>1, CellFields
<1>. QED  BY <1>1, <1>2 DEF VersionOf, Version, CellOf

\* The history of a key in commits of increasing timestamps.
LEMMA PastVersioned ==
  ASSUME NEW h, Ordered(h), NEW k, DOMAIN h \subseteq Nat,
         \A i \in DOMAIN h : h[i].ts \in Nat /\ h[i].cells \in CellsOf
  PROVE  Versioned(Past(h, k))
<1>1. ASSUME NEW v \in Past(h, k)
      PROVE  v \in Version /\ (~v.live => v.n = 0)
  BY VersionOfType DEF Past
<1>2. ASSUME NEW v \in Past(h, k), NEW w \in Past(h, k), v.ts = w.ts
      PROVE  v = w
  <2>1. PICK i \in DOMAIN h : k \in DOMAIN h[i].cells /\ v = VersionOf(h[i], k)
    BY DEF Past
  <2>2. PICK j \in DOMAIN h : k \in DOMAIN h[j].cells /\ w = VersionOf(h[j], k)
    BY DEF Past
  <2>3. h[i].ts = h[j].ts
    BY <1>2, <2>1, <2>2 DEF VersionOf
  <2>4. i \in Nat /\ j \in Nat /\ h[i].ts \in Nat /\ h[j].ts \in Nat
    OBVIOUS
  <2>5. i = j
    BY <2>3, <2>4 DEF Ordered
  <2>. QED  BY <2>1, <2>2, <2>5
<1>. QED  BY <1>1, <1>2 DEF Versioned

\* One more commit adds its version.
LEMMA PastAppend ==
  ASSUME NEW S, NEW h \in Seq(S), NEW e \in S, NEW k
  PROVE  Past(Append(h, e), k) =
           Past(h, k) \cup (IF k \in DOMAIN e.cells THEN {VersionOf(e, k)} ELSE {})
<1>1. /\ Append(h, e) \in Seq(S) /\ Len(Append(h, e)) = Len(h) + 1
      /\ \A i \in 1..Len(h) : Append(h, e)[i] = h[i]
      /\ Append(h, e)[Len(h) + 1] = e
  BY AppendProperties
<1>2. /\ DOMAIN h = 1..Len(h) /\ DOMAIN Append(h, e) = 1..Len(h) + 1 /\ Len(h) \in Nat
  BY <1>1, LenProperties
<1>3. DOMAIN Append(h, e) = DOMAIN h \cup {Len(h) + 1}
  BY <1>2
<1>. DEFINE g == Append(h, e)
<1>4. DOMAIN g = DOMAIN h \cup {Len(h) + 1} /\ (\A i \in DOMAIN h : g[i] = h[i])
      /\ g[Len(h) + 1] = e
  BY <1>1, <1>2, <1>3
<1>. HIDE DEF g
<1>5. \A v : v \in Past(g, k) <=> v \in Past(h, k) \/ (k \in DOMAIN e.cells /\ v = VersionOf(e, k))
  BY <1>4 DEF Past
<1>. QED  BY <1>5 DEF g

\* The first commits' versions.
LEMMA PastPrefix ==
  ASSUME NEW S, NEW h \in Seq(S), NEW m \in 0..Len(h), NEW k
  PROVE  Past(SubSeq(h, 1, m), k) =
           {VersionOf(h[i], k) : i \in {j \in 1..m : k \in DOMAIN h[j].cells}}
<1>1. Len(h) \in Nat /\ \A i \in 1..m : h[i] \in S
  BY LenProperties, ElementOfSeq
<1>. DEFINE g == SubSeq(h, 1, m)
<1>2. /\ g \in Seq(S) /\ Len(g) = m
      /\ \A i \in 1..m : g[i] = h[i]
  <2>1. /\ g \in Seq(S) /\ Len(g) = IF 1 <= m THEN m - 1 + 1 ELSE 0
        /\ \A i \in 1..m - 1 + 1 : g[i] = h[1 + i - 1]
    BY <1>1, SubSeqProperties
  <2>2. m \in Nat
    BY <1>1
  <2>3. \A i \in 1..m : i \in 1..m - 1 + 1 /\ 1 + i - 1 = i
    BY <2>2
  <2>. QED  BY <2>1, <2>2, <2>3
<1>3. DOMAIN g = 1..m
  BY <1>2, LenProperties
<1>. HIDE DEF g
<1>4. Past(g, k) = {VersionOf(h[i], k) : i \in {j \in 1..m : k \in DOMAIN h[j].cells}}
  BY <1>2, <1>3 DEF Past
<1>. QED  BY <1>4 DEF g

-----------------------------------------------------------------------------
\* How many commits are readable, and how many of them a group follows.
Ahead == Len(hist) - Len(group)

\* Timestamps are handed out in queue order and published group by group.
Queued ==
  /\ visible <= top
  /\ Ordered(queue) /\ Ordered(batch)
  /\ \A i \in DOMAIN queue : top < queue[i].ts
  /\ \A i \in DOMAIN batch : visible < batch[i].ts /\ batch[i].ts <= top
  /\ pc \notin {"sweep", "resolve"} => batch = <<>>
  /\ pc \in {"idle", "sweep"} => group = <<>> /\ DOMAIN overlay = {}
  /\ pc = "idle" => visible = top

\* The history is in timestamp order, ends in the group being flushed, and what
\* precedes the group is what readers see.
Serials ==
  /\ Len(group) <= Len(hist)
  /\ Ordered(hist)
  /\ \A i \in DOMAIN hist : 1 <= hist[i].ts /\ hist[i].ts <= top
     /\ (hist[i].ts <= visible <=> i <= Ahead)
  /\ \A i \in DOMAIN group : group[i].ts = hist[Ahead + i].ts
     /\ group[i].cells = hist[Ahead + i].cells
  /\ \A i \in DOMAIN hist, j \in DOMAIN batch : hist[i].ts < batch[j].ts

\* The overlay is the newest version the group gives each key, and while the
\* group is resolved it has every key of the group.
Overlaid ==
  /\ pc = "resolve" => \A k \in Key : Past(group, k) # {} => k \in DOMAIN overlay
  /\ \A k \in DOMAIN overlay : \E v \in Past(group, k) : Newest(Past(group, k), v)
     /\ overlay[k] = CellOf(v)

\* A queued or drained commit of a transaction has the transaction waiting.
Waits ==
  \A p \in {queue[i] : i \in DOMAIN queue} \cup {batch[i] : i \in DOMAIN batch} :
    p.who # NoClient => client[p.who].st = "waiting" /\ client[p.who].snap = p.snap

\* What of a key's history has reached the shard maps.
Settled(k) ==
  IF pc = "apply" /\ k \notin DOMAIN overlay THEN Past(hist, k) ELSE UpTo(Past(hist, k), visible)

\* A chain holds the newest settled version and, from its first version on,
\* every one newer than the newest pruned.  What is older than its first was
\* swept away, and ended in a tombstone.
Present(c, S, gc) ==
  /\ c.vs \subseteq S
  /\ \E v \in c.vs : Newest(S, v) /\ c.latest = v.ts
  /\ \E v \in S : v.ts = c.first
  /\ \A v \in S : c.first <= v.ts /\ c.pruned < v.ts => v \in c.vs
  /\ \A v \in S : v.ts < c.first => v.ts <= gc
  /\ \A v \in c.vs : c.first <= v.ts
  /\ \A v \in S : Newest({w \in S : w.ts < c.first}, v) => ~v.live

\* The history of a key without a chain is behind every open snapshot and the
\* collection horizon, and ends in a tombstone.
Absent(S, gc, pins) ==
  \A v \in S : v.ts <= gc /\ (\A s \in pins : v.ts <= s) /\ (Newest(S, v) => ~v.live)

\* The youngest tombstone of a key that a sweep has removed with its chain, in the
\* horizon already or by the sweep under way.
Bound(gc, R, k) == Highest({gc} \cup {g.ts : g \in {h \in R : h.key = k}})
Swept(k) == Bound(gcHorizon, removed, k)

\* A sweep looks at tombstones every open snapshot sees.
Sweeping ==
  /\ pc # "sweep" => ready = {} /\ removed = {}
  /\ \A g \in ready \cup removed : g.ts <= visible /\ \A s \in Active : g.ts <= s

Chains ==
  \A k \in Key : IF k \in DOMAIN chain THEN Present(chain[k], Settled(k), gcHorizon)
                 ELSE Absent(Settled(k), Swept(k), Active)

MInv == TypeOK /\ Shapes /\ Queued /\ Serials /\ Overlaid /\ Waits /\ Sweeping /\ Chains

-----------------------------------------------------------------------------
\* What Chain.push makes of a chain and the versions a group adds to it: it keeps
\* the newest version, what a snapshot needs and what is newer than pruned.
Pushed(c, new, pins, d) ==
  LET all == c.vs \cup new
  IN  /\ d.vs \subseteq all
      /\ \A v \in all : Keep(all, v, pins) => v \in d.vs
      /\ \A v \in all : Newest(all, v) => v \in d.vs /\ d.latest = v.ts
      /\ \A v \in all : v \notin d.vs => v.ts <= d.pruned
      /\ c.pruned <= d.pruned
      /\ c # EmptyChain => d.first = c.first
      /\ c = EmptyChain => \E v \in new : d.first = v.ts /\ \A w \in new : v.ts <= w.ts

\* Chain.push does that, and its result is typed.
LEMMA PushIs ==
  ASSUME NEW N \in Nat, NEW c, NEW new, NEW pins, new # {},
         c.vs \cup new \in SUBSET Version, \A v \in c.vs \cup new : v.ts <= N,
         c.pruned \in 0..N, c.first \in 0..N
  PROVE  /\ Pushed(c, new, pins, Push(c, new, pins))
         /\ Push(c, new, pins) \in [vs : SUBSET Version, latest : 0..N, pruned : 0..N, first : 0..N]
<1>. DEFINE all == c.vs \cup new
            d == Push(c, new, pins)
            kept == {v \in all : Keep(all, v, pins)}
            T == {v.ts : v \in all}
            G == {c.pruned} \cup {v.ts : v \in all \ kept}
            F == {v.ts : v \in new}
<1>1. /\ d.vs = kept /\ d.latest = Highest(T) /\ d.pruned = Highest(G)
      /\ d.first = IF c = EmptyChain THEN CHOOSE t \in F : \A v \in new : t <= v.ts ELSE c.first
      /\ d = [vs |-> d.vs, latest |-> d.latest, pruned |-> d.pruned, first |-> d.first]
  BY DEF Push
<1>2. T \in SUBSET (0..N) /\ T # {} /\ G \in SUBSET (0..N) /\ G # {} /\ F \in SUBSET Nat /\ F # {}
  BY DEF Version
<1>3. Highest(T) \in T /\ \A u \in T : u <= Highest(T)
  <2>. HIDE DEF T
  <2>. QED  BY <1>2, HighestIs
<1>4. Highest(G) \in G /\ \A u \in G : u <= Highest(G)
  <2>. HIDE DEF G
  <2>. QED  BY <1>2, HighestIs
<1>5. PICK m \in F : \A n \in F : m <= n
  <2>. HIDE DEF F
  <2>. QED  BY <1>2, SmallestNumber
<1>6. ASSUME NEW v \in all, Newest(all, v)
      PROVE  v \in d.vs /\ d.latest = v.ts
  <2>1. {w \in all : w.ts > v.ts} = {}
    BY <1>6 DEF Newest, Version
  <2>2. Keep(all, v, pins)
    <3>1. Cardinality({w \in all : w.ts > v.ts}) = 0
      BY <2>1, FS_EmptySet, Zenon
    <3>. QED  BY <3>1, BoundAssumption DEF Keep
  <2>3. v.ts \in T /\ \A u \in T : u <= v.ts
    BY <1>6 DEF Newest
  <2>4. T \in SUBSET Nat
    BY <1>2
  <2>5. Highest(T) = v.ts
    <3>. HIDE DEF T
    <3>. QED  BY <2>3, <2>4, HighestEquals
  <2>. QED  BY <1>1, <2>2, <2>5
<1>7. c = EmptyChain => \E v \in new : d.first = v.ts /\ \A w \in new : v.ts <= w.ts
  <2>1. \E t \in F : \A v \in new : t <= v.ts
    BY <1>5
  <2>2. c = EmptyChain => d.first \in F /\ \A v \in new : d.first <= v.ts
    BY <1>1, <2>1
  <2>. QED  BY <2>2
<1>8. d.latest \in 0..N /\ d.pruned \in 0..N /\ c.pruned <= d.pruned
  BY <1>1, <1>2, <1>3, <1>4
<1>9. \A v \in all : v \notin d.vs => v.ts <= d.pruned
  BY <1>1, <1>4
<1>10. d.first \in 0..N
  <2>1. \A v \in new : v.ts \in 0..N
    BY DEF Version
  <2>2. c # EmptyChain => d.first = c.first
    BY <1>1
  <2>. HIDE DEF d
  <2>. QED  BY <1>7, <2>1, <2>2
<1>11. d \in [vs : SUBSET Version, latest : 0..N, pruned : 0..N, first : 0..N]
  BY <1>1, <1>8, <1>10
<1>12. Pushed(c, new, pins, d)
  <2>. HIDE DEF d
  <2>. QED  BY <1>1, <1>6, <1>7, <1>8, <1>9 DEF Pushed
<1>. QED  BY <1>11, <1>12

\* A version that serves a pinned snapshot is kept.
LEMMA PinnedIsKept ==
  ASSUME NEW vs, NEW pins, NEW s \in pins, NEW v \in vs, v.ts <= s,
         \A w \in vs : w.ts > v.ts => s < w.ts
  PROVE  Keep(vs, v, pins)
BY DEF Keep

-----------------------------------------------------------------------------
\* Facts of the types that many steps use.
LEMMA Numbers ==
  ASSUME TypeOK
  PROVE  /\ clock \in Nat /\ visible \in Nat /\ top \in Nat /\ gcHorizon \in Nat
         /\ visible <= clock /\ top <= clock /\ clock <= MaxTs /\ gcHorizon <= visible
         /\ \A c \in Client : client[c].snap \in Nat /\ client[c].snap <= visible
         /\ \A s \in Active : s \in Nat /\ s <= visible
BY BoundAssumption DEF TypeOK, Active

\* The queues' indices and elements.
LEMMA Sequenced ==
  ASSUME Shapes
  PROVE  /\ DOMAIN queue = 1..Len(queue) /\ Len(queue) \in Nat
         /\ DOMAIN batch = 1..Len(batch) /\ Len(batch) \in Nat
         /\ DOMAIN group = 1..Len(group) /\ Len(group) \in Nat
         /\ DOMAIN hist = 1..Len(hist) /\ Len(hist) \in Nat
         /\ \A i \in DOMAIN queue : queue[i] \in Pending
         /\ \A i \in DOMAIN batch : batch[i] \in Pending
         /\ \A i \in DOMAIN group : group[i] \in Resolved
         /\ \A i \in DOMAIN hist : hist[i] \in Entered
<1>1. \A S, s : s \in Seq(S) => DOMAIN s = 1..Len(s) /\ Len(s) \in Nat
      /\ \A i \in DOMAIN s : s[i] \in S
  BY LenProperties
<1>. QED  BY <1>1 DEF Shapes

\* The history of each key is versioned.
LEMMA HistoryVersioned ==
  ASSUME Shapes, Serials, NEW k
  PROVE  Versioned(Past(hist, k))
BY Sequenced, PastVersioned DEF Serials, Entered

\* What the flushed group writes is what readers do not see yet.
LEMMA GroupPast ==
  ASSUME TypeOK, Shapes, Serials, NEW k
  PROVE  /\ Past(group, k) = {v \in Past(hist, k) : v.ts > visible}
         /\ Past(group, k) \subseteq Past(hist, k)
         /\ Versioned(Past(group, k))
         /\ \A v \in Past(hist, k) : v.ts \in Nat /\ 1 <= v.ts /\ v.ts <= top
<1>0. /\ DOMAIN hist = 1..Len(hist) /\ DOMAIN group = 1..Len(group)
      /\ Len(hist) \in Nat /\ Len(group) \in Nat /\ Ahead \in Nat /\ Len(hist) = Ahead + Len(group)
      /\ visible \in Nat
      /\ \A i \in DOMAIN hist : hist[i].ts \in Nat
  BY Sequenced, Numbers DEF Ahead, Serials, Entered
<1>1. ASSUME NEW v \in Past(group, k)
      PROVE  v \in Past(hist, k) /\ v.ts > visible
  <2>1. PICK i \in DOMAIN group : k \in DOMAIN group[i].cells /\ v = VersionOf(group[i], k)
    BY DEF Past
  <2>2. Ahead + i \in DOMAIN hist /\ ~(Ahead + i <= Ahead)
    BY <1>0
  <2>3. v = VersionOf(hist[Ahead + i], k) /\ k \in DOMAIN hist[Ahead + i].cells
        /\ v.ts = hist[Ahead + i].ts
    BY <2>1 DEF Serials, VersionOf
  <2>4. hist[Ahead + i].ts > visible
    BY <1>0, <2>2 DEF Serials
  <2>. QED  BY <2>2, <2>3, <2>4 DEF Past
<1>2. ASSUME NEW v \in Past(hist, k), v.ts > visible
      PROVE  v \in Past(group, k)
  <2>1. PICK j \in DOMAIN hist : k \in DOMAIN hist[j].cells /\ v = VersionOf(hist[j], k)
    BY DEF Past
  <2>2. v.ts = hist[j].ts
    BY <2>1 DEF VersionOf
  <2>3. ~(j <= Ahead)
    BY <1>0, <1>2, <2>2 DEF Serials
  <2>4. PICK i \in DOMAIN group : j = Ahead + i
    <3>1. j - Ahead \in DOMAIN group /\ j = Ahead + (j - Ahead)
      BY <1>0, <2>3
    <3>. QED  BY <3>1
  <2>5. v = VersionOf(group[i], k) /\ k \in DOMAIN group[i].cells
    BY <2>1, <2>4 DEF Serials, VersionOf
  <2>. QED  BY <2>5 DEF Past
<1>3. \A v \in Past(hist, k) : v.ts \in Nat /\ 1 <= v.ts /\ v.ts <= top
  BY <1>0 DEF Past, VersionOf, Serials
<1>4. Past(group, k) = {v \in Past(hist, k) : v.ts > visible}
  BY <1>1, <1>2
<1>. QED  BY <1>3, <1>4, HistoryVersioned, VersionedSubset

\* The versions the flusher applies are the group's.
LEMMA NewVersionsArePast == \A k : NewVersions(k) = Past(group, k)
BY DEF NewVersions, Past, VersionOf

\* What is settled is history.
LEMMA SettledIsPast ==
  ASSUME Shapes, Serials, NEW k
  PROVE  Settled(k) \subseteq Past(hist, k) /\ Versioned(Settled(k))
<1>1. Settled(k) \subseteq Past(hist, k)
  BY DEF Settled, UpTo
<1>. QED  BY <1>1, HistoryVersioned, VersionedSubset

\* A chain's latest version is the newest settled one.
LEMMA LatestIs ==
  ASSUME MInv, NEW k \in Key, k \in DOMAIN chain
  PROVE  \E v \in chain[k].vs : /\ Newest(Settled(k), v) /\ v.ts = chain[k].latest
                                /\ v \in Past(hist, k)
                                /\ LatestCell(k) = CellOf(v) /\ LatestCell(k) \in Cell
                                /\ LatestCell(k).live = v.live
<1>1. Present(chain[k], Settled(k), gcHorizon)
  BY DEF MInv, Chains
<1>2. PICK v \in chain[k].vs : Newest(Settled(k), v) /\ chain[k].latest = v.ts
  BY <1>1 DEF Present
<1>3. Settled(k) \subseteq Past(hist, k) /\ Versioned(Settled(k))
      /\ chain[k].vs \subseteq Settled(k)
  BY <1>1, SettledIsPast DEF MInv, Present
<1>4. Versioned(chain[k].vs) /\ v.ts \in Nat
  BY <1>3, VersionedSubset DEF Versioned, Version
<1>5. Newest(UpTo(chain[k].vs, v.ts), v)
  BY <1>2, <1>3, <1>4 DEF Newest, UpTo
<1>6. LatestCell(k) = CellOf(v)
  BY <1>2, <1>4, <1>5, ReadAtNewest DEF LatestCell
<1>. QED  BY <1>2, <1>3, <1>4, <1>6, CellOfVersion

\* What an increment finds is a cell, and so is what it leaves.
LEMMA CellsType ==
  ASSUME MInv, NEW p \in Pending, ~Overflow(p)
  PROVE  /\ Cells(p) \in CellsOf /\ DOMAIN Cells(p) = Writes(p.req) /\ Writes(p.req) \subseteq Key
         /\ p.req.checks \subseteq Key /\ p.req.incr \subseteq Key
<1>1. p.req \in Request
  BY RequestAssumption DEF Pending
<1>2. p.req.checks \subseteq Key /\ p.req.incr \subseteq Key /\ p.req.cells \in CellsOf
  BY <1>1 DEF Request, CellsOf
<1>3. DOMAIN p.req.cells \subseteq Key /\ \A k \in DOMAIN p.req.cells : p.req.cells[k] \in Cell
  BY <1>2 DEF CellsOf
<1>4. DOMAIN Cells(p) = Writes(p.req) /\ Writes(p.req) \subseteq Key
  BY <1>2, <1>3 DEF Cells, Writes
<1>5. ASSUME NEW k \in Writes(p.req)
      PROVE  Cells(p)[k] \in Cell
  <2>1. CASE k \notin p.req.incr
    BY <1>3, <1>5, <2>1 DEF Cells, Writes
  <2>2. CASE k \in p.req.incr
    <3>1. k \in Key
      BY <1>2, <2>2
    <3>2. Counter(k) \in Cell
      <4>1. CASE k \in DOMAIN overlay
        BY <4>1 DEF Counter, MInv, Shapes
      <4>2. CASE k \notin DOMAIN overlay /\ k \in DOMAIN chain
        BY <3>1, <4>2, LatestIs DEF Counter
      <4>3. CASE k \notin DOMAIN overlay /\ k \notin DOMAIN chain
        BY <4>3 DEF Counter, LatestCell, Cell
      <4>. QED  BY <4>1, <4>2, <4>3
    <3>3. Counter(k).n \in 0..MaxInt /\ Counter(k).n # MaxInt
      BY <2>2, <3>2, CellFields DEF Overflow
    <3>4. Counter(k).n + 1 \in 0..MaxInt
      BY <3>3, BoundAssumption
    <3>. QED  BY <1>5, <2>2, <3>4 DEF Cells, Cell
  <2>. QED  BY <2>1, <2>2
<1>6. Cells(p) \in [Writes(p.req) -> Cell]
  BY <1>5 DEF Cells
<1>. QED  BY <1>2, <1>4, <1>6 DEF CellsOf

\* The horizon of a sweep is the oldest snapshot in use.
LEMMA HorizonIs ==
  ASSUME TypeOK
  PROVE  Horizon \in Nat /\ Horizon <= visible /\ \A s \in Active : Horizon <= s
<1>. DEFINE S == Active \cup {visible}
<1>1. S \in SUBSET Nat /\ S # {}
  BY Numbers
<1>2. \E h \in S : \A s \in S : h <= s
  <2>. HIDE DEF S
  <2>. QED  BY <1>1, SmallestNumber
<1>3. Horizon \in S /\ \A s \in S : Horizon <= s
  BY <1>2 DEF Horizon
<1>. QED  BY <1>1, <1>3

\* How far back a key may have been swept away.
LEMMA BoundIs ==
  ASSUME NEW n \in Nat, NEW gc \in 0..n, NEW R, \A g \in R : g.ts \in 0..n, NEW k
  PROVE  /\ Bound(gc, R, k) \in 0..n /\ gc <= Bound(gc, R, k)
         /\ \A g \in R : g.key = k => g.ts <= Bound(gc, R, k)
         /\ Bound(gc, R, k) = gc \/ \E g \in R : g.key = k /\ g.ts = Bound(gc, R, k)
<1>. DEFINE T == {gc} \cup {g.ts : g \in {h \in R : h.key = k}}
<1>1. T \in SUBSET (0..n) /\ T # {}
  OBVIOUS
<1>2. Highest(T) \in T /\ \A u \in T : u <= Highest(T)
  <2>. HIDE DEF T
  <2>. QED  BY <1>1, HighestIs
<1>. QED  BY <1>1, <1>2 DEF Bound

\* The tombstones of a sweep are typed, and so is what it has swept.
LEMMA SweptIs ==
  ASSUME TypeOK, Sweeping, NEW k
  PROVE  /\ \A g \in ready \cup removed : g.ts \in 0..visible
         /\ Swept(k) \in 0..visible /\ gcHorizon <= Swept(k)
         /\ removed = {} => Swept(k) = gcHorizon
<1>1. visible \in Nat /\ gcHorizon \in 0..visible /\ MaxTs \in Nat
  BY Numbers, BoundAssumption DEF TypeOK
<1>2. \A g \in ready \cup removed : g.ts \in 0..visible
  BY <1>1 DEF TypeOK, Sweeping
<1>. QED  BY <1>1, <1>2, BoundIs DEF Swept

\* The keys a step takes the chain from.
Lost == {k \in DOMAIN chain : k \notin DOMAIN chain'}

\* One step of a sweep removes at most the chain of its tombstone, which is that
\* chain's newest version and behind every snapshot.
LEMMA BuryIs ==
  ASSUME MInv, NEW g \in ready, Bury(g)
  PROVE  /\ DOMAIN chain' \subseteq DOMAIN chain
         /\ \A k \in DOMAIN chain' : chain'[k] = chain[k]
         /\ \A k \in Lost : /\ k = g.key /\ k \in DOMAIN chain /\ ~LatestCell(k).live
                            /\ chain[k].latest = g.ts /\ g \in removed'
                            /\ chain[k].latest <= visible
                            /\ \A s \in Active : chain[k].latest <= s
         /\ removed \subseteq removed' /\ removed' \subseteq removed \cup ready
         /\ ready' = ready \ {g}
<1>1. g.ts <= visible /\ \A s \in Active : g.ts <= s
  BY DEF MInv, Sweeping
<1>2. CASE Dead(g)
  <2>1. chain' = [k \in DOMAIN chain \ {g.key} |-> chain[k]] /\ removed' = removed \cup {g}
        /\ ready' = ready \ {g}
    BY <1>2 DEF Bury
  <2>2. \A k \in Lost : k = g.key
    BY <2>1 DEF Lost
  <2>. QED  BY <1>1, <1>2, <2>1, <2>2 DEF Dead, Lost
<1>3. CASE ~Dead(g)
  BY <1>3 DEF Bury, Lost
<1>. QED  BY <1>2, <1>3

\* The horizon is raised over every tombstone the sweep has removed.
LEMMA RaiseIs ==
  ASSUME MInv, Raise
  PROVE  /\ gcHorizon' \in 0..visible /\ gcHorizon <= gcHorizon'
         /\ \A g \in removed : g.ts <= gcHorizon'
         /\ removed' = {}
<1>0. visible \in Nat /\ gcHorizon \in 0..visible /\ \A g \in removed : g.ts \in 0..visible
  BY Numbers, SweptIs DEF MInv, TypeOK
<1>. DEFINE T == {gcHorizon} \cup {g.ts : g \in removed}
<1>1. T \in SUBSET (0..visible) /\ T # {}
  BY <1>0
<1>2. Highest(T) \in T /\ \A u \in T : u <= Highest(T)
  <2>. HIDE DEF T
  <2>. QED  BY <1>0, <1>1, HighestIs
<1>3. gcHorizon' = Highest(T) /\ removed' = {}
  BY DEF Raise
<1>. QED  BY <1>1, <1>2, <1>3

\* The chain a shard had, and the one it has after the group's versions are pushed.
ShardOf(k) == IF k \in DOMAIN chain THEN chain[k] ELSE EmptyChain

\* What apply_refs_to_shards pushes, and onto what: the group's versions are all
\* newer than those of the chain.
LEMMA ShardIs ==
  ASSUME MInv, NEW k \in Key, ApplyShard(k)
  PROVE  /\ Past(group, k) # {}
         /\ ShardOf(k).vs \subseteq Past(hist, k)
         /\ \A v \in ShardOf(k).vs : v.ts <= visible
         /\ ShardOf(k).vs \cup Past(group, k) \in SUBSET Version
         /\ k \in DOMAIN chain => ShardOf(k) # EmptyChain
         /\ chain'[k] \in [vs : SUBSET Version, latest : 0..clock, pruned : 0..clock,
            first : 0..clock]
         /\ Pushed(ShardOf(k), Past(group, k), Active, chain'[k])
<1>. DEFINE c == ShardOf(k)
            new == Past(group, k)
<1>0. TypeOK /\ Shapes /\ Serials /\ Overlaid /\ Chains
  BY DEF MInv
<1>1. chain'[k] = Push(c, new, Active)
  BY NewVersionsArePast DEF ApplyShard, ShardOf
<1>2. new # {}
  BY <1>0 DEF ApplyShard, Overlaid
<1>3. c.vs \subseteq Past(hist, k) /\ \A v \in c.vs : v.ts <= visible
  <2>1. CASE k \in DOMAIN chain
    <3>1. c.vs \subseteq Settled(k)
      BY <1>0, <2>1 DEF Chains, Present, ShardOf
    <3>2. Settled(k) = UpTo(Past(hist, k), visible)
      BY DEF ApplyShard, Settled
    <3>. QED  BY <3>1, <3>2 DEF UpTo
  <2>2. CASE k \notin DOMAIN chain
    BY <2>2 DEF EmptyChain, ShardOf
  <2>. QED  BY <2>1, <2>2
<1>4. c.pruned \in 0..clock /\ c.first \in 0..clock
  <2>1. k \in DOMAIN chain => c.pruned \in 0..clock /\ c.first \in 0..clock
    BY <1>0 DEF TypeOK, ShardOf
  <2>2. k \notin DOMAIN chain => c.pruned = 0 /\ c.first = 0
    BY DEF EmptyChain, ShardOf
  <2>. QED  BY <1>0, <2>1, <2>2, Numbers
<1>5. k \in DOMAIN chain => c # EmptyChain
  <2>1. k \in DOMAIN chain => c.vs # {}
    BY <1>0 DEF TypeOK, ShardOf
  <2>. QED  BY <2>1 DEF EmptyChain
<1>6. /\ c.vs \cup new \in SUBSET Version /\ clock \in Nat
      /\ \A v \in c.vs \cup new : v.ts <= clock
  <2>1. \A v \in c.vs \cup new : v \in Past(hist, k)
    BY <1>0, <1>3, GroupPast
  <2>2. Past(hist, k) \subseteq Version /\ \A v \in Past(hist, k) : v.ts \in Nat /\ v.ts <= top
    BY <1>0, GroupPast, HistoryVersioned DEF Versioned
  <2>. QED  BY <1>0, <2>1, <2>2, Numbers
<1>. HIDE DEF c, new
<1>7. Pushed(c, new, Active, chain'[k])
      /\ chain'[k] \in [vs : SUBSET Version, latest : 0..clock, pruned : 0..clock, first : 0..clock]
  BY <1>1, <1>2, <1>4, <1>6, PushIs
<1>. QED  BY <1>2, <1>3, <1>5, <1>6, <1>7 DEF c, new

-----------------------------------------------------------------------------
\* The commit Enqueue adds to the queue.
PendingOf(who, r, snap) == [ts |-> clock + 1, who |-> who, req |-> r, snap |-> snap]

\* Enqueue appends one commit, numbered by the clock, and moves nothing else.
LEMMA EnqueueIs ==
  ASSUME MInv, NEW who \in Client \cup {NoClient}, NEW r \in Blind \cup Txn,
         NEW snap \in 0..visible,
         Enqueue(who, r, snap)
  PROVE  /\ PendingOf(who, r, snap) \in Pending /\ queue' \in Seq(Pending)
         /\ DOMAIN queue = 1..Len(queue) /\ Len(queue) \in Nat
         /\ DOMAIN queue' = 1..Len(queue) + 1
         /\ \A i \in DOMAIN queue : queue'[i] = queue[i]
         /\ queue'[Len(queue) + 1] = PendingOf(who, r, snap)
         /\ clock' = clock + 1 /\ clock' <= MaxTs
<1>. DEFINE p == PendingOf(who, r, snap)
<1>0. TypeOK /\ Shapes /\ clock \in Nat /\ visible \in Nat /\ queue \in Seq(Pending)
  BY Numbers DEF MInv, Shapes
<1>1. p \in Pending
  BY <1>0 DEF Pending, PendingOf
<1>2. queue' = Append(queue, p) /\ clock' = clock + 1 /\ clock' <= MaxTs
  BY <1>0, BoundAssumption DEF Enqueue, PendingOf
<1>. HIDE DEF p
<1>3. /\ queue' \in Seq(Pending) /\ Len(queue') = Len(queue) + 1
      /\ \A i \in 1..Len(queue) : queue'[i] = queue[i]
      /\ queue'[Len(queue) + 1] = p
  BY <1>0, <1>1, <1>2, AppendProperties
<1>4. DOMAIN queue' = 1..Len(queue) + 1 /\ DOMAIN queue = 1..Len(queue) /\ Len(queue) \in Nat
  BY <1>0, <1>3, LenProperties
<1>. QED  BY <1>1, <1>2, <1>3, <1>4 DEF p

\* The commits the flusher takes, one by one.
LEMMA TailIs ==
  ASSUME MInv, batch # <<>>, batch' = Tail(batch)
  PROVE  /\ Head(batch) = batch[1] /\ 1 \in DOMAIN batch /\ batch[1] \in Pending
         /\ batch' \in Seq(Pending)
         /\ \A i \in DOMAIN batch' : i \in Nat /\ i + 1 \in DOMAIN batch /\ 1 < i + 1
            /\ batch'[i] = batch[i + 1]
<1>0. batch \in Seq(Pending)
  BY DEF MInv, Shapes
<1>1. /\ batch' \in Seq(Pending) /\ Len(batch') = Len(batch) - 1
      /\ \A i \in 1..Len(batch') : batch'[i] = batch[i + 1]
  BY <1>0, HeadTailProperties
<1>2. DOMAIN batch = 1..Len(batch) /\ DOMAIN batch' = 1..Len(batch') /\ Len(batch) \in Nat
      /\ Len(batch) # 0
  BY <1>0, <1>1, LenProperties, EmptySeq
<1>3. Head(batch) = batch[1]
  BY <1>0
<1>4. 1 \in DOMAIN batch /\ \A i \in DOMAIN batch' : i \in Nat /\ i + 1 \in DOMAIN batch
      /\ 1 < i + 1
  BY <1>1, <1>2
<1>. QED  BY <1>0, <1>1, <1>2, <1>3, <1>4, ElementOfSeq

\* What a commit that applies adds to the group and to the history.
ResolvedOf(p) == [ts |-> p.ts, cells |-> Cells(p)]
EnteredOf(p) == [ts |-> p.ts, who |-> p.who, checks |-> p.req.checks,
                 snap |-> p.snap, incr |-> p.req.incr, cells |-> Cells(p)]
Applies(p) == ~Conflict(p) /\ ~Overflow(p)

\* Resolve drops its commit, or gives it to the overlay, the group and the history.
LEMMA ResolveIs ==
  ASSUME MInv, Resolve
  PROVE  /\ batch # <<>> /\ batch' = Tail(batch)
         /\ ~Applies(batch[1]) => UNCHANGED <<overlay, group, hist>>
         /\ Applies(batch[1]) =>
              /\ ResolvedOf(batch[1]) \in Resolved /\ EnteredOf(batch[1]) \in Entered
              /\ overlay' = [k \in DOMAIN overlay \cup DOMAIN Cells(batch[1]) |->
                               IF k \in DOMAIN Cells(batch[1]) THEN Cells(batch[1])[k] ELSE overlay[k]]
              /\ group' = Append(group, ResolvedOf(batch[1])) /\ group' \in Seq(Resolved)
              /\ DOMAIN group' = 1..Len(group) + 1 /\ Len(group') = Len(group) + 1
              /\ (\A i \in DOMAIN group : group'[i] = group[i])
                 /\ group'[Len(group) + 1] = ResolvedOf(batch[1])
              /\ hist' = Append(hist, EnteredOf(batch[1])) /\ hist' \in Seq(Entered)
              /\ DOMAIN hist' = 1..Len(hist) + 1 /\ Len(hist') = Len(hist) + 1
              /\ (\A i \in DOMAIN hist : hist'[i] = hist[i])
                 /\ hist'[Len(hist) + 1] = EnteredOf(batch[1])
<1>. DEFINE p == batch[1]
<1>0. group \in Seq(Resolved) /\ hist \in Seq(Entered)
  BY DEF MInv, Shapes
<1>1. batch # <<>> /\ batch' = Tail(batch) /\ Head(batch) = p /\ p \in Pending
  BY TailIs DEF Resolve
<1>2. ~Applies(p) => UNCHANGED <<overlay, group, hist>>
  BY <1>1 DEF Resolve, Applies
<1>3. ASSUME Applies(p)
      PROVE  /\ overlay' = [k \in DOMAIN overlay \cup DOMAIN Cells(p) |->
                               IF k \in DOMAIN Cells(p) THEN Cells(p)[k] ELSE overlay[k]]
             /\ group' = Append(group, ResolvedOf(p)) /\ hist' = Append(hist, EnteredOf(p))
             /\ ResolvedOf(p) \in Resolved /\ EnteredOf(p) \in Entered
  <2>1. /\ overlay' = [k \in DOMAIN overlay \cup DOMAIN Cells(p) |->
                               IF k \in DOMAIN Cells(p) THEN Cells(p)[k] ELSE overlay[k]]
        /\ group' = Append(group, ResolvedOf(p)) /\ hist' = Append(hist, EnteredOf(p))
    BY <1>1, <1>3 DEF Resolve, Applies, ResolvedOf, EnteredOf
  <2>2. Cells(p) \in CellsOf /\ p.req.checks \subseteq Key /\ p.req.incr \subseteq Key
    BY <1>1, <1>3, CellsType DEF Applies
  <2>. QED  BY <1>1, <2>1, <2>2 DEF ResolvedOf, EnteredOf, Resolved, Entered, Pending
<1>. HIDE DEF p
<1>4. ASSUME Applies(p)
      PROVE  /\ group' \in Seq(Resolved) /\ DOMAIN group' = 1..Len(group) + 1
                /\ Len(group') = Len(group) + 1
             /\ (\A i \in DOMAIN group : group'[i] = group[i])
                /\ group'[Len(group) + 1] = ResolvedOf(p)
  <2>. DEFINE e == ResolvedOf(p)
  <2>1. e \in Resolved /\ group' = Append(group, e)
    BY <1>3, <1>4
  <2>. HIDE DEF e
  <2>2. /\ group' \in Seq(Resolved) /\ Len(group') = Len(group) + 1
        /\ \A i \in 1..Len(group) : group'[i] = group[i]
        /\ group'[Len(group) + 1] = e
    BY <1>0, <2>1, AppendProperties
  <2>. QED  BY <1>0, <2>2, LenProperties DEF e
<1>5. ASSUME Applies(p)
      PROVE  /\ hist' \in Seq(Entered) /\ DOMAIN hist' = 1..Len(hist) + 1
                /\ Len(hist') = Len(hist) + 1
             /\ (\A i \in DOMAIN hist : hist'[i] = hist[i]) /\ hist'[Len(hist) + 1] = EnteredOf(p)
  <2>1. /\ hist' \in Seq(Entered) /\ Len(hist') = Len(hist) + 1
        /\ \A i \in 1..Len(hist) : hist'[i] = hist[i]
        /\ hist'[Len(hist) + 1] = EnteredOf(p)
    <3>1. hist' = Append(hist, EnteredOf(p)) /\ EnteredOf(p) \in Entered
      BY <1>3, <1>5
    <3>. QED  BY <1>0, <3>1, AppendProperties
  <2>. QED  BY <1>0, <2>1, LenProperties
<1>. QED  BY <1>1, <1>2, <1>3, <1>4, <1>5 DEF p

\* A group that could not be logged is taken out of the history again.
LEMMA LogFailsIs ==
  ASSUME MInv, LogFails
  PROVE  /\ hist' = SubSeq(hist, 1, Ahead) /\ hist' \in Seq(Entered)
         /\ Ahead \in 0..Len(hist) /\ DOMAIN hist' = 1..Ahead /\ Len(hist') = Ahead
         /\ \A i \in DOMAIN hist' : i \in DOMAIN hist /\ hist'[i] = hist[i]
<1>0. hist \in Seq(Entered) /\ hist' = SubSeq(hist, 1, Ahead)
  BY DEF MInv, Shapes, LogFails, Ahead
<1>1. Ahead \in 0..Len(hist) /\ Len(hist) \in Nat /\ DOMAIN hist = 1..Len(hist)
  BY Sequenced DEF MInv, Serials, Ahead
<1>2. \A i \in 1..Ahead : hist[i] \in Entered /\ i \in DOMAIN hist
  BY <1>0, <1>1, ElementOfSeq
<1>3. /\ hist' \in Seq(Entered) /\ Len(hist') = IF 1 <= Ahead THEN Ahead - 1 + 1 ELSE 0
      /\ \A i \in 1..Ahead - 1 + 1 : hist'[i] = hist[1 + i - 1]
  BY <1>0, <1>1, <1>2, SubSeqProperties
<1>4. Len(hist') = Ahead /\ \A i \in 1..Ahead : hist'[i] = hist[i]
  <2>1. Ahead \in Nat /\ \A i \in 1..Ahead : i \in 1..Ahead - 1 + 1 /\ 1 + i - 1 = i
    BY <1>1
  <2>. QED  BY <1>3, <2>1
<1>. QED  BY <1>0, <1>1, <1>2, <1>3, <1>4, LenProperties

-----------------------------------------------------------------------------
\* The sequences and functions keep their shapes.
LEMMA ShapesStep ==
  ASSUME MInv, [Next]_vars
  PROVE  Shapes'
<1>0. TypeOK /\ Shapes /\ Serials /\ Chains
  BY DEF MInv
<1>a. /\ queue \in Seq(Pending) /\ batch \in Seq(Pending)
      /\ group \in Seq(Resolved) /\ hist \in Seq(Entered)
      /\ overlay \in [DOMAIN overlay -> Cell]
      /\ chain \in [DOMAIN chain -> [vs : SUBSET Version, latest : Nat, pruned : Nat, first : Nat]]
  BY <1>0 DEF Shapes
<1>b. visible \in Nat /\ clock \in Nat /\ \A S : <<>> \in Seq(S)
  BY <1>0, Numbers, EmptySeq
<1>1. ASSUME NEW r \in Blind, Submit(r)
      PROVE  Shapes'
  <2>1. NoClient \in Client \cup {NoClient} /\ r \in Blind \cup Txn /\ 0 \in 0..visible
    BY <1>0, <1>b DEF TypeOK
  <2>2. Enqueue(NoClient, r, 0) /\ UNCHANGED client
    BY <1>1 DEF Submit
  <2>3. queue' \in Seq(Pending)
    BY <2>1, <2>2, EnqueueIs
  <2>. QED  BY <1>a, <2>2, <2>3 DEF Shapes, Enqueue
<1>2. ASSUME NEW c \in Client, Begin(c)
      PROVE  Shapes'
  BY <1>2, <1>a, <1>b DEF Begin, Shapes
<1>3. ASSUME NEW c \in Client, Drop(c)
      PROVE  Shapes'
  BY <1>3, <1>a, <1>b DEF Drop, Shapes
<1>4. ASSUME NEW c \in Client, NEW r \in Txn, Commit(c, r)
      PROVE  Shapes'
  <2>1. c \in Client \cup {NoClient} /\ r \in Blind \cup Txn /\ client[c].snap \in 0..visible
    BY <1>0, <1>b DEF TypeOK
  <2>2. Enqueue(c, r, client[c].snap)
    BY <1>4 DEF Commit
  <2>3. queue' \in Seq(Pending)
    BY <2>1, <2>2, EnqueueIs
  <2>. QED  BY <1>a, <2>2, <2>3 DEF Shapes, Enqueue
<1>5. ASSUME NEW c \in Client, NEW r \in Txn, Exec(c, r)
      PROVE  Shapes'
  <2>1. NoClient \in Client \cup {NoClient} /\ r \in Blind \cup Txn /\ client[c].snap \in 0..visible
    BY <1>0, <1>b DEF TypeOK
  <2>2. Enqueue(NoClient, r, client[c].snap)
    BY <1>5 DEF Exec
  <2>3. queue' \in Seq(Pending)
    BY <2>1, <2>2, EnqueueIs
  <2>. QED  BY <1>a, <2>2, <2>3 DEF Shapes, Enqueue
<1>6. ASSUME NEW c \in Client, NEW k \in Key, Watch(c, k)
      PROVE  Shapes'
  BY <1>6, <1>a, <1>b DEF Watch, Shapes
<1>7. CASE Drain
  BY <1>7, <1>a, <1>b DEF Drain, Shapes
<1>7a. ASSUME NEW g \in ready, Bury(g)
      PROVE  Shapes'
  <2>1. DOMAIN chain' \subseteq DOMAIN chain /\ \A k \in DOMAIN chain' : chain'[k] = chain[k]
    BY <1>7a, BuryIs
  <2>2. chain' = [k \in DOMAIN chain' |-> chain'[k]]
    BY <1>a, <1>7a DEF Bury
  <2>3. chain' \in [DOMAIN chain' -> [vs : SUBSET Version, latest : Nat, pruned : Nat, first : Nat]]
    BY <1>a, <2>1, <2>2
  <2>. QED  BY <1>7a, <1>a, <2>3 DEF Bury, Shapes
<1>7b. CASE Raise
  BY <1>7b, <1>a DEF Raise, Shapes
<1>8. CASE Resolve
  <2>1. batch' \in Seq(Pending)
    BY <1>8, ResolveIs, TailIs
  <2>2. CASE ~Applies(batch[1])
    BY <1>8, <1>a, <2>1, <2>2, ResolveIs DEF Resolve, Shapes
  <2>3. CASE Applies(batch[1])
    <3>1. batch[1] \in Pending
      BY <1>8, ResolveIs, TailIs
    <3>2. Cells(batch[1]) \in CellsOf
      BY <2>3, <3>1, CellsType DEF Applies
    <3>3. overlay' \in [DOMAIN overlay' -> Cell]
      BY <1>8, <1>a, <2>3, <3>2, ResolveIs DEF CellsOf
    <3>4. group' \in Seq(Resolved) /\ hist' \in Seq(Entered)
      BY <1>8, <2>3, ResolveIs
    <3>. QED  BY <1>8, <1>a, <2>1, <3>3, <3>4 DEF Resolve, Shapes
  <2>. QED  BY <2>2, <2>3
<1>9. CASE Logged
  BY <1>9, <1>a, <1>b DEF Logged, Shapes
<1>10. CASE LogFails
  <2>1. hist' \in Seq(Entered)
    BY <1>10, LogFailsIs
  <2>. QED  BY <1>10, <1>a, <1>b, <2>1 DEF LogFails, Shapes
<1>11. ASSUME NEW k \in Key, ApplyShard(k)
      PROVE  Shapes'
  <2>1. chain'[k] \in [vs : SUBSET Version, latest : 0..clock, pruned : 0..clock, first : 0..clock]
    BY <1>11, ShardIs
  <2>2. chain'[k] \in [vs : SUBSET Version, latest : Nat, pruned : Nat, first : Nat]
    BY <1>b, <2>1
  <2>3. DOMAIN chain' = DOMAIN chain \cup {k} /\ \A j \in DOMAIN chain' \ {k} : chain'[j] = chain[j]
    BY <1>11 DEF ApplyShard
  <2>4. chain' = [j \in DOMAIN chain' |-> chain'[j]]
    BY <1>11 DEF ApplyShard
  <2>5. \A j \in DOMAIN chain' : chain'[j] \in [vs : SUBSET Version, latest : Nat, pruned : Nat,
        first : Nat]
    BY <1>a, <2>2, <2>3
  <2>6. chain' \in [DOMAIN chain' -> [vs : SUBSET Version, latest : Nat, pruned : Nat, first : Nat]]
    BY <2>4, <2>5
  <2>7. overlay' \in [DOMAIN overlay' -> Cell]
    BY <1>11, <1>a DEF ApplyShard
  <2>. QED  BY <1>11, <1>a, <2>6, <2>7 DEF ApplyShard, Shapes
<1>12. CASE Publish
  BY <1>12, <1>a, <1>b DEF Publish, Shapes
<1>13. CASE UNCHANGED vars
  BY <1>13, <1>a, <1>b DEF vars, Shapes
<1>. QED  BY <1>1, <1>2, <1>3, <1>4, <1>5, <1>6, <1>7, <1>7a, <1>7b, <1>8, <1>9, <1>10, <1>11, <1>12,
             <1>13 DEF Next, FlushStep


\* A commit that joins the queue is the newest.
LEMMA QueueGrows ==
  ASSUME MInv, DOMAIN queue' = 1..Len(queue) + 1, \A i \in DOMAIN queue : queue'[i] = queue[i],
         queue'[Len(queue) + 1].ts = clock + 1
  PROVE  Ordered(queue') /\ \A i \in DOMAIN queue' : top < queue'[i].ts
<1>0. TypeOK /\ Shapes /\ Queued
  BY DEF MInv
<1>1. \A i \in DOMAIN queue : queue[i].ts \in 1..clock
  BY <1>0 DEF TypeOK
<1>2. /\ clock \in Nat /\ top \in Nat /\ top <= clock /\ Len(queue) \in Nat
         /\ DOMAIN queue = 1..Len(queue)
  BY <1>0, Numbers, Sequenced
<1>3. ASSUME NEW i \in DOMAIN queue'
      PROVE  \/ i \in DOMAIN queue /\ queue'[i].ts = queue[i].ts
             \/ i = Len(queue) + 1 /\ queue'[i].ts = clock + 1
  BY <1>2
<1>4. \A i \in DOMAIN queue' : top < queue'[i].ts
  BY <1>0, <1>1, <1>2, <1>3 DEF Queued
<1>5. ASSUME NEW i \in DOMAIN queue', NEW j \in DOMAIN queue', i < j
      PROVE  queue'[i].ts < queue'[j].ts
  <2>1. i \in DOMAIN queue /\ queue'[i].ts = queue[i].ts
    BY <1>2, <1>3, <1>5
  <2>2. CASE j \in DOMAIN queue
    BY <1>0, <1>5, <2>1, <2>2 DEF Queued, Ordered
  <2>3. CASE j = Len(queue) + 1
    BY <1>1, <1>2, <2>1, <2>3
  <2>. QED  BY <1>3, <2>2, <2>3
<1>. QED  BY <1>4, <1>5 DEF Ordered


\* Timestamps stay in queue order.
LEMMA QueuedStep ==
  ASSUME MInv, [Next]_vars
  PROVE  Queued'
<1>0. TypeOK /\ Shapes /\ Queued /\ Serials
  BY DEF MInv
<1>a. /\ clock \in Nat /\ visible \in Nat /\ top \in Nat /\ top <= clock
      /\ DOMAIN queue = 1..Len(queue) /\ Len(queue) \in Nat /\ DOMAIN batch = 1..Len(batch)
      /\ \A i \in DOMAIN queue : queue[i].ts \in Nat /\ queue[i].ts <= clock
      /\ \A i \in DOMAIN batch : batch[i].ts \in Nat /\ batch[i].ts <= clock
  <2>1. \A i \in DOMAIN queue : queue[i].ts \in 1..clock
    BY <1>0 DEF TypeOK
  <2>2. \A i \in DOMAIN batch : batch[i].ts \in 1..clock
    BY <1>0 DEF TypeOK
  <2>. QED  BY <1>0, <2>1, <2>2, Numbers, Sequenced
<1>b. DOMAIN <<>> = {}
  OBVIOUS
<1>1. ASSUME NEW r \in Blind, Submit(r)
      PROVE  Queued'
  <2>1. NoClient \in Client \cup {NoClient} /\ r \in Blind \cup Txn /\ 0 \in 0..visible
    BY <1>0, <1>a DEF TypeOK
  <2>2. Enqueue(NoClient, r, 0)
    BY <1>1 DEF Submit
  <2>3. /\ DOMAIN queue' = 1..Len(queue) + 1 /\ (\A i \in DOMAIN queue : queue'[i] = queue[i])
        /\ queue'[Len(queue) + 1] = PendingOf(NoClient, r, 0)
    BY <2>1, <2>2, EnqueueIs
  <2>a. queue'[Len(queue) + 1].ts = clock + 1
    BY <2>3 DEF PendingOf
  <2>4. Ordered(queue') /\ \A i \in DOMAIN queue' : top < queue'[i].ts
    BY <2>3, <2>a, QueueGrows
  <2>. QED  BY <1>0, <2>2, <2>4 DEF Queued, Enqueue
<1>2. ASSUME NEW c \in Client, Begin(c)
      PROVE  Queued'
  BY <1>2, <1>0, <1>a, <1>b DEF Begin, Queued, Ordered
<1>3. ASSUME NEW c \in Client, Drop(c)
      PROVE  Queued'
  BY <1>3, <1>0, <1>a, <1>b DEF Drop, Queued, Ordered
<1>4. ASSUME NEW c \in Client, NEW r \in Txn, Commit(c, r)
      PROVE  Queued'
  <2>1. c \in Client \cup {NoClient} /\ r \in Blind \cup Txn /\ client[c].snap \in 0..visible
    BY <1>0, <1>a DEF TypeOK
  <2>2. Enqueue(c, r, client[c].snap)
    BY <1>4 DEF Commit
  <2>3. /\ DOMAIN queue' = 1..Len(queue) + 1 /\ (\A i \in DOMAIN queue : queue'[i] = queue[i])
        /\ queue'[Len(queue) + 1] = PendingOf(c, r, client[c].snap)
    BY <2>1, <2>2, EnqueueIs
  <2>a. queue'[Len(queue) + 1].ts = clock + 1
    BY <2>3 DEF PendingOf
  <2>4. Ordered(queue') /\ \A i \in DOMAIN queue' : top < queue'[i].ts
    BY <2>3, <2>a, QueueGrows
  <2>. QED  BY <1>0, <2>2, <2>4 DEF Queued, Enqueue
<1>5. ASSUME NEW c \in Client, NEW r \in Txn, Exec(c, r)
      PROVE  Queued'
  <2>1. NoClient \in Client \cup {NoClient} /\ r \in Blind \cup Txn /\ client[c].snap \in 0..visible
    BY <1>0, <1>a DEF TypeOK
  <2>2. Enqueue(NoClient, r, client[c].snap)
    BY <1>5 DEF Exec
  <2>3. /\ DOMAIN queue' = 1..Len(queue) + 1 /\ (\A i \in DOMAIN queue : queue'[i] = queue[i])
        /\ queue'[Len(queue) + 1] = PendingOf(NoClient, r, client[c].snap)
    BY <2>1, <2>2, EnqueueIs
  <2>a. queue'[Len(queue) + 1].ts = clock + 1
    BY <2>3 DEF PendingOf
  <2>4. Ordered(queue') /\ \A i \in DOMAIN queue' : top < queue'[i].ts
    BY <2>3, <2>a, QueueGrows
  <2>. QED  BY <1>0, <2>2, <2>4 DEF Queued, Enqueue
<1>6. ASSUME NEW c \in Client, NEW k \in Key, Watch(c, k)
      PROVE  Queued'
  BY <1>6, <1>0, <1>a, <1>b DEF Watch, Queued, Ordered
<1>7. CASE Drain
  <2>1. Len(queue) \in DOMAIN queue
    BY <1>7, <1>0, <1>a, EmptySeq DEF Drain, Shapes
  <2>2. /\ queue' = <<>> /\ batch' = queue /\ top' = queue[Len(queue)].ts /\ group' = <<>>
           /\ pc' \in {"sweep", "resolve"} /\ visible' = visible
        /\ visible = top /\ DOMAIN overlay' = {}
    BY <1>7, <1>0 DEF Drain, Queued
  <2>3. \A i \in DOMAIN queue : visible < queue[i].ts /\ queue[i].ts <= top'
    BY <1>0, <1>a, <2>1, <2>2 DEF Queued, Ordered
  <2>4. visible <= top'
    <3>1. visible < queue[Len(queue)].ts /\ queue[Len(queue)].ts \in Nat
      BY <1>a, <2>1, <2>3
    <3>. QED  BY <1>a, <2>2, <3>1
  <2>. QED  BY <1>0, <1>b, <2>2, <2>3, <2>4 DEF Queued, Ordered
<1>7a. ASSUME NEW g \in ready, Bury(g)
      PROVE  Queued'
  BY <1>7a, <1>0, <1>a, <1>b DEF Bury, Queued, Ordered
<1>7b. CASE Raise
  BY <1>7b, <1>0, <1>a, <1>b DEF Raise, Queued, Ordered
<1>8. CASE Resolve
  <2>1. \A i \in DOMAIN batch' : i \in Nat /\ i + 1 \in DOMAIN batch /\ batch'[i] = batch[i + 1]
    BY <1>8, ResolveIs, TailIs
  <2>2. Ordered(batch') /\ \A i \in DOMAIN batch' : visible < batch'[i].ts /\ batch'[i].ts <= top
    BY <1>0, <1>a, <2>1 DEF Queued, Ordered
  <2>. QED  BY <1>8, <1>0, <2>2 DEF Resolve, Queued
<1>9. CASE Logged
  BY <1>9, <1>0, <1>a, <1>b DEF Logged, Queued, Ordered
<1>10. CASE LogFails
  BY <1>10, <1>0, <1>a, <1>b DEF LogFails, Queued, Ordered
<1>11. ASSUME NEW k \in Key, ApplyShard(k)
      PROVE  Queued'
  BY <1>11, <1>0, <1>a, <1>b, <1>0, <1>a DEF ApplyShard, Queued, Ordered, Queued
<1>12. CASE Publish
  BY <1>12, <1>0, <1>a, <1>b, <1>0, <1>a, <1>b DEF Publish, Queued, Ordered, Queued
<1>13. CASE UNCHANGED vars
  BY <1>13, <1>0, <1>a, <1>b DEF vars, Queued, Ordered
<1>. QED  BY <1>1, <1>2, <1>3, <1>4, <1>5, <1>6, <1>7, <1>7a, <1>7b, <1>8, <1>9, <1>10, <1>11, <1>12,
             <1>13 DEF Next, FlushStep

\* The history stays in timestamp order and ends in the group.
LEMMA SerialsStep ==
  ASSUME MInv, [Next]_vars
  PROVE  Serials'
<1>0. TypeOK /\ Shapes /\ Queued /\ Serials
  BY DEF MInv
<1>a. /\ visible \in Nat /\ top \in Nat
      /\ DOMAIN queue = 1..Len(queue) /\ DOMAIN batch = 1..Len(batch)
      /\ DOMAIN hist = 1..Len(hist) /\ DOMAIN group = 1..Len(group)
      /\ Len(hist) \in Nat /\ Len(group) \in Nat
      /\ \A i \in DOMAIN hist : hist[i].ts \in Nat
      /\ \A i \in DOMAIN batch : batch[i].ts \in Nat
      /\ \A i \in DOMAIN queue : queue[i].ts \in Nat
  BY <1>0, Numbers, Sequenced DEF Entered, Pending
<1>b. DOMAIN <<>> = {} /\ Len(<<>>) = 0
  OBVIOUS
<1>c. Ahead \in Nat /\ Ahead <= Len(hist)
  BY <1>0, <1>a DEF Serials, Ahead
<1>1. ASSUME NEW r \in Blind, Submit(r)
      PROVE  Serials'
  BY <1>1, <1>0 DEF Submit, Enqueue, Serials, Ahead
<1>2. ASSUME NEW c \in Client, Begin(c)
      PROVE  Serials'
  BY <1>2, <1>0 DEF Begin, Serials, Ahead
<1>3. ASSUME NEW c \in Client, Drop(c)
      PROVE  Serials'
  BY <1>3, <1>0 DEF Drop, Serials, Ahead
<1>4. ASSUME NEW c \in Client, NEW r \in Txn, Commit(c, r)
      PROVE  Serials'
  BY <1>4, <1>0 DEF Commit, Enqueue, Serials, Ahead
<1>5. ASSUME NEW c \in Client, NEW r \in Txn, Exec(c, r)
      PROVE  Serials'
  BY <1>5, <1>0 DEF Exec, Enqueue, Serials, Ahead
<1>6. ASSUME NEW c \in Client, NEW k \in Key, Watch(c, k)
      PROVE  Serials'
  BY <1>6, <1>0 DEF Watch, Serials, Ahead
<1>7. CASE Drain
  <2>1. /\ group' = <<>> /\ hist' = hist /\ batch' = queue /\ group = <<>> /\ visible = top
           /\ visible' = visible
    BY <1>7, <1>0 DEF Drain, Queued
  <2>2. Ahead' = Ahead
    BY <2>1 DEF Ahead
  <2>3. top <= top'
    <3>1. visible' <= top' /\ top' \in Nat
      BY <1>7, <1>0, QueuedStep, <1>a, EmptySeq DEF Queued, Drain, Shapes
    <3>. QED  BY <2>1, <3>1
  <2>4. top' \in Nat
    BY <1>7, <1>0, <1>a, EmptySeq DEF Drain, Shapes
  <2>5. \A i \in DOMAIN hist' : 1 <= hist'[i].ts /\ hist'[i].ts <= top'
        /\ (hist'[i].ts <= visible' <=> i <= Ahead')
    BY <1>0, <1>a, <2>1, <2>2, <2>3, <2>4 DEF Serials
  <2>6. \A i \in DOMAIN hist', j \in DOMAIN batch' : hist'[i].ts < batch'[j].ts
    BY <1>0, <1>a, <2>1 DEF Serials, Queued
  <2>. QED  BY <1>0, <1>a, <1>b, <2>1, <2>5, <2>6 DEF Serials
<1>7a. ASSUME NEW g \in ready, Bury(g)
      PROVE  Serials'
  BY <1>7a, <1>0 DEF Bury, Serials, Ahead
<1>7b. CASE Raise
  BY <1>7b, <1>0 DEF Raise, Serials, Ahead
<1>8. CASE Resolve
  <2>. DEFINE p == batch[1]
  <2>0. UNCHANGED <<visible, top>>
    BY <1>8 DEF Resolve
  <2>1. /\ 1 \in DOMAIN batch
        /\ \A i \in DOMAIN batch' : i \in Nat /\ i + 1 \in DOMAIN batch /\ 1 < i + 1
           /\ batch'[i] = batch[i + 1]
    BY <1>8, ResolveIs, TailIs
  <2>2. CASE ~Applies(p)
    <3>1. UNCHANGED <<group, hist>>
      BY <1>8, <2>2, ResolveIs
    <3>2. Ahead' = Ahead
      BY <3>1 DEF Ahead
    <3>. QED  BY <1>0, <2>0, <2>1, <3>1, <3>2 DEF Serials
  <2>3. CASE Applies(p)
    <3>1. /\ DOMAIN group' = 1..Len(group) + 1 /\ Len(group') = Len(group) + 1
          /\ (\A i \in DOMAIN group : group'[i] = group[i])
             /\ group'[Len(group) + 1] = ResolvedOf(p)
          /\ DOMAIN hist' = 1..Len(hist) + 1 /\ Len(hist') = Len(hist) + 1
          /\ (\A i \in DOMAIN hist : hist'[i] = hist[i]) /\ hist'[Len(hist) + 1] = EnteredOf(p)
      BY <1>8, <2>3, ResolveIs
    <3>2. Ahead' = Ahead /\ Len(group') <= Len(hist') /\ Len(hist) = Ahead + Len(group)
      BY <1>0, <1>a, <3>1 DEF Ahead, Serials
    <3>3. hist'[Len(hist) + 1].ts = p.ts /\ p.ts \in Nat /\ visible < p.ts /\ p.ts <= top
      BY <1>0, <1>a, <2>1, <3>1 DEF EnteredOf, Queued
    <3>4. \A i \in DOMAIN hist : hist'[i].ts < p.ts
      BY <1>0, <2>1, <3>1 DEF Serials
    <3>5. ASSUME NEW i \in DOMAIN hist'
          PROVE  (i \in DOMAIN hist /\ hist'[i] = hist[i]) \/ i = Len(hist) + 1
      BY <1>a, <3>1
    <3>6. Ordered(hist')
      <4>. SUFFICES ASSUME NEW i \in DOMAIN hist', NEW j \in DOMAIN hist', i < j
                    PROVE  hist'[i].ts < hist'[j].ts
        BY DEF Ordered
      <4>1. i \in DOMAIN hist /\ hist'[i] = hist[i]
        BY <1>0, <3>1, <3>5
      <4>2. CASE j = Len(hist) + 1
        BY <3>3, <3>4, <4>1, <4>2
      <4>3. CASE j \in DOMAIN hist /\ hist'[j] = hist[j]
        BY <1>0, <4>1, <4>3 DEF Serials, Ordered
      <4>. QED  BY <3>5, <4>2, <4>3
    <3>7. \A i \in DOMAIN hist' : 1 <= hist'[i].ts /\ hist'[i].ts <= top
          /\ (hist'[i].ts <= visible <=> i <= Ahead)
      BY <1>0, <1>a, <1>c, <3>1, <3>3, <3>5 DEF Serials
    <3>8. ASSUME NEW i \in DOMAIN group'
          PROVE  group'[i].ts = hist'[Ahead + i].ts /\ group'[i].cells = hist'[Ahead + i].cells
      <4>1. CASE i \in DOMAIN group
        <5>1. Ahead + i \in DOMAIN hist
          BY <1>a, <1>c, <3>2, <4>1
        <5>. QED  BY <1>0, <3>1, <4>1, <5>1 DEF Serials
      <4>2. CASE i = Len(group) + 1
        <5>1. Ahead + i = Len(hist) + 1
          BY <1>a, <1>c, <3>2, <4>2
        <5>. QED  BY <3>1, <4>2, <5>1 DEF ResolvedOf, EnteredOf
      <4>. QED  BY <1>a, <3>1, <4>1, <4>2
    <3>9. \A i \in DOMAIN hist', j \in DOMAIN batch' : hist'[i].ts < batch'[j].ts
      <4>1. \A j \in DOMAIN batch' : p.ts < batch'[j].ts /\ j + 1 \in DOMAIN batch
            /\ batch'[j] = batch[j + 1]
        BY <1>0, <1>a, <2>1 DEF Queued, Ordered
      <4>. QED  BY <1>0, <1>a, <3>1, <3>3, <3>5, <4>1 DEF Serials
    <3>. QED  BY <2>0, <3>2, <3>6, <3>7, <3>8, <3>9 DEF Serials
  <2>. QED  BY <2>2, <2>3
<1>9. CASE Logged
  BY <1>9, <1>0 DEF Logged, Serials, Ahead
<1>10. CASE LogFails
  <2>1. /\ DOMAIN hist' = 1..Ahead /\ Len(hist') = Ahead
        /\ \A i \in DOMAIN hist' : i \in DOMAIN hist /\ hist'[i] = hist[i]
    BY <1>10, LogFailsIs
  <2>2. group' = <<>> /\ UNCHANGED <<visible, top, batch>>
    BY <1>10 DEF LogFails
  <2>3. Ahead' = Ahead
    BY <1>b, <1>c, <2>1, <2>2 DEF Ahead
  <2>. QED  BY <1>0, <1>b, <1>c, <2>1, <2>2, <2>3 DEF Serials, Ordered
<1>11. ASSUME NEW k \in Key, ApplyShard(k)
      PROVE  Serials'
  BY <1>11, <1>0 DEF ApplyShard, Serials, Ahead
<1>12. CASE Publish
  <2>1. group' = <<>> /\ hist' = hist /\ visible' = top /\ top' = top /\ batch' = <<>>
    BY <1>12, <1>0 DEF Publish, Queued
  <2>2. Ahead' = Len(hist)
    BY <1>a, <1>b, <2>1 DEF Ahead
  <2>. QED  BY <1>0, <1>a, <1>b, <2>1, <2>2 DEF Serials
<1>13. CASE UNCHANGED vars
  BY <1>13, <1>0 DEF vars, Serials, Ahead
<1>. QED  BY <1>1, <1>2, <1>3, <1>4, <1>5, <1>6, <1>7, <1>7a, <1>7b, <1>8, <1>9, <1>10, <1>11, <1>12,
             <1>13 DEF Next, FlushStep

\* The overlay follows the group.
LEMMA OverlaidStep ==
  ASSUME MInv, [Next]_vars
  PROVE  Overlaid'
<1>0. TypeOK /\ Shapes /\ Queued /\ Serials /\ Overlaid
  BY DEF MInv
<1>a. \A k : Past(<<>>, k) = {}
  BY DEF Past
<1>1. ASSUME NEW r \in Blind, Submit(r)
      PROVE  Overlaid'
  BY <1>1, <1>0 DEF Submit, Enqueue, Overlaid
<1>2. ASSUME NEW c \in Client, Begin(c)
      PROVE  Overlaid'
  BY <1>2, <1>0 DEF Begin, Overlaid
<1>3. ASSUME NEW c \in Client, Drop(c)
      PROVE  Overlaid'
  BY <1>3, <1>0 DEF Drop, Overlaid
<1>4. ASSUME NEW c \in Client, NEW r \in Txn, Commit(c, r)
      PROVE  Overlaid'
  BY <1>4, <1>0 DEF Commit, Enqueue, Overlaid
<1>5. ASSUME NEW c \in Client, NEW r \in Txn, Exec(c, r)
      PROVE  Overlaid'
  BY <1>5, <1>0 DEF Exec, Enqueue, Overlaid
<1>6. ASSUME NEW c \in Client, NEW k \in Key, Watch(c, k)
      PROVE  Overlaid'
  BY <1>6, <1>0 DEF Watch, Overlaid
<1>7. CASE Drain
  BY <1>7, <1>0, <1>a DEF Drain, Overlaid
<1>7a. ASSUME NEW g \in ready, Bury(g)
      PROVE  Overlaid'
  BY <1>7a, <1>0 DEF Bury, Overlaid
<1>7b. CASE Raise
  BY <1>7b, <1>0, <1>a DEF Raise, Overlaid, Queued
<1>8. CASE Resolve
  <2>. DEFINE p == batch[1]
  <2>1. pc' = pc /\ pc = "resolve"
    BY <1>8 DEF Resolve
  <2>2. CASE ~Applies(p)
    <3>1. UNCHANGED <<group, overlay>>
      BY <1>8, <2>2, ResolveIs
    <3>. QED  BY <1>0, <2>1, <3>1 DEF Overlaid
  <2>3. CASE Applies(p)
    <3>1. /\ ResolvedOf(p) \in Resolved /\ group \in Seq(Resolved)
             /\ group' = Append(group, ResolvedOf(p))
          /\ overlay' = [k \in DOMAIN overlay \cup DOMAIN Cells(p) |->
                            IF k \in DOMAIN Cells(p) THEN Cells(p)[k] ELSE overlay[k]]
      BY <1>8, <1>0, <2>3, ResolveIs DEF Shapes
    <3>2. \A k : Past(group', k) = Past(group, k)
          \cup (IF k \in DOMAIN Cells(p) THEN {VersionOf(ResolvedOf(p), k)} ELSE {})
      BY <3>1, PastAppend DEF ResolvedOf
    <3>3. \A k \in Key : Past(group', k) # {} => k \in DOMAIN overlay'
      BY <1>0, <2>1, <3>1, <3>2 DEF Overlaid
    <3>4. ASSUME NEW k \in DOMAIN overlay'
          PROVE  \E v \in Past(group', k) : Newest(Past(group', k), v) /\ overlay'[k] = CellOf(v)
      <4>1. CASE k \notin DOMAIN Cells(p)
        <5>1. Past(group', k) = Past(group, k) /\ overlay'[k] = overlay[k] /\ k \in DOMAIN overlay
          BY <3>1, <3>2, <3>4, <4>1
        <5>. QED  BY <1>0, <5>1 DEF Overlaid
      <4>2. CASE k \in DOMAIN Cells(p)
        <5>. DEFINE v == VersionOf(ResolvedOf(p), k)
        <5>1. /\ v \in Version /\ CellOf(v) = Cells(p)[k] /\ v.ts = p.ts
          <6>1. ResolvedOf(p).ts = p.ts /\ ResolvedOf(p).cells = Cells(p)
            BY DEF ResolvedOf
          <6>2. p.ts \in Nat /\ Cells(p) \in CellsOf
            BY <3>1, <6>1 DEF Resolved
          <6>3. v.ts = p.ts
            BY <6>1 DEF VersionOf
          <6>. QED  BY <4>2, <6>1, <6>2, <6>3, VersionOfType
        <5>2. \A w \in Past(group, k) : w.ts <= p.ts
          <6>1. 1 \in DOMAIN batch /\ p.ts \in Nat
            BY <1>8, ResolveIs, TailIs DEF Pending
          <6>2. \A i \in DOMAIN hist : hist[i].ts \in Nat /\ hist[i].ts < p.ts
            BY <1>0, <6>1, Sequenced DEF Serials, Entered
          <6>3. \A w \in Past(hist, k) : w.ts <= p.ts
            BY <6>1, <6>2 DEF Past, VersionOf
          <6>. QED  BY <1>0, <6>3, GroupPast
        <5>3. overlay'[k] = Cells(p)[k]
          BY <3>1, <4>2
        <5>4. v \in Past(group', k) /\ \A w \in Past(group', k) : w \in Past(group, k) \/ w = v
          BY <3>2, <4>2
        <5>5. v.ts \in Nat
          BY <5>1 DEF Version
        <5>. HIDE DEF v
        <5>6. Newest(Past(group', k), v)
          BY <5>1, <5>2, <5>4, <5>5 DEF Newest
        <5>. QED  BY <5>1, <5>3, <5>4, <5>6
      <4>. QED  BY <4>1, <4>2
    <3>. QED  BY <3>3, <3>4 DEF Overlaid
  <2>. QED  BY <2>2, <2>3
<1>9. CASE Logged
  BY <1>9, <1>0 DEF Logged, Overlaid
<1>10. CASE LogFails
  BY <1>10, <1>0, <1>a DEF LogFails, Overlaid
<1>11. ASSUME NEW k \in Key, ApplyShard(k)
      PROVE  Overlaid'
  BY <1>11, <1>0 DEF ApplyShard, Overlaid
<1>12. CASE Publish
  <2>1. DOMAIN overlay' = {} /\ pc' = "idle"
    BY <1>12 DEF Publish
  <2>. QED  BY <2>1 DEF Overlaid
<1>13. CASE UNCHANGED vars
  BY <1>13, <1>0 DEF vars, Overlaid
<1>. QED  BY <1>1, <1>2, <1>3, <1>4, <1>5, <1>6, <1>7, <1>7a, <1>7b, <1>8, <1>9, <1>10, <1>11, <1>12,
             <1>13 DEF Next, FlushStep

\* A transaction waits for its commit.
LEMMA WaitsStep ==
  ASSUME MInv, [Next]_vars
  PROVE  Waits'
<1>0. TypeOK /\ Shapes /\ Queued /\ Waits
  BY DEF MInv
<1>1a. \A S, T, f : T = {f[i] : i \in S} => \A x \in T : \E i \in S : x = f[i]
  OBVIOUS
<1>1. ASSUME NEW r \in Blind, Submit(r)
      PROVE  Waits'
  <2>1. NoClient \in Client \cup {NoClient} /\ r \in Blind \cup Txn /\ 0 \in 0..visible
    BY <1>0, Numbers DEF TypeOK
  <2>2. Enqueue(NoClient, r, 0)
    BY <1>1 DEF Submit
  <2>3. /\ DOMAIN queue = 1..Len(queue) /\ Len(queue) \in Nat /\ DOMAIN queue' = 1..Len(queue) + 1
        /\ \A i \in DOMAIN queue : queue'[i] = queue[i]
        /\ queue'[Len(queue) + 1] = PendingOf(NoClient, r, 0)
    BY <2>1, <2>2, EnqueueIs
  <2>4. batch' = batch
    BY <2>2 DEF Enqueue
  <2>5. ASSUME NEW i \in DOMAIN queue'
        PROVE  (i \in DOMAIN queue /\ queue'[i] = queue[i]) \/ i = Len(queue) + 1
    BY <2>3
  <2>6. ASSUME NEW p \in {queue'[i] : i \in DOMAIN queue'} \cup {batch'[i] : i \in DOMAIN batch'}
        PROVE  p \in {queue[i] : i \in DOMAIN queue} \cup {batch[i] : i \in DOMAIN batch}
               \/ p = PendingOf(NoClient, r, 0)
    BY <2>3, <2>4, <2>5
  <2>7. PendingOf(NoClient, r, 0).who = NoClient /\ PendingOf(NoClient, r, 0).snap = 0
    BY DEF PendingOf
  <2>. QED  BY <1>1, <1>0, <2>6, <2>7 DEF Waits, Submit
<1>2. ASSUME NEW c \in Client, Begin(c)
      PROVE  Waits'
  BY <1>2, <1>0 DEF Begin, Waits, TypeOK
<1>3. ASSUME NEW c \in Client, Drop(c)
      PROVE  Waits'
  BY <1>3, <1>0 DEF Drop, Waits, TypeOK
<1>4. ASSUME NEW c \in Client, NEW r \in Txn, Commit(c, r)
      PROVE  Waits'
  <2>1. c \in Client \cup {NoClient} /\ r \in Blind \cup Txn /\ client[c].snap \in 0..visible
    BY <1>0, Numbers DEF TypeOK
  <2>2. Enqueue(c, r, client[c].snap)
    BY <1>4 DEF Commit
  <2>3. /\ DOMAIN queue = 1..Len(queue) /\ Len(queue) \in Nat /\ DOMAIN queue' = 1..Len(queue) + 1
        /\ \A i \in DOMAIN queue : queue'[i] = queue[i]
        /\ queue'[Len(queue) + 1] = PendingOf(c, r, client[c].snap)
    BY <2>1, <2>2, EnqueueIs
  <2>4. batch' = batch
    BY <2>2 DEF Enqueue
  <2>5. ASSUME NEW i \in DOMAIN queue'
        PROVE  (i \in DOMAIN queue /\ queue'[i] = queue[i]) \/ i = Len(queue) + 1
    BY <2>3
  <2>6. ASSUME NEW p \in {queue'[i] : i \in DOMAIN queue'} \cup {batch'[i] : i \in DOMAIN batch'}
        PROVE  p \in {queue[i] : i \in DOMAIN queue} \cup {batch[i] : i \in DOMAIN batch}
               \/ p = PendingOf(c, r, client[c].snap)
    BY <2>3, <2>4, <2>5
  <2>7. PendingOf(c, r, client[c].snap).who = c
        /\ PendingOf(c, r, client[c].snap).snap = client[c].snap
    BY DEF PendingOf
  <2>8. client \in [Client -> [st : {"idle", "open", "waiting", "done", "watching"},
        snap : 0..visible, key : SUBSET Key]]
    BY <1>0 DEF TypeOK
  <2>9. \A p \in {queue[i] : i \in DOMAIN queue} \cup {batch[i] : i \in DOMAIN batch} :
          p.who # NoClient => client'[p.who].st = "waiting" /\ client'[p.who].snap = p.snap
    BY <1>4, <1>0, <2>8 DEF Waits, Commit
  <2>10. client'[c].st = "waiting" /\ client'[c].snap = client[c].snap
    BY <1>4, <2>8 DEF Commit
  <2>. QED  BY <2>6, <2>7, <2>9, <2>10 DEF Waits
<1>5. ASSUME NEW c \in Client, NEW r \in Txn, Exec(c, r)
      PROVE  Waits'
  <2>1. NoClient \in Client \cup {NoClient} /\ r \in Blind \cup Txn /\ client[c].snap \in 0..visible
    BY <1>0, Numbers DEF TypeOK
  <2>2. Enqueue(NoClient, r, client[c].snap)
    BY <1>5 DEF Exec
  <2>3. /\ DOMAIN queue = 1..Len(queue) /\ Len(queue) \in Nat /\ DOMAIN queue' = 1..Len(queue) + 1
        /\ \A i \in DOMAIN queue : queue'[i] = queue[i]
        /\ queue'[Len(queue) + 1] = PendingOf(NoClient, r, client[c].snap)
    BY <2>1, <2>2, EnqueueIs
  <2>4. batch' = batch
    BY <2>2 DEF Enqueue
  <2>5. ASSUME NEW i \in DOMAIN queue'
        PROVE  (i \in DOMAIN queue /\ queue'[i] = queue[i]) \/ i = Len(queue) + 1
    BY <2>3
  <2>6. ASSUME NEW p \in {queue'[i] : i \in DOMAIN queue'} \cup {batch'[i] : i \in DOMAIN batch'}
        PROVE  p \in {queue[i] : i \in DOMAIN queue} \cup {batch[i] : i \in DOMAIN batch}
               \/ p = PendingOf(NoClient, r, client[c].snap)
    BY <2>3, <2>4, <2>5
  <2>7. PendingOf(NoClient, r, client[c].snap).who = NoClient
        /\ PendingOf(NoClient, r, client[c].snap).snap = client[c].snap
    BY DEF PendingOf
  <2>8. client \in [Client -> [st : {"idle", "open", "waiting", "done", "watching"},
        snap : 0..visible, key : SUBSET Key]]
    BY <1>0 DEF TypeOK
  <2>9. \A p \in {queue[i] : i \in DOMAIN queue} \cup {batch[i] : i \in DOMAIN batch} :
          p.who # NoClient => client'[p.who].st = "waiting" /\ client'[p.who].snap = p.snap
    BY <1>5, <1>0, <2>8 DEF Waits, Exec
  <2>. QED  BY <2>6, <2>7, <2>9 DEF Waits
<1>6. ASSUME NEW c \in Client, NEW k \in Key, Watch(c, k)
      PROVE  Waits'
  BY <1>6, <1>0 DEF Watch, Waits, TypeOK
<1>7. CASE Drain
  BY <1>7, <1>0, <1>0, EmptySeq DEF Drain, Waits, TypeOK, Waits
<1>7a. ASSUME NEW g \in ready, Bury(g)
      PROVE  Waits'
  BY <1>7a, <1>0 DEF Bury, Waits, TypeOK
<1>7b. CASE Raise
  BY <1>7b, <1>0 DEF Raise, Waits, TypeOK
<1>8. CASE Resolve
  <2>1. /\ 1 \in DOMAIN batch
        /\ \A i \in DOMAIN batch' : i + 1 \in DOMAIN batch /\ batch'[i] = batch[i + 1]
    BY <1>8, ResolveIs, TailIs
  <2>. QED  BY <1>8, <1>0, <2>1 DEF Resolve, Waits
<1>9. CASE Logged
  BY <1>9, <1>0 DEF Logged, Waits, TypeOK
<1>10. CASE LogFails
  BY <1>10, <1>0 DEF LogFails, Waits, TypeOK
<1>11. ASSUME NEW k \in Key, ApplyShard(k)
      PROVE  Waits'
  BY <1>11, <1>0 DEF ApplyShard, Waits, TypeOK
<1>12. CASE Publish
  <2>1. batch' = <<>> /\ queue' = queue
    BY <1>12, <1>0 DEF Publish, Queued
  <2>2. ASSUME NEW i \in DOMAIN queue, queue[i].who # NoClient
        PROVE  client'[queue[i].who] = client[queue[i].who]
    <3>1. queue[i].who \in Client
      BY <1>0, <2>2, Sequenced DEF Pending
    <3>. QED  BY <1>12, <3>1 DEF Publish
  <2>. QED  BY <1>0, <2>1, <2>2 DEF Waits
<1>13. CASE UNCHANGED vars
  BY <1>13, <1>0 DEF vars, Waits, TypeOK
<1>. QED  BY <1>1, <1>2, <1>3, <1>4, <1>5, <1>6, <1>7, <1>7a, <1>7b, <1>8, <1>9, <1>10, <1>11, <1>12,
             <1>13 DEF Next, FlushStep

-----------------------------------------------------------------------------
\* Only the application of a shard settles versions of its key.
LEMMA SettledStep ==
  ASSUME MInv, [Next]_vars, NEW j \in Key, ~ApplyShard(j)
  PROVE  Settled(j)' = Settled(j)
<1>0. TypeOK /\ Shapes /\ Queued /\ Serials /\ Overlaid
  BY DEF MInv
<1>a. /\ visible \in Nat /\ top \in Nat
      /\ \A v \in Past(hist, j) : v.ts \in Nat /\ v.ts <= top
  BY <1>0, Numbers, GroupPast
<1>1. ASSUME NEW r \in Blind, Submit(r)
      PROVE  Settled(j)' = Settled(j)
  BY <1>1 DEF Submit, Enqueue, Settled
<1>2. ASSUME NEW c \in Client, Begin(c)
      PROVE  Settled(j)' = Settled(j)
  BY <1>2 DEF Begin, Settled
<1>3. ASSUME NEW c \in Client, Drop(c)
      PROVE  Settled(j)' = Settled(j)
  BY <1>3 DEF Drop, Settled
<1>4. ASSUME NEW c \in Client, NEW r \in Txn, Commit(c, r)
      PROVE  Settled(j)' = Settled(j)
  BY <1>4 DEF Commit, Enqueue, Settled
<1>5. ASSUME NEW c \in Client, NEW r \in Txn, Exec(c, r)
      PROVE  Settled(j)' = Settled(j)
  BY <1>5 DEF Exec, Enqueue, Settled
<1>6. ASSUME NEW c \in Client, NEW k \in Key, Watch(c, k)
      PROVE  Settled(j)' = Settled(j)
  BY <1>6 DEF Watch, Settled
<1>7. CASE Drain
  BY <1>7 DEF Drain, Settled, Settled, UpTo
<1>7a. ASSUME NEW g \in ready, Bury(g)
      PROVE  Settled(j)' = Settled(j)
  BY <1>7a DEF Bury, Settled
<1>7b. CASE Raise
  BY <1>7b DEF Raise, Settled
<1>8. CASE Resolve
  <2>1. pc = "resolve" /\ pc' = pc /\ visible' = visible
    BY <1>8 DEF Resolve
  <2>2. CASE ~Applies(batch[1])
    BY <1>8, <2>1, <2>2, ResolveIs DEF Settled
  <2>3. CASE Applies(batch[1])
    <3>1. EnteredOf(batch[1]) \in Entered /\ hist \in Seq(Entered)
          /\ hist' = Append(hist, EnteredOf(batch[1]))
      BY <1>8, <1>0, <2>3, ResolveIs DEF Shapes
    <3>2. 1 \in DOMAIN batch /\ batch[1].ts \in Nat
      BY <1>8, ResolveIs, TailIs DEF Pending
    <3>3. \A v \in Past(hist', j) : v \in Past(hist, j) \/ v = VersionOf(EnteredOf(batch[1]), j)
      BY <3>1, PastAppend
    <3>4. VersionOf(EnteredOf(batch[1]), j).ts = batch[1].ts
      BY DEF VersionOf, EnteredOf
    <3>5. Past(hist, j) \subseteq Past(hist', j)
      BY <3>1, PastAppend
    <3>6. visible < batch[1].ts
      BY <1>0, <3>2 DEF Queued
    <3>7. UpTo(Past(hist', j), visible) = UpTo(Past(hist, j), visible)
      BY <1>a, <3>2, <3>3, <3>4, <3>5, <3>6 DEF UpTo
    <3>. QED  BY <2>1, <3>7 DEF Settled
  <2>. QED  BY <2>2, <2>3
<1>9. CASE Logged
  <2>1. pc = "resolve" /\ pc' = "apply" /\ UNCHANGED <<visible, hist, overlay>>
    BY <1>9 DEF Logged
  <2>2. j \notin DOMAIN overlay => Past(group, j) = {}
    BY <1>0, <2>1 DEF Overlaid
  <2>3. j \notin DOMAIN overlay => Past(hist, j) = UpTo(Past(hist, j), visible)
    BY <1>0, <1>a, <2>2, GroupPast DEF UpTo
  <2>. QED  BY <2>1, <2>3 DEF Settled
<1>10. CASE LogFails
  <2>1. pc = "resolve" /\ pc' = "apply" /\ visible' = visible /\ DOMAIN overlay' = {}
    BY <1>10 DEF LogFails
  <2>2. hist' = SubSeq(hist, 1, Ahead) /\ Ahead \in 0..Len(hist) /\ hist \in Seq(Entered)
        /\ Len(hist) \in Nat
    BY <1>10, <1>0, LogFailsIs, LenProperties DEF Shapes
  <2>3. Past(hist', j) = {VersionOf(hist[i],
        j) : i \in {m \in 1..Ahead : j \in DOMAIN hist[m].cells}}
    BY <2>2, PastPrefix
  <2>4. \A i \in 1..Len(hist) : i \in 1..Ahead <=> hist[i].ts <= visible
    BY <1>0, <2>2, Sequenced DEF Serials
  <2>5. Past(hist', j) = UpTo(Past(hist, j), visible)
    <3>1. DOMAIN hist = 1..Len(hist)
      BY <2>2, LenProperties
    <3>2. 1..Ahead \subseteq 1..Len(hist)
      BY <2>2
    <3>3. \A i : VersionOf(hist[i], j).ts = hist[i].ts
      BY DEF VersionOf
    <3>4. \A v : v \in UpTo(Past(hist, j), visible)
          <=> \E i \in {m \in 1..Ahead : j \in DOMAIN hist[m].cells} : v = VersionOf(hist[i], j)
      BY <2>4, <3>1, <3>2, <3>3 DEF UpTo, Past
    <3>. QED  BY <2>3, <3>4
  <2>. QED  BY <2>1, <2>5 DEF Settled
<1>11. ASSUME NEW k \in Key, ApplyShard(k)
      PROVE  Settled(j)' = Settled(j)
  BY <1>11 DEF ApplyShard, Settled
<1>12. CASE Publish
  <2>1. pc = "apply" /\ DOMAIN overlay = {} /\ pc' = "idle" /\ visible' = top /\ hist' = hist
    BY <1>12 DEF Publish
  <2>2. UpTo(Past(hist, j), top) = Past(hist, j)
    BY <1>a DEF UpTo
  <2>. QED  BY <2>1, <2>2 DEF Settled
<1>13. CASE UNCHANGED vars
  BY <1>13 DEF vars, Settled
<1>. QED  BY <1>1, <1>2, <1>3, <1>4, <1>5, <1>6, <1>7, <1>7a, <1>7b, <1>8, <1>9, <1>10, <1>11, <1>12,
             <1>13 DEF Next, FlushStep

\* A snapshot is pinned when it is the newest.
LEMMA ActiveStep ==
  ASSUME MInv, [Next]_vars
  PROVE  Active' \subseteq Active \cup {visible}
<1>a. client \in [Client -> [st : {"idle", "open", "waiting", "done", "watching"},
      snap : 0..visible, key : SUBSET Key]]
  BY DEF MInv, TypeOK
<1>1. ASSUME NEW r \in Blind, Submit(r)
      PROVE  Active' \subseteq Active \cup {visible}
  BY <1>1, <1>a DEF Submit, Enqueue, Active
<1>2. ASSUME NEW c \in Client, Begin(c)
      PROVE  Active' \subseteq Active \cup {visible}
  BY <1>2, <1>a DEF Begin, Active
<1>3. ASSUME NEW c \in Client, Drop(c)
      PROVE  Active' \subseteq Active \cup {visible}
  BY <1>3, <1>a DEF Drop, Active
<1>4. ASSUME NEW c \in Client, NEW r \in Txn, Commit(c, r)
      PROVE  Active' \subseteq Active \cup {visible}
  BY <1>4, <1>a DEF Commit, Enqueue, Active
<1>5. ASSUME NEW c \in Client, NEW r \in Txn, Exec(c, r)
      PROVE  Active' \subseteq Active \cup {visible}
  BY <1>5, <1>a DEF Exec, Enqueue, Active
<1>6. ASSUME NEW c \in Client, NEW k \in Key, Watch(c, k)
      PROVE  Active' \subseteq Active \cup {visible}
  BY <1>6, <1>a DEF Watch, Active
<1>7. CASE Drain
  BY <1>7, <1>a DEF Drain, Active
<1>7a. ASSUME NEW g \in ready, Bury(g)
      PROVE  Active' \subseteq Active \cup {visible}
  BY <1>7a, <1>a DEF Bury, Active
<1>7b. CASE Raise
  BY <1>7b, <1>a DEF Raise, Active
<1>8. CASE Resolve
  BY <1>8, <1>a DEF Resolve, Active
<1>9. CASE Logged
  BY <1>9, <1>a DEF Logged, Active
<1>10. CASE LogFails
  BY <1>10, <1>a DEF LogFails, Active
<1>11. ASSUME NEW k \in Key, ApplyShard(k)
      PROVE  Active' \subseteq Active \cup {visible}
  BY <1>11, <1>a DEF ApplyShard, Active
<1>12. CASE Publish
  BY <1>12, <1>a DEF Publish, Active
<1>13. CASE UNCHANGED vars
  BY <1>13, <1>a DEF vars, Active
<1>. QED  BY <1>1, <1>2, <1>3, <1>4, <1>5, <1>6, <1>7, <1>7a, <1>7b, <1>8, <1>9, <1>10, <1>11, <1>12,
             <1>13 DEF Next, FlushStep

\* What is newest and what a chain holds outlives the growth of the horizons.
LEMMA ChainKept ==
  ASSUME NEW c, NEW S, NEW gc \in Nat, NEW gc2 \in Nat, gc <= gc2, Present(c, S, gc),
         \A v \in S : v.ts \in Nat
  PROVE  Present(c, S, gc2)
<1>1. \A v \in S : v.ts < c.first => v.ts <= gc2
  BY DEF Present
<1>. QED  BY <1>1 DEF Present

\* A key that was swept stays behind every snapshot when those that are pinned
\* afterwards are no older than the horizon.
LEMMA AbsenceKept ==
  ASSUME NEW S, NEW gc \in Nat, NEW gc2 \in Nat, gc <= gc2, NEW pins, NEW pins2, NEW s \in Nat,
         gc <= s,
         pins2 \subseteq pins \cup {s}, Absent(S, gc, pins), \A v \in S : v.ts \in Nat
  PROVE  Absent(S, gc2, pins2)
BY DEF Absent

\* The chain of a shard after its versions are applied.
LEMMA AppliedShard ==
  ASSUME MInv, NEW k \in Key, ApplyShard(k)
  PROVE  Present(chain'[k], Settled(k)', gcHorizon)
<1>. DEFINE c == ShardOf(k)
            d == chain'[k]
            new == Past(group, k)
            old == Settled(k)
            S == Past(hist, k)
<1>0. TypeOK /\ Shapes /\ Queued /\ Serials /\ Sweeping /\ Chains
  BY DEF MInv
<1>1. Settled(k)' = S /\ old = UpTo(S, visible)
  BY DEF ApplyShard, Settled
<1>2. /\ visible \in Nat /\ top \in Nat /\ gcHorizon \in Nat /\ gcHorizon <= visible
      /\ new = {v \in S : v.ts > visible} /\ \A v \in S : v.ts \in Nat /\ v.ts <= top
  BY <1>0, GroupPast, Numbers
<1>3. Versioned(S) /\ S \subseteq Version
  BY <1>0, HistoryVersioned DEF Versioned
<1>4. /\ new # {} /\ c.vs \subseteq S
      /\ \A v \in c.vs : v.ts <= visible
      /\ k \in DOMAIN chain => c # EmptyChain
      /\ d \in [vs : SUBSET Version, latest : 0..clock, pruned : 0..clock, first : 0..clock]
      /\ Pushed(c, new, Active, d)
  BY ShardIs
<1>5. c.pruned \in Nat /\ c.first \in Nat /\ d.pruned \in Nat /\ d.first \in Nat
  <2>1. k \in DOMAIN chain => c.pruned \in Nat /\ c.first \in Nat
    BY <1>0 DEF Shapes, ShardOf
  <2>2. k \notin DOMAIN chain => c.pruned = 0 /\ c.first = 0
    BY DEF EmptyChain, ShardOf
  <2>3. clock \in Nat
    BY <1>0, Numbers
  <2>. QED  BY <1>4, <2>1, <2>2, <2>3
<1>6. k \in DOMAIN chain => Present(c, old, gcHorizon)
  BY <1>0 DEF Chains, ShardOf
<1>7. k \notin DOMAIN chain => Absent(old, gcHorizon, Active) /\ c = EmptyChain /\ c.vs = {}
  <2>1. removed = {}
    BY <1>0 DEF ApplyShard, Sweeping
  <2>2. Swept(k) = gcHorizon
    BY <1>0, <2>1, SweptIs
  <2>. QED  BY <1>0, <2>2 DEF Chains, ShardOf, EmptyChain
<1>. HIDE DEF c, d, new, old, S
<1>8. /\ d.vs \subseteq c.vs \cup new
      /\ \A v \in c.vs \cup new : Newest(c.vs \cup new, v) => v \in d.vs /\ d.latest = v.ts
      /\ \A v \in c.vs \cup new : v \notin d.vs => v.ts <= d.pruned
      /\ c.pruned <= d.pruned
      /\ c # EmptyChain => d.first = c.first
      /\ c = EmptyChain => \E v \in new : d.first = v.ts /\ \A w \in new : v.ts <= w.ts
  BY <1>4 DEF Pushed
<1>9. old \subseteq S /\ (\A v \in old : v.ts <= visible)
      /\ (\A v \in S : v \in old \/ v \in new) /\ new \subseteq S
      /\ \A v \in new : v.ts > visible
  BY <1>1, <1>2 DEF UpTo
<1>10. d.vs \subseteq S
  BY <1>4, <1>8, <1>9
<1>11. \E v \in d.vs : Newest(S, v) /\ d.latest = v.ts
  <2>1. PICK v0 \in new : TRUE
    BY <1>4
  <2>2. PICK v \in S : Newest(UpTo(S, top), v)
    BY <1>2, <1>3, <1>9, <2>1, NewestUpTo
  <2>3. Newest(S, v)
    BY <1>2, <2>2 DEF Newest, UpTo
  <2>4. v0.ts <= v.ts /\ v0 \in S
    BY <1>9, <2>1, <2>3 DEF Newest
  <2>5. v \in new
    BY <1>2, <1>9, <2>1, <2>4
  <2>6. Newest(c.vs \cup new, v)
    BY <1>4, <1>9, <2>3, <2>5 DEF Newest
  <2>. QED  BY <1>8, <2>3, <2>5, <2>6
<1>12. /\ \E v \in S : v.ts = d.first
       /\ \A v \in new : d.first <= v.ts
       /\ \A v \in c.vs : d.first <= v.ts
       /\ \A v \in S : v.ts < d.first => v.ts <= gcHorizon /\ v \in old
       /\ \A v \in S : d.first <= v.ts /\ d.pruned < v.ts => v \in c.vs \cup new
       /\ \A v \in S : Newest({w \in S : w.ts < d.first}, v) => ~v.live
  <2>1. CASE k \in DOMAIN chain
    <3>1. d.first = c.first /\ Present(c, old, gcHorizon)
      BY <1>4, <1>6, <1>8, <2>1
    <3>2. PICK u \in old : u.ts = c.first
      BY <3>1 DEF Present
    <3>3. c.first <= visible
      BY <1>9, <3>2
    <3>4. \A v \in new : d.first <= v.ts
      BY <1>2, <1>5, <1>9, <3>1, <3>3
    <3>5. \A v \in S : v.ts < d.first => v \in old
      BY <1>2, <1>5, <1>9, <3>4
    <3>6. {w \in S : w.ts < d.first} = {w \in old : w.ts < c.first}
      BY <1>9, <3>1, <3>5
    <3>7. \A v \in S : d.first <= v.ts /\ d.pruned < v.ts => v \in c.vs \cup new
      BY <1>2, <1>5, <1>8, <1>9, <3>1 DEF Present
    <3>8. \A v \in S : Newest({w \in S : w.ts < d.first}, v) => ~v.live
      BY <3>1, <3>6 DEF Present, Newest
    <3>9. \A v \in S : v.ts < d.first => v.ts <= gcHorizon
      BY <3>1, <3>5 DEF Present
    <3>10. \A v \in c.vs : d.first <= v.ts
      BY <3>1 DEF Present
    <3>. QED  BY <1>9, <3>1, <3>2, <3>4, <3>5, <3>7, <3>8, <3>9, <3>10
  <2>2. CASE k \notin DOMAIN chain
    <3>1. Absent(old, gcHorizon, Active) /\ c.vs = {} /\ c = EmptyChain
      BY <1>7, <2>2
    <3>2. PICK u \in new : d.first = u.ts /\ \A w \in new : u.ts <= w.ts
      BY <1>8, <3>1
    <3>3. \A v \in old : v.ts < d.first
      BY <1>2, <1>5, <1>9, <3>2
    <3>4. {w \in S : w.ts < d.first} = old
      BY <1>2, <1>5, <1>9, <3>2, <3>3
    <3>5. \A v \in S : d.first <= v.ts => v \in new
      BY <1>2, <1>5, <1>9, <3>3
    <3>6. \A v \in S : v.ts < d.first => v \in old /\ v.ts <= gcHorizon
      BY <3>1, <3>4 DEF Absent
    <3>7. \A v \in S : Newest({w \in S : w.ts < d.first}, v) => ~v.live
      BY <3>1, <3>4 DEF Absent, Newest
    <3>. QED  BY <1>9, <3>1, <3>2, <3>5, <3>6, <3>7
  <2>. QED  BY <2>1, <2>2
<1>13. \A v \in S : d.first <= v.ts /\ d.pruned < v.ts => v \in d.vs
  BY <1>2, <1>5, <1>8, <1>12
<1>14. \A v \in d.vs : d.first <= v.ts
  BY <1>8, <1>12
<1>15. Present(d, S, gcHorizon)
  BY <1>10, <1>11, <1>12, <1>13, <1>14 DEF Present
<1>. QED  BY <1>1, <1>15 DEF d, S

\* A sweep under way is of tombstones behind every snapshot, whichever is opened.
LEMMA SweepingStep ==
  ASSUME MInv, [Next]_vars
  PROVE  Sweeping'
<1>0. TypeOK /\ Sweeping /\ Queued
  BY DEF MInv
<1>a. /\ Active' \subseteq Active \cup {visible} /\ visible \in Nat /\ MaxTs \in Nat
      /\ \A g \in ready \cup removed : g.ts \in Nat
      /\ \A g \in graveyard : g.ts \in Nat
  BY <1>0, ActiveStep, Numbers, SweptIs, BoundAssumption DEF TypeOK
<1>b. ASSUME ready' \cup removed' \subseteq ready \cup removed, visible' = visible,
             pc' # "sweep" => ready' = {} /\ removed' = {}
      PROVE  Sweeping'
  BY <1>0, <1>a, <1>b DEF Sweeping
<1>c. ASSUME UNCHANGED <<pc, visible, ready, removed>>
      PROVE  Sweeping'
  BY <1>0, <1>b, <1>c DEF Sweeping
<1>1. CASE \E r \in Blind : Submit(r)
  BY <1>1, <1>c DEF Submit, Enqueue, sweeping
<1>2. ASSUME NEW c \in Client, \/ Begin(c) \/ Drop(c) \/ \E r \in Txn : Commit(c, r) \/ Exec(c, r)
                              \/ \E k \in Key : Watch(c, k)
      PROVE  UNCHANGED <<pc, visible, ready, removed>>
  BY <1>2 DEF Begin, Drop, Commit, Exec, Watch, Enqueue, sweeping
<1>3. CASE Drain
  <2>1. /\ ready' = Buried /\ removed' = removed /\ removed = {} /\ visible' = visible
        /\ pc' # "sweep" => Buried = {}
        /\ client' = client
    BY <1>3, <1>0 DEF Drain, Collect, Sweeping
  <2>2. \A g \in Buried : g.ts \in Nat /\ g.ts <= Horizon
    BY <1>a DEF Buried
  <2>3. Horizon \in Nat /\ Horizon <= visible /\ \A s \in Active : Horizon <= s /\ s \in Nat
    BY <1>0, HorizonIs, Numbers
  <2>4. Active' = Active
    BY <2>1 DEF Active
  <2>5. \A g \in Buried : g.ts <= visible /\ \A s \in Active : g.ts <= s
    BY <1>a, <2>2, <2>3
  <2>. QED  BY <2>1, <2>4, <2>5 DEF Sweeping
<1>4. ASSUME NEW g \in ready, Bury(g)
      PROVE  Sweeping'
  <2>1. removed' \subseteq removed \cup ready /\ ready' = ready \ {g} /\ visible' = visible
        /\ pc' = "sweep"
    BY <1>4, BuryIs DEF Bury
  <2>. QED  BY <1>b, <2>1
<1>5. CASE Raise
  BY <1>5, <1>b DEF Raise
<1>6. CASE Resolve
  BY <1>6, <1>c DEF Resolve, sweeping
<1>7. CASE Logged \/ LogFails
  BY <1>7, <1>0, <1>b DEF Logged, LogFails, sweeping, Sweeping
<1>8. ASSUME NEW k \in Key, ApplyShard(k)
      PROVE  Sweeping'
  BY <1>8, <1>c DEF ApplyShard, sweeping
<1>9. CASE Publish
  BY <1>9, <1>0 DEF Publish, sweeping, Sweeping
<1>10. CASE UNCHANGED vars
  BY <1>10, <1>c DEF vars
<1>. QED  BY <1>1, <1>2, <1>3, <1>4, <1>5, <1>6, <1>7, <1>8, <1>9, <1>10, <1>c DEF Next, FlushStep

\* The chains keep what the settled history needs.
LEMMA ChainsStep ==
  ASSUME MInv, [Next]_vars
  PROVE  Chains'
<1>0. TypeOK /\ Shapes /\ Queued /\ Serials /\ Overlaid /\ Sweeping /\ Chains
  BY DEF MInv
<1>a. /\ visible \in Nat /\ gcHorizon \in Nat /\ gcHorizon <= visible /\ top \in Nat
         /\ clock \in Nat
      /\ Active' \subseteq Active \cup {visible}
  BY <1>0, Numbers, ActiveStep
<1>b. \A j \in Key : \A v \in Settled(j) : v.ts \in Nat
  BY <1>0, SettledIsPast DEF Versioned, Version
<1>s. \A j : Swept(j) \in Nat /\ Swept(j) <= visible /\ gcHorizon <= Swept(j)
  BY <1>0, <1>a, SweptIs
<1>c. ASSUME NEW j \in Key, ~ApplyShard(j), j \in DOMAIN chain => chain'[j] = chain[j],
             j \in DOMAIN chain <=> j \in DOMAIN chain', gcHorizon' \in Nat, gcHorizon <= gcHorizon',
             Swept(j)' \in Nat, Swept(j) <= Swept(j)'
      PROVE  IF j \in DOMAIN chain' THEN Present(chain'[j], Settled(j)',
             gcHorizon') ELSE Absent(Settled(j)', Swept(j)', Active')
  <2>1. Settled(j)' = Settled(j)
    BY <1>c, SettledStep
  <2>2. IF j \in DOMAIN chain THEN Present(chain[j], Settled(j),
        gcHorizon) ELSE Absent(Settled(j), Swept(j), Active)
    BY <1>0 DEF Chains
  <2>3. CASE j \in DOMAIN chain
    BY <1>a, <1>b, <1>c, <2>1, <2>2, <2>3, ChainKept
  <2>4. CASE j \notin DOMAIN chain
    BY <1>a, <1>b, <1>s, <1>c, <2>1, <2>2, <2>4, AbsenceKept
  <2>. QED  BY <2>3, <2>4
<1>d. ASSUME UNCHANGED <<chain, gcHorizon, removed>>, \A j \in Key : ~ApplyShard(j)
      PROVE  Chains'
  <2>1. \A j : Swept(j)' = Swept(j)
    BY <1>d DEF Swept
  <2>. QED  BY <1>a, <1>s, <1>c, <1>d, <2>1 DEF Chains
<1>1. ASSUME NEW r \in Blind, Submit(r)
      PROVE  Chains'
  <2>1. UNCHANGED <<chain, gcHorizon, removed, overlay>>
    BY <1>1 DEF Submit, Enqueue, Begin, Drop, Commit, Exec, Watch, vars, sweeping
  <2>2. \A j \in Key : ~ApplyShard(j)
    BY <2>1 DEF ApplyShard
  <2>. QED  BY <1>d, <2>1, <2>2
<1>2. ASSUME NEW c \in Client, Begin(c)
      PROVE  Chains'
  <2>1. UNCHANGED <<chain, gcHorizon, removed, overlay>>
    BY <1>2 DEF Submit, Enqueue, Begin, Drop, Commit, Exec, Watch, vars, sweeping
  <2>2. \A j \in Key : ~ApplyShard(j)
    BY <2>1 DEF ApplyShard
  <2>. QED  BY <1>d, <2>1, <2>2
<1>3. ASSUME NEW c \in Client, Drop(c)
      PROVE  Chains'
  <2>1. UNCHANGED <<chain, gcHorizon, removed, overlay>>
    BY <1>3 DEF Submit, Enqueue, Begin, Drop, Commit, Exec, Watch, vars, sweeping
  <2>2. \A j \in Key : ~ApplyShard(j)
    BY <2>1 DEF ApplyShard
  <2>. QED  BY <1>d, <2>1, <2>2
<1>4. ASSUME NEW c \in Client, NEW r \in Txn, Commit(c, r)
      PROVE  Chains'
  <2>1. UNCHANGED <<chain, gcHorizon, removed, overlay>>
    BY <1>4 DEF Submit, Enqueue, Begin, Drop, Commit, Exec, Watch, vars, sweeping
  <2>2. \A j \in Key : ~ApplyShard(j)
    BY <2>1 DEF ApplyShard
  <2>. QED  BY <1>d, <2>1, <2>2
<1>5. ASSUME NEW c \in Client, NEW r \in Txn, Exec(c, r)
      PROVE  Chains'
  <2>1. UNCHANGED <<chain, gcHorizon, removed, overlay>>
    BY <1>5 DEF Submit, Enqueue, Begin, Drop, Commit, Exec, Watch, vars, sweeping
  <2>2. \A j \in Key : ~ApplyShard(j)
    BY <2>1 DEF ApplyShard
  <2>. QED  BY <1>d, <2>1, <2>2
<1>6. ASSUME NEW c \in Client, NEW k \in Key, Watch(c, k)
      PROVE  Chains'
  <2>1. UNCHANGED <<chain, gcHorizon, removed, overlay>>
    BY <1>6 DEF Submit, Enqueue, Begin, Drop, Commit, Exec, Watch, vars, sweeping
  <2>2. \A j \in Key : ~ApplyShard(j)
    BY <2>1 DEF ApplyShard
  <2>. QED  BY <1>d, <2>1, <2>2
<1>7. CASE Drain
  <2>1. UNCHANGED <<chain, gcHorizon, removed>> /\ pc = "idle"
    BY <1>7 DEF Drain
  <2>2. \A j \in Key : ~ApplyShard(j)
    BY <2>1 DEF ApplyShard
  <2>. QED  BY <1>d, <2>1, <2>2
<1>7a. ASSUME NEW g \in ready, Bury(g)
      PROVE  Chains'
  <2>1. pc = "sweep" /\ UNCHANGED <<client, visible, gcHorizon>>
    BY <1>7a DEF Bury
  <2>2. \A j \in Key : ~ApplyShard(j)
    BY <2>1 DEF ApplyShard
  <2>3. /\ DOMAIN chain' \subseteq DOMAIN chain
        /\ \A k \in DOMAIN chain' : chain'[k] = chain[k]
        /\ removed \subseteq removed' /\ removed' \subseteq removed \cup ready
    BY <1>7a, BuryIs
  <2>4. /\ \A h \in removed' : h.ts \in 0..visible
        /\ gcHorizon \in 0..visible
    BY <1>0, <1>a, <2>3, SweptIs
  <2>5. \A j : /\ Swept(j)' \in 0..visible
               /\ \A h \in removed' : h.key = j => h.ts <= Swept(j)'
               /\ gcHorizon <= Swept(j)'
    BY <1>a, <2>1, <2>4, BoundIs DEF Swept
  <2>6. \A j : Swept(j) <= Swept(j)'
    <3>1. ASSUME NEW j
          PROVE  Swept(j) <= Swept(j)'
      <4>1. Swept(j) = gcHorizon \/ \E h \in removed : h.key = j /\ h.ts = Swept(j)
        BY <1>a, <2>3, <2>4, BoundIs DEF Swept
      <4>. QED  BY <2>3, <2>5, <4>1
    <3>. QED  BY <3>1
  <2>7. ASSUME NEW j \in Key, j \in Lost
        PROVE  Absent(Settled(j)', Swept(j)', Active')
    <3>1. /\ j \in DOMAIN chain /\ ~LatestCell(j).live /\ g \in removed' /\ j = g.key
          /\ chain[j].latest = g.ts /\ \A s \in Active : chain[j].latest <= s
      BY <1>7a, <2>7, BuryIs
    <3>2. PICK v \in chain[j].vs : Newest(Settled(j), v) /\ v.ts = chain[j].latest
               /\ LatestCell(j).live = v.live
      BY <3>1, LatestIs
    <3>3. Settled(j)' = Settled(j) /\ Versioned(Settled(j))
      BY <1>0, <2>2, SettledStep, SettledIsPast
    <3>4. Active' = Active /\ \A s \in Active : s \in Nat
      BY <1>0, <2>1, Numbers DEF Active
    <3>5. \A w \in Settled(j) : w.ts \in Nat /\ w.ts <= v.ts /\ (Newest(Settled(j), w) => w = v)
      <4>1. v \in Settled(j) /\ \A w \in Settled(j) : w.ts <= v.ts
        BY <3>2 DEF Newest
      <4>2. ASSUME NEW w \in Settled(j), Newest(Settled(j), w)
            PROVE  w = v
        <5>1. v.ts <= w.ts /\ w.ts <= v.ts /\ v.ts \in Nat /\ w.ts \in Nat
          BY <1>b, <4>1, <4>2 DEF Newest
        <5>. QED  BY <3>3, <4>1, <5>1 DEF Versioned
      <4>. QED  BY <1>b, <4>1, <4>2
    <3>6. v.ts \in Nat /\ v.ts <= Swept(j)' /\ Swept(j)' \in Nat
      BY <1>b, <2>5, <3>1, <3>2 DEF Newest
    <3>. QED  BY <3>1, <3>2, <3>3, <3>4, <3>5, <3>6 DEF Absent
  <2>8. ASSUME NEW j \in Key, j \notin Lost
        PROVE  IF j \in DOMAIN chain' THEN Present(chain'[j], Settled(j)',
               gcHorizon') ELSE Absent(Settled(j)', Swept(j)', Active')
    <3>1. (j \in DOMAIN chain <=> j \in DOMAIN chain') /\ (j \in DOMAIN chain => chain'[j] = chain[j])
      BY <2>3, <2>8 DEF Lost
    <3>. QED  BY <1>a, <1>c, <2>1, <2>2, <2>5, <2>6, <3>1
  <2>9. \A j \in Lost : j \notin DOMAIN chain'
    BY DEF Lost
  <2>. QED  BY <2>7, <2>8, <2>9 DEF Chains
<1>7b. CASE Raise
  <2>1. pc = "sweep" /\ chain' = chain
    BY <1>7b DEF Raise
  <2>2. \A j \in Key : ~ApplyShard(j)
    BY <2>1 DEF ApplyShard
  <2>3. /\ gcHorizon' \in 0..visible /\ gcHorizon <= gcHorizon' /\ removed' = {}
        /\ \A h \in removed : h.ts <= gcHorizon'
    BY <1>7b, RaiseIs
  <2>4. \A j : Swept(j)' = gcHorizon'
    BY <1>a, <2>3, BoundIs DEF Swept
  <2>5. \A j : Swept(j) <= gcHorizon'
    <3>1. \A h \in removed : h.ts \in 0..visible
      BY <1>0, SweptIs
    <3>2. gcHorizon \in 0..visible
      BY <1>a
    <3>3. \A j : Swept(j) = gcHorizon \/ \E h \in removed : h.key = j /\ h.ts = Swept(j)
      BY <1>a, <3>1, <3>2, BoundIs DEF Swept
    <3>. QED  BY <2>3, <3>3
  <2>. QED  BY <1>a, <1>c, <2>1, <2>2, <2>3, <2>4, <2>5 DEF Chains
<1>8. CASE Resolve
  <2>1. UNCHANGED <<chain, gcHorizon, removed>> /\ pc = "resolve"
    BY <1>8 DEF Resolve, sweeping
  <2>2. \A j \in Key : ~ApplyShard(j)
    BY <2>1 DEF ApplyShard
  <2>. QED  BY <1>d, <2>1, <2>2
<1>9. CASE Logged
  <2>1. UNCHANGED <<chain, gcHorizon, removed, overlay>>
    BY <1>9 DEF Logged, Publish, sweeping
  <2>2. \A j \in Key : ~ApplyShard(j)
    BY <2>1 DEF ApplyShard
  <2>. QED  BY <1>d, <2>1, <2>2
<1>10. CASE LogFails
  <2>1. UNCHANGED <<chain, gcHorizon, removed>> /\ pc = "resolve"
    BY <1>10 DEF LogFails, sweeping
  <2>2. \A j \in Key : ~ApplyShard(j)
    BY <2>1 DEF ApplyShard
  <2>. QED  BY <1>d, <2>1, <2>2
<1>11. ASSUME NEW k \in Key, ApplyShard(k)
      PROVE  Chains'
  <2>1. \A j \in Key \ {k} : ~ApplyShard(j)
    <3>1. \A j \in Key \ {k} : j \in DOMAIN overlay => j \in DOMAIN overlay'
      BY <1>11 DEF ApplyShard
    <3>. QED  BY <3>1 DEF ApplyShard
  <2>2. UNCHANGED <<gcHorizon, removed>> /\ DOMAIN chain' = DOMAIN chain \cup {k}
        /\ \A j \in Key \ {k} : j \in DOMAIN chain => chain'[j] = chain[j]
    BY <1>11 DEF ApplyShard, sweeping
  <2>2a. \A j : Swept(j)' = Swept(j)
    BY <2>2 DEF Swept
  <2>3. Present(chain'[k], Settled(k)', gcHorizon)
    BY <1>11, AppliedShard
  <2>4. ASSUME NEW j \in Key \ {k}
        PROVE  IF j \in DOMAIN chain' THEN Present(chain'[j], Settled(j)',
               gcHorizon') ELSE Absent(Settled(j)', Swept(j)', Active')
    BY <1>a, <1>s, <1>c, <2>1, <2>2, <2>2a
  <2>. QED  BY <2>2, <2>3, <2>4 DEF Chains
<1>12. CASE Publish
  <2>1. UNCHANGED <<chain, gcHorizon, removed, overlay>>
    BY <1>12 DEF Logged, Publish, sweeping
  <2>2. \A j \in Key : ~ApplyShard(j)
    BY <2>1 DEF ApplyShard
  <2>. QED  BY <1>d, <2>1, <2>2
<1>13. CASE UNCHANGED vars
  <2>1. UNCHANGED <<chain, gcHorizon, removed, overlay>>
    BY <1>13 DEF Submit, Enqueue, Begin, Drop, Commit, Exec, Watch, vars, sweeping
  <2>2. \A j \in Key : ~ApplyShard(j)
    BY <2>1 DEF ApplyShard
  <2>. QED  BY <1>d, <2>1, <2>2
<1>. QED  BY <1>1, <1>2, <1>3, <1>4, <1>5, <1>6, <1>7, <1>7a, <1>7b, <1>8, <1>9, <1>10, <1>11,
             <1>12, <1>13 DEF Next, FlushStep

-----------------------------------------------------------------------------
\* The type invariant, part by part.
TypeNumbers == clock \in 0..MaxTs /\ visible \in 0..clock /\ top \in 0..clock
               /\ gcHorizon \in 0..visible
TypeChains ==
  /\ DOMAIN chain \subseteq Key
  /\ \A k \in DOMAIN chain :
       /\ chain[k].vs \in SUBSET Version /\ chain[k].vs # {}
       /\ chain[k].latest = Highest({v.ts : v \in chain[k].vs})
       /\ chain[k].pruned \in 0..clock /\ chain[k].first \in 0..clock
TypePending ==
  \A p \in {queue[i] : i \in DOMAIN queue} \cup {batch[i] : i \in DOMAIN batch} :
    p.ts \in 1..clock /\ p.who \in Client \cup {NoClient} /\ p.req \in Blind \cup Txn
    /\ p.snap \in 0..visible
TypeGroup ==
  /\ pc \in {"idle", "sweep", "resolve", "apply"}
  /\ DOMAIN overlay \subseteq Key /\ \A k \in DOMAIN overlay : overlay[k] \in Cell
  /\ \A i \in DOMAIN group : group[i].ts \in 1..top
TypeGraveyard == graveyard \cup ready \cup removed \subseteq [key : Key, ts : 1..MaxTs]
TypeClient ==
  client \in [Client -> [st : {"idle", "open", "waiting", "done", "watching"},
                        snap : 0..visible, key : SUBSET Key]]

\* The type invariant in parts, one for each group of variables.
LEMMA TypeParts == TypeOK <=> /\ TypeNumbers /\ TypeChains /\ TypePending
                              /\ TypeGroup /\ TypeGraveyard /\ TypeClient
BY DEF TypeOK, TypeNumbers, TypeChains, TypePending, TypeGroup, TypeGraveyard, TypeClient

\* Timestamps stay in their ranges.
LEMMA TypeNumbersStep ==
  ASSUME MInv, [Next]_vars
  PROVE  TypeNumbers'
<1>0. TypeOK /\ Shapes /\ Queued /\ TypeNumbers
  BY TypeParts DEF MInv
<1>a. /\ clock \in Nat /\ MaxTs \in Nat /\ visible \in Nat /\ top \in Nat /\ gcHorizon \in Nat
      /\ visible <= top /\ top <= clock /\ clock <= MaxTs /\ gcHorizon <= visible
  BY <1>0, Numbers, BoundAssumption DEF Queued
<1>1. ASSUME NEW r \in Blind, Submit(r)
      PROVE  TypeNumbers'
  BY <1>1, <1>0, <1>a DEF Submit, Enqueue, TypeNumbers
<1>2. ASSUME NEW c \in Client, Begin(c)
      PROVE  TypeNumbers'
  BY <1>2, <1>0, <1>a DEF Begin, TypeNumbers
<1>3. ASSUME NEW c \in Client, Drop(c)
      PROVE  TypeNumbers'
  BY <1>3, <1>0, <1>a DEF Drop, TypeNumbers
<1>4. ASSUME NEW c \in Client, NEW r \in Txn, Commit(c, r)
      PROVE  TypeNumbers'
  BY <1>4, <1>0, <1>a DEF Commit, Enqueue, TypeNumbers
<1>5. ASSUME NEW c \in Client, NEW r \in Txn, Exec(c, r)
      PROVE  TypeNumbers'
  BY <1>5, <1>0, <1>a DEF Exec, Enqueue, TypeNumbers
<1>6. ASSUME NEW c \in Client, NEW k \in Key, Watch(c, k)
      PROVE  TypeNumbers'
  BY <1>6, <1>0, <1>a DEF Watch, TypeNumbers
<1>7. CASE Drain
  <2>1. top' = queue[Len(queue)].ts /\ UNCHANGED <<clock, visible, gcHorizon>>
    BY <1>7 DEF Drain
  <2>2. Len(queue) \in DOMAIN queue
    BY <1>7, <1>0, Sequenced, EmptySeq DEF Drain, Shapes
  <2>3. queue[Len(queue)].ts \in 1..clock
    BY <1>0, <2>2 DEF TypeOK
  <2>. QED  BY <1>0, <1>a, <2>1, <2>3 DEF TypeNumbers
<1>7a. ASSUME NEW g \in ready, Bury(g)
      PROVE  TypeNumbers'
  BY <1>7a, <1>0, <1>a DEF Bury, TypeNumbers
<1>7b. CASE Raise
  BY <1>7b, <1>0, <1>a, RaiseIs DEF Raise, TypeNumbers
<1>8. CASE Resolve
  BY <1>8, <1>0, <1>a DEF Resolve, TypeNumbers
<1>9. CASE Logged
  BY <1>9, <1>0, <1>a DEF Logged, TypeNumbers
<1>10. CASE LogFails
  BY <1>10, <1>0, <1>a DEF LogFails, TypeNumbers
<1>11. ASSUME NEW k \in Key, ApplyShard(k)
      PROVE  TypeNumbers'
  BY <1>11, <1>0, <1>a DEF ApplyShard, TypeNumbers
<1>12. CASE Publish
  BY <1>12, <1>0, <1>a DEF Publish, TypeNumbers
<1>13. CASE UNCHANGED vars
  BY <1>13, <1>0, <1>a DEF vars, TypeNumbers
<1>. QED  BY <1>1, <1>2, <1>3, <1>4, <1>5, <1>6, <1>7, <1>7a, <1>7b, <1>8, <1>9, <1>10, <1>11, <1>12,
             <1>13 DEF Next, FlushStep

\* Chains keep their type.
LEMMA TypeChainsStep ==
  ASSUME MInv, [Next]_vars
  PROVE  TypeChains'
<1>0. TypeOK /\ Shapes /\ TypeChains
  BY TypeParts DEF MInv
<1>a. clock \in Nat
  BY <1>0, Numbers
<1>b. ASSUME chain' = chain, clock' = clock + 1
      PROVE  TypeChains'
  <2>1. 0..clock \subseteq 0..clock'
    BY <1>a, <1>b
  <2>. QED  BY <1>0, <1>b, <2>1 DEF TypeChains
<1>1. ASSUME NEW r \in Blind, Submit(r)
      PROVE  TypeChains'
  BY <1>1, <1>0, <1>b DEF Submit, Enqueue, TypeChains
<1>2. ASSUME NEW c \in Client, Begin(c)
      PROVE  TypeChains'
  BY <1>2, <1>0 DEF Begin, TypeChains
<1>3. ASSUME NEW c \in Client, Drop(c)
      PROVE  TypeChains'
  BY <1>3, <1>0 DEF Drop, TypeChains
<1>4. ASSUME NEW c \in Client, NEW r \in Txn, Commit(c, r)
      PROVE  TypeChains'
  BY <1>4, <1>0, <1>b DEF Commit, Enqueue, TypeChains
<1>5. ASSUME NEW c \in Client, NEW r \in Txn, Exec(c, r)
      PROVE  TypeChains'
  BY <1>5, <1>0, <1>b DEF Exec, Enqueue, TypeChains
<1>6. ASSUME NEW c \in Client, NEW k \in Key, Watch(c, k)
      PROVE  TypeChains'
  BY <1>6, <1>0 DEF Watch, TypeChains
<1>7. CASE Drain
  BY <1>7, <1>0 DEF Drain, TypeChains
<1>7a. ASSUME NEW g \in ready, Bury(g)
      PROVE  TypeChains'
  <2>1. DOMAIN chain' \subseteq DOMAIN chain /\ \A k \in DOMAIN chain' : chain'[k] = chain[k]
    BY <1>7a, BuryIs
  <2>2. clock' = clock
    BY <1>7a DEF Bury
  <2>. QED  BY <1>0, <2>1, <2>2 DEF TypeChains
<1>7b. CASE Raise
  BY <1>7b, <1>0 DEF Raise, TypeChains
<1>8. CASE Resolve
  BY <1>8, <1>0 DEF Resolve, TypeChains
<1>9. CASE Logged
  BY <1>9, <1>0 DEF Logged, TypeChains
<1>10. CASE LogFails
  BY <1>10, <1>0 DEF LogFails, TypeChains
<1>11. ASSUME NEW k \in Key, ApplyShard(k)
      PROVE  TypeChains'
  <2>1. DOMAIN chain' = DOMAIN chain \cup {k} /\ \A j \in DOMAIN chain \ {k} : chain'[j] = chain[j]
    BY <1>11 DEF ApplyShard
  <2>2. chain'[k] \in [vs : SUBSET Version, latest : 0..clock, pruned : 0..clock, first : 0..clock]
    BY <1>11, ShardIs
  <2>3. Present(chain'[k], Settled(k)', gcHorizon)
    BY <1>11, AppliedShard
  <2>4. PICK v \in chain'[k].vs : Newest(Settled(k)', v) /\ chain'[k].latest = v.ts
    BY <2>3 DEF Present
  <2>5. \A w \in chain'[k].vs : w.ts <= v.ts
    BY <2>3, <2>4 DEF Present, Newest
  <2>. DEFINE T == {w.ts : w \in chain'[k].vs}
  <2>6. T \in SUBSET Nat /\ v.ts \in T /\ \A t \in T : t <= v.ts
    BY <2>2, <2>4, <2>5 DEF Version
  <2>7. Highest(T) = v.ts
    <3>. HIDE DEF T
    <3>. QED  BY <2>6, HighestEquals
  <2>8. /\ chain'[k].vs \in SUBSET Version /\ chain'[k].vs # {}
           /\ chain'[k].latest = Highest({w.ts : w \in chain'[k].vs})
        /\ chain'[k].pruned \in 0..clock /\ chain'[k].first \in 0..clock
    BY <2>2, <2>4, <2>7
  <2>9. clock' = clock
    BY <1>11 DEF ApplyShard
  <2>. QED  BY <1>0, <2>1, <2>8, <2>9 DEF TypeChains
<1>12. CASE Publish
  BY <1>12, <1>0 DEF Publish, TypeChains
<1>13. CASE UNCHANGED vars
  BY <1>13, <1>0 DEF vars, TypeChains
<1>. QED  BY <1>1, <1>2, <1>3, <1>4, <1>5, <1>6, <1>7, <1>7a, <1>7b, <1>8, <1>9, <1>10, <1>11, <1>12,
             <1>13 DEF Next, FlushStep

\* Queued commits keep their type.
LEMMA TypePendingStep ==
  ASSUME MInv, [Next]_vars
  PROVE  TypePending'
<1>0. TypeOK /\ Shapes /\ Queued /\ TypePending
  BY TypeParts DEF MInv
<1>a. clock \in Nat /\ visible \in Nat /\ top \in Nat /\ visible <= top
  BY <1>0, Numbers DEF Queued
<1>1. ASSUME NEW r \in Blind, Submit(r)
      PROVE  TypePending'
  <2>1. NoClient \in Client \cup {NoClient} /\ r \in Blind \cup Txn /\ 0 \in 0..visible
    BY <1>0, <1>a DEF TypeOK
  <2>2. Enqueue(NoClient, r, 0)
    BY <1>1 DEF Submit
  <2>3. /\ DOMAIN queue = 1..Len(queue) /\ Len(queue) \in Nat /\ DOMAIN queue' = 1..Len(queue) + 1
        /\ \A i \in DOMAIN queue : queue'[i] = queue[i]
        /\ queue'[Len(queue) + 1] = PendingOf(NoClient, r, 0)
        /\ clock' = clock + 1
    BY <2>1, <2>2, EnqueueIs
  <2>4. batch' = batch /\ visible' = visible
    BY <2>2 DEF Enqueue
  <2>5. ASSUME NEW i \in DOMAIN queue'
        PROVE  (i \in DOMAIN queue /\ queue'[i] = queue[i]) \/ i = Len(queue) + 1
    BY <2>3
  <2>6. ASSUME NEW p \in {queue'[i] : i \in DOMAIN queue'} \cup {batch'[i] : i \in DOMAIN batch'}
        PROVE  p \in {queue[i] : i \in DOMAIN queue} \cup {batch[i] : i \in DOMAIN batch}
               \/ p = PendingOf(NoClient, r, 0)
    BY <2>3, <2>4, <2>5
  <2>7. \A p \in {queue[i] : i \in DOMAIN queue} \cup {batch[i] : i \in DOMAIN batch} :
          /\ p.ts \in 1..clock' /\ p.who \in Client \cup {NoClient}
          /\ p.req \in Blind \cup Txn /\ p.snap \in 0..visible'
    BY <1>0, <1>a, <2>3, <2>4 DEF TypePending
  <2>8. \A p : p = PendingOf(NoClient, r, 0) =>
          /\ p.ts \in 1..clock' /\ p.who \in Client \cup {NoClient}
          /\ p.req \in Blind \cup Txn /\ p.snap \in 0..visible'
    BY <1>0, <1>a, <2>1, <2>3, <2>4 DEF PendingOf
  <2>. QED  BY <2>6, <2>7, <2>8 DEF TypePending
<1>2. ASSUME NEW c \in Client, Begin(c)
      PROVE  TypePending'
  BY <1>2, <1>0 DEF Begin, TypePending
<1>3. ASSUME NEW c \in Client, Drop(c)
      PROVE  TypePending'
  BY <1>3, <1>0 DEF Drop, TypePending
<1>4. ASSUME NEW c \in Client, NEW r \in Txn, Commit(c, r)
      PROVE  TypePending'
  <2>1. c \in Client \cup {NoClient} /\ r \in Blind \cup Txn /\ client[c].snap \in 0..visible
    BY <1>0, <1>a DEF TypeOK
  <2>2. Enqueue(c, r, client[c].snap)
    BY <1>4 DEF Commit
  <2>3. /\ DOMAIN queue = 1..Len(queue) /\ Len(queue) \in Nat /\ DOMAIN queue' = 1..Len(queue) + 1
        /\ \A i \in DOMAIN queue : queue'[i] = queue[i]
        /\ queue'[Len(queue) + 1] = PendingOf(c, r, client[c].snap)
        /\ clock' = clock + 1
    BY <2>1, <2>2, EnqueueIs
  <2>4. batch' = batch /\ visible' = visible
    BY <2>2 DEF Enqueue
  <2>5. ASSUME NEW i \in DOMAIN queue'
        PROVE  (i \in DOMAIN queue /\ queue'[i] = queue[i]) \/ i = Len(queue) + 1
    BY <2>3
  <2>6. ASSUME NEW p \in {queue'[i] : i \in DOMAIN queue'} \cup {batch'[i] : i \in DOMAIN batch'}
        PROVE  p \in {queue[i] : i \in DOMAIN queue} \cup {batch[i] : i \in DOMAIN batch}
               \/ p = PendingOf(c, r, client[c].snap)
    BY <2>3, <2>4, <2>5
  <2>7. \A p \in {queue[i] : i \in DOMAIN queue} \cup {batch[i] : i \in DOMAIN batch} :
          /\ p.ts \in 1..clock' /\ p.who \in Client \cup {NoClient}
          /\ p.req \in Blind \cup Txn /\ p.snap \in 0..visible'
    BY <1>0, <1>a, <2>3, <2>4 DEF TypePending
  <2>8. \A p : p = PendingOf(c, r, client[c].snap) =>
          /\ p.ts \in 1..clock' /\ p.who \in Client \cup {NoClient}
          /\ p.req \in Blind \cup Txn /\ p.snap \in 0..visible'
    BY <1>0, <1>a, <2>1, <2>3, <2>4 DEF PendingOf
  <2>. QED  BY <2>6, <2>7, <2>8 DEF TypePending
<1>5. ASSUME NEW c \in Client, NEW r \in Txn, Exec(c, r)
      PROVE  TypePending'
  <2>1. NoClient \in Client \cup {NoClient} /\ r \in Blind \cup Txn /\ client[c].snap \in 0..visible
    BY <1>0, <1>a DEF TypeOK
  <2>2. Enqueue(NoClient, r, client[c].snap)
    BY <1>5 DEF Exec
  <2>3. /\ DOMAIN queue = 1..Len(queue) /\ Len(queue) \in Nat /\ DOMAIN queue' = 1..Len(queue) + 1
        /\ \A i \in DOMAIN queue : queue'[i] = queue[i]
        /\ queue'[Len(queue) + 1] = PendingOf(NoClient, r, client[c].snap)
        /\ clock' = clock + 1
    BY <2>1, <2>2, EnqueueIs
  <2>4. batch' = batch /\ visible' = visible
    BY <2>2 DEF Enqueue
  <2>5. ASSUME NEW i \in DOMAIN queue'
        PROVE  (i \in DOMAIN queue /\ queue'[i] = queue[i]) \/ i = Len(queue) + 1
    BY <2>3
  <2>6. ASSUME NEW p \in {queue'[i] : i \in DOMAIN queue'} \cup {batch'[i] : i \in DOMAIN batch'}
        PROVE  p \in {queue[i] : i \in DOMAIN queue} \cup {batch[i] : i \in DOMAIN batch}
               \/ p = PendingOf(NoClient, r, client[c].snap)
    BY <2>3, <2>4, <2>5
  <2>7. \A p \in {queue[i] : i \in DOMAIN queue} \cup {batch[i] : i \in DOMAIN batch} :
          /\ p.ts \in 1..clock' /\ p.who \in Client \cup {NoClient}
          /\ p.req \in Blind \cup Txn /\ p.snap \in 0..visible'
    BY <1>0, <1>a, <2>3, <2>4 DEF TypePending
  <2>8. \A p : p = PendingOf(NoClient, r, client[c].snap) =>
          /\ p.ts \in 1..clock' /\ p.who \in Client \cup {NoClient}
          /\ p.req \in Blind \cup Txn /\ p.snap \in 0..visible'
    BY <1>0, <1>a, <2>1, <2>3, <2>4 DEF PendingOf
  <2>. QED  BY <2>6, <2>7, <2>8 DEF TypePending
<1>6. ASSUME NEW c \in Client, NEW k \in Key, Watch(c, k)
      PROVE  TypePending'
  BY <1>6, <1>0 DEF Watch, TypePending
<1>7. CASE Drain
  BY <1>7, <1>0 DEF Drain, TypePending
<1>7a. ASSUME NEW g \in ready, Bury(g)
      PROVE  TypePending'
  BY <1>7a, <1>0 DEF Bury, TypePending
<1>7b. CASE Raise
  BY <1>7b, <1>0 DEF Raise, TypePending
<1>8. CASE Resolve
  <2>1. \A i \in DOMAIN batch' : i + 1 \in DOMAIN batch /\ batch'[i] = batch[i + 1]
    BY <1>8, ResolveIs, TailIs
  <2>. QED  BY <1>8, <1>0, <2>1 DEF Resolve, TypePending
<1>9. CASE Logged
  BY <1>9, <1>0 DEF Logged, TypePending
<1>10. CASE LogFails
  BY <1>10, <1>0 DEF LogFails, TypePending
<1>11. ASSUME NEW k \in Key, ApplyShard(k)
      PROVE  TypePending'
  BY <1>11, <1>0 DEF ApplyShard, TypePending
<1>12. CASE Publish
  BY <1>12, <1>0, <1>a DEF Publish, TypePending
<1>13. CASE UNCHANGED vars
  BY <1>13, <1>0 DEF vars, TypePending
<1>. QED  BY <1>1, <1>2, <1>3, <1>4, <1>5, <1>6, <1>7, <1>7a, <1>7b, <1>8, <1>9, <1>10, <1>11, <1>12,
             <1>13 DEF Next, FlushStep

\* The group and its overlay keep their type.
LEMMA TypeGroupStep ==
  ASSUME MInv, [Next]_vars
  PROVE  TypeGroup'
<1>0. TypeOK /\ Shapes /\ TypeGroup
  BY TypeParts DEF MInv
<1>1a. Shapes' /\ Serials' /\ TypeNumbers'
  BY ShapesStep, SerialsStep, TypeNumbersStep
<1>b. \A k \in DOMAIN overlay' : overlay'[k] \in Cell
  BY <1>1a DEF Shapes
<1>c. \A i \in DOMAIN group' : group'[i].ts \in 1..top'
  <2>1. /\ DOMAIN group' = 1..Len(group') /\ Len(group') \in Nat /\ DOMAIN hist' = 1..Len(hist')
           /\ Len(hist') \in Nat
        /\ \A i \in DOMAIN hist' : hist'[i] \in Entered
    BY <1>1a, LenProperties, ElementOfSeq DEF Shapes
  <2>2. \A i \in DOMAIN group' : Ahead' + i \in DOMAIN hist'
    BY <1>1a, <2>1 DEF Serials, Ahead
  <2>3. \A i \in DOMAIN hist' : hist'[i].ts \in Nat
    BY <2>1 DEF Entered
  <2>4. top' \in Nat
    BY <1>1a, BoundAssumption DEF TypeNumbers
  <2>. QED  BY <1>1a, <2>2, <2>3, <2>4 DEF Serials
<1>1. ASSUME NEW r \in Blind, Submit(r)
      PROVE  TypeGroup'
  BY <1>1, <1>0, <1>b, <1>c DEF Submit, Enqueue, TypeGroup
<1>2. ASSUME NEW c \in Client, Begin(c)
      PROVE  TypeGroup'
  BY <1>2, <1>0, <1>b, <1>c DEF Begin, TypeGroup
<1>3. ASSUME NEW c \in Client, Drop(c)
      PROVE  TypeGroup'
  BY <1>3, <1>0, <1>b, <1>c DEF Drop, TypeGroup
<1>4. ASSUME NEW c \in Client, NEW r \in Txn, Commit(c, r)
      PROVE  TypeGroup'
  BY <1>4, <1>0, <1>b, <1>c DEF Commit, Enqueue, TypeGroup
<1>5. ASSUME NEW c \in Client, NEW r \in Txn, Exec(c, r)
      PROVE  TypeGroup'
  BY <1>5, <1>0, <1>b, <1>c DEF Exec, Enqueue, TypeGroup
<1>6. ASSUME NEW c \in Client, NEW k \in Key, Watch(c, k)
      PROVE  TypeGroup'
  BY <1>6, <1>0, <1>b, <1>c DEF Watch, TypeGroup
<1>7. CASE Drain
  BY <1>7, <1>0, <1>b, <1>c DEF Drain, TypeGroup
<1>7a. ASSUME NEW g \in ready, Bury(g)
      PROVE  TypeGroup'
  BY <1>7a, <1>0, <1>b, <1>c DEF Bury, TypeGroup
<1>7b. CASE Raise
  BY <1>7b, <1>0, <1>b, <1>c DEF Raise, TypeGroup
<1>8. CASE Resolve
  <2>1. DOMAIN overlay' \subseteq Key
    <3>1. CASE ~Applies(batch[1])
      BY <1>8, <1>0, <3>1, ResolveIs DEF TypeGroup
    <3>2. CASE Applies(batch[1])
      <4>1. batch[1] \in Pending
        BY <1>8, ResolveIs, TailIs
      <4>2. DOMAIN Cells(batch[1]) \subseteq Key
        BY <3>2, <4>1, CellsType DEF Applies
      <4>. QED  BY <1>8, <1>0, <3>2, <4>2, ResolveIs DEF TypeGroup
    <3>. QED  BY <3>1, <3>2
  <2>2. pc' = pc
    BY <1>8 DEF Resolve
  <2>. QED  BY <1>0, <1>b, <1>c, <2>1, <2>2 DEF TypeGroup
<1>9. CASE Logged
  BY <1>9, <1>0, <1>b, <1>c DEF Logged, TypeGroup
<1>10. CASE LogFails
  BY <1>10, <1>0, <1>b, <1>c DEF LogFails, TypeGroup
<1>11. ASSUME NEW k \in Key, ApplyShard(k)
      PROVE  TypeGroup'
  BY <1>11, <1>0, <1>b, <1>c DEF ApplyShard, TypeGroup
<1>12. CASE Publish
  BY <1>12, <1>0, <1>b, <1>c DEF Publish, TypeGroup
<1>13. CASE UNCHANGED vars
  BY <1>13, <1>0, <1>b, <1>c DEF vars, TypeGroup
<1>. QED  BY <1>1, <1>2, <1>3, <1>4, <1>5, <1>6, <1>7, <1>7a, <1>7b, <1>8, <1>9, <1>10, <1>11, <1>12,
             <1>13 DEF Next, FlushStep

\* The graveyard and what a sweep took from it keep their type.
LEMMA TypeGraveyardStep ==
  ASSUME MInv, [Next]_vars
  PROVE  TypeGraveyard'
<1>0. TypeOK /\ Shapes /\ Serials /\ TypeGraveyard
  BY TypeParts DEF MInv
<1>1. ASSUME NEW r \in Blind, Submit(r)
      PROVE  TypeGraveyard'
  BY <1>1, <1>0 DEF Submit, Enqueue, TypeGraveyard, sweeping
<1>2. ASSUME NEW c \in Client, Begin(c)
      PROVE  TypeGraveyard'
  BY <1>2, <1>0 DEF Begin, TypeGraveyard, sweeping
<1>3. ASSUME NEW c \in Client, Drop(c)
      PROVE  TypeGraveyard'
  BY <1>3, <1>0 DEF Drop, TypeGraveyard, sweeping
<1>4. ASSUME NEW c \in Client, NEW r \in Txn, Commit(c, r)
      PROVE  TypeGraveyard'
  BY <1>4, <1>0 DEF Commit, Enqueue, TypeGraveyard, sweeping
<1>5. ASSUME NEW c \in Client, NEW r \in Txn, Exec(c, r)
      PROVE  TypeGraveyard'
  BY <1>5, <1>0 DEF Exec, Enqueue, TypeGraveyard, sweeping
<1>6. ASSUME NEW c \in Client, NEW k \in Key, Watch(c, k)
      PROVE  TypeGraveyard'
  BY <1>6, <1>0 DEF Watch, TypeGraveyard, sweeping
<1>7. CASE Drain
  BY <1>7, <1>0 DEF Drain, TypeGraveyard, Collect, Buried
<1>7a. ASSUME NEW g \in ready, Bury(g)
      PROVE  TypeGraveyard'
  <2>1. removed' \subseteq removed \cup ready /\ ready' = ready \ {g} /\ graveyard' = graveyard
    BY <1>7a, BuryIs DEF Bury
  <2>. QED  BY <1>0, <2>1 DEF TypeGraveyard
<1>7b. CASE Raise
  BY <1>7b, <1>0 DEF Raise, TypeGraveyard
<1>8. CASE Resolve
  BY <1>8, <1>0 DEF Resolve, TypeGraveyard, sweeping
<1>9. CASE Logged
  BY <1>9, <1>0 DEF Logged, TypeGraveyard, sweeping
<1>10. CASE LogFails
  BY <1>10, <1>0 DEF LogFails, TypeGraveyard, sweeping
<1>11. ASSUME NEW k \in Key, ApplyShard(k)
      PROVE  TypeGraveyard'
  <2>1. \A v \in Past(group, k) : v.ts \in 1..MaxTs
    <3>1. top \in Nat /\ top <= MaxTs /\ MaxTs \in Nat
      BY <1>0, Numbers, BoundAssumption
    <3>. QED  BY <1>0, <3>1, GroupPast
  <2>2. graveyard' = graveyard
        \cup {[key |-> k, ts |-> v.ts] : v \in {w \in Past(group, k) : ~w.live}}
    BY <1>11, NewVersionsArePast DEF ApplyShard
  <2>3. UNCHANGED <<ready, removed>>
    BY <1>11 DEF ApplyShard, sweeping
  <2>. QED  BY <1>0, <2>1, <2>2, <2>3 DEF TypeGraveyard
<1>12. CASE Publish
  BY <1>12, <1>0 DEF Publish, TypeGraveyard, sweeping
<1>13. CASE UNCHANGED vars
  BY <1>13, <1>0 DEF vars, TypeGraveyard, sweeping
<1>. QED  BY <1>1, <1>2, <1>3, <1>4, <1>5, <1>6, <1>7, <1>7a, <1>7b, <1>8, <1>9, <1>10, <1>11, <1>12,
             <1>13 DEF Next, FlushStep

\* Clients keep their type.
LEMMA TypeClientStep ==
  ASSUME MInv, [Next]_vars
  PROVE  TypeClient'
<1>0. TypeOK /\ Queued /\ TypeClient
  BY TypeParts DEF MInv
<1>a. visible \in Nat /\ top \in Nat /\ visible <= top
  BY <1>0, Numbers DEF Queued
<1>1. ASSUME NEW r \in Blind, Submit(r)
      PROVE  TypeClient'
  BY <1>1, <1>0, <1>a DEF Submit, Enqueue, TypeClient
<1>2. ASSUME NEW c \in Client, Begin(c)
      PROVE  TypeClient'
  BY <1>2, <1>0, <1>a DEF Begin, TypeClient
<1>3. ASSUME NEW c \in Client, Drop(c)
      PROVE  TypeClient'
  BY <1>3, <1>0, <1>a DEF Drop, TypeClient
<1>4. ASSUME NEW c \in Client, NEW r \in Txn, Commit(c, r)
      PROVE  TypeClient'
  BY <1>4, <1>0, <1>a DEF Commit, Enqueue, TypeClient
<1>5. ASSUME NEW c \in Client, NEW r \in Txn, Exec(c, r)
      PROVE  TypeClient'
  BY <1>5, <1>0, <1>a DEF Exec, Enqueue, TypeClient
<1>6. ASSUME NEW c \in Client, NEW k \in Key, Watch(c, k)
      PROVE  TypeClient'
  BY <1>6, <1>0, <1>a DEF Watch, TypeClient
<1>7. CASE Drain
  BY <1>7, <1>0, <1>a DEF Drain, TypeClient
<1>7a. ASSUME NEW g \in ready, Bury(g)
      PROVE  TypeClient'
  BY <1>7a, <1>0, <1>a DEF Bury, TypeClient
<1>7b. CASE Raise
  BY <1>7b, <1>0, <1>a DEF Raise, TypeClient
<1>8. CASE Resolve
  BY <1>8, <1>0, <1>a DEF Resolve, TypeClient
<1>9. CASE Logged
  BY <1>9, <1>0, <1>a DEF Logged, TypeClient
<1>10. CASE LogFails
  BY <1>10, <1>0, <1>a DEF LogFails, TypeClient
<1>11. ASSUME NEW k \in Key, ApplyShard(k)
      PROVE  TypeClient'
  BY <1>11, <1>0, <1>a DEF ApplyShard, TypeClient
<1>12. CASE Publish
  <2>1. \A c \in Client : client'[c] = client[c] \/ client'[c] = [client[c] EXCEPT !.st = "done"]
    BY <1>12 DEF Publish
  <2>2. client' = [c \in Client |-> client'[c]] /\ visible' = top
    BY <1>12 DEF Publish
  <2>3. 0..visible \subseteq 0..top
    BY <1>a
  <2>4. \A c \in Client : client'[c] \in [st : {"idle", "open", "waiting", "done", "watching"},
        snap : 0..visible, key : SUBSET Key]
    BY <1>0, <2>1 DEF TypeClient
  <2>5. \A c \in Client : client'[c] \in [st : {"idle", "open", "waiting", "done", "watching"},
        snap : 0..visible', key : SUBSET Key]
    BY <2>2, <2>3, <2>4
  <2>. QED  BY <2>2, <2>5 DEF TypeClient
<1>13. CASE UNCHANGED vars
  BY <1>13, <1>0, <1>a DEF vars, TypeClient
<1>. QED  BY <1>1, <1>2, <1>3, <1>4, <1>5, <1>6, <1>7, <1>7a, <1>7b, <1>8, <1>9, <1>10, <1>11, <1>12,
             <1>13 DEF Next, FlushStep

\* The invariant holds in the empty engine ...
LEMMA MInvInit == ASSUME Init PROVE MInv
<1>1. DOMAIN <<>> = {} /\ Len(<<>>) = 0 /\ \A S : <<>> \in Seq(S)
  BY EmptySeq
<1>2. TypeOK
  <2>1. TypeNumbers /\ TypeChains /\ TypePending /\ TypeGroup /\ TypeGraveyard /\ TypeClient
    BY <1>1, BoundAssumption DEF Init, TypeNumbers, TypeChains, TypePending, TypeGroup,
       TypeGraveyard, TypeClient
  <2>. QED  BY <2>1, TypeParts
<1>3. Shapes
  BY <1>1 DEF Init, Shapes
<1>4. Queued /\ Waits
  BY <1>1 DEF Init, Queued, Waits, Ordered
<1>5. Serials /\ Overlaid
  BY <1>1 DEF Init, Serials, Overlaid, Ordered, Ahead, Past
<1>6. Chains
  BY <1>1 DEF Init, Chains, Absent, Settled, UpTo, Past, Newest
<1>7. Sweeping
  BY DEF Init, Sweeping
<1>. QED  BY <1>2, <1>3, <1>4, <1>5, <1>6, <1>7 DEF MInv

\* ... and every step preserves it.
LEMMA MInvStep == ASSUME MInv, [Next]_vars PROVE MInv'
<1>1. TypeNumbers' /\ TypeChains' /\ TypePending' /\ TypeGroup' /\ TypeGraveyard' /\ TypeClient'
  BY TypeNumbersStep, TypeChainsStep, TypePendingStep, TypeGroupStep, TypeGraveyardStep,
     TypeClientStep
<1>2. TypeOK'
  BY <1>1, TypeParts DEF TypeOK, TypeNumbers, TypeChains, TypePending, TypeGroup, TypeGraveyard,
     TypeClient
<1>. QED  BY <1>2, ShapesStep, QueuedStep, SerialsStep, OverlaidStep, WaitsStep, SweepingStep,
             ChainsStep DEF MInv

\* Version chains, overlay, queue and history stay consistent with each other:
\* the invariant the properties below rest on.
THEOREM MvccInvariance == Spec => []MInv
<1>1. Init => MInv
  BY MInvInit
<1>2. MInv /\ [Next]_vars => MInv'
  BY MInvStep
<1>. QED  BY <1>1, <1>2, PTL DEF Spec

\* Every variable has its type.
THEOREM TypeCorrect == Spec => []TypeOK
<1>1. MInv => TypeOK
  BY DEF MInv
<1>. QED  BY <1>1, MvccInvariance, PTL

-----------------------------------------------------------------------------
(***************************************************************************)
(* The store of the serial history: what is the last write to a key.       *)
(***************************************************************************)
LastCell(P) == IF P = {} THEN Nothing ELSE CellOf(CHOOSE v \in P : Newest(P, v))

\* What the first m commits of h wrote to k.
PastTo(h, m, k) == {VersionOf(h[i], k) : i \in {j \in 1..m : k \in DOMAIN h[j].cells}}

\* A history is a sequence of commits with timestamps and cells.
LEMMA EnteredSeq ==
  ASSUME NEW h \in Seq(Entered)
  PROVE  /\ DOMAIN h = 1..Len(h) /\ Len(h) \in Nat
         /\ \A i \in DOMAIN h : h[i].ts \in Nat /\ h[i].cells \in CellsOf
<1>1. DOMAIN h = 1..Len(h) /\ Len(h) \in Nat /\ \A i \in DOMAIN h : h[i] \in Entered
  BY LenProperties, ElementOfSeq
<1>. QED  BY <1>1 DEF Entered

\* The last cell of a history is that of its newest version.
LEMMA LastCellIs ==
  ASSUME NEW P, Versioned(P), NEW v, Newest(P, v)
  PROVE  LastCell(P) = CellOf(v)
<1>. DEFINE u == CHOOSE w \in P : Newest(P, w)
<1>1. v \in P
  BY DEF Newest
<1>2. u \in P /\ Newest(P, u)
  BY <1>1
<1>3. u.ts = v.ts
  BY <1>1, <1>2 DEF Newest, Versioned, Version
<1>4. u = v
  BY <1>1, <1>2, <1>3 DEF Versioned
<1>. QED  BY <1>1, <1>4 DEF LastCell

\* A read at a snapshot is the last write before it.
LEMMA ReadIsLast ==
  ASSUME NEW P, Versioned(P), NEW s \in Nat
  PROVE  ReadAt(P, s) = LastCell(UpTo(P, s))
<1>1. CASE UpTo(P, s) = {}
  <2>1. \A w \in P : ~(w.ts <= s)
    BY <1>1 DEF UpTo
  <2>. QED  BY <1>1, <2>1, ReadAtNone DEF LastCell
<1>2. CASE UpTo(P, s) # {}
  <2>1. PICK v0 \in P : v0.ts <= s
    BY <1>2 DEF UpTo
  <2>2. PICK v \in P : Newest(UpTo(P, s), v)
    BY <2>1, NewestUpTo DEF Versioned
  <2>3. Versioned(UpTo(P, s))
    BY VersionedSubset DEF UpTo
  <2>. QED  BY <2>2, <2>3, ReadAtNewest, LastCellIs
<1>. QED  BY <1>1, <1>2

\* The prefixes of an ordered history are versioned and have a newest version.
LEMMA PastToIs ==
  ASSUME NEW h \in Seq(Entered), Ordered(h), NEW m \in 0..Len(h), NEW k
  PROVE  /\ Versioned(PastTo(h, m, k)) /\ PastTo(h, m, k) \subseteq Past(h, k)
         /\ PastTo(h, Len(h), k) = Past(h, k)
         /\ PastTo(h, m, k) # {} =>
              \E i \in 1..m : k \in DOMAIN h[i].cells /\ Newest(PastTo(h, m, k), VersionOf(h[i], k))
<1>1. DOMAIN h = 1..Len(h) /\ Len(h) \in Nat
  BY EnteredSeq
<1>2. \A i \in DOMAIN h : h[i].ts \in Nat /\ h[i].cells \in CellsOf
  BY EnteredSeq
<1>3. Versioned(Past(h, k))
  BY <1>1, <1>2, PastVersioned
<1>4. PastTo(h, m, k) \subseteq Past(h, k) /\ PastTo(h, Len(h), k) = Past(h, k)
  BY <1>1 DEF Past, PastTo
<1>5. ASSUME NEW v0 \in PastTo(h, m, k)
      PROVE  \E i \in 1..m : k \in DOMAIN h[i].cells /\ Newest(PastTo(h, m, k), VersionOf(h[i], k))
  <2>. DEFINE J == {j \in 1..m : k \in DOMAIN h[j].cells}
  <2>1. J \in SUBSET (0..Len(h)) /\ J # {}
    BY <1>1 DEF PastTo
  <2>2. PICK i \in J : \A j \in J : j <= i
    <3>. HIDE DEF J
    <3>. QED  BY <1>1, <2>1, LargestNumber
  <2>3. \A j \in J : h[j].ts <= h[i].ts
    BY <1>1, <1>2, <2>2 DEF Ordered
  <2>4. \A j : VersionOf(h[j], k).ts = h[j].ts
    BY DEF VersionOf
  <2>. QED  BY <2>2, <2>3, <2>4 DEF PastTo, Newest
<1>. QED  BY <1>3, <1>4, <1>5, VersionedSubset

\* The store after some commits holds the last write to each key.
LEMMA AfterIsLast ==
  ASSUME NEW h \in Seq(Entered), Ordered(h), NEW m \in 0..Len(h), NEW k \in Key
  PROVE  Serial!After(h, m)[k] = LastCell(PastTo(h, m, k))
<1>. DEFINE W(j) == j \in 1..m /\ k \in DOMAIN h[j].cells
                    /\ \A i \in j+1..m : k \notin DOMAIN h[i].cells
            x == CHOOSE j \in 1..m : /\ k \in DOMAIN h[j].cells
                                     /\ \A i \in j+1..m : k \notin DOMAIN h[i].cells
<1>0. DOMAIN h = 1..Len(h) /\ Len(h) \in Nat /\ \A i \in DOMAIN h : h[i].ts \in Nat
      /\ h[i].cells \in CellsOf
  BY EnteredSeq
<1>1. Serial!After(h, m)[k] = IF \E j \in 1..m : k \in DOMAIN h[j].cells THEN h[x].cells[k] ELSE Nothing
  BY DEF Serial!After, Serial!Nothing, Nothing
<1>2. CASE PastTo(h, m, k) = {}
  BY <1>1, <1>2 DEF PastTo, LastCell
<1>3. CASE PastTo(h, m, k) # {}
  <2>1. PICK i \in 1..m : k \in DOMAIN h[i].cells /\ Newest(PastTo(h, m, k), VersionOf(h[i], k))
    BY <1>3, PastToIs
  <2>2. \A j \in 1..m : k \in DOMAIN h[j].cells => h[j].ts <= h[i].ts
    <3>1. \A j : VersionOf(h[j], k).ts = h[j].ts
      BY DEF VersionOf
    <3>. QED  BY <2>1, <3>1 DEF PastTo, Newest
  <2>3. \A j \in 1..m : k \in DOMAIN h[j].cells => j <= i
    BY <1>0, <2>1, <2>2 DEF Ordered
  <2>4. W(i)
    BY <1>0, <2>1, <2>3
  <2>5. x \in 1..m /\ k \in DOMAIN h[x].cells /\ \A j \in x+1..m : k \notin DOMAIN h[j].cells
    BY <2>4
  <2>. HIDE DEF x
  <2>6. x = i
    BY <1>0, <2>1, <2>3, <2>5
  <2>7. i \in DOMAIN h
    BY <1>0
  <2>8. LastCell(PastTo(h, m, k)) = CellOf(VersionOf(h[i], k))
    BY <2>1, PastToIs, LastCellIs
  <2>9. CellOf(VersionOf(h[i], k)) = h[i].cells[k]
    BY <1>0, <2>1, <2>7, VersionOfType
  <2>. QED  BY <1>1, <2>1, <2>6, <2>8, <2>9
<1>. QED  BY <1>2, <1>3

\* The commits up to a timestamp are a prefix of the history.
LEMMA CountUpTo ==
  ASSUME NEW h \in Seq(Entered), Ordered(h), NEW s \in Nat
  PROVE  LET m == Cardinality({i \in DOMAIN h : h[i].ts <= s})
         IN  m \in 0..Len(h) /\ \A i \in DOMAIN h : h[i].ts <= s <=> i <= m
<1>. DEFINE T == {i \in DOMAIN h : h[i].ts <= s}
<1>0. DOMAIN h = 1..Len(h) /\ Len(h) \in Nat /\ \A i \in DOMAIN h : h[i].ts \in Nat
  BY EnteredSeq
<1>1. \E m \in 0..Len(h) : T = 1..m
  <2>1. CASE T = {}
    BY <1>0, <2>1
  <2>2. CASE T # {}
    <3>1. T \in SUBSET (0..Len(h))
      BY <1>0
    <3>2. PICK m \in T : \A n \in T : n <= m
      <4>. HIDE DEF T
      <4>. QED  BY <1>0, <2>2, <3>1, LargestNumber
    <3>3. \A i \in 1..m : i \in T
      BY <1>0, <3>2 DEF Ordered
    <3>4. T = 1..m
      BY <1>0, <3>2, <3>3
    <3>. QED  BY <1>0, <3>2, <3>4
  <2>. QED  BY <2>1, <2>2
<1>2. PICK m \in 0..Len(h) : T = 1..m
  BY <1>1
<1>3. Cardinality(T) = m
  <2>. HIDE DEF T
  <2>. QED  BY <1>0, <1>2, FS_Interval
<1>4. \A i \in DOMAIN h : h[i].ts <= s <=> i <= m
  BY <1>0, <1>2
<1>. QED  BY <1>3, <1>4

\* The store at a timestamp is what a complete history reads there.
LEMMA StoreAtIs ==
  ASSUME NEW h \in Seq(Entered), Ordered(h), NEW s \in Nat, NEW k \in Key
  PROVE  Serial!After(h, Cardinality({i \in DOMAIN h : h[i].ts <= s}))[k] = ReadAt(Past(h, k), s)
<1>. DEFINE m == Cardinality({i \in DOMAIN h : h[i].ts <= s})
<1>0. DOMAIN h = 1..Len(h) /\ Len(h) \in Nat /\ \A i \in DOMAIN h : h[i].ts \in Nat
      /\ h[i].cells \in CellsOf
  BY EnteredSeq
<1>1. m \in 0..Len(h) /\ \A i \in DOMAIN h : h[i].ts <= s <=> i <= m
  BY CountUpTo
<1>. HIDE DEF m
<1>2. \A j : VersionOf(h[j], k).ts = h[j].ts
  BY DEF VersionOf
<1>3. PastTo(h, m, k) = UpTo(Past(h, k), s)
  <2>1. \A i : i \in 1..m <=> i \in DOMAIN h /\ h[i].ts <= s
    BY <1>0, <1>1
  <2>2. \A v : v \in PastTo(h, m, k) <=> v \in UpTo(Past(h, k), s)
    BY <1>2, <2>1 DEF PastTo, UpTo, Past
  <2>. QED  BY <2>2
<1>4. Versioned(Past(h, k))
  BY <1>0, PastVersioned
<1>5. Serial!After(h, m)[k] = ReadAt(Past(h, k), s)
  BY <1>1, <1>3, <1>4, AfterIsLast, ReadIsLast
<1>. QED  BY <1>5 DEF m

\* The last write to a key, whether the overlay, the chain or nothing has it.
LEMMA CounterIsLast ==
  ASSUME MInv, pc = "resolve", NEW k \in Key
  PROVE  /\ Counter(k) = LastCell(Past(hist, k))
         /\ k \notin DOMAIN overlay =>
              /\ \A v \in Past(hist, k) : v.ts <= visible
              /\ k \in DOMAIN chain => \A v \in Past(hist, k) : v.ts <= LatestTs(k)
              /\ k \notin DOMAIN chain => \A v \in Past(hist, k), s \in Active : v.ts <= s
              /\ k \notin DOMAIN chain => LastCell(Past(hist, k)) = Nothing
<1>0. TypeOK /\ Shapes /\ Serials /\ Overlaid /\ Chains /\ visible \in Nat /\ top \in Nat
  BY Numbers DEF MInv
<1>1. /\ Versioned(Past(hist, k)) /\ Past(group, k) \subseteq Past(hist, k)
      /\ \A v \in Past(hist, k) : v.ts \in Nat /\ v.ts <= top
         /\ (v \in Past(group, k) <=> v.ts > visible)
  BY <1>0, HistoryVersioned, GroupPast
<1>2. CASE k \in DOMAIN overlay
  <2>1. PICK v \in Past(group, k) : Newest(Past(group, k), v) /\ overlay[k] = CellOf(v)
    BY <1>0, <1>2 DEF Overlaid
  <2>2. Newest(Past(hist, k), v)
    BY <1>0, <1>1, <2>1 DEF Newest
  <2>. QED  BY <1>1, <1>2, <2>1, <2>2, LastCellIs DEF Counter
<1>3. CASE k \notin DOMAIN overlay
  <2>1. \A v \in Past(hist, k) : v.ts <= visible
    BY <1>0, <1>1, <1>3 DEF Overlaid
  <2>2. Settled(k) = Past(hist, k)
    BY <2>1 DEF Settled, UpTo
  <2>3. CASE k \in DOMAIN chain
    <3>1. PICK v \in chain[k].vs : Newest(Past(hist, k), v) /\ v.ts = chain[k].latest
               /\ LatestCell(k) = CellOf(v)
      BY <2>2, <2>3, LatestIs
    <3>2. LatestCell(k) = LastCell(Past(hist, k))
      BY <1>1, <3>1, LastCellIs
    <3>. QED  BY <1>3, <2>1, <2>3, <3>1, <3>2 DEF Counter, LatestTs, Newest
  <2>4. CASE k \notin DOMAIN chain
    <3>1. Absent(Past(hist, k), Swept(k), Active)
      BY <1>0, <2>2, <2>4 DEF Chains
    <3>2. LastCell(Past(hist, k)) = Nothing
      <4>1. CASE Past(hist, k) = {}
        BY <4>1 DEF LastCell
      <4>2. CASE Past(hist, k) # {}
        <5>1. PICK v0 \in Past(hist, k) : v0.ts <= top
          BY <1>1, <4>2
        <5>2. PICK v \in Past(hist, k) : Newest(UpTo(Past(hist, k), top), v)
          BY <1>0, <1>1, <5>1, NewestUpTo DEF Versioned
        <5>3. Newest(Past(hist, k), v)
          BY <1>1, <5>2 DEF Newest, UpTo
        <5>4. CellOf(v) = Nothing
          BY <1>1, <3>1, <5>3, CellOfVersion DEF Absent
        <5>. QED  BY <1>1, <5>3, <5>4, LastCellIs
      <4>. QED  BY <4>1, <4>2
    <3>. QED  BY <1>3, <2>1, <2>4, <3>1, <3>2 DEF Counter, LatestCell, Absent
  <2>. QED  BY <2>3, <2>4
<1>. QED  BY <1>2, <1>3

-----------------------------------------------------------------------------
\* The store after some commits does not depend on what follows them.
LEMMA AfterPrefix ==
  ASSUME NEW g \in Seq(Entered), NEW h \in Seq(Entered), Ordered(g), Ordered(h), NEW m \in Nat,
         m <= Len(g), m <= Len(h), \A i \in 1..m : g[i] = h[i], NEW k \in Key
  PROVE  Serial!After(g, m)[k] = Serial!After(h, m)[k]
<1>1. m \in 0..Len(g) /\ m \in 0..Len(h)
  BY EnteredSeq
<1>2. PastTo(g, m, k) = PastTo(h, m, k)
  BY DEF PastTo
<1>. QED  BY <1>1, <1>2, AfterIsLast

\* The chain's newest version is the newest of the history it holds.
LEMMA LatestOf ==
  ASSUME NEW c, NEW S, NEW gc, Present(c, S, gc), Versioned(S)
  PROVE  \E v \in c.vs : Newest(S, v) /\ c.latest = v.ts /\ ReadAt(c.vs, c.latest) = CellOf(v)
<1>1. PICK v \in c.vs : Newest(S, v) /\ c.latest = v.ts
  BY DEF Present
<1>2. c.vs \subseteq S /\ Versioned(c.vs) /\ v.ts \in Nat
  BY <1>1, VersionedSubset DEF Present, Versioned, Version
<1>3. Newest(UpTo(c.vs, v.ts), v)
  BY <1>1, <1>2 DEF Newest, UpTo
<1>. QED  BY <1>1, <1>2, <1>3, ReadAtNewest

\* A tombstone stays in the graveyard until its chain goes.
LEMMA TrackedStep ==
  ASSUME MInv, TombstonesAreTracked, [Next]_vars
  PROVE  TombstonesAreTracked'
<1>0. TypeOK /\ Shapes /\ Serials /\ Sweeping
  BY DEF MInv
<1>1. ASSUME NEW r \in Blind, Submit(r)
      PROVE  TombstonesAreTracked'
  BY <1>1 DEF Submit, Enqueue, TombstonesAreTracked, LatestCell, sweeping
<1>2. ASSUME NEW c \in Client, Begin(c)
      PROVE  TombstonesAreTracked'
  BY <1>2 DEF Begin, TombstonesAreTracked, LatestCell, sweeping
<1>3. ASSUME NEW c \in Client, Drop(c)
      PROVE  TombstonesAreTracked'
  BY <1>3 DEF Drop, TombstonesAreTracked, LatestCell, sweeping
<1>4. ASSUME NEW c \in Client, NEW r \in Txn, Commit(c, r)
      PROVE  TombstonesAreTracked'
  BY <1>4 DEF Commit, Enqueue, TombstonesAreTracked, LatestCell, sweeping
<1>5. ASSUME NEW c \in Client, NEW r \in Txn, Exec(c, r)
      PROVE  TombstonesAreTracked'
  BY <1>5 DEF Exec, Enqueue, TombstonesAreTracked, LatestCell, sweeping
<1>6. ASSUME NEW c \in Client, NEW k \in Key, Watch(c, k)
      PROVE  TombstonesAreTracked'
  BY <1>6 DEF Watch, TombstonesAreTracked, LatestCell, sweeping
<1>7. CASE Drain
  <2>1. chain' = chain /\ graveyard \subseteq graveyard' \cup ready' /\ ready = {}
    BY <1>7, <1>0 DEF Drain, Collect, Sweeping
  <2>. QED  BY <2>1 DEF TombstonesAreTracked, LatestCell
<1>7a. ASSUME NEW g \in ready, Bury(g)
      PROVE  TombstonesAreTracked'
  <2>1. /\ DOMAIN chain' \subseteq DOMAIN chain /\ \A k \in DOMAIN chain' : chain'[k] = chain[k]
        /\ ready' = ready \ {g} /\ graveyard' = graveyard
    BY <1>7a, BuryIs DEF Bury
  <2>2. ASSUME NEW k \in DOMAIN chain', ~LatestCell(k)'.live
        PROVE  [key |-> k, ts |-> chain'[k].latest] \in graveyard' \cup ready'
    <3>1. k \in DOMAIN chain /\ chain'[k] = chain[k]
      BY <2>1, <2>2
    <3>2. ~LatestCell(k).live
      BY <2>2, <3>1 DEF LatestCell
    <3>3. [key |-> k, ts |-> chain[k].latest] \in graveyard \cup ready
      BY <3>1, <3>2 DEF TombstonesAreTracked
    <3>4. g # [key |-> k, ts |-> chain[k].latest]
      <4>1. SUFFICES ASSUME g = [key |-> k, ts |-> chain[k].latest]
                     PROVE  FALSE
        OBVIOUS
      <4>2. Dead(g)
        BY <3>1, <3>2, <4>1 DEF Dead
      <4>3. DOMAIN chain' = DOMAIN chain \ {k}
        BY <1>7a, <4>1, <4>2 DEF Bury
      <4>. QED  BY <2>2, <4>3
    <3>. QED  BY <2>1, <3>1, <3>3, <3>4
  <2>. QED  BY <2>2 DEF TombstonesAreTracked
<1>7b. CASE Raise
  BY <1>7b DEF Raise, TombstonesAreTracked, LatestCell
<1>8. CASE Resolve
  BY <1>8 DEF Resolve, TombstonesAreTracked, LatestCell, sweeping
<1>9. CASE Logged
  BY <1>9 DEF Logged, TombstonesAreTracked, LatestCell, sweeping
<1>10. CASE LogFails
  BY <1>10 DEF LogFails, TombstonesAreTracked, LatestCell, sweeping
<1>11. ASSUME NEW k \in Key, ApplyShard(k)
      PROVE  TombstonesAreTracked'
  <2>1. DOMAIN chain' = DOMAIN chain \cup {k} /\ \A j \in DOMAIN chain \ {k} : chain'[j] = chain[j]
    BY <1>11 DEF ApplyShard
  <2>2. ready' = ready /\ graveyard' = graveyard
        \cup {[key |-> k, ts |-> v.ts] : v \in {w \in Past(group, k) : ~w.live}}
    BY <1>11, NewVersionsArePast DEF ApplyShard, sweeping
  <2>3. Settled(k)' = Past(hist, k)
    BY <1>11 DEF ApplyShard, Settled
  <2>4. Present(chain'[k], Past(hist, k), gcHorizon) /\ Versioned(Past(hist, k))
        /\ Past(group, k) # {}
    BY <1>11, <1>0, <2>3, AppliedShard, HistoryVersioned, ShardIs
  <2>5. PICK v \in chain'[k].vs : Newest(Past(hist, k), v) /\ chain'[k].latest = v.ts
             /\ ReadAt(chain'[k].vs, chain'[k].latest) = CellOf(v)
    BY <2>4, LatestOf
  <2>6. v \in Past(group, k)
    <3>1. PICK u \in Past(group, k) : TRUE
      BY <2>4
    <3>2. /\ Past(group, k) = {w \in Past(hist, k) : w.ts > visible} /\ visible \in Nat
          /\ \A w \in Past(hist, k) : w.ts \in Nat
      BY <1>0, GroupPast, Numbers
    <3>. QED  BY <2>5, <3>1, <3>2 DEF Newest
  <2>7. LatestCell(k)' = CellOf(v) /\ CellOf(v).live = v.live
    BY <2>1, <2>5 DEF LatestCell, CellOf
  <2>8. ~LatestCell(k)'.live => [key |-> k, ts |-> chain'[k].latest] \in graveyard' \cup ready'
    BY <2>2, <2>5, <2>6, <2>7
  <2>9. ASSUME NEW j \in DOMAIN chain', j # k, ~LatestCell(j)'.live
        PROVE  [key |-> j, ts |-> chain'[j].latest] \in graveyard' \cup ready'
    <3>1. j \in DOMAIN chain /\ chain'[j] = chain[j]
      BY <2>1, <2>9
    <3>2. ~LatestCell(j).live
      BY <2>9, <3>1 DEF LatestCell
    <3>. QED  BY <2>2, <3>1, <3>2 DEF TombstonesAreTracked
  <2>. QED  BY <2>8, <2>9 DEF TombstonesAreTracked
<1>12. CASE Publish
  BY <1>12 DEF Publish, TombstonesAreTracked, LatestCell, sweeping
<1>13. CASE UNCHANGED vars
  BY <1>13 DEF vars, TombstonesAreTracked, LatestCell, sweeping
<1>. QED  BY <1>1, <1>2, <1>3, <1>4, <1>5, <1>6, <1>7, <1>7a, <1>7b, <1>8, <1>9, <1>10, <1>11, <1>12,
             <1>13 DEF Next, FlushStep

\* A commit that applies finds what it read unwritten.
LEMMA TxnReadsStep ==
  ASSUME MInv, TxnReadsStand, [Next]_vars
  PROVE  TxnReadsStand'
<1>0. TypeOK /\ Shapes /\ Serials /\ Waits
  BY DEF MInv
<1>1a. DOMAIN hist = 1..Len(hist) /\ Len(hist) \in Nat
  BY <1>0, EnteredSeq DEF Shapes
<1>1. ASSUME NEW r \in Blind, Submit(r)
      PROVE  TxnReadsStand'
  BY <1>1 DEF Submit, Enqueue, TxnReadsStand, WrittenSince
<1>2. ASSUME NEW c \in Client, Begin(c)
      PROVE  TxnReadsStand'
  BY <1>2 DEF Begin, TxnReadsStand, WrittenSince
<1>3. ASSUME NEW c \in Client, Drop(c)
      PROVE  TxnReadsStand'
  BY <1>3 DEF Drop, TxnReadsStand, WrittenSince
<1>4. ASSUME NEW c \in Client, NEW r \in Txn, Commit(c, r)
      PROVE  TxnReadsStand'
  BY <1>4 DEF Commit, Enqueue, TxnReadsStand, WrittenSince
<1>5. ASSUME NEW c \in Client, NEW r \in Txn, Exec(c, r)
      PROVE  TxnReadsStand'
  BY <1>5 DEF Exec, Enqueue, TxnReadsStand, WrittenSince
<1>6. ASSUME NEW c \in Client, NEW k \in Key, Watch(c, k)
      PROVE  TxnReadsStand'
  BY <1>6 DEF Watch, TxnReadsStand, WrittenSince
<1>7. CASE Drain
  BY <1>7 DEF Drain, TxnReadsStand, WrittenSince
<1>7a. ASSUME NEW g \in ready, Bury(g)
      PROVE  TxnReadsStand'
  BY <1>7a DEF Bury, TxnReadsStand, WrittenSince
<1>7b. CASE Raise
  BY <1>7b DEF Raise, TxnReadsStand, WrittenSince
<1>8. CASE Resolve
  <2>. DEFINE p == batch[1]
  <2>1. CASE ~Applies(p)
    BY <1>8, <2>1, ResolveIs DEF TxnReadsStand, WrittenSince
  <2>2. CASE Applies(p)
    <3>1. /\ DOMAIN hist' = 1..Len(hist) + 1 /\ (\A i \in DOMAIN hist : hist'[i] = hist[i])
             /\ hist'[Len(hist) + 1] = EnteredOf(p)
      BY <1>8, <2>2, ResolveIs
    <3>2. /\ EnteredOf(p).who = p.who /\ EnteredOf(p).checks = p.req.checks
             /\ EnteredOf(p).snap = p.snap
      BY DEF EnteredOf
    <3>3. p \in Pending /\ 1 \in DOMAIN batch /\ pc = "resolve"
      BY <1>8, ResolveIs, TailIs DEF Resolve
    <3>4. ASSUME NEW k \in p.req.checks, p.who # NoClient
          PROVE  \A j \in DOMAIN hist : hist[j].ts > p.snap => k \notin DOMAIN hist[j].cells
      <4>1. k \notin DOMAIN overlay /\ ~(LatestTs(k) > p.snap)
        BY <2>2, <3>4 DEF Applies, Conflict
      <4>2. k \in Key
        BY <3>3, <3>4, RequestAssumption DEF Pending, Request
      <4>3. client[p.who].st = "waiting" /\ client[p.who].snap = p.snap
        BY <1>0, <3>3, <3>4 DEF Waits
      <4>4. p.who \in Client /\ p.snap \in Nat
        BY <3>3, <3>4 DEF Pending
      <4>5. p.snap \in Active
        BY <4>3, <4>4 DEF Active
      <4>6. \A v \in Past(hist, k) : v.ts <= p.snap
        <5>1. LatestTs(k) \in Nat /\ \A v \in Past(hist, k) : v.ts \in Nat
          BY <1>0, GroupPast DEF LatestTs, Shapes
        <5>. QED  BY <3>3, <4>1, <4>2, <4>4, <4>5, <5>1, CounterIsLast
      <4>7. \A j \in DOMAIN hist : hist[j].ts \in Nat /\ VersionOf(hist[j], k).ts = hist[j].ts
        BY <1>0, EnteredSeq DEF Shapes, VersionOf
      <4>. QED  BY <4>4, <4>6, <4>7 DEF Past
    <3>5. ASSUME NEW i \in DOMAIN hist'
          PROVE  (i \in DOMAIN hist /\ \A j \in 1..i-1 : j \in DOMAIN hist) \/ i = Len(hist) + 1
      BY <1>1a, <3>1
    <3>6. ASSUME NEW i \in DOMAIN hist', hist'[i].who # NoClient, NEW k \in hist'[i].checks
          PROVE  ~WrittenSince(i, k)'
      <4>1. CASE i \in DOMAIN hist /\ (\A j \in 1..i-1 : j \in DOMAIN hist)
        BY <3>1, <3>6, <4>1 DEF TxnReadsStand, WrittenSince
      <4>2. CASE i = Len(hist) + 1
        <5>1. \A j \in 1..i-1 : j \in DOMAIN hist
          BY <1>1a, <4>2
        <5>. QED  BY <3>1, <3>2, <3>4, <3>6, <4>2, <5>1 DEF WrittenSince
      <4>. QED  BY <3>5, <4>1, <4>2
    <3>. QED  BY <3>6 DEF TxnReadsStand
  <2>. QED  BY <2>1, <2>2
<1>9. CASE Logged
  BY <1>9 DEF Logged, TxnReadsStand, WrittenSince
<1>10. CASE LogFails
  <2>1. \A i \in DOMAIN hist' : i \in DOMAIN hist /\ hist'[i] = hist[i]
    BY <1>10, LogFailsIs
  <2>2. DOMAIN hist' = 1..Ahead /\ Ahead \in 0..Len(hist)
    BY <1>10, LogFailsIs
  <2>3. \A i \in DOMAIN hist' : \A j \in 1..i-1 : j \in DOMAIN hist'
    BY <1>1a, <2>2
  <2>. QED  BY <2>1, <2>3 DEF TxnReadsStand, WrittenSince
<1>11. ASSUME NEW k \in Key, ApplyShard(k)
      PROVE  TxnReadsStand'
  BY <1>11 DEF ApplyShard, TxnReadsStand, WrittenSince
<1>12. CASE Publish
  BY <1>12 DEF Publish, TxnReadsStand, WrittenSince
<1>13. CASE UNCHANGED vars
  BY <1>13 DEF vars, TxnReadsStand, WrittenSince
<1>. QED  BY <1>1, <1>2, <1>3, <1>4, <1>5, <1>6, <1>7, <1>7a, <1>7b, <1>8, <1>9, <1>10, <1>11, <1>12,
             <1>13 DEF Next, FlushStep

\* A commit that applies misses a write only if it deleted the key.
LEMMA ExecMissesStep ==
  ASSUME MInv, ExecMissesOnlyDeletes, [Next]_vars
  PROVE  ExecMissesOnlyDeletes'
<1>0. TypeOK /\ Shapes /\ Serials /\ hist \in Seq(Entered) /\ Ordered(hist)
  BY DEF MInv, Shapes, Serials
<1>1a. DOMAIN hist = 1..Len(hist) /\ Len(hist) \in Nat
  BY <1>0, EnteredSeq
<1>b. hist' \in Seq(Entered) /\ Ordered(hist')
  BY ShapesStep, SerialsStep DEF Shapes, Serials
<1>c. \A i \in DOMAIN hist : hist[i].checks \subseteq Key
  BY <1>0, Sequenced DEF Entered
<1>1. ASSUME NEW r \in Blind, Submit(r)
      PROVE  ExecMissesOnlyDeletes'
  BY <1>1 DEF Submit, Enqueue, ExecMissesOnlyDeletes, WrittenSince
<1>2. ASSUME NEW c \in Client, Begin(c)
      PROVE  ExecMissesOnlyDeletes'
  BY <1>2 DEF Begin, ExecMissesOnlyDeletes, WrittenSince
<1>3. ASSUME NEW c \in Client, Drop(c)
      PROVE  ExecMissesOnlyDeletes'
  BY <1>3 DEF Drop, ExecMissesOnlyDeletes, WrittenSince
<1>4. ASSUME NEW c \in Client, NEW r \in Txn, Commit(c, r)
      PROVE  ExecMissesOnlyDeletes'
  BY <1>4 DEF Commit, Enqueue, ExecMissesOnlyDeletes, WrittenSince
<1>5. ASSUME NEW c \in Client, NEW r \in Txn, Exec(c, r)
      PROVE  ExecMissesOnlyDeletes'
  BY <1>5 DEF Exec, Enqueue, ExecMissesOnlyDeletes, WrittenSince
<1>6. ASSUME NEW c \in Client, NEW k \in Key, Watch(c, k)
      PROVE  ExecMissesOnlyDeletes'
  BY <1>6 DEF Watch, ExecMissesOnlyDeletes, WrittenSince
<1>7. CASE Drain
  BY <1>7 DEF Drain, ExecMissesOnlyDeletes, WrittenSince
<1>7a. ASSUME NEW g \in ready, Bury(g)
      PROVE  ExecMissesOnlyDeletes'
  BY <1>7a DEF Bury, ExecMissesOnlyDeletes, WrittenSince
<1>7b. CASE Raise
  BY <1>7b DEF Raise, ExecMissesOnlyDeletes, WrittenSince
<1>8. CASE Resolve
  <2>. DEFINE p == batch[1]
  <2>1. CASE ~Applies(p)
    BY <1>8, <2>1, ResolveIs DEF ExecMissesOnlyDeletes, WrittenSince
  <2>2. CASE Applies(p)
    <3>1. /\ DOMAIN hist' = 1..Len(hist) + 1 /\ (\A i \in DOMAIN hist : hist'[i] = hist[i])
             /\ hist'[Len(hist) + 1] = EnteredOf(p)
          /\ Len(hist') = Len(hist) + 1
      BY <1>8, <2>2, ResolveIs
    <3>2. /\ EnteredOf(p).checks = p.req.checks /\ EnteredOf(p).snap = p.snap
      BY DEF EnteredOf
    <3>3. p \in Pending /\ pc = "resolve"
      BY <1>8, ResolveIs, TailIs DEF Resolve
    <3>4. ASSUME NEW i \in DOMAIN hist', NEW k \in hist'[i].checks, k \in Key
          PROVE  /\ i - 1 \in Nat /\ i - 1 <= Len(hist) /\ \A j \in 1..i-1 : j \in DOMAIN hist
                 /\ Serial!After(hist', i - 1)[k] = Serial!After(hist, i - 1)[k]
      <4>1. i - 1 \in Nat /\ i - 1 <= Len(hist) /\ i - 1 <= Len(hist')
            /\ \A j \in 1..i-1 : j \in DOMAIN hist
        BY <1>1a, <3>1
      <4>2. \A j \in 1..i-1 : hist'[j] = hist[j]
        BY <3>1, <4>1
      <4>. QED  BY <1>0, <1>b, <3>4, <4>1, <4>2, AfterPrefix
    <3>5. ASSUME NEW i \in DOMAIN hist', NEW k \in hist'[i].checks, WrittenSince(i, k)'
          PROVE  ~Serial!After(hist', i - 1)[k].live
      <4>1. CASE i \in DOMAIN hist
        <5>1. k \in Key /\ hist'[i] = hist[i]
          BY <1>c, <3>1, <3>5, <4>1
        <5>2. WrittenSince(i, k)
          BY <3>1, <3>4, <3>5, <4>1, <5>1 DEF WrittenSince
        <5>. QED  BY <3>4, <3>5, <4>1, <5>1, <5>2 DEF ExecMissesOnlyDeletes
      <4>2. CASE i = Len(hist) + 1
        <5>1. k \in p.req.checks /\ k \in Key
          BY <3>1, <3>2, <3>3, <3>5, <4>2, RequestAssumption DEF Pending, Request
        <5>2. k \notin DOMAIN overlay /\ ~(LatestTs(k) > p.snap)
          BY <2>2, <5>1 DEF Applies, Conflict
        <5>3. PICK j \in DOMAIN hist : hist[j].ts > p.snap /\ k \in DOMAIN hist[j].cells
          BY <3>1, <3>2, <3>4, <3>5, <4>2, <5>1 DEF WrittenSince
        <5>4. VersionOf(hist[j], k) \in Past(hist, k) /\ VersionOf(hist[j], k).ts = hist[j].ts
          BY <5>3 DEF Past, VersionOf
        <5>5. hist[j].ts \in Nat /\ LatestTs(k) \in Nat /\ p.snap \in Nat
          BY <1>0, <3>3, EnteredSeq DEF LatestTs, Shapes, Pending
        <5>6. k \notin DOMAIN chain
          <6>1. k \in DOMAIN chain => hist[j].ts <= LatestTs(k)
            BY <3>3, <5>1, <5>2, <5>4, CounterIsLast
          <6>. QED  BY <5>2, <5>3, <5>5, <6>1
        <5>7. LastCell(Past(hist, k)) = Nothing
          BY <3>3, <5>1, <5>2, <5>6, CounterIsLast
        <5>8. Serial!After(hist, Len(hist))[k] = Nothing
          <6>1. Len(hist) \in 0..Len(hist)
            BY <1>1a
          <6>. QED  BY <1>0, <5>1, <5>7, <6>1, AfterIsLast, PastToIs
        <5>9. i - 1 = Len(hist)
          BY <1>1a, <4>2
        <5>. QED  BY <3>4, <3>5, <5>1, <5>8, <5>9 DEF Nothing
      <4>. QED  BY <1>1a, <3>1, <4>1, <4>2
    <3>. QED  BY <3>5 DEF ExecMissesOnlyDeletes
  <2>. QED  BY <2>1, <2>2
<1>9. CASE Logged
  BY <1>9 DEF Logged, ExecMissesOnlyDeletes, WrittenSince
<1>10. CASE LogFails
  <2>1. \A i \in DOMAIN hist' : i \in DOMAIN hist /\ hist'[i] = hist[i]
    BY <1>10, LogFailsIs
  <2>2. DOMAIN hist' = 1..Ahead /\ Ahead \in 0..Len(hist)
    BY <1>10, LogFailsIs
  <2>3. Len(hist') = Ahead
    BY <1>10, LogFailsIs
  <2>4. ASSUME NEW i \in DOMAIN hist', NEW k \in hist'[i].checks, WrittenSince(i, k)'
        PROVE  ~Serial!After(hist', i - 1)[k].live
    <3>1. i \in DOMAIN hist /\ hist'[i] = hist[i] /\ i - 1 \in Nat /\ i - 1 <= Len(hist)
          /\ i - 1 <= Len(hist')
      BY <1>1a, <2>1, <2>2, <2>3
    <3>2. \A j \in 1..i-1 : j \in DOMAIN hist' /\ hist'[j] = hist[j]
      BY <1>1a, <2>1, <2>2, <3>1
    <3>3. WrittenSince(i, k)
      BY <2>4, <3>1, <3>2 DEF WrittenSince
    <3>4. k \in Key
      BY <1>c, <2>4, <3>1
    <3>5. Serial!After(hist', i - 1)[k] = Serial!After(hist, i - 1)[k]
      BY <1>0, <1>b, <3>1, <3>2, <3>4, AfterPrefix
    <3>. QED  BY <2>4, <3>1, <3>3, <3>5 DEF ExecMissesOnlyDeletes
  <2>. QED  BY <2>4 DEF ExecMissesOnlyDeletes
<1>11. ASSUME NEW k \in Key, ApplyShard(k)
      PROVE  ExecMissesOnlyDeletes'
  BY <1>11 DEF ApplyShard, ExecMissesOnlyDeletes, WrittenSince
<1>12. CASE Publish
  BY <1>12 DEF Publish, ExecMissesOnlyDeletes, WrittenSince
<1>13. CASE UNCHANGED vars
  BY <1>13 DEF vars, ExecMissesOnlyDeletes, WrittenSince
<1>. QED  BY <1>1, <1>2, <1>3, <1>4, <1>5, <1>6, <1>7, <1>7a, <1>7b, <1>8, <1>9, <1>10, <1>11, <1>12,
             <1>13 DEF Next, FlushStep

\* A point-in-time read of a chain that still has the versions it needs.
LEMMA AsOfExact == ASSUME MInv PROVE AsOfIsExactOrRefused
<1>0. TypeOK /\ Shapes /\ Queued /\ Serials /\ Sweeping /\ Chains /\ hist \in Seq(Entered) /\ Ordered(hist)
  BY DEF MInv, Shapes, Serials
<1>1. SUFFICES ASSUME NEW k \in Key, NEW s \in gcHorizon..visible, ~GoneUnrecorded(k, s),
                      k \in DOMAIN chain => \A v \in chain[k].vs : v.ts > chain[k].pruned,
                      GetAtChecked(k, s) # NoAnswer
               PROVE  GetAtChecked(k, s) = StoreAt(s)[k]
  BY DEF AsOfIsExactOrRefused
<1>. DEFINE P == Settled(k)
<1>2. /\ gcHorizon \in Nat /\ visible \in Nat /\ s \in Nat /\ gcHorizon <= s /\ s <= visible
      /\ Versioned(P) /\ \A v \in P : v.ts \in Nat /\ 1 <= v.ts /\ v.ts <= top
  BY <1>0, Numbers, GroupPast, SettledIsPast
<1>3. UpTo(P, s) = UpTo(Past(hist, k), s)
  <2>1. \A v \in Past(hist, k) : v.ts \in Nat
    BY <1>0, GroupPast
  <2>. QED  BY <1>2, <2>1 DEF Settled, UpTo
<1>4. StoreAt(s)[k] = ReadAt(P, s)
  <2>1. StoreAt(s)[k] = ReadAt(Past(hist, k), s)
    BY <1>0, <1>2, StoreAtIs DEF StoreAt
  <2>2. Versioned(Past(hist, k))
    BY <1>0, HistoryVersioned
  <2>. QED  BY <1>2, <1>3, <2>1, <2>2, ReadIsLast
<1>5. \A v \in P : ~v.live => CellOf(v) = Nothing
  BY <1>2, CellOfVersion
<1>6. CASE k \notin DOMAIN chain
  <2>1. Absent(P, Swept(k), Active)
    BY <1>0, <1>6 DEF Chains
  <2>1a. Swept(k) \in Nat /\ Swept(k) <= s
    <3>1. Swept(k) = gcHorizon \/ \E g \in removed : g.key = k /\ g.ts = Swept(k)
      BY <1>0, <1>2, SweptIs, BoundIs DEF Swept
    <3>2. Swept(k) \in Nat
      BY <1>0, <1>2, SweptIs
    <3>. QED  BY <1>1, <1>2, <3>1, <3>2 DEF GoneUnrecorded
  <2>2. ReadAt(P, s) = Nothing
    <3>1. CASE P = {}
      BY <3>1, ReadAtNone
    <3>2. CASE P # {}
      <4>1. UpTo(P, s) = P
        BY <1>2, <2>1, <2>1a DEF Absent, UpTo
      <4>2. PICK v \in P : Newest(P, v)
        <5>1. PICK v0 \in P : v0.ts <= s
          BY <3>2, <4>1 DEF UpTo
        <5>2. \E v \in P : Newest(UpTo(P, s), v)
          BY <1>2, <5>1, NewestUpTo DEF Versioned
        <5>. QED  BY <4>1, <5>2
      <4>. QED  BY <1>2, <1>5, <2>1, <4>1, <4>2, ReadAtNewest DEF Absent
    <3>. QED  BY <3>1, <3>2
  <2>. QED  BY <1>1, <1>4, <1>6, <2>2 DEF GetAtChecked
<1>7. CASE k \in DOMAIN chain
  <2>. DEFINE c == chain[k]
  <2>1. Present(c, P, gcHorizon)
    BY <1>0, <1>7 DEF Chains
  <2>2. c.first \in Nat /\ c.pruned \in Nat /\ c.vs \subseteq P /\ Versioned(c.vs)
    BY <1>0, <1>2, <1>7, <2>1, VersionedSubset DEF Shapes, Present
  <2>. HIDE DEF c, P
  <2>3. CASE 0 < c.first /\ s < c.first
    <3>1. ReadAt(P, s) = Nothing
      <4>1. CASE \E v \in P : v.ts <= s
        <5>1. PICK v \in P : Newest(UpTo(P, s), v)
          BY <1>2, <4>1, NewestUpTo DEF Versioned
        <5>2. Newest({w \in P : w.ts < c.first}, v)
          <6>1. \A w \in P : w.ts < c.first => w.ts <= s
            BY <1>2, <2>1, <2>2 DEF Present
          <6>. QED  BY <1>2, <2>2, <2>3, <5>1, <6>1 DEF Newest, UpTo
        <5>3. ~v.live
          BY <2>1, <5>1, <5>2 DEF Present
        <5>. QED  BY <1>2, <1>5, <5>1, <5>3, ReadAtNewest DEF P
      <4>2. CASE ~ \E v \in P : v.ts <= s
        BY <4>2, ReadAtNone
      <4>. QED  BY <4>1, <4>2
    <3>. QED  BY <1>4, <1>7, <2>3, <3>1 DEF GetAtChecked, c, P
  <2>4. CASE ~(0 < c.first /\ s < c.first)
    <3>1. GetAtChecked(k, s) = ReadAt(c.vs, s) /\ (c.pruned > 0 => \E v \in c.vs : ~(s < v.ts))
      BY <1>1, <1>7, <2>4 DEF GetAtChecked, c
    <3>2. PICK f \in P : f.ts = c.first
      BY <2>1 DEF Present
    <3>3. f.ts <= s
      BY <1>2, <2>2, <2>4, <3>2 DEF P
    <3>4. ASSUME NEW v \in P, Newest(UpTo(P, s), v)
          PROVE  v \in c.vs
      <4>1. c.first <= v.ts /\ v.ts \in Nat
        BY <1>2, <3>2, <3>3, <3>4 DEF Newest, UpTo, P
      <4>2. c.pruned < v.ts
        <5>1. CASE c.pruned = 0
          BY <1>2, <3>4, <5>1 DEF P
        <5>2. CASE c.pruned > 0
          <6>1. PICK w \in c.vs : ~(s < w.ts)
            BY <3>1, <5>2
          <6>2. w \in P /\ w.ts \in Nat /\ w.ts > c.pruned
            BY <1>1, <1>2, <1>7, <2>2, <6>1 DEF c, P
          <6>3. w.ts <= v.ts
            BY <1>2, <3>4, <6>1, <6>2 DEF Newest, UpTo
          <6>. QED  BY <2>2, <4>1, <6>2, <6>3
        <5>. QED  BY <2>2, <5>1, <5>2
      <4>. QED  BY <2>1, <4>1, <4>2 DEF Present
    <3>5. UpTo(c.vs, s) \subseteq P
      BY <2>2 DEF UpTo
    <3>6. ReadAt(P, s) = ReadAt(c.vs, s)
      BY <1>2, <2>2, <3>4, <3>5, SameRead DEF P
    <3>. QED  BY <1>4, <3>1, <3>6 DEF P
  <2>. QED  BY <2>3, <2>4
<1>. QED  BY <1>6, <1>7

-----------------------------------------------------------------------------
\* The garbage collector forgets no tombstone.
THEOREM TombstonesTracked == Spec => []TombstonesAreTracked
<1>1. Init => TombstonesAreTracked
  BY DEF Init, TombstonesAreTracked
<1>2. MInv /\ TombstonesAreTracked /\ [Next]_vars => TombstonesAreTracked'
  BY TrackedStep
<1>. QED  BY <1>1, <1>2, MvccInvariance, PTL DEF Spec

\* No transaction commits over a write to a key it read.
THEOREM TransactionsAreSerial == Spec => []TxnReadsStand
<1>1. Init => TxnReadsStand
  BY DEF Init, TxnReadsStand
<1>2. MInv /\ TxnReadsStand /\ [Next]_vars => TxnReadsStand'
  BY TxnReadsStep
<1>. QED  BY <1>1, <1>2, MvccInvariance, PTL DEF Spec

\* No EXEC is applied over a watched key that changed and exists.
THEOREM ExecIsGuarded == Spec => []ExecMissesOnlyDeletes
<1>1. Init => ExecMissesOnlyDeletes
  BY DEF Init, ExecMissesOnlyDeletes
<1>2. MInv /\ ExecMissesOnlyDeletes /\ [Next]_vars => ExecMissesOnlyDeletes'
  BY ExecMissesStep
<1>. QED  BY <1>1, <1>2, MvccInvariance, PTL DEF Spec

\* A point-in-time read is exact or refused, in the middle of a sweep and of a group
\* too (get_at_checked beside sweep_tombstones and apply_refs_to_shards).
THEOREM AsOfReadsAreExact == Spec => []AsOfIsExactOrRefused
<1>1. MInv => AsOfIsExactOrRefused
  BY AsOfExact
<1>. QED  BY <1>1, MvccInvariance, PTL

-----------------------------------------------------------------------------
(***************************************************************************)
(* The engine implements the serial store while a group cannot write one   *)
(* key MaxVersions times.  (Without that condition a chain may prune the   *)
(* version that visible still asks for, see PublishedIsReadable.)          *)
(***************************************************************************)
\* The timestamps of the queued commits that write a key, and of the group's.
QueuedTs(k) == {queue[i].ts : i \in {j \in DOMAIN queue : k \in Writes(queue[j].req)}}
GroupTs(k) == {batch[i].ts : i \in {j \in DOMAIN batch : k \in Writes(batch[j].req)}}
              \cup {v.ts : v \in Past(group, k)}

\* No more than GroupLimit commits of a group write one key.
Limited == \A k \in Key : Cardinality(QueuedTs(k)) <= GroupLimit
           /\ Cardinality(GroupTs(k)) <= GroupLimit

\* What is published can be read.
Readable == \A k \in Key : GetAt(k, visible) = ReadAt(Past(hist, k), visible)

\* The timestamps that wait for one key are finitely many.
LEMMA TsFinite ==
  ASSUME MInv, NEW k
  PROVE  /\ QueuedTs(k) \subseteq 0..clock /\ GroupTs(k) \subseteq 0..clock
         /\ IsFiniteSet(QueuedTs(k)) /\ IsFiniteSet(GroupTs(k))
<1>0. TypeOK /\ Shapes /\ Serials /\ clock \in Nat /\ top \in Nat /\ top <= clock
  BY Numbers DEF MInv
<1>1. QueuedTs(k) \subseteq 0..clock
  <2>1. \A i \in DOMAIN queue : queue[i].ts \in 1..clock
    BY <1>0 DEF TypeOK
  <2>. QED  BY <1>0, <2>1 DEF QueuedTs
<1>2. GroupTs(k) \subseteq 0..clock
  <2>1. \A i \in DOMAIN batch : batch[i].ts \in 1..clock
    BY <1>0 DEF TypeOK
  <2>2. \A v \in Past(group, k) : v.ts \in Nat /\ v.ts <= top
    BY <1>0, GroupPast
  <2>. QED  BY <1>0, <2>1, <2>2 DEF GroupTs
<1>3. IsFiniteSet(0..clock)
  BY <1>0, FS_Interval
<1>. QED  BY <1>1, <1>2, <1>3, FS_Subset

\* A set of numbers indexed by a finite set is no larger.
LEMMA ImageBound ==
  ASSUME NEW I, IsFiniteSet(I), NEW q, NEW T, T = {q[i].ts : i \in I}
  PROVE  Cardinality(T) <= Cardinality(I)
<1>. DEFINE f == [i \in I |-> q[i].ts]
<1>1. f \in Surjection(I, T)
  BY DEF Surjection
<1>. QED  BY <1>1, FS_Surjection

\* The bound on the queue is the guard of Enqueue.
LEMMA EnqueueLimited ==
  ASSUME MInv, Limited, NEW who \in Client \cup {NoClient}, NEW r \in Blind \cup Txn,
         NEW snap \in 0..visible,
         Enqueue(who, r, snap)
  PROVE  Limited'
<1>0. /\ DOMAIN queue = 1..Len(queue) /\ Len(queue) \in Nat /\ DOMAIN queue' = 1..Len(queue) + 1
      /\ \A i \in DOMAIN queue : queue'[i] = queue[i]
      /\ queue'[Len(queue) + 1] = PendingOf(who, r, snap)
  BY EnqueueIs
<1>1. GroupLimit \in Nat /\ UNCHANGED <<batch, group>>
  BY BoundAssumption DEF Enqueue
<1>2. PendingOf(who, r, snap).ts = clock + 1 /\ PendingOf(who, r, snap).req = r
  BY DEF PendingOf
<1>3. \A i \in DOMAIN queue' : i \in DOMAIN queue \/ i = Len(queue) + 1
  BY <1>0
<1>4. Len(queue) + 1 \in DOMAIN queue' /\ DOMAIN queue \subseteq DOMAIN queue'
  BY <1>0
<1>a. GroupLimit \in Nat
  BY BoundAssumption
<1>5. ASSUME NEW k \in Key
      PROVE  Cardinality(QueuedTs(k)') <= GroupLimit
  <2>1. CASE k \in Writes(r)
    <3>. DEFINE I == {j \in DOMAIN queue : k \in Writes(queue[j].req)}
    <3>1. \A t : t \in QueuedTs(k)' <=> t \in QueuedTs(k) \cup {clock + 1}
      BY <1>0, <1>2, <1>3, <1>4, <2>1 DEF QueuedTs
    <3>2. QueuedTs(k)' = QueuedTs(k) \cup {clock + 1}
      BY <3>1
    <3>3. Cardinality(I) < GroupLimit
      BY <2>1 DEF Enqueue
    <3>4. IsFiniteSet(1..Len(queue)) /\ I \in SUBSET (1..Len(queue))
      <4>1. I \in SUBSET (1..Len(queue))
        BY <1>0
      <4>2. 1 \in Int /\ Len(queue) \in Int
        BY <1>0
      <4>3. IsFiniteSet(1..Len(queue))
        BY <4>2, FS_Interval
      <4>. QED  BY <4>1, <4>3
    <3>5. IsFiniteSet(I) /\ Cardinality(I) \in Nat
      <4>. HIDE DEF I
      <4>. QED  BY <3>4, FS_Subset, FS_CardinalityType
    <3>6. QueuedTs(k) = {queue[i].ts : i \in I}
      BY DEF QueuedTs
    <3>7. Cardinality(QueuedTs(k)) <= Cardinality(I)
      <4>. HIDE DEF I
      <4>. QED  BY <3>5, <3>6, ImageBound
    <3>8. IsFiniteSet(QueuedTs(k)) /\ Cardinality(QueuedTs(k)) \in Nat
      BY TsFinite, FS_CardinalityType
    <3>9. Cardinality(QueuedTs(k) \cup {clock + 1}) \in
            {Cardinality(QueuedTs(k)), Cardinality(QueuedTs(k)) + 1}
      BY <3>8, FS_AddElement
    <3>. HIDE DEF I
    <3>. QED  BY <1>a, <3>2, <3>3, <3>5, <3>7, <3>8, <3>9
  <2>2. CASE k \notin Writes(r)
    <3>1. \A t : t \in QueuedTs(k)' <=> t \in QueuedTs(k)
      BY <1>0, <1>2, <1>3, <1>4, <2>2 DEF QueuedTs
    <3>2. QueuedTs(k)' = QueuedTs(k)
      BY <3>1
    <3>. QED  BY <3>2 DEF Limited
  <2>. QED  BY <2>1, <2>2
<1>6. \A k \in Key : Cardinality(GroupTs(k)') <= GroupLimit
  BY <1>1 DEF Limited, GroupTs
<1>. QED  BY <1>5, <1>6 DEF Limited

\* No group outgrows the limit.
LEMMA LimitedStep ==
  ASSUME MInv, Limited, [Next]_vars
  PROVE  Limited'
<1>0. TypeOK /\ Shapes /\ Queued /\ Serials
  BY DEF MInv
<1>a. GroupLimit \in Nat
  BY BoundAssumption
<1>b. ASSUME UNCHANGED <<queue, batch, group>>
      PROVE  Limited'
  BY <1>b DEF Limited, QueuedTs, GroupTs
<1>1. ASSUME NEW r \in Blind, Submit(r)
      PROVE  Limited'
  <2>1. NoClient \in Client \cup {NoClient} /\ r \in Blind \cup Txn /\ 0 \in 0..visible
    BY <1>0, Numbers DEF TypeOK
  <2>2. Enqueue(NoClient, r, 0)
    BY <1>1 DEF Submit
  <2>. QED  BY <2>1, <2>2, EnqueueLimited
<1>2. ASSUME NEW c \in Client, Begin(c)
      PROVE  Limited'
  BY <1>2, <1>b DEF Begin
<1>3. ASSUME NEW c \in Client, Drop(c)
      PROVE  Limited'
  BY <1>3, <1>b DEF Drop
<1>4. ASSUME NEW c \in Client, NEW r \in Txn, Commit(c, r)
      PROVE  Limited'
  <2>1. c \in Client \cup {NoClient} /\ r \in Blind \cup Txn /\ client[c].snap \in 0..visible
    BY <1>0, Numbers DEF TypeOK
  <2>2. Enqueue(c, r, client[c].snap)
    BY <1>4 DEF Commit
  <2>. QED  BY <2>1, <2>2, EnqueueLimited
<1>5. ASSUME NEW c \in Client, NEW r \in Txn, Exec(c, r)
      PROVE  Limited'
  <2>1. NoClient \in Client \cup {NoClient} /\ r \in Blind \cup Txn /\ client[c].snap \in 0..visible
    BY <1>0, Numbers DEF TypeOK
  <2>2. Enqueue(NoClient, r, client[c].snap)
    BY <1>5 DEF Exec
  <2>. QED  BY <2>1, <2>2, EnqueueLimited
<1>6. ASSUME NEW c \in Client, NEW k \in Key, Watch(c, k)
      PROVE  Limited'
  BY <1>6, <1>b DEF Watch
<1>7. CASE Drain
  <2>1. queue' = <<>> /\ batch' = queue /\ group' = <<>>
    BY <1>7 DEF Drain
  <2>2. ASSUME NEW k \in Key
        PROVE  QueuedTs(k)' = {} /\ GroupTs(k)' = QueuedTs(k)
    BY <2>1 DEF QueuedTs, GroupTs, Past
  <2>. QED  BY <1>a, <2>2, FS_EmptySet DEF Limited
<1>7a. ASSUME NEW g \in ready, Bury(g)
      PROVE  Limited'
  BY <1>7a, <1>b DEF Bury
<1>7b. CASE Raise
  BY <1>7b, <1>b DEF Raise
<1>8. CASE Resolve
  <2>1. queue' = queue
    BY <1>8 DEF Resolve
  <2>2. /\ 1 \in DOMAIN batch /\ batch[1] \in Pending
        /\ \A i \in DOMAIN batch' : i + 1 \in DOMAIN batch /\ batch'[i] = batch[i + 1]
    BY <1>8, ResolveIs, TailIs
  <2>3. ASSUME NEW k \in Key, NEW v \in Past(group', k)
        PROVE  v \in Past(group, k) \/ (k \in Writes(batch[1].req) /\ v.ts = batch[1].ts)
    <3>1. CASE ~Applies(batch[1])
      BY <1>8, <2>3, <3>1, ResolveIs
    <3>2. CASE Applies(batch[1])
      <4>1. ResolvedOf(batch[1]) \in Resolved /\ group \in Seq(Resolved)
            /\ group' = Append(group, ResolvedOf(batch[1]))
        BY <1>8, <1>0, <3>2, ResolveIs DEF Shapes
      <4>2. v \in Past(group, k) \/ (k \in DOMAIN ResolvedOf(batch[1]).cells
            /\ v = VersionOf(ResolvedOf(batch[1]), k))
        BY <2>3, <4>1, PastAppend
      <4>3. DOMAIN Cells(batch[1]) = Writes(batch[1].req)
        BY <2>2, <3>2, CellsType DEF Applies
      <4>. QED  BY <4>2, <4>3 DEF ResolvedOf, VersionOf
    <3>. QED  BY <3>1, <3>2
  <2>4. ASSUME NEW k \in Key
        PROVE  GroupTs(k)' \subseteq GroupTs(k)
    BY <2>2, <2>3 DEF GroupTs
  <2>5. ASSUME NEW k \in Key
        PROVE  Cardinality(GroupTs(k)') <= GroupLimit
    <3>1. IsFiniteSet(GroupTs(k)) /\ Cardinality(GroupTs(k)) \in Nat
          /\ Cardinality(GroupTs(k)) <= GroupLimit
      BY TsFinite, FS_CardinalityType DEF Limited
    <3>2. IsFiniteSet(GroupTs(k)') /\ Cardinality(GroupTs(k)') <= Cardinality(GroupTs(k))
      BY <2>4, <3>1, FS_Subset
    <3>3. Cardinality(GroupTs(k)') \in Nat
      BY <3>2, FS_CardinalityType
    <3>. QED  BY <1>a, <3>1, <3>2, <3>3
  <2>6. \A k \in Key : QueuedTs(k)' = QueuedTs(k)
    BY <2>1 DEF QueuedTs
  <2>. QED  BY <2>5, <2>6 DEF Limited
<1>9. CASE Logged
  BY <1>9, <1>b DEF Logged
<1>10. CASE LogFails
  <2>1. UNCHANGED <<queue, batch>> /\ group' = <<>>
    BY <1>10 DEF LogFails
  <2>2. ASSUME NEW k \in Key
        PROVE  QueuedTs(k)' = QueuedTs(k) /\ GroupTs(k)' \subseteq GroupTs(k)
    BY <2>1 DEF QueuedTs, GroupTs, Past
  <2>3. ASSUME NEW k \in Key
        PROVE  Cardinality(GroupTs(k)') <= GroupLimit
    <3>1. IsFiniteSet(GroupTs(k)) /\ Cardinality(GroupTs(k)) \in Nat
          /\ Cardinality(GroupTs(k)) <= GroupLimit
      BY TsFinite, FS_CardinalityType DEF Limited
    <3>2. IsFiniteSet(GroupTs(k)') /\ Cardinality(GroupTs(k)') <= Cardinality(GroupTs(k))
      BY <2>2, <3>1, FS_Subset
    <3>3. Cardinality(GroupTs(k)') \in Nat
      BY <3>2, FS_CardinalityType
    <3>. QED  BY <1>a, <3>1, <3>2, <3>3
  <2>. QED  BY <2>2, <2>3 DEF Limited
<1>11. ASSUME NEW k \in Key, ApplyShard(k)
      PROVE  Limited'
  BY <1>11, <1>b DEF ApplyShard
<1>12. CASE Publish
  <2>1. UNCHANGED <<queue, batch>> /\ group' = <<>>
    BY <1>12 DEF Publish
  <2>2. ASSUME NEW k \in Key
        PROVE  QueuedTs(k)' = QueuedTs(k) /\ GroupTs(k)' \subseteq GroupTs(k)
    BY <2>1 DEF QueuedTs, GroupTs, Past
  <2>3. ASSUME NEW k \in Key
        PROVE  Cardinality(GroupTs(k)') <= GroupLimit
    <3>1. IsFiniteSet(GroupTs(k)) /\ Cardinality(GroupTs(k)) \in Nat
          /\ Cardinality(GroupTs(k)) <= GroupLimit
      BY TsFinite, FS_CardinalityType DEF Limited
    <3>2. IsFiniteSet(GroupTs(k)') /\ Cardinality(GroupTs(k)') <= Cardinality(GroupTs(k))
      BY <2>2, <3>1, FS_Subset
    <3>3. Cardinality(GroupTs(k)') \in Nat
      BY <3>2, FS_CardinalityType
    <3>. QED  BY <1>a, <3>1, <3>2, <3>3
  <2>. QED  BY <2>2, <2>3 DEF Limited
<1>13. CASE UNCHANGED vars
  BY <1>13, <1>b DEF vars
<1>. QED  BY <1>1, <1>2, <1>3, <1>4, <1>5, <1>6, <1>7, <1>7a, <1>7b, <1>8, <1>9, <1>10, <1>11, <1>12,
             <1>13 DEF Next, FlushStep
-----------------------------------------------------------------------------
(***************************************************************************)
(* The refinement.  A snapshot that is pinned always reads the same store, *)
(* because a push keeps the version it reads and a sweep spares its key;   *)
(* the newest published snapshot, which nobody has pinned yet, does so     *)
(* only while a group is too small to push that version out.               *)
(***************************************************************************)
\* A typed history in timestamp order gives every key distinct versions.
LEMMA HistoryOf ==
  ASSUME NEW h \in Seq(Entered), Ordered(h), NEW k
  PROVE  Versioned(Past(h, k))
BY EnteredSeq, PastVersioned

\* A chain that holds the newest version a snapshot sees answers for it.
LEMMA ReadPresent ==
  ASSUME NEW P, Versioned(P), NEW s \in Nat, NEW c, NEW gc, Present(c, UpTo(P, s), gc)
  PROVE  ReadAt(c.vs, s) = ReadAt(P, s)
<1>1. c.vs \subseteq UpTo(P, s) /\ \E v \in c.vs : Newest(UpTo(P, s), v)
  BY DEF Present
<1>2. c.vs \in SUBSET P /\ UpTo(c.vs, s) \subseteq P
  BY <1>1 DEF UpTo
<1>3. Versioned(c.vs)
  BY <1>2, VersionedSubset
<1>4. \A v \in P : Newest(UpTo(P, s), v) => v \in c.vs
  BY <1>1 DEF Newest, Versioned, Version, UpTo
<1>. QED  BY <1>2, <1>3, <1>4, SameRead

\* A key that was swept away reads as absent to every snapshot behind which it is.
LEMMA ReadAbsent ==
  ASSUME NEW P, Versioned(P), NEW s \in Nat, NEW gc, NEW pins, Absent(UpTo(P, s), gc, pins)
  PROVE  ReadAt(P, s) = Nothing
<1>1. CASE \A w \in P : ~(w.ts <= s)
  BY <1>1, ReadAtNone
<1>2. CASE \E w \in P : w.ts <= s
  <2>1. PICK v \in P : Newest(UpTo(P, s), v)
    BY <1>2, NewestUpTo DEF Versioned
  <2>2. ~v.live
    BY <2>1 DEF Absent, Newest
  <2>. QED  BY <2>1, <2>2, ReadAtNewest, CellOfVersion
<1>. QED  BY <1>1, <1>2

\* How many commits are readable is where the readable prefix ends.
LEMMA CountIs ==
  ASSUME NEW h \in Seq(Entered), Ordered(h), NEW s \in Nat, NEW a \in 0..Len(h),
         \A i \in DOMAIN h : h[i].ts <= s <=> i <= a
  PROVE  Cardinality({i \in DOMAIN h : h[i].ts <= s}) = a
<1>. DEFINE m == Cardinality({i \in DOMAIN h : h[i].ts <= s})
<1>1. m \in 0..Len(h) /\ \A i \in DOMAIN h : h[i].ts <= s <=> i <= m
  BY CountUpTo
<1>2. DOMAIN h = 1..Len(h) /\ Len(h) \in Nat
  BY EnteredSeq
<1>. HIDE DEF m
<1>3. \A i \in 1..Len(h) : i <= a <=> i <= m
  BY <1>1, <1>2
<1>4. ~(a < m)
  BY <1>1, <1>2, <1>3
<1>5. ~(m < a)
  BY <1>1, <1>2, <1>3
<1>6. m = a
  BY <1>1, <1>2, <1>4, <1>5
<1>. QED  BY <1>6 DEF m

\* What readers see is what precedes the group being flushed.
LEMMA PublishedIs ==
  ASSUME MInv
  PROVE  Published = Ahead /\ Ahead \in 0..Len(hist)
<1>1. TypeOK /\ Shapes /\ Serials
  BY DEF MInv
<1>2. hist \in Seq(Entered) /\ Ordered(hist) /\ visible \in Nat
  BY <1>1, Numbers DEF Shapes, Serials
<1>3. Ahead \in 0..Len(hist)
  BY <1>1, Sequenced DEF Serials, Ahead
<1>4. \A i \in DOMAIN hist : hist[i].ts <= visible <=> i <= Ahead
  BY <1>1 DEF Serials
<1>. QED  BY <1>2, <1>3, <1>4, CountIs DEF Published

\* The same of the state after a step.
LEMMA PublishedNext ==
  ASSUME MInv, [Next]_vars
  PROVE  Published' = Ahead' /\ Ahead' = Len(hist') - Len(group')
<1>0. MInv'
  BY MInvStep
<1>1. TypeOK' /\ Shapes' /\ Serials'
  BY <1>0 DEF MInv
<1>2. hist' \in Seq(Entered) /\ Ordered(hist') /\ group' \in Seq(Resolved)
  BY <1>1 DEF Shapes, Serials
<1>3. visible' \in Nat
  BY <1>1 DEF TypeOK
<1>4. Len(hist') \in Nat /\ Len(group') \in Nat /\ Len(group') <= Len(hist')
  BY <1>1, <1>2, EnteredSeq, LenProperties DEF Serials
<1>5. Ahead' = Len(hist') - Len(group')
  BY DEF Ahead
<1>6. Ahead' \in 0..Len(hist')
  BY <1>4, <1>5
<1>7. \A i \in DOMAIN hist' : hist'[i].ts <= visible' <=> i <= Ahead'
  BY <1>1 DEF Serials
<1>8. Cardinality({i \in DOMAIN hist' : hist'[i].ts <= visible'}) = Ahead'
  BY <1>2, <1>3, <1>6, <1>7, CountIs
<1>. QED  BY <1>5, <1>8 DEF Published

\* The versions a group adds to a key are no more than its commits.
LEMMA GroupIsSmall ==
  ASSUME MInv, Limited, GroupLimit < MaxVersions, NEW k \in Key, NEW S \in SUBSET Past(group, k)
  PROVE  Cardinality(S) < MaxVersions
<1>0. MInv /\ TypeOK /\ Shapes /\ Serials /\ GroupLimit \in Nat /\ MaxVersions \in Nat
  BY BoundAssumption DEF MInv
<1>1. Versioned(S)
  BY <1>0, GroupPast, VersionedSubset
<1>. DEFINE f == [v \in S |-> v.ts]
<1>2. \A v \in S : v.ts \in GroupTs(k)
  BY DEF GroupTs
<1>3. f \in [S -> GroupTs(k)]
  BY <1>2
<1>4. \A v, w \in S : f[v] = f[w] => v = w
  BY <1>1 DEF Versioned
<1>5. f \in Injection(S, GroupTs(k))
  <2>. HIDE DEF f
  <2>. QED  BY <1>3, <1>4, Fun_IsInj
<1>6. IsFiniteSet(GroupTs(k))
  BY TsFinite
<1>7. IsFiniteSet(S) /\ Cardinality(S) <= Cardinality(GroupTs(k))
  BY <1>5, <1>6, FS_Injection
<1>8. Cardinality(S) \in Nat /\ Cardinality(GroupTs(k)) \in Nat
  BY <1>6, <1>7, FS_CardinalityType
<1>9. Cardinality(GroupTs(k)) <= GroupLimit
  BY DEF Limited
<1>. QED  BY <1>0, <1>7, <1>8, <1>9

\* get_at over given shard maps.
ReadFrom(ch, k, s) == IF k \in DOMAIN ch THEN ReadAt(ch[k].vs, s) ELSE Nothing

\* A push starts from what the key reads.
LEMMA ShardReads ==
  ASSUME NEW k, NEW s
  PROVE  ReadAt(ShardOf(k).vs, s) = ReadFrom(chain, k, s)
<1>1. CASE k \in DOMAIN chain
  BY <1>1 DEF ShardOf, ReadFrom
<1>2. CASE k \notin DOMAIN chain
  <2>1. ShardOf(k).vs = {}
    BY <1>2 DEF ShardOf, EmptyChain
  <2>. QED  BY <1>2, <2>1, ReadAtNone DEF ReadFrom
<1>. QED  BY <1>1, <1>2

\* A push keeps what a snapshot reads: one that is pinned, and, when the group
\* is small, the published one.
LEMMA PushReads ==
  ASSUME MInv, NEW k \in Key, ApplyShard(k), NEW s \in Nat, s <= visible,
         s \in Active \/ (Limited /\ GroupLimit < MaxVersions /\ s = visible)
  PROVE  ReadFrom(chain', k, s) = ReadAt(ShardOf(k).vs, s)
<1>. DEFINE c == ShardOf(k)
            d == chain'[k]
            new == Past(group, k)
            all == c.vs \cup new
<1>0. TypeOK /\ Shapes /\ Serials /\ visible \in Nat
  BY Numbers DEF MInv
<1>1. /\ c.vs \subseteq Past(hist, k) /\ \A v \in c.vs : v.ts <= visible
      /\ d.vs \in SUBSET Version /\ Pushed(c, new, Active, d)
  BY ShardIs
<1>2. k \in DOMAIN chain' /\ ReadFrom(chain', k, s) = ReadAt(d.vs, s)
  BY DEF ApplyShard, ReadFrom
<1>3. d.vs \subseteq all /\ \A v \in all : Keep(all, v, Active) => v \in d.vs
  BY <1>1 DEF Pushed
<1>4. new \subseteq Past(hist, k) /\ (\A v \in new : v.ts > visible) /\ Versioned(Past(hist, k))
  BY <1>0, GroupPast, HistoryVersioned
<1>. HIDE DEF c, d, new
<1>5. Versioned(c.vs) /\ Versioned(d.vs) /\ all \in SUBSET Version
  BY <1>1, <1>3, <1>4, VersionedSubset DEF Versioned
<1>6. UpTo(d.vs, s) \subseteq c.vs
  <2>1. ASSUME NEW v \in new
        PROVE  ~(v.ts <= s)
    <3>1. v.ts \in Nat /\ v.ts > visible
      BY <1>4, <1>5 DEF Version
    <3>. QED  BY <1>0, <3>1
  <2>. QED  BY <1>3, <2>1 DEF UpTo
<1>7. ASSUME NEW v \in c.vs, Newest(UpTo(c.vs, s), v)
      PROVE  v \in d.vs
  <2>1. v.ts \in Nat /\ v.ts <= s /\ \A w \in all : w.ts \in Nat
    BY <1>5, <1>7 DEF Newest, UpTo, Version
  <2>2. ASSUME NEW w \in all, w.ts > v.ts
        PROVE  s < w.ts
    <3>1. CASE w \in c.vs
      BY <1>7, <2>1, <2>2, <3>1 DEF Newest, UpTo
    <3>2. CASE w \in new
      BY <1>0, <1>4, <2>1, <3>2
    <3>. QED  BY <3>1, <3>2
  <2>3. CASE s \in Active
    BY <1>3, <2>1, <2>2, <2>3, PinnedIsKept
  <2>4. CASE Limited /\ GroupLimit < MaxVersions /\ s = visible
    <3>1. {w \in all : w.ts > v.ts} \subseteq new
      <4>1. ASSUME NEW w \in c.vs
            PROVE  ~(w.ts > v.ts)
        BY <1>0, <1>1, <2>1, <2>2, <2>4, <4>1
      <4>. QED  BY <4>1
    <3>2. Cardinality({w \in all : w.ts > v.ts}) < MaxVersions
      BY <2>4, <3>1, GroupIsSmall DEF new
    <3>. QED  BY <1>3, <3>2 DEF Keep
  <2>. QED  BY <2>3, <2>4
<1>. QED  BY <1>2, <1>5, <1>6, <1>7, SameRead DEF c

\* Where nothing of the group has reached a shard, it answers for what is
\* published.
LEMMA ReadableAfter ==
  ASSUME MInv', NEW k \in Key, pc' = "apply" => k \in DOMAIN overlay'
  PROVE  GetAt(k, visible)' = ReadAt(Past(hist', k), visible')
<1>0. TypeOK' /\ Shapes' /\ Serials' /\ Chains'
  BY DEF MInv
<1>1. hist' \in Seq(Entered) /\ Ordered(hist') /\ visible' \in Nat
  BY <1>0 DEF Shapes, Serials, TypeOK
<1>2. Versioned(Past(hist', k))
  BY <1>1, HistoryOf
<1>3. Settled(k)' = UpTo(Past(hist', k), visible')
  BY DEF Settled
<1>4. CASE k \in DOMAIN chain'
  <2>1. Present(chain'[k], UpTo(Past(hist', k), visible'), gcHorizon')
    BY <1>0, <1>3, <1>4 DEF Chains
  <2>. QED  BY <1>1, <1>2, <1>4, <2>1, ReadPresent DEF GetAt
<1>5. CASE k \notin DOMAIN chain'
  <2>1. Absent(UpTo(Past(hist', k), visible'), Swept(k)', Active')
    BY <1>0, <1>3, <1>5 DEF Chains
  <2>. QED  BY <1>1, <1>2, <1>5, <2>1, ReadAbsent DEF GetAt
<1>. QED  BY <1>4, <1>5

\* The published store can always be read.
LEMMA ReadableStep ==
  ASSUME MInv, Limited, GroupLimit < MaxVersions, Readable, [Next]_vars
  PROVE  Readable'
<1>0. MInv' /\ TypeOK /\ Shapes /\ Serials /\ visible \in Nat
  BY MInvStep, Numbers DEF MInv
<1>1. SUFFICES ASSUME NEW k \in Key, pc' = "apply", k \notin DOMAIN overlay'
               PROVE  GetAt(k, visible)' = ReadAt(Past(hist', k), visible')
  BY <1>0, ReadableAfter DEF Readable
<1>2. GetAt(k, visible) = ReadAt(Past(hist, k), visible)
  BY DEF Readable
<1>3. ASSUME UNCHANGED <<chain, visible, hist>>
      PROVE  GetAt(k, visible)' = ReadAt(Past(hist', k), visible')
  BY <1>2, <1>3 DEF GetAt
<1>4. ASSUME NEW j \in Key, ApplyShard(j)
      PROVE  GetAt(k, visible)' = ReadAt(Past(hist', k), visible')
  <2>1. visible' = visible /\ hist' = hist
    BY <1>4 DEF ApplyShard
  <2>2. CASE j = k
    <3>1. GetAt(k, visible)' = ReadAt(ShardOf(k).vs, visible)
      <4>1. GetAt(k, visible)' = ReadFrom(chain', k, visible)
        BY <2>1 DEF GetAt, ReadFrom
      <4>. QED  BY <1>0, <1>4, <2>2, <4>1, PushReads DEF GetAt, ReadFrom
    <3>2. ReadAt(ShardOf(k).vs, visible) = GetAt(k, visible)
      BY ShardReads DEF GetAt, ReadFrom
    <3>. QED  BY <1>2, <2>1, <3>1, <3>2
  <2>3. CASE j # k
    <3>1. (k \in DOMAIN chain' <=> k \in DOMAIN chain)
          /\ (k \in DOMAIN chain => chain'[k] = chain[k])
      BY <1>4, <2>3 DEF ApplyShard
    <3>. QED  BY <1>2, <2>1, <3>1 DEF GetAt
  <2>. QED  BY <2>2, <2>3
<1>5. CASE LogFails
  <2>1. chain' = chain /\ visible' = visible /\ pc = "resolve"
    BY <1>5 DEF LogFails
  <2>2. hist' = SubSeq(hist, 1, Ahead) /\ hist' \in Seq(Entered)
    BY <1>5, LogFailsIs
  <2>3. Settled(k)' = Settled(k)
    <3>1. ~ApplyShard(k)
      BY <2>1 DEF ApplyShard
    <3>. QED  BY <3>1, SettledStep
  <2>4. Past(hist', k) = UpTo(Past(hist, k), visible)
    BY <1>1, <2>1, <2>3 DEF Settled
  <2>5. UpTo(Past(hist', k), visible) = UpTo(Past(hist, k), visible)
    BY <2>4 DEF UpTo
  <2>6. Versioned(Past(hist, k)) /\ Versioned(Past(hist', k))
    BY <1>0, <2>4, HistoryVersioned, VersionedSubset DEF UpTo
  <2>7. ReadAt(Past(hist', k), visible) = ReadAt(Past(hist, k), visible)
    BY <1>0, <2>5, <2>6, ReadIsLast
  <2>. QED  BY <1>2, <2>1, <2>7 DEF GetAt
<1>6. CASE \E r \in Blind : Submit(r)
  BY <1>3, <1>6 DEF Submit, Enqueue
<1>7. ASSUME NEW c \in Client, \/ Begin(c) \/ Drop(c) \/ \E r \in Txn : Commit(c, r) \/ Exec(c, r)
                              \/ \E j \in Key : Watch(c, j)
      PROVE  UNCHANGED <<chain, visible, hist>>
  BY <1>7 DEF Begin, Drop, Commit, Exec, Watch, Enqueue
<1>8. CASE Logged
  BY <1>3, <1>8 DEF Logged
<1>9. CASE Drain \/ (\E g \in ready : Bury(g)) \/ Raise \/ Resolve \/ Publish
  BY <1>1, <1>9 DEF Drain, Bury, Raise, Resolve, Publish
<1>10. CASE UNCHANGED vars
  BY <1>3, <1>10 DEF vars
<1>. QED  BY <1>3, <1>4, <1>5, <1>6, <1>7, <1>8, <1>9, <1>10 DEF Next, FlushStep

\* What a pinned snapshot reads no step changes.
LEMMA PinnedReads ==
  ASSUME MInv, [Next]_vars, NEW s \in Active, NEW k \in Key
  PROVE  ReadFrom(chain', k, s) = ReadFrom(chain, k, s)
<1>0. TypeOK /\ Shapes /\ Serials /\ Chains /\ s \in Nat /\ s <= visible
  BY Numbers DEF MInv
<1>1. CASE chain' = chain
  BY <1>1
<1>2. ASSUME NEW j \in Key, ApplyShard(j)
      PROVE  ReadFrom(chain', k, s) = ReadFrom(chain, k, s)
  <2>1. CASE j = k
    <3>1. ReadFrom(chain', k, s) = ReadAt(ShardOf(k).vs, s)
      BY <1>0, <1>2, <2>1, PushReads DEF GetAt, ReadFrom
    <3>2. ReadAt(ShardOf(k).vs, s) = ReadFrom(chain, k, s)
      BY ShardReads
    <3>. QED  BY <3>1, <3>2
  <2>2. CASE j # k
    <3>1. (k \in DOMAIN chain' <=> k \in DOMAIN chain)
          /\ (k \in DOMAIN chain => chain'[k] = chain[k])
      BY <1>2, <2>2 DEF ApplyShard
    <3>. QED  BY <3>1 DEF ReadFrom
  <2>. QED  BY <2>1, <2>2
<1>3. ASSUME NEW g \in ready, Bury(g)
      PROVE  ReadFrom(chain', k, s) = ReadFrom(chain, k, s)
  <2>1. /\ DOMAIN chain' \subseteq DOMAIN chain
        /\ \A j \in DOMAIN chain' : chain'[j] = chain[j]
        /\ \A j \in Lost : j \in DOMAIN chain /\ ~LatestCell(j).live
           /\ \A t \in Active : chain[j].latest <= t
        /\ \A j \in Lost : j \notin DOMAIN chain'
    BY <1>3, BuryIs DEF Lost
  <2>2. CASE k \in Lost
    <3>1. k \in DOMAIN chain /\ ~LatestCell(k).live /\ chain[k].latest <= s
      BY <2>1, <2>2
    <3>2. Versioned(Settled(k)) /\ chain[k].vs \subseteq Settled(k)
      BY <1>0, <3>1, SettledIsPast DEF Chains, Present
    <3>3. PICK v \in chain[k].vs : Newest(Settled(k), v) /\ v.ts = chain[k].latest /\ ~v.live
      BY <3>1, LatestIs
    <3>4. Versioned(chain[k].vs)
      BY <3>2, VersionedSubset
    <3>5. Newest(UpTo(chain[k].vs, s), v)
      BY <3>1, <3>2, <3>3 DEF Newest, UpTo
    <3>6. ReadAt(chain[k].vs, s) = Nothing
      BY <1>0, <3>3, <3>4, <3>5, ReadAtNewest, CellOfVersion
    <3>. QED  BY <2>1, <2>2, <3>1, <3>6 DEF ReadFrom
  <2>3. CASE k \notin Lost
    <3>1. (k \in DOMAIN chain' <=> k \in DOMAIN chain)
          /\ (k \in DOMAIN chain => chain'[k] = chain[k])
      BY <2>1, <2>3 DEF Lost
    <3>. QED  BY <3>1 DEF ReadFrom
  <2>. QED  BY <2>2, <2>3
<1>4. CASE \E r \in Blind : Submit(r)
  BY <1>1, <1>4 DEF Submit, Enqueue
<1>5. ASSUME NEW c \in Client, \/ Begin(c) \/ Drop(c) \/ \E r \in Txn : Commit(c, r) \/ Exec(c, r)
                              \/ \E j \in Key : Watch(c, j)
      PROVE  chain' = chain
  BY <1>5 DEF Begin, Drop, Commit, Exec, Watch, Enqueue
<1>6. CASE Drain \/ Raise \/ Resolve \/ Logged \/ LogFails \/ Publish
  BY <1>1, <1>6 DEF Drain, Raise, Resolve, Logged, LogFails, Publish
<1>7. CASE UNCHANGED vars
  BY <1>1, <1>7 DEF vars
<1>. QED  BY <1>1, <1>2, <1>3, <1>4, <1>5, <1>6, <1>7 DEF Next, FlushStep

\* What one transaction reads.
Sight(c) == [k \in Key |-> IF Pinned(c) THEN GetAt(k, client[c].snap) ELSE Nothing]

\* The view of the refinement, one transaction at a time, before and after a step.
LEMMA ViewIs ==
  /\ View = [c \in Client |-> [open |-> Pinned(c), store |-> Sight(c)]]
  /\ View' = [c \in Client |-> [open |-> Pinned(c)', store |-> Sight(c)']]
BY DEF View, Sight

\* A transaction that stays open keeps its view.
LEMMA SightKept ==
  ASSUME MInv, [Next]_vars, NEW c \in Client, Pinned(c)' <=> Pinned(c),
         Pinned(c) => client'[c].snap = client[c].snap
  PROVE  Sight(c)' = Sight(c)
<1>1. CASE ~Pinned(c)
  <2>1. Sight(c)' = [k \in Key |-> Nothing] /\ Sight(c) = [k \in Key |-> Nothing]
    BY <1>1 DEF Sight
  <2>. QED  BY <2>1
<1>2. CASE Pinned(c)
  <2>1. client[c].snap \in Active
    BY <1>2 DEF Pinned, Active
  <2>2. ASSUME NEW k \in Key
        PROVE  GetAt(k, client[c].snap)' = GetAt(k, client[c].snap)
    <3>1. ReadFrom(chain', k, client[c].snap) = ReadFrom(chain, k, client[c].snap)
      BY <2>1, PinnedReads
    <3>2. GetAt(k, client[c].snap)' = ReadFrom(chain', k, client'[c].snap)
      BY DEF GetAt, ReadFrom
    <3>3. GetAt(k, client[c].snap) = ReadFrom(chain, k, client[c].snap)
      BY DEF GetAt, ReadFrom
    <3>. QED  BY <1>2, <3>1, <3>2, <3>3
  <2>3. Sight(c)' = [k \in Key |-> GetAt(k, client[c].snap)']
        /\ Sight(c) = [k \in Key |-> GetAt(k, client[c].snap)]
    BY <1>2 DEF Sight
  <2>. QED  BY <2>2, <2>3
<1>. QED  BY <1>1, <1>2

\* A step that opens and ends no transaction changes no view.
LEMMA ViewKept ==
  ASSUME MInv, [Next]_vars,
         \A c \in Client : (Pinned(c)' <=> Pinned(c))
         /\ (Pinned(c) => client'[c].snap = client[c].snap)
  PROVE  View' = View
<1>1. \A c \in Client : Sight(c)' = Sight(c)
  BY SightKept
<1>2. \A c \in Client : Pinned(c)' = Pinned(c)
  <2>1. \A c \in Client : Pinned(c) \in BOOLEAN /\ Pinned(c)' \in BOOLEAN
    BY DEF Pinned
  <2>. QED  BY <2>1, Zenon
<1>3. \A c \in Client : [open |-> Pinned(c)', store |-> Sight(c)'] = [open |-> Pinned(c),
      store |-> Sight(c)]
  BY <1>1, <1>2, Zenon
<1>. QED  BY <1>3, ViewIs, Zenon

\* A step that leaves the commits and the published snapshot alone shows no more.
LEMMA ShownKept ==
  ASSUME MInv, [Next]_vars, hist' = hist, group' = group
  PROVE  Published' = Published
<1>1. Published = Ahead /\ Published' = Len(hist') - Len(group')
  BY PublishedIs, PublishedNext
<1>. QED  BY <1>1 DEF Ahead

\* A stutter of the serial store.
Unseen == hist' = hist /\ Published' = Published /\ View' = View

\* Engine::begin fixes the published store.
LEMMA BeginMaps ==
  ASSUME MInv, Readable, NEW c \in Client, Begin(c)
  PROVE  Serial!Begin(c)
<1>0. [Next]_vars /\ Shapes /\ Serials /\ TypeOK /\ visible \in Nat
  BY Numbers DEF Next, MInv
<1>1. /\ hist' = hist /\ group' = group /\ chain' = chain /\ visible' = visible
         /\ client[c].st = "idle"
      /\ client' = [client EXCEPT ![c] = [st |-> "open", snap |-> visible, key |-> {}]]
  BY DEF Begin
<1>2. /\ client'[c] = [st |-> "open", snap |-> visible, key |-> {}]
      /\ \A d \in Client \ {c} : client'[d] = client[d]
  BY <1>0, <1>1 DEF TypeOK
<1>3. ~Pinned(c) /\ Pinned(c)' /\ \A d \in Client \ {c} : (Pinned(d)' <=> Pinned(d))
      /\ client'[d].snap = client[d].snap
  BY <1>1, <1>2 DEF Pinned
<1>4. Published' = Published
  BY <1>0, <1>1, ShownKept
<1>5. Sight(c)' = Serial!After(hist, Published)
  <2>1. hist \in Seq(Entered) /\ Ordered(hist)
    BY <1>0 DEF Shapes, Serials
  <2>2. \A k \in Key : Serial!After(hist, Published)[k] = ReadAt(Past(hist, k), visible)
    BY <1>0, <2>1, StoreAtIs DEF Published
  <2>3. \A k \in Key : Serial!After(hist, Published)[k] = GetAt(k, visible)
    BY <2>2 DEF Readable
  <2>4. Serial!After(hist, Published) = [k \in Key |-> Serial!After(hist, Published)[k]]
    BY DEF Serial!After
  <2>5. \A k \in Key : GetAt(k, client[c].snap)' = GetAt(k, visible)
    BY <1>1, <1>2 DEF GetAt
  <2>6. Sight(c)' = [k \in Key |-> GetAt(k, client[c].snap)']
    BY <1>3 DEF Sight
  <2>. QED  BY <2>3, <2>4, <2>5, <2>6
<1>6. \A d \in Client \ {c} : Sight(d)' = Sight(d)
  BY <1>0, <1>3, SightKept
<1>7. ~View[c].open
  BY <1>3, ViewIs
<1>8. View' = [View EXCEPT ![c] = [open |-> TRUE, store |-> Serial!After(hist, Published)]]
  <2>1. \A d \in Client \ {c} : Pinned(d)' = Pinned(d)
    <3>1. \A d \in Client : Pinned(d) \in BOOLEAN /\ Pinned(d)' \in BOOLEAN
      BY DEF Pinned
    <3>. QED  BY <1>3, <3>1, Zenon
  <2>2. Pinned(c)' = TRUE
    BY <1>3
  <2>3. \A d \in Client : [open |-> Pinned(d)', store |-> Sight(d)'] =
          IF d = c THEN [open |-> TRUE, store |-> Serial!After(hist, Published)]
                   ELSE [open |-> Pinned(d), store |-> Sight(d)]
    BY <1>5, <1>6, <2>1, <2>2, Zenon
  <2>. QED  BY <2>3, ViewIs
<1>. QED  BY <1>1, <1>4, <1>7, <1>8 DEF Serial!Begin

\* Txn::drop ends it.
LEMMA DropMaps ==
  ASSUME MInv, NEW c \in Client, Drop(c)
  PROVE  Serial!End(c)
<1>0. [Next]_vars /\ TypeOK
  BY DEF Next, MInv
<1>1. /\ hist' = hist /\ group' = group /\ client[c].st \in {"open", "done"}
      /\ client' = [client EXCEPT ![c] = [st |-> "idle", snap |-> 0, key |-> {}]]
  BY DEF Drop
<1>2. /\ client'[c] = [st |-> "idle", snap |-> 0, key |-> {}]
      /\ \A d \in Client \ {c} : client'[d] = client[d]
  BY <1>0, <1>1 DEF TypeOK
<1>3. Pinned(c) /\ ~Pinned(c)' /\ \A d \in Client \ {c} : (Pinned(d)' <=> Pinned(d))
      /\ client'[d].snap = client[d].snap
  BY <1>1, <1>2 DEF Pinned
<1>4. Published' = Published
  BY <1>0, <1>1, ShownKept
<1>5. Sight(c)' = [k \in Key |-> Nothing]
  BY <1>3 DEF Sight
<1>6. \A d \in Client \ {c} : Sight(d)' = Sight(d)
  BY <1>0, <1>3, SightKept
<1>7. View[c].open
  BY <1>3, ViewIs
<1>8. View' = [View EXCEPT ![c] = Serial!Closed]
  <2>1. \A d \in Client \ {c} : Pinned(d)' = Pinned(d)
    <3>1. \A d \in Client : Pinned(d) \in BOOLEAN /\ Pinned(d)' \in BOOLEAN
      BY DEF Pinned
    <3>. QED  BY <1>3, <3>1, Zenon
  <2>2. Pinned(c)' = FALSE
    BY <1>3
  <2>3. Serial!Closed = [open |-> FALSE, store |-> [k \in Key |-> Nothing]]
    BY DEF Serial!Closed, Serial!Nothing, Nothing
  <2>4. \A d \in Client : [open |-> Pinned(d)', store |-> Sight(d)'] =
          IF d = c THEN Serial!Closed ELSE [open |-> Pinned(d), store |-> Sight(d)]
    BY <1>5, <1>6, <2>1, <2>2, <2>3, Zenon
  <2>. QED  BY <2>4, ViewIs
<1>. QED  BY <1>1, <1>4, <1>7, <1>8 DEF Serial!End

\* What the next commit finds is the store the whole history left.
LEMMA CurrentIs ==
  ASSUME MInv, NEW k \in Key
  PROVE  Serial!Current[k] = LastCell(Past(hist, k))
<1>1. hist \in Seq(Entered) /\ Ordered(hist) /\ Len(hist) \in Nat
  BY Sequenced DEF MInv, Shapes, Serials
<1>2. Serial!After(hist, Len(hist))[k] = LastCell(PastTo(hist, Len(hist), k))
  BY <1>1, AfterIsLast
<1>3. PastTo(hist, Len(hist), k) = Past(hist, k)
  BY <1>1, PastToIs
<1>. QED  BY <1>2, <1>3 DEF Serial!Current

\* An increment starts from a cell.
LEMMA CounterIsCell ==
  ASSUME MInv, NEW k \in Key
  PROVE  Counter(k) \in Cell
<1>1. k \in DOMAIN overlay => overlay[k] \in Cell
  BY DEF MInv, TypeOK
<1>2. LatestCell(k) \in Cell
  <2>1. CASE k \in DOMAIN chain
    BY <2>1, LatestIs
  <2>2. CASE k \notin DOMAIN chain
    BY <2>2 DEF LatestCell, Cell
  <2>. QED  BY <2>1, <2>2
<1>. QED  BY <1>1, <1>2 DEF Counter

\* A transaction that passed the conflict check still reads what is current.
LEMMA CheckedIsCurrent ==
  ASSUME MInv, pc = "resolve", NEW p \in Pending, ~Conflict(p), NEW k \in p.req.checks \cap Key,
         p.snap \in Active
  PROVE  GetAt(k, p.snap) = LastCell(Past(hist, k))
<1>0. k \in Key /\ TypeOK /\ Chains /\ Shapes /\ Serials /\ p.snap \in Nat
  BY DEF MInv, Pending
<1>1. k \notin DOMAIN overlay /\ ~(LatestTs(k) > p.snap)
  BY DEF Conflict
<1>2. Counter(k) = LatestCell(k) /\ Counter(k) = LastCell(Past(hist, k))
  BY <1>0, <1>1, CounterIsLast DEF Counter
<1>3. CASE k \in DOMAIN chain
  <2>1. LatestTs(k) = chain[k].latest
    BY <1>3 DEF LatestTs
  <2>2. Versioned(Settled(k)) /\ chain[k].vs \subseteq Settled(k)
    BY <1>0, <1>3, SettledIsPast DEF Chains, Present
  <2>3. PICK v \in chain[k].vs : Newest(Settled(k), v) /\ v.ts = chain[k].latest
             /\ LatestCell(k) = CellOf(v)
    BY <1>0, <1>3, LatestIs
  <2>4. Versioned(chain[k].vs)
    BY <2>2, VersionedSubset
  <2>5. v.ts \in Nat /\ v.ts <= p.snap
    BY <1>0, <1>1, <2>1, <2>3, <2>4 DEF Versioned, Version
  <2>6. Newest(UpTo(chain[k].vs, p.snap), v)
    BY <2>2, <2>3, <2>5 DEF Newest, UpTo
  <2>7. ReadAt(chain[k].vs, p.snap) = CellOf(v)
    BY <1>0, <2>4, <2>6, ReadAtNewest
  <2>. QED  BY <1>2, <1>3, <2>3, <2>7 DEF GetAt
<1>4. CASE k \notin DOMAIN chain
  <2>1. LastCell(Past(hist, k)) = Nothing
    BY <1>0, <1>1, <1>4, CounterIsLast
  <2>. QED  BY <1>4, <2>1 DEF GetAt
<1>. QED  BY <1>3, <1>4

\* A commit that applies enters the serial log.
LEMMA ResolveMaps ==
  ASSUME MInv, Resolve, Applies(batch[1])
  PROVE  Serial!Enter
<1>. DEFINE p == batch[1]
            e == EnteredOf(p)
<1>0. [Next]_vars /\ TypeOK /\ Shapes /\ Serials /\ Waits
  BY DEF MInv, Next, FlushStep
<1>1. /\ p \in Pending /\ e \in Entered /\ 1 \in DOMAIN batch
      /\ hist' = Append(hist, e) /\ Len(hist') = Len(hist) + 1 /\ hist'[Len(hist) + 1] = e
      /\ Len(group') = Len(group) + 1
  BY ResolveIs, TailIs
<1>2. pc = "resolve" /\ client' = client
  BY DEF Resolve
<1>. HIDE DEF e
<1>3. hist \in Seq(Entered)
  BY <1>0 DEF Shapes
<1>4. SubSeq(hist', 1, Len(hist)) = hist
  BY <1>1, <1>3, AppendProperties
<1>5. Published' = Published
  <2>1. Published = Len(hist) - Len(group) /\ Published' = Len(hist') - Len(group')
    BY PublishedIs, <1>0, PublishedNext DEF Ahead
  <2>2. Len(hist) \in Nat /\ Len(group) \in Nat
    BY <1>0, Sequenced
  <2>. QED  BY <1>1, <2>1, <2>2
<1>6. View' = View
  <2>1. \A c \in Client : (Pinned(c)' <=> Pinned(c)) /\ client'[c].snap = client[c].snap
    BY <1>2 DEF Pinned
  <2>. QED  BY <1>0, <2>1, ViewKept
<1>7. ~Overflow(p) /\ ~Conflict(p)
  BY DEF Applies
<1>8. /\ DOMAIN Cells(p) = Writes(p.req) /\ Writes(p.req) \subseteq Key
      /\ p.req.checks \subseteq Key /\ p.req.incr \subseteq Key
  BY <1>1, <1>7, CellsType
<1>9. e.who = p.who /\ e.checks = p.req.checks /\ e.incr = p.req.incr /\ e.cells = Cells(p)
  BY DEF e, EnteredOf
<1>10. ASSUME e.who # NoClient, NEW k \in e.checks
       PROVE  View[e.who].store[k] = Serial!Current[k]
  <2>1. p.who \in Client /\ k \in p.req.checks \cap Key
    BY <1>1, <1>8, <1>9, <1>10 DEF Pending
  <2>2. client[p.who].st = "waiting" /\ client[p.who].snap = p.snap
    BY <1>0, <1>1, <1>9, <1>10 DEF Waits
  <2>3. Pinned(p.who) /\ p.snap \in Active
    BY <2>1, <2>2 DEF Pinned, Active
  <2>4. GetAt(k, p.snap) = LastCell(Past(hist, k))
    <3>. HIDE DEF p
    <3>. QED  BY <1>1, <1>2, <1>7, <2>1, <2>3, CheckedIsCurrent
  <2>5. View[p.who].store[k] = GetAt(k, p.snap)
    BY <2>1, <2>2, <2>3, ViewIs DEF Sight
  <2>. QED  BY <1>9, <2>1, <2>4, <2>5, CurrentIs
<1>11. ASSUME NEW k \in e.incr
       PROVE  e.cells[k] = [live |-> TRUE,
              n |-> (IF Serial!Current[k].live THEN Serial!Current[k].n ELSE 0) + 1]
  <2>1. k \in Key /\ k \in p.req.incr /\ k \in Writes(p.req)
    BY <1>8, <1>9 DEF Writes
  <2>2. e.cells[k] = [live |-> TRUE, n |-> Counter(k).n + 1]
    BY <1>9, <2>1 DEF Cells
  <2>3. Counter(k) = Serial!Current[k]
    BY <1>2, <2>1, CounterIsLast, CurrentIs
  <2>4. Counter(k).n = IF Counter(k).live THEN Counter(k).n ELSE 0
    <3>1. Counter(k) \in Cell
      BY <1>2, <2>1, CounterIsCell
    <3>. QED  BY <3>1, CellFields
  <2>. QED  BY <2>2, <2>3, <2>4
<1>12. Serial!Valid(e)
  BY <1>10, <1>11 DEF Serial!Valid
<1>. QED  BY <1>1, <1>4, <1>5, <1>6, <1>12 DEF Serial!Enter

\* A group that could not be logged is taken back.
LEMMA LogFailsMaps ==
  ASSUME MInv, LogFails
  PROVE  Serial!Retract
<1>0. [Next]_vars /\ TypeOK /\ Shapes /\ Serials
  BY DEF MInv, Next, FlushStep
<1>1. hist' = SubSeq(hist, 1, Ahead) /\ Len(hist') = Ahead /\ group' = <<>> /\ client' = client
  BY LogFailsIs DEF LogFails
<1>2. Published = Ahead /\ Ahead \in 0..Len(hist) /\ Published' = Len(hist') - Len(group')
  BY <1>0, PublishedIs, PublishedNext
<1>3. Len(group') = 0 /\ Len(hist) \in Nat
  BY <1>0, <1>1, Sequenced
<1>4. Published' = Published
  BY <1>1, <1>2, <1>3
<1>5. View' = View
  <2>1. \A c \in Client : (Pinned(c)' <=> Pinned(c)) /\ client'[c].snap = client[c].snap
    BY <1>1 DEF Pinned
  <2>. QED  BY <1>0, <2>1, ViewKept
<1>. QED  BY <1>1, <1>2, <1>4, <1>5 DEF Serial!Retract

\* Publishing shows the whole history.
LEMMA PublishMaps ==
  ASSUME MInv, Publish
  PROVE  Serial!Show
<1>0. [Next]_vars /\ TypeOK /\ Shapes /\ Serials
  BY DEF MInv, Next, FlushStep
<1>1. hist' = hist /\ group' = <<>>
  BY DEF Publish
<1>2. Published = Ahead /\ Ahead \in 0..Len(hist) /\ Published' = Len(hist') - Len(group')
  BY <1>0, PublishedIs, PublishedNext
<1>3. Len(group') = 0 /\ Len(hist) \in Nat
  BY <1>0, <1>1, Sequenced
<1>4. Published' \in Published..Len(hist)
  BY <1>1, <1>2, <1>3
<1>5. View' = View
  <2>1. \A c \in Client : (Pinned(c)' <=> Pinned(c)) /\ client'[c].snap = client[c].snap
    <3>1. \A c \in Client : client'[c] = IF client[c].st = "waiting"
          /\ \A i \in DOMAIN queue : queue[i].who # c
                                         THEN [client[c] EXCEPT !.st = "done"] ELSE client[c]
      BY DEF Publish
    <3>2. \A c \in Client : client[c] \in [st : {"idle", "open", "waiting", "done", "watching"},
                                           snap : 0..visible, key : SUBSET Key]
      BY <1>0 DEF TypeOK
    <3>. QED  BY <3>1, <3>2 DEF Pinned
  <2>. QED  BY <1>0, <2>1, ViewKept
<1>. QED  BY <1>1, <1>4, <1>5 DEF Serial!Show

\* A step that leaves the history, the group, and who has a snapshot alone is
\* not seen.
LEMMA OtherMaps ==
  ASSUME MInv, [Next]_vars, hist' = hist, group' = group,
         \A c \in Client : (Pinned(c)' <=> Pinned(c))
         /\ (Pinned(c) => client'[c].snap = client[c].snap)
  PROVE  Unseen
BY ShownKept, ViewKept DEF Unseen

\* Every step of the engine is a step of the serial store, or a stutter.
LEMMA StepMaps ==
  ASSUME MInv, Readable, [Next]_vars
  PROVE  Serial!Next \/ Unseen
<1>0. MInv /\ TypeOK /\ Queued /\ Shapes
  BY DEF MInv
<1>a. ASSUME UNCHANGED <<hist, group, client>>
      PROVE  Unseen
  BY <1>a, OtherMaps DEF Pinned
<1>1. CASE \E r \in Blind : Submit(r)
  BY <1>1, <1>a DEF Submit, Enqueue
<1>2. ASSUME NEW c \in Client, Begin(c)
      PROVE  Serial!Next
  BY <1>2, BeginMaps DEF Serial!Next
<1>3. ASSUME NEW c \in Client, Drop(c)
      PROVE  Serial!Next
  BY <1>3, DropMaps DEF Serial!Next
<1>4. ASSUME NEW c \in Client, NEW r \in Txn, Commit(c, r) \/ Exec(c, r)
      PROVE  Unseen
  <2>1. hist' = hist /\ group' = group
    BY <1>4 DEF Commit, Exec, Enqueue
  <2>2. \A d \in Client \ {c} : client'[d] = client[d]
    BY <1>0, <1>4 DEF TypeOK, Commit, Exec
  <2>3. (Pinned(c)' <=> Pinned(c)) /\ (Pinned(c) => client'[c].snap = client[c].snap)
    BY <1>0, <1>4 DEF TypeOK, Commit, Exec, Pinned
  <2>4. \A d \in Client : (Pinned(d)' <=> Pinned(d))
        /\ (Pinned(d) => client'[d].snap = client[d].snap)
    BY <2>2, <2>3 DEF Pinned
  <2>. QED  BY <2>1, <2>4, OtherMaps
<1>5. ASSUME NEW c \in Client, NEW k \in Key, Watch(c, k)
      PROVE  Unseen
  <2>1. hist' = hist /\ group' = group
    BY <1>5 DEF Watch
  <2>2. \A d \in Client \ {c} : client'[d] = client[d]
    BY <1>0, <1>5 DEF TypeOK, Watch
  <2>3. ~Pinned(c)' /\ ~Pinned(c)
    BY <1>0, <1>5 DEF TypeOK, Watch, Pinned
  <2>4. \A d \in Client : (Pinned(d)' <=> Pinned(d))
        /\ (Pinned(d) => client'[d].snap = client[d].snap)
    BY <2>2, <2>3 DEF Pinned
  <2>. QED  BY <2>1, <2>4, OtherMaps
<1>6. CASE Drain
  <2>1. UNCHANGED <<hist, group, client>>
    BY <1>0, <1>6 DEF Drain, Queued
  <2>. QED  BY <1>a, <2>1
<1>6a. CASE (\E g \in ready : Bury(g)) \/ Raise
  BY <1>6a, <1>a DEF Bury, Raise
<1>7. CASE Resolve
  <2>1. CASE Applies(batch[1])
    BY <1>7, <2>1, ResolveMaps DEF Serial!Next
  <2>2. CASE ~Applies(batch[1])
    <3>1. UNCHANGED <<hist, group, client>>
      BY <1>7, <2>2, ResolveIs DEF Resolve
    <3>. QED  BY <1>a, <3>1
  <2>. QED  BY <2>1, <2>2
<1>8. CASE Logged
  BY <1>8, <1>a DEF Logged
<1>9. CASE LogFails
  BY <1>9, LogFailsMaps DEF Serial!Next
<1>10. ASSUME NEW k \in Key, ApplyShard(k)
       PROVE  Unseen
  BY <1>10, <1>a DEF ApplyShard
<1>11. CASE Publish
  BY <1>11, PublishMaps DEF Serial!Next
<1>12. CASE UNCHANGED vars
  BY <1>12, <1>a DEF vars
<1>. QED  BY <1>1, <1>2, <1>3, <1>4, <1>5, <1>6, <1>6a, <1>7, <1>8, <1>9, <1>10, <1>11,
             <1>12 DEF Next, FlushStep

\* At the start nothing is committed and nobody reads.
LEMMA InitMaps ==
  ASSUME Init
  PROVE  Serial!Init /\ Readable /\ Limited
<1>1. hist = <<>> /\ DOMAIN chain = {} /\ queue = <<>> /\ batch = <<>> /\ group = <<>>
      /\ DOMAIN hist = {}
  BY DEF Init
<1>2. Published = 0
  <2>1. {i \in DOMAIN hist : hist[i].ts <= visible} = {}
    BY <1>1
  <2>. QED  BY <2>1, FS_EmptySet DEF Published
<1>3. View = [c \in Client |-> Serial!Closed]
  <2>1. ASSUME NEW c \in Client
        PROVE  Pinned(c) = FALSE
    BY DEF Init, Pinned
  <2>2. ASSUME NEW c \in Client
        PROVE  Sight(c) = [k \in Key |-> Nothing]
    BY <2>1 DEF Sight
  <2>3. Serial!Closed = [open |-> FALSE, store |-> [k \in Key |-> Nothing]]
    BY DEF Serial!Closed, Serial!Nothing, Nothing
  <2>4. View = [c \in Client |-> [open |-> Pinned(c), store |-> Sight(c)]]
    BY DEF View, Sight
  <2>. QED  BY <2>1, <2>2, <2>3, <2>4
<1>4. \A k \in Key : Past(hist, k) = {} /\ GetAt(k, visible) = Nothing
  BY <1>1 DEF Past, GetAt
<1>5. Readable
  BY <1>4, ReadAtNone DEF Readable
<1>6. \A k : QueuedTs(k) = {} /\ GroupTs(k) = {}
  BY <1>1 DEF QueuedTs, GroupTs, Past
<1>7. GroupLimit \in Nat
  BY BoundAssumption
<1>8. Limited
  BY <1>6, <1>7, FS_EmptySet DEF Limited
<1>. QED  BY <1>1, <1>2, <1>3, <1>5, <1>8 DEF Serial!Init

\* The engine implements the serial store, whatever the keys, clients and
\* requests: the groups the flusher takes only have to write one key fewer times
\* than the chain keeps versions (begin, resolve, apply_refs_to_shards, publish).
\* With more, a snapshot taken while a group is applied may miss the version it
\* should read: the run PublishedIsReadable shows one.
THEOREM EngineIsSerial ==
  ASSUME GroupLimit < MaxVersions
  PROVE  Spec => ImplementsSerialStore
<1>1. Init => Serial!Init /\ MInv /\ Limited /\ Readable
  BY InitMaps, MInvInit
<1>2. MInv /\ Limited /\ Readable /\ [Next]_vars => MInv' /\ Limited' /\ Readable'
  BY MInvStep, LimitedStep, ReadableStep
<1>3. MInv /\ Readable /\ [Next]_vars => [Serial!Next]_Serial!sVars
  BY StepMaps DEF Unseen, Serial!sVars
<1>. QED  BY <1>1, <1>2, <1>3, PTL DEF Spec, ImplementsSerialStore, Serial!Spec
=============================================================================
