----------------------------- MODULE TieredPool -----------------------------
(* vugva-core's TieredPool: pages that live in device memory, in pinned DRAM *)
(* or in the spill file, and the operations that move them.  Every operation *)
(* takes &mut self, so they come one after another; what runs beside them is *)
(* the copy a prefetch leaves on the device's prefetch stream.  The contents *)
(* of a page are not modelled, only which copies of them are current: a      *)
(* place holds the number of the shard whose latest bytes it has, Whole, or  *)
(* Stale.  One unit of memory is whatever the pools align to.                *)
EXTENDS Naturals, Sequences, FiniteSets, FiniteSetsExt

CONSTANTS
  Pages,      \* names of allocations
  Gpus,       \* how many GPUs; they and their DRAM pools are 1..Gpus
  Sizes,      \* sizes an allocation may ask for
  DramCap,    \* units of each DRAM pool
  VramCap,    \* units of each device
  SpillCap,   \* units of the spill file
  RingCap,    \* descriptors a DMA ring takes before it is full
  Budget      \* units of device memory the membrane may fill

None == [tier |-> "none"]
Stale == 0
Whole == Gpus + 1
Shard == 1..Gpus

VARIABLES
  page,       \* the virtual memory table
  made,       \* device blocks obtained from the driver so far
  cache,      \* vram_free: the blocks kept for reuse
  holds,      \* what each device block contains
  inflight,   \* prefetches not yet claimed
  copies,     \* per device, copies queued on its prefetch stream
  ring,       \* per device, descriptors submitted and never acknowledged
  dram,       \* per pool, units handed out
  spill,      \* units of the spill file handed out
  membrane,   \* whether enable_membrane was called
  sweep,      \* what the sweep in progress has still to do
  outrun,     \* names whose prefetch was issued before their last write or allocation
  exposed     \* pages whose device copy the pool made or left stale: see Exposed

vars == <<page, made, cache, holds, inflight, copies, ring, dram, spill, membrane, sweep, outrun, exposed>>
memory == <<page, made, cache, holds, inflight, copies, ring, dram, spill, membrane, outrun, exposed>>

Idle == [demote |-> {}, promote |-> {}, strict |-> FALSE]

Init ==
  /\ page = [p \in Pages |-> None]
  /\ made = {} /\ cache = {} /\ holds = <<>>
  /\ inflight = [p \in Pages |-> None]
  /\ copies = [g \in Shard |-> <<>>]
  /\ ring = [g \in Shard |-> 0]
  /\ dram = [g \in Shard |-> 0] /\ spill = 0
  /\ membrane = FALSE /\ sweep = Idle
  /\ outrun = {} /\ exposed = [p \in Pages |-> FALSE]

Live(p) == page[p] # None
OnDevice(p) == {page[p].vram[i].id : i \in DOMAIN page[p].vram}

(* The last pool takes what the division leaves over.                        *)
ShardSize(size, i) == size \div Gpus + IF i = Gpus THEN size % Gpus ELSE 0

(* Device memory ----------------------------------------------------------- *)

(* A cached block of exactly the size wanted, or a new one while the device  *)
(* has room for it.                                                          *)
Handed(from, g, size) ==
  LET same == {b \in from : b.gpu = g /\ b.size = size}
      used == MapThenSumSet(LAMBDA b : b.size, {b \in made : b.gpu = g})
  IN  IF same # {} THEN same
      ELSE IF used + size <= VramCap
           THEN {[id |-> Cardinality(made) + 1, gpu |-> g, size |-> size]}
           ELSE {}

Take(b, from) == cache' = from \ {b} /\ made' = made \cup {b}
Fill(b, what) == holds' = [i \in DOMAIN holds \cup {b.id} |-> IF i = b.id THEN what ELSE holds[i]]

(* What follows is no promise of the pool's for a page whose device copy did *)
(* not come from its last bytes.  There are three ways to that, and no other *)
(* step sets the mark: the page was written over a device copy (Write), a    *)
(* prefetch older than the page's bytes was claimed (Claim), or the copy up  *)
(* failed and nobody looked (AccessWarm).                                    *)
Exposed(p, why) == exposed' = [exposed EXCEPT ![p] = @ \/ why]

(* The page p is now in block b too, and device memory is where it lives.    *)
Attach(p, b) == page' = [page EXCEPT ![p].tier = "Vram", ![p].vram = Append(@, b)]

(* Allocation -------------------------------------------------------------- *)

Empty(tier, size) == [tier |-> tier, size |-> size, vram |-> <<>>, dram |-> <<>>, spill |-> Stale]

(* Under the name p there may be a page already: the table forgets it, and   *)
(* copies started from it read memory that is not this page's.  A prefetch   *)
(* of the old page stays on record under the name.                           *)
Detached(p) ==
  [g \in Shard |-> [i \in DOMAIN copies[g] |->
     IF copies[g][i].from = {p} THEN [copies[g][i] EXCEPT !.from = {}] ELSE copies[g][i]]]

Outrun(p) == outrun' = IF inflight[p] = None THEN outrun ELSE outrun \cup {p}

Born(p, new) ==
  /\ page' = [page EXCEPT ![p] = new]
  /\ exposed' = [exposed EXCEPT ![p] = FALSE] /\ Outrun(p)
  /\ copies' = Detached(p)
  /\ UNCHANGED <<made, cache, holds, inflight, ring, membrane>>

AllocateCold(p, size) ==
  /\ IF spill + size <= SpillCap
     THEN spill' = spill + size /\ Born(p, [Empty("Ssd", size) EXCEPT !.spill = Whole])
     ELSE Born(p, Empty("Vram", size)) /\ UNCHANGED spill
  /\ UNCHANGED dram

(* The pools give their shards in order; the first that cannot ends the      *)
(* call and leaves the entry as it is.  A fragmented pool may refuse a size  *)
(* it has room for.                                                          *)
AllocateWarm(p, size, tier) ==
  \E n \in 0..Gpus :
    /\ \A i \in 1..n : dram[i] + ShardSize(size, i) <= DramCap
    /\ n < Gpus => dram[n + 1] + ShardSize(size, n + 1) > DramCap \/ dram[n + 1] > 0
    /\ dram' = [i \in Shard |-> dram[i] + IF i <= n THEN ShardSize(size, i) ELSE 0]
    /\ Born(p, [Empty(tier, size) EXCEPT !.dram = [i \in 1..n |-> i]])
    /\ UNCHANGED spill

Allocate(p, size) ==
  \/ AllocateCold(p, size)
  \/ \E tier \in {"Vram", "Dram"} : AllocateWarm(p, size, tier)

Deallocate(p) ==
  /\ Live(p)
  /\ cache' = cache \cup {page[p].vram[i] : i \in DOMAIN page[p].vram}
  /\ dram' = [i \in Shard |->
       dram[i] - IF i \in DOMAIN page[p].dram THEN ShardSize(page[p].size, i) ELSE 0]
  /\ page' = [page EXCEPT ![p] = None]
  /\ exposed' = [exposed EXCEPT ![p] = FALSE]
  /\ copies' = Detached(p)
  /\ UNCHANGED <<made, holds, inflight, ring, spill, membrane, outrun>>

(* Promotion --------------------------------------------------------------- *)

Fails == UNCHANGED <<page, made, holds, ring, exposed>>

(* The page is in this device's memory, or in another's and copied across.   *)
AccessHot(p, g, from, ok) ==
  LET mine == {i \in DOMAIN page[p].vram : page[p].vram[i].gpu = g}
      peers == {i \in DOMAIN page[p].vram : page[p].vram[i].gpu # g}
  IN  /\ page[p].tier = "Vram"
      /\ \/ mine # {} /\ ok /\ cache' = from /\ Fails
         \/ mine = {} /\ peers = {} /\ ~ok /\ cache' = from /\ Fails
         \/ /\ mine = {} /\ peers # {}
            /\ LET src == page[p].vram[Min(peers)]
                   dst == Handed(from, g, src.size)
               IN  \/ dst = {} /\ ~ok /\ cache' = from /\ Fails
                   \/ /\ ok
                      /\ \E b \in dst : Take(b, from) /\ Fill(b, holds[src.id]) /\ Attach(p, b)
                      /\ UNCHANGED <<ring, exposed>>

(* The block is taken before the descriptor is submitted, and a full ring or *)
(* a stream that cannot be waited for ends the call without giving it back.  *)
(* Whether the copy was queued at all nobody asks: if not, the page gets the *)
(* block as it was.                                                          *)
AccessWarm(p, g, from, ok) ==
  /\ page[p].tier = "Dram"
  /\ IF g \notin DOMAIN page[p].dram THEN ~ok /\ cache' = from /\ Fails
     ELSE LET dst == Handed(from, g, ShardSize(page[p].size, g))
          IN  \/ dst = {} /\ ~ok /\ cache' = from /\ Fails
              \/ /\ ~ok
                 /\ \E b \in dst : Take(b, from) /\ Fill(b, Stale)
                 /\ ring' = [ring EXCEPT ![g] = Min({@ + 1, RingCap})]
                 /\ UNCHANGED <<page, exposed>>
              \/ /\ ring[g] < RingCap /\ ok
                 /\ \E b \in dst, queued \in BOOLEAN :
                      /\ Take(b, from) /\ Attach(p, b) /\ Exposed(p, ~queued)
                      /\ Fill(b, IF queued THEN page[p].dram[g] ELSE Stale)
                 /\ ring' = [ring EXCEPT ![g] = @ + 1]

(* Staged through a buffer the pool lends for the call; without one, or when *)
(* the file cannot be read, the block goes to the cache.                     *)
AccessCold(p, g, from, ok) ==
  /\ page[p].tier = "Ssd"
  /\ LET dst == Handed(from, g, page[p].size)
     IN  \/ dst = {} /\ ~ok /\ cache' = from /\ Fails
         \/ /\ ~ok
            /\ \E b \in dst : cache' = from \cup {b} /\ made' = made \cup {b} /\ Fill(b, Stale)
            /\ UNCHANGED <<page, ring, exposed>>
         \/ /\ ok
            /\ \E b \in dst : Take(b, from) /\ Fill(b, page[p].spill) /\ Attach(p, b)
            /\ UNCHANGED <<ring, exposed>>

ClaimTwice(p, g, ok) ==
  /\ \A i \in DOMAIN copies[g] : copies[g][i].to # inflight[p]
  /\ IF Live(p) THEN ok /\ Attach(p, inflight[p]) /\ Exposed(p, p \in outrun)
                ELSE ~ok /\ UNCHANGED <<page, exposed>>
  /\ UNCHANGED <<inflight, made, cache, holds, ring>>

(* A prefetch for this device is waited for and becomes the page's block,    *)
(* with whatever it read when it was issued; the name may be free again by   *)
(* then, and the call panics.                                                *)
Claim(p, g, ok) ==
  LET b == inflight[p]
  IN  /\ \A i \in DOMAIN copies[g] : copies[g][i].to # b
      /\ inflight' = [inflight EXCEPT ![p] = None]
      /\ IF Live(p) THEN ok /\ Attach(p, b) /\ Exposed(p, p \in outrun)
                    ELSE ~ok /\ UNCHANGED <<page, exposed>>
      /\ UNCHANGED <<made, cache, holds, ring>>

Prefetched(p, g) == inflight[p] # None /\ inflight[p].gpu = g

(* A prefetch for another device is dropped first: its block is reusable at  *)
(* once, whatever the stream still does with it.                             *)
AccessNow(p, g, ok) ==
  LET from == IF inflight[p] = None THEN cache ELSE cache \cup {inflight[p]}
  IN  /\ inflight' = [inflight EXCEPT ![p] = None]
      /\ IF Live(p)
         THEN AccessHot(p, g, from, ok) \/ AccessWarm(p, g, from, ok) \/ AccessCold(p, g, from, ok)
         ELSE ~ok /\ cache' = from /\ Fails

Access(p, g, ok) ==
  /\ IF Prefetched(p, g) THEN Claim(p, g, ok) ELSE AccessNow(p, g, ok)
  /\ outrun' = outrun \ {p}
  /\ UNCHANGED <<copies, dram, spill, membrane>>

(* Only the first shard's address is looked at, and the whole size copied.   *)
Prefetch(p, g) ==
  /\ inflight[p] = None /\ Live(p) /\ page[p].tier = "Dram" /\ page[p].dram # <<>>
  /\ \E b \in Handed(cache, g, page[p].size) :
       /\ Take(b, cache) /\ Fill(b, Stale)
       /\ inflight' = [inflight EXCEPT ![p] = b]
       /\ copies' = [copies EXCEPT ![g] = Append(@, [to |-> b, from |-> {p}])]
  /\ UNCHANGED <<page, ring, dram, spill, membrane, outrun, exposed>>

(* The copy engine reads the shard when it gets to it.  Its bytes mean       *)
(* something to the page they came from only, and only if they are all of it.*)
(* One that is written while it is read is a block of an outrun prefetch.    *)
Land(g) ==
  /\ copies[g] # <<>>
  /\ LET c == Head(copies[g])
         kept == {p \in c.from : c.to = inflight[p] \/ c.to.id \in OnDevice(p)}
     IN  Fill(c.to, IF kept = {} \/ Gpus > 1 THEN Stale ELSE page[CHOOSE p \in kept : TRUE].dram[1])
  /\ copies' = [copies EXCEPT ![g] = Tail(@)]
  /\ UNCHANGED <<page, made, cache, inflight, ring, dram, spill, membrane, sweep, outrun, exposed>>

(* Demotion ---------------------------------------------------------------- *)

From(p, g, done) == {i \in done : page[p].vram[i].gpu = g}

(* The shards of p after the blocks `done` were copied over them.            *)
NotWrittenBack(p, done) == page[p].dram
WrittenBack(p, done) ==
  [g \in DOMAIN page[p].dram |->
     LET mine == From(p, g, done)
     IN  IF mine = {} THEN page[p].dram[g]
         ELSE IF holds[page[p].vram[Max(mine)].id] = g THEN g ELSE Stale]

(* Each block is written over the shard of its own device and cached.  The   *)
(* first that has no shard, does not fit it or finds the ring full ends the  *)
(* call; the blocks before it are cached and still the page's.               *)
Demote(p, ok) ==
  /\ \/ ~Live(p) /\ ~ok /\ UNCHANGED <<page, cache, ring>>
     \/ Live(p) /\ page[p].tier # "Vram" /\ ok /\ UNCHANGED <<page, cache, ring>>
     \/ /\ Live(p) /\ page[p].tier = "Vram"
        /\ LET chunk == page[p].vram
               bad == {i \in DOMAIN chunk : LET g == chunk[i].gpu IN
                         \/ g \notin DOMAIN page[p].dram
                         \/ chunk[i].size > ShardSize(page[p].size, g)
                         \/ ring[g] = RingCap}
               done == IF bad = {} THEN DOMAIN chunk ELSE 1..(Min(bad) - 1)
           IN  /\ ok = (bad = {})
               /\ page' = [page EXCEPT ![p].dram = WrittenBack(p, done),
                                       ![p].vram = IF ok THEN <<>> ELSE @,
                                       ![p].tier = IF ok THEN "Dram" ELSE @]
               /\ cache' = cache \cup {chunk[i] : i \in done}
               /\ ring' = [g \in Shard |-> ring[g] + Cardinality(From(p, g, done))]
  /\ UNCHANGED <<made, holds, inflight, copies, dram, spill, membrane, outrun, exposed>>

(* Writers ----------------------------------------------------------------- *)

(* write_page: to the file for a cold page, to the DRAM shards for any other;*)
(* a page without shards refuses.  Over a device copy it leaves that one     *)
(* stale; a page without one is whole again, but not a prefetch of it.       *)
Write(p) ==
  /\ Live(p)
  /\ IF page[p].tier = "Ssd"
     THEN page' = [page EXCEPT ![p].spill = Whole] /\ UNCHANGED <<holds, outrun, exposed>>
     ELSE /\ page[p].dram # <<>>
          /\ page' = [page EXCEPT ![p].dram = [i \in DOMAIN page[p].dram |-> i]]
          /\ LET ahead == IF inflight[p] = None THEN {} ELSE {inflight[p].id}
             IN  holds' = [i \in DOMAIN holds |->
                             IF i \in OnDevice(p) \cup ahead THEN Stale ELSE holds[i]]
          /\ exposed' = [exposed EXCEPT ![p] = page[p].vram # <<>>] /\ Outrun(p)
  /\ UNCHANGED <<made, cache, inflight, copies, ring, dram, spill, membrane>>

(* A kernel of the framework rewrites the block it was given.                *)
Compute(p) ==
  /\ Live(p)
  /\ \E i \in DOMAIN page[p].vram :
       LET mine == page[p].vram[i].id
           what == holds[mine]
       IN  /\ what # Stale
           /\ holds' = [k \in DOMAIN holds |->
                          IF k \in OnDevice(p) \ {mine} /\ holds[k] = what THEN Stale ELSE holds[k]]
           /\ page' = [page EXCEPT ![p].dram = [k \in DOMAIN @ |-> IF k = what THEN Stale ELSE @[k]],
                                   ![p].spill = IF what = Whole THEN Stale ELSE @]
  /\ UNCHANGED <<made, cache, inflight, copies, ring, dram, spill, membrane, outrun, exposed>>

(* The sweeps -------------------------------------------------------------- *)

EnableMembrane ==
  /\ ~membrane /\ membrane' = TRUE
  /\ UNCHANGED <<page, made, cache, holds, inflight, copies, ring, dram, spill, outrun, exposed>>

(* Without the membrane: any pages may have gone idle, any may be hot.       *)
SweepByAge ==
  /\ ~membrane
  /\ \E d \in SUBSET {p \in Pages : Live(p) /\ page[p].tier = "Vram"
                                     /\ (page[p].vram # <<>> \/ Len(page[p].dram) = Gpus)} :
     \E h \in SUBSET {p \in Pages : Live(p) /\ page[p].tier = "Dram"} :
       sweep' = [demote |-> d, promote |-> h, strict |-> TRUE]

(* The pages that fit the budget when they are taken in the order `rank`.    *)
Kept[rank \in Seq(Pages), used \in Nat] ==
  IF rank = <<>> THEN {}
  ELSE LET p == Head(rank)
       IN  IF used + page[p].size <= Budget THEN {p} \cup Kept[Tail(rank), used + page[p].size]
           ELSE Kept[Tail(rank), used]

SweepByRank ==
  LET live == {p \in Pages : Live(p)}
  IN  /\ membrane
      /\ \E rank \in {r \in [1..Cardinality(live) -> live] : \A i, j \in DOMAIN r : r[i] = r[j] => i = j} :
           LET keep == Kept[rank, 0]
           IN  sweep' = [demote |-> live \ keep, promote |-> {p \in live \cap keep : page[p].tier # "Vram"},
                         strict |-> FALSE]

(* Demotions first, and an error of one ends the sweep; so does an error of  *)
(* a promotion, except under the membrane.                                   *)
SweepDemotes ==
  \E p \in sweep.demote, ok \in BOOLEAN :
    /\ Demote(p, ok)
    /\ sweep' = IF ok THEN [sweep EXCEPT !.demote = @ \ {p}] ELSE Idle

SweepPromotes ==
  /\ sweep.demote = {}
  /\ \E p \in sweep.promote, ok \in BOOLEAN :
       /\ Access(p, 1, ok)
       /\ sweep' = IF ok \/ ~sweep.strict THEN [sweep EXCEPT !.promote = @ \ {p}] ELSE Idle

Sweeping == sweep.demote # {} \/ sweep.promote # {}

Call ==
  /\ ~Sweeping
  /\ \/ UNCHANGED sweep /\
          \/ \E p \in Pages : \/ \E size \in Sizes : Allocate(p, size)
                              \/ \E g \in Shard : Prefetch(p, g)
                              \/ \E g \in Shard, ok \in BOOLEAN : Access(p, g, ok)
                              \/ \E ok \in BOOLEAN : Demote(p, ok)
                              \/ Write(p) \/ Compute(p) \/ Deallocate(p)
          \/ EnableMembrane
     \/ UNCHANGED memory /\ (SweepByAge \/ SweepByRank)

Next == Call \/ SweepDemotes \/ SweepPromotes \/ \E g \in Shard : Land(g)

Spec == Init /\ [][Next]_vars

(* Properties -------------------------------------------------------------- *)

(* No device block is handed out twice: it is cached, or a prefetch's, or    *)
(* one page's, and never two of these (tiered.rs, alloc_vram_on_gpu and      *)
(* free_vram_on_gpu, called from every operation and its error paths).       *)
BlocksHaveOneOwner ==
  \A b \in made :
    Cardinality({p \in Pages : inflight[p] = b})
      + Cardinality(UNION {{<<p, i>> : i \in {k \in DOMAIN page[p].vram : page[p].vram[k] = b}} :
                              p \in {q \in Pages : Live(q)}})
      + (IF b \in cache THEN 1 ELSE 0) <= 1

(* The copy of a page that its tier makes authoritative has the last bytes   *)
(* anyone gave it.                                                           *)
Current(p) ==
  IF page[p].vram # <<>> THEN \A i \in DOMAIN page[p].vram : holds[page[p].vram[i].id] # Stale
  ELSE IF page[p].tier = "Ssd" THEN page[p].spill = Whole
  ELSE \A i \in DOMAIN page[p].dram : page[p].dram[i] = i

(* Promotion, prefetch, write-back and eviction lose nothing of a page: where*)
(* its tier says it lives, it has the last bytes anyone gave it.  Except     *)
(* after the three steps that Exposed names, until the page is written or    *)
(* allocated anew (access, demote, claim_prefetch, write_page and both       *)
(* sweeps of tiered.rs, BUG #4's comment).                                   *)
AuthorityIsCurrent == \A p \in Pages : Live(p) /\ ~exposed[p] => Current(p)
=============================================================================
