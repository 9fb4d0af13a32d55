----------------------------- MODULE RangeAlloc -----------------------------
(***************************************************************************)
(* The best-fit, coalescing allocator of offsets under the spill file and  *)
(* (as a copy of the same code) the DRAM pool.  It hands out ranges of a   *)
(* region, takes them back in any order, and ignores what was not handed   *)
(* out.  The free list, kept sorted by the code, is a set here.  Callers   *)
(* own the allocator: there is one operation at a time.                    *)
(***************************************************************************)
EXTENDS Naturals

CONSTANTS Capacity,  \* bytes of the region
          Align,     \* ALIGN, 64
          MaxBytes   \* bound: bytes of a request

ASSUME SizeAssumption == Capacity \in Nat /\ MaxBytes \in Nat /\ Align \in Nat \ {0}

VARIABLES offset,  \* the high-water mark
          free,    \* free_blocks
          live     \* history: the ranges callers hold

vars == <<offset, free, live>>

Extent == [off : Nat, len : Nat \ {0}]
End(r) == r.off + r.len

\* RangeAllocator::align.
Aligned(bytes) == ((bytes + Align - 1) \div Align) * Align

\* What a request of n bytes adds to the ranges in use: nothing when n is 0.
Piece(off, n) == {r \in {[off |-> off, len |-> n]} : n > 0}

Init == offset = 0 /\ free = {} /\ live = {}

-----------------------------------------------------------------------------
\* The tightest free block that n fits in, the first of them on a tie.
Fits(b, n) == b.len >= n
BestFit(n) ==
  {b \in free : /\ Fits(b, n)
                /\ \A c \in free : Fits(c, n) => b.len < c.len \/ (b.len = c.len /\ b.off <= c.off)}

DropLeftover(b, n) == {}                                               \* mutant
Leftover(b, n) == Piece(b.off + n, b.len - n)

\* Reuse a block and keep its tail, ...
Reuse(n) ==
  \E b \in BestFit(n) :
    /\ free' = (free \ {b}) \cup Leftover(b, n)
    /\ live' = live \cup Piece(b.off, n)
    /\ UNCHANGED offset

\* ... or extend the region, ...
AnyRoom(n) == offset <= Capacity                                   \* mutant
Room(n) == offset + n <= Capacity

Extend(n) ==
  /\ BestFit(n) = {} /\ Room(n)
  /\ offset' = offset + n
  /\ live' = live \cup Piece(offset, n)
  /\ UNCHANGED free

\* ... or refuse with DramOom, which changes nothing.
Refused(n) == BestFit(n) = {} /\ ~Room(n)

Allocate(bytes) == Reuse(Aligned(bytes)) \/ Extend(Aligned(bytes))

-----------------------------------------------------------------------------
OverlapsNext(off, n) ==                                            \* mutant
  \E b \in free : off <= b.off /\ b.off < off + n
\* A range that overlaps a block already on the list: its successor or its
\* predecessor.
Overlaps(off, n) ==
  \/ \E b \in free : off <= b.off /\ b.off < off + n
  \/ \E b \in free : b.off < off /\ off < End(b)

\* The blocks that touch the range on either side, ...
RightNeighbours(off, n) == {b \in free : b.off = off + n}          \* mutant
Neighbours(off, n) == {b \in free : b.off = off + n \/ End(b) = off}

\* ... and the block that it forms with them.
Merged(off, n) ==
  LET touching == Neighbours(off, n) \cup {[off |-> off, len |-> n]}
      first == CHOOSE b \in touching : \A c \in touching : b.off <= c.off
      last == CHOOSE b \in touching : \A c \in touching : End(c) <= End(b)
  IN  [off |-> first.off, len |-> End(last) - first.off]

\* free(): drop what is out of bounds or already free; otherwise merge it in,
\* and lower the high-water mark when the merged block reaches it.
Return(off, n) ==
  IF n = 0 \/ off + n > offset \/ Overlaps(off, n)
  THEN UNCHANGED <<offset, free>>
  ELSE LET block == Merged(off, n)
           rest == free \ Neighbours(off, n)
       IN  IF End(block) = offset
           THEN offset' = block.off /\ free' = rest
           ELSE free' = rest \cup {block} /\ UNCHANGED offset

\* A caller gives back a range it holds; the size it names is not yet rounded.
Free(r, bytes) ==
  /\ r.len = Aligned(bytes)
  /\ live' = live \ {r}
  /\ Return(r.off, r.len)

\* A caller gives back something nobody holds: a range freed before, or one
\* outside the region.
Stray(off, bytes) ==
  /\ \A r \in live : End(r) <= off \/ off + Aligned(bytes) <= r.off
  /\ Return(off, Aligned(bytes))
  /\ UNCHANGED live

Next ==
  \/ \E bytes \in 0..MaxBytes : Allocate(bytes)
  \/ \E r \in live, bytes \in 0..MaxBytes : Free(r, bytes)
  \/ \E off \in 0..Capacity, bytes \in 0..MaxBytes : Stray(off, bytes)

Spec == Init /\ [][Next]_vars

-----------------------------------------------------------------------------
Disjoint(r, s) == End(r) <= s.off \/ End(s) <= r.off
Inside(x, r) == r.off <= x /\ x < End(r)

\* The high-water mark stays in the region and every range is non-empty.
TypeOK ==
  /\ offset \in Nat /\ offset <= Capacity
  /\ free \subseteq Extent /\ live \subseteq Extent

\* No byte is held twice, or held and on the free list, or on the list twice,
\* in whatever order ranges come back and whatever is freed again or lies out of
\* bounds: "a corrupted free list hands the same bytes to two live allocations".
NoAliasing ==
  /\ \A r \in free \cup live : End(r) <= offset
  /\ \A r, s \in live : r # s => Disjoint(r, s)
  /\ \A r, s \in free : r # s => Disjoint(r, s)
  /\ \A r \in live, s \in free : Disjoint(r, s)

\* No byte below the high-water mark is lost to everybody: a range that free()
\* drops was never missing, and churn does not use the region up.
NothingIsLost == \A x \in 0..offset-1 : \E r \in free \cup live : Inside(x, r)

\* allocate() refuses only when no run of bytes that is long enough is unused,
\* wherever it lies: holes are merged on both sides and with the unused top.
RefusedOnlyWhenFull ==
  \A bytes \in 1..MaxBytes : Refused(Aligned(bytes)) =>
    ~ \E x \in 0..Capacity :
        /\ x + Aligned(bytes) <= Capacity
        /\ \A r \in live : End(r) <= x \/ x + Aligned(bytes) <= r.off
=============================================================================
