---------------------------- MODULE CopiesProofs ----------------------------
(***************************************************************************)
(* What a copy rests on, for any constants.  The allocator (RangeAlloc)     *)
(* never aliases two ranges, loses no byte and refuses only when it must.  *)
(* A replica (Replication) that registered between two groups ends with     *)
(* the primary's data, and a key on a replica never goes back.  The        *)
(* instances are those the run of MCCopies checks.                         *)
(***************************************************************************)
EXTENDS MCCopies, SequenceTheorems, FiniteSetTheorems, WellFoundedInduction, TLAPS

-----------------------------------------------------------------------------
(* Ranges.                                                                 *)

\* The free list is merged: no block ends where another, or the unused top of
\* the region, begins.
Coalesced ==
  /\ \A b, c \in free : End(b) # c.off
  /\ \A b \in free : End(b) # offset

AllocatorInv == TypeOK /\ NoAliasing /\ NothingIsLost /\ Coalesced

-----------------------------------------------------------------------------
\* Rounding a size up gives a size.
LEMMA AlignedNat == ASSUME NEW bytes \in Nat PROVE Aligned(bytes) \in Nat
<1>. DEFINE q == (bytes + Align - 1) \div Align
<1>1. bytes + Align - 1 \in Nat
  BY SizeAssumption
<1>2. q \in Nat
  BY <1>1, SizeAssumption
<1>. HIDE DEF q
<1>3. q * Align \in Nat
  BY <1>2, SizeAssumption
<1>. QED  BY <1>3 DEF Aligned, q

\* Reuse takes the front of a free block and leaves the rest of it.
LEMMA ReuseStep ==
  ASSUME AllocatorInv, NEW n \in Nat, Reuse(n)
  PROVE  AllocatorInv'
<1>1. PICK b \in BestFit(n) :
        /\ free' = (free \ {b}) \cup Leftover(b, n)
        /\ live' = live \cup Piece(b.off, n)
        /\ offset' = offset
  BY DEF Reuse
<1>2. b \in free /\ b.len >= n /\ b \in Extent
  BY DEF BestFit, Fits, AllocatorInv, TypeOK
<1>3. \A r : r \in Leftover(b, n) <=> r = [off |-> b.off + n, len |-> b.len - n] /\ b.len > n
  BY <1>2 DEF Leftover, Piece, Extent
<1>4. \A r : r \in Piece(b.off, n) <=> r = [off |-> b.off, len |-> n] /\ n > 0
  BY DEF Piece
<1>5. TypeOK'
  BY <1>1, <1>2, <1>3, <1>4 DEF AllocatorInv, TypeOK, Extent
<1>6. NoAliasing'
  BY <1>1, <1>2, <1>3, <1>4 DEF AllocatorInv, TypeOK, NoAliasing, Extent, End, Disjoint
<1>7. NothingIsLost'
  <2>. SUFFICES ASSUME NEW x \in 0..offset-1
                PROVE  \E r \in free' \cup live' : Inside(x, r)
    BY <1>1 DEF NothingIsLost
  <2>1. PICK r \in free \cup live : Inside(x, r)
    BY DEF AllocatorInv, NothingIsLost
  <2>2. CASE r # b
    BY <1>1, <2>1, <2>2
  <2>3. CASE r = b /\ x < b.off + n
    <3>1. n > 0 /\ Inside(x, [off |-> b.off, len |-> n])
      BY <1>2, <2>1, <2>3 DEF Inside, End, Extent, AllocatorInv, TypeOK
    <3>. QED  BY <1>1, <1>4, <3>1
  <2>4. CASE r = b /\ ~(x < b.off + n)
    <3>1. b.len > n /\ Inside(x, [off |-> b.off + n, len |-> b.len - n])
      BY <1>2, <2>1, <2>4 DEF Inside, End, Extent, AllocatorInv, TypeOK
    <3>. QED  BY <1>1, <1>3, <3>1
  <2>. QED  BY <2>2, <2>3, <2>4
<1>8. Coalesced'
  BY <1>1, <1>2, <1>3 DEF AllocatorInv, TypeOK, NoAliasing, Coalesced, Extent, End, Disjoint
<1>. QED  BY <1>5, <1>6, <1>7, <1>8 DEF AllocatorInv

\* Extend takes the bytes above the high-water mark.
LEMMA ExtendStep ==
  ASSUME AllocatorInv, NEW n \in Nat, Extend(n)
  PROVE  AllocatorInv'
<1>1. offset + n <= Capacity /\ offset' = offset + n /\ free' = free /\ live' = live
      \cup Piece(offset, n)
  BY DEF Extend, Room
<1>2. \A r : r \in Piece(offset, n) <=> r = [off |-> offset, len |-> n] /\ n > 0
  BY DEF Piece
<1>3. BestFit(n) = {}
  BY DEF Extend
<1>4. TypeOK'
  BY <1>1, <1>2, SizeAssumption DEF AllocatorInv, TypeOK, Extent
<1>5. NoAliasing'
  BY <1>1, <1>2 DEF AllocatorInv, TypeOK, NoAliasing, Extent, End, Disjoint
<1>6. NothingIsLost'
  <2>. SUFFICES ASSUME NEW x \in 0..offset'-1
                PROVE  \E r \in free' \cup live' : Inside(x, r)
    BY DEF NothingIsLost
  <2>1. CASE x < offset
    BY <1>1, <2>1 DEF AllocatorInv, TypeOK, NothingIsLost
  <2>2. CASE ~(x < offset)
    <3>1. n > 0 /\ Inside(x, [off |-> offset, len |-> n])
      BY <1>1, <2>2 DEF AllocatorInv, TypeOK, Inside, End
    <3>. QED  BY <1>1, <1>2, <3>1
  <2>. QED  BY <2>1, <2>2
<1>7. Coalesced'
  BY <1>1 DEF AllocatorInv, TypeOK, Coalesced, NoAliasing, Extent, End
<1>. QED  BY <1>4, <1>5, <1>6, <1>7 DEF AllocatorInv

-----------------------------------------------------------------------------
\* What a returned range merges with: at most one block on either side, so the
\* merged block runs from the start of the first to the end of the last.
LEMMA MergedBlock ==
  ASSUME TypeOK, NoAliasing, NEW off \in Nat, NEW n \in Nat \ {0}
  PROVE  \E first, last \in free \cup {[off |-> off, len |-> n]} :
           /\ first.off = off \/ (first \in free /\ End(first) = off)
           /\ End(last) = off + n \/ (last \in free /\ last.off = off + n)
           /\ first.off <= off /\ off + n <= End(last)
           /\ \A b \in free : b \in Neighbours(off, n) => b \in {first, last}
           /\ first \in Neighbours(off, n) \cup {[off |-> off, len |-> n]}
           /\ last \in Neighbours(off, n) \cup {[off |-> off, len |-> n]}
           /\ Merged(off, n) = [off |-> first.off, len |-> End(last) - first.off]
<1>. DEFINE S == [off |-> off, len |-> n]
            T == Neighbours(off, n) \cup {S}
            first == CHOOSE b \in T : \A c \in T : b.off <= c.off
            last == CHOOSE b \in T : \A c \in T : End(c) <= End(b)
<1>1. \A b : b \in Neighbours(off, n) <=>
              b \in free /\ b \in Extent /\ (b.off = off + n \/ End(b) = off)
  BY DEF Neighbours, TypeOK
<1>2. S \in Extent /\ S \in T /\ S.off = off /\ End(S) = off + n
  BY DEF Extent, End
<1>3. \E b \in T : \A c \in T : b.off <= c.off
  <2>1. CASE \E b \in free : End(b) = off
    BY <1>1, <1>2, <2>1 DEF TypeOK, NoAliasing, Disjoint, Extent, End
  <2>2. CASE \A b \in free : End(b) # off
    <3>1. \A c \in Neighbours(off, n) : S.off <= c.off
      BY <1>1, <1>2, <2>2 DEF Extent
    <3>2. \A c \in T : S.off <= c.off
      BY <1>2, <3>1
    <3>. QED  BY <1>2, <3>2
  <2>. QED  BY <2>1, <2>2
<1>4. first \in T /\ \A c \in T : first.off <= c.off
  BY <1>3
<1>5. \E b \in T : \A c \in T : End(c) <= End(b)
  <2>1. CASE \E b \in free : b.off = off + n
    BY <1>1, <1>2, <2>1 DEF TypeOK, NoAliasing, Disjoint, Extent, End
  <2>2. CASE \A b \in free : b.off # off + n
    <3>1. \A c \in Neighbours(off, n) : End(c) <= End(S)
      BY <1>1, <1>2, <2>2 DEF Extent, End
    <3>2. \A c \in T : End(c) <= End(S)
      BY <1>2, <3>1 DEF End
    <3>. QED  BY <1>2, <3>2
  <2>. QED  BY <2>1, <2>2
<1>6. last \in T /\ \A c \in T : End(c) <= End(last)
  BY <1>5
<1>7. Merged(off, n) = [off |-> first.off, len |-> End(last) - first.off]
  BY DEF Merged
<1>. HIDE DEF first, last
<1>8. first.off = off \/ (first \in free /\ End(first) = off)
  <2>1. first.off <= off
    BY <1>2, <1>4
  <2>2. CASE first = S
    BY <1>2, <2>2
  <2>3. CASE first \in Neighbours(off, n)
    BY <1>1, <2>1, <2>3 DEF Extent
  <2>. QED  BY <1>4, <2>2, <2>3
<1>9. End(last) = off + n \/ (last \in free /\ last.off = off + n)
  <2>1. off + n <= End(last)
    BY <1>2, <1>6
  <2>2. CASE last = S
    BY <1>2, <2>2
  <2>3. CASE last \in Neighbours(off, n)
    BY <1>1, <2>1, <2>3 DEF Extent
  <2>. QED  BY <1>6, <2>2, <2>3
<1>10. first.off <= off /\ off + n <= End(last)
  BY <1>2, <1>4, <1>6
<1>11. ASSUME NEW b \in free, b \in Neighbours(off, n)
       PROVE  b \in {first, last}
  <2>1. CASE b.off = off + n
    BY <1>1, <1>2, <1>6, <1>11, <2>1 DEF NoAliasing, Disjoint, Extent, End
  <2>2. CASE End(b) = off
    BY <1>1, <1>2, <1>4, <1>11, <2>2 DEF NoAliasing, Disjoint, Extent, End
  <2>. QED  BY <1>1, <1>11, <2>1, <2>2
<1>. QED  BY <1>1, <1>4, <1>6, <1>7, <1>8, <1>9, <1>10, <1>11

\* The bytes below a mark.
LEMMA BytesBelow == ASSUME NEW o \in Nat PROVE \A x \in 0..o-1 : x \in Nat /\ x < o
OBVIOUS

\* Giving back a range in use: it joins the free list as one block with its
\* neighbours, or becomes part of the unused top.
LEMMA FreeStep ==
  ASSUME AllocatorInv, NEW r \in live, live' = live \ {r}, Return(r.off, r.len)
  PROVE  AllocatorInv'
<1>. DEFINE S == [off |-> r.off, len |-> r.len]
            N == Neighbours(r.off, r.len)
            M == Merged(r.off, r.len)
<1>1. r \in Extent /\ r = S /\ r.off \in Nat /\ r.len \in Nat \ {0}
  BY DEF AllocatorInv, TypeOK, Extent
<1>2. \A b \in free : b \in Extent /\ Disjoint(r, b)
  BY DEF AllocatorInv, TypeOK, NoAliasing
<1>3. ~(r.len = 0 \/ r.off + r.len > offset \/ Overlaps(r.off, r.len))
  BY <1>1, <1>2 DEF AllocatorInv, TypeOK, NoAliasing, Overlaps, Disjoint, Extent, End
<1>4. PICK first, last \in free \cup {r} :
        /\ first.off = r.off \/ (first \in free /\ End(first) = r.off)
        /\ End(last) = End(r) \/ (last \in free /\ last.off = End(r))
        /\ first.off <= r.off /\ End(r) <= End(last)
        /\ \A b \in free : b \in N => b \in {first, last}
        /\ first \in N \cup {r} /\ last \in N \cup {r}
        /\ M = [off |-> first.off, len |-> End(last) - first.off]
  BY <1>1, MergedBlock DEF AllocatorInv, End
<1>5. first \in Extent /\ last \in Extent
  BY <1>1, <1>2, <1>4
<1>6. M \in Extent /\ M.off = first.off /\ End(M) = End(last)
  BY <1>1, <1>4, <1>5 DEF Extent, End
<1>7. \/ End(M) = offset /\ offset' = M.off /\ free' = free \ N
      \/ End(M) # offset /\ offset' = offset /\ free' = (free \ N) \cup {M}
  BY <1>3 DEF Return
<1>. HIDE DEF M, N
<1>8. \A b \in (free \ N) \cup live' : b \in Extent /\ b # first /\ b # last /\ b # r
  BY <1>1, <1>2, <1>4 DEF AllocatorInv, TypeOK, NoAliasing, Disjoint, Extent, End
<1>9. \A b \in (free \ N) \cup live' : Disjoint(b, first) /\ Disjoint(b, last) /\ Disjoint(b, r)
  BY <1>1, <1>2, <1>4, <1>8 DEF AllocatorInv, TypeOK, NoAliasing, Disjoint, Extent, End
<1>10. \A b \in (free \ N) \cup live' : Disjoint(b, M)
  BY <1>1, <1>4, <1>5, <1>6, <1>8, <1>9 DEF Disjoint, Extent, End
<1>11. End(M) <= offset
  BY <1>4, <1>6 DEF AllocatorInv, NoAliasing
<1>. HIDE DEF S
<1>12. TypeOK'
  <2>1. M.off \in Nat /\ M.off <= offset
    BY <1>6, <1>11 DEF AllocatorInv, TypeOK, Extent, End
  <2>2. offset' \in Nat /\ offset' <= offset
    BY <1>7, <2>1 DEF AllocatorInv, TypeOK
  <2>3. offset' <= Capacity
    BY <2>2, SizeAssumption DEF AllocatorInv, TypeOK
  <2>4. free' \subseteq Extent /\ live' \subseteq Extent
    BY <1>6, <1>7 DEF AllocatorInv, TypeOK
  <2>. QED  BY <2>2, <2>3, <2>4 DEF TypeOK
<1>13. NoAliasing'
  BY <1>6, <1>7, <1>8, <1>10, <1>11 DEF AllocatorInv, TypeOK, NoAliasing, Disjoint, Extent, End
<1>14. End(first) <= End(last) /\ first.off <= last.off
  <2>1. first = r \/ End(first) = r.off
    BY <1>1, <1>2, <1>4, <1>5 DEF Disjoint, Extent, End
  <2>2. last = r \/ last.off = End(r)
    BY <1>1, <1>2, <1>4, <1>5 DEF Disjoint, Extent, End
  <2>. QED  BY <1>1, <1>5, <2>1, <2>2 DEF Extent, End
<1>15. \A s \in {first, last, r} : M.off <= s.off /\ End(s) <= End(M) /\ s.off \in Nat
       /\ End(s) \in Nat
  BY <1>1, <1>4, <1>5, <1>6, <1>14 DEF Extent, End
<1>16. offset \in Nat /\ offset' \in Nat /\ offset' <= offset
  BY <1>6, <1>7, <1>11 DEF AllocatorInv, TypeOK, Extent, End
<1>17. ASSUME NEW x \in Nat, x < offset'
       PROVE  \E s \in free' \cup live' : Inside(x, s)
  <2>1. x < offset
    BY <1>16, <1>17
  <2>2. PICK s \in free \cup live : Inside(x, s)
    BY <1>16, <2>1 DEF AllocatorInv, NothingIsLost
  <2>3. CASE s \in free \ N \/ s \in live'
    BY <1>7, <2>2, <2>3
  <2>4. CASE ~(s \in free \ N \/ s \in live')
    <3>1. s \in {first, last, r}
      BY <1>4, <2>4
    <3>2. Inside(x, M)
      BY <1>6, <1>15, <2>2, <3>1 DEF Inside, Extent, End
    <3>3. End(M) # offset
      BY <1>6, <1>7, <1>17, <3>2 DEF Inside, Extent
    <3>. QED  BY <1>7, <3>2, <3>3
  <2>. QED  BY <2>3, <2>4
<1>18. NothingIsLost'
  <2>1. \A x \in 0..offset'-1 : x \in Nat /\ x < offset'
    BY <1>16, BytesBelow
  <2>. QED  BY <1>17, <2>1 DEF NothingIsLost
<1>19. Coalesced'
  <2>1. \A b \in free \ N : End(b) # r.off /\ b.off # End(r)
    BY DEF N, Neighbours, End
  <2>2. \A b \in free \ N : End(b) # M.off /\ b.off # End(M)
    BY <1>4, <1>6, <2>1 DEF AllocatorInv, Coalesced
  <2>3. End(M) # M.off
    BY <1>6 DEF Extent, End
  <2>. QED  BY <1>7, <2>2, <2>3 DEF AllocatorInv, Coalesced
<1>. QED  BY <1>12, <1>13, <1>18, <1>19 DEF AllocatorInv

\* Giving back what nobody holds changes nothing.
LEMMA StrayStep ==
  ASSUME AllocatorInv, NEW off \in Nat, NEW n \in Nat,
         \A r \in live : End(r) <= off \/ off + n <= r.off,
         Return(off, n)
  PROVE  UNCHANGED <<offset, free>>
<1>1. n = 0 \/ off + n > offset \/ Overlaps(off, n)
  <2>. SUFFICES ASSUME n > 0, off + n <= offset
                PROVE  Overlaps(off, n)
    BY DEF AllocatorInv, TypeOK
  <2>1. PICK r \in free \cup live : Inside(off, r)
    BY DEF AllocatorInv, TypeOK, NothingIsLost
  <2>. QED  BY <2>1 DEF AllocatorInv, TypeOK, Overlaps, Inside, Extent, End
<1>. QED  BY <1>1 DEF Return

-----------------------------------------------------------------------------
\* A set of numbers that is not empty has a least one.
LEMMA LeastNat ==
  ASSUME NEW T, T \subseteq Nat, T # {}
  PROVE  \E x \in T : \A y \in T : x <= y
<1>1. PICK x \in T : \A y \in T : ~ (<<y, x>> \in OpToRel(<, Nat))
  BY NatLessThanWellFounded, WFMin
<1>2. \A y \in T : ~ (y < x)
  BY <1>1 DEF OpToRel
<1>. QED  BY <1>2

\* If any free block is large enough, one is the tightest and the first.
LEMMA BestFitExists ==
  ASSUME TypeOK, NEW n \in Nat, NEW a \in free, a.len >= n
  PROVE  BestFit(n) # {}
<1>. DEFINE Lens == {b.len : b \in {c \in free : c.len >= n}}
<1>1. Lens \subseteq Nat /\ Lens # {}
  BY DEF TypeOK, Extent
<1>2. PICK m \in Lens : \A y \in Lens : m <= y
  BY <1>1, LeastNat
<1>. DEFINE Offs == {b.off : b \in {c \in free : c.len = m}}
<1>3. Offs \subseteq Nat /\ Offs # {}
  BY <1>2 DEF TypeOK, Extent
<1>4. PICK o \in Offs : \A y \in Offs : o <= y
  BY <1>3, LeastNat
<1>5. PICK b \in free : b.len = m /\ b.off = o
  BY <1>4
<1>6. b.len >= n
  BY <1>2, <1>5
<1>7. \A c \in free : c.len >= n => b.len <= c.len
  BY <1>2, <1>5
<1>8. \A c \in free : c.len = m => b.off <= c.off
  BY <1>4, <1>5
<1>9. \A c \in free : c.len >= n => b.len < c.len \/ (b.len = c.len /\ b.off <= c.off)
  BY <1>5, <1>7, <1>8 DEF TypeOK, Extent
<1>. QED  BY <1>6, <1>9 DEF BestFit, Fits

-----------------------------------------------------------------------------
\* Every operation, legal or not, keeps the free list exact and merged.
THEOREM AllocatorInvariance == Spec => []AllocatorInv
<1>1. Init => AllocatorInv
  BY SizeAssumption DEF Init, AllocatorInv, TypeOK, NoAliasing, NothingIsLost, Coalesced
<1>2. AllocatorInv /\ [Next]_vars => AllocatorInv'
  <2>. SUFFICES ASSUME AllocatorInv, [Next]_vars PROVE AllocatorInv'
    OBVIOUS
  <2>1. ASSUME NEW bytes \in 0..MaxBytes, Allocate(bytes)
        PROVE  AllocatorInv'
    BY <2>1, AlignedNat, ReuseStep, ExtendStep, SizeAssumption DEF Allocate
  <2>2. ASSUME NEW r \in live, NEW bytes \in 0..MaxBytes, Free(r, bytes)
        PROVE  AllocatorInv'
    BY <2>2, FreeStep DEF Free
  <2>3. ASSUME NEW off \in 0..Capacity, NEW bytes \in 0..MaxBytes, Stray(off, bytes)
        PROVE  AllocatorInv'
    <3>1. off \in Nat /\ Aligned(bytes) \in Nat
      BY AlignedNat, SizeAssumption
    <3>2. UNCHANGED vars
      BY <2>3, <3>1, StrayStep DEF Stray, vars
    <3>. QED  BY <3>2 DEF vars, AllocatorInv, TypeOK, NoAliasing, NothingIsLost, Coalesced
  <2>4. CASE UNCHANGED vars
    BY <2>4 DEF vars, AllocatorInv, TypeOK, NoAliasing, NothingIsLost, Coalesced
  <2>. QED  BY <2>1, <2>2, <2>3, <2>4 DEF Next
<1>. QED  BY <1>1, <1>2, PTL DEF Spec

\* No two callers hold the same byte, and none holds a free one.
THEOREM NeverAliases == Spec => []NoAliasing
<1>1. AllocatorInv => NoAliasing
  BY DEF AllocatorInv
<1>. QED  BY <1>1, AllocatorInvariance, PTL

\* Every byte below the high-water mark is held or on the free list.
THEOREM NeverLoses == Spec => []NothingIsLost
<1>1. AllocatorInv => NothingIsLost
  BY DEF AllocatorInv
<1>. QED  BY <1>1, AllocatorInvariance, PTL

\* A refusal means that no unused run of bytes is long enough: the byte where
\* such a run begins is in a free block, which ends too early, and what follows
\* it can neither be held, nor free, nor above the high-water mark.
THEOREM HonestRefusals == Spec => []RefusedOnlyWhenFull
<1>1. AllocatorInv => RefusedOnlyWhenFull
  <2>. SUFFICES ASSUME AllocatorInv, NEW bytes \in 1..MaxBytes, Refused(Aligned(bytes)),
                       NEW x \in 0..Capacity, x + Aligned(bytes) <= Capacity,
                       \A r \in live : End(r) <= x \/ x + Aligned(bytes) <= r.off
                PROVE  FALSE
    BY DEF RefusedOnlyWhenFull
  <2>. DEFINE n == Aligned(bytes)
  <2>1. n \in Nat
    BY AlignedNat, SizeAssumption
  <2>. HIDE DEF n
  <2>2. offset + n > Capacity /\ BestFit(n) = {}
    BY <2>1, SizeAssumption DEF n, Refused, Room, AllocatorInv, TypeOK
  <2>3. \A b \in free : b.len < n
    BY <2>1, <2>2, BestFitExists DEF AllocatorInv, TypeOK, Extent
  <2>4. \A r \in live : End(r) <= x \/ x + n <= r.off
    BY DEF n
  <2>5. x \in Nat /\ x < offset /\ x + n <= Capacity /\ n > 0
    BY <2>1, <2>2, SizeAssumption DEF n, AllocatorInv, TypeOK
  <2>6. PICK r \in free \cup live : Inside(x, r)
    BY <2>5 DEF AllocatorInv, TypeOK, NothingIsLost
  <2>7. r \in free
    BY <2>1, <2>4, <2>5, <2>6 DEF AllocatorInv, TypeOK, Inside, Extent, End
  <2>8. End(r) < x + n /\ x < End(r) /\ End(r) < offset /\ End(r) \in Nat
    BY <2>1, <2>3, <2>5, <2>6, <2>7 DEF AllocatorInv, TypeOK, NoAliasing, Coalesced, Inside,
       Extent, End
  <2>9. PICK s \in free \cup live : Inside(End(r), s)
    BY <2>8 DEF AllocatorInv, TypeOK, NothingIsLost
  <2>10. s \in free
    BY <2>1, <2>4, <2>5, <2>8, <2>9 DEF AllocatorInv, TypeOK, Inside, Extent, End
  <2>11. s # r /\ s.off = End(r)
    BY <2>7, <2>8, <2>9, <2>10 DEF AllocatorInv, TypeOK, NoAliasing, Disjoint, Inside, Extent, End
  <2>. QED  BY <2>7, <2>10, <2>11 DEF AllocatorInv, Coalesced
<1>. QED  BY <1>1, AllocatorInvariance, PTL

-----------------------------------------------------------------------------
(* The replica.                                                            *)

Serving == {"pin", "dump", "recv", "drain", "ping"}
Sending == {"recv", "drain", "ping"}

\* Where the threads of the connections are, and what they hold in the hub.
LinkShape ==
  /\ log \in Seq(Key \cup {FlushAll}) /\ Len(log) <= MaxTs
  /\ hooked \in Nat /\ visible \in Nat /\ visible <= hooked /\ hooked <= Len(log)
  /\ srv \in [R!Link -> {"off", "accepted", "gone"} \cup Serving]
  /\ queue \in [R!Link -> Seq(R!Frame)] /\ wire \in [R!Link -> Seq(R!Frame)]
  /\ snap \in [R!Link -> Nat] /\ \A l \in R!Link : snap[l] <= visible
  /\ todo \in [R!Link -> SUBSET Key]
  /\ hub \subseteq R!Link /\ (active <=> hub # {})
  /\ copy \in [Key -> Nat] /\ load \in [Key -> Nat]
  /\ tries \in Nat /\ link \in {0} \cup R!Link
  /\ link = 0 => load = R!Empty
  /\ link # 0 => srv[link] # "off"
  /\ \A l \in R!Link :
       /\ l > tries => srv[l] = "off"
       /\ srv[l] # "off" /\ l \notin cut => l = link
       /\ srv[l] \in {"off", "accepted"} => queue[l] = <<>> /\ wire[l] = <<>>
       /\ l \in hub \cup clean => srv[l] \in Serving
       /\ srv[l] \in Serving /\ l \notin cut => l \in hub
       /\ srv[l] \in Sending => todo[l] = {}

\* A registered connection's queue is the end of what the hooks have seen.
Base(l) == hooked - Len(queue[l])
QueueHolds ==
  \A l \in hub \ cut : /\ Len(queue[l]) <= hooked
                       /\ \A i \in 1..Len(queue[l]) : queue[l][i] = R!FrameOf(Base(l) + i)

\* A connection's frames come in three parts: the dump, READY, the stream.
InDump(w) == \A i \in 1..Len(w) : w[i].kind \in {"full", "snap"}
Parted(w, n) ==
  /\ n = 0 => load = R!Empty
  /\ n > 0 => w[n].kind = "ready"
  /\ \A i \in 1..Len(w) : /\ i < n => w[i].kind \in {"full", "snap"}
                          /\ i > n => w[i].kind \in {"mut", "flush", "ping"}
Streamed(w) == \E n \in 0..Len(w) : Parted(w, n)

WireHolds == link # 0 =>
  /\ \A i \in 1..Len(wire[link]) : wire[link][i].kind = "full" => i = 1 /\ load = R!Empty
  /\ srv[link] = "accepted" => load = R!Empty
  /\ srv[link] = "pin" => load = R!Empty
     /\ \A i \in 1..Len(wire[link]) : wire[link][i].kind = "full"
  /\ srv[link] = "dump" => InDump(wire[link])
  /\ srv[link] \in Sending => Streamed(wire[link])
  /\ InDump(wire[link]) \/ Streamed(wire[link])

\* Frames that carry a value of the key, frames that change what a copy has of it.
Carries(f, k) == f.kind \in {"snap", "mut"} /\ f.key = k
Touches(f, k) == f.kind \in {"full", "flush"} \/ Carries(f, k)
Value(f) == IF f.kind \in {"full", "flush"} THEN 0 ELSE f.ts

\* The replica has emptied its store for this connection.
Begun == srv[link] # "accepted" /\ \A i \in 1..Len(wire[link]) : wire[link][i].kind # "full"

\* The last commit a connection was sent, by the dump or the stream.
Sent(l) == IF snap[l] > Base(l) THEN snap[l] ELSE Base(l)

\* What arrives is not older than what is there.
OrderHolds == link # 0 =>
  LET w == wire[link]
  IN  /\ \A i, j \in 1..Len(w), k \in Key :
           i < j /\ Carries(w[i], k) /\ Carries(w[j], k) => w[i].ts <= w[j].ts
      /\ Begun => \A k \in Key :
           /\ \A i \in 1..Len(w) : Carries(w[i], k) => copy[k] <= w[i].ts /\ load[k] <= w[i].ts
           /\ load[k] > 0 => copy[k] <= load[k]
      /\ link \notin cut /\ srv[link] = "pin" /\ Begun => copy = R!Empty
      /\ link \notin cut /\ srv[link] \in Sending \cup {"dump"} =>
           \A k \in Key :
             /\ \A i \in 1..Len(w) : Carries(w[i], k) => w[i].ts <= Sent(link)
                /\ k \notin todo[link]
             /\ Begun => /\ copy[k] <= Sent(link) /\ load[k] <= Sent(link)
                         /\ k \in todo[link] => copy[k] = 0 /\ load[k] = 0

\* What the copy of a key will be once everything on the connection is handled.
Ends(w, k, v) ==
  \/ \E i \in 1..Len(w) : /\ Touches(w[i], k) /\ v = Value(w[i])
                          /\ \A j \in 1..Len(w) : j > i => ~Touches(w[j], k)
  \/ /\ \A i \in 1..Len(w) : ~Touches(w[i], k)
     /\ v = IF load[k] > 0 THEN load[k] ELSE copy[k]

\* No FLUSHALL after the n-th entry of the log.
Calm(n) == \A t \in 1..Len(log) : t > n => log[t] # FlushAll

\* A clean connection ends with the primary's values of what it was sent.
CleanHolds == link # 0 /\ link \in clean \ cut =>
  /\ srv[link] = "pin" =>
       Base(link) <= visible /\ \A t \in 1..hooked : t > Base(link) => log[t] # FlushAll
  /\ srv[link] # "pin" => \A t \in 1..snap[link] : t > Base(link) => log[t] # FlushAll
  /\ srv[link] = "dump" => Base(link) <= snap[link]
  /\ srv[link] # "pin" /\ Calm(Sent(link)) =>
       \A k \in Key \ todo[link] : Ends(wire[link], k, R!At(k, Sent(link)))

CopyInv == LinkShape /\ QueueHolds /\ WireHolds /\ OrderHolds /\ CleanHolds

-----------------------------------------------------------------------------
\* One more element at the end, and one less at the front.
LEMMA Pushed ==
  ASSUME NEW S, NEW s \in Seq(S), NEW f \in S
  PROVE  /\ Append(s, f) \in Seq(S) /\ Len(s) \in Nat /\ Len(Append(s, f)) = Len(s) + 1
         /\ \A i \in 1..Len(s) : Append(s, f)[i] = s[i]
         /\ Append(s, f)[Len(s) + 1] = f
BY AppendProperties

\* The front of a sequence, and what is left.
LEMMA Popped ==
  ASSUME NEW S, NEW s \in Seq(S), s # <<>>
  PROVE  /\ Tail(s) \in Seq(S) /\ Len(s) \in Nat \ {0} /\ Len(Tail(s)) = Len(s) - 1
         /\ Head(s) = s[1] /\ s[1] \in S
         /\ \A i \in 1..Len(Tail(s)) : Tail(s)[i] = s[i + 1] /\ i + 1 \in 1..Len(s)
BY HeadTailProperties, EmptySeq

\* The newest of some commits.
LEMMA Newest ==
  ASSUME NEW n \in Nat, NEW T \in SUBSET (1..n), T # {}
  PROVE  \E t \in T : \A u \in T : u <= t
<1>. DEFINE D == {n - t : t \in T}
<1>1. D \subseteq Nat /\ D # {}
  <2>1. \A t \in T : t \in 1..n /\ n - t \in Nat
    BY SMT
  <2>. QED  BY <2>1
<1>2. PICK d \in D : \A e \in D : <<e, d>> \notin OpToRel(<, Nat)
  <2>. HIDE DEF D
  <2>. QED  BY <1>1, NatLessThanWellFounded, WFMin
<1>3. \A e \in D : ~(e < d)
  BY <1>1, <1>2 DEF OpToRel
<1>4. PICK t \in T : d = n - t
  OBVIOUS
<1>5. \A u \in T : ~(n - u < n - t)
  BY <1>3, <1>4
<1>. QED  BY <1>5

\* The value of a key in a snapshot is one of its commits up to there.
LEMMA AtIsThere ==
  ASSUME NEW k \in Key, NEW s \in Nat
  PROVE  R!At(k, s) \in 0..s /\ (R!At(k, s) > 0 => log[R!At(k, s)] = k)
<1>. DEFINE writes == {t \in 1..s : log[t] = k /\ \A u \in t..Len(log) : log[u] # FlushAll}
            top == CHOOSE t \in writes : \A u \in writes : u <= t
<1>1. R!At(k, s) = IF writes = {} THEN 0 ELSE top
  BY DEF R!At
<1>2. CASE writes = {}
  BY <1>1, <1>2
<1>3. CASE writes # {}
  <2>1. writes \in SUBSET (1..s)
    OBVIOUS
  <2>2. \E t \in writes : \A u \in writes : u <= t
    BY <1>3, <2>1, Newest, Zenon
  <2>3. top \in writes
    BY <2>2
  <2>. QED  BY <1>1, <1>3, <2>3
<1>. QED  BY <1>2, <1>3

\* What one more entry of the log makes of it.
LEMMA AtNext ==
  ASSUME LinkShape, CopyAssumption, NEW n \in Nat, n + 1 <= Len(log), NEW k \in Key
  PROVE  /\ log[n + 1] = FlushAll => R!At(k, n + 1) = 0
         /\ log[n + 1] = k /\ Calm(n + 1) => R!At(k, n + 1) = n + 1
         /\ log[n + 1] # k => R!At(k, n + 1) = R!At(k, n)
<1>. DEFINE writes(s) == {t \in 1..s : log[t] = k /\ \A u \in t..Len(log) : log[u] # FlushAll}
<1>1. \A s : R!At(k, s) = IF writes(s) = {} THEN 0
                      ELSE CHOOSE t \in writes(s) : \A u \in writes(s) : u <= t
  BY DEF R!At
<1>2. k # FlushAll /\ Len(log) \in Nat
  BY LenProperties DEF LinkShape, CopyAssumption, R!ReplicationAssumption
<1>3. ASSUME log[n + 1] = FlushAll PROVE writes(n + 1) = {}
  <2>1. \A t \in 1..n + 1 : n + 1 \in t..Len(log)
    BY <1>2
  <2>. QED  BY <1>3, <2>1
<1>4. ASSUME log[n + 1] = k, Calm(n + 1)
      PROVE  R!At(k, n + 1) = n + 1
  <2>1. n + 1 \in writes(n + 1) /\ \A u \in writes(n + 1) : u <= n + 1
    BY <1>2, <1>4 DEF Calm
  <2>2. \A t \in writes(n + 1) : (\A u \in writes(n + 1) : u <= t) => t = n + 1
    BY <2>1
  <2>3. (CHOOSE t \in writes(n + 1) : \A u \in writes(n + 1) : u <= t) = n + 1
    BY <2>1, <2>2
  <2>. QED  BY <1>1, <2>1, <2>3
<1>5. ASSUME log[n + 1] # k PROVE writes(n + 1) = writes(n)
  BY <1>5
<1>. HIDE DEF writes
<1>. QED  BY <1>1, <1>3, <1>4, <1>5

\* What is still on its way goes on.
LEMMA EndsLater ==
  ASSUME NEW w \in Seq(R!Frame), NEW f \in R!Frame, NEW k, NEW v
  PROVE  /\ Ends(w, k, v) /\ ~Touches(f, k) => Ends(Append(w, f), k, v)
         /\ Touches(f, k) => Ends(Append(w, f), k, Value(f))
<1>. DEFINE x == Append(w, f)
<1>1. Len(w) \in Nat /\ Len(x) = Len(w) + 1 /\ (\A i \in 1..Len(w) : x[i] = w[i])
      /\ x[Len(w) + 1] = f
  BY Pushed
<1>. HIDE DEF x
<1>2. 1..Len(x) = 1..Len(w) \cup {Len(w) + 1}
  BY <1>1
<1>3. ASSUME Ends(w, k, v), ~Touches(f, k) PROVE Ends(x, k, v)
  <2>1. ~Touches(x[Len(w) + 1], k)
    BY <1>1, <1>3
  <2>2. CASE \A i \in 1..Len(w) : ~Touches(w[i], k)
    BY <1>1, <1>2, <1>3, <2>1, <2>2 DEF Ends
  <2>3. CASE \E i \in 1..Len(w) : Touches(w[i], k)
    <3>1. PICK i \in 1..Len(w) : Touches(w[i], k) /\ v = Value(w[i])
             /\ \A j \in 1..Len(w) : j > i => ~Touches(w[j], k)
      BY <1>3, <2>3 DEF Ends
    <3>2. i \in 1..Len(x) /\ Touches(x[i], k) /\ v = Value(x[i])
          /\ \A j \in 1..Len(x) : j > i => ~Touches(x[j], k)
      BY <1>1, <1>2, <2>1, <3>1
    <3>. QED  BY <3>2 DEF Ends
  <2>. QED  BY <2>2, <2>3
<1>4. ASSUME Touches(f, k) PROVE Ends(x, k, Value(f))
  <2>1. Len(w) + 1 \in 1..Len(x) /\ Touches(x[Len(w) + 1], k) /\ Value(f) = Value(x[Len(w) + 1])
        /\ \A j \in 1..Len(x) : j > Len(w) + 1 => ~Touches(x[j], k)
    BY <1>1, <1>4
  <2>. QED  BY <2>1 DEF Ends
<1>. QED  BY <1>3, <1>4 DEF x

\* The log gets longer: what a calm snapshot holds stays.
LEMMA AtStays ==
  ASSUME LinkShape, NEW n \in Nat, n <= Len(log), NEW k \in Key,
         Len(log') \in Nat, Len(log') >= Len(log), \A t \in 1..Len(log) : log'[t] = log[t], Calm(n)'
  PROVE  Calm(n) /\ R!At(k, n)' = R!At(k, n)
<1>1. Len(log) \in Nat
  BY LenProperties DEF LinkShape
<1>2. \A t \in 1..n : log'[t] = log[t]
  BY <1>1
<1>3. \A u \in 1..Len(log') : u > n => log'[u] # FlushAll
  BY DEF Calm
<1>4. \A t \in 1..n : (\A u \in t..Len(log') : log'[u] # FlushAll)
                      <=> (\A u \in t..Len(log) : log[u] # FlushAll)
  BY <1>1, <1>3
<1>5. Calm(n)
  BY <1>1 DEF Calm
<1>. DEFINE writes == {t \in 1..n : log[t] = k /\ \A u \in t..Len(log) : log[u] # FlushAll}
            later == {t \in 1..n : log'[t] = k /\ \A u \in t..Len(log') : log'[u] # FlushAll}
<1>6. later = writes
  BY <1>2, <1>4
<1>7. R!At(k, n) = IF writes = {} THEN 0 ELSE CHOOSE t \in writes : \A u \in writes : u <= t
  BY DEF R!At
<1>8. R!At(k, n)' = IF later = {} THEN 0 ELSE CHOOSE t \in later : \A u \in later : u <= t
  BY DEF R!At
<1>. HIDE DEF writes, later
<1>. QED  BY <1>5, <1>6, <1>7, <1>8

\* A group or a FLUSHALL is applied.
LEMMA ApplyDone ==
  ASSUME CopyInv, NEW ops \in Seq(Key \cup {FlushAll}), R!Apply(ops)
  PROVE  CopyInv'
<1>1. /\ log' = log \o ops /\ Len(log) + Len(ops) <= MaxTs
      /\ UNCHANGED <<hooked, visible, active, hub, srv, queue, snap, todo, acked, wire, cut, ack,
                     link, tries, copy, load, applied, clean>>
  BY DEF R!Apply, R!conn, R!replica
<1>2. LinkShape /\ log \in Seq(Key \cup {FlushAll}) /\ hooked <= Len(log) /\ hooked \in Nat
      /\ visible <= hooked
  BY DEF CopyInv, LinkShape
<1>3. /\ log' \in Seq(Key \cup {FlushAll}) /\ Len(log) \in Nat /\ Len(ops) \in Nat
      /\ Len(log') = Len(log) + Len(ops)
      /\ \A i \in 1..Len(log) : log'[i] = log[i]
  BY <1>1, <1>2, ConcatProperties, LenProperties
<1>4. LinkShape'
  BY <1>1, <1>2, <1>3 DEF LinkShape
<1>5. QueueHolds'
  <2>1. \A t \in 1..hooked : R!FrameOf(t)' = R!FrameOf(t)
    BY <1>2, <1>3 DEF R!FrameOf
  <2>2. \A l \in hub \ cut : Len(queue[l]) \in Nat /\ Len(queue[l]) <= hooked
    BY <1>2, LenProperties DEF LinkShape, CopyInv, QueueHolds
  <2>3. ASSUME NEW l \in hub \ cut, NEW i \in 1..Len(queue[l]) PROVE Base(l) + i \in 1..hooked
    BY <1>2, <2>2, <2>3 DEF Base
  <2>4. \A l : Base(l)' = Base(l)
    BY <1>1 DEF Base
  <2>. QED  BY <1>1, <2>1, <2>3, <2>4 DEF CopyInv, QueueHolds
<1>6. WireHolds'
  BY <1>1 DEF CopyInv, WireHolds, InDump, Streamed, Parted
<1>7. OrderHolds'
  BY <1>1 DEF CopyInv, OrderHolds, Begun, Sent, Base
<1>8. CleanHolds'
  <2>. SUFFICES ASSUME link # 0, link \in clean \ cut PROVE CleanHolds'
    BY <1>1 DEF CleanHolds
  <2>1. Base(link)' = Base(link) /\ Sent(link)' = Sent(link)
    BY <1>1 DEF Base, Sent
  <2>2. link \in hub \ cut /\ snap[link] \in Nat /\ snap[link] <= visible
        /\ Len(queue[link]) \in Nat
        /\ Len(queue[link]) <= hooked
    BY <1>2, LenProperties DEF CopyInv, LinkShape, QueueHolds
  <2>3. Sent(link) \in Nat /\ Sent(link) <= Len(log)
    BY <1>2, <1>3, <2>2 DEF Sent, Base, LinkShape
  <2>4. \A t \in 1..hooked : log'[t] = log[t]
    BY <1>2, <1>3
  <2>5. \A t \in 1..snap[link] : log'[t] = log[t]
    BY <1>2, <2>2, <2>4 DEF LinkShape
  <2>6. PICK n \in Nat : n = Sent(link)
    BY <2>3
  <2>7. ASSUME Calm(n)', NEW k \in Key PROVE Calm(n) /\ R!At(k, n)' = R!At(k, n)
    <3>1. n <= Len(log) /\ Len(log') \in Nat /\ Len(log') >= Len(log)
      BY <1>3, <2>3, <2>6
    <3>. QED  BY <1>2, <1>3, <2>7, <3>1, AtStays
  <2>9. ASSUME srv[link] # "pin", Calm(Sent(link))', NEW k \in Key \ todo[link]
        PROVE  Ends(wire[link], k, R!At(k, Sent(link)))'
    <3>1. Calm(n)' /\ R!At(k, Sent(link))' = R!At(k, n)'
      BY <2>1, <2>6, <2>9
    <3>2. Calm(n) /\ R!At(k, n)' = R!At(k, n)
      BY <2>7, <3>1
    <3>3. PICK v : v = R!At(k, n) /\ Ends(wire[link], k, v)
      BY <2>6, <2>9, <3>2 DEF CopyInv, CleanHolds
    <3>4. Ends(wire[link], k, v)'
      BY <1>1, <3>3 DEF Ends
    <3>5. R!At(k, Sent(link))' = v
      BY <3>1, <3>2, <3>3
    <3>. QED  BY <3>4, <3>5
  <2>10. Base(link)' = Base(link) /\ srv' = srv /\ hooked' = hooked /\ snap' = snap
    BY <1>1, <2>1
  <2>. QED  BY <1>1, <2>4, <2>5, <2>9, <2>10 DEF CopyInv, CleanHolds
<1>. QED  BY <1>4, <1>5, <1>6, <1>7, <1>8 DEF CopyInv

\* A connection that is served and not cut is the replica's, and in the hub.
LEMMA Registered ==
  ASSUME CopyInv, NEW l \in R!Link, srv[l] \in Serving, l \notin cut
  PROVE  /\ l = link /\ link # 0 /\ l \in hub \ cut
         /\ Len(queue[l]) \in Nat /\ Len(queue[l]) <= hooked /\ Base(l) \in Nat /\ Base(l) <= hooked
         /\ snap[l] \in Nat /\ snap[l] <= visible /\ Len(log) \in Nat
         /\ Sent(l) \in Nat /\ Sent(l) <= hooked /\ snap[l] <= Sent(l) /\ Base(l) <= Sent(l)
         /\ hooked \in Nat /\ visible \in Nat /\ visible <= hooked /\ hooked <= Len(log)
<1>1. /\ l = link /\ l \in hub \ cut /\ queue[l] \in Seq(R!Frame) /\ snap[l] \in Nat
         /\ snap[l] <= visible
      /\ hooked \in Nat /\ visible \in Nat /\ visible <= hooked /\ hooked <= Len(log)
      /\ log \in Seq(Key \cup {FlushAll})
  BY DEF CopyInv, LinkShape, Serving
<1>2. Len(queue[l]) \in Nat /\ Len(log) \in Nat
  BY <1>1, LenProperties
<1>3. Len(queue[l]) <= hooked /\ link # 0
  BY <1>1 DEF CopyInv, QueueHolds, R!Link
<1>. QED  BY <1>1, <1>2, <1>3 DEF Base, Sent

\* The hooks see the next entry of the log.
LEMMA HookDone == ASSUME CopyInv, CopyAssumption, R!Hook PROVE CopyInv'
<1>. DEFINE f == R!FrameOf(hooked + 1)
<1>1. /\ hooked < Len(log) /\ hooked' = hooked + 1
      /\ UNCHANGED <<log, visible, srv, snap, todo, wire, link, tries, copy, load>>
      /\ clean' = IF log[hooked + 1] = FlushAll THEN {l \in clean : srv[l] # "pin"} ELSE clean
  BY DEF R!Hook, R!replica
<1>2. /\ LinkShape /\ hub \subseteq R!Link /\ queue \in [R!Link -> Seq(R!Frame)]
         /\ (active <=> hub # {})
      /\ hooked \in Nat /\ Len(log) \in Nat /\ Len(log) <= MaxTs
      /\ log[hooked + 1] \in Key \cup {FlushAll}
  <2>1. LinkShape /\ log \in Seq(Key \cup {FlushAll}) /\ hooked \in Nat
    BY DEF CopyInv, LinkShape
  <2>2. Len(log) \in Nat /\ log \in [1..Len(log) -> Key \cup {FlushAll}]
    BY <2>1, LenProperties
  <2>3. hooked + 1 \in 1..Len(log)
    BY <1>1, <2>1, <2>2
  <2>. QED  BY <2>1, <2>2, <2>3 DEF LinkShape
<1>3. f \in R!Frame
  <2>1. hooked + 1 \in 1..MaxTs
    BY <1>1, <1>2 DEF CopyAssumption, R!ReplicationAssumption
  <2>. QED  BY <1>2, <2>1 DEF R!FrameOf, R!Frame
<1>. HIDE DEF f
<1>4. \A l \in R!Link : /\ Append(queue[l], f) \in Seq(R!Frame) /\ Len(queue[l]) \in Nat
                        /\ Len(Append(queue[l], f)) = Len(queue[l]) + 1
                        /\ \A i \in 1..Len(queue[l]) : Append(queue[l], f)[i] = queue[l][i]
                        /\ Append(queue[l], f)[Len(queue[l]) + 1] = f
  BY <1>2, <1>3, Pushed
<1>5. /\ hub' \subseteq hub /\ cut \subseteq cut' /\ \A l \in hub : l \notin hub' => l \in cut'
      /\ (active' <=> hub' # {})
      /\ queue' \in [R!Link -> Seq(R!Frame)]
      /\ \A l \in R!Link : l \in hub' => queue'[l] = Append(queue[l], f)
      /\ \A l \in R!Link : l \notin hub => queue'[l] = queue[l]
  <2>1. CASE active
    <3>1. /\ queue' = [l \in R!Link |-> IF l \in hub \ R!Full THEN Append(queue[l],
             f) ELSE queue[l]]
          /\ hub' = hub \ R!Full /\ cut' = cut \cup R!Full /\ active' = (hub' # {})
      BY <2>1 DEF R!Hook, f
    <3>. QED  BY <1>2, <1>4, <3>1
  <2>2. CASE ~active
    BY <1>2, <2>2 DEF R!Hook
  <2>. QED  BY <2>1, <2>2
<1>6. clean' \subseteq clean
  BY <1>1
<1>7. LinkShape'
  <2>1. hooked' \in Nat /\ visible' <= hooked' /\ hooked' <= Len(log')
    BY <1>1, <1>2 DEF LinkShape
  <2>2. hub' \subseteq R!Link
    BY <1>2, <1>5
  <2>3. ASSUME NEW l \in R!Link
        PROVE  /\ srv[l] # "off" /\ l \notin cut' => l = link
               /\ srv[l] \in {"off", "accepted"} => queue'[l] = <<>> /\ wire[l] = <<>>
               /\ l \in hub' \cup clean' => srv[l] \in Serving
               /\ srv[l] \in Serving /\ l \notin cut' => l \in hub'
    BY <1>2, <1>5, <1>6 DEF LinkShape, Serving
  <2>. QED  BY <1>1, <1>2, <1>5, <2>1, <2>2, <2>3 DEF LinkShape
<1>8. \A l \in hub' \ cut' : /\ l \in hub \ cut /\ Len(queue[l]) \in Nat /\ Len(queue[l]) <= hooked
                             /\ Len(queue'[l]) = Len(queue[l]) + 1 /\ Base(l)' = Base(l)
                                /\ Sent(l)' = Sent(l)
  <2>1. \A l \in hub' \ cut' : /\ l \in hub \ cut /\ l \in R!Link
                               /\ queue'[l] = Append(queue[l], f) /\ snap'[l] = snap[l]
    BY <1>1, <1>2, <1>5
  <2>2. \A l \in hub' \ cut' : /\ Len(queue[l]) \in Nat /\ Len(queue[l]) <= hooked
                               /\ Len(queue'[l]) = Len(queue[l]) + 1
    BY <1>4, <2>1 DEF CopyInv, QueueHolds
  <2>3. ASSUME NEW l \in hub' \ cut' PROVE Base(l)' = Base(l)
    <3>1. PICK n \in Nat : n = Len(queue[l])
      BY <2>2
    <3>2. Len(queue'[l]) = n + 1 /\ hooked' - (n + 1) = hooked - n
      BY <1>1, <1>2, <2>2, <3>1
    <3>. QED  BY <3>1, <3>2 DEF Base
  <2>. QED  BY <2>1, <2>2, <2>3 DEF Sent
<1>9. QueueHolds'
  <2>1. ASSUME NEW l \in hub' \ cut', NEW i \in 1..Len(queue'[l])
        PROVE  queue'[l][i] = R!FrameOf(Base(l) + i)'
    <3>1. l \in R!Link /\ queue'[l] = Append(queue[l], f)
      BY <1>2, <1>5, <2>1
    <3>2. /\ l \in hub \ cut /\ Len(queue[l]) \in Nat /\ Len(queue[l]) <= hooked
          /\ Len(queue'[l]) = Len(queue[l]) + 1 /\ Base(l)' = Base(l)
      BY <1>8, <2>1
    <3>3. \A t : R!FrameOf(t)' = R!FrameOf(t)
      BY <1>1 DEF R!FrameOf
    <3>4. R!FrameOf(Base(l) + i)' = R!FrameOf(Base(l) + i)
      BY <1>1, <3>2 DEF R!FrameOf
    <3>5. CASE i \in 1..Len(queue[l])
      BY <1>4, <3>1, <3>2, <3>4, <3>5 DEF CopyInv, QueueHolds
    <3>6. CASE i \notin 1..Len(queue[l])
      <4>1. PICK n \in Nat : n = Len(queue[l])
        BY <3>2
      <4>2. i = n + 1 /\ Base(l) = hooked - n
        BY <2>1, <3>2, <3>6, <4>1 DEF Base
      <4>3. hooked - n + (n + 1) = hooked + 1
        BY <1>2
      <4>4. Base(l) + i = hooked + 1
        BY <4>2, <4>3
      <4>. QED  BY <1>4, <3>1, <3>4, <4>1, <4>2, <4>4 DEF f
    <3>. QED  BY <3>5, <3>6
  <2>2. \A l \in hub' \ cut' : Len(queue'[l]) <= hooked'
    BY <1>1, <1>2, <1>8
  <2>. QED  BY <2>1, <2>2 DEF QueueHolds
<1>10. WireHolds'
  BY <1>1 DEF CopyInv, WireHolds, InDump, Streamed, Parted
<1>11. OrderHolds'
  <2>1. link # 0 /\ link \notin cut' /\ srv[link] \in Serving => Sent(link)' = Sent(link)
    BY <1>1, <1>7, <1>8 DEF LinkShape
  <2>2. Begun' <=> Begun
    BY <1>1 DEF Begun
  <2>. QED  BY <1>1, <1>5, <2>1, <2>2 DEF CopyInv, OrderHolds, Serving, Sending
<1>12. CleanHolds'
  <2>. SUFFICES ASSUME link # 0, link \in clean' \ cut' PROVE CleanHolds'
    BY <1>1 DEF CleanHolds
  <2>1. link \in clean \ cut /\ link \in hub' \ cut' /\ link \in R!Link
    BY <1>1, <1>2, <1>5, <1>6, <1>7 DEF LinkShape
  <2>2. Base(link)' = Base(link) /\ Sent(link)' = Sent(link)
    <3>1. PICK l \in hub' \ cut' : l = link
      BY <2>1
    <3>2. Base(l)' = Base(l) /\ Sent(l)' = Sent(l)
      BY <1>8
    <3>3. link' = l /\ link = l
      BY <1>1, <3>1
    <3>. QED  BY <3>2, <3>3 DEF Base, Sent
  <2>3. srv[link] = "pin" => log[hooked + 1] # FlushAll
    BY <1>1
  <2>4. srv[link] = "pin" => \A t \in 1..hooked' : t > Base(link) => log[t] # FlushAll
    BY <1>1, <1>2, <2>1, <2>3 DEF CopyInv, CleanHolds
  <2>5. \A n, k : (Calm(n)' <=> Calm(n)) /\ R!At(k, n)' = R!At(k, n)
    BY <1>1 DEF Calm, R!At
  <2>6. ASSUME srv[link] # "pin", Calm(Sent(link))', NEW k \in Key \ todo[link]
        PROVE  Ends(wire[link], k, R!At(k, Sent(link)))'
    <3>1. PICK n : n = Sent(link)
      OBVIOUS
    <3>2. PICK v : v = R!At(k, n)
      OBVIOUS
    <3>3. Calm(n) /\ R!At(k, Sent(link))' = v
      BY <2>2, <2>5, <2>6, <3>1, <3>2
    <3>4. Ends(wire[link], k, v)
      BY <2>1, <2>6, <3>1, <3>2, <3>3 DEF CopyInv, CleanHolds
    <3>5. Ends(wire[link], k, v)'
      BY <1>1, <3>4 DEF Ends
    <3>. QED  BY <3>3, <3>5
  <2>. QED  BY <1>1, <2>1, <2>2, <2>4, <2>6 DEF CopyInv, CleanHolds
<1>. QED  BY <1>7, <1>9, <1>10, <1>11, <1>12 DEF CopyInv

\* The group is published.
LEMMA PublishDone == ASSUME CopyInv, R!Publish PROVE CopyInv'
<1>1. /\ hooked = Len(log) /\ visible < Len(log) /\ visible' = Len(log)
      /\ UNCHANGED <<log, hooked, active, hub, srv, queue, snap, todo, wire, cut, link, tries, copy,
                     load, clean>>
  BY DEF R!Publish, R!conn, R!replica
<1>2. LinkShape /\ hooked \in Nat /\ visible \in Nat
  BY DEF CopyInv, LinkShape
<1>3. LinkShape'
  BY <1>1, <1>2 DEF LinkShape
<1>4. QueueHolds' /\ WireHolds'
  <2>1. QueueHolds'
    BY <1>1 DEF CopyInv, QueueHolds, Base, R!FrameOf
  <2>2. WireHolds'
    BY <1>1 DEF CopyInv, WireHolds, InDump, Streamed, Parted
  <2>. QED  BY <2>1, <2>2
<1>5. OrderHolds'
  BY <1>1 DEF CopyInv, OrderHolds, Begun, Sent, Base
<1>6. CleanHolds'
  <2>. SUFFICES ASSUME link # 0, link \in clean \ cut PROVE CleanHolds'
    BY <1>1 DEF CleanHolds
  <2>1. srv[link] \in Serving /\ link \in R!Link
    BY <1>2 DEF LinkShape
  <2>2. Base(link) <= visible'
    BY <1>1, <1>2, <2>1, Registered
  <2>3. /\ Base(link)' = Base(link) /\ Sent(link)' = Sent(link)
        /\ \A n, k : (Calm(n)' <=> Calm(n)) /\ R!At(k, n)' = R!At(k, n)
        /\ \A k, v : Ends(wire[link], k, v)' <=> Ends(wire[link], k, v)
    BY <1>1 DEF Base, Sent, Calm, R!At, Ends
  <2>4. ASSUME srv[link] # "pin", Calm(Sent(link))', NEW k \in Key \ todo[link]
        PROVE  Ends(wire[link], k, R!At(k, Sent(link)))'
    <3>1. PICK n, v : n = Sent(link) /\ v = R!At(k, n)
      OBVIOUS
    <3>2. Calm(n) /\ R!At(k, Sent(link))' = v
      BY <2>3, <2>4, <3>1
    <3>3. Ends(wire[link], k, v)'
      BY <2>3, <2>4, <3>1, <3>2 DEF CopyInv, CleanHolds
    <3>. QED  BY <3>2, <3>3
  <2>. QED  BY <1>1, <2>2, <2>3, <2>4 DEF CopyInv, CleanHolds
<1>. QED  BY <1>3, <1>4, <1>5, <1>6 DEF CopyInv

\* The link is cut, lost by the replica, or made again.
LEMMA LinkDone == ASSUME CopyInv, CopyAssumption, R!Disconnect \/ R!LinkLost \/ R!Connect
PROVE CopyInv'
<1>1. CASE R!Disconnect
  <2>1. /\ cut' = cut \cup {link}
        /\ UNCHANGED <<log, hooked, visible, active, hub, srv, queue, snap, todo, wire, link, tries,
                       copy, load, clean>>
    BY <1>1 DEF R!Disconnect, R!primary, R!conn, R!replica
  <2>2. LinkShape'
    BY <2>1 DEF CopyInv, LinkShape
  <2>5. QueueHolds'
    BY <2>1 DEF CopyInv, QueueHolds, Base, R!FrameOf
  <2>6. WireHolds'
    BY <2>1 DEF CopyInv, WireHolds, InDump, Streamed, Parted
  <2>3. OrderHolds'
    BY <2>1 DEF CopyInv, OrderHolds, Begun
  <2>4. CleanHolds'
    BY <2>1 DEF CleanHolds
  <2>. QED  BY <2>2, <2>3, <2>4, <2>5, <2>6 DEF CopyInv
<1>2. CASE R!LinkLost
  <2>1. /\ link \in cut /\ link' = 0 /\ load' = R!Empty /\ wire' = [wire EXCEPT ![link] = <<>>]
        /\ UNCHANGED <<log, hooked, visible, active, hub, srv, queue, snap, todo, cut, tries,
           copy, clean>>
    BY <1>2 DEF R!LinkLost, R!primary, R!conn
  <2>2. LinkShape
    BY DEF CopyInv
  <2>3. /\ wire' \in [R!Link -> Seq(R!Frame)] /\ load' \in [Key -> Nat]
        /\ \A l \in R!Link : wire'[l] = wire[l] \/ wire'[l] = <<>>
    <3>1. <<>> \in Seq(R!Frame)
      OBVIOUS
    <3>. QED  BY <2>1, <2>2, <3>1 DEF LinkShape, R!Empty
  <2>4. LinkShape'
    BY <2>1, <2>2, <2>3 DEF LinkShape
  <2>5. QueueHolds'
    BY <2>1 DEF CopyInv, QueueHolds, Base, R!FrameOf
  <2>. QED  BY <2>1, <2>4, <2>5 DEF CopyInv, WireHolds, OrderHolds, CleanHolds
<1>3. CASE R!Connect
  <2>1. /\ link = 0 /\ tries < MaxLinks /\ tries' = tries + 1 /\ link' = tries + 1
        /\ srv' = [srv EXCEPT ![tries + 1] = "accepted"]
        /\ UNCHANGED <<log, hooked, visible, active, hub, queue, snap, todo, wire, cut, copy,
           load, clean>>
    BY <1>3 DEF R!Connect, R!primary
  <2>0. LinkShape /\ tries \in Nat
    BY DEF CopyInv, LinkShape
  <2>2. tries + 1 \in R!Link /\ 0 \notin R!Link /\ tries + 1 > tries
    BY <2>0, <2>1 DEF CopyAssumption, R!ReplicationAssumption, R!Link
  <2>3. /\ srv[tries + 1] = "off" /\ queue[tries + 1] = <<>> /\ wire[tries + 1] = <<>>
           /\ load = R!Empty
        /\ tries + 1 \notin hub \cup clean
    BY <2>0, <2>1, <2>2 DEF LinkShape, Serving
  <2>4. srv' \in [R!Link -> {"off", "accepted", "gone"} \cup Serving]
    BY <2>0, <2>1, <2>2 DEF LinkShape
  <2>5. ASSUME NEW l \in R!Link
        PROVE  /\ l > tries' => srv'[l] = "off"
               /\ srv'[l] # "off" /\ l \notin cut => l = link'
               /\ srv'[l] \in {"off", "accepted"} => queue[l] = <<>> /\ wire[l] = <<>>
               /\ l \in hub \cup clean => srv'[l] \in Serving
               /\ srv'[l] \in Serving /\ l \notin cut => l \in hub
               /\ srv'[l] \in Sending => todo[l] = {}
    <3>1. CASE l = tries + 1
      BY <2>0, <2>1, <2>2, <2>3, <3>1 DEF LinkShape, Serving, Sending
    <3>2. CASE l # tries + 1
      <4>1. srv'[l] = srv[l] /\ (l > tries' => l > tries) /\ (srv[l] # "off" => l \in cut)
        BY <2>0, <2>1, <2>2, <3>2 DEF LinkShape, R!Link
      <4>. QED  BY <2>0, <2>2, <4>1 DEF LinkShape
    <3>. QED  BY <3>1, <3>2
  <2>6. srv'[link'] = "accepted"
    BY <2>0, <2>1, <2>2 DEF LinkShape
  <2>7. LinkShape'
    BY <2>0, <2>1, <2>2, <2>3, <2>4, <2>5, <2>6 DEF LinkShape
  <2>8. QueueHolds'
    BY <2>1 DEF CopyInv, QueueHolds, Base, R!FrameOf
  <2>9. wire'[link'] = <<>> /\ Len(<<>>) = 0 /\ 1..0 = {} /\ load' = R!Empty
    BY <2>1, <2>3
  <2>10. WireHolds'
    BY <2>6, <2>9 DEF WireHolds, InDump, Sending
  <2>11. OrderHolds'
    BY <2>6, <2>9 DEF OrderHolds, Begun, Sending
  <2>12. CleanHolds'
    BY <2>1, <2>3 DEF CleanHolds
  <2>. QED  BY <2>7, <2>8, <2>10, <2>11, <2>12 DEF CopyInv
<1>. QED  BY <1>1, <1>2, <1>3

\* A step of a connection's thread leaves the other connections alone.
LEMMA OneConnection ==
  ASSUME CopyInv, NEW l \in R!Link, srv[l] # "off",
         UNCHANGED <<log, hooked, visible, cut, link, tries, copy, load>>,
         srv' = [srv EXCEPT ![l] = srv'[l]], queue' = [queue EXCEPT ![l] = queue'[l]],
         snap' = [snap EXCEPT ![l] = snap'[l]], todo' = [todo EXCEPT ![l] = todo'[l]],
         wire' = [wire EXCEPT ![l] = wire'[l]],
         hub' \subseteq hub \cup {l}, hub \subseteq hub' \cup {l}, active' <=> hub' # {},
         clean' \subseteq clean \cup {l}, clean \subseteq clean' \cup {l},
         srv'[l] \in {"gone"} \cup Serving, queue'[l] \in Seq(R!Frame), wire'[l] \in Seq(R!Frame),
         snap'[l] \in Nat, snap'[l] <= visible, todo'[l] \in SUBSET Key,
         l \in hub' \cup clean' => srv'[l] \in Serving,
         srv'[l] \in Serving /\ l \notin cut => l \in hub',
         srv'[l] \in Sending => todo'[l] = {}
  PROVE  /\ LinkShape'
         /\ l # link => CopyInv'
         /\ QueueHolds' <=>
              (l \in hub' \ cut => /\ Len(queue'[l]) <= hooked
                                   /\ \A i \in 1..Len(queue'[l]) :
                                        queue'[l][i] = R!FrameOf(hooked - Len(queue'[l]) + i))
<1>1. LinkShape
  BY DEF CopyInv
<1>1a. /\ srv \in [R!Link -> {"off", "accepted", "gone"} \cup Serving]
       /\ queue \in [R!Link -> Seq(R!Frame)] /\ wire \in [R!Link -> Seq(R!Frame)]
       /\ snap \in [R!Link -> Nat] /\ todo \in [R!Link -> SUBSET Key] /\ hub \subseteq R!Link
  BY <1>1 DEF LinkShape
<1>2. \A m \in R!Link : m # l =>
        /\ srv'[m] = srv[m] /\ queue'[m] = queue[m] /\ snap'[m] = snap[m] /\ todo'[m] = todo[m]
        /\ wire'[m] = wire[m] /\ (m \in hub' <=> m \in hub) /\ (m \in clean' <=> m \in clean)
  <2>1. ASSUME NEW m \in R!Link, m # l PROVE srv'[m] = srv[m] /\ queue'[m] = queue[m]
    BY <1>1a, <2>1
  <2>2. ASSUME NEW m \in R!Link, m # l PROVE snap'[m] = snap[m] /\ todo'[m] = todo[m]
    BY <1>1a, <2>2
  <2>3. ASSUME NEW m \in R!Link, m # l PROVE wire'[m] = wire[m]
    BY <1>1a, <2>3
  <2>4. ASSUME NEW m, m # l PROVE (m \in hub' <=> m \in hub) /\ (m \in clean' <=> m \in clean)
    BY <2>4
  <2>. QED  BY <2>1, <2>2, <2>3, <2>4
<1>3. /\ srv' \in [R!Link -> {"off", "accepted", "gone"} \cup Serving]
      /\ queue' \in [R!Link -> Seq(R!Frame)] /\ wire' \in [R!Link -> Seq(R!Frame)]
      /\ snap' \in [R!Link -> Nat] /\ todo' \in [R!Link -> SUBSET Key] /\ hub' \subseteq R!Link
  <2>1. srv' \in [R!Link -> {"off", "accepted", "gone"} \cup Serving]
    BY <1>1a
  <2>2. queue' \in [R!Link -> Seq(R!Frame)]
    BY <1>1a
  <2>3. wire' \in [R!Link -> Seq(R!Frame)]
    BY <1>1a
  <2>4. snap' \in [R!Link -> Nat]
    BY <1>1a
  <2>5. todo' \in [R!Link -> SUBSET Key] /\ hub' \subseteq R!Link
    BY <1>1a
  <2>. QED  BY <2>1, <2>2, <2>3, <2>4, <2>5
<1>4. l \notin cut => l = link
  BY <1>1 DEF LinkShape
<1>5. srv'[l] \notin {"off", "accepted"}
  BY DEF Serving
<1>6. ASSUME NEW m \in R!Link
      PROVE  /\ snap'[m] <= visible
             /\ m > tries => srv'[m] = "off"
             /\ srv'[m] # "off" /\ m \notin cut => m = link
             /\ srv'[m] \in {"off", "accepted"} => queue'[m] = <<>> /\ wire'[m] = <<>>
             /\ m \in hub' \cup clean' => srv'[m] \in Serving
             /\ srv'[m] \in Serving /\ m \notin cut => m \in hub'
             /\ srv'[m] \in Sending => todo'[m] = {}
  <2>1. CASE m = l
    BY <1>1, <1>4, <1>5, <2>1 DEF LinkShape
  <2>2. CASE m # l
    BY <1>1, <1>2, <2>2 DEF LinkShape
  <2>. QED  BY <2>1, <2>2
<1>7. LinkShape'
  <2>1. link # 0 => srv'[link] # "off"
    BY <1>1, <1>2, <1>5 DEF LinkShape
  <2>. QED  BY <1>1, <1>3, <1>6, <2>1 DEF LinkShape
<1>8. \A m \in hub' \ cut : m = link /\ link # 0
  <2>1. 0 \notin R!Link
    BY DEF R!Link
  <2>2. ASSUME NEW m \in hub' \ cut PROVE m = link
    BY <1>3, <1>6, <2>2 DEF Serving
  <2>. QED  BY <1>3, <2>1, <2>2
<1>9. ASSUME l # link PROVE CopyInv'
  <2>1. l \in cut
    BY <1>4, <1>9
  <2>2. link # 0 => link \in R!Link
    BY <1>1 DEF LinkShape
  <2>3. ASSUME link # 0
        PROVE  /\ srv'[link] = srv[link] /\ queue'[link] = queue[link] /\ snap'[link] = snap[link]
               /\ todo'[link] = todo[link] /\ wire'[link] = wire[link]
               /\ (link \in hub' <=> link \in hub) /\ (link \in clean' <=> link \in clean)
    BY <1>2, <1>9, <2>2, <2>3
  <2>4. link # 0 => Base(link)' = Base(link) /\ Sent(link)' = Sent(link)
    BY <2>3 DEF Base, Sent
  <2>5. \A n, k : (Calm(n)' <=> Calm(n)) /\ R!At(k, n)' = R!At(k, n) /\ R!FrameOf(n)' = R!FrameOf(n)
    BY DEF Calm, R!At, R!FrameOf
  <2>6. QueueHolds'
    <3>. SUFFICES ASSUME NEW m \in hub' \ cut
                  PROVE  /\ Len(queue'[m]) <= hooked
                         /\ \A i \in 1..Len(queue'[m]) : queue'[m][i] = R!FrameOf(Base(m) + i)'
      BY DEF QueueHolds
    <3>1. m = link /\ m \in hub \ cut /\ queue'[m] = queue[m] /\ Base(m)' = Base(m)
      BY <1>8, <2>3, <2>4
    <3>2. /\ Len(queue[m]) <= hooked
          /\ \A i \in 1..Len(queue[m]) : queue[m][i] = R!FrameOf(Base(m) + i)
      BY <3>1 DEF CopyInv, QueueHolds
    <3>. QED  BY <3>1, <3>2 DEF R!FrameOf
  <2>7. WireHolds'
    BY <2>3 DEF CopyInv, WireHolds, InDump, Streamed, Parted
  <2>8. OrderHolds'
    <3>. SUFFICES ASSUME link # 0 PROVE OrderHolds'
      BY DEF OrderHolds
    <3>1. (Begun' <=> Begun) /\ Sent(link)' = Sent(link)
      BY <2>3, <2>4 DEF Begun
    <3>2. OrderHolds
      BY DEF CopyInv
    <3>. QED  BY <2>3, <3>1, <3>2 DEF OrderHolds
  <2>9. CleanHolds'
    <3>. SUFFICES ASSUME link # 0, link \in clean \ cut PROVE CleanHolds'
      BY <2>3 DEF CleanHolds
    <3>1. ASSUME srv[link] # "pin", Calm(Sent(link))', NEW k \in Key \ todo[link]
          PROVE  Ends(wire[link], k, R!At(k, Sent(link)))'
      <4>1. PICK n, v : n = Sent(link) /\ v = R!At(k, n)
        OBVIOUS
      <4>2. Calm(n) /\ R!At(k, Sent(link))' = v
        BY <2>4, <2>5, <3>1, <4>1
      <4>3. Ends(wire[link], k, v)'
        BY <2>3, <3>1, <4>1, <4>2 DEF CopyInv, CleanHolds, Ends
      <4>. QED  BY <4>2, <4>3
    <3>. QED  BY <2>3, <2>4, <3>1 DEF CopyInv, CleanHolds
  <2>. QED  BY <1>7, <2>6, <2>7, <2>8, <2>9 DEF CopyInv
<1>10. QueueHolds' <=>
         (l \in hub' \ cut => /\ Len(queue'[l]) <= hooked
                              /\ \A i \in 1..Len(queue'[l]) :
                                   queue'[l][i] = R!FrameOf(hooked - Len(queue'[l]) + i))
  <2>1. \A n : R!FrameOf(n)' = R!FrameOf(n)
    BY DEF R!FrameOf
  <2>2. CASE l = link
    BY <1>8, <2>2 DEF QueueHolds, Base, R!FrameOf
  <2>3. CASE l # link
    BY <1>4, <1>9, <2>3 DEF CopyInv
  <2>. QED  BY <2>2, <2>3
<1>. QED  BY <1>7, <1>9, <1>10

\* A frame goes out on a connection that is not cut.
LEMMA Sends ==
  ASSUME CopyInv, NEW l \in R!Link, NEW f \in R!Frame, R!Send(l, f), srv[l] # "off"
  PROVE  /\ l = link /\ l \notin cut /\ wire' = [wire EXCEPT ![l] = Append(wire[l], f)]
         /\ wire'[l] = Append(wire[l], f) /\ wire'[l] \in Seq(R!Frame)
         /\ Len(wire[l]) \in Nat /\ Len(wire'[l]) = Len(wire[l]) + 1
         /\ \A i \in 1..Len(wire[l]) : wire'[l][i] = wire[l][i]
         /\ wire'[l][Len(wire[l]) + 1] = f
         /\ \A i \in 1..Len(wire'[l]) : i \in 1..Len(wire[l]) \/ i = Len(wire[l]) + 1
<1>1. l \notin cut /\ wire' = [wire EXCEPT ![l] = Append(wire[l], f)]
  BY DEF R!Send
<1>2. wire \in [R!Link -> Seq(R!Frame)] /\ l = link
  BY <1>1 DEF CopyInv, LinkShape
<1>3. wire'[l] = Append(wire[l], f) /\ wire[l] \in Seq(R!Frame)
  BY <1>1, <1>2
<1>4. /\ Append(wire[l], f) \in Seq(R!Frame) /\ Len(wire[l]) \in Nat
      /\ Len(Append(wire[l], f)) = Len(wire[l]) + 1
      /\ \A i \in 1..Len(wire[l]) : Append(wire[l], f)[i] = wire[l][i]
      /\ Append(wire[l], f)[Len(wire[l]) + 1] = f
  BY <1>3, Pushed
<1>5. \A i \in 1..Len(wire'[l]) : i \in 1..Len(wire[l]) \/ i = Len(wire[l]) + 1
  BY <1>3, <1>4
<1>. QED  BY <1>1, <1>2, <1>3, <1>4, <1>5

\* The thread of a connection registers it.
LEMMA RegisterDone == ASSUME CopyInv, NEW l \in R!Link, R!Register(l) PROVE CopyInv'
<1>1. /\ srv[l] = "accepted" /\ srv' = [srv EXCEPT ![l] = "pin"]
      /\ hub' = hub \cup {l} /\ active' = TRUE
      /\ wire' = [wire EXCEPT ![l] = IF l \in cut THEN <<>> ELSE <<[kind |-> "full"]>>]
      /\ clean' = IF R!Idle THEN clean \cup {l} ELSE clean
      /\ UNCHANGED <<log, hooked, visible, queue, snap, todo, cut, link, tries, copy, load>>
  BY DEF R!Register, R!primary, R!replica
<1>2. /\ LinkShape /\ queue[l] = <<>> /\ wire[l] = <<>> /\ l \notin hub \cup clean
      /\ hooked \in Nat /\ visible \in Nat
  BY <1>1 DEF CopyInv, LinkShape, Serving
<1>3. /\ srv'[l] = "pin" /\ wire'[l] = IF l \in cut THEN <<>> ELSE <<[kind |-> "full"]>>
      /\ queue'[l] = <<>> /\ snap'[l] \in Nat /\ snap'[l] <= visible /\ todo'[l] \in SUBSET Key
  BY <1>1, <1>2 DEF LinkShape
<1>4. wire'[l] \in Seq(R!Frame) /\ queue'[l] \in Seq(R!Frame)
  <2>1. [kind |-> "full"] \in R!Frame
    BY DEF R!Frame
  <2>. QED  BY <1>3, <2>1
<1>5. /\ srv' = [srv EXCEPT ![l] = srv'[l]] /\ queue' = [queue EXCEPT ![l] = queue'[l]]
      /\ snap' = [snap EXCEPT ![l] = snap'[l]] /\ todo' = [todo EXCEPT ![l] = todo'[l]]
      /\ wire' = [wire EXCEPT ![l] = wire'[l]]
  BY <1>1, <1>2, <1>3 DEF LinkShape
<1>6. /\ LinkShape' /\ (l # link => CopyInv')
      /\ QueueHolds' <=>
           (l \in hub' \ cut => /\ Len(queue'[l]) <= hooked
                                /\ \A i \in 1..Len(queue'[l]) :
                                     queue'[l][i] = R!FrameOf(hooked - Len(queue'[l]) + i))
  BY <1>1, <1>2, <1>3, <1>4, <1>5, OneConnection DEF Serving, Sending
<1>7. Len(queue'[l]) = 0 /\ 1..0 = {}
  BY <1>3
<1>8. QueueHolds'
  BY <1>2, <1>6, <1>7
<1>9. ASSUME l = link PROVE CopyInv'
  <2>1. load = R!Empty
    BY <1>1, <1>9 DEF CopyInv, WireHolds, LinkShape
  <2>2. \A i \in 1..Len(wire'[l]) : i = 1 /\ wire'[l][i].kind = "full"
    BY <1>3
  <2>3. l \notin cut => 1 \in 1..Len(wire'[l])
    BY <1>3
  <2>4. WireHolds'
    BY <1>1, <1>3, <1>9, <2>1, <2>2 DEF WireHolds, InDump, Sending
  <2>5. OrderHolds'
    <3>1. \A k \in Key, i \in 1..Len(wire'[l]) : ~Carries(wire'[l][i], k)
      BY <2>2 DEF Carries
    <3>2. l \notin cut => ~Begun'
      BY <1>1, <1>9, <2>2, <2>3 DEF Begun
    <3>3. \A k \in Key : load[k] = 0
      BY <2>1 DEF R!Empty
    <3>. QED  BY <1>1, <1>3, <1>9, <3>1, <3>2, <3>3 DEF OrderHolds, Sending
  <2>6. CleanHolds'
    <3>. SUFFICES ASSUME l \in clean' \ cut PROVE CleanHolds'
      BY <1>1, <1>9 DEF CleanHolds
    <3>1. R!Idle
      BY <1>1, <1>2
    <3>2. Base(l)' = hooked /\ hooked <= visible
      BY <1>1, <1>2, <1>7, <3>1 DEF Base, R!Idle
    <3>3. \A t \in 1..hooked : ~(t > hooked)
      BY <1>2
    <3>. QED  BY <1>1, <1>3, <1>9, <3>2, <3>3 DEF CleanHolds
  <2>. QED  BY <1>6, <1>8, <2>4, <2>5, <2>6 DEF CopyInv
<1>. QED  BY <1>6, <1>9

\* The dump is pinned.
LEMMA PinDone == ASSUME CopyInv, NEW l \in R!Link, R!Pin(l) PROVE CopyInv'
<1>1. /\ srv[l] = "pin" /\ srv' = [srv EXCEPT ![l] = "dump"]
      /\ snap' = [snap EXCEPT ![l] = visible] /\ todo' = [todo EXCEPT ![l] = Key]
      /\ UNCHANGED <<log, hooked, visible, active, hub, queue, wire, cut, link, tries, copy,
         load, clean>>
  BY DEF R!Pin, R!primary, R!replica
<1>2. LinkShape /\ hooked \in Nat /\ visible \in Nat /\ visible <= hooked
  BY DEF CopyInv, LinkShape
<1>3. /\ srv'[l] = "dump" /\ wire'[l] = wire[l] /\ queue'[l] = queue[l] /\ snap'[l] = visible
      /\ todo'[l] = Key /\ queue[l] \in Seq(R!Frame) /\ wire[l] \in Seq(R!Frame)
  BY <1>1, <1>2 DEF LinkShape
<1>4. l \notin cut => l \in hub
  BY <1>1, <1>2 DEF LinkShape, Serving
<1>5. /\ srv' = [srv EXCEPT ![l] = srv'[l]] /\ queue' = [queue EXCEPT ![l] = queue'[l]]
      /\ snap' = [snap EXCEPT ![l] = snap'[l]] /\ todo' = [todo EXCEPT ![l] = todo'[l]]
      /\ wire' = [wire EXCEPT ![l] = wire'[l]]
  BY <1>1, <1>2, <1>3 DEF LinkShape
<1>6. /\ LinkShape' /\ (l # link => CopyInv')
      /\ QueueHolds' <=>
           (l \in hub' \ cut => /\ Len(queue'[l]) <= hooked
                                /\ \A i \in 1..Len(queue'[l]) :
                                     queue'[l][i] = R!FrameOf(hooked - Len(queue'[l]) + i))
  <2>1. (active' <=> hub' # {}) /\ hub' = hub /\ clean' = clean
    BY <1>1, <1>2 DEF LinkShape
  <2>2. /\ srv'[l] \in {"gone"} \cup Serving /\ (srv'[l] \notin Sending) /\ srv'[l] \in Serving
        /\ srv[l] # "off"
    BY <1>1, <1>3 DEF Serving, Sending
  <2>3. /\ hub' \subseteq hub \cup {l} /\ hub \subseteq hub' \cup {l}
        /\ clean' \subseteq clean \cup {l} /\ clean \subseteq clean' \cup {l}
        /\ (srv'[l] \in Serving /\ l \notin cut => l \in hub')
    BY <1>4, <2>1
  <2>4. /\ snap'[l] \in Nat /\ snap'[l] <= visible /\ todo'[l] \in SUBSET Key
        /\ queue'[l] \in Seq(R!Frame) /\ wire'[l] \in Seq(R!Frame)
    BY <1>2, <1>3
  <2>5. UNCHANGED <<log, hooked, visible, cut, link, tries, copy, load>>
    BY <1>1
  <2>. QED  BY <1>5, <2>1, <2>2, <2>3, <2>4, <2>5, OneConnection
<1>7. QueueHolds'
  BY <1>1, <1>3, <1>6 DEF CopyInv, QueueHolds, Base
<1>8. ASSUME l = link PROVE CopyInv'
  <2>1. link # 0 /\ load = R!Empty /\ \A i \in 1..Len(wire[l]) : wire[l][i].kind = "full"
    <3>1. link # 0
      BY <1>8 DEF R!Link
    <3>. QED  BY <1>1, <1>8, <3>1 DEF CopyInv, WireHolds
  <2>2. WireHolds'
    BY <1>1, <1>3, <1>8, <2>1 DEF CopyInv, WireHolds, InDump, Sending
  <2>3. OrderHolds'
    <3>1. \A k \in Key, i \in 1..Len(wire[l]) : ~Carries(wire[l][i], k)
      BY <2>1 DEF Carries
    <3>2. Begun' <=> Begun
      BY <1>1, <1>3, <1>8 DEF Begun
    <3>3. \A k \in Key : load[k] = 0
      BY <2>1 DEF R!Empty
    <3>4. l \notin cut /\ Begun => \A k \in Key : copy[k] = 0
      BY <1>1, <1>8, <2>1 DEF CopyInv, OrderHolds, R!Empty
    <3>5. l \notin cut => Sent(l)' \in Nat
      <4>1. l \notin cut => Base(l) \in Nat
        BY <1>1, Registered DEF Serving
      <4>. QED  BY <1>1, <1>2, <1>3, <4>1 DEF Sent, Base
    <3>. QED  BY <1>1, <1>3, <1>8, <3>1, <3>2, <3>3, <3>4, <3>5 DEF OrderHolds
  <2>4. CleanHolds'
    <3>. SUFFICES ASSUME l \in clean \ cut PROVE CleanHolds'
      BY <1>1, <1>8 DEF CleanHolds
    <3>1. Base(l) <= visible /\ \A t \in 1..hooked : t > Base(l) => log[t] # FlushAll
      BY <1>1, <1>8, <2>1 DEF CopyInv, CleanHolds
    <3>2. Base(l)' = Base(l) /\ Base(l) \in Nat
      BY <1>1, <1>3, Registered DEF Base, Serving
    <3>3. \A t \in 1..visible : t > Base(l) => log[t] # FlushAll
      BY <1>2, <3>1
    <3>. QED  BY <1>1, <1>3, <1>8, <3>1, <3>2, <3>3 DEF CleanHolds
  <2>. QED  BY <1>6, <1>7, <2>2, <2>3, <2>4 DEF CopyInv
<1>. QED  BY <1>6, <1>8

\* The dump visits a key.
LEMMA DumpDone == ASSUME CopyInv, CopyAssumption, NEW l \in R!Link, NEW k \in Key, R!Dump(l, k)
PROVE CopyInv'
<1>. DEFINE v == R!At(k, snap[l])
            f == [kind |-> "snap", key |-> k, ts |-> v]
<1>1. /\ srv[l] = "dump" /\ k \in todo[l] /\ todo' = [todo EXCEPT ![l] = @ \ {k}]
      /\ (IF v > 0 THEN R!Send(l, f) ELSE UNCHANGED wire)
      /\ UNCHANGED <<log, hooked, visible, active, hub, srv, queue, snap, cut, link, tries, copy,
         load, clean>>
  BY DEF R!Dump, R!primary, R!replica
<1>2. /\ LinkShape /\ hooked \in Nat /\ visible \in Nat /\ visible <= hooked /\ hooked <= Len(log)
      /\ Len(log) <= MaxTs /\ snap[l] \in Nat /\ snap[l] <= visible /\ todo[l] \in SUBSET Key
  BY DEF CopyInv, LinkShape
<1>3. /\ srv'[l] = "dump" /\ queue'[l] = queue[l] /\ snap'[l] = snap[l]
      /\ todo'[l] = todo[l] \ {k} /\ queue[l] \in Seq(R!Frame) /\ wire[l] \in Seq(R!Frame)
  BY <1>1, <1>2 DEF LinkShape
<1>4. l \notin cut => l \in hub
  BY <1>1, <1>2 DEF LinkShape, Serving
<1>5. v \in 0..snap[l]
  BY <1>2, AtIsThere
<1>6. v > 0 => f \in R!Frame
  <2>1. Len(log) \in Nat /\ MaxTs \in Nat
    BY <1>2, LenProperties DEF LinkShape, CopyAssumption, R!ReplicationAssumption
  <2>2. v > 0 => v \in 1..MaxTs
    BY <1>2, <1>5, <2>1
  <2>. HIDE DEF v
  <2>. QED  BY <2>2 DEF R!Frame
<1>7. f.kind = "snap" /\ f.key = k /\ f.ts = v
  OBVIOUS
<1>. HIDE DEF f, v
<1>8. v > 0 =>
        /\ l = link /\ l \notin cut /\ wire' = [wire EXCEPT ![l] = Append(wire[l], f)]
        /\ wire'[l] = Append(wire[l], f) /\ wire'[l] \in Seq(R!Frame)
        /\ Len(wire[l]) \in Nat /\ Len(wire'[l]) = Len(wire[l]) + 1
        /\ \A i \in 1..Len(wire[l]) : wire'[l][i] = wire[l][i]
        /\ wire'[l][Len(wire[l]) + 1] = f
        /\ \A i \in 1..Len(wire'[l]) : i \in 1..Len(wire[l]) \/ i = Len(wire[l]) + 1
  <2>. SUFFICES ASSUME v > 0 PROVE f \in R!Frame /\ R!Send(l, f) /\ srv[l] # "off"
    BY Sends
  <2>. QED  BY <1>1, <1>6
<1>9. v = 0 => wire' = wire
  BY <1>1
<1>10. v > 0 \/ v = 0
  BY <1>5
<1>11. wire' = [wire EXCEPT ![l] = wire'[l]] /\ wire'[l] \in Seq(R!Frame)
  BY <1>2, <1>3, <1>8, <1>9, <1>10 DEF LinkShape
<1>12. /\ LinkShape' /\ (l # link => CopyInv')
       /\ QueueHolds' <=>
            (l \in hub' \ cut => /\ Len(queue'[l]) <= hooked
                                 /\ \A i \in 1..Len(queue'[l]) :
                                      queue'[l][i] = R!FrameOf(hooked - Len(queue'[l]) + i))
  <2>1. (active' <=> hub' # {}) /\ hub' = hub /\ clean' = clean
    BY <1>1, <1>2 DEF LinkShape
  <2>2. /\ srv'[l] \in {"gone"} \cup Serving /\ (srv'[l] \notin Sending) /\ srv'[l] \in Serving
        /\ srv[l] # "off"
    BY <1>1, <1>3 DEF Serving, Sending
  <2>3. /\ hub' \subseteq hub \cup {l} /\ hub \subseteq hub' \cup {l}
        /\ clean' \subseteq clean \cup {l} /\ clean \subseteq clean' \cup {l}
        /\ (srv'[l] \in Serving /\ l \notin cut => l \in hub')
    BY <1>4, <2>1
  <2>4. /\ snap'[l] \in Nat /\ snap'[l] <= visible /\ todo'[l] \in SUBSET Key
        /\ queue'[l] \in Seq(R!Frame) /\ wire'[l] \in Seq(R!Frame)
    BY <1>2, <1>3, <1>11
  <2>5. UNCHANGED <<log, hooked, visible, cut, link, tries, copy, load>>
    BY <1>1
  <2>6. /\ srv' = [srv EXCEPT ![l] = srv'[l]] /\ queue' = [queue EXCEPT ![l] = queue'[l]]
        /\ snap' = [snap EXCEPT ![l] = snap'[l]] /\ todo' = [todo EXCEPT ![l] = todo'[l]]
    BY <1>1, <1>2, <1>3 DEF LinkShape
  <2>. QED  BY <1>11, <2>1, <2>2, <2>3, <2>4, <2>5, <2>6, OneConnection
<1>13. QueueHolds'
  BY <1>1, <1>3, <1>12 DEF CopyInv, QueueHolds, Base
<1>14. ASSUME l = link PROVE CopyInv'
  <2>. DEFINE w == wire[l]
              x == wire'[l]
              n == Len(w)
  <2>0. link # 0
    BY <1>14 DEF R!Link
  <2>1. InDump(w) /\ (\A i \in 1..n : w[i].kind = "full" => i = 1 /\ load = R!Empty)
    BY <1>1, <1>14, <2>0 DEF CopyInv, WireHolds
  <2>2. /\ v > 0 => /\ n \in Nat /\ Len(x) = n + 1 /\ (\A i \in 1..n : x[i] = w[i]) /\ x[n + 1] = f
                    /\ \A i \in 1..Len(x) : i \in 1..n \/ i = n + 1
                    /\ x = Append(w, f) /\ l \notin cut
        /\ v = 0 => x = w
        /\ w \in Seq(R!Frame) /\ n \in Nat
    BY <1>3, <1>8, <1>9, LenProperties
  <2>3. /\ \A i, j \in 1..n, m \in Key : i < j /\ Carries(w[i], m) /\ Carries(w[j], m)
           => w[i].ts <= w[j].ts
        /\ Begun => \A m \in Key :
             /\ \A i \in 1..n : Carries(w[i], m) => copy[m] <= w[i].ts /\ load[m] <= w[i].ts
             /\ load[m] > 0 => copy[m] <= load[m]
        /\ l \notin cut =>
             \A m \in Key :
               /\ \A i \in 1..n : Carries(w[i], m) => w[i].ts <= Sent(l) /\ m \notin todo[l]
               /\ Begun => /\ copy[m] <= Sent(l) /\ load[m] <= Sent(l)
                           /\ m \in todo[l] => copy[m] = 0 /\ load[m] = 0
    BY <1>1, <1>14, <2>0 DEF CopyInv, OrderHolds
  <2>4. Sent(l)' = Sent(l) /\ Base(l)' = Base(l)
    BY <1>1, <1>3 DEF Sent, Base
  <2>5. l \notin cut => v <= Sent(l) /\ Sent(l) \in Nat
    BY <1>1, <1>5, <1>2, Registered DEF Serving
  <2>6. Carries(f, k) /\ \A m : Carries(f, m) => m = k
    BY <1>7 DEF Carries
  <2>7. Begun' <=> Begun
    <3>1. srv' = srv /\ link' = link /\ srv[link] # "accepted"
      BY <1>1, <1>14
    <3>2. (\A i \in 1..Len(x) : x[i].kind # "full") <=> (\A i \in 1..n : w[i].kind # "full")
      <4>1. CASE v = 0
        BY <2>2, <4>1
      <4>2. CASE v > 0
        <5>1. x[n + 1].kind # "full" /\ 1..n \subseteq 1..Len(x)
          BY <1>7, <2>2, <4>2
        <5>. HIDE DEF w, x, n
        <5>. QED  BY <2>2, <4>2, <5>1
      <4>. QED  BY <1>10, <4>1, <4>2
    <3>. QED  BY <1>14, <3>1, <3>2 DEF Begun
  <2>8. WireHolds'
    <3>1. InDump(x)
      BY <1>7, <1>10, <2>1, <2>2 DEF InDump
    <3>2. \A i \in 1..Len(x) : x[i].kind = "full" => i = 1 /\ load = R!Empty
      BY <1>7, <1>10, <2>1, <2>2
    <3>3. InDump(wire[link])'
      BY <1>1, <1>14, <3>1 DEF InDump
    <3>. QED  BY <1>1, <1>3, <1>14, <3>2, <3>3 DEF WireHolds, Sending
  <2>9. OrderHolds'
    <3>1. CASE v = 0
      BY <1>1, <1>3, <1>14, <2>2, <2>3, <2>4, <2>7, <3>1 DEF OrderHolds, Sending
    <3>2. CASE v > 0
      <4>1. l \notin cut /\ \A i \in 1..n : ~Carries(w[i], k)
        BY <1>1, <2>2, <2>3, <3>2
      <4>2. ASSUME NEW i \in 1..Len(x), NEW j \in 1..Len(x), NEW m \in Key, i < j,
                   Carries(x[i], m), Carries(x[j], m)
            PROVE  x[i].ts <= x[j].ts
        <5>1. i \in 1..n
          BY <2>2, <3>2, <4>2
        <5>2. j # n + 1
          BY <2>2, <2>6, <3>2, <4>1, <4>2, <5>1
        <5>. QED  BY <2>2, <2>3, <3>2, <4>2, <5>1, <5>2
      <4>3. ASSUME Begun, NEW m \in Key
            PROVE  \A i \in 1..Len(x) : Carries(x[i], m) => copy[m] <= x[i].ts /\ load[m] <= x[i].ts
        <5>1. copy[k] = 0 /\ load[k] = 0
          BY <1>1, <2>3, <4>1, <4>3
        <5>2. f.ts = v /\ 0 <= v
          BY <1>7, <3>2, <1>5, <1>2
        <5>. QED  BY <2>2, <2>3, <2>6, <3>2, <4>3, <5>1, <5>2
      <4>4. ASSUME NEW m \in Key
            PROVE  /\ \A i \in 1..Len(x) : Carries(x[i], m) => x[i].ts <= Sent(l)
                      /\ m \notin todo'[l]
                   /\ Begun => /\ copy[m] <= Sent(l) /\ load[m] <= Sent(l)
                               /\ m \in todo'[l] => copy[m] = 0 /\ load[m] = 0
        BY <1>3, <1>7, <2>2, <2>3, <2>5, <2>6, <3>2, <4>1
      <4>5. \A m \in Key : Begun => (load[m] > 0 => copy[m] <= load[m])
        BY <2>3
      <4>. HIDE DEF x, w, n
      <4>6. wire'[link'] = x /\ link' = l /\ copy' = copy /\ load' = load /\ srv'[l] = "dump"
            /\ cut' = cut
        BY <1>1, <1>3, <1>14 DEF x
      <4>. QED  BY <2>4, <2>7, <4>2, <4>3, <4>4, <4>5, <4>6 DEF OrderHolds, Sending
    <3>. QED  BY <1>10, <3>1, <3>2
  <2>10. CleanHolds'
    <3>. SUFFICES ASSUME l \in clean \ cut PROVE CleanHolds'
      BY <1>1, <1>14 DEF CleanHolds
    <3>1. /\ \A t \in 1..snap[l] : t > Base(l) => log[t] # FlushAll
          /\ Base(l) <= snap[l]
          /\ Calm(Sent(l)) => \A m \in Key \ todo[l] : Ends(w, m, R!At(m, Sent(l)))
      BY <1>1, <1>14, <2>0 DEF CopyInv, CleanHolds
    <3>2. Sent(l) = snap[l]
      <4>1. Base(l) \in Nat
        BY <1>1, Registered DEF Serving
      <4>. QED  BY <1>2, <3>1, <4>1 DEF Sent
    <3>3. PICK s : s = Sent(l)
      OBVIOUS
    <3>4. v = R!At(k, s)
      BY <3>2, <3>3 DEF v
    <3>5. ASSUME Calm(s), NEW m \in Key \ todo'[l] PROVE Ends(x, m, R!At(m, s))
      <4>1. CASE m # k
        <5>1. Ends(w, m, R!At(m, s))
          BY <1>3, <3>1, <3>3, <3>5, <4>1
        <5>2. ~Touches(f, m)
          BY <1>7, <4>1 DEF Touches, Carries
        <5>3. v > 0 => Ends(Append(w, f), m, R!At(m, s))
          BY <1>6, <2>2, <5>1, <5>2, EndsLater
        <5>. QED  BY <1>10, <2>2, <5>1, <5>3
      <4>2. CASE m = k /\ v > 0
        <5>1. Touches(f, k) /\ Value(f) = v
          BY <1>7 DEF Touches, Carries, Value
        <5>. QED  BY <1>6, <2>2, <3>4, <4>2, <5>1, EndsLater
      <4>3. CASE m = k /\ v = 0
        <5>1. \A i \in 1..n : ~Carries(w[i], k)
          BY <1>1, <2>3
        <5>2. CASE \E i \in 1..n : w[i].kind = "full"
          <6>1. PICK i \in 1..n : w[i].kind = "full"
            BY <5>2
          <6>2. Touches(w[i], k) /\ Value(w[i]) = 0
            BY <6>1 DEF Touches, Value
          <6>3. \A j \in 1..n : j > i => ~Touches(w[j], k)
            BY <2>1, <5>1, <6>1 DEF Touches, InDump
          <6>. QED  BY <2>2, <3>4, <4>3, <6>2, <6>3 DEF Ends
        <5>3. CASE \A i \in 1..n : w[i].kind # "full"
          <6>1. Begun
            BY <1>1, <1>14, <5>3 DEF Begun
          <6>2. copy[k] = 0 /\ load[k] = 0
            BY <1>1, <2>3, <6>1
          <6>3. \A i \in 1..n : ~Touches(w[i], k)
            BY <2>1, <5>1, <5>3 DEF Touches, InDump
          <6>. QED  BY <2>2, <3>4, <4>3, <6>2, <6>3 DEF Ends
        <5>. QED  BY <5>2, <5>3
      <4>. QED  BY <1>10, <4>1, <4>2, <4>3
    <3>6. ASSUME Calm(Sent(link))', NEW m \in Key \ todo'[l]
          PROVE  Ends(wire[link], m, R!At(m, Sent(link)))'
      <4>1. Sent(link)' = s
        BY <1>1, <1>3, <1>14, <3>3 DEF Sent, Base
      <4>2. Calm(s)
        BY <1>1, <3>6, <4>1 DEF Calm
      <4>3. PICK a : a = R!At(m, s)
        OBVIOUS
      <4>4. R!At(m, s)' = a
        BY <1>1, <4>3 DEF R!At
      <4>5. Ends(wire[link], m, a)'
        BY <1>1, <1>14, <3>5, <4>2, <4>3 DEF Ends
      <4>. QED  BY <4>1, <4>4, <4>5
    <3>7. Base(link)' = Base(l) /\ link' = l /\ srv'[l] = "dump" /\ snap'[l] = snap[l] /\ log' = log
      BY <1>1, <1>3, <1>14 DEF Base
    <3>. QED  BY <1>14, <3>1, <3>6, <3>7 DEF CleanHolds
  <2>. QED  BY <1>12, <1>13, <2>8, <2>9, <2>10 DEF CopyInv
<1>. QED  BY <1>12, <1>14

\* The thread goes on, and sends READY or a heartbeat, or nothing.
LEMMA GoesOn ==
  ASSUME CopyInv, NEW l \in R!Link, NEW f \in R!Frame,
         srv' = [srv EXCEPT ![l] = srv'[l]], srv'[l] \in Sending,
         UNCHANGED <<log, hooked, visible, active, hub, queue, snap, todo, cut, link, tries,
         copy, load, clean>>,
         \/ srv[l] \in Sending /\ UNCHANGED wire
         \/ srv[l] \in Sending /\ f.kind = "ping" /\ R!Send(l, f)
         \/ srv[l] = "dump" /\ todo[l] = {} /\ f.kind = "ready" /\ R!Send(l, f)
  PROVE  CopyInv'
<1>1. LinkShape
  BY DEF CopyInv
<1>2. /\ queue'[l] = queue[l] /\ snap'[l] = snap[l] /\ todo'[l] = {} /\ todo[l] = {}
      /\ queue[l] \in Seq(R!Frame) /\ wire[l] \in Seq(R!Frame) /\ snap[l] \in Nat
         /\ snap[l] <= visible
      /\ srv[l] \in Sending \cup {"dump"}
  BY <1>1 DEF LinkShape
<1>3. Sending \subseteq Serving /\ "dump" \in Serving /\ "off" \notin Serving
      /\ "accepted" \notin Serving /\ "pin" \notin Sending /\ "dump" \notin Sending
  BY DEF Sending, Serving
<1>4. R!Send(l, f) =>
        /\ l = link /\ l \notin cut /\ wire' = [wire EXCEPT ![l] = Append(wire[l], f)]
        /\ wire'[l] = Append(wire[l], f) /\ wire'[l] \in Seq(R!Frame)
        /\ Len(wire[l]) \in Nat /\ Len(wire'[l]) = Len(wire[l]) + 1
        /\ \A i \in 1..Len(wire[l]) : wire'[l][i] = wire[l][i]
        /\ wire'[l][Len(wire[l]) + 1] = f
        /\ \A i \in 1..Len(wire'[l]) : i \in 1..Len(wire[l]) \/ i = Len(wire[l]) + 1
  BY <1>2, <1>3, Sends
<1>5. wire' = [wire EXCEPT ![l] = wire'[l]] /\ wire'[l] \in Seq(R!Frame)
  BY <1>1, <1>2, <1>4 DEF LinkShape
<1>6. /\ LinkShape' /\ (l # link => CopyInv')
      /\ QueueHolds' <=>
           (l \in hub' \ cut => /\ Len(queue'[l]) <= hooked
                                /\ \A i \in 1..Len(queue'[l]) :
                                     queue'[l][i] = R!FrameOf(hooked - Len(queue'[l]) + i))
  <2>1. (active' <=> hub' # {}) /\ hub' = hub /\ clean' = clean
    BY <1>1 DEF LinkShape
  <2>2. /\ srv'[l] \in {"gone"} \cup Serving /\ srv'[l] \in Serving
        /\ srv[l] # "off"
    BY <1>2, <1>3
  <2>3. /\ hub' \subseteq hub \cup {l} /\ hub \subseteq hub' \cup {l}
        /\ clean' \subseteq clean \cup {l} /\ clean \subseteq clean' \cup {l}
        /\ (srv'[l] \in Serving /\ l \notin cut => l \in hub')
    BY <1>1, <1>2, <1>3, <2>1 DEF LinkShape
  <2>4. /\ snap'[l] \in Nat /\ snap'[l] <= visible /\ todo'[l] \in SUBSET Key
        /\ queue'[l] \in Seq(R!Frame) /\ wire'[l] \in Seq(R!Frame)
    BY <1>2, <1>5
  <2>5. UNCHANGED <<log, hooked, visible, cut, link, tries, copy, load>>
    OBVIOUS
  <2>6. /\ queue' = [queue EXCEPT ![l] = queue'[l]]
        /\ snap' = [snap EXCEPT ![l] = snap'[l]] /\ todo' = [todo EXCEPT ![l] = todo'[l]]
    BY <1>1, <1>2 DEF LinkShape
  <2>. QED  BY <1>2, <1>5, <2>1, <2>2, <2>3, <2>4, <2>5, <2>6, OneConnection
<1>7. QueueHolds'
  BY <1>2, <1>6 DEF CopyInv, QueueHolds, Base
<1>8. ASSUME l = link PROVE CopyInv'
  <2>. DEFINE w == wire[l]
              x == wire'[l]
              n == Len(w)
  <2>0. link # 0
    BY <1>8 DEF R!Link
  <2>1. \/ x = w
        \/ /\ n \in Nat /\ Len(x) = n + 1 /\ (\A i \in 1..n : x[i] = w[i]) /\ x[n + 1] = f
           /\ \A i \in 1..Len(x) : i \in 1..n \/ i = n + 1
           /\ x = Append(w, f) /\ l \notin cut /\ f.kind \in {"ping", "ready"}
    BY <1>4
  <2>2. \A k : ~Carries(f, k) \/ x = w
    BY <2>1 DEF Carries
  <2>3. n \in Nat
    BY <1>2, LenProperties
  <2>4. \A i \in 1..n : w[i].kind = "full" => i = 1 /\ load = R!Empty
    BY <1>8, <2>0 DEF CopyInv, WireHolds
  <2>5. \A i \in 1..Len(x) : x[i].kind = "full" => i = 1 /\ load = R!Empty
    BY <2>1, <2>3, <2>4
  <2>6. Streamed(x)
    <3>1. CASE srv[l] \in Sending /\ UNCHANGED wire
      BY <1>8, <2>0, <3>1 DEF CopyInv, WireHolds
    <3>2. CASE srv[l] \in Sending /\ f.kind = "ping" /\ R!Send(l, f)
      <4>1. PICK m \in 0..n : Parted(w, m)
        BY <1>8, <2>0, <3>2 DEF CopyInv, WireHolds, Streamed
      <4>2. m \in 0..Len(x) /\ \A i \in 1..Len(x) : i \in 1..n \/ (i = n + 1 /\ i > m)
        <5>1. PICK c \in Nat : c = n
          BY <2>3
        <5>2. Len(x) = c + 1 /\ m \in 0..c /\ \A i \in 1..Len(x) : i \in 1..c \/ i = c + 1
          BY <1>4, <3>2, <4>1, <5>1
        <5>3. m \in 0..(c + 1) /\ c + 1 > m
          BY <5>1, <5>2
        <5>4. ASSUME NEW i \in 1..Len(x) PROVE i \in 1..c \/ (i = c + 1 /\ i > m)
          <6>1. i \in 1..c \/ i = c + 1
            BY <5>2
          <6>2. i = c + 1 => i > m
            BY <5>3
          <6>. QED  BY <6>1, <6>2
        <5>. QED  BY <5>1, <5>2, <5>3, <5>4
      <4>3. Parted(x, m)
        BY <1>4, <3>2, <4>1, <4>2 DEF Parted
      <4>. QED  BY <4>2, <4>3 DEF Streamed
    <3>3. CASE srv[l] = "dump" /\ todo[l] = {} /\ f.kind = "ready" /\ R!Send(l, f)
      <4>1. InDump(w)
        BY <1>8, <2>0, <3>3 DEF CopyInv, WireHolds
      <4>2. n + 1 \in 0..Len(x) /\ n + 1 # 0 /\ \A i \in 1..Len(x) : ~(i > n + 1)
            /\ (i < n + 1 => i \in 1..n)
        BY <1>4, <3>3
      <4>3. Parted(x, n + 1)
        BY <1>4, <3>3, <4>1, <4>2 DEF Parted, InDump
      <4>. QED  BY <4>2, <4>3 DEF Streamed
    <3>. QED  BY <3>1, <3>2, <3>3
  <2>7. Begun' <=> Begun
    <3>1. srv[l] # "accepted" /\ srv'[l] # "accepted"
      BY <1>2, <1>3
    <3>. QED  BY <1>8, <2>1, <2>3, <3>1 DEF Begun
  <2>8. Sent(l)' = Sent(l) /\ Base(l)' = Base(l)
    BY <1>2 DEF Sent, Base
  <2>9. WireHolds'
    <3>1. Streamed(wire[link])'
      BY <1>8, <2>6 DEF Streamed, Parted
    <3>. QED  BY <1>2, <1>3, <1>8, <2>5, <3>1 DEF WireHolds
  <2>10. /\ \A i, j \in 1..n, m \in Key : i < j /\ Carries(w[i], m) /\ Carries(w[j], m)
            => w[i].ts <= w[j].ts
         /\ Begun => \A m \in Key :
              /\ \A i \in 1..n : Carries(w[i], m) => copy[m] <= w[i].ts /\ load[m] <= w[i].ts
              /\ load[m] > 0 => copy[m] <= load[m]
         /\ l \notin cut =>
              \A m \in Key :
                /\ \A i \in 1..n : Carries(w[i], m) => w[i].ts <= Sent(l) /\ m \notin todo[l]
                /\ Begun => copy[m] <= Sent(l) /\ load[m] <= Sent(l)
    BY <1>2, <1>8, <2>0 DEF CopyInv, OrderHolds
  <2>11. \A m : \A i \in 1..Len(x) : Carries(x[i], m) => i \in 1..n /\ x[i] = w[i]
    BY <2>1, <2>2
  <2>12. OrderHolds'
    <3>1. \A i, j \in 1..Len(x), m \in Key : i < j /\ Carries(x[i], m) /\ Carries(x[j], m)
          => x[i].ts <= x[j].ts
      BY <2>10, <2>11
    <3>2. Begun => \A m \in Key :
             /\ \A i \in 1..Len(x) : Carries(x[i], m) => copy[m] <= x[i].ts /\ load[m] <= x[i].ts
             /\ load[m] > 0 => copy[m] <= load[m]
      BY <2>10, <2>11
    <3>3. l \notin cut =>
            \A m \in Key :
              /\ \A i \in 1..Len(x) : Carries(x[i], m) => x[i].ts <= Sent(l)
              /\ Begun => copy[m] <= Sent(l) /\ load[m] <= Sent(l)
      BY <2>10, <2>11
    <3>4. wire'[link'] = x /\ link' = l /\ copy' = copy /\ load' = load /\ srv'[l] # "pin"
          /\ cut' = cut /\ todo'[l] = {}
      BY <1>2, <1>3, <1>8
    <3>. HIDE DEF x, w, n
    <3>. QED  BY <2>7, <2>8, <3>1, <3>2, <3>3, <3>4 DEF OrderHolds
  <2>13. CleanHolds'
    <3>. SUFFICES ASSUME l \in clean \ cut PROVE CleanHolds'
      BY <1>8 DEF CleanHolds
    <3>1. /\ \A t \in 1..snap[l] : t > Base(l) => log[t] # FlushAll
          /\ Calm(Sent(l)) => \A m \in Key : Ends(w, m, R!At(m, Sent(l)))
      BY <1>2, <1>3, <1>8, <2>0 DEF CopyInv, CleanHolds
    <3>2. ASSUME NEW m \in Key, NEW a, Ends(w, m, a) PROVE Ends(x, m, a)
      <4>1. CASE x = w
        BY <3>2, <4>1
      <4>2. CASE x # w
        <5>1. ~Touches(f, m) /\ x = Append(w, f)
          BY <2>1, <4>2 DEF Touches, Carries
        <5>2. Ends(Append(w, f), m, a)
          BY <1>2, <3>2, <5>1, EndsLater
        <5>. QED  BY <5>1, <5>2
      <4>. QED  BY <4>1, <4>2
    <3>3. ASSUME Calm(Sent(link))', NEW m \in Key PROVE Ends(wire[link], m, R!At(m, Sent(link)))'
      <4>1. PICK s : s = Sent(l)
        OBVIOUS
      <4>2. Sent(link)' = s /\ Calm(s)
        BY <1>8, <2>8, <3>3, <4>1 DEF Calm, Sent, Base
      <4>3. PICK a : a = R!At(m, s)
        OBVIOUS
      <4>4. R!At(m, s)' = a
        BY <4>3 DEF R!At
      <4>5. Ends(x, m, a)
        BY <3>1, <3>2, <4>1, <4>2, <4>3
      <4>6. Ends(wire[link], m, a)'
        BY <1>8, <4>5 DEF Ends
      <4>. QED  BY <4>2, <4>4, <4>6
    <3>4. Base(link)' = Base(l) /\ link' = l /\ srv'[l] \notin {"pin", "dump"}
          /\ snap'[l] = snap[l] /\ log' = log
      BY <1>2, <1>3, <1>8 DEF Base
    <3>. QED  BY <1>8, <3>1, <3>3, <3>4 DEF CleanHolds
  <2>. QED  BY <1>6, <1>7, <2>9, <2>12, <2>13 DEF CopyInv
<1>. QED  BY <1>6, <1>8

\* READY, heartbeats and waiting.
LEMMA GoingOnDone ==
  ASSUME CopyInv, CopyAssumption, NEW l \in R!Link,
         R!Ready(l) \/ R!Quiet(l) \/ R!Ping(l) \/ R!PingNotDue(l)
  PROVE  CopyInv'
<1>1. LinkShape /\ snap[l] \in Nat /\ snap[l] <= MaxTs /\ visible \in Nat /\ visible <= MaxTs
  <2>1. LinkShape /\ log \in Seq(Key \cup {FlushAll})
    BY DEF CopyInv, LinkShape
  <2>2. Len(log) \in Nat
    BY <2>1, LenProperties
  <2>3. /\ snap[l] \in Nat /\ snap[l] <= visible /\ visible \in Nat /\ visible <= hooked
        /\ hooked \in Nat /\ hooked <= Len(log) /\ Len(log) <= MaxTs
    BY <2>1 DEF LinkShape
  <2>4. MaxTs \in Nat
    BY DEF CopyAssumption, R!ReplicationAssumption
  <2>. QED  BY <2>1, <2>2, <2>3, <2>4
<1>2. \A p \in Sending : srv' = [srv EXCEPT ![l] = p] => srv'[l] = p
  BY <1>1 DEF LinkShape
<1>3. \A t \in {snap[l], visible}, kind \in {"ready", "ping"} :
        [kind |-> kind, ts |-> t] \in R!Frame /\ [kind |-> kind, ts |-> t].kind = kind
  BY <1>1 DEF R!Frame, CopyAssumption, R!ReplicationAssumption
<1>4. CASE R!Ready(l)
  <2>1. /\ srv[l] = "dump" /\ todo[l] = {} /\ srv' = [srv EXCEPT ![l] = "recv"]
        /\ R!Send(l, [kind |-> "ready", ts |-> snap[l]])
        /\ UNCHANGED <<log, hooked, visible, active, hub, queue, snap, todo, cut, link, tries,
           copy, load, clean>>
    BY <1>4 DEF R!Ready, R!primary, R!replica
  <2>2. PICK f : f = [kind |-> "ready", ts |-> snap[l]]
    OBVIOUS
  <2>3. f \in R!Frame /\ f.kind = "ready" /\ R!Send(l, f)
    BY <1>3, <2>1, <2>2
  <2>4. srv' = [srv EXCEPT ![l] = srv'[l]] /\ srv'[l] \in Sending
    BY <1>2, <2>1 DEF Sending
  <2>. QED  BY <2>1, <2>3, <2>4, GoesOn
<1>5. CASE R!Quiet(l) \/ R!PingNotDue(l)
  <2>1. /\ srv[l] \in Sending /\ UNCHANGED wire
        /\ \E p \in Sending : srv' = [srv EXCEPT ![l] = p]
        /\ UNCHANGED <<log, hooked, visible, active, hub, queue, snap, todo, cut, link, tries,
           copy, load, clean>>
    BY <1>5 DEF R!Quiet, R!PingNotDue, R!primary, R!replica, Sending
  <2>2. PICK f : f = [kind |-> "ping", ts |-> visible]
    OBVIOUS
  <2>3. f \in R!Frame
    BY <1>3, <2>2
  <2>4. srv' = [srv EXCEPT ![l] = srv'[l]] /\ srv'[l] \in Sending
    BY <1>2, <2>1
  <2>. QED  BY <2>1, <2>3, <2>4, GoesOn
<1>6. CASE R!Ping(l)
  <2>1. /\ srv[l] \in Sending /\ srv' = [srv EXCEPT ![l] = "recv"]
        /\ R!Send(l, [kind |-> "ping", ts |-> visible])
        /\ UNCHANGED <<log, hooked, visible, active, hub, queue, snap, todo, cut, link, tries,
           copy, load, clean>>
    BY <1>6 DEF R!Ping, R!primary, R!replica, Sending
  <2>2. PICK f : f = [kind |-> "ping", ts |-> visible]
    OBVIOUS
  <2>3. f \in R!Frame /\ f.kind = "ping" /\ R!Send(l, f)
    BY <1>3, <2>1, <2>2
  <2>4. srv' = [srv EXCEPT ![l] = srv'[l]] /\ srv'[l] \in Sending
    BY <1>2, <2>1 DEF Sending
  <2>. QED  BY <2>1, <2>3, <2>4, GoesOn
<1>. QED  BY <1>4, <1>5, <1>6

\* The next queued frame is forwarded, unless the dump had it.
LEMMA ForwardDone ==
  ASSUME CopyInv, CopyAssumption, NEW l \in R!Link, R!Receive(l) \/ R!Drain(l)
  PROVE  CopyInv'
<1>. DEFINE f == Head(queue[l])
<1>1. /\ srv[l] \in Sending /\ srv' = [srv EXCEPT ![l] = srv'[l]] /\ srv'[l] \in Sending
      /\ queue[l] # <<>> /\ queue' = [queue EXCEPT ![l] = Tail(queue[l])]
      /\ (IF R!Dumped(l, f) THEN UNCHANGED wire ELSE R!Send(l, f))
      /\ UNCHANGED <<log, hooked, visible, active, hub, snap, todo, cut, link, tries, copy, load,
         clean>>
  <2>1. srv \in [R!Link -> {"off", "accepted", "gone"} \cup Serving]
    BY DEF CopyInv, LinkShape
  <2>2. CASE R!Receive(l)
    <3>1. srv[l] = "recv" /\ R!Forward(l)
          /\ srv' = [srv EXCEPT ![l] = IF Head(queue[l]).kind = "mut" THEN "drain" ELSE "ping"]
      BY <2>2 DEF R!Receive
    <3>2. srv'[l] \in {"drain", "ping"} /\ srv' = [srv EXCEPT ![l] = srv'[l]]
      BY <2>1, <3>1
    <3>. QED  BY <3>1, <3>2 DEF R!Forward, R!primary, R!replica, Sending
  <2>3. CASE R!Drain(l)
    <3>1. srv[l] = "drain" /\ R!Forward(l) /\ srv' = srv
      BY <2>3 DEF R!Drain
    <3>2. srv' = [srv EXCEPT ![l] = srv'[l]]
      BY <2>1, <3>1
    <3>. QED  BY <3>1, <3>2 DEF R!Forward, R!primary, R!replica, Sending
  <2>. QED  BY <2>2, <2>3
<1>2. LinkShape /\ queue[l] \in Seq(R!Frame) /\ hooked \in Nat /\ visible \in Nat
  BY DEF CopyInv, LinkShape
<1>3. /\ queue'[l] = Tail(queue[l]) /\ snap'[l] = snap[l] /\ todo'[l] = {} /\ todo[l] = {}
      /\ wire[l] \in Seq(R!Frame) /\ snap[l] \in Nat /\ snap[l] <= visible
  BY <1>1, <1>2 DEF LinkShape
<1>4. /\ Tail(queue[l]) \in Seq(R!Frame) /\ Len(queue[l]) \in Nat \ {0}
      /\ Len(Tail(queue[l])) = Len(queue[l]) - 1 /\ f = queue[l][1] /\ f \in R!Frame
      /\ \A i \in 1..Len(Tail(queue[l])) : Tail(queue[l])[i] = queue[l][i + 1]
         /\ i + 1 \in 1..Len(queue[l])
  BY <1>1, <1>2, Popped
<1>. HIDE DEF f
<1>5. Sending \subseteq Serving /\ "off" \notin Serving
      /\ "accepted" \notin Serving /\ "pin" \notin Sending /\ "dump" \notin Sending
  BY DEF Sending, Serving
<1>6. R!Send(l, f) =>
        /\ l = link /\ l \notin cut /\ wire' = [wire EXCEPT ![l] = Append(wire[l], f)]
        /\ wire'[l] = Append(wire[l], f) /\ wire'[l] \in Seq(R!Frame)
        /\ Len(wire[l]) \in Nat /\ Len(wire'[l]) = Len(wire[l]) + 1
        /\ \A i \in 1..Len(wire[l]) : wire'[l][i] = wire[l][i]
        /\ wire'[l][Len(wire[l]) + 1] = f
        /\ \A i \in 1..Len(wire'[l]) : i \in 1..Len(wire[l]) \/ i = Len(wire[l]) + 1
  BY <1>1, <1>4, <1>5, Sends
<1>7. wire' = [wire EXCEPT ![l] = wire'[l]] /\ wire'[l] \in Seq(R!Frame)
  BY <1>1, <1>2, <1>3, <1>6 DEF LinkShape
<1>8. /\ LinkShape' /\ (l # link => CopyInv')
      /\ QueueHolds' <=>
           (l \in hub' \ cut => /\ Len(queue'[l]) <= hooked
                                /\ \A i \in 1..Len(queue'[l]) :
                                     queue'[l][i] = R!FrameOf(hooked - Len(queue'[l]) + i))
  <2>1. (active' <=> hub' # {}) /\ hub' = hub /\ clean' = clean
    BY <1>1, <1>2 DEF LinkShape
  <2>2. /\ srv'[l] \in {"gone"} \cup Serving /\ srv'[l] \in Serving
        /\ srv[l] # "off"
    BY <1>1, <1>5
  <2>3. /\ hub' \subseteq hub \cup {l} /\ hub \subseteq hub' \cup {l}
        /\ clean' \subseteq clean \cup {l} /\ clean \subseteq clean' \cup {l}
        /\ (srv'[l] \in Serving /\ l \notin cut => l \in hub')
    BY <1>1, <1>2, <1>5, <2>1 DEF LinkShape
  <2>4. /\ snap'[l] \in Nat /\ snap'[l] <= visible /\ todo'[l] \in SUBSET Key
        /\ queue'[l] \in Seq(R!Frame) /\ wire'[l] \in Seq(R!Frame)
    BY <1>3, <1>4, <1>7
  <2>5. UNCHANGED <<log, hooked, visible, cut, link, tries, copy, load>>
    BY <1>1
  <2>6. /\ queue' = [queue EXCEPT ![l] = queue'[l]]
        /\ snap' = [snap EXCEPT ![l] = snap'[l]] /\ todo' = [todo EXCEPT ![l] = todo'[l]]
    BY <1>1, <1>2, <1>3 DEF LinkShape
  <2>. QED  BY <1>1, <1>3, <1>7, <2>1, <2>2, <2>3, <2>4, <2>5, <2>6, OneConnection
<1>9. PICK b : b = Base(l)
  OBVIOUS
<1>10. l \notin cut =>
         /\ b \in Nat /\ b + 1 <= hooked /\ hooked <= Len(log) /\ Len(log) \in Nat
         /\ Base(l)' = b + 1 /\ f = R!FrameOf(b + 1)
         /\ Sent(l) = (IF snap[l] > b THEN snap[l] ELSE b)
         /\ Sent(l)' = (IF snap[l] > b + 1 THEN snap[l] ELSE b + 1)
  <2>. SUFFICES ASSUME l \notin cut
                PROVE  /\ b \in Nat /\ b + 1 <= hooked /\ hooked <= Len(log) /\ Len(log) \in Nat
                       /\ Base(l)' = b + 1 /\ f = R!FrameOf(b + 1)
                       /\ Sent(l) = (IF snap[l] > b THEN snap[l] ELSE b)
                       /\ Sent(l)' = (IF snap[l] > b + 1 THEN snap[l] ELSE b + 1)
    OBVIOUS
  <2>1. l \in hub \ cut /\ Base(l) \in Nat /\ hooked <= Len(log) /\ Len(log) \in Nat
    BY <1>1, <1>5, Registered
  <2>2. PICK m \in Nat \ {0} : m = Len(queue[l])
    BY <1>4
  <2>3. b = hooked - m /\ Len(queue'[l]) = m - 1 /\ hooked - (m - 1) = b + 1 /\ b + 1 <= hooked
    BY <1>2, <1>3, <1>4, <1>9, <2>2 DEF Base
  <2>4. Base(l)' = b + 1
    BY <1>1, <2>3 DEF Base
  <2>5. 1 \in 1..Len(queue[l])
    BY <1>4
  <2>6. f = R!FrameOf(b + 1)
    BY <1>4, <1>9, <2>1, <2>5 DEF CopyInv, QueueHolds
  <2>. QED  BY <1>3, <1>9, <2>1, <2>3, <2>4, <2>6 DEF Sent
<1>11. QueueHolds'
  <2>. SUFFICES ASSUME l \in hub \ cut
                PROVE  /\ Len(queue'[l]) <= hooked
                       /\ \A i \in 1..Len(queue'[l]) : queue'[l][i] = R!FrameOf(hooked - Len(queue'[l]) + i)
    BY <1>1, <1>8
  <2>1. Len(queue[l]) <= hooked
    BY DEF CopyInv, QueueHolds
  <2>2. PICK m \in Nat \ {0} : m = Len(queue[l])
    BY <1>4
  <2>3. Len(queue'[l]) = m - 1 /\ Base(l) = hooked - m /\ m <= hooked
    BY <1>3, <1>4, <2>1, <2>2 DEF Base
  <2>4. ASSUME NEW i \in 1..Len(queue'[l])
               PROVE queue'[l][i] = R!FrameOf(hooked - Len(queue'[l]) + i)
    <3>1. queue'[l][i] = queue[l][i + 1] /\ i + 1 \in 1..Len(queue[l]) /\ i \in Nat
      BY <1>3, <1>4, <2>4
    <3>2. queue[l][i + 1] = R!FrameOf(Base(l) + (i + 1))
      BY <3>1 DEF CopyInv, QueueHolds
    <3>3. hooked - m + (i + 1) = hooked - (m - 1) + i
      BY <1>2, <3>1
    <3>. QED  BY <2>3, <3>1, <3>2, <3>3
  <2>. QED  BY <1>2, <2>3, <2>4
<1>12. ASSUME l = link PROVE CopyInv'
  <2>. DEFINE w == wire[l]
              x == wire'[l]
              n == Len(w)
  <2>0. link # 0
    BY <1>12 DEF R!Link
  <2>1. \/ x = w
        \/ /\ n \in Nat /\ Len(x) = n + 1 /\ (\A i \in 1..n : x[i] = w[i]) /\ x[n + 1] = f
           /\ \A i \in 1..Len(x) : i \in 1..n \/ i = n + 1
           /\ x = Append(w, f) /\ l \notin cut /\ ~R!Dumped(l, f)
    BY <1>1, <1>6
  <2>2. n \in Nat
    BY <1>3, LenProperties
  <2>3. l \notin cut =>
          /\ log[b + 1] \in Key \cup {FlushAll}
          /\ log[b + 1] = FlushAll => f.kind = "flush"
          /\ log[b + 1] # FlushAll => f.kind = "mut" /\ f.key = log[b + 1] /\ f.ts = b + 1
    <3>. SUFFICES ASSUME l \notin cut
                  PROVE  /\ log[b + 1] \in Key \cup {FlushAll}
                         /\ log[b + 1] = FlushAll => f.kind = "flush"
                         /\ log[b + 1] # FlushAll => f.kind = "mut" /\ f.key = log[b + 1]
                            /\ f.ts = b + 1
      OBVIOUS
    <3>1. b + 1 \in 1..Len(log) /\ log \in [1..Len(log) -> Key \cup {FlushAll}]
      BY <1>2, <1>10, LenProperties DEF LinkShape
    <3>2. f = IF log[b + 1] = FlushAll THEN [kind |-> "flush"]
              ELSE [kind |-> "mut", key |-> log[b + 1], ts |-> b + 1]
      BY <1>10 DEF R!FrameOf
    <3>. QED  BY <3>1, <3>2
  <2>4. x # w => f.kind \in {"mut", "flush"} /\ (f.kind = "mut" => f.ts > snap[l])
    <3>. SUFFICES ASSUME x # w PROVE f.kind \in {"mut", "flush"}
                         /\ (f.kind = "mut" => f.ts > snap[l])
      OBVIOUS
    <3>1. f.kind \in {"mut", "flush"} /\ (f.kind = "mut" => f.ts = b + 1)
      BY <2>1, <2>3
    <3>2. f.kind = "mut" => ~(b + 1 <= snap[l])
      BY <2>1, <3>1 DEF R!Dumped
    <3>. QED  BY <1>3, <1>10, <2>1, <3>1, <3>2
  <2>5. WireHolds'
    <3>1. PICK m \in 0..n : Parted(w, m)
      BY <1>1, <1>12, <2>0 DEF CopyInv, WireHolds, Streamed
    <3>2. m \in 0..Len(x) /\ Parted(x, m)
      <4>1. CASE x = w
        BY <3>1, <4>1
      <4>2. CASE x # w
        <5>1. PICK c \in Nat : c = n
          BY <2>2
        <5>2. Len(x) = c + 1 /\ m \in 0..c /\ \A i \in 1..Len(x) : i \in 1..c \/ i = c + 1
          BY <2>1, <3>1, <4>2, <5>1
        <5>3. m \in 0..(c + 1) /\ c + 1 > m /\ ~(c + 1 < m)
          BY <5>1, <5>2
        <5>4. x[c + 1] = f /\ \A i \in 1..c : x[i] = w[i]
          BY <2>1, <4>2, <5>1
        <5>5. \A i \in 1..Len(x) : /\ i < m => x[i].kind \in {"full", "snap"}
                                   /\ i > m => x[i].kind \in {"mut", "flush", "ping"}
          BY <2>4, <3>1, <4>2, <5>1, <5>2, <5>3, <5>4 DEF Parted
        <5>6. m > 0 => x[m].kind = "ready"
          BY <3>1, <5>2, <5>4 DEF Parted
        <5>. QED  BY <3>1, <5>2, <5>3, <5>5, <5>6 DEF Parted
      <4>. QED  BY <4>1, <4>2
    <3>3. Streamed(wire[link])'
      BY <1>1, <1>12, <3>2 DEF Streamed, Parted
    <3>4. \A i \in 1..n : w[i].kind = "full" => i = 1 /\ load = R!Empty
      BY <1>12, <2>0 DEF CopyInv, WireHolds
    <3>5. \A i \in 1..Len(x) : x[i].kind = "full" => i = 1 /\ load = R!Empty
      BY <2>1, <2>4, <3>4
    <3>. QED  BY <1>1, <1>5, <1>12, <3>3, <3>5 DEF WireHolds
  <2>6. Begun' <=> Begun
    <3>1. srv[l] # "accepted" /\ srv'[l] # "accepted"
      BY <1>1, <1>5
    <3>2. (\A i \in 1..Len(x) : x[i].kind # "full") <=> (\A i \in 1..n : w[i].kind # "full")
      BY <2>1, <2>2, <2>4
    <3>. QED  BY <1>1, <1>12, <3>1, <3>2 DEF Begun
  <2>7. /\ \A i, j \in 1..n, m \in Key : i < j /\ Carries(w[i], m) /\ Carries(w[j], m)
           => w[i].ts <= w[j].ts
        /\ Begun => \A m \in Key :
             /\ \A i \in 1..n : Carries(w[i], m) => copy[m] <= w[i].ts /\ load[m] <= w[i].ts
             /\ load[m] > 0 => copy[m] <= load[m]
        /\ l \notin cut =>
             \A m \in Key :
               /\ \A i \in 1..n : Carries(w[i], m) => w[i].ts <= Sent(l)
               /\ Begun => copy[m] <= Sent(l) /\ load[m] <= Sent(l)
    BY <1>1, <1>12, <2>0 DEF CopyInv, OrderHolds
  <2>8. l \notin cut =>
          /\ Sent(l) \in Nat /\ Sent(l)' \in Nat /\ Sent(l) <= Sent(l)'
          /\ (b + 1 > snap[l] => Sent(l) = b /\ Sent(l)' = b + 1)
          /\ (b + 1 <= snap[l] => Sent(l)' = Sent(l))
    BY <1>3, <1>10
  <2>9. OrderHolds'
    <3>0. wire'[link'] = x /\ link' = l /\ copy' = copy /\ load' = load /\ srv'[l] # "pin"
          /\ cut' = cut /\ todo'[l] = {}
      BY <1>1, <1>3, <1>5, <1>12
    <3>1. ASSUME NEW i \in 1..Len(x), NEW j \in 1..Len(x), NEW m \in Key, i < j,
                 Carries(x[i], m), Carries(x[j], m)
          PROVE  x[i].ts <= x[j].ts
      <4>1. CASE j \in 1..n
        <5>1. i \in 1..n /\ x[i] = w[i] /\ x[j] = w[j]
          BY <2>1, <2>2, <3>1, <4>1
        <5>. QED  BY <2>7, <3>1, <5>1, <4>1
      <4>2. CASE j \notin 1..n
        <5>1. x # w /\ j = n + 1 /\ x[j] = f /\ i \in 1..n /\ x[i] = w[i] /\ l \notin cut
          BY <2>1, <2>2, <3>1, <4>2
        <5>2. f.kind = "mut"
          BY <2>4, <3>1, <5>1 DEF Carries
        <5>3. f.ts = b + 1 /\ b + 1 > snap[l]
          BY <2>3, <2>4, <5>1, <5>2
        <5>4. w[i].ts <= b
          BY <2>7, <2>8, <3>1, <5>1, <5>3
        <5>5. w[i].ts \in Nat
          BY <1>3, <3>1, <5>1, LenProperties DEF R!Frame, Carries
        <5>. QED  BY <1>10, <5>1, <5>3, <5>4, <5>5
      <4>. QED  BY <4>1, <4>2
    <3>2. ASSUME Begun, NEW m \in Key, NEW i \in 1..Len(x), Carries(x[i], m)
          PROVE  copy[m] <= x[i].ts /\ load[m] <= x[i].ts
      <4>1. CASE i \in 1..n
        BY <2>1, <2>7, <3>2, <4>1
      <4>2. CASE i \notin 1..n
        <5>1. x # w /\ x[i] = f /\ l \notin cut
          BY <2>1, <2>2, <3>2, <4>2
        <5>2. f.kind = "mut"
          BY <2>4, <3>2, <5>1 DEF Carries
        <5>3. f.ts = b + 1 /\ b + 1 > snap[l]
          BY <2>3, <2>4, <5>1, <5>2
        <5>4. copy[m] <= b /\ load[m] <= b
          BY <2>7, <2>8, <3>2, <5>1, <5>3
        <5>5. copy[m] \in Nat /\ load[m] \in Nat
          BY <1>2 DEF LinkShape
        <5>. QED  BY <1>10, <5>1, <5>3, <5>4, <5>5
      <4>. QED  BY <4>1, <4>2
    <3>3. ASSUME l \notin cut, NEW m \in Key, NEW i \in 1..Len(x), Carries(x[i], m)
          PROVE  x[i].ts <= Sent(l)'
      <4>0. x[i].ts \in Nat
        BY <1>7, <3>3, LenProperties DEF R!Frame, Carries
      <4>1. CASE i \in 1..n
        <5>1. x[i].ts <= Sent(l)
          BY <2>1, <2>7, <3>3, <4>1
        <5>2. PICK c, d : c = Sent(l) /\ d = Sent(l)'
          OBVIOUS
        <5>. QED  BY <2>8, <3>3, <4>0, <5>1
      <4>2. CASE i \notin 1..n
        <5>1. x # w /\ x[i] = f
          BY <2>1, <2>2, <3>3, <4>2
        <5>2. f.kind = "mut"
          BY <2>4, <3>3, <5>1 DEF Carries
        <5>3. f.ts = b + 1 /\ b + 1 > snap[l]
          BY <2>3, <2>4, <3>3, <5>1, <5>2
        <5>. QED  BY <1>10, <2>8, <3>3, <5>1, <5>3
      <4>. QED  BY <4>1, <4>2
    <3>4. ASSUME l \notin cut, Begun, NEW m \in Key PROVE copy[m] <= Sent(l)' /\ load[m] <= Sent(l)'
      <4>1. copy[m] \in Nat /\ load[m] \in Nat /\ copy[m] <= Sent(l) /\ load[m] <= Sent(l)
        BY <1>2, <2>7, <3>4 DEF LinkShape
      <4>. QED  BY <2>8, <3>4, <4>1
    <3>5. Sent(link)' = Sent(l)'
      BY <1>1, <1>12 DEF Sent, Base
    <3>6. \A m \in Key : Begun => (load[m] > 0 => copy[m] <= load[m])
      BY <2>7
    <3>. HIDE DEF x, w, n
    <3>. QED  BY <2>6, <3>0, <3>1, <3>2, <3>3, <3>4, <3>5, <3>6 DEF OrderHolds
  <2>10. CleanHolds'
    <3>. SUFFICES ASSUME l \in clean \ cut PROVE CleanHolds'
      BY <1>1, <1>12 DEF CleanHolds
    <3>1. /\ \A t \in 1..snap[l] : t > b => log[t] # FlushAll
          /\ Calm(Sent(l)) => \A m \in Key : Ends(w, m, R!At(m, Sent(l)))
      BY <1>1, <1>3, <1>5, <1>9, <1>12, <2>0 DEF CopyInv, CleanHolds
    <3>2. PICK s, u : s = Sent(l) /\ u = Sent(l)'
      OBVIOUS
    <3>3. s \in Nat /\ u \in Nat /\ (b + 1 > snap[l] => s = b /\ u = b + 1)
          /\ (b + 1 <= snap[l] => u = s)
      BY <2>8, <3>2
    <3>4. log[b + 1] = FlushAll => b + 1 > snap[l]
      BY <1>3, <1>10, <3>1
    <3>5. ASSUME Calm(u), NEW m \in Key PROVE Ends(x, m, R!At(m, u))
      <4>1. CASE b + 1 <= snap[l]
        <5>1. log[b + 1] # FlushAll /\ f.kind = "mut" /\ f.ts = b + 1
          BY <1>3, <1>10, <2>3, <3>4, <4>1
        <5>2. x = w
          BY <2>1, <4>1, <5>1 DEF R!Dumped
        <5>. QED  BY <3>1, <3>2, <3>3, <3>5, <4>1, <5>2
      <4>2. CASE b + 1 > snap[l]
        <5>1. s = b /\ u = b + 1
          BY <3>3, <4>2
        <5>2. ~R!Dumped(l, f)
          BY <1>3, <1>10, <2>3, <4>2 DEF R!Dumped
        <5>3. x = Append(w, f)
          BY <1>1, <1>6, <5>2
        <5>4. /\ log[b + 1] = FlushAll => R!At(m, b + 1) = 0
              /\ log[b + 1] = m /\ Calm(b + 1) => R!At(m, b + 1) = b + 1
              /\ log[b + 1] # m => R!At(m, b + 1) = R!At(m, b)
          BY <1>2, <1>10, AtNext
        <5>5. CASE log[b + 1] = FlushAll
          <6>1. Touches(f, m) /\ Value(f) = 0
            BY <2>3, <5>5 DEF Touches, Value
          <6>. QED  BY <1>3, <1>4, <5>1, <5>3, <5>4, <5>5, <6>1, EndsLater
        <5>6. CASE log[b + 1] = m
          <6>1. m # FlushAll
            BY DEF CopyAssumption, R!ReplicationAssumption
          <6>2. Touches(f, m) /\ Value(f) = b + 1
            BY <2>3, <5>6, <6>1 DEF Touches, Value, Carries
          <6>. QED  BY <1>3, <1>4, <3>5, <5>1, <5>3, <5>4, <5>6, <6>2, EndsLater
        <5>7. CASE log[b + 1] # FlushAll /\ log[b + 1] # m
          <6>1. Calm(s)
            <7>1. \A t \in 1..Len(log) : t > b => t = b + 1 \/ t > b + 1
              BY <1>10
            <7>. QED  BY <3>5, <5>1, <5>7, <7>1 DEF Calm
          <6>2. ~Touches(f, m)
            BY <2>3, <5>7 DEF Touches, Carries
          <6>3. Ends(w, m, R!At(m, b))
            BY <3>1, <3>2, <5>1, <6>1
          <6>4. Ends(Append(w, f), m, R!At(m, b))
            BY <1>3, <1>4, <6>2, <6>3, EndsLater
          <6>. QED  BY <5>1, <5>3, <5>4, <5>7, <6>4
        <5>. QED  BY <5>5, <5>6, <5>7
      <4>. QED  BY <1>3, <1>10, <4>1, <4>2
    <3>6. Sent(link)' = u /\ Base(link)' = b + 1
      BY <1>1, <1>10, <1>12, <3>2 DEF Sent, Base
    <3>7. ASSUME Calm(Sent(link))', NEW m \in Key PROVE Ends(wire[link], m, R!At(m, Sent(link)))'
      <4>1. Calm(u)
        BY <1>1, <3>6, <3>7 DEF Calm
      <4>2. PICK a : a = R!At(m, u)
        OBVIOUS
      <4>3. R!At(m, u)' = a
        BY <1>1, <4>2 DEF R!At
      <4>4. Ends(x, m, a)
        BY <3>5, <4>1, <4>2
      <4>5. Ends(wire[link], m, a)'
        BY <1>1, <1>12, <4>4 DEF Ends
      <4>. QED  BY <3>6, <4>3, <4>5
    <3>8. \A t \in 1..snap[l] : t > b + 1 => log[t] # FlushAll
      BY <1>10, <3>1
    <3>9. link' = l /\ srv'[l] \notin {"pin", "dump"} /\ snap'[l] = snap[l] /\ log' = log
      BY <1>1, <1>3, <1>5, <1>12
    <3>. QED  BY <1>12, <3>6, <3>7, <3>8, <3>9 DEF CleanHolds
  <2>. QED  BY <1>8, <1>11, <2>5, <2>9, <2>10 DEF CopyInv
<1>. QED  BY <1>8, <1>12

\* Nothing the invariant is about changes.
LEMMA NothingHappens ==
  ASSUME CopyInv,
         UNCHANGED <<log, hooked, visible, active, hub, srv, queue, snap, todo, wire, cut, link,
         tries,
                     copy, load, clean>>
  PROVE  CopyInv'
<1>2. LinkShape'
  BY DEF CopyInv, LinkShape
<1>3. QueueHolds' /\ WireHolds'
  BY DEF CopyInv, QueueHolds, Base, R!FrameOf, WireHolds, InDump, Streamed, Parted
<1>4. OrderHolds'
  BY DEF CopyInv, OrderHolds, Begun, Sent, Base
<1>5. CleanHolds'
  <2>1. /\ Base(link)' = Base(link) /\ Sent(link)' = Sent(link)
        /\ \A n, k : (Calm(n)' <=> Calm(n)) /\ R!At(k, n)' = R!At(k, n)
        /\ \A k, v : Ends(wire[link], k, v)' <=> Ends(wire[link], k, v)
    BY DEF Base, Sent, Calm, R!At, Ends
  <2>2. ASSUME link # 0, link \in clean \ cut, srv[link] # "pin", Calm(Sent(link))',
               NEW k \in Key \ todo[link]
        PROVE  Ends(wire[link], k, R!At(k, Sent(link)))'
    <3>1. PICK n, v : n = Sent(link) /\ v = R!At(k, n)
      OBVIOUS
    <3>2. Calm(n) /\ R!At(k, Sent(link))' = v
      BY <2>1, <2>2, <3>1
    <3>3. Ends(wire[link], k, v)'
      BY <2>1, <2>2, <3>1, <3>2 DEF CopyInv, CleanHolds
    <3>. QED  BY <3>2, <3>3
  <2>. QED  BY <2>1, <2>2 DEF CopyInv, CleanHolds
<1>. QED  BY <1>2, <1>3, <1>4, <1>5 DEF CopyInv

\* The thread leaves; an ACK arrives.
LEMMA LeaveDone == ASSUME CopyInv, NEW l \in R!Link, R!Leave(l) \/ R!AckArrives(l) PROVE CopyInv'
<1>1. CASE R!AckArrives(l)
  <2>1. UNCHANGED <<log, hooked, visible, active, hub, srv, queue, snap, todo, wire, cut, link,
        tries,
                    copy, load, clean>>
    BY <1>1 DEF R!AckArrives, R!primary, R!replica
  <2>. QED  BY <2>1, NothingHappens
<1>2. CASE R!Leave(l)
  <2>1. /\ l \in cut /\ srv[l] \notin {"off", "accepted", "gone"}
        /\ srv' = [srv EXCEPT ![l] = "gone"]
        /\ hub' = hub \ {l} /\ active' = (hub' # {})
        /\ queue' = [queue EXCEPT ![l] = <<>>] /\ todo' = [todo EXCEPT ![l] = {}]
        /\ snap' = [snap EXCEPT ![l] = 0] /\ clean' = clean \ {l}
        /\ UNCHANGED <<log, hooked, visible, wire, cut, link, tries, copy, load>>
    BY <1>2 DEF R!Leave, R!primary, R!replica
  <2>2. LinkShape /\ visible \in Nat
    BY DEF CopyInv, LinkShape
  <2>3. /\ srv'[l] = "gone" /\ queue'[l] = <<>> /\ todo'[l] = {} /\ snap'[l] = 0
           /\ wire'[l] = wire[l]
        /\ wire[l] \in Seq(R!Frame)
    BY <2>1, <2>2 DEF LinkShape
  <2>4. /\ srv' = [srv EXCEPT ![l] = srv'[l]] /\ queue' = [queue EXCEPT ![l] = queue'[l]]
        /\ snap' = [snap EXCEPT ![l] = snap'[l]] /\ todo' = [todo EXCEPT ![l] = todo'[l]]
        /\ wire' = [wire EXCEPT ![l] = wire'[l]]
    BY <2>1, <2>2, <2>3 DEF LinkShape
  <2>5. "gone" \notin Serving /\ "gone" \notin Sending /\ queue'[l] \in Seq(R!Frame)
        /\ snap'[l] \in Nat
        /\ snap'[l] <= visible /\ todo'[l] \in SUBSET Key
    BY <2>2, <2>3 DEF Serving, Sending
  <2>6. hub' \subseteq hub \cup {l} /\ hub \subseteq hub' \cup {l}
        /\ clean' \subseteq clean \cup {l} /\ clean \subseteq clean' \cup {l} /\ l \notin hub'
           \cup clean'
        /\ (active' <=> hub' # {}) /\ srv[l] # "off"
    BY <2>1
  <2>7. UNCHANGED <<log, hooked, visible, cut, link, tries, copy, load>>
    BY <2>1
  <2>8. /\ LinkShape' /\ (l # link => CopyInv')
        /\ QueueHolds' <=>
             (l \in hub' \ cut => /\ Len(queue'[l]) <= hooked
                                  /\ \A i \in 1..Len(queue'[l]) :
                                       queue'[l][i] = R!FrameOf(hooked - Len(queue'[l]) + i))
    BY <2>3, <2>4, <2>5, <2>6, <2>7, OneConnection
  <2>9. QueueHolds'
    BY <2>6, <2>8
  <2>10. ASSUME l = link PROVE CopyInv'
    <3>1. link # 0 /\ link \in cut
      BY <2>1, <2>10 DEF R!Link
    <3>2. WireHolds'
      BY <2>1, <2>3, <2>5, <2>10, <3>1 DEF CopyInv, WireHolds, InDump, Streamed, Parted
    <3>3. OrderHolds'
      <4>1. Begun' <=> Begun
        BY <2>1, <2>3, <2>10 DEF Begun
      <4>. QED  BY <2>1, <2>3, <2>10, <3>1, <4>1 DEF CopyInv, OrderHolds
    <3>4. CleanHolds'
      BY <2>1, <3>1 DEF CleanHolds
    <3>. QED  BY <2>8, <2>9, <3>2, <3>3, <3>4 DEF CopyInv
  <2>. QED  BY <2>8, <2>10
<1>. QED  BY <1>1, <1>2

\* The replica handles a frame: what becomes of a key.
LEMMA HandleKeys ==
  ASSUME CopyInv, CopyAssumption, R!Handle
  PROVE  /\ link \in R!Link /\ link # 0 /\ wire[link] # <<>>
            /\ wire' = [wire EXCEPT ![link] = Tail(wire[link])]
         /\ UNCHANGED <<log, hooked, visible, active, hub, srv, queue, snap, todo, cut, link,
            tries, clean>>
         /\ copy' \in [Key -> Nat] /\ load' \in [Key -> Nat]
         /\ Head(wire[link]).kind # "snap" => load' = R!Empty
         /\ Head(wire[link]).kind \in {"full", "flush"} => copy' = R!Empty
         /\ \A k \in Key :
              \/ /\ Head(wire[link]).kind \in {"full", "flush"}
                 /\ copy'[k] = 0 /\ load'[k] = 0
              \/ /\ Carries(Head(wire[link]), k) /\ Head(wire[link]).ts \in Nat \ {0}
                 /\ \/ copy'[k] = Head(wire[link]).ts /\ load'[k] = 0
                    \/ copy'[k] = copy[k] /\ load'[k] = Head(wire[link]).ts
              \/ /\ ~Touches(Head(wire[link]), k)
                 /\ \/ copy'[k] = copy[k] /\ load'[k] = load[k]
                    \/ copy'[k] = (IF load[k] > 0 THEN load[k] ELSE copy[k]) /\ load'[k] = 0
<1>. DEFINE f == Head(wire[link])
            dump == IF f.kind = "snap" THEN [load EXCEPT ![f.key] = f.ts] ELSE load
            apply == f.kind = "ready" \/ R!Loaded(dump) >= SnapBatch
<1>1. /\ link # 0 /\ wire[link] # <<>> /\ wire' = [wire EXCEPT ![link] = Tail(wire[link])]
      /\ copy' = CASE f.kind \in {"full", "flush"} -> R!Empty
                   [] f.kind \in {"snap", "ready"} -> IF apply THEN R!Over(copy, dump) ELSE copy
                   [] f.kind = "mut" -> [copy EXCEPT ![f.key] = f.ts]
                   [] OTHER -> copy
      /\ load' = IF apply THEN R!Empty ELSE dump
      /\ UNCHANGED <<log, hooked, visible, active, hub, srv, queue, snap, todo, cut, link, tries,
         clean>>
  BY DEF R!Handle, R!primary, R!conn
<1>2. /\ copy \in [Key -> Nat] /\ load \in [Key -> Nat] /\ link \in R!Link
      /\ wire[link] \in Seq(R!Frame)
  BY <1>1 DEF CopyInv, LinkShape
<1>3. f \in R!Frame /\ f = wire[link][1] /\ Len(wire[link]) \in Nat \ {0}
  BY <1>1, <1>2, Popped
<1>4. /\ f.kind \in {"full", "flush", "snap", "mut", "ready", "ping"}
      /\ f.kind \in {"snap", "mut"} => f.key \in Key /\ f.ts \in Nat \ {0}
  <2>1. MaxTs \in Nat
    BY DEF CopyAssumption, R!ReplicationAssumption
  <2>. HIDE DEF f
  <2>. QED  BY <1>3, <2>1 DEF R!Frame
<1>5. f.kind \in {"full", "flush", "mut", "ping"} => load = R!Empty
  <2>1. 1 \in 1..Len(wire[link])
    BY <1>3
  <2>2. f.kind = "full" => load = R!Empty
    BY <1>1, <1>3, <2>1 DEF CopyInv, WireHolds
  <2>3. f.kind \in {"flush", "mut", "ping"} => load = R!Empty
    <3>1. SUFFICES ASSUME f.kind \in {"flush", "mut", "ping"} PROVE load = R!Empty
      OBVIOUS
    <3>2. ~InDump(wire[link])
      BY <1>3, <2>1, <3>1 DEF InDump
    <3>3. PICK n \in 0..Len(wire[link]) : Parted(wire[link], n)
      BY <1>1, <3>2 DEF CopyInv, WireHolds, Streamed
    <3>4. ~(1 < n) /\ n # 1
      BY <1>3, <2>1, <3>1, <3>3 DEF Parted
    <3>5. n = 0
      BY <1>3, <3>3, <3>4
    <3>. QED  BY <3>3, <3>5 DEF Parted
  <2>. QED  BY <2>2, <2>3
<1>. HIDE DEF f
<1>6. R!Empty \in [Key -> Nat] /\ \A k \in Key : R!Empty[k] = 0
  BY DEF R!Empty
<1>7. /\ dump \in [Key -> Nat]
      /\ \A k \in Key : dump[k] = IF f.kind = "snap" /\ f.key = k THEN f.ts ELSE load[k]
  BY <1>2, <1>4
<1>8. /\ R!Over(copy, dump) \in [Key -> Nat]
      /\ \A k \in Key : R!Over(copy, dump)[k] = IF dump[k] > 0 THEN dump[k] ELSE copy[k]
  BY <1>2, <1>7 DEF R!Over
<1>9. f.kind = "ready" => apply
  OBVIOUS
<1>10. /\ f.kind \in {"full", "flush"} => copy' = R!Empty
       /\ f.kind \in {"snap", "ready"} => copy' = IF apply THEN R!Over(copy, dump) ELSE copy
       /\ f.kind = "mut" => copy' = [copy EXCEPT ![f.key] = f.ts]
       /\ f.kind = "ping" => copy' = copy
       /\ load' = IF apply THEN R!Empty ELSE dump
  <2>. HIDE DEF apply, dump
  <2>. QED  BY <1>1
<1>11. f.kind # "snap" => dump = load
  OBVIOUS
<1>. HIDE DEF dump, apply
<1>12. copy' \in [Key -> Nat] /\ load' \in [Key -> Nat]
  BY <1>2, <1>4, <1>6, <1>7, <1>8, <1>10
<1>13. f.kind # "snap" => load' = R!Empty
  BY <1>4, <1>5, <1>9, <1>10, <1>11
<1>14. ASSUME NEW k \in Key
       PROVE  \/ /\ f.kind \in {"full", "flush"}
                 /\ copy'[k] = 0 /\ load'[k] = 0
              \/ /\ Carries(f, k) /\ f.ts \in Nat \ {0}
                 /\ \/ copy'[k] = f.ts /\ load'[k] = 0
                    \/ copy'[k] = copy[k] /\ load'[k] = f.ts
              \/ /\ ~Touches(f, k)
                 /\ \/ copy'[k] = copy[k] /\ load'[k] = load[k]
                    \/ copy'[k] = (IF load[k] > 0 THEN load[k] ELSE copy[k]) /\ load'[k] = 0
  <2>1. CASE f.kind \in {"full", "flush"}
    BY <1>6, <1>10, <1>13, <2>1
  <2>2. CASE f.kind = "snap" /\ f.key = k
    <3>1. Carries(f, k) /\ f.ts \in Nat \ {0} /\ dump[k] = f.ts
      BY <1>4, <1>7, <2>2 DEF Carries
    <3>. QED  BY <1>6, <1>8, <1>10, <2>2, <3>1
  <2>3. CASE f.kind = "snap" /\ f.key # k
    <3>1. ~Touches(f, k) /\ dump[k] = load[k]
      BY <1>7, <2>3 DEF Touches, Carries
    <3>. QED  BY <1>6, <1>8, <1>10, <2>3, <3>1
  <2>4. CASE f.kind = "ready"
    <3>1. ~Touches(f, k) /\ dump[k] = load[k] /\ apply
      BY <1>9, <1>11, <2>4 DEF Touches, Carries
    <3>. QED  BY <1>6, <1>8, <1>10, <2>4, <3>1
  <2>5. CASE f.kind = "mut" /\ f.key = k
    <3>1. Carries(f, k) /\ f.ts \in Nat \ {0} /\ copy'[k] = f.ts /\ load'[k] = 0
      BY <1>2, <1>4, <1>6, <1>10, <1>13, <2>5 DEF Carries
    <3>. QED  BY <3>1
  <2>6. CASE f.kind = "mut" /\ f.key # k
    <3>1. ~Touches(f, k) /\ copy'[k] = copy[k] /\ load'[k] = load[k]
      BY <1>2, <1>4, <1>5, <1>10, <1>13, <2>6 DEF Touches, Carries
    <3>. QED  BY <3>1
  <2>7. CASE f.kind = "ping"
    <3>1. ~Touches(f, k) /\ copy'[k] = copy[k] /\ load'[k] = load[k]
      BY <1>5, <1>10, <1>13, <2>7 DEF Touches, Carries
    <3>. QED  BY <3>1
  <2>. QED  BY <1>4, <2>1, <2>2, <2>3, <2>4, <2>5, <2>6, <2>7
<1>. QED  BY <1>1, <1>2, <1>10, <1>12, <1>13, <1>14 DEF f

\* What is still on its way for a key does not change when a frame is handled.
LEMMA HandleEnds ==
  ASSUME CopyInv, CopyAssumption, R!Handle, NEW k \in Key, NEW v, Ends(wire[link], k, v)
  PROVE  Ends(wire[link], k, v)'
<1>1. /\ link \in R!Link /\ link' = link /\ wire[link] # <<>>
         /\ wire' = [wire EXCEPT ![link] = Tail(wire[link])]
      /\ wire \in [R!Link -> Seq(R!Frame)]
  BY HandleKeys DEF CopyInv, LinkShape
<1>. DEFINE w == wire[link]
            x == Tail(w)
            f == Head(w)
<1>2. \/ f.kind \in {"full", "flush"} /\ copy'[k] = 0 /\ load'[k] = 0
      \/ /\ Carries(f, k) /\ f.ts \in Nat \ {0}
         /\ \/ copy'[k] = f.ts /\ load'[k] = 0
            \/ copy'[k] = copy[k] /\ load'[k] = f.ts
      \/ /\ ~Touches(f, k)
         /\ \/ copy'[k] = copy[k] /\ load'[k] = load[k]
            \/ copy'[k] = (IF load[k] > 0 THEN load[k] ELSE copy[k]) /\ load'[k] = 0
  BY HandleKeys
<1>3. w \in Seq(R!Frame) /\ w # <<>>
  BY <1>1
<1>. HIDE DEF w
<1>4. /\ Len(w) \in Nat \ {0} /\ Len(x) = Len(w) - 1 /\ f = w[1]
      /\ \A i \in 1..Len(x) : x[i] = w[i + 1] /\ i + 1 \in 1..Len(w)
  BY <1>3, Popped
<1>5. wire[link]' = x /\ Ends(w, k, v)
  BY <1>1 DEF w
<1>. HIDE DEF x, f
<1>6. \A i \in 1..Len(w) : i = 1 \/ (i - 1 \in 1..Len(x) /\ x[i - 1] = w[i])
  BY <1>4
<1>7. (IF load'[k] > 0 THEN load'[k] ELSE copy'[k]) = v \/ \E i \in 1..Len(x) : Touches(x[i], k)
  <2>1. SUFFICES ASSUME \A i \in 1..Len(x) : ~Touches(x[i], k)
                 PROVE  (IF load'[k] > 0 THEN load'[k] ELSE copy'[k]) = v
    OBVIOUS
  <2>2. \A i \in 1..Len(w) : Touches(w[i], k) => i = 1
    BY <1>6, <2>1
  <2>3. CASE Touches(f, k)
    <3>1. v = Value(f)
      BY <1>4, <1>5, <2>2, <2>3 DEF Ends
    <3>. QED  BY <1>2, <2>3, <3>1 DEF Value, Carries
  <2>4. CASE ~Touches(f, k)
    <3>1. v = IF load[k] > 0 THEN load[k] ELSE copy[k]
      BY <1>4, <1>5, <2>2, <2>4 DEF Ends
    <3>2. load[k] \in Nat
      BY DEF CopyInv, LinkShape
    <3>. QED  BY <1>2, <2>4, <3>1, <3>2 DEF Touches
  <2>. QED  BY <2>3, <2>4
<1>8. CASE \A i \in 1..Len(x) : ~Touches(x[i], k)
  BY <1>5, <1>7, <1>8 DEF Ends
<1>9. CASE \E i \in 1..Len(x) : Touches(x[i], k)
  <2>1. PICK j \in 1..Len(x) : Touches(x[j], k)
    BY <1>9
  <2>2. Touches(w[j + 1], k) /\ j + 1 \in 1..Len(w)
    BY <1>4, <2>1
  <2>3. PICK i \in 1..Len(w) : Touches(w[i], k) /\ v = Value(w[i])
           /\ \A m \in 1..Len(w) : m > i => ~Touches(w[m], k)
    BY <1>5, <2>2 DEF Ends
  <2>4. i # 1
    BY <2>1, <2>2, <2>3
  <2>5. i - 1 \in 1..Len(x) /\ x[i - 1] = w[i]
    BY <1>6, <2>4
  <2>6. \A m \in 1..Len(x) : m > i - 1 => ~Touches(x[m], k)
    BY <1>4, <2>3
  <2>7. \E m \in 1..Len(x) : /\ Touches(x[m], k) /\ v = Value(x[m])
                             /\ \A j2 \in 1..Len(x) : j2 > m => ~Touches(x[j2], k)
    BY <2>3, <2>5, <2>6
  <2>. QED  BY <1>5, <2>7 DEF Ends
<1>. QED  BY <1>8, <1>9

\* The replica handles a frame.
LEMMA HandleDone == ASSUME CopyInv, CopyAssumption, R!Handle PROVE CopyInv'
<1>. DEFINE w == wire[link]
            x == Tail(w)
            f == Head(w)
<1>1. /\ link \in R!Link /\ link # 0 /\ w # <<>> /\ wire' = [wire EXCEPT ![link] = x]
      /\ UNCHANGED <<log, hooked, visible, active, hub, srv, queue, snap, todo, cut, link, tries,
         clean>>
      /\ copy' \in [Key -> Nat] /\ load' \in [Key -> Nat]
      /\ f.kind # "snap" => load' = R!Empty
      /\ f.kind \in {"full", "flush"} => copy' = R!Empty
  BY HandleKeys
<1>2. \A k \in Key :
        \/ f.kind \in {"full", "flush"} /\ copy'[k] = 0 /\ load'[k] = 0
        \/ /\ Carries(f, k) /\ f.ts \in Nat \ {0}
           /\ \/ copy'[k] = f.ts /\ load'[k] = 0
              \/ copy'[k] = copy[k] /\ load'[k] = f.ts
        \/ /\ ~Touches(f, k)
           /\ \/ copy'[k] = copy[k] /\ load'[k] = load[k]
              \/ copy'[k] = (IF load[k] > 0 THEN load[k] ELSE copy[k]) /\ load'[k] = 0
  BY HandleKeys
<1>3. LinkShape /\ wire \in [R!Link -> Seq(R!Frame)] /\ copy \in [Key -> Nat]
      /\ load \in [Key -> Nat]
  BY DEF CopyInv, LinkShape
<1>4. w \in Seq(R!Frame) /\ w # <<>> /\ srv[link] \notin {"off", "accepted"}
  BY <1>1, <1>3 DEF LinkShape
<1>5. \A i \in 1..Len(w) : w[i].kind = "full" => i = 1 /\ load = R!Empty
  BY <1>1 DEF CopyInv, WireHolds
<1>6. wire'[link] = x
  BY <1>1, <1>3
<1>. HIDE DEF w
<1>7. /\ x \in Seq(R!Frame) /\ Len(w) \in Nat \ {0} /\ Len(x) = Len(w) - 1 /\ f = w[1]
         /\ f \in R!Frame
      /\ \A i \in 1..Len(x) : x[i] = w[i + 1] /\ i + 1 \in 1..Len(w)
  BY <1>4, Popped
<1>. HIDE DEF x, f
<1>8. LinkShape'
  <2>1. wire' \in [R!Link -> Seq(R!Frame)] /\ \A l \in R!Link : l # link => wire'[l] = wire[l]
    BY <1>1, <1>3, <1>7
  <2>. QED  BY <1>1, <1>3, <1>4, <2>1 DEF LinkShape
<1>9. QueueHolds'
  BY <1>1 DEF CopyInv, QueueHolds, Base, R!FrameOf
<1>10. \A i \in 1..Len(x) : x[i].kind # "full" /\ i \in Nat
  <2>1. \A i \in 1..Len(x) : i + 1 # 1 /\ i \in Nat
    BY <1>7
  <2>. QED  BY <1>5, <1>7, <2>1
<1>11. WireHolds'
  <2>0. PICK y : y = x
    OBVIOUS
  <2>1. InDump(w) => InDump(x)
    BY <1>7 DEF InDump
  <2>2. Streamed(w) => Streamed(y)'
    <3>1. SUFFICES ASSUME NEW n \in 0..Len(w), Parted(w, n)
                   PROVE  \E m \in 0..Len(y) : Parted(y, m)'
      BY DEF Streamed
    <3>2. \A i \in 1..Len(x) : i + 1 \in 1..Len(w) /\ x[i] = w[i + 1] /\ i \in Nat
      BY <1>7
    <3>3. CASE n <= 1
      <4>1. f.kind # "snap"
        <5>1. 1 \in 1..Len(w) /\ (1 > n \/ n = 1)
          BY <1>7, <3>1, <3>3
        <5>. QED  BY <1>7, <3>1, <5>1 DEF Parted
      <4>2. \A i \in 1..Len(x) : i + 1 > n /\ ~(i < 0)
        BY <3>1, <3>2, <3>3
      <4>3. \A i \in 1..Len(x) : x[i].kind \in {"mut", "flush", "ping"}
        BY <3>1, <3>2, <4>2 DEF Parted
      <4>4. load' = R!Empty /\ 0 \in 0..Len(x) /\ ~(0 > 0)
        BY <1>1, <1>7, <4>1
      <4>5. Parted(y, 0)'
        BY <2>0, <4>2, <4>3, <4>4 DEF Parted
      <4>. QED  BY <2>0, <4>4, <4>5
    <3>4. CASE n > 1
      <4>1. n - 1 \in 1..Len(x) /\ n - 1 \in 0..Len(x) /\ n - 1 # 0 /\ (n - 1) + 1 = n
        BY <1>7, <3>1, <3>4
      <4>2. x[n - 1].kind = "ready"
        BY <3>1, <3>2, <3>4, <4>1 DEF Parted
      <4>3. \A i \in 1..Len(x) : (i < n - 1 => i + 1 < n) /\ (i > n - 1 => i + 1 > n)
        BY <3>1, <3>2
      <4>4. \A i \in 1..Len(x) : /\ i < n - 1 => x[i].kind \in {"full", "snap"}
                                 /\ i > n - 1 => x[i].kind \in {"mut", "flush", "ping"}
        BY <3>1, <3>2, <4>3 DEF Parted
      <4>5. Parted(y, n - 1)'
        BY <2>0, <4>1, <4>2, <4>4 DEF Parted
      <4>. QED  BY <2>0, <4>1, <4>5
    <3>5. n \in Int
      BY <3>1
    <3>. QED  BY <3>3, <3>4, <3>5
  <2>3. InDump(x) => InDump(wire[link])'
    BY <1>1, <1>6 DEF InDump
  <2>4. Streamed(y)' => Streamed(wire[link])'
    BY <1>1, <1>6, <2>0 DEF Streamed, Parted
  <2>5. srv[link] = "pin" => load' = R!Empty /\ \A i \in 1..Len(x) : x[i].kind = "full"
    <3>1. SUFFICES ASSUME srv[link] = "pin" PROVE load' = R!Empty
                          /\ \A i \in 1..Len(x) : x[i].kind = "full"
      OBVIOUS
    <3>2. \A i \in 1..Len(w) : w[i].kind = "full"
      BY <1>1, <3>1 DEF CopyInv, WireHolds, w
    <3>3. f.kind = "full"
      BY <1>7, <3>2
    <3>. QED  BY <1>1, <1>7, <3>2, <3>3
  <2>6. /\ srv[link] = "dump" => InDump(w)
        /\ srv[link] \in Sending => Streamed(w)
        /\ InDump(w) \/ Streamed(w)
    BY <1>1 DEF CopyInv, WireHolds, w
  <2>. QED  BY <1>1, <1>4, <1>6, <1>10, <2>1, <2>2, <2>3, <2>4, <2>5, <2>6 DEF WireHolds
<1>12. /\ \A i, j \in 1..Len(w), k \in Key :
            i < j /\ Carries(w[i], k) /\ Carries(w[j], k) => w[i].ts <= w[j].ts
       /\ Begun => \A k \in Key :
            /\ \A i \in 1..Len(w) : Carries(w[i], k) => copy[k] <= w[i].ts /\ load[k] <= w[i].ts
            /\ load[k] > 0 => copy[k] <= load[k]
       /\ link \notin cut /\ srv[link] \in Sending \cup {"dump"} =>
            \A k \in Key :
              /\ \A i \in 1..Len(w) : Carries(w[i], k) => w[i].ts <= Sent(link)
                 /\ k \notin todo[link]
              /\ Begun => /\ copy[k] <= Sent(link) /\ load[k] <= Sent(link)
                          /\ k \in todo[link] => copy[k] = 0 /\ load[k] = 0
  BY <1>1 DEF CopyInv, OrderHolds, w
<1>13. f.kind # "full" => Begun
  <2>1. SUFFICES ASSUME f.kind # "full" PROVE \A i \in 1..Len(w) : w[i].kind # "full"
    BY <1>4 DEF Begun, w
  <2>. QED  BY <1>5, <1>7, <2>1
<1>14. 1 \in 1..Len(w) /\ \A i \in 1..Len(x) : 1 < i + 1
  BY <1>7
<1>15. \A k \in Key, i \in 1..Len(x) : Carries(x[i], k) => x[i].ts \in Nat
  BY <1>7, LenProperties DEF R!Frame, Carries
<1>16. \A k \in Key : copy[k] \in Nat /\ load[k] \in Nat
  BY <1>3
<1>17. f.kind \in {"full", "flush"} => \A k \in Key : copy'[k] = 0 /\ load'[k] = 0
  BY <1>2 DEF Carries, Touches
<1>18. OrderHolds'
  <2>1. \A i, j \in 1..Len(x), k \in Key :
          i < j /\ Carries(x[i], k) /\ Carries(x[j], k) => x[i].ts <= x[j].ts
    <3>1. SUFFICES ASSUME NEW i \in 1..Len(x), NEW j \in 1..Len(x), NEW k \in Key,
                          i < j, Carries(x[i], k), Carries(x[j], k)
                   PROVE  x[i].ts <= x[j].ts
      OBVIOUS
    <3>2. /\ x[i] = w[i + 1] /\ i + 1 \in 1..Len(w)
          /\ x[j] = w[j + 1] /\ j + 1 \in 1..Len(w)
      BY <1>7
    <3>3. i + 1 < j + 1
      BY <1>10, <3>1
    <3>. QED  BY <1>12, <3>1, <3>2, <3>3
  <2>2. ASSUME NEW k \in Key
        PROVE  /\ \A i \in 1..Len(x) : Carries(x[i], k) => copy'[k] <= x[i].ts
                  /\ load'[k] <= x[i].ts
               /\ load'[k] > 0 => copy'[k] <= load'[k]
    <3>1. CASE f.kind \in {"full", "flush"}
      BY <1>15, <1>17, <3>1
    <3>2. CASE f.kind \notin {"full", "flush"}
      <4>1. /\ \A i \in 1..Len(w) : Carries(w[i], k) => copy[k] <= w[i].ts /\ load[k] <= w[i].ts
            /\ load[k] > 0 => copy[k] <= load[k]
        BY <1>12, <1>13, <3>2
      <4>2. \A i \in 1..Len(x) : Carries(x[i], k) => copy[k] <= x[i].ts /\ load[k] <= x[i].ts
        BY <1>7, <4>1
      <4>3. CASE Carries(f, k)
        <5>1. copy[k] <= f.ts /\ load[k] <= f.ts
          BY <1>7, <1>14, <4>1, <4>3
        <5>2. \A i \in 1..Len(x) : Carries(x[i], k) => f.ts <= x[i].ts
          BY <1>7, <1>12, <1>14, <4>3
        <5>3. /\ f.ts \in Nat \ {0}
              /\ \/ copy'[k] = f.ts /\ load'[k] = 0
                 \/ copy'[k] = copy[k] /\ load'[k] = f.ts
          BY <1>2, <3>2, <4>3 DEF Touches
        <5>. QED  BY <1>15, <1>16, <4>2, <5>1, <5>2, <5>3
      <4>4. CASE ~Carries(f, k)
        <5>1. \/ copy'[k] = copy[k] /\ load'[k] = load[k]
              \/ copy'[k] = (IF load[k] > 0 THEN load[k] ELSE copy[k]) /\ load'[k] = 0
          BY <1>2, <3>2, <4>4
        <5>. QED  BY <1>15, <1>16, <4>1, <4>2, <5>1
      <4>. QED  BY <4>3, <4>4
    <3>. QED  BY <3>1, <3>2
  <2>3. srv[link] = "pin" => copy' = R!Empty
    <3>1. SUFFICES ASSUME srv[link] = "pin" PROVE f.kind = "full"
      BY <1>1
    <3>. QED  BY <1>1, <1>7, <1>14, <3>1 DEF CopyInv, WireHolds, w
  <2>4. ASSUME link \notin cut, srv[link] \in Sending \cup {"dump"}, NEW k \in Key
        PROVE  /\ \A i \in 1..Len(x) : Carries(x[i], k) => x[i].ts <= Sent(link)
                  /\ k \notin todo[link]
               /\ copy'[k] <= Sent(link) /\ load'[k] <= Sent(link)
               /\ k \in todo[link] => copy'[k] = 0 /\ load'[k] = 0
    <3>0. Sent(link) \in Nat
      <4>1. srv[link] \in Serving
        BY <2>4 DEF Serving, Sending
      <4>. QED  BY <1>1, <2>4, <4>1, Registered
    <3>1. \A i \in 1..Len(w) : Carries(w[i], k) => w[i].ts <= Sent(link) /\ k \notin todo[link]
      BY <1>12, <2>4
    <3>2. \A i \in 1..Len(x) : Carries(x[i], k) => x[i].ts <= Sent(link) /\ k \notin todo[link]
      BY <1>7, <3>1
    <3>3. CASE f.kind \in {"full", "flush"}
      BY <1>17, <3>0, <3>2, <3>3
    <3>4. CASE f.kind \notin {"full", "flush"}
      <4>1. /\ copy[k] <= Sent(link) /\ load[k] <= Sent(link)
            /\ k \in todo[link] => copy[k] = 0 /\ load[k] = 0
        BY <1>12, <1>13, <2>4, <3>4
      <4>2. CASE Carries(f, k)
        <5>1. f.ts <= Sent(link) /\ k \notin todo[link]
          BY <1>7, <1>14, <3>1, <4>2
        <5>2. \/ copy'[k] = f.ts /\ load'[k] = 0
              \/ copy'[k] = copy[k] /\ load'[k] = f.ts
          BY <1>2, <3>4, <4>2 DEF Touches
        <5>. QED  BY <3>0, <3>2, <4>1, <5>1, <5>2
      <4>3. CASE ~Carries(f, k)
        <5>1. \/ copy'[k] = copy[k] /\ load'[k] = load[k]
              \/ copy'[k] = (IF load[k] > 0 THEN load[k] ELSE copy[k]) /\ load'[k] = 0
          BY <1>2, <3>4, <4>3
        <5>. QED  BY <1>16, <3>0, <3>2, <4>1, <5>1
      <4>. QED  BY <4>2, <4>3
    <3>. QED  BY <3>3, <3>4
  <2>5. Sent(link)' = Sent(link)
    BY <1>1 DEF Sent, Base
  <2>. QED  BY <1>1, <1>6, <2>1, <2>2, <2>3, <2>4, <2>5 DEF OrderHolds
<1>19. CleanHolds'
  <2>. SUFFICES ASSUME link \in clean \ cut PROVE CleanHolds'
    BY <1>1 DEF CleanHolds
  <2>1. /\ Base(link)' = Base(link) /\ Sent(link)' = Sent(link)
        /\ \A n, k : (Calm(n)' <=> Calm(n)) /\ R!At(k, n)' = R!At(k, n)
    BY <1>1 DEF Base, Sent, Calm, R!At
  <2>2. ASSUME srv[link] # "pin", Calm(Sent(link))', NEW k \in Key \ todo[link]
        PROVE  Ends(wire[link], k, R!At(k, Sent(link)))'
    <3>1. PICK n, v : n = Sent(link) /\ v = R!At(k, n)
      OBVIOUS
    <3>2. Calm(n) /\ R!At(k, Sent(link))' = v
      BY <2>1, <2>2, <3>1
    <3>3. Ends(wire[link], k, v)
      BY <1>1, <2>2, <3>1, <3>2 DEF CopyInv, CleanHolds
    <3>4. Ends(wire[link], k, v)'
      BY <3>3, HandleEnds
    <3>. QED  BY <3>2, <3>4
  <2>3. UNCHANGED <<srv, link, snap, todo, log, hooked, visible, clean, cut>>
    BY <1>1
  <2>. QED  BY <1>1, <2>1, <2>2, <2>3 DEF CopyInv, CleanHolds
<1>. QED  BY <1>8, <1>9, <1>11, <1>18, <1>19 DEF CopyInv

\* ... and the key does not go back, but for a wipe.
LEMMA HandleForward ==
  ASSUME CopyInv, CopyAssumption, R!Handle
  PROVE  copy' = R!Empty \/ \A k \in Key : copy'[k] >= copy[k]
<1>. DEFINE w == wire[link]
            f == Head(w)
<1>1. /\ link \in R!Link /\ link # 0 /\ w # <<>>
      /\ f.kind \in {"full", "flush"} => copy' = R!Empty
      /\ \A k \in Key :
           \/ f.kind \in {"full", "flush"}
           \/ Carries(f, k) /\ (copy'[k] = f.ts \/ copy'[k] = copy[k])
           \/ copy'[k] = copy[k] \/ copy'[k] = IF load[k] > 0 THEN load[k] ELSE copy[k]
  BY HandleKeys
<1>2. LinkShape /\ copy \in [Key -> Nat] /\ w \in Seq(R!Frame)
  BY <1>1 DEF CopyInv, LinkShape
<1>3. f = w[1] /\ 1 \in 1..Len(w)
  <2>1. f = w[1] /\ Len(w) \in Nat \ {0}
    BY <1>1, <1>2, Popped
  <2>. QED  BY <2>1
<1>. HIDE DEF f
<1>4. SUFFICES ASSUME f.kind \notin {"full", "flush"} PROVE \A k \in Key : copy'[k] >= copy[k]
  BY <1>1
<1>5. Begun
  <2>1. \A i \in 1..Len(w) : w[i].kind # "full"
    BY <1>1, <1>3, <1>4 DEF CopyInv, WireHolds
  <2>. QED  BY <1>1, <1>2, <2>1 DEF Begun, LinkShape
<1>6. \A k \in Key : /\ Carries(f, k) => copy[k] <= f.ts
                     /\ load[k] > 0 => copy[k] <= load[k]
  BY <1>1, <1>3, <1>5 DEF CopyInv, OrderHolds
<1>7. \A k \in Key : copy[k] \in Nat /\ load[k] \in Nat
  BY DEF CopyInv, LinkShape
<1>8. \A k \in Key : Carries(f, k) => f.ts \in Nat
  BY <1>2, <1>3 DEF R!Frame, Carries
<1>. QED  BY <1>1, <1>4, <1>6, <1>7, <1>8

-----------------------------------------------------------------------------
\* For any keys, groups, connections and limits of queues and sockets: what the
\* thread of a connection, the hub and the replica keep in step (register before
\* the dump, the filter of what the dump contained, the order of queue and
\* socket, the wipe before the dump).
THEOREM CopyInvariance == R!Spec => []CopyInv
<1>1. R!Init => CopyInv
  <2>. SUFFICES ASSUME R!Init PROVE CopyInv
    OBVIOUS
  <2>1. /\ log = <<>> /\ hooked = 0 /\ visible = 0 /\ active = FALSE /\ hub = {} /\ clean = {}
        /\ srv = [l \in R!Link |-> "off"] /\ queue = [l \in R!Link |-> <<>>]
        /\ snap = [l \in R!Link |-> 0] /\ todo = [l \in R!Link |-> {}]
           /\ wire = [l \in R!Link |-> <<>>]
        /\ link = 0 /\ tries = 0 /\ copy = R!Empty /\ load = R!Empty
    BY DEF R!Init
  <2>2. MaxTs \in Nat /\ R!Empty \in [Key -> Nat] /\ Len(log) = 0
        /\ log \in Seq(Key \cup {FlushAll})
    BY <2>1, CopyAssumption DEF R!ReplicationAssumption, R!Empty
  <2>3. <<>> \in Seq(R!Frame)
    OBVIOUS
  <2>4. LinkShape
    BY <2>1, <2>2, <2>3 DEF LinkShape, Serving, Sending
  <2>. QED  BY <2>1, <2>4 DEF CopyInv, QueueHolds, WireHolds, OrderHolds, CleanHolds
<1>2. CopyInv /\ [R!Next]_(R!vars) => CopyInv'
  <2>. SUFFICES ASSUME CopyInv, [R!Next]_(R!vars) PROVE CopyInv'
    OBVIOUS
  <2>. USE CopyAssumption
  <2>1. ASSUME NEW n \in 1..MaxGroup, NEW ops \in [1..n -> Key], R!Apply(ops) PROVE CopyInv'
    <3>1. ops \in Seq(Key \cup {FlushAll})
      <4>1. n \in Nat /\ ops \in [1..n -> Key \cup {FlushAll}]
        BY DEF R!ReplicationAssumption
      <4>. QED  BY <4>1, SeqDef
    <3>. QED  BY <2>1, <3>1, ApplyDone
  <2>2. CASE R!Apply(<<FlushAll>>)
    <3>1. <<FlushAll>> \in Seq(Key \cup {FlushAll})
      OBVIOUS
    <3>. QED  BY <2>2, <3>1, ApplyDone
  <2>3. CASE R!CommitStep
    BY <2>3, HookDone, PublishDone DEF R!CommitStep
  <2>4. ASSUME NEW l \in R!Link, R!ServeStep(l) \/ R!PingNotDue(l) PROVE CopyInv'
    <3>1. CASE R!Register(l)
      BY <3>1, RegisterDone
    <3>2. CASE R!Pin(l)
      BY <3>2, PinDone
    <3>3. CASE R!Ready(l) \/ R!Quiet(l) \/ R!Ping(l) \/ R!PingNotDue(l)
      BY <3>3, GoingOnDone
    <3>4. CASE R!Receive(l) \/ R!Drain(l)
      BY <3>4, ForwardDone
    <3>5. CASE R!Leave(l) \/ R!AckArrives(l)
      BY <3>5, LeaveDone
    <3>6. ASSUME NEW k \in Key, R!Dump(l, k) PROVE CopyInv'
      BY <3>6, DumpDone
    <3>. QED  BY <2>4, <3>1, <3>2, <3>3, <3>4, <3>5, <3>6 DEF R!ServeStep
  <2>5. CASE R!ReplicaStep \/ R!Disconnect
    BY <2>5, LinkDone, HandleDone DEF R!ReplicaStep
  <2>6. CASE UNCHANGED R!vars
    <3>1. UNCHANGED <<log, hooked, visible, active, hub, srv, queue, snap, todo, wire, cut, link,
          tries,
                      copy, load, clean>>
      BY <2>6 DEF R!vars, R!primary, R!conn, R!replica
    <3>. QED  BY <3>1, NothingHappens
  <2>. QED  BY <2>1, <2>2, <2>3, <2>4, <2>5, <2>6 DEF R!Next
<1>. QED  BY <1>1, <1>2, PTL DEF R!Spec

\* A replica whose connection registered between two groups, with no FLUSHALL
\* before its dump was pinned, holds exactly the primary's data once everything
\* sent is handled: dump and queue overlap without a gap (serve_replica).
THEOREM CleanSyncsConverge == R!Spec => []CleanSyncConverges
<1>1. CopyInv => CleanSyncConverges
  <2>. SUFFICES ASSUME CopyInv, R!Settled, link \in clean PROVE R!InSync
    BY DEF CleanSyncConverges, R!CleanSyncConverges
  <2>1. /\ R!Idle /\ link \in hub \ cut /\ srv[link] \in Sending /\ queue[link] = <<>>
           /\ wire[link] = <<>>
        /\ link \in R!Link /\ link # 0
    BY DEF R!Settled, Sending, CopyInv, LinkShape, R!Link
  <2>2. /\ LinkShape /\ todo[link] = {} /\ srv[link] \in Serving /\ srv[link] # "pin"
        /\ copy \in [Key -> Nat] /\ load \in [Key -> Nat]
    BY <2>1 DEF CopyInv, LinkShape, Sending, Serving
  <2>3. Sent(link) = visible /\ visible = Len(log) /\ Len(log) \in Nat
    <3>1. hooked = Len(log) /\ visible = Len(log)
      BY <2>1 DEF R!Idle
    <3>2. Base(link) = hooked /\ snap[link] \in Nat /\ snap[link] <= visible /\ hooked \in Nat
      BY <2>1, <2>2 DEF Base, LinkShape
    <3>. QED  BY <3>1, <3>2 DEF Sent
  <2>4. Calm(Sent(link))
    BY <2>3 DEF Calm
  <2>5. load = R!Empty
    <3>1. PICK n \in 0..Len(wire[link]) : Parted(wire[link], n)
      BY <2>1 DEF CopyInv, WireHolds, Streamed
    <3>2. n = 0
      BY <2>1
    <3>. QED  BY <3>1, <3>2 DEF Parted
  <2>6. ASSUME NEW k \in Key PROVE copy[k] = R!At(k, visible)
    <3>1. Ends(wire[link], k, R!At(k, Sent(link)))
      BY <2>1, <2>2, <2>4 DEF CopyInv, CleanHolds
    <3>2. Len(wire[link]) = 0 /\ 1..0 = {} /\ load[k] = 0
      BY <2>1, <2>5 DEF R!Empty
    <3>. QED  BY <2>3, <3>1, <3>2 DEF Ends
  <2>. QED  BY <2>2, <2>6 DEF R!InSync
<1>. QED  BY <1>1, CopyInvariance, PTL

\* A key on the replica never goes back to an older version, whatever is
\* disconnected, dumped again and applied late: only a whole wipe (FULLSYNC, or a
\* FLUSHALL of the stream) removes what the replica has shown (sync_once).
THEOREM CopyNeverGoesBack == R!Spec => CopyMovesForward
<1>1. CopyInv /\ [R!Next]_(R!vars)
      => [copy' = R!Empty \/ \A k \in Key : copy'[k] >= copy[k]]_(R!vars)
  <2>. SUFFICES ASSUME CopyInv, R!Next PROVE copy' = R!Empty \/ \A k \in Key : copy'[k] >= copy[k]
    OBVIOUS
  <2>1. copy \in [Key -> Nat]
    BY DEF CopyInv, LinkShape
  <2>2. R!Handle \/ UNCHANGED copy
    BY DEF R!Next, R!Apply, R!CommitStep, R!Hook, R!Publish, R!ServeStep, R!Register, R!Pin, R!Dump,
           R!Ready, R!Receive, R!Drain, R!Forward, R!Quiet, R!Ping, R!PingNotDue, R!Leave,
           R!AckArrives, R!ReplicaStep, R!Connect, R!LinkLost, R!Disconnect, R!replica
  <2>3. CASE UNCHANGED copy
    BY <2>1, <2>3
  <2>4. CASE R!Handle
    BY <2>4, CopyAssumption, HandleForward
  <2>. QED  BY <2>2, <2>3, <2>4
<1>2. R!Spec => [][copy' = R!Empty \/ \A k \in Key : copy'[k] >= copy[k]]_(R!vars)
  BY <1>1, CopyInvariance, PTL DEF R!Spec
<1>. QED  BY <1>2 DEF CopyMovesForward, R!CopyMovesForward
-----------------------------------------------------------------------------
(* The tiers of a pool with one GPU.                                        *)

Block == [id : Nat, gpu : P!Shard, size : Nat]
Entry == [tier : {"Vram", "Dram", "Ssd"}, size : Nat, vram : Seq(Block), dram : Seq(0..2),
          spill : {P!Stale, P!Whole}]
Order == [to : Block, from : SUBSET Pages]

\* The block of the page p, if it is in device memory.
Home(p) == IF page[p] # P!None /\ page[p].vram # <<>> THEN page[p].vram[1] ELSE P!None

\* Block ids are those of the blocks made so far, each once.
Numbered ==
  /\ IsFiniteSet(made) /\ made \subseteq Block
  /\ \A b \in made : b.id \in 1..Cardinality(made)
  /\ \A b, c \in made : b.id = c.id => b = c
  /\ \A b \in made : b.id \in DOMAIN holds

PoolShape ==
  /\ cache \subseteq made
  /\ page \in [Pages -> Entry \cup {P!None}]
  /\ inflight \in [Pages -> made \cup {P!None}]
  /\ exposed \in [Pages -> BOOLEAN] /\ outrun \subseteq {p \in Pages : inflight[p] # P!None}
  /\ copies \in [P!Shard -> Seq(Order)]

\* One device gives a page one block, and one pool one shard.
Entries ==
  \A p \in Pages : page[p] # P!None =>
    /\ Len(page[p].vram) <= 1 /\ Len(page[p].dram) <= 1
    /\ page[p].vram # <<>> => page[p].tier = "Vram"
    /\ page[p].tier = "Ssd" => page[p].dram = <<>>

\* A block of a page or of a prefetch is neither cached nor anyone else's.
Owned ==
  /\ \A p \in Pages : Home(p) # P!None => Home(p) \in made \ cache /\ inflight[p] = P!None
  /\ \A p \in Pages : inflight[p] # P!None => inflight[p] \in made \ cache
  /\ \A p, q \in Pages : Home(p) # P!None /\ Home(p) = Home(q) => p = q
  /\ \A p, q \in Pages : inflight[p] # P!None /\ inflight[p] = inflight[q] => p = q
  /\ \A p, q \in Pages : Home(p) # P!None => Home(p) # inflight[q]

\* A queued copy goes to a prefetch, from the page it was made for or from memory
\* that is that page's no longer; then the prefetch is older than the page.
Queued ==
  /\ \A i \in DOMAIN copies[1] :
       \E p \in Pages :
         /\ inflight[p] # P!None /\ inflight[p] = copies[1][i].to
         /\ copies[1][i].from \in {{}, {p}}
         /\ page[p] # P!None /\ p \notin outrun => copies[1][i].from = {p}
  /\ \A i, j \in DOMAIN copies[1] : copies[1][i].to = copies[1][j].to => i = j

Awaited(p) == \E i \in DOMAIN copies[1] : copies[1][i].to = inflight[p]

\* What is not exposed is current wherever the next operation will look for it, in
\* a prefetch too unless that is older than the page.
Sound(p) ==
  page[p] # P!None /\ ~exposed[p] =>
    /\ P!Current(p)
    /\ page[p].vram # <<>> /\ page[p].dram # <<>> => holds[page[p].vram[1].id] = 1
    /\ inflight[p] # P!None /\ p \notin outrun =>
         /\ page[p].tier = "Dram" /\ page[p].dram # <<>>
         /\ Awaited(p) \/ holds[inflight[p].id] = 1

PoolInv == Numbered /\ PoolShape /\ Entries /\ Owned /\ Queued /\ \A p \in Pages : Sound(p)

\* ... and a sweep goes over pages.
Sweeps == sweep \in [demote : SUBSET Pages, promote : SUBSET Pages, strict : BOOLEAN]

-----------------------------------------------------------------------------
\* The instance counts as FiniteSets does.
LEMMA CountsAlike == \A S : P!Cardinality(S) = Cardinality(S)
  BY DEF P!Cardinality, Cardinality

\* No block and no entry of the table is the mark of a name without one.
LEMMA NoneIsNoBlock == P!None \notin Block /\ P!None \notin Entry
<1>1. \A b \in Block : b # P!None
  <2>. SUFFICES ASSUME NEW b \in Block, b = P!None PROVE FALSE
    OBVIOUS
  <2>1. DOMAIN b = {"id", "gpu", "size"}
    BY DEF Block
  <2>2. DOMAIN b = {"tier"}
    BY DEF P!None
  <2>3. "id" \in DOMAIN b /\ "id" \notin {"tier"}
    BY <2>1
  <2>. QED  BY <2>2, <2>3
<1>2. \A e \in Entry : e # P!None
  <2>. SUFFICES ASSUME NEW e \in Entry, e = P!None PROVE FALSE
    OBVIOUS
  <2>1. DOMAIN e = {"tier", "size", "vram", "dram", "spill"}
    BY DEF Entry
  <2>2. DOMAIN e = {"tier"}
    BY DEF P!None
  <2>3. "size" \in DOMAIN e /\ "size" \notin {"tier"}
    BY <2>1
  <2>. QED  BY <2>2, <2>3
<1>. QED  BY <1>1, <1>2

\* What one GPU makes of the constants.
LEMMA TheShard ==
  ASSUME Gpus = 1
  PROVE  P!Shard = {1} /\ P!Whole = 2 /\ P!Stale = 0
         /\ \A size \in Nat : P!ShardSize(size, 1) \in Nat
<1>1. P!Shard = {1} /\ P!Whole = 2 /\ P!Stale = 0
  BY DEF P!Shard, P!Whole, P!Stale
<1>2. \A size \in Nat : size \div 1 \in Nat /\ size % 1 \in Nat
  OBVIOUS
<1>. QED  BY <1>1, <1>2 DEF P!ShardSize

\* A block that is handed out is a cached one or has a number no other has.
LEMMA HandedBlock ==
  ASSUME Gpus = 1, PoolInv, NEW size \in Nat, NEW b \in P!Handed(cache, 1, size)
  PROVE  /\ b \in Block /\ b # P!None /\ b.gpu = 1
         /\ b \in cache \/ b \notin made
         /\ \A c \in made : c.id = b.id => c = b
         /\ \A p \in Pages : Home(p) # b /\ inflight[p] # b
<1>1. \/ b \in cache /\ b.gpu = 1
      \/ b = [id |-> Cardinality(made) + 1, gpu |-> 1, size |-> size]
  <2>. DEFINE same == {c \in cache : c.gpu = 1 /\ c.size = size}
              new == [id |-> Cardinality(made) + 1, gpu |-> 1, size |-> size]
              used == P!MapThenSumSet(LAMBDA c : c.size, {c \in made : c.gpu = 1})
  <2>1. P!Handed(cache, 1, size) = IF same # {} THEN same
                                 ELSE IF used + size <= VramCap THEN {new} ELSE {}
    BY CountsAlike DEF P!Handed
  <2>. HIDE DEF new, used
  <2>2. b \in same \/ b = new
    BY <2>1
  <2>. QED  BY <2>2 DEF new
<1>2. Cardinality(made) \in Nat
  BY FS_CardinalityType DEF PoolInv, Numbered
<1>3. b \in Block /\ b.gpu = 1
  <2>1. 1 \in P!Shard
    BY TheShard
  <2>2. cache \subseteq Block
    BY DEF PoolInv, Numbered, PoolShape
  <2>3. Cardinality(made) + 1 \in Nat
    BY <1>2
  <2>. QED  BY <1>1, <2>1, <2>2, <2>3 DEF Block
<1>4. b \in cache \/ \A c \in made : c.id # b.id
  BY <1>1, <1>2 DEF PoolInv, Numbered
<1>5. \A p \in Pages : /\ Home(p) = P!None \/ Home(p) \in made \ cache
                       /\ inflight[p] = P!None \/ inflight[p] \in made \ cache
  BY DEF PoolInv, Owned
<1>6. b # P!None
  BY <1>3, NoneIsNoBlock
<1>7. \A p \in Pages : Home(p) # b /\ inflight[p] # b
  BY <1>4, <1>5, <1>6
<1>. QED  BY <1>3, <1>4, <1>6, <1>7 DEF PoolInv, Numbered, PoolShape

\* What a block that is handed out does to the numbering and the contents.
LEMMA TakenBlock ==
  ASSUME Gpus = 1, PoolInv, NEW size \in Nat, NEW b \in P!Handed(cache, 1, size), NEW what,
         made' = made \cup {b}, P!Fill(b, what)
  PROVE  /\ Numbered'
         /\ holds'[b.id] = what
         /\ \A c \in made \ {b} : holds'[c.id] = holds[c.id]
<1>1. /\ b \in Block
      /\ b \in cache \/ b \notin made
      /\ \A c \in made : c.id = b.id => c = b
  BY HandedBlock
<1>2. holds' = [i \in DOMAIN holds \cup {b.id} |-> IF i = b.id THEN what ELSE holds[i]]
  BY DEF P!Fill
<1>3. \A c \in made : c.id \in DOMAIN holds
  BY DEF PoolInv, Numbered
<1>4. holds'[b.id] = what /\ \A c \in made \ {b} : holds'[c.id] = holds[c.id]
  BY <1>1, <1>2, <1>3
<1>5. \A c \in made' : c.id \in DOMAIN holds'
  BY <1>2, <1>3
<1>6. /\ IsFiniteSet(made) /\ Cardinality(made) \in Nat /\ made' \subseteq Block
      /\ \A c, d \in made' : c.id = d.id => c = d
  BY <1>1, FS_CardinalityType DEF PoolInv, Numbered
<1>7. IsFiniteSet(made') /\ \A c \in made' : c.id \in 1..Cardinality(made')
  <2>1. CASE b \in made
    <3>1. made' = made
      BY <2>1
    <3>. QED  BY <3>1 DEF PoolInv, Numbered
  <2>2. CASE b \notin made
    <3>1. IsFiniteSet(made') /\ Cardinality(made') = Cardinality(made) + 1
      BY <1>6, <2>2, FS_AddElement
    <3>2. b.id = Cardinality(made) + 1
      <4>1. b \notin {c \in cache : c.gpu = 1 /\ c.size = size}
        BY <2>2 DEF PoolInv, PoolShape
      <4>. DEFINE used == P!MapThenSumSet(LAMBDA c : c.size, {c \in made : c.gpu = 1})
                  new == [id |-> Cardinality(made) + 1, gpu |-> 1, size |-> size]
      <4>2. b \in IF used + size <= VramCap THEN {new} ELSE {}
        BY <4>1, CountsAlike DEF P!Handed
      <4>3. b = new
        <5>. HIDE DEF used, new
        <5>. QED  BY <4>2
      <4>. QED  BY <4>3
    <3>3. \A c \in made : c.id \in 1..Cardinality(made)
      BY DEF PoolInv, Numbered
    <3>4. PICK n \in Nat : n = Cardinality(made)
      BY <1>6
    <3>5. \A c \in made' : c.id \in 1..n + 1
      BY <3>2, <3>3, <3>4
    <3>. QED  BY <3>1, <3>4, <3>5
  <2>. QED  BY <2>1, <2>2
<1>. QED  BY <1>4, <1>5, <1>6, <1>7 DEF Numbered

-----------------------------------------------------------------------------
\* A sequence that is not longer than one.
LEMMA OneLong ==
  ASSUME NEW S, NEW s \in Seq(S), Len(s) <= 1, s # <<>>
  PROVE  Len(s) = 1 /\ s = <<s[1]>> /\ DOMAIN s = {1} /\ s[1] \in S
<1>1. Len(s) \in Nat /\ DOMAIN s = 1..Len(s) /\ Len(s) # 0
  BY LenProperties, EmptySeq
<1>2. Len(s) = 1
  BY <1>1
<1>3. DOMAIN s = {1} /\ s[1] \in S
  BY <1>1, <1>2, ElementOfSeq
<1>4. s = <<s[1]>>
  <2>1. <<s[1]>> \in Seq(S) /\ Len(<<s[1]>>) = 1 /\ <<s[1]>>[1] = s[1]
    BY <1>3
  <2>. QED  BY <1>2, <2>1, SeqEqual
<1>. QED  BY <1>2, <1>3, <1>4

\* A page in device memory is in the one block that is its home.
LEMMA HomeIsFirst ==
  ASSUME PoolShape, Entries, NEW p \in Pages, page[p] # P!None
  PROVE  /\ page[p] \in Entry
         /\ page[p].vram = <<>> => Home(p) = P!None
         /\ page[p].vram # <<>> =>
              page[p].vram = <<page[p].vram[1]>> /\ DOMAIN page[p].vram = {1}
                /\ Home(p) = page[p].vram[1] /\ Home(p) \in Block /\ Home(p) # P!None
         /\ page[p].dram # <<>> =>
              page[p].dram = <<page[p].dram[1]>> /\ DOMAIN page[p].dram = {1}
<1>1. page[p] \in Entry
  BY DEF PoolShape
<1>. DEFINE v == page[p].vram
            d == page[p].dram
<1>2. v \in Seq(Block) /\ d \in Seq(0..2) /\ Len(v) <= 1 /\ Len(d) <= 1
  BY <1>1 DEF Entry, Entries
<1>3. (v = <<>> => Home(p) = P!None) /\ (v # <<>> => Home(p) = v[1])
  BY DEF Home
<1>. HIDE DEF v, d
<1>4. v # <<>> => Len(v) = 1 /\ v = <<v[1]>> /\ DOMAIN v = {1} /\ v[1] \in Block
  BY <1>2, OneLong
<1>5. d # <<>> => Len(d) = 1 /\ d = <<d[1]>> /\ DOMAIN d = {1}
  BY <1>2, OneLong
<1>. QED  BY <1>1, <1>3, <1>4, <1>5, NoneIsNoBlock DEF v, d

\* A page that a step leaves alone stays sound.
LEMMA OthersStaySound ==
  ASSUME PoolInv, NEW q \in Pages,
         page'[q] = page[q], inflight'[q] = inflight[q],
         exposed'[q] = exposed[q], q \in outrun => q \in outrun',
         Home(q) # P!None => holds'[Home(q).id] = holds[Home(q).id],
         inflight[q] # P!None => holds'[inflight[q].id] = holds[inflight[q].id],
         Awaited(q) => Awaited(q)'
  PROVE  Sound(q)'
<1>. SUFFICES ASSUME page[q] # P!None, ~exposed[q]
              PROVE  /\ P!Current(q)'
                     /\ page[q].vram # <<>> /\ page[q].dram # <<>> => holds'[page[q].vram[1].id] = 1
                     /\ inflight[q] # P!None /\ q \notin outrun' =>
                          /\ page[q].tier = "Dram" /\ page[q].dram # <<>>
                          /\ Awaited(q)' \/ holds'[inflight[q].id] = 1
  BY DEF Sound
<1>1. /\ P!Current(q)
      /\ page[q].vram # <<>> /\ page[q].dram # <<>> => holds[page[q].vram[1].id] = 1
      /\ inflight[q] # P!None /\ q \notin outrun =>
           /\ page[q].tier = "Dram" /\ page[q].dram # <<>>
           /\ Awaited(q) \/ holds[inflight[q].id] = 1
  BY DEF PoolInv, Sound
<1>2. page[q].vram # <<>> =>
        DOMAIN page[q].vram = {1} /\ holds'[page[q].vram[1].id] = holds[page[q].vram[1].id]
  BY HomeIsFirst DEF PoolInv
<1>3. P!Current(q)'
  BY <1>1, <1>2 DEF P!Current
<1>. QED  BY <1>1, <1>2, <1>3

\* What attaching a block does to the table.
LEMMA AttachedEntry ==
  ASSUME PoolShape, Entries, NEW p \in Pages, page[p] # P!None, page[p].vram = <<>>,
         NEW b \in Block, P!Attach(p, b)
  PROVE  /\ page' \in [Pages -> Entry \cup {P!None}] /\ Entries'
         /\ page'[p] # P!None /\ page'[p].tier = "Vram" /\ page'[p].vram = <<b>>
         /\ page'[p].dram = page[p].dram
         /\ Home(p)' = b
         /\ \A q \in Pages \ {p} : page'[q] = page[q] /\ Home(q)' = Home(q)
<1>1. page[p] \in Entry /\ page \in [Pages -> Entry \cup {P!None}]
  BY DEF PoolShape
<1>2. page' = [page EXCEPT ![p].tier = "Vram", ![p].vram = Append(<<>>, b)]
  BY DEF P!Attach
<1>3. Append(<<>>, b) = <<b>> /\ <<b>> \in Seq(Block) /\ Len(<<b>>) = 1 /\ <<b>> # <<>>
      /\ <<b>>[1] = b
  OBVIOUS
<1>4. /\ page' = [page EXCEPT ![p] = [[page[p] EXCEPT !.tier = "Vram"] EXCEPT !.vram = <<b>>]]
  BY <1>1, <1>2, <1>3
<1>5. PICK e : e = [[page[p] EXCEPT !.tier = "Vram"] EXCEPT !.vram = <<b>>]
  OBVIOUS
<1>6. e \in Entry /\ e.tier = "Vram" /\ e.vram = <<b>> /\ e.dram = page[p].dram
  BY <1>1, <1>3, <1>5 DEF Entry
<1>7. page'[p] = e /\ \A q \in Pages \ {p} : page'[q] = page[q]
  BY <1>1, <1>4, <1>5
<1>8. page' \in [Pages -> Entry \cup {P!None}]
  BY <1>1, <1>4, <1>5, <1>6
<1>9. Entries'
  <2>. SUFFICES ASSUME NEW q \in Pages, page'[q] # P!None
                PROVE  /\ Len(page'[q].vram) <= 1 /\ Len(page'[q].dram) <= 1
                       /\ page'[q].vram # <<>> => page'[q].tier = "Vram"
                       /\ page'[q].tier = "Ssd" => page'[q].dram = <<>>
    BY DEF Entries
  <2>1. CASE q = p
    <3>1. Len(page[p].dram) <= 1
      BY DEF Entries
    <3>2. page'[q].vram = <<b>> /\ page'[q].dram = page[p].dram /\ page'[q].tier = "Vram"
      BY <1>6, <1>7, <2>1
    <3>. QED  BY ONLY <1>3, <3>1, <3>2
  <2>2. CASE q # p
    BY <1>7, <2>2 DEF Entries
  <2>. QED  BY <2>1, <2>2
<1>10. e # P!None
  BY <1>6, NoneIsNoBlock
<1>11. Home(p)' = b /\ \A q \in Pages \ {p} : Home(q)' = Home(q)
  BY <1>3, <1>6, <1>7, <1>10 DEF Home
<1>. QED  BY <1>6, <1>7, <1>8, <1>9, <1>10, <1>11

-----------------------------------------------------------------------------
\* A page gets a block that was handed out, with all that its copy below had.
LEMMA AttachDone ==
  ASSUME Gpus = 1, PoolInv, NEW p \in Pages, page[p] # P!None, page[p].vram = <<>>,
         inflight[p] = P!None, NEW size \in Nat, NEW b \in P!Handed(cache, 1, size), NEW what,
         P!Take(b, cache), P!Fill(b, what), P!Attach(p, b), UNCHANGED <<inflight, copies, outrun>>,
         NEW why \in BOOLEAN, P!Exposed(p, why),
         ~exposed[p] /\ ~why => what # P!Stale /\ (page[p].dram # <<>> => what = 1)
  PROVE  PoolInv'
<1>1. /\ b \in Block /\ b # P!None
      /\ b \in cache \/ b \notin made
      /\ \A c \in made : c.id = b.id => c = b
      /\ \A q \in Pages : Home(q) # b /\ inflight[q] # b
  BY HandedBlock
<1>2. cache' = cache \ {b} /\ made' = made \cup {b}
  BY DEF P!Take
<1>3. /\ Numbered' /\ holds'[b.id] = what
      /\ \A c \in made \ {b} : holds'[c.id] = holds[c.id]
  BY <1>2, TakenBlock
<1>4. PoolShape /\ Entries /\ Owned /\ Queued
  BY DEF PoolInv
<1>5. /\ page' \in [Pages -> Entry \cup {P!None}] /\ Entries'
      /\ page'[p] # P!None /\ page'[p].tier = "Vram" /\ page'[p].vram = <<b>>
      /\ page'[p].dram = page[p].dram
      /\ Home(p)' = b
      /\ \A q \in Pages \ {p} : page'[q] = page[q] /\ Home(q)' = Home(q)
  BY <1>1, <1>4, AttachedEntry
<1>. /\ exposed' \in [Pages -> BOOLEAN]
     /\ exposed'[p] = (exposed[p] \/ why) /\ \A q \in Pages \ {p} : exposed'[q] = exposed[q]
  BY <1>4 DEF P!Exposed, PoolShape
<1>6. PoolShape'
  BY <1>2, <1>4, <1>5 DEF PoolShape
<1>7. Owned'
  BY <1>1, <1>2, <1>4, <1>5 DEF Owned
<1>8. Queued'
  BY <1>4, <1>5 DEF Queued
<1>9. ASSUME NEW q \in Pages PROVE Sound(q)'
  <2>1. CASE q = p
    <3>1. inflight'[p] = P!None
      OBVIOUS
    <3>2. <<b>>[1] = b /\ DOMAIN <<b>> = {1} /\ <<b>> # <<>>
      OBVIOUS
    <3>3. ~exposed'[p] => P!Current(p)'
      BY <1>3, <1>5, <3>1, <3>2 DEF P!Current
    <3>. QED  BY <1>3, <1>5, <2>1, <3>1, <3>2, <3>3 DEF Sound
  <2>2. CASE q # p
    <3>1. Home(q) # P!None => Home(q) \in made \ {b}
      BY <1>1, <1>4 DEF Owned
    <3>2. inflight[q] # P!None => inflight[q] \in made \ {b}
      BY <1>1, <1>4 DEF Owned
    <3>3. Awaited(q)' = Awaited(q)
      BY DEF Awaited
    <3>. QED  BY <1>3, <1>5, <2>2, <3>1, <3>2, <3>3, OthersStaySound
  <2>. QED  BY <2>1, <2>2
<1>. QED  BY <1>3, <1>5, <1>6, <1>7, <1>8, <1>9 DEF PoolInv

\* A block that is handed out and not attached: it is lost, or goes to the cache.
LEMMA TakeDone ==
  ASSUME Gpus = 1, PoolInv, NEW size \in Nat, NEW b \in P!Handed(cache, 1, size), NEW what,
         made' = made \cup {b}, cache' \subseteq cache \cup {b}, P!Fill(b, what),
         UNCHANGED <<page, inflight, copies, outrun, exposed>>
  PROVE  PoolInv'
<1>1. /\ b \in Block /\ b # P!None
      /\ \A q \in Pages : Home(q) # b /\ inflight[q] # b
  BY HandedBlock
<1>2. /\ Numbered' /\ \A c \in made \ {b} : holds'[c.id] = holds[c.id]
  BY TakenBlock
<1>3. PoolShape /\ Entries /\ Owned /\ Queued
  BY DEF PoolInv
<1>4. \A q \in Pages : Home(q)' = Home(q) /\ Awaited(q)' = Awaited(q)
  BY DEF Home, Awaited
<1>5. PoolShape' /\ Entries' /\ Queued'
  <2>1. made \subseteq made' /\ cache' \subseteq made'
    BY <1>3 DEF PoolShape
  <2>2. PoolShape'
    BY <1>3, <2>1 DEF PoolShape
  <2>3. Entries'
    BY <1>3 DEF Entries
  <2>4. Queued'
    BY <1>3 DEF Queued
  <2>. QED  BY <2>2, <2>3, <2>4
<1>6. Owned'
  BY <1>1, <1>3, <1>4 DEF Owned
<1>7. ASSUME NEW q \in Pages PROVE Sound(q)'
  <2>1. Home(q) # P!None => Home(q) \in made \ {b}
    BY <1>1, <1>3 DEF Owned
  <2>2. inflight[q] # P!None => inflight[q] \in made \ {b}
    BY <1>1, <1>3 DEF Owned
  <2>. QED  BY <1>2, <1>4, <2>1, <2>2, OthersStaySound
<1>. QED  BY <1>2, <1>5, <1>6, <1>7 DEF PoolInv

\* Nothing the invariant speaks of changes.
LEMMA PoolStays ==
  ASSUME PoolInv, UNCHANGED <<page, made, cache, holds, inflight, copies, outrun, exposed>>
  PROVE  PoolInv'
<1>1. \A q \in Pages : Home(q)' = Home(q) /\ Awaited(q)' = Awaited(q)
  BY DEF Home, Awaited
<1>2. Numbered' /\ PoolShape' /\ Entries' /\ Queued'
  BY DEF PoolInv, Numbered, PoolShape, Entries, Queued
<1>3. Owned'
  BY <1>1 DEF PoolInv, Owned
<1>4. \A q \in Pages : Sound(q)'
  BY <1>1, OthersStaySound
<1>. QED  BY <1>2, <1>3, <1>4 DEF PoolInv

-----------------------------------------------------------------------------
\* A prefetch is claimed.
LEMMA ClaimDone ==
  ASSUME Gpus = 1, PoolInv, NEW p \in Pages, NEW ok, inflight[p] # P!None, P!Claim(p, 1, ok),
         UNCHANGED copies, outrun' = outrun \ {p}
  PROVE  PoolInv'
<1>. DEFINE b == inflight[p]
<1>1. PoolShape /\ Entries /\ Owned /\ Queued /\ Numbered
  BY DEF PoolInv
<1>2. /\ \A i \in DOMAIN copies[1] : copies[1][i].to # b
      /\ inflight' = [inflight EXCEPT ![p] = P!None]
      /\ IF page[p] # P!None THEN P!Attach(p, b) /\ P!Exposed(p, p \in outrun)
                             ELSE UNCHANGED <<page, exposed>>
      /\ UNCHANGED <<made, cache, holds, copies>>
  BY DEF P!Claim, P!Live
<1>3. /\ b \in made \ cache /\ b \in Block /\ b # P!None /\ Home(p) = P!None
      /\ \A q \in Pages : Home(q) # b /\ (q # p => inflight[q] # b)
  BY <1>1 DEF Owned, Numbered
<1>4. inflight'[p] = P!None /\ \A q \in Pages \ {p} : inflight'[q] = inflight[q]
  BY <1>1, <1>2 DEF PoolShape
<1>5. /\ page' \in [Pages -> Entry \cup {P!None}] /\ Entries'
      /\ IF page[p] # P!None
         THEN /\ page'[p] # P!None /\ page'[p].vram = <<b>> /\ page'[p].dram = page[p].dram
              /\ Home(p)' = b
         ELSE page'[p] = P!None /\ Home(p)' = P!None
      /\ \A q \in Pages \ {p} : page'[q] = page[q] /\ Home(q)' = Home(q)
  <2>1. CASE page[p] # P!None
    <3>1. page[p].vram = <<>>
      BY <1>1, <1>3, <2>1, HomeIsFirst
    <3>2. P!Attach(p, b)
      BY <1>2, <2>1
    <3>. HIDE DEF b
    <3>. QED  BY <1>1, <1>3, <2>1, <3>1, <3>2, AttachedEntry
  <2>2. CASE page[p] = P!None
    <3>1. page' = page
      BY <1>2, <2>2
    <3>. QED  BY <1>1, <2>2, <3>1 DEF PoolShape, Entries, Home
  <2>. QED  BY <2>1, <2>2
<1>. HIDE DEF b
<1>. /\ exposed' \in [Pages -> BOOLEAN] /\ \A q \in Pages \ {p} : exposed'[q] = exposed[q]
     /\ page[p] # P!None => exposed'[p] = (exposed[p] \/ p \in outrun)
  BY <1>1, <1>2 DEF P!Exposed, PoolShape
<1>6. PoolShape' /\ Numbered'
  <2>1. /\ inflight' \in [Pages -> made \cup {P!None}]
        /\ outrun' \subseteq {q \in Pages : inflight'[q] # P!None}
    BY <1>1, <1>2, <1>4 DEF PoolShape
  <2>. QED  BY <1>1, <1>2, <1>5, <2>1 DEF PoolShape, Numbered
<1>7. Owned'
  <2>1. \A q \in Pages : q # p => Home(q)' = Home(q)
    BY <1>5
  <2>2. Home(p)' = b \/ Home(p)' = P!None
    BY <1>5
  <2>. QED  BY <1>1, <1>2, <1>3, <1>4, <2>1, <2>2 DEF Owned
<1>8. Queued'
  <2>1. ASSUME NEW i \in DOMAIN copies[1]
        PROVE  \E q \in Pages :
                 /\ inflight'[q] # P!None /\ inflight'[q] = copies'[1][i].to
                 /\ copies'[1][i].from \in {{}, {q}}
                 /\ page'[q] # P!None /\ q \notin outrun' => copies'[1][i].from = {q}
    <3>1. PICK q \in Pages :
                 /\ inflight[q] # P!None /\ inflight[q] = copies[1][i].to
                 /\ copies[1][i].from \in {{}, {q}}
                 /\ page[q] # P!None /\ q \notin outrun => copies[1][i].from = {q}
      BY <1>1, <2>1 DEF Queued
    <3>2. q # p
      BY <1>2, <2>1, <3>1 DEF b
    <3>. QED  BY <1>2, <1>4, <1>5, <3>1, <3>2
  <2>. QED  BY <1>1, <1>2, <2>1 DEF Queued
<1>9. ASSUME NEW q \in Pages PROVE Sound(q)'
  <2>1. CASE q = p
    <3>1. SUFFICES ASSUME page'[p] # P!None, ~exposed'[p] PROVE Sound(p)'
      BY <1>2, <2>1 DEF Sound
    <3>2. page[p] # P!None /\ ~exposed[p] /\ p \notin outrun
      BY <1>5, <3>1
    <3>3. holds[b.id] = 1
      <4>1. ~Awaited(p)
        BY <1>2 DEF Awaited, b
      <4>. QED  BY <1>3, <3>1, <3>2, <4>1 DEF PoolInv, Sound, b
    <3>4. <<b>>[1] = b /\ DOMAIN <<b>> = {1} /\ <<b>> # <<>>
      OBVIOUS
    <3>5. P!Current(p)'
      <4>1. page'[p].vram = <<b>> /\ holds'[b.id] = 1
        BY <1>2, <1>5, <3>2, <3>3
      <4>. QED  BY ONLY <3>4, <4>1 DEF P!Current, P!Stale
    <3>. QED  BY <1>2, <1>4, <1>5, <3>2, <3>3, <3>4, <3>5 DEF Sound
  <2>2. CASE q # p
    <3>1. Awaited(q)' = Awaited(q)
      BY <1>2, <1>4, <2>2 DEF Awaited
    <3>. QED  BY <1>2, <1>4, <1>5, <2>2, <3>1, OthersStaySound
  <2>. QED  BY <2>1, <2>2
<1>. QED  BY <1>5, <1>6, <1>7, <1>8, <1>9 DEF PoolInv

\* access: the page is where it should be, or it is copied up, or nothing happens
\* but that a block may be taken and lost.
LEMMA AccessDone ==
  ASSUME Gpus = 1, PoolInv, NEW p \in Pages, NEW g \in P!Shard, NEW ok, P!Access(p, g, ok)
  PROVE  PoolInv'
<1>1. g = 1 /\ UNCHANGED copies /\ outrun' = outrun \ {p}
  BY TheShard DEF P!Access
<1>2. CASE P!Prefetched(p, g)
  BY <1>1, <1>2, ClaimDone DEF P!Access, P!Prefetched
<1>3. CASE ~P!Prefetched(p, g)
  <2>1. P!AccessNow(p, 1, ok)
    BY <1>1, <1>3 DEF P!Access
  <2>2. inflight[p] = P!None
    <3>1. \A b \in made : b.gpu = 1
      BY TheShard DEF PoolInv, Numbered, Block
    <3>. QED  BY <1>1, <1>3, <3>1 DEF P!Prefetched, PoolInv, Owned
  <2>3. inflight' = inflight /\ outrun' = outrun
    BY <1>1, <2>1, <2>2 DEF P!AccessNow, PoolInv, PoolShape
  <2>4. \/ cache' = cache /\ P!Fails
        \/ page[p] # P!None /\ P!AccessHot(p, 1, cache, ok)
        \/ page[p] # P!None /\ P!AccessWarm(p, 1, cache, ok)
        \/ page[p] # P!None /\ P!AccessCold(p, 1, cache, ok)
    BY <2>1, <2>2 DEF P!AccessNow, P!Live
  <2>5. CASE cache' = cache /\ P!Fails
    BY <1>1, <2>3, <2>5, PoolStays DEF P!Fails
  <2>. SUFFICES ASSUME page[p] # P!None,
                       \/ P!AccessHot(p, 1, cache, ok)
                       \/ P!AccessWarm(p, 1, cache, ok)
                       \/ P!AccessCold(p, 1, cache, ok)
                PROVE  PoolInv'
    BY <2>4, <2>5
  <2>6. /\ page[p] \in Entry /\ PoolShape /\ Entries
        /\ page[p].tier # "Vram" => page[p].vram = <<>>
        /\ page[p].tier = "Ssd" => page[p].dram = <<>>
        /\ page[p].vram # <<>> => DOMAIN page[p].vram = {1} /\ page[p].vram[1] \in Block
        /\ page[p].dram # <<>> => DOMAIN page[p].dram = {1}
    BY HomeIsFirst DEF PoolInv, Entries
  <2>7. page[p].size \in Nat /\ P!ShardSize(page[p].size, 1) \in Nat
    BY <2>6, TheShard DEF Entry
  <2>8. CASE P!AccessHot(p, 1, cache, ok)
    <3>. DEFINE mine == {i \in DOMAIN page[p].vram : page[p].vram[i].gpu = 1}
                peers == {i \in DOMAIN page[p].vram : page[p].vram[i].gpu # 1}
    <3>1. peers = {}
      <4>1. \A b \in Block : b.gpu = 1
        BY TheShard DEF Block
      <4>2. page[p].vram = <<>> => DOMAIN page[p].vram = {}
        OBVIOUS
      <4>. QED  BY <2>6, <4>1, <4>2
    <3>2. (peers # {}) \/ (cache' = cache /\ P!Fails)
      BY <2>8 DEF P!AccessHot
    <3>. QED  BY <2>5, <3>1, <3>2
  <2>9. CASE P!AccessWarm(p, 1, cache, ok)
    <3>. DEFINE size == P!ShardSize(page[p].size, 1)
    <3>1. page[p].tier = "Dram" /\ page[p].vram = <<>>
      BY <2>6, <2>9 DEF P!AccessWarm
    <3>2. SUFFICES ASSUME ~(cache' = cache /\ P!Fails) PROVE PoolInv'
      BY <2>5
    <3>3. 1 \in DOMAIN page[p].dram
      BY <2>9, <3>2 DEF P!AccessWarm
    <3>4. PICK b \in P!Handed(cache, 1, size) :
            \/ /\ P!Take(b, cache) /\ P!Fill(b, P!Stale)
               /\ UNCHANGED <<page, exposed>>
            \/ \E queued \in BOOLEAN :
               /\ P!Take(b, cache) /\ P!Attach(p, b) /\ P!Exposed(p, ~queued)
               /\ P!Fill(b, IF queued THEN page[p].dram[1] ELSE P!Stale)
      BY <2>9, <3>2, <3>3 DEF P!AccessWarm
    <3>5. ~exposed[p] => page[p].dram[1] = 1 /\ page[p].dram[1] # P!Stale
      <4>1. ~exposed[p] => P!Current(p)
        BY DEF PoolInv, Sound
      <4>. QED  BY <3>1, <3>3, <4>1, TheShard DEF P!Current
    <3>. HIDE DEF size
    <3>6. size \in Nat
      BY <2>7 DEF size
    <3>7. CASE P!Take(b, cache) /\ P!Fill(b, P!Stale) /\ UNCHANGED <<page, exposed>>
      <4>1. made' = made \cup {b} /\ cache' \subseteq cache \cup {b}
        BY <3>7 DEF P!Take
      <4>. QED  BY <1>1, <2>3, <3>6, <3>7, <4>1, TakeDone
    <3>8. ASSUME NEW queued \in BOOLEAN,
                 P!Take(b, cache), P!Attach(p, b), P!Exposed(p, ~queued),
                 P!Fill(b, IF queued THEN page[p].dram[1] ELSE P!Stale)
          PROVE  PoolInv'
      <4>1. PICK what : what = IF queued THEN page[p].dram[1] ELSE P!Stale
        OBVIOUS
      <4>2. PICK why \in BOOLEAN : why = ~queued
        OBVIOUS
      <4>3. ~exposed[p] /\ ~why => what # P!Stale /\ (page[p].dram # <<>> => what = 1)
        BY <3>5, <4>1, <4>2
      <4>4. P!Fill(b, what) /\ P!Exposed(p, why)
        BY <3>8, <4>1, <4>2
      <4>. QED  BY <1>1, <2>2, <2>3, <3>1, <3>6, <3>8, <4>3, <4>4, AttachDone
    <3>. QED  BY <3>4, <3>7, <3>8
  <2>10. CASE P!AccessCold(p, 1, cache, ok)
    <3>. DEFINE size == page[p].size
    <3>1. page[p].tier = "Ssd" /\ page[p].vram = <<>> /\ page[p].dram = <<>>
      BY <2>6, <2>10 DEF P!AccessCold
    <3>2. SUFFICES ASSUME ~(cache' = cache /\ P!Fails) PROVE PoolInv'
      BY <2>5
    <3>3. PICK b \in P!Handed(cache, 1, size) :
            \/ /\ cache' = cache \cup {b} /\ made' = made \cup {b} /\ P!Fill(b, P!Stale)
               /\ UNCHANGED <<page, exposed>>
            \/ /\ P!Take(b, cache) /\ P!Fill(b, page[p].spill) /\ P!Attach(p, b)
               /\ UNCHANGED exposed
      BY <2>10, <3>2 DEF P!AccessCold
    <3>4. ~exposed[p] => page[p].spill # P!Stale
      <4>1. ~exposed[p] => P!Current(p)
        BY DEF PoolInv, Sound
      <4>. QED  BY <3>1, <4>1, TheShard DEF P!Current
    <3>. HIDE DEF size
    <3>5. size \in Nat
      BY <2>7 DEF size
    <3>6. CASE cache' = cache \cup {b} /\ made' = made \cup {b} /\ P!Fill(b, P!Stale)
               /\ UNCHANGED <<page, exposed>>
      BY <1>1, <2>3, <3>5, <3>6, TakeDone
    <3>7. CASE P!Take(b, cache) /\ P!Fill(b, page[p].spill) /\ P!Attach(p, b) /\ UNCHANGED exposed
      <4>1. PICK what : what = page[p].spill
        OBVIOUS
      <4>2. P!Exposed(p, FALSE)
        <5>1. exposed \in [Pages -> BOOLEAN]
          BY <2>6 DEF PoolShape
        <5>. QED  BY <3>7, <5>1 DEF P!Exposed
      <4>3. ~exposed[p] => what # P!Stale /\ (page[p].dram # <<>> => what = 1)
        BY <3>1, <3>4, <4>1
      <4>4. P!Fill(b, what)
        BY <3>7, <4>1
      <4>. QED  BY <1>1, <2>2, <2>3, <3>1, <3>5, <3>7, <4>2, <4>3, <4>4, AttachDone
    <3>. QED  BY <3>3, <3>6, <3>7
  <2>. QED  BY <2>8, <2>9, <2>10
<1>. QED  BY <1>2, <1>3

-----------------------------------------------------------------------------
\* What forgetting the page p does to the queued copies.
LEMMA DetachedCopies ==
  ASSUME Gpus = 1, PoolShape, NEW p \in Pages, copies' = P!Detached(p)
  PROVE  /\ copies' \in [P!Shard -> Seq(Order)]
         /\ DOMAIN copies'[1] = DOMAIN copies[1]
         /\ \A i \in DOMAIN copies[1] :
              /\ copies'[1][i].to = copies[1][i].to
              /\ copies'[1][i].from = IF copies[1][i].from = {p} THEN {} ELSE copies[1][i].from
<1>. DEFINE New(i) == IF copies[1][i].from = {p} THEN [copies[1][i] EXCEPT !.from = {}]
                      ELSE copies[1][i]
<1>1. P!Shard = {1} /\ copies[1] \in Seq(Order)
  BY TheShard DEF PoolShape
<1>2. copies' = [g \in P!Shard |-> [i \in DOMAIN copies[1] |-> New(i)]]
  BY <1>1 DEF P!Detached
<1>3. copies'[1] = [i \in DOMAIN copies[1] |-> New(i)]
  BY <1>1, <1>2
<1>4. DOMAIN copies[1] = 1..Len(copies[1]) /\ Len(copies[1]) \in Nat
      /\ \A i \in DOMAIN copies[1] : copies[1][i] \in Order
  BY <1>1, LenProperties, ElementOfSeq
<1>5. \A i \in DOMAIN copies[1] :
        /\ New(i) \in Order /\ New(i).to = copies[1][i].to
        /\ New(i).from = IF copies[1][i].from = {p} THEN {} ELSE copies[1][i].from
  BY <1>4 DEF Order
<1>. HIDE DEF New
<1>6. [i \in DOMAIN copies[1] |-> New(i)] \in Seq(Order)
  <2>1. [i \in DOMAIN copies[1] |-> New(i)] \in [1..Len(copies[1]) -> Order]
    BY <1>4, <1>5
  <2>. QED  BY <1>4, <2>1, SeqDef
<1>. QED  BY <1>2, <1>3, <1>5, <1>6

\* A page is made under the name p, whatever that was.
LEMMA BornDone ==
  ASSUME Gpus = 1, PoolInv, NEW p \in Pages, NEW new \in Entry, P!Born(p, new),
         new.vram = <<>>, Len(new.dram) <= 1,
         \/ new.tier = "Ssd" /\ new.dram = <<>> /\ new.spill = P!Whole
         \/ new.tier # "Ssd" /\ \A i \in DOMAIN new.dram : new.dram[i] = i
  PROVE  PoolInv'
<1>1. PoolShape /\ Entries /\ Owned /\ Queued /\ Numbered
  BY DEF PoolInv
<1>2. /\ page' = [page EXCEPT ![p] = new]
      /\ exposed' = [exposed EXCEPT ![p] = FALSE]
      /\ outrun' = IF inflight[p] = P!None THEN outrun ELSE outrun \cup {p}
      /\ UNCHANGED <<made, cache, holds, inflight>>
  BY DEF P!Born, P!Outrun
<1>3. /\ copies' \in [P!Shard -> Seq(Order)]
      /\ DOMAIN copies'[1] = DOMAIN copies[1]
      /\ \A i \in DOMAIN copies[1] :
           /\ copies'[1][i].to = copies[1][i].to
           /\ copies'[1][i].from = IF copies[1][i].from = {p} THEN {} ELSE copies[1][i].from
  BY <1>1, DetachedCopies DEF P!Born
<1>4. /\ page' \in [Pages -> Entry \cup {P!None}] /\ exposed' \in [Pages -> BOOLEAN]
      /\ page'[p] = new /\ exposed'[p] = FALSE
      /\ outrun \subseteq outrun' /\ (inflight[p] # P!None => p \in outrun')
      /\ outrun' \subseteq {q \in Pages : inflight[q] # P!None}
      /\ \A q \in Pages \ {p} : page'[q] = page[q] /\ exposed'[q] = exposed[q]
  BY <1>1, <1>2 DEF PoolShape
<1>5. PoolShape' /\ Numbered'
  BY <1>1, <1>2, <1>3, <1>4 DEF PoolShape, Numbered
<1>6. Entries'
  <2>. SUFFICES ASSUME NEW q \in Pages, page'[q] # P!None
                PROVE  /\ Len(page'[q].vram) <= 1 /\ Len(page'[q].dram) <= 1
                       /\ page'[q].vram # <<>> => page'[q].tier = "Vram"
                       /\ page'[q].tier = "Ssd" => page'[q].dram = <<>>
    BY DEF Entries
  <2>1. Len(<<>>) = 0
    OBVIOUS
  <2>2. CASE q = p
    BY <1>4, <2>1, <2>2
  <2>3. CASE q # p
    BY <1>1, <1>4, <2>3 DEF Entries
  <2>. QED  BY <2>2, <2>3
<1>7. Home(p)' = P!None /\ \A q \in Pages \ {p} : Home(q)' = Home(q)
  BY <1>4 DEF Home
<1>8. Owned'
  BY <1>1, <1>2, <1>7 DEF Owned
<1>9. Queued'
  <2>1. ASSUME NEW i \in DOMAIN copies'[1]
        PROVE  \E q \in Pages :
                 /\ inflight'[q] # P!None /\ inflight'[q] = copies'[1][i].to
                 /\ copies'[1][i].from \in {{}, {q}}
                 /\ page'[q] # P!None /\ q \notin outrun' => copies'[1][i].from = {q}
    <3>1. PICK q \in Pages :
                 /\ inflight[q] # P!None /\ inflight[q] = copies[1][i].to
                 /\ copies[1][i].from \in {{}, {q}}
                 /\ page[q] # P!None /\ q \notin outrun => copies[1][i].from = {q}
      BY <1>1, <1>3, <2>1 DEF Queued
    <3>2. q # p => {q} # {p}
      OBVIOUS
    <3>3. copies'[1][i].to = copies[1][i].to
          /\ copies'[1][i].from = IF copies[1][i].from = {p} THEN {} ELSE copies[1][i].from
      BY <1>3, <2>1
    <3>4. CASE q = p
      BY <1>2, <1>4, <3>1, <3>3, <3>4
    <3>5. CASE q # p
      BY <1>2, <1>4, <3>1, <3>2, <3>3, <3>5
    <3>. QED  BY <3>4, <3>5
  <2>2. \A i, j \in DOMAIN copies'[1] : copies'[1][i].to = copies'[1][j].to => i = j
    BY <1>1, <1>3 DEF Queued
  <2>. QED  BY <2>1, <2>2 DEF Queued
<1>10. ASSUME NEW q \in Pages PROVE Sound(q)'
  <2>1. Awaited(q)' = Awaited(q)
    BY <1>2, <1>3 DEF Awaited
  <2>2. CASE q = p
    <3>1. DOMAIN <<>> = {}
      OBVIOUS
    <3>2. P!Current(p)'
      BY <1>4 DEF P!Current
    <3>. QED  BY <1>2, <1>4, <2>2, <3>2 DEF Sound
  <2>3. CASE q # p
    BY <1>2, <1>4, <1>7, <2>1, <2>3, OthersStaySound
  <2>. QED  BY <2>2, <2>3
<1>. QED  BY <1>5, <1>6, <1>8, <1>9, <1>10 DEF PoolInv

\* allocate: in the file, in DRAM, or nowhere yet.
LEMMA AllocateDone ==
  ASSUME Gpus = 1, PoolInv, NEW p \in Pages, NEW size \in Nat, P!Allocate(p, size)
  PROVE  PoolInv'
<1>0. <<>> \in Seq(Block) /\ <<>> \in Seq(0..2) /\ Len(<<>>) = 0 /\ DOMAIN <<>> = {}
  OBVIOUS
<1>1. CASE P!AllocateCold(p, size)
  <2>1. PICK new : /\ P!Born(p, new)
                   /\ \/ new = [P!Empty("Ssd", size) EXCEPT !.spill = P!Whole]
                      \/ new = P!Empty("Vram", size)
    BY <1>1 DEF P!AllocateCold
  <2>2. /\ new \in Entry /\ new.vram = <<>> /\ new.dram = <<>>
        /\ \/ new.tier = "Ssd" /\ new.spill = P!Whole
           \/ new.tier = "Vram"
    <3>1. CASE new = [P!Empty("Ssd", size) EXCEPT !.spill = P!Whole]
      <4>1. new = [tier |-> "Ssd", size |-> size, vram |-> <<>>, dram |-> <<>>, spill |-> P!Whole]
        BY <3>1 DEF P!Empty
      <4>. QED  BY <1>0, <4>1 DEF Entry
    <3>2. CASE new = P!Empty("Vram", size)
      BY <1>0, <3>2 DEF P!Empty, Entry
    <3>. QED  BY <2>1, <3>1, <3>2
  <2>3. \A i \in DOMAIN new.dram : new.dram[i] = i
    BY <1>0, <2>2
  <2>4. Len(new.dram) <= 1
    BY <1>0, <2>2
  <2>5. new.tier = "Vram" => new.tier # "Ssd"
    OBVIOUS
  <2>. QED  BY ONLY Gpus = 1, PoolInv, p \in Pages, <2>1, <2>2, <2>3, <2>4, <2>5, BornDone
<1>2. ASSUME NEW tier \in {"Vram", "Dram"}, P!AllocateWarm(p, size, tier) PROVE PoolInv'
  <2>1. PICK n \in 0..1 : P!Born(p, [P!Empty(tier, size) EXCEPT !.dram = [i \in 1..n |-> i]])
    BY <1>2 DEF P!AllocateWarm
  <2>. DEFINE d == [i \in 1..n |-> i]
  <2>2. d \in [1..n -> 0..2] /\ n \in Nat
    BY <2>1
  <2>3. d \in Seq(0..2) /\ Len(d) = n /\ \A i \in DOMAIN d : d[i] = i
    BY <2>2, SeqDef
  <2>. HIDE DEF d
  <2>4. PICK new : new = [P!Empty(tier, size) EXCEPT !.dram = d]
    OBVIOUS
  <2>5. new \in Entry /\ new.vram = <<>> /\ new.dram = d /\ new.tier = tier
    BY <1>0, <2>3, <2>4 DEF P!Empty, Entry
  <2>6. P!Born(p, new)
    BY <2>1, <2>4 DEF d
  <2>. QED  BY <2>1, <2>3, <2>5, <2>6, BornDone
<1>. QED  BY <1>1, <1>2 DEF P!Allocate

\* deallocate: the block is cached, a copy still queued is nobody's.
LEMMA DeallocateDone ==
  ASSUME Gpus = 1, PoolInv, NEW p \in Pages, P!Deallocate(p)
  PROVE  PoolInv'
<1>1. PoolShape /\ Entries /\ Owned /\ Queued /\ Numbered
  BY DEF PoolInv
<1>2. /\ page[p] # P!None /\ page' = [page EXCEPT ![p] = P!None]
      /\ exposed' = [exposed EXCEPT ![p] = FALSE]
      /\ UNCHANGED <<made, holds, inflight, outrun>>
  BY DEF P!Deallocate, P!Live
<1>3. /\ copies' \in [P!Shard -> Seq(Order)]
      /\ DOMAIN copies'[1] = DOMAIN copies[1]
      /\ \A i \in DOMAIN copies[1] :
           /\ copies'[1][i].to = copies[1][i].to
           /\ copies'[1][i].from = IF copies[1][i].from = {p} THEN {} ELSE copies[1][i].from
  BY <1>1, DetachedCopies DEF P!Deallocate
<1>4. /\ page' \in [Pages -> Entry \cup {P!None}] /\ exposed' \in [Pages -> BOOLEAN]
      /\ page'[p] = P!None
      /\ \A q \in Pages \ {p} : page'[q] = page[q] /\ exposed'[q] = exposed[q]
  BY <1>1, <1>2 DEF PoolShape
<1>5. cache' = cache \cup IF Home(p) = P!None THEN {} ELSE {Home(p)}
  <2>1. cache' = cache \cup {page[p].vram[i] : i \in DOMAIN page[p].vram}
    BY DEF P!Deallocate
  <2>2. DOMAIN <<>> = {}
    OBVIOUS
  <2>3. /\ page[p].vram = <<>> => Home(p) = P!None
        /\ page[p].vram # <<>> => /\ DOMAIN page[p].vram = {1}
                                  /\ Home(p) = page[p].vram[1] /\ Home(p) # P!None
    BY <1>1, <1>2, HomeIsFirst
  <2>4. CASE page[p].vram = <<>>
    BY <2>1, <2>2, <2>3, <2>4
  <2>5. CASE page[p].vram # <<>>
    BY <2>1, <2>3, <2>5
  <2>. QED  BY <2>4, <2>5
<1>6. PoolShape' /\ Numbered' /\ Entries'
  <2>1. cache' \subseteq made
    BY <1>1, <1>5 DEF PoolShape, Owned
  <2>. QED  BY <1>1, <1>2, <1>3, <1>4, <2>1 DEF PoolShape, Numbered, Entries
<1>7. Home(p)' = P!None /\ \A q \in Pages \ {p} : Home(q)' = Home(q)
  BY <1>4 DEF Home
<1>8. Owned'
  BY <1>1, <1>2, <1>5, <1>7 DEF Owned
<1>9. Queued'
  <2>1. ASSUME NEW i \in DOMAIN copies'[1]
        PROVE  \E q \in Pages :
                 /\ inflight'[q] # P!None /\ inflight'[q] = copies'[1][i].to
                 /\ copies'[1][i].from \in {{}, {q}}
                 /\ page'[q] # P!None /\ q \notin outrun' => copies'[1][i].from = {q}
    <3>1. PICK q \in Pages :
                 /\ inflight[q] # P!None /\ inflight[q] = copies[1][i].to
                 /\ copies[1][i].from \in {{}, {q}}
                 /\ page[q] # P!None /\ q \notin outrun => copies[1][i].from = {q}
      BY <1>1, <1>3, <2>1 DEF Queued
    <3>2. q # p => {q} # {p}
      OBVIOUS
    <3>3. copies'[1][i].to = copies[1][i].to
          /\ copies'[1][i].from = IF copies[1][i].from = {p} THEN {} ELSE copies[1][i].from
      BY <1>3, <2>1
    <3>4. CASE q = p
      BY <1>2, <1>4, <3>1, <3>3, <3>4
    <3>5. CASE q # p
      BY <1>2, <1>4, <3>1, <3>2, <3>3, <3>5
    <3>. QED  BY <3>4, <3>5
  <2>2. \A i, j \in DOMAIN copies'[1] : copies'[1][i].to = copies'[1][j].to => i = j
    BY <1>1, <1>3 DEF Queued
  <2>. QED  BY <2>1, <2>2 DEF Queued
<1>10. ASSUME NEW q \in Pages PROVE Sound(q)'
  <2>1. Awaited(q)' = Awaited(q)
    BY <1>2, <1>3 DEF Awaited
  <2>2. CASE q = p
    BY <1>4, <2>2 DEF Sound
  <2>3. CASE q # p
    BY <1>2, <1>4, <1>7, <2>1, <2>3, OthersStaySound
  <2>. QED  BY <2>2, <2>3
<1>. QED  BY <1>6, <1>8, <1>9, <1>10 DEF PoolInv

-----------------------------------------------------------------------------
\* prefetch: a block is handed out, the copy queued.
LEMMA PrefetchDone ==
  ASSUME Gpus = 1, PoolInv, NEW p \in Pages, NEW g \in P!Shard, P!Prefetch(p, g)
  PROVE  PoolInv'
<1>1. PoolShape /\ Entries /\ Owned /\ Queued /\ Numbered
  BY DEF PoolInv
<1>2. g = 1 /\ P!Shard = {1}
  BY TheShard
<1>3. /\ inflight[p] = P!None /\ page[p] # P!None /\ page[p].tier = "Dram" /\ page[p].dram # <<>>
      /\ UNCHANGED <<page, outrun, exposed>>
  BY DEF P!Prefetch, P!Live
<1>4. page[p] \in Entry /\ page[p].size \in Nat
  BY <1>1, <1>3, HomeIsFirst DEF Entry
<1>5. PICK b \in P!Handed(cache, 1, page[p].size) :
        /\ P!Take(b, cache) /\ P!Fill(b, P!Stale)
        /\ inflight' = [inflight EXCEPT ![p] = b]
        /\ copies' = [copies EXCEPT ![1] = Append(@, [to |-> b, from |-> {p}])]
  BY <1>2 DEF P!Prefetch
<1>6. /\ b \in Block /\ b # P!None
      /\ \A q \in Pages : Home(q) # b /\ inflight[q] # b
  BY <1>4, <1>5, HandedBlock
<1>7. cache' = cache \ {b} /\ made' = made \cup {b}
  BY <1>5 DEF P!Take
<1>8. /\ Numbered' /\ \A c \in made \ {b} : holds'[c.id] = holds[c.id]
  BY <1>4, <1>5, <1>7, TakenBlock
<1>9. inflight'[p] = b /\ \A q \in Pages \ {p} : inflight'[q] = inflight[q]
  BY <1>1, <1>5 DEF PoolShape
<1>10. PICK o \in Order : o = [to |-> b, from |-> {p}]
  BY <1>6 DEF Order
<1>11. /\ copies' \in [P!Shard -> Seq(Order)]
       /\ DOMAIN copies'[1] = DOMAIN copies[1] \cup {Len(copies[1]) + 1}
       /\ Len(copies[1]) + 1 \notin DOMAIN copies[1]
       /\ copies'[1][Len(copies[1]) + 1] = o
       /\ \A i \in DOMAIN copies[1] : copies'[1][i] = copies[1][i]
  <2>1. copies \in [P!Shard -> Seq(Order)] /\ copies[1] \in Seq(Order)
    BY <1>1, <1>2 DEF PoolShape
  <2>2. copies' = [copies EXCEPT ![1] = Append(copies[1], o)]
    BY <1>5, <1>10
  <2>3. copies'[1] = Append(copies[1], o)
    BY <1>2, <2>1, <2>2
  <2>4. /\ Append(copies[1], o) \in Seq(Order)
        /\ Len(Append(copies[1], o)) = Len(copies[1]) + 1
        /\ Append(copies[1], o)[Len(copies[1]) + 1] = o
        /\ \A i \in 1..Len(copies[1]) : Append(copies[1], o)[i] = copies[1][i]
        /\ Len(copies[1]) \in Nat /\ DOMAIN copies[1] = 1..Len(copies[1])
        /\ DOMAIN Append(copies[1], o) = 1..(Len(copies[1]) + 1)
    BY <2>1, AppendProperties, LenProperties
  <2>5. 1..(Len(copies[1]) + 1) = 1..Len(copies[1]) \cup {Len(copies[1]) + 1}
        /\ Len(copies[1]) + 1 \notin 1..Len(copies[1])
    BY <2>4
  <2>. QED  BY <2>1, <2>2, <2>3, <2>4, <2>5
<1>12. PICK n : n = Len(copies[1]) + 1
  OBVIOUS
<1>13. PoolShape' /\ Entries'
  <2>1. outrun' \subseteq {q \in Pages : inflight'[q] # P!None}
    BY <1>1, <1>3, <1>6, <1>9 DEF PoolShape
  <2>. QED  BY <1>1, <1>3, <1>5, <1>7, <1>11, <2>1 DEF PoolShape, Entries
<1>14. \A q \in Pages : Home(q)' = Home(q)
  BY <1>3 DEF Home
<1>15. Home(p) = P!None
  BY <1>1, <1>3, HomeIsFirst DEF Entries
<1>16. Owned'
  BY <1>1, <1>6, <1>7, <1>9, <1>14, <1>15 DEF Owned
<1>17. Queued'
  <2>1. ASSUME NEW i \in DOMAIN copies'[1]
        PROVE  \E q \in Pages :
                 /\ inflight'[q] # P!None /\ inflight'[q] = copies'[1][i].to
                 /\ copies'[1][i].from \in {{}, {q}}
                 /\ page'[q] # P!None /\ q \notin outrun' => copies'[1][i].from = {q}
    <3>1. CASE i = n
      <4>1. copies'[1][i].to = b /\ copies'[1][i].from = {p}
        BY <1>10, <1>11, <1>12, <3>1
      <4>. QED  BY <1>6, <1>9, <4>1
    <3>2. CASE i # n
      <4>1. i \in DOMAIN copies[1] /\ copies'[1][i] = copies[1][i]
        BY <1>11, <1>12, <2>1, <3>2
      <4>2. PICK q \in Pages :
                 /\ inflight[q] # P!None /\ inflight[q] = copies[1][i].to
                 /\ copies[1][i].from \in {{}, {q}}
                 /\ page[q] # P!None /\ q \notin outrun => copies[1][i].from = {q}
        BY <1>1, <4>1 DEF Queued
      <4>3. q # p
        BY <1>3, <4>2
      <4>. QED  BY <1>3, <1>9, <4>1, <4>2, <4>3
    <3>. QED  BY <3>1, <3>2
  <2>2. \A i \in DOMAIN copies[1] : copies[1][i].to # b
    BY <1>1, <1>6 DEF Queued
  <2>3. ASSUME NEW i \in DOMAIN copies'[1], NEW j \in DOMAIN copies'[1],
               copies'[1][i].to = copies'[1][j].to
        PROVE  i = j
    <3>1. o.to = b
      BY <1>10
    <3>2. i = n \/ (i \in DOMAIN copies[1] /\ copies'[1][i] = copies[1][i])
      BY <1>11, <1>12
    <3>3. j = n \/ (j \in DOMAIN copies[1] /\ copies'[1][j] = copies[1][j])
      BY <1>11, <1>12
    <3>4. copies'[1][n] = o
      BY <1>11, <1>12
    <3>5. \A k, l \in DOMAIN copies[1] : copies[1][k].to = copies[1][l].to => k = l
      BY <1>1 DEF Queued
    <3>. QED  BY ONLY <2>2, <2>3, <3>1, <3>2, <3>3, <3>4, <3>5
  <2>. QED  BY <2>1, <2>3 DEF Queued
<1>18. ASSUME NEW q \in Pages PROVE Sound(q)'
  <2>1. CASE q = p
    <3>1. Awaited(p)'
      <4>1. n \in DOMAIN copies'[1] /\ copies'[1][n].to = b
        BY <1>10, <1>11, <1>12
      <4>. QED  BY <1>9, <4>1 DEF Awaited
    <3>2. page[p].vram = <<>>
      BY <1>1, <1>3 DEF Entries
    <3>3. ~exposed[p] => P!Current(p)
      BY <1>3 DEF PoolInv, Sound
    <3>4. ~exposed[p] => P!Current(p)'
      BY <1>3, <3>2, <3>3 DEF P!Current
    <3>. QED  BY <1>3, <2>1, <3>1, <3>2, <3>4 DEF Sound
  <2>2. CASE q # p
    <3>1. Home(q) # P!None => Home(q) \in made \ {b}
      BY <1>1, <1>6 DEF Owned
    <3>2. inflight[q] # P!None => inflight[q] \in made \ {b}
      BY <1>1, <1>6 DEF Owned
    <3>3. Awaited(q) => Awaited(q)'
      BY <1>9, <1>11, <2>2 DEF Awaited
    <3>. QED  BY <1>3, <1>8, <1>9, <1>14, <2>2, <3>1, <3>2, <3>3, OthersStaySound
  <2>. QED  BY <2>1, <2>2
<1>. QED  BY <1>8, <1>13, <1>16, <1>17, <1>18 DEF PoolInv

\* A copy lands: in a prefetch that has been waiting for it.
LEMMA LandDone ==
  ASSUME Gpus = 1, PoolInv, NEW g \in P!Shard, P!Land(g)
  PROVE  PoolInv'
<1>1. PoolShape /\ Entries /\ Owned /\ Queued /\ Numbered
  BY DEF PoolInv
<1>2. g = 1 /\ P!Shard = {1} /\ copies[1] \in Seq(Order) /\ copies[1] # <<>>
  BY <1>1, TheShard DEF P!Land, PoolShape
<1>. DEFINE n == Len(copies[1])
<1>3. /\ Head(copies[1]) = copies[1][1] /\ n \in Nat \ {0} /\ DOMAIN copies[1] = 1..n
      /\ Tail(copies[1]) \in Seq(Order) /\ Len(Tail(copies[1])) = n - 1
      /\ DOMAIN Tail(copies[1]) = 1..(n - 1)
      /\ \A i \in 1..(n - 1) : Tail(copies[1])[i] = copies[1][i + 1]
  <2>1. Len(copies[1]) \in Nat /\ DOMAIN copies[1] = 1..Len(copies[1])
    BY <1>2, LenProperties
  <2>2. Len(copies[1]) # 0
    BY <1>2, EmptySeq
  <2>3. /\ Head(copies[1]) = copies[1][1]
        /\ Tail(copies[1]) \in Seq(Order) /\ Len(Tail(copies[1])) = Len(copies[1]) - 1
        /\ \A i \in 1..Len(Tail(copies[1])) : Tail(copies[1])[i] = copies[1][i + 1]
    BY <1>2, HeadTailProperties
  <2>4. DOMAIN Tail(copies[1]) = 1..Len(Tail(copies[1]))
    BY <2>3, LenProperties
  <2>. QED  BY <2>1, <2>2, <2>3, <2>4
<1>4. PICK c : c = copies[1][1]
  OBVIOUS
<1>. HIDE DEF n
<1>5. 1 \in DOMAIN copies[1]
  BY <1>3
<1>6. PICK p \in Pages :
        /\ inflight[p] # P!None /\ inflight[p] = c.to
        /\ c.from \in {{}, {p}}
        /\ page[p] # P!None /\ p \notin outrun => c.from = {p}
  BY <1>1, <1>4, <1>5 DEF Queued
<1>7. c.to \in made /\ c.to.id \in DOMAIN holds
  BY <1>1, <1>6 DEF Owned, Numbered
<1>8. PICK what :
        /\ P!Fill(c.to, what)
        /\ page[p] # P!None /\ c.from = {p} => what = page[p].dram[1]
  <2>. DEFINE kept == {q \in c.from : c.to = inflight[q] \/ c.to.id \in P!OnDevice(q)}
              what == IF kept = {} \/ Gpus > 1 THEN P!Stale
                      ELSE page[CHOOSE q \in kept : TRUE].dram[1]
  <2>1. P!Fill(c.to, what)
    BY <1>2, <1>3, <1>4 DEF P!Land
  <2>2. c.from = {p} => kept = {p}
    BY <1>6
  <2>3. c.from = {p} => what = page[p].dram[1]
    <3>1. (CHOOSE q \in {p} : TRUE) = p
      OBVIOUS
    <3>. QED  BY <2>2, <3>1
  <2>. QED  BY <2>1, <2>3
<1>9. holds'[c.to.id] = what /\ \A b \in made \ {c.to} : holds'[b.id] = holds[b.id]
  <2>1. \A b \in made \ {c.to} : b.id # c.to.id /\ b.id \in DOMAIN holds
    BY <1>1, <1>7 DEF Numbered
  <2>2. holds' = [i \in DOMAIN holds \cup {c.to.id} |-> IF i = c.to.id THEN what ELSE holds[i]]
    BY <1>8 DEF P!Fill
  <2>. QED  BY <1>7, <2>1, <2>2
<1>10. UNCHANGED <<page, made, cache, inflight, outrun, exposed>>
  BY DEF P!Land
<1>11. /\ copies' \in [P!Shard -> Seq(Order)] /\ copies'[1] = Tail(copies[1])
  BY <1>1, <1>2, <1>3 DEF P!Land, PoolShape
<1>12. Numbered' /\ PoolShape' /\ Entries'
  <2>1. DOMAIN holds \subseteq DOMAIN holds'
    BY <1>8 DEF P!Fill
  <2>. QED  BY <1>1, <1>10, <1>11, <2>1 DEF Numbered, PoolShape, Entries
<1>13. \A q \in Pages : Home(q)' = Home(q)
  BY <1>10 DEF Home
<1>14. Owned'
  BY <1>1, <1>10, <1>13 DEF Owned
<1>15. \A i \in DOMAIN copies'[1] : i + 1 \in DOMAIN copies[1] /\ copies'[1][i] = copies[1][i + 1]
       /\ i \in Nat
  BY <1>3, <1>11
<1>16. Queued'
  <2>1. ASSUME NEW i \in DOMAIN copies'[1]
        PROVE  \E q \in Pages :
                 /\ inflight'[q] # P!None /\ inflight'[q] = copies'[1][i].to
                 /\ copies'[1][i].from \in {{}, {q}}
                 /\ page'[q] # P!None /\ q \notin outrun' => copies'[1][i].from = {q}
    BY <1>1, <1>10, <1>15, <2>1 DEF Queued
  <2>2. ASSUME NEW i \in DOMAIN copies'[1], NEW j \in DOMAIN copies'[1],
               copies'[1][i].to = copies'[1][j].to
        PROVE  i = j
    <3>1. i + 1 = j + 1
      BY <1>1, <1>15, <2>2 DEF Queued
    <3>. QED  BY <1>15, <3>1
  <2>. QED  BY <2>1, <2>2 DEF Queued
<1>17. ASSUME NEW q \in Pages PROVE Sound(q)'
  <2>1. Home(q) # P!None => Home(q) \in made \ {c.to}
    BY <1>1, <1>6 DEF Owned
  <2>2. CASE q = p
    <3>1. SUFFICES ASSUME page[p] # P!None, ~exposed[p] PROVE Sound(p)'
      BY <1>10, <2>2 DEF Sound
    <3>2. P!Current(p) /\ page[p].vram = <<>>
      <4>1. Home(p) = P!None
        BY <1>1, <1>6 DEF Owned
      <4>. QED  BY <1>1, <3>1, <4>1, HomeIsFirst DEF PoolInv, Sound
    <3>3. P!Current(p)'
      BY <1>10, <3>2 DEF P!Current
    <3>4. p \notin outrun => page[p].tier = "Dram" /\ page[p].dram # <<>> /\ what = 1
      <4>. SUFFICES ASSUME p \notin outrun
                    PROVE  page[p].tier = "Dram" /\ page[p].dram # <<>> /\ what = 1
        OBVIOUS
      <4>1. page[p].tier = "Dram" /\ page[p].dram # <<>>
        BY <1>6, <3>1 DEF PoolInv, Sound
      <4>2. 1 \in DOMAIN page[p].dram
        BY <1>1, <3>1, <4>1, HomeIsFirst
      <4>3. page[p].dram[1] = 1
        BY <3>2, <4>1, <4>2 DEF P!Current
      <4>. QED  BY <1>6, <1>8, <3>1, <4>1, <4>3
    <3>. QED  BY <1>6, <1>9, <1>10, <3>2, <3>3, <3>4 DEF Sound
  <2>3. CASE q # p
    <3>1. inflight[q] # P!None => inflight[q] # c.to /\ inflight[q] \in made
      BY <1>1, <1>6, <2>3 DEF Owned
    <3>2. Awaited(q) /\ inflight[q] # P!None => Awaited(q)'
      <4>. SUFFICES ASSUME NEW i \in DOMAIN copies[1], copies[1][i].to = inflight[q],
                           inflight[q] # P!None
                    PROVE  Awaited(q)'
        BY DEF Awaited
      <4>1. i # 1
        BY <1>4, <3>1
      <4>2. i - 1 \in DOMAIN copies'[1] /\ copies'[1][i - 1] = copies[1][i]
        <5>1. i \in 1..n /\ i - 1 \in 1..(n - 1) /\ (i - 1) + 1 = i
          BY <1>3, <4>1
        <5>. QED  BY <1>3, <1>11, <5>1
      <4>. QED  BY <1>10, <4>2 DEF Awaited
    <3>3. Sound(q)
      BY DEF PoolInv
    <3>4. inflight[q] = P!None => Sound(q)'
      <4>1. SUFFICES ASSUME inflight[q] = P!None, page[q] # P!None, ~exposed[q] PROVE Sound(q)'
        BY <1>10 DEF Sound
      <4>2. page[q].vram # <<>> => /\ DOMAIN page[q].vram = {1}
                                   /\ holds'[page[q].vram[1].id] = holds[page[q].vram[1].id]
        BY <1>1, <1>9, <2>1, <4>1, HomeIsFirst
      <4>3. P!Current(q)'
        BY <1>10, <3>3, <4>1, <4>2 DEF Sound, P!Current
      <4>. QED  BY <1>10, <3>3, <4>1, <4>2, <4>3 DEF Sound
    <3>5. inflight[q] # P!None => Sound(q)'
      BY <1>9, <1>10, <1>13, <2>1, <3>1, <3>2, OthersStaySound
    <3>. QED  BY <3>4, <3>5
  <2>. QED  BY <2>2, <2>3
<1>. QED  BY <1>12, <1>14, <1>16, <1>17 DEF PoolInv

-----------------------------------------------------------------------------
\* demote: the one block is written back and cached, or nothing happens.
LEMMA DemoteDone ==
  ASSUME Gpus = 1, PoolInv, NEW p \in Pages, NEW ok \in BOOLEAN, P!Demote(p, ok)
  PROVE  PoolInv'
<1>1. PoolShape /\ Entries /\ Owned /\ Queued /\ Numbered
  BY DEF PoolInv
<1>2. UNCHANGED <<made, holds, inflight, copies, outrun, exposed>>
  BY DEF P!Demote
<1>3. CASE UNCHANGED <<page, cache>>
  BY <1>2, <1>3, PoolStays
<1>. DEFINE chunk == page[p].vram
            bad == {i \in DOMAIN chunk : LET g == chunk[i].gpu IN
                      \/ g \notin DOMAIN page[p].dram
                      \/ chunk[i].size > P!ShardSize(page[p].size, g)
                      \/ ring[g] = RingCap}
            done == IF bad = {} THEN DOMAIN chunk ELSE 1..(P!Min(bad) - 1)
<1>4. SUFFICES ASSUME /\ page[p] # P!None /\ page[p].tier = "Vram"
                      /\ ok = (bad = {})
                      /\ page' = [page EXCEPT ![p].dram = P!WrittenBack(p, done),
                                              ![p].vram = IF ok THEN <<>> ELSE @,
                                              ![p].tier = IF ok THEN "Dram" ELSE @]
                      /\ cache' = cache \cup {chunk[i] : i \in done}
               PROVE  PoolInv'
  BY <1>3 DEF P!Demote, P!Live
<1>5. page[p] \in Entry /\ page \in [Pages -> Entry \cup {P!None}]
      /\ \/ chunk = <<>> /\ DOMAIN chunk = {} /\ Home(p) = P!None
         \/ /\ chunk # <<>> /\ DOMAIN chunk = {1}
            /\ Home(p) = chunk[1] /\ Home(p) \in Block /\ Home(p) # P!None
  <2>1. DOMAIN <<>> = {}
    OBVIOUS
  <2>. QED  BY <1>1, <1>4, <2>1, HomeIsFirst DEF PoolShape
<1>6. \/ page[p].dram = <<>> /\ DOMAIN page[p].dram = {}
      \/ page[p].dram # <<>> /\ DOMAIN page[p].dram = {1} /\ page[p].dram[1] \in 0..2
  <2>1. DOMAIN <<>> = {}
    OBVIOUS
  <2>2. page[p].dram \in Seq(0..2) /\ Len(page[p].dram) <= 1
    BY <1>1, <1>4, <1>5 DEF Entry, Entries
  <2>. QED  BY <2>1, <2>2, OneLong
<1>7. PICK d : d = P!WrittenBack(p, done)
  OBVIOUS
<1>8. CASE ~ok
  <2>1. bad = {1}
    BY <1>4, <1>5, <1>8
  <2>2. done = {}
    <3>1. \A m : m = P!Min({1}) => m = 1
      BY DEF P!Min
    <3>2. P!Min(bad) = 1
      BY <2>1, <3>1
    <3>3. 1..(1 - 1) = {}
      OBVIOUS
    <3>. QED  BY <2>1, <3>2, <3>3
  <2>3. d = page[p].dram
    <3>1. \A g : P!From(p, g, {}) = {}
      BY DEF P!From
    <3>2. d = [g \in DOMAIN page[p].dram |-> page[p].dram[g]]
      BY <1>7, <2>2, <3>1 DEF P!WrittenBack
    <3>3. \A s \in Seq(0..2) : s = [g \in DOMAIN s |-> s[g]]
      OBVIOUS
    <3>. QED  BY <1>5, <3>2, <3>3 DEF Entry
  <2>4. page' = page
    <3>. HIDE DEF chunk, bad, done
    <3>1. page' = [page EXCEPT ![p].dram = page[p].dram, ![p].vram = page[p].vram,
                               ![p].tier = page[p].tier]
      BY <1>4, <1>7, <1>8, <2>3
    <3>. QED  BY <1>5, <3>1 DEF Entry
  <2>. QED  BY <1>3, <1>4, <2>2, <2>4
<1>9. CASE ok
  <2>1. bad = {} /\ done = DOMAIN chunk
    BY <1>4, <1>9
  <2>2. /\ d \in Seq(0..2) /\ Len(d) <= 1 /\ DOMAIN d = DOMAIN page[p].dram
        /\ ~exposed[p] => \A i \in DOMAIN d : d[i] = i
    <3>1. d = [g \in DOMAIN page[p].dram |->
                 IF P!From(p, g, done) = {} THEN page[p].dram[g]
                 ELSE IF holds[page[p].vram[P!Max(P!From(p, g, done))].id] = g THEN g ELSE P!Stale]
      BY <1>7 DEF P!WrittenBack
    <3>2. \A g \in {1} : P!From(p, g, done) \in {{}, {1}}
      BY <1>5, <2>1 DEF P!From
    <3>3. \A g \in {1} : P!From(p, g, done) # {} => P!Max(P!From(p, g, done)) = 1
                                                  /\ page[p].vram # <<>>
      <4>1. \A m : m = P!Max({1}) => m = 1
        BY DEF P!Max
      <4>. QED  BY <1>5, <2>1, <3>2, <4>1 DEF P!From
    <3>4. CASE page[p].dram = <<>>
      <4>1. d = <<>>
        <5>1. d = [g \in {} |-> 0]
          BY <1>6, <3>1, <3>4
        <5>2. <<>> = [g \in {} |-> 0]
          BY EmptySeq, SeqDef
        <5>. QED  BY <5>1, <5>2
      <4>2. <<>> \in Seq(0..2) /\ Len(<<>>) = 0 /\ DOMAIN <<>> = {}
        OBVIOUS
      <4>. QED  BY <3>4, <4>1, <4>2
    <3>5. CASE page[p].dram # <<>>
      <4>. DEFINE x == IF P!From(p, 1, done) = {} THEN page[p].dram[1]
                       ELSE IF holds[page[p].vram[1].id] = 1 THEN 1 ELSE P!Stale
      <4>1. x \in 0..2
        BY <1>6, <3>5 DEF P!Stale
      <4>2. d = [g \in 1..1 |-> x]
        <5>1. DOMAIN page[p].dram = 1..1
          BY <1>6, <3>5
        <5>2. \A g \in {1} : (IF P!From(p, g, done) = {} THEN page[p].dram[g]
                 ELSE IF holds[page[p].vram[P!Max(P!From(p, g,
                 done))].id] = g THEN g ELSE P!Stale) = x
          BY <3>3
        <5>3. 1..1 = {1}
          OBVIOUS
        <5>. HIDE DEF x
        <5>. QED  BY <3>1, <5>1, <5>2, <5>3
      <4>3. ~exposed[p] => x = 1
        <5>1. ~exposed[p] => Sound(p) /\ P!Current(p)
          BY <1>4 DEF PoolInv, Sound
        <5>2. CASE page[p].vram = <<>>
          <6>1. P!From(p, 1, done) = {}
            BY <1>5, <2>1, <5>2 DEF P!From
          <6>2. ~exposed[p] => page[p].dram[1] = 1
            BY <1>4, <1>6, <3>5, <5>1, <5>2 DEF P!Current
          <6>. QED  BY <6>1, <6>2
        <5>3. CASE page[p].vram # <<>>
          <6>1. ~exposed[p] => holds[page[p].vram[1].id] = 1
            BY <1>4, <3>5, <5>1, <5>3 DEF Sound
          <6>2. P!From(p, 1, done) = {1}
            <7>1. chunk[1].gpu = 1
              BY <1>5, <5>3, TheShard DEF Block
            <7>. QED  BY <1>5, <2>1, <5>3, <7>1 DEF P!From
          <6>. QED  BY <6>1, <6>2
        <5>. QED  BY <5>2, <5>3
      <4>. HIDE DEF x
      <4>4. d \in Seq(0..2) /\ Len(d) = 1
        <5>1. d \in [1..1 -> 0..2]
          BY <4>1, <4>2
        <5>2. d \in Seq(0..2)
          BY <5>1, SeqDef
        <5>3. Len(d) = 1
          BY <5>2, <4>2, LenProperties
        <5>. QED  BY <5>2, <5>3
      <4>5. DOMAIN page[p].dram = 1..1
        BY <1>6, <3>5
      <4>. QED  BY <4>2, <4>3, <4>4, <4>5
    <3>. QED  BY <3>4, <3>5
  <2>3. PICK e : e = [[[page[p] EXCEPT !.dram = d] EXCEPT !.vram = <<>>] EXCEPT !.tier = "Dram"]
    OBVIOUS
  <2>4. page' = [page EXCEPT ![p] = e]
    <3>. HIDE DEF chunk, bad, done
    <3>1. page' = [page EXCEPT ![p].dram = d, ![p].vram = <<>>, ![p].tier = "Dram"]
      BY <1>4, <1>7, <1>9
    <3>. QED  BY <1>5, <2>3, <3>1
  <2>5. <<>> \in Seq(Block) /\ Len(<<>>) = 0
    OBVIOUS
  <2>6. e \in Entry /\ e.tier = "Dram" /\ e.vram = <<>> /\ e.dram = d
    <3>1. e.tier = "Dram" /\ e.vram = <<>> /\ e.dram = d /\ e.size = page[p].size
          /\ e.spill = page[p].spill
          /\ e = [tier |-> "Dram", size |-> page[p].size, vram |-> <<>>, dram |-> d,
                  spill |-> page[p].spill]
      BY <1>5, <2>3 DEF Entry
    <3>2. page[p].size \in Nat /\ page[p].spill \in {P!Stale, P!Whole}
      BY <1>5 DEF Entry
    <3>3. d \in Seq(0..2)
      BY <2>2
    <3>4. e \in Entry
      BY ONLY <2>5, <3>1, <3>2, <3>3 DEF Entry
    <3>. QED  BY <3>1, <3>4
  <2>7. cache' = cache \cup IF Home(p) = P!None THEN {} ELSE {Home(p)}
    <3>1. cache' = cache \cup {chunk[i] : i \in DOMAIN chunk}
      BY <1>4, <2>1
    <3>2. {chunk[i] : i \in {}} = {} /\ {chunk[i] : i \in {1}} = {chunk[1]}
      OBVIOUS
    <3>. HIDE DEF chunk, bad, done
    <3>. QED  BY <1>5, <3>1, <3>2
  <2>. HIDE DEF chunk, bad, done
  <2>8. page'[p] = e /\ \A q \in Pages \ {p} : page'[q] = page[q]
    BY <1>5, <2>4
  <2>9. PoolShape' /\ Numbered'
    <3>1. cache' \subseteq made
      BY <1>1, <2>7 DEF PoolShape, Owned
    <3>2. page' \in [Pages -> Entry \cup {P!None}]
      BY <1>5, <2>4, <2>6
    <3>. QED  BY <1>1, <1>2, <3>1, <3>2 DEF PoolShape, Numbered
  <2>10. Entries'
    <3>. SUFFICES ASSUME NEW q \in Pages, page'[q] # P!None
                  PROVE  /\ Len(page'[q].vram) <= 1 /\ Len(page'[q].dram) <= 1
                         /\ page'[q].vram # <<>> => page'[q].tier = "Vram"
                         /\ page'[q].tier = "Ssd" => page'[q].dram = <<>>
      BY DEF Entries
    <3>1. CASE q = p
      <4>1. /\ page'[q].vram = <<>> /\ page'[q].dram = d /\ page'[q].tier = "Dram"
            /\ Len(d) <= 1
        BY <2>2, <2>6, <2>8, <3>1
      <4>. QED  BY ONLY <2>5, <4>1
    <3>2. CASE q # p
      BY <1>1, <2>8, <3>2 DEF Entries
    <3>. QED  BY <3>1, <3>2
  <2>11. Home(p)' = P!None /\ \A q \in Pages \ {p} : Home(q)' = Home(q)
    BY <2>6, <2>8 DEF Home
  <2>12. Owned'
    BY <1>1, <1>2, <2>7, <2>11 DEF Owned
  <2>13. \A q \in Pages : page[q] = P!None <=> page'[q] = P!None
    BY <1>4, <2>6, <2>8, NoneIsNoBlock
  <2>14. Queued'
    BY <1>1, <1>2, <2>13 DEF Queued
  <2>15. ASSUME NEW q \in Pages PROVE Sound(q)'
    <3>1. Awaited(q)' = Awaited(q)
      BY <1>2 DEF Awaited
    <3>2. CASE q = p
      <4>1. SUFFICES ASSUME ~exposed[p] PROVE Sound(p)'
        BY <1>2, <3>2 DEF Sound
      <4>2. inflight[p] = P!None \/ p \in outrun
        BY <1>4, <4>1 DEF PoolInv, Sound
      <4>3. \A i \in DOMAIN d : d[i] = i
        BY <2>2, <4>1
      <4>4. P!Current(p)'
        BY <2>6, <2>8, <4>3 DEF P!Current
      <4>. QED  BY <1>2, <2>6, <2>8, <4>2, <4>4 DEF Sound
    <3>3. CASE q # p
      BY <1>2, <2>8, <2>11, <3>1, <3>3, OthersStaySound
    <3>. QED  BY <3>2, <3>3
  <2>. QED  BY <2>9, <2>10, <2>12, <2>14, <2>15 DEF PoolInv
<1>. QED  BY <1>8, <1>9

-----------------------------------------------------------------------------
\* New contents for the copies of p leave blocks and prefetches where they are.
LEMMA EditedEntry ==
  ASSUME Gpus = 1, PoolInv, NEW p \in Pages, page[p] # P!None, NEW e \in Entry,
         page' = [page EXCEPT ![p] = e], DOMAIN holds' = DOMAIN holds,
         e.tier = page[p].tier, e.vram = page[p].vram, DOMAIN e.dram = DOMAIN page[p].dram,
         UNCHANGED <<made, cache, inflight, copies>>,
         exposed' \in [Pages -> BOOLEAN],
         outrun' = outrun \/ (outrun' = outrun \cup {p} /\ inflight[p] # P!None)
  PROVE  /\ Numbered' /\ PoolShape' /\ Entries' /\ Owned' /\ Queued'
         /\ page'[p] = e /\ \A q \in Pages \ {p} : page'[q] = page[q]
         /\ \A q \in Pages : Home(q)' = Home(q) /\ Awaited(q)' = Awaited(q)
<1>1. PoolShape /\ Entries /\ Owned /\ Queued /\ Numbered
  BY DEF PoolInv
<1>2. page'[p] = e /\ (\A q \in Pages \ {p} : page'[q] = page[q]) /\ e # P!None
      /\ page' \in [Pages -> Entry \cup {P!None}]
  BY <1>1, NoneIsNoBlock DEF PoolShape
<1>3. \A q \in Pages : Home(q)' = Home(q)
  BY <1>2 DEF Home
<1>4. \A q \in Pages : Awaited(q)' = Awaited(q)
  BY DEF Awaited
<1>5. Len(e.dram) = Len(page[p].dram)
  <2>1. page[p] \in Entry
    BY <1>1 DEF PoolShape
  <2>2. e.dram \in Seq(0..2) /\ page[p].dram \in Seq(0..2)
    BY <2>1 DEF Entry
  <2>3. /\ Len(e.dram) \in Nat /\ DOMAIN e.dram = 1..Len(e.dram)
        /\ Len(page[p].dram) \in Nat /\ DOMAIN page[p].dram = 1..Len(page[p].dram)
    BY <2>2, LenProperties
  <2>4. \A m, n \in Nat : 1..m = 1..n => m = n
    <3>. SUFFICES ASSUME NEW m \in Nat, NEW n \in Nat, 1..m = 1..n, m # n PROVE FALSE
      OBVIOUS
    <3>1. CASE m > n
      <4>1. m \in 1..m /\ m \notin 1..n
        BY <3>1
      <4>. QED  BY <4>1
    <3>2. CASE n > m
      <4>1. n \in 1..n /\ n \notin 1..m
        BY <3>2
      <4>. QED  BY <4>1
    <3>. QED  BY <3>1, <3>2
  <2>. QED  BY <2>3, <2>4
<1>6. Entries'
  <2>. SUFFICES ASSUME NEW q \in Pages, page'[q] # P!None
                PROVE  /\ Len(page'[q].vram) <= 1 /\ Len(page'[q].dram) <= 1
                       /\ page'[q].vram # <<>> => page'[q].tier = "Vram"
                       /\ page'[q].tier = "Ssd" => page'[q].dram = <<>>
    BY DEF Entries
  <2>1. CASE q = p
    <3>1. /\ Len(page[p].vram) <= 1 /\ Len(page[p].dram) <= 1
          /\ page[p].vram # <<>> => page[p].tier = "Vram"
          /\ page[p].tier = "Ssd" => page[p].dram = <<>>
      BY <1>1 DEF Entries
    <3>2. page[p].dram = <<>> => e.dram = <<>>
      <4>1. Len(<<>>) = 0
        OBVIOUS
      <4>2. e.dram \in Seq(0..2)
        BY DEF Entry
      <4>. QED  BY <1>5, <4>1, <4>2, EmptySeq
    <3>. QED  BY <1>2, <1>5, <2>1, <3>1, <3>2
  <2>2. CASE q # p
    BY <1>1, <1>2, <2>2 DEF Entries
  <2>. QED  BY <2>1, <2>2
<1>7. Numbered' /\ PoolShape'
  BY <1>1, <1>2 DEF Numbered, PoolShape
<1>8. Owned'
  BY <1>1, <1>3 DEF Owned
<1>9. Queued'
  <2>1. \A q \in Pages : page'[q] # P!None /\ q \notin outrun' => page[q] # P!None /\ q \notin outrun
    BY <1>2
  <2>. QED  BY <1>1, <2>1 DEF Queued
<1>. QED  BY <1>2, <1>3, <1>4, <1>6, <1>7, <1>8, <1>9

\* write_page: the copies below are new, and what is above them is exposed, what was
\* read ahead of them outrun.
LEMMA WriteDone ==
  ASSUME Gpus = 1, PoolInv, NEW p \in Pages, P!Write(p)
  PROVE  PoolInv'
<1>1. PoolShape /\ Entries /\ Owned /\ Queued /\ Numbered
  BY DEF PoolInv
<1>2. page[p] # P!None /\ page[p] \in Entry /\ page \in [Pages -> Entry \cup {P!None}]
      /\ UNCHANGED <<made, cache, inflight, copies>>
  BY <1>1 DEF P!Write, P!Live, PoolShape
<1>3. CASE page[p].tier = "Ssd"
  <2>1. page' = [page EXCEPT ![p].spill = P!Whole] /\ UNCHANGED <<holds, outrun, exposed>>
    BY <1>3 DEF P!Write
  <2>2. PICK e : e = [page[p] EXCEPT !.spill = P!Whole]
    OBVIOUS
  <2>3. /\ page' = [page EXCEPT ![p] = e] /\ e \in Entry /\ e.spill = P!Whole
        /\ e.tier = page[p].tier /\ e.vram = page[p].vram /\ e.dram = page[p].dram
    BY <1>2, <2>1, <2>2 DEF Entry
  <2>4. exposed' \in [Pages -> BOOLEAN]
    BY <1>1, <2>1 DEF PoolShape
  <2>5. /\ Numbered' /\ PoolShape' /\ Entries' /\ Owned' /\ Queued'
        /\ page'[p] = e /\ \A q \in Pages \ {p} : page'[q] = page[q]
        /\ \A q \in Pages : Home(q)' = Home(q) /\ Awaited(q)' = Awaited(q)
    BY <1>2, <2>1, <2>3, <2>4, EditedEntry
  <2>6. ASSUME NEW q \in Pages PROVE Sound(q)'
    <3>1. CASE q = p
      <4>1. page[p].vram = <<>>
        BY <1>1, <1>2, <1>3 DEF Entries
      <4>2. P!Current(p)'
        BY <1>3, <2>3, <2>5, <4>1 DEF P!Current
      <4>3. ~exposed[p] => inflight[p] = P!None \/ p \in outrun
        BY <1>2, <1>3 DEF PoolInv, Sound
      <4>. QED  BY <1>2, <2>1, <2>3, <2>5, <3>1, <4>1, <4>2, <4>3 DEF Sound
    <3>2. CASE q # p
      BY <1>2, <2>1, <2>5, <3>2, OthersStaySound
    <3>. QED  BY <3>1, <3>2
  <2>. QED  BY <2>5, <2>6 DEF PoolInv
<1>4. CASE page[p].tier # "Ssd"
  <2>. DEFINE ahead == IF inflight[p] = P!None THEN {} ELSE {inflight[p].id}
              d == [i \in DOMAIN page[p].dram |-> i]
  <2>1. /\ page' = [page EXCEPT ![p].dram = d]
        /\ holds' = [i \in DOMAIN holds |-> IF i \in P!OnDevice(p)
           \cup ahead THEN P!Stale ELSE holds[i]]
        /\ exposed' = [exposed EXCEPT ![p] = page[p].vram # <<>>]
        /\ outrun' = IF inflight[p] = P!None THEN outrun ELSE outrun \cup {p}
    BY <1>4 DEF P!Write, P!Outrun
  <2>2. d \in Seq(0..2) /\ DOMAIN d = DOMAIN page[p].dram /\ \A i \in DOMAIN d : d[i] = i
    <3>1. page[p].dram \in Seq(0..2) /\ Len(page[p].dram) <= 1
      BY <1>1, <1>2 DEF Entry, Entries
    <3>2. Len(page[p].dram) \in Nat /\ DOMAIN page[p].dram = 1..Len(page[p].dram)
      BY <3>1, LenProperties
    <3>3. PICK n \in Nat : n <= 1 /\ DOMAIN page[p].dram = 1..n
      BY <3>1, <3>2
    <3>4. d = [i \in 1..n |-> i]
      BY <3>3
    <3>5. [i \in 1..n |-> i] \in [1..n -> 0..2]
      BY <3>3
    <3>. HIDE DEF d
    <3>6. d \in Seq(0..2)
      BY <3>3, <3>4, <3>5, SeqDef
    <3>. QED  BY <3>3, <3>4, <3>6
  <2>. HIDE DEF d
  <2>3. PICK e : e = [page[p] EXCEPT !.dram = d]
    OBVIOUS
  <2>4. /\ page' = [page EXCEPT ![p] = e] /\ e \in Entry /\ e.dram = d
        /\ e.tier = page[p].tier /\ e.vram = page[p].vram
    BY <1>2, <2>1, <2>2, <2>3 DEF Entry
  <2>5. /\ exposed' \in [Pages -> BOOLEAN]
        /\ exposed'[p] = (page[p].vram # <<>>)
        /\ \A q \in Pages \ {p} : exposed'[q] = exposed[q]
    BY <1>1, <2>1 DEF PoolShape
  <2>6. outrun' = outrun \/ (outrun' = outrun \cup {p} /\ inflight[p] # P!None)
    BY <2>1
  <2>7. /\ Numbered' /\ PoolShape' /\ Entries' /\ Owned' /\ Queued'
        /\ page'[p] = e /\ \A q \in Pages \ {p} : page'[q] = page[q]
        /\ \A q \in Pages : Home(q)' = Home(q) /\ Awaited(q)' = Awaited(q)
    <3>1. DOMAIN holds' = DOMAIN holds
      BY <2>1
    <3>. QED  BY <1>2, <2>2, <2>4, <2>5, <2>6, <3>1, EditedEntry
  <2>8. ASSUME NEW q \in Pages PROVE Sound(q)'
    <3>1. CASE q = p
      <4>1. SUFFICES ASSUME ~exposed'[p] PROVE Sound(p)'
        BY <3>1 DEF Sound
      <4>2. page[p].vram = <<>> /\ (inflight'[p] = P!None \/ p \in outrun')
        BY <1>2, <2>1, <2>5, <4>1
      <4>3. P!Current(p)'
        BY <1>4, <2>2, <2>4, <2>7, <4>2 DEF P!Current
      <4>. QED  BY <2>4, <2>7, <4>2, <4>3 DEF Sound
    <3>2. CASE q # p
      <4>1. P!OnDevice(p) = IF Home(p) = P!None THEN {} ELSE {Home(p).id}
        <5>1. DOMAIN <<>> = {}
          OBVIOUS
        <5>2. /\ page[p].vram = <<>> => Home(p) = P!None
              /\ page[p].vram # <<>> => /\ DOMAIN page[p].vram = {1}
                                        /\ Home(p) = page[p].vram[1] /\ Home(p) # P!None
          BY <1>1, <1>2, HomeIsFirst
        <5>. QED  BY <5>1, <5>2 DEF P!OnDevice
      <4>2. \A b \in made : b # Home(p) /\ b # inflight[p] => holds'[b.id] = holds[b.id]
        <5>. SUFFICES ASSUME NEW b \in made, b # Home(p), b # inflight[p]
                      PROVE  holds'[b.id] = holds[b.id]
          OBVIOUS
        <5>1. b.id \in DOMAIN holds
          BY <1>1 DEF Numbered
        <5>2. Home(p) # P!None => Home(p).id # b.id
          BY <1>1 DEF Numbered, Owned
        <5>3. inflight[p] # P!None => inflight[p].id # b.id
          BY <1>1 DEF Numbered, Owned
        <5>4. b.id \notin P!OnDevice(p) \cup ahead
          BY <4>1, <5>2, <5>3
        <5>. HIDE DEF ahead
        <5>. QED  BY <2>1, <5>1, <5>4
      <4>3. Home(q) # P!None => Home(q) \in made /\ Home(q) # Home(p) /\ Home(q) # inflight[p]
        BY <1>1, <3>2 DEF Owned
      <4>4. inflight[q] # P!None => inflight[q] \in made /\ inflight[q] # Home(p)
                                  /\ inflight[q] # inflight[p]
        BY <1>1, <3>2 DEF Owned
      <4>. QED  BY <1>2, <2>5, <2>6, <2>7, <3>2, <4>2, <4>3, <4>4, OthersStaySound
    <3>. QED  BY <3>1, <3>2
  <2>. QED  BY <2>7, <2>8 DEF PoolInv
<1>. QED  BY <1>3, <1>4

\* A kernel rewrites the block: the copies below it are old.
LEMMA ComputeDone ==
  ASSUME Gpus = 1, PoolInv, NEW p \in Pages, P!Compute(p)
  PROVE  PoolInv'
<1>1. PoolShape /\ Entries /\ Owned /\ Queued /\ Numbered
  BY DEF PoolInv
<1>2. page[p] # P!None /\ page[p] \in Entry /\ page \in [Pages -> Entry \cup {P!None}]
      /\ UNCHANGED <<made, cache, inflight, copies, outrun, exposed>>
  BY <1>1 DEF P!Compute, P!Live, PoolShape
<1>3. PICK j \in DOMAIN page[p].vram :
       LET mine == page[p].vram[j].id
           what == holds[mine]
       IN  /\ what # P!Stale
           /\ holds' = [k \in DOMAIN holds |->
                          IF k \in P!OnDevice(p) \ {mine}
                          /\ holds[k] = what THEN P!Stale ELSE holds[k]]
           /\ page' = [page EXCEPT ![p].dram = [k \in DOMAIN @ |-> IF k = what THEN P!Stale ELSE @[k]],
                                   ![p].spill = IF what = P!Whole THEN P!Stale ELSE @]
  BY DEF P!Compute
<1>4. page[p].vram # <<>> /\ DOMAIN page[p].vram = {1} /\ j = 1
  <2>1. DOMAIN <<>> = {}
    OBVIOUS
  <2>. QED  BY <1>1, <1>2, <1>3, <2>1, HomeIsFirst
<1>5. PICK what : what = holds[page[p].vram[1].id]
  OBVIOUS
<1>. DEFINE d == [k \in DOMAIN page[p].dram |-> IF k = what THEN P!Stale ELSE page[p].dram[k]]
<1>6. page' = [page EXCEPT ![p].dram = d,
                           ![p].spill = IF what = P!Whole THEN P!Stale ELSE page[p].spill]
  BY <1>2, <1>3, <1>4, <1>5
<1>7. d \in Seq(0..2) /\ DOMAIN d = DOMAIN page[p].dram
  <2>1. page[p].dram \in Seq(0..2)
    BY <1>2 DEF Entry
  <2>2. PICK n \in Nat : DOMAIN page[p].dram = 1..n /\ \A k \in 1..n : page[p].dram[k] \in 0..2
    BY <2>1, LenProperties, ElementOfSeq
  <2>3. d \in [1..n -> 0..2]
    BY <2>2 DEF P!Stale
  <2>. QED  BY <2>2, <2>3, SeqDef
<1>. HIDE DEF d
<1>8. PICK e : e = [[page[p] EXCEPT !.dram = d]
                       EXCEPT !.spill = IF what = P!Whole THEN P!Stale ELSE page[p].spill]
  OBVIOUS
<1>9. /\ page' = [page EXCEPT ![p] = e] /\ e \in Entry /\ e.dram = d
      /\ e.tier = page[p].tier /\ e.vram = page[p].vram
  BY <1>2, <1>6, <1>7, <1>8 DEF Entry
<1>10. DOMAIN holds' = DOMAIN holds /\ \A k \in DOMAIN holds : holds'[k] = holds[k]
  <2>1. P!OnDevice(p) \ {page[p].vram[1].id} = {}
    BY <1>4 DEF P!OnDevice
  <2>. QED  BY <1>3, <1>4, <2>1
<1>11. exposed' \in [Pages -> BOOLEAN]
  BY <1>1, <1>2 DEF PoolShape
<1>12. /\ Numbered' /\ PoolShape' /\ Entries' /\ Owned' /\ Queued'
       /\ page'[p] = e /\ \A q \in Pages \ {p} : page'[q] = page[q]
       /\ \A q \in Pages : Home(q)' = Home(q) /\ Awaited(q)' = Awaited(q)
  BY <1>2, <1>7, <1>9, <1>10, <1>11, EditedEntry
<1>13. \A b \in made : holds'[b.id] = holds[b.id]
  BY <1>1, <1>10 DEF Numbered
<1>14. Home(p) # P!None /\ Home(p) = page[p].vram[1]
  BY <1>1, <1>2, <1>4, HomeIsFirst
<1>15. ASSUME NEW q \in Pages PROVE Sound(q)'
  <2>1. CASE q = p
    <3>1. SUFFICES ASSUME ~exposed[p] PROVE Sound(p)'
      BY <1>2, <2>1 DEF Sound
    <3>2. inflight[p] = P!None /\ holds'[page[p].vram[1].id] = holds[page[p].vram[1].id]
      BY <1>1, <1>13, <1>14 DEF Owned
    <3>3. P!Current(p) /\ (page[p].dram # <<>> => holds[page[p].vram[1].id] = 1)
      BY <1>2, <1>4, <3>1 DEF PoolInv, Sound
    <3>4. page'[p].vram = page[p].vram
      BY <1>9, <1>12
    <3>5. P!Current(p)'
      BY <1>4, <3>2, <3>3, <3>4 DEF P!Current
    <3>6. page'[p].dram # <<>> => page[p].dram # <<>>
      <4>1. page[p].dram = <<>> => d = <<>>
        <5>1. DOMAIN <<>> = {} /\ <<>> \in Seq(0..2)
          OBVIOUS
        <5>2. DOMAIN d = {} => Len(d) = 0
          <6>1. Len(d) \in Nat /\ DOMAIN d = 1..Len(d)
            BY <1>7, LenProperties
          <6>2. Len(d) > 0 => 1 \in 1..Len(d)
            BY <6>1
          <6>. QED  BY <6>1, <6>2
        <5>. QED  BY <1>7, <5>1, <5>2, EmptySeq
      <4>. QED  BY <1>9, <1>12, <4>1
    <3>. QED  BY <1>2, <3>2, <3>3, <3>4, <3>5, <3>6 DEF Sound
  <2>2. CASE q # p
    <3>1. Home(q) # P!None => Home(q) \in made
      BY <1>1 DEF Owned
    <3>2. inflight[q] # P!None => inflight[q] \in made
      BY <1>1 DEF Owned
    <3>. QED  BY <1>2, <1>12, <1>13, <2>2, <3>1, <3>2, OthersStaySound
  <2>. QED  BY <2>1, <2>2
<1>. QED  BY <1>12, <1>15 DEF PoolInv

-----------------------------------------------------------------------------
\* A step of the pool, but for the sweep it may belong to.
PoolStep(p) ==
  \/ \E size \in Sizes : P!Allocate(p, size)
  \/ \E g \in P!Shard : P!Prefetch(p, g)
  \/ \E g \in P!Shard, ok \in BOOLEAN : P!Access(p, g, ok)
  \/ \E ok \in BOOLEAN : P!Demote(p, ok)
  \/ P!Write(p) \/ P!Compute(p) \/ P!Deallocate(p)

\* ... keeps the invariant.
LEMMA PoolStepDone ==
  ASSUME Gpus = 1, PoolInv, NEW p \in Pages, PoolStep(p)
  PROVE  PoolInv'
<1>1. ASSUME NEW size \in Sizes, P!Allocate(p, size) PROVE PoolInv'
  BY <1>1, SizesAreNumbers, AllocateDone
<1>2. ASSUME NEW g \in P!Shard, P!Prefetch(p, g) PROVE PoolInv'
  BY <1>2, PrefetchDone
<1>3. ASSUME NEW g \in P!Shard, NEW ok \in BOOLEAN, P!Access(p, g, ok) PROVE PoolInv'
  BY <1>3, AccessDone
<1>4. ASSUME NEW ok \in BOOLEAN, P!Demote(p, ok) PROVE PoolInv'
  BY <1>4, DemoteDone
<1>5. CASE P!Write(p) \/ P!Compute(p) \/ P!Deallocate(p)
  BY <1>5, WriteDone, ComputeDone, DeallocateDone
<1>. QED  BY <1>1, <1>2, <1>3, <1>4, <1>5 DEF PoolStep

\* Every step is one of these, or a copy that lands, or changes no memory.
LEMMA NextIsPoolStep ==
  ASSUME Gpus = 1, Sweeps, [P!Next]_(P!vars)
  PROVE  /\ Sweeps'
         /\ \/ \E p \in Pages : PoolStep(p)
            \/ \E g \in P!Shard : P!Land(g)
            \/ UNCHANGED <<page, made, cache, holds, inflight, copies, outrun, exposed>>
<1>. DEFINE Still == UNCHANGED <<page, made, cache, holds, inflight, copies, outrun, exposed>>
            Same == sweep' = sweep
            Steps == \E p \in Pages : PoolStep(p)
<1>1. P!Idle \in [demote : SUBSET Pages, promote : SUBSET Pages, strict : BOOLEAN]
  BY DEF P!Idle
<1>2. Same => Sweeps'
  BY DEF Sweeps
<1>3. CASE P!Call
  <2>1. \/ Same /\ (Steps \/ P!EnableMembrane)
        \/ UNCHANGED P!memory /\ (P!SweepByAge \/ P!SweepByRank)
    BY <1>3 DEF P!Call, PoolStep
  <2>2. P!EnableMembrane => Still
    BY DEF P!EnableMembrane
  <2>3. UNCHANGED P!memory => Still
    BY DEF P!memory
  <2>4. P!SweepByAge => Sweeps'
    BY DEF P!SweepByAge, Sweeps
  <2>5. P!SweepByRank => Sweeps'
    <3>. SUFFICES ASSUME P!SweepByRank PROVE Sweeps'
      OBVIOUS
    <3>. DEFINE there == {p \in Pages : P!Live(p)}
    <3>1. PICK keep : sweep' = [demote |-> there \ keep,
                                promote |-> {p \in there \cap keep : page[p].tier # "Vram"},
                                strict |-> FALSE]
      BY DEF P!SweepByRank
    <3>. QED  BY <3>1 DEF Sweeps
  <2>. HIDE DEF Still, Same, Steps
  <2>6. Sweeps' /\ (Steps \/ Still)
    BY <1>2, <2>1, <2>2, <2>3, <2>4, <2>5
  <2>. QED  BY <2>6 DEF Still, Steps
<1>4. CASE P!SweepDemotes
  <2>1. PICK p \in sweep.demote, ok \in BOOLEAN :
          P!Demote(p, ok) /\ sweep' = IF ok THEN [sweep EXCEPT !.demote = @ \ {p}] ELSE P!Idle
    BY <1>4 DEF P!SweepDemotes
  <2>2. p \in Pages /\ Sweeps'
    BY <1>1, <2>1 DEF Sweeps
  <2>. QED  BY <2>1, <2>2 DEF PoolStep
<1>5. CASE P!SweepPromotes
  <2>1. PICK p \in sweep.promote, ok \in BOOLEAN :
          /\ P!Access(p, 1, ok)
          /\ sweep' = IF ok \/ ~sweep.strict THEN [sweep EXCEPT !.promote = @ \ {p}] ELSE P!Idle
    BY <1>5 DEF P!SweepPromotes
  <2>2. p \in Pages /\ Sweeps'
    BY <1>1, <2>1 DEF Sweeps
  <2>3. 1 \in P!Shard
    BY DEF P!Shard
  <2>. QED  BY <2>1, <2>2, <2>3 DEF PoolStep
<1>6. CASE \E g \in P!Shard : P!Land(g)
  BY <1>2, <1>6 DEF P!Land
<1>7. CASE UNCHANGED P!vars
  BY <1>2, <1>7 DEF P!vars
<1>. QED  BY <1>3, <1>4, <1>5, <1>6, <1>7 DEF P!Next

\* An empty pool.
LEMMA PoolInitHolds ==
  ASSUME Gpus = 1, P!Init
  PROVE  PoolInv /\ Sweeps
<1>1. /\ page = [p \in Pages |-> P!None] /\ made = {} /\ cache = {}
      /\ inflight = [p \in Pages |-> P!None] /\ copies = [g \in P!Shard |-> <<>>]
      /\ sweep = P!Idle /\ outrun = {} /\ exposed = [p \in Pages |-> FALSE]
  BY DEF P!Init
<1>2. <<>> \in Seq(Order) /\ P!Shard = {1} /\ copies[1] = <<>> /\ DOMAIN copies[1] = {}
  BY <1>1, TheShard
<1>3. Numbered
  BY <1>1, FS_EmptySet DEF Numbered
<1>4. PoolShape /\ Entries
  BY <1>1, <1>2 DEF PoolShape, Entries
<1>5. \A p \in Pages : Home(p) = P!None /\ page[p] = P!None /\ inflight[p] = P!None
  BY <1>1 DEF Home
<1>6. Owned /\ \A p \in Pages : Sound(p)
  BY <1>5 DEF Owned, Sound
<1>7. Queued
  BY <1>2 DEF Queued
<1>8. Sweeps
  BY <1>1 DEF Sweeps, P!Idle
<1>. QED  BY <1>3, <1>4, <1>6, <1>7, <1>8 DEF PoolInv

\* For any pages, sizes and capacities, and whatever is called and swept in which
\* order: what a pool with one GPU keeps between calls and while copies are on
\* their way (tiered.rs, every operation of TieredPool).
THEOREM PoolInvariance == Gpus = 1 => (P!Spec => [](PoolInv /\ Sweeps))
<1>. SUFFICES ASSUME Gpus = 1 PROVE P!Spec => [](PoolInv /\ Sweeps)
  OBVIOUS
<1>1. P!Init => PoolInv /\ Sweeps
  BY PoolInitHolds
<1>2. PoolInv /\ Sweeps /\ [P!Next]_(P!vars) => (PoolInv /\ Sweeps)'
  <2>. SUFFICES ASSUME PoolInv, Sweeps, [P!Next]_(P!vars) PROVE PoolInv' /\ Sweeps'
    OBVIOUS
  <2>1. /\ Sweeps'
        /\ \/ \E p \in Pages : PoolStep(p)
           \/ \E g \in P!Shard : P!Land(g)
           \/ UNCHANGED <<page, made, cache, holds, inflight, copies, outrun, exposed>>
    BY NextIsPoolStep
  <2>. QED  BY <2>1, PoolStepDone, LandDone, PoolStays
<1>. QED  BY <1>1, <1>2, PTL DEF P!Spec

\* With one GPU no device block is handed out twice, whichever call fails on the
\* way and whatever becomes of a prefetch (alloc_vram_on_gpu, free_vram_on_gpu).
THEOREM OneOwnerEach == Gpus = 1 => (P!Spec => []BlocksHaveOneOwner)
<1>. SUFFICES ASSUME Gpus = 1 PROVE P!Spec => []BlocksHaveOneOwner
  OBVIOUS
<1>1. PoolInv => BlocksHaveOneOwner
  <2>. SUFFICES ASSUME PoolInv PROVE BlocksHaveOneOwner
    OBVIOUS
  <2>. SUFFICES ASSUME NEW b \in made
                PROVE  Cardinality({p \in Pages : inflight[p] = b})
                         + Cardinality(UNION {{<<p, i>> : i \in {k \in DOMAIN page[p].vram :
                                                                   page[p].vram[k] = b}} :
                                                p \in {q \in Pages : P!Live(q)}})
                         + (IF b \in cache THEN 1 ELSE 0) <= 1
    BY CountsAlike DEF BlocksHaveOneOwner, P!BlocksHaveOneOwner
  <2>. DEFINE A == {p \in Pages : inflight[p] = b}
              U == UNION {{<<p, i>> : i \in {k \in DOMAIN page[p].vram : page[p].vram[k] = b}} :
                             p \in {q \in Pages : P!Live(q)}}
  <2>1. PoolShape /\ Entries /\ Owned /\ b # P!None
    BY NoneIsNoBlock DEF PoolInv, Numbered
  <2>2. \A x \in U : \E p \in Pages : x = <<p, 1>> /\ Home(p) = b
    <3>. SUFFICES ASSUME NEW p \in Pages, page[p] # P!None, NEW k \in DOMAIN page[p].vram,
                         page[p].vram[k] = b
                  PROVE  k = 1 /\ Home(p) = b
      BY DEF P!Live
    <3>1. DOMAIN <<>> = {}
      OBVIOUS
    <3>. QED  BY <2>1, <3>1, HomeIsFirst
  <2>3. Cardinality({}) = 0 /\ \A x : Cardinality({x}) = 1
    BY FS_EmptySet, FS_Singleton
  <2>. SUFFICES Cardinality(A) + Cardinality(U) + (IF b \in cache THEN 1 ELSE 0) <= 1
    OBVIOUS
  <2>. HIDE DEF A, U
  <2>4. CASE A = {} /\ U = {}
    BY <2>3, <2>4
  <2>5. CASE U # {}
    <3>1. PICK p \in Pages : <<p, 1>> \in U /\ Home(p) = b
      BY <2>2, <2>5
    <3>2. b \notin cache /\ A = {}
      BY <2>1, <3>1 DEF Owned, A
    <3>3. U = {<<p, 1>>}
      <4>1. \A q \in Pages : Home(q) = b => q = p
        BY <2>1, <3>1 DEF Owned
      <4>. QED  BY <2>2, <3>1, <4>1
    <3>4. PICK x : x = <<p, 1>>
      OBVIOUS
    <3>5. Cardinality(U) = 1 /\ Cardinality(A) = 0
      BY <2>3, <3>2, <3>3, <3>4
    <3>. QED  BY <3>2, <3>5
  <2>6. CASE A # {} /\ U = {}
    <3>1. PICK p \in Pages : inflight[p] = b
      BY <2>6 DEF A
    <3>2. b \notin cache /\ A = {p}
      BY <2>1, <3>1 DEF Owned, A
    <3>3. Cardinality(A) = 1 /\ Cardinality(U) = 0
      BY <2>3, <2>6, <3>2
    <3>. QED  BY <3>2, <3>3
  <2>. QED  BY <2>4, <2>5, <2>6
<1>. QED  BY <1>1, PoolInvariance, PTL

\* With one GPU the copy a page's tier makes authoritative has its last bytes, but
\* for pages that were written over a device copy, that claimed a prefetch older than
\* they are, or whose copy up failed unnoticed (access, demote, claim_prefetch,
\* write_page and both sweeps).
THEOREM NothingIsOverwritten == Gpus = 1 => (P!Spec => []AuthorityIsCurrent)
<1>. SUFFICES ASSUME Gpus = 1 PROVE P!Spec => []AuthorityIsCurrent
  OBVIOUS
<1>1. PoolInv => AuthorityIsCurrent
  BY DEF PoolInv, Sound, AuthorityIsCurrent, P!AuthorityIsCurrent, P!Live
<1>. QED  BY <1>1, PoolInvariance, PTL
=============================================================================
