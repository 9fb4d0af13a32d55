--------------------------- MODULE KeyspaceProofs ---------------------------
(***************************************************************************)
(* What agent memory keeps (Memory), for any ids, threads and bounds: once *)
(* its commands are done a record is whole or gone, in the engine and in   *)
(* the mirrors, and MEM.COUNT is the number of records.  The instance is   *)
(* the one the run of MCKeyspace checks.                                   *)
(***************************************************************************)
EXTENDS MCKeyspace, FiniteSetTheorems, WellFoundedInduction, TLAPS

-----------------------------------------------------------------------------
(* The inductive invariant.  A record that no command works on is settled; one *)
(* that a command works on is where the command's next step expects it.        *)

MetaData == [of : Nat, sal : Nat, to : Nat]
EntryOf == [meta : MetaData, vec : Nat]
Blank == M!Entry(M!NoMeta, 0)
Fresh(n) == [of |-> n, sal |-> 0, to |-> 0]
Storing == {"text", "meta", "vec", "words", "count", "index"}
Forgetting == {"unwords", "unvec", "untext", "unmeta", "uncount", "unindex"}
Working == Storing \cup {"change", "reflect"} \cup Forgetting
Sweeping == {"wipe", "reset", "scan"}

\* The program of one record, of all records, and of a reload that has scanned.
OnOne == [at : Working, ids : {{id} : id \in Ids}, n : Nat \ {0}, was : MetaData]
OnAll == [at : Sweeping, ids : {Ids}, n : Nat \ {0}, was : {M!NoMeta}]
Loading == [at : {"install"}, ids : {Ids},
           scan : [index : [Ids -> EntryOf], count : Nat, next : Nat \ {0}]]

MemShape ==
  /\ text \in [Ids -> Nat] /\ vec \in [Ids -> Nat] /\ words \in [Ids -> Nat]
  /\ meta \in [Ids -> MetaData]
  /\ index \in [Ids -> EntryOf] /\ count \in Nat /\ next \in Nat \ {0}
  /\ commands \in Nat /\ loose \subseteq Ids
  /\ thread \in [Callers -> {M!Idle} \cup OnOne \cup OnAll \cup Loading]

\* No salience is newer than the last command.
Dated ==
  /\ \A id \in Ids : meta[id].sal <= commands
  /\ \A t \in Callers : thread[t].at \in Working => thread[t].was.sal <= commands

\* Nothing of the record, or all of it.
Holds(id, x, m, v, w) == text[id] = x /\ meta[id] = m /\ vec[id] = v /\ words[id] = w
Gone(id) == Holds(id, 0, M!NoMeta, 0, 0)
Kept(id) == text[id] # 0 /\ Holds(id, meta[id].of, meta[id], meta[id].of, meta[id].of)
AtRest(id) == (Gone(id) \/ (Kept(id) /\ id < next)) /\ index[id] = M!Entry(meta[id], vec[id])

\* `was` is m after command n has set its salience or the end of its validity.
After(m, was, n) == was = [m EXCEPT !.sal = n] \/ (was = [m EXCEPT !.to = n] /\ m.sal # n)

\* A record some thread's next step is about.
PlaceStore(th, id) ==
  /\ th.at \in Storing => index[id] = Blank /\ id < next
  /\ th.at = "text" => Gone(id)
  /\ th.at = "meta" => Holds(id, th.n, M!NoMeta, 0, 0)
  /\ th.at = "vec" => Holds(id, th.n, Fresh(th.n), 0, 0)
  /\ th.at = "words" => Holds(id, th.n, Fresh(th.n), th.n, 0)
  /\ th.at \in {"count", "index"} => Holds(id, th.n, Fresh(th.n), th.n, th.n)
PlaceChange(th, id) ==
  /\ th.at = "change" => AtRest(id) /\ Kept(id) /\ After(meta[id], th.was, th.n)
  /\ th.at = "reflect" => /\ Kept(id) /\ id < next /\ meta[id] = th.was
                          /\ index[id].vec = vec[id] /\ After(index[id].meta, th.was, th.n)
                          /\ index[id].meta # M!NoMeta
PlaceForget(th, id) ==
  /\ th.at = "unwords" => AtRest(id) /\ Kept(id) /\ th.was # M!NoMeta
  /\ th.at \in {"unvec", "untext", "unmeta"} /\ th.was = M!NoMeta => Gone(id) /\ index[id] = Blank
  /\ th.at \in {"unvec", "untext"} /\ th.was # M!NoMeta => text[id] # 0
  /\ th.at \in {"unvec", "untext", "unmeta"} => words[id] = 0
  /\ th.at \in {"untext", "unmeta"} => vec[id] = 0
  /\ th.at = "unmeta" => text[id] = 0
  /\ th.at \in {"uncount", "unindex"} => Gone(id)
PlaceAll(th, id) ==
  /\ th.at \in {"wipe", "scan"} => AtRest(id)
  /\ th.at = "reset" => Gone(id)
  /\ th.at = "install" => /\ AtRest(id) /\ th.scan.index[id] = index[id]
                          /\ text[id] # 0 => id < th.scan.next
Place(th, id) ==
  PlaceStore(th, id) /\ PlaceChange(th, id) /\ PlaceForget(th, id) /\ PlaceAll(th, id)

OneOwner ==
  \A id \in Ids \ loose, t, u \in Callers : id \in thread[t].ids /\ id \in thread[u].ids => t = u
Placed == \A t \in Callers, id \in Ids \ loose : id \in thread[t].ids => Place(thread[t], id)
Resting == \A id \in Ids \ loose : (\A t \in Callers : id \notin thread[t].ids) => AtRest(id)

\* MEM.COUNT moves in a step of its own: after the text was written, and after
\* it was deleted.
TextIds == {id \in Ids : text[id] # 0}
Tallied(th, x) == /\ th.at \notin {"meta", "vec", "words", "count"}
                  /\ x # 0 \/ (th.at = "unmeta" /\ th.was # M!NoMeta) \/ th.at = "uncount"
Counted == {id \in Ids : \/ \E t \in Callers : id \in thread[t].ids /\ Tallied(thread[t], text[id])
                         \/ text[id] # 0 /\ \A t \in Callers : id \notin thread[t].ids}
Counting ==
  loose = {} =>
    /\ (\A t \in Callers : thread[t].at # "reset") => count = Cardinality(Counted)
    /\ \A t \in Callers : thread[t].at = "install" => thread[t].scan.count = Cardinality(TextIds)
MemoryInv == MemShape /\ Dated /\ OneOwner /\ Placed /\ Resting /\ Counting

-----------------------------------------------------------------------------
(* The shape of a thread. *)

\* What a thread is at tells what it works on.
LEMMA AtTells ==
  ASSUME MemShape, NEW t \in Callers
  PROVE  /\ thread[t].at \in Working => thread[t] \in OnOne
         /\ thread[t].at \in Sweeping => thread[t] \in OnAll
         /\ thread[t].at = "install" => thread[t] \in Loading
         /\ thread[t].at = "idle" => thread[t] = M!Idle
         /\ thread[t].at \in {"idle", "install"} \cup Working \cup Sweeping
<1>1. thread[t] \in {M!Idle} \cup OnOne \cup OnAll \cup Loading
  BY DEF MemShape
<1>2. CASE thread[t] = M!Idle
  BY <1>2 DEF M!Idle, Working, Sweeping, Storing, Forgetting
<1>3. CASE thread[t] \in OnOne
  BY <1>3 DEF OnOne, Working, Sweeping, Storing, Forgetting
<1>4. CASE thread[t] \in OnAll
  BY <1>4 DEF OnAll, Working, Sweeping, Storing, Forgetting
<1>5. CASE thread[t] \in Loading
  BY <1>5 DEF Loading, Working, Sweeping, Storing, Forgetting
<1>. QED  BY <1>1, <1>2, <1>3, <1>4, <1>5

\* A thread that works on one record works on its IdOf.
LEMMA IdIsOwn ==
  ASSUME NEW t, thread[t] \in OnOne
  PROVE  M!IdOf(t) \in Ids /\ thread[t].ids = {M!IdOf(t)}
<1>1. PICK id \in Ids : thread[t].ids = {id}
  BY DEF OnOne
<1>. QED  BY <1>1 DEF M!IdOf

\* The next step of a thread that works on one record.
LEMMA GoesOn ==
  ASSUME MemShape, NEW t \in Callers, thread[t] \in OnOne, NEW at \in Working, M!Goto(t, at)
  PROVE  /\ thread' \in [Callers -> {M!Idle} \cup OnOne \cup OnAll \cup Loading]
         /\ thread'[t] \in OnOne /\ thread'[t].at = at /\ thread'[t].ids = thread[t].ids
         /\ thread'[t].n = thread[t].n /\ thread'[t].was = thread[t].was
         /\ \A u \in Callers \ {t} : thread'[u] = thread[u]
<1>1. at # "idle"
  BY DEF Working, Storing, Forgetting
<1>2. thread' = [thread EXCEPT ![t] = [thread[t] EXCEPT !.at = at]]
  BY <1>1 DEF M!Goto
<1>3. [thread[t] EXCEPT !.at = at] \in OnOne
  BY DEF OnOne
<1>4. thread'[t] = [thread[t] EXCEPT !.at = at]
  BY <1>2 DEF MemShape
<1>5. /\ [thread[t] EXCEPT !.at = at].at = at /\ [thread[t] EXCEPT !.at = at].ids = thread[t].ids
      /\ [thread[t] EXCEPT !.at = at].n = thread[t].n
         /\ [thread[t] EXCEPT !.at = at].was = thread[t].was
  BY DEF OnOne
<1>6. thread \in [Callers -> {M!Idle} \cup OnOne \cup OnAll \cup Loading]
  BY DEF MemShape
<1>7. /\ thread' \in [Callers -> {M!Idle} \cup OnOne \cup OnAll \cup Loading]
      /\ \A u \in Callers \ {t} : thread'[u] = thread[u]
  BY ONLY <1>2, <1>3, <1>6
<1>. QED  BY ONLY <1>3, <1>4, <1>5, <1>7

\* Its last step.
LEMMA GoesIdle ==
  ASSUME MemShape, NEW t \in Callers, M!Goto(t, "idle")
  PROVE  /\ thread' \in [Callers -> {M!Idle} \cup OnOne \cup OnAll \cup Loading]
         /\ thread'[t] = M!Idle /\ thread'[t].at = "idle" /\ thread'[t].ids = {}
         /\ \A u \in Callers \ {t} : thread'[u] = thread[u]
  BY DEF MemShape, M!Goto, M!Idle

-----------------------------------------------------------------------------
(* Numbers. *)

\* Of numbers up to N, one is the greatest.
LEMMA GreatestExists ==
  ASSUME NEW N \in Nat, NEW T, T \subseteq 1..N, T # {}
  PROVE  \E m \in T : \A n \in T : n <= m
<1>. DEFINE U == {N - n : n \in T}
<1>1. U \subseteq Nat /\ U # {}
  <2>1. \A n \in T : n \in Nat /\ N - n \in Nat
    OBVIOUS
  <2>. QED  BY <2>1
<1>2. PICK u \in U : \A w \in U : <<w, u>> \notin OpToRel(<, Nat)
  <2>. HIDE DEF U
  <2>. QED  BY <1>1, NatLessThanWellFounded, WFMin
<1>3. \A w \in U : ~(w < u)
  BY <1>1, <1>2 DEF OpToRel
<1>4. PICK m \in T : u = N - m
  OBVIOUS
<1>5. \A n \in T : ~(N - n < N - m)
  BY <1>3, <1>4
<1>. QED  BY <1>5

\* The greatest of a set of ids.
LEMMA MaxOfBounds ==
  ASSUME NEW T \in SUBSET Ids
  PROVE  M!MaxOf(T) \in Nat /\ \A i \in T : i <= M!MaxOf(T)
<1>1. Cardinality(Ids) \in Nat
  BY FS_CardinalityType, IdsAreNumbered
<1>2. CASE T = {}
  BY <1>2 DEF M!MaxOf
<1>3. CASE T # {}
  <2>1. \E m \in T : \A n \in T : n <= m
    <3>1. T \subseteq 1..Cardinality(Ids)
      BY IdsAreNumbered
    <3>. QED  BY <1>1, <1>3, <3>1, GreatestExists
  <2>2. M!MaxOf(T) \in T /\ \A i \in T : i <= M!MaxOf(T)
    BY <1>3, <2>1 DEF M!MaxOf
  <2>. QED  BY <1>1, <2>2, IdsAreNumbered
<1>. QED  BY <1>2, <1>3

\* A set of ids is finite.
LEMMA IdsFinite ==
  ASSUME NEW T \in SUBSET Ids
  PROVE  IsFiniteSet(T) /\ Cardinality(T) \in Nat
  BY FS_Subset, FS_CardinalityType, IdsAreNumbered

\* The instance counts as this module does.
LEMMA SameSize == \A T : M!Cardinality(T) = Cardinality(T)
  BY DEF M!Cardinality, Cardinality

\* An id is a number.
LEMMA IdsAreNat == Ids \subseteq Nat
<1>1. Cardinality(Ids) \in Nat
  BY FS_CardinalityType, IdsAreNumbered
<1>. QED  BY <1>1, IdsAreNumbered

-----------------------------------------------------------------------------
(* What one thread's step leaves as it was. *)

\* The invariant but for the counters, of a step of thread t: elsewhere nothing
\* moves, no other thread has its records, and its records are in place.
Same(id) == /\ text'[id] = text[id] /\ meta'[id] = meta[id] /\ vec'[id] = vec[id]
               /\ words'[id] = words[id]
            /\ index'[id] = index[id]
Acts(t) ==
  /\ \A u \in Callers \ {t} : thread'[u] = thread[u]
     /\ thread'[t].ids \cap thread[u].ids \subseteq loose'
  /\ loose \subseteq loose'
  /\ \A id \in Ids \ thread[t].ids : Same(id) /\ next <= next'

\* A record nothing touches stays what it is.
LEMMA SettledStays ==
  ASSUME MemShape, MemShape', NEW id \in Ids, Same(id), next <= next'
  PROVE  /\ id < next => id < next'
         /\ AtRest(id) => AtRest(id)'
         /\ Gone(id)' <=> Gone(id)
         /\ Kept(id)' <=> Kept(id)
<1>1. next \in Nat /\ next' \in Nat /\ id \in Nat
  BY IdsAreNat DEF MemShape
<1>2. id < next => id < next'
  BY <1>1
<1>3. AtRest(id) => AtRest(id)'
  BY <1>2 DEF Same, AtRest, Gone, Kept, Holds
<1>4. Gone(id)' <=> Gone(id)
  BY DEF Same, Gone, Holds
<1>5. Kept(id)' <=> Kept(id)
  BY DEF Same, Kept, Holds
<1>. QED  BY <1>2, <1>3, <1>4, <1>5

\* And where its owner expects it.
LEMMA PlaceStays ==
  ASSUME MemShape, MemShape', NEW id \in Ids, Same(id), next <= next',
         NEW t \in Callers, thread'[t] = thread[t], Place(thread[t], id)
  PROVE  Place(thread[t], id)'
<1>1. /\ id < next => id < next'
      /\ AtRest(id) => AtRest(id)'
      /\ Gone(id)' <=> Gone(id)
      /\ Kept(id)' <=> Kept(id)
  BY SettledStays
<1>2. PlaceStore(thread[t], id)'
  BY <1>1 DEF Place, PlaceStore, Same, Holds
<1>3. PlaceChange(thread[t], id)'
  BY <1>1 DEF Place, PlaceChange, Same, After
<1>4. PlaceForget(thread[t], id)'
  BY <1>1 DEF Place, PlaceForget, Same
<1>5. PlaceAll(thread[t], id)'
  BY <1>1 DEF Place, PlaceAll, Same
<1>. QED  BY <1>2, <1>3, <1>4, <1>5 DEF Place

\* So the step keeps every other record's part of the invariant.
LEMMA ActsKeeps ==
  ASSUME MemoryInv, MemShape', NEW t \in Callers, Acts(t),
         \A id \in thread'[t].ids \ loose' : Place(thread[t], id)',
         \A id \in thread[t].ids \ (thread'[t].ids \cup loose') : AtRest(id)'
  PROVE  OneOwner' /\ Placed' /\ Resting'
<1>1. OneOwner'
  BY DEF MemoryInv, OneOwner, Acts
<1>2. ASSUME NEW u \in Callers \ {t}, NEW id \in Ids \ loose', id \in thread'[u].ids
      PROVE  Place(thread[u], id)'
  <2>1. thread'[u] = thread[u] /\ id \notin loose
    BY <1>2 DEF Acts
  <2>2. Place(thread[u], id) /\ id \notin thread[t].ids
    BY <1>2, <2>1 DEF MemoryInv, Placed, OneOwner
  <2>3. Same(id) /\ next <= next'
    BY <2>2 DEF Acts
  <2>. QED  BY <2>1, <2>2, <2>3, PlaceStays DEF MemoryInv
<1>3. Placed'
  BY <1>2 DEF Placed
<1>4. ASSUME NEW id \in Ids \ loose', \A u \in Callers : id \notin thread'[u].ids
      PROVE  AtRest(id)'
  <2>1. CASE id \in thread[t].ids
    BY <1>4, <2>1
  <2>2. CASE id \notin thread[t].ids
    <3>1. AtRest(id)
      BY <1>4, <2>2 DEF MemoryInv, Resting, Acts
    <3>. QED  BY <2>2, <3>1, SettledStays DEF MemoryInv, Acts
  <2>. QED  BY <2>1, <2>2
<1>5. Resting'
  BY <1>4 DEF Resting
<1>. QED  BY <1>1, <1>3, <1>5

-----------------------------------------------------------------------------
(* The count. *)

\* Whether a record counts is its owner's business.
LEMMA CountedOf ==
  ASSUME OneOwner, loose = {}, NEW id \in Ids
  PROVE  /\ \A t \in Callers : id \in thread[t].ids
            => (id \in Counted <=> Tallied(thread[t], text[id]))
         /\ (\A t \in Callers : id \notin thread[t].ids) => (id \in Counted <=> text[id] # 0)
<1>1. ASSUME NEW t \in Callers, id \in thread[t].ids
      PROVE  id \in Counted <=> Tallied(thread[t], text[id])
  <2>1. \A u \in Callers : id \in thread[u].ids => u = t
    BY <1>1 DEF OneOwner
  <2>. QED  BY <1>1, <2>1 DEF Counted
<1>2. (\A t \in Callers : id \notin thread[t].ids) => (id \in Counted <=> text[id] # 0)
  BY DEF Counted
<1>. QED  BY <1>1, <1>2

\* So it is after a step.
LEMMA CountedThen ==
  ASSUME OneOwner', loose' = {}, NEW id \in Ids
  PROVE  /\ \A t \in Callers : id \in thread'[t].ids
            => (id \in Counted' <=> Tallied(thread[t], text[id])')
         /\ (\A t \in Callers : id \notin thread'[t].ids) => (id \in Counted' <=> text'[id] # 0)
<1>1. ASSUME NEW t \in Callers, id \in thread'[t].ids
      PROVE  id \in Counted' <=> Tallied(thread[t], text[id])'
  <2>1. \A u \in Callers : id \in thread'[u].ids => u = t
    BY <1>1 DEF OneOwner
  <2>2. id \in Counted' <=> \E u \in Callers : id \in thread'[u].ids
        /\ Tallied(thread[u], text[id])'
    BY <1>1 DEF Counted
  <2>. QED  BY <1>1, <2>1, <2>2
<1>2. (\A t \in Callers : id \notin thread'[t].ids) => (id \in Counted' <=> text'[id] # 0)
  BY DEF Counted
<1>. QED  BY <1>1, <1>2

\* A step of a thread counts no other thread's record, and no resting one.
LEMMA CountedElsewhere ==
  ASSUME MemoryInv, OneOwner', loose' = {}, NEW t \in Callers, Acts(t),
         NEW id \in Ids, id \notin thread[t].ids, id \notin thread'[t].ids
  PROVE  id \in Counted' <=> id \in Counted
<1>1. loose = {} /\ OneOwner
  BY DEF Acts, MemoryInv
<1>2. text'[id] = text[id] /\ \A u \in Callers \ {t} : thread'[u] = thread[u]
  BY DEF Acts, Same
<1>3. CASE \E u \in Callers : id \in thread[u].ids
  <2>1. PICK u \in Callers : id \in thread[u].ids
    BY <1>3
  <2>2. u # t /\ thread'[u] = thread[u]
    BY <1>2, <2>1
  <2>3. id \in Counted <=> Tallied(thread[u], text[id])
    BY <1>1, <2>1, CountedOf
  <2>4. id \in Counted' <=> Tallied(thread[u], text[id])'
    BY <2>1, <2>2, CountedThen
  <2>. QED  BY <1>2, <2>2, <2>3, <2>4 DEF Tallied
<1>4. CASE \A u \in Callers : id \notin thread[u].ids
  <2>1. \A u \in Callers : id \notin thread'[u].ids
    BY <1>2, <1>4
  <2>2. id \in Counted <=> text[id] # 0
    BY <1>1, <1>4, CountedOf
  <2>3. id \in Counted' <=> text'[id] # 0
    BY <2>1, CountedThen
  <2>. QED  BY <1>2, <2>2, <2>3
<1>. QED  BY <1>3, <1>4

\* A reload that has scanned works on every record, so none changes under it.
LEMMA ScanStays ==
  ASSUME MemoryInv, MemShape', loose' = {}, NEW t \in Callers, Acts(t), thread'[t].at # "install",
         NEW u \in Callers, thread'[u].at = "install"
  PROVE  thread'[u].scan.count = Cardinality(TextIds')
<1>1. u # t /\ thread'[u] = thread[u] /\ loose = {}
  BY DEF Acts
<1>2. thread[u].ids = Ids
  BY <1>1, AtTells DEF MemoryInv, Loading
<1>3. \A id \in Ids : id \notin thread[t].ids
  BY <1>1, <1>2 DEF MemoryInv, OneOwner
<1>4. TextIds' = TextIds
  BY <1>3 DEF TextIds, Acts, Same
<1>5. thread[u].scan.count = Cardinality(TextIds)
  BY <1>1 DEF MemoryInv, Counting
<1>. QED  BY <1>1, <1>4, <1>5

\* A step that counts nothing leaves the count right.
LEMMA CountSame ==
  ASSUME MemoryInv, MemShape', OneOwner', NEW t \in Callers, Acts(t),
         count' = count, thread[t].at # "reset",
         thread[t].ids \subseteq Ids, thread'[t].ids \subseteq Ids,
         loose' = {} => \A id \in Ids :
           /\ id \in thread[t].ids /\ id \in thread'[t].ids =>
                (Tallied(thread[t], text[id])' <=> Tallied(thread[t], text[id]))
           /\ id \in thread[t].ids /\ id \notin thread'[t].ids =>
                (text'[id] # 0 <=> Tallied(thread[t], text[id]))
           /\ id \notin thread[t].ids /\ id \in thread'[t].ids =>
                (Tallied(thread[t], text[id])' <=> text[id] # 0)
  PROVE  loose' = {} /\ (\A u \in Callers : thread'[u].at # "reset")
         => count' = Cardinality(Counted')
<1>. SUFFICES ASSUME loose' = {}, \A u \in Callers : thread'[u].at # "reset"
              PROVE  count' = Cardinality(Counted')
  OBVIOUS
<1>1. loose = {} /\ OneOwner
  BY DEF Acts, MemoryInv
<1>2. ASSUME NEW id \in Ids
      PROVE  id \in Counted' <=> id \in Counted
  <2>1. CASE id \in thread[t].ids /\ id \in thread'[t].ids
    <3>1. id \in Counted <=> Tallied(thread[t], text[id])
      BY <1>1, <2>1, CountedOf
    <3>2. id \in Counted' <=> Tallied(thread[t], text[id])'
      BY <2>1, CountedThen
    <3>. QED  BY <2>1, <3>1, <3>2
  <2>2. CASE id \in thread[t].ids /\ id \notin thread'[t].ids
    <3>1. id \in Counted <=> Tallied(thread[t], text[id])
      BY <1>1, <2>2, CountedOf
    <3>2. \A u \in Callers : id \notin thread'[u].ids
      BY <1>1, <2>2 DEF OneOwner, Acts
    <3>3. id \in Counted' <=> text'[id] # 0
      BY <3>2, CountedThen
    <3>. QED  BY <2>2, <3>1, <3>3
  <2>3. CASE id \notin thread[t].ids /\ id \in thread'[t].ids
    <3>1. \A u \in Callers : id \notin thread[u].ids
      BY <2>3 DEF Acts
    <3>2. id \in Counted <=> text[id] # 0
      BY <1>1, <3>1, CountedOf
    <3>3. id \in Counted' <=> Tallied(thread[t], text[id])'
      BY <2>3, CountedThen
    <3>. QED  BY <2>3, <3>2, <3>3
  <2>4. CASE id \notin thread[t].ids /\ id \notin thread'[t].ids
    BY <2>4, CountedElsewhere
  <2>. QED  BY <2>1, <2>2, <2>3, <2>4
<1>3. Counted' = Counted
  BY <1>2 DEF Counted
<1>4. \A u \in Callers : thread[u].at # "reset"
  BY DEF Acts
<1>. QED  BY <1>1, <1>3, <1>4 DEF MemoryInv, Counting

\* So does a step that starts no installation.
LEMMA CountStands ==
  ASSUME MemoryInv, MemShape', OneOwner', NEW t \in Callers, Acts(t),
         count' = count, thread[t].at # "reset", thread'[t].at # "install",
         thread[t].ids \subseteq Ids, thread'[t].ids \subseteq Ids,
         loose' = {} => \A id \in Ids :
           /\ id \in thread[t].ids /\ id \in thread'[t].ids =>
                (Tallied(thread[t], text[id])' <=> Tallied(thread[t], text[id]))
           /\ id \in thread[t].ids /\ id \notin thread'[t].ids =>
                (text'[id] # 0 <=> Tallied(thread[t], text[id]))
           /\ id \notin thread[t].ids /\ id \in thread'[t].ids =>
                (Tallied(thread[t], text[id])' <=> text[id] # 0)
  PROVE  Counting'
<1>1. loose' = {} /\ (\A u \in Callers : thread'[u].at # "reset") => count' = Cardinality(Counted')
  BY CountSame
<1>2. loose' = {} => \A u \in Callers : thread'[u].at = "install"
      => thread'[u].scan.count = Cardinality(TextIds')
  BY ScanStays
<1>. QED  BY <1>1, <1>2 DEF Counting

\* A step that counts a record, or takes it back.
LEMMA CountMoves ==
  ASSUME MemoryInv, MemShape', OneOwner', NEW t \in Callers, Acts(t),
         NEW id \in Ids, thread[t].ids = {id}, thread'[t].ids = {id}, text' = text,
         thread[t].at # "reset", thread'[t].at # "install",
         NEW up \in BOOLEAN, Tallied(thread[t], text[id])' <=> up, Tallied(thread[t], text[id])
         <=> ~up,
         count' = IF up THEN count + 1 ELSE IF count = 0 THEN 0 ELSE count - 1
  PROVE  Counting'
<1>. SUFFICES ASSUME loose' = {}
              PROVE  /\ (\A u \in Callers : thread'[u].at # "reset")
                        => count' = Cardinality(Counted')
                     /\ \A u \in Callers : thread'[u].at = "install"
                        => thread'[u].scan.count = Cardinality(TextIds')
  BY DEF Counting
<1>1. loose = {} /\ OneOwner
  BY DEF Acts, MemoryInv
<1>2. id \in Counted <=> ~up
  BY <1>1, CountedOf
<1>3. id \in Counted' <=> up
  BY CountedThen
<1>4. \A j \in Ids \ {id} : j \in Counted' <=> j \in Counted
  BY CountedElsewhere
<1>5. Counted' = IF up THEN Counted \cup {id} ELSE Counted \ {id}
  <2>1. Counted \subseteq Ids /\ Counted' \subseteq Ids
    BY DEF Counted
  <2>. QED  BY ONLY <1>2, <1>3, <1>4, <2>1, id \in Ids, up \in BOOLEAN
<1>6. IsFiniteSet(Counted) /\ Cardinality(Counted) \in Nat
  <2>1. Counted \in SUBSET Ids
    BY DEF Counted
  <2>. QED  BY <2>1, IdsFinite
<1>7. ASSUME \A u \in Callers : thread'[u].at # "reset"
      PROVE  count' = Cardinality(Counted')
  <2>1. \A u \in Callers : thread[u].at # "reset"
    BY <1>7 DEF Acts
  <2>2. count = Cardinality(Counted)
    BY <1>1, <2>1 DEF MemoryInv, Counting
  <2>3. CASE up
    <3>1. Cardinality(Counted \cup {id}) = Cardinality(Counted) + 1
      BY <1>2, <1>6, <2>3, FS_AddElement
    <3>. QED  BY <1>5, <2>2, <2>3, <3>1
  <2>4. CASE ~up
    <3>1. Cardinality(Counted \ {id}) = Cardinality(Counted) - 1
      BY <1>2, <1>6, <2>4, FS_RemoveElement
    <3>2. Cardinality(Counted) # 0
      BY <1>2, <1>6, <2>4, FS_EmptySet
    <3>. QED  BY <1>5, <1>6, <2>2, <2>4, <3>1, <3>2
  <2>. QED  BY <2>3, <2>4
<1>. QED  BY <1>7, ScanStays

-----------------------------------------------------------------------------
(* A step on one record. *)

\* What is known of a thread that works on one record.
LEMMA OneFacts ==
  ASSUME MemoryInv, NEW t \in Callers, thread[t].at \in Working
  PROVE  /\ thread[t] \in OnOne /\ thread[t].n \in Nat \ {0} /\ thread[t].was \in MetaData
         /\ M!IdOf(t) \in Ids /\ M!IdOf(t) \in Nat /\ thread[t].ids = {M!IdOf(t)}
         /\ thread[t].was.sal <= commands
         /\ M!IdOf(t) \notin loose => Place(thread[t], M!IdOf(t))
<1>1. thread[t] \in OnOne
  BY AtTells DEF MemoryInv
<1>2. M!IdOf(t) \in Ids /\ M!IdOf(t) \in Nat /\ thread[t].ids = {M!IdOf(t)}
  BY <1>1, IdIsOwn, IdsAreNat
<1>3. thread[t].n \in Nat \ {0} /\ thread[t].was \in MetaData
  BY <1>1 DEF OnOne
<1>. QED  BY <1>1, <1>2, <1>3 DEF MemoryInv, Dated, Placed

\* The engine's keys and the mirrors keep their types, and nothing moves but one record's.
OnlyId(id) ==
  /\ text' \in [Ids -> Nat] /\ vec' \in [Ids -> Nat] /\ words' \in [Ids -> Nat]
     /\ meta' \in [Ids -> MetaData]
  /\ index' \in [Ids -> EntryOf] /\ count' \in Nat /\ next' = next /\ commands' = commands
  /\ loose \subseteq loose' /\ loose' \subseteq Ids
  /\ \A j \in Ids \ {id} : Same(j)
  /\ meta'[id].sal <= commands

\* All of the invariant but the count.
LEMMA OneMoves ==
  ASSUME MemoryInv, NEW t \in Callers, thread[t].at \in Working, NEW at \in Working \cup {"idle"},
         NEW id \in Ids, id = M!IdOf(t), M!Goto(t, at), OnlyId(id),
         id \notin loose' => IF at = "idle" THEN AtRest(id)' ELSE Place(thread[t], id)'
  PROVE  /\ MemShape' /\ Dated' /\ Acts(t) /\ OneOwner' /\ Placed' /\ Resting'
         /\ thread'[t].ids = IF at = "idle" THEN {} ELSE {id}
         /\ thread'[t].at = at
<1>0. thread[t] \in OnOne /\ id \in Ids /\ thread[t].ids = {id} /\ MemShape
  BY OneFacts DEF MemoryInv
<1>1. /\ thread' \in [Callers -> {M!Idle} \cup OnOne \cup OnAll \cup Loading]
      /\ \A u \in Callers \ {t} : thread'[u] = thread[u]
      /\ thread'[t].ids = IF at = "idle" THEN {} ELSE {id}
      /\ thread'[t].at = at
      /\ at \in Working => thread'[t].was = thread[t].was
  <2>1. CASE at = "idle"
    BY <1>0, <2>1, GoesIdle DEF Working, Storing, Forgetting
  <2>2. CASE at \in Working
    <3>1. at # "idle"
      BY <2>2 DEF Working, Storing, Forgetting
    <3>. QED  BY <1>0, <2>2, <3>1, GoesOn
  <2>. QED  BY <2>1, <2>2
<1>2. MemShape'
  BY <1>0, <1>1 DEF MemShape, OnlyId
<1>3. Dated'
  <2>1. \A j \in Ids : meta'[j].sal <= commands'
    BY DEF OnlyId, Same, MemoryInv, Dated
  <2>2. \A u \in Callers : thread'[u].at \in Working => thread'[u].was.sal <= commands'
    <3>1. \A u \in Callers : thread[u].at \in Working => thread[u].was.sal <= commands
      BY DEF MemoryInv, Dated
    <3>2. commands' = commands
      BY DEF OnlyId
    <3>. QED  BY <1>1, <3>1, <3>2
  <2>. QED  BY <2>1, <2>2 DEF Dated
<1>4. next \in Nat
  BY <1>0 DEF MemShape
<1>5. thread'[t].ids \subseteq thread[t].ids
  BY <1>0, <1>1
<1>6. Acts(t)
  <2>1. \A u \in Callers \ {t} : thread'[t].ids \cap thread[u].ids \subseteq loose'
    BY <1>0, <1>5 DEF MemoryInv, OneOwner, OnlyId
  <2>. QED  BY <1>0, <1>1, <1>4, <2>1 DEF Acts, OnlyId
<1>7. OneOwner' /\ Placed' /\ Resting'
  <2>1. \A j \in thread'[t].ids \ loose' : Place(thread[t], j)'
    BY <1>1
  <2>2. \A j \in thread[t].ids \ (thread'[t].ids \cup loose') : AtRest(j)'
    BY <1>0, <1>1
  <2>. QED  BY <1>2, <1>6, <2>1, <2>2, ActsKeeps
<1>. QED  BY <1>1, <1>2, <1>3, <1>6, <1>7

\* A step on one record that counts nothing keeps the invariant.
LEMMA OneStep ==
  ASSUME MemoryInv, NEW t \in Callers, thread[t].at \in Working, NEW at \in Working \cup {"idle"},
         NEW id \in Ids, id = M!IdOf(t), M!Goto(t, at), OnlyId(id),
         id \notin loose' => IF at = "idle" THEN AtRest(id)' ELSE Place(thread[t], id)',
         count' = count,
         loose' = {} => IF at = "idle" THEN text'[id] # 0 <=> Tallied(thread[t], text[id])
                        ELSE Tallied(thread[t], text[id])' <=> Tallied(thread[t], text[id])
  PROVE  MemoryInv'
<1>1. /\ MemShape' /\ Dated' /\ Acts(t) /\ OneOwner' /\ Placed' /\ Resting'
      /\ thread'[t].ids = IF at = "idle" THEN {} ELSE {id}
      /\ thread'[t].at = at
  BY OneMoves
<1>2. thread[t].ids = {id} 
  BY OneFacts
<1>3. thread[t].at # "reset" /\ thread'[t].at # "install"
  BY <1>1 DEF Working, Storing, Forgetting
<1>4. Counting'
  <2>1. thread[t].ids \subseteq Ids /\ thread'[t].ids \subseteq Ids
    BY <1>1, <1>2
  <2>2. loose' = {} => \A j \in Ids :
           /\ j \in thread[t].ids /\ j \in thread'[t].ids =>
                (Tallied(thread[t], text[j])' <=> Tallied(thread[t], text[j]))
           /\ j \in thread[t].ids /\ j \notin thread'[t].ids =>
                (text'[j] # 0 <=> Tallied(thread[t], text[j]))
           /\ j \notin thread[t].ids /\ j \in thread'[t].ids =>
                (Tallied(thread[t], text[j])' <=> text[j] # 0)
    BY <1>1, <1>2
  <2>. QED  BY <1>1, <1>3, <2>1, <2>2, CountStands
<1>. QED  BY <1>1, <1>4 DEF MemoryInv

-----------------------------------------------------------------------------
(* The steps of a store. *)

\* The text is written.
LEMMA StoreTextKeeps ==
  ASSUME MemoryInv, NEW t \in Callers, M!StoreText(t)
  PROVE  MemoryInv'
<1>1. thread[t].at = "text" /\ M!Goto(t, "meta") /\ thread[t].at \in Working
  BY DEF M!StoreText, M!At, Working, Storing, Forgetting
<1>2. PICK id \in Ids : id = M!IdOf(t)
  BY <1>1, OneFacts
<1>3. /\ thread[t] \in OnOne /\ thread[t].n \in Nat \ {0} /\ thread[t].was \in MetaData
         /\ id \in Nat
      /\ thread[t].was.sal <= commands /\ thread[t].ids = {id}
      /\ id \notin loose => Place(thread[t], id)
  BY <1>1, <1>2, OneFacts
<1>4. thread'[t].at = "meta" /\ thread'[t].n = thread[t].n /\ thread'[t].was = thread[t].was
  BY <1>1, <1>3, GoesOn DEF MemoryInv, Working, Storing, Forgetting
<1>5. OnlyId(id)
  BY <1>2, <1>3 DEF OnlyId, M!StoreText, M!At, M!Put, Same, M!durable, M!mirrors, MemoryInv,
     MemShape, Dated, MetaData
<1>6. id \notin loose' => Place(thread[t], id)'
  BY <1>1, <1>2, <1>3, <1>4, <1>5 DEF M!StoreText, M!At, M!Put, M!durable, M!mirrors, OnlyId,
     MemoryInv, MemShape, Place, PlaceStore, PlaceChange, PlaceForget, PlaceAll, Holds, Gone,
     Storing, Forgetting, Sweeping, Fresh
<1>7. loose' = {} => (Tallied(thread[t], text[id])' <=> Tallied(thread[t], text[id]))
  BY <1>1, <1>2, <1>3, <1>4, <1>5 DEF M!StoreText, M!At, M!Put, M!durable, OnlyId, MemoryInv,
     MemShape, Tallied, Place, PlaceStore, PlaceChange, PlaceForget, PlaceAll, Holds, Gone,
     Storing, Forgetting, Sweeping
<1>8. "meta" \in Working \cup {"idle"} /\ count' = count
  BY DEF M!StoreText, M!At, M!mirrors, Working, Storing, Forgetting
<1>. QED  BY <1>1, <1>2, <1>5, <1>6, <1>7, <1>8, OneStep

\* The meta data, with no salience yet.
LEMMA StoreMetaKeeps ==
  ASSUME MemoryInv, NEW t \in Callers, M!StoreMeta(t)
  PROVE  MemoryInv'
<1>1. thread[t].at = "meta" /\ M!Goto(t, "vec") /\ thread[t].at \in Working
  BY DEF M!StoreMeta, M!At, Working, Storing, Forgetting
<1>2. PICK id \in Ids : id = M!IdOf(t)
  BY <1>1, OneFacts
<1>3. /\ thread[t] \in OnOne /\ thread[t].n \in Nat \ {0} /\ thread[t].was \in MetaData
         /\ id \in Nat
      /\ thread[t].was.sal <= commands /\ thread[t].ids = {id}
      /\ id \notin loose => Place(thread[t], id)
  BY <1>1, <1>2, OneFacts
<1>4. thread'[t].at = "vec" /\ thread'[t].n = thread[t].n /\ thread'[t].was = thread[t].was
  BY <1>1, <1>3, GoesOn DEF MemoryInv, Working, Storing, Forgetting
<1>5. OnlyId(id)
  BY <1>2, <1>3 DEF OnlyId, M!StoreMeta, M!At, M!Put, Same, M!durable, M!mirrors, MemoryInv,
     MemShape, Dated, MetaData
<1>6. id \notin loose' => Place(thread[t], id)'
  BY <1>1, <1>2, <1>3, <1>4, <1>5 DEF M!StoreMeta, M!At, M!Put, M!durable, M!mirrors, OnlyId,
     MemoryInv, MemShape, Place, PlaceStore, PlaceChange, PlaceForget, PlaceAll, Holds, Gone,
     Storing, Forgetting, Sweeping, Fresh
<1>7. loose' = {} => (Tallied(thread[t], text[id])' <=> Tallied(thread[t], text[id]))
  BY <1>1, <1>2, <1>3, <1>4, <1>5 DEF M!StoreMeta, M!At, M!Put, M!durable, OnlyId, MemoryInv,
     MemShape, Tallied, Place, PlaceStore, PlaceChange, PlaceForget, PlaceAll, Holds, Gone,
     Storing, Forgetting, Sweeping
<1>8. "vec" \in Working \cup {"idle"} /\ count' = count
  BY DEF M!StoreMeta, M!At, M!mirrors, Working, Storing, Forgetting
<1>. QED  BY <1>1, <1>2, <1>5, <1>6, <1>7, <1>8, OneStep

\* The vector.
LEMMA StoreVecKeeps ==
  ASSUME MemoryInv, NEW t \in Callers, M!StoreVec(t)
  PROVE  MemoryInv'
<1>1. thread[t].at = "vec" /\ M!Goto(t, "words") /\ thread[t].at \in Working
  BY DEF M!StoreVec, M!At, Working, Storing, Forgetting
<1>2. PICK id \in Ids : id = M!IdOf(t)
  BY <1>1, OneFacts
<1>3. /\ thread[t] \in OnOne /\ thread[t].n \in Nat \ {0} /\ thread[t].was \in MetaData
         /\ id \in Nat
      /\ thread[t].was.sal <= commands /\ thread[t].ids = {id}
      /\ id \notin loose => Place(thread[t], id)
  BY <1>1, <1>2, OneFacts
<1>4. thread'[t].at = "words" /\ thread'[t].n = thread[t].n /\ thread'[t].was = thread[t].was
  BY <1>1, <1>3, GoesOn DEF MemoryInv, Working, Storing, Forgetting
<1>5. OnlyId(id)
  BY <1>2, <1>3 DEF OnlyId, M!StoreVec, M!At, M!Put, Same, M!durable, M!mirrors, MemoryInv,
     MemShape, Dated, MetaData
<1>6. id \notin loose' => Place(thread[t], id)'
  BY <1>1, <1>2, <1>3, <1>4, <1>5 DEF M!StoreVec, M!At, M!Put, M!durable, M!mirrors, OnlyId,
     MemoryInv, MemShape, Place, PlaceStore, PlaceChange, PlaceForget, PlaceAll, Holds, Gone,
     Storing, Forgetting, Sweeping, Fresh
<1>7. loose' = {} => (Tallied(thread[t], text[id])' <=> Tallied(thread[t], text[id]))
  BY <1>1, <1>2, <1>3, <1>4, <1>5 DEF M!StoreVec, M!At, M!Put, M!durable, OnlyId, MemoryInv,
     MemShape, Tallied, Place, PlaceStore, PlaceChange, PlaceForget, PlaceAll, Holds, Gone,
     Storing, Forgetting, Sweeping
<1>8. "words" \in Working \cup {"idle"} /\ count' = count
  BY DEF M!StoreVec, M!At, M!mirrors, Working, Storing, Forgetting
<1>. QED  BY <1>1, <1>2, <1>5, <1>6, <1>7, <1>8, OneStep

\* The keywords.
LEMMA StoreWordsKeeps ==
  ASSUME MemoryInv, NEW t \in Callers, M!StoreWords(t)
  PROVE  MemoryInv'
<1>1. thread[t].at = "words" /\ M!Goto(t, "count") /\ thread[t].at \in Working
  BY DEF M!StoreWords, M!At, Working, Storing, Forgetting
<1>2. PICK id \in Ids : id = M!IdOf(t)
  BY <1>1, OneFacts
<1>3. /\ thread[t] \in OnOne /\ thread[t].n \in Nat \ {0} /\ thread[t].was \in MetaData
         /\ id \in Nat
      /\ thread[t].was.sal <= commands /\ thread[t].ids = {id}
      /\ id \notin loose => Place(thread[t], id)
  BY <1>1, <1>2, OneFacts
<1>4. thread'[t].at = "count" /\ thread'[t].n = thread[t].n /\ thread'[t].was = thread[t].was
  BY <1>1, <1>3, GoesOn DEF MemoryInv, Working, Storing, Forgetting
<1>5. OnlyId(id)
  BY <1>2, <1>3 DEF OnlyId, M!StoreWords, M!At, M!Put, Same, M!durable, M!mirrors, MemoryInv,
     MemShape, Dated, MetaData
<1>6. id \notin loose' => Place(thread[t], id)'
  BY <1>1, <1>2, <1>3, <1>4, <1>5 DEF M!StoreWords, M!At, M!Put, M!durable, M!mirrors, OnlyId,
     MemoryInv, MemShape, Place, PlaceStore, PlaceChange, PlaceForget, PlaceAll, Holds, Gone,
     Storing, Forgetting, Sweeping, Fresh
<1>7. loose' = {} => (Tallied(thread[t], text[id])' <=> Tallied(thread[t], text[id]))
  BY <1>1, <1>2, <1>3, <1>4, <1>5 DEF M!StoreWords, M!At, M!Put, M!durable, OnlyId, MemoryInv,
     MemShape, Tallied, Place, PlaceStore, PlaceChange, PlaceForget, PlaceAll, Holds, Gone,
     Storing, Forgetting, Sweeping
<1>8. "count" \in Working \cup {"idle"} /\ count' = count
  BY DEF M!StoreWords, M!At, M!mirrors, Working, Storing, Forgetting
<1>. QED  BY <1>1, <1>2, <1>5, <1>6, <1>7, <1>8, OneStep

\* The record is whole, and the index has it.
LEMMA StoreIndexKeeps ==
  ASSUME MemoryInv, NEW t \in Callers, M!StoreIndex(t)
  PROVE  MemoryInv'
<1>1. thread[t].at = "index" /\ M!Goto(t, "idle") /\ thread[t].at \in Working
  BY DEF M!StoreIndex, M!At, Working, Storing, Forgetting
<1>2. PICK id \in Ids : id = M!IdOf(t)
  BY <1>1, OneFacts
<1>3. /\ thread[t] \in OnOne /\ thread[t].n \in Nat \ {0} /\ thread[t].was \in MetaData
         /\ id \in Nat
      /\ thread[t].was.sal <= commands /\ thread[t].ids = {id}
      /\ id \notin loose => Place(thread[t], id)
  BY <1>1, <1>2, OneFacts
<1>4. thread'[t] = M!Idle
  BY <1>1, GoesIdle DEF MemoryInv
<1>5. OnlyId(id)
  BY <1>2, <1>3 DEF OnlyId, M!StoreIndex, M!At, M!Put, Same, M!durable, M!mirrors, MemoryInv,
     MemShape, Dated, MetaData, EntryOf, M!Entry
<1>6. id \notin loose' => AtRest(id)'
  BY <1>1, <1>2, <1>3, <1>4, <1>5 DEF M!StoreIndex, M!At, M!Put, M!durable, M!mirrors, OnlyId,
     MemoryInv, MemShape, Place, PlaceStore, PlaceChange, PlaceForget, PlaceAll, Holds, Gone,
     Storing, Forgetting, Sweeping, Fresh, AtRest, Kept, M!Entry, Blank, M!NoMeta
<1>7. loose' = {} => (text'[id] # 0 <=> Tallied(thread[t], text[id]))
  BY <1>1, <1>2, <1>3, <1>4, <1>5 DEF M!StoreIndex, M!At, M!Put, M!durable, OnlyId, MemoryInv,
     MemShape, Tallied, Place, PlaceStore, PlaceChange, PlaceForget, PlaceAll, Holds, Gone,
     Storing, Forgetting, Sweeping
<1>8. "idle" \in Working \cup {"idle"} /\ count' = count
  BY DEF M!StoreIndex, M!At, M!mirrors, Working, Storing, Forgetting
<1>. QED  BY <1>1, <1>2, <1>5, <1>6, <1>7, <1>8, OneStep


-----------------------------------------------------------------------------
(* The steps of a change. *)

\* The meta data is written; the index has it as it was.
LEMMA ChangeMetaKeeps ==
  ASSUME MemoryInv, NEW t \in Callers, M!ChangeMeta(t)
  PROVE  MemoryInv'
<1>1. thread[t].at = "change" /\ M!Goto(t, "reflect") /\ thread[t].at \in Working
  BY DEF M!ChangeMeta, M!At, Working, Storing, Forgetting
<1>2. PICK id \in Ids : id = M!IdOf(t)
  BY <1>1, OneFacts
<1>3. /\ thread[t] \in OnOne /\ thread[t].n \in Nat \ {0} /\ thread[t].was \in MetaData
         /\ id \in Nat
      /\ thread[t].was.sal <= commands /\ thread[t].ids = {id}
      /\ id \notin loose => Place(thread[t], id)
  BY <1>1, <1>2, OneFacts
<1>4. thread'[t].at = "reflect" /\ thread'[t].n = thread[t].n /\ thread'[t].was = thread[t].was
  BY <1>1, <1>3, GoesOn DEF MemoryInv, Working, Storing, Forgetting
<1>5. OnlyId(id)
  BY <1>2, <1>3 DEF OnlyId, M!ChangeMeta, M!At, M!Put, Same, M!durable, M!mirrors, MemoryInv,
     MemShape, Dated, MetaData
<1>6. id \notin loose' => Place(thread[t], id)'
  BY <1>1, <1>2, <1>3, <1>4, <1>5 DEF M!ChangeMeta, M!At, M!Put, M!durable, M!mirrors, OnlyId,
     MemoryInv, MemShape, Place, PlaceStore, PlaceChange, PlaceForget, PlaceAll, Holds, Gone,
     Storing, Forgetting, Sweeping, AtRest, Kept, After, M!Entry, MetaData, M!NoMeta
<1>7. loose' = {} => (Tallied(thread[t], text[id])' <=> Tallied(thread[t], text[id]))
  BY <1>1, <1>2, <1>3, <1>4, <1>5 DEF M!ChangeMeta, M!At, M!Put, M!durable, OnlyId, MemoryInv,
     MemShape, Tallied, Place, PlaceStore, PlaceChange, PlaceForget, PlaceAll, Holds, Gone,
     Storing, Forgetting, Sweeping, Kept
<1>8. "reflect" \in Working \cup {"idle"} /\ count' = count
  BY DEF M!ChangeMeta, M!At, M!mirrors, Working, Storing, Forgetting
<1>. QED  BY <1>1, <1>2, <1>5, <1>6, <1>7, <1>8, OneStep

\* The index has the field that was written.
LEMMA ChangeIndexKeeps ==
  ASSUME MemoryInv, NEW t \in Callers, M!ChangeIndex(t)
  PROVE  MemoryInv'
<1>1. thread[t].at = "reflect" /\ M!Goto(t, "idle") /\ thread[t].at \in Working
  BY DEF M!ChangeIndex, M!At, Working, Storing, Forgetting
<1>2. PICK id \in Ids : id = M!IdOf(t)
  BY <1>1, OneFacts
<1>3. /\ thread[t] \in OnOne /\ thread[t].n \in Nat \ {0} /\ thread[t].was \in MetaData
         /\ id \in Nat
      /\ thread[t].was.sal <= commands /\ thread[t].ids = {id}
      /\ id \notin loose => Place(thread[t], id)
  BY <1>1, <1>2, OneFacts
<1>4. thread'[t] = M!Idle
  BY <1>1, GoesIdle DEF MemoryInv
<1>5. OnlyId(id)
  <2>1. /\ text' = text /\ meta' = meta /\ vec' = vec /\ words' = words /\ count' = count
        /\ next' = next /\ commands' = commands /\ loose' = loose
    BY DEF M!ChangeIndex, M!At, M!durable
  <2>2. index[id] \in EntryOf /\ index \in [Ids -> EntryOf] /\ index[id].meta \in MetaData
    BY DEF MemoryInv, MemShape, EntryOf
  <2>3. PICK w : /\ index' = [index EXCEPT ![id] = [index[id] EXCEPT !.meta = w]]
                 /\ w \in {M!NoMeta, [index[id].meta EXCEPT !.sal = thread[t].n],
                    [index[id].meta EXCEPT !.to = thread[t].n]}
    BY <1>2 DEF M!ChangeIndex
  <2>4. w \in MetaData
    BY <1>3, <2>2, <2>3 DEF MetaData, M!NoMeta
  <2>5. [index[id] EXCEPT !.meta = w] \in EntryOf
    BY <2>2, <2>4 DEF EntryOf
  <2>6. index' \in [Ids -> EntryOf] /\ \A j \in Ids \ {id} : index'[j] = index[j]
    BY ONLY <2>2, <2>3, <2>5
  <2>. QED  BY <2>1, <2>6 DEF OnlyId, Same, MemoryInv, MemShape, Dated
<1>6. id \notin loose' => AtRest(id)'
  <2>. SUFFICES ASSUME id \notin loose'
                PROVE  AtRest(id)'
    OBVIOUS
  <2>1. /\ Kept(id) /\ id < next /\ meta[id] = thread[t].was /\ index[id].vec = vec[id]
        /\ After(index[id].meta, thread[t].was, thread[t].n) /\ index[id].meta # M!NoMeta
    BY <1>1, <1>3, <1>5 DEF Place, PlaceChange, OnlyId
  <2>2. index[id] \in EntryOf
    BY DEF MemoryInv, MemShape
  <2>. DEFINE m == index[id].meta
              w == IF thread[t].was.sal = thread[t].n THEN [m EXCEPT !.sal = thread[t].n] ELSE [m EXCEPT !.to = thread[t].n]
  <2>3. m \in MetaData
    BY <2>2 DEF EntryOf
  <2>4. w = thread[t].was
    BY <2>1, <2>3 DEF After, MetaData
  <2>5. index' = [index EXCEPT ![id] = [index[id] EXCEPT !.meta = w]]
    BY <1>2, <2>1 DEF M!ChangeIndex
  <2>6. index'[id] = [index[id] EXCEPT !.meta = w]
    BY <2>5 DEF MemoryInv, MemShape
  <2>7. [index[id] EXCEPT !.meta = w] = [meta |-> w, vec |-> index[id].vec]
    <3>. HIDE DEF w
    <3>. QED  BY <2>2 DEF EntryOf
  <2>8. index'[id] = M!Entry(meta[id], vec[id])
    BY <2>1, <2>4, <2>6, <2>7 DEF M!Entry
  <2>9. meta' = meta /\ vec' = vec /\ text' = text /\ words' = words /\ next' = next
    BY DEF M!ChangeIndex, M!durable
  <2>. QED  BY <2>1, <2>8, <2>9 DEF AtRest, Kept, Holds
<1>7. loose' = {} => (text'[id] # 0 <=> Tallied(thread[t], text[id]))
  BY <1>1, <1>2, <1>3, <1>4, <1>5 DEF M!ChangeIndex, M!At, M!Put, M!durable, OnlyId, MemoryInv,
     MemShape, Tallied, Place, PlaceStore, PlaceChange, PlaceForget, PlaceAll, Holds, Gone,
     Storing, Forgetting, Sweeping, Kept
<1>8. "idle" \in Working \cup {"idle"} /\ count' = count
  BY DEF M!ChangeIndex, M!At, M!mirrors, Working, Storing, Forgetting
<1>. QED  BY <1>1, <1>2, <1>5, <1>6, <1>7, <1>8, OneStep


-----------------------------------------------------------------------------
(* The steps of a forget. *)

\* The keywords are deleted, or that failed.
LEMMA ForgetWordsKeeps ==
  ASSUME MemoryInv, NEW t \in Callers, M!ForgetWords(t)
  PROVE  MemoryInv'
<1>1. thread[t].at = "unwords" /\ M!Goto(t, "unvec") /\ thread[t].at \in Working
  BY DEF M!ForgetWords, M!At, Working, Storing, Forgetting
<1>2. PICK id \in Ids : id = M!IdOf(t)
  BY <1>1, OneFacts
<1>3. /\ thread[t] \in OnOne /\ thread[t].n \in Nat \ {0} /\ thread[t].was \in MetaData
         /\ id \in Nat
      /\ thread[t].was.sal <= commands /\ thread[t].ids = {id}
      /\ id \notin loose => Place(thread[t], id)
  BY <1>1, <1>2, OneFacts
<1>4. thread'[t].at = "unvec" /\ thread'[t].n = thread[t].n /\ thread'[t].was = thread[t].was
  BY <1>1, <1>3, GoesOn DEF MemoryInv, Working, Storing, Forgetting
<1>5. OnlyId(id)
  <2>1. loose \subseteq loose' /\ loose' \subseteq Ids
    BY <1>3 DEF M!ForgetWords, MemoryInv, MemShape
  <2>2. /\ text' = text /\ meta' = meta /\ vec' = vec /\ index' = index /\ count' = count
        /\ next' = next /\ commands' = commands
    BY DEF M!ForgetWords, M!At, M!mirrors
  <2>3. words' \in [Ids -> Nat] /\ \A j \in Ids \ {id} : words'[j] = words[j]
    BY <1>2 DEF M!ForgetWords, M!Put, MemoryInv, MemShape
  <2>. QED  BY <2>1, <2>2, <2>3 DEF OnlyId, Same, MemoryInv, MemShape, Dated
<1>6. id \notin loose' => Place(thread[t], id)'
  BY <1>1, <1>2, <1>3, <1>4, <1>5 DEF M!ForgetWords, M!At, M!Put, M!durable, M!mirrors, OnlyId,
     MemoryInv, MemShape, Place, PlaceStore, PlaceChange, PlaceForget, PlaceAll, Holds, Gone,
     Storing, Forgetting, Sweeping, AtRest, Kept
<1>7. loose' = {} => (Tallied(thread[t], text[id])' <=> Tallied(thread[t], text[id]))
  BY <1>1, <1>2, <1>3, <1>4, <1>5 DEF M!ForgetWords, M!At, M!Put, M!durable, OnlyId, MemoryInv,
     MemShape, Tallied, Place, PlaceStore, PlaceChange, PlaceForget, PlaceAll, Holds, Gone,
     Storing, Forgetting, Sweeping
<1>8. "unvec" \in Working \cup {"idle"} /\ count' = count
  BY DEF M!ForgetWords, M!At, M!mirrors, Working, Storing, Forgetting
<1>. QED  BY <1>1, <1>2, <1>5, <1>6, <1>7, <1>8, OneStep

\* The vector, likewise.
LEMMA ForgetVecKeeps ==
  ASSUME MemoryInv, NEW t \in Callers, M!ForgetVec(t)
  PROVE  MemoryInv'
<1>1. thread[t].at = "unvec" /\ M!Goto(t, "untext") /\ thread[t].at \in Working
  BY DEF M!ForgetVec, M!At, Working, Storing, Forgetting
<1>2. PICK id \in Ids : id = M!IdOf(t)
  BY <1>1, OneFacts
<1>3. /\ thread[t] \in OnOne /\ thread[t].n \in Nat \ {0} /\ thread[t].was \in MetaData
         /\ id \in Nat
      /\ thread[t].was.sal <= commands /\ thread[t].ids = {id}
      /\ id \notin loose => Place(thread[t], id)
  BY <1>1, <1>2, OneFacts
<1>4. thread'[t].at = "untext" /\ thread'[t].n = thread[t].n /\ thread'[t].was = thread[t].was
  BY <1>1, <1>3, GoesOn DEF MemoryInv, Working, Storing, Forgetting
<1>5. OnlyId(id)
  <2>1. loose \subseteq loose' /\ loose' \subseteq Ids
    BY <1>3 DEF M!ForgetVec, MemoryInv, MemShape
  <2>2. /\ text' = text /\ meta' = meta /\ words' = words /\ index' = index /\ count' = count
        /\ next' = next /\ commands' = commands
    BY DEF M!ForgetVec, M!At, M!mirrors
  <2>3. vec' \in [Ids -> Nat] /\ \A j \in Ids \ {id} : vec'[j] = vec[j]
    BY <1>2 DEF M!ForgetVec, M!Put, MemoryInv, MemShape
  <2>. QED  BY <2>1, <2>2, <2>3 DEF OnlyId, Same, MemoryInv, MemShape, Dated
<1>6. id \notin loose' => Place(thread[t], id)'
  BY <1>1, <1>2, <1>3, <1>4, <1>5 DEF M!ForgetVec, M!At, M!Put, M!durable, M!mirrors, OnlyId,
     MemoryInv, MemShape, Place, PlaceStore, PlaceChange, PlaceForget, PlaceAll, Holds, Gone,
     Storing, Forgetting, Sweeping, AtRest, Kept
<1>7. loose' = {} => (Tallied(thread[t], text[id])' <=> Tallied(thread[t], text[id]))
  BY <1>1, <1>2, <1>3, <1>4, <1>5 DEF M!ForgetVec, M!At, M!Put, M!durable, OnlyId, MemoryInv,
     MemShape, Tallied, Place, PlaceStore, PlaceChange, PlaceForget, PlaceAll, Holds, Gone,
     Storing, Forgetting, Sweeping
<1>8. "untext" \in Working \cup {"idle"} /\ count' = count
  BY DEF M!ForgetVec, M!At, M!mirrors, Working, Storing, Forgetting
<1>. QED  BY <1>1, <1>2, <1>5, <1>6, <1>7, <1>8, OneStep

\* The text.
LEMMA ForgetTextKeeps ==
  ASSUME MemoryInv, NEW t \in Callers, M!ForgetText(t)
  PROVE  MemoryInv'
<1>1. thread[t].at = "untext" /\ M!Goto(t, "unmeta") /\ thread[t].at \in Working
  BY DEF M!ForgetText, M!At, Working, Storing, Forgetting
<1>2. PICK id \in Ids : id = M!IdOf(t)
  BY <1>1, OneFacts
<1>3. /\ thread[t] \in OnOne /\ thread[t].n \in Nat \ {0} /\ thread[t].was \in MetaData
         /\ id \in Nat
      /\ thread[t].was.sal <= commands /\ thread[t].ids = {id}
      /\ id \notin loose => Place(thread[t], id)
  BY <1>1, <1>2, OneFacts
<1>4. thread'[t].at = "unmeta" /\ thread'[t].n = thread[t].n /\ thread'[t].was = thread[t].was
  BY <1>1, <1>3, GoesOn DEF MemoryInv, Working, Storing, Forgetting
<1>5. OnlyId(id)
  BY <1>2, <1>3 DEF OnlyId, M!ForgetText, M!At, M!Put, Same, M!durable, M!mirrors, MemoryInv,
     MemShape, Dated, MetaData
<1>6. id \notin loose' => Place(thread[t], id)'
  BY <1>1, <1>2, <1>3, <1>4, <1>5 DEF M!ForgetText, M!At, M!Put, M!durable, M!mirrors, OnlyId,
     MemoryInv, MemShape, Place, PlaceStore, PlaceChange, PlaceForget, PlaceAll, Holds, Gone,
     Storing, Forgetting, Sweeping, AtRest, Kept
<1>7. loose' = {} => (Tallied(thread[t], text[id])' <=> Tallied(thread[t], text[id]))
  BY <1>1, <1>2, <1>3, <1>4, <1>5 DEF M!ForgetText, M!At, M!Put, M!durable, OnlyId, MemoryInv,
     MemShape, Tallied, Place, PlaceStore, PlaceChange, PlaceForget, PlaceAll, Holds, Gone,
     Storing, Forgetting, Sweeping
<1>8. "unmeta" \in Working \cup {"idle"} /\ count' = count
  BY DEF M!ForgetText, M!At, M!mirrors, Working, Storing, Forgetting
<1>. QED  BY <1>1, <1>2, <1>5, <1>6, <1>7, <1>8, OneStep

\* The index has nothing any more.
LEMMA ForgetIndexKeeps ==
  ASSUME MemoryInv, NEW t \in Callers, M!ForgetIndex(t)
  PROVE  MemoryInv'
<1>1. thread[t].at = "unindex" /\ M!Goto(t, "idle") /\ thread[t].at \in Working
  BY DEF M!ForgetIndex, M!At, Working, Storing, Forgetting
<1>2. PICK id \in Ids : id = M!IdOf(t)
  BY <1>1, OneFacts
<1>3. /\ thread[t] \in OnOne /\ thread[t].n \in Nat \ {0} /\ thread[t].was \in MetaData
         /\ id \in Nat
      /\ thread[t].was.sal <= commands /\ thread[t].ids = {id}
      /\ id \notin loose => Place(thread[t], id)
  BY <1>1, <1>2, OneFacts
<1>4. thread'[t] = M!Idle
  BY <1>1, GoesIdle DEF MemoryInv
<1>5. OnlyId(id)
  BY <1>2, <1>3 DEF OnlyId, M!ForgetIndex, M!At, M!Put, Same, M!durable, M!mirrors, MemoryInv,
     MemShape, Dated, MetaData, EntryOf, M!Entry, M!NoMeta
<1>6. id \notin loose' => AtRest(id)'
  BY <1>1, <1>2, <1>3, <1>4, <1>5 DEF M!ForgetIndex, M!At, M!Put, M!durable, M!mirrors, OnlyId,
     MemoryInv, MemShape, Place, PlaceStore, PlaceChange, PlaceForget, PlaceAll, Holds, Gone,
     Storing, Forgetting, Sweeping, AtRest, M!Entry, M!NoMeta
<1>7. loose' = {} => (text'[id] # 0 <=> Tallied(thread[t], text[id]))
  BY <1>1, <1>2, <1>3, <1>4, <1>5 DEF M!ForgetIndex, M!At, M!Put, M!durable, OnlyId, MemoryInv,
     MemShape, Tallied, Place, PlaceStore, PlaceChange, PlaceForget, PlaceAll, Holds, Gone,
     Storing, Forgetting, Sweeping
<1>8. "idle" \in Working \cup {"idle"} /\ count' = count
  BY DEF M!ForgetIndex, M!At, M!mirrors, Working, Storing, Forgetting
<1>. QED  BY <1>1, <1>2, <1>5, <1>6, <1>7, <1>8, OneStep

-----------------------------------------------------------------------------
(* The steps that count, and those that end a command early. *)

\* The record counts once its keys are written.
LEMMA StoreCountKeeps ==
  ASSUME MemoryInv, NEW t \in Callers, M!StoreCount(t)
  PROVE  MemoryInv'
<1>1. thread[t].at = "count" /\ M!Goto(t, "index") /\ thread[t].at \in Working
  BY DEF M!StoreCount, M!At, Working, Storing, Forgetting
<1>2. PICK id \in Ids : id = M!IdOf(t)
  BY <1>1, OneFacts
<1>3. /\ thread[t] \in OnOne /\ thread[t].n \in Nat \ {0} /\ thread[t].ids = {id}
      /\ id \notin loose => Place(thread[t], id)
  BY <1>1, <1>2, OneFacts
<1>4. thread'[t].at = "index" /\ thread'[t].n = thread[t].n /\ thread'[t].was = thread[t].was
  BY <1>1, <1>3, GoesOn DEF MemoryInv, Working, Storing, Forgetting
<1>5. OnlyId(id)
  BY <1>2, <1>3 DEF OnlyId, M!StoreCount, M!At, Same, M!durable, MemoryInv, MemShape, Dated
<1>6. id \notin loose' => Place(thread[t], id)'
  BY <1>1, <1>3, <1>4 DEF M!StoreCount, M!At, M!durable, Place, PlaceStore, PlaceChange,
     PlaceForget, PlaceAll,
                          Holds, Storing, Forgetting, Sweeping
<1>7. /\ MemShape' /\ Dated' /\ Acts(t) /\ OneOwner' /\ Placed' /\ Resting' /\ thread'[t].ids = {id}
  BY <1>1, <1>2, <1>5, <1>6, OneMoves DEF Working, Storing, Forgetting
<1>8. Counting'
  <2>1. text' = text /\ count' = count + 1 /\ loose' = loose
    BY DEF M!StoreCount, M!durable
  <2>2. ~Tallied(thread[t], text[id])
    BY <1>1 DEF Tallied
  <2>3. CASE loose' = {}
    <3>1. text[id] # 0
      BY <1>1, <1>3, <2>1, <2>3 DEF Place, PlaceStore, Holds
    <3>2. Tallied(thread[t], text[id])'
      BY <1>4, <2>1, <3>1 DEF Tallied
    <3>. QED  BY <1>1, <1>3, <1>4, <1>7, <2>1, <2>2, <3>2, CountMoves
  <2>. QED  BY <2>3 DEF Counting
<1>. QED  BY <1>7, <1>8 DEF MemoryInv

\* It does not count any more once they are deleted.
LEMMA ForgetCountKeeps ==
  ASSUME MemoryInv, NEW t \in Callers, M!ForgetCount(t)
  PROVE  MemoryInv'
<1>1. thread[t].at = "uncount" /\ M!Goto(t, "unindex") /\ thread[t].at \in Working
  BY DEF M!ForgetCount, M!At, Working, Storing, Forgetting
<1>2. PICK id \in Ids : id = M!IdOf(t)
  BY <1>1, OneFacts
<1>3. /\ thread[t] \in OnOne /\ thread[t].n \in Nat \ {0} /\ thread[t].ids = {id}
      /\ id \notin loose => Place(thread[t], id)
  BY <1>1, <1>2, OneFacts
<1>4. thread'[t].at = "unindex" /\ thread'[t].n = thread[t].n /\ thread'[t].was = thread[t].was
  BY <1>1, <1>3, GoesOn DEF MemoryInv, Working, Storing, Forgetting
<1>5. OnlyId(id)
  BY <1>2, <1>3 DEF OnlyId, M!ForgetCount, M!At, Same, M!durable, MemoryInv, MemShape, Dated
<1>6. id \notin loose' => Place(thread[t], id)'
  BY <1>1, <1>3, <1>4 DEF M!ForgetCount, M!At, M!durable, Place, PlaceStore, PlaceChange,
     PlaceForget, PlaceAll,
                          Holds, Gone, Storing, Forgetting, Sweeping
<1>7. /\ MemShape' /\ Dated' /\ Acts(t) /\ OneOwner' /\ Placed' /\ Resting' /\ thread'[t].ids = {id}
  BY <1>1, <1>2, <1>5, <1>6, OneMoves DEF Working, Storing, Forgetting
<1>8. Counting'
  <2>1. text' = text /\ count' = (IF count = 0 THEN 0 ELSE count - 1) /\ loose' = loose
    BY DEF M!ForgetCount, M!durable
  <2>2. Tallied(thread[t], text[id])
    BY <1>1 DEF Tallied
  <2>3. CASE loose' = {}
    <3>1. text[id] = 0
      BY <1>1, <1>3, <2>1, <2>3 DEF Place, PlaceForget, Gone, Holds
    <3>2. ~Tallied(thread[t], text[id])'
      BY <1>4, <2>1, <3>1 DEF Tallied
    <3>. QED  BY <1>1, <1>3, <1>4, <1>7, <2>1, <2>2, <3>2, CountMoves
  <2>. QED  BY <2>3 DEF Counting
<1>. QED  BY <1>7, <1>8 DEF MemoryInv

\* The meta data goes last; a forget of nothing ends there.
LEMMA ForgetMetaKeeps ==
  ASSUME MemoryInv, NEW t \in Callers, M!ForgetMeta(t)
  PROVE  MemoryInv'
<1>1. thread[t].at = "unmeta" /\ thread[t].at \in Working
  BY DEF M!ForgetMeta, M!At, Working, Storing, Forgetting
<1>2. PICK id \in Ids : id = M!IdOf(t)
  BY <1>1, OneFacts
<1>3. /\ thread[t] \in OnOne /\ thread[t].ids = {id}
      /\ id \notin loose => Place(thread[t], id)
  BY <1>1, <1>2, OneFacts
<1>4. /\ text' = text /\ vec' = vec /\ words' = words /\ index' = index /\ count' = count
      /\ next' = next /\ commands' = commands /\ loose' = loose
         /\ meta' = [meta EXCEPT ![id] = M!NoMeta]
  BY <1>2 DEF M!ForgetMeta, M!At, M!Put, M!mirrors
<1>5. OnlyId(id)
  <2>1. meta' \in [Ids -> MetaData] /\ meta'[id].sal = 0
    BY <1>4 DEF MemoryInv, MemShape, MetaData, M!NoMeta
  <2>. QED  BY <1>4, <2>1 DEF OnlyId, Same, MemoryInv, MemShape
<1>6. meta'[id] = M!NoMeta
  BY <1>4 DEF MemoryInv, MemShape
<1>7. CASE thread[t].was = M!NoMeta
  <2>1. M!Goto(t, "idle")
    BY <1>7 DEF M!ForgetMeta
  <2>2. id \notin loose' => Gone(id) /\ index[id] = Blank
    BY <1>1, <1>3, <1>4, <1>7 DEF Place, PlaceForget
  <2>3. id \notin loose' => AtRest(id)'
    BY <1>4, <1>6, <2>2 DEF AtRest, Gone, Holds, Blank, M!Entry, M!NoMeta
  <2>4. loose' = {} => (text'[id] # 0 <=> Tallied(thread[t], text[id]))
    BY <1>1, <1>4, <1>7, <2>2 DEF Tallied, Gone, Holds
  <2>. QED  BY <1>1, <1>2, <1>4, <1>5, <2>1, <2>3, <2>4, OneStep
<1>8. CASE thread[t].was # M!NoMeta
  <2>1. M!Goto(t, "uncount")
    BY <1>8 DEF M!ForgetMeta
  <2>2. thread'[t].at = "uncount" /\ thread'[t].n = thread[t].n /\ thread'[t].was = thread[t].was
    BY <2>1, <1>3, GoesOn DEF MemoryInv, Working, Storing, Forgetting
  <2>3. id \notin loose' => Gone(id)'
    BY <1>1, <1>3, <1>4, <1>6 DEF Place, PlaceForget, Gone, Holds
  <2>4. id \notin loose' => Place(thread[t], id)'
    BY <2>2, <2>3 DEF Place, PlaceStore, PlaceChange, PlaceForget, PlaceAll, Storing, Sweeping
  <2>5. Tallied(thread[t], text[id])' <=> Tallied(thread[t], text[id])
    BY <1>1, <1>8, <2>2 DEF Tallied
  <2>. QED  BY <1>1, <1>2, <1>4, <1>5, <2>1, <2>4, <2>5, OneStep DEF Working, Storing, Forgetting
<1>. QED  BY <1>7, <1>8

\* A command that a failure ends has done nothing, or leaves its record loose.
LEMMA CutShortKeeps ==
  ASSUME MemoryInv, NEW t \in Callers, M!CutShort(t)
  PROVE  MemoryInv'
<1>1. /\ thread[t].at \in {"text", "meta", "vec", "words", "change", "untext", "unmeta"}
      /\ thread[t].at \in Working /\ M!Goto(t, "idle")
  BY DEF M!CutShort, Working, Storing, Forgetting
<1>2. PICK id \in Ids : id = M!IdOf(t)
  BY <1>1, OneFacts
<1>3. /\ thread[t] \in OnOne /\ thread[t].ids = {id} /\ id \in Nat
      /\ id \notin loose => Place(thread[t], id)
  BY <1>1, <1>2, OneFacts
<1>4. /\ text' = text /\ meta' = meta /\ vec' = vec /\ words' = words /\ index' = index
         /\ count' = count
      /\ next' = next /\ commands' = commands
      /\ loose' = IF M!HalfDone(t) THEN loose \cup {id} ELSE loose
  BY <1>3 DEF M!CutShort, M!durable, M!mirrors
<1>5. OnlyId(id)
  BY <1>4 DEF OnlyId, Same, MemoryInv, MemShape, Dated
<1>6. ASSUME id \notin loose'
      PROVE  AtRest(id) /\ (text[id] # 0 <=> Tallied(thread[t], text[id]))
  <2>1. ~M!HalfDone(t) /\ Place(thread[t], id)
    BY <1>3, <1>4, <1>6
  <2>2. CASE thread[t].at = "change"
    BY <2>1, <2>2 DEF Place, PlaceChange, Tallied, Kept
  <2>3. CASE thread[t].at \in {"untext", "unmeta"} /\ thread[t].was = M!NoMeta
    BY <2>1, <2>3 DEF Place, PlaceForget, AtRest, Gone, Holds, Blank, Tallied
  <2>4. CASE thread[t].at = "text"
    BY <2>1, <2>4 DEF Place, PlaceStore, AtRest, Gone, Holds, Blank, Tallied, Storing
  <2>. QED  BY <1>1, <2>1, <2>2, <2>3, <2>4 DEF M!HalfDone
<1>7. id \notin loose' => AtRest(id)'
  BY <1>4, <1>6 DEF AtRest, Gone, Kept, Holds
<1>. QED  BY <1>1, <1>2, <1>4, <1>5, <1>6, <1>7, OneStep

-----------------------------------------------------------------------------
(* The commands. *)

\* A command starts on records that rest, unless it meets another command there.
LEMMA Starts ==
  ASSUME MemoryInv, NEW t \in Callers, NEW ids \in SUBSET Ids, NEW at, NEW with,
         M!Start(t, ids, at, with),
         \/ at \in Working /\ ids \in {{id} : id \in Ids} /\ with \in MetaData
            /\ with.sal <= commands + 1
         \/ at \in Sweeping /\ ids = Ids /\ with = M!NoMeta
  PROVE  /\ thread' \in [Callers -> {M!Idle} \cup OnOne \cup OnAll \cup Loading]
         /\ \A u \in Callers \ {t} : thread'[u] = thread[u]
            /\ ids \cap thread[u].ids \subseteq loose'
         /\ thread[t] = M!Idle /\ thread[t].ids = {} /\ thread[t].at = "idle"
         /\ thread'[t].at = at /\ thread'[t].ids = ids /\ thread'[t].n = commands + 1
            /\ thread'[t].was = with
         /\ commands \in Nat /\ commands' = commands + 1 /\ loose \subseteq loose'
            /\ loose' \subseteq Ids
         /\ \A id \in ids \ loose' : AtRest(id)
<1>. DEFINE th == [at |-> at, ids |-> ids, n |-> commands + 1, was |-> with]
<1>1. /\ thread[t] = M!Idle /\ thread' = [thread EXCEPT ![t] = th] /\ commands' = commands + 1
      /\ loose' = loose \cup (ids \cap UNION {thread[u].ids : u \in Callers})
  BY DEF M!Start
<1>2. commands \in Nat /\ loose \subseteq Ids
      /\ thread \in [Callers -> {M!Idle} \cup OnOne \cup OnAll \cup Loading]
  BY DEF MemoryInv, MemShape
<1>3. th \in OnOne \cup OnAll
  BY <1>2 DEF OnOne, OnAll, MetaData, M!NoMeta
<1>4. th.at = at /\ th.ids = ids /\ th.n = commands + 1 /\ th.was = with
  OBVIOUS
<1>5. /\ thread' \in [Callers -> {M!Idle} \cup OnOne \cup OnAll \cup Loading]
      /\ \A u \in Callers \ {t} : thread'[u] = thread[u]
      /\ thread'[t] = th
  <2>. HIDE DEF th
  <2>. QED  BY <1>1, <1>2, <1>3
<1>6. thread[t].ids = {} /\ thread[t].at = "idle"
  BY <1>1 DEF M!Idle
<1>7. loose \subseteq loose' /\ loose' \subseteq Ids
      /\ \A u \in Callers \ {t} : ids \cap thread[u].ids \subseteq loose'
  BY <1>1, <1>2
<1>8. \A id \in ids \ loose' : AtRest(id)
  BY <1>6, <1>7 DEF MemoryInv, Resting
<1>. HIDE DEF th
<1>. QED  BY <1>1, <1>2, <1>4, <1>5, <1>6, <1>7, <1>8

\* Where a thread is that has started.
LEMMA StartThread ==
  ASSUME MemoryInv, NEW t \in Callers, NEW ids, NEW at, NEW with, M!Start(t, ids, at, with)
  PROVE  thread'[t].at = at /\ thread'[t].n = commands + 1 /\ thread'[t].was = with
  BY DEF M!Start, MemoryInv, MemShape

\* It changes nothing yet, but may take a number.
OnlyStarts ==
  /\ text' = text /\ meta' = meta /\ vec' = vec /\ words' = words /\ index' = index
     /\ count' = count
  /\ next' \in {next, next + 1}
Early == (Working \cup Sweeping) \ {"meta", "vec", "words", "count", "unmeta", "uncount", "reset"}

\* A command whose first step expects its records at rest keeps the invariant.
LEMMA StartKeeps ==
  ASSUME MemoryInv, NEW t \in Callers, NEW ids \in SUBSET Ids, NEW at \in Early, NEW with,
         M!Start(t, ids, at, with), OnlyStarts,
         \/ at \in Working /\ ids \in {{id} : id \in Ids} /\ with \in MetaData
            /\ with.sal <= commands + 1
         \/ at \in Sweeping /\ ids = Ids /\ with = M!NoMeta,
         \A id \in ids \ loose' : AtRest(id) => Place(thread[t], id)'
  PROVE  MemoryInv'
<1>1. /\ thread' \in [Callers -> {M!Idle} \cup OnOne \cup OnAll \cup Loading]
      /\ \A u \in Callers \ {t} : thread'[u] = thread[u] /\ ids \cap thread[u].ids \subseteq loose'
      /\ thread[t] = M!Idle /\ thread[t].ids = {} /\ thread[t].at = "idle"
      /\ thread'[t].at = at /\ thread'[t].ids = ids /\ thread'[t].n = commands + 1
         /\ thread'[t].was = with
      /\ commands \in Nat /\ commands' = commands + 1 /\ loose \subseteq loose'
         /\ loose' \subseteq Ids
      /\ \A id \in ids \ loose' : AtRest(id)
  <2>1. M!Start(t, ids, at, with)
    OBVIOUS
  <2>. QED  BY <2>1, Starts
<1>2. next \in Nat \ {0} /\ next' \in Nat \ {0} /\ next <= next'
  BY DEF MemoryInv, MemShape, OnlyStarts
<1>3. MemShape'
  BY <1>1, <1>2 DEF MemoryInv, MemShape, OnlyStarts
<1>4. Dated'
  <2>1. \A id \in Ids : meta'[id].sal <= commands'
    <3>1. \A id \in Ids : meta[id].sal \in Nat
      BY DEF MemoryInv, MemShape, MetaData
    <3>2. \A id \in Ids : meta[id].sal <= commands /\ meta'[id] = meta[id]
      BY DEF MemoryInv, Dated, OnlyStarts
    <3>. QED  BY <1>1, <3>1, <3>2
  <2>2. ASSUME NEW u \in Callers, thread'[u].at \in Working
        PROVE  thread'[u].was.sal <= commands'
    <3>1. CASE u = t
      <4>1. at \in Working
        BY <1>1, <2>2, <3>1
      <4>2. with.sal <= commands + 1
        BY <4>1 DEF Working, Sweeping, Storing, Forgetting
      <4>. QED  BY <1>1, <3>1, <4>2
    <3>2. CASE u # t
      <4>1. thread'[u] = thread[u]
        BY <1>1, <3>2
      <4>2. thread[u].was \in MetaData
        BY <2>2, <4>1, AtTells DEF MemoryInv, OnOne
      <4>3. thread[u].was.sal \in Nat /\ thread[u].was.sal <= commands
        BY <2>2, <4>1, <4>2 DEF MetaData, MemoryInv, Dated
      <4>. QED  BY <1>1, <4>1, <4>3
    <3>. QED  BY <3>1, <3>2
  <2>. QED  BY <2>1, <2>2 DEF Dated
<1>5. Acts(t)
  BY <1>1, <1>2 DEF Acts, Same, OnlyStarts
<1>6. OneOwner' /\ Placed' /\ Resting'
  <2>1. \A id \in thread'[t].ids \ loose' : Place(thread[t], id)'
    BY <1>1
  <2>2. \A id \in thread[t].ids \ (thread'[t].ids \cup loose') : AtRest(id)'
    BY <1>1
  <2>. QED  BY <1>3, <1>5, <2>1, <2>2, ActsKeeps
<1>7. Counting'
  <2>1. thread[t].at # "reset" /\ thread'[t].at # "install" /\ count' = count
    BY <1>1 DEF OnlyStarts, Early, Working, Sweeping, Storing, Forgetting
  <2>2. \A id \in Ids : Tallied(thread[t], text[id])' <=> text[id] # 0
    BY <1>1 DEF Tallied, OnlyStarts, Early
  <2>3. thread[t].ids \subseteq Ids /\ thread'[t].ids \subseteq Ids
    BY <1>1
  <2>4. loose' = {} => \A j \in Ids :
           /\ j \in thread[t].ids /\ j \in thread'[t].ids =>
                (Tallied(thread[t], text[j])' <=> Tallied(thread[t], text[j]))
           /\ j \in thread[t].ids /\ j \notin thread'[t].ids =>
                (text'[j] # 0 <=> Tallied(thread[t], text[j]))
           /\ j \notin thread[t].ids /\ j \in thread'[t].ids =>
                (Tallied(thread[t], text[j])' <=> text[j] # 0)
    BY <1>1, <2>2
  <2>. QED  BY <1>3, <1>5, <1>6, <2>1, <2>3, <2>4, CountStands
<1>. QED  BY <1>3, <1>4, <1>6, <1>7 DEF MemoryInv

\* A store takes the next id, which nothing has.
LEMMA StoreKeeps ==
  ASSUME MemoryInv, NEW t \in Callers, M!Store(t)
  PROVE  MemoryInv'
<1>1. PICK id \in Ids : id = next
  BY DEF M!Store
<1>2. M!Start(t, {id}, "text", M!NoMeta) /\ next' = next + 1
  BY <1>1 DEF M!Store
<1>3. OnlyStarts
  BY DEF M!Store, OnlyStarts, M!durable
<1>4. "text" \in Working /\ "text" \in Early /\ {id} \in SUBSET Ids /\ {id} \in {{j} : j \in Ids}
  BY DEF Working, Early, Storing
<1>5. M!NoMeta \in MetaData /\ M!NoMeta.sal <= commands + 1
  BY DEF M!NoMeta, MetaData, MemoryInv, MemShape
<1>6. thread'[t].at = "text"
  BY <1>2, StartThread
<1>7. AtRest(id) => Place(thread[t], id)'
  <2>1. next \in Nat /\ id \in Nat
    BY IdsAreNat DEF MemoryInv, MemShape
  <2>2. AtRest(id) => Gone(id) /\ index[id] = Blank /\ id < next'
    BY <1>1, <1>2, <2>1 DEF AtRest, Gone, Holds, Blank
  <2>3. AtRest(id) => Gone(id)' /\ index'[id] = Blank /\ id < next'
    BY <1>3, <2>2 DEF OnlyStarts, Gone, Holds
  <2>. QED  BY <1>6, <2>3 DEF Place, PlaceStore, PlaceChange, PlaceForget, PlaceAll, Forgetting,
               Sweeping, Blank, M!Entry
<1>. QED  BY <1>2, <1>3, <1>4, <1>5, <1>7, StartKeeps

\* An invalidation or a touch reads a record that is there.
LEMMA ChangeKeeps ==
  ASSUME MemoryInv, NEW t \in Callers, M!Change(t)
  PROVE  MemoryInv'
<1>1. PICK id \in Ids, field \in {"sal", "to"} :
        M!Exists(id) /\ M!Start(t, {id}, "change", [meta[id] EXCEPT ![field] = commands + 1])
  BY DEF M!Change
<1>2. OnlyStarts /\ next' = next
  BY DEF M!Change, OnlyStarts, M!durable, M!mirrors
<1>3. PICK was : was = [meta[id] EXCEPT ![field] = commands + 1]
  OBVIOUS
<1>4. meta[id] \in MetaData /\ meta[id].sal \in Nat /\ meta[id].sal <= commands /\ commands \in Nat
  BY DEF MemoryInv, MemShape, Dated, MetaData
<1>5. was \in MetaData /\ was.sal <= commands + 1 /\ After(meta[id], was, commands + 1)
  <2>1. CASE field = "sal"
    <3>1. was = [meta[id] EXCEPT !.sal = commands + 1]
      BY <1>3, <2>1
    <3>. QED  BY <1>4, <3>1 DEF MetaData, After
  <2>2. CASE field = "to"
    <3>1. was = [meta[id] EXCEPT !.to = commands + 1]
      BY <1>3, <2>2
    <3>2. was \in MetaData /\ was.sal = meta[id].sal
      BY <1>4, <3>1 DEF MetaData
    <3>. QED  BY <1>4, <3>1, <3>2 DEF After
  <2>. QED  BY <2>1, <2>2
<1>6. M!Start(t, {id}, "change", was)
  BY <1>1, <1>3
<1>7. "change" \in Working /\ "change" \in Early /\ {id} \in SUBSET Ids
      /\ {id} \in {{j} : j \in Ids}
  BY DEF Working, Early
<1>8. thread'[t].at = "change" /\ thread'[t].n = commands + 1 /\ thread'[t].was = was
  BY <1>6, StartThread
<1>9. AtRest(id) => Place(thread[t], id)'
  <2>1. AtRest(id) => Kept(id)
    BY <1>1 DEF AtRest, Gone, Holds, M!Exists
  <2>2. AtRest(id) => AtRest(id)' /\ Kept(id)'
    BY <1>2, <2>1 DEF OnlyStarts, AtRest, Kept, Gone, Holds
  <2>3. After(meta[id], thread[t].was, thread[t].n)'
    BY <1>2, <1>5, <1>8 DEF OnlyStarts, After
  <2>. QED  BY <1>8, <2>2, <2>3 DEF Place, PlaceStore, PlaceChange, PlaceForget, PlaceAll,
               Storing, Forgetting, Sweeping
<1>. QED  BY <1>2, <1>5, <1>6, <1>7, <1>9, StartKeeps

\* A forget, of a record or of nothing.
LEMMA ForgetKeeps ==
  ASSUME MemoryInv, NEW t \in Callers, M!Forget(t)
  PROVE  MemoryInv'
<1>1. PICK id \in Ids : M!Start(t, {id}, IF M!Exists(id) THEN "unwords" ELSE "unvec",
           IF M!Exists(id) THEN meta[id] ELSE M!NoMeta)
  BY DEF M!Forget
<1>2. OnlyStarts /\ next' = next
  BY DEF M!Forget, OnlyStarts, M!durable, M!mirrors
<1>3. {id} \in SUBSET Ids /\ {id} \in {{j} : j \in Ids}
  OBVIOUS
<1>4. AtRest(id) => AtRest(id)'
  BY <1>2 DEF OnlyStarts, MemoryInv, MemShape, AtRest, Kept, Gone, Holds
<1>5. CASE M!Exists(id)
  <2>1. PICK was : was = meta[id]
    OBVIOUS
  <2>2. M!Start(t, {id}, "unwords", was)
    BY <1>1, <1>5, <2>1
  <2>3. was \in MetaData /\ was.sal <= commands + 1 /\ "unwords" \in Working /\ "unwords" \in Early
    BY <2>1 DEF MemoryInv, MemShape, Dated, MetaData, Working, Forgetting, Early
  <2>4. thread'[t].at = "unwords" /\ thread'[t].was = was
    BY <2>2, StartThread
  <2>5. AtRest(id) => AtRest(id)' /\ Kept(id)' /\ was # M!NoMeta
    BY <1>2, <1>4, <1>5, <2>1 DEF OnlyStarts, AtRest, Gone, Kept, Holds, M!Exists
  <2>6. AtRest(id) => Place(thread[t], id)'
    BY <2>4, <2>5 DEF Place, PlaceStore, PlaceChange, PlaceForget, PlaceAll, Storing, Sweeping,
       M!NoMeta
  <2>. QED  BY <1>2, <1>3, <2>2, <2>3, <2>6, StartKeeps
<1>6. CASE ~M!Exists(id)
  <2>1. M!Start(t, {id}, "unvec", M!NoMeta)
    BY <1>1, <1>6
  <2>2. M!NoMeta \in MetaData /\ M!NoMeta.sal <= commands + 1 /\ "unvec" \in Working
        /\ "unvec" \in Early
    BY DEF MemoryInv, MemShape, MetaData, M!NoMeta, Working, Forgetting, Early
  <2>3. thread'[t].at = "unvec" /\ thread'[t].was = M!NoMeta
    BY <2>1, StartThread
  <2>4. Kept(id) => M!Exists(id)
    BY DEF Kept, M!Exists, Holds, M!NoMeta
  <2>5. AtRest(id) => Gone(id)' /\ index'[id] = Blank
    BY <1>2, <1>6, <2>4 DEF OnlyStarts, AtRest, Gone, Holds, Blank
  <2>6. AtRest(id) => Place(thread[t], id)'
    BY <2>3, <2>5 DEF Place, PlaceStore, PlaceChange, PlaceForget, PlaceAll, Storing, Sweeping,
       M!NoMeta, Blank, M!Entry,
                      Gone, Holds
  <2>. QED  BY <1>2, <1>3, <2>1, <2>2, <2>6, StartKeeps
<1>. QED  BY <1>5, <1>6

\* A FLUSHALL and a reload are about every record.
LEMMA SweepKeeps ==
  ASSUME MemoryInv, NEW t \in Callers, M!Flush(t) \/ M!Reload(t)
  PROVE  MemoryInv'
<1>1. PICK at \in {"wipe", "scan"} : M!Start(t, Ids, at, M!NoMeta)
  BY DEF M!Flush, M!Reload
<1>2. OnlyStarts
  BY DEF M!Flush, M!Reload, OnlyStarts, M!durable, M!mirrors
<1>3. at \in Sweeping /\ at \in Early /\ Ids \in SUBSET Ids
  BY DEF Sweeping, Early
<1>4. thread'[t].at = at
  BY <1>1, StartThread
<1>5. ASSUME NEW id \in Ids, AtRest(id)
      PROVE  Place(thread[t], id)'
  <2>1. AtRest(id)'
    BY <1>2, <1>5 DEF OnlyStarts, MemoryInv, MemShape, AtRest, Kept, Gone, Holds, M!Flush,
       M!Reload, M!mirrors
  <2>2. thread'[t].at \in {"wipe", "scan"}
    BY <1>4
  <2>. QED  BY <2>1, <2>2 DEF Place, PlaceStore, PlaceChange, PlaceForget, PlaceAll, Storing,
               Forgetting
<1>. QED  BY <1>1, <1>2, <1>3, <1>5, StartKeeps

-----------------------------------------------------------------------------
(* The steps about every record. *)

\* A thread that works on every record has each that is not loose.
LEMMA AllFacts ==
  ASSUME MemoryInv, NEW t \in Callers, thread[t].at \in Sweeping \cup {"install"}
  PROVE  /\ thread[t].ids = Ids
         /\ \A id \in Ids \ loose : Place(thread[t], id)
         /\ \A u \in Callers \ {t} : thread[u].ids \cap Ids \subseteq loose
<1>1. thread[t].ids = Ids
  BY AtTells DEF MemoryInv, OnAll, Loading
<1>2. \A id \in Ids \ loose : Place(thread[t], id)
  BY <1>1 DEF MemoryInv, Placed
<1>3. \A u \in Callers \ {t} : thread[u].ids \cap Ids \subseteq loose
  BY <1>1 DEF MemoryInv, OneOwner
<1>. QED  BY <1>1, <1>2, <1>3

\* Such a step acts.
LEMMA AllActs ==
  ASSUME MemoryInv, NEW t \in Callers, thread[t].at \in Sweeping \cup {"install"}, loose' = loose,
         \A u \in Callers \ {t} : thread'[u] = thread[u], thread'[t].ids \subseteq Ids
  PROVE  Acts(t)
  BY AllFacts DEF Acts

\* After it, only the records of loose ids have an owner.
LEMMA NobodyThen ==
  ASSUME MemoryInv, NEW t \in Callers, thread[t].at \in Sweeping \cup {"install"},
         M!Goto(t, "idle"), loose = {}
  PROVE  \A id \in Ids, u \in Callers : id \notin thread'[u].ids
<1>1. thread'[t].ids = {} /\ \A u \in Callers \ {t} : thread'[u] = thread[u]
  BY GoesIdle DEF MemoryInv
<1>. QED  BY <1>1, AllFacts

\* The engine is empty.
LEMMA FlushStoreKeeps ==
  ASSUME MemoryInv, NEW t \in Callers, M!FlushStore(t)
  PROVE  MemoryInv'
<1>1. thread[t].at = "wipe" /\ M!Goto(t, "reset") /\ thread[t].at \in Sweeping
  BY DEF M!FlushStore, M!At, Sweeping
<1>2. /\ text' = M!Nowhere /\ vec' = M!Nowhere /\ words' = M!Nowhere
         /\ meta' = [id \in Ids |-> M!NoMeta]
      /\ index' = index /\ count' = count /\ next' = next /\ loose' = loose /\ commands' = commands
  BY DEF M!FlushStore, M!At, M!mirrors
<1>3. thread[t] \in OnAll /\ MemShape /\ thread[t].ids = Ids
  BY <1>1, AtTells, AllFacts DEF MemoryInv
<1>4. /\ thread' \in [Callers -> {M!Idle} \cup OnOne \cup OnAll \cup Loading]
      /\ \A u \in Callers \ {t} : thread'[u] = thread[u]
      /\ thread'[t].at = "reset" /\ thread'[t].ids = Ids
  <2>. DEFINE th == [thread[t] EXCEPT !.at = "reset"]
  <2>1. thread' = [thread EXCEPT ![t] = th]
    BY <1>1 DEF M!Goto
  <2>2. th \in OnAll /\ th.at = "reset" /\ th.ids = Ids
    BY <1>3 DEF OnAll, Sweeping
  <2>3. thread \in [Callers -> {M!Idle} \cup OnOne \cup OnAll \cup Loading]
    BY <1>3 DEF MemShape
  <2>. HIDE DEF th
  <2>. QED  BY ONLY <2>1, <2>2, <2>3, t \in Callers
<1>5. MemShape'
  BY <1>2, <1>3, <1>4 DEF MemShape, M!Nowhere, MetaData, M!NoMeta
<1>6. Dated'
  <2>1. \A id \in Ids : meta'[id].sal <= commands'
    BY <1>2, <1>3 DEF MemShape, M!NoMeta
  <2>2. \A u \in Callers : thread'[u].at \in Working => thread'[u].was.sal <= commands'
    BY <1>2, <1>4 DEF MemoryInv, Dated, Working, Storing, Forgetting
  <2>. QED  BY <2>1, <2>2 DEF Dated
<1>7. Acts(t)
  BY <1>1, <1>2, <1>4, AllActs
<1>8. OneOwner' /\ Placed' /\ Resting'
  <2>1. \A id \in Ids : Gone(id)'
    BY <1>2 DEF Gone, Holds, M!Nowhere
  <2>2. \A id \in Ids : Place(thread[t], id)'
    BY <1>4, <2>1 DEF Place, PlaceStore, PlaceChange, PlaceForget, PlaceAll, Storing, Forgetting
  <2>. QED  BY <1>3, <1>4, <1>5, <1>7, <2>2, ActsKeeps
<1>9. Counting'
  <2>1. loose' = {} => \A u \in Callers : thread'[u].at = "install"
        => thread'[u].scan.count = Cardinality(TextIds')
    BY <1>4, <1>5, <1>7, ScanStays
  <2>. QED  BY <1>4, <2>1 DEF Counting
<1>. QED  BY <1>5, <1>6, <1>8, <1>9 DEF MemoryInv

\* And so are the mirrors.
LEMMA FlushMirrorsKeeps ==
  ASSUME MemoryInv, NEW t \in Callers, M!FlushMirrors(t)
  PROVE  MemoryInv'
<1>1. thread[t].at = "reset" /\ M!Goto(t, "idle") /\ thread[t].at \in Sweeping
  BY DEF M!FlushMirrors, M!At, Sweeping
<1>2. /\ text' = text /\ vec' = vec /\ words' = words /\ meta' = meta
      /\ index' = [id \in Ids |-> Blank] /\ count' = 0 /\ next' = 1 /\ loose' = loose
         /\ commands' = commands
  BY DEF M!FlushMirrors, M!At, M!durable, Blank
<1>3. MemShape /\ thread[t].ids = Ids
  BY <1>1, AllFacts DEF MemoryInv
<1>4. /\ thread' \in [Callers -> {M!Idle} \cup OnOne \cup OnAll \cup Loading]
      /\ \A u \in Callers \ {t} : thread'[u] = thread[u]
      /\ thread'[t].at = "idle" /\ thread'[t].ids = {}
  BY <1>1, <1>3, GoesIdle
<1>5. MemShape'
  BY <1>2, <1>3, <1>4 DEF MemShape, EntryOf, Blank, M!Entry, MetaData, M!NoMeta
<1>6. Dated'
  BY <1>2, <1>4 DEF MemoryInv, Dated, Working, Storing, Forgetting
<1>7. Acts(t)
  BY <1>1, <1>2, <1>4, AllActs
<1>8. \A id \in Ids \ loose : Gone(id)
  BY <1>1, AllFacts DEF Place, PlaceAll
<1>9. OneOwner' /\ Placed' /\ Resting'
  <2>1. \A id \in Ids \ loose' : AtRest(id)'
    BY <1>2, <1>8 DEF AtRest, Gone, Holds, Blank, M!Entry, M!NoMeta
  <2>. QED  BY <1>3, <1>4, <1>5, <1>7, <2>1, ActsKeeps
<1>10. Counting'
  <2>1. loose' = {} => \A u \in Callers : thread'[u].at = "install"
        => thread'[u].scan.count = Cardinality(TextIds')
    BY <1>4, <1>5, <1>7, ScanStays
  <2>2. ASSUME loose' = {}
        PROVE  count' = Cardinality(Counted')
    <3>1. \A id \in Ids : text'[id] = 0 /\ \A u \in Callers : id \notin thread'[u].ids
      BY <1>1, <1>2, <1>8, <2>2, NobodyThen DEF Gone, Holds
    <3>2. Counted' = {}
      BY <3>1 DEF Counted
    <3>. QED  BY <1>2, <3>2, FS_EmptySet
  <2>. QED  BY <2>1, <2>2 DEF Counting
<1>. QED  BY <1>5, <1>6, <1>9, <1>10 DEF MemoryInv

\* What a scan of the engine finds.
LEMMA ScanFinds ==
  ASSUME MemShape
  PROVE  /\ M!Scanned.index \in [Ids -> EntryOf] /\ M!Scanned.count \in Nat
            /\ M!Scanned.next \in Nat \ {0}
         /\ M!Scanned.count = Cardinality(TextIds)
         /\ \A id \in Ids : Gone(id) \/ Kept(id) => M!Scanned.index[id] = M!Entry(meta[id], vec[id])
         /\ \A id \in Ids : text[id] # 0 => id < M!Scanned.next
         /\ M!Scanned = [index |-> M!Scanned.index, count |-> M!Scanned.count,
            next |-> M!Scanned.next]
<1>1. /\ M!Scanned.index = [id \in Ids |-> IF M!Exists(id) THEN M!Entry(meta[id],
         vec[id]) ELSE M!Entry(M!NoMeta, 0)]
      /\ M!Scanned.count = Cardinality(TextIds)
      /\ M!Scanned.next = M!MaxOf(TextIds) + 1
      /\ M!Scanned = [index |-> M!Scanned.index, count |-> M!Scanned.count, next |-> M!Scanned.next]
  <2>1. TextIds = {id \in Ids : text[id] # 0}
    BY DEF TextIds
  <2>2. M!Scanned = [index |-> [id \in Ids |-> IF M!Exists(id) THEN M!Entry(meta[id],
        vec[id]) ELSE M!Entry(M!NoMeta, 0)],
                   count |-> Cardinality(TextIds), next |-> M!MaxOf(TextIds) + 1]
    BY <2>1, SameSize DEF M!Scanned
  <2>. QED  BY ONLY <2>2
<1>2. TextIds \in SUBSET Ids
  BY DEF TextIds
<1>3. M!MaxOf(TextIds) \in Nat /\ \A id \in TextIds : id <= M!MaxOf(TextIds)
  BY <1>2, MaxOfBounds
<1>4. \A id \in Ids : meta[id] \in MetaData /\ vec[id] \in Nat
  BY DEF MemShape
<1>5. M!Scanned.index \in [Ids -> EntryOf]
  <2>1. \A id \in Ids : (IF M!Exists(id) THEN M!Entry(meta[id], vec[id]) ELSE M!Entry(M!NoMeta,
        0)) \in EntryOf
    BY <1>4 DEF EntryOf, M!Entry, MetaData, M!NoMeta
  <2>. QED  BY <1>1, <2>1
<1>6. \A id \in Ids : text[id] # 0 => id < M!Scanned.next
  <2>1. \A id \in Ids : id \in Nat /\ (text[id] # 0 => id \in TextIds)
    BY IdsAreNat DEF TextIds
  <2>. QED  BY <1>1, <1>3, <2>1
<1>7. ASSUME NEW id \in Ids, Gone(id) \/ Kept(id)
      PROVE  M!Scanned.index[id] = M!Entry(meta[id], vec[id])
  <2>1. CASE Gone(id)
    BY <1>1, <2>1 DEF Gone, Holds, M!Exists
  <2>2. CASE Kept(id)
    <3>1. M!Exists(id)
      BY <2>2 DEF Kept, Holds, M!Exists, M!NoMeta
    <3>. QED  BY <1>1, <3>1
  <2>. QED  BY <1>7, <2>1, <2>2
<1>8. M!Scanned.count \in Nat
  BY <1>1, <1>2, IdsFinite
<1>. QED  BY <1>1, <1>3, <1>5, <1>6, <1>7, <1>8

\* A reload reads the engine.
LEMMA ReloadScanKeeps ==
  ASSUME MemoryInv, NEW t \in Callers, M!ReloadScan(t)
  PROVE  MemoryInv'
<1>. DEFINE th == [at |-> "install", ids |-> thread[t].ids, scan |-> M!Scanned]
<1>1. /\ thread[t].at = "scan" /\ thread[t].at \in Sweeping
      /\ thread' = [thread EXCEPT ![t] = th]
  BY DEF M!ReloadScan, M!At, Sweeping
<1>2. /\ text' = text /\ vec' = vec /\ words' = words /\ meta' = meta
      /\ index' = index /\ count' = count /\ next' = next /\ loose' = loose /\ commands' = commands
  BY DEF M!ReloadScan, M!At, M!mirrors, M!durable
<1>3. MemShape /\ thread[t].ids = Ids
  BY <1>1, AllFacts DEF MemoryInv
<1>4. /\ M!Scanned.index \in [Ids -> EntryOf] /\ M!Scanned.count \in Nat
         /\ M!Scanned.next \in Nat \ {0}
      /\ M!Scanned.count = Cardinality(TextIds)
      /\ \A id \in Ids : Gone(id) \/ Kept(id) => M!Scanned.index[id] = M!Entry(meta[id], vec[id])
      /\ \A id \in Ids : text[id] # 0 => id < M!Scanned.next
      /\ M!Scanned = [index |-> M!Scanned.index, count |-> M!Scanned.count, next |-> M!Scanned.next]
  BY <1>3, ScanFinds
<1>5. th \in Loading /\ th.at = "install" /\ th.ids = Ids /\ th.scan = M!Scanned
  <2>1. [index |-> M!Scanned.index, count |-> M!Scanned.count, next |-> M!Scanned.next]
          \in [index : [Ids -> EntryOf], count : Nat, next : Nat \ {0}]
    BY <1>4
  <2>2. M!Scanned \in [index : [Ids -> EntryOf], count : Nat, next : Nat \ {0}]
    BY <1>4, <2>1
  <2>. QED  BY <1>3, <2>2 DEF Loading
<1>6. /\ thread' \in [Callers -> {M!Idle} \cup OnOne \cup OnAll \cup Loading]
      /\ \A u \in Callers \ {t} : thread'[u] = thread[u]
      /\ thread'[t] = th
  <2>1. thread \in [Callers -> {M!Idle} \cup OnOne \cup OnAll \cup Loading]
    BY <1>3 DEF MemShape
  <2>. HIDE DEF th
  <2>. QED  BY ONLY <1>1, <1>5, <2>1, t \in Callers
<1>. HIDE DEF th
<1>7. MemShape'
  BY <1>2, <1>3, <1>6 DEF MemShape
<1>8. thread'[t].at = "install" /\ thread'[t].ids = Ids /\ thread'[t].scan = M!Scanned
  BY <1>5, <1>6
<1>9. Dated'
  BY <1>2, <1>6, <1>8 DEF MemoryInv, Dated, Working, Storing, Forgetting
<1>10. Acts(t)
  BY <1>1, <1>2, <1>6, <1>8, AllActs
<1>11. OneOwner' /\ Placed' /\ Resting'
  <2>1. ASSUME NEW id \in Ids \ loose'
        PROVE  Place(thread[t], id)'
    <3>1. AtRest(id)
      BY <1>1, <1>2, AllFacts DEF Place, PlaceAll
    <3>2. AtRest(id)'
      BY <1>2, <3>1 DEF AtRest, Gone, Kept, Holds
    <3>3. M!Scanned.index[id] = index[id] /\ (text[id] # 0 => id < M!Scanned.next)
      BY <1>4, <3>1 DEF AtRest
    <3>. QED  BY <1>2, <1>8, <3>2, <3>3
              DEF Place, PlaceStore, PlaceChange, PlaceForget, PlaceAll, Storing, Forgetting
  <2>. QED  BY <1>3, <1>7, <1>8, <1>10, <2>1, ActsKeeps
<1>12. Counting'
  <2>1. TextIds' = TextIds
    BY <1>2 DEF TextIds
  <2>2. ASSUME loose' = {}, NEW u \in Callers, thread'[u].at = "install"
        PROVE  thread'[u].scan.count = Cardinality(TextIds')
    <3>1. CASE u = t
      BY <1>4, <1>8, <2>1, <3>1
    <3>2. CASE u # t
      BY <1>2, <1>6, <2>1, <2>2, <3>2 DEF MemoryInv, Counting
    <3>. QED  BY <3>1, <3>2
  <2>3. loose' = {} /\ (\A u \in Callers : thread'[u].at # "reset")
        => count' = Cardinality(Counted')
    <3>1. \A id \in Ids : Tallied(thread[t], text[id])' <=> Tallied(thread[t], text[id])
      BY <1>1, <1>2, <1>8 DEF Tallied
    <3>2. thread[t].at # "reset"
      BY <1>1
    <3>. QED  BY <1>2, <1>3, <1>7, <1>8, <1>10, <1>11, <3>1, <3>2, CountSame
  <2>. QED  BY <2>2, <2>3 DEF Counting
<1>. QED  BY <1>7, <1>9, <1>11, <1>12 DEF MemoryInv

\* And installs what it read.
LEMMA ReloadInstallKeeps ==
  ASSUME MemoryInv, NEW t \in Callers, M!ReloadInstall(t)
  PROVE  MemoryInv'
<1>1. thread[t].at = "install" /\ M!Goto(t, "idle")
  BY DEF M!ReloadInstall, M!At
<1>2. /\ text' = text /\ vec' = vec /\ words' = words /\ meta' = meta /\ loose' = loose
         /\ commands' = commands
      /\ index' = thread[t].scan.index /\ count' = thread[t].scan.count
         /\ next' = thread[t].scan.next
  BY DEF M!ReloadInstall, M!At, M!Install, M!durable
<1>3. MemShape /\ thread[t].ids = Ids /\ thread[t] \in Loading
  BY <1>1, AllFacts, AtTells DEF MemoryInv
<1>4. index' \in [Ids -> EntryOf] /\ count' \in Nat /\ next' \in Nat \ {0}
  BY <1>2, <1>3 DEF Loading
<1>5. /\ thread' \in [Callers -> {M!Idle} \cup OnOne \cup OnAll \cup Loading]
      /\ \A u \in Callers \ {t} : thread'[u] = thread[u]
      /\ thread'[t].at = "idle" /\ thread'[t].ids = {}
  BY <1>1, <1>3, GoesIdle
<1>6. MemShape'
  BY <1>2, <1>3, <1>4, <1>5 DEF MemShape
<1>7. Dated'
  BY <1>2, <1>5 DEF MemoryInv, Dated, Working, Storing, Forgetting
<1>8. Acts(t)
  BY <1>1, <1>2, <1>5, AllActs
<1>9. OneOwner' /\ Placed' /\ Resting'
  <2>1. ASSUME NEW id \in Ids \ loose'
        PROVE  AtRest(id)'
    <3>1. /\ AtRest(id) /\ thread[t].scan.index[id] = index[id]
          /\ text[id] # 0 => id < thread[t].scan.next
      BY <1>1, <1>2, AllFacts DEF Place, PlaceAll
    <3>. QED  BY <1>2, <3>1 DEF AtRest, Gone, Kept, Holds
  <2>. QED  BY <1>3, <1>5, <1>6, <1>8, <2>1, ActsKeeps
<1>10. Counting'
  <2>1. loose' = {} => \A u \in Callers : thread'[u].at = "install"
        => thread'[u].scan.count = Cardinality(TextIds')
    BY <1>5, <1>6, <1>8, ScanStays
  <2>2. ASSUME loose' = {}
        PROVE  count' = Cardinality(Counted')
    <3>1. \A id \in Ids, u \in Callers : id \notin thread'[u].ids
      BY <1>1, <1>2, <2>2, NobodyThen
    <3>2. Counted' = TextIds
      BY <1>2, <3>1 DEF Counted, TextIds
    <3>3. thread[t].scan.count = Cardinality(TextIds)
      BY <1>1, <1>2, <2>2 DEF MemoryInv, Counting
    <3>. QED  BY <1>2, <3>2, <3>3
  <2>. QED  BY <2>1, <2>2 DEF Counting
<1>. QED  BY <1>6, <1>7, <1>9, <1>10 DEF MemoryInv

\* A restart finds what the commands it cut short left.
LEMMA RestartKeeps ==
  ASSUME MemoryInv, M!Restart
  PROVE  MemoryInv'
<1>1. /\ text' = text /\ vec' = vec /\ words' = words /\ meta' = meta /\ commands' = commands
      /\ index' = M!Scanned.index /\ count' = M!Scanned.count /\ next' = M!Scanned.next
      /\ loose' = loose \cup UNION {thread[u].ids : u \in {v \in Callers : M!HalfDone(v)}}
      /\ thread' = [t \in Callers |-> M!Idle]
  BY DEF M!Restart, M!Install, M!durable
<1>2. MemShape /\ \A t \in Callers : thread[t].ids \subseteq Ids
  BY DEF MemoryInv, MemShape, M!Idle, OnOne, OnAll, Loading
<1>3. /\ M!Scanned.index \in [Ids -> EntryOf] /\ M!Scanned.count \in Nat
         /\ M!Scanned.next \in Nat \ {0}
      /\ M!Scanned.count = Cardinality(TextIds)
      /\ \A id \in Ids : Gone(id) \/ Kept(id) => M!Scanned.index[id] = M!Entry(meta[id], vec[id])
      /\ \A id \in Ids : text[id] # 0 => id < M!Scanned.next
  BY <1>2, ScanFinds
<1>4. loose \subseteq loose' /\ loose' \subseteq Ids
  BY <1>1, <1>2 DEF MemShape
<1>5. MemShape'
  BY <1>1, <1>2, <1>3, <1>4 DEF MemShape
<1>6. \A t \in Callers : thread'[t] = M!Idle /\ thread'[t].ids = {} /\ thread'[t].at = "idle"
  BY <1>1 DEF M!Idle
<1>7. Dated'
  BY <1>1, <1>6 DEF MemoryInv, Dated, Working, Storing, Forgetting
<1>8. OneOwner' /\ Placed'
  BY <1>6 DEF OneOwner, Placed
<1>9. ASSUME NEW id \in Ids \ loose'
      PROVE  Gone(id) \/ Kept(id)
  <2>1. CASE \A t \in Callers : id \notin thread[t].ids
    BY <1>4, <2>1 DEF MemoryInv, Resting, AtRest
  <2>2. CASE \E t \in Callers : id \in thread[t].ids
    <3>1. PICK t \in Callers : id \in thread[t].ids
      BY <2>2
    <3>2. Place(thread[t], id) /\ ~M!HalfDone(t)
      BY <1>1, <1>4, <3>1 DEF MemoryInv, Placed
    <3>3. thread[t].at \in Working \cup Sweeping \cup {"install"}
      BY <1>2, <3>1, AtTells DEF M!Idle
    <3>4. CASE thread[t].at \in Storing
      <4>1. thread[t].at \in {"text", "count", "index"}
        BY <3>2, <3>4 DEF M!HalfDone, Storing
      <4>2. thread[t].n \in Nat \ {0}
        BY <1>2, <3>4, AtTells DEF Working, OnOne
      <4>. QED  BY <3>2, <4>1, <4>2 DEF Place, PlaceStore, Kept, Holds, Fresh
    <3>5. CASE thread[t].at \in {"change", "reflect"}
      BY <3>2, <3>5 DEF Place, PlaceChange
    <3>6. CASE thread[t].at \in Forgetting
      BY <3>2, <3>6 DEF Place, PlaceForget, Forgetting, M!HalfDone
    <3>7. CASE thread[t].at \in Sweeping \cup {"install"}
      BY <3>2, <3>7 DEF Place, PlaceAll, Sweeping, AtRest
    <3>. QED  BY <3>3, <3>4, <3>5, <3>6, <3>7 DEF Working
  <2>. QED  BY <2>1, <2>2
<1>10. Resting'
  <2>1. ASSUME NEW id \in Ids \ loose'
        PROVE  AtRest(id)'
    <3>1. index'[id] = M!Entry(meta'[id], vec'[id]) /\ (text[id] # 0 => id < next')
      BY <1>1, <1>3, <1>9
    <3>. QED  BY <1>1, <1>9, <3>1 DEF AtRest, Gone, Kept, Holds
  <2>. QED  BY <2>1 DEF Resting
<1>11. Counting'
  <2>1. Counted' = TextIds
    BY <1>1, <1>6 DEF Counted, TextIds
  <2>. QED  BY <1>1, <1>3, <1>6, <2>1 DEF Counting
<1>. QED  BY <1>5, <1>7, <1>8, <1>10, <1>11 DEF MemoryInv

-----------------------------------------------------------------------------
(* The invariant holds. *)

\* It holds of an empty server.
LEMMA MemInitHolds ==
  ASSUME M!Init
  PROVE  MemoryInv
<1>1. MemShape
  BY DEF M!Init, MemShape, M!Nowhere, M!NoMeta, MetaData, EntryOf, M!Entry
<1>2. \A t \in Callers : thread[t] = M!Idle /\ thread[t].ids = {} /\ thread[t].at = "idle"
  BY DEF M!Init, M!Idle
<1>3. Dated
  BY <1>2 DEF M!Init, Dated, M!NoMeta, Working, Storing, Forgetting
<1>4. OneOwner /\ Placed
  BY <1>2 DEF OneOwner, Placed
<1>5. Resting
  BY DEF M!Init, Resting, AtRest, Gone, Holds, M!Nowhere
<1>6. Counting
  <2>1. Counted = {}
    BY <1>2 DEF M!Init, Counted, M!Nowhere
  <2>. QED  BY <1>2, <2>1, FS_EmptySet DEF M!Init, Counting
<1>. QED  BY <1>1, <1>3, <1>4, <1>5, <1>6 DEF MemoryInv

\* Every step of a thread keeps the invariant.
LEMMA MemStepKeeps ==
  ASSUME MemoryInv, NEW t \in Callers, M!Step(t)
  PROVE  MemoryInv'
<1>1. CASE M!StoreText(t) \/ M!StoreMeta(t) \/ M!StoreVec(t) \/ M!StoreWords(t)
           \/ M!StoreCount(t) \/ M!StoreIndex(t)
  BY <1>1, StoreTextKeeps, StoreMetaKeeps, StoreVecKeeps, StoreWordsKeeps, StoreCountKeeps,
     StoreIndexKeeps
<1>2. CASE M!ChangeMeta(t) \/ M!ChangeIndex(t)
  BY <1>2, ChangeMetaKeeps, ChangeIndexKeeps
<1>3. CASE \/ M!ForgetWords(t) \/ M!ForgetVec(t) \/ M!ForgetText(t) \/ M!ForgetMeta(t)
           \/ M!ForgetCount(t) \/ M!ForgetIndex(t)
  BY <1>3, ForgetWordsKeeps, ForgetVecKeeps, ForgetTextKeeps, ForgetMetaKeeps, ForgetCountKeeps,
     ForgetIndexKeeps
<1>4. CASE M!FlushStore(t) \/ M!FlushMirrors(t) \/ M!ReloadScan(t) \/ M!ReloadInstall(t)
  BY <1>4, FlushStoreKeeps, FlushMirrorsKeeps, ReloadScanKeeps, ReloadInstallKeeps
<1>5. CASE M!CutShort(t)
  BY <1>5, CutShortKeeps
<1>. QED  BY <1>1, <1>2, <1>3, <1>4, <1>5 DEF M!Step

\* Every step does.
LEMMA MemNextKeeps ==
  ASSUME MemoryInv, [M!Next]_M!vars
  PROVE  MemoryInv'
<1>1. CASE M!Restart
  BY <1>1, RestartKeeps
<1>2. CASE \E t \in Callers : M!Command(t)
  BY <1>2, StoreKeeps, ChangeKeeps, ForgetKeeps, SweepKeeps DEF M!Command
<1>3. CASE \E t \in Callers : M!Step(t)
  BY <1>3, MemStepKeeps
<1>4. CASE UNCHANGED M!vars
  <2>1. /\ text' = text /\ meta' = meta /\ vec' = vec /\ words' = words /\ index' = index
           /\ count' = count
        /\ next' = next /\ thread' = thread /\ commands' = commands /\ loose' = loose
    BY <1>4 DEF M!vars, M!durable, M!mirrors
  <2>2. MemShape' /\ Dated' /\ OneOwner'
    BY <2>1 DEF MemoryInv, MemShape, Dated, OneOwner
  <2>3. Placed' /\ Resting'
    <3>1. \A id : (AtRest(id)' <=> AtRest(id)) /\ (Gone(id)' <=> Gone(id))
          /\ (Kept(id)' <=> Kept(id))
      BY <2>1 DEF AtRest, Gone, Kept, Holds
    <3>2. ASSUME NEW t \in Callers, NEW id \in Ids, Place(thread[t], id)
          PROVE  Place(thread[t], id)'
      <4>1. PlaceStore(thread[t], id)'
        BY <2>1, <3>1, <3>2 DEF Place, PlaceStore, Holds
      <4>2. PlaceChange(thread[t], id)'
        BY <2>1, <3>1, <3>2 DEF Place, PlaceChange, After
      <4>3. PlaceForget(thread[t], id)'
        BY <2>1, <3>1, <3>2 DEF Place, PlaceForget
      <4>4. PlaceAll(thread[t], id)'
        BY <2>1, <3>1, <3>2 DEF Place, PlaceAll
      <4>. QED  BY <4>1, <4>2, <4>3, <4>4 DEF Place
    <3>3. Placed'
      BY <2>1, <3>2 DEF MemoryInv, Placed
    <3>4. Resting'
      BY <2>1, <3>1 DEF MemoryInv, Resting
    <3>. QED  BY <3>3, <3>4
  <2>4. Counting'
    BY <2>1 DEF MemoryInv, Counting, Counted, TextIds, Tallied
  <2>. QED  BY <2>2, <2>3, <2>4 DEF MemoryInv
<1>. QED  BY <1>1, <1>2, <1>3, <1>4 DEF M!Next

\* The invariant says what RecordsAreWhole does of a state where commands are done.
LEMMA MemInvImplies ==
  ASSUME MemoryInv
  PROVE  M!RecordsAreWhole
<1>1. ASSUME NEW id \in Ids \ loose, \A t \in Callers : id \notin thread[t].ids
      PROVE  AtRest(id) /\ M!Whole(id)
  <2>1. AtRest(id)
    BY <1>1 DEF MemoryInv, Resting
  <2>2. M!Whole(id)
    BY <2>1 DEF AtRest, Gone, Kept, Holds, M!Whole, M!NoMeta
  <2>. QED  BY <2>1, <2>2
<1>2. ASSUME loose = {}, \A t \in Callers : thread[t] = M!Idle
      PROVE  /\ count = Cardinality({id \in Ids : text[id] # 0})
             /\ \A id \in Ids : text[id] # 0 => id < next
  <2>1. \A t \in Callers : thread[t].ids = {} /\ thread[t].at = "idle"
    BY <1>2 DEF M!Idle
  <2>2. Counted = {id \in Ids : text[id] # 0}
    BY <2>1 DEF Counted
  <2>3. count = Cardinality(Counted)
    BY <1>2, <2>1 DEF MemoryInv, Counting
  <2>4. \A id \in Ids : text[id] # 0 => id < next
    BY <1>1, <1>2, <2>1 DEF AtRest, Gone, Holds
  <2>. QED  BY <2>2, <2>3, <2>4
<1>. QED  BY <1>1, <1>2, SameSize DEF M!RecordsAreWhole

\* Every record is at rest, or where the command that has it expects it; and the
\* count follows.
THEOREM MemoryInvariance == M!Spec => []MemoryInv
<1>1. M!Init => MemoryInv
  BY MemInitHolds
<1>2. MemoryInv /\ [M!Next]_M!vars => MemoryInv'
  BY MemNextKeeps
<1>. QED  BY <1>1, <1>2, PTL DEF M!Spec

\* Once its commands are done a record is whole or gone, in the engine and in the
\* mirrors, across failures, other commands and restarts; and when none was cut
\* short, MEM.COUNT is the number of records and the next id is free.
THEOREM RecordsStayWhole == M!Spec => []RecordsAreWhole
<1>1. MemoryInv => RecordsAreWhole
  BY MemInvImplies DEF RecordsAreWhole
<1>. QED  BY <1>1, MemoryInvariance, PTL
=============================================================================
