------------------------------ MODULE VcsProofs ------------------------------
(***************************************************************************)
(* What version control rests on (Vcs), for any engine keys, callers,      *)
(* branches and bounds: nothing that differs from HEAD is missed, a        *)
(* command that settles leaves HEAD and the working copy the same, and     *)
(* merging either way takes the same values.                               *)
(***************************************************************************)
EXTENDS Vcs, SequenceTheorems, WellFoundedInduction, TLAPS

-----------------------------------------------------------------------------
(* Sets of numbers.                                                        *)

\* A set of numbers that is not empty has a least one.
LEMMA LeastNumber ==
  ASSUME NEW T, T \subseteq Nat, T # {}
  PROVE  \E m \in T : \A n \in T : m <= n
<1>1. PICK m \in T : \A n \in T : <<n, m>> \notin OpToRel(<, Nat)
  BY NatLessThanWellFounded, WFMin
<1>2. \A n \in T : ~(n < m)
  BY <1>1 DEF OpToRel
<1>. QED  BY <1>2

\* A bounded set of numbers that is not empty has a largest, which Max returns.
LEMMA MaxIs ==
  ASSUME NEW N \in Nat, NEW T \in SUBSET (0..N), T # {}
  PROVE  Max(T) \in T /\ \A n \in T : n <= Max(T)
<1>. DEFINE U == {N - n : n \in T}
<1>1. U \subseteq Nat /\ U # {}
  <2>1. \A n \in T : N - n \in Nat
    OBVIOUS
  <2>. QED  BY <2>1
<1>2. PICK u \in U : \A w \in U : u <= w
  <2>. HIDE DEF U
  <2>. QED  BY <1>1, LeastNumber
<1>3. PICK m \in T : u = N - m
  BY <1>2
<1>4. \A n \in T : N - m <= N - n
  BY <1>2, <1>3
<1>5. \A n \in T : m >= n
  BY <1>4
<1>6. Max(T) \in T /\ \A n \in T : Max(T) >= n
  BY <1>5 DEF Max
<1>. QED  BY <1>6
-----------------------------------------------------------------------------
(* The commit graph.                                                       *)

Val == Values \cup {None}
Change == UNION {[D -> Val] : D \in SUBSET Key}
CommitRecord == [parents : Seq(Nat), changes : Change]

\* A commit's parents are older than it, and only the first has none.
Grown(cs) ==
  /\ cs \in Seq(CommitRecord)
  /\ \A s \in 1..Len(cs) : /\ \A i \in DOMAIN cs[s].parents : cs[s].parents[i] \in 1..s - 1
                           /\ s > 1 => cs[s].parents # <<>>

\* Ancestors and ValueAt, of any sequence of commits.
Line(cs, f, s) == {s} \cup UNION {f[cs[s].parents[i]] : i \in DOMAIN cs[s].parents}
Lineage(cs) == CHOOSE f : f = [s \in DOMAIN cs |-> Line(cs, f, s)]
By(cs, k, anc) == {s \in anc : k \in DOMAIN cs[s].changes}
ValueIn(cs, k, anc) == IF By(cs, k, anc) = {} THEN None ELSE cs[Max(By(cs, k, anc))].changes[k]

\* The model's operators are these, of its own commits.
LEMMA AncestorsAre == Ancestors = Lineage(commits)
  BY DEF Ancestors, Lineage, Line
\* So is what a key has at some commits.
LEMMA ValuesAre == \A k, anc : ValueAt(k, anc) = ValueIn(commits, k, anc)
  BY DEF ValueAt, ValueIn, By

\* A line of ancestors that is right up to a commit can be drawn out to it.
LEMMA LineGoesOn ==
  ASSUME NEW cs, Grown(cs), NEW m \in 1..Len(cs), NEW f, f = [s \in 1..m - 1 |-> Line(cs, f, s)]
  PROVE  \E g : g = [s \in 1..m |-> Line(cs, g, s)]
<1>. DEFINE g == [s \in 1..m |-> Line(cs, f, s)]
<1>1. \A s \in 1..m - 1 : g[s] = f[s]
  OBVIOUS
<1>2. ASSUME NEW s \in 1..m
      PROVE  Line(cs, f, s) = Line(cs, g, s)
  <2>1. \A i \in DOMAIN cs[s].parents : cs[s].parents[i] \in 1..m - 1
    BY DEF Grown
  <2>2. \A i \in DOMAIN cs[s].parents : g[cs[s].parents[i]] = f[cs[s].parents[i]]
    <3>. HIDE DEF g
    <3>. QED  BY <1>1, <2>1
  <2>. HIDE DEF g
  <2>3. {f[cs[s].parents[i]] : i \in DOMAIN cs[s].parents} = {g[cs[s].parents[i]] : i \in DOMAIN cs[s].parents}
    BY ONLY <2>2
  <2>. QED  BY <2>3 DEF Line
<1>3. g = [s \in 1..m |-> Line(cs, g, s)]
  <2>1. [s \in 1..m |-> Line(cs, f, s)] = [s \in 1..m |-> Line(cs, g, s)]
    <3>. HIDE DEF g
    <3>. QED  BY <1>2
  <2>. QED  BY <2>1
<1>. QED  BY <1>3

\* So there is one, and Ancestors is what its definition says.
LEMMA LineageIs ==
  ASSUME NEW cs, Grown(cs)
  PROVE  Lineage(cs) = [s \in 1..Len(cs) |-> Line(cs, Lineage(cs), s)]
<1>. DEFINE Drawn(m) == \E f : f = [s \in 1..m |-> Line(cs, f, s)]
            Bad == {m \in 0..Len(cs) : ~Drawn(m)}
<1>1. Len(cs) \in Nat /\ DOMAIN cs = 1..Len(cs)
  BY DEF Grown
<1>2. Drawn(0)
  <2>. DEFINE f == [s \in {} |-> {}]
  <2>1. f = [s \in 1..0 |-> Line(cs, f, s)]
    OBVIOUS
  <2>. QED  BY <2>1
<1>3. Bad = {}
  <2>. SUFFICES ASSUME Bad # {} PROVE FALSE
    OBVIOUS
  <2>1. PICK m \in Bad : \A n \in Bad : m <= n
    <3>1. Bad \subseteq Nat
      BY <1>1
    <3>. HIDE DEF Bad
    <3>. QED  BY <3>1, LeastNumber
  <2>2. m \in 0..Len(cs) /\ ~Drawn(m)
    BY <2>1
  <2>3. m \in 1..Len(cs)
    <3>. HIDE DEF Drawn
    <3>. QED  BY <1>1, <1>2, <2>2
  <2>4. Drawn(m - 1)
    <3>1. m - 1 \in 0..Len(cs) /\ ~(m <= m - 1)
      BY <1>1, <2>3
    <3>. HIDE DEF Drawn
    <3>. QED  BY <2>1, <3>1
  <2>5. Drawn(m)
    BY <2>3, <2>4, LineGoesOn
  <2>. QED  BY <2>2, <2>5
<1>4. Drawn(Len(cs))
  <2>. HIDE DEF Drawn
  <2>. QED  BY <1>1, <1>3
<1>. QED  BY <1>1, <1>4 DEF Lineage

\* A commit is an ancestor of itself, so are its parents' ancestors, and no other.
LEMMA LineageAt ==
  ASSUME NEW cs, Grown(cs), NEW s \in 1..Len(cs)
  PROVE  /\ Lineage(cs)[s] = Line(cs, Lineage(cs), s)
         /\ s \in Lineage(cs)[s]
         /\ \A i \in DOMAIN cs[s].parents : Lineage(cs)[cs[s].parents[i]] \subseteq Lineage(cs)[s]
         /\ \A t \in Lineage(cs)[s] :
              t = s \/ \E i \in DOMAIN cs[s].parents : t \in Lineage(cs)[cs[s].parents[i]]
<1>1. Lineage(cs)[s] = Line(cs, Lineage(cs), s)
  BY LineageIs
<1>. QED  BY <1>1 DEF Line

\* Ancestors are no younger, the first commit is one of all, and an ancestor's
\* ancestors are ancestors.
Lined(cs, s) ==
  /\ Lineage(cs)[s] \subseteq 1..s /\ 1 \in Lineage(cs)[s]
  /\ \A t \in Lineage(cs)[s] : Lineage(cs)[t] \subseteq Lineage(cs)[s]
\* So it is of every commit.
LEMMA LineageLined ==
  ASSUME NEW cs, Grown(cs)
  PROVE  \A s \in 1..Len(cs) : Lined(cs, s)
<1>. DEFINE L == Lineage(cs)
            Bad == {s \in 1..Len(cs) : ~Lined(cs, s)}
<1>1. Len(cs) \in Nat
  BY DEF Grown
<1>2. ASSUME NEW m \in 1..Len(cs), \A s \in 1..m - 1 : Lined(cs, s)
      PROVE  Lined(cs, m)
  <2>1. \A i \in DOMAIN cs[m].parents : cs[m].parents[i] \in 1..m - 1
    BY DEF Grown
  <2>2. \A i \in DOMAIN cs[m].parents : Lined(cs, cs[m].parents[i])
    BY <1>2, <2>1
  <2>3. L[m] \subseteq 1..m
    BY <1>1, <2>1, <2>2, LineageAt DEF Lined
  <2>4. 1 \in L[m]
    <3>1. CASE m = 1
      BY <3>1, LineageAt
    <3>2. CASE m > 1
      <4>1. cs[m].parents # <<>>
        BY <3>2 DEF Grown
      <4>2. cs[m] \in CommitRecord
        BY DEF Grown
      <4>3. cs[m].parents \in Seq(Nat)
        BY <4>2 DEF CommitRecord
      <4>4. 1 \in DOMAIN cs[m].parents
        BY <4>1, <4>3
      <4>. QED  BY <2>2, <4>4, LineageAt DEF Lined
    <3>. QED  BY <3>1, <3>2
  <2>5. \A t \in L[m] : L[t] \subseteq L[m]
    <3>. SUFFICES ASSUME NEW t \in L[m] PROVE L[t] \subseteq L[m]
      OBVIOUS
    <3>1. CASE t = m
      BY <3>1
    <3>2. ASSUME NEW i \in DOMAIN cs[m].parents, t \in L[cs[m].parents[i]]
          PROVE  L[t] \subseteq L[m]
      <4>1. L[t] \subseteq L[cs[m].parents[i]]
        BY <2>2, <3>2 DEF Lined
      <4>. QED  BY <4>1, LineageAt
    <3>. QED  BY <3>1, <3>2, LineageAt
  <2>. QED  BY <2>3, <2>4, <2>5 DEF Lined
<1>3. Bad = {}
  <2>. SUFFICES ASSUME Bad # {} PROVE FALSE
    OBVIOUS
  <2>1. PICK m \in Bad : \A n \in Bad : m <= n
    <3>1. Bad \subseteq Nat
      BY <1>1
    <3>. HIDE DEF Bad
    <3>. QED  BY <3>1, LeastNumber
  <2>2. \A s \in 1..m - 1 : Lined(cs, s)
    <3>1. \A s \in 1..m - 1 : s \in 1..Len(cs) /\ ~(m <= s)
      BY <1>1
    <3>. QED  BY <2>1, <3>1
  <2>. QED  BY <1>2, <2>1, <2>2
<1>. QED  BY <1>3

\* A new commit changes nobody else's ancestors.
LEMMA LineageStays ==
  ASSUME NEW cs, NEW r, Grown(cs), Grown(Append(cs, r))
  PROVE  \A s \in 1..Len(cs) : Lineage(Append(cs, r))[s] = Lineage(cs)[s]
<1>. DEFINE ds == Append(cs, r)
            Bad == {s \in 1..Len(cs) : Lineage(ds)[s] # Lineage(cs)[s]}
<1>1. /\ Len(cs) \in Nat /\ Len(ds) = Len(cs) + 1
      /\ \A s \in 1..Len(cs) : ds[s] = cs[s] /\ s \in 1..Len(ds)
  BY DEF Grown
<1>. HIDE DEF ds
<1>2. ASSUME NEW m \in 1..Len(cs), \A s \in 1..m - 1 : Lineage(ds)[s] = Lineage(cs)[s]
      PROVE  Lineage(ds)[m] = Lineage(cs)[m]
  <2>1. \A i \in DOMAIN cs[m].parents : cs[m].parents[i] \in 1..m - 1
    BY DEF Grown
  <2>2. \A i \in DOMAIN cs[m].parents : Lineage(ds)[cs[m].parents[i]] = Lineage(cs)[cs[m].parents[i]]
    BY <1>2, <2>1
  <2>3. Line(ds, Lineage(ds), m) = Line(cs, Lineage(cs), m)
    BY <1>1, <2>2 DEF Line
  <2>4. Grown(ds) /\ m \in 1..Len(ds)
    BY <1>1 DEF ds
  <2>. QED  BY <2>3, <2>4, LineageAt
<1>3. Bad = {}
  <2>. SUFFICES ASSUME Bad # {} PROVE FALSE
    OBVIOUS
  <2>1. PICK m \in Bad : \A n \in Bad : m <= n
    <3>1. Bad \subseteq Nat
      BY <1>1
    <3>. HIDE DEF Bad
    <3>. QED  BY <3>1, LeastNumber
  <2>2. \A s \in 1..m - 1 : Lineage(ds)[s] = Lineage(cs)[s]
    <3>1. \A s \in 1..m - 1 : s \in 1..Len(cs) /\ ~(m <= s)
      BY <1>1
    <3>. QED  BY <2>1, <3>1
  <2>. QED  BY <1>2, <2>1, <2>2
<1>. QED  BY <1>3 DEF ds
-----------------------------------------------------------------------------
(* Values read back through the history.                                   *)

\* A key nobody in a set of commits has changed has none; else one of them has its
\* value there, and it is the newest that changed it.
LEMMA ValueIs ==
  ASSUME NEW cs, Grown(cs), NEW k, NEW anc \in SUBSET (1..Len(cs))
  PROVE  \/ By(cs, k, anc) = {} /\ ValueIn(cs, k, anc) = None
         \/ \E s \in By(cs, k, anc) : /\ \A t \in By(cs, k, anc) : t <= s
                                      /\ ValueIn(cs, k, anc) = cs[s].changes[k]
<1>1. By(cs, k, anc) \in SUBSET (0..Len(cs)) /\ Len(cs) \in Nat
  <2>1. Len(cs) \in Nat
    BY DEF Grown
  <2>2. By(cs, k, anc) \subseteq 1..Len(cs)
    BY DEF By
  <2>3. 1..Len(cs) \subseteq 0..Len(cs)
    BY <2>1
  <2>. QED  BY <2>1, <2>2, <2>3
<1>2. CASE By(cs, k, anc) = {}
  BY <1>2 DEF ValueIn
<1>3. CASE By(cs, k, anc) # {}
  <2>1. /\ Max(By(cs, k, anc)) \in By(cs, k, anc)
        /\ \A t \in By(cs, k, anc) : t <= Max(By(cs, k, anc))
    BY <1>1, <1>3, MaxIs
  <2>. QED  BY <1>3, <2>1 DEF ValueIn
<1>. QED  BY <1>2, <1>3

\* The value is that of any commit that changed the key and is the newest to do so.
LEMMA ValueOfNewest ==
  ASSUME NEW cs, Grown(cs), NEW k, NEW anc \in SUBSET (1..Len(cs)),
         NEW s \in By(cs, k, anc), \A t \in By(cs, k, anc) : t <= s
  PROVE  ValueIn(cs, k, anc) = cs[s].changes[k]
<1>1. PICK u \in By(cs, k, anc) : /\ \A t \in By(cs, k, anc) : t <= u
                                  /\ ValueIn(cs, k, anc) = cs[u].changes[k]
  BY ValueIs
<1>2. u \in 1..Len(cs) /\ s \in 1..Len(cs) /\ u <= s /\ s <= u /\ Len(cs) \in Nat
  BY <1>1 DEF By, Grown
<1>. QED  BY <1>1, <1>2

\* Two sets of commits that changed a key alike have the same value of it.
LEMMA ValueSame ==
  ASSUME NEW cs, NEW k, NEW anc, NEW other, By(cs, k, anc) = By(cs, k, other)
  PROVE  ValueIn(cs, k, anc) = ValueIn(cs, k, other)
BY DEF ValueIn

\* Values are values, and only keys have them.
LEMMA ValueType ==
  ASSUME NEW cs, Grown(cs), NEW k, NEW anc \in SUBSET (1..Len(cs))
  PROVE  /\ ValueIn(cs, k, anc) \in Val
         /\ ValueIn(cs, k, anc) # None => \E s \in anc : k \in DOMAIN cs[s].changes
         /\ \A s \in anc : cs[s].changes \in Change /\ DOMAIN cs[s].changes \subseteq Key
<1>1. \A s \in anc : cs[s] \in CommitRecord
  BY DEF Grown
<1>2. \A s \in anc : cs[s].changes \in Change
  BY <1>1 DEF CommitRecord
<1>3. \A s \in anc : DOMAIN cs[s].changes \subseteq Key
  BY <1>2 DEF Change
<1>4. \A s \in anc : k \in DOMAIN cs[s].changes => cs[s].changes[k] \in Val
  BY <1>2 DEF Change
<1>5. CASE By(cs, k, anc) = {}
  BY <1>2, <1>3, <1>5 DEF ValueIn, Val
<1>6. CASE By(cs, k, anc) # {}
  <2>1. PICK s \in By(cs, k, anc) : ValueIn(cs, k, anc) = cs[s].changes[k]
    BY <1>6, ValueIs
  <2>2. s \in anc /\ k \in DOMAIN cs[s].changes
    BY <2>1 DEF By
  <2>. QED  BY <1>2, <1>3, <1>4, <2>1, <2>2
<1>. QED  BY <1>5, <1>6

\* Of the commits of two sets, the newest that changed a key is in one of them.
LEMMA ValueOfTwo ==
  ASSUME NEW cs, Grown(cs), NEW k, NEW anc \in SUBSET (1..Len(cs)),
         NEW other \in SUBSET (1..Len(cs))
  PROVE  ValueIn(cs, k, anc \cup other) \in {ValueIn(cs, k, anc), ValueIn(cs, k, other)}
<1>. DEFINE both == anc \cup other
<1>1. By(cs, k, both) = By(cs, k, anc) \cup By(cs, k, other)
  BY DEF By
<1>2. both \in SUBSET (1..Len(cs))
  OBVIOUS
<1>. HIDE DEF both
<1>3. CASE By(cs, k, both) = {}
  BY <1>1, <1>3 DEF ValueIn, both
<1>4. CASE By(cs, k, both) # {}
  <2>1. PICK s \in By(cs, k, both) : /\ \A t \in By(cs, k, both) : t <= s
                                     /\ ValueIn(cs, k, both) = cs[s].changes[k]
    BY <1>2, <1>4, ValueIs
  <2>2. ASSUME s \in By(cs, k, anc) PROVE ValueIn(cs, k, both) = ValueIn(cs, k, anc)
    BY <1>1, <2>1, <2>2, ValueOfNewest
  <2>3. ASSUME s \in By(cs, k, other) PROVE ValueIn(cs, k, both) = ValueIn(cs, k, other)
    BY <1>1, <2>1, <2>3, ValueOfNewest
  <2>. QED  BY <1>1, <2>1, <2>2, <2>3 DEF both
<1>. QED  BY <1>3, <1>4

\* A commit that is added hides what the older ones have of the keys it changed.
LEMMA ValueAdded ==
  ASSUME NEW cs, NEW r, Grown(cs), Grown(Append(cs, r)), NEW k, NEW anc \in SUBSET (1..Len(cs))
  PROVE  /\ ValueIn(Append(cs, r), k, anc) = ValueIn(cs, k, anc)
         /\ ValueIn(Append(cs, r), k, {Len(cs) + 1} \cup anc)
              = IF k \in DOMAIN r.changes THEN r.changes[k] ELSE ValueIn(cs, k, anc)
<1>. DEFINE ds == Append(cs, r)
            n == Len(cs) + 1
            all == {n} \cup anc
<1>1. /\ Len(cs) \in Nat /\ Len(ds) = n /\ ds[n] = r
      /\ \A s \in anc : ds[s] = cs[s]
  <2>1. cs \in Seq(CommitRecord \cup {r}) /\ Len(cs) \in Nat
    BY DEF Grown
  <2>. QED  BY <2>1, AppendProperties
<1>2. /\ anc \in SUBSET (1..Len(ds)) /\ all \in SUBSET (1..Len(ds)) /\ n \in all
      /\ n \in Nat /\ \A s \in anc : s <= n /\ s # n
  <2>. HIDE DEF ds
  <2>1. 1..Len(cs) \subseteq 1..Len(ds) /\ n \in 1..Len(ds) /\ n \in Nat
    BY <1>1
  <2>2. \A s \in 1..Len(cs) : s <= n /\ s # n
    BY <1>1
  <2>. QED  BY <2>1, <2>2
<1>. HIDE DEF ds, n
<1>3. By(ds, k, anc) = By(cs, k, anc) /\ By(ds, k, anc) \subseteq anc
  BY <1>1 DEF By
<1>4. ValueIn(ds, k, anc) = ValueIn(cs, k, anc)
  <2>1. CASE By(cs, k, anc) = {}
    BY <1>3, <2>1 DEF ValueIn
  <2>2. CASE By(cs, k, anc) # {}
    <3>1. PICK s \in By(cs, k, anc) : /\ \A t \in By(cs, k, anc) : t <= s
                                      /\ ValueIn(cs, k, anc) = cs[s].changes[k]
      BY <2>2, ValueIs
    <3>2. ValueIn(ds, k, anc) = ds[s].changes[k]
      <4>1. Grown(ds)
        BY DEF ds
      <4>. QED  BY <1>2, <1>3, <3>1, <4>1, ValueOfNewest
    <3>. QED  BY <1>1, <1>3, <3>1, <3>2
  <2>. QED  BY <2>1, <2>2
<1>5. CASE k \in DOMAIN r.changes
  <2>1. n \in By(ds, k, all) /\ \A t \in By(ds, k, all) : t <= n
    BY <1>1, <1>2, <1>5 DEF By
  <2>2. ValueIn(ds, k, all) = ds[n].changes[k]
    <3>. HIDE DEF all
    <3>. QED  BY <1>2, <2>1, ValueOfNewest DEF ds
  <2>. QED  BY <1>1, <1>4, <1>5, <2>2 DEF ds, n
<1>6. CASE k \notin DOMAIN r.changes
  <2>1. By(ds, k, all) = By(ds, k, anc)
    BY <1>1, <1>6 DEF By
  <2>2. ValueIn(ds, k, all) = ValueIn(ds, k, anc)
    BY <2>1, ValueSame
  <2>. QED  BY <1>4, <1>6, <2>2 DEF ds, n
<1>. QED  BY <1>5, <1>6
-----------------------------------------------------------------------------
(* The invariant.                                                          *)

\* HEAD's ancestors, and the value a key has there.
HeadLine == Lineage(commits)[branch[head]]
HeadValue(k) == ValueIn(commits, k, HeadLine)

Repository ==
  /\ store \in [Key -> Val]
  /\ head \in Branches \cup {None} /\ branch \in [Branches -> 0..Len(commits)]
  /\ Grown(commits)
  /\ head = None => commits = <<>>
  /\ head # None => branch[head] # 0
\* What is published is a repository as well.
Published ==
  /\ seen.store \in [Key -> Val]
  /\ seen.head \in Branches \cup {None} /\ seen.branch \in [Branches -> 0..Len(seen.commits)]
  /\ Grown(seen.commits)
  /\ seen.head = None => seen.commits = <<>>
  /\ seen.head # None => seen.branch[seen.head] # 0

Request == [kind : {"write", "flushall"}] \cup [kind : {"vc"}, by : Callers]
Places == {"idle", "scan", "wait", "ran", "answered", "lost", "failed"}
Shape ==
  /\ Repository /\ Published /\ unseen \subseteq Key
  /\ queue \in Seq(Request) /\ work \in Seq(Request)
  /\ stage \in {"idle", "run", "hooked"} /\ batch \subseteq Key /\ wipe \in BOOLEAN
  /\ stage # "run" => work = <<>> /\ batch = {}
  /\ enabled \in BOOLEAN /\ fullScan \in BOOLEAN /\ raced \in BOOLEAN
  /\ fullScan => head # None /\ seen.head # None
  /\ epoch \in Nat /\ dirty \in [Key -> -1..epoch]
  /\ caller \in [Callers -> [at : Places, op : Ops \cup {"none"}, full : BOOLEAN,
                             scanned : SUBSET Key, settle : -1..epoch - 1]]

\* Who waits for the commit path has one request there, and nobody else has any.
Asks(r, c) == r.kind = "vc" /\ r.by = c
OneRequestEach ==
  \A c \in Callers :
    /\ \A i \in 1..Len(queue) : Asks(queue[i], c) =>
         /\ caller[c].at = "wait"
         /\ \A j \in 1..Len(queue) : Asks(queue[j], c) => i = j
         /\ \A j \in 1..Len(work) : ~Asks(work[j], c)
    /\ \A i \in 1..Len(work) : Asks(work[i], c) =>
         /\ caller[c].at = "wait"
         /\ \A j \in 1..Len(work) : Asks(work[j], c) => i = j

\* Whose command needs the whole keyspace has it scanned.
ScansWhenNeeded ==
  \A c \in Callers :
    /\ caller[c].at # "idle" /\ (caller[c].op = "init" \/ (fullScan /\ caller[c].op \in NeedsScan))
         => caller[c].full
    /\ caller[c].settle # Never
         => caller[c].at \in {"ran", "answered"} /\ caller[c].op \in NeedsScan

\* Snapshots read what was published; a group makes a repository and never removes one.
SeenIsPublished ==
  /\ stage = "idle" => seen = World
  /\ seen.head # None => head # None

\* The hooks look at the keys as long as there is a repository, or may be.
TrackingIsOn ==
  ~raced => /\ head # None => enabled
            /\ \A c \in Callers : InitWaits(c) => enabled

Uncommitted(k) == IF head = None THEN store[k] # None ELSE store[k] # HeadValue(k)
Noted(k) == dirty[k] # Clean \/ k \in batch
InHistory(k) == head # None /\ By(commits, k, HeadLine) # {}

\* What is stored can be seen, or this group has it.
StoredIsSeen ==
  \A k \in Key : store[k] # None =>
    \/ seen.store[k] # None \/ k \in batch
    \/ stage = "hooked" /\ (Uncommitted(k) => dirty[k] = epoch \/ (k \in unseen /\ (enabled => raced)))

\* What differs from HEAD is noted; or a scan found it, or HEAD's history has it;
\* or it was noted after the command that has still to settle.
NotedIfDue == head # None /\ ~fullScan => \A k \in Key : Uncommitted(k) => Noted(k) \/ Missed(k)
ScanCovers ==
  \A c \in Callers :
    caller[c].at = "wait" /\ caller[c].full /\ (head # None \/ caller[c].op = "init") =>
      \A k \in Key : Uncommitted(k) => Noted(k) \/ k \in caller[c].scanned \/ InHistory(k) \/ Missed(k)
SettlesOnlyOld ==
  \A c \in Callers :
    caller[c].at \in {"ran", "answered"} /\ caller[c].settle # Never =>
      \A k \in Key :
        IF head = None THEN dirty[k] = Clean \/ dirty[k] > caller[c].settle
        ELSE Uncommitted(k) => dirty[k] > caller[c].settle \/ k \in batch \/ Missed(k)

\* The group being run may be dropped: then what was published is the content again,
\* and the same must hold of it.
WasHeadLine == Lineage(seen.commits)[seen.branch[seen.head]]
WasUncommitted(k) ==
  IF seen.head = None THEN seen.store[k] # None
                      ELSE seen.store[k] # ValueIn(seen.commits, k, WasHeadLine)
WasInHistory(k) == seen.head # None /\ By(seen.commits, k, WasHeadLine) # {}
WasNoted == seen.head # None /\ ~fullScan => \A k \in Key : WasUncommitted(k) => dirty[k] # Clean \/ Missed(k)
WasCovered ==
  \A c \in Callers :
    caller[c].at = "wait" /\ caller[c].full /\ (seen.head # None \/ caller[c].op = "init") =>
      \A k \in Key : WasUncommitted(k) =>
        dirty[k] # Clean \/ k \in caller[c].scanned \/ WasInHistory(k) \/ Missed(k)
WasOld ==
  \A c \in Callers :
    caller[c].at = "answered" /\ caller[c].settle # Never =>
      \A k \in Key :
        IF seen.head = None THEN dirty[k] = Clean \/ dirty[k] > caller[c].settle
        ELSE WasUncommitted(k) => dirty[k] > caller[c].settle \/ Missed(k)
FallsBack == stage = "run" => WasNoted /\ WasCovered /\ WasOld

Tracked == TrackingIsOn /\ StoredIsSeen /\ NotedIfDue /\ ScanCovers /\ SettlesOnlyOld /\ FallsBack
VcsInv == Shape /\ OneRequestEach /\ ScansWhenNeeded /\ SeenIsPublished /\ Tracked

-----------------------------------------------------------------------------
(* HEAD.                                                                   *)

\* The commits behind a commit, behind HEAD.
LEMMA BehindCommit ==
  ASSUME Repository, NEW s \in 1..Len(commits)
  PROVE  /\ Ancestors[s] = Lineage(commits)[s] /\ Ancestors[s] \in SUBSET (1..Len(commits))
         /\ s \in Ancestors[s] /\ 1 \in Ancestors[s]
         /\ \A t \in Ancestors[s] : t \in 1..Len(commits) /\ Ancestors[t] \subseteq Ancestors[s]
<1>1. Ancestors[s] = Lineage(commits)[s]
  BY AncestorsAre
<1>2. Lined(commits, s) /\ s \in Lineage(commits)[s] /\ Len(commits) \in Nat
  BY LineageLined, LineageAt DEF Repository, Grown
<1>3. Ancestors[s] \subseteq 1..s /\ 1..s \subseteq 1..Len(commits)
  BY <1>1, <1>2 DEF Lined
<1>4. \A t \in Ancestors[s] : Ancestors[t] = Lineage(commits)[t]
  BY AncestorsAre
<1>. QED  BY <1>1, <1>2, <1>3, <1>4 DEF Lined

\* The same of HEAD, and what keys have there.
LEMMA BehindHead ==
  ASSUME Repository, head # None
  PROVE  /\ head \in Branches /\ branch[head] \in 1..Len(commits)
         /\ HeadAnc = HeadLine /\ HeadAnc = Ancestors[branch[head]]
            /\ HeadAnc \in SUBSET (1..Len(commits))
         /\ \A k : ValueAt(k, HeadAnc) = HeadValue(k)
         /\ \A k : InHistory(k) <=> k \in Changed(HeadAnc)
<1>1. head \in Branches /\ branch[head] \in 1..Len(commits)
  BY DEF Repository
<1>2. HeadAnc = HeadLine /\ HeadAnc = Ancestors[branch[head]]
  BY AncestorsAre DEF HeadAnc, HeadLine
<1>3. HeadAnc \in SUBSET (1..Len(commits))
  BY <1>1, <1>2, BehindCommit
<1>4. \A k : ValueAt(k, HeadAnc) = HeadValue(k)
  BY <1>2, ValuesAre DEF HeadValue
<1>5. \A k : InHistory(k) <=> k \in Changed(HeadAnc)
  BY <1>2 DEF InHistory, By, Changed
<1>. QED  BY <1>1, <1>2, <1>3, <1>4, <1>5

\* A commit that is recorded on top of its parents.
Behind(parents) == UNION {Lineage(commits)[parents[i]] : i \in DOMAIN parents}
\* It hides what its parents have of the keys it changes, and nothing else.
LEMMA Recorded ==
  ASSUME Grown(commits), NEW parents \in Seq(Nat), NEW changes \in Change,
         \A i \in DOMAIN parents : parents[i] \in 1..Len(commits),
         commits # <<>> => parents # <<>>,
         commits' = Append(commits, [parents |-> parents, changes |-> changes])
  PROVE  /\ Grown(commits') /\ Len(commits') = Len(commits) + 1 /\ Len(commits) \in Nat
         /\ \A s \in 1..Len(commits) : Lineage(commits')[s] = Lineage(commits)[s]
         /\ Lineage(commits')[Len(commits) + 1] = {Len(commits) + 1} \cup Behind(parents)
         /\ Behind(parents) \in SUBSET (1..Len(commits))
         /\ \A k : \A anc \in SUBSET (1..Len(commits)) :
              /\ ValueIn(commits', k, anc) = ValueIn(commits, k, anc)
              /\ ValueIn(commits', k, {Len(commits) + 1} \cup anc)
                   = IF k \in DOMAIN changes THEN changes[k] ELSE ValueIn(commits, k, anc)
<1>. DEFINE r == [parents |-> parents, changes |-> changes]
            n == Len(commits) + 1
<1>1. r \in CommitRecord /\ commits \in Seq(CommitRecord) /\ Len(commits) \in Nat
  BY DEF CommitRecord, Grown
<1>2. /\ commits' \in Seq(CommitRecord) /\ Len(commits') = n
      /\ commits'[n] = r /\ \A s \in 1..Len(commits) : commits'[s] = commits[s]
  BY <1>1, AppendProperties
<1>3. Grown(commits')
  <2>. SUFFICES ASSUME NEW s \in 1..n
                PROVE  /\ \A i \in DOMAIN commits'[s].parents : commits'[s].parents[i] \in 1..s - 1
                       /\ s > 1 => commits'[s].parents # <<>>
    BY <1>2 DEF Grown
  <2>1. CASE s = n
    <3>1. s > 1 => commits # <<>>
      BY <1>1, <2>1
    <3>. QED  BY <1>1, <1>2, <2>1, <3>1
  <2>2. CASE s \in 1..Len(commits)
    BY <1>2, <2>2 DEF Grown
  <2>. QED  BY <1>1, <2>1, <2>2
<1>4. \A s \in 1..Len(commits) : Lineage(commits')[s] = Lineage(commits)[s]
  BY <1>3, LineageStays
<1>5. Lineage(commits')[n] = {n} \cup Behind(parents)
  <2>1. Lineage(commits')[n] = Line(commits', Lineage(commits'), n)
    <3>1. n \in 1..Len(commits')
      BY <1>1, <1>2
    <3>. QED  BY <1>3, <3>1, LineageAt
  <2>2. {Lineage(commits')[parents[i]] : i \in DOMAIN parents} = {Lineage(commits)[parents[i]] : i \in DOMAIN parents}
    BY <1>4
  <2>3. commits'[n].parents = parents
    BY <1>2
  <2>4. Line(commits', Lineage(commits'), n) = {n}
        \cup UNION {Lineage(commits')[parents[i]] : i \in DOMAIN parents}
    BY <2>3 DEF Line
  <2>. QED  BY <2>1, <2>2, <2>4 DEF Behind
<1>6. Behind(parents) \in SUBSET (1..Len(commits))
  <2>1. \A i \in DOMAIN parents : Lineage(commits)[parents[i]] \subseteq 1..parents[i]
    BY LineageLined DEF Lined
  <2>2. \A i \in DOMAIN parents : 1..parents[i] \subseteq 1..Len(commits)
    BY <1>1
  <2>. QED  BY <2>1, <2>2 DEF Behind
<1>7. \A k : \A anc \in SUBSET (1..Len(commits)) :
        /\ ValueIn(commits', k, anc) = ValueIn(commits, k, anc)
        /\ ValueIn(commits', k, {n} \cup anc)
             = IF k \in DOMAIN changes THEN changes[k] ELSE ValueIn(commits, k, anc)
  <2>1. r.changes = changes
    OBVIOUS
  <2>2. Grown(Append(commits, r)) /\ commits' = Append(commits, r)
    BY <1>3
  <2>. HIDE DEF r, n
  <2>. SUFFICES ASSUME NEW k, NEW anc \in SUBSET (1..Len(commits))
                PROVE  /\ ValueIn(commits', k, anc) = ValueIn(commits, k, anc)
                       /\ ValueIn(commits', k, {n} \cup anc)
                            = IF k \in DOMAIN changes THEN changes[k] ELSE ValueIn(commits, k, anc)
    OBVIOUS
  <2>3. /\ ValueIn(Append(commits, r), k, anc) = ValueIn(commits, k, anc)
        /\ ValueIn(Append(commits, r), k, {Len(commits) + 1} \cup anc)
             = IF k \in DOMAIN r.changes THEN r.changes[k] ELSE ValueIn(commits, k, anc)
    BY <2>2, ValueAdded
  <2>. QED  BY <2>1, <2>2, <2>3 DEF n
<1>. QED  BY <1>1, <1>2, <1>3, <1>4, <1>5, <1>6, <1>7
-----------------------------------------------------------------------------
(* What a command does on the commit path.                                 *)

\* It leaves a repository; what it writes joins the group, what it marks has the
\* next epoch.
Steps ==
  /\ Repository' /\ head' # None
  /\ batch \subseteq batch' /\ batch' \subseteq Key
  /\ \A k \in Key : store'[k] = store[k] \/ k \in batch'
  /\ dirty' \in [Key -> -1..epoch + 1] /\ \A k \in Key : dirty'[k] \in {dirty[k], epoch + 1}
\* The working copy is HEAD, or what a scan found is marked; ...
Settles(c) ==
  \A k \in Key : \/ store'[k] = HeadValue(k)'
                 \/ caller[c].op = "status" /\ dirty'[k] = epoch + 1
                 \/ Missed(k)
\* ... or a key differs that did before, or is noted.
Leaves ==
  \A k \in Key : store'[k] # HeadValue(k)' =>
    \/ k \in batch' \/ dirty'[k] = epoch + 1
    \/ store[k] # HeadValue(k) /\ (InHistory(k) => InHistory(k)')
Outcome(c) ==
  /\ Steps
  /\ \/ Ran(c, TRUE) /\ Settles(c)
     \/ Ran(c, FALSE) /\ Leaves

\* The candidates of a command hold all that differs.
Complete(c) == \A k \in Key : store[k] # HeadValue(k) => k \in Changes(c, HeadAnc) \/ Missed(k)

\* A change is a key that differs.
LEMMA ChangesDiffer ==
  ASSUME Shape, head # None, NEW c \in Callers
  PROVE  \A k \in Changes(c, HeadAnc) : k \in Key /\ store[k] # HeadValue(k)
<1>1. Repository
  BY DEF Shape
<1>2. Candidates(c) \subseteq Key
  BY DEF Shape, Candidates
<1>3. Changed(HeadAnc) \subseteq Key
  <2>1. \A s \in HeadAnc : DOMAIN commits[s].changes \subseteq Key
    BY <1>1, BehindHead, ValueType DEF Repository
  <2>. QED  BY <2>1 DEF Changed
<1>. QED  BY <1>1, <1>2, <1>3, BehindHead DEF Changes

\* A key that no commit moved has the same value at both ends of the way.
LEMMA UnmovedSame ==
  ASSUME NEW anc, NEW other, NEW k, k \notin Changed(SymDiff(anc, other))
  PROVE  ValueIn(commits, k, anc) = ValueIn(commits, k, other)
<1>1. By(commits, k, anc) = By(commits, k, other)
  BY DEF By, Changed, SymDiff
<1>. QED  BY <1>1, ValueSame

\* Keys that take their values of a commit.
LEMMA Materialized ==
  ASSUME Shape, NEW s \in 1..Len(commits), NEW keys \in SUBSET Key, Materialize(keys, Ancestors[s])
  PROVE  /\ store' \in [Key -> Val] /\ batch' = batch \cup keys /\ batch' \subseteq Key
         /\ \A k \in Key : store'[k] = IF k \in keys THEN ValueIn(commits, k,
            Ancestors[s]) ELSE store[k]
<1>1. Repository /\ batch \subseteq Key /\ store \in [Key -> Val] /\ Grown(commits)
  BY DEF Shape, Repository
<1>2. \A k : ValueIn(commits, k, Ancestors[s]) \in Val
  BY <1>1, BehindCommit, ValueType
<1>3. store' = [k \in Key |-> IF k \in keys THEN ValueIn(commits, k, Ancestors[s]) ELSE store[k]]
  BY ValuesAre DEF Materialize
<1>. QED  BY <1>1, <1>2, <1>3 DEF Materialize

\* Users that take their state of a commit.
LEMMA WrittenBack ==
  ASSUME Shape, NEW s \in 1..Len(commits), NEW users,
         store' = Written(users, Ancestors[s]), batch' = batch \cup Touched(users, Ancestors[s])
  PROVE  /\ store' \in [Key -> Val] /\ batch' \subseteq Key
         /\ Written(users, Ancestors[s]) = store'
         /\ \A k \in Key :
              /\ store'[k] = IF Owner[k] \in users THEN ValueIn(commits, k,
                 Ancestors[s]) ELSE store[k]
              /\ k \in Touched(users, Ancestors[s]) <=>
                   Owner[k] \in users /\ (store[k] # None
                   \/ ValueIn(commits, k, Ancestors[s]) # None)
              /\ store'[k] = store[k] \/ k \in Touched(users, Ancestors[s])
<1>1. Repository /\ batch \subseteq Key /\ store \in [Key -> Val] /\ Grown(commits)
  BY DEF Shape, Repository
<1>2. \A k : ValueIn(commits, k, Ancestors[s]) \in Val
  BY <1>1, BehindCommit, ValueType
<1>3. store' = [k \in Key |-> IF Owner[k] \in users THEN ValueIn(commits, k,
      Ancestors[s]) ELSE store[k]]
  BY ValuesAre DEF Written
<1>4. \A k \in Key : k \in Touched(users, Ancestors[s]) <=>
        Owner[k] \in users /\ (store[k] # None \/ ValueIn(commits, k, Ancestors[s]) # None)
  BY ValuesAre DEF Touched
<1>5. Touched(users, Ancestors[s]) \subseteq Key
  BY DEF Touched
<1>. QED  BY <1>1, <1>2, <1>3, <1>4, <1>5

\* A command that is refused.
LEMMA RefuseOutcome ==
  ASSUME Shape, head # None, NEW c \in Callers, Refuse(c)
  PROVE  Outcome(c)
<1>1. UNCHANGED <<store, head, branch, commits, batch, dirty>> /\ Ran(c, FALSE)
  BY DEF Refuse, content
<1>2. Repository'
  BY <1>1 DEF Shape, Repository
<1>3. \A k : HeadValue(k)' = HeadValue(k) /\ (InHistory(k)' <=> InHistory(k))
  BY <1>1 DEF HeadValue, HeadLine, InHistory
<1>4. Steps
  BY <1>1, <1>2 DEF Shape, Steps
<1>. QED  BY <1>1, <1>3, <1>4 DEF Outcome, Leaves

\* STATUS.
LEMMA StatusOutcome ==
  ASSUME Shape, head # None, NEW c \in Callers, Complete(c), caller[c].op = "status", Status(c)
  PROVE  Outcome(c)
<1>1. CASE ~caller[c].full
  BY <1>1, RefuseOutcome DEF Status
<1>2. CASE caller[c].full
  <2>1. /\ UNCHANGED <<store, head, branch, commits, batch>> /\ Ran(c, TRUE)
        /\ dirty' = [k \in Key |-> IF k \in Changes(c, HeadAnc) THEN epoch + 1 ELSE dirty[k]]
    BY <1>2 DEF Status, content, Mark
  <2>2. Repository'
    BY <2>1 DEF Shape, Repository
  <2>3. \A k : HeadValue(k)' = HeadValue(k)
    BY <2>1 DEF HeadValue, HeadLine
  <2>4. dirty' \in [Key -> -1..epoch + 1] /\ \A k \in Key : dirty'[k] \in {dirty[k], epoch + 1}
    BY <2>1 DEF Shape
  <2>5. Steps
    BY <2>1, <2>2, <2>4 DEF Shape, Steps
  <2>6. Settles(c)
    BY <2>1, <2>3 DEF Complete, Settles
  <2>. QED  BY <2>1, <2>5, <2>6 DEF Outcome
<1>. QED  BY <1>1, <1>2

\* A command that records a commit on HEAD's branch.
LEMMA RecordStep ==
  ASSUME Shape, head # None, NEW parents \in Seq(Nat), NEW changes \in Change,
         \A i \in DOMAIN parents : parents[i] \in 1..Len(commits), parents # <<>>,
         Record(head, parents, changes), UNCHANGED <<head, dirty>>,
         store' \in [Key -> Val], batch \subseteq batch', batch' \subseteq Key,
         \A k \in Key : store'[k] = store[k] \/ k \in batch'
  PROVE  /\ Steps
         /\ Behind(parents) \in SUBSET (1..Len(commits))
         /\ \A k : HeadValue(k)' = IF k \in DOMAIN changes THEN changes[k]
                                   ELSE ValueIn(commits, k, Behind(parents))
<1>. DEFINE n == Len(commits) + 1
<1>1. /\ commits' = Append(commits, [parents |-> parents, changes |-> changes])
      /\ branch' = [branch EXCEPT ![head] = n]
  BY DEF Record
<1>2. Grown(commits) /\ head \in Branches /\ branch \in [Branches -> 0..Len(commits)]
  BY DEF Shape, Repository
<1>3. /\ Grown(commits') /\ Len(commits') = Len(commits) + 1 /\ Len(commits) \in Nat
      /\ Lineage(commits')[Len(commits) + 1] = {Len(commits) + 1} \cup Behind(parents)
      /\ Behind(parents) \in SUBSET (1..Len(commits))
      /\ \A k : \A anc \in SUBSET (1..Len(commits)) :
           ValueIn(commits', k, {Len(commits) + 1} \cup anc)
             = IF k \in DOMAIN changes THEN changes[k] ELSE ValueIn(commits, k, anc)
  <2>1. /\ Grown(commits) /\ parents \in Seq(Nat) /\ changes \in Change
        /\ \A i \in DOMAIN parents : parents[i] \in 1..Len(commits)
        /\ commits # <<>> => parents # <<>>
        /\ commits' = Append(commits, [parents |-> parents, changes |-> changes])
    BY <1>1, <1>2
  <2>2. /\ Grown(commits') /\ Len(commits') = Len(commits) + 1 /\ Len(commits) \in Nat
        /\ \A s \in 1..Len(commits) : Lineage(commits')[s] = Lineage(commits)[s]
        /\ Lineage(commits')[Len(commits) + 1] = {Len(commits) + 1} \cup Behind(parents)
        /\ Behind(parents) \in SUBSET (1..Len(commits))
        /\ \A k : \A anc \in SUBSET (1..Len(commits)) :
             /\ ValueIn(commits', k, anc) = ValueIn(commits, k, anc)
             /\ ValueIn(commits', k, {Len(commits) + 1} \cup anc)
                  = IF k \in DOMAIN changes THEN changes[k] ELSE ValueIn(commits, k, anc)
    BY ONLY <2>1, Recorded, Zenon
  <2>. QED  BY ONLY <2>2
<1>4. HeadLine' = {n} \cup Behind(parents)
  BY <1>1, <1>2, <1>3 DEF HeadLine
<1>5. \A k : HeadValue(k)' = IF k \in DOMAIN changes THEN changes[k] ELSE ValueIn(commits, k,
      Behind(parents))
  BY <1>3, <1>4 DEF HeadValue
<1>6. Repository'
  BY <1>1, <1>2, <1>3 DEF Repository, Shape
<1>7. Steps
  BY <1>6 DEF Shape, Steps
<1>. QED  BY <1>3, <1>5, <1>7

\* COMMIT.
LEMMA CommitOutcome ==
  ASSUME Shape, head # None, NEW c \in Callers, Complete(c), Commit(c)
  PROVE  Outcome(c)
<1>. DEFINE ch == Changes(c, HeadAnc)
            changes == [k \in ch |-> store[k]]
            parents == <<branch[head]>>
<1>1. CASE Refuse(c)
  BY <1>1, RefuseOutcome
<1>2. CASE /\ Record(head, parents, changes)
           /\ Ran(c, TRUE) /\ UNCHANGED <<store, head, batch, dirty>>
  <2>1. /\ store \in [Key -> Val] /\ branch[head] \in 1..Len(commits) /\ batch \subseteq Key
    BY BehindHead DEF Shape, Repository
  <2>2. ch \subseteq Key /\ \A k \in ch : store[k] # HeadValue(k)
    BY ChangesDiffer
  <2>3. changes \in Change /\ DOMAIN changes = ch /\ \A k \in ch : changes[k] = store[k]
    <3>. HIDE DEF ch
    <3>1. changes \in [ch -> Val]
      BY <2>1, <2>2
    <3>. QED  BY <2>2, <3>1 DEF Change
  <2>4. /\ parents \in Seq(Nat) /\ parents # <<>> /\ DOMAIN parents = {1}
           /\ parents[1] = branch[head]
        /\ \A i \in DOMAIN parents : parents[i] \in 1..Len(commits)
    BY <2>1
  <2>5. Behind(parents) = HeadLine
    <3>1. {Lineage(commits)[parents[i]] : i \in DOMAIN parents} = {HeadLine}
      BY <2>4 DEF HeadLine
    <3>. QED  BY <3>1 DEF Behind
  <2>. HIDE DEF ch, changes, parents
  <2>6. Steps /\ \A k : HeadValue(k)' = IF k \in DOMAIN changes THEN changes[k]
                                        ELSE ValueIn(commits, k, Behind(parents))
    BY <1>2, <2>1, <2>3, <2>4, RecordStep
  <2>7. \A k : HeadValue(k)' = IF k \in ch THEN store[k] ELSE HeadValue(k)
    BY <2>3, <2>5, <2>6 DEF HeadValue
  <2>8. Settles(c)
    BY <1>2, <2>7 DEF Complete, Settles, ch
  <2>. QED  BY <1>2, <2>6, <2>8 DEF Outcome
<1>. QED  BY <1>1, <1>2 DEF Commit

\* A command that moves HEAD, or its branch, to another commit.
LEMMA MoveStep ==
  ASSUME Shape, head # None, NEW s \in 1..Len(commits),
         commits' = commits, head' \in Branches, head' # None,
         branch' \in [Branches -> 0..Len(commits)], branch'[head'] = s, store' \in [Key -> Val]
  PROVE  /\ Repository'
         /\ \A k : HeadValue(k)' = ValueIn(commits, k, Ancestors[s])
         /\ \A k : InHistory(k)' <=> By(commits, k, Ancestors[s]) # {}
<1>1. Repository /\ Len(commits) \in Nat /\ 1 \in 1..Len(commits)
  BY BehindHead DEF Shape, Repository, Grown
<1>2. HeadLine' = Ancestors[s]
  BY AncestorsAre DEF HeadLine
<1>3. Repository'
  BY <1>1 DEF Repository
<1>. QED  BY <1>2, <1>3 DEF HeadValue, InHistory

\* BRANCH: creating one or deleting one.
LEMMA BranchOutcome ==
  ASSUME Shape, head # None, NEW c \in Callers, Branch(c)
  PROVE  Outcome(c)
<1>1. CASE Refuse(c)
  BY <1>1, RefuseOutcome
<1>2. ASSUME NEW b \in Branches, NEW r \in 0..Len(commits), b # head,
             branch' = [branch EXCEPT ![b] = r],
             Ran(c, FALSE), UNCHANGED <<store, head, commits, batch, dirty>>
      PROVE  Outcome(c)
  <2>1. /\ branch' \in [Branches -> 0..Len(commits)] /\ branch'[head'] = branch[head]
        /\ head \in Branches /\ branch[head] \in 1..Len(commits) /\ store \in [Key -> Val]
    BY <1>2, BehindHead DEF Shape, Repository
  <2>2. Repository'
    BY <1>2, <2>1, MoveStep
  <2>3. \A k : HeadValue(k)' = HeadValue(k) /\ (InHistory(k)' <=> InHistory(k))
    BY <1>2, <2>1 DEF HeadValue, HeadLine, InHistory
  <2>4. Steps
    BY <1>2, <2>2 DEF Shape, Steps
  <2>. QED  BY <1>2, <2>3, <2>4 DEF Outcome, Leaves
<1>3. CASE /\ \E b \in Branches :
                \/ branch[b] = 0 /\ \E r \in Revision : branch' = [branch EXCEPT ![b] = r]
                \/ branch[b] # 0 /\ b # head /\ branch' = [branch EXCEPT ![b] = 0]
           /\ Ran(c, FALSE) /\ UNCHANGED <<store, head, commits, batch, dirty>>
  <2>1. branch[head] # 0 /\ Revision \subseteq 0..Len(commits) /\ 0 \in 0..Len(commits)
    BY DEF Shape, Repository, Grown, Revision
  <2>2. PICK b \in Branches :
          \/ branch[b] = 0 /\ \E r \in Revision : branch' = [branch EXCEPT ![b] = r]
          \/ branch[b] # 0 /\ b # head /\ branch' = [branch EXCEPT ![b] = 0]
    BY <1>3
  <2>3. b # head /\ \E r \in 0..Len(commits) : branch' = [branch EXCEPT ![b] = r]
    BY <2>1, <2>2
  <2>. QED  BY <1>2, <1>3, <2>3
<1>. QED  BY <1>1, <1>3 DEF Branch

\* CHECKOUT.
LEMMA CheckoutOutcome ==
  ASSUME Shape, head # None, NEW c \in Callers, Complete(c), Checkout(c)
  PROVE  Outcome(c)
<1>. DEFINE ch == Changes(c, HeadAnc)
<1>1. CASE Refuse(c)
  BY <1>1, RefuseOutcome
<1>2. ASSUME NEW b \in Branches, branch[b] # 0,
             Materialize(Moved(branch[b]) \cup ch, Ancestors[branch[b]]), head' = b,
             Ran(c, TRUE), UNCHANGED <<branch, commits, dirty>>
      PROVE  Outcome(c)
  <2>1. /\ Repository /\ branch[b] \in 1..Len(commits) /\ branch' \in [Branches -> 0..Len(commits)]
        /\ b # None /\ branch'[head'] = branch[b]
    BY <1>2, NoneIsNoBranch DEF Shape, Repository
  <2>2. ch \subseteq Key /\ \A k \in ch : store[k] # HeadValue(k)
    BY ChangesDiffer
  <2>3. Moved(branch[b]) \subseteq Key
    <3>1. \A s \in 1..Len(commits) : DOMAIN commits[s].changes \subseteq Key
      BY <2>1, ValueType DEF Repository
    <3>2. HeadAnc \subseteq 1..Len(commits) /\ Ancestors[branch[b]] \subseteq 1..Len(commits)
      BY <2>1, BehindHead, BehindCommit
    <3>. QED  BY <3>1, <3>2 DEF Moved, Changed, SymDiff
  <2>. HIDE DEF ch
  <2>4. /\ store' \in [Key -> Val] /\ batch' = batch \cup (Moved(branch[b]) \cup ch)
           /\ batch' \subseteq Key
        /\ \A k \in Key : store'[k] = IF k \in Moved(branch[b]) \cup ch
                                      THEN ValueIn(commits, k, Ancestors[branch[b]]) ELSE store[k]
    <3>. DEFINE keys == Moved(branch[b]) \cup ch
    <3>1. Shape /\ branch[b] \in 1..Len(commits) /\ keys \in SUBSET Key
          /\ Materialize(keys, Ancestors[branch[b]])
      BY <1>2, <2>1, <2>2, <2>3
    <3>. HIDE DEF keys
    <3>2. /\ store' \in [Key -> Val] /\ batch' = batch \cup keys /\ batch' \subseteq Key
          /\ \A k \in Key : store'[k] = IF k \in keys THEN ValueIn(commits, k,
             Ancestors[branch[b]]) ELSE store[k]
      BY ONLY <3>1, Materialized
    <3>. QED  BY <3>2 DEF keys
  <2>5. Repository' /\ \A k : HeadValue(k)' = ValueIn(commits, k, Ancestors[branch[b]])
    BY <1>2, <2>1, <2>4, MoveStep
  <2>6. \A k : k \notin Moved(branch[b]) => HeadValue(k) = ValueIn(commits, k, Ancestors[branch[b]])
    BY <2>1, BehindHead, UnmovedSame DEF Moved, HeadValue
  <2>7. Settles(c)
    BY <2>2, <2>4, <2>5, <2>6 DEF Complete, Settles, ch
  <2>8. Steps
    BY <1>2, <2>1, <2>4, <2>5 DEF Shape, Steps
  <2>. QED  BY <1>2, <2>7, <2>8 DEF Outcome
<1>. QED  BY <1>1, <1>2 DEF Checkout

\* RESTORE.
LEMMA RestoreOutcome ==
  ASSUME Shape, head # None, NEW c \in Callers, Restore(c)
  PROVE  Outcome(c)
<1>1. PICK r \in Revision, us \in SUBSET User \ {{}} :
        /\ store' = Written(Differing(us, Ancestors[r]), Ancestors[r])
        /\ batch' = batch \cup Touched(Differing(us, Ancestors[r]), Ancestors[r])
        /\ Ran(c, FALSE) /\ UNCHANGED <<head, branch, commits, dirty>>
  BY DEF Restore
<1>2. /\ store' \in [Key -> Val] /\ batch' \subseteq Key
      /\ \A k \in Key : store'[k] = store[k]
         \/ k \in Touched(Differing(us, Ancestors[r]), Ancestors[r])
  BY <1>1, WrittenBack DEF Revision
<1>3. \A k : HeadValue(k)' = HeadValue(k) /\ (InHistory(k)' <=> InHistory(k))
  BY <1>1 DEF HeadValue, HeadLine, InHistory
<1>4. Repository'
  BY <1>1, <1>2 DEF Shape, Repository
<1>5. Steps
  BY <1>1, <1>2, <1>4 DEF Shape, Steps
<1>6. Leaves
  BY <1>1, <1>2, <1>3 DEF Leaves
<1>. QED  BY <1>1, <1>5, <1>6 DEF Outcome

\* RESET.
LEMMA ResetOutcome ==
  ASSUME Shape, head # None, NEW c \in Callers, Complete(c), Reset(c)
  PROVE  Outcome(c)
<1>. DEFINE ch == Changes(c, HeadAnc)
<1>1. PICK r \in Revision, hard \in BOOLEAN :
        /\ branch' = [branch EXCEPT ![head] = r]
        /\ IF hard THEN Materialize(Moved(r) \cup ch, Ancestors[r]) /\ UNCHANGED dirty
                   ELSE Mark(Moved(r)) /\ UNCHANGED <<store, batch>>
        /\ Ran(c, hard) /\ UNCHANGED <<head, commits>>
  BY DEF Reset
<1>2. /\ Repository /\ r \in 1..Len(commits) /\ branch' \in [Branches -> 0..Len(commits)]
      /\ head \in Branches /\ branch'[head'] = r /\ store \in [Key -> Val] /\ batch \subseteq Key
  BY <1>1, BehindHead DEF Shape, Repository, Revision
<1>3. ch \subseteq Key /\ \A k \in ch : store[k] # HeadValue(k)
  BY ChangesDiffer
<1>4. Moved(r) \subseteq Key
  <2>1. \A s \in 1..Len(commits) : DOMAIN commits[s].changes \subseteq Key
    BY <1>2, ValueType DEF Repository
  <2>2. HeadAnc \subseteq 1..Len(commits) /\ Ancestors[r] \subseteq 1..Len(commits)
    BY <1>2, BehindHead, BehindCommit
  <2>. QED  BY <2>1, <2>2 DEF Moved, Changed, SymDiff
<1>. HIDE DEF ch
<1>5. \A k : k \notin Moved(r) => HeadValue(k) = ValueIn(commits, k, Ancestors[r])
  BY <1>2, BehindHead, UnmovedSame DEF Moved, HeadValue
<1>6. CASE hard
  <2>1. Materialize(Moved(r) \cup ch, Ancestors[r]) /\ dirty' = dirty /\ Ran(c, TRUE)
    BY <1>1, <1>6
  <2>2. /\ store' \in [Key -> Val] /\ batch' = batch \cup (Moved(r) \cup ch) /\ batch' \subseteq Key
        /\ \A k \in Key : store'[k] = IF k \in Moved(r) \cup ch
                                      THEN ValueIn(commits, k, Ancestors[r]) ELSE store[k]
    <3>. DEFINE keys == Moved(r) \cup ch
    <3>1. Shape /\ r \in 1..Len(commits) /\ keys \in SUBSET Key /\ Materialize(keys, Ancestors[r])
      BY <1>2, <1>3, <1>4, <2>1
    <3>. HIDE DEF keys
    <3>2. /\ store' \in [Key -> Val] /\ batch' = batch \cup keys /\ batch' \subseteq Key
          /\ \A k \in Key : store'[k] = IF k \in keys THEN ValueIn(commits, k,
             Ancestors[r]) ELSE store[k]
      BY ONLY <3>1, Materialized
    <3>. QED  BY <3>2 DEF keys
  <2>3. Repository' /\ \A k : HeadValue(k)' = ValueIn(commits, k, Ancestors[r])
    BY <1>1, <1>2, <2>2, MoveStep
  <2>4. Settles(c)
    BY <1>3, <1>5, <2>2, <2>3 DEF Complete, Settles, ch
  <2>5. Steps
    BY <1>1, <2>1, <2>2, <2>3 DEF Shape, Steps
  <2>. QED  BY <2>1, <2>4, <2>5 DEF Outcome
<1>7. CASE ~hard
  <2>1. /\ dirty' = [k \in Key |-> IF k \in Moved(r) THEN epoch + 1 ELSE dirty[k]]
        /\ store' = store /\ batch' = batch /\ Ran(c, FALSE)
    BY <1>1, <1>7 DEF Mark
  <2>2. /\ Repository' /\ \A k : HeadValue(k)' = ValueIn(commits, k, Ancestors[r])
        /\ \A k : InHistory(k)' <=> By(commits, k, Ancestors[r]) # {}
    BY <1>1, <1>2, <2>1, MoveStep
  <2>3. dirty' \in [Key -> -1..epoch + 1] /\ \A k \in Key : dirty'[k] \in {dirty[k], epoch + 1}
    BY <2>1 DEF Shape
  <2>4. Steps
    BY <1>1, <1>2, <2>1, <2>2, <2>3 DEF Steps, Shape
  <2>5. ASSUME NEW k \in Key, k \notin Moved(r), InHistory(k)
        PROVE  InHistory(k)'
    <3>1. PICK s \in HeadAnc : k \in DOMAIN commits[s].changes
      BY <1>2, <2>5, BehindHead DEF Changed
    <3>2. s \in Ancestors[r]
      BY <2>5, <3>1 DEF Moved, Changed, SymDiff
    <3>. QED  BY <2>2, <3>1, <3>2 DEF By
  <2>6. Leaves
    BY <1>5, <2>1, <2>2, <2>5 DEF Leaves
  <2>. QED  BY <2>1, <2>4, <2>6 DEF Outcome
<1>. QED  BY <1>6, <1>7

\* The newest common ancestor.
LEMMA BaseIs ==
  ASSUME Repository, NEW o \in 1..Len(commits), NEW t \in 1..Len(commits)
  PROVE  /\ Base(o, t) \in 1..Len(commits) /\ Base(o, t) \in Ancestors[o]
            /\ Base(o, t) \in Ancestors[t]
         /\ Ancestors[Base(o, t)] \subseteq Ancestors[o]
            /\ Ancestors[Base(o, t)] \subseteq Ancestors[t]
<1>. DEFINE common == Ancestors[o] \cap Ancestors[t]
<1>1. 1 \in common /\ common \subseteq 1..Len(commits) /\ Len(commits) \in Nat
  BY BehindCommit DEF Repository, Grown
<1>2. Max(common) \in common
  <2>1. common \in SUBSET (0..Len(commits)) /\ common # {}
    <3>. HIDE DEF common
    <3>. QED  BY <1>1
  <2>. HIDE DEF common
  <2>. QED  BY <1>1, <2>1, MaxIs
<1>3. Base(o, t) \in common
  BY <1>2 DEF Base
<1>. QED  BY <1>1, <1>3, BehindCommit

\* Only users that theirs changed are taken.
LEMMA TakenOfTheirs ==
  ASSUME NEW o, NEW t
  PROVE  Taken(o, t) \cup Conflicts(o, t) \subseteq ChangedSince(t, Base(o, t))
BY DEF Taken, Conflicts, Diverged

\* Of a user theirs did not change since the base, both sides have what ours has.
LEMMA NotTheirs ==
  ASSUME Repository, NEW o \in 1..Len(commits), NEW t \in 1..Len(commits), NEW k \in Key,
         Owner[k] \notin ChangedSince(t, Base(o, t))
  PROVE  ValueIn(commits, k, Ancestors[o] \cup Ancestors[t]) = ValueIn(commits, k, Ancestors[o])
<1>1. k \notin Changed(Ancestors[t] \ Ancestors[Base(o, t)])
  BY DEF ChangedSince, Users
<1>2. Ancestors[Base(o, t)] \subseteq Ancestors[o]
  BY BaseIs
<1>3. By(commits, k, Ancestors[o] \cup Ancestors[t]) = By(commits, k, Ancestors[o])
  BY <1>1, <1>2 DEF By, Changed
<1>. QED  BY <1>3, ValueSame

\* MERGE, where HEAD has nothing of its own.
LEMMA FastForwardOutcome ==
  ASSUME Shape, head # None, NEW c \in Callers, Complete(c), Changes(c, HeadAnc) = {},
         NEW t \in Revision, branch[head] \in Ancestors[t],
         Materialize(Changed(Ancestors[t] \ HeadAnc), Ancestors[t]),
         branch' = [branch EXCEPT ![head] = t], Ran(c, TRUE), UNCHANGED <<head, commits, dirty>>
  PROVE  Outcome(c)
<1>1. /\ Repository /\ t \in 1..Len(commits) /\ branch' \in [Branches -> 0..Len(commits)]
      /\ head \in Branches /\ branch'[head'] = t /\ batch \subseteq Key
  BY BehindHead DEF Shape, Repository, Revision
<1>2. HeadAnc \subseteq Ancestors[t] /\ HeadAnc \subseteq 1..Len(commits)
      /\ Ancestors[t] \subseteq 1..Len(commits)
  BY <1>1, BehindHead, BehindCommit
<1>. DEFINE keys == Changed(Ancestors[t] \ HeadAnc)
<1>3. keys \in SUBSET Key
  <2>1. \A s \in 1..Len(commits) : DOMAIN commits[s].changes \subseteq Key
    BY <1>1, ValueType DEF Repository
  <2>. QED  BY <1>2, <2>1 DEF Changed
<1>4. \A k : k \notin keys => HeadValue(k) = ValueIn(commits, k, Ancestors[t])
  <2>1. SymDiff(HeadAnc, Ancestors[t]) = Ancestors[t] \ HeadAnc
    BY <1>2 DEF SymDiff
  <2>. QED  BY <1>1, <2>1, BehindHead, UnmovedSame DEF HeadValue
<1>5. Shape /\ t \in 1..Len(commits) /\ keys \in SUBSET Key /\ Materialize(keys, Ancestors[t])
  BY <1>1, <1>3
<1>. HIDE DEF keys
<1>6. /\ store' \in [Key -> Val] /\ batch' = batch \cup keys /\ batch' \subseteq Key
      /\ \A k \in Key : store'[k] = IF k \in keys THEN ValueIn(commits, k,
         Ancestors[t]) ELSE store[k]
  BY ONLY <1>5, Materialized
<1>7. Repository' /\ \A k : HeadValue(k)' = ValueIn(commits, k, Ancestors[t])
  BY <1>1, <1>6, MoveStep
<1>8. Settles(c)
  BY <1>4, <1>6, <1>7 DEF Complete, Settles
<1>9. Steps
  BY <1>1, <1>6, <1>7 DEF Shape, Steps
<1>. QED  BY <1>8, <1>9 DEF Outcome

\* MERGE of two lines of work.
LEMMA TrueMergeOutcome ==
  ASSUME Shape, head # None, NEW c \in Callers, Complete(c), Changes(c, HeadAnc) = {},
         NEW t \in Revision, NEW o, o = branch[head], NEW users,
         users \subseteq Taken(o, t) \cup Conflicts(o, t),
         store' = Written(Differing(users, Ancestors[t]), Ancestors[t]),
         batch' = batch \cup Touched(Differing(users, Ancestors[t]), Ancestors[t]),
         Record(head, <<o, t>>,
         MergeRecord(o, t, Written(Differing(users, Ancestors[t]), Ancestors[t]))),
         Ran(c, TRUE), UNCHANGED <<head, dirty>>
  PROVE  Outcome(c)
<1>. DEFINE differ == Differing(users, Ancestors[t])
            parents == <<o, t>>
            changes == MergeRecord(o, t, store')
<1>1. Repository /\ t \in 1..Len(commits) /\ o \in 1..Len(commits) /\ batch \subseteq Key
  BY BehindHead DEF Shape, Repository, Revision
<1>2. /\ store' \in [Key -> Val] /\ batch' \subseteq Key
      /\ Written(differ, Ancestors[t]) = store'
      /\ \A k \in Key : store'[k] = IF Owner[k] \in differ THEN ValueIn(commits, k,
         Ancestors[t]) ELSE store[k]
      /\ \A k \in Key : store'[k] = store[k] \/ k \in Touched(differ, Ancestors[t])
  <2>1. /\ Shape /\ t \in 1..Len(commits) /\ store' = Written(differ, Ancestors[t])
        /\ batch' = batch \cup Touched(differ, Ancestors[t])
    BY <1>1
  <2>. HIDE DEF differ
  <2>. QED  BY ONLY <2>1, WrittenBack
<1>3. /\ DOMAIN changes \subseteq Key /\ changes \in Change
      /\ \A k \in DOMAIN changes : changes[k] = store'[k]
      /\ \A k \in Key : k \notin DOMAIN changes =>
           \/ Owner[k] \notin ChangedSince(t, Base(o, t))
           \/ /\ store'[k] = None
              /\ ValueIn(commits, k, Ancestors[o]) = None
                 /\ ValueIn(commits, k, Ancestors[t]) = None
  <2>. DEFINE sides == {Ancestors[o], Ancestors[t], Ancestors[Base(o, t)]}
              keys == {k \in Key : /\ Owner[k] \in ChangedSince(t, Base(o, t))
                                   /\ store'[k] # None \/ \E anc \in sides : ValueAt(k, anc) # None}
  <2>1. changes = [k \in keys |-> store'[k]]
    BY DEF MergeRecord
  <2>2. keys \subseteq Key
    OBVIOUS
  <2>3. \A k \in Key : k \notin keys =>
           \/ Owner[k] \notin ChangedSince(t, Base(o, t))
           \/ store'[k] = None /\ ValueAt(k, Ancestors[o]) = None /\ ValueAt(k, Ancestors[t]) = None
    OBVIOUS
  <2>. HIDE DEF keys, changes
  <2>4. changes \in [keys -> Val]
    BY <1>2, <2>1, <2>2
  <2>. QED  BY <2>1, <2>2, <2>3, <2>4, ValuesAre DEF Change
<1>4. /\ parents \in Seq(Nat) /\ parents # <<>> /\ DOMAIN parents = {1, 2} /\ parents[1] = o
         /\ parents[2] = t
      /\ \A i \in DOMAIN parents : parents[i] \in 1..Len(commits)
  BY <1>1
<1>5. Behind(parents) = Ancestors[o] \cup Ancestors[t]
  <2>1. {Lineage(commits)[parents[i]] : i \in DOMAIN parents} = {Ancestors[o], Ancestors[t]}
    <3>. HIDE DEF parents
    <3>. QED  BY <1>4, AncestorsAre
  <2>. QED  BY <2>1 DEF Behind
<1>6. Record(head, parents, changes)
  BY <1>2
<1>7. \A k \in Key : store'[k] = store[k] \/ k \in batch'
  BY <1>2
<1>. HIDE DEF differ, parents, changes
<1>8. Steps /\ \A k : HeadValue(k)' = IF k \in DOMAIN changes THEN changes[k]
                                      ELSE ValueIn(commits, k, Behind(parents))
  <2>1. /\ Shape /\ head # None /\ parents \in Seq(Nat) /\ changes \in Change
        /\ \A i \in DOMAIN parents : parents[i] \in 1..Len(commits)
        /\ parents # <<>> /\ Record(head, parents, changes) /\ UNCHANGED <<head, dirty>>
        /\ store' \in [Key -> Val] /\ batch \subseteq batch' /\ batch' \subseteq Key
        /\ \A k \in Key : store'[k] = store[k] \/ k \in batch'
    BY <1>2, <1>3, <1>4, <1>6, <1>7
  <2>. QED  BY ONLY <2>1, RecordStep
<1>9. ASSUME NEW k \in Key, ~Missed(k)
      PROVE  store'[k] = HeadValue(k)'
  <2>1. store[k] = HeadValue(k)
    BY <1>9 DEF Complete
  <2>2. HeadValue(k) = ValueIn(commits, k, Ancestors[o])
    BY <1>1, BehindHead DEF HeadValue
  <2>3. CASE k \in DOMAIN changes
    BY <1>3, <1>8, <2>3
  <2>4. CASE k \notin DOMAIN changes /\ Owner[k] \notin ChangedSince(t, Base(o, t))
    <3>1. Owner[k] \notin differ
      BY <2>4, TakenOfTheirs DEF differ, Differing
    <3>2. ValueIn(commits, k, Behind(parents)) = ValueIn(commits, k, Ancestors[o])
      <4>1. /\ Repository /\ o \in 1..Len(commits) /\ t \in 1..Len(commits) /\ k \in Key
            /\ Owner[k] \notin ChangedSince(t, Base(o, t))
        BY <1>1, <2>4
      <4>2. ValueIn(commits, k, Ancestors[o] \cup Ancestors[t]) = ValueIn(commits, k, Ancestors[o])
        BY ONLY <4>1, NotTheirs
      <4>. QED  BY ONLY <1>5, <4>2
    <3>. QED  BY <1>2, <1>8, <2>1, <2>2, <2>4, <3>1, <3>2
  <2>5. CASE /\ k \notin DOMAIN changes /\ store'[k] = None
             /\ ValueIn(commits, k, Ancestors[o]) = None /\ ValueIn(commits, k, Ancestors[t]) = None
    <3>1. Ancestors[o] \in SUBSET (1..Len(commits)) /\ Ancestors[t] \in SUBSET (1..Len(commits))
          /\ Grown(commits)
      BY <1>1, BehindCommit DEF Repository
    <3>2. ValueIn(commits, k, Behind(parents)) = None
      BY <1>5, <2>5, <3>1, ValueOfTwo
    <3>. QED  BY <1>8, <2>5, <3>2
  <2>. QED  BY <1>3, <2>3, <2>4, <2>5
<1>10. Settles(c)
  BY <1>9 DEF Settles
<1>. QED  BY <1>8, <1>10 DEF Outcome

\* MERGE.
LEMMA MergeOutcome ==
  ASSUME Shape, head # None, NEW c \in Callers, Complete(c), Merge(c)
  PROVE  Outcome(c)
<1>1. CASE Refuse(c)
  BY <1>1, RefuseOutcome
<1>2. CASE ~Refuse(c)
  <2>1. Changes(c, HeadAnc) = {}
    BY <1>2 DEF Merge
  <2>2. PICK t \in Revision :
          \/ /\ t \notin HeadAnc /\ branch[head] \in Ancestors[t]
             /\ Materialize(Changed(Ancestors[t] \ HeadAnc), Ancestors[t])
             /\ branch' = [branch EXCEPT ![head] = t]
             /\ Ran(c, TRUE) /\ UNCHANGED <<head, commits, dirty>>
          \/ \E users : /\ users \subseteq Taken(branch[head], t) \cup Conflicts(branch[head], t)
                        /\ store' = Written(Differing(users, Ancestors[t]), Ancestors[t])
                        /\ batch' = batch \cup Touched(Differing(users, Ancestors[t]), Ancestors[t])
                        /\ Record(head, <<branch[head], t>>,
                                  MergeRecord(branch[head], t,
                                  Written(Differing(users, Ancestors[t]), Ancestors[t])))
                        /\ Ran(c, TRUE) /\ UNCHANGED <<head, dirty>>
    BY <1>2, <2>1 DEF Merge
  <2>3. CASE /\ t \notin HeadAnc /\ branch[head] \in Ancestors[t]
             /\ Materialize(Changed(Ancestors[t] \ HeadAnc), Ancestors[t])
             /\ branch' = [branch EXCEPT ![head] = t]
             /\ Ran(c, TRUE) /\ UNCHANGED <<head, commits, dirty>>
    BY <2>1, <2>3, FastForwardOutcome
  <2>4. ASSUME NEW users,
               users \subseteq Taken(branch[head], t) \cup Conflicts(branch[head], t),
               store' = Written(Differing(users, Ancestors[t]), Ancestors[t]),
               batch' = batch \cup Touched(Differing(users, Ancestors[t]), Ancestors[t]),
               Record(head, <<branch[head], t>>,
                      MergeRecord(branch[head], t,
                      Written(Differing(users, Ancestors[t]), Ancestors[t]))),
               Ran(c, TRUE), UNCHANGED <<head, dirty>>
        PROVE  Outcome(c)
    BY <2>1, <2>4, TrueMergeOutcome
  <2>. QED  BY <2>2, <2>3, <2>4
<1>. QED  BY <1>1, <1>2

\* REVERT.
LEMMA RevertOutcome ==
  ASSUME Shape, head # None, NEW c \in Callers, Complete(c), Revert(c)
  PROVE  Outcome(c)
<1>1. CASE Refuse(c)
  BY <1>1, RefuseOutcome
<1>2. CASE ~Refuse(c)
  <2>1. Changes(c, HeadAnc) = {}
    BY <1>2 DEF Revert
  <2>2. PICK r \in Revision : /\ commits[r].parents # <<>>
                              /\ \E back : LET anc == Ancestors[Head(commits[r].parents)]
                                               keys == Touched(back, anc)
                                               result == Written(back, anc)
                                           IN  /\ store' = result /\ batch' = batch \cup keys
                                               /\ Record(head, <<branch[head]>>,
                                                  [k \in keys |-> result[k]])
                                               /\ Ran(c, TRUE) /\ UNCHANGED <<head, dirty>>
    BY <1>2, <2>1 DEF Revert
  <2>. DEFINE first == Head(commits[r].parents)
  <2>3. PICK back : /\ store' = Written(back, Ancestors[first])
                    /\ batch' = batch \cup Touched(back, Ancestors[first])
                    /\ Record(head, <<branch[head]>>,
                              [k \in Touched(back, Ancestors[first]) |-> Written(back,
                              Ancestors[first])[k]])
                    /\ Ran(c, TRUE) /\ UNCHANGED <<head, dirty>>
    BY <2>2
  <2>4. first \in 1..Len(commits) /\ branch[head] \in 1..Len(commits) /\ batch \subseteq Key
    <3>1. r \in 1..Len(commits) /\ Len(commits) \in Nat /\ Grown(commits)
          /\ branch[head] \in 1..Len(commits)
      BY BehindHead DEF Shape, Repository, Revision, Grown
    <3>2. commits[r] \in CommitRecord
      BY <3>1 DEF Grown
    <3>3. commits[r].parents \in Seq(Nat)
      BY <3>2 DEF CommitRecord
    <3>4. first = commits[r].parents[1] /\ 1 \in DOMAIN commits[r].parents
      BY <2>2, <3>3
    <3>5. first \in 1..r - 1
      <4>. HIDE DEF first
      <4>. QED  BY <3>1, <3>4 DEF Grown
    <3>. HIDE DEF first
    <3>. QED  BY <3>1, <3>5 DEF Shape
  <2>. HIDE DEF first
  <2>. DEFINE keys == Touched(back, Ancestors[first])
              parents == <<branch[head]>>
              changes == [k \in keys |-> store'[k]]
  <2>5. /\ store' \in [Key -> Val] /\ batch' \subseteq Key
           /\ store' = Written(back, Ancestors[first])
        /\ \A k \in Key : store'[k] = store[k] \/ k \in keys
    <3>1. /\ Shape /\ first \in 1..Len(commits) /\ store' = Written(back, Ancestors[first])
          /\ batch' = batch \cup Touched(back, Ancestors[first])
      BY <2>3, <2>4
    <3>. QED  BY ONLY <3>1, WrittenBack
  <2>6. keys \subseteq Key
    BY DEF Touched
  <2>7. batch \subseteq batch' /\ \A k \in Key : store'[k] = store[k] \/ k \in batch'
    BY <2>3, <2>5
  <2>8. Record(head, parents, changes)
    BY <2>3, <2>5
  <2>. HIDE DEF keys
  <2>9. changes \in Change /\ DOMAIN changes = keys /\ \A k \in keys : changes[k] = store'[k]
    <3>1. changes \in [keys -> Val]
      BY <2>5, <2>6
    <3>. QED  BY <2>6, <3>1 DEF Change
  <2>10. /\ parents \in Seq(Nat) /\ parents # <<>> /\ DOMAIN parents = {1}
            /\ parents[1] = branch[head]
         /\ \A i \in DOMAIN parents : parents[i] \in 1..Len(commits)
    BY <2>4
  <2>11. Behind(parents) = HeadLine
    <3>1. {Lineage(commits)[parents[i]] : i \in DOMAIN parents} = {HeadLine}
      BY <2>10 DEF HeadLine
    <3>. QED  BY <3>1 DEF Behind
  <2>. HIDE DEF changes, parents
  <2>12. Steps /\ \A k : HeadValue(k)' = IF k \in DOMAIN changes THEN changes[k]
                                         ELSE ValueIn(commits, k, Behind(parents))
    <3>1. /\ Shape /\ head # None /\ parents \in Seq(Nat) /\ changes \in Change
          /\ \A i \in DOMAIN parents : parents[i] \in 1..Len(commits)
          /\ parents # <<>> /\ Record(head, parents, changes) /\ UNCHANGED <<head, dirty>>
          /\ store' \in [Key -> Val] /\ batch \subseteq batch' /\ batch' \subseteq Key
          /\ \A k \in Key : store'[k] = store[k] \/ k \in batch'
      BY <2>3, <2>5, <2>7, <2>8, <2>9, <2>10
    <3>. QED  BY ONLY <3>1, RecordStep
  <2>13. Settles(c)
    <3>1. \A k : HeadValue(k)' = IF k \in keys THEN store'[k] ELSE HeadValue(k)
      BY <2>9, <2>11, <2>12 DEF HeadValue
    <3>2. \A k \in Key : store[k] = HeadValue(k) \/ Missed(k)
      BY <2>1 DEF Complete
    <3>. QED  BY <2>5, <3>1, <3>2 DEF Settles
  <2>. QED  BY <2>3, <2>12, <2>13 DEF Outcome
<1>. QED  BY <1>1, <1>2

\* A command settles or it does not.
LEMMA RanOnce ==
  ASSUME Shape, NEW c \in Callers, NEW s \in BOOLEAN, NEW t \in BOOLEAN, Ran(c, s), Ran(c, t)
  PROVE  s = t
<1>1. /\ caller' = [caller EXCEPT ![c].at = "ran", ![c].settle = IF s THEN epoch ELSE Never]
      /\ caller' = [caller EXCEPT ![c].at = "ran", ![c].settle = IF t THEN epoch ELSE Never]
  BY DEF Ran
<1>2. /\ caller'[c].settle = IF s THEN epoch ELSE Never
      /\ caller'[c].settle = IF t THEN epoch ELSE Never
  BY <1>1 DEF Shape
<1>3. epoch # Never
  BY DEF Shape, Never
<1>. QED  BY <1>2, <1>3

\* VC.INIT where there is no repository yet: the first commit holds all there is.
LEMMA InitOutcome ==
  ASSUME Shape, NEW c \in Callers, ScanCovers,
         caller[c].op = "init", caller[c].at = "wait", caller[c].full, ~Refuse(c), VcInit(c)
  PROVE  head = None /\ Steps /\ Ran(c, TRUE) /\ Settles(c)
<1>. DEFINE found == {k \in Candidates(c) : store[k] # None}
            changes == [k \in found |-> store[k]]
            parents == << >>
<1>1. PICK b \in Branches : head' = b /\ Record(b, parents, changes)
  BY DEF VcInit
<1>2. head = None /\ commits = <<>> /\ Ran(c, TRUE) /\ UNCHANGED <<store, batch, dirty>>
  BY DEF VcInit, Shape, Repository
<1>3. /\ store \in [Key -> Val] /\ Grown(commits) /\ branch \in [Branches -> 0..Len(commits)]
      /\ Len(commits) = 0 /\ b # None
  BY <1>1, <1>2, NoneIsNoBranch DEF Shape, Repository
<1>4. found \subseteq Key
  BY DEF Candidates, Shape
<1>. HIDE DEF found
<1>5. changes \in Change /\ DOMAIN changes = found /\ \A k \in found : changes[k] = store[k]
  <2>1. changes \in [found -> Val]
    BY <1>3, <1>4
  <2>. QED  BY <1>4, <2>1 DEF Change
<1>6. /\ Behind(parents) = {} /\ parents \in Seq(Nat)
      /\ \A i \in DOMAIN parents : parents[i] \in 1..Len(commits)
  BY DEF Behind
<1>7. /\ commits' = Append(commits, [parents |-> parents, changes |-> changes])
      /\ branch' = [branch EXCEPT ![b] = Len(commits) + 1]
  BY <1>1 DEF Record
<1>. HIDE DEF changes, parents
<1>8. /\ Grown(commits') /\ Len(commits') = Len(commits) + 1 /\ Len(commits) \in Nat
      /\ Lineage(commits')[Len(commits) + 1] = {Len(commits) + 1} \cup Behind(parents)
      /\ \A k : \A anc \in SUBSET (1..Len(commits)) :
           ValueIn(commits', k, {Len(commits) + 1} \cup anc)
             = IF k \in DOMAIN changes THEN changes[k] ELSE ValueIn(commits, k, anc)
  <2>1. /\ Grown(commits) /\ parents \in Seq(Nat) /\ changes \in Change
        /\ \A i \in DOMAIN parents : parents[i] \in 1..Len(commits)
        /\ commits # <<>> => parents # <<>>
        /\ commits' = Append(commits, [parents |-> parents, changes |-> changes])
    BY <1>2, <1>3, <1>5, <1>6, <1>7
  <2>. QED  BY ONLY <2>1, Recorded
<1>9. Repository'
  BY <1>1, <1>2, <1>3, <1>7, <1>8 DEF Repository
<1>10. \A k : HeadValue(k)' = IF k \in found THEN store[k] ELSE None
  <2>1. HeadLine' = {Len(commits) + 1} \cup {}
    BY <1>1, <1>3, <1>6, <1>7, <1>8 DEF HeadLine
  <2>2. \A k : ValueIn(commits, k, {}) = None
    BY DEF ValueIn, By
  <2>. QED  BY <1>5, <1>8, <2>1, <2>2 DEF HeadValue
<1>11. Steps
  BY <1>1, <1>2, <1>3, <1>9 DEF Steps, Shape
<1>12. Settles(c)
  <2>. SUFFICES ASSUME NEW k \in Key, ~Missed(k) PROVE store'[k] = HeadValue(k)'
    BY DEF Settles
  <2>1. store[k] # None => k \in Candidates(c)
    BY <1>2 DEF ScanCovers, Uncommitted, InHistory, Noted, Candidates
  <2>. QED  BY <1>2, <1>10, <2>1 DEF found
<1>. QED  BY <1>2, <1>11, <1>12

\* A VC request at the head of the group: how its command can end.
Starts(c) == head = None /\ caller[c].op = "init" /\ Steps /\ Ran(c, TRUE) /\ Settles(c)
\* It waits there, and its caller has seen what differs.
LEMMA RunVcOutcome ==
  ASSUME VcsInv, NEW c \in Callers, RunVc(c)
  PROVE  /\ stage = "run" /\ work # <<>> /\ Asks(Head(work), c) /\ caller[c].at = "wait"
         /\ \/ head # None /\ Outcome(c) /\ (Ran(c, TRUE) => caller[c].op \in NeedsScan)
            \/ Starts(c)
            \/ head = None /\ Refuse(c)
<1>1. Shape /\ OneRequestEach /\ ScansWhenNeeded /\ Tracked
  BY DEF VcsInv
<1>2. stage = "run" /\ work # <<>> /\ Asks(Head(work), c)
  BY DEF RunVc, Runs, Asks
<1>3. caller[c].at = "wait"
  <2>1. work \in Seq(Request)
    BY <1>1 DEF Shape
  <2>2. 1 \in 1..Len(work) /\ Head(work) = work[1]
    BY <1>2, <2>1
  <2>. QED  BY <1>1, <1>2, <2>2 DEF OneRequestEach
<1>4. ASSUME head # None, caller[c].op \in NeedsScan PROVE Complete(c)
  <2>. SUFFICES ASSUME NEW k \in Key, store[k] # HeadValue(k), ~Missed(k)
                       PROVE k \in Changes(c, HeadAnc)
    BY DEF Complete
  <2>1. Uncommitted(k) /\ Tracked
    BY <1>1, <1>4 DEF Uncommitted
  <2>2. Noted(k) \/ (caller[c].full /\ (k \in caller[c].scanned \/ InHistory(k)))
    <3>1. CASE ~fullScan
      BY <1>4, <2>1, <3>1 DEF Tracked, NotedIfDue
    <3>2. CASE fullScan
      <4>1. caller[c].full
        BY <1>1, <1>3, <1>4, <3>2 DEF ScansWhenNeeded
      <4>. QED  BY <1>3, <1>4, <2>1, <4>1 DEF Tracked, ScanCovers
    <3>. QED  BY <3>1, <3>2
  <2>3. Repository
    BY <1>1 DEF Shape
  <2>4. store[k] # ValueAt(k, HeadAnc) /\ (InHistory(k) => k \in Changed(HeadAnc))
    BY <1>4, <2>3, BehindHead
  <2>. QED  BY <2>2, <2>4 DEF Changes, Candidates, Noted
<1>5. CASE caller[c].op = "init" /\ VcInit(c)
  <2>1. CASE Refuse(c)
    <3>1. ~Ran(c, TRUE)
      BY <1>1, <2>1, RanOnce DEF Refuse
    <3>. QED  BY <1>1, <1>2, <1>3, <2>1, <3>1, RefuseOutcome
  <2>2. CASE ~Refuse(c)
    <3>1. caller[c].full
      BY <1>1, <1>3, <1>5 DEF ScansWhenNeeded
    <3>2. ScanCovers
      BY <1>1 DEF Tracked
    <3>3. Starts(c)
      BY <1>1, <1>3, <1>5, <2>2, <3>1, <3>2, InitOutcome DEF Starts
    <3>. QED  BY <1>2, <1>3, <3>3
  <2>. QED  BY <2>1, <2>2
<1>6. CASE caller[c].op # "init" /\ head = None /\ Refuse(c)
  BY <1>2, <1>3, <1>6
<1>7. CASE /\ head # None
           /\ \/ caller[c].op = "commit" /\ Commit(c)
              \/ caller[c].op = "status" /\ Status(c)
              \/ caller[c].op = "checkout" /\ Checkout(c)
              \/ caller[c].op = "reset" /\ Reset(c)
              \/ caller[c].op = "merge" /\ Merge(c)
              \/ caller[c].op = "revert" /\ Revert(c)
  <2>1. caller[c].op \in NeedsScan
    BY <1>7 DEF NeedsScan
  <2>2. Complete(c)
    BY <1>4, <1>7, <2>1
  <2>3. Outcome(c)
    BY <1>1, <1>7, <2>2, CommitOutcome, StatusOutcome, CheckoutOutcome, ResetOutcome,
       MergeOutcome, RevertOutcome
  <2>. QED  BY <1>2, <1>3, <1>7, <2>1, <2>3
<1>8. CASE head # None /\ (Branch(c) \/ Restore(c))
  <2>1. Outcome(c)
    BY <1>1, <1>8, BranchOutcome, RestoreOutcome
  <2>2. Ran(c, FALSE)
    BY <1>8 DEF Branch, Restore, Refuse
  <2>3. ~Ran(c, TRUE)
    BY <1>1, <2>2, RanOnce
  <2>. QED  BY <1>2, <1>3, <1>8, <2>1, <2>3
<1>. QED  BY <1>5, <1>6, <1>7, <1>8 DEF RunVc
-----------------------------------------------------------------------------
(* Each step keeps the invariant.                                          *)

\* What stands still with the repository and the working copy.
LEMMA ContentStays ==
  ASSUME Shape, UNCHANGED content
  PROVE  /\ Repository'
         /\ \A k : HeadValue(k)' = HeadValue(k) /\ (InHistory(k)' <=> InHistory(k))
         /\ \A k : Uncommitted(k)' <=> Uncommitted(k)
<1>1. UNCHANGED <<store, head, branch, commits>>
  BY DEF content
<1>2. \A k : HeadValue(k)' = HeadValue(k) /\ (InHistory(k)' <=> InHistory(k))
  BY <1>1 DEF HeadValue, HeadLine, InHistory
<1>. QED  BY <1>1, <1>2 DEF Shape, Repository, Uncommitted

\* A request that joins the queue.
LEMMA QueueGrows ==
  ASSUME Shape, NEW r \in Request, queue' = Append(queue, r)
  PROVE  /\ queue' \in Seq(Request) /\ Len(queue') = Len(queue) + 1 /\ Len(queue) \in Nat
         /\ queue'[Len(queue) + 1] = r /\ \A i \in 1..Len(queue) : queue'[i] = queue[i]
BY AppendProperties DEF Shape

\* A request that is taken from the group.
LEMMA WorkShrinks ==
  ASSUME Shape, work # <<>>, work' = Tail(work)
  PROVE  /\ work' \in Seq(Request) /\ Len(work') = Len(work) - 1 /\ Len(work) \in Nat \ {0}
         /\ Head(work) = work[1] /\ \A i \in 1..Len(work') : work'[i] = work[i + 1]
BY DEF Shape

\* Taking a request of somebody else, or of nobody, leaves the others theirs.
LEMMA RequestsStay ==
  ASSUME Shape, OneRequestEach, NEW c \in Callers, queue' = queue, work # <<>>, work' = Tail(work),
         caller'[c].at = caller[c].at
  PROVE  /\ \A i \in 1..Len(queue') : Asks(queue'[i], c) =>
              /\ caller'[c].at = "wait"
              /\ \A j \in 1..Len(queue') : Asks(queue'[j], c) => i = j
              /\ \A j \in 1..Len(work') : ~Asks(work'[j], c)
         /\ \A i \in 1..Len(work') : Asks(work'[i], c) =>
              /\ caller'[c].at = "wait"
              /\ \A j \in 1..Len(work') : Asks(work'[j], c) => i = j
<1>1. /\ Len(work') = Len(work) - 1 /\ Len(work) \in Nat \ {0}
      /\ \A i \in 1..Len(work') : work'[i] = work[i + 1]
  BY WorkShrinks
<1>2. \A i \in 1..Len(work') : i + 1 \in 1..Len(work)
  BY <1>1
<1>3. ASSUME NEW i \in 1..Len(work'), NEW j \in 1..Len(work'), Asks(work'[i], c), Asks(work'[j], c)
      PROVE  i = j
  <2>1. Asks(work[i + 1], c) /\ Asks(work[j + 1], c)
    BY <1>1, <1>3
  <2>2. i + 1 = j + 1
    BY <1>2, <2>1 DEF OneRequestEach
  <2>. QED  BY <1>1, <2>2
<1>4. \A j \in 1..Len(work') : Asks(work'[j], c) => Asks(work[j + 1], c) /\ j + 1 \in 1..Len(work)
  BY <1>1, <1>2
<1>. QED  BY <1>3, <1>4 DEF OneRequestEach

\* A world that is published is the content, and one that comes back becomes it.
LEMMA WorldIs ==
  /\ seen = World => /\ seen.store = store /\ seen.head = head
                     /\ seen.branch = branch /\ seen.commits = commits
                     /\ \A k : /\ WasUncommitted(k) <=> Uncommitted(k)
                               /\ WasInHistory(k) <=> InHistory(k)
  /\ Becomes(seen) => \A k : /\ Uncommitted(k)' <=> WasUncommitted(k)
                             /\ InHistory(k)' <=> WasInHistory(k)
<1>1. ASSUME seen = World
      PROVE  /\ seen.store = store /\ seen.head = head
             /\ seen.branch = branch /\ seen.commits = commits
  BY <1>1 DEF World
<1>2. ASSUME seen = World
      PROVE  \A k : /\ WasUncommitted(k) <=> Uncommitted(k)
                    /\ WasInHistory(k) <=> InHistory(k)
  BY <1>1, <1>2 DEF WasUncommitted, Uncommitted, WasInHistory, InHistory, WasHeadLine, HeadLine, HeadValue
<1>3. ASSUME Becomes(seen)
      PROVE  \A k : /\ Uncommitted(k)' <=> WasUncommitted(k)
                    /\ InHistory(k)' <=> WasInHistory(k)
  BY <1>3 DEF Becomes, WasUncommitted, Uncommitted, WasInHistory, InHistory, WasHeadLine, HeadLine, HeadValue
<1>. QED  BY <1>1, <1>2, <1>3

\* While the group is run nothing is published, and who has answers, or waits, has
\* what it had.
LEMMA FallsBackStays ==
  ASSUME Shape, FallsBack, UNCHANGED <<seen, unseen, fullScan>>, raced => raced',
         stage' = "run" => stage = "run",
         \A k \in Key : dirty'[k] \in {dirty[k], epoch + 1},
         \A c \in Callers : caller'[c].at \in {"wait", "answered"} => caller'[c] = caller[c]
  PROVE  FallsBack'
<1>. SUFFICES ASSUME stage' = "run" PROVE (WasNoted /\ WasCovered /\ WasOld)'
  BY DEF FallsBack
<1>1. WasNoted /\ WasCovered /\ WasOld
  BY DEF FallsBack
<1>2. \A k : /\ WasUncommitted(k)' <=> WasUncommitted(k)
             /\ WasInHistory(k)' <=> WasInHistory(k)
             /\ Missed(k) => Missed(k)'
  BY DEF WasUncommitted, WasInHistory, WasHeadLine, Missed
<1>3. /\ epoch \in Nat /\ Clean = -1 /\ epoch + 1 # Clean
      /\ \A k \in Key : dirty[k] # Clean => dirty'[k] # Clean
      /\ \A c \in Callers : epoch + 1 > caller[c].settle
  <2>1. epoch \in Nat /\ \A c \in Callers : caller[c].settle \in -1..epoch - 1
    BY DEF Shape
  <2>. QED  BY <2>1 DEF Clean
<1>4. WasNoted'
  BY <1>1, <1>2, <1>3 DEF WasNoted
<1>5. WasCovered'
  BY <1>1, <1>2, <1>3 DEF WasCovered
<1>6. WasOld'
  <2>. SUFFICES ASSUME NEW c \in Callers, caller'[c].at = "answered", caller'[c].settle # Never, NEW k \in Key
                PROVE  IF seen.head = None THEN dirty'[k] = Clean \/ dirty'[k] > caller'[c].settle
                       ELSE WasUncommitted(k) => dirty'[k] > caller'[c].settle \/ Missed(k)'
    BY <1>2 DEF WasOld
  <2>1. caller'[c] = caller[c]
    OBVIOUS
  <2>2. IF seen.head = None THEN dirty[k] = Clean \/ dirty[k] > caller[c].settle
        ELSE WasUncommitted(k) => dirty[k] > caller[c].settle \/ Missed(k)
    BY <1>1, <2>1 DEF WasOld
  <2>. QED  BY <1>2, <1>3, <2>1, <2>2
<1>. QED  BY <1>4, <1>5, <1>6

\* A step that only moves requests about.
LEMMA TrackedStays ==
  ASSUME Shape, Tracked,
         UNCHANGED <<content, seen, unseen, batch, enabled, fullScan, dirty, epoch, caller, raced>>,
         stage' = stage
  PROVE  Tracked'
<1>1. \A k : /\ (InHistory(k)' <=> InHistory(k)) /\ (Uncommitted(k)' <=> Uncommitted(k))
             /\ (Noted(k)' <=> Noted(k)) /\ (Missed(k)' <=> Missed(k))
  BY ContentStays DEF Noted, Missed
<1>2. UNCHANGED <<store, head>>
  BY DEF content
<1>3. TrackingIsOn'
  BY <1>2 DEF Tracked, TrackingIsOn, InitWaits
<1>4. StoredIsSeen'
  BY <1>1, <1>2 DEF Tracked, StoredIsSeen
<1>5. NotedIfDue'
  BY <1>1, <1>2 DEF Tracked, NotedIfDue
<1>6. ScanCovers'
  BY <1>1, <1>2 DEF Tracked, ScanCovers
<1>7. SettlesOnlyOld'
  BY <1>1, <1>2 DEF Tracked, SettlesOnlyOld
<1>8. FallsBack'
  BY FallsBackStays DEF Tracked
<1>. QED  BY <1>3, <1>4, <1>5, <1>6, <1>7, <1>8 DEF Tracked

\* A write or a FLUSHALL that is submitted.
LEMMA QueueStep ==
  ASSUME VcsInv, Write \/ FlushAll
  PROVE  VcsInv'
<1>1. PICK r \in Request : r.kind # "vc" /\ queue' = Append(queue, r)
  BY DEF Write, FlushAll, Request
<1>2. /\ UNCHANGED <<content, seen, unseen, work, stage, batch, wipe, enabled, fullScan, dirty, epoch,
         caller, raced>>
      /\ Shape /\ OneRequestEach /\ ScansWhenNeeded /\ SeenIsPublished /\ Tracked
  BY DEF Write, FlushAll, tracker, VcsInv
<1>3. UNCHANGED <<store, head>>
  BY <1>2 DEF content
<1>4. /\ queue' \in Seq(Request) /\ Len(queue') = Len(queue) + 1 /\ Len(queue) \in Nat
      /\ queue'[Len(queue) + 1] = r /\ \A i \in 1..Len(queue) : queue'[i] = queue[i]
  BY <1>1, <1>2, QueueGrows
<1>5. Shape'
  <2>1. Repository'
    BY <1>2, ContentStays
  <2>. QED  BY <1>2, <1>3, <1>4, <2>1 DEF Shape, Published
<1>6. OneRequestEach'
  <2>1. \A c \in Callers, i \in 1..Len(queue') : Asks(queue'[i], c) => i \in 1..Len(queue)
        /\ Asks(queue[i], c)
    BY <1>1, <1>4 DEF Asks
  <2>. QED  BY <1>2, <2>1 DEF OneRequestEach
<1>7. ScansWhenNeeded'
  BY <1>2 DEF ScansWhenNeeded
<1>8. SeenIsPublished'
  BY <1>2 DEF SeenIsPublished, World, content
<1>9. Tracked'
  BY <1>2, TrackedStays
<1>. QED  BY <1>5, <1>6, <1>7, <1>8, <1>9 DEF VcsInv

\* The flusher takes a group.
LEMMA DrainStep ==
  ASSUME VcsInv, Drain
  PROVE  VcsInv'
<1>1. /\ stage = "idle" /\ stage' = "run" /\ work' = queue /\ queue' = <<>>
      /\ UNCHANGED <<content, seen, unseen, batch, wipe, enabled, fullScan, dirty, epoch, caller, raced>>
      /\ Shape /\ OneRequestEach /\ ScansWhenNeeded /\ SeenIsPublished /\ Tracked
  BY DEF Drain, tracker, VcsInv
<1>2. UNCHANGED <<store, head>>
  BY <1>1 DEF content
<1>3. Shape'
  <2>1. Repository'
    BY <1>1, ContentStays
  <2>. QED  BY <1>1, <1>2, <2>1 DEF Shape, Published
<1>4. OneRequestEach'
  BY <1>1 DEF OneRequestEach
<1>5. ScansWhenNeeded'
  BY <1>1 DEF ScansWhenNeeded
<1>6. SeenIsPublished'
  BY <1>1, <1>2 DEF SeenIsPublished
<1>7. /\ batch = {} /\ seen.store = store /\ seen.head = head
      /\ \A k : /\ (InHistory(k)' <=> InHistory(k)) /\ (Uncommitted(k)' <=> Uncommitted(k))
                /\ (WasInHistory(k) <=> InHistory(k)) /\ (WasUncommitted(k) <=> Uncommitted(k))
                /\ (WasInHistory(k)' <=> WasInHistory(k)) /\ (WasUncommitted(k)' <=> WasUncommitted(k))
                /\ (Noted(k)' <=> Noted(k)) /\ (Noted(k) <=> dirty[k] # Clean)
                /\ (Missed(k)' <=> Missed(k))
  <2>1. batch = {} /\ seen = World
    BY <1>1 DEF Shape, SeenIsPublished
  <2>. QED  BY <1>1, <2>1, ContentStays, WorldIs
            DEF Noted, Missed, WasInHistory, WasUncommitted, WasHeadLine
<1>8. Tracked'
  <2>1. TrackingIsOn'
    BY <1>1, <1>2 DEF Tracked, TrackingIsOn, InitWaits
  <2>2. StoredIsSeen'
    BY <1>1, <1>2, <1>7 DEF StoredIsSeen
  <2>3. NotedIfDue'
    BY <1>1, <1>2, <1>7 DEF Tracked, NotedIfDue
  <2>4. ScanCovers'
    BY <1>1, <1>2, <1>7 DEF Tracked, ScanCovers
  <2>5. SettlesOnlyOld'
    BY <1>1, <1>2, <1>7 DEF Tracked, SettlesOnlyOld
  <2>6. WasNoted'
    BY <1>1, <1>7 DEF Tracked, NotedIfDue, WasNoted
  <2>7. WasCovered'
    BY <1>1, <1>7 DEF Tracked, ScanCovers, WasCovered
  <2>8. WasOld'
    BY <1>1, <1>7 DEF Tracked, SettlesOnlyOld, WasOld
  <2>. QED  BY <2>1, <2>2, <2>3, <2>4, <2>5, <2>6, <2>7, <2>8 DEF Tracked, FallsBack
<1>. QED  BY <1>3, <1>4, <1>5, <1>6, <1>8 DEF VcsInv

\* A FLUSHALL of the group.
LEMMA RunFlushAllStep ==
  ASSUME VcsInv, RunFlushAll
  PROVE  VcsInv'
<1>1. /\ stage = "run" /\ work # <<>> /\ work' = Tail(work) /\ wipe' = TRUE
      /\ UNCHANGED <<content, seen, unseen, queue, stage, batch, enabled, fullScan, dirty, epoch, caller,
         raced>>
      /\ Shape /\ OneRequestEach /\ ScansWhenNeeded /\ SeenIsPublished /\ Tracked
  BY DEF RunFlushAll, Runs, tracker, VcsInv
<1>2. UNCHANGED <<store, head>>
  BY <1>1 DEF content
<1>3. Shape'
  <2>1. Repository' /\ work' \in Seq(Request)
    BY <1>1, ContentStays, WorkShrinks
  <2>. QED  BY <1>1, <1>2, <2>1 DEF Shape, Published
<1>4. OneRequestEach'
  BY <1>1, RequestsStay DEF OneRequestEach
<1>5. ScansWhenNeeded'
  BY <1>1 DEF ScansWhenNeeded
<1>6. SeenIsPublished'
  BY <1>1, <1>2 DEF SeenIsPublished
<1>7. Tracked'
  BY <1>1, TrackedStays
<1>. QED  BY <1>3, <1>4, <1>5, <1>6, <1>7 DEF VcsInv

\* A write of the group.
LEMMA RunWriteStep ==
  ASSUME VcsInv, RunWrite
  PROVE  VcsInv'
<1>1. PICK k0 \in Key, v \in Val : store' = [store EXCEPT ![k0] = v] /\ batch' = batch \cup {k0}
  BY DEF RunWrite, Val
<1>2. /\ stage = "run" /\ work # <<>> /\ work' = Tail(work)
      /\ UNCHANGED <<head, branch, commits, seen, unseen, queue, stage, wipe, enabled, fullScan, dirty,
         epoch, caller, raced>>
      /\ Shape /\ OneRequestEach /\ ScansWhenNeeded /\ SeenIsPublished /\ Tracked
  BY DEF RunWrite, Runs, tracker, VcsInv
<1>3. /\ store' \in [Key -> Val] /\ batch' \subseteq Key /\ batch \subseteq batch'
      /\ \A k \in Key : k \in batch' \/ store'[k] = store[k]
  BY <1>1, <1>2 DEF Shape, Repository
<1>4. \A k : HeadValue(k)' = HeadValue(k) /\ (InHistory(k)' <=> InHistory(k))
  BY <1>2 DEF HeadValue, HeadLine, InHistory
<1>5. /\ \A k \in Key : k \in batch' \/ (Uncommitted(k)' <=> Uncommitted(k))
      /\ \A k : Missed(k)' <=> Missed(k)
  BY <1>2, <1>3, <1>4 DEF Uncommitted, Missed
<1>6. Shape'
  <2>1. work' \in Seq(Request)
    BY <1>2, WorkShrinks
  <2>. QED  BY <1>2, <1>3, <2>1 DEF Shape, Repository, Published
<1>7. OneRequestEach'
  BY <1>2, RequestsStay DEF OneRequestEach
<1>8. ScansWhenNeeded'
  BY <1>2 DEF ScansWhenNeeded
<1>9. SeenIsPublished'
  BY <1>2 DEF SeenIsPublished
<1>10. Tracked'
  <2>1. TrackingIsOn'
    BY <1>2 DEF Tracked, TrackingIsOn, InitWaits
  <2>2. StoredIsSeen'
    BY <1>2, <1>3 DEF Tracked, StoredIsSeen
  <2>3. NotedIfDue'
    BY <1>2, <1>3, <1>5 DEF Tracked, NotedIfDue, Noted
  <2>4. ScanCovers'
    BY <1>2, <1>3, <1>4, <1>5 DEF Tracked, ScanCovers, Noted
  <2>5. SettlesOnlyOld'
    BY <1>2, <1>3, <1>5 DEF Tracked, SettlesOnlyOld
  <2>6. FallsBack'
    BY <1>2, FallsBackStays DEF Tracked
  <2>. QED  BY <2>1, <2>2, <2>3, <2>4, <2>5, <2>6 DEF Tracked
<1>. QED  BY <1>2, <1>6, <1>7, <1>8, <1>9, <1>10 DEF VcsInv

\* The end of a group, for the callers: who has run has an error, and who has none is
\* as before.
LEMMA FailedCallers ==
  ASSUME Shape, OneRequestEach, ScansWhenNeeded, UNCHANGED caller \/ AllFail,
         UNCHANGED <<queue, work, epoch>>, fullScan' => fullScan
  PROVE  /\ caller' \in [Callers -> [at : Places, op : Ops \cup {"none"}, full : BOOLEAN,
                                     scanned : SUBSET Key, settle : -1..epoch - 1]]
         /\ OneRequestEach' /\ ScansWhenNeeded'
         /\ \A c \in Callers : \/ caller'[c] = caller[c]
                               \/ caller[c].at = "ran" /\ caller'[c].at = "lost"
         /\ \A c \in Callers : InitWaits(c)' <=> InitWaits(c)
<1>. DEFINE C == [at : Places, op : Ops \cup {"none"}, full : BOOLEAN, scanned : SUBSET Key,
                 settle : -1..epoch - 1]
            Lost(x) == [x EXCEPT !.at = "lost", !.settle = Never]
<1>1. caller \in [Callers -> C]
  BY DEF Shape
<1>2. \A x \in C : Lost(x) \in C /\ Lost(x).at = "lost" /\ Lost(x).settle = Never
                   /\ Lost(x).op = x.op /\ Lost(x).full = x.full
  <2>1. "lost" \in Places /\ Never \in -1..epoch - 1
    BY DEF Places, Never, Shape
  <2>. QED  BY <2>1
<1>3. \/ caller' = caller
      \/ caller' = [c \in Callers |-> IF caller[c].at = "ran" THEN Lost(caller[c]) ELSE caller[c]]
  BY DEF AllFail
<1>. HIDE DEF C, Lost
<1>4. /\ caller' \in [Callers -> C]
      /\ \A c \in Callers : \/ caller'[c] = caller[c]
                            \/ caller[c].at = "ran" /\ caller'[c] = Lost(caller[c])
  BY <1>1, <1>2, <1>3
<1>5. \A c \in Callers : \/ caller'[c] = caller[c]
                         \/ /\ caller[c].at = "ran" /\ caller'[c].at = "lost" /\ caller'[c].settle = Never
                            /\ caller'[c].op = caller[c].op /\ caller'[c].full = caller[c].full
  BY <1>1, <1>2, <1>4
<1>6. OneRequestEach'
  <2>1. \A c \in Callers : caller[c].at = "wait" => caller'[c].at = "wait"
    BY <1>5
  <2>. QED  BY <2>1 DEF OneRequestEach
<1>7. ScansWhenNeeded'
  BY <1>5 DEF ScansWhenNeeded
<1>8. \A c \in Callers : InitWaits(c)' <=> InitWaits(c)
  BY <1>5 DEF InitWaits
<1>. QED  BY <1>4, <1>5, <1>6, <1>7, <1>8 DEF C

\* The hooks, after a group.
LEMMA HooksStep ==
  ASSUME VcsInv, Hooks
  PROVE  VcsInv'
<1>1. /\ stage = "run" /\ work = <<>> /\ stage' = "hooked" /\ batch' = {} /\ wipe' = FALSE
      /\ dirty' = [k \in Key |-> IF enabled /\ k \in batch THEN epoch ELSE dirty[k]]
      /\ unseen' = {k \in Unnoticed : head # None => store[k] # ValueAt(k, HeadAnc)}
      /\ UNCHANGED <<content, seen, queue, work, enabled, fullScan, epoch, caller, raced>>
      /\ Shape /\ OneRequestEach /\ ScansWhenNeeded /\ SeenIsPublished /\ Tracked
  BY DEF Hooks, Ends, VcsInv
<1>2. UNCHANGED <<store, head>>
  BY <1>1 DEF content
<1>3. /\ Repository'
      /\ \A k : (InHistory(k)' <=> InHistory(k)) /\ (Uncommitted(k)' <=> Uncommitted(k))
  BY <1>1, ContentStays
<1>4. dirty' \in [Key -> -1..epoch] /\ epoch \in Nat /\ Unnoticed \subseteq Key
  BY <1>1 DEF Shape, Unnoticed
<1>5. Shape'
  BY <1>1, <1>2, <1>3, <1>4 DEF Shape, Published
<1>6. OneRequestEach' /\ ScansWhenNeeded'
  BY <1>1 DEF OneRequestEach, ScansWhenNeeded
<1>7. SeenIsPublished'
  BY <1>1, <1>2 DEF SeenIsPublished
<1>8. \A k \in Key : Uncommitted(k) /\ k \in Unnoticed => k \in unseen'
  <2>1. Repository
    BY <1>1 DEF Shape
  <2>2. head # None => \A k : ValueAt(k, HeadAnc) = HeadValue(k)
    BY <2>1, BehindHead
  <2>. QED  BY <1>1, <2>2 DEF Uncommitted
\* What the group wrote while the tracking was off is missed, if it is to be noted.
<1>9. ASSUME NEW k \in Key, Uncommitted(k), enabled \/ raced
      PROVE  /\ k \in batch => dirty'[k] = epoch \/ Missed(k)'
             /\ k \notin batch => dirty'[k] = dirty[k] /\ (Missed(k) => Missed(k)')
             /\ Missed(k) => dirty'[k] = epoch \/ Missed(k)'
  BY <1>1, <1>8, <1>9 DEF Missed, Unnoticed
<1>10. head # None => enabled \/ raced
  BY <1>1 DEF Tracked, TrackingIsOn
<1>11. epoch # Clean /\ \A c \in Callers : caller[c].settle < epoch
  BY <1>1, <1>4 DEF Shape, Clean
<1>12. Tracked'
  <2>1. TrackingIsOn'
    BY <1>1, <1>2 DEF Tracked, TrackingIsOn, InitWaits
  <2>2. StoredIsSeen'
    <3>. SUFFICES ASSUME NEW k \in Key, store[k] # None, seen.store[k] = None, Uncommitted(k)
                  PROVE  dirty'[k] = epoch \/ (k \in unseen' /\ (enabled => raced))
      BY <1>1, <1>2, <1>3 DEF StoredIsSeen
    <3>1. k \in batch
      BY <1>1 DEF Tracked, StoredIsSeen
    <3>. QED  BY <1>1, <1>8, <3>1 DEF Unnoticed
  <2>3. NotedIfDue'
    <3>. SUFFICES ASSUME head # None, ~fullScan, NEW k \in Key, Uncommitted(k)
                  PROVE  dirty'[k] # Clean \/ Missed(k)'
      BY <1>1, <1>2, <1>3 DEF NotedIfDue, Noted
    <3>1. dirty[k] # Clean \/ k \in batch \/ Missed(k)
      BY <1>1 DEF Tracked, NotedIfDue, Noted
    <3>. QED  BY <1>9, <1>10, <1>11, <3>1
  <2>4. ScanCovers'
    <3>. SUFFICES ASSUME NEW c \in Callers, caller[c].at = "wait", caller[c].full,
                         head # None \/ caller[c].op = "init", NEW k \in Key, Uncommitted(k)
                  PROVE  dirty'[k] # Clean \/ k \in caller[c].scanned \/ InHistory(k) \/ Missed(k)'
      BY <1>1, <1>2, <1>3 DEF ScanCovers, Noted
    <3>1. dirty[k] # Clean \/ k \in batch \/ k \in caller[c].scanned \/ InHistory(k) \/ Missed(k)
      BY <1>1 DEF Tracked, ScanCovers, Noted
    <3>2. enabled \/ raced
      BY <1>1 DEF Tracked, TrackingIsOn, InitWaits
    <3>. QED  BY <1>9, <1>11, <3>1, <3>2
  <2>5. SettlesOnlyOld'
    <3>. SUFFICES ASSUME NEW c \in Callers, caller[c].at \in {"ran", "answered"},
                         caller[c].settle # Never, NEW k \in Key
                  PROVE  IF head = None THEN dirty'[k] = Clean \/ dirty'[k] > caller[c].settle
                         ELSE Uncommitted(k) => dirty'[k] > caller[c].settle \/ Missed(k)'
      BY <1>1, <1>2, <1>3 DEF SettlesOnlyOld
    <3>1. IF head = None THEN dirty[k] = Clean \/ dirty[k] > caller[c].settle
          ELSE Uncommitted(k) => dirty[k] > caller[c].settle \/ k \in batch \/ Missed(k)
      BY <1>1 DEF Tracked, SettlesOnlyOld
    <3>2. epoch > caller[c].settle /\ dirty'[k] \in {dirty[k], epoch}
      <4>1. caller[c].settle < epoch /\ caller[c].settle \in Int /\ epoch \in Int
        BY <1>1, <1>11 DEF Shape
      <4>. QED  BY <1>1, <4>1
    <3>3. CASE head = None
      BY <3>1, <3>2, <3>3
    <3>4. CASE head # None
      BY <1>9, <1>10, <3>1, <3>2, <3>4
    <3>. QED  BY <3>3, <3>4
  <2>6. FallsBack'
    BY <1>1 DEF FallsBack
  <2>. QED  BY <2>1, <2>2, <2>3, <2>4, <2>5, <2>6 DEF Tracked
<1>. QED  BY <1>5, <1>6, <1>7, <1>12 DEF VcsInv

\* A FLUSHALL in place of the group.
LEMMA WipeStep ==
  ASSUME VcsInv, Wipe
  PROVE  VcsInv'
<1>1. /\ stage = "run" /\ work = <<>> /\ stage' = "hooked" /\ batch' = {} /\ wipe' = FALSE
      /\ Becomes(Nothing) /\ seen' = Nothing /\ unseen' = {}
      /\ enabled' = FALSE /\ fullScan' = FALSE /\ dirty' = [k \in Key |-> Clean]
      /\ raced' = \E c \in Callers : InitWaits(c)
      /\ UNCHANGED caller \/ AllFail
      /\ UNCHANGED <<queue, work, epoch>>
      /\ Shape /\ OneRequestEach /\ ScansWhenNeeded
  BY DEF Wipe, Ends, VcsInv
<1>2. /\ store' = [k \in Key |-> None] /\ head' = None /\ branch' = [b \in Branches |-> 0] /\ commits' = <<>>
      /\ seen'.store = [k \in Key |-> None] /\ seen'.head = None /\ seen'.branch = [b \in Branches |-> 0]
      /\ seen'.commits = <<>>
  BY <1>1 DEF Becomes, Nothing
<1>3. /\ caller' \in [Callers -> [at : Places, op : Ops \cup {"none"}, full : BOOLEAN,
                                  scanned : SUBSET Key, settle : -1..epoch - 1]]
      /\ OneRequestEach' /\ ScansWhenNeeded'
      /\ \A c \in Callers : InitWaits(c)' <=> InitWaits(c)
  BY <1>1, FailedCallers
<1>4. Shape'
  <2>1. Grown(<<>>) /\ Len(<<>>) = 0
    BY DEF Grown
  <2>2. Repository'
    BY <1>2, <2>1 DEF Repository, Val
  <2>3. Published'
    BY <1>2, <2>1 DEF Published, Val
  <2>4. dirty' \in [Key -> -1..epoch] /\ raced' \in BOOLEAN
    BY <1>1 DEF Clean, Shape
  <2>. QED  BY <1>1, <1>3, <2>2, <2>3, <2>4 DEF Shape
<1>5. SeenIsPublished'
  BY <1>1, <1>2 DEF SeenIsPublished
<1>6. Tracked'
  <2>1. TrackingIsOn'
    BY <1>1, <1>2, <1>3 DEF TrackingIsOn
  <2>2. StoredIsSeen'
    BY <1>2 DEF StoredIsSeen
  <2>3. NotedIfDue'
    BY <1>2 DEF NotedIfDue
  <2>4. ScanCovers'
    BY <1>2 DEF ScanCovers, Uncommitted
  <2>5. SettlesOnlyOld'
    BY <1>1, <1>2 DEF SettlesOnlyOld
  <2>6. FallsBack'
    BY <1>1 DEF FallsBack
  <2>. QED  BY <2>1, <2>2, <2>3, <2>4, <2>5, <2>6 DEF Tracked
<1>. QED  BY <1>3, <1>4, <1>5, <1>6 DEF VcsInv

\* A group that fails: what was published is the content again.
LEMMA FailStep ==
  ASSUME VcsInv, Fail
  PROVE  VcsInv'
<1>1. /\ stage = "run" /\ work = <<>> /\ stage' = "hooked" /\ batch' = {} /\ wipe' = FALSE
      /\ Becomes(seen) /\ AllFail
      /\ UNCHANGED <<seen, unseen, queue, work, enabled, fullScan, dirty, epoch, raced>>
      /\ Shape /\ OneRequestEach /\ ScansWhenNeeded /\ SeenIsPublished /\ Tracked
  BY DEF Fail, Ends, tracker, VcsInv
<1>2. store' = seen.store /\ head' = seen.head /\ branch' = seen.branch /\ commits' = seen.commits
  BY <1>1 DEF Becomes
<1>3. /\ caller' \in [Callers -> [at : Places, op : Ops \cup {"none"}, full : BOOLEAN,
                                  scanned : SUBSET Key, settle : -1..epoch - 1]]
      /\ OneRequestEach' /\ ScansWhenNeeded'
      /\ \A c \in Callers : \/ caller'[c] = caller[c]
                            \/ caller[c].at = "ran" /\ caller'[c].at = "lost"
      /\ \A c \in Callers : InitWaits(c)' <=> InitWaits(c)
  BY <1>1, FailedCallers
<1>4. Shape'
  <2>1. Repository'
    BY <1>1, <1>2 DEF Shape, Published, Repository
  <2>. QED  BY <1>1, <1>2, <1>3, <2>1 DEF Shape, Published
<1>5. SeenIsPublished'
  BY <1>1, <1>2 DEF SeenIsPublished
<1>6. \A k : /\ Uncommitted(k)' <=> WasUncommitted(k)
             /\ InHistory(k)' <=> WasInHistory(k)
             /\ Missed(k)' <=> Missed(k)
             /\ Noted(k)' <=> dirty[k] # Clean
  BY <1>1, WorldIs DEF Missed, Noted
<1>7. WasNoted /\ WasCovered /\ WasOld
  BY <1>1 DEF Tracked, FallsBack
<1>8. Tracked'
  <2>1. TrackingIsOn'
    BY <1>1, <1>2, <1>3 DEF Tracked, TrackingIsOn, SeenIsPublished
  <2>2. StoredIsSeen'
    BY <1>1, <1>2 DEF StoredIsSeen
  <2>3. NotedIfDue'
    BY <1>1, <1>2, <1>6, <1>7 DEF NotedIfDue, WasNoted
  <2>4. ScanCovers'
    BY <1>1, <1>2, <1>3, <1>6, <1>7 DEF ScanCovers, WasCovered
  <2>5. SettlesOnlyOld'
    <3>1. \A c \in Callers : caller'[c].at # "ran"
      BY <1>1 DEF AllFail, Shape
    <3>. QED  BY <1>1, <1>2, <1>3, <1>6, <1>7, <3>1 DEF SettlesOnlyOld, WasOld
  <2>6. FallsBack'
    BY <1>1 DEF FallsBack
  <2>. QED  BY <2>1, <2>2, <2>3, <2>4, <2>5, <2>6 DEF Tracked
<1>. QED  BY <1>3, <1>4, <1>5, <1>8 DEF VcsInv

\* Publication.
LEMMA PublishStep ==
  ASSUME VcsInv, Publish
  PROVE  VcsInv'
<1>. DEFINE Told(at) == IF at = "ran" THEN "answered" ELSE IF at = "lost" THEN "failed" ELSE at
<1>1. /\ stage = "hooked" /\ stage' = "idle" /\ seen' = World
      /\ caller' = [c \in Callers |-> [caller[c] EXCEPT !.at = Told(caller[c].at)]]
      /\ UNCHANGED <<content, unseen, queue, work, batch, wipe, enabled, fullScan, dirty, epoch, raced>>
      /\ Shape /\ OneRequestEach /\ ScansWhenNeeded /\ Tracked
  BY DEF Publish, tracker, VcsInv
<1>2. /\ UNCHANGED <<store, head, branch, commits>>
      /\ seen'.store = store /\ seen'.head = head /\ seen'.branch = branch /\ seen'.commits = commits
  BY <1>1 DEF content, World
<1>3. \A c \in Callers :
        /\ caller'[c].op = caller[c].op /\ caller'[c].full = caller[c].full
        /\ caller'[c].scanned = caller[c].scanned /\ caller'[c].settle = caller[c].settle
        /\ caller'[c].at = Told(caller[c].at)
  BY <1>1 DEF Shape
<1>4. /\ Repository'
      /\ \A k : /\ (InHistory(k)' <=> InHistory(k)) /\ (Uncommitted(k)' <=> Uncommitted(k))
                /\ (Noted(k)' <=> Noted(k)) /\ (Missed(k)' <=> Missed(k))
  BY <1>1, ContentStays DEF Noted, Missed
<1>5. Shape'
  <2>. DEFINE C == [at : Places, op : Ops \cup {"none"}, full : BOOLEAN, scanned : SUBSET Key,
                   settle : -1..epoch - 1]
  <2>1. caller \in [Callers -> C]
    BY <1>1 DEF Shape
  <2>2. \A x \in C : [x EXCEPT !.at = Told(x.at)] \in C
    BY DEF Places
  <2>. HIDE DEF C, Told
  <2>3. caller' \in [Callers -> C]
    <3>1. \A c \in Callers : [caller[c] EXCEPT !.at = Told(caller[c].at)] \in C
      BY ONLY <2>1, <2>2
    <3>. QED  BY <1>1, <3>1
  <2>4. Published'
    BY <1>1, <1>2 DEF Shape, Repository, Published
  <2>. QED  BY <1>1, <1>2, <1>4, <2>3, <2>4 DEF Shape, C
<1>6. OneRequestEach'
  <2>1. \A c \in Callers : caller[c].at = "wait" => caller'[c].at = "wait"
    BY <1>3
  <2>. QED  BY <1>1, <2>1 DEF OneRequestEach
<1>7. ScansWhenNeeded'
  BY <1>1, <1>3 DEF ScansWhenNeeded
<1>8. SeenIsPublished'
  BY <1>1, <1>2 DEF SeenIsPublished, World
<1>9. Tracked'
  <2>1. TrackingIsOn'
    BY <1>1, <1>2, <1>3 DEF Tracked, TrackingIsOn, InitWaits
  <2>2. StoredIsSeen'
    BY <1>1, <1>2 DEF StoredIsSeen
  <2>3. NotedIfDue'
    BY <1>1, <1>2, <1>4 DEF Tracked, NotedIfDue
  <2>4. ScanCovers'
    BY <1>1, <1>2, <1>3, <1>4 DEF Tracked, ScanCovers
  <2>5. SettlesOnlyOld'
    BY <1>1, <1>2, <1>3, <1>4 DEF Tracked, SettlesOnlyOld
  <2>6. FallsBack'
    BY <1>1 DEF FallsBack
  <2>. QED  BY <2>1, <2>2, <2>3, <2>4, <2>5, <2>6 DEF Tracked
<1>. QED  BY <1>1, <1>5, <1>6, <1>7, <1>8, <1>9 DEF VcsInv

\* A restart.
LEMMA RestartStep ==
  ASSUME VcsInv, Restart
  PROVE  VcsInv'
<1>1. /\ stage = "idle" /\ queue' = <<>> /\ caller' = [c \in Callers |-> Idle]
      /\ enabled' = (head # None) /\ fullScan' = (head # None)
      /\ dirty' = [k \in Key |-> Clean] /\ epoch' = 0 /\ raced' = FALSE /\ unseen' = {}
      /\ UNCHANGED <<content, seen, work, stage, batch, wipe>>
      /\ Shape /\ OneRequestEach /\ SeenIsPublished
  BY DEF Restart, VcsInv
<1>2. /\ UNCHANGED <<store, head, branch, commits>> /\ work = <<>>
      /\ seen.store = store /\ seen.head = head
  BY <1>1, WorldIs DEF content, Shape, SeenIsPublished
<1>3. \A c \in Callers : caller'[c].at = "idle"
  BY <1>1 DEF Idle
<1>4. Shape'
  <2>1. Repository'
    BY <1>1, ContentStays
  <2>2. Idle \in [at : Places, op : Ops \cup {"none"}, full : BOOLEAN, scanned : SUBSET Key,
        settle : -1..0 - 1]
    BY DEF Idle, Places, Never
  <2>3. dirty' \in [Key -> -1..0]
    BY <1>1 DEF Clean
  <2>. QED  BY <1>1, <1>2, <2>1, <2>2, <2>3 DEF Shape, Published
<1>5. OneRequestEach'
  BY <1>1, <1>2 DEF OneRequestEach
<1>6. ScansWhenNeeded'
  BY <1>1 DEF ScansWhenNeeded, Idle
<1>7. SeenIsPublished'
  BY <1>1, <1>2 DEF SeenIsPublished, World
<1>8. Tracked'
  <2>1. TrackingIsOn'
    BY <1>1, <1>2, <1>3 DEF TrackingIsOn, InitWaits
  <2>2. StoredIsSeen'
    BY <1>1, <1>2 DEF StoredIsSeen
  <2>3. NotedIfDue'
    BY <1>1, <1>2 DEF NotedIfDue
  <2>4. ScanCovers' /\ SettlesOnlyOld'
    BY <1>3 DEF ScanCovers, SettlesOnlyOld
  <2>5. FallsBack'
    BY <1>1 DEF FallsBack
  <2>. QED  BY <2>1, <2>2, <2>3, <2>4, <2>5 DEF Tracked
<1>. QED  BY <1>4, <1>5, <1>6, <1>7, <1>8 DEF VcsInv

\* A command that is called.
LEMMA BeginStep ==
  ASSUME VcsInv, NEW c \in Callers, NEW op \in Ops, Begin(c, op)
  PROVE  VcsInv'
<1>. DEFINE mine == [Idle EXCEPT !.at = "scan", !.op = op, !.full = op = "init"
            \/ (op \in NeedsScan /\ fullScan)]
<1>1. /\ caller[c] = Idle /\ caller' = [caller EXCEPT ![c] = mine]
      /\ enabled' = (enabled \/ op = "init")
      /\ raced' = (raced \/ (op = "init" /\ stage = "hooked" /\ ~enabled))
      /\ UNCHANGED <<content, seen, unseen, queue, work, stage, batch, wipe, fullScan, dirty, epoch>>
      /\ Shape /\ OneRequestEach /\ ScansWhenNeeded /\ SeenIsPublished /\ Tracked
  BY DEF Begin, VcsInv
<1>2. UNCHANGED <<store, head>>
  BY <1>1 DEF content
<1>3. /\ mine.at = "scan" /\ mine.op = op /\ mine.settle = Never
         /\ mine.full = (op = "init" \/ (op \in NeedsScan /\ fullScan))
      /\ mine \in [at : Places, op : Ops \cup {"none"}, full : BOOLEAN, scanned : SUBSET Key,
         settle : -1..epoch - 1]
  BY <1>1 DEF Idle, Places, Never, Shape
<1>. HIDE DEF mine
<1>4. caller[c].at = "idle" /\ caller'[c] = mine /\ \A d \in Callers \ {c} : caller'[d] = caller[d]
  BY <1>1 DEF Idle, Shape
<1>5. /\ Repository'
      /\ \A k : /\ (InHistory(k)' <=> InHistory(k)) /\ (Uncommitted(k)' <=> Uncommitted(k))
                /\ (Noted(k)' <=> Noted(k)) /\ (Missed(k) => Missed(k)')
  BY <1>1, ContentStays DEF Noted, Missed
<1>6. Shape'
  <2>1. caller' \in [Callers -> [at : Places, op : Ops \cup {"none"}, full : BOOLEAN,
                                 scanned : SUBSET Key, settle : -1..epoch - 1]]
    BY <1>1, <1>3 DEF Shape
  <2>. QED  BY <1>1, <1>2, <1>5, <2>1 DEF Shape, Published
<1>7. OneRequestEach'
  <2>1. \A d \in Callers : caller[d].at = "wait" => caller'[d].at = "wait"
    BY <1>4
  <2>. QED  BY <1>1, <2>1 DEF OneRequestEach
<1>8. ScansWhenNeeded'
  BY <1>1, <1>3, <1>4 DEF ScansWhenNeeded
<1>9. SeenIsPublished'
  BY <1>1, <1>2 DEF SeenIsPublished, World, content
<1>10. Tracked'
  <2>1. TrackingIsOn'
    BY <1>1, <1>2, <1>3, <1>4 DEF Tracked, TrackingIsOn, InitWaits
  <2>2. StoredIsSeen'
    BY <1>1, <1>2, <1>5 DEF Tracked, StoredIsSeen
  <2>3. NotedIfDue'
    BY <1>1, <1>2, <1>5 DEF Tracked, NotedIfDue
  <2>4. ScanCovers'
    BY <1>1, <1>2, <1>3, <1>4, <1>5 DEF Tracked, ScanCovers
  <2>5. SettlesOnlyOld'
    BY <1>1, <1>2, <1>3, <1>4, <1>5 DEF Tracked, SettlesOnlyOld
  <2>6. FallsBack'
    <3>1. \A d \in Callers : caller'[d].at \in {"wait", "answered"} => caller'[d] = caller[d]
      BY <1>3, <1>4
    <3>. QED  BY <1>1, <3>1, FallsBackStays DEF Tracked
  <2>. QED  BY <2>1, <2>2, <2>3, <2>4, <2>5, <2>6 DEF Tracked
<1>. QED  BY <1>6, <1>7, <1>8, <1>9, <1>10 DEF VcsInv

\* A command that has scanned, and is submitted.
LEMMA SubmitStep ==
  ASSUME VcsInv, NEW c \in Callers, Submit(c)
  PROVE  VcsInv'
<1>. DEFINE r == [kind |-> "vc", by |-> c]
            scanned == IF caller[c].full THEN {k \in Key : seen.store[k] # None} ELSE {}
<1>1. /\ caller[c].at = "scan"
      /\ caller' = [caller EXCEPT ![c].at = "wait", ![c].scanned = scanned]
      /\ queue' = Append(queue, r)
      /\ UNCHANGED <<content, seen, unseen, work, stage, batch, wipe, enabled, fullScan, dirty, epoch,
         raced>>
      /\ Shape /\ OneRequestEach /\ ScansWhenNeeded /\ SeenIsPublished /\ Tracked
  BY DEF Submit, tracker, VcsInv
<1>2. UNCHANGED <<store, head>> /\ scanned \subseteq Key
  BY <1>1 DEF content
<1>3. r \in Request /\ \A d \in Callers : Asks(r, d) <=> d = c
  BY DEF Request, Asks
<1>. HIDE DEF r, scanned
<1>4. /\ caller'[c].at = "wait" /\ caller'[c].scanned = scanned
      /\ \A d \in Callers : /\ caller'[d].op = caller[d].op /\ caller'[d].full = caller[d].full
                            /\ caller'[d].settle = caller[d].settle
                            /\ d # c => caller'[d] = caller[d]
  BY <1>1 DEF Shape
<1>5. /\ Repository'
      /\ \A k : /\ (InHistory(k)' <=> InHistory(k)) /\ (Uncommitted(k)' <=> Uncommitted(k))
                /\ (WasInHistory(k)' <=> WasInHistory(k)) /\ (WasUncommitted(k)' <=> WasUncommitted(k))
                /\ (Noted(k)' <=> Noted(k)) /\ (Missed(k)' <=> Missed(k))
  BY <1>1, ContentStays DEF Noted, Missed, WasInHistory, WasUncommitted, WasHeadLine
<1>6. /\ queue' \in Seq(Request) /\ Len(queue') = Len(queue) + 1 /\ Len(queue) \in Nat
      /\ queue'[Len(queue) + 1] = r /\ \A i \in 1..Len(queue) : queue'[i] = queue[i]
  BY <1>1, <1>3, QueueGrows
<1>7. Shape'
  <2>. DEFINE C == [at : Places, op : Ops \cup {"none"}, full : BOOLEAN, scanned : SUBSET Key,
                   settle : -1..epoch - 1]
  <2>1. caller \in [Callers -> C] /\ "wait" \in Places
    BY <1>1 DEF Shape, Places
  <2>2. caller[c] \in C /\ caller' = [caller EXCEPT ![c] = [caller[c] EXCEPT !.at = "wait",
        !.scanned = scanned]]
    BY <1>1, <2>1
  <2>3. [caller[c] EXCEPT !.at = "wait", !.scanned = scanned] \in C
    BY <1>2, <2>1, <2>2
  <2>. HIDE DEF C
  <2>4. caller' \in [Callers -> C]
    BY <2>1, <2>2, <2>3
  <2>. QED  BY <1>1, <1>2, <1>5, <1>6, <2>4 DEF Shape, Published, C
<1>8. OneRequestEach'
  <2>1. /\ \A i \in 1..Len(queue) : ~Asks(queue[i], c)
        /\ \A i \in 1..Len(work) : ~Asks(work[i], c)
    BY <1>1 DEF OneRequestEach
  <2>2. \A i \in 1..Len(queue') : Asks(queue'[i], c) => i = Len(queue) + 1
    BY <1>6, <2>1
  <2>3. \A d \in Callers \ {c} : \A i \in 1..Len(queue') : Asks(queue'[i], d)
        => i \in 1..Len(queue) /\ Asks(queue[i], d)
    BY <1>3, <1>6
  <2>. SUFFICES ASSUME NEW d \in Callers
                PROVE  /\ \A i \in 1..Len(queue') : Asks(queue'[i], d) =>
                            /\ caller'[d].at = "wait"
                            /\ \A j \in 1..Len(queue') : Asks(queue'[j], d) => i = j
                            /\ \A j \in 1..Len(work') : ~Asks(work'[j], d)
                       /\ \A i \in 1..Len(work') : Asks(work'[i], d) =>
                            /\ caller'[d].at = "wait"
                            /\ \A j \in 1..Len(work') : Asks(work'[j], d) => i = j
    BY DEF OneRequestEach
  <2>4. CASE d = c
    BY <1>1, <1>4, <2>1, <2>2, <2>4
  <2>5. CASE d # c
    <3>1. caller'[d] = caller[d] /\ work' = work
      BY <1>1, <1>4, <2>5
    <3>2. \A i \in 1..Len(queue') : Asks(queue'[i], d) => i \in 1..Len(queue) /\ Asks(queue[i], d)
      BY <2>3, <2>5
    <3>3. /\ \A i \in 1..Len(queue) : Asks(queue[i], d) =>
               /\ caller[d].at = "wait"
               /\ \A j \in 1..Len(queue) : Asks(queue[j], d) => i = j
               /\ \A j \in 1..Len(work) : ~Asks(work[j], d)
          /\ \A i \in 1..Len(work) : Asks(work[i], d) =>
               /\ caller[d].at = "wait"
               /\ \A j \in 1..Len(work) : Asks(work[j], d) => i = j
      BY <1>1 DEF OneRequestEach
    <3>. QED  BY ONLY <3>1, <3>2, <3>3
  <2>. QED  BY <2>4, <2>5
<1>9. ScansWhenNeeded'
  BY <1>1, <1>4 DEF ScansWhenNeeded
<1>10. SeenIsPublished'
  BY <1>1, <1>2 DEF SeenIsPublished, World, content
<1>11. Tracked'
  <2>1. TrackingIsOn'
    BY <1>1, <1>2, <1>4 DEF Tracked, TrackingIsOn, InitWaits
  <2>2. StoredIsSeen'
    BY <1>1, <1>2, <1>5 DEF Tracked, StoredIsSeen
  <2>3. NotedIfDue'
    BY <1>1, <1>2, <1>5 DEF Tracked, NotedIfDue
  <2>4. ASSUME caller[c].full, head # None \/ caller[c].op = "init", NEW k \in Key, Uncommitted(k)
        PROVE  Noted(k) \/ k \in scanned \/ InHistory(k) \/ Missed(k)
    <3>1. CASE store[k] # None
      <4>1. enabled \/ raced
        BY <1>1, <2>4 DEF Tracked, TrackingIsOn, InitWaits
      <4>2. seen.store[k] # None \/ k \in batch \/ dirty[k] = epoch \/ Missed(k)
        BY <1>1, <2>4, <3>1, <4>1 DEF Tracked, StoredIsSeen, Missed
      <4>3. epoch # Clean
        BY <1>1 DEF Shape, Clean
      <4>. QED  BY <2>4, <4>2, <4>3 DEF Noted, scanned
    <3>2. CASE store[k] = None
      <4>1. head # None /\ HeadValue(k) # None
        BY <2>4, <3>2 DEF Uncommitted
      <4>. QED  BY <4>1 DEF InHistory, HeadValue, ValueIn
    <3>. QED  BY <3>1, <3>2
  <2>5. ScanCovers'
    <3>. SUFFICES ASSUME NEW d \in Callers, caller'[d].at = "wait", caller'[d].full, head # None
                         \/ caller'[d].op = "init",
                         NEW k \in Key, Uncommitted(k)
                  PROVE  Noted(k) \/ k \in caller'[d].scanned \/ InHistory(k) \/ Missed(k)
      BY <1>1, <1>2, <1>5 DEF ScanCovers
    <3>1. CASE d = c
      BY <1>4, <2>4, <3>1
    <3>2. CASE d # c
      <4>1. caller'[d] = caller[d]
        BY <1>4, <3>2
      <4>2. ScanCovers
        BY <1>1 DEF Tracked
      <4>3. caller[d].at = "wait" /\ caller[d].full /\ (head # None \/ caller[d].op = "init")
        BY <4>1
      <4>. QED  BY <4>1, <4>2, <4>3 DEF ScanCovers
    <3>. QED  BY <3>1, <3>2
  <2>6. SettlesOnlyOld'
    BY <1>1, <1>2, <1>4, <1>5 DEF Tracked, SettlesOnlyOld
  <2>7. ASSUME stage = "run"
        PROVE  (WasNoted /\ WasCovered /\ WasOld)'
    <3>1. WasNoted /\ WasCovered /\ WasOld
      BY <1>1, <2>7 DEF Tracked, FallsBack
    <3>2. WasNoted'
      BY <1>1, <1>5, <3>1 DEF WasNoted
    <3>3. ASSUME caller[c].full, NEW k \in Key, WasUncommitted(k)
          PROVE  k \in scanned \/ WasInHistory(k)
      BY <3>3 DEF scanned, WasUncommitted, WasInHistory, ValueIn
    <3>4. WasCovered'
      <4>. SUFFICES ASSUME NEW d \in Callers, caller'[d].at = "wait", caller'[d].full,
                           seen.head # None \/ caller'[d].op = "init",
                           NEW k \in Key, WasUncommitted(k)
                    PROVE  dirty[k] # Clean \/ k \in caller'[d].scanned \/ WasInHistory(k) \/ Missed(k)
        BY <1>1, <1>5 DEF WasCovered
      <4>1. CASE d = c
        BY <1>4, <3>3, <4>1
      <4>2. CASE d # c
        BY <1>4, <3>1, <4>2 DEF WasCovered
      <4>. QED  BY <4>1, <4>2
    <3>5. WasOld'
      BY <1>1, <1>4, <1>5, <3>1 DEF WasOld
    <3>. QED  BY <3>2, <3>4, <3>5
  <2>8. FallsBack'
    BY <1>1, <2>7 DEF FallsBack
  <2>. QED  BY <2>1, <2>2, <2>3, <2>5, <2>6, <2>8 DEF Tracked
<1>. QED  BY <1>7, <1>8, <1>9, <1>10, <1>11 DEF VcsInv

\* A caller that settles.
LEMMA AnswerStep ==
  ASSUME VcsInv, NEW c \in Callers, Answer(c)
  PROVE  VcsInv'
<1>. DEFINE e == caller[c].settle
<1>1. /\ caller[c].at \in {"answered", "failed"} /\ caller' = [caller EXCEPT ![c] = Idle]
      /\ enabled' = (enabled /\ ~Off(c))
      /\ raced' = (raced \/ (Off(c) /\ (head # None \/ \E d \in Callers : UnderWay(d))))
      /\ dirty' = [k \in Key |-> IF e = Never \/ Settled(e, dirty[k]) THEN dirty[k] ELSE Clean]
      /\ fullScan' = (fullScan /\ ~(caller[c].full /\ e # Never))
      /\ UNCHANGED <<content, seen, unseen, queue, work, stage, batch, wipe, epoch>>
      /\ Shape /\ OneRequestEach /\ ScansWhenNeeded /\ SeenIsPublished /\ Tracked
  BY DEF Answer, VcsInv
<1>2. UNCHANGED <<store, head>>
  BY <1>1 DEF content
<1>3. caller'[c].at = "idle" /\ caller'[c].settle = Never /\ \A d \in Callers \ {c} : caller'[d] = caller[d]
  BY <1>1 DEF Idle, Shape
<1>4. /\ Repository'
      /\ \A k : /\ (InHistory(k)' <=> InHistory(k)) /\ (Uncommitted(k)' <=> Uncommitted(k))
                /\ (WasInHistory(k)' <=> WasInHistory(k)) /\ (WasUncommitted(k)' <=> WasUncommitted(k))
                /\ (Missed(k) => Missed(k)')
  BY <1>1, ContentStays DEF Missed, WasInHistory, WasUncommitted, WasHeadLine
<1>5. \A k \in Key : dirty'[k] = dirty[k] \/ (e # Never /\ dirty'[k] = Clean /\ ~(dirty[k] > e))
  BY <1>1 DEF Settled
<1>6. e # Never => caller[c].at = "answered"
  BY <1>1 DEF ScansWhenNeeded
<1>. HIDE DEF e
<1>7. Shape'
  <2>1. Idle \in [at : Places, op : Ops \cup {"none"}, full : BOOLEAN, scanned : SUBSET Key,
        settle : -1..epoch - 1]
    BY <1>1 DEF Idle, Places, Never, Shape
  <2>2. caller' \in [Callers -> [at : Places, op : Ops \cup {"none"}, full : BOOLEAN,
                                 scanned : SUBSET Key, settle : -1..epoch - 1]]
    BY <1>1, <2>1 DEF Shape
  <2>3. dirty' \in [Key -> -1..epoch]
    BY <1>1 DEF Shape, Clean
  <2>4. enabled' \in BOOLEAN /\ raced' \in BOOLEAN /\ fullScan' \in BOOLEAN
        /\ (fullScan' => head # None /\ seen.head # None)
    <3>1. Off(c) \in BOOLEAN
      BY DEF Off
    <3>. QED  BY <1>1, <3>1 DEF Shape
  <2>. QED  BY <1>1, <1>2, <1>4, <2>2, <2>3, <2>4 DEF Shape, Published
<1>8. OneRequestEach'
  <2>1. \A d \in Callers : caller[d].at = "wait" => caller'[d].at = "wait"
    BY <1>1, <1>3
  <2>. QED  BY <1>1, <2>1 DEF OneRequestEach
<1>9. ScansWhenNeeded'
  BY <1>1, <1>3 DEF ScansWhenNeeded
<1>10. SeenIsPublished'
  BY <1>1, <1>2 DEF SeenIsPublished, World, content
\* What it lets go of, it may.
<1>11. \A k \in Key : IF head = None THEN dirty'[k] = dirty[k]
                      ELSE Uncommitted(k) => dirty'[k] = dirty[k] \/ k \in batch \/ Missed(k)
  <2>. SUFFICES ASSUME e # Never, NEW k \in Key
                PROVE  IF head = None THEN dirty'[k] = dirty[k]
                       ELSE Uncommitted(k) => dirty'[k] = dirty[k] \/ k \in batch \/ Missed(k)
    BY <1>5
  <2>. QED  BY <1>1, <1>5, <1>6 DEF Tracked, SettlesOnlyOld, e
<1>12. Tracked'
  <2>1. TrackingIsOn'
    <3>1. CASE ~Off(c)
      BY <1>1, <1>2, <1>3, <3>1 DEF Tracked, TrackingIsOn, InitWaits
    <3>2. CASE Off(c)
      <4>. SUFFICES ASSUME ~raced' PROVE head' = None /\ \A d \in Callers : ~InitWaits(d)'
        BY DEF TrackingIsOn
      <4>1. head = None /\ \A d \in Callers : ~InitWaits(d)
        BY <1>1, <3>2 DEF UnderWay
      <4>. QED  BY <1>2, <1>3, <4>1 DEF InitWaits
    <3>. QED  BY <3>1, <3>2
  <2>2. StoredIsSeen'
    <3>1. \A k \in Key : dirty[k] = epoch => dirty'[k] = epoch
      <4>1. e < epoch /\ e \in Int /\ epoch \in Int
        BY <1>1 DEF Shape, e
      <4>. QED  BY <1>5, <4>1
    <3>. QED  BY <1>1, <1>2, <1>4, <3>1 DEF Tracked, StoredIsSeen
  <2>3. \A k \in Key : Uncommitted(k) /\ Noted(k) => Noted(k)' \/ Missed(k)'
    BY <1>1, <1>4, <1>11 DEF Noted
  <2>4. NotedIfDue'
    <3>. SUFFICES ASSUME head # None, ~fullScan', NEW k \in Key, Uncommitted(k)
                  PROVE  Noted(k)' \/ Missed(k)'
      BY <1>2, <1>4 DEF NotedIfDue
    <3>1. CASE ~fullScan
      BY <1>1, <1>4, <2>3, <3>1 DEF Tracked, NotedIfDue
    <3>2. CASE fullScan
      <4>1. e # Never
        BY <1>1, <3>2
      <4>2. dirty[k] > e \/ k \in batch \/ Missed(k)
        BY <1>1, <1>6, <4>1 DEF Tracked, SettlesOnlyOld, e
      <4>3. dirty[k] > e => dirty[k] # Clean
        BY <1>1 DEF Shape, Clean, e
      <4>. QED  BY <1>4, <2>3, <4>2, <4>3 DEF Noted
    <3>. QED  BY <3>1, <3>2
  <2>5. ScanCovers'
    BY <1>1, <1>2, <1>3, <1>4, <2>3 DEF Tracked, ScanCovers
  <2>6. SettlesOnlyOld'
    <3>. SUFFICES ASSUME NEW d \in Callers, d # c, caller[d].at \in {"ran", "answered"},
                         caller[d].settle # Never, NEW k \in Key
                  PROVE  IF head = None THEN dirty'[k] = Clean \/ dirty'[k] > caller[d].settle
                         ELSE Uncommitted(k) => dirty'[k] > caller[d].settle \/ k \in batch \/ Missed(k)'
      BY <1>1, <1>2, <1>3, <1>4 DEF SettlesOnlyOld
    <3>1. IF head = None THEN dirty[k] = Clean \/ dirty[k] > caller[d].settle
          ELSE Uncommitted(k) => dirty[k] > caller[d].settle \/ k \in batch \/ Missed(k)
      BY <1>1 DEF Tracked, SettlesOnlyOld
    <3>. QED  BY <1>4, <1>11, <3>1
  <2>7. ASSUME stage = "run"
        PROVE  (WasNoted /\ WasCovered /\ WasOld)'
    <3>1. WasNoted /\ WasCovered /\ WasOld
      BY <1>1, <2>7 DEF Tracked, FallsBack
    <3>2. \A k \in Key : IF seen.head = None THEN dirty'[k] = dirty[k]
                         ELSE WasUncommitted(k) => dirty'[k] = dirty[k] \/ Missed(k)
      <4>. SUFFICES ASSUME e # Never, NEW k \in Key
                    PROVE  IF seen.head = None THEN dirty'[k] = dirty[k]
                           ELSE WasUncommitted(k) => dirty'[k] = dirty[k] \/ Missed(k)
        BY <1>5
      <4>. QED  BY <1>5, <1>6, <3>1 DEF WasOld, e
    <3>3. WasNoted'
      <4>. SUFFICES ASSUME seen.head # None, ~fullScan', NEW k \in Key, WasUncommitted(k)
                    PROVE  dirty'[k] # Clean \/ Missed(k)'
        BY <1>1, <1>4 DEF WasNoted
      <4>1. CASE ~fullScan
        BY <1>4, <3>1, <3>2, <4>1 DEF WasNoted
      <4>2. CASE fullScan
        <5>1. e # Never
          BY <1>1, <4>2
        <5>2. dirty[k] > e \/ Missed(k)
          BY <1>6, <3>1, <5>1 DEF WasOld, e
        <5>3. dirty[k] > e => dirty[k] # Clean
          BY <1>1 DEF Shape, Clean, e
        <5>. QED  BY <1>4, <3>2, <5>2, <5>3
      <4>. QED  BY <4>1, <4>2
    <3>4. WasCovered'
      <4>. SUFFICES ASSUME NEW d \in Callers, d # c, caller[d].at = "wait", caller[d].full,
                           seen.head # None \/ caller[d].op = "init",
                           NEW k \in Key, WasUncommitted(k)
                    PROVE  dirty'[k] # Clean \/ k \in caller[d].scanned \/ WasInHistory(k) \/ Missed(k)'
        BY <1>1, <1>3, <1>4 DEF WasCovered
      <4>1. dirty[k] # Clean \/ k \in caller[d].scanned \/ WasInHistory(k) \/ Missed(k)
        BY <3>1 DEF WasCovered
      <4>. QED  BY <1>4, <3>2, <4>1
    <3>5. WasOld'
      <4>. SUFFICES ASSUME NEW d \in Callers, d # c, caller[d].at = "answered",
                           caller[d].settle # Never, NEW k \in Key
                    PROVE  IF seen.head = None THEN dirty'[k] = Clean \/ dirty'[k] > caller[d].settle
                           ELSE WasUncommitted(k) => dirty'[k] > caller[d].settle \/ Missed(k)'
        BY <1>1, <1>3, <1>4 DEF WasOld
      <4>1. IF seen.head = None THEN dirty[k] = Clean \/ dirty[k] > caller[d].settle
            ELSE WasUncommitted(k) => dirty[k] > caller[d].settle \/ Missed(k)
        BY <3>1 DEF WasOld
      <4>. QED  BY <1>4, <3>2, <4>1
    <3>. QED  BY <3>3, <3>4, <3>5
  <2>8. FallsBack'
    BY <1>1, <2>7 DEF FallsBack
  <2>. QED  BY <2>1, <2>2, <2>4, <2>5, <2>6, <2>8 DEF Tracked
<1>. QED  BY <1>7, <1>8, <1>9, <1>10, <1>12 DEF VcsInv

\* The request of the group that is run leaves it; nobody else's does.
LEMMA RequestRun ==
  ASSUME Shape, OneRequestEach, NEW c \in Callers, queue' = queue, work # <<>>, work' = Tail(work),
         Asks(Head(work), c), \A d \in Callers \ {c} : caller'[d].at = caller[d].at
  PROVE  OneRequestEach'
<1>1. /\ Len(work') = Len(work) - 1 /\ Len(work) \in Nat \ {0} /\ Head(work) = work[1]
      /\ \A i \in 1..Len(work') : work'[i] = work[i + 1]
  BY WorkShrinks
<1>2. 1 \in 1..Len(work) /\ Asks(work[1], c) /\ \A i \in 1..Len(work') : i + 1 \in 1..Len(work)
      /\ i + 1 # 1
  BY <1>1
<1>3. \A i \in 1..Len(work') : ~Asks(work'[i], c)
  BY <1>1, <1>2 DEF OneRequestEach
<1>4. \A i \in 1..Len(queue') : ~Asks(queue'[i], c)
  BY <1>2 DEF OneRequestEach
<1>5. ASSUME NEW d \in Callers
      PROVE  /\ \A i \in 1..Len(queue') : Asks(queue'[i], d) =>
                  /\ caller'[d].at = "wait"
                  /\ \A j \in 1..Len(queue') : Asks(queue'[j], d) => i = j
                  /\ \A j \in 1..Len(work') : ~Asks(work'[j], d)
             /\ \A i \in 1..Len(work') : Asks(work'[i], d) =>
                  /\ caller'[d].at = "wait"
                  /\ \A j \in 1..Len(work') : Asks(work'[j], d) => i = j
  <2>1. CASE d = c
    BY <1>3, <1>4, <2>1
  <2>2. CASE d # c
    <3>1. caller'[d].at = caller[d].at
      BY <2>2
    <3>. QED  BY ONLY Shape, OneRequestEach, d \in Callers, queue' = queue, work # <<>>,
                 work' = Tail(work),
                      <3>1, RequestsStay
  <2>. QED  BY <2>1, <2>2
<1>. QED  BY <1>5 DEF OneRequestEach

\* A command on the commit path.
LEMMA RunVcStep ==
  ASSUME VcsInv, NEW c \in Callers, RunVc(c)
  PROVE  VcsInv'
<1>1. /\ stage = "run" /\ work # <<>> /\ Asks(Head(work), c) /\ caller[c].at = "wait"
      /\ \/ head # None /\ Outcome(c) /\ (Ran(c, TRUE) => caller[c].op \in NeedsScan)
         \/ Starts(c)
         \/ head = None /\ Refuse(c)
  BY RunVcOutcome
<1>2. Shape /\ OneRequestEach /\ ScansWhenNeeded /\ SeenIsPublished /\ Tracked
  BY DEF VcsInv
<1>3. PICK s \in BOOLEAN : Ran(c, s) /\ (s => Ran(c, TRUE)) /\ (~s => Ran(c, FALSE))
  BY <1>1 DEF Outcome, Starts, Refuse
<1>4. /\ work' = Tail(work) /\ epoch' = epoch + 1
      /\ caller' = [caller EXCEPT ![c].at = "ran", ![c].settle = IF s THEN epoch ELSE Never]
      /\ UNCHANGED <<seen, unseen, queue, stage, wipe, enabled, fullScan, raced>>
  BY <1>3 DEF Ran
<1>5. /\ caller'[c].at = "ran" /\ caller'[c].settle = IF s THEN epoch ELSE Never
      /\ \A d \in Callers : /\ caller'[d].op = caller[d].op /\ caller'[d].full = caller[d].full
                            /\ d # c => caller'[d] = caller[d]
  BY <1>2, <1>4 DEF Shape
<1>6. epoch \in Nat /\ epoch # Never /\ Never = -1 /\ Clean = -1
  BY <1>2 DEF Shape, Never, Clean
<1>7. \A t \in BOOLEAN : Ran(c, t) => t = s
  BY <1>2, <1>3, RanOnce
<1>8. head = None /\ Refuse(c) =>
      /\ UNCHANGED <<content, store, head, branch, commits, batch, dirty>> /\ ~s
                                  /\ Repository'
  BY <1>2, <1>7, ContentStays DEF Refuse, content
<1>9. Outcome(c) => Steps /\ (s => Settles(c)) /\ (~s => Leaves)
  BY <1>7 DEF Outcome
<1>10. Starts(c) => head = None /\ caller[c].op = "init" /\ s /\ Steps /\ (Settles(c))
  BY <1>7 DEF Starts
<1>11. /\ Repository' /\ batch \subseteq batch' /\ batch' \subseteq Key
       /\ \A k \in Key : store'[k] = store[k] \/ k \in batch'
       /\ dirty' \in [Key -> -1..epoch + 1] /\ \A k \in Key : dirty'[k] \in {dirty[k], epoch + 1}
       /\ head # None => head' # None
  <2>1. CASE Steps
    BY <1>1, <1>8, <2>1 DEF Steps
  <2>2. CASE head = None /\ Refuse(c)
    BY <1>2, <1>6, <1>8, <2>2 DEF Shape
  <2>. QED  BY <1>1, <1>9, <1>10, <2>1, <2>2
<1>12. /\ s => head' # None /\ caller[c].op \in NeedsScan
       /\ head = None /\ head' # None => s /\ caller[c].op = "init"
       /\ head' = None => head = None /\ dirty' = dirty
  <2>1. "init" \in NeedsScan
    BY DEF NeedsScan
  <2>. QED  BY <1>1, <1>3, <1>8, <1>9, <1>10, <2>1 DEF Steps
<1>13. ASSUME NEW k \in Key, Uncommitted(k)', ~Missed(k)
       PROVE  \/ dirty'[k] = epoch + 1
              \/ /\ ~s
                 /\ \/ k \in batch'
                    \/ Uncommitted(k) /\ (InHistory(k) => InHistory(k)')
                       /\ (head' # None => head # None)
  <2>1. CASE head = None /\ Refuse(c)
    BY <1>2, <1>8, <1>13, <2>1, ContentStays
  <2>2. CASE s
    <3>1. store'[k] # HeadValue(k)'
      BY <1>12, <1>13, <2>2 DEF Uncommitted
    <3>2. Settles(c)
      BY <1>1, <1>8, <1>9, <1>10, <1>13, <2>2
    <3>. QED  BY <1>13, <3>1, <3>2 DEF Settles
  <2>3. CASE ~s /\ head # None /\ Outcome(c)
    <3>1. store'[k] # HeadValue(k)'
      BY <1>11, <1>13, <2>3 DEF Uncommitted
    <3>2. store[k] # HeadValue(k) => Uncommitted(k)
      BY <2>3 DEF Uncommitted
    <3>. QED  BY <1>9, <2>3, <3>1, <3>2 DEF Leaves
  <2>. QED  BY <1>1, <1>10, <2>1, <2>2, <2>3
<1>14. Shape'
  <2>. DEFINE C(n) == [at : Places, op : Ops \cup {"none"}, full : BOOLEAN, scanned : SUBSET Key,
                      settle : -1..n - 1]
              mine == [caller[c] EXCEPT !.at = "ran", !.settle = IF s THEN epoch ELSE Never]
  <2>1. caller \in [Callers -> C(epoch)] /\ "ran" \in Places
    BY <1>2 DEF Shape, Places
  <2>2. caller' = [caller EXCEPT ![c] = mine]
    BY <1>4, <2>1
  <2>3. C(epoch) \subseteq C(epoch + 1) /\ mine \in C(epoch + 1)
    <3>1. /\ -1..epoch - 1 \subseteq -1..(epoch + 1) - 1
          /\ (IF s THEN epoch ELSE Never) \in -1..(epoch + 1) - 1
      BY <1>6
    <3>2. caller[c] \in C(epoch)
      <4>. HIDE DEF C
      <4>. QED  BY <2>1
    <3>. QED  BY <2>1, <3>1, <3>2
  <2>. HIDE DEF C, mine
  <2>4. caller' \in [Callers -> C(epoch + 1)]
    BY <2>1, <2>2, <2>3
  <2>5. work' \in Seq(Request)
    BY <1>1, <1>2, <1>4, WorkShrinks
  <2>6. Published' /\ (fullScan => head' # None /\ seen'.head # None)
    BY <1>2, <1>4, <1>11 DEF Shape, Published
  <2>7. epoch' \in Nat /\ dirty' \in [Key -> -1..epoch'] /\ caller' \in [Callers -> C(epoch')]
    BY <1>4, <1>6, <1>11, <2>4
  <2>. QED  BY <1>1, <1>2, <1>4, <1>11, <2>5, <2>6, <2>7 DEF Shape, C
<1>15. OneRequestEach'
  BY <1>1, <1>2, <1>4, <1>5, RequestRun
<1>16. ScansWhenNeeded'
  <2>. SUFFICES ASSUME NEW d \in Callers
                PROVE  /\ caller'[d].at # "idle"
                          /\ (caller'[d].op = "init" \/ (fullScan' /\ caller'[d].op \in NeedsScan))
                            => caller'[d].full
                       /\ caller'[d].settle # Never
                            => caller'[d].at \in {"ran", "answered"} /\ caller'[d].op \in NeedsScan
    BY DEF ScansWhenNeeded
  <2>1. /\ caller[d].at # "idle"
           /\ (caller[d].op = "init" \/ (fullScan /\ caller[d].op \in NeedsScan))
             => caller[d].full
        /\ caller[d].settle # Never
             => caller[d].at \in {"ran", "answered"} /\ caller[d].op \in NeedsScan
    BY <1>2 DEF ScansWhenNeeded
  <2>2. CASE d = c
    BY <1>1, <1>4, <1>5, <1>12, <2>1, <2>2
  <2>3. CASE d # c
    <3>1. caller'[d] = caller[d] /\ fullScan' = fullScan
      BY <1>4, <1>5, <2>3
    <3>. QED  BY ONLY <2>1, <3>1
  <2>. QED  BY <2>2, <2>3
<1>17. SeenIsPublished'
  BY <1>1, <1>2, <1>4, <1>11 DEF SeenIsPublished
<1>18. Tracked'
  <2>0. \A k : Missed(k)' <=> Missed(k)
    BY <1>4 DEF Missed
  <2>1. TrackingIsOn'
    BY <1>1, <1>2, <1>4, <1>5, <1>12 DEF Tracked, TrackingIsOn, InitWaits
  <2>2. StoredIsSeen'
    BY <1>1, <1>2, <1>4, <1>11 DEF Tracked, StoredIsSeen
  <2>3. \A k \in Key : Noted(k) => Noted(k)'
    BY <1>2, <1>6, <1>11 DEF Noted, Shape
  <2>4. \A k \in Key : dirty'[k] = epoch + 1 \/ k \in batch' => Noted(k)'
    BY <1>6 DEF Noted
  <2>5. NotedIfDue'
    BY <1>2, <1>4, <1>13, <2>0, <2>3, <2>4 DEF Tracked, NotedIfDue
  <2>6. ScanCovers'
    <3>. SUFFICES ASSUME NEW d \in Callers, caller'[d].at = "wait", caller'[d].full,
                         head' # None \/ caller'[d].op = "init", NEW k \in Key, Uncommitted(k)'
                  PROVE  Noted(k)' \/ k \in caller'[d].scanned \/ InHistory(k)' \/ Missed(k)
      BY <2>0 DEF ScanCovers
    <3>1. d # c /\ caller'[d] = caller[d]
      BY <1>5
    <3>2. CASE dirty'[k] = epoch + 1 \/ k \in batch'
      BY <2>4, <3>2
    <3>3. CASE Uncommitted(k) /\ (InHistory(k) => InHistory(k)') /\ (head' # None => head # None)
      BY <1>2, <2>3, <3>1, <3>3 DEF Tracked, ScanCovers
    <3>. QED  BY <1>13, <3>2, <3>3
  <2>7. SettlesOnlyOld'
    <3>. SUFFICES ASSUME NEW d \in Callers, caller'[d].at \in {"ran", "answered"},
                         caller'[d].settle # Never, NEW k \in Key
                  PROVE  IF head' = None THEN dirty'[k] = Clean \/ dirty'[k] > caller'[d].settle
                         ELSE Uncommitted(k)' => dirty'[k] > caller'[d].settle \/ k \in batch' \/ Missed(k)
      BY <2>0 DEF SettlesOnlyOld
    <3>1. caller'[d].settle \in Int /\ epoch + 1 > caller'[d].settle
      <4>1. caller[d].settle \in -1..epoch - 1 /\ epoch \in Nat
        BY <1>2 DEF Shape
      <4>. QED  BY <1>5, <1>6, <4>1
    <3>2. CASE d = c
      BY <1>5, <1>12, <1>13, <3>1, <3>2
    <3>3. CASE d # c
      <4>1. caller'[d] = caller[d]
        BY <1>5, <3>3
      <4>2. IF head = None THEN dirty[k] = Clean \/ dirty[k] > caller[d].settle
            ELSE Uncommitted(k) => dirty[k] > caller[d].settle \/ k \in batch \/ Missed(k)
        BY <1>2, <4>1 DEF Tracked, SettlesOnlyOld
      <4>3. CASE head' = None
        BY <1>12, <4>1, <4>2, <4>3
      <4>4. CASE head' # None
        <5>. SUFFICES ASSUME Uncommitted(k)', ~Missed(k)
                      PROVE  dirty'[k] > caller'[d].settle \/ k \in batch'
          BY <4>4
        <5>1. \/ dirty'[k] = epoch + 1 \/ k \in batch'
              \/ Uncommitted(k) /\ head # None
          BY <1>13, <4>4
        <5>2. dirty'[k] = dirty[k] \/ dirty'[k] = epoch + 1
          BY <1>11
        <5>. QED  BY <1>11, <3>1, <4>1, <4>2, <5>1, <5>2
      <4>. QED  BY <4>3, <4>4
    <3>. QED  BY <3>2, <3>3
  <2>8. FallsBack'
    BY <1>1, <1>2, <1>4, <1>5, <1>11, FallsBackStays DEF Tracked
  <2>. QED  BY <2>1, <2>2, <2>5, <2>6, <2>7, <2>8 DEF Tracked
<1>. QED  BY <1>14, <1>15, <1>16, <1>17, <1>18 DEF VcsInv

-----------------------------------------------------------------------------
(* The theorems.                                                           *)

\* The first state.
LEMMA InitVcs == ASSUME Init PROVE VcsInv
<1>1. /\ store = [k \in Key |-> None] /\ head = None /\ branch = [b \in Branches |-> 0]
         /\ commits = <<>>
      /\ seen = Nothing /\ unseen = {} /\ queue = <<>> /\ work = <<>> /\ stage = "idle"
      /\ batch = {} /\ wipe = FALSE /\ enabled = FALSE /\ fullScan = FALSE
      /\ dirty = [k \in Key |-> -1] /\ epoch = 0 /\ raced = FALSE
      /\ caller = [c \in Callers |-> Idle]
  BY DEF Init, Nothing, Clean
<1>2. \A c \in Callers : caller[c].at = "idle"
  BY <1>1 DEF Idle
<1>3. Shape
  <2>1. Grown(commits) /\ Len(commits) = 0
    BY <1>1 DEF Grown
  <2>2. Repository
    BY <1>1, <2>1 DEF Repository, Val
  <2>3. Idle \in [at : Places, op : Ops \cup {"none"}, full : BOOLEAN, scanned : SUBSET Key,
        settle : -1..epoch - 1]
    BY <1>1 DEF Idle, Places, Never
  <2>4. Published /\ queue \in Seq(Request) /\ work \in Seq(Request)
    <3>1. Grown(<<>>) /\ Len(<<>>) = 0
      BY DEF Grown
    <3>. QED  BY <1>1, <3>1 DEF Published, Nothing, Val
  <2>5. dirty \in [Key -> -1..epoch] /\ epoch \in Nat
    BY <1>1
  <2>6. caller \in [Callers -> [at : Places, op : Ops \cup {"none"}, full : BOOLEAN,
                                scanned : SUBSET Key, settle : -1..epoch - 1]]
    BY <1>1, <2>3
  <2>. QED  BY <1>1, <2>2, <2>4, <2>5, <2>6 DEF Shape
<1>4. OneRequestEach
  BY <1>1 DEF OneRequestEach
<1>5. ScansWhenNeeded
  BY <1>1 DEF ScansWhenNeeded, Idle
<1>6. SeenIsPublished
  BY <1>1 DEF SeenIsPublished, World, Nothing
<1>7. Tracked
  BY <1>1, <1>2 DEF Tracked, TrackingIsOn, StoredIsSeen, NotedIfDue, ScanCovers, SettlesOnlyOld,
     InitWaits, FallsBack
<1>. QED  BY <1>3, <1>4, <1>5, <1>6, <1>7 DEF VcsInv

\* Every step.
LEMMA NextVcs ==
  ASSUME VcsInv, [Next]_vars
  PROVE  VcsInv'
<1>1. CASE Write \/ FlushAll
  BY <1>1, QueueStep
<1>2. CASE Drain
  BY <1>2, DrainStep
<1>3. CASE RunWrite
  BY <1>3, RunWriteStep
<1>4. CASE RunFlushAll
  BY <1>4, RunFlushAllStep
<1>5. CASE Hooks
  BY <1>5, HooksStep
<1>6. CASE Publish
  BY <1>6, PublishStep
<1>13. CASE Wipe
  BY <1>13, WipeStep
<1>14. CASE Fail
  BY <1>14, FailStep
<1>7. CASE Restart
  BY <1>7, RestartStep
<1>8. ASSUME NEW c \in Callers, NEW op \in Ops, Begin(c, op) PROVE VcsInv'
  BY <1>8, BeginStep
<1>9. ASSUME NEW c \in Callers, Submit(c) PROVE VcsInv'
  BY <1>9, SubmitStep
<1>10. ASSUME NEW c \in Callers, RunVc(c) PROVE VcsInv'
  BY <1>10, RunVcStep
<1>11. ASSUME NEW c \in Callers, Answer(c) PROVE VcsInv'
  BY <1>11, AnswerStep
<1>12. CASE UNCHANGED vars
  <2>1. /\ UNCHANGED <<content, seen, unseen, queue, work, stage, batch, wipe, enabled, fullScan, dirty,
           epoch, caller, raced>>
        /\ Shape /\ OneRequestEach /\ ScansWhenNeeded /\ SeenIsPublished /\ Tracked
    BY <1>12 DEF vars, tracker, VcsInv
  <2>2. UNCHANGED <<store, head>>
    BY <2>1 DEF content
  <2>3. Shape'
    <3>1. Repository'
      BY <2>1, ContentStays
    <3>. QED  BY <2>1, <2>2, <3>1 DEF Shape, Published
  <2>4. OneRequestEach' /\ ScansWhenNeeded' /\ SeenIsPublished'
    BY <2>1, <2>2 DEF OneRequestEach, ScansWhenNeeded, SeenIsPublished, World, content
  <2>5. Tracked'
    BY <2>1, TrackedStays
  <2>. QED  BY <2>1, <2>3, <2>4, <2>5 DEF VcsInv
<1>. QED  BY <1>1, <1>2, <1>3, <1>4, <1>5, <1>6, <1>7, <1>8, <1>9, <1>10, <1>11, <1>12, <1>13, <1>14
          DEF Next

\* The bookkeeping of the commit path, the callers and the dirty set is right in
\* every state.
THEOREM VcsInvariance == Spec => []VcsInv
<1>1. Init => VcsInv
  BY InitVcs
<1>2. VcsInv /\ [Next]_vars => VcsInv'
  BY NextVcs
<1>. QED  BY <1>1, <1>2, PTL DEF Spec

\* The invariant says so.
LEMMA InvNothingMissed == ASSUME VcsInv PROVE NothingIsMissed
<1>. SUFFICES ASSUME head # None, ~fullScan, NEW k \in Key, store[k] # ValueAt(k, HeadAnc)
              PROVE  dirty[k] # Clean \/ k \in batch \/ Missed(k)
  BY DEF NothingIsMissed
<1>1. Repository /\ Tracked
  BY DEF VcsInv, Shape
<1>2. Uncommitted(k)
  BY <1>1, BehindHead DEF Uncommitted
<1>. QED  BY <1>1, <1>2 DEF Tracked, NotedIfDue, Noted

\* A key whose live value is not HEAD's is in the dirty set or in the group being
\* run: "nothing to commit" is true when it is answered.
THEOREM NothingMissed == Spec => []NothingIsMissed
<1>1. VcsInv => NothingIsMissed
  BY InvNothingMissed
<1>. QED  BY <1>1, VcsInvariance, PTL

\* The step that lets a command settle.
LEMMA StepSettlesClean ==
  ASSUME VcsInv, VcsInv', [Next]_vars
  PROVE  [SettlesClean]_vars
<1>. SUFFICES ASSUME Next, NEW c \in Callers, caller[c].at = "wait", caller'[c].at = "ran",
                     caller'[c].settle # Never, NEW k \in Key, ~Missed(k)
              PROVE  \/ store'[k] = ValueAt(k, HeadAnc)'
                     \/ caller[c].op = "status" /\ dirty'[k] > caller'[c].settle
  BY DEF SettlesClean
<1>1. Shape /\ Shape'
  BY DEF VcsInv
<1>2. RunVc(c)
  <2>1. ~(UNCHANGED caller)
    OBVIOUS
  <2>2. CASE Publish
    <3>1. caller' = [d \in Callers |->
                      [caller[d] EXCEPT !.at = IF @ = "ran" THEN "answered" ELSE IF @ = "lost" THEN "failed" ELSE @]]
      BY <2>2 DEF Publish
    <3>2. caller'[c].at = "wait"
      BY <1>1, <3>1 DEF Shape
    <3>. QED  BY <3>2
  <2>8. CASE AllFail
    <3>1. caller'[c] = caller[c]
      BY <2>8 DEF AllFail
    <3>. QED  BY <3>1
  <2>3. CASE Restart
    BY <2>3 DEF Restart, Idle
  <2>4. ASSUME NEW d \in Callers, NEW op \in Ops, Begin(d, op) PROVE FALSE
    <3>1. caller' = [caller EXCEPT ![d] = [Idle EXCEPT !.at = "scan", !.op = op,
                                             !.full = op = "init" \/ (op \in NeedsScan
                                             /\ fullScan)]]
      BY <2>4 DEF Begin
    <3>. QED  BY <1>1, <3>1 DEF Shape, Idle
  <2>5. ASSUME NEW d \in Callers, Submit(d) PROVE FALSE
    <3>1. caller[d].at = "scan" /\ d # c
      BY <2>5 DEF Submit
    <3>2. caller'[c] = caller[c]
      BY <1>1, <2>5, <3>1 DEF Submit, Shape
    <3>. QED  BY <3>2
  <2>6. ASSUME NEW d \in Callers, Answer(d) PROVE FALSE
    <3>1. caller[d].at # "wait" /\ d # c
      BY <2>6 DEF Answer
    <3>2. caller'[c] = caller[c]
      BY <1>1, <2>6, <3>1 DEF Answer, Shape
    <3>. QED  BY <3>2
  <2>7. ASSUME NEW d \in Callers, RunVc(d), d # c PROVE FALSE
    <3>1. PICK s \in BOOLEAN : Ran(d, s)
      BY <2>7, RunVcOutcome DEF Outcome, Starts, Refuse
    <3>2. caller'[c] = caller[c]
      BY <1>1, <2>7, <3>1 DEF Ran, Shape
    <3>. QED  BY <3>2
  <2>. QED  BY <2>1, <2>2, <2>3, <2>4, <2>5, <2>6, <2>7, <2>8
            DEF Next, Write, FlushAll, Drain, RunWrite, RunFlushAll, Hooks, Wipe, Fail
<1>3. ~Ran(c, FALSE)
  <2>. SUFFICES ASSUME Ran(c, FALSE) PROVE caller'[c].settle = Never
    OBVIOUS
  <2>1. caller' = [caller EXCEPT ![c].at = "ran", ![c].settle = Never]
    BY DEF Ran
  <2>2. caller \in [Callers -> [at : Places, op : Ops \cup {"none"}, full : BOOLEAN,
                                scanned : SUBSET Key, settle : -1..epoch - 1]]
    BY <1>1 DEF Shape
  <2>. QED  BY <2>1, <2>2
<1>4. Steps /\ Settles(c) /\ Ran(c, TRUE)
  BY <1>2, <1>3, RunVcOutcome DEF Outcome, Starts, Refuse
<1>5. HeadValue(k)' = ValueAt(k, HeadAnc)'
  <2>1. Ancestors' = Lineage(commits')
    BY DEF Ancestors, Lineage, Line
  <2>2. ValueAt(k, HeadAnc)' = ValueIn(commits', k, Ancestors'[branch'[head']])
    BY DEF ValueAt, ValueIn, By, HeadAnc
  <2>. QED  BY <2>1, <2>2 DEF HeadValue, HeadLine
<1>6. caller'[c].settle = epoch /\ epoch \in Nat
  <2>1. caller' = [caller EXCEPT ![c].at = "ran", ![c].settle = epoch]
    BY <1>4 DEF Ran
  <2>. QED  BY <1>1, <2>1 DEF Shape
<1>. QED  BY <1>4, <1>5, <1>6 DEF Settles

\* A command that settles leaves HEAD, read back through its history, and the
\* working copy the same.
THEOREM SettledIsHead == Spec => WorkingCopyIsHead
<1>1. VcsInv /\ VcsInv' /\ [Next]_vars => [SettlesClean]_vars
  BY StepSettlesClean
<1>. QED  BY <1>1, VcsInvariance, PTL DEF Spec, WorkingCopyIsHead

\* A user whose keys nobody has changed since the base has the base's state.
LEMMA UnchangedSince ==
  ASSUME Repository, NEW s \in 1..Len(commits), NEW b \in Ancestors[s], NEW u,
         u \notin ChangedSince(s, b)
  PROVE  StateAt(u, Ancestors[s]) = StateAt(u, Ancestors[b])
<1>1. Ancestors[b] \subseteq Ancestors[s]
  BY BehindCommit
<1>2. ASSUME NEW k \in Owned(u)
      PROVE  ValueAt(k, Ancestors[s]) = ValueAt(k, Ancestors[b])
  <2>1. k \notin Changed(Ancestors[s] \ Ancestors[b])
    BY <1>2 DEF ChangedSince, Users, Owned
  <2>2. By(commits, k, Ancestors[s]) = By(commits, k, Ancestors[b])
    BY <1>1, <2>1 DEF By, Changed
  <2>. QED  BY <2>2, ValuesAre, ValueSame
<1>. QED  BY <1>2 DEF StateAt

\* In every repository.
LEMMA InvMergesCommute == ASSUME VcsInv PROVE MergesCommute
<1>. SUFFICES ASSUME NEW o \in Revision, NEW t \in Revision
              PROVE  /\ Conflicts(o, t) = Conflicts(t, o)
                     /\ Conflicts(o, t) = {} => MergedState(o, t) = MergedState(t, o)
  BY DEF MergesCommute
<1>. DEFINE b == Base(o, t)
            Ours(u) == StateAt(u, Ancestors[o])
            Theirs(u) == StateAt(u, Ancestors[t])
            Was(u) == StateAt(u, Ancestors[b])
            ByUs == ChangedSince(o, b)
            ByThem == ChangedSince(t, b)
<1>1. Repository /\ o \in 1..Len(commits) /\ t \in 1..Len(commits)
  BY DEF VcsInv, Shape, Revision
<1>2. Base(t, o) = b /\ b \in Ancestors[o] /\ b \in Ancestors[t]
  <2>1. Ancestors[o] \cap Ancestors[t] = Ancestors[t] \cap Ancestors[o]
    OBVIOUS
  <2>2. Base(t, o) = b
    BY <2>1 DEF Base
  <2>. HIDE DEF b
  <2>3. Base(o, t) \in Ancestors[o] /\ Base(o, t) \in Ancestors[t]
    BY <1>1, BaseIs
  <2>. QED  BY <2>2, <2>3 DEF b
<1>. HIDE DEF b
<1>3. \A u : (u \notin ByUs => Ours(u) = Was(u)) /\ (u \notin ByThem => Theirs(u) = Was(u))
  BY <1>1, <1>2, UnchangedSince
<1>4. /\ \A u : u \in Conflicts(o, t) <=> /\ u \in ByUs \cap ByThem /\ Theirs(u) # Was(u)
                                         /\ Ours(u) # Theirs(u) /\ Ours(u) # Was(u)
      /\ \A u : u \in Conflicts(t, o) <=> /\ u \in ByUs \cap ByThem /\ Theirs(u) # Was(u)
                                         /\ Ours(u) # Theirs(u) /\ Ours(u) # Was(u)
  BY <1>2 DEF Conflicts, Diverged, RealChange, ChangedBack, b
<1>5. /\ \A u : u \in Taken(o, t) <=> \/ u \in ByThem \ ByUs /\ Theirs(u) # Was(u)
                                      \/ /\ u \in ByUs \cap ByThem /\ Theirs(u) # Was(u)
                                         /\ Ours(u) # Theirs(u) /\ u \notin Conflicts(o, t)
      /\ \A u : u \in Taken(t, o) <=> \/ u \in ByUs \ ByThem /\ Ours(u) # Was(u)
                                      \/ /\ u \in ByUs \cap ByThem /\ Ours(u) # Was(u)
                                         /\ Ours(u) # Theirs(u) /\ u \notin Conflicts(t, o)
  BY <1>2 DEF Taken, Diverged, RealChange, ChangedBack, b
<1>. HIDE DEF Ours, Theirs, Was, ByUs, ByThem
<1>6. Conflicts(o, t) = Conflicts(t, o)
  BY <1>4
<1>7. ASSUME Conflicts(o, t) = {}, NEW u
      PROVE  (IF u \in Taken(o, t) THEN Theirs(u) ELSE Ours(u)) = (IF u \in Taken(t,
             o) THEN Ours(u) ELSE Theirs(u))
  <2>1. u \in Taken(o, t) => Ours(u) = Was(u)
    BY <1>3, <1>4, <1>5
  <2>2. u \in Taken(t, o) => Theirs(u) = Was(u) /\ Ours(u) # Was(u)
    BY <1>3, <1>4, <1>5
  <2>3. u \notin Taken(o, t) /\ u \notin Taken(t, o) => Ours(u) = Theirs(u)
    BY <1>3, <1>4, <1>5, <1>6, <1>7
  <2>. QED  BY <2>1, <2>2, <2>3
<1>8. /\ \A u : StateAt(u, Ancestors[IF u \in Taken(o, t) THEN t ELSE o])
                  = IF u \in Taken(o, t) THEN Theirs(u) ELSE Ours(u)
      /\ \A u : StateAt(u, Ancestors[IF u \in Taken(t, o) THEN o ELSE t])
                  = IF u \in Taken(t, o) THEN Ours(u) ELSE Theirs(u)
  BY DEF Ours, Theirs
<1>9. Conflicts(o, t) = {} => MergedState(o, t) = MergedState(t, o)
  BY <1>7, <1>8 DEF MergedState
<1>. QED  BY <1>6, <1>9

\* Merging either of two commits into the other meets the same conflicts, and with
\* none takes the same values.
THEOREM MergeOrder == Spec => []MergesCommute
<1>1. VcsInv => MergesCommute
  BY InvMergesCommute
<1>. QED  BY <1>1, VcsInvariance, PTL
=============================================================================
