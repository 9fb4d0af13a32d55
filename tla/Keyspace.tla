------------------------------ MODULE Keyspace ------------------------------
(***************************************************************************)
(* The data types over the engine, as one commit sees them.  A key has a    *)
(* value under kv: (a string, or the header of a collection), a deadline    *)
(* under exp:, and the elements of a collection under keys of their own, in *)
(* families: h hash fields, l list items by sequence number, s and t set    *)
(* members with their positions and back, m and z sorted-set scores and     *)
(* their index.  A command is one operation on the commit path, so it is    *)
(* one step here; one that fails is rolled back and is no step.             *)
(***************************************************************************)
EXTENDS Integers, Sequences, FiniteSets, SequencesExt

CONSTANTS Keys, Members, Scores,
          MaxInt,     \* i64::MAX
          MaxLen,     \* bound on the length of a list
          Reach,      \* bound on its sequence numbers
          Deadlines,  \* distances of the deadlines that are set
          MaxNow      \* bound on the clock

VARIABLES cells, now
vars == <<cells, now>>

Text == -1                     \* a string that is no integer
Ints == 0..MaxInt
Never == MaxNow + 1000         \* no deadline
Families == {"h", "l", "s", "t", "m", "z"}
FamiliesOf(ty) ==
  CASE ty = "hash" -> {"h"} [] ty = "list" -> {"l"} [] ty = "set" -> {"s", "t"}
    [] ty = "zset" -> {"m", "z"} [] OTHER -> {}

Absent == [ty |-> "none"]
Str(v) == [ty |-> "string", val |-> v]
NewMeta(ty) == [ty |-> ty, len |-> 0, head |-> 0, tail |-> 0]
Collection(c) == c.kv.ty \in {"hash", "list", "set", "zset"}

Without(f, S) == Restrict(f, DOMAIN f \ S)
\* delete_elements: the families of the header's type.
NoElements(c) == [f \in Families |-> IF f \in FamiliesOf(c.kv.ty) THEN <<>> ELSE c.els[f]]
DeleteAll(c) == [kv |-> Absent, els |-> NoElements(c), ttl |-> Never]
PutStr(c, v, ttl) == [kv |-> Str(v), els |-> NoElements(c), ttl |-> ttl]

\* load: what a command finds; a key past its deadline is deleted first.
LoadAny(k) == cells[k]                          \* expiry left to the reaper
Load(k) == IF cells[k].ttl <= now THEN DeleteAll(cells[k]) ELSE cells[k]
Exists(k) == Load(k).kv # Absent

\* coll_or_new: the collection, or an empty header; WRONGTYPE is no step.
Is(k, ty) == Load(k).kv.ty \in {"none", ty}
Opened(k, ty) == LET c == Load(k) IN IF c.kv = Absent THEN [c EXCEPT !.kv = NewMeta(ty)] ELSE c
\* put_meta: an emptied collection disappears with its deadline.
PutMeta(c) == IF c.kv.len = 0 THEN [c EXCEPT !.kv = Absent, !.ttl = Never] ELSE c

Put(k, c) == cells' = [cells EXCEPT ![k] = c] /\ UNCHANGED now
Put2(k, c, l, d) == cells' = [cells EXCEPT ![k] = c, ![l] = d] /\ UNCHANGED now
Init ==
  /\ cells = [k \in Keys |-> [kv |-> Absent, els |-> [f \in Families |-> <<>>], ttl |-> Never]]
  /\ now = 0

-----------------------------------------------------------------------------
\* Strings and what all types share.  A command that is refused (NX, XX, ...)
\* has still loaded its key, which is what Purge does.

\* SET, MSET with a new deadline or none; KEEPTTL, APPEND, SETRANGE, INCRBYFLOAT
\* with the old one.
SetValue(k) ==
  \E v \in Ints \cup {Text}, ttl \in {now + d : d \in Deadlines} \cup {Never, Load(k).ttl} : Put(k, PutStr(Load(k), v, ttl))

\* INCR: only kv: is written, so a deadline stays.
IncrementsTo(c, i) ==
  \/ c.kv = Absent /\ i = 1
  \/ c.kv.ty = "string" /\ c.kv.val \in Ints /\ i = c.kv.val + 1
Incr(k) == \E i \in Ints : IncrementsTo(Load(k), i) /\ Put(k, [Load(k) EXCEPT !.kv = Str(i)])

\* DEL, UNLINK, GETDEL; and the reaper's purge, which only loads.
Del(k) == Exists(k) /\ Put(k, DeleteAll(Load(k)))
Purge(k) == cells[k].ttl <= now /\ Put(k, Load(k))

\* RENAME: elements are copied under the new name.
Renamed(src, dst) ==
  [kv |-> src.kv, ttl |-> src.ttl,
   els |-> [f \in Families |-> IF f \in FamiliesOf(src.kv.ty) THEN src.els[f] @@ dst.els[f] ELSE dst.els[f]]]
Rename(k, l) ==
  /\ k # l /\ Exists(k)
  /\ Put2(k, DeleteAll(Load(k)), l, Renamed(Load(k), DeleteAll(Load(l))))

\* EXPIRE and its kin (a deadline that has passed deletes), PERSIST, GETEX.
Expire(k) ==
  /\ Exists(k)
  /\ \E d \in Deadlines \cup {0} : Put(k, IF d = 0 THEN DeleteAll(Load(k)) ELSE [Load(k) EXCEPT !.ttl = now + d])
Persist(k) == Exists(k) /\ Put(k, [Load(k) EXCEPT !.ttl = Never])

-----------------------------------------------------------------------------
\* Hashes.
PutField(c, f, v) ==
  [c EXCEPT !.kv.len = IF f \in DOMAIN c.els["h"] THEN @ ELSE @ + 1, !.els["h"] = (f :> v) @@ @]
DropField(c, f) ==
  IF f \in DOMAIN c.els["h"] THEN [c EXCEPT !.kv.len = @ - 1, !.els["h"] = Without(@, {f})] ELSE c
HSet(k) == Is(k, "hash") /\ \E f, v \in Members : Put(k, PutMeta(PutField(Opened(k, "hash"), f, v)))
HDel(k) ==
  /\ Is(k, "hash")
  /\ \E fs \in BoundedSeq(Members, 2) : Put(k, PutMeta(FoldLeft(DropField, Opened(k, "hash"), fs)))

-----------------------------------------------------------------------------
\* Lists: items at head .. tail - 1.
PushItem(c, v, left) ==
  LET at == IF left THEN c.kv.head - 1 ELSE c.kv.tail
  IN  [c EXCEPT !.els["l"] = (at :> v) @@ @, !.kv.len = @ + 1,
                !.kv.head = IF left THEN at ELSE @, !.kv.tail = IF left THEN @ ELSE at + 1]
PopItem(c, left) ==
  LET at == IF left THEN c.kv.head ELSE c.kv.tail - 1
  IN  [c EXCEPT !.els["l"] = Without(@, {at}), !.kv.len = @ - 1,
                !.kv.head = IF left THEN at + 1 ELSE @, !.kv.tail = IF left THEN @ ELSE at]
InReach(c) == c.kv.len <= MaxLen /\ c.kv.head >= -Reach /\ c.kv.tail <= Reach
PutList(k, c) == (Collection(c) => InReach(c)) /\ Put(k, PutMeta(c))

LPush(k) ==
  /\ Is(k, "list")
  /\ \E vs \in BoundedSeq(Members, 2), left \in BOOLEAN :
       PutList(k, FoldLeft(LAMBDA c, v : PushItem(c, v, left), Opened(k, "list"), vs))
LPop(k) ==
  /\ Is(k, "list") /\ Exists(k)
  /\ \E left \in BOOLEAN, n \in 0..Load(k).kv.len :
       PutList(k, FoldLeft(LAMBDA c, i : PopItem(c, left), Load(k), [i \in 1..n |-> i]))
LSet(k) ==
  /\ Is(k, "list") /\ Exists(k)
  /\ \E i \in 0..Load(k).kv.len - 1, v \in Members : Put(k, [Load(k) EXCEPT !.els["l"][Load(k).kv.head + i] = v])

\* norm_range: the bounds of LTRIM and LRANGE; an empty one ends before it starts.
NormRange(s, e, len) ==
  LET from == IF s < 0 THEN (IF len + s < 0 THEN 0 ELSE len + s) ELSE s
      to == IF e < 0 THEN len + e ELSE IF e < len - 1 THEN e ELSE len - 1
  IN  IF from <= to /\ from < len THEN <<from, to>> ELSE <<len, len - 1>>
LTrim(k) ==
  /\ Is(k, "list") /\ Exists(k)
  /\ \E keep \in {NormRange(s, e, Load(k).kv.len) : s, e \in -(MaxLen + 1)..MaxLen} :
       LET c == Load(k)
           head == c.kv.head + keep[1]
           tail == c.kv.head + keep[2] + 1
       IN  Put(k, PutMeta([c EXCEPT !.els["l"] = Restrict(@, head..tail - 1), !.kv.len = tail - head,
                                    !.kv.head = head, !.kv.tail = tail]))

\* LREM and LINSERT rewrite the list from sequence number 0.
ItemsOf(c) == [i \in 1..c.kv.len |-> c.els["l"][c.kv.head + i - 1]]
Rewritten(c, items) ==
  LET old == c.kv.head..c.kv.head + c.kv.len - 1
      fresh == [i \in 0..Len(items) - 1 |-> items[i + 1]]
  IN  [c EXCEPT !.els["l"] = fresh @@ Without(@, old),
                !.kv.len = Len(items), !.kv.head = 0, !.kv.tail = Len(items)]
LRem(k) ==
  /\ Is(k, "list") /\ Exists(k)
  /\ \E v \in Members :
       LET items == ItemsOf(Load(k))
           at == [i \in DOMAIN items |-> i]
           hits == SelectSeq(at, LAMBDA i : items[i] = v)
       IN  \E gone \in {SubSeq(order, 1, n) : order \in {hits, Reverse(hits)}, n \in 1..Len(hits)} :
             LET kept == SelectSeq(at, LAMBDA i : ~Contains(gone, i))
             IN  PutList(k, Rewritten(Load(k), [i \in DOMAIN kept |-> items[kept[i]]]))
LInsert(k) ==
  /\ Is(k, "list") /\ Exists(k)
  /\ \E pivot, v \in Members, after \in {0, 1} :
       LET items == ItemsOf(Load(k))
           at == SelectInSeq(items, LAMBDA x : x = pivot)
       IN  at > 0 /\ PutList(k, Rewritten(Load(k), InsertAt(items, at + after, v)))

\* LMOVE, RPOPLPUSH: pop from one list, then push on the other, perhaps the same.
LMove(k, l) ==
  /\ Is(k, "list") /\ Exists(k) /\ Is(l, "list")
  /\ \E fromLeft, toLeft \in BOOLEAN :
       LET c == Load(k)
           v == c.els["l"][IF fromLeft THEN c.kv.head ELSE c.kv.tail - 1]
           popped == PutMeta(PopItem(c, fromLeft))
           target == IF k # l THEN Opened(l, "list")
                     ELSE IF popped.kv = Absent THEN [popped EXCEPT !.kv = NewMeta("list")] ELSE popped
           pushed == PushItem(target, v, toLeft)
       IN  InReach(pushed) /\ Put2(k, popped, l, pushed)

-----------------------------------------------------------------------------
\* Sets: members have the positions 0 .. len - 1, so that a random one is found
\* at once; the last one takes the place of one that goes.
SetAdd(c, m) ==
  IF m \in DOMAIN c.els["s"] THEN c
  ELSE [c EXCEPT !.els["s"] = (m :> c.kv.len) @@ @, !.els["t"] = (c.kv.len :> m) @@ @, !.kv.len = @ + 1]
\* The last member is not moved.
SetRemInPlace(c, m) ==
  IF m \notin DOMAIN c.els["s"] THEN c
  ELSE [c EXCEPT !.els["s"] = Without(@, {m}), !.els["t"] = Without(@, {c.els["s"][m]}), !.kv.len = @ - 1]
SetRem(c, m) ==
  IF m \notin DOMAIN c.els["s"] THEN c
  ELSE LET pos == c.els["s"][m]
           last == c.kv.len - 1
           moved == c.els["t"][last]
       IN  [c EXCEPT !.els["s"] = Without((moved :> pos) @@ @, {m}),
                     !.els["t"] = Without((pos :> moved) @@ @, {last}), !.kv.len = @ - 1]
SAdd(k) ==
  /\ Is(k, "set")
  /\ \E ms \in BoundedSeq(Members, 2) : Put(k, PutMeta(FoldLeft(SetAdd, Opened(k, "set"), ms)))
SRem(k) ==
  /\ Is(k, "set")
  /\ \E ms \in BoundedSeq(Members, 2) : Put(k, PutMeta(FoldLeft(SetRem, Opened(k, "set"), ms)))
SPop(k) ==
  /\ Is(k, "set") /\ Exists(k)
  /\ \E p \in 0..Load(k).kv.len - 1 : Put(k, PutMeta(SetRem(Load(k), Load(k).els["t"][p])))
MembersOf(k) == IF Exists(k) THEN DOMAIN Load(k).els["s"] ELSE {}
SStore(k) ==
  \E i, j \in Keys :
    /\ Is(i, "set") /\ Is(j, "set")
    /\ \E S \in {MembersOf(i) \cap MembersOf(j), MembersOf(i) \cup MembersOf(j), MembersOf(i) \ MembersOf(j)} :
         \E ms \in SetToSeqs(S) :
           LET stored == FoldLeft(SetAdd, [DeleteAll(Load(k)) EXCEPT !.kv = NewMeta("set")], ms)
           IN  cells' = [x \in Keys |-> IF x = k THEN PutMeta(stored) ELSE IF x \in {i, j} THEN Load(x) ELSE cells[x]]
    /\ UNCHANGED now
SMove(k, l) ==
  /\ k # l /\ Is(k, "set") /\ Exists(k) /\ Is(l, "set")
  /\ \E m \in MembersOf(k) : Put2(k, PutMeta(SetRem(Load(k), m)), l, SetAdd(Opened(l, "set"), m))

-----------------------------------------------------------------------------
\* Sorted sets: the score of each member, and an index ordered by score.
Unscored(c, m) ==
  IF m \notin DOMAIN c.els["m"] THEN c
  ELSE [c EXCEPT !.els["z"] = Without(@, {<<c.els["m"][m], m>>}), !.els["m"] = Without(@, {m}), !.kv.len = @ - 1]
Scored(c, m, s) ==
  LET d == IF m \in DOMAIN c.els["m"] /\ c.els["m"][m] # s
           THEN [c EXCEPT !.els["z"] = Without(@, {<<c.els["m"][m], m>>})] ELSE c
  IN  [d EXCEPT !.els["m"] = (m :> s) @@ @, !.els["z"] = (<<s, m>> :> 1) @@ @,
                !.kv.len = IF m \in DOMAIN c.els["m"] THEN @ ELSE @ + 1]
\* ZADD: NX, XX, GT, LT decide whether a member takes its new score.
Takes(c, m, s, cond) ==
  LET old == m \in DOMAIN c.els["m"]
  IN  CASE cond = "nx" -> ~old [] cond = "xx" -> old
        [] cond = "gt" -> ~old \/ s > c.els["m"][m] [] cond = "lt" -> ~old \/ s < c.els["m"][m] [] OTHER -> TRUE
ZAdd(k) ==
  /\ Is(k, "zset")
  /\ \E m \in Members, s \in Scores :
       LET c == Opened(k, "zset")
       IN  \E took \in {Takes(c, m, s, cond) : cond \in {"any", "nx", "xx", "gt", "lt"}} :
             Put(k, PutMeta(IF took THEN Scored(c, m, s) ELSE c))
ZRem(k) == Is(k, "zset") /\ \E m \in Members : Put(k, PutMeta(Unscored(Opened(k, "zset"), m)))
\* ZREMRANGEBY*, ZPOPMIN, ZPOPMAX: the victims are found through the index.
ZRemRange(k) ==
  /\ Is(k, "zset") /\ Exists(k)
  /\ \E lo, hi \in Scores :
       LET victims == {x \in DOMAIN Load(k).els["z"] : lo <= x[1] /\ x[1] <= hi}
       IN  Put(k, PutMeta(FoldLeft(Unscored, Load(k), SetToSeq({x[2] : x \in victims}))))

Tick == now < MaxNow /\ now' = now + 1 /\ UNCHANGED cells

Next ==
  \/ Tick
  \/ \E k \in Keys :
       \/ SetValue(k) \/ Incr(k) \/ Del(k) \/ Purge(k) \/ Expire(k) \/ Persist(k)
       \/ HSet(k) \/ HDel(k)
       \/ LPush(k) \/ LPop(k) \/ LSet(k) \/ LTrim(k) \/ LRem(k) \/ LInsert(k)
       \/ SAdd(k) \/ SRem(k) \/ SPop(k) \/ SStore(k)
       \/ ZAdd(k) \/ ZRem(k) \/ ZRemRange(k)
       \/ \E l \in Keys : Rename(k, l) \/ LMove(k, l) \/ SMove(k, l)

Spec == Init /\ [][Next]_vars

-----------------------------------------------------------------------------
\* Every element belongs to its key's header and the header counts them all:
\* nothing is left behind by a change of type, a rename, a removal of the last
\* element or an expiry, to turn up in the next collection of that name.
HeadersCountElements ==
  \A k \in Keys : LET c == cells[k] IN
    \A f \in Families : Cardinality(DOMAIN c.els[f]) = IF f \in FamiliesOf(c.kv.ty) THEN c.kv.len ELSE 0

\* A list has no gaps, the positions of a set are dense and lead back to its
\* members, and the index of a sorted set holds just its scores.
IndexesAgree ==
  \A k \in Keys : LET c == cells[k] IN
    /\ c.kv.ty = "list" => c.kv.tail - c.kv.head = c.kv.len /\ DOMAIN c.els["l"] = c.kv.head..c.kv.tail - 1
    /\ DOMAIN c.els["t"] = 0..Cardinality(DOMAIN c.els["s"]) - 1
    /\ \A p \in DOMAIN c.els["t"] : c.els["t"][p] \in DOMAIN c.els["s"] /\ c.els["s"][c.els["t"][p]] = p
    /\ DOMAIN c.els["z"] = {<<c.els["m"][m], m>> : m \in DOMAIN c.els["m"]}

\* A deadline belongs to a key that is there: one left behind would remove a
\* later value of the same name.
NoStrayDeadlines == \A k \in Keys : cells[k].kv = Absent => cells[k].ttl = Never

\* The engine keys of every user key are kept in step by each command.
KeysAreWhole == HeadersCountElements /\ IndexesAgree /\ NoStrayDeadlines

-----------------------------------------------------------------------------
\* The data types of KeyTypes: their values, read through headers and elements.
ValueOf(c) ==
  CASE c.kv.ty = "none" -> <<"none">>
    [] c.kv.ty = "string" -> <<"string", c.kv.val>>
    [] c.kv.ty = "hash" -> <<"hash", c.els["h"]>>
    [] c.kv.ty = "list" -> <<"list", ItemsOf(c)>>
    [] c.kv.ty = "set" -> <<"set", {c.els["t"][p] : p \in DOMAIN c.els["t"]}>>
    [] OTHER -> <<"zset", c.els["m"]>>

Types == INSTANCE KeyTypes WITH
  store <- [k \in Keys |-> ValueOf(cells[k])], deadline <- [k \in Keys |-> cells[k].ttl]

\* Every command does to the value what its type promises and to no other key.
ImplementsKeyTypes == Types!Spec
=============================================================================
