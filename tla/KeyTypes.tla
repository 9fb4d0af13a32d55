------------------------------ MODULE KeyTypes ------------------------------
(***************************************************************************)
(* What the data types promise: a key holds nothing, a string, a hash, a    *)
(* list, a set or a sorted set, perhaps with a deadline, and each command   *)
(* does to that value what its name says.  Nothing is known here of headers *)
(* and element keys.                                                        *)
(***************************************************************************)
EXTENDS Integers, Sequences, SequencesExt

CONSTANTS Keys, Members, Scores, Ints, Text, Never, Deadlines

VARIABLES store, deadline, now

\* A value and its type.
Nothing == <<"none">>
Of(ty, v) == <<ty, v>>

\* An empty collection is no value.
Hash(f) == IF DOMAIN f = {} THEN Nothing ELSE Of("hash", f)
List(s) == IF s = <<>> THEN Nothing ELSE Of("list", s)
Collected(S) == IF S = {} THEN Nothing ELSE Of("set", S)
Sorted(f) == IF DOMAIN f = {} THEN Nothing ELSE Of("zset", f)

\* The value of a key now, a passed deadline counting as removal.
Value(k) == IF deadline[k] <= now THEN Nothing ELSE store[k]
Type(k) == Value(k)[1]
Due(k) == IF deadline[k] <= now THEN Never ELSE deadline[k]

\* The contents of a key as a given type, empty if there is nothing.
Fields(k) == IF Type(k) = "hash" THEN Value(k)[2] ELSE <<>>
Items(k) == IF Type(k) = "list" THEN Value(k)[2] ELSE <<>>
Set(k) == IF Type(k) = "set" THEN Value(k)[2] ELSE {}
Ranks(k) == IF Type(k) = "zset" THEN Value(k)[2] ELSE <<>>
Holds(k, ty) == Type(k) \in {"none", ty}

\* New values and deadlines for some keys; nothing has no deadline.
Now(values, deadlines) ==
  /\ store' = [k \in Keys |-> IF k \in DOMAIN values THEN values[k] ELSE store[k]]
  /\ deadline' = [k \in Keys |-> IF k \notin DOMAIN values THEN deadline[k]
                                 ELSE IF values[k] = Nothing THEN Never ELSE deadlines[k]]
  /\ UNCHANGED now
Becomes(k, v, t) == Now([x \in {k} |-> v], [x \in {k} |-> t])
Change(k, v) == Becomes(k, v, Due(k))

Init ==
  /\ store = [k \in Keys |-> Nothing] /\ deadline = [k \in Keys |-> Never]
  /\ now = 0

\* Time passes, and what has expired may be removed at any time.
Tick == now' = now + 1 /\ UNCHANGED <<store, deadline>>
Expired(k) == deadline[k] <= now /\ Becomes(k, Nothing, Never)

SetString(k) == \E v \in Ints \cup {Text}, t \in {now + d : d \in Deadlines} \cup {Never, Due(k)} : Becomes(k, Of("string", v), t)
Increment(k) == \E i \in Ints : Value(k) \in {Nothing, Of("string", i)} /\ Change(k, Of("string", IF Value(k) = Nothing THEN 1 ELSE i + 1))
Delete(k) == Becomes(k, Nothing, Never)
Rename(k, l) ==
  /\ k # l /\ Value(k) # Nothing
  /\ Now([x \in {k, l} |-> IF x = l THEN Value(k) ELSE Nothing], [x \in {k, l} |-> IF x = l THEN Due(k) ELSE Never])
SetDeadline(k) == Value(k) # Nothing /\ \E t \in {now + d : d \in Deadlines} \cup {Never} : Becomes(k, Value(k), t)

PutField(k) == Holds(k, "hash") /\ \E f, v \in Members : Change(k, Hash((f :> v) @@ Fields(k)))
DropFields(k) == Holds(k, "hash") /\ \E S \in SUBSET Members : Change(k, Hash(Restrict(Fields(k), DOMAIN Fields(k) \ S)))

PushItems(k) ==
  /\ Holds(k, "list")
  /\ \E vs \in BoundedSeq(Members, 2) : Change(k, List(Items(k) \o vs)) \/ Change(k, List(Reverse(vs) \o Items(k)))
\* What LPOP, RPOP and LTRIM leave is a part of the list, what LREM leaves has
\* only items equal to one taken out of it.
CutItems(k) == \E i \in 1..Len(Items(k)) + 1, j \in 0..Len(Items(k)) : Holds(k, "list") /\ Change(k, List(SubSeq(Items(k), i, j)))
DropItems(k) ==
  /\ Holds(k, "list")
  /\ \E v \in Members, I \in SUBSET DOMAIN Items(k) :
       /\ \A i \in I : Items(k)[i] = v
       /\ Change(k, List(LET kept == SelectSeq([i \in DOMAIN Items(k) |-> i], LAMBDA i : i \notin I)
                         IN  [i \in DOMAIN kept |-> Items(k)[kept[i]]]))
PutItem(k) ==
  /\ Items(k) # <<>>
  /\ \E i \in 1..Len(Items(k)) + 1, v \in Members :
       Change(k, List(InsertAt(Items(k), i, v))) \/ (i <= Len(Items(k)) /\ Change(k, List([Items(k) EXCEPT ![i] = v])))
MoveItem(k, l) ==
  /\ Items(k) # <<>> /\ Holds(l, "list")
  /\ \E fromLeft, toLeft \in BOOLEAN :
       LET v == IF fromLeft THEN Head(Items(k)) ELSE Last(Items(k))
           rest == IF fromLeft THEN Tail(Items(k)) ELSE Front(Items(k))
           to == IF k = l THEN rest ELSE Items(l)
           moved == IF toLeft THEN <<v>> \o to ELSE Append(to, v)
       IN  Now([x \in {k, l} |-> IF x = l THEN List(moved) ELSE List(rest)],
               [x \in {k, l} |-> IF x = l /\ rest = <<>> /\ k = l THEN Never ELSE Due(x)])

ChangeSet(k) == Holds(k, "set") /\ \E S \in SUBSET Members : Change(k, Collected(S))
StoreSet(k) ==
  \E i, j \in Keys : /\ Holds(i, "set") /\ Holds(j, "set")
                     /\ \E S \in {Set(i) \cap Set(j), Set(i) \cup Set(j), Set(i) \ Set(j)} :
                          Now([x \in {k, i, j} |-> IF x = k THEN Collected(S) ELSE Value(x)], [x \in {k, i, j} |-> IF x = k THEN Never ELSE Due(x)])
MoveMember(k, l) ==
  /\ k # l /\ Holds(l, "set")
  /\ \E m \in Set(k) : Now([x \in {k, l} |-> Collected(IF x = k THEN Set(k) \ {m} ELSE Set(l) \cup {m})], [x \in {k, l} |-> Due(x)])

PutScore(k) == Holds(k, "zset") /\ \E m \in Members, s \in Scores : Change(k, Sorted((m :> s) @@ Ranks(k)))
DropScores(k) == Holds(k, "zset") /\ \E S \in SUBSET Members : Change(k, Sorted(Restrict(Ranks(k), DOMAIN Ranks(k) \ S)))

Next ==
  \/ Tick
  \/ \E k \in Keys :
       \/ Expired(k) \/ SetString(k) \/ Increment(k) \/ Delete(k) \/ SetDeadline(k)
       \/ PutField(k) \/ DropFields(k)
       \/ PushItems(k) \/ CutItems(k) \/ DropItems(k) \/ PutItem(k)
       \/ ChangeSet(k) \/ StoreSet(k) \/ PutScore(k) \/ DropScores(k)
       \/ \E l \in Keys : Rename(k, l) \/ MoveItem(k, l) \/ MoveMember(k, l)

Spec == Init /\ [][Next]_<<store, deadline, now>>
=============================================================================
