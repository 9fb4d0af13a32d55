------------------------------ MODULE Streams ------------------------------
(* Redis streams over the keyspace executor: one stream, one consumer group. *)
(* Every command is one transaction, hence one action; a blocked XREADGROUP  *)
(* is a thread that polls in two.  Entry IDs are numbers in their order, 0   *)
(* is 0-0; fields, delivery counts and times are left out, and an idle-time  *)
(* filter may let any pending entry through.                                 *)
EXTENDS Integers, FiniteSets, FiniteSetsExt, Functions

CONSTANTS
  Consumers,   \* names consumers use
  Blockers,    \* those of them that also block in a read
  MaxId,       \* greatest entry ID
  MaxAdded     \* bound on entries ever added

Id == 1..MaxId
None == [none |-> TRUE]
Unknown == -1
Quiet == [at |-> "quiet", seen |-> Unknown, now |-> Unknown, undisturbed |-> TRUE]

VARIABLES
  stream,      \* the header and the entries, or None
  group,       \* last delivered ID and entries read, or None
  pel,         \* pending entries of the group and their owners
  cons,        \* consumers of the group
  wait,        \* what each consumer's blocked XREADGROUP is doing
  settled,     \* entries the group has no claim to: acknowledged, skipped, given up
  skewed       \* whether its position and its counter may have parted

vars == <<stream, group, pel, cons, wait, settled, skewed>>

Init ==
  /\ stream = None /\ group = None
  /\ pel = <<>> /\ cons = {}
  /\ wait = [c \in Blockers |-> Quiet]
  /\ settled = {} /\ skewed = FALSE

Exists == stream # None
HasGroup == Exists /\ group # None

Least(ids) == IF ids = {} THEN MaxId + 1 ELSE Min(ids)
FirstOf(n, ids) == {i \in ids : Cardinality({j \in ids : j < i}) < n}

(* Lag bookkeeping --------------------------------------------------------- *)

(* Can a deletion have left a gap at or after the ID?                        *)
HasTombstones(s, from) ==
  s.len # 0 /\ s.maxdel # 0 /\ Least(s.ids) <= s.maxdel /\ from <= s.maxdel

(* Entries read by a group that is before, or at, the first one.             *)
ReadBefore(s, id) == s.added - s.len
ReadUpTo(s, id) == s.added - s.len + IF id = Least(s.ids) THEN 1 ELSE 0

EstimateRead(s, id) ==
  CASE s.added = 0 -> 0
    [] s.added # 0 /\ ((s.len = 0 /\ id <= s.last) \/ id = s.last) -> s.added
    [] s.added # 0 /\ id < s.last /\ s.len # 0 /\ s.maxdel < Least(s.ids) /\ id <= Least(s.ids) ->
         ReadUpTo(s, id)
    [] OTHER -> Unknown

(* The counter after one more entry was handed to the group.                 *)
Counted(s, read, id) ==
  IF read # Unknown /\ ~HasTombstones(s, id) THEN read + 1
  ELSE IF s.added > 0 THEN EstimateRead(s, id) ELSE read

CountedAll(s, read, ids) ==
  LET order[k \in 0..Cardinality(ids)] ==
        IF k = 0 THEN read
        ELSE Counted(s, order[k - 1], CHOOSE i \in ids : Cardinality({j \in ids : j <= i}) = k)
  IN  order[Cardinality(ids)]

Lag(s, g) ==
  IF s.added = 0 THEN 0
  ELSE IF g.read # Unknown /\ ~HasTombstones(s, g.last) THEN s.added - g.read
  ELSE LET r == EstimateRead(s, g.last) IN IF r = Unknown THEN Unknown ELSE s.added - r

(* The stream -------------------------------------------------------------- *)

NewStream == [ids |-> {}, len |-> 0, last |-> 0, added |-> 0, maxdel |-> 0]

(* Deleted with a trim, oldest first.  A trim does not move maxdel.          *)
TrimmedTo(s, victims) == [s EXCEPT !.ids = @ \ victims, !.len = @ - Cardinality(victims)]

(* XADD with an ID above the last one (an explicit one, or the clock's), and *)
(* a MAXLEN or MINID that removes the oldest n.  Approximate trims remove    *)
(* whole nodes: some number of the oldest, too.                              *)
XAdd(id, n) ==
  LET s == IF Exists THEN stream ELSE NewStream
      grown == [s EXCEPT !.ids = @ \cup {id}, !.len = @ + 1, !.added = @ + 1, !.last = id]
      victims == FirstOf(n, grown.ids)
  IN  /\ id > s.last /\ s.added < MaxAdded
      /\ stream' = TrimmedTo(grown, victims)
      /\ skewed' = (skewed \/ (group # None /\ \E i \in victims : i > group.last))
      /\ settled' = (settled \cup IF group # None /\ id <= group.last THEN {id} ELSE {}) \ victims
      /\ UNCHANGED <<group, pel, cons, wait>>

XTrim(n) ==
  /\ Exists /\ stream.ids # {}
  /\ LET victims == FirstOf(n, stream.ids)
     IN  /\ stream' = TrimmedTo(stream, victims)
         /\ skewed' = (skewed \/ (group # None /\ \E i \in victims : i > group.last))
         /\ settled' = settled \ victims
  /\ UNCHANGED <<group, pel, cons, wait>>

XDel(id) ==
  /\ Exists /\ id \in stream.ids
  /\ stream' = [stream EXCEPT !.ids = @ \ {id}, !.len = @ - 1, !.maxdel = IF id > @ THEN id ELSE @]
  /\ skewed' = (skewed \/ (group # None /\ id > group.last))
  /\ settled' = settled \ {id}
  /\ UNCHANGED <<group, pel, cons, wait>>

(* A blocked reader's stream was moved or removed under it.                 *)
Disturbed == [c \in Blockers |-> [wait[c] EXCEPT !.undisturbed = @ /\ wait[c].at = "quiet"]]

(* XSETID moves the last ID; under entries it may only go up.  Going down it *)
(* gives IDs the group is already past a second life.                        *)
XSetId(id) ==
  /\ Exists /\ (stream.len > 0 => id >= stream.last)
  /\ stream' = [stream EXCEPT !.last = id]
  /\ skewed' = (skewed \/ (group # None /\ group.last > id))
  /\ wait' = IF id < stream.last THEN Disturbed ELSE wait
  /\ UNCHANGED <<group, pel, cons, settled>>

(* DEL, or the deadline of the key.                                          *)
Del ==
  /\ Exists
  /\ stream' = None /\ group' = None /\ pel' = <<>> /\ cons' = {}
  /\ wait' = Disturbed /\ settled' = {} /\ skewed' = FALSE

(* The group --------------------------------------------------------------- *)

GroupAt(s, id) == [last |-> id, read |-> EstimateRead(s, id)]

(* XGROUP CREATE [MKSTREAM], at 0, at $ or at any ID.                        *)
XGroupCreate(id) ==
  /\ group = None
  /\ LET s == IF Exists THEN stream ELSE NewStream
     IN  /\ stream' = s /\ group' = GroupAt(s, id)
         /\ settled' = s.ids \cap 1..id /\ skewed' = (id > s.last)
  /\ pel' = <<>> /\ cons' = {}
  /\ wait' = Disturbed

XGroupSetId(id) ==
  /\ HasGroup
  /\ group' = GroupAt(stream, id)
  /\ settled' = (settled \cap 1..id) \cup {i \in stream.ids : group.last < i /\ i <= id}
  /\ skewed' = (id > stream.last)
  /\ wait' = Disturbed
  /\ UNCHANGED <<stream, pel, cons>>

XGroupDestroy ==
  /\ HasGroup
  /\ group' = None /\ pel' = <<>> /\ cons' = {}
  /\ wait' = Disturbed /\ settled' = {} /\ skewed' = FALSE
  /\ UNCHANGED stream

XGroupCreateConsumer(c) ==
  /\ HasGroup
  /\ cons' = cons \cup {c}
  /\ UNCHANGED <<stream, group, pel, wait, settled, skewed>>

OwnedBy(c) == {i \in DOMAIN pel : pel[i] = c}

(* What the consumer had pending is nobody's afterwards.                     *)
XGroupDelConsumer(c) ==
  /\ HasGroup /\ c \in cons
  /\ pel' = Restrict(pel, DOMAIN pel \ OwnedBy(c))
  /\ cons' = cons \ {c}
  /\ settled' = settled \cup (OwnedBy(c) \cap stream.ids)
  /\ UNCHANGED <<stream, group, wait, skewed>>

(* Reading ----------------------------------------------------------------- *)

New == {i \in stream.ids : i > group.last}

(* XREADGROUP ... STREAMS k >: the next n entries go to c, and to nobody     *)
(* else unless they are claimed; with NOACK they are settled at once.        *)
AdvancedToEnd(got) == stream.last
Advanced(got) == Max(got)

Deliver(c, n, noack) ==
  LET got == FirstOf(n, New)
  IN  /\ cons' = cons \cup {c}
      /\ IF got = {} THEN UNCHANGED <<group, pel, settled>>
         ELSE /\ group' = [last |-> Advanced(got), read |-> CountedAll(stream, group.read, got)]
              /\ IF noack THEN settled' = settled \cup got /\ UNCHANGED pel
                 ELSE /\ pel' = [i \in DOMAIN pel \cup got |-> IF i \in got THEN c ELSE pel[i]]
                      /\ settled' = settled \ got
      /\ UNCHANGED <<stream, skewed>>

XReadGroup(c, n, noack) == HasGroup /\ Deliver(c, n, noack) /\ UNCHANGED wait

XAck(id) ==
  /\ HasGroup /\ id \in DOMAIN pel
  /\ pel' = Restrict(pel, DOMAIN pel \ {id})
  /\ settled' = settled \cup ({id} \cap stream.ids)
  /\ UNCHANGED <<stream, group, cons, wait, skewed>>

(* XCLAIM of one ID and XAUTOCLAIM's treatment of each: the entry changes    *)
(* hands, and what was deleted from the stream leaves the list.  FORCE makes *)
(* a pending entry of one that is not, even of one not delivered yet.        *)
XClaim(c, id, force) ==
  /\ HasGroup /\ cons' = cons \cup {c}
  /\ CASE id \notin DOMAIN pel /\ ~(force /\ id \in stream.ids) -> UNCHANGED <<pel, settled>>
       [] id \in DOMAIN pel /\ id \notin stream.ids ->
            pel' = Restrict(pel, DOMAIN pel \ {id}) /\ UNCHANGED settled
       [] OTHER -> /\ pel' = [i \in DOMAIN pel \cup {id} |-> IF i = id THEN c ELSE pel[i]]
                   /\ settled' = settled \ {id}
  /\ UNCHANGED <<stream, group, wait, skewed>>

(* XCLAIM ... LASTID, and so what lies before it is skipped.                 *)
XClaimLastId(c, id) ==
  /\ HasGroup /\ id > group.last
  /\ group' = [group EXCEPT !.last = id]
  /\ settled' = settled \cup ({i \in stream.ids : group.last < i /\ i <= id} \ DOMAIN pel)
  /\ cons' = cons \cup {c}
  /\ skewed' = TRUE
  /\ UNCHANGED <<stream, pel, wait>>

(* XAUTOCLAIM: up to n pending entries that still exist, any of which may be *)
(* too young; the deleted ones among those looked at leave the list.         *)
XAutoClaim(c, n) ==
  /\ HasGroup /\ cons' = cons \cup {c}
  /\ \E old \in SUBSET (DOMAIN pel \cap stream.ids) :
       LET mine == FirstOf(n, old)
           gone == {i \in DOMAIN pel \ stream.ids :
                      Cardinality(mine) < n \/ i < Max(mine)}
       IN  pel' = [i \in DOMAIN pel \ gone |-> IF i \in mine THEN c ELSE pel[i]]
  /\ UNCHANGED <<stream, group, wait, settled, skewed>>

(* A blocked read ---------------------------------------------------------- *)

LastId == IF Exists THEN stream.last ELSE 0

BlockFromNow(c) ==
  /\ wait[c].at = "quiet"
  /\ wait' = [wait EXCEPT ![c] = [Quiet EXCEPT !.at = "poll", !.seen = LastId]]
  /\ UNCHANGED <<stream, group, pel, cons, settled, skewed>>

Block(c) ==
  /\ wait[c].at = "quiet"
  /\ wait' = [wait EXCEPT ![c] = [Quiet EXCEPT !.at = "poll"]]
  /\ UNCHANGED <<stream, group, pel, cons, settled, skewed>>

(* The last ID is read in a transaction of its own, before the command runs. *)
Peek(c) ==
  /\ wait[c].at = "poll"
  /\ LastId # wait[c].seen
  /\ wait' = [wait EXCEPT ![c].at = "run", ![c].now = LastId]
  /\ UNCHANGED <<stream, group, pel, cons, settled, skewed>>

(* NOGROUP and data are answered; nothing to deliver means another round,    *)
(* and the ID that is remembered was read before the command ran.            *)
Rerun(c) ==
  /\ wait[c].at = "run"
  /\ IF HasGroup
     THEN /\ Deliver(c, 1, FALSE)
          /\ wait' = [wait EXCEPT ![c] = IF New # {} THEN Quiet
                                         ELSE [@ EXCEPT !.at = "poll", !.seen = wait[c].now, !.now = Unknown]]
     ELSE wait' = [wait EXCEPT ![c] = Quiet] /\ UNCHANGED <<stream, group, pel, cons, settled, skewed>>

Poll(c) == Peek(c) \/ Rerun(c)

Next ==
  \/ \E id \in Id : \/ \E n \in 0..1 : XAdd(id, n)
                    \/ XDel(id) \/ XAck(id)
                    \/ \E c \in Consumers, force \in BOOLEAN : XClaim(c, id, force)
                    \/ \E c \in Consumers : XClaimLastId(c, id)
  \/ \E id \in 0..MaxId : XSetId(id) \/ XGroupCreate(id) \/ XGroupSetId(id)
  \/ XTrim(1) \/ Del \/ XGroupDestroy
  \/ \E c \in Consumers : \/ XGroupCreateConsumer(c) \/ XGroupDelConsumer(c)
                          \/ \E n \in 1..2, noack \in BOOLEAN : XReadGroup(c, n, noack)
                          \/ XAutoClaim(c, 1)
  \/ \E c \in Blockers : Block(c) \/ Poll(c)

Fairness == \A c \in Blockers : WF_vars(Poll(c))
Spec == Init /\ [][Next]_vars /\ Fairness

(* Properties -------------------------------------------------------------- *)

(* An entry the group is past is pending at some consumer unless it was      *)
(* acknowledged, read with NOACK, skipped or given up with its consumer: no  *)
(* message falls between > and the pending list (stream.rs, xread, xclaim,   *)
(* xautoclaim, xgroup).                                                      *)
NothingSlipsThrough ==
  HasGroup => \A i \in stream.ids : i <= group.last => i \in DOMAIN pel \cup settled

(* When XINFO GROUPS reports a lag, it is the number of entries the group    *)
(* has still to read, unless one of them was removed or the position was set *)
(* beyond the stream's end or by XCLAIM (estimate_read, has_tombstones, lag  *)
(* of stream.rs; the counter is an estimate there, as in Redis 7).           *)
LagIsExact ==
  HasGroup /\ stream.len > 0 /\ ~skewed /\ Lag(stream, group) # Unknown
    => Lag(stream, group) = Cardinality(New)

(* A consumer blocked in XREADGROUP is served when there is something for    *)
(* it, unless another takes it or the group was moved under it (stream_block *)
(* of main.rs, which reruns the command only when a last ID moved).          *)
BlockedReadersAreServed ==
  \A c \in Blockers :
    (wait[c].at # "quiet" /\ wait[c].undisturbed /\ HasGroup /\ New # {})
      ~> (wait[c].at = "quiet" \/ ~wait[c].undisturbed \/ ~HasGroup \/ New = {})
=============================================================================
