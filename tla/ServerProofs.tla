---------------------------- MODULE ServerProofs ----------------------------
(***************************************************************************)
(* What the server's shared tables keep, for any publishers, consumers,    *)
(* limits and bounds: no subscription is lost silently (Broker); no entry  *)
(* of a stream slips between its group and the pending list, and a lag     *)
(* that is reported counts the entries still to read (Streams); the        *)
(* mirrors of the keyspace agree with the log until two commands meet      *)
(* (ExpiryMirror).  The instances are those the run of MCServer checks.    *)
(***************************************************************************)
EXTENDS MCServer, Integers, Sequences, FiniteSets, SequenceTheorems, FiniteSetTheorems,
        WellFoundedInduction, TLAPS

-----------------------------------------------------------------------------
(* The broker.                                                             *)

\* The steps a publisher may have left.
Task == {"send", "drop"} \X {"channels", "patterns", "socket"}
Socket == <<"drop", "socket">>

\* An eviction that has begun ends at the socket.
EvictionsFinish ==
  /\ pub \in [Publishers -> Seq(Task)]
  /\ \A p \in Publishers : \A i \in DOMAIN pub[p] :
       pub[p][i][1] = "drop" => pub[p][Len(pub[p])] = Socket

\* A session that may hold subscriptions has a handle in the broker, unless its
\* socket is shut, and the sending end of its queue; one that has no sender left,
\* or serves ordinary commands, has no subscription.
SessionHolds ==
  /\ shut \in BOOLEAN /\ handle \in BOOLEAN /\ sender \in BOOLEAN
  /\ session \in {"mode", "reply"} => (handle \/ shut) /\ sender
  /\ session = "commands" \/ (session \in {"closing", "resuming"} /\ ~sender) => mine = {}

BrokerInv == EvictionsFinish /\ SessionHolds /\ NoSilentLoss

\* A publisher's next step, and what is left after it.
LEMMA NextTask ==
  ASSUME EvictionsFinish, NEW p \in Publishers, pub[p] # <<>>
  PROVE  /\ Head(pub[p]) \in Task /\ Head(pub[p]) = pub[p][1]
         /\ Tail(pub[p]) \in Seq(Task)
         /\ Len(pub[p]) \in Nat \ {0} /\ Len(Tail(pub[p])) = Len(pub[p]) - 1
         /\ \A i \in 1..Len(Tail(pub[p])) : Tail(pub[p])[i] = pub[p][i + 1]
<1>1. pub[p] \in Seq(Task)
  BY DEF EvictionsFinish
<1>. QED  BY <1>1, HeadTailProperties, EmptySeq

\* A publisher takes a step: what was left of an eviction is still left, but
\* for the step that shuts the socket.
LEMMA StepDone ==
  ASSUME EvictionsFinish, NEW p \in Publishers, pub[p] # <<>>,
         pub' = [pub EXCEPT ![p] = Tail(@)]
  PROVE  /\ EvictionsFinish'
         /\ Head(pub[p]) # Socket => (B!BeingEvicted /\ handle' = handle => B!BeingEvicted')
         /\ Head(pub[p])[1] = "drop" /\ Head(pub[p]) # Socket /\ handle' => B!BeingEvicted'
<1>. DEFINE t == Tail(pub[p])
<1>1. /\ t \in Seq(Task) /\ Len(pub[p]) \in Nat \ {0} /\ Len(t) = Len(pub[p]) - 1
      /\ \A i \in 1..Len(t) : t[i] = pub[p][i + 1]
      /\ DOMAIN pub[p] = 1..Len(pub[p]) /\ DOMAIN t = 1..Len(t)
  BY NextTask, LenProperties DEF EvictionsFinish
<1>2. pub'[p] = t /\ \A q \in Publishers \ {p} : pub'[q] = pub[q]
  BY DEF EvictionsFinish
<1>. HIDE DEF t
<1>3. EvictionsFinish'
  <2>1. pub' \in [Publishers -> Seq(Task)]
    BY <1>1, <1>2 DEF EvictionsFinish, t
  <2>2. ASSUME NEW i \in 1..Len(t), t[i][1] = "drop" PROVE t[Len(t)] = Socket
    <3>1. pub[p][i + 1][1] = "drop" /\ i + 1 \in DOMAIN pub[p]
      BY <1>1, <2>2
    <3>2. pub[p][Len(pub[p])] = Socket
      BY <3>1 DEF EvictionsFinish
    <3>. QED  BY <1>1, <3>2
  <2>. QED  BY <1>1, <1>2, <2>1, <2>2 DEF EvictionsFinish
<1>4. ASSUME Head(pub[p]) # Socket, NEW q \in Publishers, NEW i \in DOMAIN pub[q],
             pub[q][i] = Socket
      PROVE  \E r \in Publishers : \E j \in DOMAIN pub'[r] : pub'[r][j] = Socket
  <2>1. CASE q # p
    BY <1>2, <1>4, <2>1
  <2>2. CASE q = p
    <3>1. i # 1
      BY <1>4, <2>2, NextTask
    <3>2. i - 1 \in 1..Len(t) /\ t[i - 1] = Socket
      BY <1>1, <1>4, <2>2, <3>1
    <3>. QED  BY <1>1, <1>2, <3>2
  <2>. QED  BY <2>1, <2>2
<1>5. ASSUME Head(pub[p]) # Socket, B!BeingEvicted, handle' = handle PROVE B!BeingEvicted'
  <2>1. PICK q \in Publishers : \E i \in DOMAIN pub[q] : pub[q][i] = Socket
    BY <1>5 DEF B!BeingEvicted, Socket
  <2>2. \E r \in Publishers : \E j \in DOMAIN pub'[r] : pub'[r][j] = Socket
    BY <1>4, <1>5, <2>1
  <2>3. handle'
    BY <1>5 DEF B!BeingEvicted
  <2>. QED  BY <2>2, <2>3 DEF B!BeingEvicted, Socket
<1>6. ASSUME Head(pub[p])[1] = "drop", Head(pub[p]) # Socket, handle' PROVE B!BeingEvicted'
  <2>1. pub[p][Len(pub[p])] = Socket /\ Len(pub[p]) \in DOMAIN pub[p]
    BY <1>1, <1>6, NextTask DEF EvictionsFinish
  <2>. QED  BY <1>4, <1>6, <2>1 DEF B!BeingEvicted, Socket
<1>. QED  BY <1>3, <1>5, <1>6

\* A publisher begins or sends: it may ask for an eviction, and forgets none.
LEMMA SendDone ==
  ASSUME BrokerInv, NEW p \in Publishers, B!Publish(p) \/ \E t \in B!Tables : B!Send(p, t)
  PROVE  BrokerInv'
<1>1. UNCHANGED <<table, handle, shut, session, mine, sender>>
  BY DEF B!Publish, B!Send, B!tables, B!connection
<1>2. CASE B!Publish(p)
  <2>1. pub'[p] = << <<"send", "channels">>, <<"send", "patterns">> >>
        /\ pub[p] = <<>> /\ \A q \in Publishers \ {p} : pub'[q] = pub[q]
    BY <1>2 DEF B!Publish, BrokerInv, EvictionsFinish
  <2>2. pub' \in [Publishers -> Seq(Task)]
    <3>1. <<"send", "channels">> \in Task /\ <<"send", "patterns">> \in Task
      BY DEF Task
    <3>2. << <<"send", "channels">>, <<"send", "patterns">> >> \in Seq(Task)
      BY <3>1
    <3>. QED  BY <1>2, <3>2 DEF B!Publish, BrokerInv, EvictionsFinish
  <2>3. \A i \in DOMAIN pub'[p] : pub'[p][i][1] # "drop"
    BY <2>1
  <2>4. EvictionsFinish'
    BY <2>1, <2>2, <2>3 DEF BrokerInv, EvictionsFinish
  <2>5. B!BeingEvicted => B!BeingEvicted'
    <3>1. DOMAIN pub[p] = {}
      BY <2>1
    <3>. QED  BY <1>1, <2>1, <3>1 DEF B!BeingEvicted
  <2>. QED  BY <1>1, <2>4, <2>5 DEF BrokerInv, SessionHolds, NoSilentLoss, B!NoSilentLoss
<1>3. ASSUME NEW t \in B!Tables, B!Send(p, t) PROVE BrokerInv'
  <2>. DEFINE rest == Tail(pub[p])
  <2>0. pub[p] # <<>> /\ Head(pub[p]) = <<"send", t>>
    BY <1>3 DEF B!Send
  <2>1. CASE pub' = [pub EXCEPT ![p] = rest]
    <3>0. Head(pub[p]) # Socket
      BY <2>0 DEF Socket
    <3>1. EvictionsFinish' /\ (B!BeingEvicted => B!BeingEvicted')
      BY <1>1, <2>0, <2>1, <3>0, StepDone DEF BrokerInv
    <3>. QED  BY <1>1, <3>1 DEF BrokerInv, SessionHolds, NoSilentLoss, B!NoSilentLoss
  <2>2. CASE pub' = [pub EXCEPT ![p] = rest \o B!Eviction]
    <3>0. rest \in Seq(Task) /\ B!Eviction \in Seq(Task) /\ Len(B!Eviction) = 3
          /\ B!Eviction[3] = Socket
      <4>1. <<"drop", "channels">> \in Task /\ <<"drop", "patterns">> \in Task /\ Socket \in Task
        BY DEF Task, Socket
      <4>. QED  BY <2>0, <4>1, NextTask DEF BrokerInv, B!Eviction, Socket
    <3>. HIDE DEF rest
    <3>. DEFINE new == rest \o B!Eviction
    <3>a. Len(rest) \in Nat
      BY <3>0, LenProperties
    <3>b. ASSUME NEW ev \in Seq(Task)
          PROVE  /\ rest \o ev \in Seq(Task) /\ Len(rest \o ev) = Len(rest) + Len(ev)
                 /\ \A i \in 1..Len(rest) + Len(ev) :
                      (rest \o ev)[i] = IF i <= Len(rest) THEN rest[i] ELSE ev[i - Len(rest)]
      <4>1. rest \in Seq(Task)
        BY <3>0
      <4>. QED  BY <4>1, ConcatProperties
    <3>c. /\ new \in Seq(Task) /\ Len(new) = Len(rest) + 3
          /\ \A i \in 1..Len(rest) + 3 : new[i] = IF i <= Len(rest) THEN rest[i] ELSE B!Eviction[i - Len(rest)]
      BY <3>0, <3>b DEF new
    <3>d. Len(rest) + 3 \in 1..Len(rest) + 3 /\ ~(Len(rest) + 3 <= Len(rest))
          /\ Len(rest) + 3 - Len(rest) = 3
      BY <3>a
    <3>1. new \in Seq(Task) /\ Len(new) = Len(rest) + 3 /\ new[Len(new)] = Socket
          /\ Len(rest) \in Nat
      BY <3>0, <3>a, <3>c, <3>d
    <3>. HIDE DEF new
    <3>2. pub'[p] = new /\ \A q \in Publishers \ {p} : pub'[q] = pub[q]
      BY <2>2 DEF BrokerInv, EvictionsFinish, new
    <3>3. EvictionsFinish'
      BY <2>2, <3>1, <3>2 DEF BrokerInv, EvictionsFinish, new
    <3>4. Len(new) \in DOMAIN pub'[p]
      BY <3>1, <3>2, LenProperties
    <3>5. handle => B!BeingEvicted'
      BY <1>1, <3>1, <3>2, <3>4 DEF B!BeingEvicted, Socket
    <3>6. session \in {"mode", "reply"} => shut' \/ B!BeingEvicted'
      BY <1>1, <3>5 DEF BrokerInv, SessionHolds
    <3>. QED  BY <1>1, <3>3, <3>6 DEF BrokerInv, SessionHolds, NoSilentLoss, B!NoSilentLoss
  <2>3. pub' = [pub EXCEPT ![p] = rest \o <<>>] => pub' = [pub EXCEPT ![p] = rest]
    BY <2>0, NextTask, ConcatEmptySeq DEF BrokerInv
  <2>. QED  BY <1>3, <2>1, <2>2, <2>3 DEF B!Send
<1>. QED  BY <1>2, <1>3

\* A publisher takes the connection out of a table, or shuts its socket.
LEMMA EvictDone ==
  ASSUME BrokerInv, NEW p \in Publishers,
         B!EvictSocket(p) \/ \E t \in B!Tables : B!EvictFrom(p, t)
  PROVE  BrokerInv'
<1>1. CASE B!EvictSocket(p)
  <2>1. EvictionsFinish'
    BY <1>1, StepDone DEF B!EvictSocket, BrokerInv
  <2>2. shut' = (shut \/ handle) /\ handle' = FALSE /\ UNCHANGED <<table, session, mine, sender>>
    BY <1>1 DEF B!EvictSocket, B!connection
  <2>. QED  BY <2>1, <2>2 DEF BrokerInv, SessionHolds, NoSilentLoss, B!NoSilentLoss
<1>2. ASSUME NEW t \in B!Tables, B!EvictFrom(p, t) PROVE BrokerInv'
  <2>1. UNCHANGED <<handle, shut, session, mine, sender>>
    BY <1>2 DEF B!EvictFrom, B!connection
  <2>2. Head(pub[p])[1] = "drop" /\ Head(pub[p]) # Socket /\ pub[p] # <<>>
    BY <1>2 DEF B!EvictFrom, B!Tables, Socket
  <2>3. pub' = [pub EXCEPT ![p] = Tail(@)] /\ EvictionsFinish
    BY <1>2 DEF B!EvictFrom, BrokerInv
  <2>4. EvictionsFinish'
    BY <2>2, <2>3, StepDone
  <2>5. handle' => B!BeingEvicted'
    BY <2>2, <2>3, StepDone
  <2>. QED  BY <2>1, <2>4, <2>5 DEF BrokerInv, SessionHolds, NoSilentLoss, B!NoSilentLoss
<1>. QED  BY <1>1, <1>2

\* The session's own steps, the forwarder's and the client's.
LEMMA SessionDone ==
  ASSUME BrokerInv, UNCHANGED pub,
         \/ B!Enter \/ B!Command \/ B!Leave \/ B!Session \/ B!Forwarder \/ B!Read
  PROVE  BrokerInv'
<1>1. EvictionsFinish' /\ (handle' = handle => B!BeingEvicted' = B!BeingEvicted)
  BY DEF BrokerInv, EvictionsFinish, B!BeingEvicted
<1>2. CASE B!Enter
  BY <1>1, <1>2 DEF B!Enter, BrokerInv, SessionHolds, NoSilentLoss, B!NoSilentLoss
<1>3. CASE B!Command
  BY <1>1, <1>3 DEF B!Command, B!Refused, B!Subscribe, B!Unsubscribe, B!tables,
    BrokerInv, SessionHolds, NoSilentLoss, B!NoSilentLoss
<1>4. CASE B!Leave
  BY <1>1, <1>4 DEF B!Leave, B!tables, BrokerInv, SessionHolds, NoSilentLoss, B!NoSilentLoss
<1>5. CASE B!Reply
  BY <1>1, <1>5 DEF B!Reply, B!tables, BrokerInv, SessionHolds, NoSilentLoss, B!NoSilentLoss
<1>6. CASE B!CleanUpStep
  BY <1>1, <1>6 DEF B!CleanUpStep, B!CleanUp, B!Exiting, BrokerInv, SessionHolds, NoSilentLoss,
    B!NoSilentLoss
<1>7. CASE B!Deregister
  BY <1>1, <1>7 DEF B!Deregister, B!Exiting, BrokerInv, SessionHolds, NoSilentLoss, B!NoSilentLoss
<1>8. CASE B!Join
  BY <1>1, <1>8 DEF B!Join, B!Exiting, BrokerInv, SessionHolds, NoSilentLoss, B!NoSilentLoss
<1>9. CASE B!Forwarder \/ B!Read
  BY <1>1, <1>9 DEF B!Forwarder, B!Take, B!Write, B!Hangup, B!Read, B!tables,
    BrokerInv, SessionHolds, NoSilentLoss, B!NoSilentLoss
<1>. QED  BY <1>2, <1>3, <1>4, <1>5, <1>6, <1>7, <1>8, <1>9 DEF B!Session, B!First, B!Hear

\* The broker keeps its invariant.
THEOREM BrokerInvariance == B!Spec => []BrokerInv
<1>1. B!Init => BrokerInv
  <2>. SUFFICES ASSUME B!Init PROVE BrokerInv
    OBVIOUS
  <2>1. pub \in [Publishers -> Seq(Task)] /\ \A p \in Publishers : DOMAIN pub[p] = {}
    BY EmptySeq DEF B!Init
  <2>. QED  BY <2>1 DEF B!Init, BrokerInv, EvictionsFinish, SessionHolds, NoSilentLoss,
               B!NoSilentLoss
<1>2. BrokerInv /\ [B!Next]_(B!vars) => BrokerInv'
  <2>. SUFFICES ASSUME BrokerInv, [B!Next]_(B!vars) PROVE BrokerInv'
    OBVIOUS
  <2>1. CASE UNCHANGED B!vars
    BY <2>1 DEF B!vars, B!tables, B!connection, BrokerInv, EvictionsFinish, SessionHolds,
      NoSilentLoss, B!NoSilentLoss, B!BeingEvicted
  <2>2. CASE B!Enter \/ B!Command \/ B!Leave \/ B!Session \/ B!Forwarder \/ B!Read
    <3>1. UNCHANGED pub
      BY <2>2 DEF B!Enter, B!Command, B!Refused, B!Subscribe, B!Unsubscribe, B!Leave, B!Session,
        B!First, B!Reply, B!Hear, B!CleanUpStep, B!Deregister, B!Join, B!Forwarder, B!Take,
        B!Write, B!Hangup, B!Read
    <3>. QED  BY <2>2, <3>1, SessionDone
  <2>3. CASE \E p \in Publishers : B!Publish(p) \/ B!Publisher(p)
    BY <2>3, SendDone, EvictDone DEF B!Publisher
  <2>. QED  BY <2>1, <2>2, <2>3 DEF B!Next
<1>. QED  BY <1>1, <1>2, PTL DEF B!Spec

\* What a session believes it is subscribed to is in the tables, unless its
\* eviction is under way or its socket is shut: whichever publishers evict,
\* send and finish while the session subscribes, leaves and comes back.
THEOREM NoSubscriptionLost == B!Spec => []NoSilentLoss
<1>1. BrokerInv => NoSilentLoss
  BY DEF BrokerInv
<1>. QED  BY <1>1, BrokerInvariance, PTL
-----------------------------------------------------------------------------
(* The streams.                                                            *)

\* A stream's header has its fields and a group a position.
StreamShape ==
  /\ stream # S!None => /\ stream = [ids |-> stream.ids, len |-> stream.len, last |-> stream.last,
                                     added |-> stream.added, maxdel |-> stream.maxdel]
                        /\ stream.ids \subseteq S!Id
  /\ group # S!None => group = [last |-> group.last, read |-> group.read] /\ group.last \in 0..MaxId

StreamInv == StreamShape /\ NothingSlipsThrough

\* The streams count entries as this module does.
LEMMA SameSize == \A A : S!Cardinality(A) = Cardinality(A)
BY DEF S!Cardinality, Cardinality

\* A header, and what XADD and a trim make of one.
Header(ids, len, last, added, maxdel) ==
  [ids |-> ids, len |-> len, last |-> last, added |-> added, maxdel |-> maxdel]
IsHeader(s) == s = Header(s.ids, s.len, s.last, s.added, s.maxdel)

\* One more entry is last, and added.
LEMMA GrownHeader ==
  ASSUME NEW s, NEW id, IsHeader(s)
  PROVE  [s EXCEPT !.ids = @ \cup {id}, !.len = @ + 1, !.added = @ + 1, !.last = id]
           = Header(s.ids \cup {id}, s.len + 1, id, s.added + 1, s.maxdel)
<1>1. [s EXCEPT !.ids = @ \cup {id}] = Header(s.ids \cup {id}, s.len, s.last, s.added, s.maxdel)
  BY DEF Header, IsHeader
<1>2. [Header(s.ids \cup {id}, s.len, s.last, s.added, s.maxdel) EXCEPT !.len = s.len + 1]
        = Header(s.ids \cup {id}, s.len + 1, s.last, s.added, s.maxdel)
  BY DEF Header
<1>3. [Header(s.ids \cup {id}, s.len + 1, s.last, s.added, s.maxdel) EXCEPT !.added = s.added + 1]
        = Header(s.ids \cup {id}, s.len + 1, s.last, s.added + 1, s.maxdel)
  BY DEF Header
<1>4. [Header(s.ids \cup {id}, s.len + 1, s.last, s.added + 1, s.maxdel) EXCEPT !.last = id]
        = Header(s.ids \cup {id}, s.len + 1, id, s.added + 1, s.maxdel)
  BY DEF Header
<1>. QED  BY <1>1, <1>2, <1>3, <1>4

\* A trim leaves the IDs and the counters other than the length.
LEMMA TrimmedHeader ==
  ASSUME NEW s, NEW victims, IsHeader(s)
  PROVE  S!TrimmedTo(s, victims)
           = Header(s.ids \ victims, s.len - Cardinality(victims), s.last, s.added, s.maxdel)
<1>1. [s EXCEPT !.ids = @ \ victims] = Header(s.ids \ victims, s.len, s.last, s.added, s.maxdel)
  BY DEF Header, IsHeader
<1>2. [Header(s.ids \ victims, s.len, s.last, s.added, s.maxdel)
         EXCEPT !.len = s.len - S!Cardinality(victims)]
        = Header(s.ids \ victims, s.len - S!Cardinality(victims), s.last, s.added, s.maxdel)
  BY DEF Header
<1>3. S!TrimmedTo(s, victims)
        = Header(s.ids \ victims, s.len - S!Cardinality(victims), s.last, s.added, s.maxdel)
  BY <1>1, <1>2 DEF S!TrimmedTo
<1>. QED  BY <1>3, SameSize

\* A set of naturals with a bound has a greatest element.
LEMMA MaxIsThere ==
  ASSUME NEW A, A \subseteq S!Id, A # {}
  PROVE  S!Max(A) \in A /\ \A y \in A : y <= S!Max(A)
<1>. DEFINE T == {MaxId - x : x \in A}
<1>1. T \subseteq Nat /\ T # {}
  BY StreamAssumption DEF S!Id
<1>2. PICK m \in T : \A y \in T : ~ (<<y, m>> \in OpToRel(<, Nat))
  <2>. HIDE DEF T
  <2>. QED  BY <1>1, NatLessThanWellFounded, WFMin
<1>3. \A y \in T : ~ (y < m)
  BY <1>1, <1>2 DEF OpToRel
<1>4. PICK x \in A : m = MaxId - x
  OBVIOUS
<1>5. \A y \in A : x >= y
  BY <1>3, <1>4, StreamAssumption DEF S!Id
<1>. QED  BY <1>4, <1>5, StreamAssumption DEF S!Max, S!Id

\* What the first n of some entries are.
LEMMA FirstAre ==
  ASSUME NEW n, NEW A, NEW k
  PROVE  k \in S!FirstOf(n, A) <=> k \in A /\ Cardinality({j \in A : j < k}) < n
<1>1. k \in S!FirstOf(n, A) <=> k \in A /\ S!Cardinality({j \in A : j < k}) < n
  BY DEF S!FirstOf
<1>. QED  BY <1>1, SameSize

\* The first n of some entries go with every entry before one of them.
LEMMA FirstGoDown ==
  ASSUME NEW A, A \subseteq S!Id, NEW n \in Nat, NEW i \in A, NEW j \in S!FirstOf(n, A), i <= j
  PROVE  i \in S!FirstOf(n, A)
<1>. DEFINE before(k) == {y \in A : y < k}
<1>1. IsFiniteSet(A)
  <2>1. IsFiniteSet(S!Id)
    BY StreamAssumption, FS_Interval DEF S!Id
  <2>. QED  BY <2>1, FS_Subset
<1>2. j \in A /\ Cardinality(before(j)) < n
  BY FirstAre
<1>3. i \in Int /\ j \in Int /\ \A y \in A : y \in Int
  BY <1>2, StreamAssumption DEF S!Id
<1>4. before(i) \subseteq before(j) /\ before(j) \subseteq A
  <2>1. \A y \in A : y < i => y < j
    BY <1>3
  <2>. QED  BY <2>1
<1>5. IsFiniteSet(before(j)) /\ IsFiniteSet(before(i))
  BY <1>1, <1>4, FS_Subset
<1>6. Cardinality(before(i)) < n
  <2>. HIDE DEF before
  <2>1. Cardinality(before(i)) <= Cardinality(before(j))
    BY <1>4, <1>5, FS_Subset
  <2>. QED  BY <2>1, <1>2, <1>5, FS_CardinalityType
<1>. QED  BY <1>6, FirstAre

\* The first n of some entries are some of them.
LEMMA FirstAreSome == \A n, A : S!FirstOf(n, A) \subseteq A
BY DEF S!FirstOf

\* XADD, XTRIM, XDEL, XSETID and DEL: the stream changes, the group stays where
\* it is.
LEMMA StreamChanges ==
  ASSUME StreamInv,
         \/ \E id \in S!Id : S!XDel(id) \/ \E n \in 0..1 : S!XAdd(id, n)
         \/ \E id \in 0..MaxId : S!XSetId(id)
         \/ S!XTrim(1) \/ S!Del
  PROVE  StreamInv'
<1>1. ASSUME NEW id \in S!Id, NEW n \in 0..1, S!XAdd(id, n) PROVE StreamInv'
  <2>. DEFINE s == IF S!Exists THEN stream ELSE S!NewStream
              grown == [s EXCEPT !.ids = @ \cup {id}, !.len = @ + 1, !.added = @ + 1, !.last = id]
              victims == S!FirstOf(n, grown.ids)
  <2>1. s = [ids |-> s.ids, len |-> s.len, last |-> s.last, added |-> s.added, maxdel |-> s.maxdel]
        /\ s.ids \subseteq S!Id
    BY DEF StreamInv, StreamShape, S!Exists, S!NewStream
  <2>2. /\ stream' = S!TrimmedTo(grown, victims)
        /\ settled' = (settled \cup IF group # S!None
           /\ id <= group.last THEN {id} ELSE {}) \ victims
        /\ group' = group /\ pel' = pel
    BY <1>1 DEF S!XAdd
  <2>. HIDE DEF s
  <2>3. grown = Header(s.ids \cup {id}, s.len + 1, id, s.added + 1, s.maxdel)
    BY <2>1, GrownHeader DEF Header, IsHeader
  <2>. HIDE DEF grown, victims
  <2>4. stream' = [ids |-> (s.ids \cup {id}) \ victims, len |-> grown.len - Cardinality(victims),
                   last |-> id, added |-> s.added + 1, maxdel |-> s.maxdel]
    <3>1. /\ grown.ids = s.ids \cup {id} /\ grown.last = id /\ grown.added = s.added + 1
          /\ grown.maxdel = s.maxdel /\ grown.len = s.len + 1
      BY <2>3 DEF Header
    <3>2. IsHeader(grown)
      BY <2>3, <3>1 DEF IsHeader
    <3>3. S!TrimmedTo(grown, victims)
            = Header(grown.ids \ victims, grown.len - Cardinality(victims), grown.last,
            grown.added, grown.maxdel)
      BY <3>2, TrimmedHeader
    <3>. QED  BY <2>2, <3>1, <3>3 DEF Header
  <2>5. StreamShape'
    BY <2>1, <2>2, <2>4 DEF StreamInv, StreamShape
  <2>6. S!HasGroup' => group # S!None
    BY <2>2 DEF S!HasGroup
  <2>7. s.ids # {} => S!Exists
    BY DEF s, S!NewStream
  <2>8. stream'.ids = (s.ids \cup {id}) \ victims /\ (S!Exists => s.ids = stream.ids)
    BY <2>4 DEF s
  <2>. QED  BY <2>2, <2>5, <2>6, <2>7, <2>8 DEF StreamInv, NothingSlipsThrough,
               S!NothingSlipsThrough,
    S!HasGroup
<1>2. CASE S!XTrim(1)
  <2>. DEFINE victims == S!FirstOf(1, stream.ids)
  <2>1. stream' = S!TrimmedTo(stream, victims) /\ settled' = settled \ victims /\ group' = group
        /\ pel' = pel
        /\ stream # S!None
    BY <1>2 DEF S!XTrim, S!Exists
  <2>. HIDE DEF victims
  <2>2. stream' = [ids |-> stream.ids \ victims, len |-> stream.len - Cardinality(victims),
                   last |-> stream.last, added |-> stream.added, maxdel |-> stream.maxdel]
    BY <2>1, TrimmedHeader DEF Header, IsHeader, StreamInv, StreamShape
  <2>. QED  BY <2>1, <2>2 DEF StreamInv, StreamShape, NothingSlipsThrough, S!NothingSlipsThrough,
    S!HasGroup, S!Exists
<1>3. ASSUME NEW id \in S!Id, S!XDel(id) PROVE StreamInv'
  <2>1. /\ stream' = [stream EXCEPT !.ids = @ \ {id}, !.len = @ - 1,
           !.maxdel = IF id > @ THEN id ELSE @]
        /\ settled' = settled \ {id} /\ group' = group /\ pel' = pel /\ stream # S!None
    BY <1>3 DEF S!XDel, S!Exists
  <2>2. stream' = [ids |-> stream.ids \ {id}, len |-> stream.len - 1, last |-> stream.last,
                   added |-> stream.added,
                   maxdel |-> IF id > stream.maxdel THEN id ELSE stream.maxdel]
    BY <2>1 DEF StreamInv, StreamShape
  <2>. QED  BY <2>1, <2>2 DEF StreamInv, StreamShape, NothingSlipsThrough, S!NothingSlipsThrough,
    S!HasGroup, S!Exists
<1>4. ASSUME NEW id \in 0..MaxId, S!XSetId(id) PROVE StreamInv'
  <2>1. /\ stream' = [stream EXCEPT !.last = id]
        /\ settled' = settled /\ group' = group /\ pel' = pel /\ stream # S!None
    BY <1>4 DEF S!XSetId, S!Exists
  <2>2. stream' = [ids |-> stream.ids, len |-> stream.len, last |-> id,
                   added |-> stream.added, maxdel |-> stream.maxdel]
    BY <2>1 DEF StreamInv, StreamShape
  <2>. QED  BY <2>1, <2>2 DEF StreamInv, StreamShape, NothingSlipsThrough, S!NothingSlipsThrough,
    S!HasGroup, S!Exists
<1>5. CASE S!Del
  BY <1>5 DEF S!Del, StreamInv, StreamShape, NothingSlipsThrough, S!NothingSlipsThrough,
     S!HasGroup, S!Exists
<1>. QED  BY <1>1, <1>2, <1>3, <1>4, <1>5

\* XGROUP: the group's position is set, and what it skips is settled.
LEMMA GroupChanges ==
  ASSUME StreamInv,
         \/ \E id \in 0..MaxId : S!XGroupCreate(id) \/ S!XGroupSetId(id)
         \/ S!XGroupDestroy
         \/ \E c \in Consumers : S!XGroupCreateConsumer(c) \/ S!XGroupDelConsumer(c)
  PROVE  StreamInv'
<1>1. ASSUME NEW id \in 0..MaxId, S!XGroupCreate(id) PROVE StreamInv'
  <2>. DEFINE s == IF S!Exists THEN stream ELSE S!NewStream
  <2>1. stream' = s /\ group' = [last |-> id, read |-> S!EstimateRead(s, id)]
        /\ settled' = s.ids \cap 1..id
    BY <1>1 DEF S!XGroupCreate, S!GroupAt
  <2>2. s = [ids |-> s.ids, len |-> s.len, last |-> s.last, added |-> s.added, maxdel |-> s.maxdel]
        /\ s.ids \subseteq S!Id
    BY DEF StreamInv, StreamShape, S!Exists, S!NewStream
  <2>. HIDE DEF s
  <2>3. StreamShape'
    BY <2>1, <2>2 DEF StreamShape
  <2>4. \A i \in s.ids : i <= id => i \in s.ids \cap 1..id
    BY <2>2, StreamAssumption DEF S!Id
  <2>. QED  BY <2>1, <2>3, <2>4 DEF StreamInv, NothingSlipsThrough, S!NothingSlipsThrough
<1>2. ASSUME NEW id \in 0..MaxId, S!XGroupSetId(id) PROVE StreamInv'
  <2>1. /\ group' = [last |-> id, read |-> S!EstimateRead(stream, id)]
        /\ settled' = (settled \cap 1..id) \cup {i \in stream.ids : group.last < i /\ i <= id}
        /\ stream' = stream /\ pel' = pel /\ S!HasGroup
    BY <1>2 DEF S!XGroupSetId, S!GroupAt
  <2>2. StreamShape'
    BY <2>1 DEF StreamInv, StreamShape
  <2>3. ASSUME NEW i \in stream.ids, i <= id PROVE i \in DOMAIN pel \cup settled'
    <3>1. i \in 1..id /\ group.last \in Int /\ i \in Int
      BY <2>1, <2>3, StreamAssumption DEF StreamInv, StreamShape, S!HasGroup, S!Exists, S!Id
    <3>. QED  BY <2>1, <2>3, <3>1 DEF StreamInv, NothingSlipsThrough, S!NothingSlipsThrough
  <2>. QED  BY <2>1, <2>2, <2>3 DEF StreamInv, NothingSlipsThrough, S!NothingSlipsThrough
<1>3. CASE S!XGroupDestroy
  BY <1>3 DEF S!XGroupDestroy, StreamInv, StreamShape, NothingSlipsThrough,
     S!NothingSlipsThrough, S!HasGroup
<1>4. ASSUME NEW c \in Consumers, S!XGroupCreateConsumer(c) PROVE StreamInv'
  BY <1>4 DEF S!XGroupCreateConsumer, StreamInv, StreamShape, NothingSlipsThrough,
     S!NothingSlipsThrough,
    S!HasGroup, S!Exists
<1>5. ASSUME NEW c \in Consumers, S!XGroupDelConsumer(c) PROVE StreamInv'
  <2>1. /\ DOMAIN pel' = DOMAIN pel \ S!OwnedBy(c)
        /\ settled' = settled \cup (S!OwnedBy(c) \cap stream.ids) /\ stream' = stream
           /\ group' = group
    BY <1>5 DEF S!XGroupDelConsumer, S!Restrict
  <2>. QED  BY <2>1 DEF StreamInv, StreamShape, NothingSlipsThrough, S!NothingSlipsThrough,
               S!HasGroup, S!Exists
<1>. QED  BY <1>1, <1>2, <1>3, <1>4, <1>5

\* XREADGROUP and a blocked reader's: the first new entries go to the consumer,
\* and the group's position to the last of them.
LEMMA DeliverKeeps ==
  ASSUME StreamInv, S!HasGroup, NEW c, NEW n \in Nat, NEW noack \in BOOLEAN, S!Deliver(c, n, noack)
  PROVE  StreamInv'
<1>. DEFINE got == S!FirstOf(n, S!New)
<1>1. stream' = stream /\ S!New \subseteq stream.ids /\ S!New \subseteq S!Id /\ got \subseteq S!New
  BY FirstAreSome DEF S!Deliver, S!New, StreamInv, StreamShape, S!HasGroup, S!Exists
<1>2. CASE got = {}
  <2>1. group' = group /\ pel' = pel /\ settled' = settled
    BY <1>2 DEF S!Deliver
  <2>. QED  BY <1>1, <2>1 DEF StreamInv, StreamShape, NothingSlipsThrough, S!NothingSlipsThrough,
               S!HasGroup, S!Exists
<1>3. CASE got # {}
  <2>1. /\ group'.last = S!Max(got) /\ group' = [last |-> group'.last, read |-> group'.read]
        /\ DOMAIN pel' \cup settled' = DOMAIN pel \cup settled \cup got
    <3>1. group' = [last |-> S!Max(got), read |-> S!CountedAll(stream, group.read, got)]
      BY <1>3 DEF S!Deliver, S!Advanced
    <3>2. CASE noack
      BY <1>3, <3>1, <3>2 DEF S!Deliver
    <3>3. CASE ~noack
      <4>1. DOMAIN pel' = DOMAIN pel \cup got /\ settled' = settled \ got
        BY <1>3, <3>3 DEF S!Deliver
      <4>. QED  BY <3>1, <4>1
    <3>. QED  BY <3>2, <3>3
  <2>2. S!Max(got) \in got
    BY <1>1, <1>3, MaxIsThere
  <2>3. StreamShape'
    BY <1>1, <2>1, <2>2, StreamAssumption DEF StreamInv, StreamShape, S!Id
  <2>4. ASSUME NEW i \in stream.ids, i <= S!Max(got) PROVE i \in DOMAIN pel \cup settled \cup got
    <3>1. CASE i <= group.last
      BY <3>1 DEF StreamInv, NothingSlipsThrough, S!NothingSlipsThrough
    <3>2. CASE ~(i <= group.last)
      <4>1. i \in S!New
        BY <3>2, StreamAssumption DEF S!New, StreamInv, StreamShape, S!HasGroup, S!Exists, S!Id
      <4>. QED  BY <1>1, <2>2, <2>4, <4>1, FirstGoDown
    <3>. QED  BY <3>1, <3>2
  <2>. QED  BY <1>1, <2>1, <2>3, <2>4 DEF StreamInv, NothingSlipsThrough, S!NothingSlipsThrough
<1>. QED  BY <1>2, <1>3

\* XREADGROUP, XACK, XCLAIM and XAUTOCLAIM, and what a blocked reader does.
LEMMA ConsumersStep ==
  ASSUME StreamInv,
         \/ \E id \in S!Id : \/ S!XAck(id)
                             \/ \E c \in Consumers, force \in BOOLEAN : S!XClaim(c, id, force)
                             \/ \E c \in Consumers : S!XClaimLastId(c, id)
         \/ \E c \in Consumers : \/ \E n \in 1..2, noack \in BOOLEAN : S!XReadGroup(c, n, noack)
                                 \/ S!XAutoClaim(c, 1)
         \/ \E c \in Blockers : S!Block(c) \/ S!Poll(c)
  PROVE  StreamInv'
<1>1. ASSUME NEW id \in S!Id, S!XAck(id) PROVE StreamInv'
  <2>1. /\ DOMAIN pel' = DOMAIN pel \ {id} /\ settled' = settled \cup ({id} \cap stream.ids)
        /\ stream' = stream /\ group' = group
    BY <1>1 DEF S!XAck, S!Restrict
  <2>. QED  BY <2>1 DEF StreamInv, StreamShape, NothingSlipsThrough, S!NothingSlipsThrough,
               S!HasGroup, S!Exists
<1>2. ASSUME NEW id \in S!Id, NEW c \in Consumers, NEW force \in BOOLEAN, S!XClaim(c, id, force)
             PROVE StreamInv'
  <2>1. stream' = stream /\ group' = group
    BY <1>2 DEF S!XClaim
  <2>2. CASE id \notin DOMAIN pel /\ ~(force /\ id \in stream.ids)
    BY <1>2, <2>1, <2>2 DEF S!XClaim, StreamInv, StreamShape, NothingSlipsThrough,
       S!NothingSlipsThrough,
      S!HasGroup, S!Exists
  <2>3. CASE id \in DOMAIN pel /\ id \notin stream.ids
    <3>1. DOMAIN pel' = DOMAIN pel \ {id} /\ settled' = settled
      BY <1>2, <2>3 DEF S!XClaim, S!Restrict
    <3>. QED  BY <2>1, <2>3, <3>1 DEF StreamInv, StreamShape, NothingSlipsThrough,
                 S!NothingSlipsThrough,
           S!HasGroup, S!Exists
  <2>4. CASE ~(id \notin DOMAIN pel /\ ~(force /\ id \in stream.ids))
             /\ ~(id \in DOMAIN pel /\ id \notin stream.ids)
    <3>1. DOMAIN pel' = DOMAIN pel \cup {id} /\ settled' = settled \ {id}
      BY <1>2, <2>4 DEF S!XClaim
    <3>. QED  BY <2>1, <3>1 DEF StreamInv, StreamShape, NothingSlipsThrough, S!NothingSlipsThrough,
           S!HasGroup, S!Exists
  <2>. QED  BY <2>2, <2>3, <2>4
<1>3. ASSUME NEW id \in S!Id, NEW c \in Consumers, S!XClaimLastId(c, id) PROVE StreamInv'
  <2>1. /\ group' = [last |-> id, read |-> group.read] /\ stream' = stream /\ pel' = pel
        /\ settled' = settled \cup ({i \in stream.ids : group.last < i /\ i <= id} \ DOMAIN pel)
        /\ S!HasGroup /\ group.last \in Int /\ stream.ids \subseteq Int
    BY <1>3, StreamAssumption DEF S!XClaimLastId, StreamInv, StreamShape, S!HasGroup, S!Exists, S!Id
  <2>2. StreamShape'
    BY <2>1, StreamAssumption DEF StreamInv, StreamShape, S!Id
  <2>. QED  BY <2>1, <2>2 DEF StreamInv, NothingSlipsThrough, S!NothingSlipsThrough
<1>4. ASSUME NEW c \in Consumers, NEW n \in 1..2, NEW noack \in BOOLEAN,
             S!XReadGroup(c, n, noack) PROVE StreamInv'
  BY <1>4, DeliverKeeps DEF S!XReadGroup
<1>5. ASSUME NEW c \in Consumers, S!XAutoClaim(c, 1) PROVE StreamInv'
  <2>1. stream' = stream /\ group' = group /\ settled' = settled
    BY <1>5 DEF S!XAutoClaim
  <2>2. \A i \in DOMAIN pel : i \in stream.ids => i \in DOMAIN pel'
    BY <1>5 DEF S!XAutoClaim
  <2>. QED  BY <2>1, <2>2 DEF StreamInv, StreamShape, NothingSlipsThrough, S!NothingSlipsThrough,
               S!HasGroup, S!Exists
<1>6. ASSUME NEW c \in Blockers, S!Block(c) \/ S!Poll(c) PROVE StreamInv'
  <2>1. CASE S!Rerun(c) /\ S!HasGroup
    BY <2>1, DeliverKeeps DEF S!Rerun
  <2>2. CASE ~(S!Rerun(c) /\ S!HasGroup)
    <3>1. UNCHANGED <<stream, group, pel, settled>>
      BY <1>6, <2>2 DEF S!Block, S!Poll, S!Peek, S!Rerun
    <3>. QED  BY <3>1 DEF StreamInv, StreamShape, NothingSlipsThrough, S!NothingSlipsThrough,
                 S!HasGroup, S!Exists
  <2>. QED  BY <2>1, <2>2
<1>. QED  BY <1>1, <1>2, <1>3, <1>4, <1>5, <1>6

\* The stream keeps its invariant.
THEOREM StreamInvariance == S!Spec => []StreamInv
<1>1. S!Init => StreamInv
  BY DEF S!Init, StreamInv, StreamShape, NothingSlipsThrough, S!NothingSlipsThrough, S!HasGroup,
         S!Exists
<1>2. StreamInv /\ [S!Next]_(S!vars) => StreamInv'
  <2>. SUFFICES ASSUME StreamInv, [S!Next]_(S!vars) PROVE StreamInv'
    OBVIOUS
  <2>1. CASE UNCHANGED S!vars
    BY <2>1 DEF S!vars, StreamInv, StreamShape, NothingSlipsThrough, S!NothingSlipsThrough,
       S!HasGroup, S!Exists
  <2>2. CASE S!Next
    BY <2>2, StreamChanges, GroupChanges, ConsumersStep DEF S!Next
  <2>. QED  BY <2>1, <2>2
<1>. QED  BY <1>1, <1>2, PTL DEF S!Spec

\* An entry the group is past is pending at some consumer unless it was
\* acknowledged, read with NOACK, skipped or given up with its consumer, whatever
\* is added, trimmed, deleted, claimed and delivered, and wherever the position
\* and the last ID are set.
THEOREM NoEntrySlips == S!Spec => []NothingSlipsThrough
<1>1. StreamInv => NothingSlipsThrough
  BY DEF StreamInv
<1>. QED  BY <1>1, StreamInvariance, PTL

-----------------------------------------------------------------------------
(* The lag of a group.                                                     *)

\* The entries of s after id.
After(s, id) == {i \in s.ids : i > id}

\* A header counts the entries it has, of those ever added.
Counts(s) ==
  /\ IsHeader(s) /\ s.last \in 0..MaxId /\ s.added \in Nat
  /\ s.ids \subseteq 1..s.last
  /\ s.len = Cardinality(s.ids) /\ s.len <= s.added

\* What was read, if known, is what was added and is not after the position.
ReadIsExact(s, id, read) ==
  read # S!Unknown => read \in Nat /\ s.added - read = Cardinality(After(s, id))

LagInv ==
  /\ skewed \in BOOLEAN
  /\ stream # S!None => Counts(stream)
  /\ group # S!None => stream # S!None
  /\ group # S!None /\ ~skewed =>
       group.last <= stream.last /\ ReadIsExact(stream, group.last, group.read)

\* A header is a stream, not the mark of a name without one.
LEMMA HeaderIsStream == \A i, l, a, d, m : Header(i, l, a, d, m) # S!None
<1>. SUFFICES ASSUME NEW i, NEW l, NEW a, NEW d, NEW m, Header(i, l, a, d, m) = S!None PROVE FALSE
  OBVIOUS
<1>1. DOMAIN Header(i, l, a, d, m) = {"ids", "len", "last", "added", "maxdel"}
  BY DEF Header
<1>2. DOMAIN S!None = {"none"}
  BY DEF S!None
<1>3. "ids" \in DOMAIN Header(i, l, a, d, m) /\ "ids" \notin {"none"}
  BY <1>1
<1>. QED  BY <1>2, <1>3

\* The entries of a header are finitely many, and so are those after an ID.
LEMMA AfterIsFinite ==
  ASSUME NEW s, Counts(s), NEW id
  PROVE  /\ IsFiniteSet(s.ids) /\ IsFiniteSet(After(s, id)) /\ s.ids \subseteq S!Id
         /\ Cardinality(s.ids) \in Nat /\ Cardinality(After(s, id)) \in Nat /\ s.len \in Nat
<1>1. s.last \in Int /\ 1..s.last \subseteq S!Id
  BY StreamAssumption DEF Counts, S!Id
<1>2. IsFiniteSet(1..s.last)
  BY ONLY <1>1, FS_Interval
<1>3. s.ids \subseteq 1..s.last /\ After(s, id) \subseteq s.ids
  BY DEF Counts, After
<1>4. IsFiniteSet(s.ids)
  BY ONLY <1>2, <1>3, FS_Subset
<1>5. IsFiniteSet(After(s, id))
  BY ONLY <1>3, <1>4, FS_Subset
<1>6. Cardinality(s.ids) \in Nat /\ Cardinality(After(s, id)) \in Nat
  BY ONLY <1>4, <1>5, FS_CardinalityType
<1>. QED  BY <1>1, <1>3, <1>4, <1>5, <1>6 DEF Counts

\* A set of IDs that has one has a least one.
LEMMA MinIsThere ==
  ASSUME NEW A, A \subseteq S!Id, A # {}
  PROVE  S!Min(A) \in A /\ \A y \in A : S!Min(A) <= y
<1>1. A \subseteq Nat
  BY StreamAssumption DEF S!Id
<1>2. PICK m \in A : \A y \in A : ~ (<<y, m>> \in OpToRel(<, Nat))
  BY <1>1, NatLessThanWellFounded, WFMin
<1>3. \A y \in A : ~ (y < m)
  BY <1>1, <1>2 DEF OpToRel
<1>4. m \in Nat /\ A \subseteq Nat
  BY <1>1
<1>5. \A y \in A : m <= y
  BY <1>3, <1>4
<1>. QED  BY <1>5 DEF S!Min

\* The estimate is exact where the program makes one.
LEMMA EstimateIsExact ==
  ASSUME NEW s, Counts(s), NEW id \in 0..MaxId, id <= s.last
  PROVE  ReadIsExact(s, id, S!EstimateRead(s, id))
<1>. DEFINE r == S!EstimateRead(s, id)
<1>0. /\ IsFiniteSet(s.ids) /\ IsFiniteSet(After(s, id)) /\ s.ids \subseteq S!Id
      /\ Cardinality(s.ids) \in Nat /\ Cardinality(After(s, id)) \in Nat /\ s.len \in Nat
  BY AfterIsFinite
<1>1. s.len = 0 => s.ids = {}
  BY <1>0, FS_EmptySet DEF Counts
<1>2. Cardinality({}) = 0
  BY FS_EmptySet
<1>3. s.last \in Nat /\ s.added \in Nat /\ s.len <= s.added /\ id \in Nat /\ s.ids \subseteq Nat
      /\ \A i \in s.ids : i <= s.last
  BY StreamAssumption DEF Counts
<1>4. CASE s.added = 0
  <2>1. r = 0
    BY <1>4 DEF S!EstimateRead
  <2>2. After(s, id) = {}
    BY <1>0, <1>1, <1>3, <1>4 DEF After
  <2>. QED  BY <1>2, <1>4, <2>1, <2>2 DEF ReadIsExact
<1>5. CASE s.added # 0 /\ ((s.len = 0 /\ id <= s.last) \/ id = s.last)
  <2>1. r = s.added
    BY <1>5 DEF S!EstimateRead
  <2>2. After(s, id) = {}
    BY <1>1, <1>3, <1>5 DEF After
  <2>. QED  BY <1>2, <1>3, <2>1, <2>2 DEF ReadIsExact
<1>6. CASE /\ s.added # 0 /\ ~((s.len = 0 /\ id <= s.last) \/ id = s.last)
           /\ id < s.last /\ s.len # 0 /\ s.maxdel < S!Least(s.ids) /\ id <= S!Least(s.ids)
  <2>1. r = S!ReadUpTo(s, id)
    BY <1>6 DEF S!EstimateRead
  <2>2. s.ids # {}
    BY <1>2, <1>6 DEF Counts
  <2>3. PICK m \in s.ids : m = S!Least(s.ids) /\ \A y \in s.ids : m <= y
    BY <1>0, <2>2, MinIsThere DEF S!Least
  <2>4. CASE id = m
    <3>1. r = s.added - s.len + 1
      BY <2>1, <2>3, <2>4 DEF S!ReadUpTo
    <3>2. After(s, id) = s.ids \ {m}
      BY <1>3, <2>3, <2>4 DEF After
    <3>3. Cardinality(s.ids \ {m}) = Cardinality(s.ids) - 1
      BY ONLY <1>0, <2>3, FS_RemoveElement
    <3>4. s.len = Cardinality(s.ids)
      BY DEF Counts
    <3>. QED  BY <1>0, <1>3, <3>1, <3>2, <3>3, <3>4 DEF ReadIsExact
  <2>5. CASE id # m
    <3>1. r = s.added - s.len
      <4>1. r = s.added - s.len + 0
        BY <2>1, <2>3, <2>5 DEF S!ReadUpTo
      <4>. QED  BY <1>0, <1>3, <4>1
    <3>2. After(s, id) = s.ids
      <4>1. id < m
        BY <1>3, <1>6, <2>3, <2>5
      <4>. QED  BY <1>3, <2>3, <4>1 DEF After
    <3>. QED  BY <1>0, <1>3, <3>1, <3>2 DEF ReadIsExact, Counts
  <2>. QED  BY <2>4, <2>5
<1>7. CASE /\ s.added # 0 /\ ~((s.len = 0 /\ id <= s.last) \/ id = s.last)
           /\ ~(id < s.last /\ s.len # 0 /\ s.maxdel < S!Least(s.ids) /\ id <= S!Least(s.ids))
  BY <1>7 DEF S!EstimateRead, ReadIsExact
<1>. QED  BY <1>4, <1>5, <1>6, <1>7

\* One more entry is read: the first after the position.
LEMMA CountedIsExact ==
  ASSUME NEW s, Counts(s), NEW id \in s.ids, NEW from \in 0..MaxId, from < id,
         \A i \in s.ids : i > from => i >= id, NEW read, ReadIsExact(s, from, read)
  PROVE  ReadIsExact(s, id, S!Counted(s, read, id))
<1>1. /\ IsFiniteSet(After(s, id)) /\ Cardinality(After(s, id)) \in Nat /\ IsFiniteSet(s.ids)
      /\ Cardinality(s.ids) \in Nat
  BY AfterIsFinite
<1>2. /\ id \in 0..MaxId /\ id \in Nat /\ id <= s.last /\ from \in Nat /\ s.added \in Nat
      /\ s.ids \subseteq Nat
  BY StreamAssumption DEF Counts
<1>3. After(s, from) = After(s, id) \cup {id} /\ id \notin After(s, id)
  BY <1>2 DEF After
<1>4. Cardinality(After(s, from)) = Cardinality(After(s, id)) + 1
  BY <1>1, <1>3, FS_AddElement
<1>5. read # S!Unknown => read + 1 \in Nat /\ s.added - (read + 1) = Cardinality(After(s, id))
  BY <1>1, <1>2, <1>4 DEF ReadIsExact
<1>6. s.added > 0
  <2>1. s.ids # {} => Cardinality(s.ids) # 0
    BY <1>1, FS_EmptySet
  <2>. QED  BY <1>1, <1>2, <2>1 DEF Counts
<1>7. ReadIsExact(s, id, S!EstimateRead(s, id))
  BY <1>2, EstimateIsExact
<1>8. S!Counted(s, read, id) = S!EstimateRead(s, id)
        \/ (read # S!Unknown /\ S!Counted(s, read, id) = read + 1)
  BY <1>6 DEF S!Counted
<1>. QED  BY <1>5, <1>7, <1>8 DEF ReadIsExact

\* The kth of some entries, and the counter over them.
Nth(ids, k) == CHOOSE i \in ids : S!Cardinality({j \in ids : j <= i}) = k
CountOver(s, read, ids, f) ==
  [k \in 0..S!Cardinality(ids) |-> IF k = 0 THEN read ELSE S!Counted(s, f[k - 1], Nth(ids, k))]

\* The counter over one entry, and over two, is that of each in turn.
LEMMA CountedInTurn ==
  ASSUME NEW s, NEW read, NEW ids
  PROVE  /\ Cardinality(ids) = 1 =>
              S!CountedAll(s, read, ids) = S!Counted(s, read, Nth(ids, 1))
         /\ Cardinality(ids) = 2 =>
              S!CountedAll(s, read, ids)
                = S!Counted(s, S!Counted(s, read, Nth(ids, 1)), Nth(ids, 2))
<1>. DEFINE F == CHOOSE f : f = CountOver(s, read, ids, f)
<1>1. S!CountedAll(s, read, ids) = F[S!Cardinality(ids)]
  BY DEF S!CountedAll, CountOver, Nth
<1>2. S!Cardinality(ids) = Cardinality(ids)
  BY SameSize
<1>. HIDE DEF F
<1>3. CASE Cardinality(ids) = 1
  <2>. DEFINE a == S!Counted(s, read, Nth(ids, 1))
              g == [k \in 0..1 |-> IF k = 0 THEN read ELSE a]
  <2>1. g = CountOver(s, read, ids, g)
    <3>1. 0..1 = {0, 1} /\ g[0] = read
      OBVIOUS
    <3>2. CountOver(s, read, ids, g)
            = [k \in 0..1 |-> IF k = 0 THEN read ELSE S!Counted(s, g[k - 1], Nth(ids, k))]
      BY <1>2, <1>3 DEF CountOver
    <3>. QED  BY <3>1, <3>2
  <2>2. F = CountOver(s, read, ids, F)
    BY <2>1 DEF F
  <2>3. F[0] = read /\ F[1] = S!Counted(s, F[0], Nth(ids, 1))
    BY <1>2, <1>3, <2>2 DEF CountOver
  <2>. QED  BY <1>1, <1>2, <1>3, <2>3
<1>4. CASE Cardinality(ids) = 2
  <2>. DEFINE a == S!Counted(s, read, Nth(ids, 1))
              b == S!Counted(s, a, Nth(ids, 2))
              g == [k \in 0..2 |-> IF k = 0 THEN read ELSE IF k = 1 THEN a ELSE b]
  <2>1. g = CountOver(s, read, ids, g)
    <3>1. 0..2 = {0, 1, 2} /\ g[0] = read /\ g[1] = a
      OBVIOUS
    <3>2. CountOver(s, read, ids, g)
            = [k \in 0..2 |-> IF k = 0 THEN read ELSE S!Counted(s, g[k - 1], Nth(ids, k))]
      BY <1>2, <1>4 DEF CountOver
    <3>. QED  BY <3>1, <3>2
  <2>2. F = CountOver(s, read, ids, F)
    BY <2>1 DEF F
  <2>3. F[0] = read /\ F[1] = S!Counted(s, F[0], Nth(ids, 1))
        /\ F[2] = S!Counted(s, F[1], Nth(ids, 2))
    BY <1>2, <1>4, <2>2 DEF CountOver
  <2>. QED  BY <1>1, <1>2, <1>4, <2>3
<1>. QED  BY <1>3, <1>4

\* The first one or two of some entries.
FirstTwo(A, got) ==
  \E a \in A : /\ \A i \in A : i >= a
               /\ \/ got = {a}
                  \/ \E b \in A : a < b /\ got = {a, b} /\ \A i \in A : i > a => i >= b

\* What a read of at most two entries gets.
LEMMA GotAreFirst ==
  ASSUME NEW A, A \subseteq S!Id, A # {}, NEW n \in 1..2
  PROVE  FirstTwo(A, S!FirstOf(n, A))
<1>. DEFINE got == S!FirstOf(n, A)
            before(k) == {j \in A : j < k}
<1>1. A \subseteq Nat /\ IsFiniteSet(A) /\ n \in {1, 2}
  <2>1. IsFiniteSet(1..MaxId)
    BY ONLY StreamAssumption, FS_Interval
  <2>2. IsFiniteSet(A)
    BY <2>1, FS_Subset DEF S!Id
  <2>. QED  BY <2>2, StreamAssumption DEF S!Id
<1>2. \A k : IsFiniteSet(before(k)) /\ Cardinality(before(k)) \in Nat
  <2>. TAKE k
  <2>1. before(k) \subseteq A
    OBVIOUS
  <2>. HIDE DEF before
  <2>2. IsFiniteSet(before(k))
    BY ONLY <1>1, <2>1, FS_Subset
  <2>. QED  BY ONLY <2>2, FS_CardinalityType
<1>3. PICK a \in A : \A i \in A : a <= i
  BY MinIsThere
<1>4. \A k : k \in got <=> k \in A /\ Cardinality(before(k)) < n
  BY FirstAre
<1>5. Cardinality({}) = 0 /\ \A x : IsFiniteSet({x}) /\ Cardinality({x}) = 1
  BY ONLY FS_EmptySet, FS_Singleton
<1>6. a \in got
  <2>1. \A j \in A : ~ (j < a)
    BY <1>1, <1>3
  <2>2. before(a) = {}
    BY <2>1
  <2>3. Cardinality(before(a)) = 0
    BY <1>5, <2>2
  <2>. HIDE DEF before, got
  <2>. QED  BY <1>1, <1>3, <1>4, <2>3
<1>7. CASE n = 1
  <2>1. ASSUME NEW i \in A, i # a PROVE i \notin got
    <3>1. a \in before(i)
      BY <1>1, <1>3, <2>1
    <3>2. IsFiniteSet(before(i)) /\ {a} \subseteq before(i)
      BY <1>2, <3>1
    <3>. HIDE DEF before, got
    <3>3. Cardinality({a}) <= Cardinality(before(i))
      BY ONLY <3>2, FS_Subset
    <3>4. Cardinality({a}) = 1
      BY ONLY <1>5
    <3>5. ~ (Cardinality(before(i)) < 1)
      BY <1>2, <3>3, <3>4
    <3>. QED  BY <1>4, <1>7, <3>5
  <2>2. got = {a}
    BY <1>4, <1>6, <2>1
  <2>. QED  BY <1>1, <1>3, <2>2 DEF FirstTwo
<1>8. CASE n = 2 /\ A = {a}
  <2>1. got = {a}
    BY <1>4, <1>6, <1>8
  <2>. QED  BY <1>1, <1>3, <2>1 DEF FirstTwo
<1>9. CASE n = 2 /\ A # {a}
  <2>. DEFINE Rest == A \ {a}
  <2>1. Rest \subseteq S!Id /\ Rest # {}
    BY <1>3, <1>9
  <2>. HIDE DEF Rest
  <2>2. PICK b \in Rest : \A i \in Rest : b <= i
    BY <2>1, MinIsThere
  <2>3. b \in A /\ a < b /\ \A i \in A : i # a => b <= i
    BY <1>1, <1>3, <2>2 DEF Rest
  <2>4. b \in got
    <3>1. \A j \in A : j < b <=> j = a
      BY <1>1, <1>3, <2>3
    <3>2. before(b) = {a}
      BY <1>3, <3>1
    <3>3. Cardinality(before(b)) = 1
      BY <1>5, <3>2
    <3>. HIDE DEF before, got
    <3>. QED  BY <1>4, <1>9, <2>3, <3>3
  <2>5. ASSUME NEW i \in A, i # a, i # b PROVE i \notin got
    <3>1. {a, b} \subseteq before(i)
      BY <1>1, <1>3, <2>3, <2>5
    <3>2. IsFiniteSet(before(i)) /\ {a} \cup {b} \subseteq before(i) /\ b \notin {a}
      BY <1>1, <1>2, <2>3, <3>1
    <3>3. IsFiniteSet({a}) /\ Cardinality({a}) = 1
      BY ONLY <1>5
    <3>. HIDE DEF before, got
    <3>4. Cardinality({a} \cup {b}) = Cardinality({a}) + 1
      BY ONLY <3>2, <3>3, FS_AddElement
    <3>5. Cardinality({a} \cup {b}) <= Cardinality(before(i))
      BY ONLY <3>2, FS_Subset
    <3>6. ~ (Cardinality(before(i)) < 2)
      BY <1>2, <3>3, <3>4, <3>5
    <3>. QED  BY <1>4, <1>9, <3>6
  <2>6. got = {a, b}
    BY <1>4, <1>6, <2>4, <2>5
  <2>7. \A i \in A : i > a => i >= b
    BY <1>1, <2>3
  <2>. QED  BY <1>1, <1>3, <2>3, <2>6, <2>7 DEF FirstTwo
<1>. QED  BY <1>1, <1>7, <1>8, <1>9

\* The first and the second of two entries.
LEMMA NthOf ==
  ASSUME NEW a \in Nat
  PROVE  /\ Cardinality({a}) = 1 /\ Nth({a}, 1) = a
         /\ \A b \in Nat : a < b => /\ Cardinality({a, b}) = 2
                                    /\ Nth({a, b}, 1) = a /\ Nth({a, b}, 2) = b
<1>1. \A x : IsFiniteSet({x}) /\ Cardinality({x}) = 1
  BY ONLY FS_Singleton
<1>2. Nth({a}, 1) = a
  <2>1. {j \in {a} : j <= a} = {a}
    OBVIOUS
  <2>2. S!Cardinality({j \in {a} : j <= a}) = 1
    BY <1>1, <2>1, SameSize
  <2>. QED  BY <2>2 DEF Nth
<1>3. ASSUME NEW b \in Nat, a < b
      PROVE  Cardinality({a, b}) = 2 /\ Nth({a, b}, 1) = a /\ Nth({a, b}, 2) = b
  <2>1. b \notin {a} /\ {a, b} = {a} \cup {b}
    BY <1>3
  <2>2. Cardinality({a} \cup {b}) = 2
    <3>1. IsFiniteSet({a}) /\ Cardinality({a}) = 1
      BY ONLY <1>1
    <3>2. Cardinality({a} \cup {b}) = Cardinality({a}) + 1
      BY ONLY <2>1, <3>1, FS_AddElement
    <3>. QED  BY <3>1, <3>2
  <2>3. {j \in {a, b} : j <= a} = {a} /\ {j \in {a, b} : j <= b} = {a, b}
    BY <1>3
  <2>4. S!Cardinality({j \in {a, b} : j <= a}) = 1 /\ S!Cardinality({j \in {a, b} : j <= b}) = 2
    BY <1>1, <2>1, <2>2, <2>3, SameSize
  <2>. DEFINE N(i) == S!Cardinality({j \in {a, b} : j <= i})
  <2>5. N(a) = 1 /\ N(b) = 2
    BY <2>4
  <2>. HIDE DEF N
  <2>6. (CHOOSE i \in {a, b} : N(i) = 1) = a /\ (CHOOSE i \in {a, b} : N(i) = 2) = b
    BY <2>5
  <2>. QED  BY <2>1, <2>2, <2>6 DEF Nth, N
<1>. QED  BY <1>1, <1>2, <1>3

\* A read leaves the counter exact at the group's new position.
LEMMA ReadsAreCounted ==
  ASSUME NEW s, Counts(s), NEW from \in 0..MaxId, NEW read, ReadIsExact(s, from, read),
         NEW n \in 1..2, S!FirstOf(n, After(s, from)) # {}
  PROVE  LET got == S!FirstOf(n, After(s, from))
         IN  S!Max(got) \in s.ids /\ ReadIsExact(s, S!Max(got), S!CountedAll(s, read, got))
<1>. DEFINE A == After(s, from)
            got == S!FirstOf(n, A)
<1>1. A \subseteq s.ids /\ got \subseteq A /\ s.ids \subseteq S!Id
  BY AfterIsFinite, FirstAreSome DEF After
<1>2. A # {} /\ A \subseteq S!Id
  BY <1>1
<1>3. FirstTwo(A, got)
  <2>. HIDE DEF A
  <2>. QED  BY <1>2, GotAreFirst
<1>4. S!Id \subseteq Nat /\ from \in Nat /\ \A i : i \in A <=> i \in s.ids /\ i > from
  BY StreamAssumption DEF S!Id, After
<1>5. S!Max(got) \in got /\ \A y \in got : y <= S!Max(got)
  BY <1>1, <1>2, MaxIsThere
<1>. HIDE DEF A, got
<1>6. PICK a \in A : /\ \A i \in A : i >= a
                     /\ \/ got = {a}
                        \/ \E b \in A : a < b /\ got = {a, b} /\ \A i \in A : i > a => i >= b
  BY <1>3 DEF FirstTwo
<1>7. a \in s.ids /\ a \in Nat /\ from < a /\ \A i \in s.ids : i > from => i >= a
  BY <1>1, <1>4, <1>6
<1>8. ReadIsExact(s, a, S!Counted(s, read, a))
  BY <1>7, CountedIsExact
<1>9. CASE got = {a}
  <2>1. S!Max(got) = a /\ Cardinality(got) = 1 /\ Nth(got, 1) = a
    BY <1>5, <1>7, <1>9, NthOf
  <2>2. S!CountedAll(s, read, got) = S!Counted(s, read, a)
    BY <2>1, CountedInTurn
  <2>. QED  BY <1>7, <1>8, <2>1, <2>2 DEF A, got
<1>10. ASSUME NEW b \in A, a < b, got = {a, b}, \A i \in A : i > a => i >= b
       PROVE  S!Max(got) \in s.ids /\ ReadIsExact(s, S!Max(got), S!CountedAll(s, read, got))
  <2>1. b \in s.ids /\ b \in Nat /\ \A i \in s.ids : i > a => i >= b
    <3>1. b \in s.ids /\ s.ids \subseteq Nat
      BY <1>1, <1>4
    <3>2. ASSUME NEW i \in s.ids, i > a PROVE i >= b
      <4>1. i > from
        BY <1>4, <1>7, <3>1, <3>2
      <4>2. i \in A
        BY <1>4, <4>1
      <4>. QED  BY <1>10, <3>2, <4>2
    <3>. QED  BY <3>1, <3>2
  <2>2. S!Max(got) = b
    <3>1. S!Max(got) \in {a, b} /\ b <= S!Max(got)
      BY <1>5, <1>10
    <3>2. a < b /\ a \in Nat /\ b \in Nat
      BY <1>7, <1>10, <2>1
    <3>. QED  BY ONLY <3>1, <3>2
  <2>3. Cardinality(got) = 2 /\ Nth(got, 1) = a /\ Nth(got, 2) = b
    BY <1>7, <1>10, <2>1, NthOf
  <2>4. S!CountedAll(s, read, got) = S!Counted(s, S!Counted(s, read, a), b)
    BY <2>3, CountedInTurn
  <2>5. a \in 0..MaxId
    BY <1>1, <1>7, StreamAssumption DEF S!Id
  <2>6. ReadIsExact(s, b, S!Counted(s, S!Counted(s, read, a), b))
    BY <1>8, <1>10, <2>1, <2>5, CountedIsExact
  <2>. QED  BY <2>1, <2>2, <2>4, <2>6
<1>. QED  BY <1>6, <1>9, <1>10 DEF A, got

\* Its entries after the position and what was added say all of an exact counter.
LEMMA SameLag ==
  ASSUME NEW s, NEW t, NEW id, NEW read, ReadIsExact(s, id, read),
         t.added = s.added, After(t, id) = After(s, id)
  PROVE  ReadIsExact(t, id, read)
BY DEF ReadIsExact

\* A new stream counts its entries, none.
LEMMA NewCounts == Counts(S!NewStream)
<1>1. Cardinality({}) = 0
  BY ONLY FS_EmptySet
<1>. QED  BY <1>1, StreamAssumption DEF Counts, IsHeader, Header, S!NewStream

\* An entry added at the end is counted.
LEMMA GrownCounts ==
  ASSUME NEW s, Counts(s), NEW id \in S!Id, id > s.last,
         NEW t, t = Header(s.ids \cup {id}, s.len + 1, id, s.added + 1, s.maxdel)
  PROVE  /\ Counts(t) /\ t.ids = s.ids \cup {id} /\ t.last = id /\ t.added = s.added + 1
         /\ id \notin s.ids
<1>1. IsFiniteSet(s.ids) /\ Cardinality(s.ids) \in Nat /\ s.ids \subseteq S!Id
  BY AfterIsFinite
<1>2. s.last \in Nat /\ s.added \in Nat /\ s.len = Cardinality(s.ids) /\ s.len <= s.added
      /\ s.ids \subseteq 1..s.last /\ id \in 1..MaxId
  BY StreamAssumption DEF Counts, S!Id
<1>3. id \notin s.ids
  BY <1>2, StreamAssumption
<1>4. Cardinality(s.ids \cup {id}) = Cardinality(s.ids) + 1
  BY ONLY <1>1, <1>3, FS_AddElement
<1>5. /\ t.ids = s.ids \cup {id} /\ t.len = s.len + 1 /\ t.last = id /\ t.added = s.added + 1
      /\ t.maxdel = s.maxdel
  BY DEF Header
<1>6. t.ids \subseteq 1..t.last
  BY <1>2, <1>5, StreamAssumption
<1>7. t.last \in 0..MaxId /\ t.added \in Nat /\ t.len <= t.added
  BY <1>1, <1>2, <1>5, StreamAssumption
<1>8. t.len = Cardinality(t.ids)
  BY <1>2, <1>4, <1>5
<1>9. IsHeader(t)
  BY <1>5 DEF IsHeader
<1>. QED  BY <1>3, <1>5, <1>6, <1>7, <1>8, <1>9 DEF Counts

\* A trim counts the entries it removes.
LEMMA TrimmedCounts ==
  ASSUME NEW s, Counts(s), NEW victims, victims \subseteq s.ids, NEW t, t.ids = s.ids \ victims,
         t.len = s.len - Cardinality(victims), t.last = s.last, t.added = s.added, IsHeader(t)
  PROVE  Counts(t)
<1>1. IsFiniteSet(s.ids) /\ Cardinality(s.ids) \in Nat
  BY AfterIsFinite
<1>2. s.last \in 0..MaxId /\ s.added \in Nat /\ s.len = Cardinality(s.ids) /\ s.len <= s.added
      /\ s.ids \subseteq 1..s.last
  BY DEF Counts
<1>3. IsFiniteSet(victims) /\ s.ids \cap victims = victims
  BY ONLY <1>1, FS_Subset, victims \subseteq s.ids
<1>4. Cardinality(victims) \in Nat
  BY ONLY <1>3, FS_CardinalityType
<1>5. Cardinality(s.ids \ victims) = Cardinality(s.ids) - Cardinality(victims)
  <2>1. Cardinality(s.ids \ victims) = Cardinality(s.ids) - Cardinality(s.ids \cap victims)
    BY ONLY <1>1, FS_Difference
  <2>. QED  BY <1>3, <2>1
<1>6. t.len = Cardinality(t.ids) /\ t.len <= t.added
  BY <1>1, <1>2, <1>4, <1>5
<1>7. t.last \in 0..MaxId /\ t.added \in Nat /\ t.ids \subseteq 1..t.last
  BY <1>2
<1>. QED  BY <1>6, <1>7 DEF Counts

\* What changes neither stream nor position changes no lag.
LEMMA SameStream ==
  ASSUME LagInv, UNCHANGED <<stream, group, skewed>>
  PROVE  LagInv'
BY DEF LagInv

\* XADD: the lag grows with what is added.
LEMMA AddIsExact ==
  ASSUME StreamInv, LagInv, NEW id \in S!Id, NEW n \in 0..1, S!XAdd(id, n)
  PROVE  LagInv'
<1>. DEFINE s == IF S!Exists THEN stream ELSE S!NewStream
            grown == [s EXCEPT !.ids = @ \cup {id}, !.len = @ + 1, !.added = @ + 1, !.last = id]
            victims == S!FirstOf(n, grown.ids)
<1>1. Counts(s) /\ (stream # S!None => s = stream)
  BY NewCounts DEF LagInv, S!Exists
<1>2. /\ id > s.last /\ stream' = S!TrimmedTo(grown, victims) /\ group' = group
      /\ skewed' = (skewed \/ (group # S!None /\ \E i \in victims : i > group.last))
  BY DEF S!XAdd
<1>3. victims \subseteq grown.ids
  BY FirstAreSome
<1>. HIDE DEF s
<1>4. grown = Header(s.ids \cup {id}, s.len + 1, id, s.added + 1, s.maxdel)
  BY <1>1, GrownHeader DEF Counts
<1>. HIDE DEF grown, victims
<1>5. /\ Counts(grown) /\ grown.ids = s.ids \cup {id} /\ grown.last = id
      /\ grown.added = s.added + 1 /\ id \notin s.ids
  <2>1. Counts(s) /\ id > s.last
    BY <1>1, <1>2
  <2>. QED  BY ONLY <1>4, <2>1, GrownCounts, id \in S!Id, StreamAssumption
<1>6. stream' = Header(grown.ids \ victims, grown.len - Cardinality(victims), grown.last,
                       grown.added, grown.maxdel)
  BY <1>2, <1>5, TrimmedHeader DEF Counts
<1>7. /\ stream'.ids = grown.ids \ victims /\ stream'.len = grown.len - Cardinality(victims)
      /\ stream'.last = grown.last /\ stream'.added = grown.added /\ stream'.maxdel = grown.maxdel
  BY <1>6 DEF Header
<1>8. IsHeader(stream')
  BY <1>6, <1>7 DEF IsHeader
<1>9. Counts(stream')
  BY <1>3, <1>5, <1>7, <1>8, TrimmedCounts
<1>10. stream' # S!None
  BY <1>6, HeaderIsStream
<1>11. skewed' \in BOOLEAN
  BY <1>2 DEF LagInv
<1>12. ASSUME group # S!None, ~skewed'
       PROVE  group.last <= stream'.last /\ ReadIsExact(stream', group.last, group.read)
  <2>1. /\ ~skewed /\ s = stream /\ group.last <= s.last /\ ReadIsExact(s, group.last, group.read)
        /\ group.last \in Int
    BY <1>1, <1>2, <1>12, StreamAssumption DEF LagInv, StreamInv, StreamShape
  <2>2. \A i \in victims : ~ (i > group.last)
    BY <1>2, <1>12
  <2>3. group.last < id /\ s.last \in Int /\ id \in Int /\ s.added \in Nat
    BY <1>1, <1>2, <2>1, StreamAssumption DEF Counts, S!Id
  <2>4. /\ After(stream', group.last) = After(s, group.last) \cup {id}
        /\ id \notin After(s, group.last)
    BY <1>5, <1>7, <2>2, <2>3 DEF After
  <2>5. IsFiniteSet(After(s, group.last)) /\ Cardinality(After(s, group.last)) \in Nat
    BY <1>1, AfterIsFinite
  <2>6. Cardinality(After(stream', group.last)) = Cardinality(After(s, group.last)) + 1
    BY <2>4, <2>5, FS_AddElement
  <2>7. stream'.last = id /\ stream'.added = s.added + 1
    BY <1>5, <1>7
  <2>8. group.last <= stream'.last
    BY <2>1, <2>3, <2>7
  <2>9. group.read # S!Unknown => stream'.added - group.read = Cardinality(After(stream', group.last))
    BY <2>1, <2>3, <2>5, <2>6, <2>7 DEF ReadIsExact
  <2>. QED  BY <2>1, <2>8, <2>9 DEF ReadIsExact
<1>. QED  BY <1>2, <1>9, <1>10, <1>11, <1>12 DEF LagInv

\* XTRIM and XDEL: what is removed before the position is not in the lag.
LEMMA RemovalIsExact ==
  ASSUME StreamInv, LagInv, stream # S!None, NEW victims, victims \subseteq stream.ids,
         stream'.ids = stream.ids \ victims,
         stream'.len = stream.len - Cardinality(victims), stream'.last = stream.last,
         stream'.added = stream.added, IsHeader(stream'), group' = group,
         skewed' = (skewed \/ (group # S!None /\ \E i \in victims : i > group.last))
  PROVE  LagInv'
<1>1. Counts(stream')
  BY TrimmedCounts DEF LagInv
<1>2. stream' # S!None
  BY HeaderIsStream DEF IsHeader
<1>3. ASSUME group # S!None, ~skewed'
      PROVE  group.last <= stream'.last /\ ReadIsExact(stream', group.last, group.read)
  <2>1. ~skewed /\ group.last <= stream.last /\ ReadIsExact(stream, group.last, group.read)
    BY <1>3 DEF LagInv
  <2>2. \A i \in victims : ~ (i > group.last)
    BY <1>3
  <2>3. After(stream', group.last) = After(stream, group.last)
    BY <2>2 DEF After
  <2>. QED  BY <2>1, <2>3, SameLag
<1>4. skewed' \in BOOLEAN
  BY DEF LagInv
<1>. QED  BY <1>1, <1>2, <1>3, <1>4 DEF LagInv

\* XADD, XTRIM, XDEL, XSETID and DEL keep the lag.
LEMMA LagSurvivesStream ==
  ASSUME StreamInv, LagInv,
         \/ \E id \in S!Id : S!XDel(id) \/ \E n \in 0..1 : S!XAdd(id, n)
         \/ \E id \in 0..MaxId : S!XSetId(id)
         \/ S!XTrim(1) \/ S!Del
  PROVE  LagInv'
<1>1. ASSUME NEW id \in S!Id, NEW n \in 0..1, S!XAdd(id, n) PROVE LagInv'
  BY <1>1, AddIsExact
<1>2. CASE S!XTrim(1)
  <2>. DEFINE victims == S!FirstOf(1, stream.ids)
  <2>1. /\ stream # S!None /\ stream' = S!TrimmedTo(stream, victims) /\ group' = group
        /\ skewed' = (skewed \/ (group # S!None /\ \E i \in victims : i > group.last))
    BY <1>2 DEF S!XTrim, S!Exists
  <2>2. victims \subseteq stream.ids
    BY FirstAreSome
  <2>. HIDE DEF victims
  <2>3. stream' = Header(stream.ids \ victims, stream.len - Cardinality(victims), stream.last,
                         stream.added, stream.maxdel)
    BY <2>1, TrimmedHeader DEF LagInv, Counts
  <2>4. /\ stream'.ids = stream.ids \ victims /\ stream'.len = stream.len - Cardinality(victims)
        /\ stream'.last = stream.last /\ stream'.added = stream.added /\ IsHeader(stream')
    BY <2>3 DEF Header, IsHeader
  <2>. QED  BY <2>1, <2>2, <2>4, RemovalIsExact
<1>3. ASSUME NEW id \in S!Id, S!XDel(id) PROVE LagInv'
  <2>1. /\ stream # S!None /\ id \in stream.ids /\ group' = group
        /\ stream' = [stream EXCEPT !.ids = @ \ {id}, !.len = @ - 1,
                                    !.maxdel = IF id > @ THEN id ELSE @]
        /\ skewed' = (skewed \/ (group # S!None /\ id > group.last))
    BY <1>3 DEF S!XDel, S!Exists
  <2>2. stream' = Header(stream.ids \ {id}, stream.len - 1, stream.last, stream.added,
                         IF id > stream.maxdel THEN id ELSE stream.maxdel)
    BY <2>1 DEF StreamInv, StreamShape, Header
  <2>3. Cardinality({id}) = 1
    BY ONLY FS_Singleton
  <2>4. /\ stream'.ids = stream.ids \ {id} /\ stream'.len = stream.len - 1
        /\ stream'.last = stream.last /\ stream'.added = stream.added /\ IsHeader(stream')
    BY <2>2 DEF Header, IsHeader
  <2>5. stream'.len = stream.len - Cardinality({id})
    BY <2>3, <2>4
  <2>6. {id} \subseteq stream.ids
        /\ skewed' = (skewed \/ (group # S!None /\ \E i \in {id} : i > group.last))
    BY <2>1
  <2>. QED  BY <2>1, <2>4, <2>5, <2>6, RemovalIsExact
<1>4. ASSUME NEW id \in 0..MaxId, S!XSetId(id) PROVE LagInv'
  <2>1. /\ stream # S!None /\ (stream.len > 0 => id >= stream.last) /\ group' = group
        /\ stream' = [stream EXCEPT !.last = id]
        /\ skewed' = (skewed \/ (group # S!None /\ group.last > id))
    BY <1>4 DEF S!XSetId, S!Exists
  <2>2. stream' = Header(stream.ids, stream.len, id, stream.added, stream.maxdel)
    BY <2>1 DEF StreamInv, StreamShape, Header
  <2>3. /\ stream'.ids = stream.ids /\ stream'.len = stream.len /\ stream'.last = id
        /\ stream'.added = stream.added /\ IsHeader(stream')
    BY <2>2 DEF Header, IsHeader
  <2>4. Counts(stream)
    BY <2>1 DEF LagInv
  <2>5. IsFiniteSet(stream.ids) /\ Cardinality(stream.ids) \in Nat
    BY <2>4, AfterIsFinite
  <2>6. stream.ids # {} => Cardinality(stream.ids) # 0
    BY ONLY <2>5, FS_EmptySet
  <2>7. stream.ids \subseteq 1..id
    <3>1. stream.ids \subseteq 1..stream.last /\ stream.last \in 0..MaxId
          /\ stream.len = Cardinality(stream.ids)
      BY <2>4 DEF Counts
    <3>2. CASE stream.ids = {}
      BY <3>2
    <3>3. CASE stream.ids # {}
      BY <2>1, <2>5, <2>6, <3>1, <3>3, StreamAssumption
    <3>. QED  BY <3>2, <3>3
  <2>8. Counts(stream')
    BY <2>3, <2>4, <2>7 DEF Counts
  <2>9. stream' # S!None
    BY <2>2, HeaderIsStream
  <2>10. ASSUME group # S!None, ~skewed'
         PROVE  group.last <= stream'.last /\ ReadIsExact(stream', group.last, group.read)
    <3>1. ~skewed /\ ReadIsExact(stream, group.last, group.read) /\ ~ (group.last > id)
      BY <2>1, <2>10 DEF LagInv
    <3>2. group.last \in Int
      BY <2>10, StreamAssumption DEF StreamInv, StreamShape
    <3>3. group.last <= id
      BY <3>1, <3>2, StreamAssumption
    <3>4. After(stream', group.last) = After(stream, group.last)
      BY <2>3 DEF After
    <3>. QED  BY <2>3, <3>1, <3>3, <3>4, SameLag
  <2>11. skewed' \in BOOLEAN
    BY <2>1 DEF LagInv
  <2>. QED  BY <2>1, <2>8, <2>9, <2>10, <2>11 DEF LagInv
<1>5. CASE S!Del
  BY <1>5 DEF S!Del, LagInv
<1>. QED  BY <1>1, <1>2, <1>3, <1>4, <1>5

\* XGROUP: a position set in the stream has the estimate, or none.
LEMMA LagSurvivesGroup ==
  ASSUME StreamInv, LagInv,
         \/ \E id \in 0..MaxId : S!XGroupCreate(id) \/ S!XGroupSetId(id)
         \/ S!XGroupDestroy
         \/ \E c \in Consumers : S!XGroupCreateConsumer(c) \/ S!XGroupDelConsumer(c)
  PROVE  LagInv'
<1>1. ASSUME NEW id \in 0..MaxId, NEW s, Counts(s), stream' = s, group' = S!GroupAt(s, id),
             skewed' = (id > s.last)
      PROVE  LagInv'
  <2>1. group'.last = id /\ group'.read = S!EstimateRead(s, id)
    BY <1>1 DEF S!GroupAt
  <2>2. ~ (id > s.last) => id <= s.last
    BY <1>1, StreamAssumption DEF Counts
  <2>3. s # S!None
    BY <1>1, HeaderIsStream DEF Counts, IsHeader
  <2>4. ~skewed' => ReadIsExact(s, id, S!EstimateRead(s, id))
    BY <1>1, <2>2, EstimateIsExact
  <2>5. skewed' \in BOOLEAN /\ stream' # S!None /\ Counts(stream')
    BY <1>1, <2>3
  <2>6. ~skewed' => /\ group'.last <= stream'.last
                    /\ ReadIsExact(stream', group'.last, group'.read)
    BY <1>1, <2>1, <2>2, <2>4
  <2>. QED  BY <2>5, <2>6 DEF LagInv
<1>2. ASSUME NEW id \in 0..MaxId, S!XGroupCreate(id) PROVE LagInv'
  <2>. DEFINE s == IF S!Exists THEN stream ELSE S!NewStream
  <2>1. Counts(s)
    BY NewCounts DEF LagInv, S!Exists
  <2>2. stream' = s /\ group' = S!GroupAt(s, id) /\ skewed' = (id > s.last)
    BY <1>2 DEF S!XGroupCreate
  <2>. HIDE DEF s
  <2>. QED  BY <1>1, <2>1, <2>2
<1>3. ASSUME NEW id \in 0..MaxId, S!XGroupSetId(id) PROVE LagInv'
  <2>1. Counts(stream) /\ stream' = stream /\ group' = S!GroupAt(stream, id)
        /\ skewed' = (id > stream.last)
    BY <1>3 DEF S!XGroupSetId, S!HasGroup, S!Exists, LagInv
  <2>. QED  BY <1>1, <2>1
<1>4. CASE S!XGroupDestroy
  BY <1>4 DEF S!XGroupDestroy, LagInv
<1>5. ASSUME NEW c \in Consumers, S!XGroupCreateConsumer(c) \/ S!XGroupDelConsumer(c) PROVE LagInv'
  <2>1. UNCHANGED <<stream, group, skewed>>
    BY <1>5 DEF S!XGroupCreateConsumer, S!XGroupDelConsumer
  <2>. QED  BY <2>1, SameStream
<1>. QED  BY <1>2, <1>3, <1>4, <1>5

\* A read moves the position and the counter over the same entries.
LEMMA LagSurvivesRead ==
  ASSUME StreamInv, LagInv, S!HasGroup, NEW c, NEW n \in 1..2, NEW noack \in BOOLEAN,
         S!Deliver(c, n, noack)
  PROVE  LagInv'
<1>. DEFINE got == S!FirstOf(n, S!New)
<1>1. stream' = stream /\ skewed' = skewed /\ Counts(stream) /\ group # S!None /\ stream # S!None
  BY DEF S!Deliver, S!HasGroup, S!Exists, LagInv
<1>2. CASE got = {}
  <2>1. group' = group
    BY <1>2 DEF S!Deliver
  <2>. QED  BY <1>1, <2>1, SameStream
<1>3. CASE got # {}
  <2>1. group' = [last |-> S!Max(got), read |-> S!CountedAll(stream, group.read, got)]
    BY <1>3 DEF S!Deliver, S!Advanced
  <2>2. got = S!FirstOf(n, After(stream, group.last))
    BY DEF S!New, After
  <2>. HIDE DEF got
  <2>3. group'.last = S!Max(got) /\ group'.read = S!CountedAll(stream, group.read, got)
    BY <2>1
  <2>4. ASSUME ~skewed
        PROVE  group'.last <= stream.last /\ ReadIsExact(stream, group'.last, group'.read)
    <3>1. ReadIsExact(stream, group.last, group.read) /\ group.last \in 0..MaxId
      BY <1>1, <2>4 DEF LagInv, StreamInv, StreamShape
    <3>2. S!Max(got) \in stream.ids
          /\ ReadIsExact(stream, S!Max(got), S!CountedAll(stream, group.read, got))
      BY <1>1, <1>3, <2>2, <3>1, ReadsAreCounted
    <3>3. S!Max(got) <= stream.last
      BY <1>1, <3>2, StreamAssumption DEF Counts
    <3>. QED  BY <2>3, <3>2, <3>3
  <2>. QED  BY <1>1, <2>4 DEF LagInv
<1>. QED  BY <1>2, <1>3

\* XREADGROUP, XACK, XCLAIM and XAUTOCLAIM, and what a blocked reader does.
LEMMA LagSurvivesConsumers ==
  ASSUME StreamInv, LagInv,
         \/ \E id \in S!Id : \/ S!XAck(id)
                             \/ \E c \in Consumers, force \in BOOLEAN : S!XClaim(c, id, force)
                             \/ \E c \in Consumers : S!XClaimLastId(c, id)
         \/ \E c \in Consumers : \/ \E n \in 1..2, noack \in BOOLEAN : S!XReadGroup(c, n, noack)
                                 \/ S!XAutoClaim(c, 1)
         \/ \E c \in Blockers : S!Block(c) \/ S!Poll(c)
  PROVE  LagInv'
<1>1. ASSUME NEW id \in S!Id, S!XAck(id) PROVE LagInv'
  BY <1>1, SameStream DEF S!XAck
<1>2. ASSUME NEW id \in S!Id, NEW c \in Consumers, NEW force \in BOOLEAN, S!XClaim(c, id, force)
      PROVE  LagInv'
  BY <1>2, SameStream DEF S!XClaim
<1>3. ASSUME NEW id \in S!Id, NEW c \in Consumers, S!XClaimLastId(c, id) PROVE LagInv'
  <2>1. stream' = stream /\ skewed' = TRUE /\ stream # S!None
    BY <1>3 DEF S!XClaimLastId, S!HasGroup, S!Exists
  <2>. QED  BY <2>1 DEF LagInv
<1>4. ASSUME NEW c \in Consumers, NEW n \in 1..2, NEW noack \in BOOLEAN,
             S!XReadGroup(c, n, noack) PROVE LagInv'
  BY <1>4, LagSurvivesRead DEF S!XReadGroup
<1>5. ASSUME NEW c \in Consumers, S!XAutoClaim(c, 1) PROVE LagInv'
  BY <1>5, SameStream DEF S!XAutoClaim
<1>6. ASSUME NEW c \in Blockers, S!Block(c) \/ S!Poll(c) PROVE LagInv'
  <2>1. CASE S!Rerun(c) /\ S!HasGroup
    <3>1. S!HasGroup /\ S!Deliver(c, 1, FALSE)
      BY <2>1 DEF S!Rerun
    <3>2. 1 \in 1..2 /\ FALSE \in BOOLEAN
      OBVIOUS
    <3>. QED  BY <3>1, <3>2, LagSurvivesRead
  <2>2. CASE ~(S!Rerun(c) /\ S!HasGroup)
    <3>1. UNCHANGED <<stream, group, skewed>>
      BY <1>6, <2>2 DEF S!Block, S!Poll, S!Peek, S!Rerun
    <3>. QED  BY <3>1, SameStream
  <2>. QED  BY <2>1, <2>2
<1>. QED  BY <1>1, <1>2, <1>3, <1>4, <1>5, <1>6

\* The counters of stream and group agree with the entries, until somebody sets
\* them by hand.
THEOREM LagInvariance == S!Spec => [](StreamInv /\ LagInv)
<1>1. S!Init => LagInv
  BY DEF S!Init, LagInv
<1>2. StreamInv /\ LagInv /\ [S!Next]_(S!vars) => LagInv'
  <2>. SUFFICES ASSUME StreamInv, LagInv, [S!Next]_(S!vars) PROVE LagInv'
    OBVIOUS
  <2>1. CASE UNCHANGED S!vars
    BY <2>1, SameStream DEF S!vars
  <2>2. CASE S!Next
    BY <2>2, LagSurvivesStream, LagSurvivesGroup, LagSurvivesConsumers DEF S!Next
  <2>. QED  BY <2>1, <2>2
<1>. QED  BY <1>1, <1>2, StreamInvariance, PTL DEF S!Spec

\* A lag that XINFO GROUPS reports is the number of entries the group has still to
\* read, whatever is added, read, deleted and trimmed behind the position, and
\* whichever way the counter was found: counted entry by entry, or estimated.
THEOREM LagsAreExact == S!Spec => []LagIsExact
<1>1. ASSUME StreamInv, LagInv PROVE LagIsExact
  <2>. SUFFICES ASSUME S!HasGroup, stream.len > 0, ~skewed, S!Lag(stream, group) # S!Unknown
                PROVE  S!Lag(stream, group) = Cardinality(S!New)
    BY SameSize DEF LagIsExact, S!LagIsExact
  <2>1. /\ stream # S!None /\ group # S!None /\ Counts(stream) /\ group.last <= stream.last
        /\ ReadIsExact(stream, group.last, group.read) /\ group.last \in 0..MaxId
    BY <1>1 DEF S!HasGroup, S!Exists, LagInv, StreamInv, StreamShape
  <2>2. S!New = After(stream, group.last)
    BY DEF S!New, After
  <2>3. ReadIsExact(stream, group.last, S!EstimateRead(stream, group.last))
    BY <2>1, EstimateIsExact
  <2>4. stream.added # 0
    <3>1. stream.len \in Nat /\ stream.added \in Nat /\ stream.len <= stream.added
      BY <2>1, AfterIsFinite DEF Counts
    <3>. QED  BY <3>1
  <2>5. CASE group.read # S!Unknown /\ ~S!HasTombstones(stream, group.last)
    BY <2>1, <2>2, <2>4, <2>5 DEF S!Lag, ReadIsExact
  <2>6. CASE ~(group.read # S!Unknown /\ ~S!HasTombstones(stream, group.last))
    BY <2>2, <2>3, <2>4, <2>6 DEF S!Lag, ReadIsExact
  <2>. QED  BY <2>5, <2>6
<1>. QED  BY <1>1, LagInvariance, PTL

-----------------------------------------------------------------------------
(* The expiry mirrors.                                                     *)

\* What is committed for the key, and what an operation yields.
Committed(val, elems, ttl) == [val |-> val, elems |-> elems, ttl |-> ttl]
Sound(d) ==
  /\ d = Committed(d.val, d.elems, d.ttl)
  /\ d.val \in {"none", "string", "coll"} /\ d.ttl \in Int /\ d.elems \in BOOLEAN
  /\ d.elems <=> d.val = "coll"
  /\ d.val = "none" => d.ttl = X!Never

\* Told all it is owed, an index that had the deadline has the new one.
Ends(owes, ttl, otherwise) ==
  IF owes = <<>> THEN ttl = otherwise ELSE ttl = owes[Len(owes)]
Yields(r) ==
  /\ r = [to |-> r.to, owes |-> r.owes]
  /\ Sound(r.to) /\ r.owes \in Seq(Int) /\ Ends(r.owes, r.to.ttl, durable.ttl)

\* Both mirrors are up to date.
Agree == index = durable.ttl /\ (durable.val = "coll" => colls)
Resumed == {X!Idle, [at |-> "incr"]}

\* The only thread under way is at p: what it has still to do brings the mirrors
\* up to date.
Here(p) ==
  /\ p.at \in {"idle", "executor", "after", "purge", "recheck", "ttl", "put", "lookup", "bury",
               "incr", "cleared", "scanned"}
  /\ Sound(durable) /\ (index # X!Never => any) /\ any \in BOOLEAN /\ colls \in BOOLEAN
  /\ p.at \notin {"after", "cleared", "scanned"} => Agree
  /\ p.at = "after" =>
       /\ p = [at |-> "after", owes |-> p.owes, created |-> p.created, then |-> p.then]
       /\ p.owes \in Seq(Int) /\ p.created \in BOOLEAN
       /\ Ends(p.owes, durable.ttl, index)
       /\ durable.val = "coll" => colls \/ p.created
       /\ \/ p.then = X!Idle
          \/ /\ p.then = [at |-> "recheck", since |-> p.then.since, then |-> p.then.then]
             /\ p.then.since \in Int /\ durable.ttl > p.then.since /\ p.then.then \in Resumed
  /\ p.at = "purge" => p = X!Purging(p.since, p.then) /\ p.since \in Int /\ p.since <= now
     /\ p.then \in Resumed
  /\ p.at = "recheck" => p.since \in Int /\ index > p.since /\ p.then \in Resumed
  /\ p.at \in {"ttl", "put"} => durable.val # "coll"
  /\ p.at = "put" => p.clear \in BOOLEAN /\ (p.clear <=> index # X!Never)
  /\ p.at \in {"lookup", "bury"} => ~colls /\ index = X!Never
  /\ p.at \in {"cleared", "scanned"} => index = X!Never
  /\ p.at = "cleared" /\ durable.val = "coll" => colls
  /\ p.at = "scanned" => p.ttl = durable.ttl /\ p.elems = durable.elems

Alone(t) == \A u \in X!Threads : u # t => thread[u] = X!Idle

MirrorInv ==
  /\ thread = [t \in X!Threads |-> thread[t]] /\ now \in 0..MaxNow /\ met \in BOOLEAN
  /\ ~met => \E t \in X!Threads : Alone(t) /\ Here(thread[t])

\* The mirrors count threads as this module does.
LEMMA SameCount == \A T : X!Cardinality(T) = Cardinality(T)
BY DEF X!Cardinality, Cardinality

\* Never is later than the clock gets.
LEMMA NeverIsLate == X!Never \in Int /\ \A n \in 0..MaxNow : n < X!Never
BY MirrorAssumption DEF X!Never

\* One more deadline told.
LEMMA OneMore ==
  ASSUME NEW owes \in Seq(Int), NEW ttl \in Int, NEW since
  PROVE  Append(owes, ttl) \in Seq(Int) /\ Ends(Append(owes, ttl), ttl, since)
BY AppendProperties DEF Ends

\* A key that is deleted has no value, no element and no deadline.
LEMMA DeletedYields ==
  ASSUME NEW d, Sound(d)
  PROVE  /\ X!Deleted(d) = [to |-> Committed("none", FALSE, X!Never), owes |-> X!Deleted(d).owes]
         /\ X!Deleted(d).owes = IF d.ttl = X!Never THEN <<>> ELSE <<X!Never>>
         /\ Sound(X!Deleted(d).to) /\ X!Deleted(d).to.val = "none" /\ X!Deleted(d).to.ttl = X!Never
<1>1. X!Deleted(d).to = Committed("none", FALSE, X!Never)
  BY DEF X!Deleted, Sound, Committed
<1>2. Sound(Committed("none", FALSE, X!Never))
  BY NeverIsLate DEF Sound, Committed
<1>. QED  BY <1>1, <1>2 DEF X!Deleted, Committed

\* What Load yields is sound, and the index owes what it is told.
LEMMA LoadYields ==
  ASSUME Sound(durable)
  PROVE  /\ Yields(X!Load(durable))
         /\ X!Load(durable).to.val = "coll" => durable.val = "coll"
<1>1. CASE durable.ttl <= now
  <2>1. X!Load(durable) = X!Deleted(durable)
    BY <1>1 DEF X!Load
  <2>2. Sound(X!Deleted(durable).to) /\ X!Deleted(durable).to.ttl = X!Never
        /\ X!Deleted(durable).to.val = "none"
        /\ X!Deleted(durable) = [to |-> X!Deleted(durable).to, owes |-> X!Deleted(durable).owes]
    BY DeletedYields DEF Committed
  <2>3. CASE durable.ttl = X!Never
    <3>1. X!Deleted(durable).owes = <<>>
      BY <2>3, DeletedYields
    <3>2. <<>> \in Seq(Int)
      OBVIOUS
    <3>. QED  BY <2>1, <2>2, <2>3, <3>1, <3>2 DEF Yields, Ends
  <2>4. CASE durable.ttl # X!Never
    <3>1. X!Deleted(durable).owes = <<X!Never>>
      BY <2>4, DeletedYields
    <3>2. <<X!Never>> \in Seq(Int) /\ Ends(<<X!Never>>, X!Never, durable.ttl)
      BY NeverIsLate DEF Ends
    <3>. QED  BY <2>1, <2>2, <3>1, <3>2 DEF Yields
  <2>. QED  BY <2>1, <2>2, <2>3, <2>4
<1>2. CASE ~ (durable.ttl <= now)
  BY <1>2 DEF X!Load, Yields, Ends
<1>. QED  BY <1>1, <1>2

\* set_ttl tells the index the deadline it writes.
LEMMA TimedYields ==
  ASSUME NEW r, Yields(r), NEW ttl \in Int, ttl # X!Never => r.to.val # "none"
  PROVE  Yields(X!Timed(r, ttl)) /\ X!Timed(r, ttl).to.val = r.to.val
<1>1. CASE ttl = X!Never /\ r.to.ttl = X!Never
  BY <1>1 DEF X!Timed
<1>2. CASE ~ (ttl = X!Never /\ r.to.ttl = X!Never)
  <2>. DEFINE d == [r.to EXCEPT !.ttl = ttl]
              o == Append(r.owes, ttl)
  <2>1. X!Timed(r, ttl) = [to |-> d, owes |-> o]
    BY <1>2 DEF X!Timed
  <2>2. d = Committed(r.to.val, r.to.elems, ttl)
    <3>1. r.to = Committed(r.to.val, r.to.elems, r.to.ttl)
      BY DEF Yields, Sound
    <3>2. [Committed(r.to.val, r.to.elems, r.to.ttl) EXCEPT !.ttl = ttl]
            = Committed(r.to.val, r.to.elems, ttl)
      BY DEF Committed
    <3>. QED  BY <3>1, <3>2
  <2>3. Sound(d) /\ d.val = r.to.val /\ d.ttl = ttl
    BY <2>2, NeverIsLate DEF Yields, Sound, Committed
  <2>4. o \in Seq(Int) /\ Ends(o, ttl, durable.ttl)
    BY OneMore DEF Yields
  <2>. HIDE DEF d, o
  <2>. QED  BY <2>1, <2>3, <2>4 DEF Yields
<1>. QED  BY <1>1, <1>2

\* DEL removes the value, the elements and the deadline together.
LEMMA EmptiedYields ==
  ASSUME NEW r, Yields(r)
  PROVE  Yields(X!Emptied(r)) /\ X!Emptied(r).to.val = "none"
<1>. DEFINE d == X!Deleted(r.to)
<1>1. /\ Sound(d.to) /\ d.to.ttl = X!Never /\ d.to.val = "none"
      /\ d.owes = IF r.to.ttl = X!Never THEN <<>> ELSE <<X!Never>>
  BY DeletedYields DEF Yields
<1>2. X!Emptied(r) = [to |-> d.to, owes |-> r.owes \o d.owes]
  BY DEF X!Emptied
<1>3. r.owes \in Seq(Int) /\ Ends(r.owes, r.to.ttl, durable.ttl)
  BY DEF Yields
<1>. HIDE DEF d
<1>4. CASE r.to.ttl = X!Never
  <2>1. r.owes \o d.owes = r.owes
    BY <1>1, <1>3, <1>4, ConcatEmptySeq
  <2>. QED  BY <1>1, <1>2, <1>3, <1>4, <2>1 DEF Yields
<1>5. CASE r.to.ttl # X!Never
  <2>1. r.owes \o d.owes = Append(r.owes, X!Never)
    BY <1>1, <1>3, <1>5, NeverIsLate, AppendIsConcat
  <2>2. Append(r.owes, X!Never) \in Seq(Int) /\ Ends(Append(r.owes, X!Never), X!Never, durable.ttl)
    BY <1>3, NeverIsLate, OneMore
  <2>3. X!Emptied(r).to = d.to /\ X!Emptied(r).owes = Append(r.owes, X!Never)
    BY <1>2, <2>1
  <2>. QED  BY <1>1, <1>2, <2>2, <2>3 DEF Yields
<1>. QED  BY <1>4, <1>5

\* The parts of a pair of a state and what is owed.
LEMMA FieldsOf == \A s, a, b : s = [to |-> a, owes |-> b] => s.to = a /\ s.owes = b
OBVIOUS

\* SET writes a string over whatever is there.
LEMMA StringYields ==
  ASSUME NEW r, Yields(r),
         NEW str, str = [r EXCEPT !.to.val = "string",
         !.to.elems = IF r.to.val = "coll" THEN FALSE ELSE @]
  PROVE  Yields(str) /\ str.to.val = "string"
<1>1. r.to = Committed(r.to.val, r.to.elems, r.to.ttl) /\ r = [to |-> r.to, owes |-> r.owes]
      /\ r.to.elems \in BOOLEAN
      /\ (r.to.elems <=> r.to.val = "coll")
  BY DEF Yields, Sound
<1>. DEFINE d == Committed("string", FALSE, r.to.ttl)
<1>2. (IF r.to.val = "coll" THEN FALSE ELSE r.to.elems) = FALSE
  BY <1>1
<1>3. [r.to EXCEPT !.val = "string"] = Committed("string", r.to.elems, r.to.ttl)
  BY <1>1 DEF Committed
<1>4. [Committed("string", r.to.elems, r.to.ttl) EXCEPT !.elems = FALSE] = d
  <2>1. PICK v, e, t, no : v = "string" /\ e = r.to.elems /\ t = r.to.ttl /\ no = FALSE
    OBVIOUS
  <2>2. [Committed(v, e, t) EXCEPT !.elems = no] = Committed(v, no, t)
    BY DEF Committed
  <2>. QED  BY <2>1, <2>2
<1>5. str = [to |-> d, owes |-> r.owes]
  <2>1. str = [to |-> [[r.to EXCEPT !.val = "string"]
                       EXCEPT !.elems = IF r.to.val = "coll" THEN FALSE ELSE r.to.elems],
               owes |-> r.owes]
    BY <1>1
  <2>. QED  BY <2>1, <1>2, <1>3, <1>4
<1>6. Sound(d) /\ d.val = "string" /\ d.ttl = r.to.ttl
  BY DEF Sound, Committed, Yields
<1>. HIDE DEF d
<1>7. str.to = d /\ str.owes = r.owes
  BY <1>5, FieldsOf, Zenon
<1>. QED  BY <1>5, <1>6, <1>7 DEF Yields

\* HSET writes a header and an element.
LEMMA CollectionYields ==
  ASSUME NEW r, Yields(r),
         NEW c, c = [r EXCEPT !.to.val = "coll", !.to.elems = TRUE]
  PROVE  Yields(c)
<1>1. r.to = Committed(r.to.val, r.to.elems, r.to.ttl) /\ r = [to |-> r.to, owes |-> r.owes]
  BY DEF Yields, Sound
<1>. DEFINE d == Committed("coll", TRUE, r.to.ttl)
<1>3. [r.to EXCEPT !.val = "coll"] = Committed("coll", r.to.elems, r.to.ttl)
  BY <1>1 DEF Committed
<1>4. [Committed("coll", r.to.elems, r.to.ttl) EXCEPT !.elems = TRUE] = d
  <2>1. PICK v, e, t, yes : v = "coll" /\ e = r.to.elems /\ t = r.to.ttl /\ yes = TRUE
    OBVIOUS
  <2>2. [Committed(v, e, t) EXCEPT !.elems = yes] = Committed(v, yes, t)
    BY DEF Committed
  <2>. QED  BY <2>1, <2>2
<1>5. c = [to |-> d, owes |-> r.owes]
  <2>1. c = [to |-> [[r.to EXCEPT !.val = "coll"] EXCEPT !.elems = TRUE], owes |-> r.owes]
    BY <1>1
  <2>. QED  BY <2>1, <1>3, <1>4
<1>6. Sound(d) /\ d.val = "coll" /\ d.ttl = r.to.ttl
  BY DEF Sound, Committed, Yields
<1>. HIDE DEF d
<1>7. c.to = d /\ c.owes = r.owes
  BY <1>5, FieldsOf, Zenon
<1>. QED  BY <1>5, <1>6, <1>7 DEF Yields

\* Every command on the commit path keeps value, elements and deadline together
\* and tells its caller every deadline it writes.
LEMMA RunYields ==
  ASSUME NEW cmd \in X!Commands, Sound(durable), now \in 0..MaxNow
  PROVE  Yields(X!Run(cmd))
<1>. DEFINE r == X!Load(durable)
            str == [r EXCEPT !.to.val = "string",
            !.to.elems = IF r.to.val = "coll" THEN FALSE ELSE @]
            coll == [r EXCEPT !.to.val = "coll", !.to.elems = TRUE]
            there == r.to.val # "none"
<1>1. Yields(r)
  BY LoadYields
<1>2. Yields(str) /\ str.to.val = "string"
  BY <1>1, StringYields
<1>3. Yields(coll)
  BY <1>1, CollectionYields
<1>4. Yields([to |-> durable, owes |-> <<>>])
  <2>1. <<>> \in Seq(Int)
    OBVIOUS
  <2>. QED  BY <2>1 DEF Yields, Ends
<1>5. X!Never \in Int /\ now + X!Lifetime \in Int
  BY NeverIsLate, MirrorAssumption DEF X!Lifetime
<1>6. Yields(X!Timed(str, X!Never)) /\ Yields(X!Timed(str, now + X!Lifetime))
  BY <1>2, <1>5, TimedYields
<1>7. Yields(X!Emptied(r))
  BY <1>1, EmptiedYields
<1>8. there => Yields(X!Timed(r, X!Never)) /\ Yields(X!Timed(r, now + X!Lifetime))
  BY <1>1, <1>5, TimedYields
<1>9. X!Run(cmd) = CASE cmd = "set" -> X!Timed(str, X!Never)
                     [] cmd = "setex" -> X!Timed(str, now + X!Lifetime)
                     [] cmd = "hset" -> IF r.to.val = "string"
                                          THEN [to |-> durable, owes |-> <<>>] ELSE coll
                     [] cmd = "del" -> IF there THEN X!Emptied(r) ELSE r
                     [] cmd = "expire" -> IF there THEN X!Timed(r, now + X!Lifetime) ELSE r
                     [] cmd = "persist" -> IF there THEN X!Timed(r, X!Never) ELSE r
  BY DEF X!Run
<1>. HIDE DEF r, str, coll
<1>. QED  BY <1>1, <1>2, <1>3, <1>4, <1>6, <1>7, <1>8, <1>9 DEF X!Commands

\* A command that is alone after a step was alone before it.
LEMMA WasAlone ==
  ASSUME MirrorInv, NEW t \in X!Threads, NEW p, X!Goto(t, p), p # X!Idle \/ thread[t] # X!Idle
  PROVE  /\ met' \in BOOLEAN /\ thread' = [u \in X!Threads |-> thread'[u]] /\ thread'[t] = p
         /\ ~met' => ~met /\ Alone(t) /\ Alone(t)' /\ Here(thread[t])
<1>1. /\ thread' = [thread EXCEPT ![t] = p] /\ thread = [u \in X!Threads |-> thread[u]]
      /\ met' = (met \/ X!Cardinality({x \in X!Threads : thread'[x] # X!Idle}) > 1)
      /\ met \in BOOLEAN
  BY DEF X!Goto, MirrorInv
<1>2. /\ thread' = [u \in X!Threads |-> thread'[u]] /\ thread'[t] = p
      /\ \A u \in X!Threads : u # t => thread'[u] = thread[u]
  BY <1>1
<1>3. met' \in BOOLEAN
  BY <1>1
<1>4. ASSUME ~met' PROVE ~met /\ Alone(t) /\ Alone(t)' /\ Here(thread[t])
  <2>. DEFINE busy == {x \in X!Threads : thread'[x] # X!Idle}
  <2>1. ~met /\ ~ (Cardinality(busy) > 1)
    BY <1>1, <1>4, SameCount, Zenon
  <2>2. PICK o \in X!Threads : Alone(o) /\ Here(thread[o])
    BY <2>1 DEF MirrorInv
  <2>3. Alone(t) /\ Here(thread[t])
    <3>1. CASE o = t
      BY <2>2, <3>1
    <3>2. CASE o # t /\ thread[o] = X!Idle
      BY <2>2, <3>2 DEF Alone
    <3>3. CASE o # t /\ thread[o] # X!Idle
      <4>1. thread[t] = X!Idle
        BY <2>2, <3>3 DEF Alone
      <4>2. {o, t} \subseteq busy
        BY <1>2, <3>3, <4>1
      <4>3. IsFiniteSet(busy)
        <5>1. IsFiniteSet(X!Threads)
          BY MirrorAssumption, FS_Singleton, FS_Union DEF X!Threads
        <5>. QED  BY <5>1, FS_Subset
      <4>4. IsFiniteSet({o, t}) /\ Cardinality({o, t}) = 2
        <5>1. IsFiniteSet({o}) /\ Cardinality({o}) = 1
          BY FS_Singleton
        <5>2. {o} \cup {t} = {o, t} /\ t \notin {o}
          BY <3>3
        <5>. QED  BY <5>1, <5>2, FS_AddElement
      <4>5. Cardinality({o, t}) <= Cardinality(busy) /\ Cardinality(busy) \in Nat
        BY <4>2, <4>3, FS_Subset, FS_CardinalityType
      <4>. QED  BY <2>1, <4>4, <4>5
    <3>. QED  BY <3>1, <3>2, <3>3
  <2>4. Alone(t)'
    BY <1>2, <2>3 DEF Alone
  <2>. QED  BY <2>1, <2>3, <2>4
<1>. QED  BY <1>2, <1>3, <1>4

\* So a step keeps the invariant when it leaves its own thread in a good place.
LEMMA GoodStep ==
  ASSUME MirrorInv, NEW t \in X!Threads, NEW p, X!Goto(t, p), p # X!Idle \/ thread[t] # X!Idle,
         now' = now,
         ~met' /\ Alone(t) /\ Here(thread[t]) /\ thread'[t] = p => Here(thread[t])'
  PROVE  MirrorInv'
<1>1. CASE met'
  BY <1>1, WasAlone DEF MirrorInv
<1>2. CASE ~met'
  BY <1>2, WasAlone DEF MirrorInv
<1>. QED  BY <1>1, <1>2

\* run, run_writes, exec_multi: the operation owes its caller what it wrote.
LEMMA ExecuteDone == ASSUME MirrorInv, NEW t \in X!Threads, X!Execute(t) PROVE MirrorInv'
<1>. PICK cmd \in X!Commands :
       LET r == X!Run(cmd)
       IN  /\ durable' = r.to
           /\ X!Goto(t, [at |-> "after", owes |-> r.owes,
                         created |-> r.to.val = "coll" /\ X!Load(durable).to.val # "coll",
                         then |-> X!Idle])
  BY DEF X!Execute, X!Commands
<1>. DEFINE r == X!Run(cmd)
            new == r.to.val = "coll" /\ X!Load(durable).to.val # "coll"
            p == [at |-> "after", owes |-> r.owes, created |-> new, then |-> X!Idle]
<1>1. durable' = r.to /\ X!Goto(t, p) /\ p.at = "after" /\ p.at # "idle"
      /\ UNCHANGED <<index, any, colls, now>>
      /\ thread[t].at \in {"idle", "executor"}
  BY DEF X!Execute, X!mirrors
<1>2. p # X!Idle
  BY DEF X!Idle
<1>. HIDE DEF r
<1>3. ASSUME Here(thread[t]), thread'[t] = p PROVE Here(thread[t])'
  <2>1. /\ Sound(durable) /\ Agree /\ (index # X!Never => any) /\ any \in BOOLEAN
           /\ colls \in BOOLEAN
    BY <1>1, <1>3 DEF Here
  <2>2. Yields(r)
    BY <2>1, RunYields DEF r, MirrorInv
  <2>3. durable'.val = "coll" => colls \/ new
    BY <1>1, <2>1, LoadYields DEF Agree
  <2>4. Sound(durable') /\ r.owes \in Seq(Int) /\ Ends(r.owes, durable'.ttl, index')
    BY <1>1, <2>1, <2>2 DEF Yields, Agree
  <2>5. /\ p.at = "after" /\ p.owes = r.owes /\ p.created = new /\ p.then = X!Idle
           /\ new \in BOOLEAN
        /\ p = [at |-> "after", owes |-> p.owes, created |-> p.created, then |-> p.then]
    OBVIOUS
  <2>. HIDE DEF p, new
  <2>. QED  BY <1>1, <1>3, <2>1, <2>3, <2>4, <2>5 DEF Here
<1>. HIDE DEF p
<1>. QED  BY <1>1, <1>2, <1>3, GoodStep

\* What is still owed when the first of it was told.
LEMMA OneLess ==
  ASSUME NEW owes \in Seq(Int), owes # <<>>, NEW ttl, NEW since, Ends(owes, ttl, since)
  PROVE  Head(owes) \in Int /\ Tail(owes) \in Seq(Int) /\ Ends(Tail(owes), ttl, Head(owes))
<1>1. Head(owes) \in Int /\ Tail(owes) \in Seq(Int)
  BY HeadTailProperties
<1>2. /\ Len(owes) \in Nat \ {0} /\ Len(Tail(owes)) = Len(owes) - 1
      /\ \A i \in 1..Len(Tail(owes)) : Tail(owes)[i] = owes[i + 1]
      /\ Head(owes) = owes[1]
  BY HeadTailProperties, EmptySeq
<1>3. CASE Tail(owes) = <<>>
  <2>1. Len(owes) = 1
    <3>1. \A s : s = <<>> => Len(s) = 0
      OBVIOUS
    <3>2. \A m \in Nat : m - 1 = 0 => m = 1
      OBVIOUS
    <3>3. Len(owes) \in Nat /\ Len(owes) - 1 = 0
      BY <1>2, <1>3, <3>1, Zenon
    <3>. QED  BY <3>2, <3>3, Zenon
  <2>. QED  BY <1>1, <1>2, <1>3, <2>1 DEF Ends
<1>4. CASE Tail(owes) # <<>>
  <2>1. Len(Tail(owes)) \in Nat \ {0}
    BY <1>1, <1>4, EmptySeq
  <2>2. Tail(owes)[Len(Tail(owes))] = owes[Len(owes)]
    BY <1>2, <2>1
  <2>. QED  BY <1>1, <1>4, <2>2 DEF Ends
<1>. QED  BY <1>3, <1>4

\* after_commit brings the mirrors closer, and is done when nothing is owed.
LEMMA AfterCommitDone == ASSUME MirrorInv, NEW t \in X!Threads, X!AfterCommit(t) PROVE MirrorInv'
<1>. DEFINE p == thread[t]
<1>1. p.at = "after" /\ UNCHANGED <<durable, now>> /\ p # X!Idle
  BY DEF X!AfterCommit, X!Idle
<1>2. CASE p.created
  <2>. DEFINE q == [p EXCEPT !.created = FALSE]
  <2>1. colls' = TRUE /\ X!Goto(t, q) /\ UNCHANGED <<index, any>>
    BY <1>2 DEF X!AfterCommit
  <2>2. ASSUME Here(p), thread'[t] = q PROVE Here(thread[t])'
    <3>1. q = [at |-> "after", owes |-> p.owes, created |-> FALSE, then |-> p.then]
      BY <1>1, <2>2 DEF Here
    <3>2. /\ q.at = "after" /\ q.owes = p.owes /\ q.created = FALSE /\ q.then = p.then
          /\ q = [at |-> "after", owes |-> q.owes, created |-> q.created, then |-> q.then]
      BY <3>1
    <3>. HIDE DEF q, p
    <3>. QED  BY <1>1, <2>1, <2>2, <3>2 DEF Here, Agree
  <2>. HIDE DEF q
  <2>. QED  BY <1>1, <2>1, <2>2, GoodStep
<1>3. CASE ~p.created /\ p.owes # <<>>
  <2>. DEFINE q == [p EXCEPT !.owes = Tail(@)]
  <2>1. index' = Head(p.owes) /\ any' = (any \/ Head(p.owes) # X!Never) /\ X!Goto(t, q)
        /\ UNCHANGED colls
    BY <1>3 DEF X!AfterCommit
  <2>2. ASSUME Here(p), thread'[t] = q PROVE Here(thread[t])'
    <3>1. q = [at |-> "after", owes |-> Tail(p.owes), created |-> p.created, then |-> p.then]
      BY <1>1, <2>2 DEF Here
    <3>2. /\ q.at = "after" /\ q.owes = Tail(p.owes) /\ q.created = p.created /\ q.then = p.then
          /\ q = [at |-> "after", owes |-> q.owes, created |-> q.created, then |-> q.then]
      BY <3>1
    <3>3. Head(p.owes) \in Int /\ Tail(p.owes) \in Seq(Int)
          /\ Ends(Tail(p.owes), durable.ttl, Head(p.owes))
      BY <1>1, <1>3, <2>2, OneLess DEF Here
    <3>4. (index' # X!Never => any') /\ any' \in BOOLEAN
      BY <2>1, <2>2 DEF Here
    <3>. HIDE DEF q, p
    <3>. QED  BY <1>1, <2>1, <2>2, <3>2, <3>3, <3>4 DEF Here, Agree
  <2>. HIDE DEF q
  <2>. QED  BY <1>1, <2>1, <2>2, GoodStep
<1>4. CASE ~p.created /\ p.owes = <<>>
  <2>1. X!Goto(t, p.then) /\ UNCHANGED <<index, any, colls>>
    BY <1>4 DEF X!AfterCommit, X!mirrors
  <2>2. ASSUME Here(p), thread'[t] = p.then PROVE Here(thread[t])'
    <3>1. durable.ttl = index /\ Agree
      BY <1>1, <1>4, <2>2 DEF Here, Ends, Agree
    <3>2. CASE p.then = X!Idle
      <4>1. thread'[t].at = "idle"
        BY <2>2, <3>2 DEF X!Idle
      <4>. QED  BY <1>1, <2>1, <2>2, <3>1, <4>1 DEF Here, Agree
    <3>3. CASE p.then # X!Idle
      <4>1. /\ p.then = [at |-> "recheck", since |-> p.then.since, then |-> p.then.then]
            /\ p.then.since \in Int /\ durable.ttl > p.then.since /\ p.then.then \in Resumed
        BY <1>1, <2>2, <3>3 DEF Here
      <4>2. p.then.at = "recheck"
        BY <4>1
      <4>. HIDE DEF p
      <4>. QED  BY <1>1, <2>1, <2>2, <3>1, <4>1, <4>2 DEF Here, Agree
    <3>. QED  BY <3>2, <3>3
  <2>. QED  BY <1>1, <2>1, <2>2, GoodStep
<1>. QED  BY <1>2, <1>3, <1>4

\* purge decides on the durable deadline; what it leaves is not overdue.
LEMMA PurgeDone == ASSUME MirrorInv, NEW t \in X!Threads, X!Purge(t) PROVE MirrorInv'
<1>. DEFINE r == X!Load(durable)
            p == thread[t]
            back == [at |-> "recheck", since |-> p.since, then |-> p.then]
            q == [at |-> "after", owes |-> r.owes, created |-> FALSE, then |-> back]
<1>1. /\ p.at = "purge" /\ p # X!Idle /\ durable' = r.to /\ X!Goto(t, q)
      /\ UNCHANGED <<index, any, colls, now>>
  BY DEF X!Purge, X!Idle, X!mirrors
<1>2. ASSUME Here(p), thread'[t] = q PROVE Here(thread[t])'
  <2>1. /\ Sound(durable) /\ Agree /\ (index # X!Never => any) /\ any \in BOOLEAN
           /\ colls \in BOOLEAN
        /\ p.since \in Int /\ p.since <= now /\ p.then \in Resumed
    BY <1>1, <1>2 DEF Here
  <2>2. Yields(r) /\ (r.to.val = "coll" => durable.val = "coll")
    BY <2>1, LoadYields
  <2>3. r.to.ttl > p.since
    <3>1. CASE durable.ttl <= now
      <4>1. r.to.ttl = X!Never
        BY <2>1, <3>1, DeletedYields DEF X!Load
      <4>. QED  BY <2>1, <4>1, NeverIsLate, MirrorAssumption DEF MirrorInv
    <3>2. CASE ~ (durable.ttl <= now)
      <4>1. r.to = durable
        BY <3>2 DEF X!Load
      <4>. QED  BY <2>1, <3>2, <4>1, MirrorAssumption DEF MirrorInv, Sound
    <3>. QED  BY <3>1, <3>2
  <2>4. Sound(durable') /\ r.owes \in Seq(Int) /\ Ends(r.owes, durable'.ttl, index')
        /\ (durable'.val = "coll" => colls')
    BY <1>1, <2>1, <2>2 DEF Yields, Agree
  <2>5. /\ q.at = "after" /\ q.owes = r.owes /\ q.created = FALSE /\ q.then = back
        /\ q = [at |-> "after", owes |-> q.owes, created |-> q.created, then |-> q.then]
        /\ back = [at |-> "recheck", since |-> back.since, then |-> back.then]
        /\ back.since = p.since /\ back.then = p.then
    OBVIOUS
  <2>6. durable'.ttl > back.since /\ back.since \in Int /\ back.then \in Resumed
    BY <1>1, <2>1, <2>3, <2>5
  <2>. HIDE DEF q, back, p, r
  <2>. QED  BY <1>1, <1>2, <2>1, <2>4, <2>5, <2>6 DEF Here
<1>. HIDE DEF q, p, r
<1>. QED  BY <1>1, <1>2, GoodStep DEF p

\* After a purge the entry is not overdue by the time that was read before it.
LEMMA RecheckDone == ASSUME MirrorInv, NEW t \in X!Threads, X!Recheck(t) PROVE MirrorInv'
<1>. DEFINE p == thread[t]
            q == IF any /\ index <= p.since THEN [at |-> "drop", then |-> p.then] ELSE p.then
<1>1. p.at = "recheck" /\ p # X!Idle /\ X!Goto(t, q)
      /\ UNCHANGED <<durable, index, any, colls, now>>
  BY DEF X!Recheck, X!Idle, X!mirrors
<1>2. ASSUME Here(p), thread'[t] = q PROVE Here(thread[t])'
  <2>1. /\ p.since \in Int /\ index > p.since /\ p.then \in Resumed /\ Agree /\ Sound(durable)
    BY <1>1, <1>2 DEF Here
  <2>2. q = p.then
    BY <2>1 DEF Agree, Sound
  <2>3. thread'[t].at = "idle" \/ thread'[t].at = "incr"
    BY <1>2, <2>1, <2>2 DEF Resumed, X!Idle
  <2>. HIDE DEF p, q
  <2>. QED  BY <1>1, <1>2, <2>1, <2>3 DEF Here, Agree
<1>. HIDE DEF q
<1>. QED  BY <1>1, <1>2, GoodStep

\* No entry is dropped that way while commands come one at a time.
LEMMA DropDone == ASSUME MirrorInv, NEW t \in X!Threads, X!Drop(t) PROVE MirrorInv'
<1>1. thread[t].at = "drop" /\ thread[t] # X!Idle /\ X!Goto(t, thread[t].then) /\ now' = now
  BY DEF X!Drop, X!Idle
<1>2. ~ Here(thread[t])
  BY <1>1 DEF Here
<1>. QED  BY <1>1, <1>2, GoodStep

\* Active expiry starts from an entry that is overdue.
LEMMA ReapDone == ASSUME MirrorInv, X!Reap PROVE MirrorInv'
<1>. DEFINE q == X!Purging(now, X!Idle)
<1>1. /\ Reaper \in X!Threads /\ thread[Reaper] = X!Idle /\ X!Goto(Reaper, q)
      /\ UNCHANGED <<durable, index, any, colls, now>>
  BY DEF X!Reap, X!mirrors, X!Threads
<1>2. q.at = "purge" /\ q.since = now /\ q.then = X!Idle /\ q = X!Purging(q.since, q.then)
      /\ q # X!Idle
  BY DEF X!Purging, X!Idle
<1>3. ASSUME Here(thread[Reaper]), thread'[Reaper] = q PROVE Here(thread[Reaper])'
  <2>1. thread[Reaper].at = "idle"
    BY <1>1 DEF X!Idle
  <2>2. now' \in Int /\ now' <= now'
    BY <1>1, MirrorAssumption DEF MirrorInv
  <2>. HIDE DEF q
  <2>. QED  BY <1>1, <1>2, <1>3, <2>1, <2>2 DEF Here, Agree, Resumed
<1>. HIDE DEF q
<1>. QED  BY <1>1, <1>2, <1>3, GoodStep

\* A run of SETs goes on only over a key that is no collection.
LEMMA CheckSetDone == ASSUME MirrorInv, NEW t \in X!Threads, X!CheckSet(t) PROVE MirrorInv'
<1>. DEFINE q == [at |-> IF colls /\ durable.val = "coll" THEN "executor" ELSE "ttl"]
<1>1. thread[t] = X!Idle /\ X!Goto(t, q) /\ UNCHANGED <<durable, index, any, colls, now>>
  BY DEF X!CheckSet, X!mirrors
<1>2. q.at \in {"executor", "ttl"} /\ (q.at = "ttl" => ~ (colls /\ durable.val = "coll"))
      /\ q # X!Idle
  BY DEF X!Idle
<1>3. ASSUME Here(thread[t]), thread'[t] = q PROVE Here(thread[t])'
  <2>1. thread[t].at = "idle"
    BY <1>1 DEF X!Idle
  <2>. HIDE DEF q
  <2>. QED  BY <1>1, <1>2, <1>3, <2>1 DEF Here, Agree
<1>. HIDE DEF q
<1>. QED  BY <1>1, <1>2, <1>3, GoodStep

\* It reads whether there is a deadline to clear.
LEMMA CheckTtlDone == ASSUME MirrorInv, NEW t \in X!Threads, X!CheckTtl(t) PROVE MirrorInv'
<1>. DEFINE q == [at |-> "put", clear |-> any /\ index # X!Never]
<1>1. thread[t].at = "ttl" /\ thread[t] # X!Idle /\ X!Goto(t, q)
      /\ UNCHANGED <<durable, index, any, colls, now>>
  BY DEF X!CheckTtl, X!mirrors, X!Idle
<1>2. q.at = "put" /\ q.clear \in BOOLEAN /\ (q.clear <=> any /\ index # X!Never)
  OBVIOUS
<1>3. ASSUME Here(thread[t]), thread'[t] = q PROVE Here(thread[t])'
  <2>. HIDE DEF q
  <2>. QED  BY <1>1, <1>2, <1>3 DEF Here, Agree
<1>. HIDE DEF q
<1>. QED  BY <1>1, <1>2, <1>3, GoodStep

\* A blind SET leaves no deadline, in the log or, when it has told it, in the index.
LEMMA PutSetDone == ASSUME MirrorInv, NEW t \in X!Threads, X!PutSet(t) PROVE MirrorInv'
<1>. DEFINE p == thread[t]
            d == [durable EXCEPT !.val = "string", !.ttl = IF p.clear THEN X!Never ELSE @]
            told == [at |-> "after", owes |-> <<X!Never>>, created |-> FALSE, then |-> X!Idle]
            q == IF p.clear THEN told ELSE X!Idle
<1>1. p.at = "put" /\ p # X!Idle /\ durable' = d /\ X!Goto(t, q)
      /\ UNCHANGED <<index, any, colls, now>>
  BY DEF X!PutSet, X!mirrors, X!Idle
<1>2. ASSUME Here(p), thread'[t] = q PROVE Here(thread[t])'
  <2>1. /\ Sound(durable) /\ Agree /\ (index # X!Never => any) /\ any \in BOOLEAN
           /\ colls \in BOOLEAN
        /\ durable.val # "coll" /\ p.clear \in BOOLEAN /\ (p.clear <=> index # X!Never)
    BY <1>1, <1>2 DEF Here
  <2>2. (IF p.clear THEN X!Never ELSE durable.ttl) = X!Never
    BY <2>1 DEF Agree
  <2>3. d = Committed("string", FALSE, X!Never)
    <3>1. durable = Committed(durable.val, FALSE, durable.ttl)
      BY <2>1 DEF Sound
    <3>2. PICK v, e, l, s, n : v = durable.val /\ e = FALSE /\ l = durable.ttl /\ s = "string"
               /\ n = X!Never
      OBVIOUS
    <3>3. [Committed(v, e, l) EXCEPT !.val = s] = Committed(s, e, l)
      BY DEF Committed
    <3>4. [Committed(s, e, l) EXCEPT !.ttl = n] = Committed(s, e, n)
      BY DEF Committed
    <3>. QED  BY <2>2, <3>1, <3>2, <3>3, <3>4
  <2>4. Sound(durable') /\ durable'.val = "string" /\ durable'.ttl = X!Never
    BY <1>1, <2>3, NeverIsLate DEF Sound, Committed
  <2>5. CASE p.clear
    <3>1. q.at = "after" /\ q.owes = <<X!Never>> /\ q.created = FALSE /\ q.then = X!Idle
          /\ q = [at |-> "after", owes |-> q.owes, created |-> q.created, then |-> q.then]
      BY <2>5
    <3>2. <<X!Never>> \in Seq(Int) /\ Ends(<<X!Never>>, durable'.ttl, index')
      BY <2>4, NeverIsLate DEF Ends
    <3>. HIDE DEF q, d, p
    <3>. QED  BY <1>1, <1>2, <2>1, <2>4, <3>1, <3>2 DEF Here, Agree
  <2>6. CASE ~p.clear
    <3>1. q = X!Idle /\ thread'[t].at = "idle" /\ index = X!Never
      BY <1>2, <2>1, <2>6 DEF X!Idle
    <3>. HIDE DEF q, d, p
    <3>. QED  BY <1>1, <1>2, <2>1, <2>4, <3>1 DEF Here, Agree
  <2>. QED  BY <2>5, <2>6
<1>. HIDE DEF q, d, p
<1>. QED  BY <1>1, <1>2, GoodStep DEF p

\* DEL takes its short way only while the mirrors are empty.
LEMMA CheckDelDone == ASSUME MirrorInv, NEW t \in X!Threads, X!CheckDel(t) PROVE MirrorInv'
<1>. DEFINE q == [at |-> "lookup"]
<1>1. thread[t] = X!Idle /\ ~colls /\ ~any /\ X!Goto(t, q)
      /\ UNCHANGED <<durable, index, any, colls, now>>
  BY DEF X!CheckDel, X!mirrors
<1>2. q.at = "lookup" /\ q # X!Idle
  BY DEF X!Idle
<1>3. ASSUME Here(thread[t]), thread'[t] = q PROVE Here(thread[t])'
  <2>1. thread[t].at = "idle"
    BY <1>1 DEF X!Idle
  <2>. HIDE DEF q
  <2>. QED  BY <1>1, <1>2, <1>3, <2>1 DEF Here, Agree
<1>. HIDE DEF q
<1>. QED  BY <1>1, <1>2, <1>3, GoodStep

\* It looks for the key.
LEMMA LookUpDone == ASSUME MirrorInv, NEW t \in X!Threads, X!LookUp(t) PROVE MirrorInv'
<1>. DEFINE q == IF durable.val = "none" THEN X!Idle ELSE [at |-> "bury"]
<1>1. thread[t].at = "lookup" /\ thread[t] # X!Idle /\ X!Goto(t, q)
      /\ UNCHANGED <<durable, index, any, colls, now>>
  BY DEF X!LookUp, X!mirrors, X!Idle
<1>2. q.at \in {"idle", "bury"}
  BY DEF X!Idle
<1>3. ASSUME Here(thread[t]), thread'[t] = q PROVE Here(thread[t])'
  <2>. HIDE DEF q
  <2>. QED  BY <1>1, <1>2, <1>3 DEF Here, Agree
<1>. HIDE DEF q
<1>. QED  BY <1>1, <1>2, <1>3, GoodStep

\* A tombstone over a key that has neither a deadline nor elements.
LEMMA BuryDone == ASSUME MirrorInv, NEW t \in X!Threads, X!Bury(t) PROVE MirrorInv'
<1>1. /\ thread[t].at = "bury" /\ thread[t] # X!Idle /\ X!Goto(t, X!Idle)
         /\ UNCHANGED <<index, any, colls, now>>
      /\ durable' = [durable EXCEPT !.val = "none"]
  BY DEF X!Bury, X!mirrors, X!Idle
<1>2. ASSUME Here(thread[t]), thread'[t] = X!Idle PROVE Here(thread[t])'
  <2>1. /\ Sound(durable) /\ Agree /\ any \in BOOLEAN /\ colls \in BOOLEAN /\ ~colls
           /\ index = X!Never
    BY <1>1, <1>2 DEF Here
  <2>2. durable = Committed(durable.val, FALSE, X!Never)
    BY <2>1 DEF Sound, Agree
  <2>3. durable' = Committed("none", FALSE, X!Never)
    <3>1. PICK v, e, l, s : v = durable.val /\ e = FALSE /\ l = X!Never /\ s = "none"
      OBVIOUS
    <3>2. [Committed(v, e, l) EXCEPT !.val = s] = Committed(s, e, l)
      BY DEF Committed
    <3>. QED  BY <1>1, <2>2, <3>1, <3>2
  <2>4. Sound(durable') /\ durable'.val = "none" /\ durable'.ttl = X!Never
    BY <2>3, NeverIsLate DEF Sound, Committed
  <2>5. thread'[t].at = "idle"
    BY <1>2 DEF X!Idle
  <2>. QED  BY <1>1, <2>1, <2>4, <2>5 DEF Here, Agree
<1>. QED  BY <1>1, <1>2, GoodStep

\* INCR purges first what the index says is overdue.
LEMMA CheckIncrDone == ASSUME MirrorInv, NEW t \in X!Threads, X!CheckIncr(t) PROVE MirrorInv'
<1>. DEFINE q == IF any /\ index <= now THEN X!Purging(now, [at |-> "incr"]) ELSE [at |-> "incr"]
<1>1. thread[t] = X!Idle /\ X!Goto(t, q) /\ UNCHANGED <<durable, index, any, colls, now>>
  BY DEF X!CheckIncr, X!mirrors
<1>2. /\ q # X!Idle /\ q.at \in {"purge", "incr"}
      /\ q.at = "purge" => q = X!Purging(q.since, q.then) /\ q.since = now /\ q.then \in Resumed
  BY DEF X!Purging, X!Idle, Resumed
<1>3. ASSUME Here(thread[t]), thread'[t] = q PROVE Here(thread[t])'
  <2>1. thread[t].at = "idle"
    BY <1>1 DEF X!Idle
  <2>2. now' \in Int /\ now' <= now'
    BY <1>1, MirrorAssumption DEF MirrorInv
  <2>. HIDE DEF q
  <2>. QED  BY <1>1, <1>2, <1>3, <2>1, <2>2 DEF Here, Agree
<1>. HIDE DEF q
<1>. QED  BY <1>1, <1>2, <1>3, GoodStep

\* It writes a string where there was one or nothing.
LEMMA IncrDone == ASSUME MirrorInv, NEW t \in X!Threads, X!Incr(t) PROVE MirrorInv'
<1>1. /\ thread[t].at = "incr" /\ thread[t] # X!Idle /\ X!Goto(t, X!Idle)
         /\ UNCHANGED <<index, any, colls, now>>
      /\ durable' = IF durable.val = "coll" THEN durable ELSE [durable EXCEPT !.val = "string"]
  BY DEF X!Incr, X!mirrors, X!Idle
<1>2. ASSUME Here(thread[t]), thread'[t] = X!Idle PROVE Here(thread[t])'
  <2>1. /\ Sound(durable) /\ Agree /\ (index # X!Never => any) /\ any \in BOOLEAN
           /\ colls \in BOOLEAN
    BY <1>1, <1>2 DEF Here
  <2>2. thread'[t].at = "idle"
    BY <1>2 DEF X!Idle
  <2>3. CASE durable.val = "coll"
    BY <1>1, <2>1, <2>2, <2>3 DEF Here, Agree
  <2>4. CASE durable.val # "coll"
    <3>1. durable = Committed(durable.val, FALSE, durable.ttl)
      BY <2>1, <2>4 DEF Sound
    <3>2. durable' = Committed("string", FALSE, durable.ttl)
      <4>1. PICK v, e, l, s : v = durable.val /\ e = FALSE /\ l = durable.ttl /\ s = "string"
        OBVIOUS
      <4>2. [Committed(v, e, l) EXCEPT !.val = s] = Committed(s, e, l)
        BY DEF Committed
      <4>. QED  BY <1>1, <2>4, <3>1, <4>1, <4>2
    <3>3. Sound(durable') /\ durable'.val = "string" /\ durable'.ttl = durable.ttl
      BY <2>1, <3>2 DEF Sound, Committed
    <3>. QED  BY <1>1, <2>1, <2>2, <3>3 DEF Here, Agree
  <2>. QED  BY <2>3, <2>4
<1>. QED  BY <1>1, <1>2, GoodStep

\* reload empties the index, then fills both mirrors from one snapshot.
LEMMA ReloadDone ==
  ASSUME MirrorInv, NEW t \in X!Threads, X!ReloadClear(t) \/ X!ReloadSnapshot(t) \/ X!ReloadFill(t)
  PROVE  MirrorInv'
<1>1. CASE X!ReloadClear(t)
  <2>. DEFINE q == [at |-> "cleared"]
  <2>1. thread[t] = X!Idle /\ X!Goto(t, q) /\ index' = X!Never
        /\ UNCHANGED <<durable, any, colls, now>>
    BY <1>1 DEF X!ReloadClear
  <2>2. q.at = "cleared" /\ q # X!Idle
    BY DEF X!Idle
  <2>3. ASSUME Here(thread[t]), thread'[t] = q PROVE Here(thread[t])'
    <3>1. thread[t].at = "idle"
      BY <2>1 DEF X!Idle
    <3>. HIDE DEF q
    <3>. QED  BY <2>1, <2>2, <2>3, <3>1 DEF Here, Agree
  <2>. HIDE DEF q
  <2>. QED  BY <2>1, <2>2, <2>3, GoodStep
<1>2. CASE X!ReloadSnapshot(t)
  <2>. DEFINE q == [at |-> "scanned", ttl |-> durable.ttl, elems |-> durable.elems]
  <2>1. /\ thread[t].at = "cleared" /\ thread[t] # X!Idle /\ X!Goto(t, q) /\ any' = FALSE
        /\ UNCHANGED <<durable, index, colls, now>>
    BY <1>2 DEF X!ReloadSnapshot, X!Idle
  <2>2. q.at = "scanned" /\ q.ttl = durable.ttl /\ q.elems = durable.elems
    OBVIOUS
  <2>3. ASSUME Here(thread[t]), thread'[t] = q PROVE Here(thread[t])'
    <3>. HIDE DEF q
    <3>. QED  BY <2>1, <2>2, <2>3 DEF Here
  <2>. HIDE DEF q
  <2>. QED  BY <2>1, <2>2, <2>3, GoodStep
<1>3. CASE X!ReloadFill(t)
  <2>1. /\ thread[t].at = "scanned" /\ thread[t] # X!Idle /\ X!Goto(t, X!Idle)
        /\ IF thread[t].ttl = X!Never THEN UNCHANGED <<index, any>> ELSE index' = thread[t].ttl
           /\ any' = TRUE
        /\ colls' = thread[t].elems /\ UNCHANGED <<durable, now>>
    BY <1>3 DEF X!ReloadFill, X!Idle
  <2>2. ASSUME Here(thread[t]), thread'[t] = X!Idle PROVE Here(thread[t])'
    <3>1. thread'[t].at = "idle"
      BY <2>2 DEF X!Idle
    <3>2. /\ Sound(durable) /\ index = X!Never /\ any \in BOOLEAN
          /\ thread[t].ttl = durable.ttl /\ thread[t].elems = durable.elems
      BY <2>1, <2>2 DEF Here
    <3>3. index' = durable.ttl /\ (index' # X!Never => any') /\ any' \in BOOLEAN
      BY <2>1, <3>2
    <3>4. colls' \in BOOLEAN /\ (durable.val = "coll" => colls')
      BY <2>1, <3>2 DEF Sound
    <3>. QED  BY <2>1, <3>1, <3>2, <3>3, <3>4 DEF Here, Agree
  <2>. QED  BY <2>1, <2>2, GoodStep
<1>. QED  BY <1>1, <1>2, <1>3

\* The inductive invariant of the mirrors: the only command under way has still to
\* do what brings them up to date.
THEOREM MirrorInvariance == X!Spec => []MirrorInv
<1>1. X!Init => MirrorInv
  <2>. SUFFICES ASSUME X!Init PROVE MirrorInv
    OBVIOUS
  <2>1. thread = [t \in X!Threads |-> X!Idle] /\ Reaper \in X!Threads
    BY DEF X!Init, X!Threads
  <2>2. Alone(Reaper) /\ thread[Reaper].at = "idle"
    BY <2>1 DEF Alone, X!Idle
  <2>3. durable = Committed("none", FALSE, X!Never) /\ index = X!Never /\ any = FALSE
        /\ colls = FALSE
    BY DEF X!Init, Committed
  <2>4. Sound(durable) /\ durable.ttl = X!Never /\ durable.val = "none"
    BY <2>3, NeverIsLate DEF Sound, Committed
  <2>5. Here(thread[Reaper])
    BY <2>2, <2>3, <2>4 DEF Here, Agree
  <2>6. now \in 0..MaxNow /\ met = FALSE
    BY MirrorAssumption DEF X!Init
  <2>. QED  BY <2>1, <2>2, <2>5, <2>6 DEF MirrorInv
<1>2. MirrorInv /\ [X!Next]_(X!vars) => MirrorInv'
  <2>. SUFFICES ASSUME MirrorInv, [X!Next]_(X!vars) PROVE MirrorInv'
    OBVIOUS
  <2>1. CASE UNCHANGED X!vars
    BY <2>1 DEF X!vars, X!mirrors, MirrorInv, Alone, Here, Agree
  <2>2. CASE X!Tick
    <3>1. UNCHANGED <<durable, index, any, colls, thread, met>> /\ now' \in 0..MaxNow
          /\ \A s \in Int : s <= now => s <= now'
      BY <2>2, MirrorAssumption DEF X!Tick, X!mirrors, MirrorInv
    <3>2. \A t \in X!Threads : Alone(t) /\ Here(thread[t]) => Alone(t)' /\ Here(thread[t])'
      BY <3>1 DEF Alone, Here, Agree
    <3>. QED  BY <3>1, <3>2 DEF MirrorInv
  <2>3. CASE X!Reap
    BY <2>3, ReapDone
  <2>4. ASSUME NEW t \in X!Threads, X!Step(t) PROVE MirrorInv'
    BY <2>4, AfterCommitDone, PurgeDone, RecheckDone, DropDone, CheckTtlDone, PutSetDone,
       LookUpDone,
      BuryDone, IncrDone, ReloadDone DEF X!Step
  <2>5. ASSUME NEW t \in X!Threads, X!Begin(t) PROVE MirrorInv'
    BY <2>5, ExecuteDone, CheckSetDone, CheckDelDone, CheckIncrDone, ReloadDone DEF X!Begin
  <2>. QED  BY <2>1, <2>2, <2>3, <2>4, <2>5 DEF X!Next
<1>. QED  BY <1>1, <1>2, PTL DEF X!Spec

\* Commands that follow one another leave the index, the flag and the log in
\* agreement whatever they are: only two at once can part them.
THEOREM MirrorsAgree == X!Spec => []ExactUntilTheyMeet
<1>1. MirrorInv => ExactUntilTheyMeet
  <2>. SUFFICES ASSUME MirrorInv, X!Quiet, ~met
                PROVE  /\ index = durable.ttl /\ (index # X!Never => any)
                       /\ durable.val = "coll" => colls
                       /\ durable.elems = (durable.val = "coll")
                       /\ durable.val = "none" => durable.ttl = X!Never
    BY DEF ExactUntilTheyMeet, X!ExactUntilTheyMeet
  <2>1. PICK t \in X!Threads : Here(thread[t])
    BY DEF MirrorInv
  <2>2. thread[t].at = "idle"
    BY DEF X!Quiet, X!Idle
  <2>3. Sound(durable) /\ Agree /\ (index # X!Never => any)
    BY <2>1, <2>2 DEF Here
  <2>4. durable.elems = (durable.val = "coll")
    <3>1. durable.elems \in BOOLEAN /\ (durable.elems <=> durable.val = "coll")
      BY <2>3 DEF Sound
    <3>. QED  BY <3>1
  <2>. QED  BY <2>3, <2>4 DEF Sound, Agree
<1>. QED  BY <1>1, MirrorInvariance, PTL
=============================================================================
