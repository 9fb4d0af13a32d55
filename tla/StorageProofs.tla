--------------------------- MODULE StorageProofs ---------------------------
(***************************************************************************)
(* What follows the commits of the storage engine: a late joiner of the    *)
(* change feed misses nothing (ChangeFeed), for any committers, prefixes   *)
(* and size of the ring; a search of the vector index finds what the       *)
(* engine holds (VectorIndex), for any connections, ids and vectors.  The  *)
(* instances are the ones the run of MCStorage checks.                     *)
(***************************************************************************)
EXTENDS MCStorage, SequenceTheorems, TLAPS

-----------------------------------------------------------------------------
(* The change feed.                                                        *)

\* Where a committer may be with an event.
Working(p) ==
  \/ p.at = "number" /\ p = [at |-> p.at, ev |-> p.ev] /\ p.ev \in Nat
  \/ /\ p.at \in {"log", "send", "prune"} /\ p = [at |-> p.at, ev |-> p.ev, seq |-> p.seq]
     /\ p.ev \in Nat /\ p.seq \in Nat

InLog == {log[i].ev : i \in DOMAIN log}
Received == {got[i] : i \in DOMAIN got}
InFlight(n) == \E c \in Committers : committer[c] # F!Idle /\ committer[c].ev = n

FeedShape ==
  /\ committer = [c \in Committers |-> committer[c]]
  /\ \A c \in Committers : committer[c] = F!Idle \/ Working(committer[c])
  /\ log \in Seq([seq : Nat, ev : Nat]) /\ got \in Seq(Nat)
  /\ seq \in Nat /\ commits \in Nat

\* Who has called is in the table until it hangs up, and nothing committed since
\* passes the hub by; what is sent was logged first.
FeedHolds ==
  /\ joiner \in {"away", "enabled", "subscribed", "joined", "gone"}
  /\ joiner = "away" => due = {}
  /\ joiner # "away" => enabled
  /\ subs \in {0, Prefixes} /\ (joiner \in {"subscribed", "joined"} => subs = Prefixes)
  /\ \A c \in Committers :
       /\ committer[c].at \in {"send", "prune"} => committer[c].ev \in InLog \cup dropped
       /\ committer[c].at = "prune" => joiner = "gone"

\* A due event is under way or through the log, and whoever has read the log has it.
NothingDueIsLost ==
  \A n \in due :
    \/ InFlight(n)
    \/ /\ n \in InLog \cup dropped
       /\ joiner = "joined" => n \in Received \cup dropped

FeedInv == FeedShape /\ FeedHolds /\ NothingDueIsLost

\* A committer goes to its next place, the others stay.
LEMMA Goes ==
  ASSUME FeedShape, NEW c \in Committers, NEW p, F!Goto(c, p), p.at = "idle" \/ Working(p)
  PROVE  /\ committer' = [d \in Committers |-> committer'[d]]
         /\ \A d \in Committers : committer'[d] = F!Idle \/ Working(committer'[d])
         /\ p.at = "idle" => committer'[c] = F!Idle
         /\ p.at # "idle" => committer'[c] = p
         /\ \A d \in Committers : d # c => committer'[d] = committer[d]
<1>1. committer' = [committer EXCEPT ![c] = IF p.at = "idle" THEN F!Idle ELSE p]
  BY DEF F!Goto
<1>2. /\ committer'[c] = IF p.at = "idle" THEN F!Idle ELSE p
      /\ \A d \in Committers : d # c => committer'[d] = committer[d]
      /\ committer' = [d \in Committers |-> committer'[d]]
  BY <1>1 DEF FeedShape
<1>3. \A d \in Committers : committer'[d] = F!Idle \/ Working(committer'[d])
  BY <1>2 DEF FeedShape
<1>. QED  BY <1>2, <1>3

\* An event is committed: it is under way, unless nobody ever listened.
LEMMA BeginKeeps == ASSUME FeedInv, NEW c \in Committers, F!Begin(c) PROVE FeedInv'
<1>. DEFINE p == IF enabled THEN [at |-> "number", ev |-> commits + 1] ELSE F!Idle
<1>1. /\ committer[c] = F!Idle /\ commits' = commits + 1 /\ F!Goto(c, p)
      /\ due' = IF joiner = "away" THEN due ELSE due \cup {commits + 1}
      /\ UNCHANGED <<enabled, seq, log, subs, dropped, joiner, got>>
  BY DEF F!Begin
<1>2. p.at = "idle" \/ Working(p)
  BY DEF Working, F!Idle, FeedInv, FeedShape
<1>3. /\ enabled => p # F!Idle /\ p.at = "number" /\ p.ev = commits + 1
      /\ ~enabled => p.at = "idle"
  BY DEF F!Idle
<1>. HIDE DEF p
<1>4. /\ committer' = [d \in Committers |-> committer'[d]]
      /\ \A d \in Committers : committer'[d] = F!Idle \/ Working(committer'[d])
      /\ \A d \in Committers : d # c => committer'[d] = committer[d]
      /\ committer'[c] = IF enabled THEN p ELSE F!Idle
  BY <1>1, <1>2, <1>3, Goes DEF FeedInv
<1>5. FeedShape'
  BY <1>1, <1>4 DEF FeedInv, FeedShape
<1>6. committer'[c].at \notin {"send", "prune"} /\ InLog' = InLog
  BY <1>1, <1>3, <1>4 DEF F!Idle, InLog
<1>7. FeedHolds'
  BY <1>1, <1>4, <1>6 DEF FeedInv, FeedHolds
<1>8. \A n : InFlight(n) => InFlight(n)'
  BY <1>1, <1>4 DEF InFlight
<1>9. enabled => committer'[c] # F!Idle /\ committer'[c].ev = commits + 1
  BY <1>3, <1>4
<1>10. NothingDueIsLost'
  <2>. SUFFICES ASSUME NEW n \in due'
                PROVE  \/ InFlight(n)'
                       \/ /\ n \in InLog \cup dropped
                          /\ joiner = "joined" => n \in Received \cup dropped
    BY <1>1, <1>6 DEF NothingDueIsLost, Received
  <2>1. CASE n \in due
    BY <1>8, <2>1 DEF FeedInv, NothingDueIsLost
  <2>2. CASE n \notin due
    <3>1. n = commits + 1 /\ enabled
      BY <1>1, <2>2 DEF FeedInv, FeedHolds
    <3>. QED  BY <1>9, <3>1 DEF InFlight
  <2>. QED  BY <2>1, <2>2
<1>. QED  BY <1>5, <1>7, <1>10 DEF FeedInv

\* It gets its number.
LEMMA NumberKeeps == ASSUME FeedInv, NEW c \in Committers, F!Number(c) PROVE FeedInv'
<1>. DEFINE p == [at |-> F!Then("number"), ev |-> committer[c].ev, seq |-> seq + 1]
<1>1. /\ committer[c].at = "number" /\ seq' = seq + 1 /\ F!Goto(c, p)
      /\ UNCHANGED <<enabled, log, subs, dropped, commits, joiner, got, due>>
  BY DEF F!Number
<1>2. Working(committer[c]) /\ committer[c].ev \in Nat /\ seq + 1 \in Nat
  BY <1>1 DEF FeedInv, FeedShape, Working, F!Idle
<1>3. p.at = "log" /\ p.ev = committer[c].ev /\ p # F!Idle /\ Working(p)
  BY <1>2 DEF F!Then, F!Idle, Working
<1>. HIDE DEF p
<1>4. /\ committer' = [d \in Committers |-> committer'[d]]
      /\ \A d \in Committers : committer'[d] = F!Idle \/ Working(committer'[d])
      /\ \A d \in Committers : d # c => committer'[d] = committer[d]
      /\ committer'[c] = p
  BY <1>1, <1>3, Goes DEF FeedInv
<1>5. FeedShape'
  BY <1>1, <1>2, <1>4 DEF FeedInv, FeedShape
<1>6. InLog' = InLog /\ Received' = Received
  BY <1>1 DEF InLog, Received
<1>7. FeedHolds'
  BY <1>1, <1>3, <1>4, <1>6 DEF FeedInv, FeedHolds
<1>8. \A n : InFlight(n) => InFlight(n)'
  BY <1>3, <1>4 DEF InFlight
<1>10. NothingDueIsLost'
  BY <1>1, <1>6, <1>8 DEF FeedInv, NothingDueIsLost
<1>. QED  BY <1>5, <1>7, <1>10 DEF FeedInv

\* What is left of a sequence without its first m.
LEMMA RestOf ==
  ASSUME NEW S, NEW s \in Seq(S), NEW m \in Nat, m <= Len(s)
  PROVE  /\ SubSeq(s, m + 1, Len(s)) \in Seq(S) /\ Len(SubSeq(s, m + 1, Len(s))) = Len(s) - m
         /\ \A i \in 1..Len(s) - m : SubSeq(s, m + 1, Len(s))[i] = s[i + m]
OBVIOUS

\* What the ring holds after an event more is what it held, but for what it dropped.
LEMMA RingTurns ==
  ASSUME FeedShape, NEW c \in Committers, F!LogIt(c), Working(committer[c]), committer[c].at = "log"
  PROVE  /\ log' \in Seq([seq : Nat, ev : Nat])
         /\ InLog \cup dropped \cup {committer[c].ev} \subseteq InLog' \cup dropped'
         /\ dropped \subseteq dropped'
<1>. DEFINE R == [seq : Nat, ev : Nat]
            cut == IF Len(log) >= LogCap THEN LogCap \div 4 ELSE 0
            rest == SubSeq(log, cut + 1, Len(log))
            e == [seq |-> committer[c].seq, ev |-> committer[c].ev]
<1>1. log' = Append(rest, e) /\ dropped' = dropped \cup {log[i].ev : i \in 1..cut}
  BY DEF F!LogIt
<1>2. log \in Seq(R) /\ e \in R /\ e.ev = committer[c].ev
  BY DEF FeedShape, Working
<1>3. Len(log) \in Nat /\ DOMAIN log = 1..Len(log) /\ \A i \in 1..Len(log) : log[i] \in R
  BY <1>2, LenProperties, ElementOfSeq
<1>4. cut \in Nat /\ cut <= Len(log)
  BY <1>3, FeedAssumption
<1>. HIDE DEF R, cut, e
<1>5. /\ rest \in Seq(R) /\ Len(rest) = Len(log) - cut
      /\ \A i \in 1..Len(log) - cut : rest[i] = log[i + cut]
  BY <1>2, <1>4, RestOf, Zenon
<1>. HIDE DEF rest
<1>6. /\ log' \in Seq(R) /\ Len(log') = Len(rest) + 1 /\ log'[Len(rest) + 1] = e
      /\ \A i \in 1..Len(rest) : log'[i] = rest[i]
  BY <1>1, <1>2, <1>5, AppendProperties
<1>7. DOMAIN log' = 1..Len(log')
  BY <1>6, LenProperties
<1>8. \A i \in 1..Len(log) : log[i].ev \in InLog' \cup dropped'
  <2>. SUFFICES ASSUME NEW i \in 1..Len(log) PROVE log[i].ev \in InLog' \cup dropped'
    OBVIOUS
  <2>1. CASE i <= cut
    BY <1>1, <1>4, <2>1
  <2>2. CASE i > cut
    <3>1. i - cut \in 1..Len(log) - cut /\ (i - cut) + cut = i
      BY <1>3, <1>4, <2>2
    <3>2. rest[i - cut] = log[i] /\ log'[i - cut] = log[i]
      BY <1>5, <1>6, <3>1, Zenon
    <3>3. i - cut \in DOMAIN log'
      BY <1>3, <1>4, <1>5, <1>6, <1>7, <3>1
    <3>. QED  BY <3>2, <3>3 DEF InLog
  <2>. QED  BY <1>3, <1>4, <2>1, <2>2
<1>9. e.ev \in InLog'
  <2>1. Len(rest) + 1 \in DOMAIN log'
    BY <1>3, <1>4, <1>5, <1>6, <1>7
  <2>. QED  BY <1>6, <2>1 DEF InLog
<1>10. InLog \subseteq InLog' \cup dropped'
  BY <1>3, <1>8 DEF InLog
<1>11. committer[c].ev \in InLog'
  BY <1>2, <1>9
<1>. HIDE DEF InLog
<1>12. log' \in Seq([seq : Nat, ev : Nat])
  BY <1>6 DEF R
<1>13. dropped \subseteq dropped'
  BY <1>1
<1>. QED  BY <1>10, <1>11, <1>12, <1>13

\* It goes into the ring.
LEMMA LogKeeps == ASSUME FeedInv, NEW c \in Committers, F!LogIt(c) PROVE FeedInv'
<1>. DEFINE p == [committer[c] EXCEPT !.at = F!Then("log")]
<1>1. /\ committer[c].at = "log" /\ F!Goto(c, p)
      /\ UNCHANGED <<enabled, seq, subs, commits, joiner, got, due>>
  BY DEF F!LogIt
<1>2. Working(committer[c])
      /\ committer[c] = [at |-> "log", ev |-> committer[c].ev, seq |-> committer[c].seq]
  BY <1>1 DEF FeedInv, FeedShape, Working, F!Idle
<1>3. p.at = "send" /\ p.ev = committer[c].ev /\ p # F!Idle /\ Working(p)
  <2>1. p = [at |-> "send", ev |-> committer[c].ev, seq |-> committer[c].seq]
    BY <1>2 DEF F!Then
  <2>2. committer[c].ev \in Nat /\ committer[c].seq \in Nat
    BY <1>1, <1>2 DEF Working
  <2>. QED  BY <2>1, <2>2 DEF F!Idle, Working
<1>. HIDE DEF p
<1>4. /\ committer' = [d \in Committers |-> committer'[d]]
      /\ \A d \in Committers : committer'[d] = F!Idle \/ Working(committer'[d])
      /\ \A d \in Committers : d # c => committer'[d] = committer[d]
      /\ committer'[c] = p
  BY <1>1, <1>3, Goes DEF FeedInv
<1>5. /\ log' \in Seq([seq : Nat, ev : Nat])
      /\ InLog \cup dropped \cup {committer[c].ev} \subseteq InLog' \cup dropped'
      /\ dropped \subseteq dropped'
  BY <1>1, <1>2, RingTurns DEF FeedInv
<1>6. FeedShape'
  BY <1>1, <1>4, <1>5 DEF FeedInv, FeedShape
<1>7. FeedHolds'
  BY <1>1, <1>3, <1>4, <1>5 DEF FeedInv, FeedHolds
<1>8. \A n : InFlight(n) => InFlight(n)'
  BY <1>3, <1>4 DEF InFlight
<1>9. Received' = Received
  BY <1>1 DEF Received
<1>10. NothingDueIsLost'
  BY <1>1, <1>5, <1>8, <1>9 DEF FeedInv, NothingDueIsLost
<1>. QED  BY <1>6, <1>7, <1>10 DEF FeedInv

\* It is sent to whoever is in the table; who is not will find it in the log.
LEMMA SendKeeps == ASSUME FeedInv, NEW c \in Committers, F!Send(c) PROVE FeedInv'
<1>. DEFINE ev == committer[c].ev
            at == IF joiner = "gone" /\ subs > 0 THEN "prune" ELSE F!Then("send")
            p == [committer[c] EXCEPT !.at = at]
            copies == [i \in 1..subs |-> ev]
<1>1. /\ committer[c].at = "send" /\ F!Goto(c, p)
      /\ got' = IF joiner = "gone" THEN got ELSE got \o copies
      /\ UNCHANGED <<enabled, seq, log, subs, dropped, commits, joiner, due>>
  BY DEF F!Send
<1>2. /\ committer[c] = [at |-> "send", ev |-> ev, seq |-> committer[c].seq]
      /\ ev \in Nat /\ committer[c].seq \in Nat
  BY <1>1 DEF FeedInv, FeedShape, Working, F!Idle
<1>3. at \in {"prune", "idle"} /\ (at = "prune" => joiner = "gone")
  BY DEF F!Then
<1>4. p.at = at /\ p.ev = ev /\ (at = "prune" => Working(p) /\ p # F!Idle)
  <2>1. p = [at |-> at, ev |-> ev, seq |-> committer[c].seq]
    BY <1>2
  <2>. HIDE DEF at, ev, p
  <2>. QED  BY <1>2, <1>3, <2>1 DEF F!Idle, Working
<1>. HIDE DEF p, at
<1>5. /\ committer' = [d \in Committers |-> committer'[d]]
      /\ \A d \in Committers : committer'[d] = F!Idle \/ Working(committer'[d])
      /\ \A d \in Committers : d # c => committer'[d] = committer[d]
      /\ committer'[c] = IF at = "idle" THEN F!Idle ELSE p
  BY <1>1, <1>3, <1>4, Goes DEF FeedInv
<1>6. InLog' = InLog /\ ev \in InLog \cup dropped
  BY <1>1 DEF InLog, FeedInv, FeedHolds
<1>7. /\ got' \in Seq(Nat) /\ Received \subseteq Received'
      /\ joiner \in {"subscribed", "joined"} => ev \in Received'
  <2>. HIDE DEF ev
  <2>1. subs \in Nat /\ (joiner \in {"subscribed", "joined"} => subs >= 1) /\ got \in Seq(Nat)
    BY FeedAssumption DEF FeedInv, FeedHolds, FeedShape
  <2>2. CASE joiner = "gone"
    BY <1>1, <2>1, <2>2 DEF Received
  <2>3. CASE joiner # "gone"
    <3>1. copies \in Seq(Nat) /\ Len(copies) = subs /\ \A i \in 1..subs : copies[i] = ev
      BY <1>2, <2>1
    <3>. HIDE DEF copies
    <3>2. /\ got' \in Seq(Nat) /\ Len(got') = Len(got) + subs /\ Len(got) \in Nat
          /\ \A i \in 1..Len(got) + subs : got'[i] = IF i <= Len(got) THEN got[i] ELSE copies[i - Len(got)]
      <4>1. got' = got \o copies
        BY <1>1, <2>3
      <4>2. /\ got \o copies \in Seq(Nat) /\ Len(got \o copies) = Len(got) + Len(copies)
            /\ \A i \in 1..Len(got) + Len(copies) :
                 (got \o copies)[i] = IF i <= Len(got) THEN got[i] ELSE copies[i - Len(got)]
        BY <2>1, <3>1, ConcatProperties, Zenon
      <4>3. Len(got) \in Nat
        BY <2>1, LenProperties
      <4>. QED  BY <3>1, <4>1, <4>2, <4>3, Zenon
    <3>3. DOMAIN got' = 1..Len(got) + subs /\ DOMAIN got = 1..Len(got)
      BY <2>1, <3>2, LenProperties
    <3>4. \A i \in 1..Len(got) : i \in 1..Len(got) + subs /\ got'[i] = got[i]
      BY <2>1, <3>2
    <3>5. Received \subseteq Received'
      BY <3>3, <3>4 DEF Received
    <3>6. ASSUME subs >= 1 PROVE ev \in Received'
      <4>1. Len(got) + 1 \in 1..Len(got) + subs /\ 1 \in 1..subs /\ ~ (Len(got) + 1 <= Len(got))
            /\ (Len(got) + 1) - Len(got) = 1
        BY <2>1, <3>2, <3>6
      <4>2. got'[Len(got) + 1] = ev
        BY <3>1, <3>2, <4>1
      <4>. QED  BY <3>3, <4>1, <4>2 DEF Received
    <3>. QED  BY <2>1, <3>2, <3>5, <3>6
  <2>. QED  BY <2>2, <2>3
<1>8. FeedShape'
  BY <1>1, <1>5, <1>7 DEF FeedInv, FeedShape
<1>9. FeedHolds'
  BY <1>1, <1>3, <1>4, <1>5, <1>6 DEF FeedInv, FeedHolds, F!Idle
<1>10. \A n : InFlight(n) => n = ev \/ InFlight(n)'
  BY <1>5 DEF InFlight
<1>11. NothingDueIsLost'
  BY <1>1, <1>6, <1>7, <1>10 DEF FeedInv, NothingDueIsLost
<1>. QED  BY <1>8, <1>9, <1>11 DEF FeedInv

\* The entry of a receiver that is gone is pruned.
LEMMA PruneKeeps == ASSUME FeedInv, NEW c \in Committers, F!Prune(c) PROVE FeedInv'
<1>. DEFINE p == [committer[c] EXCEPT !.at = F!Then("send")]
<1>1. /\ committer[c].at = "prune" /\ F!Goto(c, p) /\ subs' = 0
      /\ UNCHANGED <<enabled, seq, log, dropped, commits, joiner, got, due>>
  BY DEF F!Prune
<1>2. committer[c] = [at |-> "prune", ev |-> committer[c].ev, seq |-> committer[c].seq]
  BY <1>1 DEF FeedInv, FeedShape, Working, F!Idle
<1>3. p.at = "idle"
  BY <1>2 DEF F!Then
<1>. HIDE DEF p
<1>4. /\ committer' = [d \in Committers |-> committer'[d]]
      /\ \A d \in Committers : committer'[d] = F!Idle \/ Working(committer'[d])
      /\ \A d \in Committers : d # c => committer'[d] = committer[d]
      /\ committer'[c] = F!Idle
  BY <1>1, <1>3, Goes DEF FeedInv
<1>5. FeedShape'
  BY <1>1, <1>4 DEF FeedInv, FeedShape
<1>6. InLog' = InLog /\ Received' = Received /\ committer[c].ev \in InLog \cup dropped
      /\ joiner = "gone"
  BY <1>1 DEF InLog, Received, FeedInv, FeedHolds
<1>7. FeedHolds'
  BY <1>1, <1>4, <1>6 DEF FeedInv, FeedHolds, F!Idle
<1>8. \A n : InFlight(n) => n = committer[c].ev \/ InFlight(n)'
  BY <1>4 DEF InFlight
<1>9. NothingDueIsLost'
  BY <1>1, <1>6, <1>8 DEF FeedInv, NothingDueIsLost
<1>. QED  BY <1>5, <1>7, <1>9 DEF FeedInv

\* The joiner calls, enters the table, reads the log, hangs up.
LEMMA JoinerKeeps ==
  ASSUME FeedInv, F!Enable \/ F!Subscribe \/ F!Replay \/ F!HangUp
  PROVE  FeedInv'
<1>1. CASE F!Enable \/ F!Subscribe \/ F!HangUp
  <2>1. UNCHANGED <<seq, log, dropped, committer, commits, got, due>>
        /\ (joiner' = "joined" => joiner = "joined")
    BY <1>1 DEF F!Enable, F!Subscribe, F!HangUp
  <2>2. FeedHolds'
    BY <1>1, <2>1 DEF F!Enable, F!Subscribe, F!HangUp, FeedInv, FeedHolds, InLog
  <2>. QED  BY <2>1, <2>2 DEF FeedInv, FeedShape, NothingDueIsLost, InFlight, InLog, Received
<1>2. CASE F!Replay
  <2>. DEFINE copy == [i \in DOMAIN log |-> log[i].ev]
  <2>1. /\ joiner = "subscribed" /\ joiner' = "joined" /\ got' = got \o copy
        /\ UNCHANGED <<enabled, seq, log, subs, dropped, committer, commits, due>>
    BY <1>2 DEF F!Replay
  <2>2. log \in Seq([seq : Nat, ev : Nat]) /\ got \in Seq(Nat) /\ Len(log) \in Nat
        /\ Len(got) \in Nat
        /\ DOMAIN log = 1..Len(log) /\ DOMAIN got = 1..Len(got)
    BY LenProperties DEF FeedInv, FeedShape
  <2>3. copy \in Seq(Nat) /\ Len(copy) = Len(log) /\ \A i \in 1..Len(log) : copy[i] = log[i].ev
    <3>1. \A i \in 1..Len(log) : log[i].ev \in Nat
      <4>1. \A i \in 1..Len(log) : log[i] \in [seq : Nat, ev : Nat]
        BY <2>2, ElementOfSeq, Zenon
      <4>. QED  BY <4>1
    <3>. QED  BY <2>2, <3>1
  <2>. HIDE DEF copy
  <2>4. /\ got' \in Seq(Nat) /\ Len(got') = Len(got) + Len(log)
        /\ \A i \in 1..Len(got) + Len(log) : got'[i] = IF i <= Len(got) THEN got[i] ELSE copy[i - Len(got)]
    <3>1. /\ got \o copy \in Seq(Nat) /\ Len(got \o copy) = Len(got) + Len(copy)
          /\ \A i \in 1..Len(got) + Len(copy) :
               (got \o copy)[i] = IF i <= Len(got) THEN got[i] ELSE copy[i - Len(got)]
      BY <2>2, <2>3, ConcatProperties, Zenon
    <3>. QED  BY <2>1, <2>3, <3>1, Zenon
  <2>5. DOMAIN got' = 1..Len(got) + Len(log)
    BY <2>4, LenProperties
  <2>6. InLog \subseteq Received'
    <3>. SUFFICES ASSUME NEW i \in 1..Len(log) PROVE log[i].ev \in Received'
      BY <2>2 DEF InLog
    <3>1. Len(got) + i \in 1..Len(got) + Len(log) /\ ~ (Len(got) + i <= Len(got))
          /\ (Len(got) + i) - Len(got) = i
      BY <2>2
    <3>2. got'[Len(got) + i] = log[i].ev
      BY <2>3, <2>4, <3>1
    <3>. QED  BY <2>5, <3>1, <3>2 DEF Received
  <2>7. FeedShape'
    BY <2>1, <2>4 DEF FeedInv, FeedShape
  <2>8. FeedHolds'
    BY <2>1 DEF FeedInv, FeedHolds, InLog
  <2>9. InLog' = InLog /\ \A n : InFlight(n) => InFlight(n)'
    BY <2>1 DEF InLog, InFlight
  <2>10. NothingDueIsLost'
    BY <2>1, <2>6, <2>9 DEF FeedInv, NothingDueIsLost
  <2>. QED  BY <2>7, <2>8, <2>10 DEF FeedInv
<1>. QED  BY <1>1, <1>2

\* The inductive invariant of the feed.
THEOREM FeedInvariance == F!Spec => []FeedInv
<1>1. F!Init => FeedInv
  <2>. SUFFICES ASSUME F!Init PROVE FeedInv
    OBVIOUS
  <2>1. <<>> \in Seq([seq : Nat, ev : Nat]) /\ <<>> \in Seq(Nat)
    OBVIOUS
  <2>. QED  BY <2>1 DEF F!Init, FeedInv, FeedShape, FeedHolds, NothingDueIsLost, F!Idle
<1>2. FeedInv /\ [F!Next]_(F!vars) => FeedInv'
  <2>. SUFFICES ASSUME FeedInv, [F!Next]_(F!vars) PROVE FeedInv'
    OBVIOUS
  <2>1. CASE UNCHANGED F!vars
    BY <2>1 DEF F!vars, FeedInv, FeedShape, FeedHolds, NothingDueIsLost, InLog, Received, InFlight
  <2>2. ASSUME NEW c \in Committers, F!Begin(c) \/ F!Number(c) \/ F!LogIt(c) \/ F!Send(c)
               \/ F!Prune(c)
        PROVE  FeedInv'
    BY <2>2, BeginKeeps, NumberKeeps, LogKeeps, SendKeeps, PruneKeeps
  <2>3. CASE F!Enable \/ F!Subscribe \/ F!Replay \/ F!HangUp
    BY <2>3, JoinerKeeps
  <2>. QED  BY <2>1, <2>2, <2>3 DEF F!Next
<1>. QED  BY <1>1, <1>2, PTL DEF F!Spec

\* Whoever subscribes and then reads the log has every event handed to the hub
\* since its call, but what the ring has dropped or a committer still holds.
THEOREM JoinersMissNothing == F!Spec => []JoinerMissesNothing
<1>1. FeedInv => JoinerMissesNothing
  BY DEF FeedInv, NothingDueIsLost, InFlight, Received, JoinerMissesNothing, F!JoinerMissesNothing
<1>. QED  BY <1>1, FeedInvariance, PTL
-----------------------------------------------------------------------------
(* The vector index.                                                       *)

Some == V!Vector \cup {V!None}

\* The rows of a command: one for VADD, the batch's for VADDBATCH.
HasRows(p) ==
  /\ DOMAIN p.rows \subseteq Ids /\ p.rows \in [DOMAIN p.rows -> V!Vector]
  /\ p.at \in {"add", "put", "again"} => \E id \in Ids : p.of = {id} /\ DOMAIN p.rows = {id}
  /\ p.at \in {"batch", "merge"} => p.of = DOMAIN p.rows
  /\ p.at \in {"store", "export", "swap"} => p.of = Ids

\* A command of a connection.
Commanded(p) ==
  \/ p = V!Idle
  \/ /\ p.at \in {"del", "mark", "wipe", "reset"}
     /\ p = [at |-> p.at, of |-> p.of] /\ p.of \subseteq Ids
     /\ p.at \in {"wipe", "reset"} => p.of = Ids
  \/ /\ p.at \in {"add", "put", "again", "batch", "merge", "store", "export"}
     /\ p = [at |-> p.at, of |-> p.of, rows |-> p.rows] /\ HasRows(p)
  \/ /\ p.at = "swap"
     /\ p = [at |-> p.at, of |-> p.of, rows |-> p.rows, kept |-> p.kept, dim |-> p.dim]
        /\ HasRows(p)
     /\ p.kept \subseteq Ids \X V!Vector

IndexShape ==
  /\ store \in [Ids -> Some] /\ node \in [Ids -> Some] /\ lost \subseteq Ids \X V!Vector
  /\ conn = [t \in Committers |-> conn[t]] /\ \A t \in Committers : Commanded(conn[t])
  /\ broken \in BOOLEAN

\* The id has no node but the one id_to_idx gives.
Single(id) == \A v : <<id, v>> \notin lost

\* What holds of an id at each place of the only command that may touch it.
Place(id, p) ==
  /\ p.at = "reset" => store[id] = V!None
  /\ id \notin doubled =>
       /\ p.at \in {"add", "del", "batch", "store", "wipe"} => node[id] = store[id]
       /\ p.at \in {"put", "again"} => node[id] = p.rows[id]
       /\ p.at = "again" => store[id] = p.rows[id]
       /\ p.at = "mark" => store[id] = V!None
       /\ p.at = "merge" => store[id] = p.rows[id]
       /\ p.at \in {"export", "swap"} =>
            store[id] = IF id \in DOMAIN p.rows THEN p.rows[id] ELSE node[id]
       /\ p.at = "swap" => \A v : <<id, v>> \in p.kept <=> (v = node[id] /\ v # V!None)

Whole(id) ==
  /\ id \notin doubled => Single(id)
  /\ \A t, u \in Committers : id \in conn[t].of /\ id \in conn[u].of => t = u
  /\ (\A t \in Committers : id \notin conn[t].of) /\ id \notin doubled => node[id] = store[id]
  /\ \A t \in Committers : id \in conn[t].of => Place(id, conn[t])

IndexInv == IndexShape /\ (~broken => \A id \in Ids \ loose : Whole(id))

\* What searches find of an id that has no other node is its node.
LEMMA FoundIsNode ==
  ASSUME IndexShape, NEW id \in Ids, Single(id)
  PROVE  V!Found(id) = {node[id]} \ {V!None}
<1>. DEFINE rows == {x \in V!Pairs(node) \cup lost : x[1] = id}
<1>1. DOMAIN node = Ids
  BY DEF IndexShape
<1>2. \A x \in lost : x = <<x[1], x[2]>>
  BY DEF IndexShape
<1>3. \A x \in lost : x[1] # id
  BY <1>2 DEF Single
<1>4. \A x : x \in rows <=> x = <<id, node[id]>> /\ node[id] # V!None
  BY <1>1, <1>3 DEF V!Pairs
<1>. HIDE DEF rows
<1>5. {p[2] : p \in rows} = {node[id]} \ {V!None}
  <2>1. CASE node[id] = V!None
    <3>1. rows = {}
      BY <1>4, <2>1
    <3>. QED  BY <2>1, <3>1
  <2>2. CASE node[id] # V!None
    <3>1. rows = {<<id, node[id]>>}
      BY <1>4, <2>2
    <3>. QED  BY <2>2, <3>1
  <2>. QED  BY <2>1, <2>2
<1>. QED  BY <1>5 DEF rows, V!Found

\* Where a command may go: it keeps its ids and rows.
LEMMA Onward ==
  ASSUME NEW p, Commanded(p), p # V!Idle, NEW at,
         \/ p.at \in {"del", "mark", "wipe", "reset"} /\ at \in {"del", "mark", "wipe", "reset"}
            /\ (at \in {"wipe", "reset"} => p.at \in {"wipe", "reset"})
         \/ p.at \in {"add", "put", "again"} /\ at \in {"add", "put", "again"}
         \/ p.at \in {"batch", "merge"} /\ at \in {"batch", "merge"}
         \/ p.at \in {"store", "export"} /\ at \in {"store", "export"}
  PROVE  LET q == [p EXCEPT !.at = at]
         IN  /\ Commanded(q) /\ q.at = at /\ q.of = p.of
             /\ at \notin {"del", "mark", "wipe", "reset"} => q.rows = p.rows
<1>. DEFINE q == [p EXCEPT !.at = at]
<1>1. CASE p.at \in {"del", "mark", "wipe", "reset"}
  <2>1. p = [at |-> p.at, of |-> p.of] /\ p.of \subseteq Ids
        /\ (p.at \in {"wipe", "reset"} => p.of = Ids)
    BY <1>1 DEF Commanded
  <2>2. q = [at |-> at, of |-> p.of]
    BY <2>1
  <2>3. q.at = at /\ q.of = p.of
    BY <2>2
  <2>. HIDE DEF q
  <2>. QED  BY <1>1, <2>1, <2>2, <2>3 DEF Commanded
<1>2. CASE p.at \in {"add", "put", "again", "batch", "merge", "store", "export"}
  <2>1. p = [at |-> p.at, of |-> p.of, rows |-> p.rows] /\ HasRows(p)
    BY <1>2 DEF Commanded
  <2>2. q = [at |-> at, of |-> p.of, rows |-> p.rows]
    BY <2>1
  <2>3. q.at = at /\ q.of = p.of /\ q.rows = p.rows
    BY <2>2
  <2>. HIDE DEF q
  <2>4. HasRows(q)
    BY <1>2, <2>1, <2>3 DEF HasRows
  <2>. QED  BY <1>2, <2>2, <2>3, <2>4 DEF Commanded
<1>. QED  BY <1>1, <1>2

\* What a step of t's command makes of an id.
Follows(t, id) ==
  IF id \in conn[t].of
  THEN Place(id, conn[t]) /\ (id \notin doubled => Single(id)) =>
         /\ id \notin doubled' => Single(id)'
         /\ IF conn'[t] = V!Idle THEN id \notin doubled' => node'[id] = store'[id]
            ELSE Place(id, conn[t])'
  ELSE /\ store'[id] = store[id] /\ node'[id] = node[id] /\ (Single(id) => Single(id)')
       /\ id \notin doubled' => id \notin doubled

\* A command that is under way takes a step: the ids it may touch are as its next
\* place says, the others are as they were.
LEMMA CommandMoves ==
  ASSUME IndexInv, NEW t \in Committers, IndexShape',
         \A u \in Committers : u # t => conn'[u] = conn[u],
         conn'[t] = V!Idle \/ conn'[t].of = conn[t].of,
         ~broken' => ~broken, loose \subseteq loose',
         ~broken' => \A id \in Ids \ loose' : Follows(t, id)
  PROVE  IndexInv'
<1>. SUFFICES ASSUME ~broken', NEW id \in Ids \ loose' PROVE Whole(id)'
  BY DEF IndexInv
<1>1. ~broken /\ id \in Ids \ loose /\ Whole(id)
  BY DEF IndexInv
<1>2. V!Idle.of = {}
  BY DEF V!Idle
<1>3. \A u \in Committers : id \in conn'[u].of => id \in conn[u].of
  BY <1>2
<1>4. CASE id \in conn[t].of
  <2>1. \A u \in Committers : u # t => id \notin conn[u].of /\ id \notin conn'[u].of
    BY <1>1, <1>4 DEF Whole
  <2>2. Place(id, conn[t]) /\ (id \notin doubled => Single(id))
    BY <1>1, <1>4 DEF Whole
  <2>3. /\ id \notin doubled' => Single(id)'
        /\ IF conn'[t] = V!Idle THEN id \notin doubled' => node'[id] = store'[id]
           ELSE Place(id, conn[t])'
    BY <1>4, <2>2 DEF Follows
  <2>4. CASE conn'[t] = V!Idle
    BY <1>2, <2>1, <2>3, <2>4 DEF Whole
  <2>5. CASE conn'[t] # V!Idle
    BY <1>4, <2>1, <2>3, <2>5 DEF Whole
  <2>. QED  BY <2>4, <2>5
<1>5. CASE id \notin conn[t].of
  <2>1. /\ store'[id] = store[id] /\ node'[id] = node[id] /\ (Single(id) => Single(id)')
        /\ id \notin doubled' => id \notin doubled
    BY <1>5 DEF Follows
  <2>2. id \notin conn'[t].of
    BY <1>3, <1>5
  <2>3. \A u \in Committers : id \in conn[u].of <=> id \in conn'[u].of
    BY <1>3, <1>5, <2>2
  <2>4. ASSUME NEW u \in Committers, id \in conn'[u].of PROVE Place(id, conn[u])'
    <3>1. u # t /\ conn'[u] = conn[u] /\ Place(id, conn[u])
      BY <1>1, <2>2, <2>3, <2>4 DEF Whole
    <3>. QED  BY <2>1, <3>1 DEF Place
  <2>. QED  BY <1>1, <2>1, <2>3, <2>4 DEF Whole
<1>. QED  BY <1>4, <1>5

\* A command starts: whatever it may touch is as it should be, unless they meet.
LEMMA Starts ==
  ASSUME IndexInv, NEW t \in Committers, NEW ids, ids \subseteq Ids, NEW next,
         V!Start(t, ids, next),
         LET p == [next EXCEPT !.of = ids]
         IN  /\ Commanded(p) /\ p # V!Idle /\ p.of = ids
             /\ p.at \in {"add", "del", "batch", "store", "wipe"}
  PROVE  IndexInv'
<1>. DEFINE p == [next EXCEPT !.of = ids]
<1>1. /\ conn[t] = V!Idle /\ conn' = [conn EXCEPT ![t] = p]
      /\ loose' = loose \cup (ids \cap UNION {conn[u].of : u \in Committers})
      /\ UNCHANGED <<store, node, lost, broken, doubled>>
  BY DEF V!Start, V!graph
<1>2. Commanded(p) /\ p.of = ids /\ p.at \in {"add", "del", "batch", "store", "wipe"}
  OBVIOUS
<1>. HIDE DEF p
<1>3. /\ conn' = [u \in Committers |-> conn'[u]] /\ conn'[t] = p
      /\ \A u \in Committers : u # t => conn'[u] = conn[u]
  BY <1>1 DEF IndexInv, IndexShape
<1>4. IndexShape'
  BY <1>1, <1>2, <1>3 DEF IndexInv, IndexShape
<1>5. ASSUME ~broken', NEW id \in Ids \ loose' PROVE Whole(id)'
  <2>1. Whole(id) /\ conn[t].of = {}
    BY <1>1, <1>5 DEF IndexInv, V!Idle
  <2>2. (Single(id))' <=> Single(id)
    BY <1>1 DEF Single
  <2>3. CASE id \in ids
    <3>1. \A u \in Committers : id \notin conn[u].of
      BY <1>1, <1>5, <2>3
    <3>2. \A u \in Committers : id \in conn'[u].of => u = t
      BY <1>3, <3>1
    <3>3. Place(id, conn[t])'
      BY <1>1, <1>2, <1>3, <2>1, <3>1 DEF Place, Whole
    <3>. QED  BY <1>1, <1>2, <1>3, <2>1, <2>2, <2>3, <3>2, <3>3 DEF Whole
  <2>4. CASE id \notin ids
    <3>1. \A u \in Committers : id \in conn'[u].of <=> id \in conn[u].of
      BY <1>2, <1>3, <2>1, <2>4
    <3>2. ASSUME NEW u \in Committers, id \in conn'[u].of PROVE Place(id, conn[u])'
      <4>1. u # t /\ conn'[u] = conn[u] /\ Place(id, conn[u])
        BY <1>2, <1>3, <2>1, <2>4, <3>1, <3>2 DEF Whole
      <4>. QED  BY <1>1, <4>1 DEF Place
    <3>. QED  BY <1>1, <2>1, <2>2, <3>1, <3>2 DEF Whole
  <2>. QED  BY <2>3, <2>4
<1>. QED  BY <1>4, <1>5 DEF IndexInv

\* Commands start at one of five places.
LEMMA CommandStarts ==
  ASSUME IndexInv, NEW t \in Committers, V!Add(t) \/ V!Delete(t) \/ V!AddBatch(t) \/ V!Flush(t)
  PROVE  IndexInv'
<1>1. CASE V!Add(t)
  <2>1. PICK id \in Ids, v \in V!Vector :
          V!Start(t, {id}, [at |-> "add", of |-> {}, rows |-> [i \in {id} |-> v]])
    BY <1>1 DEF V!Add
  <2>. DEFINE p == [at |-> "add", of |-> {id}, rows |-> [i \in {id} |-> v]]
  <2>2. [[at |-> "add", of |-> {}, rows |-> [i \in {id} |-> v]] EXCEPT !.of = {id}] = p
    OBVIOUS
  <2>3. p.at = "add" /\ p.of = {id} /\ p.rows = [i \in {id} |-> v] /\ p # V!Idle
        /\ p = [at |-> p.at, of |-> p.of, rows |-> p.rows]
    BY DEF V!Idle
  <2>. HIDE DEF p
  <2>4. HasRows(p)
    BY <2>3 DEF HasRows
  <2>5. Commanded(p)
    BY <2>3, <2>4 DEF Commanded
  <2>. QED  BY <2>1, <2>2, <2>3, <2>5, Starts
<1>2. CASE V!Delete(t)
  <2>1. PICK id \in Ids : V!Start(t, {id}, [at |-> "del", of |-> {}])
    BY <1>2 DEF V!Delete
  <2>. DEFINE p == [at |-> "del", of |-> {id}]
  <2>2. [[at |-> "del", of |-> {}] EXCEPT !.of = {id}] = p
    OBVIOUS
  <2>3. p.at = "del" /\ p.of = {id} /\ p # V!Idle /\ p = [at |-> p.at, of |-> p.of]
    BY DEF V!Idle
  <2>. HIDE DEF p
  <2>4. Commanded(p)
    BY <2>3 DEF Commanded
  <2>. QED  BY <2>1, <2>2, <2>3, <2>4, Starts
<1>3. CASE V!AddBatch(t)
  <2>1. PICK new \in V!Batch, rebuild \in BOOLEAN :
          V!Start(t, IF rebuild THEN Ids ELSE DOMAIN new,
                  [at |-> IF rebuild THEN "store" ELSE "batch", of |-> {}, rows |-> new])
    BY <1>3 DEF V!AddBatch
  <2>2. DOMAIN new \subseteq Ids /\ new \in [DOMAIN new -> V!Vector]
    BY DEF V!Batch
  <2>. DEFINE ids == IF rebuild THEN Ids ELSE DOMAIN new
              place == IF rebuild THEN "store" ELSE "batch"
              p == [at |-> place, of |-> ids, rows |-> new]
  <2>3. [[at |-> place, of |-> {}, rows |-> new] EXCEPT !.of = ids] = p
    OBVIOUS
  <2>4. /\ p.at = place /\ p.of = ids /\ p.rows = new
        /\ p = [at |-> p.at, of |-> p.of, rows |-> p.rows]
    OBVIOUS
  <2>5. p # V!Idle
    BY <2>4 DEF V!Idle
  <2>6. ids \subseteq Ids /\ place \in {"store", "batch"}
        /\ (place = "store" => ids = Ids) /\ (place = "batch" => ids = DOMAIN new)
    BY <2>2
  <2>7. V!Start(t, ids, [at |-> place, of |-> {}, rows |-> new])
    BY <2>1
  <2>. HIDE DEF p, ids, place
  <2>8. HasRows(p)
    BY <2>2, <2>4, <2>6 DEF HasRows
  <2>9. Commanded(p)
    BY <2>4, <2>6, <2>8 DEF Commanded
  <2>. QED  BY <2>3, <2>4, <2>5, <2>6, <2>7, <2>9, Starts
<1>4. CASE V!Flush(t)
  <2>1. V!Start(t, Ids, [at |-> "wipe", of |-> {}])
    BY <1>4 DEF V!Flush
  <2>. DEFINE p == [at |-> "wipe", of |-> Ids]
  <2>2. [[at |-> "wipe", of |-> {}] EXCEPT !.of = Ids] = p
    OBVIOUS
  <2>3. p.at = "wipe" /\ p.of = Ids /\ p # V!Idle /\ p = [at |-> p.at, of |-> p.of]
    BY DEF V!Idle
  <2>. HIDE DEF p
  <2>4. Commanded(p)
    BY <2>3 DEF Commanded
  <2>. QED  BY <2>1, <2>2, <2>3, <2>4, Starts
<1>. QED  BY <1>1, <1>2, <1>3, <1>4

\* The connection after a step to `at`, or out of its command.
LEMMA WentTo ==
  ASSUME IndexShape, NEW t \in Committers, NEW at, V!Goto(t, at)
  PROVE  /\ conn' = [u \in Committers |-> conn'[u]]
         /\ \A u \in Committers : u # t => conn'[u] = conn[u]
         /\ conn'[t] = IF at = "idle" THEN V!Idle ELSE [conn[t] EXCEPT !.at = at]
BY DEF V!Goto, IndexShape

\* One insert at most changes the node of its id, and does when it has its dimension.
LEMMA Inserted ==
  ASSUME IndexShape, NEW id \in Ids, NEW v \in V!Vector, V!Insert(id, v)
  PROVE  /\ node' \in [Ids -> Some] /\ lost' = lost /\ broken' \in BOOLEAN /\ ~broken
         /\ \A i \in Ids : i # id => node'[i] = node[i]
         /\ node'[id] = IF dim' = V!Dim(v) THEN v ELSE node[id]
BY DEF IndexShape, V!Insert, V!Fits, Some

\* VADD inserts into the graph.
LEMMA AddNodeDone == ASSUME IndexInv, NEW t \in Committers, V!AddNode(t) PROVE IndexInv'
<1>. DEFINE p == conn[t]
            at == IF dim' = V!DimOf(p.rows) THEN "put" ELSE "idle"
<1>1. PICK id \in p.of : p.at = "add" /\ V!Insert(id, p.rows[id]) /\ V!Goto(t, at)
      /\ UNCHANGED <<store, loose, doubled>>
  BY DEF V!AddNode, V!At
<1>2. Commanded(p) /\ p # V!Idle /\ HasRows(p)
  BY <1>1 DEF IndexInv, IndexShape, Commanded, V!Idle
<1>3. p.of = {id} /\ DOMAIN p.rows = {id} /\ id \in Ids /\ p.rows[id] \in V!Vector
  BY <1>1, <1>2 DEF HasRows
<1>4. V!DimOf(p.rows) = V!Dim(p.rows[id])
  BY <1>3 DEF V!DimOf
<1>5. /\ node' \in [Ids -> Some] /\ lost' = lost /\ \A i \in Ids : i # id => node'[i] = node[i]
      /\ broken' \in BOOLEAN /\ ~broken
      /\ node'[id] = IF at = "put" THEN p.rows[id] ELSE node[id]
  BY <1>1, <1>3, <1>4, Inserted DEF IndexInv
<1>6. /\ conn' = [u \in Committers |-> conn'[u]]
      /\ \A u \in Committers : u # t => conn'[u] = conn[u]
      /\ conn'[t] = IF at = "idle" THEN V!Idle ELSE [p EXCEPT !.at = at]
  BY <1>1, WentTo DEF IndexInv
<1>7. at \in {"put", "idle"}
  OBVIOUS
<1>8. (conn'[t] = V!Idle /\ at = "idle")
      \/ (conn'[t].at = "put" /\ conn'[t].of = p.of /\ conn'[t].rows = p.rows /\ at = "put"
          /\ Commanded(conn'[t]) /\ conn'[t] # V!Idle)
  BY <1>1, <1>2, <1>6, <1>7, Onward DEF V!Idle
<1>. HIDE DEF p, at
<1>9. IndexShape'
  BY <1>1, <1>5, <1>6, <1>8 DEF IndexInv, IndexShape, Commanded
<1>10. ASSUME NEW i \in Ids PROVE Follows(t, i)
  <2>1. Single(i)' <=> Single(i)
    BY <1>5 DEF Single
  <2>2. CASE i = id
    <3>1. ASSUME Place(i, p), conn'[t] = V!Idle PROVE i \notin doubled' => node'[i] = store'[i]
      BY <1>1, <1>5, <1>8, <2>2, <3>1 DEF Place
    <3>2. ASSUME conn'[t] # V!Idle PROVE Place(i, conn[t])'
      BY <1>1, <1>5, <1>8, <2>2, <3>2 DEF Place
    <3>. QED  BY <1>1, <1>3, <2>1, <2>2, <3>1, <3>2 DEF Follows, p
  <2>3. CASE i # id
    BY <1>1, <1>3, <1>5, <2>1, <2>3 DEF Follows, p
  <2>. QED  BY <2>2, <2>3
<1>. QED  BY <1>1, <1>5, <1>6, <1>8, <1>9, <1>10, CommandMoves DEF p

\* A command that goes on from one place to another of its kind, or ends.
LEMMA Took ==
  ASSUME IndexShape, NEW t \in Committers, conn[t] # V!Idle, NEW at, V!Goto(t, at),
         \/ at = "idle"
         \/ conn[t].at \in {"del", "mark", "wipe", "reset"}
            /\ at \in {"del", "mark", "wipe", "reset"}
            /\ (at \in {"wipe", "reset"} => conn[t].at \in {"wipe", "reset"})
         \/ conn[t].at \in {"add", "put", "again"} /\ at \in {"add", "put", "again"}
         \/ conn[t].at \in {"batch", "merge"} /\ at \in {"batch", "merge"}
         \/ conn[t].at \in {"store", "export"} /\ at \in {"store", "export"}
  PROVE  /\ conn' = [u \in Committers |-> conn'[u]] /\ \A u \in Committers : Commanded(conn'[u])
         /\ \A u \in Committers : u # t => conn'[u] = conn[u]
         /\ conn'[t] = V!Idle \/ conn'[t].of = conn[t].of
         /\ \/ conn'[t] = V!Idle /\ at = "idle"
            \/ /\ conn'[t] # V!Idle /\ conn'[t].at = at /\ at # "idle"
               /\ at \notin {"del", "mark", "wipe", "reset"} => conn'[t].rows = conn[t].rows
<1>1. /\ conn' = [u \in Committers |-> conn'[u]]
      /\ \A u \in Committers : u # t => conn'[u] = conn[u]
      /\ conn'[t] = IF at = "idle" THEN V!Idle ELSE [conn[t] EXCEPT !.at = at]
  BY WentTo
<1>2. Commanded(conn[t]) /\ Commanded(V!Idle) /\ \A u \in Committers : Commanded(conn[u])
  BY DEF IndexShape, Commanded
<1>3. CASE at = "idle"
  BY <1>1, <1>2, <1>3
<1>4. CASE at # "idle"
  <2>1. LET q == [conn[t] EXCEPT !.at = at]
        IN  /\ Commanded(q) /\ q.at = at /\ q.of = conn[t].of
            /\ at \notin {"del", "mark", "wipe", "reset"} => q.rows = conn[t].rows
    BY <1>2, <1>4, Onward
  <2>2. V!Idle.at = "idle"
    BY DEF V!Idle
  <2>. QED  BY <1>1, <1>2, <1>4, <2>1, <2>2
<1>. QED  BY <1>3, <1>4

\* VADD writes the row, and inserts it again.
LEMMA AddPutDone ==
  ASSUME IndexInv, NEW t \in Committers, V!AddPut(t) \/ V!AddPutFails(t)
  PROVE  IndexInv'
<1>. DEFINE p == conn[t]
<1>0. IndexShape /\ p.at = "put" /\ p # V!Idle /\ HasRows(p) /\ DOMAIN p.rows = p.of
  <2>1. p.at = "put" /\ IndexShape /\ Commanded(p)
    BY DEF V!AddPut, V!AddPutFails, V!At, IndexInv, IndexShape
  <2>2. p # V!Idle /\ HasRows(p)
    BY <2>1 DEF Commanded, V!Idle
  <2>. HIDE DEF p
  <2>. QED  BY <2>1, <2>2 DEF HasRows
<1>1. CASE V!AddPut(t)
  <2>1. /\ V!Goto(t, "again") /\ UNCHANGED <<node, lost, broken, loose, doubled>>
        /\ store' = [id \in Ids |-> IF id \in p.of THEN p.rows[id] ELSE store[id]]
    BY <1>1 DEF V!AddPut, V!At, V!graph
  <2>2. /\ conn' = [u \in Committers |-> conn'[u]] /\ \A u \in Committers : Commanded(conn'[u])
        /\ \A u \in Committers : u # t => conn'[u] = conn[u]
        /\ conn'[t] # V!Idle /\ conn'[t].of = p.of /\ conn'[t].at = "again"
           /\ conn'[t].rows = p.rows
    BY <1>0, <2>1, Took
  <2>3. store' \in [Ids -> Some]
    BY <1>0, <2>1 DEF IndexShape, HasRows, Some
  <2>4. IndexShape'
    BY <1>0, <2>1, <2>2, <2>3 DEF IndexShape
  <2>5. ASSUME NEW i \in Ids PROVE Follows(t, i)
    <3>1. Single(i)' <=> Single(i)
      BY <2>1 DEF Single
    <3>. QED  BY <1>0, <2>1, <2>2, <3>1 DEF Follows, Place
  <2>. QED  BY <2>1, <2>2, <2>4, <2>5, CommandMoves
<1>2. CASE V!AddPutFails(t)
  <2>1. V!Goto(t, "idle") /\ loose' = loose \cup p.of
        /\ UNCHANGED <<store, node, lost, broken, doubled>>
    BY <1>2 DEF V!AddPutFails, V!At, V!graph
  <2>2. /\ conn' = [u \in Committers |-> conn'[u]] /\ \A u \in Committers : Commanded(conn'[u])
        /\ \A u \in Committers : u # t => conn'[u] = conn[u]
        /\ conn'[t] = V!Idle
    BY <1>0, <2>1, Took
  <2>3. IndexShape'
    BY <1>0, <2>1, <2>2 DEF IndexShape
  <2>4. ASSUME NEW i \in Ids \ loose' PROVE Follows(t, i)
    <3>1. Single(i)' <=> Single(i)
      BY <2>1 DEF Single
    <3>. QED  BY <2>1, <2>4, <3>1 DEF Follows
  <2>. QED  BY <2>1, <2>2, <2>3, <2>4, CommandMoves
<1>. QED  BY <1>1, <1>2

\* VADD inserts a second time, after the write.
LEMMA AddAgainDone == ASSUME IndexInv, NEW t \in Committers, V!AddAgain(t) PROVE IndexInv'
<1>. DEFINE p == conn[t]
<1>1. PICK id \in p.of : p.at = "again" /\ V!Insert(id, p.rows[id]) /\ V!Goto(t, "idle")
      /\ UNCHANGED <<store, loose, doubled>>
  BY DEF V!AddAgain, V!At
<1>2. IndexShape /\ p # V!Idle /\ p.of = {id} /\ DOMAIN p.rows = {id} /\ id \in Ids
      /\ p.rows[id] \in V!Vector
  BY <1>1 DEF IndexInv, IndexShape, Commanded, V!Idle, HasRows
<1>3. /\ node' \in [Ids -> Some] /\ lost' = lost /\ \A i \in Ids : i # id => node'[i] = node[i]
      /\ broken' \in BOOLEAN /\ ~broken
      /\ node'[id] \in {p.rows[id], node[id]}
  BY <1>1, <1>2, Inserted
<1>4. /\ conn' = [u \in Committers |-> conn'[u]] /\ \A u \in Committers : Commanded(conn'[u])
      /\ \A u \in Committers : u # t => conn'[u] = conn[u]
      /\ conn'[t] = V!Idle
  BY <1>1, <1>2, Took
<1>5. IndexShape'
  BY <1>1, <1>2, <1>3, <1>4 DEF IndexShape
<1>6. ASSUME NEW i \in Ids PROVE Follows(t, i)
  <2>1. Single(i)' <=> Single(i)
    BY <1>3 DEF Single
  <2>2. CASE i = id
    BY <1>1, <1>2, <1>3, <1>4, <2>1, <2>2 DEF Follows, Place
  <2>3. CASE i # id
    BY <1>1, <1>2, <1>3, <2>1, <2>3 DEF Follows
  <2>. QED  BY <2>2, <2>3
<1>. QED  BY <1>1, <1>3, <1>4, <1>5, <1>6, CommandMoves

\* VDEL removes the key, and marks the node.
LEMMA DeleteDone ==
  ASSUME IndexInv, NEW t \in Committers, V!DeleteKey(t) \/ V!DeleteNode(t)
  PROVE  IndexInv'
<1>. DEFINE p == conn[t]
<1>0. IndexShape /\ p.at \in {"del", "mark"} /\ p # V!Idle
  BY DEF V!DeleteKey, V!DeleteNode, V!At, IndexInv, IndexShape, V!Idle
<1>1. CASE V!DeleteKey(t)
  <2>1. /\ p.at = "del" /\ V!Goto(t, "mark") /\ UNCHANGED <<node, lost, broken, doubled>>
        /\ \/ loose' = loose /\ store' = [id \in Ids |-> IF id \in p.of THEN V!None ELSE store[id]]
           \/ loose' = loose \cup p.of /\ store' = store
    BY <1>1 DEF V!DeleteKey, V!At, V!graph
  <2>2. /\ conn' = [u \in Committers |-> conn'[u]] /\ \A u \in Committers : Commanded(conn'[u])
        /\ \A u \in Committers : u # t => conn'[u] = conn[u]
        /\ conn'[t] # V!Idle /\ conn'[t].of = p.of /\ conn'[t].at = "mark"
    BY <1>0, <2>1, Took
  <2>3. store' \in [Ids -> Some]
    BY <1>0, <2>1 DEF IndexShape, Some
  <2>4. IndexShape'
    BY <1>0, <2>1, <2>2, <2>3 DEF IndexShape
  <2>5. ASSUME NEW i \in Ids \ loose' PROVE Follows(t, i)
    <3>1. Single(i)' <=> Single(i)
      BY <2>1 DEF Single
    <3>. QED  BY <2>1, <2>2, <2>5, <3>1 DEF Follows, Place
  <2>. QED  BY <2>1, <2>2, <2>4, <2>5, CommandMoves
<1>2. CASE V!DeleteNode(t)
  <2>1. /\ p.at = "mark" /\ V!Goto(t, "idle") /\ UNCHANGED <<store, lost, broken, doubled, loose>>
        /\ node' = [id \in Ids |-> IF id \in p.of THEN V!None ELSE node[id]]
    BY <1>2 DEF V!DeleteNode, V!At, V!Marked
  <2>2. /\ conn' = [u \in Committers |-> conn'[u]] /\ \A u \in Committers : Commanded(conn'[u])
        /\ \A u \in Committers : u # t => conn'[u] = conn[u]
        /\ conn'[t] = V!Idle
    BY <1>0, <2>1, Took
  <2>3. node' \in [Ids -> Some]
    BY <1>0, <2>1 DEF IndexShape, Some
  <2>4. IndexShape'
    BY <1>0, <2>1, <2>2, <2>3 DEF IndexShape
  <2>5. ASSUME NEW i \in Ids PROVE Follows(t, i)
    <3>1. Single(i)' <=> Single(i)
      BY <2>1 DEF Single
    <3>. QED  BY <2>1, <2>2, <3>1 DEF Follows, Place
  <2>. QED  BY <2>1, <2>2, <2>4, <2>5, CommandMoves
<1>. QED  BY <1>1, <1>2

\* A batch writes its rows, or fails.
LEMMA BatchPutDone == ASSUME IndexInv, NEW t \in Committers, V!BatchPut(t) PROVE IndexInv'
<1>. DEFINE p == conn[t]
<1>0. IndexShape /\ p.at \in {"batch", "store"} /\ p # V!Idle /\ HasRows(p)
      /\ UNCHANGED <<node, lost, broken, loose, doubled>>
  BY DEF V!BatchPut, V!graph, IndexInv, IndexShape, Commanded, V!Idle
<1>1. CASE store' = store /\ V!Goto(t, "idle")
  <2>1. /\ conn' = [u \in Committers |-> conn'[u]] /\ \A u \in Committers : Commanded(conn'[u])
        /\ \A u \in Committers : u # t => conn'[u] = conn[u]
        /\ conn'[t] = V!Idle
    BY <1>0, <1>1, Took
  <2>2. IndexShape'
    BY <1>0, <1>1, <2>1 DEF IndexShape
  <2>3. ASSUME NEW i \in Ids PROVE Follows(t, i)
    <3>1. Single(i)' <=> Single(i)
      BY <1>0 DEF Single
    <3>. QED  BY <1>0, <1>1, <2>1, <3>1 DEF Follows, Place
  <2>. QED  BY <1>0, <2>1, <2>2, <2>3, CommandMoves
<1>2. CASE ~(store' = store /\ V!Goto(t, "idle"))
  <2>. DEFINE at == IF p.at = "batch" THEN "merge" ELSE "export"
  <2>1. /\ store' = [id \in Ids |-> IF id \in DOMAIN p.rows THEN p.rows[id] ELSE store[id]]
        /\ V!Goto(t, at)
    BY <1>2 DEF V!BatchPut
  <2>2. (p.at = "batch" /\ at = "merge") \/ (p.at = "store" /\ at = "export")
    BY <1>0
  <2>. HIDE DEF at
  <2>3. /\ conn' = [u \in Committers |-> conn'[u]] /\ \A u \in Committers : Commanded(conn'[u])
        /\ \A u \in Committers : u # t => conn'[u] = conn[u]
        /\ conn'[t] # V!Idle /\ conn'[t].of = p.of /\ conn'[t].at = at /\ conn'[t].rows = p.rows
    BY <1>0, <2>1, <2>2, Took
  <2>4. store' \in [Ids -> Some]
    BY <1>0, <2>1 DEF IndexShape, HasRows, Some
  <2>5. IndexShape'
    BY <1>0, <2>3, <2>4 DEF IndexShape
  <2>6. ASSUME NEW i \in Ids PROVE Follows(t, i)
    <3>1. Single(i)' <=> Single(i)
      BY <1>0 DEF Single
    <3>2. (p.at = "batch" => p.of = DOMAIN p.rows) /\ (p.at = "store" => p.of = Ids)
          /\ DOMAIN p.rows \subseteq Ids
      BY <1>0 DEF HasRows
    <3>. QED  BY <1>0, <2>1, <2>2, <2>3, <3>1, <3>2 DEF Follows, Place
  <2>. QED  BY <1>0, <2>3, <2>5, <2>6, CommandMoves
<1>. QED  BY <1>1, <1>2

\* VADDBATCH appends its nodes.
LEMMA BatchMergeDone == ASSUME IndexInv, NEW t \in Committers, V!BatchMerge(t) PROVE IndexInv'
<1>. DEFINE p == conn[t]
            new == p.rows
            had == {id \in DOMAIN new : node[id] # V!None}
<1>1. IndexShape /\ p.at = "merge" /\ ~broken /\ V!Goto(t, "idle") /\ store' = store
      /\ loose' = loose
  BY DEF V!BatchMerge, V!At, IndexInv
<1>2. p # V!Idle /\ HasRows(p) /\ p.of = DOMAIN new /\ DOMAIN new \subseteq Ids
      /\ new \in [DOMAIN new -> V!Vector]
  <2>1. p # V!Idle /\ HasRows(p)
    BY <1>1 DEF IndexShape, Commanded, V!Idle
  <2>. QED  BY <1>1, <2>1 DEF HasRows
<1>3. /\ conn' = [u \in Committers |-> conn'[u]] /\ \A u \in Committers : Commanded(conn'[u])
      /\ \A u \in Committers : u # t => conn'[u] = conn[u]
      /\ conn'[t] = V!Idle
  BY <1>1, <1>2, Took
<1>4. CASE broken' = TRUE /\ UNCHANGED <<V!graph, doubled>>
  BY <1>1, <1>3, <1>4 DEF IndexInv, IndexShape, V!graph
<1>5. CASE ~(broken' = TRUE /\ UNCHANGED <<V!graph, doubled>>)
  <2>1. /\ node' = [id \in Ids |-> IF id \in DOMAIN new THEN new[id] ELSE node[id]]
        /\ lost' = lost \cup {<<id, node[id]>> : id \in had}
        /\ doubled' = doubled \cup had /\ broken' = broken
    BY <1>5 DEF V!BatchMerge
  <2>2. node' \in [Ids -> Some] /\ lost' \subseteq Ids \X V!Vector
    BY <1>1, <1>2, <2>1 DEF IndexShape, Some
  <2>3. IndexShape'
    BY <1>1, <1>3, <2>1, <2>2 DEF IndexShape
  <2>4. ASSUME NEW i \in Ids PROVE Follows(t, i)
    <3>1. CASE i \in had
      BY <1>2, <1>3, <2>1, <3>1 DEF Follows
    <3>2. CASE i \notin had
      <4>1. Single(i)' <=> Single(i)
        BY <2>1, <3>2 DEF Single
      <4>. QED  BY <1>1, <1>2, <1>3, <2>1, <3>2, <4>1 DEF Follows, Place
    <3>. QED  BY <3>1, <3>2
  <2>. QED  BY <1>1, <1>3, <2>1, <2>3, <2>4, CommandMoves
<1>. QED  BY <1>4, <1>5

\* VADDBATCH PAR takes what the graph holds.
LEMMA BatchExportDone == ASSUME IndexInv, NEW t \in Committers, V!BatchExport(t) PROVE IndexInv'
<1>. DEFINE p == conn[t]
            q == [at |-> "swap", of |-> p.of, rows |-> p.rows, kept |-> V!Exported, dim |-> dim]
<1>1. IndexShape /\ p.at = "export" /\ ~broken
      /\ UNCHANGED <<store, node, lost, broken, loose, doubled>>
      /\ conn' = [conn EXCEPT ![t] = q]
  BY DEF V!BatchExport, V!At, V!graph, IndexInv
<1>2. HasRows(p)
  BY <1>1 DEF IndexShape, Commanded, V!Idle
<1>3. conn' = [u \in Committers |-> conn'[u]] /\ (\A u \in Committers : u # t => conn'[u] = conn[u])
      /\ conn'[t] = q
  BY <1>1 DEF IndexShape
<1>4. /\ q.at = "swap" /\ q.of = p.of /\ q.rows = p.rows /\ q.kept = V!Exported /\ q # V!Idle
      /\ q = [at |-> q.at, of |-> q.of, rows |-> q.rows, kept |-> q.kept, dim |-> q.dim]
  BY DEF V!Idle
<1>. HIDE DEF q
<1>5. V!Exported \subseteq Ids \X V!Vector
      /\ \A id, v : <<id, v>> \in V!Exported <=> (id \in Ids /\ v = node[id] /\ v # V!None)
         \/ <<id, v>> \in lost
  BY <1>1 DEF IndexShape, V!Exported, V!Pairs, Some
<1>6. HasRows(q)
  BY <1>1, <1>2, <1>4 DEF HasRows
<1>7. Commanded(q)
  BY <1>4, <1>5, <1>6 DEF Commanded
<1>8. IndexShape'
  BY <1>1, <1>3, <1>7 DEF IndexShape
<1>9. ASSUME NEW i \in Ids PROVE Follows(t, i)
  <2>1. Single(i)' <=> Single(i)
    BY <1>1 DEF Single
  <2>2. i \in p.of
    BY <1>1, <1>2 DEF HasRows
  <2>3. ASSUME Place(i, p), i \notin doubled => Single(i) PROVE Place(i, conn[t])'
    <3>1. i \notin doubled => \A v : <<i, v>> \in q.kept <=> (v = node[i] /\ v # V!None)
      BY <1>4, <1>5, <2>3 DEF Single
    <3>. QED  BY <1>1, <1>3, <1>4, <2>3, <3>1 DEF Place
  <2>. QED  BY <1>1, <1>3, <1>4, <2>1, <2>2, <2>3 DEF Follows
<1>. QED  BY <1>1, <1>3, <1>4, <1>8, <1>9, CommandMoves

\* VADDBATCH PAR replaces the graph.
LEMMA BatchSwapDone == ASSUME IndexInv, NEW t \in Committers, V!BatchSwap(t) PROVE IndexInv'
<1>. DEFINE p == conn[t]
            new == p.rows
            kept == p.kept
            all == kept \cup V!Pairs(new)
<1>1. IndexShape /\ p.at = "swap" /\ ~broken /\ V!Goto(t, "idle") /\ store' = store
      /\ broken' = broken
  BY DEF V!BatchSwap, V!At, IndexInv
<1>2. p # V!Idle /\ HasRows(p) /\ kept \subseteq Ids \X V!Vector
  BY <1>1 DEF IndexShape, Commanded, V!Idle
<1>3. p.of = Ids /\ DOMAIN new \subseteq Ids /\ new \in [DOMAIN new -> V!Vector]
  BY <1>1, <1>2 DEF HasRows
<1>4. /\ conn' = [u \in Committers |-> conn'[u]] /\ \A u \in Committers : Commanded(conn'[u])
      /\ \A u \in Committers : u # t => conn'[u] = conn[u]
      /\ conn'[t] = V!Idle
  BY <1>1, <1>2, Took
<1>5. CASE loose' = loose \cup DOMAIN new /\ UNCHANGED <<V!graph, doubled>>
  <2>1. UNCHANGED <<node, lost, doubled>>
    BY <1>5 DEF V!graph
  <2>2. IndexShape'
    BY <1>1, <1>4, <2>1 DEF IndexShape
  <2>3. ASSUME NEW i \in Ids \ loose' PROVE Follows(t, i)
    <3>1. (Single(i)' <=> Single(i)) /\ i \notin DOMAIN new
      BY <1>5, <2>1, <2>3 DEF Single
    <3>. QED  BY <1>1, <1>3, <1>4, <2>1, <3>1 DEF Follows, Place
  <2>. QED  BY <1>1, <1>4, <1>5, <2>2, <2>3, CommandMoves
<1>6. CASE ~(loose' = loose \cup DOMAIN new /\ UNCHANGED <<V!graph, doubled>>)
  <2>1. PICK map \in [Ids -> V!Vector \cup {V!None}] :
          V!Built(all, map) /\ node' = map
          /\ lost' = (all \ V!Pairs(map)) \cup (kept \cap V!Pairs(new))
    BY <1>6 DEF V!BatchSwap
  <2>2. doubled' = doubled \cup {r[1] : r \in {x \in kept : x[1] \in DOMAIN new}} /\ loose' = loose
    BY <1>6 DEF V!BatchSwap
  <2>3. \A id, v : <<id, v>> \in V!Pairs(new) <=> id \in DOMAIN new /\ v = new[id] /\ v # V!None
    BY DEF V!Pairs
  <2>4. V!Pairs(new) \subseteq Ids \X V!Vector
    BY <1>3 DEF V!Pairs
  <2>5. node' \in [Ids -> Some] /\ lost' \subseteq Ids \X V!Vector
    BY <1>2, <2>1, <2>4 DEF Some
  <2>6. IndexShape'
    BY <1>1, <1>4, <2>5 DEF IndexShape
  <2>7. ASSUME NEW i \in Ids, i \notin doubled', Place(i, p)
        PROVE  Single(i)' /\ node'[i] = store'[i]
    <3>. DEFINE to == IF i \in DOMAIN new THEN new[i] ELSE node[i]
    <3>1. i \notin doubled /\ (i \in DOMAIN new => \A v : <<i, v>> \notin kept)
      BY <2>2, <2>7
    <3>2. store[i] = to /\ \A v : <<i, v>> \in kept <=> (v = node[i] /\ v # V!None)
      BY <1>1, <2>7, <3>1 DEF Place
    <3>3. to \in Some
      BY <1>1, <1>3 DEF IndexShape, Some
    <3>4. \A v : <<i, v>> \in all <=> v = to /\ v # V!None
      BY <1>3, <2>3, <3>1, <3>2
    <3>5. \A x \in all : x = <<x[1], x[2]>>
      BY <1>2, <2>4
    <3>. HIDE DEF to, all
    <3>6. map[i] = to
      <4>1. CASE i \in {r[1] : r \in all}
        BY <2>1, <3>4, <4>1 DEF V!Built
      <4>2. CASE i \notin {r[1] : r \in all}
        <5>1. <<i, to>> \notin all
          BY <4>2
        <5>. QED  BY <2>1, <3>4, <4>2, <5>1 DEF V!Built
      <4>. QED  BY <4>1, <4>2
    <3>7. \A v : <<i, v>> \in V!Pairs(map) <=> v = to /\ v # V!None
      BY <3>6 DEF V!Pairs
    <3>8. \A v : <<i, v>> \notin lost'
      BY <2>1, <2>3, <3>1, <3>4, <3>7
    <3>. QED  BY <1>1, <2>1, <3>2, <3>6, <3>8 DEF Single
  <2>8. ASSUME NEW i \in Ids PROVE Follows(t, i)
    <3>1. Place(i, p) /\ ~(i \in doubled') => Single(i)' /\ node'[i] = store'[i]
      BY <2>7
    <3>. QED  BY <1>3, <1>4, <3>1 DEF Follows
  <2>. QED  BY <1>1, <1>4, <2>2, <2>6, <2>8, CommandMoves
<1>. QED  BY <1>5, <1>6

\* FLUSHALL wipes the engine, and clears the graph.
LEMMA FlushDone ==
  ASSUME IndexInv, NEW t \in Committers, V!FlushStore(t) \/ V!FlushGraph(t)
  PROVE  IndexInv'
<1>. DEFINE p == conn[t]
<1>0. IndexShape /\ p.at \in {"wipe", "reset"} /\ p # V!Idle /\ p.of = Ids
  <2>1. IndexShape /\ p.at \in {"wipe", "reset"} /\ Commanded(p)
    BY DEF V!FlushStore, V!FlushGraph, V!At, IndexInv, IndexShape
  <2>. QED  BY <2>1 DEF Commanded, V!Idle
<1>1. CASE V!FlushStore(t)
  <2>1. /\ V!Goto(t, "reset") /\ UNCHANGED <<node, lost, broken, loose, doubled>>
        /\ p.at = "wipe" /\ store' = [id \in Ids |-> V!None]
    BY <1>1 DEF V!FlushStore, V!At, V!graph
  <2>2. /\ conn' = [u \in Committers |-> conn'[u]] /\ \A u \in Committers : Commanded(conn'[u])
        /\ \A u \in Committers : u # t => conn'[u] = conn[u]
        /\ conn'[t] # V!Idle /\ conn'[t].of = p.of /\ conn'[t].at = "reset"
    BY <1>0, <2>1, Took
  <2>3. IndexShape'
    BY <1>0, <2>1, <2>2 DEF IndexShape, Some
  <2>4. ASSUME NEW i \in Ids PROVE Follows(t, i)
    <3>1. Single(i)' <=> Single(i)
      BY <2>1 DEF Single
    <3>. QED  BY <1>0, <2>1, <2>2, <3>1 DEF Follows, Place
  <2>. QED  BY <2>1, <2>2, <2>3, <2>4, CommandMoves
<1>2. CASE V!FlushGraph(t)
  <2>1. /\ V!Goto(t, "idle") /\ UNCHANGED <<store, broken, loose>> /\ p.at = "reset"
        /\ node' = [id \in Ids |-> V!None] /\ lost' = {} /\ doubled' = {}
    BY <1>2 DEF V!FlushGraph, V!At
  <2>2. /\ conn' = [u \in Committers |-> conn'[u]] /\ \A u \in Committers : Commanded(conn'[u])
        /\ \A u \in Committers : u # t => conn'[u] = conn[u]
        /\ conn'[t] = V!Idle
    BY <1>0, <2>1, Took
  <2>3. IndexShape'
    BY <1>0, <2>1, <2>2 DEF IndexShape, Some
  <2>4. ASSUME NEW i \in Ids PROVE Follows(t, i)
    <3>1. Single(i)'
      BY <2>1 DEF Single
    <3>. QED  BY <1>0, <2>1, <2>2, <3>1 DEF Follows, Place
  <2>. QED  BY <2>1, <2>2, <2>3, <2>4, CommandMoves
<1>. QED  BY <1>1, <1>2

\* A restart reads every node from the keys.
LEMMA RestartDone == ASSUME IndexInv, V!Restart PROVE IndexInv'
<1>1. /\ conn' = [u \in Committers |-> V!Idle] /\ node' = store /\ lost' = {} /\ store' = store
      /\ broken' \in BOOLEAN /\ loose' = {}
  BY DEF V!Restart
<1>2. conn' = [u \in Committers |-> conn'[u]] /\ \A u \in Committers : conn'[u] = V!Idle
  BY <1>1
<1>3. IndexShape'
  BY <1>1, <1>2 DEF IndexInv, IndexShape, Commanded
<1>4. ASSUME NEW id \in Ids PROVE Whole(id)'
  <2>1. V!Idle.of = {}
    BY DEF V!Idle
  <2>2. \A u \in Committers : id \notin conn'[u].of
    BY <1>2, <2>1
  <2>3. Single(id)'
    BY <1>1 DEF Single
  <2>. QED  BY <1>1, <2>2, <2>3 DEF Whole
<1>. QED  BY <1>3, <1>4 DEF IndexInv

\* The index's invariant holds in every state: the two stores agree but for what a
\* command under way has not come to yet.
THEOREM IndexInvariance == V!Spec => []IndexInv
<1>1. V!Init => IndexInv
  <2>. SUFFICES ASSUME V!Init PROVE IndexInv
    OBVIOUS
  <2>1. /\ store = [id \in Ids |-> V!None] /\ node = [id \in Ids |-> V!None] /\ lost = {}
        /\ conn = [t \in Committers |-> V!Idle] /\ broken = FALSE
    BY DEF V!Init
  <2>2. conn = [t \in Committers |-> conn[t]] /\ \A t \in Committers : conn[t] = V!Idle
    BY <2>1
  <2>3. IndexShape
    BY <2>1, <2>2 DEF IndexShape, Commanded, Some
  <2>4. ASSUME NEW id \in Ids PROVE Whole(id)
    <3>1. V!Idle.of = {}
      BY DEF V!Idle
    <3>2. \A u \in Committers : id \notin conn[u].of
      BY <2>2, <3>1
    <3>3. Single(id)
      BY <2>1 DEF Single
    <3>. QED  BY <2>1, <3>2, <3>3 DEF Whole
  <2>. QED  BY <2>3, <2>4 DEF IndexInv
<1>2. IndexInv /\ [V!Next]_V!vars => IndexInv'
  <2>. SUFFICES ASSUME IndexInv, [V!Next]_V!vars PROVE IndexInv'
    OBVIOUS
  <2>1. CASE V!Restart
    BY <2>1, RestartDone
  <2>2. ASSUME NEW t \in Committers, V!Command(t) PROVE IndexInv'
    BY <2>2, CommandStarts DEF V!Command
  <2>3. ASSUME NEW t \in Committers, V!Step(t) PROVE IndexInv'
    <3>1. CASE V!AddNode(t)
      BY <3>1, AddNodeDone
    <3>2. CASE V!AddPut(t) \/ V!AddPutFails(t)
      BY <3>2, AddPutDone
    <3>3. CASE V!AddAgain(t)
      BY <3>3, AddAgainDone
    <3>4. CASE V!DeleteKey(t) \/ V!DeleteNode(t)
      BY <3>4, DeleteDone
    <3>5. CASE V!BatchPut(t)
      BY <3>5, BatchPutDone
    <3>6. CASE V!BatchMerge(t)
      BY <3>6, BatchMergeDone
    <3>7. CASE V!BatchExport(t)
      BY <3>7, BatchExportDone
    <3>8. CASE V!BatchSwap(t)
      BY <3>8, BatchSwapDone
    <3>9. CASE V!FlushStore(t) \/ V!FlushGraph(t)
      BY <3>9, FlushDone
    <3>. QED  BY <2>3, <3>1, <3>2, <3>3, <3>4, <3>5, <3>6, <3>7, <3>8, <3>9 DEF V!Step
  <2>4. CASE UNCHANGED V!vars
    <3>1. UNCHANGED <<store, node, lost, conn, broken, loose, doubled>>
      BY <2>4 DEF V!vars, V!graph
    <3>2. IndexShape'
      BY <3>1 DEF IndexInv, IndexShape
    <3>3. \A id : Whole(id)' <=> Whole(id)
      BY <3>1 DEF Whole, Single, Place
    <3>. QED  BY <3>1, <3>2, <3>3 DEF IndexInv
  <2>. QED  BY <2>1, <2>2, <2>3, <2>4 DEF V!Next
<1>. QED  BY <1>1, <1>2, PTL DEF V!Spec

\* What searches can return of an id whose commands are done is what the engine
\* holds for it, through VADD, VDEL, batches, rebuilds, FLUSHALL and restarts: the
\* graph and the engine are written one after the other, under no common lock.
THEOREM GraphIsTheStore == V!Spec => []GraphIsStore
<1>1. IndexInv => GraphIsStore
  <2>. SUFFICES ASSUME IndexInv, ~broken, NEW id \in Ids \ (loose \cup doubled), V!Quiet(id)
                PROVE  V!Found(id) = {store[id]} \ {V!None} /\ ~\E p \in lost : p[1] = id
    BY DEF GraphIsStore, V!GraphIsStore
  <2>1. IndexShape /\ Single(id) /\ node[id] = store[id]
    BY DEF IndexInv, Whole, V!Quiet
  <2>2. \A x \in lost : x = <<x[1], x[2]>>
    BY <2>1 DEF IndexShape
  <2>3. ~\E p \in lost : p[1] = id
    BY <2>1, <2>2 DEF Single
  <2>. QED  BY <2>1, <2>3, FoundIsNode
<1>. QED  BY <1>1, IndexInvariance, PTL
============================================================================
