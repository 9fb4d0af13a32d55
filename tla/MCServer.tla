------------------------------ MODULE MCServer ------------------------------
(* Parts of the server for TLC.  A behaviour is about one of four, its         *)
(* subject, and the others stand still: the expiry mirrors (ExpiryMirror), a   *)
(* subscriber's session (Broker), a stream and its blocked readers (Streams), *)
(* vector searches that share launches (QueryCoalescer).                      *)
EXTENDS Naturals, FiniteSets

CONSTANTS Clients, Reaper, MaxNow, Publishers, QueueLimit, SocketLimit,
          Consumers, Blockers, MaxId, MaxAdded,
          Searchers, Shapes, MaxLeaders, Cap, MaxFailures

VARIABLES subject,
          durable, index, any, colls, now, thread, met,
          table, handle, shut, session, mine, sender, queue, forwarder, socket, pub,
          stream, group, pel, cons, wait, settled, skewed,
          pending, ready, leaders, caller, failures, mixed

expiring == <<durable, index, any, colls, now, thread, met>>
publishing == <<table, handle, shut, session, mine, sender, queue, forwarder, socket, pub>>
streaming == <<stream, group, pel, cons, wait, settled, skewed>>
searching == <<pending, ready, leaders, caller, failures, mixed>>

X == INSTANCE ExpiryMirror
B == INSTANCE Broker
S == INSTANCE Streams
Q == INSTANCE QueryCoalescer WITH Threads <- Searchers

ASSUME StreamAssumption == MaxId \in Nat
ASSUME MirrorAssumption == MaxNow \in Nat /\ IsFiniteSet(Clients)

MCInit == X!Init /\ B!Init /\ S!Init /\ Q!Init /\ subject \in {"expiry", "broker", "stream", "search"}
MCNext ==
  /\ UNCHANGED subject
  /\ \/ subject = "expiry" /\ X!Next /\ UNCHANGED <<publishing, streaming, searching>>
     \/ subject = "broker" /\ B!Next /\ UNCHANGED <<expiring, streaming, searching>>
     \/ subject = "stream" /\ S!Next /\ UNCHANGED <<expiring, publishing, searching>>
     \/ subject = "search" /\ Q!Next /\ UNCHANGED <<expiring, publishing, streaming>>

\* The fairness of the four specifications, each for its own subject.
Turn(s, A) == subject = s /\ A
MCFairness ==
  /\ WF_expiring(Turn("expiry", X!Reap))
  /\ \A t \in X!Threads : WF_expiring(Turn("expiry", X!Proceed(t)))
  /\ WF_publishing(Turn("broker", B!Session)) /\ WF_publishing(Turn("broker", B!Forwarder))
  /\ \A p \in Publishers : WF_publishing(Turn("broker", B!Publisher(p)))
  /\ \A c \in Blockers : WF_streaming(Turn("stream", S!Poll(c)))
  /\ \A t \in Searchers : WF_searching(Turn("search", Q!Go(t)))

MCSpec == MCInit /\ [][MCNext]_<<subject, expiring, publishing, streaming, searching>> /\ MCFairness

\* What the parts promise: see there.
ExactUntilTheyMeet == X!ExactUntilTheyMeet
OverdueEntriesGo == X!OverdueEntriesGo
NoSilentLoss == B!NoSilentLoss
ClosedSessionsEnd == B!ClosedSessionsEnd
NothingSlipsThrough == S!NothingSlipsThrough
LagIsExact == S!LagIsExact
EveryQueryGetsItsRow == Q!EveryQueryGetsItsRow
BlockedReadersAreServed == S!BlockedReadersAreServed
=============================================================================
