------------------------------- MODULE MCLive -------------------------------
(* The commit path, its files and what a restart recovers, and what the        *)
(* threads of the engine and of replication must do at last, for TLC.        *)
(* A behaviour is about one of two parts, its subject, and the other stands    *)
(* still: the flusher and a checkpoint (CommitLog); the serving and replica    *)
(* threads (Replication).                                                    *)
EXTENDS CommitLog

CONSTANTS a, b, FlushAll, MaxTs, MaxGroup, MaxLinks, QueueLimit, SnapBatch, SocketLimit

VARIABLES subject,
          log, hooked, shown, active, hub, srv, frames, pinned, todo, wire, cut,
          ack, confirmed, link, tries, copy, load, applied, clean

copying == <<log, hooked, shown, active, hub, srv, frames, pinned, todo, wire, cut,
             ack, confirmed, link, tries, copy, load, applied, clean>>

\* A conditional commit over both keys, a blind write and a blind delete.
MCWrite == {[puts |-> {a, b}, dels |-> {}, cond |-> TRUE],
            [puts |-> {a}, dels |-> {}, cond |-> FALSE],
            [puts |-> {}, dels |-> {a}, cond |-> FALSE]}

R == INSTANCE Replication
  WITH Key <- {a}, visible <- shown, queue <- frames, snap <- pinned, acked <- confirmed

\* A second entry is made only before a second connection.
SecondIsEarly == tries > 1 /\ log' # log => 2 \notin DOMAIN log'

MCInit == Init /\ R!Init /\ subject \in {"log", "copy"}
MCNext ==
  /\ UNCHANGED subject
  /\ \/ subject = "log" /\ Next /\ UNCHANGED copying
     \/ subject = "copy" /\ R!Next /\ SecondIsEarly /\ UNCHANGED vars

\* The fairness of the two specifications, each for its own subject.
Turn(s, A) == subject = s /\ A
MCFairness ==
  /\ SF_vars(Turn("log", FlushStep)) /\ WF_vars(Turn("log", CkptStep))
  /\ WF_copying(Turn("copy", R!CommitStep)) /\ WF_copying(Turn("copy", R!ReplicaStep))
  /\ \A l \in R!Link :
       /\ WF_copying(Turn("copy", R!ServeStep(l))) /\ WF_copying(Turn("copy", R!AckArrives(l)))
       /\ SF_copying(Turn("copy", R!Ping(l)))

MCSpec == MCInit /\ [][MCNext]_<<subject, vars, copying>> /\ MCFairness

\* What Replication promises: see there.
EveryWaitEnds == R!EveryWaitEnds
=============================================================================
