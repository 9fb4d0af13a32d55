----------------------------- MODULE MCStorage ------------------------------
(* The storage engine and what follows its commits, for TLC.  A behaviour is   *)
(* about one of four instances, its subject, and the others stand still:      *)
(* transactions in write skew over two keys and the long history of one key   *)
(* (Mvcc); the change feed of the commits (ChangeFeed); an index of the       *)
(* vectors stored (VectorIndex).                                              *)
EXTENDS MCMvcc

CONSTANTS MaxBoot, Committers, Prefixes, LogCap, MaxCommits,
          Ids, Dims, Tags, RebuildRatio, MaxCommands,
          m1, m2, i1, y    \* the committers, an id, a tag

VARIABLES subject,
          enabled, seq, log, subs, dropped, committer, commits, joiner, got, due,
          store, node, lost, dead, dim, conn, broken, commands, starts, loose, doubled

feeding == <<enabled, seq, log, subs, dropped, committer, commits, joiner, got, due>>
indexing == <<store, node, lost, dead, dim, conn, broken, commands, starts, loose, doubled>>

F == INSTANCE ChangeFeed
V == INSTANCE VectorIndex WITH Threads <- Committers, thread <- conn, boots <- starts

ASSUME FeedAssumption == Prefixes \in Nat \ {0} /\ LogCap \in Nat

\* Every commit the two instances of Mvcc may make.
MCTxn == MCSkew \cup MCOverwrite

Requests == {queue[i].req : i \in DOMAIN queue}
Skew == clock <= 3 /\ Requests \subseteq MCBlind \cup MCSkew
History ==
  /\ Requests \subseteq MCBlind \cup MCOverwrite
  /\ Cardinality({c \in Client : client[c].st # "idle"}) <= 1
  /\ \A c \in Client : client[c].key \subseteq {a}

\* Idle connections and unused ids are alike: m1 goes first, and with i1.  One
\* vector of the second dimension is enough.
Vectors(c) == IF "rows" \in DOMAIN c THEN {c.rows[id] : id \in DOMAIN c.rows} ELSE {}
Canonical ==
  /\ conn[m1] = V!Idle => conn'[m2] = V!Idle \/ conn[m2] # V!Idle
  /\ commands = 0 => conn'[m1] = V!Idle \/ i1 \in conn'[m1].of
  /\ \A c \in Committers : <<2, y>> \notin Vectors(conn'[c])

\* The feed is switched off where it is not the subject.
NoFeed ==
  /\ enabled = 0 /\ seq = 0 /\ log = 0 /\ subs = 0 /\ dropped = 0
  /\ committer = 0 /\ commits = 0 /\ joiner = 0 /\ got = 0 /\ due = 0

MCInit ==
  /\ Init /\ V!Init
  /\ \/ subject \in {"skew", "history", "index"} /\ NoFeed
     \/ subject = "feed" /\ F!Init
MCNext ==
  /\ UNCHANGED subject
  /\ \/ subject = "skew" /\ Next /\ Skew' /\ UNCHANGED <<feeding, indexing>>
     \/ subject = "history" /\ Next /\ History' /\ UNCHANGED <<feeding, indexing>>
     \/ subject = "feed" /\ F!Next /\ UNCHANGED <<vars, indexing>>
     \/ subject = "index" /\ V!Next /\ Canonical /\ UNCHANGED <<vars, feeding>>
MCSpec == MCInit /\ [][MCNext]_<<subject, vars, feeding, indexing>>

\* What ChangeFeed and VectorIndex promise: see there.
JoinerMissesNothing == subject = "feed" => F!JoinerMissesNothing
GraphIsStore == V!GraphIsStore
=============================================================================
