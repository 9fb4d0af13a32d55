----------------------------- MODULE MCKeyspace -----------------------------
(* What is kept in engine keys by hand, for TLC.  A behaviour is about one of  *)
(* four, its subject, and the others stand still: the data types (Keyspace);   *)
(* the records of agent memory (Memory);                                      *)
(* one engine key under the commands of two callers, FLUSHALL and a restart    *)
(* (Vcs); the two engine keys of a user key through the commits, merges and    *)
(* checkouts of two branches, one command at a time (Vcs).                    *)
EXTENDS Vcs, TLC

CONSTANTS Keys, Members, Scores, MaxInt, MaxLen, Reach, Deadlines, MaxNow, Ids, MaxCommands

ASSUME IdsAreNumbered == IsFiniteSet(Ids) /\ Ids = 1..Cardinality(Ids)

VARIABLES subject, cells, now,
          text, meta, vec, words, index, count, next, due, thread, commands, starts, loose

remembering == <<text, meta, vec, words, index, count, next, due, thread, commands, starts, loose>>

K == INSTANCE Keyspace
M == INSTANCE Memory WITH Threads <- Callers, dirty <- due, boots <- starts

MCOwner == "kv" :> "u" @@ "exp" :> "u"

\* One record of memory, stored by a first command.
Remembered ==
  LET m == [of |-> 1, sal |-> 0, to |-> 0]
  IN  /\ text = [id \in Ids |-> IF id = 1 THEN 1 ELSE 0] /\ vec = text /\ words = text
      /\ meta = [id \in Ids |-> IF id = 1 THEN m ELSE M!NoMeta]
      /\ index = [id \in Ids |-> M!Entry(meta[id], vec[id])] /\ count = 1 /\ next = 2
      /\ due \in BOOLEAN
      /\ thread = [c \in Callers |-> M!Idle] /\ commands = 1 /\ starts = 0 /\ loose = {}

\* Two branches at a root commit that holds one of the keys.
Branched ==
  /\ store = ("kv" :> 1 @@ "exp" :> None)
  /\ head = "main" /\ branch = [b \in Branches |-> 1]
  /\ commits = <<[parents |-> <<>>, changes |-> "kv" :> 1]>>
  /\ seen = World /\ unseen = {}
  /\ queue = <<>> /\ work = <<>> /\ stage = "idle" /\ batch = {} /\ wipe = FALSE
  /\ enabled = TRUE /\ fullScan = FALSE /\ dirty = [k \in Key |-> Clean] /\ epoch = 0
  /\ caller = [c \in Callers |-> Idle] /\ raced = FALSE
  /\ writes = 0 /\ flushes = 0 /\ boots = 0

Started(ops) == \A c \in Callers : caller'[c].op \in ops \cup {"none"}
\* One key and one branch, three commands, a few requests at a time, and either
\* a FLUSHALL or a restart.
Tracking ==
  /\ Started({"init", "commit", "status", "reset", "restore"})
  /\ store'["exp"] = None /\ "exp" \notin batch' /\ head' # "dev"
  /\ Active' \ Active # {} => epoch' + Cardinality(Active') <= 3 /\ Len(commits') + Cardinality(Active') <= 3
  /\ Len(queue') + Len(work') <= 2 /\ flushes' + boots' <= 1 /\ epoch' + boots' <= 2
\* One command at a time, each write between two of them, and no group fails.
Graph ==
  /\ Started({"commit", "branch", "checkout", "merge", "revert"})
  /\ flushes' + boots' = 0 /\ \A c \in Callers : caller'[c].at # "lost"
  /\ writes' # writes \/ Active' \ Active # {} => queue = <<>> /\ stage = "idle" /\ Active = {}

MCInit ==
  /\ K!Init
  /\ \/ subject \in {"types", "tracking"} /\ Init /\ M!Init /\ ~due
     \/ subject = "graph" /\ Branched /\ M!Init /\ ~due
     \/ subject = "memory" /\ Init /\ Remembered
MCNext ==
  /\ UNCHANGED subject
  /\ \/ subject = "types" /\ K!Next /\ UNCHANGED <<vars, remembering>>
     \/ subject = "tracking" /\ Next /\ Tracking /\ UNCHANGED <<cells, now, remembering>>
     \/ subject = "graph" /\ Next /\ Graph /\ UNCHANGED <<cells, now, remembering>>
     \/ subject = "memory" /\ M!Next /\ UNCHANGED <<cells, now, vars>>
MCSpec == MCInit /\ [][MCNext]_<<subject, cells, now, vars, remembering>>

MCSymmetry == Permutations(Keys) \cup Permutations(Members) \cup Permutations(Callers)

\* What Keyspace and Memory promise, and Vcs beside them: see there.
KeysAreWhole == K!KeysAreWhole
RecordsAreWhole == M!RecordsAreWhole
ImplementsKeyTypes == K!Types!Init /\ [][subject = "types" => K!Types!Next]_<<cells, now>>
=============================================================================
