------------------------------- MODULE Memory -------------------------------
(***************************************************************************)
(* Long-term agent memory: a record is its text, its meta data (salience,   *)
(* validity), its vector and its keywords under separate engine keys, each  *)
(* a commit of its own, and in memory an entry of the record index, a share *)
(* of the count and an id.  Commands run in several threads without a       *)
(* common lock.                                                             *)
(*                                                                         *)
(* Contents are named by the number of the command that wrote them.  The    *)
(* vector index behind the vectors is VectorIndex's subject; working        *)
(* memory, episodes, procedures and edges are keys without mirrors.         *)
(***************************************************************************)
EXTENDS Naturals, FiniteSets

CONSTANTS Ids,       \* 1..n
          Threads,
          MaxCommands, MaxBoot    \* bounds

VARIABLES
  text, meta, vec, words,    \* engine: what each id has, 0 for nothing
  index, count, next,        \* idx, ltm_count, next_id
  dirty,        \* a reload is due (set while this server was a replica)
  thread,       \* the command of each thread and what it does next
  commands, boots,
  loose         \* ids two commands met on, or a failure or a crash left half done

durable == <<text, meta, vec, words>>
mirrors == <<index, count, next>>
vars == <<durable, mirrors, dirty, thread, commands, boots, loose>>

NoMeta == [of |-> 0, sal |-> 0, to |-> 0]
Idle == [at |-> "idle", ids |-> {}]
Nowhere == [id \in Ids |-> 0]
\* ltm_get
Exists(id) == text[id] # 0 /\ meta[id] # NoMeta
MaxOf(S) == IF S = {} THEN 0 ELSE CHOOSE i \in S : \A j \in S : j <= i

\* scan_ltm: every text counts, a record with both keys gets an entry.
Entry(m, v) == [meta |-> m, vec |-> v]
Scanned ==
  [index |-> [id \in Ids |-> IF Exists(id) THEN Entry(meta[id], vec[id]) ELSE Entry(NoMeta, 0)],
   count |-> Cardinality({id \in Ids : text[id] # 0}),
   next |-> MaxOf({id \in Ids : text[id] # 0}) + 1]
Install(s) == index' = s.index /\ count' = s.count /\ next' = s.next

Init ==
  /\ text = Nowhere /\ vec = Nowhere /\ words = Nowhere /\ meta = [id \in Ids |-> NoMeta]
  /\ index = [id \in Ids |-> Entry(NoMeta, 0)] /\ count = 0 /\ next = 1
  /\ dirty \in BOOLEAN
  /\ thread = [t \in Threads |-> Idle] /\ commands = 0 /\ boots = 0 /\ loose = {}

\* A command that may touch `ids` starts; others that touch one of them meet it.
Start(t, ids, at, with) ==
  /\ thread[t] = Idle /\ commands < MaxCommands
  /\ commands' = commands + 1
  /\ loose' = loose \cup (ids \cap UNION {thread[u].ids : u \in Threads})
  /\ thread' = [thread EXCEPT ![t] = [at |-> at, ids |-> ids, n |-> commands + 1, was |-> with]]
  /\ UNCHANGED boots
At(t, at) == thread[t].at = at /\ UNCHANGED <<commands, boots>>
Goto(t, at) == thread' = [thread EXCEPT ![t] = IF at = "idle" THEN Idle ELSE [@ EXCEPT !.at = at]]
IdOf(t) == CHOOSE id \in thread[t].ids : TRUE
Put(f, t, v) == [f EXCEPT ![IdOf(t)] = v]

\* Some of the keys are written and others not.
HalfDone(t) ==
  \/ thread[t].at \in {"meta", "vec", "words"}
  \/ thread[t].at \in {"unvec", "untext", "unmeta"} /\ thread[t].was # NoMeta

\* A put or delete that fails ends its command.
CutShort(t) ==
  /\ thread[t].at \in {"text", "meta", "vec", "words", "change", "untext", "unmeta"}
  /\ Goto(t, "idle") /\ loose' = IF HalfDone(t) THEN loose \cup thread[t].ids ELSE loose
  /\ UNCHANGED <<durable, mirrors, dirty, commands, boots>>
-----------------------------------------------------------------------------
\* ltm_store_temporal
Store(t) ==
  /\ next \in Ids /\ next' = next + 1
  /\ Start(t, {next}, "text", NoMeta)
  /\ UNCHANGED <<durable, index, count, dirty>>
StoreText(t) ==
  /\ At(t, "text") /\ Goto(t, "meta") /\ text' = Put(text, t, thread[t].n)
  /\ UNCHANGED <<meta, vec, words, mirrors, dirty, loose>>
StoreMeta(t) ==
  /\ At(t, "meta") /\ Goto(t, "vec") /\ meta' = Put(meta, t, [of |-> thread[t].n, sal |-> 0, to |-> 0])
  /\ UNCHANGED <<text, vec, words, mirrors, dirty, loose>>
StoreVec(t) ==
  /\ At(t, "vec") /\ Goto(t, "words") /\ vec' = Put(vec, t, thread[t].n)
  /\ UNCHANGED <<text, meta, words, mirrors, dirty, loose>>
StoreWords(t) ==
  /\ At(t, "words") /\ Goto(t, "count") /\ words' = Put(words, t, thread[t].n)
  /\ UNCHANGED <<text, meta, vec, mirrors, dirty, loose>>
StoreCount(t) ==
  /\ At(t, "count") /\ Goto(t, "index") /\ count' = count + 1
  /\ UNCHANGED <<durable, index, next, dirty, loose>>
\* An arena that knows the id keeps its vector (ScopeArena::push).
StoreIndex(t) == LET id == IdOf(t) IN
  /\ At(t, "index") /\ Goto(t, "idle")
  /\ index' = [index EXCEPT ![id] =
       Entry([of |-> thread[t].n, sal |-> 0, to |-> 0], IF @.vec # 0 THEN @.vec ELSE thread[t].n)]
  /\ UNCHANGED <<durable, count, next, dirty, loose>>

\* ltm_invalidate and touch_salience: read the record, write its meta data, then
\* set the field in the index.
Change(t) == \E id \in Ids, field \in {"sal", "to"} :
  /\ Exists(id)
  /\ Start(t, {id}, "change", [meta[id] EXCEPT ![field] = commands + 1])
  /\ UNCHANGED <<durable, mirrors, dirty>>
ChangeMeta(t) ==
  /\ At(t, "change") /\ Goto(t, "reflect") /\ meta' = Put(meta, t, thread[t].was)
  /\ UNCHANGED <<text, vec, words, mirrors, dirty, loose>>
\* mutant: the index is not told
NotReflected(t) ==
  /\ At(t, "reflect") /\ Goto(t, "idle") /\ UNCHANGED <<durable, mirrors, dirty, loose>>
ChangeIndex(t) == LET id == IdOf(t) IN
  /\ At(t, "reflect") /\ Goto(t, "idle")
  /\ index' = [index EXCEPT ![id].meta =
       IF @ = NoMeta THEN NoMeta
       ELSE IF thread[t].was.sal = thread[t].n THEN [@ EXCEPT !.sal = thread[t].n]
       ELSE [@ EXCEPT !.to = thread[t].n]]
  /\ UNCHANGED <<durable, count, next, dirty, loose>>

\* ltm_forget: of an id without a record, too.
Forget(t) == \E id \in Ids :
  /\ Start(t, {id}, IF Exists(id) THEN "unwords" ELSE "unvec", IF Exists(id) THEN meta[id] ELSE NoMeta)
  /\ UNCHANGED <<durable, mirrors, dirty>>
ForgetWords(t) ==
  /\ At(t, "unwords") /\ Goto(t, "unvec")
  /\ \/ words' = Put(words, t, 0) /\ UNCHANGED loose
     \/ UNCHANGED words /\ loose' = loose \cup thread[t].ids      \* failures are ignored
  /\ UNCHANGED <<text, meta, vec, mirrors, dirty>>
ForgetVec(t) ==
  /\ At(t, "unvec") /\ Goto(t, "untext")
  /\ \/ vec' = Put(vec, t, 0) /\ UNCHANGED loose
     \/ UNCHANGED vec /\ loose' = loose \cup thread[t].ids
  /\ UNCHANGED <<text, meta, words, mirrors, dirty>>
ForgetText(t) ==
  /\ At(t, "untext") /\ Goto(t, "unmeta") /\ text' = Put(text, t, 0)
  /\ UNCHANGED <<meta, vec, words, mirrors, dirty, loose>>
ForgetMeta(t) ==
  /\ At(t, "unmeta") /\ Goto(t, IF thread[t].was = NoMeta THEN "idle" ELSE "uncount")
  /\ meta' = Put(meta, t, NoMeta)
  /\ UNCHANGED <<text, vec, words, mirrors, dirty, loose>>
ForgetCount(t) ==
  /\ At(t, "uncount") /\ Goto(t, "unindex") /\ count' = IF count = 0 THEN 0 ELSE count - 1
  /\ UNCHANGED <<durable, index, next, dirty, loose>>
ForgetIndex(t) ==
  /\ At(t, "unindex") /\ Goto(t, "idle") /\ index' = Put(index, t, Entry(NoMeta, 0))
  /\ UNCHANGED <<durable, count, next, dirty, loose>>
-----------------------------------------------------------------------------
\* FLUSHALL: the engine is wiped, then reset_volatile.
Flush(t) == Start(t, Ids, "wipe", NoMeta) /\ UNCHANGED <<durable, mirrors, dirty>>
FlushStore(t) ==
  /\ At(t, "wipe") /\ Goto(t, "reset")
  /\ text' = Nowhere /\ vec' = Nowhere /\ words' = Nowhere /\ meta' = [id \in Ids |-> NoMeta]
  /\ UNCHANGED <<mirrors, dirty, loose>>
FlushMirrors(t) ==
  /\ At(t, "reset") /\ Goto(t, "idle")
  /\ index' = [id \in Ids |-> Entry(NoMeta, 0)] /\ count' = 0 /\ next' = 1
  /\ UNCHANGED <<durable, dirty, loose>>

\* The thread that reloads the mirrors some time after replicated writes.
Reload(t) == dirty /\ dirty' = FALSE /\ Start(t, Ids, "scan", NoMeta) /\ UNCHANGED <<durable, mirrors>>
ReloadScan(t) ==
  /\ At(t, "scan") /\ thread' = [thread EXCEPT ![t] = [at |-> "install", ids |-> @.ids, scan |-> Scanned]]
  /\ UNCHANGED <<durable, mirrors, dirty, loose>>
ReloadInstall(t) ==
  /\ At(t, "install") /\ Goto(t, "idle") /\ Install(thread[t].scan)
  /\ UNCHANGED <<durable, dirty, loose>>

\* The process ends and starts again: what was cut short stays in the engine.
Restart ==
  /\ boots < MaxBoot /\ boots' = boots + 1
  /\ loose' = loose \cup UNION {thread[t].ids : t \in {u \in Threads : HalfDone(u)}}
  /\ thread' = [t \in Threads |-> Idle] /\ dirty' = FALSE
  /\ Install(Scanned)
  /\ UNCHANGED <<durable, commands>>

Command(t) == Store(t) \/ Change(t) \/ Forget(t) \/ Flush(t) \/ Reload(t)
Step(t) ==
  \/ StoreText(t) \/ StoreMeta(t) \/ StoreVec(t) \/ StoreWords(t) \/ StoreCount(t) \/ StoreIndex(t)
  \/ ChangeMeta(t) \/ ChangeIndex(t)
  \/ ForgetWords(t) \/ ForgetVec(t) \/ ForgetText(t) \/ ForgetMeta(t) \/ ForgetCount(t) \/ ForgetIndex(t)
  \/ FlushStore(t) \/ FlushMirrors(t) \/ ReloadScan(t) \/ ReloadInstall(t)
  \/ CutShort(t)
Next == Restart \/ \E t \in Threads : Command(t) \/ Step(t)
Spec == Init /\ [][Next]_vars
-----------------------------------------------------------------------------
TypeOK ==
  /\ text \in [Ids -> 0..MaxCommands] /\ vec \in [Ids -> 0..MaxCommands] /\ words \in [Ids -> 0..MaxCommands]
  /\ count \in 0..MaxCommands /\ next \in Nat \ {0} /\ loose \subseteq Ids

\* Once its commands are done, a record is whole or gone: its four keys were
\* written by one store, and recall, which reads the index alone, sees its
\* vector and its meta data as the engine holds them, whatever other records were
\* stored, changed or forgotten beside it, and across restarts.  When nothing was
\* cut short and no two commands met, MEM.COUNT is the number of records, and the
\* next id is free.
Whole(id) ==
  /\ text[id] = meta[id].of /\ vec[id] = text[id] /\ words[id] = text[id]
  /\ index[id] = Entry(meta[id], vec[id])
RecordsAreWhole ==
  /\ \A id \in Ids \ loose : (\A t \in Threads : id \notin thread[t].ids) => Whole(id)
  /\ loose = {} /\ (\A t \in Threads : thread[t] = Idle) =>
       /\ count = Cardinality({id \in Ids : text[id] # 0})
       /\ \A id \in Ids : text[id] # 0 => id < next
=============================================================================
