---------------------------- MODULE VectorIndex ----------------------------
(***************************************************************************)
(* A vector index: vectors under "vec:" keys of the engine, and in memory a *)
(* graph of nodes that searches walk, with a map from ids to nodes.  Every   *)
(* command writes to the engine and to the graph one after the other.       *)
(*                                                                         *)
(* The edges of the graph and what a search makes of them are left out: a   *)
(* search may return every node that is not marked deleted.  So is the      *)
(* lexical index, which each command updates last.                          *)
(***************************************************************************)
EXTENDS Naturals, FiniteSets

CONSTANTS Ids, Dims, Tags,
          Threads,      \* connections with a command under way
          RebuildRatio, \* 4: a PAR batch this many times smaller than the index is appended
          MaxCommands, MaxBoot   \* bounds

VARIABLES
  store,        \* the engine's vector of each id
  node,         \* the vector of the node id_to_idx gives, if any
  lost, dead,   \* other nodes, as <<id, vector>>: not deleted, deleted
  dim,          \* the graph's dimension, 0 before the first insert
  thread,       \* the command of each thread and what it does next
  broken,       \* the graph's lock is poisoned, or its rows do not line up
  commands, boots,
  loose,        \* ids two commands met on, or an I/O error cut short
  doubled       \* ids a batch added although they had a node

graph == <<node, lost, dead, dim>>
vars == <<store, graph, thread, broken, commands, boots, loose, doubled>>

Vector == Dims \X Tags
None == <<0, 0>>
Dim(v) == v[1]
Idle == [at |-> "idle", of |-> {}]
Batch == UNION {[ids -> {v \in Vector : Dim(v) = d}] : ids \in SUBSET Ids \ {{}}, d \in Dims}
DimOf(new) == Dim(new[CHOOSE id \in DOMAIN new : TRUE])
Pairs(f) == {<<id, f[id]>> : id \in {i \in DOMAIN f : f[i] # None}}

Init ==
  /\ store = [id \in Ids |-> None] /\ node = [id \in Ids |-> None]
  /\ lost = {} /\ dead = {} /\ dim = 0
  /\ thread = [t \in Threads |-> Idle] /\ broken = FALSE
  /\ commands = 0 /\ boots = 0 /\ loose = {} /\ doubled = {}

\* check_dim, and the checks of VADDBATCH that come to the same.
Fits(d) == dim \in {0, d}
NoNodes == \A id \in Ids : node[id] = None /\ lost = {} /\ dead = {}
Size == Cardinality(Pairs(node)) + Cardinality(lost)    \* len

\* A command that may touch `ids` starts; others that touch one of them meet it.
Start(t, ids, next) ==
  /\ thread[t] = Idle /\ commands < MaxCommands /\ ~broken
  /\ commands' = commands + 1
  /\ loose' = loose \cup (ids \cap UNION {thread[u].of : u \in Threads})
  /\ thread' = [thread EXCEPT ![t] = [next EXCEPT !.of = ids]]
  /\ UNCHANGED <<store, graph, broken, boots, doubled>>
Goto(t, at) == thread' = [thread EXCEPT ![t] = IF at = "idle" THEN Idle ELSE [@ EXCEPT !.at = at]]
At(t, at) == thread[t].at = at /\ UNCHANGED <<commands, boots>>

\* insert_attr: in place when the id has a node, and then another dimension panics
\* under the lock; for a new node it is ignored.
Insert(id, v) ==
  /\ ~broken /\ broken' = (node[id] # None /\ ~Fits(Dim(v)))
  /\ node' = IF Fits(Dim(v)) THEN [node EXCEPT ![id] = v] ELSE node
  /\ dim' = IF dim = 0 THEN Dim(v) ELSE dim
  /\ UNCHANGED <<lost, dead>>

-----------------------------------------------------------------------------
\* VADD: into the graph for the attribute, then the durable insert.
Add(t) == \E id \in Ids, v \in Vector :
  Fits(Dim(v)) /\ Start(t, {id}, [at |-> "add", of |-> {}, rows |-> [i \in {id} |-> v]])
AddNode(t) == \E id \in thread[t].of :
  /\ At(t, "add") /\ Insert(id, thread[t].rows[id])
  /\ Goto(t, IF dim' = DimOf(thread[t].rows) THEN "put" ELSE "idle")    \* check_dim of insert
  /\ UNCHANGED <<store, loose, doubled>>
AddPut(t) ==
  /\ At(t, "put") /\ Goto(t, "again")
  /\ store' = [id \in Ids |-> IF id \in thread[t].of THEN thread[t].rows[id] ELSE store[id]]
  /\ UNCHANGED <<graph, broken, loose, doubled>>
AddPutFails(t) ==
  /\ At(t, "put") /\ Goto(t, "idle")
  /\ loose' = loose \cup thread[t].of
  /\ UNCHANGED <<store, graph, broken, doubled>>
AddAgain(t) == \E id \in thread[t].of :
  /\ At(t, "again") /\ Insert(id, thread[t].rows[id]) /\ Goto(t, "idle")
  /\ UNCHANGED <<store, loose, doubled>>

\* VDEL, which calls forget for each id; forget ignores a failed delete.
Delete(t) == \E id \in Ids : Start(t, {id}, [at |-> "del", of |-> {}])
DeleteKey(t) ==
  /\ At(t, "del") /\ Goto(t, "mark")
  /\ \/ store' = [id \in Ids |-> IF id \in thread[t].of THEN None ELSE store[id]] /\ UNCHANGED loose
     \/ loose' = loose \cup thread[t].of /\ UNCHANGED store
  /\ UNCHANGED <<graph, broken, doubled>>
Marked(ids) ==
  /\ ~broken
  /\ dead' = dead \cup {p \in Pairs(node) : p[1] \in ids}
  /\ node' = [id \in Ids |-> IF id \in ids THEN None ELSE node[id]]
  /\ UNCHANGED <<lost, dim>>
DeleteNode(t) ==
  /\ At(t, "mark") /\ Marked(thread[t].of) /\ Goto(t, "idle")
  /\ UNCHANGED <<store, broken, loose, doubled>>
-----------------------------------------------------------------------------
\* VADDBATCH, and VADDBATCH PAR, which rebuilds unless the batch is small.
AddBatch(t) == \E new \in Batch, par \in BOOLEAN :
  LET rebuild == par /\ Cardinality(DOMAIN new) * RebuildRatio >= Size
  IN  /\ Fits(DimOf(new))
      /\ Start(t, IF rebuild THEN Ids ELSE DOMAIN new,
               [at |-> IF rebuild THEN "store" ELSE "batch", of |-> {}, rows |-> new])
BatchPut(t) ==
  /\ thread[t].at \in {"batch", "store"} /\ UNCHANGED <<commands, boots>>
  /\ \/ /\ store' = [id \in Ids |-> IF id \in DOMAIN thread[t].rows THEN thread[t].rows[id] ELSE store[id]]
        /\ Goto(t, IF thread[t].at = "batch" THEN "merge" ELSE "export")
     \/ UNCHANGED store /\ Goto(t, "idle")
  /\ UNCHANGED <<graph, broken, loose, doubled>>

\* merge_into appends the batch's nodes; id_to_idx leaves the old ones.  Rows of
\* another dimension panic under the lock.
BatchMerge(t) ==
  LET new == thread[t].rows
      had == {id \in DOMAIN new : node[id] # None}
  IN  /\ At(t, "merge") /\ ~broken /\ Goto(t, "idle")
      /\ IF ~NoNodes /\ dim # DimOf(new)
           THEN broken' = TRUE /\ UNCHANGED <<graph, doubled>>
           ELSE /\ node' = [id \in Ids |-> IF id \in DOMAIN new THEN new[id] ELSE node[id]]
                /\ lost' = lost \cup {<<id, node[id]>> : id \in had}
                /\ dim' = DimOf(new) /\ doubled' = doubled \cup had
                /\ UNCHANGED <<dead, broken>>
      /\ UNCHANGED <<store, loose>>

\* export_flat: the nodes that are not marked deleted.
\* mutant: all nodes
ExportedAll == Pairs(node) \cup lost \cup dead
Exported == Pairs(node) \cup lost
BatchExport(t) ==
  /\ At(t, "export") /\ ~broken
  /\ thread' = [thread EXCEPT ![t] = [at |-> "swap", of |-> @.of, rows |-> @.rows, kept |-> Exported, dim |-> dim]]
  /\ UNCHANGED <<store, graph, broken, loose, doubled>>

\* build_parallel_ids gives every row a node, an id with two rows too; which of
\* them the map gets depends on the shuffle.
Built(rows, map) == \A id \in Ids :
  IF id \in {r[1] : r \in rows} THEN <<id, map[id]>> \in rows ELSE map[id] = None

\* The graph is replaced.  Rows of another dimension fail an assertion of the
\* builder, before the lock.
BatchSwap(t) ==
  LET new == thread[t].rows
      kept == thread[t].kept
      all == kept \cup Pairs(new)
  IN  /\ At(t, "swap") /\ ~broken /\ Goto(t, "idle")
      /\ IF kept # {} /\ thread[t].dim # DimOf(new)
           THEN loose' = loose \cup DOMAIN new /\ UNCHANGED <<graph, doubled>>
           ELSE /\ \E map \in [Ids -> Vector \cup {None}] :
                     /\ Built(all, map)
                     /\ node' = map
                     /\ lost' = (all \ Pairs(map)) \cup (kept \cap Pairs(new))
                /\ dead' = {} /\ dim' = DimOf(new)
                /\ doubled' = doubled \cup {r[1] : r \in {x \in kept : x[1] \in DOMAIN new}}
                /\ UNCHANGED loose
      /\ UNCHANGED <<store, broken>>
-----------------------------------------------------------------------------
\* FLUSHALL wipes the engine, then reset_ram.
Flush(t) == Start(t, Ids, [at |-> "wipe", of |-> {}])
FlushStore(t) ==
  /\ At(t, "wipe") /\ Goto(t, "reset")
  /\ store' = [id \in Ids |-> None]
  /\ UNCHANGED <<graph, broken, loose, doubled>>
FlushGraph(t) ==
  /\ At(t, "reset") /\ Goto(t, "idle") /\ ~broken
  /\ node' = [id \in Ids |-> None] /\ lost' = {} /\ dead' = {} /\ dim' = 0
  /\ doubled' = {}
  /\ UNCHANGED <<store, broken, loose>>

\* The process ends and starts again: open_ns builds the graph from the keys, all
\* rows with one dimension.
Restart ==
  LET dims == {Dim(p[2]) : p \in Pairs(store)}
  IN  /\ boots < MaxBoot /\ boots' = boots + 1
      /\ thread' = [t \in Threads |-> Idle]
      /\ node' = store /\ lost' = {} /\ dead' = {}
      /\ dim' = IF dims = {} THEN 0 ELSE CHOOSE d \in dims : TRUE
      /\ broken' = (Cardinality(dims) > 1)
      /\ loose' = {} /\ doubled' = {}
      /\ UNCHANGED <<store, commands>>

Command(t) == Add(t) \/ Delete(t) \/ AddBatch(t) \/ Flush(t)
Step(t) ==
  \/ AddNode(t) \/ AddPut(t) \/ AddPutFails(t) \/ AddAgain(t)
  \/ DeleteKey(t) \/ DeleteNode(t)
  \/ BatchPut(t) \/ BatchMerge(t) \/ BatchExport(t) \/ BatchSwap(t)
  \/ FlushStore(t) \/ FlushGraph(t)
Next == Restart \/ \E t \in Threads : Command(t) \/ Step(t)
Spec == Init /\ [][Next]_vars
-----------------------------------------------------------------------------
TypeOK ==
  /\ store \in [Ids -> Vector \cup {None}] /\ node \in [Ids -> Vector \cup {None}]
  /\ lost \subseteq Ids \X Vector /\ dead \subseteq Ids \X Vector /\ dim \in Dims \cup {0}
  /\ loose \subseteq Ids /\ doubled \subseteq Ids

Quiet(id) == \A t \in Threads : id \notin thread[t].of
Found(id) == {p[2] : p \in {x \in Pairs(node) \cup lost : x[1] = id}}

\* What searches can return of an id is what the engine holds for it, once its
\* commands are done: whatever was deleted, added again, batched, rebuilt or
\* reloaded.  Not for an id that two commands met on (a rebuild and FLUSHALL touch
\* every id), nor one that a batch added a second time: VDEL then finds one of its
\* nodes, and a search the other.
GraphIsStore == broken \/ \A id \in Ids \ (loose \cup doubled) :
  Quiet(id) => Found(id) = {store[id]} \ {None} /\ ~\E p \in lost : p[1] = id
=============================================================================
