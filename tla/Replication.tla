---------------------------- MODULE Replication ----------------------------
(***************************************************************************)
(* Asynchronous replication from one primary to one replica.  The commit   *)
(* thread broadcasts every applied mutation, then publishes it; a thread   *)
(* per connection registers a bounded queue, dumps a pinned snapshot and   *)
(* forwards the queue; the replica wipes itself, loads the dump, applies   *)
(* the stream and acknowledges, and connects again when the link is lost.  *)
(*                                                                         *)
(* A commit writes one key; its value is its timestamp (a deletion is a    *)
(* value like any other).  TCP delivers a connection's frames in order     *)
(* until it is cut.  The engines below are those of CommitLog and Mvcc.    *)
(***************************************************************************)
EXTENDS Naturals, Sequences, FiniteSets

CONSTANTS Key,         \* the keys of the store
          FlushAll,    \* the log entry of a FLUSHALL
          MaxTs,       \* bound: commits
          MaxGroup,    \* bound: commits of one group
          MaxLinks,    \* bound: connections the replica makes
          QueueLimit,  \* REPLICA_QUEUE
          SnapBatch,   \* keys of a dump the replica applies as one commit (4096)
          SocketLimit  \* bound: frames a socket holds before a write blocks

\* Assumed where the module is instantiated.
ReplicationAssumption ==
  /\ FlushAll \notin Key
  /\ MaxTs \in Nat /\ MaxGroup \in Nat \ {0} /\ MaxLinks \in Nat
  /\ QueueLimit \in Nat \ {0} /\ SocketLimit \in Nat \ {0} /\ SnapBatch \in Nat \ {0}

Link == 1..MaxLinks

VARIABLES
  log,       \* the primary's commits and FLUSHALLs in timestamp order, applied
  hooked,    \* how many of them the commit hooks have seen
  visible,   \* visible_ts
  active,    \* Hub.active
  hub,       \* Hub.replicas: the registered connections
  srv,       \* each connection: its serving thread
  queue,     \* its frame queue
  snap,      \* the timestamp its dump is pinned at
  todo,      \* the keys the dump has still to visit
  wire,      \* frames sent and not received
  cut,       \* connections whose socket is gone
  ack,       \* the last ACK the replica sent on it
  acked,     \* ReplicaLink.acked
  link,      \* the replica's connection, 0 when it has none
  tries,     \* connections made so far
  copy,      \* the replica's store
  load,      \* the snapshot it is receiving
  applied,   \* ReplicaState.applied
  clean      \* history: links registered while no broadcast was running,
             \* and not flushed between that and the dump

primary == <<log, hooked, visible>>
conn == <<srv, queue, snap, todo, acked>>
replica == <<link, tries, copy, load, applied>>
vars == <<primary, active, hub, conn, wire, cut, ack, replica, clean>>

Empty == [k \in Key |-> 0]
Higher(m, n) == IF m > n THEN m ELSE n

Frame ==      [kind : {"full", "flush"}]
         \cup [kind : {"snap", "mut"}, key : Key, ts : 1..MaxTs]
         \cup [kind : {"ready", "ping"}, ts : 0..MaxTs]

\* The store as a reader at snapshot s finds it: FLUSHALL clears the shard maps
\* under every snapshot.
At(k, s) ==
  LET writes == {t \in 1..s : log[t] = k /\ \A u \in t..Len(log) : log[u] # FlushAll}
  IN  IF writes = {} THEN 0 ELSE CHOOSE t \in writes : \A u \in writes : u <= t

Init ==
  /\ log = <<>> /\ hooked = 0 /\ visible = 0
  /\ active = FALSE /\ hub = {}
  /\ srv = [l \in Link |-> "off"] /\ queue = [l \in Link |-> <<>>]
  /\ snap = [l \in Link |-> 0] /\ todo = [l \in Link |-> {}]
  /\ wire = [l \in Link |-> <<>>] /\ cut = {}
  /\ ack = [l \in Link |-> 0] /\ acked = [l \in Link |-> 0]
  /\ link = 0 /\ tries = 0 /\ copy = Empty /\ load = Empty /\ applied = 0
  /\ clean = {}

-----------------------------------------------------------------------------
(* The primary's commit thread. *)

Idle == hooked = Len(log) /\ visible = Len(log)

\* A group is durable and applied to the shards, or FLUSHALL has wiped them.
Apply(ops) ==
  /\ Idle
  /\ Len(log) + Len(ops) <= MaxTs
  /\ log' = log \o ops
  /\ UNCHANGED <<hooked, visible, active, hub, conn, wire, cut, ack, replica, clean>>

FrameOf(t) == IF log[t] = FlushAll THEN [kind |-> "flush"] ELSE [kind |-> "mut", key |-> log[t], ts |-> t]

\* The replicas whose queue is full.
NeverFull == {}                                                \* mutant
Full == {l \in hub : Len(queue[l]) >= QueueLimit}

\* on_commit, on_flush: one try_send to every registered replica; one whose
\* queue is full is removed and its socket shut down.
Hook ==
  /\ hooked < Len(log)
  /\ hooked' = hooked + 1
  /\ IF active
     THEN /\ queue' = [l \in Link |-> IF l \in hub \ Full THEN Append(queue[l], FrameOf(hooked + 1)) ELSE queue[l]]
          /\ hub' = hub \ Full /\ cut' = cut \cup Full
          /\ active' = (hub' # {})
     ELSE UNCHANGED <<queue, hub, cut, active>>
  /\ clean' = IF log[hooked + 1] = FlushAll THEN {l \in clean : srv[l] # "pin"} ELSE clean
  /\ UNCHANGED <<log, visible, srv, snap, todo, acked, wire, ack, replica>>

Publish ==
  /\ hooked = Len(log) /\ visible < Len(log)
  /\ visible' = Len(log)
  /\ UNCHANGED <<log, hooked, active, hub, conn, wire, cut, ack, replica, clean>>

-----------------------------------------------------------------------------
(* serve_replica and stream_live, one thread per connection. *)

\* A write to the socket; on a dead one it fails, see Leave.
Send(l, f) ==
  /\ l \notin cut /\ Len(wire[l]) < SocketLimit
  /\ wire' = [wire EXCEPT ![l] = Append(@, f)]

\* The connection is registered before the dump; "+FULLSYNC" goes out first.
Register(l) ==
  /\ srv[l] = "accepted"
  /\ srv' = [srv EXCEPT ![l] = "pin"]
  /\ hub' = hub \cup {l} /\ active' = TRUE
  /\ wire' = [wire EXCEPT ![l] = IF l \in cut THEN <<>> ELSE <<[kind |-> "full"]>>]
  /\ clean' = IF Idle THEN clean \cup {l} ELSE clean
  /\ UNCHANGED <<primary, queue, snap, todo, acked, cut, ack, replica>>

\* Engine::dump pins the published snapshot, ...
Pin(l) ==
  /\ srv[l] = "pin"
  /\ srv' = [srv EXCEPT ![l] = "dump"]
  /\ snap' = [snap EXCEPT ![l] = visible]
  /\ todo' = [todo EXCEPT ![l] = Key]
  /\ UNCHANGED <<primary, active, hub, queue, acked, wire, cut, ack, replica, clean>>

\* ... visits the shards one by one, ...
Dump(l, k) ==
  /\ srv[l] = "dump" /\ k \in todo[l]
  /\ todo' = [todo EXCEPT ![l] = @ \ {k}]
  /\ IF At(k, snap[l]) > 0
     THEN Send(l, [kind |-> "snap", key |-> k, ts |-> At(k, snap[l])])
     ELSE UNCHANGED wire
  /\ UNCHANGED <<primary, active, hub, srv, queue, snap, acked, cut, ack, replica, clean>>

\* ... and ends with READY.
Ready(l) ==
  /\ srv[l] = "dump" /\ todo[l] = {}
  /\ srv' = [srv EXCEPT ![l] = "recv"]
  /\ Send(l, [kind |-> "ready", ts |-> snap[l]])
  /\ UNCHANGED <<primary, active, hub, queue, snap, todo, acked, cut, ack, replica, clean>>

\* A mutation the dump contained.
NeverDumped(l, f) == FALSE                                     \* mutant
DumpedLate(l, f) == f.kind = "mut" /\ f.ts <= snap[l] + 1      \* mutant
Dumped(l, f) == f.kind = "mut" /\ f.ts <= snap[l]

\* The next queued frame goes to the socket, unless the dump contained it.
Forward(l) ==
  LET f == Head(queue[l])
  IN  /\ queue[l] # <<>>
      /\ queue' = [queue EXCEPT ![l] = Tail(@)]
      /\ IF Dumped(l, f) THEN UNCHANGED wire ELSE Send(l, f)
      /\ UNCHANGED <<primary, active, hub, snap, todo, acked, cut, ack, replica, clean>>

\* A mutation is followed by everything else that is queued, a flush is not.
Receive(l) ==
  /\ srv[l] = "recv" /\ Forward(l)
  /\ srv' = [srv EXCEPT ![l] = IF Head(queue[l]).kind = "mut" THEN "drain" ELSE "ping"]

Drain(l) == srv[l] = "drain" /\ Forward(l) /\ UNCHANGED srv

\* Nothing (more) is queued: recv_timeout expires, or try_recv finds nothing.
Quiet(l) ==
  /\ srv[l] \in {"recv", "drain"} /\ queue[l] = <<>>
  /\ srv' = [srv EXCEPT ![l] = "ping"]
  /\ UNCHANGED <<primary, active, hub, queue, snap, todo, acked, wire, cut, ack, replica, clean>>

\* The heartbeat carries visible_ts, if it is due.
Ping(l) ==
  /\ srv[l] = "ping"
  /\ srv' = [srv EXCEPT ![l] = "recv"]
  /\ Send(l, [kind |-> "ping", ts |-> visible])
  /\ UNCHANGED <<primary, active, hub, queue, snap, todo, acked, cut, ack, replica, clean>>

PingNotDue(l) ==
  /\ srv[l] = "ping"
  /\ srv' = [srv EXCEPT ![l] = "recv"]
  /\ UNCHANGED <<primary, active, hub, queue, snap, todo, acked, wire, cut, ack, replica, clean>>

\* A write fails, or the queue's sender is gone: the thread unregisters.
Leave(l) ==
  /\ l \in cut /\ srv[l] \notin {"off", "accepted", "gone"}
  /\ srv' = [srv EXCEPT ![l] = "gone"]
  /\ hub' = hub \ {l}
  /\ active' = (hub' # {})
  /\ queue' = [queue EXCEPT ![l] = <<>>] /\ todo' = [todo EXCEPT ![l] = {}]
  /\ snap' = [snap EXCEPT ![l] = 0] /\ acked' = [acked EXCEPT ![l] = 0]
  /\ clean' = clean \ {l}
  /\ UNCHANGED <<primary, wire, cut, ack, replica>>

\* The reader thread of the connection takes an ACK line.
AckArrives(l) ==
  /\ l \in hub /\ acked[l] < ack[l]
  /\ acked' = [acked EXCEPT ![l] = ack[l]]
  /\ UNCHANGED <<primary, active, hub, srv, queue, snap, todo, wire, cut, ack, replica, clean>>

-----------------------------------------------------------------------------
(* The replica: replica_loop and sync_once. *)

ConnectOnce ==                                                 \* mutant
  /\ link = 0 /\ tries = 0
  /\ tries' = 1 /\ link' = 1
  /\ srv' = [srv EXCEPT ![1] = "accepted"]
  /\ UNCHANGED <<primary, active, hub, queue, snap, todo, acked, wire, cut, ack, copy, load, applied, clean>>

\* replica_loop: connect, and connect again whenever the link is lost.
Connect ==
  /\ link = 0 /\ tries < MaxLinks
  /\ tries' = tries + 1 /\ link' = tries + 1
  /\ srv' = [srv EXCEPT ![tries + 1] = "accepted"]
  /\ UNCHANGED <<primary, active, hub, queue, snap, todo, acked, wire, cut, ack, copy, load, applied, clean>>

Disconnect ==
  /\ link # 0 /\ tries < MaxLinks
  /\ cut' = cut \cup {link}
  /\ UNCHANGED <<primary, active, hub, conn, wire, ack, replica, clean>>

\* What was in flight when the socket went is lost.
LinkLost ==
  /\ link \in cut
  /\ wire' = [wire EXCEPT ![link] = <<>>] /\ ack' = [ack EXCEPT ![link] = 0]
  /\ link' = 0 /\ load' = Empty
  /\ UNCHANGED <<primary, active, hub, conn, cut, tries, copy, applied, clean>>

\* A store with the dump read so far put over it.
Over(base, dump) == [k \in Key |-> IF dump[k] > 0 THEN dump[k] ELSE base[k]]
Loaded(dump) == Cardinality({k \in Key : dump[k] > 0})

\* The replica handles the next frame.  The dump is applied in batches, what is
\* left of it at READY.
Handle ==
  /\ link # 0 /\ wire[link] # <<>>
  /\ wire' = [wire EXCEPT ![link] = Tail(@)]
  /\ LET f == Head(wire[link])
         acks == f.kind \in {"ready", "mut", "ping"}
         dump == IF f.kind = "snap" THEN [load EXCEPT ![f.key] = f.ts] ELSE load
         apply == f.kind = "ready" \/ Loaded(dump) >= SnapBatch
     IN  /\ copy' = CASE f.kind \in {"full", "flush"} -> Empty
                      [] f.kind \in {"snap", "ready"} -> IF apply THEN Over(copy, dump) ELSE copy
                      [] f.kind = "mut" -> [copy EXCEPT ![f.key] = f.ts]
                      [] OTHER -> copy
         /\ load' = IF apply THEN Empty ELSE dump
         /\ applied' = IF f.kind = "ready" THEN f.ts ELSE IF acks THEN Higher(applied, f.ts) ELSE applied
         /\ ack' = IF acks THEN [ack EXCEPT ![link] = applied'] ELSE ack
  /\ UNCHANGED <<primary, active, hub, conn, cut, link, tries, clean>>

-----------------------------------------------------------------------------
CommitStep == Hook \/ Publish

ServeStep(l) ==
  \/ Register(l) \/ Pin(l) \/ Ready(l) \/ Receive(l) \/ Drain(l) \/ Quiet(l)
  \/ Ping(l) \/ Leave(l) \/ AckArrives(l)
  \/ \E k \in Key : Dump(l, k)

ReplicaStep == Connect \/ LinkLost \/ Handle

Next ==
  \/ \E n \in 1..MaxGroup : \E ops \in [1..n -> Key] : Apply(ops)
  \/ Apply(<<FlushAll>>)
  \/ CommitStep
  \/ \E l \in Link : ServeStep(l) \/ PingNotDue(l)
  \/ ReplicaStep \/ Disconnect

Spec == Init /\ [][Next]_vars

\* Threads keep running, the network delivers, and a heartbeat that is due
\* every 100 ms is not put off for ever.
Fairness ==
  /\ WF_vars(CommitStep) /\ WF_vars(ReplicaStep)
  /\ \A l \in Link : WF_vars(ServeStep(l)) /\ WF_vars(AckArrives(l)) /\ SF_vars(Ping(l))

-----------------------------------------------------------------------------
\* Every variable has its type, and the bookkeeping its order.
TypeOK ==
  /\ \A t \in 1..Len(log) : log[t] \in Key \cup {FlushAll}
  /\ visible <= hooked /\ hooked <= Len(log) /\ Len(log) <= MaxTs
  /\ active \in BOOLEAN
  /\ hub \subseteq 1..tries /\ cut \subseteq 1..tries /\ link \in {0, tries}
  /\ srv \in [Link -> {"off", "accepted", "pin", "dump", "recv", "drain", "ping", "gone"}]
  /\ \A l \in Link :
       /\ \A i \in DOMAIN queue[l] : queue[l][i] \in Frame
       /\ \A i \in DOMAIN wire[l] : wire[l][i] \in Frame
       /\ Len(queue[l]) <= QueueLimit
       /\ snap[l] <= visible /\ todo[l] \subseteq Key
       /\ acked[l] \in 0..Len(log) /\ ack[l] \in 0..Len(log)
  /\ copy \in [Key -> 0..Len(log)] /\ load \in [Key -> 0..Len(log)] /\ applied \in 0..Len(log)

\* The replica has received and handled all there is.
Settled ==
  /\ Idle /\ link \in hub /\ link \notin cut
  /\ srv[link] \in {"recv", "drain", "ping"} /\ queue[link] = <<>> /\ wire[link] = <<>>

InSync == copy = [k \in Key |-> At(k, visible)]

\* A replica that registered between two groups, with no FLUSHALL before its
\* dump, holds exactly the primary's data once the stream is drained: dump and
\* queue overlap without a gap, whatever commits, evictions and reconnections
\* happened meanwhile.
CleanSyncConverges == Settled /\ link \in clean => InSync

\* A key on the replica never goes back to an older version: only a full wipe
\* removes what it has shown (the snapshot filter of stream_live, the order of
\* the queue and of the socket, the dump loaded before READY is acknowledged).
CopyMovesForward == [][copy' = Empty \/ \A k \in Key : copy'[k] >= copy[k]]_vars

\* WAIT is not left waiting: a published commit is acknowledged by a replica,
\* across evictions and reconnections, as long as it may still connect.
EveryWaitEnds ==
  \A t \in 1..MaxTs :
    visible >= t ~> (\E l \in hub : acked[l] >= t) \/ (link = 0 /\ tries = MaxLinks)

\* serve_replica: "every commit after the snapshot is then guaranteed to be in
\* the queue".  The run refutes it: a commit applied before the connection
\* registered is published after the dump has pinned its snapshot.
EverySyncConverges == Settled => InSync
=============================================================================
