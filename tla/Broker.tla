------------------------------- MODULE Broker -------------------------------
(***************************************************************************)
(* Publish and subscribe.  Publishers run in their own threads and find the *)
(* subscribers in two tables, each under its own lock; a subscriber whose   *)
(* queue is full is evicted: out of both tables, then its socket is shut    *)
(* down.  A connection in subscribe mode has two threads: the session,      *)
(* which reads commands, and a forwarder, which writes what is published;   *)
(* they share the socket's write lock.  One connection, one channel and one *)
(* pattern that matches it stand for all: a publisher treats each           *)
(* subscriber by itself.                                                    *)
(***************************************************************************)
EXTENDS Integers, Sequences, FiniteSets

CONSTANTS Publishers,
          QueueLimit,    \* DBSTRIKE_PUBSUB_QUEUE
          SocketLimit    \* what the socket takes while the client does not read

Tables == {"channels", "patterns"}

VARIABLES
  table,      \* the tables that hold the connection's id
  handle,     \* whether the broker has a handle on its socket
  shut,       \* whether the socket is shut down
  session,    \* where the session thread is
  mine,       \* what the session believes it is subscribed to: chans, pats
  sender,     \* whether the session still holds the sending end of the queue
  queue,      \* messages queued for the forwarder
  forwarder,  \* "none", "waiting", "writing", "done"
  socket,     \* bytes the client has not read
  pub         \* where each publisher is

tables == <<table, handle, shut>>
connection == <<session, mine, sender, forwarder, socket>>
vars == <<tables, connection, queue, pub>>

Init ==
  /\ table = {} /\ handle = FALSE /\ shut = FALSE
  /\ session = "commands" /\ mine = {} /\ sender = FALSE /\ queue = 0
  /\ forwarder = "none" /\ socket = 0
  /\ pub = [p \in Publishers |-> <<>>]

\* The write lock is the forwarder's while it writes.
MayWrite == forwarder # "writing" /\ (shut \/ socket < SocketLimit)

-----------------------------------------------------------------------------
\* The session.  Outside subscribe mode the connection is served elsewhere; a
\* SUBSCRIBE starts the mode with a new queue and a forwarder of its own.
Enter ==
  /\ session = "commands" /\ ~shut
  /\ session' = "mode" /\ handle' = TRUE
  /\ sender' = TRUE /\ queue' = 0 /\ forwarder' = "waiting"
  /\ UNCHANGED <<table, shut, mine, socket, pub>>

\* A command of the mode: the tables first, then the reply.
Subscribe(t) ==
  /\ session = "mode"
  /\ table' = table \cup {t} /\ mine' = mine \cup {t} /\ session' = "reply"
  /\ UNCHANGED <<handle, shut, sender, queue, forwarder, socket, pub>>
Unsubscribe(T) ==
  /\ session = "mode" /\ mine # {}
  /\ table' = table \ T /\ mine' = mine \ T /\ session' = "reply"
  /\ UNCHANGED <<handle, shut, sender, queue, forwarder, socket, pub>>
\* PING, an error, a command the access list denies.
Refused == session = "mode" /\ session' = "reply" /\ UNCHANGED <<tables, mine, sender, forwarder, socket, queue, pub>>
Command == \/ Refused
           \/ \E t \in Tables : Subscribe(t) \/ Unsubscribe({t})
           \/ Unsubscribe(Tables)       \* RESET

\* The reply; then the mode ends if no subscription is left.
Reply ==
  /\ session = "reply" /\ MayWrite
  /\ session' = IF shut THEN "closing" ELSE IF mine = {} THEN "resuming" ELSE "mode"
  /\ socket' = IF shut THEN socket ELSE socket + 1
  /\ UNCHANGED <<tables, mine, sender, queue, forwarder, pub>>
\* QUIT, the client's end of file, a read on a socket that was shut down.
Leave ==
  /\ session = "mode" /\ mine # {}
  /\ session' = "closing"
  /\ UNCHANGED <<tables, mine, sender, forwarder, socket, queue, pub>>
Hear == shut /\ Leave

\* cleanup, channel by channel, then pattern by pattern; deregister; drop the
\* sender; join the forwarder.
Exiting == session \in {"closing", "resuming"}
CleanUpChannels == Exiting /\ mine # {} /\ mine' = {} /\ table' = table \ {"channels"}   \* patterns forgotten
CleanUp ==
  /\ Exiting
  /\ \E t \in mine : (t = "patterns" => mine = {t}) /\ table' = table \ {t} /\ mine' = mine \ {t}
CleanUpStep == CleanUp /\ UNCHANGED <<handle, shut, session, sender, queue, forwarder, socket, pub>>
Deregister ==
  /\ Exiting /\ mine = {} /\ sender
  /\ handle' = FALSE /\ sender' = FALSE
  /\ UNCHANGED <<table, shut, session, mine, queue, forwarder, socket, pub>>
Join ==
  /\ Exiting /\ ~sender /\ forwarder = "done"
  /\ session' = IF session = "closing" THEN "over" ELSE "commands"
  /\ shut' = (shut \/ session = "closing")
  /\ forwarder' = "none"
  /\ UNCHANGED <<table, handle, mine, sender, queue, socket, pub>>

-----------------------------------------------------------------------------
\* The forwarder: one message at a time, under the write lock; it ends when a
\* write fails or when every sender is gone and the queue is empty.
Take ==
  /\ forwarder = "waiting" /\ queue > 0
  /\ queue' = queue - 1 /\ forwarder' = "writing"
  /\ UNCHANGED <<tables, session, mine, sender, socket, pub>>
Write ==
  /\ forwarder = "writing" /\ (shut \/ socket < SocketLimit)
  /\ forwarder' = IF shut THEN "done" ELSE "waiting"
  /\ socket' = IF shut THEN socket ELSE socket + 1
  /\ UNCHANGED <<tables, session, mine, sender, queue, pub>>
Hangup ==
  /\ forwarder = "waiting" /\ queue = 0 /\ ~sender /\ table = {}
  /\ forwarder' = "done"
  /\ UNCHANGED <<tables, session, mine, sender, queue, socket, pub>>

\* The client reads, when it likes.
Read == socket > 0 /\ socket' = socket - 1 /\ UNCHANGED <<tables, session, mine, sender, queue, forwarder, pub>>

-----------------------------------------------------------------------------
\* A publisher: each table in turn; who could not be sent to is evicted at the
\* end.  `pub` holds the steps that are left.
Accepts == queue < QueueLimit /\ forwarder \notin {"none", "done"}
Publish(p) ==
  /\ pub[p] = <<>>
  /\ pub' = [pub EXCEPT ![p] = << <<"send", "channels">>, <<"send", "patterns">> >>]
  /\ UNCHANGED <<tables, connection, queue>>
EvictionQuiet == << <<"drop", "channels">>, <<"drop", "patterns">> >>     \* the socket stays open
Eviction == << <<"drop", "channels">>, <<"drop", "patterns">>, <<"drop", "socket">> >>
\* Sent or not, the publisher goes on; a failure asks for one eviction.
Send(p, t) ==
  /\ pub[p] # <<>> /\ Head(pub[p]) = <<"send", t>>
  /\ LET failed == t \in table /\ ~Accepts
         asked == \E i \in DOMAIN pub[p] : pub[p][i] = <<"drop", "channels">>
     IN  /\ queue' = IF t \in table /\ Accepts THEN queue + 1 ELSE queue
         /\ pub' = [pub EXCEPT ![p] = Tail(@) \o (IF failed /\ ~asked THEN Eviction ELSE <<>>)]
  /\ UNCHANGED <<tables, connection>>
EvictFrom(p, t) ==
  /\ pub[p] # <<>> /\ Head(pub[p]) = <<"drop", t>>
  /\ table' = table \ {t} /\ pub' = [pub EXCEPT ![p] = Tail(@)]
  /\ UNCHANGED <<handle, shut, connection, queue>>
EvictSocket(p) ==
  /\ pub[p] # <<>> /\ Head(pub[p]) = <<"drop", "socket">>
  /\ shut' = (shut \/ handle) /\ handle' = FALSE /\ pub' = [pub EXCEPT ![p] = Tail(@)]
  /\ UNCHANGED <<table, connection, queue>>

First == mine = {} /\ Command          \* the SUBSCRIBE that began the mode
Session == First \/ Reply \/ Hear \/ CleanUpStep \/ Deregister \/ Join
Forwarder == Take \/ Write \/ Hangup
Publisher(p) == EvictSocket(p) \/ \E t \in Tables : Send(p, t) \/ EvictFrom(p, t)
Next ==
  \/ Enter \/ Command \/ Leave \/ Session \/ Forwarder \/ Read
  \/ \E p \in Publishers : Publish(p) \/ Publisher(p)

\* Threads run.  Nothing makes a client read, or a publisher publish.
Fairness == WF_vars(Session) /\ WF_vars(Forwarder) /\ \A p \in Publishers : WF_vars(Publisher(p))
Spec == Init /\ [][Next]_vars /\ Fairness

-----------------------------------------------------------------------------
\* No subscription is lost silently: what the session believes it is subscribed to
\* is in the tables, unless an eviction that will shut its socket is under way or
\* the socket is shut.  Evictions run in publishers' threads, table by table,
\* while the session subscribes, leaves and comes back under the same id.
BeingEvicted == handle /\ \E p \in Publishers : \E i \in DOMAIN pub[p] : pub[p][i] = <<"drop", "socket">>
NoSilentLoss == session \in {"mode", "reply"} => mine \subseteq table \/ shut \/ BeingEvicted

\* Once the socket of a session is shut, the session ends: its entries are taken
\* out of both tables, so that the forwarder hears that no sender is left, however
\* many publishers are at work on them.
ClosedSessionsEnd == shut ~> session \in {"over", "commands"}
=============================================================================
