----------------------------- MODULE ChangeFeed -----------------------------
(***************************************************************************)
(* The change-data-capture hub.  Whoever commits calls on_commit for each   *)
(* mutation: the flusher alone in the durable mode, each caller in the      *)
(* other.  A late joiner subscribes to a prefix and then reads the log.     *)
(* Every mutation here has a key of that prefix.                            *)
(***************************************************************************)
EXTENDS Integers, Sequences, FiniteSets

CONSTANTS Committers,
          Prefixes,     \* how many prefixes of a subscription match a key
          LogCap,       \* CDC_LOG_CAP
          MaxCommits    \* bound on the mutations

VARIABLES
  enabled, seq, log,   \* the hub: its flag, the last number given, the ring
  subs,                \* entries of the joiner's sender in the table
  dropped,             \* what the ring no longer has
  committer,           \* where each committer is in on_commit
  commits,             \* mutations committed so far
  joiner,              \* "away", "enabled", "subscribed", "joined", "gone"
  got,                 \* what the joiner received, in order
  due                  \* mutations handed to on_commit since the joiner called

vars == <<enabled, seq, log, subs, dropped, committer, commits, joiner, got, due>>

Idle == [at |-> "idle"]
Init ==
  /\ enabled = FALSE /\ seq = 0 /\ log = <<>> /\ subs = 0 /\ dropped = {}
  /\ committer = [c \in Committers |-> Idle] /\ commits = 0
  /\ joiner = "away" /\ got = <<>> /\ due = {}

\* on_commit gives an event its number, puts it in the log, then sends it.
ThenSend(step) == CASE step = "number" -> "send" [] step = "send" -> "log" [] step = "log" -> "idle"   \* sent, then logged
Then(step) == CASE step = "number" -> "log" [] step = "log" -> "send" [] step = "send" -> "idle"
Goto(c, p) == committer' = [committer EXCEPT ![c] = IF p.at = "idle" THEN Idle ELSE p]

\* Nothing while nobody ever listened.
Begin(c) ==
  /\ committer[c] = Idle /\ commits < MaxCommits
  /\ commits' = commits + 1
  /\ due' = IF joiner = "away" THEN due ELSE due \cup {commits + 1}
  /\ Goto(c, IF enabled THEN [at |-> "number", ev |-> commits + 1] ELSE Idle)
  /\ UNCHANGED <<enabled, seq, log, subs, dropped, joiner, got>>
Number(c) ==
  /\ committer[c].at = "number"
  /\ seq' = seq + 1
  /\ Goto(c, [at |-> Then("number"), ev |-> committer[c].ev, seq |-> seq + 1])
  /\ UNCHANGED <<enabled, log, subs, dropped, commits, joiner, got, due>>
LogIt(c) ==
  /\ committer[c].at = "log"
  /\ LET full == Len(log) >= LogCap
         cut == IF full THEN LogCap \div 4 ELSE 0
     IN  /\ log' = Append(SubSeq(log, cut + 1, Len(log)), [seq |-> committer[c].seq, ev |-> committer[c].ev])
         /\ dropped' = dropped \cup {log[i].ev : i \in 1..cut}
  /\ Goto(c, [committer[c] EXCEPT !.at = Then("log")])
  /\ UNCHANGED <<enabled, seq, subs, commits, joiner, got, due>>
\* One copy for each entry of the table; a receiver that is gone is pruned.
Send(c) ==
  /\ committer[c].at = "send"
  /\ got' = IF joiner = "gone" THEN got ELSE got \o [i \in 1..subs |-> committer[c].ev]
  /\ Goto(c, [committer[c] EXCEPT !.at = IF joiner = "gone" /\ subs > 0 THEN "prune" ELSE Then("send")])
  /\ UNCHANGED <<enabled, seq, log, subs, dropped, commits, joiner, due>>
Prune(c) ==
  /\ committer[c].at = "prune"
  /\ subs' = 0 /\ Goto(c, [committer[c] EXCEPT !.at = Then("send")])
  /\ UNCHANGED <<enabled, seq, log, dropped, commits, joiner, got, due>>

\* subscribe_prefixes: the flag, then the table; then cdc_since(0).
Enable == joiner = "away" /\ enabled' = TRUE /\ joiner' = "enabled" /\ UNCHANGED <<seq, log, subs, dropped, committer, commits, got, due>>
Subscribe == joiner = "enabled" /\ subs' = Prefixes /\ joiner' = "subscribed" /\ UNCHANGED <<enabled, seq, log, dropped, committer, commits, got, due>>
Replay ==
  /\ joiner = "subscribed"
  /\ got' = got \o [i \in DOMAIN log |-> log[i].ev] /\ joiner' = "joined"
  /\ UNCHANGED <<enabled, seq, log, subs, dropped, committer, commits, due>>
HangUp == joiner = "joined" /\ joiner' = "gone" /\ UNCHANGED <<enabled, seq, log, subs, dropped, committer, commits, got, due>>

Next ==
  \/ \E c \in Committers : Begin(c) \/ Number(c) \/ LogIt(c) \/ Send(c) \/ Prune(c)
  \/ Enable \/ Subscribe \/ Replay \/ HangUp
Spec == Init /\ [][Next]_vars

\* Who subscribes and then reads the log misses nothing that was handed to the hub
\* after the call, however committers and joiner interleave, but what the ring has
\* dropped: the event is in the log before the senders are looked up.
JoinerMissesNothing ==
  joiner = "joined" =>
    \A n \in due : \/ n \in {got[i] : i \in DOMAIN got} \/ n \in dropped
                   \/ \E c \in Committers : committer[c] # Idle /\ committer[c].ev = n
=============================================================================
