---------------------------- MODULE ExpiryMirror ----------------------------
(***************************************************************************)
(* The two mirrors of the durable state that the keyspace keeps in memory:  *)
(* the expiry index and the flag that says whether a collection was ever    *)
(* created.  Commands commit one after another, but each caller brings the  *)
(* mirrors up to date in its own thread afterwards, and the fast paths (SET *)
(* runs, DEL, INCR) consult them before they commit.  One key is enough:    *)
(* nothing here relates two.                                                *)
(***************************************************************************)
EXTENDS Integers, Sequences, FiniteSets

CONSTANTS Clients,    \* connection threads
          Reaper,     \* the thread of active expiry
          MaxNow      \* bound on the clock

Threads == Clients \cup {Reaper}
Never == MaxNow + 1000
Lifetime == 1         \* how far ahead deadlines are set

VARIABLES
  durable,   \* what is committed: the value under kv:, collection elements, the deadline under exp:
  index,     \* the expiry index's entry
  any,       \* whether the index ever had an entry
  colls,     \* whether a collection was ever created
  now,       \* the clock
  thread,    \* where each thread is in its command
  met        \* whether two commands were ever under way at once

mirrors == <<index, any, colls>>
vars == <<durable, mirrors, now, thread, met>>

Idle == [at |-> "idle"]
Quiet == \A t \in Threads : thread[t] = Idle
Goto(t, p) ==
  /\ thread' = [thread EXCEPT ![t] = p]
  /\ met' = (met \/ Cardinality({x \in Threads : thread'[x] # Idle}) > 1)

Init ==
  /\ durable = [val |-> "none", elems |-> FALSE, ttl |-> Never]
  /\ index = Never /\ any = FALSE /\ colls = FALSE /\ now = 0
  /\ thread = [t \in Threads |-> Idle] /\ met = FALSE

-----------------------------------------------------------------------------
\* On the commit path.  Each operation yields the new durable state and the
\* changes its caller owes the index.
Deleted(d) ==
  [to |-> [val |-> "none", elems |-> IF d.val = "coll" THEN FALSE ELSE d.elems, ttl |-> Never],
   owes |-> IF d.ttl = Never THEN <<>> ELSE <<Never>>]
Load(d) == IF d.ttl <= now THEN Deleted(d) ELSE [to |-> d, owes |-> <<>>]
\* set_ttl: an absent deadline is not deleted again.
Timed(r, ttl) ==
  IF ttl = Never /\ r.to.ttl = Never THEN r
  ELSE [to |-> [r.to EXCEPT !.ttl = ttl], owes |-> Append(r.owes, ttl)]
Emptied(r) == LET d == Deleted(r.to) IN [to |-> d.to, owes |-> r.owes \o d.owes]

Commands == {"set", "setex", "hset", "del", "expire", "persist"}
Run(cmd) ==
  LET r == Load(durable)
      there == r.to.val # "none"
      str == [r EXCEPT !.to.val = "string", !.to.elems = IF r.to.val = "coll" THEN FALSE ELSE @]
  IN  CASE cmd = "set" -> Timed(str, Never)
        [] cmd = "setex" -> Timed(str, now + Lifetime)
        [] cmd = "hset" -> IF r.to.val = "string" THEN [to |-> durable, owes |-> <<>>]
                           ELSE [r EXCEPT !.to.val = "coll", !.to.elems = TRUE]
        [] cmd = "del" -> IF there THEN Emptied(r) ELSE r
        [] cmd = "expire" -> IF there THEN Timed(r, now + Lifetime) ELSE r
        [] cmd = "persist" -> IF there THEN Timed(r, Never) ELSE r

\* run, run_writes, exec_multi: the operation commits, its caller is woken later.
Execute(t) ==
  /\ t \in Clients /\ thread[t].at \in {"idle", "executor"}
  /\ \E cmd \in IF thread[t].at = "idle" THEN Commands ELSE {"set"} :
       LET r == Run(cmd)
       IN  /\ durable' = r.to
           /\ Goto(t, [at |-> "after", owes |-> r.owes, created |-> r.to.val = "coll" /\ Load(durable).to.val # "coll", then |-> Idle])
  /\ UNCHANGED <<mirrors, now>>

\* after_commit, in the caller: the flag, then the index, change by change.
AfterCommit(t) ==
  /\ thread[t].at = "after"
  /\ LET p == thread[t]
     IN  IF p.created
         THEN colls' = TRUE /\ Goto(t, [p EXCEPT !.created = FALSE]) /\ UNCHANGED <<index, any>>
         ELSE IF p.owes # <<>>
         THEN /\ index' = Head(p.owes) /\ any' = (any \/ Head(p.owes) # Never)
              /\ Goto(t, [p EXCEPT !.owes = Tail(@)]) /\ UNCHANGED colls
         ELSE Goto(t, p.then) /\ UNCHANGED mirrors
  /\ UNCHANGED <<durable, now>>

-----------------------------------------------------------------------------
\* Removing an expired key: purge decides on the durable deadline; then an entry
\* of the index that is still overdue is dropped.
Purging(since, then) == [at |-> "purge", since |-> since, then |-> then]
Purge(t) ==
  /\ thread[t].at = "purge"
  /\ LET r == Load(durable)
         p == thread[t]
     IN  /\ durable' = r.to
         /\ Goto(t, [at |-> "after", owes |-> r.owes, created |-> FALSE,
                     then |-> [at |-> "recheck", since |-> p.since, then |-> p.then]])
  /\ UNCHANGED <<mirrors, now>>
Recheck(t) ==
  /\ thread[t].at = "recheck"
  /\ Goto(t, IF any /\ index <= thread[t].since THEN [at |-> "drop", then |-> thread[t].then] ELSE thread[t].then)
  /\ UNCHANGED <<durable, mirrors, now>>
KeepOverdue(t) ==                               \* the entry stays
  thread[t].at = "drop" /\ Goto(t, thread[t].then) /\ UNCHANGED <<durable, mirrors, now>>
Drop(t) ==
  /\ thread[t].at = "drop"
  /\ index' = Never /\ Goto(t, thread[t].then)
  /\ UNCHANGED <<durable, any, colls, now>>

Reap ==
  /\ thread[Reaper] = Idle /\ any /\ index <= now
  /\ Goto(Reaper, Purging(now, Idle))
  /\ UNCHANGED <<durable, mirrors, now>>

-----------------------------------------------------------------------------
\* A run of SETs: unless it is over a collection, the value is written blindly,
\* with the deadline's deletion if the index has one.
CheckSet(t) ==
  /\ t \in Clients /\ thread[t] = Idle
  /\ Goto(t, [at |-> IF colls /\ durable.val = "coll" THEN "executor" ELSE "ttl"])
  /\ UNCHANGED <<durable, mirrors, now>>
CheckTtl(t) ==
  /\ thread[t].at = "ttl"
  /\ Goto(t, [at |-> "put", clear |-> any /\ index # Never])
  /\ UNCHANGED <<durable, mirrors, now>>
PutSetOnly(t) ==                                \* the index is not told
  /\ thread[t].at = "put"
  /\ durable' = [durable EXCEPT !.val = "string", !.ttl = IF thread[t].clear THEN Never ELSE @]
  /\ Goto(t, Idle) /\ UNCHANGED <<mirrors, now>>
PutSet(t) ==
  /\ thread[t].at = "put"
  /\ durable' = [durable EXCEPT !.val = "string", !.ttl = IF thread[t].clear THEN Never ELSE @]
  /\ Goto(t, IF thread[t].clear THEN [at |-> "after", owes |-> <<Never>>, created |-> FALSE, then |-> Idle] ELSE Idle)
  /\ UNCHANGED <<mirrors, now>>

\* DEL while neither mirror has ever had anything: a tombstone if the key is there.
CheckDel(t) ==
  /\ t \in Clients /\ thread[t] = Idle /\ ~colls /\ ~any
  /\ Goto(t, [at |-> "lookup"])
  /\ UNCHANGED <<durable, mirrors, now>>
LookUp(t) ==
  /\ thread[t].at = "lookup"
  /\ Goto(t, IF durable.val = "none" THEN Idle ELSE [at |-> "bury"])
  /\ UNCHANGED <<durable, mirrors, now>>
Bury(t) ==
  /\ thread[t].at = "bury"
  /\ durable' = [durable EXCEPT !.val = "none"]
  /\ Goto(t, Idle) /\ UNCHANGED <<mirrors, now>>

\* INCR: an entry that is overdue is purged first, then kv: alone is written.
CheckIncr(t) ==
  /\ t \in Clients /\ thread[t] = Idle
  /\ Goto(t, IF any /\ index <= now THEN Purging(now, [at |-> "incr"]) ELSE [at |-> "incr"])
  /\ UNCHANGED <<durable, mirrors, now>>
Incr(t) ==
  /\ thread[t].at = "incr"
  /\ durable' = IF durable.val = "coll" THEN durable ELSE [durable EXCEPT !.val = "string"]
  /\ Goto(t, Idle) /\ UNCHANGED <<mirrors, now>>

\* reload, as after a merge of branches: the index is emptied, its flag lowered, and
\* both mirrors are filled again from a snapshot.
ReloadClear(t) ==
  /\ t \in Clients /\ thread[t] = Idle
  /\ index' = Never /\ Goto(t, [at |-> "cleared"])
  /\ UNCHANGED <<durable, any, colls, now>>
ReloadSnapshot(t) ==
  /\ thread[t].at = "cleared"
  /\ any' = FALSE /\ Goto(t, [at |-> "scanned", ttl |-> durable.ttl, elems |-> durable.elems])
  /\ UNCHANGED <<durable, index, colls, now>>
ReloadFill(t) ==
  /\ thread[t].at = "scanned"
  /\ IF thread[t].ttl = Never THEN UNCHANGED <<index, any>> ELSE index' = thread[t].ttl /\ any' = TRUE
  /\ colls' = thread[t].elems /\ Goto(t, Idle)
  /\ UNCHANGED <<durable, now>>

Tick == now < MaxNow /\ now' = now + 1 /\ UNCHANGED <<durable, mirrors, thread, met>>

Step(t) ==
  \/ AfterCommit(t) \/ Purge(t) \/ Recheck(t) \/ Drop(t)
  \/ CheckTtl(t) \/ PutSet(t) \/ LookUp(t) \/ Bury(t) \/ Incr(t) \/ ReloadSnapshot(t) \/ ReloadFill(t)
Begin(t) == Execute(t) \/ CheckSet(t) \/ CheckDel(t) \/ CheckIncr(t) \/ ReloadClear(t)
Next == Tick \/ Reap \/ \E t \in Threads : Step(t) \/ Begin(t)

\* Threads run: a command that has begun goes on, the reaper looks again and again.
Proceed(t) == Step(t) \/ (thread[t].at = "executor" /\ Execute(t))
Fairness == WF_vars(Reap) /\ \A t \in Threads : WF_vars(Proceed(t))
Spec == Init /\ [][Next]_vars /\ Fairness

-----------------------------------------------------------------------------
\* What a GET answers, and what is so.
Shown == IF durable.val = "string" /\ any /\ index <= now THEN "none" ELSE durable.val
Truth == IF durable.ttl <= now THEN "none" ELSE durable.val

\* The fast paths: "They stay exact under TTLs and collections: GET/MGET check the
\* expiry index and the value type" (main.rs).  With no command under way a GET of
\* a string answers what is so.
ExactReads == Quiet /\ durable.val = "string" => Shown = Truth

\* What two commands at once can break, commands one at a time never do: whenever
\* none is under way the index has the durable deadline, the flag covers every
\* collection, a deadline belongs to a value, and elements to a header.
ExactUntilTheyMeet ==
  Quiet /\ ~met =>
    /\ index = durable.ttl /\ (index # Never => any)
    /\ durable.val = "coll" => colls
    /\ durable.elems = (durable.val = "coll")
    /\ durable.val = "none" => durable.ttl = Never

\* An overdue entry of the index, right or stale, does not stay to be retried for ever.
Overdue == any /\ index <= now
OverdueEntriesGo == Overdue ~> ~Overdue
=============================================================================
