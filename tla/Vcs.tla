-------------------------------- MODULE Vcs ---------------------------------
(***************************************************************************)
(* Version control of the keyspace.  A VC command is one operation of the   *)
(* commit path.  What changed since HEAD is not searched for but collected: *)
(* the commit hook puts every key it is shown in the dirty set, stamped     *)
(* with an epoch that each command advances, and a command's caller drops   *)
(* what is older than the command once that has become part of HEAD.        *)
(* The engine is in its durable mode: one flusher runs the commit path, and *)
(* calls the hooks before it publishes the group to snapshots.             *)
(***************************************************************************)
EXTENDS Integers, Sequences, FiniteSetsExt

CONSTANTS Callers,      \* threads that run VC commands
          Owner,        \* the user key that each engine key is part of
          Values,       \* what an engine key can hold
          Branches,     \* names of branches
          None,         \* no value, no branch
          MaxCommits,   \* bound: commits of the repository
          MaxWrites,    \* bound: writes of other clients
          MaxOps,       \* bound: VC commands
          MaxFlush,     \* bound: FLUSHALLs
          MaxBoot       \* bound: restarts

ASSUME NoneIsNoBranch == None \notin Branches

VARIABLES
  store,                         \* each engine key's value, as an operation reads it
  head, branch, commits,         \* the repository, which is in the store too
  seen,                          \* what a snapshot reads of the above
  unseen,                        \* keys that differ from HEAD since a change nothing noted
  queue, work, stage, batch, wipe,   \* the flusher: see Drain
  enabled, fullScan, dirty, epoch,   \* Vcs
  caller,                        \* each caller: its command, and where it is
  raced,                         \* VC.INIT left the tracking off, or scanned too early
  writes, flushes, boots

content == <<store, head, branch, commits>>
tracker == <<enabled, fullScan, dirty>>
counters == <<writes, flushes, boots>>
vars == <<content, seen, unseen, queue, work, stage, batch, wipe, tracker, epoch, caller, raced, counters>>

Key == DOMAIN Owner
User == {Owner[k] : k \in Key}
Clean == -1                      \* no stamp: the key is not in the dirty set
Never == -1                      \* nothing to settle
Idle == [at |-> "idle", op |-> "none", full |-> FALSE, scanned |-> {}, settle |-> Never]
\* The content as one value: what is published, what FLUSHALL leaves, what a group
\* that fails goes back to.
World == [store |-> store, head |-> head, branch |-> branch, commits |-> commits]
Nothing == [store |-> [k \in Key |-> None], head |-> None, branch |-> [b \in Branches |-> 0], commits |-> <<>>]
Becomes(w) == store' = w.store /\ head' = w.head /\ branch' = w.branch /\ commits' = w.commits

Init ==
  /\ store = Nothing.store /\ head = None /\ branch = Nothing.branch /\ commits = <<>>
  /\ seen = Nothing /\ unseen = {}
  /\ queue = <<>> /\ work = <<>> /\ stage = "idle" /\ batch = {} /\ wipe = FALSE
  /\ enabled = FALSE /\ fullScan = FALSE /\ dirty = [k \in Key |-> Clean] /\ epoch = 0
  /\ caller = [c \in Callers |-> Idle] /\ raced = FALSE
  /\ writes = 0 /\ flushes = 0 /\ boots = 0

-----------------------------------------------------------------------------
(* The commit graph.  A commit records the keys it changed and their values. *)

Ancestors[s \in DOMAIN commits] == {s} \cup UNION {Ancestors[commits[s].parents[i]] : i \in DOMAIN commits[s].parents}
HeadAnc == Ancestors[branch[head]]
Changed(seqs) == UNION {DOMAIN commits[s].changes : s \in seqs}

\* The newest history entry of k made by one of the commits.
ValueAt(k, anc) ==
  LET by == {s \in anc : k \in DOMAIN commits[s].changes}
  IN  IF by = {} THEN None ELSE commits[Max(by)].changes[k]

Owned(u) == {k \in Key : Owner[k] = u}
StateAt(u, anc) == [k \in Owned(u) |-> ValueAt(k, anc)]
LiveState(u) == [k \in Owned(u) |-> store[k]]
Users(keys) == {Owner[k] : k \in keys}

\* VC.MERGE of commit t into commit o, key by key of the users: the side that
\* differs from the base wins, and two that differ from it and from each other
\* are a conflict.
Base(o, t) == Max(Ancestors[o] \cap Ancestors[t])
ChangedSince(s, base) == Users(Changed(Ancestors[s] \ Ancestors[base]))
NeverBack(u, t, base) == FALSE                  \* compared with ours although theirs is the base's
ChangedBack(u, t, base) == StateAt(u, Ancestors[t]) = StateAt(u, Ancestors[base])
RealChange(u, t, base) == ~ChangedBack(u, t, base)
Diverged(o, t) ==
  LET base == Base(o, t)
  IN  {u \in ChangedSince(t, base) \cap ChangedSince(o, base) :
        RealChange(u, t, base) /\ StateAt(u, Ancestors[o]) # StateAt(u, Ancestors[t])}
Conflicts(o, t) == {u \in Diverged(o, t) : StateAt(u, Ancestors[o]) # StateAt(u, Ancestors[Base(o, t)])}
Taken(o, t) ==
  LET base == Base(o, t)
  IN  {u \in ChangedSince(t, base) \ ChangedSince(o, base) : RealChange(u, t, base)}
        \cup (Diverged(o, t) \ Conflicts(o, t))

-----------------------------------------------------------------------------
(* The commit path.  The flusher drains the queue, runs the group one request *)
(* at a time, applies it and calls the hooks, or drops it, publishes it and   *)
(* wakes the callers.                                                         *)

Write ==
  /\ writes < MaxWrites /\ writes' = writes + 1
  /\ queue' = Append(queue, [kind |-> "write"])
  /\ UNCHANGED <<content, seen, unseen, work, stage, batch, wipe, tracker, epoch, caller, raced, flushes, boots>>
FlushAll ==
  /\ flushes < MaxFlush /\ flushes' = flushes + 1
  /\ queue' = Append(queue, [kind |-> "flushall"])
  /\ UNCHANGED <<content, seen, unseen, work, stage, batch, wipe, tracker, epoch, caller, raced, writes, boots>>

Drain ==
  /\ stage = "idle" /\ queue # <<>>
  /\ stage' = "run" /\ work' = queue /\ queue' = <<>>
  /\ UNCHANGED <<content, seen, unseen, batch, wipe, tracker, epoch, caller, raced, counters>>

Runs(kind) == stage = "run" /\ work # <<>> /\ Head(work).kind = kind
RunWrite ==
  /\ Runs("write") /\ work' = Tail(work)
  /\ \E k \in Key, v \in Values \cup {None} : store' = [store EXCEPT ![k] = v] /\ batch' = batch \cup {k}
  /\ UNCHANGED <<head, branch, commits, seen, unseen, queue, stage, wipe, tracker, epoch, caller, raced, counters>>
RunFlushAll ==
  /\ Runs("flushall") /\ work' = Tail(work) /\ wipe' = TRUE
  /\ UNCHANGED <<content, seen, unseen, queue, stage, batch, tracker, epoch, caller, raced, counters>>

\* VC.INIT has been called and its operation has not run.
InitWaits(c) == caller[c].op = "init" /\ caller[c].at \in {"scan", "wait"}

\* Keys whose last change the hooks did not note, as the tracking was off.
Unnoticed == IF enabled THEN unseen \ batch ELSE unseen \cup batch

\* The group has run; it is appended to the log, applied, and shown to the hooks.
Ends == stage = "run" /\ work = <<>> /\ stage' = "hooked" /\ batch' = {} /\ wipe' = FALSE
\* A group that writes nothing appends nothing, which cannot fail.
Appends == batch # {} \/ World # seen
\* An error for every caller of the group, whatever its command had decided.
AllFail ==
  caller' = [c \in Callers |-> IF caller[c].at = "ran" THEN [caller[c] EXCEPT !.at = "lost", !.settle = Never]
                                                    ELSE caller[c]]

\* on_commit for each mutation.
Hooks ==
  /\ Ends /\ ~wipe
  /\ dirty' = [k \in Key |-> IF enabled /\ k \in batch THEN epoch ELSE dirty[k]]
  /\ unseen' = {k \in Unnoticed : head # None => store[k] # ValueAt(k, HeadAnc)}
  /\ UNCHANGED <<content, seen, queue, work, enabled, fullScan, epoch, caller, raced, counters>>
\* A FLUSHALL in place of the group, and on_flush; the append may have failed all the same.
Wipe ==
  /\ Ends /\ wipe /\ Becomes(Nothing) /\ seen' = Nothing /\ unseen' = {}
  /\ enabled' = FALSE /\ fullScan' = FALSE /\ dirty' = [k \in Key |-> Clean]
  /\ raced' = \E c \in Callers : InitWaits(c)
  /\ UNCHANGED caller \/ (Appends /\ AllFail)
  /\ UNCHANGED <<queue, work, epoch, counters>>
\* The append, its fsync or the FLUSHALL fails: nothing of the group is applied and
\* no hook called.  What its commands did to Vcs itself stays.
Fail ==
  /\ Ends /\ (wipe \/ Appends)
  /\ Becomes(seen) /\ AllFail
  /\ UNCHANGED <<seen, unseen, queue, work, tracker, epoch, raced, counters>>
Publish ==
  /\ stage = "hooked" /\ stage' = "idle" /\ seen' = World
  /\ caller' = [c \in Callers |-> [caller[c] EXCEPT !.at = CASE @ = "ran" -> "answered"
                                                            [] @ = "lost" -> "failed" [] OTHER -> @]]
  /\ UNCHANGED <<content, unseen, queue, work, batch, wipe, tracker, epoch, raced, counters>>

-----------------------------------------------------------------------------
(* A caller: command(). *)

\* Commands that need the whole keyspace scanned after a restart.
NeedsScan == {"init", "commit", "status", "checkout", "merge", "reset", "revert"}
Ops == NeedsScan \cup {"branch", "restore"}
Active == {c \in Callers : caller[c] # Idle}

Begin(c, op) ==
  /\ caller[c] = Idle
  /\ epoch + Cardinality(Active) < MaxOps /\ Len(commits) + Cardinality(Active) < MaxCommits
  /\ caller' = [caller EXCEPT ![c] = [Idle EXCEPT !.at = "scan", !.op = op,
                                        !.full = op = "init" \/ (op \in NeedsScan /\ fullScan)]]
  /\ enabled' = (enabled \/ op = "init")
  /\ raced' = (raced \/ (op = "init" /\ stage = "hooked" /\ ~enabled))
  /\ UNCHANGED <<content, seen, unseen, queue, work, stage, batch, wipe, fullScan, dirty, epoch, counters>>

\* The scan, on a snapshot, if there is one, and submit_op.
Submit(c) ==
  /\ caller[c].at = "scan"
  /\ caller' = [caller EXCEPT ![c].at = "wait",
                              ![c].scanned = IF caller[c].full THEN {k \in Key : seen.store[k] # None} ELSE {}]
  /\ queue' = Append(queue, [kind |-> "vc", by |-> c])
  /\ UNCHANGED <<content, seen, unseen, work, stage, batch, wipe, tracker, epoch, raced, counters>>

\* Entries observed before the command are part of HEAD now.  A VC.INIT that was
\* refused where there is no repository switches the tracking off again, and so
\* does one whose group failed, wherever it is.
SettledAll(e, at) == FALSE                       \* also what was observed after the command
Settled(e, at) == at > e
UnderWay(c) == InitWaits(c) \/ (caller[c].op = "init" /\ caller[c].at = "ran")
Off(c) == caller[c].op = "init" /\ (caller[c].at = "failed" \/ (caller[c].settle = Never /\ seen.head = None))
Answer(c) ==
  /\ caller[c].at \in {"answered", "failed"}
  /\ caller' = [caller EXCEPT ![c] = Idle]
  /\ enabled' = (enabled /\ ~Off(c))
  /\ raced' = (raced \/ (Off(c) /\ (head # None \/ \E d \in Callers : UnderWay(d))))
  /\ LET e == caller[c].settle
     IN  /\ dirty' = [k \in Key |-> IF e = Never \/ Settled(e, dirty[k]) THEN dirty[k] ELSE Clean]
         /\ fullScan' = (fullScan /\ ~(caller[c].full /\ e # Never))
  /\ UNCHANGED <<content, seen, unseen, queue, work, stage, batch, wipe, epoch, counters>>

-----------------------------------------------------------------------------
(* The commands, on the commit path. *)

\* The epoch advances first, whatever becomes of the command.
Ran(c, settle) ==
  /\ work' = Tail(work) /\ epoch' = epoch + 1
  /\ caller' = [caller EXCEPT ![c].at = "ran", ![c].settle = IF settle THEN epoch ELSE Never]
  /\ UNCHANGED <<seen, unseen, queue, stage, wipe, enabled, fullScan, raced, counters>>
\* An error, whose effects are rolled back, or a command that only reads.
Refuse(c) == Ran(c, FALSE) /\ UNCHANGED <<content, batch, dirty>>

CandidatesNotified(c) == {k \in Key : dirty[k] # Clean} \cup caller[c].scanned    \* not the group's own keys
Candidates(c) == {k \in Key : dirty[k] # Clean} \cup batch \cup caller[c].scanned
Changes(c, anc) ==
  {k \in Candidates(c) \cup (IF caller[c].full THEN Changed(anc) ELSE {}) : store[k] # ValueAt(k, anc)}

\* write_commit on branch b.
Record(b, parents, changes) ==
  /\ commits' = Append(commits, [parents |-> parents, changes |-> changes])
  /\ branch' = [branch EXCEPT ![b] = Len(commits) + 1]
Mark(keys) == dirty' = [k \in Key |-> IF k \in keys THEN epoch + 1 ELSE dirty[k]]
\* materialize: the keys take their values of a commit.
Materialize(keys, anc) ==
  /\ store' = [k \in Key |-> IF k \in keys THEN ValueAt(k, anc) ELSE store[k]]
  /\ batch' = batch \cup keys

\* write_user for the users whose live state is another: what is written, and
\* the keys it touches.
Differing(users, anc) == {u \in users : LiveState(u) # StateAt(u, anc)}
Written(users, anc) == [k \in Key |-> IF Owner[k] \in users THEN ValueAt(k, anc) ELSE store[k]]
Touched(users, anc) == {k \in Key : Owner[k] \in users /\ (store[k] # None \/ ValueAt(k, anc) # None)}

VcInit(c) ==
  \/ Refuse(c)                                    \* an invalid branch name
  \/ /\ head = None
     /\ \E b \in Branches :
          /\ head' = b
          /\ LET found == {k \in Candidates(c) : store[k] # None}
             IN  Record(b, <<>>, [k \in found |-> store[k]])
     /\ Ran(c, TRUE) /\ UNCHANGED <<store, batch, dirty>>

\* ALLOWEMPTY commits nothing too.
Commit(c) ==
  LET ch == Changes(c, HeadAnc)
  IN  \/ ch = {} /\ Refuse(c)
      \/ /\ Record(head, <<branch[head]>>, [k \in ch |-> store[k]])
         /\ Ran(c, TRUE) /\ UNCHANGED <<store, head, batch, dirty>>

\* After a restart it keeps in the dirty set what the scan found.  The commands that
\* only read (DIFF, GET, KEYS, HISTORY, LOG) do what it does with nothing scanned.
Status(c) ==
  IF caller[c].full THEN Mark(Changes(c, HeadAnc)) /\ Ran(c, TRUE) /\ UNCHANGED <<content, batch>>
                    ELSE Refuse(c)

\* A revision is any commit: by its id, or by a branch, a tag or a commit above it.
Revision == 1..Len(commits)

Branch(c) ==
  \/ Refuse(c)
  \/ /\ \E b \in Branches :
          \/ branch[b] = 0 /\ \E r \in Revision : branch' = [branch EXCEPT ![b] = r]
          \/ branch[b] # 0 /\ b # head /\ branch' = [branch EXCEPT ![b] = 0]
     /\ Ran(c, FALSE) /\ UNCHANGED <<store, head, commits, batch, dirty>>

Moved(r) == Changed(SymDiff(HeadAnc, Ancestors[r]))

Checkout(c) ==
  LET ch == Changes(c, HeadAnc)
  IN  \/ ch # {} /\ Refuse(c)
      \/ \E b \in {x \in Branches : branch[x] # 0}, force \in BOOLEAN :
           /\ force \/ ch = {}
           /\ Materialize(Moved(branch[b]) \cup ch, Ancestors[branch[b]])
           /\ head' = b
           /\ Ran(c, TRUE) /\ UNCHANGED <<branch, commits, dirty>>

\* Users take their state of a commit; nothing is settled.
Restore(c) ==
  \E r \in Revision, us \in SUBSET User \ {{}} :
    LET differ == Differing(us, Ancestors[r])
    IN  /\ store' = Written(differ, Ancestors[r]) /\ batch' = batch \cup Touched(differ, Ancestors[r])
        /\ Ran(c, FALSE) /\ UNCHANGED <<head, branch, commits, dirty>>

\* SOFT leaves the working copy, and what moved is uncommitted now.
Reset(c) ==
  \E r \in Revision, hard \in BOOLEAN :
    /\ branch' = [branch EXCEPT ![head] = r]
    /\ IF hard THEN Materialize(Moved(r) \cup Changes(c, HeadAnc), Ancestors[r]) /\ UNCHANGED dirty
               ELSE Mark(Moved(r)) /\ UNCHANGED <<store, batch>>
    /\ Ran(c, hard) /\ UNCHANGED <<head, commits>>

\* The merge commit records every key of the users theirs changed, which either
\* side or the base holds, or the result.
MergeRecord(o, t, result) ==
  LET sides == {Ancestors[o], Ancestors[t], Ancestors[Base(o, t)]}
      keys == {k \in Key : /\ Owner[k] \in ChangedSince(t, Base(o, t))
                           /\ result[k] # None \/ \E anc \in sides : ValueAt(k, anc) # None}
  IN  [k \in keys |-> result[k]]

Merge(c) ==
  IF Changes(c, HeadAnc) # {} THEN Refuse(c)
  ELSE \E t \in Revision :
    LET o == branch[head]
    IN  \/ Refuse(c)                              \* up to date, a dry run, or the conflicts are reported
        \/ /\ t \notin HeadAnc /\ o \in Ancestors[t] \* fast-forward
           /\ Materialize(Changed(Ancestors[t] \ HeadAnc), Ancestors[t])
           /\ branch' = [branch EXCEPT ![head] = t]
           /\ Ran(c, TRUE) /\ UNCHANGED <<head, commits, dirty>>
        \/ /\ t \notin HeadAnc /\ o \notin Ancestors[t]
           /\ \E strategy \in {"ours", "theirs"} :    \* with no conflict, none is needed
                LET users == Taken(o, t) \cup (IF strategy = "theirs" THEN Conflicts(o, t) ELSE {})
                    differ == Differing(users, Ancestors[t])
                    result == Written(differ, Ancestors[t])
                IN  /\ store' = result /\ batch' = batch \cup Touched(differ, Ancestors[t])
                    /\ Record(head, <<o, t>>, MergeRecord(o, t, result))
           /\ Ran(c, TRUE) /\ UNCHANGED <<head, dirty>>

\* The users a commit changed take their state of its first parent again.
Revert(c) ==
  IF Changes(c, HeadAnc) # {} THEN Refuse(c)
  ELSE \E r \in Revision :
    LET first == Head(commits[r].parents)
        At(u, s) == StateAt(u, Ancestors[s])
        users == Users(DOMAIN commits[r].changes)
        back == Differing({u \in users : StateAt(u, HeadAnc) = At(u, r)}, Ancestors[first])
        again == {u \in users : StateAt(u, HeadAnc) \notin {At(u, r), At(u, first)}}
    IN  IF commits[r].parents = <<>> \/ r \notin HeadAnc THEN Refuse(c)
        ELSE IF again # {} \/ back = {} THEN Refuse(c)
        ELSE LET keys == Touched(back, Ancestors[first])
                 result == Written(back, Ancestors[first])
             IN  /\ store' = result /\ batch' = batch \cup keys
                 /\ Record(head, <<branch[head]>>, [k \in keys |-> result[k]])
                 /\ Ran(c, TRUE) /\ UNCHANGED <<head, dirty>>

RunVc(c) ==
  LET op == caller[c].op
  IN  /\ Runs("vc") /\ Head(work).by = c
      /\ \/ op = "init" /\ VcInit(c)
         \/ op # "init" /\ head = None /\ Refuse(c)      \* not initialized
         \/ head # None /\ \/ op = "commit" /\ Commit(c)
                           \/ op = "status" /\ Status(c)
                           \/ op = "branch" /\ Branch(c)
                           \/ op = "checkout" /\ Checkout(c)
                           \/ op = "restore" /\ Restore(c)
                           \/ op = "reset" /\ Reset(c)
                           \/ op = "merge" /\ Merge(c)
                           \/ op = "revert" /\ Revert(c)

\* A restart between two groups: what waits is lost with its callers, the dirty
\* set too.
Restart ==
  /\ stage = "idle" /\ boots < MaxBoot /\ boots' = boots + 1
  /\ queue' = <<>> /\ caller' = [c \in Callers |-> Idle]
  /\ enabled' = (head # None) /\ fullScan' = (head # None)
  /\ dirty' = [k \in Key |-> Clean] /\ epoch' = 0 /\ raced' = FALSE /\ unseen' = {}
  /\ UNCHANGED <<content, seen, work, stage, batch, wipe, writes, flushes>>

Next ==
  \/ Write \/ FlushAll \/ Drain \/ RunWrite \/ RunFlushAll \/ Hooks \/ Wipe \/ Fail \/ Publish \/ Restart
  \/ \E c \in Callers : \/ \E op \in Ops : Begin(c, op)
                        \/ Submit(c) \/ RunVc(c) \/ Answer(c)
Spec == Init /\ [][Next]_vars

-----------------------------------------------------------------------------
\* The changes of a key that the hooks did not look at: VC.INIT scanned before
\* they were published, or another VC.INIT or a FLUSHALL, or the failure of its own
\* group, left the tracking off in a repository.
Missed(k) == raced /\ k \in unseen

\* The dirty set is what "nothing to commit" rests on: a key whose live value is
\* not HEAD's is in it, or in the group being run, whoever wrote it, whichever
\* groups fail, and whenever the callers of earlier commands settle.  Only keys
\* changed while VC.INIT had left the tracking off are missed, until they are
\* written again or a restart has all scanned.
NothingIsMissed ==
  head # None /\ ~fullScan =>
    \A k \in Key : store[k] # ValueAt(k, HeadAnc) => dirty[k] # Clean \/ k \in batch \/ Missed(k)

\* A command that settles (a commit, a checkout, a hard reset, a merge, a revert,
\* the first scan after a restart) leaves HEAD, read back through its history, and
\* the working copy the same, key by key; a status, what it found marked.
SettlesClean ==
  \A c \in Callers :
    caller[c].at = "wait" /\ caller'[c].at = "ran" /\ caller'[c].settle # Never =>
      \A k \in Key : \/ store'[k] = ValueAt(k, HeadAnc)'
                     \/ caller[c].op = "status" /\ dirty'[k] > caller'[c].settle
                     \/ Missed(k)
WorkingCopyIsHead == [][SettlesClean]_vars

\* Merging either of two commits into the other takes the same values from both,
\* criss-cross histories and changes taken back included.
MergedState(o, t) == [u \in User |-> StateAt(u, Ancestors[IF u \in Taken(o, t) THEN t ELSE o])]
MergesCommute ==
  \A o, t \in Revision :
    o \notin Ancestors[t] /\ t \notin Ancestors[o] =>
      /\ Conflicts(o, t) = Conflicts(t, o)
      /\ Conflicts(o, t) = {} => MergedState(o, t) = MergedState(t, o)
=============================================================================
