--------------------------- MODULE QueryCoalescer ---------------------------
(***************************************************************************)
(* gpu_search_coalesced: single queries of many threads share a launch.  A  *)
(* thread queues its query and then either waits or leads: it takes a batch *)
(* of queries of one shape (k, itopk, iterations, entry), launches it with  *)
(* the lock released and hands out the rows.                                *)
(*                                                                         *)
(* A row of results is named by the query it was computed for and the shape *)
(* of the launch.                                                          *)
(***************************************************************************)
EXTENDS Naturals, SequencesExt

CONSTANTS Threads, Shapes,
          MaxLeaders,             \* the number of stream slots
          Cap,                    \* slot_batch
          MaxFailures             \* bound: failed launches

VARIABLES pending, ready, leaders,
          caller,    \* where each thread is, its query, and the batch it leads
          failures,
          mixed      \* history: some thread got a row that is not its own

vars == <<pending, ready, leaders, caller, failures, mixed>>

\* A thread has one query at a time; `ticket` tells it from the one before.
Query == [by : Threads, ticket : {0, 1}, shape : Shapes]
Nothing == <<"no result">>
Row(q, shape) == <<q, shape>>
Idle(k) == [at |-> "idle", ticket |-> k]

Init ==
  /\ pending = <<>> /\ ready = {} /\ leaders = 0
  /\ caller = [t \in Threads |-> Idle(0)]
  /\ failures = 0 /\ mixed = FALSE

\* The batch: the oldest query and those of its shape, up to Cap.
\* mutant: whatever is queued
OldestFew(queue) == SubSeq(queue, 1, IF Len(queue) < Cap THEN Len(queue) ELSE Cap)
BatchOf(queue) ==
  LET same == SelectSeq(queue, LAMBDA r : r.shape = queue[1].shape)
  IN  SubSeq(same, 1, IF Len(same) < Cap THEN Len(same) ELSE Cap)

Return(t, q, result, threads) ==
  /\ caller' = [threads EXCEPT ![t] = Idle(q.ticket)]
  /\ mixed' = (mixed \/ result \notin {Nothing, Row(q, q.shape)})

\* The loop's head, under the lock, with the queue, the rows and the leaders as
\* they are then and the threads as woken by then.
Loop(t, q, queue, rows, leading, threads) ==
  \/ \E r \in rows :                                     \* another's batch carried it
       /\ r.of = q
       /\ Return(t, q, r.result, threads)
       /\ ready' = rows \ {r} /\ pending' = queue /\ leaders' = leading
  \/ /\ ~\E r \in rows : r.of = q
     /\ leading >= MaxLeaders \/ queue = <<>>
     /\ caller' = [threads EXCEPT ![t] = [at |-> "wait", q |-> q]]
     /\ ready' = rows /\ pending' = queue /\ leaders' = leading
     /\ UNCHANGED mixed
  \/ /\ ~\E r \in rows : r.of = q
     /\ leading < MaxLeaders /\ queue # <<>>
     /\ LET batch == BatchOf(queue)
        IN  /\ caller' = [threads EXCEPT ![t] = [at |-> "launch", q |-> q, batch |-> batch]]
            /\ pending' = SelectSeq(queue, LAMBDA r : r \notin ToSet(batch))
     /\ ready' = rows /\ leaders' = leading + 1
     /\ UNCHANGED mixed

\* A thread searches; its query is queued and looked at without giving up the lock.
Submit(t) == \E s \in Shapes :
  /\ caller[t].at = "idle" /\ UNCHANGED failures
  /\ LET q == [by |-> t, ticket |-> 1 - caller[t].ticket, shape |-> s]
     IN  Loop(t, q, Append(pending, q), ready, leaders, caller)

\* notify_all
Woken == [u \in Threads |-> IF caller[u].at = "wait" THEN [caller[u] EXCEPT !.at = "woken"] ELSE caller[u]]
Wake(t) ==
  /\ caller[t].at = "woken"
  /\ Loop(t, caller[t].q, pending, ready, leaders, caller)
  /\ UNCHANGED failures

\* The launch returned, and the leader has the lock again: everybody's row, or
\* back into the queue with the others.  It returns its own row, or gives up with
\* its failed launch (gpu_search then does without the batch), or loops.
Others(t) == SelectSeq(caller[t].batch, LAMBDA r : r # caller[t].q)
\* mutant: the others of a failed launch are forgotten
LeaveOut(t) == pending
Requeued(t) == pending \o Others(t)
RowOf(batch, r) == Row(r, batch[1].shape)

Land(t) ==
  LET batch == caller[t].batch
      q == caller[t].q
  IN  /\ caller[t].at = "launch" /\ UNCHANGED failures
      /\ LET rows == ready \cup {[of |-> r, result |-> RowOf(batch, r)] : r \in ToSet(Others(t))}
         IN  \/ /\ q \in ToSet(batch)
                /\ Return(t, q, RowOf(batch, q), Woken)
                /\ ready' = rows /\ leaders' = leaders - 1 /\ UNCHANGED pending
             \/ q \notin ToSet(batch) /\ Loop(t, q, pending, rows, leaders - 1, Woken)
Fail(t) ==
  LET batch == caller[t].batch
      q == caller[t].q
  IN  /\ caller[t].at = "launch" /\ failures < MaxFailures /\ failures' = failures + 1
      /\ \/ /\ q \in ToSet(batch)
            /\ Return(t, q, Nothing, Woken)
            /\ pending' = Requeued(t) /\ leaders' = leaders - 1 /\ UNCHANGED ready
         \/ q \notin ToSet(batch) /\ Loop(t, q, Requeued(t), ready, leaders - 1, Woken)

Next == \E t \in Threads : Submit(t) \/ Wake(t) \/ Land(t) \/ Fail(t)
Go(t) == Wake(t) \/ Land(t) \/ Fail(t)
\* A woken thread gets the lock, and every launch ends (the stream has a watchdog).
Fairness == \A t \in Threads : WF_vars(Go(t))
Spec == Init /\ [][Next]_vars /\ Fairness
-----------------------------------------------------------------------------
TypeOK ==
  /\ ToSet(pending) \subseteq Query /\ leaders \in 0..MaxLeaders
  /\ \A r \in ready : r.of \in Query
  /\ \A t \in Threads : caller[t].at \in {"idle", "wait", "woken", "launch"}

\* Every query comes back, with the row computed for it in a launch of its shape or
\* with nothing after a failed launch of its own, however the others go on asking:
\* no thread waits for a batch that nobody leads, no query is lost with a failed
\* launch or passed over for ever.
EveryQueryGetsItsRow ==
  \A t \in Threads : caller[t].at # "idle" ~> caller[t].at = "idle" /\ ~mixed
=============================================================================
