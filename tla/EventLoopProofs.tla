-------------------------- MODULE EventLoopProofs --------------------------
(***************************************************************************)
(* What the network layer promises, for any clients, scripts, sizes of     *)
(* sockets and buffers, and any finite number of pool threads.             *)
(*                                                                         *)
(* The pool of blocking threads forgets no job, whatever the worker hands  *)
(* over: the lost wake-up that Pool::submit and Pool::work avoid by        *)
(* counting idle threads under one lock.                                   *)
(*                                                                         *)
(* Each client reads the replies to its own commands, once and in order,   *)
(* whichever of the worker, a pool thread and the thread of a handed-off   *)
(* connection writes them, and a connection is closed only after the last. *)
(***************************************************************************)
EXTENDS EventLoop, FiniteSetTheorems, SequenceTheorems, WellFoundedInduction, TLAPS

Count(places) == Cardinality(ThreadsAt(places))

\* A thread waits only when every queued job has a thread woken for it; a thread
\* may still be started only when every queued job has one on its way.
JobsHaveThreads ==
  /\ ThreadsAt({"wait"}) # {} => Len(jobs) <= Count({"woken"})
  /\ ThreadsAt({"none"}) # {} => Len(jobs) <= Count({"free"}) + Count({"woken"})

\* The queue is a sequence and the pool a table of threads.
IsSeq(s) == s \in Seq({s[i] : i \in DOMAIN s})
PoolShape == IsSeq(jobs) /\ thr = [t \in Threads |-> thr[t]]

PoolInv == PoolShape /\ JobsHaveThreads

-----------------------------------------------------------------------------
\* A sequence over any set is one over its elements, ...
LEMMA SeqOfElements == ASSUME NEW S, NEW s \in Seq(S) PROVE IsSeq(s)
<1>1. s \in [1..Len(s) -> S] /\ DOMAIN s = 1..Len(s) /\ Len(s) \in Nat
  BY LenProperties
<1>2. s \in [1..Len(s) -> {s[i] : i \in DOMAIN s}]
  BY <1>1
<1>. QED  BY <1>1, <1>2, SeqDef DEF IsSeq

\* ... and so are what Pool::submit and Pool::work make of the queue.
LEMMA QueueOps ==
  ASSUME NEW s, IsSeq(s)
  PROVE  /\ Len(s) \in Nat
         /\ \A x : IsSeq(Append(s, x)) /\ Len(Append(s, x)) = Len(s) + 1
         /\ s # <<>> => IsSeq(Tail(s)) /\ Len(Tail(s)) = Len(s) - 1
         /\ s = <<>> => Len(s) = 0
<1>. DEFINE S == {s[i] : i \in DOMAIN s}
<1>1. s \in Seq(S) /\ Len(s) \in Nat
  BY LenProperties DEF IsSeq
<1>2. ASSUME NEW x PROVE IsSeq(Append(s, x)) /\ Len(Append(s, x)) = Len(s) + 1
  <2>1. s \in Seq(S \cup {x})
    BY <1>1, SeqMonotonic
  <2>2. Append(s, x) \in Seq(S \cup {x}) /\ Len(Append(s, x)) = Len(s) + 1
    BY <2>1, AppendProperties
  <2>. QED  BY <2>2, SeqOfElements
<1>3. ASSUME s # <<>> PROVE IsSeq(Tail(s)) /\ Len(Tail(s)) = Len(s) - 1
  BY <1>1, <1>3, HeadTailProperties, SeqOfElements
<1>. QED  BY <1>1, <1>2, <1>3

\* The threads at a place are finitely many.
LEMMA CountNat ==
  ASSUME NEW places
  PROVE  /\ IsFiniteSet(ThreadsAt(places)) /\ Count(places) \in Nat
         /\ ThreadsAt(places) # {} => Count(places) > 0
<1>1. IsFiniteSet(ThreadsAt(places))
  BY FinitePool, FS_Subset DEF ThreadsAt
<1>. QED  BY <1>1, FS_CardinalityType, FS_EmptySet DEF Count

\* A thread is at one place.
LEMMA CountOfTwo ==
  ASSUME NEW p, NEW q, p # q
  PROVE  Count({p, q}) = Count({p}) + Count({q})
<1>. DEFINE P == ThreadsAt({p})  Q == ThreadsAt({q})
<1>1. ThreadsAt({p, q}) = P \cup Q /\ P \cap Q = {}
  BY DEF ThreadsAt
<1>2. IsFiniteSet(P) /\ IsFiniteSet(Q) /\ Cardinality(P) \in Nat /\ Cardinality(Q) \in Nat
  BY CountNat DEF Count
<1>3. Cardinality(P \cap Q) = 0
  BY <1>1, FS_EmptySet
<1>. HIDE DEF P, Q
<1>4. Cardinality(P \cup Q) = Cardinality(P) + Cardinality(Q) - Cardinality(P \cap Q)
  BY <1>2, FS_Union
<1>5. Cardinality(P \cup Q) = Cardinality(P) + Cardinality(Q)
  BY <1>2, <1>3, <1>4
<1>. QED  BY <1>1, <1>5 DEF Count, P, Q

\* When a thread moves, the place it leaves has one fewer, the place it comes to
\* one more, and the others as many as before.
LEMMA OneMoves ==
  ASSUME PoolShape, NEW t \in Threads, NEW r,
         thr' = [thr EXCEPT ![t] = r], NEW place
  PROVE  /\ PoolShape' <=> IsSeq(jobs')
         /\ place = r.at /\ place # thr[t].at => Count({place})' = Count({place}) + 1
         /\ place # r.at /\ place = thr[t].at => Count({place})' = Count({place}) - 1
         /\ (place = r.at <=> place = thr[t].at) => ThreadsAt({place})' = ThreadsAt({place})
                                                    /\ Count({place})' = Count({place})
         /\ ThreadsAt({place})' # {} /\ place # r.at => ThreadsAt({place}) # {}
<1>1. \A u \in Threads : thr'[u] = IF u = t THEN r ELSE thr[u]
  BY DEF PoolShape
<1>2. thr' = [u \in Threads |-> thr'[u]]
  BY DEF PoolShape
<1>3. IsFiniteSet(ThreadsAt({place}))
  BY CountNat
<1>4. CASE place = r.at /\ place # thr[t].at
  <2>1. ThreadsAt({place})' = ThreadsAt({place}) \cup {t} /\ t \notin ThreadsAt({place})
    BY <1>1, <1>4 DEF ThreadsAt
  <2>. QED  BY <1>2, <1>3, <1>4, <2>1, FS_AddElement DEF Count, PoolShape
<1>5. CASE place # r.at /\ place = thr[t].at
  <2>1. ThreadsAt({place})' = ThreadsAt({place}) \ {t} /\ t \in ThreadsAt({place})
    BY <1>1, <1>5 DEF ThreadsAt
  <2>. QED  BY <1>2, <1>3, <1>5, <2>1, FS_RemoveElement DEF Count, PoolShape
<1>6. CASE place = r.at <=> place = thr[t].at
  <2>1. ThreadsAt({place})' = ThreadsAt({place})
    BY <1>1, <1>6 DEF ThreadsAt
  <2>. QED  BY <1>2, <1>6, <2>1 DEF Count, PoolShape
<1>. QED  BY <1>4, <1>5, <1>6

-----------------------------------------------------------------------------
\* Pool::submit: the job after those that have a thread gets one too, if there
\* is an idle thread or one may be started.
LEMMA SubmitStep ==
  ASSUME PoolInv, NEW job, Submit(job)
  PROVE  PoolInv'
<1>1. IsSeq(jobs') /\ Len(jobs') = Len(jobs) + 1 /\ Len(jobs) \in Nat
  BY QueueOps DEF Submit, PoolInv, PoolShape
<1>2. \A p \in {"wait", "woken", "none", "free"} : Count({p}) \in Nat /\ IsFiniteSet(ThreadsAt({p}))
  BY CountNat
<1>3. Cardinality(ThreadsAt({"wait", "woken"})) = Count({"wait"}) + Count({"woken"})
  BY CountOfTwo DEF Count
<1>4. ThreadsAt({"wait"}) = {} <=> Count({"wait"}) = 0
  BY <1>2, FS_EmptySet DEF Count
<1>5. CASE thr' = thr
  <2>1. /\ PoolShape'
        /\ \A p : ThreadsAt({p})' = ThreadsAt({p}) /\ Count({p})' = Count({p})
    BY <1>1, <1>5 DEF ThreadsAt, Count, PoolInv, PoolShape
  <2>2. CASE EnoughIdle
    <3>1. ThreadsAt({"wait"}) = {}
      <4>. SUFFICES ASSUME ThreadsAt({"wait"}) # {} PROVE FALSE
        OBVIOUS
      <4>. DEFINE t == CHOOSE t \in ThreadsAt({"wait"}) : TRUE
      <4>1. thr' = [thr EXCEPT ![t] = [at |-> "woken"]] /\ t \in Threads /\ thr[t].at = "wait"
        BY <2>2 DEF Submit, OneGoes, ThreadsAt
      <4>. HIDE DEF t
      <4>2. thr'[t].at = "woken"
        BY <4>1 DEF PoolInv, PoolShape
      <4>. QED  BY <1>5, <4>1, <4>2
    <3>2. Count({"woken"}) > Len(jobs)
      BY <1>1, <1>2, <1>3, <1>4, <2>2, <3>1 DEF EnoughIdle
    <3>3. Count({"woken"}) \in Nat /\ Count({"free"}) \in Nat
      BY <1>2
    <3>4. /\ ThreadsAt({"wait"})' = {} /\ Count({"woken"})' = Count({"woken"})
          /\ Count({"free"})' = Count({"free"})
      BY <2>1, <3>1
    <3>5. Len(jobs') <= Count({"woken"})' /\ Len(jobs') <= Count({"free"})' + Count({"woken"})'
      BY <1>1, <3>2, <3>3, <3>4
    <3>. QED  BY <2>1, <3>4, <3>5 DEF PoolInv, JobsHaveThreads
  <2>3. CASE ~EnoughIdle
    <3>1. ThreadsAt({"none"}) = {}
      <4>. SUFFICES ASSUME ThreadsAt({"none"}) # {} PROVE FALSE
        OBVIOUS
      <4>. DEFINE t == CHOOSE t \in ThreadsAt({"none"}) : TRUE
      <4>1. thr' = [thr EXCEPT ![t] = [at |-> "free"]] /\ t \in Threads /\ thr[t].at = "none"
        BY <2>3 DEF Submit, OneGoes, ThreadsAt
      <4>. HIDE DEF t
      <4>2. thr'[t].at = "free"
        BY <4>1 DEF PoolInv, PoolShape
      <4>. QED  BY <1>5, <4>1, <4>2
    <3>2. ThreadsAt({"wait"}) = {}
      BY <1>1, <1>2, <1>3, <1>4, <2>3 DEF EnoughIdle, PoolInv, JobsHaveThreads
    <3>. QED  BY <2>1, <3>1, <3>2 DEF PoolInv, JobsHaveThreads
  <2>. QED  BY <2>2, <2>3
<1>6. CASE EnoughIdle /\ ThreadsAt({"wait"}) # {}
  <2>1. PICK t \in Threads : thr[t].at = "wait" /\ thr' = [thr EXCEPT ![t] = [at |-> "woken"]]
    <3>. DEFINE t == CHOOSE t \in ThreadsAt({"wait"}) : TRUE
    <3>1. t \in ThreadsAt({"wait"}) /\ thr' = [thr EXCEPT ![t] = [at |-> "woken"]]
      BY <1>6 DEF Submit, OneGoes
    <3>. QED  BY <3>1 DEF ThreadsAt
  <2>. DEFINE r == [at |-> "woken"]
  <2>2. PoolShape /\ thr' = [thr EXCEPT ![t] = r] /\ r.at = "woken"
    BY <2>1 DEF PoolInv
  <2>. HIDE DEF r
  <2>3. Count({"woken"})' = Count({"woken"}) + 1
    BY <2>1, <2>2, OneMoves
  <2>4. Count({"free"})' = Count({"free"})
    BY <2>1, <2>2, OneMoves
  <2>5. PoolShape'
    BY <1>1, <2>2, OneMoves
  <2>. QED  BY <1>1, <1>2, <1>6, <2>3, <2>4, <2>5 DEF PoolInv, JobsHaveThreads
<1>7. CASE ~EnoughIdle /\ ThreadsAt({"none"}) # {}
  <2>1. PICK t \in Threads : thr[t].at = "none" /\ thr' = [thr EXCEPT ![t] = [at |-> "free"]]
    <3>. DEFINE t == CHOOSE t \in ThreadsAt({"none"}) : TRUE
    <3>1. t \in ThreadsAt({"none"}) /\ thr' = [thr EXCEPT ![t] = [at |-> "free"]]
      BY <1>7 DEF Submit, OneGoes
    <3>. QED  BY <3>1 DEF ThreadsAt
  <2>. DEFINE r == [at |-> "free"]
  <2>2. PoolShape /\ thr' = [thr EXCEPT ![t] = r] /\ r.at = "free"
    BY <2>1 DEF PoolInv
  <2>. HIDE DEF r
  <2>3. Count({"woken"})' = Count({"woken"})
    BY <2>1, <2>2, OneMoves
  <2>4. Count({"free"})' = Count({"free"}) + 1
    BY <2>1, <2>2, OneMoves
  <2>5. ThreadsAt({"wait"})' = ThreadsAt({"wait"})
    BY <2>1, <2>2, OneMoves
  <2>6. PoolShape'
    BY <1>1, <2>2, OneMoves
  <2>7. ThreadsAt({"wait"}) = {}
    BY <1>1, <1>2, <1>3, <1>4, <1>7 DEF EnoughIdle, PoolInv, JobsHaveThreads
  <2>. QED  BY <1>1, <1>2, <1>7, <2>3, <2>4, <2>5, <2>6, <2>7 DEF PoolInv, JobsHaveThreads
<1>. QED  BY <1>5, <1>6, <1>7 DEF Submit, OneGoes

\* Pool::work: a thread that takes a job leaves one job fewer, and one that
\* waits has found none.
LEMMA TakeJobStep ==
  ASSUME PoolInv, NEW t \in Threads,
         thr[t].at \in {"free", "woken", "wait"}, TakeJob(t)
  PROVE  PoolInv'
<1>1. \A p \in {"wait", "woken", "none", "free"} : Count({p}) \in Nat
  BY CountNat
<1>2. CASE jobs # <<>>
  <2>1. PICK r : r.at = "run" /\ thr' = [thr EXCEPT ![t] = r]
    BY <1>2 DEF TakeJob, Become
  <2>2. IsSeq(jobs') /\ Len(jobs') = Len(jobs) - 1 /\ Len(jobs) \in Nat
    BY <1>2, QueueOps DEF TakeJob, PoolInv, PoolShape
  <2>3. PoolShape'
    BY <2>1, <2>2, OneMoves DEF PoolInv
  <2>4. \A p \in {"wait", "none"} : ThreadsAt({p})' # {} => ThreadsAt({p}) # {}
    BY <2>1, OneMoves DEF PoolInv
  <2>5. \A p \in {"woken", "free"} : Count({p})' = IF thr[t].at = p THEN Count({p}) - 1 ELSE Count({p})
    BY <2>1, OneMoves DEF PoolInv
  <2>. QED  BY <1>1, <2>2, <2>3, <2>4, <2>5 DEF PoolInv, JobsHaveThreads
<1>3. CASE jobs = <<>>
  <2>1. thr' = [thr EXCEPT ![t] = [at |-> "wait"]] /\ jobs' = jobs
    BY <1>3 DEF TakeJob, Become
  <2>2. PoolShape' /\ Len(jobs') = 0
    BY <1>3, <2>1, OneMoves, QueueOps DEF PoolInv, PoolShape
  <2>3. \A p \in {"woken", "free"} : Count({p})' \in Nat
    <3>. SUFFICES ASSUME NEW p \in {"woken", "free"} PROVE Count({p})' \in Nat
      OBVIOUS
    <3>1. ThreadsAt({p})' \in SUBSET Threads
      BY DEF ThreadsAt
    <3>. QED  BY <3>1, FinitePool, FS_Subset, FS_CardinalityType DEF Count
  <2>. QED  BY <2>2, <2>3 DEF PoolInv, JobsHaveThreads
<1>. QED  BY <1>2, <1>3

\* What a step of one thread does to the table of threads.
LEMMA Becomes ==
  ASSUME PoolShape, NEW t \in Threads, NEW r, Become(t, r)
  PROVE  thr'[t] = r /\ thr' = [thr EXCEPT ![t] = thr'[t]]
BY DEF PoolShape, Become

\* A thread that has a job goes on with it; at its end it looks for another.
LEMMA BusyStep ==
  ASSUME PoolInv, NEW t \in Threads,
         thr[t].at \in {"run", "owned", "deliver"},
         thr'[t].at \in {"run", "owned", "deliver", "free"},
         thr' = [thr EXCEPT ![t] = thr'[t]], jobs' = jobs
  PROVE  PoolInv'
<1>. DEFINE r == thr'[t]
<1>0. thr' = [thr EXCEPT ![t] = r] /\ PoolShape
  BY DEF PoolInv
<1>. HIDE DEF r
<1>1. \A p \in {"wait", "woken", "none", "free"} : Count({p}) \in Nat
  BY CountNat
<1>2. PoolShape' /\ Len(jobs) \in Nat
  BY <1>0, OneMoves, QueueOps DEF PoolInv, PoolShape
<1>3. \A p \in {"wait", "none"} : ThreadsAt({p})' = ThreadsAt({p})
  BY <1>0, OneMoves DEF r
<1>4. Count({"woken"})' = Count({"woken"})
  BY <1>0, OneMoves DEF r
<1>5. Count({"free"})' = IF r.at = "free" THEN Count({"free"}) + 1 ELSE Count({"free"})
  BY <1>0, OneMoves DEF r
<1>. QED  BY <1>1, <1>2, <1>3, <1>4, <1>5 DEF PoolInv, JobsHaveThreads

\* A thread whose wait timed out ends only when there is no job.
LEMMA RetireStep ==
  ASSUME PoolInv, NEW t \in Threads, Retire(t)
  PROVE  PoolInv'
<1>1. CASE jobs # <<>>
  BY <1>1, TakeJobStep DEF Retire
<1>2. CASE jobs = <<>>
  <2>1. thr' = [thr EXCEPT ![t] = Idle] /\ jobs' = jobs /\ Idle.at = "none"
    BY <1>2 DEF Retire, Become, Idle
  <2>2. PoolShape' /\ Len(jobs') = 0
    BY <1>2, <2>1, OneMoves, QueueOps DEF PoolInv, PoolShape
  <2>3. \A p \in {"woken", "free"} : Count({p})' \in Nat
    <3>. SUFFICES ASSUME NEW p \in {"woken", "free"} PROVE Count({p})' \in Nat
      OBVIOUS
    <3>1. ThreadsAt({p})' \in SUBSET Threads
      BY DEF ThreadsAt
    <3>. QED  BY <3>1, FinitePool, FS_Subset, FS_CardinalityType DEF Count
  <2>. QED  BY <2>2, <2>3 DEF PoolInv, JobsHaveThreads
<1>. QED  BY <1>1, <1>2

-----------------------------------------------------------------------------
\* Every queued job has a thread on its way to it, as long as any thread waits or
\* may be started.
THEOREM PoolInvariance == Spec => []PoolInv
<1>1. Init => PoolInv
  <2>. SUFFICES ASSUME Init PROVE PoolInv
    OBVIOUS
  <2>1. IsSeq(jobs) /\ Len(jobs) = 0
    BY EmptySeq, SeqOfElements DEF Init
  <2>2. thr = [t \in Threads |-> thr[t]]
    BY DEF Init
  <2>3. \A p \in {"woken", "free"} : Count({p}) \in Nat
    BY CountNat
  <2>. QED  BY <2>1, <2>2, <2>3 DEF PoolInv, PoolShape, JobsHaveThreads
<1>2. PoolInv /\ [Next]_vars => PoolInv'
  <2>. SUFFICES ASSUME PoolInv, [Next]_vars PROVE PoolInv'
    OBVIOUS
  <2>1. CASE UNCHANGED pool
    BY <2>1 DEF pool, PoolInv, PoolShape, JobsHaveThreads, Count, ThreadsAt
  <2>2. CASE \E c \in Clients : Connect(c) \/ Send(c) \/ Finish(c) \/ Recv(c) \/ ServeElsewhere(c)
    BY <2>1, <2>2 DEF Connect, Send, Finish, Recv, ServeElsewhere
  <2>3. CASE Worker
    <3>1. CASE Process /\ ~UNCHANGED pool
      <4>1. PICK job : Submit(job)
        BY <3>1 DEF Process, ProcessInline, ProcessOnPool
      <4>. QED  BY <4>1, SubmitStep
    <3>2. CASE OnEvent \/ AcceptAll \/ Readable \/ Completion \/ Flush
      BY <2>1, <3>2 DEF OnEvent, AcceptAll, Readable, Completion, Flush
    <3>. QED  BY <2>1, <2>3, <3>1, <3>2 DEF Worker
  <2>4. ASSUME NEW t \in Threads, PoolThread(t) PROVE PoolInv'
    <3>1. CASE NextJob(t)
      BY <3>1, TakeJobStep DEF NextJob
    <3>2. CASE RunBatch(t) \/ NextBatch(t) \/ ReadMore(t) \/ GiveBack(t) \/ Deliver(t)
      <4>0. PoolShape
        BY DEF PoolInv
      <4>1. CASE RunBatch(t)
        <5>1. thr[t].at = "run" /\ jobs' = jobs
          BY <4>1 DEF RunBatch
        <5>2. \/ \E job, out, end : Finished(t, job, out, end)
              \/ \E job : Become(t, [at |-> "owned", job |-> job])
          BY <4>1 DEF RunBatch
        <5>3. CASE \E job, out, end : Finished(t, job, out, end)
          BY <4>0, <5>1, <5>3, Becomes, BusyStep DEF Finished
        <5>4. CASE \E job : Become(t, [at |-> "owned", job |-> job])
          BY <4>0, <5>1, <5>4, Becomes, BusyStep
        <5>. QED  BY <5>2, <5>3, <5>4
      <4>2. CASE NextBatch(t)
        BY <4>0, <4>2, Becomes, BusyStep DEF NextBatch
      <4>3. CASE ReadMore(t)
        BY <4>0, <4>3, Becomes, BusyStep DEF ReadMore
      <4>4. CASE GiveBack(t)
        BY <4>0, <4>4, Becomes, BusyStep DEF GiveBack, Finished
      <4>5. CASE Deliver(t)
        BY <4>0, <4>5, Becomes, BusyStep DEF Deliver
      <4>. QED  BY <3>2, <4>1, <4>2, <4>3, <4>4, <4>5
    <3>. QED  BY <2>4, <3>1, <3>2 DEF PoolThread
  <2>5. ASSUME NEW t \in Threads, Retire(t) PROVE PoolInv'
    BY <2>5, RetireStep
  <2>6. CASE UNCHANGED vars
    BY <2>1, <2>6 DEF vars, pool
  <2>. QED  BY <2>2, <2>3, <2>4, <2>5, <2>6 DEF Next
<1>. QED  BY <1>1, <1>2, PTL DEF Spec

\* Pool::submit and Pool::work, for every finite pool: a queued job waits only for
\* a thread that is on its way to the queue, or because every thread there may
\* be has work.
THEOREM NoQueuedJobIsForgotten == Spec => []NoJobIsForgotten
<1>1. PoolInv => NoJobIsForgotten
  <2>. SUFFICES ASSUME PoolInv PROVE NoJobIsForgotten
    OBVIOUS
  <2>1. Len(jobs) \in Nat
    BY QueueOps DEF PoolInv, PoolShape
  <2>2. Count({"free"}) \in Nat /\ Count({"woken"}) \in Nat
    BY CountNat
  <2>3. Cardinality(ThreadsAt({"free", "woken"})) = Count({"free"}) + Count({"woken"})
    BY CountOfTwo DEF Count
  <2>4. ThreadsAt({"none", "wait"}) = ThreadsAt({"none"}) \cup ThreadsAt({"wait"})
    BY DEF ThreadsAt
  <2>. QED  BY <2>1, <2>2, <2>3, <2>4 DEF PoolInv, JobsHaveThreads, NoJobIsForgotten
<1>. QED  BY <1>1, PoolInvariance, PTL

-----------------------------------------------------------------------------
(* Sequences of numbers.                                                   *)

\* A set of numbers that is not empty has a least one.
LEMMA LeastNumber ==
  ASSUME NEW T, T \subseteq Nat, T # {}
  PROVE  \E m \in T : \A n \in T : m <= n
<1>1. PICK m \in T : \A n \in T : <<n, m>> \notin OpToRel(<, Nat)
  BY NatLessThanWellFounded, WFMin
<1>2. \A n \in T : ~(n < m)
  BY <1>1 DEF OpToRel
<1>. QED  BY <1>2

\* Three sequences one after another.
LEMMA Regroup ==
  ASSUME NEW a \in Seq(Nat), NEW b \in Seq(Nat), NEW c \in Seq(Nat)
  PROVE  (a \o b) \o c = a \o (b \o c)
OBVIOUS

\* The same, for where many sequences are at hand.
Three(a, b, c) == a \in Seq(Nat) /\ b \in Seq(Nat) /\ c \in Seq(Nat)
Grouped(a, b, c) == (a \o b) \o c = a \o (b \o c)

\* What Regroup says.
LEMMA RegroupThree ==
  ASSUME NEW a, NEW b, NEW c, Three(a, b, c)
  PROVE  Grouped(a, b, c)
BY Regroup DEF Three, Grouped

\* A sequence and what it is cut into.
LEMMA CutInTwo ==
  ASSUME NEW S, NEW s \in Seq(S), NEW n \in 0..Len(s)
  PROVE  /\ SubSeq(s, 1, n) \in Seq(S) /\ SubSeq(s, n + 1, Len(s)) \in Seq(S)
         /\ Len(SubSeq(s, 1, n)) = n /\ Len(SubSeq(s, n + 1, Len(s))) = Len(s) - n
         /\ SubSeq(s, 1, n) \o SubSeq(s, n + 1, Len(s)) = s
<1>1. Len(s) \in Nat /\ \A i \in 1..Len(s) : s[i] \in S
  BY LenProperties
<1>2. /\ SubSeq(s, 1, n) \in Seq(S) /\ Len(SubSeq(s, 1, n)) = n
      /\ \A i \in 1..n : SubSeq(s, 1, n)[i] = s[i]
  <2>1. /\ SubSeq(s, 1, n) \in Seq(S) /\ Len(SubSeq(s, 1, n)) = IF 1 <= n THEN n - 1 + 1 ELSE 0
        /\ \A i \in 1..n - 1 + 1 : SubSeq(s, 1, n)[i] = s[1 + i - 1]
    BY <1>1, SubSeqProperties
  <2>. QED  BY <1>1, <2>1
<1>3. /\ SubSeq(s, n + 1, Len(s)) \in Seq(S) /\ Len(SubSeq(s, n + 1, Len(s))) = Len(s) - n
      /\ \A i \in 1..Len(s) - n : SubSeq(s, n + 1, Len(s))[i] = s[n + i]
  <2>1. /\ SubSeq(s, n + 1, Len(s)) \in Seq(S)
        /\ Len(SubSeq(s, n + 1, Len(s))) = IF n + 1 <= Len(s) THEN Len(s) - (n + 1) + 1 ELSE 0
        /\ \A i \in 1..Len(s) - (n + 1) + 1 : SubSeq(s, n + 1, Len(s))[i] = s[n + 1 + i - 1]
    BY <1>1, SubSeqProperties
  <2>. QED  BY <1>1, <2>1
<1>. DEFINE a == SubSeq(s, 1, n)
            b == SubSeq(s, n + 1, Len(s))
<1>. HIDE DEF a, b
<1>4. /\ a \o b \in Seq(S) /\ Len(a \o b) = Len(s)
      /\ \A i \in 1..Len(s) : (a \o b)[i] = IF i <= n THEN a[i] ELSE b[i - n]
  <2>1. a \in Seq(S) /\ b \in Seq(S) /\ Len(a) = n /\ Len(b) = Len(s) - n
    BY <1>2, <1>3 DEF a, b
  <2>2. Len(a) + Len(b) = Len(s)
    BY <1>1, <2>1
  <2>. QED  BY <2>1, <2>2, ConcatProperties
<1>5. ASSUME NEW i \in 1..Len(s) PROVE (a \o b)[i] = s[i]
  <2>1. CASE i <= n
    <3>1. i \in 1..n
      BY <1>1, <2>1
    <3>. QED  BY <1>2, <1>4, <2>1, <3>1 DEF a
  <2>2. CASE i > n
    <3>1. i - n \in 1..Len(s) - n /\ n + (i - n) = i /\ ~(i <= n)
      BY <1>1, <2>2
    <3>2. b[i - n] = s[n + (i - n)]
      BY <1>3, <3>1 DEF b
    <3>. QED  BY <1>4, <3>1, <3>2
  <2>3. i <= n \/ i > n
    BY <1>1
  <2>. QED  BY <2>1, <2>2, <2>3
<1>6. a \o b = s
  BY <1>1, <1>4, <1>5, SeqEqual
<1>. QED  BY <1>2, <1>3, <1>6 DEF a, b

\* Take and Drop.
LEMMA TakeDrop ==
  ASSUME NEW S, NEW s \in Seq(S), NEW n \in Nat
  PROVE  /\ Take(s, n) \in Seq(S) /\ Drop(s, n) \in Seq(S)
         /\ Take(s, n) \o Drop(s, n) = s
         /\ n <= Len(s) => Len(Take(s, n)) = n
         /\ n >= Len(s) => Take(s, n) = s /\ Drop(s, n) = <<>>
<1>1. Len(s) \in Nat
  BY LenProperties
<1>2. CASE n <= Len(s)
  <2>1. Low(n, Len(s)) = n
    BY <1>1, <1>2 DEF Low
  <2>2. /\ Take(s, n) \in Seq(S) /\ Drop(s, n) \in Seq(S)
        /\ Len(Take(s, n)) = n /\ Take(s, n) \o Drop(s, n) = s
    <3>1. Take(s, n) = SubSeq(s, 1, n) /\ Drop(s, n) = SubSeq(s, n + 1, Len(s))
      BY <2>1 DEF Take, Drop
    <3>2. n \in 0..Len(s)
      BY <1>1, <1>2
    <3>3. /\ SubSeq(s, 1, n) \in Seq(S) /\ SubSeq(s, n + 1, Len(s)) \in Seq(S)
          /\ Len(SubSeq(s, 1, n)) = n /\ SubSeq(s, 1, n) \o SubSeq(s, n + 1, Len(s)) = s
      BY <3>2, CutInTwo
    <3>. QED  BY <3>1, <3>3
  <2>3. n = Len(s) => Take(s, n) = s /\ Drop(s, n) = <<>>
    BY <1>1, <2>1, SubSeqFull, SubSeqEmpty DEF Take, Drop
  <2>. QED  BY <1>1, <1>2, <2>2, <2>3
<1>3. CASE n > Len(s)
  <2>1. Low(n, Len(s)) = Len(s)
    BY <1>1, <1>3 DEF Low
  <2>2. Take(s, n) = s
    BY <2>1, SubSeqFull DEF Take
  <2>3. Drop(s, n) = <<>>
    BY <1>1, <1>3, SubSeqEmpty DEF Drop
  <2>. QED  BY <1>1, <1>3, <2>2, <2>3, ConcatEmptySeq, EmptySeq
<1>. QED  BY <1>1, <1>2, <1>3

\* What a buffer parses to, and the rest.
LEMMA ParsedUnparsed ==
  ASSUME NEW kinds, NEW buf \in Seq(Nat)
  PROVE  /\ Parsed(kinds, buf) \in Seq(Nat) /\ Unparsed(kinds, buf) \in Seq(Nat)
         /\ Parsed(kinds, buf) \o Unparsed(kinds, buf) = buf
<1>1. Len(buf) \in Nat /\ (buf # <<>> => Len(buf) > 0)
  BY LenProperties, EmptySeq
<1>2. Complete(kinds, buf) \in 0..Len(buf)
  BY <1>1 DEF Complete
<1>. QED  BY <1>2, CutInTwo DEF Parsed, Unparsed

-----------------------------------------------------------------------------
(* The loop of process_batch.                                              *)

\* One command more, in a loop whose output so far is f.
OneMore(kinds, cmds, f, i) ==
  IF i = 0 THEN <<>>
  ELSE IF Ended(kinds, cmds, i) THEN f[i - 1] ELSE f[i - 1] \o Reply(kinds, cmds[i])
Runs(kinds, cmds, f, n) == f = [i \in 0..n |-> OneMore(kinds, cmds, f, i)]

\* What it has after each.
LEMMA RunsAt ==
  ASSUME NEW kinds, NEW cmds, NEW f, NEW n, Runs(kinds, cmds, f, n), NEW i \in 0..n
  PROVE  f[i] = OneMore(kinds, cmds, f, i)
<1>. DEFINE F == [j \in 0..n |-> OneMore(kinds, cmds, f, j)]
<1>1. f = F
  BY DEF Runs
<1>2. F[i] = OneMore(kinds, cmds, f, i)
  OBVIOUS
<1>. QED  BY <1>1, <1>2

\* The loop runs to any number of commands.
LEMMA LoopRuns ==
  ASSUME NEW kinds, NEW cmds, NEW n \in Nat
  PROVE  \E f : Runs(kinds, cmds, f, n)
<1>. DEFINE Bad == {m \in Nat : ~\E f : Runs(kinds, cmds, f, m)}
<1>1. CASE Bad = {}
  BY <1>1
<1>2. CASE Bad # {}
  <2>1. PICK m \in Bad : \A k \in Bad : m <= k
    <3>1. Bad \subseteq Nat
      OBVIOUS
    <3>. HIDE DEF Bad
    <3>. QED  BY <1>2, <3>1, LeastNumber
  <2>2. m \in Nat /\ ~\E f : Runs(kinds, cmds, f, m)
    BY <2>1
  <2>3. m # 0
    <3>. DEFINE f == [i \in {0} |-> <<>>]
    <3>1. 0..0 = {0}
      OBVIOUS
    <3>2. f = [i \in 0..0 |-> OneMore(kinds, cmds, f, i)]
      BY <3>1 DEF OneMore
    <3>. QED  BY <2>2, <3>2 DEF Runs
  <2>4. PICK f : Runs(kinds, cmds, f, m - 1)
    <3>1. m - 1 \in Nat /\ ~(m <= m - 1)
      BY <2>2, <2>3
    <3>. QED  BY <2>1, <3>1
  <2>. DEFINE g == [i \in 0..m |-> OneMore(kinds, cmds, f, i)]
  <2>5. \A i \in 0..m - 1 : g[i] = f[i]
    <3>. SUFFICES ASSUME NEW i \in 0..m - 1 PROVE g[i] = f[i]
      OBVIOUS
    <3>1. f[i] = OneMore(kinds, cmds, f, i)
      BY <2>4, RunsAt
    <3>2. i \in 0..m
      BY <2>2
    <3>. QED  BY <3>1, <3>2
  <2>6. \A i \in 0..m : OneMore(kinds, cmds, f, i) = OneMore(kinds, cmds, g, i)
    <3>. HIDE DEF g
    <3>1. \A i \in 0..m : i # 0 => i - 1 \in 0..m - 1
      BY <2>2
    <3>. QED  BY <2>5, <3>1 DEF OneMore
  <2>7. g = [i \in 0..m |-> OneMore(kinds, cmds, g, i)]
    <3>1. [i \in 0..m |-> OneMore(kinds, cmds, f, i)] = [i \in 0..m |-> OneMore(kinds, cmds, g, i)]
      <4>. HIDE DEF g
      <4>. QED  BY <2>6
    <3>. QED  BY <3>1
  <2>. QED  BY <2>2, <2>7 DEF Runs
<1>. QED  BY <1>1, <1>2

\* Two loops that run the same commands so far have the same output so far.
LEMMA LoopsAgree ==
  ASSUME NEW kinds, NEW a, NEW b, NEW f, NEW g, NEW p \in Nat, NEW q \in Nat,
         Runs(kinds, a, f, p), Runs(kinds, b, g, q),
         NEW n \in Nat, n <= p, n <= q, \A i \in 1..n : a[i] = b[i]
  PROVE  f[n] = g[n]
<1>. DEFINE Bad == {i \in 0..n : f[i] # g[i]}
<1>1. CASE Bad = {}
  BY <1>1
<1>2. CASE Bad # {}
  <2>1. PICK m \in Bad : \A k \in Bad : m <= k
    <3>1. Bad \subseteq Nat
      OBVIOUS
    <3>. HIDE DEF Bad
    <3>. QED  BY <1>2, <3>1, LeastNumber
  <2>2. m \in 0..n /\ f[m] # g[m]
    BY <2>1
  <2>3. f[m] = OneMore(kinds, a, f, m) /\ g[m] = OneMore(kinds, b, g, m)
    <3>1. m \in 0..p /\ m \in 0..q
      BY <2>2
    <3>. QED  BY <3>1, RunsAt
  <2>4. m # 0
    BY <2>2, <2>3 DEF OneMore
  <2>5. f[m - 1] = g[m - 1]
    <3>1. m - 1 \in 0..n /\ ~(m <= m - 1)
      BY <2>2, <2>4
    <3>. QED  BY <2>1, <3>1
  <2>6. \A j \in 1..m : a[j] = b[j]
    BY <2>2
  <2>7. Ended(kinds, a, m) <=> Ended(kinds, b, m)
    BY <2>6 DEF Ended
  <2>8. a[m] = b[m]
    BY <2>2, <2>4, <2>6
  <2>. QED  BY <2>2, <2>3, <2>4, <2>5, <2>7, <2>8 DEF OneMore
<1>. QED  BY <1>1, <1>2

\* Output is what such a loop ends with.
LEMMA OutputIs ==
  ASSUME NEW kinds, NEW cmds, Len(cmds) \in Nat
  PROVE  \E f : Runs(kinds, cmds, f, Len(cmds)) /\ Output(kinds, cmds) = f[Len(cmds)]
<1>. DEFINE F == CHOOSE f : Runs(kinds, cmds, f, Len(cmds))
<1>1. Runs(kinds, cmds, F, Len(cmds))
  BY LoopRuns
<1>2. Output(kinds, cmds) = F[Len(cmds)]
  BY DEF Output, Runs, OneMore
<1>. HIDE DEF F
<1>. QED  BY <1>1, <1>2

\* No command, no reply.
LEMMA NoOutput == ASSUME NEW kinds PROVE Output(kinds, <<>>) = <<>>
<1>1. Len(<<>>) = 0
  BY EmptySeq
<1>2. PICK f : Runs(kinds, <<>>, f, 0) /\ Output(kinds, <<>>) = f[0]
  BY <1>1, OutputIs
<1>. QED  BY <1>2 DEF Runs, OneMore

\* A command adds its reply, unless the batch ended before it.
LEMMA OutputGrows ==
  ASSUME NEW kinds, NEW cmds \in Seq(Nat), NEW n \in Nat
  PROVE  Output(kinds, Append(cmds, n))
           = IF Ended(kinds, Append(cmds, n), Len(cmds) + 1) THEN Output(kinds, cmds)
             ELSE Output(kinds, cmds) \o Reply(kinds, n)
<1>. DEFINE more == Append(cmds, n)
            l == Len(cmds)
<1>1. /\ l \in Nat /\ Len(more) = l + 1 /\ more[l + 1] = n /\ \A i \in 1..l : more[i] = cmds[i]
  BY LenProperties, AppendProperties
<1>2. PICK f : Runs(kinds, cmds, f, l) /\ Output(kinds, cmds) = f[l]
  BY <1>1, OutputIs
<1>. HIDE DEF more, l
<1>3. PICK g : Runs(kinds, more, g, l + 1) /\ Output(kinds, more) = g[l + 1]
  <2>1. Len(more) \in Nat
    BY <1>1
  <2>2. PICK g : Runs(kinds, more, g, Len(more)) /\ Output(kinds, more) = g[Len(more)]
    BY <2>1, OutputIs
  <2>. QED  BY <1>1, <2>2
<1>4. f[l] = g[l]
  BY <1>1, <1>2, <1>3, LoopsAgree
<1>5. g[l + 1] = OneMore(kinds, more, g, l + 1)
  <2>1. l + 1 \in 0..l + 1
    BY <1>1
  <2>. QED  BY <1>3, <2>1, RunsAt
<1>6. g[l + 1] = IF Ended(kinds, more, l + 1) THEN g[l] ELSE g[l] \o Reply(kinds, n)
  BY <1>1, <1>5 DEF OneMore
<1>. QED  BY <1>2, <1>3, <1>4, <1>6 DEF more, l

-----------------------------------------------------------------------------
(* What a client reads of its first pieces.                                *)

\* The pieces after the mth up to the pth.
Run(m, p) == [i \in 1..(p - m) |-> m + i]

\* The replies to the first m pieces of such a script.
Full(kinds, m) == Output(kinds, Run(0, m))

\* No QUIT and no SUBSCRIBE among the first m pieces.
Unstopped(kinds, m) == \A i \in 1..m : kinds[i] \notin {"quit", "sub"}

\* A script that ScriptsEnd allows.
Ends(kinds) ==
  /\ kinds \in Seq({"read", "write", "part", "quit", "sub"})
  /\ \A i \in 1..Len(kinds) - 1 : kinds[i] # "sub"

\* A run is a sequence, ...
LEMMA RunIs ==
  ASSUME NEW m \in Nat, NEW p \in Nat, m <= p
  PROVE  /\ Run(m, p) \in Seq(Nat) /\ Len(Run(m, p)) = p - m
         /\ \A i \in 1..p - m : Run(m, p)[i] = m + i
<1>1. p - m \in Nat /\ \A i \in 1..p - m : m + i \in Nat
  OBVIOUS
<1>2. Run(m, p) \in [1..p - m -> Nat]
  BY <1>1 DEF Run
<1>3. Run(m, p) \in Seq(Nat)
  BY <1>1, <1>2, SeqDef
<1>4. DOMAIN Run(m, p) = 1..p - m
  BY DEF Run
<1>5. Len(Run(m, p)) = p - m
  BY <1>1, <1>3, <1>4, LenProperties
<1>. QED  BY <1>3, <1>5 DEF Run

\* ... that starts empty, ...
LEMMA EmptyRun == ASSUME NEW m \in Nat PROVE Run(m, m) = <<>>
<1>1. Run(m, m) \in Seq(Nat) /\ Len(Run(m, m)) = 0
  BY RunIs
<1>. QED  BY <1>1, EmptySeq

\* ... grows by one piece, ...
LEMMA RunGrows ==
  ASSUME NEW m \in Nat, NEW p \in Nat, m <= p
  PROVE  Run(m, p + 1) = Append(Run(m, p), p + 1)
<1>1. /\ Run(m, p) \in Seq(Nat) /\ Len(Run(m, p)) = p - m
      /\ \A i \in 1..p - m : Run(m, p)[i] = m + i
  BY RunIs
<1>2. /\ Run(m, p + 1) \in Seq(Nat) /\ Len(Run(m, p + 1)) = p + 1 - m
      /\ \A i \in 1..p + 1 - m : Run(m, p + 1)[i] = m + i
  <2>1. p + 1 \in Nat /\ m <= p + 1
    OBVIOUS
  <2>. QED  BY <2>1, RunIs
<1>. DEFINE s == Append(Run(m, p), p + 1)
<1>3. /\ s \in Seq(Nat) /\ Len(s) = p - m + 1 /\ s[p - m + 1] = p + 1
      /\ \A i \in 1..p - m : s[i] = m + i
  <2>1. p + 1 \in Nat
    OBVIOUS
  <2>. HIDE DEF s
  <2>2. /\ Append(Run(m, p), p + 1) \in Seq(Nat)
        /\ Len(Append(Run(m, p), p + 1)) = Len(Run(m, p)) + 1
        /\ \A i \in 1..Len(Run(m, p)) : Append(Run(m, p), p + 1)[i] = Run(m, p)[i]
        /\ Append(Run(m, p), p + 1)[Len(Run(m, p)) + 1] = p + 1
    BY ONLY <1>1, <2>1, AppendProperties
  <2>. QED  BY <1>1, <2>2 DEF s
<1>. HIDE DEF s
<1>4. \A i \in 1..p + 1 - m : Run(m, p + 1)[i] = s[i]
  <2>. SUFFICES ASSUME NEW i \in 1..p + 1 - m PROVE Run(m, p + 1)[i] = s[i]
    OBVIOUS
  <2>1. Run(m, p + 1)[i] = m + i
    BY <1>2
  <2>2. CASE i = p - m + 1
    <3>1. m + i = p + 1
      BY <2>2
    <3>. QED  BY <1>3, <2>1, <2>2, <3>1
  <2>3. CASE i # p - m + 1
    <3>1. i \in 1..p - m
      BY <2>3
    <3>. QED  BY <1>3, <2>1, <3>1
  <2>. QED  BY <2>2, <2>3
<1>5. Len(s) = Len(Run(m, p + 1))
  BY <1>2, <1>3
<1>6. Run(m, p + 1) = s
  BY <1>2, <1>3, <1>4, <1>5, SeqEqual
<1>. QED  BY <1>6 DEF s

\* ... and is cut into runs.
Joins(a, b, s) == a \o b = s

\* So are both parts.
LEMMA RunIsCut ==
  ASSUME NEW a \in Seq(Nat), NEW b \in Seq(Nat), NEW m \in Nat, NEW p \in Nat, m <= p,
         Joins(a, b, Run(m, p))
  PROVE  \E q \in m..p : a = Run(m, q) /\ b = Run(q, p)
<1>. DEFINE q == m + Len(a)
<1>1. Len(a) \in Nat /\ Len(b) \in Nat
  BY LenProperties
<1>2. /\ Len(Run(m, p)) = p - m /\ \A i \in 1..p - m : Run(m, p)[i] = m + i
  BY RunIs
<1>3. /\ Len(a) + Len(b) = p - m
      /\ \A i \in 1..Len(a) + Len(b) : Run(m, p)[i] = IF i <= Len(a) THEN a[i] ELSE b[i - Len(a)]
  <2>1. /\ Len(a \o b) = Len(a) + Len(b)
        /\ \A i \in 1..Len(a) + Len(b) : (a \o b)[i] = IF i <= Len(a) THEN a[i] ELSE b[i - Len(a)]
    BY ConcatProperties
  <2>. QED  BY <1>2, <2>1 DEF Joins
<1>4. q \in m..p /\ q \in Nat /\ m <= q /\ q <= p
  BY <1>1, <1>3
<1>5. /\ Run(m, q) \in Seq(Nat) /\ Len(Run(m, q)) = Len(a) /\ \A i \in 1..Len(a) : Run(m, q)[i] = m + i
  <2>1. q - m = Len(a)
    BY <1>1
  <2>2. /\ Run(m, q) \in Seq(Nat) /\ Len(Run(m, q)) = q - m
        /\ \A i \in 1..q - m : Run(m, q)[i] = m + i
    <3>. HIDE DEF q
    <3>. QED  BY <1>4, RunIs
  <2>. QED  BY <2>1, <2>2
<1>6. /\ Run(q, p) \in Seq(Nat) /\ Len(Run(q, p)) = Len(b) /\ \A i \in 1..Len(b) : Run(q, p)[i] = q + i
  <2>1. p - q = Len(b)
    BY <1>1, <1>3
  <2>2. /\ Run(q, p) \in Seq(Nat) /\ Len(Run(q, p)) = p - q
        /\ \A i \in 1..p - q : Run(q, p)[i] = q + i
    <3>. HIDE DEF q
    <3>. QED  BY <1>4, RunIs
  <2>. QED  BY <2>1, <2>2
<1>7. ASSUME NEW i \in 1..Len(a) PROVE a[i] = Run(m, q)[i]
  <2>1. i \in 1..Len(a) + Len(b) /\ i \in 1..p - m /\ i <= Len(a)
    BY <1>1, <1>3
  <2>. QED  BY <1>2, <1>3, <1>5, <2>1
<1>8. ASSUME NEW i \in 1..Len(b) PROVE b[i] = Run(q, p)[i]
  <2>. DEFINE j == i + Len(a)
  <2>1. j \in 1..Len(a) + Len(b) /\ j \in 1..p - m /\ ~(j <= Len(a)) /\ j - Len(a) = i /\ m + j = q + i
    BY <1>1, <1>3
  <2>. HIDE DEF j
  <2>2. Run(m, p)[j] = m + j /\ Run(m, p)[j] = b[j - Len(a)]
    BY <1>2, <1>3, <2>1
  <2>. QED  BY <1>6, <2>1, <2>2
<1>. HIDE DEF q
<1>9. a = Run(m, q)
  BY <1>5, <1>7, SeqEqual
<1>10. b = Run(q, p)
  BY <1>6, <1>8, SeqEqual
<1>. QED  BY <1>4, <1>9, <1>10

\* A reply is a sequence of units.
LEMMA ReplyIs == ASSUME NEW kinds, NEW n \in Nat PROVE Reply(kinds, n) \in Seq(Nat)
<1>. DEFINE l == IF kinds[n] = "part" THEN Big ELSE 1
<1>1. l \in Nat
  BY LimitsAreNumbers
<1>2. Reply(kinds, n) \in [1..l -> Nat]
  BY DEF Reply
<1>. HIDE DEF l
<1>. QED  BY <1>1, <1>2, SeqDef

\* One piece more.
LEMMA OutputOfRun ==
  ASSUME NEW kinds, NEW m \in Nat, NEW p \in Nat, m <= p
  PROVE  LET over == \E j \in m + 1..p + 1 : \/ kinds[j] = "sub"
                                             \/ j < p + 1 /\ kinds[j] = "quit"
         IN  Output(kinds, Run(m, p + 1))
               = IF over THEN Output(kinds, Run(m, p))
                 ELSE Output(kinds, Run(m, p)) \o Reply(kinds, p + 1)
<1>. DEFINE over == \E j \in m + 1..p + 1 : kinds[j] = "sub" \/ (j < p + 1 /\ kinds[j] = "quit")
<1>1. Run(m, p) \in Seq(Nat) /\ Len(Run(m, p)) = p - m
  BY RunIs
<1>2. Run(m, p + 1) = Append(Run(m, p), p + 1) /\ p + 1 \in Nat /\ m <= p + 1
  <2>1. Run(m, p + 1) = Append(Run(m, p), p + 1)
    BY RunGrows
  <2>. QED  BY <2>1
<1>3. Output(kinds, Run(m, p + 1))
        = IF Ended(kinds, Run(m, p + 1), p - m + 1) THEN Output(kinds, Run(m, p))
          ELSE Output(kinds, Run(m, p)) \o Reply(kinds, p + 1)
  <2>1. Output(kinds, Append(Run(m, p), p + 1))
          = IF Ended(kinds, Append(Run(m, p), p + 1), Len(Run(m, p)) + 1) THEN Output(kinds, Run(m, p))
            ELSE Output(kinds, Run(m, p)) \o Reply(kinds, p + 1)
    BY <1>1, <1>2, OutputGrows
  <2>. QED  BY <1>1, <1>2, <2>1
<1>4. \A i \in 1..p - m + 1 : Run(m, p + 1)[i] = m + i
  <2>1. p + 1 - m = p - m + 1
    OBVIOUS
  <2>2. \A i \in 1..p + 1 - m : Run(m, p + 1)[i] = m + i
    BY <1>2, RunIs
  <2>. QED  BY <2>1, <2>2
<1>5. Ended(kinds, Run(m, p + 1), p - m + 1) <=> over
  <2>1. ASSUME NEW i \in 1..p - m + 1, \/ kinds[m + i] = "sub"
                                       \/ i < p - m + 1 /\ kinds[m + i] = "quit"
        PROVE  over
    <3>1. m + i \in m + 1..p + 1 /\ (i < p - m + 1 => m + i < p + 1)
      OBVIOUS
    <3>. QED  BY <2>1, <3>1
  <2>2. ASSUME NEW j \in m + 1..p + 1, kinds[j] = "sub" \/ (j < p + 1 /\ kinds[j] = "quit")
        PROVE  \E i \in 1..p - m + 1 : kinds[m + i] = "sub" \/ (i < p - m + 1 /\ kinds[m + i] = "quit")
    <3>1. j - m \in 1..p - m + 1 /\ m + (j - m) = j /\ (j < p + 1 => j - m < p - m + 1)
      OBVIOUS
    <3>. QED  BY <2>2, <3>1
  <2>. QED  BY <1>4, <2>1, <2>2 DEF Ended
<1>. QED  BY <1>3, <1>5

\* The output of any commands is a sequence of units.
LEMMA OutputIsUnits == ASSUME NEW kinds, NEW cmds \in Seq(Nat) PROVE Output(kinds, cmds) \in Seq(Nat)
<1>1. Len(cmds) \in Nat /\ \A i \in 1..Len(cmds) : cmds[i] \in Nat
  BY LenProperties
<1>2. PICK l \in Nat : l = Len(cmds)
  BY <1>1
<1>3. PICK f : Runs(kinds, cmds, f, l) /\ Output(kinds, cmds) = f[l]
  BY <1>1, <1>2, OutputIs
<1>. DEFINE Bad == {q \in 0..l : f[q] \notin Seq(Nat)}
<1>4. CASE Bad = {}
  BY <1>3, <1>4
<1>5. CASE Bad # {}
  <2>1. PICK q \in Bad : \A k \in Bad : q <= k
    <3>1. Bad \subseteq Nat
      OBVIOUS
    <3>. HIDE DEF Bad
    <3>. QED  BY <1>5, <3>1, LeastNumber
  <2>2. q \in 0..l /\ f[q] \notin Seq(Nat)
    BY <2>1
  <2>3. f[q] = OneMore(kinds, cmds, f, q)
    BY <1>3, <2>2, RunsAt
  <2>4. q # 0
    BY <2>2, <2>3 DEF OneMore
  <2>5. q - 1 \in 0..l /\ ~(q <= q - 1) /\ q \in 1..l
    BY <2>2, <2>4
  <2>6. f[q - 1] \in Seq(Nat)
    BY <2>1, <2>5
  <2>7. Reply(kinds, cmds[q]) \in Seq(Nat)
    BY <1>1, <1>2, <2>5, ReplyIs
  <2>8. f[q] = f[q - 1] \/ f[q] = f[q - 1] \o Reply(kinds, cmds[q])
    BY <2>3, <2>4 DEF OneMore
  <2>. QED  BY <2>2, <2>6, <2>7, <2>8, ConcatProperties
<1>. QED  BY <1>4, <1>5

\* The output of a run, too.
LEMMA OutputIsSeq ==
  ASSUME NEW kinds, NEW m \in Nat, NEW p \in Nat, m <= p
  PROVE  Output(kinds, Run(m, p)) \in Seq(Nat)
BY RunIs, OutputIsUnits

\* The replies to the pieces after those so far follow the replies so far.
LEMMA FullGrows ==
  ASSUME NEW kinds, NEW m \in Nat, NEW p \in Nat, m <= p, Unstopped(kinds, m)
  PROVE  Full(kinds, m) \o Output(kinds, Run(m, p)) = Full(kinds, p)
<1>. DEFINE Bad == {q \in Nat : m <= q /\ Full(kinds, m) \o Output(kinds, Run(m, q)) # Full(kinds, q)}
<1>0. Full(kinds, m) \in Seq(Nat)
  <2>1. 0 \in Nat /\ 0 <= m
    OBVIOUS
  <2>. QED  BY <2>1, OutputIsSeq DEF Full
<1>1. CASE Bad = {}
  BY <1>1
<1>2. CASE Bad # {}
  <2>1. PICK q \in Bad : \A k \in Bad : q <= k
    <3>1. Bad \subseteq Nat
      OBVIOUS
    <3>. HIDE DEF Bad
    <3>. QED  BY <1>2, <3>1, LeastNumber
  <2>2. q \in Nat /\ m <= q /\ Full(kinds, m) \o Output(kinds, Run(m, q)) # Full(kinds, q)
    BY <2>1
  <2>3. q # m
    <3>1. Output(kinds, Run(m, m)) = <<>>
      BY EmptyRun, NoOutput
    <3>. QED  BY <1>0, <2>2, <3>1, ConcatEmptySeq
  <2>4. q - 1 \in Nat /\ m <= q - 1 /\ ~(q <= q - 1) /\ (q - 1) + 1 = q
    BY <2>2, <2>3
  <2>. DEFINE before == Output(kinds, Run(m, q - 1))
  <2>5. Full(kinds, m) \o before = Full(kinds, q - 1)
    BY <2>1, <2>4
  <2>6. before \in Seq(Nat) /\ Reply(kinds, q) \in Seq(Nat)
    BY <2>2, <2>4, OutputIsSeq, ReplyIs
  <2>. DEFINE over == \E j \in m + 1..q : kinds[j] = "sub" \/ (j < q /\ kinds[j] = "quit")
  <2>7. Output(kinds, Run(m, q)) = IF over THEN before ELSE before \o Reply(kinds, q)
    <3>1. LET o == \E j \in m + 1..(q - 1) + 1 : kinds[j] = "sub" \/ (j < (q - 1) + 1 /\ kinds[j] = "quit")
          IN  Output(kinds, Run(m, (q - 1) + 1))
                = IF o THEN Output(kinds, Run(m, q - 1))
                  ELSE Output(kinds, Run(m, q - 1)) \o Reply(kinds, (q - 1) + 1)
      BY <2>4, OutputOfRun
    <3>. QED  BY <2>4, <3>1
  <2>8. Full(kinds, q) = IF over THEN Full(kinds, q - 1) ELSE Full(kinds, q - 1) \o Reply(kinds, q)
    <3>. DEFINE over0 == \E j \in 0 + 1..q : kinds[j] = "sub" \/ (j < q /\ kinds[j] = "quit")
    <3>1. LET o == \E j \in 0 + 1..(q - 1) + 1 : kinds[j] = "sub" \/ (j < (q - 1) + 1 /\ kinds[j] = "quit")
          IN  Output(kinds, Run(0, (q - 1) + 1))
                = IF o THEN Output(kinds, Run(0, q - 1))
                  ELSE Output(kinds, Run(0, q - 1)) \o Reply(kinds, (q - 1) + 1)
      <4>1. 0 \in Nat /\ 0 <= q - 1
        BY <2>4
      <4>. QED  BY <2>4, <4>1, OutputOfRun
    <3>2. Full(kinds, q) = IF over0 THEN Full(kinds, q - 1) ELSE Full(kinds, q - 1) \o Reply(kinds, q)
      BY <2>4, <3>1 DEF Full
    <3>3. over0 <=> over
      <4>1. ASSUME NEW j \in 0 + 1..q, kinds[j] = "sub" \/ (j < q /\ kinds[j] = "quit")
            PROVE  j \in m + 1..q
        <5>1. kinds[j] \in {"quit", "sub"}
          BY <4>1
        <5>2. j \notin 1..m
          BY <5>1 DEF Unstopped
        <5>. QED  BY <2>2, <5>2
      <4>2. m + 1..q \subseteq 0 + 1..q
        OBVIOUS
      <4>. QED  BY <4>1, <4>2
    <3>. QED  BY <3>2, <3>3
  <2>. HIDE DEF over, before
  <2>9. Full(kinds, m) \o (before \o Reply(kinds, q)) = (Full(kinds, m) \o before) \o Reply(kinds, q)
    <3>. DEFINE a == Full(kinds, m)
                c == Reply(kinds, q)
    <3>1. a \in Seq(Nat) /\ before \in Seq(Nat) /\ c \in Seq(Nat)
      BY <1>0, <2>6
    <3>. HIDE DEF a, c
    <3>2. (a \o before) \o c = a \o (before \o c)
      BY ONLY <3>1, Regroup
    <3>. QED  BY <3>2 DEF a, c
  <2>. QED  BY <2>2, <2>5, <2>7, <2>8, <2>9
<1>. QED  BY <1>1, <1>2

\* Nothing follows the reply to a QUIT.
LEMMA FullStops ==
  ASSUME NEW kinds, NEW q \in Nat \ {0}, kinds[q] = "quit", NEW p \in Nat, q <= p
  PROVE  Full(kinds, p) = Full(kinds, q)
<1>. DEFINE Bad == {r \in Nat : q <= r /\ Full(kinds, r) # Full(kinds, q)}
<1>1. CASE Bad = {}
  BY <1>1
<1>2. CASE Bad # {}
  <2>1. PICK r \in Bad : \A k \in Bad : r <= k
    <3>1. Bad \subseteq Nat
      OBVIOUS
    <3>. HIDE DEF Bad
    <3>. QED  BY <1>2, <3>1, LeastNumber
  <2>2. r \in Nat /\ q <= r /\ r # q /\ Full(kinds, r) # Full(kinds, q)
    BY <2>1
  <2>3. r - 1 \in Nat /\ 0 <= r - 1 /\ q <= r - 1 /\ ~(r <= r - 1) /\ (r - 1) + 1 = r
    BY <2>2
  <2>4. Full(kinds, r - 1) = Full(kinds, q)
    BY <2>1, <2>3
  <2>5. LET o == \E j \in 0 + 1..(r - 1) + 1 : kinds[j] = "sub" \/ (j < (r - 1) + 1 /\ kinds[j] = "quit")
        IN  Output(kinds, Run(0, (r - 1) + 1))
              = IF o THEN Output(kinds, Run(0, r - 1))
                ELSE Output(kinds, Run(0, r - 1)) \o Reply(kinds, (r - 1) + 1)
    BY <2>3, OutputOfRun
  <2>6. q \in 0 + 1..(r - 1) + 1 /\ q < (r - 1) + 1
    BY <2>2
  <2>7. Full(kinds, r) = Full(kinds, r - 1)
    BY <2>3, <2>5, <2>6 DEF Full
  <2>. QED  BY <2>2, <2>4, <2>7
<1>. QED  BY <1>1, <1>2

\* A script's last reply comes with its first QUIT or its SUBSCRIBE.
Stops(kinds, end, w) ==
  \E m \in 1..Len(kinds) : Unstopped(kinds, m - 1) /\ kinds[m] = end /\ w = Full(kinds, m)

\* After a batch the client has the replies to all pieces so far, or all.
LEMMA BatchMoves ==
  ASSUME NEW kinds, Ends(kinds), NEW m \in Nat, NEW p \in Nat, m <= p, p <= Len(kinds),
         Unstopped(kinds, m)
  PROVE  LET cmds == Run(m, p)
             end == BatchEnd(kinds, cmds)
         IN  /\ Full(kinds, m) \o Output(kinds, cmds) = Full(kinds, p)
             /\ end \in {"continue", "quit", "sub"}
             /\ end = "continue" => Unstopped(kinds, p)
             /\ end # "continue" => Stops(kinds, end, Full(kinds, p))
<1>. DEFINE cmds == Run(m, p)
            end == BatchEnd(kinds, cmds)
<1>1. Len(kinds) \in Nat
  BY LenProperties DEF Ends
<1>2. /\ Len(cmds) = p - m /\ \A i \in 1..p - m : cmds[i] = m + i
      /\ DOMAIN cmds = 1..p - m
  BY RunIs DEF Run
<1>3. Full(kinds, m) \o Output(kinds, cmds) = Full(kinds, p)
  BY FullGrows
<1>4. end \in {"continue", "quit", "sub"}
  BY DEF BatchEnd
<1>5. ASSUME NEW kind
      PROVE  (\E i \in DOMAIN cmds : kinds[cmds[i]] = kind) <=> \E j \in m + 1..p : kinds[j] = kind
  <2>1. \A i \in 1..p - m : m + i \in m + 1..p
    OBVIOUS
  <2>2. \A j \in m + 1..p : j - m \in 1..p - m /\ m + (j - m) = j
    OBVIOUS
  <2>. HIDE DEF cmds
  <2>3. ASSUME NEW i \in DOMAIN cmds, kinds[cmds[i]] = kind
        PROVE  \E j \in m + 1..p : kinds[j] = kind
    BY <1>2, <2>1, <2>3
  <2>4. ASSUME NEW j \in m + 1..p, kinds[j] = kind
        PROVE  \E i \in DOMAIN cmds : kinds[cmds[i]] = kind
    <3>1. cmds[j - m] = j
      BY <1>2, <2>2
    <3>. QED  BY <1>2, <2>2, <2>4, <3>1
  <2>. QED  BY <2>3, <2>4
<1>6. ASSUME end = "continue" PROVE Unstopped(kinds, p)
  <2>1. \A j \in m + 1..p : kinds[j] \notin {"quit", "sub"}
    BY <1>5, <1>6 DEF BatchEnd
  <2>2. \A i \in 1..p : i \in 1..m \/ i \in m + 1..p
    OBVIOUS
  <2>. QED  BY <2>1, <2>2 DEF Unstopped
<1>7. ASSUME end = "quit" PROVE Stops(kinds, "quit", Full(kinds, p))
  <2>. DEFINE Quits == {j \in m + 1..p : kinds[j] = "quit"}
  <2>1. Quits # {} /\ Quits \subseteq Nat
    <3>1. \E i \in DOMAIN cmds : kinds[cmds[i]] = "quit"
      BY <1>7 DEF BatchEnd
    <3>2. \E j \in m + 1..p : kinds[j] = "quit"
      BY <1>5, <3>1
    <3>. QED  BY <3>2
  <2>2. PICK q \in Quits : \A j \in Quits : q <= j
    <3>. HIDE DEF Quits
    <3>. QED  BY <2>1, LeastNumber
  <2>3. q \in m + 1..p /\ kinds[q] = "quit"
    BY <2>2
  <2>4. q \in 1..Len(kinds) /\ q \in Nat \ {0} /\ q <= p
    BY <1>1, <2>3
  <2>5. ASSUME NEW i \in 1..q - 1 PROVE kinds[i] \notin {"quit", "sub"}
    <3>1. CASE i \in 1..m
      BY <3>1 DEF Unstopped
    <3>2. CASE i \notin 1..m
      <4>1. i \in m + 1..p /\ ~(q <= i) /\ i \in 1..Len(kinds) - 1
        BY <1>1, <2>3, <3>2
      <4>2. i \notin Quits
        BY <2>2, <4>1
      <4>. QED  BY <4>1, <4>2 DEF Ends
    <3>. QED  BY <3>1, <3>2
  <2>6. Unstopped(kinds, q - 1)
    BY <2>5 DEF Unstopped
  <2>7. Full(kinds, p) = Full(kinds, q)
    BY <2>3, <2>4, FullStops
  <2>. QED  BY <2>3, <2>4, <2>6, <2>7 DEF Stops
<1>8. ASSUME end = "sub" PROVE Stops(kinds, "sub", Full(kinds, p))
  <2>1. PICK j \in m + 1..p : kinds[j] = "sub"
    <3>1. \E i \in DOMAIN cmds : kinds[cmds[i]] = "sub"
      BY <1>8 DEF BatchEnd
    <3>. QED  BY <1>5, <3>1
  <2>2. \A i \in m + 1..p : kinds[i] # "quit"
    <3>1. ~\E i \in DOMAIN cmds : kinds[cmds[i]] = "quit"
      BY <1>8 DEF BatchEnd
    <3>. QED  BY <1>5, <3>1
  <2>3. j = Len(kinds) /\ p = Len(kinds) /\ p \in 1..Len(kinds)
    <3>1. j \notin 1..Len(kinds) - 1
      BY <2>1 DEF Ends
    <3>. QED  BY <1>1, <2>1, <3>1
  <2>4. ASSUME NEW i \in 1..p - 1 PROVE kinds[i] \notin {"quit", "sub"}
    <3>1. CASE i \in 1..m
      BY <3>1 DEF Unstopped
    <3>2. CASE i \notin 1..m
      <4>1. i \in m + 1..p /\ i \in 1..Len(kinds) - 1
        BY <2>3, <3>2
      <4>. QED  BY <2>2, <4>1 DEF Ends
    <3>. QED  BY <3>1, <3>2
  <2>5. Unstopped(kinds, p - 1)
    BY <2>4 DEF Unstopped
  <2>. QED  BY <2>1, <2>3, <2>5 DEF Stops
<1>. QED  BY <1>3, <1>4, <1>6, <1>7, <1>8

\* What a client should read begins with the replies so far, ...
Wanted(kinds) == Output(kinds, Whole(kinds)) \o Acks(kinds)

\* ... which are sequences.
LEMMA WantedIs ==
  ASSUME NEW kinds, Ends(kinds)
  PROVE  /\ Len(kinds) \in Nat /\ Whole(kinds) = Run(0, Len(kinds))
         /\ Wanted(kinds) = Full(kinds, Len(kinds)) \o Acks(kinds)
         /\ Acks(kinds) \in Seq(Nat)
         /\ \A p \in 0..Len(kinds) : Full(kinds, p) \in Seq(Nat)
<1>1. Len(kinds) \in Nat
  BY LenProperties DEF Ends
<1>2. Whole(kinds) = Run(0, Len(kinds))
  <2>1. \A i \in 1..Len(kinds) : 0 + i = i
    OBVIOUS
  <2>2. Len(kinds) - 0 = Len(kinds)
    BY <1>1
  <2>. QED  BY <2>1, <2>2 DEF Whole, Run
<1>3. Acks(kinds) \in Seq(Nat)
  BY <1>1, ReplyIs, EmptySeq DEF Acks
<1>4. \A p \in 0..Len(kinds) : Full(kinds, p) \in Seq(Nat)
  BY <1>1, OutputIsSeq DEF Full
<1>. QED  BY <1>1, <1>2, <1>3, <1>4 DEF Wanted, Full

\* The replies to pieces without a QUIT or a SUBSCRIBE are such a beginning.
LEMMA FullBegins ==
  ASSUME NEW kinds, Ends(kinds), NEW m \in 0..Len(kinds), Unstopped(kinds, m)
  PROVE  \E rest \in Seq(Nat) : Full(kinds, m) \o rest = Wanted(kinds)
<1>. DEFINE n == Len(kinds)
            a == Full(kinds, m)
            b == Output(kinds, Run(m, n))
            c == Acks(kinds)
<1>1. m \in Nat /\ n \in Nat /\ m <= n
  BY WantedIs
<1>2. a \o b = Full(kinds, n)
  BY <1>1, FullGrows
<1>3. a \in Seq(Nat) /\ b \in Seq(Nat) /\ c \in Seq(Nat) /\ Wanted(kinds) = Full(kinds, n) \o c
  BY <1>1, WantedIs, OutputIsSeq
<1>. HIDE DEF n, a, b, c
<1>4. b \o c \in Seq(Nat) /\ a \o (b \o c) = (a \o b) \o c
  BY <1>3, ConcatProperties, Regroup
<1>5. a \o (b \o c) = Wanted(kinds)
  BY <1>2, <1>3, <1>4
<1>. QED  BY <1>4, <1>5 DEF a

\* The replies up to a QUIT are all of it, those up to a SUBSCRIBE all but its own.
LEMMA StopsIs ==
  ASSUME NEW kinds, Ends(kinds), NEW end \in {"quit", "sub"}, NEW w, Stops(kinds, end, w)
  PROVE  /\ w \in Seq(Nat) /\ w \o Acks(kinds) = Wanted(kinds)
         /\ end = "quit" => w = Wanted(kinds)
<1>1. PICK m \in 1..Len(kinds) : Unstopped(kinds, m - 1) /\ kinds[m] = end /\ w = Full(kinds, m)
  BY DEF Stops
<1>2. Len(kinds) \in Nat /\ w \in Seq(Nat)
  BY <1>1, WantedIs
<1>3. Full(kinds, Len(kinds)) = w
  <2>1. CASE end = "quit"
    BY <1>1, <1>2, <2>1, FullStops
  <2>2. CASE end = "sub"
    <3>1. m = Len(kinds)
      BY <1>1, <1>2, <2>2 DEF Ends
    <3>. QED  BY <1>1, <3>1
  <2>. QED  BY <2>1, <2>2
<1>4. w \o Acks(kinds) = Wanted(kinds)
  BY <1>3, WantedIs
<1>5. ASSUME end = "quit" PROVE Acks(kinds) = <<>>
  <2>1. DOMAIN Whole(kinds) = 1..Len(kinds) /\ Whole(kinds)[m] = m
    BY <1>1 DEF Whole
  <2>2. BatchEnd(kinds, Whole(kinds)) = "quit"
    BY <1>1, <1>5, <2>1 DEF BatchEnd
  <2>. QED  BY <2>2 DEF Acks
<1>. QED  BY <1>2, <1>4, <1>5, ConcatEmptySeq

-----------------------------------------------------------------------------
(* How far a client has come.                                              *)

\* Of n pieces sent, q in the socket and h read, the client has the replies w:
\* nothing is lost in between, answered twice, or out of order.
Follows(kinds, n, q, w, h) ==
  \E m \in 0..n : Unstopped(kinds, m) /\ w = Full(kinds, m) /\ h \o q = Run(m, n)

Starts(kinds, w) == \E rest \in Seq(Nat) : w \o rest = Wanted(kinds)

\* The empty beginning.
LEMMA FollowsFirst ==
  ASSUME NEW kinds, NEW n \in Nat
  PROVE  Follows(kinds, n, Run(0, n), <<>>, <<>>)
<1>1. Unstopped(kinds, 0)
  BY DEF Unstopped
<1>2. Full(kinds, 0) = <<>>
  BY EmptyRun, NoOutput DEF Full
<1>3. <<>> \o Run(0, n) = Run(0, n)
  <2>1. 0 \in Nat /\ 0 <= n
    OBVIOUS
  <2>2. Run(0, n) \in Seq(Nat)
    BY <2>1, RunIs
  <2>. QED  BY <2>2, ConcatEmptySeq
<1>. QED  BY <1>1, <1>2, <1>3 DEF Follows

\* What the client has begins what it should read.
LEMMA FollowsStarts ==
  ASSUME NEW kinds, Ends(kinds), NEW n \in 0..Len(kinds), NEW q, NEW w, NEW h,
         Follows(kinds, n, q, w, h)
  PROVE  w \in Seq(Nat) /\ Starts(kinds, w)
<1>1. PICK m \in 0..n : Unstopped(kinds, m) /\ w = Full(kinds, m)
  BY DEF Follows
<1>2. m \in 0..Len(kinds)
  BY WantedIs
<1>. QED  BY <1>1, <1>2, FullBegins, WantedIs DEF Starts

\* It sends a piece.
LEMMA FollowsSend ==
  ASSUME NEW kinds, NEW n \in Nat, NEW q \in Seq(Nat), NEW w, NEW h \in Seq(Nat),
         Follows(kinds, n, q, w, h)
  PROVE  Follows(kinds, n + 1, Append(q, n + 1), w, h)
<1>1. PICK m \in 0..n : Unstopped(kinds, m) /\ w = Full(kinds, m) /\ h \o q = Run(m, n)
  BY DEF Follows
<1>2. Run(m, n + 1) = Append(h \o q, n + 1)
  <2>1. m \in Nat /\ n \in Nat /\ m <= n
    OBVIOUS
  <2>2. Run(m, n + 1) = Append(Run(m, n), n + 1)
    BY <2>1, RunGrows
  <2>. QED  BY <1>1, <2>2
<1>3. h \o Append(q, n + 1) = Append(h \o q, n + 1)
  OBVIOUS
<1>4. m \in 0..n + 1
  OBVIOUS
<1>. QED  BY <1>1, <1>2, <1>3, <1>4 DEF Follows

\* The server reads some of the socket.
LEMMA FollowsRead ==
  ASSUME NEW kinds, NEW n \in Nat, NEW q, NEW w, NEW h \in Seq(Nat),
         NEW a \in Seq(Nat), NEW b \in Seq(Nat), q = a \o b, Follows(kinds, n, q, w, h)
  PROVE  Follows(kinds, n, b, w, h \o a)
<1>1. PICK m \in 0..n : Unstopped(kinds, m) /\ w = Full(kinds, m) /\ h \o q = Run(m, n)
  BY DEF Follows
<1>2. (h \o a) \o b = h \o q
  BY Regroup
<1>. QED  BY <1>1, <1>2 DEF Follows

\* A batch of what was read runs.
LEMMA FollowsRun ==
  ASSUME NEW kinds, Ends(kinds), NEW n \in 0..Len(kinds), NEW q \in Seq(Nat), NEW w,
         NEW cmds \in Seq(Nat), NEW rest \in Seq(Nat), Follows(kinds, n, q, w, cmds \o rest)
  PROVE  LET out == Output(kinds, cmds)
             end == BatchEnd(kinds, cmds)
         IN  /\ w \in Seq(Nat) /\ out \in Seq(Nat) /\ end \in {"continue", "quit", "sub"}
             /\ end = "continue" => Follows(kinds, n, q, w \o out, rest)
             /\ end # "continue" => Stops(kinds, end, w \o out)
<1>1. PICK m \in 0..n : /\ Unstopped(kinds, m) /\ w = Full(kinds, m)
                        /\ (cmds \o rest) \o q = Run(m, n)
  BY DEF Follows
<1>2. n \in Nat /\ m \in Nat /\ m <= n /\ n <= Len(kinds) /\ Len(kinds) \in Nat
  BY WantedIs
<1>3. rest \o q \in Seq(Nat) /\ cmds \o (rest \o q) = Run(m, n)
  BY <1>1, Regroup, ConcatProperties
<1>4. PICK p \in m..n : cmds = Run(m, p) /\ rest \o q = Run(p, n)
  <2>. DEFINE b == rest \o q
  <2>1. b \in Seq(Nat) /\ Joins(cmds, b, Run(m, n))
    BY <1>3 DEF Joins
  <2>. HIDE DEF b
  <2>2. \E p \in m..n : cmds = Run(m, p) /\ b = Run(p, n)
    BY <1>2, <2>1, RunIsCut
  <2>. QED  BY <2>2 DEF b
<1>5. p \in Nat /\ m <= p /\ p <= Len(kinds) /\ p \in 0..n
  BY <1>2, <1>4
<1>6. /\ Full(kinds, m) \o Output(kinds, Run(m, p)) = Full(kinds, p)
      /\ BatchEnd(kinds, Run(m, p)) \in {"continue", "quit", "sub"}
      /\ BatchEnd(kinds, Run(m, p)) = "continue" => Unstopped(kinds, p)
      /\ BatchEnd(kinds, Run(m, p)) # "continue" => Stops(kinds, BatchEnd(kinds, Run(m, p)), Full(kinds, p))
  BY <1>1, <1>2, <1>5, BatchMoves
<1>7. Output(kinds, Run(m, p)) \in Seq(Nat)
  BY <1>2, <1>5, OutputIsSeq
<1>8. w \in Seq(Nat)
  BY FollowsStarts
<1>. QED  BY <1>1, <1>4, <1>5, <1>6, <1>7, <1>8 DEF Follows

\* Having all replies, it has a beginning.
LEMMA StopsStarts ==
  ASSUME NEW kinds, Ends(kinds), NEW end \in {"quit", "sub"}, NEW w, Stops(kinds, end, w)
  PROVE  w \in Seq(Nat) /\ Starts(kinds, w)
BY StopsIs, WantedIs DEF Starts

\* A part of a beginning is one.
LEMMA StartsPart ==
  ASSUME NEW kinds, NEW a \in Seq(Nat), NEW b \in Seq(Nat), Starts(kinds, a \o b)
  PROVE  Starts(kinds, a)
<1>1. PICK rest \in Seq(Nat) : (a \o b) \o rest = Wanted(kinds)
  BY DEF Starts
<1>2. b \o rest \in Seq(Nat) /\ a \o (b \o rest) = Wanted(kinds)
  BY <1>1, Regroup, ConcatProperties
<1>. QED  BY <1>2 DEF Starts

-----------------------------------------------------------------------------
(* The inductive invariant of the replies.                                 *)

\* What a connection's client has got, will find in its socket and in the output.
Written(k) == got[k.client] \o outq[k.client] \o k.wbuf

\* The client has w of its replies, and the server h of its input.
Progress(c, w, h) == Follows(script[c], sent[c], inq[c], w, h)
AllDone(c, w, end) == Stops(script[c], end, w)
Begins(c, w) == Starts(script[c], w)

IsConn(k) ==
  /\ k = [client |-> k.client, gen |-> k.gen, rbuf |-> k.rbuf, wbuf |-> k.wbuf, st |-> k.st,
          closing |-> k.closing, more |-> k.more, muted |-> k.muted]
  /\ k.client \in Clients /\ k.rbuf \in Seq(Nat) /\ k.wbuf \in Seq(Nat)
  /\ k.st \in BOOLEAN /\ k.closing \in BOOLEAN /\ k.more \in BOOLEAN /\ k.muted \in BOOLEAN
IsJob(x) ==
  /\ x = [slot |-> x.slot, gen |-> x.gen, client |-> x.client, cmds |-> x.cmds, rbuf |-> x.rbuf,
          direct |-> x.direct, eof |-> x.eof]
  /\ x.slot \in Slots /\ x.gen \in Nat /\ x.cmds \in Seq(Nat) /\ x.rbuf \in Seq(Nat)
  /\ x.direct \in BOOLEAN /\ x.eof \in BOOLEAN
IsComp(x) ==
  /\ x.slot \in Slots /\ x.gen \in Nat /\ x.out \in Seq(Nat) /\ x.rbuf \in Seq(Nat)
  /\ x.end \in {"continue", "quit", "sub"} /\ x.eof \in BOOLEAN

\* The connection of a slot, when the worker has its state and when a pool thread
\* has it.
ConnOK(s) ==
  conns[s] # None =>
    LET k == conns[s]
        c == k.client
    IN  /\ IsConn(k) /\ k.gen = gens[s] /\ link[c] = "open" /\ elsewhere[c] = <<>>
        /\ ~k.st => ~k.closing /\ k.rbuf = <<>> /\ Begins(c, Written(k))
        /\ k.st => \/ Progress(c, Written(k), k.rbuf) /\ (k.closing => fin[c])
                   \/ k.closing /\ AllDone(c, Written(k), "quit")

\* What a pool thread has, or gives back, of a connection that is still there.
Live(x) == x.gen = gens[x.slot]
Lent(x) ==
  LET k == conns[x.slot]
  IN  k # None /\ ~k.st /\ (x.eof => fin[k.client])
JobOK(x) ==
  /\ IsJob(x) /\ x.gen <= gens[x.slot]
  /\ x.direct => Live(x)
  /\ Live(x) => /\ Lent(x) /\ x.client = conns[x.slot].client
                /\ x.direct => conns[x.slot].wbuf = <<>>
                /\ Progress(x.client, Written(conns[x.slot]), x.cmds \o x.rbuf)
CompOK(x) ==
  /\ IsComp(x) /\ x.gen <= gens[x.slot]
  /\ Live(x) => LET k == conns[x.slot]
                IN  /\ Lent(x)
                    /\ \/ x.end = "continue" /\ Progress(k.client, Written(k) \o x.out, x.rbuf)
                       \/ x.end # "continue" /\ AllDone(k.client, Written(k) \o x.out, x.end)

\* Where the pool's work is: queued, with a thread, in the list of completions or
\* with the worker.
HasJob(t) == thr[t].at \in {"run", "owned"}
HasComp(t) == thr[t].at = "deliver"
IsCompletion(i) == calls[i][1] = "completion"
Places ==
  {<<"jobs", i>> : i \in DOMAIN jobs} \cup {<<"thr", t>> : t \in {u \in Threads : HasJob(u) \/ HasComp(u)}}
    \cup {<<"done", i>> : i \in DOMAIN done} \cup {<<"calls", i>> : i \in {j \in DOMAIN calls : IsCompletion(j)}}
Work(p) ==
  CASE p[1] = "jobs" -> jobs[p[2]]
    [] p[1] = "thr"  -> IF HasComp(p[2]) THEN thr[p[2]].comp ELSE thr[p[2]].job
    [] p[1] = "done" -> done[p[2]]
    [] OTHER         -> calls[p[2]][2]

\* No connection is with two of them.
LentOnce ==
  \A p, q \in Places : p # q => Work(p).slot # Work(q).slot \/ Work(p).gen # Work(q).gen

ThreadOK(t) ==
  /\ HasJob(t) => JobOK(thr[t].job)
  /\ thr[t].at = "run" => thr[t].job.cmds # <<>>
  /\ thr[t].at = "owned" => thr[t].job.direct /\ thr[t].job.cmds = <<>>
  /\ HasComp(t) => CompOK(thr[t].comp)
WorkOK ==
  /\ \A i \in DOMAIN jobs : JobOK(jobs[i]) /\ jobs[i].cmds # <<>>
  /\ \A t \in Threads : ThreadOK(t)
  /\ \A i \in DOMAIN done : CompOK(done[i])
  /\ \A i \in DOMAIN calls : IsCompletion(i) => CompOK(calls[i][2])

\* Clients without a slot: not accepted yet, handed off, or closed.
HasSlot(c) == \E s \in Slots : conns[s] # None /\ conns[s].client = c
ClientOK(c) ==
  /\ link[c] \in {"new", "backlog"} =>
       got[c] = <<>> /\ outq[c] = <<>> /\ elsewhere[c] = <<>> /\ inq[c] = Run(0, sent[c])
  /\ link[c] = "open" => HasSlot(c) \/ got[c] \o outq[c] \o elsewhere[c] = Wanted(script[c])
  /\ link[c] = "closed" =>
       /\ elsewhere[c] = <<>> /\ Begins(c, got[c] \o outq[c])
       /\ ~fin[c] => got[c] \o outq[c] = Wanted(script[c])

Calls(cs) ==
  \A i \in DOMAIN cs :
    /\ cs[i][1] \in {"readable", "process", "flush", "accept", "completion"}
    /\ cs[i][1] \in {"readable", "process", "flush"} => cs[i][2] \in Slots
ClientShape(c) ==
  /\ sent[c] \in 0..Len(script[c]) /\ inq[c] \in Seq(Nat)
  /\ got[c] \in Seq(Nat) /\ outq[c] \in Seq(Nat) /\ elsewhere[c] \in Seq(Nat)
  /\ Len(outq[c]) <= SockOut
LoopShape ==
  /\ script \in Scripts
  /\ sent = [c \in Clients |-> sent[c]] /\ got = [c \in Clients |-> got[c]]
  /\ fin \in [Clients -> BOOLEAN]
  /\ inq = [c \in Clients |-> inq[c]] /\ outq = [c \in Clients |-> outq[c]]
  /\ elsewhere = [c \in Clients |-> elsewhere[c]]
  /\ \A c \in Clients : ClientShape(c)
  /\ link \in [Clients -> {"new", "backlog", "open", "closed"}]
  /\ conns = [s \in Slots |-> conns[s]] /\ gens \in [Slots -> Nat]
  /\ \A e \in ready : e.slot \in Slots
  /\ IsSeq(calls) /\ Calls(calls) /\ IsSeq(done) /\ IsSeq(jobs) /\ thr = [t \in Threads |-> thr[t]]

OneSlotEach ==
  \A s, r \in Slots : s # r /\ conns[s] # None /\ conns[r] # None => conns[s].client # conns[r].client

ReplyInv ==
  /\ LoopShape /\ OneSlotEach /\ LentOnce /\ WorkOK
  /\ \A s \in Slots : ConnOK(s)
  /\ \A c \in Clients : ClientOK(c)

-----------------------------------------------------------------------------
(* What a step leaves as it is.                                            *)

\* The scripts are as assumed.
LEMMA ScriptIs == ASSUME LoopShape, NEW c \in Clients PROVE Ends(script[c])
BY ScriptsEnd DEF LoopShape, Ends

\* A connection is not no connection.
LEMMA ConnIsSome == ASSUME NEW k, IsConn(k) PROVE k # None
<1>1. "gen" \in DOMAIN k /\ "gen" \notin DOMAIN None
  BY DEF IsConn, None
<1>. QED  BY <1>1

\* Nothing happens to a slot but that some output moves to the socket.
Kept(s) ==
  /\ gens'[s] = gens[s]
  /\ conns[s] = None => conns'[s] = None
  /\ conns[s] # None =>
       LET k == conns[s]
           r == conns'[s]
           c == k.client
       IN  /\ IsConn(r) /\ r.client = c /\ r.gen = k.gen /\ r.rbuf = k.rbuf /\ r.st = k.st
           /\ r.closing = k.closing
           /\ got'[c] \o outq'[c] \o r.wbuf = Written(k)
           /\ k.wbuf = <<>> => r.wbuf = <<>>
           /\ fin[c] => fin'[c]
           /\ link'[c] = link[c] /\ elsewhere'[c] = elsewhere[c]
           /\ \A w, h : h \in Seq(Nat) /\ Follows(script[c], sent[c], inq[c], w, h)
                          => Follows(script[c], sent'[c], inq'[c], w, h)

\* The connection stays as it should be.
LEMMA ConnKept ==
  ASSUME NEW s, ConnOK(s), Kept(s), script' = script
  PROVE  ConnOK(s)'
<1>1. CASE conns[s] = None
  BY <1>1 DEF Kept, ConnOK
<1>2. CASE conns[s] # None
  <2>. DEFINE k == conns[s]
              c == k.client
              r == conns'[s]
  <2>1. /\ IsConn(k) /\ k.gen = gens[s] /\ link[c] = "open" /\ elsewhere[c] = <<>>
        /\ ~k.st => ~k.closing /\ k.rbuf = <<>> /\ Begins(c, Written(k))
        /\ k.st => \/ Progress(c, Written(k), k.rbuf) /\ (k.closing => fin[c])
                   \/ k.closing /\ AllDone(c, Written(k), "quit")
    BY <1>2 DEF ConnOK
  <2>2. /\ IsConn(r) /\ r.client = c /\ r.gen = k.gen /\ r.rbuf = k.rbuf /\ r.st = k.st
        /\ r.closing = k.closing
        /\ got'[c] \o outq'[c] \o r.wbuf = Written(k)
        /\ fin[c] => fin'[c]
        /\ link'[c] = link[c] /\ elsewhere'[c] = elsewhere[c] /\ gens'[s] = gens[s]
        /\ \A w, h : h \in Seq(Nat) /\ Follows(script[c], sent[c], inq[c], w, h)
                       => Follows(script[c], sent'[c], inq'[c], w, h)
    BY <1>2 DEF Kept
  <2>3. Written(conns[s])' = Written(k)
    BY <2>2 DEF Written
  <2>4. k.rbuf \in Seq(Nat)
    BY <2>1 DEF IsConn
  <2>5. Progress(c, Written(k), k.rbuf) => Follows(script[c], sent'[c], inq'[c], Written(k), k.rbuf)
    BY <2>2, <2>4 DEF Progress
  <2>. HIDE DEF k, c, r
  <2>6. /\ IsConn(r) /\ r.gen = gens'[s] /\ link'[c] = "open" /\ elsewhere'[c] = <<>> /\ r.client = c
        /\ ~r.st => ~r.closing /\ r.rbuf = <<>> /\ Starts(script[c], Written(k))
        /\ r.st => \/ Follows(script[c], sent'[c], inq'[c], Written(k), r.rbuf) /\ (r.closing => fin'[c])
                   \/ r.closing /\ Stops(script[c], "quit", Written(k))
    BY <2>1, <2>2, <2>5 DEF Begins, AllDone
  <2>7. IsConn(conns[s])' <=> IsConn(r)
    BY DEF IsConn, r
  <2>. QED  BY <2>3, <2>6, <2>7 DEF ConnOK, Progress, Begins, AllDone, r
<1>. QED  BY <1>1, <1>2

\* The worker drops the connection of a slot with output that the client does not read.
Dropped(s) == gens'[s] > gens[s] /\ conns[s].wbuf # <<>>

\* So does what the pool has of it, or had of one that is gone.
Still(x) ==
  \/ Kept(x.slot)
  \/ gens'[x.slot] >= gens[x.slot] /\ ~Live(x)
  \/ Dropped(x.slot)

\* Not live stays not live.
LEMMA DeadStays ==
  ASSUME NEW x, x.gen \in Nat, gens[x.slot] \in Nat, gens'[x.slot] \in Nat, x.gen <= gens[x.slot],
         gens'[x.slot] >= gens[x.slot], ~Live(x)
  PROVE  x.gen # gens'[x.slot] /\ x.gen <= gens'[x.slot]
BY DEF Live

\* A job.
LEMMA JobStays ==
  ASSUME NEW x, JobOK(x), Still(x), script' = script, gens \in [Slots -> Nat], gens' \in [Slots -> Nat]
  PROVE  JobOK(x)'
<1>. DEFINE s == x.slot
<1>1. IsJob(x) /\ x.gen <= gens[s] /\ (x.direct => Live(x)) /\ IsJob(x)'
  BY DEF JobOK, IsJob, Slots
<1>2. gens[s] \in Nat /\ gens'[s] \in Nat /\ x.gen \in Nat /\ s \in Slots
  BY <1>1 DEF IsJob
<1>3. CASE gens'[s] >= gens[s] /\ ~Live(x)
  <2>1. ~(x.direct)
    BY <1>1, <1>3
  <2>2. x.gen # gens'[s] /\ x.gen <= gens'[s]
    BY <1>1, <1>2, <1>3, DeadStays
  <2>. QED  BY <1>1, <2>1, <2>2 DEF JobOK, Live
<1>4. CASE Kept(s) /\ ~Live(x)
  <2>1. gens'[s] = gens[s]
    BY <1>4 DEF Kept
  <2>. QED  BY <1>2, <1>3, <1>4, <2>1
<1>5. CASE Kept(s) /\ Live(x)
  <2>. DEFINE k == conns[s]
              c == k.client
              r == conns'[s]
  <2>1. /\ k # None /\ ~k.st /\ (x.eof => fin[c]) /\ x.client = c
        /\ x.direct => k.wbuf = <<>>
        /\ Progress(c, Written(k), x.cmds \o x.rbuf)
    BY <1>5 DEF JobOK, Lent
  <2>2. /\ IsConn(r) /\ r.client = c /\ r.st = k.st
        /\ got'[c] \o outq'[c] \o r.wbuf = Written(k)
        /\ k.wbuf = <<>> => r.wbuf = <<>>
        /\ fin[c] => fin'[c]
        /\ gens'[s] = gens[s]
        /\ \A w, h : h \in Seq(Nat) /\ Follows(script[c], sent[c], inq[c], w, h)
                       => Follows(script[c], sent'[c], inq'[c], w, h)
    BY <1>5, <2>1 DEF Kept
  <2>3. Written(conns[s])' = Written(k)
    BY <2>2 DEF Written
  <2>4. x.cmds \o x.rbuf \in Seq(Nat)
    BY <1>1, ConcatProperties DEF IsJob
  <2>5. Follows(script[c], sent'[c], inq'[c], Written(k), x.cmds \o x.rbuf)
    BY <2>1, <2>2, <2>4 DEF Progress
  <2>6. r # None
    BY <2>2, ConnIsSome
  <2>. HIDE DEF k, c
  <2>7. Progress(x.client, Written(conns[s]), x.cmds \o x.rbuf)'
    BY <2>1, <2>3, <2>5 DEF Progress
  <2>8. Lent(x)' /\ x.client = r.client /\ (x.direct => r.wbuf = <<>>)
    BY <2>1, <2>2, <2>6 DEF Lent
  <2>. QED  BY <1>1, <1>5, <2>2, <2>7, <2>8 DEF JobOK, Live
<1>6. CASE Dropped(s)
  <2>1. ~(x.direct)
    BY <1>1, <1>6 DEF JobOK, Dropped
  <2>2. x.gen # gens'[s] /\ x.gen <= gens'[s]
    BY <1>1, <1>2, <1>6 DEF Dropped
  <2>. QED  BY <1>1, <2>1, <2>2 DEF JobOK, Live
<1>. QED  BY <1>3, <1>4, <1>5, <1>6 DEF Still

\* A completion.
LEMMA CompStays ==
  ASSUME NEW x, CompOK(x), Still(x), script' = script, gens \in [Slots -> Nat], gens' \in [Slots -> Nat]
  PROVE  CompOK(x)'
<1>. DEFINE s == x.slot
<1>1. IsComp(x) /\ x.gen <= gens[s] /\ IsComp(x)'
  BY DEF CompOK, IsComp, Slots
<1>2. gens[s] \in Nat /\ gens'[s] \in Nat /\ x.gen \in Nat /\ s \in Slots
  BY <1>1 DEF IsComp
<1>3. CASE gens'[s] >= gens[s] /\ ~Live(x)
  <2>2. x.gen # gens'[s] /\ x.gen <= gens'[s]
    BY <1>1, <1>2, <1>3, DeadStays
  <2>. QED  BY <1>1, <2>2 DEF CompOK, Live
<1>4. CASE Kept(s) /\ ~Live(x)
  <2>1. gens'[s] = gens[s]
    BY <1>4 DEF Kept
  <2>. QED  BY <1>2, <1>3, <1>4, <2>1
<1>5. CASE Kept(s) /\ Live(x)
  <2>. DEFINE k == conns[s]
              c == k.client
              r == conns'[s]
              w == Written(k) \o x.out
  <2>1. /\ k # None /\ ~k.st /\ (x.eof => fin[c])
        /\ \/ x.end = "continue" /\ Progress(c, w, x.rbuf)
           \/ x.end # "continue" /\ AllDone(c, w, x.end)
    BY <1>5 DEF CompOK, Lent
  <2>2. /\ IsConn(r) /\ r.client = c /\ r.st = k.st
        /\ got'[c] \o outq'[c] \o r.wbuf = Written(k)
        /\ fin[c] => fin'[c]
        /\ gens'[s] = gens[s]
        /\ \A v, h : h \in Seq(Nat) /\ Follows(script[c], sent[c], inq[c], v, h)
                       => Follows(script[c], sent'[c], inq'[c], v, h)
    BY <1>5, <2>1 DEF Kept
  <2>3. Written(conns[s])' = Written(k)
    BY <2>2 DEF Written
  <2>4. x.rbuf \in Seq(Nat)
    BY <1>1 DEF IsComp
  <2>5. r # None
    BY <2>2, ConnIsSome
  <2>. HIDE DEF k, c, w
  <2>6. \/ x.end = "continue" /\ Follows(script[c], sent'[c], inq'[c], w, x.rbuf)
        \/ x.end # "continue" /\ Stops(script[c], x.end, w)
    BY <2>1, <2>2, <2>4 DEF Progress, AllDone
  <2>7. (Written(conns[s]) \o x.out)' = w
    BY <2>3 DEF w
  <2>8. Lent(x)'
    BY <2>1, <2>2, <2>5 DEF Lent
  <2>. QED  BY <1>1, <1>5, <2>2, <2>6, <2>7, <2>8 DEF CompOK, Live, Progress, AllDone
<1>6. CASE Dropped(s)
  <2>1. x.gen # gens'[s] /\ x.gen <= gens'[s]
    BY <1>1, <1>2, <1>6 DEF Dropped
  <2>. QED  BY <1>1, <2>1 DEF CompOK, Live
<1>. QED  BY <1>3, <1>4, <1>5, <1>6 DEF Still

-----------------------------------------------------------------------------
(* The pool's work.                                                        *)

\* Where it is, and what.
LEMMA PlaceIs ==
  /\ \A i \in DOMAIN jobs : <<"jobs", i>> \in Places /\ Work(<<"jobs", i>>) = jobs[i]
  /\ \A t \in Threads : HasJob(t) => <<"thr", t>> \in Places /\ Work(<<"thr", t>>) = thr[t].job
  /\ \A t \in Threads : HasComp(t) => <<"thr", t>> \in Places /\ Work(<<"thr", t>>) = thr[t].comp
  /\ \A i \in DOMAIN done : <<"done", i>> \in Places /\ Work(<<"done", i>>) = done[i]
  /\ \A i \in DOMAIN calls : IsCompletion(i) =>
       <<"calls", i>> \in Places /\ Work(<<"calls", i>>) = calls[i][2]
BY DEF Places, Work, HasJob, HasComp

\* Nothing else is work.
LEMMA PlaceCases ==
  ASSUME NEW p \in Places
  PROVE  \/ \E i \in DOMAIN jobs : p = <<"jobs", i>>
         \/ \E t \in Threads : (HasJob(t) \/ HasComp(t)) /\ p = <<"thr", t>>
         \/ \E i \in DOMAIN done : p = <<"done", i>>
         \/ \E i \in DOMAIN calls : IsCompletion(i) /\ p = <<"calls", i>>
BY DEF Places

\* Each is a job or a completion of a connection that is or was there.
LEMMA WorkIs ==
  ASSUME WorkOK, NEW p \in Places
  PROVE  JobOK(Work(p)) \/ CompOK(Work(p))
BY PlaceCases, PlaceIs DEF WorkOK, ThreadOK

\* What that says of either.
LEMMA WorkShape ==
  ASSUME WorkOK, NEW p \in Places
  PROVE  /\ Work(p).slot \in Slots /\ Work(p).gen \in Nat /\ Work(p).gen <= gens[Work(p).slot]
         /\ Live(Work(p)) => Lent(Work(p))
BY WorkIs DEF JobOK, CompOK, IsJob, IsComp

\* The worker has a connection's state, or the pool does.
LEMMA Unlent ==
  ASSUME WorkOK, NEW s, conns[s] = None \/ conns[s].st, NEW p \in Places, Work(p).slot = s
  PROVE  ~Live(Work(p))
BY WorkShape DEF Lent

\* Only one of the pool's.
LEMMA OnlyOne ==
  ASSUME LentOnce, NEW p \in Places, NEW q \in Places, p # q, Work(p).slot = Work(q).slot,
         Live(Work(p))
  PROVE  ~Live(Work(q))
BY DEF LentOnce, Live

\* Work that moves without doubling, but for a new job of a connection that the pool
\* does not have, ...
Carries(f, x) ==
  /\ \A p \in Places' \ {x} : /\ f[p] \in Places
                             /\ Work(p)'.slot = Work(f[p]).slot /\ Work(p)'.gen = Work(f[p]).gen
  /\ \A p, q \in Places' \ {x} : p # q => f[p] # f[q]
  /\ x \in Places' => \A p \in Places : Work(x)'.slot # Work(p).slot \/ Work(x)'.gen # Work(p).gen

\* ... is lent once as before.
LEMMA LentMap == ASSUME LentOnce, NEW f, NEW x, Carries(f, x) PROVE LentOnce'
<1>. SUFFICES ASSUME NEW p \in Places', NEW q \in Places', p # q
              PROVE  Work(p)'.slot # Work(q)'.slot \/ Work(p)'.gen # Work(q)'.gen
  BY DEF LentOnce
<1>1. CASE p # x /\ q # x
  <2>1. f[p] \in Places /\ f[q] \in Places /\ f[p] # f[q]
    BY <1>1 DEF Carries
  <2>. QED  BY <1>1, <2>1 DEF LentOnce, Carries
<1>2. CASE p = x /\ q # x
  BY <1>2 DEF Carries
<1>3. CASE p # x /\ q = x
  BY <1>3 DEF Carries
<1>. QED  BY <1>1, <1>2, <1>3

\* The calls after one of the worker's functions.
LEMMA CallsAfter ==
  ASSUME IsSeq(calls), calls # <<>>, NEW cs, IsSeq(cs), Then(cs)
  PROVE  /\ IsSeq(calls') /\ Len(cs) \in Nat
         /\ \A i \in DOMAIN calls' :
              \/ i \in DOMAIN cs /\ calls'[i] = cs[i] /\ i <= Len(cs)
              \/ /\ i > Len(cs) /\ i \in Nat
                 /\ i - Len(cs) + 1 \in DOMAIN calls \ {1}
                 /\ calls'[i] = calls[i - Len(cs) + 1]
<1>. DEFINE E == {calls[i] : i \in DOMAIN calls}
            C == {cs[i] : i \in DOMAIN cs}
            S == E \cup C
            t == Tail(calls)
            n == Len(cs)
<1>1. calls \in Seq(S) /\ cs \in Seq(S)
  BY SeqMonotonic DEF IsSeq
<1>. HIDE DEF S
<1>2. /\ t \in Seq(S) /\ Len(t) = Len(calls) - 1 /\ \A i \in 1..Len(t) : t[i] = calls[i + 1]
      /\ n \in Nat /\ Len(calls) \in Nat
      /\ DOMAIN calls = 1..Len(calls) /\ DOMAIN cs = 1..n
  BY <1>1, HeadTailProperties, LenProperties
<1>. HIDE DEF t, n
<1>3. calls' = cs \o t
  BY DEF Then, t
<1>4. /\ calls' \in Seq(S) /\ Len(calls') = n + Len(t)
      /\ \A i \in 1..n + Len(t) : calls'[i] = IF i <= n THEN cs[i] ELSE t[i - n]
  BY <1>1, <1>2, <1>3, ConcatProperties DEF n
<1>5. DOMAIN calls' = 1..n + Len(t) /\ IsSeq(calls')
  BY <1>4, LenProperties, SeqOfElements
<1>6. ASSUME NEW i \in DOMAIN calls', i > n
      PROVE  /\ i \in Nat /\ i - n + 1 \in DOMAIN calls \ {1}
             /\ calls'[i] = calls[i - n + 1]
  <2>1. i \in 1..n + Len(t) /\ Len(t) \in Nat
    BY <1>2, <1>5
  <2>2. i - n \in 1..Len(t) /\ ~(i <= n)
    BY <1>2, <1>6, <2>1
  <2>3. i - n + 1 \in 2..Len(calls)
    BY <1>2, <2>2
  <2>4. i \in Nat /\ i - n + 1 \in DOMAIN calls \ {1}
    BY <1>2, <2>1, <2>3
  <2>5. calls'[i] = t[i - n]
    BY <1>4, <2>1, <2>2
  <2>6. t[i - n] = calls[i - n + 1]
    BY <1>2, <2>2
  <2>. QED  BY <2>4, <2>5, <2>6
<1>7. ASSUME NEW i \in DOMAIN calls', i <= n PROVE i \in DOMAIN cs /\ calls'[i] = cs[i]
  BY <1>2, <1>4, <1>5, <1>7
<1>8. \A i \in DOMAIN calls' : i <= n \/ i > n
  BY <1>2, <1>5
<1>. QED  BY <1>2, <1>5, <1>6, <1>7, <1>8 DEF n

\* A thread that has no work, before and after.
Free(t) == thr[t].at \notin {"run", "owned", "deliver"}

\* The work stays where it was when the worker goes on with other calls, and may
\* submit a job.
LEMMA WorkShift ==
  ASSUME LoopShape, WorkOK, LentOnce, calls # <<>>, NEW cs, IsSeq(cs), Then(cs),
         \A i \in DOMAIN cs : cs[i][1] # "completion", NEW n,
         \A i \in DOMAIN jobs' : i # n => i \in DOMAIN jobs /\ jobs'[i] = jobs[i],
         n \in DOMAIN jobs' => /\ JobOK(jobs[n])' /\ jobs'[n].cmds # <<>>
                              /\ \A p \in Places : \/ jobs'[n].slot # Work(p).slot
                                                  \/ jobs'[n].gen # Work(p).gen,
         \A t \in Threads : thr'[t] = thr[t] \/ (Free(t) /\ Free(t)'),
         done' = done, script' = script, gens' \in [Slots -> Nat],
         \A p \in Places : p # <<"calls", 1>> => Still(Work(p))
  PROVE  WorkOK' /\ LentOnce'
<1>1. /\ Len(cs) \in Nat
      /\ \A i \in DOMAIN calls' : IsCompletion(i)' =>
           /\ i > Len(cs) /\ i \in Nat
           /\ i - Len(cs) + 1 \in DOMAIN calls \ {1} /\ IsCompletion(i - Len(cs) + 1)
           /\ calls'[i] = calls[i - Len(cs) + 1]
  <2>1. IsSeq(calls)
    BY DEF LoopShape
  <2>. QED  BY <2>1, CallsAfter DEF IsCompletion
<1>2. gens \in [Slots -> Nat]
  BY DEF LoopShape
<1>3. \A i \in DOMAIN jobs' : JobOK(jobs[i])' /\ jobs'[i].cmds # <<>>
  <2>. SUFFICES ASSUME NEW i \in DOMAIN jobs', i # n PROVE JobOK(jobs[i])' /\ jobs'[i].cmds # <<>>
    OBVIOUS
  <2>1. i \in DOMAIN jobs /\ jobs'[i] = jobs[i]
    OBVIOUS
  <2>2. JobOK(jobs[i]) /\ Still(jobs[i]) /\ jobs[i].cmds # <<>>
    BY <2>1, PlaceIs DEF WorkOK
  <2>3. PICK x : x = jobs[i]
    OBVIOUS
  <2>4. JobOK(x)'
    BY <1>2, <2>2, <2>3, JobStays
  <2>. QED  BY <2>1, <2>2, <2>3, <2>4
<1>4. ASSUME NEW t \in Threads PROVE ThreadOK(t)'
  <2>1. ThreadOK(t)
    BY DEF WorkOK
  <2>2. ASSUME thr'[t] = thr[t], HasJob(t) PROVE JobOK(thr[t].job)'
    <3>1. JobOK(thr[t].job) /\ Still(thr[t].job)
      BY <2>1, <2>2, PlaceIs DEF ThreadOK
    <3>2. PICK x : x = thr[t].job
      OBVIOUS
    <3>3. JobOK(x)'
      BY <1>2, <3>1, <3>2, JobStays
    <3>. QED  BY <2>2, <3>2, <3>3
  <2>3. ASSUME thr'[t] = thr[t], HasComp(t) PROVE CompOK(thr[t].comp)'
    <3>1. CompOK(thr[t].comp) /\ Still(thr[t].comp)
      BY <2>1, <2>3, PlaceIs DEF ThreadOK
    <3>2. PICK x : x = thr[t].comp
      OBVIOUS
    <3>3. CompOK(x)'
      BY <1>2, <3>1, <3>2, CompStays
    <3>. QED  BY <2>3, <3>2, <3>3
  <2>4. CASE thr'[t] = thr[t]
    <3>1. (HasJob(t)' <=> HasJob(t)) /\ (HasComp(t)' <=> HasComp(t))
      BY <2>4 DEF HasJob, HasComp
    <3>. QED  BY <2>1, <2>2, <2>3, <2>4, <3>1 DEF ThreadOK
  <2>5. CASE Free(t)'
    BY <2>5 DEF Free, ThreadOK, HasJob, HasComp
  <2>. QED  BY <2>4, <2>5
<1>5. \A i \in DOMAIN done : CompOK(done[i])'
  <2>. SUFFICES ASSUME NEW i \in DOMAIN done PROVE CompOK(done[i])'
    OBVIOUS
  <2>1. CompOK(done[i]) /\ Still(done[i])
    BY PlaceIs DEF WorkOK
  <2>. DEFINE x == done[i]
  <2>. HIDE DEF x
  <2>2. CompOK(x)'
    BY <1>2, <2>1, CompStays DEF x
  <2>. QED  BY <2>2 DEF x
<1>6. ASSUME NEW i \in DOMAIN calls', IsCompletion(i)' PROVE CompOK(calls[i][2])'
  <2>. DEFINE j == i - Len(cs) + 1
  <2>1. j \in DOMAIN calls \ {1} /\ IsCompletion(j) /\ calls'[i] = calls[j]
    BY <1>1, <1>6
  <2>. HIDE DEF j
  <2>2. CompOK(calls[j][2]) /\ Still(calls[j][2])
    <3>1. <<"calls", j>> # <<"calls", 1>>
      BY <2>1
    <3>. QED  BY <2>1, <3>1, PlaceIs DEF WorkOK
  <2>3. PICK x : x = calls[j][2]
    OBVIOUS
  <2>4. CompOK(x) /\ Still(x)
    BY <2>2, <2>3
  <2>5. CompOK(x)'
    BY <1>2, <2>4, CompStays
  <2>6. calls'[i][2] = x
    BY <2>1, <2>3
  <2>. QED  BY <2>5, <2>6
<1>7. WorkOK'
  BY <1>3, <1>4, <1>5, <1>6 DEF WorkOK
<1>. DEFINE f == [p \in Places' |-> IF p[1] = "calls" THEN <<"calls", p[2] - Len(cs) + 1>> ELSE p]
<1>0. PICK new : new = <<"jobs", n>>
  OBVIOUS
<1>8. ASSUME NEW p \in Places' \ {new}
      PROVE  /\ p[1] \in {"jobs", "thr", "done", "calls"} /\ p = <<p[1], p[2]>>
             /\ p[1] = "calls" => /\ p[2] \in Nat /\ p[2] - Len(cs) + 1 \in DOMAIN calls
                                  /\ IsCompletion(p[2] - Len(cs) + 1)
                                  /\ calls'[p[2]] = calls[p[2] - Len(cs) + 1]
             /\ p[1] # "calls" => p \in Places /\ Work(p)' = Work(p)
  <2>1. CASE \E i \in DOMAIN calls' : IsCompletion(i)' /\ p = <<"calls", i>>
    <3>1. PICK i \in DOMAIN calls' : IsCompletion(i)' /\ p = <<"calls", i>>
      BY <2>1
    <3>. QED  BY <1>1, <3>1
  <2>2. CASE \E i \in DOMAIN jobs' : p = <<"jobs", i>>
    BY <1>0, <2>2 DEF Places, Work
  <2>3. CASE \E i \in DOMAIN done : p = <<"done", i>>
    BY <2>3 DEF Places, Work
  <2>4. CASE \E t \in Threads : (HasJob(t)' \/ HasComp(t)') /\ p = <<"thr", t>>
    <3>1. PICK t \in Threads : (HasJob(t)' \/ HasComp(t)') /\ p = <<"thr", t>>
      BY <2>4
    <3>2. thr'[t] = thr[t]
      BY <3>1 DEF Free, HasJob, HasComp
    <3>3. (HasJob(t)' <=> HasJob(t)) /\ (HasComp(t)' <=> HasComp(t))
      BY <3>2 DEF HasJob, HasComp
    <3>. QED  BY <3>1, <3>2, <3>3 DEF Places, Work
  <2>. QED  BY <2>1, <2>2, <2>3, <2>4 DEF Places
<1>9. ASSUME NEW p \in Places' \ {new}
      PROVE  f[p] \in Places /\ Work(p)'.slot = Work(f[p]).slot /\ Work(p)'.gen = Work(f[p]).gen
  <2>1. CASE p[1] = "calls"
    <3>. DEFINE j == p[2] - Len(cs) + 1
    <3>1. f[p] = <<"calls", j>> /\ j \in DOMAIN calls /\ IsCompletion(j) /\ calls'[p[2]] = calls[j]
      BY <1>8, <2>1
    <3>2. Work(p)' = calls'[p[2]][2]
      BY <2>1 DEF Work
    <3>. HIDE DEF j
    <3>3. f[p] \in Places /\ Work(f[p]) = calls[j][2]
      BY <3>1, PlaceIs
    <3>. QED  BY <3>1, <3>2, <3>3
  <2>2. CASE p[1] # "calls"
    BY <1>8, <2>2
  <2>. QED  BY <2>1, <2>2
<1>10. ASSUME NEW p \in Places' \ {new}, NEW q \in Places' \ {new}, p # q PROVE f[p] # f[q]
  <2>1. CASE p[1] = "calls" /\ q[1] = "calls"
    <3>1. p[2] # q[2] /\ p[2] \in Nat /\ q[2] \in Nat
      BY <1>8, <1>10, <2>1
    <3>2. p[2] - Len(cs) + 1 # q[2] - Len(cs) + 1
      BY <1>1, <3>1
    <3>. QED  BY <2>1, <3>2
  <2>2. CASE p[1] # "calls" /\ q[1] # "calls"
    BY <1>10, <2>2
  <2>3. CASE p[1] = "calls" /\ q[1] # "calls"
    <3>1. f[p][1] = "calls" /\ f[q] = q
      BY <2>3
    <3>. QED  BY <2>3, <3>1
  <2>4. CASE p[1] # "calls" /\ q[1] = "calls"
    <3>1. f[q][1] = "calls" /\ f[p] = p
      BY <2>4
    <3>. QED  BY <2>4, <3>1
  <2>. QED  BY <2>1, <2>2, <2>3, <2>4
<1>11. new \in Places' => \A p \in Places : \/ Work(new)'.slot # Work(p).slot
                                             \/ Work(new)'.gen # Work(p).gen
  BY <1>0 DEF Places, Work
<1>. HIDE DEF f
<1>12. LentOnce'
  <2>1. Carries(f, new)
    BY <1>9, <1>10, <1>11 DEF Carries
  <2>. QED  BY <2>1, LentMap
<1>. QED  BY <1>7, <1>12

-----------------------------------------------------------------------------
(* Steps of one slot and one client.                                       *)

\* Nothing happens to a client.
Same(d) ==
  /\ sent'[d] = sent[d] /\ fin'[d] = fin[d] /\ got'[d] = got[d]
  /\ inq'[d] = inq[d] /\ outq'[d] = outq[d] /\ link'[d] = link[d] /\ elsewhere'[d] = elsewhere[d]

\* Only this slot and this client's tables change.
Moves(s, c) ==
  /\ script' = script
  /\ sent' = [sent EXCEPT ![c] = sent'[c]] /\ fin' = [fin EXCEPT ![c] = fin'[c]]
  /\ got' = [got EXCEPT ![c] = got'[c]] /\ inq' = [inq EXCEPT ![c] = inq'[c]]
  /\ outq' = [outq EXCEPT ![c] = outq'[c]] /\ link' = [link EXCEPT ![c] = link'[c]]
  /\ elsewhere' = [elsewhere EXCEPT ![c] = elsewhere'[c]]
  /\ conns' = [conns EXCEPT ![s] = conns'[s]] /\ gens' = [gens EXCEPT ![s] = gens'[s]]

\* The shape of the tables, and what does not move.
LEMMA ShapeMoves ==
  ASSUME LoopShape, NEW c \in Clients, NEW s, Moves(s, c),
         fin'[c] \in BOOLEAN, link'[c] \in {"new", "backlog", "open", "closed"}, ClientShape(c)',
         s \in Slots => gens'[s] \in Nat,
         \A e \in ready' : e.slot \in Slots, IsSeq(calls'), Calls(calls'), IsSeq(done'), IsSeq(jobs'),
         thr' = [t \in Threads |-> thr'[t]]
  PROVE  /\ LoopShape'
         /\ \A d \in Clients \ {c} : Same(d)
         /\ \A r \in Slots \ {s} : conns'[r] = conns[r] /\ gens'[r] = gens[r]
<1>1. \A d \in Clients \ {c} : Same(d)
  BY DEF LoopShape, Moves, Same
<1>2. \A r \in Slots \ {s} : conns'[r] = conns[r] /\ gens'[r] = gens[r]
  BY DEF LoopShape, Moves
<1>3. \A d \in Clients : ClientShape(d)'
  BY <1>1 DEF LoopShape, ClientShape, Same, Moves
<1>4. /\ sent' = [d \in Clients |-> sent'[d]] /\ got' = [d \in Clients |-> got'[d]]
      /\ inq' = [d \in Clients |-> inq'[d]] /\ outq' = [d \in Clients |-> outq'[d]]
      /\ elsewhere' = [d \in Clients |-> elsewhere'[d]]
      /\ conns' = [r \in Slots |-> conns'[r]]
  BY DEF LoopShape, Moves
<1>5. /\ fin' \in [Clients -> BOOLEAN]
      /\ link' \in [Clients -> {"new", "backlog", "open", "closed"}]
      /\ gens' \in [Slots -> Nat]
  BY DEF LoopShape, Moves
<1>6. Calls(calls)' <=> Calls(calls')
  BY DEF Calls, Slots
<1>7. script' \in Scripts /\ \A e \in ready' : e.slot \in Slots'
  BY DEF LoopShape, Moves, Slots
<1>8. Slots' = Slots
  BY DEF Slots
<1>. QED  BY <1>1, <1>2, <1>3, <1>4, <1>5, <1>6, <1>7, <1>8 DEF LoopShape, IsSeq

\* An untouched slot of an untouched client is kept.
LEMMA SameKept ==
  ASSUME NEW r, ConnOK(r), conns'[r] = conns[r], gens'[r] = gens[r],
         conns[r] # None => Same(conns[r].client)
  PROVE  Kept(r)
BY DEF Kept, ConnOK, Same, Written

\* An untouched client keeps its place.
LEMMA ClientKept ==
  ASSUME NEW d, ClientOK(d), Same(d), HasSlot(d) => HasSlot(d)', script' = script
  PROVE  ClientOK(d)'
BY DEF ClientOK, Same, Begins

\* The other slots and clients stay as they should be.
LEMMA Around ==
  ASSUME ReplyInv, NEW c \in Clients, NEW s, script' = script,
         \A r \in Slots \ {s} : conns'[r] = conns[r] /\ gens'[r] = gens[r],
         \A d \in Clients \ {c} : Same(d),
         \A r \in Slots \ {s} : conns[r] # None => conns[r].client # c,
         s \in Slots /\ conns[s] # None => conns[s].client = c,
         s \in Slots /\ conns'[s] # None => conns'[s].client = c
  PROVE  /\ \A r \in Slots \ {s} : Kept(r) /\ ConnOK(r)'
         /\ \A d \in Clients \ {c} : ClientOK(d)'
         /\ OneSlotEach'
<1>1. \A r \in Slots : ConnOK(r) /\ (conns[r] # None => conns[r].client \in Clients)
  BY DEF ReplyInv, ConnOK, IsConn
<1>2. ASSUME NEW r \in Slots \ {s} PROVE Kept(r) /\ ConnOK(r)'
  <2>1. Kept(r)
    BY <1>1, SameKept
  <2>. QED  BY <1>1, <2>1, ConnKept
<1>3. ASSUME NEW d \in Clients \ {c} PROVE ClientOK(d)'
  <2>1. ASSUME HasSlot(d) PROVE HasSlot(d)'
    <3>1. PICK r \in Slots : conns[r] # None /\ conns[r].client = d
      BY <2>1 DEF HasSlot
    <3>2. r # s
      BY <3>1
    <3>. QED  BY <3>1, <3>2 DEF HasSlot, Slots
  <2>2. ClientOK(d)
    BY DEF ReplyInv
  <2>. QED  BY <2>1, <2>2, ClientKept
<1>4. OneSlotEach'
  <2>. SUFFICES ASSUME NEW r \in Slots, NEW q \in Slots, r # q, conns'[r] # None, conns'[q] # None
                PROVE  conns'[r].client # conns'[q].client
    BY DEF OneSlotEach, Slots
  <2>1. CASE r # s /\ q # s
    BY <2>1 DEF ReplyInv, OneSlotEach
  <2>. QED  BY <2>1
<1>. QED  BY <1>2, <1>3, <1>4

\* A connection's client has no other.
LEMMA NoOther ==
  ASSUME ReplyInv, NEW s \in Slots, conns[s] # None, NEW r \in Slots \ {s}, conns[r] # None
  PROVE  conns[r].client # conns[s].client
BY DEF ReplyInv, OneSlotEach

\* All of the invariant.
LEMMA Together ==
  ASSUME ReplyInv, NEW c \in Clients, NEW s, Moves(s, c),
         LoopShape', WorkOK', LentOnce',
         \A r \in Slots \ {s} : conns'[r] = conns[r] /\ gens'[r] = gens[r],
         \A d \in Clients \ {c} : Same(d),
         \A r \in Slots \ {s} : conns[r] # None => conns[r].client # c,
         s \in Slots /\ conns[s] # None => conns[s].client = c,
         s \in Slots /\ conns'[s] # None => conns'[s].client = c,
         s \in Slots => ConnOK(s)', ClientOK(c)'
  PROVE  ReplyInv'
<1>1. script' = script
  BY DEF Moves
<1>2. /\ \A r \in Slots \ {s} : ConnOK(r)'
      /\ \A d \in Clients \ {c} : ClientOK(d)'
      /\ OneSlotEach'
  BY <1>1, Around
<1>3. Slots' = Slots
  BY DEF Slots
<1>. QED  BY <1>2, <1>3 DEF ReplyInv

\* A step of the worker.
LEMMA WorkerStep ==
  ASSUME ReplyInv, NEW c \in Clients, NEW s \in Slots, Moves(s, c),
         calls # <<>>, NEW cs, IsSeq(cs), Then(cs), Calls(cs), \A i \in DOMAIN cs : cs[i][1] # "completion",
         jobs' = jobs, thr' = thr, done' = done,
         fin'[c] \in BOOLEAN, link'[c] \in {"new", "backlog", "open", "closed"}, ClientShape(c)',
         gens'[s] \in Nat, gens'[s] >= gens[s], \A e \in ready' : e.slot \in Slots,
         \A r \in Slots \ {s} : conns[r] # None => conns[r].client # c,
         conns[s] # None => conns[s].client = c,
         conns'[s] # None => conns'[s].client = c,
         \/ Kept(s)
         \/ Dropped(s)
         \/ \A p \in Places : p # <<"calls", 1>> /\ Work(p).slot = s => ~Live(Work(p)),
         ConnOK(s)', ClientOK(c)'
  PROVE  ReplyInv'
<1>1. LoopShape /\ WorkOK /\ LentOnce
  BY DEF ReplyInv
<1>2. IsSeq(calls') /\ Calls(calls')
  <2>1. IsSeq(calls) /\ Calls(calls)
    BY <1>1 DEF LoopShape
  <2>. QED  BY <2>1, CallsAfter DEF Calls
<1>3. IsSeq(jobs') /\ IsSeq(done') /\ thr' = [t \in Threads |-> thr'[t]]
  BY <1>1 DEF LoopShape
<1>4. /\ LoopShape'
      /\ \A d \in Clients \ {c} : Same(d)
      /\ \A r \in Slots \ {s} : conns'[r] = conns[r] /\ gens'[r] = gens[r]
  BY <1>1, <1>2, <1>3, ShapeMoves
<1>5. script' = script
  BY DEF Moves
<1>6. \A r \in Slots \ {s} : Kept(r)
  BY <1>4, <1>5, Around
<1>7. \A p \in Places : p # <<"calls", 1>> => Still(Work(p))
  <2>. SUFFICES ASSUME NEW p \in Places, p # <<"calls", 1>> PROVE Still(Work(p))
    OBVIOUS
  <2>1. Work(p).slot \in Slots
    BY <1>1, WorkShape
  <2>. QED  BY <1>6, <2>1 DEF Still
<1>8. gens' \in [Slots -> Nat]
  BY <1>4 DEF LoopShape, Slots
<1>9. WorkOK' /\ LentOnce'
  <2>1. PICK n \in Nat : n = 0
    OBVIOUS
  <2>2. n \notin DOMAIN jobs'
    BY <1>1, <2>1, LenProperties DEF LoopShape, IsSeq
  <2>. QED  BY <1>1, <1>5, <1>7, <1>8, <2>2, WorkShift
<1>. QED  BY <1>4, <1>9, Together

\* Work that stays where it is, but that one thread goes on with what it has.
LEMMA WorkPasses ==
  ASSUME LoopShape, WorkOK, LentOnce, NEW t,
         jobs' = jobs, done' = done, script' = script, gens' \in [Slots -> Nat],
         \A u \in Threads \ {t} : thr'[u] = thr[u],
         \A i \in DOMAIN calls' : IsCompletion(i)' =>
           i \in DOMAIN calls /\ IsCompletion(i) /\ calls'[i] = calls[i],
         t \in Threads => ThreadOK(t)',
         t \in Threads /\ (HasJob(t)' \/ HasComp(t)') =>
           /\ HasJob(t) \/ HasComp(t)
           /\ Work(<<"thr", t>>)'.slot = Work(<<"thr", t>>).slot
           /\ Work(<<"thr", t>>)'.gen = Work(<<"thr", t>>).gen,
         \A p \in Places : p # <<"thr", t>> => Still(Work(p))
  PROVE  WorkOK' /\ LentOnce'
<1>0. gens \in [Slots -> Nat]
  BY DEF LoopShape
<1>1. \A x : JobOK(x) /\ Still(x) => JobOK(x)'
  BY <1>0, JobStays
<1>2. \A x : CompOK(x) /\ Still(x) => CompOK(x)'
  BY <1>0, CompStays
<1>3. \A i \in DOMAIN jobs : JobOK(jobs[i])'
  <2>. SUFFICES ASSUME NEW i \in DOMAIN jobs PROVE JobOK(jobs[i])'
    OBVIOUS
  <2>1. JobOK(jobs[i]) /\ Still(jobs[i])
    BY PlaceIs DEF WorkOK
  <2>2. PICK x : x = jobs[i]
    OBVIOUS
  <2>3. JobOK(x)'
    BY <1>1, <2>1, <2>2
  <2>. QED  BY <2>2, <2>3
<1>4. ASSUME NEW u \in Threads \ {t} PROVE ThreadOK(u)'
  <2>1. ThreadOK(u) /\ <<"thr", u>> # <<"thr", t>>
    BY DEF WorkOK
  <2>2. ASSUME HasJob(u) PROVE JobOK(thr[u].job)'
    <3>1. JobOK(thr[u].job) /\ Still(thr[u].job)
      BY <2>1, <2>2, PlaceIs DEF ThreadOK
    <3>2. PICK x : x = thr[u].job
      OBVIOUS
    <3>3. JobOK(x)'
      BY <1>1, <3>1, <3>2
    <3>. QED  BY <3>2, <3>3
  <2>3. ASSUME HasComp(u) PROVE CompOK(thr[u].comp)'
    <3>1. CompOK(thr[u].comp) /\ Still(thr[u].comp)
      BY <2>1, <2>3, PlaceIs DEF ThreadOK
    <3>2. PICK x : x = thr[u].comp
      OBVIOUS
    <3>3. CompOK(x)'
      BY <1>2, <3>1, <3>2
    <3>. QED  BY <3>2, <3>3
  <2>4. (HasJob(u)' <=> HasJob(u)) /\ (HasComp(u)' <=> HasComp(u))
    BY DEF HasJob, HasComp
  <2>. QED  BY <2>1, <2>2, <2>3, <2>4 DEF ThreadOK
<1>5. \A i \in DOMAIN done : CompOK(done[i])'
  <2>. SUFFICES ASSUME NEW i \in DOMAIN done PROVE CompOK(done[i])'
    OBVIOUS
  <2>1. CompOK(done[i]) /\ Still(done[i])
    BY PlaceIs DEF WorkOK
  <2>2. PICK x : x = done[i]
    OBVIOUS
  <2>3. CompOK(x)'
    BY <1>2, <2>1, <2>2
  <2>. QED  BY <2>2, <2>3
<1>6. ASSUME NEW i \in DOMAIN calls', IsCompletion(i)' PROVE CompOK(calls[i][2])'
  <2>1. i \in DOMAIN calls /\ IsCompletion(i) /\ calls'[i] = calls[i]
    BY <1>6
  <2>2. CompOK(calls[i][2]) /\ Still(calls[i][2])
    BY <2>1, PlaceIs DEF WorkOK
  <2>3. PICK x : x = calls[i][2]
    OBVIOUS
  <2>4. CompOK(x)'
    BY <1>2, <2>2, <2>3
  <2>. QED  BY <2>1, <2>3, <2>4
<1>7. WorkOK'
  BY <1>3, <1>4, <1>5, <1>6 DEF WorkOK
<1>8. ASSUME NEW p \in Places'
      PROVE  p \in Places /\ Work(p)'.slot = Work(p).slot /\ Work(p)'.gen = Work(p).gen
  <2>1. CASE \E i \in DOMAIN calls' : IsCompletion(i)' /\ p = <<"calls", i>>
    BY <2>1 DEF Places, Work
  <2>2. CASE \/ \E i \in DOMAIN jobs : p = <<"jobs", i>>
             \/ \E i \in DOMAIN done : p = <<"done", i>>
    BY <2>2 DEF Places, Work
  <2>3. CASE \E u \in Threads \ {t} : (HasJob(u)' \/ HasComp(u)') /\ p = <<"thr", u>>
    <3>1. PICK u \in Threads \ {t} : (HasJob(u)' \/ HasComp(u)') /\ p = <<"thr", u>>
      BY <2>3
    <3>2. (HasJob(u)' <=> HasJob(u)) /\ (HasComp(u)' <=> HasComp(u))
      BY DEF HasJob, HasComp
    <3>. QED  BY <3>1, <3>2 DEF Places, Work
  <2>4. CASE t \in Threads /\ (HasJob(t)' \/ HasComp(t)') /\ p = <<"thr", t>>
    BY <2>4 DEF Places
  <2>5. p = <<"thr", t>> => t \in Threads /\ (HasJob(t)' \/ HasComp(t)')
    <3>. SUFFICES ASSUME p = <<"thr", t>> PROVE t \in Threads /\ (HasJob(t)' \/ HasComp(t)')
      OBVIOUS
    <3>. QED  BY DEF Places
  <2>. QED  BY <2>1, <2>2, <2>3, <2>4, <2>5 DEF Places
<1>9. LentOnce'
  <2>. DEFINE f == [p \in Places' |-> p]
  <2>1. \A p \in Places' : f[p] \in Places /\ Work(p)'.slot = Work(f[p]).slot /\ Work(p)'.gen = Work(f[p]).gen
    BY <1>8
  <2>2. \A p, q \in Places' : p # q => f[p] # f[q]
    OBVIOUS
  <2>3. \A p \in Places' : p # <<"none", 0>>
    BY <1>8 DEF Places
  <2>. HIDE DEF f
  <2>4. PICK x : x = <<"none", 0>>
    OBVIOUS
  <2>5. x \notin Places'
    BY <2>3, <2>4
  <2>6. Carries(f, x)
    BY <2>1, <2>2, <2>5 DEF Carries
  <2>. QED  BY <2>6, LentMap
<1>. QED  BY <1>7, <1>9

-----------------------------------------------------------------------------
(* What the worker's functions find.                                       *)

\* A connection and its client.
LEMMA ConnIs ==
  ASSUME ReplyInv, NEW s \in Slots, conns[s] # None
  PROVE  LET k == conns[s]
             c == k.client
         IN  /\ ConnOK(s) /\ IsConn(k) /\ k.gen = gens[s] /\ gens[s] \in Nat
             /\ c \in Clients /\ Ends(script[c]) /\ ClientShape(c)
             /\ k.rbuf \in Seq(Nat) /\ k.wbuf \in Seq(Nat)
             /\ link[c] = "open" /\ elsewhere[c] = <<>> /\ fin[c] \in BOOLEAN
             /\ Written(k) = (got[c] \o outq[c]) \o k.wbuf /\ Written(k) \in Seq(Nat)
             /\ Begins(c, Written(k)) /\ ClientOK(c)
<1>. DEFINE k == conns[s]
            c == k.client
<1>1. ConnOK(s) /\ IsConn(k) /\ k.gen = gens[s] /\ link[c] = "open" /\ elsewhere[c] = <<>>
  BY DEF ReplyInv, ConnOK
<1>2. c \in Clients /\ k.rbuf \in Seq(Nat) /\ k.wbuf \in Seq(Nat)
  BY <1>1 DEF IsConn
<1>3. ClientShape(c) /\ Ends(script[c]) /\ ClientOK(c) /\ fin[c] \in BOOLEAN /\ gens[s] \in Nat
  BY <1>2, ScriptIs DEF ReplyInv, LoopShape
<1>4. got[c] \in Seq(Nat) /\ outq[c] \in Seq(Nat) /\ sent[c] \in 0..Len(script[c])
  BY <1>3 DEF ClientShape
<1>5. Written(k) = (got[c] \o outq[c]) \o k.wbuf /\ Written(k) \in Seq(Nat)
  BY <1>2, <1>4, Regroup, ConcatProperties DEF Written
<1>6. Begins(c, Written(k))
  <2>1. CASE ~k.st
    BY <1>1, <2>1 DEF ConnOK
  <2>2. CASE Progress(c, Written(k), k.rbuf)
    BY <1>3, <1>4, <2>2, FollowsStarts DEF Progress, Begins
  <2>3. CASE AllDone(c, Written(k), "quit")
    BY <1>3, <2>3, StopsStarts DEF AllDone, Begins
  <2>4. k.st \in BOOLEAN
    BY <1>1 DEF IsConn
  <2>. QED  BY <1>1, <2>1, <2>2, <2>3, <2>4 DEF ConnOK
<1>. QED  BY <1>1, <1>2, <1>3, <1>5, <1>6

\* A client with a connection is where it should be.
LEMMA ServedClient ==
  ASSUME NEW c, NEW s \in Slots, conns'[s] # None, conns'[s].client = c, link'[c] = "open"
  PROVE  ClientOK(c)'
BY DEF ClientOK, HasSlot, Slots

\* The worker goes on with a connection.
LEMMA ConnGoesOn ==
  ASSUME ReplyInv, NEW s \in Slots, conns[s] # None, NEW c, c = conns[s].client,
         NEW k, IsConn(k), k.client = c, Update(s, k),
         calls # <<>>, NEW cs, IsSeq(cs), Then(cs), Calls(cs), \A i \in DOMAIN cs : cs[i][1] # "completion",
         UNCHANGED <<client, link, gens, jobs, thr, done, elsewhere>>,
         inq' = [inq EXCEPT ![c] = inq'[c]], outq' = [outq EXCEPT ![c] = outq'[c]], ClientShape(c)',
         \A e \in ready' : e.slot \in Slots,
         \/ Kept(s)
         \/ \A p \in Places : p # <<"calls", 1>> /\ Work(p).slot = s => ~Live(Work(p)),
         ConnOK(s)'
  PROVE  ReplyInv'
<1>1. c \in Clients /\ link[c] = "open" /\ fin[c] \in BOOLEAN /\ gens[s] \in Nat
  BY ConnIs
<1>2. conns'[s] = k /\ conns' = [conns EXCEPT ![s] = conns'[s]] /\ k # None
  BY ConnIsSome DEF ReplyInv, LoopShape, Update
<1>3. Moves(s, c)
  BY <1>1, <1>2 DEF Moves, client, ReplyInv, LoopShape
<1>4. ClientOK(c)'
  BY <1>1, <1>2, ServedClient
<1>5. \A r \in Slots \ {s} : conns[r] # None => conns[r].client # c
  BY NoOther
<1>6. fin'[c] \in BOOLEAN /\ link'[c] \in {"new", "backlog", "open", "closed"}
      /\ gens'[s] \in Nat /\ gens'[s] >= gens[s] /\ jobs' = jobs /\ thr' = thr /\ done' = done
  BY <1>1 DEF client
<1>. QED  BY <1>1, <1>2, <1>3, <1>4, <1>5, <1>6, WorkerStep

\* The worker releases a connection.
LEMMA ConnGoes ==
  ASSUME ReplyInv, NEW s \in Slots, conns[s] # None, NEW c, c = conns[s].client, Release(s),
         calls # <<>>, NEW cs, IsSeq(cs), Then(cs), Calls(cs), \A i \in DOMAIN cs : cs[i][1] # "completion",
         UNCHANGED <<client, jobs, thr, done>>,
         inq' = [inq EXCEPT ![c] = inq'[c]], outq' = [outq EXCEPT ![c] = outq'[c]],
         link' = [link EXCEPT ![c] = link'[c]], elsewhere' = [elsewhere EXCEPT ![c] = elsewhere'[c]],
         link'[c] \in {"new", "backlog", "open", "closed"}, ClientShape(c)',
         \A e \in ready' : e.slot \in Slots,
         \/ Dropped(s)
         \/ \A p \in Places : p # <<"calls", 1>> /\ Work(p).slot = s => ~Live(Work(p)),
         ClientOK(c)'
  PROVE  ReplyInv'
<1>1. c \in Clients /\ fin[c] \in BOOLEAN /\ gens[s] \in Nat
  BY ConnIs
<1>2. /\ conns'[s] = None /\ conns' = [conns EXCEPT ![s] = conns'[s]]
      /\ gens'[s] = gens[s] + 1 /\ gens' = [gens EXCEPT ![s] = gens'[s]]
  BY DEF ReplyInv, LoopShape, Release
<1>3. Moves(s, c)
  BY <1>1, <1>2 DEF Moves, client, ReplyInv, LoopShape
<1>4. ConnOK(s)'
  BY <1>2 DEF ConnOK, None
<1>5. \A r \in Slots \ {s} : conns[r] # None => conns[r].client # c
  BY NoOther
<1>6. fin'[c] \in BOOLEAN /\ gens'[s] \in Nat /\ gens'[s] >= gens[s] /\ jobs' = jobs /\ thr' = thr /\ done' = done
  BY <1>1, <1>2 DEF client
<1>. QED  BY <1>1, <1>2, <1>3, <1>4, <1>5, <1>6, WorkerStep

\* The worker goes on, and nothing else happens.
LEMMA OnlyCalls ==
  ASSUME ReplyInv, calls # <<>>, NEW cs, IsSeq(cs), Then(cs), Calls(cs),
         \A i \in DOMAIN cs : cs[i][1] # "completion",
         UNCHANGED <<client, socket, conns, gens, jobs, thr, done, elsewhere>>,
         \A e \in ready' : e.slot \in Slots
  PROVE  ReplyInv'
<1>1. LoopShape /\ WorkOK /\ LentOnce /\ script' = script
  BY DEF ReplyInv, client
<1>2. LoopShape'
  <2>1. IsSeq(calls) /\ Calls(calls)
    BY <1>1 DEF LoopShape
  <2>2. IsSeq(calls') /\ Calls(calls')
    BY <2>1, CallsAfter DEF Calls
  <2>3. Calls(calls)' <=> Calls(calls')
    BY DEF Calls, Slots
  <2>4. \A d \in Clients : ClientShape(d)'
    BY <1>1 DEF LoopShape, ClientShape, client, socket
  <2>. QED  BY <1>1, <2>2, <2>3, <2>4 DEF LoopShape, IsSeq, Slots, client, socket
<1>3. \A d \in Clients : Same(d)
  BY DEF Same, client, socket
<1>4. \A r \in Slots : ConnOK(r) /\ Kept(r)
  <2>. SUFFICES ASSUME NEW r \in Slots PROVE ConnOK(r) /\ Kept(r)
    OBVIOUS
  <2>1. ConnOK(r) /\ (conns[r] # None => conns[r].client \in Clients)
    BY DEF ReplyInv, ConnOK, IsConn
  <2>. QED  BY <1>3, <2>1, SameKept
<1>5. WorkOK' /\ LentOnce'
  <2>1. \A p \in Places : p # <<"calls", 1>> => Still(Work(p))
    BY <1>1, <1>4, WorkShape DEF Still
  <2>2. gens' \in [Slots -> Nat] /\ jobs' = jobs /\ thr' = thr /\ done' = done
    BY <1>1 DEF LoopShape
  <2>3. PICK n \in Nat : n = 0
    OBVIOUS
  <2>4. n \notin DOMAIN jobs'
    BY <1>1, <2>2, <2>3, LenProperties DEF LoopShape, IsSeq
  <2>. QED  BY <1>1, <2>1, <2>2, <2>4, WorkShift
<1>6. \A r \in Slots : ConnOK(r)'
  BY <1>1, <1>4, ConnKept
<1>7. \A d \in Clients : ClientOK(d)'
  <2>. SUFFICES ASSUME NEW d \in Clients PROVE ClientOK(d)'
    OBVIOUS
  <2>1. ClientOK(d) /\ (HasSlot(d) => HasSlot(d)')
    BY DEF ReplyInv, HasSlot, Slots
  <2>. QED  BY <1>1, <1>3, <2>1, ClientKept
<1>8. OneSlotEach'
  BY DEF ReplyInv, OneSlotEach, Slots
<1>9. Slots' = Slots
  BY DEF Slots
<1>. QED  BY <1>2, <1>5, <1>6, <1>7, <1>8, <1>9 DEF ReplyInv

\* The calls that a function leaves.
LEMMA CallsAre ==
  /\ IsSeq(<<>>) /\ Calls(<<>>) /\ \A i \in DOMAIN <<>> : <<>>[i][1] # "completion"
  /\ \A s \in Slots : \A f \in {"readable", "process", "flush"} :
       LET cs == << <<f, s>> >>
       IN  IsSeq(cs) /\ Calls(cs) /\ \A i \in DOMAIN cs : cs[i][1] # "completion"
  /\ \A s \in Slots :
       LET cs == << <<"readable", s>>, <<"accept">> >>
       IN  IsSeq(cs) /\ Calls(cs) /\ \A i \in DOMAIN cs : cs[i][1] # "completion"
<1>1. IsSeq(<<>>) /\ Calls(<<>>) /\ \A i \in DOMAIN <<>> : <<>>[i][1] # "completion"
  BY DEF IsSeq, Calls
<1>2. ASSUME NEW s \in Slots, NEW f \in {"readable", "process", "flush"}, NEW cs, cs = << <<f, s>> >>
      PROVE  IsSeq(cs) /\ Calls(cs) /\ \A i \in DOMAIN cs : cs[i][1] # "completion"
  <2>1. DOMAIN cs = {1} /\ cs[1] = <<f, s>>
    BY <1>2
  <2>2. cs \in Seq({<<f, s>>})
    BY <1>2
  <2>. QED  BY <2>1, <2>2, SeqOfElements DEF Calls
<1>3. ASSUME NEW s \in Slots, NEW cs, cs = << <<"readable", s>>, <<"accept">> >>
      PROVE  IsSeq(cs) /\ Calls(cs) /\ \A i \in DOMAIN cs : cs[i][1] # "completion"
  <2>1. DOMAIN cs = {1, 2} /\ cs[1] = <<"readable", s>> /\ cs[2] = <<"accept">>
    BY <1>3
  <2>2. cs \in Seq({<<"readable", s>>, <<"accept">>})
    BY <1>3
  <2>. QED  BY <2>1, <2>2, SeqOfElements DEF Calls
<1>. QED  BY <1>1, <1>2, <1>3

-----------------------------------------------------------------------------
(* The worker's functions.                                                 *)

\* The slot of a call.
LEMMA ArgIs ==
  ASSUME ReplyInv, NEW f, Now(f)
  PROVE  /\ calls # <<>> /\ 1 \in DOMAIN calls /\ calls[1][1] = f
         /\ f \in {"readable", "process", "flush"} => Arg \in Slots
<1>1. IsSeq(calls) /\ Calls(calls) /\ calls # <<>> /\ calls[1][1] = f
  BY DEF ReplyInv, LoopShape, Now
<1>2. 1 \in DOMAIN calls
  BY <1>1, LenProperties, EmptySeq DEF IsSeq
<1>. QED  BY <1>1, <1>2 DEF Calls, Arg

\* Nothing of the pool's is at the slot of a connection that the worker has.
LEMMA NotLent ==
  ASSUME ReplyInv, NEW s \in Slots, conns[s] = None \/ conns[s].st
  PROVE  \A p \in Places : p # <<"calls", 1>> /\ Work(p).slot = s => ~Live(Work(p))
BY Unlent DEF ReplyInv

\* readable of a connection that the pool has.
LEMMA ReadableOwnedStep ==
  ASSUME ReplyInv, Now("readable"), conns[Arg] # None, ReadableOwned(Arg, conns[Arg]),
         UNCHANGED <<client, ready, pool, done, wake, elsewhere>>
  PROVE  ReplyInv'
<1>1. PICK s : s = Arg
  OBVIOUS
<1>2. calls # <<>> /\ s \in Slots /\ conns[s] # None
  BY <1>1, ArgIs
<1>3. PICK k : k = conns[s]
  OBVIOUS
<1>4. PICK c : c = k.client
  OBVIOUS
<1>5. PICK r : r = [k EXCEPT !.more = TRUE]
  OBVIOUS
<1>6. /\ Update(s, r) /\ Then(<<>>) /\ UNCHANGED <<inq, outq, blocked, link, gens>>
  BY <1>1, <1>3, <1>5 DEF ReadableOwned, socket
<1>7. ConnOK(s) /\ IsConn(k) /\ c \in Clients /\ ClientShape(c)
  BY <1>2, <1>3, <1>4, ConnIs
<1>8. /\ IsConn(r) /\ r.client = k.client /\ r.gen = k.gen /\ r.rbuf = k.rbuf /\ r.wbuf = k.wbuf
      /\ r.st = k.st /\ r.closing = k.closing
  BY <1>5, <1>7 DEF IsConn
<1>9. conns'[s] = r /\ \A e \in ready' : e.slot \in Slots
  BY <1>2, <1>6 DEF ReplyInv, LoopShape, Update
<1>10. Kept(s)
  BY <1>2, <1>3, <1>4, <1>6, <1>8, <1>9 DEF Kept, Written, client
<1>11. ConnOK(s)'
  BY <1>7, <1>10, ConnKept DEF client
<1>12. ClientShape(c)' /\ inq' = [inq EXCEPT ![c] = inq'[c]] /\ outq' = [outq EXCEPT ![c] = outq'[c]]
  BY <1>6, <1>7 DEF ClientShape, client, ReplyInv, LoopShape
<1>13. r.client = c /\ c = conns[s].client /\ UNCHANGED <<client, link, gens, jobs, thr, done, elsewhere>>
  BY <1>3, <1>4, <1>6, <1>8 DEF pool
<1>14. IsSeq(<<>>) /\ Calls(<<>>) /\ \A i \in DOMAIN <<>> : <<>>[i][1] # "completion"
  BY CallsAre
<1>. QED  BY <1>2, <1>6, <1>8, <1>9, <1>10, <1>11, <1>12, <1>13, <1>14, ConnGoesOn

\* readable of one that it does not have.
LEMMA ReadableDrainsStep ==
  ASSUME ReplyInv, Now("readable"), conns[Arg] # None, ReadableDrains(Arg, conns[Arg]),
         UNCHANGED <<client, ready, pool, done, wake, elsewhere>>
  PROVE  ReplyInv'
<1>1. PICK s : s = Arg
  OBVIOUS
<1>2. calls # <<>> /\ s \in Slots /\ conns[s] # None
  BY <1>1, ArgIs
<1>3. PICK k : k = conns[s]
  OBVIOUS
<1>4. PICK c : c = k.client
  OBVIOUS
<1>5. /\ ConnOK(s) /\ IsConn(k) /\ k.gen = gens[s] /\ c \in Clients /\ ClientShape(c) /\ Ends(script[c])
      /\ link[c] = "open" /\ elsewhere[c] = <<>> /\ k.rbuf \in Seq(Nat) /\ k.wbuf \in Seq(Nat)
      /\ Written(k) = (got[c] \o outq[c]) \o k.wbuf /\ Written(k) \in Seq(Nat)
      /\ Begins(c, Written(k))
  BY <1>2, <1>3, <1>4, ConnIs
<1>6. PICK n : n = IF Accepts(k) THEN Len(inq[c])
                   ELSE Low(Len(inq[c]), PausedLimit + 1 - Low(PausedLimit + 1, Len(k.rbuf)))
  OBVIOUS
<1>7. inq[c] \in Seq(Nat) /\ sent[c] \in Nat /\ got[c] \in Seq(Nat) /\ outq[c] \in Seq(Nat)
  <2>1. Len(script[c]) \in Nat
    BY <1>5, WantedIs
  <2>. QED  BY <1>5, <2>1 DEF ClientShape
<1>8. n \in Nat
  <2>1. Len(inq[c]) \in Nat /\ Len(k.rbuf) \in Nat /\ PausedLimit \in Nat
    BY <1>5, <1>7, LenProperties, LimitsAreNumbers
  <2>2. Low(PausedLimit + 1, Len(k.rbuf)) \in 0..PausedLimit + 1
    BY <2>1 DEF Low
  <2>3. PICK room : room = PausedLimit + 1 - Low(PausedLimit + 1, Len(k.rbuf))
    OBVIOUS
  <2>4. room \in Nat
    BY <2>1, <2>2, <2>3
  <2>5. n = Len(inq[c]) \/ n = room
    BY <1>6, <2>3 DEF Low
  <2>. QED  BY <2>1, <2>4, <2>5
<1>9. PICK a \in Seq(Nat) : a = Take(inq[c], n)
  BY <1>7, <1>8, TakeDrop
<1>10. PICK b \in Seq(Nat) : b = Drop(inq[c], n)
  BY <1>7, <1>8, TakeDrop
<1>11. inq[c] = a \o b
  BY <1>7, <1>8, <1>9, <1>10, TakeDrop
<1>12. PICK buf : buf = k.rbuf \o a
  OBVIOUS
<1>13. PICK lim : lim = (~Accepts(k) /\ Len(buf) > PausedLimit)
  OBVIOUS
<1>14. /\ k.st /\ inq' = [inq EXCEPT ![c] = b] /\ UNCHANGED <<outq, blocked>>
       /\ \/ /\ fin[c] /\ Release(s) /\ link' = [link EXCEPT ![c] = "closed"] /\ Then(<<>>)
          \/ /\ Update(s, [k EXCEPT !.rbuf = buf, !.more = lim])
             /\ Then(IF Accepts(k) THEN << <<"process", s>> >> ELSE <<>>)
             /\ UNCHANGED <<gens, link>>
  BY <1>1, <1>3, <1>4, <1>6, <1>9, <1>10, <1>12, <1>13 DEF ReadableDrains
<1>15. /\ inq'[c] = b /\ inq' = [inq EXCEPT ![c] = inq'[c]] /\ outq' = [outq EXCEPT ![c] = outq'[c]]
       /\ \A e \in ready' : e.slot \in Slots
       /\ UNCHANGED <<sent, fin, got, script, outq, elsewhere, jobs, thr, done>>
  BY <1>5, <1>14 DEF client, pool, ReplyInv, LoopShape
<1>16. ClientShape(c)'
  BY <1>5, <1>15 DEF ClientShape
<1>17. \A p \in Places : p # <<"calls", 1>> /\ Work(p).slot = s => ~Live(Work(p))
  BY <1>2, <1>3, <1>14, NotLent
<1>18. CASE fin[c] /\ Release(s) /\ link' = [link EXCEPT ![c] = "closed"] /\ Then(<<>>)
  <2>1. link'[c] = "closed" /\ link' = [link EXCEPT ![c] = link'[c]]
    BY <1>5, <1>18 DEF ReplyInv, LoopShape
  <2>2. elsewhere' = [elsewhere EXCEPT ![c] = elsewhere'[c]]
    BY <1>15 DEF ReplyInv, LoopShape
  <2>3. Begins(c, got[c] \o outq[c])
    <3>1. got[c] \o outq[c] \in Seq(Nat)
      BY <1>7, ConcatProperties
    <3>. QED  BY <1>5, <3>1, StartsPart DEF Begins
  <2>4. ClientOK(c)'
    BY <1>5, <1>15, <1>18, <2>1, <2>3 DEF ClientOK, Begins
  <2>5. IsSeq(<<>>) /\ Calls(<<>>) /\ \A i \in DOMAIN <<>> : <<>>[i][1] # "completion"
    BY CallsAre
  <2>6. UNCHANGED <<client, jobs, thr, done>>
    BY DEF pool
  <2>7. link'[c] \in {"new", "backlog", "open", "closed"} /\ c = conns[s].client
    BY <1>3, <1>4, <2>1
  <2>8. /\ inq' = [inq EXCEPT ![c] = inq'[c]] /\ outq' = [outq EXCEPT ![c] = outq'[c]]
        /\ \A e \in ready' : e.slot \in Slots
    BY <1>15
  <2>9. Release(s) /\ Then(<<>>)
    BY <1>18
  <2>. QED  BY ONLY ReplyInv, <1>2, <1>16, <1>17, <2>1, <2>2, <2>4, <2>5, <2>6, <2>7, <2>8, <2>9, ConnGoes
<1>19. CASE /\ Update(s, [k EXCEPT !.rbuf = buf, !.more = lim])
            /\ Then(IF Accepts(k) THEN << <<"process", s>> >> ELSE <<>>)
            /\ UNCHANGED <<gens, link>>
  <2>1. PICK r : r = [k EXCEPT !.rbuf = buf, !.more = lim]
    OBVIOUS
  <2>2. buf \in Seq(Nat) /\ lim \in BOOLEAN
    BY <1>5, <1>12, <1>13, ConcatProperties
  <2>3. /\ IsConn(r) /\ r.client = c /\ r.gen = k.gen /\ r.rbuf = buf /\ r.wbuf = k.wbuf
        /\ r.st = k.st /\ r.closing = k.closing
    BY <1>4, <1>5, <2>1, <2>2 DEF IsConn
  <2>4. conns'[s] = r /\ Update(s, r)
    BY <1>2, <1>19, <2>1 DEF ReplyInv, LoopShape, Update
  <2>5. Written(conns[s])' = Written(k)
    BY <1>15, <2>3, <2>4, <1>4 DEF Written
  <2>6. Progress(c, Written(k), k.rbuf) => Follows(script[c], sent[c], b, Written(k), buf)
    <3>. SUFFICES ASSUME Progress(c, Written(k), k.rbuf)
                  PROVE  Follows(script[c], sent[c], b, Written(k), buf)
      OBVIOUS
    <3>1. PICK w : w = Written(k)
      OBVIOUS
    <3>2. Follows(script[c], sent[c], inq[c], w, k.rbuf)
      BY <3>1 DEF Progress
    <3>3. Follows(script[c], sent[c], b, w, k.rbuf \o a)
      BY <1>5, <1>7, <1>11, <3>2, FollowsRead
    <3>. QED  BY <1>12, <3>1, <3>3
  <2>7. IsConn(r)' <=> IsConn(r)
    BY DEF IsConn
  <2>8. \/ Progress(c, Written(k), k.rbuf) /\ (k.closing => fin[c])
        \/ k.closing /\ AllDone(c, Written(k), "quit")
    BY <1>3, <1>4, <1>2, <1>5, <1>14 DEF ConnOK
  <2>9. \/ Follows(script'[c], sent'[c], inq'[c], Written(k), r.rbuf) /\ (r.closing => fin'[c])
        \/ r.closing /\ Stops(script'[c], "quit", Written(k))
    BY <1>15, <2>3, <2>6, <2>8 DEF AllDone
  <2>10. r.gen = gens'[s] /\ link'[c] = "open" /\ elsewhere'[c] = <<>> /\ r.st /\ IsConn(conns[s])'
    BY <1>5, <1>14, <1>15, <1>19, <2>3, <2>4, <2>7
  <2>11. ConnOK(s)'
    BY <2>3, <2>4, <2>5, <2>9, <2>10 DEF ConnOK, Progress, AllDone
  <2>12. PICK cs : cs = IF Accepts(k) THEN << <<"process", s>> >> ELSE <<>>
    OBVIOUS
  <2>13. IsSeq(cs) /\ Calls(cs) /\ Then(cs) /\ \A i \in DOMAIN cs : cs[i][1] # "completion"
    BY <1>2, <1>19, <2>12, CallsAre
  <2>14. UNCHANGED <<client, link, gens, jobs, thr, done, elsewhere>>
    BY <1>19 DEF pool
  <2>. QED  BY <1>2, <1>3, <1>4, <1>15, <1>16, <1>17, <2>3, <2>4, <2>11, <2>13, <2>14, ConnGoesOn
<1>. QED  BY <1>14, <1>18, <1>19

\* readable.
LEMMA ReadableStep == ASSUME ReplyInv, Readable PROVE ReplyInv'
<1>1. Now("readable") /\ UNCHANGED <<client, ready, pool, done, wake, elsewhere>>
  BY DEF Readable
<1>2. CASE conns[Arg] = None /\ Then(<<>>) /\ UNCHANGED <<socket, conns, gens>>
  <2>1. IsSeq(<<>>) /\ Calls(<<>>) /\ \A i \in DOMAIN <<>> : <<>>[i][1] # "completion"
    BY CallsAre
  <2>2. UNCHANGED <<client, socket, conns, gens, jobs, thr, done, elsewhere>> /\ Then(<<>>)
    BY <1>1, <1>2 DEF pool
  <2>3. calls # <<>> /\ \A e \in ready' : e.slot \in Slots
    BY <1>1, ArgIs DEF ReplyInv, LoopShape
  <2>. QED  BY <2>1, <2>2, <2>3, OnlyCalls
<1>3. CASE conns[Arg] # None /\ ReadableOwned(Arg, conns[Arg])
  BY <1>1, <1>3, ReadableOwnedStep
<1>4. CASE conns[Arg] # None /\ ReadableDrains(Arg, conns[Arg])
  BY <1>1, <1>4, ReadableDrainsStep
<1>. QED  BY <1>2, <1>3, <1>4 DEF Readable

\* accept_all.
LEMMA AcceptStep == ASSUME ReplyInv, AcceptAll PROVE ReplyInv'
<1>1. /\ Now("accept") /\ calls # <<>>
      /\ UNCHANGED <<client, inq, outq, blocked, gens, pool, done, wake, elsewhere>>
  BY ArgIs DEF AcceptAll
<1>2. CASE Then(<<>>) /\ UNCHANGED <<conns, link, ready>>
  <2>1. IsSeq(<<>>) /\ Calls(<<>>) /\ \A i \in DOMAIN <<>> : <<>>[i][1] # "completion"
    BY CallsAre
  <2>2. UNCHANGED <<client, socket, conns, gens, jobs, thr, done, elsewhere>> /\ Then(<<>>)
    BY <1>1, <1>2 DEF pool, socket
  <2>3. \A e \in ready' : e.slot \in Slots
    BY <1>2 DEF ReplyInv, LoopShape
  <2>. QED  BY <1>1, <2>1, <2>2, <2>3, OnlyCalls
<1>3. ASSUME NEW c \in Clients, NEW s \in Slots,
             link[c] = "backlog", conns[s] = None,
             Update(s, [client |-> c, gen |-> gens[s], rbuf |-> <<>>, wbuf |-> <<>>, st |-> TRUE,
                        closing |-> FALSE, more |-> FALSE, muted |-> FALSE]),
             link' = [link EXCEPT ![c] = "open"], ready' = ready \cup {Token(s)},
             Then(<< <<"readable", s>>, <<"accept">> >>)
      PROVE  ReplyInv'
  <2>1. PICK k : k = [client |-> c, gen |-> gens[s], rbuf |-> <<>>, wbuf |-> <<>>, st |-> TRUE,
                      closing |-> FALSE, more |-> FALSE, muted |-> FALSE]
    OBVIOUS
  <2>2. <<>> \in Seq(Nat)
    OBVIOUS
  <2>3. /\ IsConn(k) /\ k.client = c /\ k.gen = gens[s] /\ k.rbuf = <<>> /\ k.wbuf = <<>>
        /\ k.st = TRUE /\ k.closing = FALSE /\ k # None
    BY <2>1, <2>2, ConnIsSome DEF IsConn
  <2>4. ClientOK(c) /\ ClientShape(c) /\ fin[c] \in BOOLEAN /\ gens[s] \in Nat /\ Ends(script[c])
    BY ScriptIs DEF ReplyInv, LoopShape
  <2>5. /\ got[c] = <<>> /\ outq[c] = <<>> /\ elsewhere[c] = <<>> /\ inq[c] = Run(0, sent[c])
        /\ sent[c] \in Nat
    <3>1. Len(script[c]) \in Nat
      BY <2>4, WantedIs
    <3>. QED  BY <1>3, <2>4, <3>1 DEF ClientOK, ClientShape
  <2>6. /\ conns'[s] = k /\ conns' = [conns EXCEPT ![s] = conns'[s]]
        /\ link'[c] = "open" /\ link' = [link EXCEPT ![c] = link'[c]]
    BY <1>3, <2>1 DEF ReplyInv, LoopShape, Update
  <2>7. Moves(s, c)
    BY <1>1, <2>6 DEF Moves, client, ReplyInv, LoopShape
  <2>8. ClientShape(c)'
    BY <1>1, <2>4 DEF ClientShape, client
  <2>9. UNCHANGED <<script, sent, fin, got, inq, outq, elsewhere, gens, jobs, thr, done>>
    BY <1>1 DEF client, pool
  <2>10. Written(conns[s])' = <<>>
    BY <2>3, <2>5, <2>6, <2>9 DEF Written
  <2>11. Progress(c, Written(conns[s]), <<>>)'
    <3>1. Follows(script[c], sent[c], Run(0, sent[c]), <<>>, <<>>)
      BY <2>5, FollowsFirst
    <3>. QED  BY <2>5, <2>9, <2>10, <3>1 DEF Progress
  <2>12. IsConn(conns[s])'
    BY <2>3, <2>6 DEF IsConn
  <2>13. ConnOK(s)'
    BY <2>3, <2>5, <2>6, <2>9, <2>11, <2>12 DEF ConnOK
  <2>14. ClientOK(c)'
    BY <2>3, <2>6, ServedClient
  <2>15. \A r \in Slots \ {s} : conns[r] # None => conns[r].client # c
    BY <1>3 DEF ReplyInv, ConnOK
  <2>16. \A e \in ready' : e.slot \in Slots
    BY <1>3 DEF ReplyInv, LoopShape, Token
  <2>17. \A p \in Places : p # <<"calls", 1>> /\ Work(p).slot = s => ~Live(Work(p))
    BY <1>3, NotLent
  <2>18. PICK cs : cs = << <<"readable", s>>, <<"accept">> >>
    OBVIOUS
  <2>19. IsSeq(cs) /\ Calls(cs) /\ Then(cs) /\ \A i \in DOMAIN cs : cs[i][1] # "completion"
    BY <1>3, <2>18, CallsAre
  <2>20. /\ fin'[c] \in BOOLEAN /\ link'[c] \in {"new", "backlog", "open", "closed"}
         /\ gens'[s] \in Nat /\ gens'[s] >= gens[s] /\ jobs' = jobs /\ thr' = thr /\ done' = done
         /\ conns[s] = None /\ conns'[s].client = c /\ c \in Clients /\ s \in Slots
    BY <1>3, <2>3, <2>4, <2>6, <2>9
  <2>. QED  BY ONLY ReplyInv, <1>1, <2>7, <2>8, <2>13, <2>14, <2>15, <2>16, <2>17, <2>19, <2>20, WorkerStep
<1>. QED  BY <1>2, <1>3 DEF AcceptAll

-----------------------------------------------------------------------------
(* process, completions and flush.                                         *)

\* A batch ended with the replies w, the worker goes on with k and the calls cs.
BatchEnds(s, c, k, end, cs, w) ==
  /\ s \in Slots /\ conns[s] # None /\ c = conns[s].client
  /\ IsConn(k) /\ k.client = c /\ k.gen = gens[s] /\ k.st
  /\ IsSeq(cs) /\ Calls(cs) /\ \A i \in DOMAIN cs : cs[i][1] # "completion"
  /\ calls # <<>> /\ FinishBatch(s, k, end, cs)
  /\ UNCHANGED <<client, socket, jobs, thr, done>>
  /\ \A e \in ready' : e.slot \in Slots
  /\ \A p \in Places : p # <<"calls", 1>> /\ Work(p).slot = s => ~Live(Work(p))
  /\ w = got[c] \o outq[c] \o k.wbuf
  /\ end = "continue" => Follows(script[c], sent[c], inq[c], w, k.rbuf) /\ (k.closing => fin[c])
  /\ end # "continue" => Stops(script[c], end, w)

\* finish_batch.
LEMMA BatchFinishes ==
  ASSUME ReplyInv, NEW s, NEW c, NEW k, NEW end, NEW cs, NEW w, BatchEnds(s, c, k, end, cs, w)
  PROVE  ReplyInv'
<1>. SUFFICES ASSUME s \in Slots, conns[s] # None, c = conns[s].client,
                     IsConn(k), k.client = c, k.gen = gens[s], k.st,
                     IsSeq(cs), Calls(cs), \A i \in DOMAIN cs : cs[i][1] # "completion",
                     calls # <<>>, FinishBatch(s, k, end, cs),
                     UNCHANGED <<client, socket, jobs, thr, done>>,
                     \A e \in ready' : e.slot \in Slots,
                     \A p \in Places : p # <<"calls", 1>> /\ Work(p).slot = s => ~Live(Work(p)),
                     w = got[c] \o outq[c] \o k.wbuf,
                     end = "continue" => /\ Follows(script[c], sent[c], inq[c], w, k.rbuf)
                                         /\ k.closing => fin[c],
                     end # "continue" => Stops(script[c], end, w)
              PROVE  ReplyInv'
  BY DEF BatchEnds
<1>1. /\ c \in Clients /\ ClientShape(c) /\ Ends(script[c]) /\ link[c] = "open" /\ elsewhere[c] = <<>>
      /\ gens[s] \in Nat
  BY ConnIs
<1>2. UNCHANGED <<script, sent, fin, got, inq, outq, link, jobs, thr, done>>
  BY DEF client, socket
<1>3. /\ inq' = [inq EXCEPT ![c] = inq'[c]] /\ outq' = [outq EXCEPT ![c] = outq'[c]]
      /\ link' = [link EXCEPT ![c] = link'[c]] /\ link'[c] = "open"
  BY <1>1, <1>2 DEF ReplyInv, LoopShape
<1>4. IsSeq(<<>>) /\ Calls(<<>>) /\ \A i \in DOMAIN <<>> : <<>>[i][1] # "completion"
  BY CallsAre
<1>5. ASSUME NEW r, IsConn(r), r.client = c, r.gen = gens[s], r.st, r.wbuf = k.wbuf, Update(s, r),
             NEW ds, IsSeq(ds), Calls(ds), \A i \in DOMAIN ds : ds[i][1] # "completion", Then(ds),
             UNCHANGED <<gens, elsewhere>>,
             \/ Follows(script[c], sent[c], inq[c], w, r.rbuf) /\ (r.closing => fin[c])
             \/ r.closing /\ Stops(script[c], "quit", w)
      PROVE  ReplyInv'
  <2>1. conns'[s] = r
    BY <1>5 DEF ReplyInv, LoopShape, Update
  <2>2. Written(conns[s])' = w
    BY <1>2, <1>5, <2>1 DEF Written
  <2>3. IsConn(conns[s])'
    BY <1>5, <2>1 DEF IsConn
  <2>4. ConnOK(s)'
    BY <1>1, <1>2, <1>5, <2>1, <2>2, <2>3 DEF ConnOK, Progress, AllDone
  <2>5. ClientShape(c)'
    BY <1>1, <1>2, <1>5 DEF ClientShape
  <2>6. UNCHANGED <<client, link, gens, jobs, thr, done, elsewhere>>
    BY <1>2, <1>5
  <2>. QED  BY <1>3, <1>5, <2>4, <2>5, <2>6, ConnGoesOn
<1>6. CASE end = "continue" /\ Update(s, k) /\ Then(cs) /\ UNCHANGED <<gens, elsewhere>>
  BY <1>5, <1>6
<1>7. CASE /\ end = "quit"
           /\ Update(s, [k EXCEPT !.closing = TRUE]) /\ Then(<< <<"flush", s>> >>)
           /\ UNCHANGED <<gens, elsewhere>>
  <2>1. PICK r : r = [k EXCEPT !.closing = TRUE]
    OBVIOUS
  <2>2. /\ IsConn(r) /\ r.client = c /\ r.gen = gens[s] /\ r.st /\ r.wbuf = k.wbuf /\ r.closing
    BY <2>1 DEF IsConn
  <2>3. PICK ds : ds = << <<"flush", s>> >>
    OBVIOUS
  <2>4. IsSeq(ds) /\ Calls(ds) /\ (\A i \in DOMAIN ds : ds[i][1] # "completion") /\ Then(ds)
    BY <1>7, <2>3, CallsAre
  <2>5. Stops(script[c], "quit", w) /\ Update(s, r)
    BY <1>7, <2>1
  <2>. QED  BY <1>5, <1>7, <2>2, <2>4, <2>5
<1>8. CASE end = "sub" /\ HandOff(s, k)
  <2>1. /\ Release(s) /\ Then(<<>>)
        /\ elsewhere' = [elsewhere EXCEPT ![c] = k.wbuf \o Acks(script[c])]
    BY <1>8 DEF HandOff
  <2>2. elsewhere'[c] = k.wbuf \o Acks(script[c]) /\ elsewhere' = [elsewhere EXCEPT ![c] = elsewhere'[c]]
    BY <1>1, <2>1 DEF ReplyInv, LoopShape
  <2>3. k.wbuf \in Seq(Nat) /\ got[c] \in Seq(Nat) /\ outq[c] \in Seq(Nat) /\ Acks(script[c]) \in Seq(Nat)
    BY <1>1, WantedIs DEF IsConn, ClientShape
  <2>4. w \o Acks(script[c]) = Wanted(script[c])
    BY <1>1, <1>8, StopsIs
  <2>5. PICK go : go = got[c] \o outq[c]
    OBVIOUS
  <2>6. go \in Seq(Nat) /\ w = go \o k.wbuf /\ k.wbuf \o Acks(script[c]) \in Seq(Nat)
    BY <2>3, <2>5, Regroup, ConcatProperties
  <2>7. go \o (k.wbuf \o Acks(script[c])) = Wanted(script[c])
    <3>1. PICK a \in Seq(Nat) : a = Acks(script[c])
      BY <2>3
    <3>2. PICK b \in Seq(Nat) : b = k.wbuf
      BY <2>3
    <3>3. go \in Seq(Nat) /\ a \in Seq(Nat) /\ b \in Seq(Nat)
      BY <2>6
    <3>4. (go \o b) \o a = go \o (b \o a)
      BY ONLY <3>3, Regroup
    <3>. QED  BY <2>4, <2>6, <3>1, <3>2, <3>4
  <2>8. got[c] \o outq[c] \o elsewhere'[c] = Wanted(script[c])
    <3>1. PICK el \in Seq(Nat) : el = elsewhere'[c]
      BY <2>2, <2>6
    <3>2. got[c] \o outq[c] \o el = go \o el
      BY <2>3, <2>5, <3>1, Regroup
    <3>. QED  BY <2>2, <2>7, <3>1, <3>2
  <2>9. ClientOK(c)'
    BY <1>2, <1>3, <2>8 DEF ClientOK
  <2>10. ClientShape(c)'
    BY <1>1, <1>2, <2>2, <2>6 DEF ClientShape
  <2>11. link'[c] \in {"new", "backlog", "open", "closed"} /\ UNCHANGED <<client, jobs, thr, done>>
    BY <1>2, <1>3
  <2>. QED  BY <1>3, <1>4, <2>1, <2>2, <2>9, <2>10, <2>11, ConnGoes
<1>. QED  BY <1>6, <1>7, <1>8 DEF FinishBatch

\* process, of a batch that may not run.
LEMMA ProcessNotStep ==
  ASSUME ReplyInv, Now("process"), ~Runnable(conns[Arg]),
         Then(IF conns[Arg] = None THEN <<>> ELSE << <<"flush", Arg>> >>),
         UNCHANGED <<conns, gens, pool, elsewhere>>, UNCHANGED <<client, socket, ready, done, wake>>
  PROVE  ReplyInv'
<1>1. calls # <<>> /\ Arg \in Slots
  BY ArgIs
<1>2. PICK cs : cs = IF conns[Arg] = None THEN <<>> ELSE << <<"flush", Arg>> >>
  OBVIOUS
<1>3. IsSeq(cs) /\ Calls(cs) /\ Then(cs) /\ \A i \in DOMAIN cs : cs[i][1] # "completion"
  BY <1>1, <1>2, CallsAre
<1>4. UNCHANGED <<client, socket, conns, gens, jobs, thr, done, elsewhere>>
  BY DEF pool
<1>5. \A e \in ready' : e.slot \in Slots
  BY DEF ReplyInv, LoopShape
<1>. QED  BY <1>1, <1>3, <1>4, <1>5, OnlyCalls

\* What a runnable connection runs.
LEMMA RunnableIs ==
  ASSUME ReplyInv, NEW s \in Slots, conns[s] # None, Runnable(conns[s])
  PROVE  LET k == conns[s]
             c == k.client
             cmds == Parsed(script[c], k.rbuf)
             rest == Unparsed(script[c], k.rbuf)
             out == Output(script[c], cmds)
             end == BatchEnd(script[c], cmds)
         IN  /\ k.st /\ ~k.closing /\ cmds # <<>>
             /\ cmds \in Seq(Nat) /\ rest \in Seq(Nat) /\ out \in Seq(Nat)
             /\ Progress(c, Written(k), cmds \o rest)
             /\ end \in {"continue", "quit", "sub"}
             /\ end = "continue" => Follows(script[c], sent[c], inq[c], Written(k) \o out, rest)
             /\ end # "continue" => Stops(script[c], end, Written(k) \o out)
<1>. DEFINE k == conns[s]
            c == k.client
            cmds == Parsed(script[c], k.rbuf)
            rest == Unparsed(script[c], k.rbuf)
<1>1. /\ ConnOK(s) /\ IsConn(k) /\ Ends(script[c]) /\ ClientShape(c) /\ k.rbuf \in Seq(Nat)
  BY ConnIs
<1>2. k.st /\ ~k.closing /\ cmds # <<>>
  BY DEF Runnable, Accepts
<1>3. Progress(c, Written(k), k.rbuf)
  BY <1>1, <1>2 DEF ConnOK
<1>4. cmds \in Seq(Nat) /\ rest \in Seq(Nat) /\ cmds \o rest = k.rbuf
  BY <1>1, ParsedUnparsed
<1>5. sent[c] \in 0..Len(script[c]) /\ inq[c] \in Seq(Nat)
  BY <1>1 DEF ClientShape
<1>6. PICK a \in Seq(Nat) : a = cmds
  BY <1>4
<1>7. PICK b \in Seq(Nat) : b = rest
  BY <1>4
<1>8. Follows(script[c], sent[c], inq[c], Written(k), a \o b)
  BY <1>3, <1>4, <1>6, <1>7 DEF Progress
<1>9. LET out == Output(script[c], a)
          end == BatchEnd(script[c], a)
      IN  /\ out \in Seq(Nat) /\ end \in {"continue", "quit", "sub"}
          /\ end = "continue" => Follows(script[c], sent[c], inq[c], Written(k) \o out, b)
          /\ end # "continue" => Stops(script[c], end, Written(k) \o out)
  BY <1>1, <1>5, <1>8, FollowsRun
<1>. QED  BY <1>2, <1>3, <1>4, <1>6, <1>7, <1>9

\* process, of a batch that runs inline.
LEMMA ProcessInlineStep ==
  ASSUME ReplyInv, Now("process"), Runnable(conns[Arg]),
         ProcessInline(Arg, conns[Arg], Parsed(script[conns[Arg].client], conns[Arg].rbuf)),
         UNCHANGED <<client, socket, ready, done, wake>>
  PROVE  ReplyInv'
<1>1. PICK s : s = Arg
  OBVIOUS
<1>2. calls # <<>> /\ s \in Slots /\ conns[s] # None
  BY <1>1, ArgIs DEF Runnable
<1>3. PICK k : k = conns[s]
  OBVIOUS
<1>4. PICK c : c = k.client
  OBVIOUS
<1>5. PICK cmds : cmds = Parsed(script[c], k.rbuf)
  OBVIOUS
<1>6. PICK rest : rest = Unparsed(script[c], k.rbuf)
  OBVIOUS
<1>7. PICK out : out = Output(script[c], cmds)
  OBVIOUS
<1>8. PICK end : end = BatchEnd(script[c], cmds)
  OBVIOUS
<1>9. /\ k.st /\ ~k.closing
      /\ rest \in Seq(Nat) /\ out \in Seq(Nat)
      /\ end \in {"continue", "quit", "sub"}
      /\ end = "continue" => Follows(script[c], sent[c], inq[c], Written(k) \o out, rest)
      /\ end # "continue" => Stops(script[c], end, Written(k) \o out)
  BY <1>1, <1>2, <1>3, <1>4, <1>5, <1>6, <1>7, <1>8, RunnableIs
<1>10. PICK r : r = [k EXCEPT !.rbuf = rest, !.wbuf = k.wbuf \o out]
  OBVIOUS
<1>11. PICK cs : cs = << <<"process", s>> >>
  OBVIOUS
<1>12. FinishBatch(s, r, end, cs) /\ UNCHANGED <<jobs, thr>>
  <2>1. FinishBatch(s, [k EXCEPT !.rbuf = Unparsed(script[c], @), !.wbuf = @ \o Output(script[c], cmds)],
                    BatchEnd(script[c], cmds), << <<"process", s>> >>) /\ UNCHANGED <<jobs, thr>>
    BY <1>1, <1>3, <1>4, <1>5 DEF ProcessInline, pool
  <2>2. [k EXCEPT !.rbuf = Unparsed(script[c], @), !.wbuf = @ \o Output(script[c], cmds)] = r
    BY <1>6, <1>7, <1>10
  <2>. QED  BY <1>8, <1>11, <2>1, <2>2
<1>13. /\ IsConn(k) /\ k.gen = gens[s] /\ k.wbuf \in Seq(Nat) /\ ClientShape(c)
       /\ Written(k) = (got[c] \o outq[c]) \o k.wbuf
  BY <1>2, <1>3, <1>4, ConnIs
<1>14. k.wbuf \o out \in Seq(Nat)
  BY <1>9, <1>13, ConcatProperties
<1>15. IsConn(r) /\ r.client = c /\ r.gen = gens[s] /\ r.st /\ ~r.closing /\ r.rbuf = rest /\ r.wbuf = k.wbuf \o out
  BY <1>4, <1>9, <1>10, <1>13, <1>14 DEF IsConn
<1>16. PICK w : w = got[c] \o outq[c] \o r.wbuf
  OBVIOUS
<1>17. w = Written(k) \o out
  <2>1. got[c] \in Seq(Nat) /\ outq[c] \in Seq(Nat)
    BY <1>13 DEF ClientShape
  <2>2. got[c] \o outq[c] \in Seq(Nat)
    BY <2>1, ConcatProperties
  <2>3. ((got[c] \o outq[c]) \o k.wbuf) \o out = (got[c] \o outq[c]) \o (k.wbuf \o out)
    BY <1>9, <1>13, <2>2, Regroup
  <2>4. w = (got[c] \o outq[c]) \o (k.wbuf \o out)
    BY <1>14, <1>15, <1>16, <2>1, Regroup
  <2>. QED  BY <1>13, <2>3, <2>4
<1>18. IsSeq(cs) /\ Calls(cs) /\ \A i \in DOMAIN cs : cs[i][1] # "completion"
  BY <1>2, <1>11, CallsAre
<1>19. /\ UNCHANGED <<client, socket, jobs, thr, done>>
       /\ \A e \in ready' : e.slot \in Slots
  BY <1>12 DEF ReplyInv, LoopShape
<1>20. \A p \in Places : p # <<"calls", 1>> /\ Work(p).slot = s => ~Live(Work(p))
  BY <1>2, <1>3, <1>9, NotLent
<1>21. /\ end = "continue" => Follows(script[c], sent[c], inq[c], w, r.rbuf) /\ (r.closing => fin[c])
       /\ end # "continue" => Stops(script[c], end, w)
       /\ c = conns[s].client
  BY <1>3, <1>4, <1>9, <1>15, <1>17
<1>22. BatchEnds(s, c, r, end, cs, w)
  BY <1>2, <1>12, <1>15, <1>16, <1>18, <1>19, <1>20, <1>21 DEF BatchEnds
<1>. QED  BY ONLY ReplyInv, <1>22, BatchFinishes

\* A threads' table in which one that has no work moves.
LEMMA OneGoesIs ==
  ASSUME LoopShape, NEW from, NEW to, from \notin {"run", "owned", "deliver"},
         to \notin {"run", "owned", "deliver"}, OneGoes(from, to)
  PROVE  /\ thr' = [t \in Threads |-> thr'[t]]
         /\ \A t \in Threads : thr'[t] = thr[t] \/ (Free(t) /\ Free(t)')
<1>1. thr = [t \in Threads |-> thr[t]]
  BY DEF LoopShape
<1>2. CASE ThreadsAt({from}) = {}
  BY <1>1, <1>2 DEF OneGoes
<1>3. CASE ThreadsAt({from}) # {}
  <2>1. PICK u : u = CHOOSE t \in ThreadsAt({from}) : TRUE
    OBVIOUS
  <2>2. u \in Threads /\ thr[u].at = from
    BY <1>3, <2>1 DEF ThreadsAt
  <2>3. thr' = [thr EXCEPT ![u] = [at |-> to]]
    BY <1>3, <2>1 DEF OneGoes
  <2>. QED  BY <1>1, <2>2, <2>3 DEF Free
<1>. QED  BY <1>2, <1>3

\* process, of a batch that the pool runs.
LEMMA ProcessOnPoolStep ==
  ASSUME ReplyInv, Now("process"), Runnable(conns[Arg]),
         ProcessOnPool(Arg, conns[Arg], Parsed(script[conns[Arg].client], conns[Arg].rbuf)),
         UNCHANGED <<client, socket, ready, done, wake>>
  PROVE  ReplyInv'
<1>1. PICK s : s = Arg
  OBVIOUS
<1>2. calls # <<>> /\ s \in Slots /\ conns[s] # None
  BY <1>1, ArgIs DEF Runnable
<1>3. PICK k : k = conns[s]
  OBVIOUS
<1>4. PICK c : c = k.client
  OBVIOUS
<1>5. PICK cmds : cmds = Parsed(script[c], k.rbuf)
  OBVIOUS
<1>6. PICK rest : rest = Unparsed(script[c], k.rbuf)
  OBVIOUS
<1>7. PICK direct : direct = (k.wbuf = <<>>)
  OBVIOUS
<1>8. PICK job : job = [slot |-> s, gen |-> k.gen, client |-> c, cmds |-> cmds,
                        rbuf |-> rest, direct |-> direct, eof |-> FALSE]
  OBVIOUS
<1>9. PICK r : r = [k EXCEPT !.st = FALSE, !.rbuf = <<>>, !.muted = direct]
  OBVIOUS
<1>10. PICK cs : cs = << <<"flush", s>> >>
  OBVIOUS
<1>11. Submit(job) /\ Update(s, r) /\ Then(cs) /\ UNCHANGED <<gens, elsewhere>>
  BY <1>1, <1>3, <1>4, <1>5, <1>6, <1>7, <1>8, <1>9, <1>10 DEF ProcessOnPool
<1>12. /\ k.st /\ ~k.closing /\ cmds # <<>> /\ cmds \in Seq(Nat) /\ rest \in Seq(Nat)
       /\ Progress(c, Written(k), cmds \o rest)
  BY <1>1, <1>2, <1>3, <1>4, <1>5, <1>6, RunnableIs
<1>13. /\ ConnOK(s) /\ IsConn(k) /\ k.gen = gens[s] /\ gens[s] \in Nat /\ c \in Clients /\ ClientShape(c)
       /\ link[c] = "open" /\ elsewhere[c] = <<>> /\ fin[c] \in BOOLEAN /\ Begins(c, Written(k))
  BY <1>2, <1>3, <1>4, ConnIs
<1>14. /\ IsConn(r) /\ r.client = c /\ r.gen = gens[s] /\ r.rbuf = <<>> /\ r.wbuf = k.wbuf
       /\ r.st = FALSE /\ r.closing = FALSE /\ r # None
  <2>1. <<>> \in Seq(Nat) /\ direct \in BOOLEAN
    BY <1>7
  <2>2. k.closing = FALSE
    BY <1>12, <1>13 DEF IsConn
  <2>3. IsConn(r) /\ r.client = c /\ r.gen = gens[s] /\ r.rbuf = <<>> /\ r.wbuf = k.wbuf
        /\ r.st = FALSE /\ r.closing = FALSE
    BY <1>4, <1>9, <1>13, <2>1, <2>2 DEF IsConn
  <2>. QED  BY <2>3, ConnIsSome
<1>15. UNCHANGED <<script, sent, fin, got, inq, outq, link, done, gens, elsewhere, ready>>
  BY <1>11 DEF client, socket
<1>16. conns'[s] = r /\ conns' = [conns EXCEPT ![s] = conns'[s]]
  BY <1>2, <1>11 DEF ReplyInv, LoopShape, Update
<1>17. Moves(s, c)
  BY <1>15, <1>16 DEF Moves, ReplyInv, LoopShape
<1>18. LoopShape /\ WorkOK /\ LentOnce
  BY DEF ReplyInv
<1>19. /\ thr' = [t \in Threads |-> thr'[t]]
       /\ \A t \in Threads : thr'[t] = thr[t] \/ (Free(t) /\ Free(t)')
  <2>1. OneGoes("wait", "woken") \/ OneGoes("none", "free")
    BY <1>11 DEF Submit
  <2>2. CASE OneGoes("wait", "woken")
    BY <1>18, <2>2, OneGoesIs
  <2>3. CASE OneGoes("none", "free")
    BY <1>18, <2>3, OneGoesIs
  <2>. QED  BY <2>1, <2>2, <2>3
<1>20. IsSeq(cs) /\ Calls(cs) /\ \A i \in DOMAIN cs : cs[i][1] # "completion"
  BY <1>2, <1>10, CallsAre
<1>21. IsSeq(calls') /\ Calls(calls')
  <2>1. IsSeq(calls) /\ Calls(calls)
    BY <1>18 DEF LoopShape
  <2>. QED  BY <1>2, <1>11, <1>20, <2>1, CallsAfter DEF Calls
<1>22. PICK n : n = Len(jobs) + 1
  OBVIOUS
<1>23. /\ IsSeq(jobs') /\ jobs'[n] = job
       /\ \A i \in DOMAIN jobs' : i # n => i \in DOMAIN jobs /\ jobs'[i] = jobs[i]
  <2>1. IsSeq(jobs) /\ jobs' = Append(jobs, job)
    BY <1>11, <1>18 DEF LoopShape, Submit
  <2>2. IsSeq(jobs')
    BY <2>1, QueueOps
  <2>. DEFINE S == {jobs[i] : i \in DOMAIN jobs} \cup {job}
  <2>3. jobs \in Seq(S) /\ job \in S
    BY <2>1, SeqMonotonic DEF IsSeq
  <2>. HIDE DEF S
  <2>4. /\ Append(jobs, job) \in Seq(S) /\ Len(Append(jobs, job)) = Len(jobs) + 1 /\ Len(jobs) \in Nat
        /\ \A i \in 1..Len(jobs) : Append(jobs, job)[i] = jobs[i]
        /\ Append(jobs, job)[Len(jobs) + 1] = job
        /\ DOMAIN jobs = 1..Len(jobs)
    BY <2>3, AppendProperties, LenProperties
  <2>5. DOMAIN jobs' = 1..Len(jobs) + 1
    BY <2>1, <2>4, LenProperties
  <2>. QED  BY <1>22, <2>1, <2>2, <2>4, <2>5
<1>24. ClientShape(c)'
  BY <1>13, <1>15 DEF ClientShape
<1>25. /\ LoopShape'
       /\ \A d \in Clients \ {c} : Same(d)
       /\ \A q \in Slots \ {s} : conns'[q] = conns[q] /\ gens'[q] = gens[q]
  <2>1. fin'[c] \in BOOLEAN /\ link'[c] \in {"new", "backlog", "open", "closed"}
        /\ (s \in Slots => gens'[s] \in Nat) /\ (\A e \in ready' : e.slot \in Slots) /\ IsSeq(done')
    BY <1>13, <1>15, <1>18 DEF LoopShape
  <2>. QED  BY <1>13, <1>17, <1>18, <1>19, <1>21, <1>23, <1>24, <2>1, ShapeMoves
<1>26. \A q \in Slots \ {s} : conns[q] # None => conns[q].client # c
  BY <1>2, <1>3, <1>4, NoOther
<1>27. \A q \in Slots \ {s} : Kept(q)
  BY <1>2, <1>3, <1>4, <1>13, <1>14, <1>15, <1>16, <1>25, <1>26, Around
<1>28. \A p \in Places : Work(p).slot = s => ~Live(Work(p))
  BY <1>2, <1>3, <1>12, <1>18, Unlent
<1>29. \A p \in Places : p # <<"calls", 1>> => Still(Work(p))
  <2>. SUFFICES ASSUME NEW p \in Places PROVE Still(Work(p))
    OBVIOUS
  <2>1. Work(p).slot \in Slots
    BY <1>18, WorkShape
  <2>2. gens'[s] >= gens[s]
    BY <1>13, <1>15
  <2>. QED  BY <1>27, <1>28, <2>1, <2>2 DEF Still
<1>30. Written(conns[s])' = Written(k)
  BY <1>4, <1>14, <1>15, <1>16 DEF Written
<1>31. JobOK(job)'
  <2>1. /\ job.slot = s /\ job.gen = gens[s] /\ job.client = c /\ job.cmds = cmds /\ job.rbuf = rest
        /\ job.direct = direct /\ job.eof = FALSE
    BY <1>8, <1>13
  <2>2. IsJob(job)'
    BY <1>2, <1>7, <1>8, <1>12, <1>13 DEF IsJob, Slots
  <2>3. Live(job)' /\ job.gen <= gens'[job.slot]
    BY <1>13, <1>15, <2>1 DEF Live
  <2>4. Lent(job)'
    BY <1>14, <1>16, <2>1 DEF Lent
  <2>5. direct => r.wbuf = <<>>
    BY <1>7, <1>14
  <2>6. Progress(c, Written(conns[s]), cmds \o rest)'
    BY <1>12, <1>15, <1>30 DEF Progress
  <2>. QED  BY <1>14, <1>16, <2>1, <2>2, <2>3, <2>4, <2>5, <2>6 DEF JobOK
<1>32. JobOK(jobs[n])' /\ jobs'[n].cmds # <<>>
       /\ \A p \in Places : jobs'[n].slot # Work(p).slot \/ jobs'[n].gen # Work(p).gen
  <2>1. job.slot = s /\ job.gen = gens[s] /\ job.cmds # <<>>
    BY <1>8, <1>12, <1>13
  <2>2. JobOK(jobs[n])'
    BY <1>23, <1>31
  <2>3. \A p \in Places : job.slot # Work(p).slot \/ job.gen # Work(p).gen
    BY <1>28, <2>1 DEF Live
  <2>. QED  BY <1>23, <2>1, <2>2, <2>3
<1>33. WorkOK' /\ LentOnce'
  <2>1. gens' \in [Slots -> Nat] /\ script' = script /\ done' = done /\ Then(cs)
    BY <1>11, <1>15, <1>18 DEF LoopShape
  <2>. QED  BY ONLY <1>2, <1>18, <1>19, <1>20, <1>23, <1>29, <1>32, <2>1, WorkShift
<1>34. ConnOK(s)'
  <2>1. IsConn(conns[s])'
    BY <1>14, <1>16 DEF IsConn
  <2>2. Begins(c, Written(conns[s]))'
    BY <1>13, <1>15, <1>30 DEF Begins
  <2>. QED  BY <1>13, <1>14, <1>15, <1>16, <2>1, <2>2 DEF ConnOK
<1>35. ClientOK(c)'
  BY <1>2, <1>13, <1>14, <1>15, <1>16, ServedClient
<1>36. conns[s].client = c /\ conns'[s].client = c /\ c \in Clients
  BY <1>3, <1>4, <1>13, <1>14, <1>16
<1>. QED  BY ONLY ReplyInv, <1>17, <1>25, <1>26, <1>33, <1>34, <1>35, <1>36, Together

-----------------------------------------------------------------------------
\* process.
LEMMA ProcessStep == ASSUME ReplyInv, Process PROVE ReplyInv'
<1>1. Now("process") /\ UNCHANGED <<client, socket, ready, done, wake>>
  BY DEF Process
<1>2. CASE /\ ~Runnable(conns[Arg])
           /\ Then(IF conns[Arg] = None THEN <<>> ELSE << <<"flush", Arg>> >>)
           /\ UNCHANGED <<conns, gens, pool, elsewhere>>
  BY <1>1, <1>2, ProcessNotStep
<1>3. CASE Runnable(conns[Arg]) /\ ProcessInline(Arg, conns[Arg], Parsed(script[conns[Arg].client], conns[Arg].rbuf))
  BY <1>1, <1>3, ProcessInlineStep
<1>4. CASE Runnable(conns[Arg]) /\ ProcessOnPool(Arg, conns[Arg], Parsed(script[conns[Arg].client], conns[Arg].rbuf))
  BY <1>1, <1>4, ProcessOnPoolStep
<1>. QED  BY <1>2, <1>3, <1>4 DEF Process

\* completions.
LEMMA CompletionStep == ASSUME ReplyInv, Completion PROVE ReplyInv'
<1>1. /\ Now("completion") /\ calls # <<>> /\ 1 \in DOMAIN calls /\ calls[1][1] = "completion"
      /\ UNCHANGED <<client, socket, pool, done, wake>>
  BY ArgIs DEF Completion
<1>2. PICK x : x = Arg
  OBVIOUS
<1>3. PICK head : head = <<"calls", 1>>
  OBVIOUS
<1>4. head \in Places /\ Work(head) = x /\ CompOK(x)
  <2>1. IsCompletion(1) /\ x = calls[1][2]
    BY <1>1, <1>2 DEF IsCompletion, Arg
  <2>2. CompOK(x)
    BY <1>1, <2>1 DEF ReplyInv, WorkOK
  <2>. QED  BY <1>1, <1>3, <2>1, <2>2, PlaceIs
<1>5. PICK s : s = x.slot
  OBVIOUS
<1>6. s \in Slots /\ IsComp(x)
  BY <1>4, <1>5 DEF CompOK, IsComp
<1>7. PICK k : k = conns[s]
  OBVIOUS
<1>8. CASE Then(<<>>) /\ UNCHANGED <<conns, gens, ready, elsewhere>>
  <2>1. IsSeq(<<>>) /\ Calls(<<>>) /\ \A i \in DOMAIN <<>> : <<>>[i][1] # "completion"
    BY CallsAre
  <2>2. UNCHANGED <<client, socket, conns, gens, jobs, thr, done, elsewhere>> /\ Then(<<>>)
    BY <1>1, <1>8 DEF pool
  <2>3. \A e \in ready' : e.slot \in Slots
    BY <1>8 DEF ReplyInv, LoopShape
  <2>. QED  BY <1>1, <2>1, <2>2, <2>3, OnlyCalls
<1>9. ASSUME Alive(s, x.gen),
             NEW r, r = [k EXCEPT !.st = TRUE, !.wbuf = @ \o x.out, !.rbuf = x.rbuf,
                                  !.more = @ \/ k.muted, !.muted = FALSE, !.closing = @ \/ x.eof],
             FinishBatch(s, r, x.end, << <<IF r.more THEN "readable" ELSE "process", s>> >>),
             ready' = IF k.muted THEN ready \cup {Token(s)} ELSE ready
      PROVE  ReplyInv'
  <2>1. PICK c : c = k.client
    OBVIOUS
  <2>2. conns[s] # None /\ k.gen = x.gen
    BY <1>7, <1>9 DEF Alive
  <2>3. /\ ConnOK(s) /\ IsConn(k) /\ k.gen = gens[s] /\ k.wbuf \in Seq(Nat) /\ ClientShape(c)
        /\ Written(k) = (got[c] \o outq[c]) \o k.wbuf
    BY <1>6, <1>7, <2>1, <2>2, ConnIs
  <2>4. Live(x)
    BY <1>5, <2>2, <2>3 DEF Live
  <2>5. PICK out : out = x.out
    OBVIOUS
  <2>6. PICK end : end = x.end
    OBVIOUS
  <2>7. /\ ~k.st /\ (x.eof => fin[c])
        /\ \/ end = "continue" /\ Progress(c, Written(k) \o out, x.rbuf)
           \/ end # "continue" /\ AllDone(c, Written(k) \o out, end)
    BY <1>4, <1>5, <1>7, <2>1, <2>4, <2>5, <2>6 DEF CompOK, Lent
  <2>8. ~k.closing
    BY <1>7, <2>2, <2>3, <2>7 DEF ConnOK
  <2>9. out \in Seq(Nat) /\ x.rbuf \in Seq(Nat) /\ x.eof \in BOOLEAN
    BY <1>6, <2>5 DEF IsComp
  <2>10. k.wbuf \o out \in Seq(Nat)
    BY <2>3, <2>9, ConcatProperties
  <2>11. /\ IsConn(r) /\ r.client = c /\ r.gen = gens[s] /\ r.st /\ (r.closing => fin[c])
         /\ r.rbuf = x.rbuf /\ r.wbuf = k.wbuf \o out
    <3>2. PICK mo \in BOOLEAN : mo = (k.more \/ k.muted)
      BY <2>3 DEF IsConn
    <3>3. PICK cl \in BOOLEAN : cl = (k.closing \/ x.eof)
      BY <2>3, <2>9 DEF IsConn
    <3>4. r = [k EXCEPT !.st = TRUE, !.wbuf = k.wbuf \o out, !.rbuf = x.rbuf,
                        !.more = mo, !.muted = FALSE, !.closing = cl]
      BY <1>9, <2>5, <3>2, <3>3
    <3>5. cl => fin[c]
      BY <2>7, <2>8, <3>3
    <3>. QED  BY <2>1, <2>3, <2>9, <2>10, <3>4, <3>5 DEF IsConn
  <2>12. PICK w : w = got[c] \o outq[c] \o r.wbuf
    OBVIOUS
  <2>13. w = Written(k) \o out
    <3>1. got[c] \in Seq(Nat) /\ outq[c] \in Seq(Nat)
      BY <2>3 DEF ClientShape
    <3>2. got[c] \o outq[c] \in Seq(Nat)
      BY <3>1, ConcatProperties
    <3>3. ((got[c] \o outq[c]) \o k.wbuf) \o out = (got[c] \o outq[c]) \o (k.wbuf \o out)
      BY <2>3, <2>9, <3>2, Regroup
    <3>4. w = (got[c] \o outq[c]) \o (k.wbuf \o out)
      BY <2>10, <2>11, <2>12, <3>1, Regroup
    <3>. QED  BY <2>3, <3>3, <3>4
  <2>14. PICK cs : cs = << <<IF r.more THEN "readable" ELSE "process", s>> >>
    OBVIOUS
  <2>15. IsSeq(cs) /\ Calls(cs) /\ \A i \in DOMAIN cs : cs[i][1] # "completion"
    <3>1. CASE r.more
      BY <1>6, <2>14, <3>1, CallsAre
    <3>2. CASE ~(r.more)
      BY <1>6, <2>14, <3>2, CallsAre
    <3>. QED  BY <3>1, <3>2
  <2>16. FinishBatch(s, r, end, cs)
    BY <1>9, <2>6, <2>14
  <2>17. /\ UNCHANGED <<client, socket, jobs, thr, done>>
         /\ \A e \in ready' : e.slot \in Slots
    BY <1>1, <1>6, <1>9 DEF pool, ReplyInv, LoopShape, Token
  <2>18. \A p \in Places : p # <<"calls", 1>> /\ Work(p).slot = s => ~Live(Work(p))
    BY <1>3, <1>4, <1>5, <2>4, OnlyOne DEF ReplyInv
  <2>19. /\ end = "continue" => Follows(script[c], sent[c], inq[c], w, r.rbuf) /\ (r.closing => fin[c])
         /\ end # "continue" => Stops(script[c], end, w)
         /\ c = conns[s].client
    BY <1>7, <2>1, <2>7, <2>11, <2>13 DEF Progress, AllDone
  <2>20. BatchEnds(s, c, r, end, cs, w)
    BY ONLY <1>1, <1>6, <2>2, <2>11, <2>12, <2>15, <2>16, <2>17, <2>18, <2>19 DEF BatchEnds
  <2>. QED  BY ONLY ReplyInv, <2>20, BatchFinishes
<1>. QED  BY <1>2, <1>5, <1>7, <1>8, <1>9 DEF Completion

\* flush, of what fits.
LEMMA FlushedStep ==
  ASSUME ReplyInv, Now("flush"), conns[Arg] # None,
         Flushed(Arg, conns[Arg], Low(Len(conns[Arg].wbuf), SockOut - Len(outq[conns[Arg].client]))),
         UNCHANGED <<client, inq, ready, pool, done, wake, elsewhere>>
  PROVE  ReplyInv'
<1>1. PICK s : s = Arg
  OBVIOUS
<1>2. calls # <<>> /\ s \in Slots /\ conns[s] # None
  BY <1>1, ArgIs
<1>3. PICK k : k = conns[s]
  OBVIOUS
<1>4. PICK c : c = k.client
  OBVIOUS
<1>5. /\ ConnOK(s) /\ IsConn(k) /\ k.gen = gens[s] /\ c \in Clients /\ ClientShape(c) /\ Ends(script[c])
      /\ link[c] = "open" /\ elsewhere[c] = <<>> /\ k.wbuf \in Seq(Nat)
      /\ Written(k) = (got[c] \o outq[c]) \o k.wbuf /\ Begins(c, Written(k))
  BY <1>2, <1>3, <1>4, ConnIs
<1>6. PICK n : n = Low(Len(k.wbuf), SockOut - Len(outq[c]))
  OBVIOUS
<1>7. got[c] \in Seq(Nat) /\ outq[c] \in Seq(Nat) /\ Len(outq[c]) \in Nat /\ Len(outq[c]) <= SockOut
      /\ SockOut \in Nat /\ Len(k.wbuf) \in Nat
  BY <1>5, LenProperties, LimitsAreNumbers DEF ClientShape
<1>8. n \in Nat /\ n <= Len(k.wbuf) /\ Len(outq[c]) + n <= SockOut
  BY <1>6, <1>7 DEF Low
<1>9. PICK a \in Seq(Nat) : a = Take(k.wbuf, n)
  BY <1>5, <1>8, TakeDrop
<1>10. PICK b \in Seq(Nat) : b = Drop(k.wbuf, n)
  BY <1>5, <1>8, TakeDrop
<1>11. k.wbuf = a \o b /\ Len(a) = n /\ (k.wbuf = <<>> => b = <<>>)
  <2>1. k.wbuf = a \o b /\ Len(a) = n
    BY <1>5, <1>8, <1>9, <1>10, TakeDrop
  <2>2. k.wbuf = <<>> => n >= Len(k.wbuf)
    BY <1>5, <1>8, EmptySeq
  <2>3. n >= Len(k.wbuf) => b = <<>>
    BY <1>5, <1>8, <1>10, TakeDrop
  <2>. QED  BY <2>1, <2>2, <2>3
<1>12. PICK r : r = [k EXCEPT !.wbuf = b]
  OBVIOUS
<1>13. /\ IsConn(r) /\ r.client = c /\ r.gen = k.gen /\ r.rbuf = k.rbuf /\ r.wbuf = b
       /\ r.st = k.st /\ r.closing = k.closing
  BY <1>4, <1>5, <1>12 DEF IsConn
<1>14. PICK cs : cs = IF Len(k.wbuf) > HighWater /\ Accepts(r)
                      THEN << <<IF r.more THEN "readable" ELSE "process", s>> >> ELSE <<>>
  OBVIOUS
<1>15. /\ outq' = [outq EXCEPT ![c] = outq[c] \o a]
       /\ \/ /\ MayClose(r)
             /\ Release(s) /\ link' = [link EXCEPT ![c] = "closed"] /\ Then(<<>>)
          \/ Update(s, r) /\ Then(cs) /\ UNCHANGED <<gens, link>>
  <2>1. Flushed(s, k, n)
    BY <1>1, <1>3, <1>4, <1>6
  <2>2. [k EXCEPT !.wbuf = Drop(@, n)] = r
    BY <1>10, <1>12
  <2>. QED  BY <1>4, <1>9, <1>14, <2>1, <2>2 DEF Flushed
<1>16. /\ outq'[c] = outq[c] \o a /\ outq' = [outq EXCEPT ![c] = outq'[c]]
       /\ inq' = [inq EXCEPT ![c] = inq'[c]] /\ \A e \in ready' : e.slot \in Slots
       /\ UNCHANGED <<script, sent, fin, got, inq, elsewhere, jobs, thr, done>>
  BY <1>5, <1>15 DEF client, pool, ReplyInv, LoopShape
<1>17. outq[c] \o a \in Seq(Nat) /\ Len(outq[c] \o a) <= SockOut
  <2>1. outq[c] \o a \in Seq(Nat) /\ Len(outq[c] \o a) = Len(outq[c]) + Len(a)
    BY <1>7, ConcatProperties
  <2>. QED  BY <1>8, <1>11, <2>1
<1>18. ClientShape(c)'
  BY <1>5, <1>16, <1>17 DEF ClientShape
<1>19. (got[c] \o (outq[c] \o a)) \o b = Written(k)
  <2>1. PICK g \in Seq(Nat) : g = got[c]
    BY <1>7
  <2>2. PICK o \in Seq(Nat) : o = outq[c]
    BY <1>7
  <2>3. o \o a \in Seq(Nat) /\ g \o o \in Seq(Nat)
    BY ConcatProperties
  <2>4. (g \o (o \o a)) = (g \o o) \o a
    BY Regroup
  <2>5. ((g \o o) \o a) \o b = (g \o o) \o (a \o b)
    <3>1. Three(g \o o, a, b)
      BY <2>3 DEF Three
    <3>2. Grouped(g \o o, a, b)
      BY <3>1, RegroupThree, Zenon
    <3>. QED  BY <3>2, Zenon DEF Grouped
  <2>. QED  BY <1>5, <1>11, <2>1, <2>2, <2>4, <2>5
<1>20. got'[c] \o outq'[c] \o r.wbuf = Written(k)
  <2>1. got[c] \o (outq[c] \o a) \o b = (got[c] \o (outq[c] \o a)) \o b
    BY <1>7, <1>17, Regroup
  <2>. QED  BY <1>13, <1>16, <1>19, <2>1
<1>21. CASE /\ MayClose(r)
            /\ Release(s) /\ link' = [link EXCEPT ![c] = "closed"] /\ Then(<<>>)
  <2>1. k.closing /\ b = <<>>
    BY <1>13, <1>21 DEF MayClose
  <2>2. got'[c] \o outq'[c] = Written(k)
    <3>1. got[c] \o (outq[c] \o a) \in Seq(Nat)
      BY <1>7, <1>17, ConcatProperties
    <3>2. (got[c] \o (outq[c] \o a)) \o <<>> = got[c] \o (outq[c] \o a)
      BY <3>1, ConcatEmptySeq
    <3>. QED  BY <1>16, <1>19, <2>1, <3>2
  <2>3. k.st /\ (fin[c] \/ AllDone(c, Written(k), "quit"))
    BY <1>2, <1>3, <1>4, <1>5, <2>1 DEF ConnOK
  <2>4. fin[c] \/ Written(k) = Wanted(script[c])
    BY <1>5, <2>3, StopsIs DEF AllDone
  <2>5. link'[c] = "closed" /\ link' = [link EXCEPT ![c] = link'[c]]
        /\ elsewhere' = [elsewhere EXCEPT ![c] = elsewhere'[c]]
    BY <1>5, <1>16, <1>21 DEF ReplyInv, LoopShape
  <2>6. ClientOK(c)'
    BY <1>5, <1>16, <2>2, <2>4, <2>5 DEF ClientOK, Begins
  <2>7. \A p \in Places : p # <<"calls", 1>> /\ Work(p).slot = s => ~Live(Work(p))
    BY <1>2, <1>3, <2>3, NotLent
  <2>8. IsSeq(<<>>) /\ Calls(<<>>) /\ \A i \in DOMAIN <<>> : <<>>[i][1] # "completion"
    BY CallsAre
  <2>9. link'[c] \in {"new", "backlog", "open", "closed"} /\ c = conns[s].client /\ Release(s) /\ Then(<<>>)
        /\ UNCHANGED <<client, jobs, thr, done>>
    BY <1>3, <1>4, <1>16, <1>21, <2>5
  <2>10. /\ inq' = [inq EXCEPT ![c] = inq'[c]] /\ outq' = [outq EXCEPT ![c] = outq'[c]]
         /\ \A e \in ready' : e.slot \in Slots
    BY <1>16
  <2>. QED  BY ONLY ReplyInv, <1>2, <1>18, <2>5, <2>6, <2>7, <2>8, <2>9, <2>10, ConnGoes
<1>22. CASE Update(s, r) /\ Then(cs) /\ UNCHANGED <<gens, link>>
  <2>1. conns'[s] = r
    BY <1>2, <1>22 DEF ReplyInv, LoopShape, Update
  <2>2. Kept(s)
    BY <1>2, <1>3, <1>4, <1>5, <1>11, <1>13, <1>16, <1>20, <1>22, <2>1 DEF Kept
  <2>3. ConnOK(s)'
    BY <1>5, <1>16, <2>2, ConnKept
  <2>4. IsSeq(cs) /\ Calls(cs) /\ \A i \in DOMAIN cs : cs[i][1] # "completion"
    <3>1. CASE cs = << <<"readable", s>> >>
      BY <1>2, <3>1, CallsAre
    <3>2. CASE cs = << <<"process", s>> >>
      BY <1>2, <3>2, CallsAre
    <3>3. CASE cs = <<>>
      BY <3>3, CallsAre
    <3>. QED  BY <1>14, <3>1, <3>2, <3>3
  <2>5. UNCHANGED <<client, link, gens, jobs, thr, done, elsewhere>> /\ c = conns[s].client
    BY <1>3, <1>4, <1>16, <1>22
  <2>. QED  BY <1>2, <1>13, <1>16, <1>18, <1>22, <2>2, <2>3, <2>4, <2>5, ConnGoesOn
<1>. QED  BY <1>15, <1>21, <1>22

\* flush.
LEMMA FlushStep == ASSUME ReplyInv, Flush PROVE ReplyInv'
<1>1. Now("flush") /\ calls # <<>> /\ Arg \in Slots
      /\ UNCHANGED <<client, inq, ready, pool, done, wake, elsewhere>>
  BY ArgIs DEF Flush
<1>2. CASE conns[Arg] = None /\ Then(<<>>) /\ UNCHANGED <<outq, blocked, link, conns, gens>>
  <2>1. IsSeq(<<>>) /\ Calls(<<>>) /\ \A i \in DOMAIN <<>> : <<>>[i][1] # "completion"
    BY CallsAre
  <2>2. UNCHANGED <<client, socket, conns, gens, jobs, thr, done, elsewhere>> /\ Then(<<>>)
    BY <1>1, <1>2 DEF pool, socket
  <2>3. \A e \in ready' : e.slot \in Slots
    BY <1>1 DEF ReplyInv, LoopShape
  <2>. QED  BY <1>1, <2>1, <2>2, <2>3, OnlyCalls
<1>3. CASE /\ conns[Arg] # None
           /\ Flushed(Arg, conns[Arg], Low(Len(conns[Arg].wbuf), SockOut - Len(outq[conns[Arg].client])))
  BY <1>1, <1>3, FlushedStep
<1>4. CASE /\ conns[Arg] # None /\ conns[Arg].wbuf # <<>> /\ fin[conns[Arg].client]
           /\ Release(Arg) /\ link' = [link EXCEPT ![conns[Arg].client] = "closed"] /\ Then(<<>>)
           /\ UNCHANGED <<outq, blocked>>
  <2>1. PICK s \in Slots : s = Arg
    BY <1>1
  <2>2. PICK c : c = conns[s].client
    OBVIOUS
  <2>3. /\ conns[s] # None /\ conns[s].wbuf # <<>> /\ fin[c] /\ Release(s)
        /\ link' = [link EXCEPT ![c] = "closed"] /\ Then(<<>>)
    BY <1>4, <2>1, <2>2
  <2>4. /\ c \in Clients /\ ClientShape(c) /\ Ends(script[c]) /\ elsewhere[c] = <<>> /\ gens[s] \in Nat
        /\ conns[s].wbuf \in Seq(Nat)
        /\ Written(conns[s]) = (got[c] \o outq[c]) \o conns[s].wbuf /\ Begins(c, Written(conns[s]))
    BY <2>2, <2>3, ConnIs
  <2>5. UNCHANGED <<script, sent, fin, got, inq, outq, elsewhere, jobs, thr, done, ready>>
    BY <1>1, <1>4 DEF client, pool
  <2>6. /\ link'[c] = "closed" /\ link' = [link EXCEPT ![c] = link'[c]]
        /\ inq' = [inq EXCEPT ![c] = inq'[c]] /\ outq' = [outq EXCEPT ![c] = outq'[c]]
        /\ elsewhere' = [elsewhere EXCEPT ![c] = elsewhere'[c]]
        /\ \A e \in ready' : e.slot \in Slots
    BY <2>3, <2>4, <2>5 DEF ReplyInv, LoopShape
  <2>7. Begins(c, got[c] \o outq[c])
    <3>1. got[c] \o outq[c] \in Seq(Nat)
      BY <2>4, ConcatProperties DEF ClientShape
    <3>. QED  BY <2>4, <3>1, StartsPart DEF Begins
  <2>8. ClientOK(c)'
    BY <2>3, <2>4, <2>5, <2>6, <2>7 DEF ClientOK, Begins
  <2>9. Dropped(s)
    <3>1. gens'[s] = gens[s] + 1
      BY <2>3 DEF ReplyInv, LoopShape, Release
    <3>. QED  BY <2>3, <2>4, <3>1 DEF Dropped
  <2>10. ClientShape(c)'
    BY <2>4, <2>5 DEF ClientShape
  <2>11. IsSeq(<<>>) /\ Calls(<<>>) /\ \A i \in DOMAIN <<>> : <<>>[i][1] # "completion"
    BY CallsAre
  <2>12. /\ link'[c] \in {"new", "backlog", "open", "closed"} /\ UNCHANGED <<client, jobs, thr, done>>
         /\ s \in Slots
    BY <2>5, <2>6 DEF client
  <2>. QED  BY ONLY ReplyInv, <1>1, <2>2, <2>3, <2>6, <2>8, <2>9, <2>10, <2>11, <2>12, ConnGoes
<1>. QED  BY <1>2, <1>3, <1>4 DEF Flush

-----------------------------------------------------------------------------
(* Events, and what the clients do.                                        *)

\* A step in which nothing happens to the connections and the pool's work.
LEMMA ClientStep ==
  ASSUME ReplyInv, NEW c, UNCHANGED <<script, conns, gens, jobs, thr, done>>, LoopShape',
         \A d \in Clients \ {c} : Same(d), \A r \in Slots : Kept(r), c \in Clients => ClientOK(c)',
         \A i \in DOMAIN calls' : IsCompletion(i)' =>
           i \in DOMAIN calls /\ IsCompletion(i) /\ calls'[i] = calls[i]
  PROVE  ReplyInv'
<1>1. LoopShape /\ WorkOK /\ LentOnce
  BY DEF ReplyInv
<1>2. WorkOK' /\ LentOnce'
  <2>1. \A p \in Places : Still(Work(p))
    BY <1>1, WorkShape DEF Still
  <2>2. PICK t : t \notin Threads
    <3>1. PICK t : t = CHOOSE u : u \notin Threads
      OBVIOUS
    <3>. QED  BY <3>1, NoSetContainsEverything
  <2>3. gens' \in [Slots -> Nat] /\ jobs' = jobs /\ done' = done /\ script' = script
        /\ \A u \in Threads \ {t} : thr'[u] = thr[u]
    BY <1>1 DEF LoopShape
  <2>. QED  BY ONLY <1>1, <2>1, <2>2, <2>3, WorkPasses,
               \A i \in DOMAIN calls' : IsCompletion(i)' =>
                 i \in DOMAIN calls /\ IsCompletion(i) /\ calls'[i] = calls[i]
<1>3. \A r \in Slots : ConnOK(r)'
  BY ConnKept DEF ReplyInv
<1>4. ASSUME NEW d \in Clients \ {c} PROVE ClientOK(d)'
  <2>1. ClientOK(d) /\ (HasSlot(d) => HasSlot(d)')
    BY DEF ReplyInv, HasSlot, Slots
  <2>. QED  BY <2>1, ClientKept
<1>5. OneSlotEach'
  BY DEF ReplyInv, OneSlotEach, Slots
<1>6. Slots' = Slots
  BY DEF Slots
<1>. QED  BY <1>2, <1>3, <1>4, <1>5, <1>6 DEF ReplyInv

\* The shape, after it.
LEMMA ClientShapes ==
  ASSUME LoopShape, NEW c \in Clients, UNCHANGED <<script, conns, gens, calls, jobs, thr, done>>,
         sent' = [sent EXCEPT ![c] = sent'[c]], fin' = [fin EXCEPT ![c] = fin'[c]],
         got' = [got EXCEPT ![c] = got'[c]], inq' = [inq EXCEPT ![c] = inq'[c]],
         outq' = [outq EXCEPT ![c] = outq'[c]], link' = [link EXCEPT ![c] = link'[c]],
         elsewhere' = [elsewhere EXCEPT ![c] = elsewhere'[c]],
         fin'[c] \in BOOLEAN, link'[c] \in {"new", "backlog", "open", "closed"}, ClientShape(c)',
         ready' \subseteq ready \cup Edge(c)
  PROVE  /\ LoopShape' /\ \A d \in Clients \ {c} : Same(d)
         /\ \A i \in DOMAIN calls' : IsCompletion(i)' =>
              i \in DOMAIN calls /\ IsCompletion(i) /\ calls'[i] = calls[i]
<1>1. PICK s : s \notin Slots
  <2>1. PICK s : s = CHOOSE u : u \notin Slots
    OBVIOUS
  <2>. QED  BY <2>1, NoSetContainsEverything
<1>3. conns' = [conns EXCEPT ![s] = conns'[s]] /\ gens' = [gens EXCEPT ![s] = gens'[s]]
  BY <1>1 DEF LoopShape
<1>4. Moves(s, c)
  BY <1>3 DEF Moves
<1>5. \A e \in ready' : e.slot \in Slots
  BY DEF LoopShape, Edge, SlotsOf, Token
<1>6. IsSeq(calls') /\ Calls(calls') /\ IsSeq(done') /\ IsSeq(jobs') /\ thr' = [t \in Threads |-> thr'[t]]
  BY DEF LoopShape
<1>7. LoopShape' /\ \A d \in Clients \ {c} : Same(d)
  BY <1>1, <1>4, <1>5, <1>6, ShapeMoves
<1>. QED  BY <1>7 DEF IsCompletion

\* A connection of another client is kept.
LEMMA OthersKept ==
  ASSUME ReplyInv, NEW c, UNCHANGED <<script, conns, gens>>,
         \A d \in Clients \ {c} : Same(d), NEW r \in Slots, conns[r] = None \/ conns[r].client # c
  PROVE  Kept(r)
<1>1. ConnOK(r) /\ (conns[r] # None => conns[r].client \in Clients)
  BY DEF ReplyInv, ConnOK, IsConn
<1>. QED  BY <1>1, SameKept

\* Connect.
LEMMA ConnectStep == ASSUME ReplyInv, NEW c \in Clients, Connect(c) PROVE ReplyInv'
<1>1. /\ link[c] = "new" /\ link' = [link EXCEPT ![c] = "backlog"]
      /\ UNCHANGED <<script, sent, fin, got, inq, outq, conns, gens, ready, calls, jobs, thr, done, elsewhere>>
  BY DEF Connect, client, pool
<1>2. LoopShape /\ ClientShape(c) /\ fin[c] \in BOOLEAN /\ ClientOK(c)
  BY DEF ReplyInv, LoopShape
<1>3. ClientShape(c)' /\ fin'[c] \in BOOLEAN
  BY <1>1, <1>2 DEF ClientShape
<1>4. /\ sent' = [sent EXCEPT ![c] = sent'[c]] /\ fin' = [fin EXCEPT ![c] = fin'[c]]
      /\ got' = [got EXCEPT ![c] = got'[c]] /\ inq' = [inq EXCEPT ![c] = inq'[c]]
      /\ outq' = [outq EXCEPT ![c] = outq'[c]] /\ link' = [link EXCEPT ![c] = link'[c]]
      /\ elsewhere' = [elsewhere EXCEPT ![c] = elsewhere'[c]] /\ link'[c] = "backlog"
  BY <1>1, <1>2 DEF LoopShape
<1>5. /\ LoopShape' /\ \A d \in Clients \ {c} : Same(d)
      /\ \A i \in DOMAIN calls' : IsCompletion(i)' =>
           i \in DOMAIN calls /\ IsCompletion(i) /\ calls'[i] = calls[i]
  BY <1>1, <1>2, <1>3, <1>4, ClientShapes
<1>6. \A r \in Slots : Kept(r)
  <2>1. \A r \in Slots : conns[r] = None \/ conns[r].client # c
    BY <1>1 DEF ReplyInv, ConnOK
  <2>. QED  BY <1>1, <1>5, <2>1, OthersKept
<1>7. ClientOK(c)'
  BY <1>1, <1>2, <1>4 DEF ClientOK
<1>. QED  BY <1>1, <1>5, <1>6, <1>7, ClientStep

\* Send.
LEMMA SendStep == ASSUME ReplyInv, NEW c \in Clients, Send(c) PROVE ReplyInv'
<1>1. /\ link[c] \in {"backlog", "open"} /\ sent[c] < Len(script[c])
      /\ sent' = [sent EXCEPT ![c] = sent[c] + 1] /\ inq' = [inq EXCEPT ![c] = Append(inq[c], sent[c] + 1)]
      /\ ready' = ready \cup Edge(c)
      /\ UNCHANGED <<script, fin, got, outq, link, conns, gens, calls, jobs, thr, done, elsewhere>>
  BY DEF Send, Open, pool
<1>2. LoopShape /\ ClientShape(c) /\ fin[c] \in BOOLEAN /\ ClientOK(c) /\ Ends(script[c])
  BY ScriptIs DEF ReplyInv, LoopShape
<1>3. sent[c] \in Nat /\ Len(script[c]) \in Nat /\ inq[c] \in Seq(Nat)
  BY <1>2, WantedIs DEF ClientShape
<1>4. sent'[c] = sent[c] + 1 /\ inq'[c] = Append(inq[c], sent[c] + 1)
  BY <1>1, <1>2 DEF LoopShape
<1>5. ClientShape(c)'
  <2>1. inq'[c] \in Seq(Nat)
    BY <1>3, <1>4, AppendProperties
  <2>2. sent'[c] \in 0..Len(script[c])
    BY <1>1, <1>3, <1>4
  <2>. QED  BY <1>1, <1>2, <2>1, <2>2 DEF ClientShape
<1>6. /\ sent' = [sent EXCEPT ![c] = sent'[c]] /\ fin' = [fin EXCEPT ![c] = fin'[c]]
      /\ got' = [got EXCEPT ![c] = got'[c]] /\ inq' = [inq EXCEPT ![c] = inq'[c]]
      /\ outq' = [outq EXCEPT ![c] = outq'[c]] /\ link' = [link EXCEPT ![c] = link'[c]]
      /\ elsewhere' = [elsewhere EXCEPT ![c] = elsewhere'[c]]
      /\ link'[c] = link[c] /\ link[c] \in {"new", "backlog", "open", "closed"}
  BY <1>1, <1>2, <1>4 DEF LoopShape
<1>7. /\ LoopShape' /\ \A d \in Clients \ {c} : Same(d)
      /\ \A i \in DOMAIN calls' : IsCompletion(i)' =>
           i \in DOMAIN calls /\ IsCompletion(i) /\ calls'[i] = calls[i]
  BY <1>1, <1>2, <1>5, <1>6, ClientShapes
<1>8. ASSUME NEW r \in Slots PROVE Kept(r)
  <2>1. CASE conns[r] = None \/ conns[r].client # c
    BY <1>1, <1>7, <2>1, OthersKept
  <2>2. CASE conns[r] # None /\ conns[r].client = c
    <3>1. IsConn(conns[r])
      BY <2>2, ConnIs
    <3>2. \A w, h : h \in Seq(Nat) /\ Follows(script[c], sent[c], inq[c], w, h)
                      => Follows(script[c], sent'[c], inq'[c], w, h)
      BY <1>3, <1>4, FollowsSend
    <3>. QED  BY <1>1, <2>2, <3>1, <3>2 DEF Kept, Written
  <2>. QED  BY <2>1, <2>2
<1>9. ClientOK(c)'
  <2>1. CASE link[c] = "backlog"
    <3>1. 0 \in Nat /\ 0 <= sent[c]
      BY <1>3
    <3>2. Run(0, sent[c] + 1) = Append(Run(0, sent[c]), sent[c] + 1)
      BY <1>3, <3>1, RunGrows
    <3>. QED  BY <1>1, <1>2, <1>4, <2>1, <3>2 DEF ClientOK
  <2>2. CASE link[c] = "open"
    <3>1. HasSlot(c)' <=> HasSlot(c)
      BY <1>1 DEF HasSlot, Slots
    <3>. QED  BY <1>1, <1>2, <2>2, <3>1 DEF ClientOK
  <2>. QED  BY <1>1, <2>1, <2>2
<1>. QED  BY <1>1, <1>7, <1>8, <1>9, ClientStep

\* Finish.
LEMMA FinishStep == ASSUME ReplyInv, NEW c \in Clients, Finish(c) PROVE ReplyInv'
<1>1. /\ link[c] \in {"backlog", "open"} /\ fin' = [fin EXCEPT ![c] = TRUE] /\ ready' = ready \cup Edge(c)
      /\ UNCHANGED <<script, sent, got, inq, outq, link, conns, gens, calls, jobs, thr, done, elsewhere>>
  BY DEF Finish, Open, pool, socket
<1>2. LoopShape /\ ClientShape(c) /\ ClientOK(c)
  BY DEF ReplyInv, LoopShape
<1>3. ClientShape(c)' /\ fin'[c] = TRUE
  BY <1>1, <1>2 DEF ClientShape, LoopShape
<1>4. /\ sent' = [sent EXCEPT ![c] = sent'[c]] /\ fin' = [fin EXCEPT ![c] = fin'[c]]
      /\ got' = [got EXCEPT ![c] = got'[c]] /\ inq' = [inq EXCEPT ![c] = inq'[c]]
      /\ outq' = [outq EXCEPT ![c] = outq'[c]] /\ link' = [link EXCEPT ![c] = link'[c]]
      /\ elsewhere' = [elsewhere EXCEPT ![c] = elsewhere'[c]]
      /\ link'[c] \in {"new", "backlog", "open", "closed"}
  BY <1>1, <1>2, <1>3 DEF LoopShape
<1>5. /\ LoopShape' /\ \A d \in Clients \ {c} : Same(d)
      /\ \A i \in DOMAIN calls' : IsCompletion(i)' =>
           i \in DOMAIN calls /\ IsCompletion(i) /\ calls'[i] = calls[i]
  BY <1>1, <1>2, <1>3, <1>4, ClientShapes
<1>6. ASSUME NEW r \in Slots PROVE Kept(r)
  <2>1. CASE conns[r] = None \/ conns[r].client # c
    BY <1>1, <1>5, <2>1, OthersKept
  <2>2. CASE conns[r] # None /\ conns[r].client = c
    <3>1. IsConn(conns[r])
      BY <2>2, ConnIs
    <3>. QED  BY <1>1, <1>3, <2>2, <3>1 DEF Kept, Written
  <2>. QED  BY <2>1, <2>2
<1>7. ClientOK(c)'
  <2>1. HasSlot(c)' <=> HasSlot(c)
    BY <1>1 DEF HasSlot, Slots
  <2>. QED  BY <1>1, <1>2, <2>1 DEF ClientOK
<1>. QED  BY <1>1, <1>5, <1>6, <1>7, ClientStep

\* Recv.
LEMMA RecvStep == ASSUME ReplyInv, NEW c \in Clients, Recv(c) PROVE ReplyInv'
<1>1. /\ outq[c] # <<>> /\ got' = [got EXCEPT ![c] = got[c] \o outq[c]] /\ outq' = [outq EXCEPT ![c] = <<>>]
      /\ ready' \subseteq ready \cup Edge(c)
      /\ UNCHANGED <<script, sent, fin, inq, link, conns, gens, calls, jobs, thr, done, elsewhere>>
  BY DEF Recv, pool
<1>2. LoopShape /\ ClientShape(c) /\ fin[c] \in BOOLEAN /\ ClientOK(c)
  BY DEF ReplyInv, LoopShape
<1>3. got[c] \in Seq(Nat) /\ outq[c] \in Seq(Nat) /\ elsewhere[c] \in Seq(Nat)
  BY <1>2 DEF ClientShape
<1>4. got'[c] = got[c] \o outq[c] /\ outq'[c] = <<>>
  BY <1>1, <1>2 DEF LoopShape
<1>5. got[c] \o outq[c] \in Seq(Nat) /\ \A v \in Seq(Nat) : (got[c] \o outq[c]) \o (<<>> \o v) = (got[c] \o outq[c]) \o v
  BY <1>3, ConcatProperties, ConcatEmptySeq
<1>6. ClientShape(c)'
  <2>1. <<>> \in Seq(Nat) /\ Len(<<>>) = 0 /\ 0 <= SockOut
    BY LimitsAreNumbers
  <2>. QED  BY <1>1, <1>2, <1>4, <1>5, <2>1 DEF ClientShape
<1>7. /\ sent' = [sent EXCEPT ![c] = sent'[c]] /\ fin' = [fin EXCEPT ![c] = fin'[c]]
      /\ got' = [got EXCEPT ![c] = got'[c]] /\ inq' = [inq EXCEPT ![c] = inq'[c]]
      /\ outq' = [outq EXCEPT ![c] = outq'[c]] /\ link' = [link EXCEPT ![c] = link'[c]]
      /\ elsewhere' = [elsewhere EXCEPT ![c] = elsewhere'[c]]
      /\ link'[c] \in {"new", "backlog", "open", "closed"} /\ fin'[c] \in BOOLEAN
  BY <1>1, <1>2, <1>4 DEF LoopShape
<1>8. /\ LoopShape' /\ \A d \in Clients \ {c} : Same(d)
      /\ \A i \in DOMAIN calls' : IsCompletion(i)' =>
           i \in DOMAIN calls /\ IsCompletion(i) /\ calls'[i] = calls[i]
  BY <1>1, <1>2, <1>6, <1>7, ClientShapes
<1>9. ASSUME NEW v \in Seq(Nat) PROVE got'[c] \o outq'[c] \o v = got[c] \o outq[c] \o v
  <2>1. got'[c] \o outq'[c] \o v = (got[c] \o outq[c]) \o v
    <3>1. <<>> \in Seq(Nat) /\ got[c] \o outq[c] \in Seq(Nat) /\ <<>> \o v = v
      BY <1>5, ConcatEmptySeq
    <3>. QED  BY <1>4, <1>5, <3>1, Regroup
  <2>2. got[c] \o outq[c] \o v = (got[c] \o outq[c]) \o v
    BY <1>3, Regroup
  <2>. QED  BY <2>1, <2>2
<1>10. ASSUME NEW r \in Slots PROVE Kept(r)
  <2>1. CASE conns[r] = None \/ conns[r].client # c
    BY <1>1, <1>8, <2>1, OthersKept
  <2>2. CASE conns[r] # None /\ conns[r].client = c
    <3>1. IsConn(conns[r]) /\ conns[r].wbuf \in Seq(Nat)
      BY <2>2, ConnIs
    <3>2. got'[c] \o outq'[c] \o conns[r].wbuf = Written(conns[r])
      BY <1>9, <2>2, <3>1 DEF Written
    <3>. QED  BY <1>1, <2>2, <3>1, <3>2 DEF Kept
  <2>. QED  BY <2>1, <2>2
<1>11. ClientOK(c)'
  <2>1. HasSlot(c)' <=> HasSlot(c)
    BY <1>1 DEF HasSlot, Slots
  <2>2. got'[c] \o outq'[c] \o elsewhere'[c] = got[c] \o outq[c] \o elsewhere[c]
    BY <1>1, <1>3, <1>9
  <2>3. got'[c] \o outq'[c] = got[c] \o outq[c]
    BY <1>4, <1>5, ConcatEmptySeq
  <2>. QED  BY <1>1, <1>2, <2>1, <2>2, <2>3 DEF ClientOK, Begins
<1>. QED  BY <1>1, <1>8, <1>10, <1>11, ClientStep

\* The thread of a handed-off connection.
LEMMA ElsewhereStep == ASSUME ReplyInv, NEW c \in Clients, ServeElsewhere(c) PROVE ReplyInv'
<1>1. /\ elsewhere[c] # <<>> /\ Len(outq[c]) < SockOut
      /\ outq' = [outq EXCEPT ![c] = Append(outq[c], Head(elsewhere[c]))]
      /\ elsewhere' = [elsewhere EXCEPT ![c] = Tail(elsewhere[c])]
      /\ UNCHANGED <<script, sent, fin, got, inq, link, conns, gens, ready, calls, jobs, thr, done>>
  BY DEF ServeElsewhere, client, pool
<1>2. LoopShape /\ ClientShape(c) /\ fin[c] \in BOOLEAN /\ ClientOK(c)
  BY DEF ReplyInv, LoopShape
<1>3. got[c] \in Seq(Nat) /\ outq[c] \in Seq(Nat) /\ elsewhere[c] \in Seq(Nat)
  BY <1>2 DEF ClientShape
<1>4. PICK h \in Nat : h = Head(elsewhere[c])
  BY <1>1, <1>3, HeadTailProperties
<1>5. PICK t \in Seq(Nat) : t = Tail(elsewhere[c])
  BY <1>1, <1>3, HeadTailProperties
<1>6. outq'[c] = Append(outq[c], h) /\ elsewhere'[c] = t
  BY <1>1, <1>2, <1>4, <1>5 DEF LoopShape
<1>7. ClientShape(c)'
  <2>1. Append(outq[c], h) \in Seq(Nat) /\ Len(Append(outq[c], h)) = Len(outq[c]) + 1 /\ Len(outq[c]) \in Nat
    BY <1>3, AppendProperties, LenProperties
  <2>2. Len(Append(outq[c], h)) <= SockOut
    BY <1>1, <2>1, LimitsAreNumbers
  <2>. QED  BY <1>1, <1>2, <1>6, <2>1, <2>2 DEF ClientShape
<1>8. /\ sent' = [sent EXCEPT ![c] = sent'[c]] /\ fin' = [fin EXCEPT ![c] = fin'[c]]
      /\ got' = [got EXCEPT ![c] = got'[c]] /\ inq' = [inq EXCEPT ![c] = inq'[c]]
      /\ outq' = [outq EXCEPT ![c] = outq'[c]] /\ link' = [link EXCEPT ![c] = link'[c]]
      /\ elsewhere' = [elsewhere EXCEPT ![c] = elsewhere'[c]]
      /\ link'[c] \in {"new", "backlog", "open", "closed"} /\ fin'[c] \in BOOLEAN
  BY <1>1, <1>2, <1>4, <1>5, <1>6 DEF LoopShape
<1>9. /\ LoopShape' /\ \A d \in Clients \ {c} : Same(d)
      /\ \A i \in DOMAIN calls' : IsCompletion(i)' =>
           i \in DOMAIN calls /\ IsCompletion(i) /\ calls'[i] = calls[i]
  BY <1>1, <1>2, <1>7, <1>8, ClientShapes
<1>10. \A r \in Slots : conns[r] = None \/ conns[r].client # c
  BY <1>1 DEF ReplyInv, ConnOK
<1>11. \A r \in Slots : Kept(r)
  BY <1>1, <1>9, <1>10, OthersKept
<1>12. link[c] = "open" /\ ~HasSlot(c) /\ ~HasSlot(c)'
  <2>1. link[c] \in {"new", "backlog", "open", "closed"}
    BY <1>2 DEF LoopShape
  <2>. QED  BY <1>1, <1>2, <1>10, <2>1 DEF ClientOK, HasSlot, Slots
<1>13. got[c] \o Append(outq[c], h) \o t = got[c] \o outq[c] \o elsewhere[c]
  <2>1. PICK g \in Seq(Nat) : g = got[c]
    BY <1>3
  <2>2. PICK o \in Seq(Nat) : o = outq[c]
    BY <1>3
  <2>3. PICK e \in Seq(Nat) : e = elsewhere[c]
    BY <1>3
  <2>4. e = <<h>> \o t
    BY <1>1, <1>4, <1>5, <2>3
  <2>5. Append(o, h) = o \o <<h>> /\ <<h>> \in Seq(Nat)
    OBVIOUS
  <2>6. (o \o <<h>>) \o t = o \o (<<h>> \o t)
    BY <2>5, Regroup
  <2>7. o \o <<h>> \in Seq(Nat)
    BY <2>5, ConcatProperties
  <2>8. (g \o (o \o <<h>>)) \o t = g \o ((o \o <<h>>) \o t)
    BY <2>7, Regroup
  <2>9. (g \o o) \o e = g \o (o \o e)
    BY Regroup
  <2>. QED  BY <2>1, <2>2, <2>3, <2>4, <2>5, <2>6, <2>8, <2>9
<1>14. ClientOK(c)'
  BY <1>1, <1>2, <1>6, <1>12, <1>13 DEF ClientOK
<1>. QED  BY <1>1, <1>9, <1>11, <1>14, ClientStep

-----------------------------------------------------------------------------
\* The calls of an event.
LEMMA EventCalls ==
  ASSUME NEW s \in Slots, NEW a, a = <<>> \/ a = << <<"flush", s>> >>,
         NEW b, b = <<>> \/ b = << <<"readable", s>> >>
  PROVE  IsSeq(a \o b) /\ Calls(a \o b) /\ \A i \in DOMAIN (a \o b) : (a \o b)[i][1] # "completion"
<1>1. PICK x : x = <<"flush", s>>
  OBVIOUS
<1>2. PICK y : y = <<"readable", s>>
  OBVIOUS
<1>3. PICK cs : cs = a \o b
  OBVIOUS
<1>4. PICK S : S = {x, y}
  OBVIOUS
<1>5. a \in Seq(S) /\ b \in Seq(S)
  <2>1. x \in S /\ y \in S
    BY <1>4
  <2>2. <<>> \in Seq(S) /\ <<x>> \in Seq(S) /\ <<y>> \in Seq(S)
    BY <2>1
  <2>. QED  BY <1>1, <1>2, <2>2
<1>6. cs \in Seq(S)
  BY <1>3, <1>5, ConcatProperties
<1>7. \A i \in DOMAIN cs : cs[i] \in S
  BY <1>6, LenProperties
<1>8. IsSeq(cs) /\ Calls(cs) /\ \A i \in DOMAIN cs : cs[i][1] # "completion"
  BY <1>1, <1>2, <1>4, <1>6, <1>7, SeqOfElements DEF Calls
<1>. QED  BY <1>3, <1>8

\* An event without completions.
LEMMA PlainEventStep ==
  ASSUME ReplyInv, UNCHANGED <<client, socket, conns, gens, jobs, thr, done, elsewhere>>,
         IsSeq(calls'), Calls(calls'), \A i \in DOMAIN calls' : calls'[i][1] # "completion",
         ready' \subseteq ready
  PROVE  ReplyInv'
<1>1. UNCHANGED <<script, sent, fin, got, inq, outq, link, conns, gens, jobs, thr, done, elsewhere>>
  BY DEF client, socket
<1>2. LoopShape'
  <2>1. Calls(calls)' <=> Calls(calls')
    BY DEF Calls, Slots
  <2>2. LoopShape
    BY DEF ReplyInv
  <2>3. \A d \in Clients : ClientShape(d)'
    BY <1>1, <2>2 DEF LoopShape, ClientShape
  <2>. QED  BY <1>1, <2>1, <2>2, <2>3 DEF LoopShape, IsSeq, Slots
<1>3. \A d \in Clients : Same(d)
  BY <1>1 DEF Same
<1>4. PICK c : c \notin Clients
  <2>1. PICK c : c = CHOOSE u : u \notin Clients
    OBVIOUS
  <2>. QED  BY <2>1, NoSetContainsEverything
<1>5. \A r \in Slots : Kept(r)
  <2>1. \A r \in Slots : conns[r] = None \/ conns[r].client # c
    BY <1>4, ConnIs
  <2>2. \A d \in Clients \ {c} : Same(d)
    BY <1>3
  <2>3. UNCHANGED <<script, conns, gens>>
    BY <1>1
  <2>. QED  BY ONLY ReplyInv, <2>1, <2>2, <2>3, OthersKept
<1>6. \A i \in DOMAIN calls' : ~IsCompletion(i)'
  BY DEF IsCompletion
<1>. QED  BY <1>1, <1>2, <1>3, <1>4, <1>5, <1>6, ClientStep

\* conn_event.
LEMMA ConnEventStep ==
  ASSUME ReplyInv, NEW e \in ready, ConnEvent(e),
         UNCHANGED <<client, socket, conns, gens, pool, elsewhere>>
  PROVE  ReplyInv'
<1>1. PICK s : s = e.slot
  OBVIOUS
<1>2. s \in Slots
  BY <1>1 DEF ReplyInv, LoopShape
<1>3. PICK c : c = conns[s].client
  OBVIOUS
<1>4. PICK a : a = IF Len(outq[c]) < SockOut THEN << <<"flush", s>> >> ELSE <<>>
  OBVIOUS
<1>5. PICK b : b = IF inq[c] # <<>> \/ fin[c] THEN << <<"readable", s>> >> ELSE <<>>
  OBVIOUS
<1>6. calls' = <<>> \/ calls' = a \o b
  BY <1>1, <1>3, <1>4, <1>5 DEF ConnEvent
<1>7. IsSeq(calls') /\ Calls(calls') /\ \A i \in DOMAIN calls' : calls'[i][1] # "completion"
  <2>1. CASE calls' = <<>>
    BY <2>1, CallsAre
  <2>2. CASE calls' = a \o b
    BY <1>2, <1>4, <1>5, <2>2, EventCalls
  <2>. QED  BY <1>6, <2>1, <2>2
<1>8. ready' \subseteq ready /\ UNCHANGED <<client, socket, conns, gens, jobs, thr, done, elsewhere>>
  BY DEF ConnEvent, pool
<1>. QED  BY <1>7, <1>8, PlainEventStep

\* A new connection waits.
LEMMA ListenerStep ==
  ASSUME ReplyInv, Listener, UNCHANGED <<client, socket, conns, gens, pool, elsewhere>>
  PROVE  ReplyInv'
<1>1. PICK cs : cs = << <<"accept">> >>
  OBVIOUS
<1>2. DOMAIN cs = {1} /\ cs[1] = <<"accept">> /\ cs \in Seq({<<"accept">>})
  BY <1>1
<1>3. IsSeq(cs) /\ Calls(cs) /\ \A i \in DOMAIN cs : cs[i][1] # "completion"
  BY <1>2, SeqOfElements DEF Calls
<1>4. calls' = cs /\ ready' \subseteq ready /\ UNCHANGED <<client, socket, conns, gens, jobs, thr, done, elsewhere>>
  BY <1>1 DEF Listener, pool
<1>. QED  BY <1>3, <1>4, PlainEventStep

\* The list of completions becomes the worker's.
LEMMA CompletionsStep ==
  ASSUME ReplyInv, calls = <<>>, Completions, UNCHANGED <<client, socket, conns, gens, pool, elsewhere>>
  PROVE  ReplyInv'
<1>1. /\ done' = <<>> /\ calls' = [i \in DOMAIN done |-> <<"completion", done[i]>>]
      /\ UNCHANGED <<script, sent, fin, got, inq, outq, link, conns, gens, jobs, thr, elsewhere, ready>>
  BY DEF Completions, client, socket, pool
<1>2. LoopShape /\ WorkOK /\ LentOnce
  BY DEF ReplyInv
<1>3. IsSeq(done) /\ DOMAIN done = 1..Len(done) /\ Len(done) \in Nat
  BY <1>2, LenProperties DEF LoopShape, IsSeq
<1>4. /\ DOMAIN calls' = DOMAIN done
      /\ \A i \in DOMAIN calls' : calls'[i] = <<"completion", done[i]>>
  BY <1>1
<1>5. IsSeq(calls') /\ Calls(calls')
  <2>. DEFINE S == {<<"completion", done[i]>> : i \in DOMAIN done}
  <2>1. calls' \in [1..Len(done) -> S]
    BY <1>1, <1>3
  <2>. HIDE DEF S
  <2>2. calls' \in Seq(S)
    BY <1>3, <2>1, SeqDef
  <2>. QED  BY <1>4, <2>2, SeqOfElements DEF Calls
<1>6. IsSeq(<<>>)
  BY CallsAre
<1>7. LoopShape'
  <2>1. Calls(calls)' <=> Calls(calls')
    BY DEF Calls, Slots
  <2>2. \A d \in Clients : ClientShape(d)'
    BY <1>1, <1>2 DEF LoopShape, ClientShape
  <2>. QED  BY <1>1, <1>2, <1>5, <1>6, <2>1, <2>2 DEF LoopShape, IsSeq, Slots
<1>8. \A d \in Clients : Same(d)
  BY <1>1 DEF Same
<1>9. \A r \in Slots : ConnOK(r) /\ Kept(r)
  <2>. SUFFICES ASSUME NEW r \in Slots PROVE ConnOK(r) /\ Kept(r)
    OBVIOUS
  <2>1. ConnOK(r) /\ (conns[r] # None => conns[r].client \in Clients)
    BY DEF ReplyInv, ConnOK, IsConn
  <2>. QED  BY <1>1, <1>8, <2>1, SameKept
<1>10. \A p \in Places : Still(Work(p))
  BY <1>2, <1>9, WorkShape DEF Still
<1>11. \A x : JobOK(x) /\ Still(x) => JobOK(x)'
  BY <1>1, <1>2, JobStays DEF LoopShape
<1>12. \A x : CompOK(x) /\ Still(x) => CompOK(x)'
  BY <1>1, <1>2, CompStays DEF LoopShape
<1>13. \A i \in DOMAIN jobs : JobOK(jobs[i])' /\ jobs'[i].cmds # <<>>
  <2>. SUFFICES ASSUME NEW i \in DOMAIN jobs PROVE JobOK(jobs[i])' /\ jobs'[i].cmds # <<>>
    OBVIOUS
  <2>1. JobOK(jobs[i]) /\ Still(jobs[i]) /\ jobs[i].cmds # <<>>
    BY <1>2, <1>10, PlaceIs DEF WorkOK
  <2>2. PICK x : x = jobs[i]
    OBVIOUS
  <2>3. JobOK(x)'
    BY <1>11, <2>1, <2>2
  <2>. QED  BY <1>1, <2>1, <2>2, <2>3
<1>14. ASSUME NEW u \in Threads PROVE ThreadOK(u)'
  <2>1. ThreadOK(u)
    BY <1>2 DEF WorkOK
  <2>2. ASSUME HasJob(u) PROVE JobOK(thr[u].job)'
    <3>1. JobOK(thr[u].job) /\ Still(thr[u].job)
      BY <1>10, <2>1, <2>2, PlaceIs DEF ThreadOK
    <3>2. PICK x : x = thr[u].job
      OBVIOUS
    <3>3. JobOK(x)'
      BY <1>11, <3>1, <3>2
    <3>. QED  BY <1>1, <3>2, <3>3
  <2>3. ASSUME HasComp(u) PROVE CompOK(thr[u].comp)'
    <3>1. CompOK(thr[u].comp) /\ Still(thr[u].comp)
      BY <1>10, <2>1, <2>3, PlaceIs DEF ThreadOK
    <3>2. PICK x : x = thr[u].comp
      OBVIOUS
    <3>3. CompOK(x)'
      BY <1>12, <3>1, <3>2
    <3>. QED  BY <1>1, <3>2, <3>3
  <2>4. (HasJob(u)' <=> HasJob(u)) /\ (HasComp(u)' <=> HasComp(u))
    BY <1>1 DEF HasJob, HasComp
  <2>. QED  BY <1>1, <2>1, <2>2, <2>3, <2>4 DEF ThreadOK
<1>15. ASSUME NEW i \in DOMAIN calls' PROVE CompOK(calls[i][2])'
  <2>1. CompOK(done[i]) /\ Still(done[i]) /\ calls'[i][2] = done[i]
    <3>1. i \in DOMAIN done /\ calls'[i][2] = done[i]
      BY <1>4
    <3>2. CompOK(done[i]) /\ <<"done", i>> \in Places /\ Work(<<"done", i>>) = done[i]
      BY <1>2, <3>1, PlaceIs DEF WorkOK
    <3>3. Still(done[i])
      BY <1>10, <3>2
    <3>. QED  BY <3>1, <3>2, <3>3
  <2>2. PICK x : x = done[i]
    OBVIOUS
  <2>3. CompOK(x)'
    BY <1>12, <2>1, <2>2
  <2>. QED  BY <2>1, <2>2, <2>3
<1>16. WorkOK'
  BY <1>1, <1>13, <1>14, <1>15 DEF WorkOK
<1>17. LentOnce'
  <2>. DEFINE f == [p \in Places' |-> IF p[1] = "calls" THEN <<"done", p[2]>> ELSE p]
  <2>1. ASSUME NEW p \in Places'
        PROVE  /\ p = <<p[1], p[2]>> /\ p[1] # "done"
               /\ p[1] = "calls" => p[2] \in DOMAIN done /\ Work(p)' = done[p[2]]
               /\ p[1] # "calls" => p \in Places /\ Work(p)' = Work(p)
    <3>1. CASE \E i \in DOMAIN calls' : p = <<"calls", i>>
      BY <1>4, <3>1 DEF Work
    <3>2. CASE \E i \in DOMAIN jobs : p = <<"jobs", i>>
      BY <1>1, <3>2 DEF Places, Work
    <3>3. CASE \E t \in Threads : (HasJob(t)' \/ HasComp(t)') /\ p = <<"thr", t>>
      <4>1. PICK t \in Threads : (HasJob(t)' \/ HasComp(t)') /\ p = <<"thr", t>>
        BY <3>3
      <4>2. (HasJob(t)' <=> HasJob(t)) /\ (HasComp(t)' <=> HasComp(t))
        BY <1>1 DEF HasJob, HasComp
      <4>. QED  BY <1>1, <4>1, <4>2 DEF Places, Work
    <3>. QED  BY <1>1, <3>1, <3>2, <3>3 DEF Places
  <2>2. ASSUME NEW p \in Places'
        PROVE  f[p] \in Places /\ Work(p)' = Work(f[p])
    <3>1. CASE p[1] = "calls"
      BY <2>1, <3>1, PlaceIs
    <3>2. CASE p[1] # "calls"
      BY <2>1, <3>2
    <3>. QED  BY <3>1, <3>2
  <2>3. ASSUME NEW p \in Places', NEW q \in Places', p # q PROVE f[p] # f[q]
    BY <2>1, <2>3
  <2>. HIDE DEF f
  <2>4. PICK x : x = <<"none", 0>>
    OBVIOUS
  <2>5. x \notin Places'
    <3>1. \A p \in Places' : p[1] \in {"jobs", "thr", "done", "calls"}
      BY DEF Places
    <3>. QED  BY <2>4, <3>1
  <2>6. Carries(f, x)
    BY <2>2, <2>3, <2>5 DEF Carries
  <2>. QED  BY <1>2, <2>6, LentMap
<1>18. \A r \in Slots : ConnOK(r)'
  BY <1>1, <1>9, ConnKept
<1>19. ASSUME NEW d \in Clients PROVE ClientOK(d)'
  <2>1. ClientOK(d) /\ (HasSlot(d) => HasSlot(d)')
    BY <1>1 DEF ReplyInv, HasSlot, Slots
  <2>. QED  BY <1>1, <1>8, <2>1, ClientKept
<1>20. OneSlotEach' /\ Slots' = Slots
  BY <1>1 DEF ReplyInv, OneSlotEach, Slots
<1>. QED  BY <1>7, <1>16, <1>17, <1>18, <1>19, <1>20 DEF ReplyInv

\* All of the worker's steps.
LEMMA WorkerKeeps == ASSUME ReplyInv, Worker PROVE ReplyInv'
<1>1. ASSUME OnEvent PROVE ReplyInv'
  <2>1. calls = <<>> /\ UNCHANGED <<client, socket, conns, gens, pool, elsewhere>>
    BY <1>1 DEF OnEvent
  <2>2. ASSUME NEW e \in ready, ConnEvent(e) PROVE ReplyInv'
    BY <2>1, <2>2, ConnEventStep
  <2>3. CASE Completions
    BY <2>1, <2>3, CompletionsStep
  <2>4. CASE Listener
    BY <2>1, <2>4, ListenerStep
  <2>. QED  BY <1>1, <2>2, <2>3, <2>4 DEF OnEvent
<1>. QED  BY <1>1, AcceptStep, ReadableStep, ProcessStep, CompletionStep, FlushStep DEF Worker

-----------------------------------------------------------------------------
(* The pool's threads.                                                     *)

\* What a pool thread leaves alone.
Aside == UNCHANGED <<script, sent, fin, got, link, conns, gens, ready, calls, elsewhere>>

\* A thread goes on with what it has, at one slot and one client.
GoesOn(t) ==
  /\ UNCHANGED <<jobs, done>> /\ ThreadOK(t)'
  /\ HasJob(t)' \/ HasComp(t)' =>
       /\ HasJob(t) \/ HasComp(t)
       /\ Work(<<"thr", t>>)'.slot = Work(<<"thr", t>>).slot
       /\ Work(<<"thr", t>>)'.gen = Work(<<"thr", t>>).gen
Touches(t, s, c) ==
  /\ \A d \in Clients \ {c} : inq'[d] = inq[d] /\ outq'[d] = outq[d]
  /\ inq' = [d \in Clients |-> inq'[d]] /\ outq' = [d \in Clients |-> outq'[d]]
  /\ \A r \in Slots \ {s} : conns[r] # None => conns[r].client # c
  /\ \A p \in Places : p # <<"thr", t>> /\ Work(p).slot = s => ~Live(Work(p))
  /\ s \in Slots => ConnOK(s)'
  /\ c \in Clients => ClientOK(c)' /\ ClientShape(c)'

\* Such a step keeps the replies.
LEMMA ThreadStep ==
  ASSUME ReplyInv, NEW t \in Threads, Aside, NEW x, Become(t, x), GoesOn(t), NEW s, NEW c, Touches(t, s, c)
  PROVE  ReplyInv'
<1>0. /\ UNCHANGED <<jobs, done>> /\ ThreadOK(t)'
      /\ HasJob(t)' \/ HasComp(t)' =>
           /\ HasJob(t) \/ HasComp(t)
           /\ Work(<<"thr", t>>)'.slot = Work(<<"thr", t>>).slot
           /\ Work(<<"thr", t>>)'.gen = Work(<<"thr", t>>).gen
      /\ \A d \in Clients \ {c} : inq'[d] = inq[d] /\ outq'[d] = outq[d]
      /\ inq' = [d \in Clients |-> inq'[d]] /\ outq' = [d \in Clients |-> outq'[d]]
      /\ \A r \in Slots \ {s} : conns[r] # None => conns[r].client # c
      /\ \A p \in Places : p # <<"thr", t>> /\ Work(p).slot = s => ~Live(Work(p))
      /\ s \in Slots => ConnOK(s)'
      /\ c \in Clients => ClientOK(c)' /\ ClientShape(c)'
  BY DEF GoesOn, Touches
<1>1. LoopShape /\ WorkOK /\ LentOnce
  BY DEF ReplyInv
<1>2. UNCHANGED <<script, sent, fin, got, link, conns, gens, ready, calls, jobs, done, elsewhere>>
  BY <1>0 DEF Aside
<1>3. \A d \in Clients \ {c} : Same(d)
  BY <1>0, <1>2 DEF Same
<1>4. thr' = [u \in Threads |-> thr'[u]] /\ \A u \in Threads \ {t} : thr'[u] = thr[u]
  BY <1>1 DEF LoopShape, Become
<1>5. LoopShape'
  <2>1. Calls(calls)' <=> Calls(calls)
    BY <1>2 DEF Calls, Slots
  <2>2. \A d \in Clients : ClientShape(d)'
    BY <1>0, <1>1, <1>2, <1>3 DEF LoopShape, ClientShape, Same
  <2>. QED  BY <1>0, <1>1, <1>2, <1>4, <2>1, <2>2 DEF LoopShape, IsSeq, Slots
<1>6. \A r \in Slots \ {s} : Kept(r) /\ ConnOK(r)'
  <2>. SUFFICES ASSUME NEW r \in Slots \ {s} PROVE Kept(r) /\ ConnOK(r)'
    OBVIOUS
  <2>1. ConnOK(r) /\ (conns[r] # None => conns[r].client \in Clients /\ conns[r].client # c)
    BY <1>0 DEF ReplyInv, ConnOK, IsConn
  <2>2. conns'[r] = conns[r] /\ gens'[r] = gens[r] /\ script' = script
    BY <1>2
  <2>3. Kept(r)
    BY <1>3, <2>1, <2>2, SameKept
  <2>. QED  BY <2>1, <2>2, <2>3, ConnKept
<1>7. WorkOK' /\ LentOnce'
  <2>1. \A p \in Places : p # <<"thr", t>> => Still(Work(p))
    <3>. SUFFICES ASSUME NEW p \in Places, p # <<"thr", t>> PROVE Still(Work(p))
      OBVIOUS
    <3>1. Work(p).slot \in Slots
      BY <1>1, WorkShape
    <3>2. \A r \in Slots : gens'[r] >= gens[r]
      BY <1>1, <1>2 DEF LoopShape
    <3>. QED  BY <1>0, <1>6, <3>1, <3>2 DEF Still
  <2>2. gens' \in [Slots -> Nat] /\ jobs' = jobs /\ done' = done /\ script' = script
        /\ \A u \in Threads \ {t} : thr'[u] = thr[u]
    BY <1>1, <1>2, <1>4 DEF LoopShape
  <2>3. \A i \in DOMAIN calls' : IsCompletion(i)' =>
           i \in DOMAIN calls /\ IsCompletion(i) /\ calls'[i] = calls[i]
    BY <1>2 DEF IsCompletion
  <2>4. t \in Threads => ThreadOK(t)'
    BY <1>0
  <2>5. t \in Threads /\ (HasJob(t)' \/ HasComp(t)') =>
           /\ HasJob(t) \/ HasComp(t)
           /\ Work(<<"thr", t>>)'.slot = Work(<<"thr", t>>).slot
           /\ Work(<<"thr", t>>)'.gen = Work(<<"thr", t>>).gen
    BY <1>0
  <2>. QED  BY ONLY <1>1, <2>1, <2>2, <2>3, <2>4, <2>5, WorkPasses
<1>8. ASSUME NEW d \in Clients PROVE ClientOK(d)'
  <2>1. ClientOK(d) /\ (HasSlot(d) => HasSlot(d)')
    BY <1>2 DEF ReplyInv, HasSlot, Slots
  <2>. QED  BY <1>0, <1>2, <1>3, <2>1, ClientKept
<1>9. OneSlotEach' /\ Slots' = Slots
  BY <1>2 DEF ReplyInv, OneSlotEach, Slots
<1>. QED  BY <1>0, <1>5, <1>6, <1>7, <1>8, <1>9 DEF ReplyInv

\* A thread that touches no socket.
LEMMA QuietStep ==
  ASSUME ReplyInv, NEW t \in Threads, Aside, NEW x, Become(t, x), GoesOn(t), UNCHANGED <<inq, outq>>
  PROVE  ReplyInv'
<1>1. PICK s : s \notin Slots
  <2>1. PICK s : s = CHOOSE u : u \notin Slots
    OBVIOUS
  <2>. QED  BY <2>1, NoSetContainsEverything
<1>2. PICK c : c \notin Clients
  <2>1. PICK c : c = CHOOSE u : u \notin Clients
    OBVIOUS
  <2>. QED  BY <2>1, NoSetContainsEverything
<1>3. /\ \A d \in Clients \ {c} : inq'[d] = inq[d] /\ outq'[d] = outq[d]
      /\ inq' = [d \in Clients |-> inq'[d]] /\ outq' = [d \in Clients |-> outq'[d]]
  BY DEF ReplyInv, LoopShape
<1>4. \A r \in Slots \ {s} : conns[r] # None => conns[r].client # c
  BY <1>2, ConnIs
<1>5. \A p \in Places : p # <<"thr", t>> /\ Work(p).slot = s => ~Live(Work(p))
  BY <1>1, WorkShape DEF ReplyInv
<1>6. (s \in Slots => ConnOK(s)') /\ (c \in Clients => ClientOK(c)' /\ ClientShape(c)')
  BY <1>1, <1>2
<1>7. Touches(t, s, c)
  BY <1>3, <1>4, <1>5, <1>6 DEF Touches
<1>. QED  BY <1>7, ThreadStep

\* The work of a thread is where the thread is.
LEMMA ThreadWork ==
  ASSUME NEW t \in Threads
  PROVE  /\ HasJob(t) => Work(<<"thr", t>>) = thr[t].job
         /\ HasComp(t) => Work(<<"thr", t>>) = thr[t].comp
         /\ HasJob(t)' => Work(<<"thr", t>>)' = thr'[t].job
         /\ HasComp(t)' => Work(<<"thr", t>>)' = thr'[t].comp
BY DEF Work, HasJob, HasComp

\* A thread waits or ends.
LEMMA RestStep ==
  ASSUME ReplyInv, NEW t \in Threads, Aside, UNCHANGED <<inq, outq, jobs, done>>,
         NEW x, x.at \notin {"run", "owned", "deliver"}, Become(t, x)
  PROVE  ReplyInv'
<1>1. thr'[t] = x
  BY DEF ReplyInv, LoopShape, Become
<1>2. ~HasJob(t)' /\ ~HasComp(t)' /\ ThreadOK(t)'
  BY <1>1 DEF HasJob, HasComp, ThreadOK
<1>3. GoesOn(t)
  BY <1>2 DEF GoesOn
<1>. QED  BY <1>3, QuietStep

\* A thread ends a batch without its socket.
LEMMA RunStep ==
  ASSUME ReplyInv, NEW t \in Threads, Aside, UNCHANGED <<inq, outq, jobs, done>>, thr[t].at = "run",
         NEW job, job = thr[t].job,
         Finished(t, job, Output(script[job.client], job.cmds), BatchEnd(script[job.client], job.cmds))
  PROVE  ReplyInv'
<1>1. JobOK(job) /\ HasJob(t)
  BY DEF HasJob, ReplyInv, WorkOK, ThreadOK
<1>2. PICK kinds : kinds = script[job.client]
  OBVIOUS
<1>3. PICK out : out = Output(kinds, job.cmds)
  OBVIOUS
<1>4. PICK end : end = BatchEnd(kinds, job.cmds)
  OBVIOUS
<1>5. PICK y : y = [slot |-> job.slot, gen |-> job.gen, out |-> out, end |-> end,
                    rbuf |-> job.rbuf, eof |-> job.eof]
  OBVIOUS
<1>6. PICK x : x = [at |-> "deliver", comp |-> y]
  OBVIOUS
<1>7. Become(t, x)
  BY <1>2, <1>3, <1>4, <1>5, <1>6 DEF Finished
<1>8. thr'[t] = x
  BY <1>7 DEF ReplyInv, LoopShape, Become
<1>9. UNCHANGED <<script, sent, fin, got, inq, outq, conns, gens>>
  BY DEF Aside
<1>10. IsJob(job) /\ job.gen <= gens[job.slot]
  BY <1>1 DEF JobOK
<1>11. out \in Seq(Nat) /\ end \in {"continue", "quit", "sub"}
  <2>1. job.cmds \in Seq(Nat)
    BY <1>10 DEF IsJob
  <2>. QED  BY <1>3, <1>4, <2>1, OutputIsUnits DEF BatchEnd
<1>12. CompOK(y)'
  <2>1. IsComp(y)' /\ y.gen <= gens'[y.slot] /\ y.slot = job.slot /\ y.gen = job.gen
    BY <1>5, <1>9, <1>10, <1>11 DEF IsComp, IsJob, Slots
  <2>2. CASE ~Live(job)
    BY <1>9, <2>1, <2>2 DEF CompOK, Live
  <2>3. CASE Live(job)
    <3>1. PICK k : k = conns[job.slot]
      OBVIOUS
    <3>2. /\ k # None /\ ~k.st /\ (job.eof => fin[k.client]) /\ job.client = k.client
          /\ Progress(job.client, Written(k), job.cmds \o job.rbuf)
      BY <1>1, <2>3, <3>1 DEF JobOK, Lent
    <3>3. job.slot \in Slots /\ job.cmds \in Seq(Nat) /\ job.rbuf \in Seq(Nat)
      BY <1>10 DEF IsJob
    <3>4. Ends(kinds) /\ ClientShape(job.client)
      BY <1>2, <3>1, <3>2, <3>3, ConnIs
    <3>5. PICK w : w = Written(k)
      OBVIOUS
    <3>6. PICK a \in Seq(Nat) : a = job.cmds
      BY <3>3
    <3>7. PICK b \in Seq(Nat) : b = job.rbuf
      BY <3>3
    <3>8. PICK n \in 0..Len(kinds) : n = sent[job.client]
      BY <1>2, <3>4 DEF ClientShape
    <3>9. PICK q \in Seq(Nat) : q = inq[job.client]
      BY <3>4 DEF ClientShape
    <3>10. Follows(kinds, n, q, w, a \o b)
      BY <1>2, <3>2, <3>5, <3>6, <3>7, <3>8, <3>9 DEF Progress
    <3>11. /\ end = "continue" => Follows(kinds, n, q, w \o out, b)
           /\ end # "continue" => Stops(kinds, end, w \o out)
      BY <1>3, <1>4, <3>4, <3>6, <3>10, FollowsRun
    <3>12. Written(conns[y.slot])' = w
      BY <1>9, <2>1, <3>1, <3>5 DEF Written
    <3>13. Lent(y)'
      BY <1>5, <1>9, <2>1, <3>1, <3>2 DEF Lent
    <3>14. \/ y.end = "continue" /\ Progress(k.client, w \o y.out, y.rbuf)'
           \/ y.end # "continue" /\ AllDone(k.client, w \o y.out, y.end)'
      BY <1>2, <1>5, <1>9, <3>2, <3>7, <3>8, <3>9, <3>11 DEF Progress, AllDone
    <3>. QED  BY <1>9, <2>1, <3>1, <3>12, <3>13, <3>14 DEF CompOK, Progress, AllDone
  <2>. QED  BY <2>2, <2>3
<1>13. ~HasJob(t)' /\ HasComp(t)' /\ thr'[t].comp = y
  BY <1>6, <1>8 DEF HasJob, HasComp
<1>14. ThreadOK(t)'
  BY <1>6, <1>8, <1>12, <1>13 DEF ThreadOK
<1>15. GoesOn(t)
  <2>1. Work(<<"thr", t>>)' = y /\ Work(<<"thr", t>>) = job
    BY <1>1, <1>13, ThreadWork
  <2>. QED  BY <1>1, <1>5, <1>14, <2>1 DEF GoesOn
<1>. QED  BY <1>7, <1>15, QuietStep

-----------------------------------------------------------------------------
\* A job whose thread owns the socket.
LEMMA DirectJob ==
  ASSUME ReplyInv, NEW t \in Threads, HasJob(t), NEW job, job = thr[t].job, job.direct
  PROVE  LET k == conns[job.slot]
             c == job.client
         IN  /\ JobOK(job) /\ IsJob(job) /\ job.slot \in Slots /\ Live(job)
             /\ k # None /\ ~k.st /\ (job.eof => fin[c]) /\ c = k.client /\ c \in Clients
             /\ k.wbuf = <<>> /\ Written(k) = got[c] \o outq[c]
             /\ Progress(c, Written(k), job.cmds \o job.rbuf)
             /\ ConnOK(job.slot) /\ IsConn(k) /\ link[c] = "open" /\ elsewhere[c] = <<>>
             /\ Begins(c, Written(k)) /\ ClientShape(c) /\ Ends(script[c])
             /\ \A p \in Places : p # <<"thr", t>> /\ Work(p).slot = job.slot => ~Live(Work(p))
             /\ \A r \in Slots \ {job.slot} : conns[r] # None => conns[r].client # c
<1>. DEFINE s == job.slot
            k == conns[s]
<1>1. JobOK(job) /\ IsJob(job) /\ s \in Slots
  BY DEF ReplyInv, WorkOK, ThreadOK, JobOK, IsJob
<1>2. /\ Live(job) /\ k # None /\ ~k.st /\ (job.eof => fin[k.client]) /\ job.client = k.client
      /\ k.wbuf = <<>> /\ Progress(job.client, Written(k), job.cmds \o job.rbuf)
  BY <1>1 DEF JobOK, Lent
<1>3. /\ ConnOK(s) /\ IsConn(k) /\ link[k.client] = "open" /\ elsewhere[k.client] = <<>>
      /\ Begins(k.client, Written(k)) /\ ClientShape(k.client) /\ Ends(script[k.client]) /\ k.client \in Clients
  BY <1>1, <1>2, ConnIs
<1>4. Written(k) = got[k.client] \o outq[k.client]
  <2>1. got[k.client] \in Seq(Nat) /\ outq[k.client] \in Seq(Nat)
    BY <1>3 DEF ClientShape
  <2>2. got[k.client] \o outq[k.client] \in Seq(Nat)
    BY <2>1, ConcatProperties
  <2>3. Written(k) = (got[k.client] \o outq[k.client]) \o k.wbuf
    BY <1>1, <1>2, ConnIs
  <2>. QED  BY <1>2, <2>2, <2>3, ConcatEmptySeq
<1>5. \A p \in Places : p # <<"thr", t>> /\ Work(p).slot = s => ~Live(Work(p))
  <2>1. PICK q : q = <<"thr", t>>
    OBVIOUS
  <2>2. q \in Places /\ Work(q) = job
    BY <2>1, PlaceIs
  <2>. QED  BY <1>2, <2>1, <2>2, OnlyOne DEF ReplyInv
<1>6. \A r \in Slots \ {s} : conns[r] # None => conns[r].client # k.client
  BY <1>1, <1>2, NoOther
<1>. QED  BY <1>1, <1>2, <1>3, <1>4, <1>5, <1>6

\* A thread keeps or delivers the work of its slot.
LEMMA SameWork ==
  ASSUME NEW t \in Threads, HasJob(t), ThreadOK(t)', UNCHANGED <<jobs, done>>, NEW job, job = thr[t].job, NEW y,
         \/ HasJob(t)' /\ thr'[t].job = y
         \/ HasComp(t)' /\ thr'[t].comp = y,
         y.slot = job.slot, y.gen = job.gen
  PROVE  GoesOn(t)
<1>1. Work(<<"thr", t>>)' = y /\ Work(<<"thr", t>>) = job
  BY ThreadWork
<1>. QED  BY <1>1 DEF GoesOn

\* An owned connection's next batch.
LEMMA NextBatchStep ==
  ASSUME ReplyInv, NEW t \in Threads, Aside, NextBatch(t)
  PROVE  ReplyInv'
<1>1. /\ thr[t].at = "owned" /\ Buffered(t) # <<>> /\ UNCHANGED <<jobs, done, inq, outq>>
      /\ HasJob(t) /\ ThreadOK(t)
  BY DEF NextBatch, HasJob, ReplyInv, WorkOK
<1>2. PICK job : job = thr[t].job
  OBVIOUS
<1>3. job.direct /\ job.cmds = <<>>
  BY <1>1, <1>2 DEF ThreadOK
<1>4. PICK kinds : kinds = script[job.client]
  OBVIOUS
<1>5. /\ IsJob(job) /\ JobOK(job) /\ Live(job) /\ Progress(job.client, Written(conns[job.slot]), <<>> \o job.rbuf)
  BY <1>1, <1>2, <1>3, DirectJob
<1>6. job.rbuf \in Seq(Nat)
  BY <1>5 DEF IsJob
<1>7. PICK a \in Seq(Nat) : a = Parsed(kinds, job.rbuf)
  BY <1>6, ParsedUnparsed
<1>8. PICK b \in Seq(Nat) : b = Unparsed(kinds, job.rbuf)
  BY <1>6, ParsedUnparsed
<1>9. a \o b = job.rbuf /\ <<>> \o job.rbuf = job.rbuf
  BY <1>6, <1>7, <1>8, ParsedUnparsed, ConcatEmptySeq
<1>10. PICK y : y = [job EXCEPT !.cmds = a, !.rbuf = b]
  OBVIOUS
<1>11. PICK x : x = [at |-> "run", job |-> y]
  OBVIOUS
<1>12. Become(t, x) /\ a # <<>>
  BY <1>1, <1>2, <1>4, <1>7, <1>8, <1>10, <1>11 DEF NextBatch, Buffered
<1>13. thr'[t] = x
  BY <1>12 DEF ReplyInv, LoopShape, Become
<1>14. UNCHANGED <<script, sent, fin, got, inq, outq, conns, gens>>
  BY <1>1 DEF Aside
<1>15. /\ y.slot = job.slot /\ y.gen = job.gen /\ y.client = job.client /\ y.cmds = a /\ y.rbuf = b
       /\ y.direct = job.direct /\ y.eof = job.eof /\ IsJob(y)
  BY <1>5, <1>10 DEF IsJob
<1>16. JobOK(y)'
  <2>1. IsJob(y)' <=> IsJob(y)
    BY DEF IsJob, Slots
  <2>2. Live(y)' /\ y.gen <= gens'[y.slot]
    BY <1>5, <1>14, <1>15 DEF Live, JobOK
  <2>3. Lent(y)' /\ y.client = conns'[y.slot].client /\ (y.direct => conns'[y.slot].wbuf = <<>>)
    BY <1>5, <1>14, <1>15 DEF JobOK, Lent
  <2>4. Written(conns[y.slot])' = Written(conns[job.slot])
    BY <1>14, <1>15 DEF Written
  <2>5. Progress(y.client, Written(conns[y.slot]), y.cmds \o y.rbuf)'
    BY <1>5, <1>9, <1>14, <1>15, <2>4 DEF Progress
  <2>. QED  BY <1>15, <2>1, <2>2, <2>3, <2>5 DEF JobOK
<1>17. HasJob(t)' /\ ~HasComp(t)' /\ thr'[t].job = y /\ thr'[t].at = "run"
  BY <1>11, <1>13 DEF HasJob, HasComp
<1>18. ThreadOK(t)'
  BY <1>12, <1>15, <1>16, <1>17 DEF ThreadOK
<1>19. GoesOn(t)
  BY <1>1, <1>2, <1>15, <1>17, <1>18, SameWork
<1>. QED  BY <1>1, <1>12, <1>19, QuietStep

\* It gives an owned connection back.
LEMMA GiveBackStep ==
  ASSUME ReplyInv, NEW t \in Threads, Aside, GiveBack(t)
  PROVE  ReplyInv'
<1>1. /\ thr[t].at = "owned" /\ UNCHANGED <<jobs, done, inq, outq>>
      /\ HasJob(t) /\ ThreadOK(t)
  BY DEF GiveBack, HasJob, ReplyInv, WorkOK
<1>2. PICK job : job = thr[t].job
  OBVIOUS
<1>3. job.direct /\ job.cmds = <<>>
  BY <1>1, <1>2 DEF ThreadOK
<1>4. /\ IsJob(job) /\ JobOK(job) /\ Live(job) /\ job.client = conns[job.slot].client
      /\ Progress(job.client, Written(conns[job.slot]), <<>> \o job.rbuf)
      /\ Written(conns[job.slot]) = got[job.client] \o outq[job.client]
      /\ ClientShape(job.client)
  BY <1>1, <1>2, <1>3, DirectJob
<1>5. PICK y : y = [slot |-> job.slot, gen |-> job.gen, out |-> <<>>, end |-> "continue",
                    rbuf |-> job.rbuf, eof |-> job.eof]
  OBVIOUS
<1>6. PICK x : x = [at |-> "deliver", comp |-> y]
  OBVIOUS
<1>7. Become(t, x)
  BY <1>2, <1>5, <1>6 DEF GiveBack, Finished
<1>8. thr'[t] = x
  BY <1>7 DEF ReplyInv, LoopShape, Become
<1>9. UNCHANGED <<script, sent, fin, got, inq, outq, conns, gens>>
  BY <1>1 DEF Aside
<1>10. /\ y.slot = job.slot /\ y.gen = job.gen /\ y.out = <<>> /\ y.end = "continue" /\ y.rbuf = job.rbuf
       /\ y.eof = job.eof
  BY <1>5
<1>11. CompOK(y)'
  <2>1. <<>> \in Seq(Nat)
    OBVIOUS
  <2>2. IsComp(y)'
    BY <1>4, <1>10, <2>1 DEF IsJob, IsComp, Slots
  <2>3. Live(y)' /\ y.gen <= gens'[y.slot] /\ Lent(y)'
    BY <1>4, <1>9, <1>10 DEF Live, JobOK, Lent
  <2>4. Written(conns[y.slot])' = Written(conns[job.slot])
    BY <1>9, <1>10 DEF Written
  <2>5. PICK w : w = Written(conns[job.slot])
    OBVIOUS
  <2>6. w \o <<>> = w /\ <<>> \o job.rbuf = job.rbuf
    <3>1. got[job.client] \in Seq(Nat) /\ outq[job.client] \in Seq(Nat)
      BY <1>4 DEF ClientShape
    <3>2. w \in Seq(Nat) /\ job.rbuf \in Seq(Nat)
      BY <1>4, <2>5, <3>1, ConcatProperties DEF IsJob
    <3>. QED  BY <3>2, ConcatEmptySeq
  <2>7. Progress(job.client, w \o y.out, y.rbuf)'
    BY <1>4, <1>9, <1>10, <2>5, <2>6 DEF Progress
  <2>. QED  BY <1>4, <1>9, <1>10, <2>2, <2>3, <2>4, <2>5, <2>7 DEF CompOK, Progress
<1>12. ~HasJob(t)' /\ HasComp(t)' /\ thr'[t].comp = y
  BY <1>6, <1>8 DEF HasJob, HasComp
<1>13. ThreadOK(t)'
  BY <1>6, <1>8, <1>11, <1>12 DEF ThreadOK
<1>14. GoesOn(t)
  BY <1>1, <1>2, <1>10, <1>12, <1>13, SameWork
<1>. QED  BY <1>1, <1>7, <1>14, QuietStep

\* It reads more.
LEMMA ReadMoreStep ==
  ASSUME ReplyInv, NEW t \in Threads, Aside, ReadMore(t)
  PROVE  ReplyInv'
<1>1. /\ thr[t].at = "owned" /\ ~thr[t].job.eof /\ UNCHANGED <<jobs, done, outq>>
      /\ HasJob(t) /\ ThreadOK(t)
  BY DEF ReadMore, HasJob, ReplyInv, WorkOK
<1>2. PICK job : job = thr[t].job
  OBVIOUS
<1>3. job.direct /\ job.cmds = <<>>
  BY <1>1, <1>2 DEF ThreadOK
<1>4. PICK s : s = job.slot
  OBVIOUS
<1>5. PICK c : c = job.client
  OBVIOUS
<1>6. PICK k : k = conns[s]
  OBVIOUS
<1>7. /\ IsJob(job) /\ JobOK(job) /\ Live(job) /\ s \in Slots /\ k # None /\ ~k.st /\ c = k.client /\ c \in Clients
      /\ k.wbuf = <<>>
      /\ Progress(c, Written(k), job.cmds \o job.rbuf)
      /\ ConnOK(s) /\ IsConn(k) /\ link[c] = "open" /\ elsewhere[c] = <<>>
      /\ Begins(c, Written(k)) /\ ClientShape(c) /\ Ends(script[c])
      /\ \A p \in Places : p # <<"thr", t>> /\ Work(p).slot = s => ~Live(Work(p))
      /\ \A r \in Slots \ {s} : conns[r] # None => conns[r].client # c
  BY <1>1, <1>2, <1>3, <1>4, <1>5, <1>6, DirectJob
<1>8. job.rbuf \in Seq(Nat) /\ inq[c] \in Seq(Nat) /\ sent[c] \in Nat
  <2>1. Len(script[c]) \in Nat
    BY <1>7, WantedIs
  <2>. QED  BY <1>7, <2>1 DEF IsJob, ClientShape
<1>9. PICK q \in Seq(Nat) : q = inq[c]
  BY <1>8
<1>10. PICK end \in BOOLEAN : end = (q = <<>>)
  OBVIOUS
<1>11. PICK buf \in Seq(Nat) : buf = job.rbuf \o q
  BY <1>8, ConcatProperties
<1>12. PICK y : y = [job EXCEPT !.rbuf = buf, !.eof = end]
  OBVIOUS
<1>13. PICK x : x = [at |-> "owned", job |-> y]
  OBVIOUS
<1>14. /\ Become(t, x) /\ inq' = [inq EXCEPT ![c] = <<>>] /\ (q # <<>> \/ fin[c])
  BY <1>2, <1>5, <1>9, <1>10, <1>11, <1>12, <1>13 DEF ReadMore
<1>15. thr'[t] = x /\ inq'[c] = <<>>
       /\ (\A d \in Clients \ {c} : inq'[d] = inq[d] /\ outq'[d] = outq[d])
       /\ inq' = [d \in Clients |-> inq'[d]] /\ outq' = [d \in Clients |-> outq'[d]]
  BY <1>1, <1>7, <1>14 DEF ReplyInv, LoopShape, Become
<1>16. UNCHANGED <<script, sent, fin, got, outq, link, conns, gens, elsewhere>>
  BY <1>1 DEF Aside
<1>17. /\ y.slot = s /\ y.gen = job.gen /\ y.client = c /\ y.cmds = <<>> /\ y.rbuf = buf
       /\ y.direct = job.direct /\ y.eof = end /\ IsJob(y)
  BY <1>3, <1>4, <1>5, <1>7, <1>12 DEF IsJob
<1>18. Written(conns[s])' = Written(k)
  BY <1>6, <1>16 DEF Written
<1>19. Follows(script[c], sent[c], <<>>, Written(k), buf)
  <2>1. <<>> \o job.rbuf = job.rbuf /\ q \o <<>> = q /\ <<>> \in Seq(Nat)
    BY <1>8, ConcatEmptySeq
  <2>2. PICK w : w = Written(k)
    OBVIOUS
  <2>3. Follows(script[c], sent[c], q, w, job.rbuf)
    BY <1>3, <1>7, <1>9, <2>1, <2>2 DEF Progress
  <2>4. PICK e \in Seq(Nat) : e = <<>>
    BY <2>1
  <2>5. q = q \o e
    BY <2>1, <2>4
  <2>6. Follows(script[c], sent[c], e, w, job.rbuf \o q)
    BY <1>8, <2>3, <2>5, FollowsRead
  <2>. QED  BY <1>11, <2>2, <2>4, <2>6
<1>20. JobOK(y)'
  <2>1. IsJob(y)' <=> IsJob(y)
    BY DEF IsJob, Slots
  <2>2. Live(y)' /\ y.gen <= gens'[y.slot]
    BY <1>4, <1>7, <1>16, <1>17 DEF Live, JobOK
  <2>3. Lent(y)' /\ y.client = conns'[y.slot].client /\ (y.direct => conns'[y.slot].wbuf = <<>>)
    BY <1>6, <1>7, <1>10, <1>14, <1>16, <1>17 DEF Lent
  <2>4. <<>> \o buf = buf
    BY ConcatEmptySeq
  <2>5. Progress(y.client, Written(conns[y.slot]), y.cmds \o y.rbuf)'
    BY <1>15, <1>16, <1>17, <1>18, <1>19, <2>4 DEF Progress
  <2>. QED  BY <1>17, <2>1, <2>2, <2>3, <2>5 DEF JobOK
<1>21. HasJob(t)' /\ ~HasComp(t)' /\ thr'[t].job = y /\ thr'[t].at = "owned"
  BY <1>13, <1>15 DEF HasJob, HasComp
<1>22. ThreadOK(t)'
  BY <1>3, <1>17, <1>20, <1>21 DEF ThreadOK
<1>23. GoesOn(t)
  BY <1>1, <1>2, <1>4, <1>17, <1>21, <1>22, SameWork
<1>24. ConnOK(s)'
  <2>1. IsConn(conns[s])' <=> IsConn(k)
    BY <1>6, <1>16 DEF IsConn
  <2>2. ~k.closing /\ k.rbuf = <<>> /\ k.gen = gens[s]
    BY <1>6, <1>7 DEF ConnOK
  <2>. QED  BY <1>6, <1>7, <1>16, <1>18, <2>1, <2>2 DEF ConnOK, Begins
<1>25. ClientOK(c)'
  <2>1. conns'[s] # None /\ conns'[s].client = c /\ link'[c] = "open"
    BY <1>6, <1>7, <1>16
  <2>. QED  BY <1>7, <2>1, ServedClient
<1>26. ClientShape(c)'
  BY <1>7, <1>15, <1>16 DEF ClientShape
<1>27. Touches(t, s, c)
  BY <1>7, <1>15, <1>24, <1>25, <1>26 DEF Touches
<1>. QED  BY <1>14, <1>23, <1>27, ThreadStep

-----------------------------------------------------------------------------
\* What a thread that owns the socket does after a batch.
WritesSome(t, job, c, out, end, n) ==
  /\ n \in {0, Low(Len(out), SockOut - Len(outq[c]))}
  /\ outq' = [outq EXCEPT ![c] = outq[c] \o Take(out, n)]
  /\ IF n < Len(out) \/ end # "continue" THEN Finished(t, job, Drop(out, n), end)
     ELSE Become(t, [at |-> "owned", job |-> [job EXCEPT !.cmds = <<>>]])

\* A thread runs a batch and writes what fits into its socket.
LEMMA DirectRunStep ==
  ASSUME ReplyInv, NEW t \in Threads, Aside, UNCHANGED <<inq, jobs, done>>, thr[t].at = "run",
         NEW job, job = thr[t].job, job.direct, NEW c, c = job.client,
         NEW out, out = Output(script[c], job.cmds), NEW end, end = BatchEnd(script[c], job.cmds),
         NEW n, WritesSome(t, job, c, out, end, n)
  PROVE  ReplyInv'
<1>1. HasJob(t)
  BY DEF HasJob
<1>0. /\ n \in {0, Low(Len(out), SockOut - Len(outq[c]))}
      /\ outq' = [outq EXCEPT ![c] = outq[c] \o Take(out, n)]
      /\ n < Len(out) \/ end # "continue" => Finished(t, job, Drop(out, n), end)
      /\ ~(n < Len(out) \/ end # "continue") =>
           Become(t, [at |-> "owned", job |-> [job EXCEPT !.cmds = <<>>]])
  BY DEF WritesSome
<1>2. PICK s : s = job.slot
  OBVIOUS
<1>3. PICK k : k = conns[s]
  OBVIOUS
<1>4. /\ IsJob(job) /\ JobOK(job) /\ Live(job) /\ s \in Slots /\ k # None /\ ~k.st /\ c = k.client /\ c \in Clients
      /\ k.wbuf = <<>> /\ Written(k) = got[c] \o outq[c] /\ (job.eof => fin[c])
      /\ Progress(c, Written(k), job.cmds \o job.rbuf)
      /\ ConnOK(s) /\ IsConn(k) /\ link[c] = "open" /\ elsewhere[c] = <<>>
      /\ ClientShape(c) /\ Ends(script[c])
      /\ \A p \in Places : p # <<"thr", t>> /\ Work(p).slot = s => ~Live(Work(p))
      /\ \A r \in Slots \ {s} : conns[r] # None => conns[r].client # c
  BY <1>1, <1>2, <1>3, DirectJob
<1>5. PICK kinds : kinds = script[c]
  OBVIOUS
<1>6. PICK cmds \in Seq(Nat) : cmds = job.cmds
  BY <1>4 DEF IsJob
<1>7. PICK rest \in Seq(Nat) : rest = job.rbuf
  BY <1>4 DEF IsJob
<1>8. PICK g \in Seq(Nat) : g = got[c]
  BY <1>4 DEF ClientShape
<1>9. PICK o \in Seq(Nat) : o = outq[c]
  BY <1>4 DEF ClientShape
<1>10. PICK q \in Seq(Nat) : q = inq[c]
  BY <1>4 DEF ClientShape
<1>11. PICK l \in 0..Len(kinds) : l = sent[c]
  BY <1>4, <1>5 DEF ClientShape
<1>12. PICK w \in Seq(Nat) : w = Written(k) /\ w = g \o o
  BY <1>4, <1>8, <1>9, ConcatProperties
<1>13. /\ out \in Seq(Nat) /\ end \in {"continue", "quit", "sub"}
       /\ end = "continue" => Follows(kinds, l, q, w \o out, rest)
       /\ end # "continue" => Stops(kinds, end, w \o out)
  <2>1. Follows(kinds, l, q, w, cmds \o rest)
    BY <1>4, <1>5, <1>6, <1>7, <1>10, <1>11, <1>12 DEF Progress
  <2>2. Ends(kinds) /\ out = Output(kinds, cmds) /\ end = BatchEnd(kinds, cmds)
    BY <1>4, <1>5, <1>6
  <2>3. cmds \in Seq(Nat) /\ rest \in Seq(Nat) /\ q \in Seq(Nat) /\ l \in 0..Len(kinds)
    OBVIOUS
  <2>. QED  BY ONLY <2>1, <2>2, <2>3, FollowsRun
<1>14. Starts(kinds, w \o out)
  <2>1. Ends(kinds)
    BY <1>4, <1>5
  <2>2. PICK v : v = w \o out
    OBVIOUS
  <2>3. CASE end = "continue"
    <3>1. Follows(kinds, l, q, v, rest)
      BY <1>13, <2>2, <2>3
    <3>. QED  BY <2>1, <2>2, <3>1, FollowsStarts
  <2>4. CASE end # "continue"
    <3>1. Stops(kinds, end, v) /\ end \in {"quit", "sub"}
      BY <1>13, <2>2, <2>4
    <3>. QED  BY <2>1, <2>2, <3>1, StopsStarts
  <2>. QED  BY <2>3, <2>4
<1>15. Len(o) \in Nat /\ Len(o) <= SockOut /\ SockOut \in Nat /\ Len(out) \in Nat
  BY <1>4, <1>9, <1>13, LenProperties, LimitsAreNumbers DEF ClientShape
<1>16. n \in Nat /\ n <= Len(out) /\ Len(o) + n <= SockOut
  <2>1. Len(outq[c]) = Len(o)
    BY <1>9
  <2>2. PICK m \in Nat : m = Len(o)
    BY <1>15
  <2>3. PICK p \in Nat : p = Len(out)
    BY <1>15
  <2>4. n = 0 \/ n = Low(p, SockOut - m)
    BY <1>0, <2>1, <2>2, <2>3
  <2>5. m <= SockOut /\ SockOut \in Nat
    BY <1>15, <2>2
  <2>. QED  BY ONLY <2>2, <2>3, <2>4, <2>5, m \in Nat, p \in Nat DEF Low
<1>17. PICK a \in Seq(Nat) : a = Take(out, n)
  BY <1>13, <1>16, TakeDrop
<1>18. PICK b \in Seq(Nat) : b = Drop(out, n)
  BY <1>13, <1>16, TakeDrop
<1>19. out = a \o b /\ Len(a) = n /\ (n >= Len(out) => a = out)
  BY <1>13, <1>16, <1>17, <1>18, TakeDrop
<1>20. outq' = [outq EXCEPT ![c] = o \o a]
  BY <1>0, <1>9, <1>17
<1>21. /\ UNCHANGED <<script, sent, fin, got, inq, link, conns, gens, elsewhere>>
       /\ outq'[c] = o \o a
       /\ (\A d \in Clients \ {c} : inq'[d] = inq[d] /\ outq'[d] = outq[d])
       /\ inq' = [d \in Clients |-> inq'[d]] /\ outq' = [d \in Clients |-> outq'[d]]
  BY <1>4, <1>20 DEF ReplyInv, LoopShape, Aside
<1>22. o \o a \in Seq(Nat) /\ Len(o \o a) <= SockOut
  <2>1. o \o a \in Seq(Nat) /\ Len(o \o a) = Len(o) + Len(a)
    BY ConcatProperties
  <2>. QED  BY <1>16, <1>19, <2>1
<1>23. ClientShape(c)'
  BY <1>4, <1>21, <1>22 DEF ClientShape
<1>24. w \o a \in Seq(Nat) /\ (w \o a) \o b = w \o out
  <2>1. (w \o a) \o b = w \o (a \o b)
    <3>1. Three(w, a, b)
      BY DEF Three
    <3>2. Grouped(w, a, b)
      BY <3>1, RegroupThree, Zenon
    <3>. QED  BY <3>2, Zenon DEF Grouped
  <2>. QED  BY <1>19, <2>1, ConcatProperties
<1>25. Written(conns[s])' = w \o a
  <2>1. g \o (o \o a) = w \o a
    <3>1. (g \o o) \o a = g \o (o \o a)
      <4>1. Three(g, o, a)
        BY DEF Three
      <4>2. Grouped(g, o, a)
        BY <4>1, RegroupThree, Zenon
      <4>. QED  BY <4>2, Zenon DEF Grouped
    <3>. QED  BY <1>12, <3>1
  <2>2. (w \o a) \o <<>> = w \o a
    BY <1>24, ConcatEmptySeq
  <2>3. Written(conns[s])' = (g \o (o \o a)) \o <<>>
    BY <1>3, <1>4, <1>8, <1>21 DEF Written
  <2>. QED  BY <2>1, <2>2, <2>3
<1>26. Starts(kinds, w \o a)
  BY <1>14, <1>24, StartsPart
<1>27. ConnOK(s)'
  <2>1. IsConn(conns[s])' <=> IsConn(k)
    BY <1>3, <1>21 DEF IsConn
  <2>2. ~k.closing /\ k.rbuf = <<>> /\ k.gen = gens[s]
    BY <1>3, <1>4 DEF ConnOK
  <2>. QED  BY <1>3, <1>4, <1>5, <1>21, <1>25, <1>26, <2>1, <2>2 DEF ConnOK, Begins
<1>28. ClientOK(c)'
  <2>1. conns'[s] # None /\ conns'[s].client = c /\ link'[c] = "open"
    BY <1>3, <1>4, <1>21
  <2>. QED  BY <1>4, <2>1, ServedClient
<1>29. Touches(t, s, c)
  BY <1>4, <1>21, <1>23, <1>27, <1>28 DEF Touches
<1>30. CASE n < Len(out) \/ end # "continue"
  <2>1. PICK y : y = [slot |-> s, gen |-> job.gen, out |-> b, end |-> end, rbuf |-> rest, eof |-> job.eof]
    OBVIOUS
  <2>2. PICK x : x = [at |-> "deliver", comp |-> y]
    OBVIOUS
  <2>3. Become(t, x)
    BY <1>2, <1>7, <1>18, <1>30, <1>0, <2>1, <2>2 DEF Finished
  <2>4. thr'[t] = x
    BY <2>3 DEF ReplyInv, LoopShape, Become
  <2>5. y.slot = s /\ y.gen = job.gen /\ y.out = b /\ y.end = end /\ y.rbuf = rest /\ y.eof = job.eof
    BY <2>1
  <2>6. CompOK(y)'
    <3>1. IsComp(y)'
      BY <1>4, <1>13, <2>5 DEF IsJob, IsComp, Slots
    <3>2. Live(y)' /\ y.gen <= gens'[y.slot] /\ Lent(y)'
      BY <1>2, <1>3, <1>4, <1>21, <2>5 DEF Live, JobOK, Lent
    <3>3. Written(conns[y.slot])' \o y.out = w \o out
      BY <1>24, <1>25, <2>5
    <3>4. \/ y.end = "continue" /\ Progress(c, w \o out, y.rbuf)'
          \/ y.end # "continue" /\ AllDone(c, w \o out, y.end)'
      BY <1>5, <1>10, <1>11, <1>13, <1>21, <2>5 DEF Progress, AllDone
    <3>5. conns'[y.slot].client = c
      BY <1>3, <1>4, <1>21, <2>5
    <3>. QED  BY <3>1, <3>2, <3>3, <3>4, <3>5 DEF CompOK, Progress, AllDone
  <2>7. ~HasJob(t)' /\ HasComp(t)' /\ thr'[t].comp = y
    BY <2>2, <2>4 DEF HasJob, HasComp
  <2>8. ThreadOK(t)'
    BY <2>2, <2>4, <2>6, <2>7 DEF ThreadOK
  <2>9. GoesOn(t)
    BY <1>1, <1>2, <2>5, <2>7, <2>8, SameWork
  <2>. QED  BY <1>29, <2>3, <2>9, ThreadStep
<1>31. CASE ~(n < Len(out) \/ end # "continue")
  <2>1. PICK y : y = [job EXCEPT !.cmds = <<>>]
    OBVIOUS
  <2>2. PICK x : x = [at |-> "owned", job |-> y]
    OBVIOUS
  <2>3. Become(t, x)
    BY <1>0, <1>31, <2>1, <2>2
  <2>4. thr'[t] = x
    BY <2>3 DEF ReplyInv, LoopShape, Become
  <2>5. /\ y.slot = s /\ y.gen = job.gen /\ y.client = c /\ y.cmds = <<>> /\ y.rbuf = rest
        /\ y.direct = job.direct /\ y.eof = job.eof /\ IsJob(y)
    <3>1. <<>> \in Seq(Nat)
      OBVIOUS
    <3>. QED  BY <1>2, <1>4, <1>7, <2>1, <3>1 DEF IsJob
  <2>6. a = out /\ end = "continue"
    BY <1>15, <1>16, <1>19, <1>31
  <2>7. JobOK(y)'
    <3>1. IsJob(y)' <=> IsJob(y)
      BY DEF IsJob, Slots
    <3>2. Live(y)' /\ y.gen <= gens'[y.slot]
      BY <1>2, <1>4, <1>21, <2>5 DEF Live, JobOK
    <3>3. Lent(y)' /\ y.client = conns'[y.slot].client /\ (y.direct => conns'[y.slot].wbuf = <<>>)
      BY <1>3, <1>4, <1>21, <2>5 DEF Lent
    <3>4. <<>> \o rest = rest
      BY ConcatEmptySeq
    <3>5. Follows(kinds, l, q, w \o a, rest)
      BY <1>13, <2>6
    <3>6. Progress(y.client, Written(conns[y.slot]), y.cmds \o y.rbuf)'
      BY <1>5, <1>10, <1>11, <1>21, <1>25, <2>5, <3>4, <3>5 DEF Progress
    <3>. QED  BY <2>5, <3>1, <3>2, <3>3, <3>6 DEF JobOK
  <2>8. HasJob(t)' /\ ~HasComp(t)' /\ thr'[t].job = y /\ thr'[t].at = "owned"
    BY <2>2, <2>4 DEF HasJob, HasComp
  <2>9. ThreadOK(t)'
    BY <1>4, <2>5, <2>7, <2>8 DEF ThreadOK
  <2>10. GoesOn(t)
    BY <1>1, <1>2, <2>5, <2>8, <2>9, SameWork
  <2>. QED  BY <1>29, <2>3, <2>10, ThreadStep
<1>. QED  BY <1>30, <1>31

\* run_owned.
LEMMA RunBatchStep ==
  ASSUME ReplyInv, NEW t \in Threads, Aside, RunBatch(t)
  PROVE  ReplyInv'
<1>1. thr[t].at = "run" /\ UNCHANGED <<jobs, inq, done>>
  BY DEF RunBatch
<1>2. PICK job : job = thr[t].job
  OBVIOUS
<1>3. PICK c : c = job.client
  OBVIOUS
<1>4. PICK out : out = Output(script[c], job.cmds)
  OBVIOUS
<1>5. PICK end : end = BatchEnd(script[c], job.cmds)
  OBVIOUS
<1>6. CASE ~job.direct
  <2>1. Finished(t, job, out, end) /\ UNCHANGED outq
    BY <1>2, <1>3, <1>4, <1>5, <1>6 DEF RunBatch
  <2>. QED  BY <1>1, <1>2, <1>3, <1>4, <1>5, <2>1, RunStep
<1>7. CASE job.direct
  <2>1. PICK n : WritesSome(t, job, c, out, end, n)
    BY <1>2, <1>3, <1>4, <1>5, <1>7 DEF RunBatch, WritesSome
  <2>. QED  BY <1>1, <1>2, <1>3, <1>4, <1>5, <1>7, <2>1, DirectRunStep
<1>. QED  BY <1>6, <1>7

-----------------------------------------------------------------------------
\* Work that is right stays right while nothing happens to connections.
LEMMA WorkStays ==
  ASSUME UNCHANGED <<script, sent, fin, got, inq, outq, conns, gens>>
  PROVE  (\A x : JobOK(x) => JobOK(x)') /\ (\A x : CompOK(x) => CompOK(x)')
BY DEF JobOK, CompOK, IsJob, IsComp, Live, Lent, Progress, AllDone, Written, Slots

\* Work changes hands between the queue, a thread and the list of completions.
LEMMA WorkMoves ==
  ASSUME ReplyInv, NEW t \in Threads, Aside, UNCHANGED <<inq, outq>>, NEW x, Become(t, x),
         IsSeq(jobs'), IsSeq(done'),
         \A i \in DOMAIN jobs' : \E j \in DOMAIN jobs : jobs'[i] = jobs[j],
         \A i \in DOMAIN done' : CompOK(done'[i]), ThreadOK(t)', LentOnce'
  PROVE  ReplyInv'
<1>1. UNCHANGED <<script, sent, fin, got, inq, outq, link, conns, gens, ready, calls, elsewhere>>
  BY DEF Aside
<1>2. LoopShape /\ WorkOK
  BY DEF ReplyInv
<1>3. thr' = [u \in Threads |-> thr'[u]] /\ \A u \in Threads \ {t} : thr'[u] = thr[u]
  BY <1>2 DEF LoopShape, Become
<1>4. LoopShape'
  <2>1. Calls(calls)' <=> Calls(calls)
    BY <1>1 DEF Calls, Slots
  <2>2. \A d \in Clients : ClientShape(d)'
    BY <1>1, <1>2 DEF LoopShape, ClientShape
  <2>. QED  BY <1>1, <1>2, <1>3, <2>1, <2>2 DEF LoopShape, IsSeq, Slots
<1>5. (\A y : JobOK(y) => JobOK(y)') /\ (\A y : CompOK(y) => CompOK(y)')
  BY <1>1, WorkStays
<1>6. ASSUME NEW i \in DOMAIN jobs' PROVE JobOK(jobs[i])' /\ jobs'[i].cmds # <<>>
  <2>1. PICK j \in DOMAIN jobs : jobs'[i] = jobs[j]
    OBVIOUS
  <2>2. PICK y : y = jobs[j]
    OBVIOUS
  <2>3. JobOK(y) /\ y.cmds # <<>>
    BY <1>2, <2>2 DEF WorkOK
  <2>4. JobOK(y)'
    BY <1>5, <2>3
  <2>. QED  BY <2>1, <2>2, <2>3, <2>4
<1>7. ASSUME NEW i \in DOMAIN done' PROVE CompOK(done[i])'
  <2>1. PICK y : y = done'[i]
    OBVIOUS
  <2>2. CompOK(y)
    BY <2>1
  <2>3. CompOK(y)'
    BY <1>5, <2>2
  <2>. QED  BY <2>1, <2>3
<1>8. ASSUME NEW i \in DOMAIN calls', IsCompletion(i)' PROVE CompOK(calls[i][2])'
  <2>1. PICK y : y = calls[i][2]
    OBVIOUS
  <2>2. CompOK(y)
    BY <1>1, <1>2, <1>8, <2>1 DEF WorkOK, IsCompletion
  <2>3. CompOK(y)'
    BY <1>5, <2>2
  <2>. QED  BY <1>1, <2>1, <2>3
<1>9. ASSUME NEW u \in Threads \ {t} PROVE ThreadOK(u)'
  <2>1. PICK r : r = thr[u]
    OBVIOUS
  <2>2. thr'[u] = r /\ ThreadOK(u)
    BY <1>2, <1>3, <2>1 DEF WorkOK
  <2>3. PICK y : y = r.job
    OBVIOUS
  <2>4. PICK z : z = r.comp
    OBVIOUS
  <2>5. (JobOK(y) => JobOK(y)') /\ (CompOK(z) => CompOK(z)')
    BY <1>5
  <2>. QED  BY <2>1, <2>2, <2>3, <2>4, <2>5 DEF ThreadOK, HasJob, HasComp
<1>10. WorkOK'
  BY <1>6, <1>7, <1>8, <1>9 DEF WorkOK
<1>11. ASSUME NEW r \in Slots PROVE ConnOK(r)'
  BY <1>1 DEF ReplyInv, ConnOK, IsConn, Begins, Progress, AllDone, Written
<1>12. ASSUME NEW d \in Clients PROVE ClientOK(d)'
  <2>1. ClientOK(d) /\ (HasSlot(d) <=> HasSlot(d)')
    BY <1>1 DEF ReplyInv, HasSlot, Slots
  <2>. QED  BY <1>1, <2>1 DEF ClientOK, Begins
<1>13. OneSlotEach' /\ Slots' = Slots
  BY <1>1 DEF ReplyInv, OneSlotEach, Slots
<1>. QED  BY <1>4, <1>10, <1>11, <1>12, <1>13 DEF ReplyInv

\* A thread without work takes the first job of the queue.
LEMMA TakeStep ==
  ASSUME ReplyInv, NEW t \in Threads, Free(t), Aside, UNCHANGED <<inq, outq, done>>,
         jobs # <<>>, Become(t, [at |-> "run", job |-> Head(jobs)]), jobs' = Tail(jobs)
  PROVE  ReplyInv'
<1>1. LoopShape /\ WorkOK /\ LentOnce /\ IsSeq(jobs) /\ calls' = calls
  BY DEF ReplyInv, LoopShape, Aside
<1>2. PICK job : job = Head(jobs)
  OBVIOUS
<1>3. thr'[t] = [at |-> "run", job |-> job] /\ \A u \in Threads \ {t} : thr'[u] = thr[u]
  BY <1>1, <1>2 DEF LoopShape, Become
<1>4. /\ IsSeq(jobs') /\ 1 \in DOMAIN jobs /\ jobs[1] = job
      /\ DOMAIN jobs' \subseteq Nat
      /\ \A i \in DOMAIN jobs' : i + 1 \in DOMAIN jobs \ {1} /\ jobs'[i] = jobs[i + 1]
  <2>. DEFINE S == {jobs[i] : i \in DOMAIN jobs}
  <2>1. jobs \in Seq(S)
    BY <1>1 DEF IsSeq
  <2>. HIDE DEF S
  <2>2. /\ Len(jobs) \in Nat /\ Len(jobs) # 0 /\ DOMAIN jobs = 1..Len(jobs)
        /\ jobs' \in Seq(S) /\ Len(jobs') = Len(jobs) - 1 /\ Head(jobs) = jobs[1]
        /\ \A i \in 1..Len(jobs') : jobs'[i] = jobs[i + 1]
    BY <2>1, HeadTailProperties, LenProperties, EmptySeq
  <2>3. DOMAIN jobs' = 1..Len(jobs')
    BY <2>2, LenProperties
  <2>4. \A i \in 1..Len(jobs') : i + 1 \in 1..Len(jobs) /\ i + 1 # 1
    BY <2>2
  <2>5. IsSeq(jobs')
    BY <1>1, QueueOps
  <2>6. 1 \in DOMAIN jobs /\ jobs[1] = job
    BY <1>2, <2>2
  <2>7. Len(jobs') \in Nat
    BY <2>2
  <2>. QED  BY <2>2, <2>3, <2>4, <2>5, <2>6, <2>7
<1>5. ThreadOK(t)'
  <2>1. JobOK(job) /\ job.cmds # <<>>
    BY <1>1, <1>4 DEF WorkOK
  <2>2. JobOK(job)'
    BY <2>1, WorkStays DEF Aside
  <2>3. HasJob(t)' /\ ~HasComp(t)' /\ thr'[t].job = job /\ thr'[t].at = "run"
    BY <1>3 DEF HasJob, HasComp
  <2>. QED  BY <2>1, <2>2, <2>3 DEF ThreadOK
<1>6. LentOnce'
  <2>. DEFINE f == [p \in Places' |-> IF p[1] = "jobs" THEN <<"jobs", p[2] + 1>>
                                      ELSE IF p = <<"thr", t>> THEN <<"jobs", 1>> ELSE p]
  <2>1. ASSUME NEW p \in Places'
        PROVE  /\ p = <<p[1], p[2]>>
               /\ p[1] = "jobs" => /\ p[2] \in Nat /\ p[2] + 1 \in DOMAIN jobs \ {1}
                                   /\ Work(p)' = jobs[p[2] + 1]
               /\ p = <<"thr", t>> => p[1] # "jobs" /\ Work(p)' = jobs[1]
               /\ p[1] # "jobs" /\ p # <<"thr", t>> => p \in Places /\ Work(p)' = Work(p)
    <3>1. CASE \E i \in DOMAIN jobs' : p = <<"jobs", i>>
      BY <1>4, <3>1 DEF Work
    <3>2. CASE \E i \in DOMAIN done : p = <<"done", i>>
      BY <3>2 DEF Places, Work
    <3>3. CASE \E i \in DOMAIN calls : IsCompletion(i) /\ p = <<"calls", i>>
      BY <1>1, <3>3 DEF Places, Work
    <3>4. CASE \E u \in Threads : (HasJob(u)' \/ HasComp(u)') /\ p = <<"thr", u>>
      <4>1. PICK u \in Threads : (HasJob(u)' \/ HasComp(u)') /\ p = <<"thr", u>>
        BY <3>4
      <4>2. CASE u = t
        BY <1>3, <1>4, <4>1, <4>2 DEF Work, HasComp
      <4>3. CASE u # t
        <5>1. (HasJob(u)' <=> HasJob(u)) /\ (HasComp(u)' <=> HasComp(u)) /\ thr'[u] = thr[u]
          BY <1>3, <4>3 DEF HasJob, HasComp
        <5>. QED  BY <4>1, <4>3, <5>1 DEF Places, Work
      <4>. QED  BY <4>2, <4>3
    <3>5. \A i : IsCompletion(i)' <=> IsCompletion(i)
      BY <1>1 DEF IsCompletion
    <3>. QED  BY <1>1, <3>1, <3>2, <3>3, <3>4, <3>5 DEF Places
  <2>2. ASSUME NEW p \in Places' PROVE f[p] \in Places /\ Work(p)' = Work(f[p])
    <3>1. CASE p[1] = "jobs"
      BY <2>1, <3>1, PlaceIs
    <3>2. CASE p = <<"thr", t>>
      BY <1>4, <2>1, <3>2, PlaceIs
    <3>3. CASE p[1] # "jobs" /\ p # <<"thr", t>>
      BY <2>1, <3>3
    <3>. QED  BY <3>1, <3>2, <3>3
  <2>3. ASSUME NEW p \in Places', NEW q \in Places', p # q PROVE f[p] # f[q]
    <3>1. ASSUME NEW a \in Places', a[1] = "jobs", NEW b \in Places', b[1] # "jobs" PROVE f[a] # f[b]
      <4>1. f[a] = <<"jobs", a[2] + 1>> /\ a[2] + 1 # 1
        BY <2>1, <3>1
      <4>2. f[b] = <<"jobs", 1>> \/ (f[b] = b /\ b[1] # "jobs")
        BY <3>1
      <4>. QED  BY <4>1, <4>2
    <3>2. CASE p[1] = "jobs" /\ q[1] = "jobs"
      <4>1. p[2] # q[2] /\ p[2] \in Nat /\ q[2] \in Nat
        BY <2>1, <2>3, <3>2
      <4>2. f[p] = <<"jobs", p[2] + 1>> /\ f[q] = <<"jobs", q[2] + 1>> /\ p[2] + 1 # q[2] + 1
        BY <3>2, <4>1
      <4>. QED  BY <4>2
    <3>3. CASE p[1] # "jobs" /\ q[1] # "jobs"
      <4>1. ASSUME NEW a \in Places', a[1] # "jobs", a # <<"thr", t>> PROVE f[a] = a
        BY <4>1
      <4>2. ASSUME NEW a \in Places', a = <<"thr", t>> PROVE f[a] = <<"jobs", 1>>
        BY <2>1, <4>2
      <4>3. p # <<"thr", t>> \/ q # <<"thr", t>>
        BY <2>3
      <4>. QED  BY <2>3, <3>3, <4>1, <4>2, <4>3
    <3>. QED  BY <3>1, <3>2, <3>3
  <2>. HIDE DEF f
  <2>4. PICK x : x = <<"none", 0>>
    OBVIOUS
  <2>5. x \notin Places'
    <3>1. \A p \in Places' : p[1] \in {"jobs", "thr", "done", "calls"}
      BY DEF Places
    <3>. QED  BY <2>4, <3>1
  <2>6. Carries(f, x)
    BY <2>2, <2>3, <2>5 DEF Carries
  <2>. QED  BY <1>1, <2>6, LentMap
<1>7. \A i \in DOMAIN jobs' : \E j \in DOMAIN jobs : jobs'[i] = jobs[j]
  BY <1>4
<1>8. IsSeq(done') /\ \A i \in DOMAIN done' : CompOK(done'[i])
  BY <1>1 DEF LoopShape, WorkOK
<1>9. PICK x : x = [at |-> "run", job |-> Head(jobs)]
  OBVIOUS
<1>10. Become(t, x) /\ UNCHANGED <<inq, outq>>
  BY <1>9
<1>. QED  BY ONLY ReplyInv, t \in Threads, Aside, <1>4, <1>5, <1>6, <1>7, <1>8, <1>10, WorkMoves

-----------------------------------------------------------------------------
\* A thread delivers what it has done.
LEMMA DeliverStep ==
  ASSUME ReplyInv, NEW t \in Threads, Aside, UNCHANGED <<inq, outq, jobs>>,
         thr[t].at = "deliver", done' = Append(done, thr[t].comp), Become(t, [at |-> "free"])
  PROVE  ReplyInv'
<1>1. LoopShape /\ WorkOK /\ LentOnce /\ IsSeq(done) /\ calls' = calls /\ HasComp(t)
  BY DEF ReplyInv, LoopShape, Aside, HasComp
<1>2. PICK comp : comp = thr[t].comp
  OBVIOUS
<1>3. thr'[t] = [at |-> "free"] /\ \A u \in Threads \ {t} : thr'[u] = thr[u]
  BY <1>1 DEF LoopShape, Become
<1>4. PICK m \in Nat : m = Len(done) + 1
  BY <1>1, QueueOps
<1>5. /\ IsSeq(done') /\ DOMAIN done' = DOMAIN done \cup {m} /\ m \notin DOMAIN done
      /\ done'[m] = comp /\ \A i \in DOMAIN done : done'[i] = done[i]
  <2>. DEFINE S == {done[i] : i \in DOMAIN done}
  <2>1. done \in Seq(S)
    BY <1>1 DEF IsSeq
  <2>. HIDE DEF S
  <2>2. done \in Seq(S \cup {comp}) /\ Len(done) \in Nat /\ DOMAIN done = 1..Len(done)
    BY <2>1, SeqMonotonic, LenProperties
  <2>3. done' = Append(done, comp)
    BY <1>2
  <2>4. /\ done' \in Seq(S \cup {comp}) /\ Len(done') = Len(done) + 1
        /\ \A i \in 1..Len(done) : done'[i] = done[i]
        /\ done'[Len(done) + 1] = comp
    BY <2>2, <2>3, AppendProperties
  <2>5. DOMAIN done' = 1..Len(done) + 1
    BY <2>4, LenProperties
  <2>6. IsSeq(done')
    BY <1>1, <2>3, QueueOps
  <2>7. 1..Len(done) + 1 = 1..Len(done) \cup {m} /\ m \notin 1..Len(done)
    BY <1>4, <2>2
  <2>. QED  BY <1>4, <2>2, <2>4, <2>5, <2>6, <2>7
<1>6. CompOK(comp)
  BY <1>1, <1>2 DEF WorkOK, ThreadOK
<1>7. \A i \in DOMAIN done' : CompOK(done'[i])
  BY <1>1, <1>5, <1>6 DEF WorkOK
<1>8. ThreadOK(t)' /\ ~HasJob(t)' /\ ~HasComp(t)'
  BY <1>3 DEF ThreadOK, HasJob, HasComp
<1>9. LentOnce'
  <2>. DEFINE f == [p \in Places' |-> IF p = <<"done", m>> THEN <<"thr", t>> ELSE p]
  <2>1. ASSUME NEW p \in Places'
        PROVE  /\ p # <<"thr", t>>
               /\ p = <<"done", m>> => Work(p)' = comp
               /\ p # <<"done", m>> => p \in Places /\ Work(p)' = Work(p)
    <3>1. CASE \E i \in DOMAIN done' : p = <<"done", i>>
      BY <1>5, <3>1 DEF Places, Work
    <3>2. CASE \E i \in DOMAIN jobs : p = <<"jobs", i>>
      BY <3>2 DEF Places, Work
    <3>3. CASE \E i \in DOMAIN calls : IsCompletion(i) /\ p = <<"calls", i>>
      BY <1>1, <3>3 DEF Places, Work
    <3>4. CASE \E u \in Threads : (HasJob(u)' \/ HasComp(u)') /\ p = <<"thr", u>>
      <4>1. PICK u \in Threads : (HasJob(u)' \/ HasComp(u)') /\ p = <<"thr", u>>
        BY <3>4
      <4>2. u # t
        BY <1>8, <4>1
      <4>3. (HasJob(u)' <=> HasJob(u)) /\ (HasComp(u)' <=> HasComp(u)) /\ thr'[u] = thr[u]
        BY <1>3, <4>2 DEF HasJob, HasComp
      <4>. QED  BY <4>1, <4>2, <4>3 DEF Places, Work
    <3>5. \A i : IsCompletion(i)' <=> IsCompletion(i)
      BY <1>1 DEF IsCompletion
    <3>. QED  BY <1>1, <3>1, <3>2, <3>3, <3>4, <3>5 DEF Places
  <2>2. ASSUME NEW p \in Places' PROVE f[p] \in Places /\ Work(p)' = Work(f[p])
    <3>1. CASE p = <<"done", m>>
      BY <1>1, <1>2, <2>1, <3>1, PlaceIs
    <3>2. CASE p # <<"done", m>>
      BY <2>1, <3>2
    <3>. QED  BY <3>1, <3>2
  <2>3. ASSUME NEW p \in Places', NEW q \in Places', p # q PROVE f[p] # f[q]
    BY <2>1, <2>3
  <2>. HIDE DEF f
  <2>4. PICK x : x = <<"none", 0>>
    OBVIOUS
  <2>5. x \notin Places'
    <3>1. \A p \in Places' : p[1] \in {"jobs", "thr", "done", "calls"}
      BY DEF Places
    <3>. QED  BY <2>4, <3>1
  <2>6. Carries(f, x)
    BY <2>2, <2>3, <2>5 DEF Carries
  <2>. QED  BY <1>1, <2>6, LentMap
<1>10. IsSeq(jobs') /\ \A i \in DOMAIN jobs' : \E j \in DOMAIN jobs : jobs'[i] = jobs[j]
  BY <1>1 DEF LoopShape
<1>11. PICK x : x = [at |-> "free"]
  OBVIOUS
<1>12. Become(t, x) /\ UNCHANGED <<inq, outq>>
  BY <1>11
<1>. QED  BY ONLY ReplyInv, t \in Threads, Aside, <1>5, <1>7, <1>8, <1>9, <1>10, <1>12, WorkMoves

\* work(): the next job, or the wait for one.
LEMMA TakeJobMoves ==
  ASSUME ReplyInv, NEW t \in Threads, Free(t), Aside, UNCHANGED <<inq, outq, done>>, TakeJob(t)
  PROVE  ReplyInv'
<1>1. CASE jobs # <<>> /\ Become(t, [at |-> "run", job |-> Head(jobs)]) /\ jobs' = Tail(jobs)
  BY <1>1, TakeStep
<1>2. CASE Become(t, [at |-> "wait"]) /\ UNCHANGED jobs
  <2>1. PICK x : x = [at |-> "wait"]
    OBVIOUS
  <2>2. x.at \notin {"run", "owned", "deliver"} /\ Become(t, x) /\ UNCHANGED <<inq, outq, jobs, done>>
    BY <1>2, <2>1
  <2>. QED  BY <2>2, RestStep
<1>. QED  BY <1>1, <1>2 DEF TakeJob

\* All of the pool's steps.
LEMMA PoolKeeps == ASSUME ReplyInv, NEW t \in Threads, PoolThread(t) \/ Retire(t) PROVE ReplyInv'
<1>1. CASE PoolThread(t)
  <2>1. Aside
    BY <1>1 DEF PoolThread, client, Aside
  <2>2. CASE NextJob(t)
    <3>1. Free(t) /\ UNCHANGED <<inq, outq, done>> /\ TakeJob(t)
      BY <2>2 DEF NextJob, Free
    <3>. QED  BY <2>1, <3>1, TakeJobMoves
  <2>3. CASE RunBatch(t)
    BY <2>1, <2>3, RunBatchStep
  <2>4. CASE NextBatch(t)
    BY <2>1, <2>4, NextBatchStep
  <2>5. CASE ReadMore(t)
    BY <2>1, <2>5, ReadMoreStep
  <2>6. CASE GiveBack(t)
    BY <2>1, <2>6, GiveBackStep
  <2>7. CASE Deliver(t)
    <3>1. /\ UNCHANGED <<inq, outq, jobs>> /\ thr[t].at = "deliver"
          /\ done' = Append(done, thr[t].comp) /\ Become(t, [at |-> "free"])
      BY <2>7 DEF Deliver
    <3>. QED  BY <2>1, <3>1, DeliverStep
  <2>. QED  BY <1>1, <2>2, <2>3, <2>4, <2>5, <2>6, <2>7 DEF PoolThread
<1>2. CASE Retire(t)
  <2>1. Aside /\ Free(t) /\ UNCHANGED <<inq, outq, done>>
    BY <1>2 DEF Retire, client, socket, Aside, Free
  <2>2. CASE TakeJob(t)
    BY <2>1, <2>2, TakeJobMoves
  <2>3. CASE Become(t, Idle) /\ UNCHANGED jobs
    <3>1. PICK x : x = Idle
      OBVIOUS
    <3>2. x.at \notin {"run", "owned", "deliver"} /\ Become(t, x) /\ UNCHANGED <<inq, outq, jobs, done>>
      BY <2>1, <2>3, <3>1 DEF Idle
    <3>. QED  BY <2>1, <3>2, RestStep
  <2>. QED  BY <1>2, <2>2, <2>3 DEF Retire
<1>. QED  BY <1>1, <1>2

-----------------------------------------------------------------------------
\* It begins right: nobody has connected.
LEMMA InitReplies == ASSUME Init PROVE ReplyInv
<1>1. /\ script \in Scripts /\ sent = [c \in Clients |-> 0] /\ fin = [c \in Clients |-> FALSE]
      /\ got = [c \in Clients |-> <<>>] /\ inq = [c \in Clients |-> <<>>] /\ outq = [c \in Clients |-> <<>>]
      /\ link = [c \in Clients |-> "new"] /\ conns = [s \in Slots |-> None] /\ gens = [s \in Slots |-> 0]
      /\ ready = {} /\ calls = <<>> /\ jobs = <<>> /\ thr = [t \in Threads |-> Idle] /\ done = <<>>
      /\ elsewhere = [c \in Clients |-> <<>>]
  BY DEF Init
<1>2. IsSeq(<<>>) /\ Calls(<<>>) /\ DOMAIN <<>> = {} /\ Len(<<>>) = 0 /\ <<>> \in Seq(Nat)
  BY CallsAre, EmptySeq
<1>3. \A c \in Clients : ClientShape(c)
  <2>. SUFFICES ASSUME NEW c \in Clients PROVE ClientShape(c)
    OBVIOUS
  <2>1. Len(script[c]) \in Nat
    BY <1>1, ScriptsEnd, LenProperties
  <2>. QED  BY <1>1, <1>2, <2>1, LimitsAreNumbers DEF ClientShape
<1>4. LoopShape
  BY <1>1, <1>2, <1>3 DEF LoopShape
<1>5. \A t \in Threads : ~HasJob(t) /\ ~HasComp(t) /\ ThreadOK(t)
  BY <1>1 DEF Idle, HasJob, HasComp, ThreadOK
<1>6. WorkOK /\ Places = {}
  BY <1>1, <1>2, <1>5 DEF WorkOK, Places
<1>7. LentOnce
  BY <1>6 DEF LentOnce
<1>8. OneSlotEach /\ \A s \in Slots : ConnOK(s)
  BY <1>1 DEF OneSlotEach, ConnOK
<1>9. \A c \in Clients : ClientOK(c)
  <2>1. Run(0, 0) = <<>>
    BY EmptyRun
  <2>. QED  BY <1>1, <2>1 DEF ClientOK
<1>. QED  BY <1>4, <1>6, <1>7, <1>8, <1>9 DEF ReplyInv

\* Nothing changes.
LEMMA IdleReplies == ASSUME ReplyInv, UNCHANGED vars PROVE ReplyInv'
<1>1. UNCHANGED <<script, sent, fin, got, inq, outq, link, conns, gens, ready, calls, jobs, thr, done, elsewhere>>
  BY DEF vars
<1>2. LoopShape'
  <2>1. Calls(calls)' <=> Calls(calls)
    BY <1>1 DEF Calls, Slots
  <2>2. \A d \in Clients : ClientShape(d)'
    BY <1>1 DEF ReplyInv, LoopShape, ClientShape
  <2>. QED  BY <1>1, <2>1, <2>2 DEF ReplyInv, LoopShape, IsSeq, Slots
<1>3. PICK c : c \notin Clients
  <2>1. PICK c : c = CHOOSE u : u \notin Clients
    OBVIOUS
  <2>. QED  BY <2>1, NoSetContainsEverything
<1>4. \A d \in Clients : Same(d)
  BY <1>1 DEF Same
<1>5. \A r \in Slots : Kept(r)
  <2>1. \A r \in Slots : conns[r] = None \/ conns[r].client # c
    BY <1>3, ConnIs
  <2>2. \A d \in Clients \ {c} : Same(d)
    BY <1>4
  <2>3. UNCHANGED <<script, conns, gens>>
    BY <1>1
  <2>. QED  BY ONLY ReplyInv, <2>1, <2>2, <2>3, OthersKept
<1>6. \A i \in DOMAIN calls' : IsCompletion(i)' => i \in DOMAIN calls /\ IsCompletion(i) /\ calls'[i] = calls[i]
  BY <1>1 DEF IsCompletion
<1>. QED  BY <1>1, <1>2, <1>3, <1>4, <1>5, <1>6, ClientStep

\* The event loop, for any number of clients and threads, any scripts and any limits:
\* each connection, job and completion continues the replies that its client has,
\* and no connection is with two pool threads, or with the worker, too.
THEOREM RepliesInvariance == Spec => []ReplyInv
<1>1. Init => ReplyInv
  BY InitReplies
<1>2. ReplyInv /\ [Next]_vars => ReplyInv'
  <2>. SUFFICES ASSUME ReplyInv, [Next]_vars PROVE ReplyInv'
    OBVIOUS
  <2>1. ASSUME NEW c \in Clients, Connect(c) \/ Send(c) \/ Finish(c) \/ Recv(c) \/ ServeElsewhere(c)
        PROVE  ReplyInv'
    BY <2>1, ConnectStep, SendStep, FinishStep, RecvStep, ElsewhereStep
  <2>2. CASE Worker
    BY <2>2, WorkerKeeps
  <2>3. ASSUME NEW t \in Threads, PoolThread(t) \/ Retire(t) PROVE ReplyInv'
    BY <2>3, PoolKeeps
  <2>4. CASE UNCHANGED vars
    BY <2>4, IdleReplies
  <2>. QED  BY <2>1, <2>2, <2>3, <2>4 DEF Next
<1>. QED  BY <1>1, <1>2, PTL DEF Spec

\* What a client has read and will find in its socket begins what it should read.
LEMMA ReadBegins ==
  ASSUME ReplyInv, NEW c \in Clients
  PROVE  got[c] \o outq[c] \in Seq(Nat) /\ Begins(c, got[c] \o outq[c])
<1>1. ClientOK(c) /\ ClientShape(c) /\ Ends(script[c])
  BY ScriptIs DEF ReplyInv, LoopShape
<1>2. PICK g \in Seq(Nat) : g = got[c]
  BY <1>1 DEF ClientShape
<1>3. PICK o \in Seq(Nat) : o = outq[c]
  BY <1>1 DEF ClientShape
<1>4. PICK w \in Seq(Nat) : w = g \o o
  BY ConcatProperties
<1>5. Wanted(script[c]) \in Seq(Nat)
  <2>1. PICK l \in Nat : l = Len(script[c])
    BY <1>1, WantedIs
  <2>2. Full(script[c], l) \in Seq(Nat) /\ Acks(script[c]) \in Seq(Nat)
        /\ Wanted(script[c]) = Full(script[c], l) \o Acks(script[c])
    <3>1. l \in 0..Len(script[c])
      BY <2>1
    <3>. QED  BY <1>1, <2>1, <3>1, WantedIs
  <2>. QED  BY <2>2, ConcatProperties
<1>6. CASE link[c] \in {"new", "backlog"}
  <2>1. g = <<>> /\ o = <<>>
    BY <1>1, <1>2, <1>3, <1>6 DEF ClientOK
  <2>2. w = <<>>
    BY <1>4, <2>1, ConcatEmptySeq
  <2>3. w \o Wanted(script[c]) = Wanted(script[c])
    BY <1>5, <2>2, ConcatEmptySeq
  <2>. QED  BY <1>2, <1>3, <1>4, <1>5, <2>3 DEF Begins, Starts
<1>7. CASE link[c] = "open" /\ ~HasSlot(c)
  <2>1. PICK e \in Seq(Nat) : e = elsewhere[c]
    BY <1>1 DEF ClientShape
  <2>2. w \o e = Wanted(script[c])
    BY <1>1, <1>2, <1>3, <1>4, <1>7, <2>1 DEF ClientOK
  <2>. QED  BY <1>2, <1>3, <1>4, <2>2 DEF Begins, Starts
<1>8. CASE HasSlot(c)
  <2>1. PICK s \in Slots : conns[s] # None /\ conns[s].client = c
    BY <1>8 DEF HasSlot
  <2>2. PICK b \in Seq(Nat) : b = conns[s].wbuf
    BY <2>1, ConnIs
  <2>3. Written(conns[s]) = w \o b /\ Begins(c, Written(conns[s]))
    BY <1>2, <1>3, <1>4, <2>1, <2>2, ConnIs
  <2>4. Starts(script[c], w \o b)
    BY <2>3 DEF Begins
  <2>5. Starts(script[c], w)
    BY <2>4, StartsPart
  <2>. QED  BY <1>2, <1>3, <1>4, <2>5 DEF Begins
<1>9. CASE link[c] = "closed"
  BY <1>1, <1>2, <1>3, <1>4, <1>9 DEF ClientOK
<1>10. link[c] \in {"new", "backlog", "open", "closed"}
  BY DEF ReplyInv, LoopShape
<1>. QED  BY <1>6, <1>7, <1>8, <1>9, <1>10

\* The front of a sequence.
LEMMA TakeFront ==
  ASSUME NEW a \in Seq(Nat), NEW b \in Seq(Nat), NEW e, e = a \o b
  PROVE  a = Take(e, Len(a))
<1>1. /\ Len(a) \in Nat /\ Len(b) \in Nat /\ e \in Seq(Nat) /\ Len(e) = Len(a) + Len(b)
      /\ \A i \in 1..Len(a) + Len(b) : e[i] = IF i <= Len(a) THEN a[i] ELSE b[i - Len(a)]
  BY LenProperties, ConcatProperties
<1>2. Take(e, Len(a)) = SubSeq(e, 1, Len(a))
  <2>1. Low(Len(a), Len(e)) = Len(a)
    BY <1>1 DEF Low
  <2>. QED  BY <2>1 DEF Take
<1>3. /\ SubSeq(e, 1, Len(a)) \in Seq(Nat) /\ Len(SubSeq(e, 1, Len(a))) = Len(a)
      /\ \A i \in 1..Len(a) : SubSeq(e, 1, Len(a))[i] = e[i]
  <2>1. /\ SubSeq(e, 1, Len(a)) \in Seq(Nat)
        /\ Len(SubSeq(e, 1, Len(a))) = IF 1 <= Len(a) THEN Len(a) - 1 + 1 ELSE 0
        /\ \A i \in 1..Len(a) - 1 + 1 : SubSeq(e, 1, Len(a))[i] = e[1 + i - 1]
    <3>1. 1 \in 1..Len(e) + 1 /\ Len(a) \in 0..Len(e) /\ \A i \in 1..Len(e) : e[i] \in Nat
      BY <1>1, LenProperties
    <3>. QED  BY <1>1, <3>1, SubSeqProperties
  <2>. QED  BY <1>1, <2>1
<1>4. \A i \in 1..Len(a) : a[i] = SubSeq(e, 1, Len(a))[i]
  <2>1. \A i \in 1..Len(a) : i \in 1..Len(a) + Len(b) /\ i <= Len(a)
    BY <1>1
  <2>. QED  BY <1>1, <1>3, <2>1
<1>. QED  BY <1>2, <1>3, <1>4, SeqEqual

\* Each client reads the replies to its own commands, each once and in order, whoever
\* wrote them and whatever connection had its slot before.
THEOREM RepliesAreInOrder == Spec => []RepliesInOrder
<1>1. ReplyInv => RepliesInOrder
  <2>. SUFFICES ASSUME ReplyInv, NEW c \in Clients
                PROVE  got[c] \o outq[c] = Take(Expected(c), Len(got[c] \o outq[c]))
    BY DEF RepliesInOrder
  <2>1. got[c] \o outq[c] \in Seq(Nat) /\ Begins(c, got[c] \o outq[c])
    BY ReadBegins
  <2>2. PICK w \in Seq(Nat) : w = got[c] \o outq[c]
    BY <2>1
  <2>3. PICK rest \in Seq(Nat) : w \o rest = Wanted(script[c])
    BY <2>1, <2>2 DEF Begins, Starts
  <2>4. PICK e \in Seq(Nat) : e = w \o rest
    BY ConcatProperties
  <2>5. Expected(c) = e
    BY <2>3, <2>4 DEF Expected, Wanted
  <2>6. w = Take(e, Len(w))
    BY <2>4, TakeFront
  <2>. QED  BY <2>2, <2>5, <2>6
<1>. QED  BY <1>1, RepliesInvariance, PTL

\* The server closes the connection of a client that is still sending only after a
\* QUIT, and after the last reply was written.
THEOREM ClosesAfterLastReply == Spec => []ClosedAfterLastReply
<1>1. ReplyInv => ClosedAfterLastReply
  BY DEF ReplyInv, ClientOK, ClosedAfterLastReply, Expected, Wanted
<1>. QED  BY <1>1, RepliesInvariance, PTL
=============================================================================
