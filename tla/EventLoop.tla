----------------------------- MODULE EventLoop -----------------------------
(***************************************************************************)
(* The network layer: one epoll worker, the connections it owns, and the   *)
(* pool of blocking threads.  A batch of commands that cannot block runs   *)
(* inline; any other batch is handed with its connection to a pool thread, *)
(* which may write the replies itself and read the client's next commands, *)
(* and gives the connection back through a list of completions.            *)
(*                                                                         *)
(* Commands travel as pieces, which have a number and a kind; a reply is   *)
(* units, named by the piece they answer.  The functions of the worker     *)
(* call each other: `calls` is what it still has to run, the next first.   *)
(***************************************************************************)
EXTENDS Naturals, Sequences, FiniteSets

CONSTANTS Clients,     \* each connects once
          Scripts,     \* what the clients may send: the kinds of each one's pieces
          Threads,     \* as many as Pool.max
          SockOut,     \* units that fit in a socket's send buffer
          HighWater,   \* OUTPUT_HIGH_WATER, in units
          PausedLimit, \* PAUSED_INPUT_LIMIT, in pieces
          Big          \* units by which a long reply is longer

ASSUME FinitePool == IsFiniteSet(Threads)

\* A script ends with a SUBSCRIBE, if it has one: what the client sends after that is
\* the business of another thread.
ASSUME ScriptsEnd ==
  \A sc \in Scripts : \A c \in Clients :
    /\ sc[c] \in Seq({"read", "write", "part", "quit", "sub"})
    /\ \A i \in 1..Len(sc[c]) - 1 : sc[c][i] # "sub"

ASSUME LimitsAreNumbers == SockOut \in Nat /\ PausedLimit \in Nat /\ Big \in Nat

VARIABLES script, sent, fin, got,     \* clients: commands, pieces sent, end of sending, units read
          inq, outq, blocked, link,   \* sockets; blocked: the last write found no space
          conns, gens, ready, calls,   \* the worker; ready: epoll's ready list
          jobs, thr,                  \* the pool
          done, wake,                 \* completions and the eventfd
          elsewhere                   \* replies left to the thread of a handed-off connection

client == <<script, sent, fin, got>>
socket == <<inq, outq, blocked, link>>
pool == <<jobs, thr>>
vars == <<script, sent, fin, got, inq, outq, blocked, link, conns, gens, ready,
          calls, jobs, thr, done, wake, elsewhere>>

Slots == 1..Cardinality(Clients)
None == [client |-> "none"]
Idle == [at |-> "none"]

Low(a, b) == IF a < b THEN a ELSE b
Take(s, n) == SubSeq(s, 1, Low(n, Len(s)))
Drop(s, n) == SubSeq(s, n + 1, Len(s))

-----------------------------------------------------------------------------
\* What commands do, given the kinds of the client's pieces.  "part" is the first
\* half of a long command, which is not parsed before its second half is there,
\* and whose reply is long, too; any other piece is, or completes, a command.
\* "write" stands for what waits for a disk, a timeout or another client, "sub"
\* for SUBSCRIBE and REPLSYNC.
Inline(kind) == kind # "write"
Reply(kinds, n) == [i \in 1..(IF kinds[n] = "part" THEN Big ELSE 1) |-> n]

\* parse_commands: the complete commands of a buffer, and what stays in it.
Complete(kinds, buf) == IF buf = <<>> \/ kinds[buf[Len(buf)]] # "part" THEN Len(buf) ELSE Len(buf) - 1
Parsed(kinds, buf) == SubSeq(buf, 1, Complete(kinds, buf))
Unparsed(kinds, buf) == SubSeq(buf, Complete(kinds, buf) + 1, Len(buf))

\* batch_inline.
BatchInline(kinds, cmds) == \A i \in DOMAIN cmds : Inline(kinds[cmds[i]])

\* process_batch: the replies to its commands, up to a QUIT, which it answers, or
\* a SUBSCRIBE, which the next thread does; and how it ended.
Ended(kinds, cmds, i) ==
  \E j \in 1..i : kinds[cmds[j]] = "sub" \/ (j < i /\ kinds[cmds[j]] = "quit")
Output(kinds, cmds) ==
  LET out[i \in 0..Len(cmds)] ==
        IF i = 0 THEN <<>>
        ELSE IF Ended(kinds, cmds, i) THEN out[i - 1] ELSE out[i - 1] \o Reply(kinds, cmds[i])
  IN  out[Len(cmds)]
BatchEnd(kinds, cmds) ==
  IF \E i \in DOMAIN cmds : kinds[cmds[i]] = "quit" THEN "quit"
  ELSE IF \E i \in DOMAIN cmds : kinds[cmds[i]] = "sub" THEN "sub" ELSE "continue"

\* All that a client should ever read.
Whole(kinds) == [i \in 1..Len(kinds) |-> i]
Acks(kinds) == IF BatchEnd(kinds, Whole(kinds)) = "sub" THEN Reply(kinds, Len(kinds)) ELSE <<>>
Expected(c) == Output(script[c], Whole(script[c])) \o Acks(script[c])

-----------------------------------------------------------------------------
Init ==
  /\ script \in Scripts
  /\ sent = [c \in Clients |-> 0] /\ fin = [c \in Clients |-> FALSE]
  /\ got = [c \in Clients |-> <<>>]
  /\ inq = [c \in Clients |-> <<>>] /\ outq = [c \in Clients |-> <<>>]
  /\ blocked = [c \in Clients |-> FALSE] /\ link = [c \in Clients |-> "new"]
  /\ conns = [s \in Slots |-> None] /\ gens = [s \in Slots |-> 0]
  /\ ready = {} /\ calls = <<>>
  /\ jobs = <<>> /\ thr = [t \in Threads |-> Idle]
  /\ done = <<>> /\ wake = FALSE
  /\ elsewhere = [c \in Clients |-> <<>>]

SlotsOf(c) == {s \in Slots : conns[s].client = c}
\* The kernel lists a connection when something happens on it and its interest
\* set names it: EPOLLET alone (muted) reports neither input nor space.
Token(s) == [slot |-> s, gen |-> gens[s]]
Edge(c) == {Token(s) : s \in {r \in SlotsOf(c) : ~conns[r].muted}}

Open(c) == link[c] \in {"backlog", "open"}

Connect(c) ==
  /\ link[c] = "new"
  /\ link' = [link EXCEPT ![c] = "backlog"]
  /\ UNCHANGED <<client, inq, outq, blocked, conns, gens, ready, calls, pool, done, wake, elsewhere>>

Send(c) ==
  /\ Open(c) /\ ~fin[c] /\ sent[c] < Len(script[c])
  /\ sent' = [sent EXCEPT ![c] = @ + 1]
  /\ inq' = [inq EXCEPT ![c] = Append(@, sent[c] + 1)]
  /\ ready' = ready \cup Edge(c)
  /\ UNCHANGED <<script, fin, got, outq, blocked, link, conns, gens, calls, pool, done, wake, elsewhere>>

\* The client closes its sending side, or goes away.
Finish(c) ==
  /\ Open(c) /\ ~fin[c]
  /\ fin' = [fin EXCEPT ![c] = TRUE]
  /\ ready' = ready \cup Edge(c)
  /\ UNCHANGED <<script, sent, got, socket, conns, gens, calls, pool, done, wake, elsewhere>>

\* Reading makes space, which is an event only for a writer that found none.
Recv(c) ==
  /\ outq[c] # <<>>
  /\ got' = [got EXCEPT ![c] = @ \o outq[c]]
  /\ outq' = [outq EXCEPT ![c] = <<>>]
  /\ blocked' = [blocked EXCEPT ![c] = FALSE]
  /\ ready' = IF blocked[c] THEN ready \cup Edge(c) ELSE ready
  /\ UNCHANGED <<script, sent, fin, inq, link, conns, gens, calls, pool, done, wake, elsewhere>>

-----------------------------------------------------------------------------
\* The worker handles one event after another; `ready` also stands for what
\* epoll_wait has returned already, so a token may outlive its connection.
AliveSlot(s, gen) == conns[s] # None
Alive(s, gen) == conns[s] # None /\ conns[s].gen = gen

\* conn_event: write if there is space, then read if there is input; a token of
\* a connection that is gone is dropped.
ConnEvent(e) ==
  /\ ready' = ready \ {e}
  /\ calls' = IF ~Alive(e.slot, e.gen) \/ conns[e.slot].muted THEN <<>>
              ELSE LET c == conns[e.slot].client
                   IN  (IF Len(outq[c]) < SockOut THEN << <<"flush", e.slot>> >> ELSE <<>>)
                         \o (IF inq[c] # <<>> \/ fin[c] THEN << <<"readable", e.slot>> >> ELSE <<>>)
  /\ UNCHANGED <<done, wake>>

\* completions: drain the eventfd, then the list.
Completions ==
  /\ wake /\ wake' = FALSE /\ done' = <<>>
  /\ calls' = [i \in DOMAIN done |-> <<"completion", done[i]>>]
  /\ UNCHANGED ready

Listener ==
  /\ \E c \in Clients : link[c] = "backlog"
  /\ calls' = << <<"accept">> >>
  /\ UNCHANGED <<ready, done, wake>>

OnEvent ==
  /\ calls = <<>>
  /\ (\E e \in ready : ConnEvent(e)) \/ Completions \/ Listener
  /\ UNCHANGED <<client, socket, conns, gens, pool, elsewhere>>

\* The next call, and what replaces it.
Now(f) == calls # <<>> /\ calls[1][1] = f
Arg == calls[1][2]
Then(cs) == calls' = cs \o Tail(calls)
Update(s, k) == conns' = [conns EXCEPT ![s] = k]

\* release: the slot is free for another connection, of the next generation.
Release(s) ==
  /\ conns' = [conns EXCEPT ![s] = None]
  /\ gens' = [gens EXCEPT ![s] = @ + 1]

\* accept_all and register: until nobody is waiting.
AcceptAll ==
  /\ Now("accept")
  /\ \/ \E c \in Clients, s \in Slots :
          /\ link[c] = "backlog"
          /\ conns[s] = None /\ \A r \in Slots : conns[r] = None => s <= r
          /\ Update(s, [client |-> c, gen |-> gens[s], rbuf |-> <<>>, wbuf |-> <<>>, st |-> TRUE,
                        closing |-> FALSE, more |-> FALSE, muted |-> FALSE])
          /\ link' = [link EXCEPT ![c] = "open"]
          /\ ready' = ready \cup {Token(s)}
          /\ Then(<< <<"readable", s>>, <<"accept">> >>)
     \/ /\ \A c \in Clients : link[c] # "backlog"
        /\ Then(<<>>) /\ UNCHANGED <<conns, link, ready>>
  /\ UNCHANGED <<client, inq, outq, blocked, gens, pool, done, wake, elsewhere>>

\* Conn::ready: not on the pool, not closing, not held back by a slow reader.
Accepts(k) == k.st /\ ~k.closing /\ Len(k.wbuf) <= HighWater

ReadableOwned(s, k) ==
  /\ ~k.st
  /\ Update(s, [k EXCEPT !.more = TRUE]) /\ Then(<<>>)
  /\ UNCHANGED <<socket, gens>>

\* Read until the socket is empty, or until a paused connection holds enough.
ReadableDrains(s, k) ==
  /\ k.st
  /\ LET c == k.client
         n == IF Accepts(k) THEN Len(inq[c]) ELSE Low(Len(inq[c]), PausedLimit + 1 - Low(PausedLimit + 1, Len(k.rbuf)))
         buf == k.rbuf \o Take(inq[c], n)
         limited == ~Accepts(k) /\ Len(buf) > PausedLimit
     IN  /\ inq' = [inq EXCEPT ![c] = Drop(@, n)]
         /\ IF fin[c] /\ n = Len(inq[c]) /\ ~limited
            THEN /\ Release(s) /\ link' = [link EXCEPT ![c] = "closed"] /\ Then(<<>>)
            ELSE /\ Update(s, [k EXCEPT !.rbuf = buf, !.more = limited])
                 /\ Then(IF Accepts(k) THEN << <<"process", s>> >> ELSE <<>>)
                 /\ UNCHANGED <<gens, link>>
         /\ UNCHANGED <<outq, blocked>>

Readable ==
  /\ Now("readable")
  /\ \/ conns[Arg] = None /\ Then(<<>>) /\ UNCHANGED <<socket, conns, gens>>
     \/ conns[Arg] # None /\ (ReadableOwned(Arg, conns[Arg]) \/ ReadableDrains(Arg, conns[Arg]))
  /\ UNCHANGED <<client, ready, pool, done, wake, elsewhere>>

\* Pool::submit: wake an idle thread if the idle ones outnumber the jobs before
\* this one, else start a thread, else leave the job to the next free one.
ThreadsAt(places) == {t \in Threads : thr[t].at \in places}
AsManyIdle == Cardinality(ThreadsAt({"wait", "woken"})) >= Len(jobs)
EnoughIdle == Cardinality(ThreadsAt({"wait", "woken"})) > Len(jobs)
\* Some thread at `from`, if there is one (they are all alike), moves on.
OneGoes(from, to) ==
  IF ThreadsAt({from}) = {} THEN UNCHANGED thr
  ELSE thr' = [thr EXCEPT ![CHOOSE t \in ThreadsAt({from}) : TRUE] = [at |-> to]]

Submit(job) ==
  /\ jobs' = Append(jobs, job)
  /\ IF EnoughIdle THEN OneGoes("wait", "woken") ELSE OneGoes("none", "free")

\* hand_off: the connection leaves with its state and pending replies.
HandOff(s, k) ==
  /\ Release(s)
  /\ elsewhere' = [elsewhere EXCEPT ![k.client] = k.wbuf \o Acks(script[k.client])]
  /\ Then(<<>>)

\* finish_batch: `again` is what follows a batch that ended with Continue.
FinishBatch(s, k, end, again) ==
  \/ end = "continue" /\ Update(s, k) /\ Then(again) /\ UNCHANGED <<gens, elsewhere>>
  \/ /\ end = "quit"
     /\ Update(s, [k EXCEPT !.closing = TRUE]) /\ Then(<< <<"flush", s>> >>)
     /\ UNCHANGED <<gens, elsewhere>>
  \/ end = "sub" /\ HandOff(s, k)

ProcessInline(s, k, cmds) ==
  /\ BatchInline(script[k.client], cmds)
  /\ LET kinds == script[k.client]
         k2 == [k EXCEPT !.rbuf = Unparsed(kinds, @), !.wbuf = @ \o Output(kinds, cmds)]
     IN  FinishBatch(s, k2, BatchEnd(kinds, cmds), << <<"process", s>> >>)
  /\ UNCHANGED pool

\* The pool thread writes to the socket itself when nothing is queued ahead.
ProcessOnPool(s, k, cmds) ==
  /\ ~BatchInline(script[k.client], cmds)
  /\ LET direct == k.wbuf = <<>>
     IN  /\ Submit([slot |-> s, gen |-> k.gen, client |-> k.client, cmds |-> cmds,
                    rbuf |-> Unparsed(script[k.client], k.rbuf), direct |-> direct, eof |-> FALSE])
         /\ Update(s, [k EXCEPT !.st = FALSE, !.rbuf = <<>>, !.muted = direct])
  /\ Then(<< <<"flush", s>> >>)
  /\ UNCHANGED <<gens, elsewhere>>

Runnable(k) == k # None /\ Accepts(k) /\ Parsed(script[k.client], k.rbuf) # <<>>

Process ==
  /\ Now("process")
  /\ LET s == Arg
         k == conns[s]
     IN  \/ /\ ~Runnable(k)
            /\ Then(IF k = None THEN <<>> ELSE << <<"flush", s>> >>)
            /\ UNCHANGED <<conns, gens, pool, elsewhere>>
         \/ /\ Runnable(k)
            /\ LET cmds == Parsed(script[k.client], k.rbuf)
               IN  ProcessInline(s, k, cmds) \/ ProcessOnPool(s, k, cmds)
  /\ UNCHANGED <<client, socket, ready, done, wake>>

\* completions: a result for a connection that is gone is dropped; otherwise the
\* connection takes back its state, its replies, its input and its events.
Completion ==
  /\ Now("completion")
  /\ LET comp == Arg
         s == comp.slot
         k == conns[s]
     IN  \/ /\ ~Alive(s, comp.gen)
            /\ Then(<<>>) /\ UNCHANGED <<conns, gens, ready, elsewhere>>
         \/ /\ Alive(s, comp.gen)
            /\ LET k2 == [k EXCEPT !.st = TRUE, !.wbuf = @ \o comp.out, !.rbuf = comp.rbuf,
                                   !.more = @ \/ k.muted, !.muted = FALSE, !.closing = @ \/ comp.eof]
               IN  /\ FinishBatch(s, k2, comp.end,
                                  << <<IF k2.more THEN "readable" ELSE "process", s>> >>)
                   /\ ready' = IF k.muted THEN ready \cup {Token(s)} ELSE ready
  /\ UNCHANGED <<client, socket, pool, done, wake>>

ClosesAtOnce(k) == k.closing
MayClose(k) == k.closing /\ k.wbuf = <<>>

\* flush: write until the socket is full; then close, or take up input again.
Flushed(s, k, n) ==
  LET c == k.client
      k2 == [k EXCEPT !.wbuf = Drop(@, n)]
  IN  /\ outq' = [outq EXCEPT ![c] = @ \o Take(k.wbuf, n)]
      /\ blocked' = [blocked EXCEPT ![c] = @ \/ k2.wbuf # <<>>]
      /\ \/ /\ MayClose(k2)
            /\ Release(s) /\ link' = [link EXCEPT ![c] = "closed"] /\ Then(<<>>)
         \/ /\ ~ MayClose(k2)
            /\ Update(s, k2)
            /\ Then(IF Len(k.wbuf) > HighWater /\ Accepts(k2)
                    THEN << <<IF k2.more THEN "readable" ELSE "process", s>> >> ELSE <<>>)
            /\ UNCHANGED <<gens, link>>

Flush ==
  /\ Now("flush")
  /\ LET s == Arg
         k == conns[s]
     IN  \/ k = None /\ Then(<<>>) /\ UNCHANGED <<outq, blocked, link, conns, gens>>
         \/ k # None /\ Flushed(s, k, Low(Len(k.wbuf), SockOut - Len(outq[k.client])))
         \/ /\ k # None /\ k.wbuf # <<>> /\ fin[k.client]       \* the client is gone
            /\ Release(s) /\ link' = [link EXCEPT ![k.client] = "closed"] /\ Then(<<>>)
            /\ UNCHANGED <<outq, blocked>>
  /\ UNCHANGED <<client, inq, ready, pool, done, wake, elsewhere>>

Worker == OnEvent \/ AcceptAll \/ Readable \/ Process \/ Completion \/ Flush

-----------------------------------------------------------------------------
\* Pool threads.  work(): the next job, or wait for one for a while.
Become(t, r) == thr' = [thr EXCEPT ![t] = r]

\* A thread that holds the lock takes the next job, or waits.
TakeJob(t) ==
  \/ jobs # <<>> /\ Become(t, [at |-> "run", job |-> Head(jobs)]) /\ jobs' = Tail(jobs)
  \/ jobs = <<>> /\ Become(t, [at |-> "wait"]) /\ UNCHANGED jobs

\* A new thread, one that has done its job, one that was woken: the last counts
\* as idle until it has the lock again.
NextJob(t) ==
  /\ thr[t].at \in {"free", "woken"}
  /\ TakeJob(t)
  /\ UNCHANGED <<outq, inq, blocked, done, wake>>

\* The wait timed out: there is a job after all, or the thread ends.
Retire(t) ==
  /\ thr[t].at = "wait"
  /\ IF jobs = <<>> THEN Become(t, Idle) /\ UNCHANGED jobs ELSE TakeJob(t)
  /\ UNCHANGED <<client, socket, conns, gens, ready, calls, done, wake, elsewhere>>

Finished(t, job, out, end) ==
  Become(t, [at |-> "deliver",
             comp |-> [slot |-> job.slot, gen |-> job.gen, out |-> out, end |-> end,
                       rbuf |-> job.rbuf, eof |-> job.eof]])

\* run_owned: run the batch and, if the socket is this thread's, write what fits
\* in it.  (A write to a client that is gone may fail.)
RunBatch(t) ==
  /\ thr[t].at = "run"
  /\ LET job == thr[t].job
         c == job.client
         out == Output(script[c], job.cmds)
         end == BatchEnd(script[c], job.cmds)
     IN  \/ /\ ~job.direct
            /\ Finished(t, job, out, end) /\ UNCHANGED <<outq, blocked>>
         \/ /\ job.direct
            /\ \E n \in {Low(Len(out), SockOut - Len(outq[c]))} \cup (IF fin[c] THEN {0} ELSE {}) :
                 /\ outq' = [outq EXCEPT ![c] = @ \o Take(out, n)]
                 /\ blocked' = [blocked EXCEPT ![c] = @ \/ n < Len(out)]
                 /\ IF n < Len(out) \/ end # "continue"
                    THEN Finished(t, job, Drop(out, n), end)
                    ELSE Become(t, [at |-> "owned", job |-> [job EXCEPT !.cmds = <<>>]])
  /\ UNCHANGED <<jobs, inq, done, wake>>

\* Then the next batch, if the client has sent one, ...
Buffered(t) == Parsed(script[thr[t].job.client], thr[t].job.rbuf)
NextBatch(t) ==
  /\ thr[t].at = "owned" /\ Buffered(t) # <<>>
  /\ LET job == thr[t].job
     IN  Become(t, [at |-> "run", job |-> [job EXCEPT !.cmds = Buffered(t),
                                                     !.rbuf = Unparsed(script[job.client], @)]])
  /\ UNCHANGED <<jobs, outq, inq, blocked, done, wake>>

\* ... or after reading what it sends meanwhile; ...
ReadMore(t) ==
  /\ thr[t].at = "owned" /\ Buffered(t) = <<>> /\ ~thr[t].job.eof
  /\ LET job == thr[t].job
         c == job.client
     IN  /\ inq[c] # <<>> \/ fin[c]
         /\ Become(t, [at |-> "owned", job |-> [job EXCEPT !.rbuf = @ \o inq[c], !.eof = inq[c] = <<>>]])
         /\ inq' = [inq EXCEPT ![c] = <<>>]
  /\ UNCHANGED <<jobs, outq, blocked, done, wake>>

\* ... or none: it ended its input, stayed quiet for too long, or other jobs wait.
GiveBack(t) ==
  /\ thr[t].at = "owned" /\ Buffered(t) = <<>>
  /\ Finished(t, thr[t].job, <<>>, "continue")
  /\ UNCHANGED <<jobs, outq, inq, blocked, done, wake>>

DeliverThenTest(t) ==  \* mutant: looks whether the list is empty after the push
  /\ thr[t].at = "deliver"
  /\ done' = Append(done, thr[t].comp)
  /\ wake' = (wake \/ done' = <<>>)
  /\ Become(t, [at |-> "free"])
  /\ UNCHANGED <<jobs, outq, inq, blocked>>
\* The list was empty: wake the worker, which takes the whole list.
Deliver(t) ==
  /\ thr[t].at = "deliver"
  /\ done' = Append(done, thr[t].comp)
  /\ wake' = (wake \/ done = <<>>)
  /\ Become(t, [at |-> "free"])
  /\ UNCHANGED <<jobs, outq, inq, blocked>>

PoolThread(t) ==
  /\ NextJob(t) \/ RunBatch(t) \/ NextBatch(t) \/ ReadMore(t) \/ GiveBack(t) \/ Deliver(t)
  /\ UNCHANGED <<client, link, conns, gens, ready, calls, elsewhere>>

\* The dedicated thread of a handed-off connection writes what was pending.
ServeElsewhere(c) ==
  /\ elsewhere[c] # <<>> /\ Len(outq[c]) < SockOut
  /\ outq' = [outq EXCEPT ![c] = Append(@, Head(elsewhere[c]))]
  /\ elsewhere' = [elsewhere EXCEPT ![c] = Tail(@)]
  /\ UNCHANGED <<client, inq, blocked, link, conns, gens, ready, calls, pool, done, wake>>

Next ==
  \/ \E c \in Clients : Connect(c) \/ Send(c) \/ Finish(c) \/ Recv(c) \/ ServeElsewhere(c)
  \/ Worker
  \/ \E t \in Threads : PoolThread(t) \/ Retire(t)

\* The worker and the pool's threads keep running, and clients keep reading;
\* nobody has to connect, send or leave.
Fairness ==
  /\ WF_vars(Worker)
  /\ \A t \in Threads : WF_vars(PoolThread(t))
  /\ \A c \in Clients : WF_vars(Recv(c)) /\ WF_vars(ServeElsewhere(c))

Spec == Init /\ [][Next]_vars /\ Fairness

-----------------------------------------------------------------------------
\* A client reads the replies to its own commands, each once and in order,
\* whoever wrote them and whatever connection had its slot before.
RepliesInOrder ==
  \A c \in Clients : LET read == got[c] \o outq[c] IN read = Take(Expected(c), Len(read))

\* The server closes the connection of a client that is still sending only
\* after a QUIT, and after the last reply was written.
ClosedAfterLastReply ==
  \A c \in Clients : link[c] = "closed" /\ ~fin[c] => got[c] \o outq[c] = Expected(c)

\* A queued job waits only for a thread that is on its way to the queue, or
\* because every thread there may be has work.
NoJobIsForgotten ==
  Cardinality(ThreadsAt({"free", "woken"})) < Len(jobs) => ThreadsAt({"none", "wait"}) = {}

\* Paused over the high-water mark by what came back from the pool, and not flushed:
\* no write of the worker has found the socket full, so nothing will announce space.
\* ResumesOnceDrained is about these.
Stranded(s) ==
  /\ conns[s].st /\ Len(conns[s].wbuf) > HighWater /\ ~blocked[conns[s].client]
  /\ calls = <<>> /\ Token(s) \notin ready

\* A client that sends all its commands and stays reads all their replies, unless its
\* connection is stranded: nothing else makes the worker forget input or replies that
\* a pool thread, a full socket or a pause held up (readable, process, completions and
\* flush of eventloop.rs).
EveryCommandAnswered ==
  \A c \in Clients :
    sent[c] = Len(script[c]) ~> \/ fin[c] \/ got[c] = Expected(c)
                               \/ \E s \in SlotsOf(c) : Stranded(s)

\* "Stop parsing more input while this much output is waiting for a slow reader
\* (resumes once the socket drains)": a client that reads is not paused for ever.
ResumesOnceDrained ==
  \A c \in Clients :
    (\E s \in SlotsOf(c) : Len(conns[s].wbuf) > HighWater)
      ~> (\A s \in SlotsOf(c) : Len(conns[s].wbuf) <= HighWater)
=============================================================================
