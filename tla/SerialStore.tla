---------------------------- MODULE SerialStore ----------------------------
(***************************************************************************)
(* What the transaction layer of the storage engine promises: commits form *)
(* one serial log, readers see a published prefix of it, a transaction     *)
(* keeps the prefix it began with, and a commit that depends on what was   *)
(* read is entered only while that is still true.                          *)
(***************************************************************************)
EXTENDS Naturals, Sequences

CONSTANTS Key, Client, MaxInt, NoClient

VARIABLES log,    \* the commits entered so far, in serial order
          shown,  \* how many of them readers see
          view    \* the whole store as each open transaction sees it

sVars == <<log, shown, view>>

Nothing == [live |-> FALSE, n |-> 0]
Cell == [live : {TRUE}, n : 0..MaxInt] \cup {Nothing}
Store == [Key -> Cell]

\* The store after the first i commits of l: the last write to each key wins.
After(l, i) ==
  [k \in Key |->
     IF \E j \in 1..i : k \in DOMAIN l[j].cells
     THEN l[CHOOSE j \in 1..i :
              /\ k \in DOMAIN l[j].cells
              /\ \A m \in j+1..i : k \notin DOMAIN l[m].cells].cells[k]
     ELSE Nothing]

Current == After(log, Len(log))

Closed == [open |-> FALSE, store |-> [k \in Key |-> Nothing]]

Init == log = <<>> /\ shown = 0 /\ view = [c \in Client |-> Closed]

\* A commit is entered at the end of the log.  One that read keys is entered
\* only if none of them has changed; an increment adds one to the current value.
Valid(e) ==
  /\ e.who # NoClient => \A k \in e.checks : view[e.who].store[k] = Current[k]
  /\ \A k \in e.incr :
       e.cells[k] = [live |-> TRUE, n |-> (IF Current[k].live THEN Current[k].n ELSE 0) + 1]

Enter ==
  /\ Len(log') = Len(log) + 1
  /\ SubSeq(log', 1, Len(log)) = log
  /\ Valid(log'[Len(log')])
  /\ UNCHANGED <<shown, view>>

\* Commits become readable in serial order, several at once.
Show == shown' \in shown..Len(log) /\ UNCHANGED <<log, view>>

\* Commits that could not be made durable are taken back before anyone saw them.
Retract == log' = SubSeq(log, 1, shown) /\ UNCHANGED <<shown, view>>

\* A transaction fixes the store it reads ...
Begin(c) ==
  /\ ~view[c].open
  /\ view' = [view EXCEPT ![c] = [open |-> TRUE, store |-> After(log, shown)]]
  /\ UNCHANGED <<log, shown>>

\* ... until it ends.
End(c) ==
  /\ view[c].open
  /\ view' = [view EXCEPT ![c] = Closed]
  /\ UNCHANGED <<log, shown>>

Next == Enter \/ Show \/ Retract \/ \E c \in Client : Begin(c) \/ End(c)

Spec == Init /\ [][Next]_sVars
=============================================================================
