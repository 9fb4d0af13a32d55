------------------------------- MODULE MCMvcc -------------------------------
(* Instances of Mvcc for TLC: transactions in write skew over two keys, and *)
(* the long history of one key.                                            *)
EXTENDS Mvcc, TLC

CONSTANTS a, b

Put(k) == k :> [live |-> TRUE, n |-> 0]
Del(k) == k :> [live |-> FALSE, n |-> 0]
None == [k \in {} |-> Nothing]
Req(checks, cells, incr) == [checks |-> checks, cells |-> cells, incr |-> incr]

\* Blind commits: an increment and a deletion of the same key.
MCBlind == {Req({}, None, {a}), Req({}, Del(a), {})}

\* Two transactions, each reading what the other writes.
MCSkew == {Req({a}, Put(b), {}), Req({b}, Del(a), {})}

\* A read-modify-write of one key.
MCOverwrite == {Req({a}, Put(a), {})}

MCSymmetry == Permutations(Client)
=============================================================================
