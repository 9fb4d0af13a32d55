---------------------------- MODULE MCCommitLog ----------------------------
(* Small instances of CommitLog for TLC. *)
EXTENDS CommitLog

CONSTANTS a, b

\* A conditional commit over both keys, a blind write and a blind delete.
MCWrite == {[puts |-> {a, b}, dels |-> {}, cond |-> TRUE],
            [puts |-> {a}, dels |-> {}, cond |-> FALSE],
            [puts |-> {}, dels |-> {a}, cond |-> FALSE]}
=============================================================================
