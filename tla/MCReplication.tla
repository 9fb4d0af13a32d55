--------------------------- MODULE MCReplication ---------------------------
(* Instances of Replication for TLC. *)
EXTENDS Replication, TLC

MCSymmetry == Permutations(Key)
=============================================================================
