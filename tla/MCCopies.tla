------------------------------ MODULE MCCopies ------------------------------
(* Copies of data, for TLC.  A behaviour is about one of three parts, its      *)
(* subject: a replica of the primary (Replication); pages in the tiers of the  *)
(* GPU pool (TieredPool); the ranges an allocator hands out (RangeAlloc).     *)
(* The variables of the others stand still.                                  *)
EXTENDS RangeAlloc, Sequences, TLC

CONSTANTS Key, FlushAll, MaxTs, MaxGroup, MaxLinks, QueueLimit, SnapBatch, SocketLimit,
          Pages, Gpus, Sizes, DramCap, VramCap, SpillCap, RingCap, Budget

VARIABLES subject,
          log, hooked, visible, active, hub, srv, queue, snap, todo, wire, cut,
          ack, acked, link, tries, copy, load, applied, clean,
          page, made, cache, holds, inflight, copies, ring, dram, spill, membrane, sweep, outrun, exposed

copying == <<log, hooked, visible, active, hub, srv, queue, snap, todo, wire, cut,
             ack, acked, link, tries, copy, load, applied, clean>>
tiering == <<page, made, cache, holds, inflight, copies, ring, dram, spill, membrane, sweep, outrun, exposed>>

R == INSTANCE Replication
ASSUME CopyAssumption == R!ReplicationAssumption

P == INSTANCE TieredPool
ASSUME SizesAreNumbers == Sizes \subseteq Nat

\* The pool is switched off where it is not the subject.
NoPool ==
  /\ page = 0 /\ made = 0 /\ cache = 0 /\ holds = 0 /\ inflight = 0 /\ copies = 0
  /\ ring = 0 /\ dram = 0 /\ spill = 0 /\ membrane = 0 /\ sweep = 0
  /\ outrun = 0 /\ exposed = 0

\* A third entry is made only before a second connection.
ThirdIsEarly == tries > 1 /\ log' # log => Len(log') <= 2

MCInit ==
  /\ Init /\ R!Init
  /\ \/ subject \in {"replica", "ranges"} /\ NoPool
     \/ subject = "pool" /\ P!Init
MCNext ==
  /\ UNCHANGED subject
  /\ \/ subject = "replica" /\ R!Next /\ ThirdIsEarly /\ UNCHANGED <<vars, tiering>>
     \/ subject = "ranges" /\ Next /\ UNCHANGED <<copying, tiering>>
     \/ subject = "pool" /\ P!Next /\ UNCHANGED <<vars, copying>>
MCSpec == MCInit /\ [][MCNext]_<<subject, vars, copying, tiering>>

MCSymmetry == Permutations(Key)

\* What Replication and TieredPool promise: see there.
CleanSyncConverges == R!CleanSyncConverges
CopyMovesForward == R!CopyMovesForward
BlocksHaveOneOwner == subject = "pool" => P!BlocksHaveOneOwner
AuthorityIsCurrent == subject = "pool" => P!AuthorityIsCurrent
=============================================================================
