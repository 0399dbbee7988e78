---------------------------- MODULE MCCompaction ----------------------------
(* Instances of Compaction for TLC. *)
EXTENDS Compaction, TLC

CONSTANTS p1, p2
Procs == Permutations({p1, p2})
=============================================================================
