------------------------- MODULE MCSnapshotPublication -------------------------
(* SnapshotPublication on a small instance for TLC.                        *)
EXTENDS SnapshotPublication, TLC

Symmetry == Permutations(CPUs) \cup Permutations(Procs)
================================================================================
