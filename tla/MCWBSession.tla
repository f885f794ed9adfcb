----------------------------- MODULE MCWBSession -----------------------------
(* Instances of WBSession for TLC.                                         *)
EXTENDS WBSession, TLC

Symmetry == Permutations(Procs)

=============================================================================
