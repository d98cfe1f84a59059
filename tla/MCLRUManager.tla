----------------------------- MODULE MCLRUManager -----------------------------
(* Model-checking instance of LRUManager. *)
EXTENDS LRUManager

CONSTANTS k1, k2, k3, k4, j1, j2, j3

MCKeys == {k1, k2, k3, k4}
MCJobIds == {j1, j2, j3}
MCSymmetry == Permutations(MCKeys) \cup Permutations(MCJobIds)
=============================================================================
