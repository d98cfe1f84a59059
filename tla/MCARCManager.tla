----------------------------- MODULE MCARCManager -----------------------------
(* Model-checking instance of ARCManager. *)
EXTENDS ARCManager

CONSTANTS k1, k2, k3, k4, j1, j2

MCKeys == {k1, k2, k3, k4}
MCJobIds == {j1, j2}
MCSymmetry == Permutations(MCKeys) \cup Permutations(MCJobIds)
=============================================================================
