----------------------------- MODULE MCUserFiles -----------------------------
(* The instances of UserFiles that TLC checks. *)
EXTENDS UserFiles, TLC

CONSTANTS r1, r2, s1, s2, p1, p2

Symmetry == Permutations(Records) \cup Permutations(Shares) \cup Permutations(Pictures)
==============================================================================
