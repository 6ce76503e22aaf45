--------------------------- MODULE MCStudioAccounts ---------------------------
(* The instance of StudioAccounts that TLC checks. *)
EXTENDS StudioAccounts, TLC

CONSTANTS r1, r2, r3, t1, t2

Symmetry == Permutations(Requests) \cup Permutations(Tokens)
===============================================================================
