---------------------------- MODULE MCJobFollower ----------------------------
(* The instances of JobFollower that TLC checks.                              *)
EXTENDS JobFollower, TLC

CallSymmetry == Permutations(Calls)
===============================================================================
