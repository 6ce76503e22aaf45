------------------------------- MODULE MCGoJobs -------------------------------
(* The instances of GoJobs that TLC checks.                                   *)
EXTENDS GoJobs, TLC

(* Requests are told apart only by what they do, jobs only by their records.  *)
CallSymmetry == Permutations(Calls)
Symmetry == Permutations(Calls) \cup Permutations(Jobs)
===============================================================================
