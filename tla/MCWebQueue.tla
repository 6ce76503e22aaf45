------------------------------ MODULE MCWebQueue ------------------------------
(* Instances of the web queue: which tasks share a fingerprint.            *)
EXTENDS WebQueue

CONSTANTS t1, t2, p1

Alike == [t \in Tasks |-> p1]
=============================================================================
