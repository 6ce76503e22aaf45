------------------------------- MODULE FifoLock -------------------------------
(***************************************************************************)
(* The lock that the service relies on: per key, whoever came first holds  *)
(* it and the others wait in the order of their arrival.  GenerationJobs   *)
(* uses this lock, as the sequence `lock', for the jobs file of a user.    *)
(* Arrivals are numbered, so that a line of waiters is a set of numbers    *)
(* and its least element is the holder.                                    *)
(***************************************************************************)
EXTENDS Naturals

CONSTANT Keys

VARIABLES
  line,        \* line[k]: who holds or awaits the lock of k
  arrived      \* how many have arrived so far

Init ==
  /\ line = [k \in Keys |-> {}]
  /\ arrived = 0

Arrive(k) ==
  /\ arrived' = arrived + 1
  /\ line' = [line EXCEPT ![k] = @ \cup {arrived + 1}]

Leave(k, t) ==
  /\ t \in line[k]
  /\ \A u \in line[k] : t <= u
  /\ line' = [line EXCEPT ![k] = @ \ {t}]
  /\ UNCHANGED arrived

Next == \E k \in Keys : Arrive(k) \/ \E t \in line[k] : Leave(k, t)

Spec == Init /\ [][Next]_<<line, arrived>>
===============================================================================
