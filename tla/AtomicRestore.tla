----------------------------- MODULE AtomicRestore -----------------------------
(***************************************************************************)
(* What restoring a personal backup promises (userBackup.js,               *)
(* restoreTransaction.js): the user's data changes by a save of one entry  *)
(* or becomes a whole snapshot in one step, whatever fails in between.     *)
(***************************************************************************)
EXTENDS Naturals

CONSTANTS
  Entries,     \* the entries that a personal backup owns
  Contents,    \* what an entry may hold
  None,        \* the entry does not exist
  NoSnapshot

Snapshots == [Entries -> Contents \cup {None}]

VARIABLES
  data,        \* what an access to the user's data sees
  snapshot     \* the snapshot of the restore in progress

Init ==
  /\ data \in Snapshots
  /\ snapshot = NoSnapshot

(* A request changes one entry; no restore is in progress then. *)
Save(e) ==
  /\ snapshot = NoSnapshot
  /\ \E c \in Contents \cup {None} : data' = [data EXCEPT ![e] = c]
  /\ UNCHANGED snapshot

Begin ==
  /\ snapshot = NoSnapshot
  /\ snapshot' \in Snapshots
  /\ UNCHANGED data

(* A failed or interrupted restore leaves the data alone. *)
Abandon ==
  /\ snapshot # NoSnapshot
  /\ snapshot' = NoSnapshot
  /\ UNCHANGED data

Commit ==
  /\ snapshot # NoSnapshot
  /\ data' = snapshot
  /\ snapshot' = NoSnapshot

Next == (\E e \in Entries : Save(e)) \/ Begin \/ Abandon \/ Commit

Spec == Init /\ [][Next]_<<data, snapshot>>
===============================================================================
