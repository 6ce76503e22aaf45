------------------------ MODULE MCRestoreTransaction ------------------------
(* The instance of RestoreTransaction that TLC checks. *)
EXTENDS RestoreTransaction

CONSTANTS old, new
=============================================================================
