--------------------------- MODULE MCPublicPrompts ---------------------------
(* The instance of PublicPrompts that TLC checks. *)
EXTENDS PublicPrompts

CONSTANTS a, b, s
=============================================================================
