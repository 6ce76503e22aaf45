-------------------------- MODULE MCPlatformProviders --------------------------
(* The instance of PlatformProviders that TLC checks. *)
EXTENDS PlatformProviders
===============================================================================
