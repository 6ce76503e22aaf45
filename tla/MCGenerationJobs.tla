--------------------------- MODULE MCGenerationJobs ---------------------------
(* The instances of GenerationJobs that TLC checks. *)
EXTENDS GenerationJobs, TLC

CONSTANTS j1, j2, r1, r2

(* Who pays: a platform job and one on the service's own key, or platform jobs. *)
PlatformAndLegacy == (j1 :> "platform") @@ (j2 :> "legacy-env")
AllPlatform == [j \in Jobs |-> "platform"]

OneEach == [j \in Jobs |-> 1]
TwoAndOne == (j1 :> 2) @@ (j2 :> 1)
TwoEach == [j \in Jobs |-> 2]

Distinct == [j \in Jobs |-> j]
Same == [j \in Jobs |-> "same"]
===============================================================================
