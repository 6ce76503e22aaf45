SPECIFICATION FairSpec
CONSTANTS
  j1 = j1
  j2 = j2
  r1 = r1
  r2 = r2
  Jobs = {j1, j2}
  Source <- PlatformAndLegacy
  Count <- TwoAndOne
  Unit <- OneEach
  Video = {j2}
  Batch = {}
  Fingerprint <- Distinct
  Runners = {r1}
  Handler = Handler
  NoJob = NoJob
  NoRunner = NoRunner
  Credits = 3
  MaxTransient = 0
  Cancelable = {j1, j2}
  MaxCrashes = 0
  MaxFaults = 0
INVARIANTS
  NoLostWakeup
  CanceledNeverSent
  FailureRefunded
  BalanceAccounted
PROPERTIES
  EveryJobEnds
