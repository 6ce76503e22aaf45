SPECIFICATION Spec
CONSTANTS
  j1 = j1
  j2 = j2
  r1 = r1
  r2 = r2
  Jobs = {j1}
  Source <- AllPlatform
  Count <- OneEach
  Unit <- OneEach
  Video = {j1}
  Batch = {}
  Fingerprint <- Distinct
  Runners = {r1, r2}
  Handler = Handler
  NoJob = NoJob
  NoRunner = NoRunner
  Credits = 1
  MaxTransient = 1
  Cancelable = {j1}
  MaxCrashes = 1
  MaxFaults = 0
INVARIANTS
  RequestsWithinOrder
  SuccessPaid
  BillTruthful
