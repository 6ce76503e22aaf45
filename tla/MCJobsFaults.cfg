SPECIFICATION Spec
CONSTANTS
  j1 = j1
  j2 = j2
  r1 = r1
  r2 = r2
  Jobs = {j1, j2}
  Source <- AllPlatform
  Count <- TwoEach
  Unit <- OneEach
  Video = {}
  Batch = {j1}
  Fingerprint <- Same
  Runners = {r1, r2}
  Handler = Handler
  NoJob = NoJob
  NoRunner = NoRunner
  Credits = 4
  MaxTransient = 0
  Cancelable = {j2}
  MaxCrashes = 0
  MaxFaults = 1
INVARIANTS
  KeptCoversDelivered
  ChargeHasJob
  OneRunner
PROPERTIES
  ActiveJobsDiffer
