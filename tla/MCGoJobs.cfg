SPECIFICATION Spec
CONSTANTS
  Jobs = {j1, j2, j3}
  NoJob = NoJob
  Calls = {c1, c2, c3}
  NoCall = NoCall
  Modes = {"image","video"}
  Fingerprints = {"a"}
  JobLimit = 2
  MaxRequests = 5
  MaxRestarts = 1
  MaxWriteFailures = 1
  MaxProgress = 3
  ReplayCapacity = 0
  SubscriberBuffer = 1
  Subscribers = {}
INVARIANTS
  DispatchedOnce
  InFlightHasRunner
  RunningIsCancelable
  
PROPERTIES
  TerminalFinal
SYMMETRY Symmetry
\* The server is quiescent once the bounded number of requests is served.
CHECK_DEADLOCK FALSE
