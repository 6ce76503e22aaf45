SPECIFICATION FFairSpec
CONSTANTS
  Jobs = {j1}
  NoJob = NoJob
  Calls = {c1, c2}
  NoCall = NoCall
  Modes = {"image"}
  Fingerprints = {""}
  JobLimit = 1
  MaxRequests = 2
  MaxRestarts = 1
  MaxWriteFailures = 0
  MaxProgress = 4
  ReplayCapacity = 8
  SubscriberBuffer = 1
  Subscribers = {tab}
  Tab = tab
  WireCapacity = 2
  Attempts = 2
INVARIANTS CaughtUpKnows SettledShownIsStored
PROPERTIES FollowingEnds ClaimedJobsSettle
\* The server is quiescent once the bounded number of requests is served.
CHECK_DEADLOCK FALSE
