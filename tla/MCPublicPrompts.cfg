SPECIFICATION PSpec
\* The service is quiescent once the bounded number of requests is done.
CHECK_DEADLOCK FALSE
CONSTANTS
  a = a
  b = b
  s = s
  Users = {a, b}
  Shares = {s}
  Keys = {a, b, s}
  MaxCalls = 6
  MaxRequests = 3
INVARIANTS
  ListedIsWhole
  ReactionsKept
  MapIsLive
PROPERTIES
  Implements
  EveryRequestEnds
