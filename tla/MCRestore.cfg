SPECIFICATION FairSpec
CONSTANTS
  old = old
  new = new
  N = 3
  Contents = {old, new}
  None = None
  Torn = Torn
  NoSnapshot = NoSnapshot
PROPERTIES
  Atomic
  RecoveryKeepsData
  AccessEnds
