SPECIFICATION FairSpec
CONSTANTS
  Vm = Vm
  Clear = Clear
  None = None
  s1 = s1
  s2 = s2
  s3 = s3
  Callers <- TwoThreads
  Sessions <- ThreeSessions
INVARIANTS
  TypeOK
  NoSessionLost
  OneSession
  ScreenTellsTruth
  ClearedReleases
PROPERTY
  CallsReturn
CHECK_DEADLOCK FALSE
