SPECIFICATION VpnFairSpec
CONSTANTS
  Main = Main
  Nobody = Nobody
  j1 = j1
  j2 = j2
  Jobs <- TwoJobs
INVARIANTS
  VpnTypeOK
  TunnelsInOrder
PROPERTIES
  ErrorStays
  ScreenSettles
CHECK_DEADLOCK FALSE
