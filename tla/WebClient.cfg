SPECIFICATION FairSpec
CONSTANTS
  k1 = k1
  k2 = k2
  k3 = k3
  c1 = c1
  c2 = c2
  Calls <- ThreeCalls
  Conns <- TwoConns
  None = None
INVARIANTS
  NoConnLost
  PageTellsTruth
  ResultIsNewest
PROPERTY
  DisconnectEnds
CHECK_DEADLOCK FALSE
