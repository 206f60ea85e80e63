SPECIFICATION FairSpec
CONSTANTS
  t1 = t1
  t2 = t2
  Threads <- TwoThreads
  Limit = 2
  MaxCalls = 2
INVARIANTS
  KeepsLast
  RealTimeOrder
PROPERTY
  ScreenCatchesUp
CHECK_DEADLOCK FALSE
