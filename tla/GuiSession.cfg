SPECIFICATION FairSpec
CONSTANTS
  a = a
  b = b
  t1 = t1
  t2 = t2
  Sessions <- TwoSessions
  Tasks <- TwoTasks
  None = None
  QueueCap = 4
INVARIANTS
  UiConsistent
  AtMostOneSession
PROPERTIES
  NeverForgetsLive
  ReportsAreShown
  WindowCloses
CHECK_DEADLOCK FALSE
