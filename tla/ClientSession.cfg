SPECIFICATION FairSpec
CONSTANTS
  o1 = o1
  o2 = o2
  o3 = o3
  Owners <- ThreeOwners
  Kinds <- AllKinds
  ParentCancels = TRUE
INVARIANT
  FailedMeansReleased
PROPERTIES
  ImplementsHandle
  CallsReturn
CHECK_DEADLOCK FALSE
