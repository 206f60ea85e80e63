SPECIFICATION FairSpec
CONSTANTS
  c1 = c1
  c2 = c2
  Closers <- TwoClosers
  Cap = 2
  Sizes = {2}
  Rooms = {1}
  BatchMax = 2
  MaxMessages = 2
  MaxFailures = 1
INVARIANTS
  ReadsInOrder
  WriteTellsTruth
PROPERTY
  CallsReturn
CHECK_DEADLOCK FALSE
