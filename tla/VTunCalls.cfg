SPECIFICATION FairSpec
CONSTANTS
  p1 = p1
  p2 = p2
  r1 = r1
  i1 = i1
  i2 = i2
  None = None
  Pings <- TwoPings
  Requests <- OneRequest
  Idents <- TwoIdents
  SeqMod = 2
INVARIANTS
  AnswerIsOwn
  ReturnedHoldsNothing
PROPERTY
  CallsReturn
CHECK_DEADLOCK FALSE
