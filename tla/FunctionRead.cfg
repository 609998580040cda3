SPECIFICATION MemSpec
CONSTANTS
  e1 = e1
  p1 = p1
  p3 = p3
  NoTag = NoTag
  RcOps <- NoOps
  EpOps <- LongEpReads
INVARIANT
  AssertionsHold
CHECK_DEADLOCK FALSE
