SPECIFICATION PcieSpec
CONSTANTS
  e1 = e1
  p1 = p1
  p3 = p3
  NoTag = NoTag
  RcOps <- MemRcOps
  EpOps <- MemEpOps
INVARIANTS
  AssertionsHold
  MemoryIsExact
  CompletionsAreAligned
  EnumerationIsSound
  PacketsReachOwner
  CapabilitiesFound
  WriteReadsBack
CHECK_DEADLOCK FALSE
