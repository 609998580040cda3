SPECIFICATION DevicesSpec
CONSTANTS
  dma1 = dma1
  dma2 = dma2
  NoTag = NoTag
  Ports <- MCPorts
  Traffic <- MCTraffic
  MaxFrames = 2
INVARIANTS
  StreamsAreLossless
  NonPostedPaid
  CompleterOrder
  OneOutcome
  DmaIsExact
  HostIsServed
CHECK_DEADLOCK FALSE
