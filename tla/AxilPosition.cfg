SPECIFICATION LiteSpec
CONSTANTS
  Queues <- OneQueue
  Size = 2
  EqSize = 4
  PtrMod = 4
  EqMod = 8
  RefillMin = 1
  max_count = 1
  Closing = TRUE
  MaxRx = 3
  MaxTx = 5
  Bw = 2
  RamSize = 12
  Pauses <- MCPauses
  AxiCommands <- MCAxiCommands
  MaxAxiCommands = 2
  MaxBurstLen = 2
  AxiPage = 8
  AxiIds = 2
  AxilCommands <- MCAxilCommands
  MaxAxilCommands = 2
  Latency = 1
  LanesM = 2
  AxisFrames <- MCAxisFrames
  MaxAxisFrames = 3
INVARIANT
  AxilWritesLand
CHECK_DEADLOCK FALSE
