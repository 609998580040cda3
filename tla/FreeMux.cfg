CONSTANTS
  App = {1, 2}
  Prio = {0}
  QueueSize <- MCQueueSize
  QueueDepth = 4
  FindMin = FALSE
  Credits = 2
  InDepth = 8
  OutDepth = 16
SPECIFICATION Spec
INVARIANTS
  EveryDropIsFreed
