CONSTANTS
  App = {1, 2}
  Prio = {0}
  QueueSize <- MCQueueSize
  QueueDepth = 4
  FindMin = TRUE
  Credits = 1
  InDepth = 8
  OutDepth = 16
  Watched = 1
SPECIFICATION FairSpec
PROPERTIES
  StoredIsServed
