CONSTANTS
  App = {0, 1, 2}
  Prio = {0, 1}
  NumPifo = 4
  Core = {0, 1}
  Enabled = {0, 1}
  Conf <- MCConf
  Width = 4
  rank_upbound = 2
  MaxOut = 2
  Size = 2
  PtrMod = 4
  PoolSize = 5
  RefillMin = 1
  TailBatch = 1
  RingSize = 2
  RxBatch = 2
  TxBatch = 1
  Backlog = 0
SPECIFICATION PartsSpec
INVARIANTS
  LoadIsExact
  BuffersAreCounted
PROPERTIES
  ArrayIsList
