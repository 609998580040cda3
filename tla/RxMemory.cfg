SPECIFICATION Spec
CONSTANTS
  CellNum = 13
  CellDepth = 16
  PortDepth = 4
VIEW CellsByPlace
INVARIANTS
  AllocationSucceeds
  CounterIsExact
  CellsConserved
  DroppedReturns
