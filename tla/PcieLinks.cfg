SPECIFICATION LinksSpec
CONSTANTS
  Packet = {a, b}
  MaxSent = 4
  e1 = e1
  e2 = e2
  p1 = p1
  p2 = p2
  NoTag = NoTag
INVARIANT
  TagsAreSound
PROPERTIES
  OperationsEnd
  ImplementsLink
  IfDelivery
  EverythingArrives
CHECK_DEADLOCK FALSE
