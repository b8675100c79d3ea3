SPECIFICATION Spec
CONSTANTS
  s1 = s1
  s2 = s2
  s3 = s3
  Sockets = {s1, s2, s3}
  Limit = 1
CHECK_DEADLOCK FALSE
INVARIANTS
  BoundHolds
  NoLeakedSlot
  NoIdleSlot
PROPERTIES
  WaitersServed
  ImplementsSlots
