SPECIFICATION Spec
CONSTANTS
  c1 = c1
  c2 = c2
  Callers = {c1, c2}
  MaxTokens = 3
  Rotates = TRUE
INVARIANTS
  SingleFlight
  DiskTokenLive
  SuccessIsCached
PROPERTIES
  RotatedTokenKept
  EveryCallReturns
