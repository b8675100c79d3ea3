SPECIFICATION ForwardSpec
CONSTANTS
  r1 = r1
  r2 = r2
  Requests = {r1, r2}
  MaxSockets = 1
CHECK_DEADLOCK FALSE
INVARIANTS
  NothingIsHeldUp
PROPERTIES
  OneOutcome
  EveryoneIsAnswered
