SPECIFICATION Spec
CONSTANTS
  text = text
  call = call
  other = other
  earlier = earlier
  r0 = r0
  r1 = r1
  r2 = r2
  Messages = {text}
  Calls = {call, other}
  MaxBlocks = 2
  Parts = 2
  Repeated = {call}
  Thoughts <- MCThoughts
  EarlierCall = earlier
  EarlierThought = r0
  Waiting = 1
  Weight <- MCWeight
  MaxEntries = 2
  MaxBytes = 2
CHECK_DEADLOCK FALSE
INVARIANTS
  TurnsEndTruly
  ReasoningGoesAlong
