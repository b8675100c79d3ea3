SPECIFICATION ClaudeSpec
CONSTANTS
  opus = opus
  sonnet = sonnet
  Models = {opus, sonnet}
  Turns = {1, 2}
  MaxEntries = 3
  MaxBytes = 4
  MaxAdapted = 2
  call1 = call1
  call2 = call2
  MaxBlocks = 3
  MaxDeltas = 1
  CallIds = {call1, call2}
SYMMETRY Symmetry
CHECK_DEADLOCK FALSE
INVARIANTS
  CacheWithinBudget
  ContinuationFailsClosed
  OneEnd
  EndIsWhole
  ItemsKeepTheirPlace
