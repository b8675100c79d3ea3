SPECIFICATION BridgeSpec
CONSTANTS
  a = a
  b = b
  Streams = {a, b}
  Requests = {1, 2, 3}
  MaxUpstream = 2
CHECK_DEADLOCK FALSE
INVARIANTS
  UpstreamIsRelayed
  NamesAreLive
  NobodyRunsUntold
PROPERTIES
  GenerationsEnd
