SPECIFICATION Spec
CONSTANTS
  Providers <- MCProviders
  ReservedPrefixes = {"claude-o5"}
  ReservedWords = {"best"}
  Registry <- MCRegistry
  Aliases <- MCAliases
  ModelNames <- MCModelNames
  MaxBody = 4
  Window = 2
  Sniff = 1
  MaxRequests = 2
INVARIANTS
  UploadIsAccountedFor
PROPERTIES
  RepliesWhenClean
  EveryRequestEnds
CHECK_DEADLOCK FALSE
