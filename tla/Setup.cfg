SPECIFICATION Spec
CONSTANTS
  Ports = {1, 2}
  DefaultPort = 1
  HomeUrls <- MCHomeUrls
  LoopbackUrls = {Wire}
  ForeignUrls = {Foreign}
  UnsafeUrls = {Unsafe}
  Subscription = Subscription
  Api = Api
  Wire = Wire
  Foreign = Foreign
  Unsafe = Unsafe
  None = None
  Broken = Broken
  Refused = Refused
  UserFiles <- MCUserFiles
  ProjectFiles <- MCProjectFiles
  MaxRuns = 2
  MaxEdits = 1
INVARIANTS
  UpstreamSurvives
  SetupIsServed
PROPERTIES
  StartsAsBefore
  PointerComesLast
CHECK_DEADLOCK FALSE
