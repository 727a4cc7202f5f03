\* The parameters of one path, under each protocol, for every request and PATH.
SPECIFICATION Spec
CONSTANTS
  Protocols <- AllProtocols
  Requests <- SomeRequests
  RouterPaths <- SomePaths
  MaxMessageId = 3
INVARIANTS
  TypeOK
  NoNullRead
  ObjectsFill
  ObjectsInOrder
  NamesPath
  RequestReachesRouter
  RouteReachesRouter
  LabelAgreed
  ReportReadsBack
PROPERTIES
  RefreshIsSamePath
CHECK_DEADLOCK FALSE
