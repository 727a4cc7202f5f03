SPECIFICATION Spec
CONSTANTS
  ProtocolVers = "IETF_RSVP"
  MplsLinux = TRUE
  PathSetupTimeout = 0
  RefreshInterval = 1
  Creators <- Anyone
  NetTypes <- Acting
  RtadValues <- AllFlags
  UpstreamLabels <- NoUpstream
  ResvLabels <- ALabel
  Lacking <- AllObjects
  AckRequested = FALSE
  Keys <- TwoKeys
  Translator = FALSE
  LabelIdRange = 2
  MaxSurplus = 1
INVARIANTS
  TypeOK
  MutualExclusion
  AccessNeverLost
  ForwardingMatchesUp
  RouteGoneOnceDestroyed
  RefreshOnlyWhileUp
PROPERTIES
  OutgoingStaysDown
  EveryTeardownReported
