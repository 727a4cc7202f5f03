SPECIFICATION Spec
CONSTANTS
  ProtocolVers = "OIFUNI20"
  MplsLinux = TRUE
  PathSetupTimeout = 1
  RefreshInterval = 1
  Creators <- Anyone
  NetTypes <- AllTypes
  RtadValues <- Reflect
  UpstreamLabels <- AnUpstream
  ResvLabels <- ALabel
  Lacking <- AllObjects
  AckRequested = TRUE
  Keys <- TwoKeys
  Translator = TRUE
  LabelIdRange = 2
  MaxSurplus = 0
PROPERTIES
  StepsAsLifecycle
