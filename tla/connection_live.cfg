SPECIFICATION FairSpec
CONSTANTS
  ProtocolVers = "IETF_RSVP"
  MplsLinux = FALSE
  PathSetupTimeout = 1
  RefreshInterval = 2
  Creators <- Client
  NetTypes <- Acting
  RtadValues <- NoFlags
  UpstreamLabels <- NoUpstream
  ResvLabels <- ALabel
  Lacking <- Nothing
  AckRequested = FALSE
  Keys <- TwoKeys
  Translator = FALSE
  LabelIdRange = 2
  MaxSurplus = 0
PROPERTIES
  ImplementsLifecycle
  TornThreadExits
  RefreshGoesOn
  ReceiverServed
