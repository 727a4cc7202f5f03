SPECIFICATION FairSpec
CONSTANTS
  ProtocolVers = "IETF_RSVP"
  MplsLinux = FALSE
  PathSetupTimeout = 1
  RefreshInterval = 0
  Creators <- Client
  NetTypes <- Outgoing
  RtadValues <- NoFlags
  UpstreamLabels <- NoUpstream
  ResvLabels <- ALabel
  Lacking <- Nothing
  AckRequested = FALSE
  Keys <- TwoKeys
  Translator = FALSE
  LabelIdRange = 2
  MaxSurplus = 0
PROPERTIES
  RefreshGoesOn
