SPECIFICATION SegmentSpec
CONSTANTS
  a = a
  b = b
  h1 = h1
  all = all
  probe = probe
  NoTag = NoTag
  NoVlan = NoVlan
  Down = Down
  NoPort = NoPort
  Name <- MCName
  Topologies <- MCTopologies
  Received <- MCReceived
  HostFrames <- DataOnly
  MaxHostFrames = 1
  WireDepth = 1
  ReloadPath = FALSE
  IdLimit = 2
  OUTBOUND_QUEUE_DEPTH = 1
  MaxEvents = 1
  PortId <- MCPortId
  Mac <- MCMac
  GroupMac <- MCGroupMac
  BROADCAST = all
  ProbeSrc = probe
  Modes <- MCModes
  Frames <- MCFrames
  ProbeIds <- OneId
  MaxAge = 1
  CounterModulus = 1
PROPERTIES
  QueuedProbeBlocks
  BothEndsBlocked
  StormEnds
