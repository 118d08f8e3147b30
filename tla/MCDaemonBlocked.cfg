SPECIFICATION DaemonSpec
CONSTANTS
  a = a
  b = b
  h1 = h1
  h2 = h2
  all = all
  probe = probe
  NoTag = NoTag
  NoVlan = NoVlan
  Down = Down
  NoPort = NoPort
  Name <- MCName
  Topologies <- MCTopologies
  Received <- MCReceived
  ReloadPath = TRUE
  IdLimit = 3
  OUTBOUND_QUEUE_DEPTH = 1
  MaxEvents = 2
  PortId <- MCPortId
  Mac <- MCMac
  GroupMac <- MCGroupMac
  BROADCAST = all
  ProbeSrc = probe
  Modes <- MCModes
  Frames <- MCFrames
  ProbeIds <- MCProbeIds
  MaxAge = 1
  CounterModulus = 1
PROPERTY BlockedPortIsSilent
