SPECIFICATION AgingSpec
CONSTANTS
  p1 = p1
  p2 = p2
  h1 = h1
  h2 = h2
  all = all
  probe = probe
  NoTag = NoTag
  NoVlan = NoVlan
  PortId <- MCPortId
  Mac <- MCMac
  GroupMac <- MCGroupMac
  BROADCAST = all
  ProbeSrc = probe
  Modes <- MCModes
  Frames <- MCFrames
  ProbeIds <- MCProbeIds
  MaxAge = 3
  MAC_AGE_SWEEP_INTERVAL = 2
  MaxStall = 2
  CounterModulus = 1024
SYMMETRY Symmetry
VIEW Decisive
INVARIANTS
  AgingTypeOK
  ForgottenInTime
  DashboardShowsDump
PROPERTIES
  KeptWhileHeard
  CountersMoveTogether
