SPECIFICATION HSpec
CONSTANTS
  p1 = p1
  p2 = p2
  p3 = p3
  h1 = h1
  h2 = h2
  group = group
  all = all
  probe = probe
  NoTag = NoTag
  NoVlan = NoVlan
  PortId <- MCPortId
  Mac <- MCMac
  GroupMac <- MCGroupMac
  BROADCAST = all
  ProbeSrc = probe
  Modes <- MCModes
  Frames <- MCFrames
  ProbeIds <- MCProbeIds
  MaxAge = 1
  CounterModulus = 1
SYMMETRY Symmetry
VIEW Decisive
INVARIANTS
  TypeOK
  RoutesValid
  NoGroupRoutes
  VlanIsolation
  PeerReadsSameFrame
  NoBlackHole
PROPERTY ImplementsFabric
