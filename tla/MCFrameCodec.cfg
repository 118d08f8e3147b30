SPECIFICATION Spec
CONSTANTS
  m1 = m1
  m2 = m2
  NoTag = NoTag
  Mac <- MCMac
  WireInputs <- MCWireInputs
  BuiltFrames <- MCBuiltFrames
INVARIANTS
  BytesRoundTrip
  FrameRoundTrip
  WireLenIsExact
