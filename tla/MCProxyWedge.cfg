SPECIFICATION FairProxySpec
CONSTANTS
  FailNum = 1
  FailDen = 2
  MinObservations = 1
  WindowDuration = 1
  WindowSize = 1
  OpenMin = 1
  OpenMax = 2
  HalfOpenProbes = 1
  Upstreams = {u1}
  Attempts = {a1, a2}
  NoUpstream = NoUpstream
  Kinds = {"http"}
  MayCancel = TRUE
PROPERTY HalfOpenResolves
