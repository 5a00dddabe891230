SPECIFICATION FairL7Spec
CONSTANTS
  FailNum = 1
  FailDen = 2
  MinObservations = 1
  WindowDuration = 1
  WindowSize = 1
  OpenMin = 1
  OpenMax = 2
  HalfOpenProbes = 2
  Upstreams = {u1}
  Attempts = {a1, a2, a3}
  NoUpstream = NoUpstream
  Kinds = {"http", "websocket"}
  MayCancel = FALSE
INVARIANTS
  HalfOpenAdmission
  NoSlotLost
PROPERTIES
  OpenEnds
  
