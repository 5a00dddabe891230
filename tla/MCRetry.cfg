SPECIFICATION FairRetrySpec
CONSTANTS
  FailNum = 1
  FailDen = 2
  MinObservations = 1
  WindowDuration = 1
  WindowSize = 1
  OpenMin = 1
  OpenMax = 1
  HalfOpenProbes = 1
  Upstreams = {u1, u2}
  Attempts <- MCAttempts
  NoUpstream = NoUpstream
  Kinds = {"http", "websocket"}
  MayCancel = TRUE
  Requests = {r1}
  MaxAttempts = 3
  RetryOn = {502, 503}
INVARIANTS
  NothingLeftBehind
  RetriesElsewhere
  AnswerNotAborted
  InFlightBalanced
  NoTripWithoutFault
PROPERTY EveryRequestAnswered
