CONSTANTS
  FailNum = 1
  FailDen = 2
  MinObservations = 2
  WindowDuration = 2
  WindowSize = 3
  OpenMin = 1
  OpenMax = 3
  HalfOpenProbes = 2
  MaxHistory = 5
SPECIFICATION Spec
INVARIANTS PhasesStartClean WindowIsTailOfHistory
PROPERTY ImplementsPolicy
