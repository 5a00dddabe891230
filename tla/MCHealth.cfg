SPECIFICATION FairHealthSpec
CONSTANTS
  Probes = {p1, p2}
  MaxMonitors = 2
  HealthyThreshold = 2
  UnhealthyThreshold = 1
INVARIANTS RestoredByRun
  
