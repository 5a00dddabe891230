SPECIFICATION PickSpec
CONSTANTS
  N = 3
  Pickers = {p1, p2}
  Weights <- MCWeights
  Ring <- MCRing
  Keys <- MCKeys
  EpsNum = 1
  EpsDen = 4
  CounterPeriod = 6
  MaxLatency = 2
  MaxLoad = 1
SYMMETRY Interchangeable
INVARIANTS
  PickTypeOK
  
  EveryoneGetsTheirShare
  CreditIsConserved
