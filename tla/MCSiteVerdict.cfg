CONSTANTS
  v1 = v1
  v2 = v2
  Vantages <- TwoVantages
  Home = Home
  Attempts = 2
  Fresh = 0
  ReplayWindow = 1
  Skew = 0
  MaxPoints = 2
  Controls = TRUE
  MaxTime = 2
  MaxCycles = 1
SYMMETRY VantageSymmetry
SPECIFICATION Spec
INVARIANTS
  OutageIsReal
  OutageIsSeen
PROPERTY
  OwnFaultIsNoOutage
CHECK_DEADLOCK FALSE
