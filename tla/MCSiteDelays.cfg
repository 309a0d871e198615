CONSTANTS
  v1 = v1
  v2 = v2
  Vantages <- OneVantage
  Home = Home
  Attempts = 1
  Fresh = 1
  ReplayWindow = 1
  Skew = 1
  MaxPoints = 1
  Controls = TRUE
  MaxTime = 4
  MaxCycles = 1
SPECIFICATION Spec
INVARIANTS
  TypeOK
  OutageIsReal
  OutageIsSeen
PROPERTY
  OwnFaultIsNoOutage
CHECK_DEADLOCK FALSE
