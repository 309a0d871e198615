CONSTANTS
  v1 = v1
  v2 = v2
  Vantages <- OneVantage
  Home = Home
  Attempts = 2
  Fresh = 1
  ReplayWindow = 1
  Skew = 0
  MaxPoints = 1
  Controls = TRUE
  MaxTime = 2
  MaxCycles = 1
SPECIFICATION Spec
PROPERTY
  OfflineIsNoOutage
CHECK_DEADLOCK FALSE
