SPECIFICATION Spec
CONSTANTS
  PerDay = 3
  Margin = 2
  Handover = 4
  Retention = 1
  MaxCycle = 5
  Met <- MCMet
  Explained <- MCExplained
INVARIANT DaysSettle
CHECK_DEADLOCK FALSE
