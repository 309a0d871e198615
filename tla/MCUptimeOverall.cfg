SPECIFICATION UptimeSpec
CONSTANTS
  Groups <- EightComponents
  Leftovers = {}
  UptimeCore <- EightComponents
  ChecksOf <- EightCountedOf
  AlwaysListed <- EightComponents
  ListedOnceSeen = {}
  UptimeDays = 3
  DayRows <- EightRows
  MaxDays = 3
INVARIANT
  OverallHonest
CHECK_DEADLOCK FALSE
