SPECIFICATION UptimeSpec
CONSTANTS
  Groups <- MCComponents
  Leftovers = {"other"}
  UptimeCore <- MCComponents
  ChecksOf <- MCChecksOf
  AlwaysListed <- MCAlways
  ListedOnceSeen = {}
  UptimeDays = 2
  DayRows <- MCRows
  MaxDays = 3
INVARIANT
  NeverOverstates
CHECK_DEADLOCK FALSE
