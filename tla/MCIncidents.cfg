CONSTANTS
  bot = bot
  Services <- MCServices
  StreakWindow = 2
  NoDataClose = 2
  Recent = 3
  Retention = 4
  Day = 3
  MaxTime = 6
SPECIFICATION Spec
INVARIANTS
  IncidentsInSequence
  OutagesRecorded
  IncidentsHonest
  OpenRestsOnEvidence
PROPERTY ImplementsTable
CHECK_DEADLOCK FALSE
