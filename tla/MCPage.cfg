SPECIFICATION PageSpec
CONSTANTS
  Services <- MCServices
  Catalogue <- MCServices
  Optional <- MCOptional
  Advisory <- MCAdvisory
  Critical <- MCCritical
  Components <- MCComponents
  ComponentOf <- MCComponentOf
  Core <- MCCore
  ThirdParty <- MCThirdParty
  StaleAfter <- MCStaleAfter
  Recent <- MCRecent
  EventServices = {s1, s2}
  OpensBack = 1
  MergeGap = 1
  MinDuration = 2
  Window = 3
  TableIds = {1, 2, 3}
  MaxTexts = 1
  Horizon = 4
  Groups <- FigureComponents
  Leftovers = {"other"}
  UptimeCore = {"bot", "images"}
  ChecksOf <- FigureChecks
  AlwaysListed <- FigureAlways
  ListedOnceSeen <- FigureOptional
  UptimeDays = 2
  DayRows <- FigureRows
  MaxDays = 3
SYMMETRY Symmetry
INVARIANTS
  HeadlineAgrees
  AllGoodIsMeasured
  StoppedIsNoData
  EventsHangTogether
  ExplanationsKept
  BarsMatchFigures
CHECK_DEADLOCK FALSE
