CONSTANTS
  well = well
  outage = outage
  bot = bot
  NoView = NoView
  Views <- BothViews
  Outages <- TheOutage
  Services = {bot}
  Threshold = 1
  Cooldown = 2
  MaxTime = 3
  MaxMessages = 4
  MaxRounds = 4
  MaxIncidents = 2
  Back = 1
SPECIFICATION Spec
INVARIANTS
  BoardTells
  ChannelKept
  RungOnce
  RecoveriesInTurn
PROPERTY
  OpenIsAlarmed
CHECK_DEADLOCK FALSE
