CONSTANTS
  bot = bot
  image = image
  database = database
  shard0 = shard0
  shard1 = shard1
  Core = {bot}
  Optional = {image}
  FromReadiness = {database}
  Shards = {shard0, shard1}
  Bodies <- TwoBodies
  ShardLists <- TwoLists
  Sent <- TwoSent
  Fresh = 0
  ReplayWindow = 1
  Skew = 0
  Stale = 1
  Recent = 1
  MaxTime = 2
  MaxCycles = 2
SPECIFICATION Spec
PROPERTY
  PushedReportUsed
CHECK_DEADLOCK FALSE
