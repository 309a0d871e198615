CONSTANTS
  w1 = w1
  w2 = w2
  None = None
  Webhooks <- TwoWebhooks
  Messages = 2
  Interval = 3
  Deadline = 2
  SlowAfter = 1
  PostTimeout = 1
  ReadTimeout = 1
  DeleteTimeout = 1
  Allowance = 2
  Slack = 3
SPECIFICATION LiveSpec
INVARIANT
  DownWasProven
CHECK_DEADLOCK FALSE
