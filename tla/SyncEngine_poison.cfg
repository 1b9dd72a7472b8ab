SPECIFICATION FairSpec
CONSTANTS
  Runs = {r1}
  Txns = {t1}
  None = None
  PageSize = 2
  MaxPages = 1
  MaxRestarts = 0
  MaxAttempts = 1
  Ops = {"add", "rem"}
  Stalls = FALSE
  MaxFeed = 2
  MaxSends = 0
  MaxFaults = 1
  MaxOutages = 0
CHECK_DEADLOCK FALSE
PROPERTY EveryMessageEnds
