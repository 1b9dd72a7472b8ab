SPECIFICATION Spec
CONSTANTS
  Runs = {r1}
  Txns = {t1}
  None = None
  PageSize = 1
  MaxPages = 2
  MaxRestarts = 1
  MaxAttempts = 1
  Ops = {"add", "rem"}
  Stalls = TRUE
  MaxFeed = 2
  MaxSends = 1
  MaxFaults = 1
  MaxOutages = 1
SYMMETRY Symmetry
CHECK_DEADLOCK FALSE
INVARIANT GenerationsOrdered
PROPERTY FencedWhileInactive
