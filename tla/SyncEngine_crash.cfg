SPECIFICATION Spec
CONSTANTS
  Runs = {r1, r2}
  Txns = {t1}
  None = None
  PageSize = 1
  MaxPages = 1
  MaxRestarts = 0
  MaxAttempts = 1
  Ops = {"add", "mod", "rem"}
  Stalls = FALSE
  MaxFeed = 2
  MaxSends = 0
  MaxFaults = 1
  MaxOutages = 0
SYMMETRY Symmetry
CHECK_DEADLOCK FALSE
INVARIANT SignalNotLost
INVARIANT NoGhost
INVARIANT NothingSkipped
