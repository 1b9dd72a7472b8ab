SPECIFICATION Spec
CONSTANTS
  Attempts = {a1, a2}
  Items = {i1}
  Links = {l1, l2}
  Unlinks = {d1, d2}
  Reapers = {w1}
  None = None
  Relinks = TRUE
  MaxReaps = 1
  DailyLimit = 1
  MaxRemovals = 2
  MaxFaults = 1
SYMMETRY Symmetry
CHECK_DEADLOCK FALSE
INVARIANT NeverStranded
INVARIANT DisconnectedIsGone
INVARIANT ActiveItemLives
INVARIANT MovedOnce
