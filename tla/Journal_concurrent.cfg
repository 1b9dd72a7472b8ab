SPECIFICATION Spec
CONSTANTS
  Procs = {p1, p2}
  p1 = p1
  p2 = p2
  Statuses = {"posted"}
  Dates = {1, 2}
  Amounts = {5, 7}
  MaxBatches = 5
  MaxLocks = 1
SYMMETRY Sessions
CHECK_DEADLOCK FALSE
INVARIANT OneLive
INVARIANT NetIsLive
INVARIANT SourceAmount
INVARIANT SplitKept
INVARIANT ClosedFigureStands
PROPERTY RowFollowsJournal
