SPECIFICATION Spec
CONSTANTS
  Members = {m1, m2}
  Amounts = {1}
  Horizon = 1
  MaxDay = 3
  MaxCalls = 3
  MaxFaults = 1
  Overlap = FALSE
SYMMETRY Symmetry
CHECK_DEADLOCK FALSE
INVARIANT StatusIsLatest
INVARIANT ForecastWhole
PROPERTY DismissalStands
PROPERTY CandidateLocked
PROPERTY TakesEffect
