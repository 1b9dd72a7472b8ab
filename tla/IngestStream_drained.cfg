SPECIFICATION Spec
CONSTANTS
  Ids = {1, 2, 3, 4}
  None = None
  PendingOf <- TwoPurchases
  Drained = TRUE
  MaxFeed = 6
  MaxMods = 1
  MaxCrashes = 2
CHECK_DEADLOCK FALSE
INVARIANT OneEntryPerPurchase
INVARIANT MirrorsProvider
INVARIANT KeyKept
INVARIANT RetryResumes
INVARIANT ContentCurrent
