SPECIFICATION FairSpec
CONSTANTS
  Uploads = {u1, u2}
  Contents = {c1, c2}
  Unreadable = {c2}
  Callers = {"api"}
  Jobs = {w1}
  Members = {}
  Bodies = {b1}
  Tokens = {}
  None = None
  MaxEnqueues = 1
  MaxAttempts = 2
  MaxFaults = 2
CHECK_DEADLOCK FALSE
PROPERTY EveryDraftRead
