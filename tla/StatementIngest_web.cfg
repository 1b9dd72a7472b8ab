SPECIFICATION Spec
CONSTANTS
  Uploads = {u1}
  Contents = {c1, c2}
  Unreadable = {c2}
  Callers = {"web"}
  Jobs = {w1}
  Members = {}
  Bodies = {}
  Tokens = {}
  None = None
  MaxEnqueues = 1
  MaxAttempts = 2
  MaxFaults = 1
CHECK_DEADLOCK FALSE
INVARIANT UploadAccepted
