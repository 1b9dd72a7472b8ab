SPECIFICATION Spec
CONSTANTS
  Uploads = {u1, u2}
  Contents = {c1}
  Unreadable = {}
  Callers = {"api"}
  Jobs = {w1}
  Members = {m1}
  Bodies = {b1, b2}
  Tokens = {k1, k2}
  None = None
  MaxEnqueues = 1
  MaxAttempts = 2
  MaxFaults = 1
CHECK_DEADLOCK FALSE
INVARIANT OneDraftPerContent
INVARIANT DraftDelivered
INVARIANT WrittenAsApproved
INVARIANT ShownIsRecorded
PROPERTY KeepsPromise
SYMMETRY Symmetry
