SPECIFICATION Spec
CONSTANTS
  Ids = {p1, p2}
  a1 = a1
  a2 = a2
  Feeds = {a1, a2}
  MaxAttempts = 2
  MaxRestarts = 1
  None = None
SYMMETRY Symmetric
INVARIANT ClosedOnExchange
CHECK_DEADLOCK FALSE
