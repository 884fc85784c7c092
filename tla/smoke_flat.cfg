SPECIFICATION Spec
CONSTANTS
  MaxRetries = 3
  StartHeld <- Holdings
  OwnCoin = TRUE
  None = None
INVARIANT PassedIsFlat
CHECK_DEADLOCK FALSE
