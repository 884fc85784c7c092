SPECIFICATION FairSpec
CONSTANTS
  MaxRetries = 3
  StartHeld <- Holdings
  OwnCoin = TRUE
  None = None
INVARIANTS PassedIsClean SentOnce
PROPERTIES CheckEnds
CHECK_DEADLOCK FALSE
