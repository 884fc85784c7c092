SPECIFICATION Spec
CONSTANTS
  Ids = {p1, p2, p3}
  Main = main
  Requests = {}
  MAX_POSITIONS = 2
  MAX_DAILY_TRADES = 2
  MAX_CONSECUTIVE_LOSSES = 2
  MAX_DAILY_LOSS = 1
  Cooldown = 1
  Telegram = FALSE
  MaxCrashes = 0
  None = None
INVARIANTS RestartKeepsCapital
