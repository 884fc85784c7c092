SPECIFICATION Spec
CONSTANTS
  Ids = {p1, p2, p3}
  Main = main
  Requests = {r1}
  MAX_POSITIONS = 2
  MAX_DAILY_TRADES = 2
  MAX_CONSECUTIVE_LOSSES = 2
  MAX_DAILY_LOSS = 1
  Cooldown = 1
  Telegram = TRUE
  MaxCrashes = 0
  None = None
INVARIANTS SettledOnce
