SPECIFICATION LiveSpec
CONSTANTS
  Ids = {p1, p2}
  Main = main
  Requests = {r1}
  MAX_POSITIONS = 1
  MAX_DAILY_TRADES = 2
  MAX_CONSECUTIVE_LOSSES = 2
  MAX_DAILY_LOSS = 1
  Cooldown = 1
  Telegram = FALSE
  MaxCrashes = 1
  None = None
INVARIANTS SettledOnce OpenRowsAreListed PositionLimit BreakerIsSound
PROPERTIES BreakerIsLifted
