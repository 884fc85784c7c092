SPECIFICATION Spec
CONSTANTS
  Ids = {p1, p2}
  Coins = {c1, c2}
  Prices = {2, 3}
  Trail <- Trails
  ATR_STOP_MULT = 1
  ATR_TP_MULT = 3
  MAX_LOSS = 1
  TIGHTEN_AFTER = 1
  MAX_HOLD = 3
  COOLDOWN = 1
  MAX_CONCURRENT_POSITIONS = 1
  MAINNET_RELEASE_APPROVED = TRUE
  PAPER_CAPITAL = 9
  Fee = 1
  MaxTicks = 2
  MaxRestarts = 1
  None = None
INVARIANTS EveryCloseIsScored

CHECK_DEADLOCK FALSE
