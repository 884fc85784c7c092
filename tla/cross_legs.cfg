SPECIFICATION Spec
CONSTANTS
  Ids = {p1}
  Coins = {c1}
  Rates <- PairRates
  Prices = {1, 2, 3, 4, 6}
  Notional = 7
  Fee = 1
  ENTRY_THRESHOLD = 3
  EXIT_THRESHOLD = 1
  Tolerance = 1
  MAX_CONCURRENT_POSITIONS = 1
  MAX_HOLD = 1
  MAX_LOSS = 1
  PAPER_CAPITAL = 5
  MaxTicks = 2
  MaxRestarts = 1
  None = None
PROPERTY PairIsNeutral
CHECK_DEADLOCK FALSE
