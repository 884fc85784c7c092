SPECIFICATION Spec
CONSTANTS
  Ids = {p1, p2}
  Coins = {c1, c2}
  Rates <- PairRates
  Prices = {1, 2}
  Notional = 3
  Fee = 1
  ENTRY_THRESHOLD = 3
  EXIT_THRESHOLD = 1
  Tolerance = 1
  MAX_CONCURRENT_POSITIONS = 1
  MAX_HOLD = 1
  MAX_LOSS = 1
  PAPER_CAPITAL = 5
  MaxTicks = 2
  MaxRestarts = 1
  None = None
SYMMETRY Symmetric
INVARIANT NoFlapping
PROPERTIES ImplementsBook PairIsNeutral
CHECK_DEADLOCK FALSE
