SPECIFICATION Spec
CONSTANTS
  Ids = {p1}
  Coins = {c1, hype}
  SpotCoins = {c1}
  ASSET = hype
  Rates <- FundingRates
  Prices = {1, 3}
  ENTRY_THRESHOLD = 1
  EXIT_THRESHOLD = 0
  MAX_CONCURRENT_POSITIONS = 2
  MAX_HOLD = 1
  MAX_LOSS = 1
  Period = 2
  PAPER_CAPITAL = 3
  Fee = 1
  MaxTicks = 2
  MaxRestarts = 1
  None = None
PROPERTY SavedCapitalIsKept
CHECK_DEADLOCK FALSE
