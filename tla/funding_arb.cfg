SPECIFICATION FairSpec
CONSTANTS
  Ids = {p1, p2}
  Coins = {c1, hype}
  SpotCoins = {c1}
  ASSET = hype
  Rates <- FundingRates
  Prices = {1, 3}
  ENTRY_THRESHOLD = 1
  EXIT_THRESHOLD = 0
  MAX_CONCURRENT_POSITIONS = 1
  MAX_HOLD = 1
  MAX_LOSS = 1
  Period = 2
  PAPER_CAPITAL = 3
  Fee = 1
  MaxTicks = 2
  MaxRestarts = 1
  None = None
INVARIANTS BookFollowsExchange SpotFollowsHedge
PROPERTIES MaxHoldCloses ImplementsBook CapitalSurvivesRestart
CHECK_DEADLOCK FALSE
