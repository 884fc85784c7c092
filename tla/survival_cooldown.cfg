SPECIFICATION LiveSpec
CONSTANTS
  Slots = {s1}
  Moves <- TradeMoves
  START_CAPITAL = 10
  FLOOR = 2
  MAX_DRAWDOWN = 30
  MAX_HEAT = 100
  TIER_2_LOSS = 20
  TIER_1_LOSSES = 2
  AVOID = 30
  COOLDOWN = 2
  MaxCapital = 13
  MaxDaily = 5
  MaxLosses = 2
  None = None
PROPERTIES CooldownExpires
