SPECIFICATION Spec
CONSTANTS
  Slots = {s1, s2}
  Moves <- TradeMoves
  START_CAPITAL = 10
  FLOOR = 2
  MAX_DRAWDOWN = 30
  MAX_HEAT = 25
  TIER_2_LOSS = 20
  TIER_1_LOSSES = 2
  AVOID = 30
  COOLDOWN = 2
  MaxCapital = 13
  MaxDaily = 5
  MaxLosses = 3
  None = None
SYMMETRY Symmetric
INVARIANT DrawdownIsFromTheStart
