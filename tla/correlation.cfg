SPECIFICATION Spec
CONSTANTS
  Assets = {a1, a2}
  Prices = {1, 2}
  Scale = 2
  Window = 3
  MaxCorrelation = 70
  MaxMoments = 7
INVARIANTS TypeOK CoMovementIsSeen
CHECK_DEADLOCK FALSE
