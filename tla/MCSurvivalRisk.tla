--------------------------- MODULE MCSurvivalRisk ---------------------------
EXTENDS SurvivalRisk, TLC
TradeMoves == {-4, -2, -1, 1, 3}
Symmetric == Permutations(Slots)
=============================================================================
