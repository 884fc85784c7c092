------------------------- MODULE MCCrossExchangeArb -------------------------
EXTENDS CrossExchangeArb, TLC
PairRates == {-1, 1}
Symmetric == Permutations(Coins)
=============================================================================
