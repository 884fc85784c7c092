--------------------------- MODULE MCMultiAssetBot ---------------------------
EXTENDS MultiAssetBot, TLC
CONSTANTS a1, a2
Symmetric == Permutations(Feeds)
=============================================================================
