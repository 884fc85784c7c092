-------------------------- MODULE MCTrendFollowing --------------------------
EXTENDS TrendFollowing
Trails == <<9, 3, 1>>
=============================================================================
