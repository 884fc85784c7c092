---------------------------- MODULE MCFundingArb ----------------------------
EXTENDS FundingArb
FundingRates == {-2, 2}
=============================================================================
