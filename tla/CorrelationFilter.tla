-------------------------- MODULE CorrelationFilter --------------------------
(***************************************************************************)
(* The CorrelationFilter of src/core/multi_asset.py, fed by the candles of *)
(* run_multi_asset_bot.py, for assets that move together: at every moment  *)
(* the price of each is the same multiple of one market price.             *)
(*                                                                         *)
(* Every asset has a feed of its own, and a history gets the price of a    *)
(* moment only if its feed delivers the candle.  A history holds prices    *)
(* and no times; the times are kept here to say which prices belong        *)
(* together.                                                               *)
(*                                                                         *)
(* Returns are exact: they are counted in units of 1 / Scale.  A restarted *)
(* process begins with empty histories, as Init does.                      *)
(***************************************************************************)
EXTENDS Integers, SequencesExt

CONSTANTS
  Assets,
  Prices,           \* positive; each divides Scale
  Scale,
  Window,           \* window
  MaxCorrelation,   \* max_correlation, in percent
  MaxMoments        \* bound

VARIABLES
  moment,
  price_history,
  times            \* when the prices of the histories were received

vars == <<moment, price_history, times>>

History(s, of) == s \in Seq(of) /\ Len(s) <= 2 * Window

TypeOK ==
  /\ moment \in 0 .. MaxMoments
  /\ \A a \in Assets : History(price_history[a], Prices) /\ History(times[a], 1 .. MaxMoments)

Init ==
  /\ moment = 0
  /\ price_history = [a \in Assets |-> <<>>]
  /\ times = [a \in Assets |-> <<>>]

-----------------------------------------------------------------------------
(* update_price *)

\* The first n, for the mutant of RecentReturns.
Earliest(s, n) == SubSeq(s, 1, n)

Latest(s, n) == IF Len(s) > n THEN SubSeq(s, Len(s) - n + 1, Len(s)) ELSE s

\* The market moves.  A candle is missed while a feed reconnects, and skipped
\* when its price is not positive or the update of the indicators raised.
Move(px, seen) ==
  /\ moment < MaxMoments
  /\ moment' = moment + 1
  /\ price_history' =
       [a \in Assets |-> IF a \in seen THEN Latest(Append(price_history[a], px), 2 * Window)
                         ELSE price_history[a]]
  /\ times' =
       [a \in Assets |-> IF a \in seen THEN Latest(Append(times[a], moment'), 2 * Window)
                         ELSE times[a]]

Next == \E px \in Prices, seen \in SUBSET Assets : Move(px, seen)

Spec == Init /\ [][Next]_vars

-----------------------------------------------------------------------------
(* get_correlation and is_correlated *)

\* Period-over-period returns.
Returns(prices) ==
  [i \in 1 .. Len(prices) - 1 |-> (Scale * (prices[i + 1] - prices[i])) \div prices[i]]

Total(s) == FoldSeq(LAMBDA x, y : x + y, 0, s)

\* Len(x) squared times the covariance.
Covariance(x, y) ==
  Len(x) * Total([i \in DOMAIN x |-> x[i] * y[i]]) - Total(x) * Total(y)

Varies(x) == Covariance(x, x) > 0

\* min_len
Common(a, b) ==
  IF Len(price_history[a]) < Len(price_history[b])
  THEN Len(price_history[a]) ELSE Len(price_history[b])

\* Mutant of RecentReturns: the histories are compared from their beginnings.
EarliestReturns(a, n) == Returns(Earliest(price_history[a], n))

RecentReturns(a, n) == Returns(Latest(price_history[a], n))

\* A pair without enough history, or of which one has steady returns, is taken
\* for uncorrelated.
Correlated(a, b) ==
  LET n == Common(a, b)
      x == RecentReturns(a, n)
      y == RecentReturns(b, n)
  IN /\ n >= Window + 1
     /\ Varies(x) /\ Varies(y)
     /\ 100 * 100 * Covariance(x, y) * Covariance(x, y)
          > MaxCorrelation * MaxCorrelation * Covariance(x, x) * Covariance(y, y)

\* held: the assets of the existing positions.
is_correlated(a, held) == \E b \in held : Correlated(a, b)

-----------------------------------------------------------------------------
(* Properties *)

\* Both have the history the filter asks for, and it shows moves of both.
Compared(a, b) ==
  /\ Common(a, b) >= Window + 1
  /\ Varies(RecentReturns(a, Common(a, b))) /\ Varies(RecentReturns(b, Common(a, b)))

\* The latest prices of both are of the same moments.
SameMoments(a, b) == Latest(times[a], Common(a, b)) = Latest(times[b], Common(a, b))

\* get_correlation, "Align on the most recent window": whenever their histories
\* began and however they were cut, two assets that move together are found
\* correlated as long as neither missed a candle that the other has.
CoMovementIsSeen ==
  \A a, b \in Assets :
    a # b /\ Compared(a, b) /\ SameMoments(a, b) => is_correlated(a, {b})

\* "Uses rolling correlation to identify highly correlated assets": two assets
\* that move together are found correlated once both have their history.  One
\* missed candle shifts the one history against the other.
CoMovingPairIsIdentified ==
  \A a, b \in Assets : a # b /\ Compared(a, b) => is_correlated(a, {b})
=============================================================================
