-------------------------- MODULE CrossExchangeArb --------------------------
(***************************************************************************)
(* The cross-exchange arbitrage bot: CrossExchangeArbStrategy of           *)
(* src/strategy/cross_exchange_arb.py with its BinanceClient, as           *)
(* run_cross_exchange_arb.py runs it.                                      *)
(*                                                                         *)
(* One task holds pairs of opposite legs on two venues and runs a cycle    *)
(* every SCAN_INTERVAL (a tick).  It suspends only to fetch quotes, each   *)
(* of which may be missing; the display task fetches too but shares no     *)
(* state with the decisions.  Both legs of a pair have the same Notional;  *)
(* Fee is the taker fee of both; funding is counted in rate times ticks.   *)
(* Quantities are counted in millionths of a coin, the unit they are       *)
(* rounded to, and money in the unit that gives prices times quantities.   *)
(***************************************************************************)
EXTENDS Integers, FiniteSets

CONSTANTS
  Ids, Coins,
  Rates, Prices,        \* what a venue may quote
  Notional, Fee,
  ENTRY_THRESHOLD, EXIT_THRESHOLD,
  Tolerance,            \* the 1e-9 an entry may fall short of its threshold
  MAX_CONCURRENT_POSITIONS,
  MAX_HOLD,             \* MAX_HOLD_HOURS in ticks
  MAX_LOSS,             \* MAX_LOSS_PCT as a distance between prices
  PAPER_CAPITAL,
  MaxTicks, MaxRestarts,
  None

ASSUME PairNoneAssumption == None \notin Coins
ASSUME PairMarketAssumption ==
  /\ Rates \subseteq Int /\ Prices \subseteq Nat \ {0}
  /\ Notional \in Nat \ {0} /\ Fee \in Nat
\* What validate() asks of the thresholds: it does not compare them.
ASSUME PairThresholdAssumption ==
  EXIT_THRESHOLD \in Nat /\ ENTRY_THRESHOLD \in Nat \ {0} /\ Tolerance \in Nat
ASSUME PairLimitAssumption ==
  /\ MAX_CONCURRENT_POSITIONS \in Nat /\ MAX_HOLD \in Nat /\ MAX_LOSS \in Nat
  /\ PAPER_CAPITAL \in Nat \ {0} /\ MaxTicks \in Nat /\ MaxRestarts \in Nat

VARIABLES
  paper,        \* config.PAPER_TRADING
  pc, todo,     \* where the task is, the pairs it has still to check
  tried,        \* the coins this cycle has looked at for an entry
  positions,    \* self._positions
  capital,      \* self._paper_capital
  ticks, restarts

vars == <<paper, pc, todo, tried, positions, capital, ticks, restarts>>

\* dir is 1 for SHORT_HL_LONG_BINANCE and -1 for LONG_HL_SHORT_BINANCE.
Positions ==
  [state : {"none", "open", "closed", "lost"}, coin : Coins \cup {None}, dir : {-1, 1},
   hl : Nat, binance : Nat, spread : Int, age : Nat, since : Nat, funding : Int]

NoPosition ==
  [state |-> "none", coin |-> None, dir |-> 1, hl |-> 0, binance |-> 0,
   spread |-> 0, age |-> 0, since |-> 0, funding |-> 0]

\* get_funding_rate returns price 0 when only the price could not be fetched.
HlQuotes == [rate : Rates, px : Prices]
BinanceQuotes == [rate : Rates, px : Prices \cup {0}]
ASSUME PairQuoteAssumption == None \notin HlQuotes \cup BinanceQuotes

TypeOK ==
  /\ paper \in BOOLEAN
  /\ pc \in {"down", "sleep", "check", "scan"}
  /\ todo \subseteq Ids /\ tried \subseteq Coins
  /\ positions \in [Ids -> Positions]
  /\ capital \in Int
  /\ ticks \in Nat /\ restarts \in Nat

Init ==
  /\ paper \in BOOLEAN
  /\ pc = "scan" /\ todo = {} /\ tried = {}
  /\ positions = [id \in Ids |-> NoPosition]
  /\ capital = PAPER_CAPITAL
  /\ ticks = 0 /\ restarts = 0

OpenIds == {id \in Ids : positions[id].state = "open"}

Magnitude(n) == IF n < 0 THEN -n ELSE n
SignOf(n) == IF n > 0 THEN 1 ELSE -1

\* round(): the nearest whole number to n / d, a tie goes to the even one.
Rounded(n, d) ==
  LET q == n \div d
      r == n % d
  IN IF 2 * r > d \/ (2 * r = d /\ q % 2 = 1) THEN q + 1 ELSE q

Quantity(px) == Rounded(Notional, px)

-----------------------------------------------------------------------------
(* _check_existing_positions *)

\* A venue that quotes nothing counts as rate 0 at the entry price.
HlSeen(p, q) == IF q = None THEN [rate |-> 0, px |-> p.hl] ELSE q
BinanceSeen(p, q) == IF q = None THEN [rate |-> 0, px |-> p.binance] ELSE q

\* _accumulate_funding: the short leg receives its rate, the long leg pays it.
Accumulated(p, hl, bn) ==
  [p EXCEPT !.funding = @ + p.dir * (hl.rate - bn.rate) * p.since, !.since = 0]

\* Mutant of ShouldClose: the threshold of the entries.
ShouldCloseBelowEntry(p, hl, bn) ==
  \/ Magnitude(hl.rate - bn.rate) <= ENTRY_THRESHOLD
  \/ SignOf(hl.rate - bn.rate) # SignOf(p.spread)
  \/ p.age > MAX_HOLD

ShouldClose(p, hl, bn) ==
  LET spread == hl.rate - bn.rate
  IN \/ Magnitude(spread) < EXIT_THRESHOLD
     \/ SignOf(spread) # SignOf(p.spread)
     \/ p.age > MAX_HOLD
     \/ Magnitude(hl.px - p.hl) > MAX_LOSS

\* Mutant of Proceeds: both legs gain when the price rises.
ProceedsLong(p, hl, bn) ==
  (hl.px - p.hl) * Quantity(p.hl) + (bn.px - p.binance) * Quantity(p.binance) - Fee

\* close_position: the price P&L of both legs and the fees; the funding is
\* reported and not credited.
Proceeds(p, hl, bn) ==
  p.dir * ((p.hl - hl.px) * Quantity(p.hl) + (bn.px - p.binance) * Quantity(p.binance)) - Fee

Close(id, p, hl, bn) ==
  /\ positions' = [positions EXCEPT ![id] = [p EXCEPT !.state = "closed"]]
  /\ capital' = IF paper THEN capital + Proceeds(p, hl, bn) ELSE capital

Keep(id, p) == positions' = [positions EXCEPT ![id] = p] /\ UNCHANGED capital

Check(id, qh, qb) ==
  LET hl == HlSeen(positions[id], qh)
      bn == BinanceSeen(positions[id], qb)
      p == Accumulated(positions[id], hl, bn)
  IN /\ pc = "check" /\ id \in todo
     /\ IF ShouldClose(p, hl, bn) THEN Close(id, p, hl, bn) ELSE Keep(id, p)
     /\ todo' = todo \ {id}
     /\ UNCHANGED <<paper, pc, tried, ticks, restarts>>

CheckDone ==
  /\ pc = "check" /\ todo = {}
  /\ pc' = "scan"
  /\ UNCHANGED <<paper, todo, tried, positions, capital, ticks, restarts>>

-----------------------------------------------------------------------------
(* run_cycle from step 2 on, and open_position *)

\* Mutant of MayOpen: the limit is checked after the pair is counted.
MayOpenOneMore(c) ==
  /\ Cardinality(OpenIds) <= MAX_CONCURRENT_POSITIONS
  /\ \A id \in OpenIds : positions[id].coin # c
  /\ capital > 0

\* The limit, a pair in this coin, and nothing to invest.  The limit on the
\* exposure per coin adds nothing to them: there is none before the first pair.
MayOpen(c) ==
  /\ Cardinality(OpenIds) < MAX_CONCURRENT_POSITIONS
  /\ \A id \in OpenIds : positions[id].coin # c
  /\ capital > 0

\* A uuid names a pair that never was.
Fresh(id) ==
  /\ positions[id].state = "none"
  /\ id = CHOOSE other \in Ids : positions[other].state = "none"

\* In live mode open_position refuses: the second leg is not implemented.
Open(id, c, hl, bn) ==
  /\ pc = "scan" /\ c \notin tried
  /\ Magnitude(hl.rate - bn.rate) >= ENTRY_THRESHOLD - Tolerance
  /\ MayOpen(c) /\ bn.px > 0 /\ Quantity(hl.px) > 0 /\ Quantity(bn.px) > 0
  /\ paper
  /\ Fresh(id)
  /\ positions' = [positions EXCEPT ![id] =
       [NoPosition EXCEPT !.state = "open", !.coin = c, !.dir = SignOf(hl.rate - bn.rate),
          !.hl = hl.px, !.binance = bn.px, !.spread = hl.rate - bn.rate]]
  /\ capital' = capital - Fee
  /\ tried' = tried \cup {c}
  /\ UNCHANGED <<paper, pc, todo, ticks, restarts>>

\* All coins have been looked at, or a venue quoted none of them.
ScanDone ==
  /\ pc = "scan"
  /\ pc' = "sleep" /\ tried' = {}
  /\ UNCHANGED <<paper, todo, positions, capital, ticks, restarts>>

-----------------------------------------------------------------------------
(* run, and the process around it *)

Aged(p) == IF p.state = "open" THEN [p EXCEPT !.age = @ + 1, !.since = @ + 1] ELSE p

Wake ==
  /\ pc = "sleep" /\ ticks < MaxTicks
  /\ ticks' = ticks + 1
  /\ positions' = [id \in Ids |-> Aged(positions[id])]
  /\ todo' = OpenIds
  /\ pc' = "check"
  /\ UNCHANGED <<paper, tried, capital, restarts>>

\* A kill, or the shutdown that cancels the task: nobody closes the pairs.
Down ==
  /\ pc # "down" /\ restarts < MaxRestarts
  /\ pc' = "down" /\ todo' = {} /\ tried' = {}
  /\ positions' = [id \in Ids |->
       IF positions[id].state = "open"
       THEN [NoPosition EXCEPT !.state = "lost", !.coin = positions[id].coin]
       ELSE positions[id]]
  /\ restarts' = restarts + 1
  /\ UNCHANGED <<paper, capital, ticks>>

\* The capital is that of the configuration again.
Start ==
  /\ pc = "down"
  /\ pc' = "scan" /\ capital' = PAPER_CAPITAL
  /\ UNCHANGED <<paper, todo, tried, positions, ticks, restarts>>

Next ==
  \/ \E id \in Ids, qh \in HlQuotes \cup {None}, qb \in BinanceQuotes \cup {None} :
       Check(id, qh, qb)
  \/ CheckDone
  \/ \E id \in Ids, c \in Coins, hl \in HlQuotes, bn \in BinanceQuotes : Open(id, c, hl, bn)
  \/ ScanDone
  \/ Wake
  \/ Down
  \/ Start

Spec == Init /\ [][Next]_vars

-----------------------------------------------------------------------------
(* Properties *)

Book == INSTANCE PositionBook WITH
  Limit <- MAX_CONCURRENT_POSITIONS,
  life <- [id \in Ids |-> IF positions[id].state = "none"
                          THEN "unused" ELSE positions[id].state],
  market <- [id \in Ids |-> positions[id].coin]

\* Over outages of either venue and restarts the bot keeps the promises of a
\* position book: a pair ends once, and the limits hold.
ImplementsBook == Book!Spec

\* The quotes a pair was opened on, should a later check meet them again.
EntryQuotes(p) ==
  {pair \in [hl : HlQuotes, bn : BinanceQuotes] :
     /\ pair.hl.px = p.hl /\ pair.bn.px = p.binance
     /\ pair.hl.rate - pair.bn.rate = p.spread}

\* The spreads that are wide enough to open a pair and narrow enough to close
\* it: none, if the thresholds are further apart than the tolerance.
Overlap == (ENTRY_THRESHOLD - Tolerance) .. (EXIT_THRESHOLD - 1)

\* open_position and _check_existing_positions contradict each other only where
\* the thresholds do: as long as the market stays where a pair was opened it is
\* kept, in either direction, until it is too old or its spread is in both.
NoFlapping ==
  \A id \in OpenIds : \A pair \in EntryQuotes(positions[id]) :
    ShouldClose(positions[id], pair.hl, pair.bn) =>
      positions[id].age > MAX_HOLD \/ Magnitude(positions[id].spread) \in Overlap

\* A pair is delta neutral: when both venues have moved by the same factor,
\* closing it gains or loses, beside the fees, at most half a unit of either
\* leg's quantity at the distance its price has moved.
PairIsNeutral ==
  [][\A id \in todo, hl \in HlQuotes, bn \in BinanceQuotes :
       (/\ hl.px * positions[id].binance = bn.px * positions[id].hl
        /\ positions'[id].state = "closed" /\ Check(id, hl, bn))
       => 2 * Magnitude(capital' - (capital - Fee))
            <= Magnitude(hl.px - positions[id].hl)
               + Magnitude(bn.px - positions[id].binance)]_vars

\* Funding is collected once for every hour held, at most at the widest spread
\* (one leg alone in an outage of the other included).
FundingIsCollectedOnce ==
  \A id \in Ids, low, high \in Rates \cup {0} :
    (\A rate \in Rates \cup {0} : low <= rate /\ rate <= high)
      => Magnitude(positions[id].funding) <= (high - low) * positions[id].age
=============================================================================
