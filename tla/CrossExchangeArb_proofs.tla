----------------------- MODULE CrossExchangeArb_proofs -----------------------
(***************************************************************************)
(* Theorems about CrossExchangeArb, for every number of pairs and coins,   *)
(* all rates and prices, every limit and threshold.                        *)
(*                                                                         *)
(* The refinement rests on todo: a pair that is still to be checked is     *)
(* open, so that no pair is closed twice.  NoFlapping rests on the spread  *)
(* an open pair was entered with, and the bound of the funding on the time *)
(* that is not yet accounted for (since).  That a pair is neutral rests on *)
(* the prices its legs were entered at (MoneyInv): both legs have the same *)
(* notional, and pairs exist on paper only.                                *)
(***************************************************************************)
EXTENDS CrossExchangeArb, TLAPS

\* The part of the type the theorems use.
PairsOK == positions \in [Ids -> Positions] /\ todo \subseteq Ids

\* Only open pairs are checked.
TodoIsOpen == todo \subseteq OpenIds

\* An open pair was worth its entry.
Entered == \A id \in OpenIds : Magnitude(positions[id].spread) >= ENTRY_THRESHOLD - Tolerance

\* What p has collected so far, in terms of the widest spread of the rates.
Bounded(p, low, high) ==
  /\ p.since <= p.age
  /\ Magnitude(p.funding) <= (high - low) * (p.age - p.since)

\* Rates of both venues, and the 0 of a missing quote, lie in between.
Spans(low, high) ==
  /\ low \in Rates \cup {0} /\ high \in Rates \cup {0}
  /\ \A rate \in Rates \cup {0} : low <= rate /\ rate <= high

FundingBound == \A id \in Ids : \A low, high \in Int :
                  Spans(low, high) => Bounded(positions[id], low, high)

IInv == PairsOK /\ TodoIsOpen /\ Entered /\ FundingBound

LEMMA RateIsInt ==
  ASSUME NEW rate \in Rates \cup {0}
  PROVE  rate \in Int
  BY PairMarketAssumption

LEMMA Collected ==
  ASSUME NEW p \in Positions, NEW total \in Int
  PROVE  [p EXCEPT !.funding = total, !.since = 0] \in Positions
  <1> DEFINE q == [p EXCEPT !.funding = total]
  <1>1. q \in Positions
    BY DEF Positions
  <1>2. [p EXCEPT !.funding = total, !.since = 0] = [q EXCEPT !.since = 0]
    OBVIOUS
  <1> HIDE DEF q
  <1>3. [q EXCEPT !.since = 0] \in Positions
    BY <1>1 DEF Positions
  <1> QED
    BY <1>2, <1>3

LEMMA Multiplied ==
  ASSUME NEW d \in Int, NEW w \in Int, NEW n \in Nat, Magnitude(d) <= w
  PROVE  d * n \in Int /\ Magnitude(d * n) <= w * n
  <1>1. w - d \in Nat /\ w + d \in Nat
    BY DEF Magnitude
  <1>2. (w - d) * n >= 0 /\ (w + d) * n >= 0
    BY <1>1
  <1>3. (w - d) * n = w * n - d * n /\ (w + d) * n = w * n + d * n
    OBVIOUS
  <1> QED
    BY <1>2, <1>3 DEF Magnitude

LEMMA Quotes ==
  ASSUME NEW p \in Positions, NEW qh \in HlQuotes \cup {None},
         NEW qb \in BinanceQuotes \cup {None}
  PROVE  HlSeen(p, qh).rate \in Rates \cup {0} /\ BinanceSeen(p, qb).rate \in Rates \cup {0}
  BY DEF HlSeen, BinanceSeen, HlQuotes, BinanceQuotes

\* _accumulate_funding moves nothing but the funding and its time.
LEMMA Accumulates ==
  ASSUME NEW p \in Positions, NEW hl, NEW bn,
         hl.rate \in Rates \cup {0}, bn.rate \in Rates \cup {0}
  PROVE  /\ Accumulated(p, hl, bn) \in Positions
         /\ Accumulated(p, hl, bn).state = p.state /\ Accumulated(p, hl, bn).coin = p.coin
         /\ Accumulated(p, hl, bn).spread = p.spread /\ Accumulated(p, hl, bn).dir = p.dir
         /\ Accumulated(p, hl, bn).hl = p.hl /\ Accumulated(p, hl, bn).binance = p.binance
         /\ \A low, high \in Int : Spans(low, high) /\ Bounded(p, low, high)
              => Bounded(Accumulated(p, hl, bn), low, high)
  <1> DEFINE d == p.dir * (hl.rate - bn.rate)
  <1>1. d \in Int /\ p.since \in Nat /\ p.funding \in Int /\ p.age \in Nat
    <2>1. p.dir \in Int /\ p.since \in Nat /\ p.funding \in Int /\ p.age \in Nat
      BY DEF Positions
    <2>2. hl.rate \in Int /\ bn.rate \in Int
      BY RateIsInt
    <2> QED
      BY <2>1, <2>2
  <1>2. d * p.since \in Int
    BY <1>1
  <1>3. Accumulated(p, hl, bn) = [p EXCEPT !.funding = p.funding + d * p.since, !.since = 0]
    BY DEF Accumulated
  <1>4. ASSUME NEW low \in Int, NEW high \in Int, Spans(low, high), Bounded(p, low, high)
        PROVE  Bounded(Accumulated(p, hl, bn), low, high)
    <2> DEFINE w == high - low
    <2>1. Magnitude(d) <= w
      <3>1. p.dir \in {-1, 1}
        BY DEF Positions
      <3>2. /\ low <= hl.rate /\ hl.rate <= high /\ low <= bn.rate /\ bn.rate <= high
            /\ hl.rate \in Int /\ bn.rate \in Int
        BY <1>4, RateIsInt DEF Spans
      <3>3. CASE p.dir = 1
        <4>1. d = hl.rate - bn.rate
          BY <3>2, <3>3
        <4> HIDE DEF d
        <4> QED
          BY <3>2, <4>1 DEF Magnitude
      <3>4. CASE p.dir = -1
        <4>1. d = bn.rate - hl.rate
          BY <3>2, <3>4
        <4> HIDE DEF d
        <4> QED
          BY <3>2, <4>1 DEF Magnitude
      <3> QED
        BY <3>1, <3>3, <3>4
    <2>2. Magnitude(d * p.since) <= w * p.since
      <3> HIDE DEF d, w
      <3>1. w \in Int
        BY DEF w
      <3> QED
        BY <1>1, <2>1, <3>1, Multiplied
    <2>3. w * (p.age - p.since) + w * p.since = w * p.age
      BY <1>1
    <2>4. Magnitude(p.funding) <= w * (p.age - p.since) /\ p.since <= p.age
      BY <1>4 DEF Bounded
    <2>5. Magnitude(p.funding + d * p.since) <= w * p.age
      <3> DEFINE one == d * p.since
                 two == w * p.since
                 three == w * (p.age - p.since)
                 all == w * p.age
      <3>1. one \in Int /\ two \in Int /\ three \in Int /\ all \in Int
        BY <1>1, <1>2
      <3>2. Magnitude(one) <= two /\ Magnitude(p.funding) <= three /\ three + two = all
        BY <2>2, <2>3, <2>4
      <3>3. Magnitude(p.funding + one) <= all
        <4> HIDE DEF one, two, three, all
        <4> QED
          BY <1>1, <3>1, <3>2 DEF Magnitude
      <3> QED
        BY <3>3
    <2>6. /\ Accumulated(p, hl, bn).funding = p.funding + d * p.since
          /\ Accumulated(p, hl, bn).since = 0 /\ Accumulated(p, hl, bn).age = p.age
      <3> HIDE DEF d
      <3> QED
        BY <1>3 DEF Positions
    <2>7. w * (p.age - 0) = w * p.age
      BY <1>1
    <2> QED
      BY <1>1, <2>5, <2>6, <2>7 DEF Bounded
  <1>5. Accumulated(p, hl, bn) \in Positions
    <2> DEFINE total == p.funding + d * p.since
    <2>1. total \in Int
      BY <1>1, <1>2
    <2>2. Accumulated(p, hl, bn) = [p EXCEPT !.funding = total, !.since = 0]
      BY <1>3
    <2> HIDE DEF d, total
    <2> QED
      BY <2>1, <2>2, Collected
  <1>6. /\ Accumulated(p, hl, bn).state = p.state /\ Accumulated(p, hl, bn).coin = p.coin
        /\ Accumulated(p, hl, bn).spread = p.spread /\ Accumulated(p, hl, bn).dir = p.dir
        /\ Accumulated(p, hl, bn).hl = p.hl /\ Accumulated(p, hl, bn).binance = p.binance
    <2> HIDE DEF d
    <2> QED
      BY <1>3 DEF Positions
  <1> QED
    BY <1>4, <1>5, <1>6

LEMMA NoPositionBounded ==
  /\ NoPosition \in Positions
  /\ \A low, high \in Int : Spans(low, high) => Bounded(NoPosition, low, high)
  <1>1. NoPosition \in Positions
    BY DEF NoPosition, Positions
  <1>2. ASSUME NEW low \in Int, NEW high \in Int PROVE Bounded(NoPosition, low, high)
    <2>1. (high - low) * (0 - 0) = 0
      OBVIOUS
    <2>2. NoPosition.since = 0 /\ NoPosition.age = 0 /\ NoPosition.funding = 0
      BY DEF NoPosition
    <2> QED
      BY <2>1, <2>2 DEF Bounded, Magnitude
  <1> QED
    BY <1>1, <1>2

-----------------------------------------------------------------------------
(* The invariant *)

LEMMA Initially == Init => IInv
  <1> SUFFICES ASSUME Init PROVE IInv
    OBVIOUS
  <1>1. \A id \in Ids : positions[id] = NoPosition
    BY DEF Init
  <1>2. PairsOK
    BY <1>1, NoPositionBounded DEF Init, PairsOK
  <1>3. OpenIds = {} /\ todo = {}
    BY <1>1 DEF Init, OpenIds, NoPosition
  <1>4. TodoIsOpen /\ Entered
    BY <1>3 DEF TodoIsOpen, Entered
  <1>5. FundingBound
    BY <1>1, NoPositionBounded DEF FundingBound
  <1> QED
    BY <1>2, <1>4, <1>5 DEF IInv

\* One pair is replaced by a sound one, and is no longer to be checked.
LEMMA Replaced ==
  ASSUME IInv, NEW id \in Ids, NEW p \in Positions,
         positions' = [positions EXCEPT ![id] = p], todo' \subseteq todo \ {id},
         p.state = "open" => Magnitude(p.spread) >= ENTRY_THRESHOLD - Tolerance,
         \A low, high \in Int : Spans(low, high) => Bounded(p, low, high)
  PROVE  IInv'
  <1>1. PairsOK'
    BY DEF IInv, PairsOK
  <1>2. \A other \in Ids : positions'[other] = IF other = id THEN p ELSE positions[other]
    BY DEF IInv, PairsOK
  <1>3. TodoIsOpen'
    BY <1>2 DEF IInv, TodoIsOpen, OpenIds
  <1>4. Entered'
    BY <1>2 DEF IInv, Entered, OpenIds
  <1>5. FundingBound'
    BY <1>2 DEF IInv, FundingBound, Bounded, Spans
  <1> QED
    BY <1>1, <1>3, <1>4, <1>5 DEF IInv

LEMMA CheckStep ==
  ASSUME IInv, NEW id \in Ids, NEW qh \in HlQuotes \cup {None},
         NEW qb \in BinanceQuotes \cup {None}, Check(id, qh, qb)
  PROVE  IInv'
  <1> DEFINE hl == HlSeen(positions[id], qh)
             bn == BinanceSeen(positions[id], qb)
             p == Accumulated(positions[id], hl, bn)
             closed == [p EXCEPT !.state = "closed"]
  <1>1. positions[id] \in Positions /\ id \in OpenIds
    BY DEF IInv, PairsOK, TodoIsOpen, Check
  <1>2. hl.rate \in Rates \cup {0} /\ bn.rate \in Rates \cup {0}
    BY <1>1, Quotes
  <1>3. /\ p \in Positions /\ p.state = positions[id].state /\ p.spread = positions[id].spread
        /\ \A low, high \in Int : Spans(low, high) /\ Bounded(positions[id], low, high)
             => Bounded(p, low, high)
    <2> HIDE DEF hl, bn
    <2> QED
      BY <1>1, <1>2, Accumulates
  <1>4. todo' \subseteq todo \ {id}
    BY DEF Check
  <1>5. \A low, high \in Int : Spans(low, high) => Bounded(p, low, high)
    <2> HIDE DEF p
    <2> QED
      BY <1>3 DEF IInv, FundingBound
  <1>6. CASE ShouldClose(p, hl, bn)
    <2>1. positions' = [positions EXCEPT ![id] = closed]
      BY <1>6 DEF Check, Close
    <2> HIDE DEF p
    <2>2. /\ closed \in Positions /\ closed.state = "closed"
          /\ closed.since = p.since /\ closed.age = p.age /\ closed.funding = p.funding
      BY <1>3 DEF Positions
    <2>3. \A low, high \in Int : Spans(low, high) => Bounded(closed, low, high)
      BY <1>5, <2>2 DEF Bounded
    <2> HIDE DEF closed
    <2> QED
      BY <1>4, <2>1, <2>2, <2>3, Replaced
  <1>7. CASE ~ShouldClose(p, hl, bn)
    <2>1. positions' = [positions EXCEPT ![id] = p]
      BY <1>7 DEF Check, Keep
    <2>2. Magnitude(p.spread) >= ENTRY_THRESHOLD - Tolerance
      BY <1>1, <1>3 DEF IInv, Entered
    <2> HIDE DEF p
    <2> QED
      BY <1>3, <1>4, <1>5, <2>1, <2>2, Replaced
  <1> QED
    BY <1>6, <1>7

\* What open_position enters.
LEMMA OpenStep ==
  ASSUME IInv, NEW id \in Ids, NEW c \in Coins, NEW hl \in HlQuotes,
         NEW bn \in BinanceQuotes, Open(id, c, hl, bn)
  PROVE  /\ IInv' /\ positions'[id].state = "open" /\ positions'[id].coin = c
         /\ positions'[id].hl = hl.px /\ positions'[id].binance = bn.px
  <1> DEFINE spread == hl.rate - bn.rate
             p == [NoPosition EXCEPT !.state = "open", !.coin = c, !.dir = SignOf(spread),
                     !.hl = hl.px, !.binance = bn.px, !.spread = spread]
  <1>1. spread \in Int /\ hl.px \in Nat /\ bn.px \in Nat
    <2>1. hl.rate \in Rates \cup {0} /\ bn.rate \in Rates \cup {0}
      BY DEF HlQuotes, BinanceQuotes
    <2>2. hl.px \in Prices \cup {0} /\ bn.px \in Prices \cup {0}
      BY DEF HlQuotes, BinanceQuotes
    <2>3. \A px \in Prices \cup {0} : px \in Nat
      BY PairMarketAssumption
    <2>4. hl.rate \in Int /\ bn.rate \in Int
      BY <2>1, RateIsInt
    <2> QED
      BY <2>2, <2>3, <2>4
  <1>2. SignOf(spread) \in {-1, 1}
    BY DEF SignOf
  <1>3. positions' = [positions EXCEPT ![id] = p] /\ Magnitude(spread) >= ENTRY_THRESHOLD - Tolerance
    BY DEF Open
  <1>4. /\ p \in Positions /\ p.state = "open" /\ p.coin = c /\ p.spread = spread
        /\ p.since = 0 /\ p.age = 0 /\ p.funding = 0
        /\ p.hl = hl.px /\ p.binance = bn.px
    <2> DEFINE sign == SignOf(spread)
    <2>1. p = [NoPosition EXCEPT !.state = "open", !.coin = c, !.dir = sign,
                 !.hl = hl.px, !.binance = bn.px, !.spread = spread]
      OBVIOUS
    <2>2. sign \in {-1, 1}
      BY <1>2
    <2> DEFINE a == hl.px
               b == bn.px
    <2>7. p = [NoPosition EXCEPT !.state = "open", !.coin = c, !.dir = sign,
                 !.hl = a, !.binance = b, !.spread = spread]
      BY <2>1
    <2>3. p = [state |-> "open", coin |-> c, dir |-> sign, hl |-> a, binance |-> b,
               spread |-> spread, age |-> 0, since |-> 0, funding |-> 0]
      <3> HIDE DEF spread, sign, a, b, p
      <3> QED
        BY <2>7 DEF NoPosition
    <2>4. a \in Nat /\ b \in Nat
      BY <1>1
    <2>5. spread \in Int
      BY <1>1
    <2>8. a = hl.px /\ b = bn.px
      OBVIOUS
    <2> HIDE DEF spread, sign, a, b, p
    <2>6. p \in Positions
      BY <2>2, <2>3, <2>4, <2>5 DEF Positions
    <2> QED
      BY <2>3, <2>6, <2>8
  <1> HIDE DEF p
  <1>5. \A low, high \in Int : Spans(low, high) => Bounded(p, low, high)
    <2>1. \A low, high \in Int : (high - low) * (0 - 0) = 0
      OBVIOUS
    <2> QED
      BY <1>4, <2>1 DEF Bounded, Magnitude
  <1>6. todo \ {id} = todo /\ todo' = todo
    BY DEF IInv, TodoIsOpen, OpenIds, Open, Fresh
  <1>7. IInv'
    <2> HIDE DEF spread
    <2> QED
      BY <1>3, <1>4, <1>5, <1>6, Replaced
  <1> QED
    BY <1>3, <1>4, <1>7 DEF IInv, PairsOK

\* Pairs that are forgotten, or only older, stay sound.
LEMMA Remapped ==
  ASSUME IInv, PairsOK', todo' \subseteq OpenIds',
         \A id \in Ids :
           /\ positions'[id].state = "open"
                => id \in OpenIds /\ positions'[id].spread = positions[id].spread
           /\ \A low, high \in Int : Spans(low, high) => Bounded(positions'[id], low, high)
  PROVE  IInv'
  <1>1. TodoIsOpen'
    BY DEF TodoIsOpen
  <1>2. Entered'
    BY DEF IInv, Entered, OpenIds
  <1>3. FundingBound'
    BY DEF FundingBound, Bounded, Spans
  <1> QED
    BY <1>1, <1>2, <1>3 DEF IInv

LEMMA Ages ==
  ASSUME NEW p \in Positions
  PROVE  /\ Aged(p) \in Positions
         /\ Aged(p).state = p.state /\ Aged(p).coin = p.coin /\ Aged(p).spread = p.spread
         /\ Aged(p).hl = p.hl /\ Aged(p).binance = p.binance
         /\ \A low, high \in Int : Spans(low, high) /\ Bounded(p, low, high)
              => Bounded(Aged(p), low, high)
  <1>1. CASE p.state # "open"
    BY <1>1 DEF Aged
  <1>2. CASE p.state = "open"
    <2>1. p.age \in Nat /\ p.since \in Nat
      BY DEF Positions
    <2> DEFINE older == [p EXCEPT !.age = p.age + 1]
               later == p.since + 1
    <2>2. older \in Positions
      BY <2>1 DEF Positions
    <2>3. later \in Nat /\ Aged(p) = [older EXCEPT !.since = later]
      BY <1>2, <2>1 DEF Aged, Positions
    <2>4. /\ Aged(p).state = p.state /\ Aged(p).coin = p.coin /\ Aged(p).spread = p.spread
          /\ Aged(p).age = p.age + 1 /\ Aged(p).since = p.since + 1
          /\ Aged(p).funding = p.funding /\ Aged(p).hl = p.hl /\ Aged(p).binance = p.binance
      BY <1>2, <2>1 DEF Aged, Positions
    <2>5. Aged(p) \in Positions
      <3> HIDE DEF older, later
      <3> QED
        BY <2>2, <2>3 DEF Positions
    <2>6. (p.age + 1) - (p.since + 1) = p.age - p.since
      BY <2>1
    <2> QED
      BY <2>1, <2>4, <2>5, <2>6 DEF Bounded
  <1> QED
    BY <1>1, <1>2

LEMMA WakeStep == ASSUME IInv, Wake PROVE IInv'
  <1>1. \A id \in Ids : positions[id] \in Positions
    BY DEF IInv, PairsOK
  <1>2. positions' = [id \in Ids |-> Aged(positions[id])] /\ todo' = OpenIds
    BY DEF Wake
  <1>3. \A id \in Ids : /\ positions'[id] \in Positions
                         /\ positions'[id].state = positions[id].state
                         /\ positions'[id].spread = positions[id].spread
    BY <1>1, <1>2, Ages
  <1>4. PairsOK' /\ todo' \subseteq OpenIds'
    BY <1>2, <1>3 DEF PairsOK, OpenIds
  <1>5. \A id \in Ids : \A low, high \in Int :
          Spans(low, high) => Bounded(positions'[id], low, high)
    BY <1>1, <1>2, Ages DEF IInv, FundingBound
  <1>6. \A id \in Ids : positions'[id].state = "open" => id \in OpenIds
    BY <1>3 DEF OpenIds
  <1> QED
    BY <1>3, <1>4, <1>5, <1>6, Remapped

\* What a dead process leaves of a pair.
Left(p) ==
  IF p.state = "open" THEN [NoPosition EXCEPT !.state = "lost", !.coin = p.coin] ELSE p

LEMMA Leaves ==
  ASSUME NEW p \in Positions
  PROVE  /\ Left(p) \in Positions /\ Left(p).coin = p.coin
         /\ Left(p).state = IF p.state = "open" THEN "lost" ELSE p.state
         /\ \A low, high \in Int : Spans(low, high) /\ Bounded(p, low, high)
              => Bounded(Left(p), low, high)
  <1>1. CASE p.state # "open"
    BY <1>1 DEF Left
  <1>2. CASE p.state = "open"
    <2> DEFINE c == p.coin
    <2>1. c \in Coins \cup {None}
      BY DEF Positions
    <2>2. Left(p) = [state |-> "lost", coin |-> c, dir |-> 1, hl |-> 0, binance |-> 0,
                     spread |-> 0, age |-> 0, since |-> 0, funding |-> 0]
      BY <1>2 DEF Left, NoPosition
    <2> HIDE DEF c
    <2>3. Left(p) \in Positions
      BY <2>1, <2>2 DEF Positions
    <2>4. \A low, high \in Int : (high - low) * (0 - 0) = 0
      OBVIOUS
    <2>5. \A low, high \in Int : Bounded(Left(p), low, high)
      BY <2>2, <2>4 DEF Bounded, Magnitude
    <2> QED
      BY <1>2, <2>2, <2>3, <2>5 DEF c
  <1> QED
    BY <1>1, <1>2

LEMMA DownStep == ASSUME IInv, Down PROVE IInv'
  <1>1. \A id \in Ids : positions[id] \in Positions
    BY DEF IInv, PairsOK
  <1>2. positions' = [id \in Ids |-> Left(positions[id])] /\ todo' = {}
    BY DEF Down, Left
  <1>3. \A id \in Ids : positions'[id] \in Positions /\ positions'[id].state # "open"
    BY <1>1, <1>2, Leaves
  <1>4. PairsOK' /\ todo' \subseteq OpenIds'
    BY <1>2, <1>3 DEF PairsOK
  <1>5. \A id \in Ids : \A low, high \in Int :
          Spans(low, high) => Bounded(positions'[id], low, high)
    BY <1>1, <1>2, Leaves DEF IInv, FundingBound
  <1> QED
    BY <1>3, <1>4, <1>5, Remapped

LEMMA Unmoved ==
  ASSUME IInv, UNCHANGED <<positions, todo>>
  PROVE  IInv'
  BY DEF IInv, PairsOK, TodoIsOpen, OpenIds, Entered, FundingBound, Bounded, Spans

LEMMA Step == IInv /\ [Next]_vars => IInv'
  <1> SUFFICES ASSUME IInv, [Next]_vars PROVE IInv'
    OBVIOUS
  <1>1. CASE CheckDone \/ ScanDone \/ Start \/ UNCHANGED vars
    BY <1>1, Unmoved DEF CheckDone, ScanDone, Start, vars
  <1> QED
    BY <1>1, CheckStep, OpenStep, WakeStep, DownStep DEF Next

THEOREM Invariance == Spec => []IInv
  BY Initially, Step, PTL DEF Spec

-----------------------------------------------------------------------------
(* The theorems *)

\* open_position and _check_existing_positions: whatever the thresholds are, a
\* pair is closed at the quotes it was opened on only when it is too old or when
\* its spread is wide enough for the one threshold and narrow for the other.
THEOREM NeverFlaps == Spec => []NoFlapping
  <1>1. ASSUME IInv PROVE NoFlapping
    <2> SUFFICES ASSUME NEW id \in OpenIds, NEW pair \in EntryQuotes(positions[id]),
                        ShouldClose(positions[id], pair.hl, pair.bn),
                        ~(positions[id].age > MAX_HOLD)
                 PROVE  Magnitude(positions[id].spread) \in Overlap
      BY DEF NoFlapping
    <2> DEFINE spread == positions[id].spread
    <2>1. /\ id \in Ids /\ positions[id] \in Positions
          /\ Magnitude(spread) >= ENTRY_THRESHOLD - Tolerance
      BY <1>1 DEF IInv, PairsOK, Entered, OpenIds
    <2>2. /\ pair.hl.px = positions[id].hl /\ pair.bn.px = positions[id].binance
          /\ pair.hl.rate - pair.bn.rate = spread
      BY DEF EntryQuotes
    <2>3. spread \in Int /\ positions[id].hl \in Nat
      BY <2>1 DEF Positions
    <2>4. ~(Magnitude(pair.hl.px - positions[id].hl) > MAX_LOSS)
      BY <2>2, <2>3, PairLimitAssumption DEF Magnitude
    <2>5. Magnitude(spread) < EXIT_THRESHOLD
      BY <2>2, <2>4 DEF ShouldClose
    <2>6. Magnitude(spread) \in Int
      BY <2>3 DEF Magnitude
    <2> QED
      BY <2>1, <2>5, <2>6, PairThresholdAssumption DEF Overlap
  <1> QED
    BY <1>1, Invariance, PTL

\* What is left of it when the thresholds are further apart than the tolerance,
\* as those of the defaults are.
Kept ==
  \A id \in OpenIds : \A pair \in EntryQuotes(positions[id]) :
    ShouldClose(positions[id], pair.hl, pair.bn) => positions[id].age > MAX_HOLD

THEOREM PairsAreKept ==
  ASSUME EXIT_THRESHOLD + Tolerance <= ENTRY_THRESHOLD
  PROVE  Spec => []Kept
  <1>1. Overlap = {}
    BY PairThresholdAssumption DEF Overlap
  <1>2. NoFlapping => Kept
    BY <1>1 DEF NoFlapping, Kept
  <1> QED
    BY <1>2, NeverFlaps, PTL

\* _accumulate_funding: over outages of either venue no hour of a pair is paid
\* for twice.
THEOREM FundingStaysBounded == Spec => []FundingIsCollectedOnce
  <1>1. ASSUME IInv PROVE FundingIsCollectedOnce
    <2> SUFFICES ASSUME NEW id \in Ids, NEW low \in Rates \cup {0}, NEW high \in Rates \cup {0},
                        \A rate \in Rates \cup {0} : low <= rate /\ rate <= high
                 PROVE  Magnitude(positions[id].funding) <= (high - low) * positions[id].age
      BY DEF FundingIsCollectedOnce
    <2> DEFINE p == positions[id]
    <2>1. low \in Int /\ high \in Int /\ Spans(low, high) /\ low <= high
      BY RateIsInt DEF Spans
    <2>2. p.age \in Nat /\ p.since \in Nat /\ p.funding \in Int
      BY <1>1 DEF IInv, PairsOK, Positions
    <2>3. p.since <= p.age /\ Magnitude(p.funding) <= (high - low) * (p.age - p.since)
      BY <1>1, <2>1 DEF IInv, FundingBound, Bounded
    <2>4. (high - low) * (p.age - p.since) = (high - low) * p.age - (high - low) * p.since
      BY <2>1, <2>2
    <2>5. (high - low) * p.since >= 0
      <3>1. high - low \in Nat
        BY <2>1
      <3> DEFINE w == high - low
                 n == p.since
      <3>2. w * n \in Nat
        <4>1. w \in Nat /\ n \in Nat
          BY <2>2, <3>1
        <4> HIDE DEF w, n
        <4> QED
          BY <4>1
      <3> QED
        BY <3>2
    <2>6. Magnitude(p.funding) \in Int
      BY <2>2 DEF Magnitude
    <2> QED
      BY <2>1, <2>2, <2>3, <2>4, <2>5, <2>6
  <1> QED
    BY <1>1, Invariance, PTL

-----------------------------------------------------------------------------
(* Money                                                                   *)

\* Pairs exist on paper only, and an open one knows the prices of its legs.
Priced ==
  \A id \in OpenIds :
    paper /\ positions[id].hl \in Prices /\ positions[id].binance \in Prices

MoneyInv == Priced /\ capital \in Int

LEMMA PriceIsPositive == ASSUME NEW px \in Prices PROVE px \in Nat \ {0}
  BY PairMarketAssumption

\* A rounded quantity is off by at most half a unit.
LEMMA Rounding ==
  ASSUME NEW n \in Nat, NEW d \in Nat \ {0}
  PROVE  /\ Rounded(n, d) \in Nat
         /\ 2 * (Rounded(n, d) * d - n) <= d /\ 2 * (n - Rounded(n, d) * d) <= d
  <1> DEFINE q == n \div d
             r == n % d
  <1>1. q \in Nat /\ r \in Nat /\ r < d /\ n = d * q + r
    OBVIOUS
  <1>2. d * q \in Nat /\ q * d = d * q /\ (q + 1) * d = d * q + d
    BY <1>1
  <1>3. Rounded(n, d) = IF 2 * r > d \/ (2 * r = d /\ q % 2 = 1) THEN q + 1 ELSE q
    BY DEF Rounded
  <1> DEFINE m == d * q
  <1> HIDE DEF q, r
  <1>4. CASE Rounded(n, d) = q + 1 /\ 2 * r >= d
    <2>1. Rounded(n, d) * d = m + d /\ m \in Nat /\ n = m + r
      BY <1>1, <1>2, <1>4
    <2> HIDE DEF m
    <2> QED
      BY <1>1, <1>4, <2>1
  <1>5. CASE Rounded(n, d) = q /\ 2 * r <= d
    <2>1. Rounded(n, d) * d = m /\ m \in Nat /\ n = m + r
      BY <1>1, <1>2, <1>5
    <2> HIDE DEF m
    <2> QED
      BY <1>1, <1>5, <2>1
  <1> QED
    BY <1>1, <1>3, <1>4, <1>5

\* The quantity of a leg.
LEMMA Bought ==
  ASSUME NEW px \in Prices
  PROVE  /\ Quantity(px) \in Nat
         /\ 2 * (Quantity(px) * px - Notional) <= px /\ 2 * (Notional - Quantity(px) * px) <= px
  BY PriceIsPositive, PairMarketAssumption, Rounding DEF Quantity

LEMMA SeenPrices ==
  ASSUME NEW p \in Positions, NEW qh \in HlQuotes \cup {None},
         NEW qb \in BinanceQuotes \cup {None}
  PROVE  HlSeen(p, qh).px \in Nat /\ BinanceSeen(p, qb).px \in Nat
  <1>1. Prices \cup {0} \subseteq Nat
    BY PairMarketAssumption
  <1> QED
    BY <1>1 DEF HlSeen, BinanceSeen, HlQuotes, BinanceQuotes, Positions

LEMMA ProceedsIsInt ==
  ASSUME NEW p \in Positions, p.hl \in Prices, p.binance \in Prices,
         NEW hl, NEW bn, hl.px \in Nat, bn.px \in Nat
  PROVE  Proceeds(p, hl, bn) \in Int
  <1> DEFINE k == Quantity(p.hl)
             m == Quantity(p.binance)
             x == p.hl - hl.px
             y == bn.px - p.binance
  <1>1. k \in Nat /\ m \in Nat
    BY Bought
  <1>2. x \in Int /\ y \in Int /\ p.dir \in Int
    BY DEF Positions
  <1>3. Proceeds(p, hl, bn) = p.dir * (x * k + y * m) - Fee
    BY DEF Proceeds
  <1> HIDE DEF k, m, x, y
  <1> QED
    BY <1>1, <1>2, <1>3, PairMarketAssumption

\* What Check makes of a pair.
LEMMA CheckPair ==
  ASSUME IInv, NEW id \in Ids, NEW qh \in HlQuotes \cup {None},
         NEW qb \in BinanceQuotes \cup {None}, Check(id, qh, qb)
  PROVE  LET p == Accumulated(positions[id], HlSeen(positions[id], qh),
                              BinanceSeen(positions[id], qb))
         IN /\ id \in OpenIds /\ p \in Positions /\ UNCHANGED paper
            /\ p.hl = positions[id].hl /\ p.binance = positions[id].binance
            /\ positions'[id].state = "closed" =>
                 Close(id, p, HlSeen(positions[id], qh), BinanceSeen(positions[id], qb))
            /\ positions'[id].state # "closed" => UNCHANGED capital
            /\ positions'[id].hl = positions[id].hl
            /\ positions'[id].binance = positions[id].binance
            /\ \A other \in Ids \ {id} : positions'[other] = positions[other]
  <1> DEFINE hl == HlSeen(positions[id], qh)
             bn == BinanceSeen(positions[id], qb)
             p == Accumulated(positions[id], hl, bn)
             closed == [p EXCEPT !.state = "closed"]
  <1>1. positions \in [Ids -> Positions] /\ id \in OpenIds
    BY DEF IInv, PairsOK, TodoIsOpen, Check
  <1>2. hl.rate \in Rates \cup {0} /\ bn.rate \in Rates \cup {0}
    BY <1>1, Quotes
  <1>3. /\ p \in Positions /\ p.state = positions[id].state
        /\ p.hl = positions[id].hl /\ p.binance = positions[id].binance
    <2> HIDE DEF hl, bn
    <2> QED
      BY <1>1, <1>2, Accumulates
  <1>4. CASE ShouldClose(p, hl, bn)
    <2>1. Close(id, p, hl, bn) /\ UNCHANGED paper
      BY <1>4 DEF Check
    <2>2. positions' = [positions EXCEPT ![id] = closed]
      BY <2>1 DEF Close
    <2> HIDE DEF p
    <2>3. closed.state = "closed" /\ closed.hl = p.hl /\ closed.binance = p.binance
      BY <1>3 DEF Positions
    <2> HIDE DEF closed, hl, bn
    <2> SUFFICES /\ id \in OpenIds /\ p \in Positions /\ UNCHANGED paper
                 /\ p.hl = positions[id].hl /\ p.binance = positions[id].binance
                 /\ Close(id, p, hl, bn) /\ positions'[id].state = "closed"
                 /\ positions'[id].hl = positions[id].hl
                 /\ positions'[id].binance = positions[id].binance
                 /\ \A other \in Ids \ {id} : positions'[other] = positions[other]
      BY DEF p, hl, bn
    <2> QED
      BY <1>1, <1>3, <2>1, <2>2, <2>3
  <1>5. CASE ~ShouldClose(p, hl, bn)
    <2>1. positions' = [positions EXCEPT ![id] = p] /\ UNCHANGED <<capital, paper>>
      BY <1>5 DEF Check, Keep
    <2> HIDE DEF p
    <2>2. /\ positions'[id] = p /\ p.state = "open"
          /\ \A other \in Ids \ {id} : positions'[other] = positions[other]
      BY <1>1, <1>3, <2>1 DEF OpenIds
    <2> QED
      BY <1>1, <1>3, <2>1, <2>2 DEF p
  <1> QED
    BY <1>4, <1>5

LEMMA MoneyStep == IInv /\ MoneyInv /\ [Next]_vars => MoneyInv'
  <1> SUFFICES ASSUME IInv, MoneyInv, [Next]_vars PROVE MoneyInv'
    OBVIOUS
  <1>1. Fee \in Int /\ PAPER_CAPITAL \in Int /\ capital \in Int
    BY PairMarketAssumption, PairLimitAssumption DEF MoneyInv
  <1>2. ASSUME NEW id \in Ids, NEW qh \in HlQuotes \cup {None},
               NEW qb \in BinanceQuotes \cup {None}, Check(id, qh, qb)
        PROVE  MoneyInv'
    <2> DEFINE hl == HlSeen(positions[id], qh)
               bn == BinanceSeen(positions[id], qb)
               p == Accumulated(positions[id], hl, bn)
    <2>1. /\ id \in OpenIds /\ p \in Positions /\ UNCHANGED paper
          /\ p.hl = positions[id].hl /\ p.binance = positions[id].binance
          /\ positions'[id].state = "closed" => Close(id, p, hl, bn)
          /\ positions'[id].state # "closed" => UNCHANGED capital
          /\ positions'[id].hl = positions[id].hl
          /\ positions'[id].binance = positions[id].binance
          /\ \A other \in Ids \ {id} : positions'[other] = positions[other]
      BY <1>2, CheckPair
    <2>2. hl.px \in Nat /\ bn.px \in Nat
      BY SeenPrices DEF IInv, PairsOK
    <2> HIDE DEF p, hl, bn
    <2>3. Priced'
      BY <2>1 DEF MoneyInv, Priced, OpenIds
    <2>4. p.hl \in Prices /\ p.binance \in Prices
      BY <2>1 DEF MoneyInv, Priced
    <2>5. Proceeds(p, hl, bn) \in Int
      BY <2>1, <2>2, <2>4, ProceedsIsInt
    <2>6. capital' \in Int
      BY <1>1, <2>1, <2>5 DEF Close
    <2> QED
      BY <2>3, <2>6 DEF MoneyInv
  <1>3. ASSUME NEW id \in Ids, NEW c \in Coins, NEW hl \in HlQuotes,
               NEW bn \in BinanceQuotes, Open(id, c, hl, bn)
        PROVE  MoneyInv'
    <2>1. positions'[id].hl = hl.px /\ positions'[id].binance = bn.px
      BY <1>3, OpenStep
    <2>2. hl.px \in Prices /\ bn.px \in Prices
      BY <1>3 DEF Open, HlQuotes, BinanceQuotes
    <2>3. \A other \in Ids \ {id} : positions'[other] = positions[other]
      BY <1>3 DEF Open, IInv, PairsOK
    <2>4. paper /\ UNCHANGED paper /\ capital' = capital - Fee
      BY <1>3 DEF Open
    <2> QED
      BY <1>1, <2>1, <2>2, <2>3, <2>4 DEF MoneyInv, Priced, OpenIds
  <1>4. CASE Wake
    <2>1. \A id \in Ids : positions[id] \in Positions
      BY DEF IInv, PairsOK
    <2>2. /\ positions' = [id \in Ids |-> Aged(positions[id])]
          /\ UNCHANGED <<paper, capital>>
      BY <1>4 DEF Wake
    <2>3. \A id \in Ids : /\ positions'[id].state = positions[id].state
                           /\ positions'[id].hl = positions[id].hl
                           /\ positions'[id].binance = positions[id].binance
      BY <2>1, <2>2, Ages
    <2> QED
      BY <2>2, <2>3 DEF MoneyInv, Priced, OpenIds
  <1>5. CASE Down
    <2>1. \A id \in Ids : positions[id] \in Positions
      BY DEF IInv, PairsOK
    <2>2. positions' = [id \in Ids |-> Left(positions[id])] /\ UNCHANGED capital
      BY <1>5 DEF Down, Left
    <2>3. \A id \in Ids : positions'[id].state # "open"
      BY <2>1, <2>2, Leaves
    <2> QED
      BY <2>2, <2>3 DEF MoneyInv, Priced, OpenIds
  <1>6. CASE CheckDone \/ ScanDone \/ Start \/ UNCHANGED vars
    <2>1. UNCHANGED <<positions, paper>> /\ (UNCHANGED capital \/ capital' = PAPER_CAPITAL)
      BY <1>6 DEF CheckDone, ScanDone, Start, vars
    <2> QED
      BY <1>1, <2>1 DEF MoneyInv, Priced, OpenIds
  <1> QED
    BY <1>2, <1>3, <1>4, <1>5, <1>6 DEF Next

LEMMA MoneyInit == Init => MoneyInv
  BY PairLimitAssumption DEF Init, MoneyInv, Priced, OpenIds, NoPosition

THEOREM MoneyInvariance == Spec => []MoneyInv
  BY MoneyInit, MoneyStep, Invariance, PTL DEF Spec

\* What is off by at most half of d, d times.
LEMMA Scales ==
  ASSUME NEW e \in Int, NEW w \in Nat, NEW d \in Int, 2 * e <= w, 2 * (-e) <= w
  PROVE  2 * Magnitude(d * e) <= Magnitude(d) * w /\ Magnitude(d) * w \in Nat
  <1> DEFINE a == Magnitude(d)
  <1>1. a \in Nat
    BY DEF Magnitude
  <1>2. a * (w - 2 * e) \in Nat /\ a * (w + 2 * e) \in Nat
    <2>1. w - 2 * e \in Nat /\ w + 2 * e \in Nat
      OBVIOUS
    <2> HIDE DEF a
    <2> QED
      BY <1>1, <2>1
  <1>3. a * (w - 2 * e) = a * w - 2 * (a * e) /\ a * (w + 2 * e) = a * w + 2 * (a * e)
    BY <1>1
  <1>4. a * e \in Int /\ a * w \in Nat
    <2> HIDE DEF a
    <2> QED
      BY <1>1
  <1>5. d * e = a * e \/ d * e = -(a * e)
    BY DEF Magnitude
  <1>6. d * e \in Int
    OBVIOUS
  <1> DEFINE ae == a * e
             aw == a * w
             de == d * e
  <1>7. 2 * ae <= aw /\ -(2 * ae) <= aw /\ ae \in Int /\ aw \in Nat /\ de \in Int
    BY <1>2, <1>3, <1>4, <1>6
  <1>8. 2 * Magnitude(de) <= aw
    <2>1. de = ae \/ de = -ae
      BY <1>5
    <2> HIDE DEF ae, aw, de
    <2> QED
      BY <1>7, <2>1 DEF Magnitude
  <1> QED
    BY <1>7, <1>8

\* A bound on a number bounds its multiples, and the other way round.
LEMMA Widens ==
  ASSUME NEW a \in Int, NEW w \in Nat, NEW c \in Nat, 2 * Magnitude(a) <= w
  PROVE  2 * Magnitude(a * c) <= w * c
  <1>1. w - 2 * a \in Nat /\ w + 2 * a \in Nat
    BY DEF Magnitude
  <1>2. (w - 2 * a) * c \in Nat /\ (w + 2 * a) * c \in Nat
    BY <1>1
  <1>3. (w - 2 * a) * c = w * c - 2 * (a * c) /\ (w + 2 * a) * c = w * c + 2 * (a * c)
    OBVIOUS
  <1>4. a * c \in Int /\ w * c \in Nat
    OBVIOUS
  <1> DEFINE ac == a * c
             wc == w * c
  <1>5. wc - 2 * ac \in Nat /\ wc + 2 * ac \in Nat /\ ac \in Int /\ wc \in Nat
    BY <1>2, <1>3, <1>4
  <1>6. 2 * Magnitude(ac) <= wc
    <2> HIDE DEF ac, wc
    <2> QED
      BY <1>5 DEF Magnitude
  <1> QED
    BY <1>6

LEMMA Narrows ==
  ASSUME NEW a \in Int, NEW w \in Int, NEW c \in Nat \ {0}, 2 * Magnitude(a * c) <= w * c
  PROVE  2 * Magnitude(a) <= w
  <1> DEFINE g == Magnitude(a)
  <1>1. g \in Nat
    BY DEF Magnitude
  <1>2. Magnitude(a * c) = g * c
    <2>1. CASE a < 0
      <3>1. a * c = -((-a) * c) /\ (-a) * c > 0
        BY <2>1
      <3> DEFINE ac == (-a) * c
      <3>2. ac \in Int /\ ac > 0 /\ a * c = -ac
        BY <2>1, <3>1
      <3>3. Magnitude(a * c) = ac
        <4> HIDE DEF ac
        <4> QED
          BY <3>2 DEF Magnitude
      <3> QED
        BY <2>1, <3>3 DEF Magnitude
    <2>2. CASE ~(a < 0)
      <3>1. a * c \in Nat
        BY <2>2
      <3> QED
        BY <2>2, <3>1 DEF Magnitude
    <2> QED
      BY <2>1, <2>2
  <1> HIDE DEF g
  <1>3. (2 * g) * c <= w * c
    BY <1>1, <1>2
  <1>4. ASSUME 2 * g > w PROVE FALSE
    <2>1. 2 * g - w \in Nat \ {0}
      BY <1>1, <1>4
    <2>2. (2 * g - w) * c > 0
      BY <2>1
    <2>3. (2 * g - w) * c = (2 * g) * c - w * c
      BY <1>1
    <2>4. (2 * g) * c \in Int /\ w * c \in Int
      BY <1>1
    <2> QED
      BY <1>3, <2>2, <2>3, <2>4
  <1> QED
    BY <1>1, <1>4 DEF g

\* Two legs of the same notional n, entered at h and b, seen at prices x and y
\* that have moved by the same factor.
LEMMA LegsOffset ==
  ASSUME NEW n \in Nat, NEW h \in Nat \ {0}, NEW b \in Nat \ {0}, NEW x \in Nat, NEW y \in Nat,
         NEW k \in Nat, NEW m \in Nat, x * b = y * h,
         2 * (k * h - n) <= h, 2 * (n - k * h) <= h, 2 * (m * b - n) <= b, 2 * (n - m * b) <= b
  PROVE  2 * Magnitude((h - x) * k + (y - b) * m) <= Magnitude(x - h) + Magnitude(y - b)
  <1> DEFINE d == h - x
             e == y - b
             total == d * k + e * m
             u == k * h - n
             v == m * b - n
             most == Magnitude(d) + Magnitude(e)
  <1>1. d \in Int /\ e \in Int /\ u \in Int /\ v \in Int /\ total \in Int
    OBVIOUS
  <1>2. d * b + e * h = 0
    <2>1. d * b = h * b - x * b /\ e * h = y * h - b * h /\ h * b = b * h
      OBVIOUS
    <2>2. x * b \in Int /\ y * h \in Int /\ h * b \in Int
      OBVIOUS
    <2> QED
      BY <2>1, <2>2
  \* Without the rounding nothing is left.
  <1>3. total * (h * b) = (d * u) * b + (e * v) * h
    <2>1. total * (h * b) = (d * (k * h)) * b + (e * (m * b)) * h
      OBVIOUS
    <2>2. (d * u) * b = (d * (k * h)) * b - n * (d * b)
      OBVIOUS
    <2>3. (e * v) * h = (e * (m * b)) * h - n * (e * h)
      OBVIOUS
    <2>4. n * (d * b) + n * (e * h) = n * (d * b + e * h)
      OBVIOUS
    <2>5. n * (d * b + e * h) = 0
      BY <1>2
    <2> QED
      BY <2>1, <2>2, <2>3, <2>4, <2>5
  <1>4. /\ 2 * Magnitude(d * u) <= Magnitude(d) * h /\ Magnitude(d) * h \in Nat
        /\ 2 * Magnitude(e * v) <= Magnitude(e) * b /\ Magnitude(e) * b \in Nat
    <2>1. 2 * u <= h /\ 2 * (-u) <= h /\ 2 * v <= b /\ 2 * (-v) <= b
      OBVIOUS
    <2> HIDE DEF d, e, u, v
    <2> QED
      BY <1>1, <2>1, Scales
  <1>5. 2 * Magnitude((d * u) * b) <= (Magnitude(d) * h) * b
    <2> DEFINE a == d * u
               w == Magnitude(d) * h
    <2>1. a \in Int /\ w \in Nat /\ b \in Nat /\ 2 * Magnitude(a) <= w
      BY <1>1, <1>4
    <2> HIDE DEF a, w
    <2>2. 2 * Magnitude(a * b) <= w * b
      BY <2>1, Widens
    <2> QED
      BY <2>2 DEF a, w
  <1>6. 2 * Magnitude((e * v) * h) <= (Magnitude(e) * b) * h
    <2> DEFINE a == e * v
               w == Magnitude(e) * b
    <2>1. a \in Int /\ w \in Nat /\ h \in Nat /\ 2 * Magnitude(a) <= w
      BY <1>1, <1>4
    <2> HIDE DEF a, w
    <2>2. 2 * Magnitude(a * h) <= w * h
      BY <2>1, Widens
    <2> QED
      BY <2>2 DEF a, w
  <1>7. 2 * Magnitude(total * (h * b)) <= most * (h * b)
    <2> DEFINE one == (d * u) * b
               two == (e * v) * h
               first == (Magnitude(d) * h) * b
               second == (Magnitude(e) * b) * h
    <2>1. one \in Int /\ two \in Int
      BY <1>1
    <2>2. first \in Int /\ second \in Int
      BY <1>4
    <2>3. most * (h * b) = first + second
      <3>1. Magnitude(d) \in Int /\ Magnitude(e) \in Int
        BY <1>1 DEF Magnitude
      <3> QED
        BY <3>1
    <2>4. total * (h * b) = one + two /\ 2 * Magnitude(one) <= first /\ 2 * Magnitude(two) <= second
      BY <1>3, <1>5, <1>6
    <2>5. 2 * Magnitude(one + two) <= first + second
      <3> HIDE DEF one, two, first, second
      <3> QED
        BY <2>1, <2>2, <2>4 DEF Magnitude
    <2> QED
      BY <2>3, <2>4, <2>5
  <1>8. h * b \in Nat \ {0} /\ most \in Int
    <2>1. Magnitude(d) \in Int /\ Magnitude(e) \in Int
      BY <1>1 DEF Magnitude
    <2> QED
      BY <2>1
  <1>9. 2 * Magnitude(total) <= most
    <2> HIDE DEF total, most
    <2> QED
      BY <1>1, <1>7, <1>8, Narrows
  <1>10. Magnitude(d) = Magnitude(x - h)
    BY DEF Magnitude
  <1> QED
    BY <1>9, <1>10

\* What is closed at prices that have moved by the same factor.
LEMMA ProceedsLittle ==
  ASSUME NEW p \in Positions, p.hl \in Prices, p.binance \in Prices,
         NEW hl, NEW bn, hl.px \in Nat, bn.px \in Nat,
         hl.px * p.binance = bn.px * p.hl
  PROVE  2 * Magnitude(Proceeds(p, hl, bn) + Fee)
           <= Magnitude(hl.px - p.hl) + Magnitude(bn.px - p.binance)
  <1> DEFINE h == p.hl
             b == p.binance
             x == hl.px
             y == bn.px
             k == Quantity(h)
             m == Quantity(b)
  <1>1. /\ k \in Nat /\ 2 * (k * h - Notional) <= h /\ 2 * (Notional - k * h) <= h
        /\ m \in Nat /\ 2 * (m * b - Notional) <= b /\ 2 * (Notional - m * b) <= b
    BY Bought
  <1>2. h \in Nat \ {0} /\ b \in Nat \ {0} /\ x \in Nat /\ y \in Nat /\ x * b = y * h
    BY PriceIsPositive
  <1>3. p.dir \in {-1, 1} /\ Notional \in Nat /\ Fee \in Nat
    BY PairMarketAssumption DEF Positions
  <1>4. Proceeds(p, hl, bn) = p.dir * ((h - x) * k + (y - b) * m) - Fee
    BY DEF Proceeds
  <1>7. h = p.hl /\ b = p.binance /\ x = hl.px /\ y = bn.px
    OBVIOUS
  <1> HIDE DEF h, b, x, y, k, m
  <1> DEFINE legs == (h - x) * k + (y - b) * m
  <1>5. 2 * Magnitude(legs) <= Magnitude(x - h) + Magnitude(y - b)
    BY <1>1, <1>2, <1>3, LegsOffset
  <1>6. legs \in Int
    BY <1>1, <1>2
  <1>8. Magnitude(Proceeds(p, hl, bn) + Fee) = Magnitude(legs)
    <2>1. Proceeds(p, hl, bn) = p.dir * legs - Fee
      BY <1>4
    <2> HIDE DEF legs
    <2>2. p.dir * legs = legs \/ p.dir * legs = -legs
      BY <1>3, <1>6
    <2>3. Proceeds(p, hl, bn) + Fee = legs \/ Proceeds(p, hl, bn) + Fee = -legs
      BY <1>3, <1>6, <2>1, <2>2
    <2> QED
      BY <1>6, <2>3 DEF Magnitude
  <1> QED
    BY <1>5, <1>7, <1>8

\* Whatever the prices do and however the quantities are rounded, closing a pair
\* whose venues have moved by the same factor costs its fees and at most what
\* the rounding is worth, in either direction.
THEOREM PairsAreNeutral == Spec => PairIsNeutral
  <1>1. IInv /\ MoneyInv /\ [Next]_vars =>
          [\A id \in todo, hl \in HlQuotes, bn \in BinanceQuotes :
             (/\ hl.px * positions[id].binance = bn.px * positions[id].hl
              /\ positions'[id].state = "closed" /\ Check(id, hl, bn))
             => 2 * Magnitude(capital' - (capital - Fee))
                  <= Magnitude(hl.px - positions[id].hl)
                     + Magnitude(bn.px - positions[id].binance)]_vars
    <2> SUFFICES ASSUME IInv, MoneyInv, NEW id \in todo, NEW hl \in HlQuotes,
                        NEW bn \in BinanceQuotes, Check(id, hl, bn),
                        positions'[id].state = "closed",
                        hl.px * positions[id].binance = bn.px * positions[id].hl
                 PROVE  2 * Magnitude(capital' - (capital - Fee))
                          <= Magnitude(hl.px - positions[id].hl)
                             + Magnitude(bn.px - positions[id].binance)
      OBVIOUS
    <2>0. id \in Ids
      BY DEF IInv, PairsOK
    <2>1. HlSeen(positions[id], hl) = hl /\ BinanceSeen(positions[id], bn) = bn
      BY PairQuoteAssumption DEF HlSeen, BinanceSeen
    <2> DEFINE p == Accumulated(positions[id], hl, bn)
    <2>2. /\ id \in OpenIds /\ p \in Positions
          /\ p.hl = positions[id].hl /\ p.binance = positions[id].binance
          /\ Close(id, p, hl, bn)
      BY <2>0, <2>1, CheckPair
    <2>3. hl.px \in Nat /\ bn.px \in Nat
      BY <2>0, <2>1, SeenPrices DEF IInv, PairsOK
    <2> HIDE DEF p
    <2>4. p.hl \in Prices /\ p.binance \in Prices /\ paper /\ capital \in Int
      BY <2>2 DEF MoneyInv, Priced
    <2>5. 2 * Magnitude(Proceeds(p, hl, bn) + Fee)
            <= Magnitude(hl.px - p.hl) + Magnitude(bn.px - p.binance)
      BY <2>2, <2>3, <2>4, ProceedsLittle
    <2>6. Fee \in Nat /\ Proceeds(p, hl, bn) \in Int
      BY <2>2, <2>3, <2>4, ProceedsIsInt, PairMarketAssumption
    <2>7. capital' - (capital - Fee) = Proceeds(p, hl, bn) + Fee
      BY <2>2, <2>4, <2>6 DEF Close
    <2> QED
      BY <2>2, <2>5, <2>7
  <1> QED
    BY <1>1, Invariance, MoneyInvariance, PTL DEF Spec, PairIsNeutral

\* Every reachable state has its type.
THEOREM TypeCorrect == Spec => []TypeOK
  <1> DEFINE Rest == /\ paper \in BOOLEAN
                     /\ pc \in {"down", "sleep", "check", "scan"}
                     /\ tried \subseteq Coins
                     /\ ticks \in Nat /\ restarts \in Nat
  <1>1. Init => Rest
    BY DEF Init
  <1>2. Rest /\ [Next]_vars => Rest'
    <2> SUFFICES ASSUME Rest, [Next]_vars PROVE Rest'
      OBVIOUS
    <2>2. ASSUME NEW id \in Ids, NEW qh, NEW qb, Check(id, qh, qb) PROVE Rest'
      BY <2>2 DEF Check
    <2>3. ASSUME NEW id \in Ids, NEW c \in Coins, NEW hl, NEW bn, Open(id, c, hl, bn) PROVE Rest'
      BY <2>3 DEF Open
    <2>4. CASE CheckDone \/ ScanDone \/ Start \/ UNCHANGED vars
      BY <2>4 DEF CheckDone, ScanDone, Start, vars
    <2>5. CASE Wake
      BY <2>5 DEF Wake
    <2>6. CASE Down
      <3>1. /\ pc' = "down" /\ tried' = {} /\ restarts' = restarts + 1
            /\ UNCHANGED <<paper, ticks>>
        BY <2>6 DEF Down
      <3> QED
        BY <3>1
    <2> QED
      BY <2>2, <2>3, <2>4, <2>5, <2>6 DEF Next
  <1>3. Rest /\ IInv /\ MoneyInv => TypeOK
    BY DEF TypeOK, IInv, PairsOK, MoneyInv
  <1> QED
    BY <1>1, <1>2, <1>3, Invariance, MoneyInvariance, PTL DEF Spec

-----------------------------------------------------------------------------
(* The refinement *)

\* The substitutions of Book.
LifeOf(p) == IF p.state = "none" THEN "unused" ELSE p.state
Life == [id \in Ids |-> LifeOf(positions[id])]
Market == [id \in Ids |-> positions[id].coin]

\* The abstract module has a FiniteSets of its own.
LEMMA SameCardinality == ASSUME NEW S PROVE Book!Cardinality(S) = Cardinality(S)
  BY DEF Book!Cardinality, Cardinality

LEMMA BookVars == Book!vars = <<Life, Market>> /\ Book!OpenIds = OpenIds
  BY DEF Book!vars, Book!OpenIds, Life, LifeOf, Market, OpenIds

\* A step that opens, closes or loses no pair is none of the book.
LEMMA SameBook ==
  ASSUME \A id \in Ids : /\ positions'[id].state = positions[id].state
                         /\ positions'[id].coin = positions[id].coin
  PROVE  UNCHANGED Book!vars
  BY DEF Book!vars

LEMMA BookInit == Init => Book!Init
  BY DEF Init, NoPosition, Book!Init

LEMMA BookCheck ==
  ASSUME IInv, NEW id \in Ids, NEW qh \in HlQuotes \cup {None},
         NEW qb \in BinanceQuotes \cup {None}, Check(id, qh, qb)
  PROVE  Book!Close(id) \/ UNCHANGED Book!vars
  <1> DEFINE hl == HlSeen(positions[id], qh)
             bn == BinanceSeen(positions[id], qb)
             p == Accumulated(positions[id], hl, bn)
             closed == [p EXCEPT !.state = "closed"]
  <1>1. positions \in [Ids -> Positions] /\ positions[id].state = "open"
    BY DEF IInv, PairsOK, TodoIsOpen, OpenIds, Check
  <1>2. hl.rate \in Rates \cup {0} /\ bn.rate \in Rates \cup {0}
    BY <1>1, Quotes
  <1>3. p \in Positions /\ p.state = "open" /\ p.coin = positions[id].coin
    <2> HIDE DEF hl, bn
    <2> QED
      BY <1>1, <1>2, Accumulates
  <1>4. CASE ShouldClose(p, hl, bn)
    <2>1. positions' = [positions EXCEPT ![id] = closed]
      BY <1>4 DEF Check, Close
    <2> HIDE DEF p
    <2>2. closed.state = "closed" /\ closed.coin = positions[id].coin
      BY <1>3 DEF Positions
    <2> HIDE DEF closed
    <2>3. \A other \in Ids : positions'[other] = IF other = id THEN closed ELSE positions[other]
      BY <1>1, <2>1
    <2>4. Life[id] = "open" /\ Life' = [Life EXCEPT ![id] = "closed"]
      BY <1>1, <2>2, <2>3 DEF Life, LifeOf
    <2>5. Market' = Market
      BY <2>2, <2>3 DEF Market
    <2> QED
      BY <2>4, <2>5 DEF Book!Close, Life, LifeOf, Market
  <1>5. CASE ~ShouldClose(p, hl, bn)
    <2>1. positions' = [positions EXCEPT ![id] = p]
      BY <1>5 DEF Check, Keep
    <2> HIDE DEF p
    <2> QED
      BY <1>1, <1>3, <2>1, SameBook
  <1> QED
    BY <1>4, <1>5

LEMMA BookOpen ==
  ASSUME IInv, NEW id \in Ids, NEW c \in Coins, NEW hl \in HlQuotes,
         NEW bn \in BinanceQuotes, Open(id, c, hl, bn)
  PROVE  Book!Open(id, c)
  <1>1. positions'[id].state = "open" /\ positions'[id].coin = c
    BY OpenStep
  <1>2. positions \in [Ids -> Positions]
    BY DEF IInv, PairsOK
  <1>3. \A other \in Ids \ {id} : positions'[other] = positions[other]
    BY <1>2 DEF Open
  <1>4. /\ Cardinality(OpenIds) < MAX_CONCURRENT_POSITIONS
        /\ \A other \in OpenIds : positions[other].coin # c
        /\ positions[id].state = "none"
    BY DEF Open, MayOpen, Fresh
  <1>5. Life[id] = "unused" /\ Life' = [Life EXCEPT ![id] = "open"]
    BY <1>1, <1>3, <1>4 DEF Life, LifeOf
  <1>6. Market' = [Market EXCEPT ![id] = c]
    BY <1>1, <1>3 DEF Market
  <1>7. /\ Cardinality(Book!OpenIds) < MAX_CONCURRENT_POSITIONS
        /\ \A other \in Book!OpenIds : Market[other] # c
    BY <1>4, BookVars DEF Market, OpenIds
  <1> QED
    BY <1>5, <1>6, <1>7, SameCardinality DEF Book!Open, Life, LifeOf, Market

LEMMA BookDown == ASSUME IInv, Down PROVE Book!Restart
  <1>1. \A id \in Ids : positions[id] \in Positions
    BY DEF IInv, PairsOK
  <1>2. positions' = [id \in Ids |-> Left(positions[id])]
    BY DEF Down, Left
  <1>3. \A id \in Ids : /\ positions'[id].coin = positions[id].coin
                         /\ positions'[id].state = IF positions[id].state = "open"
                                                   THEN "lost" ELSE positions[id].state
    BY <1>1, <1>2, Leaves
  <1>4. Life' = [id \in Ids |-> IF Life[id] = "open" THEN "lost" ELSE Life[id]]
    BY <1>3 DEF Life, LifeOf
  <1>5. Market' = Market
    BY <1>3 DEF Market
  <1> QED
    BY <1>4, <1>5 DEF Book!Restart, Life, LifeOf, Market

LEMMA BookStep == IInv /\ [Next]_vars => [Book!Next]_(Book!vars)
  <1> SUFFICES ASSUME IInv, [Next]_vars PROVE Book!Next \/ UNCHANGED Book!vars
    OBVIOUS
  <1>1. ASSUME NEW id \in Ids, NEW qh \in HlQuotes \cup {None},
               NEW qb \in BinanceQuotes \cup {None}, Check(id, qh, qb)
        PROVE  Book!Next \/ UNCHANGED Book!vars
    BY <1>1, BookCheck DEF Book!Next
  <1>2. ASSUME NEW id \in Ids, NEW c \in Coins, NEW hl \in HlQuotes,
               NEW bn \in BinanceQuotes, Open(id, c, hl, bn)
        PROVE  Book!Next
    BY <1>2, BookOpen DEF Book!Next
  <1>3. CASE Wake
    <2>1. \A id \in Ids : positions[id] \in Positions
      BY DEF IInv, PairsOK
    <2>2. positions' = [id \in Ids |-> Aged(positions[id])]
      BY <1>3 DEF Wake
    <2> QED
      BY <2>1, <2>2, Ages, SameBook
  <1>4. CASE Down
    BY <1>4, BookDown DEF Book!Next
  <1>5. CASE CheckDone \/ ScanDone \/ Start \/ UNCHANGED vars
    <2>1. positions' = positions
      BY <1>5 DEF CheckDone, ScanDone, Start, vars
    <2> QED
      BY <2>1, SameBook
  <1> QED
    BY <1>1, <1>2, <1>3, <1>4, <1>5 DEF Next

\* CrossExchangeArbStrategy keeps the promises of a position book: over outages,
\* deaths and restarts every pair is opened and closed once, within the limits.
THEOREM BookIsImplemented == Spec => ImplementsBook
  BY BookInit, BookStep, Invariance, PTL DEF Spec, ImplementsBook, Book!Spec
=============================================================================
