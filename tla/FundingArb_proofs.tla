-------------------------- MODULE FundingArb_proofs --------------------------
(***************************************************************************)
(* Proofs about FundingArb: for all limits, rates, prices and numbers of   *)
(* restarts the bot keeps the promises of a position book, its live book   *)
(* claims nothing the exchange has not accepted, the spot leg of a         *)
(* position is bought and sold at most once, and a paper capital whose     *)
(* last change was written outlives the process.                           *)
(*                                                                         *)
(* The inductive invariant says what every stage knows of the order it     *)
(* waits for: the checks of the entry still hold, and an order that landed *)
(* is in the records of the exchange.                                      *)
(***************************************************************************)
EXTENDS FundingArb, TLAPS

\* TypeOK in two parts.
PlaceOK ==
  /\ pc \in Stages /\ cur \in Ids \cup {None} /\ todo \subseteq Ids
  /\ positions \in [Ids -> Positions]

RestOK ==
  /\ paper \in BOOLEAN /\ landed \in BOOLEAN
  /\ tried \subseteq Coins
  /\ capital \in Int /\ saved \in Int \cup {None}
  /\ unsaved \in BOOLEAN /\ missed \in BOOLEAN
  /\ entered \in [Ids -> Coins \cup {None}]
  /\ exited \in [Ids -> BOOLEAN] /\ spot \in [Ids -> Int]
  /\ ticks \in Nat /\ restarts \in Nat

CoinsOK == \A id \in Ids : positions[id].state # "none" => positions[id].coin \in Coins

\* What is to be checked is open, and so is the position whose exit is awaited
\* or written; its hedge is sold when it is closed.
ChecksOK ==
  /\ \A id \in todo : positions[id].state = "open"
  /\ pc = "exit" =>
       /\ cur \in Ids \ todo /\ positions[cur].state = "open"
       /\ ~paper /\ landed => exited[cur]
  /\ pc = "exit_hedge" => cur \in Ids /\ positions[cur].state = "closed"

\* What open_position checked still holds while its orders are awaited, or its
\* bookings written.
EntryOK ==
  /\ pc \in {"entry", "entry_hedge"} =>
       /\ cur \in Ids /\ positions[cur].state = "placing"
       /\ Cardinality(OpenIds) < MAX_CONCURRENT_POSITIONS
       /\ \A id \in OpenIds : positions[id].coin # positions[cur].coin
  /\ pc = "entry" /\ ~paper =>
       /\ spot[cur] = 0 /\ ~positions[cur].hedged
       /\ landed => entered[cur] # None
  /\ pc = "entry_hedge" /\ ~paper =>
       /\ entered[cur] # None
       /\ spot[cur] \in {0, 1} /\ (landed => spot[cur] = 1)

SpotOK ==
  \A id \in Ids :
    /\ spot[id] \in {0, 1}
    /\ positions[id].state = "none" => spot[id] = 0
    /\ ~paper /\ positions[id].state = "open" /\ positions[id].hedged => spot[id] = 1

\* A file that lacks no change holds the capital, or nothing that would be
\* restored.
MoneyOK ==
  paper /\ ~unsaved /\ ~missed =>
    \/ saved = capital
    \/ capital = PAPER_CAPITAL /\ (saved = None \/ saved <= 0)

\* A process that is gone has nothing left to write.
DownOK == pc = "down" => ~unsaved

IInv ==
  PlaceOK /\ RestOK /\ CoinsOK /\ ChecksOK /\ EntryOK /\ BookFollowsExchange /\ SpotOK /\ MoneyOK

-----------------------------------------------------------------------------
(* The operators on one position *)

LEMMA SignIsUnit == ASSUME NEW id \in Ids PROVE Sign(id) = 1 \/ Sign(id) = -1
  BY DEF Sign

LEMMA SeenType ==
  ASSUME IInv, NEW id \in Ids, NEW q \in Quotes \cup {None}
  PROVE  Seen(id, q).rate \in Int /\ Seen(id, q).px \in Nat
  <1>1. positions[id].entry \in Nat
    BY DEF IInv, PlaceOK, Positions
  <1>2. CASE q = None
    BY <1>1, <1>2 DEF Seen
  <1>3. CASE q # None
    BY <1>3, FundingMarketAssumption DEF Seen, Quotes
  <1> QED
    BY <1>2, <1>3

\* Funding is only ever added, and nothing else but its clock changes.
LEMMA Accumulates ==
  ASSUME IInv, NEW id \in Ids, NEW q \in Quotes \cup {None}
  PROVE  LET p == Accumulated(id, Seen(id, q))
         IN /\ p \in Positions
            /\ p.state = positions[id].state /\ p.coin = positions[id].coin
            /\ p.hedged = positions[id].hedged
  <1> DEFINE p == positions[id]
             rate == Seen(id, q).rate
             pays == -Sign(id) * rate
             part == IF p.since < Period THEN p.since ELSE Period
             funding == IF pays > 0 THEN p.funding + pays * part ELSE p.funding
             since == IF p.since >= Period THEN 0 ELSE p.since
  <1>1. p \in Positions /\ p.since \in Nat /\ p.funding \in Nat /\ Period \in Nat
    BY FundingLimitAssumption DEF IInv, PlaceOK, Positions
  <1>2. rate \in Int
    BY SeenType
  <1>3. part \in Nat /\ since \in Nat
    BY <1>1
  <1>4. pays \in Int
    <2> HIDE DEF rate
    <2> QED
      BY <1>2, SignIsUnit
  <1>5. Accumulated(id, Seen(id, q)) = [p EXCEPT !.funding = funding, !.since = since]
    BY DEF Accumulated
  <1>6. funding \in Nat
    <2>1. funding = IF pays > 0 THEN p.funding + pays * part ELSE p.funding
      OBVIOUS
    <2> HIDE DEF pays, part, funding, p
    <2>2. CASE pays > 0
      <3>1. pays \in Nat
        BY <1>4, <2>2
      <3>2. pays * part \in Nat
        BY <1>3, <3>1
      <3> QED
        BY <1>1, <2>1, <2>2, <3>2
    <2>3. CASE ~(pays > 0)
      BY <1>1, <2>1, <2>3
    <2> QED
      BY <2>2, <2>3
  <1> HIDE DEF funding, since
  <1>7. Accumulated(id, Seen(id, q))
          = [state |-> p.state, coin |-> p.coin, side |-> p.side, entry |-> p.entry,
             close |-> p.close, hedged |-> p.hedged, age |-> p.age, since |-> since, funding |-> funding]
    BY <1>1, <1>5 DEF Positions
  <1> QED
    BY <1>1, <1>3, <1>6, <1>7 DEF Positions

LEMMA Ages ==
  ASSUME NEW p \in Positions
  PROVE  /\ Aged(p) \in Positions /\ Aged(p).state = p.state /\ Aged(p).coin = p.coin
         /\ Aged(p).hedged = p.hedged
  <1>1. CASE p.state = "open"
    <2>1. Aged(p) = [p EXCEPT !.age = p.age + 1, !.since = p.since + 1]
      BY <1>1 DEF Aged
    <2>2. p.age + 1 \in Nat /\ p.since + 1 \in Nat
      BY DEF Positions
    <2>3. Aged(p) = [state |-> p.state, coin |-> p.coin, side |-> p.side, entry |-> p.entry,
                     close |-> p.close, hedged |-> p.hedged, age |-> p.age + 1, since |-> p.since + 1,
                     funding |-> p.funding]
      BY <2>1 DEF Positions
    <2> QED
      BY <2>2, <2>3 DEF Positions
  <1>2. CASE p.state # "open"
    BY <1>2 DEF Aged
  <1> QED
    BY <1>1, <1>2

LEMMA Forgets ==
  ASSUME NEW p \in Positions
  PROVE  /\ Forgotten(p) \in Positions /\ Forgotten(p).coin = p.coin
         /\ p.state = "open" => Forgotten(p).state = "lost"
         /\ p.state = "placing" => Forgotten(p).state = "dropped"
         /\ p.state \notin {"open", "placing"} => Forgotten(p).state = p.state
  <1> DEFINE s == CASE p.state = "open" -> "lost"
                    [] p.state = "placing" -> "dropped"
                    [] OTHER -> p.state
  <1>1. Forgotten(p) = [state |-> s, coin |-> p.coin, side |-> "LONG", entry |-> 0, close |-> 0,
                        hedged |-> FALSE, age |-> 0, since |-> 0, funding |-> 0]
    <2>1. Forgotten(p) = [NoPosition EXCEPT !.coin = p.coin, !.state = s]
      BY DEF Forgotten
    <2> HIDE DEF s
    <2> QED
      BY <2>1 DEF NoPosition
  <1>2. /\ s \in States
        /\ p.state = "open" => s = "lost"
        /\ p.state = "placing" => s = "dropped"
        /\ p.state \notin {"open", "placing"} => s = p.state
    BY DEF Positions, States
  <1> HIDE DEF s
  <1> QED
    BY <1>1, <1>2 DEF Positions

\* The price a paper position is closed at is noted in it.
LEMMA Priced ==
  ASSUME NEW p \in Positions, NEW px \in Nat
  PROVE  LET q == [p EXCEPT !.close = px]
         IN q \in Positions /\ q.state = p.state /\ q.coin = p.coin /\ q.hedged = p.hedged
  BY DEF Positions

LEMMA Enters ==
  ASSUME NEW c \in Coins, NEW side \in {"LONG", "SHORT"}, NEW px \in Prices
  PROVE  LET q == Entered(c, side, px)
         IN q \in Positions /\ q.state = "placing" /\ q.coin = c /\ ~q.hedged
  <1>1. px \in Nat
    BY FundingMarketAssumption
  <1> QED
    BY <1>1 DEF Entered, Positions, States

\* A change of the capital is yet to be written.
LEMMA Books ==
  ASSUME IInv, NEW amount \in Int, Booked(amount)
  PROVE  /\ capital' \in Int /\ saved' \in Int \cup {None}
         /\ unsaved' \in BOOLEAN /\ missed' \in BOOLEAN
         /\ MoneyOK'
  <1>1. capital' = capital + amount /\ saved' = saved /\ capital \in Int /\ saved \in Int \cup {None}
    BY DEF Booked, IInv, RestOK
  <1>2. unsaved' /\ unsaved' \in BOOLEAN /\ missed' \in BOOLEAN
    BY Zenon DEF Booked, IInv, RestOK
  <1>3. MoneyOK'
    BY <1>2, Zenon DEF MoneyOK
  <1> QED
    BY <1>1, <1>2, <1>3

-----------------------------------------------------------------------------
(* The invariant *)

LEMMA Initially == Init => IInv
  <1> SUFFICES ASSUME Init PROVE IInv
    OBVIOUS
  <1>1. NoPosition.state = "none" /\ NoPosition \in Positions
    BY DEF NoPosition, Positions, States
  <1>2. \A id \in Ids : positions[id].state = "none" /\ spot[id] = 0
    BY <1>1 DEF Init
  <1>3. PlaceOK
    BY <1>1 DEF Init, PlaceOK, Stages
  <1>4. RestOK
    <2>1. /\ paper \in BOOLEAN /\ landed \in BOOLEAN /\ exited \in [Ids -> BOOLEAN]
          /\ unsaved \in BOOLEAN /\ missed \in BOOLEAN
      BY Zenon DEF Init
    <2>2. /\ capital \in Int /\ saved \in Int \cup {None} /\ tried \subseteq Coins
          /\ entered \in [Ids -> Coins \cup {None}] /\ spot \in [Ids -> Int]
          /\ ticks \in Nat /\ restarts \in Nat
      BY FundingLimitAssumption DEF Init
    <2> QED
      BY <2>1, <2>2 DEF RestOK
  <1>5. BookFollowsExchange /\ SpotOK /\ MoneyOK
    BY <1>2 DEF BookFollowsExchange, SpotOK, MoneyOK, Init
  <1> QED
    BY <1>2, <1>3, <1>4, <1>5 DEF Init, IInv, CoinsOK, ChecksOK, EntryOK

\* A step that touches neither the positions nor the exchange.
LEMMA QuietStep ==
  ASSUME IInv, UNCHANGED <<paper, positions, exchange>>, PlaceOK', RestOK', MoneyOK',
         todo' \subseteq todo,
         pc' \in {"exit", "exit_hedge", "entry", "entry_hedge"} => pc' = pc /\ cur' = cur
  PROVE  IInv'
  <1>1. UNCHANGED <<landed, entered, exited, spot>>
    BY DEF exchange
  <1>2. CoinsOK' /\ ChecksOK' /\ EntryOK'
    BY <1>1 DEF IInv, CoinsOK, ChecksOK, EntryOK, OpenIds
  <1>3. BookFollowsExchange' /\ SpotOK'
    BY <1>1 DEF IInv, BookFollowsExchange, SpotOK
  <1> QED
    BY <1>2, <1>3 DEF IInv

LEMMA QuietSteps ==
  ASSUME IInv, CheckDone \/ ScanDone \/ Save \/ Start \/ UNCHANGED vars
  PROVE  IInv'
  <1>1. CASE CheckDone \/ ScanDone \/ UNCHANGED vars
    <2>1. UNCHANGED <<paper, cur, todo, positions, money, exchange, bounds>>
      BY <1>1 DEF CheckDone, ScanDone, vars, task
    <2>2. /\ pc' \in Stages /\ tried' \subseteq Coins
          /\ pc' \in {"exit", "exit_hedge", "entry", "entry_hedge"} => pc' = pc
      BY <1>1 DEF CheckDone, ScanDone, vars, task, Stages, IInv, PlaceOK, RestOK
    <2>3. PlaceOK' /\ RestOK' /\ MoneyOK'
      BY <2>1, <2>2 DEF IInv, PlaceOK, RestOK, MoneyOK, money, exchange, bounds
    <2> QED
      BY <2>1, <2>2, <2>3, QuietStep
  <1>2. CASE Start
    <2>1. /\ pc' = "scan" /\ UNCHANGED <<paper, cur, todo, tried, positions, saved, unsaved, exchange, bounds>>
          /\ missed' = FALSE
          /\ capital' = IF paper THEN Restored ELSE PAPER_CAPITAL
      BY <1>2 DEF Start
    <2>2. capital' \in Int /\ capital \in Int /\ saved \in Int \cup {None} /\ None \notin Int
      BY <2>1, FundingLimitAssumption, FundingNoneAssumption DEF Restored, IInv, RestOK
    <2>3. MoneyOK'
      BY <2>1, <2>2, FundingLimitAssumption DEF IInv, MoneyOK, Restored
    <2>4. missed' \in BOOLEAN
      BY <2>1, Zenon
    <2>5. PlaceOK' /\ RestOK'
      BY <2>1, <2>2, <2>4 DEF IInv, PlaceOK, RestOK, exchange, bounds, Stages
    <2> QED
      BY <2>1, <2>3, <2>5, QuietStep
  <1>3. CASE Save
    <2>1. /\ UNCHANGED <<paper, pc, cur, todo, tried, positions, capital, exchange, bounds>>
          /\ saved' \in {saved, capital, None}
          /\ unsaved' \in BOOLEAN /\ missed' \in BOOLEAN
      <3>1. unsaved' \in BOOLEAN /\ missed' \in BOOLEAN
        BY <1>3, Zenon DEF Save
      <3> QED
        BY <1>3, <3>1 DEF Save, task
    <2>2. saved' = capital \/ missed'
      BY <1>3 DEF Save
    <2>3. MoneyOK'
      BY <2>1, <2>2 DEF MoneyOK
    <2>4. PlaceOK' /\ RestOK'
      BY <2>1 DEF IInv, PlaceOK, RestOK, exchange, bounds, Stages
    <2> QED
      BY <2>1, <2>3, <2>4, QuietStep
  <1> QED
    BY <1>1, <1>2, <1>3

-----------------------------------------------------------------------------
(* Checks and exits *)

LEMMA CheckKeepStep ==
  ASSUME IInv, NEW id \in Ids, NEW q \in Quotes \cup {None}, CheckKeep(id, q)
  PROVE  IInv'
  <1> DEFINE p == Accumulated(id, Seen(id, q))
  <1>1. /\ p \in Positions /\ p.state = positions[id].state /\ p.coin = positions[id].coin
        /\ p.hedged = positions[id].hedged
    BY Accumulates
  <1>2. positions' = [positions EXCEPT ![id] = p]
    BY DEF CheckKeep
  <1> HIDE DEF p
  <1>3. /\ pc = "check" /\ pc' = pc /\ todo' = todo \ {id}
        /\ UNCHANGED <<paper, cur, tried, capital, saved, unsaved, missed, landed, entered, exited, spot,
                       ticks, restarts>>
        /\ positions \in [Ids -> Positions] /\ positions[id].state = "open"
    BY DEF CheckKeep, money, exchange, bounds, IInv, PlaceOK, ChecksOK
  <1>4. \A other \in Ids : /\ positions'[other].state = positions[other].state
                           /\ positions'[other].coin = positions[other].coin
                           /\ positions'[other].hedged = positions[other].hedged
    BY <1>1, <1>2, <1>3
  <1>5. PlaceOK' /\ RestOK' /\ MoneyOK'
    BY <1>1, <1>2, <1>3 DEF IInv, PlaceOK, RestOK, MoneyOK
  <1>6. CoinsOK' /\ ChecksOK' /\ EntryOK'
    BY <1>3, <1>4 DEF IInv, PlaceOK, CoinsOK, ChecksOK, EntryOK
  <1>7. BookFollowsExchange' /\ SpotOK'
    BY <1>3, <1>4 DEF IInv, BookFollowsExchange, SpotOK
  <1> QED
    BY <1>5, <1>6, <1>7 DEF IInv

LEMMA CheckCloseLiveStep ==
  ASSUME IInv, NEW id \in Ids, NEW q \in Quotes \cup {None}, CheckCloseLive(id, q)
  PROVE  IInv'
  <1> DEFINE p == Accumulated(id, Seen(id, q))
  <1>1. /\ p \in Positions /\ p.state = positions[id].state /\ p.coin = positions[id].coin
        /\ p.hedged = positions[id].hedged
    BY Accumulates
  <1>2. positions' = [positions EXCEPT ![id] = p]
    BY DEF CheckCloseLive
  <1> HIDE DEF p
  <1>3. /\ pc = "check" /\ pc' = "exit" /\ cur' = id /\ todo' = todo \ {id} /\ ~paper
        /\ UNCHANGED <<paper, tried, capital, saved, unsaved, missed, entered, spot, ticks, restarts>>
        /\ positions \in [Ids -> Positions] /\ positions[id].state = "open"
        /\ exited \in [Ids -> BOOLEAN] /\ todo \subseteq Ids
    BY DEF CheckCloseLive, money, bounds, IInv, PlaceOK, RestOK, ChecksOK
  <1>4. /\ landed' \in BOOLEAN /\ exited' \in [Ids -> BOOLEAN]
        /\ landed' => exited'[id]
        /\ \A other \in Ids : exited[other] => exited'[other]
    <2>1. landed' \in BOOLEAN /\ exited' = [exited EXCEPT ![id] = @ \/ landed']
      BY DEF CheckCloseLive
    <2> QED
      BY <1>3, <2>1
  <1>5. \A other \in Ids : /\ positions'[other].state = positions[other].state
                           /\ positions'[other].coin = positions[other].coin
                           /\ positions'[other].hedged = positions[other].hedged
    BY <1>1, <1>2, <1>3
  <1>6. PlaceOK' /\ RestOK' /\ MoneyOK'
    BY <1>1, <1>2, <1>3, <1>4 DEF IInv, PlaceOK, RestOK, MoneyOK, Stages
  <1>7. CoinsOK' /\ ChecksOK' /\ EntryOK'
    BY <1>3, <1>4, <1>5 DEF IInv, CoinsOK, ChecksOK, EntryOK
  <1>8. BookFollowsExchange' /\ SpotOK'
    BY <1>3, <1>4, <1>5 DEF IInv, BookFollowsExchange, SpotOK
  <1> QED
    BY <1>6, <1>7, <1>8 DEF IInv

\* An open position that is closed is not placed, checked or sold any more.
LEMMA ClosedStep ==
  ASSUME IInv, NEW id \in Ids, NEW p \in Positions, positions[id].state = "open",
         positions' = [positions EXCEPT ![id] = p], p.state = "closed",
         p.coin = positions[id].coin, paper \/ exited[id],
         id \notin todo', todo' \subseteq todo, UNCHANGED <<paper, entered, exited>>,
         spot' \in [Ids -> Int], spot'[id] \in {0, 1},
         \A other \in Ids \ {id} : spot'[other] = spot[other]
  PROVE  /\ positions' \in [Ids -> Positions]
         /\ CoinsOK' /\ BookFollowsExchange' /\ SpotOK'
         /\ \A other \in todo' : positions'[other].state = "open"
  <1>1. /\ positions \in [Ids -> Positions] /\ todo \subseteq Ids
        /\ \A other \in Ids : positions'[other] = IF other = id THEN p ELSE positions[other]
    BY DEF IInv, PlaceOK
  <1>2. positions' \in [Ids -> Positions]
    BY <1>1
  <1>3. CoinsOK' /\ \A other \in todo' : positions'[other].state = "open"
    BY <1>1 DEF IInv, CoinsOK, ChecksOK
  <1>4. BookFollowsExchange' /\ SpotOK'
    BY <1>1 DEF IInv, BookFollowsExchange, SpotOK
  <1> QED
    BY <1>2, <1>3, <1>4

LEMMA CheckClosePaperStep ==
  ASSUME IInv, NEW id \in Ids, NEW q \in Quotes \cup {None}, CheckClosePaper(id, q)
  PROVE  IInv'
  <1> DEFINE a == Accumulated(id, Seen(id, q))
             px == Seen(id, q).px
             p == [a EXCEPT !.close = px]
             proceeds == PerpProceeds(id, px)
  <1>1. /\ a \in Positions /\ a.state = positions[id].state /\ a.coin = positions[id].coin
        /\ a.hedged = positions[id].hedged
    BY Accumulates
  <1>2. px \in Nat
    BY SeenType
  <1>3. positions' = [positions EXCEPT ![id] = p] /\ Booked(proceeds)
    BY DEF CheckClosePaper
  <1>4. proceeds \in Int
    <2>1. positions[id].entry \in Int /\ Fee \in Int
      BY FundingLimitAssumption DEF IInv, PlaceOK, Positions
    <2> HIDE DEF px
    <2> QED
      BY <1>2, <2>1, SignIsUnit DEF PerpProceeds
  <1> HIDE DEF proceeds
  <1>5. /\ capital' \in Int /\ saved' \in Int \cup {None} /\ MoneyOK'
        /\ unsaved' \in BOOLEAN /\ missed' \in BOOLEAN
    BY <1>3, <1>4, Books
  <1>6. /\ p \in Positions /\ p.state = positions[id].state /\ p.coin = positions[id].coin
        /\ p.hedged = positions[id].hedged
    <2> HIDE DEF a, px
    <2> QED
      BY <1>1, <1>2, Priced
  <1> HIDE DEF p, a, px
  <1>7. /\ pc = "check" /\ pc' = "exit" /\ cur' = id /\ todo' = todo \ {id} /\ paper
        /\ UNCHANGED <<paper, tried, landed, entered, exited, spot, ticks, restarts>>
        /\ positions \in [Ids -> Positions] /\ positions[id].state = "open" /\ todo \subseteq Ids
    BY DEF CheckClosePaper, exchange, bounds, IInv, PlaceOK, ChecksOK
  <1>8. \A other \in Ids : /\ positions'[other].state = positions[other].state
                           /\ positions'[other].coin = positions[other].coin
                           /\ positions'[other].hedged = positions[other].hedged
    BY <1>3, <1>6, <1>7
  <1>9. PlaceOK' /\ RestOK'
    BY <1>3, <1>5, <1>6, <1>7 DEF IInv, PlaceOK, RestOK, Stages
  <1>10. CoinsOK' /\ ChecksOK' /\ EntryOK'
    BY <1>7, <1>8 DEF IInv, CoinsOK, ChecksOK, EntryOK
  <1>11. BookFollowsExchange' /\ SpotOK'
    BY <1>7, <1>8 DEF IInv, BookFollowsExchange, SpotOK
  <1> QED
    BY <1>5, <1>9, <1>10, <1>11 DEF IInv

LEMMA PaperExitStep == ASSUME IInv, PaperExit PROVE IInv'
  <1> DEFINE p == [positions[cur] EXCEPT !.state = "closed"]
             proceeds == SpotProceeds(cur)
  <1>1. /\ pc = "exit" /\ cur \in Ids \ todo /\ positions[cur].state = "open" /\ paper
        /\ UNCHANGED <<paper, todo, tried, landed, entered, exited, spot, ticks, restarts>>
        /\ positions \in [Ids -> Positions] /\ positions' = [positions EXCEPT ![cur] = p]
    BY DEF PaperExit, IInv, ChecksOK, PlaceOK, exchange, bounds
  <1>2. p \in Positions /\ p.state = "closed" /\ p.coin = positions[cur].coin
    BY <1>1 DEF Positions, States
  <1>3. proceeds \in Int
    BY <1>1, FundingLimitAssumption DEF SpotProceeds, Positions
  <1>4. /\ capital' \in Int /\ saved' \in Int \cup {None} /\ MoneyOK'
        /\ unsaved' \in BOOLEAN /\ missed' \in BOOLEAN
    <2>1. CASE Booked(proceeds)
      <3> HIDE DEF proceeds
      <3> QED
        BY <1>3, <2>1, Books
    <2>2. CASE UNCHANGED money
      BY <1>1, <2>2 DEF money, IInv, RestOK, MoneyOK
    <2> QED
      BY <2>1, <2>2 DEF PaperExit
  <1>5. /\ pc' \in {"check", "exit_hedge"} /\ cur' \in Ids \cup {None}
        /\ pc' = "exit_hedge" => cur' = cur
    BY <1>1 DEF PaperExit
  <1> HIDE DEF p, proceeds
  <1>6. spot \in [Ids -> Int] /\ \A other \in Ids : spot[other] \in {0, 1}
    BY DEF IInv, RestOK, SpotOK
  <1>7. /\ positions' \in [Ids -> Positions] /\ CoinsOK' /\ BookFollowsExchange' /\ SpotOK'
        /\ \A other \in todo' : positions'[other].state = "open"
    BY <1>1, <1>2, <1>6, ClosedStep
  <1>8. positions'[cur].state = "closed"
    BY <1>1, <1>2
  <1>9. PlaceOK' /\ RestOK'
    BY <1>1, <1>4, <1>5, <1>7 DEF IInv, PlaceOK, RestOK, Stages
  <1>10. ChecksOK' /\ EntryOK'
    BY <1>1, <1>5, <1>7, <1>8 DEF ChecksOK, EntryOK
  <1> QED
    BY <1>4, <1>7, <1>9, <1>10 DEF IInv

LEMMA PaperExitHedgeStep == ASSUME IInv, PaperExitHedge PROVE IInv'
  <1> DEFINE p == [positions[cur] EXCEPT !.hedged = FALSE]
  <1>1. /\ pc = "exit_hedge" /\ pc' = "check" /\ cur' = None
        /\ cur \in Ids /\ positions[cur].state = "closed" /\ paper
        /\ UNCHANGED <<paper, todo, tried, capital, saved, unsaved, missed, landed, entered,
                       exited, spot, ticks, restarts>>
        /\ positions \in [Ids -> Positions] /\ positions' = [positions EXCEPT ![cur] = p]
    BY DEF PaperExitHedge, IInv, ChecksOK, PlaceOK, money, exchange, bounds
  <1>2. p \in Positions /\ p.state = "closed" /\ p.coin = positions[cur].coin
    BY <1>1 DEF Positions
  <1> HIDE DEF p
  <1>3. \A other \in Ids : /\ positions'[other].state = positions[other].state
                           /\ positions'[other].coin = positions[other].coin
    BY <1>1, <1>2
  <1>4. \A other \in Ids : positions[other].state = "open" =>
                            positions'[other].hedged = positions[other].hedged
    BY <1>1
  <1>5. PlaceOK' /\ RestOK' /\ MoneyOK'
    BY <1>1, <1>2 DEF IInv, PlaceOK, RestOK, MoneyOK, Stages
  <1>6. CoinsOK' /\ ChecksOK' /\ EntryOK'
    BY <1>1, <1>3 DEF IInv, PlaceOK, CoinsOK, ChecksOK, EntryOK
  <1>7. BookFollowsExchange' /\ SpotOK'
    BY <1>1, <1>3, <1>4 DEF IInv, BookFollowsExchange, SpotOK
  <1> QED
    BY <1>5, <1>6, <1>7 DEF IInv

LEMMA ExitReplyStep ==
  ASSUME IInv, NEW r, ExitReply(r)
  PROVE  IInv'
  <1>1. /\ pc = "exit" /\ cur \in Ids \ todo /\ positions[cur].state = "open" /\ ~paper
        /\ UNCHANGED <<paper, todo, tried, capital, saved, unsaved, missed, entered, exited, ticks, restarts>>
        /\ positions \in [Ids -> Positions] /\ spot \in [Ids -> Int] /\ landed \in BOOLEAN
    BY DEF ExitReply, IInv, ChecksOK, PlaceOK, RestOK, money, bounds
  <1>2. CASE ~Acknowledged(r)
    <2>1. pc' = "check" /\ cur' = None /\ landed' = FALSE /\ UNCHANGED <<positions, spot>>
      BY <1>2 DEF ExitReply, Settled
    <2>2. landed' \in BOOLEAN
      BY <2>1, Zenon
    <2>3. PlaceOK' /\ RestOK' /\ MoneyOK'
      BY <1>1, <2>1, <2>2 DEF IInv, PlaceOK, RestOK, MoneyOK, Stages
    <2>4. CoinsOK' /\ ChecksOK' /\ EntryOK'
      BY <1>1, <2>1 DEF IInv, CoinsOK, ChecksOK, EntryOK
    <2>5. BookFollowsExchange' /\ SpotOK'
      BY <1>1, <2>1 DEF IInv, BookFollowsExchange, SpotOK
    <2> QED
      BY <2>3, <2>4, <2>5 DEF IInv
  <1>3. CASE Acknowledged(r)
    <2> DEFINE p == [positions[cur] EXCEPT !.state = "closed"]
    <2>1. positions' = [positions EXCEPT ![cur] = p]
      BY <1>1, <1>3 DEF ExitReply
    <2>2. p \in Positions /\ p.state = "closed" /\ p.coin = positions[cur].coin
      BY <1>1 DEF Positions, States
    <2> HIDE DEF p
    <2>3. exited[cur]
      BY <1>1, <1>3 DEF ExitReply, PerpReplies, Acknowledged, IInv, ChecksOK
    <2>4. spot[cur] \in {0, 1} /\ (positions[cur].hedged => spot[cur] = 1)
      BY <1>1 DEF IInv, SpotOK
    <2>5. /\ pc' \in {"check", "exit_hedge"} /\ landed' \in BOOLEAN
          /\ pc' = "exit_hedge" => cur' = cur
          /\ cur' \in Ids \cup {None}
          /\ spot' \in [Ids -> Int] /\ spot'[cur] \in {0, 1}
          /\ \A other \in Ids \ {cur} : spot'[other] = spot[other]
      <3>1. CASE positions[cur].hedged
        <4>1. /\ pc' = "exit_hedge" /\ landed' \in BOOLEAN /\ cur' = cur
              /\ spot' = [spot EXCEPT ![cur] = IF landed' THEN @ - 1 ELSE @]
          BY <1>3, <3>1 DEF ExitReply
        <4> QED
          BY <1>1, <2>4, <3>1, <4>1
      <3>2. CASE ~positions[cur].hedged
        <4>1. pc' = "check" /\ landed' = FALSE /\ cur' = None /\ spot' = spot
          BY <1>3, <3>2 DEF ExitReply, Settled
        <4>2. landed' \in BOOLEAN
          BY <4>1, Zenon
        <4> QED
          BY <1>1, <2>4, <4>1, <4>2
      <3> QED
        BY <3>1, <3>2
    <2>6. /\ positions' \in [Ids -> Positions] /\ CoinsOK' /\ BookFollowsExchange' /\ SpotOK'
          /\ \A other \in todo' : positions'[other].state = "open"
      BY <1>1, <2>1, <2>2, <2>3, <2>5, ClosedStep
    <2>7. positions'[cur].state = "closed"
      BY <1>1, <2>1, <2>2
    <2>8. PlaceOK' /\ RestOK' /\ MoneyOK'
      BY <1>1, <2>5, <2>6 DEF IInv, PlaceOK, RestOK, MoneyOK, Stages
    <2>9. ChecksOK' /\ EntryOK'
      BY <1>1, <2>5, <2>6, <2>7 DEF ChecksOK, EntryOK
    <2> QED
      BY <2>6, <2>8, <2>9 DEF IInv
  <1> QED
    BY <1>2, <1>3

LEMMA ExitHedgeStep ==
  ASSUME IInv, NEW r, ExitHedgeReply(r)
  PROVE  IInv'
  <1> DEFINE h == r # "ok"
             p == [positions[cur] EXCEPT !.hedged = h]
  <1>1. /\ pc = "exit_hedge" /\ pc' = "check" /\ cur' = None /\ landed' = FALSE
        /\ cur \in Ids /\ positions[cur].state = "closed" /\ ~paper
        /\ UNCHANGED <<paper, todo, tried, capital, saved, unsaved, missed, entered, exited, spot, ticks, restarts>>
        /\ positions \in [Ids -> Positions]
    BY DEF ExitHedgeReply, Settled, IInv, ChecksOK, PlaceOK, money, bounds
  <1>2. positions' = [positions EXCEPT ![cur] = p]
    BY <1>1 DEF ExitHedgeReply
  <1>3. h \in BOOLEAN /\ landed' \in BOOLEAN
    BY <1>1, Zenon
  <1> HIDE DEF h
  <1>4. p \in Positions /\ p.state = "closed" /\ p.coin = positions[cur].coin
    BY <1>1, <1>3 DEF Positions
  <1> HIDE DEF p
  <1>5. \A other \in Ids : /\ positions'[other].state = positions[other].state
                           /\ positions'[other].coin = positions[other].coin
    BY <1>1, <1>2, <1>4
  <1>9. \A other \in Ids : positions[other].state = "open" =>
                            positions'[other].hedged = positions[other].hedged
    BY <1>1, <1>2
  <1>6. PlaceOK' /\ RestOK' /\ MoneyOK'
    BY <1>1, <1>2, <1>3, <1>4 DEF IInv, PlaceOK, RestOK, MoneyOK, Stages
  <1>7. CoinsOK' /\ ChecksOK' /\ EntryOK'
    BY <1>1, <1>5 DEF IInv, PlaceOK, CoinsOK, ChecksOK, EntryOK
  <1>8. BookFollowsExchange' /\ SpotOK'
    BY <1>1, <1>5, <1>9 DEF IInv, BookFollowsExchange, SpotOK
  <1> QED
    BY <1>6, <1>7, <1>8 DEF IInv

-----------------------------------------------------------------------------
(* Entries *)

\* A position that was never there, or whose entry was awaited, becomes p.
LEMMA EnteredStep ==
  ASSUME IInv, NEW id \in Ids, NEW p \in Positions,
         positions[id].state \in {"none", "placing"},
         positions' = [positions EXCEPT ![id] = p],
         p.state \in {"placing", "open", "dropped"}, p.coin \in Coins,
         UNCHANGED <<paper, todo, exited>>,
         \A other \in Ids \ {id} :
           entered'[other] = entered[other] /\ spot'[other] = spot[other],
         p.state = "open" => paper \/ entered'[id] # None,
         spot'[id] \in {0, 1},
         ~paper /\ p.state = "open" /\ p.hedged => spot'[id] = 1
  PROVE  /\ positions' \in [Ids -> Positions]
         /\ CoinsOK' /\ BookFollowsExchange' /\ SpotOK'
         /\ \A other \in todo' : positions'[other].state = "open"
         /\ p.state # "open" => OpenIds' = OpenIds
  <1>1. /\ positions \in [Ids -> Positions] /\ todo \subseteq Ids
        /\ \A other \in Ids : positions'[other] = IF other = id THEN p ELSE positions[other]
    BY DEF IInv, PlaceOK
  <1>2. positions' \in [Ids -> Positions]
    BY <1>1
  <1>3. CoinsOK' /\ \A other \in todo' : positions'[other].state = "open"
    BY <1>1 DEF IInv, CoinsOK, ChecksOK
  <1>4. BookFollowsExchange' /\ SpotOK'
    BY <1>1 DEF IInv, BookFollowsExchange, SpotOK
  <1>5. p.state # "open" => OpenIds' = OpenIds
    BY <1>1 DEF OpenIds
  <1> QED
    BY <1>2, <1>3, <1>4, <1>5

LEMMA OpenPaperStep ==
  ASSUME IInv, NEW id \in Ids, NEW c \in Coins, NEW side \in {"LONG", "SHORT"},
         NEW q \in Quotes, OpenPaper(id, c, side, q)
  PROVE  IInv'
  <1> DEFINE p == Entered(c, side, q.px)
  <1>1. q.px \in Prices
    BY DEF Quotes
  <1>2. p \in Positions /\ p.state = "placing" /\ p.coin = c
    BY <1>1, Enters
  <1>3. positions' = [positions EXCEPT ![id] = p]
    BY DEF OpenPaper
  <1> HIDE DEF p
  <1>4. /\ pc = "scan" /\ pc' = "entry" /\ cur' = id /\ paper /\ positions[id].state = "none"
        /\ UNCHANGED <<paper, todo, landed, entered, exited, spot, ticks, restarts>>
        /\ tried' = tried \cup {c}
        /\ Cardinality(OpenIds) < MAX_CONCURRENT_POSITIONS
        /\ \A other \in OpenIds : positions[other].coin # c
        /\ positions \in [Ids -> Positions]
    BY DEF OpenPaper, Fresh, MayOpen, exchange, bounds, IInv, PlaceOK
  <1>5. spot[id] \in {0, 1}
    BY DEF IInv, SpotOK
  <1>6. /\ positions' \in [Ids -> Positions] /\ CoinsOK' /\ BookFollowsExchange' /\ SpotOK'
        /\ \A other \in todo' : positions'[other].state = "open"
        /\ OpenIds' = OpenIds
    BY <1>2, <1>3, <1>4, <1>5, EnteredStep
  <1>7. /\ capital' \in Int /\ saved' \in Int \cup {None} /\ MoneyOK'
        /\ unsaved' \in BOOLEAN /\ missed' \in BOOLEAN
    BY Books, FundingLimitAssumption DEF OpenPaper
  <1>8. PlaceOK' /\ RestOK'
    BY <1>4, <1>6, <1>7 DEF IInv, PlaceOK, RestOK, Stages
  <1>9. ChecksOK'
    BY <1>4, <1>6 DEF ChecksOK
  <1>10. EntryOK'
    <2>1. positions'[id] = p /\ \A other \in OpenIds : positions'[other] = positions[other]
      BY <1>3, <1>4 DEF OpenIds
    <2> QED
      BY <1>2, <1>4, <1>6, <2>1 DEF EntryOK
  <1> QED
    BY <1>6, <1>7, <1>8, <1>9, <1>10 DEF IInv

LEMMA PaperEntryStep == ASSUME IInv, PaperEntry PROVE IInv'
  <1> DEFINE wanted == HedgeWanted(positions[cur].coin, positions[cur].side)
  <1>1. /\ pc = "entry" /\ cur \in Ids /\ positions[cur].state = "placing" /\ paper
        /\ UNCHANGED <<paper, todo, tried, landed, entered, exited, spot, ticks, restarts>>
        /\ positions \in [Ids -> Positions] /\ positions[cur].coin \in Coins
        /\ spot[cur] \in {0, 1}
    BY DEF PaperEntry, IInv, EntryOK, CoinsOK, PlaceOK, SpotOK, exchange, bounds
  <1>2. CASE wanted
    <2>1. pc' = "entry_hedge" /\ Booked(-Fee) /\ UNCHANGED <<cur, positions>>
      BY <1>2 DEF PaperEntry
    <2>2. /\ capital' \in Int /\ saved' \in Int \cup {None} /\ MoneyOK'
          /\ unsaved' \in BOOLEAN /\ missed' \in BOOLEAN
      BY <2>1, Books, FundingLimitAssumption
    <2>3. PlaceOK' /\ RestOK'
      BY <1>1, <2>1, <2>2 DEF IInv, PlaceOK, RestOK, Stages
    <2>4. CoinsOK' /\ ChecksOK' /\ EntryOK'
      BY <1>1, <2>1 DEF IInv, CoinsOK, ChecksOK, EntryOK, OpenIds
    <2>5. BookFollowsExchange' /\ SpotOK'
      BY <1>1, <2>1 DEF IInv, BookFollowsExchange, SpotOK
    <2> QED
      BY <2>2, <2>3, <2>4, <2>5 DEF IInv
  <1>3. CASE ~wanted
    <2> DEFINE p == [positions[cur] EXCEPT !.state = "open"]
    <2>1. /\ pc' = "scan" /\ cur' = None /\ UNCHANGED money
          /\ positions' = [positions EXCEPT ![cur] = p]
      BY <1>1, <1>3 DEF PaperEntry
    <2>2. p \in Positions /\ p.state = "open" /\ p.coin \in Coins
      BY <1>1 DEF Positions, States
    <2> HIDE DEF p
    <2>3. /\ positions' \in [Ids -> Positions] /\ CoinsOK' /\ BookFollowsExchange' /\ SpotOK'
          /\ \A other \in todo' : positions'[other].state = "open"
      BY <1>1, <2>1, <2>2, EnteredStep
    <2>4. PlaceOK' /\ RestOK' /\ MoneyOK'
      BY <1>1, <2>1, <2>3 DEF IInv, PlaceOK, RestOK, MoneyOK, money, Stages
    <2>5. ChecksOK' /\ EntryOK'
      BY <2>1, <2>3 DEF ChecksOK, EntryOK
    <2> QED
      BY <2>3, <2>4, <2>5 DEF IInv
  <1> QED
    BY <1>2, <1>3

LEMMA PaperEntryHedgeStep == ASSUME IInv, PaperEntryHedge PROVE IInv'
  <1> DEFINE old == positions[cur]
             p == [old EXCEPT !.state = "open", !.hedged = TRUE]
  <1>1. /\ pc = "entry_hedge" /\ cur \in Ids /\ positions[cur].state = "placing" /\ paper
        /\ pc' = "scan" /\ cur' = None
        /\ UNCHANGED <<paper, todo, tried, capital, saved, unsaved, missed, landed, entered,
                       exited, spot, ticks, restarts>>
        /\ positions \in [Ids -> Positions] /\ positions[cur].coin \in Coins
        /\ spot[cur] \in {0, 1}
    BY DEF PaperEntryHedge, IInv, EntryOK, CoinsOK, PlaceOK, SpotOK, money, exchange, bounds
  <1>2. positions' = [positions EXCEPT ![cur] = p]
    BY <1>1 DEF PaperEntryHedge
  <1>3. p \in Positions /\ p.state = "open" /\ p.coin = positions[cur].coin
    <2>1. "open" \in States /\ old \in Positions
      BY <1>1 DEF States
    <2> HIDE DEF old
    <2>2. p \in Positions /\ p.state = "open" /\ p.coin = old.coin
      BY <2>1 DEF Positions
    <2> QED
      BY <2>2 DEF old
  <1> HIDE DEF p
  <1>4. /\ positions' \in [Ids -> Positions] /\ CoinsOK' /\ BookFollowsExchange' /\ SpotOK'
        /\ \A other \in todo' : positions'[other].state = "open"
    BY <1>1, <1>2, <1>3, EnteredStep
  <1>5. PlaceOK' /\ RestOK' /\ MoneyOK'
    BY <1>1, <1>4 DEF IInv, PlaceOK, RestOK, MoneyOK, Stages
  <1>6. ChecksOK' /\ EntryOK'
    BY <1>1, <1>4 DEF ChecksOK, EntryOK
  <1> QED
    BY <1>4, <1>5, <1>6 DEF IInv

LEMMA OpenLiveStep ==
  ASSUME IInv, NEW id \in Ids, NEW c \in Coins, NEW side \in {"LONG", "SHORT"},
         NEW q \in Quotes, OpenLive(id, c, side, q)
  PROVE  IInv'
  <1> DEFINE p == Entered(c, side, q.px)
  <1>1. q.px \in Prices
    BY DEF Quotes
  <1>2. p \in Positions /\ p.state = "placing" /\ p.coin = c /\ ~p.hedged
    BY <1>1, Enters
  <1>3. positions' = [positions EXCEPT ![id] = p]
    BY DEF OpenLive
  <1> HIDE DEF p
  <1>4. /\ pc = "scan" /\ pc' = "entry" /\ cur' = id /\ ~paper /\ positions[id].state = "none"
        /\ UNCHANGED <<paper, todo, capital, saved, unsaved, missed, exited, spot, ticks, restarts>>
        /\ tried' = tried \cup {c}
        /\ Cardinality(OpenIds) < MAX_CONCURRENT_POSITIONS
        /\ \A other \in OpenIds : positions[other].coin # c
    BY DEF OpenLive, Fresh, MayOpen, money, bounds
  <1>5. /\ landed' \in BOOLEAN
        /\ entered' = [entered EXCEPT ![id] = IF landed' THEN ASSET ELSE None]
        /\ entered \in [Ids -> Coins \cup {None}] /\ positions \in [Ids -> Positions]
    BY DEF OpenLive, IInv, PlaceOK, RestOK
  <1>6. /\ entered' \in [Ids -> Coins \cup {None}]
        /\ \A other \in Ids \ {id} : entered'[other] = entered[other]
        /\ landed' => entered'[id] # None
    BY <1>5, FundingCoinsAssumption, FundingNoneAssumption
  <1>7. spot[id] = 0
    BY <1>4 DEF IInv, SpotOK
  <1>8. /\ positions' \in [Ids -> Positions] /\ CoinsOK' /\ BookFollowsExchange' /\ SpotOK'
        /\ \A other \in todo' : positions'[other].state = "open"
        /\ OpenIds' = OpenIds
    BY <1>2, <1>3, <1>4, <1>6, <1>7, EnteredStep
  <1>9. PlaceOK' /\ RestOK' /\ MoneyOK'
    BY <1>4, <1>5, <1>6, <1>8 DEF IInv, PlaceOK, RestOK, MoneyOK, Stages
  <1>10. ChecksOK'
    BY <1>4, <1>8 DEF ChecksOK
  <1>11. EntryOK'
    <2>1. positions'[id] = p /\ \A other \in OpenIds : positions'[other] = positions[other]
      BY <1>3, <1>4, <1>5 DEF OpenIds
    <2> QED
      BY <1>2, <1>4, <1>6, <1>7, <1>8, <2>1 DEF EntryOK
  <1> QED
    BY <1>8, <1>9, <1>10, <1>11 DEF IInv

LEMMA EntryReplyStep ==
  ASSUME IInv, NEW r, EntryReply(r)
  PROVE  IInv'
  <1> DEFINE wanted == HedgeWanted(positions[cur].coin, positions[cur].side)
  <1>1. /\ pc = "entry" /\ cur \in Ids /\ positions[cur].state = "placing" /\ ~paper
        /\ spot[cur] = 0 /\ ~positions[cur].hedged
        /\ UNCHANGED <<paper, todo, tried, capital, saved, unsaved, missed, entered, exited, ticks, restarts>>
        /\ positions \in [Ids -> Positions] /\ spot \in [Ids -> Int]
        /\ positions[cur].coin \in Coins
    BY DEF EntryReply, IInv, EntryOK, CoinsOK, PlaceOK, RestOK, money, bounds
  <1>2. Acknowledged(r) => entered[cur] # None
    BY <1>1 DEF EntryReply, PerpReplies, Acknowledged, IInv, EntryOK
  <1>3. CASE Acknowledged(r) /\ wanted
    <2>1. /\ pc' = "entry_hedge" /\ landed' \in BOOLEAN /\ UNCHANGED <<cur, positions>>
          /\ spot' = [spot EXCEPT ![cur] = IF landed' THEN @ + 1 ELSE @]
      BY <1>3 DEF EntryReply
    <2>2. /\ spot' \in [Ids -> Int] /\ spot'[cur] \in {0, 1} /\ (landed' => spot'[cur] = 1)
          /\ \A other \in Ids \ {cur} : spot'[other] = spot[other]
      BY <1>1, <2>1
    <2>3. PlaceOK' /\ RestOK' /\ MoneyOK'
      BY <1>1, <2>1, <2>2 DEF IInv, PlaceOK, RestOK, MoneyOK, Stages
    <2>4. CoinsOK' /\ ChecksOK'
      BY <1>1, <2>1 DEF IInv, CoinsOK, ChecksOK
    <2>5. EntryOK'
      BY <1>1, <1>2, <1>3, <2>1, <2>2 DEF IInv, EntryOK, OpenIds
    <2>6. BookFollowsExchange' /\ SpotOK'
      BY <1>1, <2>1, <2>2 DEF IInv, BookFollowsExchange, SpotOK
    <2> QED
      BY <2>3, <2>4, <2>5, <2>6 DEF IInv
  <1>4. CASE ~(Acknowledged(r) /\ wanted)
    <2> DEFINE s == IF Acknowledged(r) THEN "open" ELSE "dropped"
               p == [positions[cur] EXCEPT !.state = s]
    <2>1. /\ pc' = "scan" /\ cur' = None /\ landed' = FALSE /\ UNCHANGED spot
          /\ positions' = [positions EXCEPT ![cur] = p]
      BY <1>1, <1>4 DEF EntryReply, Settled
    <2>2. landed' \in BOOLEAN
      BY <2>1, Zenon
    <2>3. p \in Positions /\ p.state = s /\ p.coin \in Coins /\ ~p.hedged
      BY <1>1 DEF Positions, States
    <2> HIDE DEF p
    <2>4. /\ positions' \in [Ids -> Positions] /\ CoinsOK' /\ BookFollowsExchange' /\ SpotOK'
          /\ \A other \in todo' : positions'[other].state = "open"
      BY <1>1, <1>2, <2>1, <2>3, EnteredStep
    <2>5. PlaceOK' /\ RestOK' /\ MoneyOK'
      BY <1>1, <2>1, <2>2, <2>4 DEF IInv, PlaceOK, RestOK, MoneyOK, Stages
    <2>6. ChecksOK' /\ EntryOK'
      BY <2>1, <2>4 DEF ChecksOK, EntryOK
    <2> QED
      BY <2>4, <2>5, <2>6 DEF IInv
  <1> QED
    BY <1>3, <1>4

LEMMA EntryHedgeStep ==
  ASSUME IInv, NEW r, EntryHedgeReply(r)
  PROVE  IInv'
  <1> DEFINE h == r = "ok"
             old == positions[cur]
             p == [old EXCEPT !.state = "open", !.hedged = h]
  <1>1. /\ pc = "entry_hedge" /\ cur \in Ids /\ positions[cur].state = "placing" /\ ~paper
        /\ entered[cur] # None /\ spot[cur] \in {0, 1}
        /\ pc' = "scan" /\ cur' = None /\ landed' = FALSE
        /\ UNCHANGED <<paper, todo, tried, capital, saved, unsaved, missed, entered, exited, spot, ticks, restarts>>
        /\ positions \in [Ids -> Positions] /\ positions[cur].coin \in Coins
    BY DEF EntryHedgeReply, Settled, IInv, EntryOK, CoinsOK, PlaceOK, money, bounds
  <1>2. h \in BOOLEAN /\ landed' \in BOOLEAN
    BY <1>1, Zenon
  <1>3. h => spot[cur] = 1
    BY <1>1 DEF EntryHedgeReply, SpotReplies, IInv, EntryOK
  <1>4. positions' = [positions EXCEPT ![cur] = p]
    BY <1>1 DEF EntryHedgeReply
  <1> HIDE DEF h
  <1>5. p \in Positions /\ p.state = "open" /\ p.coin = positions[cur].coin /\ p.hedged = h
    <2>1. "open" \in States /\ old \in Positions
      BY <1>1 DEF States
    <2> HIDE DEF old
    <2>2. p \in Positions /\ p.state = "open" /\ p.coin = old.coin /\ p.hedged = h
      BY <1>2, <2>1 DEF Positions
    <2> QED
      BY <2>2 DEF old
  <1> HIDE DEF p
  <1>6. /\ positions' \in [Ids -> Positions] /\ CoinsOK' /\ BookFollowsExchange' /\ SpotOK'
        /\ \A other \in todo' : positions'[other].state = "open"
    BY <1>1, <1>3, <1>4, <1>5, EnteredStep
  <1>7. PlaceOK' /\ RestOK' /\ MoneyOK'
    BY <1>1, <1>2, <1>6 DEF IInv, PlaceOK, RestOK, MoneyOK, Stages
  <1>8. ChecksOK' /\ EntryOK'
    BY <1>1, <1>6 DEF ChecksOK, EntryOK
  <1> QED
    BY <1>6, <1>7, <1>8 DEF IInv

-----------------------------------------------------------------------------
(* The cycle and the process *)

LEMMA WakeStep == ASSUME IInv, Wake PROVE IInv'
  <1>1. /\ pc = "sleep" /\ pc' = "check" /\ todo' = OpenIds /\ ticks' = ticks + 1
        /\ UNCHANGED <<paper, cur, tried, capital, saved, unsaved, missed, landed, entered, exited, spot, restarts>>
        /\ positions' = [id \in Ids |-> Aged(positions[id])]
        /\ \A id \in Ids : positions[id] \in Positions
    BY DEF Wake, money, exchange, IInv, PlaceOK
  <1>2. \A id \in Ids : /\ positions'[id] \in Positions
                        /\ positions'[id].state = positions[id].state
                        /\ positions'[id].coin = positions[id].coin
                        /\ positions'[id].hedged = positions[id].hedged
    BY <1>1, Ages
  <1>3. positions' \in [Ids -> Positions]
    BY <1>1, <1>2
  <1>4. PlaceOK' /\ RestOK' /\ MoneyOK'
    BY <1>1, <1>3 DEF IInv, PlaceOK, RestOK, MoneyOK, Stages, OpenIds
  <1>5. CoinsOK' /\ ChecksOK' /\ EntryOK'
    BY <1>1, <1>2 DEF IInv, CoinsOK, ChecksOK, EntryOK, OpenIds
  <1>6. BookFollowsExchange' /\ SpotOK'
    BY <1>1, <1>2 DEF IInv, BookFollowsExchange, SpotOK
  <1> QED
    BY <1>4, <1>5, <1>6 DEF IInv

LEMMA DownStep == ASSUME IInv, Down PROVE IInv'
  <1>1. /\ pc' = "down" /\ cur' = None /\ landed' = FALSE /\ todo' = {} /\ tried' = {}
        /\ restarts' = restarts + 1
        /\ UNCHANGED <<paper, capital, entered, exited, spot, ticks>>
        /\ positions' = [id \in Ids |-> Forgotten(positions[id])]
        /\ \A id \in Ids : positions[id] \in Positions
    BY DEF Down, Settled, IInv, PlaceOK
  <1>8. /\ saved' \in Int \cup {None} /\ unsaved' \in BOOLEAN /\ missed' \in BOOLEAN
        /\ missed' \/ (~unsaved /\ ~missed /\ saved' = saved)
    <2>1. missed \in BOOLEAN /\ unsaved \in BOOLEAN /\ saved \in Int \cup {None}
      BY DEF IInv, RestOK
    <2>2. CASE unsaved
      <3>1. missed' = TRUE /\ unsaved' = FALSE /\ saved' \in {saved, None}
        BY <2>2 DEF Down
      <3>2. unsaved' \in BOOLEAN /\ missed' \in BOOLEAN /\ missed'
        BY <3>1, Zenon
      <3> QED
        BY <2>1, <3>1, <3>2
    <2>3. CASE ~unsaved
      <3>1. missed' = missed /\ unsaved' = FALSE /\ saved' = saved
        BY <2>3 DEF Down
      <3>2. unsaved' \in BOOLEAN /\ missed' \in BOOLEAN /\ (missed' \/ ~missed)
        BY <2>1, <3>1, Zenon
      <3> QED
        BY <2>1, <2>3, <3>1, <3>2
    <2> QED
      BY <2>2, <2>3
  <1>2. \A id \in Ids : Forgotten(positions[id]) \in Positions
    BY <1>1, Forgets
  <1>7. \A id \in Ids : /\ positions'[id].state # "open"
                        /\ positions'[id].coin = positions[id].coin
                        /\ positions'[id].state = "none" <=> positions[id].state = "none"
                        /\ positions'[id].state = "closed" <=> positions[id].state = "closed"
    BY <1>1, Forgets
  <1>3. positions' \in [Ids -> Positions] /\ landed' \in BOOLEAN
    <2>1. positions' \in [Ids -> Positions]
      BY <1>1, <1>2
    <2>2. landed' \in BOOLEAN
      BY <1>1, Zenon
    <2> QED
      BY <2>1, <2>2
  <1>4. PlaceOK' /\ RestOK' /\ MoneyOK'
    <2>1. PlaceOK' /\ RestOK'
      BY <1>1, <1>3, <1>8 DEF IInv, PlaceOK, RestOK, Stages
    <2>2. MoneyOK'
      BY <1>1, <1>8 DEF IInv, MoneyOK
    <2> QED
      BY <2>1, <2>2
  <1>5. CoinsOK' /\ ChecksOK' /\ EntryOK'
    <2>1. CoinsOK'
      BY <1>7 DEF IInv, CoinsOK
    <2> QED
      BY <1>1, <2>1 DEF ChecksOK, EntryOK
  <1>6. BookFollowsExchange' /\ SpotOK'
    BY <1>1, <1>7 DEF IInv, BookFollowsExchange, SpotOK
  <1> QED
    BY <1>4, <1>5, <1>6 DEF IInv

LEMMA Step == IInv /\ [Next]_vars => IInv'
  <1> SUFFICES ASSUME IInv, [Next]_vars PROVE IInv'
    OBVIOUS
  <1>1. ASSUME NEW id \in Ids, NEW q \in Quotes \cup {None},
               CheckKeep(id, q) \/ CheckClosePaper(id, q) \/ CheckCloseLive(id, q)
        PROVE  IInv'
    BY <1>1, CheckKeepStep, CheckClosePaperStep, CheckCloseLiveStep
  <1>2. ASSUME NEW r,
               ExitReply(r) \/ ExitHedgeReply(r) \/ EntryReply(r) \/ EntryHedgeReply(r)
        PROVE  IInv'
    BY <1>2, ExitReplyStep, ExitHedgeStep, EntryReplyStep, EntryHedgeStep
  <1>3. ASSUME NEW id \in Ids, NEW c \in Coins, NEW side \in {"LONG", "SHORT"},
               NEW q \in Quotes, OpenPaper(id, c, side, q) \/ OpenLive(id, c, side, q)
        PROVE  IInv'
    BY <1>3, OpenPaperStep, OpenLiveStep
  <1> QED
    BY <1>1, <1>2, <1>3, QuietSteps, WakeStep, DownStep, PaperExitStep, PaperExitHedgeStep,
       PaperEntryStep, PaperEntryHedgeStep DEF Next, Cycle

\* The inductive invariant holds in every reachable state.
THEOREM Invariance == Spec => []IInv
  BY Initially, Step, PTL DEF Spec

\* Every variable stays in its type.
THEOREM TypeCorrect == Spec => []TypeOK
  <1> IInv => TypeOK
    BY DEF IInv, PlaceOK, RestOK, TypeOK
  <1> QED
    BY Invariance, PTL

\* The live book never claims more than the exchange has accepted, in spite of
\* lost replies and restarts between an order and its reply.
THEOREM BookIsBacked == Spec => []BookFollowsExchange
  <1> IInv => BookFollowsExchange
    BY DEF IInv
  <1> QED
    BY Invariance, PTL

\* The spot leg is bought and sold at most once, and held while it is counted on.
THEOREM HedgeIsHeld == Spec => []SpotFollowsHedge
  <1> IInv => SpotFollowsHedge
    BY DEF IInv, SpotOK, SpotFollowsHedge
  <1> QED
    BY Invariance, PTL

\* A restarted bot goes on with the paper capital the one before it had,
\* whenever that one died, if the last change of the capital was written: every
\* change is followed by a write, and no later step of the cycle undoes one.
THEOREM CapitalIsKept == Spec => CapitalSurvivesRestart
  <1> DEFINE A == pc = "down" /\ pc' = "scan" /\ paper /\ ~missed => capital' = capital \/ capital <= 0
  <1>1. IInv /\ DownOK /\ [Next]_vars => [A]_vars
    <2> SUFFICES ASSUME IInv, DownOK, Next, pc = "down", paper, ~missed
                 PROVE  capital' = capital \/ capital <= 0
      OBVIOUS
    <2>1. Start
      BY DEF Next, Cycle, CheckKeep, CheckClosePaper, CheckCloseLive, ExitReply,
             ExitHedgeReply, EntryReply, EntryHedgeReply, CheckDone, OpenPaper, OpenLive,
             ScanDone, Wake, Down, Save, PaperExit, PaperExitHedge, PaperEntry, PaperEntryHedge,
             DownOK
    <2>2. /\ capital' = Restored /\ capital \in Int /\ None \notin Int
          /\ saved \in Int \cup {None}
      BY <2>1, FundingNoneAssumption DEF Start, IInv, RestOK
    <2>3. ~unsaved
      BY DEF DownOK
    <2> QED
      BY <2>2, <2>3, FundingLimitAssumption DEF IInv, MoneyOK, Restored
  <1>2. Init => DownOK
    BY DEF Init, DownOK
  <1>3. DownOK /\ [Next]_vars => DownOK'
    <2> SUFFICES ASSUME DownOK, [Next]_vars, pc' = "down" PROVE ~unsaved'
      BY DEF DownOK
    <2>1. Down \/ UNCHANGED <<pc, unsaved>>
      BY DEF Next, Cycle, CheckKeep, CheckClosePaper, CheckCloseLive, ExitReply,
             ExitHedgeReply, EntryReply, EntryHedgeReply, CheckDone, OpenPaper, OpenLive,
             ScanDone, Wake, Start, Save, PaperExit, PaperExitHedge, PaperEntry, PaperEntryHedge,
             vars, task, money, DownOK
    <2> QED
      BY <2>1 DEF Down, DownOK
  <1> QED
    BY <1>1, <1>2, <1>3, Invariance, PTL DEF Spec, CapitalSurvivesRestart

-----------------------------------------------------------------------------
(* What a step does to the positions *)

Keeps(id) ==
  positions'[id].state = positions[id].state /\ positions'[id].coin = positions[id].coin

Others(id) == \A other \in Ids \ {id} : Keeps(other)

Recorded == {"open", "closed", "lost"}

Same == \A id \in Ids : Keeps(id)

Closing(id) ==
  /\ positions[id].state = "open" /\ positions'[id].state = "closed"
  /\ positions'[id].coin = positions[id].coin
  /\ Others(id)

\* Not recorded before nor after.
Passing(id) ==
  positions[id].state \notin Recorded /\ positions'[id].state \notin Recorded /\ Others(id)

Opening(id) ==
  /\ positions[id].state \notin Recorded /\ positions'[id].state = "open"
  /\ positions'[id].coin \in Coins
  /\ Cardinality(OpenIds) < MAX_CONCURRENT_POSITIONS
  /\ \A other \in OpenIds : positions[other].coin # positions'[id].coin
  /\ Others(id)

Going ==
  \A id \in Ids :
    /\ positions[id].state = "open" => positions'[id].state = "lost"
    /\ positions[id].state \in {"closed", "lost"} => positions'[id].state = positions[id].state
    /\ positions[id].state \notin Recorded => positions'[id].state \notin Recorded
    /\ positions'[id].coin = positions[id].coin

LEMMA CheckEffects ==
  ASSUME IInv, NEW id \in Ids, NEW q \in Quotes \cup {None},
         CheckKeep(id, q) \/ CheckClosePaper(id, q) \/ CheckCloseLive(id, q)
  PROVE  Same
  <1> DEFINE a == Accumulated(id, Seen(id, q))
             px == Seen(id, q).px
             p == [a EXCEPT !.close = px]
  <1>1. a \in Positions /\ a.state = positions[id].state /\ a.coin = positions[id].coin
    BY Accumulates
  <1>2. positions \in [Ids -> Positions]
    BY DEF IInv, PlaceOK
  <1>3. CASE CheckKeep(id, q) \/ CheckCloseLive(id, q)
    <2>1. positions' = [positions EXCEPT ![id] = a]
      BY <1>3 DEF CheckKeep, CheckCloseLive
    <2> HIDE DEF a
    <2> QED
      BY <1>1, <1>2, <2>1 DEF Same, Keeps
  <1>4. CASE CheckClosePaper(id, q)
    <2>1. positions' = [positions EXCEPT ![id] = p]
      BY <1>4 DEF CheckClosePaper
    <2>2. px \in Nat
      BY SeenType
    <2> HIDE DEF a, px
    <2>3. p.state = positions[id].state /\ p.coin = positions[id].coin
      BY <1>1, <2>2, Priced
    <2> HIDE DEF p
    <2> QED
      BY <1>2, <2>1, <2>3 DEF Same, Keeps
  <1> QED
    BY <1>3, <1>4

\* The steps of a paper handler after its writes.
LEMMA PaperEffects ==
  ASSUME IInv, PaperExit \/ PaperExitHedge \/ PaperEntry \/ PaperEntryHedge
  PROVE  Same \/ \E id \in Ids : Closing(id) \/ Opening(id)
  <1> DEFINE old == positions[cur]
  <1>1. positions \in [Ids -> Positions]
    BY DEF IInv, PlaceOK
  <1>2. CASE PaperExit
    <2>1. cur \in Ids /\ old.state = "open" /\ positions' = [positions EXCEPT ![cur].state = "closed"]
      BY <1>2 DEF PaperExit, IInv, ChecksOK
    <2>2. positions'[cur].state = "closed" /\ positions'[cur].coin = old.coin /\ Others(cur)
      BY <1>1, <2>1 DEF Positions, Others, Keeps
    <2> QED
      BY <2>1, <2>2 DEF Closing
  <1>3. CASE PaperExitHedge
    <2>1. cur \in Ids /\ positions' = [positions EXCEPT ![cur].hedged = FALSE]
      BY <1>3 DEF PaperExitHedge, IInv, ChecksOK
    <2>2. Keeps(cur) /\ Others(cur)
      BY <1>1, <2>1 DEF Keeps, Others, Positions
    <2> QED
      BY <2>2 DEF Same, Others
  <1>4. CASE PaperEntry \/ PaperEntryHedge
    <2>1. /\ cur \in Ids /\ old.state = "placing" /\ old.coin \in Coins /\ old \in Positions
          /\ Cardinality(OpenIds) < MAX_CONCURRENT_POSITIONS
          /\ \A other \in OpenIds : positions[other].coin # old.coin
      BY <1>1, <1>4 DEF PaperEntry, PaperEntryHedge, IInv, EntryOK, CoinsOK
    <2>2. CASE positions' = positions
      BY <2>2 DEF Same, Keeps
    <2>3. ASSUME NEW p, positions' = [positions EXCEPT ![cur] = p],
                 p.state = "open", p.coin = old.coin
          PROVE  Opening(cur)
      <3>1. positions'[cur] = p
        BY <1>1, <2>1, <2>3
      <3>2. Others(cur)
        BY <1>1, <2>3 DEF Others, Keeps
      <3> QED
        BY <2>1, <2>3, <3>1, <3>2 DEF Opening, Recorded
    <2> DEFINE p == [old EXCEPT !.state = "open"]
               h == [old EXCEPT !.state = "open", !.hedged = TRUE]
    <2>4. positions' = positions \/ positions' = [positions EXCEPT ![cur] = p]
            \/ positions' = [positions EXCEPT ![cur] = h]
      BY <1>4 DEF PaperEntry, PaperEntryHedge
    <2>5. /\ p.state = "open" /\ p.coin = old.coin
          /\ h.state = "open" /\ h.coin = old.coin
      <3> HIDE DEF old
      <3> QED
        BY <2>1 DEF Positions
    <2> HIDE DEF p, h
    <2> QED
      BY <2>1, <2>2, <2>3, <2>4, <2>5
  <1> QED
    BY <1>2, <1>3, <1>4

LEMMA ReplyEffects ==
  ASSUME IInv, NEW r, ExitReply(r) \/ ExitHedgeReply(r) \/ EntryReply(r) \/ EntryHedgeReply(r)
  PROVE  Same \/ \E id \in Ids : Closing(id) \/ Opening(id) \/ Passing(id)
  <1> DEFINE old == positions[cur]
  <1>1. positions \in [Ids -> Positions]
    BY DEF IInv, PlaceOK
  <1>2. CASE ExitReply(r)
    <2>1. cur \in Ids /\ old.state = "open"
      BY <1>2 DEF ExitReply, IInv, ChecksOK
    <2>2. positions' = positions \/ positions' = [positions EXCEPT ![cur].state = "closed"]
      BY <1>2 DEF ExitReply
    <2>3. CASE positions' = positions
      BY <2>3 DEF Same, Keeps
    <2>4. CASE positions' = [positions EXCEPT ![cur].state = "closed"]
      <3>1. positions'[cur].state = "closed" /\ positions'[cur].coin = positions[cur].coin
        BY <1>1, <2>1, <2>4 DEF Positions
      <3>2. Others(cur)
        BY <1>1, <2>4 DEF Others, Keeps
      <3> QED
        BY <2>1, <3>1, <3>2 DEF Closing
    <2> QED
      BY <2>2, <2>3, <2>4
  <1>3. CASE ExitHedgeReply(r)
    <2>1. cur \in Ids
      BY <1>3 DEF ExitHedgeReply, IInv, ChecksOK
    <2> DEFINE h == r # "ok"
    <2>2. positions' = [positions EXCEPT ![cur].hedged = h]
      BY <1>3 DEF ExitHedgeReply
    <2> HIDE DEF h
    <2>3. Keeps(cur)
      BY <1>1, <2>1, <2>2 DEF Keeps, Positions
    <2>4. Others(cur)
      BY <1>1, <2>2 DEF Others, Keeps
    <2> QED
      BY <2>3, <2>4 DEF Same, Others
  <1>4. CASE EntryReply(r) \/ EntryHedgeReply(r)
    <2>1. /\ cur \in Ids /\ old.state = "placing" /\ old.coin \in Coins
          /\ Cardinality(OpenIds) < MAX_CONCURRENT_POSITIONS
          /\ \A other \in OpenIds : positions[other].coin # old.coin
      BY <1>4 DEF EntryReply, EntryHedgeReply, IInv, EntryOK, CoinsOK
    <2>2. CASE positions' = positions
      BY <2>2 DEF Same, Keeps
    <2>3. ASSUME NEW p, positions' = [positions EXCEPT ![cur] = p],
                 p.state \in {"open", "dropped"}, p.coin = old.coin
          PROVE  Opening(cur) \/ Passing(cur)
      <3>1. positions'[cur] = p
        BY <1>1, <2>1, <2>3
      <3>2. Others(cur)
        BY <1>1, <2>3 DEF Others, Keeps
      <3> QED
        BY <2>1, <2>3, <3>1, <3>2 DEF Opening, Passing, Recorded
    <2>4. CASE EntryReply(r) /\ positions' # positions
      <3> DEFINE s == IF Acknowledged(r) THEN "open" ELSE "dropped"
                 p == [old EXCEPT !.state = s]
      <3>1. positions' = [positions EXCEPT ![cur] = p]
        BY <2>4 DEF EntryReply
      <3>2. p.state = s /\ p.coin = old.coin
        BY <1>1, <2>1 DEF Positions
      <3> HIDE DEF p
      <3> QED
        BY <2>1, <2>3, <3>1, <3>2
    <2>5. CASE EntryHedgeReply(r)
      <3> DEFINE h == r = "ok"
                 p == [old EXCEPT !.state = "open", !.hedged = h]
      <3>1. positions' = [positions EXCEPT ![cur] = p]
        BY <2>5 DEF EntryHedgeReply
      <3>2. old \in Positions
        BY <1>1, <2>1
      <3>3. p.state = "open" /\ p.coin = old.coin
        <4> HIDE DEF old, h
        <4> QED
          BY <3>2 DEF Positions
      <3> HIDE DEF p
      <3> QED
        BY <2>1, <2>3, <3>1, <3>3
    <2> QED
      BY <1>4, <2>2, <2>4, <2>5
  <1> QED
    BY <1>2, <1>3, <1>4

LEMMA OpenEffects ==
  ASSUME IInv, NEW id \in Ids, NEW c \in Coins, NEW side \in {"LONG", "SHORT"},
         NEW q \in Quotes, OpenPaper(id, c, side, q) \/ OpenLive(id, c, side, q)
  PROVE  Passing(id)
  <1> DEFINE placed == Entered(c, side, q.px)
  <1>1. positions \in [Ids -> Positions] /\ positions[id].state = "none"
    BY DEF OpenPaper, OpenLive, Fresh, IInv, PlaceOK
  <1>2. positions' = [positions EXCEPT ![id] = placed]
    BY DEF OpenPaper, OpenLive
  <1>3. placed.state = "placing"
    BY DEF Entered
  <1> HIDE DEF placed
  <1> QED
    BY <1>1, <1>2, <1>3 DEF Passing, Recorded, Others, Keeps

LEMMA Effects ==
  ASSUME IInv, [Next]_vars
  PROVE  Same \/ Going \/ \E id \in Ids : Closing(id) \/ Opening(id) \/ Passing(id)
  <1>1. \A id \in Ids : positions[id] \in Positions
    BY DEF IInv, PlaceOK
  <1>2. CASE CheckDone \/ ScanDone \/ Save \/ Start \/ UNCHANGED vars
    BY <1>2 DEF CheckDone, ScanDone, Save, Start, vars, Same, Keeps
  <1>3. CASE Wake
    BY <1>1, <1>3, Ages DEF Wake, Same, Keeps
  <1>4. CASE Down
    BY <1>1, <1>4, Forgets DEF Down, Going, Recorded
  <1> QED
    BY <1>2, <1>3, <1>4, CheckEffects, ReplyEffects, PaperEffects, OpenEffects
       DEF Next, Cycle

-----------------------------------------------------------------------------
(* The refinement *)

\* The substitutions of Book.
Life == [id \in Ids |-> IF positions[id].state \in {"open", "closed", "lost"}
                        THEN positions[id].state ELSE "unused"]
Market == [id \in Ids |-> IF positions[id].state \in {"open", "closed", "lost"}
                          THEN positions[id].coin ELSE None]

LEMMA SameCardinality == ASSUME NEW S PROVE Book!Cardinality(S) = Cardinality(S)
  BY DEF Book!Cardinality, Cardinality

LEMMA BookOpenIds == Book!OpenIds = OpenIds
  BY DEF Book!OpenIds, OpenIds

LEMMA BookInit == Init => Book!Init
  <1>1. NoPosition.state = "none"
    BY DEF NoPosition
  <1> QED
    BY <1>1 DEF Init, Book!Init

LEMMA BookStays ==
  ASSUME Life' = Life, Market' = Market
  PROVE  UNCHANGED Book!vars
  BY DEF Book!vars, Life, Market

LEMMA BookOpen ==
  ASSUME IInv, NEW id \in Ids, NEW c \in Coins, Opening(id), c = positions'[id].coin
  PROVE  Book!Open(id, c)
  <1>1. Life[id] = "unused" /\ Life' = [Life EXCEPT ![id] = "open"]
    BY DEF Life, Opening, Others, Keeps, Recorded
  <1>2. Market' = [Market EXCEPT ![id] = c]
    BY DEF Market, Opening, Others, Keeps, Recorded
  <1>3. /\ Cardinality(Book!OpenIds) < MAX_CONCURRENT_POSITIONS
        /\ \A other \in Book!OpenIds : Market[other] # c
    BY BookOpenIds DEF Market, OpenIds, Opening
  <1> QED
    BY <1>1, <1>2, <1>3, SameCardinality DEF Book!Open, Life, Market

LEMMA BookClose == ASSUME IInv, NEW id \in Ids, Closing(id) PROVE Book!Close(id)
  <1>1. Life[id] = "open" /\ Life' = [Life EXCEPT ![id] = "closed"]
    BY DEF Closing, Others, Keeps, Life
  <1>2. Market' = Market
    BY DEF Closing, Others, Keeps, Market
  <1> QED
    BY <1>1, <1>2 DEF Book!Close, Life, Market

LEMMA BookRestart == ASSUME IInv, Going PROVE Book!Restart
  <1>1. Life' = [id \in Ids |-> IF Life[id] = "open" THEN "lost" ELSE Life[id]]
    BY DEF Going, Recorded, Life
  <1>2. Market' = Market
    BY DEF Going, Recorded, Market
  <1> QED
    BY <1>1, <1>2 DEF Book!Restart, Life, Market

LEMMA BookStep == IInv /\ [Next]_vars => [Book!Next]_(Book!vars)
  <1> SUFFICES ASSUME IInv, [Next]_vars PROVE Book!Next \/ UNCHANGED Book!vars
    OBVIOUS
  <1>1. CASE Same
    <2>1. Life' = Life /\ Market' = Market
      BY <1>1 DEF Same, Keeps, Life, Market
    <2> QED
      BY <2>1, BookStays
  <1>2. ASSUME NEW id \in Ids, Closing(id) PROVE Book!Next
    BY <1>2, BookClose DEF Book!Next
  <1>3. ASSUME NEW id \in Ids, Passing(id) PROVE UNCHANGED Book!vars
    <2>1. Life' = Life /\ Market' = Market
      BY <1>3 DEF Passing, Others, Keeps, Recorded, Life, Market
    <2> QED
      BY <2>1, BookStays
  <1>4. ASSUME NEW id \in Ids, Opening(id) PROVE Book!Next
    <2>1. PICK c \in Coins : c = positions'[id].coin
      BY <1>4 DEF Opening
    <2>2. Book!Open(id, c)
      BY <1>4, <2>1, BookOpen
    <2> QED
      BY <2>2 DEF Book!Next
  <1>5. CASE Going
    BY <1>5, BookRestart DEF Book!Next
  <1> QED
    BY <1>1, <1>2, <1>3, <1>4, <1>5, Effects

\* FundingRateArbStrategy keeps the promises of a position book, although
\* open_position checks the limit and the coin two awaits before it records.
THEOREM BookIsImplemented == Spec => ImplementsBook
  BY BookInit, BookStep, Invariance, PTL DEF Spec, ImplementsBook, Book!Spec
=============================================================================
