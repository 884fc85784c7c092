------------------------ MODULE TrendFollowing_proofs ------------------------
(***************************************************************************)
(* Proofs about TrendFollowing: for all limits, stop distances, price sets *)
(* and numbers of restarts, in paper and in live mode, the bot keeps the   *)
(* promises of a position book and lists what the exchange accepted, its   *)
(* stops only tighten, no coin is entered in its cooldown and no closed    *)
(* position with an event is kept from the scorecard.                      *)
(*                                                                         *)
(* What makes the book inductive is that the checks of an entry still hold *)
(* when its order is answered: nothing between them closes or opens a      *)
(* position.  The cooldowns need the link between the clock of the process *)
(* and the time since a position was closed.                               *)
(***************************************************************************)
EXTENDS TrendFollowing, TLAPS

\* A position that was decided on has a coin.
CoinsOK == \A id \in Ids : positions[id].state # "none" => positions[id].coin \in Coins

\* The positions to check are open, and so is the one whose exit is in flight.
ChecksOK ==
  /\ \A id \in todo : positions[id].state = "open"
  /\ pc = "exit" => cur \in Ids \ todo /\ positions[cur].state = "open"

\* What was checked before an entry still holds while the bot awaits its candles
\* and its order.
EntryOK ==
  pc \in {"sizing", "entry"} =>
    /\ cur \in Ids /\ positions[cur].state = "placing"
    /\ cooldowns[positions[cur].coin] = 0
    /\ Cardinality(OpenIds) < MAX_CONCURRENT_POSITIONS
    /\ \A id \in OpenIds : positions[id].coin # positions[cur].coin

\* The cooldown of a coin lasts as long as that of any position closed in it by
\* this process; a process that is down has closed none.
CoolingOK ==
  \A id \in Ids : positions[id].state = "closed" /\ positions[id].idle # None =>
    /\ pc # "down"
    /\ cooldowns[positions[id].coin] + positions[id].idle >= COOLDOWN

\* TypeOK in two parts.
PlaceOK ==
  /\ pc \in Stages /\ cur \in Ids \cup {None}
  /\ positions \in [Ids -> Positions] /\ cooldowns \in [Coins -> Nat]

RestOK ==
  /\ paper \in BOOLEAN /\ running \in BOOLEAN /\ landed \in BOOLEAN
  /\ todo \subseteq Ids /\ tried \subseteq Coins
  /\ capital \in Int
  /\ books \in [Ids -> {"none", "event", "scored", "traded"}]
  /\ entered \subseteq Ids /\ exited \subseteq Ids
  /\ ticks \in Nat /\ restarts \in Nat

IInv == PlaceOK /\ RestOK /\ CoinsOK /\ ChecksOK /\ EntryOK /\ CoolingOK

-----------------------------------------------------------------------------
(* The operators on one position *)

LEMMA NoneIsNoId == None \notin Ids /\ None \notin Coins /\ None \notin Nat
  BY TrendNoneAssumption

LEMMA SignIsUnit == ASSUME NEW p PROVE Sign(p) = 1 \/ Sign(p) = -1
  BY DEF Sign

LEMMA StopIsInt == ASSUME NEW p \in Positions PROVE StopLoss(p) \in Int
  BY TrendStopAssumption DEF StopLoss, Sign, Positions

LEMMA MultIsNat == ASSUME NEW p \in Positions PROVE TrailMult(p) \in Nat
  BY TrendStopAssumption DEF TrailMult

LEMMA TighterOf ==
  ASSUME NEW p, NEW a \in Int, NEW b \in Int
  PROVE  Tighter(p, a, b) \in Int /\ Sign(p) * Tighter(p, a, b) >= Sign(p) * a
  <1>1. CASE Sign(p) = 1
    BY <1>1 DEF Tighter
  <1>2. CASE Sign(p) = -1
    BY <1>2 DEF Tighter
  <1> QED
    BY <1>1, <1>2, SignIsUnit

\* Trailing changes the stop and the best price, and only in the position's favour.
LEMMA Trails ==
  ASSUME NEW p \in Positions, NEW px \in Prices
  PROVE  /\ Trailed(p, px) \in Positions
         /\ Trailed(p, px).state = p.state /\ Trailed(p, px).coin = p.coin
         /\ Trailed(p, px).side = p.side /\ Trailed(p, px).idle = p.idle
         /\ Sign(p) * Trailed(p, px).trailing >= Sign(p) * p.trailing
  <1> DEFINE new == Tighter(p, p.trailing, px - Sign(p) * TrailMult(p))
  <1>1. px \in Nat /\ p.trailing \in Int
    BY TrendStopAssumption DEF Positions
  <1>2. px - Sign(p) * TrailMult(p) \in Int
    BY <1>1, MultIsNat, SignIsUnit
  <1>3. new \in Int /\ Sign(p) * new >= Sign(p) * p.trailing
    BY <1>1, <1>2, TighterOf
  <1>4. CASE Sign(p) * px > Sign(p) * p.best
    <2>1. Trailed(p, px) = [p EXCEPT !.best = px, !.trailing = new]
      BY <1>4 DEF Trailed
    <2> HIDE DEF new
    <2>2. Trailed(p, px) = [state |-> p.state, coin |-> p.coin, side |-> p.side,
                            entry |-> p.entry, trailing |-> new, best |-> px,
                            age |-> p.age, idle |-> p.idle]
      BY <2>1 DEF Positions
    <2> QED
      BY <1>1, <1>3, <2>2 DEF Positions
  <1>5. CASE ~(Sign(p) * px > Sign(p) * p.best)
    <2>1. Trailed(p, px) = p
      BY <1>5 DEF Trailed
    <2>2. Sign(p) * p.trailing >= Sign(p) * p.trailing
      BY <1>1, SignIsUnit
    <2> QED
      BY <2>1, <2>2
  <1> QED
    BY <1>4, <1>5

LEMMA Closes ==
  ASSUME NEW p \in Positions
  PROVE  /\ Closed(p) \in Positions
         /\ Closed(p).state = "closed" /\ Closed(p).coin = p.coin /\ Closed(p).idle = 0
  BY DEF Closed, Positions

LEMMA Ages ==
  ASSUME NEW p \in Positions
  PROVE  /\ Later(p) \in Positions
         /\ Later(p).state = p.state /\ Later(p).coin = p.coin
         /\ Later(p).side = p.side /\ Later(p).trailing = p.trailing
         /\ p.state = "closed" /\ p.idle # None
              => Later(p).idle = IF p.idle < COOLDOWN THEN p.idle + 1 ELSE p.idle
         /\ p.idle = None => Later(p).idle = None
  <1>1. CASE p.state = "open"
    BY <1>1 DEF Later, Positions
  <1>2. CASE p.state = "closed" /\ p.idle # None /\ p.idle < COOLDOWN
    <2>1. p.idle + 1 \in Nat
      BY <1>2 DEF Positions
    <2>2. Later(p) = [p EXCEPT !.idle = @ + 1]
      BY <1>2 DEF Later
    <2> QED
      BY <1>2, <2>1, <2>2 DEF Positions
  <1>3. CASE p.state # "open" /\ ~(p.state = "closed" /\ p.idle # None /\ p.idle < COOLDOWN)
    BY <1>3 DEF Later
  <1> QED
    BY <1>1, <1>2, <1>3

LEMMA Forgets ==
  ASSUME NEW p \in Positions
  PROVE  /\ Forgotten(p) \in Positions
         /\ Forgotten(p).coin = p.coin
         /\ p.state = "open" => Forgotten(p).state = "lost"
         /\ p.state = "placing" => Forgotten(p).state = "dropped"
         /\ p.state \notin {"open", "placing"} => Forgotten(p).state = p.state
         /\ p.state = "closed" => Forgotten(p).idle = None
  <1>1. CASE p.state = "open"
    <2>1. Forgotten(p) = [NoPosition EXCEPT !.state = "lost", !.coin = p.coin]
      BY <1>1 DEF Forgotten
    <2>2. Forgotten(p) = [state |-> "lost", coin |-> p.coin, side |-> "LONG", entry |-> 0,
                          trailing |-> 0, best |-> 0, age |-> 0, idle |-> None]
      BY <2>1 DEF NoPosition
    <2> QED
      BY <1>1, <2>2 DEF Positions
  <1>2. CASE p.state = "placing"
    BY <1>2 DEF Forgotten, Positions
  <1>3. CASE p.state # "open" /\ p.state # "placing"
    <2>1. Forgotten(p) = [p EXCEPT !.idle = None]
      BY <1>3 DEF Forgotten
    <2>2. Forgotten(p) = [state |-> p.state, coin |-> p.coin, side |-> p.side,
                          entry |-> p.entry, trailing |-> p.trailing, best |-> p.best,
                          age |-> p.age, idle |-> None]
      BY <2>1 DEF Positions
    <2>3. Forgotten(p) \in Positions /\ Forgotten(p).state = p.state
          /\ Forgotten(p).coin = p.coin /\ Forgotten(p).idle = None
      BY <2>2 DEF Positions
    <2> QED
      BY <1>3, <2>3
  <1> QED
    BY <1>1, <1>2, <1>3

\* What open_position has put together before it waits.
Decided(c, signal) ==
  LET p == [state |-> "placing", coin |-> c, side |-> signal.side, entry |-> signal.px,
            trailing |-> 0, best |-> signal.px, age |-> 0, idle |-> None]
  IN [p EXCEPT !.trailing = StopLoss(p)]

LEMMA Decides ==
  ASSUME NEW c \in Coins, NEW signal \in Signals
  PROVE  /\ Decided(c, signal) \in Positions
         /\ Decided(c, signal).state = "placing" /\ Decided(c, signal).coin = c
  <1> DEFINE p == [state |-> "placing", coin |-> c, side |-> signal.side, entry |-> signal.px,
                   trailing |-> 0, best |-> signal.px, age |-> 0, idle |-> None]
  <1>1. signal.side \in {"LONG", "SHORT"} /\ signal.px \in Nat
    BY TrendStopAssumption DEF Signals
  <1>2. p \in Positions /\ p.state = "placing" /\ p.coin = c
    BY <1>1 DEF Positions
  <1>3. Decided(c, signal) = [p EXCEPT !.trailing = StopLoss(p)]
    BY DEF Decided
  <1> HIDE DEF p
  <1>4. StopLoss(p) \in Int
    BY <1>2, StopIsInt
  <1> QED
    BY <1>2, <1>3, <1>4 DEF Positions

-----------------------------------------------------------------------------
(* The invariant *)

LEMMA Initially == Init => IInv
  <1> SUFFICES ASSUME Init PROVE IInv
    OBVIOUS
  <1>1. NoPosition \in Positions /\ NoPosition.state = "none"
    BY DEF NoPosition, Positions
  <1>2. \A id \in Ids : positions[id].state = "none"
    BY <1>1 DEF Init
  <1>3. PlaceOK /\ RestOK
    <2>1. paper \in BOOLEAN /\ running \in BOOLEAN /\ landed \in BOOLEAN
      BY TrendLimitAssumption, Zenon DEF Init, Modes
    <2>2. /\ positions \in [Ids -> Positions] /\ cooldowns \in [Coins -> Nat]
          /\ capital \in Int /\ ticks \in Nat /\ restarts \in Nat
      BY <1>1, TrendLimitAssumption DEF Init
    <2>3. books \in [Ids -> {"none", "event", "scored", "traded"}]
      BY DEF Init
    <2>4. /\ pc \in Stages /\ cur \in Ids \cup {None} /\ todo \subseteq Ids
          /\ tried \subseteq Coins /\ entered \subseteq Ids /\ exited \subseteq Ids
      BY DEF Init, Stages
    <2> QED
      BY <2>1, <2>2, <2>3, <2>4 DEF PlaceOK, RestOK
  <1> QED
    BY <1>2, <1>3 DEF Init, IInv, CoinsOK, ChecksOK, EntryOK, CoolingOK

\* A step that leaves the positions and their clocks alone.
LEMMA QuietStep ==
  ASSUME IInv, UNCHANGED <<positions, cooldowns>>, RestOK', todo' \subseteq todo,
         pc' \in Stages \ {"down"} \/ (pc = "down" /\ pc' = "down"), cur' \in Ids \cup {None},
         pc' = "exit" => pc = "exit" /\ cur' = cur,
         pc' \in {"sizing", "entry"} => pc \in {"sizing", "entry"} /\ cur' = cur
  PROVE  IInv'
  <1>1. PlaceOK'
    BY DEF IInv, PlaceOK, Stages
  <1>2. CoinsOK' /\ ChecksOK'
    BY DEF IInv, CoinsOK, ChecksOK
  <1>3. EntryOK'
    BY DEF IInv, EntryOK, OpenIds
  <1>4. CoolingOK'
    BY DEF IInv, CoolingOK
  <1> QED
    BY <1>1, <1>2, <1>3, <1>4 DEF IInv

LEMMA QuietSteps ==
  ASSUME IInv,
         \/ \E id \in Ids : CheckSkip(id)
         \/ CheckDone \/ OpenLive \/ ScanDone \/ Stop \/ UNCHANGED vars
  PROVE  IInv'
  <1>1. ASSUME NEW id \in Ids, CheckSkip(id) PROVE IInv'
    <2>1. RestOK'
      BY <1>1 DEF IInv, RestOK, CheckSkip, exchange, bounds
    <2> QED
      BY <1>1, <2>1, QuietStep DEF CheckSkip, IInv, PlaceOK, Stages
  <1>2. CASE CheckDone
    <2>1. RestOK'
      BY <1>2 DEF IInv, RestOK, CheckDone, exchange, bounds
    <2> QED
      BY <1>2, <2>1, QuietStep DEF CheckDone, IInv, PlaceOK, Stages
  <1>3. CASE OpenLive
    <2>1. cur \in Ids
      BY <1>3 DEF OpenLive, IInv, EntryOK
    <2>2. RestOK'
      BY <1>3, <2>1 DEF IInv, RestOK, OpenLive, bounds
    <2> QED
      BY <1>3, <2>2, QuietStep DEF OpenLive, IInv, PlaceOK, Stages
  <1>4. CASE ScanDone
    <2>1. RestOK'
      BY <1>4 DEF IInv, RestOK, ScanDone, exchange, bounds
    <2> QED
      BY <1>4, <2>1, QuietStep DEF ScanDone, IInv, PlaceOK, Stages
  <1>5. CASE Stop
    <2>1. RestOK'
      BY <1>5 DEF IInv, RestOK, Stop, exchange, bounds
    <2> QED
      BY <1>5, <2>1, QuietStep DEF Stop, IInv, PlaceOK, Stages
  <1>6. CASE UNCHANGED vars
    <2>1. RestOK'
      BY <1>6 DEF IInv, RestOK, vars, task, exchange, bounds
    <2> QED
      BY <1>6, <2>1, QuietStep DEF vars, task, IInv, PlaceOK, Stages
  <1> QED
    BY <1>1, <1>2, <1>3, <1>4, <1>5, <1>6

\* One open position is replaced by itself with another stop.
LEMMA TrailStep ==
  ASSUME IInv, NEW id \in Ids, NEW p \in Positions, positions[id].state = "open",
         positions' = [positions EXCEPT ![id] = p],
         p.state = "open", p.coin = positions[id].coin,
         pc = "check", (pc' = "check" /\ cur' = cur) \/ (pc' = "exit" /\ cur' = id),
         todo' = todo \ {id}, UNCHANGED cooldowns, RestOK'
  PROVE  IInv'
  <1>1. PlaceOK'
    BY DEF IInv, PlaceOK, Stages
  <1>2. /\ \A other \in Ids : positions'[other] = IF other = id THEN p ELSE positions[other]
        /\ todo \subseteq Ids
    BY DEF IInv, PlaceOK, RestOK
  <1>3. CoinsOK' /\ ChecksOK'
    BY <1>2 DEF IInv, CoinsOK, ChecksOK
  <1>4. EntryOK' /\ CoolingOK'
    BY <1>2 DEF IInv, EntryOK, CoolingOK
  <1> QED
    BY <1>1, <1>3, <1>4 DEF IInv

LEMMA TrailSteps ==
  ASSUME IInv, NEW id \in Ids, NEW px \in Prices, CheckKeep(id, px) \/ CloseLive(id, px)
  PROVE  IInv'
  <1> DEFINE p == Trailed(positions[id], px)
  <1>1. positions[id].state = "open" /\ positions[id] \in Positions
    BY DEF CheckKeep, CloseLive, IInv, ChecksOK, PlaceOK
  <1>2. p \in Positions /\ p.state = "open" /\ p.coin = positions[id].coin
    BY <1>1, Trails
  <1>3. positions' = [positions EXCEPT ![id] = p]
    BY DEF CheckKeep, CloseLive
  <1>4. RestOK'
    <2>1. CASE CheckKeep(id, px)
      BY <2>1 DEF IInv, RestOK, CheckKeep, exchange, bounds
    <2>2. CASE CloseLive(id, px)
      BY <2>2 DEF IInv, RestOK, CloseLive, bounds
    <2> QED
      BY <2>1, <2>2
  <1>5. /\ pc = "check" /\ todo' = todo \ {id} /\ UNCHANGED cooldowns
        /\ (pc' = "check" /\ cur' = cur) \/ (pc' = "exit" /\ cur' = id)
    BY DEF CheckKeep, CloseLive
  <1> HIDE DEF p
  <1> QED
    BY <1>1, <1>2, <1>3, <1>4, <1>5, TrailStep

\* An open position is closed, and its coin cools down.
LEMMA CloseStep ==
  ASSUME IInv, NEW id \in Ids, NEW p \in Positions, positions[id].state = "open",
         positions' = [positions EXCEPT ![id] = Closed(p)], p.coin = positions[id].coin,
         cooldowns' = [cooldowns EXCEPT ![positions[id].coin] = COOLDOWN],
         pc \in {"check", "exit"}, pc' = "event", cur' \in Ids \cup {None},
         todo' \subseteq todo, id \notin todo', RestOK'
  PROVE  IInv'
  <1>1. /\ Closed(p) \in Positions /\ Closed(p).state = "closed"
        /\ Closed(p).coin = positions[id].coin /\ Closed(p).idle = 0
    BY Closes
  <1>2. /\ positions \in [Ids -> Positions] /\ cooldowns \in [Coins -> Nat]
        /\ todo \subseteq Ids /\ COOLDOWN \in Nat /\ positions[id].coin \in Coins
    BY TrendLimitAssumption DEF IInv, PlaceOK, RestOK, CoinsOK
  <1>3. /\ \A other \in Ids :
             positions'[other] = IF other = id THEN Closed(p) ELSE positions[other]
        /\ \A c \in Coins : cooldowns'[c] = IF c = positions[id].coin
                                            THEN COOLDOWN ELSE cooldowns[c]
    BY <1>2
  <1>4. PlaceOK'
    BY <1>1, <1>2 DEF PlaceOK, Stages
  <1>5. CoinsOK' /\ ChecksOK' /\ EntryOK'
    BY <1>1, <1>2, <1>3 DEF IInv, CoinsOK, ChecksOK, EntryOK
  <1>6. CoolingOK'
    <2> SUFFICES ASSUME NEW other \in Ids, positions'[other].state = "closed",
                        positions'[other].idle # None
                 PROVE  cooldowns'[positions'[other].coin] + positions'[other].idle >= COOLDOWN
      BY DEF CoolingOK
    <2>1. CASE other = id
      BY <1>1, <1>2, <1>3, <2>1
    <2>2. CASE other # id
      <3>1. positions'[other] = positions[other] /\ positions[other] \in Positions
        BY <1>2, <1>3, <2>2
      <3> DEFINE c == positions[other].coin
                 n == positions[other].idle
      <3>2. c \in Coins /\ n \in Nat /\ cooldowns[c] \in Nat /\ cooldowns[c] + n >= COOLDOWN
        BY <1>2, <3>1 DEF IInv, CoinsOK, CoolingOK, Positions
      <3>3. cooldowns'[c] = COOLDOWN \/ cooldowns'[c] = cooldowns[c]
        BY <1>3, <3>2
      <3>4. cooldowns'[c] + n >= COOLDOWN
        <4> HIDE DEF c, n
        <4> QED
          BY <1>2, <3>2, <3>3
      <3> QED
        BY <3>1, <3>4
    <2> QED
      BY <2>1, <2>2
  <1> QED
    BY <1>4, <1>5, <1>6, <1>1 DEF IInv

LEMMA ClosePaperStep ==
  ASSUME IInv, NEW id \in Ids, NEW px \in Prices, ClosePaper(id, px)
  PROVE  IInv'
  <1> DEFINE p == Trailed(positions[id], px)
  <1>1. positions[id].state = "open" /\ positions[id] \in Positions
    BY DEF ClosePaper, IInv, ChecksOK, PlaceOK
  <1>2. p \in Positions /\ p.coin = positions[id].coin
    BY <1>1, Trails
  <1>3. positions' = [positions EXCEPT ![id] = Closed(p)]
    BY DEF ClosePaper
  <1>4. RestOK'
    <2>1. px \in Nat /\ positions[id].entry \in Nat /\ Fee \in Nat /\ capital \in Int
      BY <1>1, TrendStopAssumption, TrendLimitAssumption DEF Positions, IInv, RestOK
    <2>2. Sign(positions[id]) * (px - positions[id].entry) \in Int
      BY <2>1, SignIsUnit
    <2>3. capital' \in Int
      <3> DEFINE gain == Sign(positions[id]) * (px - positions[id].entry)
      <3>1. capital' = capital + gain - Fee
        BY DEF ClosePaper
      <3>2. gain \in Int
        BY <2>2
      <3> HIDE DEF gain
      <3> QED
        BY <2>1, <3>1, <3>2
    <2> QED
      BY <2>3 DEF IInv, RestOK, ClosePaper, exchange, bounds
  <1>5. /\ pc = "check" /\ pc' = "event" /\ cur' = id /\ todo' = todo \ {id}
        /\ cooldowns' = [cooldowns EXCEPT ![positions[id].coin] = COOLDOWN]
    BY DEF ClosePaper
  <1>6. cur' \in Ids \cup {None}
    BY <1>5
  <1> HIDE DEF p
  <1> QED
    BY <1>1, <1>2, <1>3, <1>4, <1>5, <1>6, CloseStep

LEMMA ExitReplyStep ==
  ASSUME IInv, NEW r, ExitReply(r)
  PROVE  IInv'
  <1>1. /\ pc = "exit" /\ cur \in Ids /\ cur \notin todo /\ positions[cur].state = "open"
        /\ positions[cur] \in Positions
    BY DEF ExitReply, IInv, ChecksOK, PlaceOK
  <1>2. todo' = todo
    BY DEF ExitReply
  <1>3. RestOK'
    <2>1. landed' \in BOOLEAN
      BY Zenon DEF ExitReply
    <2>2. UNCHANGED <<paper, running, todo, tried, capital, books, entered, exited,
                      ticks, restarts>>
      BY DEF ExitReply, bounds
    <2> QED
      BY <2>1, <2>2 DEF IInv, RestOK
  <1>4. CASE Acknowledged(r)
    <2>1. /\ positions' = [positions EXCEPT ![cur] = Closed(positions[cur])]
          /\ cooldowns' = [cooldowns EXCEPT ![positions[cur].coin] = COOLDOWN]
          /\ pc' = "event" /\ cur' = cur
      BY <1>4 DEF ExitReply
    <2> QED
      BY <1>1, <1>2, <1>3, <2>1, CloseStep
  <1>5. CASE ~Acknowledged(r)
    BY <1>2, <1>3, <1>5, QuietStep DEF ExitReply, Stages
  <1> QED
    BY <1>4, <1>5

\* The records of a closed position are written.
LEMMA RecordStep ==
  ASSUME IInv, (\E ok \in BOOLEAN : LogClose(ok) \/ SaveRow(ok)) \/ Score
  PROVE  IInv'
  <1>1. /\ UNCHANGED <<paper, running, landed, todo, tried, positions, cooldowns, capital,
                       entered, exited, ticks, restarts>>
        /\ pc' \in {"check", "score", "row"} /\ cur' \in {cur, None}
    BY DEF LogClose, SaveRow, Score, exchange, bounds
  <1>2. \E v \in {"event", "scored", "traded"} :
          books' = [books EXCEPT ![cur] = v] \/ books' = books
    BY DEF LogClose, SaveRow, Score
  <1>3. books' \in [Ids -> {"none", "event", "scored", "traded"}]
    BY <1>2 DEF IInv, RestOK
  <1>4. RestOK'
    BY <1>1, <1>3 DEF IInv, RestOK
  <1> QED
    BY <1>1, <1>4, QuietStep DEF IInv, PlaceOK, Stages

-----------------------------------------------------------------------------
(* Entries *)

LEMMA DecideStep ==
  ASSUME IInv, NEW id \in Ids, NEW c \in Coins, NEW signal \in Signals, Decide(id, c, signal)
  PROVE  IInv'
  <1> DEFINE p == Decided(c, signal)
  <1>1. p \in Positions /\ p.state = "placing" /\ p.coin = c
    BY Decides
  <1>2. positions' = [positions EXCEPT ![id] = p]
    BY DEF Decide, Decided
  <1> HIDE DEF p
  <1>3. /\ pc = "scan" /\ pc' = "sizing" /\ cur' = id /\ UNCHANGED <<todo, cooldowns>>
        /\ positions[id].state = "none" /\ positions \in [Ids -> Positions]
        /\ cooldowns[c] = 0 /\ Cardinality(OpenIds) < MAX_CONCURRENT_POSITIONS
        /\ \A other \in OpenIds : positions[other].coin # c
    BY DEF Decide, Fresh, MayOpen, Cooled, IInv, PlaceOK
  <1>4. RestOK'
    BY DEF IInv, RestOK, Decide, exchange, bounds
  <1>5. \A other \in Ids : positions'[other] = IF other = id THEN p ELSE positions[other]
    BY <1>2, <1>3
  <1>6. OpenIds' = OpenIds
    BY <1>1, <1>3, <1>5 DEF OpenIds
  <1>7. PlaceOK'
    BY <1>1, <1>2, <1>3 DEF IInv, PlaceOK, Stages
  <1>8. CoinsOK' /\ ChecksOK'
    BY <1>1, <1>3, <1>5 DEF IInv, CoinsOK, ChecksOK, RestOK
  <1>9. EntryOK'
    BY <1>1, <1>3, <1>5, <1>6 DEF EntryOK, OpenIds
  <1>10. CoolingOK'
    BY <1>1, <1>3, <1>5 DEF IInv, CoolingOK
  <1> QED
    BY <1>4, <1>7, <1>8, <1>9, <1>10 DEF IInv

\* However an entry ends, nothing else changes.
LEMMA EnteredStep ==
  ASSUME IInv, NEW p \in Positions, pc \in {"sizing", "entry"}, pc' = "scan", cur' = None,
         positions' = [positions EXCEPT ![cur] = p], p.state \notin {"placing", "closed"},
         p.state = "none" \/ p.coin = positions[cur].coin,
         UNCHANGED <<todo, cooldowns>>, RestOK'
  PROVE  IInv'
  <1>1. cur \in Ids /\ positions[cur].state = "placing" /\ positions \in [Ids -> Positions]
    BY DEF IInv, EntryOK, PlaceOK
  <1>2. \A other \in Ids : positions'[other] = IF other = cur THEN p ELSE positions[other]
    BY <1>1
  <1>3. PlaceOK' /\ EntryOK'
    BY <1>1 DEF IInv, PlaceOK, EntryOK, Stages
  <1>4. CoinsOK' /\ ChecksOK'
    BY <1>1, <1>2 DEF IInv, CoinsOK, ChecksOK, RestOK
  <1>5. CoolingOK'
    BY <1>1, <1>2 DEF IInv, CoolingOK
  <1> QED
    BY <1>3, <1>4, <1>5 DEF IInv

LEMMA EnteredSteps ==
  ASSUME IInv, TooSmall \/ OpenPaper \/ \E r \in {"ok", "error", "unknown"} : EntryReply(r)
  PROVE  IInv'
  <1>1. pc \in {"sizing", "entry"} /\ pc' = "scan" /\ cur' = None /\ UNCHANGED <<todo, cooldowns>>
    BY DEF TooSmall, OpenPaper, EntryReply
  <1>2. cur \in Ids /\ positions[cur] \in Positions
    BY <1>1 DEF IInv, EntryOK, PlaceOK
  <1>3. RestOK'
    <2>1. CASE TooSmall
      BY <2>1 DEF IInv, RestOK, TooSmall, exchange, bounds
    <2>2. CASE OpenPaper
      BY <2>2, TrendLimitAssumption DEF IInv, RestOK, OpenPaper, exchange, bounds
    <2>3. ASSUME NEW r \in {"ok", "error", "unknown"}, EntryReply(r) PROVE RestOK'
      <3>1. landed' \in BOOLEAN
        BY <2>3, Zenon DEF EntryReply
      <3>2. UNCHANGED <<paper, running, todo, tried, capital, books, entered, exited,
                        ticks, restarts>>
        BY <2>3 DEF EntryReply, bounds
      <3> QED
        BY <3>1, <3>2 DEF IInv, RestOK
    <2> QED
      BY <2>1, <2>2, <2>3
  <1>4. PICK p \in Positions :
          /\ positions' = [positions EXCEPT ![cur] = p]
          /\ p.state \notin {"placing", "closed"}
          /\ p.state = "none" \/ p.coin = positions[cur].coin
    <2>1. CASE TooSmall
      <3>1. NoPosition \in Positions /\ NoPosition.state = "none"
        BY DEF NoPosition, Positions
      <3> QED
        BY <2>1, <3>1 DEF TooSmall
    <2> DEFINE q(s) == [positions[cur] EXCEPT !.state = s]
    <2>2. \A s \in {"open", "dropped"} :
            q(s) \in Positions /\ q(s).state = s /\ q(s).coin = positions[cur].coin
      BY <1>2 DEF Positions
    <2>3. CASE OpenPaper
      BY <2>2, <2>3 DEF OpenPaper
    <2>4. ASSUME NEW r \in {"ok", "error", "unknown"}, EntryReply(r)
          PROVE  \E s \in {"open", "dropped"} : positions' = [positions EXCEPT ![cur] = q(s)]
      BY <2>4 DEF EntryReply
    <2> QED
      BY <2>1, <2>2, <2>3, <2>4
  <1> QED
    BY <1>1, <1>3, <1>4, EnteredStep

-----------------------------------------------------------------------------
(* Time, and the process *)

LEMMA WakeStep == IInv /\ Wake => IInv'
  <1> SUFFICES ASSUME IInv, Wake PROVE IInv'
    OBVIOUS
  <1>1. /\ positions \in [Ids -> Positions] /\ cooldowns \in [Coins -> Nat]
        /\ positions' = [id \in Ids |-> Later(positions[id])]
        /\ cooldowns' = [c \in Coins |-> Cooler(cooldowns[c])]
        /\ pc' = "check" /\ cur' = cur /\ todo' = OpenIds
    BY DEF Wake, IInv, PlaceOK
  <1>2. \A id \in Ids : /\ positions'[id] = Later(positions[id])
                         /\ positions'[id] \in Positions
                         /\ positions'[id].state = positions[id].state
                         /\ positions'[id].coin = positions[id].coin
    BY <1>1, Ages
  <1>3. \A n \in Nat : Cooler(n) \in Nat /\ (n = 0 \/ Cooler(n) = n - 1)
    BY DEF Cooler
  <1>4. PlaceOK'
    BY <1>1, <1>2, <1>3 DEF IInv, PlaceOK, Stages
  <1>5. RestOK'
    BY DEF IInv, RestOK, Wake, OpenIds, exchange
  <1>6. CoinsOK' /\ ChecksOK' /\ EntryOK'
    BY <1>1, <1>2 DEF IInv, CoinsOK, ChecksOK, EntryOK, OpenIds
  <1>7. CoolingOK'
    <2> SUFFICES ASSUME NEW id \in Ids, positions'[id].state = "closed",
                        positions'[id].idle # None
                 PROVE  cooldowns'[positions'[id].coin] + positions'[id].idle >= COOLDOWN
      BY <1>1 DEF CoolingOK
    <2> DEFINE p == positions[id]
               n == p.idle
               cool == cooldowns[p.coin]
    <2>1. p \in Positions /\ p.state = "closed" /\ p.coin \in Coins
      BY <1>1, <1>2 DEF IInv, CoinsOK
    <2>2. n # None
      BY <1>2, <2>1, Ages
    <2>3. /\ n \in Nat /\ cool \in Nat /\ cool + n >= COOLDOWN
          /\ positions'[id].idle = (IF n < COOLDOWN THEN n + 1 ELSE n)
          /\ cooldowns'[positions'[id].coin] = Cooler(cool)
      <3>1. n \in Nat /\ cool \in Nat
        BY <1>1, <2>1, <2>2 DEF Positions
      <3>2. cool + n >= COOLDOWN
        BY <2>1, <2>2 DEF IInv, CoolingOK
      <3>3. positions'[id].idle = (IF n < COOLDOWN THEN n + 1 ELSE n)
        BY <1>2, <2>1, <2>2, Ages
      <3>4. cooldowns'[positions'[id].coin] = Cooler(cool)
        BY <1>1, <1>2, <2>1
      <3> QED
        BY <3>1, <3>2, <3>3, <3>4
    <2> HIDE DEF n, cool
    <2>4. COOLDOWN \in Nat
      BY TrendLimitAssumption
    <2>5. CASE n < COOLDOWN
      BY <1>3, <2>3, <2>4, <2>5
    <2>6. CASE ~(n < COOLDOWN)
      BY <1>3, <2>3, <2>4, <2>6
    <2> QED
      BY <2>5, <2>6
  <1> QED
    BY <1>4, <1>5, <1>6, <1>7 DEF IInv

LEMMA GoneStep == IInv /\ (LoopEnds \/ Kill) => IInv'
  <1> SUFFICES ASSUME IInv, LoopEnds \/ Kill PROVE IInv'
    OBVIOUS
  <1>1. Gone /\ UNCHANGED restarts
    BY DEF LoopEnds, Kill
  <1>2. /\ positions \in [Ids -> Positions]
        /\ positions' = [id \in Ids |-> Forgotten(positions[id])]
        /\ pc' = "down" /\ cur' = None /\ todo' = {} /\ UNCHANGED cooldowns
    BY <1>1 DEF Gone, IInv, PlaceOK
  <1>3. ASSUME NEW id \in Ids
        PROVE  /\ positions'[id] \in Positions
               /\ positions'[id].coin = positions[id].coin
               /\ positions'[id].state # "none" => positions[id].state # "none"
               /\ positions'[id].state = "closed" => positions'[id].idle = None
    <2> DEFINE p == positions[id]
    <2>1. p \in Positions /\ positions'[id] = Forgotten(p)
      BY <1>2
    <2> HIDE DEF p
    <2>2. CASE p.state = "open"
      BY <2>1, <2>2, Forgets DEF p
    <2>3. CASE p.state = "placing"
      BY <2>1, <2>3, Forgets DEF p
    <2>4. CASE p.state \notin {"open", "placing"}
      BY <2>1, <2>4, Forgets DEF p
    <2> QED
      BY <2>2, <2>3, <2>4
  <1>4. PlaceOK'
    BY <1>2, <1>3 DEF IInv, PlaceOK, Stages
  <1>5. RestOK'
    BY <1>1 DEF IInv, RestOK, Gone
  <1>6. CoinsOK' /\ ChecksOK' /\ EntryOK' /\ CoolingOK'
    BY <1>2, <1>3 DEF IInv, CoinsOK, ChecksOK, EntryOK, CoolingOK
  <1> QED
    BY <1>4, <1>5, <1>6 DEF IInv

LEMMA StartStep == IInv /\ Start => IInv'
  <1> SUFFICES ASSUME IInv, Start PROVE IInv'
    OBVIOUS
  <1>1. pc = "down" /\ pc' = "scan" /\ UNCHANGED <<cur, todo, positions>>
    BY DEF Start
  <1>2. PlaceOK'
    BY <1>1 DEF IInv, PlaceOK, Start, Stages
  <1>3. RestOK'
    BY TrendLimitAssumption DEF IInv, RestOK, Start, exchange
  <1>4. CoinsOK' /\ ChecksOK' /\ EntryOK' /\ CoolingOK'
    BY <1>1 DEF IInv, CoinsOK, ChecksOK, EntryOK, CoolingOK
  <1> QED
    BY <1>2, <1>3, <1>4 DEF IInv

LEMMA Step == IInv /\ [Next]_vars => IInv'
  <1> SUFFICES ASSUME IInv, [Next]_vars PROVE IInv'
    OBVIOUS
  <1>1. CASE Cycle
    <2>1. ASSUME NEW id \in Ids, NEW px \in Prices, CheckKeep(id, px) \/ CloseLive(id, px)
          PROVE  IInv'
      BY <2>1, TrailSteps
    <2>2. ASSUME NEW id \in Ids, NEW px \in Prices, ClosePaper(id, px)
          PROVE  IInv'
      BY <2>2, ClosePaperStep
    <2>3. ASSUME NEW r \in {"ok", "error", "unknown"}, ExitReply(r)
          PROVE  IInv'
      BY <2>3, ExitReplyStep
    <2>4. ASSUME NEW id \in Ids, NEW c \in Coins, NEW signal \in Signals,
                 Decide(id, c, signal)
          PROVE  IInv'
      BY <2>4, DecideStep
    <2> QED
      BY <1>1, <2>1, <2>2, <2>3, <2>4, QuietSteps, RecordStep, EnteredSteps, WakeStep, GoneStep
      DEF Cycle
  <1>2. CASE Stop \/ UNCHANGED vars
    BY <1>2, QuietSteps
  <1>3. CASE Kill \/ Start
    BY <1>3, GoneStep, StartStep
  <1> QED
    BY <1>1, <1>2, <1>3 DEF Next

THEOREM Invariance == Spec => []IInv
  BY Initially, Step, PTL DEF Spec

\* Every reachable state has its type.
THEOREM TypeCorrect == Spec => []TypeOK
  <1>1. IInv => TypeOK
    BY DEF IInv, PlaceOK, RestOK, TypeOK
  <1> QED
    BY <1>1, Invariance, PTL

-----------------------------------------------------------------------------
(* What a step does to the positions *)

Others(id) == \A other \in Ids \ {id} : positions'[other] = positions[other]

\* Time passes, or a stop is moved.
Same ==
  \A id \in Ids :
    /\ positions'[id].state = positions[id].state
    /\ positions'[id].coin = positions[id].coin
    /\ Sign(positions[id]) * positions'[id].trailing >= Sign(positions[id]) * positions[id].trailing

Closing(id) ==
  /\ positions[id].state = "open" /\ positions'[id].state = "closed"
  /\ positions'[id].coin = positions[id].coin
  /\ Others(id)

\* An entry is decided on, or given up.
Passing(id) ==
  /\ positions[id].state \in {"none", "placing"}
  /\ positions'[id].state \in {"none", "placing", "dropped"}
  /\ Others(id)

Opening ==
  /\ pc \in {"sizing", "entry"} /\ cur \in Ids
  /\ positions'[cur].state = "open" /\ positions'[cur].coin = positions[cur].coin
  /\ Others(cur)

Going ==
  \A id \in Ids :
    /\ positions'[id].coin = positions[id].coin
    /\ positions[id].state = "open" => positions'[id].state = "lost"
    /\ positions[id].state = "placing" => positions'[id].state = "dropped"
    /\ positions[id].state \notin {"open", "placing"} => positions'[id].state = positions[id].state

LEMMA SameSame == ASSUME IInv, UNCHANGED positions PROVE Same
  <1> SUFFICES ASSUME NEW id \in Ids
               PROVE  Sign(positions[id]) * positions[id].trailing
                        >= Sign(positions[id]) * positions[id].trailing
    BY DEF Same
  <1>1. positions[id].trailing \in Int
    BY DEF IInv, PlaceOK, Positions
  <1> QED
    BY <1>1, SignIsUnit

LEMMA TrailIsSame ==
  ASSUME IInv, NEW id \in Ids, NEW px \in Prices, CheckKeep(id, px) \/ CloseLive(id, px)
  PROVE  Same
  <1>1. /\ positions \in [Ids -> Positions]
        /\ positions' = [positions EXCEPT ![id] = Trailed(positions[id], px)]
    BY DEF CheckKeep, CloseLive, IInv, PlaceOK
  <1> SUFFICES ASSUME NEW other \in Ids
               PROVE  /\ positions'[other].state = positions[other].state
                      /\ positions'[other].coin = positions[other].coin
                      /\ Sign(positions[other]) * positions'[other].trailing
                           >= Sign(positions[other]) * positions[other].trailing
    BY DEF Same
  <1>2. CASE other = id
    BY <1>1, <1>2, Trails
  <1>3. CASE other # id
    <2>1. positions'[other] = positions[other] /\ positions[other].trailing \in Int
      BY <1>1, <1>3 DEF Positions
    <2> QED
      BY <2>1, SignIsUnit
  <1> QED
    BY <1>2, <1>3

LEMMA WakeIsSame == ASSUME IInv, Wake PROVE Same
  <1> SUFFICES ASSUME NEW id \in Ids
               PROVE  /\ positions'[id].state = positions[id].state
                      /\ positions'[id].coin = positions[id].coin
                      /\ Sign(positions[id]) * positions'[id].trailing
                           >= Sign(positions[id]) * positions[id].trailing
    BY DEF Same
  <1>1. positions[id] \in Positions /\ positions'[id] = Later(positions[id])
    BY DEF Wake, IInv, PlaceOK
  <1>2. positions[id].trailing \in Int
    BY <1>1 DEF Positions
  <1>3. positions'[id].trailing = positions[id].trailing
    BY <1>1, Ages
  <1> QED
    BY <1>1, <1>2, <1>3, Ages, SignIsUnit

LEMMA CloseIsClosing ==
  ASSUME IInv,
         NEW id \in Ids, NEW p \in Positions, positions[id].state = "open",
         p.coin = positions[id].coin, positions' = [positions EXCEPT ![id] = Closed(p)]
  PROVE  Closing(id)
  <1>1. /\ positions \in [Ids -> Positions]
        /\ Closed(p).state = "closed" /\ Closed(p).coin = p.coin
    BY Closes DEF IInv, PlaceOK
  <1> QED
    BY <1>1 DEF Closing, Others

LEMMA GoneIsGoing == ASSUME IInv, Gone PROVE Going
  <1>1. \A id \in Ids : positions[id] \in Positions /\ positions'[id] = Forgotten(positions[id])
    BY DEF Gone, IInv, PlaceOK
  <1> QED
    BY <1>1, Forgets DEF Going

LEMMA EntryEffect ==
  ASSUME IInv, TooSmall \/ OpenPaper \/ \E r \in {"ok", "error", "unknown"} : EntryReply(r)
  PROVE  Passing(cur) \/ Opening
  <1>1. /\ pc \in {"sizing", "entry"} /\ cur \in Ids /\ positions[cur].state = "placing"
        /\ positions \in [Ids -> Positions]
    BY DEF TooSmall, OpenPaper, EntryReply, IInv, EntryOK, PlaceOK
  <1>2. CASE TooSmall
    <2>1. NoPosition.state = "none"
      BY DEF NoPosition
    <2> QED
      BY <1>1, <1>2, <2>1 DEF TooSmall, Passing, Others
  <1>3. ASSUME NEW s \in {"open", "dropped"}, positions' = [positions EXCEPT ![cur].state = s]
        PROVE  Passing(cur) \/ Opening
    <2>1. positions'[cur].state = s /\ positions'[cur].coin = positions[cur].coin
      BY <1>1, <1>3 DEF Positions
    <2> QED
      BY <1>1, <1>3, <2>1 DEF Passing, Opening, Others
  <1>4. CASE OpenPaper
    BY <1>3, <1>4 DEF OpenPaper
  <1>5. ASSUME NEW r \in {"ok", "error", "unknown"}, EntryReply(r)
        PROVE  Passing(cur) \/ Opening
    BY <1>3, <1>5 DEF EntryReply
  <1> QED
    BY <1>2, <1>4, <1>5

\* Every step is of one of these kinds.
LEMMA Effects ==
  ASSUME IInv, [Next]_vars
  PROVE  \/ Same
         \/ \E id \in Ids : Closing(id) \/ Passing(id)
         \/ Opening
         \/ Going
  <1>1. ASSUME NEW id \in Ids, NEW px \in Prices, ClosePaper(id, px)
        PROVE  Closing(id)
    <2>1. positions[id].state = "open" /\ positions[id] \in Positions
      BY <1>1 DEF ClosePaper, IInv, ChecksOK, PlaceOK
    <2>2. positions' = [positions EXCEPT ![id] = Closed(Trailed(positions[id], px))]
      BY <1>1 DEF ClosePaper
    <2> QED
      BY <2>1, <2>2, Trails, CloseIsClosing
  <1>2. ASSUME NEW r \in {"ok", "error", "unknown"}, ExitReply(r)
        PROVE  Same \/ (cur \in Ids /\ Closing(cur))
    <2>1. cur \in Ids /\ positions[cur].state = "open" /\ positions[cur] \in Positions
      BY <1>2 DEF ExitReply, IInv, ChecksOK, PlaceOK
    <2>2. \/ positions' = [positions EXCEPT ![cur] = Closed(positions[cur])]
          \/ UNCHANGED positions
      BY <1>2 DEF ExitReply
    <2> QED
      BY <2>1, <2>2, CloseIsClosing, SameSame
  <1>3. ASSUME NEW id \in Ids, NEW c \in Coins, NEW signal \in Signals, Decide(id, c, signal)
        PROVE  Passing(id)
    <2>1. positions' = [positions EXCEPT ![id] = Decided(c, signal)]
      BY <1>3 DEF Decide, Decided
    <2>2. positions[id].state = "none" /\ positions \in [Ids -> Positions]
      BY <1>3 DEF Decide, Fresh, IInv, PlaceOK
    <2> QED
      BY <2>1, <2>2, Decides DEF Passing, Others
  <1>4. CASE UNCHANGED positions
    BY <1>4, SameSame
  <1>5. CASE Kill \/ LoopEnds
    BY <1>5, GoneIsGoing DEF Kill, LoopEnds
  <1>6. CASE TooSmall \/ OpenPaper \/ \E r \in {"ok", "error", "unknown"} : EntryReply(r)
    <2>1. cur \in Ids
      BY <1>6 DEF TooSmall, OpenPaper, EntryReply, IInv, EntryOK
    <2> QED
      BY <1>6, <2>1, EntryEffect
  <1>7. CASE Cycle
    <2>1. CASE \/ \E id \in Ids : CheckSkip(id)
               \/ \E ok \in BOOLEAN : LogClose(ok) \/ SaveRow(ok)
               \/ Score \/ CheckDone \/ OpenLive \/ ScanDone
      BY <2>1, <1>4 DEF CheckSkip, LogClose, SaveRow, Score, CheckDone, OpenLive, ScanDone
    <2> QED
      BY <1>1, <1>2, <1>3, <1>5, <1>6, <1>7, <2>1, TrailIsSame, WakeIsSame DEF Cycle
  <1>8. CASE Stop \/ Start \/ UNCHANGED vars
    BY <1>8, <1>4 DEF Stop, Start, vars
  <1> QED
    BY <1>5, <1>7, <1>8 DEF Next

-----------------------------------------------------------------------------
(* The scorecard *)

\* Only closed positions have records, and only the one in hand has an event
\* that the scorecard has yet to hear of, unless the process died over it.
ScoringOK ==
  /\ pc \in {"event", "score", "row"} => cur \in Ids /\ positions[cur].state = "closed"
  /\ \A id \in Ids : books[id] # "none" => positions[id].state = "closed"
  /\ \A id \in Ids : positions[id].idle # None /\ books[id] = "event"
                       => pc = "score" /\ cur = id

\* A step that writes no record and hands over no closed position.
LEMMA ScoringStays ==
  ASSUME ScoringOK, UNCHANGED books, pc \notin {"event", "score", "row"},
         pc' \notin {"event", "score", "row"},
         \A id \in Ids : positions[id].state = "closed" =>
            /\ positions'[id].state = "closed"
            /\ positions'[id].idle # None => positions[id].idle # None
  PROVE  ScoringOK'
  BY DEF ScoringOK

LEMMA ScoringRecords ==
  ASSUME IInv, ScoringOK, (\E ok \in BOOLEAN : LogClose(ok) \/ SaveRow(ok)) \/ Score
  PROVE  ScoringOK'
  <1>1. /\ cur \in Ids /\ positions[cur].state = "closed" /\ UNCHANGED positions
        /\ books \in [Ids -> {"none", "event", "scored", "traded"}]
    BY DEF LogClose, SaveRow, Score, ScoringOK, IInv, RestOK
  <1>2. ASSUME NEW ok \in BOOLEAN, LogClose(ok) PROVE ScoringOK'
    BY <1>1, <1>2 DEF LogClose, ScoringOK
  <1>3. ASSUME NEW ok \in BOOLEAN, SaveRow(ok) PROVE ScoringOK'
    BY <1>1, <1>3 DEF SaveRow, ScoringOK
  <1>4. CASE Score
    BY <1>1, <1>4 DEF Score, ScoringOK
  <1> QED
    BY <1>2, <1>3, <1>4

LEMMA ScoringCloses ==
  ASSUME IInv, ScoringOK, NEW id \in Ids, Closing(id), pc' = "event", cur' = id,
         pc \notin {"event", "score", "row"}, UNCHANGED books
  PROVE  ScoringOK'
  BY DEF ScoringOK, Closing, Others

LEMMA ScoringStep ==
  ASSUME IInv, ScoringOK, [Next]_vars
  PROVE  ScoringOK'
  <1>1. ASSUME NEW id \in Ids, NEW px \in Prices, ClosePaper(id, px) PROVE ScoringOK'
    <2>1. positions[id].state = "open" /\ positions[id] \in Positions
      BY <1>1 DEF ClosePaper, IInv, ChecksOK, PlaceOK
    <2>2. positions' = [positions EXCEPT ![id] = Closed(Trailed(positions[id], px))]
      BY <1>1 DEF ClosePaper
    <2>3. Closing(id)
      BY <2>1, <2>2, Trails, CloseIsClosing
    <2> QED
      BY <1>1, <2>3, ScoringCloses DEF ClosePaper
  <1>2. ASSUME NEW r \in {"ok", "error", "unknown"}, ExitReply(r) PROVE ScoringOK'
    <2>1. cur \in Ids /\ positions[cur].state = "open" /\ positions[cur] \in Positions
      BY <1>2 DEF ExitReply, IInv, ChecksOK, PlaceOK
    <2>2. CASE Acknowledged(r)
      <3>1. positions' = [positions EXCEPT ![cur] = Closed(positions[cur])]
        BY <1>2, <2>2 DEF ExitReply
      <3>2. Closing(cur)
        BY <2>1, <3>1, CloseIsClosing
      <3> QED
        BY <1>2, <2>1, <2>2, <3>2, ScoringCloses DEF ExitReply
    <2>3. CASE ~Acknowledged(r)
      BY <1>2, <2>3, ScoringStays DEF ExitReply
    <2> QED
      BY <2>2, <2>3
  <1>3. CASE (\E ok \in BOOLEAN : LogClose(ok) \/ SaveRow(ok)) \/ Score
    BY <1>3, ScoringRecords
  <1>4. CASE UNCHANGED <<positions, books>> /\ pc' = pc /\ cur' = cur
    BY <1>4 DEF ScoringOK
  <1>5. ASSUME NEW id \in Ids, NEW px \in Prices, CheckKeep(id, px) \/ CloseLive(id, px)
        PROVE  ScoringOK'
    <2>1. positions[id].state = "open"
      BY <1>5 DEF CheckKeep, CloseLive, IInv, ChecksOK
    <2>2. Others(id)
      BY <1>5 DEF CheckKeep, CloseLive, IInv, PlaceOK, Others
    <2> QED
      BY <1>5, <2>1, <2>2, ScoringStays DEF CheckKeep, CloseLive, Others
  <1>6. ASSUME NEW id \in Ids, NEW c \in Coins, NEW signal \in Signals, Decide(id, c, signal)
        PROVE  ScoringOK'
    <2>1. positions[id].state = "none" /\ Others(id)
      BY <1>6 DEF Decide, Fresh, IInv, PlaceOK, Others
    <2> QED
      BY <1>6, <2>1, ScoringStays DEF Decide, Others
  <1>7. CASE TooSmall \/ OpenPaper \/ \E r \in {"ok", "error", "unknown"} : EntryReply(r)
    <2>1. /\ cur \in Ids /\ positions[cur].state = "placing" /\ pc' = "scan"
          /\ pc \in {"sizing", "entry"} /\ UNCHANGED books
      BY <1>7 DEF TooSmall, OpenPaper, EntryReply, IInv, EntryOK
    <2>2. Others(cur)
      BY <1>7, <2>1 DEF TooSmall, OpenPaper, EntryReply, IInv, PlaceOK, Others
    <2> QED
      BY <2>1, <2>2, ScoringStays DEF Others
  <1>8. CASE Wake
    <2>1. \A id \in Ids : positions[id].state = "closed" =>
            /\ positions'[id].state = "closed"
            /\ positions'[id].idle # None => positions[id].idle # None
      BY <1>8, Ages DEF Wake, IInv, PlaceOK
    <2> QED
      BY <1>8, <2>1, ScoringStays DEF Wake
  <1>9. CASE Kill \/ LoopEnds
    <2>1. Gone
      BY <1>9 DEF Kill, LoopEnds
    <2>2. \A id \in Ids : positions[id].state = "closed" =>
            positions'[id].state = "closed" /\ positions'[id].idle = None
      BY <2>1, Forgets DEF Gone, IInv, PlaceOK
    <2>3. \A id \in Ids : books'[id] # "none" => positions[id].state = "closed"
      BY <2>1 DEF Gone, ScoringOK
    <2> QED
      BY <2>1, <2>2, <2>3 DEF Gone, ScoringOK
  <1>10. CASE \/ \E id \in Ids : CheckSkip(id)
              \/ CheckDone \/ OpenLive \/ ScanDone \/ Start
    BY <1>10, ScoringStays DEF CheckSkip, CheckDone, OpenLive, ScanDone, Start
  <1>11. CASE Stop \/ UNCHANGED vars
    BY <1>4, <1>11 DEF Stop, vars, task
  <1> QED
    BY <1>1, <1>2, <1>3, <1>5, <1>6, <1>7, <1>8, <1>9, <1>10, <1>11 DEF Next, Cycle

\* close_position: whatever cannot be written and wherever the process dies, a closed
\* position with its event is known to the scorecard of the process that closed it
\* once the handler is done.
THEOREM ScorecardHears == Spec => []ClosedIsScored
  <1>1. Init => ScoringOK
    BY DEF Init, ScoringOK
  <1>2. IInv /\ ScoringOK /\ [Next]_vars => ScoringOK'
    BY ScoringStep
  <1>3. ScoringOK => ClosedIsScored
    BY DEF ScoringOK, ClosedIsScored, Handled
  <1> QED
    BY <1>1, <1>2, <1>3, Invariance, PTL DEF Spec

-----------------------------------------------------------------------------
(* The book and the exchange *)

\* The order in flight is the one of the position in hand.
AskedOK ==
  /\ pc = "entry" => ~paper /\ (landed => cur \in entered)
  /\ pc = "exit" => ~paper /\ (landed => cur \in exited)

\* Accepted orders stay accepted, and only an accepted one makes a record.
LEMMA BackedBy ==
  ASSUME BookFollowsExchange, paper' = paper, entered \subseteq entered', exited \subseteq exited',
         NEW id \in Ids, Others(id),
         positions'[id].state \in {"open", "closed", "lost"} =>
           positions[id].state \in {"open", "closed", "lost"} \/ id \in entered',
         positions'[id].state = "closed" => positions[id].state = "closed" \/ id \in exited'
  PROVE  BookFollowsExchange'
  BY DEF BookFollowsExchange, Others

LEMMA BackedBySame ==
  ASSUME BookFollowsExchange, paper' = paper, entered \subseteq entered', exited \subseteq exited',
         Same
  PROVE  BookFollowsExchange'
  BY DEF BookFollowsExchange, Same

LEMMA BackedExit ==
  ASSUME IInv, AskedOK, BookFollowsExchange,
         NEW r \in {"ok", "error", "unknown"}, ExitReply(r)
  PROVE  AskedOK' /\ BookFollowsExchange'
  <1>1. /\ cur \in Ids /\ positions[cur].state = "open" /\ positions[cur] \in Positions
        /\ UNCHANGED <<paper, entered, exited>> /\ pc' \in {"check", "event"}
    BY DEF ExitReply, IInv, ChecksOK, PlaceOK
  <1>2. AskedOK'
    BY <1>1 DEF AskedOK
  <1>3. CASE Acknowledged(r)
    <2>1. cur \in exited
      BY <1>3 DEF ExitReply, AskedOK, Replies, Acknowledged
    <2>2. positions' = [positions EXCEPT ![cur] = Closed(positions[cur])]
      BY <1>3 DEF ExitReply
    <2>3. Closing(cur)
      BY <1>1, <2>2, CloseIsClosing
    <2> QED
      BY <1>1, <1>2, <2>1, <2>3, BackedBy DEF Closing
  <1>4. CASE ~Acknowledged(r)
    BY <1>1, <1>2, <1>4, SameSame, BackedBySame DEF ExitReply
  <1> QED
    BY <1>3, <1>4

LEMMA BackedEntry ==
  ASSUME IInv, AskedOK, BookFollowsExchange,
         NEW r \in {"ok", "error", "unknown"}, EntryReply(r)
  PROVE  AskedOK' /\ BookFollowsExchange'
  <1>1. /\ cur \in Ids /\ positions \in [Ids -> Positions]
        /\ UNCHANGED <<paper, entered, exited>> /\ pc' = "scan"
        /\ positions' = [positions EXCEPT ![cur].state =
                            IF Acknowledged(r) THEN "open" ELSE "dropped"]
    BY DEF EntryReply, IInv, EntryOK, PlaceOK
  <1>2. AskedOK'
    BY <1>1 DEF AskedOK
  <1>3. /\ Others(cur)
        /\ positions'[cur].state = IF Acknowledged(r) THEN "open" ELSE "dropped"
    BY <1>1 DEF Others, Positions
  <1>4. Acknowledged(r) => cur \in entered
    BY DEF EntryReply, AskedOK, Replies, Acknowledged
  <1> QED
    BY <1>1, <1>2, <1>3, <1>4, BackedBy

LEMMA BackedStep ==
  ASSUME IInv, AskedOK, BookFollowsExchange, [Next]_vars
  PROVE  AskedOK' /\ BookFollowsExchange'
  <1>1. ASSUME NEW id \in Ids, NEW px \in Prices, ClosePaper(id, px)
        PROVE  AskedOK' /\ BookFollowsExchange'
    BY <1>1 DEF ClosePaper, AskedOK, BookFollowsExchange
  <1>2. ASSUME NEW id \in Ids, NEW px \in Prices, CheckKeep(id, px) \/ CloseLive(id, px)
        PROVE  AskedOK' /\ BookFollowsExchange'
    <2>1. /\ Same
          /\ paper' = paper /\ entered \subseteq entered' /\ exited \subseteq exited'
      BY <1>2, TrailIsSame DEF CheckKeep, CloseLive, exchange
    <2>2. AskedOK'
      BY <1>2 DEF AskedOK, CheckKeep, CloseLive
    <2> QED
      BY <2>1, <2>2, BackedBySame
  <1>3. ASSUME NEW id \in Ids, NEW c \in Coins, NEW signal \in Signals, Decide(id, c, signal)
        PROVE  AskedOK' /\ BookFollowsExchange'
    <2>1. positions' = [positions EXCEPT ![id] = Decided(c, signal)]
      BY <1>3 DEF Decide, Decided
    <2>2. Others(id) /\ positions'[id].state = "placing"
      BY <2>1, Decides DEF Others, IInv, PlaceOK
    <2>3. UNCHANGED <<paper, entered, exited>> /\ pc' = "sizing"
      BY <1>3 DEF Decide, exchange
    <2>4. AskedOK'
      BY <2>3 DEF AskedOK
    <2> QED
      BY <2>2, <2>3, <2>4, BackedBy
  <1>4. CASE Kill \/ LoopEnds
    <2>1. Going /\ UNCHANGED <<paper, entered, exited>> /\ pc' = "down"
      BY <1>4, GoneIsGoing DEF Kill, LoopEnds, Gone
    <2> QED
      BY <2>1 DEF AskedOK, BookFollowsExchange, Going
  <1>5. CASE TooSmall
    <2>1. cur \in Ids /\ positions' = [positions EXCEPT ![cur] = NoPosition]
      BY <1>5 DEF TooSmall, IInv, EntryOK
    <2>2. Others(cur) /\ positions'[cur].state = "none"
      BY <2>1 DEF Others, IInv, PlaceOK, NoPosition
    <2>3. UNCHANGED <<paper, entered, exited>> /\ pc' = "scan"
      BY <1>5 DEF TooSmall, exchange
    <2>4. AskedOK'
      BY <2>3 DEF AskedOK
    <2> QED
      BY <2>1, <2>2, <2>3, <2>4, BackedBy
  <1>6. CASE OpenPaper
    BY <1>6 DEF OpenPaper, AskedOK, BookFollowsExchange
  <1>7. CASE Wake
    <2>1. UNCHANGED <<paper, entered, exited>> /\ pc' = "check"
      BY <1>7 DEF Wake, exchange
    <2>2. AskedOK'
      BY <2>1 DEF AskedOK
    <2> QED
      BY <1>7, <2>1, <2>2, WakeIsSame, BackedBySame
  <1>8. CASE \/ \E id \in Ids : CheckSkip(id)
             \/ \E ok \in BOOLEAN : LogClose(ok) \/ SaveRow(ok)
             \/ Score \/ CheckDone \/ OpenLive \/ ScanDone \/ Stop \/ Start \/ UNCHANGED vars
    <2>1. /\ UNCHANGED <<paper, positions>>
          /\ entered \subseteq entered' /\ exited \subseteq exited'
      BY <1>8 DEF CheckSkip, LogClose, SaveRow, Score, CheckDone, OpenLive, ScanDone, Stop,
                  Start, exchange, vars
    <2>2. AskedOK'
      BY <1>8 DEF AskedOK, CheckSkip, LogClose, SaveRow, Score, CheckDone, OpenLive, ScanDone,
                  Stop, Start, exchange, task, vars
    <2> QED
      BY <2>1, <2>2, SameSame, BackedBySame
  <1> QED
    BY <1>1, <1>2, <1>3, <1>4, <1>5, <1>6, <1>7, <1>8, BackedExit, BackedEntry DEF Next, Cycle

\* open_position and close_position: whatever is lost, retried or killed, a live
\* bot lists and closes what the exchange has accepted, and nothing else.
THEOREM BookIsBacked == Spec => []BookFollowsExchange
  <1>1. Init => AskedOK /\ BookFollowsExchange
    BY DEF Init, AskedOK, BookFollowsExchange, NoPosition
  <1>2. IInv /\ AskedOK /\ BookFollowsExchange /\ [Next]_vars
          => AskedOK' /\ BookFollowsExchange'
    BY BackedStep
  <1> QED
    BY <1>1, <1>2, Invariance, PTL DEF Spec

-----------------------------------------------------------------------------
\* check_existing_positions: for all stop distances, tightened with the age or
\* not, the trailing stop of an open position moves in its favour only.
THEOREM StopsTighten == Spec => StopOnlyTightens
  <1> DEFINE Tighten ==
        \A id \in Ids :
          positions[id].state = "open" /\ positions'[id].state = "open"
            => Sign(positions[id]) * positions'[id].trailing
                 >= Sign(positions[id]) * positions[id].trailing
  <1>1. IInv /\ [Next]_vars => [Tighten]_vars
    <2> SUFFICES ASSUME IInv, [Next]_vars, NEW id \in Ids,
                        positions[id].state = "open", positions'[id].state = "open"
                 PROVE  Sign(positions[id]) * positions'[id].trailing
                          >= Sign(positions[id]) * positions[id].trailing
      OBVIOUS
    <2>1. Same \/ positions'[id] = positions[id]
      <3>1. CASE Opening
        BY <3>1 DEF Opening, Others, IInv, EntryOK
      <3> QED
        BY <3>1, Effects DEF Closing, Passing, Going, Others
    <2>2. positions[id].trailing \in Int
      BY DEF IInv, PlaceOK, Positions
    <2> QED
      BY <2>1, <2>2, SignIsUnit DEF Same
  <1> QED
    BY <1>1, Invariance, PTL DEF Spec, StopOnlyTightens

\* COOLDOWN_HOURS: whatever the awaits of the entry and of the exits interleave
\* with, no coin is entered before the cooldown of its last exit is over.
THEOREM CoinsCoolDown == Spec => CooldownHolds
  <1> DEFINE Holds ==
        \A id, old \in Ids :
          (/\ positions[id].state # "open" /\ positions'[id].state = "open"
           /\ positions[old].state = "closed" /\ positions[old].idle # None
           /\ positions[old].coin = positions'[id].coin)
          => positions[old].idle >= COOLDOWN
  <1>1. IInv /\ [Next]_vars => [Holds]_vars
    <2> SUFFICES ASSUME IInv, [Next]_vars, NEW id \in Ids, NEW old \in Ids,
                        positions[id].state # "open", positions'[id].state = "open",
                        positions[old].state = "closed", positions[old].idle # None,
                        positions[old].coin = positions'[id].coin
                 PROVE  positions[old].idle >= COOLDOWN
      OBVIOUS
    <2>1. Opening /\ id = cur
      BY Effects DEF Same, Closing, Passing, Opening, Going, Others
    <2>2. cooldowns[positions[old].coin] = 0
      BY <2>1 DEF Opening, IInv, EntryOK
    <2>3. positions[old].idle \in Nat
      BY DEF IInv, PlaceOK, Positions
    <2> QED
      BY <2>2, <2>3, TrendLimitAssumption DEF IInv, CoolingOK
  <1> QED
    BY <1>1, Invariance, PTL DEF Spec, CooldownHolds

-----------------------------------------------------------------------------
(* The refinement *)

\* The substitutions of Book.
Life == [id \in Ids |-> IF positions[id].state \in {"open", "closed", "lost"}
                        THEN positions[id].state ELSE "unused"]
Market == [id \in Ids |-> IF positions[id].state \in {"open", "closed", "lost"}
                          THEN positions[id].coin ELSE None]

LEMMA SameCardinality == ASSUME NEW S PROVE Book!Cardinality(S) = Cardinality(S)
  BY DEF Book!Cardinality, Cardinality

LEMMA BookOpenIds == Book!OpenIds = OpenIds
  BY DEF Book!OpenIds, OpenIds

LEMMA BookInit == Init => Book!Init
  <1>1. NoPosition.state = "none"
    BY DEF NoPosition
  <1> QED
    BY <1>1 DEF Init, Book!Init

LEMMA BookStays ==
  ASSUME Life' = Life, Market' = Market
  PROVE  UNCHANGED Book!vars
  BY DEF Book!vars, Life, Market

LEMMA BookOpen ==
  ASSUME IInv, Opening, NEW id \in Ids, NEW c \in Coins, id = cur, c = positions[cur].coin
  PROVE  Book!Open(id, c)
  <1>1. /\ positions[id].state = "placing"
        /\ Cardinality(OpenIds) < MAX_CONCURRENT_POSITIONS
        /\ \A other \in OpenIds : positions[other].coin # c
    BY DEF Opening, IInv, EntryOK
  <1>2. /\ positions'[id].state = "open" /\ positions'[id].coin = c
        /\ \A other \in Ids \ {id} : positions'[other] = positions[other]
    BY DEF Opening, Others
  <1>3. Life[id] = "unused" /\ Life' = [Life EXCEPT ![id] = "open"]
    BY <1>1, <1>2 DEF Life
  <1>4. Market' = [Market EXCEPT ![id] = c]
    BY <1>1, <1>2 DEF Market
  <1>5. /\ Cardinality(Book!OpenIds) < MAX_CONCURRENT_POSITIONS
        /\ \A other \in Book!OpenIds : Market[other] # c
    BY <1>1, BookOpenIds DEF Market, OpenIds
  <1> QED
    BY <1>3, <1>4, <1>5, SameCardinality DEF Book!Open, Life, Market

LEMMA BookClose == ASSUME IInv, NEW id \in Ids, Closing(id) PROVE Book!Close(id)
  <1>1. Life[id] = "open" /\ Life' = [Life EXCEPT ![id] = "closed"]
    BY DEF Closing, Others, Life
  <1>2. Market' = Market
    BY DEF Closing, Others, Market
  <1> QED
    BY <1>1, <1>2 DEF Book!Close, Life, Market

LEMMA BookRestart == ASSUME IInv, Going PROVE Book!Restart
  <1>1. Life' = [id \in Ids |-> IF Life[id] = "open" THEN "lost" ELSE Life[id]]
    BY DEF Going, Life
  <1>2. Market' = Market
    BY DEF Going, Market
  <1> QED
    BY <1>1, <1>2 DEF Book!Restart, Life, Market

LEMMA BookStep == IInv /\ [Next]_vars => [Book!Next]_(Book!vars)
  <1> SUFFICES ASSUME IInv, [Next]_vars PROVE Book!Next \/ UNCHANGED Book!vars
    OBVIOUS
  <1>1. CASE Same
    <2>1. Life' = Life /\ Market' = Market
      BY <1>1 DEF Same, Life, Market
    <2> QED
      BY <2>1, BookStays
  <1>2. ASSUME NEW id \in Ids, Closing(id) PROVE Book!Next
    BY <1>2, BookClose DEF Book!Next
  <1>3. ASSUME NEW id \in Ids, Passing(id) PROVE UNCHANGED Book!vars
    <2>1. \A other \in Ids :
            \/ positions'[other] = positions[other]
            \/ /\ positions[other].state \notin {"open", "closed", "lost"}
               /\ positions'[other].state \notin {"open", "closed", "lost"}
      BY <1>3 DEF Passing, Others
    <2>2. Life' = Life
      BY <2>1 DEF Life
    <2>3. Market' = Market
      BY <2>1 DEF Market
    <2> QED
      BY <2>2, <2>3, BookStays
  <1>4. CASE Opening
    <2>1. cur \in Ids /\ positions[cur].coin \in Coins
      BY <1>4 DEF Opening, IInv, EntryOK, CoinsOK
    <2>2. PICK id \in Ids, c \in Coins : id = cur /\ c = positions[cur].coin
      BY <2>1
    <2>3. Book!Open(id, c)
      BY <1>4, <2>2, BookOpen
    <2> QED
      BY <2>3 DEF Book!Next
  <1>5. CASE Going
    BY <1>5, BookRestart DEF Book!Next
  <1> QED
    BY <1>1, <1>2, <1>3, <1>4, <1>5, Effects

\* TrendFollowingStrategy keeps the promises of a position book, although the
\* limits are checked before the awaits of an entry.
THEOREM BookIsImplemented == Spec => ImplementsBook
  BY BookInit, BookStep, Invariance, PTL DEF Spec, ImplementsBook, Book!Spec
=============================================================================
