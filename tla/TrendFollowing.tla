--------------------------- MODULE TrendFollowing ---------------------------
(***************************************************************************)
(* The trend-following bot: TrendFollowingStrategy of                      *)
(* src/strategy/trend_following.py as run_trend_following.py runs it.      *)
(*                                                                         *)
(* One task checks the stops of the open positions every CHECK_INTERVAL (a *)
(* tick) and then enters on the signals of a scan.  Between its checks and *)
(* the position an entry waits for candles, and in live mode for the       *)
(* exchange.  A signal to stop lets the current cycle and sleep end; a     *)
(* kill forgets positions, cooldowns and the scorecard.                    *)
(*                                                                         *)
(* Prices are small integers and the ATR is 1; a position is one unit.     *)
(***************************************************************************)
EXTENDS Integers, FiniteSets

CONSTANTS
  Ids, Coins,
  Prices,                  \* what a mid or a candle may show
  Trail,                   \* TRAILING_STOP_MULT fresh, tightened, and tightened twice
  ATR_STOP_MULT, ATR_TP_MULT, MAX_LOSS,
  TIGHTEN_AFTER, MAX_HOLD, COOLDOWN,  \* hours of the configuration, in ticks
  MAX_CONCURRENT_POSITIONS,
  MAINNET_RELEASE_APPROVED,
  PAPER_CAPITAL, Fee,
  MaxTicks, MaxRestarts,   \* bounds
  None

ASSUME TrendNoneAssumption == None \notin Coins \cup Ids \cup Nat
ASSUME TrendStopAssumption ==
  /\ Prices \subseteq Nat \ {0} /\ Trail \in [1 .. 3 -> Nat]
  /\ ATR_STOP_MULT \in Nat /\ ATR_TP_MULT \in Nat /\ MAX_LOSS \in Nat
ASSUME TrendLimitAssumption ==
  /\ TIGHTEN_AFTER \in Nat /\ MAX_HOLD \in Nat /\ COOLDOWN \in Nat
  /\ MAX_CONCURRENT_POSITIONS \in Nat /\ MAINNET_RELEASE_APPROVED \in BOOLEAN
  /\ PAPER_CAPITAL \in Nat /\ Fee \in Nat /\ MaxTicks \in Nat /\ MaxRestarts \in Nat

VARIABLES
  paper,        \* config.PAPER_TRADING
  running,      \* self._running
  pc, cur, todo, tried,
  positions,    \* self._positions, and the local one of open_position
  cooldowns,    \* self._coin_cooldowns: ticks to go
  capital,      \* self._paper_capital
  books,        \* how far the records of a closed position got; "none": not begun
  entered, exited,   \* entries and exits the exchange accepted
  landed,       \* whether the order in flight did
  ticks, restarts

task == <<running, pc, cur, todo, tried>>
exchange == <<entered, exited, landed>>
bounds == <<ticks, restarts>>
vars == <<paper, task, positions, cooldowns, capital, books, exchange, bounds>>

Stages ==
  {"down", "sleep", "check", "exit", "event", "score", "row", "scan", "sizing", "entry"}

Positions ==
  [state : {"none", "placing", "dropped", "open", "closed", "lost"},
   coin : Coins \cup {None}, side : {"LONG", "SHORT"}, entry : Nat,
   trailing : Int, best : Nat, age : Nat, idle : Nat \cup {None}]

NoPosition ==
  [state |-> "none", coin |-> None, side |-> "LONG", entry |-> 0,
   trailing |-> 0, best |-> 0, age |-> 0, idle |-> None]

TypeOK ==
  /\ paper \in BOOLEAN /\ running \in BOOLEAN
  /\ pc \in Stages /\ cur \in Ids \cup {None}
  /\ todo \subseteq Ids /\ tried \subseteq Coins
  /\ positions \in [Ids -> Positions]
  /\ cooldowns \in [Coins -> Nat]
  /\ capital \in Int
  /\ books \in [Ids -> {"none", "event", "scored", "traded"}]
  /\ entered \subseteq Ids /\ exited \subseteq Ids /\ landed \in BOOLEAN
  /\ ticks \in Nat /\ restarts \in Nat

\* require_mainnet_release_approval: no live mode before the release.
Modes == IF MAINNET_RELEASE_APPROVED THEN BOOLEAN ELSE {TRUE}

Init ==
  /\ paper \in Modes
  /\ running = TRUE /\ pc = "scan" /\ cur = None /\ todo = {} /\ tried = {}
  /\ positions = [id \in Ids |-> NoPosition]
  /\ cooldowns = [c \in Coins |-> 0]
  /\ capital = PAPER_CAPITAL
  /\ books = [id \in Ids |-> "none"]
  /\ entered = {} /\ exited = {} /\ landed = FALSE
  /\ ticks = 0 /\ restarts = 0

OpenIds == {id \in Ids : positions[id].state = "open"}

\* Up and down are mirrored: the profit of a price move of one unit.
Sign(p) == IF p.side = "LONG" THEN 1 ELSE -1

\* connector.place_order and connector.submit_order.
Replies == IF landed THEN {"ok", "unknown"} ELSE {"error", "unknown"}

\* Mutant of Acknowledged: only a refused order counts for nothing.
AcknowledgedUnlessRejected(r) == r # "error"

\* An order of unknown outcome counts for nothing.
Acknowledged(r) == r = "ok"

-----------------------------------------------------------------------------
(* check_existing_positions *)

TrailMult(p) ==
  IF p.age >= 2 * TIGHTEN_AFTER THEN Trail[3]
  ELSE IF p.age >= TIGHTEN_AFTER THEN Trail[2] ELSE Trail[1]

Tighter(p, a, b) == IF Sign(p) * a > Sign(p) * b THEN a ELSE b

\* Mutant of Trailed: the stop follows the price at its distance.
TrailedAtDistance(p, px) ==
  IF Sign(p) * px > Sign(p) * p.best
  THEN [p EXCEPT !.best = px, !.trailing = px - Sign(p) * TrailMult(p)]
  ELSE p

\* The stop moves only when the price is better than ever before.
Trailed(p, px) ==
  IF Sign(p) * px > Sign(p) * p.best
  THEN [p EXCEPT !.best = px,
                 !.trailing = Tighter(p, @, px - Sign(p) * TrailMult(p))]
  ELSE p

StopLoss(p) == p.entry - Sign(p) * ATR_STOP_MULT
TakeProfit(p) == p.entry + Sign(p) * ATR_TP_MULT

\* p has been trailed already.
ShouldClose(p, px) ==
  \/ Sign(p) * px <= Sign(p) * p.trailing
  \/ Sign(p) * px <= Sign(p) * StopLoss(p)
  \/ Sign(p) * px >= Sign(p) * TakeProfit(p)
  \/ p.age > MAX_HOLD
  \/ Sign(p) * (px - p.entry) < -MAX_LOSS

Closed(p) == [p EXCEPT !.state = "closed", !.idle = 0]

CheckKeep(id, px) ==
  /\ pc = "check" /\ id \in todo
  /\ ~ShouldClose(Trailed(positions[id], px), px)
  /\ positions' = [positions EXCEPT ![id] = Trailed(@, px)]
  /\ todo' = todo \ {id}
  /\ UNCHANGED <<paper, running, pc, cur, tried, cooldowns, capital, books, exchange, bounds>>

\* A coin without a mid is skipped, its maximal hold time included.
CheckSkip(id) ==
  /\ pc = "check" /\ id \in todo
  /\ todo' = todo \ {id}
  /\ UNCHANGED <<paper, running, pc, cur, tried, positions, cooldowns, capital, books,
                 exchange, bounds>>

ClosePaper(id, px) ==
  /\ pc = "check" /\ id \in todo /\ paper
  /\ ShouldClose(Trailed(positions[id], px), px)
  /\ positions' = [positions EXCEPT ![id] = Closed(Trailed(@, px))]
  /\ capital' = capital + Sign(positions[id]) * (px - positions[id].entry) - Fee
  /\ cooldowns' = [cooldowns EXCEPT ![positions[id].coin] = COOLDOWN]
  /\ pc' = "event" /\ cur' = id /\ todo' = todo \ {id}
  /\ UNCHANGED <<paper, running, tried, books, exchange, bounds>>

CloseLive(id, px) ==
  /\ pc = "check" /\ id \in todo /\ ~paper
  /\ ShouldClose(Trailed(positions[id], px), px)
  /\ positions' = [positions EXCEPT ![id] = Trailed(@, px)]
  /\ landed' \in BOOLEAN
  /\ exited' = IF landed' THEN exited \cup {id} ELSE exited
  /\ pc' = "exit" /\ cur' = id /\ todo' = todo \ {id}
  /\ UNCHANGED <<paper, running, tried, cooldowns, capital, books, entered, bounds>>

\* An exit without an acknowledgement is tried again at the next check.
ExitReply(r) ==
  /\ pc = "exit" /\ r \in Replies
  /\ IF Acknowledged(r)
     THEN /\ positions' = [positions EXCEPT ![cur] = Closed(@)]
          /\ cooldowns' = [cooldowns EXCEPT ![positions[cur].coin] = COOLDOWN]
          /\ pc' = "event" /\ cur' = cur
     ELSE /\ pc' = "check" /\ cur' = None
          /\ UNCHANGED <<positions, cooldowns>>
  /\ landed' = FALSE
  /\ UNCHANGED <<paper, running, todo, tried, capital, books, entered, exited, bounds>>

\* An event that cannot be written raises, and close_position gives up on the rest.
LogClose(ok) ==
  /\ pc = "event"
  /\ IF ok
     THEN books' = [books EXCEPT ![cur] = "event"] /\ pc' = "score" /\ cur' = cur
     ELSE pc' = "check" /\ cur' = None /\ UNCHANGED books
  /\ UNCHANGED <<paper, running, todo, tried, positions, cooldowns, capital, exchange, bounds>>

\* Mutant of Score: the row comes first, and without it the scorecard hears nothing.
ScoreAfterRow ==
  /\ pc = "score"
  /\ \/ books' = [books EXCEPT ![cur] = "traded"]
     \/ UNCHANGED books
  /\ pc' = "check" /\ cur' = None
  /\ UNCHANGED <<paper, running, todo, tried, positions, cooldowns, capital, exchange, bounds>>

Score ==
  /\ pc = "score"
  /\ books' = [books EXCEPT ![cur] = "scored"]
  /\ pc' = "row"
  /\ UNCHANGED <<paper, running, cur, todo, tried, positions, cooldowns, capital, exchange,
                 bounds>>

\* A row that cannot be written is logged as an error.
SaveRow(ok) ==
  /\ pc = "row"
  /\ books' = IF ok THEN [books EXCEPT ![cur] = "traded"] ELSE books
  /\ pc' = "check" /\ cur' = None
  /\ UNCHANGED <<paper, running, todo, tried, positions, cooldowns, capital, exchange, bounds>>

CheckDone ==
  /\ pc = "check" /\ todo = {}
  /\ pc' = "scan"
  /\ UNCHANGED <<paper, running, cur, todo, tried, positions, cooldowns, capital, books,
                 exchange, bounds>>

-----------------------------------------------------------------------------
(* scan_markets and open_position *)

Cooled(c) == cooldowns[c] = 0

\* Mutant of MayOpen: the limit is never looked at.
MayOpenUnlimited(c) == Cooled(c) /\ \A id \in OpenIds : positions[id].coin # c

MayOpen(c) ==
  /\ Cooled(c)
  /\ Cardinality(OpenIds) < MAX_CONCURRENT_POSITIONS
  /\ \A id \in OpenIds : positions[id].coin # c
  /\ paper => capital > 0

Fresh(id) ==
  /\ positions[id].state = "none"
  /\ id = CHOOSE other \in Ids : positions[other].state = "none"

\* _analyze_trend: what the averages, the ADX, the RSI, the distance to the fast
\* average and the volume of the last candles let through, if anything.
Signals == [side : {"LONG", "SHORT"}, px : Prices]

\* After its checks the handler waits for the candles that size the position.
Decide(id, c, signal) ==
  LET p == [state |-> "placing", coin |-> c, side |-> signal.side, entry |-> signal.px,
            trailing |-> 0, best |-> signal.px, age |-> 0, idle |-> None]
  IN /\ pc = "scan" /\ c \notin tried
     /\ MayOpen(c) /\ Fresh(id)
     /\ positions' = [positions EXCEPT ![id] = [p EXCEPT !.trailing = StopLoss(p)]]
     /\ pc' = "sizing" /\ cur' = id /\ tried' = tried \cup {c}
     /\ UNCHANGED <<paper, running, todo, cooldowns, capital, books, exchange, bounds>>

\* The volatility factor leaves a quantity that rounds to nothing.
TooSmall ==
  /\ pc = "sizing"
  /\ positions' = [positions EXCEPT ![cur] = NoPosition]
  /\ pc' = "scan" /\ cur' = None
  /\ UNCHANGED <<paper, running, todo, tried, cooldowns, capital, books, exchange, bounds>>

OpenPaper ==
  /\ pc = "sizing" /\ paper
  /\ positions' = [positions EXCEPT ![cur].state = "open"]
  /\ capital' = capital - Fee
  /\ pc' = "scan" /\ cur' = None
  /\ UNCHANGED <<paper, running, todo, tried, cooldowns, books, exchange, bounds>>

OpenLive ==
  /\ pc = "sizing" /\ ~paper
  /\ landed' \in BOOLEAN
  /\ entered' = IF landed' THEN entered \cup {cur} ELSE entered
  /\ pc' = "entry"
  /\ UNCHANGED <<paper, running, cur, todo, tried, positions, cooldowns, capital, books,
                 exited, bounds>>

EntryReply(r) ==
  /\ pc = "entry" /\ r \in Replies
  /\ positions' = [positions EXCEPT ![cur].state = IF Acknowledged(r) THEN "open" ELSE "dropped"]
  /\ pc' = "scan" /\ cur' = None /\ landed' = FALSE
  /\ UNCHANGED <<paper, running, todo, tried, cooldowns, capital, books, entered, exited, bounds>>

ScanDone ==
  /\ pc = "scan"
  /\ pc' = "sleep" /\ tried' = {}
  /\ UNCHANGED <<paper, running, cur, todo, positions, cooldowns, capital, books,
                 exchange, bounds>>

-----------------------------------------------------------------------------
(* run, and the process around it *)

Cooler(r) == IF r = 0 THEN 0 ELSE r - 1

Later(p) ==
  CASE p.state = "open" -> [p EXCEPT !.age = @ + 1]
    [] p.state = "closed" /\ p.idle # None /\ p.idle < COOLDOWN -> [p EXCEPT !.idle = @ + 1]
    [] OTHER -> p

Wake ==
  /\ pc = "sleep" /\ running /\ ticks < MaxTicks
  /\ ticks' = ticks + 1
  /\ positions' = [id \in Ids |-> Later(positions[id])]
  /\ cooldowns' = [c \in Coins |-> Cooler(cooldowns[c])]
  /\ todo' = OpenIds /\ pc' = "check"
  /\ UNCHANGED <<paper, running, cur, tried, capital, books, exchange, restarts>>

Stop ==
  /\ pc # "down" /\ running
  /\ running' = FALSE
  /\ UNCHANGED <<paper, pc, cur, todo, tried, positions, cooldowns, capital, books,
                 exchange, bounds>>

Forgotten(p) ==
  CASE p.state = "open" -> [NoPosition EXCEPT !.state = "lost", !.coin = p.coin]
    [] p.state = "placing" -> [p EXCEPT !.state = "dropped"]
    [] OTHER -> [p EXCEPT !.idle = None]

\* What ends with the process: nobody closes the open positions.
Gone ==
  /\ pc' = "down" /\ running' = FALSE /\ cur' = None /\ todo' = {} /\ tried' = {}
  /\ landed' = FALSE
  /\ positions' = [id \in Ids |-> Forgotten(positions[id])]
  /\ UNCHANGED <<paper, cooldowns, capital, books, entered, exited, ticks>>

\* Mutant of LoopEnds: the loop waits until its positions are closed.
LoopEndsFlat == pc = "sleep" /\ ~running /\ OpenIds = {} /\ Gone /\ UNCHANGED restarts

\* The loop ends after its sleep, and the process with it.
LoopEnds == pc = "sleep" /\ ~running /\ Gone /\ UNCHANGED restarts

Kill == pc # "down" /\ restarts < MaxRestarts /\ Gone /\ UNCHANGED restarts

Start ==
  /\ pc = "down" /\ restarts < MaxRestarts
  /\ pc' = "scan" /\ running' = TRUE
  /\ cooldowns' = [c \in Coins |-> 0]
  /\ capital' = PAPER_CAPITAL
  /\ restarts' = restarts + 1
  /\ UNCHANGED <<paper, cur, todo, tried, positions, books, exchange, ticks>>

-----------------------------------------------------------------------------
Cycle ==
  \/ \E id \in Ids : CheckSkip(id)
  \/ \E id \in Ids, px \in Prices :
       CheckKeep(id, px) \/ ClosePaper(id, px) \/ CloseLive(id, px)
  \/ \E r \in {"ok", "error", "unknown"} : ExitReply(r)
  \/ \E ok \in BOOLEAN : LogClose(ok) \/ SaveRow(ok)
  \/ Score
  \/ CheckDone
  \/ \E id \in Ids, c \in Coins, signal \in Signals : Decide(id, c, signal)
  \/ TooSmall
  \/ OpenPaper
  \/ OpenLive
  \/ \E r \in {"ok", "error", "unknown"} : EntryReply(r)
  \/ ScanDone
  \/ Wake
  \/ LoopEnds

Next == Cycle \/ Stop \/ Kill \/ Start

Spec == Init /\ [][Next]_vars

FairSpec == Spec /\ WF_vars(Cycle)

-----------------------------------------------------------------------------
(* Properties *)

Book == INSTANCE PositionBook WITH
  Limit <- MAX_CONCURRENT_POSITIONS,
  life <- [id \in Ids |-> IF positions[id].state \in {"open", "closed", "lost"}
                          THEN positions[id].state ELSE "unused"],
  market <- [id \in Ids |-> IF positions[id].state \in {"open", "closed", "lost"}
                            THEN positions[id].coin ELSE None]

\* Through the awaits of an entry, lost replies, stops and restarts, the bot
\* keeps the promises of a position book.
ImplementsBook == Book!Spec

\* check_existing_positions: while a position is open its trailing stop only
\* moves in the position's favour, although its distance depends on the age.
StopOnlyTightens ==
  [][\A id \in Ids :
       positions[id].state = "open" /\ positions'[id].state = "open"
         => Sign(positions[id]) * positions'[id].trailing
              >= Sign(positions[id]) * positions[id].trailing]_vars

\* "don't re-enter a coin within N hours after closing a position"
\* (COOLDOWN_HOURS): no position of a coin is opened before the cooldown of the
\* last one that this process closed is over.
CooldownHolds ==
  [][\A id, old \in Ids :
       (/\ positions[id].state # "open" /\ positions'[id].state = "open"
        /\ positions[old].state = "closed" /\ positions[old].idle # None
        /\ positions[old].coin = positions'[id].coin)
       => positions[old].idle >= COOLDOWN]_vars

\* open_position and close_position in live mode: through lost replies, retried
\* exits, stops and kills the bot lists no position whose entry the exchange did
\* not accept, and calls none closed whose exit it did not.
BookFollowsExchange ==
  ~paper => \A id \in Ids :
              /\ positions[id].state \in {"open", "closed", "lost"} => id \in entered
              /\ positions[id].state = "closed" => id \in exited

\* The handler of a position that this process closed is done with it.
Handled(id) == positions[id].state = "closed" /\ positions[id].idle # None /\ cur # id

\* close_position: once its handler is done, a closed position that has its event
\* has been heard of by the scorecard that may retire the strategy, although the
\* row in trades may be missing.
ClosedIsScored == \A id \in Ids : Handled(id) => books[id] # "event"

\* "Feed every closed trade to record" (StrategyScorecard): the scorecard hears of
\* every position that its process closed.  An event that cannot be written ends
\* close_position before it does.
EveryCloseIsScored == \A id \in Ids : Handled(id) => books[id] \in {"scored", "traded"}

\* run and main: a stop signal ends the process, whatever the exchange replies.
StopEnds == [](pc # "down" /\ ~running => <>(pc = "down"))
=============================================================================
