----------------------------- MODULE FundingArb -----------------------------
(***************************************************************************)
(* The funding-rate arbitrage bot: FundingRateArbStrategy of               *)
(* src/strategy/funding_rate_arb.py as run_funding_arb.py runs it.         *)
(*                                                                         *)
(* One task runs a cycle every CHECK_INTERVAL (a tick): it checks the open *)
(* positions, then scans for new ones.  In live mode a handler is          *)
(* suspended while an order is at the exchange, and the reply may say less *)
(* than what happened there.  In paper mode it changes the capital in      *)
(* memory and then writes it to a file, once for the perpetual and once    *)
(* for the spot leg; a write may fail, and failures are only logged.  The  *)
(* process may die between any two of these steps, which forgets the       *)
(* positions and keeps the file as the last write left it.                 *)
(*                                                                         *)
(* Rates, prices and money are small integers: a position is one unit of   *)
(* its coin, Fee the taker fee of one leg, and funding is counted in rate  *)
(* times ticks.                                                            *)
(***************************************************************************)
EXTENDS Integers, FiniteSets

CONSTANTS
  Ids,                        \* position ids
  Coins,                      \* perpetuals the scan returns
  SpotCoins,                  \* SPOT_ELIGIBLE_COINS
  ASSET,                      \* ASSET of the connector's configuration
  Rates, Prices,              \* what a scan may quote
  ENTRY_THRESHOLD, EXIT_THRESHOLD, MAX_CONCURRENT_POSITIONS,
  MAX_HOLD,                   \* MAX_HOLD_HOURS in ticks
  MAX_LOSS,                   \* MAX_LOSS_PCT as a distance between prices
  Period,                     \* 8 hours in ticks
  PAPER_CAPITAL, Fee,
  MaxTicks, MaxRestarts,      \* bounds
  None

ASSUME FundingNoneAssumption == None \notin Coins \cup Ids \cup Int
ASSUME FundingCoinsAssumption == SpotCoins \subseteq Coins /\ ASSET \in Coins
ASSUME FundingMarketAssumption ==
  /\ Rates \subseteq Int /\ Prices \subseteq Nat \ {0}
  /\ ENTRY_THRESHOLD \in Nat \ {0} /\ EXIT_THRESHOLD \in Nat
ASSUME FundingLimitAssumption ==
  /\ MAX_CONCURRENT_POSITIONS \in Nat /\ MAX_HOLD \in Nat /\ MAX_LOSS \in Nat
  /\ Period \in Nat \ {0} /\ PAPER_CAPITAL \in Nat \ {0} /\ Fee \in Nat
  /\ MaxTicks \in Nat /\ MaxRestarts \in Nat

VARIABLES
  paper,           \* config.PAPER_TRADING
  pc,              \* where the task is
  cur,             \* the position it works on
  todo, tried,     \* positions still to check, coins already looked at
  positions,       \* self._positions, and the local one of open_position
  capital, saved,  \* self._paper_capital and the value in the state file, None
                   \* when there is no file or none that can be read
  unsaved,         \* whether the capital was changed and is yet to be written
  missed,          \* whether the file may lack a change: its write failed, or a
                   \* death came before it
  landed,          \* whether the order in flight reached the exchange
  entered,         \* coin that the exchange traded for the entry of a position
  exited,          \* whether it accepted an exit order for a position
  spot,            \* spot bought minus spot sold for a position
  ticks, restarts

task == <<pc, cur, todo, tried>>
money == <<capital, saved, unsaved, missed>>
exchange == <<landed, entered, exited, spot>>
bounds == <<ticks, restarts>>
vars == <<paper, task, positions, money, exchange, bounds>>

Stages == {"down", "sleep", "check", "exit", "exit_hedge", "scan", "entry", "entry_hedge"}

\* A position is placing while open_position holds it in a local variable, and
\* dropped when its order was not acknowledged.
States == {"none", "placing", "dropped", "open", "closed", "lost"}

Positions ==
  [state : States, coin : Coins \cup {None}, side : {"LONG", "SHORT"},
   entry : Nat, close : Nat, hedged : BOOLEAN, age : Nat, since : Nat, funding : Nat]

NoPosition ==
  [state |-> "none", coin |-> None, side |-> "LONG", entry |-> 0, close |-> 0,
   hedged |-> FALSE, age |-> 0, since |-> 0, funding |-> 0]

Quotes == [rate : Rates, px : Prices]

TypeOK ==
  /\ paper \in BOOLEAN
  /\ pc \in Stages /\ cur \in Ids \cup {None}
  /\ todo \subseteq Ids /\ tried \subseteq Coins
  /\ positions \in [Ids -> Positions]
  /\ capital \in Int /\ saved \in Int \cup {None}
  /\ unsaved \in BOOLEAN /\ missed \in BOOLEAN
  /\ landed \in BOOLEAN
  /\ entered \in [Ids -> Coins \cup {None}]
  /\ exited \in [Ids -> BOOLEAN] /\ spot \in [Ids -> Int]
  /\ ticks \in Nat /\ restarts \in Nat

Init ==
  /\ paper \in BOOLEAN
  /\ pc = "scan" /\ cur = None /\ todo = {} /\ tried = {}
  /\ positions = [id \in Ids |-> NoPosition]
  /\ capital = PAPER_CAPITAL /\ saved = None
  /\ unsaved = FALSE /\ missed = FALSE
  /\ landed = FALSE
  /\ entered = [id \in Ids |-> None]
  /\ exited = [id \in Ids |-> FALSE] /\ spot = [id \in Ids |-> 0]
  /\ ticks = 0 /\ restarts = 0

OpenIds == {id \in Ids : positions[id].state = "open"}

Sign(id) == IF positions[id].side = "LONG" THEN 1 ELSE -1

Magnitude(n) == IF n < 0 THEN -n ELSE n

\* What the connector reports of an order: an exception after the write is
\* "unknown" from place_order and "error" from place_spot_order.
PerpReplies == IF landed THEN {"ok", "unknown"} ELSE {"error", "unknown"}
SpotReplies == IF landed THEN {"ok", "error"} ELSE {"error"}

\* Mutant of Acknowledged: only a rejection counts as a failure.
AcknowledgedUnlessRejected(r) == r # "error"

Acknowledged(r) == r = "ok"

Settled == cur' = None /\ landed' = FALSE

-----------------------------------------------------------------------------
(* check_existing_positions *)

\* A coin the scan did not return counts as quoted at rate 0 and at the price
\* the position was opened at.
Seen(id, q) == IF q = None THEN [rate |-> 0, px |-> positions[id].entry] ELSE q

Reverted(id, q) == Sign(id) * q.rate > EXIT_THRESHOLD

\* Mutant of ShouldClose: a position held for too long is left alone.
HeldForEver(id, q) ==
  Reverted(id, q) \/ Sign(id) * (q.px - positions[id].entry) < -MAX_LOSS

ShouldClose(id, q) ==
  \/ Reverted(id, q)
  \/ positions[id].age > MAX_HOLD
  \/ Sign(id) * (q.px - positions[id].entry) < -MAX_LOSS

\* last_funding_time moves only once a whole period has passed.
Accumulated(id, q) ==
  LET p == positions[id]
      pays == -Sign(id) * q.rate
      part == IF p.since < Period THEN p.since ELSE Period
  IN [p EXCEPT !.funding = IF pays > 0 THEN @ + pays * part ELSE @,
               !.since = IF @ >= Period THEN 0 ELSE @]

\* The P&L of the perpetual less its fee.
PerpProceeds(id, px) == Sign(id) * (px - positions[id].entry) - Fee

\* What the spot cost with its P&L, less the fee.
SpotProceeds(id) == positions[id].close - Fee

\* The capital is changed in memory; its write is the next step.
Booked(amount) == capital' = capital + amount /\ unsaved' = TRUE /\ UNCHANGED <<saved, missed>>

\* _save_paper_capital: write_text empties the file and then writes it, an
\* OSError before or after that is logged and forgotten.
Save ==
  /\ unsaved
  /\ unsaved' = FALSE
  /\ \/ saved' = capital /\ missed' = FALSE
     \/ saved' \in {saved, None} /\ missed' = TRUE
  /\ UNCHANGED <<paper, task, positions, capital, exchange, bounds>>

CheckKeep(id, q) ==
  /\ pc = "check" /\ id \in todo
  /\ ~ShouldClose(id, Seen(id, q))
  /\ positions' = [positions EXCEPT ![id] = Accumulated(id, Seen(id, q))]
  /\ todo' = todo \ {id}
  /\ UNCHANGED <<paper, pc, cur, tried, money, exchange, bounds>>

CheckClosePaper(id, q) ==
  /\ pc = "check" /\ id \in todo /\ paper
  /\ ShouldClose(id, Seen(id, q))
  /\ positions' = [positions EXCEPT ![id] =
       [Accumulated(id, Seen(id, q)) EXCEPT !.close = Seen(id, q).px]]
  /\ Booked(PerpProceeds(id, Seen(id, q).px))
  /\ todo' = todo \ {id}
  /\ pc' = "exit" /\ cur' = id
  /\ UNCHANGED <<paper, tried, exchange, bounds>>

\* Mutant of PaperExit: what the spot brings in is not written.
PaperExitUnwritten ==
  /\ pc = "exit" /\ paper /\ ~unsaved
  /\ positions' = [positions EXCEPT ![cur].state = "closed"]
  /\ IF positions[cur].hedged
     THEN /\ pc' = "exit_hedge" /\ capital' = capital + SpotProceeds(cur)
          /\ UNCHANGED <<cur, saved, unsaved, missed>>
     ELSE pc' = "check" /\ cur' = None /\ UNCHANGED money
  /\ UNCHANGED <<paper, todo, tried, exchange, bounds>>

\* The perpetual is settled and written: the position is closed and its spot,
\* if it has one, is sold.
PaperExit ==
  /\ pc = "exit" /\ paper /\ ~unsaved
  /\ positions' = [positions EXCEPT ![cur].state = "closed"]
  /\ IF positions[cur].hedged
     THEN pc' = "exit_hedge" /\ Booked(SpotProceeds(cur)) /\ UNCHANGED cur
     ELSE pc' = "check" /\ cur' = None /\ UNCHANGED money
  /\ UNCHANGED <<paper, todo, tried, exchange, bounds>>

PaperExitHedge ==
  /\ pc = "exit_hedge" /\ paper /\ ~unsaved
  /\ positions' = [positions EXCEPT ![cur].hedged = FALSE]
  /\ pc' = "check" /\ cur' = None
  /\ UNCHANGED <<paper, todo, tried, money, exchange, bounds>>

CheckCloseLive(id, q) ==
  /\ pc = "check" /\ id \in todo /\ ~paper
  /\ ShouldClose(id, Seen(id, q))
  /\ positions' = [positions EXCEPT ![id] = Accumulated(id, Seen(id, q))]
  /\ todo' = todo \ {id}
  /\ pc' = "exit" /\ cur' = id
  /\ landed' \in BOOLEAN
  /\ exited' = [exited EXCEPT ![id] = @ \/ landed']
  /\ UNCHANGED <<paper, tried, money, entered, spot, bounds>>

\* An exit that is not acknowledged leaves the position open for the next cycle.
ExitReply(r) ==
  /\ pc = "exit" /\ ~paper /\ r \in PerpReplies
  /\ IF ~Acknowledged(r)
     THEN /\ pc' = "check" /\ Settled
          /\ UNCHANGED <<positions, spot>>
     ELSE /\ positions' = [positions EXCEPT ![cur].state = "closed"]
          /\ IF positions[cur].hedged
             THEN /\ pc' = "exit_hedge" /\ landed' \in BOOLEAN
                  /\ spot' = [spot EXCEPT ![cur] = IF landed' THEN @ - 1 ELSE @]
                  /\ UNCHANGED cur
             ELSE /\ pc' = "check" /\ Settled
                  /\ UNCHANGED spot
  /\ UNCHANGED <<paper, todo, tried, money, entered, exited, bounds>>

\* Mutant of ExitHedgeReply: a sale that failed reopens the position.
ExitHedgeRetried(r) ==
  /\ pc = "exit_hedge" /\ ~paper /\ r \in SpotReplies
  /\ positions' = [positions EXCEPT ![cur].hedged = r # "ok",
                                   ![cur].state = IF r = "ok" THEN "closed" ELSE "open"]
  /\ pc' = "check" /\ Settled
  /\ UNCHANGED <<paper, todo, tried, money, entered, exited, spot, bounds>>

\* A sale that fails is not tried again: the position is closed already.
ExitHedgeReply(r) ==
  /\ pc = "exit_hedge" /\ ~paper /\ r \in SpotReplies
  /\ positions' = [positions EXCEPT ![cur].hedged = r # "ok"]
  /\ pc' = "check" /\ Settled
  /\ UNCHANGED <<paper, todo, tried, money, entered, exited, spot, bounds>>

CheckDone ==
  /\ pc = "check" /\ todo = {}
  /\ pc' = "scan"
  /\ UNCHANGED <<paper, cur, todo, tried, positions, money, exchange, bounds>>

-----------------------------------------------------------------------------
(* open_position, for each coin whose rate passes the threshold *)

\* Mutant of MayOpen: the limit is reached one position late.
MayOpenOneMore(c) ==
  /\ Cardinality(OpenIds) <= MAX_CONCURRENT_POSITIONS
  /\ \A id \in OpenIds : positions[id].coin # c
  /\ paper => capital > 0

\* Its early returns: the limit, a position in this coin, nothing to invest.
MayOpen(c) ==
  /\ Cardinality(OpenIds) < MAX_CONCURRENT_POSITIONS
  /\ \A id \in OpenIds : positions[id].coin # c
  /\ paper => capital > 0

\* A uuid names a position that never was.
Fresh(id) ==
  /\ positions[id].state = "none"
  /\ id = CHOOSE other \in Ids : positions[other].state = "none"

HedgeWanted(c, side) == c \in SpotCoins /\ side = "SHORT"

Entered(c, side, px) ==
  [state |-> "placing", coin |-> c, side |-> side, entry |-> px, close |-> 0,
   hedged |-> FALSE, age |-> 0, since |-> 0, funding |-> 0]

Attractive(q, side) ==
  IF side = "SHORT" THEN q.rate > ENTRY_THRESHOLD ELSE q.rate < -ENTRY_THRESHOLD

OpenPaper(id, c, side, q) ==
  /\ pc = "scan" /\ paper /\ c \notin tried
  /\ Attractive(q, side) /\ MayOpen(c)
  /\ Fresh(id)
  /\ positions' = [positions EXCEPT ![id] = Entered(c, side, q.px)]
  /\ Booked(-Fee)
  /\ tried' = tried \cup {c}
  /\ pc' = "entry" /\ cur' = id
  /\ UNCHANGED <<paper, todo, exchange, bounds>>

\* The fee of the perpetual is written: the spot is bought, or the position is
\* recorded without one.
PaperEntry ==
  /\ pc = "entry" /\ paper /\ ~unsaved
  /\ IF HedgeWanted(positions[cur].coin, positions[cur].side)
     THEN pc' = "entry_hedge" /\ Booked(-Fee) /\ UNCHANGED <<cur, positions>>
     ELSE /\ pc' = "scan" /\ cur' = None
          /\ positions' = [positions EXCEPT ![cur].state = "open"]
          /\ UNCHANGED money
  /\ UNCHANGED <<paper, todo, tried, exchange, bounds>>

PaperEntryHedge ==
  /\ pc = "entry_hedge" /\ paper /\ ~unsaved
  /\ positions' = [positions EXCEPT ![cur] = [@ EXCEPT !.state = "open", !.hedged = TRUE]]
  /\ pc' = "scan" /\ cur' = None
  /\ UNCHANGED <<paper, todo, tried, money, exchange, bounds>>

\* place_order is called without a coin: the connector takes its own ASSET.
OpenLive(id, c, side, q) ==
  /\ pc = "scan" /\ ~paper /\ c \notin tried
  /\ Attractive(q, side) /\ MayOpen(c)
  /\ Fresh(id)
  /\ positions' = [positions EXCEPT ![id] = Entered(c, side, q.px)]
  /\ tried' = tried \cup {c}
  /\ pc' = "entry" /\ cur' = id
  /\ landed' \in BOOLEAN
  /\ entered' = [entered EXCEPT ![id] = IF landed' THEN ASSET ELSE None]
  /\ UNCHANGED <<paper, todo, money, exited, spot, bounds>>

\* Anything but an acknowledgement drops the position, an order of unknown
\* outcome included.
EntryReply(r) ==
  /\ pc = "entry" /\ ~paper /\ r \in PerpReplies
  /\ LET wanted == HedgeWanted(positions[cur].coin, positions[cur].side)
     IN IF Acknowledged(r) /\ wanted
        THEN /\ pc' = "entry_hedge" /\ landed' \in BOOLEAN
             /\ spot' = [spot EXCEPT ![cur] = IF landed' THEN @ + 1 ELSE @]
             /\ UNCHANGED <<cur, positions>>
        ELSE /\ pc' = "scan" /\ Settled
             /\ positions' = [positions EXCEPT ![cur].state =
                                IF Acknowledged(r) THEN "open" ELSE "dropped"]
             /\ UNCHANGED spot
  /\ UNCHANGED <<paper, todo, tried, money, entered, exited, bounds>>

EntryHedgeReply(r) ==
  /\ pc = "entry_hedge" /\ ~paper /\ r \in SpotReplies
  /\ positions' = [positions EXCEPT ![cur] = [@ EXCEPT !.state = "open", !.hedged = r = "ok"]]
  /\ pc' = "scan" /\ Settled
  /\ UNCHANGED <<paper, todo, tried, money, entered, exited, spot, bounds>>

ScanDone ==
  /\ pc = "scan"
  /\ pc' = "sleep" /\ tried' = {}
  /\ UNCHANGED <<paper, cur, todo, positions, money, exchange, bounds>>

-----------------------------------------------------------------------------
(* run, and the process around it *)

Aged(p) == IF p.state = "open" THEN [p EXCEPT !.age = @ + 1, !.since = @ + 1] ELSE p

Wake ==
  /\ pc = "sleep" /\ ticks < MaxTicks
  /\ ticks' = ticks + 1
  /\ positions' = [id \in Ids |-> Aged(positions[id])]
  /\ todo' = OpenIds
  /\ pc' = "check"
  /\ UNCHANGED <<paper, cur, tried, money, exchange, restarts>>

\* The process is killed, or the shutdown cancels the task at its await: the
\* positions are gone, closed by nobody, and an order in flight is forgotten.
Forgotten(p) ==
  [NoPosition EXCEPT !.coin = p.coin,
                     !.state = CASE p.state = "open" -> "lost"
                                 [] p.state = "placing" -> "dropped"
                                 [] OTHER -> p.state]

\* A death before or in a write leaves the old file or an empty one.
Down ==
  /\ pc # "down" /\ restarts < MaxRestarts
  /\ pc' = "down" /\ Settled /\ todo' = {} /\ tried' = {}
  /\ positions' = [id \in Ids |-> Forgotten(positions[id])]
  /\ IF unsaved THEN saved' \in {saved, None} /\ missed' = TRUE ELSE UNCHANGED <<saved, missed>>
  /\ unsaved' = FALSE
  /\ restarts' = restarts + 1
  /\ UNCHANGED <<paper, capital, entered, exited, spot, ticks>>

\* _load_paper_capital: a file that cannot be read and a capital that is not
\* positive are ignored.
Restored == IF saved # None /\ saved > 0 THEN saved ELSE PAPER_CAPITAL

Start ==
  /\ pc = "down"
  /\ pc' = "scan"
  /\ capital' = IF paper THEN Restored ELSE PAPER_CAPITAL
  /\ missed' = FALSE
  /\ UNCHANGED <<paper, cur, todo, tried, positions, saved, unsaved, exchange, bounds>>

-----------------------------------------------------------------------------
Cycle ==
  \/ \E id \in Ids, q \in Quotes \cup {None} :
       CheckKeep(id, q) \/ CheckClosePaper(id, q) \/ CheckCloseLive(id, q)
  \/ \E r \in {"ok", "error", "unknown"} :
       ExitReply(r) \/ ExitHedgeReply(r) \/ EntryReply(r) \/ EntryHedgeReply(r)
  \/ Save \/ PaperExit \/ PaperExitHedge \/ PaperEntry \/ PaperEntryHedge
  \/ CheckDone
  \/ \E id \in Ids, c \in Coins, side \in {"LONG", "SHORT"}, q \in Quotes :
       OpenPaper(id, c, side, q) \/ OpenLive(id, c, side, q)
  \/ ScanDone
  \/ Wake

Next == Cycle \/ Down \/ Start

Spec == Init /\ [][Next]_vars

FairSpec == Spec /\ WF_vars(Cycle)

-----------------------------------------------------------------------------
(* Properties *)

Book == INSTANCE PositionBook WITH
  Limit <- MAX_CONCURRENT_POSITIONS,
  life <- [id \in Ids |-> IF positions[id].state \in {"open", "closed", "lost"}
                          THEN positions[id].state ELSE "unused"],
  market <- [id \in Ids |-> IF positions[id].state \in {"open", "closed", "lost"}
                            THEN positions[id].coin ELSE None]

\* Through suspended orders, lost replies and restarts, the bot keeps the
\* promises of a position book: open_position's checks of the limit and of the
\* coin still hold when the position is recorded, two awaits later.
ImplementsBook == Book!Spec

\* In live mode the book claims nothing the exchange has not accepted: an open
\* position has an accepted entry, a closed one an accepted exit, whatever the
\* replies to the orders were.
BookFollowsExchange ==
  ~paper => \A id \in Ids :
    /\ positions[id].state = "open" => entered[id] # None
    /\ positions[id].state = "closed" => exited[id]

\* The spot leg of a position is sold at most once, and as long as an open
\* position counts as hedged the account does hold its spot.
SpotFollowsHedge ==
  \A id \in Ids :
    /\ spot[id] \in {0, 1}
    /\ ~paper /\ positions[id].state = "open" /\ positions[id].hedged => spot[id] = 1

\* README.md:34, "paper capital persists across restarts": the restarted bot
\* goes on with the capital the one before it had, whenever that one died, if
\* the last change of the capital got as far as the file.  Every change has to
\* be written for that, the one a spot leg makes as well.  A capital that was
\* lost completely is the exception: the bot starts afresh.
CapitalSurvivesRestart ==
  [][pc = "down" /\ pc' = "scan" /\ paper /\ ~missed => capital' = capital \/ capital <= 0]_vars

\* funding_rate_arb.py:244, "Persist paper capital so restarts do not reset the
\* experiment": a capital that is in the file is only ever replaced by another.
SavedCapitalIsKept == [][saved # None => saved' # None]_vars

\* In paper mode no outage of the quotes keeps a position open beyond
\* MAX_HOLD_HOURS: it is closed, if the process lives long enough.
MaxHoldCloses ==
  \A id \in Ids :
    paper /\ positions[id].state = "open" /\ positions[id].age > MAX_HOLD
      ~> positions[id].state # "open"

\* _accumulate_funding, "We approximate the pro-rata accumulation based on
\* elapsed time since last_funding_time": a position never collects more than
\* the highest rate for the whole time it was held.
FundingIsProRata ==
  \A id \in Ids, top \in Rates :
    (\A rate \in Rates : Magnitude(rate) <= Magnitude(top))
      => positions[id].funding <= Magnitude(top) * positions[id].age
=============================================================================
