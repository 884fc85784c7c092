---------------------------- MODULE MultiAssetBot ----------------------------
(***************************************************************************)
(* The multi-asset bot: MultiAssetTradingBot of run_multi_asset_bot.py     *)
(* with the MultiAssetStrategy of src/core/multi_asset.py, composed with   *)
(* one market data feed per asset.                                         *)
(*                                                                         *)
(* The main loop checks the exits of every asset and then the signals of   *)
(* every asset; the feeds run whenever it awaits.  Any exception in an     *)
(* iteration ends that iteration.  The mode is paper, or live on the       *)
(* testnet (the release gate refuses the mainnet).  An interrupt reaches   *)
(* stop() only if it finds the loop in its own code, between any two       *)
(* statements of it; otherwise it cancels the task and nothing is closed.  *)
(*                                                                         *)
(* main gives every asset max_positions = 1.  A price is abstracted to     *)
(* what it decides: whether it is there, and whether it reaches TP or SL.  *)
(* A signal of any asset may fail to come, be too weak or be refused by    *)
(* the correlation filter, whose verdicts CorrelationFilter models.        *)
(* The capital only scales sizes here and is left out with them and the    *)
(* allocations, as are the rows of the table positions, which this bot     *)
(* writes and never reads.                                                 *)
(***************************************************************************)
EXTENDS MarketDataFeed, FiniteSets

CONSTANTS
  Ids,
  MaxRestarts,   \* bound
  None

Assets == Feeds

ASSUME AssetNoneAssumption == None \notin Assets \cup Ids
ASSUME AssetsAreFinite == IsFiniteSet(Assets)
ASSUME AssetBoundAssumption == MaxRestarts \in Nat

VARIABLES
  paper,       \* config.PAPER_TRADING
  pc, cur, todo,   \* where the main loop is, its position, the assets to come
  positions,   \* both lists of positions, and the local one of _process_signal
  order,       \* the entry order of a position at the exchange (external)
  trades,      \* rows of the table trades, by position
  cut,         \* positions whose closing the interrupt or the end of the process cut short
  restarts

task == <<pc, cur, todo>>
book == <<positions, trades, cut>>
vars == <<feedVars, paper, task, book, order, restarts>>

Stages ==
  {"down", "exits", "saved", "cancel", "signals", "entry", "sleep",
   "stopping", "stopsaved", "stopcancel"}

Positions ==
  [state : {"none", "placing", "dropped", "open", "closed", "lost"}, asset : Assets \cup {None}]

NoPosition == [state |-> "none", asset |-> None]

TypeOK ==
  /\ FeedTypeOK
  /\ paper \in BOOLEAN
  /\ pc \in Stages /\ cur \in Ids \cup {None} /\ todo \subseteq Assets
  /\ positions \in [Ids -> Positions]
  /\ order \in [Ids -> {"none", "resting", "filled", "cancelled"}]
  /\ trades \in [Ids -> Nat]
  /\ cut \subseteq Ids
  /\ restarts \in Nat

Init ==
  /\ FeedInit
  /\ paper \in BOOLEAN
  /\ pc = "exits" /\ cur = None /\ todo = Assets
  /\ positions = [id \in Ids |-> NoPosition]
  /\ order = [id \in Ids |-> "none"]
  /\ trades = [id \in Ids |-> 0]
  /\ cut = {}
  /\ restarts = 0

OpenIds == {id \in Ids : positions[id].state = "open"}

\* The loop logs an exception, sleeps and starts its next iteration.
Aborted == pc' = "sleep" /\ cur' = None /\ todo' = {}

-----------------------------------------------------------------------------
(* The feeds *)

\* _on_candle_update feeds the indicators and the filter and may raise in doing
\* so: current_candle, which the loop asks for, is set before it is called.
OnCandle(a) ==
  /\ pc # "down"
  /\ Candle(a)
  /\ UNCHANGED <<paper, task, book, order, restarts>>

OnFeed(a) ==
  /\ pc # "down"
  /\ FeedStep(a)
  /\ UNCHANGED <<paper, task, book, order, restarts>>

-----------------------------------------------------------------------------
(* _check_all_position_exits and _close_position *)

\* Mutant of Removed: the position stays listed until its order is cancelled.
RemovedByCancel(id) ==
  [positions EXCEPT ![id].state = IF paper THEN "closed" ELSE "open"]

\* remove_position, and the removal from the bot's own list.
Removed(id) == [positions EXCEPT ![id].state = "closed"]

\* The trade of a position is saved, and the position is still listed.
Listed(id) == pc \in {"saved", "stopsaved"} /\ cur = id

\* The trade is saved before anything else changes.
SaveTrade(a, id, saved) ==
  /\ a \in todo /\ id \in OpenIds /\ positions[id].asset = a
  /\ trades' = [trades EXCEPT ![id] = @ + 1]
  /\ pc' = saved /\ cur' = id /\ todo' = todo \ {a}
  /\ UNCHANGED <<feedVars, paper, positions, cut, order, restarts>>

\* A live position then has its entry order cancelled, if the acknowledgement
\* had an order id: no order closes what it bought.
Remove(cancelling, otherwise) ==
  /\ positions' = Removed(cur)
  /\ \/ ~paper /\ pc' = cancelling /\ UNCHANGED cur
     \/ pc' = otherwise /\ cur' = None
  /\ UNCHANGED <<feedVars, paper, todo, trades, cut, order, restarts>>

\* No price, or none that reaches a TP or SL.
ExitsKeep(a) ==
  /\ pc = "exits" /\ a \in todo
  /\ todo' = todo \ {a}
  /\ UNCHANGED <<feedVars, paper, pc, cur, book, order, restarts>>

ExitsSave(a, id) == pc = "exits" /\ SaveTrade(a, id, "saved")

ExitsRemove == pc = "saved" /\ Remove("cancel", "exits")

\* cancel_order returns whatever happens.
CancelReply(landed) ==
  /\ pc \in {"cancel", "stopcancel"}
  /\ order' = [order EXCEPT ![cur] = IF landed /\ @ = "resting" THEN "cancelled" ELSE @]
  /\ pc' = IF pc = "cancel" THEN "exits" ELSE "stopping"
  /\ cur' = None
  /\ UNCHANGED <<feedVars, paper, todo, book, restarts>>

\* save_trade failed, or a message could not be formatted: see Aborted.
ExitsFail ==
  /\ pc = "exits" /\ OpenIds # {}
  /\ Aborted
  /\ UNCHANGED <<feedVars, paper, book, order, restarts>>

ExitsDone ==
  /\ pc = "exits" /\ todo = {}
  /\ pc' = "signals" /\ todo' = Assets
  /\ UNCHANGED <<feedVars, paper, cur, book, order, restarts>>

-----------------------------------------------------------------------------
(* generate_signal, can_trade_asset and _process_signal *)

\* Mutant of MayTrade: the limit of the asset is not looked at.
MayTradeAgain(a) == TRUE

\* can_trade_asset, as far as it must refuse.
MayTrade(a) == \A id \in OpenIds : positions[id].asset # a

Fresh(id) ==
  /\ positions[id].state = "none"
  /\ id = CHOOSE other \in Ids : positions[other].state = "none"

Entry(a, state) == [state |-> state, asset |-> a]

\* A current candle is all it takes, however old it is.  The list is changed
\* before the rows are written: if that fails the iteration ends, not the entry.
EnterPaper(a, id, written) ==
  /\ pc = "signals" /\ a \in todo /\ paper
  /\ candle[a] /\ MayTrade(a) /\ Fresh(id)
  /\ positions' = [positions EXCEPT ![id] = Entry(a, "open")]
  /\ IF written THEN todo' = todo \ {a} /\ UNCHANGED <<pc, cur>> ELSE Aborted
  /\ UNCHANGED <<feedVars, paper, trades, cut, order, restarts>>

EnterLive(a, id, landed) ==
  /\ pc = "signals" /\ a \in todo /\ ~paper
  /\ candle[a] /\ MayTrade(a) /\ Fresh(id)
  /\ positions' = [positions EXCEPT ![id] = Entry(a, "placing")]
  /\ order' = [order EXCEPT ![id] = IF landed THEN "resting" ELSE "none"]
  /\ pc' = "entry" /\ cur' = id /\ todo' = todo \ {a}
  /\ UNCHANGED <<feedVars, paper, trades, cut, restarts>>

\* place_order: an accepted order may be reported as one of unknown outcome.
EntryReply(ok, written) ==
  /\ pc = "entry" /\ (ok => order[cur] # "none")
  /\ positions' = [positions EXCEPT ![cur].state = IF ok THEN "open" ELSE "dropped"]
  /\ IF ok => written THEN pc' = "signals" /\ cur' = None /\ UNCHANGED todo ELSE Aborted
  /\ UNCHANGED <<feedVars, paper, trades, cut, order, restarts>>

SignalsDone ==
  /\ pc = "signals"
  /\ pc' = "sleep" /\ todo' = {}
  /\ UNCHANGED <<feedVars, paper, cur, book, order, restarts>>

Wake ==
  /\ pc = "sleep"
  /\ pc' = "exits" /\ todo' = Assets
  /\ UNCHANGED <<feedVars, paper, cur, book, order, restarts>>

Fills(id) ==
  /\ order[id] = "resting"
  /\ order' = [order EXCEPT ![id] = "filled"]
  /\ UNCHANGED <<feedVars, paper, task, book, restarts>>

-----------------------------------------------------------------------------
(* stop, and the end of the process *)

\* An interrupt or the end of the process may fall into a closing.
CutShort == cut \cup {id \in Ids : Listed(id)}

Stop ==
  /\ pc \in {"exits", "saved", "signals"} /\ restarts < MaxRestarts
  /\ pc' = "stopping" /\ cur' = None /\ todo' = Assets
  /\ cut' = CutShort
  /\ UNCHANGED <<feedVars, paper, positions, trades, order, restarts>>

StopSave(a, id) == pc = "stopping" /\ SaveTrade(a, id, "stopsaved")

StopRemove == pc = "stopsaved" /\ Remove("stopcancel", "stopping")

Forgotten(p) ==
  CASE p.state = "open" -> [NoPosition EXCEPT !.state = "lost", !.asset = p.asset]
    [] p.state = "placing" -> [p EXCEPT !.state = "dropped"]
    [] OTHER -> p

\* The end of stop, an exception in it, a cancelled task or a kill.  The
\* positions that are still open, or have no price in stop, are forgotten.
Down ==
  /\ pc # "down" /\ restarts < MaxRestarts
  /\ pc' = "down" /\ cur' = None /\ todo' = {}
  /\ positions' = [id \in Ids |-> Forgotten(positions[id])]
  /\ link' = [a \in Assets |-> "dialing"] /\ attempts' = [a \in Assets |-> 0]
  /\ candle' = [a \in Assets |-> FALSE]
  /\ cut' = CutShort
  /\ restarts' = restarts + 1
  /\ UNCHANGED <<paper, trades, order>>

Start ==
  /\ pc = "down"
  /\ pc' = "exits" /\ todo' = Assets
  /\ UNCHANGED <<feedVars, paper, cur, book, order, restarts>>

Next ==
  \/ \E a \in Assets : OnCandle(a) \/ OnFeed(a)
  \/ \E a \in Assets : ExitsKeep(a)
  \/ \E a \in Assets, id \in Ids : ExitsSave(a, id) \/ StopSave(a, id)
  \/ ExitsRemove \/ StopRemove
  \/ \E landed \in BOOLEAN : CancelReply(landed)
  \/ ExitsFail \/ ExitsDone
  \/ \E a \in Assets, id \in Ids, b \in BOOLEAN : EnterPaper(a, id, b) \/ EnterLive(a, id, b)
  \/ \E ok, written \in BOOLEAN : EntryReply(ok, written)
  \/ SignalsDone \/ Wake \/ Stop \/ Down \/ Start
  \/ \E id \in Ids : Fills(id)

Spec == Init /\ [][Next]_vars

-----------------------------------------------------------------------------
(* Properties *)

Book == INSTANCE PositionBook WITH
  Coins <- Assets,
  Limit <- Cardinality(Assets),
  life <- [id \in Ids |-> IF positions[id].state \in {"open", "closed", "lost"}
                          THEN positions[id].state ELSE "unused"],
  market <- [id \in Ids |-> IF positions[id].state \in {"open", "closed", "lost"}
                            THEN positions[id].asset ELSE None]

\* Whatever the feeds, the replies and the shutdown do, the bot keeps the
\* promises of a position book, with one position per asset.
ImplementsBook == Book!Spec

\* _close_position: through failed iterations, cancelled orders and the shutdown
\* a position gets one trade when it is closed and none otherwise.  Only a closing
\* that is cut short between its trade and the removal may leave a trade of a
\* position that is still listed; stop may then close it a second time, no more.
SettledOnce ==
  \A id \in Ids :
    IF id \in cut THEN trades[id] \in {1, 2}
    ELSE trades[id] = IF positions[id].state = "closed" \/ Listed(id) THEN 1 ELSE 0

\* _close_position, "Close on exchange": the account holds nothing of a
\* position that the bot has closed.
ClosedOnExchange ==
  \A id \in Ids : positions[id].state = "closed" => order[id] # "filled"
=============================================================================
