---------------------------- MODULE PaperTrading ----------------------------
(***************************************************************************)
(* A TradingBot in paper mode (src/bot/trading_bot.py, PAPER_TRADING =     *)
(* True) with the risk controls both modes share: the daily counters, the  *)
(* circuit breaker, the saved bot state and the settlement of a position   *)
(* without an exchange.                                                    *)
(*                                                                         *)
(* Tasks share one event loop: `turn' is the task running between two      *)
(* awaits, None at an await.  Main is the main loop, one iteration of      *)
(* which goes through the stages "force" .. "persist" in this order;       *)
(* Requests are handlers of the web API.                                   *)
(*                                                                         *)
(* P&L is a unit won or lost.  Time is relative: an end of the breaker is  *)
(* the number of ticks to go, a date is today's or a past one.             *)
(***************************************************************************)
EXTENDS Integers, FiniteSets

CONSTANTS
  Ids,                     \* position_uid values
  Main, Requests,          \* tasks
  MAX_POSITIONS, MAX_DAILY_TRADES, MAX_CONSECUTIVE_LOSSES,
  MAX_DAILY_LOSS,          \* MAX_DAILY_LOSS_PCT of the starting capital
  Cooldown,                \* CIRCUIT_BREAKER_COOLDOWN_MINUTES, in ticks
  Telegram,                \* TRUE when a Telegram client is configured
  MaxCrashes,              \* bound: abrupt process deaths
  None

Tasks == {Main} \cup Requests

ASSUME PaperTasksAssumption == Main \notin Requests
ASSUME PaperNoneAssumption == None \notin Ids \cup Tasks \cup Nat
ASSUME PaperLimitAssumption ==
  /\ MAX_POSITIONS \in Nat /\ MAX_DAILY_TRADES \in Nat /\ MAX_DAILY_LOSS \in Nat
  /\ MAX_CONSECUTIVE_LOSSES \in Nat \ {0} /\ Cooldown \in Nat
  /\ Telegram \in BOOLEAN /\ MaxCrashes \in Nat

VARIABLES
  turn, pc, frame,  \* the tasks, and the position and the list each works on
  positions, state, \* self.positions, and execution_state of the objects
  paused,           \* self._is_paused
  mem,              \* the counters of the process
  rows,             \* table positions: execution_state
  trades, pnl,      \* table trades: rows by position, and the sum of their pnl
  saved,            \* table bot_state: the counters saved, or None
  crashes

control == <<turn, pc, frame>>
book == <<positions, state, rows>>
ledger == <<trades, pnl>>
vars == <<control, book, paused, mem, ledger, saved, crashes>>

Stages == {"down", "connect", "force", "daily", "daily_reset", "cooldown", "exits", "exit_mids",
           "signal", "signal_mids", "persist", "close_price", "close_loop",
           "close_row", "count", "finish", "exit_process", "idle"}

States == {"none", "open", "closed_confirmed"}

Deadlines == 0 .. Cooldown \cup {None}

\* capital: current_capital beyond the starting one; until: ticks to
\* circuit_breaker_until; day: of last_trade_date; typed: last_trade_date is a
\* date (_restore_state makes it a datetime, which equals no date).
Counters ==
  [capital : Int, daily : Nat, daily_pnl : Int, losses : Nat, tripped : BOOLEAN,
   until : Deadlines, day : {"none", "today", "past"}, typed : BOOLEAN]

\* No saved state is None.
ASSUME PaperSavedAssumption == None \notin Counters

FreshCounters ==
  [capital |-> 0, daily |-> 0, daily_pnl |-> 0, losses |-> 0, tripped |-> FALSE,
   until |-> None, day |-> "none", typed |-> FALSE]

Frames ==
  [at : Ids \cup {None}, won : {-1, 1}, todo : SUBSET Ids,
   then : {"idle", "daily", "signal", "exit_process"}]
NoFrame == [at |-> None, won |-> 1, todo |-> {}, then |-> "idle"]

TypeOK ==
  /\ turn \in Tasks \cup {None}
  /\ pc \in [Tasks -> Stages] /\ frame \in [Tasks -> Frames]
  /\ positions \subseteq Ids
  /\ state \in [Ids -> States] /\ rows \in [Ids -> States]
  /\ paused \in BOOLEAN
  /\ mem \in Counters /\ saved \in Counters \cup {None}
  /\ trades \in [Ids -> Nat] /\ pnl \in Int
  /\ crashes \in Nat

Init ==
  /\ turn = None
  /\ pc = [t \in Tasks |-> IF t = Main THEN "down" ELSE "idle"]
  /\ frame = [t \in Tasks |-> NoFrame]
  /\ positions = {}
  /\ state = [p \in Ids |-> "none"]
  /\ paused = FALSE
  /\ mem = FreshCounters
  /\ rows = [p \in Ids |-> "none"]
  /\ trades = [p \in Ids |-> 0]
  /\ pnl = 0
  /\ saved = None
  /\ crashes = 0

-----------------------------------------------------------------------------
(* Control.                                                                *)

At(t, stage) == pc[t] = stage /\ turn \in {None, t}
Go(t, stage) == pc' = [pc EXCEPT ![t] = stage] /\ turn' = t
Await(t, stage) == pc' = [pc EXCEPT ![t] = stage] /\ turn' = None
\* An await that only a configured Telegram client makes.
Notify(t, stage) == IF Telegram THEN Await(t, stage) ELSE Go(t, stage)
Local(t, f) == frame' = [frame EXCEPT ![t] = f]
Return(t) ==
  /\ IF frame[t].then = "idle" THEN Await(t, "idle") ELSE Go(t, frame[t].then)
  /\ Local(t, NoFrame)

Open == {p \in positions : state[p] = "open"}
Fresh == {p \in Ids : rows[p] = "none"}

-----------------------------------------------------------------------------
(* Process life.                                                           *)

\* What _restore_state makes of the saved counters on a new or the same day.
Restored(c) ==
  IF c = None THEN FreshCounters
  ELSE [c EXCEPT !.daily = IF c.day = "past" THEN 0 ELSE @,
                 !.daily_pnl = IF c.day = "past" THEN 0 ELSE @]

\* start, _restore_state: positions come back only beside a saved bot state.
Start ==
  LET restored == {p \in Ids : saved # None /\ rows[p] = "open"}
  IN /\ pc[Main] = "down"
     /\ positions' = restored
     /\ state' = [p \in Ids |-> IF p \in restored THEN "open" ELSE "none"]
     /\ mem' = Restored(saved)
     /\ Await(Main, "connect")
     /\ UNCHANGED <<frame, rows, paused, ledger, saved, crashes>>

\* What save_bot_state keeps: a date is a string there.
Snapshot(c) == [c EXCEPT !.typed = FALSE]

\* _shutdown: the state is saved, then the positions are closed.
Shutdown ==
  /\ saved' = Snapshot(mem)
  /\ Await(Main, "close_price")
  /\ Local(Main, [NoFrame EXCEPT !.then = "exit_process"])

Connect ==
  /\ At(Main, "connect")
  /\ \/ Await(Main, "force") /\ UNCHANGED <<frame, saved>>
     \/ Shutdown
  /\ UNCHANGED <<book, paused, mem, ledger, crashes>>

GoDown ==
  /\ turn' = None
  /\ pc' = [t \in Tasks |-> IF t = Main THEN "down" ELSE "idle"]
  /\ frame' = [t \in Tasks |-> NoFrame]
  /\ positions' = {}
  /\ state' = [p \in Ids |-> "none"]
  /\ paused' = FALSE
  /\ mem' = FreshCounters

ExitProcess ==
  /\ At(Main, "exit_process")
  /\ GoDown
  /\ UNCHANGED <<rows, ledger, saved, crashes>>

Crash ==
  /\ pc[Main] # "down"
  /\ crashes < MaxCrashes
  /\ crashes' = crashes + 1
  /\ GoDown
  /\ UNCHANGED <<rows, ledger, saved>>

-----------------------------------------------------------------------------
(* One iteration of the main loop.                                         *)

\* emergency_stop ends the loop; a force close request closes first.
LoopForceClose ==
  /\ At(Main, "force")
  /\ \/ Shutdown
     \/ /\ Await(Main, "close_price")
        /\ Local(Main, [NoFrame EXCEPT !.then = "daily"])
        /\ UNCHANGED saved
     \/ Go(Main, "daily") /\ UNCHANGED <<frame, saved>>
  /\ UNCHANGED <<book, paused, mem, ledger, crashes>>

\* _check_daily_reset: the date moves first; the summary of a day with trades
\* is sent before the counters are reset.
CheckDailyReset ==
  /\ At(Main, "daily")
  /\ IF mem.typed /\ mem.day = "today"
     THEN Go(Main, "cooldown") /\ UNCHANGED mem
     ELSE /\ mem' = [mem EXCEPT !.day = "today", !.typed = TRUE]
          /\ IF mem.daily > 0 THEN Notify(Main, "daily_reset") ELSE Go(Main, "daily_reset")
  /\ UNCHANGED <<frame, book, paused, ledger, saved, crashes>>

\* What a daily reset leaves.
Cleared(c) == [c EXCEPT !.daily = 0, !.daily_pnl = 0, !.losses = 0]

ResetDaily ==
  /\ At(Main, "daily_reset")
  /\ mem' = Cleared(mem)
  /\ Go(Main, "cooldown")
  /\ UNCHANGED <<frame, book, paused, ledger, saved, crashes>>

\* What lifting the breaker leaves, here and in reset_circuit_breaker.
Lifted(c) == [c EXCEPT !.tripped = FALSE, !.until = None, !.losses = 0]

CheckCooldown ==
  /\ At(Main, "cooldown")
  /\ IF mem.tripped /\ mem.until = 0
     THEN mem' = Lifted(mem) /\ Notify(Main, "exits")
     ELSE UNCHANGED mem /\ Go(Main, "exits")
  /\ UNCHANGED <<frame, book, paused, ledger, saved, crashes>>

\* _check_position_exits: with positions, it gets a price...
GetExitPrice ==
  /\ At(Main, "exits")
  /\ IF positions = {} THEN Go(Main, "signal") ELSE Await(Main, "exit_mids")
  /\ UNCHANGED <<frame, book, paused, mem, ledger, saved, crashes>>

\* ... which crosses TP or SL of some of the open positions, or of none.
CheckPositionExits ==
  /\ At(Main, "exit_mids")
  /\ \/ Go(Main, "signal") /\ UNCHANGED frame
     \/ \E crossed \in (SUBSET Open) \ {{}} :
          /\ Go(Main, "close_loop")
          /\ Local(Main, [NoFrame EXCEPT !.todo = crossed, !.then = "signal"])
  /\ UNCHANGED <<book, paused, mem, ledger, saved, crashes>>

\* RiskManager.can_open_position.
CanOpen ==
  /\ ~mem.tripped
  /\ Cardinality(positions) < MAX_POSITIONS
  /\ mem.daily < MAX_DAILY_TRADES
  /\ mem.daily_pnl >= -MAX_DAILY_LOSS

\* Mutant of ProcessSignal: only the breaker is asked.
SignalUnlimited ==
  /\ At(Main, "signal")
  /\ \/ ~paused /\ ~mem.tripped /\ Await(Main, "signal_mids")
     \/ Go(Main, "persist")
  /\ UNCHANGED <<frame, book, paused, mem, ledger, saved, crashes>>

\* _process_signal up to its await, or no signal.
ProcessSignal ==
  /\ At(Main, "signal")
  /\ \/ ~paused /\ CanOpen /\ Await(Main, "signal_mids")
     \/ Go(Main, "persist")
  /\ UNCHANGED <<frame, book, paused, mem, ledger, saved, crashes>>

\* The survival check blocks the signal, or _place_entry_order fills it at once.
SignalEntry ==
  /\ At(Main, "signal_mids")
  /\ \/ Go(Main, "persist") /\ UNCHANGED book
     \/ LET p == CHOOSE id \in Fresh : TRUE
        IN
          /\ Fresh # {}
          /\ positions' = positions \cup {p}
          /\ state' = [state EXCEPT ![p] = "open"]
          /\ rows' = [rows EXCEPT ![p] = "open"]
          /\ Notify(Main, "persist")
  /\ UNCHANGED <<frame, paused, mem, ledger, saved, crashes>>

\* _persist_state when five minutes are over, and the sleep of the loop.
PersistState ==
  /\ At(Main, "persist")
  /\ saved' \in {saved, Snapshot(mem)}
  /\ Await(Main, "force")
  /\ UNCHANGED <<frame, book, paused, mem, ledger, crashes>>

-----------------------------------------------------------------------------
(* Closing: force_close_all_positions, _close_position,                    *)
(* _finalize_closed_position.                                              *)

\* Without a price nothing is closed.
ForceCloseAll(t) ==
  /\ At(t, "close_price")
  /\ \/ Return(t)
     \/ Go(t, "close_loop") /\ Local(t, [frame[t] EXCEPT !.todo = Open])
  /\ UNCHANGED <<book, paused, mem, ledger, saved, crashes>>

\* _close_position asks only for an exit under way, and in paper mode there is
\* none: the trade is saved whatever became of the position meanwhile.
SaveTrade(t) ==
  /\ At(t, "close_loop")
  /\ \E p \in frame[t].todo, won \in {-1, 1} :
       /\ trades' = [trades EXCEPT ![p] = @ + 1]
       /\ pnl' = pnl + won
       /\ Go(t, "close_row")
       /\ Local(t, [frame[t] EXCEPT !.at = p, !.won = won, !.todo = @ \ {p}])
  /\ UNCHANGED <<book, paused, mem, saved, crashes>>

\* Mutant of CloseRow: the row is left to the next save of the position.
RowLeftOpen(t) ==
  /\ At(t, "close_row")
  /\ Go(t, "count")
  /\ UNCHANGED <<frame, book, paused, mem, ledger, saved, crashes>>

CloseRow(t) ==
  /\ At(t, "close_row")
  /\ rows' = [rows EXCEPT ![frame[t].at] = "closed_confirmed"]
  /\ Go(t, "count")
  /\ UNCHANGED <<frame, positions, state, paused, mem, ledger, saved, crashes>>

\* The counters after a settlement, before the breaker is looked at.
Counted(c, won) ==
  [c EXCEPT !.capital = @ + won, !.daily = @ + 1, !.daily_pnl = @ + won,
            !.losses = IF won < 0 THEN @ + 1 ELSE 0]

\* Mutant of Tripped: the breaker waits for one loss more.
TrippedLate(c) ==
  IF c.losses > MAX_CONSECUTIVE_LOSSES
  THEN [c EXCEPT !.tripped = TRUE, !.until = Cooldown] ELSE c

\* Mutant of Tripped: a breaker without an end.
TrippedForGood(c) ==
  IF c.losses >= MAX_CONSECUTIVE_LOSSES THEN [c EXCEPT !.tripped = TRUE] ELSE c

\* _trigger_circuit_breaker.
Tripped(c) ==
  IF c.losses >= MAX_CONSECUTIVE_LOSSES
  THEN [c EXCEPT !.tripped = TRUE, !.until = Cooldown] ELSE c

\* The breaker's notification is awaited with the position still listed.
Count(t) ==
  LET c == Counted(mem, frame[t].won)
  IN /\ At(t, "count")
     /\ mem' = Tripped(c)
     /\ IF c.losses >= MAX_CONSECUTIVE_LOSSES THEN Notify(t, "finish") ELSE Go(t, "finish")
     /\ UNCHANGED <<frame, book, paused, ledger, saved, crashes>>

\* Mutant of FinishClose: the position stays listed.
FinishListed(t) ==
  /\ At(t, "finish")
  /\ state' = [state EXCEPT ![frame[t].at] = "closed_confirmed"]
  /\ Notify(t, "close_loop")
  /\ Local(t, [frame[t] EXCEPT !.at = None, !.won = 1])
  /\ UNCHANGED <<positions, rows, paused, mem, ledger, saved, crashes>>

FinishClose(t) ==
  /\ At(t, "finish")
  /\ state' = [state EXCEPT ![frame[t].at] = "closed_confirmed"]
  /\ positions' = positions \ {frame[t].at}
  /\ Notify(t, "close_loop")
  /\ Local(t, [frame[t] EXCEPT !.at = None, !.won = 1])
  /\ UNCHANGED <<rows, paused, mem, ledger, saved, crashes>>

CloseLoopEnds(t) ==
  /\ At(t, "close_loop")
  /\ frame[t].todo = {}
  /\ Return(t)
  /\ UNCHANGED <<book, paused, mem, ledger, saved, crashes>>

-----------------------------------------------------------------------------
(* The feed, the API and the clock.                                        *)

\* _update_unrealized_pnl saves every open position at a candle.
UpdateUnrealizedPnl ==
  /\ turn = None
  /\ Open # {}
  /\ rows' = [p \in Ids |-> IF p \in Open THEN "open" ELSE rows[p]]
  /\ UNCHANGED <<control, positions, state, paused, mem, ledger, saved, crashes>>

CloseAllRequest(t) ==
  /\ pc[Main] # "down"
  /\ At(t, "idle")
  /\ Await(t, "close_price")
  /\ Local(t, [NoFrame EXCEPT !.then = "idle"])
  /\ UNCHANGED <<book, paused, mem, ledger, saved, crashes>>

PauseRequest ==
  /\ pc[Main] # "down" /\ turn = None
  /\ paused' = ~paused
  /\ UNCHANGED <<control, book, mem, ledger, saved, crashes>>

\* reset_circuit_breaker: the API, SIGUSR2 or the file .reset_circuit_breaker.
ResetCircuitBreaker ==
  /\ pc[Main] # "down" /\ turn = None
  /\ mem.tripped
  /\ mem' = Lifted(mem)
  /\ UNCHANGED <<control, book, paused, ledger, saved, crashes>>

\* A deadline and a date, a tick and a midnight later.
Sooner(c) == [c EXCEPT !.until = IF @ \in {None, 0} THEN @ ELSE @ - 1]
Yesterday(c) == [c EXCEPT !.day = IF @ = "today" THEN "past" ELSE @]

Tick ==
  /\ mem' = Sooner(mem)
  /\ saved' = IF saved = None THEN None ELSE Sooner(saved)
  /\ UNCHANGED <<control, book, paused, ledger, crashes>>

Midnight ==
  /\ mem' = Yesterday(mem)
  /\ saved' = IF saved = None THEN None ELSE Yesterday(saved)
  /\ UNCHANGED <<control, book, paused, ledger, crashes>>

-----------------------------------------------------------------------------

MainLoop ==
  \/ Connect \/ LoopForceClose \/ CheckDailyReset \/ ResetDaily \/ CheckCooldown
  \/ GetExitPrice \/ CheckPositionExits \/ ProcessSignal \/ SignalEntry
  \/ PersistState \/ ExitProcess

Closing(t) ==
  \/ ForceCloseAll(t) \/ SaveTrade(t) \/ CloseRow(t) \/ Count(t) \/ FinishClose(t)
  \/ CloseLoopEnds(t)

Next ==
  \/ Start \/ Crash \/ MainLoop \/ UpdateUnrealizedPnl
  \/ PauseRequest \/ ResetCircuitBreaker \/ Tick \/ Midnight
  \/ \E t \in Tasks : Closing(t)
  \/ \E t \in Requests : CloseAllRequest(t)

Spec == Init /\ [][Next]_vars

\* The event loop runs its ready tasks in turn (hence the strong fairness: a
\* task at an await is ready again and again), and time passes.  Nothing
\* restarts a bot that is down.
Fairness ==
  /\ SF_vars(MainLoop \/ Closing(Main))
  /\ \A t \in Requests : WF_vars(Closing(t))
  /\ WF_vars(Tick)

LiveSpec == Spec /\ Fairness

-----------------------------------------------------------------------------
(* Properties.                                                             *)

OpenRows == {p \in Ids : rows[p] = "open"}

\* A paper position is settled once, and it is closed when it is settled:
\* test_paper_exit_finalizes_once (tests/unit/test_execution_lifecycle.py:132).
\* Only a death between the trade and the row may settle it again.
SettledOnce ==
  \A p \in Ids :
    /\ rows[p] = "closed_confirmed" => trades[p] >= 1
    /\ crashes = 0 => trades[p] <= 1

\* At an await the store has as open what the bot manages, so that a restart
\* neither forgets a position nor revives one.  Only after a death may it have
\* more: a bot without a saved state restores no position (_restore_state).
OpenRowsAreListed ==
  turn = None /\ pc[Main] # "down" =>
    positions \subseteq OpenRows /\ (crashes = 0 => OpenRows = positions)

\* MAX_POSITIONS holds, shutdowns, restored positions and late closings
\* included, until a death makes the bot forget rows it restores later.
PositionLimit == crashes = 0 => Cardinality(positions) <= MAX_POSITIONS

\* The breaker and the losses it counts do not come apart: in the process and
\* in the saved state, so many losses in a row mean a breaker that is set, and
\* one that is set has an end to wait for (_check_circuit_breaker_cooldown:921).
Sound(c) ==
  /\ c.losses >= MAX_CONSECUTIVE_LOSSES => c.tripped
  /\ c.tripped => c.until # None
BreakerIsSound == Sound(mem) /\ (saved # None => Sound(saved))

\* While the bot stays up, a set breaker is lifted.
BreakerIsLifted ==
  <>[](pc[Main] # "down") => (mem.tripped ~> ~mem.tripped)

\* "State persistence (graceful shutdown / restart recovery)"
\* (trading_bot.py:1219): a bot that was shut down starts with its capital.
RestartKeepsCapital == pc[Main] = "connect" => mem.capital = pnl

\* "Reset daily counters at midnight" (_check_daily_reset, 877): the trades of
\* a day are not forgotten on that day.
ResetAtMidnight ==
  [][CheckDailyReset /\ pc'[Main] # "cooldown" => ~(mem.day = "today" /\ mem.daily > 0)]_vars
=============================================================================
