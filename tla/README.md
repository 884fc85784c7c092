# hype1: a verification project

TLA+ models of the `hype1` trading bots (`src/`), the TLC runs that check them, and proofs that
TLAPS checks. In sections 1 and 2, line numbers without a file name are those of
`src/src/bot/trading_bot.py`, unless the text is about another file.

## 1. The system

`hype1` is a family of bots. Each is one Python process with a single asyncio event loop, talks to
the Hyperliquid exchange over HTTP and a web socket, and keeps what must outlive it in a SQLite file
or a JSON file.

| Component | State | Operations | Modelled in |
|---|---|---|---|
| `TradingBot` (`src/bot/trading_bot.py`) | `self.positions` (list of `Position` objects), `_is_paused`, daily counters, circuit breaker, capital | start / restore, main loop, signal and entry, exit check, reconciliation, closing and confirmation, accounting, force close, shutdown | `ExecutionLifecycle` (live), `PaperTrading` (paper, counters) |
| `DatabaseManager` (`src/storage/database.py`) | tables `positions`, `execution_fills`, `trades`, `bot_state`, `daily_summary`, `events`; one commit per statement | save / close a position, record a fill once, save a trade, save and load the bot state | inside the two above |
| `HyperliquidAPI` (`src/exchange/connector.py`) with `retry.py` | last error, asset index cache | order submission (never retried, outcome accepted / rejected / unknown), reads (retried, then unavailable or empty), cancels | `ExchangeConnector` |
| Market data (`src/exchange/market_data.py`) | socket, attempts, current candle, callbacks | connect, subscribe, listen, reconnect, deliver candles | `MarketDataFeed` |
| Control API (`bot_api_server.py`) | web socket clients | pause, resume, close all, reset breaker, change a parameter, manual trade: each a coroutine in the bot's own loop | requests of `ExecutionLifecycle`, `PaperTrading` |
| Survival risk manager (`core/survival_risk.py`) | peak and current equity, trigger and cooldown, tier, heat per setup | admission of an entry, update after a trade, midnight | `SurvivalRisk` |
| Funding bot (`strategy/funding_rate_arb.py`) | positions with a spot hedge, funding, paper capital and its file | check, close, scan, open; perpetual and spot leg | `FundingArb` |
| Trend bot (`strategy/trend_following.py`) | positions with a trailing stop, cooldown per coin, scorecard | check, close, scan, size, open | `TrendFollowing` |
| Cross-exchange bot (`strategy/cross_exchange_arb.py`) | pairs of opposite legs, paper capital | quote two venues, check, close, open | `CrossExchangeArb` |
| Multi-asset bot (`run_multi_asset_bot.py`, `core/multi_asset.py`) | positions per asset, price histories, feeds | exits, signals, correlation filter, entry, stop | `MultiAssetBot`, `CorrelationFilter` |
| Smoke check (`execution/smoke.py`, `scripts/testnet_smoke.py`) | report of its steps | rest and cancel an order, take a unit, flatten | `SmokeCheck` |
| Signals, analytics, backfill, walk-forward, Telegram, dashboards, farming script | summaries | output and numeric inputs | not modelled, section 6 |

### How the parts interact

*Live and paper bot.* The main loop (249-303) calls, in each iteration and in this order: force
close, daily reset, breaker cooldown, reconciliation, exit check, signal, persist; then it sleeps a
second. Between two awaits nothing else runs. At an await the other coroutines of the process run:
the candle callback, which recomputes P&L and **saves** every open position (957-985), and the
API's handlers, which close positions and place trades on the same list of the same objects. The
exchange moves at any time. The process may die at any point; then only SQLite and the exchange
remain. The survival risk manager is asked before an entry and told of each settlement.

*Strategy bots.* One task runs a cycle (check the open positions, scan, open) and sleeps. It is
suspended only while it fetches quotes or waits for an order. The funding and trend bots place
orders through the connector, whose reply may say less than what happened at the exchange. Their
positions live in memory only; a restart forgets them.

*Multi-asset bot.* One feed task per asset calls back into the bot with every candle, which grows
the history the correlation filter needs, while the main loop awaits.

A live position of `TradingBot` goes through these values of `execution_state`:

    pending_entry -> open -> exit_requested -> closed_confirmed
         |            ^  \         |
         |            |   \        +-> partially_closed, state_unknown, open (rejected)
         |            |    +-> externally_closed (a flat snapshot, no exit of ours)
         |            +-- any state, when a snapshot shows exposure (589)
         +-> entry_rejected, state_unknown
    recovered_unmanaged: exposure found at the exchange without a local position

### What makes it correct, and what is hard about it

* *Execution lifecycle*: a fill is settled once and by the position it belongs to; an outage is
  never a flat account; a closed position stays closed; the bot manages only exposure that exists;
  what it would restore after a crash is what it knows. Hard: three kinds of task on one list, two
  reads (snapshot, fills) that are not one, four writes that are not one transaction, calls whose
  outcome is unknown, partial fills, restarts.
* *Store*: `execution_fills` accepts a fill once; rows of terminal positions are not restored.
* *Risk controls*: limits hold over a day whatever restarts happen in it; a breaker ends. Hard:
  counters saved at shutdown before the last settlements, restored, then reset; an equity that
  counts a trade twice; a cooldown that is looked at only when a trade settles.
* *Connector*: a write reaches the exchange at most once although every call around it is retried.
* *Feed*: it reconnects until its tries in a row are used up.
* *Strategy bots*: a position is opened once and closed once, within the limits that were checked
  some awaits earlier; the book claims nothing the exchange did not accept; a paper capital that
  was written survives a restart; a stop never loosens; a stop signal ends the bot.
* *Smoke check*: a check that passed has left no order behind.

`PROJECT.json` lists the hazards with their lines, and the properties aimed at each.

## 2. Modules

| Module | Content |
|---|---|
| `ExecutionLifecycle` | the live bot, its store and the exchange: state, actions, properties, fairness |
| `PaperTrading` | a paper bot and what both modes share: the daily counters, the circuit breaker, the saved bot state |
| `ExitSettlement` | abstract: what the live bot promises about the money of its exits; implemented by `ExecutionLifecycle` |
| `PositionBook` | abstract: what every strategy promises about its positions |
| `FundingArb`, `TrendFollowing`, `CrossExchangeArb` | the three strategy bots, each shown to implement `PositionBook` |
| `MarketDataFeed` | the feeds, without their user |
| `MultiAssetBot` | EXTENDS `MarketDataFeed`: the bot composed with one feed per asset; implements `PositionBook` |
| `CorrelationFilter` | the price histories of that bot and what it computes from them; a module of its own, since the bot only needs that the filter may refuse any signal |
| `SurvivalRisk` | the survival risk manager with the bot around it |
| `ExchangeConnector` | calls, retries and the exchange, without a client |
| `SmokeCheck` | EXTENDS `ExchangeConnector`: the check composed with the connector and the exchange |
| `MC...` | the values that TLC's configurations need beside a module: rates, moves, symmetry sets, a start in a bot that already trades |
| `..._proofs` | theorems and proofs about a module |

Operators that a comment calls a mutant of another one are plausible wrong versions of it; no action
uses them. Substituted for the right one they make a property fail: `PROJECT.json` lists which.

### ExecutionLifecycle

The model is of a live bot (`PAPER_TRADING = False`), one asset, one direction.

| Variable | In the code |
|---|---|
| `turn` | the coroutine that runs between two awaits; `None` when all are at an await |
| `pc`, `frame` | where each coroutine is, and its local variables (position in hand, list copy, snapshot, where to return to) |
| `positions`, `obj` | `self.positions` and the `Position` objects. An object outlives its place in the list as long as a coroutine holds it |
| `paused` | `self._is_paused` |
| `rows`, `ledger`, `trades`, `saved` | tables `positions`, `execution_fills`, `trades`, and whether `bot_state` has its row |
| `booked` | history: how many settlements used an exit order's fill |
| `exposure`, `entryOrder`, `exitOrder` | the exchange |
| `crashes`, `external` | bounds |

**Steps.** An action is the code from one await to the next, or a part of it that ends where a
crash can be told apart (SQLite commits after each statement, so `RecordFill`, `SaveTrade`,
`CloseRow` and `FinishClose` are four steps of one uninterrupted run of code: `turn` keeps other
coroutines out, `Crash` and the exchange may come in between). `Await` ends a run of code, `Go`
continues it, `MayAwait` is an await that only a configured Telegram client makes.

| Code | Actions |
|---|---|
| `start`, `_restore_state` (180-247, 1254-1343) | `Start`, `Connect`, `ReconcileAgain`, `EnterLoop` |
| `_main_loop` (249-303) | `LoopForceClose`, `MaybeReconcile`, `CheckPositionExits`, `ProcessSignal`, `PersistState` |
| `_process_signal`, `_place_entry_order` (318-446) | `ProcessSignal`, `SignalEntry`, `EntryAccepted`, `EntryRejected`, `EntryUnknown` |
| `force_close_all_positions`, `_close_position` (628-683, 989-1031) | `ForceCloseAll`, `SkipPendingExit`, `RequestExit`, `ExitAccepted`, `ExitRejected`, `ExitUnknown`, `CloseLoopEnds` |
| `_confirm_live_exit` (685-796) | `ConfirmRead`, `DuplicateFill`, `RecordFill`, `NoMatchingFill`, `PartialExit`, `FullExit` |
| `_finalize_closed_position` (798-872) | `SaveTrade`, `CloseRow`, `FinishClose` |
| `_reconcile_positions` (517-626) | `ReadSnapshot`, `ReconcileUnavailable`, `ReconcileBegin`, `ReconcileMatched`, `KeepPendingEntry`, `ResolveExit`, `ExternallyClosed`, `RecoverUnmanaged`, `ReconcileEnds` |
| `_shutdown` (1191-1216) | `Shutdown`, then closing, `CancelAllOrders`, `ExitProcess` |
| API handlers | `CloseAllRequest`, `ManualTradeRequest`, `PauseRequest` |
| `_on_candle_update` | `UpdateUnrealizedPnl` |
| the exchange (external) | `EntryArrives`, `EntryFills`, `ExitExecutes`, `ExternalTrade` |

**What is abstracted.**

* One asset and one direction: reconciliation matches local positions by direction, so several
  positions of a direction each get its whole quantity, as in the model. The two directions do
  not share state except the pause and the list's length.
* `quantity`, `confirmed_quantity` and `remaining_quantity` are one number: every reader takes
  `remaining_quantity or quantity`.
* Prices, P&L and fees are left out; whether TP or SL is crossed is any subset of the open
  positions, except that a position with `tp_price = sl_price = 0` is always crossed (for either
  side, one of the two comparisons with 0 holds).
* An exit order has one fill, which `get_recent_fills` shows as soon as it executed, or not at all
  (`NoMatchingFill` also covers a failed read, which returns the empty list, 523-534 of
  `connector.py`). Several fills of one order are recorded in one run of code without an await.
* The handlers of an iteration run in any order in the model, and any of them may find nothing to
  do; the loop's own order is one of those, and over several iterations all occur.
* Where the code may use a cached price (less than 30 s old) instead of an await, the model always
  awaits: that only adds interleavings.
* Failures of SQLite itself (`_persist_state` and `_restore_state` catch them) are left out. A
  death at any point is there.
* A launcher that calls `stop()` after an exception (`run_modular_bot.py`) shuts down once more;
  the model lets the process end, as `run_mainnet_bot.py` and `run_testnet_bot.py` do.
* `place_manual_trade` is a public method of the bot. The HTTP route that should call it reads
  `self.bot.Side`, which `TradingBot` does not have (`bot_api_server.py:366`), so every request
  ends in a 500 before it gets there. The model has the method, not the route.

### ExitSettlement

What is left of the lifecycle of an exit without tasks, calls, tables and deaths: three variables and
three actions. An exit order is sent for one position (`Send`); it is refused or finds nothing to
reduce, or fills, and a fill is recorded (`Move`); a recorded fill is booked to the position the
order was sent for (`Book`). No other step exists, so nothing is booked unrecorded, twice or for another
position, and nothing is taken back. That a recorded fill is *booked at last* is not promised: the
bot may die in between, or take the fill for a part of the exit (section 5). The mapping
(`Progress`) reads the stage of an order from the exchange, `execution_fills` and the bookings; what
it has to bridge is that the fill is read from the exchange at one await, for the order id that an
object carries at that moment, and that several handlers and several processes may do so.

### PaperTrading

The model is of a paper bot (`PAPER_TRADING = True`) and of the risk controls, which the live bot
has too. The two modules stand beside each other: `ExecutionLifecycle` follows one fill and leaves
money out, `PaperTrading` follows the money and needs no exchange.

| Variable | In the code |
|---|---|
| `turn`, `pc`, `frame` | as in `ExecutionLifecycle`; `pc[Main]` walks through the main loop in its own order |
| `positions`, `state` | `self.positions`, `execution_state` of the objects |
| `mem` | `current_capital`, `daily_trades`, `daily_pnl`, `consecutive_losses`, `circuit_breaker_triggered`, `circuit_breaker_until`, `last_trade_date` |
| `saved` | the row of `bot_state`: the same counters |
| `rows`, `trades`, `pnl` | tables `positions` and `trades` |
| `paused`, `crashes` | `_is_paused`; bound |

| Code | Actions |
|---|---|
| `start`, `_restore_state`, `_shutdown` | `Start` (`Restored`), `Connect`, `Shutdown` (`Snapshot`), `ExitProcess` |
| `_main_loop` (254-299) | `LoopForceClose`, `CheckDailyReset`, `ResetDaily`, `CheckCooldown`, `GetExitPrice`, `CheckPositionExits`, `ProcessSignal`, `SignalEntry`, `PersistState` |
| `force_close_all_positions`, `_close_position`, `_finalize_closed_position`, `_trigger_circuit_breaker` | `ForceCloseAll`, `SaveTrade`, `CloseRow`, `Count` (`Counted`, `Tripped`), `FinishClose`, `CloseLoopEnds` |
| API, SIGUSR1, SIGUSR2 and the two marker files | `CloseAllRequest`, `PauseRequest`, `ResetCircuitBreaker`; `LoopForceClose` |
| `_on_candle_update` | `UpdateUnrealizedPnl` |
| the clock (external) | `Tick`, `Midnight` |

`Telegram` says whether a client is configured: without it the notifications are no awaits, and a
settlement is one run of code. With it they are three (breaker, trade exit, entry).

*What is abstracted.* P&L is one unit won or lost, so `max(current_capital, 100)` (a floor a
hundredth of the default capital) never applies. The price is valid or not, TP or SL is crossed for
any set of open positions. Survival risk blocks an entry or not, as it pleases; confidence, signal
cooldown and candle likewise. `CIRCUIT_BREAKER_ENABLED` is taken as set, `EMERGENCY_SHUTDOWN` as
not. The daily reset compares with the UTC date and the restart with the local one: the model has
one midnight. `daily_summary`, peak equity and analytics are left out, and so is the `except` branch
of the main loop, which restarts the iteration. As in the live model a price is always awaited.

### PositionBook

Two variables, `life` and `market`, and three actions. A position is opened at most once and closed
at most once; at most `Limit` are open, no two of them in one market; a restart turns every open
position into a lost one. The interest is in what the refinements have to bridge: in the bots the
limit and the market are checked one or two awaits before the position is recorded, the position in
between is in a local variable, and replies are lost. Each refinement maps a position that is being
placed, or was dropped, to an unused one.

### FundingArb

| Variable | In the code (`strategy/funding_rate_arb.py`) |
|---|---|
| `paper` | `config.PAPER_TRADING`; either |
| `pc`, `cur`, `todo`, `tried` | where the one task is, the position it works on, what the two `for` loops have left |
| `positions` | `self._positions` and the local position of `open_position`: coin, side, entry price, whether a spot hedge counts as held, hours held and since the last funding, funding collected |
| `capital`, `saved` | `self._paper_capital` and the value in the JSON file, `None` if it has none that can be read |
| `unsaved`, `missed` | history: the capital was changed and its write is the next step; the file may lack the last change |
| `landed`, `entered`, `exited`, `spot` | the exchange: whether the order in flight was executed, which coin it traded for an entry, which exits it accepted, the spot bought and not sold |

| Code | Actions |
|---|---|
| `check_existing_positions`, `_accumulate_funding` | `CheckKeep`, `CheckClosePaper`, `CheckCloseLive`, `CheckDone` |
| `close_position`, `_close_spot_hedge` | `CheckClosePaper`, `PaperExit`, `PaperExitHedge`; `CheckCloseLive`, `ExitReply`, `ExitHedgeReply` |
| `scan_funding_rates`, `open_position`, `_open_spot_hedge` | `OpenPaper`, `PaperEntry`, `PaperEntryHedge`; `OpenLive`, `EntryReply`, `EntryHedgeReply`; `ScanDone` |
| `_save_paper_capital`, `_load_paper_capital` | `Save`, `Restored` |
| `run`, the process | `Wake`, `Down`, `Start` |

In paper mode a handler changes the capital (`Booked`) and then writes it (`Save`), once for the
perpetual and once for the spot leg: a hedged position has two such pairs when it is opened and two
when it is closed. `write_text` empties the file before it fills it, and an `OSError` is logged and
forgotten, so `Save` either writes the capital or leaves the old file or an unreadable one; the
process may die between the change and the write, or in the write (`Down`).

*What is abstracted.* A position is one unit of its coin, money is integers, the distance of the
stop is one of prices. A coin may be missing from any scan. Time passes in ticks, asleep only.

### TrendFollowing

| Variable | In the code (`strategy/trend_following.py`) |
|---|---|
| `running`, `pc`, `cur`, `todo`, `tried` | `self._running`, and where the task is |
| `positions` | `self._positions`: side, entry, trailing stop, best price, hours held; `idle`, a history of the time since it was closed |
| `cooldowns` | `self._coin_cooldowns`, as time to go |
| `books` | how far the records of a closed position got: event, scorecard, row in `trades`; each is a step, and the first and the last may fail |
| `entered`, `exited`, `landed` | the exchange |

| Code | Actions |
|---|---|
| `check_existing_positions` | `CheckKeep` (`Trailed`, `ShouldClose`), `CheckSkip` (no mid), `CheckDone` |
| `close_position` | `ClosePaper`; `CloseLive`, `ExitReply`; then `LogClose`, `Score`, `SaveRow` |
| `scan_markets`, `open_position` | `Decide`, `TooSmall`, `OpenPaper`, `OpenLive`, `EntryReply`, `ScanDone` |
| `run`, signals, the process | `Wake`, `Stop`, `LoopEnds`, `Kill`, `Start` |

*What is abstracted.* The ATR is 1 and prices are small integers. The signal of a scan is any side at any price. The indicators, the
volatility factor (which may leave nothing to buy: `TooSmall`) and the daily summary row are left out.

### CrossExchangeArb

One task, no order: live entries are refused (`open_position` returns early because the second leg
is not implemented), so money moves in paper mode only. `Check` is the body of
`_check_existing_positions` for one pair with what either venue quotes, or does not; `Open` is
`open_position` with all its early returns; `Wake`, `Down`, `Start` are the process. A quantity is the
notional over the price, rounded as Python's `round` does it (`Rounded`): quantities are counted in
millionths of a coin, which is what the code rounds to. `Tolerance` is the `1e-9` by which the spread
of an entry may fall short of its threshold. Nothing is assumed of the order of the two thresholds,
since `validate()` does not compare them.

### MarketDataFeed and MultiAssetBot

`link[f]` is where `connect()` of a feed is. The model has the two ways a stream ends as the code
has them: an error inside `_listen` is swallowed there and dialled again at once (`Dropped`); a clean
closure by the server ends the iteration with `connected` still set, so that `connect` returns and
the feed is over (`ClosedCleanly`). Attempts are reset on the handshake, before the subscription.

`MultiAssetBot` adds the main loop (`ExitsKeep`, `ExitsSave`, `ExitsRemove`, `ExitsFail`, `ExitsDone`,
`EnterPaper`, `EnterLive`, `EntryReply`, `SignalsDone`, `Wake`), the callback of the feeds
(`OnCandle`), the shutdown (`Stop`, `StopSave`, `StopRemove`, `CancelReply`) and the process (`Down`,
`Start`). `_close_position` saves the trade (`SaveTrade`, one commit) and then takes the position from
both lists (`Remove`): Ctrl-C may find the loop between the two, and `stop` then meets a listed
position that has its trade. `cut` remembers such closings. `positions` is one variable for the two
lists of the code, which are changed in one run without an await. `ExitsFail` ends the iteration
before the position at hand is changed: saving its trade, or the message about it, raised.
The correlation filter may refuse any signal here.

### CorrelationFilter

The filter for assets that move together: at each moment the market has one price, and the price of
every asset is a multiple of it. `Move(px, seen)` is a moment; the assets in `seen` get the candle,
the others miss it (a feed that reconnects, a candle whose price is not positive or whose update of the
indicators raised, `run_multi_asset_bot.py` 193-201). `price_history` is as in the code, cut to twice
the window; `times` is a history that the code does not have. `Correlated` is `get_correlation` with
`is_correlated`'s threshold: too little history and a series without variance read as "uncorrelated",
the histories are aligned by their index from the end, and the squared correlation of the returns is
compared without dividing. Returns are exact (`Scale` is a multiple of every price).

### SurvivalRisk

| Variable | In the code (`core/survival_risk.py`, and the bot) |
|---|---|
| `positions`, `decided`, `capital`, `dailyPnl`, `losses` | the bot's positions by side, an entry that was admitted and waits for its order, its counters |
| `tier` | `TieredRiskManager.current_tier` |
| `peak`, `equity`, `triggered`, `age`, `left` | `MaxDrawdownCircuitBreaker`: `peak_equity`, `current_equity`, `triggered`, the time since `triggered_at` and to `reset_at` |

`Admit` is `can_open_position` with the barred hours, the breaker, the heat and the losing setup;
`Settle` is what `_finalize_closed_position` does that concerns the manager: `update_after_trade` with
a capital that contains the trade's P&L already (`EquityTold`), the tier from the losses before the
trade, then the counters. `Midnight` is `_check_daily_reset`, `Restart` a new manager beside restored
counters. Hours to go and hours since saturate at the cooldown, so time is unbounded.

### ExchangeConnector and SmokeCheck

`call`, `attempt`, `reply` are the one operation in flight; `book`, `held`, `taken`, `received` the
exchange. An attempt is answered, refused, or fails before or after it had its effect; `Retry` and
`GiveUp` are `retry_with_backoff` with `is_retryable`. What a failed call returns differs by call as
in the code: an empty list (open orders, fills), "unavailable" (positions), nothing (mids),
`unknown` (`submit_order`). `SmokeCheck` adds the check's own steps, each with every early return, and
Ctrl-C at any point. A step is "ask" and "told", so the process may be killed in between. `OwnCoin`
says whether the coin of the check is `config.ASSET`: the check submits its own coin
(`smoke.py:137`), `cancel_order` cancels `config.ASSET` (`connector.py:227`). Without it the check
finds no resting order (step "visible") and cannot pass; the theorems are for either.

## 3. Runs

| Run | Bounds | States | Shows |
|---|---|---|---|
| `live_recovery` | 1 entry, 2 exit orders, 4 position ids (1 entry, 3 recoveries), 1 death, any number of shutdowns and restarts | 0.5 M | type, `FillBookedOnce`, `OpenNeedsExposure`, `ImplementsSettlement`, `OutageIsNotFlat`, `ClosedStaysClosed` |
| `live_requests` | from `Init` or two open positions; entries of 2 lots; 1 request at a time, any number of them; 1 entry, 1 exit order, no death | 1.8 M | `TradesFromOwnFills`, `StoreMatchesMemory` with the API active from the start sequence on |
| `live_progress` | fair; 1 outside trade, 1 exit order | 66 k | `FlatIsNoticed`, `ExposureIsTracked` |
| `paper_book` | fair; 2 positions, limit of 1, breaker after 2 losses, 1 request at a time, 1 death, no Telegram | 0.3 M | `SettledOnce`, `OpenRowsAreListed`, `PositionLimit`, `BreakerIsSound`, `BreakerIsLifted` |
| `funding_arb` | fair; 2 positions, limit of 1, 2 coins (one with a spot market, one the connector's own), 2 rates, 2 prices, 2 ticks, 1 restart | 0.15 M | `BookFollowsExchange`, `SpotFollowsHedge`, `CapitalSurvivesRestart`, `MaxHoldCloses`, `ImplementsBook` |
| `cross_arb` | 2 pairs, limit of 1, 2 coins, 2 rates, 2 prices, quantities of 3 and 1.5 units, a tolerance of 1, 2 ticks, 1 restart | 0.13 M | `NoFlapping`, `PairIsNeutral`, `ImplementsBook` |
| `trend_following` | fair; 2 positions, limit of 1, 2 coins, 3 prices, both modes, 2 ticks, 1 restart | 0.4 M | `BookFollowsExchange`, `ClosedIsScored`, `StopOnlyTightens`, `StopEnds`, `ImplementsBook` |
| `multi_asset` | 2 assets, 2 positions, 2 tries in a row, 1 end of the process (interrupts included) | 0.6 M | `SettledOnce`, `ImplementsBook` |
| `survival` | 2 slots, trades of -4 to 3, capital up to 16, any number of hours, midnights, restarts | 0.2 M | `TierTwoIsOfToday`, `TriggerIsKept` |
| `smoke` | fair; 3 retries, an account that holds -2, -1, 0 or 2 | 1.9 k | `PassedIsClean`, `SentOnce`, `CheckEnds` |
| `survival_cooldown`, `paper_settled_twice` | small | | violations, section 5 |

Two configurations that hold stand beside the runs. `correlation.cfg` (module `CorrelationFilter`, 0.9 M
states) checks `CoMovementIsSeen` over seven moments, a window of three (so that histories are cut at
six) and two prices. `cross_legs.cfg` (module `MCCrossExchangeArb`, 92 k states) repeats `PairIsNeutral`
for one pair at the prices 1, 2, 3, 4 and 6, where venues that quote different prices can move by one
factor, and with a notional of 7, which only the price 1 divides.

**Why the bounds are enough.**

* `live_*`: two exit orders are what it takes to mix up fills (an unknown exit and a second one, a
  partial exit and a second one); a lot of two is what it takes to fill in part; three recoveries let
  a bot lose its memory of a position, recover it and lose it again; one death is what it takes to
  stop between two writes, and shutdowns, which are unbounded, restart it as often as it likes. When
  all exit ids are used a further exit request never reaches the exchange (its outcome is error or
  unknown), so the code around it is still exercised. When all position ids are used no further
  entry or recovery is made: the last is a bound that can stop the main loop inside
  `_reconcile_positions`; ids are chosen so that it is reached only after every kind of recovery.
  Deadlock is checked in the runs of `ExecutionLifecycle`, `PaperTrading` and `SurvivalRisk`.
* `paper_book`: two positions are what it takes to reach two losses in a row and to exceed a limit
  of one; days, restarts and requests are unbounded. When both ids are used no further entry is made.
* The three strategy bots: the second position is what it takes to exceed a limit of one, in the other
  coin; two ticks let a position of `funding_arb` and `cross_arb` outlive its maximal hold time of one;
  one restart separates two processes. In `trend_following` the maximal hold time is two ticks, so that
  age does not end a position before its trailing stop has moved: both a long and a short one are
  reached whose stop moves while it is open, and the distances are 9, 3 and 1, so that a stop that
  followed the price at its distance would loosen. A run ends when the ticks, ids and
  restarts are used up, so deadlock is not checked (`CHECK_DEADLOCK FALSE`); nothing else stops them.
  Rates below the thresholds are left to `None` (a coin that is not quoted reads as rate 0).
* `cross_arb`: the tolerance makes the widest spread (2) enough for an entry although the threshold is 3.
* `multi_asset`: one end of the process is enough for the sequence that matters: an interrupt in a
  closing and the shutdown that closes again, since `Stop` does not count as an end.
* `survival`: a drawdown limit of 30 % of small capitals is reached by one or two losses; the cooldown is
  two hours, so that a settlement may come before, at and after its end. Symmetry is in the slots.
* `smoke`: three retries are the default of `retry_with_backoff`. The check may end, so deadlock is
  not checked there.

Symmetry sets are used with invariants, action properties and refinement without fairness only.

**The properties.**

* `FillBookedOnce`: an exit's fill is settled at most once, and only after it was recorded. Several
  handlers may confirm the same exit, before and after a restart; the unique key of
  `execution_fills` is all that separates them.
* `ImplementsSettlement`: the whole life of an exit order is one of `ExitSettlement`: sent, void or
  filled, recorded, booked, in this order, with nothing left out and nothing undone.
* `TradesFromOwnFills`: the trades of a position are those of its own exit orders. An exit request
  reuses the object, whose `exit_oid` may still be an earlier order's.
* `StoreMatchesMemory`: what a death would restore is what the bot knows.
* `OpenNeedsExposure`: nothing is managed as open that the exchange never filled, in particular not
  an accepted, unknown or rejected entry that a restart restores.
* `OutageIsNotFlat`: a row that is not closed becomes `externally_closed` only from an available, flat
  snapshot. (A closed row already may: when two requests close the same position, one may settle it
  after a reconciliation wrote it off, and the other then saves the object, which is still
  `externally_closed`.)
* `ClosedStaysClosed`: with the main loop alone, no restart, late fill, candle update or
  reconciliation brings a closed row back. It does not hold with API requests: a handler that
  resumes with a position another one has closed writes it again. It is checked without them.
* `FlatIsNoticed`, `ExposureIsTracked`: reconciliation converges, the account being what stays.
* `SettledOnce`, `OpenRowsAreListed`, `PositionLimit` (`PaperTrading`): in a paper bot without
  Telegram each position is settled once, the store lists what the bot manages, and the list never
  outgrows its limit, across shutdowns and restarts. Each has a part that holds until the first
  abrupt death only: one between the trade and the row settles the position a second time after the
  restart, and one before the first `bot_state` makes the bot forget rows that it restores later,
  beside new ones.
* `BreakerIsSound`, `BreakerIsLifted`: losses and breaker do not come apart in memory or in the
  saved state, and a set breaker is lifted while the bot stays up.
* `ImplementsBook` (four modules): the promises of `PositionBook`, over lost replies and restarts.
* `BookFollowsExchange` (funding, trend): a live bot lists no position whose entry the exchange did
  not accept and calls none closed whose exit it did not. The converse does not hold: an order of
  unknown outcome may have been executed, and the bot forgets it.
* `SpotFollowsHedge`: the spot of a position is bought once and sold at most once, and held while the
  position counts as hedged; a failed sale is not tried again.
* `CapitalSurvivesRestart`: the next process goes on with the paper capital, whenever the last one
  died, if the last change of the capital got as far as the file. It needs every change to be followed
  by a write. A capital that was lost completely is the exception the code makes; what a torn write
  loses is in section 5.
* `MaxHoldCloses`: a coin that is never quoted again still loses its position at the hold limit.
* `NoFlapping`: the quotes a pair was opened on do not close it, in either direction, before it is too
  old, except where the thresholds themselves overlap (`Overlap`): a configuration may have an exit
  threshold above the entry threshold less the tolerance, and `validate()` accepts it.
* `PairIsNeutral`: when both venues move by one factor a pair costs its fees and at most half a unit of
  each leg's quantity at the distance its price has moved, which is what the rounding can do.
* `StopOnlyTightens`: the distance of the stop shrinks with age in steps, the best price grows; the
  stop moves one way only.
* `ClosedIsScored`: when its handler is done, a closed position whose event was written has been reported
  to the scorecard, whether or not its row could be written. A position whose event could not be
  written is not (`EveryCloseIsScored`, section 5).
* `StopEnds`: a stop signal, looked at after the sleep only, ends the process.
* `SettledOnce` (`MultiAssetBot`): a trade when a position is closed and none otherwise, through
  iterations that end in the middle, replies that are lost and the shutdown. A closing that an
  interrupt cut short between its trade and the removal may be recorded a second time by `stop`, and
  no third time; nothing else is recorded twice.
* `TriggerIsKept`: the breaker is released by a new high or the whole cooldown, `reset_at` of an
  earlier trigger included.
* `TierTwoIsOfToday`: no tier outlives the day whose losses earned it.
* `PassedIsClean`, `SentOnce`, `CheckEnds`: what a passed check says of the account, no order twice
  under retries, and an end.

**Fairness.** `ExecutionLifecycle` (`LiveSpec`): weak fairness of each coroutine, as the event loop
runs every ready one. That each exchange call ends is an assumption about the environment: the
connector passes no timeout to the SDK's clients. Strong
fairness of `MaybeReconcile`: every iteration calls it; in the model the loop's other handlers could
always go first. Strong fairness of a successful read: an outage ends. Strong fairness of recording
an available fill. No fairness of `Start` (the repository has no supervisor), of the exchange
(orders may rest for ever) or of requests: the liveness properties are conditional on the process
staying up.

In `PaperTrading` the main loop is strongly fair: its turn comes between any two runs of another
coroutine, as asyncio's queue guarantees, but not always. Requests that closing has begun for end,
and time passes.

`FundingArb` and `TrendFollowing` (`FairSpec`): weak fairness of `Cycle`, the bot's one task: every
order ends (the same assumption) and every sleep ends. None of `Start`, `Stop` or `Kill`. The
bound on ticks ends time; `MaxHoldCloses` and `StopEnds` need none beyond it. `SmokeCheck`: weak
fairness of `Run`, the check with its connector, for the same reason. `SurvivalRisk` (`LiveSpec`, of
the violation only): hours pass, positions settle, an admitted entry is made, and an entry that may
be admitted again and again is: more than the code guarantees, and the breaker still stays.

## 4. Proofs

Every module of the system that has state of its own is proved about, for every value of the
constants that its named assumptions admit; TLC evaluates the assumptions in every run. Every
invariant, action property and refinement that a passing run checks is stated by a theorem. The
exception is `CorrelationFilter`, whose property is about sums over sequences. The proofs share one pattern: `Init => IInv`, `IInv /\ [Next]_vars => IInv'` with one step per action, and
each property from `IInv`. Where a property needs more than the type and the control, the second
invariant is proved on top of the first (`IInv /\ BookInv /\ [Next]_vars => BookInv'`).

| Proof module | Theorems about runs' properties | Inductive invariants |
|---|---|---|
| `ExecutionLifecycle_proofs` | `TypeOK`, `FillBookedOnce`, `StoreMatchesMemory` | `IInv`: `TypeOK`, `ControlInv`, `SettleInv`, `LedgerInv`, `StoreMatchesMemory` |
| | `TradesFromOwnFills`, `OpenNeedsExposure`, `OutageIsNotFlat`, `ImplementsSettlement` | `BookInv`: `HandInv`, `LoopInv`, `WrittenOffInv`, `OrderInv`, `TradesInv`, `EntryInv`, `EvidenceInv` |
| | `ClosedStaysClosed`, with no requests | `AloneInv`: `ListInv`, `ExitInv`, `PendingInv` |
| `PaperTrading_proofs` | `BreakerIsSound` | `IInv`: `TypeOK`, `BreakerIsSound` |
| | `SettledOnce`, `OpenRowsAreListed`, `PositionLimit`, without Telegram | `ControlInv`: `TurnInv`, `DownInv`, `SavedInv`; `BookInv`: `HandInv`, `ListInv`, `TradeInv`, `LifeInv` |
| `FundingArb_proofs` | `BookFollowsExchange`, `SpotFollowsHedge`, `CapitalSurvivesRestart`, `ImplementsBook` | `PlaceOK`, `RestOK`, `CoinsOK`, `ChecksOK`, `EntryOK`, `BookFollowsExchange`, `SpotOK`, `MoneyOK` |
| `CrossExchangeArb_proofs` | `NoFlapping`, `ImplementsBook`; `Kept`, `FundingIsCollectedOnce` of no run | `IInv`: `PairsOK`, `TodoIsOpen`, `Entered`, `FundingBound` |
| | `PairIsNeutral` | `MoneyInv`: `Priced`, whole capital |
| `TrendFollowing_proofs` | `BookFollowsExchange`, `ClosedIsScored`, `StopOnlyTightens`, `ImplementsBook`; `CooldownHolds` of no run | `PlaceOK`, `RestOK`, `CoinsOK`, `ChecksOK`, `EntryOK`, `CoolingOK`; `ScoringOK` for the records, `AskedOK` for the exchange |
| `MultiAssetBot_proofs` | `SettledOnce`, `ImplementsBook`; `GivesUpExhausted` of the feeds | `PlaceOK`, `RestOK`, `FeedOK`, `CurOK`, `OneEach`, `EntryOK`, `SavedOK`, `SettledOnce` |
| `SurvivalRisk_proofs` | `TierTwoIsOfToday`, `TriggerIsKept`; `UntriggeredIsHealthy` of no run | `BotOK`, `BreakerOK`, `CooldownRuns`, `UntriggeredIsHealthy`, `TierTwoIsOfToday` |
| `SmokeCheck_proofs` | `PassedIsClean`, `SentOnce` | `TypeOK`, `CallIsAwaited`, `CleanSoFar`, `SentSoFar` |

The type invariants of the other seven systems are theorems (`TypeCorrect`) too; the runs do not repeat
them, and neither do they repeat three facts that are proved only: no hour of a pair is paid for twice
(`FundingIsCollectedOnce`), no coin is entered in its cooldown (`CooldownHolds`), and the drawdown
breaker is consistent with the equity it was told (`UntriggeredIsHealthy`).

*What the invariants add.*

* `ExecutionLifecycle`, `IInv`. `ControlInv`: a coroutine between two awaits is the only one that is
  (`TurnInv`), one that works on a position has one in hand (`AtInv`), and a process that is down has
  no memory (`DownInv`). `SettleInv`: a coroutine between `RecordFill` and `SaveTrade` holds a
  position whose `exit_oid` is recorded, filled, and not yet booked; it got there without an await
  since `RecordFill`, so `TurnInv` makes it the only one, and nobody can have moved that `exit_oid`.
  `LedgerInv`: what is booked is recorded, what is recorded was filled, and is booked at most once.
* `ExecutionLifecycle`, `BookInv`. What a step does to objects and rows is classified once
  (`BookMoves`: nothing, a restart, the loss of the process, a candle update, a closing, or one object
  saved by its handler with a state of the handler's choice), and every invariant goes through the
  classes. `OrderInv`: the order id that an object or a row carries, or an exit waits for, is of an
  order sent for that position. So the one step that books (`SaveTrade`) adds one order to the set
  that the trades of that position count (`TradesInv`, by cardinalities), and `Book` is possible in
  `ExitSettlement`. `LoopInv`: the reconciliation loop keeps its authoritative snapshot through the
  awaits of the confirmations it makes; `WrittenOffInv`: an object written off has a closed row, so a
  handler or candle update that saves it again writes nothing off that was not. `EvidenceInv` is for
  `OpenNeedsExposure`, which says nothing of what comes later and is far from inductive: until an
  entry has filled in part or somebody else has traded, the account is *quiet*: no exposure, no
  snapshot that shows any, no exit under way, no object and no row that is `open`; every way to
  `open` (a snapshot, a rejected exit, a row a restart brings back) needs one of these.
  `EntryInv` adds that an id with an entry order has a row, so a new entry finds no older order.
* `ExecutionLifecycle`, `AloneInv`. Without requests nobody takes a position out of the list behind
  the loop that goes through a copy of it: what is left to do, and what is in hand, is listed, and a
  listed position has a row that is not closed, except while its settlement ends. With requests
  this is false, and so is the property.
* `PaperTrading`, `IInv`: every place that writes the counters applies an operator that maps sound
  counters to sound ones (lemma `SoundOperators`).
* `PaperTrading` without Telegram: a closing loop has no await once it has a price, so it keeps the
  turn to its end (`TurnInv`) and what it has in hand stays listed (`HandInv`). `ListInv`: a listed position
  is open in memory, and in the store unless it is just being settled. `LifeInv` is what the first
  abrupt death ends: an open row without a trade, and the open rows are the listed ones or, while
  the bot is down, come back with the saved state (`SavedInv`: a shutdown has saved it). So the limit
  that is asked before the await of the prices counts what a restart may bring back, and during that
  await the main loop, which alone opens positions, opens none. With Telegram `TurnInv` is false: the
  notification of the breaker is awaited in the middle, and `SettledOnce` is violated
  (`paper_settled_twice`).
* The strategy bots: `EntryOK`: what `open_position` checked before it awaited an order (limit, coin,
  cooldown) still holds when the reply comes, because the one task that opens and closes positions is
  the one that waits. That is what lets `Opening` refine `PositionBook`'s `Open`. `ChecksOK`: the
  positions a check still has to look at are open, and the one whose exit is in flight is not among
  them. `CoolingOK`: the cooldown of a coin and the time since a position in it was closed add up to
  at least the configured one. `MoneyOK`: when the last change was written, the file holds the
  capital, or the bot has its configured capital and the file nothing that would be restored.
  `ScoringOK`: a record is of a closed position, and one that got no further than its event is the one
  the scorecard is about to hear of. `AskedOK`: an order in flight that was executed is among the accepted ones.
* `CrossExchangeArb`: `Entered` (the spread of an open pair has the magnitude its entry asked for,
  less the tolerance; so quotes that close it are in `Overlap`. `PairsAreKept` says what remains when
  the thresholds are further apart than the tolerance, as the defaults are: nothing but age), `FundingBound` (funding so far and hours since
  the last accumulation against the hours held) and `MoneyInv` (pairs exist on paper only, and an open
  one was entered at prices of the market). `PairIsNeutral` is arithmetic from there: both legs have
  the same notional, so what one wins the other loses, up to half a unit of either quantity
  (`Rounding`, `LegsOffset`: products of unknowns in steps the solver can take).
* `MultiAssetBot`: `OneEach` (one open position per asset), `EntryOK` (as above) `CurOK` (the
  loop has a position in hand whenever it waits for an order or is in a closing) and `SavedOK` (only `stop`
  meets a listed position that has a trade).
* `SurvivalRisk`: `CooldownRuns`: a triggered breaker has a `reset_at`, and the hours since the
  trigger and the hours to it add up to the cooldown.
* `SmokeCheck`: `CleanSoFar`: at each step of the check what its earlier replies prove about the
  account, as long as none has failed. `SentSoFar`: an order has been received at most as often as
  the check got to asking for it.

The refinements map initial states to initial states (`BookInit`, `ProgressInit`) and every step to a
step or a stutter (`BookStep`, `SettlementStep`). In `FundingArb` and `TrendFollowing` the effects of a
step on the positions are classified once (`Effects`), and each class is an action of `PositionBook` or
a stutter; in `ExecutionLifecycle` five actions touch an exit order, the ledger or the trades
(`LedgerChanges`), and each moves one order along, or none when the ids of the model are used up.

*Assumptions.* `TasksAssumption`, `LotAssumption`, `BoundAssumption`, `NoneAssumption`
(`ExecutionLifecycle`); `PaperTasksAssumption`, `PaperNoneAssumption`, `PaperSavedAssumption`, `PaperLimitAssumption` (a
breaker needs at least one loss: with `MAX_CONSECUTIVE_LOSSES = 0` the code would trip at the first
loss while a fresh bot has as many without one); `FundingNoneAssumption`, `FundingCoinsAssumption`,
`FundingMarketAssumption`, `FundingLimitAssumption`; `TrendNoneAssumption`, `TrendStopAssumption`,
`TrendLimitAssumption`; `PairNoneAssumption`, `PairQuoteAssumption`, `PairMarketAssumption`,
`PairThresholdAssumption` (what `validate()` asks), `PairLimitAssumption`; `FeedAssumption`,
`AssetNoneAssumption`, `AssetsAreFinite`, `AssetBoundAssumption`; `SurvivalNoneAssumption`, `SurvivalAssumption`;
`ConnectorAssumption` and `NoneAssumption` (`ExchangeConnector`). They are types of the constants and
that `None` is none of the values, and otherwise what is said above.

*Only model-checked*: the liveness properties, as said next. Some theorems are conditional where the property is:
`ClosedIsClosed` is about the main loop alone (`Requests = {}`), the three about the paper
bot's book about a bot without Telegram (`~Telegram`). What holds under deaths is in the properties themselves
(`crashes = 0 => ...`).

*Out of the prover's reach*: liveness under fairness (`FlatIsNoticed`, `ExposureIsTracked`,
`BreakerIsLifted`, `MaxHoldCloses`, `StopEnds`, `CheckEnds`, and the violation `CooldownExpires`),
`ENABLED`, induction over data, and recursive operators. No module here declares a recursive
operator.

## 5. What the code does that the repository says it does not

Two of them are runs of `PROJECT.json`, which quotes the lines:

* `survival_cooldown` (`CooldownExpires`): the end of the drawdown breaker's cooldown is looked at
  only when a trade is booked; a triggered breaker lets no trade be made, so without an open position
  it stays for ever, or until the process restarts.
* `paper_settled_twice` (`SettledOnce`): with a Telegram client two coroutines settle the same paper
  position, each from the list it took before an await; its P&L is counted twice.

The others have a configuration beside the runs; `tlc -config X.cfg M` shows each:

| Configuration | Module | Property | What happens |
|---|---|---|---|
| `quarantine.cfg` | `MCExecutionLifecycle` | `QuarantineHolds` | exposure recovered without TP and SL is said to be quarantined; the second reconciliation makes it `open`, and with TP = SL = 0 the exit check closes it. `start` alone reconciles twice |
| `reissued_exit.cfg` | `MCExecutionLifecycle` | `ReconcileBeforeReissue` | after an unknown exit the next snapshot that shows exposure makes the position `open` again; a second exit is sent while the first is still under way (with the same client id; whether the exchange would refuse it for that is not the bot's doing) |
| `partial_fill_accounting.cfg` | `MCExecutionLifecycle` | `ClosedIsFullyBooked` | a position closed by two exit orders is settled with the last one's fill |
| `stuck_exit.cfg` | `MCExecutionLifecycle` | `ExitIntentIsResolved` | the fill is recorded before it is settled; a death in between leaves the exit requested for ever, since its fill is a duplicate from then on |
| `paper_shutdown.cfg` | `PaperTrading` | `RestartKeepsCapital` | `_shutdown` saves the state before it settles; the bot restarts with the capital and the counters of before |
| `paper_daily_reset.cfg` | `PaperTrading` | `ResetAtMidnight` | `_restore_state` makes `last_trade_date` a datetime, which equals no date: the first iteration after a restart resets the counters of the same day ("Reset daily counters at midnight", `trading_bot.py:877`) |
| `funding_file.cfg` | `MCFundingArb` | `SavedCapitalIsKept` | "Persist paper capital so restarts do not reset the experiment" (`funding_rate_arb.py:244`): the write is not atomic and its failure is swallowed, so a death or a full disk in it loses the capital that was there, and the next start begins with the configured one |
| `trend_scorecard.cfg` | `MCTrendFollowing` | `EveryCloseIsScored` | "Feed every closed trade to `record`" (`strategy_scorecard.py:73`): an event that cannot be written (`trend_following.py:489`) ends `close_position` with the position closed and the scorecard not told |
| `correlation_gap.cfg` | `CorrelationFilter` | `CoMovingPairIsIdentified` | "Uses rolling correlation to identify highly correlated assets" (`multi_asset.py:62`): the histories are aligned by their index, so a candle that one feed missed shifts them, and two assets that move together read as uncorrelated |
| `funding_pro_rata.cfg` | `MCFundingArb` | `FundingIsProRata` | within eight hours of a settlement every check adds the whole amount since that settlement again |
| `smoke_flat.cfg` | `MCSmokeCheck` | `PassedIsFlat` | an unavailable read after the flatten order is taken for a flat account; the check passes with a position |
| `survival_drawdown.cfg` | `MCSurvivalRisk` | `DrawdownIsFromTheStart` | the peak starts with the first settled trade, counted twice, and anew with each process: a drawdown from the starting capital goes unnoticed |
| `multi_close.cfg` | `MCMultiAssetBot` | `ClosedOnExchange` | "closing" a live position cancels its entry order and sends no exit; what had been bought, or is bought before the cancellation, stays |

Facts the models keep as the code has them, and that no document contradicts or decides:

* The live orders of the funding and trend bots are placed without a coin: the connector trades its
  own `ASSET`, whatever coin the position names (`entered` of `FundingArb` keeps it).
* In paper mode opening a hedged position charges the fees and not the price of the spot, closing it
  pays the price back: `SpotProceeds` (`funding_rate_arb.py:934`).
* With `avoid_first_last_minutes = 30` the whole first hour of a session is barred and none of the
  half hour before it (`SafeToTrade`).
* A feed ends without a word when the server closes the stream properly.
* An interrupt between the trade and the removal of a closing makes `stop` record a second trade
  (`SettledOnce` of `MultiAssetBot` allows for it).
* A rate that could not be fetched is a rate of zero: a pair is closed for it (`HlSeen`, `BinanceSeen`).
* `_check_existing_positions` of the cross-exchange bot closes at once what `open_position` opens when the
  exit threshold is above the entry threshold less the tolerance.

## 6. Not modelled

* `update_config_param`, statistics queries, `events`, `daily_summary`, the CSV migration and the
  read-only API routes: they decide nothing about a position. The parameters the API may change are
  constants here.
* Indicators, confidence and sizing over float series: a signal is any side at any price; a size is
  one unit or one lot, or too small. TLC has no floats, and no property depends on the formulas.
* Adaptive parameters, health and performance analytics, the strategy scorecard's verdict: numeric
  summaries. `TrendFollowing` models when the scorecard is told.
* Candle backfill and walk-forward analysis: offline, over stored candles.
* The release gate's environment check: one condition before a process starts. Its effect, the modes
  a bot may start in, is `Modes` of `TrendFollowing`, and live means testnet in `MultiAssetBot`.
* Telegram, dashboards, the farming script: output. A notification is an await that may or may not
  happen (`Telegram` of `PaperTrading`).
* `close_position` and the leverage calls of the connector: nothing calls the first; the second
  change no state that is modelled.
* The size multiplier and the volatility manager of the survival risk manager: nothing in the bot
  reads them; the 15 minutes between two trades need a time the bot does not pass.
* The two Binance and Hyperliquid displays of the arbitrage bots: they only read.
* Failures of SQLite in `TradingBot`, which are caught; a death at any point is there. The strategy
  and multi-asset bots do have failing records, because there they change what happens next.

*What further work there is*: two directions at once in `ExecutionLifecycle` (they share the pause
and the length of the list); what a paper bot with Telegram still keeps (a closed row has a trade); an
abstract specification of the smoke check's order, as `ExitSettlement` is one of an exit; the correlation
filter inside `MultiAssetBot` instead of beside it.
