------------------------- MODULE ExecutionLifecycle -------------------------
(***************************************************************************)
(* The execution lifecycle of a live TradingBot (src/bot/trading_bot.py,   *)
(* PAPER_TRADING = False): how the bot enters, reconciles, exits and books *)
(* positions of ONE asset in ONE direction against an exchange it only     *)
(* sees through calls that may fail, and a SQLite file that survives it.   *)
(*                                                                         *)
(* Tasks.  Everything runs in one asyncio loop, so a task is interrupted   *)
(* only where it awaits.  `turn' is the task that is running between two   *)
(* awaits (None at an await point): another task may step only when it is  *)
(* None, the exchange and a crash may step at any time.  Main is the main  *)
(* loop, Requests are the handlers of the web API in progress.             *)
(*                                                                         *)
(* State.  positions and obj are the list and the Position objects of the  *)
(* process; rows, ledger, booked and trades are SQLite tables, written by  *)
(* one autocommit statement each; exposure, entryOrder and exitOrder are   *)
(* the exchange (external).                                                *)
(***************************************************************************)
EXTENDS Naturals, FiniteSets

CONSTANTS
  Ids,            \* position_uid values (uuid4): entries and recoveries
  Exits,          \* exchange order ids of exit orders
  Main,           \* the main loop's task
  Requests,       \* API requests served concurrently
  Lot,            \* quantity of an entry order
  MAX_POSITIONS,  \* risk_manager's bound on the length of self.positions
  MaxEntries,     \* bound: entry orders
  MaxCrashes,     \* bound: abrupt process deaths
  MaxExternal,    \* bound: trades of the account the bot did not make
  MaxExposure,    \* bound: exposure an outside trade may leave
  None

Tasks == {Main} \cup Requests

ASSUME TasksAssumption == Main \notin Requests
ASSUME LotAssumption == Lot \in Nat \ {0}
ASSUME BoundAssumption ==
  /\ MAX_POSITIONS \in Nat /\ MaxEntries \in Nat /\ MaxCrashes \in Nat
  /\ MaxExternal \in Nat /\ MaxExposure \in Nat
ASSUME NoneAssumption == None \notin Ids \cup Exits \cup Tasks

VARIABLES
  turn,        \* the task running between two awaits, None at an await
  pc,          \* where each task is
  frame,       \* the local variables of each task
  positions,   \* self.positions
  obj,         \* the Position objects
  paused,      \* self._is_paused
  rows,        \* table positions
  ledger,      \* table execution_fills, by exit order id
  booked,      \* rows of table trades computed from the fill of an exit order
  trades,      \* rows of table trades, by position
  saved,       \* table bot_state has its row
  exposure,    \* quantity the exchange holds for the account
  entryOrder,  \* the entry order of a position at the exchange
  exitOrder,   \* the exit orders at the exchange
  crashes, external

control == <<turn, pc, frame>>
memory == <<positions, obj, paused>>
store == <<rows, ledger, booked, trades, saved>>
exchange == <<exposure, entryOrder, exitOrder>>
bounds == <<crashes, external>>
vars == <<control, memory, store, exchange, bounds>>

-----------------------------------------------------------------------------
(* The data a step can tell apart.                                         *)

\* Values of execution_state the bot writes; "absent" is no object, no row.
States == {"absent", "pending_entry", "open", "exit_requested",
           "partially_closed", "closed_confirmed", "externally_closed",
           "state_unknown", "recovered_unmanaged", "entry_rejected"}

\* The states get_active_positions leaves out.
ConfirmedOnly == {"closed_confirmed"}  \* mutant of Terminal
Terminal == {"closed_confirmed", "externally_closed"}

\* qty stands for quantity, confirmed_quantity and remaining_quantity, which
\* every reader takes as "remaining_quantity or quantity"; managed is FALSE
\* when tp_price = sl_price = 0.
PositionType ==
  [state : States, qty : Nat, exit_oid : Exits \cup {None}, managed : BOOLEAN]

NoPosition ==
  [state |-> "absent", qty |-> 0, exit_oid |-> None, managed |-> FALSE]

\* PositionRead: available, or an outage that carries no position.
Snapshots == [available : BOOLEAN, qty : Nat]
Unavailable == [available |-> FALSE, qty |-> 0]
Success(q) == [available |-> TRUE, qty |-> q]

\* Where a task can be; "loop" is the body of the main loop, between handlers.
Stages == {"down", "connect", "reconcile_again", "enter_loop", "loop",
           "signal_mids", "reconcile_read", "reconcile_apply",
           "reconcile_loop", "close_price", "close_loop", "exit_wait",
           "entry_wait", "confirm_read", "confirm_fills", "confirm_settle",
           "save_trade", "close_row", "finish_close", "cancel_orders",
           "exit_process", "idle"}

\* at: the position in hand; order: the exit order awaited; snapshot: the one
\* _reconcile_positions works on; view: the one _confirm_live_exit works on;
\* todo: what the enclosing for loop has left; loop: that loop; then: where
\* the handler returns to.
FrameType ==
  [at : Ids \cup {None}, order : Exits \cup {None}, snapshot : Snapshots,
   view : Snapshots, todo : SUBSET Ids,
   loop : {"idle", "close_loop", "reconcile_loop"},
   then : {"idle", "reconcile_again", "enter_loop", "loop", "cancel_orders"}]

NoFrame ==
  [at |-> None, order |-> None, snapshot |-> Unavailable,
   view |-> Unavailable, todo |-> {}, loop |-> "idle", then |-> "idle"]

EntryOrders == [state : {"none", "inflight", "resting", "done"}, left : Nat]
ExitOrders ==
  [pos : Ids \cup {None}, want : Nat,
   state : {"none", "inflight", "done", "dead"}, filled : Nat]

ControlOK ==
  /\ turn \in Tasks \cup {None}
  /\ pc \in [Tasks -> Stages]
  /\ frame \in [Tasks -> FrameType]

MemoryOK == positions \subseteq Ids /\ obj \in [Ids -> PositionType] /\ paused \in BOOLEAN

StoreOK ==
  /\ rows \in [Ids -> PositionType]
  /\ ledger \subseteq Exits
  /\ booked \in [Exits -> Nat]
  /\ trades \in [Ids -> Nat]
  /\ saved \in BOOLEAN

ExchangeOK ==
  /\ exposure \in Nat
  /\ entryOrder \in [Ids -> EntryOrders]
  /\ exitOrder \in [Exits -> ExitOrders]

TypeOK ==
  /\ ControlOK /\ MemoryOK /\ StoreOK /\ ExchangeOK
  /\ crashes \in Nat /\ external \in Nat

Init ==
  /\ turn = None
  /\ pc = [t \in Tasks |-> IF t = Main THEN "down" ELSE "idle"]
  /\ frame = [t \in Tasks |-> NoFrame]
  /\ positions = {}
  /\ obj = [p \in Ids |-> NoPosition]
  /\ paused = FALSE
  /\ rows = [p \in Ids |-> NoPosition]
  /\ ledger = {}
  /\ booked = [o \in Exits |-> 0]
  /\ trades = [p \in Ids |-> 0]
  /\ saved = FALSE
  /\ exposure = 0
  /\ entryOrder = [p \in Ids |-> [state |-> "none", left |-> 0]]
  /\ exitOrder =
       [o \in Exits |-> [pos |-> None, want |-> 0, state |-> "none", filled |-> 0]]
  /\ crashes = 0
  /\ external = 0

-----------------------------------------------------------------------------
(* Helpers.                                                                *)

Fresh == {p \in Ids : rows[p] = NoPosition}
CanEnter == Fresh # {} /\ Cardinality({p \in Ids : rows[p].managed}) < MaxEntries
FreshExits == {o \in Exits : exitOrder[o].state = "none"}
Open == {p \in positions : obj[p].state = "open"}

\* A task resumes only when no other one is between two awaits.
At(t, stage) == pc[t] = stage /\ turn \in {None, t}

\* Go to a stage and reach an await, go on without one, or either (an await
\* that only a configured Telegram client makes).
Await(t, stage) == pc' = [pc EXCEPT ![t] = stage] /\ turn' = None
Go(t, stage) == pc' = [pc EXCEPT ![t] = stage] /\ turn' = t
MayAwait(t, stage) == pc' = [pc EXCEPT ![t] = stage] /\ turn' \in {None, t}

Local(t, f) == frame' = [frame EXCEPT ![t] = f]

\* An assignment to the object p followed by save_position(p).
Save(p, r) ==
  /\ obj' = [obj EXCEPT ![p] = r]
  /\ rows' = [rows EXCEPT ![p] = r]

\* The handler returns: its local variables are gone.
Return(t) == Await(t, frame[t].then) /\ Local(t, NoFrame)

\* The body of a for loop is done with the position in hand.
NextItem(t) ==
  /\ Go(t, frame[t].loop)
  /\ Local(t, [frame[t] EXCEPT !.at = None, !.order = None, !.view = Unavailable])

\* The process is gone: what it held in memory is lost.
GoDown ==
  /\ turn' = None
  /\ pc' = [t \in Tasks |-> IF t = Main THEN "down" ELSE "idle"]
  /\ frame' = [t \in Tasks |-> NoFrame]
  /\ positions' = {}
  /\ obj' = [p \in Ids |-> NoPosition]
  /\ paused' = FALSE

-----------------------------------------------------------------------------
(* Process life: start, restore, connect, shut down, die.                  *)

\* _shutdown up to force_close_all_positions: the bot state is saved first.
Shutdown ==
  /\ saved' = TRUE
  /\ Await(Main, "close_price")
  /\ Local(Main, [NoFrame EXCEPT !.then = "cancel_orders"])

\* start and _restore_state: every row get_active_positions returns becomes
\* an object, but only when the bot state was saved once: with no bot_state row
\* _restore_state returns first.  The API server is up from here on.
Start ==
  LET restored == {p \in Ids : saved /\ rows[p].state \notin Terminal \cup {"absent"}}
  IN /\ pc[Main] = "down"
     /\ positions' = restored
     /\ obj' = [p \in Ids |-> IF p \in restored THEN rows[p] ELSE NoPosition]
     /\ Await(Main, "connect")
     /\ UNCHANGED <<frame, paused, store, exchange, bounds>>

\* check_connection: a failure shuts down; otherwise the bot reconciles twice
\* before it enters its loop.
Connect ==
  /\ At(Main, "connect")
  /\ \/ /\ Await(Main, "reconcile_read")
        /\ Local(Main, [NoFrame EXCEPT !.then = "reconcile_again"])
        /\ UNCHANGED saved
     \/ Shutdown
  /\ UNCHANGED <<memory, rows, ledger, booked, trades, exchange, bounds>>

ReconcileAgain ==
  /\ At(Main, "reconcile_again")
  /\ Await(Main, "reconcile_read")
  /\ Local(Main, [NoFrame EXCEPT !.then = "enter_loop"])
  /\ UNCHANGED <<memory, store, exchange, bounds>>

\* _shutdown after its force_close_all_positions: cancels what get_open_orders
\* reports, and nothing when that read or the cancel fails.
CancelAllOrders ==
  /\ At(Main, "cancel_orders")
  /\ \/ entryOrder' = [p \in Ids |-> IF entryOrder[p].state = "resting"
                                     THEN [entryOrder[p] EXCEPT !.state = "done"]
                                     ELSE entryOrder[p]]
     \/ UNCHANGED entryOrder
  /\ Await(Main, "exit_process")
  /\ UNCHANGED <<frame, memory, store, exposure, exitOrder, bounds>>

ExitProcess ==
  /\ At(Main, "exit_process")
  /\ GoDown
  /\ UNCHANGED <<store, exchange, bounds>>

Crash ==
  /\ pc[Main] # "down"
  /\ crashes < MaxCrashes
  /\ crashes' = crashes + 1
  /\ GoDown
  /\ UNCHANGED <<store, exchange, external>>

-----------------------------------------------------------------------------
(* The main loop.  Each handler of its body may find nothing to do in an    *)
(* iteration, so the handlers run in any order here: every order of their  *)
(* effects is one of the loop's over several iterations.                   *)

\* The last await of start, then the loop.
EnterLoop ==
  /\ At(Main, "enter_loop")
  /\ Await(Main, "loop")
  /\ UNCHANGED <<frame, memory, store, exchange, bounds>>

\* A force close request (.force_close_positions, SIGUSR1), or emergency_stop:
\* then the loop is left and _shutdown closes positions first.
LoopForceClose ==
  /\ At(Main, "loop")
  /\ \/ /\ Await(Main, "close_price")
        /\ Local(Main, [NoFrame EXCEPT !.then = "loop"])
        /\ UNCHANGED saved
     \/ Shutdown
  /\ UNCHANGED <<memory, rows, ledger, booked, trades, exchange, bounds>>

\* _persist_state, every five minutes.
PersistState ==
  /\ At(Main, "loop")
  /\ ~saved
  /\ saved' = TRUE
  /\ UNCHANGED <<control, memory, rows, ledger, booked, trades, exchange, bounds>>

\* Mutant of MaybeReconcile: a paused bot leaves the exchange alone.
ReconcileUnlessPaused ==
  /\ At(Main, "loop")
  /\ ~paused
  /\ Await(Main, "reconcile_read")
  /\ Local(Main, [NoFrame EXCEPT !.then = "loop"])
  /\ UNCHANGED <<memory, store, exchange, bounds>>

\* _maybe_reconcile_positions, when its interval has elapsed.
MaybeReconcile ==
  /\ At(Main, "loop")
  /\ Await(Main, "reconcile_read")
  /\ Local(Main, [NoFrame EXCEPT !.then = "loop"])
  /\ UNCHANGED <<memory, store, exchange, bounds>>

\* _check_position_exits: the open positions whose TP or SL the price has
\* crossed are closed.  Against tp_price = sl_price = 0 every price is a
\* crossing, so an unmanaged open position always triggers.
CheckPositionExits ==
  /\ At(Main, "loop")
  /\ \E crossed \in (SUBSET Open) \ {{}} :
       /\ {p \in Open : ~obj[p].managed} \subseteq crossed
       /\ Go(Main, "close_loop")
       /\ Local(Main, [NoFrame EXCEPT !.todo = crossed, !.loop = "close_loop",
                                      !.then = "loop"])
  /\ UNCHANGED <<memory, store, exchange, bounds>>

\* The paused test and the checks of _process_signal before its await.
ProcessSignal ==
  /\ At(Main, "loop")
  /\ ~paused
  /\ Cardinality(positions) < MAX_POSITIONS
  /\ CanEnter
  /\ Await(Main, "signal_mids")
  /\ UNCHANGED <<frame, memory, store, exchange, bounds>>

-----------------------------------------------------------------------------
(* Entries.                                                                *)

\* _place_entry_order up to its await: the entry is saved as pending_entry and
\* submitted post-only.
PlaceEntryOrder(t, next) ==
  LET p == CHOOSE id \in Fresh : TRUE
  IN /\ CanEnter
     /\ Save(p, [state |-> "pending_entry", qty |-> Lot, exit_oid |-> None,
                 managed |-> TRUE])
     /\ entryOrder' = [entryOrder EXCEPT ![p] =
                         [state |-> "inflight", left |-> Lot]]
     /\ Await(t, "entry_wait")
     /\ Local(t, [NoFrame EXCEPT !.at = p, !.then = next])
     /\ UNCHANGED <<positions, paused, ledger, booked, trades, saved, exposure,
                    exitOrder, bounds>>

\* The mids have arrived: the survival check blocks the signal, or not.
SignalEntry ==
  /\ At(Main, "signal_mids")
  /\ \/ /\ Await(Main, "loop")
        /\ UNCHANGED <<frame, memory, store, exchange, bounds>>
     \/ PlaceEntryOrder(Main, "loop")

\* Mutant of EntryAccepted: the acknowledgement is taken for a fill.
AcknowledgedIsOpen(t) ==
  LET p == frame[t].at
  IN /\ At(t, "entry_wait")
     /\ entryOrder[p].state # "inflight"
     /\ positions' = positions \cup {p}
     /\ Save(p, [obj[p] EXCEPT !.state = "open"])
     /\ Return(t)
     /\ UNCHANGED <<paused, ledger, booked, trades, saved, exchange, bounds>>

\* place_order returned ok: the object enters the list.  Only now does
\* reconciliation see it.
EntryAccepted(t) ==
  LET p == frame[t].at
  IN /\ At(t, "entry_wait")
     /\ entryOrder[p].state # "inflight"
     /\ positions' = positions \cup {p}
     /\ Save(p, obj[p])
     /\ Return(t)
     /\ UNCHANGED <<paused, ledger, booked, trades, saved, exchange, bounds>>

EntryRejected(t) ==
  LET p == frame[t].at
  IN /\ At(t, "entry_wait")
     /\ entryOrder[p].state = "inflight"
     /\ entryOrder' = [entryOrder EXCEPT ![p].state = "done"]
     /\ Save(p, [obj[p] EXCEPT !.state = "entry_rejected"])
     /\ Return(t)
     /\ UNCHANGED <<positions, paused, ledger, booked, trades, saved, exposure,
                    exitOrder, bounds>>

\* The call raised: whatever became of the order, it may still become it.
EntryUnknown(t) ==
  LET p == frame[t].at
  IN /\ At(t, "entry_wait")
     /\ Save(p, [obj[p] EXCEPT !.state = "state_unknown"])
     /\ Return(t)
     /\ UNCHANGED <<positions, paused, ledger, booked, trades, saved, exchange, bounds>>

-----------------------------------------------------------------------------
(* Closing: force_close_all_positions and _close_position.                 *)

\* force_close_all_positions once it has a price: no position or no valid
\* price, or the positions that are open now.
ForceCloseAll(t) ==
  /\ At(t, "close_price")
  /\ \/ Return(t)
     \/ /\ Go(t, "close_loop")
        /\ Local(t, [frame[t] EXCEPT !.todo = Open, !.loop = "close_loop"])
  /\ UNCHANGED <<memory, store, exchange, bounds>>

CloseLoopEnds(t) ==
  /\ At(t, "close_loop")
  /\ frame[t].todo = {}
  /\ Return(t)
  /\ UNCHANGED <<memory, store, exchange, bounds>>

\* is_exit_pending: the position is left alone.
SkipPendingExit(t) ==
  /\ At(t, "close_loop")
  /\ \E p \in frame[t].todo :
       /\ obj[p].state = "exit_requested"
       /\ Go(t, "close_loop")
       /\ Local(t, [frame[t] EXCEPT !.todo = @ \ {p}])
  /\ UNCHANGED <<memory, store, exchange, bounds>>

\* The request is saved, then submitted.  With no order id left
\* (the bound of the model) the order never reaches the exchange.
RequestExit(t) ==
  /\ At(t, "close_loop")
  /\ \E p \in frame[t].todo :
       LET o == IF FreshExits = {} THEN None ELSE CHOOSE id \in FreshExits : TRUE
       IN /\ obj[p].state # "exit_requested"
          /\ Save(p, [obj[p] EXCEPT !.state = "exit_requested"])
          /\ exitOrder' =
               [id \in Exits |->
                  IF id = o THEN [pos |-> p, want |-> obj[p].qty,
                                  state |-> "inflight", filled |-> 0]
                  ELSE exitOrder[id]]
          /\ Await(t, "exit_wait")
          /\ Local(t, [frame[t] EXCEPT !.todo = @ \ {p}, !.at = p, !.order = o])
  /\ UNCHANGED <<positions, paused, ledger, booked, trades, saved, exposure, entryOrder,
                 bounds>>

\* place_order returned ok, with an order id _extract_order_id could find or
\* without one; confirmation follows.
ExitAccepted(t) ==
  LET p == frame[t].at
  IN /\ At(t, "exit_wait")
     /\ frame[t].order # None
     /\ exitOrder[frame[t].order].state = "done"
     /\ \E oid \in {frame[t].order, None} :
          Save(p, [obj[p] EXCEPT !.exit_oid = oid])
     /\ Await(t, "confirm_read")
     /\ Local(t, [frame[t] EXCEPT !.order = None])
     /\ UNCHANGED <<positions, paused, ledger, booked, trades, saved, exchange, bounds>>

ExitRejected(t) ==
  LET p == frame[t].at
      o == frame[t].order
  IN /\ At(t, "exit_wait")
     /\ o # None => exitOrder[o].state = "inflight"
     /\ exitOrder' = [id \in Exits |->
                        IF id = o THEN [exitOrder[id] EXCEPT !.state = "dead"]
                        ELSE exitOrder[id]]
     /\ Save(p, [obj[p] EXCEPT !.state = "open"])
     /\ NextItem(t)
     /\ UNCHANGED <<positions, paused, ledger, booked, trades, saved, exposure,
                    entryOrder, bounds>>

\* Mutant of ExitUnknown: the unknown outcome is not saved.
UnsavedUnknown(t) ==
  /\ At(t, "exit_wait")
  /\ obj' = [obj EXCEPT ![frame[t].at].state = "state_unknown"]
  /\ NextItem(t)
  /\ UNCHANGED <<positions, paused, store, exchange, bounds>>

\* The call raised: the order may still execute.
ExitUnknown(t) ==
  LET p == frame[t].at
  IN /\ At(t, "exit_wait")
     /\ Save(p, [obj[p] EXCEPT !.state = "state_unknown"])
     /\ NextItem(t)
     /\ UNCHANGED <<positions, paused, ledger, booked, trades, saved, exchange, bounds>>

-----------------------------------------------------------------------------
(* _confirm_live_exit.                                                     *)

\* The snapshot: unavailable changes nothing, otherwise ask for the fills.
ConfirmRead(t) ==
  /\ At(t, "confirm_read")
  /\ \/ NextItem(t)
     \/ /\ Await(t, "confirm_fills")
        /\ Local(t, [frame[t] EXCEPT !.view = Success(exposure)])
  /\ UNCHANGED <<memory, store, exchange, bounds>>

\* The fills of the order id the position carries now.
ExitFilled(p) ==
  obj[p].exit_oid # None /\ exitOrder[obj[p].exit_oid].filled > 0

\* record_execution_fill: execution_fills is unique by order and fill.
Forgotten(p) == FALSE  \* mutant of Recorded: the insert never conflicts
Recorded(p) == obj[p].exit_oid \in ledger

\* record_execution_fill refuses a fill it has: nothing else happens.
DuplicateFill(t) ==
  LET p == frame[t].at
  IN /\ At(t, "confirm_fills")
     /\ ExitFilled(p)
     /\ Recorded(p)
     /\ NextItem(t)
     /\ UNCHANGED <<memory, store, exchange, bounds>>

\* Mutant of RecordFill: a failed insert is taken for a recorded fill.
UnrecordedFill(t) ==
  LET p == frame[t].at
  IN /\ At(t, "confirm_fills")
     /\ ExitFilled(p)
     /\ ~Recorded(p)
     /\ Go(t, "confirm_settle")
     /\ UNCHANGED <<frame, memory, store, exchange, bounds>>

RecordFill(t) ==
  LET p == frame[t].at
  IN /\ At(t, "confirm_fills")
     /\ ExitFilled(p)
     /\ ~Recorded(p)
     /\ ledger' = ledger \cup {obj[p].exit_oid}
     /\ Go(t, "confirm_settle")
     /\ UNCHANGED <<frame, memory, rows, booked, trades, saved, exchange, bounds>>

\* Mutant of NoMatchingFill: a flat account is settled at the mid price.
SyntheticSettlement(t) ==
  /\ At(t, "confirm_fills")
  /\ IF frame[t].view.qty > 0
     THEN NextItem(t)
     ELSE Go(t, "save_trade") /\ UNCHANGED frame
  /\ UNCHANGED <<memory, store, exchange, bounds>>

\* No matching fill: there is none, or get_recent_fills failed and returned
\* the empty list.  A flat account makes the exit unresolved.
NoMatchingFill(t) ==
  LET p == frame[t].at
  IN /\ At(t, "confirm_fills")
     /\ IF frame[t].view.qty > 0
        THEN UNCHANGED <<obj, rows>>
        ELSE Save(p, [obj[p] EXCEPT !.state = "state_unknown"])
     /\ NextItem(t)
     /\ UNCHANGED <<positions, paused, ledger, booked, trades, saved, exchange, bounds>>

\* Residual exposure, or a flat account with too small a fill: what is left is
\* the position's new quantity.
PartialExit(t) ==
  LET p == frame[t].at
      filled == exitOrder[obj[p].exit_oid].filled
      seen == frame[t].view.qty
      left == IF seen > 0 THEN seen ELSE obj[p].qty - filled
  IN /\ At(t, "confirm_settle")
     /\ seen > 0 \/ filled < obj[p].qty
     /\ Save(p, [obj[p] EXCEPT !.state = "partially_closed", !.qty = left])
     /\ NextItem(t)
     /\ UNCHANGED <<positions, paused, ledger, booked, trades, saved, exchange, bounds>>

FullExit(t) ==
  LET p == frame[t].at
  IN /\ At(t, "confirm_settle")
     /\ frame[t].view.qty = 0
     /\ exitOrder[obj[p].exit_oid].filled >= obj[p].qty
     /\ Go(t, "save_trade")
     /\ UNCHANGED <<frame, memory, store, exchange, bounds>>

-----------------------------------------------------------------------------
(* _finalize_closed_position: one statement per table, then the memory.    *)

SaveTrade(t) ==
  LET p == frame[t].at
  IN /\ At(t, "save_trade")
     /\ trades' = [trades EXCEPT ![p] = @ + 1]
     /\ booked' = [o \in Exits |->
                     IF o = obj[p].exit_oid THEN booked[o] + 1 ELSE booked[o]]
     /\ Go(t, "close_row")
     /\ UNCHANGED <<frame, memory, rows, ledger, saved, exchange, bounds>>

\* Mutant of CloseRow: the row gets the value of the legacy status column.
LegacyCloseRow(t) ==
  /\ At(t, "close_row")
  /\ rows' = [rows EXCEPT ![frame[t].at].state = "closed"]
  /\ MayAwait(t, "finish_close")
  /\ UNCHANGED <<frame, memory, ledger, booked, trades, saved, exchange, bounds>>

\* close_position_by_uid; a loss that trips the circuit breaker awaits the
\* Telegram notification before the object leaves the list.
CloseRow(t) ==
  LET p == frame[t].at
  IN /\ At(t, "close_row")
     /\ rows' = [rows EXCEPT ![p].state = "closed_confirmed"]
     /\ MayAwait(t, "finish_close")
     /\ UNCHANGED <<frame, memory, ledger, booked, trades, saved, exchange, bounds>>

FinishClose(t) ==
  LET p == frame[t].at
  IN /\ At(t, "finish_close")
     /\ obj' = [obj EXCEPT ![p].state = "closed_confirmed"]
     /\ positions' = positions \ {p}
     /\ MayAwait(t, frame[t].loop)
     /\ Local(t, [frame[t] EXCEPT !.at = None, !.view = Unavailable])
     /\ UNCHANGED <<paused, store, exchange, bounds>>

-----------------------------------------------------------------------------
(* _reconcile_positions.                                                   *)

\* get_positions answers: what the exchange holds at that moment, or nothing.
\* The task resumes later, when the loop gets to it.
ReadSnapshot(t) ==
  /\ pc[t] = "reconcile_read"
  /\ \E read \in {Unavailable, Success(exposure)} :
       Local(t, [frame[t] EXCEPT !.snapshot = read])
  /\ pc' = [pc EXCEPT ![t] = "reconcile_apply"]
  /\ UNCHANGED <<turn, memory, store, exchange, bounds>>

\* What a reconciliation may act on.
AnyRead(read) == TRUE  \* mutant of Authoritative: an outage is an empty list
Authoritative(read) == read.available

\* No snapshot: pause.  At startup the bot then shuts down.
ReconcileUnavailable(t) ==
  /\ At(t, "reconcile_apply")
  /\ ~Authoritative(frame[t].snapshot)
  /\ paused' = TRUE
  /\ IF frame[t].then = "loop"
     THEN Return(t) /\ UNCHANGED saved
     ELSE Shutdown
  /\ UNCHANGED <<positions, obj, rows, ledger, booked, trades, exchange, bounds>>

\* A snapshot: go through a copy of the list.
ReconcileBegin(t) ==
  /\ At(t, "reconcile_apply")
  /\ Authoritative(frame[t].snapshot)
  /\ positions # {} \/ frame[t].snapshot.qty = 0
  /\ Go(t, "reconcile_loop")
  /\ Local(t, [frame[t] EXCEPT !.todo = positions, !.loop = "reconcile_loop"])
  /\ UNCHANGED <<memory, store, exchange, bounds>>

\* Exposure no local position matches is taken in, without TP and SL.
RecoverUnmanaged(t) ==
  LET p == CHOOSE id \in Fresh : TRUE
      q == frame[t].snapshot.qty
  IN /\ At(t, "reconcile_apply")
     /\ Authoritative(frame[t].snapshot)
     /\ positions = {} /\ q > 0
     /\ Fresh # {}
     /\ Save(p, [state |-> "recovered_unmanaged", qty |-> q, exit_oid |-> None,
                 managed |-> FALSE])
     /\ positions' = {p}
     /\ paused' = TRUE
     /\ Return(t)
     /\ UNCHANGED <<ledger, booked, trades, saved, exchange, bounds>>

\* The exchange holds exposure in the position's direction: it becomes the
\* position's quantity and the position is open, whatever it was.
ReconcileMatched(t) ==
  /\ At(t, "reconcile_loop")
  /\ frame[t].snapshot.qty > 0
  /\ \E p \in frame[t].todo :
       /\ Save(p, [obj[p] EXCEPT !.state = "open", !.qty = frame[t].snapshot.qty])
       /\ Go(t, "reconcile_loop")
       /\ Local(t, [frame[t] EXCEPT !.todo = @ \ {p}])
  /\ UNCHANGED <<positions, paused, ledger, booked, trades, saved, exchange, bounds>>

\* The account is flat: a resting entry is kept...
KeepPendingEntry(t) ==
  /\ At(t, "reconcile_loop")
  /\ frame[t].snapshot.qty = 0
  /\ \E p \in frame[t].todo :
       /\ obj[p].state = "pending_entry"
       /\ Save(p, obj[p])
       /\ Go(t, "reconcile_loop")
       /\ Local(t, [frame[t] EXCEPT !.todo = @ \ {p}])
  /\ UNCHANGED <<positions, paused, ledger, booked, trades, saved, exchange, bounds>>

\* ... a requested exit is confirmed from its fills...
ResolveExit(t) ==
  /\ At(t, "reconcile_loop")
  /\ frame[t].snapshot.qty = 0
  /\ \E p \in frame[t].todo :
       /\ obj[p].state = "exit_requested"
       /\ Await(t, "confirm_read")
       /\ Local(t, [frame[t] EXCEPT !.todo = @ \ {p}, !.at = p])
  /\ UNCHANGED <<memory, store, exchange, bounds>>

\* ... and any other position was closed by somebody else.  list.remove of a
\* position another task has already removed raises: the loop iteration is
\* abandoned, and at startup the process.
ExternallyClosed(t) ==
  /\ At(t, "reconcile_loop")
  /\ frame[t].snapshot.qty = 0
  /\ \E p \in frame[t].todo :
       LET closed == [obj[p] EXCEPT !.state = "externally_closed"]
       IN /\ obj[p].state \notin {"pending_entry", "exit_requested"}
          /\ rows' = [rows EXCEPT ![p] = closed]
          /\ \/ /\ p \in positions
                /\ obj' = [obj EXCEPT ![p] = closed]
                /\ positions' = positions \ {p}
                /\ paused' = TRUE
                /\ Go(t, "reconcile_loop")
                /\ Local(t, [frame[t] EXCEPT !.todo = @ \ {p}])
             \/ /\ p \notin positions
                /\ frame[t].then = "loop"
                /\ obj' = [obj EXCEPT ![p] = closed]
                /\ Await(t, "loop")
                /\ Local(t, NoFrame)
                /\ UNCHANGED <<positions, paused>>
             \/ /\ p \notin positions
                /\ frame[t].then # "loop"
                /\ GoDown
  /\ UNCHANGED <<ledger, booked, trades, saved, exchange, bounds>>

ReconcileEnds(t) ==
  /\ At(t, "reconcile_loop")
  /\ frame[t].todo = {}
  /\ Return(t)
  /\ UNCHANGED <<memory, store, exchange, bounds>>

-----------------------------------------------------------------------------
(* Requests of the API, and the candle feed.                               *)

CloseAllRequest(t) ==
  /\ pc[Main] # "down"
  /\ t # Main
  /\ At(t, "idle")
  /\ Await(t, "close_price")
  /\ Local(t, [NoFrame EXCEPT !.then = "idle"])
  /\ UNCHANGED <<memory, store, exchange, bounds>>

\* place_manual_trade: no risk check stands before the entry.  It is the bot's
\* public method; the route of the shipped API fails before it gets here, on the
\* attribute Side the bot does not have (bot_api_server.py:366).
ManualTradeRequest(t) ==
  /\ pc[Main] # "down"
  /\ t # Main
  /\ At(t, "idle")
  /\ PlaceEntryOrder(t, "idle")

PauseRequest(t) ==
  /\ pc[Main] # "down"
  /\ t # Main
  /\ At(t, "idle")
  /\ paused' = ~paused
  /\ UNCHANGED <<control, positions, obj, store, exchange, bounds>>

\* _update_unrealized_pnl, at every candle: saves the open positions.
UpdateUnrealizedPnl ==
  /\ turn = None
  /\ Open # {}
  /\ rows' = [p \in Ids |-> IF p \in Open THEN obj[p] ELSE rows[p]]
  /\ UNCHANGED <<control, memory, ledger, booked, trades, saved, exchange, bounds>>

-----------------------------------------------------------------------------
(* The exchange (external): orders travel, rest, fill; others trade too.   *)

EntryArrives ==
  /\ \E p \in Ids : \E state \in {"resting", "done"} :
       /\ entryOrder[p].state = "inflight"
       /\ entryOrder' = [entryOrder EXCEPT ![p].state = state]
  /\ UNCHANGED <<control, memory, store, exposure, exitOrder, bounds>>

EntryFills ==
  /\ \E p \in Ids :
       /\ entryOrder[p].state = "resting"
       /\ \E q \in 1 .. entryOrder[p].left :
            /\ exposure' = exposure + q
            /\ entryOrder' = [entryOrder EXCEPT ![p] =
                 [state |-> IF q = entryOrder[p].left THEN "done" ELSE "resting",
                  left |-> entryOrder[p].left - q]]
  /\ UNCHANGED <<control, memory, store, exitOrder, bounds>>

\* A reduce-only IOC order executes once, for at most what there is to reduce.
ExitExecutes ==
  /\ \E o \in Exits :
       /\ exitOrder[o].state = "inflight"
       /\ \E q \in 0 .. exitOrder[o].want :
            /\ q <= exposure
            /\ exposure' = exposure - q
            /\ exitOrder' = [exitOrder EXCEPT ![o].state = "done", ![o].filled = q]
  /\ UNCHANGED <<control, memory, store, entryOrder, bounds>>

ExternalTrade ==
  /\ external < MaxExternal
  /\ external' = external + 1
  /\ exposure' \in 0 .. MaxExposure
  /\ exposure' # exposure
  /\ UNCHANGED <<control, memory, store, entryOrder, exitOrder, crashes>>

-----------------------------------------------------------------------------

Entering(t) == EntryAccepted(t) \/ EntryRejected(t) \/ EntryUnknown(t)

Closing(t) ==
  \/ ForceCloseAll(t) \/ CloseLoopEnds(t) \/ SkipPendingExit(t) \/ RequestExit(t)
  \/ ExitAccepted(t) \/ ExitRejected(t) \/ ExitUnknown(t)

Confirming(t) ==
  \/ ConfirmRead(t) \/ DuplicateFill(t) \/ RecordFill(t) \/ NoMatchingFill(t)
  \/ PartialExit(t) \/ FullExit(t)
  \/ SaveTrade(t) \/ CloseRow(t) \/ FinishClose(t)

Reconciling(t) ==
  \/ ReadSnapshot(t) \/ ReconcileUnavailable(t) \/ ReconcileBegin(t)
  \/ RecoverUnmanaged(t) \/ ReconcileMatched(t) \/ KeepPendingEntry(t)
  \/ ResolveExit(t) \/ ExternallyClosed(t) \/ ReconcileEnds(t)

MainLoop ==
  \/ Connect \/ ReconcileAgain \/ EnterLoop \/ LoopForceClose \/ PersistState
  \/ MaybeReconcile \/ CheckPositionExits \/ ProcessSignal \/ SignalEntry
  \/ CancelAllOrders \/ ExitProcess

Request(t) == CloseAllRequest(t) \/ ManualTradeRequest(t) \/ PauseRequest(t)

Exchange == EntryArrives \/ EntryFills \/ ExitExecutes \/ ExternalTrade

\* Only the main loop reconciles.
Handler(t) ==
  \/ Entering(t) \/ Closing(t) \/ Confirming(t)
  \/ t = Main /\ Reconciling(t)

Next ==
  \/ Start \/ Crash \/ MainLoop \/ UpdateUnrealizedPnl \/ Exchange
  \/ \E t \in Tasks : Handler(t)
  \/ \E t \in Requests : Request(t)

Spec == Init /\ [][Next]_vars

\* Scheduling.  The event loop runs every ready task, and every call to the
\* exchange ends (the client times out); the body of the main loop calls
\* _maybe_reconcile_positions in every iteration; a read that is tried again
\* and again succeeds again and again.  Nothing makes the exchange fill an
\* order, the operator start a bot that is down, or a request arrive.
Fairness ==
  /\ \A t \in Tasks : WF_vars(Handler(t))
  /\ WF_vars(MainLoop)
  /\ SF_vars(MaybeReconcile)
  /\ SF_vars(ReadSnapshot(Main) /\ frame'[Main].snapshot.available)
  /\ \A t \in Tasks : /\ SF_vars(ConfirmRead(t) /\ frame'[t].view.available)
                       /\ SF_vars(RecordFill(t))

LiveSpec == Spec /\ Fairness

-----------------------------------------------------------------------------
(* Properties that hold.                                                   *)

\* The settlement of an exit rests on one recorded fill and happens once:
\* record_execution_fill stands between a fill and _finalize_closed_position,
\* across crashes, restarts and the handlers that confirm the same exit.
FillBookedOnce ==
  \A o \in Exits : /\ booked[o] <= 1
                   /\ booked[o] > 0 => o \in ledger /\ exitOrder[o].filled > 0

\* A position's trades are those of its own exit orders' fills: no P&L is
\* made up when the account is flat (_confirm_live_exit:763-774), and no
\* position is paid with another one's fill.
TradesFromOwnFills ==
  \A p \in Ids :
    trades[p] = Cardinality({o \in Exits : exitOrder[o].pos = p /\ booked[o] = 1})

\* What has become of an exit order, from the exchange to the trades table.
Progress(o) ==
  CASE booked[o] > 0 -> "booked"
    [] booked[o] = 0 /\ o \in ledger -> "recorded"
    [] booked[o] = 0 /\ o \notin ledger /\ exitOrder[o].filled > 0 -> "filled"
    [] OTHER -> CASE exitOrder[o].state = "none" -> "unused"
                  [] exitOrder[o].state = "inflight" -> "sent"
                  [] OTHER -> "void"

Settlement == INSTANCE ExitSettlement WITH
  stage <- [o \in Exits |-> Progress(o)],
  owner <- [o \in Exits |-> exitOrder[o].pos],
  income <- trades

\* Over deaths, restarts, late and unknown answers and handlers that confirm the
\* same exit, _confirm_live_exit and _finalize_closed_position record a fill
\* before they book it, book it once, and book nothing else.
ImplementsSettlement == Settlement!Spec

\* What a crash now would restore is what the bot knows: the row of a listed
\* position is its object, whatever handler is at work on it, except while
\* _finalize_closed_position awaits with the row already closed.
StoreMatchesMemory ==
  \A p \in positions :
    rows[p] = obj[p] \/ \E t \in Tasks : pc[t] = "finish_close" /\ frame[t].at = p

\* The bot manages as open only what the exchange has filled: an accepted,
\* unknown or resting entry is not exposure (_place_entry_order:381-386).
OpenNeedsExposure ==
  \A p \in Ids : obj[p].state = "open" =>
    \/ external > 0
    \/ \E e \in Ids : entryOrder[e].state # "none" /\ entryOrder[e].left < Lot

\* A position that is not closed is written off only by the reconciliation of
\* an available, flat snapshot: an outage, a failed exit, a restart or a late
\* answer never closes a row.  (A row closed as confirmed may become
\* externally_closed again when two requests close the same position: see
\* ClosedStaysClosed.)
OutageIsNotFlat ==
  [][\A p \in Ids :
       rows'[p].state = "externally_closed" /\ rows[p].state \notin Terminal
       => \E t \in Tasks : /\ pc[t] = "reconcile_loop"
                           /\ frame[t].snapshot = Success(0)]_vars

\* With the main loop alone, a closed row stays closed, across restarts,
\* candle updates, late fills and every reconciliation.
ClosedStaysClosed ==
  [][\A p \in Ids :
       rows[p].state \in {"closed_confirmed", "externally_closed"}
       => rows'[p].state = rows[p].state]_vars

\* While the bot stays up, exits nobody told it about are noticed: if the
\* account stays flat, at last no position is managed as open.
FlatIsNoticed ==
  <>[](exposure = 0 /\ pc[Main] # "down") => <>[](Open = {})

\* While the bot stays up, exposure that stays is tracked: at last some local
\* position always has its quantity, the unknown and the outside ones included.
ExposureIsTracked ==
  \A q \in 1 .. MaxExposure :
    <>[](exposure = q /\ pc[Main] # "down")
    => <>[](\E p \in positions : obj[p].qty = q)

-----------------------------------------------------------------------------
(* Properties the repository states and the code does not have.            *)

\* "Check exits on managed, confirmed positions only" (trading_bot.py:278),
\* "Exchange-only exposure quarantined" (trading_bot.py:620): TP and SL never
\* close a position the bot invented no TP and SL for.
QuarantineHolds ==
  [][CheckPositionExits => \A p \in frame'[Main].todo : obj[p].managed]_vars

\* "Callers must reconcile using the stable client ID before issuing another
\* request" (connector.py:138): no exit is requested while an earlier one of
\* the position is still under way.
ReconcileBeforeReissue ==
  [][\A o \in Exits :
       exitOrder[o].state = "none" /\ exitOrder'[o].state = "inflight"
       => \A other \in Exits : /\ exitOrder[other].state = "inflight"
                               /\ exitOrder'[other].state = "inflight"
                               => exitOrder[other].pos # exitOrder'[o].pos]_vars

\* "Perform the single terminal accounting path for a confirmed exit"
\* (trading_bot.py:806): a position closed as confirmed has the fills of all
\* its exit orders in its trades.
ClosedIsFullyBooked ==
  \A p \in Ids : rows[p].state = "closed_confirmed" =>
    \A o \in Exits : exitOrder[o].pos = p /\ exitOrder[o].filled > 0 => booked[o] = 1

\* "Resolve the known exit intent from fills before deciding whether the
\* account is flat" (trading_bot.py:558): while the bot stays up, a requested
\* exit does not stay requested for ever.
ExitIntentIsResolved ==
  <>[](pc[Main] # "down") =>
    \A p \in Ids : []<>(obj[p].state # "exit_requested")
=============================================================================
