---------------------- MODULE ExecutionLifecycle_proofs ----------------------
(***************************************************************************)
(* Theorems about ExecutionLifecycle, for every number of positions, exit  *)
(* orders, concurrent requests, crashes and outside trades.                *)
(*                                                                         *)
(* The inductive invariant IInv has three layers.  TypeOK needs to know    *)
(* that a handler at work on a position has one in hand (AtInv) and that   *)
(* a fill being settled was recorded (SettleInv).  ControlInv says what an *)
(* await is: a task between _confirm_live_exit's insert and the next await *)
(* of _finalize_closed_position keeps the turn, so nobody else moves its   *)
(* position.  SettleInv and LedgerInv follow one fill from the exchange    *)
(* through execution_fills to the trades table.                            *)
(*                                                                         *)
(* BookInv rests on IInv and follows a position: what a handler in an      *)
(* await has in hand (HandInv, OrderInv, EntryInv), what a loop works on   *)
(* (LoopInv), what a written-off object and the trades of a position stand *)
(* for (WrittenOffInv, TradesInv), and where the bot learns of exposure    *)
(* (EvidenceInv).  AloneInv holds when no API request is in progress.      *)
(*                                                                         *)
(* The refinement of ExitSettlement needs both: LedgerInv to tell the      *)
(* stages of an order apart, OrderInv for whose money is booked.           *)
(***************************************************************************)
EXTENDS ExecutionLifecycle, FiniteSetTheorems, TLAPS

\* Stages in which a task has a position in hand.
Working == {"entry_wait", "exit_wait", "confirm_read", "confirm_fills",
            "confirm_settle", "save_trade", "close_row", "finish_close"}

\* Stages between two awaits: nobody else may step.
Atomic == {"confirm_settle", "save_trade", "close_row"}

AtInv == \A t \in Tasks : pc[t] \in Working => frame[t].at \in Ids
TurnInv == \A t \in Tasks : pc[t] \in Atomic => turn = t
DownInv == pc[Main] = "down" => turn = None /\ \A t \in Requests : pc[t] = "idle"
ControlInv == AtInv /\ TurnInv /\ DownInv

\* A fill under settlement is in the ledger and not yet in the trades.
SettleInv ==
  \A t \in Tasks : pc[t] \in {"confirm_settle", "save_trade"} =>
    /\ obj[frame[t].at].exit_oid \in ledger
    /\ booked[obj[frame[t].at].exit_oid] = 0

\* An order in the ledger has executed, and it executes no more.
LedgerInv ==
  \A o \in Exits : /\ booked[o] <= 1 /\ (booked[o] > 0 => o \in ledger)
                   /\ o \in ledger => exitOrder[o].filled > 0
                   /\ exitOrder[o].filled > 0 => exitOrder[o].state = "done"

IInv == TypeOK /\ ControlInv /\ SettleInv /\ LedgerInv /\ StoreMatchesMemory

-----------------------------------------------------------------------------
(* Types: the helpers.                                                     *)

LEMMA SnapshotType ==
  /\ Unavailable \in Snapshots
  /\ \A q \in Nat : Success(q) \in Snapshots
BY DEF Unavailable, Success, Snapshots

LEMMA NoFrameType == NoFrame \in FrameType
BY SnapshotType DEF NoFrame, FrameType

LEMMA MoveType ==
  ASSUME ControlOK, NEW t \in Tasks, NEW stage \in Stages,
         Await(t, stage) \/ Go(t, stage) \/ MayAwait(t, stage)
  PROVE  turn' \in Tasks \cup {None} /\ pc' \in [Tasks -> Stages]
BY DEF ControlOK, Await, Go, MayAwait

LEMMA LocalType ==
  ASSUME ControlOK, NEW t \in Tasks, NEW f \in FrameType, Local(t, f)
  PROVE  frame' \in [Tasks -> FrameType]
BY DEF ControlOK, Local

LEMMA FrameFields ==
  ASSUME ControlOK, NEW t \in Tasks
  PROVE  /\ frame[t] \in FrameType
         /\ frame[t].at \in Ids \cup {None} /\ frame[t].order \in Exits \cup {None}
         /\ frame[t].snapshot \in Snapshots /\ frame[t].view \in Snapshots
         /\ frame[t].snapshot.qty \in Nat /\ frame[t].view.qty \in Nat
         /\ frame[t].todo \subseteq Ids
         /\ frame[t].loop \in Stages /\ frame[t].then \in Stages
<1>1. frame[t] \in FrameType
  BY DEF ControlOK
<1> QED
  BY <1>1 DEF FrameType, Snapshots, Stages

LEMMA ReturnType ==
  ASSUME ControlOK, NEW t \in Tasks, Return(t)
  PROVE  ControlOK'
<1>1. turn' \in Tasks \cup {None} /\ pc' \in [Tasks -> Stages]
  BY MoveType, FrameFields DEF Return
<1> QED
  BY <1>1, LocalType, NoFrameType DEF Return, ControlOK

LEMMA NextItemType ==
  ASSUME ControlOK, NEW t \in Tasks, NextItem(t)
  PROVE  ControlOK'
<1>1. turn' \in Tasks \cup {None} /\ pc' \in [Tasks -> Stages]
  BY MoveType, FrameFields DEF NextItem
<1>2. [frame[t] EXCEPT !.at = None, !.order = None, !.view = Unavailable] \in FrameType
  BY FrameFields, SnapshotType DEF FrameType
<1> QED
  BY <1>1, <1>2, LocalType DEF NextItem, ControlOK

LEMMA ShutdownType ==
  ASSUME ControlOK, Shutdown
  PROVE  ControlOK' /\ saved' \in BOOLEAN
<1>1. turn' \in Tasks \cup {None} /\ pc' \in [Tasks -> Stages]
  BY MoveType DEF Shutdown, Tasks, Stages
<1>2. [NoFrame EXCEPT !.then = "cancel_orders"] \in FrameType
  BY NoFrameType DEF FrameType
<1> QED
  BY <1>1, <1>2, LocalType DEF Shutdown, ControlOK, Tasks

LEMMA NoPositionType == NoPosition \in PositionType
BY DEF NoPosition, PositionType, States

LEMMA GoDownType ==
  ASSUME GoDown
  PROVE  ControlOK' /\ MemoryOK'
BY NoFrameType, NoPositionType DEF GoDown, ControlOK, MemoryOK, Stages

LEMMA SaveType ==
  ASSUME MemoryOK, StoreOK, NEW p \in Ids, NEW r \in PositionType, Save(p, r)
  PROVE  obj' \in [Ids -> PositionType] /\ rows' \in [Ids -> PositionType]
BY DEF Save, MemoryOK, StoreOK

LEMMA PlaceEntryType ==
  ASSUME TypeOK, NEW t \in Tasks, NEW next \in {"idle", "loop"}, PlaceEntryOrder(t, next)
  PROVE  TypeOK'
<1> DEFINE p == CHOOSE id \in Fresh : TRUE
           r == [state |-> "pending_entry", qty |-> Lot, exit_oid |-> None, managed |-> TRUE]
<1>1. p \in Ids
  BY DEF PlaceEntryOrder, CanEnter, Fresh
<1>2. r \in PositionType /\ [state |-> "inflight", left |-> Lot] \in EntryOrders
  BY LotAssumption DEF PositionType, States, EntryOrders
<1>3. Save(p, r)
  BY DEF PlaceEntryOrder
<1>4. obj' \in [Ids -> PositionType] /\ rows' \in [Ids -> PositionType]
  BY <1>1, <1>2, <1>3, SaveType DEF TypeOK
<1>5. [NoFrame EXCEPT !.at = p, !.then = next] \in FrameType
  BY <1>1, NoFrameType DEF FrameType
<1>6. ControlOK'
  BY <1>5, LocalType, MoveType DEF PlaceEntryOrder, TypeOK, ControlOK, Stages
<1>7. ExchangeOK'
  BY <1>1, <1>2 DEF PlaceEntryOrder, TypeOK, ExchangeOK
<1> QED
  BY <1>4, <1>6, <1>7 DEF PlaceEntryOrder, TypeOK, MemoryOK, StoreOK, bounds

-----------------------------------------------------------------------------
(* Types: the actions.                                                     *)

LEMMA UnchangedType ==
  /\ ControlOK /\ UNCHANGED control => ControlOK'
  /\ MemoryOK /\ UNCHANGED memory => MemoryOK'
  /\ StoreOK /\ UNCHANGED store => StoreOK'
  /\ ExchangeOK /\ UNCHANGED exchange => ExchangeOK'
BY DEF ControlOK, MemoryOK, StoreOK, ExchangeOK, control, memory, store, exchange

LEMMA ObjFields ==
  ASSUME MemoryOK, NEW p \in Ids
  PROVE  /\ obj[p] \in PositionType /\ obj[p].qty \in Nat
         /\ obj[p].exit_oid \in Exits \cup {None}
         /\ \A s \in States : [obj[p] EXCEPT !.state = s] \in PositionType
         /\ \A o \in Exits \cup {None} : [obj[p] EXCEPT !.exit_oid = o] \in PositionType
         /\ \A s \in States : \A q \in Nat :
              [obj[p] EXCEPT !.state = s, !.qty = q] \in PositionType
<1>1. obj[p] \in PositionType
  BY DEF MemoryOK
<1> QED
  BY <1>1 DEF PositionType

LEMMA ThenType ==
  \A s \in {"idle", "reconcile_again", "enter_loop", "loop", "cancel_orders"} :
    [NoFrame EXCEPT !.then = s] \in FrameType
BY NoFrameType DEF FrameType

LEMMA TodoType ==
  ASSUME ControlOK, NEW t \in Tasks, NEW p \in Ids, NEW o \in Exits \cup {None}
  PROVE  /\ \A S \in SUBSET Ids : [frame[t] EXCEPT !.todo = S] \in FrameType
         /\ [frame[t] EXCEPT !.todo = @ \ {p}] \in FrameType
         /\ [frame[t] EXCEPT !.todo = @ \ {p}, !.at = p] \in FrameType
         /\ [frame[t] EXCEPT !.todo = @ \ {p}, !.at = p, !.order = o] \in FrameType
BY FrameFields DEF FrameType

LEMMA LoopType ==
  ASSUME TypeOK, Start \/ Crash \/ MainLoop \/ UpdateUnrealizedPnl
  PROVE  TypeOK'
<1> Main \in Tasks /\ {"idle", "loop"} \subseteq Stages
  BY DEF Tasks, Stages
<1>1. CASE Start
  <2>1. ControlOK'
    BY <1>1, MoveType DEF Start, TypeOK, ControlOK, Stages
  <2>2. MemoryOK'
    BY <1>1, NoPositionType DEF Start, TypeOK, MemoryOK, StoreOK
  <2> QED
    BY <1>1, <2>1, <2>2, UnchangedType DEF Start, TypeOK, bounds
<1>2. CASE Crash
  BY <1>2, GoDownType, UnchangedType DEF Crash, TypeOK
<1>3. CASE Connect
  <2>1. ControlOK' /\ saved' \in BOOLEAN
    <3>1. CASE Shutdown
      BY <3>1, ShutdownType DEF TypeOK
    <3>2. CASE ~Shutdown
      BY <1>3, <3>2, MoveType, LocalType, ThenType
      DEF Connect, TypeOK, ControlOK, StoreOK, Stages
    <3> QED
      BY <3>1, <3>2
  <2> QED
    BY <1>3, <2>1, UnchangedType DEF Connect, TypeOK, StoreOK, bounds
<1>4. CASE ReconcileAgain
  BY <1>4, MoveType, LocalType, ThenType, UnchangedType
  DEF ReconcileAgain, TypeOK, ControlOK, Stages, bounds
<1>5. CASE EnterLoop
  BY <1>5, MoveType, UnchangedType DEF EnterLoop, TypeOK, ControlOK, bounds
<1>6. CASE LoopForceClose
  <2>1. ControlOK' /\ saved' \in BOOLEAN
    <3>1. CASE Shutdown
      BY <3>1, ShutdownType DEF TypeOK
    <3>2. CASE ~Shutdown
      BY <1>6, <3>2, MoveType, LocalType, ThenType
      DEF LoopForceClose, TypeOK, ControlOK, StoreOK, Stages
    <3> QED
      BY <3>1, <3>2
  <2> QED
    BY <1>6, <2>1, UnchangedType DEF LoopForceClose, TypeOK, StoreOK, bounds
<1>7. CASE PersistState
  BY <1>7, UnchangedType DEF PersistState, TypeOK, StoreOK, bounds
<1>8. CASE MaybeReconcile
  BY <1>8, MoveType, LocalType, ThenType, UnchangedType
  DEF MaybeReconcile, TypeOK, ControlOK, Stages, bounds
<1>9. CASE CheckPositionExits
  <2>1. PICK crossed \in (SUBSET Open) \ {{}} :
          /\ Go(Main, "close_loop")
          /\ Local(Main, [NoFrame EXCEPT !.todo = crossed, !.loop = "close_loop",
                                         !.then = "loop"])
    BY <1>9 DEF CheckPositionExits
  <2>2. crossed \subseteq Ids
    BY DEF Open, TypeOK, MemoryOK
  <2>3. [NoFrame EXCEPT !.todo = crossed, !.loop = "close_loop", !.then = "loop"]
          \in FrameType
    BY <2>2, NoFrameType DEF FrameType
  <2>4. ControlOK'
    BY <2>1, <2>3, MoveType, LocalType DEF TypeOK, ControlOK, Stages
  <2> QED
    BY <1>9, <2>4, UnchangedType DEF CheckPositionExits, TypeOK, bounds
<1>10. CASE ProcessSignal
  BY <1>10, MoveType, UnchangedType DEF ProcessSignal, TypeOK, ControlOK, Stages, bounds
<1>11. CASE SignalEntry
  <2>1. CASE PlaceEntryOrder(Main, "loop")
    BY <2>1, PlaceEntryType
  <2>2. CASE ~PlaceEntryOrder(Main, "loop")
    BY <1>11, <2>2, MoveType, UnchangedType DEF SignalEntry, TypeOK, ControlOK, bounds
  <2> QED
    BY <2>1, <2>2
<1>12. CASE CancelAllOrders
  <2>1. entryOrder' \in [Ids -> EntryOrders]
    BY <1>12 DEF CancelAllOrders, TypeOK, ExchangeOK, EntryOrders
  <2>2. ControlOK'
    BY <1>12, MoveType DEF CancelAllOrders, TypeOK, ControlOK, Stages
  <2> QED
    BY <1>12, <2>1, <2>2, UnchangedType DEF CancelAllOrders, TypeOK, ExchangeOK, bounds
<1>13. CASE ExitProcess
  BY <1>13, GoDownType, UnchangedType DEF ExitProcess, TypeOK, bounds
<1>14. CASE UpdateUnrealizedPnl
  BY <1>14, UnchangedType DEF UpdateUnrealizedPnl, TypeOK, MemoryOK, StoreOK, bounds
<1> QED
  BY <1>1, <1>2, <1>3, <1>4, <1>5, <1>6, <1>7, <1>8, <1>9, <1>10, <1>11, <1>12,
     <1>13, <1>14 DEF MainLoop

LEMMA RequestType ==
  ASSUME TypeOK, NEW t \in Requests, Request(t)
  PROVE  TypeOK'
<1> t \in Tasks
  BY DEF Tasks
<1>1. CASE CloseAllRequest(t)
  BY <1>1, MoveType, LocalType, ThenType, UnchangedType
  DEF CloseAllRequest, TypeOK, ControlOK, Stages, bounds
<1>2. CASE ManualTradeRequest(t)
  BY <1>2, PlaceEntryType DEF ManualTradeRequest
<1>3. CASE PauseRequest(t)
  BY <1>3, UnchangedType DEF PauseRequest, TypeOK, MemoryOK, bounds
<1> QED
  BY <1>1, <1>2, <1>3 DEF Request

LEMMA ExchangeType ==
  ASSUME TypeOK, Exchange
  PROVE  TypeOK'
<1>1. CASE EntryArrives
  <2>1. entryOrder' \in [Ids -> EntryOrders]
    BY <1>1 DEF EntryArrives, TypeOK, ExchangeOK, EntryOrders
  <2> QED
    BY <1>1, <2>1, UnchangedType DEF EntryArrives, TypeOK, ExchangeOK, bounds
<1>2. CASE EntryFills
  <2>1. PICK p \in Ids : \E q \in 1 .. entryOrder[p].left :
          /\ exposure' = exposure + q
          /\ entryOrder' = [entryOrder EXCEPT ![p] =
               [state |-> IF q = entryOrder[p].left THEN "done" ELSE "resting",
                left |-> entryOrder[p].left - q]]
    BY <1>2 DEF EntryFills
  <2>2. PICK q \in 1 .. entryOrder[p].left :
          /\ exposure' = exposure + q
          /\ entryOrder' = [entryOrder EXCEPT ![p] =
               [state |-> IF q = entryOrder[p].left THEN "done" ELSE "resting",
                left |-> entryOrder[p].left - q]]
    BY <2>1
  <2>3. entryOrder[p].left \in Nat
    BY DEF TypeOK, ExchangeOK, EntryOrders
  <2>4. [state |-> IF q = entryOrder[p].left THEN "done" ELSE "resting",
         left |-> entryOrder[p].left - q] \in EntryOrders
    BY <2>3 DEF EntryOrders
  <2>5. ExchangeOK'
    BY <1>2, <2>2, <2>3, <2>4 DEF EntryFills, TypeOK, ExchangeOK
  <2> QED
    BY <1>2, <2>5, UnchangedType DEF EntryFills, TypeOK, bounds
<1>3. CASE ExitExecutes
  <2>1. PICK o \in Exits : \E q \in 0 .. exitOrder[o].want :
          /\ q <= exposure
          /\ exposure' = exposure - q
          /\ exitOrder' = [exitOrder EXCEPT ![o].state = "done", ![o].filled = q]
    BY <1>3 DEF ExitExecutes
  <2>2. PICK q \in 0 .. exitOrder[o].want :
          /\ q <= exposure
          /\ exposure' = exposure - q
          /\ exitOrder' = [exitOrder EXCEPT ![o].state = "done", ![o].filled = q]
    BY <2>1
  <2>3. exitOrder[o] \in ExitOrders /\ exitOrder[o].want \in Nat /\ q \in Nat
    BY DEF TypeOK, ExchangeOK, ExitOrders
  <2>4. exitOrder' \in [Exits -> ExitOrders]
    BY <2>2, <2>3 DEF TypeOK, ExchangeOK, ExitOrders
  <2>5. exposure' \in Nat
    BY <2>2, <2>3 DEF TypeOK, ExchangeOK
  <2> QED
    BY <1>3, <2>4, <2>5, UnchangedType DEF ExitExecutes, TypeOK, ExchangeOK, bounds
<1>4. CASE ExternalTrade
  BY <1>4, BoundAssumption, UnchangedType DEF ExternalTrade, TypeOK, ExchangeOK
<1> QED
  BY <1>1, <1>2, <1>3, <1>4 DEF Exchange

LEMMA EnteringType ==
  ASSUME TypeOK, AtInv, NEW t \in Tasks, Entering(t)
  PROVE  TypeOK'
<1> DEFINE p == frame[t].at
<1>0. p \in Ids /\ ControlOK'
  BY ReturnType DEF Entering, EntryAccepted, EntryRejected, EntryUnknown, At, AtInv,
                    Working, TypeOK
<1>1. CASE EntryAccepted(t)
  <2>1. obj' \in [Ids -> PositionType] /\ rows' \in [Ids -> PositionType]
    BY <1>0, <1>1, ObjFields, SaveType DEF EntryAccepted, TypeOK
  <2> QED
    BY <1>0, <1>1, <2>1, UnchangedType
    DEF EntryAccepted, TypeOK, MemoryOK, StoreOK, bounds
<1>2. CASE EntryRejected(t)
  <2>1. obj' \in [Ids -> PositionType] /\ rows' \in [Ids -> PositionType]
    BY <1>0, <1>2, ObjFields, SaveType DEF EntryRejected, TypeOK, States
  <2>2. ExchangeOK'
    BY <1>0, <1>2 DEF EntryRejected, TypeOK, ExchangeOK, EntryOrders
  <2> QED
    BY <1>0, <1>2, <2>1, <2>2 DEF EntryRejected, TypeOK, MemoryOK, StoreOK, bounds
<1>3. CASE EntryUnknown(t)
  <2>1. obj' \in [Ids -> PositionType] /\ rows' \in [Ids -> PositionType]
    BY <1>0, <1>3, ObjFields, SaveType DEF EntryUnknown, TypeOK, States
  <2> QED
    BY <1>0, <1>3, <2>1, UnchangedType
    DEF EntryUnknown, TypeOK, MemoryOK, StoreOK, bounds
<1> QED
  BY <1>1, <1>2, <1>3 DEF Entering

LEMMA ClosingType ==
  ASSUME TypeOK, AtInv, NEW t \in Tasks, Closing(t)
  PROVE  TypeOK'
<1>1. CASE ForceCloseAll(t)
  <2>1. [frame[t] EXCEPT !.todo = Open, !.loop = "close_loop"] \in FrameType
    BY FrameFields DEF FrameType, Open, TypeOK, MemoryOK
  <2>2. ControlOK'
    BY <1>1, <2>1, ReturnType, MoveType, LocalType
    DEF ForceCloseAll, TypeOK, ControlOK, Stages
  <2> QED
    BY <1>1, <2>2, UnchangedType DEF ForceCloseAll, TypeOK, bounds
<1>2. CASE CloseLoopEnds(t)
  BY <1>2, ReturnType, UnchangedType DEF CloseLoopEnds, TypeOK, bounds
<1>3. CASE SkipPendingExit(t)
  <2>1. ControlOK'
    BY <1>3, FrameFields, TodoType, MoveType, LocalType
    DEF SkipPendingExit, TypeOK, ControlOK, Stages
  <2> QED
    BY <1>3, <2>1, UnchangedType DEF SkipPendingExit, TypeOK, bounds
<1>4. CASE RequestExit(t)
  <2> DEFINE o == IF FreshExits = {} THEN None ELSE CHOOSE id \in FreshExits : TRUE
  <2>1. PICK p \in frame[t].todo :
          /\ Save(p, [obj[p] EXCEPT !.state = "exit_requested"])
          /\ exitOrder' =
               [id \in Exits |->
                  IF id = o THEN [pos |-> p, want |-> obj[p].qty,
                                  state |-> "inflight", filled |-> 0]
                  ELSE exitOrder[id]]
          /\ Await(t, "exit_wait")
          /\ Local(t, [frame[t] EXCEPT !.todo = @ \ {p}, !.at = p, !.order = o])
    BY <1>4 DEF RequestExit
  <2>2. p \in Ids /\ o \in Exits \cup {None}
    BY <2>1, FrameFields DEF TypeOK, FreshExits
  <2>3. obj' \in [Ids -> PositionType] /\ rows' \in [Ids -> PositionType]
    BY <2>1, <2>2, ObjFields, SaveType DEF TypeOK, States
  <2>4. [pos |-> p, want |-> obj[p].qty, state |-> "inflight", filled |-> 0] \in ExitOrders
    BY <2>2, ObjFields DEF ExitOrders, TypeOK
  <2>5. exitOrder' \in [Exits -> ExitOrders]
    BY <2>1, <2>4 DEF TypeOK, ExchangeOK
  <2>6. ControlOK'
    BY <2>1, <2>2, TodoType, MoveType, LocalType DEF TypeOK, ControlOK, Stages
  <2> QED
    BY <1>4, <2>3, <2>5, <2>6
    DEF RequestExit, TypeOK, MemoryOK, StoreOK, ExchangeOK, bounds
<1>5. CASE ExitAccepted(t)
  <2>1. frame[t].at \in Ids
    BY <1>5 DEF ExitAccepted, At, AtInv, Working
  <2>2. obj' \in [Ids -> PositionType] /\ rows' \in [Ids -> PositionType]
    BY <1>5, <2>1, FrameFields, ObjFields, SaveType DEF ExitAccepted, TypeOK
  <2>3. [frame[t] EXCEPT !.order = None] \in FrameType
    BY FrameFields DEF FrameType, TypeOK
  <2>4. ControlOK'
    BY <1>5, <2>3, MoveType, LocalType DEF ExitAccepted, TypeOK, ControlOK, Stages
  <2> QED
    BY <1>5, <2>2, <2>4, UnchangedType
    DEF ExitAccepted, TypeOK, MemoryOK, StoreOK, bounds
<1>6. CASE ExitRejected(t)
  <2>1. frame[t].at \in Ids
    BY <1>6 DEF ExitRejected, At, AtInv, Working
  <2>2. obj' \in [Ids -> PositionType] /\ rows' \in [Ids -> PositionType]
    BY <1>6, <2>1, ObjFields, SaveType DEF ExitRejected, TypeOK, States
  <2>3. ExchangeOK'
    BY <1>6 DEF ExitRejected, TypeOK, ExchangeOK, ExitOrders
  <2> QED
    BY <1>6, <2>2, <2>3, NextItemType
    DEF ExitRejected, TypeOK, MemoryOK, StoreOK, bounds
<1>7. CASE ExitUnknown(t)
  <2>1. frame[t].at \in Ids
    BY <1>7 DEF ExitUnknown, At, AtInv, Working
  <2>2. obj' \in [Ids -> PositionType] /\ rows' \in [Ids -> PositionType]
    BY <1>7, <2>1, ObjFields, SaveType DEF ExitUnknown, TypeOK, States
  <2> QED
    BY <1>7, <2>2, NextItemType, UnchangedType
    DEF ExitUnknown, TypeOK, MemoryOK, StoreOK, bounds
<1> QED
  BY <1>1, <1>2, <1>3, <1>4, <1>5, <1>6, <1>7 DEF Closing

LEMMA ConfirmingType ==
  ASSUME TypeOK, AtInv, SettleInv, NEW t \in Tasks, Confirming(t)
  PROVE  TypeOK'
<1> DEFINE p == frame[t].at
<1>0. p \in Ids
  BY DEF Confirming, ConfirmRead, DuplicateFill, RecordFill, NoMatchingFill, PartialExit,
         FullExit, SaveTrade, CloseRow, FinishClose, At, AtInv, Working
<1>1. CASE ConfirmRead(t)
  <2>1. [frame[t] EXCEPT !.view = Success(exposure)] \in FrameType
    BY FrameFields, SnapshotType DEF FrameType, TypeOK, ExchangeOK
  <2>2. ControlOK'
    BY <1>1, <2>1, NextItemType, MoveType, LocalType
    DEF ConfirmRead, TypeOK, ControlOK, Stages
  <2> QED
    BY <1>1, <2>2, UnchangedType DEF ConfirmRead, TypeOK, bounds
<1>2. CASE DuplicateFill(t)
  BY <1>2, NextItemType, UnchangedType DEF DuplicateFill, TypeOK, bounds
<1>3. CASE RecordFill(t)
  <2>1. ledger' \subseteq Exits
    BY <1>0, <1>3, ObjFields DEF RecordFill, ExitFilled, TypeOK, StoreOK
  <2>2. ControlOK'
    BY <1>3, MoveType DEF RecordFill, TypeOK, ControlOK, Stages
  <2> QED
    BY <1>3, <2>1, <2>2, UnchangedType DEF RecordFill, TypeOK, StoreOK, bounds
<1>4. CASE NoMatchingFill(t)
  <2>1. obj' \in [Ids -> PositionType] /\ rows' \in [Ids -> PositionType]
    BY <1>0, <1>4, ObjFields, SaveType
    DEF NoMatchingFill, TypeOK, MemoryOK, StoreOK, States
  <2> QED
    BY <1>4, <2>1, NextItemType, UnchangedType
    DEF NoMatchingFill, TypeOK, MemoryOK, StoreOK, bounds
<1>5. CASE PartialExit(t)
  <2> DEFINE filled == exitOrder[obj[p].exit_oid].filled
             left == IF frame[t].view.qty > 0 THEN frame[t].view.qty
                     ELSE obj[p].qty - filled
  <2>1. obj[p].exit_oid \in Exits
    BY <1>5 DEF PartialExit, At, SettleInv, TypeOK, StoreOK
  <2>2. filled \in Nat
    BY <2>1 DEF TypeOK, ExchangeOK, ExitOrders
  <2>3. left \in Nat
    <3>1. obj[p].qty \in Nat /\ frame[t].view.qty \in Nat
      BY <1>0, FrameFields, ObjFields DEF TypeOK
    <3>2. frame[t].view.qty > 0 \/ filled < obj[p].qty
      BY <1>5 DEF PartialExit
    <3> QED
      BY <2>2, <3>1, <3>2
  <2>4. obj' \in [Ids -> PositionType] /\ rows' \in [Ids -> PositionType]
    BY <1>0, <1>5, <2>3, ObjFields, SaveType DEF PartialExit, TypeOK, States
  <2> QED
    BY <1>5, <2>4, NextItemType, UnchangedType
    DEF PartialExit, TypeOK, MemoryOK, StoreOK, bounds
<1>6. CASE FullExit(t)
  BY <1>6, MoveType, UnchangedType DEF FullExit, TypeOK, ControlOK, Stages, bounds
<1>7. CASE SaveTrade(t)
  <2>1. booked' \in [Exits -> Nat] /\ trades' \in [Ids -> Nat]
    BY <1>0, <1>7 DEF SaveTrade, TypeOK, StoreOK
  <2>2. ControlOK'
    BY <1>7, MoveType DEF SaveTrade, TypeOK, ControlOK, Stages
  <2> QED
    BY <1>7, <2>1, <2>2, UnchangedType DEF SaveTrade, TypeOK, StoreOK, bounds
<1>8. CASE CloseRow(t)
  <2>1. rows' \in [Ids -> PositionType]
    BY <1>0, <1>8 DEF CloseRow, TypeOK, StoreOK, PositionType, States
  <2>2. ControlOK'
    BY <1>8, MoveType DEF CloseRow, TypeOK, ControlOK, Stages
  <2> QED
    BY <1>8, <2>1, <2>2, UnchangedType DEF CloseRow, TypeOK, StoreOK, bounds
<1>9. CASE FinishClose(t)
  <2>1. MemoryOK'
    <3>1. [obj[p] EXCEPT !.state = "closed_confirmed"] \in PositionType
      BY <1>0, ObjFields DEF TypeOK, States
    <3>2. obj' = [obj EXCEPT ![p] = [obj[p] EXCEPT !.state = "closed_confirmed"]]
      BY <1>9 DEF FinishClose
    <3> QED
      BY <1>9, <3>1, <3>2 DEF FinishClose, TypeOK, MemoryOK
  <2>2. [frame[t] EXCEPT !.at = None, !.view = Unavailable] \in FrameType
    BY FrameFields, SnapshotType DEF FrameType, TypeOK
  <2>3. ControlOK'
    BY <1>9, <2>2, FrameFields, MoveType, LocalType DEF FinishClose, TypeOK, ControlOK
  <2> QED
    BY <1>9, <2>1, <2>3, UnchangedType DEF FinishClose, TypeOK, bounds
<1> QED
  BY <1>1, <1>2, <1>3, <1>4, <1>5, <1>6, <1>7, <1>8, <1>9 DEF Confirming

LEMMA ReconcilingType ==
  ASSUME TypeOK, NEW t \in Tasks, Reconciling(t)
  PROVE  TypeOK'
<1> frame[t].snapshot.qty \in Nat
  BY FrameFields DEF TypeOK
<1>1. CASE ReadSnapshot(t)
  <2>1. \A read \in {Unavailable, Success(exposure)} :
          [frame[t] EXCEPT !.snapshot = read] \in FrameType
    BY FrameFields, SnapshotType DEF FrameType, TypeOK, ExchangeOK
  <2>2. ControlOK'
    BY <1>1, <2>1, LocalType DEF ReadSnapshot, TypeOK, ControlOK, Stages
  <2> QED
    BY <1>1, <2>2, UnchangedType DEF ReadSnapshot, TypeOK, bounds
<1>2. CASE ReconcileUnavailable(t)
  <2>1. ControlOK' /\ saved' \in BOOLEAN
    BY <1>2, ReturnType, ShutdownType DEF ReconcileUnavailable, TypeOK, StoreOK
  <2> QED
    BY <1>2, <2>1, UnchangedType
    DEF ReconcileUnavailable, TypeOK, MemoryOK, StoreOK, bounds
<1>3. CASE ReconcileBegin(t)
  <2>1. [frame[t] EXCEPT !.todo = positions, !.loop = "reconcile_loop"] \in FrameType
    BY FrameFields DEF FrameType, TypeOK, MemoryOK
  <2>2. ControlOK'
    BY <1>3, <2>1, MoveType, LocalType DEF ReconcileBegin, TypeOK, ControlOK, Stages
  <2> QED
    BY <1>3, <2>2, UnchangedType DEF ReconcileBegin, TypeOK, bounds
<1>4. CASE RecoverUnmanaged(t)
  <2> DEFINE p == CHOOSE id \in Fresh : TRUE
             r == [state |-> "recovered_unmanaged", qty |-> frame[t].snapshot.qty,
                   exit_oid |-> None, managed |-> FALSE]
  <2>1. p \in Ids /\ Save(p, r) /\ positions' = {p}
    BY <1>4 DEF RecoverUnmanaged, Fresh
  <2>2. r \in PositionType
    BY DEF PositionType, States
  <2>3. obj' \in [Ids -> PositionType] /\ rows' \in [Ids -> PositionType]
    BY <2>1, <2>2, SaveType DEF TypeOK
  <2> QED
    BY <1>4, <2>1, <2>3, ReturnType, UnchangedType
    DEF RecoverUnmanaged, TypeOK, MemoryOK, StoreOK, bounds
<1>5. CASE ReconcileMatched(t)
  <2>1. PICK p \in frame[t].todo :
          /\ Save(p, [obj[p] EXCEPT !.state = "open", !.qty = frame[t].snapshot.qty])
          /\ Go(t, "reconcile_loop")
          /\ Local(t, [frame[t] EXCEPT !.todo = @ \ {p}])
    BY <1>5 DEF ReconcileMatched
  <2>2. p \in Ids
    BY FrameFields DEF TypeOK
  <2>3. obj' \in [Ids -> PositionType] /\ rows' \in [Ids -> PositionType]
    BY <2>1, <2>2, ObjFields, SaveType DEF TypeOK, States
  <2>4. ControlOK'
    BY <2>1, <2>2, TodoType, MoveType, LocalType DEF TypeOK, ControlOK, Stages
  <2> QED
    BY <1>5, <2>3, <2>4, UnchangedType
    DEF ReconcileMatched, TypeOK, MemoryOK, StoreOK, bounds
<1>6. CASE KeepPendingEntry(t)
  <2>1. PICK p \in frame[t].todo :
          /\ Save(p, obj[p])
          /\ Go(t, "reconcile_loop")
          /\ Local(t, [frame[t] EXCEPT !.todo = @ \ {p}])
    BY <1>6 DEF KeepPendingEntry
  <2>2. p \in Ids
    BY FrameFields DEF TypeOK
  <2>3. obj' \in [Ids -> PositionType] /\ rows' \in [Ids -> PositionType]
    BY <2>1, <2>2, ObjFields, SaveType DEF TypeOK
  <2>4. ControlOK'
    BY <2>1, <2>2, TodoType, MoveType, LocalType DEF TypeOK, ControlOK, Stages
  <2> QED
    BY <1>6, <2>3, <2>4, UnchangedType
    DEF KeepPendingEntry, TypeOK, MemoryOK, StoreOK, bounds
<1>7. CASE ResolveExit(t)
  <2>1. PICK p \in frame[t].todo :
          /\ Await(t, "confirm_read")
          /\ Local(t, [frame[t] EXCEPT !.todo = @ \ {p}, !.at = p])
    BY <1>7 DEF ResolveExit
  <2>2. p \in Ids
    BY FrameFields DEF TypeOK
  <2>3. ControlOK'
    BY <2>1, <2>2, TodoType, MoveType, LocalType DEF TypeOK, ControlOK, Stages
  <2> QED
    BY <1>7, <2>3, UnchangedType DEF ResolveExit, TypeOK, bounds
<1>8. CASE ExternallyClosed(t)
  <2>1. PICK p \in frame[t].todo :
          LET closed == [obj[p] EXCEPT !.state = "externally_closed"]
          IN /\ rows' = [rows EXCEPT ![p] = closed]
             /\ \/ /\ obj' = [obj EXCEPT ![p] = closed]
                   /\ positions' = positions \ {p}
                   /\ paused' = TRUE
                   /\ Go(t, "reconcile_loop")
                   /\ Local(t, [frame[t] EXCEPT !.todo = @ \ {p}])
                \/ /\ obj' = [obj EXCEPT ![p] = closed]
                   /\ Await(t, "loop")
                   /\ Local(t, NoFrame)
                   /\ UNCHANGED <<positions, paused>>
                \/ GoDown
    BY <1>8 DEF ExternallyClosed
  <2>2. p \in Ids
    BY FrameFields DEF TypeOK
  <2>3. [obj[p] EXCEPT !.state = "externally_closed"] \in PositionType
    BY <2>2, ObjFields DEF TypeOK, States
  <2>4. rows' \in [Ids -> PositionType]
    BY <2>1, <2>2, <2>3 DEF TypeOK, StoreOK
  <2>5. MemoryOK'
    BY <2>1, <2>2, <2>3, GoDownType DEF TypeOK, MemoryOK
  <2>6. ControlOK'
    <3>1. CASE GoDown
      BY <3>1, GoDownType
    <3>2. CASE ~GoDown
      BY <2>1, <2>2, <3>2, TodoType, NoFrameType, MoveType, LocalType
      DEF TypeOK, ControlOK, Stages
    <3> QED
      BY <3>1, <3>2
  <2> QED
    BY <1>8, <2>4, <2>5, <2>6, UnchangedType
    DEF ExternallyClosed, TypeOK, StoreOK, bounds
<1>9. CASE ReconcileEnds(t)
  BY <1>9, ReturnType, UnchangedType DEF ReconcileEnds, TypeOK, bounds
<1> QED
  BY <1>1, <1>2, <1>3, <1>4, <1>5, <1>6, <1>7, <1>8, <1>9 DEF Reconciling

LEMMA TypeStep ==
  ASSUME TypeOK, AtInv, SettleInv, [Next]_vars
  PROVE  TypeOK'
<1>1. CASE UNCHANGED vars
  BY <1>1, UnchangedType DEF TypeOK, vars, bounds
<1>2. ASSUME NEW t \in Tasks, Handler(t) PROVE TypeOK'
  BY <1>2, EnteringType, ClosingType, ConfirmingType, ReconcilingType DEF Handler
<1>3. CASE Next
  BY <1>2, <1>3, LoopType, RequestType, ExchangeType DEF Next
<1> QED
  BY <1>1, <1>3

-----------------------------------------------------------------------------
(* Control: who may run, and what it has in hand.                          *)

LEMMA Outside ==
  ASSUME ControlOK, NEW t \in Tasks
  PROVE  /\ frame[t].loop \notin Working \cup Atomic \cup {"down"}
         /\ frame[t].then \notin Working \cup Atomic \cup {"down"}
         /\ frame[t].todo \subseteq Ids
<1>1. frame[t] \in FrameType
  BY DEF ControlOK
<1> QED
  BY <1>1 DEF FrameType, Working, Atomic

LEMMA DownControl ==
  ASSUME GoDown
  PROVE  ControlInv'
BY TasksAssumption DEF GoDown, ControlInv, AtInv, TurnInv, DownInv, Working, Atomic, Tasks

LEMMA PlaceEntryControl ==
  ASSUME ControlOK, ControlInv, NEW t \in Tasks, NEW next, PlaceEntryOrder(t, next),
         turn \in {None, t}, pc[Main] # "down"
  PROVE  ControlInv'
<1> DEFINE p == CHOOSE id \in Fresh : TRUE
<1>1. p \in Ids
  BY DEF PlaceEntryOrder, CanEnter, Fresh
<1>2. /\ pc' = [pc EXCEPT ![t] = "entry_wait"] /\ turn' = None
      /\ frame'[t].at = p /\ \A u \in Tasks \ {t} : frame'[u] = frame[u]
  BY NoFrameType DEF PlaceEntryOrder, Await, Local, ControlOK, FrameType
<1> QED
  BY <1>1, <1>2, NoneAssumption DEF ControlOK, ControlInv, AtInv, TurnInv, DownInv, Working, Atomic, Tasks

LEMMA ControlStep ==
  ASSUME TypeOK, ControlInv, [Next]_vars
  PROVE  ControlInv'
<1> ControlOK /\ MemoryOK
  BY DEF TypeOK
<1> USE TasksAssumption, NoneAssumption, Outside
    DEF At, Await, Go, MayAwait, Local, Return, NextItem, Shutdown, Tasks, control,
        ControlOK, ControlInv, AtInv, TurnInv, DownInv, Working, Atomic
<1>1. CASE Start
  BY <1>1 DEF Start
<1>2. CASE Crash
  BY <1>2, DownControl DEF Crash
<1>3. CASE Connect
  BY <1>3 DEF Connect
<1>4. CASE ReconcileAgain
  BY <1>4 DEF ReconcileAgain
<1>5. CASE EnterLoop
  BY <1>5 DEF EnterLoop
<1>6. CASE LoopForceClose
  BY <1>6 DEF LoopForceClose
<1>7. CASE PersistState
  BY <1>7 DEF PersistState
<1>8. CASE MaybeReconcile
  BY <1>8 DEF MaybeReconcile
<1>9. CASE CheckPositionExits
  BY <1>9 DEF CheckPositionExits
<1>10. CASE ProcessSignal
  BY <1>10 DEF ProcessSignal
<1>11. CASE SignalEntry
  <2>1. CASE PlaceEntryOrder(Main, "loop")
    BY <1>11, <2>1, PlaceEntryControl DEF SignalEntry
  <2>2. CASE ~PlaceEntryOrder(Main, "loop")
    BY <1>11, <2>2 DEF SignalEntry
  <2> QED
    BY <2>1, <2>2
<1>12. CASE CancelAllOrders
  BY <1>12 DEF CancelAllOrders
<1>13. CASE ExitProcess
  BY <1>13, DownControl DEF ExitProcess
<1>14. CASE UpdateUnrealizedPnl
  BY <1>14 DEF UpdateUnrealizedPnl
<1>15. CASE EntryArrives
  BY <1>15 DEF EntryArrives
<1>16. CASE EntryFills
  BY <1>16 DEF EntryFills
<1>17. CASE ExitExecutes
  BY <1>17 DEF ExitExecutes
<1>18. CASE ExternalTrade
  BY <1>18 DEF ExternalTrade
<1>19. ASSUME NEW t \in Tasks, EntryAccepted(t) PROVE ControlInv'
  BY <1>19 DEF EntryAccepted
<1>20. ASSUME NEW t \in Tasks, EntryRejected(t) PROVE ControlInv'
  BY <1>20 DEF EntryRejected
<1>21. ASSUME NEW t \in Tasks, EntryUnknown(t) PROVE ControlInv'
  BY <1>21 DEF EntryUnknown
<1>22. ASSUME NEW t \in Tasks, ForceCloseAll(t) PROVE ControlInv'
  BY <1>22 DEF ForceCloseAll
<1>23. ASSUME NEW t \in Tasks, CloseLoopEnds(t) PROVE ControlInv'
  BY <1>23 DEF CloseLoopEnds
<1>24. ASSUME NEW t \in Tasks, SkipPendingExit(t) PROVE ControlInv'
  BY <1>24 DEF SkipPendingExit
<1>25. ASSUME NEW t \in Tasks, RequestExit(t) PROVE ControlInv'
  BY <1>25 DEF RequestExit
<1>26. ASSUME NEW t \in Tasks, ExitAccepted(t) PROVE ControlInv'
  BY <1>26 DEF ExitAccepted
<1>27. ASSUME NEW t \in Tasks, ExitRejected(t) PROVE ControlInv'
  BY <1>27 DEF ExitRejected
<1>28. ASSUME NEW t \in Tasks, ExitUnknown(t) PROVE ControlInv'
  BY <1>28 DEF ExitUnknown
<1>29. ASSUME NEW t \in Tasks, ConfirmRead(t) PROVE ControlInv'
  <2>1. CASE NextItem(t)
    BY <1>29, <2>1 DEF ConfirmRead
  <2>2. CASE ~NextItem(t)
    <3>1. frame[t].at \in Ids
      BY <1>29 DEF ConfirmRead
    <3>2. frame'[t].at = frame[t].at /\ \A u \in Tasks \ {t} : frame'[u] = frame[u]
      BY <1>29, <2>2 DEF ConfirmRead, FrameType
    <3> QED
      BY <1>29, <2>2, <3>1, <3>2 DEF ConfirmRead
  <2> QED
    BY <2>1, <2>2
<1>30. ASSUME NEW t \in Tasks, DuplicateFill(t) PROVE ControlInv'
  BY <1>30 DEF DuplicateFill
<1>31. ASSUME NEW t \in Tasks, RecordFill(t) PROVE ControlInv'
  BY <1>31 DEF RecordFill
<1>32. ASSUME NEW t \in Tasks, NoMatchingFill(t) PROVE ControlInv'
  BY <1>32 DEF NoMatchingFill
<1>33. ASSUME NEW t \in Tasks, PartialExit(t) PROVE ControlInv'
  BY <1>33 DEF PartialExit
<1>34. ASSUME NEW t \in Tasks, FullExit(t) PROVE ControlInv'
  BY <1>34 DEF FullExit
<1>35. ASSUME NEW t \in Tasks, SaveTrade(t) PROVE ControlInv'
  BY <1>35 DEF SaveTrade
<1>36. ASSUME NEW t \in Tasks, CloseRow(t) PROVE ControlInv'
  BY <1>36 DEF CloseRow
<1>37. ASSUME NEW t \in Tasks, FinishClose(t) PROVE ControlInv'
  BY <1>37 DEF FinishClose
<1>38. ASSUME NEW t \in Tasks, ReadSnapshot(t) PROVE ControlInv'
  BY <1>38 DEF ReadSnapshot
<1>39. CASE ReconcileUnavailable(Main)
  BY <1>39 DEF ReconcileUnavailable
<1>40. ASSUME NEW t \in Tasks, ReconcileBegin(t) PROVE ControlInv'
  BY <1>40 DEF ReconcileBegin
<1>41. ASSUME NEW t \in Tasks, RecoverUnmanaged(t) PROVE ControlInv'
  BY <1>41 DEF RecoverUnmanaged
<1>42. ASSUME NEW t \in Tasks, ReconcileMatched(t) PROVE ControlInv'
  BY <1>42 DEF ReconcileMatched
<1>43. ASSUME NEW t \in Tasks, KeepPendingEntry(t) PROVE ControlInv'
  BY <1>43 DEF KeepPendingEntry
<1>44. ASSUME NEW t \in Tasks, ResolveExit(t) PROVE ControlInv'
  BY <1>44 DEF ResolveExit
<1>45. ASSUME NEW t \in Tasks, ExternallyClosed(t) PROVE ControlInv'
  <2>1. CASE GoDown
    BY <2>1, DownControl
  <2>2. CASE ~GoDown
    BY <1>45, <2>2 DEF ExternallyClosed
  <2> QED
    BY <2>1, <2>2
<1>46. ASSUME NEW t \in Tasks, ReconcileEnds(t) PROVE ControlInv'
  BY <1>46 DEF ReconcileEnds
<1>47. ASSUME NEW t \in Requests, CloseAllRequest(t) PROVE ControlInv'
  BY <1>47 DEF CloseAllRequest
<1>48. ASSUME NEW t \in Requests, ManualTradeRequest(t) PROVE ControlInv'
  BY <1>48, PlaceEntryControl DEF ManualTradeRequest
<1>49. ASSUME NEW t \in Requests, PauseRequest(t) PROVE ControlInv'
  BY <1>49 DEF PauseRequest
<1>50. CASE UNCHANGED vars
  BY <1>50 DEF vars
<1> QED
  BY <1>1, <1>2, <1>3, <1>4, <1>5, <1>6, <1>7, <1>8, <1>9, <1>10, <1>11, <1>12, <1>13,
     <1>14, <1>15, <1>16, <1>17, <1>18, <1>19, <1>20, <1>21, <1>22, <1>23, <1>24, <1>25,
     <1>26, <1>27, <1>28, <1>29, <1>30, <1>31, <1>32, <1>33, <1>34, <1>35, <1>36, <1>37,
     <1>38, <1>39, <1>40, <1>41, <1>42, <1>43, <1>44, <1>45, <1>46, <1>47, <1>48, <1>49,
     <1>50
  DEF Next, MainLoop, Exchange, Handler, Entering, Closing, Confirming, Reconciling,
      Request

-----------------------------------------------------------------------------
(* Settlement.                                                             *)

\* No step but the turn holder's moves a position under settlement.
LEMMA SettleStep ==
  ASSUME TypeOK, ControlInv, SettleInv, LedgerInv, [Next]_vars
  PROVE  SettleInv'
<1> /\ pc \in [Tasks -> Stages] /\ frame \in [Tasks -> FrameType]
    /\ obj \in [Ids -> PositionType] /\ ControlOK
  BY DEF TypeOK, ControlOK, MemoryOK
<1> USE TasksAssumption, NoneAssumption, Outside
    DEF At, Await, Go, MayAwait, Local, Return, NextItem, Shutdown, Save, GoDown,
        PlaceEntryOrder, Tasks, control, memory, store, exchange, ControlInv, TurnInv,
        DownInv, Atomic, SettleInv
<1>1. CASE Start
  BY <1>1 DEF Start
<1>2. CASE Crash
  BY <1>2 DEF Crash
<1>3. CASE Connect
  BY <1>3 DEF Connect
<1>4. CASE ReconcileAgain
  BY <1>4 DEF ReconcileAgain
<1>5. CASE EnterLoop
  BY <1>5 DEF EnterLoop
<1>6. CASE LoopForceClose
  BY <1>6 DEF LoopForceClose
<1>7. CASE PersistState
  BY <1>7 DEF PersistState
<1>8. CASE MaybeReconcile
  BY <1>8 DEF MaybeReconcile
<1>9. CASE CheckPositionExits
  BY <1>9 DEF CheckPositionExits
<1>10. CASE ProcessSignal
  BY <1>10 DEF ProcessSignal
<1>11. CASE SignalEntry
  BY <1>11 DEF SignalEntry
<1>12. CASE CancelAllOrders
  BY <1>12 DEF CancelAllOrders
<1>13. CASE ExitProcess
  BY <1>13 DEF ExitProcess
<1>14. CASE UpdateUnrealizedPnl
  BY <1>14 DEF UpdateUnrealizedPnl
<1>15. CASE EntryArrives
  BY <1>15 DEF EntryArrives
<1>16. CASE EntryFills
  BY <1>16 DEF EntryFills
<1>17. CASE ExitExecutes
  BY <1>17 DEF ExitExecutes
<1>18. CASE ExternalTrade
  BY <1>18 DEF ExternalTrade
<1>19. ASSUME NEW t \in Tasks, EntryAccepted(t) PROVE SettleInv'
  BY <1>19 DEF EntryAccepted
<1>20. ASSUME NEW t \in Tasks, EntryRejected(t) PROVE SettleInv'
  BY <1>20 DEF EntryRejected
<1>21. ASSUME NEW t \in Tasks, EntryUnknown(t) PROVE SettleInv'
  BY <1>21 DEF EntryUnknown
<1>22. ASSUME NEW t \in Tasks, ForceCloseAll(t) PROVE SettleInv'
  BY <1>22 DEF ForceCloseAll
<1>23. ASSUME NEW t \in Tasks, CloseLoopEnds(t) PROVE SettleInv'
  BY <1>23 DEF CloseLoopEnds
<1>24. ASSUME NEW t \in Tasks, SkipPendingExit(t) PROVE SettleInv'
  BY <1>24 DEF SkipPendingExit
<1>25. ASSUME NEW t \in Tasks, RequestExit(t) PROVE SettleInv'
  BY <1>25 DEF RequestExit
<1>26. ASSUME NEW t \in Tasks, ExitAccepted(t) PROVE SettleInv'
  BY <1>26 DEF ExitAccepted
<1>27. ASSUME NEW t \in Tasks, ExitRejected(t) PROVE SettleInv'
  BY <1>27 DEF ExitRejected
<1>28. ASSUME NEW t \in Tasks, ExitUnknown(t) PROVE SettleInv'
  BY <1>28 DEF ExitUnknown
<1>29. ASSUME NEW t \in Tasks, ConfirmRead(t) PROVE SettleInv'
  BY <1>29 DEF ConfirmRead
<1>30. ASSUME NEW t \in Tasks, DuplicateFill(t) PROVE SettleInv'
  BY <1>30 DEF DuplicateFill
<1>31. ASSUME NEW t \in Tasks, RecordFill(t) PROVE SettleInv'
  <2> DEFINE o == obj[frame[t].at].exit_oid
  <2>1. o \in Exits /\ o \notin ledger
    <3>1. o \in Exits \cup {None}
      BY <1>31, ObjFields DEF RecordFill, TypeOK, AtInv, Working
    <3> QED
      BY <1>31, <3>1 DEF RecordFill, ExitFilled, Recorded
  <2>2. booked[o] = 0
    BY <2>1 DEF LedgerInv, TypeOK, StoreOK
  <2>3. ledger' = ledger \cup {o} /\ obj' = obj /\ booked' = booked /\ frame' = frame
    BY <1>31 DEF RecordFill
  <2>4. \A u \in Tasks \ {t} : pc'[u] \notin {"confirm_settle", "save_trade"}
    BY <1>31 DEF RecordFill
  <2> QED
    BY <2>1, <2>2, <2>3, <2>4
<1>32. ASSUME NEW t \in Tasks, NoMatchingFill(t) PROVE SettleInv'
  BY <1>32 DEF NoMatchingFill
<1>33. ASSUME NEW t \in Tasks, PartialExit(t) PROVE SettleInv'
  BY <1>33 DEF PartialExit
<1>34. ASSUME NEW t \in Tasks, FullExit(t) PROVE SettleInv'
  BY <1>34 DEF FullExit
<1>35. ASSUME NEW t \in Tasks, SaveTrade(t) PROVE SettleInv'
  BY <1>35 DEF SaveTrade
<1>36. ASSUME NEW t \in Tasks, CloseRow(t) PROVE SettleInv'
  BY <1>36 DEF CloseRow
<1>37. ASSUME NEW t \in Tasks, FinishClose(t) PROVE SettleInv'
  BY <1>37 DEF FinishClose
<1>38. ASSUME NEW t \in Tasks, ReadSnapshot(t) PROVE SettleInv'
  BY <1>38 DEF ReadSnapshot
<1>39. CASE ReconcileUnavailable(Main)
  BY <1>39 DEF ReconcileUnavailable
<1>40. ASSUME NEW t \in Tasks, ReconcileBegin(t) PROVE SettleInv'
  BY <1>40 DEF ReconcileBegin
<1>41. ASSUME NEW t \in Tasks, RecoverUnmanaged(t) PROVE SettleInv'
  BY <1>41 DEF RecoverUnmanaged
<1>42. ASSUME NEW t \in Tasks, ReconcileMatched(t) PROVE SettleInv'
  BY <1>42 DEF ReconcileMatched
<1>43. ASSUME NEW t \in Tasks, KeepPendingEntry(t) PROVE SettleInv'
  BY <1>43 DEF KeepPendingEntry
<1>44. ASSUME NEW t \in Tasks, ResolveExit(t) PROVE SettleInv'
  BY <1>44 DEF ResolveExit
<1>45. ASSUME NEW t \in Tasks, ExternallyClosed(t) PROVE SettleInv'
  BY <1>45 DEF ExternallyClosed
<1>46. ASSUME NEW t \in Tasks, ReconcileEnds(t) PROVE SettleInv'
  BY <1>46 DEF ReconcileEnds
<1>47. ASSUME NEW t \in Requests, CloseAllRequest(t) PROVE SettleInv'
  BY <1>47 DEF CloseAllRequest
<1>48. ASSUME NEW t \in Requests, ManualTradeRequest(t) PROVE SettleInv'
  BY <1>48 DEF ManualTradeRequest
<1>49. ASSUME NEW t \in Requests, PauseRequest(t) PROVE SettleInv'
  BY <1>49 DEF PauseRequest
<1>50. CASE UNCHANGED vars
  BY <1>50 DEF vars
<1> QED
  BY <1>1, <1>2, <1>3, <1>4, <1>5, <1>6, <1>7, <1>8, <1>9, <1>10, <1>11, <1>12, <1>13,
     <1>14, <1>15, <1>16, <1>17, <1>18, <1>19, <1>20, <1>21, <1>22, <1>23, <1>24, <1>25,
     <1>26, <1>27, <1>28, <1>29, <1>30, <1>31, <1>32, <1>33, <1>34, <1>35, <1>36, <1>37,
     <1>38, <1>39, <1>40, <1>41, <1>42, <1>43, <1>44, <1>45, <1>46, <1>47, <1>48, <1>49,
     <1>50
  DEF Next, MainLoop, Exchange, Handler, Entering, Closing, Confirming, Reconciling,
      Request

\* The steps that touch an exit order, the ledger or the trades.
LEMMA LedgerChanges ==
  ASSUME [Next]_vars
  PROVE  \/ UNCHANGED <<ledger, booked, exitOrder>>
         \/ ExitExecutes
         \/ \E t \in Tasks : \/ RequestExit(t) \/ ExitRejected(t)
                            \/ RecordFill(t) \/ SaveTrade(t)
<1> DEFINE Same == UNCHANGED <<ledger, booked, exitOrder>>
<1> USE DEF PlaceEntryOrder, store, exchange
<1>1. CASE Start \/ Crash \/ UpdateUnrealizedPnl \/ UNCHANGED vars
  BY <1>1 DEF Start, Crash, UpdateUnrealizedPnl, vars
<1>2. CASE MainLoop
  BY <1>2 DEF MainLoop, Connect, ReconcileAgain, EnterLoop, LoopForceClose, PersistState,
     MaybeReconcile, CheckPositionExits, ProcessSignal, SignalEntry, CancelAllOrders,
     ExitProcess
<1>3. CASE Exchange
  BY <1>3 DEF Exchange, EntryArrives, EntryFills, ExternalTrade
<1>4. ASSUME NEW t \in Requests, Request(t) PROVE Same
  BY <1>4 DEF Request, CloseAllRequest, ManualTradeRequest, PauseRequest
<1>5. ASSUME NEW t \in Tasks, Entering(t) PROVE Same
  BY <1>5 DEF Entering, EntryAccepted, EntryRejected, EntryUnknown
<1>6. ASSUME NEW t \in Tasks, Closing(t), ~RequestExit(t), ~ExitRejected(t) PROVE Same
  BY <1>6 DEF Closing, ForceCloseAll, CloseLoopEnds, SkipPendingExit, ExitAccepted,
     ExitUnknown
<1>7. ASSUME NEW t \in Tasks, Confirming(t), ~RecordFill(t), ~SaveTrade(t) PROVE Same
  BY <1>7 DEF Confirming, ConfirmRead, DuplicateFill, NoMatchingFill, PartialExit,
     FullExit, CloseRow, FinishClose
<1>8. ASSUME NEW t \in Tasks, Reconciling(t) PROVE Same
  BY <1>8 DEF Reconciling, ReadSnapshot, ReconcileUnavailable, ReconcileBegin,
     RecoverUnmanaged, ReconcileMatched, KeepPendingEntry, ResolveExit, ExternallyClosed,
     ReconcileEnds
<1> QED
  BY <1>1, <1>2, <1>3, <1>4, <1>5, <1>6, <1>7, <1>8 DEF Next, Handler

LEMMA LedgerStep ==
  ASSUME TypeOK, ControlInv, SettleInv, LedgerInv, [Next]_vars
  PROVE  LedgerInv'
<1> /\ booked \in [Exits -> Nat] /\ ledger \subseteq Exits
    /\ exitOrder \in [Exits -> ExitOrders]
  BY DEF TypeOK, StoreOK, ExchangeOK
<1>1. CASE UNCHANGED <<ledger, booked, exitOrder>>
  BY <1>1 DEF LedgerInv
<1>2. CASE ExitExecutes
  BY <1>2 DEF ExitExecutes, LedgerInv, store
<1>3. ASSUME NEW t \in Tasks, RequestExit(t) PROVE LedgerInv'
  <2> DEFINE o == IF FreshExits = {} THEN None ELSE CHOOSE id \in FreshExits : TRUE
  <2>1. o \in Exits => exitOrder[o].state = "none"
    BY NoneAssumption DEF FreshExits
  <2>2. \A id \in Exits : id # o => exitOrder'[id] = exitOrder[id]
    BY <1>3 DEF RequestExit
  <2>3. o \in Exits => o \notin ledger
    BY <2>1 DEF LedgerInv
  <2>4. o \in Exits => exitOrder'[o].filled = 0
    BY <1>3 DEF RequestExit
  <2>5. ledger' = ledger /\ booked' = booked
    BY <1>3 DEF RequestExit
  <2> HIDE DEF o
  <2> QED
    BY <2>2, <2>3, <2>4, <2>5 DEF LedgerInv
<1>4. ASSUME NEW t \in Tasks, ExitRejected(t) PROVE LedgerInv'
  BY <1>4, NoneAssumption DEF ExitRejected, LedgerInv
<1>5. ASSUME NEW t \in Tasks, RecordFill(t) PROVE LedgerInv'
  <2>1. /\ exitOrder[obj[frame[t].at].exit_oid].filled > 0
        /\ ledger' = ledger \cup {obj[frame[t].at].exit_oid}
        /\ booked' = booked /\ exitOrder' = exitOrder
    BY <1>5 DEF RecordFill, ExitFilled, exchange
  <2> QED
    BY <2>1 DEF LedgerInv
<1>6. ASSUME NEW t \in Tasks, SaveTrade(t) PROVE LedgerInv'
  <2> DEFINE o == obj[frame[t].at].exit_oid
  <2>1. o \in ledger /\ booked[o] = 0
    BY <1>6 DEF SaveTrade, At, SettleInv
  <2>2. /\ booked' = [id \in Exits |-> IF id = o THEN booked[id] + 1 ELSE booked[id]]
        /\ ledger' = ledger /\ exitOrder' = exitOrder
    BY <1>6 DEF SaveTrade, exchange
  <2> QED
    BY <2>1, <2>2 DEF LedgerInv
<1> QED
  BY <1>1, <1>2, <1>3, <1>4, <1>5, <1>6, LedgerChanges

-----------------------------------------------------------------------------
(* Memory and database.                                                    *)

\* Whoever changes an object saves it before the next await, and only the
\* end of a settlement, in finish_close, has the row ahead of the object.
LEMMA StoreStep ==
  ASSUME TypeOK, AtInv, StoreMatchesMemory, [Next]_vars
  PROVE  StoreMatchesMemory'
<1> /\ positions \subseteq Ids
    /\ pc \in [Tasks -> Stages] /\ frame \in [Tasks -> FrameType]
    /\ obj \in [Ids -> PositionType] /\ rows \in [Ids -> PositionType]
  BY DEF TypeOK, ControlOK, MemoryOK, StoreOK
<1> USE TasksAssumption, NoneAssumption
    DEF At, Await, Go, MayAwait, Local, Return, NextItem, Save, GoDown, Tasks, control,
        memory, store, Open, StoreMatchesMemory, AtInv, Working
<1>1. CASE Start
  BY <1>1 DEF Start
<1>2. CASE Crash
  BY <1>2 DEF Crash
<1>3. CASE Connect
  BY <1>3 DEF Connect, Shutdown
<1>4. CASE ReconcileAgain
  BY <1>4 DEF ReconcileAgain
<1>5. CASE EnterLoop
  BY <1>5 DEF EnterLoop
<1>6. CASE LoopForceClose
  BY <1>6 DEF LoopForceClose, Shutdown
<1>7. CASE PersistState
  BY <1>7 DEF PersistState
<1>8. CASE MaybeReconcile
  BY <1>8 DEF MaybeReconcile
<1>9. CASE CheckPositionExits
  BY <1>9 DEF CheckPositionExits
<1>10. CASE ProcessSignal
  BY <1>10 DEF ProcessSignal
<1>11. CASE SignalEntry
  <2>1. CASE PlaceEntryOrder(Main, "loop")
    BY <1>11, <2>1 DEF SignalEntry, PlaceEntryOrder
  <2>2. CASE ~PlaceEntryOrder(Main, "loop")
    BY <1>11, <2>2 DEF SignalEntry
  <2> QED
    BY <2>1, <2>2
<1>12. CASE CancelAllOrders
  BY <1>12 DEF CancelAllOrders
<1>13. CASE ExitProcess
  BY <1>13 DEF ExitProcess
<1>14. CASE UpdateUnrealizedPnl
  BY <1>14 DEF UpdateUnrealizedPnl
<1>15. CASE EntryArrives
  BY <1>15 DEF EntryArrives
<1>16. CASE EntryFills
  BY <1>16 DEF EntryFills
<1>17. CASE ExitExecutes
  BY <1>17 DEF ExitExecutes
<1>18. CASE ExternalTrade
  BY <1>18 DEF ExternalTrade
<1>19. ASSUME NEW t \in Tasks, EntryAccepted(t) PROVE StoreMatchesMemory'
  BY <1>19 DEF EntryAccepted
<1>20. ASSUME NEW t \in Tasks, EntryRejected(t) PROVE StoreMatchesMemory'
  BY <1>20 DEF EntryRejected
<1>21. ASSUME NEW t \in Tasks, EntryUnknown(t) PROVE StoreMatchesMemory'
  BY <1>21 DEF EntryUnknown
<1>22. ASSUME NEW t \in Tasks, ForceCloseAll(t) PROVE StoreMatchesMemory'
  BY <1>22 DEF ForceCloseAll
<1>23. ASSUME NEW t \in Tasks, CloseLoopEnds(t) PROVE StoreMatchesMemory'
  BY <1>23 DEF CloseLoopEnds
<1>24. ASSUME NEW t \in Tasks, SkipPendingExit(t) PROVE StoreMatchesMemory'
  BY <1>24 DEF SkipPendingExit
<1>25. ASSUME NEW t \in Tasks, RequestExit(t) PROVE StoreMatchesMemory'
  BY <1>25 DEF RequestExit
<1>26. ASSUME NEW t \in Tasks, ExitAccepted(t) PROVE StoreMatchesMemory'
  BY <1>26 DEF ExitAccepted
<1>27. ASSUME NEW t \in Tasks, ExitRejected(t) PROVE StoreMatchesMemory'
  BY <1>27 DEF ExitRejected
<1>28. ASSUME NEW t \in Tasks, ExitUnknown(t) PROVE StoreMatchesMemory'
  BY <1>28 DEF ExitUnknown
<1>29. ASSUME NEW t \in Tasks, ConfirmRead(t) PROVE StoreMatchesMemory'
  BY <1>29 DEF ConfirmRead
<1>30. ASSUME NEW t \in Tasks, DuplicateFill(t) PROVE StoreMatchesMemory'
  BY <1>30 DEF DuplicateFill
<1>31. ASSUME NEW t \in Tasks, RecordFill(t) PROVE StoreMatchesMemory'
  BY <1>31 DEF RecordFill
<1>32. ASSUME NEW t \in Tasks, NoMatchingFill(t) PROVE StoreMatchesMemory'
  BY <1>32 DEF NoMatchingFill
<1>33. ASSUME NEW t \in Tasks, PartialExit(t) PROVE StoreMatchesMemory'
  BY <1>33 DEF PartialExit
<1>34. ASSUME NEW t \in Tasks, FullExit(t) PROVE StoreMatchesMemory'
  BY <1>34 DEF FullExit
<1>35. ASSUME NEW t \in Tasks, SaveTrade(t) PROVE StoreMatchesMemory'
  BY <1>35 DEF SaveTrade
<1>36. ASSUME NEW t \in Tasks, CloseRow(t) PROVE StoreMatchesMemory'
  BY <1>36 DEF CloseRow
<1>37. ASSUME NEW t \in Tasks, FinishClose(t) PROVE StoreMatchesMemory'
  BY <1>37 DEF FinishClose
<1>38. ASSUME NEW t \in Tasks, ReadSnapshot(t) PROVE StoreMatchesMemory'
  BY <1>38 DEF ReadSnapshot
<1>39. CASE ReconcileUnavailable(Main)
  <2>1. CASE Shutdown
    BY <1>39, <2>1 DEF ReconcileUnavailable, Shutdown
  <2>2. CASE ~Shutdown
    BY <1>39, <2>2 DEF ReconcileUnavailable
  <2> QED
    BY <2>1, <2>2
<1>40. ASSUME NEW t \in Tasks, ReconcileBegin(t) PROVE StoreMatchesMemory'
  BY <1>40 DEF ReconcileBegin
<1>41. ASSUME NEW t \in Tasks, RecoverUnmanaged(t) PROVE StoreMatchesMemory'
  BY <1>41 DEF RecoverUnmanaged, Fresh
<1>42. ASSUME NEW t \in Tasks, ReconcileMatched(t) PROVE StoreMatchesMemory'
  BY <1>42 DEF ReconcileMatched
<1>43. ASSUME NEW t \in Tasks, KeepPendingEntry(t) PROVE StoreMatchesMemory'
  BY <1>43 DEF KeepPendingEntry
<1>44. ASSUME NEW t \in Tasks, ResolveExit(t) PROVE StoreMatchesMemory'
  BY <1>44 DEF ResolveExit
<1>45. ASSUME NEW t \in Tasks, ExternallyClosed(t) PROVE StoreMatchesMemory'
  BY <1>45 DEF ExternallyClosed
<1>46. ASSUME NEW t \in Tasks, ReconcileEnds(t) PROVE StoreMatchesMemory'
  BY <1>46 DEF ReconcileEnds
<1>47. ASSUME NEW t \in Requests, CloseAllRequest(t) PROVE StoreMatchesMemory'
  BY <1>47 DEF CloseAllRequest
<1>48. ASSUME NEW t \in Requests, ManualTradeRequest(t) PROVE StoreMatchesMemory'
  BY <1>48 DEF ManualTradeRequest, PlaceEntryOrder
<1>49. ASSUME NEW t \in Requests, PauseRequest(t) PROVE StoreMatchesMemory'
  BY <1>49 DEF PauseRequest
<1>50. CASE UNCHANGED vars
  BY <1>50 DEF vars
<1> QED
  BY <1>1, <1>2, <1>3, <1>4, <1>5, <1>6, <1>7, <1>8, <1>9, <1>10, <1>11, <1>12, <1>13,
     <1>14, <1>15, <1>16, <1>17, <1>18, <1>19, <1>20, <1>21, <1>22, <1>23, <1>24, <1>25,
     <1>26, <1>27, <1>28, <1>29, <1>30, <1>31, <1>32, <1>33, <1>34, <1>35, <1>36, <1>37,
     <1>38, <1>39, <1>40, <1>41, <1>42, <1>43, <1>44, <1>45, <1>46, <1>47, <1>48, <1>49,
     <1>50
  DEF Next, MainLoop, Exchange, Handler, Entering, Closing, Confirming, Reconciling,
      Request

-----------------------------------------------------------------------------
(* The theorems.                                                           *)

LEMMA InitIInv == Init => IInv
<1> SUFFICES ASSUME Init PROVE IInv
  OBVIOUS
<1>1. TypeOK
  BY NoFrameType, NoPositionType, LotAssumption
  DEF Init, TypeOK, ControlOK, MemoryOK, StoreOK, ExchangeOK, Stages, EntryOrders,
      ExitOrders
<1>2. ControlInv /\ SettleInv
  BY TasksAssumption
  DEF Init, ControlInv, AtInv, TurnInv, DownInv, SettleInv, Working, Atomic, Tasks
<1>3. LedgerInv /\ StoreMatchesMemory
  BY DEF Init, LedgerInv, StoreMatchesMemory
<1> QED
  BY <1>1, <1>2, <1>3 DEF IInv

LEMMA StepIInv == IInv /\ [Next]_vars => IInv'
BY TypeStep, ControlStep, SettleStep, LedgerStep, StoreStep DEF IInv, ControlInv

THEOREM Invariance == Spec => []IInv
BY InitIInv, StepIInv, PTL DEF Spec

\* Every variable stays in its type: every state the code writes is one
\* models.py or trading_bot.py names, and quantities never go negative.
THEOREM TypeCorrect == Spec => []TypeOK
<1>1. IInv => TypeOK
  BY DEF IInv
<1> QED
  BY <1>1, Invariance, PTL

\* No exit fill is ever paid twice or paid without being recorded, whatever
\* crashes, restarts and concurrent handlers do.
THEOREM FillsBookedOnce == Spec => []FillBookedOnce
<1>1. IInv => FillBookedOnce
  BY DEF IInv, LedgerInv, FillBookedOnce
<1> QED
  BY <1>1, Invariance, PTL

\* What a crash would restore is what the bot knows, except during the await
\* that ends a settlement.
THEOREM StoreFollowsMemory == Spec => []StoreMatchesMemory
<1>1. IInv => StoreMatchesMemory
  BY DEF IInv
<1> QED
  BY <1>1, Invariance, PTL

-----------------------------------------------------------------------------
(* How a step may move the objects and the rows.                           *)

\* A task that awaits the answer to an order has a position in hand.
HandInv ==
  \A t \in Tasks :
    pc[t] \in {"entry_wait", "exit_wait"} => obj[frame[t].at].state # "absent"

\* A task has been told of exposure, or has an exit under way.
Exposed == \E t \in Tasks : pc[t] = "exit_wait" \/ frame[t].snapshot.qty > 0

\* What a handler saves: the object in hand with a state of its own choice,
\* never "externally_closed" and, with nothing exposed, never "open" unless it
\* was that already, and with the exit order id it had, none, or the one the
\* exchange just answered with.
Rewritten(p, r) ==
  /\ Save(p, r)
  /\ r.state # "absent"
  /\ r.state = "externally_closed" => obj[p].state = "externally_closed"
  /\ r.state = "open" => obj[p].state = "open" \/ Exposed
  /\ \/ r.exit_oid \in {None, obj[p].exit_oid}
     \/ \E t \in Tasks : /\ pc[t] = "exit_wait" /\ frame[t].at = p
                         /\ frame[t].order # None /\ r.exit_oid = frame[t].order

ProcessLost == GoDown /\ UNCHANGED rows

BookMove ==
  \/ UNCHANGED <<obj, rows>>
  \/ Start
  \/ ProcessLost
  \/ UpdateUnrealizedPnl
  \/ \E t \in Tasks : CloseRow(t) \/ FinishClose(t) \/ (t = Main /\ ExternallyClosed(t))
  \/ \E p \in Ids : \E r \in PositionType : Rewritten(p, r)

LEMMA StateEdit ==
  ASSUME MemoryOK, NEW p \in Ids, NEW s \in States \ {"absent", "externally_closed"},
         NEW q \in Nat, s = "open" => Exposed,
         \/ Save(p, [obj[p] EXCEPT !.state = s])
         \/ Save(p, [obj[p] EXCEPT !.state = s, !.qty = q])
  PROVE  \E r \in PositionType : Rewritten(p, r)
<1>1. obj[p] \in PositionType
  BY DEF MemoryOK
<1>2. CASE Save(p, [obj[p] EXCEPT !.state = s])
  <2> DEFINE r == [obj[p] EXCEPT !.state = s]
  <2>1. r \in PositionType /\ r.state = s /\ r.exit_oid = obj[p].exit_oid
    BY <1>1 DEF PositionType
  <2> QED
    BY <1>2, <2>1 DEF Rewritten
<1>3. CASE Save(p, [obj[p] EXCEPT !.state = s, !.qty = q])
  <2> DEFINE r == [obj[p] EXCEPT !.state = s, !.qty = q]
  <2>1. r \in PositionType /\ r.state = s /\ r.exit_oid = obj[p].exit_oid
    BY <1>1 DEF PositionType
  <2> QED
    BY <1>3, <2>1 DEF Rewritten
<1> QED
  BY <1>2, <1>3

LEMMA SameEdit ==
  ASSUME MemoryOK, NEW p \in Ids, Save(p, obj[p]), obj[p].state # "absent"
  PROVE  \E r \in PositionType : Rewritten(p, r)
BY DEF Rewritten, MemoryOK

LEMMA PlaceEntryMove ==
  ASSUME NEW t \in Tasks, NEW next, PlaceEntryOrder(t, next)
  PROVE  BookMove
<1> DEFINE p == CHOOSE id \in Fresh : TRUE
           r == [state |-> "pending_entry", qty |-> Lot, exit_oid |-> None, managed |-> TRUE]
<1>1. p \in Ids /\ Save(p, r)
  BY DEF PlaceEntryOrder, CanEnter, Fresh
<1>2. r \in PositionType
  BY LotAssumption DEF PositionType, States
<1>3. Rewritten(p, r)
  BY <1>1 DEF Rewritten
<1> QED
  BY <1>1, <1>2, <1>3 DEF BookMove

LEMMA EnteringMove ==
  ASSUME TypeOK, AtInv, HandInv, NEW t \in Tasks, Entering(t)
  PROVE  BookMove
<1> DEFINE p == frame[t].at
<1>1. p \in Ids /\ MemoryOK /\ 0 \in Nat
  BY DEF Entering, EntryAccepted, EntryRejected, EntryUnknown, At, AtInv, Working, TypeOK
<1>2. {"entry_rejected", "state_unknown"} \subseteq States \ {"absent", "externally_closed"}
  BY DEF States
<1>3. \/ Save(p, obj[p]) /\ obj[p].state # "absent"
      \/ Save(p, [obj[p] EXCEPT !.state = "entry_rejected"])
      \/ Save(p, [obj[p] EXCEPT !.state = "state_unknown"])
  BY DEF Entering, EntryAccepted, EntryRejected, EntryUnknown, At, HandInv
<1> HIDE DEF p
<1>4. \E r \in PositionType : Rewritten(p, r)
  BY <1>1, <1>2, <1>3, StateEdit, SameEdit
<1> QED
  BY <1>1, <1>4 DEF BookMove

LEMMA ClosingMove ==
  ASSUME TypeOK, AtInv, HandInv, NEW t \in Tasks, Closing(t)
  PROVE  BookMove
<1> MemoryOK /\ 0 \in Nat
  BY DEF TypeOK
<1>1. CASE UNCHANGED memory /\ UNCHANGED store
  BY <1>1 DEF BookMove, memory, store
<1>2. CASE RequestExit(t)
  <2>1. PICK p \in frame[t].todo : Save(p, [obj[p] EXCEPT !.state = "exit_requested"])
    BY <1>2 DEF RequestExit
  <2>2. p \in Ids
    BY FrameFields DEF TypeOK
  <2>3. "exit_requested" \in States \ {"absent", "externally_closed"}
    BY DEF States
  <2> QED
    BY <2>1, <2>2, <2>3, StateEdit DEF BookMove
<1>3. CASE ExitAccepted(t)
  <2> DEFINE p == frame[t].at
  <2>1. PICK oid \in {frame[t].order, None} : Save(p, [obj[p] EXCEPT !.exit_oid = oid])
    BY <1>3 DEF ExitAccepted
  <2> DEFINE r == [obj[p] EXCEPT !.exit_oid = oid]
  <2>2. /\ p \in Ids /\ pc[t] = "exit_wait" /\ frame[t].order # None
        /\ obj[p].state # "absent"
    BY <1>3 DEF ExitAccepted, At, AtInv, HandInv, Working
  <2>3. oid \in Exits \cup {None} /\ obj[p] \in PositionType
    BY <2>1, <2>2, FrameFields DEF TypeOK, MemoryOK
  <2>4. r \in PositionType /\ r.state = obj[p].state /\ r.exit_oid = oid
    BY <2>3 DEF PositionType
  <2>5. Rewritten(p, r)
    BY <2>1, <2>2, <2>4 DEF Rewritten
  <2> QED
    BY <2>2, <2>4, <2>5 DEF BookMove
<1>4. CASE ExitRejected(t) \/ ExitUnknown(t)
  <2> DEFINE p == frame[t].at
  <2>1. p \in Ids
    BY <1>4 DEF ExitRejected, ExitUnknown, At, AtInv, Working
  <2>2. \/ Save(p, [obj[p] EXCEPT !.state = "open"])
        \/ Save(p, [obj[p] EXCEPT !.state = "state_unknown"])
    BY <1>4 DEF ExitRejected, ExitUnknown
  <2>4. Exposed
    BY <1>4 DEF ExitRejected, ExitUnknown, At, Exposed
  <2>3. {"open", "state_unknown"} \subseteq States \ {"absent", "externally_closed"}
    BY DEF States
  <2> HIDE DEF p
  <2> QED
    BY <2>1, <2>2, <2>3, <2>4, StateEdit DEF BookMove
<1> QED
  BY <1>1, <1>2, <1>3, <1>4
  DEF Closing, ForceCloseAll, CloseLoopEnds, SkipPendingExit

LEMMA ConfirmingMove ==
  ASSUME TypeOK, AtInv, SettleInv, NEW t \in Tasks, Confirming(t)
  PROVE  BookMove
<1> DEFINE p == frame[t].at
<1> MemoryOK /\ 0 \in Nat
  BY DEF TypeOK
<1>1. CASE UNCHANGED memory /\ UNCHANGED rows
  BY <1>1 DEF BookMove, memory
<1>2. CASE CloseRow(t) \/ FinishClose(t)
  BY <1>2 DEF BookMove
<1>3. CASE NoMatchingFill(t)
  <2>1. p \in Ids
    BY <1>3 DEF NoMatchingFill, At, AtInv, Working
  <2>2. UNCHANGED <<obj, rows>> \/ Save(p, [obj[p] EXCEPT !.state = "state_unknown"])
    BY <1>3 DEF NoMatchingFill
  <2>3. "state_unknown" \in States \ {"absent", "externally_closed"}
    BY DEF States
  <2> HIDE DEF p
  <2> QED
    BY <2>1, <2>2, <2>3, StateEdit DEF BookMove
<1>4. CASE PartialExit(t)
  <2> DEFINE filled == exitOrder[obj[p].exit_oid].filled
             left == IF frame[t].view.qty > 0 THEN frame[t].view.qty
                     ELSE obj[p].qty - filled
  <2>1. p \in Ids /\ obj[p].exit_oid \in Exits
    BY <1>4 DEF PartialExit, At, AtInv, Working, SettleInv, TypeOK, StoreOK
  <2>2. filled \in Nat
    BY <2>1 DEF TypeOK, ExchangeOK, ExitOrders
  <2>3. left \in Nat
    <3>1. obj[p].qty \in Nat /\ frame[t].view.qty \in Nat
      BY <2>1, FrameFields, ObjFields DEF TypeOK
    <3>2. frame[t].view.qty > 0 \/ filled < obj[p].qty
      BY <1>4 DEF PartialExit
    <3> QED
      BY <2>2, <3>1, <3>2
  <2>4. Save(p, [obj[p] EXCEPT !.state = "partially_closed", !.qty = left])
    BY <1>4 DEF PartialExit
  <2>5. "partially_closed" \in States \ {"absent", "externally_closed"}
    BY DEF States
  <2> HIDE DEF p, left
  <2> QED
    BY <2>1, <2>3, <2>4, <2>5, StateEdit DEF BookMove
<1> QED
  BY <1>1, <1>2, <1>3, <1>4
  DEF Confirming, ConfirmRead, DuplicateFill, RecordFill, FullExit, SaveTrade, store

LEMMA ReconcilingMove ==
  ASSUME TypeOK, Reconciling(Main)
  PROVE  BookMove
<1> Main \in Tasks /\ MemoryOK
  BY DEF TypeOK, Tasks
<1> frame[Main].snapshot.qty \in Nat
  BY FrameFields DEF TypeOK
<1>1. CASE UNCHANGED <<obj, rows>>
  BY <1>1 DEF BookMove
<1>2. CASE ExternallyClosed(Main)
  BY <1>2 DEF BookMove
<1>3. CASE RecoverUnmanaged(Main)
  <2> DEFINE p == CHOOSE id \in Fresh : TRUE
             r == [state |-> "recovered_unmanaged", qty |-> frame[Main].snapshot.qty,
                   exit_oid |-> None, managed |-> FALSE]
  <2>1. p \in Ids /\ Save(p, r)
    BY <1>3 DEF RecoverUnmanaged, Fresh
  <2>2. r \in PositionType
    BY DEF PositionType, States
  <2>3. Rewritten(p, r)
    BY <2>1 DEF Rewritten
  <2> QED
    BY <2>1, <2>2, <2>3 DEF BookMove
<1>4. CASE ReconcileMatched(Main)
  <2>1. PICK p \in frame[Main].todo :
          Save(p, [obj[p] EXCEPT !.state = "open", !.qty = frame[Main].snapshot.qty])
    BY <1>4 DEF ReconcileMatched
  <2>2. p \in Ids
    BY FrameFields DEF TypeOK
  <2>3. "open" \in States \ {"absent", "externally_closed"}
    BY DEF States
  <2>4. Exposed
    BY <1>4 DEF ReconcileMatched, Exposed
  <2> QED
    BY <2>1, <2>2, <2>3, <2>4, StateEdit DEF BookMove
<1>5. CASE KeepPendingEntry(Main)
  <2>1. PICK p \in frame[Main].todo : obj[p].state = "pending_entry" /\ Save(p, obj[p])
    BY <1>5 DEF KeepPendingEntry
  <2>2. p \in Ids
    BY FrameFields DEF TypeOK
  <2> QED
    BY <2>1, <2>2, SameEdit DEF BookMove
<1> QED
  BY <1>1, <1>2, <1>3, <1>4, <1>5
  DEF Reconciling, ReadSnapshot, ReconcileUnavailable, ReconcileBegin, ResolveExit,
      ReconcileEnds, memory, store

\* Every step is one of these moves.
LEMMA BookMoves ==
  ASSUME TypeOK, AtInv, HandInv, SettleInv, [Next]_vars
  PROVE  BookMove
<1>1. CASE UNCHANGED <<obj, rows>>
  BY <1>1 DEF BookMove
<1>2. CASE Start \/ Crash \/ ExitProcess \/ UpdateUnrealizedPnl
  BY <1>2 DEF BookMove, ProcessLost, Crash, ExitProcess, store
<1>3. CASE SignalEntry
  BY <1>1, <1>3, PlaceEntryMove DEF SignalEntry, Tasks, memory, store
<1>4. ASSUME NEW t \in Requests, Request(t) PROVE BookMove
  BY <1>1, <1>4, PlaceEntryMove
  DEF Request, CloseAllRequest, ManualTradeRequest, PauseRequest, Tasks, memory, store
<1>5. ASSUME NEW t \in Tasks, Handler(t) PROVE BookMove
  BY <1>5, EnteringMove, ClosingMove, ConfirmingMove, ReconcilingMove DEF Handler
<1>6. CASE MainLoop /\ ~ExitProcess /\ ~SignalEntry
  BY <1>1, <1>6 DEF MainLoop, Connect, ReconcileAgain, EnterLoop, LoopForceClose,
     PersistState, MaybeReconcile, CheckPositionExits, ProcessSignal, CancelAllOrders,
     memory, store
<1>7. CASE Exchange \/ UNCHANGED vars
  BY <1>1, <1>7 DEF Exchange, EntryArrives, EntryFills, ExitExecutes, ExternalTrade, vars,
     memory, store
<1> QED
  BY <1>2, <1>3, <1>4, <1>5, <1>6, <1>7 DEF Next

-----------------------------------------------------------------------------
(* Written-off positions, loops and the snapshots they work on.            *)

\* An object written off has a row that is closed: written off with it, or
\* settled by a handler that held the object while it was written off.
WrittenOffInv ==
  \A p \in Ids : obj[p].state = "externally_closed" => rows[p].state \in Terminal

\* A task in a loop knows which, and the loop over a reconciliation's list
\* works on an authoritative snapshot for as long as it lasts, the awaits of a
\* confirmation on the way included.
LoopInv ==
  \A t \in Tasks :
    /\ pc[t] \in {"close_loop", "reconcile_loop"} => frame[t].loop = pc[t]
    /\ pc[t] \in {"close_price", "reconcile_read", "reconcile_apply"} => frame[t].loop = "idle"
    /\ frame[t].loop = "reconcile_loop" => frame[t].snapshot.available

LEMMA WrittenOffStep ==
  ASSUME TypeOK, AtInv, HandInv, SettleInv, WrittenOffInv, [Next]_vars
  PROVE  WrittenOffInv'
<1> /\ obj \in [Ids -> PositionType] /\ rows \in [Ids -> PositionType]
    /\ positions \subseteq Ids
  BY DEF TypeOK, MemoryOK, StoreOK
<1> USE DEF WrittenOffInv
<1>1. CASE UNCHANGED <<obj, rows>>
  BY <1>1
<1>2. CASE Start
  BY <1>2 DEF Start, store, NoPosition, Terminal
<1>3. CASE ProcessLost
  BY <1>3 DEF ProcessLost, GoDown, NoPosition
<1>4. CASE UpdateUnrealizedPnl
  BY <1>4 DEF UpdateUnrealizedPnl, Open, memory
<1>5. ASSUME NEW t \in Tasks, CloseRow(t) PROVE WrittenOffInv'
  BY <1>5 DEF CloseRow, Terminal, memory, PositionType
<1>6. ASSUME NEW t \in Tasks, FinishClose(t) PROVE WrittenOffInv'
  BY <1>6 DEF FinishClose, store, PositionType
<1>7. ASSUME NEW t \in Tasks, ExternallyClosed(t) PROVE WrittenOffInv'
  BY <1>7 DEF ExternallyClosed, GoDown, NoPosition, Terminal, PositionType
<1>8. ASSUME NEW p \in Ids, NEW r \in PositionType, Rewritten(p, r) PROVE WrittenOffInv'
  <2>1. rows' = [rows EXCEPT ![p] = r] /\ obj' = [obj EXCEPT ![p] = r]
    BY <1>8 DEF Rewritten, Save
  <2> QED
    BY <2>1 DEF Terminal
<1> QED
  BY <1>1, <1>2, <1>3, <1>4, <1>5, <1>6, <1>7, <1>8, BookMoves DEF BookMove

\* Where a step can leave a task: where it was, with the frame it had, or at
\* the end of a step of its own.
LEMMA LoopStep ==
  ASSUME TypeOK, LoopInv, [Next]_vars
  PROVE  LoopInv'
<1> /\ frame \in [Tasks -> FrameType] /\ pc \in [Tasks -> Stages]
  BY DEF TypeOK, ControlOK
<1> Main \in Tasks
  BY DEF Tasks
<1> USE DEF At, Await, Go, MayAwait, Local, Return, NextItem, NoFrame, FrameType, LoopInv,
        control
<1>1. CASE UNCHANGED vars \/ UpdateUnrealizedPnl \/ Exchange
  BY <1>1 DEF vars, UpdateUnrealizedPnl, Exchange, EntryArrives, EntryFills, ExitExecutes,
     ExternalTrade
<1>2. CASE Start
  BY <1>2 DEF Start
<1>3. ASSUME GoDown PROVE LoopInv'
  BY <1>3 DEF GoDown
<1>4. CASE Crash \/ ExitProcess
  BY <1>3, <1>4 DEF Crash, ExitProcess
<1>5. ASSUME NEW t \in Tasks, NEW next, PlaceEntryOrder(t, next) PROVE LoopInv'
  BY <1>5 DEF PlaceEntryOrder
<1>6. ASSUME Shutdown PROVE LoopInv'
  BY <1>6 DEF Shutdown
<1>7. CASE Connect \/ LoopForceClose
  BY <1>6, <1>7 DEF Connect, LoopForceClose
<1>8. CASE ReconcileAgain \/ MaybeReconcile
  BY <1>8 DEF ReconcileAgain, MaybeReconcile
<1>9. CASE CheckPositionExits
  BY <1>9 DEF CheckPositionExits
<1>10. CASE EnterLoop \/ ProcessSignal \/ CancelAllOrders \/ PersistState
  BY <1>10 DEF EnterLoop, ProcessSignal, CancelAllOrders, PersistState
<1>11. CASE SignalEntry
  BY <1>5, <1>11 DEF SignalEntry
<1>12. ASSUME NEW t \in Requests, Request(t) PROVE LoopInv'
  <2> t \in Tasks
    BY DEF Tasks
  <2> QED
    BY <1>5, <1>12 DEF Request, CloseAllRequest, ManualTradeRequest, PauseRequest
<1>13. ASSUME NEW t \in Tasks, Return(t) PROVE LoopInv'
  BY <1>13
<1>14. ASSUME NEW t \in Tasks, NextItem(t) PROVE LoopInv'
  BY <1>14
<1>15. ASSUME NEW t \in Tasks, Entering(t) PROVE LoopInv'
  BY <1>13, <1>15 DEF Entering, EntryAccepted, EntryRejected, EntryUnknown
<1>16. ASSUME NEW t \in Tasks, Closing(t) PROVE LoopInv'
  <2>1. CASE Return(t) \/ NextItem(t)
    BY <1>13, <1>14, <2>1
  <2>2. CASE ForceCloseAll(t)
    <3>1. CASE pc' = [pc EXCEPT ![t] = "close_loop"]
               /\ frame' = [frame EXCEPT ![t] =
                             [frame[t] EXCEPT !.todo = Open, !.loop = "close_loop"]]
      <4>1. frame'[t].loop = "close_loop" /\ \A u \in Tasks \ {t} : frame'[u] = frame[u]
        BY <3>1
      <4> QED
        BY <3>1, <4>1
    <3> QED
      BY <1>13, <2>2, <3>1 DEF ForceCloseAll
  <2>5. CASE SkipPendingExit(t)
    BY <2>5 DEF SkipPendingExit
  <2>3. CASE RequestExit(t)
    BY <2>3 DEF RequestExit
  <2>4. CASE ExitAccepted(t)
    BY <2>4 DEF ExitAccepted
  <2> QED
    BY <1>16, <2>1, <2>2, <2>3, <2>4, <2>5 DEF Closing, CloseLoopEnds, ExitRejected, ExitUnknown
<1>17. ASSUME NEW t \in Tasks, Confirming(t) PROVE LoopInv'
  <2>1. CASE NextItem(t)
    BY <1>14, <2>1
  <2>2. CASE ~NextItem(t) /\ ConfirmRead(t)
    BY <2>2 DEF ConfirmRead
  <2>3. CASE RecordFill(t) \/ FullExit(t) \/ SaveTrade(t) \/ CloseRow(t)
    BY <2>3 DEF RecordFill, FullExit, SaveTrade, CloseRow
  <2>4. CASE FinishClose(t)
    BY <2>4 DEF FinishClose
  <2> QED
    BY <1>17, <2>1, <2>2, <2>3, <2>4 DEF Confirming, DuplicateFill, NoMatchingFill,
       PartialExit
<1>18. CASE Reconciling(Main)
  <2>1. CASE Return(Main) \/ Shutdown \/ GoDown
    BY <1>3, <1>6, <1>13, <2>1
  <2>2. CASE ReadSnapshot(Main)
    BY <2>2 DEF ReadSnapshot
  <2>3. CASE ReconcileBegin(Main)
    BY <2>3 DEF ReconcileBegin, Authoritative
  <2>4. CASE ReconcileMatched(Main) \/ KeepPendingEntry(Main)
    <3>1. CASE ReconcileMatched(Main)
      BY <3>1 DEF ReconcileMatched
    <3>2. CASE KeepPendingEntry(Main)
      BY <3>2 DEF KeepPendingEntry
    <3> QED
      BY <2>4, <3>1, <3>2
  <2>5. CASE ResolveExit(Main)
    BY <2>5 DEF ResolveExit
  <2>6. CASE ~GoDown /\ ExternallyClosed(Main)
    BY <2>6 DEF ExternallyClosed
  <2> QED
    BY <1>18, <2>1, <2>2, <2>3, <2>4, <2>5, <2>6 DEF Reconciling, ReconcileUnavailable,
       RecoverUnmanaged, ReconcileEnds
<1> QED
  BY <1>1, <1>2, <1>4, <1>7, <1>8, <1>9, <1>10, <1>11, <1>12, <1>15, <1>16, <1>17, <1>18
  DEF Next, MainLoop, Handler

-----------------------------------------------------------------------------
(* Written-off positions: the action property.                             *)

LEMMA WriteOff ==
  ASSUME TypeOK, AtInv, HandInv, SettleInv, WrittenOffInv, LoopInv, [Next]_vars,
         NEW p \in Ids,
         rows'[p].state = "externally_closed", rows[p].state \notin Terminal
  PROVE  \E t \in Tasks : pc[t] = "reconcile_loop" /\ frame[t].snapshot = Success(0)
<1> /\ obj \in [Ids -> PositionType] /\ rows \in [Ids -> PositionType]
    /\ rows[p].state # "externally_closed"
  BY DEF TypeOK, MemoryOK, StoreOK, Terminal
<1>1. CASE rows' = rows
  BY <1>1
<1>2. CASE UpdateUnrealizedPnl
  BY <1>2 DEF UpdateUnrealizedPnl, Open
<1>3. ASSUME NEW t \in Tasks, CloseRow(t) PROVE FALSE
  BY <1>3 DEF CloseRow, PositionType
<1>4. CASE ExternallyClosed(Main)
  <2>1. Main \in Tasks /\ pc[Main] = "reconcile_loop" /\ frame[Main].snapshot.qty = 0
    BY <1>4 DEF ExternallyClosed, At, Tasks
  <2>2. frame[Main].snapshot.available /\ frame[Main].snapshot \in Snapshots
    BY <2>1, FrameFields DEF LoopInv, TypeOK
  <2>3. frame[Main].snapshot = Success(0)
    BY <2>1, <2>2 DEF Snapshots, Success
  <2> QED
    BY <2>1, <2>3
<1>5. ASSUME NEW id \in Ids, NEW r \in PositionType, Rewritten(id, r) PROVE FALSE
  <2>1. rows' = [rows EXCEPT ![id] = r]
    BY <1>5 DEF Rewritten, Save
  <2>2. id = p /\ r.state = "externally_closed"
    BY <2>1
  <2>3. obj[p].state = "externally_closed"
    BY <1>5, <2>2 DEF Rewritten
  <2> QED
    BY <2>3 DEF WrittenOffInv
<1> QED
  BY <1>1, <1>2, <1>3, <1>4, <1>5, BookMoves
  DEF BookMove, Start, ProcessLost, FinishClose, store

-----------------------------------------------------------------------------
(* The ledger of trades: whose fill it was.                                *)

\* The order id a position carries, in memory or in its row, is of an order
\* sent for that position, and so is the order an exit awaits.
OrderInv ==
  /\ \A p \in Ids :
       /\ obj[p].exit_oid # None => exitOrder[obj[p].exit_oid].pos = p
       /\ rows[p].exit_oid # None => exitOrder[rows[p].exit_oid].pos = p
  /\ \A t \in Tasks : pc[t] = "exit_wait" /\ frame[t].order # None
                      => exitOrder[frame[t].order].pos = frame[t].at
  /\ \A o \in Exits : exitOrder[o].state = "none" => exitOrder[o].pos = None

\* An order belongs to one position for ever.
LEMMA OrderKeepsPosition ==
  ASSUME TypeOK, OrderInv, [Next]_vars, NEW o \in Exits, exitOrder[o].pos # None
  PROVE  exitOrder'[o].pos = exitOrder[o].pos
<1> exitOrder \in [Exits -> ExitOrders] /\ exitOrder[o].state # "none"
  BY DEF TypeOK, ExchangeOK, OrderInv
<1>1. CASE ExitExecutes
  <2>1. PICK id \in Exits : \E q \in 0 .. exitOrder[id].want :
          exitOrder' = [exitOrder EXCEPT ![id].state = "done", ![id].filled = q]
    BY <1>1 DEF ExitExecutes
  <2> QED
    BY <2>1 DEF ExitOrders
<1>2. ASSUME NEW t \in Tasks, RequestExit(t) PROVE exitOrder'[o] = exitOrder[o]
  BY <1>2, NoneAssumption DEF RequestExit, FreshExits
<1>3. ASSUME NEW t \in Tasks, ExitRejected(t) PROVE exitOrder'[o].pos = exitOrder[o].pos
  BY <1>3 DEF ExitRejected, ExitOrders
<1>4. ASSUME NEW t \in Tasks, RecordFill(t) \/ SaveTrade(t) PROVE exitOrder' = exitOrder
  BY <1>4 DEF RecordFill, SaveTrade, exchange
<1> QED
  BY <1>1, <1>2, <1>3, <1>4, LedgerChanges

-----------------------------------------------------------------------------
(* Orders awaited.                                                         *)

\* Who comes to the await of an order's answer.
LEMMA WaitMoves ==
  ASSUME TypeOK, ControlInv, [Next]_vars, NEW t \in Tasks,
         pc'[t] \in {"entry_wait", "exit_wait"}
  PROVE  /\ ~Start /\ ~GoDown
         /\ \/ pc'[t] = pc[t] /\ frame'[t] = frame[t]
            \/ pc'[t] = "entry_wait" /\ \E next : PlaceEntryOrder(t, next)
            \/ pc'[t] = "exit_wait" /\ RequestExit(t)
<1> DEFINE Stays == pc'[t] = pc[t] /\ frame'[t] = frame[t]
           Waits == pc'[t] \in {"entry_wait", "exit_wait"}
           Came == \/ Stays \/ ~Waits
                   \/ pc'[t] = "entry_wait" /\ \E next : PlaceEntryOrder(t, next)
                   \/ pc'[t] = "exit_wait" /\ RequestExit(t)
<1> frame \in [Tasks -> FrameType] /\ pc \in [Tasks -> Stages] /\ Main \in Tasks
  BY DEF TypeOK, ControlOK, Tasks
<1>1. ~Start
  BY DEF Start, Await, ControlInv, DownInv, Tasks
<1>2. ~GoDown
  BY DEF GoDown
<1> SUFFICES Came
  BY <1>1, <1>2
<1> DEFINE Calm == Stages \ {"entry_wait", "exit_wait"}
<1>3. ASSUME NEW u \in Tasks, NEW stage \in Calm,
             Await(u, stage) \/ Go(u, stage) \/ MayAwait(u, stage),
             UNCHANGED frame \/ \E f : Local(u, f)
      PROVE  Came
  <2>1. u = t => ~Waits
    BY <1>3 DEF Await, Go, MayAwait
  <2>2. u # t => Stays
    BY <1>3 DEF Await, Go, MayAwait, Local
  <2> QED
    BY <2>1, <2>2
<1>4. \A u \in Tasks : frame[u].loop \in Calm /\ frame[u].then \in Calm
  BY DEF FrameType, Stages
<1>5. ASSUME NEW u \in Tasks, Return(u) \/ NextItem(u) PROVE Came
  BY <1>3, <1>4, <1>5 DEF Return, NextItem
<1>6. ASSUME NEW u \in Tasks, NEW next, PlaceEntryOrder(u, next) PROVE Came
  <2>1. u = t => pc'[t] = "entry_wait"
    BY <1>6 DEF PlaceEntryOrder, Await
  <2>2. u # t => Stays
    BY <1>6 DEF PlaceEntryOrder, Await, Local
  <2> QED
    BY <1>6, <2>1, <2>2
<1>7. CASE UNCHANGED control
  BY <1>7 DEF control
<1> /\ {"close_price", "reconcile_read", "reconcile_apply", "reconcile_loop", "loop",
        "signal_mids", "close_loop", "exit_process", "confirm_read", "confirm_fills",
        "confirm_settle", "save_trade", "close_row", "finish_close"} \subseteq Calm
  BY DEF Stages
<1> HIDE DEF Calm, Came
<1>8. CASE Shutdown
  BY <1>3, <1>8 DEF Shutdown
<1>9. CASE MainLoop /\ ~ExitProcess
  BY <1>3, <1>6, <1>7, <1>8, <1>9 DEF MainLoop, Connect, ReconcileAgain, EnterLoop,
     LoopForceClose, PersistState, MaybeReconcile, CheckPositionExits, ProcessSignal,
     SignalEntry, CancelAllOrders
<1>10. ASSUME NEW u \in Requests, Request(u) PROVE Came
  BY <1>3, <1>6, <1>7, <1>10
  DEF Request, CloseAllRequest, ManualTradeRequest, PauseRequest, Tasks
<1>11. ASSUME NEW u \in Tasks, Entering(u) PROVE Came
  BY <1>5, <1>11 DEF Entering, EntryAccepted, EntryRejected, EntryUnknown
<1>12. ASSUME NEW u \in Tasks, RequestExit(u) PROVE Came
  <2>1. u = t => pc'[t] = "exit_wait"
    BY <1>12 DEF RequestExit, Await
  <2>2. u # t => Stays
    BY <1>12 DEF RequestExit, Await, Local
  <2> QED
    BY <1>12, <2>1, <2>2 DEF Came
<1>13. ASSUME NEW u \in Tasks, Closing(u), ~RequestExit(u) PROVE Came
  BY <1>3, <1>5, <1>13 DEF Closing, ForceCloseAll, CloseLoopEnds, SkipPendingExit,
     ExitAccepted, ExitRejected, ExitUnknown
<1>14. ASSUME NEW u \in Tasks, Confirming(u) PROVE Came
  BY <1>3, <1>4, <1>5, <1>14 DEF Confirming, ConfirmRead, DuplicateFill, RecordFill,
     NoMatchingFill, PartialExit, FullExit, SaveTrade, CloseRow, FinishClose
<1>15. CASE ReadSnapshot(Main)
  BY <1>15 DEF ReadSnapshot, Local, Came
<1>16. CASE Reconciling(Main) /\ ~ReadSnapshot(Main)
  BY <1>2, <1>3, <1>5, <1>8, <1>16 DEF Reconciling, ReconcileUnavailable, ReconcileBegin,
     RecoverUnmanaged, ReconcileMatched, KeepPendingEntry, ResolveExit, ExternallyClosed,
     ReconcileEnds
<1> QED
  BY <1>1, <1>2, <1>7, <1>9, <1>10, <1>11, <1>12, <1>13, <1>14, <1>15, <1>16
  DEF Next, Handler, Exchange, EntryArrives, EntryFills, ExitExecutes, ExternalTrade,
      UpdateUnrealizedPnl, Crash, MainLoop, ExitProcess, vars

LEMMA HandStep ==
  ASSUME TypeOK, ControlInv, HandInv, SettleInv, [Next]_vars
  PROVE  HandInv'
<1> /\ obj \in [Ids -> PositionType] /\ frame \in [Tasks -> FrameType]
  BY DEF TypeOK, ControlOK, MemoryOK
<1> SUFFICES ASSUME NEW t \in Tasks, pc'[t] \in {"entry_wait", "exit_wait"}
             PROVE  obj'[frame'[t].at].state # "absent"
  BY DEF HandInv
<1>1. CASE pc'[t] = pc[t] /\ frame'[t] = frame[t]
  <2> DEFINE p == frame[t].at
  <2>1. p \in Ids /\ obj[p].state # "absent"
    BY <1>1 DEF ControlInv, AtInv, HandInv, Working
  <2>2. obj'[p].state # "absent"
    <3>1. ASSUME NEW u \in Tasks, FinishClose(u) PROVE obj'[p].state # "absent"
      BY <2>1, <3>1 DEF FinishClose, PositionType
    <3>3. ASSUME NEW u \in Tasks, ExternallyClosed(u) PROVE obj'[p].state # "absent"
      <4>1. ~GoDown
        BY WaitMoves
      <4> QED
        BY <2>1, <3>3, <4>1 DEF ExternallyClosed, PositionType
    <3>2. ASSUME NEW id \in Ids, NEW r \in PositionType, Rewritten(id, r)
          PROVE  obj'[p].state # "absent"
      BY <2>1, <3>2 DEF Rewritten, Save
    <3> QED
      BY <2>1, <3>1, <3>2, <3>3, WaitMoves, BookMoves
      DEF BookMove, ProcessLost, ControlInv, UpdateUnrealizedPnl, CloseRow, memory
  <2> QED
    BY <1>1, <2>2
<1>2. ASSUME NEW next, PlaceEntryOrder(t, next) PROVE obj'[frame'[t].at].state # "absent"
  <2> DEFINE p == CHOOSE id \in Fresh : TRUE
  <2>1. p \in Ids
    BY <1>2 DEF PlaceEntryOrder, CanEnter, Fresh
  <2>2. frame'[t].at = p /\ obj'[p].state = "pending_entry"
    BY <1>2, <2>1 DEF PlaceEntryOrder, Local, Save, NoFrame
  <2> QED
    BY <2>2
<1>3. ASSUME RequestExit(t) PROVE obj'[frame'[t].at].state # "absent"
  <2>1. PICK p \in frame[t].todo :
          /\ Save(p, [obj[p] EXCEPT !.state = "exit_requested"])
          /\ frame'[t].at = p
    BY <1>3 DEF RequestExit, Local, FrameType
  <2>2. p \in Ids
    BY FrameFields DEF TypeOK
  <2> QED
    BY <2>1, <2>2 DEF Save, PositionType
<1> QED
  BY <1>1, <1>2, <1>3, WaitMoves

LEMMA OrderStep ==
  ASSUME TypeOK, ControlInv, HandInv, SettleInv, OrderInv, [Next]_vars
  PROVE  OrderInv'
<1> /\ obj \in [Ids -> PositionType] /\ rows \in [Ids -> PositionType]
    /\ frame \in [Tasks -> FrameType] /\ exitOrder \in [Exits -> ExitOrders]
    /\ positions \subseteq Ids
  BY DEF TypeOK, ControlOK, MemoryOK, StoreOK, ExchangeOK
<1>1. \A o \in Exits, p \in Ids : exitOrder[o].pos = p => exitOrder'[o].pos = p
  BY OrderKeepsPosition, NoneAssumption
<1>2. ASSUME NEW p \in Ids
      PROVE  /\ obj'[p].exit_oid # None => exitOrder'[obj'[p].exit_oid].pos = p
             /\ rows'[p].exit_oid # None => exitOrder'[rows'[p].exit_oid].pos = p
  <2> DEFINE Own(o) == o # None => exitOrder'[o].pos = p
  <2>1. Own(obj[p].exit_oid) /\ Own(rows[p].exit_oid)
    BY <1>1 DEF OrderInv, PositionType
  <2>2. Own(NoPosition.exit_oid)
    BY DEF NoPosition
  <2> SUFFICES Own(obj'[p].exit_oid) /\ Own(rows'[p].exit_oid)
    OBVIOUS
  <2> HIDE DEF Own
  <2>3. CASE Start
    BY <2>1, <2>2, <2>3 DEF Start, store
  <2>4. CASE ProcessLost
    BY <2>1, <2>2, <2>4 DEF ProcessLost, GoDown
  <2>5. CASE UpdateUnrealizedPnl
    BY <2>1, <2>5 DEF UpdateUnrealizedPnl, memory
  <2>6. ASSUME NEW t \in Tasks, CloseRow(t) PROVE Own(obj'[p].exit_oid) /\ Own(rows'[p].exit_oid)
    <3>1. obj' = obj /\ rows'[p].exit_oid = rows[p].exit_oid
      BY <2>6 DEF CloseRow, memory, PositionType
    <3> QED
      BY <2>1, <3>1
  <2>7. ASSUME NEW t \in Tasks, FinishClose(t) PROVE Own(obj'[p].exit_oid) /\ Own(rows'[p].exit_oid)
    <3>1. rows' = rows /\ obj'[p].exit_oid = obj[p].exit_oid
      BY <2>7 DEF FinishClose, store, PositionType
    <3> QED
      BY <2>1, <3>1
  <2>8. CASE ExternallyClosed(Main)
    <3>1. PICK id \in frame[Main].todo :
            LET closed == [obj[id] EXCEPT !.state = "externally_closed"]
            IN /\ rows' = [rows EXCEPT ![id] = closed]
               /\ obj' = [obj EXCEPT ![id] = closed] \/ GoDown
      BY <2>8 DEF ExternallyClosed
    <3>2. id \in Ids
      BY FrameFields DEF TypeOK, Tasks
    <3>3. [obj[id] EXCEPT !.state = "externally_closed"].exit_oid = obj[id].exit_oid
      BY <3>2 DEF PositionType
    <3>4. rows'[p].exit_oid \in {rows[p].exit_oid, obj[p].exit_oid}
      BY <3>1, <3>2, <3>3
    <3>5. obj'[p].exit_oid \in {obj[p].exit_oid, NoPosition.exit_oid}
      BY <3>1, <3>2, <3>3 DEF GoDown
    <3> QED
      BY <2>1, <2>2, <3>4, <3>5
  <2>9. ASSUME NEW id \in Ids, NEW r \in PositionType, Rewritten(id, r)
        PROVE  Own(obj'[p].exit_oid) /\ Own(rows'[p].exit_oid)
    <3>1. obj' = [obj EXCEPT ![id] = r] /\ rows' = [rows EXCEPT ![id] = r]
      BY <2>9 DEF Rewritten, Save
    <3>2. CASE id # p
      BY <2>1, <3>1, <3>2
    <3>3. CASE id = p
      <4>1. Own(r.exit_oid)
        <5>1. CASE r.exit_oid \in {None, obj[p].exit_oid}
          BY <2>1, <5>1 DEF Own
        <5>2. ASSUME NEW t \in Tasks, pc[t] = "exit_wait", frame[t].at = p,
                     frame[t].order # None, r.exit_oid = frame[t].order
              PROVE  Own(r.exit_oid)
          <6>1. frame[t].order \in Exits /\ exitOrder[frame[t].order].pos = p
            BY <5>2, FrameFields DEF TypeOK, OrderInv
          <6> QED
            BY <1>1, <5>2, <6>1 DEF Own
        <5> QED
          BY <2>9, <3>3, <5>1, <5>2 DEF Rewritten
      <4> QED
        BY <3>1, <3>3, <4>1
    <3> QED
      BY <3>2, <3>3
  <2> QED
    BY <2>1, <2>3, <2>4, <2>5, <2>6, <2>7, <2>8, <2>9, BookMoves DEF BookMove, ControlInv
<1>3. ASSUME NEW t \in Tasks, pc'[t] = "exit_wait", frame'[t].order # None
      PROVE  exitOrder'[frame'[t].order].pos = frame'[t].at
  <2>1. CASE pc'[t] = pc[t] /\ frame'[t] = frame[t]
    <3>1. frame[t].order \in Exits /\ frame[t].at \in Ids
      BY <1>3, <2>1, FrameFields DEF TypeOK, ControlInv, AtInv, Working
    <3> QED
      BY <1>1, <1>3, <2>1, <3>1 DEF OrderInv
  <2>2. CASE RequestExit(t)
    <3> DEFINE o == IF FreshExits = {} THEN None ELSE CHOOSE id \in FreshExits : TRUE
    <3>1. PICK p \in frame[t].todo :
            /\ exitOrder' =
                 [id \in Exits |->
                    IF id = o THEN [pos |-> p, want |-> obj[p].qty,
                                    state |-> "inflight", filled |-> 0]
                    ELSE exitOrder[id]]
            /\ frame'[t].at = p /\ frame'[t].order = o
      BY <2>2 DEF RequestExit, Local, FrameType
    <3>2. o \in Exits \cup {None}
      BY DEF FreshExits
    <3> HIDE DEF o
    <3> QED
      BY <1>3, <3>1, <3>2
  <2> QED
    BY <1>3, <2>1, <2>2, WaitMoves
<1>4. ASSUME NEW o \in Exits, exitOrder'[o].state = "none" PROVE exitOrder'[o].pos = None
  <2>1. ASSUME NEW t \in Tasks, RequestExit(t)
        PROVE  exitOrder'[o] = exitOrder[o]
    BY <1>4, <2>1 DEF RequestExit
  <2>2. ASSUME NEW t \in Tasks, ExitRejected(t)
        PROVE  exitOrder'[o] = exitOrder[o]
    BY <1>4, <2>2 DEF ExitRejected, ExitOrders
  <2>3. CASE ExitExecutes
    <3>1. PICK id \in Exits : \E q \in 0 .. exitOrder[id].want :
            exitOrder' = [exitOrder EXCEPT ![id].state = "done", ![id].filled = q]
      BY <2>3 DEF ExitExecutes
    <3>2. exitOrder'[o] = exitOrder[o]
      BY <1>4, <3>1 DEF ExitOrders
    <3> QED
      BY <1>4, <3>2 DEF OrderInv
  <2>4. CASE exitOrder' = exitOrder
    BY <1>4, <2>4 DEF OrderInv
  <2> QED
    BY <1>4, <2>1, <2>2, <2>3, <2>4, LedgerChanges
    DEF OrderInv, RecordFill, SaveTrade, exchange
<1> QED
  BY <1>2, <1>3, <1>4 DEF OrderInv

\* The trades of a position are counted by the exit orders it was paid from.
PaidBy(p) == {o \in Exits : exitOrder[o].pos = p /\ booked[o] = 1}

TradesInv == IsFiniteSet(ledger) /\ TradesFromOwnFills

LEMMA TradesMove ==
  ASSUME [Next]_vars
  PROVE  UNCHANGED <<booked, trades>> \/ \E t \in Tasks : SaveTrade(t)
<1> DEFINE Same == UNCHANGED <<booked, trades>>
<1> USE DEF PlaceEntryOrder, store
<1>1. CASE Start \/ Crash \/ UpdateUnrealizedPnl \/ UNCHANGED vars
  BY <1>1 DEF Start, Crash, UpdateUnrealizedPnl, vars
<1>2. CASE MainLoop
  BY <1>2 DEF MainLoop, Connect, ReconcileAgain, EnterLoop, LoopForceClose, PersistState,
     MaybeReconcile, CheckPositionExits, ProcessSignal, SignalEntry, CancelAllOrders,
     ExitProcess
<1>3. CASE Exchange
  BY <1>3 DEF Exchange, EntryArrives, EntryFills, ExitExecutes, ExternalTrade
<1>4. ASSUME NEW t \in Requests, Request(t) PROVE Same
  BY <1>4 DEF Request, CloseAllRequest, ManualTradeRequest, PauseRequest
<1>5. ASSUME NEW t \in Tasks, Entering(t) \/ Closing(t) PROVE Same
  BY <1>5 DEF Entering, EntryAccepted, EntryRejected, EntryUnknown, Closing, ForceCloseAll,
     CloseLoopEnds, SkipPendingExit, RequestExit, ExitAccepted, ExitRejected, ExitUnknown
<1>6. ASSUME NEW t \in Tasks, Confirming(t), ~SaveTrade(t) PROVE Same
  BY <1>6 DEF Confirming, ConfirmRead, DuplicateFill, RecordFill, NoMatchingFill,
     PartialExit, FullExit, CloseRow, FinishClose
<1>7. ASSUME NEW t \in Tasks, Reconciling(t) PROVE Same
  BY <1>7 DEF Reconciling, ReadSnapshot, ReconcileUnavailable, ReconcileBegin,
     RecoverUnmanaged, ReconcileMatched, KeepPendingEntry, ResolveExit, ExternallyClosed,
     ReconcileEnds
<1> QED
  BY <1>1, <1>2, <1>3, <1>4, <1>5, <1>6, <1>7 DEF Next, Handler

\* Only _finalize_closed_position books, and it books one order of its own
\* position that no trade was computed from before.
LEMMA TradesStep ==
  ASSUME TypeOK, ControlInv, HandInv, SettleInv, LedgerInv, OrderInv, TradesInv, [Next]_vars
  PROVE  TradesInv'
<1> /\ booked \in [Exits -> Nat] /\ ledger \subseteq Exits
    /\ exitOrder \in [Exits -> ExitOrders] /\ trades \in [Ids -> Nat]
    /\ IsFiniteSet(ledger)
  BY DEF TypeOK, StoreOK, ExchangeOK, TradesInv
<1>1. \A p \in Ids : trades[p] = Cardinality(PaidBy(p)) /\ IsFiniteSet(PaidBy(p))
  <2>1. \A p \in Ids : PaidBy(p) \subseteq ledger
    BY DEF PaidBy, LedgerInv
  <2> QED
    BY <2>1, FS_Subset DEF TradesInv, TradesFromOwnFills, PaidBy
<1>2. IsFiniteSet(ledger')
  <2>1. ASSUME NEW t \in Tasks, RecordFill(t) PROVE IsFiniteSet(ledger')
    BY <2>1, FS_AddElement DEF RecordFill
  <2> QED
    BY <2>1, LedgerChanges DEF ExitExecutes, RequestExit, ExitRejected, SaveTrade, store
<1>3. ASSUME NEW o \in Exits, booked[o] = 1 PROVE exitOrder'[o].pos = exitOrder[o].pos
  <2>1. exitOrder[o].state # "none"
    BY <1>3 DEF LedgerInv
  <2>2. ASSUME NEW t \in Tasks, RequestExit(t) PROVE exitOrder'[o] = exitOrder[o]
    BY <2>1, <2>2, NoneAssumption DEF RequestExit, FreshExits
  <2>3. ASSUME NEW t \in Tasks, ExitRejected(t)
        PROVE  exitOrder'[o].pos = exitOrder[o].pos
    BY <2>3 DEF ExitRejected, ExitOrders
  <2>4. CASE ExitExecutes
    <3>1. PICK id \in Exits : \E q \in 0 .. exitOrder[id].want :
            exitOrder' = [exitOrder EXCEPT ![id].state = "done", ![id].filled = q]
      BY <2>4 DEF ExitExecutes
    <3> QED
      BY <3>1 DEF ExitOrders
  <2> QED
    BY <2>2, <2>3, <2>4, LedgerChanges DEF RecordFill, SaveTrade, exchange
<1>4. CASE UNCHANGED <<booked, trades>>
  <2>1. \A p \in Ids : PaidBy(p)' = PaidBy(p)
    BY <1>3, <1>4 DEF PaidBy
  <2>2. \A p \in Ids : trades'[p] = Cardinality(PaidBy(p)')
    BY <1>1, <1>4, <2>1
  <2> QED
    BY <1>2, <2>2 DEF TradesInv, TradesFromOwnFills, PaidBy
<1>5. ASSUME NEW t \in Tasks, SaveTrade(t) PROVE TradesInv'
  <2>1. PICK p \in Ids, o \in ledger : p = frame[t].at /\ o = obj[p].exit_oid /\ booked[o] = 0
    BY <1>5 DEF SaveTrade, At, ControlInv, AtInv, Working, SettleInv
  <2>2. exitOrder[o].pos = p
    BY <2>1, NoneAssumption DEF OrderInv
  <2>3. /\ trades' = [trades EXCEPT ![p] = @ + 1] /\ exitOrder' = exitOrder
        /\ booked' = [id \in Exits |-> IF id = o THEN booked[id] + 1 ELSE booked[id]]
    BY <1>5, <2>1 DEF SaveTrade, exchange
  <2>4. PaidBy(p)' = PaidBy(p) \cup {o} /\ o \notin PaidBy(p)
    BY <2>1, <2>2, <2>3 DEF PaidBy
  <2>5. \A id \in Ids : id # p => PaidBy(id)' = PaidBy(id)
    BY <2>1, <2>2, <2>3 DEF PaidBy
  <2>6. Cardinality(PaidBy(p)') = Cardinality(PaidBy(p)) + 1
    BY <1>1, <2>4, FS_AddElement
  <2>7. \A id \in Ids : trades'[id] = Cardinality(PaidBy(id)')
    BY <1>1, <2>1, <2>3, <2>5, <2>6
  <2> QED
    BY <1>2, <2>7 DEF TradesInv, TradesFromOwnFills, PaidBy
<1> QED
  BY <1>4, <1>5, TradesMove

-----------------------------------------------------------------------------
(* Entries, and what tells the bot of exposure.                            *)

\* An entry order was placed for a position that has a row since, and has no
\* more left than it asked for.
EntryInv ==
  \A p \in Ids : /\ entryOrder[p].left <= Lot
                 /\ entryOrder[p].state # "none" => rows[p].state # "absent"

\* A row once written stays.
LEMMA RowStays ==
  ASSUME TypeOK, ControlInv, HandInv, SettleInv, [Next]_vars, NEW p \in Ids,
         rows[p].state # "absent"
  PROVE  rows'[p].state # "absent"
<1> /\ obj \in [Ids -> PositionType] /\ rows \in [Ids -> PositionType]
  BY DEF TypeOK, MemoryOK, StoreOK
<1>1. ASSUME NEW t \in Tasks, CloseRow(t) PROVE rows'[p].state # "absent"
  BY <1>1 DEF CloseRow, PositionType
<1>2. ASSUME NEW t \in Tasks, ExternallyClosed(t) PROVE rows'[p].state # "absent"
  BY <1>2 DEF ExternallyClosed, PositionType
<1>3. ASSUME NEW id \in Ids, NEW r \in PositionType, Rewritten(id, r)
      PROVE  rows'[p].state # "absent"
  BY <1>3 DEF Rewritten, Save
<1> QED
  BY <1>1, <1>2, <1>3, BookMoves
  DEF BookMove, ProcessLost, Start, UpdateUnrealizedPnl, FinishClose, Open, ControlInv, store

\* What a step does to an entry order: it is placed for a fresh position, or
\* goes on with no more left than before.
EntryMove(p) ==
  \/ entryOrder'[p] = entryOrder[p]
  \/ p \in Fresh /\ rows'[p].state # "absent" /\ entryOrder'[p].left = Lot
  \/ /\ entryOrder[p].state # "none" /\ entryOrder'[p].state # "none"
     /\ entryOrder'[p].left <= entryOrder[p].left

LEMMA EntryMoves ==
  ASSUME TypeOK, ControlInv, [Next]_vars, NEW p \in Ids
  PROVE  EntryMove(p)
<1> /\ entryOrder \in [Ids -> EntryOrders] /\ entryOrder[p] \in EntryOrders
    /\ rows \in [Ids -> PositionType] /\ entryOrder[p].left \in Nat
  BY DEF TypeOK, StoreOK, ExchangeOK, EntryOrders
<1>1. ASSUME NEW t \in Tasks, NEW next, PlaceEntryOrder(t, next) PROVE EntryMove(p)
  <2> DEFINE id == CHOOSE any \in Fresh : TRUE
  <2>1. /\ id \in Fresh /\ id \in Ids
        /\ entryOrder' = [entryOrder EXCEPT ![id] = [state |-> "inflight", left |-> Lot]]
        /\ rows' = [rows EXCEPT ![id] = [state |-> "pending_entry", qty |-> Lot,
                                         exit_oid |-> None, managed |-> TRUE]]
    BY <1>1 DEF PlaceEntryOrder, CanEnter, Fresh, Save
  <2> HIDE DEF id
  <2> QED
    BY <2>1 DEF EntryMove
<1>2. ASSUME NEW t \in Tasks, EntryRejected(t) PROVE EntryMove(p)
  BY <1>2 DEF EntryRejected, EntryMove, EntryOrders
<1>3. CASE CancelAllOrders
  BY <1>3 DEF CancelAllOrders, EntryMove, EntryOrders
<1>4. CASE EntryArrives
  <2>1. PICK id \in Ids, state \in {"resting", "done"} :
          /\ entryOrder[id].state = "inflight"
          /\ entryOrder' = [entryOrder EXCEPT ![id].state = state]
    BY <1>4 DEF EntryArrives
  <2> QED
    BY <2>1 DEF EntryMove, EntryOrders
<1>5. CASE EntryFills
  <2>1. PICK id \in Ids :
          /\ entryOrder[id].state = "resting"
          /\ \E q \in 1 .. entryOrder[id].left :
               entryOrder' = [entryOrder EXCEPT ![id] =
                 [state |-> IF q = entryOrder[id].left THEN "done" ELSE "resting",
                  left |-> entryOrder[id].left - q]]
    BY <1>5 DEF EntryFills
  <2>2. entryOrder[id].left \in Nat
    BY DEF EntryOrders
  <2> QED
    BY <2>1, <2>2 DEF EntryMove
<1> DEFINE Same == UNCHANGED entryOrder
<1>6. Same => EntryMove(p)
  BY DEF EntryMove
<1> HIDE DEF Same
<1>7. CASE Start \/ Crash \/ UpdateUnrealizedPnl \/ UNCHANGED vars
  BY <1>6, <1>7 DEF Same, Start, Crash, UpdateUnrealizedPnl, vars, exchange
<1>8. CASE MainLoop /\ ~CancelAllOrders
  BY <1>1, <1>6, <1>8 DEF Same, MainLoop, Connect, ReconcileAgain, EnterLoop,
     LoopForceClose, PersistState, MaybeReconcile, CheckPositionExits, ProcessSignal,
     SignalEntry, ExitProcess, Tasks, exchange
<1>9. CASE ExitExecutes \/ ExternalTrade
  BY <1>6, <1>9 DEF Same, ExitExecutes, ExternalTrade
<1>10. ASSUME NEW t \in Requests, Request(t) PROVE EntryMove(p)
  BY <1>1, <1>6, <1>10 DEF Same, Request, CloseAllRequest, ManualTradeRequest, PauseRequest,
     Tasks, exchange
<1>11. ASSUME NEW t \in Tasks, Entering(t) \/ Closing(t), ~EntryRejected(t) PROVE Same
  BY <1>11 DEF Same, Entering, EntryAccepted, EntryUnknown, Closing, ForceCloseAll,
     CloseLoopEnds, SkipPendingExit, RequestExit, ExitAccepted, ExitRejected, ExitUnknown,
     exchange
<1>12. ASSUME NEW t \in Tasks, Confirming(t) PROVE Same
  BY <1>12 DEF Same, Confirming, ConfirmRead, DuplicateFill, RecordFill, NoMatchingFill,
     PartialExit, FullExit, SaveTrade, CloseRow, FinishClose, exchange
<1>13. ASSUME NEW t \in Tasks, Reconciling(t) PROVE Same
  BY <1>13 DEF Same, Reconciling, ReadSnapshot, ReconcileUnavailable, ReconcileBegin,
     RecoverUnmanaged, ReconcileMatched, KeepPendingEntry, ResolveExit, ExternallyClosed,
     ReconcileEnds, exchange
<1> QED
  BY <1>2, <1>3, <1>4, <1>5, <1>6, <1>7, <1>8, <1>9, <1>10, <1>11, <1>12, <1>13
  DEF Next, Handler, MainLoop, Exchange

LEMMA EntryStep ==
  ASSUME TypeOK, ControlInv, HandInv, SettleInv, EntryInv, [Next]_vars
  PROVE  EntryInv'
<1> SUFFICES ASSUME NEW p \in Ids
             PROVE  /\ entryOrder'[p].left <= Lot
                    /\ entryOrder'[p].state # "none" => rows'[p].state # "absent"
  BY DEF EntryInv
<1>1. entryOrder[p] \in EntryOrders /\ entryOrder'[p] \in EntryOrders
  BY TypeStep DEF TypeOK, ExchangeOK, ControlInv
<1>2. EntryMove(p)
  BY EntryMoves
<1> QED
  BY <1>1, <1>2, RowStays, LotAssumption DEF EntryMove, EntryInv, EntryOrders

\* Some entry has filled in part, or somebody else has traded on the account:
\* the only ways exposure comes to be.
Partly(e) == entryOrder[e].state # "none" /\ entryOrder[e].left < Lot
Evidence == external > 0 \/ \E e \in Ids : Partly(e)

\* The outside trades are counted, never uncounted.
LEMMA ExternalGrows ==
  ASSUME TypeOK, [Next]_vars
  PROVE  external' = external \/ (ExternalTrade /\ external' = external + 1)
<1> DEFINE Same == UNCHANGED external
<1> USE DEF PlaceEntryOrder, bounds
<1>1. CASE Start \/ Crash \/ UpdateUnrealizedPnl \/ UNCHANGED vars
  BY <1>1 DEF Start, Crash, UpdateUnrealizedPnl, vars
<1>2. CASE MainLoop
  BY <1>2 DEF MainLoop, Connect, ReconcileAgain, EnterLoop, LoopForceClose, PersistState,
     MaybeReconcile, CheckPositionExits, ProcessSignal, SignalEntry, CancelAllOrders,
     ExitProcess
<1>3. CASE Exchange
  BY <1>3 DEF Exchange, EntryArrives, EntryFills, ExitExecutes, ExternalTrade
<1>4. ASSUME NEW t \in Requests, Request(t) PROVE Same
  BY <1>4 DEF Request, CloseAllRequest, ManualTradeRequest, PauseRequest
<1>5. ASSUME NEW t \in Tasks, Entering(t) \/ Closing(t) PROVE Same
  BY <1>5 DEF Entering, EntryAccepted, EntryRejected, EntryUnknown, Closing, ForceCloseAll,
     CloseLoopEnds, SkipPendingExit, RequestExit, ExitAccepted, ExitRejected, ExitUnknown
<1>6. ASSUME NEW t \in Tasks, Confirming(t) PROVE Same
  BY <1>6 DEF Confirming, ConfirmRead, DuplicateFill, RecordFill, NoMatchingFill,
     PartialExit, FullExit, SaveTrade, CloseRow, FinishClose
<1>7. ASSUME NEW t \in Tasks, Reconciling(t) PROVE Same
  BY <1>7 DEF Reconciling, ReadSnapshot, ReconcileUnavailable, ReconcileBegin,
     RecoverUnmanaged, ReconcileMatched, KeepPendingEntry, ResolveExit, ExternallyClosed,
     ReconcileEnds
<1> QED
  BY <1>1, <1>2, <1>3, <1>4, <1>5, <1>6, <1>7 DEF Next, Handler

LEMMA EvidenceStays ==
  ASSUME TypeOK, ControlInv, SettleInv, EntryInv, [Next]_vars, Evidence
  PROVE  Evidence'
<1>1. CASE external > 0
  BY <1>1, ExternalGrows DEF Evidence, TypeOK
<1>2. ASSUME NEW e \in Ids, Partly(e) PROVE Partly(e)'
  <2>1. /\ entryOrder[e].left \in Nat
        /\ e \notin Fresh
    BY <1>2 DEF TypeOK, ExchangeOK, EntryOrders, Partly, EntryInv, Fresh, NoPosition
  <2>2. entryOrder'[e].left \in Nat
    BY TypeStep DEF ControlInv, TypeOK, ExchangeOK, EntryOrders
  <2>3. entryOrder'[e].state # "none" /\ entryOrder'[e].left <= entryOrder[e].left
    BY <1>2, <2>1, <2>2, EntryMoves DEF EntryMove, Partly
  <2> QED
    BY <1>2, <2>1, <2>2, <2>3, LotAssumption DEF Partly
<1> QED
  BY <1>1, <1>2 DEF Evidence

-----------------------------------------------------------------------------
(* Quiet: nothing the bot sees, holds or remembers speaks of exposure.     *)

\* Nothing the bot sees or holds speaks of exposure.
QuietFrame(t) ==
  /\ frame[t].snapshot.qty = 0
  /\ pc[t] # "exit_wait"
  /\ frame[t].loop = "close_loop" => frame[t].todo = {}

Quiet ==
  /\ exposure = 0
  /\ \A t \in Tasks : QuietFrame(t)
  /\ \A p \in Ids : obj[p].state # "open" /\ rows[p].state # "open"

EvidenceInv == Evidence \/ Quiet

LEMMA QuietBook ==
  ASSUME TypeOK, ControlInv, HandInv, SettleInv, Quiet, [Next]_vars, NEW p \in Ids
  PROVE  obj'[p].state # "open" /\ rows'[p].state # "open"
<1> /\ obj \in [Ids -> PositionType] /\ rows \in [Ids -> PositionType]
    /\ obj[p].state # "open" /\ rows[p].state # "open" /\ positions \subseteq Ids
  BY DEF TypeOK, MemoryOK, StoreOK, Quiet
<1>1. Open = {}
  BY DEF Open, Quiet
<1>2. ASSUME NEW t \in Tasks, CloseRow(t)
      PROVE  obj'[p].state # "open" /\ rows'[p].state # "open"
  BY <1>2 DEF CloseRow, memory, PositionType
<1>3. ASSUME NEW t \in Tasks, FinishClose(t)
      PROVE  obj'[p].state # "open" /\ rows'[p].state # "open"
  BY <1>3 DEF FinishClose, store, PositionType
<1>4. ASSUME NEW t \in Tasks, ExternallyClosed(t)
      PROVE  obj'[p].state # "open" /\ rows'[p].state # "open"
  BY <1>4 DEF ExternallyClosed, GoDown, NoPosition, PositionType
<1>5. ~Exposed
  BY FrameFields DEF Quiet, QuietFrame, Exposed, TypeOK
<1>6. ASSUME NEW id \in Ids, NEW r \in PositionType, Rewritten(id, r)
      PROVE  obj'[p].state # "open" /\ rows'[p].state # "open"
  BY <1>5, <1>6 DEF Rewritten, Save, Quiet
<1>7. CASE Start \/ ProcessLost
  BY <1>7 DEF Start, ProcessLost, GoDown, NoPosition, store
<1>8. ~UpdateUnrealizedPnl
  BY <1>1 DEF UpdateUnrealizedPnl
<1> QED
  BY <1>2, <1>3, <1>4, <1>6, <1>7, <1>8, BookMoves DEF BookMove, ControlInv

\* Only the exchange moves the exposure.
LEMMA ExposureMoves ==
  ASSUME [Next]_vars
  PROVE  UNCHANGED exposure \/ EntryFills \/ ExitExecutes \/ ExternalTrade
<1> DEFINE Same == UNCHANGED exposure
<1> USE DEF PlaceEntryOrder, exchange
<1>1. CASE Start \/ Crash \/ UpdateUnrealizedPnl \/ EntryArrives \/ UNCHANGED vars
  BY <1>1 DEF Start, Crash, UpdateUnrealizedPnl, EntryArrives, vars
<1>2. CASE MainLoop
  BY <1>2 DEF MainLoop, Connect, ReconcileAgain, EnterLoop, LoopForceClose, PersistState,
     MaybeReconcile, CheckPositionExits, ProcessSignal, SignalEntry, CancelAllOrders,
     ExitProcess
<1>3. ASSUME NEW t \in Requests, Request(t) PROVE Same
  BY <1>3 DEF Request, CloseAllRequest, ManualTradeRequest, PauseRequest
<1>4. ASSUME NEW t \in Tasks, Entering(t) \/ Closing(t) PROVE Same
  BY <1>4 DEF Entering, EntryAccepted, EntryRejected, EntryUnknown, Closing, ForceCloseAll,
     CloseLoopEnds, SkipPendingExit, RequestExit, ExitAccepted, ExitRejected, ExitUnknown
<1>5. ASSUME NEW t \in Tasks, Confirming(t) PROVE Same
  BY <1>5 DEF Confirming, ConfirmRead, DuplicateFill, RecordFill, NoMatchingFill,
     PartialExit, FullExit, SaveTrade, CloseRow, FinishClose
<1>6. ASSUME NEW t \in Tasks, Reconciling(t) PROVE Same
  BY <1>6 DEF Reconciling, ReadSnapshot, ReconcileUnavailable, ReconcileBegin,
     RecoverUnmanaged, ReconcileMatched, KeepPendingEntry, ResolveExit, ExternallyClosed,
     ReconcileEnds
<1> QED
  BY <1>1, <1>2, <1>3, <1>4, <1>5, <1>6 DEF Next, Handler, Exchange

LEMMA QuietExchange ==
  ASSUME TypeOK, EntryInv, Quiet, [Next]_vars, ~Evidence'
  PROVE  exposure' = 0
<1> /\ exitOrder \in [Exits -> ExitOrders] /\ entryOrder \in [Ids -> EntryOrders]
    /\ exposure = 0
  BY DEF TypeOK, ExchangeOK, Quiet
<1>1. ~EntryFills
  <2> SUFFICES ASSUME EntryFills PROVE Evidence'
    OBVIOUS
  <2>1. PICK p \in Ids : \E q \in 1 .. entryOrder[p].left :
          entryOrder' = [entryOrder EXCEPT ![p] =
            [state |-> IF q = entryOrder[p].left THEN "done" ELSE "resting",
             left |-> entryOrder[p].left - q]]
    BY DEF EntryFills
  <2>2. entryOrder[p].left \in Nat /\ entryOrder[p].left <= Lot
    BY DEF EntryOrders, EntryInv
  <2>3. entryOrder'[p].state # "none" /\ entryOrder'[p].left < Lot
    BY <2>1, <2>2, LotAssumption
  <2> QED
    BY <2>3 DEF Evidence, Partly
<1>2. ~ExternalTrade
  BY DEF ExternalTrade, Evidence, TypeOK
<1>3. CASE ExitExecutes
  <2>1. PICK o \in Exits : \E q \in 0 .. exitOrder[o].want :
          q <= exposure /\ exposure' = exposure - q
    BY <1>3 DEF ExitExecutes
  <2>2. exitOrder[o].want \in Nat
    BY DEF ExitOrders
  <2> QED
    BY <2>1, <2>2
<1> QED
  BY <1>1, <1>2, <1>3, ExposureMoves

\* With nothing open there is nothing to close, and with a flat account no
\* snapshot says otherwise.
LEMMA QuietFrames ==
  ASSUME TypeOK, LoopInv, Quiet, [Next]_vars, NEW t \in Tasks
  PROVE  QuietFrame(t)'
<1> DEFINE Still == QuietFrame(t)'
<1> /\ frame \in [Tasks -> FrameType] /\ pc \in [Tasks -> Stages] /\ Main \in Tasks
  BY DEF TypeOK, ControlOK, Tasks
<1>1. /\ \A u \in Tasks : QuietFrame(u) /\ frame[u] \in FrameType
      /\ exposure = 0 /\ Open = {}
  BY DEF Quiet, Open, TypeOK, MemoryOK
<1> DEFINE Calm == Stages \ {"exit_wait"}
           Mute(f) == f.snapshot.qty = 0 /\ (f.loop = "close_loop" => f.todo = {})
\* A task that goes on with a frame that says nothing new.
<1>2. ASSUME NEW u \in Tasks, NEW stage \in Calm,
             Await(u, stage) \/ Go(u, stage) \/ MayAwait(u, stage),
             UNCHANGED frame \/ \E f : Local(u, f) /\ Mute(f)
      PROVE  Still
  BY <1>1, <1>2 DEF Await, Go, MayAwait, Local, QuietFrame
<1>3. \A u \in Tasks : /\ frame[u].loop \in Calm /\ frame[u].then \in Calm
                       /\ Mute(frame[u])
  BY <1>1 DEF QuietFrame, FrameType, Stages
<1>4. Mute(NoFrame) /\ \A s : Mute([NoFrame EXCEPT !.then = s])
  BY DEF NoFrame, Unavailable
<1>5. ASSUME NEW u \in Tasks, Return(u) PROVE Still
  BY <1>2, <1>3, <1>4, <1>5 DEF Return
<1>6. ASSUME NEW u \in Tasks, NextItem(u) PROVE Still
  <2>1. Mute([frame[u] EXCEPT !.at = None, !.order = None, !.view = Unavailable])
    BY <1>1, <1>3 DEF FrameType
  <2> QED
    BY <1>2, <1>3, <1>6, <2>1 DEF NextItem
<1>7. ASSUME NEW u \in Tasks, NEW next, PlaceEntryOrder(u, next) PROVE Still
  <2>1. \A p : Mute([NoFrame EXCEPT !.at = p, !.then = next])
    BY DEF NoFrame, Unavailable
  <2>2. "entry_wait" \in Calm
    BY DEF Stages
  <2>3. /\ Await(u, "entry_wait")
        /\ \E p : Local(u, [NoFrame EXCEPT !.at = p, !.then = next])
    BY <1>7 DEF PlaceEntryOrder
  <2> HIDE DEF Calm, Mute, Still
  <2> QED
    BY <1>2, <2>1, <2>2, <2>3
<1> SUFFICES Still
  OBVIOUS
<1>8. CASE UNCHANGED control
  BY <1>1, <1>8 DEF control, QuietFrame
<1>9. CASE GoDown
  BY <1>9 DEF GoDown, QuietFrame, NoFrame, Unavailable
<1> /\ {"close_price", "reconcile_read", "reconcile_apply", "reconcile_loop", "loop",
        "signal_mids", "close_loop", "exit_process", "confirm_read", "confirm_fills",
        "confirm_settle", "save_trade", "close_row", "finish_close", "connect"}
       \subseteq Calm
  BY DEF Stages
<1>21. ASSUME NEW u \in Tasks, NEW stage \in Calm, NEW f, Mute(f), Local(u, f),
              Await(u, stage) \/ Go(u, stage)
       PROVE  Still
  BY <1>2, <1>21
<1> HIDE DEF Calm, Still, Mute
<1>10. CASE Shutdown
  BY <1>2, <1>4, <1>10 DEF Shutdown
<1>11. CASE Start
  BY <1>2, <1>11 DEF Start
<1>12. CASE MainLoop /\ ~ExitProcess
  <2>1. ~CheckPositionExits
    <3> SUFFICES ASSUME NEW crossed \in (SUBSET Open) \ {{}} PROVE FALSE
      BY DEF CheckPositionExits
    <3> QED
      BY <1>1
  <2>2. CASE Connect \/ LoopForceClose
    BY <1>4, <1>10, <1>21, <2>2 DEF Connect, LoopForceClose
  <2>3. CASE ReconcileAgain \/ MaybeReconcile
    BY <1>4, <1>21, <2>3 DEF ReconcileAgain, MaybeReconcile
  <2>4. CASE EnterLoop \/ ProcessSignal \/ CancelAllOrders
    BY <1>2, <2>4 DEF EnterLoop, ProcessSignal, CancelAllOrders
  <2>5. CASE SignalEntry
    BY <1>2, <1>7, <2>5 DEF SignalEntry
  <2>6. CASE PersistState
    BY <1>8, <2>6 DEF PersistState
  <2> QED
    BY <1>12, <2>1, <2>2, <2>3, <2>4, <2>5, <2>6 DEF MainLoop
<1>13. ASSUME NEW u \in Requests, Request(u) PROVE Still
  BY <1>4, <1>7, <1>8, <1>13, <1>21
  DEF Request, CloseAllRequest, ManualTradeRequest, PauseRequest, Tasks
<1>14. ASSUME NEW u \in Tasks, Entering(u) PROVE Still
  BY <1>5, <1>14 DEF Entering, EntryAccepted, EntryRejected, EntryUnknown
<1>15. ASSUME NEW u \in Tasks, ForceCloseAll(u) PROVE Still
  <2>1. Mute([frame[u] EXCEPT !.todo = {}, !.loop = "close_loop"])
    BY <1>1, <1>3 DEF Mute, FrameType
  <2> QED
    BY <1>1, <1>2, <1>5, <1>15, <2>1 DEF ForceCloseAll
<1>16. ASSUME NEW u \in Tasks PROVE ~SkipPendingExit(u) /\ ~RequestExit(u)
  BY <1>1, <1>16 DEF SkipPendingExit, RequestExit, At, LoopInv, QuietFrame
<1>17. ASSUME NEW u \in Tasks PROVE ~ExitAccepted(u) /\ ~ExitRejected(u) /\ ~ExitUnknown(u)
  BY <1>1, <1>17 DEF ExitAccepted, ExitRejected, ExitUnknown, At, QuietFrame
<1>18. ASSUME NEW u \in Tasks, Confirming(u) PROVE Still
  <2>1. /\ Mute([frame[u] EXCEPT !.view = Success(exposure)])
        /\ Mute([frame[u] EXCEPT !.at = None, !.view = Unavailable])
    BY <1>1, <1>3 DEF Mute, FrameType
  <2> QED
    BY <1>2, <1>3, <1>6, <1>18, <2>1 DEF Confirming, ConfirmRead, DuplicateFill, RecordFill,
       NoMatchingFill, PartialExit, FullExit, SaveTrade, CloseRow, FinishClose
<1>19. CASE ReadSnapshot(Main)
  <2>1. PICK read \in {Unavailable, Success(exposure)} :
          Local(Main, [frame[Main] EXCEPT !.snapshot = read])
    BY <1>19 DEF ReadSnapshot
  <2>2. read.qty = 0
    BY <1>1 DEF Unavailable, Success
  <2> QED
    BY <1>1, <1>19, <2>1, <2>2 DEF ReadSnapshot, Local, Still, QuietFrame, FrameType
<1>20. CASE Reconciling(Main) /\ ~ReadSnapshot(Main)
  <2>1. \A S, p : Mute([frame[Main] EXCEPT !.todo = S, !.loop = "reconcile_loop"])
    BY <1>1, <1>3 DEF Mute, FrameType
  <2>2. \A p : /\ Mute([frame[Main] EXCEPT !.todo = @ \ {p}])
               /\ Mute([frame[Main] EXCEPT !.todo = @ \ {p}, !.at = p])
    BY <1>1, <1>3 DEF Mute, FrameType
  <2> QED
    BY <1>4, <1>5, <1>9, <1>10, <1>20, <1>21, <2>1, <2>2 DEF Reconciling,
       ReconcileUnavailable, ReconcileBegin, RecoverUnmanaged, ReconcileMatched,
       KeepPendingEntry, ResolveExit, ExternallyClosed, ReconcileEnds
<1> QED
  BY <1>5, <1>8, <1>9, <1>11, <1>12, <1>13, <1>14, <1>15, <1>16, <1>17, <1>18, <1>19, <1>20
  DEF Still, Next, Handler, Closing, CloseLoopEnds, Exchange, EntryArrives, EntryFills,
      ExitExecutes, ExternalTrade, UpdateUnrealizedPnl, Crash, MainLoop, ExitProcess, vars

LEMMA EvidenceStep ==
  ASSUME TypeOK, ControlInv, HandInv, SettleInv, LoopInv, EntryInv, EvidenceInv, [Next]_vars
  PROVE  EvidenceInv'
<1>1. CASE Evidence
  BY <1>1, EvidenceStays DEF EvidenceInv
<1>2. CASE Quiet /\ ~Evidence'
  <2>1. exposure' = 0
    BY <1>2, QuietExchange
  <2>2. \A t \in Tasks : QuietFrame(t)'
    BY <1>2, QuietFrames
  <2>3. \A p \in Ids : obj'[p].state # "open" /\ rows'[p].state # "open"
    BY <1>2, QuietBook
  <2> QED
    BY <2>1, <2>2, <2>3 DEF EvidenceInv, Quiet
<1> QED
  BY <1>1, <1>2 DEF EvidenceInv

-----------------------------------------------------------------------------
(* The main loop alone: what is closed stays closed.                       *)

\* Stages of an exit, from its request to its end.
Exiting == {"exit_wait", "confirm_read", "confirm_fills", "confirm_settle", "save_trade",
            "close_row", "finish_close"}

\* Nobody takes a position out of the list behind the back of the loop that
\* goes through a copy of it, so every position the loop has in hand is listed
\* and its row not closed yet.
ListInv ==
  /\ frame[Main].todo \subseteq positions \ {frame[Main].at}
  /\ pc[Main] \notin Working => frame[Main].at = None
  /\ pc[Main] = "down" => positions = {}
  /\ \A p \in positions : rows[p].state \in Terminal
                          => pc[Main] = "finish_close" /\ frame[Main].at = p

ExitInv ==
  pc[Main] \in Exiting =>
    frame[Main].at \in positions /\ obj[frame[Main].at].state = "exit_requested"

PendingInv ==
  pc[Main] = "entry_wait" => /\ obj[frame[Main].at].state = "pending_entry"
                             /\ rows[frame[Main].at].state \notin Terminal

AloneInv == ListInv /\ ExitInv /\ PendingInv

LEMMA AloneStep ==
  ASSUME Requests = {}, TypeOK, ControlInv, AloneInv, [Next]_vars
  PROVE  AloneInv'
<1> /\ Tasks = {Main} /\ Main \in Tasks
    /\ frame \in [Tasks -> FrameType] /\ pc \in [Tasks -> Stages]
    /\ frame[Main] \in FrameType
    /\ obj \in [Ids -> PositionType] /\ rows \in [Ids -> PositionType]
    /\ positions \subseteq Ids /\ None \notin Ids
  BY NoneAssumption DEF Tasks, TypeOK, ControlOK, MemoryOK, StoreOK
<1>1. /\ pc[Main] \in Working => frame[Main].at \in Ids
      /\ frame[Main].loop \notin Working \cup {"down"}
      /\ frame[Main].then \notin Working \cup {"down"}
      /\ frame[Main].todo \subseteq Ids
  BY FrameFields DEF ControlInv, AtInv, FrameType, Working, TypeOK
<1> USE DEF At, Await, Go, MayAwait, Local, Save, NoFrame, AloneInv, ListInv, ExitInv,
        PendingInv, Working, Exiting, Terminal, control, memory, store
<1>2. CASE UNCHANGED <<control, memory, rows>>
  BY <1>2
<1>3. ASSUME GoDown, UNCHANGED rows \/ positions' = {} PROVE AloneInv'
  BY <1>3 DEF GoDown
<1>4. ASSUME Return(Main), UNCHANGED <<memory, rows>>, pc[Main] \notin Exiting
      PROVE  AloneInv'
  BY <1>1, <1>4 DEF Return
<1>5. ASSUME NextItem(Main) PROVE
        /\ pc'[Main] \notin Working \cup {"down"}
        /\ frame'[Main].at = None /\ frame'[Main].todo = frame[Main].todo
  BY <1>1, <1>5 DEF NextItem, FrameType
<1>6. CASE Start
  BY <1>6 DEF Start
<1>7. CASE pc[Main] # "finish_close" /\ Shutdown /\ UNCHANGED <<positions, obj, rows>>
  BY <1>7 DEF Shutdown
<1>8. ASSUME NEW next, PlaceEntryOrder(Main, next), pc[Main] # "finish_close"
      PROVE  AloneInv'
  <2>1. PICK p \in Fresh :
          /\ Save(p, [state |-> "pending_entry", qty |-> Lot, exit_oid |-> None,
                      managed |-> TRUE])
          /\ Await(Main, "entry_wait")
          /\ Local(Main, [NoFrame EXCEPT !.at = p, !.then = next])
          /\ UNCHANGED positions
    BY <1>8 DEF PlaceEntryOrder, CanEnter
  <2>2. p \in Ids
    BY DEF Fresh
  <2>3. /\ pc'[Main] = "entry_wait" /\ frame'[Main].at = p /\ frame'[Main].todo = {}
        /\ obj'[p].state = "pending_entry" /\ rows'[p].state = "pending_entry"
        /\ \A id \in Ids \ {p} : rows'[id] = rows[id]
    BY <2>1, <2>2
  <2> QED
    BY <1>8, <2>1, <2>2, <2>3
<1>9. CASE Connect \/ ReconcileAgain \/ EnterLoop \/ LoopForceClose \/ MaybeReconcile
  BY <1>7, <1>9 DEF Connect, ReconcileAgain, EnterLoop, LoopForceClose, MaybeReconcile
<1>10. CASE CheckPositionExits
  BY <1>10 DEF CheckPositionExits, Open
<1>11. CASE ProcessSignal \/ CancelAllOrders
  BY <1>11 DEF ProcessSignal, CancelAllOrders
<1>12. CASE SignalEntry
  BY <1>8, <1>12 DEF SignalEntry
<1>13. CASE UpdateUnrealizedPnl
  <2>1. \A p \in Ids : \/ rows'[p] = rows[p]
                       \/ obj[p].state = "open" /\ rows'[p].state = "open"
    BY <1>13 DEF UpdateUnrealizedPnl, Open
  <2>2. ListInv'
    BY <1>13, <2>1 DEF UpdateUnrealizedPnl
  <2> QED
    BY <1>1, <1>13, <2>1, <2>2 DEF UpdateUnrealizedPnl
<1>14. CASE EntryAccepted(Main)
  BY <1>1, <1>14 DEF EntryAccepted, Return
<1>15. CASE EntryRejected(Main)
  BY <1>1, <1>15 DEF EntryRejected, Return
<1>16. CASE EntryUnknown(Main)
  BY <1>1, <1>16 DEF EntryUnknown, Return
<1>17. CASE ForceCloseAll(Main)
  <2>1. CASE Return(Main)
    BY <1>4, <1>17, <2>1 DEF ForceCloseAll
  <2>2. CASE ~Return(Main)
    <3>1. /\ pc[Main] = "close_price" /\ pc'[Main] = "close_loop"
          /\ frame'[Main] = [frame[Main] EXCEPT !.todo = Open, !.loop = "close_loop"]
          /\ UNCHANGED <<positions, obj, rows>>
      BY <1>17, <2>2 DEF ForceCloseAll
    <3>2. frame'[Main].todo = Open /\ frame'[Main].at = None
      BY <3>1 DEF FrameType
    <3> QED
      BY <3>1, <3>2 DEF Open
  <2> QED
    BY <2>1, <2>2
<1>18. CASE CloseLoopEnds(Main) \/ ReconcileEnds(Main)
  BY <1>4, <1>18 DEF CloseLoopEnds, ReconcileEnds
<1>19. CASE SkipPendingExit(Main)
  BY <1>19 DEF SkipPendingExit
<1>20. CASE RequestExit(Main)
  BY <1>1, <1>20 DEF RequestExit
<1>21. CASE ExitAccepted(Main)
  BY <1>1, <1>21 DEF ExitAccepted
<1>22. CASE ExitRejected(Main) \/ ExitUnknown(Main)
  <2>1. PICK s \in {"open", "state_unknown"} :
          /\ Save(frame[Main].at, [obj[frame[Main].at] EXCEPT !.state = s])
          /\ NextItem(Main) /\ pc[Main] = "exit_wait" /\ UNCHANGED positions
    BY <1>22 DEF ExitRejected, ExitUnknown
  <2>2. rows'[frame[Main].at].state = s
    BY <1>1, <2>1 DEF PositionType
  <2> QED
    BY <1>1, <1>5, <2>1, <2>2
<1>23. CASE ConfirmRead(Main)
  <2>1. CASE NextItem(Main)
    BY <1>5, <1>23, <2>1 DEF ConfirmRead
  <2>2. CASE ~NextItem(Main)
    <3>1. /\ pc[Main] = "confirm_read" /\ pc'[Main] = "confirm_fills"
          /\ frame'[Main] = [frame[Main] EXCEPT !.view = Success(exposure)]
          /\ UNCHANGED <<positions, obj, rows>>
      BY <1>23, <2>2 DEF ConfirmRead
    <3>2. frame'[Main].todo = frame[Main].todo /\ frame'[Main].at = frame[Main].at
      BY <3>1 DEF FrameType
    <3> QED
      BY <3>1, <3>2
  <2> QED
    BY <2>1, <2>2
<1>24. CASE DuplicateFill(Main)
  BY <1>5, <1>24 DEF DuplicateFill
<1>25. CASE RecordFill(Main) \/ FullExit(Main) \/ SaveTrade(Main)
  BY <1>25 DEF RecordFill, FullExit, SaveTrade
<1>26. CASE NoMatchingFill(Main)
  <2> DEFINE p == frame[Main].at
  <2>1. /\ p \in Ids /\ pc[Main] = "confirm_fills" /\ NextItem(Main)
        /\ UNCHANGED positions
        /\ \/ UNCHANGED rows
           \/ rows' = [rows EXCEPT ![p] = [obj[p] EXCEPT !.state = "state_unknown"]]
    BY <1>1, <1>26 DEF NoMatchingFill
  <2>2. \A id \in Ids : rows'[id].state \in {rows[id].state, "state_unknown"}
    BY <2>1 DEF PositionType
  <2> QED
    BY <1>5, <2>1, <2>2
<1>27. CASE PartialExit(Main)
  BY <1>1, <1>5, <1>27 DEF PartialExit
<1>28. CASE CloseRow(Main)
  BY <1>1, <1>28 DEF CloseRow
<1>29. CASE FinishClose(Main)
  BY <1>1, <1>29 DEF FinishClose
<1>30. CASE ReadSnapshot(Main)
  BY <1>30 DEF ReadSnapshot
<1>31. CASE ReconcileUnavailable(Main)
  <2>1. CASE Shutdown
    BY <1>7, <1>31, <2>1 DEF ReconcileUnavailable
  <2>2. CASE Return(Main)
    BY <1>1, <1>31, <2>2 DEF ReconcileUnavailable, Return
  <2> QED
    BY <1>31, <2>1, <2>2 DEF ReconcileUnavailable
<1>32. CASE ReconcileBegin(Main)
  BY <1>32 DEF ReconcileBegin
<1>33. CASE RecoverUnmanaged(Main)
  <2>1. PICK p \in Fresh :
          /\ Save(p, [state |-> "recovered_unmanaged", qty |-> frame[Main].snapshot.qty,
                      exit_oid |-> None, managed |-> FALSE])
          /\ positions' = {p}
    BY <1>33 DEF RecoverUnmanaged
  <2>2. p \in Ids
    BY DEF Fresh
  <2>3. Return(Main)
    BY <1>33 DEF RecoverUnmanaged
  <2> QED
    BY <1>1, <2>1, <2>2, <2>3 DEF Return
<1>34. CASE ReconcileMatched(Main)
  BY <1>1, <1>34 DEF ReconcileMatched
<1>35. CASE KeepPendingEntry(Main)
  BY <1>1, <1>35 DEF KeepPendingEntry
<1>36. CASE ResolveExit(Main)
  BY <1>1, <1>36 DEF ResolveExit
<1>37. CASE ExternallyClosed(Main)
  <2>1. PICK p \in frame[Main].todo :
          /\ rows' = [rows EXCEPT ![p] = [obj[p] EXCEPT !.state = "externally_closed"]]
          /\ positions' = positions \ {p}
          /\ frame'[Main] = [frame[Main] EXCEPT !.todo = @ \ {p}]
          /\ pc[Main] = "reconcile_loop" /\ pc'[Main] = "reconcile_loop"
    BY <1>37 DEF ExternallyClosed
  <2>2. frame'[Main].todo = frame[Main].todo \ {p} /\ frame'[Main].at = frame[Main].at
    BY <2>1 DEF FrameType
  <2> QED
    BY <1>1, <2>1, <2>2
<1>38. CASE PersistState \/ Exchange \/ UNCHANGED vars
  BY <1>2, <1>38 DEF PersistState, Exchange, EntryArrives, EntryFills, ExitExecutes,
     ExternalTrade, vars
<1>39. CASE Crash \/ ExitProcess
  BY <1>3, <1>39 DEF Crash, ExitProcess
<1> QED
  BY <1>6, <1>9, <1>10, <1>11, <1>12, <1>13, <1>14, <1>15, <1>16, <1>17, <1>18, <1>19,
     <1>20, <1>21, <1>22, <1>23, <1>24, <1>25, <1>26, <1>27, <1>28, <1>29, <1>30, <1>31,
     <1>32, <1>33, <1>34, <1>35, <1>36, <1>37, <1>38, <1>39
  DEF Next, MainLoop, Handler, Entering, Closing, Confirming, Reconciling

\* Every statement that writes a row writes one that is not closed.
LEMMA ClosedRowKept ==
  ASSUME Requests = {}, TypeOK, ControlInv, AloneInv, [Next]_vars,
         NEW p \in Ids, rows[p].state \in Terminal
  PROVE  rows'[p] = rows[p]
<1> DEFINE Kept == rows'[p] = rows[p]
           q == frame[Main].at
<1> /\ Tasks = {Main} /\ obj \in [Ids -> PositionType] /\ rows \in [Ids -> PositionType]
    /\ positions \subseteq Ids /\ frame[Main].todo \subseteq Ids
  BY FrameFields DEF Tasks, TypeOK, MemoryOK, StoreOK
<1>1. \A id \in frame[Main].todo : pc[Main] \notin Working => id # p
  BY DEF AloneInv, ListInv, Working
<1>2. pc[Main] \in Exiting \ {"finish_close"} => q # p
  BY DEF AloneInv, ListInv, ExitInv
<1>3. pc[Main] = "entry_wait" => q # p
  BY DEF AloneInv, PendingInv
<1>4. p \notin Fresh
  BY DEF Fresh, NoPosition, Terminal
<1>5. ASSUME NEW r, NEW id, id # p, Save(id, r) PROVE Kept
  BY <1>5 DEF Save
<1> SUFFICES Kept
  OBVIOUS
<1> HIDE DEF Kept
<1>6. ASSUME NEW next, PlaceEntryOrder(Main, next) PROVE Kept
  <2>1. \E id \in Fresh : \E r : Save(id, r)
    BY <1>6 DEF PlaceEntryOrder, CanEnter
  <2> QED
    BY <1>4, <1>5, <2>1
<1>7. CASE UpdateUnrealizedPnl
  <2>1. p \notin Open
    BY DEF Open, AloneInv, ListInv, ExitInv, Exiting
  <2> QED
    BY <1>7, <2>1 DEF UpdateUnrealizedPnl, Kept
<1>8. CASE Entering(Main)
  BY <1>3, <1>5, <1>8 DEF Entering, EntryAccepted, EntryRejected, EntryUnknown, At
<1>9. CASE RequestExit(Main)
  BY <1>1, <1>5, <1>9 DEF RequestExit, At, Working
<1>10. CASE ExitAccepted(Main) \/ ExitRejected(Main) \/ ExitUnknown(Main)
  BY <1>2, <1>5, <1>10 DEF ExitAccepted, ExitRejected, ExitUnknown, At, Exiting
<1>11. CASE NoMatchingFill(Main) \/ PartialExit(Main)
  BY <1>2, <1>5, <1>11 DEF NoMatchingFill, PartialExit, At, Exiting, Kept
<1>12. CASE CloseRow(Main)
  BY <1>2, <1>12 DEF CloseRow, At, Exiting, Kept
<1>13. CASE ReconcileMatched(Main) \/ KeepPendingEntry(Main)
  BY <1>1, <1>5, <1>13 DEF ReconcileMatched, KeepPendingEntry, At, Working
<1>14. CASE ExternallyClosed(Main)
  BY <1>1, <1>14 DEF ExternallyClosed, At, Working, Kept
<1>15. CASE RecoverUnmanaged(Main)
  <2>1. \E id \in Fresh : \E r : Save(id, r)
    BY <1>15 DEF RecoverUnmanaged
  <2> QED
    BY <1>4, <1>5, <2>1
<1>16. CASE UNCHANGED rows
  BY <1>16 DEF Kept
<1>17. CASE Start \/ Crash \/ Exchange \/ UNCHANGED vars
  BY <1>16, <1>17 DEF Start, Crash, Exchange, EntryArrives, EntryFills, ExitExecutes,
     ExternalTrade, vars, store
<1>18. CASE MainLoop
  BY <1>6, <1>16, <1>18 DEF MainLoop, Connect, ReconcileAgain, EnterLoop, LoopForceClose,
     PersistState, MaybeReconcile, CheckPositionExits, ProcessSignal, SignalEntry,
     CancelAllOrders, ExitProcess, store
<1>19. CASE Closing(Main)
  BY <1>9, <1>10, <1>16, <1>19 DEF Closing, ForceCloseAll, CloseLoopEnds, SkipPendingExit,
     store
<1>20. CASE Confirming(Main)
  BY <1>11, <1>12, <1>16, <1>20 DEF Confirming, ConfirmRead, DuplicateFill, RecordFill,
     FullExit, SaveTrade, FinishClose, store
<1>21. CASE Reconciling(Main)
  BY <1>13, <1>14, <1>15, <1>16, <1>21 DEF Reconciling, ReadSnapshot, ReconcileUnavailable,
     ReconcileBegin, ResolveExit, ReconcileEnds, store
<1> QED
  BY <1>7, <1>8, <1>17, <1>18, <1>19, <1>20, <1>21 DEF Next, Handler

-----------------------------------------------------------------------------
(* The theorems about the book.                                            *)

\* What the theorems below need on top of IInv.
BookInv ==
  /\ HandInv /\ LoopInv /\ WrittenOffInv
  /\ OrderInv /\ TradesInv
  /\ EntryInv /\ EvidenceInv

LEMMA InitBookInv == Init => BookInv
<1> SUFFICES ASSUME Init PROVE BookInv
  OBVIOUS
<1>1. HandInv /\ LoopInv /\ WrittenOffInv
  BY DEF Init, HandInv, LoopInv, WrittenOffInv, NoFrame, NoPosition, Unavailable
<1>2. OrderInv /\ EntryInv
  BY LotAssumption DEF Init, OrderInv, EntryInv, NoPosition
<1>3. TradesInv
  <2>1. \A p \in Ids : {o \in Exits : exitOrder[o].pos = p /\ booked[o] = 1} = {}
    BY DEF Init
  <2> QED
    BY <2>1, FS_EmptySet DEF Init, TradesInv, TradesFromOwnFills
<1>4. EvidenceInv
  BY DEF Init, EvidenceInv, Quiet, QuietFrame, NoFrame, NoPosition, Unavailable
<1> QED
  BY <1>1, <1>2, <1>3, <1>4 DEF BookInv

LEMMA StepBookInv == IInv /\ BookInv /\ [Next]_vars => BookInv'
BY HandStep, LoopStep, WrittenOffStep, OrderStep, TradesStep, EntryStep, EvidenceStep
DEF IInv, BookInv, ControlInv

THEOREM BookInvariance == Spec => []BookInv
BY InitBookInv, StepBookInv, Invariance, PTL DEF Spec

\* Money is booked for a position from the fills of its own exit orders only,
\* once each, whoever confirms them and however often the bot crashes.
THEOREM TradesAreOwnFills == Spec => []TradesFromOwnFills
<1>1. BookInv => TradesFromOwnFills
  BY DEF BookInv, TradesInv
<1> QED
  BY <1>1, BookInvariance, PTL

\* No position is managed as open before an entry has filled or somebody else
\* has traded on the account.
THEOREM OpenIsExposed == Spec => []OpenNeedsExposure
<1>1. BookInv => OpenNeedsExposure
  BY DEF BookInv, EvidenceInv, Evidence, Partly, Quiet, OpenNeedsExposure
<1> QED
  BY <1>1, BookInvariance, PTL

\* An outage of the exchange is never taken for an empty account.
THEOREM OutageWritesNothingOff == Spec => OutageIsNotFlat
<1>1. IInv /\ BookInv /\ [Next]_vars =>
        [\A p \in Ids :
           rows'[p].state = "externally_closed" /\ rows[p].state \notin Terminal
           => \E t \in Tasks : /\ pc[t] = "reconcile_loop"
                               /\ frame[t].snapshot = Success(0)]_vars
  BY WriteOff DEF IInv, BookInv, ControlInv
<1> QED
  BY <1>1, Invariance, BookInvariance, PTL DEF Spec, OutageIsNotFlat

\* With no API request in progress, no step of the bot, of a restarted bot or
\* of the exchange ever changes the state of a closed row.
THEOREM ClosedIsClosed == Requests = {} => (Spec => ClosedStaysClosed)
<1> SUFFICES ASSUME Requests = {} PROVE Spec => ClosedStaysClosed
  OBVIOUS
<1>1. Init => AloneInv
  BY DEF Init, AloneInv, ListInv, ExitInv, PendingInv, NoFrame, Exiting, Tasks
<1>2. IInv /\ AloneInv /\ [Next]_vars => AloneInv'
  BY AloneStep DEF IInv
<1>3. IInv /\ AloneInv /\ [Next]_vars =>
        [\A p \in Ids :
           rows[p].state \in {"closed_confirmed", "externally_closed"}
           => rows'[p].state = rows[p].state]_vars
  BY ClosedRowKept DEF IInv, Terminal
<1> QED
  BY <1>1, <1>2, <1>3, Invariance, PTL DEF Spec, ClosedStaysClosed

-----------------------------------------------------------------------------
(* The promise of ExitSettlement.                                          *)

\* An exit order that was never sent is on no position, unfilled, unrecorded.
LEMMA ProgressInit == Init => Settlement!Init
<1> SUFFICES ASSUME Init PROVE Settlement!Init
  OBVIOUS
<1>1. \A o \in Exits : Progress(o) = "unused" /\ exitOrder[o].pos = None
  BY DEF Init, Progress
<1>2. trades = [p \in Ids |-> 0]
  BY DEF Init
<1> QED
  BY <1>1, <1>2 DEF Settlement!Init

\* Whatever leaves one order's stage and the trades alone is a stutter, and a
\* step that moves one order along is one of the abstract steps.
LEMMA SettlementStutter ==
  ASSUME trades' = trades,
         \A o \in Exits : Progress(o)' = Progress(o) /\ exitOrder'[o].pos = exitOrder[o].pos
  PROVE  UNCHANGED Settlement!vars
  BY DEF Settlement!vars

\* An order is moved on.
LEMMA SettlementMove ==
  ASSUME trades' = trades, NEW o \in Exits,
         \A id \in Exits : exitOrder'[id].pos = exitOrder[id].pos,
         \A id \in Exits : id # o => Progress(id)' = Progress(id),
         \/ Progress(o) = "sent" /\ Progress(o)' \in {"void", "filled"}
         \/ Progress(o) = "filled" /\ Progress(o)' = "recorded"
  PROVE  Settlement!Next
<1> DEFINE stage == [id \in Exits |-> Progress(id)]
           owner == [id \in Exits |-> exitOrder[id].pos]
<1>1. stage' = [stage EXCEPT ![o] = Progress(o)'] /\ owner' = owner
  OBVIOUS
<1>2. stage[o] = Progress(o)
  OBVIOUS
<1>3. \E from, to \in {"sent", "void", "filled", "recorded"} :
        /\ <<from, to>> \in {<<"sent", "void">>, <<"sent", "filled">>, <<"filled", "recorded">>}
        /\ Settlement!Move(o, from, to)
  BY <1>1, <1>2 DEF Settlement!Move
<1> QED
  BY <1>3 DEF Settlement!Next

LEMMA SettlementStep == IInv /\ BookInv /\ [Next]_vars => [Settlement!Next]_(Settlement!vars)
<1> SUFFICES ASSUME IInv, BookInv, [Next]_vars
             PROVE  Settlement!Next \/ UNCHANGED Settlement!vars
  OBVIOUS
<1> /\ booked \in [Exits -> Nat] /\ ledger \subseteq Exits
    /\ exitOrder \in [Exits -> ExitOrders] /\ trades \in [Ids -> Nat]
    /\ TypeOK /\ ControlInv /\ SettleInv /\ LedgerInv /\ OrderInv
  BY DEF IInv, BookInv, TypeOK, StoreOK, ExchangeOK
<1>1. CASE UNCHANGED <<ledger, booked, exitOrder>> /\ trades' = trades
  BY <1>1, SettlementStutter DEF Progress
<1>2. CASE ExitExecutes
  <2>1. PICK o \in Exits :
          /\ exitOrder[o].state = "inflight"
          /\ \E q \in 0 .. exitOrder[o].want :
               exitOrder' = [exitOrder EXCEPT ![o].state = "done", ![o].filled = q]
    BY <1>2 DEF ExitExecutes
  <2>2. ledger' = ledger /\ booked' = booked /\ trades' = trades
    BY <1>2 DEF ExitExecutes, store
  <2>3. \A id \in Exits : id # o => exitOrder'[id] = exitOrder[id]
    BY <2>1
  <2>4. /\ exitOrder'[o].pos = exitOrder[o].pos /\ exitOrder'[o].filled \in Nat
        /\ exitOrder'[o].state = "done"
    BY <2>1 DEF ExitOrders
  <2>5. booked[o] = 0 /\ o \notin ledger /\ exitOrder[o].filled = 0
    BY <2>1 DEF LedgerInv, ExitOrders
  <2>6. Progress(o) = "sent" /\ Progress(o)' \in {"void", "filled"}
    BY <2>1, <2>2, <2>4, <2>5 DEF Progress
  <2>7. \A id \in Exits : id # o => Progress(id)' = Progress(id)
    BY <2>2, <2>3 DEF Progress
  <2> QED
    BY <2>2, <2>3, <2>4, <2>6, <2>7, SettlementMove
<1>3. ASSUME NEW t \in Tasks, RequestExit(t)
      PROVE  Settlement!Next \/ UNCHANGED Settlement!vars
  <2>0. PICK o : o = IF FreshExits = {} THEN None ELSE CHOOSE id \in FreshExits : TRUE
    OBVIOUS
  <2>1. PICK p \in frame[t].todo :
          exitOrder' =
            [id \in Exits |->
               IF id = o THEN [pos |-> p, want |-> obj[p].qty,
                               state |-> "inflight", filled |-> 0]
               ELSE exitOrder[id]]
    BY <1>3, <2>0 DEF RequestExit
  <2>2. p \in Ids
    BY FrameFields DEF TypeOK
  <2>3. ledger' = ledger /\ booked' = booked /\ trades' = trades
    BY <1>3 DEF RequestExit
  <2>4. o \in Exits => exitOrder[o].state = "none"
    BY <2>0, NoneAssumption DEF FreshExits
  <2>5. \A id \in Exits : id # o => /\ exitOrder'[id] = exitOrder[id]
                                    /\ Progress(id)' = Progress(id)
    BY <2>1, <2>3 DEF Progress
  <2>6. CASE o \notin Exits
    BY <2>3, <2>5, <2>6, SettlementStutter
  <2>7. CASE o \in Exits
    <3> DEFINE stage == [id \in Exits |-> Progress(id)]
               owner == [id \in Exits |-> exitOrder[id].pos]
    <3>1. booked[o] = 0 /\ o \notin ledger /\ exitOrder[o].filled = 0
      BY <2>4, <2>7 DEF LedgerInv, ExitOrders
    <3>2. /\ exitOrder'[o].pos = p /\ exitOrder'[o].filled = 0
          /\ exitOrder'[o].state = "inflight"
      BY <2>1, <2>7
    <3>3. Progress(o) = "unused" /\ Progress(o)' = "sent"
      BY <2>3, <2>4, <2>7, <3>1, <3>2 DEF Progress
    <3>4. stage' = [stage EXCEPT ![o] = "sent"] /\ stage[o] = "unused"
      BY <2>5, <2>7, <3>3
    <3>5. owner' = [owner EXCEPT ![o] = p]
      BY <2>5, <2>7, <3>2
    <3>6. Settlement!Send(o, p)
      BY <2>3, <3>4, <3>5 DEF Settlement!Send
    <3> QED
      BY <2>2, <2>7, <3>6 DEF Settlement!Next
  <2> QED
    BY <2>6, <2>7
<1>4. ASSUME NEW t \in Tasks, ExitRejected(t)
      PROVE  Settlement!Next \/ UNCHANGED Settlement!vars
  <2>0. PICK o : o = frame[t].order
    OBVIOUS
  <2>1. /\ exitOrder' = [id \in Exits |->
                          IF id = o THEN [exitOrder[id] EXCEPT !.state = "dead"]
                          ELSE exitOrder[id]]
        /\ o # None => exitOrder[o].state = "inflight"
        /\ ledger' = ledger /\ booked' = booked /\ trades' = trades
    BY <1>4, <2>0 DEF ExitRejected
  <2>2. \A id \in Exits : id # o => /\ exitOrder'[id] = exitOrder[id]
                                    /\ Progress(id)' = Progress(id)
    BY <2>1 DEF Progress
  <2>3. CASE o \notin Exits
    BY <2>1, <2>2, <2>3, SettlementStutter
  <2>4. CASE o \in Exits
    <3>1. booked[o] = 0 /\ o \notin ledger /\ exitOrder[o].filled = 0
      BY <2>1, <2>4, NoneAssumption DEF LedgerInv, ExitOrders
    <3>2. /\ exitOrder'[o].pos = exitOrder[o].pos /\ exitOrder'[o].state = "dead"
          /\ exitOrder'[o].filled = exitOrder[o].filled /\ exitOrder[o].state = "inflight"
      BY <2>1, <2>4, NoneAssumption DEF ExitOrders
    <3>3. Progress(o) = "sent" /\ Progress(o)' = "void"
      BY <2>1, <3>1, <3>2 DEF Progress
    <3> QED
      BY <2>1, <2>2, <2>4, <3>2, <3>3, SettlementMove
  <2> QED
    BY <2>3, <2>4
<1>5. ASSUME NEW t \in Tasks, RecordFill(t) PROVE Settlement!Next
  <2>0. PICK o : o = obj[frame[t].at].exit_oid
    OBVIOUS
  <2>1. /\ o # None /\ exitOrder[o].filled > 0 /\ o \notin ledger
        /\ ledger' = ledger \cup {o}
        /\ booked' = booked /\ trades' = trades /\ exitOrder' = exitOrder
    BY <1>5, <2>0 DEF RecordFill, ExitFilled, Recorded, exchange
  <2>2. o \in Exits
    <3>1. frame[t].at \in Ids
      BY <1>5 DEF RecordFill, At, ControlInv, AtInv, Working
    <3>2. obj[frame[t].at].exit_oid \in Exits \cup {None}
      BY <3>1 DEF TypeOK, MemoryOK, PositionType
    <3> QED
      BY <2>0, <2>1, <3>2
  <2>3. booked[o] = 0
    BY <2>1, <2>2 DEF LedgerInv
  <2>4. Progress(o) = "filled" /\ Progress(o)' = "recorded"
    BY <2>1, <2>3 DEF Progress
  <2>5. \A id \in Exits : id # o => Progress(id)' = Progress(id)
    BY <2>1 DEF Progress
  <2> QED
    BY <2>1, <2>2, <2>4, <2>5, SettlementMove
<1>6. ASSUME NEW t \in Tasks, SaveTrade(t) PROVE Settlement!Next
  <2> DEFINE stage == [id \in Exits |-> Progress(id)]
             owner == [id \in Exits |-> exitOrder[id].pos]
  <2>1. PICK p \in Ids, o \in ledger : p = frame[t].at /\ o = obj[p].exit_oid /\ booked[o] = 0
    BY <1>6 DEF SaveTrade, At, ControlInv, AtInv, Working, SettleInv
  <2>2. exitOrder[o].pos = p /\ o \in Exits
    BY <2>1, NoneAssumption DEF OrderInv
  <2>3. /\ trades' = [trades EXCEPT ![p] = @ + 1] /\ exitOrder' = exitOrder
        /\ booked' = [id \in Exits |-> IF id = o THEN booked[id] + 1 ELSE booked[id]]
        /\ ledger' = ledger
    BY <1>6, <2>1 DEF SaveTrade, exchange
  <2>4. Progress(o) = "recorded" /\ Progress(o)' = "booked"
    BY <2>1, <2>2, <2>3 DEF Progress
  <2>5. \A id \in Exits : id # o => Progress(id)' = Progress(id)
    BY <2>3 DEF Progress
  <2>6. stage' = [stage EXCEPT ![o] = "booked"] /\ stage[o] = "recorded"
    BY <2>2, <2>4, <2>5
  <2>7. owner' = owner /\ owner[o] = p
    BY <2>2, <2>3
  <2>8. Settlement!Book(o)
    BY <2>3, <2>6, <2>7 DEF Settlement!Book
  <2> QED
    BY <2>2, <2>8 DEF Settlement!Next
<1> QED
  BY <1>1, <1>2, <1>3, <1>4, <1>5, <1>6, LedgerChanges, TradesMove

\* The live bot keeps the promises of an exit settlement: over deaths, restarts,
\* late and unknown answers, and handlers that confirm the same exit
\* (_confirm_live_exit, _finalize_closed_position), a fill is recorded before it
\* is booked, booked at most once and to the position it was sent for.
THEOREM SettlementIsImplemented == Spec => ImplementsSettlement
<1>1. IInv /\ BookInv /\ [Next]_vars => [Settlement!Next]_(Settlement!vars)
  BY SettlementStep
<1> QED
  BY <1>1, ProgressInit, Invariance, BookInvariance, PTL
  DEF Spec, ImplementsSettlement, Settlement!Spec
=============================================================================
