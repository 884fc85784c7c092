------------------------- MODULE PaperTrading_proofs -------------------------
(***************************************************************************)
(* Theorems about PaperTrading, for every number of positions, requests    *)
(* and deaths, every limit, with and without Telegram.                     *)
(*                                                                         *)
(* The breaker is sound because every place that writes the counters, the  *)
(* restart and the snapshot included, maps sound counters to sound ones    *)
(* (lemma SoundOperators); nothing has to be known of where the tasks are. *)
(*                                                                         *)
(* What holds of the positions without Telegram rests on ControlInv: a     *)
(* closing loop keeps the turn (TurnInv).  BookInv says what a loop in the *)
(* middle of a settlement has in hand (HandInv), what a listed position is *)
(* in the store (ListInv), which trades a row has (TradeInv), and what the *)
(* first death ends (LifeInv).                                             *)
(***************************************************************************)
EXTENDS PaperTrading, FiniteSetTheorems, TLAPS

IInv == TypeOK /\ BreakerIsSound

USE DEF Tasks

\* What the breaker does to counters of the type, sound but for their losses.
LEMMA TrippedCounters ==
  ASSUME NEW c \in Counters
  PROVE  /\ Tripped(c) \in Counters
         /\ (c.tripped => c.until # None) => Sound(Tripped(c))
  <1>1. Cooldown \in Deadlines /\ Cooldown # None
    BY PaperLimitAssumption, PaperNoneAssumption DEF Deadlines
  <1> DEFINE d == [c EXCEPT !.tripped = TRUE, !.until = Cooldown]
  <1>4. d \in Counters /\ d.tripped /\ d.until = Cooldown /\ d.losses = c.losses
    BY <1>1 DEF Counters
  <1>5. CASE c.losses >= MAX_CONSECUTIVE_LOSSES
    <2>1. Tripped(c) = d
      BY <1>5 DEF Tripped
    <2> HIDE DEF d
    <2> QED
      BY <1>1, <1>4, <2>1 DEF Sound
  <1>6. CASE ~(c.losses >= MAX_CONSECUTIVE_LOSSES)
    <2>1. Tripped(c) = c
      BY <1>6 DEF Tripped
    <2> QED
      BY <1>6, <2>1 DEF Sound
  <1> QED
    BY <1>5, <1>6

LEMMA FreshTypes == FreshCounters \in Counters /\ Sound(FreshCounters)
  BY PaperLimitAssumption DEF FreshCounters, Counters, Deadlines, Sound

LEMMA CounterTypes ==
  ASSUME NEW c \in Counters, NEW won \in {-1, 1}
  PROVE  /\ Restored(c) \in Counters /\ Restored(None) \in Counters
         /\ Snapshot(c) \in Counters
         /\ Lifted(c) \in Counters /\ Cleared(c) \in Counters
         /\ Counted(c, won) \in Counters /\ Tripped(Counted(c, won)) \in Counters
         /\ Sooner(c) \in Counters
         /\ Yesterday(c) \in Counters
  <1>1. FreshCounters \in Counters
    BY FreshTypes
  <1>2. Restored(c) \in Counters /\ Restored(None) \in Counters
    <2> DEFINE daily == IF c.day = "past" THEN 0 ELSE c.daily
               daily_pnl == IF c.day = "past" THEN 0 ELSE c.daily_pnl
               d == [c EXCEPT !.daily = daily, !.daily_pnl = daily_pnl]
    <2>1. daily \in Nat /\ daily_pnl \in Int
      BY DEF Counters
    <2>2. Restored(c) = IF c = None THEN FreshCounters ELSE d
      BY DEF Restored
    <2> HIDE DEF daily, daily_pnl
    <2>4. d \in Counters
      BY <2>1 DEF Counters
    <2> HIDE DEF d
    <2>3. Restored(None) = FreshCounters
      BY DEF Restored
    <2> QED
      BY <1>1, <2>2, <2>3, <2>4
  <1>3. Snapshot(c) \in Counters /\ Yesterday(c) \in Counters
    BY DEF Snapshot, Yesterday, Counters
  <1>4. Lifted(c) \in Counters
    <2>1. None \in Deadlines
      BY DEF Deadlines
    <2> QED
      BY <2>1 DEF Lifted, Counters
  <1>7. Cleared(c) \in Counters
    <2> DEFINE zero == 0
    <2>1. zero \in Nat /\ zero \in Int
      OBVIOUS
    <2>2. Cleared(c) = [c EXCEPT !.daily = zero, !.daily_pnl = zero, !.losses = zero]
      BY DEF Cleared
    <2> HIDE DEF zero
    <2> QED
      BY <2>1, <2>2 DEF Counters
  <1>8. Sooner(c) \in Counters
    <2> DEFINE until == IF c.until \in {None, 0} THEN c.until ELSE c.until - 1
    <2>1. c.until \in Deadlines
      BY DEF Counters
    <2>2. until \in Deadlines
      BY <2>1, PaperLimitAssumption DEF Deadlines
    <2>3. Sooner(c) = [c EXCEPT !.until = until]
      BY DEF Sooner
    <2> HIDE DEF until
    <2> QED
      BY <2>2, <2>3 DEF Counters
  <1>5. Counted(c, won) \in Counters
    <2> DEFINE capital == c.capital + won
               daily == c.daily + 1
               daily_pnl == c.daily_pnl + won
               losses == IF won < 0 THEN c.losses + 1 ELSE 0
    <2>1. losses \in Nat /\ capital \in Int /\ daily \in Nat /\ daily_pnl \in Int
      BY DEF Counters
    <2>2. Counted(c, won) = [c EXCEPT !.capital = capital, !.daily = daily,
                                      !.daily_pnl = daily_pnl, !.losses = losses]
      BY DEF Counted
    <2> HIDE DEF losses, capital, daily, daily_pnl
    <2>3. [c EXCEPT !.capital = capital, !.daily = daily, !.daily_pnl = daily_pnl,
                    !.losses = losses] \in Counters
      BY <2>1 DEF Counters
    <2> QED
      BY <2>2, <2>3
  <1>6. Tripped(Counted(c, won)) \in Counters
    BY <1>5, TrippedCounters
  <1> QED
    BY <1>2, <1>3, <1>4, <1>5, <1>6, <1>7, <1>8

LEMMA SoundOperators ==
  ASSUME NEW c \in Counters, NEW won \in {-1, 1}, Sound(c)
  PROVE  /\ Sound(Restored(c)) /\ Sound(Restored(None)) /\ Sound(Snapshot(c)) /\ Sound(Lifted(c))
         /\ Sound(Tripped(Counted(c, won)))
         /\ Sound(Sooner(c)) /\ Sound(Yesterday(c)) /\ Sound(Cleared(c))
  <1>1. Sound(FreshCounters)
    BY FreshTypes
  <1>2. Sound(Restored(c)) /\ Sound(Restored(None)) /\ Sound(Snapshot(c)) /\ Sound(Lifted(c)) /\ Sound(Yesterday(c))
    BY <1>1, PaperLimitAssumption DEF Sound, Restored, Snapshot, Lifted, Yesterday, Counters
  <1>3. Sound(Tripped(Counted(c, won)))
    <2>1. Counted(c, won) \in Counters
      BY CounterTypes
    <2>2. Counted(c, won).tripped = c.tripped /\ Counted(c, won).until = c.until
      BY DEF Counted, Counters
    <2> QED
      BY <2>1, <2>2, TrippedCounters DEF Sound
  <1>4. Sound(Sooner(c))
    <2>1. c.until \in Deadlines
      BY DEF Counters
    <2>2. /\ Sooner(c).losses = c.losses /\ Sooner(c).tripped = c.tripped
          /\ Sooner(c).until = IF c.until \in {None, 0} THEN c.until ELSE c.until - 1
      BY DEF Sooner, Counters
    <2>3. c.until # None => c.until \in Nat
      BY <2>1, PaperLimitAssumption DEF Deadlines
    <2>4. c.until # None => Sooner(c).until # None
      BY <2>2, <2>3, PaperNoneAssumption
    <2> QED
      BY <2>2, <2>4 DEF Sound
  <1>5. Sound(Cleared(c))
    BY PaperLimitAssumption DEF Sound, Cleared, Counters
  <1> QED
    BY <1>2, <1>3, <1>4, <1>5

LEMMA Initially == Init => IInv
  <1> SUFFICES ASSUME Init PROVE IInv
    OBVIOUS
  <1>1. TypeOK
    <2>1. mem \in Counters /\ saved \in Counters \cup {None}
      BY FreshTypes DEF Init
    <2>2. pc \in [Tasks -> Stages] /\ turn \in Tasks \cup {None}
      BY DEF Init, Stages
    <2>3. NoFrame \in Frames
      BY DEF Frames, NoFrame
    <2>4. frame \in [Tasks -> Frames]
      BY <2>3 DEF Init
    <2>5. /\ positions \subseteq Ids /\ state \in [Ids -> States] /\ rows \in [Ids -> States]
          /\ trades \in [Ids -> Nat] /\ pnl \in Int /\ crashes \in Nat
      BY DEF Init, States
    <2>6. paused \in BOOLEAN
      BY DEF Init
    <2> QED
      BY <2>1, <2>2, <2>4, <2>5, <2>6 DEF TypeOK
  <1>2. BreakerIsSound
    BY FreshTypes DEF Init, BreakerIsSound
  <1> QED
    BY <1>1, <1>2 DEF IInv

-----------------------------------------------------------------------------
(* Steps.                                                                  *)

\* What a step of a task does to turn, pc and frame.
LEMMA ControlTypes ==
  ASSUME TypeOK, NEW t \in Tasks, NEW stage \in Stages, NEW f \in Frames
  PROVE  /\ Go(t, stage) => turn' \in Tasks /\ pc' \in [Tasks -> Stages]
         /\ Await(t, stage) => turn' = None /\ pc' \in [Tasks -> Stages]
         /\ Notify(t, stage) => turn' \in Tasks \cup {None} /\ pc' \in [Tasks -> Stages]
         /\ Local(t, f) => frame' \in [Tasks -> Frames]
         /\ Return(t) => /\ turn' \in Tasks \cup {None} /\ pc' \in [Tasks -> Stages]
                        /\ frame' \in [Tasks -> Frames]
  <1>1. Go(t, stage) => turn' \in Tasks /\ pc' \in [Tasks -> Stages]
    BY DEF TypeOK, Go
  <1>2. Await(t, stage) => turn' = None /\ pc' \in [Tasks -> Stages]
    BY DEF TypeOK, Await
  <1>3. Notify(t, stage) => turn' \in Tasks \cup {None} /\ pc' \in [Tasks -> Stages]
    BY <1>1, <1>2 DEF Notify
  <1>4. Local(t, f) => frame' \in [Tasks -> Frames]
    BY DEF TypeOK, Local
  <1>5. ASSUME Return(t)
        PROVE  /\ turn' \in Tasks \cup {None} /\ pc' \in [Tasks -> Stages]
               /\ frame' \in [Tasks -> Frames]
    <2>1. frame[t].then \in Stages
      BY DEF TypeOK, Frames, Stages
    <2>2. NoFrame \in Frames
      BY DEF NoFrame, Frames
    <2> QED
      BY <1>5, <2>1, <2>2 DEF TypeOK, Return, Go, Await, Local, Stages
  <1> QED
    BY <1>1, <1>2, <1>3, <1>4, <1>5

\* The part of IInv about the counters.
CountersInv == mem \in Counters /\ saved \in Counters \cup {None} /\ BreakerIsSound

\* The part about the rest.
RestInv ==
  /\ turn \in Tasks \cup {None}
  /\ pc \in [Tasks -> Stages] /\ frame \in [Tasks -> Frames]
  /\ positions \subseteq Ids
  /\ state \in [Ids -> States] /\ rows \in [Ids -> States]
  /\ paused \in BOOLEAN
  /\ trades \in [Ids -> Nat] /\ pnl \in Int
  /\ crashes \in Nat

LEMMA CountersStep == IInv /\ [Next]_vars => CountersInv'
  <1> SUFFICES ASSUME IInv, [Next]_vars PROVE CountersInv'
    OBVIOUS
  <1>0. /\ mem \in Counters /\ Sound(mem)
        /\ saved \in Counters \cup {None} /\ (saved # None => saved \in Counters /\ Sound(saved))
    BY DEF IInv, TypeOK, BreakerIsSound
  <1> USE DEF CountersInv, BreakerIsSound
  <1>1. Sound(Snapshot(mem)) /\ Snapshot(mem) \in Counters
    BY <1>0, CounterTypes, SoundOperators
  <1>2. ASSUME UNCHANGED <<mem, saved>> PROVE CountersInv'
    BY <1>0, <1>2 DEF Sound
  <1>3. ASSUME mem' \in Counters, Sound(mem)', UNCHANGED saved PROVE CountersInv'
    BY <1>0, <1>3 DEF Sound
  <1>4. ASSUME saved' = Snapshot(mem) \/ UNCHANGED saved, UNCHANGED mem PROVE CountersInv'
    BY <1>0, <1>1, <1>4 DEF Sound
  <1>5. CASE Start
    <2>1. Restored(saved) \in Counters /\ Sound(Restored(saved))
      BY <1>0, CounterTypes, SoundOperators
    <2> QED
      BY <2>1, <1>3, <1>5 DEF Start, Sound
  <1>6. CASE Connect \/ LoopForceClose
    BY <1>4, <1>6 DEF Connect, LoopForceClose, Shutdown
  <1>7. CASE PersistState
    BY <1>4, <1>7 DEF PersistState
  <1>8. CASE ExitProcess \/ Crash
    <2>1. mem' = FreshCounters /\ UNCHANGED saved
      BY <1>8 DEF ExitProcess, Crash, GoDown
    <2> QED
      BY <2>1, <1>3, FreshTypes DEF Sound
  <1>9. CASE CheckDailyReset
    <2>1. CASE UNCHANGED <<mem, saved>>
      BY <2>1, <1>2
    <2>2. CASE mem' = [mem EXCEPT !.day = "today", !.typed = TRUE] /\ UNCHANGED saved
      <3>1. mem' \in Counters
        BY <2>2, <1>0 DEF Counters
      <3>2. mem'.losses = mem.losses /\ mem'.tripped = mem.tripped /\ mem'.until = mem.until
        BY <2>2, <1>0 DEF Counters
      <3> QED
        BY <2>2, <3>1, <3>2, <1>0, <1>3 DEF Sound
    <2> QED
      BY <2>1, <2>2, <1>9 DEF CheckDailyReset
  <1>10. CASE ResetDaily
    <2>1. mem' = Cleared(mem) /\ UNCHANGED saved
      BY <1>10 DEF ResetDaily
    <2>2. Cleared(mem) \in Counters /\ Sound(Cleared(mem))
      BY <1>0, CounterTypes, SoundOperators
    <2> QED
      BY <2>1, <2>2, <1>3 DEF Sound
  <1>11. CASE CheckCooldown \/ ResetCircuitBreaker
    <2>1. (mem' = Lifted(mem) \/ UNCHANGED mem) /\ UNCHANGED saved
      BY <1>11 DEF CheckCooldown, ResetCircuitBreaker
    <2>2. Lifted(mem) \in Counters /\ Sound(Lifted(mem))
      BY <1>0, CounterTypes, SoundOperators
    <2> QED
      BY <2>1, <2>2, <1>0, <1>3 DEF Sound
  <1>12. ASSUME NEW t \in Tasks, Count(t) PROVE CountersInv'
    <2>1. frame[t].won \in {-1, 1}
      BY DEF IInv, TypeOK, Frames
    <2>2. mem' = Tripped(Counted(mem, frame[t].won)) /\ UNCHANGED saved
      BY <1>12 DEF Count
    <2>3. mem' \in Counters /\ Sound(Tripped(Counted(mem, frame[t].won)))
      BY <2>1, <2>2, <1>0, CounterTypes, SoundOperators
    <2> QED
      BY <2>2, <2>3, <1>3 DEF Sound
  <1>13. CASE Tick
    <2>1. mem' = Sooner(mem) /\ saved' = IF saved = None THEN None ELSE Sooner(saved)
      BY <1>13 DEF Tick
    <2>2. Sooner(mem) \in Counters /\ Sound(Sooner(mem))
      BY <1>0, CounterTypes, SoundOperators
    <2>3. saved # None => Sooner(saved) \in Counters /\ Sound(Sooner(saved))
      BY <1>0, CounterTypes, SoundOperators
    <2> QED
      BY <2>1, <2>2, <2>3 DEF Sound
  <1>14. CASE Midnight
    <2>1. mem' = Yesterday(mem) /\ saved' = IF saved = None THEN None ELSE Yesterday(saved)
      BY <1>14 DEF Midnight
    <2>2. Yesterday(mem) \in Counters /\ Sound(Yesterday(mem))
      BY <1>0, CounterTypes, SoundOperators
    <2>3. saved # None => Yesterday(saved) \in Counters /\ Sound(Yesterday(saved))
      BY <1>0, CounterTypes, SoundOperators
    <2> QED
      BY <2>1, <2>2, <2>3 DEF Sound
  <1>15. CASE GetExitPrice \/ CheckPositionExits \/ ProcessSignal \/ SignalEntry
              \/ UpdateUnrealizedPnl \/ PauseRequest
    BY <1>2, <1>15 DEF GetExitPrice, CheckPositionExits, ProcessSignal, SignalEntry,
      UpdateUnrealizedPnl, PauseRequest
  <1>16. ASSUME NEW t \in Tasks,
               ForceCloseAll(t) \/ SaveTrade(t) \/ CloseRow(t) \/ FinishClose(t)
                 \/ CloseLoopEnds(t) \/ CloseAllRequest(t)
        PROVE  CountersInv'
    BY <1>2, <1>16 DEF ForceCloseAll, SaveTrade, CloseRow, FinishClose, CloseLoopEnds,
      CloseAllRequest
  <1>17. CASE UNCHANGED vars
    BY <1>2, <1>17 DEF vars
  <1> QED
    BY <1>5, <1>6, <1>7, <1>8, <1>9, <1>10, <1>11, <1>12, <1>13, <1>14, <1>15, <1>16, <1>17 DEF Next, MainLoop, Closing

LEMMA RestStep == IInv /\ [Next]_vars => RestInv'
  <1> SUFFICES ASSUME IInv, [Next]_vars PROVE RestInv'
    OBVIOUS
  <1>0. RestInv /\ TypeOK /\ Main \in Tasks /\ Requests \subseteq Tasks /\ NoFrame \in Frames
    BY DEF IInv, TypeOK, RestInv, NoFrame, Frames
  <1>1. ASSUME NEW t \in Tasks, NEW stage \in Stages, Go(t, stage) \/ Await(t, stage)
                 \/ Notify(t, stage)
        PROVE  turn' \in Tasks \cup {None} /\ pc' \in [Tasks -> Stages]
    BY <1>0, <1>1, ControlTypes
  <1>2. ASSUME NEW t \in Tasks, NEW f \in Frames, Local(t, f)
        PROVE  frame' \in [Tasks -> Frames]
    BY <1>0, <1>2 DEF Local, RestInv
  <1>3. \A f \in Frames : f.at \in Ids \cup {None} /\ f.won \in {-1, 1} /\ f.todo \subseteq Ids
    BY DEF Frames
  <1>4. ASSUME UNCHANGED <<positions, state, rows, paused, trades, pnl, crashes>>,
               turn' \in Tasks \cup {None}, pc' \in [Tasks -> Stages], frame' \in [Tasks -> Frames]
        PROVE  RestInv'
    BY <1>0, <1>4 DEF RestInv
  <1>5. Open \subseteq Ids /\ Fresh \subseteq Ids
    BY <1>0 DEF RestInv, Open, Fresh
  <1>6. CASE Start
    <2>1. turn' \in Tasks \cup {None} /\ pc' \in [Tasks -> Stages]
      BY <1>0, <1>1, <1>6 DEF Start, Stages
    <2>2. positions' \subseteq Ids /\ state' \in [Ids -> States]
      BY <1>6 DEF Start, States
    <2> QED
      BY <1>0, <1>6, <2>1, <2>2 DEF RestInv, Start, ledger
  <1>7. CASE Connect \/ LoopForceClose
    <2>1. UNCHANGED <<positions, state, rows, paused, trades, pnl, crashes>>
      BY <1>7 DEF Connect, LoopForceClose, Shutdown, book, ledger
    <2>2. [NoFrame EXCEPT !.then = "exit_process"] \in Frames
            /\ [NoFrame EXCEPT !.then = "daily"] \in Frames
      BY DEF NoFrame, Frames
    <2>3. turn' \in Tasks \cup {None} /\ pc' \in [Tasks -> Stages]
      BY <1>0, <1>1, <1>7 DEF Connect, LoopForceClose, Shutdown, Stages
    <2>4. frame' \in [Tasks -> Frames]
      BY <1>0, <1>2, <1>7, <2>2 DEF Connect, LoopForceClose, Shutdown, RestInv
    <2> QED
      BY <1>4, <2>1, <2>3, <2>4
  <1>8. CASE ExitProcess \/ Crash
    <2>1. turn' \in Tasks \cup {None} /\ pc' \in [Tasks -> Stages] /\ frame' \in [Tasks -> Frames]
      BY <1>0, <1>8 DEF ExitProcess, Crash, GoDown, Stages
    <2>2. positions' \subseteq Ids /\ state' \in [Ids -> States] /\ rows' \in [Ids -> States]
      BY <1>0, <1>8 DEF ExitProcess, Crash, GoDown, States, RestInv
    <2>3. paused' \in BOOLEAN
      BY <1>8 DEF ExitProcess, Crash, GoDown
    <2>4. trades' \in [Ids -> Nat] /\ pnl' \in Int /\ crashes' \in Nat
      BY <1>0, <1>8 DEF ExitProcess, Crash, RestInv, ledger
    <2> QED
      BY <2>1, <2>2, <2>3, <2>4 DEF RestInv
  <1>9. CASE \/ CheckDailyReset \/ ResetDaily \/ CheckCooldown \/ GetExitPrice \/ ProcessSignal
             \/ PersistState
    <2>1. UNCHANGED <<frame, positions, state, rows, paused, trades, pnl, crashes>>
      BY <1>9 DEF CheckDailyReset, ResetDaily, CheckCooldown, GetExitPrice, ProcessSignal,
        PersistState, book, ledger
    <2>2. turn' \in Tasks \cup {None} /\ pc' \in [Tasks -> Stages]
      BY <1>0, <1>1, <1>9 DEF CheckDailyReset, ResetDaily, CheckCooldown, GetExitPrice,
        ProcessSignal, PersistState, Stages
    <2> QED
      BY <1>0, <1>4, <2>1, <2>2 DEF RestInv
  <1>10. CASE CheckPositionExits
    <2>1. \A crossed \in (SUBSET Open) \ {{}} :
            [NoFrame EXCEPT !.todo = crossed, !.then = "signal"] \in Frames
      BY <1>5 DEF NoFrame, Frames
    <2>2. frame' \in [Tasks -> Frames]
      BY <1>0, <1>2, <1>10, <2>1 DEF CheckPositionExits, RestInv
    <2>3. turn' \in Tasks \cup {None} /\ pc' \in [Tasks -> Stages]
      BY <1>0, <1>1, <1>10 DEF CheckPositionExits, Stages
    <2> QED
      BY <1>4, <1>10, <2>2, <2>3 DEF CheckPositionExits, book, ledger
  <1>11. CASE SignalEntry
    <2>1. turn' \in Tasks \cup {None} /\ pc' \in [Tasks -> Stages]
      BY <1>0, <1>1, <1>11 DEF SignalEntry, Stages
    <2>2. positions' \subseteq Ids /\ state' \in [Ids -> States] /\ rows' \in [Ids -> States]
      BY <1>0, <1>5, <1>11 DEF SignalEntry, RestInv, States, book
    <2> QED
      BY <1>0, <1>11, <2>1, <2>2 DEF SignalEntry, RestInv, ledger
  <1>12. ASSUME NEW t \in Tasks, ForceCloseAll(t) \/ CloseLoopEnds(t) PROVE RestInv'
    <2>1. [frame[t] EXCEPT !.todo = Open] \in Frames
      BY <1>0, <1>5 DEF RestInv, Frames
    <2>2. turn' \in Tasks \cup {None} /\ pc' \in [Tasks -> Stages] /\ frame' \in [Tasks -> Frames]
      BY <1>0, <1>12, <2>1, ControlTypes DEF ForceCloseAll, CloseLoopEnds, Stages
    <2> QED
      BY <1>4, <1>12, <2>2 DEF ForceCloseAll, CloseLoopEnds, book, ledger
  <1>13. ASSUME NEW t \in Tasks, SaveTrade(t) PROVE RestInv'
    <2>1. PICK p \in frame[t].todo, won \in {-1, 1} :
            /\ trades' = [trades EXCEPT ![p] = @ + 1]
            /\ pnl' = pnl + won
            /\ Go(t, "close_row")
            /\ Local(t, [frame[t] EXCEPT !.at = p, !.won = won, !.todo = @ \ {p}])
      BY <1>13 DEF SaveTrade
    <2>2. p \in Ids
      BY <1>0, <1>3 DEF RestInv
    <2>3. [frame[t] EXCEPT !.at = p, !.won = won, !.todo = @ \ {p}] \in Frames
      BY <1>0, <2>2 DEF RestInv, Frames
    <2>4. turn' \in Tasks \cup {None} /\ pc' \in [Tasks -> Stages]
      BY <1>1, <2>1 DEF Stages
    <2>5. trades' \in [Ids -> Nat] /\ pnl' \in Int
      BY <1>0, <2>1, <2>2 DEF RestInv
    <2>6. frame' \in [Tasks -> Frames]
      BY <1>2, <2>1, <2>3
    <2> QED
      BY <1>0, <1>13, <2>4, <2>5, <2>6 DEF RestInv, SaveTrade, book
  <1>14. ASSUME NEW t \in Tasks, CloseRow(t) \/ Count(t) PROVE RestInv'
    <2>1. turn' \in Tasks \cup {None} /\ pc' \in [Tasks -> Stages]
      BY <1>1, <1>14 DEF CloseRow, Count, Stages
    <2>2. rows' \in [Ids -> States]
      BY <1>0, <1>14 DEF CloseRow, Count, RestInv, States, book
    <2> QED
      BY <1>0, <1>14, <2>1, <2>2 DEF RestInv, CloseRow, Count, book, ledger
  <1>15. ASSUME NEW t \in Tasks, FinishClose(t) PROVE RestInv'
    <2>1. turn' \in Tasks \cup {None} /\ pc' \in [Tasks -> Stages]
      BY <1>1, <1>15 DEF FinishClose, Stages
    <2>2. [frame[t] EXCEPT !.at = None, !.won = 1] \in Frames
      BY <1>0 DEF RestInv, Frames
    <2>3. frame' \in [Tasks -> Frames]
      BY <1>2, <1>15, <2>2 DEF FinishClose
    <2>4. positions' \subseteq Ids /\ state' \in [Ids -> States]
      BY <1>0, <1>15 DEF FinishClose, RestInv, States
    <2> QED
      BY <1>0, <1>15, <2>1, <2>3, <2>4 DEF RestInv, FinishClose, ledger
  <1>16. CASE UpdateUnrealizedPnl
    <2>1. rows' \in [Ids -> States]
      BY <1>0, <1>16 DEF UpdateUnrealizedPnl, RestInv, States
    <2> QED
      BY <1>0, <1>16, <2>1 DEF UpdateUnrealizedPnl, RestInv, control, ledger
  <1>17. ASSUME NEW t \in Tasks, CloseAllRequest(t) PROVE RestInv'
    <2>1. [NoFrame EXCEPT !.then = "idle"] \in Frames
      BY DEF NoFrame, Frames
    <2>2. frame' \in [Tasks -> Frames]
      BY <1>2, <1>17, <2>1 DEF CloseAllRequest
    <2>3. turn' \in Tasks \cup {None} /\ pc' \in [Tasks -> Stages]
      BY <1>1, <1>17 DEF CloseAllRequest, Stages
    <2> QED
      BY <1>4, <1>17, <2>2, <2>3 DEF CloseAllRequest, book, ledger
  <1>18. CASE PauseRequest
    <2>1. paused' \in BOOLEAN
      BY <1>18 DEF PauseRequest
    <2> QED
      BY <1>0, <1>18, <2>1 DEF PauseRequest, RestInv, control, book, ledger
  <1>19. CASE ResetCircuitBreaker \/ Tick \/ Midnight \/ UNCHANGED vars
    <2>1. UNCHANGED <<turn, pc, frame, positions, state, rows, paused, trades, pnl, crashes>>
      BY <1>19 DEF ResetCircuitBreaker, Tick, Midnight, vars, control, book, ledger
    <2> QED
      BY <1>0, <2>1 DEF RestInv
  <1> QED
    BY <1>0, <1>6, <1>7, <1>8, <1>9, <1>10, <1>11, <1>12, <1>13, <1>14, <1>15, <1>16, <1>17, <1>18,
      <1>19 DEF Next, MainLoop, Closing

LEMMA Step == IInv /\ [Next]_vars => IInv'
  BY CountersStep, RestStep DEF IInv, TypeOK, CountersInv, RestInv

-----------------------------------------------------------------------------
(* Theorems.                                                               *)

THEOREM Invariance == Spec => []IInv
  BY Initially, Step, PTL DEF Spec

\* Every reachable state has its type, with and without Telegram.
THEOREM TypeCorrect == Spec => []TypeOK
  <1>1. IInv => TypeOK
    BY DEF IInv
  <1> QED
    BY Invariance, <1>1, PTL

\* In the process and in the saved state, MAX_CONSECUTIVE_LOSSES losses in a
\* row mean a breaker that is set, and a set breaker has an end: whatever
\* tasks settle at once, wherever the process dies and whenever it restarts.
THEOREM BreakerStaysSound == Spec => []BreakerIsSound
  <1>1. IInv => BreakerIsSound
    BY DEF IInv
  <1> QED
    BY Invariance, <1>1, PTL

-----------------------------------------------------------------------------
(* Control without Telegram.                                               *)

HIDE DEF Tasks

\* Stages between the trade and the end of a settlement, and those between
\* the first price and the last settlement of a closing loop.
Settling == {"close_row", "count", "finish"}
Atomic == Settling \cup {"close_loop"}

\* Without Telegram a closing loop has no await: nobody else may step.
TurnInv == \A t \in Tasks : pc[t] \in Atomic => turn = t

DownInv ==
  pc[Main] = "down" =>
    turn = None /\ positions = {} /\ \A t \in Requests : pc[t] = "idle"

\* A shutdown has saved the state before it closes the positions.
SavedInv ==
  pc[Main] = "exit_process" \/ frame[Main].then = "exit_process" => saved # None

ControlInv == TurnInv /\ DownInv /\ SavedInv

\* How one task moves.
LEMMA TaskMoves ==
  ASSUME TypeOK, NEW t \in Tasks, NEW stage, Go(t, stage) \/ Await(t, stage)
  PROVE  pc'[t] = stage /\ \A u \in Tasks \ {t} : pc'[u] = pc[u]
  BY DEF TypeOK, Go, Await

LEMMA FrameMoves ==
  ASSUME TypeOK, NEW t \in Tasks, NEW f, Local(t, f)
  PROVE  frame'[t] = f /\ \A u \in Tasks \ {t} : frame'[u] = frame[u]
  BY DEF TypeOK, Local

LEMMA ReturnMoves ==
  ASSUME TypeOK, NEW t \in Tasks, Return(t)
  PROVE  /\ pc'[t] = frame[t].then /\ frame'[t] = NoFrame
         /\ pc'[t] \in {"idle", "daily", "signal", "exit_process"}
         /\ turn' = t \/ (turn' = None /\ pc'[t] = "idle")
         /\ \A u \in Tasks \ {t} : pc'[u] = pc[u] /\ frame'[u] = frame[u]
  <1>1. frame[t].then \in {"idle", "daily", "signal", "exit_process"}
    BY DEF TypeOK, Frames
  <1>2. frame'[t] = NoFrame /\ \A u \in Tasks \ {t} : frame'[u] = frame[u]
    BY FrameMoves DEF Return
  <1>3. CASE frame[t].then = "idle"
    BY <1>1, <1>2, <1>3, TaskMoves DEF Return, Await
  <1>4. CASE frame[t].then # "idle"
    <2>1. Go(t, frame[t].then)
      BY <1>4 DEF Return
    <2>2. turn' = t
      BY <2>1 DEF Go
    <2>3. pc'[t] = frame[t].then /\ \A u \in Tasks \ {t} : pc'[u] = pc[u]
      BY <2>1, TaskMoves
    <2> QED
      BY <1>1, <1>2, <2>2, <2>3
  <1> QED
    BY <1>3, <1>4

LEMMA TurnMoves ==
  ASSUME TypeOK, TurnInv, NEW t \in Tasks, turn \in {None, t},
         turn' = t \/ pc'[t] \notin Atomic,
         \A u \in Tasks \ {t} : pc'[u] = pc[u]
  PROVE  TurnInv'
  BY PaperNoneAssumption DEF TurnInv

\* A task in the middle of a closing runs in a bot that is up.
LEMMA ActingIsUp ==
  ASSUME DownInv, NEW t \in Tasks, pc[t] \notin {"down", "idle"}
  PROVE  pc[Main] # "down"
  BY DEF DownInv, Tasks

\* A snapshot is a saved state, and no tick or midnight makes it none.
LEMMA SavedStays ==
  ASSUME TypeOK
  PROVE  /\ Snapshot(mem) # None
         /\ Tick \/ Midnight => (saved' = None <=> saved = None)
  <1>1. Snapshot(mem) # None
    BY CounterTypes, PaperSavedAssumption DEF TypeOK
  <1>2. saved # None => Sooner(saved) # None /\ Yesterday(saved) # None
    BY CounterTypes, PaperSavedAssumption DEF TypeOK
  <1> QED
    BY <1>1, <1>2 DEF Tick, Midnight

LEMMA ControlStep ==
  ASSUME ~Telegram, TypeOK, ControlInv, [Next]_vars
  PROVE  ControlInv'
  <1> USE DEF ControlInv
  <1> Main \in Tasks /\ Requests \subseteq Tasks
    BY DEF Tasks
  <1>1. CASE Start
    <2>1. pc'[Main] = "connect" /\ \A u \in Tasks \ {Main} : pc'[u] = pc[u]
      BY <1>1, TaskMoves DEF Start
    <2>2. TurnInv'
      BY <1>1, <2>1, TurnMoves DEF Start, Await, DownInv, Atomic, Settling
    <2> QED
      BY <1>1, <2>1, <2>2 DEF Start, DownInv, SavedInv
  <1>2. CASE Crash \/ ExitProcess
    <2>1. GoDown
      BY <1>2 DEF Crash, ExitProcess
    <2> QED
      BY <2>1, PaperTasksAssumption
      DEF GoDown, TurnInv, DownInv, SavedInv, Atomic, Settling, NoFrame
  <1>3. CASE UpdateUnrealizedPnl \/ PauseRequest \/ ResetCircuitBreaker \/ Tick \/ Midnight
             \/ UNCHANGED vars
    <2>1. UNCHANGED <<turn, pc, frame, positions>>
      BY <1>3 DEF UpdateUnrealizedPnl, PauseRequest, ResetCircuitBreaker, Tick, Midnight, vars,
         control, book
    <2>2. saved # None => saved' # None
      BY <1>3, SavedStays DEF UpdateUnrealizedPnl, PauseRequest, ResetCircuitBreaker, vars
    <2> QED
      BY <2>1, <2>2 DEF TurnInv, DownInv, SavedInv
  <1>4. ASSUME NEW t \in Tasks, NEW stage, stage # "down", stage # "exit_process",
               At(t, pc[t]), pc[Main] # "down",
               \/ Go(t, stage)
               \/ Await(t, stage) /\ stage \notin Atomic,
               t # Main \/ frame'[Main].then # "exit_process"
                 \/ frame'[Main].then = frame[Main].then \/ saved' # None,
               \A u \in Tasks \ {t} : frame'[u] = frame[u],
               saved # None => saved' # None
        PROVE  ControlInv'
    <2>1. pc'[t] = stage /\ \A u \in Tasks \ {t} : pc'[u] = pc[u]
      BY <1>4, TaskMoves
    <2>2. turn' = t \/ pc'[t] \notin Atomic
      BY <1>4, <2>1 DEF Go
    <2>3. TurnInv'
      BY <1>4, <2>1, <2>2, TurnMoves DEF At
    <2> QED
      BY <1>4, <2>1, <2>3 DEF DownInv, SavedInv
  <1>5. ASSUME NEW t \in Tasks, Return(t), At(t, pc[t]), pc[Main] # "down", UNCHANGED saved
        PROVE  ControlInv'
    <2>1. TurnInv'
      BY <1>5, ReturnMoves, TurnMoves DEF At, Atomic, Settling
    <2> QED
      BY <1>5, <2>1, ReturnMoves DEF DownInv, SavedInv, NoFrame
  <1>6. CASE Shutdown /\ pc[Main] # "down" /\ At(Main, pc[Main])
    <2>1. \A u \in Tasks \ {Main} : frame'[u] = frame[u]
      BY <1>6, FrameMoves DEF Shutdown
    <2> QED
      BY <1>4, <1>6, <2>1, SavedStays DEF Shutdown, Atomic, Settling
  <1>7. CASE Connect \/ LoopForceClose
    <2>1. pc[Main] # "down" /\ At(Main, pc[Main])
      BY <1>7 DEF Connect, LoopForceClose, At
    <2>2. CASE Shutdown
      BY <1>6, <2>1, <2>2
    <2>3. CASE UNCHANGED <<frame, saved>>
      BY <1>4, <1>7, <2>1, <2>3 DEF Connect, LoopForceClose, Shutdown, Atomic, Settling
    <2>4. CASE /\ Await(Main, "close_price") /\ UNCHANGED saved
               /\ Local(Main, [NoFrame EXCEPT !.then = "daily"])
      <3>1. frame'[Main].then = "daily" /\ \A u \in Tasks \ {Main} : frame'[u] = frame[u]
        BY <2>4, FrameMoves DEF NoFrame
      <3> QED
        BY <1>4, <2>1, <2>4, <3>1 DEF Atomic, Settling
    <2> QED
      BY <1>7, <2>2, <2>3, <2>4 DEF Connect, LoopForceClose
  <1>8. CASE CheckDailyReset \/ ResetDaily \/ CheckCooldown \/ GetExitPrice \/ ProcessSignal
             \/ SignalEntry
    <2>1. pc[Main] # "down" /\ At(Main, pc[Main]) /\ UNCHANGED <<frame, saved>>
      BY <1>8 DEF CheckDailyReset, ResetDaily, CheckCooldown, GetExitPrice, ProcessSignal,
         SignalEntry, At
    <2>2. \E stage \in {"daily_reset", "cooldown", "exits", "exit_mids", "signal",
                        "signal_mids", "persist"} : Go(Main, stage) \/ Await(Main, stage)
      BY <1>8 DEF CheckDailyReset, ResetDaily, CheckCooldown, GetExitPrice, ProcessSignal,
         SignalEntry, Notify
    <2> QED
      BY <1>4, <2>1, <2>2 DEF Atomic, Settling
  <1>9. CASE PersistState
    <2>1. saved # None => saved' # None
      BY <1>9, SavedStays DEF PersistState
    <2> QED
      BY <1>4, <1>9, <2>1 DEF PersistState, At, Atomic, Settling
  <1>10. CASE CheckPositionExits
    <2>1. CASE Go(Main, "signal") /\ UNCHANGED frame
      BY <1>4, <1>10, <2>1 DEF CheckPositionExits, At
    <2>2. ASSUME NEW crossed \in (SUBSET Open) \ {{}}, Go(Main, "close_loop"),
                 Local(Main, [NoFrame EXCEPT !.todo = crossed, !.then = "signal"])
          PROVE  ControlInv'
      <3> DEFINE f == [NoFrame EXCEPT !.todo = crossed, !.then = "signal"]
      <3>1. f.then = "signal"
        BY DEF NoFrame
      <3>2. frame'[Main] = f /\ \A u \in Tasks \ {Main} : frame'[u] = frame[u]
        BY <2>2, FrameMoves
      <3> HIDE DEF f
      <3> QED
        BY <1>4, <1>10, <2>2, <3>1, <3>2 DEF CheckPositionExits, At
    <2> QED
      BY <1>10, <2>1, <2>2 DEF CheckPositionExits
  <1>11. ASSUME NEW t \in Tasks, Closing(t)
         PROVE  ControlInv'
    <2>1. pc[Main] # "down" /\ At(t, pc[t]) /\ UNCHANGED saved
      BY <1>11, ActingIsUp DEF Closing, ForceCloseAll, SaveTrade, CloseRow, Count, FinishClose,
         CloseLoopEnds, At
    <2>2. CASE Return(t)
      BY <1>5, <2>1, <2>2
    <2>3. ASSUME NEW f, Local(t, f), f.then = frame[t].then, NEW stage \in Atomic, Go(t, stage)
          PROVE  ControlInv'
      BY <1>4, <2>1, <2>3, FrameMoves DEF Atomic, Settling
    <2>4. frame[t] \in Frames
      BY DEF TypeOK
    <2>5. CASE Go(t, "close_loop") /\ Local(t, [frame[t] EXCEPT !.todo = Open])
      BY <2>3, <2>4, <2>5 DEF Atomic, Frames
    <2>6. CASE SaveTrade(t)
      <3>1. PICK p \in frame[t].todo, won \in {-1, 1} :
              /\ Go(t, "close_row")
              /\ Local(t, [frame[t] EXCEPT !.at = p, !.won = won, !.todo = @ \ {p}])
        BY <2>6 DEF SaveTrade
      <3> QED
        BY <2>3, <2>4, <3>1 DEF Atomic, Settling, Frames
    <2>7. CASE FinishClose(t)
      BY <2>3, <2>4, <2>7 DEF FinishClose, Notify, Atomic, Frames
    <2>8. CASE CloseRow(t) \/ Count(t)
      <3>1. UNCHANGED frame /\ (Go(t, "count") \/ Go(t, "finish"))
        BY <2>8 DEF CloseRow, Count, Notify
      <3> QED
        BY <1>4, <2>1, <3>1
    <2> QED
      BY <1>11, <2>2, <2>5, <2>6, <2>7, <2>8 DEF Closing, ForceCloseAll, CloseLoopEnds
  <1>12. ASSUME NEW t \in Requests, CloseAllRequest(t)
         PROVE  ControlInv'
    <2>1. \A u \in Tasks \ {t} : frame'[u] = frame[u]
      BY <1>12, FrameMoves DEF CloseAllRequest
    <2> QED
      BY <1>4, <1>12, <2>1, PaperTasksAssumption DEF CloseAllRequest, At, Atomic, Settling
  <1> QED
    BY <1>1, <1>2, <1>3, <1>7, <1>8, <1>9, <1>10, <1>11, <1>12 DEF Next, MainLoop, ExitProcess

-----------------------------------------------------------------------------
(* The book without Telegram.                                              *)

\* What a closing loop has in hand is listed, and a position being settled has
\* its trade, and from "count" on a closed row.
HandInv ==
  \A t \in Tasks :
    /\ pc[t] \in Atomic => frame[t].todo \subseteq positions
    /\ pc[t] \in Settling => frame[t].at \in positions \ frame[t].todo
    /\ pc[t] = "close_row" => rows[frame[t].at] = "open" /\ trades[frame[t].at] >= 1
    /\ pc[t] \in {"count", "finish"} => rows[frame[t].at] = "closed_confirmed"

\* A listed position is open, in the store too unless it is being settled.
RowClosed(p) ==
  /\ rows[p] = "closed_confirmed"
  /\ \E t \in Tasks : pc[t] \in {"count", "finish"} /\ frame[t].at = p

ListInv ==
  \A p \in positions : state[p] = "open" /\ (rows[p] = "open" \/ RowClosed(p))

TradeInv ==
  \A p \in Ids : /\ rows[p] = "closed_confirmed" => trades[p] >= 1
                 /\ rows[p] = "none" => trades[p] = 0

\* Before the first death: an open row has no trade unless it is being
\* settled, every open row is listed or comes back with the saved state, and
\* there are no more of them than the limit allows.
Held == positions \cup OpenRows
TradeSaved(p) == \E t \in Tasks : pc[t] = "close_row" /\ frame[t].at = p

LifeInv ==
  crashes = 0 =>
    /\ \A p \in Ids : trades[p] <= 1
    /\ \A p \in Ids : rows[p] = "open" /\ trades[p] # 0 => TradeSaved(p)
    /\ pc[Main] # "down" => OpenRows \subseteq positions
    /\ pc[Main] = "down" /\ saved = None => OpenRows = {}
    /\ IsFiniteSet(Held) /\ Cardinality(Held) <= MAX_POSITIONS
    /\ pc[Main] = "signal_mids" => Cardinality(Held) < MAX_POSITIONS

BookInv == HandInv /\ ListInv /\ TradeInv /\ LifeInv

\* There is room for what is held, and for less.
LEMMA FewerHeld ==
  ASSUME LifeInv, crashes = 0, NEW S, S \subseteq Held
  PROVE  IsFiniteSet(S) /\ Cardinality(S) <= MAX_POSITIONS
  BY FS_Subset, FS_CardinalityType, PaperLimitAssumption DEF LifeInv

\* A step outside a settlement that leaves the book and the trades alone.
LEMMA QuietMove ==
  ASSUME TypeOK, BookInv, NEW t \in Tasks,
         pc[t] \notin Settling, pc'[t] \notin Settling,
         \A u \in Tasks \ {t} : pc'[u] = pc[u] /\ frame'[u] = frame[u],
         pc'[t] = "close_loop" => frame'[t].todo \subseteq positions,
         UNCHANGED <<positions, state, rows, trades, crashes>>,
         pc[Main] # "down", pc'[Main] # "down",
         \/ pc'[Main] # "signal_mids" \/ pc[Main] = "signal_mids"
         \/ Cardinality(positions) < MAX_POSITIONS
  PROVE  BookInv'
  <1>1. HandInv'
    <2> SUFFICES ASSUME NEW u \in Tasks PROVE HandInv!(u)'
      BY DEF HandInv
    <2>1. CASE u = t
      BY <2>1 DEF HandInv, Atomic, Settling
    <2>2. CASE u # t
      BY <2>2 DEF BookInv, HandInv
    <2> QED
      BY <2>1, <2>2
  <1>2. \A p \in positions : RowClosed(p) => RowClosed(p)'
    BY DEF RowClosed, Settling
  <1>3. ListInv'
    BY <1>2 DEF BookInv, ListInv
  <1>4. TradeInv'
    BY DEF BookInv, TradeInv
  <1>5. LifeInv'
    <2>1. \A p \in Ids : TradeSaved(p) => TradeSaved(p)'
      BY DEF TradeSaved, Settling
    <2>2. UNCHANGED <<Held, OpenRows>>
      BY DEF Held, OpenRows
    <2>3. OpenRows \subseteq positions => Held = positions
      BY DEF Held
    <2> QED
      BY <2>1, <2>2, <2>3 DEF BookInv, LifeInv
  <1> QED
    BY <1>1, <1>3, <1>4, <1>5 DEF BookInv

LEMMA StartBook ==
  ASSUME TypeOK, ControlInv, BookInv, Start
  PROVE  BookInv'
  <1> Main \in Tasks
    BY DEF Tasks
  <1>1. pc[Main] = "down" /\ turn = None /\ positions = {}
    BY DEF ControlInv, DownInv, Start
  <1>2. \A t \in Tasks : pc[t] \notin Atomic
    BY <1>1, PaperNoneAssumption DEF ControlInv, TurnInv
  <1>3. pc'[Main] = "connect" /\ \A u \in Tasks \ {Main} : pc'[u] = pc[u]
    BY TaskMoves DEF Start
  <1>4. \A t \in Tasks : pc'[t] \notin Atomic
    BY <1>2, <1>3 DEF Atomic, Settling
  <1>5. HandInv'
    BY <1>4 DEF HandInv, Atomic, Settling
  <1>6. ListInv'
    BY DEF ListInv, Start
  <1>7. TradeInv'
    BY DEF BookInv, TradeInv, Start, ledger
  <1>8. LifeInv'
    <2>1. UNCHANGED <<rows, trades, crashes>>
      BY DEF Start, ledger
    <2>2. OpenRows' = OpenRows
      BY <2>1 DEF OpenRows
    <2>3. \A p \in Ids : ~TradeSaved(p)
      BY <1>2 DEF TradeSaved, Atomic, Settling
    <2>4. positions' \subseteq OpenRows
      BY DEF Start, OpenRows
    <2>5. crashes = 0 => OpenRows \subseteq positions'
      BY <1>1 DEF BookInv, LifeInv, Start, OpenRows
    <2>6. Held' = Held
      BY <1>1, <2>2, <2>4 DEF Held
    <2> QED
      BY <1>1, <1>3, <2>1, <2>2, <2>3, <2>5, <2>6 DEF BookInv, LifeInv
  <1> QED
    BY <1>5, <1>6, <1>7, <1>8 DEF BookInv

LEMMA GoDownBook ==
  ASSUME TypeOK, ControlInv, BookInv, Crash \/ ExitProcess
  PROVE  BookInv'
  <1> Main \in Tasks
    BY DEF Tasks
  <1>1. GoDown /\ UNCHANGED <<rows, trades, saved>>
    BY DEF Crash, ExitProcess, ledger
  <1>2. \A t \in Tasks : pc'[t] \in {"down", "idle"}
    BY <1>1 DEF GoDown
  <1>3. positions' = {} /\ pc'[Main] = "down"
    BY <1>1 DEF GoDown
  <1>4. HandInv' /\ ListInv'
    BY <1>2, <1>3 DEF HandInv, ListInv, Atomic, Settling
  <1>5. TradeInv'
    BY <1>1 DEF BookInv, TradeInv
  <1>6. CASE Crash
    <2>1. crashes' # 0
      BY <1>6 DEF Crash, TypeOK
    <2> QED
      BY <1>4, <1>5, <2>1 DEF BookInv, LifeInv
  <1>7. CASE ExitProcess
    <2>1. pc[Main] = "exit_process" /\ turn \in {None, Main} /\ crashes' = crashes
      BY <1>7 DEF ExitProcess, At
    <2>2. saved # None
      BY <2>1 DEF ControlInv, SavedInv
    <2>3. \A t \in Tasks : pc[t] \notin Atomic
      BY <2>1, PaperNoneAssumption DEF ControlInv, TurnInv, Atomic, Settling
    <2>4. \A p \in Ids : ~TradeSaved(p)
      BY <2>3 DEF TradeSaved, Atomic, Settling
    <2>5. OpenRows' = OpenRows /\ Held' \subseteq Held
      BY <1>1, <1>3 DEF OpenRows, Held
    <2>6. ASSUME crashes = 0
          PROVE  IsFiniteSet(Held') /\ Cardinality(Held') <= MAX_POSITIONS
      BY <2>5, <2>6, FewerHeld DEF BookInv
    <2> QED
      BY <1>1, <1>3, <1>4, <1>5, <2>1, <2>2, <2>4, <2>5, <2>6 DEF BookInv, LifeInv
  <1> QED
    BY <1>6, <1>7

LEMMA SignalEntryBook ==
  ASSUME ~Telegram, TypeOK, ControlInv, BookInv, SignalEntry
  PROVE  BookInv'
  <1> Main \in Tasks
    BY DEF Tasks
  <1>1. pc[Main] = "signal_mids" /\ turn \in {None, Main} /\ UNCHANGED <<frame, trades, crashes>>
    BY DEF SignalEntry, At, ledger
  <1>2. \A t \in Tasks : pc[t] \notin Atomic
    BY <1>1, PaperNoneAssumption DEF ControlInv, TurnInv, Atomic, Settling
  <1>3. pc'[Main] = "persist" /\ \A u \in Tasks \ {Main} : pc'[u] = pc[u]
    BY TaskMoves DEF SignalEntry, Notify
  <1>4. \A t \in Tasks : pc'[t] \notin Atomic
    BY <1>2, <1>3 DEF Atomic, Settling
  <1>5. CASE UNCHANGED book
    BY <1>1, <1>3, <1>4, <1>5, QuietMove DEF book, Atomic, Settling
  <1>6. CASE ~UNCHANGED book
    <2>1. PICK p \in Fresh : /\ positions' = positions \cup {p}
                             /\ state' = [state EXCEPT ![p] = "open"]
                             /\ rows' = [rows EXCEPT ![p] = "open"]
      <3>1. (CHOOSE id \in Fresh : TRUE) \in Fresh
        BY <1>6 DEF SignalEntry
      <3> QED
        BY <1>6, <3>1 DEF SignalEntry
    <2>2. p \in Ids /\ rows[p] = "none"
      BY DEF Fresh
    <2>3. /\ state'[p] = "open" /\ rows'[p] = "open"
          /\ \A q \in Ids \ {p} : state'[q] = state[q] /\ rows'[q] = rows[q]
      BY <2>1, <2>2 DEF TypeOK
    <2>4. \A q \in positions : state[q] = "open" /\ rows[q] = "open"
      BY <1>2 DEF BookInv, ListInv, RowClosed, Atomic, Settling
    <2>5. HandInv'
      BY <1>4 DEF HandInv, Atomic, Settling
    <2>6. ListInv'
      BY <2>1, <2>2, <2>3, <2>4 DEF ListInv, TypeOK
    <2>7. trades[p] = 0
      BY <2>2 DEF BookInv, TradeInv
    <2>8. TradeInv'
      BY <1>1, <2>3 DEF BookInv, TradeInv
    <2>9. LifeInv'
      <3> SUFFICES ASSUME crashes = 0 PROVE LifeInv'
        BY <1>1 DEF LifeInv
      <3>1. \A q \in Ids : ~TradeSaved(q)
        BY <1>2 DEF TradeSaved, Atomic, Settling
      <3>2. OpenRows' = OpenRows \cup {p} /\ Held' = Held \cup {p}
        BY <2>1, <2>2, <2>3 DEF OpenRows, Held
      <3>3. IsFiniteSet(Held) /\ Cardinality(Held) < MAX_POSITIONS
        BY <1>1 DEF BookInv, LifeInv
      <3>4. IsFiniteSet(Held') /\ Cardinality(Held') <= MAX_POSITIONS
        <4>1. Cardinality(Held) \in Nat
          BY <3>3, FS_CardinalityType
        <4>2. /\ IsFiniteSet(Held \cup {p})
              /\ Cardinality(Held \cup {p}) \in {Cardinality(Held), Cardinality(Held) + 1}
          BY <3>3, FS_AddElement
        <4> QED
          BY <3>2, <3>3, <4>1, <4>2, PaperLimitAssumption
      <3>5. OpenRows \subseteq positions
        BY <1>1 DEF BookInv, LifeInv
      <3> QED
        BY <1>1, <1>3, <2>1, <2>3, <2>7, <3>1, <3>2, <3>4, <3>5 DEF BookInv, LifeInv
    <2> QED
      BY <2>5, <2>6, <2>8, <2>9 DEF BookInv
  <1> QED
    BY <1>5, <1>6

LEMMA SaveTradeBook ==
  ASSUME TypeOK, ControlInv, BookInv, NEW t \in Tasks, SaveTrade(t)
  PROVE  BookInv'
  <1>1. PICK p \in frame[t].todo, won \in {-1, 1} :
          /\ trades' = [trades EXCEPT ![p] = @ + 1]
          /\ Go(t, "close_row")
          /\ Local(t, [frame[t] EXCEPT !.at = p, !.won = won, !.todo = @ \ {p}])
    BY DEF SaveTrade
  <1>2. pc[t] = "close_loop" /\ turn = t /\ UNCHANGED <<positions, state, rows, crashes>>
    BY DEF SaveTrade, At, ControlInv, TurnInv, Atomic, book
  <1>3. \A u \in Tasks \ {t} : pc[u] \notin Atomic
    BY <1>2 DEF ControlInv, TurnInv
  <1>4. pc'[t] = "close_row" /\ \A u \in Tasks \ {t} : pc'[u] = pc[u]
    BY <1>1, TaskMoves
  <1>5. frame'[t].at = p /\ frame'[t].todo = frame[t].todo \ {p}
    BY <1>1 DEF TypeOK, Local, Frames
  <1>6. \A u \in Tasks \ {t} : frame'[u] = frame[u]
    BY <1>1 DEF TypeOK, Local
  <1>7. p \in positions /\ p \in Ids /\ frame[t].todo \subseteq positions
    BY <1>1, <1>2 DEF BookInv, HandInv, Atomic, TypeOK
  <1>8. \A q \in positions : state[q] = "open" /\ rows[q] = "open"
    BY <1>2, <1>3 DEF BookInv, ListInv, RowClosed, Atomic, Settling
  <1>9. /\ trades \in [Ids -> Nat] /\ trades'[p] = trades[p] + 1
        /\ \A q \in Ids \ {p} : trades'[q] = trades[q]
    BY <1>1, <1>7 DEF TypeOK
  <1>10. HandInv'
    <2>1. \A u \in Tasks \ {t} : pc'[u] \notin Atomic
      BY <1>3, <1>4
    <2>2. trades'[p] >= 1
      BY <1>7, <1>9
    <2> QED
      BY <1>2, <1>4, <1>5, <1>7, <1>8, <2>1, <2>2 DEF HandInv, Atomic, Settling
  <1>11. ListInv'
    BY <1>2, <1>8 DEF ListInv
  <1>12. TradeInv'
    BY <1>2, <1>7, <1>8, <1>9 DEF BookInv, TradeInv
  <1>13. LifeInv'
    <2> SUFFICES ASSUME crashes = 0 PROVE LifeInv'
      BY <1>2 DEF LifeInv
    <2>1. \A q \in Ids : ~TradeSaved(q)
      BY <1>2, <1>3 DEF TradeSaved, Atomic, Settling
    <2>2. trades[p] = 0
      BY <1>7, <1>8, <2>1 DEF BookInv, LifeInv
    <2>3. TradeSaved(p)'
      BY <1>4, <1>5 DEF TradeSaved
    <2>4. OpenRows' = OpenRows /\ Held' = Held
      BY <1>2 DEF OpenRows, Held
    <2>5. pc'[Main] \notin {"down", "signal_mids"} \/ pc'[Main] = pc[Main]
      BY <1>4 DEF Tasks
    <2>6. /\ \A q \in Ids : trades'[q] <= 1
          /\ \A q \in Ids : rows'[q] = "open" /\ trades'[q] # 0 => TradeSaved(q)'
      BY <1>2, <1>9, <2>1, <2>2, <2>3 DEF BookInv, LifeInv
    <2>7. pc[Main] # "down"
      BY <1>2, ActingIsUp DEF ControlInv
    <2> QED
      BY <1>2, <2>4, <2>5, <2>6, <2>7, PaperNoneAssumption DEF BookInv, LifeInv
  <1> QED
    BY <1>10, <1>11, <1>12, <1>13 DEF BookInv

LEMMA CloseRowBook ==
  ASSUME TypeOK, ControlInv, BookInv, NEW t \in Tasks, CloseRow(t)
  PROVE  BookInv'
  <1>0. PICK p : p = frame[t].at
    OBVIOUS
  <1>1. pc[t] = "close_row" /\ UNCHANGED <<frame, positions, state, trades, crashes>>
    BY DEF CloseRow, At, ledger
  <1>2. \A u \in Tasks \ {t} : pc[u] \notin Atomic
    BY <1>1 DEF CloseRow, At, ControlInv, TurnInv, Atomic, Settling
  <1>3. pc'[t] = "count" /\ \A u \in Tasks \ {t} : pc'[u] = pc[u]
    BY TaskMoves DEF CloseRow
  <1>4. p \in positions /\ p \in Ids /\ trades[p] >= 1
    BY <1>0, <1>1 DEF BookInv, HandInv, Settling, TypeOK
  <1>5. rows'[p] = "closed_confirmed" /\ \A q \in Ids \ {p} : rows'[q] = rows[q]
    BY <1>0, <1>4 DEF CloseRow, TypeOK
  <1>6. \A q \in positions : state[q] = "open" /\ rows[q] = "open"
    BY <1>1, <1>2 DEF BookInv, ListInv, RowClosed, Atomic, Settling
  <1>7. HandInv'
    BY <1>0, <1>1, <1>2, <1>3, <1>5 DEF BookInv, HandInv, Atomic, Settling
  <1>8. RowClosed(p)'
    BY <1>0, <1>1, <1>3, <1>5 DEF RowClosed
  <1>9. ListInv'
    BY <1>1, <1>5, <1>6, <1>8 DEF ListInv, TypeOK
  <1>10. TradeInv'
    BY <1>1, <1>4, <1>5 DEF BookInv, TradeInv
  <1>11. LifeInv'
    <2> SUFFICES ASSUME crashes = 0 PROVE LifeInv'
      BY <1>1 DEF LifeInv
    <2>1. \A q \in Ids \ {p} : ~TradeSaved(q)
      BY <1>0, <1>1, <1>2 DEF TradeSaved, Atomic, Settling
    <2>2. pc[Main] # "down" /\ pc'[Main] # "down"
      BY <1>1, <1>3, ActingIsUp DEF ControlInv, Tasks
    <2>3. OpenRows \subseteq positions
      BY <2>2 DEF BookInv, LifeInv
    <2>4. OpenRows' \subseteq OpenRows
      BY <1>5 DEF OpenRows
    <2>5. Held' = Held
      BY <1>1, <2>3, <2>4 DEF Held
    <2>6. pc'[Main] = "signal_mids" => pc[Main] = "signal_mids"
      BY <1>3 DEF Tasks
    <2> QED
      BY <1>1, <1>5, <2>1, <2>2, <2>3, <2>4, <2>5, <2>6 DEF BookInv, LifeInv
  <1> QED
    BY <1>7, <1>9, <1>10, <1>11 DEF BookInv

LEMMA CountBook ==
  ASSUME ~Telegram, TypeOK, ControlInv, BookInv, NEW t \in Tasks, Count(t)
  PROVE  BookInv'
  <1>1. pc[t] = "count" /\ UNCHANGED <<frame, positions, state, rows, trades, crashes>>
    BY DEF Count, At, ledger, book
  <1>2. pc'[t] = "finish" /\ \A u \in Tasks \ {t} : pc'[u] = pc[u]
    BY TaskMoves DEF Count, Notify
  <1>3. HandInv'
    BY <1>1, <1>2 DEF BookInv, HandInv, Atomic, Settling
  <1>4. \A p \in Ids : RowClosed(p) => RowClosed(p)'
    BY <1>1, <1>2 DEF RowClosed
  <1>5. ListInv'
    BY <1>1, <1>4 DEF BookInv, ListInv, TypeOK
  <1>6. TradeInv'
    BY <1>1 DEF BookInv, TradeInv
  <1>7. LifeInv'
    <2>1. \A p \in Ids : TradeSaved(p) => TradeSaved(p)'
      BY <1>1, <1>2 DEF TradeSaved
    <2>2. pc[Main] # "down" /\ (pc'[Main] = "signal_mids" => pc[Main] = "signal_mids")
      BY <1>1, <1>2, ActingIsUp DEF ControlInv, Tasks
    <2>3. UNCHANGED <<OpenRows, Held>> /\ pc'[Main] # "down"
      BY <1>1, <1>2, <2>2 DEF OpenRows, Held, Tasks
    <2> QED
      BY <1>1, <2>1, <2>2, <2>3 DEF BookInv, LifeInv
  <1> QED
    BY <1>3, <1>5, <1>6, <1>7 DEF BookInv

LEMMA FinishBook ==
  ASSUME ~Telegram, TypeOK, ControlInv, BookInv, NEW t \in Tasks, FinishClose(t)
  PROVE  BookInv'
  <1>0. PICK p : p = frame[t].at
    OBVIOUS
  <1>1. pc[t] = "finish" /\ turn = t /\ UNCHANGED <<rows, trades, crashes>>
    BY DEF FinishClose, At, ControlInv, TurnInv, Atomic, Settling, ledger
  <1>2. \A u \in Tasks \ {t} : pc[u] \notin Atomic
    BY <1>1 DEF ControlInv, TurnInv
  <1>3. pc'[t] = "close_loop" /\ \A u \in Tasks \ {t} : pc'[u] = pc[u]
    BY TaskMoves DEF FinishClose, Notify
  <1>4. p \in positions /\ p \in Ids /\ rows[p] = "closed_confirmed"
        /\ frame[t].todo \subseteq positions /\ p \notin frame[t].todo
    BY <1>0, <1>1 DEF BookInv, HandInv, Atomic, Settling, TypeOK
  <1>5. frame'[t].todo = frame[t].todo
    BY DEF FinishClose, TypeOK, Local, Frames
  <1>6. positions' = positions \ {p} /\ \A q \in Ids \ {p} : state'[q] = state[q]
    BY <1>0 DEF FinishClose, TypeOK
  <1>7. \A q \in positions \ {p} : state[q] = "open" /\ rows[q] = "open"
    BY <1>0, <1>1, <1>2 DEF BookInv, ListInv, RowClosed, Atomic, Settling
  <1>8. HandInv'
    BY <1>2, <1>3, <1>4, <1>5, <1>6 DEF HandInv, Atomic, Settling
  <1>9. ListInv'
    BY <1>1, <1>6, <1>7 DEF ListInv, TypeOK
  <1>10. TradeInv'
    BY <1>1 DEF BookInv, TradeInv
  <1>11. LifeInv'
    <2> SUFFICES ASSUME crashes = 0 PROVE LifeInv'
      BY <1>1 DEF LifeInv
    <2>1. \A q \in Ids : ~TradeSaved(q)
      BY <1>1, <1>2 DEF TradeSaved, Atomic, Settling
    <2>2. pc[Main] # "down" /\ pc'[Main] # "down"
      BY <1>1, <1>3, ActingIsUp DEF ControlInv, Tasks
    <2>3. OpenRows' = OpenRows /\ Held' \subseteq Held
      BY <1>1, <1>6 DEF OpenRows, Held
    <2>4. OpenRows' \subseteq positions'
      BY <1>1, <1>4, <1>6, <2>2 DEF BookInv, LifeInv, OpenRows
    <2>5. IsFiniteSet(Held') /\ Cardinality(Held') <= MAX_POSITIONS
      BY <2>3, FewerHeld DEF BookInv
    <2>6. CASE pc'[Main] = "signal_mids"
      <3>1. IsFiniteSet(Held) /\ Cardinality(Held) < MAX_POSITIONS
        BY <1>3, <2>6 DEF BookInv, LifeInv, Tasks
      <3>2. /\ Cardinality(Held) \in Nat /\ Cardinality(Held') \in Nat
            /\ Cardinality(Held') <= Cardinality(Held)
        BY <2>3, <2>5, <3>1, FS_Subset, FS_CardinalityType
      <3>3. Cardinality(Held') < MAX_POSITIONS
        BY <3>1, <3>2, PaperLimitAssumption
      <3> QED
        BY <1>1, <2>1, <2>2, <2>4, <2>5, <3>3 DEF BookInv, LifeInv
    <2>7. CASE pc'[Main] # "signal_mids"
      BY <1>1, <2>1, <2>2, <2>4, <2>5, <2>7 DEF BookInv, LifeInv
    <2> QED
      BY <2>6, <2>7
  <1> QED
    BY <1>8, <1>9, <1>10, <1>11 DEF BookInv

\* A step that leaves the control, the book and the trades alone.
LEMMA OtherBook ==
  ASSUME TypeOK, ControlInv, BookInv,
         UNCHANGED <<pc, frame, positions, state, rows, trades, crashes>>,
         saved # None => saved' # None
  PROVE  BookInv'
  <1>1. HandInv'
    BY DEF BookInv, HandInv
  <1>2. UNCHANGED <<Held, OpenRows>> /\ \A p \in Ids : TradeSaved(p)' = TradeSaved(p)
    BY DEF Held, OpenRows, TradeSaved
  <1>3. \A p \in Ids : RowClosed(p) => RowClosed(p)'
    BY DEF RowClosed
  <1>4. ListInv'
    BY <1>3 DEF BookInv, ListInv, TypeOK
  <1>5. TradeInv'
    BY DEF BookInv, TradeInv
  <1>6. LifeInv'
    BY <1>2 DEF BookInv, LifeInv
  <1> QED
    BY <1>1, <1>4, <1>5, <1>6 DEF BookInv

\* The candle's save of the open positions writes what the rows hold.
LEMMA CandleKeepsRows ==
  ASSUME TypeOK, ControlInv, BookInv, UpdateUnrealizedPnl
  PROVE  rows' = rows
  <1>1. \A t \in Tasks : pc[t] \notin Atomic
    BY PaperNoneAssumption DEF UpdateUnrealizedPnl, ControlInv, TurnInv
  <1>2. \A p \in Open : rows[p] = "open"
    BY <1>1 DEF Open, BookInv, ListInv, RowClosed, Atomic, Settling
  <1> QED
    BY <1>2 DEF UpdateUnrealizedPnl, TypeOK

LEMMA BookStep ==
  ASSUME ~Telegram, TypeOK, ControlInv, BookInv, [Next]_vars
  PROVE  BookInv'
  <1> Main \in Tasks /\ Requests \subseteq Tasks
    BY DEF Tasks
  <1>1. CASE UpdateUnrealizedPnl
    BY <1>1, CandleKeepsRows, OtherBook DEF UpdateUnrealizedPnl, control, ledger
  <1>2. CASE PauseRequest \/ ResetCircuitBreaker \/ Tick \/ Midnight \/ UNCHANGED vars
    BY <1>2, OtherBook, SavedStays
    DEF PauseRequest, ResetCircuitBreaker, Tick, Midnight, vars, control, book, ledger
  <1>3. ASSUME NEW stage, stage \notin Settling, stage # "down", stage # "close_loop",
               Go(Main, stage) \/ Await(Main, stage),
               pc[Main] \notin Settling \cup {"down"},
               stage # "signal_mids" \/ Cardinality(positions) < MAX_POSITIONS,
               \A u \in Tasks \ {Main} : frame'[u] = frame[u],
               UNCHANGED <<positions, state, rows, trades, crashes>>
        PROVE  BookInv'
    <2>1. pc'[Main] = stage /\ \A u \in Tasks \ {Main} : pc'[u] = pc[u]
      BY <1>3, TaskMoves
    <2> QED
      BY <1>3, <2>1, QuietMove
  <1>4. CASE Connect \/ LoopForceClose
    <2>1. \A u \in Tasks \ {Main} : frame'[u] = frame[u]
      BY <1>4, FrameMoves DEF Connect, LoopForceClose, Shutdown
    <2>2. \E stage \in {"force", "close_price", "daily"} : Go(Main, stage) \/ Await(Main, stage)
      BY <1>4 DEF Connect, LoopForceClose, Shutdown
    <2>3. /\ pc[Main] \notin Settling \cup {"down"}
          /\ UNCHANGED <<positions, state, rows, trades, crashes>>
      BY <1>4 DEF Connect, LoopForceClose, At, Settling, book, ledger
    <2> QED
      BY <1>3, <2>1, <2>2, <2>3 DEF Settling
  <1>5. CASE CheckDailyReset \/ ResetDaily \/ CheckCooldown \/ GetExitPrice \/ ProcessSignal
             \/ PersistState
    <2>1. \E stage \in {"daily_reset", "cooldown", "exits", "exit_mids", "signal",
                        "signal_mids", "persist", "force"} :
            /\ Go(Main, stage) \/ Await(Main, stage)
            /\ stage # "signal_mids" \/ Cardinality(positions) < MAX_POSITIONS
      BY <1>5 DEF CheckDailyReset, ResetDaily, CheckCooldown, GetExitPrice, ProcessSignal,
         PersistState, Notify, CanOpen
    <2>2. /\ pc[Main] \notin Settling \cup {"down"}
          /\ UNCHANGED <<frame, positions, state, rows, trades, crashes>>
      BY <1>5 DEF CheckDailyReset, ResetDaily, CheckCooldown, GetExitPrice, ProcessSignal,
         PersistState, At, Settling, book, ledger
    <2> QED
      BY <1>3, <2>1, <2>2 DEF Settling
  <1>6. CASE CheckPositionExits
    <2>1. /\ pc[Main] = "exit_mids"
          /\ UNCHANGED <<positions, state, rows, trades, crashes>>
      BY <1>6 DEF CheckPositionExits, At, book, ledger
    <2>2. CASE Go(Main, "signal") /\ UNCHANGED frame
      BY <1>3, <2>1, <2>2 DEF Settling
    <2>3. ASSUME NEW crossed \in (SUBSET Open) \ {{}}, Go(Main, "close_loop"),
                 Local(Main, [NoFrame EXCEPT !.todo = crossed, !.then = "signal"])
          PROVE  BookInv'
      <3> DEFINE f == [NoFrame EXCEPT !.todo = crossed, !.then = "signal"]
      <3>1. f.todo = crossed
        BY DEF NoFrame
      <3>2. frame'[Main] = f /\ \A u \in Tasks \ {Main} : frame'[u] = frame[u]
        BY <2>3, FrameMoves
      <3> HIDE DEF f
      <3>3. frame'[Main].todo \subseteq positions
        BY <3>1, <3>2 DEF Open
      <3>4. pc'[Main] = "close_loop" /\ \A u \in Tasks \ {Main} : pc'[u] = pc[u]
        BY <2>3, TaskMoves
      <3> QED
        BY <2>1, <3>2, <3>3, <3>4, QuietMove DEF Settling
    <2> QED
      BY <1>6, <2>2, <2>3 DEF CheckPositionExits
  <1>7. ASSUME NEW t \in Tasks, ForceCloseAll(t) \/ CloseLoopEnds(t) PROVE BookInv'
    <2>1. /\ pc[t] \in {"close_price", "close_loop"} /\ pc[Main] # "down"
          /\ UNCHANGED <<positions, state, rows, trades, crashes>>
      BY <1>7, ActingIsUp DEF ForceCloseAll, CloseLoopEnds, At, ControlInv, book, ledger
    <2>2. CASE Return(t)
      <3>1. /\ pc'[t] \in {"idle", "daily", "signal", "exit_process"}
            /\ \A u \in Tasks \ {t} : pc'[u] = pc[u] /\ frame'[u] = frame[u]
        BY <2>2, ReturnMoves
      <3>2. pc'[Main] \notin {"down", "signal_mids"} \/ pc'[Main] = pc[Main]
        BY <3>1
      <3> QED
        BY <2>1, <3>1, <3>2, QuietMove DEF Settling
    <2>3. CASE Go(t, "close_loop") /\ Local(t, [frame[t] EXCEPT !.todo = Open])
      <3>1. pc'[t] = "close_loop" /\ \A u \in Tasks \ {t} : pc'[u] = pc[u]
        BY <2>3, TaskMoves
      <3>2. frame'[t].todo = Open /\ \A u \in Tasks \ {t} : frame'[u] = frame[u]
        BY <2>3 DEF TypeOK, Local, Frames
      <3>3. pc'[Main] = "close_loop" \/ pc'[Main] = pc[Main]
        BY <3>1
      <3> QED
        BY <2>1, <3>1, <3>2, <3>3, QuietMove DEF Open, Settling
    <2> QED
      BY <1>7, <2>2, <2>3 DEF ForceCloseAll, CloseLoopEnds
  <1>8. ASSUME NEW t \in Tasks, Closing(t) PROVE BookInv'
    BY <1>7, <1>8, SaveTradeBook, CloseRowBook, CountBook, FinishBook DEF Closing
  <1>9. ASSUME NEW t \in Requests, CloseAllRequest(t) PROVE BookInv'
    <2>1. /\ pc[t] = "idle" /\ pc[Main] # "down" /\ t # Main
          /\ UNCHANGED <<positions, state, rows, trades, crashes>>
      BY <1>9, PaperTasksAssumption DEF CloseAllRequest, At, book, ledger
    <2>2. /\ pc'[t] = "close_price"
          /\ \A u \in Tasks \ {t} : pc'[u] = pc[u] /\ frame'[u] = frame[u]
      BY <1>9, TaskMoves, FrameMoves DEF CloseAllRequest
    <2> QED
      BY <2>1, <2>2, QuietMove DEF Settling
  <1> QED
    BY <1>1, <1>2, <1>4, <1>5, <1>6, <1>8, <1>9, StartBook, GoDownBook, SignalEntryBook
    DEF Next, MainLoop

-----------------------------------------------------------------------------
(* Theorems about the book.                                                *)

LEMMA InitBook == Init => ControlInv /\ BookInv
  <1> SUFFICES ASSUME Init PROVE ControlInv /\ BookInv
    OBVIOUS
  <1> Main \in Tasks /\ Requests \subseteq Tasks
    BY DEF Tasks
  <1>1. ControlInv
    BY PaperTasksAssumption
    DEF Init, ControlInv, TurnInv, DownInv, SavedInv, NoFrame, Atomic, Settling
  <1>2. HandInv /\ ListInv /\ TradeInv
    BY DEF Init, HandInv, ListInv, TradeInv, Atomic, Settling
  <1>3. Held = {} /\ OpenRows = {} /\ pc[Main] = "down"
    BY DEF Init, Held, OpenRows
  <1>4. LifeInv
    BY <1>3, FS_EmptySet, PaperLimitAssumption DEF Init, LifeInv
  <1> QED
    BY <1>1, <1>2, <1>4 DEF BookInv

\* ControlInv and BookInv are invariant.
THEOREM BookInvariance == ~Telegram => (Spec => [](ControlInv /\ BookInv))
  <1> SUFFICES ASSUME ~Telegram PROVE Spec => [](ControlInv /\ BookInv)
    OBVIOUS
  <1>1. IInv /\ ControlInv /\ BookInv /\ [Next]_vars => ControlInv' /\ BookInv'
    BY ControlStep, BookStep DEF IInv
  <1> QED
    BY <1>1, InitBook, Invariance, PTL DEF Spec

\* Without Telegram a position is settled once, by whichever loop or request
\* closes it, until a death falls between the trade and the row.
THEOREM PaperSettlesOnce == ~Telegram => (Spec => []SettledOnce)
  <1>1. BookInv => SettledOnce
    BY DEF BookInv, TradeInv, LifeInv, SettledOnce
  <1> QED
    BY <1>1, BookInvariance, PTL

\* Without Telegram a restart neither forgets a position nor revives one.
THEOREM PaperStoreIsTheList == ~Telegram => (Spec => []OpenRowsAreListed)
  <1>1. TypeOK /\ ControlInv /\ BookInv => OpenRowsAreListed
    <2> SUFFICES ASSUME TypeOK, ControlInv, BookInv, turn = None, pc[Main] # "down"
                 PROVE  positions \subseteq OpenRows /\ (crashes = 0 => OpenRows = positions)
      BY DEF OpenRowsAreListed
    <2>1. \A t \in Tasks : pc[t] \notin Atomic
      BY PaperNoneAssumption DEF ControlInv, TurnInv
    <2>2. positions \subseteq OpenRows
      BY <2>1 DEF BookInv, ListInv, RowClosed, OpenRows, TypeOK, Atomic, Settling
    <2> QED
      BY <2>2 DEF BookInv, LifeInv
  <1>2. IInv => TypeOK
    BY DEF IInv
  <1> QED
    BY <1>1, <1>2, BookInvariance, Invariance, PTL

\* Without Telegram the bot never manages more than MAX_POSITIONS positions,
\* though it asks before an await and opens after it.
THEOREM PaperPositionLimit == ~Telegram => (Spec => []PositionLimit)
  <1>1. BookInv => PositionLimit
    <2> SUFFICES ASSUME BookInv, crashes = 0
                 PROVE  Cardinality(positions) <= MAX_POSITIONS
      BY DEF PositionLimit
    <2> QED
      BY FewerHeld DEF BookInv, Held
  <1> QED
    BY <1>1, BookInvariance, PTL
=============================================================================
