------------------------- MODULE SurvivalRisk_proofs -------------------------
(***************************************************************************)
(* Theorems about SurvivalRisk, for every limit, every set of trades and   *)
(* any number of positions.                                                *)
(*                                                                         *)
(* That a trip is kept rests on CooldownRuns: nothing but the hours moves  *)
(* the time to reset_at of a triggered breaker, so it is over exactly when *)
(* the hours since triggered_at are the whole cooldown.  A reset by a new  *)
(* high leaves reset_at behind, but the next trip sets it again.           *)
(***************************************************************************)
EXTENDS SurvivalRisk, TLAPS

\* A triggered breaker has a peak, and a reset time that fits its trip.
CooldownRuns == triggered => peak # None /\ left # None /\ left = COOLDOWN - age

\* The part of the type that concerns the bot, and the part of the manager.
BotOK ==
  /\ positions \in [Slots -> Sides \cup {None}] /\ decided \in Sides \cup {None}
  /\ capital \in Nat /\ dailyPnl \in Int /\ losses \in Nat /\ tier \in 0 .. 2

BreakerOK ==
  /\ peak \in Int \cup {None} /\ equity \in Int
  /\ triggered \in BOOLEAN /\ age \in 0 .. COOLDOWN /\ left \in 0 .. COOLDOWN \cup {None}

\* Inductive: the type, what the clock does, and the two invariants.
IInv == BotOK /\ BreakerOK /\ CooldownRuns /\ UntriggeredIsHealthy /\ TierTwoIsOfToday

LEMMA Initially == Init => IInv
  <1> SUFFICES ASSUME Init PROVE IInv
    OBVIOUS
  <1>1. BotOK
    <2>1. positions \in [Slots -> Sides \cup {None}] /\ decided \in Sides \cup {None}
      BY DEF Init
    <2>2. capital \in Nat /\ dailyPnl \in Int /\ losses \in Nat /\ tier \in 0 .. 2
      BY SurvivalAssumption DEF Init
    <2> QED
      BY <2>1, <2>2 DEF BotOK
  <1>2. BreakerOK
    <2>1. triggered \in BOOLEAN
      BY DEF Init
    <2>2. /\ peak \in Int \cup {None} /\ equity \in Int
          /\ age \in 0 .. COOLDOWN /\ left \in 0 .. COOLDOWN \cup {None}
      BY SurvivalAssumption DEF Init
    <2> QED
      BY <2>1, <2>2 DEF BreakerOK
  <1> QED
    BY <1>1, <1>2 DEF Init, IInv, CooldownRuns, UntriggeredIsHealthy, TierTwoIsOfToday

\* MaxDrawdownCircuitBreaker.update keeps the breaker's type, arms a tripped
\* breaker with the whole cooldown, and lets go of it for two reasons only.
LEMMA Updated ==
  ASSUME NEW now \in Int, BreakerOK, CooldownRuns, UntriggeredIsHealthy, Update(now)
  PROVE  /\ BreakerOK' /\ CooldownRuns' /\ UntriggeredIsHealthy'
         /\ triggered /\ ~triggered' => age = COOLDOWN \/ equity' > peak
  <1> DEFINE newHigh == peak = None \/ now > peak
             high == IF newHigh THEN now ELSE peak
             cooled == triggered /\ ~newHigh /\ CooldownOver
             armed == ~triggered \/ newHigh \/ cooled
             trips == armed /\ TooDeep(high, now)
  <1>1. high \in Int
    BY DEF BreakerOK
  <1>2. TooDeep(high, now) \in BOOLEAN
    BY DEF TooDeep
  <1>3. /\ equity' = now /\ peak' = high
        /\ triggered' = (trips \/ ~armed)
        /\ age' = IF trips THEN 0 ELSE age
        /\ left' = IF trips THEN COOLDOWN ELSE IF cooled THEN None ELSE left
    BY DEF Update
  <1>4. COOLDOWN \in Nat /\ COOLDOWN # None
    BY SurvivalAssumption, SurvivalNoneAssumption
  <1>5. high # None
    BY <1>1, SurvivalNoneAssumption
  <1>6. triggered => armed \/ (~cooled /\ peak' = peak)
    BY <1>3
  <1>7. BreakerOK'
    BY <1>1, <1>2, <1>3, <1>4 DEF BreakerOK
  <1>8. CooldownRuns'
    <2>1. CASE trips
      BY <1>3, <1>4, <1>5, <2>1 DEF CooldownRuns
    <2>2. CASE ~trips /\ ~armed
      BY <1>3, <1>5, <2>2 DEF CooldownRuns
    <2>3. CASE ~trips /\ armed
      BY <1>3, <2>3 DEF CooldownRuns
    <2> QED
      BY <2>1, <2>2, <2>3
  <1>9. UntriggeredIsHealthy'
    BY <1>3 DEF UntriggeredIsHealthy, TooDeep
  <1>10. ASSUME triggered, ~triggered' PROVE age = COOLDOWN \/ equity' > peak
    <2>1. armed
      BY <1>3, <1>10
    <2>2. CASE newHigh
      BY <1>3, <1>10, <2>2 DEF CooldownRuns
    <2>3. CASE cooled
      BY <1>4, <1>10, <2>3 DEF CooldownOver, CooldownRuns, BreakerOK
    <2> QED
      BY <1>10, <2>1, <2>2, <2>3
  <1> QED
    BY <1>7, <1>8, <1>9, <1>10

LEMMA SettleStep ==
  ASSUME IInv, NEW s \in Slots, NEW pnl \in Moves, Settle(s, pnl)
  PROVE  /\ IInv'
         /\ triggered /\ ~triggered' => age = COOLDOWN \/ equity' > peak
  <1>1. BotOK /\ BreakerOK /\ pnl \in Int
    BY SurvivalAssumption DEF IInv
  <1>2. EquityTold(pnl) \in Int /\ Update(EquityTold(pnl))
    BY <1>1 DEF EquityTold, BotOK, Settle
  <1>3. /\ BreakerOK' /\ CooldownRuns' /\ UntriggeredIsHealthy'
        /\ triggered /\ ~triggered' => age = COOLDOWN \/ equity' > peak
    BY <1>1, <1>2, Updated DEF IInv
  <1>4. dailyPnl' \in Int /\ tier' = TierAfter(dailyPnl', losses)
    BY <1>1 DEF Settle, BotOK
  <1>5. TierTwoIsOfToday' /\ tier' \in 0 .. 2
    BY <1>4 DEF TierTwoIsOfToday, TierAfter
  <1>6. BotOK'
    <2>1. capital' \in Nat
      BY <1>1, SurvivalAssumption DEF Settle, BotOK
    <2>2. losses' \in Nat
      BY <1>1, SurvivalAssumption DEF Settle, BotOK
    <2>3. positions' \in [Slots -> Sides \cup {None}] /\ decided' \in Sides \cup {None}
      BY <1>1 DEF Settle, BotOK
    <2> QED
      BY <1>4, <1>5, <2>1, <2>2, <2>3 DEF BotOK
  <1> QED
    BY <1>3, <1>5, <1>6 DEF IInv

\* A step that leaves the manager and what it reads alone.
LEMMA EntryStep ==
  ASSUME IInv, BotOK', UNCHANGED <<dailyPnl, tier, breaker>>
  PROVE  IInv' /\ triggered' = triggered
  BY DEF IInv, BreakerOK, breaker, CooldownRuns, UntriggeredIsHealthy,
                   TierTwoIsOfToday, TooDeep

LEMMA HourStep == ASSUME IInv, Hour PROVE IInv' /\ triggered' = triggered
  <1>1. BotOK' /\ BreakerOK
    BY DEF IInv, Hour, BotOK, counters
  <1>2. BreakerOK'
    BY <1>1, SurvivalAssumption, SurvivalNoneAssumption DEF Hour, BreakerOK
  <1>3. CooldownRuns'
    BY <1>1, SurvivalAssumption, SurvivalNoneAssumption DEF IInv, CooldownRuns, Hour, BreakerOK
  <1>4. UntriggeredIsHealthy' /\ TierTwoIsOfToday'
    BY DEF IInv, UntriggeredIsHealthy, TierTwoIsOfToday, TooDeep, Hour, counters
  <1> QED
    BY <1>1, <1>2, <1>3, <1>4 DEF IInv, Hour

LEMMA Step ==
  ASSUME IInv, [Next]_vars
  PROVE  /\ IInv'
         /\ triggered /\ ~triggered' /\ peak' # None => age = COOLDOWN \/ equity' > peak
  <1>1. BotOK /\ BreakerOK /\ triggered \in BOOLEAN
    BY DEF IInv, BreakerOK
  <1>2. ASSUME NEW side \in Sides, NEW losing \in BOOLEAN, NEW now \in Times,
               Admit(side, losing, now)
        PROVE  BotOK' /\ UNCHANGED <<dailyPnl, tier, breaker>>
    BY <1>1, <1>2 DEF Admit, BotOK, counters
  <1>3. ASSUME NEW s \in Slots, Enter(s)
        PROVE  BotOK' /\ UNCHANGED <<dailyPnl, tier, breaker>>
    BY <1>1, <1>3 DEF Enter, BotOK, counters
  <1>4. CASE EntryFails
    <2>1. BotOK' /\ UNCHANGED <<dailyPnl, tier, breaker>>
      BY <1>1, <1>4 DEF EntryFails, BotOK, counters
    <2> QED
      BY <2>1, EntryStep
  <1>5. ASSUME NEW s \in Slots, NEW pnl \in Moves, Settle(s, pnl)
        PROVE  /\ IInv'
               /\ triggered /\ ~triggered' => age = COOLDOWN \/ equity' > peak
    BY <1>5, SettleStep
  <1>6. CASE Hour
    BY <1>6, HourStep
  <1>7. CASE Midnight
    <2>1. BotOK' /\ BreakerOK'
      BY <1>1, <1>7 DEF Midnight, TierAtMidnight, BotOK, BreakerOK, breaker
    <2>2. TierTwoIsOfToday'
      BY <1>7 DEF Midnight, TierAtMidnight, TierTwoIsOfToday
    <2>3. CooldownRuns' /\ UntriggeredIsHealthy' /\ triggered' = triggered
      BY <1>7 DEF Midnight, IInv, CooldownRuns, UntriggeredIsHealthy, TooDeep, breaker
    <2> QED
      BY <2>1, <2>2, <2>3 DEF IInv
  <1>8. CASE Restart
    <2>1. BotOK'
      BY <1>1, <1>8 DEF Restart, BotOK, counters
    <2>3. BreakerOK' /\ peak' = None
      <3>1. triggered' \in BOOLEAN
        BY <1>8 DEF Restart
      <3>2. /\ peak' = None /\ equity' \in Int
            /\ age' \in 0 .. COOLDOWN /\ left' \in 0 .. COOLDOWN \cup {None}
        BY <1>8, SurvivalAssumption DEF Restart
      <3> QED
        BY <3>1, <3>2 DEF BreakerOK
    <2>2. CooldownRuns' /\ UntriggeredIsHealthy' /\ TierTwoIsOfToday'
      BY <1>8 DEF Restart, CooldownRuns, UntriggeredIsHealthy, TierTwoIsOfToday
    <2> QED
      BY <2>1, <2>2, <2>3 DEF IInv
  <1>9. CASE UNCHANGED vars
    <2>1. BotOK' /\ UNCHANGED <<dailyPnl, tier, breaker>>
      BY <1>1, <1>9 DEF BotOK, vars, counters
    <2> QED
      BY <2>1, EntryStep
  <1> QED
    BY <1>2, <1>3, <1>4, <1>5, <1>6, <1>7, <1>8, <1>9, EntryStep DEF Next

THEOREM Invariance == Spec => []IInv
  <1>1. IInv /\ [Next]_vars => IInv'
    BY Step
  <1> QED
    BY <1>1, Initially, PTL DEF Spec

\* SurvivalRiskManager: every reachable state has its type; the daily counters,
\* the capital with its floor and the two clocks included.
THEOREM TypeCorrect == Spec => []TypeOK
  <1>1. IInv => TypeOK
    BY DEF IInv, BotOK, BreakerOK, TypeOK
  <1> QED
    BY <1>1, Invariance, PTL

\* MaxDrawdownCircuitBreaker: entries are admitted only while the equity the
\* breaker knows is within its limit of the peak it knows.
THEOREM UntriggeredStaysHealthy == Spec => []UntriggeredIsHealthy
  <1>1. IInv => UntriggeredIsHealthy
    BY DEF IInv
  <1> QED
    BY <1>1, Invariance, PTL

\* TieredRiskManager: the tier in force fits the losses of the current day.
THEOREM TierStaysOfToday == Spec => []TierTwoIsOfToday
  <1>1. IInv => TierTwoIsOfToday
    BY DEF IInv
  <1> QED
    BY <1>1, Invariance, PTL

\* MaxDrawdownCircuitBreaker.update: only a new high or the whole cooldown ends a
\* trip, whatever resets and trips came before.
THEOREM TriggerStaysKept == Spec => TriggerIsKept
  <1>1. IInv /\ [Next]_vars
          => [triggered /\ ~triggered' /\ peak' # None => age = COOLDOWN \/ equity' > peak]_vars
    BY Step
  <1> QED
    BY <1>1, Invariance, PTL DEF Spec, TriggerIsKept
=============================================================================
