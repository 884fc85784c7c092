---------------------------- MODULE SurvivalRisk ----------------------------
(***************************************************************************)
(* The survival risk manager of src/core/survival_risk.py, as              *)
(* src/bot/trading_bot.py uses it: it is asked before an entry, told of    *)
(* every settled exit and reset at midnight.  Exits settle in the main     *)
(* loop or in a request of the web API, also while an entry that has been  *)
(* admitted waits for its order.                                           *)
(*                                                                         *)
(* Money is counted in small integers and time in hours; every position    *)
(* risks one unit.  Hours to go and hours since saturate, so that time     *)
(* itself is not bounded.  Entries are asked for at any time of the week.  *)
(* Left out because nothing in the bot reads them: the size multiplier     *)
(* with the volatility manager behind it, and the 15 minutes               *)
(* between two trades, which need a current_time the bot does not pass.    *)
(***************************************************************************)
EXTENDS Integers, FiniteSets

CONSTANTS
  Slots,             \* as many as positions the bot may hold
  Moves,             \* P&L a trade may have
  START_CAPITAL,     \* starting_capital of the bot
  FLOOR,             \* what current_capital is raised to
  MAX_DRAWDOWN,      \* max_drawdown_pct in percent
  MAX_HEAT,          \* MAX_DAILY_LOSS_PCT of the configuration in percent
  TIER_2_LOSS,       \* tier_2_daily_loss_pct in percent
  TIER_1_LOSSES,     \* tier_1_after_losses
  COOLDOWN,          \* cooldown_hours
  AVOID,             \* avoid_first_last_minutes
  MaxCapital, MaxDaily, MaxLosses,   \* bounds
  None

ASSUME SurvivalNoneAssumption == None \notin Int \cup {"LONG", "SHORT"}
ASSUME SurvivalAssumption ==
  /\ Moves \subseteq Int /\ START_CAPITAL \in Nat \ {0} /\ FLOOR \in Nat \ {0}
  /\ MAX_DRAWDOWN \in Nat \ {0} /\ MAX_HEAT \in Nat /\ TIER_2_LOSS \in Nat \ {0}
  /\ TIER_1_LOSSES \in Nat /\ COOLDOWN \in Nat /\ AVOID \in 0 .. 60
  /\ MaxCapital \in Nat /\ MaxDaily \in Nat /\ MaxLosses \in Nat

VARIABLES
  positions,   \* self.positions of the bot: the side in each slot, or None
  decided,     \* the side of an entry that was admitted and waits, or None
  capital, dailyPnl, losses,   \* the bot's counters
  tier,        \* current_tier
  peak, equity,      \* peak_equity and current_equity
  triggered, age,    \* triggered, and hours since triggered_at
  left               \* hours to reset_at, None without one

counters == <<capital, dailyPnl, losses>>
breaker == <<peak, equity, triggered, age, left>>
vars == <<positions, decided, counters, tier, breaker>>

Sides == {"LONG", "SHORT"}

TypeOK ==
  /\ positions \in [Slots -> Sides \cup {None}]
  /\ decided \in Sides \cup {None}
  /\ capital \in Nat /\ dailyPnl \in Int /\ losses \in Nat
  /\ tier \in 0 .. 2
  /\ peak \in Int \cup {None} /\ equity \in Int
  /\ triggered \in BOOLEAN /\ age \in 0 .. COOLDOWN
  /\ left \in 0 .. COOLDOWN \cup {None}

Init ==
  /\ positions = [s \in Slots |-> None] /\ decided = None
  /\ capital = START_CAPITAL /\ dailyPnl = 0 /\ losses = 0
  /\ tier = 0
  /\ peak = None /\ equity = 0 /\ triggered = FALSE /\ age = 0 /\ left = None

-----------------------------------------------------------------------------
(* can_open_position *)

SameSetup(side) == {s \in Slots : positions[s] = side}

HeatAllows(side) == (Cardinality(SameSetup(side)) + 1) * 100 <= MAX_HEAT * capital

\* Entries are asked for at any time of the week: samples.
Times == [weekday : {4, 5}, hour : {7, 8}, minute : {10, 45}]

\* TimeBasedRiskManager: AVOID is 30, so the whole hour that starts a session is
\* barred, and none of the half hour before it.
SafeToTrade(now) ==
  /\ now.weekday < 5
  /\ now.hour \in {0, 8, 12, 16, 20} => now.minute \in AVOID .. 59 - AVOID

\* losing: a position of this setup has an unrealized loss.
Admit(side, losing, now) ==
  /\ decided = None
  /\ SafeToTrade(now)
  /\ \E s \in Slots : positions[s] = None
  /\ ~triggered
  /\ HeatAllows(side)
  /\ ~(losing /\ SameSetup(side) # {})
  /\ decided' = side
  /\ UNCHANGED <<positions, counters, tier, breaker>>

\* The order of the entry has been answered, for better or worse.
Enter(s) ==
  /\ decided # None /\ positions[s] = None
  /\ positions' = [positions EXCEPT ![s] = decided]
  /\ decided' = None
  /\ UNCHANGED <<counters, tier, breaker>>

EntryFails ==
  /\ decided # None
  /\ decided' = None
  /\ UNCHANGED <<positions, counters, tier, breaker>>

-----------------------------------------------------------------------------
(* update_after_trade and MaxDrawdownCircuitBreaker.update *)

TooDeep(high, now) == high > 0 /\ (high - now) * 100 >= MAX_DRAWDOWN * high

\* Mutant of CooldownOver: the time is not looked at.
CooldownOverAtOnce == left # None

CooldownOver == left # None /\ left = 0

\* A new high resets the breaker and leaves reset_at; the end of the cooldown is
\* only noticed here, and the drawdown is looked at again at once.
Update(now) ==
  LET newHigh == peak = None \/ now > peak
      high == IF newHigh THEN now ELSE peak
      cooled == triggered /\ ~newHigh /\ CooldownOver
      armed == ~triggered \/ newHigh \/ cooled
      trips == armed /\ TooDeep(high, now)
  IN /\ equity' = now /\ peak' = high
     /\ triggered' = (trips \/ ~armed)
     /\ age' = IF trips THEN 0 ELSE age
     /\ left' = IF trips THEN COOLDOWN ELSE IF cooled THEN None ELSE left

\* TieredRiskManager.update.
TierAfter(pnl, count) ==
  IF pnl < 0 /\ -pnl * 100 >= TIER_2_LOSS * START_CAPITAL THEN 2
  ELSE IF count >= TIER_1_LOSSES THEN 1 ELSE 0

\* update_after_trade adds the P&L to a capital that contains it already.
EquityTold(pnl) == (capital + pnl) + pnl

\* The part of _finalize_closed_position that concerns this manager.  The tier is
\* computed from the losses before this trade.
Settle(s, pnl) ==
  /\ positions[s] # None
  /\ capital + pnl <= MaxCapital
  /\ dailyPnl + pnl \in -MaxDaily .. MaxDaily
  /\ positions' = [positions EXCEPT ![s] = None]
  /\ dailyPnl' = dailyPnl + pnl
  /\ Update(EquityTold(pnl))
  /\ tier' = TierAfter(dailyPnl', losses)
  /\ losses' = IF pnl >= 0 THEN 0 ELSE IF losses < MaxLosses THEN losses + 1 ELSE losses
  /\ capital' = IF capital + pnl < FLOOR THEN FLOOR ELSE capital + pnl
  /\ UNCHANGED decided

-----------------------------------------------------------------------------
(* Time, midnight and restarts *)

Hour ==
  /\ age' = IF triggered /\ age < COOLDOWN THEN age + 1 ELSE age
  /\ left' = IF left = None \/ left = 0 THEN left ELSE left - 1
  /\ UNCHANGED <<positions, decided, counters, tier, peak, equity, triggered>>

\* Mutant of TierAtMidnight: the tier of yesterday is kept.
TierKept == tier

TierAtMidnight == 0

\* _check_daily_reset; it also runs, at the latest, when a bot has restarted.
Midnight ==
  /\ dailyPnl' = 0 /\ losses' = 0
  /\ tier' = TierAtMidnight
  /\ UNCHANGED <<positions, decided, capital, breaker>>

\* The counters and positions come back from the store, the manager is a new one.
Restart ==
  /\ decided' = None
  /\ tier' = 0
  /\ peak' = None /\ equity' = 0 /\ triggered' = FALSE /\ age' = 0 /\ left' = None
  /\ UNCHANGED <<positions, counters>>

Next ==
  \/ \E side \in Sides, losing \in BOOLEAN, now \in Times : Admit(side, losing, now)
  \/ \E s \in Slots : Enter(s)
  \/ EntryFails
  \/ \E s \in Slots, pnl \in Moves : Settle(s, pnl)
  \/ Hour
  \/ Midnight
  \/ Restart

Spec == Init /\ [][Next]_vars

\* A bot that is not restarted: time passes, and positions come to an end.
LiveNext ==
  \/ \E side \in Sides, losing \in BOOLEAN, now \in Times : Admit(side, losing, now)
  \/ \E s \in Slots : Enter(s)
  \/ EntryFails
  \/ \E s \in Slots, pnl \in Moves : Settle(s, pnl)
  \/ Hour
  \/ Midnight

LiveSpec ==
  /\ Init /\ [][LiveNext]_vars
  /\ WF_vars(Hour)
  /\ \A s \in Slots : WF_vars(Enter(s)) /\ WF_vars(\E pnl \in Moves : Settle(s, pnl))
  /\ \A side \in Sides : SF_vars(\E now \in Times : Admit(side, FALSE, now))

-----------------------------------------------------------------------------
(* Properties *)

\* MaxDrawdownCircuitBreaker.update: as long as entries are admitted, the last
\* equity it was told is above the limit of the peak it knows, whether the
\* breaker never tripped, was reset by a new high or has cooled down.
UntriggeredIsHealthy == ~triggered /\ peak # None => ~TooDeep(peak, equity)

\* Once tripped, the breaker of a running bot lets entries through again only
\* on a new high of the equity or after the whole cooldown.
TriggerIsKept ==
  [][triggered /\ ~triggered' /\ peak' # None => age = COOLDOWN \/ equity' > peak]_vars

\* TieredRiskManager: the quarter size of tier 2 always stems from the losses of
\* the current day, and no day with such losses is traded at half size.
TierTwoIsOfToday ==
  LET deep == dailyPnl < 0 /\ -dailyPnl * 100 >= TIER_2_LOSS * START_CAPITAL
  IN (tier = 2 => deep) /\ (tier = 1 => ~deep)

\* MaxDrawdownCircuitBreaker.update, "Check if we should re-enable after
\* cooldown": a breaker that has tripped re-enables trading some time.
CooldownExpires == triggered ~> ~triggered

\* Its class comment, "shuts down trading if account drops too far from its
\* all-time high", with the starting capital as the first high.
DrawdownIsFromTheStart ==
  ~triggered => ~TooDeep(START_CAPITAL, capital)
=============================================================================
