--------------------------- MODULE MarketDataFeed ---------------------------
(***************************************************************************)
(* The WebSocket feeds of src/exchange/market_data.py.  Every feed is a    *)
(* task of its own, created by the bot that uses it and awaited by nobody: *)
(* it dials, subscribes, hands every candle to its callbacks and reconnects *)
(* with growing delays, until MaxAttempts tries in a row have failed.      *)
(* MultiAssetBot extends this module with the callback and the bot.        *)
(***************************************************************************)
EXTENDS Integers

CONSTANTS
  Feeds,
  MaxAttempts   \* _max_reconnect_attempts

ASSUME FeedAssumption == MaxAttempts \in Nat \ {0}

VARIABLES
  link,       \* where connect() of a feed is
  attempts,   \* _reconnect_attempts
  candle      \* whether there is a current_candle

feedVars == <<link, attempts, candle>>

\* A feed that ended returned from connect, one that is gone raised from it.
Links == {"dialing", "subscribing", "up", "waiting", "ended", "gone"}

FeedTypeOK ==
  /\ link \in [Feeds -> Links]
  /\ attempts \in [Feeds -> 0 .. MaxAttempts]
  /\ candle \in [Feeds -> BOOLEAN]

FeedInit ==
  /\ link = [f \in Feeds |-> "dialing"]
  /\ attempts = [f \in Feeds |-> 0]
  /\ candle = [f \in Feeds |-> FALSE]

\* The attempts are forgotten on the handshake, before the subscription.
Dialled(f) ==
  /\ link[f] = "dialing"
  /\ link' = [link EXCEPT ![f] = "subscribing"]
  /\ attempts' = [attempts EXCEPT ![f] = 0]
  /\ UNCHANGED candle

Subscribed(f) ==
  /\ link[f] = "subscribing"
  /\ link' = [link EXCEPT ![f] = "up"]
  /\ UNCHANGED <<attempts, candle>>

Failed(f) ==
  /\ link[f] \in {"dialing", "subscribing"}
  /\ attempts' = [attempts EXCEPT ![f] = @ + 1]
  /\ link' = [link EXCEPT ![f] = IF attempts'[f] < MaxAttempts THEN "waiting" ELSE "gone"]
  /\ UNCHANGED candle

DelayOver(f) ==
  /\ link[f] = "waiting"
  /\ link' = [link EXCEPT ![f] = "dialing"]
  /\ UNCHANGED <<attempts, candle>>

\* An error in _listen is swallowed there: the loop dials at once, although a
\* comment says that a closed transport goes through the retry path.
Dropped(f) ==
  /\ link[f] = "up"
  /\ link' = [link EXCEPT ![f] = "dialing"]
  /\ UNCHANGED <<attempts, candle>>

\* When the server closes the stream properly the iteration just ends, with
\* connected still set: connect returns and the feed is over.
ClosedCleanly(f) ==
  /\ link[f] = "up"
  /\ link' = [link EXCEPT ![f] = "ended"]
  /\ UNCHANGED <<attempts, candle>>

\* _process_candle up to the callbacks; current_candle is never cleared.
Candle(f) ==
  /\ link[f] = "up"
  /\ candle' = [candle EXCEPT ![f] = TRUE]
  /\ UNCHANGED <<link, attempts>>

FeedStep(f) ==
  \/ Dialled(f) \/ Subscribed(f) \/ Failed(f) \/ DelayOver(f)
  \/ Dropped(f) \/ ClosedCleanly(f)

\* No feed gives up before its tries in a row have failed, and one that was
\* never connected since is the only kind that does.
GivesUpExhausted == \A f \in Feeds : link[f] = "gone" <=> attempts[f] = MaxAttempts
=============================================================================
