-------------------------- MODULE ExchangeConnector --------------------------
(***************************************************************************)
(* The calls of HyperliquidAPI (src/exchange/connector.py) with the        *)
(* retries of src/exchange/retry.py, and the exchange behind them          *)
(* (external).  One client makes one call at a time.  An attempt may fail  *)
(* before or after it reached the exchange; reads and cancellations are    *)
(* tried again after a transient error, order writes and the fills are     *)
(* not.  SmokeCheck extends this module with its client.                   *)
(*                                                                         *)
(* The client trades one coin, which need not be config.ASSET, the one     *)
(* that the connector lists and cancels orders of.  Every order has a      *)
(* client id of its own: one far below the market that rests, one that     *)
(* takes a unit at once, and one that reduces what is held.                *)
(***************************************************************************)
EXTENDS Integers

CONSTANTS
  MaxRetries,    \* max_retries of retry_with_backoff
  StartHeld,     \* what the account may hold before
  OwnCoin,       \* whether the coin of the client's orders is config.ASSET
  None

ASSUME ConnectorAssumption ==
  MaxRetries \in Nat /\ StartHeld \subseteq Int /\ OwnCoin \in BOOLEAN

Orders == {"resting", "taker", "flatten"}

VARIABLES
  call, attempt,   \* the operation in flight, or None, and its failed attempts
  reply,           \* what it returned to the client, or None
  book,            \* whether the resting order is listed at the exchange
  held,            \* the position of the account in the coin
  taken,           \* whether the taker order has a fill
  received         \* how often the exchange accepted an order of this client id

exchange == <<book, held, taken, received>>
connectorVars == <<call, attempt, reply, exchange>>

Calls ==
  {"positions", "mids", "size", "orders", "cancel", "fills"} \cup Orders

Replies == [status : {"ok", "failed", "unknown"}, value : Int]

ASSUME NoneAssumption == None \notin Calls /\ None \notin Replies

ConnectorTypeOK ==
  /\ call \in Calls \cup {None} /\ attempt \in 0 .. MaxRetries
  /\ reply \in Replies \cup {None}
  /\ book \in BOOLEAN /\ held \in Int /\ taken \in BOOLEAN
  /\ received \in [Orders -> Nat]

ConnectorInit ==
  /\ call = None /\ attempt = 0 /\ reply = None
  /\ book = FALSE /\ taken = FALSE
  /\ held \in StartHeld
  /\ received = [o \in Orders |-> 0]

Magnitude(n) == IF n < 0 THEN -n ELSE n

\* A reduce-only order takes any part of the position, none included.
Reduced == {n \in -Magnitude(held) .. Magnitude(held) :
              n * held >= 0 /\ Magnitude(n) <= Magnitude(held)}

\* What the exchange does when a call reaches it.  It may refuse an order.
Lands ==
  CASE call = "resting" ->
         /\ book' = TRUE /\ received' = [received EXCEPT !["resting"] = @ + 1]
         /\ UNCHANGED <<held, taken>>
    [] call = "taker" ->
         /\ \/ held' = held + 1 /\ taken' = TRUE
            \/ UNCHANGED <<held, taken>>
         /\ received' = [received EXCEPT !["taker"] = @ + 1]
         /\ UNCHANGED book
    [] call = "flatten" ->
         /\ held' \in Reduced
         /\ received' = [received EXCEPT !["flatten"] = @ + 1]
         /\ UNCHANGED <<book, taken>>
    [] call = "cancel" /\ OwnCoin -> book' = FALSE /\ UNCHANGED <<held, taken, received>>
    [] OTHER -> UNCHANGED exchange

Flag(b) == IF b THEN 1 ELSE 0

\* An acknowledged order may lack an order id: value 0.
Answers ==
  CASE call = "positions" -> {held}
    [] call = "orders" -> {Flag(book /\ OwnCoin)}
    [] call = "fills" -> {Flag(taken)}
    [] call \in {"mids", "cancel"} -> {1}
    [] OTHER -> {0, 1}

\* Mutant of Retried: order writes are retried as well.
RetriedAlways == call # "fills"

\* Everything that goes through retry_with_backoff.
Retried == call \in {"positions", "mids", "orders", "cancel"}

Returns(status, value) ==
  /\ reply' = [status |-> status, value |-> value]
  /\ call' = None /\ attempt' = 0

Answer ==
  /\ call # None
  /\ call = "cancel" => book /\ OwnCoin
  /\ Lands
  /\ \E value \in Answers : Returns("ok", value)

\* Rejected by the exchange, a cancellation of an order that is gone included.
Refuse ==
  /\ call \in Orders \cup {"cancel"}
  /\ Returns("failed", 0)
  /\ UNCHANGED exchange

\* Mutant of Counted: the count of the attempts wraps.
CountedAgain(n) == IF n + 1 = MaxRetries THEN 0 ELSE n + 1

Counted(n) == n + 1

\* What an attempt may fail with; other: a client error or an unknown exception.
Errors == {"transport", "timeout", "throttled", "server", "other"}

\* is_retryable, by type, HTTP status or wording of the exception.
Retryable(error) == error # "other"

\* A transient error, before or after the call had its effect.
Retry(error) ==
  /\ call # None /\ Retried /\ Retryable(error) /\ attempt < MaxRetries
  /\ (Lands \/ UNCHANGED exchange)
  /\ attempt' = Counted(attempt)
  /\ UNCHANGED <<call, reply>>

\* An error that is not retried, or once too often.  get_open_orders,
\* get_recent_fills and get_mids return nothing, get_positions says that it is
\* unavailable, submit_order that it does not know.
GiveUp(error) ==
  /\ call # None
  /\ Retried /\ Retryable(error) => attempt >= MaxRetries
  /\ (Lands \/ UNCHANGED exchange)
  /\ CASE call \in Orders -> Returns("unknown", 0)
       [] call \in {"orders", "fills"} -> Returns("ok", 0)
       [] OTHER -> Returns("failed", 0)

ConnectorStep ==
  \/ Answer \/ Refuse
  \/ \E error \in Errors : Retry(error) \/ GiveUp(error)
=============================================================================
