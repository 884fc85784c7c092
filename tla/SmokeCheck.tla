----------------------------- MODULE SmokeCheck -----------------------------
(***************************************************************************)
(* The bounded testnet smoke check: TestnetSmokeCheck of                   *)
(* src/execution/smoke.py as scripts/testnet_smoke.py runs it against the  *)
(* connector.  It rests an order and cancels it, takes a unit, flattens    *)
(* the account and reports whether every step passed.  A step that fails   *)
(* does not keep the later ones from running.                              *)
(***************************************************************************)
EXTENDS ExchangeConnector

VARIABLES
  pc,       \* the call the check waits for, or how it ended
  failed    \* whether a step failed

vars == <<connectorVars, pc, failed>>

\* passed is exit code 0, aborted is 2, and the others are 1 and 130.
Ends == {"passed", "failed", "aborted", "crashed", "killed"}

Waits ==
  {"positions", "mids", "size", "rest", "visible", "cancel", "gone", "take", "fills",
   "flat", "price", "flatten", "verify"}

TypeOK == ConnectorTypeOK /\ pc \in Waits \cup Ends /\ failed \in BOOLEAN

CallOf ==
  [positions |-> "positions", mids |-> "mids", size |-> "size", rest |-> "resting",
   visible |-> "orders", cancel |-> "cancel", gone |-> "orders", take |-> "taker",
   fills |-> "fills", flat |-> "positions", price |-> "mids", flatten |-> "flatten",
   verify |-> "positions"]

Init ==
  /\ ConnectorInit
  /\ pc = "positions" /\ failed = FALSE

Ask ==
  /\ pc \in Waits /\ call = None /\ reply = None
  /\ call' = CallOf[pc]
  /\ UNCHANGED <<attempt, reply, exchange, pc, failed>>

Told(step) ==
  /\ pc = step /\ reply # None
  /\ reply' = None
  /\ UNCHANGED <<call, attempt, exchange>>

Goes(next) == pc' = next /\ UNCHANGED failed
Fails(next) == pc' = next /\ failed' = TRUE
Finishes(good) ==
  /\ failed' = (failed \/ ~good)
  /\ pc' = IF failed' THEN "failed" ELSE "passed"

\* Steps 1 and 2 end the check when they fail; round_size raises on an error.
Positions == Told("positions") /\ IF reply.status = "ok" THEN Goes("mids") ELSE Finishes(FALSE)

Mids == Told("mids") /\ IF reply.status = "ok" THEN Goes("size") ELSE Finishes(FALSE)

Size ==
  /\ Told("size")
  /\ IF reply.status # "ok" THEN Goes("crashed")
     ELSE IF reply.value > 0 THEN Goes("rest") ELSE Finishes(FALSE)

\* An order of unknown outcome ends the check, one that is rejected or has no
\* order id only its step.
Submitted(step, ok, otherwise) ==
  /\ Told(step)
  /\ IF reply.status = "unknown" THEN Goes("aborted")
     ELSE IF reply.status = "ok" /\ reply.value = 1 THEN Goes(ok) ELSE otherwise

Rest == Submitted("rest", "visible", Fails("take"))

Visible == Told("visible") /\ IF reply.value = 1 THEN Goes("cancel") ELSE Fails("take")

\* Mutant of Cancelled: the reply to the cancellation is not looked at.
CancelledAnyway == TRUE

Cancelled == reply.status = "ok"

Cancel == Told("cancel") /\ IF Cancelled THEN Goes("gone") ELSE Fails("take")

Gone == Told("gone") /\ IF reply.value = 0 THEN Goes("take") ELSE Fails("take")

Take == Submitted("take", "fills", Fails("flat"))

Fills == Told("fills") /\ IF reply.value = 1 THEN Goes("flat") ELSE Fails("flat")

Flat ==
  /\ Told("flat")
  /\ IF reply.status # "ok" THEN Finishes(FALSE)
     ELSE IF reply.value = 0 THEN Finishes(TRUE) ELSE Goes("price")

Price == Told("price") /\ IF reply.status = "ok" THEN Goes("flatten") ELSE Finishes(FALSE)

\* The order id is not asked for here.
Flatten ==
  /\ Told("flatten")
  /\ CASE reply.status = "unknown" -> Goes("aborted")
       [] reply.status = "ok" -> Goes("verify")
       [] OTHER -> Finishes(FALSE)

\* still_open needs a read that is available.
Verify == Told("verify") /\ Finishes(~(reply.status = "ok" /\ reply.value # 0))

Step ==
  \/ Positions \/ Mids \/ Size \/ Rest \/ Visible \/ Cancel \/ Gone
  \/ Take \/ Fills \/ Flat \/ Price \/ Flatten \/ Verify

\* Ctrl-C, with a call in flight or not.
Kill ==
  /\ pc \in Waits
  /\ pc' = "killed" /\ call' = None /\ attempt' = 0 /\ reply' = None
  /\ UNCHANGED <<exchange, failed>>

Run == Ask \/ Step \/ (ConnectorStep /\ UNCHANGED <<pc, failed>>)

Next == Run \/ Kill

Spec == Init /\ [][Next]_vars

FairSpec == Spec /\ WF_vars(Run)

-----------------------------------------------------------------------------
(* Properties *)

\* testnet_smoke.py, "0 = all steps passed": a check that passed has left no
\* order at the exchange and has seen a fill of its own, although lost replies,
\* retried cancellations and reads that returned nothing may all look like it.
PassedIsClean == pc = "passed" => ~book /\ taken

\* submit_order, "Order writes are intentionally not retried": however
\* the calls around it are retried, the exchange receives each order at most once.
SentOnce == \A o \in Orders : received[o] <= 1

\* The check is bounded: it ends, whatever fails how often.
CheckEnds == <>(pc \in Ends)

\* "taker fill + reconciliation, flatten + flat verification": a check that
\* passed leaves a flat account.
PassedIsFlat == pc = "passed" => held = 0
=============================================================================
