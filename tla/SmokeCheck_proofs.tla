-------------------------- MODULE SmokeCheck_proofs --------------------------
(***************************************************************************)
(* Proofs about SmokeCheck: for every number of retries and every position *)
(* the account may start with, a check that passed has left no order and   *)
(* has seen a fill, and no order is received twice.                        *)
(*                                                                         *)
(* Both need to know which reply the client waits for: the inductive       *)
(* invariant ties the call in flight to the step, the replies that count   *)
(* to the exchange, and an order that was never received to the steps that *)
(* come before its reply.                                                  *)
(***************************************************************************)
EXTENDS SmokeCheck, TLAPS

\* The steps before the one that waits for the reply to an order.
Before(o) ==
  CASE o = "resting" -> {"positions", "mids", "size"}
    [] o = "taker" -> {"positions", "mids", "size", "rest", "visible", "cancel", "gone"}
    [] OTHER -> {"positions", "mids", "size", "rest", "visible", "cancel", "gone",
                 "take", "fills", "flat", "price"}

StepOf(o) == CASE o = "resting" -> "rest" [] o = "taker" -> "take" [] OTHER -> "flatten"

\* The client waits for one call at a time, the one of its step.
CallIsAwaited ==
  /\ call # None => reply = None /\ pc \in Waits
  /\ call = "resting" => pc = "rest"
  /\ call = "taker" => pc = "take"
  /\ call = "flatten" => pc = "flatten"
  /\ call = "cancel" => pc = "cancel"
  /\ call = "fills" => pc = "fills"
  /\ pc \in {"cancel", "fills"} => call \in {None, pc}

\* What the replies that let the check go on have to mean.
CleanSoFar ==
  /\ pc = "cancel" /\ reply # None => (reply.status = "ok" => ~book)
  /\ pc = "fills" /\ reply # None => (reply.value = 1 => taken)
  /\ pc \in {"gone", "take", "fills", "flat", "price", "flatten", "verify", "passed"}
       => failed \/ ~book
  /\ pc \in {"flat", "price", "flatten", "verify", "passed"} => failed \/ taken
  /\ pc = "passed" => ~failed

Unsent(o) == pc \in Before(o) \/ (pc = StepOf(o) /\ reply = None)

SentSoFar == \A o \in Orders : received[o] <= 1 /\ (Unsent(o) => received[o] = 0)

IInv == TypeOK /\ CallIsAwaited /\ CleanSoFar /\ SentSoFar

-----------------------------------------------------------------------------
(* The invariant *)

LEMMA Initially == Init => IInv
  <1> SUFFICES ASSUME Init PROVE IInv
    OBVIOUS
  <1>1. /\ call = None /\ attempt = 0 /\ reply = None /\ pc = "positions" /\ failed = FALSE
        /\ book = FALSE /\ taken = FALSE /\ held \in Int
        /\ received = [o \in Orders |-> 0]
    BY ConnectorAssumption DEF Init, ConnectorInit
  <1>2. TypeOK
    <2>1. book \in BOOLEAN /\ taken \in BOOLEAN /\ failed \in BOOLEAN
      BY <1>1, Zenon
    <2>2. attempt \in 0 .. MaxRetries /\ received \in [Orders -> Nat]
      BY <1>1, ConnectorAssumption
    <2> QED
      BY <1>1, <2>1, <2>2 DEF TypeOK, ConnectorTypeOK, Waits
  <1>3. CallIsAwaited
    BY <1>1, NoneAssumption DEF CallIsAwaited, Calls, Orders
  <1>4. CleanSoFar /\ SentSoFar
    BY <1>1 DEF CleanSoFar, SentSoFar
  <1> QED
    BY <1>2, <1>3, <1>4 DEF IInv

LEMMA StepOfOrder ==
  /\ \A o \in Orders : o \in Calls /\ StepOf(o) \in Waits /\ StepOf(o) \notin Before(o)
  /\ StepOf("resting") = "rest" /\ StepOf("taker") = "take" /\ StepOf("flatten") = "flatten"
  BY DEF Orders, Calls, StepOf, Waits, Before

LEMMA AskStep == IInv /\ Ask => IInv'
  <1> SUFFICES ASSUME IInv, Ask PROVE IInv'
    OBVIOUS
  <1>1. /\ call' \in Calls /\ pc \in Waits
        /\ call' = "resting" => pc = "rest"
        /\ call' = "taker" => pc = "take"
        /\ call' = "flatten" => pc = "flatten"
        /\ call' = "cancel" => pc = "cancel"
        /\ call' = "fills" => pc = "fills"
        /\ pc \in {"cancel", "fills"} => call' = pc
    BY DEF Ask, CallOf, Waits, Calls, Orders
  <1>2. reply = None /\ UNCHANGED <<attempt, reply, exchange, pc, failed>>
    BY DEF Ask
  <1>3. TypeOK' /\ CallIsAwaited'
    BY <1>1, <1>2 DEF IInv, TypeOK, ConnectorTypeOK, CallIsAwaited, exchange
  <1>4. CleanSoFar' /\ SentSoFar'
    BY <1>2 DEF IInv, CleanSoFar, SentSoFar, Unsent, exchange
  <1> QED
    BY <1>3, <1>4 DEF IInv

\* What an attempt that reached the exchange does to it.
LEMMA LandsEffect ==
  ASSUME IInv, call # None, Lands \/ UNCHANGED exchange
  PROVE  /\ book' \in BOOLEAN /\ held' \in Int /\ taken' \in BOOLEAN
         /\ received' \in [Orders -> Nat]
         /\ book' => book \/ call = "resting"
         /\ taken => taken'
         /\ call = "fills" => UNCHANGED exchange
         /\ Lands /\ call = "cancel" /\ OwnCoin => ~book'
         /\ \A o \in Orders : IF call = o THEN received'[o] \in {received[o], received[o] + 1}
                                          ELSE received'[o] = received[o]
  <1>1. /\ book \in BOOLEAN /\ held \in Int /\ taken \in BOOLEAN
        /\ received \in [Orders -> Nat] /\ call \in Calls
    BY DEF IInv, TypeOK, ConnectorTypeOK
  <1>2. CASE UNCHANGED exchange
    <2>1. (Lands /\ call = "cancel" /\ OwnCoin) => ~book'
      BY DEF Lands
    <2> QED
      BY <1>1, <1>2, <2>1 DEF exchange
  <1>3. CASE Lands /\ call = "resting"
    BY <1>1, <1>3 DEF Lands, Orders
  <1>4. CASE Lands /\ call = "taker"
    <2>1. /\ received' = [received EXCEPT !["taker"] = @ + 1] /\ UNCHANGED book
          /\ (held' = held + 1 /\ taken' = TRUE) \/ UNCHANGED <<held, taken>>
      BY <1>4 DEF Lands
    <2>2. held' \in Int
      BY <1>1, <2>1
    <2>3. taken' \in BOOLEAN /\ (taken => taken')
      BY <1>1, <2>1, Zenon
    <2>4. /\ received' \in [Orders -> Nat]
          /\ \A o \in Orders : IF call = o THEN received'[o] = received[o] + 1
                                          ELSE received'[o] = received[o]
      BY <1>1, <1>4, <2>1 DEF Orders
    <2> QED
      BY <1>1, <1>4, <2>1, <2>2, <2>3, <2>4
  <1>5. CASE Lands /\ call = "flatten"
    <2>1. held' \in Int
      BY <1>1, <1>5 DEF Lands, Reduced, Magnitude
    <2> QED
      BY <1>1, <1>5, <2>1 DEF Lands, Orders
  <1>6. CASE Lands /\ call = "cancel" /\ OwnCoin
    BY <1>1, <1>6 DEF Lands, Orders
  <1>7. CASE Lands /\ call \notin Orders /\ ~(call = "cancel" /\ OwnCoin)
    BY <1>1, <1>7 DEF Lands, Orders, exchange
  <1> QED
    BY <1>2, <1>3, <1>4, <1>5, <1>6, <1>7 DEF Orders

\* A reply is one to the call that the client waits for.
LEMMA ReturnStep ==
  ASSUME IInv, NEW status \in {"ok", "failed", "unknown"}, NEW value \in Int,
         call # None, Lands \/ UNCHANGED exchange, Returns(status, value),
         UNCHANGED <<pc, failed>>,
         call = "cancel" /\ status = "ok" => Lands /\ OwnCoin,
         call = "fills" => (value = 1 => taken)
  PROVE  IInv'
  <1> DEFINE r == [status |-> status, value |-> value]
  <1>1. r \in Replies /\ r # None /\ r.status = status /\ r.value = value
    BY NoneAssumption DEF Replies
  <1>2. reply' = r /\ call' = None /\ attempt' = 0 /\ pc' = pc /\ failed' = failed
    BY DEF Returns
  <1> HIDE DEF r
  <1>3. TypeOK'
    BY <1>1, <1>2, LandsEffect, ConnectorAssumption DEF IInv, TypeOK, ConnectorTypeOK
  <1>4. None \notin {"resting", "taker", "flatten", "cancel", "fills"}
    BY NoneAssumption DEF Calls, Orders
  <1>5. CallIsAwaited'
    BY <1>2, <1>4 DEF CallIsAwaited
  <1>6. CleanSoFar'
    BY <1>1, <1>2, LandsEffect DEF IInv, CallIsAwaited, CleanSoFar
  <1>7. ASSUME NEW o \in Orders PROVE received'[o] <= 1 /\ (Unsent(o)' => received'[o] = 0)
    <2>1. received[o] \in Nat /\ received[o] <= 1 /\ (Unsent(o) => received[o] = 0)
      BY DEF IInv, SentSoFar, TypeOK, ConnectorTypeOK
    <2>2. CASE call = o
      <3>1. pc = StepOf(o) /\ reply = None
        BY <2>2, StepOfOrder DEF IInv, CallIsAwaited, Orders
      <3>2. Unsent(o) /\ ~Unsent(o)'
        BY <1>1, <1>2, <3>1, StepOfOrder DEF Unsent
      <3> QED
        BY <2>1, <2>2, <3>2, LandsEffect
    <2>3. CASE call # o
      <3>1. received'[o] = received[o]
        BY <2>3, LandsEffect
      <3>2. Unsent(o)' => Unsent(o)
        BY <1>1, <1>2 DEF Unsent
      <3> QED
        BY <2>1, <3>1, <3>2
    <2> QED
      BY <2>2, <2>3
  <1> QED
    BY <1>3, <1>5, <1>6, <1>7 DEF IInv, SentSoFar

\* An attempt that is tried again leaves the client waiting.
LEMMA RetryStep ==
  ASSUME IInv, NEW error \in Errors, Retry(error), UNCHANGED <<pc, failed>>
  PROVE  IInv'
  <1>1. /\ call # None /\ call \in {"positions", "mids", "orders", "cancel"}
        /\ attempt' = attempt + 1 /\ attempt < MaxRetries
        /\ Lands \/ UNCHANGED exchange
        /\ UNCHANGED <<call, reply, pc, failed>>
    BY DEF Retry, Retried, Counted
  <1>2. TypeOK'
    BY <1>1, LandsEffect, ConnectorAssumption DEF IInv, TypeOK, ConnectorTypeOK
  <1>3. received' = received
    BY <1>1 DEF Lands, exchange
  <1>4. CallIsAwaited' /\ CleanSoFar' /\ SentSoFar'
    BY <1>1, <1>3, LandsEffect DEF IInv, CallIsAwaited, CleanSoFar, SentSoFar, Unsent
  <1> QED
    BY <1>2, <1>4 DEF IInv

LEMMA CallStep == IInv /\ ConnectorStep /\ UNCHANGED <<pc, failed>> => IInv'
  <1> SUFFICES ASSUME IInv, ConnectorStep, UNCHANGED <<pc, failed>> PROVE IInv'
    OBVIOUS
  <1>1. CASE Answer
    <2>1. PICK value \in Answers : Returns("ok", value)
      BY <1>1 DEF Answer
    <2>2. call # None /\ Lands /\ (call = "cancel" => OwnCoin)
      BY <1>1 DEF Answer
    <2>3. value \in Int /\ (call = "fills" => (value = 1 => taken))
      BY <2>1 DEF Answers, Flag, IInv, TypeOK, ConnectorTypeOK
    <2> QED
      BY <2>1, <2>2, <2>3, ReturnStep
  <1>2. CASE Refuse
    <2>1. call # None /\ UNCHANGED exchange /\ Returns("failed", 0)
      BY <1>2, NoneAssumption DEF Refuse, Calls, Orders
    <2> QED
      BY <2>1, ReturnStep
  <1>3. ASSUME NEW error \in Errors, Retry(error) PROVE IInv'
    BY <1>3, RetryStep
  <1>4. ASSUME NEW error \in Errors, GiveUp(error) PROVE IInv'
    <2>1. call # None /\ (Lands \/ UNCHANGED exchange)
      BY <1>4 DEF GiveUp
    <2>2. \E status \in {"ok", "failed", "unknown"} :
            Returns(status, 0) /\ (call = "cancel" => status = "failed")
      BY <1>4 DEF GiveUp, Orders
    <2> QED
      BY <2>1, <2>2, ReturnStep
  <1> QED
    BY <1>1, <1>2, <1>3, <1>4 DEF ConnectorStep

-----------------------------------------------------------------------------
(* The steps of the check *)

\* A step reads its reply and goes on, to a later step or an end.
LEMMA ToldStep ==
  ASSUME IInv, NEW step \in Waits, Told(step), pc' \in Waits \cup Ends,
         failed' \in BOOLEAN, failed => failed',
         \A o \in Orders : pc' \in Before(o) \/ pc' = StepOf(o) => pc \in Before(o),
         CleanSoFar'
  PROVE  IInv'
  <1>1. /\ reply' = None /\ call = None
        /\ UNCHANGED <<call, attempt, book, held, taken, received>>
    BY DEF Told, IInv, CallIsAwaited, exchange
  <1>2. TypeOK'
    BY <1>1 DEF IInv, TypeOK, ConnectorTypeOK
  <1>3. CallIsAwaited'
    BY <1>1, NoneAssumption DEF CallIsAwaited, Calls, Orders
  <1>4. SentSoFar'
    BY <1>1 DEF IInv, SentSoFar, Unsent
  <1> QED
    BY <1>2, <1>3, <1>4 DEF IInv

\* The steps that may follow each one, and what they need.
LEMMA Follows ==
  /\ \A o \in Orders : \A next \in Ends : next \notin Before(o) /\ next # StepOf(o)
  /\ \A o \in Orders : \A next \in {"mids", "size", "rest"} :
       next \in Before(o) \/ next = StepOf(o)
         => {"positions", "mids", "size"} \subseteq Before(o)
  BY DEF Orders, Ends, Before, StepOf

LEMMA EarlyStep ==
  ASSUME IInv, Positions \/ Mids \/ Size
  PROVE  IInv'
  <1>1. PICK step \in {"positions", "mids", "size"} : Told(step)
    BY DEF Positions, Mids, Size
  <1>2. pc = step /\ pc \in Waits /\ failed \in BOOLEAN
    BY <1>1 DEF Told, Waits, IInv, TypeOK
  <1>3. /\ pc' \in {"mids", "size", "rest", "failed", "crashed"}
        /\ failed' \in BOOLEAN /\ (failed => failed')
    BY <1>2 DEF Positions, Mids, Size, Goes, Finishes
  <1>4. CleanSoFar'
    BY <1>3 DEF CleanSoFar
  <1>5. pc' \in Waits \cup Ends
    BY <1>3 DEF Waits, Ends
  <1>6. \A o \in Orders : pc' \in Before(o) \/ pc' = StepOf(o) => pc \in Before(o)
    BY <1>1, <1>2, <1>3, Follows DEF Ends
  <1> QED
    BY <1>1, <1>2, <1>3, <1>4, <1>5, <1>6, ToldStep

\* Where the later steps may go, and what the exchange is like by then.
Moves ==
  \/ pc' \in {"failed", "aborted", "crashed"}
  \/ pc = "rest" /\ pc' = "visible"
  \/ pc = "visible" /\ pc' = "cancel"
  \/ pc = "cancel" /\ pc' = "gone" /\ ~book
  \/ pc \in {"rest", "visible", "cancel", "gone"} /\ pc' = "take" /\ (failed' \/ ~book)
  \/ pc = "take" /\ pc' = "fills" /\ (failed \/ ~book)
  \/ /\ pc \in {"take", "fills"} /\ pc' = "flat"
     /\ failed' \/ taken
     /\ failed \/ ~book
  \/ /\ \/ pc = "flat" /\ pc' = "price"
        \/ pc = "price" /\ pc' = "flatten"
        \/ pc = "flatten" /\ pc' = "verify"
        \/ pc \in {"flat", "verify"} /\ pc' = "passed" /\ ~failed'
     /\ failed \/ ~book
     /\ failed \/ taken

LEMMA MoveStep ==
  ASSUME IInv, NEW step \in Waits, Told(step), Moves, failed' \in BOOLEAN, failed => failed'
  PROVE  IInv'
  <1>1. pc = step /\ reply' = None /\ UNCHANGED <<book, taken>>
    BY DEF Told, exchange
  <1>2. CleanSoFar'
    <2>1. CASE pc' \in {"failed", "aborted", "crashed", "visible", "cancel"}
      BY <1>1, <2>1 DEF CleanSoFar
    <2>2. CASE pc' \in {"gone", "take", "fills"}
      <3>1. failed' \/ ~book
        BY <2>2 DEF Moves
      <3> QED
        BY <1>1, <2>2, <3>1 DEF CleanSoFar
    <2>3. CASE pc' \in {"flat", "price", "flatten", "verify", "passed"}
      <3>1. /\ failed' \/ ~book
            /\ failed' \/ taken
            /\ pc' = "passed" => ~failed'
        BY <2>3 DEF Moves
      <3> QED
        BY <1>1, <2>3, <3>1 DEF CleanSoFar
    <2> QED
      BY <2>1, <2>2, <2>3 DEF Moves
  <1>3. \A o \in Orders : pc' \in Before(o) \/ pc' = StepOf(o) => pc \in Before(o)
    BY DEF Moves, Orders, Before, StepOf
  <1>4. pc' \in Waits \cup Ends
    BY DEF Moves, Waits, Ends
  <1> QED
    BY <1>2, <1>3, <1>4, ToldStep

LEMMA LaterStep ==
  ASSUME IInv,
         Rest \/ Visible \/ Cancel \/ Gone \/ Take \/ Fills \/ Flat \/ Price \/ Flatten \/ Verify
  PROVE  IInv'
  <1>1. PICK step \in Waits : Told(step)
    BY DEF Rest, Visible, Cancel, Gone, Take, Fills, Flat, Price, Flatten, Verify,
           Submitted, Waits
  <1>2. failed \in BOOLEAN /\ reply # None
    BY <1>1 DEF Told, IInv, TypeOK
  <1>3. failed' \in BOOLEAN /\ (failed => failed')
    BY <1>2 DEF Rest, Visible, Cancel, Gone, Take, Fills, Flat, Price, Flatten, Verify,
                Submitted, Goes, Fails, Finishes
  <1>4. CleanSoFar
    BY DEF IInv
  <1>5. Moves
    <2>1. CASE Rest
      BY <2>1 DEF Rest, Submitted, Told, Goes, Fails, Moves
    <2>2. CASE Visible
      BY <2>2 DEF Visible, Told, Goes, Fails, Moves
    <2>3. CASE Cancel
      BY <2>3, <1>2, <1>4 DEF Cancel, Cancelled, Told, Goes, Fails, Moves, CleanSoFar
    <2>4. CASE Gone
      BY <2>4, <1>4 DEF Gone, Told, Goes, Fails, Moves, CleanSoFar
    <2>5. CASE Take
      BY <2>5, <1>4 DEF Take, Submitted, Told, Goes, Fails, Moves, CleanSoFar
    <2>6. CASE Fills
      BY <2>6, <1>2, <1>4 DEF Fills, Told, Goes, Fails, Moves, CleanSoFar
    <2>7. CASE Flat
      BY <2>7, <1>4 DEF Flat, Told, Goes, Finishes, Moves, CleanSoFar
    <2>8. CASE Price
      BY <2>8, <1>4 DEF Price, Told, Goes, Finishes, Moves, CleanSoFar
    <2>9. CASE Flatten
      BY <2>9, <1>4 DEF Flatten, Told, Goes, Finishes, Moves, CleanSoFar
    <2>10. CASE Verify
      BY <2>10, <1>4 DEF Verify, Told, Finishes, Moves, CleanSoFar
    <2> QED
      BY <2>1, <2>2, <2>3, <2>4, <2>5, <2>6, <2>7, <2>8, <2>9, <2>10
  <1> QED
    BY <1>1, <1>3, <1>5, MoveStep

LEMMA KillStep == IInv /\ Kill => IInv'
  <1> SUFFICES ASSUME IInv, Kill PROVE IInv'
    OBVIOUS
  <1>1. /\ pc' = "killed" /\ call' = None /\ attempt' = 0 /\ reply' = None
        /\ UNCHANGED <<book, held, taken, received, failed>>
    BY DEF Kill, exchange
  <1>2. TypeOK'
    BY <1>1, ConnectorAssumption DEF IInv, TypeOK, ConnectorTypeOK, Ends
  <1>3. CallIsAwaited' /\ CleanSoFar'
    BY <1>1, NoneAssumption DEF CallIsAwaited, CleanSoFar, Calls, Orders
  <1>4. SentSoFar'
    <2>1. \A o \in Orders : ~Unsent(o)'
      BY <1>1 DEF Unsent, Orders, Before, StepOf
    <2> QED
      BY <1>1, <2>1 DEF IInv, SentSoFar
  <1> QED
    BY <1>2, <1>3, <1>4 DEF IInv

LEMMA StepKeeps == IInv /\ [Next]_vars => IInv'
  <1> SUFFICES ASSUME IInv, [Next]_vars PROVE IInv'
    OBVIOUS
  <1>1. CASE UNCHANGED vars
    <2>1. UNCHANGED <<call, attempt, reply, book, held, taken, received, pc, failed>>
      BY <1>1 DEF vars, connectorVars, exchange
    <2> QED
      BY <2>1 DEF IInv, TypeOK, ConnectorTypeOK, CallIsAwaited, CleanSoFar, SentSoFar, Unsent
  <1> QED
    BY <1>1, AskStep, CallStep, EarlyStep, LaterStep, KillStep DEF Next, Run, Step

THEOREM Invariance == Spec => []IInv
  BY Initially, StepKeeps, PTL DEF Spec

-----------------------------------------------------------------------------
(* The theorems *)

\* Every variable has its type, and no call is retried more than max_retries times.
THEOREM TypeCorrect == Spec => []TypeOK
  BY Invariance, PTL DEF IInv

\* TestnetSmokeCheck.run: whatever is lost and however often a call is retried, a
\* check that passed has left no order and has seen a fill.
THEOREM PassedChecksAreClean == Spec => []PassedIsClean
  <1>1. IInv => PassedIsClean
    BY DEF IInv, CleanSoFar, PassedIsClean
  <1> QED
    BY <1>1, Invariance, PTL

\* submit_order: no schedule of lost replies makes the exchange receive an order twice.
THEOREM OrdersAreSentOnce == Spec => []SentOnce
  <1>1. IInv => SentOnce
    BY DEF IInv, SentSoFar, SentOnce
  <1> QED
    BY <1>1, Invariance, PTL
=============================================================================
