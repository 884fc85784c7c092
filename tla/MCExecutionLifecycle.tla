------------------------ MODULE MCExecutionLifecycle ------------------------
(***************************************************************************)
(* Instances of ExecutionLifecycle for TLC.  RequestsSpec starts from Init *)
(* or from a bot that already manages two positions, so that TLC reaches   *)
(* requests that meet the main loop over them.                             *)
(***************************************************************************)
EXTENDS ExecutionLifecycle

\* A bot in its main loop after two entries of one lot each have filled and a
\* reconciliation has given both positions the account's whole quantity
\* (_reconcile_positions matches by direction).
RunningInit ==
    LET listed == CHOOSE pair \in SUBSET Ids : Cardinality(pair) = 2
        held == [state |-> "open", qty |-> 2 * Lot, exit_oid |-> None, managed |-> TRUE]
        table == [id \in Ids |-> IF id \in listed THEN held ELSE NoPosition]
    IN /\ turn = None
       /\ pc = [t \in Tasks |-> IF t = Main THEN "loop" ELSE "idle"]
       /\ frame = [t \in Tasks |-> NoFrame]
       /\ positions = listed
       /\ obj = table
       /\ paused = FALSE
       /\ rows = table
       /\ ledger = {}
       /\ booked = [o \in Exits |-> 0]
       /\ trades = [id \in Ids |-> 0]
       /\ saved = TRUE
       /\ exposure = 2 * Lot
       /\ entryOrder = [id \in Ids |-> IF id \in listed
                                       THEN [state |-> "done", left |-> 0]
                                       ELSE [state |-> "none", left |-> 0]]
       /\ exitOrder =
            [o \in Exits |-> [pos |-> None, want |-> 0, state |-> "none", filled |-> 0]]
       /\ crashes = 0
       /\ external = 0

RequestsSpec == (Init \/ RunningInit) /\ [][Next]_vars
=============================================================================
