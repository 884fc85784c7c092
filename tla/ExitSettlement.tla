--------------------------- MODULE ExitSettlement ---------------------------
(***************************************************************************)
(* What the live bot promises about the money of its exits: an exit order  *)
(* is sent for one position; if it fills, the fill is recorded before it   *)
(* is booked; it is booked at most once, to that position; and nothing     *)
(* else is ever booked.  Nothing is undone, whatever dies or is repeated.  *)
(* A recorded fill need not be booked: the bot may die in between, or      *)
(* take it for a part of the exit.                                         *)
(*                                                                         *)
(* This is an abstract specification, without tasks, calls, tables or      *)
(* deaths.  ExecutionLifecycle is shown to implement it.                   *)
(***************************************************************************)
EXTENDS Naturals

CONSTANTS
  Ids,     \* positions
  Exits,   \* exit orders
  None     \* no position

VARIABLES
  stage,   \* of each order
  owner,   \* the position an order was sent for
  income   \* of each position: how many fills are booked

vars == <<stage, owner, income>>

Init ==
  /\ stage = [o \in Exits |-> "unused"]
  /\ owner = [o \in Exits |-> None]
  /\ income = [p \in Ids |-> 0]

Send(o, p) ==
  /\ stage[o] = "unused"
  /\ stage' = [stage EXCEPT ![o] = "sent"]
  /\ owner' = [owner EXCEPT ![o] = p]
  /\ UNCHANGED income

\* An order is refused or finds nothing to reduce, fills, and is recorded.
Move(o, from, to) ==
  /\ stage[o] = from
  /\ stage' = [stage EXCEPT ![o] = to]
  /\ UNCHANGED <<owner, income>>

Book(o) ==
  /\ stage[o] = "recorded"
  /\ stage' = [stage EXCEPT ![o] = "booked"]
  /\ income' = [income EXCEPT ![owner[o]] = @ + 1]
  /\ UNCHANGED owner

Next ==
  \E o \in Exits :
    \/ \E p \in Ids : Send(o, p)
    \/ Move(o, "sent", "void") \/ Move(o, "sent", "filled") \/ Move(o, "filled", "recorded")
    \/ Book(o)

Spec == Init /\ [][Next]_vars
=============================================================================
