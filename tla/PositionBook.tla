---------------------------- MODULE PositionBook ----------------------------
(***************************************************************************)
(* What every strategy of the repository promises about the positions it   *)
(* keeps: a position is opened at most once and closed at most once, at    *)
(* most Limit are open, no two of them in one market, and a restart of the *)
(* process forgets the open ones for good.                                 *)
(*                                                                         *)
(* This is an abstract specification.  FundingArb, CrossExchangeArb,       *)
(* TrendFollowing and MultiAssetBot are shown to implement it.             *)
(***************************************************************************)
EXTENDS FiniteSets, Naturals

CONSTANTS
  Ids,     \* positions
  Coins,   \* markets
  Limit,   \* most positions open at a time
  None     \* no market

VARIABLES
  life,    \* of each position
  market   \* of each position that was opened

vars == <<life, market>>

Lives == {"unused", "open", "closed", "lost"}

OpenIds == {id \in Ids : life[id] = "open"}

Init ==
  /\ life = [id \in Ids |-> "unused"]
  /\ market = [id \in Ids |-> None]

Open(id, c) ==
  /\ life[id] = "unused"
  /\ Cardinality(OpenIds) < Limit
  /\ \A other \in OpenIds : market[other] # c
  /\ life' = [life EXCEPT ![id] = "open"]
  /\ market' = [market EXCEPT ![id] = c]

Close(id) ==
  /\ life[id] = "open"
  /\ life' = [life EXCEPT ![id] = "closed"]
  /\ UNCHANGED market

Restart ==
  /\ life' = [id \in Ids |-> IF life[id] = "open" THEN "lost" ELSE life[id]]
  /\ UNCHANGED market

Next ==
  \/ \E id \in Ids, c \in Coins : Open(id, c)
  \/ \E id \in Ids : Close(id)
  \/ Restart

Spec == Init /\ [][Next]_vars
=============================================================================
