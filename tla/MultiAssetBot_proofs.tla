------------------------ MODULE MultiAssetBot_proofs ------------------------
(***************************************************************************)
(* Proofs about MultiAssetBot composed with its feeds: for any number of   *)
(* assets, positions and restarts, the bot keeps the promises of a         *)
(* position book with one position per asset and writes one trade for      *)
(* every position it closes, and a second one only for a closing that was  *)
(* cut short; no feed gives up before its tries are exhausted.             *)
(*                                                                         *)
(* The inductive invariant keeps what can_trade_asset has checked for the  *)
(* entry that awaits its order, that the open positions are in different   *)
(* assets, which is what bounds their number, and that only stop meets a   *)
(* listed position that has a trade.                                       *)
(***************************************************************************)
EXTENDS MultiAssetBot, FiniteSetTheorems, TLAPS

\* TypeOK in three parts.
PlaceOK ==
  /\ pc \in Stages /\ cur \in Ids \cup {None} /\ todo \subseteq Assets
  /\ positions \in [Ids -> Positions]
  /\ trades \in [Ids -> Nat] /\ cut \subseteq Ids

RestOK ==
  /\ paper \in BOOLEAN
  /\ order \in [Ids -> {"none", "resting", "filled", "cancelled"}]
  /\ restarts \in Nat

FeedOK == FeedTypeOK /\ GivesUpExhausted

\* A closing is of a position, and whatever was decided on has an asset.
CurOK ==
  /\ pc \in {"saved", "stopsaved", "cancel", "stopcancel", "entry"} => cur \in Ids
  /\ \A id \in Ids : positions[id].state # "none" => positions[id].asset \in Assets

OneEach ==
  \A one, other \in OpenIds : one # other => positions[one].asset # positions[other].asset

\* What was checked before the order of an entry still holds at its reply.
EntryOK ==
  pc = "entry" =>
    /\ positions[cur].state = "placing"
    /\ \A id \in OpenIds : positions[id].asset # positions[cur].asset

\* A position whose closing was cut short has its first trade, and while it is
\* still listed nothing but stop runs.
SavedOK ==
  /\ pc \in {"saved", "stopsaved"} => positions[cur].state = "open"
  /\ pc = "saved" => cur \notin cut
  /\ \A id \in cut :
       /\ positions[id].state \in {"open", "closed", "lost"}
       /\ positions[id].state = "open" =>
            /\ pc \in {"stopping", "stopsaved", "stopcancel"}
            /\ ~Listed(id) => trades[id] = 1

IInv == PlaceOK /\ RestOK /\ FeedOK /\ CurOK /\ OneEach /\ EntryOK /\ SavedOK /\ SettledOnce

-----------------------------------------------------------------------------
(* The feeds *)

LEMMA FeedKeeps ==
  ASSUME FeedOK, NEW a \in Assets, FeedStep(a) \/ Candle(a)
  PROVE  FeedOK'
  <1>1. /\ link \in [Feeds -> Links] /\ attempts \in [Feeds -> 0 .. MaxAttempts]
        /\ candle \in [Feeds -> BOOLEAN] /\ a \in Feeds /\ MaxAttempts \in Nat \ {0}
        /\ \A f \in Feeds : link[f] = "gone" <=> attempts[f] = MaxAttempts
    BY FeedAssumption DEF FeedOK, FeedTypeOK, GivesUpExhausted, Assets
  <1>2. CASE Dialled(a)
    BY <1>1, <1>2 DEF Dialled, FeedOK, FeedTypeOK, GivesUpExhausted, Links
  <1>3. CASE Failed(a)
    <2>1. attempts[a] \in 0 .. MaxAttempts /\ attempts[a] # MaxAttempts
      BY <1>1, <1>3 DEF Failed
    <2>2. attempts' = [attempts EXCEPT ![a] = attempts[a] + 1]
      BY <1>3 DEF Failed
    <2>3. link' = [link EXCEPT ![a] = IF attempts[a] + 1 < MaxAttempts THEN "waiting" ELSE "gone"]
      BY <1>1, <1>3, <2>2 DEF Failed
    <2>4. candle' = candle
      BY <1>3 DEF Failed
    <2> QED
      BY <1>1, <2>1, <2>2, <2>3, <2>4 DEF FeedOK, FeedTypeOK, GivesUpExhausted, Links
  <1>4. CASE Subscribed(a) \/ DelayOver(a) \/ Dropped(a) \/ ClosedCleanly(a)
    BY <1>1, <1>4 DEF Subscribed, DelayOver, Dropped, ClosedCleanly,
                      FeedOK, FeedTypeOK, GivesUpExhausted, Links
  <1>5. CASE Candle(a)
    BY <1>1, <1>5 DEF Candle, FeedOK, FeedTypeOK, GivesUpExhausted
  <1> QED
    BY <1>2, <1>3, <1>4, <1>5 DEF FeedStep

LEMMA FeedRestarts ==
  ASSUME link' = [a \in Assets |-> "dialing"], attempts' = [a \in Assets |-> 0],
         candle' = [a \in Assets |-> FALSE]
  PROVE  FeedOK'
  BY FeedAssumption DEF FeedOK, FeedTypeOK, GivesUpExhausted, Links, Assets

LEMMA FeedSame == ASSUME FeedOK, UNCHANGED feedVars PROVE FeedOK'
  BY DEF FeedOK, FeedTypeOK, GivesUpExhausted, feedVars

-----------------------------------------------------------------------------
(* The invariant *)

LEMMA Initially == Init => IInv
  <1> SUFFICES ASSUME Init PROVE IInv
    OBVIOUS
  <1>1. NoPosition \in Positions /\ NoPosition.state = "none"
    BY DEF NoPosition, Positions
  <1>2. \A id \in Ids : positions[id].state = "none" /\ trades[id] = 0
    BY <1>1 DEF Init
  <1>3. PlaceOK
    BY <1>1 DEF Init, PlaceOK, Stages
  <1>4. RestOK
    BY AssetBoundAssumption DEF Init, RestOK
  <1>5. FeedOK
    BY FeedAssumption DEF Init, FeedInit, FeedOK, FeedTypeOK, GivesUpExhausted, Links
  <1> QED
    BY <1>2, <1>3, <1>4, <1>5
    DEF Init, IInv, CurOK, OneEach, EntryOK, OpenIds, SavedOK, SettledOnce, Listed

\* The stages in which stop runs.
Stopping == {"stopping", "stopsaved", "stopcancel"}

\* A step that leaves positions and trades alone.
LEMMA QuietStep ==
  ASSUME IInv, UNCHANGED book, RestOK', FeedOK', todo' \subseteq Assets, pc' \in Stages,
         cur' \in Ids \cup {None},
         pc' \in {"saved", "stopsaved", "cancel", "stopcancel", "entry"} => pc' = pc /\ cur' = cur,
         pc \in {"saved", "stopsaved"} => pc' = pc,
         pc \in Stopping => pc' \in Stopping
  PROVE  IInv'
  <1>1. PlaceOK'
    BY DEF IInv, PlaceOK, book
  <1>2. CurOK' /\ EntryOK' /\ OneEach'
    BY DEF IInv, CurOK, EntryOK, OneEach, OpenIds, book
  <1>3. \A id \in Ids : Listed(id)' <=> Listed(id)
    BY DEF Listed
  <1>4. cut \subseteq Ids /\ UNCHANGED <<positions, trades, cut>>
    BY DEF IInv, PlaceOK, book
  <1>5. SettledOnce'
    BY <1>3, <1>4 DEF IInv, SettledOnce
  <1>6. SavedOK'
    BY <1>3, <1>4 DEF IInv, SavedOK, Stopping
  <1> QED
    BY <1>1, <1>2, <1>5, <1>6 DEF IInv

LEMMA FeedSteps ==
  ASSUME IInv, NEW a \in Assets, OnCandle(a) \/ OnFeed(a)
  PROVE  IInv'
  <1>1. FeedOK'
    BY FeedKeeps DEF OnCandle, OnFeed, IInv
  <1>2. RestOK'
    BY DEF OnCandle, OnFeed, IInv, RestOK
  <1>3. UNCHANGED <<book, pc, cur, todo>>
    BY DEF OnCandle, OnFeed, task
  <1> QED
    BY <1>1, <1>2, <1>3, QuietStep DEF IInv, PlaceOK

LEMMA LoopSteps ==
  ASSUME IInv,
         \/ \E a \in Assets : ExitsKeep(a)
         \/ ExitsFail \/ ExitsDone \/ SignalsDone \/ Wake \/ Start
         \/ UNCHANGED vars
  PROVE  IInv'
  <1>1. UNCHANGED <<feedVars, paper, book, order, restarts>>
    BY DEF ExitsKeep, ExitsFail, ExitsDone, SignalsDone, Wake, Start, vars
  <1>2. FeedOK' /\ RestOK'
    BY <1>1, FeedSame DEF IInv, RestOK
  <1>3. /\ todo' \subseteq Assets /\ pc' \in Stages /\ cur' \in Ids \cup {None}
        /\ pc' \in {"saved", "stopsaved", "cancel", "stopcancel", "entry"} =>
             pc' = pc /\ cur' = cur
        /\ pc \in {"saved", "stopsaved"} => pc' = pc
        /\ pc \in Stopping => pc' \in Stopping
    <2>1. pc \in Stages /\ cur \in Ids \cup {None} /\ todo \subseteq Assets
      BY DEF IInv, PlaceOK
    <2> QED
      BY <2>1 DEF ExitsKeep, ExitsFail, Aborted, ExitsDone, SignalsDone, Wake, Start,
                  vars, task, Stages, Stopping
  <1> QED
    BY <1>1, <1>2, <1>3, QuietStep

LEMMA OrderSteps ==
  ASSUME IInv, (\E landed \in BOOLEAN : CancelReply(landed)) \/ \E id \in Ids : Fills(id)
  PROVE  IInv'
  <1>1. ASSUME NEW landed \in BOOLEAN, CancelReply(landed) PROVE IInv'
    <2>1. cur \in Ids /\ order \in [Ids -> {"none", "resting", "filled", "cancelled"}]
      BY <1>1 DEF CancelReply, IInv, CurOK, RestOK
    <2>2. order' \in [Ids -> {"none", "resting", "filled", "cancelled"}]
      BY <1>1, <2>1 DEF CancelReply
    <2>3. FeedOK' /\ RestOK'
      BY <1>1, <2>2, FeedSame DEF CancelReply, IInv, RestOK
    <2>4. /\ UNCHANGED <<book, todo>> /\ cur' = None
          /\ \/ pc = "cancel" /\ pc' = "exits"
             \/ pc = "stopcancel" /\ pc' = "stopping"
      BY <1>1 DEF CancelReply
    <2> QED
      BY <2>3, <2>4, QuietStep DEF IInv, PlaceOK, Stages, Stopping
  <1>2. ASSUME NEW id \in Ids, Fills(id) PROVE IInv'
    <2>1. FeedOK' /\ RestOK'
      BY <1>2, FeedSame DEF Fills, IInv, RestOK
    <2>2. UNCHANGED <<book, pc, cur, todo>>
      BY <1>2 DEF Fills, task
    <2> QED
      BY <2>1, <2>2, QuietStep DEF IInv, PlaceOK
  <1> QED
    BY <1>1, <1>2

LEMMA SaveStep ==
  ASSUME IInv, NEW a \in Assets, NEW id \in Ids, ExitsSave(a, id) \/ StopSave(a, id)
  PROVE  IInv'
  <1>1. /\ positions[id].state = "open" /\ positions[id].asset = a
        /\ trades' = [trades EXCEPT ![id] = @ + 1] /\ UNCHANGED <<positions, cut>>
        /\ cur' = id /\ todo' \subseteq todo
        /\ \/ pc = "exits" /\ pc' = "saved"
           \/ pc = "stopping" /\ pc' = "stopsaved"
    BY DEF ExitsSave, StopSave, SaveTrade, OpenIds
  <1>2. /\ positions \in [Ids -> Positions] /\ trades \in [Ids -> Nat] /\ cut \subseteq Ids
    BY DEF IInv, PlaceOK
  <1>3. /\ trades'[id] = trades[id] + 1
        /\ \A other \in Ids \ {id} : trades'[other] = trades[other]
        /\ \A other \in Ids : ~Listed(other)
        /\ \A other \in Ids : Listed(other)' <=> other = id
    BY <1>1, <1>2 DEF Listed
  <1>4. PlaceOK'
    BY <1>1, <1>2 DEF IInv, PlaceOK, Stages
  <1>5. RestOK' /\ FeedOK'
    BY FeedSame DEF IInv, RestOK, ExitsSave, StopSave, SaveTrade
  <1>6. CurOK' /\ EntryOK' /\ OneEach'
    BY <1>1 DEF IInv, CurOK, EntryOK, OneEach, OpenIds
  <1>7. SavedOK'
    BY <1>1, <1>2, <1>3 DEF IInv, SavedOK
  <1>8. SettledOnce'
    <2> SUFFICES ASSUME NEW other \in Ids
                 PROVE  IF other \in cut THEN trades'[other] \in {1, 2}
                        ELSE trades'[other] = IF positions[other].state = "closed" \/ Listed(other)'
                                              THEN 1 ELSE 0
      BY <1>1 DEF SettledOnce
    <2>1. CASE other = id
      BY <1>1, <1>3, <2>1 DEF IInv, SavedOK, SettledOnce
    <2>2. CASE other # id
      BY <1>3, <2>2 DEF IInv, SettledOnce
    <2> QED
      BY <2>1, <2>2
  <1> QED
    BY <1>4, <1>5, <1>6, <1>7, <1>8 DEF IInv

\* What the second half of _close_position does to the lists.
Settled(id) ==
  /\ positions[id].state = "open" /\ id \in Ids
  /\ positions' = [positions EXCEPT ![id].state = "closed"]

LEMMA RemoveIsSettled ==
  ASSUME IInv, ExitsRemove \/ StopRemove
  PROVE  Settled(cur)
  BY DEF ExitsRemove, StopRemove, Remove, Removed, Settled, IInv, CurOK, SavedOK

LEMMA RemoveStep ==
  ASSUME IInv, ExitsRemove \/ StopRemove
  PROVE  IInv'
  <1>1. Settled(cur)
    BY RemoveIsSettled
  <1>2. /\ positions \in [Ids -> Positions] /\ trades \in [Ids -> Nat] /\ cut \subseteq Ids
        /\ cur \in Ids /\ Listed(cur)
    BY <1>1 DEF IInv, PlaceOK, Settled, ExitsRemove, StopRemove, Listed
  <1>3. /\ positions'[cur].state = "closed" /\ positions'[cur].asset = positions[cur].asset
        /\ \A other \in Ids \ {cur} : positions'[other] = positions[other]
    BY <1>1, <1>2 DEF Settled, Positions
  <1>4. /\ \/ pc = "saved" /\ pc' \in {"exits", "cancel"}
           \/ pc = "stopsaved" /\ pc' \in {"stopping", "stopcancel"}
        /\ pc' \in {"cancel", "stopcancel"} => cur' = cur
        /\ cur' \in {cur, None} /\ UNCHANGED <<todo, trades, cut>>
    BY DEF ExitsRemove, StopRemove, Remove
  <1>5. OpenIds' = OpenIds \ {cur}
    BY <1>2, <1>3 DEF OpenIds
  <1>6. PlaceOK'
    <2>1. positions' \in [Ids -> Positions]
      BY <1>1, <1>2 DEF Settled, Positions
    <2> QED
      BY <1>2, <1>4, <2>1 DEF IInv, PlaceOK, Stages
  <1>7. RestOK' /\ FeedOK'
    BY FeedSame DEF IInv, RestOK, ExitsRemove, StopRemove, Remove
  <1>8. CurOK' /\ EntryOK'
    BY <1>1, <1>2, <1>3, <1>4 DEF IInv, CurOK, EntryOK, Settled
  <1>9. OneEach'
    BY <1>3, <1>5 DEF IInv, OneEach, OpenIds
  <1>10. \A other \in Ids : ~Listed(other)' /\ (Listed(other) <=> other = cur)
    BY <1>2, <1>4 DEF Listed
  <1>11. SavedOK'
    BY <1>2, <1>3, <1>4, <1>10 DEF IInv, SavedOK
  <1>12. SettledOnce'
    BY <1>2, <1>3, <1>4, <1>10 DEF IInv, SettledOnce
  <1> QED
    BY <1>6, <1>7, <1>8, <1>9, <1>11, <1>12 DEF IInv

\* An interrupt leaves everything where it is, and notes what it fell into.
LEMMA StopStep == IInv /\ Stop => IInv'
  <1> SUFFICES ASSUME IInv, Stop PROVE IInv'
    OBVIOUS
  <1>1. /\ pc \in {"exits", "saved", "signals"} /\ pc' = "stopping" /\ cur' = None
        /\ todo' = Assets /\ UNCHANGED <<positions, trades>>
        /\ cut' = cut \cup {id \in Ids : Listed(id)}
    BY DEF Stop, CutShort
  <1>2. cut \subseteq Ids /\ trades \in [Ids -> Nat]
    BY DEF IInv, PlaceOK
  <1>3. PlaceOK' /\ CurOK' /\ EntryOK' /\ OneEach'
    BY <1>1 DEF IInv, PlaceOK, CurOK, EntryOK, OneEach, OpenIds, Stages
  <1>4. RestOK' /\ FeedOK'
    BY FeedSame DEF IInv, RestOK, Stop
  <1>5. \A id \in Ids : ~Listed(id)' /\ (Listed(id) => trades[id] = 1 /\ positions[id].state = "open")
    BY <1>1, <1>2 DEF Listed, IInv, SavedOK, SettledOnce
  <1>6. \A id \in cut : positions[id].state # "open"
    BY <1>1 DEF IInv, SavedOK
  <1>7. SavedOK'
    BY <1>1, <1>2, <1>5, <1>6 DEF IInv, SavedOK
  <1>8. SettledOnce'
    BY <1>1, <1>2, <1>5 DEF IInv, SettledOnce
  <1> QED
    BY <1>3, <1>4, <1>7, <1>8 DEF IInv

-----------------------------------------------------------------------------
(* Entries *)

\* Where an entry is made, nothing is being closed and no closing is cut short.
LEMMA EntryStages ==
  ASSUME IInv, pc \in {"signals", "entry"}
  PROVE  \A id \in Ids : ~Listed(id) /\ (id \in cut => positions[id].state \in {"closed", "lost"})
  BY DEF IInv, SavedOK, Listed

LEMMA EntryIsPosition ==
  ASSUME NEW a \in Assets, NEW state \in {"placing", "open"}
  PROVE  /\ Entry(a, state) \in Positions
         /\ Entry(a, state).state = state /\ Entry(a, state).asset = a
  BY DEF Entry, Positions

\* One position that was not open, and was in no closing, has another state.
LEMMA EntryKeepsTrades ==
  ASSUME IInv, NEW id \in Ids, NEW p \in Positions, pc \in {"signals", "entry"},
         positions[id].state \in {"none", "placing"}, p.state \in {"placing", "open", "dropped"},
         positions' = [positions EXCEPT ![id] = p], UNCHANGED <<trades, cut>>,
         pc' \in {"signals", "entry", "sleep"}
  PROVE  SavedOK' /\ SettledOnce'
  <1>1. \A other \in Ids : positions'[other] = IF other = id THEN p ELSE positions[other]
    BY DEF IInv, PlaceOK
  <1>2. \A other \in Ids : ~Listed(other) /\ ~Listed(other)'
    BY EntryStages DEF Listed
  <1>3. cut \subseteq Ids /\ id \notin cut
    BY EntryStages DEF IInv, PlaceOK
  <1>4. SavedOK'
    BY <1>1, <1>3, EntryStages DEF SavedOK
  <1>5. SettledOnce'
    BY <1>1, <1>2, <1>3 DEF IInv, SettledOnce
  <1> QED
    BY <1>4, <1>5

\* A position is open in an asset of its own.
LEMMA OpenedStep ==
  ASSUME IInv, NEW id \in Ids, NEW a \in Assets, NEW p \in Positions,
         positions[id].state \in {"none", "placing"}, p.state = "open", p.asset = a,
         positions' = [positions EXCEPT ![id] = p],
         \A other \in OpenIds : positions[other].asset # a
  PROVE  OneEach'
  <1>1. \A other \in Ids : positions'[other] = IF other = id THEN p ELSE positions[other]
    BY DEF IInv, PlaceOK
  <1>2. OpenIds' = OpenIds \cup {id} /\ id \notin OpenIds
    BY <1>1 DEF OpenIds
  <1> QED
    BY <1>1, <1>2 DEF IInv, OneEach, OpenIds

LEMMA EnterPaperStep ==
  ASSUME IInv, NEW a \in Assets, NEW id \in Ids, NEW written \in BOOLEAN,
         EnterPaper(a, id, written)
  PROVE  IInv'
  <1> DEFINE p == Entry(a, "open")
  <1>1. p \in Positions /\ p.state = "open" /\ p.asset = a
    BY EntryIsPosition
  <1>2. /\ positions' = [positions EXCEPT ![id] = p] /\ UNCHANGED <<trades, cut>>
        /\ \A other \in OpenIds : positions[other].asset # a
    BY DEF EnterPaper, MayTrade
  <1> HIDE DEF p
  <1>3. positions[id].state = "none" /\ positions \in [Ids -> Positions]
    BY DEF EnterPaper, Fresh, IInv, PlaceOK
  <1>4. OneEach'
    BY <1>1, <1>2, <1>3, OpenedStep
  <1>5. /\ pc = "signals" /\ pc' \in {"signals", "sleep"} /\ cur' \in {cur, None}
        /\ todo' \subseteq todo
    BY DEF EnterPaper, Aborted
  <1>6. PlaceOK'
    BY <1>1, <1>2, <1>3, <1>5 DEF IInv, PlaceOK, Stages
  <1>7. RestOK' /\ FeedOK'
    BY FeedSame DEF EnterPaper, IInv, RestOK
  <1>8. CurOK' /\ EntryOK'
    BY <1>1, <1>2, <1>3, <1>5 DEF IInv, CurOK, EntryOK
  <1>9. SavedOK' /\ SettledOnce'
    BY <1>1, <1>2, <1>3, <1>5, EntryKeepsTrades
  <1> QED
    BY <1>4, <1>6, <1>7, <1>8, <1>9 DEF IInv

LEMMA EnterLiveStep ==
  ASSUME IInv, NEW a \in Assets, NEW id \in Ids, NEW landed \in BOOLEAN,
         EnterLive(a, id, landed)
  PROVE  IInv'
  <1> DEFINE p == Entry(a, "placing")
  <1>1. p \in Positions /\ p.state = "placing" /\ p.asset = a
    BY EntryIsPosition
  <1>2. /\ positions' = [positions EXCEPT ![id] = p] /\ UNCHANGED <<trades, cut>>
        /\ \A other \in OpenIds : positions[other].asset # a
    BY DEF EnterLive, MayTrade
  <1> HIDE DEF p
  <1>3. positions[id].state = "none" /\ positions \in [Ids -> Positions]
    BY DEF EnterLive, Fresh, IInv, PlaceOK
  <1>4. \A other \in Ids : positions'[other] = IF other = id THEN p ELSE positions[other]
    BY <1>2, <1>3
  <1>5. OpenIds' = OpenIds
    BY <1>1, <1>3, <1>4 DEF OpenIds
  <1>6. pc = "signals" /\ pc' = "entry" /\ cur' = id /\ todo' \subseteq todo
    BY DEF EnterLive
  <1>7. PlaceOK'
    BY <1>1, <1>2, <1>3, <1>6 DEF IInv, PlaceOK, Stages
  <1>8. RestOK' /\ FeedOK'
    BY FeedSame DEF EnterLive, IInv, RestOK
  <1>9. CurOK' /\ EntryOK' /\ OneEach'
    BY <1>1, <1>2, <1>3, <1>4, <1>5, <1>6 DEF IInv, CurOK, EntryOK, OneEach, OpenIds
  <1>10. SavedOK' /\ SettledOnce'
    BY <1>1, <1>2, <1>3, <1>6, EntryKeepsTrades
  <1> QED
    BY <1>7, <1>8, <1>9, <1>10 DEF IInv

\* The reply to an entry: the position is open, or was never there.
Answered(s) ==
  /\ pc = "entry" /\ cur \in Ids /\ positions[cur].state = "placing"
  /\ positions' = [positions EXCEPT ![cur].state = s]
  /\ UNCHANGED <<trades, cut>>

LEMMA ReplyIsAnswered ==
  ASSUME IInv, NEW ok \in BOOLEAN, NEW written \in BOOLEAN, EntryReply(ok, written)
  PROVE  Answered("open") \/ Answered("dropped")
  BY DEF EntryReply, IInv, CurOK, EntryOK, Answered

LEMMA EntryReplyStep ==
  ASSUME IInv, NEW ok \in BOOLEAN, NEW written \in BOOLEAN, EntryReply(ok, written)
  PROVE  IInv'
  <1>1. PICK s \in {"open", "dropped"} : Answered(s)
    BY ReplyIsAnswered
  <1> DEFINE a == positions[cur].asset
             p == [positions[cur] EXCEPT !.state = s]
  <1>2. /\ cur \in Ids /\ positions[cur].state = "placing" /\ positions \in [Ids -> Positions]
        /\ a \in Assets /\ \A other \in OpenIds : positions[other].asset # a
    BY <1>1 DEF Answered, IInv, PlaceOK, CurOK, EntryOK
  <1>3. p \in Positions /\ p.state = s /\ p.asset = a
    BY <1>2 DEF Positions
  <1>4. positions' = [positions EXCEPT ![cur] = p] /\ UNCHANGED <<trades, cut>>
    BY <1>1 DEF Answered
  <1> HIDE DEF p, a
  <1>5. \A other \in Ids : positions'[other] = IF other = cur THEN p ELSE positions[other]
    BY <1>2, <1>4
  <1>6. OneEach'
    <2>1. CASE s = "open"
      BY <1>2, <1>3, <1>4, <2>1, OpenedStep
    <2>2. CASE s = "dropped"
      <3>1. OpenIds' = OpenIds
        BY <1>2, <1>3, <1>5, <2>2 DEF OpenIds
      <3> QED
        BY <1>2, <1>3, <1>5, <2>2, <3>1 DEF IInv, OneEach, OpenIds
    <2> QED
      BY <2>1, <2>2
  <1>7. pc = "entry" /\ pc' \in {"signals", "sleep"} /\ cur' = None /\ todo' \subseteq todo
    BY DEF EntryReply, Aborted
  <1>8. PlaceOK'
    BY <1>2, <1>3, <1>4, <1>7 DEF IInv, PlaceOK, Stages
  <1>9. RestOK' /\ FeedOK'
    BY FeedSame DEF EntryReply, IInv, RestOK
  <1>10. CurOK' /\ EntryOK'
    BY <1>2, <1>3, <1>5, <1>7 DEF IInv, CurOK, EntryOK
  <1>11. SavedOK' /\ SettledOnce'
    BY <1>2, <1>3, <1>4, <1>7, EntryKeepsTrades
  <1> QED
    BY <1>6, <1>8, <1>9, <1>10, <1>11 DEF IInv

-----------------------------------------------------------------------------
(* The end of the process *)

LEMMA Forgets ==
  ASSUME NEW p \in Positions
  PROVE  /\ Forgotten(p) \in Positions /\ Forgotten(p).asset = p.asset
         /\ p.state = "open" => Forgotten(p).state = "lost"
         /\ p.state = "placing" => Forgotten(p).state = "dropped"
         /\ p.state \notin {"open", "placing"} => Forgotten(p).state = p.state
  <1>1. CASE p.state = "open"
    <2>1. Forgotten(p) = [NoPosition EXCEPT !.state = "lost", !.asset = p.asset]
      BY <1>1 DEF Forgotten
    <2>2. Forgotten(p) = [state |-> "lost", asset |-> p.asset]
      BY <2>1 DEF NoPosition
    <2> QED
      BY <1>1, <2>2 DEF Positions
  <1>2. CASE p.state = "placing"
    BY <1>2 DEF Forgotten, Positions
  <1>3. CASE p.state \notin {"open", "placing"}
    BY <1>3 DEF Forgotten
  <1> QED
    BY <1>1, <1>2, <1>3

Going ==
  \A id \in Ids :
    /\ positions'[id] \in Positions
    /\ positions'[id].asset = positions[id].asset
    /\ positions[id].state = "open" => positions'[id].state = "lost"
    /\ positions[id].state = "placing" => positions'[id].state = "dropped"
    /\ positions[id].state \notin {"open", "placing"} => positions'[id].state = positions[id].state

LEMMA DownIsGoing == ASSUME IInv, Down PROVE Going
  <1>1. \A id \in Ids : positions[id] \in Positions /\ positions'[id] = Forgotten(positions[id])
    BY DEF Down, IInv, PlaceOK
  <1> QED
    BY <1>1, Forgets DEF Going

LEMMA DownStep == IInv /\ Down => IInv'
  <1> SUFFICES ASSUME IInv, Down PROVE IInv'
    OBVIOUS
  <1>1. /\ Going /\ pc' = "down" /\ cur' = None /\ todo' = {} /\ UNCHANGED trades
        /\ cut' = cut \cup {id \in Ids : Listed(id)}
    BY DownIsGoing DEF Down, CutShort
  <1>2. PlaceOK'
    BY <1>1 DEF IInv, PlaceOK, Down, Going, Stages
  <1>3. RestOK'
    BY AssetBoundAssumption DEF IInv, RestOK, Down
  <1>4. FeedOK'
    BY FeedRestarts DEF Down
  <1>5. OpenIds' = {}
    BY <1>1 DEF Going, OpenIds
  <1>6. CurOK' /\ EntryOK' /\ OneEach'
    BY <1>1, <1>5 DEF IInv, CurOK, EntryOK, OneEach, Going
  <1>7. ASSUME NEW id \in Ids
        PROVE  /\ ~Listed(id)'
               /\ (positions'[id].state = "closed") <=> (positions[id].state = "closed")
               /\ Listed(id) => positions[id].state = "open"
    <2>1. ~Listed(id)'
      BY <1>1 DEF Listed
    <2>2. (positions'[id].state = "closed") <=> (positions[id].state = "closed")
      BY <1>1 DEF Going
    <2>3. Listed(id) => positions[id].state = "open"
      BY DEF Listed, IInv, SavedOK
    <2> QED
      BY <2>1, <2>2, <2>3
  <1>8. cut \subseteq Ids /\ trades \in [Ids -> Nat]
    BY DEF IInv, PlaceOK
  <1>9. SavedOK'
    <2> SUFFICES ASSUME NEW id \in cut' PROVE positions'[id].state \in {"closed", "lost"}
      BY <1>1 DEF SavedOK
    <2>1. id \in Ids /\ (id \in cut \/ Listed(id))
      BY <1>1, <1>8
    <2>2. positions[id].state \in {"open", "closed", "lost"}
      BY <1>7, <2>1 DEF IInv, SavedOK
    <2> QED
      BY <1>1, <2>1, <2>2 DEF Going
  <1>10. SettledOnce'
    <2> SUFFICES ASSUME NEW id \in Ids
                 PROVE  IF id \in cut' THEN trades[id] \in {1, 2}
                        ELSE trades[id] = IF positions'[id].state = "closed" \/ Listed(id)'
                                          THEN 1 ELSE 0
      BY <1>1 DEF SettledOnce
    <2>1. CASE id \in cut \/ Listed(id)
      BY <1>1, <2>1 DEF IInv, SettledOnce
    <2>2. CASE id \notin cut /\ ~Listed(id)
      BY <1>1, <1>7, <2>2 DEF IInv, SettledOnce
    <2> QED
      BY <2>1, <2>2
  <1> QED
    BY <1>2, <1>3, <1>4, <1>6, <1>9, <1>10 DEF IInv

LEMMA Step == IInv /\ [Next]_vars => IInv'
  <1> SUFFICES ASSUME IInv, [Next]_vars PROVE IInv'
    OBVIOUS
  <1>1. ASSUME NEW a \in Assets, NEW id \in Ids, NEW b \in BOOLEAN,
               EnterPaper(a, id, b) \/ EnterLive(a, id, b)
        PROVE  IInv'
    BY <1>1, EnterPaperStep, EnterLiveStep
  <1>2. ASSUME NEW ok \in BOOLEAN, NEW written \in BOOLEAN, EntryReply(ok, written)
        PROVE  IInv'
    BY <1>2, EntryReplyStep
  <1>3. ASSUME NEW a \in Assets, NEW id \in Ids, ExitsSave(a, id) \/ StopSave(a, id)
        PROVE  IInv'
    BY <1>3, SaveStep
  <1> QED
    BY <1>1, <1>2, <1>3, FeedSteps, LoopSteps, OrderSteps, RemoveStep, StopStep, DownStep DEF Next

THEOREM Invariance == Spec => []IInv
  BY Initially, Step, PTL DEF Spec

-----------------------------------------------------------------------------
(* The theorems *)

\* Every reachable state of the bot and its feeds has its type.
THEOREM TypeCorrect == Spec => []TypeOK
  <1>1. IInv => TypeOK
    BY DEF IInv, PlaceOK, RestOK, FeedOK, TypeOK
  <1> QED
    BY <1>1, Invariance, PTL

\* _close_position: whatever fails around it, every closed position has one trade
\* and no other has any, but for a closing that was cut short between the two, which
\* leaves one trade or two.
THEOREM TradesAreSettledOnce == Spec => []SettledOnce
  BY Invariance, PTL DEF IInv

\* connect: no feed gives up before its tries in a row are exhausted, and one
\* that exhausted them has given up.
THEOREM FeedsGiveUpExhausted == Spec => []GivesUpExhausted
  BY Invariance, PTL DEF IInv, FeedOK

-----------------------------------------------------------------------------
(* The refinement *)

\* The substitutions of Book.
Life == [id \in Ids |-> IF positions[id].state \in {"open", "closed", "lost"}
                        THEN positions[id].state ELSE "unused"]
Market == [id \in Ids |-> IF positions[id].state \in {"open", "closed", "lost"}
                          THEN positions[id].asset ELSE None]

LEMMA SameCardinality == ASSUME NEW S PROVE Book!Cardinality(S) = Cardinality(S)
  BY DEF Book!Cardinality, Cardinality

LEMMA BookOpenIds == Book!OpenIds = OpenIds
  BY DEF Book!OpenIds, OpenIds

LEMMA BookInit == Init => Book!Init
  <1>1. NoPosition.state = "none"
    BY DEF NoPosition
  <1> QED
    BY <1>1 DEF Init, Book!Init

\* The position that is opened or given up is in nobody else's asset.
LEMMA RoomForOne ==
  ASSUME IInv, NEW a \in Assets, \A id \in OpenIds : positions[id].asset # a
  PROVE  Cardinality(OpenIds) < Cardinality(Assets)
  <1> DEFINE others == Assets \ {a}
             f == [id \in OpenIds |-> positions[id].asset]
  <1>1. f \in Injection(OpenIds, others)
    <2>1. f \in [OpenIds -> others]
      BY DEF IInv, CurOK, OpenIds
    <2>2. \A one, other \in OpenIds : f[one] = f[other] => one = other
      BY DEF IInv, OneEach
    <2> QED
      BY <2>1, <2>2 DEF Injection, IsInjective
  <1>2. IsFiniteSet(others) /\ Cardinality(others) = Cardinality(Assets) - 1
    BY AssetsAreFinite, FS_RemoveElement
  <1> HIDE DEF f, others
  <1>3. IsFiniteSet(OpenIds) /\ Cardinality(OpenIds) <= Cardinality(others)
    BY <1>1, <1>2, FS_Injection
  <1>4. Cardinality(OpenIds) \in Nat /\ Cardinality(Assets) \in Nat
    BY <1>3, AssetsAreFinite, FS_CardinalityType
  <1> QED
    BY <1>2, <1>3, <1>4

LEMMA BookStays ==
  ASSUME \A id \in Ids :
           \/ positions'[id] = positions[id]
           \/ /\ positions[id].state \notin {"open", "closed", "lost"}
              /\ positions'[id].state \notin {"open", "closed", "lost"}
  PROVE  UNCHANGED Book!vars
  <1>1. Life' = Life
    BY DEF Life
  <1>2. Market' = Market
    BY DEF Market
  <1> QED
    BY <1>1, <1>2 DEF Book!vars, Life, Market

LEMMA BookOpen ==
  ASSUME IInv, NEW id \in Ids, NEW a \in Assets,
         positions[id].state \in {"none", "placing"},
         \A other \in OpenIds : positions[other].asset # a,
         positions'[id].state = "open", positions'[id].asset = a,
         \A other \in Ids \ {id} : positions'[other] = positions[other]
  PROVE  Book!Next
  <1>1. Life[id] = "unused" /\ Life' = [Life EXCEPT ![id] = "open"]
    BY DEF Life
  <1>2. Market' = [Market EXCEPT ![id] = a]
    BY DEF Market
  <1>3. Cardinality(OpenIds) < Cardinality(Assets)
    BY RoomForOne
  <1>4. /\ Cardinality(Book!OpenIds) < Cardinality(Assets)
        /\ \A other \in Book!OpenIds : Market[other] # a
    BY <1>3, BookOpenIds DEF Market, OpenIds
  <1>5. Book!Open(id, a)
    BY <1>1, <1>2, <1>4, SameCardinality DEF Book!Open, Life, Market
  <1> QED
    BY <1>5 DEF Book!Next

LEMMA BookClose == ASSUME IInv, NEW id \in Ids, Settled(id) PROVE Book!Next
  <1>1. /\ positions'[id].state = "closed" /\ positions'[id].asset = positions[id].asset
        /\ \A other \in Ids \ {id} : positions'[other] = positions[other]
    BY DEF Settled, IInv, PlaceOK, Positions
  <1>2. Life[id] = "open" /\ Life' = [Life EXCEPT ![id] = "closed"]
    BY <1>1 DEF Settled, Life
  <1>3. Market' = Market
    BY <1>1 DEF Settled, Market
  <1> QED
    BY <1>2, <1>3 DEF Book!Next, Book!Close, Life, Market

LEMMA BookRestart == ASSUME IInv, Going PROVE Book!Restart
  <1>1. Life' = [id \in Ids |-> IF Life[id] = "open" THEN "lost" ELSE Life[id]]
    BY DEF Going, Life
  <1>2. Market' = Market
    BY DEF Going, Market
  <1> QED
    BY <1>1, <1>2 DEF Book!Restart, Life, Market

LEMMA BookStep == IInv /\ [Next]_vars => [Book!Next]_(Book!vars)
  <1> SUFFICES ASSUME IInv, [Next]_vars PROVE Book!Next \/ UNCHANGED Book!vars
    OBVIOUS
  <1>1. ASSUME NEW a \in Assets, NEW id \in Ids, NEW b \in BOOLEAN, EnterPaper(a, id, b)
        PROVE  Book!Next
    <2>1. /\ Entry(a, "open").state = "open" /\ Entry(a, "open").asset = a
          /\ \A other \in OpenIds : positions[other].asset # a
      BY <1>1, EntryIsPosition DEF EnterPaper, MayTrade
    <2>2. /\ positions' = [positions EXCEPT ![id] = Entry(a, "open")]
          /\ positions[id].state = "none" /\ positions \in [Ids -> Positions]
      BY <1>1 DEF EnterPaper, Fresh, IInv, PlaceOK
    <2> QED
      BY <2>1, <2>2, BookOpen
  <1>2. ASSUME NEW a \in Assets, NEW id \in Ids, NEW b \in BOOLEAN, EnterLive(a, id, b)
        PROVE  UNCHANGED Book!vars
    <2>1. Entry(a, "placing").state = "placing"
      BY <1>2, EntryIsPosition DEF EnterLive
    <2>2. /\ positions' = [positions EXCEPT ![id] = Entry(a, "placing")]
          /\ positions[id].state = "none" /\ positions \in [Ids -> Positions]
      BY <1>2 DEF EnterLive, Fresh, IInv, PlaceOK
    <2> QED
      BY <2>1, <2>2, BookStays
  <1>3. ASSUME NEW ok \in BOOLEAN, NEW written \in BOOLEAN, EntryReply(ok, written)
        PROVE  Book!Next \/ UNCHANGED Book!vars
    <2>1. PICK s \in {"open", "dropped"} : Answered(s)
      BY <1>3, ReplyIsAnswered
    <2>2. PICK id \in Ids, a \in Assets :
            id = cur /\ a = positions[cur].asset /\ positions[id].state = "placing"
      BY <2>1 DEF Answered, IInv, CurOK
    <2>3. /\ positions'[id].state = s /\ positions'[id].asset = a
          /\ \A other \in Ids \ {id} : positions'[other] = positions[other]
      BY <2>1, <2>2 DEF Answered, IInv, PlaceOK, Positions
    <2>4. \A other \in OpenIds : positions[other].asset # a
      BY <2>1, <2>2 DEF Answered, IInv, EntryOK
    <2>5. CASE s = "open"
      BY <2>2, <2>3, <2>4, <2>5, BookOpen
    <2>6. CASE s = "dropped"
      BY <2>2, <2>3, <2>6, BookStays
    <2> QED
      BY <2>5, <2>6
  <1>4. CASE ExitsRemove \/ StopRemove
    <2>1. cur \in Ids /\ Settled(cur)
      BY <1>4, RemoveIsSettled DEF Settled
    <2> QED
      BY <2>1, BookClose
  <1>5. CASE Down
    BY <1>5, DownIsGoing, BookRestart DEF Book!Next
  <1>6. CASE UNCHANGED positions
    BY <1>6, BookStays
  <1> QED
    BY <1>1, <1>2, <1>3, <1>4, <1>5, <1>6
    DEF Next, OnCandle, OnFeed, ExitsKeep, ExitsSave, StopSave, SaveTrade, CancelReply, ExitsFail,
        ExitsDone, SignalsDone, Wake, Stop, Start, Fills, book, vars

\* MultiAssetTradingBot keeps the promises of a position book: over feeds, failed
\* iterations and restarts it never has more positions than assets.
THEOREM BookIsImplemented == Spec => ImplementsBook
  BY BookInit, BookStep, Invariance, PTL DEF Spec, ImplementsBook, Book!Spec
=============================================================================
