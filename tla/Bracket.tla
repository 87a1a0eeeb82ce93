------------------------------ MODULE Bracket ------------------------------
(***************************************************************************)
(* POST /api/bracket of apps/api/src/routes/orders.ts on top of Triggers:  *)
(* a market entry, a take-profit and a stop-loss sized to what the entry   *)
(* filled, and, when a leg is refused, an emergency close.  Each is one    *)
(* command of the pipeline, which the route awaits; between two of them    *)
(* other commands run.  The route reads the events of its own commands,    *)
(* which Watched collects.                                                 *)
(***************************************************************************)
EXTENDS Triggers

CONSTANT Brackets  \* the requests: user, side, qty, tp, sl and the group label

ASSUME BracketAssumption ==
  \A b \in Brackets :
    /\ b.user \in Users /\ b.side \in Sides /\ b.group \in Groups
    /\ {b.qty, b.tp, b.sl} \subseteq Nat \ {0}

VARIABLE
  bracket    \* step: the last command, or the answer; running: it is under way;
             \* req; filled, paid: what the entry traded; refused: the steps
             \* with an orderRejected among their events; legs: the ids in the
             \* orderAccepted events of the take-profit and the stop-loss

bvars == <<tvars, bracket>>

NoBracket ==
  [step |-> "none", running |-> FALSE, req |-> NoOrder, filled |-> 0, paid |-> 0,
   refused |-> {}, legs |-> {}]

ExitSide == Opposite(bracket.req.side)

\* The command just begun, unless the engine is done with it at once.
Running(step) == [bracket EXCEPT !.step = step, !.running = ~Idle']
Answered(how) == bracket' = [bracket EXCEPT !.step = how]

Request(b, side, type, price, qty) ==
  [user |-> b.user, side |-> side, type |-> type, price |-> price, qty |-> qty,
   tif |-> IF type = "market" THEN "IOC" ELSE "GTC", postOnly |-> FALSE,
   reduceOnly |-> FALSE, oco |-> NoGroup]

\* What a command of the route does first: submitOrder.
Submit(req) ==
  /\ Idle /\ Room(1)
  /\ pc' = "submit" /\ pending' = req
  /\ UNCHANGED <<ledger, positions, orders, book, nextId, taker, sweep, settings,
                 history, dormant, groups, due, traded, outlived>>

\* defaultMarketBound(), of a side that has orders to trade with.
EntryBound(side) ==
  LET best == orders[Head(book[Opposite(side)])].price
  IN  IF side = "buy" THEN FloorTick((best * 105) \div 100)
                      ELSE CeilTick((best * 95) \div 100)

Enter(b) ==
  /\ bracket.step = "none" /\ book[Opposite(b.side)] # <<>>
  /\ Submit(Request(b, b.side, "market", EntryBound(b.side), b.qty))
  /\ bracket' = [Running("entry") EXCEPT !.req = b]

Awaited(step) == bracket.step = step /\ ~bracket.running

RefuseEntry ==
  /\ Awaited("entry") /\ bracket.filled = 0
  /\ Answered("refused")
  /\ UNCHANGED tvars

Leg(type, price) ==
  [Request(bracket.req, ExitSide, type, price, bracket.filled) EXCEPT
     !.reduceOnly = TRUE, !.oco = bracket.req.group]

TakeProfit ==
  /\ Awaited("entry") /\ bracket.filled > 0
  /\ Submit(Leg("limit", bracket.req.tp))
  /\ bracket' = Running("takeProfit")

StopLeg ==
  LET o == Leg("market", 0) IN
  [user |-> o.user, side |-> o.side, type |-> o.type, price |-> o.price,
   qty |-> o.qty, tif |-> o.tif, postOnly |-> o.postOnly,
   reduceOnly |-> o.reduceOnly, oco |-> o.oco,
   trigger |-> [price |-> bracket.req.sl, trail |-> 0,
                direction |-> IF ExitSide = "sell" THEN "below" ELSE "above"]]

\* A conditional order with an aligned price and quantity is never refused as
\* such; its activation may be, at once.
StopLoss ==
  /\ Awaited("takeProfit")
  /\ PlaceConditional(StopLeg)
  /\ bracket' = [Running("stopLoss") EXCEPT !.legs = @ \cup {nextId}]

\* The wide bound: half the reference price away from it.
FlattenBound ==
  LET ref == IF mark # 0 THEN mark ELSE bracket.paid \div bracket.filled
  IN  IF ExitSide = "buy" THEN FloorTick((ref * 150) \div 100)
                          ELSE CeilTick((ref * 50) \div 100)

FlattenOrder_plain ==
  Request(bracket.req, ExitSide, "market", FlattenBound, bracket.filled)

FlattenOrder ==
  [Request(bracket.req, ExitSide, "market", FlattenBound, bracket.filled)
     EXCEPT !.reduceOnly = TRUE]

\* Those of the route's own two orders that are live, under the ids they were
\* given: an amend gives the take-profit another.
Dropped == bracket.legs \cap Live

\* One command: the legs that are live are cancelled, the entry closed.
Flatten ==
  /\ Awaited("stopLoss") /\ bracket.refused \cap {"takeProfit", "stopLoss"} # {}
  /\ Idle /\ Room(1)
  /\ Becomes(Cancelled(Engine, Dropped \cap DOMAIN orders))
  /\ dormant' = Without(dormant, Dropped)
  /\ groups' = Unregistered(groups, Dropped)
  /\ pc' = "submit" /\ pending' = FlattenOrder
  /\ bracket' = Running("flatten")
  /\ UNCHANGED <<nextId, taker, sweep, settings, history, due, traded, outlived>>

AnswerFlattened ==
  /\ Awaited("flatten")
  /\ Answered(IF SizesOf(positions)[bracket.req.user] = 0 THEN "flattened"
                                                          ELSE "exposed")
  /\ UNCHANGED tvars

AnswerProtected ==
  /\ Awaited("stopLoss") /\ bracket.refused \cap {"takeProfit", "stopLoss"} = {}
  /\ Answered("protected")
  /\ UNCHANGED tvars

\* What the route will find in the events of the command under way: the trades
\* of the entry, a refusal, the id of the take-profit.
Watched ==
  LET q == IF pc = "match" /\ pc' = "match" /\ bracket.step = "entry"
           THEN taker'.filled - taker.filled ELSE 0
  IN  [bracket EXCEPT
         !.running = ~Idle',
         !.filled = @ + q,
         !.paid = IF q = 0 THEN @ ELSE @ + q * BestMaker.price,
         !.refused = IF pc = "submit" /\ pc' = "idle" THEN @ \cup {bracket.step}
                                                      ELSE @,
         !.legs = IF /\ bracket.step = "takeProfit"
                     /\ pc = "submit" /\ pc' = "match"
                  THEN @ \cup {nextId} ELSE @]

\* The engine goes on with the command under way, or another one runs.
Traffic == TNext /\ bracket' = IF bracket.running THEN Watched ELSE bracket

BInit == TInit /\ bracket = NoBracket

BNext ==
  \/ \E b \in Brackets : Enter(b)
  \/ RefuseEntry \/ TakeProfit \/ StopLoss \/ Flatten
  \/ AnswerFlattened \/ AnswerProtected
  \/ Traffic

BSpec == BInit /\ [][BNext]_bvars

-----------------------------------------------------------------------------
(* Properties.                                                             *)

Done == bracket.step \in {"refused", "protected", "flattened", "exposed"}

\* The type invariant.
BracketTypeOK ==
  /\ TriggersTypeOK
  /\ bracket.step \in {"none", "entry", "takeProfit", "stopLoss", "flatten"} \/ Done
  /\ bracket.running => ~Idle
  /\ bracket.req # NoOrder => bracket.filled \in 0..bracket.req.qty

\* The traders with a bracket trade by the bracket alone.
Alone ==
  \A b \in Brackets :
    /\ \A r \in Requests : r.user # b.user
    /\ \A c \in Conditionals : c.user # b.user
    /\ \A s \in Starts : b.user \notin DOMAIN s.positions

\* The orders of the bracket's group, whoever placed them.
Legs == {id \in DOMAIN orders : Key(orders[id]) = <<bracket.req.user, bracket.req.group>>}
DormantLegs ==
  {id \in DOMAIN dormant : Key(dormant[id]) = <<bracket.req.user, bracket.req.group>>}

\* For a trader who trades by the bracket alone, but may amend and cancel its
\* legs: whatever fills, triggers or is liquidated between the route's commands,
\* the legs and the emergency close together never take back more than the entry
\* bought, so the position never turns around.  When the bracket failed, the two
\* orders that the route placed are gone and no stop waits, and when it was
\* reported flattened no order of the group is left at all, an amended one
\* included (orders.ts:240-242, 246-283).
BracketContained ==
  bracket.req # NoOrder =>
    /\ SizesOf(positions)[bracket.req.user] * Dir(bracket.req.side)
         \in 0..bracket.filled
    /\ bracket.step \in {"flattened", "exposed"} =>
         bracket.legs \cap Live = {} /\ DormantLegs = {}
    /\ bracket.step = "flattened" => Legs = {}

\* "If either protective leg was rejected, cancel any leg that did rest and
\* flatten the just-opened entry" (orders.ts:240-242): no order of the group
\* survives a bracket that failed.
NoLegSurvives ==
  bracket.step \in {"flattened", "exposed"} => Legs \cup DormantLegs = {}

\* "A bracket must never leave a position silently unprotected" (orders.ts:240-241):
\* a stop-loss command that ends without a refusal, after a take-profit without
\* one, leaves the stop in place or no position.
NeverSilentlyUnprotected ==
  [][bracket'.step = "stopLoss" /\ ~bracket'.running
       /\ (bracket.running \/ bracket.step = "takeProfit")
       /\ bracket'.refused = {} =>
       \/ SizesOf(positions')[bracket.req.user] = 0
       \/ DormantLegs' # {}]_bvars

\* The emergency close "sweeps all available opposite liquidity" (orders.ts:246-248):
\* a position it leaves open leaves nothing it could have traded with.
FlattenSweeps ==
  [][bracket.step = "flatten" /\ bracket.running /\ ~bracket'.running =>
       \/ SizesOf(positions')[bracket.req.user] = 0
       \/ book'[bracket.req.side] = <<>>]_bvars
=============================================================================
