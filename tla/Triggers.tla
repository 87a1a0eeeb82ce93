------------------------------ MODULE Triggers ------------------------------
(***************************************************************************)
(* The conditional and one-cancels-other orders of                         *)
(* packages/engine/src/exchange.ts on top of PerpExchange:                 *)
(* placeConditional, activateTriggers with its trailing stops, registerOco,*)
(* unregisterOco and enforceOco.  Every operation that PerpExchange models *)
(* and that touches an order is wrapped here by what it does to the OCO    *)
(* index; funding, leverage changes and transfers touch neither index nor  *)
(* triggers and stay in PerpExchange.                                      *)
(*                                                                         *)
(* setMarkPrice and placeConditional end in activateTriggers: it takes the *)
(* list `due` at once and then submits the activations one by one, each a  *)
(* whole submitOrder with its fills and its enforceOco.  Until the list is *)
(* empty no other operation begins (Idle).                                 *)
(***************************************************************************)
EXTENDS PerpExchange

CONSTANT Conditionals  \* stop and take-profit requests; price 0 is no price

ASSUME TriggersAssumption ==
  \A c \in Conditionals :
    /\ c.user \in Users /\ c.side \in Sides
    /\ c.type \in {"limit", "market"} /\ c.tif \in {"GTC", "IOC", "FOK"}
    /\ c.price \in Nat /\ c.qty \in Nat
    /\ c.postOnly \in BOOLEAN /\ c.reduceOnly \in BOOLEAN
    /\ c.oco \in Groups \cup {NoGroup}
    /\ c.trigger \in [price : Nat, trail : Nat, direction : {"above", "below"}]

VARIABLES
  dormant,   \* conditionalOrders: id -> untriggered order
  groups,    \* ocoMembers: <<user, label>> -> ids, empty when there is none
  due,       \* activateTriggers' list, what is left of it
  traded,    \* the OCO orders in the trades of the submitOrder under way
  outlived   \* history: unfilled orders of a group when another one traded

tvars == <<vars, dormant, groups, due, traded, outlived>>

\* No operation is under way.
Idle == pc = "idle" /\ traded = {} /\ due = <<>>

Keys == Users \X Groups
Key(o) == <<o.user, o.oco>>

\* Bound: an id is kept in reserve for the activation of each dormant order.
Room(n) == nextId + Cardinality(DOMAIN dormant) + n - 1 <= MaxOrders

-----------------------------------------------------------------------------
(* The OCO index.                                                          *)

Registered(index, o) ==
  IF o.oco = NoGroup THEN index ELSE [index EXCEPT ![Key(o)] = @ \cup {o.id}]

Unregistered_never(index, ids) == index

\* unregisterOco, on whatever way an order ends.
Unregistered(index, ids) == [k \in Keys |-> index[k] \ ids]

RetireGone == groups' = Unregistered(groups, DOMAIN orders \ DOMAIN orders')

TradedIds == {t.id : t \in traded}
TradedKeys == {Key(t) : t \in traded}

\* The members of the groups that traded, except those that traded themselves.
Losers == (UNION {groups[k] : k \in TradedKeys}) \ TradedIds

\* enforceOco: they are cancelled, resting or dormant, and the group dissolved.
EnforceOco ==
  /\ pc = "idle" /\ traded # {}
  /\ Becomes(Cancelled(Engine, Losers \cap DOMAIN orders))
  /\ dormant' = Without(dormant, Losers)
  /\ groups' = [k \in Keys |-> IF k \in TradedKeys THEN {} ELSE groups[k]]
  /\ traded' = {}
  /\ UNCHANGED <<nextId, pc, taker, pending, sweep, settings, history, due,
                 outlived>>

-----------------------------------------------------------------------------
(* Triggers.                                                               *)

FloorTick(p) == TickSize * DivFloor(p, TickSize)
CeilTick(p) == TickSize * DivCeil(p, TickSize)

Hit(o, m) ==
  IF o.trigger.direction = "above" THEN m >= o.trigger.price
                                   ELSE m <= o.trigger.price

\* Where a trailing stop stands `trail` away from price m.
TrailedFrom(trigger, m) ==
  IF trigger.direction = "below" THEN FloorTick(m - trigger.trail)
                                 ELSE CeilTick(m + trigger.trail)

Ratcheted_bothWays(o, m) ==
  LET next == TrailedFrom(o.trigger, m) IN
  IF o.trigger.trail > 0 /\ next > 0
  THEN [o EXCEPT !.trigger.price = next] ELSE o

\* A trailing stop follows the price when that takes it away from firing.
Ratcheted(o, m) ==
  LET next == TrailedFrom(o.trigger, m)
      improved == IF o.trigger.direction = "below" THEN next > o.trigger.price
                                                   ELSE next < o.trigger.price
  IN  IF o.trigger.trail > 0 /\ improved /\ next > 0
      THEN [o EXCEPT !.trigger.price = next] ELSE o

DueIn_belowOnly(held, m) ==
  LET hit == {id \in DOMAIN held :
                Hit(held[id], m) /\ held[id].trigger.direction = "below"}
  IN  [i \in 1..Cardinality(hit) |-> held[Ascending(hit)[i]]]

\* The orders whose trigger m has reached, in placement order.
DueIn(held, m) ==
  LET ids == Ascending({id \in DOMAIN held : Hit(held[id], m)})
  IN  [i \in DOMAIN ids |-> held[ids[i]]]

\* The head of activateTriggers: ratchet, then list what fires.
ActivateTriggers(held, m) ==
  LET moved == [id \in DOMAIN held |-> Ratcheted(held[id], m)]
  IN  dormant' = moved /\ due' = DueIn(moved, m)

\* The trigger price, seeded `trail` away from the mark where none is given.
TriggerPrice(c) ==
  IF c.trigger.trail > 0 /\ c.trigger.price = 0
  THEN TrailedFrom(c.trigger, mark) ELSE c.trigger.price

ConditionalValid(c) ==
  /\ c.trigger.trail % TickSize = 0 /\ (c.trigger.trail > 0 => mark # 0)
  /\ TriggerPrice(c) > 0 /\ TriggerPrice(c) % TickSize = 0
  /\ c.type = "limit" => c.price # 0
  /\ c.type = "market" => ~c.postOnly /\ c.tif # "GTC"
  /\ c.qty > 0 /\ c.qty % LotSize = 0
  /\ c.price # 0 => ValidSize(c.price, c.qty)

Placed(c) ==
  [id |-> nextId, user |-> c.user, side |-> c.side, type |-> c.type,
   price |-> c.price, qty |-> c.qty, tif |-> c.tif, postOnly |-> c.postOnly,
   reduceOnly |-> c.reduceOnly, oco |-> c.oco,
   trigger |-> [c.trigger EXCEPT !.price = TriggerPrice(c)]]

\* Neither margin nor the reduce-only rule is looked at before activation; a
\* trigger that the mark has already reached fires at once.
PlaceConditional(c) ==
  /\ Idle /\ Room(2) /\ ConditionalValid(c)
  /\ nextId' = nextId + 1
  /\ groups' = Registered(groups, Placed(c))
  /\ IF mark = 0
     THEN dormant' = WithOrder(dormant, Placed(c)) /\ UNCHANGED due
     ELSE ActivateTriggers(WithOrder(dormant, Placed(c)), mark)
  /\ UNCHANGED <<ledger, positions, orders, book, pc, taker, pending, sweep,
                 settings, history, traded, outlived>>

CancelDormant(id) ==
  /\ Idle
  /\ dormant' = Without(dormant, {id})
  /\ groups' = Unregistered(groups, {id})
  /\ UNCHANGED <<vars, due, traded, outlived>>

\* The worst price of a stop-market order without one, from the live book.
DerivedBound(side) ==
  LET best == orders[Head(book[Opposite(side)])].price
  IN  IF side = "buy" THEN CeilTick((best * 105) \div 100)
                      ELSE FloorTick((best * 95) \div 100)

NeedsBook(o) == o.type = "market" /\ o.price = 0

Activation(o) ==
  [user |-> o.user, side |-> o.side, type |-> o.type,
   price |-> IF NeedsBook(o) THEN DerivedBound(o.side) ELSE o.price,
   qty |-> o.qty, tif |-> o.tif, postOnly |-> o.postOnly,
   reduceOnly |-> o.reduceOnly, oco |-> o.oco]

StillDormant_unchecked(o) == TRUE

\* An activation before this one may have cancelled it.
StillDormant(o) == o.id \in DOMAIN dormant

FireSkips ==
  /\ ~StillDormant(Head(due))
  /\ UNCHANGED <<pc, pending, dormant, groups>>

\* A stop-market order that meets an empty book is dropped.
FireDrops ==
  LET o == Head(due) IN
  /\ StillDormant(o) /\ NeedsBook(o) /\ book[Opposite(o.side)] = <<>>
  /\ dormant' = Without(dormant, {o.id})
  /\ groups' = Unregistered(groups, {o.id})
  /\ UNCHANGED <<pc, pending>>

FireSubmits ==
  LET o == Head(due) IN
  /\ StillDormant(o) /\ ~(NeedsBook(o) /\ book[Opposite(o.side)] = <<>>)
  /\ dormant' = Without(dormant, {o.id})
  /\ groups' = Unregistered(groups, {o.id})
  /\ pc' = "submit" /\ pending' = Activation(o)

\* One turn of activateTriggers' loop.
Fire ==
  /\ pc = "idle" /\ traded = {} /\ due # <<>>
  /\ FireSkips \/ FireDrops \/ FireSubmits
  /\ due' = Tail(due)
  /\ UNCHANGED <<ledger, positions, orders, book, nextId, taker, sweep,
                 settings, history, traded, outlived>>

-----------------------------------------------------------------------------
(* The operations of PerpExchange.                                         *)

SubmitOrUpdate ==
  /\ pc = "idle" => Idle
  /\ \E req \in Incoming :
       \/ Reject(req)
       \/ (pc = "idle" => Room(1)) /\ Accept(req)
  /\ UNCHANGED <<dormant, groups, due, traded, outlived>>

Match ==
  /\ MatchOrder
  /\ RetireGone
  /\ traded' = IF taker'.filled = taker.filled THEN traded
               ELSE traded \cup {[id |-> o.id, user |-> o.user, oco |-> o.oco] :
                                   o \in {x \in {taker, BestMaker} :
                                            x.oco # NoGroup}}
  /\ UNCHANGED <<dormant, due, outlived>>

\* The unfilled orders, resting or dormant, that share a group which traded.
Rivals(live) ==
  {id \in DOMAIN live \ TradedIds :
     live[id].filled = 0 /\ Key(live[id]) \in TradedKeys}
  \cup {id \in DOMAIN dormant : Key(dormant[id]) \in TradedKeys}

Finish ==
  /\ FinishSubmit
  /\ groups' = IF taker.id \in DOMAIN orders' THEN Registered(groups, taker)
                                              ELSE groups
  /\ outlived' = outlived \cup Rivals(orders')
  /\ UNCHANGED <<dormant, due, traded>>

CancelResting(id) ==
  /\ Idle /\ CancelOrder(id)
  /\ RetireGone
  /\ UNCHANGED <<dormant, due, traded, outlived>>

Amend(id, ch) ==
  /\ Idle /\ Room(1) /\ AmendOrder(id, ch)
  /\ RetireGone
  /\ UNCHANGED <<dormant, due, traded, outlived>>

Mark(m) ==
  /\ Idle /\ SetMarkPrice(m)
  /\ UNCHANGED <<dormant, groups, due, traded, outlived>>

SweepOne ==
  /\ PassHealthy \/ Liquidate
  /\ RetireGone
  /\ UNCHANGED <<dormant, due, traded, outlived>>

\* setMarkPrice goes on to the triggers.
SweepDone ==
  /\ FinishSweep
  /\ ActivateTriggers(dormant, mark)
  /\ UNCHANGED <<groups, traded, outlived>>

TInit ==
  /\ Init
  /\ dormant = [id \in {} |-> NoOrder]
  /\ groups = [k \in Keys |-> {}]
  /\ due = <<>> /\ traded = {} /\ outlived = {}

TNext ==
  \/ SubmitOrUpdate \/ Match \/ Finish \/ EnforceOco
  \/ \E c \in Conditionals : PlaceConditional(c)
  \/ \E id \in DOMAIN dormant : CancelDormant(id)
  \/ \E id \in DOMAIN orders : CancelResting(id)
  \/ \E id \in DOMAIN orders, ch \in Amendments : Amend(id, ch)
  \/ \E m \in Marks : Mark(m)
  \/ SweepOne \/ SweepDone \/ Fire

TSpec == TInit /\ [][TNext]_tvars

-----------------------------------------------------------------------------
(* Properties.                                                             *)

\* The shape of the index and of the dormant orders.
TriggersTypeOK ==
  /\ \A id \in DOMAIN dormant :
       LET o == dormant[id] IN
       /\ o.id = id /\ id < nextId /\ id \notin DOMAIN orders
       /\ o.trigger.price \in Nat \ {0} /\ o.oco \in Groups \cup {NoGroup}
  /\ groups \in [Keys -> SUBSET (1..MaxOrders)]
  /\ due # <<>> => pc # "sweep" /\ mark # 0
  /\ pc \in {"submit", "sweep"} => traded = {}

Live == DOMAIN orders \cup DOMAIN dormant

\* Between operations the OCO index (exchange.ts:76-77) holds every live unfilled
\* order of a group and no order that has ended, however it ended: filled,
\* cancelled, trimmed, amended, liquidated, triggered or dropped.
OcoIndexExact ==
  Idle => \A k \in Keys :
    /\ groups[k] \subseteq Live
    /\ {id \in DOMAIN dormant : Key(dormant[id]) = k} \subseteq groups[k]
    /\ {id \in DOMAIN orders : Key(orders[id]) = k /\ orders[id].filled = 0}
         \subseteq groups[k]

\* Once an order of a group has traded, no other unfilled order of the group
\* is live at the end of the operation or is ever activated, not even one that
\* was already on the list of due triggers (exchange.ts:594-597).
LosersOut ==
  [][/\ Idle' => outlived' \cap (DOMAIN orders' \cup DOMAIN dormant') = {}
     /\ pc = "idle" /\ pc' = "submit" /\ due # <<>> =>
          Head(due).id \notin outlived]_tvars

\* Between operations no dormant order's trigger is reached by the mark, although
\* activations trade and cancel while the list is worked off.
NoTriggerMissed ==
  Idle /\ mark # 0 => \A id \in DOMAIN dormant : ~Hit(dormant[id], mark)

\* A trailing stop only ever moves away from firing, and one that moves does not
\* fire on the same price (exchange.ts:565-568).
StopsOnlyTighten ==
  [][\A id \in DOMAIN dormant \cap DOMAIN dormant' :
       LET was == dormant[id].trigger
           now == dormant'[id].trigger
       IN  was # now =>
             /\ was.trail > 0
             /\ IF was.direction = "below" THEN now.price > was.price
                                           ELSE now.price < was.price
             /\ \A i \in DOMAIN due' : due'[i].id # id]_tvars

\* "When any order sharing this group fills, the others cancel" (types.ts:62):
\* no two orders of one group trade in one operation.
OneOfGroup == \A s, t \in traded : Key(s) = Key(t) => s.id = t.id

\* A bracket's two legs "never double-count against the position's reduce-only
\* budget" (orders.ts:218-219): a reduce-only leg that its trigger activates is
\* not refused for the quantity of its own sibling.
LegsNeverDoubleCount ==
  LET siblings == groups[Key(pending)] \cap DOMAIN orders
      counted == QtyOf(orders, siblings)
  IN  pc = "submit" /\ pending.reduceOnly /\ pending.oco # NoGroup =>
        (pending.qty + OpenReduceOnlyQty(pending.user) - counted
           <= Closable(SizesOf(positions)[pending.user], pending.side)
         => FitsPosition(pending))
=============================================================================
