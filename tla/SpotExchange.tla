---------------------------- MODULE SpotExchange ----------------------------
(***************************************************************************)
(* The spot half of the matching engine, packages/engine/src: submitOrder, *)
(* matchOrder, settleSpotFill, cancelOrder, amendOrder, deposit and        *)
(* withdraw of exchange.ts on one spot market, over the ledger of          *)
(* ledger.ts and the price-time book of orderbook.ts.                      *)
(*                                                                         *)
(* The engine is synchronous: a handler runs to its end before another     *)
(* starts.  submitOrder is modelled by the steps of its loop, with the     *)
(* order being matched in `taker` and `pc` saying where the handler is, so *)
(* that the invariants are checked after every single fill as well as      *)
(* between operations.  Nothing but the next step of the handler is        *)
(* enabled until it is back to "idle".  Orders here carry no trigger and   *)
(* no OCO group.                                                           *)
(***************************************************************************)
EXTENDS OrderBook

CONSTANTS Users, FEE,               \* traders, and FEE_ACCOUNT
          NoOrder, NoCid,           \* "null"
          MakerFeeBps, TakerFeeBps,
          Requests,                 \* the order requests that may arrive
          Amendments,               \* the [price, qty] an amend may ask for
          Transfers,                \* the [user, asset, amount] that may move
          StartBalance,             \* what earlier deposits left: user -> asset
          MaxOrders, MaxSupply      \* bounds of the model

Assets == {"base", "quote"}
Accounts == Users \cup {FEE}

ASSUME SpotAssumption ==
  /\ FEE \notin Users /\ IsFiniteSet(Users)
  /\ MakerFeeBps \in 0..BPS /\ TakerFeeBps \in 0..BPS
  /\ MakerFeeBps <= TakerFeeBps
  /\ \A r \in Requests :
       /\ r.user \in Users /\ r.side \in Sides
       /\ r.type \in {"limit", "market"} /\ r.tif \in {"GTC", "IOC", "FOK"}
       /\ r.price \in Nat /\ r.qty \in Nat /\ r.postOnly \in BOOLEAN
  /\ \A a \in Amendments : a.price \in Nat /\ a.qty \in Nat
  /\ \A t \in Transfers :
       t.user \in Users /\ t.asset \in Assets /\ t.amount \in Nat \ {0}
  /\ StartBalance \in [Users -> [Assets -> Nat]]
  /\ MaxOrders \in Nat /\ MaxSupply \in Nat

VARIABLES
  available, locked,  \* the ledger: account -> asset -> units
  orders,             \* live (resting) orders, by id
  book,               \* side -> ids, best level first, FIFO inside a level
  nextId,             \* the id the next accepted order gets (its seq)
  pc,                 \* "idle", "match" (matchOrder's loop) or "amend"
  taker,              \* the order being matched, or NoOrder
  pending,            \* the replacement an amend is about to submit
  answer,             \* what the last submitOrder answered
  supply              \* history: net deposits of each asset since Init

vars == <<available, locked, orders, book, nextId, pc, taker, pending,
          answer, supply>>
ledger == <<available, locked>>

-----------------------------------------------------------------------------
(* Orders and the book.                                                    *)

\* One column of one ledger row moves by n.
Credit(rows, user, asset, n) == [rows EXCEPT ![user][asset] = @ + n]
Spend(rows, user, asset, n) == [rows EXCEPT ![user][asset] = @ - n]

LockAsset(side) == IF side = "buy" THEN "quote" ELSE "base"

LockFor(o) ==
  IF o.side = "buy" THEN SpotBuyLock(o.price, Rem(o), TakerFeeBps) ELSE Rem(o)

HasOpposite == book[Opposite(taker.side)] # <<>>
BestMaker == orders[Head(book[Opposite(taker.side)])]

CanMatch_evenWhenFilled ==
  /\ pc = "match"
  /\ HasOpposite
  /\ InBound(taker.side, BestMaker.price, taker.price)

\* The condition of matchOrder's loop.
CanMatch ==
  /\ pc = "match"
  /\ Rem(taker) > 0
  /\ HasOpposite
  /\ InBound(taker.side, BestMaker.price, taker.price)

-----------------------------------------------------------------------------
(* submitOrder up to acceptance.                                           *)

\* simulateFillable on a spot market: other users' resting quantity in bound.
Fillable(req) ==
  MapThenSumSet(LAMBDA id : Rem(orders[id]),
    {id \in DOMAIN orders :
       /\ orders[id].side = Opposite(req.side)
       /\ orders[id].user # req.user
       /\ InBound(req.side, orders[id].price, req.price)})

CidInUse(req) ==
  /\ req.cid # NoCid
  /\ \E id \in DOMAIN orders :
       orders[id].user = req.user /\ orders[id].cid = req.cid

OrderOf(req) ==
  [id |-> nextId, user |-> req.user, side |-> req.side, type |-> req.type,
   price |-> req.price, qty |-> req.qty, filled |-> 0, tif |-> req.tif,
   postOnly |-> req.postOnly, cid |-> req.cid,
   lock |-> LockFor([side |-> req.side, price |-> req.price,
                     qty |-> req.qty, filled |-> 0])]

CanAfford(req) ==
  available[req.user][LockAsset(req.side)] >= OrderOf(req).lock

Acceptable(req) ==
  /\ req.type = "market" => ~req.postOnly /\ req.tif # "GTC"
  /\ ~CidInUse(req)
  /\ ValidSize(req.price, req.qty)
  /\ CanAfford(req)
  /\ req.postOnly => ~Crosses(req.side, req.price, orders, book)
  /\ req.tif = "FOK" => Fillable(req) >= req.qty

\* The request submitOrder is called with: one that arrives, or the
\* replacement built by the amend that is under way.
Incoming == CASE pc = "idle"  -> Requests
              [] pc = "amend" -> {pending}
              [] OTHER        -> {}

Reject(req) ==
  /\ ~Acceptable(req)
  /\ pc' = "idle" /\ answer' = "rejected" /\ pending' = NoOrder
  /\ UNCHANGED <<ledger, orders, book, nextId, taker, supply>>

Accept(req) ==
  LET o == OrderOf(req) IN
  /\ Acceptable(req)
  /\ nextId <= MaxOrders
  /\ nextId' = nextId + 1
  /\ taker' = o
  /\ available' = Spend(available, o.user, LockAsset(o.side), o.lock)
  /\ locked' = Credit(locked, o.user, LockAsset(o.side), o.lock)
  /\ pc' = "match" /\ answer' = "accepted" /\ pending' = NoOrder
  /\ UNCHANGED <<orders, book, supply>>

SubmitOrder == \E req \in Incoming : Reject(req) \/ Accept(req)

-----------------------------------------------------------------------------
(* matchOrder: one maker per step.                                         *)

Unlock_forgotten(o) == UNCHANGED ledger

\* cancelInternal's refund of whatever the order still holds.
Unlock(o) ==
  /\ available' = Credit(available, o.user, LockAsset(o.side), o.lock)
  /\ locked' = Spend(locked, o.user, LockAsset(o.side), o.lock)

Unrest_ofIndexOnly(o) ==
  /\ orders' = [id \in DOMAIN orders \ {o.id} |-> orders[id]]
  /\ UNCHANGED book

\* An order leaves the book and every index of live orders.
Unrest(o) ==
  /\ orders' = [id \in DOMAIN orders \ {o.id} |-> orders[id]]
  /\ book' = [book EXCEPT ![o.side] = WithoutId(@, o.id)]

CancelResting(o) == Unrest(o) /\ Unlock(o)

SelfTrade == CanMatch /\ BestMaker.user = taker.user
WillFill == CanMatch /\ BestMaker.user # taker.user

CancelOwnMaker ==
  /\ SelfTrade
  /\ CancelResting(BestMaker)
  /\ UNCHANGED <<nextId, pc, taker, pending, answer, supply>>

AfterFill_keepsReserve(o, q) ==
  LET f == [o EXCEPT !.filled = @ + q]
  IN  [f EXCEPT !.lock = IF o.side = "buy"
                         THEN o.lock - MulUnits(o.price, q) ELSE o.lock - q]

\* settleSpotFill's bookkeeping on one order: a buy keeps exactly the lock of
\* what remains, a sell delivers q of the base it had locked.
AfterFill(o, q) ==
  LET f == [o EXCEPT !.filled = @ + q]
  IN  [f EXCEPT !.lock = IF o.side = "buy" THEN LockFor(f) ELSE o.lock - q]

FillQty == MinBig(Rem(taker), Rem(BestMaker))
FillNotional == MulUnits(BestMaker.price, FillQty)
Buyer == IF taker.side = "buy" THEN taker ELSE BestMaker
Seller == IF taker.side = "buy" THEN BestMaker ELSE taker
BuyerBps == IF taker.side = "buy" THEN TakerFeeBps ELSE MakerFeeBps
SellerBps == IF taker.side = "buy" THEN MakerFeeBps ELSE TakerFeeBps

\* What this fill frees of the buyer's lock.
BuyBudget == Buyer.lock - AfterFill(Buyer, FillQty).lock
BuyFee == MinBig(FeeOn(FillNotional, BuyerBps), BuyBudget - FillNotional)
SellFee == MinBig(FeeOn(FillNotional, SellerBps), FillNotional)

Refund_atLimitPrice == MulUnits(Buyer.price, FillQty) - FillNotional
Refund == BuyBudget - FillNotional - BuyFee

SettleSpotFill ==
  LET refunded == Credit(available, Buyer.user, "quote", Refund)
      bought   == Credit(refunded, Buyer.user, "base", FillQty)
      sold     == Credit(bought, Seller.user, "quote", FillNotional - SellFee)
  IN  /\ available' = Credit(sold, FEE, "quote", BuyFee + SellFee)
      /\ locked' = Spend(Spend(locked, Buyer.user, "quote", BuyBudget),
                         Seller.user, "base", FillQty)

ExecuteFill ==
  LET maker == AfterFill(BestMaker, FillQty) IN
  /\ WillFill
  /\ SettleSpotFill
  /\ taker' = AfterFill(taker, FillQty)
  /\ IF Rem(maker) = 0
     THEN Unrest(BestMaker)
     ELSE orders' = [orders EXCEPT ![maker.id] = maker] /\ UNCHANGED book
  /\ UNCHANGED <<nextId, pc, pending, answer, supply>>

-----------------------------------------------------------------------------
(* submitOrder after the loop.                                             *)

Rests(o) == o.type = "limit" /\ o.tif # "IOC"

FinishFilled ==
  /\ Rem(taker) = 0
  /\ UNCHANGED <<ledger, orders, book>>

\* The remainder of a market or IOC order is cancelled.
FinishCancelled ==
  /\ Rem(taker) > 0 /\ ~Rests(taker)
  /\ Unlock(taker)
  /\ UNCHANGED <<orders, book>>

FinishResting ==
  /\ Rem(taker) > 0 /\ Rests(taker)
  /\ \E k \in 0..Len(book[taker.side]) :
       /\ InsertPosition(taker.side, taker, orders, book[taker.side], k)
       /\ book' = [book EXCEPT ![taker.side] = InsertAt(@, k + 1, taker.id)]
  /\ orders' = WithOrder(orders, taker)
  /\ UNCHANGED ledger

FinishSubmit ==
  /\ pc = "match" /\ ~CanMatch
  /\ FinishFilled \/ FinishCancelled \/ FinishResting
  /\ pc' = "idle" /\ taker' = NoOrder
  /\ UNCHANGED <<nextId, pending, answer, supply>>

MatchOrder == CancelOwnMaker \/ ExecuteFill

-----------------------------------------------------------------------------
(* The other handlers.                                                     *)

CancelOrder(id) ==
  /\ pc = "idle"
  /\ CancelResting(orders[id])
  /\ UNCHANGED <<nextId, pc, taker, pending, answer, supply>>

\* amendOrder: pre-validated, then cancelled, then submitted as a new order.
Replacement(o, ch) ==
  [user |-> o.user, side |-> o.side, type |-> "limit", price |-> ch.price,
   qty |-> ch.qty, tif |-> "GTC", postOnly |-> FALSE, cid |-> NoCid]

AmendAffordable_atOldPrice(o, ch) ==
  available[o.user][LockAsset(o.side)] + o.lock
    >= OrderOf(Replacement(o, [ch EXCEPT !.price = o.price])).lock

AmendAffordable(o, ch) ==
  available[o.user][LockAsset(o.side)] + o.lock
    >= OrderOf(Replacement(o, ch)).lock

AmendOrder(id, ch) ==
  LET o == orders[id] IN
  /\ pc = "idle" /\ nextId <= MaxOrders
  /\ o.type = "limit" /\ o.tif = "GTC" /\ ~o.postOnly
  /\ ValidSize(ch.price, ch.qty)
  /\ AmendAffordable(o, ch)
  /\ CancelResting(o)
  /\ pc' = "amend" /\ pending' = Replacement(o, ch)
  /\ UNCHANGED <<nextId, taker, answer, supply>>

Deposit(t) ==
  /\ pc = "idle" /\ supply[t.asset] + t.amount <= MaxSupply
  /\ available' = Credit(available, t.user, t.asset, t.amount)
  /\ supply' = [supply EXCEPT ![t.asset] = @ + t.amount]
  /\ UNCHANGED <<locked, orders, book, nextId, pc, taker, pending, answer>>

Withdraw(t) ==
  /\ pc = "idle" /\ available[t.user][t.asset] >= t.amount
  /\ available' = Spend(available, t.user, t.asset, t.amount)
  /\ supply' = [supply EXCEPT ![t.asset] = @ - t.amount]
  /\ UNCHANGED <<locked, orders, book, nextId, pc, taker, pending, answer>>

Init ==
  /\ available = [u \in Accounts |-> [a \in Assets |->
                    IF u = FEE THEN 0 ELSE StartBalance[u][a]]]
  /\ locked = [u \in Accounts |-> [a \in Assets |-> 0]]
  /\ orders = [id \in {} |-> NoOrder]
  /\ book = [s \in Sides |-> <<>>]
  /\ nextId = 1
  /\ pc = "idle" /\ taker = NoOrder /\ pending = NoOrder /\ answer = "none"
  /\ supply = [a \in Assets |-> 0]

Handler == SubmitOrder \/ MatchOrder \/ FinishSubmit

Next ==
  \/ SubmitOrder
  \/ MatchOrder
  \/ FinishSubmit
  \/ \E id \in DOMAIN orders : CancelOrder(id)
  \/ \E id \in DOMAIN orders, ch \in Amendments : AmendOrder(id, ch)
  \/ \E t \in Transfers : Deposit(t) \/ Withdraw(t)

\* A handler that has started runs to its end: nothing in it waits.
Spec == Init /\ [][Next]_vars /\ WF_vars(pc # "idle" /\ Handler)
-----------------------------------------------------------------------------
(* restoreState: locks recomputed from what remains, each order put back   *)
(* into an empty book in seq order.                                        *)

RestoredOrders_lockOfWholeQty ==
  [id \in DOMAIN orders |->
     [orders[id] EXCEPT !.lock = LockFor([orders[id] EXCEPT !.filled = 0])]]

RestoredOrders ==
  [id \in DOMAIN orders |-> [orders[id] EXCEPT !.lock = LockFor(orders[id])]]

-----------------------------------------------------------------------------
(* Properties.                                                             *)

Order ==
  [id : Nat \ {0}, user : Users, side : Sides, type : {"limit", "market"},
   price : Nat, qty : Nat, filled : Nat, tif : {"GTC", "IOC", "FOK"},
   postOnly : BOOLEAN, cid : {r.cid : r \in Requests} \cup {NoCid}, lock : Int]

Replacements ==
  [user : Users, side : Sides, type : {"limit"}, price : Nat, qty : Nat,
   tif : {"GTC"}, postOnly : {FALSE}, cid : {NoCid}]

\* The shape of the engine's state.
TypeOK ==
  /\ available \in [Accounts -> [Assets -> Int]]
  /\ locked \in [Accounts -> [Assets -> Int]]
  /\ nextId \in Nat \ {0}
  /\ DOMAIN orders \subseteq 1..nextId - 1
  /\ \A id \in DOMAIN orders : orders[id] \in Order /\ orders[id].id = id
  /\ book \in [Sides -> Seq(DOMAIN orders)]
  /\ pc \in {"idle", "match", "amend"}
  /\ IF pc = "match" THEN taker \in Order /\ taker.id = nextId - 1
                     ELSE taker = NoOrder
  /\ IF pc = "amend" THEN pending \in Replacements ELSE pending = NoOrder
  /\ answer \in {"none", "accepted", "rejected"}
  /\ supply \in [Assets -> Int]

InFlight == IF pc = "match" THEN {taker} ELSE {}
LiveOrders == {orders[id] : id \in DOMAIN orders} \cup InFlight

\* The live orders that hold the locked part of u's column a.
LockedBy(u, a) == {o \in LiveOrders : o.user = u /\ LockAsset(o.side) = a}

\* Money is conserved exactly, after every fill and not only between
\* operations: what the traders and the fee account hold, free or locked, is
\* what was deposited minus what was withdrawn (ARCHITECTURE.md:137,
\* "Conservation invariant").
Conservation ==
  \A a \in Assets :
    SumFunction([u \in Accounts |-> available[u][a] + locked[u][a]])
      = SumFunction([u \in Users |-> StartBalance[u][a]]) + supply[a]

\* Every locked unit belongs to a live order and every live order's lock is
\* really in its owner's locked bucket, so that no fill, cancel or withdraw
\* can make ledger.ts's check throw.
LocksBacked ==
  \A u \in Accounts, a \in Assets :
    /\ available[u][a] >= 0
    /\ locked[u][a] = SumFunction([o \in LockedBy(u, a) |-> o.lock])

\* The book indexes exactly the live orders and is in price-time order: a
\* better price first, the earlier order first at one price.
BookInOrder ==
  /\ \A s \in Sides : PriceTime(s, book[s], orders)
  /\ \A id \in DOMAIN orders : \E i \in DOMAIN book[orders[id].side] :
       book[orders[id].side][i] = id

\* No resting bid meets a resting ask, in the middle of a match either.
Uncrossed ==
  \A b, s \in DOMAIN orders :
    orders[b].side = "buy" /\ orders[s].side = "sell"
      => orders[b].price < orders[s].price

\* A restart rebuilds the engine it replaces: restoreState's recomputed locks
\* are the live locks to the unit and its book has the same queues
\* (locks.ts:2-4).
RestoreExact ==
  pc = "idle" => RestoredOrders = orders /\ BookOf(RestoredOrders) = book

\* A fill pays the buyer's counterparty from the slice of lock it frees
\* ("spot buy lock underflow" is never thrown), and the clamp on the buyer's fee costs the
\* house at most one unit.
FeeFloor ==
  WillFill =>
    /\ BuyBudget >= FillNotional
    /\ BuyFee + SellFee >= FeeOn(FillNotional, TakerFeeBps)
                            + FeeOn(FillNotional, MakerFeeBps) - 1

\* An amend that passed its own validation never loses the order: submitOrder
\* accepts the replacement (exchange.ts:1134-1142).
AmendKeepsOrder == [][pc = "amend" => pc' = "match"]_vars

\* The matching loop ends: every fill or self-trade cancel makes progress.
MatchingEnds == (pc # "idle") ~> (pc = "idle")
=============================================================================
