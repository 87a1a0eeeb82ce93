------------------------- MODULE SpotExchangeProofs -------------------------
(***************************************************************************)
(* Theorems of the spot exchange, for any users, requests, amendments,     *)
(* prices, scale and fees.                                                 *)
(***************************************************************************)
EXTENDS SpotExchange, BookProofs, ArithmeticProofs

\* An order whose lock is what its remainder needs: why no fill underflows.
Sound(o) == o.filled <= o.qty /\ o.lock = LockFor(o)

\* The inductive invariant.
IInv ==
  /\ TypeOK
  /\ \A s \in Sides : Queue(s, book[s], orders)
  /\ Uncrossed
  /\ \A id \in DOMAIN orders : Sound(orders[id])
  /\ pc = "match" => Sound(taker) /\ \A id \in DOMAIN orders : id < taker.id
  /\ pc = "amend" =>
       /\ \A req \in Incoming : ValidSize(req.price, req.qty) /\ CanAfford(req)
       /\ nextId <= MaxOrders

RequestOK(r) ==
  /\ r.user \in Users /\ r.side \in Sides
  /\ r.type \in {"limit", "market"} /\ r.tif \in {"GTC", "IOC", "FOK"}
  /\ r.price \in Nat /\ r.qty \in Nat /\ r.postOnly \in BOOLEAN
  /\ r.cid \in {x.cid : x \in Requests} \cup {NoCid}

LEMMA FeeConstants ==
  MakerFeeBps \in Nat /\ TakerFeeBps \in Nat /\ MakerFeeBps <= TakerFeeBps
  /\ MakerFeeBps \in 0..BPS /\ TakerFeeBps \in 0..BPS
BY SpotAssumption, FixedPointAssumption

LEMMA LockForNat ==
  ASSUME NEW o, o.price \in Nat, o.qty \in Nat, o.filled \in Nat,
         o.filled <= o.qty
  PROVE  LockFor(o) \in Nat
<1>1. Rem(o) \in Nat
  BY DEF Rem
<1>2. SpotBuyLock(o.price, Rem(o), TakerFeeBps) \in Nat
  BY <1>1, FeeConstants, SpotBuyLockNat
<1> QED BY <1>1, <1>2 DEF LockFor

LEMMA PricedOrders ==
  ASSUME TypeOK
  PROVE  Priced(orders)
<1>1. DOMAIN orders \subseteq Nat
  BY DEF TypeOK
<1>2. \A id \in DOMAIN orders : orders[id].price \in Nat
  BY DEF TypeOK, Order
<1> QED BY <1>1, <1>2 DEF Priced

LEMMA IncomingOK ==
  ASSUME TypeOK, NEW req \in Incoming
  PROVE  RequestOK(req)
<1>1. CASE pc = "idle"
  <2>1. req \in Requests
    BY <1>1 DEF Incoming
  <2>2. req.cid \in {x.cid : x \in Requests} \cup {NoCid}
    BY <2>1
  <2> QED BY <2>1, <2>2, SpotAssumption DEF RequestOK
<1>2. CASE pc = "amend"
  <2>1. req \in Replacements
    BY <1>2 DEF Incoming, TypeOK
  <2>2. /\ req.user \in Users /\ req.side \in Sides /\ req.type = "limit"
        /\ req.price \in Nat /\ req.qty \in Nat /\ req.tif = "GTC"
        /\ req.postOnly = FALSE /\ req.cid = NoCid
    BY <2>1 DEF Replacements
  <2> QED BY <2>2 DEF RequestOK
<1>3. CASE pc = "match"
  BY <1>3 DEF Incoming
<1> QED BY <1>1, <1>2, <1>3 DEF TypeOK

LEMMA OrderOfFacts ==
  ASSUME TypeOK, NEW req, RequestOK(req)
  PROVE  OrderOf(req) \in Order /\ Sound(OrderOf(req))
<1> DEFINE p == [side |-> req.side, price |-> req.price, qty |-> req.qty,
                 filled |-> 0]
           o == OrderOf(req)
<1>1. LockFor(p) \in Nat
  BY LockForNat DEF RequestOK
<1>2. LockFor(o) = LockFor(p) /\ o.lock = LockFor(p)
  BY DEF LockFor, Rem, OrderOf
<1>3. o \in Order
  BY <1>1 DEF OrderOf, Order, RequestOK, TypeOK
<1>4. o.filled <= o.qty
  BY DEF OrderOf, RequestOK
<1> QED BY <1>2, <1>3, <1>4 DEF Sound

\* What a fill of q leaves of an order.
LEMMA AfterFillFacts ==
  ASSUME NEW o \in Order, Sound(o), NEW q \in Nat, q <= Rem(o)
  PROVE  LET f == AfterFill(o, q)
         IN  /\ f \in Order /\ Sound(f) /\ Rem(f) = Rem(o) - q
             /\ f.id = o.id /\ f.side = o.side /\ f.price = o.price
             /\ f.user = o.user /\ f.cid = o.cid
             /\ o.side = "buy" => f.lock = LockFor(f)
<1> DEFINE g == [o EXCEPT !.filled = @ + q]
           f == AfterFill(o, q)
           l == IF o.side = "buy" THEN LockFor(g) ELSE o.lock - q
<1>1. /\ g.filled = o.filled + q /\ g.qty = o.qty /\ g.price = o.price
      /\ g.side = o.side
      /\ o.filled \in Nat /\ o.qty \in Nat /\ o.price \in Nat /\ o.lock \in Int
      /\ o.side \in {"buy", "sell"}
      /\ o.filled + q <= o.qty /\ Rem(o) \in Nat
  BY DEF Order, Rem, Sound, Sides
<1>2. LockFor(g) \in Nat
  <2>1. g.filled \in Nat
    BY <1>1
  <2> HIDE DEF g
  <2> QED BY <1>1, <2>1, LockForNat
<1>3. f = [g EXCEPT !.lock = l]
  BY DEF AfterFill
<1>4. l \in Int
  BY <1>1, <1>2
<1>5. f \in Order
  <2>1. g \in Order
    BY <1>1 DEF Order
  <2> HIDE DEF g, l
  <2> QED BY <1>3, <1>4, <2>1 DEF Order
<1>6. /\ f.id = o.id /\ f.side = o.side /\ f.price = o.price
      /\ f.user = o.user /\ f.cid = o.cid
      /\ f.qty = o.qty /\ f.filled = o.filled + q /\ f.lock = l
  <2> HIDE DEF l
  <2> QED BY <1>3 DEF Order
<1>7. Rem(f) = Rem(o) - q /\ Rem(g) = Rem(f)
  BY <1>1, <1>6 DEF Rem
<1> HIDE DEF f, g
<1>8. f.lock = LockFor(f)
  <2>1. CASE o.side = "buy"
    BY <2>1, <1>1, <1>6, <1>7 DEF LockFor
  <2>2. CASE o.side = "sell"
    BY <2>2, <1>1, <1>6, <1>7 DEF LockFor, Sound
  <2> QED BY <2>1, <2>2, <1>1
<1> QED BY <1>1, <1>5, <1>6, <1>7, <1>8 DEF Sound, f

-----------------------------------------------------------------------------
(* What the parts of the handlers do.                                      *)

LEMMA LedgerUpdate ==
  ASSUME NEW f \in [Accounts -> [Assets -> Int]],
         NEW u \in Accounts, NEW a \in Assets, NEW n \in Int
  PROVE  /\ Credit(f, u, a, n) \in [Accounts -> [Assets -> Int]]
         /\ Spend(f, u, a, n) \in [Accounts -> [Assets -> Int]]
BY DEF Credit, Spend

LEMMA UnlockType ==
  ASSUME TypeOK, NEW o \in Order, Unlock(o)
  PROVE  /\ available' \in [Accounts -> [Assets -> Int]]
         /\ locked' \in [Accounts -> [Assets -> Int]]
<1>1. o.user \in Accounts /\ LockAsset(o.side) \in Assets /\ o.lock \in Int
  BY DEF Order, Accounts, LockAsset, Assets
<1> QED BY <1>1, LedgerUpdate DEF Unlock, TypeOK

\* Taking an order off the book.
LEMMA UnrestFacts ==
  ASSUME IInv, NEW id \in DOMAIN orders, Unrest(orders[id])
  PROVE  /\ DOMAIN orders' = DOMAIN orders \ {id}
         /\ \A x \in DOMAIN orders' : orders'[x] = orders[x]
         /\ book' \in [Sides -> Seq(DOMAIN orders')]
         /\ \A s \in Sides : Queue(s, book'[s], orders')
         /\ Uncrossed'
<1> DEFINE o == orders[id]
<1>1. o \in Order /\ o.id = id /\ o.side \in Sides /\ DOMAIN book = Sides
  BY DEF IInv, TypeOK, Order
<1>2. /\ orders' = [x \in DOMAIN orders \ {id} |-> orders[x]]
      /\ book' = [book EXCEPT ![o.side] = WithoutId(@, id)]
  BY <1>1 DEF Unrest
<1>3. /\ DOMAIN orders' = DOMAIN orders \ {id}
      /\ \A x \in DOMAIN orders' : orders'[x] = orders[x]
  BY <1>2
<1>4. Priced(orders)
  BY PricedOrders DEF IInv
<1>5. ASSUME NEW s \in Sides PROVE Queue(s, book'[s], orders')
  <2>1. CASE s = o.side
    <3>1. Queue(s, WithoutId(book[s], id),
                [x \in DOMAIN orders \ {id} |-> orders[x]])
      BY <2>1, <1>4, RemoveFromQueue DEF IInv
    <3>2. book'[s] = WithoutId(book[s], id)
      BY <2>1, <1>1, <1>2
    <3> QED BY <3>1, <3>2, <1>2
  <2>2. CASE s # o.side
    <3>1. book'[s] = book[s]
      BY <2>2, <1>1, <1>2
    <3>2. Queue(s, book[s], orders)
      BY DEF IInv
    <3>3. \A x \in DOMAIN orders : orders[x].side = s => x \in DOMAIN orders'
      BY <2>2, <1>3
    <3> HIDE DEF o
    <3>4. Queue(s, book[s], orders')
      BY <3>2, <3>3, <1>3, OtherQueue
    <3> QED BY <3>1, <3>4
  <2> QED BY <2>1, <2>2
<1>6. book' \in [Sides -> Seq(DOMAIN orders')]
  <2>1. DOMAIN book' = Sides /\ book' = [s \in Sides |-> book'[s]]
    BY <1>1, <1>2 DEF IInv, TypeOK
  <2>2. \A s \in Sides : book'[s] \in Seq(DOMAIN orders')
    BY <1>5 DEF Queue
  <2> QED BY <2>1, <2>2
<1>7. Uncrossed'
  BY <1>3 DEF IInv, Uncrossed
<1> QED BY <1>3, <1>5, <1>6, <1>7

\* The maker at the head of the opposite queue.
LEMMA BestMakerFacts ==
  ASSUME IInv, pc = "match", HasOpposite
  PROVE  /\ taker \in Order /\ taker.side \in Sides /\ Sound(taker)
         /\ Opposite(taker.side) \in Sides
         /\ BestMaker.id \in DOMAIN orders
         /\ orders[BestMaker.id] = BestMaker
         /\ BestMaker \in Order /\ Sound(BestMaker)
         /\ BestMaker.side = Opposite(taker.side)
<1> DEFINE s == Opposite(taker.side)  m == Head(book[s])
<1>1. taker \in Order /\ taker.side \in Sides /\ Sound(taker)
  BY DEF IInv, TypeOK, Order
<1>2. s \in Sides
  BY <1>1 DEF Opposite, Sides
<1>3. /\ book[s] \in Seq(DOMAIN orders) /\ book[s] # <<>>
      /\ \A i \in 1..Len(book[s]) : orders[book[s][i]].side = s
  BY <1>2 DEF IInv, Queue, HasOpposite
<1> HIDE DEF s
<1>4. m = book[s][1] /\ 1 \in 1..Len(book[s]) /\ m \in DOMAIN orders
  BY <1>3
<1>5. orders[m].side = s /\ orders[m] \in Order /\ orders[m].id = m
      /\ Sound(orders[m])
  BY <1>3, <1>4 DEF IInv, TypeOK
<1>6. BestMaker = orders[m]
  BY DEF BestMaker, s
<1> HIDE DEF m
<1> QED BY <1>1, <1>2, <1>4, <1>5, <1>6 DEF s

\* The amounts of one fill, and what it frees of the buyer's lock.
LEMMA FillFacts ==
  ASSUME IInv, WillFill
  PROVE  /\ FillQty \in Nat /\ FillQty <= Rem(taker) /\ FillQty <= Rem(BestMaker)
         /\ FillNotional \in Nat
         /\ Buyer \in Order /\ Seller \in Order
         /\ BuyBudget \in Int
         /\ BuyBudget >= FillNotional
         /\ BuyBudget >= FillNotional + FeeOn(FillNotional, TakerFeeBps) - 1
<1> DEFINE q == FillQty  p == BestMaker.price  P == Buyer.price
           rest == Rem(Buyer) - q
<1>1. /\ taker \in Order /\ Sound(taker) /\ taker.side \in Sides
      /\ BestMaker \in Order /\ Sound(BestMaker)
      /\ BestMaker.side = Opposite(taker.side)
  BY BestMakerFacts DEF WillFill, CanMatch
<1>2. /\ Rem(taker) \in Nat /\ Rem(BestMaker) \in Nat
      /\ p \in Nat /\ taker.price \in Nat
  BY <1>1 DEF Rem, Order, Sound
<1>3. q \in Nat /\ q <= Rem(taker) /\ q <= Rem(BestMaker)
  BY <1>2 DEF FillQty, MinBig
<1>4. FillNotional \in Nat /\ FillNotional = MulUnits(p, q)
  BY <1>2, <1>3, MulUnitsNat DEF FillNotional
<1>5. /\ Buyer \in Order /\ Seller \in Order /\ Sound(Buyer)
      /\ Buyer.side = "buy" /\ p <= P /\ P \in Nat /\ q <= Rem(Buyer)
  <2>1. CASE taker.side = "buy"
    BY <2>1, <1>1, <1>2, <1>3 DEF Buyer, Seller, WillFill, CanMatch, InBound
  <2>2. CASE taker.side = "sell"
    BY <2>2, <1>1, <1>2, <1>3 DEF Buyer, Seller, Opposite
  <2> QED BY <2>1, <2>2, <1>1 DEF Sides
<1>6. rest \in Nat /\ rest + q = Rem(Buyer)
  BY <1>3, <1>5 DEF Rem, Order, Sound
<1> DEFINE f == AfterFill(Buyer, q)
<1>7. f.lock = LockFor(f) /\ Rem(f) = rest /\ f.price = P /\ f.side = "buy"
      /\ f \in Order
  BY <1>3, <1>5, AfterFillFacts
<1>8. /\ Buyer.lock = SpotBuyLock(P, rest + q, TakerFeeBps)
      /\ f.lock = SpotBuyLock(P, rest, TakerFeeBps)
  <2> HIDE DEF f
  <2> QED BY <1>5, <1>6, <1>7 DEF Sound, LockFor
<1>9. BuyBudget = SpotBuyLock(P, rest + q, TakerFeeBps)
                    - SpotBuyLock(P, rest, TakerFeeBps)
  BY <1>8 DEF BuyBudget
<1>10. BuyBudget \in Int
  BY <1>5, <1>7 DEF BuyBudget, Order
<1> HIDE DEF q, p, P, rest, f
<1>11. BuyBudget >= MulUnits(p, q)
  BY <1>2, <1>3, <1>5, <1>6, <1>9, FeeConstants, LockSliceCoversNotional
<1>12. BuyBudget >= MulUnits(p, q) + FeeOn(MulUnits(p, q), TakerFeeBps) - 1
  BY <1>2, <1>3, <1>5, <1>6, <1>9, FeeConstants, LockSliceCoversFill
<1> QED BY <1>3, <1>4, <1>5, <1>10, <1>11, <1>12 DEF q

-----------------------------------------------------------------------------
(* Every step keeps the inductive invariant.                               *)

LEMMA InitInv == Init => IInv
<1> SUFFICES ASSUME Init PROVE IInv
  OBVIOUS
<1> USE DEF Init
<1>1. /\ available \in [Accounts -> [Assets -> Int]]
      /\ locked \in [Accounts -> [Assets -> Int]]
  BY SpotAssumption DEF Accounts
<1>2. DOMAIN orders = {}
  OBVIOUS
<1>3. \A s \in Sides : book[s] = <<>> /\ Len(book[s]) = 0
  OBVIOUS
<1>4. book \in [Sides -> Seq(DOMAIN orders)]
  OBVIOUS
<1>5. supply \in [Assets -> Int]
  OBVIOUS
<1>6. TypeOK
  BY <1>1, <1>2, <1>4, <1>5 DEF TypeOK
<1>7. \A s \in Sides : Queue(s, book[s], orders)
  <2> SUFFICES ASSUME NEW s \in Sides PROVE Queue(s, book[s], orders)
    OBVIOUS
  <2>1. DOMAIN book[s] = {}
    BY <1>3
  <2>2. PriceTime(s, book[s], orders)
    BY <2>1 DEF PriceTime
  <2> QED BY <1>2, <1>3, <1>4, <2>2 DEF Queue
<1>8. Uncrossed
  BY <1>2 DEF Uncrossed
<1> QED BY <1>2, <1>6, <1>7, <1>8 DEF IInv

LEMMA RejectInv ==
  ASSUME IInv, NEW req \in Incoming, Reject(req)
  PROVE  IInv'
<1>1. pc \in {"idle", "amend"}
  BY DEF IInv, TypeOK, Incoming
<1>2. taker = NoOrder
  BY <1>1 DEF IInv, TypeOK
<1>3. TypeOK'
  BY <1>2 DEF IInv, TypeOK, Reject, ledger
<1>4. \A s \in Sides : Queue(s, book'[s], orders')
  BY DEF IInv, Reject
<1>5. Uncrossed' /\ \A id \in DOMAIN orders' : Sound(orders'[id])
  BY DEF IInv, Reject, Uncrossed
<1> QED BY <1>3, <1>4, <1>5 DEF IInv, Reject

LEMMA AcceptInv ==
  ASSUME IInv, NEW req \in Incoming, Accept(req)
  PROVE  IInv'
<1> DEFINE o == OrderOf(req)
<1>1. RequestOK(req)
  BY IncomingOK DEF IInv
<1>2. o \in Order /\ Sound(o) /\ o.id = nextId
  <2>1. o.id = nextId
    BY DEF OrderOf
  <2> QED BY <1>1, <2>1, OrderOfFacts DEF IInv
<1> HIDE DEF o
<1>3. /\ taker' = o /\ pc' = "match" /\ pending' = NoOrder
      /\ nextId' = nextId + 1 /\ answer' = "accepted"
      /\ orders' = orders /\ book' = book /\ supply' = supply
      /\ available' = Spend(available, o.user, LockAsset(o.side), o.lock)
      /\ locked' = Credit(locked, o.user, LockAsset(o.side), o.lock)
  BY DEF Accept, o
<1>4. o.user \in Accounts /\ LockAsset(o.side) \in Assets /\ o.lock \in Int
  BY <1>2 DEF Order, Accounts, LockAsset, Assets
<1>5. /\ available' \in [Accounts -> [Assets -> Int]]
      /\ locked' \in [Accounts -> [Assets -> Int]]
  BY <1>3, <1>4, LedgerUpdate DEF IInv, TypeOK
<1>6. TypeOK'
  BY <1>2, <1>3, <1>5 DEF IInv, TypeOK
<1>7. \A s \in Sides : Queue(s, book'[s], orders')
  BY <1>3 DEF IInv
<1>8. Uncrossed' /\ \A id \in DOMAIN orders' : Sound(orders'[id])
  BY <1>3 DEF IInv, Uncrossed
<1>9. Sound(taker') /\ \A id \in DOMAIN orders' : id < taker'.id
  BY <1>2, <1>3 DEF IInv, TypeOK
<1> QED BY <1>3, <1>6, <1>7, <1>8, <1>9 DEF IInv

\* A resting order is cancelled and refunded, outside or inside the loop.
LEMMA CancelRestingInv ==
  ASSUME IInv, NEW id \in DOMAIN orders, CancelResting(orders[id])
  PROVE  /\ available' \in [Accounts -> [Assets -> Int]]
         /\ locked' \in [Accounts -> [Assets -> Int]]
         /\ DOMAIN orders' \subseteq DOMAIN orders
         /\ \A x \in DOMAIN orders' : orders'[x] = orders[x]
         /\ book' \in [Sides -> Seq(DOMAIN orders')]
         /\ \A s \in Sides : Queue(s, book'[s], orders')
         /\ Uncrossed'
         /\ \A x \in DOMAIN orders' : Sound(orders'[x])
<1>1. orders[id] \in Order /\ TypeOK
  BY DEF IInv, TypeOK
<1>2. /\ available' \in [Accounts -> [Assets -> Int]]
      /\ locked' \in [Accounts -> [Assets -> Int]]
  BY <1>1, UnlockType DEF CancelResting
<1>3. /\ DOMAIN orders' = DOMAIN orders \ {id}
      /\ \A x \in DOMAIN orders' : orders'[x] = orders[x]
      /\ book' \in [Sides -> Seq(DOMAIN orders')]
      /\ \A s \in Sides : Queue(s, book'[s], orders')
      /\ Uncrossed'
  BY UnrestFacts DEF CancelResting
<1>4. \A x \in DOMAIN orders' : Sound(orders'[x])
  BY <1>3 DEF IInv
<1> QED BY <1>2, <1>3, <1>4

LEMMA CancelOwnMakerInv ==
  ASSUME IInv, CancelOwnMaker
  PROVE  IInv'
<1> DEFINE m == BestMaker.id
<1>1. pc = "match" /\ HasOpposite
  BY DEF CancelOwnMaker, SelfTrade, CanMatch
<1>2. m \in DOMAIN orders /\ CancelResting(orders[m])
  BY <1>1, BestMakerFacts DEF CancelOwnMaker
<1> HIDE DEF m
<1>3. /\ available' \in [Accounts -> [Assets -> Int]]
      /\ locked' \in [Accounts -> [Assets -> Int]]
      /\ DOMAIN orders' \subseteq DOMAIN orders
      /\ \A x \in DOMAIN orders' : orders'[x] = orders[x]
      /\ book' \in [Sides -> Seq(DOMAIN orders')]
      /\ \A s \in Sides : Queue(s, book'[s], orders')
      /\ Uncrossed'
      /\ \A x \in DOMAIN orders' : Sound(orders'[x])
  BY <1>2, CancelRestingInv
<1>4. UNCHANGED <<nextId, pc, taker, pending, answer, supply>>
  BY DEF CancelOwnMaker
<1>5. TypeOK'
  BY <1>3, <1>4 DEF IInv, TypeOK
<1> QED BY <1>1, <1>3, <1>4, <1>5 DEF IInv

LEMMA CancelOrderInv ==
  ASSUME IInv, NEW id \in DOMAIN orders, CancelOrder(id)
  PROVE  IInv'
<1>1. /\ available' \in [Accounts -> [Assets -> Int]]
      /\ locked' \in [Accounts -> [Assets -> Int]]
      /\ DOMAIN orders' \subseteq DOMAIN orders
      /\ \A x \in DOMAIN orders' : orders'[x] = orders[x]
      /\ book' \in [Sides -> Seq(DOMAIN orders')]
      /\ \A s \in Sides : Queue(s, book'[s], orders')
      /\ Uncrossed'
      /\ \A x \in DOMAIN orders' : Sound(orders'[x])
  BY CancelRestingInv DEF CancelOrder
<1>2. pc = "idle" /\ UNCHANGED <<nextId, pc, taker, pending, answer, supply>>
  BY DEF CancelOrder
<1>3. TypeOK'
  BY <1>1, <1>2 DEF IInv, TypeOK
<1> QED BY <1>1, <1>2, <1>3 DEF IInv

\* An amend leaves a replacement that submitOrder is bound to accept.
LEMMA AmendOrderInv ==
  ASSUME IInv, NEW id \in DOMAIN orders, NEW ch \in Amendments,
         AmendOrder(id, ch)
  PROVE  IInv'
<1> PICK o : o = orders[id]
  OBVIOUS
<1> PICK r : r = Replacement(o, ch)
  OBVIOUS
<1>1. /\ available' \in [Accounts -> [Assets -> Int]]
      /\ locked' \in [Accounts -> [Assets -> Int]]
      /\ DOMAIN orders' \subseteq DOMAIN orders
      /\ \A x \in DOMAIN orders' : orders'[x] = orders[x]
      /\ book' \in [Sides -> Seq(DOMAIN orders')]
      /\ \A s \in Sides : Queue(s, book'[s], orders')
      /\ Uncrossed'
      /\ \A x \in DOMAIN orders' : Sound(orders'[x])
  BY CancelRestingInv DEF AmendOrder
<1>2. /\ pc = "idle" /\ pc' = "amend" /\ pending' = r /\ nextId <= MaxOrders
      /\ ValidSize(ch.price, ch.qty) /\ AmendAffordable(o, ch) /\ Unlock(o)
      /\ UNCHANGED <<nextId, taker, answer, supply>>
  BY DEF AmendOrder, CancelResting
<1>3. o \in Order
  BY DEF IInv, TypeOK
<1>4. r \in Replacements
  BY <1>3, SpotAssumption DEF Replacements, Replacement, Order
<1>5. TypeOK'
  BY <1>1, <1>2, <1>4 DEF IInv, TypeOK
<1>6. ValidSize(r.price, r.qty) /\ CanAfford(r)'
  <2>1. /\ r.user = o.user /\ r.side = o.side /\ r.type = "limit"
        /\ r.price = ch.price /\ r.qty = ch.qty /\ r.tif = "GTC"
        /\ r.postOnly = FALSE /\ r.cid = NoCid
    BY DEF Replacement
  <2>2. OrderOf(r)'.lock = OrderOf(r).lock
    BY DEF OrderOf, LockFor, Rem
  <2>3. o.user \in Accounts /\ LockAsset(o.side) \in Assets /\ o.lock \in Int
    BY <1>3 DEF Order, Accounts, LockAsset, Assets
  <2>4. available'[o.user][LockAsset(o.side)]
          = available[o.user][LockAsset(o.side)] + o.lock
    BY <1>2, <2>3 DEF Unlock, Credit, IInv, TypeOK
  <2>5. available'[o.user][LockAsset(o.side)] >= OrderOf(r).lock
    BY <1>2, <2>4 DEF AmendAffordable
  <2>6. CanAfford(r)'
    BY <2>1, <2>2, <2>5 DEF CanAfford
  <2> QED BY <1>2, <2>1, <2>6
<1>7. /\ pc' # "match" /\ (nextId <= MaxOrders)'
      /\ \A req \in Incoming' : ValidSize(req.price, req.qty) /\ CanAfford(req)'
  <2>1. \A req \in Incoming' : req = r
    BY <1>2 DEF Incoming
  <2> QED BY <1>2, <1>6, <2>1
<1> QED BY <1>1, <1>5, <1>7 DEF IInv

LEMMA TransferInv ==
  ASSUME IInv, NEW t \in Transfers, Deposit(t) \/ Withdraw(t)
  PROVE  IInv'
<1>1. t.user \in Accounts /\ t.asset \in Assets /\ t.amount \in Int
  BY SpotAssumption DEF Accounts
<1>2. /\ pc = "idle"
      /\ UNCHANGED <<locked, orders, book, nextId, pc, taker, pending, answer>>
  BY DEF Deposit, Withdraw
<1>3. available' \in [Accounts -> [Assets -> Int]] /\ supply' \in [Assets -> Int]
  <2>1. available' \in [Accounts -> [Assets -> Int]]
    <3>1. CASE available' = Credit(available, t.user, t.asset, t.amount)
      BY <1>1, <3>1, LedgerUpdate DEF IInv, TypeOK
    <3>2. CASE available' = Spend(available, t.user, t.asset, t.amount)
      BY <1>1, <3>2, LedgerUpdate DEF IInv, TypeOK
    <3> QED BY <3>1, <3>2 DEF Deposit, Withdraw
  <2>2. supply' \in [Assets -> Int]
    BY <1>1 DEF Deposit, Withdraw, IInv, TypeOK
  <2> QED BY <2>1, <2>2
<1>4. TypeOK'
  BY <1>2, <1>3 DEF IInv, TypeOK
<1> QED BY <1>2, <1>4 DEF IInv, Uncrossed

LEMMA ExecuteFillInv ==
  ASSUME IInv, ExecuteFill
  PROVE  IInv'
<1> DEFINE b == BestMaker  m == BestMaker.id  q == FillQty
           maker == AfterFill(BestMaker, FillQty)
           t == AfterFill(taker, FillQty)
<1>1. pc = "match" /\ HasOpposite /\ WillFill
  BY DEF ExecuteFill, WillFill, CanMatch
<1>2. /\ taker \in Order /\ Sound(taker)
      /\ m \in DOMAIN orders /\ orders[m] = b /\ b \in Order /\ Sound(b)
  BY <1>1, BestMakerFacts
<1>3. /\ q \in Nat /\ q <= Rem(taker) /\ q <= Rem(b)
      /\ FillNotional \in Nat /\ Buyer \in Order /\ Seller \in Order
      /\ BuyBudget \in Int
  BY <1>1, FillFacts
<1>4. /\ maker \in Order /\ Sound(maker) /\ maker.id = m
      /\ maker.side = b.side /\ maker.price = b.price
  BY <1>2, <1>3, AfterFillFacts
<1>5. t \in Order /\ Sound(t) /\ t.id = taker.id
  BY <1>2, <1>3, AfterFillFacts
<1>6. /\ available' \in [Accounts -> [Assets -> Int]]
      /\ locked' \in [Accounts -> [Assets -> Int]]
  <2>1. BuyFee \in Int /\ SellFee \in Int
    <3>1. FeeOn(FillNotional, BuyerBps) \in Nat
          /\ FeeOn(FillNotional, SellerBps) \in Nat
      BY <1>3, FeeBounds, FeeConstants DEF BuyerBps, SellerBps
    <3> QED BY <3>1, <1>3 DEF BuyFee, SellFee, MinBig
  <2>2. Refund \in Int
    BY <2>1, <1>3 DEF Refund
  <2>3. /\ Buyer.user \in Accounts /\ Seller.user \in Accounts
        /\ FEE \in Accounts /\ "base" \in Assets /\ "quote" \in Assets
    BY <1>3 DEF Order, Accounts, Assets
  <2>4. /\ available \in [Accounts -> [Assets -> Int]]
        /\ locked \in [Accounts -> [Assets -> Int]]
    BY DEF IInv, TypeOK
  <2>5. SettleSpotFill
    BY DEF ExecuteFill
  <2> DEFINE a1 == Credit(available, Buyer.user, "quote", Refund)
             a2 == Credit(a1, Buyer.user, "base", q)
             a3 == Credit(a2, Seller.user, "quote", FillNotional - SellFee)
             a4 == Credit(a3, FEE, "quote", BuyFee + SellFee)
             l1 == Spend(locked, Buyer.user, "quote", BuyBudget)
             l2 == Spend(l1, Seller.user, "base", q)
  <2>6. available' = a4 /\ locked' = l2
    BY <2>5 DEF SettleSpotFill
  <2> HIDE DEF q
  <2>7. q \in Int /\ FillNotional - SellFee \in Int /\ BuyFee + SellFee \in Int
    BY <1>3, <2>1
  <2>8. a1 \in [Accounts -> [Assets -> Int]] /\ l1 \in [Accounts -> [Assets -> Int]]
    BY <1>3, <2>2, <2>3, <2>4, LedgerUpdate
  <2> HIDE DEF a1, l1
  <2>9. a2 \in [Accounts -> [Assets -> Int]] /\ l2 \in [Accounts -> [Assets -> Int]]
    BY <2>3, <2>7, <2>8, LedgerUpdate
  <2> HIDE DEF a2, l2
  <2>10. a3 \in [Accounts -> [Assets -> Int]]
    BY <2>3, <2>7, <2>9, LedgerUpdate
  <2> HIDE DEF a3
  <2>11. a4 \in [Accounts -> [Assets -> Int]]
    BY <2>3, <2>7, <2>10, LedgerUpdate
  <2> HIDE DEF a4
  <2> QED BY <2>6, <2>9, <2>11
<1>7. /\ taker' = t /\ UNCHANGED <<nextId, pc, pending, answer, supply>>
      /\ IF Rem(maker) = 0
         THEN Unrest(b)
         ELSE orders' = [orders EXCEPT ![maker.id] = maker] /\ UNCHANGED book
  BY DEF ExecuteFill
<1> HIDE DEF maker, t, b, m, q
<1>8. /\ DOMAIN orders' \subseteq DOMAIN orders
      /\ \A x \in DOMAIN orders' : /\ orders'[x] \in Order /\ Sound(orders'[x])
                                   /\ orders'[x].id = x
      /\ book' \in [Sides -> Seq(DOMAIN orders')]
      /\ \A s \in Sides : Queue(s, book'[s], orders')
      /\ Uncrossed'
  <2>1. CASE Rem(maker) = 0
    <3>1. Unrest(orders[m])
      BY <2>1, <1>2, <1>7
    <3>2. /\ DOMAIN orders' = DOMAIN orders \ {m}
          /\ \A x \in DOMAIN orders' : orders'[x] = orders[x]
          /\ book' \in [Sides -> Seq(DOMAIN orders')]
          /\ \A s \in Sides : Queue(s, book'[s], orders')
          /\ Uncrossed'
      BY <3>1, <1>2, UnrestFacts
    <3> QED BY <3>2 DEF IInv, TypeOK
  <2>2. CASE Rem(maker) # 0
    <3>1. /\ DOMAIN orders' = DOMAIN orders /\ book' = book
          /\ orders'[m] = maker
          /\ \A x \in DOMAIN orders : x # m => orders'[x] = orders[x]
      BY <2>2, <1>2, <1>4, <1>7 DEF IInv, TypeOK
    <3>2. \A x \in DOMAIN orders : /\ orders'[x].side = orders[x].side
                                   /\ orders'[x].price = orders[x].price
      BY <3>1, <1>2, <1>4
    <3>3. ASSUME NEW s \in Sides PROVE Queue(s, book'[s], orders')
      <4>1. Queue(s, book[s], orders)
        BY DEF IInv
      <4>2. Queue(s, book[s], orders')
        BY <4>1, <3>1, <3>2, SameQueue
      <4> QED BY <4>2, <3>1
    <3>4. Uncrossed'
      BY <3>1, <3>2 DEF IInv, Uncrossed
    <3>5. book' \in [Sides -> Seq(DOMAIN orders')]
      BY <3>1 DEF IInv, TypeOK
    <3> QED BY <3>1, <3>3, <3>4, <3>5, <1>4 DEF IInv, TypeOK
  <2> QED BY <2>1, <2>2
<1>9. TypeOK'
  BY <1>1, <1>5, <1>6, <1>7, <1>8 DEF IInv, TypeOK
<1>10. Sound(taker') /\ \A id \in DOMAIN orders' : id < taker'.id
  BY <1>1, <1>5, <1>7, <1>8 DEF IInv
<1> QED BY <1>1, <1>7, <1>8, <1>9, <1>10 DEF IInv

\* The end of submitOrder.  A remainder that rests cannot cross: the loop ended
\* because the best opposite order, and so every opposite order, is out of bound.
LEMMA FinishSubmitInv ==
  ASSUME IInv, FinishSubmit
  PROVE  IInv'
<1>1. /\ pc = "match" /\ pc' = "idle" /\ taker' = NoOrder /\ ~CanMatch
      /\ UNCHANGED <<nextId, pending, answer, supply>>
      /\ taker \in Order /\ taker.id = nextId - 1 /\ Sound(taker)
      /\ \A id \in DOMAIN orders : id < taker.id
      /\ pending = NoOrder
  BY DEF FinishSubmit, IInv, TypeOK
<1>2. CASE UNCHANGED <<orders, book>>
  <2>1. /\ available' \in [Accounts -> [Assets -> Int]]
        /\ locked' \in [Accounts -> [Assets -> Int]]
    <3>1. CASE FinishFilled
      BY <3>1 DEF FinishFilled, ledger, IInv, TypeOK
    <3>2. CASE FinishCancelled
      BY <3>2, <1>1, UnlockType DEF FinishCancelled, IInv
    <3>3. CASE FinishResting
      BY <3>3 DEF FinishResting, ledger, IInv, TypeOK
    <3> QED BY <3>1, <3>2, <3>3 DEF FinishSubmit
  <2>2. TypeOK'
    BY <1>1, <1>2, <2>1 DEF IInv, TypeOK
  <2> QED BY <1>1, <1>2, <2>2 DEF IInv, Uncrossed
<1>3. CASE FinishResting
  <2> PICK o : o = taker
    OBVIOUS
  <2>1. o \in Order /\ Sound(o) /\ o.id = nextId - 1 /\ o.side \in Sides
        /\ o.price \in Nat /\ o.id \in Nat /\ \A id \in DOMAIN orders : id < o.id
    BY <1>1 DEF Order
  <2>2. PICK k \in 0..Len(book[o.side]) :
          /\ InsertPosition(o.side, o, orders, book[o.side], k)
          /\ book' = [book EXCEPT ![o.side] = InsertAt(@, k + 1, o.id)]
    BY <1>3 DEF FinishResting
  <2>3. /\ orders' = WithOrder(orders, o)
        /\ UNCHANGED ledger /\ Rem(o) > 0
    BY <1>3 DEF FinishResting
  <2>4. /\ DOMAIN orders' = DOMAIN orders \cup {o.id} /\ orders'[o.id] = o
        /\ \A x \in DOMAIN orders : orders'[x] = orders[x]
    BY <2>1, <2>3 DEF WithOrder, IInv, TypeOK
  <2>5. ASSUME NEW s \in Sides PROVE Queue(s, book'[s], orders')
    <3>1. Queue(s, book[s], orders) /\ DOMAIN book = Sides
      BY DEF IInv, TypeOK
    <3>2. CASE s = o.side
      <4>1. Priced(orders)
        BY PricedOrders DEF IInv
      <4>2. k \in 0..Len(book[s]) /\ InsertPosition(s, o, orders, book[s], k)
        BY <3>2, <2>2
      <4>3. Queue(s, InsertAt(book[s], k + 1, o.id), WithOrder(orders, o))
        BY <3>1, <3>2, <4>1, <4>2, <2>1, InsertIntoQueue
      <4>4. book'[s] = InsertAt(book[s], k + 1, o.id)
        BY <3>1, <3>2, <2>2
      <4> QED BY <4>3, <4>4, <2>3
    <3>3. CASE s # o.side
      <4>1. book'[s] = book[s]
        BY <3>1, <3>3, <2>2
      <4>2. Queue(s, book[s], orders')
        BY <3>1, <3>3, <2>4, OtherQueue
      <4> QED BY <4>1, <4>2
    <3> QED BY <3>2, <3>3
  <2>6. book' \in [Sides -> Seq(DOMAIN orders')]
    <3>1. book' = [s \in Sides |-> book'[s]]
      BY <2>2 DEF IInv, TypeOK
    <3>2. \A s \in Sides : book'[s] \in Seq(DOMAIN orders')
      BY <2>5 DEF Queue
    <3> QED BY <3>1, <3>2
  <2>7. TypeOK'
    <3>1. DOMAIN orders' \subseteq 1..nextId - 1
      <4>1. o.id \in 1..nextId - 1
        BY <2>1 DEF Order, IInv, TypeOK
      <4> QED BY <2>4, <4>1 DEF IInv, TypeOK
    <3>2. \A x \in DOMAIN orders' : orders'[x] \in Order /\ orders'[x].id = x
      BY <2>1, <2>4 DEF IInv, TypeOK
    <3> QED BY <1>1, <2>3, <2>6, <3>1, <3>2 DEF IInv, TypeOK, ledger
  <2>8. \A id \in DOMAIN orders' : Sound(orders'[id])
    BY <2>1, <2>4 DEF IInv
  <2>9. ASSUME NEW x \in DOMAIN orders, orders[x].side = Opposite(o.side)
        PROVE  ~InBound(o.side, orders[x].price, o.price)
    <3> DEFINE s == Opposite(o.side)  q == book[s]
    <3>1. s \in Sides
      BY <2>1 DEF Opposite, Sides
    <3>2. Queue(s, q, orders)
      BY <3>1 DEF IInv
    <3>3. Len(q) \in Nat /\ DOMAIN q = 1..Len(q) /\ q \in Seq(DOMAIN orders)
      BY <3>2, LenProperties DEF Queue
    <3>4. PICK i \in 1..Len(q) : q[i] = x
      BY <2>9, <3>2 DEF Queue
    <3>5. q # <<>> /\ 1 \in 1..Len(q) /\ Head(q) = q[1] /\ q[1] \in DOMAIN orders
      BY <3>3, <3>4
    <3> PICK h : h = q[1]
      OBVIOUS
    <3>6. ~InBound(o.side, orders[h].price, o.price)
      <4>1. o = taker
        OBVIOUS
      <4> QED BY <1>1, <3>5, <2>3 DEF CanMatch, HasOpposite, BestMaker
    <3>7. orders[h].price \in Nat /\ orders[x].price \in Nat
      BY <3>5 DEF IInv, TypeOK, Order
    <3>8. h = x \/ Better(s, orders[h].price, orders[x].price)
            \/ orders[h].price = orders[x].price
      <4>1. CASE i = 1
        BY <3>4, <4>1
      <4>2. CASE 1 < i
        <5>1. PriceTime(s, q, orders)
          BY <3>2 DEF Queue
        <5> HIDE DEF q, s
        <5> QED BY <3>3, <3>4, <3>5, <4>2, <5>1 DEF PriceTime
      <4>3. i = 1 \/ 1 < i
        BY <3>3
      <4> QED BY <4>1, <4>2, <4>3
    <3> QED BY <3>6, <3>7, <3>8, <2>1 DEF InBound, Better, Opposite, Sides
  <2>10. Uncrossed'
    <3> SUFFICES ASSUME NEW b \in DOMAIN orders', NEW a \in DOMAIN orders',
                        orders'[b].side = "buy", orders'[a].side = "sell"
                 PROVE  orders'[b].price < orders'[a].price
      BY DEF Uncrossed
    <3>1. CASE b \in DOMAIN orders /\ a \in DOMAIN orders
      BY <3>1, <2>4 DEF IInv, Uncrossed
    <3>2. CASE b = o.id /\ a \in DOMAIN orders
      <4>1. orders[a].side = Opposite(o.side) /\ o.side = "buy"
        BY <3>2, <2>4 DEF Opposite
      <4>2. orders[a].price \in Nat
        BY <3>2 DEF IInv, TypeOK, Order
      <4> QED BY <3>2, <4>1, <4>2, <2>1, <2>4, <2>9 DEF InBound
    <3>3. CASE a = o.id /\ b \in DOMAIN orders
      <4>1. orders[b].side = Opposite(o.side) /\ o.side = "sell"
        BY <3>3, <2>4 DEF Opposite
      <4>2. orders[b].price \in Nat
        BY <3>3 DEF IInv, TypeOK, Order
      <4> QED BY <3>3, <4>1, <4>2, <2>1, <2>4, <2>9 DEF InBound
    <3>4. CASE a = o.id /\ b = o.id
      BY <3>4, <2>4
    <3> QED BY <3>1, <3>2, <3>3, <3>4, <2>4
  <2> QED BY <1>1, <2>5, <2>7, <2>8, <2>10 DEF IInv
<1> QED BY <1>2, <1>3 DEF FinishSubmit, FinishFilled, FinishCancelled

-----------------------------------------------------------------------------
(* Theorems of the specification.                                          *)

\* IInv holds in every reachable state.
THEOREM Invariant == Spec => []IInv
<1>1. IInv /\ [Next]_vars => IInv'
  <2> SUFFICES ASSUME IInv, [Next]_vars PROVE IInv'
    OBVIOUS
  <2>1. CASE SubmitOrder
    BY <2>1, RejectInv, AcceptInv DEF SubmitOrder
  <2>2. CASE MatchOrder
    BY <2>2, CancelOwnMakerInv, ExecuteFillInv DEF MatchOrder
  <2>3. CASE FinishSubmit
    BY <2>3, FinishSubmitInv
  <2>4. CASE \E id \in DOMAIN orders : CancelOrder(id)
    BY <2>4, CancelOrderInv
  <2>5. CASE \E id \in DOMAIN orders, ch \in Amendments : AmendOrder(id, ch)
    BY <2>5, AmendOrderInv
  <2>6. CASE \E t \in Transfers : Deposit(t) \/ Withdraw(t)
    BY <2>6, TransferInv
  <2>7. CASE UNCHANGED vars
    <3>1. TypeOK'
      BY <2>7 DEF vars, IInv, TypeOK
    <3>2. Uncrossed'
      BY <2>7 DEF vars, IInv, Uncrossed
    <3>3. ASSUME NEW req \in Incoming', pc' = "amend"
          PROVE  ValidSize(req.price, req.qty) /\ CanAfford(req)'
      <4>1. req \in Incoming /\ pc = "amend"
        BY <2>7, <3>3 DEF vars, Incoming
      <4>2. ValidSize(req.price, req.qty) /\ CanAfford(req)
        BY <4>1 DEF IInv
      <4> QED BY <2>7, <4>2 DEF vars, CanAfford, OrderOf, LockFor, Rem
    <3> QED BY <2>7, <3>1, <3>2, <3>3 DEF vars, IInv
  <2> QED BY <2>1, <2>2, <2>3, <2>4, <2>5, <2>6, <2>7 DEF Next
<1> QED BY InitInv, <1>1, PTL DEF Spec

\* The engine's state keeps its shape.
THEOREM TypeCorrect == Spec => []TypeOK
<1>1. IInv => TypeOK
  BY DEF IInv
<1> QED BY Invariant, <1>1, PTL

\* The book lists exactly the live orders, in price-time order.
THEOREM PriceTimePriority == Spec => []BookInOrder
<1>1. IInv => BookInOrder
  <2> SUFFICES ASSUME IInv PROVE BookInOrder
    OBVIOUS
  <2>1. \A s \in Sides : PriceTime(s, book[s], orders)
    BY DEF IInv, Queue
  <2>2. ASSUME NEW id \in DOMAIN orders
        PROVE  \E i \in DOMAIN book[orders[id].side] :
                 book[orders[id].side][i] = id
    <3>1. orders[id].side \in Sides
      BY DEF IInv, TypeOK, Order
    <3> PICK s \in Sides : s = orders[id].side
      BY <3>1
    <3>2. Queue(s, book[s], orders)
      BY DEF IInv
    <3>3. DOMAIN book[s] = 1..Len(book[s])
      BY <3>2, LenProperties DEF Queue
    <3> QED BY <3>2, <3>3 DEF Queue
  <2> QED BY <2>1, <2>2 DEF BookInOrder
<1> QED BY Invariant, <1>1, PTL

\* No resting bid ever meets a resting ask.
THEOREM NeverCrossed == Spec => []Uncrossed
<1>1. IInv => Uncrossed
  BY DEF IInv
<1> QED BY Invariant, <1>1, PTL

\* Every fill is covered by the lock it frees, and the clamp on the buyer's
\* fee costs the house at most one unit.
THEOREM FillsCovered == Spec => []FeeFloor
<1>1. IInv => FeeFloor
  <2> SUFFICES ASSUME IInv, WillFill
               PROVE  /\ BuyBudget >= FillNotional
                      /\ BuyFee + SellFee >= FeeOn(FillNotional, TakerFeeBps)
                              + FeeOn(FillNotional, MakerFeeBps) - 1
    BY DEF FeeFloor
  <2> PICK n : n = FillNotional
    OBVIOUS
  <2>1. /\ n \in Nat /\ BuyBudget \in Int /\ BuyBudget >= n
        /\ BuyBudget >= n + FeeOn(n, TakerFeeBps) - 1
    BY FillFacts
  <2>2. /\ FeeOn(n, TakerFeeBps) \in Nat /\ FeeOn(n, MakerFeeBps) \in Nat
        /\ FeeOn(n, MakerFeeBps) <= FeeOn(n, TakerFeeBps)
        /\ FeeOn(n, MakerFeeBps) <= n /\ FeeOn(n, TakerFeeBps) <= n
    BY <2>1, FeeConstants, FeeBounds, FeeMonotone, FeeAtMostAmount
  <2>3. taker.side \in {"buy", "sell"}
    BY DEF WillFill, CanMatch, IInv, TypeOK, Order, Sides
  <2>4. SellFee = FeeOn(n, SellerBps)
    <3>1. SellerBps = MakerFeeBps \/ SellerBps = TakerFeeBps
      BY DEF SellerBps
    <3>2. FeeOn(n, SellerBps) \in Nat /\ FeeOn(n, SellerBps) <= n
      BY <2>2, <3>1
    <3>3. SellFee = MinBig(FeeOn(n, SellerBps), n)
      BY DEF SellFee
    <3> QED BY <2>1, <3>2, <3>3 DEF MinBig
  <2>5. BuyFee = MinBig(FeeOn(n, BuyerBps), BuyBudget - n)
    BY DEF BuyFee
  <2>6. CASE taker.side = "buy"
    BY <2>1, <2>2, <2>4, <2>5, <2>6 DEF BuyerBps, SellerBps, MinBig
  <2>7. CASE taker.side = "sell"
    BY <2>1, <2>2, <2>4, <2>5, <2>7 DEF BuyerBps, SellerBps, MinBig
  <2> QED BY <2>3, <2>6, <2>7
<1> QED BY Invariant, <1>1, PTL

\* An order being amended is always replaced by an accepted one.
THEOREM AmendNeverLoses == Spec => AmendKeepsOrder
<1>1. IInv /\ [Next]_vars => [pc = "amend" => pc' = "match"]_vars
  <2> SUFFICES ASSUME IInv, Next, pc = "amend" PROVE pc' = "match"
    OBVIOUS
  <2>1. ASSUME NEW req \in Incoming, Reject(req) PROVE FALSE
    <3>1. req \in Replacements
      BY <2>1 DEF Incoming, IInv, TypeOK
    <3>2. /\ req.type = "limit" /\ req.tif = "GTC" /\ req.postOnly = FALSE
          /\ req.cid = NoCid
      BY <3>1 DEF Replacements
    <3>3. ValidSize(req.price, req.qty) /\ CanAfford(req)
      BY <2>1 DEF IInv
    <3> QED BY <2>1, <3>2, <3>3 DEF Reject, Acceptable, CidInUse
  <2>2. ASSUME NEW req \in Incoming, Accept(req) PROVE pc' = "match"
    BY <2>2 DEF Accept
  <2>3. ~MatchOrder /\ ~FinishSubmit
    BY DEF MatchOrder, CancelOwnMaker, SelfTrade, ExecuteFill, WillFill,
           CanMatch, FinishSubmit
  <2> QED BY <2>1, <2>2, <2>3 DEF Next, SubmitOrder, CancelOrder, AmendOrder,
                                  Deposit, Withdraw
<1> QED BY Invariant, <1>1, PTL DEF Spec, AmendKeepsOrder

-----------------------------------------------------------------------------
(* The money.                                                              *)

Ledgers == [Accounts -> [Assets -> Int]]

\* What all accounts hold of an asset, free or locked.
Holding(free, held, a) == SumFunction([u \in Accounts |-> free[u][a] + held[u][a]])

LEMMA AccountsFinite == IsFiniteSet(Users) /\ IsFiniteSet(Accounts)
BY SpotAssumption, FS_AddElement DEF Accounts

\* One column of one row moves, and nothing else.
LEMMA MovedColumn ==
  ASSUME NEW f \in Ledgers, NEW u \in Accounts, NEW a \in Assets, NEW n \in Int,
         NEW w \in Accounts, NEW b \in Assets
  PROVE  /\ Credit(f, u, a, n) \in Ledgers /\ Spend(f, u, a, n) \in Ledgers
         /\ f[w][b] \in Int
         /\ Credit(f, u, a, n)[w][b] =
              IF w = u /\ b = a THEN f[w][b] + n ELSE f[w][b]
         /\ Spend(f, u, a, n)[w][b] =
              IF w = u /\ b = a THEN f[w][b] - n ELSE f[w][b]
BY DEF Credit, Spend, Ledgers

\* So the holdings move by as much.
LEMMA HoldingMoves ==
  ASSUME NEW f \in Ledgers, NEW g \in Ledgers,
         NEW u \in Accounts, NEW a \in Assets, NEW n \in Int, NEW b \in Assets
  PROVE  LET m == IF a = b THEN n ELSE 0 IN
         /\ Holding(f, g, b) \in Int
         /\ Holding(Credit(f, u, a, n), g, b) = Holding(f, g, b) + m
         /\ Holding(Spend(f, u, a, n), g, b) = Holding(f, g, b) - m
         /\ Holding(f, Credit(g, u, a, n), b) = Holding(f, g, b) + m
         /\ Holding(f, Spend(g, u, a, n), b) = Holding(f, g, b) - m
<1> DEFINE m == IF a = b THEN n ELSE 0
           f2 == Credit(f, u, a, n)
           f3 == Spend(f, u, a, n)
           g2 == Credit(g, u, a, n)
           g3 == Spend(g, u, a, n)
           h == [w \in Accounts |-> f[w][b] + g[w][b]]
<1>1. m \in Int /\ \A w \in Accounts : h[w] \in Int
  BY DEF Ledgers
<1>2. Holding(f, g, b) \in Int /\ Holding(f, g, b) = SumFunctionOnSet(h, Accounts)
  <2>1. DOMAIN h = Accounts
    OBVIOUS
  <2>2. Holding(f, g, b) = SumFunctionOnSet(h, Accounts)
    BY <2>1 DEF Holding, SumFunction
  <2> HIDE DEF h
  <2> QED BY <1>1, <2>2, AccountsFinite, SumInt
<1>3. ASSUME NEW p \in Ledgers, NEW q \in Ledgers, NEW k \in Int,
             \A w \in Accounts :
               p[w][b] + q[w][b] = IF w = u THEN h[w] + k ELSE h[w]
      PROVE  Holding(p, q, b) = Holding(f, g, b) + k
  <2> DEFINE h2 == [w \in Accounts |-> p[w][b] + q[w][b]]
  <2>1. DOMAIN h2 = Accounts
    OBVIOUS
  <2>2. Holding(p, q, b) = SumFunctionOnSet(h2, Accounts)
    BY <2>1 DEF Holding, SumFunction
  <2>3. /\ \A w \in Accounts : h2[w] = IF w = u THEN h[w] + k ELSE h[w]
        /\ \A w \in Accounts : h2[w] \in Int
    BY <1>3 DEF Ledgers
  <2> HIDE DEF h, h2
  <2>4. SumFunctionOnSet(h2, Accounts)
          = SumFunctionOnSet(h, Accounts) + (h2[u] - h[u])
    BY <1>1, <2>3, AccountsFinite, SumChange
  <2>5. h2[u] - h[u] = k
    BY <1>1, <2>3
  <2> QED BY <1>2, <2>2, <2>4, <2>5
<1>4. /\ f2 \in Ledgers /\ f3 \in Ledgers /\ g2 \in Ledgers /\ g3 \in Ledgers
  BY MovedColumn
<1>5. \A w \in Accounts :
        /\ f[w][b] \in Int /\ g[w][b] \in Int /\ h[w] = f[w][b] + g[w][b]
        /\ f2[w][b] = IF w = u THEN f[w][b] + m ELSE f[w][b]
        /\ f3[w][b] = IF w = u THEN f[w][b] - m ELSE f[w][b]
        /\ g2[w][b] = IF w = u THEN g[w][b] + m ELSE g[w][b]
        /\ g3[w][b] = IF w = u THEN g[w][b] - m ELSE g[w][b]
  BY MovedColumn
<1> HIDE DEF f2, f3, g2, g3, m, h
<1>6. Holding(f2, g, b) = Holding(f, g, b) + m
  BY <1>1, <1>4, <1>5, <1>3
<1>7. Holding(f, g2, b) = Holding(f, g, b) + m
  BY <1>1, <1>4, <1>5, <1>3
<1>8. PICK k \in Int : k = -m
  BY <1>1
<1>9. Holding(f3, g, b) = Holding(f, g, b) + k
  <2>1. \A w \in Accounts :
          f3[w][b] + g[w][b] = IF w = u THEN h[w] + k ELSE h[w]
    BY <1>1, <1>5, <1>8
  <2> QED BY <1>4, <2>1, <1>3
<1>10. Holding(f, g3, b) = Holding(f, g, b) + k
  <2>1. \A w \in Accounts :
          f[w][b] + g3[w][b] = IF w = u THEN h[w] + k ELSE h[w]
    BY <1>1, <1>5, <1>8
  <2> QED BY <1>4, <2>1, <1>3
<1> QED BY <1>1, <1>2, <1>6, <1>7, <1>8, <1>9, <1>10 DEF f2, f3, g2, g3, m

\* What the orders of a set hold of u's column a.
Locks(L, u, a) ==
  SumFunction([o \in {o \in L : o.user = u /\ LockAsset(o.side) = a} |-> o.lock])

\* One order's share of it.
Share(o, u, a) == IF o.user = u /\ LockAsset(o.side) = a THEN o.lock ELSE 0

\* A finite set of orders whose locks are numbers.
LockSet(L) == IsFiniteSet(L) /\ \A o \in L : o.lock \in Int

LEMMA LockSetAdd ==
  ASSUME NEW L, LockSet(L), NEW o, o.lock \in Int
  PROVE  LockSet(L \cup {o})
BY FS_AddElement DEF LockSet

LEMMA LockSetRemove ==
  ASSUME NEW L, LockSet(L), NEW o \in L
  PROVE  LockSet(L \ {o}) /\ o.lock \in Int
BY FS_RemoveElement DEF LockSet

LEMMA LocksAdd ==
  ASSUME NEW L, LockSet(L), NEW o, o \notin L, o.lock \in Int, NEW u, NEW a
  PROVE  /\ Locks(L, u, a) \in Int /\ Share(o, u, a) \in Int
         /\ Locks(L \cup {o}, u, a) = Locks(L, u, a) + Share(o, u, a)
<1> DEFINE H(M) == {x \in M : x.user = u /\ LockAsset(x.side) = a}
           S == H(L)
           T == H(L \cup {o})
           f == [x \in S |-> x.lock]
           k == [x \in T |-> x.lock]
<1>0. IsFiniteSet(L) /\ \A x \in L : x.lock \in Int
  BY DEF LockSet
<1>1. IsFiniteSet(S) /\ IsFiniteSet(T)
  <2>1. IsFiniteSet(L \cup {o})
    BY <1>0, FS_AddElement
  <2>2. S \in SUBSET L /\ T \in SUBSET (L \cup {o})
    OBVIOUS
  <2> QED BY <1>0, <2>1, <2>2, FS_Subset
<1>2. DOMAIN f = S /\ DOMAIN k = T
  OBVIOUS
<1>3. Locks(L, u, a) = SumFunctionOnSet(f, S)
      /\ Locks(L \cup {o}, u, a) = SumFunctionOnSet(k, T)
  BY <1>2 DEF Locks, SumFunction
<1>4. /\ \A x \in S : f[x] \in Int /\ f[x] = k[x]
      /\ \A x \in T : k[x] \in Int /\ k[x] = x.lock
  BY <1>0
<1>5. /\ o \notin S
      /\ o \in T <=> (o.user = u /\ LockAsset(o.side) = a)
      /\ T \ {o} = S
  OBVIOUS
<1> HIDE DEF f, k, S, T
<1>6. SumFunctionOnSet(f, S) \in Int /\ Share(o, u, a) \in Int
  BY <1>1, <1>4, SumInt DEF Share
<1>7. SumFunctionOnSet(k, S) = SumFunctionOnSet(f, S)
  BY <1>1, <1>4, SumSame
<1>8. CASE o \in T
  <2>1. SumFunctionOnSet(k, T) = k[o] + SumFunctionOnSet(k, T \ {o})
    BY <1>1, <1>4, <1>8, SumTakeOut
  <2>2. k[o] = Share(o, u, a) /\ k[o] \in Int
    BY <1>4, <1>5, <1>8 DEF Share
  <2>3. SumFunctionOnSet(k, T) = k[o] + SumFunctionOnSet(k, S)
    BY <1>5, <2>1
  <2> QED BY <1>3, <1>6, <1>7, <2>2, <2>3
<1>9. CASE o \notin T
  <2>1. T = S /\ Share(o, u, a) = 0
    BY <1>5, <1>9 DEF Share
  <2> QED BY <1>3, <1>6, <1>7, <2>1
<1> QED BY <1>8, <1>9

LEMMA LocksJoin ==
  ASSUME NEW L, LockSet(L), NEW o, o \notin L, o.lock \in Int,
         NEW K, K = L \cup {o}, NEW u, NEW a
  PROVE  /\ Locks(L, u, a) \in Int /\ Share(o, u, a) \in Int
         /\ Locks(K, u, a) = Locks(L, u, a) + Share(o, u, a)
<1>1. /\ Locks(L, u, a) \in Int /\ Share(o, u, a) \in Int
      /\ Locks(L \cup {o}, u, a) = Locks(L, u, a) + Share(o, u, a)
  BY LocksAdd
<1>2. Locks(L \cup {o}, u, a) = Locks(K, u, a)
  OBVIOUS
<1> QED BY <1>1, <1>2

\* An order that leaves takes its share with it.
LEMMA LocksRemove ==
  ASSUME NEW L, LockSet(L), NEW o \in L, NEW u, NEW a
  PROVE  /\ Locks(L, u, a) \in Int /\ Share(o, u, a) \in Int
         /\ Locks(L \ {o}, u, a) = Locks(L, u, a) - Share(o, u, a)
<1> PICK M : M = L \ {o}
  OBVIOUS
<1>1. LockSet(M) /\ o \notin M /\ M \cup {o} = L /\ o.lock \in Int
  BY LockSetRemove
<1>2. /\ Locks(M, u, a) \in Int /\ Share(o, u, a) \in Int
      /\ Locks(M \cup {o}, u, a) = Locks(M, u, a) + Share(o, u, a)
  BY <1>1, LocksAdd
<1>3. Locks(L, u, a) = Locks(M, u, a) + Share(o, u, a)
  BY <1>1, <1>2
<1>4. Locks(L \ {o}, u, a) = Locks(M, u, a)
  BY <1>1
<1> QED BY <1>2, <1>3, <1>4

\* The live orders are finitely many, each with an id and a lock of its own.
LEMMA LiveFacts ==
  ASSUME IInv
  PROVE  /\ LockSet(LiveOrders)
         /\ \A o \in LiveOrders : /\ o \in Order /\ Sound(o) /\ o.lock \in Nat
                                  /\ o.id \in 1..nextId - 1
         /\ \A o, p \in LiveOrders : o.id = p.id => o = p
         /\ \A id \in DOMAIN orders : orders[id] \in LiveOrders /\ orders[id].id = id
         /\ pc = "match" => taker \in LiveOrders /\ taker.id \notin DOMAIN orders
<1>1. ASSUME NEW o \in LiveOrders
      PROVE  /\ o \in Order /\ Sound(o) /\ o.id \in 1..nextId - 1
             /\ \/ o.id \in DOMAIN orders /\ o = orders[o.id]
                \/ pc = "match" /\ o = taker
  <2>1. CASE pc = "match" /\ o = taker
    BY <2>1 DEF IInv, TypeOK, Order
  <2>2. CASE \E id \in DOMAIN orders : o = orders[id]
    BY <2>2 DEF IInv, TypeOK
  <2> QED BY <2>1, <2>2 DEF LiveOrders, InFlight
<1>2. /\ \A id \in DOMAIN orders : orders[id] \in LiveOrders /\ orders[id].id = id
      /\ pc = "match" => taker \in LiveOrders
  BY DEF LiveOrders, InFlight, IInv, TypeOK
<1>3. pc = "match" => \A id \in DOMAIN orders : id \in Nat /\ id < taker.id
  BY DEF IInv, TypeOK
<1>4. pc = "match" => taker.id \notin DOMAIN orders
  BY <1>3 DEF IInv, TypeOK
<1>5. \A o, p \in LiveOrders : o.id = p.id => o = p
  BY <1>1, <1>4
<1>6. IsFiniteSet(LiveOrders)
  <2> DEFINE m == [o \in LiveOrders |-> o.id]
  <2>1. nextId - 1 \in Int
    BY DEF IInv, TypeOK
  <2>2. IsFiniteSet(1..nextId - 1)
    BY <2>1, FS_Interval
  <2>3. m \in Injection(LiveOrders, 1..nextId - 1)
    BY <1>1, <1>5 DEF Injection, IsInjective
  <2> HIDE DEF m
  <2> QED BY <2>2, <2>3, FS_Injection
<1>7. \A o \in LiveOrders : o.lock \in Nat
  BY <1>1, LockForNat DEF Sound, Order
<1>8. LockSet(LiveOrders)
  BY <1>6, <1>7 DEF LockSet
<1> QED BY <1>1, <1>2, <1>4, <1>5, <1>7, <1>8

LEMMA BackedIs ==
  LocksBacked <=>
    \A u \in Accounts, a \in Assets :
      available[u][a] >= 0 /\ locked[u][a] = Locks(LiveOrders, u, a)
BY DEF LocksBacked, LockedBy, Locks

LEMMA BackedNext ==
  ASSUME \A u \in Accounts, a \in Assets :
           available'[u][a] >= 0 /\ locked'[u][a] = Locks(LiveOrders', u, a)
  PROVE  LocksBacked'
BY DEF LocksBacked, LockedBy, Locks

\* What moves inside the ledger is conserved.
LEMMA BalancedMove ==
  ASSUME Conservation, supply' = supply,
         \A a \in Assets :
           Holding(available', locked', a) = Holding(available, locked, a)
  PROVE  Conservation'
BY DEF Conservation, Holding

\* The owner's lock and balance of an order.
LEMMA OwnColumn ==
  ASSUME NEW o \in Order
  PROVE  o.user \in Accounts /\ LockAsset(o.side) \in Assets /\ o.lock \in Int
BY DEF Order, Accounts, LockAsset, Assets

\* An order leaves with its lock refunded.
LEMMA UnlockMoney ==
  ASSUME IInv, LocksBacked, Conservation, NEW o \in LiveOrders, Unlock(o),
         LiveOrders' = LiveOrders \ {o}, supply' = supply
  PROVE  LocksBacked' /\ Conservation'
<1> DEFINE x == o.user  c == LockAsset(o.side)  n == o.lock
<1>1. LockSet(LiveOrders) /\ o \in Order /\ n \in Nat
  BY LiveFacts
<1>2. x \in Accounts /\ c \in Assets /\ n \in Int
  BY <1>1, OwnColumn
<1>3. available' = Credit(available, x, c, n) /\ locked' = Spend(locked, x, c, n)
  BY DEF Unlock
<1>4. available \in Ledgers /\ locked \in Ledgers
  BY DEF IInv, TypeOK, Ledgers
<1>5. \A u, a : /\ Locks(LiveOrders, u, a) \in Int /\ Share(o, u, a) \in Int
                /\ Locks(LiveOrders \ {o}, u, a)
                     = Locks(LiveOrders, u, a) - Share(o, u, a)
  BY <1>1, LocksRemove
<1>6. \A u, a : Share(o, u, a) = IF x = u /\ c = a THEN n ELSE 0
  BY DEF Share
<1> HIDE DEF x, c, n
<1>7. LocksBacked'
  <2> SUFFICES ASSUME NEW u \in Accounts, NEW a \in Assets
               PROVE  /\ available'[u][a] >= 0
                      /\ locked'[u][a] = Locks(LiveOrders', u, a)
    BY BackedNext
  <2>1. available[u][a] >= 0 /\ locked[u][a] = Locks(LiveOrders, u, a)
    BY BackedIs
  <2>2. /\ available[u][a] \in Int /\ locked[u][a] \in Int
        /\ available'[u][a] = IF u = x /\ a = c THEN available[u][a] + n
                                               ELSE available[u][a]
        /\ locked'[u][a] = IF u = x /\ a = c THEN locked[u][a] - n ELSE locked[u][a]
    BY <1>2, <1>3, <1>4, MovedColumn
  <2>3. Locks(LiveOrders', u, a) = Locks(LiveOrders, u, a) - Share(o, u, a)
    BY <1>5
  <2> QED BY <1>1, <1>6, <2>1, <2>2, <2>3 DEF n
<1>8. Conservation'
  <2> SUFFICES ASSUME NEW a \in Assets
               PROVE  Holding(available', locked', a) = Holding(available, locked, a)
    BY BalancedMove
  <2> DEFINE f == Credit(available, x, c, n)  m == IF c = a THEN n ELSE 0
  <2>1. f \in Ledgers /\ m \in Int
    BY <1>2, <1>4, MovedColumn
  <2>2. Holding(f, locked, a) = Holding(available, locked, a) + m
        /\ Holding(available, locked, a) \in Int
    BY <1>2, <1>4, HoldingMoves
  <2> HIDE DEF f
  <2>3. Holding(f, Spend(locked, x, c, n), a) = Holding(f, locked, a) - m
    BY <1>2, <1>4, <2>1, HoldingMoves
  <2> HIDE DEF m
  <2> QED BY <1>3, <2>1, <2>2, <2>3 DEF f
<1> QED BY <1>7, <1>8

LEMMA UnrestLive ==
  ASSUME IInv, NEW id \in DOMAIN orders, Unrest(orders[id]), InFlight' = InFlight
  PROVE  orders[id] \in LiveOrders /\ LiveOrders' = LiveOrders \ {orders[id]}
<1>1. /\ DOMAIN orders' = DOMAIN orders \ {id}
      /\ \A x \in DOMAIN orders' : orders'[x] = orders[x]
  BY UnrestFacts
<1>2. /\ \A o, p \in LiveOrders : o.id = p.id => o = p
      /\ \A x \in DOMAIN orders : orders[x] \in LiveOrders /\ orders[x].id = x
      /\ pc = "match" => taker.id \notin DOMAIN orders
  BY LiveFacts
<1>3. LiveOrders' = {orders[x] : x \in DOMAIN orders \ {id}} \cup InFlight
  BY <1>1 DEF LiveOrders
<1>4. \A x \in DOMAIN orders \ {id} : orders[x] # orders[id]
  BY <1>2
<1>5. orders[id] \notin InFlight
  BY <1>2 DEF InFlight
<1> QED BY <1>2, <1>3, <1>4, <1>5 DEF LiveOrders

\* submitOrder locks what the order needs, which its owner has.
LEMMA AcceptMoney ==
  ASSUME IInv, LocksBacked, Conservation, NEW req \in Incoming, Accept(req)
  PROVE  LocksBacked' /\ Conservation'
<1> DEFINE o == OrderOf(req)
           x == o.user  c == LockAsset(o.side)  n == o.lock
<1>1. RequestOK(req)
  BY IncomingOK DEF IInv
<1>2. /\ o \in Order /\ Sound(o) /\ o.id = nextId
      /\ x = req.user /\ c = LockAsset(req.side)
  <2>1. o.id = nextId /\ x = req.user /\ c = LockAsset(req.side)
    BY DEF OrderOf
  <2> QED BY <1>1, <2>1, OrderOfFacts DEF IInv
<1>3. /\ taker' = o /\ pc' = "match" /\ orders' = orders /\ supply' = supply
      /\ available' = Spend(available, x, c, n)
      /\ locked' = Credit(locked, x, c, n)
      /\ available[req.user][LockAsset(req.side)] >= n
  BY DEF Accept, Acceptable, CanAfford
<1> HIDE DEF o
<1>4. x \in Accounts /\ c \in Assets /\ n \in Nat /\ n \in Int
  <2>1. n \in Nat
    BY <1>2, LockForNat DEF Sound, Order
  <2> QED BY <1>2, <2>1, OwnColumn
<1>5. LockSet(LiveOrders) /\ o \notin LiveOrders
  <2>1. LockSet(LiveOrders)
    BY LiveFacts
  <2>2. \A p \in LiveOrders : p.id \in 1..nextId - 1
    BY LiveFacts
  <2>3. nextId \in Nat
    BY DEF IInv, TypeOK
  <2> QED BY <1>2, <2>1, <2>2, <2>3
<1>6. LiveOrders' = LiveOrders \cup {o}
  <2>1. pc # "match"
    BY DEF Incoming
  <2> QED BY <1>3, <2>1 DEF LiveOrders, InFlight
<1>7. available \in Ledgers /\ locked \in Ledgers
  BY DEF IInv, TypeOK, Ledgers
<1>8. \A u, a : /\ Locks(LiveOrders, u, a) \in Int /\ Share(o, u, a) \in Int
                /\ Locks(LiveOrders \cup {o}, u, a)
                     = Locks(LiveOrders, u, a) + Share(o, u, a)
  BY <1>4, <1>5, LocksAdd
<1>9. \A u, a : Share(o, u, a) = IF x = u /\ c = a THEN n ELSE 0
  BY DEF Share
<1>10. available[x][c] >= n
  BY <1>2, <1>3
<1> HIDE DEF x, c, n
<1>11. LocksBacked'
  <2> SUFFICES ASSUME NEW u \in Accounts, NEW a \in Assets
               PROVE  /\ available'[u][a] >= 0
                      /\ locked'[u][a] = Locks(LiveOrders', u, a)
    BY BackedNext
  <2>1. available[u][a] >= 0 /\ locked[u][a] = Locks(LiveOrders, u, a)
    BY BackedIs
  <2>2. /\ available[u][a] \in Int /\ locked[u][a] \in Int
        /\ available'[u][a] = IF u = x /\ a = c THEN available[u][a] - n
                                               ELSE available[u][a]
        /\ locked'[u][a] = IF u = x /\ a = c THEN locked[u][a] + n ELSE locked[u][a]
    BY <1>3, <1>4, <1>7, MovedColumn
  <2>3. Locks(LiveOrders', u, a) = Locks(LiveOrders, u, a) + Share(o, u, a)
    BY <1>6, <1>8
  <2> QED BY <1>4, <1>9, <1>10, <2>1, <2>2, <2>3
<1>12. Conservation'
  <2> SUFFICES ASSUME NEW a \in Assets
               PROVE  Holding(available', locked', a) = Holding(available, locked, a)
    BY <1>3, BalancedMove
  <2> DEFINE f == Spend(available, x, c, n)  m == IF c = a THEN n ELSE 0
  <2>1. f \in Ledgers /\ m \in Int
    BY <1>4, <1>7, MovedColumn
  <2>2. Holding(f, locked, a) = Holding(available, locked, a) - m
        /\ Holding(available, locked, a) \in Int
    BY <1>4, <1>7, HoldingMoves
  <2> HIDE DEF f
  <2>3. Holding(f, Credit(locked, x, c, n), a) = Holding(f, locked, a) + m
    BY <1>4, <1>7, <2>1, HoldingMoves
  <2> HIDE DEF m
  <2> QED BY <1>3, <2>1, <2>2, <2>3 DEF f
<1> QED BY <1>11, <1>12

\* A filled order locks nothing.
LEMMA ZeroLock ==
  ASSUME NEW o \in Order, Sound(o), Rem(o) = 0
  PROVE  o.lock = 0
<1>1. /\ o.price \in Nat /\ o.price * 0 = 0 /\ 0 \div SCALE = 0
  BY DivBounds, FixedPointAssumption DEF Order
<1>2. MulUnits(o.price, 0) = 0
  BY <1>1 DEF MulUnits, DivFloor
<1>3. 0 * TakerFeeBps = 0
  BY FeeConstants
<1>4. 0 \div BPS = 0
  BY DivBounds, FixedPointAssumption
<1>5. FeeOn(0, TakerFeeBps) = -((-0) \div BPS)
  BY <1>3 DEF FeeOn, DivCeil
<1>6. FeeOn(0, TakerFeeBps) = 0
  BY <1>4, <1>5
<1>7. SpotBuyLock(o.price, 0, TakerFeeBps) = 0
  BY <1>2, <1>6 DEF SpotBuyLock
<1> QED BY <1>7 DEF Sound, LockFor

\* Nothing moves and the same orders are live.
LEMMA SameMoney ==
  ASSUME LocksBacked, Conservation, UNCHANGED ledger, supply' = supply,
         LiveOrders' = LiveOrders
  PROVE  LocksBacked' /\ Conservation'
<1>1. available' = available /\ locked' = locked
  BY DEF ledger
<1>2. LocksBacked'
  BY <1>1, BackedIs, BackedNext
<1>3. Conservation'
  BY <1>1, BalancedMove
<1> QED BY <1>2, <1>3

LEMMA RejectMoney ==
  ASSUME IInv, LocksBacked, Conservation, NEW req \in Incoming, Reject(req)
  PROVE  LocksBacked' /\ Conservation'
<1>1. pc # "match" /\ pc' # "match" /\ orders' = orders
      /\ UNCHANGED ledger /\ supply' = supply
  BY DEF Incoming, Reject
<1>2. LiveOrders' = LiveOrders
  BY <1>1 DEF LiveOrders, InFlight
<1> QED BY <1>1, <1>2, SameMoney

\* A resting order leaves, in an idle engine or in front of a taker.
LEMMA CancelRestingMoney ==
  ASSUME IInv, LocksBacked, Conservation, NEW id \in DOMAIN orders,
         CancelResting(orders[id]), supply' = supply, InFlight' = InFlight
  PROVE  LocksBacked' /\ Conservation'
<1>1. /\ orders[id] \in LiveOrders
      /\ LiveOrders' = LiveOrders \ {orders[id]}
      /\ Unlock(orders[id])
  BY UnrestLive DEF CancelResting
<1> QED BY <1>1, UnlockMoney

LEMMA CancelOwnMakerMoney ==
  ASSUME IInv, LocksBacked, Conservation, CancelOwnMaker
  PROVE  LocksBacked' /\ Conservation'
<1> DEFINE m == BestMaker.id
<1>1. pc = "match" /\ HasOpposite
  BY DEF CancelOwnMaker, SelfTrade, CanMatch
<1>2. m \in DOMAIN orders /\ CancelResting(orders[m])
  BY <1>1, BestMakerFacts DEF CancelOwnMaker
<1>3. supply' = supply /\ InFlight' = InFlight
  BY DEF CancelOwnMaker, InFlight
<1> QED BY <1>2, <1>3, CancelRestingMoney

LEMMA CancelOrderMoney ==
  ASSUME IInv, LocksBacked, Conservation, NEW id \in DOMAIN orders,
         CancelOrder(id)
  PROVE  LocksBacked' /\ Conservation'
<1>1. CancelResting(orders[id]) /\ supply' = supply /\ InFlight' = InFlight
  BY DEF CancelOrder, InFlight
<1> QED BY <1>1, CancelRestingMoney

LEMMA AmendOrderMoney ==
  ASSUME IInv, LocksBacked, Conservation, NEW id \in DOMAIN orders,
         NEW ch \in Amendments, AmendOrder(id, ch)
  PROVE  LocksBacked' /\ Conservation'
<1>1. CancelResting(orders[id]) /\ supply' = supply /\ InFlight' = InFlight
  BY DEF AmendOrder, InFlight
<1> QED BY <1>1, CancelRestingMoney

\* The end of submitOrder: a filled order has no lock left to refund, one that
\* rests takes its lock to the book.
LEMMA FinishSubmitMoney ==
  ASSUME IInv, LocksBacked, Conservation, FinishSubmit
  PROVE  LocksBacked' /\ Conservation'
<1>1. /\ pc = "match" /\ pc' = "idle" /\ supply' = supply
      /\ taker \in Order /\ Sound(taker) /\ taker \in LiveOrders
      /\ taker.id \notin DOMAIN orders
      /\ \A id \in DOMAIN orders : orders[id].id = id
  BY LiveFacts DEF FinishSubmit, IInv, TypeOK
<1>2. /\ LiveOrders = {orders[id] : id \in DOMAIN orders} \cup {taker}
      /\ LiveOrders' = {orders'[id] : id \in DOMAIN orders'}
  BY <1>1 DEF LiveOrders, InFlight
<1>3. orders' = orders => LiveOrders' = LiveOrders \ {taker}
  BY <1>1, <1>2
<1>4. CASE FinishFilled
  <2>1. taker.lock = 0
    BY <1>1, <1>4, ZeroLock DEF FinishFilled
  <2>2. taker.user \in Accounts /\ LockAsset(taker.side) \in Assets
    BY <1>1, OwnColumn
  <2>3. available \in Ledgers /\ locked \in Ledgers
    BY DEF IInv, TypeOK, Ledgers
  <2>4. available' = available /\ locked' = locked /\ orders' = orders
    BY <1>4 DEF FinishFilled, ledger
  <2>5. \A f \in Ledgers, u \in Accounts, a \in Assets :
          Credit(f, u, a, 0) = f /\ Spend(f, u, a, 0) = f
    BY DEF Credit, Spend, Ledgers
  <2>6. Unlock(taker)
    BY <2>1, <2>2, <2>3, <2>4, <2>5 DEF Unlock
  <2> QED BY <1>1, <1>3, <2>4, <2>6, UnlockMoney
<1>5. CASE FinishCancelled
  BY <1>1, <1>3, <1>5, UnlockMoney DEF FinishCancelled
<1>6. CASE FinishResting
  <2>1. orders' = WithOrder(orders, taker) /\ UNCHANGED ledger
    BY <1>6 DEF FinishResting
  <2>2. /\ DOMAIN orders' = DOMAIN orders \cup {taker.id}
        /\ orders'[taker.id] = taker
        /\ \A x \in DOMAIN orders : orders'[x] = orders[x]
    BY <1>1, <2>1 DEF WithOrder
  <2>3. LiveOrders' = LiveOrders
    BY <1>2, <2>2
  <2> QED BY <1>1, <2>1, <2>3, SameMoney
<1> QED BY <1>4, <1>5, <1>6 DEF FinishSubmit

\* Deposits and withdrawals are what supply counts, and none of them overdraws.
LEMMA TransferMoney ==
  ASSUME IInv, LocksBacked, Conservation, NEW t \in Transfers,
         Deposit(t) \/ Withdraw(t)
  PROVE  LocksBacked' /\ Conservation'
<1> DEFINE x == t.user  c == t.asset  n == t.amount
<1>1. /\ x \in Users /\ x \in Accounts /\ c \in Assets /\ n \in Nat /\ n \in Int
  BY SpotAssumption DEF Accounts
<1>2. /\ available \in Ledgers /\ locked \in Ledgers /\ supply \in [Assets -> Int]
  BY DEF IInv, TypeOK, Ledgers
<1>3. locked' = locked /\ LiveOrders' = LiveOrders
  BY DEF Deposit, Withdraw, LiveOrders, InFlight
<1>4. \/ /\ available' = Credit(available, x, c, n)
         /\ supply' = [supply EXCEPT ![c] = @ + n]
      \/ /\ available' = Spend(available, x, c, n) /\ available[x][c] >= n
         /\ supply' = [supply EXCEPT ![c] = @ - n]
  BY DEF Deposit, Withdraw
<1> HIDE DEF x, c, n
<1>5. LocksBacked'
  <2> SUFFICES ASSUME NEW u \in Accounts, NEW a \in Assets
               PROVE  /\ available'[u][a] >= 0
                      /\ locked'[u][a] = Locks(LiveOrders', u, a)
    BY BackedNext
  <2>1. available[u][a] >= 0 /\ locked[u][a] = Locks(LiveOrders, u, a)
    BY BackedIs
  <2>2. /\ available[u][a] \in Int
        /\ Credit(available, x, c, n)[u][a] =
             IF u = x /\ a = c THEN available[u][a] + n ELSE available[u][a]
        /\ Spend(available, x, c, n)[u][a] =
             IF u = x /\ a = c THEN available[u][a] - n ELSE available[u][a]
    BY <1>1, <1>2, MovedColumn
  <2> QED BY <1>1, <1>3, <1>4, <2>1, <2>2
<1>6. Conservation'
  <2> SUFFICES ASSUME NEW a \in Assets
               PROVE  Holding(available', locked', a)
                        = SumFunction([u \in Users |-> StartBalance[u][a]])
                            + supply'[a]
    BY DEF Conservation, Holding
  <2> DEFINE start == [u \in Users |-> StartBalance[u][a]]
             m == IF c = a THEN n ELSE 0
  <2>1. SumFunction(start) \in Int
    <3>1. DOMAIN start = Users /\ \A u \in Users : start[u] \in Int
      BY SpotAssumption
    <3> HIDE DEF start
    <3>2. SumFunctionOnSet(start, Users) \in Int
      BY <3>1, AccountsFinite, SumInt
    <3> QED BY <3>1, <3>2 DEF SumFunction
  <2>2. Holding(available, locked, a) = SumFunction(start) + supply[a]
    BY DEF Conservation, Holding
  <2> HIDE DEF start
  <2>3. /\ Holding(Credit(available, x, c, n), locked, a)
             = Holding(available, locked, a) + m
        /\ Holding(Spend(available, x, c, n), locked, a)
             = Holding(available, locked, a) - m
    BY <1>1, <1>2, HoldingMoves
  <2>4. /\ supply[a] \in Int /\ m \in Int
        /\ [supply EXCEPT ![c] = @ + n][a] = supply[a] + m
        /\ [supply EXCEPT ![c] = @ - n][a] = supply[a] - m
    BY <1>1, <1>2
  <2> HIDE DEF m
  <2>5. CASE /\ available' = Credit(available, x, c, n)
             /\ supply' = [supply EXCEPT ![c] = @ + n]
    <3>1. Holding(available', locked', a) = Holding(available, locked, a) + m
      BY <1>3, <2>3, <2>5
    <3>2. supply'[a] = supply[a] + m
      BY <2>4, <2>5
    <3>3. Holding(available', locked', a) = SumFunction(start) + supply'[a]
      BY <2>1, <2>2, <2>4, <3>1, <3>2
    <3> QED BY <3>3 DEF start
  <2>6. CASE /\ available' = Spend(available, x, c, n)
             /\ supply' = [supply EXCEPT ![c] = @ - n]
    <3>1. Holding(available', locked', a) = Holding(available, locked, a) - m
      BY <1>3, <2>3, <2>6
    <3>2. supply'[a] = supply[a] - m
      BY <2>4, <2>6
    <3>3. Holding(available', locked', a) = SumFunction(start) + supply'[a]
      BY <2>1, <2>2, <2>4, <3>1, <3>2
    <3> QED BY <3>3 DEF start
  <2> QED BY <1>4, <2>5, <2>6
<1> QED BY <1>5, <1>6

\* The amounts a fill moves are not negative.
LEMMA FillAmounts ==
  ASSUME IInv, WillFill
  PROVE  /\ FillQty \in Nat /\ FillNotional \in Nat /\ BuyBudget \in Int
         /\ BuyFee \in Nat /\ SellFee \in Nat /\ SellFee <= FillNotional
         /\ Refund \in Nat /\ BuyBudget = Refund + FillNotional + BuyFee
<1>1. /\ FillQty \in Nat /\ FillNotional \in Nat /\ BuyBudget \in Int
      /\ BuyBudget >= FillNotional
  BY FillFacts
<1>2. FeeOn(FillNotional, BuyerBps) \in Nat /\ FeeOn(FillNotional, SellerBps) \in Nat
  BY <1>1, FeeBounds, FeeConstants DEF BuyerBps, SellerBps
<1>3. SellFee \in Nat /\ SellFee <= FillNotional
  BY <1>1, <1>2 DEF SellFee, MinBig
<1>4. BuyFee \in Nat /\ BuyFee <= BuyBudget - FillNotional
  BY <1>1, <1>2 DEF BuyFee, MinBig
<1> QED BY <1>1, <1>3, <1>4 DEF Refund

\* The live orders after a fill, and what they hold.
LEMMA FillLocks ==
  ASSUME IInv, ExecuteFill, NEW u, NEW a
  PROVE  LET t == AfterFill(taker, FillQty)  m == AfterFill(BestMaker, FillQty)
         IN  /\ Locks(LiveOrders, u, a) \in Int
             /\ Share(taker, u, a) \in Int /\ Share(BestMaker, u, a) \in Int
             /\ Share(t, u, a) \in Int /\ Share(m, u, a) \in Int
             /\ Locks(LiveOrders', u, a)
                  = Locks(LiveOrders, u, a) - Share(taker, u, a)
                      - Share(BestMaker, u, a) + Share(t, u, a) + Share(m, u, a)
<1> PICK t : t = AfterFill(taker, FillQty)
  OBVIOUS
<1> PICK m : m = AfterFill(BestMaker, FillQty)
  OBVIOUS
<1> PICK b : b = BestMaker
  OBVIOUS
<1> PICK o : o = taker
  OBVIOUS
<1> PICK L : L = LiveOrders
  OBVIOUS
<1> DEFINE N == L \ {o, b}
<1>1. pc = "match" /\ HasOpposite /\ WillFill
  BY DEF ExecuteFill, WillFill, CanMatch
<1>2. /\ o \in Order /\ Sound(o) /\ b \in Order /\ Sound(b)
      /\ b.id \in DOMAIN orders /\ orders[b.id] = b
  BY <1>1, BestMakerFacts
<1>3. FillQty \in Nat /\ FillQty <= Rem(o) /\ FillQty <= Rem(b)
  BY <1>1, FillFacts
<1>4. /\ t \in Order /\ t.id = o.id
      /\ m \in Order /\ Sound(m) /\ m.id = b.id
  BY <1>2, <1>3, AfterFillFacts
<1>5. /\ LockSet(L) /\ b \in L /\ o \in L
      /\ o.id \notin DOMAIN orders
      /\ \A id \in DOMAIN orders : orders[id].id = id
      /\ o.lock \in Int /\ b.lock \in Int /\ t.lock \in Int /\ m.lock \in Int
  BY <1>1, <1>2, <1>4, LiveFacts DEF Order
<1>6. LockSet(L)
  BY LiveFacts
<1>7. \A x, y \in L : x.id = y.id => x = y
  BY LiveFacts
<1>8. o.id # b.id
  BY <1>2, <1>5
<1>9. /\ Locks(L, u, a) \in Int
      /\ Share(o, u, a) \in Int /\ Share(b, u, a) \in Int
      /\ Share(t, u, a) \in Int /\ Share(m, u, a) \in Int
      /\ Locks(N \cup {t}, u, a)
           = Locks(L, u, a) - Share(o, u, a) - Share(b, u, a) + Share(t, u, a)
      /\ Locks((N \cup {t}) \cup {m}, u, a)
           = Locks(L, u, a) - Share(o, u, a) - Share(b, u, a) + Share(t, u, a)
               + Share(m, u, a)
  <2> PICK M : M = L \ {o}
    OBVIOUS
  <2> PICK K : K = N \cup {t}
    OBVIOUS
  <2> PICK J : J = K \cup {m}
    OBVIOUS
  <2>1. /\ Locks(L, u, a) \in Int /\ Share(o, u, a) \in Int
        /\ Locks(M, u, a) = Locks(L, u, a) - Share(o, u, a)
    BY <1>5, <1>6, LocksRemove
  <2>2. LockSet(M) /\ b \in M /\ M \ {b} = N
    BY <1>5, <1>6, <1>8, LockSetRemove
  <2>3. /\ Locks(M, u, a) \in Int /\ Share(b, u, a) \in Int
        /\ Locks(M \ {b}, u, a) = Locks(M, u, a) - Share(b, u, a)
    BY <2>2, LocksRemove
  <2>4. LockSet(M \ {b})
    BY <2>2, LockSetRemove
  <2>5. t \notin N /\ m \notin N /\ m # t
    BY <1>4, <1>5, <1>7, <1>8
  <2> HIDE DEF N
  <2>6. LockSet(N) /\ LockSet(K) /\ m \notin K
    BY <1>5, <2>2, <2>4, <2>5, LockSetAdd
  <2>7. /\ Share(t, u, a) \in Int
        /\ Locks(K, u, a) = Locks(N, u, a) + Share(t, u, a)
    BY <1>5, <2>5, <2>6, LocksJoin
  <2>8. /\ Share(m, u, a) \in Int
        /\ Locks(J, u, a) = Locks(K, u, a) + Share(m, u, a)
    <3>1. J = K \cup {m} /\ m \notin K /\ m.lock \in Int
      BY <1>5, <2>6
    <3> QED BY ONLY <2>6, <3>1, LocksJoin
  <2>9. Locks(N, u, a) = Locks(M \ {b}, u, a)
    BY <2>2
  <2>10. /\ Locks(N \cup {t}, u, a) = Locks(K, u, a)
         /\ Locks((N \cup {t}) \cup {m}, u, a) = Locks(J, u, a)
    OBVIOUS
  <2> QED BY <2>1, <2>3, <2>7, <2>8, <2>9, <2>10
<1>10. /\ pc' = "match" /\ taker' = t
       /\ IF Rem(m) = 0 THEN Unrest(b)
                        ELSE orders' = [orders EXCEPT ![m.id] = m]
  BY <1>1 DEF ExecuteFill
<1>11. /\ L = {orders[x] : x \in DOMAIN orders} \cup {o}
       /\ LiveOrders' = {orders'[x] : x \in DOMAIN orders'} \cup {t}
  BY <1>1, <1>10 DEF LiveOrders, InFlight
<1>12. N = {orders[x] : x \in DOMAIN orders \ {b.id}}
  <2>1. \A x \in DOMAIN orders \ {b.id} : orders[x] # o /\ orders[x] # b
    BY <1>2, <1>5
  <2> QED BY <1>2, <1>11, <2>1
<1>13. CASE Rem(m) = 0
  <2>1. LiveOrders' = N \cup {t}
    <3>1. orders' = [x \in DOMAIN orders \ {b.id} |-> orders[x]]
      BY <1>10, <1>13 DEF Unrest
    <3>2. {orders'[x] : x \in DOMAIN orders'} = N
      BY <1>12, <3>1
    <3> QED BY <1>11, <3>2
  <2>2. Share(m, u, a) = 0
    BY <1>4, <1>13, ZeroLock DEF Share
  <2> HIDE DEF N
  <2>3. Locks(LiveOrders', u, a) = Locks(N \cup {t}, u, a)
    BY <2>1
  <2> QED BY <1>9, <2>2, <2>3
<1>14. CASE Rem(m) # 0
  <2>1. LiveOrders' = (N \cup {t}) \cup {m}
    <3>1. orders' = [orders EXCEPT ![b.id] = m]
      BY <1>4, <1>10, <1>14
    <3>2. /\ DOMAIN orders' = DOMAIN orders /\ orders'[b.id] = m
          /\ \A x \in DOMAIN orders \ {b.id} : orders'[x] = orders[x]
      BY <1>2, <3>1
    <3>3. {orders'[x] : x \in DOMAIN orders'} = N \cup {m}
      BY <1>2, <1>12, <3>2
    <3> QED BY <1>11, <3>3
  <2> HIDE DEF N
  <2>2. Locks(LiveOrders', u, a) = Locks((N \cup {t}) \cup {m}, u, a)
    BY <2>1
  <2> QED BY <1>9, <2>2
<1> QED BY <1>13, <1>14

\* What the fill frees: the buyer's budget, the seller's quantity.
LEMMA FillFrees ==
  ASSUME IInv, WillFill, NEW u, NEW a
  PROVE  LET t == AfterFill(taker, FillQty)  m == AfterFill(BestMaker, FillQty)
         IN  Share(taker, u, a) - Share(t, u, a)
               + (Share(BestMaker, u, a) - Share(m, u, a))
             = (IF Buyer.user = u /\ a = "quote" THEN BuyBudget ELSE 0)
                 + (IF Seller.user = u /\ a = "base" THEN FillQty ELSE 0)
<1> PICK q : q = FillQty
  OBVIOUS
<1>1. /\ taker \in Order /\ Sound(taker) /\ taker.side \in Sides
      /\ BestMaker \in Order /\ Sound(BestMaker)
      /\ BestMaker.side = Opposite(taker.side)
  BY BestMakerFacts DEF WillFill, CanMatch
<1>2. q \in Nat /\ q <= Rem(taker) /\ q <= Rem(BestMaker)
  BY FillFacts
<1>3. ASSUME NEW o \in Order, Sound(o), o.side = "buy", q <= Rem(o)
      PROVE  Share(o, u, a) - Share(AfterFill(o, q), u, a)
               = IF o.user = u /\ a = "quote"
                 THEN o.lock - AfterFill(o, q).lock ELSE 0
  <2> PICK f : f = AfterFill(o, q)
    OBVIOUS
  <2>1. f \in Order /\ f.user = o.user /\ f.side = o.side
    BY <1>2, <1>3, AfterFillFacts
  <2>2. f.lock \in Int /\ o.lock \in Int
    BY <1>3, <2>1 DEF Order
  <2> QED BY <1>3, <2>1, <2>2 DEF Share, LockAsset
<1>4. ASSUME NEW o \in Order, Sound(o), o.side = "sell", q <= Rem(o)
      PROVE  Share(o, u, a) - Share(AfterFill(o, q), u, a)
               = IF o.user = u /\ a = "base" THEN q ELSE 0
  <2> PICK f : f = AfterFill(o, q)
    OBVIOUS
  <2>1. f \in Order /\ f.user = o.user /\ f.side = o.side
    BY <1>2, <1>4, AfterFillFacts
  <2>2. f.lock \in Int /\ o.lock \in Int /\ f.lock = o.lock - q
    <3>1. Rem(f) = Rem(o) - q /\ Sound(f)
      BY <1>2, <1>4, AfterFillFacts
    <3> QED BY <1>4, <2>1, <3>1 DEF Sound, LockFor, Order
  <2> QED BY <1>2, <1>4, <2>1, <2>2 DEF Share, LockAsset
<1>5. CASE taker.side = "buy"
  <2>1. Buyer = taker /\ Seller = BestMaker /\ BestMaker.side = "sell"
    BY <1>1, <1>5 DEF Buyer, Seller, Opposite
  <2>2. BuyBudget = taker.lock - AfterFill(taker, q).lock
    BY <2>1 DEF BuyBudget
  <2> QED BY <1>1, <1>2, <1>3, <1>4, <1>5, <2>1, <2>2
<1>6. CASE taker.side = "sell"
  <2>1. Buyer = BestMaker /\ Seller = taker /\ BestMaker.side = "buy"
    BY <1>1, <1>6 DEF Buyer, Seller, Opposite
  <2>2. BuyBudget = BestMaker.lock - AfterFill(BestMaker, q).lock
    BY <2>1 DEF BuyBudget
  <2>3. /\ Share(taker, u, a) - Share(AfterFill(taker, q), u, a)
             = IF Seller.user = u /\ a = "base" THEN q ELSE 0
        /\ Share(BestMaker, u, a) - Share(AfterFill(BestMaker, q), u, a)
             = IF Buyer.user = u /\ a = "quote" THEN BuyBudget ELSE 0
    BY <1>1, <1>2, <1>3, <1>4, <1>6, <2>1, <2>2
  <2>4. BuyBudget \in Int
    BY FillFacts
  <2> QED BY <1>2, <2>3, <2>4
<1> QED BY <1>1, <1>5, <1>6 DEF Sides

\* A fill moves money between the two traders and the fee account, pays no more
\* than it frees, and leaves every lock with its order.
LEMMA ExecuteFillMoney ==
  ASSUME IInv, LocksBacked, Conservation, ExecuteFill
  PROVE  LocksBacked' /\ Conservation'
<1> DEFINE x == Buyer.user  y == Seller.user  q == FillQty  r == Refund
           s == FillNotional - SellFee  e == BuyFee + SellFee  d == BuyBudget
           a1 == Credit(available, x, "quote", r)
           a2 == Credit(a1, x, "base", q)
           a3 == Credit(a2, y, "quote", s)
           a4 == Credit(a3, FEE, "quote", e)
           l1 == Spend(locked, x, "quote", d)
           l2 == Spend(l1, y, "base", q)
<1>1. WillFill /\ SettleSpotFill /\ supply' = supply
  BY DEF ExecuteFill
<1>2. available' = a4 /\ locked' = l2
  BY <1>1 DEF SettleSpotFill
<1>3. /\ q \in Nat /\ r \in Nat /\ s \in Nat /\ e \in Nat /\ d \in Int
      /\ q \in Int /\ r \in Int /\ s \in Int /\ e \in Int
      /\ r + s + e = d
  BY <1>1, FillAmounts
<1>4. x \in Accounts /\ y \in Accounts /\ FEE \in Accounts
      /\ "base" \in Assets /\ "quote" \in Assets
  <2>1. Buyer \in Order /\ Seller \in Order
    BY <1>1, FillFacts
  <2>2. x \in Users /\ y \in Users
    BY <2>1 DEF Order
  <2> QED BY <2>2 DEF Accounts, Assets
<1>5. available \in Ledgers /\ locked \in Ledgers
  BY DEF IInv, TypeOK, Ledgers
<1>6. \A u, a : (IF x = u /\ a = "quote" THEN d ELSE 0)
                   + (IF y = u /\ a = "base" THEN q ELSE 0)
                 = Locks(LiveOrders, u, a) - Locks(LiveOrders', u, a)
                /\ Locks(LiveOrders, u, a) \in Int
                /\ Locks(LiveOrders', u, a) \in Int
  <2> TAKE u, a
  <2> PICK t : t = AfterFill(taker, FillQty)
    OBVIOUS
  <2> PICK m : m = AfterFill(BestMaker, FillQty)
    OBVIOUS
  <2>1. /\ Locks(LiveOrders, u, a) \in Int
        /\ Share(taker, u, a) \in Int /\ Share(BestMaker, u, a) \in Int
        /\ Share(t, u, a) \in Int /\ Share(m, u, a) \in Int
        /\ Locks(LiveOrders', u, a)
             = Locks(LiveOrders, u, a) - Share(taker, u, a)
                 - Share(BestMaker, u, a) + Share(t, u, a) + Share(m, u, a)
    BY FillLocks
  <2>2. Share(taker, u, a) - Share(t, u, a)
          + (Share(BestMaker, u, a) - Share(m, u, a))
        = (IF x = u /\ a = "quote" THEN d ELSE 0)
            + (IF y = u /\ a = "base" THEN q ELSE 0)
    BY <1>1, FillFrees
  <2> HIDE DEF x, y, q, d
  <2> QED BY <2>1, <2>2
<1> HIDE DEF x, y, q, r, s, e, d
<1>7. a1 \in Ledgers /\ l1 \in Ledgers
  BY <1>3, <1>4, <1>5, MovedColumn
<1>8. \A u \in Accounts, a \in Assets :
        /\ available[u][a] \in Int /\ locked[u][a] \in Int
        /\ a1[u][a] = IF u = x /\ a = "quote" THEN available[u][a] + r
                                            ELSE available[u][a]
        /\ l1[u][a] = IF u = x /\ a = "quote" THEN locked[u][a] - d
                                            ELSE locked[u][a]
  BY <1>3, <1>4, <1>5, MovedColumn
<1>9. \A a \in Assets :
        /\ Holding(available, locked, a) \in Int
        /\ Holding(a1, locked, a)
             = Holding(available, locked, a) + (IF "quote" = a THEN r ELSE 0)
  BY <1>3, <1>4, <1>5, HoldingMoves
<1> HIDE DEF a1
<1>10. a2 \in Ledgers
  BY <1>3, <1>4, <1>7, MovedColumn
<1>11. \A u \in Accounts, a \in Assets :
         /\ a1[u][a] \in Int
         /\ a2[u][a] = IF u = x /\ a = "base" THEN a1[u][a] + q ELSE a1[u][a]
  BY <1>3, <1>4, <1>7, MovedColumn
<1>12. \A a \in Assets :
         /\ Holding(a1, locked, a) \in Int
         /\ Holding(a2, locked, a)
              = Holding(a1, locked, a) + (IF "base" = a THEN q ELSE 0)
  BY <1>3, <1>4, <1>5, <1>7, HoldingMoves
<1> HIDE DEF a2
<1>13. a3 \in Ledgers
  BY <1>3, <1>4, <1>10, MovedColumn
<1>14. \A u \in Accounts, a \in Assets :
         /\ a2[u][a] \in Int
         /\ a3[u][a] = IF u = y /\ a = "quote" THEN a2[u][a] + s ELSE a2[u][a]
  BY <1>3, <1>4, <1>10, MovedColumn
<1>15. \A a \in Assets :
         /\ Holding(a2, locked, a) \in Int
         /\ Holding(a3, locked, a)
              = Holding(a2, locked, a) + (IF "quote" = a THEN s ELSE 0)
  BY <1>3, <1>4, <1>5, <1>10, HoldingMoves
<1> HIDE DEF a3
<1>16. a4 \in Ledgers
  BY <1>3, <1>4, <1>13, MovedColumn
<1>17. \A u \in Accounts, a \in Assets :
         /\ a3[u][a] \in Int
         /\ a4[u][a] = IF u = FEE /\ a = "quote" THEN a3[u][a] + e ELSE a3[u][a]
  BY <1>3, <1>4, <1>13, MovedColumn
<1>18. \A a \in Assets :
         /\ Holding(a3, locked, a) \in Int
         /\ Holding(a4, locked, a)
              = Holding(a3, locked, a) + (IF "quote" = a THEN e ELSE 0)
  BY <1>3, <1>4, <1>5, <1>13, HoldingMoves
<1> HIDE DEF a4
<1>19. \A a \in Assets :
         /\ Holding(a4, locked, a) \in Int
         /\ Holding(a4, l1, a)
              = Holding(a4, locked, a) - (IF "quote" = a THEN d ELSE 0)
  BY <1>3, <1>4, <1>5, <1>16, HoldingMoves
<1> HIDE DEF l1
<1>20. \A u \in Accounts, a \in Assets :
         /\ l1[u][a] \in Int
         /\ l2[u][a] = IF u = y /\ a = "base" THEN l1[u][a] - q ELSE l1[u][a]
  BY <1>3, <1>4, <1>7, MovedColumn
<1>21. \A a \in Assets :
         /\ Holding(a4, l1, a) \in Int
         /\ Holding(a4, l2, a)
              = Holding(a4, l1, a) - (IF "base" = a THEN q ELSE 0)
  BY <1>3, <1>4, <1>7, <1>16, HoldingMoves
<1> HIDE DEF l2
<1>22. LocksBacked'
  <2> SUFFICES ASSUME NEW u \in Accounts, NEW a \in Assets
               PROVE  /\ available'[u][a] >= 0
                      /\ locked'[u][a] = Locks(LiveOrders', u, a)
    BY BackedNext
  <2>1. available[u][a] >= 0 /\ locked[u][a] = Locks(LiveOrders, u, a)
    BY BackedIs
  <2>2. a4[u][a] >= 0
    <3>1. a1[u][a] \in Int /\ a1[u][a] >= 0
      BY <1>3, <1>8, <2>1
    <3>2. a2[u][a] \in Int /\ a2[u][a] >= 0
      BY <1>3, <1>11, <3>1
    <3>3. a3[u][a] \in Int /\ a3[u][a] >= 0
      BY <1>3, <1>14, <3>2
    <3> QED BY <1>3, <1>17, <3>3
  <2>3. l2[u][a] = locked[u][a] - ((IF x = u /\ a = "quote" THEN d ELSE 0)
                                     + (IF y = u /\ a = "base" THEN q ELSE 0))
    BY <1>3, <1>8, <1>20
  <2>4. l2[u][a] = Locks(LiveOrders', u, a)
    BY <1>6, <2>1, <2>3
  <2> QED BY <1>2, <2>2, <2>4
<1>23. Conservation'
  <2> SUFFICES ASSUME NEW a \in Assets
               PROVE  Holding(available', locked', a) = Holding(available, locked, a)
    BY <1>1, BalancedMove
  <2>1. Holding(a4, l2, a) = Holding(available, locked, a)
    <3>0. /\ Holding(available, locked, a) \in Int
          /\ Holding(a1, locked, a) \in Int /\ Holding(a2, locked, a) \in Int
          /\ Holding(a3, locked, a) \in Int /\ Holding(a4, locked, a) \in Int
          /\ Holding(a4, l1, a) \in Int
      BY <1>9, <1>12, <1>15, <1>18, <1>19, <1>21
    <3>1. CASE a = "quote"
      <4>1. /\ Holding(a1, locked, a) = Holding(available, locked, a) + r
            /\ Holding(a2, locked, a) = Holding(a1, locked, a) + 0
        BY <1>9, <1>12, <3>1
      <4>2. /\ Holding(a3, locked, a) = Holding(a2, locked, a) + s
            /\ Holding(a4, locked, a) = Holding(a3, locked, a) + e
        BY <1>15, <1>18, <3>1
      <4>3. /\ Holding(a4, l1, a) = Holding(a4, locked, a) - d
            /\ Holding(a4, l2, a) = Holding(a4, l1, a) - 0
        BY <1>19, <1>21, <3>1
      <4>4. Holding(a4, l1, a) = Holding(available, locked, a) + r + 0 + s + e - d
        BY <1>3, <3>0, <4>1, <4>2, <4>3
      <4>5. r + 0 + s + e - d = 0
        BY <1>3
      <4>6. Holding(a4, l1, a) = Holding(available, locked, a)
        BY <1>3, <3>0, <4>4, <4>5
      <4> QED BY <3>0, <4>3, <4>6
    <3>2. CASE a = "base"
      <4>1. /\ Holding(a1, locked, a) = Holding(available, locked, a) + 0
            /\ Holding(a2, locked, a) = Holding(a1, locked, a) + q
        BY <1>9, <1>12, <3>2
      <4>2. /\ Holding(a3, locked, a) = Holding(a2, locked, a) + 0
            /\ Holding(a4, locked, a) = Holding(a3, locked, a) + 0
        BY <1>15, <1>18, <3>2
      <4>3. /\ Holding(a4, l1, a) = Holding(a4, locked, a) - 0
            /\ Holding(a4, l2, a) = Holding(a4, l1, a) - q
        BY <1>19, <1>21, <3>2
      <4> QED BY <1>3, <3>0, <4>1, <4>2, <4>3
    <3> QED BY <3>1, <3>2 DEF Assets
  <2> QED BY <1>2, <2>1
<1> QED BY <1>22, <1>23

LEMMA InitMoney == Init => LocksBacked /\ Conservation
<1> SUFFICES ASSUME Init PROVE LocksBacked /\ Conservation
  OBVIOUS
<1>1. LiveOrders = {}
  BY DEF Init, LiveOrders, InFlight
<1>2. LocksBacked
  <2> SUFFICES ASSUME NEW u \in Accounts, NEW a \in Assets
               PROVE  available[u][a] >= 0 /\ locked[u][a] = Locks(LiveOrders, u, a)
    BY BackedIs
  <2>1. available[u][a] >= 0 /\ locked[u][a] = 0
    BY SpotAssumption DEF Init, Accounts
  <2>2. Locks(LiveOrders, u, a) = 0
    <3> DEFINE f == [o \in {o \in LiveOrders : o.user = u
                                  /\ LockAsset(o.side) = a} |-> o.lock]
    <3>1. Locks(LiveOrders, u, a) = SumFunctionOnSet(f, DOMAIN f)
      BY DEF Locks, SumFunction
    <3>2. DOMAIN f = {}
      BY <1>1
    <3> HIDE DEF f
    <3>3. SumFunctionOnSet(f, {}) = 0
      BY FS_EmptySet, SumEquation
    <3> QED BY <3>1, <3>2, <3>3
  <2> QED BY <2>1, <2>2
<1>3. Conservation
  <2> SUFFICES ASSUME NEW a \in Assets
               PROVE  Holding(available, locked, a)
                        = SumFunction([u \in Users |-> StartBalance[u][a]])
                            + supply[a]
    BY DEF Conservation, Holding
  <2> DEFINE f == [u \in Accounts |-> available[u][a] + locked[u][a]]
             g == [u \in Users |-> StartBalance[u][a]]
  <2>1. /\ \A u \in Users : f[u] = g[u] /\ g[u] \in Int
        /\ f[FEE] = 0 /\ supply[a] = 0
    BY SpotAssumption DEF Init, Accounts
  <2>2. DOMAIN f = Accounts /\ DOMAIN g = Users
    OBVIOUS
  <2>3. FEE \in Accounts /\ Accounts \ {FEE} = Users
    BY SpotAssumption DEF Accounts
  <2>4. \A u \in Accounts : f[u] \in Int
    BY <2>1, <2>3 DEF Accounts
  <2>5. Holding(available, locked, a) = SumFunctionOnSet(f, Accounts)
        /\ SumFunction(g) = SumFunctionOnSet(g, Users)
    BY <2>2 DEF Holding, SumFunction
  <2> HIDE DEF f, g
  <2>6. SumFunctionOnSet(f, Accounts)
          = f[FEE] + SumFunctionOnSet(f, Accounts \ {FEE})
    BY <2>3, <2>4, AccountsFinite, SumTakeOut
  <2>7. SumFunctionOnSet(f, Users) = SumFunctionOnSet(g, Users)
        /\ SumFunctionOnSet(g, Users) \in Int
    BY <2>1, AccountsFinite, SumSame, SumInt
  <2>8. SumFunctionOnSet(f, Accounts \ {FEE}) = SumFunctionOnSet(f, Users)
    BY <2>3
  <2>9. Holding(available, locked, a) = SumFunction(g) + supply[a]
    BY <2>1, <2>5, <2>6, <2>7, <2>8
  <2> QED BY <2>9 DEF g
<1> QED BY <1>2, <1>3

\* The two halves of the money invariant are inductive together, given that
\* every order's lock is what its remainder needs.
THEOREM MoneyInvariant == Spec => [](LocksBacked /\ Conservation)
<1>1. IInv /\ LocksBacked /\ Conservation /\ [Next]_vars
        => LocksBacked' /\ Conservation'
  <2> SUFFICES ASSUME IInv, LocksBacked, Conservation, [Next]_vars
               PROVE  LocksBacked' /\ Conservation'
    OBVIOUS
  <2>1. CASE SubmitOrder
    BY <2>1, RejectMoney, AcceptMoney DEF SubmitOrder
  <2>2. CASE MatchOrder
    BY <2>2, CancelOwnMakerMoney, ExecuteFillMoney DEF MatchOrder
  <2>3. CASE FinishSubmit
    BY <2>3, FinishSubmitMoney
  <2>4. CASE \E id \in DOMAIN orders : CancelOrder(id)
    BY <2>4, CancelOrderMoney
  <2>5. CASE \E id \in DOMAIN orders, ch \in Amendments : AmendOrder(id, ch)
    BY <2>5, AmendOrderMoney
  <2>6. CASE \E t \in Transfers : Deposit(t) \/ Withdraw(t)
    BY <2>6, TransferMoney
  <2>7. CASE UNCHANGED vars
    <3>1. UNCHANGED ledger /\ supply' = supply /\ LiveOrders' = LiveOrders
      BY <2>7 DEF vars, ledger, LiveOrders, InFlight
    <3> QED BY <3>1, SameMoney
  <2> QED BY <2>1, <2>2, <2>3, <2>4, <2>5, <2>6, <2>7 DEF Next
<1> QED BY InitMoney, Invariant, <1>1, PTL DEF Spec

\* Money is conserved exactly, after every single fill.
THEOREM MoneyConserved == Spec => []Conservation
BY MoneyInvariant, PTL

\* Every locked unit belongs to a live order and no balance is negative: the
\* ledger's checks never throw.
THEOREM LocksAreBacked == Spec => []LocksBacked
BY MoneyInvariant, PTL

\* The live orders are a function of their ids, and nothing more: what lets two
\* of them be compared as a whole, and not order by order.
IsFunction(f) == f = [x \in DOMAIN f |-> f[x]]

LEMMA OrdersFunction == Spec => []IsFunction(orders)
<1>1. Init => IsFunction(orders)
  BY DEF Init, IsFunction
<1>2. ASSUME NEW o, Unrest(o) PROVE IsFunction(orders')
  BY <1>2 DEF Unrest, IsFunction
<1>3. IsFunction(orders) /\ [Next]_vars => IsFunction(orders)'
  <2> SUFFICES ASSUME IsFunction(orders), [Next]_vars PROVE IsFunction(orders')
    OBVIOUS
  <2>1. CASE SubmitOrder
    BY <2>1 DEF SubmitOrder, Reject, Accept
  <2>2. CASE MatchOrder
    <3>1. CASE CancelOwnMaker
      BY <3>1, <1>2 DEF CancelOwnMaker, CancelResting
    <3>2. CASE ExecuteFill
      <4>1. ASSUME NEW o, orders' = [orders EXCEPT ![o.id] = o]
            PROVE  IsFunction(orders')
        BY <4>1 DEF IsFunction
      <4> QED BY <3>2, <4>1, <1>2 DEF ExecuteFill
    <3> QED BY <2>2, <3>1, <3>2 DEF MatchOrder
  <2>3. CASE FinishSubmit
    <3>1. ASSUME orders' = WithOrder(orders, taker) PROVE IsFunction(orders')
      BY <3>1 DEF WithOrder, IsFunction
    <3> QED
      BY <2>3, <3>1 DEF FinishSubmit, FinishFilled, FinishCancelled, FinishResting
  <2>4. CASE \E id \in DOMAIN orders : CancelOrder(id)
    BY <2>4, <1>2 DEF CancelOrder, CancelResting
  <2>5. CASE \E id \in DOMAIN orders, ch \in Amendments : AmendOrder(id, ch)
    BY <2>5, <1>2 DEF AmendOrder, CancelResting
  <2>6. CASE \E t \in Transfers : Deposit(t) \/ Withdraw(t)
    BY <2>6 DEF Deposit, Withdraw
  <2>7. CASE UNCHANGED vars
    BY <2>7 DEF vars
  <2> QED BY <2>1, <2>2, <2>3, <2>4, <2>5, <2>6, <2>7 DEF Next
<1> QED BY <1>1, <1>3, PTL DEF Spec

\* The half of an exact restart that concerns the orders: the locks that
\* restoreState recomputes are the live locks, to the unit.
LEMMA RestoredLocks ==
  IInv /\ IsFunction(orders) => RestoredOrders = orders
<1> SUFFICES ASSUME IInv, IsFunction(orders) PROVE RestoredOrders = orders
  OBVIOUS
<1>1. ASSUME NEW id \in DOMAIN orders
      PROVE  [orders[id] EXCEPT !.lock = LockFor(orders[id])] = orders[id]
  <2>1. orders[id] \in Order /\ orders[id].lock = LockFor(orders[id])
    BY DEF IInv, TypeOK, Sound
  <2> QED BY <2>1 DEF Order
<1>2. orders = [id \in DOMAIN orders |-> orders[id]]
  BY DEF IsFunction
<1> QED BY <1>1, <1>2 DEF RestoredOrders

\* A restart, wherever it falls between two operations, rebuilds the engine it
\* replaces: the locks that restoreState recomputes are the live locks to the
\* unit, and putting the orders back oldest first gives each its place.
THEOREM RestartIsExact == Spec => []RestoreExact
<1>1. IInv /\ IsFunction(orders) => RestoreExact
  <2> SUFFICES ASSUME IInv, IsFunction(orders) PROVE BookOf(orders) = book
    BY RestoredLocks DEF RestoreExact
  <2>1. /\ Priced(orders) /\ IsFiniteSet(DOMAIN orders)
        /\ \A x \in DOMAIN orders : orders[x].id = x
    <3>1. DOMAIN orders \subseteq 1..nextId - 1 /\ nextId - 1 \in Nat
      BY DEF IInv, TypeOK
    <3>2. IsFiniteSet(1..nextId - 1)
      BY <3>1, FS_Interval
    <3> QED BY <3>1, <3>2, FS_Subset, PricedOrders DEF IInv, TypeOK
  <2>2. \A s \in Sides : BookOf(orders)[s] = book[s]
    BY <2>1, RestoredQueue DEF IInv
  <2>3. book = [s \in Sides |-> book[s]] /\ BookOf(orders) = [s \in Sides |-> BookOf(orders)[s]]
    BY DEF IInv, TypeOK, BookOf
  <2> QED BY <2>2, <2>3
<1> QED BY <1>1, Invariant, OrdersFunction, PTL
=============================================================================
