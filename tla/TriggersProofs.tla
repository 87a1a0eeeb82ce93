--------------------------- MODULE TriggersProofs ---------------------------
(***************************************************************************)
(* Theorems about the conditional and one-cancels-other orders (Triggers)  *)
(* and about the brackets made of them (Bracket), for any users, groups,   *)
(* requests, prices, ticks and trails: the engine under them stays sound,  *)
(* the OCO index is exact, losers are out, no trigger is missed and a      *)
(* trailing stop only tightens; the bracket route's commands leave all of  *)
(* that sound, and a trader who trades by the bracket alone never gets     *)
(* less than it was for.                                                   *)
(***************************************************************************)
EXTENDS Bracket, PerpProofs

-----------------------------------------------------------------------------
(* The inductive invariant.                                                *)

\* An untriggered order, as placeConditional leaves it.
Dormant ==
  [id : Nat \ {0}, user : Users, side : Sides, type : {"limit", "market"},
   price : Nat, qty : Nat, tif : {"GTC", "IOC", "FOK"}, postOnly : BOOLEAN,
   reduceOnly : BOOLEAN, oco : Groups \cup {NoGroup},
   trigger : [price : Nat \ {0}, trail : Nat, direction : {"above", "below"}]]

Waiting(held) ==
  /\ IsFiniteSet(DOMAIN held) /\ DOMAIN held \subseteq Nat \ {0}
  /\ \A id \in DOMAIN held : held[id] \in Dormant /\ held[id].id = id

\* Dormant orders have ids of their own.
DormantOK ==
  /\ Waiting(dormant)
  /\ \A id \in DOMAIN dormant :
       id < nextId /\ id \notin DOMAIN orders /\ (pc = "match" => id # taker.id)

DueOK == due \in Seq(Dormant)

InGroup(live, k) == {id \in DOMAIN live : Key(live[id]) = k}

\* Mid-operation too, a group holds only live orders of its own, all its dormant
\* ones and all its resting ones that have not filled.
IndexOK ==
  /\ groups \in [Keys -> SUBSET Nat]
  /\ \A k \in Keys :
       /\ groups[k] \subseteq InGroup(orders, k) \cup InGroup(dormant, k)
       /\ InGroup(dormant, k) \subseteq groups[k]
       /\ \A id \in InGroup(orders, k) : orders[id].filled = 0 => id \in groups[k]

\* What has traded in a group is not dormant, and no longer unfilled.
TradedOK ==
  /\ pc \in {"submit", "sweep"} => traded = {}
  /\ \A t \in traded :
       /\ Key(t) \in Keys /\ t.id \notin DOMAIN dormant
       /\ t.id \in DOMAIN orders => orders[t.id].filled # 0
       /\ pc = "match" /\ t.id = taker.id => taker.filled # 0

\* The orders that another of their group outlived are those that enforceOco is
\* about to cancel, or not live.
OutlivedOK ==
  /\ \A id \in outlived : id \in Nat /\ id < nextId
  /\ pc = "match" => taker.id \notin outlived
  /\ outlived \cap Live \subseteq IF pc = "idle" THEN Losers ELSE {}

\* A dormant order that the mark reaches is on the list of those to fire.
MissedOK ==
  mark # 0 /\ pc # "sweep" =>
    \A id \in DOMAIN dormant :
      Hit(dormant[id], mark) => \E i \in DOMAIN due : due[i].id = id

TInv ==
  PInv /\ DormantOK /\ DueOK /\ IndexOK /\ TradedOK /\ OutlivedOK /\ MissedOK

-----------------------------------------------------------------------------
(* What the engine's steps do to the resting orders.                       *)

\* Orders only leave, keep their owner and group, and are never less filled.
Kept(new, old) ==
  /\ DOMAIN new \subseteq DOMAIN old
  /\ \A x \in DOMAIN new :
       /\ new[x].user = old[x].user /\ new[x].oco = old[x].oco
       /\ new[x].filled = 0 => old[x].filled = 0

LEMMA KeptWithout ==
  ASSUME NEW new, NEW old, DOMAIN new \subseteq DOMAIN old,
         \A x \in DOMAIN new : new[x] = old[x]
  PROVE  Kept(new, old)
BY DEF Kept

LEMMA CancelledKept ==
  ASSUME NEW ids, Becomes(Cancelled(Engine, ids))
  PROVE  Kept(orders', orders) /\ DOMAIN orders' = DOMAIN orders \ ids
<1>1. orders' = Without(orders, ids)
  BY CancelledOrders
<1>2. /\ DOMAIN orders' = DOMAIN orders \ ids
      /\ \A x \in DOMAIN orders' : orders'[x] = orders[x]
  BY <1>1 DEF Without
<1> QED BY <1>2, KeptWithout

\* A fill changes the maker and the taker, moves their two positions, and makes
\* some orders leave.
LEMMA FillOutcome ==
  ASSUME PInv, ExecuteFill
  PROVE  /\ DOMAIN orders' \subseteq DOMAIN orders
         /\ \A x \in DOMAIN orders' :
              orders'[x] = IF x = BestMaker.id THEN AfterFill(BestMaker, FillQty)
                                               ELSE orders[x]
         /\ \A x \in DOMAIN orders' : x = BestMaker.id => Rem(orders'[x]) # 0
         /\ taker' = AfterFill(taker, FillQty)
         /\ Moves(SizesOf(positions), SizesOf(positions)', BestMaker, taker, FillQty)
<1>e. PICK e, extra, n : e = Engine /\ extra = InFlight /\ n = supply + phantom
  OBVIOUS
<1>m. PICK maker : maker = BestMaker
  OBVIOUS
<1>o. PICK o : o = taker
  OBVIOUS
<1>p. PICK p : p = maker.price
  OBVIOUS
<1>q. PICK q : q = FillQty
  OBVIOUS
<1>1. CanMatch
  BY DEF ExecuteFill
<1>2. /\ Good(e, extra, n) /\ Sound(maker) /\ maker.id \in DOMAIN e.orders
      /\ e.orders[maker.id] = maker /\ Sound(o) /\ p \in Nat \ {0}
      /\ q \in Nat /\ q <= Rem(maker) /\ q <= Rem(o) /\ o.id \notin DOMAIN e.orders
  <2>1. Good(e, extra, n)
    BY <1>e DEF PInv
  <2> QED BY <1>1, <1>e, <1>m, <1>o, <1>p, <1>q, <2>1, MakerFacts, FillQtyFacts,
             EngineParts
<1>3. PICK first, second, filled, gone :
        FillIs(maker, o, q, first, second, filled, gone)
  BY <1>m, <1>o, <1>q, ExecuteFillIs
<1>4. Fills(e, maker, o, p, q, first, second, filled)
  BY <1>e, <1>p, <1>3 DEF FillIs
<1>a. PICK after : after = Paid(extra, o, q)
  OBVIOUS
<1>5. /\ Good(filled, after, n)
      /\ filled.orders = FilledOrders(e.orders, maker, q)
      /\ Moves(SizesOf(e.positions), SizesOf(filled.positions), maker, o, q)
  BY <1>2, <1>4, <1>a, FilledGood
<1>l. PICK live, full : live = orders /\ full = filled.orders
  OBVIOUS
<1>6. /\ full = FilledOrders(live, maker, q) /\ Resting(live)
      /\ maker.id \in DOMAIN live /\ live[maker.id] = maker
  BY <1>2, <1>5, <1>l, <1>e, EngineParts DEF PInv, Good, Shape
<1>7. /\ Resting(full) /\ DOMAIN full = DOMAIN live
      /\ \A x \in DOMAIN full :
           full[x] = IF x = maker.id THEN AfterFill(maker, q) ELSE live[x]
  BY <1>2, <1>6, FilledResting DEF FilledOrders
<1>r. PICK r : r = Cancelled(filled, gone)
  OBVIOUS
<1>8. gone \in SUBSET (DOMAIN filled.orders)
  <2>2. \A size, u : TrimmedOf(full, size, u, maker.id) \subseteq DOMAIN full
    BY <1>7, TrimmedAre DEF ReduceOnlyOf
  <2>3. gone \subseteq DOMAIN full
    BY <1>3, <1>6, <1>l, <1>7, <2>2 DEF FillIs
  <2> QED BY <2>3, <1>l
<1>9. /\ DOMAIN r.orders = DOMAIN full \ gone
      /\ \A x \in DOMAIN r.orders : r.orders[x] = full[x]
      /\ r.positions = filled.positions
  <2>1. /\ DOMAIN r.orders = DOMAIN filled.orders \ gone
        /\ \A x \in DOMAIN r.orders : r.orders[x] = filled.orders[x]
        /\ r.positions = filled.positions
    BY <1>5, <1>8, <1>r, CancelledGood
  <2> QED BY <2>1, <1>l
<1>10. orders' = r.orders /\ positions' = r.positions /\ taker' = AfterFill(o, q)
  BY <1>3, <1>r DEF FillIs, Becomes
<1>11. SizesOf(positions)' = SizesOf(filled.positions)
  BY <1>9, <1>10 DEF SizesOf
<1>12. Moves(SizesOf(positions), SizesOf(positions)', maker, o, q)
  BY <1>5, <1>11, <1>e, EngineParts
<1>13. /\ DOMAIN orders' \subseteq DOMAIN live
       /\ \A x \in DOMAIN orders' :
            orders'[x] = IF x = maker.id THEN AfterFill(maker, q) ELSE live[x]
  BY <1>7, <1>9, <1>10
<1>14. ASSUME maker.id \in DOMAIN orders' PROVE Rem(orders'[maker.id]) # 0
  <2>1. maker.id \notin gone
    BY <1>14, <1>9, <1>10
  <2>2. Rem(AfterFill(maker, q)) # 0
    BY <2>1, <1>3 DEF FillIs
  <2> QED BY <2>2, <1>13, <1>14
<1> QED BY <1>10, <1>12, <1>13, <1>14, <1>m, <1>o, <1>q, <1>l

\* A fill of something leaves neither side unfilled.
LEMMA FillKept ==
  ASSUME PInv, ExecuteFill
  PROVE  /\ Kept(orders', orders)
         /\ taker'.id = taker.id /\ taker'.user = taker.user /\ taker'.oco = taker.oco
         /\ taker.filled # 0 => taker'.filled # 0
         /\ taker'.filled # taker.filled =>
              /\ taker'.filled # 0
              /\ BestMaker.id \in DOMAIN orders' => orders'[BestMaker.id].filled # 0
<1>m. PICK maker, o, q : maker = BestMaker /\ o = taker /\ q = FillQty
  OBVIOUS
<1>1. /\ Sound(maker) /\ Sound(o) /\ q \in Nat /\ orders[maker.id] = maker
      /\ q <= Rem(maker) /\ q <= Rem(o)
  BY <1>m, MakerFacts, FillQtyFacts DEF ExecuteFill
<1>2. \A x : Sound(x) /\ q <= Rem(x) =>
        LET f == AfterFill(x, q) IN
        /\ f.id = x.id /\ f.user = x.user /\ f.oco = x.oco
        /\ f.filled = x.filled + q /\ x.filled \in Nat
  <2> SUFFICES ASSUME NEW x, Sound(x), q <= Rem(x)
               PROVE  LET f == AfterFill(x, q) IN
                      /\ f.id = x.id /\ f.user = x.user /\ f.oco = x.oco
                      /\ f.filled = x.filled + q /\ x.filled \in Nat
    OBVIOUS
  <2>1. x \in Order
    BY DEF Sound
  <2>2. PICK k : AfterFill(x, q) = [[x EXCEPT !.filled = @ + q] EXCEPT !.lock = k]
    BY DEF AfterFill
  <2> QED BY <2>1, <2>2 DEF Order
<1>3. /\ DOMAIN orders' \subseteq DOMAIN orders
      /\ \A x \in DOMAIN orders' :
           orders'[x] = IF x = maker.id THEN AfterFill(maker, q) ELSE orders[x]
      /\ taker' = AfterFill(o, q)
  BY <1>m, FillOutcome
<1>4. Kept(orders', orders)
  BY <1>1, <1>2, <1>3 DEF Kept
<1> QED BY <1>1, <1>2, <1>3, <1>4, <1>m
-----------------------------------------------------------------------------
(* Ticks, trailing stops and the list of due triggers.                     *)

LEMMA TickFacts ==
  ASSUME NEW p \in Int
  PROVE  /\ FloorTick(p) \in Int /\ CeilTick(p) \in Int
         /\ FloorTick(p) <= p /\ p <= CeilTick(p)
         /\ p >= 0 => FloorTick(p) >= 0
<1>t. PICK d \in Nat \ {0} : d = TickSize
  BY MarketAssumption
<1>x. PICK x \in Int, y \in Int, z \in Int :
        x = p \div d /\ y = (-p) \div d /\ z = 0 \div d
  BY DivBounds
<1>1. x * d <= p /\ y * d <= -p /\ z = 0
  BY <1>x, DivBounds
<1>2. FloorTick(p) = d * x /\ CeilTick(p) = d * (-y)
  BY <1>t, <1>x DEF FloorTick, CeilTick, DivFloor, DivCeil
<1>3. d * x = x * d /\ d * (-y) = -(y * d) /\ x * d \in Int /\ y * d \in Int
  OBVIOUS
<1>4. p >= 0 => d * x >= 0
  <2>1. p >= 0 => z <= x
    BY <1>x, DivMonotone
  <2> QED BY <2>1, <1>1
<1> QED BY <1>1, <1>2, <1>3, <1>4

LEMMA TrailedInt ==
  ASSUME NEW t, t.trail \in Nat, NEW m \in Int
  PROVE  /\ TrailedFrom(t, m) \in Int
         /\ t.direction = "below" => TrailedFrom(t, m) <= m - t.trail
         /\ t.direction # "below" => TrailedFrom(t, m) >= m + t.trail
<1>1. m - t.trail \in Int /\ m + t.trail \in Int
  OBVIOUS
<1> QED BY <1>1, TickFacts DEF TrailedFrom

\* What activateTriggers' ratchet does to one dormant order at the price m: it
\* moves nothing but the trigger, a trailing one's, away from m, and then m does
\* not reach it.
RatchetedTo(o, r, m) ==
  /\ r \in Dormant /\ r.id = o.id /\ r.user = o.user /\ r.oco = o.oco
  /\ r.side = o.side /\ r.reduceOnly = o.reduceOnly
  /\ o.trigger # r.trigger =>
       /\ o.trigger.trail > 0 /\ ~Hit(r, m)
       /\ IF o.trigger.direction = "below" THEN r.trigger.price > o.trigger.price
                                           ELSE r.trigger.price < o.trigger.price

LEMMA RatchetFacts ==
  ASSUME NEW o \in Dormant, NEW m \in Int
  PROVE  RatchetedTo(o, Ratcheted(o, m), m)
<1>t. PICK t : t = o.trigger
  OBVIOUS
<1>1. /\ t.price \in Nat \ {0} /\ t.trail \in Nat /\ t.direction \in {"above", "below"}
      /\ t = [price |-> t.price, trail |-> t.trail, direction |-> t.direction]
  BY <1>t DEF Dormant
<1>n. PICK next \in Int : next = TrailedFrom(t, m)
  BY <1>1, TrailedInt
<1>2. /\ t.direction = "below" => next <= m - t.trail
      /\ t.direction # "below" => next >= m + t.trail
  BY <1>n, <1>1, TrailedInt
<1>r. PICK r : r = Ratcheted(o, m)
  OBVIOUS
<1>3. CASE r = o
  BY <1>3, <1>r DEF RatchetedTo
<1>4. CASE r # o
  <2>1. /\ r = [o EXCEPT !.trigger.price = next] /\ t.trail > 0 /\ next > 0
        /\ IF t.direction = "below" THEN next > t.price ELSE next < t.price
    BY <1>4, <1>r, <1>n, <1>t DEF Ratcheted
  <2>2. r = [o EXCEPT !.trigger = [t EXCEPT !.price = next]]
    BY <2>1, <1>t
  <2>u. PICK u : u = [t EXCEPT !.price = next]
    OBVIOUS
  <2>3. /\ u \in [price : Nat \ {0}, trail : Nat, direction : {"above", "below"}]
        /\ u.price = next /\ u.direction = t.direction
    BY <2>1, <1>1, <2>u
  <2>4. r \in Dormant /\ r.id = o.id /\ r.user = o.user /\ r.oco = o.oco
        /\ r.trigger = u /\ r.side = o.side /\ r.reduceOnly = o.reduceOnly
    BY <2>2, <2>u, <2>3 DEF Dormant
  <2>5. ~Hit(r, m)
    BY <1>1, <1>2, <2>1, <2>3, <2>4 DEF Hit
  <2> QED BY <1>r, <1>t, <2>1, <2>3, <2>4, <2>5 DEF RatchetedTo
<1> QED BY <1>3, <1>4

\* held after activateTriggers' ratchet at m, and the list of what fires.
Activated(held, new, list, m) ==
  /\ Waiting(new) /\ DOMAIN new = DOMAIN held
  /\ \A id \in DOMAIN held : RatchetedTo(held[id], new[id], m)
  /\ list \in Seq(Dormant)
  /\ \A i \in DOMAIN list : \E id \in DOMAIN new : list[i] = new[id]
  /\ \A id \in DOMAIN new :
       Hit(new[id], m) <=> \E i \in DOMAIN list : list[i].id = id

LEMMA ActivateFacts ==
  ASSUME NEW held, Waiting(held), NEW m \in Int, ActivateTriggers(held, m)
  PROVE  Activated(held, dormant', due', m)
<1>n. PICK new : new = [id \in DOMAIN held |-> Ratcheted(held[id], m)]
  OBVIOUS
<1>1. dormant' = new /\ due' = DueIn(new, m)
  BY <1>n DEF ActivateTriggers
<1>2. \A id \in DOMAIN held : RatchetedTo(held[id], new[id], m)
  BY <1>n, RatchetFacts DEF Waiting
<1>3. DOMAIN new = DOMAIN held /\ Waiting(new)
  BY <1>n, <1>2 DEF Waiting, RatchetedTo
<1>S. PICK S : S = {id \in DOMAIN new : Hit(new[id], m)}
  OBVIOUS
<1>4. S \subseteq DOMAIN new /\ S \subseteq Int /\ IsFiniteSet(S)
  BY <1>S, <1>3, FS_Subset DEF Waiting
<1>5. \A s : s = Ascending(S) =>
        /\ s \in Seq(S) /\ Len(s) = Cardinality(S) /\ Len(s) \in Nat
        /\ \A x \in S : \E i \in 1..Len(s) : s[i] = x
        /\ \A i, j \in 1..Len(s) : i < j => s[i] < s[j]
  BY <1>4, AscendingLists, Zenon
<1>a. PICK ids : ids = Ascending(S)
  OBVIOUS
<1>6. ids \in Seq(S) /\ \A x \in S : \E i \in 1..Len(ids) : ids[i] = x
  BY <1>5, <1>a
<1>l. PICK list : list = [i \in DOMAIN ids |-> new[ids[i]]]
  OBVIOUS
<1>7. due' = list
  BY <1>1, <1>S, <1>a, <1>l DEF DueIn
<1>k. PICK n \in Nat : n = Len(ids)
  BY <1>6
<1>w. \A id \in DOMAIN new : new[id] \in Dormant /\ new[id].id = id
  BY <1>3 DEF Waiting
<1>8. \A i \in 1..n : ids[i] \in S /\ new[ids[i]] \in Dormant /\ new[ids[i]].id = ids[i]
  <2>1. \A i \in 1..n : ids[i] \in S
    BY <1>6, <1>k
  <2> QED BY <2>1, <1>4, <1>w
<1>9. DOMAIN list = 1..n /\ \A i \in 1..n : list[i] = new[ids[i]]
  BY <1>6, <1>k, <1>l
<1>10. list \in Seq(Dormant)
  <2>1. list \in [1..n -> Dormant]
    BY <1>8, <1>9, <1>l
  <2> QED BY <2>1, <1>k
<1>11. ASSUME NEW id \in DOMAIN new
       PROVE  Hit(new[id], m) <=> \E i \in DOMAIN list : list[i].id = id
  <2>1. Hit(new[id], m) <=> id \in S
    BY <1>S
  <2>2. \A i \in DOMAIN list : i \in 1..n /\ list[i].id = ids[i]
    BY <1>8, <1>9
  <2>3. \A i \in DOMAIN list : list[i].id \in S
    BY <2>2, <1>8
  <2>4. \A x \in S : \E i \in DOMAIN list : list[i].id = x
    BY <2>2, <1>6, <1>9, <1>k
  <2> QED BY <2>1, <2>3, <2>4
<1>12. \A i \in DOMAIN list : \E id \in DOMAIN new : list[i] = new[id]
  BY <1>4, <1>8, <1>9
<1> QED BY <1>1, <1>2, <1>3, <1>7, <1>10, <1>11, <1>12 DEF Activated

-----------------------------------------------------------------------------
(* The engine stays sound under the triggers.                              *)

LEMMA TickPrice ==
  ASSUME PInv, NEW side \in Sides, book[Opposite(side)] # <<>>
  PROVE  DerivedBound(side) \in Nat
<1>s. PICK s \in Sides : s = Opposite(side)
  BY DEF Opposite, Sides
<1>q. PICK q : q = book[s]
  OBVIOUS
<1>1. Queue(s, q, orders) /\ Resting(orders)
  BY <1>q, EngineParts DEF PInv, Good, Shape
<1>2. q \in Seq(DOMAIN orders) /\ q # <<>>
  BY <1>1, <1>s, <1>q DEF Queue
<1>h. PICK h \in DOMAIN orders : h = Head(q)
  BY <1>2
<1>b. PICK best \in Nat : best = orders[h].price
  BY <1>1 DEF Resting, Sound, Order
<1>3. ASSUME NEW k \in Nat PROVE (best * k) \div 100 \in Nat
  <2>1. best * k \in Nat
    OBVIOUS
  <2> QED BY <2>1
<1>4. (best * 105) \div 100 \in Nat /\ (best * 95) \div 100 \in Nat
  BY <1>3
<1>u. PICK up \in Nat, down \in Nat :
        up = (best * 105) \div 100 /\ down = (best * 95) \div 100
  BY <1>4
<1>5. CeilTick(up) \in Nat /\ FloorTick(down) \in Nat
  BY TickFacts
<1> QED BY <1>5, <1>u, <1>b, <1>h, <1>q, <1>s DEF DerivedBound

LEMMA ActivationAsked ==
  ASSUME PInv, NEW o \in Dormant, ~(NeedsBook(o) /\ book[Opposite(o.side)] = <<>>)
  PROVE  Asked(Activation(o))
<1>1. o.side \in Sides
  BY DEF Dormant
<1>p. PICK price : price = IF NeedsBook(o) THEN DerivedBound(o.side) ELSE o.price
  OBVIOUS
<1>2. price \in Nat
  BY <1>1, <1>p, TickPrice DEF Dormant
<1>a. PICK a : a = Activation(o)
  OBVIOUS
<1>3. a = [user |-> o.user, side |-> o.side, type |-> o.type, price |-> price,
           qty |-> o.qty, tif |-> o.tif, postOnly |-> o.postOnly,
           reduceOnly |-> o.reduceOnly, oco |-> o.oco]
  BY <1>a, <1>p DEF Activation
<1>4. Asked(a)
  BY <1>2, <1>3 DEF Asked, Dormant
<1> QED BY <1>4, <1>a

\* Orders leave and give their locks back, between the steps of a submitOrder.
LEMMA CancelSetStep ==
  ASSUME PInv, pc = "idle", NEW ids \in SUBSET (DOMAIN orders),
         Becomes(Cancelled(Engine, ids)), pc' \in {"idle", "submit"},
         pc' = "submit" => Asked(pending'),
         UNCHANGED <<nextId, taker, sweep, settings, history>>
  PROVE  PInv'
<1>r. PICK r : r = Cancelled(Engine, ids)
  OBVIOUS
<1>1. Good(r, InFlight, supply + phantom)
      /\ DOMAIN r.orders = DOMAIN orders \ ids
  <2>g. PICK e, extra, n : e = Engine /\ extra = InFlight /\ n = supply + phantom
    OBVIOUS
  <2>1. Good(e, extra, n) /\ r = Cancelled(e, ids) /\ ids \in SUBSET (DOMAIN e.orders)
    BY <1>r, <2>g, EngineParts DEF PInv
  <2>2. Good(r, extra, n) /\ DOMAIN r.orders = DOMAIN e.orders \ ids
    BY <2>1, CancelledGood
  <2> QED BY <2>2, <2>g, EngineParts
<1>2. Fields(r) /\ Becomes(r)
  BY <1>1, <1>r DEF Good, Shape
<1>3. Engine' = r /\ orders' = r.orders
  BY <1>2, Became DEF Becomes
<1>4. InFlight' = InFlight
  BY DEF InFlight
<1>5. Good(Engine', InFlight', supply' + phantom')
  BY <1>1, <1>3, <1>4 DEF history
<1>6. Settings' /\ DOMAIN orders' \subseteq 1..nextId' - 1
  <2>1. Settings'
    BY DEF PInv, Settings, settings, history
  <2> QED BY <1>1, <1>3, <2>1 DEF PInv
<1>7. taker' = NoOrder
  BY DEF PInv
<1> QED BY <1>5, <1>6, <1>7, QuietStep

\* Nothing of the engine changes but, perhaps, the next id and what submitOrder
\* is called with.
LEMMA EngineIdleStep ==
  ASSUME PInv, pc = "idle", pc' \in {"idle", "submit"},
         pc' = "submit" => Asked(pending'),
         nextId' \in Nat, nextId' >= nextId,
         UNCHANGED <<ledger, positions, orders, book, taker, sweep, settings,
                     history>>
  PROVE  PInv'
<1>1. Engine' = Engine /\ InFlight' = InFlight
  BY DEF Engine, InFlight, ledger
<1>2. Good(Engine', InFlight', supply' + phantom')
  BY <1>1 DEF PInv, history
<1>n. nextId \in Nat \ {0}
  BY DEF PInv, Settings
<1>3. Settings' /\ DOMAIN orders' \subseteq 1..nextId' - 1
  <2>1. Settings'
    BY <1>n DEF PInv, Settings, settings, history
  <2>2. ASSUME NEW n \in Nat, NEW m \in Nat, n <= m PROVE 1..n - 1 \subseteq 1..m - 1
    BY <2>2
  <2>3. 1..nextId - 1 \subseteq 1..nextId' - 1
    BY <2>2, <1>n
  <2> QED BY <2>1, <2>3 DEF PInv
<1>4. taker' = NoOrder
  BY DEF PInv
<1> QED BY <1>2, <1>3, <1>4, QuietStep

LEMMA FireEngine ==
  ASSUME PInv, DueOK, Fire
  PROVE  /\ PInv' /\ UNCHANGED <<orders, positions, taker, nextId, mark>>
         /\ pc = "idle" /\ pc' \in {"idle", "submit"} /\ Head(due) \in Dormant
<1>o. PICK o : o = Head(due)
  OBVIOUS
<1>1. /\ pc = "idle" /\ due # <<>>
      /\ FireSkips \/ FireDrops \/ FireSubmits
      /\ UNCHANGED <<ledger, positions, orders, book, nextId, taker, sweep,
                     settings, history>>
  BY DEF Fire
<1>2. o \in Dormant
  BY <1>o, <1>1 DEF DueOK
<1>3. pc' \in {"idle", "submit"} /\ (pc' = "submit" => Asked(pending'))
  <2>1. CASE FireSkips
    BY <2>1, <1>1 DEF FireSkips
  <2>2. CASE FireDrops
    BY <2>2, <1>1 DEF FireDrops
  <2>3. CASE FireSubmits
    <3>1. /\ ~(NeedsBook(o) /\ book[Opposite(o.side)] = <<>>)
          /\ pc' = "submit" /\ pending' = Activation(o)
      BY <2>3, <1>o DEF FireSubmits
    <3> QED BY <3>1, <1>2, ActivationAsked
  <2> QED BY <1>1, <2>1, <2>2, <2>3
<1>4. nextId' \in Nat /\ nextId' >= nextId
  BY <1>1 DEF PInv, Settings
<1> QED BY <1>1, <1>2, <1>3, <1>4, <1>o, EngineIdleStep DEF settings

LEMMA PlaceEngine ==
  ASSUME PInv, NEW c, PlaceConditional(c)
  PROVE  PInv' /\ UNCHANGED <<orders, positions, taker, pc, mark>>
<1>1. /\ pc = "idle" /\ pc' = "idle" /\ nextId' = nextId + 1
      /\ UNCHANGED <<ledger, positions, orders, book, taker, sweep, settings, history>>
  BY DEF PlaceConditional, Idle
<1>2. nextId' \in Nat /\ nextId' >= nextId
  BY <1>1 DEF PInv, Settings
<1> QED BY <1>1, <1>2, EngineIdleStep DEF settings

LEMMA EnforceEngine ==
  ASSUME PInv, EnforceOco
  PROVE  PInv'
<1>i. PICK ids : ids = Losers \cap DOMAIN orders
  OBVIOUS
<1>1. /\ pc = "idle" /\ pc' = "idle" /\ Becomes(Cancelled(Engine, ids))
      /\ UNCHANGED <<nextId, taker, sweep, settings, history>>
      /\ ids \in SUBSET (DOMAIN orders)
  BY <1>i DEF EnforceOco
<1> QED BY <1>1, CancelSetStep

\* The engine's two invariants survive every step of the triggers.
LEMMA EngineNext ==
  ASSUME PInv, BudgetOK, DueOK, [TNext]_tvars
  PROVE  PInv' /\ BudgetOK'
<1>v. ASSUME UNCHANGED vars PROVE PInv' /\ BudgetOK'
  <2>1. [Next]_vars
    BY <1>v
  <2> QED BY <2>1, PerpNextInv, BudgetNext
<1>n. ASSUME Next PROVE PInv' /\ BudgetOK'
  <2>1. [Next]_vars
    BY <1>n
  <2> QED BY <2>1, PerpNextInv, BudgetNext
<1>1. CASE SubmitOrUpdate
  <2>1. SubmitOrder
    BY <1>1 DEF SubmitOrUpdate, SubmitOrder
  <2> QED BY <2>1, <1>n DEF Next
<1>2. CASE Match
  BY <1>2, <1>n DEF Match, Next
<1>3. CASE Finish
  BY <1>3, <1>n DEF Finish, Next
<1>4. CASE EnforceOco
  <2>1. PInv'
    BY <1>4, EnforceEngine
  <2>2. PICK ids : ids = Losers \cap DOMAIN orders
    OBVIOUS
  <2>3. Becomes(Cancelled(Engine, ids)) /\ taker' = taker /\ pc' = pc
    BY <1>4, <2>2 DEF EnforceOco
  <2> QED BY <2>1, <2>3, CancelBudget
<1>5. CASE \E c \in Conditionals : PlaceConditional(c)
  BY <1>5, PlaceEngine, IdleBudget
<1>6. CASE \E id \in DOMAIN dormant : CancelDormant(id)
  BY <1>6, <1>v DEF CancelDormant
<1>7. CASE \E id \in DOMAIN orders : CancelResting(id)
  BY <1>7, <1>n DEF CancelResting, Next
<1>8. CASE \E id \in DOMAIN orders, ch \in Amendments : Amend(id, ch)
  BY <1>8, <1>n DEF Amend, Next
<1>9. CASE \E m \in Marks : Mark(m)
  BY <1>9, <1>n DEF Mark, Next
<1>10. CASE SweepOne
  BY <1>10, <1>n DEF SweepOne, Next, LiquidationSweep
<1>11. CASE SweepDone
  BY <1>11, <1>n DEF SweepDone, Next, LiquidationSweep
<1>12. CASE Fire
  <2>1. /\ PInv' /\ UNCHANGED <<orders, positions, taker>>
        /\ pc # "match" /\ pc' # "match"
    BY <1>12, FireEngine
  <2> QED BY <2>1, IdleBudget
<1>13. CASE UNCHANGED tvars
  BY <1>13, <1>v DEF tvars
<1> QED BY <1>1, <1>2, <1>3, <1>4, <1>5, <1>6, <1>7, <1>8, <1>9, <1>10, <1>11,
           <1>12, <1>13 DEF TNext

-----------------------------------------------------------------------------
(* The index, the dormant orders and the orders outlived, step by step.    *)

\* TInv but for the engine.
TriggersOK == DormantOK /\ DueOK /\ IndexOK /\ TradedOK /\ OutlivedOK /\ MissedOK

LEMMA EngineDomain ==
  ASSUME PInv
  PROVE  /\ nextId \in Nat \ {0} /\ DOMAIN orders \subseteq 1..nextId - 1
         /\ \A id \in DOMAIN orders : Sound(orders[id]) /\ orders[id].id = id
BY EngineParts DEF PInv, Settings, Good, Shape, Resting

LEMMA NoLosers == traded = {} => Losers = {}
BY DEF Losers, TradedKeys

\* The members of the groups that keys names, but for those in some.
LEMMA LosersOf ==
  ASSUME NEW index, NEW keys, NEW some, NEW id
  PROVE  id \in (UNION {index[k] : k \in keys}) \ some
           <=> id \notin some /\ \E k \in keys : id \in index[k]
OBVIOUS

LEMMA RetireIndex ==
  ASSUME IndexOK, DormantOK, Kept(orders', orders), RetireGone, dormant' = dormant
  PROVE  IndexOK'
<1>g. PICK gone : gone = DOMAIN orders \ DOMAIN orders'
  OBVIOUS
<1>1. groups' = [k \in Keys |-> groups[k] \ gone]
  BY <1>g DEF RetireGone, Unregistered
<1>2. groups' \in [Keys -> SUBSET Nat]
  BY <1>1 DEF IndexOK
<1>3. ASSUME NEW k \in Keys
      PROVE  /\ groups'[k] \subseteq InGroup(orders', k) \cup InGroup(dormant', k)
             /\ InGroup(dormant', k) \subseteq groups'[k]
             /\ \A id \in InGroup(orders', k) : orders'[id].filled = 0 => id \in groups'[k]
  <2>1. /\ groups'[k] = groups[k] \ gone
        /\ groups[k] \subseteq InGroup(orders, k) \cup InGroup(dormant, k)
        /\ InGroup(dormant, k) \subseteq groups[k]
        /\ \A id \in InGroup(orders, k) : orders[id].filled = 0 => id \in groups[k]
    BY <1>1 DEF IndexOK
  <2>2. \A id \in DOMAIN orders' : id \in DOMAIN orders /\ id \notin gone
          /\ Key(orders'[id]) = Key(orders[id])
          /\ (orders'[id].filled = 0 => orders[id].filled = 0)
    BY <1>g DEF Kept, Key
  <2>3. \A id \in DOMAIN orders : id \in DOMAIN orders' \/ id \in gone
    BY <1>g
  <2>4. \A id \in DOMAIN dormant : id \notin gone
    BY <1>g DEF DormantOK
  <2> QED BY <2>1, <2>2, <2>3, <2>4 DEF InGroup
<1> QED BY <1>2, <1>3 DEF IndexOK

\* Steps between submissions that only make resting orders leave.
LEMMA RetireStep ==
  ASSUME TInv, pc \in {"idle", "sweep"}, traded = {},
         Kept(orders', orders), RetireGone,
         pc' \in {"idle", "submit", "sweep"}, pc = "sweep" <=> pc' = "sweep",
         UNCHANGED <<dormant, due, traded, outlived, nextId, mark>>
  PROVE  TriggersOK'
<1>1. IndexOK'
  BY RetireIndex DEF TInv
<1>2. DormantOK'
  BY DEF TInv, DormantOK, Kept
<1>3. DueOK' /\ TradedOK'
  BY DEF TInv, DueOK, TradedOK
<1>4. OutlivedOK'
  <2>1. Losers = {}
    BY NoLosers
  <2>2. outlived \cap Live = {}
    BY <2>1 DEF TInv, OutlivedOK
  <2>3. Live' \subseteq Live
    BY DEF Live, Kept
  <2>4. outlived' \cap Live' = {}
    BY <2>2, <2>3
  <2> QED BY <2>4 DEF TInv, OutlivedOK
<1>5. MissedOK'
  BY DEF TInv, MissedOK
<1> QED BY <1>1, <1>2, <1>3, <1>4, <1>5 DEF TriggersOK

LEMMA RejectTriggers ==
  ASSUME TInv, SubmitOrUpdate, NEW req \in Incoming, Reject(req)
  PROVE  TriggersOK'
<1>1. /\ UNCHANGED <<orders, nextId, taker, mark, dormant, groups, due, traded, outlived>>
      /\ pc' = "idle"
  BY DEF SubmitOrUpdate, Reject, settings
<1>2. pc \in {"idle", "submit"} /\ traded = {}
  <2>1. pc \in {"idle", "submit"}
    BY IncomingAsked DEF Incoming
  <2>2. pc = "idle" => traded = {}
    BY DEF SubmitOrUpdate, Idle
  <2> QED BY <2>1, <2>2 DEF TInv, TradedOK
<1>3. IndexOK' /\ DueOK' /\ DormantOK'
  BY <1>1, <1>2 DEF TInv, IndexOK, DueOK, DormantOK, InGroup
<1>4. TradedOK' /\ MissedOK'
  BY <1>1, <1>2 DEF TInv, TradedOK, MissedOK
<1>5. OutlivedOK'
  <2>1. Losers = {} /\ Live' = Live
    BY <1>1, <1>2, NoLosers DEF Live
  <2> QED BY <1>1, <1>2, <2>1 DEF TInv, OutlivedOK
<1> QED BY <1>3, <1>4, <1>5 DEF TriggersOK

LEMMA AcceptTriggers ==
  ASSUME TInv, SubmitOrUpdate, NEW req \in Incoming, Accept(req)
  PROVE  TriggersOK'
<1>1. /\ UNCHANGED <<orders, mark, dormant, groups, due, traded, outlived>>
      /\ pc' = "match" /\ nextId' = nextId + 1 /\ taker' = OrderOf(req)
  BY DEF SubmitOrUpdate, Accept, settings
<1>p. PInv
  BY DEF TInv
<1>2. pc \in {"idle", "submit"} /\ traded = {}
  <2>1. pc \in {"idle", "submit"}
    BY <1>p, IncomingAsked
  <2>2. pc = "idle" => traded = {}
    BY DEF SubmitOrUpdate, Idle
  <2> QED BY <2>1, <2>2 DEF TInv, TradedOK
<1>n. nextId \in Nat
  BY <1>p, EngineDomain
<1>3. taker'.id = nextId
  <2>1. Asked(req) /\ ValidSize(req.price, req.qty)
    BY <1>p, IncomingAsked DEF Accept, Acceptable
  <2>2. OrderOf(req).id = nextId
    BY <1>p, <2>1, OrderOfFacts
  <2> QED BY <1>1, <2>2
<1>4. IndexOK' /\ DueOK'
  BY <1>1 DEF TInv, IndexOK, DueOK, InGroup
<1>5. DormantOK'
  BY <1>1, <1>3, <1>n DEF TInv, DormantOK, Waiting
<1>6. TradedOK' /\ MissedOK'
  BY <1>1, <1>2 DEF TInv, TradedOK, MissedOK
<1>7. OutlivedOK'
  <2>1. Losers = {} /\ Live' = Live
    BY <1>1, <1>2, NoLosers DEF Live
  <2>2. outlived' \cap Live' = {}
    BY <1>1, <2>1 DEF TInv, OutlivedOK
  <2>3. \A id \in outlived : id \in Nat /\ id < nextId' /\ id # taker'.id
    BY <1>1, <1>3, <1>n DEF TInv, OutlivedOK
  <2> QED BY <1>1, <2>2, <2>3 DEF OutlivedOK
<1> QED BY <1>4, <1>5, <1>6, <1>7 DEF TriggersOK

\* One turn of matchOrder's loop keeps the orders, and leaves whoever traded
\* filled in part.
LEMMA MatchKept ==
  ASSUME PInv, MatchOrder
  PROVE  /\ pc = "match" /\ pc' = "match" /\ Kept(orders', orders)
         /\ UNCHANGED <<nextId, mark>>
         /\ taker'.id = taker.id /\ taker'.user = taker.user /\ taker'.oco = taker.oco
         /\ taker.filled # 0 => taker'.filled # 0
         /\ taker'.filled # taker.filled =>
              /\ taker'.filled # 0
              /\ BestMaker.id \in DOMAIN orders' => orders'[BestMaker.id].filled # 0
<1>1. CASE CancelMaker
  <2>1. Becomes(Cancelled(Engine, {BestMaker.id})) /\ taker' = taker /\ CanMatch
        /\ UNCHANGED <<pc, nextId, settings>>
    BY <1>1 DEF CancelMaker
  <2>2. Kept(orders', orders)
    BY <2>1, CancelledKept
  <2> QED BY <2>1, <2>2 DEF CanMatch, settings
<1>2. CASE ExecuteFill
  <2>1. CanMatch /\ UNCHANGED <<pc, nextId, settings>>
    BY <1>2 DEF ExecuteFill
  <2> QED BY <1>2, <2>1, FillKept DEF CanMatch, settings
<1> QED BY <1>1, <1>2 DEF MatchOrder

\* What joins the list of those that traded.
LEMMA TradedAre ==
  ASSUME PInv, Match, NEW t \in traded'
  PROVE  \/ t \in traded
         \/ /\ taker'.filled # taker.filled
            /\ \E o \in {taker, BestMaker} :
                 /\ o.oco # NoGroup
                 /\ t.id = o.id /\ t.user = o.user /\ t.oco = o.oco
<1>1. CASE taker'.filled = taker.filled
  BY <1>1 DEF Match
<1>2. CASE taker'.filled # taker.filled
  <2>1. traded' = traded \cup {[id |-> o.id, user |-> o.user, oco |-> o.oco] :
                                 o \in {x \in {taker, BestMaker} : x.oco # NoGroup}}
    BY <1>2 DEF Match
  <2>2. CASE t \notin traded
    <3>1. PICK o \in {taker, BestMaker} :
            o.oco # NoGroup /\ t = [id |-> o.id, user |-> o.user, oco |-> o.oco]
      BY <2>1, <2>2
    <3> QED BY <1>2, <3>1
  <2> QED BY <2>2
<1> QED BY <1>1, <1>2

LEMMA MatchTriggers ==
  ASSUME TInv, Match
  PROVE  TriggersOK'
<1>p. PInv
  BY DEF TInv
<1>1. MatchOrder /\ RetireGone /\ UNCHANGED <<dormant, due, outlived>>
  BY DEF Match
<1>2. /\ pc = "match" /\ pc' = "match" /\ Kept(orders', orders)
      /\ UNCHANGED <<nextId, mark>>
      /\ taker'.id = taker.id
      /\ taker.filled # 0 => taker'.filled # 0
      /\ taker'.filled # taker.filled =>
           /\ taker'.filled # 0
           /\ BestMaker.id \in DOMAIN orders' => orders'[BestMaker.id].filled # 0
  BY <1>p, <1>1, MatchKept
<1>3. IndexOK'
  BY <1>1, <1>2, RetireIndex DEF TInv
<1>4. DormantOK' /\ DueOK' /\ MissedOK'
  BY <1>1, <1>2 DEF TInv, DormantOK, DueOK, MissedOK, Kept
<1>5. OutlivedOK'
  <2>1. Live' \subseteq Live
    BY <1>1, <1>2 DEF Live, Kept
  <2>2. outlived' \cap Live' = {}
    BY <1>1, <1>2, <2>1 DEF TInv, OutlivedOK
  <2> QED BY <1>1, <1>2, <2>2 DEF TInv, OutlivedOK
<1>6. TradedOK'
  <2> SUFFICES ASSUME NEW t \in traded'
               PROVE  /\ Key(t) \in Keys /\ t.id \notin DOMAIN dormant'
                      /\ t.id \in DOMAIN orders' => orders'[t.id].filled # 0
                      /\ t.id = taker'.id => taker'.filled # 0
    BY <1>2 DEF TradedOK
  <2>1. CASE t \in traded
    <3>1. /\ Key(t) \in Keys /\ t.id \notin DOMAIN dormant
          /\ t.id \in DOMAIN orders => orders[t.id].filled # 0
          /\ t.id = taker.id => taker.filled # 0
      BY <1>2, <2>1 DEF TInv, TradedOK
    <3> QED BY <1>1, <1>2, <3>1 DEF Kept
  <2>2. CASE t \notin traded
    <3>1. CanMatch
      BY <1>1 DEF MatchOrder, CancelMaker, ExecuteFill
    <3>2. /\ BestMaker.id \in DOMAIN orders /\ BestMaker \in Order
          /\ taker \in Order /\ taker.id \notin DOMAIN orders
      BY <1>p, <3>1, MakerFacts DEF Sound
    <3>3. PICK o \in {taker, BestMaker} :
            /\ taker'.filled # taker.filled
            /\ o.oco # NoGroup /\ t.id = o.id /\ t.user = o.user /\ t.oco = o.oco
      BY <1>p, <2>2, TradedAre
    <3>4. Key(t) \in Keys
      BY <3>2, <3>3 DEF Key, Keys, Order
    <3>5. t.id \notin DOMAIN dormant'
      BY <1>1, <1>2, <3>2, <3>3 DEF TInv, DormantOK
    <3>6. t.id \in DOMAIN orders' => orders'[t.id].filled # 0
      BY <1>2, <3>2, <3>3 DEF Kept
    <3> QED BY <1>2, <3>3, <3>4, <3>5, <3>6
  <2> QED BY <2>1, <2>2
<1> QED BY <1>3, <1>4, <1>5, <1>6 DEF TriggersOK

LEMMA FinishTriggers ==
  ASSUME TInv, Finish
  PROVE  TriggersOK'
<1>p. PInv
  BY DEF TInv
<1>1. /\ pc = "match" /\ pc' = "idle"
      /\ orders' = orders \/ orders' = WithOrder(orders, taker)
      /\ UNCHANGED <<nextId, mark, dormant, due, traded>>
      /\ groups' = IF taker.id \in DOMAIN orders' THEN Registered(groups, taker)
                                                  ELSE groups
      /\ outlived' = outlived \cup Rivals(orders')
  BY DEF Finish, FinishSubmit, FinishFilled, FinishCancelled, FinishResting, settings
<1>2. /\ taker \in Order /\ taker.id \notin DOMAIN orders /\ taker.id = nextId - 1
      /\ nextId \in Nat \ {0} /\ taker.id \notin DOMAIN dormant
  <2>1. nextId \in Nat \ {0}
    BY <1>p, EngineDomain
  <2> QED BY <2>1, <1>1 DEF PInv, TInv, TakerSound, Sound, DormantOK
<1>o. PICK live : live = orders'
  OBVIOUS
<1>3. /\ DOMAIN live \subseteq DOMAIN orders \cup {taker.id}
      /\ \A x \in DOMAIN live : live[x] = IF x = taker.id THEN taker ELSE orders[x]
      /\ DOMAIN orders \subseteq DOMAIN live
  BY <1>1, <1>2, <1>o DEF WithOrder
<1>4. /\ groups' \in [Keys -> SUBSET Nat]
      /\ \A k \in Keys :
           groups'[k] = IF taker.id \in DOMAIN live /\ Key(taker) = k
                        THEN groups[k] \cup {taker.id} ELSE groups[k]
  <2>1. groups \in [Keys -> SUBSET Nat]
    BY DEF TInv, IndexOK
  <2>2. taker.oco = NoGroup => Key(taker) \notin Keys
    BY PerpAssumption DEF Key, Keys
  <2>3. taker.id \in Nat
    BY <1>2 DEF Order
  <2> QED BY <1>1, <1>o, <2>1, <2>2, <2>3 DEF Registered
<1>5. IndexOK'
  <2> SUFFICES ASSUME NEW k \in Keys
               PROVE  /\ groups'[k] \subseteq InGroup(live, k) \cup InGroup(dormant, k)
                      /\ InGroup(dormant, k) \subseteq groups'[k]
                      /\ \A id \in InGroup(live, k) : live[id].filled = 0 => id \in groups'[k]
    BY <1>1, <1>o, <1>4 DEF IndexOK
  <2>1. /\ groups[k] \subseteq InGroup(orders, k) \cup InGroup(dormant, k)
        /\ InGroup(dormant, k) \subseteq groups[k]
        /\ \A id \in InGroup(orders, k) : orders[id].filled = 0 => id \in groups[k]
    BY DEF TInv, IndexOK
  <2>2. InGroup(orders, k) \subseteq InGroup(live, k)
    BY <1>2, <1>3 DEF InGroup
  <2>3. taker.id \in DOMAIN live /\ Key(taker) = k => taker.id \in InGroup(live, k)
    BY <1>3 DEF InGroup
  <2>4. \A id \in InGroup(live, k) : \/ id = taker.id /\ Key(taker) = k /\ id \in DOMAIN live
                                     \/ id \in InGroup(orders, k) /\ live[id] = orders[id]
    BY <1>2, <1>3 DEF InGroup
  <2> QED BY <1>4, <2>1, <2>2, <2>3, <2>4
<1>6. DormantOK'
  <2>1. \A id \in DOMAIN dormant : id < nextId /\ id \notin DOMAIN live
    BY <1>2, <1>3 DEF TInv, DormantOK
  <2> QED BY <2>1, <1>1, <1>o DEF TInv, DormantOK
<1>7. DueOK' /\ MissedOK'
  BY <1>1 DEF TInv, DueOK, MissedOK
<1>8. TradedOK'
  <2>1. \A t \in traded :
          /\ Key(t) \in Keys /\ t.id \notin DOMAIN dormant
          /\ t.id \in DOMAIN orders => orders[t.id].filled # 0
          /\ t.id = taker.id => taker.filled # 0
    BY <1>1 DEF TInv, TradedOK
  <2>2. \A t \in traded : t.id \in DOMAIN live => live[t.id].filled # 0
    BY <2>1, <1>3
  <2> QED BY <1>1, <1>o, <2>1, <2>2 DEF TradedOK
<1>9. Rivals(live) \subseteq Losers' /\ Rivals(live) \subseteq DOMAIN live \cup DOMAIN dormant
  <2>1. Rivals(live) \subseteq DOMAIN live \cup DOMAIN dormant
    BY DEF Rivals
  <2>2. TradedKeys \subseteq Keys /\ TradedIds \cap DOMAIN dormant = {}
    BY DEF TInv, TradedOK, TradedKeys, TradedIds
  <2>3. ASSUME NEW id \in Rivals(live)
        PROVE  \E k \in TradedKeys : id \in groups'[k] /\ id \notin TradedIds
    <3>1. CASE id \in DOMAIN live /\ id \notin TradedIds /\ live[id].filled = 0
               /\ Key(live[id]) \in TradedKeys
      <4>1. id \in InGroup(orders', Key(live[id])) /\ Key(live[id]) \in Keys
        BY <3>1, <2>2, <1>o DEF InGroup
      <4>2. id \in groups'[Key(live[id])]
        BY <4>1, <1>5, <3>1, <1>o DEF IndexOK
      <4> QED BY <4>2, <3>1
    <3>2. CASE id \in DOMAIN dormant /\ Key(dormant[id]) \in TradedKeys
      <4>1. id \in InGroup(dormant', Key(dormant[id])) /\ Key(dormant[id]) \in Keys
        BY <3>2, <2>2, <1>1 DEF InGroup
      <4>2. id \in groups'[Key(dormant[id])]
        BY <4>1, <1>5 DEF IndexOK
      <4> QED BY <4>2, <3>2, <2>2
    <3> QED BY <3>1, <3>2 DEF Rivals
  <2>4. TradedKeys' = TradedKeys /\ TradedIds' = TradedIds
    BY <1>1 DEF TradedKeys, TradedIds
  <2>5. Losers' = (UNION {groups'[k] : k \in TradedKeys}) \ TradedIds
    BY <2>4 DEF Losers
  <2>6. \A id \in Rivals(live) : id \in Losers'
    BY <2>3, <2>5, LosersOf
  <2> QED BY <2>1, <2>6
<1>10. OutlivedOK'
  <2>1. /\ \A id \in outlived : id \in Nat /\ id < nextId
        /\ taker.id \notin outlived /\ outlived \cap Live = {}
    BY <1>1 DEF TInv, OutlivedOK
  <2>2. Live' = DOMAIN live \cup DOMAIN dormant
    BY <1>1, <1>o DEF Live
  <2>3. outlived \cap Live' = {}
    BY <2>1, <2>2, <1>3 DEF Live
  <2>4. \A id \in DOMAIN live \cup DOMAIN dormant : id \in Nat /\ id < nextId
    <3>1. \A id \in DOMAIN orders : id \in Nat /\ id < nextId
      <4>1. \A x \in 1..nextId - 1 : x \in Nat /\ x < nextId
        BY <1>2
      <4> QED BY <4>1, <1>p, EngineDomain
    <3>2. \A id \in DOMAIN dormant : id \in Nat /\ id < nextId
      BY DEF TInv, DormantOK, Waiting
    <3>3. taker.id \in Nat /\ taker.id < nextId
      BY <1>2 DEF Order
    <3> QED BY <3>1, <3>2, <3>3, <1>3
  <2>5. \A id \in outlived' : id \in Nat /\ id < nextId'
    BY <2>1, <2>4, <1>1, <1>9, <1>o
  <2>6. outlived' \cap Live' \subseteq Losers'
    BY <2>3, <1>1, <1>9, <1>o
  <2> QED BY <2>5, <2>6, <1>1 DEF OutlivedOK
<1> QED BY <1>5, <1>6, <1>7, <1>8, <1>10 DEF TriggersOK

LEMMA EnforceTriggers ==
  ASSUME TInv, EnforceOco
  PROVE  TriggersOK'
<1>p. PInv
  BY DEF TInv
<1>i. PICK ids : ids = Losers \cap DOMAIN orders
  OBVIOUS
<1>1. /\ pc = "idle" /\ pc' = "idle" /\ Becomes(Cancelled(Engine, ids))
      /\ dormant' = Without(dormant, Losers)
      /\ groups' = [k \in Keys |-> IF k \in TradedKeys THEN {} ELSE groups[k]]
      /\ traded' = {} /\ UNCHANGED <<nextId, mark, due, outlived>>
  BY <1>i DEF EnforceOco, settings
<1>2. Kept(orders', orders) /\ DOMAIN orders' = DOMAIN orders \ Losers
  BY <1>1, <1>i, CancelledKept
<1>3. /\ DOMAIN dormant' = DOMAIN dormant \ Losers
      /\ \A id \in DOMAIN dormant' : dormant'[id] = dormant[id]
  BY <1>1 DEF Without
<1>4. DormantOK'
  <2>1. IsFiniteSet(DOMAIN dormant')
    BY <1>3, FS_Subset DEF TInv, DormantOK, Waiting
  <2> QED BY <1>1, <1>2, <1>3, <2>1 DEF TInv, DormantOK, Waiting
<1>5. DueOK' /\ TradedOK' /\ MissedOK'
  BY <1>1, <1>3 DEF TInv, DueOK, TradedOK, MissedOK
<1>6. OutlivedOK'
  <2>1. outlived \cap Live \subseteq Losers
    BY <1>1 DEF TInv, OutlivedOK
  <2>2. Live' = Live \ Losers
    BY <1>2, <1>3 DEF Live
  <2>3. outlived' \cap Live' = {}
    BY <2>1, <2>2, <1>1
  <2> QED BY <1>1, <2>3 DEF TInv, OutlivedOK
<1>7. IndexOK'
  <2>g. groups \in [Keys -> SUBSET Nat] /\ groups' \in [Keys -> SUBSET Nat]
    BY <1>1 DEF TInv, IndexOK
  <2> SUFFICES ASSUME NEW k \in Keys
               PROVE  /\ groups'[k] \subseteq InGroup(orders', k) \cup InGroup(dormant', k)
                      /\ InGroup(dormant', k) \subseteq groups'[k]
                      /\ \A id \in InGroup(orders', k) : orders'[id].filled = 0 => id \in groups'[k]
    BY <2>g DEF IndexOK
  <2>1. \A j \in Keys :
        /\ groups[j] \subseteq InGroup(orders, j) \cup InGroup(dormant, j)
        /\ InGroup(dormant, j) \subseteq groups[j]
        /\ \A id \in InGroup(orders, j) : orders[id].filled = 0 => id \in groups[j]
    BY DEF TInv, IndexOK
  <2>2. /\ \A id \in InGroup(orders', k) :
             /\ id \in InGroup(orders, k) /\ id \notin Losers
             /\ (orders'[id].filled = 0 => orders[id].filled = 0)
        /\ \A id \in InGroup(orders, k) : id \in Losers \/ id \in InGroup(orders', k)
        /\ \A id \in InGroup(dormant', k) : id \in InGroup(dormant, k) /\ id \notin Losers
        /\ \A id \in InGroup(dormant, k) : id \in Losers \/ id \in InGroup(dormant', k)
    BY <1>2, <1>3 DEF InGroup, Kept, Key
  <2>3. TradedKeys \subseteq Keys
    BY DEF TInv, TradedOK, TradedKeys
  <2>4. \A id \in TradedIds : id \notin DOMAIN dormant
          /\ (id \in DOMAIN orders => orders[id].filled # 0)
    BY DEF TInv, TradedOK, TradedIds
  <2>5. CASE k \in TradedKeys
    <3>1. \A id \in groups[k] : id \in Losers \/ id \in TradedIds
      BY <2>5, LosersOf DEF Losers
    <3>2. InGroup(dormant', k) = {}
      BY <2>1, <2>2, <2>4, <3>1 DEF InGroup
    <3>3. \A id \in InGroup(orders', k) : orders'[id].filled # 0
      BY <2>1, <2>2, <2>4, <3>1 DEF InGroup
    <3>4. groups'[k] = {}
      BY <1>1, <2>5
    <3> QED BY <3>2, <3>3, <3>4
  <2>6. CASE k \notin TradedKeys
    <3>1. ASSUME NEW id \in Losers PROVE id \notin groups[k]
      <4>1. PICK j \in TradedKeys : id \in groups[j]
        BY DEF Losers
      <4>2. id \in InGroup(orders, j) \cup InGroup(dormant, j) /\ j # k
        BY <4>1, <2>1, <2>3, <2>6
      <4>3. DOMAIN orders \cap DOMAIN dormant = {}
        BY DEF TInv, DormantOK
      <4>4. id \notin InGroup(orders, k) \cup InGroup(dormant, k)
        BY <4>2, <4>3 DEF InGroup
      <4> QED BY <4>4, <2>1
    <3>2. groups'[k] = groups[k]
      BY <1>1, <2>6
    <3> QED BY <2>1, <2>2, <3>1, <3>2
  <2> QED BY <2>5, <2>6
<1> QED BY <1>4, <1>5, <1>6, <1>7 DEF TriggersOK

\* A request for a conditional order, as the validation of the route leaves it.
Conditional(c) ==
  /\ c.user \in Users /\ c.side \in Sides
  /\ c.type \in {"limit", "market"} /\ c.tif \in {"GTC", "IOC", "FOK"}
  /\ c.price \in Nat /\ c.qty \in Nat
  /\ c.postOnly \in BOOLEAN /\ c.reduceOnly \in BOOLEAN
  /\ c.oco \in Groups \cup {NoGroup}
  /\ c.trigger \in [price : Nat, trail : Nat, direction : {"above", "below"}]

LEMMA MarkNat == PInv => mark \in Nat
<1> SUFFICES ASSUME PInv PROVE mark \in Nat
  OBVIOUS
<1>1. mark \in Marks \cup {0}
  BY DEF PInv, Settings
<1>2. Marks \subseteq Nat
  BY PerpAssumption
<1> QED BY <1>1, <1>2

LEMMA PlacedFacts ==
  ASSUME PInv, NEW c, Conditional(c), ConditionalValid(c)
  PROVE  /\ Placed(c) \in Dormant /\ Placed(c).id = nextId
         /\ Placed(c).user = c.user /\ Placed(c).oco = c.oco
<1>t. PICK t : t = c.trigger
  OBVIOUS
<1>1. t \in [price : Nat, trail : Nat, direction : {"above", "below"}]
  BY <1>t DEF Conditional
<1>m. mark \in Int /\ nextId \in Nat \ {0}
  BY MarkNat, EngineDomain
<1>2. TrailedFrom(t, mark) \in Int
  BY <1>1, <1>m, TrailedInt
<1>p. PICK price : price = TriggerPrice(c)
  OBVIOUS
<1>3. price \in Nat \ {0}
  <2>1. price \in Int
    BY <1>1, <1>2, <1>p, <1>t DEF TriggerPrice
  <2>2. price > 0
    BY <1>p DEF ConditionalValid
  <2> QED BY <2>1, <2>2
<1>u. PICK u : u = [t EXCEPT !.price = price]
  OBVIOUS
<1>4. u \in [price : Nat \ {0}, trail : Nat, direction : {"above", "below"}]
  BY <1>1, <1>3, <1>u
<1>5. Placed(c) = [id |-> nextId, user |-> c.user, side |-> c.side, type |-> c.type,
                   price |-> c.price, qty |-> c.qty, tif |-> c.tif,
                   postOnly |-> c.postOnly, reduceOnly |-> c.reduceOnly,
                   oco |-> c.oco, trigger |-> u]
  BY <1>u, <1>p, <1>t DEF Placed
<1> QED BY <1>5, <1>4, <1>m DEF Dormant, Conditional

\* An order registered in the index.
LEMMA RegisteredFacts ==
  ASSUME groups \in [Keys -> SUBSET Nat], NEW o, o.id \in Nat,
         o.user \in Users, o.oco \in Groups \cup {NoGroup},
         groups' = Registered(groups, o)
  PROVE  /\ groups' \in [Keys -> SUBSET Nat]
         /\ \A k \in Keys : groups'[k] = IF Key(o) = k THEN groups[k] \cup {o.id}
                                                       ELSE groups[k]
<1>1. o.oco = NoGroup => Key(o) \notin Keys
  BY PerpAssumption DEF Key, Keys
<1>2. o.oco # NoGroup => Key(o) \in Keys
  BY DEF Key, Keys
<1> QED BY <1>1, <1>2 DEF Registered

LEMMA PlaceTriggers ==
  ASSUME TInv, NEW c, Conditional(c), PlaceConditional(c)
  PROVE  TriggersOK'
<1>p. PInv
  BY DEF TInv
<1>1. /\ pc = "idle" /\ traded = {} /\ due = <<>> /\ ConditionalValid(c)
      /\ nextId' = nextId + 1 /\ groups' = Registered(groups, Placed(c))
      /\ UNCHANGED <<orders, pc, taker, mark, traded, outlived>>
  BY DEF PlaceConditional, Idle, settings
<1>o. PICK o : o = Placed(c)
  OBVIOUS
<1>2. o \in Dormant /\ o.id = nextId /\ o.user \in Users /\ o.oco \in Groups \cup {NoGroup}
  BY <1>1, <1>o, <1>p, PlacedFacts DEF Conditional
<1>n. nextId \in Nat \ {0} /\ nextId \notin DOMAIN orders
  BY <1>p, EngineDomain
<1>h. PICK held : held = WithOrder(dormant, o)
  OBVIOUS
<1>3. /\ DOMAIN held = DOMAIN dormant \cup {nextId}
      /\ \A id \in DOMAIN held : held[id] = IF id = nextId THEN o ELSE dormant[id]
  BY <1>h, <1>2 DEF WithOrder
<1>4. /\ Waiting(dormant)
      /\ \A id \in DOMAIN dormant : id \in Nat /\ id < nextId /\ id \notin DOMAIN orders
  BY DEF TInv, DormantOK, Waiting
<1>5. Waiting(held)
  <2>1. IsFiniteSet(DOMAIN held)
    BY <1>3, <1>4, FS_AddElement DEF Waiting
  <2> QED BY <2>1, <1>2, <1>3, <1>4, <1>n DEF Waiting
<1>w. /\ Waiting(dormant') /\ DOMAIN dormant' = DOMAIN held /\ due' \in Seq(Dormant)
      /\ \A id \in DOMAIN held : /\ dormant'[id].user = held[id].user
                                 /\ dormant'[id].oco = held[id].oco
      /\ mark # 0 => \A id \in DOMAIN dormant' :
           Hit(dormant'[id], mark) => \E i \in DOMAIN due' : due'[i].id = id
  <2>1. CASE mark = 0
    <3>1. dormant' = held /\ due' = due
      BY <2>1, <1>h, <1>o DEF PlaceConditional
    <3> QED BY <3>1, <2>1, <1>5 DEF TInv, DueOK
  <2>2. CASE mark # 0
    <3>1. ActivateTriggers(held, mark)
      BY <2>2, <1>h, <1>o DEF PlaceConditional
    <3>m. PICK m \in Int : m = mark
      BY <1>p, MarkNat
    <3>2. Activated(held, dormant', due', m)
      BY <3>1, <3>m, <1>5, ActivateFacts
    <3> QED BY <3>2, <3>m DEF Activated, RatchetedTo
  <2> QED BY <2>1, <2>2
<1>6. DormantOK' /\ DueOK'
  <2>1. \A id \in DOMAIN dormant' : id < nextId' /\ id \notin DOMAIN orders'
    BY <1>1, <1>3, <1>4, <1>n, <1>w
  <2> QED BY <2>1, <1>1, <1>w DEF DormantOK, DueOK
<1>7. TradedOK' /\ MissedOK'
  <2>1. TradedOK'
    BY <1>1 DEF TradedOK
  <2>2. MissedOK'
    BY <1>1, <1>w DEF MissedOK
  <2> QED BY <2>1, <2>2
<1>8. OutlivedOK'
  <2>1. Losers = {}
    BY <1>1, NoLosers
  <2>2. /\ \A id \in outlived : id \in Nat /\ id < nextId
        /\ outlived \cap Live = {}
    BY <1>1, <2>1 DEF TInv, OutlivedOK
  <2>3. Live' = Live \cup {nextId}
    BY <1>1, <1>3, <1>w DEF Live
  <2>4. \A id \in outlived' : id \in Nat /\ id < nextId' /\ id # nextId
    BY <1>1, <2>2, <1>n
  <2>5. outlived' \cap Live' = {}
    BY <1>1, <2>2, <2>3, <2>4
  <2> QED BY <1>1, <2>4, <2>5 DEF OutlivedOK
<1>9. IndexOK'
  <2>1. /\ groups' \in [Keys -> SUBSET Nat]
        /\ \A k \in Keys : groups'[k] = IF Key(o) = k THEN groups[k] \cup {nextId}
                                                      ELSE groups[k]
    BY <1>1, <1>o, <1>2, <1>n, RegisteredFacts DEF TInv, IndexOK
  <2> SUFFICES ASSUME NEW k \in Keys
               PROVE  /\ groups'[k] \subseteq InGroup(orders, k) \cup InGroup(dormant', k)
                      /\ InGroup(dormant', k) \subseteq groups'[k]
                      /\ \A id \in InGroup(orders, k) : orders[id].filled = 0 => id \in groups'[k]
    BY <1>1, <2>1 DEF IndexOK
  <2>2. /\ groups[k] \subseteq InGroup(orders, k) \cup InGroup(dormant, k)
        /\ InGroup(dormant, k) \subseteq groups[k]
        /\ \A id \in InGroup(orders, k) : orders[id].filled = 0 => id \in groups[k]
    BY DEF TInv, IndexOK
  <2>3. InGroup(dormant', k) = InGroup(dormant, k)
                                 \cup IF Key(o) = k THEN {nextId} ELSE {}
    <3>1. \A id \in DOMAIN dormant : id # nextId
      BY <1>4, <1>n
    <3>n. PICK new : new = dormant'
      OBVIOUS
    <3>2. \A id \in DOMAIN held : Key(new[id]) = Key(held[id])
      BY <3>n, <1>w DEF Key
    <3>3. \A id \in DOMAIN dormant : Key(new[id]) = Key(dormant[id])
      BY <3>1, <3>2, <1>3
    <3>4. Key(new[nextId]) = Key(o) /\ DOMAIN new = DOMAIN dormant \cup {nextId}
      BY <3>2, <3>n, <1>3, <1>w
    <3> QED BY <3>1, <3>3, <3>4, <3>n DEF InGroup
  <2> QED BY <2>1, <2>2, <2>3
<1> QED BY <1>6, <1>7, <1>8, <1>9 DEF TriggersOK

\* A dormant order ends, and leaves the index.
LEMMA DropDormant ==
  ASSUME TInv, NEW id, dormant' = Without(dormant, {id}),
         groups' = Unregistered(groups, {id}), id \in DOMAIN dormant,
         orders' = orders
  PROVE  IndexOK' /\ Waiting(dormant')
<1>1. /\ DOMAIN dormant' = DOMAIN dormant \ {id}
      /\ \A x \in DOMAIN dormant' : dormant'[x] = dormant[x]
  BY DEF Without
<1>2. Waiting(dormant')
  <2>1. IsFiniteSet(DOMAIN dormant')
    BY <1>1, FS_Subset DEF TInv, DormantOK, Waiting
  <2> QED BY <1>1, <2>1 DEF TInv, DormantOK, Waiting
<1>3. groups \in [Keys -> SUBSET Nat] /\ groups' = [k \in Keys |-> groups[k] \ {id}]
  BY DEF TInv, IndexOK, Unregistered
<1>4. ASSUME NEW k \in Keys
      PROVE  /\ groups'[k] \subseteq InGroup(orders', k) \cup InGroup(dormant', k)
             /\ InGroup(dormant', k) \subseteq groups'[k]
             /\ \A x \in InGroup(orders', k) : orders'[x].filled = 0 => x \in groups'[k]
  <2>1. /\ groups[k] \subseteq InGroup(orders, k) \cup InGroup(dormant, k)
        /\ InGroup(dormant, k) \subseteq groups[k]
        /\ \A x \in InGroup(orders, k) : orders[x].filled = 0 => x \in groups[k]
    BY DEF TInv, IndexOK
  <2>2. groups'[k] = groups[k] \ {id} /\ id \notin DOMAIN orders
    BY <1>3 DEF TInv, DormantOK
  <2>3. InGroup(dormant', k) = InGroup(dormant, k) \ {id}
    BY <1>1 DEF InGroup
  <2> QED BY <2>1, <2>2, <2>3 DEF InGroup
<1>5. groups' \in [Keys -> SUBSET Nat]
  BY <1>3
<1> QED BY <1>2, <1>4, <1>5 DEF IndexOK

\* Between submissions, when fewer orders are dormant and none is new.
LEMMA FewerDormant ==
  ASSUME TInv, pc = "idle", traded = {}, pc' \in {"idle", "submit"},
         Waiting(dormant'), IndexOK', DueOK', MissedOK',
         DOMAIN dormant' \subseteq DOMAIN dormant,
         UNCHANGED <<orders, nextId, taker, traded, outlived>>
  PROVE  TriggersOK'
<1>1. DormantOK'
  BY DEF TInv, DormantOK
<1>2. TradedOK'
  BY DEF TradedOK
<1>3. OutlivedOK'
  <2>1. outlived \cap Live = {} /\ Live' \subseteq Live
    BY NoLosers DEF TInv, OutlivedOK, Live
  <2>2. outlived' \cap Live' = {}
    BY <2>1
  <2> QED BY <2>2 DEF TInv, OutlivedOK
<1> QED BY <1>1, <1>2, <1>3 DEF TriggersOK

LEMMA CancelDormantTriggers ==
  ASSUME TInv, NEW id \in DOMAIN dormant, CancelDormant(id)
  PROVE  TriggersOK'
<1>1. /\ pc = "idle" /\ traded = {} /\ due = <<>>
      /\ dormant' = Without(dormant, {id}) /\ groups' = Unregistered(groups, {id})
      /\ UNCHANGED <<orders, nextId, taker, pc, mark, due, traded, outlived>>
  BY DEF CancelDormant, Idle, vars
<1>2. IndexOK' /\ Waiting(dormant')
  BY <1>1, DropDormant
<1>3. /\ DOMAIN dormant' = DOMAIN dormant \ {id}
      /\ \A x \in DOMAIN dormant' : dormant'[x] = dormant[x]
  BY <1>1 DEF Without
<1>4. DueOK' /\ MissedOK'
  BY <1>1, <1>3 DEF TInv, DueOK, MissedOK
<1> QED BY <1>1, <1>2, <1>3, <1>4, FewerDormant

LEMMA FireTriggers ==
  ASSUME TInv, Fire
  PROVE  TriggersOK'
<1>p. PInv /\ DueOK
  BY DEF TInv
<1>o. PICK o : o = Head(due)
  OBVIOUS
<1>1. /\ pc = "idle" /\ traded = {} /\ due # <<>> /\ due' = Tail(due)
      /\ UNCHANGED <<orders, nextId, taker, mark, traded, outlived>>
      /\ pc' \in {"idle", "submit"}
  BY <1>p, FireEngine DEF Fire, settings
<1>2. \/ o.id \notin DOMAIN dormant /\ UNCHANGED <<dormant, groups>>
      \/ /\ o.id \in DOMAIN dormant
         /\ dormant' = Without(dormant, {o.id}) /\ groups' = Unregistered(groups, {o.id})
  BY <1>o DEF Fire, FireSkips, FireDrops, FireSubmits, StillDormant
<1>3. IndexOK' /\ Waiting(dormant')
  <2>1. CASE UNCHANGED <<dormant, groups>>
    BY <1>1, <2>1 DEF TInv, IndexOK, DormantOK, InGroup
  <2>2. CASE /\ o.id \in DOMAIN dormant
             /\ dormant' = Without(dormant, {o.id})
             /\ groups' = Unregistered(groups, {o.id})
    BY <1>1, <2>2, DropDormant
  <2> QED BY <1>2, <2>1, <2>2
<1>4. /\ DOMAIN dormant' \subseteq DOMAIN dormant \ {o.id}
      /\ \A x \in DOMAIN dormant' : dormant'[x] = dormant[x]
  BY <1>2 DEF Without
<1>5. DueOK'
  <2>1. due \in Seq(Dormant) /\ due # <<>>
    BY <1>1, <1>p DEF DueOK
  <2>2. Tail(due) \in Seq(Dormant)
    BY <2>1
  <2> QED BY <2>2, <1>1 DEF DueOK
<1>6. MissedOK'
  <2> SUFFICES ASSUME mark # 0, NEW id \in DOMAIN dormant', Hit(dormant'[id], mark)
               PROVE  \E i \in DOMAIN due' : due'[i].id = id
    BY <1>1 DEF MissedOK
  <2>1. PICK i \in DOMAIN due : due[i].id = id
    BY <1>1, <1>4 DEF TInv, MissedOK
  <2>s. PICK s, t : s = due /\ t = due'
    OBVIOUS
  <2>2. s \in Seq(Dormant) /\ s # <<>> /\ t = Tail(s) /\ i \in 1..Len(s)
    BY <2>s, <1>1, <1>p DEF DueOK
  <2>3. i # 1
    BY <1>4, <1>o, <2>1, <2>s, <2>2
  <2>4. i - 1 \in DOMAIN t /\ t[i - 1] = s[i]
    BY <2>2, <2>3
  <2> QED BY <2>1, <2>4, <2>s
<1> QED BY <1>1, <1>3, <1>4, <1>5, <1>6, FewerDormant

LEMMA MarkTriggers ==
  ASSUME TInv, NEW m, Mark(m)
  PROVE  TriggersOK'
<1>1. /\ pc = "idle" /\ traded = {} /\ pc' = "sweep"
      /\ UNCHANGED <<orders, nextId, taker, dormant, groups, due, traded, outlived>>
  BY DEF Mark, Idle, SetMarkPrice, BeginSweep
<1>2. DormantOK' /\ DueOK' /\ IndexOK' /\ TradedOK' /\ MissedOK'
  BY <1>1 DEF TInv, DormantOK, DueOK, IndexOK, TradedOK, MissedOK, InGroup
<1>3. OutlivedOK'
  <2>1. outlived' \cap Live' = {}
    BY <1>1, NoLosers DEF TInv, OutlivedOK, Live
  <2> QED BY <1>1, <2>1 DEF TInv, OutlivedOK
<1> QED BY <1>2, <1>3 DEF TriggersOK

LEMMA SweepDoneTriggers ==
  ASSUME TInv, SweepDone
  PROVE  TriggersOK'
<1>1. /\ pc = "sweep" /\ pc' = "idle" /\ ActivateTriggers(dormant, mark)
      /\ UNCHANGED <<orders, nextId, taker, mark, groups, traded, outlived>>
  BY DEF SweepDone, FinishSweep, settings
<1>m. PICK m \in Int : m = mark
  BY MarkNat DEF TInv
<1>2. Activated(dormant, dormant', due', m)
  BY <1>1, <1>m, ActivateFacts DEF TInv, DormantOK
<1>t. traded = {}
  BY <1>1 DEF TInv, TradedOK
<1>3. DormantOK' /\ DueOK'
  BY <1>1, <1>2 DEF TInv, DormantOK, DueOK, Activated
<1>4. TradedOK' /\ MissedOK'
  BY <1>1, <1>2, <1>m, <1>t DEF TradedOK, MissedOK, Activated
<1>5. IndexOK'
  <2>1. \A k \in Keys : InGroup(dormant', k) = InGroup(dormant, k)
    BY <1>2 DEF Activated, RatchetedTo, InGroup, Key
  <2>2. \A k \in Keys : InGroup(orders', k) = InGroup(orders, k)
    BY <1>1
  <2> QED BY <2>1, <2>2, <1>1 DEF TInv, IndexOK
<1>6. OutlivedOK'
  <2>1. Live' = Live
    BY <1>1, <1>2 DEF Live, Activated
  <2>2. outlived' \cap Live' = {}
    BY <1>1, <2>1 DEF TInv, OutlivedOK
  <2> QED BY <1>1, <2>2 DEF TInv, OutlivedOK
<1> QED BY <1>3, <1>4, <1>5, <1>6 DEF TriggersOK

LEMMA SweepKept ==
  ASSUME PInv, PassHealthy \/ Liquidate
  PROVE  /\ pc = "sweep" /\ pc' = "sweep" /\ Kept(orders', orders)
         /\ UNCHANGED <<nextId, mark>>
<1>1. /\ pc = "sweep" /\ pc' = "sweep" /\ UNCHANGED <<nextId, mark>>
  BY DEF PassHealthy, Liquidate, settings
<1>2. Kept(orders', orders)
  <2>1. CASE PassHealthy
    BY <2>1 DEF PassHealthy, Kept
  <2>2. CASE Liquidate
    <3>1. Cleared(Engine', Engine)
      BY <2>2, LiquidateInv
    <3>2. Engine'.orders = orders' /\ Engine.orders = orders
      BY DEF Engine
    <3> QED BY <3>1, <3>2, KeptWithout DEF Cleared
  <2> QED BY <2>1, <2>2
<1> QED BY <1>1, <1>2

LEMMA CancelRestingTriggers ==
  ASSUME TInv, NEW id, CancelResting(id)
  PROVE  TriggersOK'
<1>1. /\ pc = "idle" /\ traded = {} /\ pc' = "idle" /\ RetireGone
      /\ Becomes(Cancelled(Engine, {id}))
      /\ UNCHANGED <<nextId, mark, dormant, due, traded, outlived>>
  BY DEF CancelResting, Idle, CancelOrder, settings
<1>2. Kept(orders', orders)
  BY <1>1, CancelledKept
<1> QED BY <1>1, <1>2, RetireStep

LEMMA AmendTriggers ==
  ASSUME TInv, NEW id, NEW ch, Amend(id, ch)
  PROVE  TriggersOK'
<1>1. /\ pc = "idle" /\ traded = {} /\ pc' = "submit" /\ RetireGone
      /\ Becomes(Cancelled(Engine, {id}))
      /\ UNCHANGED <<nextId, mark, dormant, due, traded, outlived>>
  BY DEF Amend, Idle, AmendOrder, settings
<1>2. Kept(orders', orders)
  BY <1>1, CancelledKept
<1> QED BY <1>1, <1>2, RetireStep

LEMMA SweepOneTriggers ==
  ASSUME TInv, SweepOne
  PROVE  TriggersOK'
<1>1. /\ pc = "sweep" /\ pc' = "sweep" /\ Kept(orders', orders)
      /\ UNCHANGED <<nextId, mark>>
  BY SweepKept DEF SweepOne, TInv
<1>2. RetireGone /\ UNCHANGED <<dormant, due, traded, outlived>>
  BY DEF SweepOne
<1>3. traded = {}
  BY <1>1 DEF TInv, TradedOK
<1> QED BY <1>1, <1>2, <1>3, RetireStep

LEMMA QuietTriggers ==
  ASSUME TInv, UNCHANGED <<orders, nextId, taker, mark, pc, dormant, groups, due,
                           traded, outlived>>
  PROVE  TriggersOK'
<1>1. DormantOK' /\ DueOK' /\ IndexOK' /\ TradedOK' /\ MissedOK'
  BY DEF TInv, DormantOK, DueOK, IndexOK, TradedOK, MissedOK, InGroup
<1>2. Losers' = Losers /\ Live' = Live
  BY DEF Losers, TradedKeys, TradedIds, Live
<1>3. OutlivedOK'
  BY <1>2 DEF TInv, OutlivedOK
<1> QED BY <1>1, <1>3 DEF TriggersOK

-----------------------------------------------------------------------------
(* The invariant holds, and what follows from it.                          *)

LEMMA RequestsConditional == \A c \in Conditionals : Conditional(c)
BY TriggersAssumption DEF Conditional

LEMMA TriggersInitInv == TInit => TInv
<1> SUFFICES ASSUME TInit PROVE TInv
  OBVIOUS
<1>1. Init /\ PInv
  BY PerpInitInv DEF TInit
<1>2. /\ DOMAIN dormant = {} /\ DOMAIN orders = {} /\ due = <<>> /\ traded = {}
      /\ outlived = {} /\ groups = [k \in Keys |-> {}] /\ mark = 0 /\ pc = "idle"
  BY <1>1 DEF TInit, Init
<1>3. DormantOK
  <2>1. IsFiniteSet(DOMAIN dormant)
    BY <1>2, FS_EmptySet
  <2> QED BY <1>2, <2>1 DEF DormantOK, Waiting
<1>4. DueOK /\ TradedOK /\ OutlivedOK /\ MissedOK
  BY <1>2 DEF DueOK, TradedOK, OutlivedOK, MissedOK
<1>5. IndexOK
  BY <1>2 DEF IndexOK, InGroup
<1> QED BY <1>1, <1>3, <1>4, <1>5 DEF TInv

LEMMA TriggersNext ==
  ASSUME TInv, [TNext]_tvars
  PROVE  TriggersOK'
<1>1. CASE SubmitOrUpdate
  <2>1. PICK req \in Incoming : Reject(req) \/ Accept(req)
    BY <1>1 DEF SubmitOrUpdate
  <2> QED BY <1>1, <2>1, RejectTriggers, AcceptTriggers
<1>2. CASE \E c \in Conditionals : PlaceConditional(c)
  BY <1>2, RequestsConditional, PlaceTriggers
<1>3. CASE \E id \in DOMAIN dormant : CancelDormant(id)
  BY <1>3, CancelDormantTriggers
<1>4. CASE \E id \in DOMAIN orders : CancelResting(id)
  BY <1>4, CancelRestingTriggers
<1>5. CASE \E id \in DOMAIN orders, ch \in Amendments : Amend(id, ch)
  BY <1>5, AmendTriggers
<1>6. CASE \E m \in Marks : Mark(m)
  BY <1>6, MarkTriggers
<1>7. CASE UNCHANGED tvars
  BY <1>7, QuietTriggers DEF tvars, vars
<1> QED BY <1>1, <1>2, <1>3, <1>4, <1>5, <1>6, <1>7, MatchTriggers, FinishTriggers,
           EnforceTriggers, SweepOneTriggers, SweepDoneTriggers, FireTriggers DEF TNext

LEMMA TriggersNextInv ==
  TInv /\ BudgetOK /\ [TNext]_tvars => TInv' /\ BudgetOK'
<1> SUFFICES ASSUME TInv, BudgetOK, [TNext]_tvars PROVE TInv' /\ BudgetOK'
  OBVIOUS
<1>1. PInv' /\ BudgetOK'
  BY EngineNext DEF TInv
<1>2. TriggersOK'
  BY TriggersNext
<1> QED BY <1>1, <1>2 DEF TInv, TriggersOK

\* The invariant of the conditional and one-cancels-other orders, with the
\* engine's own underneath, holds in every reachable state.
THEOREM TriggersInvariant == TSpec => [](TInv /\ BudgetOK)
<1>1. TInit => TInv /\ BudgetOK
  BY TriggersInitInv, BudgetInit DEF TInit
<1> QED BY <1>1, TriggersNextInv, PTL DEF TSpec

\* Conditional orders, trailing stops and one-cancels-other cancellations leave
\* the engine what it was without them: well-typed, its money conserved, nobody
\* in debt, and every reduce-only order within its position.
THEOREM TriggersKeepEngine ==
  TSpec => [](TypeOK /\ PerpConservation /\ Solvent /\ ReduceOnlyBudget)
<1>1. TInv /\ BudgetOK => TypeOK /\ PerpConservation /\ Solvent /\ ReduceOnlyBudget
  BY PerpShape, PerpMoney, PerpDebtFree, PerpBudget DEF TInv
<1> QED BY <1>1, TriggersInvariant, PTL

LEMMA IndexExact == TInv => OcoIndexExact
<1> SUFFICES ASSUME TInv, NEW k \in Keys
             PROVE  /\ groups[k] \subseteq Live
                    /\ {id \in DOMAIN dormant : Key(dormant[id]) = k} \subseteq groups[k]
                    /\ {id \in DOMAIN orders : Key(orders[id]) = k /\ orders[id].filled = 0}
                         \subseteq groups[k]
  BY DEF OcoIndexExact
<1>1. /\ groups[k] \subseteq InGroup(orders, k) \cup InGroup(dormant, k)
      /\ InGroup(dormant, k) \subseteq groups[k]
      /\ \A id \in InGroup(orders, k) : orders[id].filled = 0 => id \in groups[k]
  BY DEF TInv, IndexOK
<1> QED BY <1>1 DEF InGroup, Live

\* Between operations the OCO index (exchange.ts:76-77) holds every live unfilled
\* order of a group and no order that has ended, in whatever way it ended.
THEOREM OcoIndexKept == TSpec => []OcoIndexExact
<1> QED BY IndexExact, TriggersInvariant, PTL

LEMMA NoneMissed == TInv => NoTriggerMissed
<1> SUFFICES ASSUME TInv, Idle, mark # 0, NEW id \in DOMAIN dormant,
                    Hit(dormant[id], mark)
             PROVE  FALSE
  BY DEF NoTriggerMissed
<1>1. \E i \in DOMAIN due : due[i].id = id
  BY DEF TInv, MissedOK, Idle
<1> QED BY <1>1 DEF Idle

\* Between operations no dormant order's trigger is reached by the mark, although
\* the activations before it traded and cancelled (exchange.ts:560-600).
THEOREM NoTriggerIsMissed == TSpec => []NoTriggerMissed
<1> QED BY NoneMissed, TriggersInvariant, PTL

\* Once an order of a group has traded, no other unfilled order of the group is
\* live at the end of the operation, or is activated by it, not even one that
\* was on the list of due triggers already (exchange.ts:594-597).
THEOREM LosersAreOut == TSpec => LosersOut
<1>1. TInv /\ TInv' /\ [TNext]_tvars =>
        [/\ Idle' => outlived' \cap (DOMAIN orders' \cup DOMAIN dormant') = {}
         /\ pc = "idle" /\ pc' = "submit" /\ due # <<>> =>
              Head(due).id \notin outlived]_tvars
  <2> SUFFICES ASSUME TInv, TInv', TNext
               PROVE  /\ Idle' => outlived' \cap (DOMAIN orders' \cup DOMAIN dormant') = {}
                      /\ pc = "idle" /\ pc' = "submit" /\ due # <<>> =>
                           Head(due).id \notin outlived
    OBVIOUS
  <2>1. ASSUME Idle'
        PROVE  outlived' \cap (DOMAIN orders' \cup DOMAIN dormant') = {}
    <3>1. traded' = {}
      BY <2>1 DEF Idle
    <3>2. Losers' = {}
      BY <3>1 DEF Losers, TradedKeys
    <3>3. outlived' \cap Live' = {}
      BY <3>2 DEF TInv, OutlivedOK
    <3> QED BY <3>3 DEF Live
  <2>2. ASSUME pc = "idle", pc' = "submit", due # <<>>
        PROVE  Head(due).id \notin outlived
    <3>1. CASE Fire
      <4>1. traded = {} /\ (FireSkips \/ FireDrops \/ FireSubmits)
        BY <3>1 DEF Fire
      <4>2. FireSubmits
        BY <4>1, <2>2 DEF FireSkips, FireDrops
      <4>3. Head(due).id \in Live
        BY <4>2 DEF FireSubmits, StillDormant, Live
      <4>4. outlived \cap Live = {}
        BY <4>1, NoLosers DEF TInv, OutlivedOK
      <4> QED BY <4>3, <4>4
    <3>2. ~(SubmitOrUpdate \/ Match \/ Finish \/ EnforceOco)
      <4>1. ~SubmitOrUpdate
        BY <2>2 DEF SubmitOrUpdate, Reject, Accept
      <4>2. ~Match
        BY <2>2, MatchKept DEF Match, TInv
      <4>3. ~Finish
        BY <2>2 DEF Finish, FinishSubmit
      <4>4. ~EnforceOco
        BY <2>2 DEF EnforceOco
      <4> QED BY <4>1, <4>2, <4>3, <4>4
    <3>3. /\ \A c \in Conditionals : ~PlaceConditional(c)
          /\ \A id \in DOMAIN dormant : ~CancelDormant(id)
          /\ \A id \in DOMAIN orders : ~CancelResting(id)
          /\ \A id \in DOMAIN orders, ch \in Amendments : ~Amend(id, ch)
          /\ \A m \in Marks : ~Mark(m)
      BY <2>2 DEF PlaceConditional, CancelDormant, CancelResting, Amend, Mark, Idle
    <3>4. ~SweepOne /\ ~SweepDone
      BY <2>2 DEF SweepOne, SweepDone, PassHealthy, Liquidate, FinishSweep
    <3> QED BY <3>1, <3>2, <3>3, <3>4 DEF TNext
  <2> QED BY <2>1, <2>2
<1> QED BY <1>1, TriggersInvariant, TriggersNextInv, PTL DEF TSpec, LosersOut

\* The dormant order `id`, if it was and stays one, has the trigger it had, or is
\* a trailing stop that moved away from firing and is not among those to fire.
Tightened(id) ==
  LET was == dormant[id].trigger
      now == dormant'[id].trigger
  IN  was # now =>
        /\ was.trail > 0
        /\ IF was.direction = "below" THEN now.price > was.price
                                      ELSE now.price < was.price
        /\ \A i \in DOMAIN due' : due'[i].id # id

LEMMA ActivateTightens ==
  ASSUME NEW held, NEW m, Activated(held, dormant', due', m),
         NEW id \in DOMAIN held, held[id] = dormant[id]
  PROVE  Tightened(id)
<1>1. RatchetedTo(dormant[id], dormant'[id], m) /\ id \in DOMAIN dormant'
  BY DEF Activated
<1>2. ~Hit(dormant'[id], m) => \A i \in DOMAIN due' : due'[i].id # id
  BY <1>1 DEF Activated
<1> QED BY <1>1, <1>2 DEF RatchetedTo, Tightened

LEMMA SameTightens ==
  ASSUME NEW id, dormant'[id] = dormant[id]
  PROVE  Tightened(id)
BY DEF Tightened

LEMMA DroppedTightens ==
  ASSUME NEW gone, dormant' = Without(dormant, gone), NEW id \in DOMAIN dormant'
  PROVE  Tightened(id)
<1>1. dormant'[id] = dormant[id]
  BY DEF Without
<1> QED BY <1>1, SameTightens

LEMMA PlaceTightens ==
  ASSUME TInv, NEW c, Conditional(c), PlaceConditional(c), NEW id \in DOMAIN dormant
  PROVE  Tightened(id)
<1>p. PInv
  BY DEF TInv
<1>o. PICK o : o = Placed(c)
  OBVIOUS
<1>1. o \in Dormant /\ o.id = nextId
  BY <1>p, <1>o, PlacedFacts DEF PlaceConditional
<1>h. PICK held : held = WithOrder(dormant, o)
  OBVIOUS
<1>2. /\ Waiting(dormant)
      /\ \A x \in DOMAIN dormant : x \in Nat /\ x < nextId
  BY DEF TInv, DormantOK, Waiting
<1>n. nextId \in Nat \ {0} /\ id # nextId
  BY <1>p, <1>2, EngineDomain
<1>3. /\ DOMAIN held = DOMAIN dormant \cup {nextId}
      /\ \A x \in DOMAIN held : held[x] = IF x = nextId THEN o ELSE dormant[x]
  BY <1>1, <1>h DEF WithOrder
<1>4. Waiting(held)
  <2>1. IsFiniteSet(DOMAIN held)
    BY <1>2, <1>3, FS_AddElement DEF Waiting
  <2> QED BY <2>1, <1>1, <1>2, <1>3, <1>n DEF Waiting
<1>5. id \in DOMAIN held /\ held[id] = dormant[id]
  BY <1>3, <1>n
<1>6. CASE mark = 0
  <2>1. dormant' = held
    BY <1>6, <1>h, <1>o DEF PlaceConditional
  <2> QED BY <2>1, <1>5, SameTightens
<1>7. CASE mark # 0
  <2>1. ActivateTriggers(held, mark)
    BY <1>7, <1>h, <1>o DEF PlaceConditional
  <2>m. PICK m \in Int : m = mark
    BY <1>p, MarkNat
  <2>2. Activated(held, dormant', due', m)
    BY <2>1, <2>m, <1>4, ActivateFacts
  <2> QED BY <2>2, <1>5, ActivateTightens
<1> QED BY <1>6, <1>7

\* A trailing stop only ever moves away from firing, and one that moves does not
\* fire on the same price (exchange.ts:565-568).
THEOREM TrailingStopsTighten == TSpec => StopsOnlyTighten
<1>1. TInv /\ [TNext]_tvars =>
        [\A id \in DOMAIN dormant \cap DOMAIN dormant' : Tightened(id)]_tvars
  <2> SUFFICES ASSUME TInv, TNext, NEW id \in DOMAIN dormant, id \in DOMAIN dormant'
               PROVE  Tightened(id)
    OBVIOUS
  <2>1. ASSUME NEW gone, dormant' = Without(dormant, gone) PROVE Tightened(id)
    BY <2>1, DroppedTightens
  <2>2. ASSUME dormant' = dormant PROVE Tightened(id)
    BY <2>2, SameTightens
  <2>3. CASE SubmitOrUpdate \/ Match \/ Finish \/ SweepOne
    BY <2>2, <2>3 DEF SubmitOrUpdate, Match, Finish, SweepOne
  <2>4. CASE EnforceOco
    BY <2>1, <2>4 DEF EnforceOco
  <2>5. CASE \E c \in Conditionals : PlaceConditional(c)
    BY <2>5, RequestsConditional, PlaceTightens
  <2>6. CASE \E x \in DOMAIN dormant : CancelDormant(x)
    BY <2>1, <2>6 DEF CancelDormant
  <2>7. CASE \E x \in DOMAIN orders : CancelResting(x)
    BY <2>2, <2>7 DEF CancelResting
  <2>8. CASE \E x \in DOMAIN orders, ch \in Amendments : Amend(x, ch)
    BY <2>2, <2>8 DEF Amend
  <2>9. CASE \E m \in Marks : Mark(m)
    BY <2>2, <2>9 DEF Mark
  <2>10. CASE SweepDone
    <3>1. ActivateTriggers(dormant, mark)
      BY <2>10 DEF SweepDone
    <3>m. PICK m \in Int : m = mark
      BY MarkNat DEF TInv
    <3>2. Activated(dormant, dormant', due', m)
      BY <3>1, <3>m, ActivateFacts DEF TInv, DormantOK
    <3> QED BY <3>2, ActivateTightens
  <2>11. CASE Fire
    <3>1. CASE FireSkips
      BY <2>2, <3>1 DEF FireSkips
    <3>2. CASE FireDrops
      BY <2>1, <3>2 DEF FireDrops
    <3>3. CASE FireSubmits
      BY <2>1, <3>3 DEF FireSubmits
    <3> QED BY <2>11, <3>1, <3>2, <3>3 DEF Fire
  <2> QED BY <2>3, <2>4, <2>5, <2>6, <2>7, <2>8, <2>9, <2>10, <2>11 DEF TNext
<1>2. TInv /\ [TNext]_tvars =>
        [\A id \in DOMAIN dormant \cap DOMAIN dormant' :
           LET was == dormant[id].trigger
               now == dormant'[id].trigger
           IN  was # now =>
                 /\ was.trail > 0
                 /\ IF was.direction = "below" THEN now.price > was.price
                                               ELSE now.price < was.price
                 /\ \A i \in DOMAIN due' : due'[i].id # id]_tvars
  BY <1>1 DEF Tightened
<1> QED BY <1>2, TriggersInvariant, PTL DEF TSpec, StopsOnlyTighten

-----------------------------------------------------------------------------
(* Who orders what.  An order keeps its trader, side, reduce-only flag and *)
(* group from the request it was submitted, amended or activated with.     *)

Body(o) == <<o.user, o.side, o.reduceOnly, o.oco>>

\* A resting or waiting order is one of A; the order in flight may also be a
\* market order of B.
Flying(o, A, B) == Body(o) \in A \/ (o.type = "market" /\ Body(o) \in B)

Kinds(A, B) ==
  /\ \A id \in DOMAIN orders : Body(orders[id]) \in A
  /\ \A id \in DOMAIN dormant : Body(dormant[id]) \in A
  /\ \A i \in DOMAIN due : Body(due[i]) \in A
  /\ pc = "match" => Flying(taker, A, B)
  /\ pc = "submit" => Flying(pending, A, B)

LEMMA OrderOfBody ==
  ASSUME NEW req
  PROVE  Body(OrderOf(req)) = Body(req) /\ OrderOf(req).type = req.type
<1>1. PICK o : /\ OrderOf(req) = [o EXCEPT !.lock = LockFor(o)]
               /\ o = [id |-> nextId, user |-> req.user, side |-> req.side,
                       type |-> req.type, price |-> req.price, qty |-> req.qty,
                       filled |-> 0, tif |-> req.tif, postOnly |-> req.postOnly,
                       reduceOnly |-> req.reduceOnly, oco |-> req.oco,
                       leverage |-> leverages[req.user], lock |-> 0]
  BY DEF OrderOf
<1>2. PICK k : OrderOf(req) = [o EXCEPT !.lock = k]
  BY <1>1
<1> QED BY <1>1, <1>2 DEF Body

LEMMA FillBody ==
  ASSUME NEW o \in Order, NEW q
  PROVE  Body(AfterFill(o, q)) = Body(o) /\ AfterFill(o, q).type = o.type
<1>1. PICK k : AfterFill(o, q) = [[o EXCEPT !.filled = @ + q] EXCEPT !.lock = k]
  BY DEF AfterFill
<1> QED BY <1>1 DEF Order, Body

\* Orders that left change nothing.
LEMMA FewerBodies ==
  ASSUME NEW new, NEW old, NEW A, \A id \in DOMAIN old : Body(old[id]) \in A,
         DOMAIN new \subseteq DOMAIN old, \A id \in DOMAIN new : new[id] = old[id]
  PROVE  \A id \in DOMAIN new : Body(new[id]) \in A
OBVIOUS

LEMMA WithoutBodies ==
  ASSUME NEW old, NEW gone, NEW A, \A id \in DOMAIN old : Body(old[id]) \in A,
         NEW new, new = Without(old, gone)
  PROVE  \A id \in DOMAIN new : Body(new[id]) \in A
BY DEF Without

LEMMA ActivatedBodies ==
  ASSUME NEW held, NEW m, NEW A, Activated(held, dormant', due', m),
         \A id \in DOMAIN held : Body(held[id]) \in A
  PROVE  /\ \A id \in DOMAIN dormant' : Body(dormant'[id]) \in A
         /\ \A i \in DOMAIN due' : Body(due'[i]) \in A
<1>p. PICK new, list : new = dormant' /\ list = due'
  OBVIOUS
<1>1. /\ DOMAIN new = DOMAIN held
      /\ \A id \in DOMAIN held : RatchetedTo(held[id], new[id], m)
      /\ \A i \in DOMAIN list : \E id \in DOMAIN new : list[i] = new[id]
  BY <1>p DEF Activated
<1>2. \A id \in DOMAIN held : Body(new[id]) = Body(held[id])
  BY <1>1 DEF RatchetedTo, Body
<1>3. \A id \in DOMAIN new : Body(new[id]) \in A
  BY <1>1, <1>2
<1> QED BY <1>1, <1>3, <1>p

LEMMA SubmitKinds ==
  ASSUME PInv, NEW A, NEW B, Kinds(A, B), SubmitOrUpdate,
         \A r \in Requests : Body(r) \in A
  PROVE  Kinds(A, B)'
<1>1. PICK req \in Incoming : Reject(req) \/ Accept(req)
  BY DEF SubmitOrUpdate
<1>2. UNCHANGED <<orders, dormant, due>>
  BY <1>1 DEF SubmitOrUpdate, Reject, Accept
<1>3. Flying(req, A, B)
  <2>1. pc = "idle" \/ pc = "submit"
    BY IncomingAsked
  <2>2. CASE pc = "idle"
    BY <2>2 DEF Incoming, Flying
  <2>3. CASE pc = "submit"
    BY <2>3 DEF Incoming, Kinds
  <2> QED BY <2>1, <2>2, <2>3
<1>4. CASE Reject(req)
  BY <1>2, <1>4 DEF Reject, Kinds
<1>5. CASE Accept(req)
  <2>1. pc' = "match" /\ taker' = OrderOf(req)
    BY <1>5 DEF Accept
  <2>2. Flying(taker', A, B)
    BY <1>3, <2>1, OrderOfBody DEF Flying
  <2> QED BY <1>2, <2>1, <2>2 DEF Kinds
<1> QED BY <1>1, <1>4, <1>5

LEMMA MatchKinds ==
  ASSUME PInv, NEW A, NEW B, Kinds(A, B), Match
  PROVE  Kinds(A, B)'
<1>1. MatchOrder /\ UNCHANGED <<dormant, due>>
  BY DEF Match
<1>2. CASE CancelMaker
  <2>1. /\ pc = "match" /\ pc' = pc /\ taker' = taker
        /\ orders' = Without(orders, {BestMaker.id})
    BY <1>2, CancelledOrders DEF CancelMaker, CanMatch
  <2>2. \A id \in DOMAIN orders' : Body(orders'[id]) \in A
    BY <2>1, WithoutBodies DEF Kinds
  <2> QED BY <1>1, <2>1, <2>2 DEF Kinds
<1>3. CASE ExecuteFill
  <2>1. pc = "match" /\ pc' = pc
    BY <1>3 DEF ExecuteFill, CanMatch
  <2>2. /\ DOMAIN orders' \subseteq DOMAIN orders
        /\ \A x \in DOMAIN orders' :
             orders'[x] = IF x = BestMaker.id THEN AfterFill(BestMaker, FillQty)
                                              ELSE orders[x]
        /\ taker' = AfterFill(taker, FillQty)
    BY <1>3, FillOutcome
  <2>3. /\ BestMaker \in Order /\ orders[BestMaker.id] = BestMaker
        /\ BestMaker.id \in DOMAIN orders /\ taker \in Order
    BY <1>3, MakerFacts DEF ExecuteFill, Sound
  <2>4. \A id \in DOMAIN orders' : Body(orders'[id]) \in A
    BY <2>2, <2>3, FillBody DEF Kinds
  <2>5. Flying(taker', A, B)
    BY <2>1, <2>2, <2>3, FillBody DEF Kinds, Flying
  <2> QED BY <1>1, <2>1, <2>4, <2>5 DEF Kinds
<1> QED BY <1>1, <1>2, <1>3 DEF MatchOrder

\* Only a limit order rests.
LEMMA FinishKinds ==
  ASSUME NEW A, NEW B, Kinds(A, B), Finish
  PROVE  Kinds(A, B)'
<1>1. /\ pc = "match" /\ pc' = "idle" /\ UNCHANGED <<dormant, due>>
      /\ orders' = orders \/ (orders' = WithOrder(orders, taker) /\ Rests(taker))
  BY DEF Finish, FinishSubmit, FinishFilled, FinishCancelled, FinishResting
<1>2. Rests(taker) => Body(taker) \in A
  BY <1>1 DEF Kinds, Flying, Rests
<1>3. \A id \in DOMAIN orders' : Body(orders'[id]) \in A
  BY <1>1, <1>2 DEF Kinds, WithOrder
<1> QED BY <1>1, <1>3 DEF Kinds

LEMMA CancelKinds ==
  ASSUME NEW A, NEW B, Kinds(A, B), NEW ids, Becomes(Cancelled(Engine, ids)),
         \/ dormant' = dormant
         \/ \E gone : dormant' = Without(dormant, gone),
         due' = due, pc' \in {"idle", "submit"},
         pc' = "submit" => Flying(pending', A, B)
  PROVE  Kinds(A, B)'
<1>1. orders' = Without(orders, ids)
  BY CancelledOrders
<1>2. \A id \in DOMAIN orders' : Body(orders'[id]) \in A
  BY <1>1, WithoutBodies DEF Kinds
<1>3. \A id \in DOMAIN dormant' : Body(dormant'[id]) \in A
  BY WithoutBodies DEF Kinds
<1> QED BY <1>2, <1>3 DEF Kinds

LEMMA AmendKinds ==
  ASSUME NEW A, NEW B, Kinds(A, B), NEW id \in DOMAIN orders, NEW ch, Amend(id, ch)
  PROVE  Kinds(A, B)'
<1>1. /\ Becomes(Cancelled(Engine, {id})) /\ UNCHANGED <<dormant, due>>
      /\ pc' = "submit" /\ pending' = Replacement(orders[id], ch)
  BY DEF Amend, AmendOrder
<1>2. Body(pending') = Body(orders[id])
  BY <1>1 DEF Body, Replacement
<1>3. Flying(pending', A, B)
  BY <1>2 DEF Kinds, Flying
<1> QED BY <1>1, <1>3, CancelKinds

LEMMA PlaceKinds ==
  ASSUME TInv, NEW A, NEW B, Kinds(A, B), NEW c, Conditional(c), PlaceConditional(c),
         Body(c) \in A
  PROVE  Kinds(A, B)'
<1>p. PInv
  BY DEF TInv
<1>1. UNCHANGED <<orders, pc, taker, pending>>
  BY DEF PlaceConditional
<1>o. PICK o : o = Placed(c)
  OBVIOUS
<1>2. Body(o) = Body(c) /\ o.id = nextId /\ o \in Dormant
  <2>1. Body(o) = Body(c)
    BY <1>o DEF Placed, Body
  <2> QED BY <2>1, <1>o, <1>p, PlacedFacts DEF PlaceConditional
<1>h. PICK held : held = WithOrder(dormant, o)
  OBVIOUS
<1>3. /\ DOMAIN held = DOMAIN dormant \cup {o.id}
      /\ \A id \in DOMAIN held : held[id] = IF id = o.id THEN o ELSE dormant[id]
  BY <1>h DEF WithOrder
<1>4. \A id \in DOMAIN held : Body(held[id]) \in A
  BY <1>2, <1>3 DEF Kinds
<1>5. Waiting(held)
  <2>1. Waiting(dormant) /\ nextId \in Nat \ {0}
    BY <1>p, EngineDomain DEF TInv, DormantOK
  <2>2. IsFiniteSet(DOMAIN held)
    BY <1>3, <2>1, FS_AddElement DEF Waiting
  <2> QED BY <1>2, <1>3, <2>1, <2>2 DEF Waiting
<1>6. /\ \A id \in DOMAIN dormant' : Body(dormant'[id]) \in A
      /\ \A i \in DOMAIN due' : Body(due'[i]) \in A
  <2>1. CASE mark = 0
    <3>1. dormant' = held /\ due' = due
      BY <2>1, <1>h, <1>o DEF PlaceConditional
    <3> QED BY <3>1, <1>4 DEF Kinds
  <2>2. CASE mark # 0
    <3>1. ActivateTriggers(held, mark)
      BY <2>2, <1>h, <1>o DEF PlaceConditional
    <3>m. PICK m \in Int : m = mark
      BY <1>p, MarkNat
    <3>2. Activated(held, dormant', due', m)
      BY <3>1, <3>m, <1>5, ActivateFacts
    <3> QED BY <3>2, <1>4, ActivatedBodies
  <2> QED BY <2>1, <2>2
<1> QED BY <1>1, <1>6 DEF Kinds

LEMMA FireKinds ==
  ASSUME TInv, NEW A, NEW B, Kinds(A, B), Fire
  PROVE  Kinds(A, B)'
<1>o. PICK o : o = Head(due)
  OBVIOUS
<1>1. /\ due \in Seq(Dormant) /\ due # <<>> /\ due' = Tail(due) /\ orders' = orders
      /\ pc = "idle"
      /\ FireSkips \/ FireDrops \/ FireSubmits
  BY DEF Fire, TInv, DueOK
<1>2. Body(o) \in A
  <2>1. 1 \in DOMAIN due /\ o = due[1]
    BY <1>1, <1>o
  <2> QED BY <2>1 DEF Kinds
<1>3. \A i \in DOMAIN due' : Body(due'[i]) \in A
  <2>s. PICK s : s = due
    OBVIOUS
  <2>1. /\ s \in Seq(Dormant) /\ s # <<>> /\ \A i \in DOMAIN s : Body(s[i]) \in A
    BY <2>s, <1>1 DEF Kinds
  <2>2. \A i \in DOMAIN Tail(s) : i + 1 \in DOMAIN s /\ Tail(s)[i] = s[i + 1]
    BY <2>1
  <2> QED BY <2>1, <2>2, <2>s, <1>1
<1>4. \A id \in DOMAIN dormant' : Body(dormant'[id]) \in A
  <2>1. dormant' = dormant \/ dormant' = Without(dormant, {o.id})
    BY <1>1, <1>o DEF FireSkips, FireDrops, FireSubmits
  <2> QED BY <2>1, WithoutBodies DEF Kinds
<1>5. pc' \in {"idle", "submit"} /\ (pc' = "submit" => Flying(pending', A, B))
  <2>1. CASE FireSubmits
    <3>1. pc' = "submit" /\ pending' = Activation(o)
      BY <2>1, <1>o DEF FireSubmits
    <3>2. Body(Activation(o)) = Body(o)
      BY DEF Activation, Body
    <3> QED BY <3>1, <3>2, <1>2 DEF Flying
  <2> QED BY <1>1, <2>1 DEF FireSkips, FireDrops
<1> QED BY <1>1, <1>3, <1>4, <1>5 DEF Kinds

\* No step of the engine makes an order of another kind.
LEMMA KindsNext ==
  ASSUME TInv, NEW A, NEW B, Kinds(A, B), [TNext]_tvars,
         \A r \in Requests : Body(r) \in A, \A c \in Conditionals : Body(c) \in A
  PROVE  Kinds(A, B)'
<1>p. PInv
  BY DEF TInv
<1>1. CASE SubmitOrUpdate
  BY <1>1, <1>p, SubmitKinds
<1>2. CASE Match
  BY <1>2, <1>p, MatchKinds
<1>3. CASE Finish
  BY <1>3, FinishKinds
<1>4. CASE EnforceOco
  <2>1. /\ Becomes(Cancelled(Engine, Losers \cap DOMAIN orders)) /\ due' = due
        /\ dormant' = Without(dormant, Losers) /\ pc' = "idle"
    BY <1>4 DEF EnforceOco
  <2> QED BY <2>1, CancelKinds
<1>5. CASE \E c \in Conditionals : PlaceConditional(c)
  BY <1>5, RequestsConditional, PlaceKinds
<1>6. CASE \E id \in DOMAIN dormant : CancelDormant(id)
  <2>1. PICK id : /\ dormant' = Without(dormant, {id})
                  /\ UNCHANGED <<orders, pc, taker, pending, due>>
    BY <1>6 DEF CancelDormant, vars
  <2>2. \A x \in DOMAIN dormant' : Body(dormant'[x]) \in A
    BY <2>1, WithoutBodies DEF Kinds
  <2> QED BY <2>1, <2>2 DEF Kinds
<1>7. CASE \E id \in DOMAIN orders : CancelResting(id)
  <2>1. PICK id : /\ Becomes(Cancelled(Engine, {id})) /\ pc' = "idle"
                  /\ UNCHANGED <<dormant, due>>
    BY <1>7 DEF CancelResting, CancelOrder
  <2> QED BY <2>1, CancelKinds
<1>8. CASE \E id \in DOMAIN orders, ch \in Amendments : Amend(id, ch)
  BY <1>8, AmendKinds
<1>9. CASE \E m \in Marks : Mark(m)
  <2>1. UNCHANGED <<orders, dormant, due>> /\ pc' = "sweep"
    BY <1>9 DEF Mark, SetMarkPrice, BeginSweep
  <2> QED BY <2>1 DEF Kinds
<1>10. CASE SweepOne
  <2>1. UNCHANGED <<dormant, due>> /\ pc' = "sweep"
    BY <1>10, <1>p, SweepKept DEF SweepOne
  <2>2. DOMAIN orders' \subseteq DOMAIN orders
        /\ \A id \in DOMAIN orders' : orders'[id] = orders[id]
    <3>1. CASE PassHealthy
      BY <3>1 DEF PassHealthy
    <3>2. CASE Liquidate
      <4>1. Cleared(Engine', Engine)
        BY <1>p, <3>2, LiquidateInv
      <4>2. Engine'.orders = orders' /\ Engine.orders = orders
        BY DEF Engine
      <4> QED BY <4>1, <4>2 DEF Cleared
    <3> QED BY <1>10, <3>1, <3>2 DEF SweepOne
  <2>3. \A id \in DOMAIN orders' : Body(orders'[id]) \in A
    BY <2>2, FewerBodies DEF Kinds
  <2> QED BY <2>1, <2>3 DEF Kinds
<1>11. CASE SweepDone
  <2>1. /\ orders' = orders /\ pc' = "idle" /\ ActivateTriggers(dormant, mark)
    BY <1>11 DEF SweepDone, FinishSweep
  <2>m. PICK m \in Int : m = mark
    BY <1>p, MarkNat
  <2>2. Activated(dormant, dormant', due', m)
    BY <2>1, <2>m, ActivateFacts DEF TInv, DormantOK
  <2>3. \A id \in DOMAIN dormant : Body(dormant[id]) \in A
    BY DEF Kinds
  <2>4. /\ \A id \in DOMAIN dormant' : Body(dormant'[id]) \in A
        /\ \A i \in DOMAIN due' : Body(due'[i]) \in A
    BY <2>2, <2>3, ActivatedBodies
  <2> QED BY <2>1, <2>4 DEF Kinds
<1>12. CASE Fire
  BY <1>12, FireKinds
<1>13. CASE UNCHANGED tvars
  BY <1>13 DEF Kinds, tvars, vars
<1> QED BY <1>1, <1>2, <1>3, <1>4, <1>5, <1>6, <1>7, <1>8, <1>9, <1>10, <1>11,
           <1>12, <1>13 DEF TNext

-----------------------------------------------------------------------------
(* Which orders a step may add.                                            *)

\* But for a fill and an order that comes to rest, orders only leave.
LEMMA OrdersLeave ==
  ASSUME TInv, [TNext]_tvars, ~ExecuteFill, ~Finish
  PROVE  /\ DOMAIN orders' \subseteq DOMAIN orders
         /\ \A x \in DOMAIN orders' : orders'[x] = orders[x]
<1>p. PInv
  BY DEF TInv
<1>c. ASSUME NEW ids, Becomes(Cancelled(Engine, ids))
      PROVE  /\ DOMAIN orders' \subseteq DOMAIN orders
             /\ \A x \in DOMAIN orders' : orders'[x] = orders[x]
  <2>1. orders' = Without(orders, ids)
    BY <1>c, CancelledOrders
  <2> QED BY <2>1 DEF Without
<1>1. CASE SubmitOrUpdate
  BY <1>1 DEF SubmitOrUpdate, Reject, Accept
<1>2. CASE Match
  <2>1. Becomes(Cancelled(Engine, {BestMaker.id}))
    BY <1>2 DEF Match, MatchOrder, CancelMaker
  <2> QED BY <2>1, <1>c
<1>4. CASE EnforceOco
  <2>1. Becomes(Cancelled(Engine, Losers \cap DOMAIN orders))
    BY <1>4 DEF EnforceOco
  <2> QED BY <2>1, <1>c
<1>5. CASE \E c \in Conditionals : PlaceConditional(c)
  BY <1>5 DEF PlaceConditional
<1>6. CASE \E id \in DOMAIN dormant : CancelDormant(id)
  BY <1>6 DEF CancelDormant, vars
<1>7. CASE \E id \in DOMAIN orders : CancelResting(id)
  BY <1>7, <1>c DEF CancelResting, CancelOrder
<1>8. CASE \E id \in DOMAIN orders, ch \in Amendments : Amend(id, ch)
  BY <1>8, <1>c DEF Amend, AmendOrder
<1>9. CASE \E m \in Marks : Mark(m)
  BY <1>9 DEF Mark, SetMarkPrice
<1>10. CASE SweepOne
  <2>1. CASE PassHealthy
    BY <2>1 DEF PassHealthy
  <2>2. CASE Liquidate
    <3>1. Cleared(Engine', Engine)
      BY <1>p, <2>2, LiquidateInv
    <3>2. Engine'.orders = orders' /\ Engine.orders = orders
      BY DEF Engine
    <3> QED BY <3>1, <3>2 DEF Cleared
  <2> QED BY <1>10, <2>1, <2>2 DEF SweepOne
<1>11. CASE SweepDone
  BY <1>11 DEF SweepDone, FinishSweep
<1>12. CASE Fire
  BY <1>12 DEF Fire
<1>13. CASE UNCHANGED tvars
  BY <1>13 DEF tvars, vars
<1> QED BY <1>1, <1>2, <1>4, <1>5, <1>6, <1>7, <1>8, <1>9, <1>10, <1>11,
           <1>12, <1>13 DEF TNext

\* No order rests that has nothing left to fill.
OpenOK == \A x \in DOMAIN orders : Rem(orders[x]) # 0

LEMMA OpenNext ==
  ASSUME TInv, OpenOK, [TNext]_tvars
  PROVE  OpenOK'
<1>1. CASE ExecuteFill
  BY <1>1, FillOutcome DEF OpenOK, TInv
<1>2. CASE Finish
  <2>1. orders' = orders \/ (orders' = WithOrder(orders, taker) /\ Rem(taker) > 0)
    BY <1>2 DEF Finish, FinishSubmit, FinishFilled, FinishCancelled, FinishResting
  <2> QED BY <2>1 DEF OpenOK, WithOrder
<1>3. CASE ~ExecuteFill /\ ~Finish
  BY <1>3, OrdersLeave DEF OpenOK
<1> QED BY <1>1, <1>2, <1>3

\* An order that comes to rest is the one that was in flight.
LEMMA OrderIds ==
  ASSUME TInv, [TNext]_tvars, NEW x \in DOMAIN orders'
  PROVE  x \in DOMAIN orders \/ (pc = "match" /\ x = taker.id)
<1>1. CASE ExecuteFill
  BY <1>1, FillOutcome DEF TInv
<1>2. CASE Finish
  <2>1. pc = "match" /\ (orders' = orders \/ orders' = WithOrder(orders, taker))
    BY <1>2 DEF Finish, FinishSubmit, FinishFilled, FinishCancelled, FinishResting
  <2> QED BY <2>1 DEF WithOrder
<1>3. CASE ~ExecuteFill /\ ~Finish
  BY <1>3, OrdersLeave
<1> QED BY <1>1, <1>2, <1>3

\* Ids are handed out in order, and the order in flight keeps its own.
LEMMA TakerIds ==
  ASSUME TInv, [TNext]_tvars
  PROVE  /\ nextId \in Nat /\ nextId' \in {nextId, nextId + 1}
         /\ pc' = "match" /\ pc = "match" => taker'.id = taker.id
         /\ pc' = "match" /\ pc # "match" => taker'.id = nextId /\ nextId' = nextId + 1
<1>0. nextId \in Nat
  BY DEF TInv, PInv, Settings
<1>1. CASE SubmitOrUpdate
  <2>1. pc # "match"
    BY <1>1, IncomingAsked DEF SubmitOrUpdate, TInv
  <2>r. PICK req : Reject(req) \/ Accept(req)
    BY <1>1 DEF SubmitOrUpdate
  <2>2. CASE Reject(req)
    BY <1>0, <2>2 DEF Reject
  <2>3. CASE Accept(req)
    <3>1. taker' = OrderOf(req) /\ nextId' = nextId + 1
      BY <2>3 DEF Accept
    <3>o. PICK o : /\ OrderOf(req) = [o EXCEPT !.lock = LockFor(o)]
                   /\ o = [id |-> nextId, user |-> req.user, side |-> req.side,
                           type |-> req.type, price |-> req.price, qty |-> req.qty,
                           filled |-> 0, tif |-> req.tif, postOnly |-> req.postOnly,
                           reduceOnly |-> req.reduceOnly, oco |-> req.oco,
                           leverage |-> leverages[req.user], lock |-> 0]
      BY DEF OrderOf
    <3>k. PICK k : OrderOf(req) = [o EXCEPT !.lock = k]
      BY <3>o
    <3>2. OrderOf(req).id = nextId
      BY <3>o, <3>k
    <3> QED BY <1>0, <2>1, <3>1, <3>2
  <2> QED BY <2>r, <2>2, <2>3
<1>2. CASE Match
  <2>1. pc = "match" /\ nextId' = nextId
    BY <1>2 DEF Match, MatchOrder, CancelMaker, ExecuteFill, CanMatch
  <2>2. CASE CancelMaker
    BY <1>0, <2>1, <2>2 DEF CancelMaker
  <2>3. CASE ExecuteFill
    <3>1. taker' = AfterFill(taker, FillQty) /\ taker \in Order
      BY <2>1, <2>3, FillOutcome DEF TInv, PInv, TakerSound, Sound
    <3>k. PICK k : AfterFill(taker, FillQty)
                     = [[taker EXCEPT !.filled = @ + FillQty] EXCEPT !.lock = k]
      BY DEF AfterFill
    <3> QED BY <1>0, <2>1, <3>1, <3>k DEF Order
  <2> QED BY <1>2, <2>2, <2>3 DEF Match, MatchOrder
<1>3. CASE Finish \/ EnforceOco
  BY <1>0, <1>3 DEF Finish, FinishSubmit, EnforceOco
<1>4. CASE \E c \in Conditionals : PlaceConditional(c)
  BY <1>0, <1>4 DEF PlaceConditional, Idle
<1>5. CASE \E id \in DOMAIN dormant : CancelDormant(id)
  BY <1>0, <1>5 DEF CancelDormant, Idle, vars
<1>6. CASE \E id \in DOMAIN orders : CancelResting(id)
  BY <1>0, <1>6 DEF CancelResting, CancelOrder
<1>7. CASE \E id \in DOMAIN orders, ch \in Amendments : Amend(id, ch)
  BY <1>0, <1>7 DEF Amend, AmendOrder
<1>8. CASE \E m \in Marks : Mark(m)
  BY <1>0, <1>8 DEF Mark, SetMarkPrice, BeginSweep
<1>9. CASE SweepOne \/ SweepDone
  BY <1>0, <1>9, SweepKept DEF SweepOne, SweepDone, FinishSweep, TInv
<1>10. CASE Fire
  BY <1>0, <1>10 DEF Fire, FireSkips, FireDrops, FireSubmits
<1>11. CASE UNCHANGED tvars
  BY <1>0, <1>11 DEF tvars, vars
<1> QED BY <1>1, <1>2, <1>3, <1>4, <1>5, <1>6, <1>7, <1>8, <1>9, <1>10, <1>11 DEF TNext

\* A ratchet leaves the dormant orders where and whose they are.
LEMMA ActivatedOwners ==
  ASSUME NEW held, NEW m, Activated(held, dormant', due', m)
  PROVE  /\ DOMAIN dormant' = DOMAIN held
         /\ \A x \in DOMAIN held : dormant'[x].user = held[x].user
<1>1. /\ DOMAIN dormant' = DOMAIN held
      /\ \A x \in DOMAIN held : RatchetedTo(held[x], dormant'[x], m)
  BY DEF Activated
<1> QED BY <1>1 DEF RatchetedTo

LEMMA PlacedOwners ==
  ASSUME TInv, NEW c, Conditional(c), PlaceConditional(c)
  PROVE  /\ DOMAIN dormant' = DOMAIN dormant \cup {nextId} /\ nextId' = nextId + 1
         /\ \A x \in DOMAIN dormant' :
              IF x = nextId THEN dormant'[x].user = c.user
                            ELSE dormant'[x].user = dormant[x].user
<1>p. PInv
  BY DEF TInv
<1>0. nextId' = nextId + 1
  BY DEF PlaceConditional
<1>o. PICK o : o = Placed(c)
  OBVIOUS
<1>2. o.user = c.user /\ o.id = nextId /\ o \in Dormant
  <2>1. o.user = c.user
    BY <1>o DEF Placed
  <2> QED BY <2>1, <1>o, <1>p, PlacedFacts DEF PlaceConditional
<1>h. PICK held : held = WithOrder(dormant, o)
  OBVIOUS
<1>3. /\ DOMAIN held = DOMAIN dormant \cup {nextId}
      /\ \A id \in DOMAIN held : held[id] = IF id = nextId THEN o ELSE dormant[id]
  BY <1>h, <1>2 DEF WithOrder
<1>5. Waiting(held)
  <2>1. Waiting(dormant) /\ nextId \in Nat \ {0}
    BY <1>p, EngineDomain DEF TInv, DormantOK
  <2>2. IsFiniteSet(DOMAIN held)
    BY <1>3, <2>1, FS_AddElement DEF Waiting
  <2> QED BY <1>2, <1>3, <2>1, <2>2 DEF Waiting
<1>6. DOMAIN dormant' = DOMAIN held /\ \A x \in DOMAIN held : dormant'[x].user = held[x].user
  <2>1. CASE mark = 0
    BY <2>1, <1>h, <1>o DEF PlaceConditional
  <2>2. CASE mark # 0
    <3>1. ActivateTriggers(held, mark)
      BY <2>2, <1>h, <1>o DEF PlaceConditional
    <3>m. PICK m \in Int : m = mark
      BY <1>p, MarkNat
    <3>2. Activated(held, dormant', due', m)
      BY <3>1, <3>m, <1>5, ActivateFacts
    <3> QED BY <3>2, ActivatedOwners
  <2> QED BY <2>1, <2>2
<1> QED BY <1>0, <1>2, <1>3, <1>6

\* Only a placed conditional comes to wait.
LEMMA WaiterIds ==
  ASSUME TInv, [TNext]_tvars, NEW x \in DOMAIN dormant'
  PROVE  \/ x \in DOMAIN dormant /\ dormant'[x].user = dormant[x].user
         \/ x = nextId /\ \E c \in Conditionals : dormant'[x].user = c.user
<1>1. CASE dormant' = dormant
  BY <1>1
<1>2. CASE \E gone : dormant' = Without(dormant, gone)
  BY <1>2 DEF Without
<1>3. CASE \E c \in Conditionals : PlaceConditional(c)
  <2>c. PICK c \in Conditionals : PlaceConditional(c)
    BY <1>3
  <2>1. Conditional(c)
    BY RequestsConditional
  <2> QED BY <2>c, <2>1, PlacedOwners
<1>4. CASE SweepDone
  <2>1. ActivateTriggers(dormant, mark)
    BY <1>4 DEF SweepDone
  <2>m. PICK m \in Int : m = mark
    BY MarkNat DEF TInv
  <2>2. Activated(dormant, dormant', due', m)
    BY <2>1, <2>m, ActivateFacts DEF TInv, DormantOK
  <2> QED BY <2>2, ActivatedOwners
<1>5. CASE EnforceOco
  BY <1>2, <1>5 DEF EnforceOco
<1>6. CASE \E id \in DOMAIN dormant : CancelDormant(id)
  BY <1>2, <1>6 DEF CancelDormant
<1>7. CASE Fire
  BY <1>1, <1>2, <1>7 DEF Fire, FireSkips, FireDrops, FireSubmits
<1>8. \/ dormant' = dormant \/ SweepDone \/ EnforceOco \/ Fire
      \/ \E c \in Conditionals : PlaceConditional(c)
      \/ \E id \in DOMAIN dormant : CancelDormant(id)
  BY DEF TNext, tvars, SubmitOrUpdate, Match, Finish, CancelResting, Amend, Mark,
         SweepOne
<1> QED BY <1>1, <1>3, <1>4, <1>5, <1>6, <1>7, <1>8

-----------------------------------------------------------------------------
(* The route's commands leave the engine and the triggers sound.           *)

Steps == {"none", "entry", "takeProfit", "stopLoss", "flatten", "refused",
          "protected", "flattened", "exposed"}

\* Past the entry it has filled something.
ShapeOK ==
  /\ bracket \in [step : Steps, running : BOOLEAN, req : Brackets \cup {NoOrder},
                  filled : Nat, paid : Nat, refused : SUBSET Steps,
                  legs : SUBSET Nat]
  /\ bracket.step = "none" => bracket.req = NoOrder /\ ~bracket.running
  /\ bracket.step # "none" => bracket.req \in Brackets
  /\ bracket.step \notin {"none", "entry", "refused"} => bracket.filled > 0
  /\ bracket.running => ~Idle

BInv == TInv /\ BudgetOK /\ ShapeOK

LEMMA BoundNat ==
  ASSUME NEW best \in Nat, NEW k \in Nat
  PROVE  /\ FloorTick((best * k) \div 100) \in Nat
         /\ CeilTick((best * k) \div 100) \in Nat
<1>1. best * k \in Nat
  OBVIOUS
<1>x. PICK x \in Nat : x = (best * k) \div 100
  BY <1>1
<1> QED BY <1>x, TickFacts

LEMMA EntryPrice ==
  ASSUME PInv, NEW side \in Sides, book[Opposite(side)] # <<>>
  PROVE  EntryBound(side) \in Nat
<1>s. PICK s \in Sides : s = Opposite(side)
  BY DEF Opposite, Sides
<1>q. PICK q : q = book[s]
  OBVIOUS
<1>1. Queue(s, q, orders) /\ Resting(orders)
  BY <1>q, EngineParts DEF PInv, Good, Shape
<1>2. q \in Seq(DOMAIN orders) /\ q # <<>>
  BY <1>1, <1>s, <1>q DEF Queue
<1>h. PICK h \in DOMAIN orders : h = Head(q)
  BY <1>2
<1>b. PICK best \in Nat : best = orders[h].price
  BY <1>1 DEF Resting, Sound, Order
<1> QED BY BoundNat, <1>b, <1>h, <1>q, <1>s, ZenonT(30) DEF EntryBound

LEMMA FlattenPrice ==
  ASSUME PInv, ShapeOK, bracket.filled > 0
  PROVE  FlattenBound \in Nat
<1>1. PICK paid \in Nat, filled \in Nat \ {0} : paid = bracket.paid /\ filled = bracket.filled
  BY DEF ShapeOK
<1>2. PICK ref \in Nat : ref = IF mark # 0 THEN mark ELSE bracket.paid \div bracket.filled
  <2>1. paid \div filled \in Int /\ 0 \div filled = 0
    BY DivBounds
  <2>2. 0 \div filled <= paid \div filled
    BY DivMonotone
  <2> QED BY <1>1, <2>1, <2>2, MarkNat
<1> QED BY <1>2, BoundNat DEF FlattenBound

LEMMA SubmitInv ==
  ASSUME TInv, BudgetOK, NEW req, Asked(req), Submit(req)
  PROVE  /\ TInv' /\ BudgetOK'
         /\ pc' = "submit" /\ pending' = req
         /\ UNCHANGED <<orders, positions, dormant, due>>
<1>p. PInv
  BY DEF TInv
<1>1. /\ pc = "idle" /\ traded = {} /\ due = <<>> /\ pc' = "submit" /\ pending' = req
      /\ UNCHANGED <<ledger, positions, orders, book, nextId, taker, sweep, settings,
                     history, dormant, groups, due, traded, outlived>>
  BY DEF Submit, Idle
<1>2. nextId' \in Nat /\ nextId' >= nextId
  BY <1>1, <1>p DEF PInv, Settings
<1>3. PInv'
  BY <1>1, <1>2, <1>p, EngineIdleStep
<1>4. BudgetOK'
  BY <1>1, <1>p, IdleBudget
<1>5. Waiting(dormant') /\ IndexOK' /\ DueOK' /\ MissedOK'
  BY <1>1 DEF TInv, DormantOK, IndexOK, DueOK, MissedOK, InGroup, settings
<1>6. TriggersOK'
  BY <1>1, <1>5, FewerDormant
<1> QED BY <1>1, <1>3, <1>4, <1>6 DEF TInv, TriggersOK

LEMMA RequestAsked ==
  ASSUME NEW b \in Brackets, NEW side \in Sides, NEW type \in {"limit", "market"},
         NEW price \in Nat, NEW qty \in Nat
  PROVE  /\ Asked(Request(b, side, type, price, qty))
         /\ Body(Request(b, side, type, price, qty)) = <<b.user, side, FALSE, NoGroup>>
         /\ Request(b, side, type, price, qty).type = type
<1>1. b.user \in Users
  BY BracketAssumption
<1> QED BY <1>1 DEF Request, Asked, Body

\* A trade of the bracket that closes: reduce-only, perhaps with its group.
ExitOf(b, side, type, price, qty, label) ==
  [Request(b, side, type, price, qty) EXCEPT !.reduceOnly = TRUE, !.oco = label]

LEMMA ExitAsked ==
  ASSUME NEW b \in Brackets, NEW side \in Sides, NEW type \in {"limit", "market"},
         NEW price \in Nat, NEW qty \in Nat, NEW label \in Groups \cup {NoGroup}
  PROVE  /\ Asked(ExitOf(b, side, type, price, qty, label))
         /\ Body(ExitOf(b, side, type, price, qty, label)) = <<b.user, side, TRUE, label>>
<1>o. PICK req : req = ExitOf(b, side, type, price, qty, label)
  OBVIOUS
<1>1. b.user \in Users
  BY BracketAssumption
<1>t. PICK tif \in {"GTC", "IOC", "FOK"} : tif = IF type = "market" THEN "IOC" ELSE "GTC"
  OBVIOUS
<1>r. PICK r : r = Request(b, side, type, price, qty)
  OBVIOUS
<1>2. r = [user |-> b.user, side |-> side, type |-> type, price |-> price, qty |-> qty,
           tif |-> tif, postOnly |-> FALSE, reduceOnly |-> FALSE, oco |-> NoGroup]
  BY <1>t, <1>r DEF Request
<1>3. req = [r EXCEPT !.reduceOnly = TRUE, !.oco = label]
  BY <1>r, <1>o DEF ExitOf
<1>4. /\ req.user = b.user /\ req.side = side /\ req.type = type /\ req.price = price
      /\ req.qty = qty /\ req.tif = tif /\ req.postOnly = FALSE
      /\ req.reduceOnly = TRUE /\ req.oco = label
  BY <1>2, <1>3
<1> QED BY <1>1, <1>4, <1>o DEF Asked, Body

\* A bracket whose entry has traded, and its exit side.
LEMMA Exiting ==
  ASSUME ShapeOK, bracket.step # "none"
  PROVE  /\ bracket.req \in Brackets /\ ExitSide \in Sides
         /\ bracket.req.group \in Groups \cup {NoGroup}
         /\ bracket.filled \in Nat /\ bracket.req.tp \in Nat /\ bracket.req.sl \in Nat
         /\ bracket.req.user \in Users /\ bracket.req.side \in Sides
<1>1. bracket.req \in Brackets /\ bracket.filled \in Nat
  BY DEF ShapeOK
<1> QED BY <1>1, BracketAssumption DEF ExitSide, Opposite, Sides

LEMMA TakeProfitAsked ==
  ASSUME ShapeOK, bracket.step # "none"
  PROVE  /\ Asked(Leg("limit", bracket.req.tp))
         /\ Body(Leg("limit", bracket.req.tp))
              = <<bracket.req.user, ExitSide, TRUE, bracket.req.group>>
<1>1. /\ bracket.req \in Brackets /\ ExitSide \in Sides /\ bracket.req.tp \in Nat
      /\ bracket.req.group \in Groups \cup {NoGroup} /\ bracket.filled \in Nat
  BY Exiting
<1>o. PICK o : o = Leg("limit", bracket.req.tp)
  OBVIOUS
<1>2. o = ExitOf(bracket.req, ExitSide, "limit", bracket.req.tp, bracket.filled,
                 bracket.req.group)
  BY <1>o DEF Leg, ExitOf
<1>b. PICK b \in Brackets, side \in Sides, price \in Nat, qty \in Nat,
             label \in Groups \cup {NoGroup} :
        /\ b = bracket.req /\ side = ExitSide /\ price = b.tp /\ qty = bracket.filled
        /\ label = b.group
  BY <1>1
<1>3. Asked(o) /\ Body(o) = <<b.user, side, TRUE, label>>
  <2>t. PICK type \in {"limit", "market"} : type = "limit"
    OBVIOUS
  <2>1. o = ExitOf(b, side, type, price, qty, label)
    BY <1>2, <1>b, <2>t
  <2> QED BY <2>1, ExitAsked, ZenonT(30)
<1> QED BY <1>3, <1>o, <1>b

LEMMA FlattenAsked ==
  ASSUME PInv, ShapeOK, bracket.step # "none", bracket.filled > 0
  PROVE  /\ Asked(FlattenOrder)
         /\ Body(FlattenOrder) = <<bracket.req.user, ExitSide, TRUE, NoGroup>>
<1>b. PICK b \in Brackets : b = bracket.req
  BY Exiting
<1>s. PICK side \in Sides : side = ExitSide
  BY Exiting
<1>p. PICK price \in Nat : price = FlattenBound
  BY FlattenPrice
<1>q. PICK qty \in Nat : qty = bracket.filled
  BY Exiting
<1>r. PICK r : r = Request(b, side, "market", price, qty)
  OBVIOUS
<1>1. r = [user |-> b.user, side |-> side, type |-> "market", price |-> price,
           qty |-> qty, tif |-> "IOC", postOnly |-> FALSE, reduceOnly |-> FALSE,
           oco |-> NoGroup]
  BY <1>r DEF Request
<1>2. FlattenOrder = [r EXCEPT !.reduceOnly = TRUE]
  BY <1>b, <1>s, <1>p, <1>q, <1>r DEF FlattenOrder
<1>o. PICK o : o = FlattenOrder
  OBVIOUS
<1>3. /\ o.user = b.user /\ o.side = side /\ o.type = "market" /\ o.price = price
      /\ o.qty = qty /\ o.tif = "IOC" /\ o.postOnly = FALSE
      /\ o.reduceOnly = TRUE /\ o.oco = NoGroup
  BY <1>1, <1>2, <1>o
<1>4. b.user \in Users
  BY BracketAssumption
<1> QED BY <1>3, <1>4, <1>o, <1>b, <1>s DEF Asked, Body

LEMMA StopLegFacts ==
  ASSUME ShapeOK, bracket.step # "none"
  PROVE  /\ Conditional(StopLeg)
         /\ Body(StopLeg) = <<bracket.req.user, ExitSide, TRUE, bracket.req.group>>
<1>1. /\ bracket.req \in Brackets /\ ExitSide \in Sides /\ bracket.req.sl \in Nat
      /\ bracket.req.group \in Groups \cup {NoGroup} /\ bracket.filled \in Nat
  BY Exiting
<1>o. PICK o : o = Leg("market", 0)
  OBVIOUS
<1>2. Asked(o) /\ Body(o) = <<bracket.req.user, ExitSide, TRUE, bracket.req.group>>
  <2>b. PICK b \in Brackets, side \in Sides, qty \in Nat, label \in Groups \cup {NoGroup} :
          b = bracket.req /\ side = ExitSide /\ qty = bracket.filled /\ label = b.group
    BY <1>1
  <2>t. PICK type \in {"limit", "market"}, price \in Nat : type = "market" /\ price = 0
    OBVIOUS
  <2>1. o = ExitOf(b, side, type, price, qty, label)
    BY <1>o, <2>b, <2>t DEF Leg, ExitOf
  <2>2. Asked(o) /\ Body(o) = <<b.user, side, TRUE, label>>
    BY <2>1, ExitAsked, ZenonT(30)
  <2> QED BY <2>2, <2>b
<1>d. PICK d \in {"above", "below"} : d = IF ExitSide = "sell" THEN "below" ELSE "above"
  OBVIOUS
<1>t. PICK t : t = [price |-> bracket.req.sl, trail |-> 0, direction |-> d]
  OBVIOUS
<1>3. t \in [price : Nat, trail : Nat, direction : {"above", "below"}]
  BY <1>1, <1>t
<1>4. StopLeg = [user |-> o.user, side |-> o.side, type |-> o.type, price |-> o.price,
                 qty |-> o.qty, tif |-> o.tif, postOnly |-> o.postOnly,
                 reduceOnly |-> o.reduceOnly, oco |-> o.oco, trigger |-> t]
  BY <1>o, <1>t, <1>d DEF StopLeg
<1>5. /\ StopLeg.user = o.user /\ StopLeg.side = o.side /\ StopLeg.type = o.type
      /\ StopLeg.price = o.price /\ StopLeg.qty = o.qty /\ StopLeg.tif = o.tif
      /\ StopLeg.postOnly = o.postOnly /\ StopLeg.reduceOnly = o.reduceOnly
      /\ StopLeg.oco = o.oco /\ StopLeg.trigger = t
  BY <1>4
<1> QED BY <1>2, <1>3, <1>5 DEF Conditional, Asked, Body


LEMMA StopLossInv ==
  ASSUME TInv, BudgetOK, ShapeOK, StopLoss
  PROVE  TInv' /\ BudgetOK' /\ UNCHANGED <<orders, positions, taker, pc>>
<1>p. PInv
  BY DEF TInv
<1>1. PlaceConditional(StopLeg) /\ bracket.step # "none"
  BY DEF StopLoss, Awaited
<1>2. Conditional(StopLeg)
  BY <1>1, StopLegFacts
<1>c. PICK c : c = StopLeg
  OBVIOUS
<1>3. PlaceConditional(c) /\ Conditional(c)
  BY <1>1, <1>2, <1>c
<1>4. PInv' /\ UNCHANGED <<orders, positions, taker, pc, mark>>
  BY <1>3, <1>p, PlaceEngine
<1>5. TriggersOK'
  BY <1>3, PlaceTriggers
<1>6. BudgetOK'
  BY <1>4, <1>p, IdleBudget
<1> QED BY <1>4, <1>5, <1>6 DEF TInv, TriggersOK

\* The legs leave the book, the dormant orders and the index at once.
LEMMA FlattenInv ==
  ASSUME TInv, BudgetOK, ShapeOK, Flatten
  PROVE  /\ TInv' /\ BudgetOK' /\ positions' = positions
         /\ orders' = Without(orders, Dropped) /\ dormant' = Without(dormant, Dropped)
         /\ due' = due /\ pc' = "submit" /\ pending' = FlattenOrder
<1>p. PInv
  BY DEF TInv
<1>i. PICK ids : ids = Dropped \cap DOMAIN orders
  OBVIOUS
<1>1. /\ pc = "idle" /\ traded = {} /\ due = <<>>
      /\ bracket.step = "stopLoss"
      /\ Becomes(Cancelled(Engine, ids))
      /\ dormant' = Without(dormant, Dropped)
      /\ groups' = Unregistered(groups, Dropped)
      /\ pc' = "submit" /\ pending' = FlattenOrder
      /\ UNCHANGED <<nextId, taker, sweep, settings, history, due, traded, outlived>>
  BY <1>i DEF Flatten, Awaited, Idle
<1>2. Asked(FlattenOrder)
  <2>1. bracket.step # "none" /\ bracket.filled > 0
    BY <1>1 DEF ShapeOK
  <2> QED BY <2>1, <1>p, FlattenAsked
<1>3. PInv'
  <2>1. ids \in SUBSET (DOMAIN orders) /\ (pc' = "submit" => Asked(pending'))
    BY <1>1, <1>2, <1>i
  <2> QED BY <2>1, <1>1, <1>p, CancelSetStep
<1>4. BudgetOK'
  BY <1>1, <1>p, CancelBudget
<1>5. orders' = Without(orders, ids) /\ positions' = positions
  BY <1>1, CancelledOrders
<1>6. orders' = Without(orders, Dropped)
  BY <1>5, <1>i DEF Without
<1>7. /\ DOMAIN orders' = DOMAIN orders \ Dropped
      /\ \A x \in DOMAIN orders' : orders'[x] = orders[x]
      /\ DOMAIN dormant' = DOMAIN dormant \ Dropped
      /\ \A x \in DOMAIN dormant' : dormant'[x] = dormant[x]
  BY <1>1, <1>6 DEF Without
<1>8. Waiting(dormant')
  <2>1. IsFiniteSet(DOMAIN dormant')
    BY <1>7, FS_Subset DEF TInv, DormantOK, Waiting
  <2> QED BY <1>7, <2>1 DEF TInv, DormantOK, Waiting
<1>9. DormantOK' /\ DueOK' /\ TradedOK'
  BY <1>1, <1>7, <1>8 DEF TInv, DormantOK, DueOK, TradedOK
<1>10. IndexOK'
  <2>1. groups \in [Keys -> SUBSET Nat] /\ groups' = [k \in Keys |-> groups[k] \ Dropped]
    BY <1>1 DEF TInv, IndexOK, Unregistered
  <2>2. ASSUME NEW k \in Keys
        PROVE  /\ groups'[k] \subseteq InGroup(orders', k) \cup InGroup(dormant', k)
               /\ InGroup(dormant', k) \subseteq groups'[k]
               /\ \A x \in InGroup(orders', k) : orders'[x].filled = 0 => x \in groups'[k]
    <3>1. /\ groups[k] \subseteq InGroup(orders, k) \cup InGroup(dormant, k)
          /\ InGroup(dormant, k) \subseteq groups[k]
          /\ \A x \in InGroup(orders, k) : orders[x].filled = 0 => x \in groups[k]
      BY DEF TInv, IndexOK
    <3>2. groups'[k] = groups[k] \ Dropped
      BY <2>1
    <3>3. InGroup(dormant', k) = InGroup(dormant, k) \ Dropped
      BY <1>7 DEF InGroup
    <3>4. InGroup(orders', k) = InGroup(orders, k) \ Dropped
          /\ \A x \in InGroup(orders', k) : orders'[x] = orders[x]
      BY <1>7 DEF InGroup
    <3> QED BY <3>1, <3>2, <3>3, <3>4
  <2>3. groups' \in [Keys -> SUBSET Nat]
    BY <2>1
  <2> QED BY <2>2, <2>3 DEF IndexOK
<1>11. OutlivedOK'
  <2>1. outlived \cap Live = {} /\ Live' \subseteq Live
    BY <1>1, <1>7, NoLosers DEF TInv, OutlivedOK, Live
  <2>2. outlived' \cap Live' = {}
    BY <2>1, <1>1
  <2> QED BY <2>2, <1>1 DEF TInv, OutlivedOK
<1>12. MissedOK'
  <2>1. mark' = mark
    BY <1>1 DEF settings
  <2> QED BY <2>1, <1>1, <1>7 DEF TInv, MissedOK
<1> QED BY <1>1, <1>3, <1>4, <1>5, <1>6, <1>9, <1>10, <1>11, <1>12 DEF TInv

\* A step of the engine fills a whole number of the order in flight.
LEMMA WatchedFill ==
  ASSUME TInv, [TNext]_tvars, pc = "match", pc' = "match"
  PROVE  /\ Match \/ UNCHANGED tvars
         /\ taker \in Order
         /\ taker'.filled \in Nat /\ taker.filled \in Nat
         /\ taker'.filled >= taker.filled
         /\ taker'.filled # taker.filled => ExecuteFill
<1>p. PInv
  BY DEF TInv
<1>1. Match \/ UNCHANGED tvars
  BY DEF TNext, SubmitOrUpdate, Incoming, Finish, FinishSubmit, EnforceOco, PlaceConditional,
         CancelDormant, CancelResting, Amend, Mark, SweepOne, PassHealthy, Liquidate,
         SweepDone, FinishSweep, Fire, Idle
<1>2. taker \in Order
  BY <1>p DEF PInv, TakerSound, Sound
<1>3. CASE UNCHANGED tvars
  BY <1>2, <1>3 DEF tvars, vars, Order
<1>4. CASE Match
  <2>1. CASE CancelMaker
    <3>1. taker' = taker
      BY <2>1 DEF CancelMaker
    <3> QED BY <3>1, <1>2, <1>4 DEF Order
  <2>2. CASE ExecuteFill
    <3>1. CanMatch /\ taker' = AfterFill(taker, FillQty)
      BY <2>2, <1>p, FillOutcome DEF ExecuteFill
    <3>q. PICK q \in Nat : q = FillQty
      BY <3>1, <1>p, FillQtyFacts
    <3>k. PICK k : AfterFill(taker, q) = [[taker EXCEPT !.filled = @ + q] EXCEPT !.lock = k]
      BY DEF AfterFill
    <3>2. taker'.filled = taker.filled + q
      BY <3>1, <3>q, <3>k, <1>2 DEF Order
    <3> QED BY <3>2, <1>2, <1>4, <2>2 DEF Order
  <2> QED BY <1>4, <2>1, <2>2 DEF Match, MatchOrder
<1> QED BY <1>1, <1>3, <1>4

\* How the record of the bracket changes in one step.
LEMMA BegunShape ==
  ASSUME ShapeOK, NEW step \in Steps \ {"none"}, NEW req \in Brackets,
         step \notin {"entry", "refused"} => bracket.filled > 0,
         bracket' = [Running(step) EXCEPT !.req = req]
  PROVE  /\ ShapeOK' /\ bracket'.step = step /\ bracket'.req = req
         /\ bracket'.filled = bracket.filled /\ (bracket'.running <=> ~Idle')
         /\ bracket'.legs = bracket.legs
<1>r. PICK run \in BOOLEAN : run = ~Idle'
  OBVIOUS
<1>1. bracket' = [[bracket EXCEPT !.step = step, !.running = run] EXCEPT !.req = req]
  BY <1>r DEF Running
<1>2. bracket \in [step : Steps, running : BOOLEAN, req : Brackets \cup {NoOrder},
                   filled : Nat, paid : Nat, refused : SUBSET Steps,
                   legs : SUBSET Nat]
  BY DEF ShapeOK
<1>3. /\ bracket' \in [step : Steps, running : BOOLEAN, req : Brackets \cup {NoOrder},
                       filled : Nat, paid : Nat, refused : SUBSET Steps,
                       legs : SUBSET Nat]
      /\ bracket'.step = step /\ bracket'.req = req /\ bracket'.filled = bracket.filled
      /\ bracket'.running = run /\ bracket'.legs = bracket.legs
  BY <1>1, <1>2
<1> QED BY <1>3, <1>r DEF ShapeOK

LEMMA RunningShape ==
  ASSUME ShapeOK, bracket.step # "none", bracket.filled > 0,
         NEW step \in Steps \ {"none"}, bracket' = Running(step)
  PROVE  /\ ShapeOK' /\ bracket'.step = step /\ bracket'.req = bracket.req
         /\ bracket'.filled = bracket.filled /\ (bracket'.running <=> ~Idle')
         /\ bracket'.legs = bracket.legs
<1>r. PICK run \in BOOLEAN : run = ~Idle'
  OBVIOUS
<1>1. bracket' = [bracket EXCEPT !.step = step, !.running = run]
  BY <1>r DEF Running
<1>2. bracket \in [step : Steps, running : BOOLEAN, req : Brackets \cup {NoOrder},
                   filled : Nat, paid : Nat, refused : SUBSET Steps,
                   legs : SUBSET Nat]
      /\ bracket.req \in Brackets
  BY DEF ShapeOK
<1>3. /\ bracket' \in [step : Steps, running : BOOLEAN, req : Brackets \cup {NoOrder},
                       filled : Nat, paid : Nat, refused : SUBSET Steps,
                       legs : SUBSET Nat]
      /\ bracket'.step = step /\ bracket'.req = bracket.req
      /\ bracket'.filled = bracket.filled /\ bracket'.running = run
      /\ bracket'.legs = bracket.legs
  BY <1>1, <1>2
<1> QED BY <1>2, <1>3, <1>r DEF ShapeOK

\* The stop-loss gets the next id.
LEMMA StopShape ==
  ASSUME ShapeOK, nextId \in Nat, bracket.step # "none", bracket.filled > 0,
         bracket' = [Running("stopLoss") EXCEPT !.legs = @ \cup {nextId}]
  PROVE  /\ ShapeOK' /\ bracket'.step = "stopLoss" /\ bracket'.req = bracket.req
         /\ bracket'.filled = bracket.filled
         /\ bracket'.legs = bracket.legs \cup {nextId}
<1>r. PICK run \in BOOLEAN : run = ~Idle'
  OBVIOUS
<1>2. bracket \in [step : Steps, running : BOOLEAN, req : Brackets \cup {NoOrder},
                   filled : Nat, paid : Nat, refused : SUBSET Steps,
                   legs : SUBSET Nat]
      /\ bracket.req \in Brackets
  BY DEF ShapeOK
<1>l. PICK legs \in SUBSET Nat : legs = bracket.legs \cup {nextId}
  BY <1>2
<1>1. bracket' = [bracket EXCEPT !.step = "stopLoss", !.running = run, !.legs = legs]
  BY <1>r, <1>l, <1>2 DEF Running
<1>s. "stopLoss" \in Steps
  BY DEF Steps
<1>3. /\ bracket' \in [step : Steps, running : BOOLEAN, req : Brackets \cup {NoOrder},
                       filled : Nat, paid : Nat, refused : SUBSET Steps,
                       legs : SUBSET Nat]
      /\ bracket'.step = "stopLoss" /\ bracket'.req = bracket.req
      /\ bracket'.filled = bracket.filled /\ bracket'.running = run
      /\ bracket'.legs = legs
  BY <1>1, <1>2, <1>s
<1> QED BY <1>2, <1>3, <1>r, <1>l DEF ShapeOK

LEMMA AnsweredShape ==
  ASSUME ShapeOK, bracket.step # "none", ~bracket.running,
         NEW how \in Steps \ {"none"}, how # "refused" => bracket.filled > 0,
         Answered(how)
  PROVE  /\ ShapeOK' /\ bracket'.step = how /\ bracket'.req = bracket.req
         /\ bracket'.filled = bracket.filled /\ ~bracket'.running
         /\ bracket'.legs = bracket.legs
<1>1. bracket' = [bracket EXCEPT !.step = how]
  BY DEF Answered
<1>2. bracket \in [step : Steps, running : BOOLEAN, req : Brackets \cup {NoOrder},
                   filled : Nat, paid : Nat, refused : SUBSET Steps,
                   legs : SUBSET Nat]
      /\ bracket.req \in Brackets
  BY DEF ShapeOK
<1>3. /\ bracket' \in [step : Steps, running : BOOLEAN, req : Brackets \cup {NoOrder},
                       filled : Nat, paid : Nat, refused : SUBSET Steps,
                       legs : SUBSET Nat]
      /\ bracket'.step = how /\ bracket'.req = bracket.req
      /\ bracket'.filled = bracket.filled /\ bracket'.running = bracket.running
      /\ bracket'.legs = bracket.legs
  BY <1>1, <1>2
<1> QED BY <1>2, <1>3 DEF ShapeOK

\* What the route learns from a step of its command: what the entry filled in it.
LEMMA WatchedShape ==
  ASSUME TInv, ShapeOK, TNext, bracket.running, bracket' = Watched
  PROVE  /\ ShapeOK' /\ bracket'.step = bracket.step /\ bracket'.req = bracket.req
         /\ bracket'.filled
              = bracket.filled + (IF pc = "match" /\ pc' = "match" /\ bracket.step = "entry"
                                  THEN taker'.filled - taker.filled ELSE 0)
         /\ bracket'.filled >= bracket.filled
         /\ bracket'.running <=> ~Idle'
         /\ \/ bracket'.legs = bracket.legs
            \/ /\ bracket.step = "takeProfit" /\ pc = "submit" /\ pc' = "match"
               /\ bracket'.legs = bracket.legs \cup {nextId}
<1>q. PICK q : q = IF pc = "match" /\ pc' = "match" /\ bracket.step = "entry"
                   THEN taker'.filled - taker.filled ELSE 0
  OBVIOUS
<1>1. q \in Nat /\ (q # 0 => ExecuteFill)
  BY <1>q, WatchedFill
<1>c. PICK c : c = IF q = 0 THEN bracket.paid ELSE bracket.paid + q * BestMaker.price
  OBVIOUS
<1>2. c \in Nat
  <2>1. CASE q = 0
    BY <2>1, <1>c DEF ShapeOK
  <2>2. CASE q # 0
    <3>1. BestMaker.price \in Nat
      BY <1>1, <2>2, MakerFacts DEF ExecuteFill, TInv
    <3>p. PICK p \in Nat, was \in Nat : p = BestMaker.price /\ was = bracket.paid
      BY <3>1 DEF ShapeOK
    <3> QED BY <3>p, <1>c, <1>1, <2>2
  <2> QED BY <2>1, <2>2
<1>d. PICK ref : ref = IF pc = "submit" /\ pc' = "idle"
                       THEN bracket.refused \cup {bracket.step} ELSE bracket.refused
  OBVIOUS
<1>r. PICK run \in BOOLEAN : run = ~Idle'
  OBVIOUS
<1>l. PICK legs : legs = IF /\ bracket.step = "takeProfit"
                            /\ pc = "submit" /\ pc' = "match"
                         THEN bracket.legs \cup {nextId} ELSE bracket.legs
  OBVIOUS
<1>3. bracket' = [bracket EXCEPT !.running = run, !.filled = bracket.filled + q,
                                 !.paid = c, !.refused = ref, !.legs = legs]
  BY <1>q, <1>c, <1>d, <1>r, <1>l DEF Watched
<1>4. bracket \in [step : Steps, running : BOOLEAN, req : Brackets \cup {NoOrder},
                   filled : Nat, paid : Nat, refused : SUBSET Steps,
                   legs : SUBSET Nat]
      /\ bracket.req \in Brackets /\ bracket.step # "none"
      /\ (bracket.step \notin {"none", "entry", "refused"} => bracket.filled > 0)
  BY DEF ShapeOK
<1>5. ref \in SUBSET Steps /\ legs \in SUBSET Nat
  <2>1. nextId \in Nat
    BY DEF TInv, PInv, Settings
  <2> QED BY <2>1, <1>4, <1>d, <1>l
<1>6. /\ bracket' \in [step : Steps, running : BOOLEAN, req : Brackets \cup {NoOrder},
                       filled : Nat, paid : Nat, refused : SUBSET Steps,
                       legs : SUBSET Nat]
      /\ bracket'.step = bracket.step /\ bracket'.req = bracket.req
      /\ bracket'.filled = bracket.filled + q /\ bracket'.running = run
      /\ bracket'.legs = legs
  <2>f. PICK f \in Nat : f = bracket.filled + q
    BY <1>1, <1>4
  <2> QED BY <1>2, <1>3, <1>4, <1>5, <2>f
<1>7. ShapeOK'
  BY <1>1, <1>4, <1>6, <1>r DEF ShapeOK
<1>8. bracket'.filled >= bracket.filled
  BY <1>1, <1>4, <1>6
<1> QED BY <1>6, <1>7, <1>8, <1>q, <1>r, <1>l

LEMMA BracketNext ==
  ASSUME BInv, [BNext]_bvars
  PROVE  BInv'
<1>t. TInv /\ BudgetOK /\ ShapeOK /\ PInv
  BY DEF BInv, TInv
<1>1. ASSUME NEW b \in Brackets, Enter(b) PROVE BInv'
  <2>1. /\ bracket.step = "none" /\ book[Opposite(b.side)] # <<>>
        /\ Submit(Request(b, b.side, "market", EntryBound(b.side), b.qty))
        /\ bracket' = [Running("entry") EXCEPT !.req = b]
    BY <1>1 DEF Enter
  <2>2. b.side \in Sides /\ b.qty \in Nat
    BY BracketAssumption
  <2>p. PICK side \in Sides, qty \in Nat, price \in Nat :
          side = b.side /\ qty = b.qty /\ price = EntryBound(b.side)
    BY <1>t, <2>1, <2>2, EntryPrice
  <2>r. PICK req : req = Request(b, side, "market", price, qty)
    OBVIOUS
  <2>3. Asked(req)
    <3>t. PICK type \in {"limit", "market"} : type = "market"
      OBVIOUS
    <3>1. req = Request(b, side, type, price, qty)
      BY <2>r, <3>t
    <3> QED BY <3>1, RequestAsked
  <2>4. TInv' /\ BudgetOK'
    BY <1>t, <2>1, <2>3, <2>p, <2>r, SubmitInv
  <2>5. ShapeOK'
    <3>1. "entry" \in Steps \ {"none"}
      BY DEF Steps
    <3> QED BY <1>t, <2>1, <3>1, BegunShape
  <2> QED BY <2>4, <2>5 DEF BInv
<1>2. CASE RefuseEntry
  <2>1. bracket.step = "entry" /\ ~bracket.running /\ Answered("refused") /\ UNCHANGED tvars
    BY <1>2 DEF RefuseEntry, Awaited
  <2>2. TInv' /\ BudgetOK'
    BY <1>t, <2>1, TriggersNextInv
  <2>3. "refused" \in Steps \ {"none"}
    BY DEF Steps
  <2>4. ShapeOK'
    BY <1>t, <2>1, <2>3, AnsweredShape
  <2> QED BY <2>2, <2>4 DEF BInv
<1>3. CASE TakeProfit
  <2>1. /\ bracket.step = "entry" /\ bracket.filled > 0
        /\ Submit(Leg("limit", bracket.req.tp)) /\ bracket' = Running("takeProfit")
    BY <1>3 DEF TakeProfit, Awaited
  <2>2. Asked(Leg("limit", bracket.req.tp))
    BY <1>t, <2>1, TakeProfitAsked
  <2>3. TInv' /\ BudgetOK'
    BY <1>t, <2>1, <2>2, SubmitInv
  <2>4. "takeProfit" \in Steps \ {"none"}
    BY DEF Steps
  <2>5. ShapeOK'
    BY <1>t, <2>1, <2>4, RunningShape
  <2> QED BY <2>3, <2>5 DEF BInv
<1>4. CASE StopLoss
  <2>1. /\ bracket.step = "takeProfit" /\ nextId \in Nat
        /\ bracket' = [Running("stopLoss") EXCEPT !.legs = @ \cup {nextId}]
    BY <1>4, <1>t DEF StopLoss, Awaited, PInv, Settings
  <2>2. TInv' /\ BudgetOK'
    BY <1>4, <1>t, StopLossInv
  <2>4. bracket.step # "none" /\ bracket.filled > 0
    BY <1>t, <2>1 DEF ShapeOK
  <2>5. ShapeOK'
    BY <1>t, <2>1, <2>4, StopShape
  <2> QED BY <2>2, <2>5 DEF BInv
<1>5. CASE Flatten
  <2>1. bracket.step = "stopLoss" /\ bracket' = Running("flatten")
    BY <1>5 DEF Flatten, Awaited
  <2>2. TInv' /\ BudgetOK'
    BY <1>5, <1>t, FlattenInv
  <2>3. "flatten" \in Steps \ {"none"}
    BY DEF Steps
  <2>4. bracket.step # "none" /\ bracket.filled > 0
    BY <1>t, <2>1 DEF ShapeOK
  <2>5. ShapeOK'
    BY <1>t, <2>1, <2>3, <2>4, RunningShape
  <2> QED BY <2>2, <2>5 DEF BInv
<1>6. CASE AnswerFlattened \/ AnswerProtected
  <2>1. /\ bracket.step \in {"flatten", "stopLoss"} /\ ~bracket.running /\ UNCHANGED tvars
        /\ \E how \in {"flattened", "exposed", "protected"} : Answered(how)
    BY <1>6 DEF AnswerFlattened, AnswerProtected, Awaited
  <2>2. TInv' /\ BudgetOK'
    BY <1>t, <2>1, TriggersNextInv
  <2>h. PICK how \in Steps \ {"none"} : Answered(how)
    BY <2>1 DEF Steps
  <2>3. bracket.step # "none" /\ bracket.filled > 0
    BY <1>t, <2>1 DEF ShapeOK
  <2>4. ShapeOK'
    BY <1>t, <2>1, <2>3, <2>h, AnsweredShape
  <2> QED BY <2>2, <2>4 DEF BInv
<1>7. CASE Traffic
  <2>1. TNext /\ bracket' = IF bracket.running THEN Watched ELSE bracket
    BY <1>7 DEF Traffic
  <2>2. TInv' /\ BudgetOK'
    BY <1>t, <2>1, TriggersNextInv
  <2>3. ShapeOK'
    <3>1. CASE bracket.running
      BY <1>t, <2>1, <3>1, WatchedShape
    <3>2. CASE ~bracket.running
      BY <1>t, <2>1, <3>2 DEF ShapeOK
    <3> QED BY <3>1, <3>2
  <2> QED BY <2>2, <2>3 DEF BInv
<1>8. CASE UNCHANGED bvars
  <2>1. UNCHANGED tvars /\ bracket' = bracket
    BY <1>8 DEF bvars
  <2>2. TInv' /\ BudgetOK'
    BY <1>t, <2>1, TriggersNextInv
  <2>3. ShapeOK'
    BY <1>t, <2>1 DEF ShapeOK, Idle, tvars, vars
  <2> QED BY <2>2, <2>3 DEF BInv
<1> QED BY <1>1, <1>2, <1>3, <1>4, <1>5, <1>6, <1>7, <1>8 DEF BNext

LEMMA BracketInit == BInit => BInv
<1> SUFFICES ASSUME BInit PROVE BInv
  OBVIOUS
<1>1. TInit /\ bracket = NoBracket
  BY DEF BInit
<1>2. TInv /\ BudgetOK
  BY <1>1, TriggersInitInv, BudgetInit DEF TInit
<1>3. ShapeOK
  BY <1>1 DEF ShapeOK, NoBracket, Steps
<1> QED BY <1>2, <1>3 DEF BInv

\* The commands of the bracket routes, in any interleaving with other traffic,
\* keep the invariants of the engine, of the triggers and of the OCO index.
THEOREM BracketInvariant == BSpec => []BInv
<1> QED BY BracketInit, BracketNext, PTL DEF BSpec

\* In particular the emergency close, which takes both legs out of the book, the
\* dormant orders and the index at once, leaves no order registered that is not
\* live and no reduce-only order beyond its position (orders.ts:246-268).
THEOREM BracketsKeepEngine ==
  BSpec => [](TypeOK /\ PerpConservation /\ Solvent /\ ReduceOnlyBudget
              /\ OcoIndexExact /\ NoTriggerMissed)
<1>1. ASSUME BInv PROVE OcoIndexExact
  BY <1>1, IndexExact DEF BInv
<1>2. ASSUME BInv PROVE NoTriggerMissed
  BY <1>2, NoneMissed DEF BInv
<1>3. BInv => TypeOK /\ PerpConservation /\ Solvent /\ ReduceOnlyBudget
              /\ OcoIndexExact /\ NoTriggerMissed
  BY <1>1, <1>2, PerpShape, PerpMoney, PerpDebtFree, PerpBudget DEF BInv, TInv
<1> QED BY <1>3, BracketInvariant, PTL

-----------------------------------------------------------------------------
(* A trader who trades by the bracket alone.                               *)

Bodies == Users \X Sides \X BOOLEAN \X (Groups \cup {NoGroup})

\* What the others may order, and what b's trader may: only to close it.
Others == {x \in Bodies : \A b \in Brackets : x[1] # b.user}
ExitsOnly(b) == {x \in Bodies : x[1] = b.user => x[2] = Opposite(b.side) /\ x[3]}

EntryBody(b) == <<b.user, b.side, FALSE, NoGroup>>

Flattening == bracket.step \in {"flatten", "flattened", "exposed"}

Allowed == IF bracket.step = "none" THEN Others ELSE ExitsOnly(bracket.req)

\* The entry is in flight for as long as its command runs.
Entering ==
  IF bracket.step = "entry" /\ bracket.running THEN {EntryBody(bracket.req)} ELSE {}

KindsOK == Kinds(Allowed, Entering)

\* No position before the bracket; after it one on its side, never larger than
\* what its entry filled; and none again once it is reported flattened.
PositionOK ==
  IF bracket.step = "none"
  THEN \A b \in Brackets : SizesOf(positions)[b.user] = 0
  ELSE /\ SizesOf(positions)[bracket.req.user] * Dir(bracket.req.side) \in 0..bracket.filled
       /\ bracket.step = "flattened" => SizesOf(positions)[bracket.req.user] = 0

\* The route knows every order of its trader that waits, and none of the ids it
\* knows is live once it has begun to flatten.
LegsOK ==
  /\ \A x \in bracket.legs : x < nextId
  /\ bracket.step # "none" =>
       \A x \in DOMAIN dormant : dormant[x].user = bracket.req.user => x \in bracket.legs
  /\ Flattening => /\ bracket.legs \cap Live = {}
                   /\ pc = "match" => taker.id \notin bracket.legs

LEMMA OthersAllowed ==
  ASSUME ShapeOK
  PROVE  Others \subseteq Allowed
<1>1. CASE bracket.step = "none"
  BY <1>1 DEF Allowed
<1>2. CASE bracket.step # "none"
  <2>1. bracket.req \in Brackets
    BY <1>2 DEF ShapeOK
  <2> QED BY <1>2, <2>1 DEF Allowed, Others, ExitsOnly
<1> QED BY <1>1, <1>2

LEMMA OthersOrder ==
  ASSUME Alone
  PROVE  /\ \A r \in Requests : Body(r) \in Others
         /\ \A c \in Conditionals : Body(c) \in Others
<1>1. ASSUME NEW r \in Requests PROVE Body(r) \in Others
  <2>1. /\ r.user \in Users /\ r.side \in Sides /\ r.reduceOnly \in BOOLEAN
        /\ r.oco \in Groups \cup {NoGroup}
    BY PerpAssumption
  <2>2. \A b \in Brackets : r.user # b.user
    BY DEF Alone
  <2> QED BY <2>1, <2>2 DEF Others, Bodies, Body
<1>2. ASSUME NEW c \in Conditionals PROVE Body(c) \in Others
  <2>1. /\ c.user \in Users /\ c.side \in Sides /\ c.reduceOnly \in BOOLEAN
        /\ c.oco \in Groups \cup {NoGroup}
    BY TriggersAssumption
  <2>2. \A b \in Brackets : c.user # b.user
    BY DEF Alone
  <2> QED BY <2>1, <2>2 DEF Others, Bodies, Body
<1> QED BY <1>1, <1>2

\* The trader's own orders.
LEMMA ExitBody ==
  ASSUME NEW b \in Brackets, NEW label \in Groups \cup {NoGroup}
  PROVE  <<b.user, Opposite(b.side), TRUE, label>> \in ExitsOnly(b)
<1>1. b.user \in Users /\ b.side \in Sides /\ b.group \in Groups
  BY BracketAssumption
<1>2. Opposite(b.side) \in Sides /\ NoGroup # b.group
  BY <1>1, PerpAssumption DEF Opposite, Sides
<1>3. \A l \in Groups \cup {NoGroup} : <<b.user, Opposite(b.side), TRUE, l>> \in Bodies
  BY <1>1, <1>2 DEF Bodies
<1> QED BY <1>2, <1>3 DEF ExitsOnly

LEMMA SameKinds ==
  ASSUME NEW A, NEW B, NEW C, NEW D, Kinds(A, B), A \subseteq C,
         UNCHANGED <<orders, dormant, due>>,
         \/ UNCHANGED <<pc, taker, pending>> /\ B \subseteq D
         \/ pc' = "submit" /\ Flying(pending', C, D)
  PROVE  Kinds(C, D)'
BY DEF Kinds, Flying

LEMMA WiderKinds ==
  ASSUME NEW A, NEW B, NEW D, Kinds(A, B)', B \subseteq D \/ pc' = "idle"
  PROVE  Kinds(A, D)'
BY DEF Kinds, Flying

-----------------------------------------------------------------------------
(* What a step does to its position.                                       *)

\* But for a fill, a position stays or is closed.
LEMMA SizesStay ==
  ASSUME TInv, [TNext]_tvars, ~ExecuteFill, NEW u \in Users
  PROVE  SizesOf(positions)'[u] \in {SizesOf(positions)[u], 0}
<1>p. PInv
  BY DEF TInv
<1>1. CASE positions' = positions
  BY <1>1 DEF SizesOf
<1>2. CASE Liquidate
  <2>1. Cleared(Engine', Engine)
    BY <1>2, <1>p, LiquidateInv
  <2>2. Shrunk(positions', positions)
    BY <2>1 DEF Cleared, Engine
  <2> QED BY <2>2 DEF Shrunk, SizesOf
<1>c. ASSUME NEW ids, Becomes(Cancelled(Engine, ids)) PROVE positions' = positions
  BY <1>c, CancelledOrders
<1>3. positions' = positions \/ Liquidate
  <2>1. CASE SubmitOrUpdate
    BY <2>1 DEF SubmitOrUpdate, Reject, Accept
  <2>2. CASE Match
    <3>1. Becomes(Cancelled(Engine, {BestMaker.id}))
      BY <2>2 DEF Match, MatchOrder, CancelMaker
    <3> QED BY <3>1, <1>c
  <2>3. CASE Finish
    BY <2>3 DEF Finish, FinishSubmit
  <2>4. CASE EnforceOco
    <3>1. Becomes(Cancelled(Engine, Losers \cap DOMAIN orders))
      BY <2>4 DEF EnforceOco
    <3> QED BY <3>1, <1>c
  <2>5. CASE \E c \in Conditionals : PlaceConditional(c)
    BY <2>5 DEF PlaceConditional
  <2>6. CASE \E id \in DOMAIN dormant : CancelDormant(id)
    BY <2>6 DEF CancelDormant, vars
  <2>7. CASE \E id \in DOMAIN orders : CancelResting(id)
    BY <2>7, <1>c DEF CancelResting, CancelOrder
  <2>8. CASE \E id \in DOMAIN orders, ch \in Amendments : Amend(id, ch)
    BY <2>8, <1>c DEF Amend, AmendOrder
  <2>9. CASE \E m \in Marks : Mark(m)
    BY <2>9 DEF Mark, SetMarkPrice
  <2>10. CASE SweepOne
    BY <2>10 DEF SweepOne, PassHealthy
  <2>11. CASE SweepDone
    BY <2>11 DEF SweepDone, FinishSweep
  <2>12. CASE Fire
    BY <2>12 DEF Fire
  <2>13. CASE UNCHANGED tvars
    BY <2>13 DEF tvars, vars
  <2> QED BY <2>1, <2>2, <2>3, <2>4, <2>5, <2>6, <2>7, <2>8, <2>9, <2>10, <2>11,
             <2>12, <2>13 DEF TNext
<1> QED BY <1>1, <1>2, <1>3

\* A trader whose orders only close, but for entries of B.
OnlyCloses(u, side, A, B) ==
  /\ \A x \in A : x[1] = u => x[2] = Opposite(side) /\ x[3]
  /\ \A x \in B : x[1] = u => x[2] = side

\* The position never turns around, and grows by no more than an entry fills.
Contained(s, t, side, more) ==
  \/ t * Dir(side) \in 0..s * Dir(side)
  \/ more \in Nat /\ t * Dir(side) = s * Dir(side) + more

LEMMA ClosingMove ==
  ASSUME NEW side \in Sides, NEW s \in Int, s * Dir(side) >= 0, NEW q \in Nat,
         q <= AbsBig(s), NEW t, t = s + Dir(Opposite(side)) * q
  PROVE  t * Dir(side) \in 0..s * Dir(side)
<1>1. CASE side = "buy"
  <2>1. Dir(side) = 1 /\ Dir(Opposite(side)) = -1
    BY <1>1 DEF Dir, Opposite
  <2> QED BY <2>1 DEF AbsBig
<1>2. CASE side # "buy"
  <2>1. Dir(side) = -1 /\ Dir(Opposite(side)) = 1
    BY <1>2 DEF Dir, Opposite
  <2> QED BY <2>1 DEF AbsBig
<1> QED BY <1>1, <1>2

LEMMA OpeningMove ==
  ASSUME NEW side \in Sides, NEW s \in Int, NEW q \in Nat, NEW t, t = s + Dir(side) * q
  PROVE  t * Dir(side) = s * Dir(side) + q
<1>1. Dir(side) = 1 \/ Dir(side) = -1
  BY DEF Dir
<1> QED BY <1>1

\* A reduce-only maker gives no more than it can close.
LEMMA MakerCloses ==
  ASSUME PInv, ExecuteFill, BestMaker.reduceOnly
  PROVE  FillQty <= AbsBig(SizesOf(positions)[BestMaker.user])
<1>1. CanMatch
  BY DEF ExecuteFill
<1>m. PICK m : m = BestMaker
  OBVIOUS
<1>2. Sound(m) /\ Sound(taker)
  BY <1>1, <1>m, MakerFacts
<1>u. PICK u \in Users, side \in Sides : u = m.user /\ side = m.side
  BY <1>2 DEF Sound, Order
<1>s. PICK s \in Int : s = SizesOf(positions)[u]
  BY SizesInt
<1>a. PICK a \in Int, b \in Int : a = Rem(taker) /\ b = Rem(m)
  BY <1>2 DEF Sound, Order, Rem
<1>3. FillQty = MinBig(MinBig(a, b), Closable(s, side))
  BY <1>m, <1>u, <1>s, <1>a DEF FillQty, Offer
<1>c. PICK c \in Int : c = Closable(s, side) /\ c <= AbsBig(s)
  BY DEF Closable, AbsBig
<1>4. MinBig(MinBig(a, b), c) <= c
  BY DEF MinBig
<1>5. AbsBig(s) \in Int /\ MinBig(MinBig(a, b), c) \in Int
  BY DEF AbsBig, MinBig
<1> QED BY <1>3, <1>4, <1>5, <1>c, <1>s, <1>u, <1>m

\* A reduce-only taker needs no more than the position holds.
LEMMA TakerCloses ==
  ASSUME PInv, BudgetOK, pc = "match", taker.reduceOnly
  PROVE  Rem(taker) <= AbsBig(SizesOf(positions)[taker.user])
<1>1. Sound(taker) /\ taker.id \notin DOMAIN orders
  BY DEF PInv, TakerSound
<1>u. PICK u \in Users : u = taker.user
  BY <1>1 DEF Sound, Order
<1>s. PICK s \in Int : s = SizesOf(positions)[u]
  BY SizesInt
<1>l. PICK live : live = LiveOrders
  OBVIOUS
<1>2. Resting(live) /\ Budget(live, s, u)
  BY <1>l, <1>s, LiveResting DEF BudgetOK, Budgets
<1>3. taker.id \in DOMAIN live /\ live[taker.id] = taker
  BY <1>l DEF LiveOrders, WithOrder
<1>4. ToReduce(live, u)[taker.id] = Rem(taker)
  BY <1>3, <1>u DEF ToReduce
<1>5. /\ Rem(taker) \in Nat /\ ToReduceAll(live, u) \in Nat
      /\ Rem(taker) <= ToReduceAll(live, u)
  BY <1>2, <1>3, <1>4, ToReduceFacts
<1>6. ToReduceAll(live, u) <= AbsBig(s) /\ AbsBig(s) \in Int
  BY <1>2 DEF Budget, AbsBig
<1> QED BY <1>5, <1>6, <1>s, <1>u

LEMMA FillContained ==
  ASSUME TInv, BudgetOK, ExecuteFill, NEW A, NEW B, Kinds(A, B),
         NEW u \in Users, NEW side \in Sides, OnlyCloses(u, side, A, B),
         SizesOf(positions)[u] * Dir(side) >= 0
  PROVE  \/ SizesOf(positions)'[u] * Dir(side) \in 0..SizesOf(positions)[u] * Dir(side)
         \/ /\ Body(taker) \in B /\ taker'.filled - taker.filled \in Nat
            /\ SizesOf(positions)'[u] * Dir(side)
                 = SizesOf(positions)[u] * Dir(side) + (taker'.filled - taker.filled)
<1>p. PInv
  BY DEF TInv
<1>m. PICK m, o : m = BestMaker /\ o = taker
  OBVIOUS
<1>1. CanMatch /\ pc = "match" /\ m.user # o.user
  BY <1>m DEF ExecuteFill, CanMatch, SelfTrade
<1>2. /\ Sound(m) /\ Sound(o) /\ m.id \in DOMAIN orders /\ orders[m.id] = m
  BY <1>1, <1>m, <1>p, MakerFacts
<1>q. PICK q \in Nat : q = FillQty /\ q <= Rem(o)
  BY <1>1, <1>m, <1>p, FillQtyFacts
<1>x. PICK old, new : old = SizesOf(positions) /\ new = SizesOf(positions)'
  OBVIOUS
<1>3. Moves(old, new, m, o, q) /\ taker' = AfterFill(o, q)
  BY <1>m, <1>q, <1>x, <1>p, FillOutcome
<1>4. \A v \in Users : old[v] \in Int
  BY <1>x, <1>p, SizesInt
<1>5. m.side \in Sides /\ o.side \in Sides
  BY <1>2 DEF Sound, Order
<1>6. /\ old[u] \in Int /\ new[u] \in Int
      /\ u # m.user /\ u # o.user => new[u] = old[u]
      /\ u = m.user => new[u] = old[u] + Dir(m.side) * q
      /\ u = o.user => new[u] = old[u] + Dir(o.side) * q
  BY <1>1, <1>3, <1>4, <1>5, MoveFacts
<1>s. PICK s \in Int, t \in Int : s = old[u] /\ t = new[u]
  BY <1>6
<1>7. s * Dir(side) >= 0
  BY <1>s, <1>x
<1>8. t * Dir(side) \in 0..s * Dir(side)
      \/ (Body(o) \in B /\ t * Dir(side) = s * Dir(side) + q)
  <2>1. CASE u # m.user /\ u # o.user
    <3>1. t = s
      BY <2>1, <1>6, <1>s
    <3>2. s * Dir(side) \in Int
      BY DEF Dir
    <3> QED BY <3>1, <3>2, <1>7
  <2>2. CASE u = m.user
    <3>1. Body(m) \in A
      BY <1>2 DEF Kinds
    <3>2. m.side = Opposite(side) /\ m.reduceOnly
      BY <2>2, <3>1 DEF OnlyCloses, Body
    <3>3. q <= AbsBig(s)
      BY <2>2, <3>2, <1>m, <1>q, <1>p, <1>s, <1>x, MakerCloses
    <3>4. t = s + Dir(Opposite(side)) * q
      BY <2>2, <3>2, <1>6, <1>s
    <3> QED BY <3>3, <3>4, <1>7, ClosingMove
  <2>3. CASE u = o.user /\ Body(o) \in A
    <3>1. o.side = Opposite(side) /\ o.reduceOnly
      BY <2>3 DEF OnlyCloses, Body
    <3>2. Rem(o) <= AbsBig(s)
      BY <2>3, <3>1, <1>1, <1>m, <1>p, <1>s, <1>x, TakerCloses
    <3>3. q <= AbsBig(s)
      <4>1. Rem(o) \in Int /\ AbsBig(s) \in Int
        BY <1>2 DEF Sound, Order, Rem, AbsBig
      <4> QED BY <4>1, <3>2, <1>q
    <3>4. t = s + Dir(Opposite(side)) * q
      BY <2>3, <3>1, <1>6, <1>s
    <3> QED BY <3>3, <3>4, <1>7, ClosingMove
  <2>4. CASE u = o.user /\ Body(o) \in B
    <3>1. o.side = side
      BY <2>4 DEF OnlyCloses, Body
    <3>2. t = s + Dir(side) * q
      BY <2>4, <3>1, <1>6, <1>s
    <3> QED BY <3>2, <2>4, OpeningMove, ZenonT(30)
  <2>5. Body(o) \in A \/ Body(o) \in B
    BY <1>1, <1>m DEF Kinds, Flying
  <2> QED BY <2>1, <2>2, <2>3, <2>4, <2>5
<1>9. taker'.filled - o.filled = q
  <2>k. PICK k : AfterFill(o, q) = [[o EXCEPT !.filled = @ + q] EXCEPT !.lock = k]
    BY DEF AfterFill
  <2>1. taker'.filled = o.filled + q /\ o.filled \in Nat
    BY <2>k, <1>2, <1>3 DEF Sound, Order
  <2> QED BY <2>1
<1> QED BY <1>8, <1>9, <1>m, <1>s, <1>x

-----------------------------------------------------------------------------
(* The bracket's orders and position, step by step.                        *)

AloneInv == BInv /\ KindsOK /\ PositionOK /\ LegsOK /\ OpenOK

LEMMA EnterKinds ==
  ASSUME BInv, KindsOK, NEW b \in Brackets, Enter(b)
  PROVE  KindsOK'
<1>t. TInv /\ BudgetOK /\ ShapeOK /\ PInv
  BY DEF BInv, TInv
<1>1. /\ bracket.step = "none" /\ book[Opposite(b.side)] # <<>>
      /\ Submit(Request(b, b.side, "market", EntryBound(b.side), b.qty))
      /\ bracket' = [Running("entry") EXCEPT !.req = b]
  BY DEF Enter
<1>2. b.side \in Sides /\ b.qty \in Nat
  BY BracketAssumption
<1>p. PICK side \in Sides, qty \in Nat, price \in Nat, type \in {"limit", "market"} :
        /\ side = b.side /\ qty = b.qty /\ price = EntryBound(b.side) /\ type = "market"
  BY <1>t, <1>1, <1>2, EntryPrice
<1>r. PICK req : req = Request(b, side, type, price, qty)
  OBVIOUS
<1>3. /\ Asked(req) /\ Body(req) = EntryBody(b) /\ req.type = "market"
  <2>1. /\ Asked(Request(b, side, type, price, qty))
        /\ Body(Request(b, side, type, price, qty)) = <<b.user, side, FALSE, NoGroup>>
        /\ Request(b, side, type, price, qty).type = type
    BY RequestAsked, Zenon
  <2>2. /\ Asked(req) /\ Body(req) = <<b.user, side, FALSE, NoGroup>>
        /\ req.type = type
    BY <1>r, <2>1, Zenon
  <2> QED BY <2>2, <1>p DEF EntryBody
<1>4. /\ pc' = "submit" /\ pending' = req /\ UNCHANGED <<orders, dormant, due>>
  BY <1>t, <1>1, <1>3, <1>p, <1>r, SubmitInv
<1>5. bracket'.step = "entry" /\ bracket'.req = b /\ bracket'.running
  <2>1. "entry" \in Steps \ {"none"}
    BY DEF Steps
  <2>2. bracket'.step = "entry" /\ bracket'.req = b /\ (bracket'.running <=> ~Idle')
    BY <1>t, <1>1, <2>1, BegunShape
  <2> QED BY <2>2, <1>4 DEF Idle
<1>6. Allowed' = ExitsOnly(b) /\ Entering' = {EntryBody(b)}
  BY <1>5 DEF Allowed, Entering
<1>7. Kinds(Others, {})
  BY <1>1 DEF KindsOK, Allowed, Entering
<1>8. Others \subseteq ExitsOnly(b)
  BY DEF Others, ExitsOnly
<1>9. Flying(pending', ExitsOnly(b), {EntryBody(b)})
  BY <1>3, <1>4 DEF Flying
<1>10. Kinds(ExitsOnly(b), {EntryBody(b)})'
  BY <1>4, <1>7, <1>8, <1>9, SameKinds
<1> QED BY <1>6, <1>10 DEF KindsOK

LEMMA TakeProfitKinds ==
  ASSUME BInv, KindsOK, TakeProfit
  PROVE  KindsOK'
<1>t. TInv /\ BudgetOK /\ ShapeOK
  BY DEF BInv
<1>1. /\ bracket.step = "entry" /\ ~bracket.running /\ bracket.filled > 0
      /\ Submit(Leg("limit", bracket.req.tp)) /\ bracket' = Running("takeProfit")
  BY DEF TakeProfit, Awaited
<1>b. PICK b \in Brackets : b = bracket.req
  BY <1>t, <1>1 DEF ShapeOK
<1>r. PICK req : req = Leg("limit", bracket.req.tp)
  OBVIOUS
<1>2. Asked(req) /\ Body(req) = <<b.user, Opposite(b.side), TRUE, b.group>>
  BY <1>t, <1>1, <1>b, <1>r, TakeProfitAsked DEF ExitSide
<1>3. /\ pc' = "submit" /\ pending' = req /\ UNCHANGED <<orders, dormant, due>>
  BY <1>t, <1>1, <1>2, <1>r, SubmitInv
<1>4. bracket'.step = "takeProfit" /\ bracket'.req = b
  <2>1. "takeProfit" \in Steps \ {"none"}
    BY DEF Steps
  <2> QED BY <1>t, <1>1, <1>b, <2>1, RunningShape
<1>5. Allowed' = ExitsOnly(b) /\ Entering' = {}
  BY <1>4 DEF Allowed, Entering
<1>6. Kinds(ExitsOnly(b), {})
  BY <1>1, <1>b DEF KindsOK, Allowed, Entering
<1>7. Flying(pending', ExitsOnly(b), {})
  <2>1. b.group \in Groups \cup {NoGroup}
    BY BracketAssumption
  <2> QED BY <2>1, <1>2, <1>3, ExitBody DEF Flying
<1>8. Kinds(ExitsOnly(b), {})'
  BY <1>3, <1>6, <1>7, SameKinds
<1> QED BY <1>5, <1>8 DEF KindsOK

LEMMA StopLossKinds ==
  ASSUME BInv, KindsOK, StopLoss
  PROVE  KindsOK'
<1>t. TInv /\ BudgetOK /\ ShapeOK
  BY DEF BInv
<1>1. /\ bracket.step = "takeProfit" /\ ~bracket.running
      /\ PlaceConditional(StopLeg) /\ nextId \in Nat
      /\ bracket' = [Running("stopLoss") EXCEPT !.legs = @ \cup {nextId}]
  BY <1>t DEF StopLoss, Awaited, TInv, PInv, Settings
<1>2. bracket.step # "none" /\ bracket.filled > 0
  BY <1>t, <1>1 DEF ShapeOK
<1>b. PICK b \in Brackets : b = bracket.req
  BY <1>t, <1>2 DEF ShapeOK
<1>c. PICK c : c = StopLeg
  OBVIOUS
<1>3. Conditional(c) /\ Body(c) = <<b.user, Opposite(b.side), TRUE, b.group>>
  BY <1>t, <1>2, <1>b, <1>c, StopLegFacts DEF ExitSide
<1>4. bracket'.step = "stopLoss" /\ bracket'.req = b
  BY <1>t, <1>1, <1>2, <1>b, StopShape
<1>5. Allowed' = ExitsOnly(b) /\ Entering' = {}
  BY <1>4 DEF Allowed, Entering
<1>6. Kinds(ExitsOnly(b), {})
  BY <1>1, <1>b DEF KindsOK, Allowed, Entering
<1>7. Body(c) \in ExitsOnly(b)
  <2>1. b.group \in Groups \cup {NoGroup}
    BY BracketAssumption
  <2> QED BY <2>1, <1>3, ExitBody
<1>8. Kinds(ExitsOnly(b), {})'
  BY <1>t, <1>1, <1>3, <1>6, <1>7, <1>c, PlaceKinds
<1> QED BY <1>5, <1>8 DEF KindsOK

LEMMA FlattenKinds ==
  ASSUME BInv, KindsOK, Flatten
  PROVE  KindsOK'
<1>t. TInv /\ BudgetOK /\ ShapeOK /\ PInv
  BY DEF BInv, TInv
<1>1. bracket.step = "stopLoss" /\ ~bracket.running /\ due = <<>>
      /\ bracket' = Running("flatten")
  BY DEF Flatten, Awaited, Idle
<1>2. bracket.step # "none" /\ bracket.filled > 0
  BY <1>t, <1>1 DEF ShapeOK
<1>b. PICK b \in Brackets : b = bracket.req
  BY <1>t, <1>2 DEF ShapeOK
<1>3. /\ orders' = Without(orders, Dropped) /\ dormant' = Without(dormant, Dropped)
      /\ due' = due /\ pc' = "submit" /\ pending' = FlattenOrder
  BY <1>t, FlattenInv
<1>4. Body(FlattenOrder) = <<b.user, Opposite(b.side), TRUE, NoGroup>>
  BY <1>t, <1>2, <1>b, FlattenAsked DEF ExitSide
<1>5. bracket'.step = "flatten" /\ bracket'.req = b
  <2>1. "flatten" \in Steps \ {"none"}
    BY DEF Steps
  <2> QED BY <1>t, <1>1, <1>2, <1>b, <2>1, RunningShape
<1>6. Allowed' = ExitsOnly(b) /\ Entering' = {}
  BY <1>5 DEF Allowed, Entering
<1>7. Kinds(ExitsOnly(b), {})
  BY <1>1, <1>b DEF KindsOK, Allowed, Entering
<1>8. \A id \in DOMAIN orders' : Body(orders'[id]) \in ExitsOnly(b)
  BY <1>3, <1>7, WithoutBodies DEF Kinds
<1>9. \A id \in DOMAIN dormant' : Body(dormant'[id]) \in ExitsOnly(b)
  BY <1>3, <1>7, WithoutBodies DEF Kinds
<1>10. Flying(pending', ExitsOnly(b), {})
  BY <1>3, <1>4, ExitBody DEF Flying
<1>11. DOMAIN due' = {}
  BY <1>1, <1>3
<1>12. Kinds(ExitsOnly(b), {})'
  BY <1>3, <1>8, <1>9, <1>10, <1>11 DEF Kinds
<1> QED BY <1>6, <1>12 DEF KindsOK

\* An answer changes nothing of what is allowed.
LEMMA AnswerKinds ==
  ASSUME BInv, KindsOK, RefuseEntry \/ AnswerFlattened \/ AnswerProtected
  PROVE  /\ KindsOK' /\ UNCHANGED tvars /\ bracket.step # "none"
         /\ bracket'.step # "none" /\ bracket'.req = bracket.req
         /\ bracket'.filled = bracket.filled
         /\ bracket'.legs = bracket.legs /\ (Flattening' => Flattening)
         /\ bracket'.step = "flattened" => SizesOf(positions)[bracket.req.user] = 0
<1>t. ShapeOK
  BY DEF BInv
<1>h. PICK how : /\ Answered(how) /\ UNCHANGED tvars /\ ~bracket.running
                 /\ \/ bracket.step = "entry" /\ how = "refused"
                    \/ bracket.step = "flatten" /\ how \in {"flattened", "exposed"}
                    \/ bracket.step = "stopLoss" /\ how = "protected"
                 /\ how = "flattened" => SizesOf(positions)[bracket.req.user] = 0
  BY DEF RefuseEntry, AnswerFlattened, AnswerProtected, Awaited
<1>1. how \in Steps \ {"none"} /\ (how # "refused" => bracket.filled > 0)
      /\ bracket.step # "none"
  BY <1>t, <1>h DEF ShapeOK, Steps
<1>2. /\ bracket'.step = how /\ bracket'.req = bracket.req
      /\ bracket'.filled = bracket.filled /\ bracket'.legs = bracket.legs
  BY <1>t, <1>h, <1>1, AnsweredShape
<1>3. Allowed' = Allowed /\ Entering' = {} /\ Entering = {}
  BY <1>h, <1>2 DEF Allowed, Entering
<1>a. PICK A : A = Allowed
  OBVIOUS
<1>4. Kinds(A, {})
  BY <1>a, <1>3 DEF KindsOK
<1>5. UNCHANGED <<orders, dormant, due, pc, taker, pending>>
  BY <1>h DEF tvars, vars
<1>6. Kinds(A, {})'
  BY <1>4, <1>5, SameKinds
<1>7. KindsOK'
  BY <1>6, <1>3, <1>a DEF KindsOK
<1>8. Flattening' => Flattening
  BY <1>h, <1>2 DEF Flattening
<1> QED BY <1>1, <1>2, <1>7, <1>8, <1>h

LEMMA TrafficKinds ==
  ASSUME Alone, BInv, KindsOK, Traffic
  PROVE  KindsOK'
<1>t. TInv /\ ShapeOK
  BY DEF BInv
<1>1. TNext /\ bracket' = IF bracket.running THEN Watched ELSE bracket
  BY DEF Traffic
<1>a. PICK A, B : A = Allowed /\ B = Entering
  OBVIOUS
<1>2. /\ \A r \in Requests : Body(r) \in A
      /\ \A c \in Conditionals : Body(c) \in A
  BY <1>a, <1>t, OthersAllowed, OthersOrder
<1>3. Kinds(A, B)'
  BY <1>1, <1>2, <1>a, <1>t, KindsNext DEF KindsOK
<1>4. bracket'.step = bracket.step /\ bracket'.req = bracket.req
      /\ (bracket.running /\ ~bracket'.running => pc' = "idle")
      /\ (~bracket.running => ~bracket'.running)
  <2>1. CASE bracket.running
    <3>1. /\ bracket'.step = bracket.step /\ bracket'.req = bracket.req
          /\ (bracket'.running <=> ~Idle')
      BY <1>1, <1>t, <2>1, WatchedShape
    <3> QED BY <3>1, <2>1 DEF Idle
  <2>2. CASE ~bracket.running
    BY <1>1, <2>2
  <2> QED BY <2>1, <2>2
<1>5. Allowed' = A
  BY <1>4, <1>a DEF Allowed
<1>d. PICK D : D = Entering'
  OBVIOUS
<1>6. B \subseteq D \/ pc' = "idle"
  BY <1>4, <1>a, <1>d DEF Entering
<1>7. Kinds(A, D)'
  BY <1>3, <1>6, WiderKinds
<1> QED BY <1>5, <1>7, <1>d DEF KindsOK

LEMMA TrafficContained ==
  ASSUME TInv, BudgetOK, TNext, NEW A, NEW B, Kinds(A, B),
         NEW u \in Users, NEW side \in Sides, OnlyCloses(u, side, A, B),
         SizesOf(positions)[u] * Dir(side) >= 0
  PROVE  \/ SizesOf(positions)'[u] * Dir(side) \in 0..SizesOf(positions)[u] * Dir(side)
         \/ /\ Body(taker) \in B /\ pc = "match" /\ pc' = "match"
            /\ taker'.filled - taker.filled \in Nat
            /\ SizesOf(positions)'[u] * Dir(side)
                 = SizesOf(positions)[u] * Dir(side) + (taker'.filled - taker.filled)
<1>1. CASE ExecuteFill
  <2>1. pc = "match" /\ pc' = "match"
    BY <1>1 DEF ExecuteFill, CanMatch
  <2> QED BY <1>1, <2>1, FillContained
<1>2. CASE ~ExecuteFill
  <2>p. PICK s \in Int : s = SizesOf(positions)[u]
    BY SizesInt DEF TInv
  <2>t. PICK t : t = SizesOf(positions)'[u]
    OBVIOUS
  <2>1. t = s \/ t = 0
    BY <1>2, <2>p, <2>t, SizesStay
  <2>2. Dir(side) \in Int /\ s * Dir(side) >= 0
    BY <2>p DEF Dir
  <2>3. t * Dir(side) = s * Dir(side) \/ t * Dir(side) = 0
    BY <2>1, <2>2
  <2>4. t * Dir(side) \in 0..s * Dir(side)
    <3>x. PICK x \in Int : x = s * Dir(side) /\ x >= 0
      BY <2>2
    <3> QED BY <3>x, <2>3
  <2> QED BY <2>4, <2>p, <2>t
<1> QED BY <1>1, <1>2

LEMMA TrafficPosition ==
  ASSUME BInv, KindsOK, PositionOK, Traffic
  PROVE  PositionOK'
<1>t. TInv /\ BudgetOK /\ ShapeOK
  BY DEF BInv
<1>1. TNext /\ bracket' = IF bracket.running THEN Watched ELSE bracket
  BY DEF Traffic
<1>x. PICK old, new : old = SizesOf(positions) /\ new = SizesOf(positions)'
  OBVIOUS
<1>i. ASSUME NEW u \in Users PROVE new[u] \in Int
  <2>1. TInv'
    BY <1>1, <1>t, TriggersNextInv
  <2>2. Good(Engine', InFlight', supply' + phantom') /\ Engine'.positions = positions'
    BY <2>1, EngineParts DEF TInv, PInv, Engine
  <2>h. PICK h : h = positions'
    OBVIOUS
  <2>3. Held(h) /\ new = SizesOf(h)
    BY <2>2, <2>h, <1>x DEF Good, Shape, SizesOf
  <2> QED BY <2>3, ClosableSizes
<1>2. CASE bracket.step = "none"
  <2>1. bracket' = bracket
    BY <1>1, <1>2, <1>t DEF ShapeOK
  <2>2. Kinds(Others, {})
    BY <1>2 DEF KindsOK, Allowed, Entering
  <2>3. ASSUME NEW b \in Brackets PROVE new[b.user] = 0
    <3>1. b.user \in Users /\ b.side \in Sides /\ old[b.user] = 0
      BY <1>2, <1>x, BracketAssumption DEF PositionOK
    <3>u. PICK u \in Users, side \in Sides : u = b.user /\ side = b.side
      BY <3>1
    <3>2. OnlyCloses(u, side, Others, {})
      BY <3>u DEF OnlyCloses, Others
    <3>3. old[u] * Dir(side) = 0
      BY <3>1, <3>u DEF Dir
    <3>4. new[u] * Dir(side) \in 0..0
      BY <3>2, <3>3, <2>2, <1>1, <1>t, <1>x, TrafficContained
    <3>5. new[u] \in Int
      BY <1>i
    <3> QED BY <3>4, <3>5, <3>u DEF Dir
  <2> QED BY <1>2, <2>1, <2>3, <1>x DEF PositionOK
<1>3. CASE bracket.step # "none"
  <2>b. PICK b \in Brackets : b = bracket.req
    BY <1>3, <1>t DEF ShapeOK
  <2>u. PICK u \in Users, side \in Sides : u = b.user /\ side = b.side
    BY BracketAssumption
  <2>a. PICK A, B : A = Allowed /\ B = Entering
    OBVIOUS
  <2>1. OnlyCloses(u, side, A, B)
    <3>1. A \subseteq ExitsOnly(b)
      BY <1>3, <2>a, <2>b DEF Allowed
    <3>2. B \subseteq {EntryBody(b)}
      BY <2>a, <2>b DEF Entering
    <3>3. \A y \in A : y[1] = u => y[2] = Opposite(side) /\ y[3]
      BY <3>1, <2>u DEF ExitsOnly
    <3>4. ASSUME NEW y \in B PROVE y[2] = side
      <4>1. y = <<u, side, FALSE, NoGroup>>
        BY <3>2, <2>u DEF EntryBody
      <4> QED BY <4>1
    <3> QED BY <3>3, <3>4 DEF OnlyCloses
  <2>f. PICK f \in Nat : f = bracket.filled
    BY <1>t DEF ShapeOK
  <2>s. PICK x \in Int : x = old[u] * Dir(side) /\ x \in 0..f
    BY <1>3, <1>x, <2>b, <2>u, <2>f DEF PositionOK
  <2>y. PICK y, more : y = new[u] * Dir(side) /\ more = taker'.filled - taker.filled
    OBVIOUS
  <2>2. \/ y \in 0..x
        \/ /\ Body(taker) \in B /\ pc = "match" /\ pc' = "match"
           /\ more \in Nat /\ y = x + more
    BY <2>1, <2>a, <2>s, <2>y, <1>1, <1>t, <1>x, TrafficContained DEF KindsOK
  <2>3. /\ bracket'.step = bracket.step /\ bracket'.req = b
        /\ bracket'.filled \in Nat /\ bracket'.filled >= f
        /\ Body(taker) \in B /\ pc = "match" /\ pc' = "match" => bracket'.filled = f + more
    <3>1. CASE bracket.running
      <4>1. /\ ShapeOK' /\ bracket'.step = bracket.step /\ bracket'.req = b
            /\ bracket'.filled
                 = f + (IF pc = "match" /\ pc' = "match" /\ bracket.step = "entry"
                        THEN more ELSE 0)
            /\ bracket'.filled >= f
        BY <1>1, <1>t, <3>1, <2>b, <2>f, <2>y, WatchedShape
      <4>2. bracket'.filled \in Nat
        BY <4>1 DEF ShapeOK
      <4>3. Body(taker) \in B => bracket.step = "entry"
        BY <2>a DEF Entering
      <4> QED BY <4>1, <4>2, <4>3
    <3>2. CASE ~bracket.running
      <4>1. bracket' = bracket /\ B = {}
        BY <1>1, <3>2, <2>a DEF Entering
      <4> QED BY <4>1, <2>b, <2>f
    <3> QED BY <3>1, <3>2
  <2>4. y \in 0..bracket'.filled
    <3>g. PICK g \in Nat : g = bracket'.filled /\ g >= f
      BY <2>3
    <3>1. CASE y \in 0..x
      BY <3>1, <3>g, <2>s
    <3>2. CASE Body(taker) \in B /\ pc = "match" /\ pc' = "match" /\ more \in Nat /\ y = x + more
      <4>1. g = f + more
        BY <3>2, <2>3, <3>g
      <4> QED BY <4>1, <3>2, <3>g, <2>s
    <3> QED BY <2>2, <3>1, <3>2
  <2>5. ASSUME bracket.step = "flattened" PROVE new[u] = 0
    <3>1. old[u] = 0 /\ B = {}
      BY <1>3, <1>x, <2>5, <2>a, <2>b, <2>u DEF PositionOK, Entering
    <3>2. x = 0 /\ y \in 0..x
      BY <2>2, <2>s, <3>1 DEF Dir
    <3>n. PICK n \in Int : n = new[u]
      BY <1>i
    <3> QED BY <3>2, <3>n, <2>y DEF Dir
  <2> QED BY <1>3, <2>3, <2>4, <2>5, <2>b, <2>u, <2>y, <1>x DEF PositionOK
<1> QED BY <1>2, <1>3

LEMMA TrafficLegs ==
  ASSUME Alone, BInv, LegsOK, Traffic
  PROVE  LegsOK'
<1>t. TInv /\ ShapeOK
  BY DEF BInv
<1>1. TNext /\ bracket' = IF bracket.running THEN Watched ELSE bracket
  BY DEF Traffic
<1>2. /\ bracket'.step = bracket.step /\ bracket'.req = bracket.req
      /\ \/ bracket'.legs = bracket.legs
         \/ /\ bracket.step = "takeProfit" /\ pc = "submit" /\ pc' = "match"
            /\ bracket'.legs = bracket.legs \cup {nextId}
  <2>1. CASE bracket.running
    BY <1>1, <1>t, <2>1, WatchedShape
  <2>2. CASE ~bracket.running
    BY <1>1, <2>2
  <2> QED BY <2>1, <2>2
<1>3. /\ nextId \in Nat /\ nextId' \in {nextId, nextId + 1}
      /\ pc' = "match" /\ pc = "match" => taker'.id = taker.id
      /\ pc' = "match" /\ pc # "match" => taker'.id = nextId /\ nextId' = nextId + 1
  BY <1>1, <1>t, TakerIds
<1>k. PICK known, now : known = bracket.legs /\ now = bracket'.legs
  OBVIOUS
<1>4. known \in SUBSET Nat /\ \A x \in known : x < nextId
  BY <1>t, <1>k DEF ShapeOK, LegsOK
<1>5. \A x \in now : x < nextId'
  BY <1>2, <1>3, <1>4, <1>k
<1>6. ASSUME bracket'.step # "none", NEW x \in DOMAIN dormant',
             dormant'[x].user = bracket'.req.user
      PROVE  x \in now
  <2>1. bracket.req \in Brackets
    BY <1>2, <1>6, <1>t DEF ShapeOK
  <2>2. ~ \E c \in Conditionals : dormant'[x].user = c.user
    BY <1>2, <1>6, <2>1 DEF Alone
  <2>3. x \in DOMAIN dormant /\ dormant'[x].user = dormant[x].user
    BY <1>1, <1>t, <2>2, WaiterIds
  <2> QED BY <1>2, <1>6, <1>k, <2>3 DEF LegsOK
<1>7. ASSUME Flattening'
      PROVE  now \cap Live' = {} /\ (pc' = "match" => taker'.id \notin now)
  <2>1. Flattening /\ now = known
    BY <1>2, <1>7, <1>k DEF Flattening
  <2>2. known \cap Live = {} /\ (pc = "match" => taker.id \notin known)
    BY <2>1, <1>k DEF LegsOK
  <2>3. ASSUME NEW x \in known PROVE x \notin DOMAIN orders' /\ x \notin DOMAIN dormant'
    <3>1. x \notin DOMAIN orders /\ x \notin DOMAIN dormant /\ x # nextId
          /\ ~(pc = "match" /\ x = taker.id)
      BY <1>3, <1>4, <2>2, <2>3 DEF Live
    <3>2. x \notin DOMAIN orders'
      BY <1>1, <1>t, <3>1, OrderIds
    <3>3. x \notin DOMAIN dormant'
      BY <1>1, <1>t, <3>1, WaiterIds
    <3> QED BY <3>2, <3>3
  <2>4. pc' = "match" => taker'.id \notin known
    <3>1. nextId \notin known
      BY <1>3, <1>4
    <3> QED BY <1>3, <2>2, <3>1
  <2> QED BY <2>1, <2>3, <2>4 DEF Live
<1> QED BY <1>5, <1>6, <1>7, <1>k DEF LegsOK

\* The route's next command for a leg, or for the entry.
LEMMA SubmitLegs ==
  ASSUME LegsOK, NEW req, Submit(req), bracket'.legs = bracket.legs, ~Flattening',
         \/ bracket.step # "none" /\ bracket'.req = bracket.req
         \/ \A x \in DOMAIN dormant : dormant[x].user # bracket'.req.user
  PROVE  LegsOK'
<1>1. UNCHANGED <<nextId, dormant>>
  BY DEF Submit
<1> QED BY <1>1 DEF LegsOK

LEMMA StopLegs ==
  ASSUME BInv, LegsOK, StopLoss
  PROVE  LegsOK'
<1>t. TInv /\ ShapeOK /\ nextId \in Nat
  BY DEF BInv, TInv, PInv, Settings
<1>1. /\ bracket.step = "takeProfit" /\ PlaceConditional(StopLeg)
      /\ bracket' = [Running("stopLoss") EXCEPT !.legs = @ \cup {nextId}]
  BY DEF StopLoss, Awaited
<1>2. bracket.step # "none" /\ bracket.filled > 0
  BY <1>t, <1>1 DEF ShapeOK
<1>3. /\ bracket'.step = "stopLoss" /\ bracket'.req = bracket.req
      /\ bracket'.legs = bracket.legs \cup {nextId}
  BY <1>t, <1>1, <1>2, StopShape
<1>4. /\ DOMAIN dormant' = DOMAIN dormant \cup {nextId} /\ nextId' = nextId + 1
      /\ \A x \in DOMAIN dormant \ {nextId} : dormant'[x].user = dormant[x].user
  <2>c. PICK c : c = StopLeg
    OBVIOUS
  <2>1. Conditional(c) /\ PlaceConditional(c)
    BY <1>t, <1>1, <1>2, <2>c, StopLegFacts
  <2> QED BY <1>t, <2>1, PlacedOwners
<1>5. \A x \in bracket'.legs : x < nextId'
  <2>1. bracket.legs \in SUBSET Nat
    BY <1>t DEF ShapeOK
  <2> QED BY <1>t, <1>3, <1>4, <2>1 DEF LegsOK
<1>6. ~Flattening'
  BY <1>3 DEF Flattening
<1> QED BY <1>2, <1>3, <1>4, <1>5, <1>6 DEF LegsOK

\* Both orders that the route placed are taken out, wherever they are.
LEMMA FlattenLegs ==
  ASSUME BInv, LegsOK, Flatten
  PROVE  LegsOK'
<1>t. TInv /\ BudgetOK /\ ShapeOK
  BY DEF BInv
<1>1. bracket.step = "stopLoss" /\ nextId' = nextId /\ bracket' = Running("flatten")
  BY DEF Flatten, Awaited
<1>2. bracket.step # "none" /\ bracket.filled > 0
  BY <1>t, <1>1 DEF ShapeOK
<1>3. bracket'.req = bracket.req /\ bracket'.legs = bracket.legs
  <2>1. "flatten" \in Steps \ {"none"}
    BY DEF Steps
  <2> QED BY <1>t, <1>1, <1>2, <2>1, RunningShape
<1>4. /\ orders' = Without(orders, Dropped) /\ dormant' = Without(dormant, Dropped)
      /\ pc' = "submit"
  BY <1>t, FlattenInv
<1>5. /\ DOMAIN orders' = DOMAIN orders \ Dropped
      /\ DOMAIN dormant' = DOMAIN dormant \ Dropped
      /\ \A x \in DOMAIN dormant' : dormant'[x] = dormant[x]
  BY <1>4 DEF Without
<1>6. bracket.legs \cap Live' = {}
  BY <1>5 DEF Dropped, Live
<1> QED BY <1>1, <1>2, <1>3, <1>4, <1>5, <1>6 DEF LegsOK

LEMMA AloneNext ==
  ASSUME Alone, AloneInv, [BNext]_bvars
  PROVE  AloneInv'
<1>t. BInv /\ KindsOK /\ PositionOK /\ LegsOK /\ OpenOK /\ TInv /\ BudgetOK /\ ShapeOK
  BY DEF AloneInv, BInv
<1>0. BInv'
  BY <1>t, BracketNext
<1>s. ASSUME KindsOK', LegsOK', positions' = positions, bracket.step # "none",
             bracket'.step # "none", bracket'.req = bracket.req,
             bracket'.filled = bracket.filled,
             bracket'.step = "flattened" => SizesOf(positions)[bracket.req.user] = 0,
             orders' = orders \/ \E gone : orders' = Without(orders, gone)
      PROVE  AloneInv'
  <2>1. PositionOK'
    BY <1>s, <1>t DEF PositionOK, SizesOf
  <2>2. OpenOK'
    BY <1>s, <1>t DEF OpenOK, Without
  <2> QED BY <2>1, <2>2, <1>0, <1>s DEF AloneInv
<1>1. ASSUME NEW b \in Brackets, Enter(b) PROVE AloneInv'
  <2>1. KindsOK'
    BY <1>t, <1>1, EnterKinds
  <2>2. /\ bracket.step = "none" /\ positions' = positions /\ orders' = orders
        /\ \E req : Submit(req)
    BY <1>1 DEF Enter, Submit
  <2>3. /\ bracket'.step = "entry" /\ bracket'.req = b /\ bracket'.filled \in Nat
        /\ bracket'.legs = bracket.legs
    <3>1. "entry" \in Steps \ {"none"} /\ bracket.filled \in Nat
      BY <1>t DEF Steps, ShapeOK
    <3> QED BY <1>1, <1>t, <3>1, BegunShape DEF Enter
  <2>4. SizesOf(positions)[b.user] = 0
    BY <1>t, <2>2 DEF PositionOK
  <2>5. SizesOf(positions')[b.user] * Dir(b.side) = 0
    BY <2>2, <2>4 DEF Dir
  <2>6. PositionOK'
    BY <2>3, <2>5 DEF PositionOK
  <2>7. LegsOK'
    <3>1. \A x \in DOMAIN dormant : Body(dormant[x]) \in Others
      BY <1>t, <2>2 DEF KindsOK, Kinds, Allowed
    <3>2. \A x \in DOMAIN dormant : dormant[x].user # b.user
      BY <3>1 DEF Others, Body
    <3>3. ~Flattening'
      BY <2>3 DEF Flattening
    <3> QED BY <1>t, <2>2, <2>3, <3>2, <3>3, SubmitLegs
  <2>8. OpenOK'
    BY <1>t, <2>2 DEF OpenOK
  <2> QED BY <2>1, <2>6, <2>7, <2>8, <1>0 DEF AloneInv
<1>2. CASE RefuseEntry \/ AnswerFlattened \/ AnswerProtected
  <2>1. /\ KindsOK' /\ UNCHANGED tvars /\ bracket.step # "none"
        /\ bracket'.step # "none" /\ bracket'.req = bracket.req
        /\ bracket'.filled = bracket.filled
        /\ bracket'.legs = bracket.legs /\ (Flattening' => Flattening)
        /\ bracket'.step = "flattened" => SizesOf(positions)[bracket.req.user] = 0
    BY <1>t, <1>2, AnswerKinds
  <2>2. UNCHANGED <<positions, orders, dormant, nextId, pc, taker>>
    BY <2>1 DEF tvars, vars
  <2>3. LegsOK'
    BY <1>t, <2>1, <2>2 DEF LegsOK, Live
  <2> QED BY <2>1, <2>2, <2>3, <1>s
<1>r. ASSUME NEW step \in {"takeProfit", "flatten"}, bracket' = Running(step),
             bracket.step # "none", bracket.filled > 0
      PROVE  /\ bracket'.step = step /\ bracket'.req = bracket.req
             /\ bracket'.filled = bracket.filled /\ bracket'.legs = bracket.legs
  <2>1. step \in Steps \ {"none"}
    BY DEF Steps
  <2> QED BY <2>1, <1>r, <1>t, RunningShape
<1>3. CASE TakeProfit
  <2>1. KindsOK'
    BY <1>t, <1>3, TakeProfitKinds
  <2>2. /\ bracket.step # "none" /\ bracket.filled > 0 /\ bracket' = Running("takeProfit")
        /\ positions' = positions /\ orders' = orders /\ \E req : Submit(req)
    BY <1>3 DEF TakeProfit, Awaited, Submit
  <2>3. /\ bracket'.step = "takeProfit" /\ bracket'.req = bracket.req
        /\ bracket'.filled = bracket.filled /\ bracket'.legs = bracket.legs
    BY <2>2, <1>r
  <2>4. LegsOK'
    BY <1>t, <2>2, <2>3, SubmitLegs DEF Flattening
  <2> QED BY <2>1, <2>2, <2>3, <2>4, <1>s
<1>4. CASE StopLoss
  <2>1. KindsOK'
    BY <1>t, <1>4, StopLossKinds
  <2>2. /\ bracket.step = "takeProfit" /\ positions' = positions /\ orders' = orders
        /\ nextId \in Nat
        /\ bracket' = [Running("stopLoss") EXCEPT !.legs = @ \cup {nextId}]
    BY <1>4, <1>t DEF StopLoss, Awaited, PlaceConditional, TInv, PInv, Settings
  <2>3. bracket.step # "none" /\ bracket.filled > 0
    BY <2>2, <1>t DEF ShapeOK
  <2>4. /\ bracket'.step = "stopLoss" /\ bracket'.req = bracket.req
        /\ bracket'.filled = bracket.filled
    BY <1>t, <2>2, <2>3, StopShape
  <2>5. LegsOK'
    BY <1>t, <1>4, StopLegs
  <2> QED BY <2>1, <2>2, <2>3, <2>4, <2>5, <1>s
<1>5. CASE Flatten
  <2>1. KindsOK'
    BY <1>t, <1>5, FlattenKinds
  <2>2. bracket.step = "stopLoss" /\ bracket' = Running("flatten")
    BY <1>5 DEF Flatten, Awaited
  <2>3. bracket.step # "none" /\ bracket.filled > 0
    BY <2>2, <1>t DEF ShapeOK
  <2>4. positions' = positions /\ orders' = Without(orders, Dropped)
    BY <1>t, <1>5, FlattenInv
  <2>5. LegsOK'
    BY <1>t, <1>5, FlattenLegs
  <2>6. /\ bracket'.step = "flatten" /\ bracket'.req = bracket.req
        /\ bracket'.filled = bracket.filled
    BY <2>2, <2>3, <1>r
  <2> QED BY <2>1, <2>3, <2>4, <2>5, <2>6, <1>s
<1>6. CASE Traffic
  <2>1. KindsOK' /\ PositionOK'
    BY <1>t, <1>6, TrafficKinds, TrafficPosition
  <2>2. LegsOK'
    BY <1>t, <1>6, TrafficLegs
  <2>3. OpenOK'
    BY <1>t, <1>6, OpenNext DEF Traffic
  <2> QED BY <2>1, <2>2, <2>3, <1>0 DEF AloneInv
<1>7. CASE UNCHANGED bvars
  <2>1. KindsOK' /\ PositionOK'
    BY <1>t, <1>7 DEF KindsOK, Kinds, Flying, Allowed, Entering, PositionOK,
                      SizesOf, bvars, tvars, vars
  <2>2. LegsOK' /\ OpenOK'
    BY <1>t, <1>7 DEF LegsOK, OpenOK, Live, Flattening, bvars, tvars, vars
  <2> QED BY <2>1, <2>2, <1>0 DEF AloneInv
<1> QED BY <1>1, <1>2, <1>3, <1>4, <1>5, <1>6, <1>7 DEF BNext

LEMMA AloneInit ==
  ASSUME Alone, BInit
  PROVE  AloneInv
<1>1. TInit /\ bracket = NoBracket
  BY DEF BInit
<1>2. BInv
  BY BracketInit
<1>3. bracket.step = "none" /\ ~bracket.running /\ bracket.legs = {}
  BY <1>1 DEF NoBracket
<1>4. /\ DOMAIN orders = {} /\ DOMAIN dormant = {} /\ due = <<>> /\ pc = "idle"
      /\ \E s \in Starts : positions = s.positions
  BY <1>1 DEF TInit, Init
<1>5. KindsOK
  BY <1>3, <1>4 DEF KindsOK, Kinds
<1>6. PositionOK
  BY <1>3, <1>4, BracketAssumption DEF PositionOK, Alone, SizesOf
<1>7. LegsOK /\ OpenOK
  BY <1>3, <1>4 DEF LegsOK, OpenOK, Flattening
<1> QED BY <1>2, <1>5, <1>6, <1>7 DEF AloneInv

\* A trader without a position has no order left that is to reduce it.
LEMMA NothingToReduce ==
  ASSUME PInv, BudgetOK, NEW u \in Users, SizesOf(positions)[u] = 0,
         NEW id \in DOMAIN orders, orders[id].user = u, orders[id].reduceOnly
  PROVE  Rem(orders[id]) = 0
<1>l. PICK live : live = LiveOrders
  OBVIOUS
<1>1. id \in DOMAIN live /\ live[id] = orders[id]
  <2>1. pc = "match" => taker.id \notin DOMAIN orders
    BY DEF PInv, TakerSound
  <2> QED BY <2>1, <1>l DEF LiveOrders, WithOrder
<1>2. Resting(live) /\ Budget(live, 0, u)
  BY <1>l, LiveResting DEF BudgetOK, Budgets
<1>3. ToReduce(live, u)[id] = Rem(orders[id])
  BY <1>1 DEF ToReduce
<1>4. /\ Rem(orders[id]) \in Nat /\ ToReduceAll(live, u) \in Nat
      /\ Rem(orders[id]) <= ToReduceAll(live, u)
  BY <1>1, <1>2, <1>3, ToReduceFacts
<1>5. ToReduceAll(live, u) <= 0
  BY <1>2 DEF Budget, AbsBig
<1> QED BY <1>4, <1>5

\* A trader whose orders are the bracket's alone, amended or not, has at any
\* moment a position between nothing and what the entry filled, whatever fills,
\* triggers or is liquidated between the route's commands; when the route says
\* that the bracket failed, neither order that it placed is live and no stop
\* waits, and when it says that the position was flattened no order of the group
\* is left (orders.ts:240-283).
THEOREM BracketsContained ==
  ASSUME Alone
  PROVE  BSpec => []BracketContained
<1>1. AloneInv => BracketContained
  <2> SUFFICES ASSUME AloneInv, bracket.req # NoOrder
               PROVE  /\ SizesOf(positions)[bracket.req.user] * Dir(bracket.req.side)
                           \in 0..bracket.filled
                      /\ bracket.step \in {"flattened", "exposed"} =>
                           bracket.legs \cap Live = {} /\ DormantLegs = {}
                      /\ bracket.step = "flattened" => Legs = {}
    BY DEF BracketContained
  <2>t. /\ ShapeOK /\ KindsOK /\ PositionOK /\ LegsOK /\ OpenOK
        /\ TInv /\ BudgetOK /\ PInv
    BY DEF AloneInv, BInv, TInv
  <2>1. bracket.step # "none" /\ bracket.req \in Brackets /\ bracket.req.user \in Users
    BY <2>t, BracketAssumption DEF ShapeOK
  <2>2. SizesOf(positions)[bracket.req.user] * Dir(bracket.req.side) \in 0..bracket.filled
    BY <2>t, <2>1 DEF PositionOK
  <2>3. ASSUME bracket.step \in {"flattened", "exposed"}
        PROVE  bracket.legs \cap Live = {} /\ DormantLegs = {}
    <3>1. bracket.legs \cap Live = {}
      BY <2>3, <2>t DEF LegsOK, Flattening
    <3>2. \A id \in DOMAIN dormant : dormant[id].user # bracket.req.user
      BY <2>1, <2>t, <3>1 DEF LegsOK, Live
    <3> QED BY <3>1, <3>2 DEF DormantLegs, Key
  <2>4. ASSUME bracket.step = "flattened", NEW id \in Legs
        PROVE  FALSE
    <3>1. id \in DOMAIN orders /\ orders[id].user = bracket.req.user
      BY DEF Legs, Key
    <3>2. Body(orders[id]) \in ExitsOnly(bracket.req)
      BY <2>1, <2>t, <3>1 DEF KindsOK, Kinds, Allowed
    <3>3. orders[id].reduceOnly
      BY <3>1, <3>2 DEF ExitsOnly, Body
    <3>4. SizesOf(positions)[bracket.req.user] = 0
      BY <2>4, <2>1, <2>t DEF PositionOK
    <3> QED BY <2>1, <2>t, <3>1, <3>3, <3>4, NothingToReduce DEF OpenOK
  <2> QED BY <2>2, <2>3, <2>4
<1>2. BInit => AloneInv
  BY AloneInit
<1>3. AloneInv /\ [BNext]_bvars => AloneInv'
  BY AloneNext
<1> QED BY <1>1, <1>2, <1>3, PTL DEF BSpec
=============================================================================
