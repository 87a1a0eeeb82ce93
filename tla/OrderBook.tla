----------------------------- MODULE OrderBook ------------------------------
(***************************************************************************)
(* The price-time book of packages/engine/src/orderbook.ts: one queue of   *)
(* order ids per side, best price first and oldest first at one price,     *)
(* over a function `live` from ids to orders.  The code keeps price levels *)
(* each with a FIFO of orders; a queue is their concatenation.             *)
(***************************************************************************)
EXTENDS FixedPoint, SequencesExt

CONSTANTS TickSize, LotSize, MinNotional  \* the market's configuration

ASSUME MarketAssumption ==
  TickSize \in Nat \ {0} /\ LotSize \in Nat \ {0} /\ MinNotional \in Nat

Sides == {"buy", "sell"}
Opposite(side) == IF side = "buy" THEN "sell" ELSE "buy"

Rem(o) == o.qty - o.filled

\* Is price p strictly nearer the front of `side` than price q?
Better(side, p, q) == IF side = "buy" THEN p > q ELSE p < q

InBound_strict(side, p, bound) ==
  IF side = "buy" THEN p < bound ELSE p > bound

\* May a taker on `side` with the worst acceptable price `bound` trade at p?
InBound(side, p, bound) == IF side = "buy" THEN p <= bound ELSE p >= bound

InsertPosition_aheadOfLevel(side, o, live, ids, k) ==
  /\ \A i \in 1..k : Better(side, live[ids[i]].price, o.price)
  /\ \A i \in k + 1..Len(ids) : ~Better(side, live[ids[i]].price, o.price)

\* Behind every order at a price at least as good, before every worse one.
InsertPosition(side, o, live, ids, k) ==
  /\ \A i \in 1..k : ~Better(side, o.price, live[ids[i]].price)
  /\ \A i \in k + 1..Len(ids) : Better(side, o.price, live[ids[i]].price)

\* The numbers of a finite set, smallest first: the i-th has i - 1 before it.
Ascending(S) ==
  [i \in 1..Cardinality(S) |->
     CHOOSE n \in S : Cardinality({m \in S : m < n}) = i - 1]

\* A queue without the orders that left it.
Remaining(ids, gone) ==
  LET kept == Ascending({i \in DOMAIN ids : ids[i] \notin gone})
  IN  [k \in DOMAIN kept |-> ids[kept[k]]]

IndexOf(ids, id) == CHOOSE i \in DOMAIN ids : ids[i] = id
WithoutId(ids, id) == RemoveAt(ids, IndexOf(ids, id))

WithOrder(live, o) ==
  [id \in DOMAIN live \cup {o.id} |-> IF id = o.id THEN o ELSE live[id]]

\* Would an order on `side` bounded by `price` take liquidity now?
Crosses(side, price, live, queues) ==
  LET opp == queues[Opposite(side)]
  IN  opp # <<>> /\ InBound(side, live[Head(opp)].price, price)

ValidSize(price, qty) ==
  /\ price > 0 /\ price % TickSize = 0
  /\ qty > 0 /\ qty % LotSize = 0
  /\ MulUnits(price, qty) >= MinNotional

-----------------------------------------------------------------------------
(* restoreState's book: each live order put into an empty book, oldest     *)
(* first.                                                                  *)

Reinsert(side, live, ids, id) ==
  LET k == CHOOSE j \in 0..Len(ids) :
             InsertPosition(side, live[id], live, ids, j)
  IN  InsertAt(ids, k + 1, id)

BookOf(live) ==
  [side \in Sides |->
     LET ids == Ascending({id \in DOMAIN live : live[id].side = side})
         queue[k \in 0..Len(ids)] ==
           IF k = 0 THEN <<>> ELSE Reinsert(side, live, queue[k - 1], ids[k])
     IN  queue[Len(ids)]]

-----------------------------------------------------------------------------

\* A better price first, the earlier order first at one price.
PriceTime(side, ids, live) ==
  \A i, j \in DOMAIN ids : i < j =>
    \/ Better(side, live[ids[i]].price, live[ids[j]].price)
    \/ live[ids[i]].price = live[ids[j]].price /\ ids[i] < ids[j]

=============================================================================
