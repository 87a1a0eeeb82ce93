---------------------------- MODULE PerpExchange ----------------------------
(***************************************************************************)
(* The perpetual-futures half of packages/engine/src/exchange.ts on one    *)
(* market: submitOrder, matchOrder, settlePerpSide, trimReduceOnly,        *)
(* simulateFillable, cancelOrder, amendOrder, setLeverage, setMarkPrice,   *)
(* applyFunding, liquidationSweep and adlClawback, with the isolated       *)
(* margin of perp.ts.  All balances are in the quote asset.                *)
(*                                                                         *)
(* As in SpotExchange a handler is modelled by the steps of its loops: one *)
(* maker per step of matchOrder, one position per step of the liquidation  *)
(* sweep.  `pc` says where the handler is; other operations wait for       *)
(* "idle".  Client order ids are in SpotExchange, conditional orders in    *)
(* Triggers.                                                               *)
(***************************************************************************)
EXTENDS OrderBook

CONSTANTS Users,                    \* numbers: positions are swept in id order
          FEE, CLEARING, NoOrder,
          NoGroup,                  \* ocoGroup = null
          MakerFeeBps, TakerFeeBps, MaxLeverage,
          Tiers,                    \* MM_TIERS: <<[upTo, rate], ...>>
          TopRate,                  \* MM_TIER_TOP
          AdlModes,                 \* how the engine may be configured
          Requests, Amendments, Marks, Rates, Leverages, Transfers,
          Starts,                   \* what earlier operations left
          Groups,                   \* OCO labels
          MaxOrders, MaxMarks, MaxFundings, MaxSupply  \* bounds of the model

Accounts == Users \cup {FEE, CLEARING}

ASSUME PerpAssumption ==
  /\ Users \subseteq Nat /\ IsFiniteSet(Users) /\ FEE \notin Users /\ CLEARING \notin Users
  /\ FEE # CLEARING /\ NoGroup \notin Groups
  /\ MakerFeeBps \in 0..BPS /\ TakerFeeBps \in 0..BPS
  /\ MakerFeeBps <= TakerFeeBps
  /\ MaxLeverage \in Nat \ {0} /\ Leverages \subseteq 1..MaxLeverage
  /\ Marks \subseteq Nat \ {0} /\ Rates \subseteq Int
  /\ AdlModes \subseteq BOOLEAN
  /\ \A r \in Requests :
       /\ r.user \in Users /\ r.side \in Sides
       /\ r.type \in {"limit", "market"} /\ r.tif \in {"GTC", "IOC", "FOK"}
       /\ r.price \in Nat /\ r.qty \in Nat
       /\ r.postOnly \in BOOLEAN /\ r.reduceOnly \in BOOLEAN
       /\ r.oco \in Groups \cup {NoGroup}
  /\ \A a \in Amendments : a.price \in Nat /\ a.qty \in Nat
  /\ \A t \in Transfers : t.user \in Users /\ t.amount \in Nat \ {0}
  /\ \A s \in Starts :
       /\ s.available \in [Accounts -> Nat] /\ s.leverages \in [Users -> 1..MaxLeverage]
       /\ DOMAIN s.positions \subseteq Users
       /\ s.positions = [u \in DOMAIN s.positions |-> s.positions[u]]
       /\ \A u \in DOMAIN s.positions :
            s.positions[u] \in [size : Int \ {0}, entry : Nat \ {0}, margin : Nat,
                               leverage : {s.leverages[u]}]

VARIABLES
  available, locked,  \* the ledger: account -> units
  positions,          \* holder -> [size, entry, margin, leverage]
  leverages,          \* user -> the leverage setting
  orders, book, nextId,
  mark,               \* the mark price, 0 before the first
  adl,                \* adlEnabled
  pc,                 \* "idle", "submit", "match" or "sweep"
  taker, pending,     \* as in SpotExchange
  sweep,              \* the positions the liquidation sweep has yet to visit
  marks, fundings,    \* how often the mark was set and funding applied (bounded)
  supply,             \* history: everything deposited, less what was withdrawn
  phantom             \* history: margin paid out to positions already closed

vars == <<available, locked, positions, leverages, orders, book, nextId, mark,
          adl, pc, taker, pending, sweep, marks, fundings, supply, phantom>>
ledger == <<available, locked>>
settings == <<leverages, mark, adl, marks, fundings>>
history == <<supply, phantom>>

Credit(rows, account, n) == [rows EXCEPT ![account] = @ + n]

-----------------------------------------------------------------------------
(* Positions and margin.                                                   *)

Dir(side) == IF side = "buy" THEN 1 ELSE -1

SizesOf(held) ==
  [u \in Users |-> IF u \in DOMAIN held THEN held[u].size ELSE 0]

\* How much of a position an order on `side` could close.
Closable(size, side) == IF SignBig(size) = -Dir(side) THEN AbsBig(size) ELSE 0

UnrealizedPnl(p, m) ==
  IF p.size > 0 THEN MulUnits(m - p.entry, p.size)
                ELSE MulUnits(p.entry - m, -p.size)

TierRate(notional) ==
  LET fits == {i \in DOMAIN Tiers : notional <= Tiers[i].upTo}
  IN  IF fits = {} THEN TopRate
      ELSE Tiers[CHOOSE i \in fits : \A j \in fits : i <= j].rate

MaintenanceMargin(p, m) ==
  LET notional == MulUnits(m, AbsBig(p.size))
      base == DivCeil(notional, 2 * MaxLeverage)
  IN  MaxBig(base, DivCeil(notional * TierRate(notional), SCALE))
Healthy(p, m) == p.margin + UnrealizedPnl(p, m) >= MaintenanceMargin(p, m)

VwapEntry(oldEntry, oldAbs, p, q) ==
  DivHalfUp(oldEntry * oldAbs + p * q, oldAbs + q)

Margins(held) == SumFunction([u \in DOMAIN held |-> held[u].margin])

Without(f, xs) == [x \in DOMAIN f \ xs |-> f[x]]
Having(f, x, v) == [y \in DOMAIN f \cup {x} |-> IF y = x THEN v ELSE f[y]]

-----------------------------------------------------------------------------
(* Orders.                                                                 *)

LockFor(o) ==
  IF o.reduceOnly THEN 0
  ELSE PerpLock(o.price, Rem(o), o.leverage, TakerFeeBps)

AfterFill(o, q) ==
  LET f == [o EXCEPT !.filled = @ + q] IN [f EXCEPT !.lock = LockFor(f)]

ReduceOnlyOf(live, u) ==
  {id \in DOMAIN live : live[id].user = u /\ live[id].reduceOnly}

\* What the orders `ids` have left to fill.
QtyOf(live, ids) == SumFunction([id \in ids |-> Rem(live[id])])

OpenReduceOnlyQty(u) == QtyOf(orders, ReduceOnlyOf(orders, u))

TrimmedOf_never(live, size, u, kept) == {}

\* One order of trimReduceOnly's loop: cancelled, or its quantity is used up.
TrimVisit(live, size, cap, acc, id) ==
  IF Closable(size, live[id].side) = 0 \/ acc.used + Rem(live[id]) > cap
  THEN [acc EXCEPT !.cut = @ \cup {id}]
  ELSE [acc EXCEPT !.used = @ + Rem(live[id])]

\* trimReduceOnly: which of u's reduce-only orders no longer fit a position of
\* this size, oldest first; `kept` is the maker of the fill, which stays and
\* uses up capacity.
TrimmedOf(live, size, u, kept) ==
  LET mine == ReduceOnlyOf(live, u)
      staying == {id \in mine \cap {kept} : Closable(size, live[id].side) > 0}
      cap == MaxBig(0, AbsBig(size) - QtyOf(live, staying))
      queue == Ascending(mine \ {kept})
      visit[i \in 0..Len(queue)] ==
        IF i = 0 THEN [used |-> 0, cut |-> {}]
        ELSE TrimVisit(live, size, cap, visit[i - 1], queue[i])
  IN  visit[Len(queue)].cut

\* How much one maker gives a taker that still needs `need`.
Offer(maker, need, sizes) ==
  LET q == MinBig(need, Rem(maker))
  IN  IF maker.reduceOnly THEN MinBig(q, Closable(sizes[maker.user], maker.side))
                          ELSE q

SimulateStep_withoutTrim(req, acc, id) ==
  IF ~InBound(req.side, orders[id].price, req.price)
     \/ acc.live[id].user = req.user
  THEN acc
  ELSE LET q == Offer(acc.live[id], acc.need, acc.sizes)
       IN  [acc EXCEPT !.need = @ - q, !.live[id].filled = @ + q]

\* One maker of simulateFillable's replay: own orders are skipped, a fill moves
\* both positions and trims both users' reduce-only orders.
SimulateStep(req, acc, id) ==
  IF \/ id \notin DOMAIN acc.live
     \/ ~InBound(req.side, orders[id].price, req.price)
  THEN acc
  ELSE LET maker == acc.live[id]
           q == Offer(maker, acc.need, acc.sizes)
           sizes == [acc.sizes EXCEPT ![maker.user] = @ + Dir(maker.side) * q,
                                      ![req.user] = @ + Dir(req.side) * q]
           live == [acc.live EXCEPT ![id].filled = @ + q]
           cut == TrimmedOf(live, sizes[maker.user], maker.user, id)
                    \cup TrimmedOf(live, sizes[req.user], req.user, id)
       IN  IF maker.user = req.user \/ q = 0
           THEN [acc EXCEPT !.live = IF acc.need = 0 THEN @ ELSE Without(@, {id})]
           ELSE [need |-> acc.need - q, sizes |-> sizes,
                 live |-> Without(live, cut)]

\* simulateFillable: how much of the request would really fill.
Fillable(req) ==
  req.qty - FoldLeft(LAMBDA acc, id : SimulateStep(req, acc, id),
                     [need |-> req.qty, sizes |-> SizesOf(positions),
                      live |-> orders],
                     book[Opposite(req.side)]).need

-----------------------------------------------------------------------------
(* settlePerpSide: a fill first closes what it can of the opposite         *)
(* position, then opens with the rest.                                     *)

\* Paying a shortfall: remaining margin, then wallet, then the fee is waived,
\* and the clearing account absorbs what is left.
CloseLeg(pos, side, p, c, bps, wallet) ==
  LET closed   == [pos EXCEPT !.size = SignBig(@) * c]
      released == (pos.margin * c) \div AbsBig(pos.size)
      realized == UnrealizedPnl(closed, p)
      fee == FeeOn(MulUnits(p, c), bps)
      pot == released + realized - fee
      owe == MaxBig(0, -pot)
      fromMargin == MinBig(owe, pos.margin - released)
      fromWallet == MinBig(owe - fromMargin, MaxBig(wallet, 0))
      waived == MinBig(owe - fromMargin - fromWallet, fee)
      unpaid == owe - fromMargin - fromWallet - waived
  IN  [pos |-> [pos EXCEPT !.size = @ + Dir(side) * c,
                           !.margin = @ - released - fromMargin],
       cash |-> MaxBig(pot, 0) - fromWallet,
       fee |-> fee - waived,
       clearing |-> -realized - unpaid]

OpenLeg_roundedUp(budget, leverage, p, q, bps) ==
  LET notional == MulUnits(p, q)
      fee == MinBig(FeeOn(notional, bps), budget)
      margin == MinBig(notional \div leverage, budget - fee)
  IN  [fee |-> fee, margin |-> margin,
       left |-> MaxBig(0, budget - fee - DivCeil(notional, leverage))]

\* The lock slice pays the fee first and then the margin.
OpenLeg(budget, leverage, p, q, bps) ==
  LET notional == MulUnits(p, q)
      fee == MinBig(FeeOn(notional, bps), budget)
      margin == MinBig(notional \div leverage, budget - fee)
  IN  [fee |-> fee, margin |-> margin, left |-> budget - fee - margin]

Opened(held, o, p, q, margin) ==
  LET pos == held[o.user] IN
  Having(held, o.user,
    IF o.user \in DOMAIN held
    THEN [pos EXCEPT !.size = @ + Dir(o.side) * q,
                     !.entry = VwapEntry(pos.entry, AbsBig(pos.size), p, q),
                     !.margin = @ + margin]
    ELSE [size |-> Dir(o.side) * q, entry |-> p, margin |-> margin,
          leverage |-> o.leverage])

AfterClose_keepsEmpty(held, u, pos) == Having(held, u, pos)

AfterClose(held, u, pos) ==
  IF pos.size = 0 THEN Without(held, {u}) ELSE Having(held, u, pos)

SettlePerpSide(e, o, p, q, bps) ==
  LET u == o.user
      budget == o.lock - AfterFill(o, q).lock
      c == MinBig(q, Closable(SizesOf(e.positions)[u], o.side))
      close == IF c = 0 THEN [cash |-> 0, fee |-> 0, clearing |-> 0]
               ELSE CloseLeg(e.positions[u], o.side, p, c, bps, e.available[u])
      kept == IF c = 0 THEN e.positions
                       ELSE AfterClose(e.positions, u, close.pos)
      open == IF c = q THEN [fee |-> 0, margin |-> 0, left |-> budget]
              ELSE OpenLeg(budget, o.leverage, p, q - c, bps)
  IN  [e EXCEPT
         !.available = Credit(Credit(Credit(@, u, open.left + close.cash),
                                     FEE, close.fee + open.fee),
                              CLEARING, close.clearing),
         !.locked = Credit(@, u, -budget),
         !.positions = IF c = q THEN kept
                       ELSE Opened(kept, o, p, q - c, open.margin)]

\* What u has locked in the orders `ids`.
LocksOf(live, ids, u) ==
  SumFunction([id \in {x \in ids : live[x].user = u} |-> live[id].lock])

\* Orders leave the book and give their locks back.
Cancelled(e, ids) ==
  [e EXCEPT
     !.available = [u \in Accounts |-> @[u] + LocksOf(e.orders, ids, u)],
     !.locked = [u \in Accounts |-> @[u] - LocksOf(e.orders, ids, u)],
     !.orders = Without(@, ids),
     !.book = [s \in Sides |-> Remaining(@[s], ids)]]

OrdersOf(e, u) == {id \in DOMAIN e.orders : e.orders[id].user = u}

Engine == [available |-> available, locked |-> locked, positions |-> positions,
           orders |-> orders, book |-> book]

Becomes(e) ==
  /\ available' = e.available /\ locked' = e.locked
  /\ positions' = e.positions /\ orders' = e.orders /\ book' = e.book

-----------------------------------------------------------------------------
(* submitOrder and matchOrder.                                             *)

OrderOf(req) ==
  LET o == [id |-> nextId, user |-> req.user, side |-> req.side,
            type |-> req.type, price |-> req.price, qty |-> req.qty,
            filled |-> 0, tif |-> req.tif, postOnly |-> req.postOnly,
            reduceOnly |-> req.reduceOnly, oco |-> req.oco,
            leverage |-> leverages[req.user], lock |-> 0]
  IN  [o EXCEPT !.lock = LockFor(o)]

FitsPosition(req) ==
  LET c == Closable(SizesOf(positions)[req.user], req.side)
  IN  c > 0 /\ req.qty + OpenReduceOnlyQty(req.user) <= c

Acceptable(req) ==
  /\ req.type = "market" => ~req.postOnly /\ req.tif # "GTC"
  /\ ValidSize(req.price, req.qty)
  /\ req.reduceOnly => FitsPosition(req)
  /\ available[req.user] >= OrderOf(req).lock
  /\ req.postOnly => ~Crosses(req.side, req.price, orders, book)
  /\ req.tif = "FOK" => Fillable(req) >= req.qty

\* What submitOrder is called with: a request that arrives, or the replacement
\* built by the amend (in Triggers, the activation built by the trigger) under
\* way.
Incoming == CASE pc = "idle"   -> Requests
              [] pc = "submit" -> {pending}
              [] OTHER         -> {}

Reject(req) ==
  /\ ~Acceptable(req)
  /\ pc' = "idle" /\ pending' = NoOrder
  /\ UNCHANGED <<ledger, positions, orders, book, nextId, taker, sweep,
                 settings, history>>

Accept(req) ==
  LET o == OrderOf(req) IN
  /\ Acceptable(req) /\ nextId <= MaxOrders
  /\ nextId' = nextId + 1
  /\ taker' = o
  /\ available' = Credit(available, o.user, -o.lock)
  /\ locked' = Credit(locked, o.user, o.lock)
  /\ pc' = "match" /\ pending' = NoOrder
  /\ UNCHANGED <<positions, orders, book, sweep, settings, history>>

SubmitOrder == \E req \in Incoming : Reject(req) \/ Accept(req)

BestMaker == orders[Head(book[Opposite(taker.side)])]

\* The condition of matchOrder's loop.
CanMatch ==
  /\ pc = "match"
  /\ Rem(taker) > 0
  /\ book[Opposite(taker.side)] # <<>>
  /\ InBound(taker.side, BestMaker.price, taker.price)

MakerClosable == Closable(SizesOf(positions)[BestMaker.user], BestMaker.side)
SelfTrade == BestMaker.user = taker.user
Stranded == BestMaker.reduceOnly /\ MakerClosable = 0

\* The maker is the taker's own, or (exchange.ts:677, "should be a no-op") a
\* reduce-only order with nothing to reduce.
CancelMaker ==
  /\ CanMatch
  /\ SelfTrade \/ Stranded
  /\ Becomes(Cancelled(Engine, {BestMaker.id}))
  /\ UNCHANGED <<nextId, pc, taker, pending, sweep, settings, history>>

FillQty == Offer(BestMaker, Rem(taker), SizesOf(positions))

\* Both sides settle, maker first; a filled maker leaves the book, and both
\* traders' reduce-only orders are trimmed to their new positions.
ExecuteFill ==
  LET p == BestMaker.price
      q == FillQty
      maker == AfterFill(BestMaker, q)
      first == SettlePerpSide(Engine, BestMaker, p, q, MakerFeeBps)
      second == SettlePerpSide(first, taker, p, q, TakerFeeBps)
      filled == [second EXCEPT !.orders[maker.id] = maker]
      Trimmed(u) ==
        TrimmedOf(filled.orders, SizesOf(filled.positions)[u], u, maker.id)
      gone == Trimmed(maker.user) \cup Trimmed(taker.user)
                \cup IF Rem(maker) = 0 THEN {maker.id} ELSE {}
  IN  /\ CanMatch /\ ~SelfTrade /\ ~Stranded
      /\ Becomes(Cancelled(filled, gone))
      /\ taker' = AfterFill(taker, q)
      /\ UNCHANGED <<nextId, pc, pending, sweep, settings, history>>

MatchOrder == CancelMaker \/ ExecuteFill

Rests(o) == o.type = "limit" /\ o.tif # "IOC"

FinishFilled ==
  /\ Rem(taker) = 0
  /\ UNCHANGED <<ledger, orders, book>>

\* The remainder of a market or IOC order is cancelled.
FinishCancelled ==
  /\ Rem(taker) > 0 /\ ~Rests(taker)
  /\ available' = Credit(available, taker.user, taker.lock)
  /\ locked' = Credit(locked, taker.user, -taker.lock)
  /\ UNCHANGED <<orders, book>>

FinishResting ==
  /\ Rem(taker) > 0 /\ Rests(taker)
  /\ orders' = WithOrder(orders, taker)
  /\ book' = [book EXCEPT ![taker.side] =
                Reinsert(taker.side, WithOrder(orders, taker), @, taker.id)]
  /\ UNCHANGED ledger

FinishSubmit ==
  /\ pc = "match" /\ ~CanMatch
  /\ FinishFilled \/ FinishCancelled \/ FinishResting
  /\ pc' = "idle" /\ taker' = NoOrder
  /\ UNCHANGED <<positions, nextId, pending, sweep, settings, history>>

-----------------------------------------------------------------------------
(* cancelOrder, amendOrder, setLeverage, deposit, withdraw.                *)

CancelOrder(id) ==
  /\ pc = "idle"
  /\ Becomes(Cancelled(Engine, {id}))
  /\ UNCHANGED <<nextId, pc, taker, pending, sweep, settings, history>>

Replacement(o, ch) ==
  [user |-> o.user, side |-> o.side, type |-> "limit", price |-> ch.price,
   qty |-> ch.qty, tif |-> "GTC", postOnly |-> FALSE,
   reduceOnly |-> o.reduceOnly, oco |-> o.oco]

\* Pre-validated except for the reduce-only rule, cancelled, submitted anew.
AmendOrder(id, ch) ==
  LET o == orders[id]
      req == Replacement(o, ch)
  IN  /\ pc = "idle" /\ nextId <= MaxOrders
      /\ o.type = "limit" /\ o.tif = "GTC" /\ ~o.postOnly
      /\ ValidSize(ch.price, ch.qty)
      /\ available[o.user] + o.lock >= OrderOf(req).lock
      /\ Becomes(Cancelled(Engine, {id}))
      /\ pc' = "submit" /\ pending' = req
      /\ UNCHANGED <<nextId, taker, sweep, settings, history>>

LeverageFree(u) == u \notin DOMAIN positions /\ OrdersOf(Engine, u) = {}

SetLeverage(u, l) ==
  /\ pc = "idle" /\ LeverageFree(u)
  /\ leverages' = [leverages EXCEPT ![u] = l]
  /\ UNCHANGED <<ledger, positions, orders, book, nextId, mark, adl, pc, taker,
                 pending, sweep, marks, fundings, history>>

Deposit(t) ==
  /\ pc = "idle" /\ supply + t.amount <= MaxSupply
  /\ available' = Credit(available, t.user, t.amount)
  /\ supply' = supply + t.amount
  /\ UNCHANGED <<locked, positions, orders, book, nextId, pc, taker, pending,
                 sweep, settings, phantom>>

Withdraw(t) ==
  /\ pc = "idle" /\ available[t.user] >= t.amount
  /\ available' = Credit(available, t.user, -t.amount)
  /\ supply' = supply - t.amount
  /\ UNCHANGED <<locked, positions, orders, book, nextId, pc, taker, pending,
                 sweep, settings, phantom>>

-----------------------------------------------------------------------------
(* setMarkPrice, applyFunding and the liquidation sweep both end in.       *)

\* ofMarket: the holders in user id order.
Holders(held) == Ascending(DOMAIN held)

\* liquidationSweep iterates over the list it takes here; a position closed by
\* auto-deleveraging on the way stays in it.
BeginSweep(held) ==
  /\ pc' = "sweep"
  /\ sweep' = [i \in DOMAIN Holders(held) |->
                 [user |-> Holders(held)[i], pos |-> held[Holders(held)[i]]]]

\* A winner closed at the mark, its profit cut by what is left of the debt.
Haircut(m, acc, u) == MinBig(acc.rest, UnrealizedPnl(acc.e.positions[u], m))

ClosedWinner(m, acc, u) ==
  LET p == acc.e.positions[u]
      realized == UnrealizedPnl(p, m)
  IN  [acc.e EXCEPT
         !.positions = Without(@, {u}),
         !.available = Credit(Credit(@, CLEARING, -realized),
                              u, p.margin + realized - Haircut(m, acc, u))]

\* One winner, as long as there is debt: closed, then its orders cancelled.
Deleverage(m, acc, u) ==
  LET closed == ClosedWinner(m, acc, u) IN
  IF acc.rest = 0 THEN acc
  ELSE [e |-> Cancelled(closed, OrdersOf(closed, u)),
        rest |-> acc.rest - Haircut(m, acc, u)]

\* The positions in profit, most profitable and leveraged first, ties in user
\* id order.
WinnersOf(m, e) ==
  {u \in DOMAIN e.positions : UnrealizedPnl(e.positions[u], m) > 0}
Score(m, p) == UnrealizedPnl(p, m) * p.leverage
Outranks(m, held, u, v) ==
  \/ Score(m, held[u]) > Score(m, held[v])
  \/ Score(m, held[u]) = Score(m, held[v]) /\ u < v
Ranking(m, e) ==
  LET winners == WinnersOf(m, e) IN
  [i \in 1..Cardinality(winners) |->
     CHOOSE u \in winners :
       Cardinality({v \in winners : Outranks(m, e.positions, v, u)}) = i - 1]

\* adlClawback, winner by winner: the engine and the debt left after each.
Clawed(m, e, rest) ==
  LET ranking == Ranking(m, e)
      clawed[i \in 0..Len(ranking)] ==
        IF i = 0 THEN [e |-> e, rest |-> rest]
        ELSE Deleverage(m, clawed[i - 1], ranking[i])
  IN  clawed

AdlClawback(m, e, rest) == Clawed(m, e, rest)[Len(Ranking(m, e))]

Deficit(p) == MaxBig(0, -(p.margin + UnrealizedPnl(p, mark)))
FeeCover(p) == MinBig(Deficit(p), MaxBig(0, available[FEE]))

\* Force-close at the mark; the fee account covers what it can of bad debt.
ForceClosed(u, p) ==
  LET realized == UnrealizedPnl(p, mark) IN
  [Engine EXCEPT
     !.positions = Without(@, {u}),
     !.available = Credit(Credit(Credit(@, CLEARING, -realized),
                                 u, MaxBig(0, p.margin + realized)),
                          FEE, -FeeCover(p))]

Visited == Head(sweep)

PassHealthy ==
  /\ pc = "sweep" /\ sweep # <<>> /\ Healthy(Visited.pos, mark)
  /\ sweep' = Tail(sweep)
  /\ UNCHANGED <<ledger, positions, orders, book, nextId, pc, taker, pending,
                 settings, history>>

\* Bad debt falls on the fee account, then on the winners, and the clearing
\* account absorbs the rest; the trader's orders are cancelled.
Liquidate ==
  LET u == Visited.user
      p == Visited.pos
      debt == Deficit(p) - FeeCover(p)
      clawed == IF adl THEN AdlClawback(mark, ForceClosed(u, p), debt)
                       ELSE [e |-> ForceClosed(u, p), rest |-> debt]
      paid == [clawed.e EXCEPT !.available = Credit(@, CLEARING, -clawed.rest)]
  IN  /\ pc = "sweep" /\ sweep # <<>> /\ ~Healthy(p, mark)
      /\ Becomes(Cancelled(paid, OrdersOf(paid, u)))
      /\ sweep' = Tail(sweep)
      /\ phantom' = phantom + IF u \in DOMAIN positions THEN 0 ELSE p.margin
      /\ UNCHANGED <<nextId, pc, taker, pending, settings, supply>>

FinishSweep ==
  /\ pc = "sweep" /\ sweep = <<>>
  /\ pc' = "idle"
  /\ UNCHANGED <<ledger, positions, orders, book, nextId, taker, pending, sweep,
                 settings, history>>

LiquidationSweep == PassHealthy \/ Liquidate \/ FinishSweep

SetMarkPrice(m) ==
  /\ pc = "idle" /\ marks < MaxMarks
  /\ mark' = m /\ marks' = marks + 1
  /\ BeginSweep(positions)
  /\ UNCHANGED <<ledger, positions, leverages, orders, book, nextId, adl, taker,
                 pending, fundings, history>>

Payment_unclamped(p, rate) == -MulUnits(MulUnits(p.size, mark), rate)

\* A payer pays from the position's margin and no more than it holds.
Payment(p, rate) ==
  MaxBig(-MulUnits(MulUnits(p.size, mark), rate), -p.margin)

Residual_neverOwed(total) == MaxBig(-total, 0)

\* What the fee account takes (or, as far as it can, gives) to net the payments.
Residual(total) == MaxBig(-total, -MaxBig(0, available[FEE]))

\* Receivers are credited in their wallets; the fee account takes what the two
\* sides differ by, as far as it can.
ApplyFunding(rate) ==
  LET Pay(u) == Payment(positions[u], rate)
      total == SumFunction([u \in DOMAIN positions |-> Pay(u)])
      residual == Residual(total)
      paid == [u \in Accounts |-> available[u] +
                 IF u \in DOMAIN positions THEN MaxBig(0, Pay(u)) ELSE 0]
      held == [u \in DOMAIN positions |->
                 [positions[u] EXCEPT !.margin = @ + MinBig(0, Pay(u))]]
  IN  /\ pc = "idle" /\ fundings < MaxFundings
      /\ DOMAIN positions # {} /\ mark # 0
      /\ available' = Credit(Credit(paid, FEE, residual), CLEARING, -total - residual)
      /\ positions' = held
      /\ fundings' = fundings + 1
      /\ BeginSweep(held)
      /\ UNCHANGED <<locked, leverages, orders, book, nextId, mark, adl, taker,
                     pending, marks, history>>

-----------------------------------------------------------------------------

Init ==
  /\ \E s \in Starts :
       /\ available = s.available /\ positions = s.positions
       /\ leverages = s.leverages
       /\ supply = SumFunction(s.available) + Margins(s.positions)
  /\ locked = [u \in Accounts |-> 0]
  /\ orders = [id \in {} |-> NoOrder]
  /\ book = [s \in Sides |-> <<>>]
  /\ nextId = 1 /\ mark = 0 /\ adl \in AdlModes
  /\ pc = "idle" /\ taker = NoOrder /\ pending = NoOrder /\ sweep = <<>>
  /\ marks = 0 /\ fundings = 0 /\ phantom = 0

Next ==
  \/ SubmitOrder
  \/ MatchOrder
  \/ FinishSubmit
  \/ \E id \in DOMAIN orders : CancelOrder(id)
  \/ \E id \in DOMAIN orders, ch \in Amendments : AmendOrder(id, ch)
  \/ \E u \in Users, l \in Leverages : SetLeverage(u, l)
  \/ \E m \in Marks : SetMarkPrice(m)
  \/ \E r \in Rates : ApplyFunding(r)
  \/ LiquidationSweep
  \/ \E t \in Transfers : Deposit(t) \/ Withdraw(t)

Spec == Init /\ [][Next]_vars

-----------------------------------------------------------------------------
(* Properties.                                                             *)

Position ==
  [size : Int \ {0}, entry : Nat \ {0}, margin : Int, leverage : 1..MaxLeverage]

Order ==
  [id : Nat \ {0}, user : Users, side : Sides, type : {"limit", "market"},
   price : Nat, qty : Nat, filled : Nat, tif : {"GTC", "IOC", "FOK"},
   postOnly : BOOLEAN, reduceOnly : BOOLEAN,
   oco : Groups \cup {NoGroup}, leverage : 1..MaxLeverage, lock : Int]

\* The shape of the engine's state; no position of size zero is kept.
TypeOK ==
  /\ available \in [Accounts -> Int] /\ locked \in [Accounts -> Int]
  /\ DOMAIN positions \subseteq Users
  /\ \A u \in DOMAIN positions : positions[u] \in Position
  /\ leverages \in [Users -> 1..MaxLeverage]
  /\ \A id \in DOMAIN orders : orders[id] \in Order /\ orders[id].id = id
  /\ book \in [Sides -> Seq(DOMAIN orders)]
  /\ nextId \in Nat \ {0} /\ mark \in Marks \cup {0} /\ adl \in BOOLEAN
  /\ pc \in {"idle", "submit", "match", "sweep"}
  /\ IF pc = "match" THEN taker \in Order ELSE taker = NoOrder
  /\ \A i \in DOMAIN sweep : sweep[i].user \in Users /\ sweep[i].pos \in Position

\* The live orders, the one in flight included.
LiveOrders == IF pc = "match" THEN WithOrder(orders, taker) ELSE orders

Equity(p, m) == p.margin + UnrealizedPnl(p, m)

Holdings ==
  SumFunction([u \in Accounts |-> available[u] + locked[u]]) + Margins(positions)

\* Money is conserved exactly through fills, shortfalls, liquidations,
\* deleveraging and funding, mid-handler too, except that the sweep pays the
\* margin of a position that deleveraging already closed a second time.
PerpConservation == Holdings = supply + phantom

\* What adlClawback's comment says, "Conservation is exact" (exchange.ts:1327).
ConservationIsExact == Holdings = supply

\* Nobody but the house clearing account goes negative, no position's margin
\* does, and every locked unit backs a live order: no ledger check can throw.
Solvent ==
  /\ \A u \in Accounts \ {CLEARING} : available[u] >= 0
  /\ \A u \in DOMAIN positions : positions[u].margin >= 0
  /\ \A u \in Accounts : locked[u] = LocksOf(LiveOrders, DOMAIN LiveOrders, u)
  /\ \A id \in DOMAIN LiveOrders : LiveOrders[id].lock >= 0

\* A trader's reduce-only orders, the one in flight included, are all on the
\* closing side and together never exceed the position: trimReduceOnly keeps
\* what makes matchOrder's guard a no-op (exchange.ts:677).
ReduceOnlyBudget ==
  \A u \in Users :
    LET mine == {id \in ReduceOnlyOf(LiveOrders, u) : Rem(LiveOrders[id]) > 0}
        size == SizesOf(positions)[u]
    IN  /\ \A id \in mine : SignBig(size) = -Dir(LiveOrders[id].side)
        /\ QtyOf(LiveOrders, mine) <= AbsBig(size)

\* An accepted fill-or-kill order fills completely, although its own fills trim
\* the makers it was counting on.
FokFillsCompletely ==
  pc = "match" /\ taker.tif = "FOK" /\ ~CanMatch => Rem(taker) = 0

\* Funding takes nothing from a wallet, and moves the clearing account only
\* when the fee account has nothing left to give.
FundingNets ==
  [][fundings' # fundings =>
       /\ \A u \in Users : available'[u] >= available[u]
       /\ \/ available'[CLEARING] = available[CLEARING]
          \/ /\ available'[CLEARING] < available[CLEARING]
             /\ available'[FEE] = 0]_vars

\* An amend is safe: the replacement "can only rest or fill, never reject"
\* (exchange.ts:1137-1139).
AmendIsSafe == [][pc = "submit" => pc' = "match"]_vars
=============================================================================
