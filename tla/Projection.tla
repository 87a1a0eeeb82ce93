----------------------------- MODULE Projection -----------------------------
(***************************************************************************)
(* The durable projection of packages/db/src/projector.ts under the        *)
(* perpetual engine: what events each handler of exchange.ts emits, with   *)
(* the values the ledger and the positions have when each is emitted, what *)
(* applyEvent writes for each kind, and what loadRestoreState and          *)
(* restoreState make of the tables at the next boot.                       *)
(*                                                                         *)
(* Each action of PerpExchange is conjoined with the events of the same    *)
(* lines.  The pipeline commits a handler's events as one transaction at   *)
(* its end, so the tables are looked at only when pc = "idle"; watermark,  *)
(* failure and crash are in Pipeline.  The leverage settings are in a      *)
(* table of their own that no event writes; rows of closed orders, trades, *)
(* liquidations and payments are history that no restore reads.            *)
(***************************************************************************)
EXTENDS PerpExchange

VARIABLES
  tables,   \* balances, positions, open orders and mark, and the ids inserted
  corrupt   \* an event named a row that is not there, or is there already

pvars == <<vars, tables, corrupt>>

-----------------------------------------------------------------------------
(* Events.                                                                 *)

Accepted(o) == [kind |-> "orderAccepted", order |-> o]
OrderCancelled(id) == [kind |-> "orderCancelled", id |-> id]
Trade(maker, o) == [kind |-> "trade", maker |-> maker, taker |-> o]
MarkSet(m) == [kind |-> "markPrice", price |-> m]
FundingApplied(u, n) == [kind |-> "fundingApplied", user |-> u, payment |-> n]

BalanceChanged(e, a) ==
  [kind |-> "balanceChanged", user |-> a,
   available |-> e.available[a], locked |-> e.locked[a]]

PositionChanged(e, u) ==
  [kind |-> "positionChanged", user |-> u,
   rows |-> Restrict(e.positions, DOMAIN e.positions \cap {u})]

If(condition, events) == IF condition THEN events ELSE <<>>

\* cancelInternal: the cancel, then the freed lock.
CancelEvents(e, id) ==
  <<OrderCancelled(id)>>
    \o If(e.orders[id].lock > 0,
          <<BalanceChanged(Cancelled(e, {id}), e.orders[id].user)>>)

\* Several cancels, one after the other.
CancelAllEvents(e, ids) ==
  LET queue == Ascending(ids)
      Gone(i) == {queue[j] : j \in 1..i - 1}
  IN  FlattenSeq([i \in DOMAIN queue |->
                    CancelEvents(Cancelled(e, Gone(i)), queue[i])])

AcceptEvents(o) ==
  <<Accepted(o)>>
    \o If(o.lock > 0,
          <<BalanceChanged([available |-> Credit(available, o.user, -o.lock),
                            locked |-> Credit(locked, o.user, o.lock)], o.user)>>)

TrimmedAway_withMaker(maker) == DOMAIN orders \ DOMAIN orders'

\* The orders a fill removes by cancelling: trimmed ones, not the filled maker.
TrimmedAway(maker) ==
  (DOMAIN orders \ DOMAIN orders') \ IF Rem(maker) = 0 THEN {maker.id} ELSE {}

\* executeFill: the trade, both sides' balance and position, the fee account if
\* a fee was paid and the clearing account if it was touched, then the trims.
FillEvents ==
  LET p == BestMaker.price
      q == FillQty
      maker == AfterFill(BestMaker, q)
      first == SettlePerpSide(Engine, BestMaker, p, q, MakerFeeBps)
      second == SettlePerpSide(first, taker, p, q, TakerFeeBps)
      Touched(a) == \/ first.available[a] # available[a]
                    \/ second.available[a] # first.available[a]
      Side(u) == <<BalanceChanged(second, u), PositionChanged(second, u)>>
  IN  <<Trade(maker, AfterFill(taker, q))>>
        \o Side(maker.user) \o Side(taker.user)
        \o If(Touched(FEE), <<BalanceChanged(second, FEE)>>)
        \o If(Touched(CLEARING), <<BalanceChanged(second, CLEARING)>>)
        \o CancelAllEvents([second EXCEPT !.orders[maker.id] = maker],
                           TrimmedAway(maker))

\* The remainder of a market or IOC order.
RemainderEvents ==
  If(Rem(taker) > 0 /\ ~Rests(taker),
     <<OrderCancelled(taker.id)>>
       \o If(taker.lock > 0,
             <<BalanceChanged([available |-> available', locked |-> locked'],
                              taker.user)>>))

\* One winner of adlClawback.
DeleverageEvents(acc, u) ==
  LET closed == ClosedWinner(mark, acc, u)
  IN  <<PositionChanged(closed, u), BalanceChanged(closed, u),
        BalanceChanged(closed, CLEARING)>>
        \o CancelAllEvents(closed, OrdersOf(closed, u))

\* adlClawback: the events of its winners.
ClawbackEvents(e, rest) ==
  LET ranking == Ranking(mark, e)
      clawed == Clawed(mark, e, rest)
  IN  FlattenSeq([i \in DOMAIN ranking |->
                    If(clawed[i - 1].rest > 0,
                       DeleverageEvents(clawed[i - 1], ranking[i]))])

\* One liquidation: the winners' events first, then the trader's own.
LiquidationEvents ==
  LET u == Visited.user
      p == Visited.pos
      debt == Deficit(p) - FeeCover(p)
      clawed == IF adl THEN AdlClawback(mark, ForceClosed(u, p), debt)
                       ELSE [e |-> ForceClosed(u, p), rest |-> debt]
      paid == [clawed.e EXCEPT !.available = Credit(@, CLEARING, -clawed.rest)]
  IN  If(adl, ClawbackEvents(ForceClosed(u, p), debt))
        \o <<PositionChanged(paid, u), BalanceChanged(paid, u),
             BalanceChanged(paid, CLEARING)>>
        \o If(FeeCover(p) > 0, <<BalanceChanged(paid, FEE)>>)
        \o CancelAllEvents(paid, OrdersOf(paid, u))

\* applyFunding: a receiver's wallet and the payment, holder by holder, then the
\* clearing account, and the fee account if there was a residual.
FundingEvents(rate) ==
  LET Pay(u) == Payment(positions[u], rate)
      total == SumFunction([u \in DOMAIN positions |-> Pay(u)])
      After == [available |-> available', locked |-> locked]
      OfHolder(u) == If(Pay(u) > 0, <<BalanceChanged(After, u)>>)
                       \o <<FundingApplied(u, Pay(u))>>
  IN  FlattenSeq([i \in DOMAIN Holders(positions) |->
                    OfHolder(Holders(positions)[i])])
        \o <<BalanceChanged(After, CLEARING)>>
        \o If(Residual(total) # 0, <<BalanceChanged(After, FEE)>>)

-----------------------------------------------------------------------------
(* applyEvent.                                                             *)

Upserted(rows, o) ==
  IF Rem(o) = 0 THEN Without(rows, {o.id}) ELSE Having(rows, o.id, o)

FundedRow_bothWays(pos, n) == [pos EXCEPT !.margin = @ + n]

\* A payer's margin is mirrored; a receiver was credited in the wallet.
FundedRow(pos, n) == IF n < 0 THEN [pos EXCEPT !.margin = @ + n] ELSE pos

Written(t, ev) ==
  CASE ev.kind = "orderAccepted"  ->
         [t EXCEPT !.orders = Having(@, ev.order.id, ev.order),
                   !.ids = @ \cup {ev.order.id}]
    [] ev.kind = "trade"          ->
         [t EXCEPT !.orders = Upserted(Upserted(@, ev.maker), ev.taker)]
    [] ev.kind = "orderCancelled" ->
         [t EXCEPT !.orders = Without(@, {ev.id})]
    [] ev.kind = "balanceChanged" ->
         [t EXCEPT !.balances[ev.user] = [available |-> ev.available,
                                          locked |-> ev.locked]]
    [] ev.kind = "positionChanged" ->
         [t EXCEPT !.positions = IF ev.rows = << >>
                                 THEN Without(@, {ev.user})
                                 ELSE Having(@, ev.user, ev.rows[ev.user])]
    [] ev.kind = "fundingApplied" ->
         IF ev.user \in DOMAIN t.positions
         THEN [t EXCEPT !.positions[ev.user] = FundedRow(@, ev.payment)] ELSE t
    [] ev.kind = "markPrice"      -> [t EXCEPT !.mark = ev.price]

\* An id inserted twice, a payer without a position, or a cancel of a row that is
\* not open: the first two make applyEvent throw, the last falsifies history.
Misses(t, ev) ==
  \/ ev.kind = "orderAccepted" /\ ev.order.id \in t.ids
  \/ ev.kind = "orderCancelled" /\ ev.id \notin DOMAIN t.orders
  \/ ev.kind = "fundingApplied" /\ ev.payment < 0 /\ ev.user \notin DOMAIN t.positions

Recorded(db, ev) ==
  [t |-> Written(db.t, ev), bad |-> db.bad \/ Misses(db.t, ev)]

\* The events of a batch, in their order.
Applied(db, events) ==
  LET after[i \in 0..Len(events)] ==
        IF i = 0 THEN db ELSE Recorded(after[i - 1], events[i])
  IN  after[Len(events)]

ApplyBatch(events) ==
  LET end == Applied([t |-> tables, bad |-> corrupt], events)
  IN  tables' = end.t /\ corrupt' = end.bad

-----------------------------------------------------------------------------

PInit ==
  /\ Init
  /\ tables = [balances |-> [a \in Accounts |-> [available |-> available[a],
                                                 locked |-> 0]],
               positions |-> positions, orders |-> orders, mark |-> 0, ids |-> {}]
  /\ corrupt = FALSE

PSubmit ==
  \E req \in Incoming :
    \/ Reject(req) /\ ApplyBatch(<<>>)
    \/ Accept(req) /\ ApplyBatch(AcceptEvents(OrderOf(req)))

PCancelMaker == CancelMaker /\ ApplyBatch(CancelEvents(Engine, BestMaker.id))
PExecuteFill == ExecuteFill /\ ApplyBatch(FillEvents)
PFinish == FinishSubmit /\ ApplyBatch(RemainderEvents)
PCancel(id) == CancelOrder(id) /\ ApplyBatch(CancelEvents(Engine, id))
PAmend(id, ch) == AmendOrder(id, ch) /\ ApplyBatch(CancelEvents(Engine, id))
PLeverage(u, l) == SetLeverage(u, l) /\ ApplyBatch(<<>>)
PMark(m) == SetMarkPrice(m) /\ ApplyBatch(<<MarkSet(m)>>)
PFunding(r) == ApplyFunding(r) /\ ApplyBatch(FundingEvents(r))
PPass == (PassHealthy \/ FinishSweep) /\ ApplyBatch(<<>>)
PLiquidate == Liquidate /\ ApplyBatch(LiquidationEvents)

PTransfer(t) ==
  /\ Deposit(t) \/ Withdraw(t)
  /\ ApplyBatch(<<BalanceChanged([available |-> available', locked |-> locked],
                                 t.user)>>)

PNext ==
  \/ PSubmit \/ PCancelMaker \/ PExecuteFill \/ PFinish
  \/ \E id \in DOMAIN orders : PCancel(id)
  \/ \E id \in DOMAIN orders, ch \in Amendments : PAmend(id, ch)
  \/ \E u \in Users, l \in Leverages : PLeverage(u, l)
  \/ \E m \in Marks : PMark(m)
  \/ \E r \in Rates : PFunding(r)
  \/ PPass \/ PLiquidate
  \/ \E t \in Transfers : PTransfer(t)

PSpec == PInit /\ [][PNext]_pvars

-----------------------------------------------------------------------------
(* Properties.                                                             *)

\* restoreState: locks and leverage are recomputed, the queues rebuilt.
RestoredOrder(o) ==
  LET f == [o EXCEPT !.leverage = leverages[o.user]]
  IN  [f EXCEPT !.lock = LockFor(f)]

Restored ==
  LET live == [id \in DOMAIN tables.orders |-> RestoredOrder(tables.orders[id])]
  IN  [available |-> [a \in Accounts |-> tables.balances[a].available],
       locked |-> [a \in Accounts |-> tables.balances[a].locked],
       positions |-> tables.positions, orders |-> live, book |-> BookOf(live)]

\* "Full boot-restore fidelity" (projector.ts:30-37): after every operation the
\* tables restore exactly the engine that wrote them, so no handler changes a
\* balance, margin or order without an event that says so, and none is stale.
RestoreIsEngine == pc = "idle" => Restored = Engine /\ tables.mark = mark

\* The stream is never one that applyEvent would call corrupted, and an order
\* that filled is never recorded as cancelled (projector.ts:10-12, 156-157).
StreamSound == ~corrupt
=============================================================================
