# Verification of the trading platform

TLA+ models of the matching engine, its clearing, its durable command pipeline,
the routes and services that drive it and the stream that carries it to the
browser, checked by TLC on small instances and, but for liveness and what the
durable tables hold, proved with TLAPS for every value of the constants.

## The system

One Node process serves an HTTP and WebSocket API over an in-memory exchange
engine, with a PGlite (Postgres) projection of everything the engine does.

| Component | Code | State it keeps | Operations |
|---|---|---|---|
| Fixed point | `packages/shared/src/decimal.ts`, `packages/engine/src/locks.ts` | none | rounding, products, fees, lock formulas |
| Order book | `packages/engine/src/orderbook.ts` | price levels per side, FIFO in a level | insert, remove, best, inBound |
| Ledger | `packages/engine/src/ledger.ts` | available and locked per account and asset | credit, debit, lock, unlock, spendLocked |
| Engine, spot | `packages/engine/src/exchange.ts` | live orders, client ids, ledger, book | submitOrder, matchOrder, cancelOrder, amendOrder, deposit, withdraw, restoreState |
| Engine, perpetuals | `exchange.ts`, `perp.ts` | positions with isolated margin, leverage settings, marks | the same, and setLeverage, setMarkPrice, applyFunding, liquidationSweep, adlClawback, trimReduceOnly |
| Conditional and OCO orders | `exchange.ts` | dormant orders, OCO groups | placeConditional, activateTriggers, enforceOco |
| Command pipeline | `apps/api/src/pipeline.ts` | a promise chain, a poison flag | run, exec, runDb, drain |
| Projection | `packages/db/src/projector.ts`, `repos.ts` | tables and the last applied seq | applyBatch, claimFaucet, leverage.set, loadRestoreState, retention |
| Routes | `apps/api/src/routes/` | none | orders, bracket, account, TWAP, login |
| Funding poller | `apps/api/src/funding.ts` | last settled epoch per market | poll |
| TWAP | `apps/api/src/twap.ts` | jobs and their schedule | create, cancel, tick |
| Mirror | `apps/api/src/bookMirror.ts` | pending snapshots, last snapshot times, active set | onSnapshot, flush, takeDown, watchdog |
| Price feeds | `apps/api/src/feeds.ts`, `market-data/src/oracle.ts`, `priceCache.ts` | samples, smoothed marks, tickers | refresh, robustMark, applyPerpMid, setTicker |
| WebSocket hub | `apps/api/src/wsHub.ts` | subscriptions, a seq per channel | dispatch, subscribe, broadcast, heartbeat |
| Web client | `apps/web/src/lib/ws.ts`, `stores/`, `App.tsx` | last seq per channel, handlers, the book | checkSeq, subscribe, reconnect, setSnapshot |
| Login | `apps/api/src/auth.ts`, `apps/web/src/stores/auth.ts` | nonces | issue, verify, prune |
| Market data | `packages/market-data/src/` | caches, sockets | candle cache, reconnect, subscriptions |
| Retention | `apps/api/src/retention.ts`, `repos.ts` | none | prune |

**Interaction.** Every change of the engine is a task of the pipeline: the
engine's handler runs synchronously, its events are applied to the database in
one transaction, then broadcast, then the caller's promise resolves.  Routes,
the funding poller, the TWAP ticker, the mirror and the price feeds are the
callers; the hub is the sink.  At boot the engine is rebuilt from the
projection.  Two writes go around the queue or around the event stream: the
faucet's claim flag, and the leverage setting.

**Where it is hard.**  Inside the engine nothing is concurrent, and the
difficulty is long sequences: one order released slice by slice at other prices
than it was locked at, several orders that share one position, a sweep over
positions that its own steps change.  Around it, everything may happen during
the `await` of a database transaction: other requests queue up, the transaction
fails, the process dies.  The services add timers that fire while an earlier run
still waits, answers of venues that come late or out of order, and connections
that drop between a frame and the next.

**What makes each part correct.**  Money is conserved to the unit and every
lock is backed by a live order; the book is in price-time order and never
crossed; post-only, fill-or-kill and reduce-only mean what they say; a restart
gives back the same engine; an acknowledged command is durable; subscribers see
events once and in order; a call is answered.  A bracket never takes back more
than it bought; an epoch of funding is neither skipped nor charged twice; the
children of a TWAP add up; a nonce is worth one login; a window of candles is as
large and as fresh as asked; a frozen book comes down; one lying venue does not
move a mark; pruning forgets nothing a user is shown; a client notices a lost
frame and ends up with the engine's book.  `PROJECT.json` lists the hazards
behind these, each at its line, with the properties that cover it.

## Modules

```
FixedPoint            decimal.ts, locks.ts: rounding, fees, lock formulas
  ArithmeticProofs      lemmas on them, and on sums; LockSliceCoversFill
OrderBook             orderbook.ts: queues in price-time order   (extends FixedPoint)
  BookProofs            what removing, inserting, filling and a restart do to a queue
SpotExchange          the spot engine                            (extends OrderBook)
  SpotExchangeProofs    its inductive invariants and what follows
  MCSpotExchange        TLC instance
PerpExchange          the perpetual engine                       (extends OrderBook)
  PerpProofs            its inductive invariants and what follows
  MCPerpExchange        TLC instance
  Triggers              stops, trailing stops, OCO groups       (extends PerpExchange)
    MCTriggers            TLC instance
    Bracket               the bracket route                     (extends Triggers)
      MCBracket             TLC instance
      TriggersProofs        the inductive invariants of triggers and brackets
  Projection            events, tables and restore              (extends PerpExchange)
    ProjectionProofs      the tables keep up with the engine and restore it
    MCProjection          TLC instance
DurableLog            what the pipeline promises (abstract)
Pipeline              pipeline.ts, projection, crash and boot    (implements DurableLog)
  PipelineProofs        its inductive invariant and the refinement
  MCPipeline            TLC instance
Services              the services, one at a time                (extends the next nine)
  ServicesProofs        an invariant per service, and all of them together
  MCServices            TLC instance
FundingPoller         funding.ts
Twap                  twap.ts
AuthNonce             auth.ts, the login routes and the client's login()
CandleCache           candles.ts
VenueSocket           reconnectingWs.ts, hyperliquidWs.ts, upbitWs.ts
BookMirror            bookMirror.ts over a venue's socket        (extends VenueSocket)
MarkFeed              feeds.ts, oracle.ts, priceCache.ts
Retention             retention.ts and prune() of repos.ts
WsFeed                wsHub.ts, ws.ts, the book store, App.tsx
```

**FixedPoint.**  `SCALE` and `BPS` are constants, so that TLC can use small
ones in which rounding bites at every step and the proofs hold for the real
ones (10^8 and 10^4).  `DivFloor`, `DivCeil` and `DivHalfUp` are the modes of
`divRound`.  Prices and quantities are integers in units, as in the code, where
they are `bigint` and do not overflow.

**OrderBook.**  The code keeps levels, each with a FIFO of orders; the model
keeps one queue of order ids per side, a level being a run of one price.
`InsertPosition` says where `BookSide.insert` puts an order.  What a loop or a
sort leaves is stated by rank: the element at place i is the one that i - 1 others
precede (`Ascending` here, `Ranking` of the winners in `PerpExchange`, `Sorted` in
`MarkFeed`).  `BookOf` is the queues a restart builds, one order after the other in
the order of their ids.

**SpotExchange.**  The handlers are synchronous, so an action is one handler,
with one exception: `submitOrder` is cut into its acceptance (`SubmitOrder`),
one step per maker of `matchOrder`'s loop (`CancelOwnMaker`, `ExecuteFill`) and
the handling of the remainder (`FinishSubmit`).  `pc` is the place in the
handler and `taker` the order in flight; nothing else is enabled until `pc` is
"idle" again.  The behaviours are those of the code, and the invariants are
checked after every fill.  `amendOrder` is its validation and cancel
(`AmendOrder`) followed by the `submitOrder` it calls.  Rejections that leave
the state alone are one action, `Reject`.  `supply` is a history variable.

**PerpExchange.**  The same handlers with positions.  `settlePerpSide` is the
operator `SettlePerpSide`, applied to the maker and then to the taker of a fill
as `executeFill` does; `CloseLeg` is the close with its shortfall waterfall
(margin, wallet, fee, clearing account), `OpenLeg` the opening from the lock
slice.  `TrimmedOf` is `trimReduceOnly`, `Fillable` the replay in
`simulateFillable`.  The liquidation sweep visits one position per step of the
list it took at its start (`sweep`), which is how the code iterates.
`ApplyFunding` and `SetMarkPrice` end in that sweep.  `supply` and `phantom`
are history variables: `phantom` adds up the margins the sweep pays out for a
position that ADL had closed before (see Findings).  `PerpConservation` states
exact conservation up to that one leak, so that any other leak still violates
it.

**Triggers.**  `dormant` is `conditionalOrders`, `groups` the OCO index
`ocoMembers`, `due` what is left of the list `activateTriggers` took.  An action
of `PerpExchange` that ends orders is conjoined with what `retire` does to the
index (`RetireGone`).  `traded` collects the OCO orders in the trades of one
`submitOrder`; `EnforceOco` runs when it ends, before the next trigger fires
(`Fire`).  `outlived` is a history variable.  Funding, leverage changes and
transfers touch neither dormant orders nor the index and are left to
`PerpExchange`; the spot feed `setLastPrice` reaches the same code with another
price.  An id is kept in reserve for every dormant order, so that the bound on
ids never stops a trigger.

**Projection.**  Each handler of `PerpExchange` is conjoined with the events it
emits, in their order and with the values the engine has at that moment;
`Written` is `applyEvent`, and `Applied` applies the events of a batch one after
the other.  `Restored` is `loadRestoreState` followed by
`restoreState`.  `corrupt` records an event that misses its row.

**Pipeline.**  `queue` is the promise chain `#q`, `active` the task whose
`await` is pending.  Engine and projection are the histories of commands each
has applied; an entry remembers the leverage it used and the entry it was
computed on.  A faucet call is the claim outside the queue and the deposit in
it; a leverage call is two tasks.  `FailBatch` and `FailSave` are transactions
that fail and roll back; `Crash` may happen at any time, and loses everything
but `db`.  `ExitPoisoned` is `onFatal`, `Boot` loads the projection.

**DurableLog** is the promise to the callers: a history that only grows by
commands not yet in it, and acknowledgements only of recorded commands.
`Pipeline` implements it under `history <- ` the calls of `db.log` and
`acked <- ` the calls answered "ok".

**Bracket.**  The route awaits one pipeline command after another: `Enter`,
`TakeProfit`, `StopLoss` and, when a leg was refused, `Flatten`.  Each is one
call of the engine's handler from `Triggers`; while the engine works on it
(`bracket.running`), `Watched` collects what the route will read in its events.
`bracket.legs` is the ids of the take-profit and the stop-loss as the route's own
commands returned them; `Dropped`, what the emergency close cancels, is those of
them that are live, and not an order that has taken the place of one of them.
Between two commands `Traffic` is every step of `Triggers`: other traders, marks,
triggers, and the owner amending or cancelling a leg.

**Services.**  The services meet only in the pipeline and none reads another's
state, so one variable, `part`, picks the one a behaviour drives: the instance
has the sum of their states and not the product, and no property loses a
behaviour.  Times are ages that saturate just beyond the longest one that is
compared, so no clock grows.

- `FundingPoller`: `poll[p]` is one run of `poll()`, several at a time because
  the timer does not wait; a run waits for the venue (`Answer`) and for the
  pipeline (`Charge`, `Charged`).  `Failed` is the catch around one market.  What
  was charged survives a restart, the watermarks do not.  `outOfReach` records
  the epochs that had left the window of `LOOKBACK_MS` when a run asked.
- `Twap`: the tick's walk over the jobs, `FireSlice` up to its `await` (with the
  slot reserved before it, `Reserve`) and `SliceEnds` after it.  Jobs are
  created and cancelled between the two.
- `AuthNonce`: `verifySignature` takes the nonce (`Verify`), awaits the signature
  and the user's row, and the route mints a token (`Checked`).  A client's
  request may be delivered late or `MaxCopies` times.
- `CandleCache`: one key, a request per caller, the shared one in `inFlight`.
- `VenueSocket`: `link` is the connection with its three timers, `wire` the
  frames not yet read.
- `BookMirror`: `OnSnapshot`, the throttle timer, the two-second refresh with the
  watchdog, and `MirrorCommand`, the pipeline command that reconciles the quotes
  with a book.  Users trade with the quotes (`UserFills`).
- `MarkFeed`: the oracle's overlapping refreshes, the median and the ema of a
  perp, and a spot market's ticker from socket and poll.  `liar` is the one venue
  that may show anything.
- `Retention`: `prune()` a statement at a time; `PruneBreaksOff` ends it between
  any two.
- `WsFeed`: one channel, of the kind that sends whole books or of the kind that
  sends what is published; the hub's numbers, the frames under way in both
  directions, the client's gap check and book store, and the REST seed.  The hub
  does not restart here, which would start its numbers again: only the order book
  acts on a gap, and its first frame after any connection is a whole book.
  `EngineChanges` moves the engine before `Dispatch` tells the hub, since the
  batch is persisted in between.

## Runs

| Run | Instance | What it shows |
|---|---|---|
| `spot` | 2 traders, 4 orders of every kind and flag, one amend, deposits and withdrawals; 122 thousand states | 7 invariants, `AmendKeepsOrder`, `MatchingEnds` |
| `perp` | 2 traders, 4 orders, 1 mark change out of 2 marks, 1 funding of either sign, ADL on and off, a fresh market and one with positions, with the events and the tables; 207 thousand states | 7 invariants, among them `RestoreIsEngine`, and `FundingNets` |
| `triggers` | 2 traders with a position, 5 ids for orders and activations, a stop-market, two trailing stops, two take-profits in one OCO group, 2 mark changes; 158 thousand states | 2 invariants, `LosersOut`, `StopsOnlyTighten` |
| `bracket` | a bracket for 2 that is accepted and one that is refused, a market maker and a taker, one amend of the take-profit, 7 ids, 1 mark change; 1.47 million states | `BracketContained` |
| `pipeline` | 2 orders, 2 faucet claims, 1 leverage call of one trader; 1 failing transaction, 1 crash; 177 thousand states | 4 invariants, refinement of DurableLog, `EveryCallEnds` |
| `services` | each service on the bounds below; 199 thousand states | 8 invariants, `CandleSound`, `MarkWithinHonest`, `FrozenBookComesDown`, `BookConverges` |
| `pipeline_poison`, `pipeline_leverage`, `perp_adl`, `triggers_bracket`, `bracket_flatten`, `funding_twice` | the same components | the findings below |

**Bounds.**  `MaxOrders`, `MaxSupply`, `MaxMarks`, `MaxFundings`, `MaxFailures`
and `MaxCrashes` bound counters that the code does not.  Four orders are a
maker partly filled by one taker, the other maker it then meets (its own, or a
reduce-only one that the first fill trimmed), and one more that matches, amends
or cancels.  In `triggers` the five ids allow a counterparty, two members of the
group and the activation of the dormant ones; the lowest mark makes two
stops of one group due at once, and one trailing stop is wider than that mark.
With `SCALE = 2` and `BPS = 8` every odd price rounds and every
fee does.  The second start of `perp` gives positions near bankruptcy, so that
one mark reaches every branch of the liquidation waterfall, with and without
ADL.  In `pipeline` two orders are enough for one to wait behind a batch that
fails, and one crash for every step between enqueuing and answering to be cut.
In `bracket` the seven ids are the market maker's two quotes, the entry, the
take-profit, the order that fills a part of it or the one an amend puts in its
place, the activation of the stop and the emergency close.

In `services`: two polls over three epochs, one of rate zero, with one failure
and one restart (`MaxPollFailures`, `MaxBoots`), are two runs that overlap at
either `await` with an epoch behind the one they race for.  One TWAP of two or three
slices whose total is or is not whole lots, with a tick up to `MaxTickLag` late.
Two nonces and a map with room for one, three tabs of two wallets, requests
delivered twice.  Three callers and two sizes of window.  One market with a
straight and a crossed venue book, a queue of two commands (a snapshot and a
take-down), one frame on the wire and one doubling of the backoff.  One honest
range of two prices and one outlier outside it, one refresh of the oracle under
way.  Three projected rows and one to keep, so that each tape can be cut twice.
One change of the book and three stream events (a change, a drop, a loss): a loss
can hit any frame, and a reconnect or a change of market come before or after it.

**Fairness.**  `SpotExchange` has weak fairness on the steps of a handler that
has started: they run in one thread without waiting.  `Pipeline` has it on the
chain (the event loop resumes a settled `await`; a transaction ends, one way or
the other), on a handler's continuation after its awaited task, on the exit of a
poisoned process (a 50 ms timer, `index.ts:24-26`) and on the next boot ("the
supervisor restarts", `index.ts:22-23`; a supervisor is assumed, it is not part of
the repository).  Crashes, failures and requests are never fair.  `BookMirror`
has it on the refresh (a `setInterval`), the passing of time and the pipeline's
commands, and not on the venue; `WsFeed` on the hub's dispatch and flush timer
and on either end reading what has arrived, and not on reconnecting, on an answer
over REST or on the user.  `PerpExchange` and the modules that extend it claim no
liveness and assume no fairness.

Deadlock is checked in every instance but `services`, whose parts end where their
bounds do; `Pipeline` has an explicit step for a server with nothing left to do.

## Findings

Each of the first six is a run whose property TLC finds violated.

1. **Queued tasks run after a failed projection** (`pipeline_poison`).  The
   poison flag is read when a task is enqueued, not when it runs.  A task that
   was already waiting runs on the diverged engine and commits, and the
   watermark moves past the lost batch.
2. **Leverage can be restored to another value** (`pipeline_leverage`).  The
   engine change and its persistence are two tasks; a crash between them, with
   an order accepted in the gap, restores locks computed at the old leverage.
3. **A sweep can pay a margin twice** (`perp_adl`).  A position closed by ADL
   is still in the sweep's list; if it is below maintenance itself it is
   liquidated again.
4. **A bracket's stop-loss is refused when it fires** (`triggers_bracket`).  Its
   take-profit rests and counts against the reduce-only budget, so activating
   the stop for the same quantity is rejected, after the stop was retired.  The
   operations are those of the bracket route: a reduce-only limit order and a
   reduce-only stop-market of one group.
5. **A bracket's emergency close closes nothing** (`bracket_flatten`).  It asks
   for the whole quantity of the entry, reduce-only.  When the take-profit has
   closed a part of the position before the stop-loss is refused, that is more
   than the position, and the close is refused.  The route does report the
   position as still open.
6. **Overlapping polls charge an epoch twice** (`funding_twice`).  The watermark is
   read before the `await` and moved after it, and the timer starts a poll
   whether or not the last one has ended.

These are stated in the modules as well and TLC finds each one violated when it is
put in place of the properties of the run's cfg; they are not runs of their own.

- `AmendIsSafe` (`perp`): an amend can lose a reduce-only order, since its
  pre-validation does not look at the reduce-only rule and the original is
  cancelled first.
- `OneOfGroup` (`triggers`): two orders of one OCO group can both fill, because the
  group is enforced after the whole `submitOrder` and one taker can meet both.
- `NeverSilentlyUnprotected` (`bracket`): a stop that is due when it is placed is
  activated at once; when the book is empty the activation drops it without an
  `orderRejected`, and the route answers that the position is protected.
- `NoLegSurvives` (`bracket`): the emergency close cancels the two orders by the ids
  that the route's own commands returned (`orders.ts:257-264`).  A take-profit that
  its owner amended while the route awaited the stop-loss has another id and keeps
  its group: it stays, takes the reduce-only budget that the close would need, and
  is left behind with the position, although `orders.ts:240-242` says "cancel any leg
  that did rest".
- `UnwatchedIsDown` (`services`): the house's quotes are restored at boot like any
  order, but the mirror only takes down what was in its active set, so those of
  a market nobody watches stay.
- `LastPriceMovesOn` (`services`): the cache refuses an older ticker, but the REST
  poll wakes the spot conditional orders with it all the same.
- `SeedNeverClobbers` (`services`): the stale flag of a book changes without a new
  engine number, so a REST seed with an equal number and the older flag is
  accepted.

Met while modelling and not stated as properties: the total of a TWAP need not be
a multiple of the lot, and then its last child is refused (`twap.ts:95-97`);
`filledQty` of a TWAP
also counts fills of the user's own stops that the slice fired; a take-profit that
fills before the stop-loss is placed leaves that stop behind
(`orders.ts:217-219`); `fetchJson`'s timeout ends with the headers, a slow body
has none (`MaxFetchTime` is therefore a bound of the model); a connection that
goes silent without closing is not noticed by the venue socket, whose pings
expect no answer; two refreshes of the oracle that overlap can store the older
price as the fresher; a nonce issued again keeps its place in the map and may be
evicted first; pruning counts an order's age from its placement; the private
channel of all users shares one counter.

## Proofs

Every theorem holds for all values of the constants, under the assumptions the
modules name (`FixedPointAssumption` and the others: scale and basis points
positive, `MakerFeeBps <= TakerFeeBps`, well-typed requests, finite sets of users
and markets); TLC evaluates each on the constants of the runs.  The proof modules
extend the modules the runs check, so both speak of the same definitions.

**Arithmetic.**  `ArithmeticProofs` proves `LockSliceCoversFill`: floor is
superadditive up to one unit and the fee's ceiling up to another, so the part of a
spot buy lock that a fill frees covers its notional at any price within the limit
and all but one unit of the fee.  `BookProofs` has one lemma per thing that
happens to a queue.

**Sums.**  The same module has what the money proofs stand on: a sum over a finite
set does not depend on the order it is taken in, any term can be taken out first,
one term's change changes it by as much.  A fold is defined by a recursive function,
and the induction theorems of the library cannot be instantiated, so each fact is
proved on a smallest part of the set that would break it, and a fact about every
length on the least number that would (`LeastNumber`); this is why the models write
sums as `SumFunction` of a function and not with an operator argument.

**Spot engine.**  `SpotExchangeProofs` proves the invariant

    IInv == TypeOK, each side a queue in price-time order over the live orders
            of that side, Uncrossed, every live order sound (0 <= filled < qty,
            lock = LockFor), the taker sound and newest, and while an amend is
            under way its replacement affordable and of valid size

and from it `TypeCorrect`, `PriceTimePriority` (`BookInOrder`), `NeverCrossed`
(`Uncrossed`), `FillsCovered` (`FeeFloor`) and `AmendNeverLoses`
(`AmendKeepsOrder`).  None of these is inductive alone.  The order of the queue
needs the taker's id to be the newest; that the book stays uncrossed when the
remainder rests needs the loop's exit condition and the order of the opposite
queue; a fill being covered needs the buyer's lock to be exactly `LockFor`; and
the amend needs the affordability it checked to survive the cancel of the old
order, whose lock is credited back.  On top of it `MoneyInvariant` proves
`Conservation` and `LocksBacked` together (`MoneyConserved`, `LocksAreBacked`):
money can only be shown to stay non-negative when every lock is known to be
backed, and a fill conserves because the three accounts it touches move by
amounts that cancel.

**Restart.**  `RestartIsExact` is `RestoreExact`.  The locks are those of `IInv`.
The queues are a theorem about any set of priced orders (`RestoredQueue`, in
`BookProofs`): putting an order back where `insert` puts it keeps a queue a
queue, of one order more (`ReplayStep`); the ids go up, so each comes behind the
orders of its price; and two queues over the same orders are the same
(`QueueUnique`).  So what the replay builds, whatever the order in which the
originals came to rest, is the queue that `IInv` says the book is.

**Perpetual engine.**  `PerpProofs` proves the invariant

    PInv == the settings in their types,
            Good(engine, the taker's lock, supply + phantom),
            the taker sound, newest and not in the book,
            each position the sweep has yet to visit as its list has it or gone,
            and listed once

where `Good` says of an engine state that its orders and positions are sound
(`Shape`: 0 <= filled, an order's lock is what `LockFor` asks, no position of
size zero, no negative margin), that nobody but the clearing account owes
(`NoDebt`), that what an account has locked is the sum of the locks of its orders
and of the taker (`Backed`), and that wallets and margins add up (`Money`).
Neither money nor solvency is inductive alone: that a fill can be paid for needs
the slice of the lock it frees to be backed, which needs every lock to be backed;
that the sweep pays a position's margin once needs its list to be true of the
positions still there; and what it pays for one that is not is what `phantom`
counts.

- A fill: `LegsPay` states of the close and the open leg that cash, margin, fee
  and clearing add up to the freed lock, for each branch of the waterfall;
  `SettleFacts` lifts it to `SettlePerpSide`, the second leg working on what the
  first one left, and `Trims` says that `trimReduceOnly` gives back the locks of
  live orders of the same user only.
- A liquidation: cancelling the user's orders, taking the deficit from the
  clearing account and `DeleverageStep` per winner; the deficit not yet
  recovered is exactly the money the walk still has to return, so the sum is
  right wherever the walk breaks off.
- Funding: what is taken from margins is what is paid, and what is left, of either
  sign, falls to the fee account or, when that has too little, to the
  clearing account (`Residual`).
- A loop is a recursive function in the model, and a `CHOOSE` in TLA+; that such a
  function exists for a queue of any length is proved by the least length that would
  have none.  Sorts are stated by rank, and that every rank is taken exactly once
  is proved by the least rank that is not.

`PerpTypeCorrect` (`TypeOK`), `PerpMoneyConserved` (`PerpConservation`) and
`PerpSolvent` (`Solvent`) follow from `PInv`, and `PerpFundingNets` (`FundingNets`)
from it and the step.

`PerpBudgetKept` (`ReduceOnlyBudget`) needs beside `PInv` a second inductive
invariant, `BudgetOK`: of each trader, what the live reduce-only orders and the
taker still take adds up to no more than the position, and each is on its closing
side.  A position shrinks by a fill, a liquidation, a deleveraging or a clawback,
and the orders must follow in the same step:

- A visit of the trim loop cancels an order on the wrong side or one that does
  not fit beside those kept so far, and counts the others (`Trimming`), so that after
  the loop the orders that are left fit the position (`TrimBudget`), whatever they were
  before.
- A reduce-only fill takes from the order what it takes from the position
  (`BudgetFill`); a trader whose order in the fill is not reduce-only has the
  reduce-only ones trimmed to the new position.
- An order that is accepted was measured against the others first (`BudgetJoin`).
- Whoever is closed out by force loses the orders with the position (`Cleared`).

**Triggers.**  `TriggersProofs` proves `TInv`, which is `PInv` and

- `DormantOK`: dormant orders have ids of their own, below the next one;
- `DueOK`, `MissedOK`: what is still to fire are dormant orders as they were, and
  a dormant order that the mark reaches is among them.  This is what makes
  `NoTriggerMissed` inductive while the list is worked off, the mark moving and
  a trailing stop moving with it;
- `IndexOK`: in the middle of an operation the OCO index holds live orders of the
  group only, all its dormant ones and all resting ones that have not filled.
  `OcoIndexExact` holds only at rest: a partly filled member leaves the index at
  once and the book when `enforceOco` runs;
- `TradedOK`, `OutlivedOK`: what is on the list of `enforceOco` has filled, and
  the orders that outlived one of their group are those it is about to cancel.

`OcoIndexKept`, `NoTriggerIsMissed` and `LosersAreOut` follow, `TrailingStopsTighten`
from the step, and `TriggersKeepEngine`: a step of the triggers is a step of the
engine or leaves it alone, so solvency, conservation and the reduce-only budget hold
here too.

**Bracket** (in `TriggersProofs` too).  `BracketsKeepEngine` says the same of the route.  `BracketsContained`
(`BracketContained`) is about a trader who trades by the bracket alone (`Alone`, a
condition on the constants that `MCBracket` assumes, so that TLC evaluates it): then
every order of that trader is the entry or one of the two legs, on the side and with
the flag the route gave it (`Kinds`, an invariant about who may order what, carried
through matching, amending, triggers and liquidations); the position is on the
entry's side and at most what was filled of it (`PositionOK`), since the
legs are reduce-only and `BudgetOK` bounds what they may still take; and `ShapeOK`
ties the route's step to the orders there are.  What is left of a failed bracket
takes three parts more.  `LegsOK`: the ids the route knows are old ones, every
order of the trader that waits has one of them (an amend changes an id, but only a
resting order is amended), and once the close has begun none is live; this
needs that ids only grow and that an order leaves for good.  `OpenOK`: no order
rests with nothing left to fill.  And the position is 0 from "flattened" on, so that
`ReduceOnlyBudget` leaves no reduce-only order to rest, an amended one included.
`NoLegSurvives`, which asks the same of a bracket reported as still open, does not
hold, as said above.

**Projection.**  `ProjectionProofs` proves

    ProjInv == PInv, and
               InStep: the tables hold the wallets, positions, open orders and mark
                       of the engine, and no event has missed its row,
               the ids they hold are below the next one,
               every live order has the leverage its trader has

`OpenRows` in `InStep` is the live orders and, while a matching is under way, the
taker: its row is inserted when it is accepted, follows its fills and is closed by
the last of them or by the handling of the remainder, so the tables can be
compared with the engine at every step.  `BootRestoreIsExact` (`RestoreIsEngine`)
follows, with the theorem on restored queues from `BookProofs` and with each
lock being what `LockFor` asks, and `StreamIsSound` (`StreamSound`).
`ProjectionWatches`: a run with the projector is a run of the engine, so `PerpProofs`
holds here.

- A batch is followed event by event.  `Shows` says what the tables hold when the
  rows of the accounts X are stale, and one lemma per kind of event says what
  becomes of X; a wallet that moves makes its row stale until its
  `balanceChanged` is written.
- Lists are put together as the handler does: one batch after the other (`Joins`), a
  list of lists by what holds between two of them (`FlattenLeads`).  Cancelling
  many orders (`CancelAllLeads`) is the first use of it, the holders of a funding
  and the winners of a deleveraging are the others.
- What the events say is not always what the engine has in the end: a trim after
  the fill, a winner's own cancels after its close, a later winner's share of
  the clearing account.  `Midway` is what holds between two winners: the accounts
  that the liquidation itself has touched are stale, all others are shown.
- What is inserted is new because ids only grow, and what is updated or closed is
  there because the engine's orders and the rows are the same.

**Pipeline.**  `PipelineProofs` proves an invariant of several parts: the calls that
wait are different ones and unanswered (`QueueOK`), so is the one under way and it
has left the queue (`ActiveOK`), a dead process holds nothing (`DownOK`), neither
engine nor projection has a call twice nor one that never left the queue
(`HistoryOK`), an acknowledged call is in the projection (`AckedOK`), a batch is
above the watermark until it commits and what was broadcast is below it
(`SeqsOK`), and one faucet call at most has passed the claim (`ClaimOK`).
`EngineProjected`, `BroadcastOrdered` and `FaucetPaysOnce` follow.
`PipelineImplementsDurableLog` is the refinement of `DurableLog` under the mapping
above: `CommitBatch` is the abstract append and `Dispatch` the abstract
acknowledgement, each needs the invariant (the batch is not yet in the log; the
call answered is), and every other step is a stutter, a crash and a boot
included.

**Stream.**  `LossIsSeen` (`ServicesProofs`) needs the numbers to be followed from the hub through
the frames under way to the client's last one: each frame is the next of the one
before it or a reset (`Chained`), and the first continues the client's last number,
or is beyond it when a frame was lost (`Follows`).

**Services.**  Each has its own invariant in `ServicesProofs`:

- `NoEpochIsSkipped`: `Passed` (every epoch between seed and watermark is settled)
  needs `PollSound` of the polls that overlap: the epochs before those a poll holds
  are settled, although another poll may have moved the watermark meanwhile.
- `NoncesAreSingleUse`: entries differ in id and address (`EntriesDiffer`), and one
  that is in the map or being checked is unspent and not the other (`Unspent`).
- `CandlesCoverCalls`: the request that is shared is under way and fetches no less
  than each of its callers asked for (`SharedFetches`).
- `PruningIsSafe`: carryover plus the rows kept is the lifetime PnL at every
  statement (`PnlIsWhole`, by splitting the sum at the cut), only the house's dead
  orders are gone, and each tape has its newest rows.
- `TwapsAreExact`: after k of n slices the children are k times the same whole number
  of lots, and the n-th takes the remainder, which is whole lots when the total is
  (`FiredSlices`).
- `SocketStaysSound`, `StaleBooksAreDown`: the last command queued for a market that
  is stale takes its book down and no snapshot of it is pending (`StaleStaysDown`),
  or it is down already; the quotes of the house are uncrossed as the merge of a
  venue's book is.
- `OneLiarMovesNothing`: of three numbers the median lies between any two, so
  between the two honest ones whichever venue lies (`MedianBig` over `Sorted`, a
  sort stated by rank), and the ema between it and the mark before
  (`MarkWithinHonest`).
- `ServicesKeepTheirPromises`: all of them, and `LossSeen`, of `ServicesSpec`, which
  is what the run `services` checks; a step of one part leaves the others alone.
- `ServicesTyped`: `ServicesTypeOK`, whose bounds on clocks, numbers and queues need
  the invariants of the parts (`PartsInv`).

**Only model-checked.**  Liveness (`MatchingEnds`, `EveryCallEnds`,
`FrozenBookComesDown`, `BookConverges`), which needs ENABLED under fairness.
`FokFillsCompletely` of `PerpExchange`, which says that the replay of
`simulateFillable` foresees every maker that the match will meet: it compares a
fold over the queue as it was with steps that trim, cancel and fill other
orders of the queue as they go.

## Not modelled

Formatting, parsing and request validation; the rows of trades, payments,
liquidations, dormant orders and closed orders, and the history queries; spot
events in the projection; client ids of dormant orders; the private user channel
of the hub, its authentication and its rate limit; the trade list of the web
store; the checking of tokens; the parsing of venue frames and candles; external
prints and the numbers of the 24-hour statistics; metrics, logging and the user
interface.  `PROJECT.json` says of each component which part is left out.

Of the services some detail is abstracted on purpose: a TWAP's displayed fills and
the price bound of its children; a book in `WsFeed` is its engine number and its
stale flag, and `FrameLost` takes data frames only; a REST book taken from an engine that has done
nothing yet (number 0) always overwrites, and the model starts at 1; a reference
count above one in the client; a backoff is a timer that fires some time.

## Plan

1. `FixedPoint`, `OrderBook`, `SpotExchange` and their proofs: done.
2. `PerpExchange`, `DurableLog`, `Pipeline`: done.
3. `Triggers`, `Bracket`, `Projection`: done; the events of dormant orders in
   `Projection` are left.
4. `FundingPoller`, `Twap`, `BookMirror` over `VenueSocket`, `MarkFeed`: done.
5. `WsFeed`: done for the market channels.
6. `AuthNonce`, `CandleCache`, `Retention`: done.
7. Proofs: done for `SpotExchange`, `PerpExchange`, `Triggers`, `Bracket`,
   `Projection`, `Pipeline` with its refinement, `WsFeed` and the services.  Left:
   `FokFillsCompletely` of `PerpExchange`.
