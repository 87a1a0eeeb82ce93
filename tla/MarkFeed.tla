------------------------------ MODULE MarkFeed ------------------------------
(***************************************************************************)
(* apps/api/src/feeds.ts over packages/market-data's oracle.ts and         *)
(* priceCache.ts: where the prices that trigger and liquidate come from.   *)
(* A perp's mark is the median of the venue's mid and of two other venues' *)
(* prices while those are fresh, smoothed; a spot market's conditional     *)
(* orders are woken by its ticker, which comes over a socket and, as a     *)
(* fallback, from a poll.  One perp and one spot market.  The pipeline     *)
(* runs commands in order: one counts as run when it is queued.            *)
(***************************************************************************)
EXTENDS Integers, Sequences, SequencesExt, FiniteSets, FiniteSetsExt, FixedPoint

CONSTANTS
  HonestPrices,   \* what an honest venue may show
  OtherPrices,    \* what a manipulated one may
  Alpha,          \* MARK_EMA_ALPHA, in units of SCALE
  SampleLife,     \* maxAgeMs of an oracle sample
  OraclePolls,    \* oracle refreshes that may be under way at once
  MaxTickerTs     \* bound

ASSUME MarkAssumption ==
  /\ HonestPrices \subseteq Nat \ {0} /\ IsFiniteSet(HonestPrices)
  /\ OtherPrices \subseteq Nat \ {0}
  /\ Alpha \in 1..(SCALE - 1) /\ SampleLife \in Nat
  /\ MaxTickerTs \in Nat

VARIABLES
  liar,       \* the venue that is manipulated, if one is
  sample,     \* okx, coinbase -> the last price and its age
  oraclePoll, \* refresh -> which source it waits for
  ema,        \* markEma
  sent,       \* lastMark: the mark last sent to the engine, and if just now
  stats,      \* "none", then "known": 24-hour statistics; "shown": a ticker too
  spot        \* the spot market's ticker times: at the venue, over the socket,
              \* under way from the poll, in the cache, and last in the engine

perpVars == <<liar, sample, oraclePoll, ema, sent, stats>>
markVars == <<liar, sample, oraclePoll, ema, sent, stats, spot>>

External == {"okx", "coinbase"}
Venues == External \cup {"hl"}
NoPrice == 0
ExpiredAge == SampleLife + 1
CouldShow(v) == IF v = liar THEN HonestPrices \cup OtherPrices ELSE HonestPrices

-----------------------------------------------------------------------------
(* The oracle.                                                             *)

\* The poll timer does not look whether a refresh is under way.
StartOracle(p) ==
  /\ oraclePoll[p] = "idle"
  /\ oraclePoll' = [oraclePoll EXCEPT ![p] = "okx"]
  /\ UNCHANGED <<liar, sample, ema, sent, stats, spot>>

\* OKX's batch first, then Coinbase; a failure leaves the sample to age.
OracleAnswer(p) ==
  /\ oraclePoll[p] # "idle"
  /\ LET s == oraclePoll[p] IN
       /\ \/ UNCHANGED sample
          \/ \E price \in CouldShow(s) :
               sample' = [sample EXCEPT ![s] = [price |-> price, age |-> 0]]
       /\ oraclePoll' = [oraclePoll EXCEPT ![p] =
                           IF s = "okx" THEN "coinbase" ELSE "idle"]
  /\ UNCHANGED <<liar, ema, sent, stats, spot>>

FreshSources == {s \in External : sample[s].price # NoPrice /\ sample[s].age <= SampleLife}
ExternalPrices == [i \in 1..Cardinality(FreshSources) |->
                     sample[SetToSeq(FreshSources)[i]].price]

-----------------------------------------------------------------------------
(* The mark.                                                               *)

MedianBig_mean(values) == DivFloor(FoldSeq(+, 0, values), Len(values))

\* The values in ascending order.
Sorted(values) ==
  LET ns == DOMAIN values
      order == CHOOSE p \in [ns -> ns] :
                 /\ IsInjective(p)
                 /\ \A i, j \in ns : i < j => values[p[i]] <= values[p[j]]
  IN  [i \in ns |-> values[order[i]]]

\* Middle value, or the floored mean of the two in the middle.
MedianBig(values) ==
  LET sorted == Sorted(values)
      mid == Len(values) \div 2
  IN  IF Len(values) % 2 = 1 THEN sorted[mid + 1]
      ELSE DivFloor(sorted[mid] + sorted[mid + 1], 2)

EmaStep(prev, next) ==
  IF prev = NoPrice THEN next ELSE prev + MulUnits(next - prev, Alpha)

RobustMark(mid) == EmaStep(ema, MedianBig(<<mid>> \o ExternalPrices))

\* applyPerpMid, for a mid from the socket or from the fallback poll.  The ticker
\* is published once there are statistics; the engine gets a changed mark at
\* most once a second, and the first one at once.
PerpMid(mid) ==
  LET mark == RobustMark(mid) IN
  /\ mid \in CouldShow("hl")
  /\ ema' = mark
  /\ stats' = IF stats = "none" THEN stats ELSE "shown"
  /\ sent' = IF sent.price = NoPrice \/ (~sent.recent /\ mark # sent.price)
             THEN [price |-> mark, recent |-> TRUE] ELSE sent
  /\ UNCHANGED <<liar, sample, oraclePoll, spot>>

\* refreshOne: real candles have arrived.
StatsArrive ==
  /\ stats = "none" /\ stats' = "known"
  /\ UNCHANGED <<liar, sample, oraclePoll, ema, sent, spot>>

-----------------------------------------------------------------------------
(* The spot ticker.                                                        *)

\* The venue trades: its ticker moves on.
VenueTrades ==
  /\ spot.venue < MaxTickerTs
  /\ spot' = [spot EXCEPT !.venue = @ + 1]
  /\ UNCHANGED perpVars

\* setTicker drops an older ticker; pokeSpotTriggers runs all the same, when the
\* market has conditional orders.
TickerArrives(s, ts) ==
  /\ \E conditional \in BOOLEAN :
       spot' = [s EXCEPT !.cached = IF @ > ts THEN @ ELSE ts,
                         !.last = IF conditional THEN ts ELSE @]
  /\ UNCHANGED perpVars

\* Over the socket: tickers come in order, some may be lost with a connection.
SocketTicker ==
  \E ts \in (spot.socket + 1)..spot.venue :
    TickerArrives([spot EXCEPT !.socket = ts], ts)

\* The fallback poll: the venue answers, and the answer arrives later.
PollAnswered ==
  /\ spot.polled = 0 /\ spot.venue > 0
  /\ spot' = [spot EXCEPT !.polled = spot.venue]
  /\ UNCHANGED perpVars

PollTicker ==
  /\ spot.polled > 0
  /\ TickerArrives([spot EXCEPT !.polled = 0], spot.polled)

-----------------------------------------------------------------------------

MarkElapse ==
  /\ sample' = [s \in External |-> [sample[s] EXCEPT
                  !.age = IF @ <= SampleLife THEN @ + 1 ELSE @]]
  /\ sent' = [sent EXCEPT !.recent = FALSE]
  /\ UNCHANGED <<liar, oraclePoll, ema, stats, spot>>

MarkInit ==
  /\ liar \in Venues
  /\ sample = [s \in External |-> [price |-> NoPrice, age |-> ExpiredAge]]
  /\ oraclePoll = [p \in OraclePolls |-> "idle"]
  /\ ema = NoPrice /\ sent = [price |-> NoPrice, recent |-> FALSE]
  /\ stats = "none"
  /\ spot = [venue |-> 0, socket |-> 0, polled |-> 0, cached |-> 0, last |-> 0]

PerpFeedNext ==
  \/ \E p \in OraclePolls : StartOracle(p) \/ OracleAnswer(p)
  \/ \E mid \in HonestPrices \cup OtherPrices : PerpMid(mid)
  \/ StatsArrive \/ MarkElapse

SpotFeedNext == VenueTrades \/ SocketTicker \/ PollAnswered \/ PollTicker

MarkNext == PerpFeedNext \/ SpotFeedNext

MarkSpec == MarkInit /\ [][MarkNext]_markVars

-----------------------------------------------------------------------------
(* Properties.                                                             *)

MarkTypeOK ==
  /\ liar \in Venues /\ ema \in Nat /\ sent.price \in Nat /\ sent.recent \in BOOLEAN
  /\ \A s \in External : sample[s].price \in Nat /\ sample[s].age \in 0..ExpiredAge
  /\ spot.cached \in 0..spot.venue /\ spot.socket \in 0..spot.venue
  /\ spot.polled \in 0..spot.venue /\ spot.last \in 0..spot.venue
  /\ stats \in {"none", "known", "shown"}

\* "A single manipulated source cannot move a >= 3-source median" (feeds.ts): with
\* both other venues fresh, a mark leaves the range of the mark before it and
\* of what the two honest venues show in neither direction, whichever venue
\* lies and whatever it shows; so the ema carries a lie no further either.
MarkWithinHonest ==
  [][ema' # ema /\ FreshSources = External =>
       LET mids == IF liar = "hl" THEN {} ELSE HonestPrices
           honest == {sample[s].price : s \in External \ {liar}} \cup mids
           around == honest \cup (IF ema = NoPrice THEN {} ELSE {ema})
       IN  Min(around) <= ema' /\ ema' <= Max(around)]_markVars

\* "Stale updates (older ts than the stored one for the same market) are ignored"
\* (priceCache.ts): spot conditional orders are woken by the live price, so the
\* price the engine triggers on never goes back to an older ticker.
LastPriceMovesOn == [][spot'.last >= spot.last]_markVars
=============================================================================
