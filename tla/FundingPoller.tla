--------------------------- MODULE FundingPoller ---------------------------
(***************************************************************************)
(* apps/api/src/funding.ts.  Hyperliquid publishes a funding epoch an hour;*)
(* a timer starts a poll a minute, whether the one before has ended or not.*)
(* A poll asks for each perp market's recent epochs and settles, through   *)
(* the pipeline, those above the market's watermark.  The poll waits in two*)
(* places: for the venue's answer, and for the pipeline.  The watermarks   *)
(* are in memory; what has been charged is in the database.                *)
(***************************************************************************)
EXTENDS Integers, FiniteSetsExt, SequencesExt

CONSTANTS
  Perps,           \* the perp markets, in the order getMarkets() lists them
  Polls,           \* polls that may be under way at once
  Lookback,        \* LOOKBACK_MS, in epochs
  ZeroRateEpochs,  \* epochs whose rate is 0
  NoEpoch,         \* an absent watermark
  MaxEpoch, MaxPollFailures, MaxBoots   \* bounds

ASSUME FundingAssumption ==
  /\ Perps \in Seq(STRING) /\ IsInjective(Perps)
  /\ Lookback \in Nat \ {0} /\ MaxEpoch \in Nat
  /\ MaxPollFailures \in Nat /\ MaxBoots \in Nat
  /\ ZeroRateEpochs \subseteq 1..MaxEpoch /\ NoEpoch \notin Int

VARIABLES
  epoch,        \* the latest epoch the venue has published
  running,      \* "up", "stopping" (stop() was called) or "down"
  lastApplied,  \* market -> watermark
  poll,         \* the polls
  charged,      \* market -> epoch -> how often it has been applied
  seed,         \* history: market -> the watermark adopted at boot
  outOfReach,   \* history: market -> epochs a poll could no longer ask for
  pollFaults    \* failures and boots so far

fundingVars ==
  <<epoch, running, lastApplied, poll, charged, seed, outOfReach, pollFaults>>

PerpSet == ToSet(Perps)
Epochs == 1..MaxEpoch
IdlePoll == [pc |-> "idle", at |-> 0, asked |-> 0, fresh |-> {}]

\* fundingHistory(base, now - LOOKBACK_MS), answered when `latest` was the last.
Points(asked, latest) ==
  {e \in Epochs : asked - Lookback < e /\ e <= latest}

-----------------------------------------------------------------------------

\* The loop over the markets goes on to the i-th, or the poll is over.
Ask(p, i) ==
  poll' = [poll EXCEPT ![p] =
             IF i > Len(Perps) \/ running = "stopping" THEN IdlePoll
             ELSE [pc |-> "asking", at |-> i, asked |-> epoch, fresh |-> {}]]

Market(p) == Perps[poll[p].at]
NextMarket(p) == Ask(p, poll[p].at + 1)

\* setInterval: nothing looks whether another poll is under way.
StartPoll(p) ==
  /\ running = "up" /\ poll[p] = IdlePoll
  /\ Ask(p, 1)
  /\ UNCHANGED <<epoch, running, lastApplied, charged, seed, outOfReach,
                 pollFaults>>

\* Boot: the latest epoch counts as settled.
AdoptSeed(p, points) ==
  /\ lastApplied[Market(p)] = NoEpoch
  /\ lastApplied' = [lastApplied EXCEPT ![Market(p)] = Max(points)]
  /\ seed' = [seed EXCEPT ![Market(p)] = Max(points)]
  /\ NextMarket(p)
  /\ UNCHANGED outOfReach

\* The epochs above the watermark; they are settled in chronological order.
Fresh(points, watermark) == {e \in points : e > watermark}

TakeFresh(p, points) ==
  LET m == Market(p)
      fresh == Fresh(points, lastApplied[m])
  IN  /\ lastApplied[m] # NoEpoch
      /\ outOfReach' = [outOfReach EXCEPT ![m] =
           @ \cup {e \in Epochs : lastApplied[m] < e /\ e < Min(points)}]
      /\ IF fresh = {} THEN NextMarket(p)
         ELSE poll' = [poll EXCEPT ![p].pc = "settling", ![p].fresh = fresh]
      /\ UNCHANGED <<lastApplied, seed>>

\* The venue's answer: as old as the question or as new as now.
Answer(p) ==
  /\ poll[p].pc = "asking"
  /\ \E latest \in poll[p].asked..epoch :
       LET points == Points(poll[p].asked, latest) IN
       \/ points = {} /\ NextMarket(p)
          /\ UNCHANGED <<lastApplied, seed, outOfReach>>
       \/ points # {} /\ (AdoptSeed(p, points) \/ TakeFresh(p, points))
  /\ UNCHANGED <<epoch, running, charged, pollFaults>>

Oldest(p) == Min(poll[p].fresh)

\* The oldest epoch is done with, and so is the market after the last one.
Advance(p) ==
  /\ lastApplied' = [lastApplied EXCEPT ![Market(p)] = Oldest(p)]
  /\ IF poll[p].fresh = {Oldest(p)} THEN NextMarket(p)
     ELSE poll' = [poll EXCEPT ![p].pc = "settling", ![p].fresh = @ \ {Oldest(p)}]

\* One turn of the settle loop: stop() ends the poll, a zero rate only moves
\* the watermark, any other rate is queued on the pipeline.
Settle(p) ==
  /\ poll[p].pc = "settling"
  /\ \/ running = "stopping" /\ poll' = [poll EXCEPT ![p] = IdlePoll]
        /\ UNCHANGED lastApplied
     \/ running = "up" /\ Oldest(p) \in ZeroRateEpochs /\ Advance(p)
     \/ /\ running = "up" /\ Oldest(p) \notin ZeroRateEpochs
        /\ poll' = [poll EXCEPT ![p].pc = "queued"]
        /\ UNCHANGED lastApplied
  /\ UNCHANGED <<epoch, running, charged, seed, outOfReach, pollFaults>>

\* The pipeline's turn: applyFunding, durable.
Charge(p) ==
  /\ poll[p].pc = "queued"
  /\ charged' = [charged EXCEPT ![Market(p)][Oldest(p)] = @ + 1]
  /\ poll' = [poll EXCEPT ![p].pc = "charged"]
  /\ UNCHANGED <<epoch, running, lastApplied, seed, outOfReach, pollFaults>>

\* exec's promise resolves.
Charged(p) ==
  /\ poll[p].pc = "charged"
  /\ Advance(p)
  /\ UNCHANGED <<epoch, running, charged, seed, outOfReach, pollFaults>>

Failed_stepsOver(p) ==
  /\ poll[p].pc \in {"asking", "queued"} /\ pollFaults.failures < MaxPollFailures
  /\ pollFaults' = [pollFaults EXCEPT !.failures = @ + 1]
  /\ NextMarket(p)
  /\ lastApplied' = IF poll[p].pc = "asking" THEN lastApplied
                    ELSE [lastApplied EXCEPT ![Market(p)] = Oldest(p)]
  /\ UNCHANGED <<epoch, running, charged, seed, outOfReach>>

\* The request or the command fails: this market is left for the next poll.
Failed(p) ==
  /\ poll[p].pc \in {"asking", "queued"} /\ pollFaults.failures < MaxPollFailures
  /\ pollFaults' = [pollFaults EXCEPT !.failures = @ + 1]
  /\ NextMarket(p)
  /\ UNCHANGED <<epoch, running, lastApplied, charged, seed, outOfReach>>

Publish ==
  /\ epoch < MaxEpoch /\ epoch' = epoch + 1
  /\ UNCHANGED <<running, lastApplied, poll, charged, seed, outOfReach, pollFaults>>

StopFunding ==
  /\ running = "up" /\ running' = "stopping"
  /\ UNCHANGED <<epoch, lastApplied, poll, charged, seed, outOfReach, pollFaults>>

NoWatermarks == [m \in PerpSet |-> NoEpoch]

\* The process ends, in order or not; the watermarks and the polls are gone.
Exit ==
  /\ running # "down" /\ running' = "down"
  /\ lastApplied' = NoWatermarks /\ seed' = NoWatermarks
  /\ poll' = [p \in Polls |-> IdlePoll]
  /\ UNCHANGED <<epoch, charged, outOfReach, pollFaults>>

Boot ==
  /\ running = "down" /\ pollFaults.boots < MaxBoots /\ running' = "up"
  /\ pollFaults' = [pollFaults EXCEPT !.boots = @ + 1]
  /\ UNCHANGED <<epoch, lastApplied, poll, charged, seed, outOfReach>>

FundingInit ==
  /\ epoch = 0 /\ running = "up"
  /\ lastApplied = NoWatermarks /\ seed = NoWatermarks
  /\ poll = [p \in Polls |-> IdlePoll]
  /\ charged = [m \in PerpSet |-> [e \in Epochs |-> 0]]
  /\ outOfReach = [m \in PerpSet |-> {}]
  /\ pollFaults = [failures |-> 0, boots |-> 0]

PollStep(p) == Answer(p) \/ Settle(p) \/ Charge(p) \/ Charged(p)

FundingNext ==
  \/ \E p \in Polls : StartPoll(p) \/ PollStep(p) \/ Failed(p)
  \/ Publish \/ StopFunding \/ Exit \/ Boot

FundingSpec == FundingInit /\ [][FundingNext]_fundingVars

-----------------------------------------------------------------------------
(* Properties.                                                             *)

Watermark == Epochs \cup {0, NoEpoch}

FundingTypeOK ==
  /\ epoch \in 0..MaxEpoch /\ running \in {"up", "stopping", "down"}
  /\ lastApplied \in [PerpSet -> Watermark] /\ seed \in [PerpSet -> Watermark]
  /\ \A p \in Polls :
       /\ poll[p].pc \in {"idle", "asking", "settling", "queued", "charged"}
       /\ poll[p].pc # "idle" => poll[p].at \in DOMAIN Perps
       /\ poll[p].pc \in {"settling", "queued", "charged"} =>
            poll[p].fresh # {} /\ lastApplied[Market(p)] # NoEpoch

\* "Missed hours are caught up" (funding.ts:9), as far as that is true: within one
\* run of the process the watermark passes no epoch that was not charged,
\* however polls overlap and fail, save those that an outage longer than
\* LOOKBACK_MS put out of reach.
OnlyOutageSkips ==
  \A m \in PerpSet, e \in Epochs :
    /\ lastApplied[m] # NoEpoch /\ seed[m] < e /\ e <= lastApplied[m]
    /\ e \notin ZeroRateEpochs \cup outOfReach[m]
    => charged[m][e] > 0

\* "Idempotent across duplicate timer ticks ... so the same epoch is never charged
\* twice" (funding.ts:6-9).
NeverChargedTwice == \A m \in PerpSet, e \in Epochs : charged[m][e] <= 1
=============================================================================
