-------------------------------- MODULE Twap --------------------------------
(***************************************************************************)
(* apps/api/src/twap.ts.  A TWAP is a large order cut into children that a *)
(* timer fires, one a slice, through the pipeline.  A tick walks the jobs  *)
(* and waits for the pipeline inside the walk, so jobs are created and     *)
(* cancelled, and further ticks start, while one is half way.  Times are   *)
(* kept relative to the clock.  The fill count is only shown: left out.    *)
(***************************************************************************)
EXTENDS Integers, Sequences, SequencesExt, FiniteSetsExt

CONSTANTS
  TwapTotals, TwapSlices,  \* total quantities and slice counts asked for
  TwapLot,                 \* the market's lot
  TwapInterval,            \* durationMs / slices
  Retain,                  \* RETAIN_MS
  MaxTwaps, MaxTickLag     \* bounds: jobs ever, and how long a tick lasts

ASSUME TwapAssumption ==
  /\ TwapTotals \subseteq Nat \ {0} /\ TwapSlices \subseteq Nat \ {0, 1}
  /\ TwapLot \in Nat \ {0} /\ TwapInterval \in Nat \ {0}
  /\ Retain \in Nat /\ MaxTwaps \in Nat /\ MaxTickLag \in Nat

VARIABLES
  twaps,  \* the jobs, by creation; an evicted one stays as Gone
  tick    \* the tick under way: the job it reached, the age of its `now`

twapVars == <<twaps, tick>>

NoTick == [on |-> FALSE, at |-> 0, lag |-> 0, child |-> 0]
Gone == [status |-> "gone"]

-----------------------------------------------------------------------------

RoundToLot(qty) == (qty \div TwapLot) * TwapLot

\* A slice below the lot is refused.  The first child fires at the next tick.
CreateTwap(total, slices) ==
  /\ Len(twaps) < MaxTwaps
  /\ RoundToLot(total \div slices) > 0
  /\ twaps' = Append(twaps,
       [total |-> total, slices |-> slices,
        sliceQty |-> RoundToLot(total \div slices), done |-> 0, fired |-> <<>>,
        wait |-> 0, age |-> 0, status |-> "running"])
  /\ UNCHANGED tick

CancelTwap(i) ==
  /\ twaps[i].status = "running"
  /\ twaps' = [twaps EXCEPT ![i].status = "cancelled", ![i].age = 0]
  /\ UNCHANGED tick

StartTick ==
  /\ ~tick.on
  /\ tick' = [NoTick EXCEPT !.on = TRUE]
  /\ UNCHANGED twaps

\* Jobs the walk has still to fire: `now` is the one the tick started with.
DueJobs ==
  {i \in DOMAIN twaps : /\ i > tick.at /\ twaps[i].status = "running"
                        /\ twaps[i].wait + tick.lag <= 0}

\* The last slice carries the remainder.
ChildQty(j) ==
  IF j.slices - j.done = 1 THEN j.total - j.sliceQty * (j.slices - 1)
  ELSE j.sliceQty

Reserve_late(j) ==
  IF j.done + 1 > j.slices THEN [j EXCEPT !.done = @ + 1, !.status = "done",
                                          !.age = tick.lag]
  ELSE [j EXCEPT !.done = @ + 1, !.wait = TwapInterval - tick.lag]

\* The slot is taken before the wait, whatever becomes of the child.
Reserve(j) ==
  IF j.done + 1 >= j.slices THEN [j EXCEPT !.done = @ + 1, !.status = "done",
                                           !.age = tick.lag]
  ELSE [j EXCEPT !.done = @ + 1, !.wait = TwapInterval - tick.lag]

Fired(j) == [Reserve(j) EXCEPT !.fired = Append(@, ChildQty(j))]

\* The child goes to the pipeline, or is not built: no reference price.
FireSlice ==
  /\ tick.on /\ tick.child = 0 /\ DueJobs # {}
  /\ LET i == Min(DueJobs)
         qty == ChildQty(twaps[i])
     IN  /\ twaps' = [twaps EXCEPT ![i] = Fired(@)]
         /\ \E child \in {0, qty} :
              tick' = [tick EXCEPT !.at = i, !.child = child]

\* The engine took the child or refused it; the walk goes on.
SliceEnds ==
  /\ tick.child # 0
  /\ tick' = [tick EXCEPT !.child = 0]
  /\ UNCHANGED twaps

\* Jobs that ended long ago are evicted, and the next tick may start.
EndTick ==
  /\ tick.on /\ tick.child = 0 /\ DueJobs = {}
  /\ twaps' = [i \in DOMAIN twaps |->
       IF /\ twaps[i].status \in {"done", "cancelled"}
          /\ twaps[i].age - tick.lag > Retain
       THEN Gone ELSE twaps[i]]
  /\ tick' = NoTick

Later(j) ==
  CASE j.status = "gone" -> j
    [] j.status = "running" -> [j EXCEPT !.wait = Max({@ - 1, -MaxTickLag})]
    [] OTHER -> [j EXCEPT !.age = Min({@ + 1, Retain + MaxTickLag + 1})]

TwapElapse ==
  /\ tick.lag < MaxTickLag
  /\ tick' = IF tick.on THEN [tick EXCEPT !.lag = @ + 1] ELSE tick
  /\ twaps' = [i \in DOMAIN twaps |-> Later(twaps[i])]

\* The schedule is only in memory.
TwapRestart ==
  /\ twaps # <<>>
  /\ twaps' = [i \in DOMAIN twaps |-> Gone] /\ tick' = NoTick

TwapInit == twaps = <<>> /\ tick = NoTick

TickStep == StartTick \/ FireSlice \/ SliceEnds \/ EndTick

TwapNext ==
  \/ \E total \in TwapTotals, slices \in TwapSlices : CreateTwap(total, slices)
  \/ \E i \in DOMAIN twaps : CancelTwap(i)
  \/ TickStep \/ TwapElapse \/ TwapRestart

TwapSpec == TwapInit /\ [][TwapNext]_twapVars

-----------------------------------------------------------------------------
(* Properties.                                                             *)

TwapTypeOK ==
  /\ tick.on \in BOOLEAN /\ tick.at \in 0..Len(twaps) /\ tick.lag \in 0..MaxTickLag
  /\ (tick.child # 0 \/ tick.at # 0 \/ tick.lag # 0) => tick.on
  /\ \A i \in DOMAIN twaps :
       /\ twaps[i].status \in {"running", "done", "cancelled", "gone"}
       /\ twaps[i].status = "running" =>
            twaps[i].wait \in (-MaxTickLag)..TwapInterval

Sum(s) == FoldSeq(+, 0, s)

\* "Children sum to exactly totalQty" (twap.ts:95-96) and no slice fires twice,
\* whatever ticks, cancels and failures fall between them: a job that is done
\* fired one child per slice and they add up, a running or cancelled one never
\* passed its total; and if the total is whole lots so is every child, which
\* the engine would refuse otherwise.
TwapExact ==
  \A i \in DOMAIN twaps :
    LET j == twaps[i] IN
    j.status # "gone" =>
      /\ Len(j.fired) = j.done /\ j.done <= j.slices
      /\ IF j.status = "done" THEN Len(j.fired) = j.slices /\ Sum(j.fired) = j.total
         ELSE Sum(j.fired) < j.total
      /\ j.total % TwapLot = 0 =>
           \A k \in DOMAIN j.fired : j.fired[k] > 0 /\ j.fired[k] % TwapLot = 0
=============================================================================
