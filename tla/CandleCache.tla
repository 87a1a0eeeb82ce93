---------------------------- MODULE CandleCache ----------------------------
(***************************************************************************)
(* packages/market-data/src/candles.ts, for one (market, interval) key: a  *)
(* cache with a time to live and one shared request in flight.  A caller   *)
(* may take the cached window, wait for a request another caller made, or  *)
(* make its own; several can be at the venue at once, for different sizes. *)
(* fetchJson (util.ts) gives up on late headers, not on a slow body.       *)
(***************************************************************************)
EXTENDS Integers, FiniteSets

CONSTANTS
  Callers,       \* calls of get() that may be under way at once
  Limits,        \* numbers of candles asked for
  CandleTtl,     \* ttlMs
  MaxFetchTime   \* bound: how long a request lasts (see CandleElapse)

NoCaller == "none"

ASSUME CandleAssumption ==
  /\ Limits \subseteq Nat \ {0} /\ CandleTtl \in Nat \ {0}
  /\ MaxFetchTime \in Nat /\ NoCaller \notin Callers

VARIABLES
  fetch,     \* caller -> its own request at the venue: its size and its age
  sharing,   \* caller -> the caller whose request it waits for, and its limit
  cache,     \* the window: size, time since it was stored, age of the data
  inFlight,  \* the caller whose request new callers may share
  answer     \* the last answer given: what was asked, its size, its age

candleVars == <<fetch, sharing, cache, inFlight, answer>>

NoFetch == [limit |-> 0, age |-> 0]
NoShare == [with |-> NoCaller, limit |-> 0]
NoWindow == [limit |-> 0, at |-> CandleTtl, age |-> 0]
NoAnswer == [asked |-> 0, got |-> 0, age |-> 0]

\* Ages saturate: beyond these every test and property gives one answer.
OldestWindow == CandleTtl + MaxFetchTime + 1

-----------------------------------------------------------------------------

CallerIdle(c) == fetch[c] = NoFetch /\ sharing[c] = NoShare

WindowFresh(window) == window.at < CandleTtl

\* get(): from the cache.
HitCache(c, limit) ==
  /\ CallerIdle(c) /\ WindowFresh(cache) /\ cache.limit >= limit
  /\ answer' = [asked |-> limit, got |-> cache.limit, age |-> cache.age]
  /\ UNCHANGED <<fetch, sharing, cache, inFlight>>

Shareable(limit) == inFlight # NoCaller /\ fetch[inFlight].limit >= limit

Missed(limit) == ~(WindowFresh(cache) /\ cache.limit >= limit)

\* get(): wait for a request under way that is large enough.
ShareFetch(c, limit) ==
  /\ CallerIdle(c) /\ Missed(limit) /\ Shareable(limit)
  /\ sharing' = [sharing EXCEPT ![c] = [with |-> inFlight, limit |-> limit]]
  /\ UNCHANGED <<fetch, cache, inFlight, answer>>

\* get(): ask the venue, and be the request others share.
StartFetch(c, limit) ==
  /\ CallerIdle(c) /\ Missed(limit) /\ ~Shareable(limit)
  /\ fetch' = [fetch EXCEPT ![c] = [limit |-> limit, age |-> 0]]
  /\ inFlight' = c
  /\ UNCHANGED <<sharing, cache, answer>>

\* Only the request's own entry: a larger one may have replaced it.
ClearInFlight(c) == IF inFlight = c THEN NoCaller ELSE inFlight

KeepExisting_never(limit) == FALSE

\* A larger window that is still fresh stays.
KeepExisting(limit) == cache.limit > limit /\ WindowFresh(cache)

\* The venue answers: the caller and those who share its request are served.
FetchReturns(c) ==
  /\ fetch[c] # NoFetch
  /\ inFlight' = ClearInFlight(c)
  /\ cache' = IF KeepExisting(fetch[c].limit) THEN cache
              ELSE [limit |-> fetch[c].limit, at |-> 0, age |-> fetch[c].age]
  /\ \E asked \in {fetch[c].limit} \cup
                  {sharing[d].limit : d \in {e \in Callers : sharing[e].with = c}} :
       answer' = [asked |-> asked, got |-> fetch[c].limit, age |-> fetch[c].age]
  /\ fetch' = [fetch EXCEPT ![c] = NoFetch]
  /\ sharing' = [d \in Callers |->
                   IF sharing[d].with = c THEN NoShare ELSE sharing[d]]

\* The request fails or times out, for all who wait for it.
FetchFails(c) ==
  /\ fetch[c] # NoFetch
  /\ inFlight' = ClearInFlight(c)
  /\ fetch' = [fetch EXCEPT ![c] = NoFetch]
  /\ sharing' = [d \in Callers |->
                   IF sharing[d].with = c THEN NoShare ELSE sharing[d]]
  /\ UNCHANGED <<cache, answer>>

\* fetchJson's timer stops at the headers: only the bound ends a slow body.
CandleElapse ==
  /\ \A c \in Callers : fetch[c].age < MaxFetchTime
  /\ fetch' = [c \in Callers |->
                 IF fetch[c] = NoFetch THEN NoFetch
                 ELSE [fetch[c] EXCEPT !.age = @ + 1]]
  /\ cache' = [cache EXCEPT !.at = IF @ < CandleTtl THEN @ + 1 ELSE @,
                            !.age = IF @ < OldestWindow THEN @ + 1 ELSE @]
  /\ answer' = NoAnswer
  /\ UNCHANGED <<sharing, inFlight>>

CandleInit ==
  /\ fetch = [c \in Callers |-> NoFetch] /\ sharing = [c \in Callers |-> NoShare]
  /\ cache = NoWindow /\ inFlight = NoCaller /\ answer = NoAnswer

CandleNext ==
  \/ \E c \in Callers :
       \/ \E limit \in Limits :
            HitCache(c, limit) \/ ShareFetch(c, limit) \/ StartFetch(c, limit)
       \/ FetchReturns(c) \/ FetchFails(c)
  \/ CandleElapse

CandleSpec == CandleInit /\ [][CandleNext]_candleVars

-----------------------------------------------------------------------------
(* Properties.                                                             *)

CandleTypeOK ==
  /\ inFlight \in Callers \cup {NoCaller}
  /\ \A c \in Callers :
       /\ fetch[c].limit \in Limits \cup {0} /\ fetch[c].age \in 0..MaxFetchTime
       /\ sharing[c].with \in Callers \cup {NoCaller}
       /\ fetch[c] = NoFetch \/ sharing[c] = NoShare
  /\ cache.at \in 0..CandleTtl /\ cache.age \in 0..OldestWindow

Served ==
  /\ answer.got >= answer.asked
  /\ answer.age < CandleTtl + MaxFetchTime
  /\ inFlight # NoCaller => fetch[inFlight] # NoFetch
  /\ \A c \in Callers :
       LET w == sharing[c].with IN
       w # NoCaller => fetch[w].limit >= sharing[c].limit

\* Whoever answers a call, the cache, its own request or one it shares, the
\* window covers what was asked and is younger than the time to live plus the
\* longest a request lasts; the entry in flight is a request that is still running,
\* and at least as large as any call that waits for it.  A window that is
\* fresh is never replaced by a smaller one, in whatever order requests end.
CandleSound ==
  /\ []Served
  /\ [][cache'.limit >= cache.limit \/ ~WindowFresh(cache)]_candleVars
=============================================================================
