---------------------------- MODULE VenueSocket ----------------------------
(***************************************************************************)
(* packages/market-data/src/reconnectingWs.ts, the life of a connection to *)
(* a venue, with the live subscriptions of hyperliquidWs.ts and upbitWs.ts *)
(* on top: the coins the owner wants, the coins this connection has been   *)
(* asked to stream, and the frames the venue has sent and the client has   *)
(* not read.  A backoff is a timer that fires some time.                   *)
(***************************************************************************)
EXTENDS Integers, Sequences, FiniteSets

CONSTANTS
  Coins,          \* what can be subscribed
  BackoffCap,     \* attempts at which BACKOFF_CAP_MS is reached
  MaxWireFrames   \* bound: frames on the wire

ASSUME SocketAssumption == BackoffCap \in Nat /\ MaxWireFrames \in Nat

VARIABLES
  link,    \* state, attempts, and the reconnect and stable timers
  wanted,  \* #l2Coins, #codes
  heard,   \* the subscriptions sent on this connection
  wire     \* frames under way, a coin each

socketVars == <<link, wanted, heard, wire>>

NewLink == [state |-> "none", attempts |-> 0, retry |-> FALSE, stable |-> FALSE,
            final |-> FALSE]

-----------------------------------------------------------------------------

\* connect(): not when closed for good, not with a socket already there.
Connect(l) ==
  IF l.final \/ l.state # "none" THEN l ELSE [l EXCEPT !.state = "connecting"]

\* 'open': the stable timer starts, onSocketOpen sends every subscription.
SocketOpens ==
  /\ link.state = "connecting"
  /\ link' = [link EXCEPT !.state = "open", !.stable = TRUE]
  /\ heard' = wanted
  /\ UNCHANGED <<wanted, wire>>

\* The connection has lasted: the backoff starts over.
StableFires ==
  /\ link.stable
  /\ link' = [link EXCEPT !.stable = FALSE, !.attempts = 0]
  /\ UNCHANGED <<wanted, heard, wire>>

Teardown_keepsTimer(l) == [l EXCEPT !.state = "none"]

Teardown(l) == [l EXCEPT !.state = "none", !.stable = FALSE]

ScheduleReconnect(l) ==
  IF l.final \/ l.retry THEN l
  ELSE [l EXCEPT !.retry = TRUE,
                 !.attempts = IF @ < BackoffCap THEN @ + 1 ELSE @]

\* 'close': a refused connection or a lost one; what was on the wire is gone.
SocketCloses ==
  /\ link.state # "none"
  /\ link' = ScheduleReconnect(Teardown(link))
  /\ heard' = {} /\ wire' = <<>>
  /\ UNCHANGED wanted

RetryFires ==
  /\ link.retry
  /\ link' = Connect([link EXCEPT !.retry = FALSE])
  /\ UNCHANGED <<wanted, heard, wire>>

\* close(): final.
CloseSocket ==
  /\ link' = [Teardown(link) EXCEPT !.retry = FALSE, !.final = TRUE]
  /\ heard' = {} /\ wire' = <<>>
  /\ UNCHANGED wanted

\* sendJson drops a frame while the socket is not open; opening sends them all.
SubscribeDiff(next) ==
  IF link.state = "open" THEN (heard \ (wanted \ next)) \cup (next \ wanted)
  ELSE heard

\* setL2Coins, setTradeCoins (a diff) and setCodes (the whole list, never empty).
SetCoins(next) ==
  /\ heard' = SubscribeDiff(next)
  /\ wanted' = next
  /\ UNCHANGED <<link, wire>>

\* The venue streams what it has been asked for.
VenueSends(c) ==
  /\ link.state = "open" /\ c \in heard /\ Len(wire) < MaxWireFrames
  /\ wire' = Append(wire, c)
  /\ UNCHANGED <<link, wanted, heard>>

\* 'message'; a frame that does not parse is reported and dropped.
FrameArrives(c) ==
  /\ wire # <<>> /\ Head(wire) = c
  /\ wire' = Tail(wire)
  /\ UNCHANGED <<link, wanted, heard>>

SocketInit(coins) ==
  /\ link = Connect(NewLink) /\ wanted = coins /\ heard = {} /\ wire = <<>>

SocketStep == SocketOpens \/ StableFires \/ SocketCloses \/ RetryFires

-----------------------------------------------------------------------------
(* Properties.                                                             *)

\* Through any sequence of drops, refusals, reconnects and changes of the wanted
\* set: an open connection has been asked for exactly what is wanted; the
\* stable timer runs only on an open connection, so a venue that accepts and
\* drops keeps backing off; a socket is never given up, unless it was closed,
\* and then nothing of it is left; and at most one of a connection and a
\* reconnect timer exists.
SocketSound ==
  /\ link.state = "open" => heard = wanted
  /\ link.state # "open" => heard = {}
  /\ link.stable => link.state = "open"
  /\ link.retry <=> (link.state = "none" /\ ~link.final)
  /\ link.final => link.state = "none" /\ wire = <<>>
=============================================================================
