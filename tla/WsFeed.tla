------------------------------- MODULE WsFeed -------------------------------
(***************************************************************************)
(* The live stream of one market to one browser: apps/api/src/wsHub.ts,    *)
(* the client of apps/web/src/lib/ws.ts, the book store and the effect of  *)
(* App.tsx that feeds it.  A channel numbers its frames, and channels      *)
(* share no more than the connection, so a behaviour follows one: "book",  *)
(* which sends whole books, throttled, and first sends a subscriber one;   *)
(* or "tape", which stands for the channels that send what is published    *)
(* and replay the latest: trades, ticker, funding, mark, liquidations.     *)
(* The client also asks for a book over REST, to start with and when it    *)
(* saw a gap.  Frames and answers take their time, the connection drops,   *)
(* a frame may be lost.  A book is the engine's number and the stale flag. *)
(***************************************************************************)
EXTENDS Integers, Sequences, SequencesExt, FiniteSets

CONSTANTS
  MaxBookChanges, MaxStreamEvents  \* bounds: changes of the book; selections of
    \* the market, turns of the flag, lost frames and drops together

ASSUME WsAssumption ==
  {MaxBookChanges, MaxStreamEvents} \subseteq Nat

VARIABLES
  channel,   \* the channel followed
  shown,     \* what the server would show: engine seq, stale flag, how many
             \* changes of either there have been
  hub,       \* undispatched: the engine is ahead; dirty: a flush is due;
             \* seq: frames sent
  conn,      \* the connection: open, subscribed, frames both ways
  client,    \* mounted, last seq, the book in the store
  rest,      \* REST: a request not yet served, and answers under way
  streamEvents,       \* how many of those so far
  missed, gapReport   \* history: a frame was lost since the baseline; whether
                      \* the gap checks were right

wsVars == <<channel, shown, hub, conn, client, rest, streamEvents, missed, gapReport>>

NoSeq == -1
NoView == [seq |-> 0, stale |-> FALSE, change |-> 0]   \* of a store just reset
NoConn == [open |-> FALSE, subscribed |-> FALSE, up |-> <<>>, down |-> <<>>]

-----------------------------------------------------------------------------
(* The hub.                                                                *)

\* #send: into the connection, if there is one.
Push(k, frame) == IF k.open THEN [k EXCEPT !.down = Append(@, frame)] ELSE k

DataFrame(seq, reset) == [seq |-> seq, reset |-> reset, view |-> shown']

\* #broadcast: the channel's number goes up, subscriber or not.
Broadcast(h) ==
  /\ hub' = [h EXCEPT !.seq = @ + 1]
  /\ conn' = IF conn.subscribed THEN Push(conn, DataFrame(h.seq + 1, FALSE)) ELSE conn

\* #broadcastBook: nothing, not even a number, when nobody subscribes.
BroadcastBook(h) ==
  \/ channel = "book" /\ Broadcast(h)
  \/ (channel = "book" => ~conn.subscribed) /\ hub' = h /\ UNCHANGED conn

\* The pipeline applies a command; its events go out once they are durable.
EngineChanges ==
  /\ shown.seq <= MaxBookChanges /\ ~hub.undispatched
  /\ shown' = [shown EXCEPT !.seq = @ + 1, !.change = @ + 1]
  /\ hub' = [hub EXCEPT !.undispatched = TRUE]
  /\ UNCHANGED <<channel, conn, client, rest, streamEvents, missed, gapReport>>

\* dispatch(): the book is dirty; a trade, a mark or a liquidation goes out.
Dispatch ==
  /\ hub.undispatched
  /\ UNCHANGED shown
  /\ LET h == [hub EXCEPT !.undispatched = FALSE, !.dirty = TRUE] IN
       \/ hub' = h /\ UNCHANGED conn
       \/ channel = "tape" /\ Broadcast(h)
  /\ UNCHANGED <<channel, client, rest, streamEvents, missed, gapReport>>

BookFlush ==
  /\ hub.dirty
  /\ UNCHANGED shown
  /\ BroadcastBook([hub EXCEPT !.dirty = FALSE])
  /\ UNCHANGED <<channel, client, rest, streamEvents, missed, gapReport>>

\* setFeedStale(): a transition is broadcast at once.
SetFeedStale ==
  /\ channel = "book" /\ streamEvents < MaxStreamEvents
  /\ streamEvents' = streamEvents + 1
  /\ shown' = [shown EXCEPT !.stale = ~@, !.change = @ + 1]
  /\ BroadcastBook(hub)
  /\ UNCHANGED <<channel, client, rest, missed, gapReport>>

Snapshot_numbered == DataFrame(hub.seq + 1, FALSE)

\* #sendSnapshot: the channel's current number, and `reset`.
Snapshot == DataFrame(hub.seq, TRUE)

\* #sendInitial: the tape has one once something was published.
SendInitial(k) ==
  IF channel = "book" \/ hub.seq > 0 THEN Push(k, Snapshot) ELSE k

\* register()'s message handler.
ServerReads ==
  /\ conn.up # <<>>
  /\ UNCHANGED shown
  /\ LET op == Head(conn.up)
         k  == [conn EXCEPT !.up = Tail(@)]
     IN  conn' = CASE op = "subscribe"   -> SendInitial([k EXCEPT !.subscribed = TRUE])
                   [] op = "unsubscribe" -> [k EXCEPT !.subscribed = FALSE]
  /\ UNCHANGED <<channel, hub, client, rest, streamEvents, missed, gapReport>>

-----------------------------------------------------------------------------
(* The client.                                                             *)

\* sendRaw(): nothing while the socket is not open.
Say(k, op) == IF k.open THEN [k EXCEPT !.up = Append(@, op)] ELSE k

\* onopen: every channel with a handler is subscribed again.
Reconnect ==
  /\ ~conn.open
  /\ LET k == [NoConn EXCEPT !.open = TRUE] IN
       conn' = IF client.mounted THEN Say(k, "subscribe") ELSE k
  /\ UNCHANGED <<channel, shown, hub, client, rest, streamEvents, missed, gapReport>>

Newer_always(view) == TRUE

\* setSnapshot: not over a book with a higher number.
Newer(view) == ~(view.seq > 0 /\ view.seq < client.book.seq)

\* checkSeq: a gap is reported unless the frame is a reset, the first seen, or
\* the next.
Gap(f) == ~f.reset /\ client.last # NoSeq /\ f.seq # client.last + 1

\* onmessage, with the handlers of the App's effect: the number is noted whether
\* or not anyone listens, and a gap in the book asks for one over REST.
ClientReads ==
  /\ conn.down # <<>>
  /\ conn' = [conn EXCEPT !.down = Tail(@)]
  /\ LET f == Head(conn.down)
         forBook == client.mounted /\ channel = "book"
     IN  /\ client' = [client EXCEPT
              !.last = f.seq,
              !.book = IF forBook /\ Newer(f.view) THEN f.view ELSE @]
         /\ rest' = IF forBook /\ Gap(f) THEN [rest EXCEPT !.asked = TRUE] ELSE rest
         /\ gapReport' = (gapReport /\ (client.mounted => Gap(f) = (missed /\ ~f.reset)))
         /\ missed' = FALSE
  /\ UNCHANGED <<channel, shown, hub, streamEvents>>

\* The effect runs for the market: the store is reset, the channel subscribed,
\* a book asked for.
Mount ==
  /\ ~client.mounted /\ streamEvents < MaxStreamEvents
  /\ streamEvents' = streamEvents + 1
  /\ client' = [client EXCEPT !.mounted = TRUE, !.book = NoView]
  /\ conn' = Say(conn, "subscribe")
  /\ rest' = [rest EXCEPT !.asked = (channel = "book")]
  /\ UNCHANGED <<channel, shown, hub, missed, gapReport>>

\* Its clean-up, when another market is selected: the baseline is forgotten.
Unmount ==
  /\ client.mounted
  /\ client' = [client EXCEPT !.mounted = FALSE, !.last = NoSeq]
  /\ conn' = Say(conn, "unsubscribe")
  /\ missed' = FALSE
  /\ UNCHANGED <<channel, shown, hub, rest, streamEvents, gapReport>>

\* GET /api/orderbook: answered from the engine, received some time later.
RestServed ==
  /\ rest.asked
  /\ rest' = [asked |-> FALSE, answers |-> Append(rest.answers, shown)]
  /\ UNCHANGED <<channel, shown, hub, conn, client, streamEvents, missed, gapReport>>

\* A book of a market that is no longer selected is dropped.
RestArrives(i) ==
  /\ rest' = [rest EXCEPT !.answers = RemoveAt(@, i)]
  /\ client' = IF client.mounted /\ Newer(rest.answers[i])
               THEN [client EXCEPT !.book = rest.answers[i]] ELSE client
  /\ UNCHANGED <<channel, shown, hub, conn, streamEvents, missed, gapReport>>

-----------------------------------------------------------------------------
(* Faults.                                                                 *)

\* The next frame is dropped on the way to this client, which should notice at
\* the one after it, when it has a number to go by.
FrameLost ==
  /\ streamEvents < MaxStreamEvents
  /\ conn.down # <<>> /\ ~Head(conn.down).reset
  /\ streamEvents' = streamEvents + 1
  /\ conn' = [conn EXCEPT !.down = Tail(@)]
  /\ missed' = (missed \/ client.last # NoSeq)
  /\ UNCHANGED <<channel, shown, hub, client, rest, gapReport>>

\* The connection drops, or #heartbeat closes a silent one, with what was under
\* way on it.
Disconnect ==
  /\ conn.open /\ streamEvents < MaxStreamEvents
  /\ streamEvents' = streamEvents + 1
  /\ conn' = NoConn
  /\ UNCHANGED <<channel, shown, hub, client, rest, missed, gapReport>>

WsInit ==
  /\ channel \in {"book", "tape"}
  /\ shown = [seq |-> 1, stale |-> FALSE, change |-> 1]
  /\ hub = [undispatched |-> FALSE, dirty |-> FALSE, seq |-> 0]
  /\ conn = NoConn
  /\ client = [mounted |-> FALSE, last |-> NoSeq, book |-> NoView]
  /\ rest = [asked |-> FALSE, answers |-> <<>>]
  /\ streamEvents = 0
  /\ missed = FALSE /\ gapReport = TRUE

StreamStep == Dispatch \/ BookFlush \/ ServerReads \/ ClientReads

WsNext ==
  \/ StreamStep \/ EngineChanges \/ SetFeedStale \/ Reconnect
  \/ Mount \/ Unmount \/ RestServed \/ FrameLost \/ Disconnect
  \/ \E i \in DOMAIN rest.answers : RestArrives(i)

\* The flush timer fires, and frames on an open connection are read.
WsSpec == WsInit /\ [][WsNext]_wsVars /\ WF_wsVars(StreamStep)

-----------------------------------------------------------------------------
(* Properties.                                                             *)

\* The type invariant.
WsTypeOK ==
  /\ shown.seq \in 1..(MaxBookChanges + 1)
  /\ client.book.seq \in 0..shown.seq /\ client.last \in NoSeq..hub.seq
  /\ ~conn.open => conn = NoConn

\* "A client can detect a dropped frame on its own channel as a gap", and the
\* snapshot a (re)subscriber gets makes it reset "instead of seeing a spurious
\* gap" (wsHub.ts): a gap is reported when, and only when, a frame was lost on
\* this connection, over reconnects, market changes and frames that arrive
\* after the unsubscribe.
LossSeen == gapReport

\* A client that stays connected comes to show the engine's book, unless the
\* last frame to it was lost: no change is forgotten by the throttle, and no
\* older book, over REST or from an earlier mount, stays in its place.
BookConverges ==
  []<>(\/ channel # "book" \/ ~conn.open \/ ~client.mounted
       \/ client.book.seq = shown.seq \/ missed)

\* "Never let a stale REST seed clobber a fresher WS snapshot" (book.ts): while a
\* market stays mounted its book never goes back to an earlier one.
SeedNeverClobbers ==
  [][client.mounted /\ client'.mounted =>
       client'.book.change >= client.book.change]_wsVars
=============================================================================
