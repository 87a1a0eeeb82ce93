--------------------------- MODULE ServicesProofs ---------------------------
(***************************************************************************)
(* Theorems about the services around the engine (Services), for every     *)
(* value of the constants.                                                 *)
(***************************************************************************)
EXTENDS Services, ArithmeticProofs, SequenceTheorems

-----------------------------------------------------------------------------
(* The live stream (WsFeed): over any number of changes, subscriptions,    *)
(* reconnects and lost frames the client reports a gap when and only when  *)
(* it missed a frame.                                                      *)

Views == [seq : Nat, stale : BOOLEAN, change : Nat]
Frames == [seq : Nat, reset : BOOLEAN, view : Views]

Hubs == [undispatched : BOOLEAN, dirty : BOOLEAN, seq : Nat]
Ops == {"subscribe", "unsubscribe"}
Conns == [open : BOOLEAN, subscribed : BOOLEAN, up : Seq(Ops), down : Seq(Frames)]
Clients == [mounted : BOOLEAN, last : Nat \cup {NoSeq}, book : Views]
Rests == [asked : BOOLEAN, answers : Seq(Views)]

StreamTypes ==
  /\ channel \in {"book", "tape"} /\ shown \in Views
  /\ hub \in Hubs /\ conn \in Conns /\ client \in Clients /\ rest \in Rests
  /\ missed \in BOOLEAN

\* On one connection a frame is the next of the one before it, or resets.
Chained(s) ==
  \A i \in DOMAIN s : i + 1 \in DOMAIN s =>
    s[i + 1].reset \/ s[i + 1].seq = s[i].seq + 1

\* n is the next number a client waits for, or a later one if it missed some.
Follows(last, lost, n) ==
  last # NoSeq => IF lost THEN n > last + 1 ELSE n = last + 1

\* The inductive invariant: the numbers the client has and will see, from its
\* last one over the frames under way to the hub's, have no hole but the lost
\* frames, unless a reset comes first.
StreamInv ==
  /\ missed => client.last # NoSeq
  /\ Chained(conn.down)
  /\ conn.down # <<>> =>
       \/ Head(conn.down).reset
       \/ Follows(client.last, missed, Head(conn.down).seq)
  /\ conn.subscribed /\ conn.down = <<>> => Follows(client.last, missed, hub.seq + 1)
  /\ conn.subscribed /\ conn.down # <<>> => Last(conn.down).seq = hub.seq
  /\ conn.subscribed \/ conn.up # <<>> => conn.open
  /\ channel = "tape" /\ hub.seq = 0 => conn.down = <<>> /\ client.last = NoSeq
  /\ gapReport

-----------------------------------------------------------------------------

\* A frame is sent.
LEMMA ChainedAppend ==
  ASSUME NEW s \in Seq(Frames), NEW f \in Frames, Chained(s),
         s # <<>> => f.reset \/ f.seq = Last(s).seq + 1
  PROVE  /\ Append(s, f) \in Seq(Frames) /\ Append(s, f) # <<>>
         /\ Chained(Append(s, f)) /\ Last(Append(s, f)) = f
         /\ Head(Append(s, f)) = IF s = <<>> THEN f ELSE Head(s)
<1> DEFINE t == Append(s, f)
<1>1. /\ t \in Seq(Frames) /\ Len(t) = Len(s) + 1
      /\ DOMAIN s = 1..Len(s) /\ Len(s) \in Nat
      /\ DOMAIN t = 1..(Len(s) + 1)
      /\ \A i \in 1..Len(s) : t[i] = s[i]
      /\ t[Len(s) + 1] = f
  BY AppendProperties, LenProperties
<1>2. Head(t) = IF s = <<>> THEN f ELSE Head(s)
  BY HeadTailAppend
<1> HIDE DEF t
<1>3. t # <<>> /\ Last(t) = f
  <2>1. t # <<>>
    BY <1>1, EmptySeq
  <2> QED BY <1>1, <2>1 DEF Last
<1>4. s # <<>> => Last(s) = s[Len(s)] /\ Len(s) # 0
  BY EmptySeq DEF Last
<1>5. Chained(t)
  <2> SUFFICES ASSUME NEW i \in 1..(Len(s) + 1), i + 1 \in 1..(Len(s) + 1)
               PROVE  t[i + 1].reset \/ t[i + 1].seq = t[i].seq + 1
    BY <1>1 DEF Chained
  <2>1. CASE i + 1 \in 1..Len(s)
    <3>1. i \in 1..Len(s) /\ t[i] = s[i] /\ t[i + 1] = s[i + 1]
      BY <1>1, <2>1
    <3> QED BY <1>1, <2>1, <3>1 DEF Chained
  <2>2. CASE i + 1 = Len(s) + 1
    <3>1. i = Len(s) /\ t[i] = s[i] /\ t[i + 1] = f
      <4>n. PICK n \in Nat : n = Len(s)
        BY <1>1
      <4>1. i = n /\ i + 1 = n + 1 /\ i \in 1..n
        BY <2>2, <4>n
      <4> QED BY <1>1, <4>1, <4>n
    <3>2. s # <<>>
      BY <1>1, <3>1, EmptySeq
    <3> QED BY <3>1, <3>2, <1>4
  <2> QED BY <2>1, <2>2, <1>1
<1> QED BY <1>1, <1>2, <1>3, <1>5 DEF t

\* The first frame under way is read or lost.
LEMMA ChainedTail ==
  ASSUME NEW s \in Seq(Frames), Chained(s), s # <<>>
  PROVE  /\ Tail(s) \in Seq(Frames) /\ Chained(Tail(s)) /\ Head(s) \in Frames
         /\ Tail(s) = <<>> => Last(s) = Head(s)
         /\ Tail(s) # <<>> =>
              /\ Last(Tail(s)) = Last(s)
              /\ Head(Tail(s)).reset \/ Head(Tail(s)).seq = Head(s).seq + 1
<1>1. /\ Tail(s) \in Seq(Frames) /\ Head(s) \in Frames /\ Head(s) = s[1]
      /\ Len(Tail(s)) = Len(s) - 1 /\ Len(s) \in Nat /\ Len(s) # 0
      /\ DOMAIN s = 1..Len(s) /\ DOMAIN Tail(s) = 1..(Len(s) - 1)
      /\ \A i \in 1..(Len(s) - 1) : Tail(s)[i] = s[i + 1]
  BY HeadTailProperties, LenProperties, EmptySeq
<1>2. Chained(Tail(s))
  BY <1>1 DEF Chained
<1>3. Last(s) = s[Len(s)] /\ (Tail(s) = <<>> <=> Len(s) = 1)
  BY <1>1, EmptySeq DEF Last
<1>4. Tail(s) # <<>> => Last(Tail(s)) = s[Len(s)] /\ Head(Tail(s)) = s[2]
  BY <1>1, <1>3 DEF Last
<1>5. Tail(s) # <<>> => s[2].reset \/ s[2].seq = s[1].seq + 1
  BY <1>1, <1>3 DEF Chained
<1> QED BY <1>1, <1>2, <1>3, <1>4, <1>5
-----------------------------------------------------------------------------

\* The records of the state, field by field.
LEMMA StreamFields ==
  ASSUME StreamTypes
  PROVE  /\ hub \in Hubs /\ hub.seq \in Nat /\ shown \in Views
         /\ hub = [undispatched |-> hub.undispatched, dirty |-> hub.dirty,
                   seq |-> hub.seq]
         /\ conn \in Conns /\ conn.open \in BOOLEAN /\ conn.subscribed \in BOOLEAN
         /\ conn.up \in Seq(Ops) /\ conn.down \in Seq(Frames)
         /\ conn = [open |-> conn.open, subscribed |-> conn.subscribed,
                    up |-> conn.up, down |-> conn.down]
         /\ client \in Clients /\ client.mounted \in BOOLEAN /\ client.book \in Views
         /\ client.last \in Nat \cup {NoSeq}
         /\ client = [mounted |-> client.mounted, last |-> client.last,
                      book |-> client.book]
<1>1. /\ hub \in Hubs /\ conn \in Conns /\ client \in Clients /\ shown \in Views
  BY DEF StreamTypes
<1>2. /\ hub.seq \in Nat
      /\ hub = [undispatched |-> hub.undispatched, dirty |-> hub.dirty,
                seq |-> hub.seq]
  BY <1>1 DEF Hubs
<1>3. /\ conn.open \in BOOLEAN /\ conn.subscribed \in BOOLEAN
      /\ conn.up \in Seq(Ops) /\ conn.down \in Seq(Frames)
      /\ conn = [open |-> conn.open, subscribed |-> conn.subscribed,
                 up |-> conn.up, down |-> conn.down]
  BY <1>1 DEF Conns
<1>4. /\ client.mounted \in BOOLEAN /\ client.book \in Views
      /\ client.last \in Nat \cup {NoSeq}
      /\ client = [mounted |-> client.mounted, last |-> client.last,
                   book |-> client.book]
  BY <1>1 DEF Clients
<1> QED BY <1>1, <1>2, <1>3, <1>4

\* A field of a connection is replaced.
LEMMA ConnFields ==
  ASSUME NEW k \in Conns
  PROVE  /\ \A x \in Seq(Ops) : LET m == [k EXCEPT !.up = x] IN
              /\ m = [open |-> k.open, subscribed |-> k.subscribed, up |-> x,
                      down |-> k.down]
              /\ m \in Conns
         /\ \A x \in Seq(Frames) : LET m == [k EXCEPT !.down = x] IN
              /\ m = [open |-> k.open, subscribed |-> k.subscribed, up |-> k.up,
                      down |-> x]
              /\ m \in Conns
         /\ \A x \in BOOLEAN : LET m == [k EXCEPT !.subscribed = x] IN
              /\ m = [open |-> k.open, subscribed |-> x, up |-> k.up,
                      down |-> k.down]
              /\ m \in Conns
<1>1. ASSUME NEW x \in Seq(Ops)
      PROVE  LET m == [k EXCEPT !.up = x] IN
              /\ m = [open |-> k.open, subscribed |-> k.subscribed, up |-> x,
                      down |-> k.down]
              /\ m \in Conns
  BY <1>1 DEF Conns
<1>2. ASSUME NEW x \in Seq(Frames)
      PROVE  LET m == [k EXCEPT !.down = x] IN
              /\ m = [open |-> k.open, subscribed |-> k.subscribed, up |-> k.up,
                      down |-> x]
              /\ m \in Conns
  BY <1>2 DEF Conns
<1>3. ASSUME NEW x \in BOOLEAN
      PROVE  LET m == [k EXCEPT !.subscribed = x] IN
              /\ m = [open |-> k.open, subscribed |-> x, up |-> k.up,
                      down |-> k.down]
              /\ m \in Conns
  BY <1>3 DEF Conns
<1> QED BY <1>1, <1>2, <1>3

LEMMA StreamInitInv == WsInit => StreamTypes /\ StreamInv
<1> SUFFICES ASSUME WsInit PROVE StreamTypes /\ StreamInv
  OBVIOUS
<1>1. \A S : <<>> \in Seq(S)
  BY EmptySeq
<1>2. StreamTypes
  BY <1>1 DEF WsInit, StreamTypes, NoConn, NoView, Views, Hubs, Conns, Clients,
              Rests
<1>3. conn.down = <<>> /\ conn.up = <<>> /\ ~conn.subscribed
      /\ client.last = NoSeq
  BY DEF WsInit, NoConn
<1>4. Chained(conn.down)
  BY <1>3 DEF Chained
<1> QED BY <1>2, <1>3, <1>4 DEF StreamInv, WsInit

\* The hub numbers a frame and sends it to the subscriber, if there is one.
LEMMA BroadcastInv ==
  ASSUME StreamTypes, StreamInv, NEW h \in Hubs, h.seq = hub.seq, Broadcast(h),
         shown' \in Views, UNCHANGED <<channel, client, rest, missed, gapReport>>
  PROVE  StreamTypes' /\ StreamInv'
<1> DEFINE f == [seq |-> hub.seq + 1, reset |-> FALSE, view |-> shown']
<1>1. hub' \in Hubs /\ hub'.seq = hub.seq + 1 /\ hub.seq \in Nat
  BY StreamFields DEF Broadcast, Hubs
<1>2. f \in Frames
  BY <1>1 DEF Frames
<1>3. CASE ~conn.subscribed
  <2>1. conn' = conn
    BY <1>3 DEF Broadcast
  <2>2. StreamTypes'
    BY <1>1, <2>1 DEF StreamTypes, Hubs
  <2> QED BY <1>1, <1>3, <2>1, <2>2 DEF StreamInv, Follows
<1>4. CASE conn.subscribed
  <2>1. conn' = [conn EXCEPT !.down = Append(conn.down, f)]
    BY <1>4 DEF Broadcast, Push, DataFrame, StreamInv
  <2>2. conn.down \in Seq(Frames)
    BY StreamFields
  <2>3. conn.down # <<>> => f.seq = Last(conn.down).seq + 1
    BY <1>4 DEF StreamInv
  <2> HIDE DEF f
  <2>4. /\ Append(conn.down, f) \in Seq(Frames) /\ Append(conn.down, f) # <<>>
        /\ Chained(Append(conn.down, f)) /\ Last(Append(conn.down, f)) = f
        /\ Head(Append(conn.down, f)) = IF conn.down = <<>> THEN f
                                                            ELSE Head(conn.down)
    BY <1>2, <2>2, <2>3, ChainedAppend DEF StreamInv
  <2>5. /\ conn'.down = Append(conn.down, f) /\ conn'.open = conn.open
        /\ conn'.up = conn.up /\ conn'.subscribed = conn.subscribed
        /\ conn' \in Conns
    BY <2>1, <2>4 DEF StreamTypes, Conns
  <2>6. StreamTypes'
    BY <1>1, <2>5 DEF StreamTypes, Hubs
  <2>7. f.seq = hub'.seq
    BY <1>1 DEF f
  <2>8. Head(conn'.down).reset \/ Follows(client.last, missed, Head(conn'.down).seq)
    BY <1>1, <1>4, <2>4, <2>5, <2>7 DEF StreamInv
  <2> QED BY <1>1, <1>4, <2>4, <2>5, <2>6, <2>7, <2>8 DEF StreamInv, Follows
<1> QED BY <1>3, <1>4

\* The book is sent, or nobody subscribes to it.
LEMMA BroadcastBookInv ==
  ASSUME StreamTypes, StreamInv, NEW h \in Hubs, h.seq = hub.seq,
         BroadcastBook(h), shown' \in Views,
         UNCHANGED <<channel, client, rest, missed, gapReport>>
  PROVE  StreamTypes' /\ StreamInv'
<1>1. CASE channel = "book" /\ Broadcast(h)
  BY <1>1, BroadcastInv
<1>2. CASE hub' = h /\ UNCHANGED conn
  <2>1. StreamTypes'
    BY <1>2 DEF StreamTypes, Hubs
  <2> QED BY <1>2, <2>1 DEF StreamInv, Follows
<1> QED BY <1>1, <1>2 DEF BroadcastBook

\* What the hub and the server do.
LEMMA HubInv ==
  ASSUME StreamTypes, StreamInv,
         EngineChanges \/ Dispatch \/ BookFlush \/ SetFeedStale
  PROVE  StreamTypes' /\ StreamInv'
<1>1. shown' \in Views
  <2>1. shown \in Views
    BY StreamFields
  <2>2. CASE EngineChanges
    <3>1. shown' = [shown EXCEPT !.seq = shown.seq + 1,
                                 !.change = shown.change + 1]
      BY <2>2 DEF EngineChanges
    <3>2. shown' = [seq |-> shown.seq + 1, stale |-> shown.stale,
                    change |-> shown.change + 1]
      BY <2>1, <3>1 DEF Views
    <3> QED BY <2>1, <3>2 DEF Views
  <2>3. CASE SetFeedStale
    <3> DEFINE stale == ~shown.stale
    <3>1. shown' = [shown EXCEPT !.stale = stale, !.change = shown.change + 1]
          /\ stale \in BOOLEAN
      BY <2>3 DEF SetFeedStale
    <3> HIDE DEF stale
    <3>2. shown' = [seq |-> shown.seq, stale |-> stale,
                    change |-> shown.change + 1]
      BY <2>1, <3>1 DEF Views
    <3> QED BY <2>1, <3>1, <3>2 DEF Views
  <2> QED BY <2>1, <2>2, <2>3 DEF Dispatch, BookFlush
<1>2. CASE EngineChanges
  <2>1. /\ hub' \in Hubs /\ hub'.seq = hub.seq
        /\ UNCHANGED <<channel, conn, client, rest, missed, gapReport>>
    BY <1>2, StreamFields DEF EngineChanges, Hubs
  <2>2. StreamTypes'
    BY <1>1, <2>1 DEF StreamTypes
  <2> QED BY <2>1, <2>2 DEF StreamInv, Follows
<1>3. CASE Dispatch
  <2> DEFINE h == [hub EXCEPT !.undispatched = FALSE, !.dirty = TRUE]
  <2>1. h \in Hubs /\ h.seq = hub.seq
    BY StreamFields DEF Hubs
  <2>2. (hub' = h /\ UNCHANGED conn) \/ Broadcast(h)
    BY <1>3 DEF Dispatch
  <2> HIDE DEF h
  <2>3. CASE hub' = h /\ UNCHANGED conn
    <3>1. StreamTypes'
      BY <1>1, <1>3, <2>1, <2>3 DEF StreamTypes, Hubs, Dispatch
    <3> QED BY <1>3, <2>1, <2>3, <3>1 DEF StreamInv, Follows, Dispatch
  <2>4. CASE Broadcast(h)
    BY <1>1, <1>3, <2>1, <2>4, BroadcastInv DEF Dispatch
  <2> QED BY <2>2, <2>3, <2>4
<1>4. CASE BookFlush
  <2> DEFINE h == [hub EXCEPT !.dirty = FALSE]
  <2>1. h \in Hubs /\ h.seq = hub.seq
    BY StreamFields DEF Hubs
  <2>2. BroadcastBook(h)
    BY <1>4 DEF BookFlush
  <2> HIDE DEF h
  <2> QED BY <1>1, <1>4, <2>1, <2>2, BroadcastBookInv DEF BookFlush
<1>5. CASE SetFeedStale
  BY <1>1, <1>5, BroadcastBookInv DEF SetFeedStale, StreamTypes, Hubs
<1> QED BY <1>2, <1>3, <1>4, <1>5

\* The server reads a subscription, and answers with what there is, or its end.
LEMMA ServerReadsInv ==
  ASSUME StreamTypes, StreamInv, ServerReads
  PROVE  StreamTypes' /\ StreamInv'
<1> DEFINE f == [seq |-> hub.seq, reset |-> TRUE, view |-> shown]
           rest_up == Tail(conn.up)
           k == [conn EXCEPT !.up = rest_up]
<1>1. /\ conn \in Conns /\ conn.up # <<>> /\ conn.open
      /\ rest_up \in Seq(Ops) /\ Head(conn.up) \in Ops
      /\ hub.seq \in Nat /\ conn.down \in Seq(Frames)
      /\ UNCHANGED <<channel, shown, hub, client, rest, missed, gapReport>>
  BY StreamFields, HeadTailProperties DEF StreamInv, ServerReads
<1>2. /\ Head(conn.up) = "subscribe" =>
           conn' = SendInitial([k EXCEPT !.subscribed = TRUE])
      /\ Head(conn.up) = "unsubscribe" =>
           conn' = [k EXCEPT !.subscribed = FALSE]
  BY DEF ServerReads
<1>3. f \in Frames /\ f.reset /\ f.seq = hub.seq
  BY <1>1, StreamFields DEF Frames
<1> HIDE DEF rest_up
<1>4. k = [open |-> conn.open, subscribed |-> conn.subscribed, up |-> rest_up,
           down |-> conn.down] /\ k \in Conns
  BY <1>1, ConnFields
<1> HIDE DEF k
<1>5. k.open /\ k.down = conn.down
  BY <1>1, <1>4
<1>6. CASE Head(conn.up) = "unsubscribe"
  <2>1. /\ conn' = [open |-> k.open, subscribed |-> FALSE, up |-> k.up,
                    down |-> k.down]
        /\ conn' \in Conns
    BY <1>2, <1>4, <1>6, ConnFields
  <2>2. conn'.down = conn.down /\ ~conn'.subscribed /\ conn'.open
    BY <1>5, <2>1
  <2>3. StreamTypes'
    BY <1>1, <2>1 DEF StreamTypes
  <2> QED BY <1>1, <2>2, <2>3 DEF StreamInv, Follows
<1>7. CASE Head(conn.up) = "subscribe"
  <2> DEFINE m == [k EXCEPT !.subscribed = TRUE]
  <2>1. /\ m = [open |-> k.open, subscribed |-> TRUE, up |-> k.up,
                down |-> k.down]
        /\ m \in Conns
    BY <1>4, ConnFields
  <2>2. conn' = SendInitial(m)
    BY <1>2, <1>7
  <2> HIDE DEF m
  <2>3. m.open /\ m.subscribed /\ m.down = conn.down
    BY <1>5, <2>1
  <2>4. CASE channel = "book" \/ hub.seq > 0
    <3>1. conn' = [m EXCEPT !.down = Append(conn.down, f)]
      BY <1>1, <2>2, <2>3, <2>4 DEF SendInitial, Push, Snapshot, DataFrame
    <3> HIDE DEF f
    <3> DEFINE d == Append(conn.down, f)
    <3>2. /\ d \in Seq(Frames) /\ d # <<>>
          /\ Chained(d) /\ Last(d) = f
          /\ Head(d) = IF conn.down = <<>> THEN f ELSE Head(conn.down)
      BY <1>1, <1>3, ChainedAppend DEF StreamInv
    <3> HIDE DEF d
    <3>3. /\ conn' = [open |-> m.open, subscribed |-> m.subscribed, up |-> m.up,
                      down |-> d]
          /\ conn' \in Conns
      BY <2>1, <3>1, <3>2, ConnFields DEF d
    <3>4. conn'.open /\ conn'.subscribed /\ conn'.down = d
      BY <2>3, <3>3
    <3>5. StreamTypes'
      BY <1>1, <3>3 DEF StreamTypes
    <3>6. Head(conn'.down).reset \/ Follows(client.last, missed, Head(conn'.down).seq)
      BY <1>3, <3>2, <3>4 DEF StreamInv
    <3> QED BY <1>1, <1>3, <2>4, <3>2, <3>4, <3>5, <3>6 DEF StreamInv, Follows
  <2>5. CASE ~(channel = "book" \/ hub.seq > 0)
    <3>1. conn' = m
      BY <2>2, <2>5 DEF SendInitial
    <3>2. channel = "tape" /\ hub.seq = 0
      BY <1>1, <2>5 DEF StreamTypes
    <3>3. StreamTypes'
      BY <1>1, <2>1, <3>1 DEF StreamTypes
    <3>4. /\ conn'.down = <<>> /\ conn'.open /\ client'.last = NoSeq
          /\ ~missed /\ gapReport
      BY <1>1, <2>3, <3>1, <3>2 DEF StreamInv
    <3>5. Follows(client'.last, missed', hub'.seq + 1)
      BY <3>4 DEF Follows
    <3>6. Chained(conn'.down)
      BY <3>4 DEF Chained
    <3> QED BY <1>1, <3>2, <3>3, <3>4, <3>5, <3>6 DEF StreamInv
  <2> QED BY <2>4, <2>5
<1> QED BY <1>1, <1>6, <1>7 DEF Ops

\* The first frame under way is gone: the next one resets, or follows it.
LEMMA FrameTaken ==
  ASSUME StreamTypes, StreamInv, conn.down # <<>>,
         conn' = [conn EXCEPT !.down = Tail(@)]
  PROVE  /\ conn' \in Conns /\ conn'.down = Tail(conn.down)
         /\ conn'.open = conn.open /\ conn'.up = conn.up
         /\ conn'.subscribed = conn.subscribed
         /\ Head(conn.down) \in Frames /\ Chained(conn'.down)
         /\ conn'.subscribed /\ conn'.down = <<>> =>
              hub.seq = Head(conn.down).seq
         /\ conn'.subscribed /\ conn'.down # <<>> => Last(conn'.down).seq = hub.seq
         /\ conn'.down # <<>> =>
              \/ Head(conn'.down).reset
              \/ Head(conn'.down).seq = Head(conn.down).seq + 1
<1> DEFINE d == Tail(conn.down)
<1>1. conn \in Conns /\ conn.down \in Seq(Frames)
  BY StreamFields
<1>2. /\ d \in Seq(Frames) /\ Chained(d) /\ Head(conn.down) \in Frames
      /\ d = <<>> => Last(conn.down) = Head(conn.down)
      /\ d # <<>> =>
           /\ Last(d) = Last(conn.down)
           /\ Head(d).reset \/ Head(d).seq = Head(conn.down).seq + 1
  BY <1>1, ChainedTail DEF StreamInv
<1>3. conn' = [conn EXCEPT !.down = d]
  OBVIOUS
<1> HIDE DEF d
<1>4. /\ conn' = [open |-> conn.open, subscribed |-> conn.subscribed, up |-> conn.up,
                  down |-> d]
      /\ conn' \in Conns
  BY <1>1, <1>2, <1>3, ConnFields, SMTT(20)
<1>5. /\ conn'.down = d /\ conn'.open = conn.open /\ conn'.up = conn.up
      /\ conn'.subscribed = conn.subscribed
  BY <1>4
<1>6. conn.subscribed => Last(conn.down).seq = hub.seq
  BY DEF StreamInv
<1> QED BY <1>2, <1>4, <1>5, <1>6 DEF d

\* The client reads a frame: it reports a gap when it missed one, and only then.
LEMMA ClientReadsInv ==
  ASSUME StreamTypes, StreamInv, ClientReads
  PROVE  StreamTypes' /\ StreamInv'
<1> DEFINE f == Head(conn.down)
           book == IF (client.mounted /\ channel = "book") /\ Newer(f.view)
                   THEN f.view ELSE client.book
<1>1. /\ conn.down # <<>> /\ conn' = [conn EXCEPT !.down = Tail(@)]
      /\ client' = [client EXCEPT !.last = f.seq, !.book = book]
      /\ gapReport' = (gapReport /\ (client.mounted => Gap(f) = (missed /\ ~f.reset)))
      /\ ~missed' /\ missed' \in BOOLEAN
      /\ UNCHANGED <<channel, shown, hub>>
  BY DEF ClientReads
<1>2. rest' \in Rests
  <2>1. rest' = rest \/ rest' = [rest EXCEPT !.asked = TRUE]
    BY DEF ClientReads
  <2>2. rest \in Rests
    BY DEF StreamTypes
  <2> QED BY <2>1, <2>2 DEF Rests
<1>3. f \in Frames /\ f.seq \in Nat /\ f.reset \in BOOLEAN /\ book \in Views
  <2>1. f \in Frames
    BY <1>1, FrameTaken
  <2> QED BY <2>1, StreamFields DEF Frames
<1> HIDE DEF book
<1>4. client' \in Clients /\ client'.last = f.seq
  <2>1. client' = [mounted |-> client.mounted, last |-> f.seq, book |-> book]
    BY <1>1, StreamFields
  <2> QED BY <1>3, <2>1, StreamFields DEF Clients
<1>5. StreamTypes'
  BY <1>1, <1>2, <1>4, FrameTaken DEF StreamTypes
<1>6. gapReport'
  <2>1. /\ gapReport /\ (missed => client.last # NoSeq)
        /\ f.reset \/ Follows(client.last, missed, f.seq)
    BY <1>1 DEF StreamInv
  <2>2. Gap(f) = (missed /\ ~f.reset)
    BY <1>3, <2>1, StreamFields DEF Gap, Follows, StreamTypes, NoSeq
  <2> QED BY <1>1, <2>1, <2>2
<1>7. /\ Chained(conn'.down)
      /\ conn'.subscribed /\ conn'.down # <<>> => Last(conn'.down).seq = hub'.seq
      /\ conn'.subscribed \/ conn'.up # <<>> => conn'.open
  BY <1>1, FrameTaken DEF StreamInv
<1>8. conn'.down # <<>> =>
        \/ Head(conn'.down).reset
        \/ Follows(client'.last, missed', Head(conn'.down).seq)
  BY <1>1, <1>4, FrameTaken DEF Follows
<1>9. conn'.subscribed /\ conn'.down = <<>> =>
        Follows(client'.last, missed', hub'.seq + 1)
  BY <1>1, <1>4, FrameTaken DEF Follows
<1>10. ~(channel = "tape" /\ hub.seq = 0)
  BY <1>1 DEF StreamInv
<1> HIDE DEF f
<1> QED BY <1>1, <1>5, <1>6, <1>7, <1>8, <1>9, <1>10 DEF StreamInv, Follows

\* A frame is lost, and missed when the client has a number to go by.
LEMMA FrameLostInv ==
  ASSUME StreamTypes, StreamInv, FrameLost
  PROVE  StreamTypes' /\ StreamInv'
<1> DEFINE f == Head(conn.down)
<1>1. /\ conn.down # <<>> /\ conn' = [conn EXCEPT !.down = Tail(@)]
      /\ ~f.reset /\ missed' = (missed \/ client.last # NoSeq)
      /\ UNCHANGED <<channel, shown, hub, client, rest, gapReport>>
  BY DEF FrameLost
<1>2. StreamTypes'
  BY <1>1, FrameTaken DEF StreamTypes
<1>3. f.seq \in Nat /\ Follows(client.last, missed, f.seq)
  BY <1>1, FrameTaken DEF StreamInv, Frames
<1>4. Follows(client'.last, missed', f.seq + 1)
  <2>1. client.last # NoSeq => f.seq + 1 > client.last + 1
    BY <1>3, StreamFields DEF Follows, NoSeq, StreamTypes
  <2> QED BY <1>1, <2>1 DEF Follows
<1>5. /\ Chained(conn'.down)
      /\ conn'.subscribed /\ conn'.down # <<>> => Last(conn'.down).seq = hub'.seq
      /\ conn'.subscribed \/ conn'.up # <<>> => conn'.open
  BY <1>1, FrameTaken DEF StreamInv
<1>6. conn'.down # <<>> =>
        \/ Head(conn'.down).reset
        \/ Follows(client'.last, missed', Head(conn'.down).seq)
  BY <1>1, <1>4, FrameTaken DEF Follows
<1>7. conn'.subscribed /\ conn'.down = <<>> =>
        Follows(client'.last, missed', hub'.seq + 1)
  BY <1>1, <1>4, FrameTaken
<1>8. ~(channel = "tape" /\ hub.seq = 0) /\ gapReport
  BY <1>1 DEF StreamInv
<1>9. missed' => client'.last # NoSeq
  BY <1>1 DEF StreamInv
<1> HIDE DEF f
<1> QED BY <1>1, <1>2, <1>5, <1>6, <1>7, <1>8, <1>9 DEF StreamInv, Follows

\* The client says something over the connection, if there is one.
LEMMA Said ==
  ASSUME StreamTypes, NEW op \in Ops, conn' = Say(conn, op)
  PROVE  /\ conn' \in Conns /\ conn'.down = conn.down /\ conn'.open = conn.open
         /\ conn'.subscribed = conn.subscribed
         /\ conn'.open \/ conn'.up = conn.up
<1>1. conn \in Conns /\ conn.up \in Seq(Ops)
  BY StreamFields
<1>2. CASE ~conn.open
  BY <1>1, <1>2 DEF Say
<1>3. CASE conn.open
  <2> DEFINE u == Append(conn.up, op)
  <2>1. u \in Seq(Ops) /\ conn' = [conn EXCEPT !.up = u]
    BY <1>1, <1>3, AppendProperties DEF Say
  <2> HIDE DEF u
  <2>2. /\ conn' = [open |-> conn.open, subscribed |-> conn.subscribed, up |-> u,
                    down |-> conn.down]
        /\ conn' \in Conns
    BY <1>1, <2>1, ConnFields
  <2> QED BY <1>3, <2>2
<1> QED BY <1>2, <1>3

\* The connection comes and goes: whatever was under way on it is gone, and the
\* server sends nothing until it has read a subscription.
LEMMA ConnectionInv ==
  ASSUME StreamTypes, StreamInv, Reconnect \/ Disconnect
  PROVE  StreamTypes' /\ StreamInv'
<1>1. \A S : <<>> \in Seq(S)
  BY EmptySeq
<1>2. UNCHANGED <<channel, shown, hub, client, rest, missed, gapReport>>
  BY DEF Reconnect, Disconnect
<1>3. /\ conn' \in Conns /\ conn'.down = <<>> /\ ~conn'.subscribed
      /\ conn'.up # <<>> => conn'.open
  <2>1. CASE Disconnect
    BY <1>1, <2>1 DEF Disconnect, NoConn, Conns
  <2>2. CASE Reconnect
    <3> DEFINE k == [NoConn EXCEPT !.open = TRUE]
    <3>1. k \in Conns /\ k.open /\ ~k.subscribed /\ k.up = <<>> /\ k.down = <<>>
      <4>1. /\ NoConn \in Conns /\ NoConn.up = <<>> /\ NoConn.down = <<>>
            /\ NoConn.subscribed = FALSE
        BY <1>1 DEF NoConn, Conns
      <4> QED BY <4>1 DEF Conns
    <3>2. conn' = IF client.mounted THEN Say(k, "subscribe") ELSE k
      BY <2>2 DEF Reconnect
    <3> HIDE DEF k
    <3>3. CASE client.mounted
      <4> DEFINE u == Append(k.up, "subscribe")
      <4>1. u \in Seq(Ops) /\ conn' = [k EXCEPT !.up = u]
        BY <1>1, <3>1, <3>2, <3>3, AppendProperties DEF Say, Ops
      <4> HIDE DEF u
      <4>2. /\ conn' = [open |-> k.open, subscribed |-> k.subscribed, up |-> u,
                        down |-> k.down]
            /\ conn' \in Conns
        BY <3>1, <4>1, ConnFields
      <4> QED BY <3>1, <4>2
    <3> QED BY <3>1, <3>2, <3>3
  <2> QED BY <2>1, <2>2
<1>4. StreamTypes' /\ Chained(conn'.down)
  BY <1>2, <1>3 DEF StreamTypes, Chained
<1> QED BY <1>2, <1>3, <1>4 DEF StreamInv

\* The App's effect runs and is cleaned up: without a last number no gap is seen.
LEMMA EffectInv ==
  ASSUME StreamTypes, StreamInv, Mount \/ Unmount
  PROVE  StreamTypes' /\ StreamInv'
<1>1. \E op \in Ops : conn' = Say(conn, op)
  BY DEF Mount, Unmount, Ops
<1>2. /\ conn' \in Conns /\ conn'.down = conn.down /\ conn'.open = conn.open
      /\ conn'.subscribed = conn.subscribed
      /\ conn'.open \/ conn'.up = conn.up
  BY <1>1, Said
<1>3. CASE Mount
  <2>1. /\ client' = [client EXCEPT !.mounted = TRUE, !.book = NoView]
        /\ NoView \in Views
        /\ UNCHANGED <<channel, shown, hub, missed, gapReport>>
    BY <1>3 DEF Mount, NoView, Views
  <2>2. client' = [mounted |-> TRUE, last |-> client.last, book |-> NoView]
    BY <2>1, StreamFields
  <2>3. client' \in Clients /\ client'.last = client.last
    BY <2>1, <2>2, StreamFields DEF Clients
  <2>4. rest' \in Rests
    <3> DEFINE asked == (channel = "book")
    <3>1. rest' = [rest EXCEPT !.asked = asked] /\ asked \in BOOLEAN
      BY <1>3 DEF Mount
    <3> HIDE DEF asked
    <3> QED BY <3>1 DEF StreamTypes, Rests
  <2>5. StreamTypes'
    BY <1>2, <2>1, <2>3, <2>4 DEF StreamTypes
  <2> QED BY <1>2, <2>1, <2>3, <2>5 DEF StreamInv
<1>4. CASE Unmount
  <2>1. /\ client' = [client EXCEPT !.mounted = FALSE, !.last = NoSeq]
        /\ UNCHANGED <<channel, shown, hub, rest, gapReport>> /\ missed' = FALSE
    BY <1>4 DEF Unmount
  <2>2. client' = [mounted |-> FALSE, last |-> NoSeq, book |-> client.book]
    BY <2>1, StreamFields
  <2>3. client' \in Clients /\ client'.last = NoSeq
    BY <2>2, StreamFields DEF Clients
  <2>4. StreamTypes'
    BY <1>2, <2>1, <2>3 DEF StreamTypes
  <2> QED BY <1>2, <2>1, <2>3, <2>4 DEF StreamInv, Follows
<1> QED BY <1>3, <1>4

\* The book over REST has no part in the numbering.
LEMMA RestInv ==
  ASSUME StreamTypes, StreamInv,
         RestServed \/ \E i \in DOMAIN rest.answers : RestArrives(i)
  PROVE  StreamTypes' /\ StreamInv'
<1>1. rest \in Rests /\ rest.answers \in Seq(Views) /\ rest.asked \in BOOLEAN
  BY DEF StreamTypes, Rests
<1>2. CASE RestServed
  <2> DEFINE as == Append(rest.answers, shown)
  <2>1. /\ rest' = [asked |-> FALSE, answers |-> as] /\ as \in Seq(Views)
        /\ UNCHANGED <<channel, shown, hub, conn, client, missed, gapReport>>
    BY <1>1, <1>2, StreamFields, AppendProperties DEF RestServed
  <2> HIDE DEF as
  <2>2. rest' \in Rests
    BY <2>1 DEF Rests
  <2>3. StreamTypes'
    BY <2>1, <2>2 DEF StreamTypes
  <2> QED BY <2>1, <2>3 DEF StreamInv
<1>3. ASSUME NEW i \in DOMAIN rest.answers, RestArrives(i)
      PROVE  StreamTypes' /\ StreamInv'
  <2> DEFINE s == rest.answers
             as == SubSeq(s, 1, i - 1) \o SubSeq(s, i + 1, Len(s))
  <2>1. /\ rest' = [rest EXCEPT !.answers = as]
        /\ client' = client \/ client' = [client EXCEPT !.book = rest.answers[i]]
        /\ UNCHANGED <<channel, shown, hub, conn, missed, gapReport>>
    BY <1>3 DEF RestArrives, RemoveAt
  <2>2. i \in 1..Len(s) /\ Len(s) \in Nat /\ s[i] \in Views
    BY <1>1, <1>3, LenProperties, ElementOfSeq
  <2>3. as \in Seq(Views)
    <3>1. SubSeq(s, 1, i - 1) \in Seq(Views)
      BY <1>1, <2>2, SubSeqProperties
    <3>2. SubSeq(s, i + 1, Len(s)) \in Seq(Views)
      BY <1>1, <2>2, SubSeqProperties
    <3> QED BY <3>1, <3>2, ConcatProperties
  <2> HIDE DEF as
  <2>4. rest' \in Rests
    BY <1>1, <2>1, <2>3 DEF Rests
  <2> HIDE DEF s
  <2>5. client' \in Clients /\ client'.last = client.last
    <3>1. CASE client' = [client EXCEPT !.book = s[i]]
      <4>1. client' = [mounted |-> client.mounted, last |-> client.last, book |-> s[i]]
        BY <3>1, StreamFields
      <4> QED BY <2>2, <4>1, StreamFields DEF Clients
    <3> QED BY <2>1, <3>1, StreamFields DEF s
  <2>6. StreamTypes'
    BY <2>1, <2>4, <2>5 DEF StreamTypes
  <2> QED BY <2>1, <2>5, <2>6 DEF StreamInv
<1> QED BY <1>2, <1>3

-----------------------------------------------------------------------------

LEMMA StreamInvNext ==
  StreamTypes /\ StreamInv /\ [WsNext]_wsVars => StreamTypes' /\ StreamInv'
<1> SUFFICES ASSUME StreamTypes, StreamInv, [WsNext]_wsVars
             PROVE  StreamTypes' /\ StreamInv'
  OBVIOUS
<1>1. CASE EngineChanges \/ Dispatch \/ BookFlush \/ SetFeedStale
  BY <1>1, HubInv
<1>2. CASE ServerReads
  BY <1>2, ServerReadsInv
<1>3. CASE ClientReads
  BY <1>3, ClientReadsInv
<1>4. CASE Reconnect \/ Disconnect
  BY <1>4, ConnectionInv
<1>5. CASE Mount \/ Unmount
  BY <1>5, EffectInv
<1>6. CASE RestServed \/ \E i \in DOMAIN rest.answers : RestArrives(i)
  BY <1>6, RestInv
<1>7. CASE FrameLost
  BY <1>7, FrameLostInv
<1>8. CASE UNCHANGED wsVars
  <2>1. UNCHANGED <<channel, shown, hub, conn, client, rest, missed, gapReport>>
    BY <1>8 DEF wsVars
  <2>2. StreamTypes'
    BY <2>1 DEF StreamTypes
  <2> QED BY <2>1, <2>2 DEF StreamInv
<1> QED
  BY <1>1, <1>2, <1>3, <1>4, <1>5, <1>6, <1>7, <1>8 DEF WsNext, StreamStep

\* The numbering of the stream, through every step of the hub, the connection,
\* the client and the faults (wsHub.ts, ws.ts).
THEOREM StreamInvariant == WsSpec => [](StreamTypes /\ StreamInv)
BY StreamInitInv, StreamInvNext, PTL DEF WsSpec

\* A client reports a gap when, and only when, a frame was lost on this
\* connection (checkSeq of ws.ts, #sendSnapshot of wsHub.ts), for any number of
\* changes, subscriptions, market selections, drops and lost frames.
THEOREM LossIsSeen == WsSpec => []LossSeen
<1>1. StreamInv => LossSeen
  BY DEF StreamInv, LossSeen
<1> QED BY <1>1, StreamInvariant, PTL

\* What is under way is no newer than what the hub has sent and the server shows.
NoNewer(s, n, v) == \A i \in DOMAIN s : s[i].seq <= n /\ s[i].view.seq <= v
NotAhead(s, v) == \A i \in DOMAIN s : s[i].seq <= v

StreamBounds ==
  /\ shown.seq \in 1..(MaxBookChanges + 1)
  /\ client.book.seq <= shown.seq /\ client.last <= hub.seq
  /\ NoNewer(conn.down, hub.seq, shown.seq) /\ NotAhead(rest.answers, shown.seq)
  /\ ~conn.open => conn = NoConn

LEMMA WsTypeIs ==
  ASSUME StreamTypes, StreamBounds
  PROVE  WsTypeOK
<1>1. client.book.seq \in Nat /\ shown.seq \in Nat /\ hub.seq \in Nat
      /\ client.last \in Nat \cup {NoSeq}
  BY StreamFields DEF Views
<1> QED BY <1>1 DEF StreamBounds, WsTypeOK, NoSeq

LEMMA NoNewerKept ==
  ASSUME NEW s \in Seq(Frames), NEW n \in Nat, NEW v \in Nat, NoNewer(s, n, v),
         NEW n2 \in Nat, NEW v2 \in Nat, n <= n2, v <= v2
  PROVE  /\ NoNewer(s, n2, v2) /\ NoNewer(<<>>, n2, v2)
         /\ s # <<>> => NoNewer(Tail(s), n2, v2)
         /\ \A f \in Frames : f.seq <= n2 /\ f.view.seq <= v2 =>
              NoNewer(Append(s, f), n2, v2)
<1>1. /\ Len(s) \in Nat /\ DOMAIN s = 1..Len(s)
      /\ \A i \in 1..Len(s) : s[i] \in Frames /\ s[i].seq <= n /\ s[i].view.seq <= v
  BY LenProperties, ElementOfSeq DEF NoNewer
<1>2. \A i \in 1..Len(s) : s[i].seq \in Nat /\ s[i].view.seq \in Nat
  BY <1>1 DEF Frames, Views
<1>3. \A i \in 1..Len(s) : s[i].seq <= n2 /\ s[i].view.seq <= v2
  BY <1>1, <1>2
<1>4. NoNewer(s, n2, v2) /\ NoNewer(<<>>, n2, v2)
  BY <1>1, <1>3 DEF NoNewer
<1>5. ASSUME s # <<>> PROVE NoNewer(Tail(s), n2, v2)
  <2>1. Len(Tail(s)) = Len(s) - 1 /\ Tail(s) \in Seq(Frames)
    BY <1>5, HeadTailProperties
  <2>2. \A i \in 1..Len(Tail(s)) : Tail(s)[i] = s[i + 1]
    BY <1>1, <1>5, <2>1
  <2>3. DOMAIN Tail(s) = 1..Len(Tail(s))
    BY <2>1, LenProperties
  <2>4. \A i \in 1..(Len(s) - 1) : i + 1 \in 1..Len(s)
    BY <1>1
  <2> QED BY <1>3, <2>1, <2>2, <2>3, <2>4 DEF NoNewer
<1>6. ASSUME NEW f \in Frames, f.seq <= n2, f.view.seq <= v2
      PROVE  NoNewer(Append(s, f), n2, v2)
  <2>1. /\ Append(s, f) \in Seq(Frames) /\ Len(Append(s, f)) = Len(s) + 1
        /\ \A i \in 1..Len(s) : Append(s, f)[i] = s[i]
        /\ Append(s, f)[Len(s) + 1] = f
    BY AppendProperties
  <2>2. DOMAIN Append(s, f) = 1..(Len(s) + 1)
    BY <2>1, LenProperties
  <2>3. \A i \in 1..(Len(s) + 1) : i \in 1..Len(s) \/ i = Len(s) + 1
    BY <1>1
  <2> QED BY <1>3, <1>6, <2>1, <2>2, <2>3 DEF NoNewer
<1> QED BY <1>4, <1>5, <1>6

LEMMA Broadcasted ==
  ASSUME StreamTypes, NEW h \in Hubs, h.seq = hub.seq, Broadcast(h), shown' \in Views,
         ~conn.open => conn = NoConn
  PROVE  /\ hub'.seq = hub.seq + 1
         /\ ~conn'.open => conn' = NoConn
         /\ \/ conn'.down = conn.down
            \/ \E f \in Frames : f.seq = hub.seq + 1 /\ f.view = shown'
                                 /\ conn'.down = Append(conn.down, f)
<1> DEFINE f == [seq |-> hub.seq + 1, reset |-> FALSE, view |-> shown']
           d == Append(conn.down, f)
<1>1. hub'.seq = hub.seq + 1 /\ hub.seq \in Nat
  BY StreamFields DEF Broadcast, Hubs
<1>2. f \in Frames /\ f.seq = hub.seq + 1 /\ f.view = shown'
  BY <1>1 DEF Frames
<1>3. conn' = conn \/ (conn.open /\ conn' = [conn EXCEPT !.down = d])
  BY DEF Broadcast, Push, DataFrame
<1> HIDE DEF f
<1>4. d \in Seq(Frames)
  BY <1>2, StreamFields, AppendProperties
<1>5. conn' = [conn EXCEPT !.down = d] => conn'.down = d /\ conn'.open = conn.open
  BY <1>4, StreamFields, ConnFields
<1> QED BY <1>1, <1>2, <1>3, <1>5

\* What a step may do to the connection.
LEMMA ConnMoves ==
  ASSUME StreamTypes, StreamInv, StreamBounds, [WsNext]_wsVars, shown' \in Views
  PROVE  /\ hub'.seq \in {hub.seq, hub.seq + 1}
         /\ ~conn'.open => conn' = NoConn
         /\ \/ conn'.down = conn.down \/ conn'.down = <<>>
            \/ conn.down # <<>> /\ conn'.down = Tail(conn.down)
            \/ \E f \in Frames : f.seq <= hub'.seq /\ f.view = shown'
                                 /\ conn'.down = Append(conn.down, f)
<1>1. ~conn.open => conn = NoConn
  BY DEF StreamBounds
<1>2. hub \in Hubs /\ hub.seq \in Nat /\ conn \in Conns
  BY StreamFields
<1>3. ASSUME NEW h \in Hubs, h.seq = hub.seq, Broadcast(h)
      PROVE  /\ hub'.seq \in {hub.seq, hub.seq + 1}
             /\ ~conn'.open => conn' = NoConn
             /\ \/ conn'.down = conn.down
                \/ \E f \in Frames : f.seq <= hub'.seq /\ f.view = shown'
                                     /\ conn'.down = Append(conn.down, f)
  <2>1. /\ hub'.seq = hub.seq + 1
        /\ ~conn'.open => conn' = NoConn
        /\ \/ conn'.down = conn.down
           \/ \E f \in Frames : f.seq = hub.seq + 1 /\ f.view = shown'
                                /\ conn'.down = Append(conn.down, f)
    BY <1>1, <1>3, Broadcasted
  <2> QED BY <1>2, <2>1
<1>4. CASE Dispatch \/ BookFlush \/ SetFeedStale
  <2>1. PICK h \in Hubs : h.seq = hub.seq /\ (Broadcast(h) \/ (hub' = h /\ UNCHANGED conn))
    <3> DEFINE h1 == [hub EXCEPT !.undispatched = FALSE, !.dirty = TRUE]
               h2 == [hub EXCEPT !.dirty = FALSE]
    <3>1. h1 \in Hubs /\ h1.seq = hub.seq /\ h2 \in Hubs /\ h2.seq = hub.seq
      BY <1>2 DEF Hubs
    <3>2. \E h \in {h1, h2, hub} : Broadcast(h) \/ (hub' = h /\ UNCHANGED conn)
      BY <1>4 DEF Dispatch, BookFlush, SetFeedStale, BroadcastBook
    <3> HIDE DEF h1, h2
    <3> QED BY <1>2, <3>1, <3>2
  <2> QED BY <1>1, <1>3, <2>1
<1>5. CASE ServerReads
  <2> DEFINE f == [seq |-> hub.seq, reset |-> TRUE, view |-> shown]
             up == Tail(conn.up)
             k == [conn EXCEPT !.up = up]
  <2>1. conn.open /\ conn.up # <<>> /\ up \in Seq(Ops) /\ conn.down \in Seq(Frames)
        /\ UNCHANGED <<shown, hub>>
    BY <1>5, StreamFields, HeadTailProperties DEF StreamInv, ServerReads
  <2>2. \E b \in BOOLEAN : \/ conn' = [k EXCEPT !.subscribed = b]
                           \/ conn' = SendInitial([k EXCEPT !.subscribed = b])
    <3>1. Head(conn.up) \in Ops
      BY <2>1, StreamFields, HeadTailProperties
    <3> QED BY <1>5, <3>1 DEF ServerReads, Ops
  <2>3. f \in Frames /\ f.seq = hub.seq /\ f.view = shown
    BY <1>2, StreamFields DEF Frames
  <2> HIDE DEF up
  <2>11. k = [open |-> conn.open, subscribed |-> conn.subscribed, up |-> up,
              down |-> conn.down] /\ k \in Conns
    BY <1>2, <2>1, ConnFields
  <2> HIDE DEF k
  <2>4. k \in Conns /\ k.open /\ k.down = conn.down
    BY <2>1, <2>11
  <2>5. PICK b \in BOOLEAN : \/ conn' = [k EXCEPT !.subscribed = b]
                             \/ conn' = SendInitial([k EXCEPT !.subscribed = b])
    BY <2>2
  <2> DEFINE m == [k EXCEPT !.subscribed = b]
             d == Append(conn.down, f)
  <2>6. m \in Conns /\ m.open /\ m.down = conn.down
    <3>1. m = [open |-> k.open, subscribed |-> b, up |-> k.up, down |-> k.down]
          /\ m \in Conns
      BY <2>4, ConnFields
    <3> HIDE DEF m
    <3> QED BY <2>4, <3>1
  <2>7. conn' = m \/ conn' = [m EXCEPT !.down = d]
    <3>1. UNCHANGED shown
      BY <2>1
    <3> HIDE DEF m
    <3> QED BY <2>5, <2>6, <3>1 DEF m, SendInitial, Push, Snapshot, DataFrame
  <2> HIDE DEF f, m
  <2>8. d \in Seq(Frames)
    BY <2>1, <2>3, AppendProperties
  <2>9. conn' = [m EXCEPT !.down = d] => conn'.open /\ conn'.down = d
    <3> HIDE DEF d
    <3> QED BY <2>6, <2>8, ConnFields
  <2>10. conn'.open /\ hub'.seq = hub.seq /\ (conn'.down = conn.down \/ conn'.down = d)
    BY <2>1, <2>6, <2>7, <2>9
  <2> QED BY <1>2, <2>1, <2>3, <2>10
<1>6. CASE Reconnect
  <2> DEFINE k == [NoConn EXCEPT !.open = TRUE]
  <2>1. NoConn \in Conns /\ NoConn.down = <<>>
    <3>1. \A S : <<>> \in Seq(S)
      BY EmptySeq
    <3> QED BY <3>1 DEF NoConn, Conns
  <2>2. k \in Conns /\ k.open /\ k.down = <<>>
    BY <2>1 DEF Conns
  <2>3. (conn' = k \/ conn' = Say(k, "subscribe")) /\ UNCHANGED hub
    BY <1>6 DEF Reconnect
  <2> HIDE DEF k
  <2> DEFINE up == Append(k.up, "subscribe")
  <2>4. conn' = k \/ conn' = [k EXCEPT !.up = up]
    BY <2>3 DEF Say
  <2>5. conn'.open /\ conn'.down = <<>>
    <3> HIDE DEF up
    <3> QED BY <2>2, <2>4 DEF Conns
  <2> QED BY <2>3, <2>5
<1>7. CASE Disconnect
  BY <1>7 DEF Disconnect, NoConn
<1>8. CASE ClientReads \/ FrameLost
  <2> DEFINE d == Tail(conn.down)
  <2>1. conn.down # <<>> /\ conn' = [conn EXCEPT !.down = d] /\ UNCHANGED hub
    BY <1>8 DEF ClientReads, FrameLost
  <2>2. conn.open
    BY <1>1, <2>1 DEF NoConn
  <2>3. d \in Seq(Frames)
    BY <2>1, StreamFields, HeadTailProperties
  <2>4. conn'.open /\ conn'.down = d
    <3> HIDE DEF d
    <3> QED BY <1>2, <2>1, <2>2, <2>3, ConnFields
  <2> QED BY <2>1, <2>4
<1>9. CASE Mount \/ Unmount
  <2>1. PICK op \in Ops : conn' = Say(conn, op)
    BY <1>9 DEF Mount, Unmount, Ops
  <2>2. conn'.down = conn.down /\ conn'.open = conn.open
    BY <2>1, Said
  <2>3. ~conn.open => conn' = conn
    BY <2>1 DEF Say
  <2>4. UNCHANGED hub
    BY <1>9 DEF Mount, Unmount
  <2> QED BY <1>1, <2>2, <2>3, <2>4
<1>10. CASE EngineChanges
  <2>1. hub'.seq = hub.seq
    BY <1>2, <1>10 DEF EngineChanges, Hubs
  <2> QED BY <1>1, <1>10, <2>1 DEF EngineChanges
<1>11. CASE UNCHANGED <<hub, conn>>
  BY <1>1, <1>11
<1> QED BY <1>4, <1>5, <1>6, <1>7, <1>8, <1>9, <1>10, <1>11
        DEF WsNext, StreamStep, RestServed, RestArrives, wsVars

\* What a step may do to the client and to the answers under way.
LEMMA ClientMoves ==
  ASSUME StreamTypes, StreamBounds, [WsNext]_wsVars
  PROVE  /\ client'.book = client.book \/ client'.book.seq <= shown.seq
         /\ client'.last = client.last \/ client'.last <= hub.seq
         /\ NotAhead(rest'.answers, shown.seq)
<1>1. /\ client.book.seq <= shown.seq /\ client.last <= hub.seq /\ ~(0 > shown.seq)
      /\ hub.seq \in Nat /\ shown.seq \in Nat /\ shown \in Views
      /\ client = [mounted |-> client.mounted, last |-> client.last, book |-> client.book]
  BY StreamFields DEF StreamBounds, Views
<1>2. /\ rest.answers \in Seq(Views) /\ NotAhead(rest.answers, shown.seq)
      /\ rest = [asked |-> rest.asked, answers |-> rest.answers]
  BY DEF StreamTypes, Rests, StreamBounds
<1>3. /\ Len(rest.answers) \in Nat /\ DOMAIN rest.answers = 1..Len(rest.answers)
      /\ \A i \in 1..Len(rest.answers) :
           rest.answers[i] \in Views /\ rest.answers[i].seq <= shown.seq
  BY <1>2, LenProperties, ElementOfSeq DEF NotAhead
<1>4. CASE ClientReads
  <2> DEFINE f == Head(conn.down)
             book == IF (client.mounted /\ channel = "book") /\ Newer(f.view)
                     THEN f.view ELSE client.book
  <2>1. conn.down # <<>> /\ client' = [client EXCEPT !.last = f.seq, !.book = book]
        /\ (rest' = rest \/ rest' = [rest EXCEPT !.asked = TRUE])
    BY <1>4 DEF ClientReads
  <2>2. f.seq <= hub.seq /\ f.view.seq <= shown.seq
    <3>1. conn.down \in Seq(Frames) /\ 1 \in DOMAIN conn.down /\ f = conn.down[1]
      BY <2>1, StreamFields, HeadTailProperties, LenProperties, EmptySeq
    <3> QED BY <3>1 DEF StreamBounds, NoNewer
  <2>3. book = f.view \/ book = client.book
    OBVIOUS
  <2> HIDE DEF f, book
  <2>4. client'.last = f.seq /\ client'.book = book
    BY <1>1, <2>1
  <2>5. rest'.answers = rest.answers
    BY <1>2, <2>1
  <2> QED BY <1>2, <2>2, <2>3, <2>4, <2>5
<1>5. CASE Mount
  <2>1. client' = [client EXCEPT !.mounted = TRUE, !.book = NoView]
        /\ rest' = [rest EXCEPT !.asked = (channel = "book")]
    BY <1>5 DEF Mount
  <2>2. client'.last = client.last /\ client'.book = NoView
    BY <1>1, <2>1
  <2>3. rest'.answers = rest.answers
    BY <1>2, <2>1
  <2> QED BY <1>1, <1>2, <2>2, <2>3 DEF NoView
<1>6. CASE Unmount
  <2>1. client' = [client EXCEPT !.mounted = FALSE, !.last = NoSeq] /\ UNCHANGED rest
    BY <1>6 DEF Unmount
  <2>2. client'.book = client.book /\ client'.last = NoSeq
    BY <1>1, <2>1
  <2> QED BY <1>1, <1>2, <2>1, <2>2 DEF NoSeq
<1>7. CASE RestServed
  <2>1. rest'.answers = Append(rest.answers, shown) /\ UNCHANGED client
    BY <1>7 DEF RestServed
  <2> DEFINE as == Append(rest.answers, shown)
  <2>2. /\ as \in Seq(Views) /\ Len(as) = Len(rest.answers) + 1
        /\ \A i \in 1..Len(rest.answers) : as[i] = rest.answers[i]
        /\ as[Len(rest.answers) + 1] = shown
    BY <1>1, <1>2, AppendProperties
  <2>3. DOMAIN as = 1..(Len(rest.answers) + 1)
    BY <2>2, LenProperties
  <2> HIDE DEF as
  <2>4. \A i \in 1..(Len(rest.answers) + 1) :
          i \in 1..Len(rest.answers) \/ i = Len(rest.answers) + 1
    BY <1>3
  <2>5. NotAhead(as, shown.seq)
    <3>1. \A i \in 1..Len(rest.answers) : as[i].seq <= shown.seq
      BY <1>3, <2>2
    <3>2. as[Len(rest.answers) + 1].seq <= shown.seq
      BY <1>1, <2>2
    <3> QED BY <2>3, <2>4, <3>1, <3>2 DEF NotAhead
  <2> QED BY <2>1, <2>5 DEF as
<1>8. ASSUME NEW i \in DOMAIN rest.answers, RestArrives(i)
      PROVE  /\ client'.book = client.book \/ client'.book.seq <= shown.seq
             /\ client'.last = client.last
             /\ NotAhead(rest'.answers, shown.seq)
  <2> DEFINE s == rest.answers
             before == SubSeq(s, 1, i - 1)
             after == SubSeq(s, i + 1, Len(s))
  <2>1. /\ rest' = [rest EXCEPT !.answers = before \o after]
        /\ client' = client \/ client' = [client EXCEPT !.book = s[i]]
    BY <1>8 DEF RestArrives, RemoveAt
  <2>2. i \in 1..Len(s) /\ s[i].seq <= shown.seq
    BY <1>3
  <2>3. /\ before \in Seq(Views) /\ Len(before) = i - 1
        /\ \A j \in 1..(i - 1) : before[j] = s[j]
    BY <1>2, <1>3, <2>2, SubSeqProperties
  <2>4. /\ after \in Seq(Views) /\ Len(after) = Len(s) - i
        /\ \A j \in 1..(Len(s) - i) : after[j] = s[j + i]
    BY <1>2, <1>3, <2>2, SubSeqProperties
  <2>5. client'.last = client.last /\ (client'.book = client.book \/ client'.book = s[i])
    BY <1>1, <2>1
  <2>6. rest'.answers = before \o after
    <3> HIDE DEF before, after
    <3> QED BY <1>2, <2>1
  <2> HIDE DEF before, after
  <2>7. /\ Len(before \o after) = Len(s) - 1 /\ before \o after \in Seq(Views)
        /\ \A j \in 1..(Len(s) - 1) :
             (before \o after)[j] = IF j <= i - 1 THEN before[j] ELSE after[j - (i - 1)]
    <3>1. /\ before \o after \in Seq(Views)
          /\ Len(before \o after) = Len(before) + Len(after)
          /\ \A j \in 1..(Len(before) + Len(after)) :
               (before \o after)[j] = IF j <= Len(before) THEN before[j]
                                     ELSE after[j - Len(before)]
      BY <2>3, <2>4, ConcatProperties
    <3>2. Len(before) + Len(after) = Len(s) - 1
      BY <1>3, <2>2, <2>3, <2>4
    <3> QED BY <2>3, <3>1, <3>2
  <2>8. \A j \in 1..(Len(s) - 1) : \E k \in 1..Len(s) : (before \o after)[j] = s[k]
    <3>1. ASSUME NEW j \in 1..(Len(s) - 1), j <= i - 1
          PROVE  (before \o after)[j] = s[j] /\ j \in 1..Len(s)
      BY <1>3, <2>2, <2>3, <2>7, <3>1
    <3>2. ASSUME NEW j \in 1..(Len(s) - 1), ~(j <= i - 1)
          PROVE  (before \o after)[j] = s[j + 1] /\ j + 1 \in 1..Len(s)
      <4>1. j - (i - 1) \in 1..(Len(s) - i) /\ (j - (i - 1)) + i = j + 1
        BY <1>3, <2>2, <3>2
      <4>2. after[j - (i - 1)] = s[j + 1]
        BY <2>4, <4>1
      <4> QED BY <1>3, <2>7, <3>2, <4>2
    <3> QED BY <3>1, <3>2
  <2>9. DOMAIN (before \o after) = 1..(Len(s) - 1)
    BY <2>7, LenProperties
  <2>10. NotAhead(before \o after, shown.seq)
    BY <1>3, <2>8, <2>9 DEF NotAhead
  <2> QED BY <2>2, <2>5, <2>6, <2>10
<1>9. CASE UNCHANGED <<client, rest>>
  BY <1>2, <1>9
<1> QED BY <1>4, <1>5, <1>6, <1>7, <1>8, <1>9
        DEF WsNext, StreamStep, Dispatch, BookFlush, ServerReads, EngineChanges,
            SetFeedStale, Reconnect, FrameLost, Disconnect, wsVars

LEMMA StreamBoundsNext ==
  ASSUME StreamTypes, StreamInv, StreamBounds, [WsNext]_wsVars
  PROVE  StreamBounds'
<1>1. StreamTypes'
  BY StreamInvNext
<1>2. /\ shown \in Views /\ shown' \in Views /\ hub.seq \in Nat /\ MaxBookChanges \in Nat
      /\ conn.down \in Seq(Frames) /\ shown.seq \in Nat
      /\ client.book.seq \in Nat /\ client.last \in Nat \cup {NoSeq}
  BY <1>1, StreamFields, WsAssumption DEF StreamTypes, Views
<1>3. shown'.seq \in {shown.seq, shown.seq + 1} /\ shown'.seq \in 1..(MaxBookChanges + 1)
  <2>1. CASE EngineChanges
    BY <1>2, <2>1 DEF EngineChanges, StreamBounds, Views
  <2>2. CASE SetFeedStale
    <3> DEFINE stale == ~shown.stale
               change == shown.change + 1
    <3>1. shown' = [shown EXCEPT !.stale = stale, !.change = change]
      BY <2>2 DEF SetFeedStale
    <3> HIDE DEF stale, change
    <3> QED BY <1>2, <3>1 DEF StreamBounds, Views
  <2>3. CASE UNCHANGED shown
    BY <2>3 DEF StreamBounds
  <2> QED BY <2>1, <2>2, <2>3
          DEF WsNext, StreamStep, Dispatch, BookFlush, ServerReads, ClientReads, Reconnect,
              Mount, Unmount, RestServed, RestArrives, FrameLost, Disconnect, wsVars
<1>4. /\ hub'.seq \in {hub.seq, hub.seq + 1}
      /\ ~conn'.open => conn' = NoConn
      /\ \/ conn'.down = conn.down \/ conn'.down = <<>>
         \/ conn.down # <<>> /\ conn'.down = Tail(conn.down)
         \/ \E f \in Frames : f.seq <= hub'.seq /\ f.view = shown'
                              /\ conn'.down = Append(conn.down, f)
  BY <1>2, ConnMoves
<1>5. /\ client'.book = client.book \/ client'.book.seq <= shown.seq
      /\ client'.last = client.last \/ client'.last <= hub.seq
      /\ NotAhead(rest'.answers, shown.seq)
  BY ClientMoves
<1>6. hub'.seq \in Nat /\ shown'.seq \in Nat /\ hub.seq <= hub'.seq
      /\ shown.seq <= shown'.seq /\ shown'.seq <= shown'.seq
  BY <1>2, <1>3, <1>4
<1>7. NoNewer(conn'.down, hub'.seq, shown'.seq)
  <2>1. NoNewer(conn.down, hub.seq, shown.seq)
    BY DEF StreamBounds
  <2>2. /\ NoNewer(conn.down, hub'.seq, shown'.seq) /\ NoNewer(<<>>, hub'.seq, shown'.seq)
        /\ conn.down # <<>> => NoNewer(Tail(conn.down), hub'.seq, shown'.seq)
        /\ \A f \in Frames : f.seq <= hub'.seq /\ f.view.seq <= shown'.seq =>
             NoNewer(Append(conn.down, f), hub'.seq, shown'.seq)
    BY <1>2, <1>6, <2>1, NoNewerKept
  <2> QED BY <1>4, <1>6, <2>2
<1>8. NotAhead(rest'.answers, shown'.seq)
  <2>1. rest'.answers \in Seq(Views)
    BY <1>1 DEF StreamTypes, Rests
  <2>2. \A i \in DOMAIN rest'.answers : rest'.answers[i].seq \in Nat
    <3>1. \A i \in 1..Len(rest'.answers) : rest'.answers[i] \in Views
      BY <2>1, ElementOfSeq
    <3>2. DOMAIN rest'.answers = 1..Len(rest'.answers)
      BY <2>1, LenProperties
    <3> QED BY <3>1, <3>2 DEF Views
  <2> QED BY <1>2, <1>5, <1>6, <2>2 DEF NotAhead
<1>9. client'.book.seq <= shown'.seq /\ client'.last <= hub'.seq
  <2>1. client'.book.seq \in Nat /\ client'.last \in Nat \cup {NoSeq}
    BY <1>1 DEF StreamTypes, Clients, Views
  <2>2. client'.book.seq <= shown.seq /\ client'.last <= hub.seq
    BY <1>5 DEF StreamBounds
  <2> QED BY <1>2, <1>6, <2>1, <2>2 DEF NoSeq
<1> QED BY <1>3, <1>4, <1>7, <1>8, <1>9 DEF StreamBounds

LEMMA StreamBoundsInit == WsInit => StreamBounds
BY WsAssumption DEF WsInit, StreamBounds, NoNewer, NotAhead, NoConn, NoView, NoSeq

-----------------------------------------------------------------------------
(* The funding poller.                                                     *)

\* A set of epochs that is not empty has an oldest and a newest.
LEMMA OldestEpoch ==
  ASSUME NEW S \in SUBSET Nat, S # {}
  PROVE  Min(S) \in S /\ \A x \in S : Min(S) <= x
<1>1. \E n \in S : \A m \in S : n <= m
  BY LeastNumber
<1> QED BY <1>1 DEF Min

LEMMA NewestEpoch ==
  ASSUME NEW S \in SUBSET Nat, S # {}, \E b \in Nat : \A x \in S : x <= b
  PROVE  Max(S) \in S /\ \A x \in S : x <= Max(S)
<1>1. PICK b \in Nat : \A x \in S : x <= b
  OBVIOUS
<1> DEFINE B == {b - x : x \in S}
<1>2. B \in SUBSET Nat
  BY <1>1
<1>3. B # {}
  OBVIOUS
<1>4. PICK n \in B : \A m \in B : n <= m
  BY <1>2, <1>3, LeastNumber
<1>5. PICK y \in S : n = b - y
  OBVIOUS
<1>6. \A x \in S : x <= y
  <2> TAKE x \in S
  <2>1. b - x \in B
    OBVIOUS
  <2>2. n <= b - x
    BY <1>4, <2>1
  <2> QED BY <1>5, <2>2
<1>7. \A x \in S : y >= x
  BY <1>6
<1>8. Max(S) \in S /\ \A x \in S : Max(S) >= x
  BY <1>7 DEF Max
<1> QED BY <1>8

Waiting == {"settling", "queued", "charged"}

\* An epoch that nobody owes any more: applied, free of charge, or out of reach.
Settled(m, e) == charged[m][e] > 0 \/ e \in ZeroRateEpochs \/ e \in outOfReach[m]

\* Of the epochs since boot up to any that a poll is about to settle, those it
\* does not hold are settled.
CaughtUp(m, fresh) ==
  \A f \in fresh, e \in Epochs : seed[m] < e /\ e <= f /\ e \notin fresh => Settled(m, e)

PollRecords ==
  [pc : {"idle", "asking"} \cup Waiting, at : Nat, asked : Int, fresh : SUBSET Epochs]

FundingTypes ==
  /\ epoch \in 0..MaxEpoch /\ running \in {"up", "stopping", "down"}
  /\ lastApplied \in [PerpSet -> Watermark] /\ seed \in [PerpSet -> Watermark]
  /\ charged \in [PerpSet -> [Epochs -> Nat]]
  /\ outOfReach \in [PerpSet -> SUBSET Epochs]
  /\ poll \in [Polls -> PollRecords]

\* What is true of a poll that waits.
PollSound(p) ==
  /\ poll[p].pc # "idle" => poll[p].at \in DOMAIN Perps
  /\ poll[p].pc \in Waiting =>
       /\ poll[p].fresh # {} /\ lastApplied[Market(p)] # NoEpoch
       /\ CaughtUp(Market(p), poll[p].fresh)
  /\ poll[p].pc = "charged" => Settled(Market(p), Oldest(p))

\* OnlyOutageSkips, an epoch at a time.
Passed ==
  \A m \in PerpSet, e \in Epochs :
    lastApplied[m] # NoEpoch /\ seed[m] < e /\ e <= lastApplied[m] => Settled(m, e)

FundingInv == FundingTypes /\ Passed /\ \A p \in Polls : PollSound(p)

LEMMA PassedIsOnlyOutageSkips ==
  FundingInv => OnlyOutageSkips /\ FundingTypeOK
<1> SUFFICES ASSUME FundingInv PROVE OnlyOutageSkips /\ FundingTypeOK
  OBVIOUS
<1>1. FundingTypes /\ Passed /\ \A p \in Polls : PollSound(p)
  BY DEF FundingInv
<1>2. OnlyOutageSkips
  BY <1>1 DEF Passed, Settled, OnlyOutageSkips
<1>3. FundingTypeOK
  BY <1>1 DEF FundingTypes, FundingTypeOK, PollSound, PollRecords, Waiting
<1> QED BY <1>2, <1>3

LEMMA MarketOf ==
  ASSUME FundingTypes, NEW p \in Polls, PollSound(p), poll[p].pc # "idle"
  PROVE  /\ poll[p].at \in 1..Len(Perps) /\ Market(p) \in PerpSet
         /\ poll[p].fresh \in SUBSET Epochs
<1>1. DOMAIN Perps = 1..Len(Perps)
  BY FundingAssumption
<1>2. poll[p].at \in DOMAIN Perps
  BY DEF PollSound
<1> QED BY <1>1, <1>2 DEF Market, PerpSet, ToSet, FundingTypes, PollRecords

\* The oldest of the epochs that a waiting poll holds.
LEMMA OldestHeld ==
  ASSUME FundingTypes, NEW p \in Polls, PollSound(p), poll[p].pc \in Waiting
  PROVE  /\ Oldest(p) \in poll[p].fresh /\ Oldest(p) \in Epochs
         /\ \A f \in poll[p].fresh : Oldest(p) <= f
<1>1. poll[p].fresh # {} /\ poll[p].fresh \in SUBSET Epochs
  BY MarketOf DEF PollSound, Waiting
<1>2. Epochs \in SUBSET Nat
  BY FundingAssumption DEF Epochs
<1>3. poll[p].fresh \in SUBSET Nat
  BY <1>1, <1>2
<1>4. Min(poll[p].fresh) \in poll[p].fresh
      /\ \A f \in poll[p].fresh : Min(poll[p].fresh) <= f
  BY <1>1, <1>3, OldestEpoch
<1> QED BY <1>1, <1>4 DEF Oldest

\* A poll that a step of another leaves alone stays sound: what is settled stays
\* so, and the markets that have a watermark keep one and keep their seed.
LEMMA OtherPoll ==
  ASSUME FundingTypes, NEW p \in Polls, PollSound(p), poll'[p] = poll[p],
         \A m \in PerpSet, e \in Epochs : Settled(m, e) => Settled(m, e)',
         \A m \in PerpSet : lastApplied[m] # NoEpoch =>
                              lastApplied'[m] # NoEpoch /\ seed'[m] = seed[m]
  PROVE  PollSound(p)'
<1>1. Market(p)' = Market(p) /\ Oldest(p)' = Oldest(p)
  BY DEF Market, Oldest
<1>2. ASSUME poll[p].pc \in Waiting
      PROVE  /\ lastApplied'[Market(p)] # NoEpoch
             /\ CaughtUp(Market(p), poll[p].fresh)'
             /\ poll[p].pc = "charged" => Settled(Market(p), Oldest(p))'
  <2>1. Market(p) \in PerpSet
    BY <1>2, MarketOf DEF Waiting
  <2>2. lastApplied[Market(p)] # NoEpoch /\ CaughtUp(Market(p), poll[p].fresh)
    BY <1>2 DEF PollSound
  <2>3. lastApplied'[Market(p)] # NoEpoch /\ seed'[Market(p)] = seed[Market(p)]
    BY <2>1, <2>2
  <2>4. CaughtUp(Market(p), poll[p].fresh)'
    BY <1>1, <2>1, <2>2, <2>3 DEF CaughtUp
  <2>5. poll[p].pc = "charged" => Settled(Market(p), Oldest(p))'
    BY <1>1, <1>2, <2>1, OldestHeld DEF PollSound
  <2> QED BY <2>3, <2>4, <2>5
<1> QED BY <1>1, <1>2 DEF PollSound, Waiting

\* A poll that goes on to a market, or ends, waits for nothing.
LEMMA AskSound ==
  ASSUME FundingTypes, NEW p \in Polls, NEW i \in Nat, i # 0, Ask(p, i)
  PROVE  /\ poll' \in [Polls -> PollRecords] /\ PollSound(p)'
         /\ \A q \in Polls : q # p => poll'[q] = poll[q]
<1>1. epoch \in Int
  BY FundingAssumption DEF FundingTypes
<1>2. DOMAIN Perps = 1..Len(Perps) /\ Len(Perps) \in Nat
  BY FundingAssumption
<1>3. poll \in [Polls -> PollRecords]
  BY DEF FundingTypes
<1>4. CASE i > Len(Perps) \/ running = "stopping"
  <2>1. poll' = [poll EXCEPT ![p] = IdlePoll]
    BY <1>4 DEF Ask
  <2>2. IdlePoll \in PollRecords
    BY DEF IdlePoll, PollRecords
  <2>3. poll'[p].pc = "idle"
    BY <1>3, <2>1 DEF IdlePoll
  <2> QED BY <1>3, <2>1, <2>2, <2>3 DEF PollSound, Waiting
<1>5. CASE ~(i > Len(Perps) \/ running = "stopping")
  <2> DEFINE r == [pc |-> "asking", at |-> i, asked |-> epoch, fresh |-> {}]
  <2>1. poll' = [poll EXCEPT ![p] = r]
    BY <1>5 DEF Ask
  <2>2. r \in PollRecords
    BY <1>1 DEF PollRecords
  <2>3. poll'[p] = r
    BY <1>3, <2>1
  <2>4. poll'[p].pc = "asking" /\ poll'[p].at \in DOMAIN Perps
    BY <1>2, <1>5, <2>3
  <2> QED BY <1>3, <2>1, <2>2, <2>4 DEF PollSound, Waiting
<1> QED BY <1>4, <1>5

LEMMA NextMarketSound ==
  ASSUME FundingTypes, NEW p \in Polls, NextMarket(p)
  PROVE  /\ poll' \in [Polls -> PollRecords] /\ PollSound(p)'
         /\ \A q \in Polls : q # p => poll'[q] = poll[q]
<1>1. poll[p].at + 1 \in Nat /\ poll[p].at + 1 # 0
  BY DEF FundingTypes, PollRecords
<1> QED BY <1>1, AskSound DEF NextMarket

\* A step that changes one poll and nothing else of what the invariant reads.
LEMMA OnlyPolls ==
  ASSUME FundingInv, NEW p \in Polls,
         UNCHANGED <<lastApplied, charged, seed, outOfReach>>,
         epoch' \in 0..MaxEpoch, running' \in {"up", "stopping", "down"},
         poll' \in [Polls -> PollRecords], PollSound(p)',
         \A q \in Polls : q # p => poll'[q] = poll[q]
  PROVE  FundingInv'
<1>1. FundingTypes'
  BY DEF FundingInv, FundingTypes
<1>2. Passed'
  BY DEF FundingInv, Passed, Settled
<1>3. ASSUME NEW q \in Polls, q # p PROVE PollSound(q)'
  <2>1. \A m \in PerpSet, e \in Epochs : Settled(m, e) => Settled(m, e)'
    BY DEF Settled
  <2> QED BY <1>3, <2>1, OtherPoll DEF FundingInv
<1> QED BY <1>1, <1>2, <1>3 DEF FundingInv

\* The loop moves the watermark, back it may be, over an epoch that is settled.
LEMMA AdvanceSound ==
  ASSUME FundingInv, NEW p \in Polls, poll[p].pc \in Waiting,
         Settled(Market(p), Oldest(p)), Advance(p),
         UNCHANGED <<epoch, running, charged, seed, outOfReach>>
  PROVE  FundingInv'
<1> DEFINE m == Market(p)
           o == Oldest(p)
           fresh == poll[p].fresh
<1>1. FundingTypes /\ Passed /\ PollSound(p) /\ \A q \in Polls : PollSound(q)
  BY DEF FundingInv
<1>2. o \in fresh /\ o \in Epochs /\ \A f \in fresh : o <= f
  BY <1>1, OldestHeld
<1>3. m \in PerpSet /\ fresh \in SUBSET Epochs /\ CaughtUp(m, fresh)
  BY <1>1, MarketOf DEF PollSound, Waiting
<1>4. lastApplied' = [lastApplied EXCEPT ![m] = o]
  BY DEF Advance
<1>5. NoEpoch \notin Epochs /\ Epochs \in SUBSET Nat
  BY FundingAssumption DEF Epochs
<1>6. lastApplied' \in [PerpSet -> Watermark]
  BY <1>1, <1>2, <1>4 DEF FundingTypes, Watermark
<1>7. \A n \in PerpSet, e \in Epochs : Settled(n, e)' <=> Settled(n, e)
  BY DEF Settled
<1>8. \A e \in Epochs : seed[m] < e /\ e <= o => Settled(m, e)
  <2> SUFFICES ASSUME NEW e \in Epochs, seed[m] < e, e <= o PROVE Settled(m, e)
    OBVIOUS
  <2>1. e \in Nat /\ o \in Nat
    BY <1>2, <1>5
  <2>2. CASE e = o
    BY <2>2
  <2>3. CASE e # o
    <3>1. e \notin fresh
      <4>1. e < o
        BY <2>1, <2>3
      <4>2. ~(o <= e)
        BY <2>1, <4>1
      <4> QED BY <1>2, <4>2
    <3> QED BY <1>2, <1>3, <3>1 DEF CaughtUp
  <2> QED BY <2>2, <2>3
<1>9. Passed'
  <2> SUFFICES ASSUME NEW n \in PerpSet, NEW e \in Epochs,
                      lastApplied'[n] # NoEpoch, seed[n] < e, e <= lastApplied'[n]
               PROVE  Settled(n, e)'
    BY DEF Passed
  <2>1. CASE n = m
    <3>1. lastApplied'[m] = o
      BY <1>1, <1>3, <1>4 DEF FundingTypes
    <3> QED BY <1>7, <1>8, <2>1, <3>1
  <2>2. CASE n # m
    <3>1. lastApplied'[n] = lastApplied[n]
      BY <1>1, <1>4, <2>2 DEF FundingTypes
    <3>2. Settled(n, e)
      BY <1>1, <3>1 DEF Passed
    <3> QED BY <1>7, <3>2
  <2> QED BY <2>1, <2>2
<1>10. \A n \in PerpSet : lastApplied[n] # NoEpoch => lastApplied'[n] # NoEpoch
  BY <1>1, <1>2, <1>4, <1>5 DEF FundingTypes
<1>11. /\ poll' \in [Polls -> PollRecords] /\ PollSound(p)'
       /\ \A q \in Polls : q # p => poll'[q] = poll[q]
  <2>1. CASE fresh = {o}
    BY <1>1, <2>1, NextMarketSound DEF Advance
  <2>2. CASE fresh # {o}
    <3> DEFINE r == [poll[p] EXCEPT !.pc = "settling", !.fresh = fresh \ {o}]
    <3>1. poll[p] \in PollRecords /\ poll \in [Polls -> PollRecords]
      BY <1>1 DEF FundingTypes
    <3>2. poll' = [poll EXCEPT ![p] = r]
      BY <2>2, <3>1 DEF Advance, PollRecords
    <3>3. r \in PollRecords /\ r.at = poll[p].at /\ r.pc = "settling"
          /\ r.fresh = fresh \ {o}
      BY <1>3, <3>1 DEF PollRecords, Waiting
    <3>4. poll'[p] = r /\ Market(p)' = m
      BY <3>1, <3>2, <3>3 DEF Market
    <3>5. poll' \in [Polls -> PollRecords] /\ \A q \in Polls : q # p => poll'[q] = poll[q]
      BY <3>1, <3>2, <3>3
    <3>6. lastApplied'[m] # NoEpoch
      BY <1>1, <1>2, <1>3, <1>4, <1>5 DEF FundingTypes
    <3>7. ASSUME NEW n, n = m, NEW g, g = fresh \ {o}
          PROVE  CaughtUp(n, g)'
      <4> SUFFICES ASSUME NEW f \in g, NEW e \in Epochs, seed[n] < e, e <= f,
                          e \notin g
                   PROVE  Settled(n, e)'
        BY DEF CaughtUp
      <4>1. Settled(n, e)
        <5>1. CASE e = o
          BY <3>7, <5>1
        <5>2. CASE e # o
          <6>1. e \notin fresh /\ f \in fresh
            BY <3>7, <5>2
          <6> QED BY <1>3, <3>7, <6>1 DEF CaughtUp
        <5> QED BY <5>1, <5>2
      <4> QED BY <1>3, <1>7, <3>7, <4>1
    <3>8. fresh \ {o} # {}
      BY <1>2, <2>2
    <3>9. poll[p].pc # "idle" /\ poll[p].at \in DOMAIN Perps
      BY <1>1 DEF PollSound, Waiting
    <3>10. CaughtUp(Market(p), poll[p].fresh)'
      <4>1. poll'[p].fresh = fresh \ {o}
        BY <3>3, <3>4
      <4> QED BY <3>4, <3>7, <4>1
    <3>11. PollSound(p)'
      BY <3>3, <3>4, <3>6, <3>8, <3>9, <3>10 DEF PollSound, Waiting
    <3> QED BY <3>5, <3>11
  <2> QED BY <2>1, <2>2
<1>12. ASSUME NEW q \in Polls, q # p PROVE PollSound(q)'
  BY <1>1, <1>7, <1>10, <1>11, <1>12, OtherPoll
<1>13. FundingTypes'
  BY <1>1, <1>6, <1>11 DEF FundingTypes
<1> QED BY <1>9, <1>11, <1>12, <1>13 DEF FundingInv

\* What a request returns: an interval of epochs that ends with the latest.
LEMMA PointsAnswered ==
  ASSUME FundingTypes, NEW asked \in Int, NEW latest \in Int
  PROVE  /\ Points(asked, latest) \in SUBSET Epochs
         /\ \A e, f \in Epochs : /\ f \in Points(asked, latest)
                                 /\ e <= f
                                 /\ e \notin Points(asked, latest)
              => \A x \in Points(asked, latest) : e < x
<1>1. Epochs \in SUBSET Nat /\ Lookback \in Nat
  BY FundingAssumption DEF Epochs
<1> QED BY <1>1 DEF Points

\* A market without a watermark has no poll that waits.
LEMMA AdoptSeedSound ==
  ASSUME FundingInv, NEW p \in Polls, poll[p].pc = "asking",
         NEW points \in SUBSET Epochs, points # {}, AdoptSeed(p, points),
         UNCHANGED <<epoch, running, charged, pollFaults>>
  PROVE  FundingInv'
<1>1. FundingTypes /\ Passed /\ \A q \in Polls : PollSound(q)
  BY DEF FundingInv
<1>2. PICK m \in PerpSet : m = Market(p)
  BY <1>1, MarketOf
<1>3. PICK w \in Epochs : w = Max(points)
  <2>1. points \in SUBSET Nat /\ MaxEpoch \in Nat /\ \A e \in points : e <= MaxEpoch
    BY FundingAssumption DEF Epochs
  <2> QED BY <2>1, NewestEpoch
<1>4. /\ lastApplied[m] = NoEpoch /\ outOfReach' = outOfReach
      /\ lastApplied' = [lastApplied EXCEPT ![m] = w]
      /\ seed' = [seed EXCEPT ![m] = w] /\ NextMarket(p)
  BY <1>2, <1>3 DEF AdoptSeed
<1>5. Epochs \in SUBSET Nat /\ NoEpoch \notin Epochs
  BY FundingAssumption DEF Epochs
<1>6. /\ poll' \in [Polls -> PollRecords] /\ PollSound(p)'
      /\ \A q \in Polls : q # p => poll'[q] = poll[q]
  BY <1>1, <1>4, NextMarketSound
<1>7. FundingTypes'
  BY <1>1, <1>3, <1>4, <1>6 DEF FundingTypes, Watermark
<1>8. \A n \in PerpSet, e \in Epochs : Settled(n, e)' <=> Settled(n, e)
  BY <1>4 DEF Settled
<1>9. \A n \in PerpSet : n # m => lastApplied'[n] = lastApplied[n] /\ seed'[n] = seed[n]
  BY <1>1, <1>4 DEF FundingTypes
<1>10. lastApplied'[m] = w /\ seed'[m] = w
  BY <1>1, <1>4 DEF FundingTypes
<1>11. Passed'
  <2> SUFFICES ASSUME NEW n \in PerpSet, NEW e \in Epochs,
                      lastApplied'[n] # NoEpoch, seed'[n] < e, e <= lastApplied'[n]
               PROVE  Settled(n, e)'
    BY DEF Passed
  <2>1. n # m
    <3> SUFFICES ASSUME n = m PROVE FALSE
      OBVIOUS
    <3>1. w < e /\ e <= w /\ w \in Nat /\ e \in Nat
      BY <1>5, <1>10
    <3> QED BY <3>1
  <2>2. Settled(n, e)
    BY <1>1, <1>9, <2>1 DEF Passed
  <2> QED BY <1>8, <2>2
<1>12. ASSUME NEW q \in Polls, q # p PROVE PollSound(q)'
  <2>1. \A n \in PerpSet : lastApplied[n] # NoEpoch =>
          lastApplied'[n] # NoEpoch /\ seed'[n] = seed[n]
    BY <1>4, <1>9
  <2>2. \A n \in PerpSet, e \in Epochs : Settled(n, e) => Settled(n, e)'
    BY <1>8
  <2> QED BY <1>1, <1>6, <1>12, <2>1, <2>2, OtherPoll
<1> QED BY <1>6, <1>7, <1>11, <1>12 DEF FundingInv

\* The epochs between the watermark and the answer are lost, and noted as such;
\* of the others above the watermark the poll holds every one.
LEMMA TakeFreshSound ==
  ASSUME FundingInv, NEW p \in Polls, poll[p].pc = "asking",
         NEW asked \in Int, NEW latest \in Int, Points(asked, latest) # {},
         TakeFresh(p, Points(asked, latest)),
         UNCHANGED <<epoch, running, charged, pollFaults>>
  PROVE  FundingInv'
<1>1. FundingTypes /\ Passed /\ \A q \in Polls : PollSound(q)
  BY DEF FundingInv
<1>2. PICK m \in PerpSet : m = Market(p)
  BY <1>1, MarketOf
<1>3. PICK points \in SUBSET Epochs :
        /\ points = Points(asked, latest)
        /\ \A e, f \in Epochs : f \in points /\ e <= f /\ e \notin points
                                  => \A x \in points : e < x
  BY <1>1, PointsAnswered
<1>4. Epochs \in SUBSET Nat
  BY FundingAssumption DEF Epochs
<1>5. PICK first \in points : first = Min(points)
  <2>1. points \in SUBSET Nat /\ points # {}
    BY <1>3, <1>4
  <2> QED BY <2>1, OldestEpoch
<1>6. PICK w \in Epochs \cup {0} : w = lastApplied[m] /\ w # NoEpoch
  BY <1>1, <1>2 DEF FundingTypes, Watermark, TakeFresh
<1>7. PICK fresh \in SUBSET Epochs :
        fresh = {e \in points : e > w} /\ fresh = Fresh(points, lastApplied[m])
  BY <1>6 DEF Fresh
<1>8. outOfReach' = [outOfReach EXCEPT ![m] = @ \cup {e \in Epochs : w < e /\ e < first}]
  BY <1>2, <1>3, <1>5, <1>6 DEF TakeFresh
<1>9. lastApplied' = lastApplied /\ seed' = seed
  BY DEF TakeFresh
<1>10. outOfReach' \in [PerpSet -> SUBSET Epochs]
       /\ \A n \in PerpSet : outOfReach[n] \subseteq outOfReach'[n]
  BY <1>1, <1>8 DEF FundingTypes
<1>11. outOfReach'[m] = outOfReach[m] \cup {e \in Epochs : w < e /\ e < first}
  BY <1>1, <1>8 DEF FundingTypes
<1>12. \A n \in PerpSet, e \in Epochs : Settled(n, e) => Settled(n, e)'
  BY <1>10 DEF Settled
<1>13. /\ poll' \in [Polls -> PollRecords] /\ PollSound(p)'
       /\ \A q \in Polls : q # p => poll'[q] = poll[q]
  <2>1. CASE fresh = {}
    BY <1>1, <1>2, <1>3, <1>7, <2>1, NextMarketSound DEF TakeFresh
  <2>2. CASE fresh # {}
    <3> DEFINE r == [poll[p] EXCEPT !.pc = "settling", !.fresh = fresh]
    <3>1. poll[p] \in PollRecords /\ poll \in [Polls -> PollRecords]
      BY <1>1 DEF FundingTypes
    <3>2. poll' = [poll EXCEPT ![p] = r]
      <4>1. poll' = [poll EXCEPT ![p].pc = "settling", ![p].fresh = fresh]
        BY <1>2, <1>3, <1>7, <2>2 DEF TakeFresh
      <4> QED BY <3>1, <4>1 DEF PollRecords
    <3>3. r \in PollRecords /\ r.at = poll[p].at /\ r.pc = "settling" /\ r.fresh = fresh
      BY <3>1 DEF PollRecords, Waiting
    <3>4. poll'[p] = r /\ Market(p)' = m
      BY <1>2, <3>1, <3>2, <3>3 DEF Market
    <3>5. poll' \in [Polls -> PollRecords] /\ \A q \in Polls : q # p => poll'[q] = poll[q]
      BY <3>1, <3>2, <3>3
    <3>6. CaughtUp(m, fresh)'
      <4> SUFFICES ASSUME NEW f \in fresh, NEW e \in Epochs, seed[m] < e, e <= f,
                          e \notin fresh
                   PROVE  Settled(m, e)'
        BY <1>9 DEF CaughtUp
      <4>1. e \in Nat /\ w \in Nat /\ f \in points /\ f \in Epochs
        BY <1>4, <1>6, <1>7
      <4>2. CASE e <= w
        <5>1. Settled(m, e)
          BY <1>1, <1>6, <4>2 DEF Passed
        <5> QED BY <1>12, <5>1
      <4>3. CASE w < e
        <5>1. e \notin points
          BY <1>7, <4>1, <4>3
        <5>2. e < first
          BY <1>3, <4>1, <5>1
        <5> QED BY <1>11, <4>3, <5>2 DEF Settled
      <4> QED BY <4>1, <4>2, <4>3
    <3>7. poll[p].at \in DOMAIN Perps
      BY <1>1 DEF PollSound
    <3>8. poll'[p].fresh = fresh /\ poll'[p].pc = "settling"
          /\ poll'[p].at \in DOMAIN Perps
      BY <3>3, <3>4, <3>7
    <3>9. CaughtUp(Market(p), poll[p].fresh)'
      BY <3>4, <3>6, <3>8
    <3>10. lastApplied'[m] # NoEpoch
      BY <1>6, <1>9
    <3>11. PollSound(p)'
      BY <2>2, <3>4, <3>8, <3>9, <3>10 DEF PollSound, Waiting
    <3> QED BY <3>5, <3>11
  <2> QED BY <2>1, <2>2
<1>14. ASSUME NEW q \in Polls, q # p PROVE PollSound(q)'
  BY <1>1, <1>9, <1>12, <1>13, <1>14, OtherPoll
<1>15. FundingTypes'
  BY <1>1, <1>9, <1>10, <1>13 DEF FundingTypes
<1>16. Passed'
  BY <1>1, <1>9, <1>12 DEF Passed
<1> QED BY <1>13, <1>14, <1>15, <1>16 DEF FundingInv

LEMMA AnswerSound ==
  ASSUME FundingInv, NEW p \in Polls, Answer(p)
  PROVE  FundingInv'
<1>1. FundingTypes /\ \A q \in Polls : PollSound(q)
  BY DEF FundingInv
<1>2. /\ poll[p].pc = "asking" /\ poll[p].asked \in Int /\ epoch \in Int
      /\ UNCHANGED <<epoch, running, charged, pollFaults>>
  BY <1>1, FundingAssumption DEF Answer, FundingTypes, PollRecords
<1>3. PICK latest \in poll[p].asked..epoch :
        LET points == Points(poll[p].asked, latest) IN
        \/ /\ points = {} /\ NextMarket(p)
           /\ UNCHANGED <<lastApplied, seed, outOfReach>>
        \/ points # {} /\ (AdoptSeed(p, points) \/ TakeFresh(p, points))
  BY DEF Answer
<1> DEFINE points == Points(poll[p].asked, latest)
<1>4. latest \in Int /\ points \in SUBSET Epochs
  BY <1>2 DEF Points
<1>5. CASE points = {} /\ NextMarket(p) /\ UNCHANGED <<lastApplied, seed, outOfReach>>
  <2>1. /\ poll' \in [Polls -> PollRecords] /\ PollSound(p)'
        /\ \A q \in Polls : q # p => poll'[q] = poll[q]
    BY <1>1, <1>5, NextMarketSound
  <2>2. epoch' \in 0..MaxEpoch /\ running' \in {"up", "stopping", "down"}
    BY <1>1, <1>2 DEF FundingTypes
  <2> QED BY <1>2, <1>5, <2>1, <2>2, OnlyPolls
<1>6. CASE points # {} /\ AdoptSeed(p, points)
  BY <1>2, <1>4, <1>6, AdoptSeedSound
<1>7. CASE points # {} /\ TakeFresh(p, points)
  BY <1>2, <1>4, <1>7, TakeFreshSound
<1> QED BY <1>3, <1>5, <1>6, <1>7

LEMMA SettleSound ==
  ASSUME FundingInv, NEW p \in Polls, Settle(p)
  PROVE  FundingInv'
<1>1. FundingTypes /\ PollSound(p)
  BY DEF FundingInv
<1>2. /\ poll[p].pc = "settling"
      /\ UNCHANGED <<epoch, running, charged, seed, outOfReach, pollFaults>>
  BY DEF Settle
<1>3. poll \in [Polls -> PollRecords] /\ poll[p] \in PollRecords
      /\ epoch' \in 0..MaxEpoch /\ running' \in {"up", "stopping", "down"}
  BY <1>1, <1>2 DEF FundingTypes
<1>4. CASE poll' = [poll EXCEPT ![p] = IdlePoll] /\ UNCHANGED lastApplied
  <2>1. IdlePoll \in PollRecords /\ IdlePoll.pc = "idle"
    BY DEF IdlePoll, PollRecords
  <2>2. poll' \in [Polls -> PollRecords] /\ poll'[p] = IdlePoll
        /\ \A q \in Polls : q # p => poll'[q] = poll[q]
    BY <1>3, <1>4, <2>1
  <2>3. PollSound(p)'
    BY <2>1, <2>2 DEF PollSound, Waiting
  <2> QED BY <1>2, <1>3, <1>4, <2>2, <2>3, OnlyPolls
<1>5. CASE Oldest(p) \in ZeroRateEpochs /\ Advance(p)
  BY <1>2, <1>5, AdvanceSound DEF Settled, Waiting
<1>6. CASE poll' = [poll EXCEPT ![p].pc = "queued"] /\ UNCHANGED lastApplied
  <2> DEFINE r == [poll[p] EXCEPT !.pc = "queued"]
  <2>1. r \in PollRecords /\ r.pc = "queued" /\ r.at = poll[p].at
        /\ r.fresh = poll[p].fresh
    BY <1>3 DEF PollRecords, Waiting
  <2>2. poll' \in [Polls -> PollRecords] /\ poll'[p] = r
        /\ \A q \in Polls : q # p => poll'[q] = poll[q]
    BY <1>3, <1>6, <2>1
  <2>3. Market(p)' = Market(p) /\ poll'[p].fresh = poll[p].fresh
        /\ poll'[p].pc = "queued" /\ poll'[p].at = poll[p].at
    BY <2>1, <2>2 DEF Market
  <2>4. CaughtUp(Market(p), poll[p].fresh)' <=> CaughtUp(Market(p), poll[p].fresh)
    BY <1>2, <2>3 DEF CaughtUp, Settled
  <2>5. PollSound(p)'
    BY <1>1, <1>2, <1>6, <2>3, <2>4 DEF PollSound, Waiting
  <2> QED BY <1>2, <1>3, <1>6, <2>2, <2>5, OnlyPolls
<1> QED BY <1>4, <1>5, <1>6 DEF Settle

LEMMA ChargeSound ==
  ASSUME FundingInv, NEW p \in Polls, Charge(p)
  PROVE  FundingInv'
<1>1. FundingTypes /\ Passed /\ \A q \in Polls : PollSound(q)
  BY DEF FundingInv
<1>2. /\ poll[p].pc = "queued" /\ poll' = [poll EXCEPT ![p].pc = "charged"]
      /\ charged' = [charged EXCEPT ![Market(p)][Oldest(p)] = @ + 1]
      /\ UNCHANGED <<epoch, running, lastApplied, seed, outOfReach, pollFaults>>
  BY DEF Charge
<1>3. PICK m \in PerpSet : m = Market(p)
  BY <1>1, <1>2, MarketOf
<1>4. PICK o \in Epochs : o = Oldest(p)
  BY <1>1, <1>2, OldestHeld DEF Waiting
<1>5. charged \in [PerpSet -> [Epochs -> Nat]]
      /\ charged' = [charged EXCEPT ![m] = [charged[m] EXCEPT ![o] = @ + 1]]
  BY <1>1, <1>2, <1>3, <1>4 DEF FundingTypes
<1>6. charged[m][o] \in Nat /\ charged'[m][o] = charged[m][o] + 1
  BY <1>5
<1>7. charged' \in [PerpSet -> [Epochs -> Nat]]
      /\ \A n \in PerpSet, e \in Epochs :
           n # m \/ e # o => charged'[n][e] = charged[n][e]
  BY <1>5
<1>8. charged'[m][o] > 0
  BY <1>6
<1>9. \A n \in PerpSet, e \in Epochs : Settled(n, e) => Settled(n, e)'
  BY <1>2, <1>7, <1>8 DEF Settled
<1> DEFINE r == [poll[p] EXCEPT !.pc = "charged"]
<1>10. poll \in [Polls -> PollRecords] /\ poll[p] \in PollRecords
  BY <1>1 DEF FundingTypes
<1>11. r \in PollRecords /\ r.pc = "charged" /\ r.at = poll[p].at
       /\ r.fresh = poll[p].fresh
  BY <1>10 DEF PollRecords, Waiting
<1>12. poll' \in [Polls -> PollRecords] /\ poll'[p] = r
       /\ \A q \in Polls : q # p => poll'[q] = poll[q]
  BY <1>2, <1>10, <1>11
<1>13. Market(p)' = m /\ Oldest(p)' = o /\ poll'[p].fresh = poll[p].fresh
       /\ poll'[p].pc = "charged" /\ poll'[p].at = poll[p].at
  BY <1>3, <1>4, <1>11, <1>12 DEF Market, Oldest
<1>14. /\ poll[p].at \in DOMAIN Perps /\ poll[p].fresh # {}
       /\ lastApplied[m] # NoEpoch /\ CaughtUp(m, poll[p].fresh)
  BY <1>1, <1>2, <1>3 DEF PollSound, Waiting
<1>15. CaughtUp(Market(p), poll[p].fresh)'
  BY <1>2, <1>9, <1>13, <1>14 DEF CaughtUp
<1>16. Settled(Market(p), Oldest(p))'
  BY <1>8, <1>13 DEF Settled
<1>17. PollSound(p)'
  BY <1>2, <1>13, <1>14, <1>15, <1>16 DEF PollSound, Waiting
<1>18. ASSUME NEW q \in Polls, q # p PROVE PollSound(q)'
  BY <1>1, <1>2, <1>9, <1>12, <1>18, OtherPoll
<1>19. FundingTypes'
  BY <1>1, <1>2, <1>7, <1>12 DEF FundingTypes
<1>20. Passed'
  BY <1>1, <1>2, <1>9 DEF Passed
<1> QED BY <1>17, <1>18, <1>19, <1>20 DEF FundingInv

LEMMA FundingInvInit ==
  FundingInit => FundingInv
<1> SUFFICES ASSUME FundingInit PROVE FundingInv
  OBVIOUS
<1>1. IdlePoll \in PollRecords /\ IdlePoll.pc = "idle"
  BY DEF IdlePoll, PollRecords
<1>2. FundingTypes
  BY <1>1, FundingAssumption DEF FundingInit, FundingTypes, NoWatermarks, Watermark
<1>3. Passed
  BY DEF FundingInit, NoWatermarks, Passed
<1>4. \A p \in Polls : PollSound(p)
  BY <1>1 DEF FundingInit, PollSound, Waiting
<1> QED BY <1>2, <1>3, <1>4 DEF FundingInv

LEMMA FundingInvNext ==
  FundingInv /\ [FundingNext]_fundingVars => FundingInv'
<1> SUFFICES ASSUME FundingInv, [FundingNext]_fundingVars PROVE FundingInv'
  OBVIOUS
<1>1. FundingTypes /\ Passed /\ \A q \in Polls : PollSound(q)
  BY DEF FundingInv
<1>2. ASSUME poll' = poll, epoch' \in 0..MaxEpoch,
             running' \in {"up", "stopping", "down"},
             UNCHANGED <<lastApplied, charged, seed, outOfReach>>
      PROVE  FundingInv'
  BY <1>1, <1>2 DEF FundingInv, FundingTypes, Passed, PollSound, CaughtUp, Settled,
                    Market, Oldest
<1>3. ASSUME NEW p \in Polls, StartPoll(p) PROVE FundingInv'
  <2>1. /\ poll' \in [Polls -> PollRecords] /\ PollSound(p)'
        /\ \A q \in Polls : q # p => poll'[q] = poll[q]
    BY <1>1, <1>3, AskSound DEF StartPoll
  <2>2. epoch' \in 0..MaxEpoch /\ running' \in {"up", "stopping", "down"}
        /\ UNCHANGED <<lastApplied, charged, seed, outOfReach>>
    BY <1>1, <1>3 DEF StartPoll, FundingTypes
  <2> QED BY <2>1, <2>2, OnlyPolls
<1>4. ASSUME NEW p \in Polls, Charged(p) PROVE FundingInv'
  <2>1. Settled(Market(p), Oldest(p)) /\ poll[p].pc \in Waiting
    BY <1>1, <1>4 DEF Charged, PollSound, Waiting
  <2> QED BY <1>4, <2>1, AdvanceSound DEF Charged
<1>5. ASSUME NEW p \in Polls, Failed(p) PROVE FundingInv'
  <2>1. /\ poll' \in [Polls -> PollRecords] /\ PollSound(p)'
        /\ \A q \in Polls : q # p => poll'[q] = poll[q]
    BY <1>1, <1>5, NextMarketSound DEF Failed
  <2>2. epoch' \in 0..MaxEpoch /\ running' \in {"up", "stopping", "down"}
        /\ UNCHANGED <<lastApplied, charged, seed, outOfReach>>
    BY <1>1, <1>5 DEF Failed, FundingTypes
  <2> QED BY <2>1, <2>2, OnlyPolls
<1>6. CASE Publish
  BY <1>1, <1>2, <1>6, FundingAssumption DEF Publish, FundingTypes
<1>7. CASE StopFunding
  BY <1>1, <1>2, <1>7 DEF StopFunding, FundingTypes
<1>8. CASE Boot
  BY <1>1, <1>2, <1>8 DEF Boot, FundingTypes
<1>9. CASE Exit
  <2>1. IdlePoll \in PollRecords /\ IdlePoll.pc = "idle"
    BY DEF IdlePoll, PollRecords
  <2>2. FundingTypes'
    BY <1>1, <1>9, <2>1 DEF Exit, FundingTypes, NoWatermarks, Watermark
  <2>3. Passed'
    BY <1>9 DEF Exit, NoWatermarks, Passed
  <2>4. \A p \in Polls : PollSound(p)'
    BY <1>9, <2>1 DEF Exit, PollSound, Waiting
  <2> QED BY <2>2, <2>3, <2>4 DEF FundingInv
<1>10. CASE UNCHANGED fundingVars
  BY <1>1, <1>2, <1>10 DEF fundingVars, FundingTypes
<1> QED BY <1>3, <1>4, <1>5, <1>6, <1>7, <1>8, <1>9, <1>10, AnswerSound, SettleSound,
           ChargeSound DEF FundingNext, PollStep

\* However polls overlap, fail, stop and start again, and however late the venue
\* answers, the watermark of funding.ts passes no epoch that was not charged,
\* free of charge, or out of reach of a poll.
THEOREM NoEpochIsSkipped == FundingSpec => []OnlyOutageSkips
<1>1. FundingInv => OnlyOutageSkips
  BY PassedIsOnlyOutageSkips
<1> QED BY <1>1, FundingInvInit, FundingInvNext, PTL DEF FundingSpec

-----------------------------------------------------------------------------
(* The login nonces.                                                       *)

NonceRecords ==
  [addr : Range(AddressOf), id : 1..issued, life : Int, at : 1..issued]

AuthTypes ==
  /\ issued \in 0..MaxNonces /\ minted \in [1..MaxNonces -> Nat]
  /\ IsFiniteSet(nonces) /\ nonces \subseteq NonceRecords
  /\ \A c \in checking : c.entry \in 1..issued

\* No two entries share an address, a nonce or a place.
EntriesDiffer ==
  \A m, n \in nonces : m.addr = n.addr \/ m.id = n.id \/ m.at = n.at => m = n

\* What is in the map, or has been taken and is being checked, is worth one token
\* at the most, and has not been traded for it yet.
Unspent ==
  /\ \A n \in 1..MaxNonces : minted[n] <= 1
  /\ \A n \in nonces : minted[n.id] = 0
  /\ \A c \in checking : minted[c.entry] = 0
  /\ \A n \in 1..MaxNonces : n > issued => minted[n] = 0
  /\ \A c, d \in checking : c.entry = d.entry => c = d
  /\ \A c \in checking, n \in nonces : c.entry # n.id

AuthInv ==
  /\ AuthTypes /\ EntriesDiffer /\ Unspent
  /\ Cardinality(nonces) <= NonceCap

\* Of a finite set of entries the k that were inserted last are at most k.
LEMMA LastInsertedBound ==
  ASSUME NEW s, IsFiniteSet(s), NEW k \in Nat \ {0}, \A n \in s : n.at \in Nat,
         \A m, n \in s : m.at = n.at => m = n
  PROVE  IsFiniteSet(LastInserted(s, k)) /\ Cardinality(LastInserted(s, k)) <= k
<1> DEFINE T == LastInserted(s, k)
<1>1. T \in SUBSET s
  BY DEF LastInserted
<1>2. IsFiniteSet(T) /\ Cardinality(T) \in Nat
  BY <1>1, FS_Subset, FS_CardinalityType
<1>3. ASSUME Cardinality(T) > k PROVE FALSE
  <2>1. T # {}
    BY <1>2, <1>3, FS_EmptySet
  <2> DEFINE B == {n.at : n \in T}
  <2>2. B \in SUBSET Nat /\ B # {}
    BY <1>1, <2>1
  <2>3. PICK low \in B : \A b \in B : low <= b
    BY <2>2, LeastNumber
  <2>4. PICK n \in T : n.at = low
    OBVIOUS
  <2> DEFINE later == {m \in s : m.at > n.at}
  <2>5. Cardinality(later) < k
    BY <2>4 DEF LastInserted
  <2>6. T \ {n} \subseteq later
    <3> SUFFICES ASSUME NEW m \in T \ {n} PROVE m \in later
      OBVIOUS
    <3>1. m \in s /\ n \in s /\ m.at # n.at
      BY <1>1, <2>4
    <3>2. n.at <= m.at
      BY <2>3, <2>4
    <3> QED BY <3>1, <3>2
  <2>7. IsFiniteSet(later) /\ Cardinality(later) \in Nat
    BY FS_Subset, FS_CardinalityType
  <2>8. Cardinality(T \ {n}) <= Cardinality(later)
    BY <2>6, <2>7, FS_Subset
  <2>9. Cardinality(T \ {n}) = Cardinality(T) - 1
    BY <1>2, <2>4, FS_RemoveElement
  <2> QED BY <1>2, <1>3, <2>5, <2>7, <2>8, <2>9
<1> QED BY <1>2, <1>3

\* What Map.set leaves in the map.
LEMMA SetNonceSound ==
  ASSUME AuthInv, NEW a \in Range(AddressOf), issued' = issued + 1,
         NEW s, s = SetNonce(a)
  PROVE  /\ IsFiniteSet(s)
         /\ s \subseteq [addr : Range(AddressOf), id : 1..(issued + 1), life : Int,
                         at : 1..(issued + 1)]
         /\ \A m, n \in s : m.addr = n.addr \/ m.id = n.id \/ m.at = n.at => m = n
         /\ \A n \in s : n \in nonces \/ n.id = issued + 1
<1> DEFINE kept == WithoutAddress(nonces, a)
<1>1. /\ issued \in Nat /\ IsFiniteSet(nonces) /\ nonces \subseteq NonceRecords
      /\ \A m, n \in nonces : m.addr = n.addr \/ m.id = n.id \/ m.at = n.at => m = n
  BY AuthAssumption DEF AuthInv, AuthTypes, EntriesDiffer
<1>2. kept \in SUBSET nonces /\ \A n \in kept : n.addr # a
  BY DEF WithoutAddress
<1>3. PICK place \in 1..(issued + 1) :
        place = PlaceOf(a) /\ \A n \in kept : n.at # place
  <2>1. CASE \E n \in nonces : n.addr = a
    <3>1. PICK old \in nonces : old.addr = a /\ PlaceOf(a) = old.at
      BY <2>1 DEF PlaceOf
    <3>2. \A n \in kept : n.at # old.at
      BY <1>1, <1>2, <3>1
    <3>3. old.at \in 1..(issued + 1)
      BY <1>1, <3>1 DEF NonceRecords
    <3> QED BY <3>1, <3>2, <3>3
  <2>2. CASE ~ \E n \in nonces : n.addr = a
    <3>1. PlaceOf(a) = issued + 1
      BY <2>2 DEF PlaceOf
    <3>2. \A n \in kept : n.at \in 1..issued
      BY <1>1, <1>2 DEF NonceRecords
    <3> QED BY <1>1, <3>1, <3>2
  <2> QED BY <2>1, <2>2
<1>4. PICK new : new = [addr |-> a, id |-> issued + 1, life |-> NonceTtl, at |-> place]
  OBVIOUS
<1>5. s = kept \cup {new}
  BY <1>3, <1>4 DEF SetNonce
<1>6. IsFiniteSet(s)
  BY <1>1, <1>2, <1>5, FS_Subset, FS_AddElement
<1>7. \A n \in kept : n.id \in 1..issued
  BY <1>1, <1>2 DEF NonceRecords
<1>8. new.addr = a /\ new.id = issued + 1 /\ new.at = place
  BY <1>4
<1>9. \A n \in kept : n.addr # new.addr /\ n.id # new.id /\ n.at # new.at
  BY <1>1, <1>2, <1>3, <1>7, <1>8
<1>10. \A m, n \in s : m.addr = n.addr \/ m.id = n.id \/ m.at = n.at => m = n
  BY <1>1, <1>2, <1>5, <1>9
<1>11. \A n \in kept : n \in [addr : Range(AddressOf), id : 1..(issued + 1), life : Int,
                               at : 1..(issued + 1)]
  BY <1>1, <1>2 DEF NonceRecords
<1>12. new \in [addr : Range(AddressOf), id : 1..(issued + 1), life : Int,
                at : 1..(issued + 1)]
  BY <1>1, <1>3, <1>4, AuthAssumption
<1> QED BY <1>2, <1>5, <1>6, <1>8, <1>10, <1>11, <1>12

LEMMA PruneSound ==
  ASSUME NEW s, IsFiniteSet(s), \A n \in s : n.at \in Nat,
         \A m, n \in s : m.at = n.at => m = n
  PROVE  /\ Prune(s) \in SUBSET s /\ IsFiniteSet(Prune(s))
         /\ Cardinality(Prune(s)) <= NonceCap
<1>1. NonceCap \in Nat \ {0} /\ Cardinality(s) \in Nat
  BY AuthAssumption, FS_CardinalityType
<1>2. CASE Cardinality(s) <= NonceCap
  BY <1>2 DEF Prune
<1>3. CASE ~(Cardinality(s) <= NonceCap)
  <2> DEFINE live == {n \in s : n.life >= 0}
  <2>1. IsFiniteSet(live) /\ live \in SUBSET s
    BY FS_Subset
  <2>2. Prune(s) = LastInserted(live, NonceCap)
    BY <1>3 DEF Prune
  <2>3. LastInserted(live, NonceCap) \in SUBSET live
    BY DEF LastInserted
  <2>4. /\ IsFiniteSet(LastInserted(live, NonceCap))
        /\ Cardinality(LastInserted(live, NonceCap)) <= NonceCap
    BY <1>1, <2>1, LastInsertedBound
  <2> QED BY <2>1, <2>2, <2>3, <2>4
<1> QED BY <1>2, <1>3

LEMMA IssueNonceSound ==
  ASSUME AuthInv, NEW t \in Tabs, IssueNonce(t)
  PROVE  AuthInv'
<1>1. /\ issued < MaxNonces /\ issued' = issued + 1
      /\ nonces' = Prune(SetNonce(AddressOf[t]))
      /\ checking' = checking /\ minted' = minted
  BY DEF IssueNonce
<1>2. AddressOf[t] \in Range(AddressOf)
  BY AuthAssumption DEF Range
<1>3. PICK s : s = SetNonce(AddressOf[t])
  OBVIOUS
<1>4. /\ IsFiniteSet(s)
      /\ s \subseteq [addr : Range(AddressOf), id : 1..(issued + 1), life : Int,
                      at : 1..(issued + 1)]
      /\ \A m, n \in s : m.addr = n.addr \/ m.id = n.id \/ m.at = n.at => m = n
      /\ \A n \in s : n \in nonces \/ n.id = issued + 1
  BY <1>1, <1>2, <1>3, SetNonceSound
<1>5. /\ issued \in Nat /\ issued + 1 \in 0..MaxNonces
      /\ minted \in [1..MaxNonces -> Nat]
      /\ \A c \in checking : c.entry \in 1..issued
  BY <1>1, AuthAssumption DEF AuthInv, AuthTypes
<1>6. nonces' \in SUBSET s /\ IsFiniteSet(nonces') /\ Cardinality(nonces') <= NonceCap
  <2>1. \A n \in s : n.at \in Nat
    BY <1>4, <1>5
  <2>2. \A m, n \in s : m.at = n.at => m = n
    BY <1>4
  <2> QED BY <1>1, <1>3, <1>4, <2>1, <2>2, PruneSound
<1>7. AuthTypes'
  BY <1>1, <1>4, <1>5, <1>6 DEF AuthTypes, NonceRecords
<1>8. EntriesDiffer'
  BY <1>4, <1>6 DEF EntriesDiffer
<1>9. Unspent
  BY DEF AuthInv
<1>10. minted[issued + 1] = 0
  BY <1>1, <1>5, <1>9 DEF Unspent
<1>11. \A n \in nonces' : minted[n.id] = 0
  BY <1>4, <1>6, <1>9, <1>10 DEF Unspent
<1>12. \A c \in checking, n \in nonces' : c.entry # n.id
  BY <1>4, <1>5, <1>6, <1>9 DEF Unspent
<1>13. \A n \in 1..MaxNonces : n > issued + 1 => minted[n] = 0
  BY <1>5, <1>9 DEF Unspent
<1>14. Unspent'
  BY <1>1, <1>9, <1>11, <1>12, <1>13 DEF Unspent
<1> QED BY <1>6, <1>7, <1>8, <1>14 DEF AuthInv

\* A step that takes entries away.
LEMMA FewerNonces ==
  ASSUME AuthInv, nonces' \in SUBSET nonces, UNCHANGED <<checking, issued, minted>>
  PROVE  AuthInv'
<1>1. IsFiniteSet(nonces) /\ NonceCap \in Nat
  BY AuthAssumption DEF AuthInv, AuthTypes
<1>2. IsFiniteSet(nonces') /\ Cardinality(nonces') <= Cardinality(nonces)
      /\ Cardinality(nonces) \in Nat /\ Cardinality(nonces') \in Nat
  BY <1>1, FS_Subset, FS_CardinalityType
<1>3. AuthTypes'
  BY <1>2 DEF AuthInv, AuthTypes, NonceRecords
<1>4. EntriesDiffer' /\ Unspent'
  BY DEF AuthInv, EntriesDiffer, Unspent
<1>5. Cardinality(nonces') <= NonceCap
  BY <1>1, <1>2 DEF AuthInv
<1> QED BY <1>3, <1>4, <1>5 DEF AuthInv

LEMMA VerifySound ==
  ASSUME AuthInv, NEW t \in Tabs, Verify(t)
  PROVE  AuthInv'
<1> DEFINE a == AddressOf[t]
<1>1. issued' = issued /\ minted' = minted
  BY DEF Verify
<1>2. CASE nonces' = WithoutAddress(nonces, a) /\ UNCHANGED checking
  BY <1>1, <1>2, FewerNonces DEF WithoutAddress
<1>3. ASSUME NEW n \in nonces, n.addr = a, nonces' = Consume(a),
             NEW c, c.entry = n.id, checking' = checking \cup {c}
      PROVE  AuthInv'
  <2>1. nonces' \in SUBSET nonces /\ \A m \in nonces' : m.addr # a
    BY <1>3 DEF Consume, WithoutAddress
  <2>2. IsFiniteSet(nonces) /\ NonceCap \in Nat
    BY AuthAssumption DEF AuthInv, AuthTypes
  <2>3. IsFiniteSet(nonces') /\ Cardinality(nonces') <= Cardinality(nonces)
        /\ Cardinality(nonces) \in Nat /\ Cardinality(nonces') \in Nat
    BY <2>1, <2>2, FS_Subset, FS_CardinalityType
  <2>4. Cardinality(nonces') <= NonceCap
    BY <2>2, <2>3 DEF AuthInv
  <2>5. c.entry \in 1..issued
    BY <1>3 DEF AuthInv, AuthTypes, NonceRecords
  <2>6. AuthTypes'
    BY <1>1, <1>3, <2>1, <2>3, <2>5 DEF AuthInv, AuthTypes, NonceRecords
  <2>7. EntriesDiffer'
    BY <2>1 DEF AuthInv, EntriesDiffer
  <2>8. \A m \in nonces' : m.id # c.entry
    BY <1>3, <2>1 DEF AuthInv, EntriesDiffer
  <2>9. minted[c.entry] = 0 /\ \A d \in checking : d.entry # c.entry
    BY <1>3 DEF AuthInv, Unspent
  <2>10. Unspent'
    BY <1>1, <1>3, <2>1, <2>8, <2>9 DEF AuthInv, Unspent
  <2> QED BY <2>4, <2>6, <2>7, <2>10 DEF AuthInv
<1>4. \/ nonces' = WithoutAddress(nonces, a) /\ UNCHANGED checking
      \/ \E n \in {x \in nonces : x.addr = a /\ x.life >= 0} :
           /\ nonces' = Consume(a)
           /\ checking' = checking \cup
                {[tab |-> t, signed |-> tab[t].nonce, entry |-> n.id]}
  BY DEF Verify
<1> QED BY <1>2, <1>3, <1>4

\* The token is minted for a nonce that is in no other request.
LEMMA CheckedSound ==
  ASSUME AuthInv, NEW c \in checking, checking' = checking \ {c},
         UNCHANGED <<nonces, issued>>,
         \/ minted' = [minted EXCEPT ![c.entry] = @ + 1]
         \/ minted' = minted
  PROVE  AuthInv'
<1>1. AuthTypes /\ Unspent /\ EntriesDiffer /\ Cardinality(nonces) <= NonceCap
  BY DEF AuthInv
<1>2. c.entry \in 1..MaxNonces /\ minted[c.entry] = 0 /\ c.entry \in 1..issued
      /\ issued \in Nat
  BY <1>1, AuthAssumption DEF AuthTypes, Unspent
<1>3. AuthTypes'
  BY <1>1, <1>2 DEF AuthTypes, NonceRecords
<1>4. minted \in [1..MaxNonces -> Nat]
  BY <1>1 DEF AuthTypes
<1>5. (\A n \in 1..MaxNonces : minted'[n] = minted[n]) \/
      (minted'[c.entry] = 1 /\
       \A n \in 1..MaxNonces : n # c.entry => minted'[n] = minted[n])
  <2>1. CASE minted' = [minted EXCEPT ![c.entry] = @ + 1]
    <3>1. minted'[c.entry] = minted[c.entry] + 1
      BY <1>2, <1>4, <2>1
    <3>2. \A n \in 1..MaxNonces : n # c.entry => minted'[n] = minted[n]
      BY <1>2, <1>4, <2>1
    <3> QED BY <1>2, <3>1, <3>2
  <2>2. CASE minted' = minted
    BY <2>2
  <2> QED BY <2>1, <2>2
<1>6. /\ \A n \in nonces : n.id # c.entry /\ n.id \in 1..MaxNonces
      /\ \A d \in checking \ {c} : d.entry # c.entry /\ d.entry \in 1..MaxNonces
  BY <1>1, AuthAssumption DEF AuthTypes, Unspent, NonceRecords
<1>7. Unspent'
  BY <1>1, <1>2, <1>5, <1>6 DEF Unspent
<1>8. EntriesDiffer'
  BY <1>1 DEF EntriesDiffer
<1> QED BY <1>1, <1>3, <1>7, <1>8 DEF AuthInv

LEMMA NonceElapseSound ==
  ASSUME AuthInv, NonceElapse
  PROVE  AuthInv'
<1> DEFINE aged(n) == [n EXCEPT !.life = IF @ < 0 THEN @ ELSE @ - 1]
           f == [n \in nonces |-> aged(n)]
<1>1. /\ nonces' = {aged(n) : n \in nonces}
      /\ UNCHANGED <<checking, issued, minted>>
  BY DEF NonceElapse
<1>2. AuthTypes /\ Unspent /\ EntriesDiffer /\ Cardinality(nonces) <= NonceCap
  BY DEF AuthInv
<1>3. IsFiniteSet(nonces) /\ NonceCap \in Nat /\ Cardinality(nonces) \in Nat
  BY <1>2, AuthAssumption, FS_CardinalityType DEF AuthTypes
<1>4. f \in Surjection(nonces, nonces')
  BY <1>1 DEF Surjection
<1>5. IsFiniteSet(nonces') /\ Cardinality(nonces') <= Cardinality(nonces)
  BY <1>3, <1>4, FS_Surjection
<1>6. Cardinality(nonces') \in Nat
  BY <1>5, FS_CardinalityType
<1>7. \A n \in nonces : /\ aged(n) \in NonceRecords /\ aged(n).id = n.id
                        /\ aged(n).addr = n.addr /\ aged(n).at = n.at
  BY <1>2 DEF AuthTypes, NonceRecords
<1> HIDE DEF aged
<1>8. AuthTypes'
  BY <1>1, <1>2, <1>5, <1>7 DEF AuthTypes, NonceRecords
<1>9. EntriesDiffer'
  BY <1>1, <1>2, <1>7 DEF EntriesDiffer
<1>10. Unspent'
  BY <1>1, <1>2, <1>7 DEF Unspent
<1>11. Cardinality(nonces') <= NonceCap
  BY <1>2, <1>3, <1>5, <1>6
<1> QED BY <1>8, <1>9, <1>10, <1>11 DEF AuthInv

LEMMA AuthInvInit ==
  AuthInit => AuthInv
BY AuthAssumption, FS_EmptySet DEF AuthInit, AuthInv, AuthTypes, EntriesDiffer, Unspent,
   NonceRecords

LEMMA AuthInvNext ==
  AuthInv /\ [AuthNext]_authVars => AuthInv'
<1> SUFFICES ASSUME AuthInv, [AuthNext]_authVars PROVE AuthInv'
  OBVIOUS
<1>1. ASSUME UNCHANGED <<nonces, checking, issued, minted>> PROVE AuthInv'
  BY <1>1 DEF AuthInv, AuthTypes, EntriesDiffer, Unspent, NonceRecords
<1>2. ASSUME NEW t \in Tabs, Login(t) \/ LoginFails(t) PROVE AuthInv'
  BY <1>1, <1>2 DEF Login, LoginFails
<1>3. ASSUME NEW c \in checking, Checked(c) \/ VerifyFails(c) PROVE AuthInv'
  BY <1>3, CheckedSound DEF Checked, VerifyFails
<1>4. CASE UNCHANGED authVars
  BY <1>1, <1>4 DEF authVars
<1> QED BY <1>2, <1>3, <1>4, IssueNonceSound, VerifySound, NonceElapseSound DEF AuthNext

\* However many tabs log in with one key, and however late or often a request is
\* delivered, no nonce of auth.ts is worth two tokens, one that was taken does
\* not come back, and the map holds one an address and at most MAX_NONCES.
THEOREM NoncesAreSingleUse == AuthSpec => []NonceOnce
<1>1. AuthInv => NonceOnce
  BY DEF AuthInv, EntriesDiffer, Unspent, NonceOnce
<1> QED BY <1>1, AuthInvInit, AuthInvNext, PTL DEF AuthSpec

\* Where the logins of the tabs are, and how long the entries live.
TabTypes ==
  tab \in [Tabs -> [pc : {"idle", "asking", "verifying", "connected", "error"},
                    nonce : 0..issued, copies : 0..MaxCopies]]

EntriesTimed == \A n \in nonces : n.life \in (-1)..NonceTtl /\ n.at <= n.id

LEMMA AuthTypeIs ==
  ASSUME AuthInv, TabTypes, EntriesTimed
  PROVE  AuthTypeOK
BY DEF AuthInv, AuthTypes, NonceRecords, TabTypes, EntriesTimed, AuthTypeOK

LEMMA EntriesTimedNext ==
  ASSUME AuthInv, EntriesTimed, [AuthNext]_authVars
  PROVE  EntriesTimed'
<1>1. nonces \subseteq NonceRecords /\ issued \in Nat /\ NonceTtl \in Nat
  BY AuthAssumption DEF AuthInv, AuthTypes
<1>2. ASSUME nonces' \subseteq nonces PROVE EntriesTimed'
  BY <1>2 DEF EntriesTimed
<1>3. ASSUME NEW t \in Tabs, IssueNonce(t) PROVE EntriesTimed'
  <2>1. PICK a : a = AddressOf[t]
    OBVIOUS
  <2>2. PlaceOf(a) <= issued + 1
    <3>1. CASE \E n \in nonces : n.addr = a
      <4>1. PICK n \in nonces : PlaceOf(a) = n.at
        BY <3>1 DEF PlaceOf
      <4>2. n.at \in 1..issued
        BY <1>1 DEF NonceRecords
      <4> QED BY <1>1, <4>1, <4>2
    <3>2. CASE ~ \E n \in nonces : n.addr = a
      BY <1>1, <3>2 DEF PlaceOf
    <3> QED BY <3>1, <3>2
  <2>3. nonces' \subseteq SetNonce(a)
    BY <1>3, <2>1 DEF IssueNonce, Prune, LastInserted
  <2>4. \A n \in SetNonce(a) :
          n \in nonces \/ n = [addr |-> a, id |-> issued + 1, life |-> NonceTtl,
                               at |-> PlaceOf(a)]
    BY DEF SetNonce, WithoutAddress
  <2> QED BY <1>1, <2>2, <2>3, <2>4 DEF EntriesTimed
<1>4. CASE NonceElapse
  <2>1. ASSUME NEW n \in nonces, NEW m,
               m = [n EXCEPT !.life = IF @ < 0 THEN @ ELSE @ - 1]
        PROVE  m.life \in (-1)..NonceTtl /\ m.at <= m.id
    <3>1. n \in NonceRecords /\ n.life \in (-1)..NonceTtl /\ n.at <= n.id
      BY <1>1 DEF EntriesTimed
    <3>2. /\ m.at = n.at /\ m.id = n.id
          /\ m.life = IF n.life < 0 THEN n.life ELSE n.life - 1
      BY <2>1, <3>1 DEF NonceRecords
    <3> QED BY <1>1, <3>1, <3>2
  <2> QED BY <1>4, <2>1 DEF NonceElapse, EntriesTimed
<1>5. ASSUME NEW t \in Tabs, Login(t) \/ LoginFails(t) \/ Verify(t) PROVE EntriesTimed'
  <2>1. nonces' \subseteq nonces
    BY <1>5 DEF Login, LoginFails, Verify, WithoutAddress, Consume
  <2> QED BY <1>2, <2>1
<1>6. ASSUME NEW c \in checking, Checked(c) \/ VerifyFails(c) PROVE EntriesTimed'
  BY <1>2, <1>6 DEF Checked, VerifyFails
<1>7. CASE UNCHANGED authVars
  BY <1>2, <1>7 DEF authVars
<1> QED BY <1>3, <1>4, <1>5, <1>6, <1>7 DEF AuthNext

LEMMA TabTypesNext ==
  ASSUME AuthInv, TabTypes, [AuthNext]_authVars
  PROVE  TabTypes'
<1> DEFINE Pcs == {"idle", "asking", "verifying", "connected", "error"}
           States(n) == [pc : Pcs, nonce : 0..n, copies : 0..MaxCopies]
<1>1. issued \in Nat /\ MaxCopies \in Nat /\ tab \in [Tabs -> States(issued)]
  BY AuthAssumption DEF AuthInv, AuthTypes, TabTypes
<1>2. ASSUME issued' = issued, NEW t \in Tabs, NEW r \in States(issued),
             tab' = [tab EXCEPT ![t] = r]
      PROVE  TabTypes'
  BY <1>1, <1>2 DEF TabTypes
<1>3. ASSUME issued' = issued, tab' = tab PROVE TabTypes'
  BY <1>3 DEF TabTypes
<1>4. \A t \in Tabs : /\ tab[t] = [pc |-> tab[t].pc, nonce |-> tab[t].nonce,
                                  copies |-> tab[t].copies]
                      /\ tab[t].nonce \in 0..issued /\ tab[t].copies \in 0..MaxCopies
                      /\ tab[t].pc \in Pcs
  BY <1>1
<1>5. ASSUME NEW t, NEW n, NEW pc \in Pcs, NEW f, f = Outcome(t, n, pc)
      PROVE  f \in [Tabs -> States(issued)] /\ \A u \in Tabs : f[u].copies = tab[u].copies
  <2>1. CASE f = tab
    BY <1>1, <2>1
  <2>2. CASE t \in Tabs /\ f = [tab EXCEPT ![t].pc = pc]
    BY <1>1, <1>4, <2>2
  <2>3. CASE t \notin Tabs /\ f = [tab EXCEPT ![t].pc = pc]
    <3>1. f = tab
      BY <1>1, <2>3
    <3> QED BY <1>1, <3>1
  <2> QED BY <1>5, <2>1, <2>2, <2>3 DEF Outcome
<1>6. ASSUME NEW t \in Tabs, Login(t) PROVE TabTypes'
  <2>1. tab' = [tab EXCEPT ![t] = [pc |-> "asking", nonce |-> 0, copies |-> 0]]
    <3>1. tab' = [tab EXCEPT ![t] = [NoLogin EXCEPT !.pc = "asking"]]
      BY <1>6 DEF Login
    <3>2. [NoLogin EXCEPT !.pc = "asking"] = [pc |-> "asking", nonce |-> 0, copies |-> 0]
      BY DEF NoLogin
    <3> QED BY ONLY <3>1, <3>2
  <2>2. [pc |-> "asking", nonce |-> 0, copies |-> 0] \in States(issued)
    BY <1>1
  <2> QED BY <1>2, <1>6, <2>1, <2>2 DEF Login
<1>7. ASSUME NEW t \in Tabs, IssueNonce(t) PROVE TabTypes'
  <2>1. /\ tab' = [tab EXCEPT ![t] = [pc |-> "verifying", nonce |-> issued + 1,
                                     copies |-> 0]]
        /\ issued' = issued + 1
    BY <1>7 DEF IssueNonce
  <2>2. \A u \in Tabs : tab[u] \in States(issued + 1)
    BY <1>1
  <2>3. [pc |-> "verifying", nonce |-> issued + 1, copies |-> 0] \in States(issued + 1)
    BY <1>1
  <2>4. tab' \in [Tabs -> States(issued + 1)]
    BY <1>1, <2>1, <2>2, <2>3
  <2> QED BY <2>1, <2>4 DEF TabTypes
<1>8. ASSUME NEW t \in Tabs, Verify(t) PROVE TabTypes'
  <2>1. tab[t].copies + 1 \in 0..MaxCopies /\ issued' = issued
    BY <1>1, <1>4, <1>8 DEF Verify
  <2>2. \/ tab' = [Outcome(t, tab[t].nonce, "error") EXCEPT ![t].copies = @ + 1]
        \/ tab' = [tab EXCEPT ![t].copies = @ + 1]
    BY <1>8 DEF Verify
  <2>3. PICK f \in [Tabs -> States(issued)] :
          /\ \A u \in Tabs : f[u].copies = tab[u].copies
          /\ tab' = [f EXCEPT ![t].copies = @ + 1]
    <3>1. CASE tab' = [tab EXCEPT ![t].copies = @ + 1]
      BY <1>1, <3>1
    <3>2. CASE tab' = [Outcome(t, tab[t].nonce, "error") EXCEPT ![t].copies = @ + 1]
      <4>1. PICK f : f = Outcome(t, tab[t].nonce, "error")
        OBVIOUS
      <4>2. f \in [Tabs -> States(issued)] /\ \A u \in Tabs : f[u].copies = tab[u].copies
        <5>1. PICK pc \in Pcs : pc = "error"
          OBVIOUS
        <5>2. f = Outcome(t, tab[t].nonce, pc)
          BY <4>1, <5>1
        <5> HIDE DEF Pcs, States
        <5> QED BY <1>5, <5>2
      <4> QED BY <3>2, <4>1, <4>2
    <3> QED BY <2>2, <3>1, <3>2
  <2>4. tab' = [f EXCEPT ![t] = [f[t] EXCEPT !.copies = tab[t].copies + 1]]
    BY <2>3
  <2>5. [f[t] EXCEPT !.copies = tab[t].copies + 1] \in States(issued)
    BY <2>1, <2>3
  <2>6. tab' \in [Tabs -> States(issued)]
    BY <2>3, <2>4, <2>5
  <2> QED BY <2>1, <2>6 DEF TabTypes
<1>9. ASSUME NEW c \in checking, Checked(c) \/ VerifyFails(c) PROVE TabTypes'
  <2>1. PICK pc \in Pcs : tab' = Outcome(c.tab, c.signed, pc)
    <3>1. CASE VerifyFails(c)
      BY <3>1 DEF VerifyFails
    <3>2. CASE Checked(c)
      <4>1. tab' = Outcome(c.tab, c.signed, IF c.signed = c.entry THEN "connected"
                                            ELSE "error")
        BY <3>2 DEF Checked
      <4> QED BY <4>1
    <3> QED BY <1>9, <3>1, <3>2
  <2>2. tab' \in [Tabs -> States(issued)]
    <3> HIDE DEF Pcs, States
    <3> QED BY <1>5, <2>1
  <2>3. issued' = issued
    BY <1>9 DEF Checked, VerifyFails
  <2> QED BY <2>2, <2>3 DEF TabTypes
<1>10. ASSUME NEW t \in Tabs, LoginFails(t) PROVE TabTypes'
  <2>1. tab' = [tab EXCEPT ![t].pc = "error"] /\ issued' = issued
    BY <1>10 DEF LoginFails
  <2>2. tab' = [tab EXCEPT ![t] = [pc |-> "error", nonce |-> tab[t].nonce,
                                  copies |-> tab[t].copies]]
    <3>1. tab' = [tab EXCEPT ![t] = [tab[t] EXCEPT !.pc = "error"]]
      BY <2>1
    <3>2. PICK r : r = tab[t] /\ r = [pc |-> r.pc, nonce |-> r.nonce, copies |-> r.copies]
      BY <1>4
    <3>3. [r EXCEPT !.pc = "error"] = [pc |-> "error", nonce |-> r.nonce, copies |-> r.copies]
      BY <3>2
    <3> QED BY ONLY <3>1, <3>2, <3>3
  <2>3. [pc |-> "error", nonce |-> tab[t].nonce, copies |-> tab[t].copies]
          \in States(issued)
    BY <1>4
  <2> QED BY <1>2, <2>1, <2>2, <2>3
<1>11. CASE NonceElapse \/ UNCHANGED authVars
  BY <1>3, <1>11 DEF NonceElapse, authVars
<1> QED BY <1>6, <1>7, <1>8, <1>9, <1>10, <1>11 DEF AuthNext

LEMMA AuthTypesInit == AuthInit => TabTypes /\ EntriesTimed
BY AuthAssumption DEF AuthInit, TabTypes, EntriesTimed, NoLogin

-----------------------------------------------------------------------------
(* The candle cache.                                                       *)

CandleTypes ==
  /\ fetch \in [Callers -> [limit : Nat, age : 0..MaxFetchTime]]
  /\ sharing \in [Callers -> [with : Callers \cup {NoCaller}, limit : Nat]]
  /\ cache \in [limit : Nat, at : 0..CandleTtl, age : 0..OldestWindow]
  /\ inFlight \in Callers \cup {NoCaller}
  /\ answer \in [asked : Nat, got : Nat, age : Nat]

\* The data of a window is older than the window by no more than a request lasts.
WindowAge == WindowFresh(cache) => cache.age <= cache.at + MaxFetchTime

Covered(asked, got, age) == got >= asked /\ age < CandleTtl + MaxFetchTime

\* The requests that are shared are under way, and large enough.
SharedFetches ==
  /\ inFlight # NoCaller => fetch[inFlight] # NoFetch
  /\ \A c \in Callers :
       sharing[c].with # NoCaller => fetch[sharing[c].with].limit >= sharing[c].limit

CandleInv ==
  /\ CandleTypes /\ WindowAge /\ SharedFetches
  /\ Covered(answer.asked, answer.got, answer.age)

LEMMA CandleNumbers ==
  /\ CandleTtl \in Nat \ {0} /\ MaxFetchTime \in Nat
  /\ Limits \subseteq Nat \ {0} /\ NoCaller \notin Callers
BY CandleAssumption

\* The request of c ends: nobody waits for it any more.
LEMMA FetchEnds ==
  ASSUME CandleTypes, SharedFetches, NEW c \in Callers,
         inFlight' = ClearInFlight(c), fetch' = [fetch EXCEPT ![c] = NoFetch],
         sharing' = [d \in Callers |->
                       IF sharing[d].with = c THEN NoShare ELSE sharing[d]]
  PROVE  /\ fetch' \in [Callers -> [limit : Nat, age : 0..MaxFetchTime]]
         /\ sharing' \in [Callers -> [with : Callers \cup {NoCaller}, limit : Nat]]
         /\ inFlight' \in Callers \cup {NoCaller}
         /\ SharedFetches'
<1>1. NoFetch \in [limit : Nat, age : 0..MaxFetchTime]
      /\ NoShare \in [with : Callers \cup {NoCaller}, limit : Nat]
  BY CandleNumbers DEF NoFetch, NoShare
<1>2. fetch' \in [Callers -> [limit : Nat, age : 0..MaxFetchTime]]
  BY <1>1 DEF CandleTypes
<1>3. sharing' \in [Callers -> [with : Callers \cup {NoCaller}, limit : Nat]]
  BY <1>1 DEF CandleTypes
<1>4. inFlight' \in Callers \cup {NoCaller}
  BY DEF CandleTypes, ClearInFlight
<1>5. \A d \in Callers : d # c => fetch'[d] = fetch[d]
  BY DEF CandleTypes
<1>6. inFlight' # NoCaller => fetch'[inFlight'] # NoFetch
  BY <1>5 DEF CandleTypes, SharedFetches, ClearInFlight
<1>7. ASSUME NEW d \in Callers, sharing'[d].with # NoCaller
      PROVE  fetch'[sharing'[d].with].limit >= sharing'[d].limit
  <2>1. sharing'[d] = sharing[d] /\ sharing[d].with # c
    BY <1>7 DEF NoShare
  <2>2. sharing[d].with \in Callers
    BY <1>7, <2>1 DEF CandleTypes
  <2> QED BY <1>5, <1>7, <2>1, <2>2 DEF SharedFetches
<1> QED BY <1>2, <1>3, <1>4, <1>6, <1>7 DEF SharedFetches

LEMMA HitCacheSound ==
  ASSUME CandleInv, NEW c \in Callers, NEW limit \in Limits, HitCache(c, limit)
  PROVE  CandleInv' /\ cache' = cache
<1>1. /\ WindowFresh(cache) /\ cache.limit >= limit
      /\ answer' = [asked |-> limit, got |-> cache.limit, age |-> cache.age]
      /\ UNCHANGED <<fetch, sharing, cache, inFlight>>
  BY DEF HitCache
<1>2. cache \in [limit : Nat, at : 0..CandleTtl, age : 0..OldestWindow]
  BY DEF CandleInv, CandleTypes
<1>3. cache.limit \in Nat /\ cache.at \in Nat /\ cache.age \in Nat /\ limit \in Nat
  BY <1>2, CandleNumbers DEF OldestWindow
<1>4. cache.at < CandleTtl /\ cache.age <= cache.at + MaxFetchTime
  BY <1>1 DEF CandleInv, WindowAge, WindowFresh
<1>5. cache.age < CandleTtl + MaxFetchTime
  BY <1>3, <1>4, CandleNumbers
<1>6. answer' \in [asked : Nat, got : Nat, age : Nat]
      /\ Covered(answer.asked, answer.got, answer.age)'
  BY <1>1, <1>3, <1>5 DEF Covered
<1>7. CandleTypes' /\ WindowAge' /\ SharedFetches'
  BY <1>1, <1>6 DEF CandleInv, CandleTypes, WindowAge, WindowFresh, SharedFetches
<1> QED BY <1>1, <1>6, <1>7 DEF CandleInv

LEMMA ShareFetchSound ==
  ASSUME CandleInv, NEW c \in Callers, NEW limit \in Limits, ShareFetch(c, limit)
  PROVE  CandleInv' /\ cache' = cache
<1> DEFINE r == [with |-> inFlight, limit |-> limit]
<1>1. /\ inFlight # NoCaller /\ fetch[inFlight].limit >= limit
      /\ sharing' = [sharing EXCEPT ![c] = r]
      /\ UNCHANGED <<fetch, cache, inFlight, answer>>
  BY DEF ShareFetch, Shareable
<1>2. CandleTypes /\ SharedFetches
  BY DEF CandleInv
<1>3. r \in [with : Callers \cup {NoCaller}, limit : Nat]
  BY <1>2, CandleNumbers DEF CandleTypes
<1>4. sharing' \in [Callers -> [with : Callers \cup {NoCaller}, limit : Nat]]
      /\ sharing'[c] = r /\ \A d \in Callers : d # c => sharing'[d] = sharing[d]
  BY <1>1, <1>2, <1>3 DEF CandleTypes
<1>5. CandleTypes'
  BY <1>1, <1>2, <1>4 DEF CandleTypes
<1>6. SharedFetches'
  BY <1>1, <1>2, <1>4 DEF SharedFetches
<1>7. WindowAge' /\ Covered(answer.asked, answer.got, answer.age)'
  BY <1>1 DEF CandleInv, WindowAge, WindowFresh, Covered
<1> QED BY <1>1, <1>5, <1>6, <1>7 DEF CandleInv

LEMMA StartFetchSound ==
  ASSUME CandleInv, NEW c \in Callers, NEW limit \in Limits, StartFetch(c, limit)
  PROVE  CandleInv' /\ cache' = cache
<1> DEFINE r == [limit |-> limit, age |-> 0]
<1>1. /\ fetch[c] = NoFetch /\ inFlight' = c
      /\ fetch' = [fetch EXCEPT ![c] = r]
      /\ UNCHANGED <<sharing, cache, answer>>
  BY DEF StartFetch, CallerIdle
<1>2. CandleTypes /\ SharedFetches
  BY DEF CandleInv
<1>3. r \in [limit : Nat, age : 0..MaxFetchTime] /\ limit \in Nat /\ limit # 0
  BY CandleNumbers
<1>4. fetch' \in [Callers -> [limit : Nat, age : 0..MaxFetchTime]]
      /\ fetch'[c] = r /\ \A d \in Callers : d # c => fetch'[d] = fetch[d]
  BY <1>1, <1>2, <1>3 DEF CandleTypes
<1>5. CandleTypes'
  BY <1>1, <1>2, <1>4 DEF CandleTypes
<1>6. r.limit = limit /\ r # NoFetch /\ fetch[c].limit = 0
  BY <1>1, <1>3 DEF NoFetch
<1>7. ASSUME NEW d \in Callers, sharing[d].with # NoCaller
      PROVE  fetch'[sharing[d].with].limit >= sharing[d].limit
  <2>1. sharing[d].with \in Callers /\ sharing[d].limit \in Nat
        /\ fetch[sharing[d].with].limit >= sharing[d].limit
    BY <1>2, <1>7 DEF CandleTypes, SharedFetches
  <2>2. CASE sharing[d].with = c
    <3>1. sharing[d].limit = 0
      BY <1>6, <2>1, <2>2
    <3> QED BY <1>3, <1>4, <1>6, <2>2, <3>1
  <2>3. CASE sharing[d].with # c
    BY <1>4, <2>1, <2>3
  <2> QED BY <2>2, <2>3
<1>8. SharedFetches'
  BY <1>1, <1>4, <1>6, <1>7 DEF SharedFetches
<1>9. WindowAge' /\ Covered(answer.asked, answer.got, answer.age)'
  BY <1>1 DEF CandleInv, WindowAge, WindowFresh, Covered
<1> QED BY <1>1, <1>5, <1>8, <1>9 DEF CandleInv

LEMMA FetchReturnsSound ==
  ASSUME CandleInv, NEW c \in Callers, FetchReturns(c)
  PROVE  CandleInv' /\ (cache'.limit >= cache.limit \/ ~WindowFresh(cache))
<1>1. CandleTypes /\ SharedFetches /\ WindowAge
  BY DEF CandleInv
<1>2. PICK l \in Nat, a \in 0..MaxFetchTime : l = fetch[c].limit /\ a = fetch[c].age
  BY <1>1 DEF CandleTypes
<1>3. /\ fetch' \in [Callers -> [limit : Nat, age : 0..MaxFetchTime]]
      /\ sharing' \in [Callers -> [with : Callers \cup {NoCaller}, limit : Nat]]
      /\ inFlight' \in Callers \cup {NoCaller}
      /\ SharedFetches'
  BY <1>1, FetchEnds DEF FetchReturns
<1>4. cache' = IF KeepExisting(l) THEN cache ELSE [limit |-> l, at |-> 0, age |-> a]
  BY <1>2 DEF FetchReturns
<1>5. /\ cache \in [limit : Nat, at : 0..CandleTtl, age : 0..OldestWindow]
      /\ [limit |-> l, at |-> 0, age |-> a] \in
           [limit : Nat, at : 0..CandleTtl, age : 0..OldestWindow]
  BY <1>1, CandleNumbers DEF CandleTypes, OldestWindow
<1>6. cache' \in [limit : Nat, at : 0..CandleTtl, age : 0..OldestWindow]
  BY <1>4, <1>5
<1>7. WindowAge' /\ (cache'.limit >= cache.limit \/ ~WindowFresh(cache))
  <2>1. CASE KeepExisting(l)
    BY <1>1, <1>4, <1>5, <2>1 DEF WindowAge, WindowFresh
  <2>2. CASE ~KeepExisting(l)
    <3>1. cache' = [limit |-> l, at |-> 0, age |-> a]
      BY <1>4, <2>2
    <3>2. WindowAge'
      BY <3>1, CandleNumbers DEF WindowAge
    <3>3. ~(cache.limit > l) \/ ~WindowFresh(cache)
      BY <2>2 DEF KeepExisting
    <3> QED BY <1>5, <3>1, <3>2, <3>3
  <2> QED BY <2>1, <2>2
<1>8. PICK asked \in {l} \cup
                     {sharing[d].limit : d \in {e \in Callers : sharing[e].with = c}} :
        answer' = [asked |-> asked, got |-> l, age |-> a]
  BY <1>2 DEF FetchReturns
<1>9. asked \in Nat /\ l >= asked
  <2>1. CASE asked = l
    BY <2>1
  <2>2. CASE asked # l
    <3>1. PICK d \in Callers : sharing[d].with = c /\ asked = sharing[d].limit
      BY <2>2
    <3>2. sharing[d].with # NoCaller
      BY <3>1, CandleNumbers
    <3> QED BY <1>1, <1>2, <3>1, <3>2 DEF CandleTypes, SharedFetches
  <2> QED BY <2>1, <2>2
<1>10. a \in Nat /\ a < CandleTtl + MaxFetchTime
  BY CandleNumbers
<1>11. answer' \in [asked : Nat, got : Nat, age : Nat]
       /\ Covered(answer.asked, answer.got, answer.age)'
  BY <1>8, <1>9, <1>10 DEF Covered
<1>12. CandleTypes'
  BY <1>3, <1>6, <1>11 DEF CandleTypes
<1> QED BY <1>3, <1>7, <1>11, <1>12 DEF CandleInv

LEMMA CandleElapseSound ==
  ASSUME CandleInv, CandleElapse
  PROVE  CandleInv' /\ cache'.limit = cache.limit
<1>1. CandleTypes /\ SharedFetches /\ WindowAge
  BY DEF CandleInv
<1> DEFINE older(c) == IF fetch[c] = NoFetch THEN NoFetch
                       ELSE [fetch[c] EXCEPT !.age = @ + 1]
<1>2. /\ \A c \in Callers : fetch[c].age < MaxFetchTime
      /\ fetch' = [c \in Callers |-> older(c)]
      /\ answer' = NoAnswer /\ UNCHANGED <<sharing, inFlight>>
  BY DEF CandleElapse
<1>3. \A c \in Callers : /\ older(c) \in [limit : Nat, age : 0..MaxFetchTime]
                         /\ older(c).limit = fetch[c].limit
                         /\ fetch[c] # NoFetch => older(c) # NoFetch
  <2> TAKE c \in Callers
  <2>1. fetch[c] \in [limit : Nat, age : 0..MaxFetchTime] /\ fetch[c].age < MaxFetchTime
    BY <1>1, <1>2 DEF CandleTypes
  <2>2. CASE fetch[c] = NoFetch
    BY <2>1, <2>2
  <2>3. CASE fetch[c] # NoFetch
    <3>1. older(c) = [fetch[c] EXCEPT !.age = @ + 1]
      BY <2>3
    <3>2. older(c).limit = fetch[c].limit /\ older(c).age = fetch[c].age + 1
          /\ older(c) \in [limit : Nat, age : 0..MaxFetchTime]
      BY <2>1, <3>1, CandleNumbers
    <3>3. older(c) # NoFetch
      BY <2>1, <3>2, CandleNumbers DEF NoFetch
    <3> QED BY <3>2, <3>3
  <2> QED BY <2>2, <2>3
<1> HIDE DEF older
<1>4. fetch' \in [Callers -> [limit : Nat, age : 0..MaxFetchTime]]
  BY <1>2, <1>3
<1>5. SharedFetches'
  BY <1>1, <1>2, <1>3 DEF SharedFetches, CandleTypes
<1>6. cache \in [limit : Nat, at : 0..CandleTtl, age : 0..OldestWindow]
  BY <1>1 DEF CandleTypes
<1>7. cache' = [limit |-> cache.limit,
                at |-> IF cache.at < CandleTtl THEN cache.at + 1 ELSE cache.at,
                age |-> IF cache.age < OldestWindow THEN cache.age + 1 ELSE cache.age]
  BY <1>6 DEF CandleElapse
<1>8. cache' \in [limit : Nat, at : 0..CandleTtl, age : 0..OldestWindow]
      /\ cache'.limit = cache.limit
  BY <1>6, <1>7, CandleNumbers DEF OldestWindow
<1>9. WindowAge'
  BY <1>1, <1>6, <1>7, CandleNumbers DEF WindowAge, WindowFresh, OldestWindow
<1>10. answer' \in [asked : Nat, got : Nat, age : Nat]
       /\ Covered(answer.asked, answer.got, answer.age)'
  BY <1>2, CandleNumbers DEF NoAnswer, Covered
<1>11. CandleTypes'
  BY <1>1, <1>2, <1>4, <1>8, <1>10 DEF CandleTypes
<1> QED BY <1>5, <1>8, <1>9, <1>10, <1>11 DEF CandleInv

LEMMA CandleInvInit ==
  CandleInit => CandleInv
<1> SUFFICES ASSUME CandleInit PROVE CandleInv
  OBVIOUS
<1>1. CandleTypes
  BY CandleNumbers DEF CandleInit, CandleTypes, NoFetch, NoShare, NoWindow, NoAnswer,
     OldestWindow
<1>2. WindowAge /\ SharedFetches /\ Covered(answer.asked, answer.got, answer.age)
  BY CandleNumbers DEF CandleInit, WindowAge, WindowFresh, SharedFetches, Covered, NoShare,
     NoWindow, NoAnswer
<1> QED BY <1>1, <1>2 DEF CandleInv

LEMMA CandleInvNext ==
  CandleInv /\ [CandleNext]_candleVars =>
    /\ CandleInv'
    /\ [cache'.limit >= cache.limit \/ ~WindowFresh(cache)]_candleVars
<1> SUFFICES ASSUME CandleInv, [CandleNext]_candleVars
             PROVE  CandleInv' /\ (cache'.limit >= cache.limit \/ ~WindowFresh(cache))
  OBVIOUS
<1>1. cache.limit \in Nat
  BY DEF CandleInv, CandleTypes
<1>2. ASSUME NEW c \in Callers, NEW limit \in Limits,
             HitCache(c, limit) \/ ShareFetch(c, limit) \/ StartFetch(c, limit)
      PROVE  CandleInv' /\ cache'.limit >= cache.limit
  BY <1>1, <1>2, HitCacheSound, ShareFetchSound, StartFetchSound
<1>3. ASSUME NEW c \in Callers, FetchFails(c)
      PROVE  CandleInv' /\ cache'.limit >= cache.limit
  <2>1. UNCHANGED <<cache, answer>>
    BY <1>3 DEF FetchFails
  <2>2. /\ fetch' \in [Callers -> [limit : Nat, age : 0..MaxFetchTime]]
        /\ sharing' \in [Callers -> [with : Callers \cup {NoCaller}, limit : Nat]]
        /\ inFlight' \in Callers \cup {NoCaller}
        /\ SharedFetches'
    BY <1>3, FetchEnds DEF FetchFails, CandleInv
  <2>3. CandleTypes' /\ WindowAge' /\ Covered(answer.asked, answer.got, answer.age)'
    BY <2>1, <2>2 DEF CandleInv, CandleTypes, WindowAge, WindowFresh, Covered
  <2> QED BY <1>1, <2>1, <2>2, <2>3 DEF CandleInv
<1>4. CASE CandleElapse
  BY <1>1, <1>4, CandleElapseSound
<1>5. CASE UNCHANGED candleVars
  BY <1>1, <1>5 DEF candleVars, CandleInv, CandleTypes, WindowAge, WindowFresh,
     SharedFetches, Covered
<1> QED BY <1>2, <1>3, <1>4, <1>5, FetchReturnsSound DEF CandleNext

\* Whoever answers a call of candles.ts, the window covers what was asked and is
\* younger than the time to live plus the longest request; the request in
\* flight is still running; a fresh window never shrinks.
THEOREM CandlesCoverCalls == CandleSpec => CandleSound
<1>1. CandleInv => Served
  BY DEF CandleInv, SharedFetches, Covered, Served
<1> QED BY <1>1, CandleInvInit, CandleInvNext, PTL DEF CandleSpec, CandleSound

\* A call waits for its own request or for another's, and asks for what it was asked.
CallsApart ==
  \A c \in Callers : /\ fetch[c].limit \in Limits \cup {0}
                     /\ fetch[c] = NoFetch \/ sharing[c] = NoShare

LEMMA CandleTypeIs ==
  ASSUME CandleInv, CallsApart
  PROVE  CandleTypeOK
BY DEF CandleInv, CandleTypes, CallsApart, CandleTypeOK

LEMMA CallsApartNext ==
  ASSUME CandleInv, CallsApart, [CandleNext]_candleVars
  PROVE  CallsApart'
<1>1. /\ fetch \in [Callers -> [limit : Nat, age : 0..MaxFetchTime]]
      /\ sharing \in [Callers -> [with : Callers \cup {NoCaller}, limit : Nat]]
  BY DEF CandleInv, CandleTypes
<1>2. CASE UNCHANGED <<fetch, sharing>>
  BY <1>2 DEF CallsApart
<1>3. ASSUME NEW c \in Callers, NEW limit \in Limits, ShareFetch(c, limit)
      PROVE  CallsApart'
  <2> DEFINE r == [with |-> inFlight, limit |-> limit]
  <2>1. sharing' = [sharing EXCEPT ![c] = r] /\ fetch' = fetch /\ fetch[c] = NoFetch
    BY <1>3 DEF ShareFetch, CallerIdle
  <2> QED BY <1>1, <2>1 DEF CallsApart
<1>4. ASSUME NEW c \in Callers, NEW limit \in Limits, StartFetch(c, limit)
      PROVE  CallsApart'
  <2> DEFINE r == [limit |-> limit, age |-> 0]
  <2>1. /\ fetch' = [fetch EXCEPT ![c] = r] /\ sharing' = sharing
        /\ sharing[c] = NoShare /\ r.limit = limit
    BY <1>4 DEF StartFetch, CallerIdle
  <2> QED BY <1>1, <2>1 DEF CallsApart
<1>5. ASSUME NEW c \in Callers, FetchReturns(c) \/ FetchFails(c)
      PROVE  CallsApart'
  <2>1. /\ fetch' = [fetch EXCEPT ![c] = NoFetch]
        /\ sharing' = [d \in Callers |->
                         IF sharing[d].with = c THEN NoShare ELSE sharing[d]]
    BY <1>5 DEF FetchReturns, FetchFails
  <2>2. \A d \in Callers : /\ fetch'[d] \in {fetch[d], NoFetch}
                           /\ sharing'[d] \in {sharing[d], NoShare}
    BY <1>1, <2>1
  <2>3. NoFetch.limit = 0
    BY DEF NoFetch
  <2> QED BY <2>2, <2>3 DEF CallsApart
<1>6. CASE CandleElapse
  <2>1. \A c \in Callers : /\ fetch[c] = NoFetch => fetch'[c] = NoFetch
                           /\ fetch'[c].limit = fetch[c].limit
    BY <1>1, <1>6 DEF CandleElapse
  <2>2. sharing' = sharing
    BY <1>6 DEF CandleElapse
  <2> QED BY <2>1, <2>2 DEF CallsApart
<1> QED BY <1>2, <1>3, <1>4, <1>5, <1>6 DEF CandleNext, HitCache, candleVars

LEMMA CallsApartInit == CandleInit => CallsApart
BY DEF CandleInit, CallsApart, NoFetch

-----------------------------------------------------------------------------
(* Retention.                                                              *)

OrderRecords ==
  [owner : OrderOwners, status : {"open", "untriggered", "filled", "cancelled"},
   old : BOOLEAN, gone : BOOLEAN]

PnlRecords == [seq : 1..lastSeq, owner : PnlOwners, amount : Int]

RetentionTypes ==
  /\ lastSeq \in Nat
  /\ tapes \in [Tapes -> SUBSET (1..lastSeq)] /\ ever \in [Tapes -> SUBSET (1..lastSeq)]
  /\ IsFiniteSet(pnl) /\ pnl \subseteq PnlRecords
  /\ carryover \in [PnlOwners -> Int] /\ lifetime \in [PnlOwners -> Int]
  /\ orderRows \in Seq(OrderRecords)
  /\ pruning = [at |-> pruning.at, cut |-> pruning.cut] /\ pruning.cut \in Nat

PnlIsWhole == \A o \in PnlOwners : Summary(o) = lifetime[o]

OnlyDeadHouseOrdersGo ==
  \A i \in DOMAIN orderRows :
    orderRows[i].gone => /\ orderRows[i].owner = HouseOwner
                         /\ orderRows[i].status \notin {"open", "untriggered"}

\* What a tape holds was projected, and the newest of it is still held.
NewestKept ==
  \A t \in Tapes : tapes[t] \subseteq ever[t] /\ Newest(ever[t], Keep(t)) \subseteq tapes[t]

RetentionInv == RetentionTypes /\ PnlIsWhole /\ OnlyDeadHouseOrdersGo /\ NewestKept

LEMMA KeepType ==
  ASSUME NEW t \in Tapes
  PROVE  Keep(t) \in Nat
BY RetentionAssumption DEF Keep

\* The PnL of a set of rows, as a sum over those of one owner.
Amount(rows) == [r \in rows |-> r.amount]
RowsOf(rows, o) == {r \in rows : r.owner = o}

LEMMA PnlSumIs ==
  ASSUME NEW rows, NEW o
  PROVE  PnlSum(rows, o) = SumFunctionOnSet(Amount(RowsOf(rows, o)), RowsOf(rows, o))
BY DEF PnlSum, Amount, RowsOf, SumFunction

LEMMA PnlSumInt ==
  ASSUME NEW rows, IsFiniteSet(rows), \A r \in rows : r.amount \in Int, NEW o
  PROVE  PnlSum(rows, o) \in Int
<1>1. IsFiniteSet(RowsOf(rows, o)) /\ \A r \in RowsOf(rows, o) : r.amount \in Int
  BY FS_Subset DEF RowsOf
<1>2. \A r \in RowsOf(rows, o) : Amount(RowsOf(rows, o))[r] \in Int
  BY <1>1 DEF Amount
<1> QED BY <1>1, <1>2, PnlSumIs, SumInt

\* A row of another owner, and then one of the owner, is added.
LEMMA PnlSumAdd ==
  ASSUME NEW rows, IsFiniteSet(rows), \A r \in rows : r.amount \in Int,
         NEW new, new \notin rows, new.amount \in Int, NEW o,
         NEW more, more = rows \cup {new}
  PROVE  PnlSum(more, o) =
           PnlSum(rows, o) + (IF new.owner = o THEN new.amount ELSE 0)
<1>1. PICK S : S = RowsOf(rows, o)
  OBVIOUS
<1>2. PICK T : T = RowsOf(more, o)
  OBVIOUS
<1>3. IsFiniteSet(S) /\ \A r \in S : Amount(S)[r] \in Int /\ r.amount \in Int
  BY <1>1, FS_Subset DEF RowsOf, Amount
<1>4. PnlSum(rows, o) = SumFunctionOnSet(Amount(S), S)
      /\ PnlSum(more, o) = SumFunctionOnSet(Amount(T), T)
  BY <1>1, <1>2, PnlSumIs
<1>5. SumFunctionOnSet(Amount(S), S) \in Int
  BY <1>3, SumInt
<1>6. CASE new.owner # o
  <2>1. T = S
    BY <1>1, <1>2, <1>6 DEF RowsOf
  <2> QED BY <1>4, <1>5, <1>6, <2>1
<1>7. CASE new.owner = o
  <2>1. T = S \cup {new} /\ new \notin S
    BY <1>1, <1>2, <1>7 DEF RowsOf
  <2>2. IsFiniteSet(T) /\ new \in T /\ T \ {new} = S
    BY <1>3, <2>1, FS_AddElement
  <2>3. \A r \in T : Amount(T)[r] = r.amount /\ r.amount \in Int
    BY <1>3, <2>1 DEF Amount
  <2>4. SumFunctionOnSet(Amount(T), T) = Amount(T)[new] + SumFunctionOnSet(Amount(T), S)
    <3>1. \A r \in T : Amount(T)[r] \in Int
      BY <2>3
    <3>2. SumFunctionOnSet(Amount(T), T) =
            Amount(T)[new] + SumFunctionOnSet(Amount(T), T \ {new})
      BY <2>2, <3>1, SumTakeOut
    <3> QED BY <2>2, <3>2
  <2>5. SumFunctionOnSet(Amount(T), S) = SumFunctionOnSet(Amount(S), S)
    <3>1. \A r \in S : Amount(T)[r] = Amount(S)[r]
      BY <2>1 DEF Amount
    <3> QED BY <1>3, <3>1, SumSame
  <2>6. PnlSum(more, o) = new.amount + PnlSum(rows, o)
    BY <1>4, <2>2, <2>3, <2>4, <2>5
  <2>7. PnlSum(rows, o) \in Int
    BY <1>4, <1>5
  <2> QED BY <1>7, <2>6, <2>7
<1> QED BY <1>6, <1>7

\* The rows up to a cut and those above it make up the whole.
LEMMA PnlSumCut ==
  ASSUME NEW rows, IsFiniteSet(rows),
         \A r \in rows : r.amount \in Int /\ r.seq \in Int,
         NEW cut \in Int, NEW o, NEW low, NEW high,
         low = {r \in rows : r.seq <= cut}, high = {r \in rows : r.seq > cut}
  PROVE  PnlSum(rows, o) = PnlSum(low, o) + PnlSum(high, o)
<1>1. PICK S : S = RowsOf(rows, o)
  OBVIOUS
<1>2. PICK L : L = RowsOf(low, o)
  OBVIOUS
<1>3. PICK H : H = RowsOf(high, o)
  OBVIOUS
<1>4. L \in SUBSET S /\ H \in SUBSET S /\ H = S \ L
  BY <1>1, <1>2, <1>3 DEF RowsOf
<1>5. IsFiniteSet(S) /\ IsFiniteSet(L) /\ IsFiniteSet(H)
  <2>1. S \in SUBSET rows
    BY <1>1 DEF RowsOf
  <2>2. IsFiniteSet(S)
    BY <2>1, FS_Subset
  <2> QED BY <1>4, <2>2, FS_Subset
<1>6. \A r \in S : Amount(S)[r] \in Int
  BY <1>1 DEF RowsOf, Amount
<1>7. SumFunctionOnSet(Amount(S), S) =
        SumFunctionOnSet(Amount(S), L) + SumFunctionOnSet(Amount(S), S \ L)
  BY <1>4, <1>5, <1>6, SumSplit
<1>8. SumFunctionOnSet(Amount(S), L) = SumFunctionOnSet(Amount(L), L)
  <2>1. \A r \in L : Amount(S)[r] = Amount(L)[r]
    BY <1>4 DEF Amount
  <2> QED BY <1>5, <2>1, SumSame
<1>9. SumFunctionOnSet(Amount(S), H) = SumFunctionOnSet(Amount(H), H)
  <2>1. \A r \in H : Amount(S)[r] = Amount(H)[r]
    BY <1>4 DEF Amount
  <2> QED BY <1>5, <2>1, SumSame
<1>10. /\ PnlSum(rows, o) = SumFunctionOnSet(Amount(S), S)
       /\ PnlSum(low, o) = SumFunctionOnSet(Amount(L), L)
       /\ PnlSum(high, o) = SumFunctionOnSet(Amount(H), H)
  BY <1>1, <1>2, <1>3, PnlSumIs
<1> QED BY <1>4, <1>7, <1>8, <1>9, <1>10

\* A new row pushes others out of the newest, and never puts one in.
LEMMA NewestAdd ==
  ASSUME NEW n \in Nat, NEW S \in SUBSET (1..n), NEW k \in Nat
  PROVE  Newest(S \cup {n + 1}, k) \subseteq Newest(S, k) \cup {n + 1}
<1> SUFFICES ASSUME NEW q \in Newest(S \cup {n + 1}, k), q # n + 1
             PROVE  q \in Newest(S, k)
  OBVIOUS
<1>1. q \in S /\ Cardinality({x \in S \cup {n + 1} : x > q}) < k
  BY DEF Newest
<1> DEFINE A == {x \in S : x > q}
           B == {x \in S \cup {n + 1} : x > q}
<1>2. IsFiniteSet(1..(n + 1)) /\ A \in SUBSET B /\ B \in SUBSET (1..(n + 1))
  <2>1. IsFiniteSet(1..(n + 1))
    BY FS_Interval
  <2>2. S \cup {n + 1} \in SUBSET (1..(n + 1))
    OBVIOUS
  <2> QED BY <2>1, <2>2
<1>3. IsFiniteSet(B) /\ IsFiniteSet(A)
  BY <1>2, FS_Subset
<1>4. Cardinality(A) <= Cardinality(B) /\ Cardinality(A) \in Nat /\ Cardinality(B) \in Nat
  BY <1>2, <1>3, FS_Subset, FS_CardinalityType
<1>5. Cardinality(B) < k
  BY <1>1
<1> HIDE DEF B
<1>6. Cardinality(A) < k
  BY <1>4, <1>5
<1> QED BY <1>1, <1>6 DEF Newest

\* What a trim deletes has as many newer rows as are to be kept.
LEMMA CutSound ==
  ASSUME NEW n \in Nat, NEW S \in SUBSET (1..n), NEW k \in Nat
  PROVE  /\ Cut(S, k) \in Nat
         /\ \A q \in S : q <= Cut(S, k) =>
              \E c \in S : q <= c /\ c \notin Newest(S, k)
<1> DEFINE older == S \ Newest(S, k)
<1>1. CASE older = {}
  <2>1. Cut(S, k) = 0
    BY <1>1 DEF Cut
  <2> QED BY <2>1
<1>2. CASE older # {}
  <2>1. older \in SUBSET Nat /\ \A x \in older : x <= n
    <3>1. S \in SUBSET Nat /\ \A x \in S : x <= n
      OBVIOUS
    <3>2. older \subseteq S
      OBVIOUS
    <3> HIDE DEF older
    <3> QED BY <3>1, <3>2
  <2>2. Max(older) \in older
    BY <1>2, <2>1, NewestEpoch
  <2>3. Cut(S, k) = Max(older)
    BY <1>2 DEF Cut
  <2> QED BY <2>1, <2>2, <2>3
<1> QED BY <1>1, <1>2

LEMMA TrimKeepsNewest ==
  ASSUME NEW n \in Nat, NEW E \in SUBSET (1..n), NEW S \in SUBSET E, NEW k \in Nat,
         Newest(E, k) \subseteq S
  PROVE  Newest(E, k) \subseteq {q \in S : q > Cut(S, k)}
<1>1. S \in SUBSET (1..n) /\ Cut(S, k) \in Nat
  BY CutSound
<1> SUFFICES ASSUME NEW q \in Newest(E, k), ~(q > Cut(S, k)) PROVE FALSE
  OBVIOUS
<1>2. q \in S /\ q \in 1..n /\ Cardinality({x \in E : x > q}) < k
  BY DEF Newest
<1>3. PICK c \in S : q <= c /\ c \notin Newest(S, k)
  <2>1. \A x \in S : x <= Cut(S, k) => \E c \in S : x <= c /\ c \notin Newest(S, k)
    BY <1>1, CutSound
  <2>2. q <= Cut(S, k)
    BY <1>1, <1>2
  <2> QED BY <1>2, <2>1, <2>2
<1> DEFINE A == {x \in S : x > c}
           B == {x \in E : x > q}
<1>4. Cardinality(A) >= k \/ Cardinality(A) \notin Int
  BY <1>3 DEF Newest
<1>5. IsFiniteSet(E) /\ A \in SUBSET B /\ B \in SUBSET E
  <2>1. IsFiniteSet(1..n)
    BY FS_Interval
  <2>2. IsFiniteSet(E)
    BY <2>1, FS_Subset
  <2>3. \A x \in A : x > q
    <3>1. \A x \in A : x \in Nat /\ x > c
      BY <1>1
    <3>2. c \in Nat /\ q \in Nat
      BY <1>1, <1>2
    <3> QED BY <1>3, <3>1, <3>2
  <2> QED BY <2>2, <2>3
<1>6. IsFiniteSet(B) /\ IsFiniteSet(A)
  BY <1>5, FS_Subset
<1>7. Cardinality(A) <= Cardinality(B) /\ Cardinality(A) \in Nat /\ Cardinality(B) \in Nat
  BY <1>5, <1>6, FS_Subset, FS_CardinalityType
<1>8. Cardinality(B) < k
  BY <1>2
<1> HIDE DEF A, B
<1> QED BY <1>4, <1>7, <1>8

LEMMA ProjectRowSound ==
  ASSUME RetentionInv, NEW t \in Tapes, ProjectRow(t)
  PROVE  RetentionInv'
<1>1. RetentionTypes /\ PnlIsWhole /\ OnlyDeadHouseOrdersGo /\ NewestKept
  BY DEF RetentionInv
<1>2. /\ lastSeq' = lastSeq + 1
      /\ tapes' = [tapes EXCEPT ![t] = @ \cup {lastSeq + 1}]
      /\ ever' = [ever EXCEPT ![t] = @ \cup {lastSeq + 1}]
      /\ UNCHANGED <<pnl, carryover, orderRows, pruning, lifetime>>
  BY DEF ProjectRow
<1>3. lastSeq \in Nat /\ tapes \in [Tapes -> SUBSET (1..lastSeq)]
      /\ ever \in [Tapes -> SUBSET (1..lastSeq)]
  BY <1>1 DEF RetentionTypes
<1>4. tapes'[t] = tapes[t] \cup {lastSeq + 1} /\ ever'[t] = ever[t] \cup {lastSeq + 1}
      /\ \A u \in Tapes : u # t => tapes'[u] = tapes[u] /\ ever'[u] = ever[u]
  BY <1>2, <1>3
<1>5. tapes' \in [Tapes -> SUBSET (1..(lastSeq + 1))]
      /\ ever' \in [Tapes -> SUBSET (1..(lastSeq + 1))]
  <2>1. \A S \in SUBSET (1..lastSeq) : /\ S \in SUBSET (1..(lastSeq + 1))
                                       /\ S \cup {lastSeq + 1} \in SUBSET (1..(lastSeq + 1))
    BY <1>3
  <2>2. DOMAIN tapes' = Tapes /\ DOMAIN ever' = Tapes
    BY <1>2, <1>3
  <2> QED BY <1>2, <1>3, <1>4, <2>1, <2>2
<1>6. pnl \subseteq [seq : 1..(lastSeq + 1), owner : PnlOwners, amount : Int]
  BY <1>1 DEF RetentionTypes, PnlRecords
<1>7. RetentionTypes'
  BY <1>1, <1>2, <1>3, <1>5, <1>6 DEF RetentionTypes, PnlRecords
<1>8. NewestKept'
  <2> SUFFICES ASSUME NEW u \in Tapes
               PROVE  tapes'[u] \subseteq ever'[u] /\ Newest(ever'[u], Keep(u)) \subseteq tapes'[u]
    BY DEF NewestKept, Keep
  <2>1. tapes[u] \subseteq ever[u] /\ Newest(ever[u], Keep(u)) \subseteq tapes[u]
    BY <1>1 DEF NewestKept
  <2>2. CASE u # t
    BY <1>4, <2>1, <2>2
  <2>3. CASE u = t
    <3>1. ever[u] \in SUBSET (1..lastSeq) /\ Keep(u) \in Nat
      BY <1>3, KeepType
    <3>2. Newest(ever[u] \cup {lastSeq + 1}, Keep(u)) \subseteq
            Newest(ever[u], Keep(u)) \cup {lastSeq + 1}
      BY <1>3, <3>1, NewestAdd
    <3> QED BY <1>4, <2>1, <2>3, <3>2
  <2> QED BY <2>2, <2>3
<1>9. PnlIsWhole' /\ OnlyDeadHouseOrdersGo'
  BY <1>1, <1>2 DEF PnlIsWhole, OnlyDeadHouseOrdersGo, Summary
<1> QED BY <1>7, <1>8, <1>9 DEF RetentionInv

LEMMA ProjectPnlSound ==
  ASSUME RetentionInv, NEW o \in PnlOwners, NEW amount \in PnlAmounts,
         ProjectPnl(o, amount)
  PROVE  RetentionInv'
<1>1. RetentionTypes /\ PnlIsWhole /\ OnlyDeadHouseOrdersGo /\ NewestKept
  BY DEF RetentionInv
<1>2. PICK new : new = [seq |-> lastSeq + 1, owner |-> o, amount |-> amount]
  OBVIOUS
<1>3. /\ lastSeq' = lastSeq + 1 /\ pnl' = pnl \cup {new}
      /\ lifetime' = [lifetime EXCEPT ![o] = @ + amount]
      /\ UNCHANGED <<tapes, carryover, orderRows, pruning, ever>>
  BY <1>2 DEF ProjectPnl
<1>4. /\ lastSeq \in Nat /\ IsFiniteSet(pnl) /\ pnl \subseteq PnlRecords
      /\ carryover \in [PnlOwners -> Int] /\ lifetime \in [PnlOwners -> Int]
      /\ amount \in Int
  BY <1>1, RetentionAssumption DEF RetentionTypes
<1>5. /\ new.seq = lastSeq + 1 /\ new.owner = o /\ new.amount = amount
      /\ new \in [seq : 1..(lastSeq + 1), owner : PnlOwners, amount : Int]
  BY <1>2, <1>4
<1>6. new \notin pnl /\ \A r \in pnl : r.amount \in Int
  BY <1>4, <1>5 DEF PnlRecords
<1>7. IsFiniteSet(pnl')
  BY <1>3, <1>4, FS_AddElement
<1>8. pnl' \subseteq [seq : 1..(lastSeq + 1), owner : PnlOwners, amount : Int]
  <2>1. \A r \in pnl : r \in [seq : 1..(lastSeq + 1), owner : PnlOwners, amount : Int]
    BY <1>4 DEF PnlRecords
  <2> QED BY <1>3, <1>5, <2>1
<1>9. lifetime' \in [PnlOwners -> Int] /\ lifetime'[o] = lifetime[o] + amount
      /\ \A p \in PnlOwners : p # o => lifetime'[p] = lifetime[p]
  BY <1>3, <1>4
<1>10. \A S : S \in SUBSET (1..lastSeq) => S \in SUBSET (1..(lastSeq + 1))
  BY <1>4
<1>11. tapes' \in [Tapes -> SUBSET (1..(lastSeq + 1))]
       /\ ever' \in [Tapes -> SUBSET (1..(lastSeq + 1))]
  BY <1>1, <1>3, <1>10 DEF RetentionTypes
<1>12. RetentionTypes'
  BY <1>1, <1>3, <1>4, <1>7, <1>8, <1>9, <1>11, SMTT(20) DEF RetentionTypes, PnlRecords
<1>13. PnlIsWhole'
  <2> SUFFICES ASSUME NEW p \in PnlOwners
               PROVE  carryover[p] + PnlSum(pnl', p) = lifetime'[p]
    BY <1>3 DEF PnlIsWhole, Summary, PnlSum
  <2>1. PnlSum(pnl', p) = PnlSum(pnl, p) + (IF new.owner = p THEN new.amount ELSE 0)
    BY <1>3, <1>4, <1>5, <1>6, PnlSumAdd
  <2>2. carryover[p] + PnlSum(pnl, p) = lifetime[p]
    BY <1>1 DEF PnlIsWhole, Summary
  <2>3. PnlSum(pnl, p) \in Int /\ carryover[p] \in Int
    BY <1>4, <1>6, PnlSumInt
  <2>4. CASE p = o
    <3>1. PnlSum(pnl', p) = PnlSum(pnl, p) + amount /\ lifetime'[p] = lifetime[p] + amount
      BY <1>5, <1>9, <2>1, <2>4
    <3> QED BY <1>4, <2>2, <2>3, <3>1
  <2>5. CASE p # o
    <3>1. PnlSum(pnl', p) = PnlSum(pnl, p) + 0 /\ lifetime'[p] = lifetime[p]
      BY <1>5, <1>9, <2>1, <2>5
    <3> QED BY <2>2, <2>3, <3>1
  <2> QED BY <2>4, <2>5
<1>14. OnlyDeadHouseOrdersGo' /\ NewestKept'
  BY <1>1, <1>3 DEF OnlyDeadHouseOrdersGo, NewestKept, Newest, Keep
<1> QED BY <1>12, <1>13, <1>14 DEF RetentionInv

\* A step that only changes the orders table, or where the prune is.
LEMMA TapesStay ==
  ASSUME RetentionInv, UNCHANGED <<tapes, pnl, carryover, lastSeq, lifetime, ever>>,
         orderRows' \in Seq(OrderRecords), OnlyDeadHouseOrdersGo',
         pruning' = [at |-> pruning'.at, cut |-> pruning'.cut], pruning'.cut \in Nat
  PROVE  RetentionInv'
<1>1. RetentionTypes'
  BY DEF RetentionInv, RetentionTypes, PnlRecords
<1>2. PnlIsWhole' /\ NewestKept'
  BY DEF RetentionInv, PnlIsWhole, NewestKept, Summary, Newest, Keep, PnlSum
<1> QED BY <1>1, <1>2 DEF RetentionInv

LEMMA OrderStepsSound ==
  ASSUME RetentionInv, UNCHANGED <<tapes, pnl, carryover, pruning, lastSeq, lifetime, ever>>,
         \/ \E o \in OrderOwners : ProjectOrder(o)
         \/ \E i \in DOMAIN orderRows : EndOrder(i) \/ OrderAges(i)
  PROVE  RetentionInv'
<1>1. /\ orderRows \in Seq(OrderRecords) /\ OnlyDeadHouseOrdersGo
      /\ pruning' = [at |-> pruning'.at, cut |-> pruning'.cut] /\ pruning'.cut \in Nat
  BY DEF RetentionInv, RetentionTypes
<1>2. ASSUME NEW o \in OrderOwners, ProjectOrder(o) PROVE RetentionInv'
  <2>1. PICK status \in {"open", "untriggered"} :
          orderRows' = Append(orderRows, [owner |-> o, status |-> status, old |-> FALSE,
                                          gone |-> FALSE])
    BY <1>2 DEF ProjectOrder
  <2>2. PICK r \in OrderRecords :
          r.gone = FALSE /\ orderRows' = Append(orderRows, r)
    BY <2>1 DEF OrderRecords
  <2>3. orderRows' \in Seq(OrderRecords)
    BY <1>1, <2>2
  <2>4. OnlyDeadHouseOrdersGo'
    BY <1>1, <2>2 DEF OnlyDeadHouseOrdersGo
  <2> QED BY <1>1, <2>3, <2>4, TapesStay
<1>3. ASSUME NEW i \in DOMAIN orderRows, EndOrder(i) \/ OrderAges(i) PROVE RetentionInv'
  <2>1. orderRows[i] \in OrderRecords
    BY <1>1
  <2>2. PICK r \in OrderRecords :
          /\ orderRows' = [orderRows EXCEPT ![i] = r]
          /\ r.gone = orderRows[i].gone /\ r.owner = orderRows[i].owner
          /\ r.status = orderRows[i].status \/
               orderRows[i].status \in {"open", "untriggered"}
    <3>1. CASE EndOrder(i)
      <4>1. PICK status \in {"filled", "cancelled"} :
              orderRows' = [orderRows EXCEPT ![i].status = status]
        BY <3>1 DEF EndOrder
      <4>2. orderRows[i].status \in {"open", "untriggered"}
        BY <3>1 DEF EndOrder
      <4> DEFINE r == [orderRows[i] EXCEPT !.status = status]
      <4>3. r \in OrderRecords /\ r.gone = orderRows[i].gone /\ r.owner = orderRows[i].owner
        BY <2>1 DEF OrderRecords
      <4> QED BY <4>1, <4>2, <4>3
    <3>2. CASE OrderAges(i)
      <4> DEFINE r == [orderRows[i] EXCEPT !.old = TRUE]
      <4>1. orderRows' = [orderRows EXCEPT ![i] = r]
        BY <3>2 DEF OrderAges
      <4>2. r \in OrderRecords /\ r.gone = orderRows[i].gone
            /\ r.owner = orderRows[i].owner /\ r.status = orderRows[i].status
        BY <2>1 DEF OrderRecords
      <4> QED BY <4>1, <4>2
    <3> QED BY <1>3, <3>1, <3>2
  <2>3. orderRows' \in Seq(OrderRecords) /\ DOMAIN orderRows' = DOMAIN orderRows
    BY <1>1, <2>2
  <2>4. \A j \in DOMAIN orderRows : orderRows'[j] = IF j = i THEN r ELSE orderRows[j]
    BY <1>1, <2>2
  <2>5. orderRows'[i] = r /\ (r.gone => /\ r.owner = HouseOwner
                                        /\ r.status \notin {"open", "untriggered"})
    BY <1>1, <2>2, <2>4 DEF OnlyDeadHouseOrdersGo
  <2>6. OnlyDeadHouseOrdersGo'
    BY <1>1, <2>3, <2>4, <2>5 DEF OnlyDeadHouseOrdersGo
  <2> QED BY <1>1, <2>3, <2>6, TapesStay
<1> QED BY <1>2, <1>3

LEMMA PruneOrdersSound ==
  ASSUME RetentionInv, PruneOrders
  PROVE  RetentionInv'
<1> DEFINE pruned(r) == [r EXCEPT !.gone = @ \/ Prunable(r)]
<1>1. /\ orderRows' = [i \in DOMAIN orderRows |-> pruned(orderRows[i])]
      /\ pruning' = [pruning EXCEPT !.at = After[@]]
      /\ UNCHANGED <<tapes, pnl, carryover, lastSeq, lifetime, ever>>
  BY DEF PruneOrders
<1>2. /\ orderRows \in Seq(OrderRecords) /\ OnlyDeadHouseOrdersGo
      /\ pruning = [at |-> pruning.at, cut |-> pruning.cut] /\ pruning.cut \in Nat
  BY DEF RetentionInv, RetentionTypes
<1>3. \A r \in OrderRecords : /\ pruned(r) \in OrderRecords
                              /\ pruned(r).owner = r.owner /\ pruned(r).status = r.status
                              /\ pruned(r).gone => r.gone \/ Prunable(r)
  BY DEF OrderRecords, Prunable
<1> HIDE DEF pruned
<1>4. DOMAIN orderRows = 1..Len(orderRows) /\ Len(orderRows) \in Nat
      /\ \A i \in DOMAIN orderRows : orderRows[i] \in OrderRecords
  BY <1>2
<1>5. orderRows' \in Seq(OrderRecords)
  BY <1>1, <1>3, <1>4
<1>6. OnlyDeadHouseOrdersGo'
  BY <1>1, <1>2, <1>3, <1>4 DEF OnlyDeadHouseOrdersGo, Prunable
<1>7. pruning' = [at |-> pruning'.at, cut |-> pruning'.cut] /\ pruning'.cut \in Nat
  <2>1. pruning' = [at |-> After[pruning.at], cut |-> pruning.cut]
    BY <1>1, <1>2
  <2> QED BY <1>2, <2>1
<1> QED BY <1>1, <1>5, <1>6, <1>7, TapesStay

LEMMA TrimBySeqSound ==
  ASSUME RetentionInv, TrimBySeq
  PROVE  RetentionInv'
<1>1. RetentionTypes /\ PnlIsWhole /\ OnlyDeadHouseOrdersGo /\ NewestKept
  BY DEF RetentionInv
<1>2. PICK t \in Tapes : t = pruning.at
  BY DEF TrimBySeq
<1>3. PICK S : S = {q \in tapes[t] : q > Cut(tapes[t], Keep(t))}
  OBVIOUS
<1>4. /\ tapes' = [tapes EXCEPT ![t] = S]
      /\ pruning' = [pruning EXCEPT !.at = After[@]]
      /\ UNCHANGED <<pnl, carryover, orderRows, lastSeq, lifetime, ever>>
  BY <1>2, <1>3 DEF TrimBySeq
<1>5. /\ lastSeq \in Nat /\ tapes \in [Tapes -> SUBSET (1..lastSeq)]
      /\ ever \in [Tapes -> SUBSET (1..lastSeq)]
      /\ pruning = [at |-> pruning.at, cut |-> pruning.cut] /\ pruning.cut \in Nat
  BY <1>1 DEF RetentionTypes
<1>6. S \in SUBSET tapes[t] /\ S \in SUBSET (1..lastSeq)
  BY <1>3, <1>5
<1>7. tapes' \in [Tapes -> SUBSET (1..lastSeq)] /\ tapes'[t] = S
      /\ \A u \in Tapes : u # t => tapes'[u] = tapes[u]
  BY <1>4, <1>5, <1>6
<1>8. Newest(ever[t], Keep(t)) \subseteq S
  <2>1. tapes[t] \in SUBSET ever[t] /\ Newest(ever[t], Keep(t)) \subseteq tapes[t]
        /\ ever[t] \in SUBSET (1..lastSeq)
    BY <1>1, <1>5 DEF NewestKept
  <2>2. Keep(t) \in Nat
    BY KeepType
  <2> QED BY <1>3, <1>5, <2>1, <2>2, TrimKeepsNewest
<1>9. NewestKept'
  <2> SUFFICES ASSUME NEW u \in Tapes
               PROVE  tapes'[u] \subseteq ever[u] /\ Newest(ever[u], Keep(u)) \subseteq tapes'[u]
    BY <1>4 DEF NewestKept, Keep, Newest
  <2>1. tapes[u] \subseteq ever[u] /\ Newest(ever[u], Keep(u)) \subseteq tapes[u]
    BY <1>1 DEF NewestKept
  <2> QED BY <1>6, <1>7, <1>8, <2>1
<1>10. pruning' = [at |-> pruning'.at, cut |-> pruning'.cut] /\ pruning'.cut \in Nat
  <2>1. pruning' = [at |-> After[pruning.at], cut |-> pruning.cut]
    BY <1>4, <1>5
  <2> QED BY <1>5, <2>1
<1>11. RetentionTypes'
  BY <1>1, <1>4, <1>7, <1>10 DEF RetentionTypes, PnlRecords
<1>12. PnlIsWhole' /\ OnlyDeadHouseOrdersGo'
  BY <1>1, <1>4 DEF PnlIsWhole, OnlyDeadHouseOrdersGo, Summary, PnlSum
<1> QED BY <1>9, <1>11, <1>12 DEF RetentionInv

LEMMA ReadPnlCutSound ==
  ASSUME RetentionInv, ReadPnlCut
  PROVE  RetentionInv'
<1>1. RetentionTypes /\ OnlyDeadHouseOrdersGo
  BY DEF RetentionInv
<1>2. PICK seqs \in SUBSET (1..lastSeq) : seqs = {r.seq : r \in pnl}
  BY <1>1 DEF RetentionTypes, PnlRecords
<1>3. Cut(seqs, EventsKeep) \in Nat
  BY <1>1, CutSound, RetentionAssumption DEF RetentionTypes
<1>4. /\ UNCHANGED <<tapes, pnl, carryover, orderRows, lastSeq, lifetime, ever>>
      /\ \/ pruning' = [at |-> "idle", cut |-> 0]
         \/ pruning' = [at |-> "fold", cut |-> Cut(seqs, EventsKeep)]
  BY <1>2 DEF ReadPnlCut, NotPruning
<1>5. pruning' = [at |-> pruning'.at, cut |-> pruning'.cut] /\ pruning'.cut \in Nat
  BY <1>3, <1>4
<1>6. orderRows' \in Seq(OrderRecords) /\ OnlyDeadHouseOrdersGo'
  BY <1>1, <1>4 DEF RetentionTypes, OnlyDeadHouseOrdersGo
<1> QED BY <1>4, <1>5, <1>6, TapesStay

\* The rows that go and their sum change places, in one transaction.
LEMMA FoldPnlSound ==
  ASSUME RetentionInv, FoldPnl
  PROVE  RetentionInv'
<1>1. RetentionTypes /\ PnlIsWhole /\ OnlyDeadHouseOrdersGo /\ NewestKept
  BY DEF RetentionInv
<1>2. PICK cut \in Nat : cut = pruning.cut
  BY <1>1 DEF RetentionTypes
<1>3. PICK low : low = {r \in pnl : r.seq <= cut}
  OBVIOUS
<1>4. PICK high : high = {r \in pnl : r.seq > cut}
  OBVIOUS
<1>5. /\ carryover' = [o \in PnlOwners |-> carryover[o] + PnlSum(low, o)]
      /\ pnl' = high /\ pruning' = [at |-> "idle", cut |-> 0]
      /\ UNCHANGED <<tapes, orderRows, lastSeq, lifetime, ever>>
  BY <1>2, <1>3, <1>4 DEF FoldPnl, Folded, NotPruning
<1>6. /\ IsFiniteSet(pnl) /\ pnl \subseteq PnlRecords /\ lastSeq \in Nat
      /\ carryover \in [PnlOwners -> Int]
  BY <1>1 DEF RetentionTypes
<1>7. low \in SUBSET pnl /\ high \in SUBSET pnl
      /\ \A r \in pnl : r.amount \in Int /\ r.seq \in Int
  BY <1>3, <1>4, <1>6 DEF PnlRecords
<1>8. IsFiniteSet(low) /\ IsFiniteSet(high)
  BY <1>6, <1>7, FS_Subset
<1>9. \A o \in PnlOwners : /\ PnlSum(low, o) \in Int /\ PnlSum(high, o) \in Int
                           /\ carryover[o] \in Int
  <2> TAKE o \in PnlOwners
  <2>1. (\A r \in low : r.amount \in Int) /\ (\A r \in high : r.amount \in Int)
    BY <1>7
  <2> QED BY <1>6, <1>8, <2>1, PnlSumInt
<1>10. PnlIsWhole'
  <2> SUFFICES ASSUME NEW o \in PnlOwners
               PROVE  carryover'[o] + PnlSum(high, o) = lifetime[o]
    BY <1>5 DEF PnlIsWhole, Summary, PnlSum
  <2>1. PnlSum(pnl, o) = PnlSum(low, o) + PnlSum(high, o)
    BY <1>2, <1>3, <1>4, <1>6, <1>7, PnlSumCut
  <2>2. carryover[o] + PnlSum(pnl, o) = lifetime[o]
    BY <1>1 DEF PnlIsWhole, Summary
  <2>3. carryover'[o] = carryover[o] + PnlSum(low, o)
    BY <1>5
  <2>4. PnlSum(low, o) \in Int /\ PnlSum(high, o) \in Int /\ carryover[o] \in Int
    BY <1>9
  <2> QED BY <2>1, <2>2, <2>3, <2>4
<1>11. carryover' \in [PnlOwners -> Int]
  BY <1>5, <1>9
<1>12. pnl' \subseteq PnlRecords /\ IsFiniteSet(pnl')
  BY <1>5, <1>6, <1>7, <1>8
<1>13. pruning' = [at |-> pruning'.at, cut |-> pruning'.cut] /\ pruning'.cut \in Nat
  BY <1>5
<1>14. RetentionTypes'
  BY <1>1, <1>5, <1>11, <1>12, <1>13 DEF RetentionTypes, PnlRecords
<1>15. OnlyDeadHouseOrdersGo' /\ NewestKept'
  BY <1>1, <1>5 DEF OnlyDeadHouseOrdersGo, NewestKept, Newest, Keep
<1> QED BY <1>10, <1>14, <1>15 DEF RetentionInv

LEMMA RetentionInvInit ==
  RetentionInit => RetentionInv
<1> SUFFICES ASSUME RetentionInit PROVE RetentionInv
  OBVIOUS
<1>1. RetentionTypes
  BY FS_EmptySet DEF RetentionInit, RetentionTypes, NotPruning
<1>2. PnlIsWhole
  <2> SUFFICES ASSUME NEW o \in PnlOwners PROVE Summary(o) = lifetime[o]
    BY DEF PnlIsWhole
  <2>1. pnl = {} /\ carryover[o] = 0 /\ lifetime[o] = 0 /\ RowsOf(pnl, o) = {}
    BY DEF RetentionInit, RowsOf
  <2>2. PnlSum(pnl, o) = SumFunctionOnSet(Amount({}), {})
    BY <2>1, PnlSumIs
  <2>3. SumFunctionOnSet(Amount({}), {}) = 0
    BY FS_EmptySet, SumEquation
  <2> QED BY <2>1, <2>2, <2>3 DEF Summary
<1>3. OnlyDeadHouseOrdersGo
  BY DEF RetentionInit, OnlyDeadHouseOrdersGo
<1>4. NewestKept
  BY DEF RetentionInit, NewestKept, Newest
<1> QED BY <1>1, <1>2, <1>3, <1>4 DEF RetentionInv

LEMMA RetentionInvNext ==
  RetentionInv /\ [RetentionNext]_retentionVars => RetentionInv'
<1> SUFFICES ASSUME RetentionInv, [RetentionNext]_retentionVars PROVE RetentionInv'
  OBVIOUS
<1>1. ASSUME NEW o \in OrderOwners, ProjectOrder(o) PROVE RetentionInv'
  BY <1>1, OrderStepsSound DEF ProjectOrder
<1>2. ASSUME NEW i \in DOMAIN orderRows, EndOrder(i) \/ OrderAges(i) PROVE RetentionInv'
  BY <1>2, OrderStepsSound DEF EndOrder, OrderAges
<1>3. ASSUME UNCHANGED <<tapes, pnl, carryover, orderRows, lastSeq, lifetime, ever>>,
             pruning' = [at |-> pruning'.at, cut |-> pruning'.cut], pruning'.cut \in Nat
      PROVE  RetentionInv'
  BY <1>3, TapesStay DEF RetentionInv, RetentionTypes, OnlyDeadHouseOrdersGo
<1>4. CASE StartPrune
  <2>1. pruning' = [at |-> "orders", cut |-> 0]
    BY <1>4 DEF StartPrune, NotPruning
  <2>2. pruning' = [at |-> pruning'.at, cut |-> pruning'.cut] /\ pruning'.cut \in Nat
    BY <2>1
  <2> QED BY <1>3, <1>4, <2>2 DEF StartPrune
<1>5. CASE PruneBreaksOff
  <2>1. pruning' = [at |-> pruning'.at, cut |-> pruning'.cut] /\ pruning'.cut \in Nat
    BY <1>5 DEF PruneBreaksOff, NotPruning
  <2> QED BY <1>3, <1>5, <2>1 DEF PruneBreaksOff
<1>6. CASE UNCHANGED retentionVars
  BY <1>3, <1>6 DEF retentionVars, RetentionInv, RetentionTypes
<1> QED BY <1>1, <1>2, <1>4, <1>5, <1>6, ProjectRowSound, ProjectPnlSound, PruneOrdersSound,
           TrimBySeqSound, ReadPnlCutSound, FoldPnlSound DEF RetentionNext

\* Wherever a prune of repos.ts breaks off: the PnL a user is shown is all that was
\* ever realized, no live or user's order is gone, and the newest rows of each
\* tape are there.
THEOREM PruningIsSafe == RetentionSpec => []RetentionSafe
<1>1. RetentionInv => RetentionSafe
  BY DEF RetentionInv, PnlIsWhole, OnlyDeadHouseOrdersGo, NewestKept, RetentionSafe
<1> QED BY <1>1, RetentionInvInit, RetentionInvNext, PTL DEF RetentionSpec

\* The statements of a prune, and the seqs under their bound.
PruneTypes ==
  /\ lastSeq <= MaxProjected
  /\ pruning.at \in Tapes \cup {"idle", "orders", "cut", "fold"}

LEMMA RetentionTypeIs ==
  ASSUME RetentionInv, PruneTypes
  PROVE  RetentionTypeOK
<1>1. lastSeq \in 0..MaxProjected
  BY RetentionAssumption DEF RetentionInv, RetentionTypes, PruneTypes
<1>2. \A o \in PnlOwners : carryover[o] \in Int /\ lifetime[o] \in Int
  BY DEF RetentionInv, RetentionTypes
<1>3. \A i \in DOMAIN orderRows : orderRows[i].owner \in OrderOwners
  <2>1. orderRows \in Seq(OrderRecords)
    BY DEF RetentionInv, RetentionTypes
  <2>2. \A i \in DOMAIN orderRows : orderRows[i] \in OrderRecords
    BY <2>1
  <2> QED BY <2>2 DEF OrderRecords
<1> QED BY <1>1, <1>2, <1>3 DEF RetentionTypeOK, PruneTypes

LEMMA PruneTypesNext ==
  ASSUME RetentionInv, PruneTypes, [RetentionNext]_retentionVars
  PROVE  PruneTypes'
<1>1. lastSeq \in Nat /\ MaxProjected \in Nat
  BY RetentionAssumption DEF RetentionInv, RetentionTypes
<1>2. lastSeq' = lastSeq \/ (lastSeq < MaxProjected /\ lastSeq' = lastSeq + 1)
  BY Zenon DEF RetentionNext, ProjectRow, ProjectPnl, ProjectOrder, EndOrder, OrderAges, StartPrune,
         PruneOrders, TrimBySeq, ReadPnlCut, FoldPnl, PruneBreaksOff, retentionVars
<1>3. NotPruning.at = "idle" /\ [NotPruning EXCEPT !.at = "orders"].at = "orders"
  BY DEF NotPruning
<1>4. ASSUME NEW a \in Tapes \cup {"orders"}, pruning.at = a,
             pruning' = [pruning EXCEPT !.at = After[@]]
      PROVE  pruning'.at \in Tapes \cup {"cut"}
  <2>1. pruning = [at |-> pruning.at, cut |-> pruning.cut]
    BY DEF RetentionInv, RetentionTypes
  <2>2. pruning'.at = After[a]
    BY <1>4, <2>1
  <2> QED BY <2>2 DEF Tapes, After
<1>5. \/ UNCHANGED pruning \/ pruning' = NotPruning
      \/ pruning' = [NotPruning EXCEPT !.at = "orders"]
      \/ pruning.at \in Tapes \cup {"orders"} /\ pruning' = [pruning EXCEPT !.at = After[@]]
      \/ \E cut : pruning' = [at |-> "fold", cut |-> cut]
  BY DEF RetentionNext, ProjectRow, ProjectPnl, ProjectOrder, EndOrder, OrderAges, StartPrune,
         PruneOrders, TrimBySeq, ReadPnlCut, FoldPnl, PruneBreaksOff, retentionVars
<1>6. pruning'.at \in Tapes \cup {"idle", "orders", "cut", "fold"}
  <2>1. CASE \E cut : pruning' = [at |-> "fold", cut |-> cut]
    BY <2>1
  <2>2. CASE pruning.at \in Tapes \cup {"orders"} /\ pruning' = [pruning EXCEPT !.at = After[@]]
    <3>1. PICK a \in Tapes \cup {"orders"} : a = pruning.at
      BY <2>2
    <3> QED BY <1>4, <2>2, <3>1
  <2> QED BY <1>3, <1>5, <2>1, <2>2 DEF PruneTypes
<1> QED BY <1>1, <1>2, <1>6 DEF PruneTypes

LEMMA PruneTypesInit == RetentionInit => PruneTypes
BY RetentionAssumption DEF RetentionInit, PruneTypes, NotPruning

-----------------------------------------------------------------------------
(* The TWAP scheduler.                                                     *)

\* The sum of a sequence, as a sum over its indices, and when it grows by one.
LEMMA SeqSumIs ==
  ASSUME NEW s
  PROVE  Sum(s) = SumFunctionOnSet(s, DOMAIN s)
BY DEF Sum, FoldSeq, FoldFunction, SumFunctionOnSet

LEMMA SeqSumAppend ==
  ASSUME NEW s \in Seq(Int), NEW x \in Int, NEW longer, longer = Append(s, x)
  PROVE  Sum(s) \in Int /\ Sum(longer) = Sum(s) + x
<1> DEFINE n == Len(s)
<1>1. /\ n \in Nat /\ DOMAIN s = 1..n /\ DOMAIN longer = 1..(n + 1)
      /\ longer[n + 1] = x
  OBVIOUS
<1>2. \A i \in 1..n : longer[i] = s[i] /\ s[i] \in Int
  BY <1>1
<1> HIDE DEF n
<1>3. IsFiniteSet(1..n) /\ IsFiniteSet(1..(n + 1))
  BY <1>1, FS_Interval
<1>4. SumFunctionOnSet(s, 1..n) \in Int
  BY <1>2, <1>3, SumInt
<1>5. \A i \in 1..(n + 1) : longer[i] \in Int
  BY <1>1, <1>2
<1>6. PICK S : S = 1..(n + 1)
  OBVIOUS
<1>7. S \ {n + 1} = 1..n /\ n + 1 \in S
  BY <1>1, <1>6
<1>8. SumFunctionOnSet(longer, S) =
        longer[n + 1] + SumFunctionOnSet(longer, S \ {n + 1})
  <2>1. IsFiniteSet(S) /\ (\A i \in S : longer[i] \in Int)
    BY <1>3, <1>5, <1>6
  <2>2. PICK f : f = longer
    OBVIOUS
  <2>3. \A i \in S : f[i] \in Int
    BY ONLY <2>1, <2>2
  <2>4. PICK y : y = n + 1 /\ y \in S
    BY ONLY <1>7
  <2>5. IsFiniteSet(S) /\ y \in S
    BY ONLY <2>1, <2>4
  <2>6. SumFunctionOnSet(f, S) = f[y] + SumFunctionOnSet(f, S \ {y})
    BY ONLY <2>3, <2>5, SumTakeOut
  <2> QED BY ONLY <2>2, <2>4, <2>6
<1>9. SumFunctionOnSet(longer, 1..n) = SumFunctionOnSet(s, 1..n)
  BY <1>2, <1>3, SumSame
<1>10. Sum(s) = SumFunctionOnSet(s, 1..n) /\ Sum(longer) = SumFunctionOnSet(longer, S)
  BY <1>1, <1>6, SeqSumIs
<1>11. Sum(longer) = x + Sum(s)
  BY <1>1, <1>7, <1>8, <1>9, <1>10
<1> QED BY <1>4, <1>10, <1>11

LEMMA SeqSumEmpty == Sum(<<>>) = 0
<1>1. DOMAIN <<>> = {}
  OBVIOUS
<1> QED BY <1>1, SeqSumIs, FS_EmptySet, SumEquation

LEMMA ModIs ==
  ASSUME NEW x \in Int, NEW d \in Nat \ {0}
  PROVE  x % d = x - (x \div d) * d
BY SMT

LEMMA WholeLots ==
  ASSUME NEW x \in Int, NEW d \in Nat \ {0}
  PROVE  (x * d) % d = 0
<1>1. PICK y \in Int : y = x * d
  BY SMT
<1>2. PICK z \in Int : z = y \div d /\ z * d <= y /\ y < z * d + d
  BY <1>1, DivBounds
<1>3. y % d = y - z * d
  BY <1>1, <1>2, ModIs
<1>4. x <= z
  BY <1>1, <1>2, ProductBelow
<1>5. z * d < x * d + d
  BY <1>1, <1>2, SMT
<1>6. z <= x
  BY <1>2, <1>5, ProductBelow
<1>7. z = x
  BY <1>2, <1>4, <1>6
<1> QED BY <1>1, <1>3, <1>7

LEMMA LotsOf ==
  ASSUME NEW x \in Int, NEW d \in Nat \ {0}, x % d = 0
  PROVE  \E n \in Int : x = n * d
<1>1. PICK n \in Int : n = x \div d
  BY DivBounds
<1>2. x % d = x - n * d
  BY <1>1, ModIs
<1>3. n * d \in Int
  BY SMT
<1> QED BY <1>2, <1>3

Remainder(total, slices, q) == total - q * (slices - 1)

NextChild(total, slices, q, done) ==
  IF slices - done = 1 THEN Remainder(total, slices, q) ELSE q

\* A slice is whole lots, and so many of them do not pass the total: the last one
\* is no smaller than the others.
LEMMA SliceFacts ==
  ASSUME NEW total \in Nat, NEW slices \in Nat \ {0}, NEW q,
         q = RoundToLot(total \div slices), q > 0
  PROVE  /\ q \in Nat \ {0} /\ q % TwapLot = 0
         /\ q * slices <= total
         /\ Remainder(total, slices, q) >= q
         /\ total % TwapLot = 0 => Remainder(total, slices, q) % TwapLot = 0
<1>1. TwapLot \in Nat \ {0}
  BY TwapAssumption
<1>2. PICK a \in Int : a = total \div slices /\ a * slices <= total
  BY DivBounds
<1>3. PICK b \in Int : b = a \div TwapLot /\ b * TwapLot <= a
  BY <1>1, DivBounds
<1>4. q = b * TwapLot
  BY <1>2, <1>3 DEF RoundToLot
<1>5. q \in Int /\ q <= a
  BY <1>1, <1>3, <1>4
<1>6. q % TwapLot = 0
  BY <1>1, <1>4, WholeLots
<1>7. q * slices <= a * slices
  BY <1>5, SMT
<1>8. q * slices \in Int /\ a * slices \in Int
  BY <1>5, SMT
<1>9. q * slices <= total
  BY <1>2, <1>7, <1>8
<1>10. q * (slices - 1) = q * slices - q
  BY <1>5, SMT
<1>11. Remainder(total, slices, q) >= q /\ Remainder(total, slices, q) \in Int
  <2>1. PICK z \in Int : z = q * slices
    BY <1>8
  <2>2. Remainder(total, slices, q) = total - (z - q)
    BY <1>10, <2>1 DEF Remainder
  <2>3. z <= total
    BY <1>9, <2>1
  <2> QED BY <1>5, <2>2, <2>3
<1>12. ASSUME total % TwapLot = 0 PROVE Remainder(total, slices, q) % TwapLot = 0
  <2>1. PICK n \in Int : total = n * TwapLot
    <3>1. total \in Int
      OBVIOUS
    <3> QED BY <1>1, <1>12, <3>1, LotsOf
  <2>2. n - b * (slices - 1) \in Int
    OBVIOUS
  <2>3. Remainder(total, slices, q) = (n - b * (slices - 1)) * TwapLot
    BY <1>1, <1>4, <2>1, SMT DEF Remainder
  <2> QED BY <1>1, <2>2, <2>3, WholeLots
<1> QED BY <1>5, <1>6, <1>9, <1>11, <1>12

Jobs ==
  [total : Nat, slices : Nat \ {0}, sliceQty : Nat \ {0}, done : Nat, fired : Seq(Int),
   wait : Int, age : Int, status : {"running", "done", "cancelled"}]

\* What has fired of a job: its first slices, and the remainder for the last.
FiredSlices(total, slices, q, done, fired) ==
  /\ Len(fired) = done
  /\ \A k \in 1..done :
       fired[k] = IF k = slices THEN Remainder(total, slices, q) ELSE q
  /\ Sum(fired) = IF done = slices THEN total ELSE q * done

\* They are those of an order cut into so many slices.
Sliced(total, slices, q, done, fired) ==
  /\ total \in Nat /\ slices \in Nat \ {0} /\ q \in Nat \ {0} /\ done \in Nat
  /\ fired \in Seq(Int) /\ done <= slices
  /\ q = RoundToLot(total \div slices)
  /\ FiredSlices(total, slices, q, done, fired)

JobSound(j) ==
  /\ j.sliceQty = RoundToLot(j.total \div j.slices)
  /\ j.done <= j.slices /\ (j.status = "done" <=> j.done = j.slices)
  /\ FiredSlices(j.total, j.slices, j.sliceQty, j.done, j.fired)

TwapInv ==
  /\ tick \in [on : BOOLEAN, at : Nat, lag : Nat, child : Int]
  /\ twaps \in Seq(Jobs \cup {Gone})
  /\ \A i \in DOMAIN twaps : twaps[i] # Gone => JobSound(twaps[i])

LEMMA JobFacts ==
  ASSUME NEW j \in Jobs
  PROVE  /\ j.status \in {"running", "done", "cancelled"} /\ j # Gone
         /\ j.total \in Nat /\ j.slices \in Nat \ {0} /\ j.sliceQty \in Nat \ {0}
         /\ j.done \in Nat /\ j.fired \in Seq(Int) /\ j.wait \in Int /\ j.age \in Int
BY DEF Jobs, Gone

LEMMA SmallerLarger ==
  ASSUME NEW a \in Int, NEW b \in Int
  PROVE  Min({a, b}) \in Int /\ Max({a, b}) \in Int
<1>1. \E x \in {a, b} : \A y \in {a, b} : x <= y
  OBVIOUS
<1>2. \E x \in {a, b} : \A y \in {a, b} : x >= y
  OBVIOUS
<1>3. Min({a, b}) \in {a, b}
  BY <1>1 DEF Min
<1>4. Max({a, b}) \in {a, b}
  BY <1>2 DEF Max
<1> QED BY <1>3, <1>4

\* Some slices add up to less than the total, and each is whole lots if the total is.
LEMMA FiredIsExact ==
  ASSUME NEW total, NEW slices, NEW q, NEW done, NEW fired,
         Sliced(total, slices, q, done, fired)
  PROVE  /\ Len(fired) = done
         /\ done = slices => Sum(fired) = total
         /\ done # slices => Sum(fired) < total
         /\ total % TwapLot = 0 =>
              \A k \in DOMAIN fired : fired[k] > 0 /\ fired[k] % TwapLot = 0
<1>0. /\ total \in Nat /\ slices \in Nat \ {0} /\ q \in Nat \ {0} /\ done \in Nat
      /\ fired \in Seq(Int) /\ done <= slices
      /\ q = RoundToLot(total \div slices)
      /\ FiredSlices(total, slices, q, done, fired)
  BY DEF Sliced
<1>1. /\ q \in Nat \ {0} /\ q % TwapLot = 0 /\ q * slices <= total
      /\ Remainder(total, slices, q) >= q
      /\ total % TwapLot = 0 => Remainder(total, slices, q) % TwapLot = 0
  <2>1. q > 0
    BY ONLY <1>0
  <2> QED BY <1>0, <2>1, SliceFacts
<1>2. /\ Len(fired) = done
      /\ \A k \in 1..done :
           fired[k] = IF k = slices THEN Remainder(total, slices, q) ELSE q
      /\ Sum(fired) = IF done = slices THEN total ELSE q * done
  BY <1>0 DEF FiredSlices
<1>3. PICK rem \in Int : rem = Remainder(total, slices, q)
  BY ONLY <1>0, SMT DEF Remainder
<1>4. ASSUME done # slices PROVE Sum(fired) < total
  <2>1. done < slices
    BY ONLY <1>0, <1>4
  <2>2. q * done < q * slices
    BY ONLY <1>1, <2>1, <1>0, SMT
  <2>3. q * done \in Int /\ q * slices \in Int
    BY ONLY <1>1, <1>0, SMT
  <2>4. PICK x, y : x = q * done /\ y = q * slices /\ x < y /\ x \in Int /\ y \in Int
    BY ONLY <2>2, <2>3
  <2>5. y <= total /\ Sum(fired) = x
    BY ONLY <1>1, <1>2, <1>4, <2>4
  <2>6. total \in Int /\ x \in Int /\ y \in Int /\ x < y
    BY ONLY <1>0, <2>4
  <2> QED BY ONLY <2>5, <2>6
<1>5. ASSUME total % TwapLot = 0, NEW k \in DOMAIN fired
      PROVE  fired[k] > 0 /\ fired[k] % TwapLot = 0
  <2>1. k \in 1..done
    BY ONLY <1>0, <1>2, <1>5
  <2>2. q > 0 /\ rem > 0 /\ q % TwapLot = 0 /\ rem % TwapLot = 0
    BY ONLY <1>1, <1>3, <1>5
  <2>3. fired[k] = IF k = slices THEN rem ELSE q
    BY ONLY <1>2, <1>3, <2>1
  <2> QED BY ONLY <2>2, <2>3
<1> QED BY <1>2, <1>4, <1>5

\* A sound job is what TwapExact says of it.
LEMMA SoundIsExact ==
  ASSUME NEW j \in Jobs, JobSound(j)
  PROVE  /\ Len(j.fired) = j.done /\ j.done <= j.slices
         /\ IF j.status = "done" THEN Len(j.fired) = j.slices /\ Sum(j.fired) = j.total
            ELSE Sum(j.fired) < j.total
         /\ j.total % TwapLot = 0 =>
              \A k \in DOMAIN j.fired : j.fired[k] > 0 /\ j.fired[k] % TwapLot = 0
<1>1. Sliced(j.total, j.slices, j.sliceQty, j.done, j.fired)
  BY JobFacts DEF JobSound, Sliced
<1>2. j.done <= j.slices /\ (j.status = "done" <=> j.done = j.slices)
  BY DEF JobSound
<1>3. /\ Len(j.fired) = j.done
      /\ j.done = j.slices => Sum(j.fired) = j.total
      /\ j.done # j.slices => Sum(j.fired) < j.total
      /\ j.total % TwapLot = 0 =>
           \A k \in DOMAIN j.fired : j.fired[k] > 0 /\ j.fired[k] % TwapLot = 0
  BY ONLY <1>1, FiredIsExact
<1> QED BY ONLY <1>2, <1>3

\* The next child keeps what has fired the first slices of the job.
LEMMA NextSlice ==
  ASSUME NEW total, NEW slices, NEW q, NEW done, NEW fired,
         Sliced(total, slices, q, done, fired), done # slices, NEW child,
         child = NextChild(total, slices, q, done),
         NEW longer, longer = Append(fired, child)
  PROVE  /\ child \in Int /\ longer \in Seq(Int) /\ done < slices
         /\ FiredSlices(total, slices, q, done + 1, longer)
<1>0. /\ total \in Nat /\ slices \in Nat \ {0} /\ q \in Nat \ {0} /\ done \in Nat
      /\ fired \in Seq(Int) /\ done < slices
      /\ FiredSlices(total, slices, q, done, fired)
  BY DEF Sliced
<1>1. PICK rem \in Int : rem = Remainder(total, slices, q)
  BY ONLY <1>0, SMT DEF Remainder
<1>2. child \in Int /\ child = (IF slices = done + 1 THEN rem ELSE q)
  BY <1>0, <1>1 DEF NextChild
<1>3. Len(fired) = done /\ Sum(fired) = q * done
  BY <1>0 DEF FiredSlices
<1>4. /\ longer \in Seq(Int) /\ Len(longer) = done + 1 /\ longer[done + 1] = child
      /\ \A k \in 1..done : longer[k] = fired[k]
  BY <1>0, <1>2, <1>3
<1>5. Sum(longer) = q * done + child
  BY <1>0, <1>2, <1>3, SeqSumAppend, ZenonT(30)
<1>6. \A k \in 1..(done + 1) :
        longer[k] = IF k = slices THEN Remainder(total, slices, q) ELSE q
  <2>1. \A k \in 1..done :
          fired[k] = IF k = slices THEN Remainder(total, slices, q) ELSE q
    BY <1>0 DEF FiredSlices
  <2>2. ASSUME NEW k \in 1..(done + 1)
        PROVE  longer[k] = IF k = slices THEN Remainder(total, slices, q) ELSE q
    <3>1. CASE k = done + 1
      BY ONLY <1>0, <1>1, <1>2, <1>4, <3>1
    <3>2. CASE k # done + 1
      <4>1. k \in 1..done
        BY ONLY <1>0, <3>2
      <4> QED BY ONLY <1>4, <2>1, <4>1
    <3> QED BY <3>1, <3>2
  <2> QED BY <2>2
<1>7. Sum(longer) = IF done + 1 = slices THEN total ELSE q * (done + 1)
  <2>1. PICK x \in Int : x = q * done /\ q * (done + 1) = x + q
    BY ONLY <1>0, SMT
  <2>2. CASE done + 1 = slices
    <3>1. slices - 1 = done
      BY ONLY <1>0, <2>2
    <3>2. child = total - x
      BY ONLY <1>0, <1>1, <1>2, <2>1, <2>2, <3>1 DEF Remainder
    <3> QED BY ONLY <1>5, <2>1, <2>2, <3>2, <1>0
  <2>3. CASE done + 1 # slices
    BY ONLY <1>2, <1>5, <2>1, <2>3, <1>0
  <2> QED BY <2>2, <2>3
<1> QED BY <1>0, <1>2, <1>4, <1>6, <1>7 DEF FiredSlices

\* A slice: the slot is taken, and the child is the next one due.
LEMMA FireKeepsSound ==
  ASSUME NEW j \in Jobs, JobSound(j), j.status = "running",
         tick.lag \in Nat, NEW r, r = Fired(j)
  PROVE  r \in Jobs /\ JobSound(r) /\ ChildQty(j) \in Int
<1>1. PICK child, longer : child = ChildQty(j) /\ longer = Append(j.fired, child)
  OBVIOUS
<1>2. /\ j.total \in Nat /\ j.slices \in Nat \ {0} /\ j.sliceQty \in Nat \ {0}
      /\ j.done \in Nat /\ j.fired \in Seq(Int)
  BY JobFacts
<1>3. /\ j.done < j.slices
      /\ FiredSlices(j.total, j.slices, j.sliceQty, j.done, j.fired)
      /\ j.sliceQty = RoundToLot(j.total \div j.slices)
  <2>1. j.done <= j.slices /\ j.done # j.slices
    BY DEF JobSound
  <2>2. j.done < j.slices
    BY ONLY <1>2, <2>1
  <2> QED BY <2>2 DEF JobSound
<1>4. /\ child \in Int /\ longer \in Seq(Int)
      /\ FiredSlices(j.total, j.slices, j.sliceQty, j.done + 1, longer)
  <2>1. Sliced(j.total, j.slices, j.sliceQty, j.done, j.fired)
    BY <1>2, <1>3 DEF JobSound, Sliced
  <2>2. child = NextChild(j.total, j.slices, j.sliceQty, j.done)
    BY ONLY <1>1 DEF ChildQty, NextChild, Remainder
  <2>3. j.done # j.slices /\ longer = Append(j.fired, child)
    BY ONLY <1>1, <1>2, <1>3
  <2> QED BY ONLY <2>1, <2>2, <2>3, NextSlice
<1>5. j = [total |-> j.total, slices |-> j.slices, sliceQty |-> j.sliceQty, done |-> j.done,
           fired |-> j.fired, wait |-> j.wait, age |-> j.age, status |-> j.status]
      /\ j.wait \in Int /\ j.age \in Int
  BY DEF Jobs
<1>0. r = [Reserve(j) EXCEPT !.fired = Append(@, ChildQty(j))]
  BY DEF Fired
<1>6. CASE j.done + 1 >= j.slices
  <2>1. Reserve(j) = [j EXCEPT !.done = @ + 1, !.status = "done", !.age = tick.lag]
    BY <1>6 DEF Reserve
  <2>2. r = [total |-> j.total, slices |-> j.slices, sliceQty |-> j.sliceQty,
             done |-> j.done + 1, fired |-> longer, wait |-> j.wait, age |-> tick.lag,
             status |-> "done"]
    BY ONLY <1>0, <1>1, <1>5, <2>1
  <2>3. j.done + 1 \in Nat /\ j.done + 1 = j.slices
    BY ONLY <1>2, <1>3, <1>6
  <2>4. r \in Jobs
    BY ONLY <1>2, <1>4, <1>5, <2>2, <2>3, tick.lag \in Nat DEF Jobs
  <2>5. JobSound(r)
    BY ONLY <1>2, <1>3, <1>4, <2>2, <2>3 DEF JobSound
  <2> QED BY <1>1, <1>4, <2>4, <2>5
<1>7. CASE ~(j.done + 1 >= j.slices)
  <2>1. Reserve(j) = [j EXCEPT !.done = @ + 1, !.wait = TwapInterval - tick.lag]
    BY <1>7 DEF Reserve
  <2>2. r = [total |-> j.total, slices |-> j.slices, sliceQty |-> j.sliceQty,
             done |-> j.done + 1, fired |-> longer, wait |-> TwapInterval - tick.lag,
             age |-> j.age, status |-> "running"]
    BY ONLY <1>0, <1>1, <1>5, <2>1, j.status = "running"
  <2>3. j.done + 1 \in Nat /\ j.done + 1 # j.slices /\ j.done + 1 <= j.slices
    BY ONLY <1>2, <1>3, <1>7
  <2>4. TwapInterval - tick.lag \in Int
    BY TwapAssumption
  <2>5. r \in Jobs
    BY ONLY <1>2, <1>4, <1>5, <2>2, <2>3, <2>4 DEF Jobs
  <2>6. JobSound(r)
    BY ONLY <1>2, <1>3, <1>4, <2>2, <2>3 DEF JobSound
  <2> QED BY <1>1, <1>4, <2>5, <2>6
<1> QED BY <1>6, <1>7

\* The walk meets the jobs by creation, and there is a next one if one is due.
LEMMA NextDue ==
  ASSUME TwapInv, DueJobs # {}
  PROVE  /\ Min(DueJobs) \in DOMAIN twaps /\ twaps[Min(DueJobs)] \in Jobs
         /\ twaps[Min(DueJobs)].status = "running"
<1>1. DueJobs \subseteq DOMAIN twaps /\ DOMAIN twaps \subseteq Nat
  BY DEF DueJobs, TwapInv
<1>2. Min(DueJobs) \in DueJobs
  <2>1. PICK D \in SUBSET Nat : D = DueJobs
    BY <1>1
  <2> QED BY <2>1, OldestEpoch
<1>3. PICK i \in DOMAIN twaps : i = Min(DueJobs) /\ twaps[i].status = "running"
  BY <1>1, <1>2 DEF DueJobs
<1>4. twaps[i] \in Jobs
  <2>1. twaps[i] \in Jobs \cup {Gone}
    BY <1>3 DEF TwapInv
  <2>2. Gone.status # "running"
    BY DEF Gone
  <2> QED BY <1>3, <2>1, <2>2
<1> QED BY <1>3, <1>4

\* One job replaced by a sound one.
LEMMA ReplaceJob ==
  ASSUME TwapInv, NEW i \in DOMAIN twaps, NEW r \in Jobs, JobSound(r),
         twaps' = [twaps EXCEPT ![i] = r],
         tick' \in [on : BOOLEAN, at : Nat, lag : Nat, child : Int]
  PROVE  TwapInv'
<1>1. twaps \in Seq(Jobs \cup {Gone})
  BY DEF TwapInv
<1>2. twaps' \in Seq(Jobs \cup {Gone}) /\ DOMAIN twaps' = DOMAIN twaps
  BY <1>1
<1>3. \A k \in DOMAIN twaps : twaps'[k] = IF k = i THEN r ELSE twaps[k]
  BY <1>1
<1>4. \A k \in DOMAIN twaps' : twaps'[k] # Gone => JobSound(twaps'[k])
  BY <1>2, <1>3 DEF TwapInv
<1> QED BY <1>2, <1>4 DEF TwapInv, JobSound, FiredSlices, RoundToLot, Remainder

LEMMA CreateTwapSound ==
  ASSUME TwapInv, NEW total \in TwapTotals, NEW slices \in TwapSlices, CreateTwap(total, slices)
  PROVE  TwapInv'
<1>1. total \in Nat /\ slices \in Nat \ {0}
  BY TwapAssumption
<1>2. PICK q : q = RoundToLot(total \div slices) /\ q > 0
  BY DEF CreateTwap
<1>3. q \in Nat \ {0}
  BY <1>1, <1>2, SliceFacts
<1>4. PICK j : j = [total |-> total, slices |-> slices, sliceQty |-> q, done |-> 0,
                    fired |-> <<>>, wait |-> 0, age |-> 0, status |-> "running"]
  OBVIOUS
<1>5. twaps' = Append(twaps, j) /\ tick' = tick
  BY <1>2, <1>4 DEF CreateTwap
<1>6. j \in Jobs
  BY <1>1, <1>3, <1>4 DEF Jobs
<1>7. JobSound(j)
  <2>1. FiredSlices(total, slices, q, 0, <<>>)
    <3>1. q * 0 = 0 /\ 0 # slices /\ Len(<<>>) = 0
      BY <1>1, <1>3
    <3> QED BY <3>1, SeqSumEmpty DEF FiredSlices
  <2> QED BY <1>1, <1>2, <1>4, <2>1 DEF JobSound
<1>8. twaps \in Seq(Jobs \cup {Gone})
  BY DEF TwapInv
<1>9. twaps' \in Seq(Jobs \cup {Gone})
  BY <1>5, <1>6, <1>8
<1>10. \A k \in DOMAIN twaps' : (k \in DOMAIN twaps /\ twaps'[k] = twaps[k]) \/ twaps'[k] = j
  BY <1>5, <1>6, <1>8
<1>11. \A k \in DOMAIN twaps' : twaps'[k] # Gone => JobSound(twaps'[k])
  BY <1>7, <1>10 DEF TwapInv
<1> QED BY <1>5, <1>9, <1>11 DEF TwapInv, JobSound, FiredSlices, RoundToLot, Remainder

LEMMA CancelTwapSound ==
  ASSUME TwapInv, NEW i \in DOMAIN twaps, CancelTwap(i)
  PROVE  TwapInv'
<1>1. PICK j : j = twaps[i] /\ j \in Jobs /\ j.status = "running" /\ JobSound(j)
  <2>1. twaps[i] \in Jobs \cup {Gone} /\ twaps[i].status = "running"
    BY DEF TwapInv, CancelTwap
  <2>2. twaps[i] # Gone
    BY <2>1 DEF Gone
  <2> QED BY <2>1, <2>2 DEF TwapInv
<1>2. PICK r : r = [j EXCEPT !.status = "cancelled", !.age = 0]
  OBVIOUS
<1>3. r = [total |-> j.total, slices |-> j.slices, sliceQty |-> j.sliceQty,
           done |-> j.done, fired |-> j.fired, wait |-> j.wait, age |-> 0,
           status |-> "cancelled"]
  BY <1>1, <1>2 DEF Jobs
<1>4. r \in Jobs
  BY <1>1, <1>3 DEF Jobs
<1>5. JobSound(r)
  BY <1>1, <1>3 DEF JobSound
<1>6. twaps' = [twaps EXCEPT ![i] = r] /\ tick' = tick
  BY <1>1, <1>2 DEF CancelTwap
<1> QED BY <1>4, <1>5, <1>6, ReplaceJob DEF TwapInv

LEMMA FireSliceSound ==
  ASSUME TwapInv, FireSlice
  PROVE  TwapInv'
<1>1. PICK i \in DOMAIN twaps : /\ i = Min(DueJobs) /\ twaps[i] \in Jobs
                                /\ twaps[i].status = "running"
  BY NextDue DEF FireSlice
<1>2. PICK j \in Jobs : j = twaps[i] /\ j.status = "running" /\ JobSound(j)
  BY <1>1, JobFacts DEF TwapInv
<1>3. PICK r : r = Fired(j)
  OBVIOUS
<1>4. tick.lag \in Nat /\ i \in Nat
  BY DEF TwapInv
<1>5. r \in Jobs /\ JobSound(r) /\ ChildQty(j) \in Int
  BY <1>2, <1>3, <1>4, FireKeepsSound
<1>6. twaps' = [twaps EXCEPT ![i] = r]
  <2>1. twaps' = [twaps EXCEPT ![Min(DueJobs)] = Fired(@)]
    BY DEF FireSlice
  <2> QED BY ONLY <1>1, <1>2, <1>3, <2>1
<1>7. \E child \in Int : tick' = [tick EXCEPT !.at = i, !.child = child]
  <2>1. \E child \in {0, ChildQty(twaps[i])} :
          tick' = [tick EXCEPT !.at = i, !.child = child]
    <3>1. \E child \in {0, ChildQty(twaps[Min(DueJobs)])} :
            tick' = [tick EXCEPT !.at = Min(DueJobs), !.child = child]
      BY DEF FireSlice
    <3> QED BY ONLY <1>1, <3>1, Zenon
  <2>2. PICK child : /\ child \in {0, ChildQty(twaps[i])}
                     /\ tick' = [tick EXCEPT !.at = i, !.child = child]
    BY <2>1
  <2>3. child \in Int
    BY <1>2, <1>5, <2>2
  <2> QED BY <2>2, <2>3
<1>8. tick' \in [on : BOOLEAN, at : Nat, lag : Nat, child : Int]
  BY <1>4, <1>7 DEF TwapInv
<1> QED BY <1>5, <1>6, <1>8, ReplaceJob

\* Every job kept, aged or evicted.
LEMMA WalkSound ==
  ASSUME TwapInv, DOMAIN twaps' = DOMAIN twaps,
         \E f : twaps' = [i \in DOMAIN twaps |-> f[i]],
         \A i \in DOMAIN twaps :
           twaps'[i] = Gone \/ (twaps[i] \in Jobs /\ twaps'[i] \in Jobs /\ JobSound(twaps'[i])),
         tick' \in [on : BOOLEAN, at : Nat, lag : Nat, child : Int]
  PROVE  TwapInv'
<1>1. twaps \in Seq(Jobs \cup {Gone}) /\ DOMAIN twaps = 1..Len(twaps) /\ Len(twaps) \in Nat
  BY DEF TwapInv
<1>2. twaps' \in Seq(Jobs \cup {Gone})
  BY <1>1
<1> QED BY <1>2 DEF TwapInv, JobSound, FiredSlices, RoundToLot, Remainder

LEMMA EndTickSound ==
  ASSUME TwapInv, EndTick
  PROVE  TwapInv'
<1>1. \A i \in DOMAIN twaps : twaps'[i] \in {Gone, twaps[i]}
  BY DEF EndTick
<1>2. \A i \in DOMAIN twaps : twaps[i] # Gone => twaps[i] \in Jobs /\ JobSound(twaps[i])
  BY DEF TwapInv
<1>3. NoTick \in [on : BOOLEAN, at : Nat, lag : Nat, child : Int] /\ tick' = NoTick
  BY DEF NoTick, EndTick
<1>4. twaps' = [i \in DOMAIN twaps |-> twaps'[i]] /\ DOMAIN twaps' = DOMAIN twaps
  BY DEF EndTick
<1>5. \E f : twaps' = [i \in DOMAIN twaps |-> f[i]]
  BY <1>4
<1> QED BY <1>1, <1>2, <1>3, <1>4, <1>5, WalkSound

\* Time changes only the two clocks of a job.
LEMMA LaterSound ==
  ASSUME NEW j \in Jobs, JobSound(j)
  PROVE  Later(j) \in Jobs /\ JobSound(Later(j))
<1>1. \E wait \in Int, age \in Int : Later(j) = [j EXCEPT !.wait = wait, !.age = age]
  <2>1. j.wait \in Int /\ j.age \in Int /\ j.status \in {"running", "done", "cancelled"}
    BY JobFacts
  <2>2. j = [j EXCEPT !.wait = j.wait, !.age = j.age]
    BY DEF Jobs
  <2>3. CASE j.status = "running"
    <3>1. PICK wait \in Int : wait = Max({j.wait - 1, -MaxTickLag})
      <4>1. MaxTickLag \in Nat
        BY TwapAssumption
      <4>2. PICK a \in Int, b \in Int : a = j.wait - 1 /\ b = -MaxTickLag
        BY <2>1, <4>1
      <4> QED BY <4>2, SmallerLarger
    <3>2. Later(j) = [j EXCEPT !.wait = wait]
      BY <2>3, <3>1 DEF Later
    <3>3. [j EXCEPT !.wait = wait] = [j EXCEPT !.wait = wait, !.age = j.age]
      BY DEF Jobs
    <3> QED BY <2>1, <3>2, <3>3
  <2>4. CASE j.status # "running"
    <3>1. PICK age \in Int : age = Min({j.age + 1, Retain + MaxTickLag + 1})
      <4>1. MaxTickLag \in Nat /\ Retain \in Nat
        BY TwapAssumption
      <4>2. PICK a \in Int, b \in Int : a = j.age + 1 /\ b = Retain + MaxTickLag + 1
        BY <2>1, <4>1
      <4> QED BY <4>2, SmallerLarger
    <3>2. Later(j) = [j EXCEPT !.age = age]
      BY <2>1, <2>4, <3>1 DEF Later
    <3>3. [j EXCEPT !.age = age] = [j EXCEPT !.wait = j.wait, !.age = age]
      BY DEF Jobs
    <3> QED BY <2>1, <3>2, <3>3
  <2> QED BY <2>3, <2>4
<1>2. PICK wait \in Int, age \in Int : Later(j) = [j EXCEPT !.wait = wait, !.age = age]
  BY <1>1
<1>3. Later(j) = [total |-> j.total, slices |-> j.slices, sliceQty |-> j.sliceQty,
                  done |-> j.done, fired |-> j.fired, wait |-> wait, age |-> age,
                  status |-> j.status]
  BY <1>2 DEF Jobs
<1>4. PICK r : r = Later(j)
  OBVIOUS
<1>5. r = [total |-> j.total, slices |-> j.slices, sliceQty |-> j.sliceQty,
           done |-> j.done, fired |-> j.fired, wait |-> wait, age |-> age,
           status |-> j.status]
  BY <1>3, <1>4
<1>6. r \in Jobs
  BY <1>5, JobFacts DEF Jobs
<1>7. JobSound(r)
  BY <1>5 DEF JobSound
<1> QED BY <1>4, <1>6, <1>7

LEMMA TwapElapseSound ==
  ASSUME TwapInv, TwapElapse
  PROVE  TwapInv'
<1>1. \A i \in DOMAIN twaps :
        twaps'[i] = Gone \/ (twaps[i] \in Jobs /\ twaps'[i] \in Jobs /\ JobSound(twaps'[i]))
  <2>1. ASSUME NEW i \in DOMAIN twaps
        PROVE twaps'[i] = Gone \/ (twaps[i] \in Jobs /\ twaps'[i] \in Jobs
                                    /\ JobSound(twaps'[i]))
    <3>1. twaps'[i] = Later(twaps[i])
      BY DEF TwapElapse
    <3>2. CASE twaps[i] = Gone
      BY <3>1, <3>2 DEF Later, Gone
    <3>3. CASE twaps[i] # Gone
      <4>1. twaps[i] \in Jobs /\ JobSound(twaps[i])
        BY <3>3 DEF TwapInv
      <4> QED BY <3>1, <4>1, LaterSound
    <3> QED BY <3>2, <3>3
  <2> QED BY <2>1
<1>2. tick' \in [on : BOOLEAN, at : Nat, lag : Nat, child : Int]
  BY DEF TwapInv, TwapElapse
<1>3. twaps' = [i \in DOMAIN twaps |-> twaps'[i]] /\ DOMAIN twaps' = DOMAIN twaps
  BY DEF TwapElapse
<1>4. \E f : twaps' = [i \in DOMAIN twaps |-> f[i]]
  BY <1>3
<1> QED BY <1>1, <1>2, <1>3, <1>4, WalkSound

LEMMA TwapRestartSound ==
  ASSUME TwapInv, TwapRestart
  PROVE  TwapInv'
<1>1. \A i \in DOMAIN twaps : twaps'[i] = Gone
  BY DEF TwapRestart
<1>2. NoTick \in [on : BOOLEAN, at : Nat, lag : Nat, child : Int] /\ tick' = NoTick
  BY DEF NoTick, TwapRestart
<1>3. twaps' = [i \in DOMAIN twaps |-> twaps'[i]] /\ DOMAIN twaps' = DOMAIN twaps
  BY DEF TwapRestart
<1>4. \E f : twaps' = [i \in DOMAIN twaps |-> f[i]]
  BY <1>3
<1> QED BY <1>1, <1>2, <1>3, <1>4, WalkSound

LEMMA TwapInvInit == TwapInit => TwapInv
<1> SUFFICES ASSUME TwapInit PROVE TwapInv
  OBVIOUS
<1>1. twaps = <<>> /\ tick = NoTick
  BY DEF TwapInit
<1>2. <<>> \in Seq(Jobs \cup {Gone}) /\ DOMAIN <<>> = {}
  OBVIOUS
<1> QED BY <1>1, <1>2 DEF TwapInv, NoTick

LEMMA TwapInvNext == TwapInv /\ [TwapNext]_twapVars => TwapInv'
<1> SUFFICES ASSUME TwapInv, [TwapNext]_twapVars PROVE TwapInv'
  OBVIOUS
<1>1. ASSUME twaps' = twaps, tick' \in [on : BOOLEAN, at : Nat, lag : Nat, child : Int]
      PROVE  TwapInv'
  <2>1. twaps = [i \in DOMAIN twaps |-> twaps[i]]
    BY DEF TwapInv
  <2>2. \E f : twaps' = [i \in DOMAIN twaps |-> f[i]]
    BY <1>1, <2>1
  <2>3. \A i \in DOMAIN twaps :
          twaps'[i] = Gone \/ (twaps[i] \in Jobs /\ twaps'[i] \in Jobs /\ JobSound(twaps'[i]))
    BY <1>1 DEF TwapInv
  <2>4. DOMAIN twaps' = DOMAIN twaps
    BY <1>1
  <2>5. tick' \in [on : BOOLEAN, at : Nat, lag : Nat, child : Int]
    BY <1>1
  <2> QED BY ONLY TwapInv, <2>2, <2>3, <2>4, <2>5, WalkSound
<1>2. CASE StartTick
  <2>1. tick' = [NoTick EXCEPT !.on = TRUE] /\ twaps' = twaps
    BY <1>2 DEF StartTick
  <2>2. tick' \in [on : BOOLEAN, at : Nat, lag : Nat, child : Int]
    <3>1. PICK b \in BOOLEAN : b = TRUE
      OBVIOUS
    <3>2. tick' = [on |-> b, at |-> 0, lag |-> 0, child |-> 0]
      BY ONLY <2>1, <3>1 DEF NoTick
    <3> QED BY <3>2
  <2> QED BY <1>1, <2>1, <2>2
<1>3. CASE SliceEnds
  <2>1. tick' \in [on : BOOLEAN, at : Nat, lag : Nat, child : Int]
    BY <1>3 DEF SliceEnds, TwapInv
  <2> QED BY <1>1, <1>3, <2>1 DEF SliceEnds
<1>4. CASE UNCHANGED twapVars
  BY <1>1, <1>4 DEF twapVars, TwapInv
<1> QED BY <1>2, <1>3, <1>4, CreateTwapSound, CancelTwapSound, FireSliceSound, EndTickSound,
           TwapElapseSound, TwapRestartSound DEF TwapNext, TickStep

\* Whatever ticks, cancels and lost children fall between the slices of twap.ts: a
\* job that is done fired one child per slice and they add up to the order, one
\* that is not has not passed it, and each child is whole lots if the order is.
THEOREM TwapsAreExact == TwapSpec => []TwapExact
<1>1. TwapInv => TwapExact
  <2> SUFFICES ASSUME TwapInv, NEW i \in DOMAIN twaps, twaps[i].status # "gone",
                      NEW j, j = twaps[i]
               PROVE  /\ Len(j.fired) = j.done /\ j.done <= j.slices
                      /\ IF j.status = "done"
                         THEN Len(j.fired) = j.slices /\ Sum(j.fired) = j.total
                         ELSE Sum(j.fired) < j.total
                      /\ j.total % TwapLot = 0 =>
                           \A k \in DOMAIN j.fired :
                             j.fired[k] > 0 /\ j.fired[k] % TwapLot = 0
    BY DEF TwapExact
  <2>1. j # Gone
    BY DEF Gone
  <2>2. j \in Jobs /\ JobSound(j)
    BY <2>1 DEF TwapInv
  <2> QED BY <2>2, SoundIsExact
<1> QED BY <1>1, TwapInvInit, TwapInvNext, PTL DEF TwapSpec

\* The clocks of the jobs, and the tick, are within their bounds.
JobsTimed ==
  \A i \in DOMAIN twaps :
    twaps[i].status = "running" => twaps[i].wait \in (-MaxTickLag)..TwapInterval

TickBounded ==
  /\ tick.at <= Len(twaps) /\ tick.lag <= MaxTickLag
  /\ ~tick.on => tick.child = 0 /\ tick.at = 0 /\ tick.lag = 0

LEMMA TwapTypeIs ==
  ASSUME TwapInv, JobsTimed, TickBounded
  PROVE  TwapTypeOK
<1>1. /\ tick.on \in BOOLEAN /\ tick.at \in Nat /\ tick.lag \in Nat /\ MaxTickLag \in Nat
      /\ Len(twaps) \in Nat
  BY TwapAssumption DEF TwapInv
<1>2. \A i \in DOMAIN twaps : twaps[i].status \in {"running", "done", "cancelled", "gone"}
  <2>1. \A i \in DOMAIN twaps : twaps[i] \in Jobs \/ twaps[i] = Gone
    BY DEF TwapInv
  <2> QED BY <2>1, JobFacts DEF Gone
<1> QED BY <1>1, <1>2 DEF TwapTypeOK, JobsTimed, TickBounded

\* A job that has just fired waits for its next slice.
LEMMA FiredWaits ==
  ASSUME TwapInv, TickBounded, NEW j \in Jobs, Fired(j).status = "running"
  PROVE  Fired(j).wait \in (-MaxTickLag)..TwapInterval
<1>1. /\ tick.lag \in Nat /\ tick.lag <= MaxTickLag /\ MaxTickLag \in Nat
      /\ TwapInterval \in Nat \ {0}
  BY TwapAssumption DEF TwapInv, TickBounded
<1>2. CASE j.done + 1 >= j.slices
  BY <1>2 DEF Fired, Reserve, Jobs
<1>3. CASE ~(j.done + 1 >= j.slices)
  <2>1. Fired(j).wait = TwapInterval - tick.lag
    BY <1>3 DEF Fired, Reserve, Jobs
  <2> QED BY <1>1, <2>1
<1> QED BY <1>2, <1>3

LEMMA LaterWaits ==
  ASSUME NEW j \in Jobs, j.status = "running", j.wait \in (-MaxTickLag)..TwapInterval
  PROVE  Later(j).wait \in (-MaxTickLag)..TwapInterval
<1>1. MaxTickLag \in Nat /\ TwapInterval \in Nat \ {0}
  BY TwapAssumption
<1>2. PICK a \in Int, b \in Int : a = j.wait - 1 /\ b = -MaxTickLag
  BY <1>1
<1>3. Max({a, b}) \in {a, b} /\ Max({a, b}) >= b
  <2>1. \E x \in {a, b} : \A y \in {a, b} : x >= y
    OBVIOUS
  <2> QED BY <2>1 DEF Max
<1>4. Later(j).wait = Max({a, b})
  BY <1>2 DEF Later, Jobs
<1>5. a <= TwapInterval /\ b <= TwapInterval
  BY <1>1, <1>2
<1> QED BY <1>1, <1>2, <1>3, <1>4, <1>5

LEMMA JobsTimedNext ==
  ASSUME TwapInv, JobsTimed, TickBounded, [TwapNext]_twapVars
  PROVE  JobsTimed'
<1>1. twaps \in Seq(Jobs \cup {Gone})
  BY DEF TwapInv
<1>2. Gone.status # "running"
  BY DEF Gone
<1>3. CASE UNCHANGED twaps
  BY <1>3 DEF JobsTimed
<1>4. CASE \E total \in TwapTotals, slices \in TwapSlices : CreateTwap(total, slices)
  <2>1. PICK j : twaps' = Append(twaps, j) /\ j.wait = 0
    BY <1>4 DEF CreateTwap
  <2>2. 0 \in (-MaxTickLag)..TwapInterval
    BY TwapAssumption
  <2>3. \A k \in DOMAIN twaps' : (k \in DOMAIN twaps /\ twaps'[k] = twaps[k]) \/ twaps'[k] = j
    BY <1>1, <2>1
  <2> QED BY <2>1, <2>2, <2>3 DEF JobsTimed
<1>5. CASE \E i \in DOMAIN twaps : CancelTwap(i)
  <2>1. PICK i \in DOMAIN twaps :
          /\ twaps' = [twaps EXCEPT ![i].status = "cancelled", ![i].age = 0]
          /\ twaps[i].status = "running"
    BY <1>5 DEF CancelTwap
  <2>2. twaps[i] \in Jobs
    BY <1>1, <1>2, <2>1
  <2> QED BY <1>1, <2>1, <2>2 DEF JobsTimed
<1>6. CASE FireSlice
  <2>1. PICK i \in DOMAIN twaps : i = Min(DueJobs) /\ twaps[i] \in Jobs
    BY <1>6, NextDue DEF FireSlice
  <2>2. twaps' = [twaps EXCEPT ![i] = Fired(twaps[i])]
    <3>1. twaps' = [twaps EXCEPT ![Min(DueJobs)] = Fired(@)]
      BY <1>6 DEF FireSlice
    <3> QED BY ONLY <2>1, <3>1
  <2>3. \A k \in DOMAIN twaps' : k \in DOMAIN twaps /\ twaps'[k] \in {twaps[k], Fired(twaps[i])}
    BY <2>2
  <2> QED BY <2>1, <2>3, FiredWaits DEF JobsTimed
<1>7. CASE EndTick
  <2>1. \A k \in DOMAIN twaps' : k \in DOMAIN twaps /\ twaps'[k] \in {twaps[k], Gone}
    BY <1>7 DEF EndTick
  <2> QED BY <1>2, <2>1 DEF JobsTimed
<1>8. CASE TwapElapse
  <2>1. \A k \in DOMAIN twaps' : k \in DOMAIN twaps /\ twaps'[k] = Later(twaps[k])
    BY <1>8 DEF TwapElapse
  <2>2. ASSUME NEW k \in DOMAIN twaps, Later(twaps[k]).status = "running"
        PROVE  Later(twaps[k]).wait \in (-MaxTickLag)..TwapInterval
    <3>1. twaps[k] \in Jobs \/ twaps[k] = Gone
      BY <1>1
    <3>2. twaps[k] # Gone
      BY <1>2, <2>2 DEF Later, Gone
    <3>3. twaps[k].status = "running"
      <4>1. CASE twaps[k].status \in {"done", "cancelled"}
        <5>1. Later(twaps[k]).status = twaps[k].status
          BY <3>1, <3>2, <4>1 DEF Later, Jobs
        <5> QED BY <2>2, <4>1, <5>1
      <4> QED BY <3>1, <3>2, <4>1, JobFacts
    <3> QED BY <3>1, <3>2, <3>3, LaterWaits DEF JobsTimed
  <2> QED BY <2>1, <2>2 DEF JobsTimed
<1>9. CASE TwapRestart
  <2>1. \A k \in DOMAIN twaps' : twaps'[k] = Gone
    BY <1>9 DEF TwapRestart
  <2> QED BY <1>2, <2>1 DEF JobsTimed
<1> QED BY <1>3, <1>4, <1>5, <1>6, <1>7, <1>8, <1>9
        DEF TwapNext, TickStep, StartTick, SliceEnds, twapVars

LEMMA TickBoundedNext ==
  ASSUME TwapInv, TickBounded, [TwapNext]_twapVars
  PROVE  TickBounded'
<1>1. /\ twaps \in Seq(Jobs \cup {Gone}) /\ Len(twaps) \in Nat /\ MaxTickLag \in Nat
      /\ DOMAIN twaps = 1..Len(twaps)
  BY TwapAssumption DEF TwapInv
<1>2. PICK on \in BOOLEAN, at, lag \in Nat, child \in Int :
        /\ tick = [on |-> on, at |-> at, lag |-> lag, child |-> child]
        /\ at <= Len(twaps) /\ lag <= MaxTickLag
        /\ ~on => child = 0 /\ at = 0 /\ lag = 0
  <2>1. /\ tick = [on |-> tick.on, at |-> tick.at, lag |-> tick.lag, child |-> tick.child]
        /\ tick.on \in BOOLEAN /\ tick.at \in Nat /\ tick.lag \in Nat /\ tick.child \in Int
    BY DEF TwapInv
  <2> QED BY <2>1 DEF TickBounded
<1>3. ASSUME tick' = NoTick, Len(twaps') \in Nat PROVE TickBounded'
  BY <1>1, <1>3 DEF NoTick, TickBounded
<1>4. ASSUME tick' = tick, Len(twaps') \in Nat, Len(twaps) <= Len(twaps')
      PROVE  TickBounded'
  BY <1>1, <1>2, <1>4 DEF TickBounded
<1>5. CASE UNCHANGED twapVars \/ \E i \in DOMAIN twaps : CancelTwap(i)
  <2>1. CASE UNCHANGED twapVars
    BY <1>1, <1>4, <2>1 DEF twapVars
  <2>2. CASE \E i \in DOMAIN twaps : CancelTwap(i)
    <3>1. PICK i \in DOMAIN twaps :
            /\ twaps' = [twaps EXCEPT ![i].status = "cancelled", ![i].age = 0]
            /\ tick' = tick
      BY <2>2 DEF CancelTwap
    <3>2. Len(twaps') = Len(twaps)
      BY <1>1, <3>1
    <3> QED BY <1>1, <1>4, <3>1, <3>2
  <2> QED BY <1>5, <2>1, <2>2
<1>6. CASE \E total \in TwapTotals, slices \in TwapSlices : CreateTwap(total, slices)
  <2>1. PICK j : twaps' = Append(twaps, j) /\ tick' = tick
    BY <1>6 DEF CreateTwap
  <2>2. Len(twaps') = Len(twaps) + 1
    BY <1>1, <2>1
  <2> QED BY <1>1, <1>4, <2>1, <2>2
<1>7. CASE StartTick
  <2>1. tick' = [on |-> TRUE, at |-> 0, lag |-> 0, child |-> 0] /\ twaps' = twaps
    BY <1>7 DEF StartTick, NoTick
  <2> QED BY <1>1, <2>1 DEF TickBounded
<1>8. CASE FireSlice
  <2>1. PICK i \in DOMAIN twaps : i = Min(DueJobs)
    BY <1>8, NextDue DEF FireSlice
  <2>2. PICK c : tick' = [tick EXCEPT !.at = i, !.child = c]
    BY <1>8, <2>1 DEF FireSlice
  <2>3. on /\ tick' = [on |-> TRUE, at |-> i, lag |-> lag, child |-> c]
    BY <1>2, <1>8, <2>2 DEF FireSlice
  <2>4. Len(twaps') = Len(twaps)
    <3>1. PICK f : twaps' = [twaps EXCEPT ![i] = f]
      BY <1>8, <2>1 DEF FireSlice
    <3> QED BY <1>1, <3>1
  <2> QED BY <1>1, <1>2, <2>3, <2>4 DEF TickBounded
<1>9. CASE SliceEnds
  <2>1. tick' = [on |-> on, at |-> at, lag |-> lag, child |-> 0] /\ twaps' = twaps
    BY <1>2, <1>9 DEF SliceEnds
  <2> QED BY <1>1, <1>2, <2>1 DEF TickBounded
<1>10. CASE EndTick \/ TwapRestart
  <2>1. tick' = NoTick
    BY <1>10 DEF EndTick, TwapRestart
  <2>2. PICK f : twaps' = [i \in DOMAIN twaps |-> f[i]]
    <3>1. twaps' = [i \in DOMAIN twaps |-> twaps'[i]]
      BY <1>10 DEF EndTick, TwapRestart
    <3> QED BY <3>1
  <2>3. Len(twaps') = Len(twaps)
    BY <1>1, <2>2
  <2> QED BY <1>1, <1>3, <2>1, <2>3
<1>11. CASE TwapElapse
  <2>1. twaps' = [i \in DOMAIN twaps |-> Later(twaps[i])]
    BY <1>11 DEF TwapElapse
  <2>2. Len(twaps') = Len(twaps)
    BY <1>1, <2>1
  <2>3. lag + 1 <= MaxTickLag
    BY <1>1, <1>2, <1>11 DEF TwapElapse
  <2>4. tick' = IF on THEN [on |-> on, at |-> at, lag |-> lag + 1, child |-> child] ELSE tick
    BY <1>2, <1>11 DEF TwapElapse
  <2>5. CASE on
    <3>1. tick' = [on |-> TRUE, at |-> at, lag |-> lag + 1, child |-> child]
      BY <2>4, <2>5
    <3> QED BY <1>1, <1>2, <2>2, <2>3, <3>1 DEF TickBounded
  <2>6. CASE ~on
    BY <1>1, <1>4, <2>2, <2>4, <2>6
  <2> QED BY <2>5, <2>6
<1> QED BY <1>5, <1>6, <1>7, <1>8, <1>9, <1>10, <1>11 DEF TwapNext, TickStep

LEMMA TwapTypesInit == TwapInit => JobsTimed /\ TickBounded
<1> SUFFICES ASSUME TwapInit PROVE JobsTimed /\ TickBounded
  OBVIOUS
<1>1. twaps = <<>> /\ tick = NoTick /\ Len(<<>>) = 0 /\ MaxTickLag \in Nat
  BY TwapAssumption DEF TwapInit
<1> QED BY <1>1 DEF JobsTimed, TickBounded, NoTick

-----------------------------------------------------------------------------
(* The connection to a venue and the book mirror.                          *)

Links ==
  [state : {"none", "connecting", "open"}, attempts : Nat, retry : BOOLEAN,
   stable : BOOLEAN, final : BOOLEAN]

SocketInv == link \in Links /\ SocketSound

\* A lost, refused, retried or closed connection.
LEMMA LinkStepSound ==
  ASSUME SocketInv, SocketStep \/ CloseSocket
  PROVE  SocketInv'
<1>1. link \in Links
  BY DEF SocketInv
<1>2. CASE SocketOpens
  <2>1. link' \in Links
    BY <1>1, <1>2 DEF SocketOpens, Links
  <2>2. SocketSound'
    BY <1>1, <1>2 DEF SocketOpens, Links, SocketInv, SocketSound
  <2> QED BY <2>1, <2>2 DEF SocketInv
<1>3. CASE StableFires
  <2>1. link' \in Links
    BY <1>1, <1>3 DEF StableFires, Links
  <2>2. SocketSound'
    BY <1>1, <1>3 DEF StableFires, Links, SocketInv, SocketSound
  <2> QED BY <2>1, <2>2 DEF SocketInv
<1>4. CASE SocketCloses
  <2>1. link' \in Links
    <3>1. PICK l \in Links : l = Teardown(link)
      BY <1>1 DEF Links, Teardown
    <3>2. ScheduleReconnect(l) \in Links
      <4>1. PICK tries \in Nat :
              tries = IF l.attempts < BackoffCap THEN l.attempts + 1 ELSE l.attempts
        BY DEF Links
      <4>2. l \in Links => [l EXCEPT !.retry = TRUE, !.attempts = tries] \in Links
        BY ONLY <4>1 DEF Links
      <4>3. ScheduleReconnect(l) = IF l.final \/ l.retry THEN l
                                   ELSE [l EXCEPT !.retry = TRUE, !.attempts = tries]
        BY <4>1 DEF ScheduleReconnect
      <4> QED BY <4>2, <4>3
    <3> QED BY <1>4, <3>1, <3>2 DEF SocketCloses
  <2>2. SocketSound'
    BY <1>1, <1>4
       DEF SocketCloses, Links, ScheduleReconnect, Teardown, SocketInv, SocketSound
  <2> QED BY <2>1, <2>2 DEF SocketInv
<1>5. CASE RetryFires
  <2>1. link' \in Links
    BY <1>1, <1>5 DEF RetryFires, Links, Connect
  <2>2. SocketSound'
    BY <1>1, <1>5 DEF RetryFires, Links, Connect, SocketInv, SocketSound
  <2> QED BY <2>1, <2>2 DEF SocketInv
<1>6. CASE CloseSocket
  <2>1. link' \in Links
    BY <1>1, <1>6 DEF CloseSocket, Links, Teardown
  <2>2. SocketSound'
    BY <1>1, <1>6 DEF CloseSocket, Links, Teardown, SocketInv, SocketSound
  <2> QED BY <2>1, <2>2 DEF SocketInv
<1> QED BY <1>2, <1>3, <1>4, <1>5, <1>6 DEF SocketStep

\* The frames and the set of coins that is wanted; the link does not change.
LEMMA StreamStepSound ==
  ASSUME SocketInv, UNCHANGED link,
         \/ UNCHANGED <<wanted, heard, wire>>
         \/ \E c : VenueSends(c)
         \/ \E c : FrameArrives(c)
         \/ \E next : SetCoins(next) /\ ~link.final
  PROVE  SocketInv'
<1>1. CASE UNCHANGED <<wanted, heard, wire>>
  BY <1>1 DEF SocketInv, SocketSound
<1>2. CASE \E c : VenueSends(c)
  <2>1. link.state = "open" /\ ~link.final /\ UNCHANGED <<wanted, heard>>
    BY <1>2 DEF VenueSends, SocketInv, SocketSound
  <2> QED BY <2>1 DEF SocketInv, SocketSound
<1>3. CASE \E c : FrameArrives(c)
  <2>1. ~link.final /\ UNCHANGED <<wanted, heard>>
    BY <1>3 DEF FrameArrives, SocketInv, SocketSound
  <2> QED BY <2>1 DEF SocketInv, SocketSound
<1>4. CASE \E next : SetCoins(next) /\ ~link.final
  <2>1. PICK next : /\ ~link.final /\ wanted' = next /\ wire' = wire
                    /\ heard' = SubscribeDiff(next)
    BY <1>4 DEF SetCoins
  <2>2. link.state = "open" => heard' = wanted'
    <3>1. ASSUME link.state = "open" PROVE heard' = wanted'
      <4>1. heard = wanted
        BY <3>1 DEF SocketInv, SocketSound
      <4>2. heard' = (heard \ (wanted \ next)) \cup (next \ wanted)
        BY <2>1, <3>1 DEF SubscribeDiff
      <4> QED BY <2>1, <4>1, <4>2
    <3> QED BY <3>1
  <2>3. link.state # "open" => heard' = heard
    BY <2>1 DEF SubscribeDiff
  <2> QED BY <2>1, <2>2, <2>3 DEF SocketInv, SocketSound
<1> QED BY <1>1, <1>2, <1>3, <1>4

\* What the mirror does to its connection.
LEMMA MirrorMovesSocket ==
  ASSUME SocketInv, [MirrorNext]_mirrorVars
  PROVE  SocketInv'
<1>1. CASE SocketStep \/ CloseSocket
  BY <1>1, LinkStepSound
<1>2. CASE /\ UNCHANGED link
           /\ \/ UNCHANGED <<wanted, heard, wire>>
              \/ \E c : VenueSends(c)
              \/ \E c : FrameArrives(c)
              \/ \E next : SetCoins(next) /\ ~link.final
  BY <1>2, StreamStepSound
<1>3. CASE MirrorRestart
  <2>1. link' = [NewLink EXCEPT !.state = "connecting"] /\ heard' = {}
    BY <1>3 DEF MirrorRestart, Connect, NewLink
  <2>2. link' \in Links /\ link'.state = "connecting" /\ ~link'.stable /\ ~link'.retry
        /\ ~link'.final
    BY <2>1 DEF NewLink, Links
  <2> QED BY <2>1, <2>2 DEF SocketInv, SocketSound
<1>4. CASE MirrorLink
  BY <1>1, <1>2, <1>4 DEF MirrorLink, VenueSends
<1>5. CASE MirrorCommand \/ MirrorElapse \/ UNCHANGED mirrorVars
  BY <1>2, <1>5 DEF MirrorCommand, MirrorElapse, mirrorVars
<1>6. CASE Refresh
  <2>1. SetCoins(AlwaysOn \cup watched) /\ ~link.final
    BY <1>6 DEF Refresh
  <2> QED BY <1>2, <2>1 DEF SetCoins
<1>7. CASE StopMirror
  BY <1>1, <1>7 DEF StopMirror
<1>8. CASE \E m \in Mirrorable :
             \/ \E book \in VenueBooks : OnSnapshot(m, book)
             \/ ThrottleFires(m) \/ Watch(m)
             \/ \E o \in house[m] : UserFills(m, o)
  BY <1>2, <1>8 DEF OnSnapshot, FrameArrives, ThrottleFires, Watch, UserFills
<1> QED BY <1>3, <1>4, <1>5, <1>6, <1>7, <1>8 DEF MirrorNext

LEMMA SocketStarts == MirrorInit => SocketInv
<1> SUFFICES ASSUME MirrorInit PROVE SocketInv
  OBVIOUS
<1>1. link = [NewLink EXCEPT !.state = "connecting"] /\ heard = {}
  BY DEF MirrorInit, SocketInit, Connect, NewLink
<1>2. link \in Links /\ link.state = "connecting" /\ ~link.stable /\ ~link.retry
      /\ ~link.final
  BY <1>1 DEF NewLink, Links
<1> QED BY <1>1, <1>2 DEF SocketInv, SocketSound

\* Through any drops, refusals, retries and changes of what is wanted, the
\* connection of reconnectingWs.ts is asked for exactly what is wanted, backs off
\* unless it lasted, and is given up only when it is closed.
THEOREM SocketStaysSound == MirrorSpec => []SocketSound
<1>1. SocketInv /\ [MirrorNext]_mirrorVars => SocketInv'
  BY MirrorMovesSocket
<1>2. SocketInv => SocketSound
  BY DEF SocketInv
<1> QED BY <1>1, <1>2, SocketStarts, PTL DEF MirrorSpec

Commands == [market : Mirrorable, book : VenueBooks \cup {NoBook}]

QueuedIn(q, m) == \E i \in DOMAIN q : q[i].market = m

\* The last command queued for a market, if there is one, takes its book down.
EndsDown(q, m) ==
  \A i \in DOMAIN q :
    q[i].market = m /\ (\A k \in DOMAIN q : k > i => q[k].market # m)
      => q[i].book = NoBook

\* A command joins the queue: nothing changes for the other markets.
LEMMA EnqueueOther ==
  ASSUME NEW q \in Seq(Commands), NEW c \in Commands, NEW m, c.market # m,
         EndsDown(q, m), NEW longer, longer = Append(q, c)
  PROVE  EndsDown(longer, m) /\ (QueuedIn(longer, m) <=> QueuedIn(q, m))
<1>1. /\ Len(q) \in Nat /\ DOMAIN q = 1..Len(q) /\ DOMAIN longer = 1..(Len(q) + 1)
      /\ longer[Len(q) + 1] = c /\ \A i \in 1..Len(q) : longer[i] = q[i]
  OBVIOUS
<1>2. EndsDown(longer, m)
  <2> SUFFICES ASSUME NEW i \in DOMAIN longer, longer[i].market = m,
                      \A k \in DOMAIN longer : k > i => longer[k].market # m
               PROVE  longer[i].book = NoBook
    BY DEF EndsDown
  <2>1. i \in DOMAIN q /\ longer[i] = q[i]
    BY <1>1
  <2>2. \A k \in DOMAIN q : k > i => q[k].market # m
    BY <1>1
  <2> QED BY <2>1, <2>2 DEF EndsDown
<1>3. QueuedIn(longer, m) <=> QueuedIn(q, m)
  BY <1>1 DEF QueuedIn
<1> QED BY <1>2, <1>3

\* The next command leaves the queue.  If it was the last one for a market whose
\* commands end with its book down, it takes the book down.
LEMMA Dequeue ==
  ASSUME NEW q \in Seq(Commands), q # <<>>, NEW m, EndsDown(q, m),
         NEW c, c = Head(q), NEW shorter, shorter = Tail(q)
  PROVE  /\ c \in Commands /\ shorter \in Seq(Commands)
         /\ EndsDown(shorter, m)
         /\ c.market # m => (QueuedIn(shorter, m) <=> QueuedIn(q, m))
         /\ c.market = m /\ ~QueuedIn(shorter, m) => c.book = NoBook
<1>1. PICK n \in Nat : n = Len(q) /\ n > 0
  OBVIOUS
<1>2. /\ shorter \in Seq(Commands) /\ DOMAIN shorter = 1..(n - 1) /\ DOMAIN q = 1..n
      /\ \A i \in 1..(n - 1) : shorter[i] = q[i + 1]
  BY <1>1
<1>3. c = q[1] /\ c \in Commands
  BY <1>1, <1>2
<1>4. \A i \in 1..n : i = 1 \/ (i - 1 \in 1..(n - 1) /\ q[i] = shorter[i - 1])
  BY <1>1, <1>2
<1>5. EndsDown(shorter, m)
  <2> SUFFICES ASSUME NEW i \in 1..(n - 1), shorter[i].market = m,
                      \A k \in 1..(n - 1) : k > i => shorter[k].market # m
               PROVE  shorter[i].book = NoBook
    BY <1>2 DEF EndsDown
  <2>1. i + 1 \in 1..n /\ shorter[i] = q[i + 1]
    BY <1>1, <1>2
  <2>2. ASSUME NEW k \in 1..n, k > i + 1 PROVE q[k].market # m
    <3>1. k - 1 \in 1..(n - 1) /\ k - 1 > i /\ q[k] = shorter[k - 1]
      BY <1>1, <1>2, <1>4, <2>2
    <3> QED BY <3>1
  <2>3. PICK j \in DOMAIN q : j = i + 1
    BY <1>2, <2>1
  <2>4. q[j].market = m /\ \A k \in DOMAIN q : k > j => q[k].market # m
    BY <1>2, <2>1, <2>2, <2>3
  <2>5. q[j].book = NoBook
    BY <2>4 DEF EndsDown
  <2> QED BY <2>1, <2>3, <2>5
<1>6. ASSUME c.market # m PROVE QueuedIn(shorter, m) <=> QueuedIn(q, m)
  <2>1. ASSUME NEW i \in DOMAIN shorter, shorter[i].market = m PROVE QueuedIn(q, m)
    <3>1. i + 1 \in DOMAIN q /\ q[i + 1].market = m
      BY <1>1, <1>2, <2>1
    <3> QED BY <3>1 DEF QueuedIn
  <2>2. ASSUME NEW i \in DOMAIN q, q[i].market = m PROVE QueuedIn(shorter, m)
    <3>1. i # 1
      BY <1>3, <1>6, <2>2
    <3>2. i - 1 \in DOMAIN shorter /\ shorter[i - 1].market = m
      BY <1>2, <1>4, <2>2, <3>1
    <3> QED BY <3>2 DEF QueuedIn
  <2> QED BY <2>1, <2>2 DEF QueuedIn
<1>7. ASSUME c.market = m, ~QueuedIn(shorter, m) PROVE c.book = NoBook
  <2>1. PICK j \in DOMAIN q : j = 1
    BY <1>1, <1>2
  <2>2. ASSUME NEW k \in DOMAIN q, k > j PROVE q[k].market # m
    <3>1. k - 1 \in DOMAIN shorter /\ q[k] = shorter[k - 1]
      BY <1>2, <1>4, <2>1, <2>2
    <3> QED BY <1>7, <3>1 DEF QueuedIn
  <2>3. q[j].book = NoBook
    BY <1>3, <1>7, <2>1, <2>2 DEF EndsDown
  <2> QED BY <1>3, <2>1, <2>3
<1> QED BY <1>2, <1>3, <1>5, <1>6, <1>7

\* Commands that take books down join the queue.
LEMMA EnqueueDowns ==
  ASSUME NEW q \in Seq(Commands), NEW t \in Seq(Commands),
         \A i \in DOMAIN t : t[i].book = NoBook,
         NEW m, EndsDown(q, m) \/ QueuedIn(t, m), NEW longer, longer = q \o t
  PROVE  /\ longer \in Seq(Commands) /\ EndsDown(longer, m)
         /\ QueuedIn(longer, m) <=> QueuedIn(q, m) \/ QueuedIn(t, m)
<1>1. PICK n \in Nat, k \in Nat : n = Len(q) /\ k = Len(t)
  OBVIOUS
<1>2. /\ longer \in Seq(Commands) /\ DOMAIN q = 1..n /\ DOMAIN t = 1..k
      /\ DOMAIN longer = 1..(n + k)
      /\ \A i \in 1..(n + k) : longer[i] = IF i <= n THEN q[i] ELSE t[i - n]
  BY <1>1
<1>3. \A i \in 1..(n + k) : \/ i \in 1..n /\ longer[i] = q[i]
                            \/ i - n \in 1..k /\ longer[i] = t[i - n]
  BY <1>2
<1>4. \A i \in 1..n : i \in 1..(n + k) /\ longer[i] = q[i]
  BY <1>2
<1>5. \A i \in 1..k : n + i \in 1..(n + k) /\ longer[n + i] = t[i]
  <2> TAKE i \in 1..k
  <2>1. n + i \in 1..(n + k) /\ ~(n + i <= n) /\ (n + i) - n = i
    OBVIOUS
  <2> QED BY <1>2, <2>1
<1>6. EndsDown(longer, m)
  <2> SUFFICES ASSUME NEW i \in 1..(n + k), longer[i].market = m,
                      \A x \in 1..(n + k) : x > i => longer[x].market # m
               PROVE  longer[i].book = NoBook
    BY <1>2 DEF EndsDown
  <2>1. CASE i - n \in 1..k /\ longer[i] = t[i - n]
    BY <1>2, <2>1
  <2>2. CASE i \in 1..n /\ longer[i] = q[i]
    <3>1. ~QueuedIn(t, m)
      <4> SUFFICES ASSUME NEW x \in 1..k, t[x].market = m PROVE FALSE
        BY <1>2 DEF QueuedIn
      <4>1. PICK y : y = n + x /\ y \in 1..(n + k) /\ longer[y] = t[x]
        BY <1>5
      <4>2. y > i
        BY <2>2, <4>1
      <4> QED BY <4>1, <4>2
    <3>2. \A x \in 1..n : x > i => q[x].market # m
      BY <1>4
    <3> QED BY <1>2, <2>2, <3>1, <3>2 DEF EndsDown
  <2> QED BY <1>3, <2>1, <2>2
<1>7. QueuedIn(longer, m) <=> QueuedIn(q, m) \/ QueuedIn(t, m)
  <2>1. QueuedIn(q, m) => QueuedIn(longer, m)
    BY <1>2, <1>4 DEF QueuedIn
  <2>2. QueuedIn(t, m) => QueuedIn(longer, m)
    BY <1>2, <1>5 DEF QueuedIn
  <2>3. QueuedIn(longer, m) => QueuedIn(q, m) \/ QueuedIn(t, m)
    BY <1>2, <1>3 DEF QueuedIn
  <2> QED BY <2>1, <2>2, <2>3
<1> QED BY <1>2, <1>6, <1>7

\* A finite set laid out as a sequence: exactly its elements.
LEMMA SetToSeqElements ==
  ASSUME NEW S, IsFiniteSet(S), NEW s, s = SetToSeq(S)
  PROVE  s \in Seq(S) /\ \A x \in S : \E i \in DOMAIN s : s[i] = x
<1>1. PICK n \in Nat : n = Cardinality(S) /\ ExistsBijection(1..n, S)
  BY FS_CardinalityType
<1>2. \E f \in [1..n -> S] : IsInjective(f)
  BY <1>1 DEF ExistsBijection, Bijection, Injection, IsInjective
<1>3. s \in [1..n -> S] /\ IsInjective(s)
  BY <1>1, <1>2 DEF SetToSeq
<1>4. s \in Injection(1..n, S)
  BY <1>3 DEF Injection, IsInjective
<1>5. Cardinality(1..n) = n
  BY FS_Interval
<1>6. s \in Surjection(1..n, S)
  BY <1>1, <1>4, <1>5, FS_Injection
<1>7. s \in Seq(S)
  BY <1>3
<1> QED BY <1>3, <1>6, <1>7 DEF Surjection

Uncrossed(quotes) ==
  \A b, a \in quotes : b.side = "buy" /\ a.side = "sell" => b.price < a.price

IsQuote(o) == o = [side |-> o.side, price |-> o.price, qty |-> o.qty]

\* What a mirrored book shows: no bid is left at or above an ask.
LEMMA QuotesUncrossed ==
  ASSUME NEW book
  PROVE  Uncrossed(Quotes(book)) /\ \A o \in Quotes(book) : IsQuote(o)
<1>1. \A levels, side : \A o \in Desire(levels, side) : IsQuote(o) /\ o.side = side
  <2> SUFFICES ASSUME NEW levels, NEW side, NEW o \in Desire(levels, side)
               PROVE  IsQuote(o) /\ o.side = side
    OBVIOUS
  <2>1. \E p, qty : o = [side |-> side, price |-> p, qty |-> qty]
    BY DEF Desire
  <2> QED BY <2>1 DEF IsQuote
<1>2. PICK asks, bids : asks = Desire(book.asks, "sell") /\ bids = Desire(book.bids, "buy")
  OBVIOUS
<1>3. Quotes(book) = asks \cup {b \in bids : \A a \in asks : b.price < a.price}
  BY <1>2 DEF Quotes
<1>4. \A a \in asks : IsQuote(a) /\ a.side = "sell"
  BY <1>1, <1>2
<1>5. \A b \in bids : IsQuote(b) /\ b.side = "buy"
  BY <1>1, <1>2
<1>6. Uncrossed(Quotes(book))
  BY <1>3, <1>4, <1>5 DEF Uncrossed
<1> QED BY <1>3, <1>4, <1>5, <1>6

Snapshots == [age : Nat, pending : VenueBooks \cup {NoBook}, timer : BOOLEAN]

MirrorTypes ==
  /\ snapshot \in [Mirrorable -> Snapshots]
  /\ mirrorQueue \in Seq(Commands)
  /\ DOMAIN house = Mirrorable /\ \E f : house = [m \in Mirrorable |-> f[m]]
  /\ watched \subseteq Mirrorable /\ mirrored \subseteq Mirrorable
  /\ staleFlag \subseteq Mirrorable

\* A market shown as stale: nothing waits that could put a quote up.
StaleStaysDown(m) ==
  m \in staleFlag =>
    /\ snapshot[m].pending = NoBook
    /\ EndsDown(mirrorQueue, m)
    /\ ~QueuedIn(mirrorQueue, m) => house[m] = {}

QuotesSound(m) == Uncrossed(house[m]) /\ \A o \in house[m] : IsQuote(o)

MirrorInv ==
  /\ MirrorTypes
  /\ \A m \in Mirrorable : StaleStaysDown(m) /\ QuotesSound(m)

\* A flush queues what was pending; for a market shown as stale that is nothing.
LEMMA FlushSound ==
  ASSUME NEW s \in [Mirrorable -> Snapshots], NEW q \in Seq(Commands), NEW m \in Mirrorable,
         Flush(s, q, m)
  PROVE  /\ snapshot' \in [Mirrorable -> Snapshots] /\ mirrorQueue' \in Seq(Commands)
         /\ \A x \in Mirrorable \ {m} : snapshot'[x] = s[x]
         /\ snapshot'[m].pending = NoBook
         /\ s[m].pending = NoBook => mirrorQueue' = q
         /\ \A x \in Mirrorable \ {m} :
              EndsDown(q, x) => /\ EndsDown(mirrorQueue', x)
                                /\ QueuedIn(mirrorQueue', x) <=> QueuedIn(q, x)
<1>1. PICK old \in Snapshots : old = s[m]
  OBVIOUS
<1>2. [old EXCEPT !.pending = NoBook] \in Snapshots
  BY DEF Snapshots
<1>3. snapshot' = [s EXCEPT ![m] = [old EXCEPT !.pending = NoBook]]
  BY <1>1 DEF Flush
<1>4. /\ snapshot' \in [Mirrorable -> Snapshots]
      /\ \A x \in Mirrorable \ {m} : snapshot'[x] = s[x]
      /\ snapshot'[m] = [old EXCEPT !.pending = NoBook]
  BY <1>2, <1>3
<1>5. snapshot'[m].pending = NoBook
  BY <1>4 DEF Snapshots
<1>6. CASE old.pending = NoBook
  <2>1. mirrorQueue' = q
    BY <1>1, <1>6 DEF Flush
  <2> QED BY <1>1, <1>4, <1>5, <1>6, <2>1
<1>7. CASE old.pending # NoBook
  <2>1. PICK c : c = [market |-> m, book |-> old.pending]
    OBVIOUS
  <2>2. c \in Commands /\ c.market = m
    BY <2>1 DEF Commands, Snapshots
  <2>3. mirrorQueue' = Append(q, c)
    BY <1>1, <1>7, <2>1 DEF Flush, Enqueue
  <2>4. mirrorQueue' \in Seq(Commands)
    BY <2>2, <2>3
  <2>5. \A x \in Mirrorable \ {m} :
          EndsDown(q, x) => /\ EndsDown(mirrorQueue', x)
                            /\ QueuedIn(mirrorQueue', x) <=> QueuedIn(q, x)
    BY <2>2, <2>3, EnqueueOther
  <2> QED BY <1>1, <1>4, <1>5, <1>7, <2>4, <2>5
<1> QED BY <1>6, <1>7

\* The market a command is for, and the others, which it leaves alone.
LEMMA MirrorCommandSound ==
  ASSUME MirrorInv, MirrorCommand
  PROVE  MirrorInv'
<1>1. PICK q, shorter, c :
        /\ q = mirrorQueue /\ q \in Seq(Commands) /\ q # <<>>
        /\ c = Head(q) /\ shorter = Tail(q)
  BY DEF MirrorInv, MirrorTypes, MirrorCommand
<1>2. /\ mirrorQueue' = shorter /\ snapshot' = snapshot /\ staleFlag' = staleFlag
      /\ watched' = watched /\ mirrored' = mirrored
      /\ house' = [house EXCEPT ![c.market] =
                     IF c.book = NoBook THEN {} ELSE Quotes(c.book)]
  BY <1>1 DEF MirrorCommand
<1>3. c \in Commands /\ shorter \in Seq(Commands) /\ c.market \in Mirrorable
  <2>1. c \in Commands /\ shorter \in Seq(Commands)
    BY <1>1, HeadTailProperties
  <2> QED BY <2>1 DEF Commands
<1>4. DOMAIN house = Mirrorable /\ \E f : house = [m \in Mirrorable |-> f[m]]
  BY DEF MirrorInv, MirrorTypes
<1>5. /\ house' = [m \in Mirrorable |-> house'[m]]
      /\ house'[c.market] = IF c.book = NoBook THEN {} ELSE Quotes(c.book)
      /\ \A m \in Mirrorable \ {c.market} : house'[m] = house[m]
  BY <1>2, <1>3, <1>4
<1>6. MirrorTypes'
  <2>1. \E f : house' = [m \in Mirrorable |-> f[m]]
    BY <1>5
  <2>2. DOMAIN house' = Mirrorable
    BY <1>2, <1>4
  <2> QED BY <1>2, <1>3, <2>1, <2>2
          DEF MirrorInv, MirrorTypes, Commands, Snapshots, NoBook
<1>7. ASSUME NEW m \in Mirrorable PROVE StaleStaysDown(m)'
  <2> SUFFICES ASSUME m \in staleFlag
               PROVE  /\ snapshot[m].pending = NoBook
                      /\ EndsDown(shorter, m)
                      /\ ~QueuedIn(shorter, m) => house'[m] = {}
    BY <1>2 DEF StaleStaysDown, EndsDown, QueuedIn, NoBook
  <2>1. /\ snapshot[m].pending = NoBook /\ EndsDown(q, m)
        /\ ~QueuedIn(q, m) => house[m] = {}
    BY <1>1 DEF MirrorInv, StaleStaysDown
  <2>2. /\ EndsDown(shorter, m)
        /\ c.market # m => (QueuedIn(shorter, m) <=> QueuedIn(q, m))
        /\ c.market = m /\ ~QueuedIn(shorter, m) => c.book = NoBook
    BY <1>1, <2>1, Dequeue
  <2>3. ~QueuedIn(shorter, m) => house'[m] = {}
    BY <1>5, <2>1, <2>2
  <2> QED BY <2>1, <2>2, <2>3
<1>8. ASSUME NEW m \in Mirrorable PROVE QuotesSound(m)'
  <2> SUFFICES Uncrossed(house'[m]) /\ \A o \in house'[m] : IsQuote(o)
    BY DEF QuotesSound, Uncrossed, IsQuote
  <2>1. Uncrossed({}) /\ \A o \in {} : IsQuote(o)
    BY DEF Uncrossed
  <2>2. Uncrossed(house[m]) /\ \A o \in house[m] : IsQuote(o)
    BY DEF MirrorInv, QuotesSound
  <2>3. house'[m] = {} \/ house'[m] = house[m] \/ house'[m] = Quotes(c.book)
    BY <1>5
  <2> QED BY <2>1, <2>2, <2>3, QuotesUncrossed
<1> QED BY <1>6, <1>7, <1>8 DEF MirrorInv

\* A user takes some of a quote, all of it, or none the house would miss.
LEMMA UserFillsSound ==
  ASSUME MirrorInv, NEW m \in Mirrorable, NEW o \in house[m], UserFills(m, o)
  PROVE  MirrorInv'
<1>1. /\ DOMAIN house = Mirrorable /\ \E f : house = [x \in Mirrorable |-> f[x]]
      /\ MirrorTypes
  BY DEF MirrorInv, MirrorTypes
<1>2. PICK remnant : /\ house' = [house EXCEPT ![m] = (@ \ {o}) \cup remnant]
                  /\ \/ remnant = {}
                     \/ \E left : remnant = {[o EXCEPT !.qty = left]}
  <2>1. PICK left : house' = [house EXCEPT ![m] =
          (@ \ {o}) \cup (IF left = 0 THEN {} ELSE {[o EXCEPT !.qty = left]})]
    BY DEF UserFills
  <2>2. PICK remnant : remnant = IF left = 0 THEN {} ELSE {[o EXCEPT !.qty = left]}
    OBVIOUS
  <2> QED BY <2>1, <2>2
<1>3. UNCHANGED <<snapshot, staleFlag, mirrorQueue, watched, mirrored>>
  BY DEF UserFills
<1>4. /\ house' = [x \in Mirrorable |-> house'[x]]
      /\ house'[m] = (house[m] \ {o}) \cup remnant
      /\ \A x \in Mirrorable \ {m} : house'[x] = house[x]
  BY <1>1, <1>2
<1>5. MirrorTypes'
  <2>1. \E f : house' = [x \in Mirrorable |-> f[x]]
    BY <1>4
  <2>2. DOMAIN house' = Mirrorable
    BY <1>1, <1>2
  <2> QED BY <1>1, <1>3, <2>1, <2>2 DEF MirrorTypes, Commands, Snapshots, NoBook
<1>6. ASSUME NEW x \in Mirrorable PROVE StaleStaysDown(x)'
  <2> SUFFICES ASSUME x \in staleFlag
               PROVE  /\ snapshot[x].pending = NoBook
                      /\ EndsDown(mirrorQueue, x)
                      /\ ~QueuedIn(mirrorQueue, x) => house'[x] = {}
    BY <1>3 DEF StaleStaysDown, EndsDown, QueuedIn, NoBook
  <2>1. /\ snapshot[x].pending = NoBook
        /\ EndsDown(mirrorQueue, x)
        /\ ~QueuedIn(mirrorQueue, x) => house[x] = {}
    BY DEF MirrorInv, StaleStaysDown
  <2> QED BY <1>4, <2>1
<1>7. ASSUME NEW x \in Mirrorable PROVE QuotesSound(x)'
  <2>1. Uncrossed(house[x]) /\ \A y \in house[x] : IsQuote(y)
    BY DEF MirrorInv, QuotesSound
  <2>2. CASE x # m
    <3>1. house'[x] = house[x]
      BY <1>4, <2>2
    <3> QED BY <2>1, <3>1 DEF QuotesSound, Uncrossed, IsQuote
  <2>3. CASE x = m
    <3>1. \A y \in remnant : IsQuote(y) /\ y.side = o.side /\ y.price = o.price
      <4>1. o = [side |-> o.side, price |-> o.price, qty |-> o.qty]
        BY <2>1, <2>3 DEF IsQuote
      <4>2. \A left : [o EXCEPT !.qty = left]
                        = [side |-> o.side, price |-> o.price, qty |-> left]
        BY <4>1
      <4> QED BY <1>2, <4>2 DEF IsQuote
    <3>2. \A y \in house'[x] : /\ IsQuote(y)
                               /\ \E z \in house[x] : y.side = z.side /\ y.price = z.price
      BY <1>4, <2>1, <2>3, <3>1
    <3>3. Uncrossed(house'[x])
      BY <2>1, <3>2 DEF Uncrossed
    <3> QED BY <3>2, <3>3 DEF QuotesSound, Uncrossed, IsQuote
  <2> QED BY <2>2, <2>3
<1> QED BY <1>5, <1>6, <1>7 DEF MirrorInv

\* Pending snapshots forgotten at most: clocks, timers, clients and the connection.
LEMMA WaitingSound ==
  ASSUME MirrorInv, snapshot' \in [Mirrorable -> Snapshots],
         \A m \in Mirrorable : snapshot'[m].pending \in {NoBook, snapshot[m].pending},
         watched' \subseteq Mirrorable, mirrored' \subseteq Mirrorable,
         UNCHANGED <<staleFlag, mirrorQueue, house>>
  PROVE  MirrorInv'
<1>1. MirrorTypes'
  BY DEF MirrorInv, MirrorTypes, Commands, Snapshots, NoBook
<1>2. ASSUME NEW m \in Mirrorable PROVE StaleStaysDown(m)' /\ QuotesSound(m)'
  <2>1. StaleStaysDown(m) /\ QuotesSound(m)
    BY DEF MirrorInv
  <2>2. StaleStaysDown(m)'
    BY <2>1 DEF StaleStaysDown, EndsDown, QueuedIn, NoBook
  <2> QED BY <2>1, <2>2 DEF QuotesSound, Uncrossed, IsQuote
<1> QED BY <1>1, <1>2 DEF MirrorInv

\* One market's snapshot goes to the queue or waits; the other markets do not change.
LEMMA FlushedSound ==
  ASSUME MirrorInv, NEW m \in Mirrorable,
         snapshot' \in [Mirrorable -> Snapshots], mirrorQueue' \in Seq(Commands),
         \A x \in Mirrorable \ {m} : snapshot'[x] = snapshot[x],
         \A x \in Mirrorable \ {m} :
           EndsDown(mirrorQueue, x) => /\ EndsDown(mirrorQueue', x)
                                       /\ QueuedIn(mirrorQueue', x) <=> QueuedIn(mirrorQueue, x),
         UNCHANGED <<watched, mirrored, house>>,
         \/ staleFlag' = staleFlag \ {m}
         \/ /\ staleFlag' = staleFlag
            /\ m \in staleFlag => snapshot'[m].pending = NoBook /\ mirrorQueue' = mirrorQueue
  PROVE  MirrorInv'
<1>1. MirrorTypes'
  BY DEF MirrorInv, MirrorTypes, Commands, Snapshots, NoBook
<1>2. ASSUME NEW x \in Mirrorable PROVE StaleStaysDown(x)'
  <2> SUFFICES ASSUME x \in staleFlag'
               PROVE  /\ snapshot'[x].pending = NoBook
                      /\ EndsDown(mirrorQueue', x)
                      /\ ~QueuedIn(mirrorQueue', x) => house[x] = {}
    BY DEF StaleStaysDown, EndsDown, QueuedIn, NoBook
  <2>1. x \in staleFlag
    OBVIOUS
  <2>2. /\ snapshot[x].pending = NoBook
        /\ EndsDown(mirrorQueue, x)
        /\ ~QueuedIn(mirrorQueue, x) => house[x] = {}
    BY <2>1 DEF MirrorInv, StaleStaysDown
  <2>3. CASE x # m
    BY <2>2, <2>3
  <2>4. CASE x = m
    <3>1. snapshot'[m].pending = NoBook /\ mirrorQueue' = mirrorQueue
      BY <2>1, <2>4
    <3> QED BY <2>2, <2>4, <3>1
  <2> QED BY <2>3, <2>4
<1>3. ASSUME NEW x \in Mirrorable PROVE QuotesSound(x)'
  <2>1. QuotesSound(x)
    BY DEF MirrorInv
  <2> QED BY <2>1 DEF QuotesSound, Uncrossed, IsQuote
<1> QED BY <1>1, <1>2, <1>3 DEF MirrorInv

LEMMA OnSnapshotSound ==
  ASSUME MirrorInv, NEW m \in Mirrorable, NEW book \in VenueBooks, OnSnapshot(m, book)
  PROVE  MirrorInv'
<1>1. snapshot \in [Mirrorable -> Snapshots] /\ mirrorQueue \in Seq(Commands)
  BY DEF MirrorInv, MirrorTypes
<1>2. PICK s : s = [snapshot EXCEPT ![m].age = 0, ![m].pending = book]
  OBVIOUS
<1>3. /\ s \in [Mirrorable -> Snapshots]
      /\ \A x \in Mirrorable \ {m} : s[x] = snapshot[x]
  <2>1. PICK old \in Snapshots : old = snapshot[m]
    BY <1>1
  <2>2. PICK new : new = [age |-> 0, pending |-> book, timer |-> old.timer]
    OBVIOUS
  <2>3. new \in Snapshots
    BY <2>1, <2>2 DEF Snapshots
  <2>4. new = [[old EXCEPT !.age = 0] EXCEPT !.pending = book]
    <3>1. PICK young : young = [old EXCEPT !.age = 0]
      OBVIOUS
    <3>2. young = [age |-> 0, pending |-> old.pending, timer |-> old.timer]
      BY ONLY <2>1, <3>1 DEF Snapshots
    <3>3. new = [young EXCEPT !.pending = book]
      BY ONLY <2>2, <3>2
    <3> QED BY ONLY <3>1, <3>3
  <2>5. s = [snapshot EXCEPT ![m] = new]
    BY <1>1, <1>2, <2>1, <2>4
  <2> QED BY <1>1, <2>3, <2>5
<1>4. staleFlag' = staleFlag \ {m} /\ UNCHANGED <<watched, mirrored, house>>
  BY DEF OnSnapshot
<1>5. CASE Flush(s, mirrorQueue, m)
  <2>1. /\ snapshot' \in [Mirrorable -> Snapshots] /\ mirrorQueue' \in Seq(Commands)
        /\ \A x \in Mirrorable \ {m} : snapshot'[x] = s[x]
        /\ \A x \in Mirrorable \ {m} :
             EndsDown(mirrorQueue, x) =>
               /\ EndsDown(mirrorQueue', x)
               /\ QueuedIn(mirrorQueue', x) <=> QueuedIn(mirrorQueue, x)
    BY <1>1, <1>3, <1>5, FlushSound
  <2>2. \A x \in Mirrorable \ {m} : snapshot'[x] = snapshot[x]
    BY <1>3, <2>1
  <2> QED BY <1>4, <2>1, <2>2, FlushedSound
<1>6. CASE snapshot' = [s EXCEPT ![m].timer = TRUE] /\ UNCHANGED mirrorQueue
  <2>1. snapshot' \in [Mirrorable -> Snapshots]
    BY <1>3, <1>6 DEF Snapshots
  <2>2. \A x \in Mirrorable \ {m} : snapshot'[x] = snapshot[x]
    BY <1>3, <1>6
  <2>3. /\ mirrorQueue' \in Seq(Commands)
        /\ \A x \in Mirrorable \ {m} :
             EndsDown(mirrorQueue, x) =>
               /\ EndsDown(mirrorQueue', x)
               /\ QueuedIn(mirrorQueue', x) <=> QueuedIn(mirrorQueue, x)
    BY <1>1, <1>6
  <2> QED BY <1>4, <2>1, <2>2, <2>3, FlushedSound
<1> QED BY <1>2, <1>5, <1>6 DEF OnSnapshot

\* The timer of a market shown as stale finds nothing to flush.
LEMMA ThrottleSound ==
  ASSUME MirrorInv, NEW m \in Mirrorable, ThrottleFires(m)
  PROVE  MirrorInv'
<1>1. snapshot \in [Mirrorable -> Snapshots] /\ mirrorQueue \in Seq(Commands)
  BY DEF MirrorInv, MirrorTypes
<1>2. PICK s : s = [snapshot EXCEPT ![m].timer = FALSE]
  OBVIOUS
<1>3. /\ s \in [Mirrorable -> Snapshots]
      /\ \A x \in Mirrorable \ {m} : s[x] = snapshot[x]
      /\ s[m].pending = snapshot[m].pending
  BY <1>1, <1>2 DEF Snapshots
<1>4. Flush(s, mirrorQueue, m) /\ UNCHANGED <<watched, mirrored, staleFlag, house>>
  BY <1>2 DEF ThrottleFires
<1>5. /\ snapshot' \in [Mirrorable -> Snapshots] /\ mirrorQueue' \in Seq(Commands)
      /\ \A x \in Mirrorable \ {m} : snapshot'[x] = s[x]
      /\ snapshot'[m].pending = NoBook
      /\ s[m].pending = NoBook => mirrorQueue' = mirrorQueue
      /\ \A x \in Mirrorable \ {m} :
           EndsDown(mirrorQueue, x) =>
             /\ EndsDown(mirrorQueue', x)
             /\ QueuedIn(mirrorQueue', x) <=> QueuedIn(mirrorQueue, x)
  BY <1>1, <1>3, <1>4, FlushSound
<1>6. m \in staleFlag => mirrorQueue' = mirrorQueue
  BY <1>3, <1>5 DEF MirrorInv, StaleStaysDown
<1>7. \A x \in Mirrorable \ {m} : snapshot'[x] = snapshot[x]
  BY <1>3, <1>5
<1> QED BY <1>4, <1>5, <1>6, <1>7, FlushedSound

\* The refresh: a market that falls silent gets a last command that takes it down,
\* and what it had pending is forgotten.
LEMMA RefreshSound ==
  ASSUME MirrorInv, Refresh
  PROVE  MirrorInv'
<1> DEFINE next == AlwaysOn \cup watched
           gone == mirrored \ next
           seeded(m) == IF m \in next \ mirrored /\ snapshot[m].age = NoClock THEN 0
                        ELSE snapshot[m].age
           silent == {m \in next \ staleFlag : seeded(m) = Silent}
           ages == [m \in Mirrorable |-> seeded(m)]
<1>1. /\ next = AlwaysOn \cup watched
      /\ gone = mirrored \ next
      /\ silent \subseteq next
      /\ \A m \in Mirrorable : ages[m] = snapshot[m].age \/ ages[m] = 0
      /\ snapshot' = [m \in Mirrorable |->
           IF m \in gone THEN [Drop(snapshot[m]) EXCEPT !.age = NoClock]
           ELSE IF m \in silent THEN Drop(snapshot[m])
           ELSE [snapshot[m] EXCEPT !.age = ages[m]]]
      /\ staleFlag' = (staleFlag \ gone) \cup silent
      /\ mirrorQueue' = mirrorQueue \o
           SetToSeq({[market |-> m, book |-> NoBook] : m \in gone \cup silent})
      /\ mirrored' = next
  <2>1. /\ snapshot' = [m \in Mirrorable |->
             IF m \in gone THEN [Drop(snapshot[m]) EXCEPT !.age = NoClock]
             ELSE IF m \in silent THEN Drop(snapshot[m])
             ELSE [snapshot[m] EXCEPT !.age = seeded(m)]]
        /\ staleFlag' = (staleFlag \ gone) \cup silent
        /\ mirrorQueue' = mirrorQueue \o
             SetToSeq({[market |-> m, book |-> NoBook] : m \in gone \cup silent})
        /\ mirrored' = next
    BY DEF Refresh
  <2>2. \A m \in Mirrorable :
          ages[m] = seeded(m) /\ (ages[m] = snapshot[m].age \/ ages[m] = 0)
    OBVIOUS
  <2>3. snapshot' = [m \in Mirrorable |->
             IF m \in gone THEN [Drop(snapshot[m]) EXCEPT !.age = NoClock]
             ELSE IF m \in silent THEN Drop(snapshot[m])
             ELSE [snapshot[m] EXCEPT !.age = ages[m]]]
    BY <2>1, <2>2
  <2> QED BY <2>1, <2>2, <2>3
<1> HIDE DEF next, gone, seeded, silent, ages
<1>2. /\ snapshot \in [Mirrorable -> Snapshots] /\ mirrorQueue \in Seq(Commands)
      /\ DOMAIN house = Mirrorable /\ \E f : house = [m \in Mirrorable |-> f[m]]
      /\ watched \subseteq Mirrorable /\ mirrored \subseteq Mirrorable
      /\ staleFlag \subseteq Mirrorable
  BY DEF MirrorInv, MirrorTypes
<1>3. AlwaysOn \subseteq Mirrorable /\ IsFiniteSet(Mirrorable) /\ NoClock \in Nat
  BY MirrorAssumption DEF NoClock
<1>4. next \subseteq Mirrorable /\ gone \subseteq Mirrorable /\ silent \subseteq Mirrorable
  BY <1>1, <1>2, <1>3
<1>5. house' = house /\ watched' = watched
  BY DEF Refresh
<1>6. \A m \in Mirrorable :
        /\ snapshot'[m] \in Snapshots
        /\ snapshot'[m].pending = snapshot[m].pending \/ snapshot'[m].pending = NoBook
        /\ m \in silent => snapshot'[m].pending = NoBook
  <2> TAKE m \in Mirrorable
  <2>1. PICK old \in Snapshots : old = snapshot[m]
    BY <1>2
  <2>2. Drop(old) = [age |-> old.age, pending |-> NoBook, timer |-> old.timer]
    BY DEF Drop, Snapshots
  <2>3. CASE m \in gone
    <3>1. PICK dropped : dropped = Drop(old)
      OBVIOUS
    <3>2. snapshot'[m] = [dropped EXCEPT !.age = NoClock]
      BY <1>1, <2>1, <2>3, <3>1
    <3>3. snapshot'[m] = [age |-> NoClock, pending |-> NoBook, timer |-> old.timer]
      BY ONLY <2>2, <3>1, <3>2
    <3> QED BY <1>3, <2>1, <3>3 DEF Snapshots
  <2>4. CASE m \notin gone /\ m \in silent
    <3>1. snapshot'[m] = Drop(old)
      BY <1>1, <2>1, <2>4
    <3> QED BY <2>1, <2>2, <3>1 DEF Snapshots
  <2>5. CASE m \notin gone /\ m \notin silent
    <3>1. PICK age \in Nat : age = ages[m]
      BY <1>1, <2>1 DEF Snapshots
    <3>2. snapshot'[m] = [old EXCEPT !.age = age]
      BY <1>1, <2>1, <2>5, <3>1
    <3>3. snapshot'[m] = [age |-> age, pending |-> old.pending, timer |-> old.timer]
      BY ONLY <2>1, <3>2 DEF Snapshots
    <3> QED BY <2>1, <2>5, <3>3 DEF Snapshots
  <2>6. m \in silent => m \notin gone
    BY <1>1
  <2> QED BY <2>3, <2>4, <2>5, <2>6
<1>7. PICK S, t : /\ S = {[market |-> m, book |-> NoBook] : m \in gone \cup silent}
                  /\ t = SetToSeq(S) /\ mirrorQueue' = mirrorQueue \o t
  BY <1>1
<1>8. /\ t \in Seq(Commands) /\ \A i \in DOMAIN t : t[i].book = NoBook
      /\ \A m \in Mirrorable : QueuedIn(t, m) <=> m \in gone \cup silent
  <2>1. IsFiniteSet(S)
    <3>1. PICK f : f = [m \in gone \cup silent |-> [market |-> m, book |-> NoBook]]
      OBVIOUS
    <3>2. f \in Surjection(gone \cup silent, S)
      BY <1>7, <3>1 DEF Surjection
    <3>3. IsFiniteSet(gone \cup silent)
      BY <1>3, <1>4, FS_Subset
    <3> QED BY <3>2, <3>3, FS_Surjection
  <2>2. t \in Seq(S) /\ \A x \in S : \E i \in DOMAIN t : t[i] = x
    <3>1. t = SetToSeq(S)
      BY <1>7
    <3> QED BY ONLY <2>1, <3>1, SetToSeqElements
  <2>3. \A i \in DOMAIN t : t[i] \in S
    BY <2>2
  <2>4. S \subseteq Commands /\ \A x \in S : x.book = NoBook /\ x.market \in gone \cup silent
    BY <1>4, <1>7 DEF Commands
  <2>5. ASSUME NEW m \in Mirrorable PROVE QueuedIn(t, m) <=> m \in gone \cup silent
    <3>1. m \in gone \cup silent => \E x \in S : x.market = m
      <4>1. [market |-> m, book |-> NoBook].market = m
        OBVIOUS
      <4>2. m \in gone \cup silent => [market |-> m, book |-> NoBook] \in S
        BY <1>7
      <4> QED BY ONLY <4>1, <4>2
    <3> QED BY <2>2, <2>3, <2>4, <3>1 DEF QueuedIn
  <2> QED BY <2>2, <2>3, <2>4, <2>5
<1>9. \A m \in Mirrorable :
        EndsDown(mirrorQueue, m) \/ QueuedIn(t, m) =>
          /\ mirrorQueue' \in Seq(Commands) /\ EndsDown(mirrorQueue', m)
          /\ QueuedIn(mirrorQueue', m) <=> QueuedIn(mirrorQueue, m) \/ QueuedIn(t, m)
  BY <1>2, <1>7, <1>8, EnqueueDowns, ZenonT(30)
<1>10. mirrorQueue' \in Seq(Commands)
  BY <1>2, <1>7, <1>8
<1>11. MirrorTypes'
  <2>1. snapshot' \in [Mirrorable -> Snapshots]
    BY <1>1, <1>6
  <2>2. staleFlag' \subseteq Mirrorable /\ mirrored' \subseteq Mirrorable
    BY <1>1, <1>2, <1>4
  <2> QED BY <1>2, <1>5, <1>10, <2>1, <2>2 DEF MirrorTypes, Commands, Snapshots, NoBook
<1>12. ASSUME NEW m \in Mirrorable PROVE StaleStaysDown(m)'
  <2> SUFFICES ASSUME m \in staleFlag'
               PROVE  /\ snapshot'[m].pending = NoBook
                      /\ EndsDown(mirrorQueue', m)
                      /\ ~QueuedIn(mirrorQueue', m) => house[m] = {}
    BY <1>5 DEF StaleStaysDown, EndsDown, QueuedIn, NoBook
  <2>1. CASE m \in silent
    BY <1>6, <1>8, <1>9, <2>1
  <2>2. CASE m \notin silent
    <3>1. m \in staleFlag
      BY <1>1, <2>2
    <3>2. /\ snapshot[m].pending = NoBook
          /\ EndsDown(mirrorQueue, m)
          /\ ~QueuedIn(mirrorQueue, m) => house[m] = {}
      BY <3>1 DEF MirrorInv, StaleStaysDown
    <3> QED BY <1>6, <1>9, <3>2
  <2> QED BY <2>1, <2>2
<1>13. ASSUME NEW m \in Mirrorable PROVE QuotesSound(m)'
  <2>1. QuotesSound(m)
    BY DEF MirrorInv
  <2> QED BY <1>5, <2>1 DEF QuotesSound, Uncrossed, IsQuote
<1> QED BY <1>11, <1>12, <1>13 DEF MirrorInv

LEMMA NoSnapshotType ==
  NoSnapshot \in Snapshots /\ [NoSnapshot EXCEPT !.age = 0] \in Snapshots
<1>0. NoClock \in Nat
  BY MirrorAssumption DEF NoClock
<1>1. PICK n \in Nat, b \in BOOLEAN : n = NoClock /\ b = FALSE
  BY <1>0
<1>2. NoSnapshot = [age |-> n, pending |-> NoBook, timer |-> b]
  BY <1>1 DEF NoSnapshot
<1>3. [NoSnapshot EXCEPT !.age = 0] = [age |-> 0, pending |-> NoBook, timer |-> b]
  BY <1>2
<1> QED BY <1>2, <1>3 DEF Snapshots

LEMMA MirrorRestartSound ==
  ASSUME MirrorInv, MirrorRestart
  PROVE  MirrorInv'
<1>1. /\ watched' = {} /\ mirrored' = AlwaysOn /\ staleFlag' = {} /\ mirrorQueue' = <<>>
      /\ house' = house
      /\ snapshot' = [m \in Mirrorable |->
                        IF m \in AlwaysOn THEN [NoSnapshot EXCEPT !.age = 0] ELSE NoSnapshot]
  BY DEF MirrorRestart
<1>2. MirrorTypes'
  <2>1. snapshot' \in [Mirrorable -> Snapshots]
    BY <1>1, NoSnapshotType
  <2>2. AlwaysOn \subseteq Mirrorable /\ mirrorQueue' \in Seq(Commands)
    BY <1>1, MirrorAssumption
  <2> QED BY <1>1, <2>1, <2>2 DEF MirrorInv, MirrorTypes, Commands, Snapshots, NoBook
<1>3. ASSUME NEW m \in Mirrorable PROVE StaleStaysDown(m)' /\ QuotesSound(m)'
  <2>1. QuotesSound(m)
    BY DEF MirrorInv
  <2> QED BY <1>1, <2>1 DEF StaleStaysDown, QuotesSound, Uncrossed, IsQuote
<1> QED BY <1>2, <1>3 DEF MirrorInv

LEMMA MirrorInvInit == MirrorInit => MirrorInv
<1> SUFFICES ASSUME MirrorInit PROVE MirrorInv
  OBVIOUS
<1>1. /\ watched = {} /\ mirrored = AlwaysOn /\ staleFlag = {} /\ mirrorQueue = <<>>
      /\ house = [m \in Mirrorable |-> {}]
      /\ snapshot = [m \in Mirrorable |->
                       IF m \in AlwaysOn THEN [NoSnapshot EXCEPT !.age = 0] ELSE NoSnapshot]
  BY DEF MirrorInit
<1>2. MirrorTypes
  <2>1. snapshot \in [Mirrorable -> Snapshots]
    BY <1>1, NoSnapshotType
  <2>2. AlwaysOn \subseteq Mirrorable /\ mirrorQueue \in Seq(Commands)
    BY <1>1, MirrorAssumption
  <2>3. \E f : house = [m \in Mirrorable |-> f[m]]
    <3>1. house = [m \in Mirrorable |-> house[m]]
      BY <1>1
    <3> QED BY <3>1
  <2> QED BY <1>1, <2>1, <2>2, <2>3 DEF MirrorTypes
<1> QED BY <1>1, <1>2 DEF MirrorInv, StaleStaysDown, QuotesSound, Uncrossed

LEMMA MirrorInvNext == MirrorInv /\ [MirrorNext]_mirrorVars => MirrorInv'
<1> SUFFICES ASSUME MirrorInv, [MirrorNext]_mirrorVars PROVE MirrorInv'
  OBVIOUS
<1>1. /\ snapshot \in [Mirrorable -> Snapshots]
      /\ watched \subseteq Mirrorable /\ mirrored \subseteq Mirrorable
  BY DEF MirrorInv, MirrorTypes
<1>2. CASE UNCHANGED <<snapshot, mirrored, staleFlag, mirrorQueue, house>>
           /\ watched' \subseteq Mirrorable
  BY <1>1, <1>2, WaitingSound
<1>3. CASE MirrorLink \/ UNCHANGED mirrorVars
  BY <1>1, <1>2, <1>3 DEF MirrorLink, mirrorVars
<1>4. CASE \E m \in Mirrorable : Watch(m)
  BY <1>1, <1>2, <1>4 DEF Watch
<1>5. CASE MirrorElapse
  <2>1. \A m \in Mirrorable :
          /\ snapshot'[m] \in Snapshots /\ snapshot'[m].pending = snapshot[m].pending
    <3> TAKE m \in Mirrorable
    <3>1. PICK old \in Snapshots : old = snapshot[m]
      BY <1>1
    <3>2. PICK age \in Nat : age = IF old.age < Silent THEN old.age + 1 ELSE old.age
      BY DEF Snapshots
    <3>3. snapshot'[m] = [old EXCEPT !.age = age]
      BY <1>5, <3>1, <3>2 DEF MirrorElapse
    <3> QED BY ONLY <3>1, <3>2, <3>3 DEF Snapshots
  <2>2. snapshot' \in [Mirrorable -> Snapshots]
    BY <1>5, <2>1 DEF MirrorElapse
  <2> QED BY <1>1, <1>5, <2>1, <2>2, WaitingSound DEF MirrorElapse
<1>6. CASE StopMirror
  <2>1. \A m \in Mirrorable :
          /\ snapshot'[m] \in Snapshots /\ snapshot'[m].pending = snapshot[m].pending
    <3> TAKE m \in Mirrorable
    <3>1. PICK old \in Snapshots : old = snapshot[m]
      BY <1>1
    <3>2. snapshot'[m] = [old EXCEPT !.timer = FALSE]
      BY <1>6, <3>1 DEF StopMirror
    <3> QED BY <3>1, <3>2 DEF Snapshots
  <2>2. snapshot' \in [Mirrorable -> Snapshots]
    BY <1>6, <2>1 DEF StopMirror
  <2> QED BY <1>1, <1>6, <2>1, <2>2, WaitingSound DEF StopMirror
<1> QED BY <1>3, <1>4, <1>5, <1>6, MirrorCommandSound, UserFillsSound, OnSnapshotSound,
           ThrottleSound, RefreshSound, MirrorRestartSound DEF MirrorNext

LEMMA StaleBooks == MirrorInv => StaleMeansDown
BY DEF MirrorInv, StaleStaysDown, QuotesSound, Uncrossed, QueuedIn, QueuedFor, StaleMeansDown

\* Whatever waits for its timer or is queued when the feed of a market falls
\* silent (bookMirror.ts), no quote comes up while the hub shows it as stale, and
\* the house never quotes a crossed book.
THEOREM StaleBooksAreDown == MirrorSpec => []StaleMeansDown
BY StaleBooks, MirrorInvInit, MirrorInvNext, PTL DEF MirrorSpec

\* The connection's subscriptions and backoff, and the clocks of the snapshots.
SocketTypes ==
  /\ link \in Links /\ link.attempts <= BackoffCap
  /\ wanted \subseteq Coins /\ heard \subseteq Coins /\ wire \in Seq(Coins)

ClocksBounded == \A m \in Mirrorable : snapshot[m].age <= NoClock

LEMMA MirrorTypeIs ==
  ASSUME MirrorInv, SocketTypes, ClocksBounded
  PROVE  MirrorTypeOK
<1>1. link.attempts \in 0..BackoffCap
  BY SocketAssumption DEF SocketTypes, Links
<1>2. link.state \in {"none", "connecting", "open"}
  BY DEF SocketTypes, Links
<1>3. Range(wire) \subseteq Coins
  BY DEF SocketTypes, Range
<1>4. ASSUME NEW m \in Mirrorable
      PROVE  snapshot[m].age \in 0..NoClock /\ snapshot[m].pending \in VenueBooks \cup {NoBook}
  <2>1. snapshot[m] \in Snapshots /\ NoClock \in Nat
    BY MirrorAssumption DEF MirrorInv, MirrorTypes, NoClock
  <2> QED BY <2>1 DEF Snapshots, ClocksBounded
<1>5. watched \cup mirrored \cup staleFlag \subseteq Mirrorable
  BY DEF MirrorInv, MirrorTypes
<1>6. wanted \cup heard \subseteq Coins
  BY DEF SocketTypes
<1> QED BY <1>1, <1>2, <1>3, <1>4, <1>5, <1>6 DEF MirrorTypeOK

LEMMA SocketTypesNext ==
  ASSUME MirrorInv, SocketTypes, [MirrorNext]_mirrorVars
  PROVE  SocketTypes'
<1>1. PICK s \in {"none", "connecting", "open"}, n \in Nat, r, b, f \in BOOLEAN :
        link = [state |-> s, attempts |-> n, retry |-> r, stable |-> b, final |-> f]
        /\ n <= BackoffCap
  <2>1. link = [state |-> link.state, attempts |-> link.attempts, retry |-> link.retry,
                stable |-> link.stable, final |-> link.final]
    BY DEF SocketTypes, Links
  <2> QED BY <2>1 DEF SocketTypes, Links
<1>0. link \in Links /\ link.attempts <= BackoffCap
  BY DEF SocketTypes
<1>2. BackoffCap \in Nat /\ wire \in Seq(Coins) /\ <<>> \in Seq(Coins)
  BY SocketAssumption DEF SocketTypes
<1>3. AlwaysOn \subseteq Coins /\ Mirrorable = Coins /\ watched \subseteq Mirrorable
  BY MirrorAssumption DEF MirrorInv, MirrorTypes
<1>4. ASSUME NEW s2 \in {"none", "connecting", "open"}, NEW n2 \in Nat, n2 <= BackoffCap,
             NEW r2 \in BOOLEAN, NEW b2 \in BOOLEAN, NEW f2 \in BOOLEAN,
             link' = [state |-> s2, attempts |-> n2, retry |-> r2, stable |-> b2,
                      final |-> f2]
      PROVE  link' \in Links /\ link'.attempts <= BackoffCap
  BY <1>4 DEF Links
<1>5. \/ UNCHANGED wire \/ wire' = <<>>
      \/ wire # <<>> /\ wire' = Tail(wire)
      \/ \E c \in Coins : wire' = Append(wire, c)
  BY DEF MirrorNext, MirrorLink, SocketStep, SocketOpens, StableFires, SocketCloses,
         RetryFires, VenueSends, MirrorCommand, Refresh, SetCoins, MirrorElapse,
         StopMirror, CloseSocket, MirrorRestart, OnSnapshot, FrameArrives, ThrottleFires,
         Watch, UserFills, mirrorVars
<1>6. wire' \in Seq(Coins)
  <2>1. wire # <<>> => Tail(wire) \in Seq(Coins)
    BY <1>2
  <2>2. \A c \in Coins : Append(wire, c) \in Seq(Coins)
    BY <1>2
  <2> QED BY <1>2, <1>5, <2>1, <2>2
<1>7. wanted' \subseteq Coins /\ heard' \subseteq Coins
  <2>1. CASE Refresh
    <3>1. PICK next : next = AlwaysOn \cup watched
      OBVIOUS
    <3>2. wanted' = next /\ heard' = SubscribeDiff(next)
      BY <2>1, <3>1 DEF Refresh, SetCoins
    <3>3. next \subseteq Coins
      BY <1>3, <3>1
    <3>4. SubscribeDiff(next) \subseteq heard \cup next
      BY DEF SubscribeDiff
    <3> QED BY <3>2, <3>3, <3>4 DEF SocketTypes
  <2>2. CASE ~Refresh
    <3>1. wanted' \in {wanted, AlwaysOn} /\ heard' \in {heard, wanted, {}}
      BY <2>2 DEF MirrorNext, MirrorLink, SocketStep, SocketOpens, StableFires,
                  SocketCloses, RetryFires, VenueSends, MirrorCommand, MirrorElapse,
                  StopMirror, CloseSocket, MirrorRestart, OnSnapshot, FrameArrives,
                  ThrottleFires, Watch, UserFills, mirrorVars
    <3> QED BY <1>3, <3>1 DEF SocketTypes
  <2> QED BY <2>1, <2>2
<1>8. link' \in Links /\ link'.attempts <= BackoffCap
  <2>1. CASE UNCHANGED link
    BY <2>1 DEF SocketTypes
  <2>2. CASE SocketOpens
    <3>1. link' = [state |-> "open", attempts |-> n, retry |-> r, stable |-> TRUE,
                   final |-> f]
      BY <1>1, <2>2 DEF SocketOpens
    <3> QED BY <1>1, <1>4, <3>1
  <2>3. CASE StableFires
    <3>1. link' \in Links
      BY <1>0, <2>3 DEF StableFires, Links
    <3>2. link'.attempts = 0
      BY <1>0, <2>3 DEF StableFires, Links
    <3> QED BY <1>2, <3>1, <3>2
  <2>4. CASE SocketCloses
    <3> DEFINE l == Teardown(link)
    <3>1. l \in Links /\ l.attempts = n
      <4>1. l \in Links
        BY <1>0 DEF Teardown, Links
      <4>2. l.attempts = link.attempts
        BY <1>0 DEF Teardown, Links
      <4> QED BY <1>1, <4>1, <4>2
    <3>2. link' = ScheduleReconnect(l)
      BY <2>4 DEF SocketCloses
    <3> HIDE DEF l
    <3>3. link' = l \/ link' = [l EXCEPT !.retry = TRUE,
                                       !.attempts = IF @ < BackoffCap THEN @ + 1 ELSE @]
      BY <3>2 DEF ScheduleReconnect
    <3>4. PICK n2 \in Nat : n2 = (IF n < BackoffCap THEN n + 1 ELSE n)
      OBVIOUS
    <3>5. link' = l \/ link' = [l EXCEPT !.retry = TRUE, !.attempts = n2]
      BY <3>1, <3>3, <3>4
    <3>6. link' \in Links /\ link'.attempts \in {n, n2}
      BY <3>1, <3>4, <3>5 DEF Links
    <3> QED BY <1>1, <1>2, <3>4, <3>6
  <2>5. CASE RetryFires
    <3> DEFINE l == [link EXCEPT !.retry = FALSE]
    <3>1. l \in Links
      BY <1>0 DEF Links
    <3>2. l.attempts = link.attempts
      BY <1>0 DEF Links
    <3>3. link' = l \/ link' = [l EXCEPT !.state = "connecting"]
      BY <2>5 DEF RetryFires, Connect
    <3> HIDE DEF l
    <3>4. link' \in Links /\ link'.attempts = l.attempts
      BY <3>1, <3>3 DEF Links
    <3> QED BY <1>0, <3>2, <3>4
  <2>6. CASE CloseSocket
    <3>1. link' = [state |-> "none", attempts |-> n, retry |-> FALSE, stable |-> FALSE,
                   final |-> TRUE]
      BY <1>1, <2>6 DEF CloseSocket, Teardown
    <3> QED BY <1>1, <1>4, <3>1
  <2>7. CASE MirrorRestart
    <3>1. link' = [state |-> "connecting", attempts |-> 0, retry |-> FALSE,
                   stable |-> FALSE, final |-> FALSE]
      BY <2>7 DEF MirrorRestart, Connect, NewLink
    <3>2. link' \in Links /\ link'.attempts = 0
      BY <3>1 DEF Links
    <3> QED BY <1>2, <3>2
  <2>8. UNCHANGED link \/ SocketStep \/ CloseSocket \/ MirrorRestart
    BY DEF MirrorNext, MirrorLink, VenueSends, MirrorCommand, Refresh, SetCoins,
           MirrorElapse, StopMirror, OnSnapshot, FrameArrives, ThrottleFires, Watch,
           UserFills, mirrorVars
  <2> QED BY <2>1, <2>2, <2>3, <2>4, <2>5, <2>6, <2>7, <2>8 DEF SocketStep
<1> QED BY <1>6, <1>7, <1>8 DEF SocketTypes

LEMMA ClocksBoundedNext ==
  ASSUME MirrorInv, ClocksBounded, [MirrorNext]_mirrorVars
  PROVE  ClocksBounded'
<1>1. /\ StaleAfter \in Nat /\ NoClock \in Nat /\ Silent \in Nat /\ Silent <= NoClock
      /\ snapshot \in [Mirrorable -> Snapshots]
  BY MirrorAssumption DEF MirrorInv, MirrorTypes, NoClock, Silent
<1>2. \A m \in Mirrorable : /\ snapshot[m] = [age |-> snapshot[m].age,
                                            pending |-> snapshot[m].pending,
                                            timer |-> snapshot[m].timer]
                            /\ snapshot[m].age \in Nat /\ snapshot[m].age <= NoClock
  BY <1>1 DEF Snapshots, ClocksBounded
<1>3. ASSUME \A m \in Mirrorable : snapshot'[m].age \in {snapshot[m].age, 0, NoClock}
      PROVE  ClocksBounded'
  BY <1>1, <1>2, <1>3 DEF ClocksBounded, NoClock
<1>4. CASE UNCHANGED snapshot
  BY <1>3, <1>4
<1>5. ASSUME NEW m \in Mirrorable, NEW book \in VenueBooks, OnSnapshot(m, book)
      PROVE  ClocksBounded'
  <2>1. PICK s : s = [snapshot EXCEPT ![m].age = 0, ![m].pending = book]
    OBVIOUS
  <2>2. snapshot' \in {[s EXCEPT ![m].pending = NoBook], [s EXCEPT ![m].timer = TRUE]}
    BY <1>5, <2>1 DEF OnSnapshot, Flush
  <2>3. \A x \in Mirrorable : snapshot'[x].age \in {snapshot[x].age, 0}
    BY <1>1, <1>2, <2>1, <2>2
  <2> QED BY <1>3, <2>3
<1>6. ASSUME NEW m \in Mirrorable, ThrottleFires(m)
      PROVE  ClocksBounded'
  <2>1. PICK s : s = [snapshot EXCEPT ![m].timer = FALSE]
    OBVIOUS
  <2>2. snapshot' = [s EXCEPT ![m].pending = NoBook]
    BY <1>6, <2>1 DEF ThrottleFires, Flush
  <2>3. \A x \in Mirrorable : snapshot'[x].age = snapshot[x].age
    BY <1>1, <1>2, <2>1, <2>2
  <2> QED BY <1>3, <2>3
<1>7. CASE Refresh
  <2>1. PICK next : next = AlwaysOn \cup watched
    OBVIOUS
  <2> DEFINE seeded(m) == IF m \in next \ mirrored /\ snapshot[m].age = NoClock THEN 0
                          ELSE snapshot[m].age
             gone == mirrored \ next
             silent == {m \in next \ staleFlag : seeded(m) = Silent}
  <2>2. snapshot' = [m \in Mirrorable |->
           IF m \in gone THEN [Drop(snapshot[m]) EXCEPT !.age = NoClock]
           ELSE IF m \in silent THEN Drop(snapshot[m])
           ELSE [snapshot[m] EXCEPT !.age = seeded(m)]]
    BY <1>7, <2>1 DEF Refresh
  <2>3. ASSUME NEW m \in Mirrorable PROVE snapshot'[m].age \in {snapshot[m].age, 0, NoClock}
    <3>1. snapshot'[m] \in {[Drop(snapshot[m]) EXCEPT !.age = NoClock], Drop(snapshot[m]),
                            [snapshot[m] EXCEPT !.age = seeded(m)]}
      BY <2>2
    <3>2. seeded(m) \in {snapshot[m].age, 0}
      OBVIOUS
    <3> HIDE DEF seeded
    <3> QED BY <1>2, <3>1, <3>2 DEF Drop
  <2> HIDE DEF seeded, gone, silent
  <2> QED BY <1>3, <2>3
<1>8. CASE MirrorElapse
  <2>1. ASSUME NEW m \in Mirrorable PROVE snapshot'[m].age <= NoClock
    <3>1. PICK s : s = snapshot[m] /\ s = [age |-> s.age, pending |-> s.pending,
                                         timer |-> s.timer]
                   /\ s.age \in Nat /\ s.age <= NoClock
      BY <1>2
    <3>2. snapshot'[m] = [s EXCEPT !.age = IF s.age < Silent THEN s.age + 1 ELSE s.age]
      BY <1>8, <3>1 DEF MirrorElapse
    <3>3. snapshot'[m].age = IF s.age < Silent THEN s.age + 1 ELSE s.age
      BY <3>1, <3>2
    <3> QED BY <1>1, <3>1, <3>3
  <2> QED BY <2>1 DEF ClocksBounded, NoClock
<1>9. CASE StopMirror
  <2>1. \A m \in Mirrorable : snapshot'[m] = [snapshot[m] EXCEPT !.timer = FALSE]
    BY <1>9 DEF StopMirror
  <2>2. \A m \in Mirrorable : snapshot'[m].age = snapshot[m].age
    BY <1>2, <2>1
  <2> QED BY <1>3, <2>2
<1>10. CASE MirrorRestart
  <2>1. \A m \in Mirrorable : snapshot'[m] \in {NoSnapshot, [NoSnapshot EXCEPT !.age = 0]}
    BY <1>10 DEF MirrorRestart
  <2>2. NoSnapshot.age = NoClock /\ [NoSnapshot EXCEPT !.age = 0].age = 0
    BY DEF NoSnapshot
  <2> QED BY <1>3, <2>1, <2>2
<1> QED BY <1>4, <1>5, <1>6, <1>7, <1>8, <1>9, <1>10
        DEF MirrorNext, MirrorLink, MirrorCommand, Watch, UserFills, mirrorVars

LEMMA MirrorTypesInit == MirrorInit => SocketTypes /\ ClocksBounded
<1> SUFFICES ASSUME MirrorInit PROVE SocketTypes /\ ClocksBounded
  OBVIOUS
<1>1. SocketInv
  BY SocketStarts
<1>2. link.attempts = 0 /\ BackoffCap \in Nat
  BY SocketAssumption DEF MirrorInit, SocketInit, Connect, NewLink
<1>3. wanted = AlwaysOn /\ heard = {} /\ wire = <<>> /\ AlwaysOn \subseteq Coins
      /\ <<>> \in Seq(Coins)
  BY MirrorAssumption DEF MirrorInit, SocketInit
<1>4. SocketTypes
  BY <1>1, <1>2, <1>3 DEF SocketInv, SocketTypes
<1>5. \A m \in Mirrorable : snapshot[m] \in {NoSnapshot, [NoSnapshot EXCEPT !.age = 0]}
  BY DEF MirrorInit
<1>6. NoSnapshot.age = NoClock /\ [NoSnapshot EXCEPT !.age = 0].age = 0 /\ NoClock \in Nat
  BY MirrorAssumption DEF NoSnapshot, NoClock
<1>7. ClocksBounded
  <2>1. \A m \in Mirrorable : snapshot[m].age \in {NoClock, 0}
    BY <1>5, <1>6
  <2>2. 0 <= NoClock /\ NoClock <= NoClock
    BY <1>6
  <2> HIDE DEF NoClock
  <2> QED BY <2>1, <2>2 DEF ClocksBounded
<1> QED BY <1>4, <1>7

-----------------------------------------------------------------------------
(* The price feeds.                                                        *)

MarkTypes ==
  /\ MarkTypeOK
  /\ sample \in [External -> [price : Nat, age : Nat]]
  /\ oraclePoll \in [OraclePolls -> {"idle", "okx", "coinbase"}]
  /\ spot \in [venue : Nat, socket : Nat, polled : Nat, cached : Nat, last : Nat]

\* The smoothed mark lies between the one before it and the median.
LEMMA EmaBetween ==
  ASSUME NEW prev \in Nat, NEW next \in Nat
  PROVE  /\ EmaStep(prev, next) \in Nat
         /\ prev = NoPrice => EmaStep(prev, next) = next
         /\ prev # NoPrice /\ prev <= next =>
              prev <= EmaStep(prev, next) /\ EmaStep(prev, next) <= next
         /\ prev # NoPrice /\ next <= prev =>
              next <= EmaStep(prev, next) /\ EmaStep(prev, next) <= prev
<1>1. /\ SCALE \in Nat \ {0} /\ Alpha \in Nat \ {0} /\ Alpha < SCALE
  BY MarkAssumption, FixedPointAssumption
<1>2. PICK d \in Int : d = next - prev
  OBVIOUS
<1>3. PICK z \in Int : z = d * Alpha
  BY <1>1, SMT
<1>4. PICK q \in Int : q = z \div SCALE /\ q * SCALE <= z /\ z < q * SCALE + SCALE
  BY <1>1, DivBounds
<1>5. prev # NoPrice => EmaStep(prev, next) = prev + q
  BY <1>2, <1>3, <1>4 DEF EmaStep, MulUnits, DivFloor
<1>6. d * SCALE \in Int /\ q * SCALE \in Int /\ 0 * SCALE = 0
  BY <1>1, SMT
<1>7. CASE d >= 0
  <2>1. 0 <= z /\ z <= d * SCALE
    BY <1>1, <1>3, <1>7, SMT
  <2>2. 0 <= q
    BY <1>1, <1>4, <1>6, <2>1, ProductBelow
  <2>3. q * SCALE < d * SCALE + SCALE
    BY <1>1, <1>4, <1>6, <2>1
  <2>4. q <= d
    BY <1>1, <2>3, ProductBelow
  <2> QED BY <1>2, <1>5, <1>7, <2>2, <2>4 DEF EmaStep, NoPrice
<1>8. CASE d < 0
  <2>1. z <= 0 /\ d * SCALE <= z
    BY <1>1, <1>3, <1>8, SMT
  <2>2. q * SCALE < 0 * SCALE + SCALE
    BY <1>1, <1>4, <1>6, <2>1
  <2>3. q <= 0
    BY <1>1, <2>2, ProductBelow
  <2>4. d * SCALE < q * SCALE + SCALE
    BY <1>1, <1>4, <1>6, <2>1
  <2>5. d <= q
    BY <1>1, <2>4, ProductBelow
  <2> QED BY <1>2, <1>5, <1>8, <2>3, <2>5 DEF EmaStep, NoPrice
<1> QED BY <1>7, <1>8

\* Three values or fewer have an ascending order.
LEMMA ShortOrder ==
  ASSUME NEW s, DOMAIN s \in {{1}, {1, 2}, {1, 2, 3}}, \A i \in DOMAIN s : s[i] \in Nat
  PROVE  \E p \in [DOMAIN s -> DOMAIN s] :
           IsInjective(p) /\ \A i, j \in DOMAIN s : i < j => s[p[i]] <= s[p[j]]
<1>1. CASE DOMAIN s = {1}
  <2> DEFINE p == [i \in {1} |-> 1]
  <2>1. p \in [DOMAIN s -> DOMAIN s] /\ IsInjective(p)
    BY <1>1 DEF IsInjective
  <2>2. \A i, j \in DOMAIN s : i < j => s[p[i]] <= s[p[j]]
    BY <1>1
  <2> QED BY <2>1, <2>2
<1>2. CASE DOMAIN s = {1, 2}
  <2>1. \A a, b \in {1, 2} : a # b /\ s[a] <= s[b] =>
          LET p == [i \in {1, 2} |-> IF i = 1 THEN a ELSE b]
          IN  /\ p \in [DOMAIN s -> DOMAIN s] /\ IsInjective(p)
              /\ \A i, j \in DOMAIN s : i < j => s[p[i]] <= s[p[j]]
    BY <1>2 DEF IsInjective
  <2>2. \E a, b \in {1, 2} : a # b /\ s[a] <= s[b]
    <3>1. s[1] \in Nat /\ s[2] \in Nat
      BY <1>2
    <3>2. CASE s[1] <= s[2]
      BY <3>2
    <3>3. CASE s[2] <= s[1]
      BY <3>3
    <3> QED BY <3>1, <3>2, <3>3
  <2> QED BY <2>1, <2>2
<1>3. CASE DOMAIN s = {1, 2, 3}
  <2>1. PICK x, y, z \in Nat : x = s[1] /\ y = s[2] /\ z = s[3]
    BY <1>3
  <2>2. ASSUME NEW a \in {1, 2, 3}, NEW b \in {1, 2, 3}, NEW c \in {1, 2, 3},
               a # b, b # c, a # c, s[a] <= s[b], s[b] <= s[c]
        PROVE  \E p \in [DOMAIN s -> DOMAIN s] :
                 IsInjective(p) /\ \A i, j \in DOMAIN s : i < j => s[p[i]] <= s[p[j]]
    <3> DEFINE p == [i \in {1, 2, 3} |-> IF i = 1 THEN a ELSE IF i = 2 THEN b ELSE c]
    <3>1. p \in [DOMAIN s -> DOMAIN s] /\ IsInjective(p)
      BY <1>3, <2>2 DEF IsInjective
    <3>2. s[a] \in Nat /\ s[b] \in Nat /\ s[c] \in Nat
      BY <1>3
    <3>3. \A i, j \in DOMAIN s : i < j => s[p[i]] <= s[p[j]]
      BY <1>3, <2>2, <3>2
    <3> QED BY <3>1, <3>3
  <2>3. \E a, b, c \in {1, 2, 3} :
          a # b /\ b # c /\ a # c /\ s[a] <= s[b] /\ s[b] <= s[c]
    <3>1. CASE x <= y /\ y <= z
      BY <2>1, <3>1
    <3>2. CASE x <= z /\ z <= y
      BY <2>1, <3>2
    <3>3. CASE y <= x /\ x <= z
      BY <2>1, <3>3
    <3>4. CASE y <= z /\ z <= x
      BY <2>1, <3>4
    <3>5. CASE z <= x /\ x <= y
      BY <2>1, <3>5
    <3>6. CASE z <= y /\ y <= x
      BY <2>1, <3>6
    <3> QED BY <3>1, <3>2, <3>3, <3>4, <3>5, <3>6
  <2> QED BY <2>2, <2>3
<1> QED BY <1>1, <1>2, <1>3

\* What Sorted returns of them.
LEMMA SortedShort ==
  ASSUME NEW s, DOMAIN s \in {{1}, {1, 2}, {1, 2, 3}}, \A i \in DOMAIN s : s[i] \in Nat
  PROVE  \E p \in [DOMAIN s -> DOMAIN s] :
           /\ IsInjective(p) /\ \A i, j \in DOMAIN s : i < j => s[p[i]] <= s[p[j]]
           /\ Sorted(s) = [i \in DOMAIN s |-> s[p[i]]]
<1> DEFINE Orders(p) == /\ IsInjective(p)
                        /\ \A i, j \in DOMAIN s : i < j => s[p[i]] <= s[p[j]]
           order == CHOOSE p \in [DOMAIN s -> DOMAIN s] : Orders(p)
<1>1. order \in [DOMAIN s -> DOMAIN s] /\ Orders(order)
  <2>1. \E p \in [DOMAIN s -> DOMAIN s] : Orders(p)
    BY ShortOrder
  <2> HIDE DEF Orders
  <2> QED BY <2>1
<1>2. Sorted(s) = [i \in DOMAIN s |-> s[order[i]]]
  BY DEF Sorted
<1> QED BY <1>1, <1>2

LEMMA SortedTypes ==
  ASSUME NEW s, DOMAIN s \in {{1}, {1, 2}, {1, 2, 3}}, \A i \in DOMAIN s : s[i] \in Nat
  PROVE  \A i \in DOMAIN s : Sorted(s)[i] \in Nat
<1>1. PICK p \in [DOMAIN s -> DOMAIN s] :
        /\ IsInjective(p) /\ \A i, j \in DOMAIN s : i < j => s[p[i]] <= s[p[j]]
        /\ Sorted(s) = [i \in DOMAIN s |-> s[p[i]]]
  BY SortedShort
<1> QED BY <1>1

\* Whichever of three values is a lie, the median is no lower than the lower of
\* the other two and no higher than the higher.
LEMMA MedianOfThree ==
  ASSUME NEW s, DOMAIN s = {1, 2, 3}, Len(s) = 3, \A i \in DOMAIN s : s[i] \in Nat
  PROVE  /\ MedianBig(s) \in Nat
         /\ \A lie \in {1, 2, 3} : \E i, j \in {1, 2, 3} \ {lie} :
              s[i] <= MedianBig(s) /\ MedianBig(s) <= s[j]
<1>1. PICK p \in [{1, 2, 3} -> {1, 2, 3}] :
        /\ IsInjective(p) /\ \A i, j \in {1, 2, 3} : i < j => s[p[i]] <= s[p[j]]
        /\ Sorted(s) = [i \in {1, 2, 3} |-> s[p[i]]]
  BY SortedShort
<1>2. 3 \div 2 = 1 /\ 3 % 2 = 1
  BY SMT
<1>3. MedianBig(s) = s[p[2]]
  BY <1>1, <1>2 DEF MedianBig
<1>4. PICK a, b, c \in {1, 2, 3} : a = p[1] /\ b = p[2] /\ c = p[3]
  BY <1>1
<1>5. a # b /\ b # c /\ a # c
  BY <1>1, <1>4 DEF IsInjective
<1>6. s[a] <= s[b] /\ s[b] <= s[c]
  BY <1>1, <1>4
<1>7. s[a] \in Nat /\ s[b] \in Nat /\ s[c] \in Nat
  OBVIOUS
<1>8. ASSUME NEW lie \in {1, 2, 3}
      PROVE  \E i, j \in {1, 2, 3} \ {lie} : s[i] <= s[b] /\ s[b] <= s[j]
  <2>1. CASE lie = b
    <3>1. a \in {1, 2, 3} \ {lie} /\ c \in {1, 2, 3} \ {lie}
      BY <1>5, <2>1
    <3> QED BY <1>6, <3>1
  <2>2. CASE lie # b
    <3>1. b \in {1, 2, 3} \ {lie} /\ s[b] <= s[b]
      BY <1>7, <2>2
    <3> QED BY <3>1
  <2> QED BY <2>1, <2>2
<1> QED BY <1>3, <1>4, <1>7, <1>8

LEMMA MedianType ==
  ASSUME NEW s, DOMAIN s \in {{1}, {1, 2}, {1, 2, 3}}, \A i \in DOMAIN s : s[i] \in Nat,
         DOMAIN s = {1} => Len(s) = 1, DOMAIN s = {1, 2} => Len(s) = 2,
         DOMAIN s = {1, 2, 3} => Len(s) = 3
  PROVE  MedianBig(s) \in Nat
<1>2. \A i \in DOMAIN s : Sorted(s)[i] \in Nat
  BY SortedTypes
<1>3. CASE DOMAIN s = {1, 2, 3}
  BY <1>3, MedianOfThree
<1>4. CASE DOMAIN s = {1}
  <2>1. 1 \div 2 = 0 /\ 1 % 2 = 1 /\ 1 \in DOMAIN s /\ Len(s) = 1
    BY <1>4, SMT
  <2>2. MedianBig(s) = Sorted(s)[1]
    BY <2>1 DEF MedianBig
  <2> QED BY <1>2, <2>1, <2>2
<1>5. CASE DOMAIN s = {1, 2}
  <2>1. 2 \div 2 = 1 /\ 2 % 2 = 0 /\ 1 \in DOMAIN s /\ 2 \in DOMAIN s
        /\ Len(s) = 2
    BY <1>5, SMT
  <2>2. PICK x, y \in Nat : x = Sorted(s)[1] /\ y = Sorted(s)[2]
    BY <1>2, <2>1
  <2>3. MedianBig(s) = (x + y) \div 2
    BY <2>1, <2>2 DEF MedianBig, DivFloor
  <2> QED BY <2>2, <2>3
<1> QED BY <1>3, <1>4, <1>5

\* The venues' prices, one each of those that are fresh.
LEMMA ExternalPricesAre ==
  ASSUME MarkTypes
  PROVE  \E n \in 0..2 :
           /\ ExternalPrices \in [1..n -> Nat]
           /\ FreshSources = External =>
                /\ n = 2
                /\ \E o, c \in {1, 2} :
                     /\ o # c /\ ExternalPrices[o] = sample["okx"].price
                     /\ ExternalPrices[c] = sample["coinbase"].price
<1>1. /\ FreshSources \subseteq External /\ IsFiniteSet(External)
      /\ Cardinality(External) = 2
  <2>1. IsFiniteSet({"okx"}) /\ Cardinality({"okx"}) = 1
    BY FS_Singleton
  <2>2. External = {"okx"} \cup {"coinbase"} /\ "coinbase" \notin {"okx"}
    BY DEF External
  <2> QED BY <2>1, <2>2, FS_AddElement DEF FreshSources
<1>2. IsFiniteSet(FreshSources) /\ Cardinality(FreshSources) \in 0..2
  BY <1>1, FS_Subset, FS_CardinalityType
<1>3. PICK n \in 0..2 : n = Cardinality(FreshSources)
  BY <1>2
<1>4. PICK s : s = SetToSeq(FreshSources)
  OBVIOUS
<1>5. s \in [1..n -> FreshSources] /\ IsInjective(s)
  <2>1. \E f \in [1..n -> FreshSources] : IsInjective(f)
    <3>1. ExistsBijection(1..n, FreshSources)
      BY <1>2, <1>3, FS_CardinalityType
    <3> QED BY <3>1 DEF ExistsBijection, Bijection, Injection, IsInjective
  <2> QED BY <1>3, <1>4, <2>1 DEF SetToSeq
<1>6. ExternalPrices = [i \in 1..n |-> sample[s[i]].price]
  BY <1>3, <1>4 DEF ExternalPrices
<1>7. ExternalPrices \in [1..n -> Nat]
  BY <1>1, <1>5, <1>6 DEF MarkTypes
<1>8. ASSUME FreshSources = External
      PROVE  /\ n = 2
             /\ \E o, c \in {1, 2} :
                  /\ o # c /\ ExternalPrices[o] = sample["okx"].price
                  /\ ExternalPrices[c] = sample["coinbase"].price
  <2>1. n = 2
    BY <1>1, <1>3, <1>8
  <2>2. 1..2 = {1, 2}
    OBVIOUS
  <2>3. s[1] \in External /\ s[2] \in External /\ s[1] # s[2]
    BY <1>5, <1>8, <2>1, <2>2 DEF IsInjective
  <2>4. /\ ExternalPrices[1] = sample[s[1]].price
        /\ ExternalPrices[2] = sample[s[2]].price
    BY <1>6, <2>1, <2>2
  <2>5. CASE s[1] = "okx"
    <3>1. s[2] = "coinbase"
      BY <2>3, <2>5 DEF External
    <3> QED BY <2>1, <2>4, <2>5, <3>1
  <2>6. CASE s[1] = "coinbase"
    <3>1. s[2] = "okx"
      BY <2>3, <2>6 DEF External
    <3> QED BY <2>1, <2>4, <2>6, <3>1
  <2> QED BY <2>3, <2>5, <2>6 DEF External
<1> QED BY <1>7, <1>8

\* What the median is taken of.
LEMMA Quoted ==
  ASSUME MarkTypes, NEW mid \in Nat
  PROVE  /\ MedianBig(<<mid>> \o ExternalPrices) \in Nat
         /\ FreshSources = External =>
              \A lie \in Venues : \E v, w \in Venues \ {lie} :
                LET price(u) == IF u = "hl" THEN mid ELSE sample[u].price
                IN  /\ price(v) <= MedianBig(<<mid>> \o ExternalPrices)
                    /\ MedianBig(<<mid>> \o ExternalPrices) <= price(w)
<1> DEFINE price(u) == IF u = "hl" THEN mid ELSE sample[u].price
           values == <<mid>> \o ExternalPrices
           median == MedianBig(<<mid>> \o ExternalPrices)
<1>1. PICK n \in 0..2 :
        /\ ExternalPrices \in [1..n -> Nat]
        /\ FreshSources = External =>
             /\ n = 2
             /\ \E o, c \in {1, 2} :
                  /\ o # c /\ ExternalPrices[o] = sample["okx"].price
                  /\ ExternalPrices[c] = sample["coinbase"].price
  BY ExternalPricesAre
<1>2. /\ ExternalPrices \in Seq(Nat) /\ Len(ExternalPrices) = n
      /\ DOMAIN ExternalPrices = 1..n
  BY <1>1
<1>3. /\ values \in Seq(Nat) /\ Len(values) = n + 1 /\ DOMAIN values = 1..(n + 1)
      /\ values[1] = mid
      /\ \A i \in 1..n : values[i + 1] = ExternalPrices[i]
  BY <1>2
<1>4. median \in Nat
  <2>1. /\ DOMAIN values \in {{1}, {1, 2}, {1, 2, 3}}
        /\ DOMAIN values = {1} => Len(values) = 1
        /\ DOMAIN values = {1, 2} => Len(values) = 2
        /\ DOMAIN values = {1, 2, 3} => Len(values) = 3
    <3>1. /\ 1..1 = {1} /\ 1..2 = {1, 2} /\ 1..3 = {1, 2, 3}
          /\ {1} # {1, 2} /\ {1} # {1, 2, 3} /\ {1, 2} # {1, 2, 3}
      OBVIOUS
    <3>2. n = 0 \/ n = 1 \/ n = 2
      OBVIOUS
    <3>3. CASE n = 0
      <4>1. DOMAIN values = 1..1 /\ Len(values) = 1
        BY <1>3, <3>3
      <4> HIDE DEF values
      <4> QED BY <3>1, <4>1
    <3>4. CASE n = 1
      <4>1. DOMAIN values = 1..2 /\ Len(values) = 2
        BY <1>3, <3>4
      <4> HIDE DEF values
      <4> QED BY <3>1, <4>1
    <3>5. CASE n = 2
      <4>1. DOMAIN values = 1..3 /\ Len(values) = 3
        BY <1>3, <3>5
      <4> HIDE DEF values
      <4> QED BY <3>1, <4>1
    <3> QED BY <3>2, <3>3, <3>4, <3>5
  <2>2. \A i \in DOMAIN values : values[i] \in Nat
    BY <1>3
  <2> HIDE DEF values
  <2>3. MedianBig(values) \in Nat
    BY <2>1, <2>2, MedianType
  <2> QED BY <2>3 DEF values
<1>5. ASSUME FreshSources = External, NEW lie \in Venues
      PROVE  \E v, w \in Venues \ {lie} : price(v) <= median /\ median <= price(w)
  <2>1. PICK o, c \in {1, 2} :
          /\ o # c /\ ExternalPrices[o] = sample["okx"].price
          /\ ExternalPrices[c] = sample["coinbase"].price
    BY <1>1, <1>5
  <2>2. n = 2 /\ DOMAIN values = {1, 2, 3} /\ Len(values) = 3
    <3>1. n = 2
      BY <1>1, <1>5
    <3>2. 1..3 = {1, 2, 3}
      OBVIOUS
    <3> QED BY <1>3, <3>1, <3>2
  <2>3. /\ values[1] = price("hl") /\ values[o + 1] = price("okx")
        /\ values[c + 1] = price("coinbase")
    <3>1. o \in 1..n /\ c \in 1..n
      BY <2>2
    <3> QED BY <1>3, <2>1, <3>1
  <2> DEFINE at(u) == IF u = "hl" THEN 1 ELSE IF u = "okx" THEN o + 1 ELSE c + 1
             who(i) == IF i = 1 THEN "hl" ELSE IF i = o + 1 THEN "okx" ELSE "coinbase"
  <2>4. /\ \A u \in Venues : at(u) \in {1, 2, 3}
        /\ \A i \in {1, 2, 3} : who(i) \in Venues /\ at(who(i)) = i
    BY <2>1 DEF Venues, External
  <2>5. \A i \in {1, 2, 3} : values[i] = price(who(i))
    <3>1. {o + 1, c + 1} = {2, 3}
      BY <2>1
    <3> HIDE DEF values, price
    <3>2. ASSUME NEW i \in {1, 2, 3} PROVE values[i] = price(who(i))
      <4>1. CASE i = 1
        BY <2>3, <4>1
      <4>2. CASE i = o + 1
        BY <2>1, <2>3, <4>2
      <4>3. CASE i = c + 1
        BY <2>1, <2>3, <4>3
      <4> QED BY <3>1, <4>1, <4>2, <4>3
    <3> QED BY <3>2
  <2>6. PICK i, j \in {1, 2, 3} \ {at(lie)} : values[i] <= median /\ median <= values[j]
    <3>1. \A k \in DOMAIN values : values[k] \in Nat
      BY <1>3
    <3> HIDE DEF values, at
    <3>2. \E i, j \in {1, 2, 3} \ {at(lie)} :
            values[i] <= MedianBig(values) /\ MedianBig(values) <= values[j]
      BY <2>2, <2>4, <3>1, MedianOfThree
    <3> QED BY <3>2 DEF values
  <2>7. who(i) \in Venues \ {lie} /\ who(j) \in Venues \ {lie}
    BY <2>4, <2>6
  <2> QED BY <2>5, <2>6, <2>7
<1> QED BY <1>4, <1>5

\* A finite set of prices has a highest one.
LEMMA HighestPrice ==
  ASSUME NEW S \in SUBSET Nat, IsFiniteSet(S), S # {}
  PROVE  \E x \in S : \A y \in S : y <= x
<1> DEFINE Highest(T) == \E x \in T : \A y \in T : y <= x
           B == {n \in Nat : \E T \in SUBSET S : T # {} /\ Cardinality(T) = n /\ ~Highest(T)}
<1>1. B = {}
  <2> SUFFICES ASSUME B # {} PROVE FALSE
    OBVIOUS
  <2>1. PICK n \in B : \A m \in B : n <= m
    <3> HIDE DEF B
    <3>1. B \in SUBSET Nat
      BY DEF B
    <3> QED BY <3>1, LeastNumber
  <2>2. PICK T \in SUBSET S : T # {} /\ Cardinality(T) = n /\ ~Highest(T)
    BY <2>1
  <2>3. PICK t \in T : TRUE
    BY <2>2
  <2>4. IsFiniteSet(T)
    BY FS_Subset
  <2>5. /\ n \in Nat /\ Cardinality(T \ {t}) \in Nat /\ Cardinality(T \ {t}) = n - 1
    BY <2>2, <2>4, FS_RemoveElement, FS_CardinalityType
  <2>6. CASE T \ {t} = {}
    <3>1. T = {t}
      BY <2>6
    <3> QED BY <2>2, <3>1
  <2>7. CASE T \ {t} # {}
    <3>1. Highest(T \ {t})
      <4> SUFFICES ASSUME ~Highest(T \ {t}) PROVE FALSE
        OBVIOUS
      <4> HIDE DEF Highest
      <4>1. n - 1 \in B
        BY <2>5, <2>7
      <4> HIDE DEF B
      <4> QED BY <2>1, <2>5, <4>1
    <3>2. PICK x \in T \ {t} : \A y \in T \ {t} : y <= x
      BY <3>1
    <3>3. CASE t <= x
      <4>1. \A y \in T : y <= x
        BY <3>2, <3>3
      <4> QED BY <2>2, <3>2, <4>1
    <3>4. CASE ~(t <= x)
      <4>1. \A y \in T : y <= t
        <5> TAKE y \in T
        <5>1. y \in Nat /\ x \in Nat /\ t \in Nat
          OBVIOUS
        <5>2. y # t => y <= x
          BY <3>2
        <5> QED BY <3>4, <5>1, <5>2
      <4> QED BY <2>2, <4>1
    <3> QED BY <3>3, <3>4
  <2> QED BY <2>6, <2>7
<1>2. Cardinality(S) \notin B /\ Cardinality(S) \in Nat
  BY <1>1, FS_CardinalityType
<1> QED BY <1>2

\* The lowest and the highest of some prices.
LEMMA Extremes ==
  ASSUME NEW S \in SUBSET Nat, IsFiniteSet(S), S # {}
  PROVE  /\ Min(S) \in Nat /\ Max(S) \in Nat
         /\ \A y \in S : Min(S) <= y /\ y <= Max(S)
<1>1. \E a \in S : \A y \in S : a <= y
  BY OldestEpoch
<1>2. \E b \in S : \A y \in S : b >= y
  BY HighestPrice
<1>3. Min(S) \in S /\ \A y \in S : Min(S) <= y
  BY <1>1 DEF Min
<1>4. Max(S) \in S /\ \A y \in S : Max(S) >= y
  BY <1>2 DEF Max
<1> QED BY <1>3, <1>4

\* The venues that may show lies are not asked: what the others show is finite.
Around ==
  {sample[s].price : s \in External \ {liar}}
    \cup (IF liar = "hl" THEN {} ELSE HonestPrices)
    \cup (IF ema = NoPrice THEN {} ELSE {ema})

LEMMA AroundFinite ==
  ASSUME MarkTypes
  PROVE  Around \in SUBSET Nat /\ IsFiniteSet(Around) /\ Around # {}
<1>1. HonestPrices \in SUBSET Nat /\ IsFiniteSet(HonestPrices)
  BY MarkAssumption
<1>2. ema \in Nat /\ \A s \in External : sample[s].price \in Nat
  BY DEF MarkTypes, MarkTypeOK
<1> DEFINE prices == {sample[s].price : s \in External \ {liar}}
<1>3. prices \subseteq {sample["okx"].price} \cup {sample["coinbase"].price}
  BY DEF External
<1>4. \A x : IsFiniteSet({x})
  BY FS_Singleton
<1>5. IsFiniteSet({}) 
  BY FS_EmptySet
<1>6. IsFiniteSet(prices)
  <2>1. IsFiniteSet({sample["okx"].price} \cup {sample["coinbase"].price})
    BY <1>4, FS_Union
  <2> QED BY <1>3, <2>1, FS_Subset
<1>7. prices # {} /\ prices \in SUBSET Nat
  BY <1>2 DEF External
<1> DEFINE mids == IF liar = "hl" THEN {} ELSE HonestPrices
           smoothed == IF ema = NoPrice THEN {} ELSE {ema}
<1>8. IsFiniteSet(mids) /\ IsFiniteSet(smoothed)
  BY <1>1, <1>4, <1>5
<1>9. mids \in SUBSET Nat /\ smoothed \in SUBSET Nat
  BY <1>1, <1>2
<1> HIDE DEF prices, mids, smoothed
<1>10. IsFiniteSet((prices \cup mids) \cup smoothed)
  BY <1>6, <1>8, FS_Union
<1> QED BY <1>7, <1>9, <1>10 DEF Around, prices, mids, smoothed

\* A new mark is within what the venues that do not lie show and the mark before.
LEMMA MarkHonest ==
  ASSUME MarkTypes, NEW mid, PerpMid(mid), FreshSources = External
  PROVE  Min(Around) <= ema' /\ ema' <= Max(Around)
<1>1. mid \in Nat /\ ema \in Nat /\ liar \in Venues
  BY MarkAssumption DEF PerpMid, CouldShow, MarkTypes, MarkTypeOK
<1> DEFINE price(u) == IF u = "hl" THEN mid ELSE sample[u].price
<1>2. PICK median \in Nat : median = MedianBig(<<mid>> \o ExternalPrices)
  BY <1>1, Quoted
<1>3. PICK v, w \in Venues \ {liar} : price(v) <= median /\ median <= price(w)
  BY <1>1, <1>2, Quoted
<1>4. ema' = EmaStep(ema, median)
  BY <1>2 DEF PerpMid, RobustMark
<1>5. \A u \in Venues \ {liar} : price(u) \in Around
  <2> TAKE u \in Venues \ {liar}
  <2>1. CASE u = "hl"
    BY <2>1 DEF PerpMid, CouldShow, Around
  <2>2. CASE u # "hl"
    BY <2>2 DEF Venues, Around
  <2> QED BY <2>1, <2>2
<1>6. /\ Min(Around) \in Nat /\ Max(Around) \in Nat
      /\ \A y \in Around : y \in Nat /\ Min(Around) <= y /\ y <= Max(Around)
  BY AroundFinite, Extremes
<1>7. Min(Around) <= median /\ median <= Max(Around)
  <2>1. PICK y, z \in Nat : /\ y = price(v) /\ z = price(w)
                           /\ Min(Around) <= y /\ z <= Max(Around)
    BY <1>3, <1>5, <1>6
  <2> QED BY <1>3, <1>6, <2>1
<1>8. ema # NoPrice => Min(Around) <= ema /\ ema <= Max(Around)
  BY <1>6 DEF Around
<1>9. PICK e \in Nat :
        /\ e = EmaStep(ema, median) /\ (ema = NoPrice => e = median)
        /\ ema # NoPrice /\ ema <= median => ema <= e /\ e <= median
        /\ ema # NoPrice /\ median <= ema => median <= e /\ e <= ema
  BY <1>1, <1>2, EmaBetween
<1> QED BY <1>1, <1>4, <1>6, <1>7, <1>8, <1>9

LEMMA MarkTypesInit == MarkInit => MarkTypes
BY MarkAssumption DEF MarkInit, MarkTypes, MarkTypeOK, External, NoPrice, ExpiredAge

LEMMA PerpMidTypes ==
  ASSUME MarkTypes, NEW mid, PerpMid(mid)
  PROVE  MarkTypes'
<1>1. mid \in Nat /\ ema \in Nat
  BY MarkAssumption DEF PerpMid, CouldShow, MarkTypes, MarkTypeOK
<1>2. PICK median \in Nat : median = MedianBig(<<mid>> \o ExternalPrices)
  BY <1>1, Quoted
<1>3. ema' \in Nat
  BY <1>1, <1>2, EmaBetween DEF PerpMid, RobustMark
<1>4. ema' = RobustMark(mid)
  BY DEF PerpMid
<1>5. sent'.price \in Nat /\ sent'.recent \in BOOLEAN
  BY <1>3, <1>4 DEF PerpMid, MarkTypes, MarkTypeOK
<1> QED BY <1>3, <1>5 DEF PerpMid, MarkTypes, MarkTypeOK

LEMMA OracleTypes ==
  ASSUME MarkTypes, NEW p \in OraclePolls, StartOracle(p) \/ OracleAnswer(p)
  PROVE  MarkTypes'
<1>1. CASE StartOracle(p)
  BY <1>1 DEF StartOracle, MarkTypes, MarkTypeOK
<1>2. CASE OracleAnswer(p)
  <2>1. oraclePoll[p] \in External /\ SampleLife \in Nat
    BY <1>2, MarkAssumption DEF OracleAnswer, MarkTypes, External
  <2>2. oraclePoll' \in [OraclePolls -> {"idle", "okx", "coinbase"}]
    BY <1>2 DEF OracleAnswer, MarkTypes
  <2>3. sample' \in [External -> [price : Nat, age : Nat]]
        /\ \A s \in External : sample'[s].age \in 0..ExpiredAge
    <3>1. CASE UNCHANGED sample
      BY <3>1 DEF MarkTypes, MarkTypeOK
    <3>2. CASE ~UNCHANGED sample
      <4>1. PICK price \in CouldShow(oraclePoll[p]) :
              sample' = [sample EXCEPT ![oraclePoll[p]] = [price |-> price, age |-> 0]]
        BY <1>2, <3>2 DEF OracleAnswer
      <4>2. price \in Nat /\ 0 \in 0..ExpiredAge
        BY <2>1, <4>1, MarkAssumption DEF CouldShow, ExpiredAge
      <4> QED BY <2>1, <4>1, <4>2 DEF MarkTypes, MarkTypeOK
    <3> QED BY <3>1, <3>2
  <2> QED BY <1>2, <2>2, <2>3 DEF OracleAnswer, MarkTypes, MarkTypeOK
<1> QED BY <1>1, <1>2

LEMMA MarkElapseTypes ==
  ASSUME MarkTypes, MarkElapse
  PROVE  MarkTypes'
<1>1. SampleLife \in Nat
  BY MarkAssumption
<1>2. \A s \in External : /\ sample[s] \in [price : Nat, age : Nat]
                         /\ sample[s].age \in 0..ExpiredAge
  BY DEF MarkTypes, MarkTypeOK
<1>3. \A s \in External :
        sample'[s] = [sample[s] EXCEPT !.age = IF sample[s].age <= SampleLife
                                             THEN sample[s].age + 1 ELSE sample[s].age]
  BY DEF MarkElapse
<1>4. ASSUME NEW s \in External
      PROVE  sample'[s] \in [price : Nat, age : Nat] /\ sample'[s].age \in 0..ExpiredAge
  <2>1. PICK p, a \in Nat : sample[s] = [price |-> p, age |-> a] /\ a <= ExpiredAge
    BY <1>1, <1>2 DEF ExpiredAge
  <2>2. sample'[s] = [price |-> p, age |-> IF a <= SampleLife THEN a + 1 ELSE a]
    BY <1>3, <2>1
  <2> QED BY <1>1, <2>1, <2>2 DEF ExpiredAge
<1>5. sample' \in [External -> [price : Nat, age : Nat]]
  BY <1>4 DEF MarkElapse
<1>6. sent'.price = sent.price /\ sent'.recent \in BOOLEAN
  BY DEF MarkElapse, MarkTypes, MarkTypeOK
<1> QED BY <1>4, <1>5, <1>6 DEF MarkElapse, MarkTypes, MarkTypeOK

LEMMA SpotTypes ==
  ASSUME MarkTypes, SpotFeedNext
  PROVE  MarkTypes'
<1>1. MaxTickerTs \in Nat
  BY MarkAssumption
<1>2. PICK v, k, q, c, l \in Nat :
        /\ spot = [venue |-> v, socket |-> k, polled |-> q, cached |-> c, last |-> l]
        /\ k <= v /\ q <= v /\ c <= v /\ l <= v
  <2>1. spot = [venue |-> spot.venue, socket |-> spot.socket, polled |-> spot.polled,
                cached |-> spot.cached, last |-> spot.last]
    BY DEF MarkTypes
  <2>2. /\ spot.venue \in Nat /\ spot.socket \in Nat /\ spot.polled \in Nat
        /\ spot.cached \in Nat /\ spot.last \in Nat
        /\ spot.socket <= spot.venue /\ spot.polled <= spot.venue
        /\ spot.cached <= spot.venue /\ spot.last <= spot.venue
    BY DEF MarkTypes, MarkTypeOK
  <2> QED BY <2>1, <2>2
<1>3. UNCHANGED perpVars
  BY DEF SpotFeedNext, VenueTrades, SocketTicker, PollAnswered, PollTicker, TickerArrives
<1>4. \E v2, k2, q2, c2, l2 \in Nat :
        /\ spot' = [venue |-> v2, socket |-> k2, polled |-> q2, cached |-> c2, last |-> l2]
        /\ k2 <= v2 /\ q2 <= v2 /\ c2 <= v2 /\ l2 <= v2
  <2>1. CASE VenueTrades
    <3>1. spot' = [venue |-> v + 1, socket |-> k, polled |-> q, cached |-> c, last |-> l]
      BY <1>2, <2>1 DEF VenueTrades
    <3>2. v + 1 \in Nat /\ k <= v + 1 /\ q <= v + 1 /\ c <= v + 1 /\ l <= v + 1
      BY <1>2
    <3> QED BY <3>1, <3>2
  <2>2. ASSUME NEW ts \in Nat, ts <= v, NEW k2 \in Nat, k2 <= v, NEW q2 \in Nat, q2 <= v,
               TickerArrives([venue |-> v, socket |-> k2, polled |-> q2, cached |-> c,
                              last |-> l], ts)
        PROVE  \E c2, l2 \in Nat :
                 /\ spot' = [venue |-> v, socket |-> k2, polled |-> q2, cached |-> c2,
                             last |-> l2]
                 /\ c2 <= v /\ l2 <= v
    <3>1. PICK conditional \in BOOLEAN :
            spot' = [venue |-> v, socket |-> k2, polled |-> q2,
                     cached |-> IF c > ts THEN c ELSE ts,
                     last |-> IF conditional THEN ts ELSE l]
      BY <2>2 DEF TickerArrives
    <3> DEFINE c2 == IF c > ts THEN c ELSE ts
               l2 == IF conditional THEN ts ELSE l
    <3>2. c2 \in Nat /\ l2 \in Nat /\ c2 <= v /\ l2 <= v
      BY <1>2, <2>2
    <3> QED BY <3>1, <3>2
  <2>3. CASE SocketTicker
    <3>1. PICK ts \in (k + 1)..v :
            TickerArrives([venue |-> v, socket |-> ts, polled |-> q, cached |-> c,
                           last |-> l], ts)
      BY <1>2, <2>3 DEF SocketTicker
    <3>2. ts \in Nat /\ ts <= v
      BY <1>2
    <3> QED BY <1>2, <2>2, <3>1, <3>2
  <2>4. CASE PollAnswered
    <3>1. spot' = [venue |-> v, socket |-> k, polled |-> v, cached |-> c, last |-> l]
      BY <1>2, <2>4 DEF PollAnswered
    <3>2. v <= v
      BY <1>2
    <3> QED BY <1>2, <3>1, <3>2
  <2>5. CASE PollTicker
    <3>1. spot.polled = q
                  /\ [spot EXCEPT !.polled = 0] =
                       [venue |-> v, socket |-> k, polled |-> 0, cached |-> c, last |-> l]
      BY <1>2
    <3>2. TickerArrives([venue |-> v, socket |-> k, polled |-> 0, cached |-> c,
                         last |-> l], q)
      BY <2>5, <3>1 DEF PollTicker
    <3>3. PICK z \in Nat : z = 0 /\ z <= v
      BY <1>2
    <3>4. TickerArrives([venue |-> v, socket |-> k, polled |-> z, cached |-> c,
                         last |-> l], q)
      BY <3>2, <3>3
    <3> QED BY <1>2, <2>2, <3>3, <3>4
  <2> QED BY <2>1, <2>3, <2>4, <2>5 DEF SpotFeedNext
<1>5. PICK v2, k2, q2, c2, l2 \in Nat :
        /\ spot' = [venue |-> v2, socket |-> k2, polled |-> q2, cached |-> c2, last |-> l2]
        /\ k2 <= v2 /\ q2 <= v2 /\ c2 <= v2 /\ l2 <= v2
  BY <1>4
<1> QED BY <1>3, <1>5 DEF MarkTypes, MarkTypeOK, perpVars

LEMMA MarkTypesNext == MarkTypes /\ [MarkNext]_markVars => MarkTypes'
<1> SUFFICES ASSUME MarkTypes, [MarkNext]_markVars PROVE MarkTypes'
  OBVIOUS
<1>1. CASE \E p \in OraclePolls : StartOracle(p) \/ OracleAnswer(p)
  BY <1>1, OracleTypes
<1>2. CASE \E mid \in HonestPrices \cup OtherPrices : PerpMid(mid)
  BY <1>2, PerpMidTypes
<1>3. CASE StatsArrive
  BY <1>3 DEF StatsArrive, MarkTypes, MarkTypeOK
<1>4. CASE MarkElapse
  BY <1>4, MarkElapseTypes
<1>5. CASE SpotFeedNext
  BY <1>5, SpotTypes
<1>6. CASE UNCHANGED markVars
  BY <1>6 DEF markVars, MarkTypes, MarkTypeOK
<1> QED BY <1>1, <1>2, <1>3, <1>4, <1>5, <1>6 DEF MarkNext, PerpFeedNext

\* Only a mid moves the mark.
LEMMA MarkStepHonest ==
  ASSUME MarkTypes, [MarkNext]_markVars, ema' # ema, FreshSources = External
  PROVE  Min(Around) <= ema' /\ ema' <= Max(Around)
<1>1. \E mid : PerpMid(mid)
  <2>1. ASSUME NEW p \in OraclePolls, StartOracle(p) \/ OracleAnswer(p) PROVE FALSE
    BY <2>1 DEF StartOracle, OracleAnswer
  <2>2. ASSUME StatsArrive \/ MarkElapse PROVE FALSE
    BY <2>2 DEF StatsArrive, MarkElapse
  <2>3. ASSUME SpotFeedNext PROVE FALSE
    BY <2>3 DEF SpotFeedNext, VenueTrades, SocketTicker, PollAnswered, PollTicker,
                TickerArrives, perpVars
  <2>4. ASSUME UNCHANGED markVars PROVE FALSE
    BY <2>4 DEF markVars
  <2> QED BY <2>1, <2>2, <2>3, <2>4 DEF MarkNext, PerpFeedNext
<1> QED BY <1>1, MarkHonest

\* One venue that lies moves the mark out of the range of what the two others
\* show and of the mark before in neither direction, for all prices and weights.
THEOREM OneLiarMovesNothing == MarkSpec => MarkWithinHonest
<1>1. MarkTypes /\ [MarkNext]_markVars =>
        [ema' # ema /\ FreshSources = External =>
           LET mids == IF liar = "hl" THEN {} ELSE HonestPrices
               honest == {sample[s].price : s \in External \ {liar}} \cup mids
               around == honest \cup (IF ema = NoPrice THEN {} ELSE {ema})
           IN  Min(around) <= ema' /\ ema' <= Max(around)]_markVars
  BY MarkStepHonest DEF Around
<1> QED BY <1>1, MarkTypesInit, MarkTypesNext, PTL DEF MarkSpec, MarkWithinHonest

-----------------------------------------------------------------------------
(* The services together.                                                  *)

\* Each part starts as its own specification says, and moves only by its own steps.
LEMMA PartsInit ==
  ServicesInit => /\ FundingInit /\ TwapInit /\ AuthInit /\ CandleInit /\ MirrorInit
                  /\ MarkInit /\ RetentionInit /\ WsInit
BY DEF ServicesInit

LEMMA PartsNext ==
  ASSUME [ServicesNext]_servicesVars
  PROVE  /\ [FundingNext]_fundingVars /\ [TwapNext]_twapVars /\ [AuthNext]_authVars
         /\ [CandleNext]_candleVars /\ [MirrorNext]_mirrorVars /\ [MarkNext]_markVars
         /\ [RetentionNext]_retentionVars /\ [WsNext]_wsVars
<1>1. CASE part = "funding" /\ FundingNext /\ Alone("funding")
  BY <1>1 DEF Alone
<1>2. CASE part = "twaps" /\ TwapNext /\ Alone("twaps")
  BY <1>2 DEF Alone
<1>3. CASE part = "nonces" /\ AuthNext /\ Alone("nonces")
  BY <1>3 DEF Alone
<1>4. CASE part = "candles" /\ CandleNext /\ Alone("candles")
  BY <1>4 DEF Alone
<1>5. CASE part = "mirror" /\ MirrorNext /\ Alone("mirror")
  BY <1>5 DEF Alone
<1>6. CASE \/ part = "marks" /\ PerpFeedNext /\ Alone("marks")
           \/ part = "tickers" /\ SpotFeedNext /\ Alone("tickers")
  BY <1>6 DEF Alone, MarkNext
<1>7. CASE part = "retention" /\ RetentionNext /\ Alone("retention")
  BY <1>7 DEF Alone
<1>8. CASE part = "stream" /\ WsNext /\ Alone("stream")
  BY <1>8 DEF Alone
<1>9. CASE UNCHANGED servicesVars
  BY <1>9 DEF servicesVars
<1> QED BY <1>1, <1>2, <1>3, <1>4, <1>5, <1>6, <1>7, <1>8, <1>9 DEF ServicesNext

\* What is proved of each service holds of all of them, as server.ts starts them.
THEOREM ServicesKeepTheirPromises ==
  ServicesSpec => /\ []OnlyOutageSkips /\ []TwapExact /\ []NonceOnce /\ CandleSound
                  /\ []SocketSound /\ []StaleMeansDown /\ []RetentionSafe /\ []LossSeen
                  /\ MarkWithinHonest
<1>1. ServicesSpec => /\ FundingSpec /\ TwapSpec /\ AuthSpec /\ CandleSpec /\ MarkSpec
                      /\ RetentionSpec
  BY PartsInit, PartsNext, PTL
     DEF ServicesSpec, FundingSpec, TwapSpec, AuthSpec, CandleSpec, MarkSpec, RetentionSpec
<1>2. ServicesSpec => [](SocketInv /\ MirrorInv /\ StreamTypes /\ StreamInv)
  BY PartsInit, PartsNext, SocketStarts, MirrorMovesSocket, MirrorInvInit, MirrorInvNext,
     StreamInitInv, StreamInvNext, PTL DEF ServicesSpec
<1>3. SocketInv /\ MirrorInv /\ StreamInv => SocketSound /\ StaleMeansDown /\ LossSeen
  BY StaleBooks DEF SocketInv, StreamInv, LossSeen
<1> QED BY <1>1, <1>2, <1>3, NoEpochIsSkipped, TwapsAreExact, NoncesAreSingleUse,
           CandlesCoverCalls, OneLiarMovesNothing, PruningIsSafe, PTL

-----------------------------------------------------------------------------
(* The types of all of them.                                               *)

\* The inductive invariants of the parts, with what their types need besides.
PartsInv ==
  /\ FundingInv
  /\ TwapInv /\ JobsTimed /\ TickBounded
  /\ AuthInv /\ TabTypes /\ EntriesTimed
  /\ CandleInv /\ CallsApart
  /\ MirrorInv /\ SocketTypes /\ ClocksBounded
  /\ MarkTypes
  /\ RetentionInv /\ PruneTypes
  /\ StreamTypes /\ StreamInv /\ StreamBounds

LEMMA PartsInvInit == ServicesInit => PartsInv
BY PartsInit, FundingInvInit, TwapInvInit, TwapTypesInit, AuthInvInit, AuthTypesInit,
   CandleInvInit, CallsApartInit, MirrorInvInit, MirrorTypesInit, MarkTypesInit,
   RetentionInvInit, PruneTypesInit, StreamInitInv, StreamBoundsInit DEF PartsInv

LEMMA PartsInvNext == PartsInv /\ [ServicesNext]_servicesVars => PartsInv'
<1> SUFFICES ASSUME PartsInv, [ServicesNext]_servicesVars PROVE PartsInv'
  OBVIOUS
<1>1. /\ [FundingNext]_fundingVars /\ [TwapNext]_twapVars /\ [AuthNext]_authVars
      /\ [CandleNext]_candleVars /\ [MirrorNext]_mirrorVars /\ [MarkNext]_markVars
      /\ [RetentionNext]_retentionVars /\ [WsNext]_wsVars
  BY PartsNext
<1>2. FundingInv'
  BY <1>1, FundingInvNext DEF PartsInv
<1>3. TwapInv' /\ JobsTimed' /\ TickBounded'
  BY <1>1, TwapInvNext, JobsTimedNext, TickBoundedNext DEF PartsInv
<1>4. AuthInv' /\ TabTypes' /\ EntriesTimed'
  BY <1>1, AuthInvNext, TabTypesNext, EntriesTimedNext DEF PartsInv
<1>5. CandleInv' /\ CallsApart'
  BY <1>1, CandleInvNext, CallsApartNext DEF PartsInv
<1>6. MirrorInv' /\ SocketTypes' /\ ClocksBounded'
  BY <1>1, MirrorInvNext, SocketTypesNext, ClocksBoundedNext DEF PartsInv
<1>7. MarkTypes'
  BY <1>1, MarkTypesNext DEF PartsInv
<1>8. RetentionInv' /\ PruneTypes'
  BY <1>1, RetentionInvNext, PruneTypesNext DEF PartsInv
<1>9. StreamTypes' /\ StreamInv' /\ StreamBounds'
  BY <1>1, StreamInvNext, StreamBoundsNext DEF PartsInv
<1> QED BY <1>2, <1>3, <1>4, <1>5, <1>6, <1>7, <1>8, <1>9 DEF PartsInv

LEMMA PartsTyped == PartsInv => ServicesTypeOK
<1> SUFFICES ASSUME PartsInv PROVE ServicesTypeOK
  OBVIOUS
<1>1. FundingTypeOK
  BY PassedIsOnlyOutageSkips DEF PartsInv
<1>2. TwapTypeOK
  BY TwapTypeIs DEF PartsInv
<1>3. AuthTypeOK
  BY AuthTypeIs DEF PartsInv
<1>4. CandleTypeOK
  BY CandleTypeIs DEF PartsInv
<1>5. MirrorTypeOK
  BY MirrorTypeIs DEF PartsInv
<1>6. MarkTypeOK
  BY DEF PartsInv, MarkTypes
<1>7. RetentionTypeOK
  BY RetentionTypeIs DEF PartsInv
<1>8. WsTypeOK
  BY WsTypeIs DEF PartsInv
<1> QED BY <1>1, <1>2, <1>3, <1>4, <1>5, <1>6, <1>7, <1>8 DEF ServicesTypeOK

\* The state of every service stays within its type through all its steps: no
\* clock, number or queue of funding.ts, twap.ts, auth.ts, candles.ts,
\* bookMirror.ts, feeds.ts, retention.ts, wsHub.ts and ws.ts leaves its range.
THEOREM ServicesTyped == ServicesSpec => []ServicesTypeOK
BY PartsInvInit, PartsInvNext, PartsTyped, PTL DEF ServicesSpec
=============================================================================
