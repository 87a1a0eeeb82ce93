----------------------------- MODULE BookMirror -----------------------------
(***************************************************************************)
(* apps/api/src/bookMirror.ts.  The house account quotes, in the local     *)
(* book, the depth a venue streams for the markets somebody watches.  A    *)
(* snapshot is applied by a pipeline command some time after it arrived; a *)
(* refresh every two seconds takes down the book of a market nobody        *)
(* watches any more or whose feed went silent.  Users trade with the       *)
(* quotes between commands.  The pipeline is the queue of its commands.    *)
(***************************************************************************)
EXTENDS VenueSocket, SequencesExt, FiniteSetsExt, FixedPoint

CONSTANTS
  Mirrorable,      \* the markets, a coin each
  AlwaysOn,        \* ALWAYS_ON
  VenueBooks,      \* the books a venue may show
  MirrorTick, MirrorLot, MirrorMinNotional,   \* the market's grid and minimum
  Depth,           \* DEPTH
  StaleAfter,      \* STALE_MS
  MaxMirrorQueue   \* bound: commands in the queue

ASSUME MirrorAssumption ==
  /\ AlwaysOn \subseteq Mirrorable /\ Mirrorable = Coins /\ IsFiniteSet(Mirrorable)
  /\ MirrorTick \in Nat \ {0} /\ MirrorLot \in Nat \ {0}
  /\ MirrorMinNotional \in Nat /\ Depth \in Nat \ {0} /\ StaleAfter \in Nat

VARIABLES
  watched,     \* hub.subscribedBooks()
  mirrored,    \* the active set of the last refresh
  snapshot,    \* market -> lastSnapshotAt, as an age; pending; its timer
  staleFlag,   \* the markets the hub shows as stale
  mirrorQueue, \* the pipeline
  house        \* market -> the quotes of MIRROR_USER

mirrorVars ==
  <<link, wanted, heard, wire, watched, mirrored, snapshot, staleFlag,
    mirrorQueue, house>>

NoBook == [bids |-> <<>>]          \* no book, which is not an empty one
NoClock == StaleAfter + 2          \* lastSnapshotAt has no entry
Silent == StaleAfter + 1           \* ages saturate here
NoSnapshot == [age |-> NoClock, pending |-> NoBook, timer |-> FALSE]

-----------------------------------------------------------------------------
(* applyMirrorSnapshot.                                                    *)

\* Bids are snapped down and asks up to the tick; dust is left out; levels that
\* land on one price are added up.
Snapped(side, p) ==
  MirrorTick * (IF side = "buy" THEN DivFloor(p, MirrorTick) ELSE DivCeil(p, MirrorTick))

Lots(l) == MirrorLot * DivFloor(l.qty, MirrorLot)

Merged(levels, same) == MapThenSumSet(LAMBDA i : Lots(levels[i]), same)

Desire(levels, side) ==
  LET shown == {i \in DOMAIN levels : i <= Depth}
      kept == {i \in shown :
                 LET p == Snapped(side, levels[i].price)
                     q == Lots(levels[i])
                 IN  p > 0 /\ q >= MirrorLot /\ MulUnits(q, p) >= MirrorMinNotional}
      at(p) == {i \in kept : Snapped(side, levels[i].price) = p}
  IN  {[side |-> side, price |-> p,
        qty |-> Merged(levels, at(p))] :
         p \in {Snapped(side, levels[i].price) : i \in kept}}

\* A bid at or above the best ask is dropped.
Quotes(book) ==
  LET asks == Desire(book.asks, "sell")
  IN  asks \cup {b \in Desire(book.bids, "buy") : \A a \in asks : b.price < a.price}

\* Quotes that are already right stay, the others are cancelled and placed; the
\* account is given what it lacks, so none is refused.  Users' resting orders
\* may take from a quote as it is placed: UserFills does.
MirrorCommand ==
  /\ mirrorQueue # <<>>
  /\ LET c == Head(mirrorQueue) IN
       house' = [house EXCEPT ![c.market] =
                   IF c.book = NoBook THEN {} ELSE Quotes(c.book)]
  /\ mirrorQueue' = Tail(mirrorQueue)
  /\ UNCHANGED <<link, wanted, heard, wire, watched, mirrored, snapshot, staleFlag>>

\* A user's order takes some or all of a quote.
UserFills(m, o) ==
  /\ o \in house[m]
  /\ \E left \in {0, o.qty - MirrorLot} :
       house' = [house EXCEPT ![m] =
         (@ \ {o}) \cup (IF left = 0 THEN {} ELSE {[o EXCEPT !.qty = left]})]
  /\ UNCHANGED <<link, wanted, heard, wire, watched, mirrored, snapshot,
                 staleFlag, mirrorQueue>>

-----------------------------------------------------------------------------
(* Snapshots.                                                              *)

Enqueue(q, m, book) == Append(q, [market |-> m, book |-> book])

\* flush(): nothing when no snapshot is pending.
Flush(s, q, m) ==
  /\ snapshot' = [s EXCEPT ![m].pending = NoBook]
  /\ mirrorQueue' = IF s[m].pending = NoBook THEN q ELSE Enqueue(q, m, s[m].pending)

\* onSnapshot(): applied at once, or by the timer when one was applied less than
\* APPLY_MS ago; the flag is cleared either way.
OnSnapshot(m, book) ==
  LET s == [snapshot EXCEPT ![m].age = 0, ![m].pending = book] IN
  /\ FrameArrives(m)
  /\ Len(mirrorQueue) < MaxMirrorQueue
  /\ staleFlag' = staleFlag \ {m}
  /\ \/ Flush(s, mirrorQueue, m)
     \/ /\ snapshot' = [s EXCEPT ![m].timer = TRUE]
        /\ UNCHANGED mirrorQueue
  /\ UNCHANGED <<watched, mirrored, house>>

ThrottleFires(m) ==
  /\ snapshot[m].timer /\ ~link.final /\ Len(mirrorQueue) < MaxMirrorQueue
  /\ Flush([snapshot EXCEPT ![m].timer = FALSE], mirrorQueue, m)
  /\ UNCHANGED <<link, wanted, heard, wire, watched, mirrored, staleFlag, house>>

-----------------------------------------------------------------------------
(* The refresh.                                                            *)

Drop_keepsPending(s) == s

\* takeDown(): a snapshot that waits for its timer is forgotten.
Drop(s) == [s EXCEPT !.pending = NoBook]

\* The active set changes; books of markets that left it, and of markets whose
\* feed is silent and not yet flagged, come down; new ones get a clock.
Refresh ==
  LET next == AlwaysOn \cup watched
      gone == mirrored \ next
      seeded(m) == IF m \in next \ mirrored /\ snapshot[m].age = NoClock THEN 0
                   ELSE snapshot[m].age
      silent == {m \in next \ staleFlag : seeded(m) = Silent}
  IN  /\ ~link.final
      /\ Len(mirrorQueue) + Cardinality(gone \cup silent) <= MaxMirrorQueue
      /\ SetCoins(next)
      /\ snapshot' = [m \in Mirrorable |->
           IF m \in gone THEN [Drop(snapshot[m]) EXCEPT !.age = NoClock]
           ELSE IF m \in silent THEN Drop(snapshot[m])
           ELSE [snapshot[m] EXCEPT !.age = seeded(m)]]
      /\ staleFlag' = (staleFlag \ gone) \cup silent
      /\ mirrorQueue' =
           mirrorQueue \o SetToSeq({[market |-> m, book |-> NoBook] : m \in gone \cup silent})
      /\ mirrored' = next
      /\ UNCHANGED <<watched, house>>

MirrorElapse ==
  /\ snapshot' = [m \in Mirrorable |-> [snapshot[m] EXCEPT
                    !.age = IF @ < Silent THEN @ + 1 ELSE @]]
  /\ UNCHANGED <<link, wanted, heard, wire, watched, mirrored, staleFlag,
                 mirrorQueue, house>>

\* Clients subscribe to a market's book, or the last one leaves.
Watch(m) ==
  /\ \/ watched' = watched \cup {m}
     \/ watched' = watched \ {m}
  /\ UNCHANGED <<link, wanted, heard, wire, mirrored, snapshot, staleFlag,
                 mirrorQueue, house>>

\* The house's orders are restored like anyone's; all else starts over.
MirrorRestart ==
  /\ link' = Connect(NewLink) /\ wanted' = AlwaysOn /\ heard' = {} /\ wire' = <<>>
  /\ watched' = {} /\ mirrored' = AlwaysOn /\ staleFlag' = {} /\ mirrorQueue' = <<>>
  /\ snapshot' = [m \in Mirrorable |->
                    IF m \in AlwaysOn THEN [NoSnapshot EXCEPT !.age = 0] ELSE NoSnapshot]
  /\ UNCHANGED house

MirrorInit ==
  /\ SocketInit(AlwaysOn)
  /\ watched = {} /\ mirrored = AlwaysOn /\ staleFlag = {} /\ mirrorQueue = <<>>
  /\ snapshot = [m \in Mirrorable |->
                   IF m \in AlwaysOn THEN [NoSnapshot EXCEPT !.age = 0] ELSE NoSnapshot]
  /\ house = [m \in Mirrorable |-> {}]

\* stop(): no more snapshots, timers or refreshes; the quotes stay.
StopMirror ==
  /\ ~link.final /\ CloseSocket
  /\ snapshot' = [m \in Mirrorable |-> [snapshot[m] EXCEPT !.timer = FALSE]]
  /\ UNCHANGED <<watched, mirrored, staleFlag, mirrorQueue, house>>

\* Socket steps that the mirror does not see.
MirrorLink ==
  /\ SocketStep \/ \E c \in Coins : VenueSends(c)
  /\ UNCHANGED <<watched, mirrored, snapshot, staleFlag, mirrorQueue, house>>

MirrorNext ==
  \/ MirrorLink \/ MirrorCommand \/ Refresh \/ MirrorElapse
  \/ StopMirror \/ MirrorRestart
  \/ \E m \in Mirrorable :
       \/ \E book \in VenueBooks : OnSnapshot(m, book)
       \/ ThrottleFires(m) \/ Watch(m)
       \/ \E o \in house[m] : UserFills(m, o)

\* The refresh timer ticks, time passes, the pipeline runs its commands.
MirrorSpec ==
  /\ MirrorInit /\ [][MirrorNext]_mirrorVars
  /\ WF_mirrorVars(Refresh) /\ WF_mirrorVars(MirrorElapse)
  /\ WF_mirrorVars(MirrorCommand)

-----------------------------------------------------------------------------
(* Properties.                                                             *)

MirrorTypeOK ==
  /\ link.state \in {"none", "connecting", "open"} /\ link.attempts \in 0..BackoffCap
  /\ wanted \cup heard \subseteq Coins /\ Range(wire) \subseteq Coins
  /\ watched \cup mirrored \cup staleFlag \subseteq Mirrorable
  /\ \A m \in Mirrorable :
       /\ snapshot[m].age \in 0..NoClock
       /\ snapshot[m].pending \in VenueBooks \cup {NoBook}

QueuedFor(m) == \E i \in DOMAIN mirrorQueue : mirrorQueue[i].market = m

\* A market shown as stale has no book (or the command that takes it down is
\* queued behind everything that could put quotes up): no snapshot that waited
\* for its timer, no command already queued, brings a stale book back without
\* clearing the flag.  And the house never quotes a crossed book, whatever the
\* venue shows and whatever its tick grid does to it.
StaleMeansDown ==
  \A m \in Mirrorable :
    /\ m \in staleFlag /\ ~QueuedFor(m) => house[m] = {}
    /\ \A b, a \in house[m] : b.side = "buy" /\ a.side = "sell" => b.price < a.price

\* A book of the active set whose feed has gone silent does not stay up: it comes
\* down, or the feed comes back, or the market leaves the set, or the mirror is
\* stopped.
FrozenBookComesDown ==
  \A m \in Mirrorable :
    (m \in mirrored /\ house[m] # {} /\ snapshot[m].age = Silent)
      ~> (house[m] = {} \/ snapshot[m].age # Silent \/ m \notin mirrored
          \/ link.final)

\* "A market left the active set -> take its mirror down (a frozen book lies)"
\* (bookMirror.ts:252): a market that is not mirrored, and for which nothing is
\* queued or pending, has no quotes.
UnwatchedIsDown ==
  \A m \in Mirrorable :
    m \notin mirrored /\ ~QueuedFor(m) /\ snapshot[m].pending = NoBook
      => house[m] = {}
=============================================================================
