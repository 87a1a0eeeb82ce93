--------------------------- MODULE PipelineProofs ---------------------------
(***************************************************************************)
(* Theorems of the command pipeline, for any calls, leverages and bounds:  *)
(* the invariants of Pipeline, and that it implements DurableLog.          *)
(***************************************************************************)
EXTENDS Pipeline, SequenceTheorems, TLAPS

Projecting == active # NoTask /\ active.step \in {"apply", "skip"}
Projected == active # NoTask /\ active.step \in {"dispatch", "dispatchRejected"}

\* Every waiting task is of a call that waits, of one kind with it, and no call
\* has two.
QueueOK ==
  \A i \in DOMAIN queue :
    /\ at[queue[i].call] = "queued"
    /\ queue[i].step = "op" <=> queue[i].call \in Orders \cup Faucets
    /\ \A j \in DOMAIN queue : queue[i].call = queue[j].call => i = j

\* So it is of the task under way, which has left the queue.
ActiveOK ==
  active # NoTask =>
    /\ at[active.call] = "queued"
    /\ active.step \in {"skip", "dispatchRejected"} => active.call \in Orders
    /\ active.step # "save" => active.entry.call = active.call
    /\ \A i \in DOMAIN queue : queue[i].call # active.call

DownOK == ~up => queue = <<>> /\ active = NoTask

\* The call has left the queue with its command in the engine's history: it has
\* ended, or its batch is under way.
Settled(c) ==
  \/ at[c] \in {"ok", "failed", "lost"}
  \/ active # NoTask /\ active.call = c /\ active.step \in {"apply", "dispatch"}

HistoryOK(log) ==
  \A i \in DOMAIN log :
    /\ Settled(log[i].call)
    /\ \A j \in DOMAIN log : log[i].call = log[j].call => i = j

\* A command is in the durable history before its call succeeds, and not while
\* its batch is being applied.
AckedOK ==
  /\ \A c \in Orders \cup Faucets : at[c] = "ok" => Entry(db.log, c)
  /\ active # NoTask /\ active.step = "apply" => ~Entry(db.log, active.call)
  /\ active # NoTask /\ active.step = "dispatch" => Entry(db.log, active.call)

\* The engine is never behind the watermark, a batch is above it until it
\* commits, and what was broadcast is below both.
SeqsOK ==
  /\ up => db.watermark <= engine.seq
  /\ Projecting => active.entry.seq = engine.seq /\ db.watermark < engine.seq
  /\ Projected =>
       /\ active.entry.seq = db.watermark
       /\ \A i \in DOMAIN sent : sent[i] < db.watermark
  /\ BroadcastInOrder

\* One faucet call at most has passed the claim.
ClaimOK ==
  \A c \in Faucets : at[c] \notin {"new", "refused"} =>
    /\ db.claimed
    /\ \A d \in Faucets : at[d] \notin {"new", "refused"} => c = d

\* The inductive invariant.
IInv ==
  /\ TypeOK
  /\ QueueOK /\ ActiveOK /\ DownOK
  /\ HistoryOK(engine.log) /\ HistoryOK(db.log)
  /\ AckedOK
  /\ SeqsOK
  /\ ClaimOK
  /\ EngineIsProjection
-----------------------------------------------------------------------------
(* The state and its sequences.                                            *)

\* A sequence that an element joins.
LEMMA AppendElement ==
  ASSUME NEW S, NEW s \in Seq(S), NEW e \in S
  PROVE  /\ Append(s, e) \in Seq(S)
         /\ DOMAIN s = 1..Len(s) /\ Len(s) \in Nat
         /\ DOMAIN Append(s, e) = 1..(Len(s) + 1)
         /\ \A i \in DOMAIN s : Append(s, e)[i] = s[i]
         /\ Append(s, e)[Len(s) + 1] = e
  BY AppendProperties

\* A sequence that loses its head.
LEMMA TailElement ==
  ASSUME NEW S, NEW s \in Seq(S), s # <<>>
  PROVE  /\ Tail(s) \in Seq(S) /\ Head(s) \in S
         /\ Head(s) = s[1] /\ 1 \in DOMAIN s
         /\ \A i \in DOMAIN Tail(s) :
              i + 1 \in DOMAIN s /\ i + 1 # 1 /\ Tail(s)[i] = s[i + 1]
         /\ \A i, j \in DOMAIN Tail(s) : i + 1 = j + 1 => i = j
<1>1. Len(s) \in Nat /\ DOMAIN s = 1..Len(s) /\ Len(s) # 0
  BY EmptySeq, LenProperties
<1>2. Tail(s) \in Seq(S) /\ Len(Tail(s)) = Len(s) - 1 /\ Head(s) = s[1]
      /\ Head(s) \in S
      /\ \A i \in 1..Len(Tail(s)) : Tail(s)[i] = s[i + 1]
  BY HeadTailProperties
<1>3. DOMAIN Tail(s) = 1..(Len(s) - 1)
  BY <1>2, LenProperties
<1> QED BY <1>1, <1>2, <1>3

\* What is in the state's sequences, and whose task is under way.
LEMMA StateTypes ==
  ASSUME TypeOK
  PROVE  /\ queue \in Seq(Tasks)
         /\ \A i \in DOMAIN queue : queue[i] \in Tasks /\ queue[i].call \in Calls
         /\ engine.log \in Seq(Entries) /\ db.log \in Seq(Entries)
         /\ \A i \in DOMAIN engine.log :
              engine.log[i] \in Entries /\ engine.log[i].call \in Orders \cup Faucets
         /\ \A i \in DOMAIN db.log :
              db.log[i] \in Entries /\ db.log[i].call \in Orders \cup Faucets
         /\ active # NoTask => active \in Started /\ active.call \in Calls
         /\ sent \in Seq(Nat \ {0})
         /\ \A i \in DOMAIN sent : sent[i] \in Nat
         /\ engine.seq \in Nat /\ db.watermark \in Nat
<1>1. /\ queue \in Seq(Tasks) /\ sent \in Seq(Nat \ {0})
      /\ engine.log \in Seq(Entries) /\ db.log \in Seq(Entries)
      /\ active # NoTask => active \in Started
      /\ engine.seq \in Nat /\ db.watermark \in Nat
  BY DEF TypeOK
<1>2. \A S : \A s \in Seq(S) : \A i \in DOMAIN s : s[i] \in S
  BY ElementOfSeq, LenProperties
<1>3. /\ \A i \in DOMAIN queue : queue[i] \in Tasks
      /\ \A i \in DOMAIN engine.log : engine.log[i] \in Entries
      /\ \A i \in DOMAIN db.log : db.log[i] \in Entries
      /\ \A i \in DOMAIN sent : sent[i] \in Nat \ {0}
  BY <1>1, <1>2
<1>4. \A t \in Tasks : t.call \in Calls
  BY DEF Tasks
<1>5. \A e \in Entries : e.call \in Orders \cup Faucets
  BY DEF Entries
<1>6. \A t \in Started : t.call \in Calls
  BY DEF Started, Calls
<1> QED BY <1>1, <1>3, <1>4, <1>5, <1>6

\* The queue without its head, whose call may move on.
LEMMA QueueShrinks ==
  ASSUME TypeOK, QueueOK, queue # <<>>, queue' = Tail(queue),
         \A c \in Calls : c # Head(queue).call => at'[c] = at[c]
  PROVE  /\ QueueOK'
         /\ queue' \in Seq(Tasks)
         /\ \A i \in DOMAIN queue' :
              queue'[i].call # Head(queue).call
                /\ \E k \in DOMAIN queue : queue'[i] = queue[k]
         /\ Head(queue) \in Tasks /\ Head(queue).call \in Calls
         /\ at[Head(queue).call] = "queued"
         /\ Head(queue).step = "op" <=> Head(queue).call \in Orders \cup Faucets
<1>1. queue \in Seq(Tasks)
      /\ \A i \in DOMAIN queue : queue[i] \in Tasks /\ queue[i].call \in Calls
  BY StateTypes
<1>2. /\ queue' \in Seq(Tasks) /\ Head(queue) = queue[1] /\ 1 \in DOMAIN queue
      /\ \A i \in DOMAIN queue' :
           i + 1 \in DOMAIN queue /\ i + 1 # 1 /\ queue'[i] = queue[i + 1]
      /\ \A i, j \in DOMAIN queue' : i + 1 = j + 1 => i = j
  BY <1>1, TailElement
<1>3. \A i \in DOMAIN queue' :
        queue'[i].call # Head(queue).call /\ queue'[i].call \in Calls
  BY <1>1, <1>2 DEF QueueOK
<1>4. QueueOK'
  BY <1>1, <1>2, <1>3 DEF QueueOK
<1> QED BY <1>1, <1>2, <1>3, <1>4 DEF QueueOK

\* Histories that stay, of calls that stay settled.
LEMMA HistoryStays ==
  ASSUME TypeOK, HistoryOK(engine.log), HistoryOK(db.log),
         engine.log' = engine.log, db.log' = db.log,
         \A c \in Orders \cup Faucets : Settled(c) => Settled(c)'
  PROVE  HistoryOK(engine.log)' /\ HistoryOK(db.log)'
  BY StateTypes DEF HistoryOK
-----------------------------------------------------------------------------
(* The invariant holds initially and is kept by every action.              *)

LEMMA InitInv == Init => IInv
<1> SUFFICES ASSUME Init PROVE IInv
  OBVIOUS
<1>1. \A S : <<>> \in Seq(S)
  BY EmptySeq
<1>2. TypeOK
  <2>1. queue \in Seq(Tasks) /\ sent \in Seq(Nat \ {0})
    BY <1>1 DEF Init
  <2>2. engine \in [log : Seq(Entries), leverage : Nat \ {0}, seq : Nat]
    BY <1>1, PipelineAssumption DEF Init
  <2>3. db \in [log : Seq(Entries), leverage : Nat \ {0}, claimed : BOOLEAN,
                watermark : Nat]
    BY <1>1, PipelineAssumption DEF Init
  <2> QED BY <2>1, <2>2, <2>3 DEF Init, TypeOK
<1>3. DOMAIN queue = {} /\ DOMAIN engine.log = {} /\ DOMAIN db.log = {}
      /\ DOMAIN sent = {} /\ active = NoTask
  BY DEF Init
<1>4. \A c \in Calls : at[c] = "new"
  BY DEF Init
<1>5. QueueOK /\ ActiveOK /\ DownOK /\ HistoryOK(engine.log) /\ HistoryOK(db.log)
  BY <1>3 DEF Init, QueueOK, ActiveOK, DownOK, HistoryOK
<1>6. AckedOK /\ ClaimOK
  BY <1>3, <1>4 DEF AckedOK, ClaimOK, Calls
<1>7. SeqsOK /\ EngineIsProjection
  BY <1>3 DEF Init, SeqsOK, BroadcastInOrder, Projecting, Projected,
              EngineIsProjection
<1> QED BY <1>2, <1>5, <1>6, <1>7 DEF IInv

\* A call that moves on, into the chain or past a poisoned pipeline.
LEMMA EnqueueInv ==
  ASSUME IInv, up, NEW c \in Calls, NEW step \in {"op", "set", "save"},
         at[c] \in {"new", "claimed", "applied"},
         step = "op" <=> c \in Orders \cup Faucets,
         c \in Faucets => at[c] = "claimed",
         Enqueue(c, step, "queued"),
         UNCHANGED <<up, poisoned, active, engine, db, sent, failures, crashes>>
  PROVE  IInv'
<1> USE DEF IInv
<1> DEFINE t == [call |-> c, step |-> step]
<1>1. /\ at' \in [Calls -> {"new", "claimed", "queued", "applied", "ok",
                            "refused", "failed", "lost"}]
      /\ at'[c] \in {"queued", "failed"}
      /\ \A d \in Calls : d # c => at'[d] = at[d]
  BY DEF TypeOK, Enqueue
<1>2. /\ \/ queue' = queue /\ at'[c] = "failed"
         \/ queue' = Append(queue, t) /\ at'[c] = "queued"
      /\ t \in Tasks
  BY DEF Enqueue, TypeOK, Tasks
<1>3. /\ queue \in Seq(Tasks)
      /\ \A i \in DOMAIN queue :
           queue[i] \in Tasks /\ queue[i].call \in Calls /\ queue[i].call # c
      /\ active # NoTask => active.call # c /\ active.call \in Calls
  BY StateTypes DEF QueueOK, ActiveOK
<1>4. /\ queue' \in Seq(Tasks)
      /\ \/ queue' = queue
         \/ /\ at'[c] = "queued"
            /\ \A i \in DOMAIN queue' :
                 \/ i \in DOMAIN queue /\ queue'[i] = queue[i]
                 \/ i = Len(queue) + 1 /\ queue'[i] = t
  <2>1. CASE queue' = queue
    BY <2>1, <1>3
  <2>2. CASE queue' = Append(queue, t) /\ at'[c] = "queued"
    <3>1. /\ Append(queue, t) \in Seq(Tasks)
          /\ DOMAIN queue = 1..Len(queue) /\ Len(queue) \in Nat
          /\ DOMAIN Append(queue, t) = 1..(Len(queue) + 1)
          /\ \A i \in DOMAIN queue : Append(queue, t)[i] = queue[i]
          /\ Append(queue, t)[Len(queue) + 1] = t
      BY <1>2, <1>3, AppendElement
    <3>2. queue' \in Seq(Tasks)
      BY <2>2, <3>1
    <3>3. \A i \in DOMAIN queue' : i \in DOMAIN queue \/ i = Len(queue) + 1
      BY <2>2, <3>1
    <3>4. \A i \in DOMAIN queue' :
            \/ i \in DOMAIN queue /\ queue'[i] = queue[i]
            \/ i = Len(queue) + 1 /\ queue'[i] = t
      BY <2>2, <3>1, <3>3
    <3> QED BY <2>2, <3>2, <3>4
  <2> QED BY <1>2, <2>1, <2>2
<1>5. TypeOK'
  BY <1>1, <1>4 DEF TypeOK
<1>6. QueueOK'
  BY <1>1, <1>3, <1>4 DEF QueueOK
<1>7. ActiveOK' /\ DownOK'
  BY <1>1, <1>3, <1>4 DEF ActiveOK, DownOK
<1>8. \A d \in Orders \cup Faucets : Settled(d) => Settled(d)'
  BY <1>1, <1>3 DEF Settled, Calls
<1>9. HistoryOK(engine.log)' /\ HistoryOK(db.log)'
  BY <1>8, HistoryStays
<1>10. AckedOK'
  BY <1>1 DEF AckedOK, Entry, Calls
<1>11. SeqsOK' /\ EngineIsProjection'
  BY DEF SeqsOK, EngineIsProjection, BroadcastInOrder, Projecting, Projected
<1>12. ClaimOK'
  BY <1>1 DEF ClaimOK, Calls
<1> QED BY <1>5, <1>6, <1>7, <1>9, <1>10, <1>11, <1>12

LEMMA ClaimFaucetInv ==
  ASSUME IInv, NEW c \in Calls, ClaimFaucet(c)
  PROVE  IInv'
<1> USE DEF IInv
<1>1. /\ at' \in [Calls -> {"new", "claimed", "queued", "applied", "ok",
                            "refused", "failed", "lost"}]
      /\ at[c] = "new" /\ at'[c] \in {"claimed", "refused"}
      /\ \A d \in Calls : d # c => at'[d] = at[d]
      /\ up /\ c \in Faucets
      /\ UNCHANGED <<up, poisoned, queue, active, engine, sent>>
  BY DEF TypeOK, ClaimFaucet
<1>2. /\ db' \in [log : Seq(Entries), leverage : Nat \ {0}, claimed : BOOLEAN,
                  watermark : Nat]
      /\ db'.log = db.log /\ db'.watermark = db.watermark
      /\ db'.claimed = (db.claimed \/ at'[c] = "claimed")
      /\ at'[c] = "claimed" => ~db.claimed
  <2>1. PICK l \in Seq(Entries), v \in Nat \ {0}, b \in BOOLEAN, w \in Nat :
          db = [log |-> l, leverage |-> v, claimed |-> b, watermark |-> w]
    BY DEF TypeOK
  <2>2. at'[c] = IF b THEN "refused" ELSE "claimed"
    BY <2>1 DEF TypeOK, ClaimFaucet, MayClaim
  <2>3. db' = [log |-> l, leverage |-> v, claimed |-> TRUE, watermark |-> w]
    BY <2>1 DEF ClaimFaucet, MayClaim
  <2> QED BY <2>1, <2>2, <2>3
<1>3. /\ \A i \in DOMAIN queue : queue[i].call \in Calls /\ queue[i].call # c
      /\ active # NoTask => active.call # c /\ active.call \in Calls
  BY <1>1, StateTypes DEF QueueOK, ActiveOK
<1>4. TypeOK'
  BY <1>1, <1>2 DEF TypeOK
<1>5. QueueOK' /\ ActiveOK' /\ DownOK'
  BY <1>1, <1>3 DEF QueueOK, ActiveOK, DownOK
<1>6. \A d \in Orders \cup Faucets : Settled(d) => Settled(d)'
  BY <1>1 DEF Settled, Calls
<1>7. HistoryOK(engine.log)' /\ HistoryOK(db.log)'
  BY <1>1, <1>2, <1>6, HistoryStays
<1>8. AckedOK'
  BY <1>1, <1>2 DEF AckedOK, Entry, Calls
<1>9. SeqsOK' /\ EngineIsProjection'
  BY <1>1, <1>2 DEF SeqsOK, EngineIsProjection, BroadcastInOrder, Projecting,
                    Projected
<1>10. ClaimOK'
  BY <1>1, <1>2 DEF ClaimOK, Calls
<1> QED BY <1>4, <1>5, <1>7, <1>8, <1>9, <1>10

LEMMA HandlersInv == ASSUME IInv, Handlers PROVE IInv'
<1>1. PICK c \in Calls : \/ PlaceOrder(c) \/ ClaimFaucet(c) \/ CreditFaucet(c)
                         \/ AskLeverage(c) \/ SaveLeverage(c)
  BY DEF Handlers
<1>2. CASE PlaceOrder(c)
  BY <1>2, EnqueueInv, PipelineAssumption DEF PlaceOrder
<1>3. CASE ClaimFaucet(c)
  BY <1>3, ClaimFaucetInv
<1>4. CASE CreditFaucet(c)
  BY <1>4, EnqueueInv, PipelineAssumption DEF CreditFaucet
<1>5. CASE AskLeverage(c)
  BY <1>5, EnqueueInv, PipelineAssumption DEF AskLeverage
<1>6. CASE SaveLeverage(c)
  BY <1>6, EnqueueInv, PipelineAssumption DEF SaveLeverage
<1> QED BY <1>1, <1>2, <1>3, <1>4, <1>5, <1>6

\* The entry of a command that may run is one, numbered after all others, and
\* neither history has the command.
LEMMA NextEntry ==
  ASSUME IInv, Ready("op")
  PROVE  LET c == Head(queue).call IN
         /\ c \in Orders \cup Faucets /\ ~Settled(c) /\ at[c] = "queued"
         /\ EntryFor(c) \in Entries /\ EntryFor(c).call = c
         /\ EntryFor(c).seq = engine.seq + 1
         /\ ~Entry(engine.log, c) /\ ~Entry(db.log, c)
<1> DEFINE c == Head(queue).call
<1>1. 1 \in DOMAIN queue /\ Head(queue) = queue[1] /\ active = NoTask
      /\ Head(queue).step = "op"
  BY StateTypes, TailElement DEF IInv, Ready
<1>2. c \in Orders \cup Faucets /\ at[c] = "queued"
  BY <1>1 DEF IInv, QueueOK
<1>3. ~Settled(c)
  BY <1>1, <1>2 DEF Settled
<1>4. EntryFor(c) \in Entries
  <2>1. engine.seq + 1 \in Nat \ {0} /\ engine.leverage \in Nat \ {0}
    BY StateTypes DEF IInv, TypeOK
  <2>2. (IF engine.log = <<>> THEN 0 ELSE Last(engine.log).seq) \in Nat
    <3>1. engine.log # <<>> => Last(engine.log) \in Entries
      BY StateTypes, LenProperties, EmptySeq DEF IInv, Last
    <3>2. \A e \in Entries : e.seq \in Nat
      BY DEF Entries
    <3> QED BY <3>1, <3>2
  <2> QED BY <1>2, <2>1, <2>2 DEF EntryFor, Entries
<1>5. EntryFor(c).call = c /\ EntryFor(c).seq = engine.seq + 1
  BY DEF EntryFor
<1>6. ~Entry(engine.log, c) /\ ~Entry(db.log, c)
  BY <1>3 DEF IInv, HistoryOK, Entry
<1> QED BY <1>2, <1>3, <1>4, <1>5, <1>6

LEMMA StartOpInv == ASSUME IInv, StartOp PROVE IInv'
<1> DEFINE c == Head(queue).call
           e == EntryFor(c)
<1>1. /\ Ready("op") /\ queue # <<>> /\ up /\ active = NoTask
      /\ queue' = Tail(queue)
      /\ engine' = [engine EXCEPT !.log = Append(engine.log, e),
                                  !.seq = engine.seq + 1]
      /\ active' = [call |-> c, step |-> "apply", entry |-> e]
      /\ UNCHANGED <<up, poisoned, db, at, sent>>
  BY DEF StartOp, Ready
<1>2. /\ c \in Orders \cup Faucets /\ ~Settled(c) /\ at[c] = "queued"
      /\ e \in Entries /\ e.call = c /\ e.seq = engine.seq + 1
      /\ ~Entry(engine.log, c) /\ ~Entry(db.log, c)
  BY <1>1, NextEntry
<1> HIDE DEF e
<1>3. /\ QueueOK' /\ queue' \in Seq(Tasks)
      /\ \A i \in DOMAIN queue' : queue'[i].call # c
  BY <1>1, QueueShrinks DEF IInv
<1>4. /\ Append(engine.log, e) \in Seq(Entries)
      /\ DOMAIN engine.log = 1..Len(engine.log) /\ Len(engine.log) \in Nat
      /\ DOMAIN Append(engine.log, e) = 1..(Len(engine.log) + 1)
      /\ \A i \in DOMAIN engine.log : Append(engine.log, e)[i] = engine.log[i]
      /\ Append(engine.log, e)[Len(engine.log) + 1] = e
  BY <1>2, StateTypes, AppendElement DEF IInv
<1>5. /\ engine' \in [log : Seq(Entries), leverage : Nat \ {0}, seq : Nat]
      /\ engine'.log = Append(engine.log, e) /\ engine'.seq = e.seq
      /\ engine.seq \in Nat /\ db.watermark \in Nat
  <2>1. engine \in [log : Seq(Entries), leverage : Nat \ {0}, seq : Nat]
        /\ engine.seq \in Nat /\ db.watermark \in Nat
    BY StateTypes DEF IInv, TypeOK
  <2>2. engine'.log = Append(engine.log, e) /\ engine'.seq = e.seq
    BY <1>1, <1>2, <2>1
  <2>3. engine' = [log |-> Append(engine.log, e), leverage |-> engine.leverage,
                   seq |-> engine.seq + 1]
    BY <1>1, <2>1
  <2>4. engine' \in [log : Seq(Entries), leverage : Nat \ {0}, seq : Nat]
    BY <1>4, <2>1, <2>3
  <2> QED BY <2>1, <2>2, <2>4
<1>6. active' \in Started /\ active' # NoTask
  BY <1>1, <1>2, PipelineAssumption DEF Started
<1>7. TypeOK'
  BY <1>1, <1>3, <1>5, <1>6 DEF IInv, TypeOK
<1>8. ActiveOK' /\ DownOK'
  BY <1>1, <1>2, <1>3, <1>6 DEF ActiveOK, DownOK
<1>9. \A d \in Orders \cup Faucets : (Settled(d) \/ d = c) => Settled(d)'
  BY <1>1, <1>6 DEF Settled
<1>10. HistoryOK(db.log)'
  BY <1>1, <1>9, StateTypes DEF IInv, HistoryOK
<1>11. HistoryOK(engine.log)'
  <2>1. \A i \in DOMAIN engine.log :
          engine.log[i].call \in Orders \cup Faucets /\ engine.log[i].call # c
    BY <1>2, StateTypes DEF IInv, Entry
  <2>2. \A i \in DOMAIN engine'.log :
          \/ i \in DOMAIN engine.log /\ engine'.log[i] = engine.log[i]
          \/ i = Len(engine.log) + 1 /\ engine'.log[i] = e
    BY <1>4, <1>5
  <2> QED BY <1>2, <1>9, <2>1, <2>2 DEF IInv, HistoryOK
<1>12. AckedOK'
  BY <1>1, <1>2 DEF IInv, AckedOK, Entry
<1>13. SeqsOK'
  BY <1>1, <1>2, <1>5 DEF IInv, SeqsOK, Projecting, Projected, BroadcastInOrder
<1>14. ClaimOK'
  BY <1>1 DEF IInv, ClaimOK
<1>15. EngineIsProjection'
  BY <1>1, <1>2, <1>5, <1>6, SMTT(30) DEF IInv, EngineIsProjection, SeqsOK
<1> QED
  BY <1>3, <1>7, <1>8, <1>10, <1>11, <1>12, <1>13, <1>14, <1>15 DEF IInv

LEMMA StartRejectedInv == ASSUME IInv, StartRejected PROVE IInv'
<1> DEFINE c == Head(queue).call
           e == EntryFor(c)
<1>1. /\ Ready("op") /\ queue # <<>> /\ up /\ active = NoTask /\ c \in Orders
      /\ queue' = Tail(queue)
      /\ engine' = [engine EXCEPT !.seq = engine.seq + 1]
      /\ active' = [call |-> c, step |-> "skip", entry |-> e]
      /\ UNCHANGED <<up, poisoned, db, at, sent>>
  BY DEF StartRejected, Ready
<1>2. /\ ~Settled(c) /\ at[c] = "queued"
      /\ e \in Entries /\ e.call = c /\ e.seq = engine.seq + 1
  BY <1>1, NextEntry
<1> HIDE DEF e
<1>3. /\ QueueOK' /\ queue' \in Seq(Tasks)
      /\ \A i \in DOMAIN queue' : queue'[i].call # c
  BY <1>1, QueueShrinks DEF IInv
<1>4. /\ engine' \in [log : Seq(Entries), leverage : Nat \ {0}, seq : Nat]
      /\ engine'.log = engine.log /\ engine'.seq = e.seq
      /\ engine.seq \in Nat /\ db.watermark \in Nat
  <2>1. engine \in [log : Seq(Entries), leverage : Nat \ {0}, seq : Nat]
        /\ engine.seq \in Nat /\ db.watermark \in Nat
    BY StateTypes DEF IInv, TypeOK
  <2>2. engine'.log = engine.log /\ engine'.seq = e.seq
    BY <1>1, <1>2, <2>1
  <2>3. engine' \in [log : Seq(Entries), leverage : Nat \ {0}, seq : Nat]
    BY <1>1, <2>1, SMTT(20)
  <2> QED BY <2>1, <2>2, <2>3
<1>5. active' \in Started /\ active' # NoTask
  BY <1>1, <1>2, PipelineAssumption DEF Started
<1>6. TypeOK'
  BY <1>1, <1>3, <1>4, <1>5 DEF IInv, TypeOK
<1>7. ActiveOK' /\ DownOK'
  BY <1>1, <1>2, <1>3 DEF ActiveOK, DownOK
<1>8. HistoryOK(engine.log)' /\ HistoryOK(db.log)'
  BY <1>1, <1>4, HistoryStays DEF IInv, Settled
<1>9. AckedOK' /\ ClaimOK'
  BY <1>1 DEF IInv, AckedOK, Entry, ClaimOK
<1>10. SeqsOK'
  BY <1>1, <1>2, <1>4 DEF IInv, SeqsOK, Projecting, Projected, BroadcastInOrder
<1>11. EngineIsProjection'
  BY <1>1, <1>2, <1>4, <1>5 DEF IInv, EngineIsProjection, SeqsOK
<1> QED BY <1>3, <1>6, <1>7, <1>8, <1>9, <1>10, <1>11 DEF IInv

\* A task of the leverage handler leaves the queue, and its call may move on.
LEMMA LeverageTask ==
  ASSUME IInv, Ready("set") \/ Ready("save"), queue' = Tail(queue),
         \A c \in Calls : c # Head(queue).call => at'[c] = at[c]
  PROVE  /\ up /\ active = NoTask
         /\ Head(queue).call \in Leverages /\ at[Head(queue).call] = "queued"
         /\ Head(queue).call \notin Orders \cup Faucets
         /\ QueueOK' /\ queue' \in Seq(Tasks)
         /\ \A i \in DOMAIN queue' : queue'[i].call # Head(queue).call
         /\ \A c \in Orders \cup Faucets : at'[c] = at[c]
<1>1. /\ up /\ active = NoTask /\ queue # <<>>
      /\ Head(queue).step \in {"set", "save"}
  BY DEF Ready
<1>2. /\ QueueOK' /\ queue' \in Seq(Tasks)
      /\ \A i \in DOMAIN queue' : queue'[i].call # Head(queue).call
      /\ Head(queue).call \in Calls /\ at[Head(queue).call] = "queued"
      /\ Head(queue).step = "op" <=> Head(queue).call \in Orders \cup Faucets
  BY <1>1, QueueShrinks DEF IInv
<1> QED BY <1>1, <1>2 DEF Calls

LEMMA LeverageInUseInv == ASSUME IInv, LeverageInUse PROVE IInv'
<1> DEFINE c == Head(queue).call
<1>1. /\ Ready("set") /\ queue' = Tail(queue)
      /\ at' = [at EXCEPT ![c] = "refused"] /\ active' = NoTask
      /\ UNCHANGED <<up, poisoned, engine, db, sent>>
  BY DEF LeverageInUse, AfterThrow
<1>2. /\ at' \in [Calls -> {"new", "claimed", "queued", "applied", "ok",
                            "refused", "failed", "lost"}]
      /\ \A d \in Calls : d # c => at'[d] = at[d]
  BY <1>1 DEF IInv, TypeOK
<1>3. /\ up /\ active = NoTask /\ QueueOK' /\ queue' \in Seq(Tasks)
      /\ \A d \in Orders \cup Faucets : at'[d] = at[d]
  BY <1>1, <1>2, LeverageTask
<1>4. TypeOK'
  BY <1>1, <1>2, <1>3 DEF IInv, TypeOK
<1>5. ActiveOK' /\ DownOK'
  BY <1>1, <1>3 DEF ActiveOK, DownOK
<1>6. HistoryOK(engine.log)' /\ HistoryOK(db.log)'
  BY <1>1, <1>3, HistoryStays DEF IInv, Settled
<1>7. AckedOK' /\ ClaimOK'
  BY <1>1, <1>3 DEF IInv, AckedOK, Entry, ClaimOK
<1>8. SeqsOK' /\ EngineIsProjection'
  BY <1>1, <1>3 DEF IInv, SeqsOK, Projecting, Projected, BroadcastInOrder,
                    EngineIsProjection
<1> QED BY <1>3, <1>4, <1>5, <1>6, <1>7, <1>8 DEF IInv

LEMMA ApplyLeverageInv == ASSUME IInv, ApplyLeverage PROVE IInv'
<1> DEFINE c == Head(queue).call
<1>1. /\ Ready("set") /\ queue' = Tail(queue)
      /\ engine' = [engine EXCEPT !.leverage = LeverageAsked[c]]
      /\ at' = [at EXCEPT ![c] = "applied"]
      /\ UNCHANGED <<up, poisoned, active, db, sent>>
  BY DEF ApplyLeverage
<1>2. /\ at' \in [Calls -> {"new", "claimed", "queued", "applied", "ok",
                            "refused", "failed", "lost"}]
      /\ \A d \in Calls : d # c => at'[d] = at[d]
  BY <1>1 DEF IInv, TypeOK
<1>3. /\ up /\ active = NoTask /\ QueueOK' /\ queue' \in Seq(Tasks)
      /\ c \in Leverages /\ \A d \in Orders \cup Faucets : at'[d] = at[d]
  BY <1>1, <1>2, LeverageTask
<1>4. /\ engine' \in [log : Seq(Entries), leverage : Nat \ {0}, seq : Nat]
      /\ engine'.log = engine.log /\ engine'.seq = engine.seq
  <2>1. /\ engine \in [log : Seq(Entries), leverage : Nat \ {0}, seq : Nat]
        /\ LeverageAsked[c] \in Nat \ {0}
    BY <1>3, PipelineAssumption DEF IInv, TypeOK
  <2> QED BY <1>1, <2>1
<1>5. TypeOK'
  BY <1>1, <1>2, <1>3, <1>4 DEF IInv, TypeOK
<1>6. ActiveOK' /\ DownOK'
  BY <1>1, <1>3 DEF ActiveOK, DownOK
<1>7. HistoryOK(engine.log)' /\ HistoryOK(db.log)'
  BY <1>1, <1>3, <1>4, HistoryStays DEF IInv, Settled
<1>8. AckedOK' /\ ClaimOK'
  BY <1>1, <1>3 DEF IInv, AckedOK, Entry, ClaimOK
<1>9. SeqsOK' /\ EngineIsProjection'
  BY <1>1, <1>3, <1>4 DEF IInv, SeqsOK, Projecting, Projected,
                          BroadcastInOrder, EngineIsProjection
<1> QED BY <1>3, <1>5, <1>6, <1>7, <1>8, <1>9 DEF IInv

LEMMA StartSaveInv == ASSUME IInv, StartSave PROVE IInv'
<1> DEFINE c == Head(queue).call
<1>1. /\ Ready("save") /\ queue' = Tail(queue)
      /\ active' = [call |-> c, step |-> "save"]
      /\ UNCHANGED <<up, poisoned, engine, db, at, sent>>
  BY DEF StartSave
<1>2. /\ up /\ active = NoTask /\ QueueOK' /\ queue' \in Seq(Tasks)
      /\ c \in Leverages /\ at[c] = "queued"
      /\ \A i \in DOMAIN queue' : queue'[i].call # c
  BY <1>1, LeverageTask
<1>3. active' \in Started /\ active' # NoTask
  BY <1>1, <1>2, PipelineAssumption DEF Started
<1>4. TypeOK'
  BY <1>1, <1>2, <1>3 DEF IInv, TypeOK
<1>5. ActiveOK' /\ DownOK'
  BY <1>1, <1>2 DEF ActiveOK, DownOK
<1>6. HistoryOK(engine.log)' /\ HistoryOK(db.log)'
  BY <1>1, <1>2, HistoryStays DEF IInv, Settled
<1>7. AckedOK' /\ ClaimOK'
  BY <1>1 DEF IInv, AckedOK, Entry, ClaimOK
<1>8. SeqsOK' /\ EngineIsProjection'
  BY <1>1, <1>2 DEF IInv, SeqsOK, Projecting, Projected, BroadcastInOrder,
                    EngineIsProjection
<1> QED BY <1>2, <1>4, <1>5, <1>6, <1>7, <1>8 DEF IInv

\* What is known of the task under way.
LEMMA ActiveTask ==
  ASSUME IInv, active # NoTask
  PROVE  /\ active \in Started /\ active.call \in Calls
         /\ at[active.call] = "queued"
         /\ active.step = "save" => active.call \in Leverages
         /\ active.step # "save" =>
              /\ active.call \in Orders \cup Faucets
              /\ active.entry \in Entries /\ active.entry.call = active.call
              /\ active.entry.seq \in Nat \ {0}
              /\ active = [call |-> active.call, step |-> active.step,
                           entry |-> active.entry]
<1>1. active \in Started /\ active.call \in Calls
  BY StateTypes DEF IInv
<1>2. active.step # "save" =>
        /\ active.call \in Orders \cup Faucets /\ active.entry \in Entries
        /\ active = [call |-> active.call, step |-> active.step,
                     entry |-> active.entry]
  BY <1>1 DEF Started
<1>3. active.step = "save" => active.call \in Leverages
  BY <1>1 DEF Started
<1>4. \A e \in Entries : e.seq \in Nat \ {0}
  BY DEF Entries
<1> QED BY <1>1, <1>2, <1>3, <1>4 DEF IInv, ActiveOK

\* The task under way ends with an answer, and the histories stay.
LEMMA TaskEnds ==
  ASSUME IInv, up, active # NoTask, active' = NoTask,
         NEW answer \in {"ok", "refused", "failed"},
         answer = "refused" => active.step \notin {"apply", "dispatch"},
         at' = [at EXCEPT ![active.call] = answer],
         UNCHANGED <<up, queue, engine>>, db'.log = db.log,
         db'.claimed = db.claimed
  PROVE  /\ at' \in [Calls -> {"new", "claimed", "queued", "applied", "ok",
                               "refused", "failed", "lost"}]
         /\ at'[active.call] = answer
         /\ \A c \in Calls : c # active.call => at'[c] = at[c]
         /\ QueueOK' /\ ActiveOK' /\ DownOK'
         /\ HistoryOK(engine.log)' /\ HistoryOK(db.log)'
         /\ ClaimOK'
<1>1. active.call \in Calls /\ at[active.call] = "queued"
  BY ActiveTask
<1>2. /\ at' \in [Calls -> {"new", "claimed", "queued", "applied", "ok",
                            "refused", "failed", "lost"}]
      /\ at'[active.call] = answer
      /\ \A c \in Calls : c # active.call => at'[c] = at[c]
  BY <1>1 DEF IInv, TypeOK
<1>3. \A i \in DOMAIN queue :
        queue[i].call \in Calls /\ queue[i].call # active.call
  BY StateTypes DEF IInv, ActiveOK
<1>4. QueueOK' /\ ActiveOK' /\ DownOK'
  BY <1>2, <1>3 DEF IInv, QueueOK, ActiveOK, DownOK
<1>5. \A c \in Orders \cup Faucets : Settled(c) => Settled(c)'
  BY <1>1, <1>2 DEF Settled, Calls
<1>6. HistoryOK(engine.log)' /\ HistoryOK(db.log)'
  BY <1>5, HistoryStays DEF IInv
<1>7. ClaimOK'
  BY <1>1, <1>2 DEF IInv, ClaimOK, Calls
<1> QED BY <1>2, <1>4, <1>6, <1>7

LEMMA DispatchInv == ASSUME IInv, Dispatch PROVE IInv'
<1> DEFINE answer == IF active.step = "dispatch" THEN "ok" ELSE "refused"
           n == active.entry.seq
<1>1. /\ up /\ active # NoTask /\ active.step \in {"dispatch", "dispatchRejected"}
      /\ sent' = Append(sent, n)
      /\ at' = [at EXCEPT ![active.call] = answer]
      /\ active' = NoTask /\ answer \in {"ok", "refused", "failed"}
      /\ answer = "refused" => active.step = "dispatchRejected"
      /\ UNCHANGED <<up, poisoned, queue, engine, db>>
  BY DEF Dispatch, Dispatchable
<1>2. /\ active.call \in Orders \cup Faucets /\ n \in Nat \ {0}
      /\ n = db.watermark
      /\ \A i \in DOMAIN sent : sent[i] < n
      /\ sent \in Seq(Nat \ {0})
  BY <1>1, ActiveTask, StateTypes DEF IInv, SeqsOK, Projected
<1>3. /\ at' \in [Calls -> {"new", "claimed", "queued", "applied", "ok",
                            "refused", "failed", "lost"}]
      /\ at'[active.call] = answer
      /\ \A c \in Calls : c # active.call => at'[c] = at[c]
      /\ QueueOK' /\ ActiveOK' /\ DownOK'
      /\ HistoryOK(engine.log)' /\ HistoryOK(db.log)' /\ ClaimOK'
  BY <1>1, TaskEnds
<1>4. /\ Append(sent, n) \in Seq(Nat \ {0})
      /\ DOMAIN sent = 1..Len(sent) /\ Len(sent) \in Nat
      /\ DOMAIN Append(sent, n) = 1..(Len(sent) + 1)
      /\ \A i \in DOMAIN sent : Append(sent, n)[i] = sent[i]
      /\ Append(sent, n)[Len(sent) + 1] = n
  BY <1>2, AppendElement
<1>5. TypeOK'
  BY <1>1, <1>3, <1>4 DEF IInv, TypeOK
<1>6. AckedOK'
  BY <1>1, <1>3 DEF IInv, AckedOK, Entry, Calls
<1>7. BroadcastInOrder'
  <2>1. \A i \in DOMAIN sent' :
          \/ i \in DOMAIN sent /\ sent'[i] = sent[i]
          \/ i = Len(sent) + 1 /\ sent'[i] = n
    BY <1>1, <1>4
  <2>2. \A i, j \in DOMAIN sent' : i < j => i \in DOMAIN sent
    BY <1>1, <1>4
  <2>3. \A i \in DOMAIN sent' : sent'[i] <= db.watermark
    BY <1>2, <2>1, StateTypes DEF IInv, SeqsOK, BroadcastInOrder
  <2>4. ASSUME NEW i \in DOMAIN sent', NEW j \in DOMAIN sent', i < j
        PROVE  sent'[i] < sent'[j]
    BY <1>2, <1>4, <2>1, <2>2, <2>4 DEF IInv, SeqsOK, BroadcastInOrder
  <2> QED BY <1>1, <2>3, <2>4 DEF BroadcastInOrder
<1>8. SeqsOK' /\ EngineIsProjection'
  BY <1>1, <1>7 DEF IInv, SeqsOK, Projecting, Projected, EngineIsProjection
<1> QED BY <1>3, <1>5, <1>6, <1>8 DEF IInv

LEMMA FailBatchInv == ASSUME IInv, FailBatch PROVE IInv'
<1>1. /\ up /\ active # NoTask /\ active' = NoTask /\ poisoned' = TRUE
      /\ at' = [at EXCEPT ![active.call] = "failed"]
      /\ UNCHANGED <<up, queue, engine, db, sent>>
  BY DEF FailBatch, Poison
<1>2. /\ at' \in [Calls -> {"new", "claimed", "queued", "applied", "ok",
                            "refused", "failed", "lost"}]
      /\ at'[active.call] = "failed" /\ active.call \in Calls
      /\ \A c \in Calls : c # active.call => at'[c] = at[c]
      /\ QueueOK' /\ ActiveOK' /\ DownOK'
      /\ HistoryOK(engine.log)' /\ HistoryOK(db.log)' /\ ClaimOK'
  BY <1>1, TaskEnds, ActiveTask
<1>3. TypeOK'
  BY <1>1, <1>2 DEF IInv, TypeOK
<1>4. AckedOK'
  BY <1>1, <1>2 DEF IInv, AckedOK, Entry, Calls
<1>5. SeqsOK' /\ EngineIsProjection'
  BY <1>1 DEF IInv, SeqsOK, Projecting, Projected, BroadcastInOrder,
              EngineIsProjection
<1> QED BY <1>2, <1>3, <1>4, <1>5 DEF IInv

LEMMA SaveEndsInv == ASSUME IInv, CommitSave \/ FailSave PROVE IInv'
<1> DEFINE answer == IF CommitSave THEN "ok" ELSE "failed"
<1>1. /\ up /\ active # NoTask /\ active.step = "save" /\ active' = NoTask
      /\ at' = [at EXCEPT ![active.call] = answer]
      /\ answer \in {"ok", "refused", "failed"} /\ answer # "refused"
      /\ UNCHANGED <<up, poisoned, queue, engine, sent>>
  BY DEF CommitSave, FailSave
<1> HIDE DEF answer
<1>2. active.call \in Leverages /\ active.call \notin Orders \cup Faucets
  BY <1>1, ActiveTask, PipelineAssumption
<1>3. /\ db' \in [log : Seq(Entries), leverage : Nat \ {0}, claimed : BOOLEAN,
                  watermark : Nat]
      /\ db'.log = db.log /\ db'.claimed = db.claimed
      /\ db'.watermark = db.watermark
  <2>1. /\ db \in [log : Seq(Entries), leverage : Nat \ {0}, claimed : BOOLEAN,
                   watermark : Nat]
        /\ LeverageAsked[active.call] \in Nat \ {0}
    BY <1>2, PipelineAssumption DEF IInv, TypeOK
  <2>2. db' = db \/ db' = [db EXCEPT !.leverage = LeverageAsked[active.call]]
    BY DEF CommitSave, FailSave
  <2> QED BY <2>1, <2>2
<1>4. /\ at' \in [Calls -> {"new", "claimed", "queued", "applied", "ok",
                            "refused", "failed", "lost"}]
      /\ \A c \in Calls : c # active.call => at'[c] = at[c]
      /\ QueueOK' /\ ActiveOK' /\ DownOK'
      /\ HistoryOK(engine.log)' /\ HistoryOK(db.log)' /\ ClaimOK'
  BY <1>1, <1>3, TaskEnds
<1>5. TypeOK'
  BY <1>1, <1>3, <1>4 DEF IInv, TypeOK
<1>6. AckedOK'
  BY <1>1, <1>2, <1>3, <1>4 DEF IInv, AckedOK, Entry, Calls
<1>7. SeqsOK' /\ EngineIsProjection'
  BY <1>1, <1>3 DEF IInv, SeqsOK, Projecting, Projected, BroadcastInOrder,
                    EngineIsProjection
<1> QED BY <1>4, <1>5, <1>6, <1>7 DEF IInv

LEMMA CommitBatchInv == ASSUME IInv, CommitBatch PROVE IInv'
<1> DEFINE c == active.call
           e == active.entry
<1>1. /\ up /\ active # NoTask /\ active.step \in {"apply", "skip"}
      /\ UNCHANGED <<up, poisoned, queue, engine, at, sent>>
      /\ active \in Started
      /\ active = [call |-> c, step |-> active.step, entry |-> e]
      /\ c \in Orders \cup Faucets /\ at[c] = "queued"
      /\ e \in Entries /\ e.call = c
  BY ActiveTask DEF CommitBatch
<1>2. /\ e.seq = engine.seq /\ db.watermark < e.seq
      /\ e.seq \in Nat /\ db.watermark \in Nat
  BY <1>1, StateTypes DEF IInv, SeqsOK, Projecting
<1>3. /\ active'.call = c /\ active'.entry = e
      /\ active'.step = IF active.step = "apply" THEN "dispatch"
                                                 ELSE "dispatchRejected"
      /\ active' \in Started /\ active' # NoTask
  <2>1. active' = [active EXCEPT !.step = IF active.step = "apply"
                                          THEN "dispatch" ELSE "dispatchRejected"]
    BY DEF CommitBatch
  <2>2. active' = [call |-> c, entry |-> e,
                   step |-> IF active.step = "apply" THEN "dispatch"
                                                     ELSE "dispatchRejected"]
    BY <1>1, <2>1
  <2> QED BY <1>1, <2>2, PipelineAssumption DEF Started
<1>4. /\ Append(db.log, e) \in Seq(Entries)
      /\ DOMAIN db.log = 1..Len(db.log) /\ Len(db.log) \in Nat
      /\ DOMAIN Append(db.log, e) = 1..(Len(db.log) + 1)
      /\ \A i \in DOMAIN db.log : Append(db.log, e)[i] = db.log[i]
      /\ Append(db.log, e)[Len(db.log) + 1] = e
  BY <1>1, StateTypes, AppendElement DEF IInv
<1> DEFINE newLog == IF active.step = "apply" THEN Append(db.log, e) ELSE db.log
<1>5. /\ db' \in [log : Seq(Entries), leverage : Nat \ {0}, claimed : BOOLEAN,
                  watermark : Nat]
      /\ db'.log = newLog /\ db'.watermark = e.seq /\ db'.claimed = db.claimed
  <2>1. /\ db \in [log : Seq(Entries), leverage : Nat \ {0}, claimed : BOOLEAN,
                   watermark : Nat]
        /\ newLog \in Seq(Entries)
    BY <1>4, StateTypes DEF IInv, TypeOK
  <2>2. db' = [db EXCEPT !.watermark = e.seq, !.log = newLog]
    BY <1>2 DEF CommitBatch
  <2> HIDE DEF newLog
  <2>3. db' = [log |-> newLog, leverage |-> db.leverage, claimed |-> db.claimed,
               watermark |-> e.seq]
    BY <2>1, <2>2
  <2> QED BY <1>2, <2>1, <2>3
<1>6. TypeOK'
  BY <1>1, <1>3, <1>5 DEF IInv, TypeOK
<1>7. QueueOK' /\ ActiveOK' /\ DownOK'
  BY <1>1, <1>3 DEF IInv, QueueOK, ActiveOK, DownOK
<1>8. \A d \in Calls : Settled(d) => Settled(d)'
  BY <1>1, <1>3 DEF Settled
<1>9. HistoryOK(engine.log)'
  BY <1>1, <1>8, StateTypes DEF IInv, HistoryOK, Calls
<1>10. HistoryOK(db.log)'
  <2>1. \A i \in DOMAIN db.log :
          /\ db.log[i].call \in Calls /\ Settled(db.log[i].call)
          /\ \A j \in DOMAIN db.log : db.log[i].call = db.log[j].call => i = j
    BY StateTypes DEF IInv, HistoryOK, Calls
  <2>2. CASE active.step = "skip"
    BY <2>1, <2>2, <1>5, <1>8 DEF HistoryOK
  <2>3. CASE active.step = "apply"
    <3>1. Settled(c)' /\ \A i \in DOMAIN db.log : db.log[i].call # c
      BY <2>3, <1>1, <1>3 DEF Settled, IInv, AckedOK, Entry
    <3>2. \A i \in DOMAIN db'.log :
            \/ i \in DOMAIN db.log /\ db'.log[i] = db.log[i]
            \/ i = Len(db.log) + 1 /\ db'.log[i] = e
      BY <2>3, <1>4, <1>5
    <3>3. \A i \in DOMAIN db'.log :
            /\ db'.log[i].call \in Calls
            /\ db'.log[i].call = c \/ Settled(db'.log[i].call)
            /\ \A j \in DOMAIN db'.log : db'.log[i].call = db'.log[j].call => i = j
      BY <1>1, <2>1, <3>1, <3>2 DEF Calls
    <3>4. ASSUME NEW i \in DOMAIN db'.log
          PROVE  Settled(db.log[i].call)'
      <4> DEFINE d == db'.log[i].call
      <4>1. d \in Calls /\ (d = c \/ Settled(d))
        BY <3>3
      <4>2. Settled(d) => at'[d] \in {"ok", "failed", "lost"} \/ d = c
        BY <1>1 DEF Settled
      <4>3. d = c \/ at'[d] \in {"ok", "failed", "lost"}
        BY <4>1, <4>2
      <4> QED BY <4>3, <2>3, <1>1, <1>3 DEF Settled
    <3> QED BY <3>3, <3>4 DEF HistoryOK
  <2> QED BY <1>1, <2>2, <2>3
<1>11. AckedOK'
  <2>1. /\ \A d : Entry(db.log, d) => Entry(db'.log, d)
        /\ active.step = "apply" => Entry(db'.log, c)
    BY <1>1, <1>4, <1>5, SMTT(30) DEF Entry
  <2> QED BY <1>1, <1>3, <2>1 DEF IInv, AckedOK
<1>12. BroadcastInOrder'
  BY <1>1, <1>2, <1>5, StateTypes DEF IInv, SeqsOK, BroadcastInOrder
<1>13. \A i \in DOMAIN sent : sent[i] < e.seq
  BY <1>2, StateTypes DEF IInv, SeqsOK, BroadcastInOrder
<1>14. SeqsOK'
  BY <1>1, <1>2, <1>3, <1>5, <1>12, <1>13 DEF SeqsOK, Projecting, Projected
<1>15. EngineIsProjection'
  BY <1>1, <1>2, <1>3, <1>5 DEF IInv, EngineIsProjection
<1>16. ClaimOK'
  BY <1>1, <1>5 DEF IInv, ClaimOK
<1> QED
  BY <1>6, <1>7, <1>9, <1>10, <1>11, <1>14, <1>15, <1>16 DEF IInv

LEMMA GoDownInv == ASSUME IInv, GoDown PROVE IInv'
<1>1. /\ up' = FALSE /\ queue' = <<>> /\ active' = NoTask
      /\ at' \in [Calls -> {"new", "claimed", "queued", "applied", "ok",
                            "refused", "failed", "lost"}]
      /\ \A c \in Calls : at'[c] = IF at[c] \in {"claimed", "queued", "applied"}
                                   THEN "lost" ELSE at[c]
      /\ UNCHANGED <<poisoned, engine, db, sent>>
  BY DEF IInv, TypeOK, GoDown, Unanswered
<1>2. queue' \in Seq(Tasks) /\ DOMAIN queue' = {}
  BY <1>1, EmptySeq
<1>3. TypeOK'
  BY <1>1, <1>2 DEF IInv, TypeOK
<1>4. QueueOK' /\ ActiveOK' /\ DownOK'
  BY <1>1, <1>2 DEF QueueOK, ActiveOK, DownOK
<1>5. \A c \in Calls : Settled(c) => Settled(c)'
  BY <1>1, ActiveTask DEF Settled, IInv
<1>6. HistoryOK(engine.log)' /\ HistoryOK(db.log)'
  BY <1>1, <1>5, HistoryStays DEF IInv, Calls
<1>7. AckedOK' /\ ClaimOK'
  BY <1>1 DEF IInv, AckedOK, Entry, ClaimOK, Calls
<1>8. SeqsOK' /\ EngineIsProjection'
  BY <1>1 DEF IInv, SeqsOK, Projecting, Projected, BroadcastInOrder,
              EngineIsProjection
<1> QED BY <1>3, <1>4, <1>6, <1>7, <1>8 DEF IInv

LEMMA BootInv == ASSUME IInv, Boot PROVE IInv'
<1>1. /\ up' = TRUE /\ queue = <<>> /\ active = NoTask
      /\ poisoned' = FALSE /\ engine' = Restored
      /\ UNCHANGED <<queue, active, db, at, sent>>
  BY DEF IInv, DownOK, Boot
<1>2. /\ engine' \in [log : Seq(Entries), leverage : Nat \ {0}, seq : Nat]
      /\ engine'.log = db.log /\ engine'.seq = db.watermark
      /\ db.watermark \in Nat
  BY <1>1 DEF IInv, TypeOK, Restored
<1>3. TypeOK'
  BY <1>1, <1>2 DEF IInv, TypeOK
<1>4. QueueOK' /\ ActiveOK' /\ DownOK' /\ AckedOK' /\ ClaimOK'
  BY <1>1 DEF IInv, QueueOK, ActiveOK, DownOK, AckedOK, Entry, ClaimOK
<1>5. HistoryOK(engine.log)' /\ HistoryOK(db.log)'
  BY <1>1, <1>2 DEF IInv, HistoryOK, Settled
<1>6. SeqsOK' /\ EngineIsProjection'
  BY <1>1, <1>2 DEF IInv, SeqsOK, Projecting, Projected, BroadcastInOrder,
                    EngineIsProjection
<1> QED BY <1>3, <1>4, <1>5, <1>6 DEF IInv

LEMMA StutterInv == ASSUME IInv, UNCHANGED vars PROVE IInv'
<1> SUFFICES /\ TypeOK' /\ QueueOK' /\ ActiveOK' /\ DownOK' /\ ClaimOK'
             /\ HistoryOK(engine.log)' /\ HistoryOK(db.log)' /\ AckedOK'
             /\ SeqsOK' /\ EngineIsProjection'
  BY DEF IInv
<1> USE DEF IInv, vars
<1>1. TypeOK' /\ QueueOK' /\ ActiveOK' /\ DownOK' /\ ClaimOK'
  BY DEF TypeOK, QueueOK, ActiveOK, DownOK, ClaimOK
<1>2. HistoryOK(engine.log)' /\ HistoryOK(db.log)' /\ AckedOK'
  BY DEF HistoryOK, Settled, AckedOK, Entry
<1>3. SeqsOK' /\ EngineIsProjection'
  BY DEF SeqsOK, Projecting, Projected, BroadcastInOrder, EngineIsProjection
<1> QED BY <1>1, <1>2, <1>3

LEMMA StepInv == ASSUME IInv, [Next]_vars PROVE IInv'
<1>1. CASE Handlers
  BY <1>1, HandlersInv
<1>2. CASE Chain
  BY <1>2, StartOpInv, StartRejectedInv, LeverageInUseInv, ApplyLeverageInv,
     StartSaveInv, CommitBatchInv, DispatchInv, FailBatchInv, SaveEndsInv
     DEF Chain
<1>3. CASE Crash \/ ExitPoisoned
  BY <1>3, GoDownInv DEF Crash, ExitPoisoned
<1>4. CASE Boot
  BY <1>4, BootInv
<1>5. CASE Quiescent \/ UNCHANGED vars
  BY <1>5, StutterInv DEF Quiescent
<1> QED BY <1>1, <1>2, <1>3, <1>4, <1>5 DEF Next
-----------------------------------------------------------------------------

\* In every state the pipeline reaches, the invariant holds: every call is in
\* one place, every command at most once in each history, and the engine, the
\* watermark and the batch under way number events alike.
THEOREM Invariant == Spec => []IInv
  BY InitInv, StepInv, PTL DEF Spec

\* The pipeline's state keeps its shape (pipeline.ts:52-110).
THEOREM TypeCorrect == Spec => []TypeOK
<1>1. IInv => TypeOK
  BY DEF IInv
<1> QED BY <1>1, Invariant, PTL

\* While the pipeline is not poisoned, what the engine has applied is what the
\* projection has, but for the one batch being applied (pipeline.ts:60-94).
THEOREM EngineProjected == Spec => []EngineIsProjection
<1>1. IInv => EngineIsProjection
  BY DEF IInv
<1> QED BY <1>1, Invariant, PTL

\* Subscribers see increasing numbers, none of which a crash takes back, however
\* many crashes, failures and restarts there are (pipeline.ts:85-94).
THEOREM BroadcastOrdered == Spec => []BroadcastInOrder
<1>1. IInv => BroadcastInOrder
  BY DEF IInv, SeqsOK
<1> QED BY <1>1, Invariant, PTL

\* The engine credits the faucet at most once, however many claims race, fail or
\* are lost in a crash (account.ts:18-25).
THEOREM FaucetPaysOnce == Spec => []FaucetOnce
<1>1. IInv => FaucetOnce
  <2> SUFFICES ASSUME IInv, NEW i \in DOMAIN engine.log,
                      NEW j \in DOMAIN engine.log,
                      engine.log[i].call \in Faucets,
                      engine.log[j].call \in Faucets
               PROVE  i = j
    BY DEF FaucetOnce
  <2>1. \A c : Settled(c) => at[c] \notin {"new", "refused"}
    BY DEF Settled, IInv, ActiveOK
  <2>2. engine.log[i].call = engine.log[j].call
    BY <2>1 DEF IInv, HistoryOK, ClaimOK
  <2> QED BY <2>2 DEF IInv, HistoryOK
<1> QED BY <1>1, Invariant, PTL
-----------------------------------------------------------------------------
(* The pipeline implements the durable log.                                *)

CallsOf(log) == [i \in DOMAIN log |-> log[i].call]
Succeeded == {c \in Orders \cup Faucets : at[c] = "ok"}

\* The calls of a log that an entry joins.
LEMMA CallsOfAppend ==
  ASSUME NEW log \in Seq(Entries), NEW e \in Entries
  PROVE  CallsOf(Append(log, e)) = Append(CallsOf(log), e.call)
<1> DEFINE S == Orders \cup Faucets
           H == CallsOf(log)
           K == CallsOf(Append(log, e))
<1>1. /\ Append(log, e) \in Seq(Entries)
      /\ DOMAIN log = 1..Len(log) /\ Len(log) \in Nat
      /\ DOMAIN Append(log, e) = 1..(Len(log) + 1)
      /\ \A i \in DOMAIN log : Append(log, e)[i] = log[i]
      /\ Append(log, e)[Len(log) + 1] = e
  BY AppendElement
<1>2. \A f \in Entries : f.call \in S
  BY DEF Entries
<1>3. H \in Seq(S) /\ Len(H) = Len(log)
  <2>1. \A i \in 1..Len(log) : log[i] \in Entries
    BY <1>1, ElementOfSeq
  <2>2. H \in [1..Len(log) -> S]
    BY <1>1, <1>2, <2>1 DEF CallsOf
  <2> QED BY <1>1, <2>2, LenProperties
<1>4. K \in Seq(S) /\ Len(K) = Len(log) + 1
  <2>1. \A i \in 1..(Len(log) + 1) : Append(log, e)[i] \in Entries
    BY <1>1, ElementOfSeq, LenProperties
  <2>2. K \in [1..(Len(log) + 1) -> S]
    BY <1>1, <1>2, <2>1 DEF CallsOf
  <2> QED BY <1>1, <2>2, LenProperties
<1>5. e.call \in S
  BY <1>2
<1>6. /\ Append(H, e.call) \in Seq(S) /\ Len(Append(H, e.call)) = Len(log) + 1
      /\ \A i \in 1..Len(log) : Append(H, e.call)[i] = H[i]
      /\ Append(H, e.call)[Len(log) + 1] = e.call
  BY <1>3, <1>5, AppendProperties
<1>7. \A i \in 1..(Len(log) + 1) : K[i] = Append(H, e.call)[i]
  BY <1>1, <1>6 DEF CallsOf
<1> HIDE DEF H, K
<1>8. K = Append(H, e.call)
  BY <1>4, <1>6, <1>7, SeqEqual
<1> QED BY <1>8 DEF H, K

\* A step that records nothing and tells no caller of success.
LEMMA DurableStutter ==
  ASSUME db'.log = db.log,
         \A c \in Orders \cup Faucets : at'[c] = "ok" <=> at[c] = "ok"
  PROVE  UNCHANGED Durable!vars
  BY DEF Durable!vars

LEMMA DurableInit == Init => Durable!Init
<1> SUFFICES ASSUME Init PROVE Durable!Init
  OBVIOUS
<1>1. \A c \in Orders \cup Faucets : at[c] # "ok"
  BY DEF Init, Calls
<1>2. [i \in DOMAIN db.log |-> db.log[i].call] = <<>>
  BY DEF Init
<1> QED BY <1>1, <1>2 DEF Durable!Init

\* The commit of a batch records its command, if it applied one.
LEMMA CommitBatchRefines ==
  ASSUME IInv, CommitBatch
  PROVE  [Durable!Next]_(Durable!vars)
<1> DEFINE c == active.call
           e == active.entry
<1>1. /\ active # NoTask /\ active.step \in {"apply", "skip"}
      /\ c \in Orders \cup Faucets /\ e \in Entries /\ e.call = c
      /\ at' = at /\ up
  BY ActiveTask DEF CommitBatch
<1>2. ~(e.seq <= db.watermark)
  BY <1>1, ActiveTask, StateTypes DEF IInv, SeqsOK, Projecting
<1>3. db'.log = IF active.step = "apply" THEN Append(db.log, e) ELSE db.log
  BY <1>2 DEF CommitBatch, IInv, TypeOK
<1>4. CASE active.step = "skip"
  BY <1>1, <1>3, <1>4, DurableStutter
<1>5. CASE active.step = "apply"
  <2>1. c \notin Durable!Recorded
    BY <1>1, <1>5 DEF IInv, AckedOK, Entry, Durable!Recorded
  <2>2. CallsOf(db.log)' = Append(CallsOf(db.log), c)
    BY <1>1, <1>3, <1>5, StateTypes, CallsOfAppend DEF IInv, CallsOf
  <2>3. \E k \in Orders \cup Faucets : Durable!Record(k)
    BY <1>1, <2>1, <2>2 DEF Durable!Record, CallsOf
  <2> QED BY <2>3 DEF Durable!Next
<1> QED BY <1>1, <1>4, <1>5

\* The caller of a dispatched batch hears of success.
LEMMA DispatchRefines ==
  ASSUME IInv, Dispatch
  PROVE  [Durable!Next]_(Durable!vars)
<1> DEFINE c == active.call
<1>1. /\ active # NoTask /\ active.step \in {"dispatch", "dispatchRejected"}
      /\ c \in Orders \cup Faucets /\ at[c] = "queued"
      /\ UNCHANGED db
      /\ at' = [at EXCEPT ![c] = IF active.step = "dispatch" THEN "ok"
                                                            ELSE "refused"]
  BY ActiveTask DEF Dispatch, Dispatchable
<1>2. /\ at'[c] = IF active.step = "dispatch" THEN "ok" ELSE "refused"
      /\ \A d \in Orders \cup Faucets : d # c => at'[d] = at[d]
  BY <1>1 DEF IInv, TypeOK, Calls
<1>3. CASE active.step = "dispatchRejected"
  BY <1>1, <1>2, <1>3, DurableStutter
<1>4. CASE active.step = "dispatch"
  <2>1. c \in Durable!Recorded
    BY <1>1, <1>4 DEF IInv, AckedOK, Entry, Durable!Recorded
  <2>2. {d \in Orders \cup Faucets : at'[d] = "ok"}
          = {d \in Orders \cup Faucets : at[d] = "ok"} \cup {c}
    BY <1>1, <1>2, <1>4
  <2>3. \E k \in Orders \cup Faucets : Durable!Acknowledge(k)
    BY <1>1, <2>1, <2>2 DEF Durable!Acknowledge
  <2> QED BY <2>3 DEF Durable!Next
<1> QED BY <1>1, <1>3, <1>4

\* No other step of the pipeline shows in the durable log.
LEMMA StepRefines ==
  ASSUME IInv, [Next]_vars
  PROVE  [Durable!Next]_(Durable!vars)
<1>1. CASE \E c \in Calls : \/ PlaceOrder(c) \/ ClaimFaucet(c) \/ CreditFaucet(c)
                            \/ AskLeverage(c) \/ SaveLeverage(c)
  <2>1. PICK c \in Calls : \/ PlaceOrder(c) \/ ClaimFaucet(c) \/ CreditFaucet(c)
                           \/ AskLeverage(c) \/ SaveLeverage(c)
    BY <1>1
  <2>2. /\ at[c] # "ok" /\ at'[c] # "ok" /\ db'.log = db.log
        /\ \A d \in Calls : d # c => at'[d] = at[d]
    BY <2>1 DEF IInv, TypeOK, PlaceOrder, ClaimFaucet, CreditFaucet, AskLeverage,
                SaveLeverage, Enqueue
  <2> QED BY <2>2, DurableStutter DEF Calls
<1>2. CASE StartOp \/ StartRejected \/ StartSave \/ Boot \/ UNCHANGED vars
  BY <1>2, DurableStutter DEF StartOp, StartRejected, StartSave, Boot, vars
<1>3. CASE LeverageInUse \/ ApplyLeverage
  <2>1. /\ Ready("set") /\ queue' = Tail(queue) /\ UNCHANGED db
        /\ \A d \in Calls : d # Head(queue).call => at'[d] = at[d]
    BY <1>3 DEF LeverageInUse, ApplyLeverage, IInv, TypeOK
  <2>2. \A d \in Orders \cup Faucets : at'[d] = at[d]
    BY <2>1, LeverageTask
  <2> QED BY <2>1, <2>2, DurableStutter
<1>4. CASE FailBatch \/ CommitSave \/ FailSave
  <2>1. /\ active # NoTask /\ db'.log = db.log
        /\ \A d \in Calls : d # active.call => at'[d] = at[d]
        /\ active.step # "save" => at'[active.call] = "failed"
    BY <1>4, ActiveTask DEF FailBatch, CommitSave, FailSave, IInv, TypeOK
  <2>2. \A d \in Orders \cup Faucets : at'[d] = "ok" <=> at[d] = "ok"
    BY <2>1, ActiveTask, PipelineAssumption DEF Calls
  <2> QED BY <2>1, <2>2, DurableStutter
<1>5. CASE GoDown
  BY <1>5, DurableStutter DEF GoDown, Unanswered, Calls
<1>6. CASE CommitBatch
  BY <1>6, CommitBatchRefines
<1>7. CASE Dispatch
  BY <1>7, DispatchRefines
<1> QED
  BY <1>1, <1>2, <1>3, <1>4, <1>5, <1>6, <1>7
     DEF Next, Handlers, Chain, Crash, ExitPoisoned, Quiescent

\* The pipeline keeps its promise to its callers, across crashes, failures and
\* restarts: a command is in the durable history at most once, never leaves it,
\* and is there before its caller hears of success (pipeline.ts:52-110).
THEOREM PipelineImplementsDurableLog == Spec => AcknowledgedIsDurable
  BY DurableInit, StepRefines, Invariant, PTL
     DEF Spec, AcknowledgedIsDurable, Durable!Spec
=============================================================================
