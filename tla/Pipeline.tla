------------------------------ MODULE Pipeline ------------------------------
(***************************************************************************)
(* The serialized command pipeline of apps/api/src/pipeline.ts between the *)
(* HTTP handlers, the in-memory engine and the durable projection, with    *)
(* crash and boot-restore.                                                 *)
(*                                                                         *)
(* A call of run, exec or runDb puts a task at the end of the promise      *)
(* chain `queue`.  A task runs its engine operation synchronously and then *)
(* awaits the database, and everything else may happen during that await.  *)
(* The engine and the projection are the history of commands each of them  *)
(* has applied, together with the trader's leverage, which is persisted    *)
(* outside the event stream.  Three handlers call the pipeline: placing an *)
(* order (routes/orders.ts), the faucet and the leverage setting           *)
(* (routes/account.ts), all of one trader.                                 *)
(***************************************************************************)
EXTENDS Integers, SequencesExt

CONSTANTS Orders, Faucets, Leverages,  \* the calls that may arrive, by handler
          DefaultLeverage, LeverageAsked,
          NoTask,
          MaxFailures, MaxCrashes      \* bounds of the model

Calls == Orders \cup Faucets \cup Leverages

\* A task in the chain: of an engine operation, of a leverage setting, of its
\* save.
Tasks == [call : Calls, step : {"op", "set", "save"}]

\* An applied command: its event's seq, the leverage it used, and the seq of
\* the command whose effects it was computed on.
Entries ==
  [call : Orders \cup Faucets, seq : Nat \ {0}, leverage : Nat \ {0}, after : Nat]

\* A task that has begun: an engine operation with its batch, or a save.
Started ==
  [call : Orders \cup Faucets,
   step : {"apply", "skip", "dispatch", "dispatchRejected"}, entry : Entries]
    \cup [call : Leverages, step : {"save"}]

ASSUME PipelineAssumption ==
  /\ Orders \cap Faucets = {} /\ Orders \cap Leverages = {}
  /\ Faucets \cap Leverages = {}
  /\ LeverageAsked \in [Leverages -> Nat \ {0}] /\ DefaultLeverage \in Nat \ {0}
  /\ NoTask \notin Started
  /\ MaxFailures \in Nat /\ MaxCrashes \in Nat

VARIABLES
  up, poisoned,
  queue,      \* the tasks waiting in the promise chain
  active,     \* the task whose await is pending, or NoTask
  engine,     \* memory: [log, leverage, seq]
  db,         \* durable: [log, leverage, claimed, watermark]
  at,         \* call -> how far its handler is
  sent,       \* the seqs of the batches broadcast, in order
  failures, crashes

vars == <<up, poisoned, queue, active, engine, db, at, sent, failures, crashes>>

Entry(log, call) == \E i \in DOMAIN log : log[i].call = call

EntryFor(c) ==
  [call |-> c, seq |-> engine.seq + 1, leverage |-> engine.leverage,
   after |-> IF engine.log = <<>> THEN 0 ELSE Last(engine.log).seq]

-----------------------------------------------------------------------------
(* Calls into the pipeline.                                                *)

\* run, exec and runDb: a poisoned pipeline rejects, otherwise the task waits.
Enqueue(c, step, stage) ==
  IF poisoned
  THEN at' = [at EXCEPT ![c] = "failed"] /\ UNCHANGED queue
  ELSE /\ queue' = Append(queue, [call |-> c, step |-> step])
       /\ at' = [at EXCEPT ![c] = stage]

PlaceOrder(c) ==
  /\ up /\ c \in Orders /\ at[c] = "new"
  /\ Enqueue(c, "op", "queued")
  /\ UNCHANGED <<up, poisoned, active, engine, db, sent, failures, crashes>>

MayClaim_unchecked == TRUE
MayClaim == ~db.claimed

\* claimFaucet: one conditional UPDATE, outside the queue.
ClaimFaucet(c) ==
  /\ up /\ c \in Faucets /\ at[c] = "new"
  /\ IF MayClaim
     THEN /\ db' = [db EXCEPT !.claimed = TRUE]
          /\ at' = [at EXCEPT ![c] = "claimed"]
     ELSE at' = [at EXCEPT ![c] = "refused"] /\ UNCHANGED db
  /\ UNCHANGED <<up, poisoned, queue, active, engine, sent, failures, crashes>>

CreditFaucet(c) ==
  /\ up /\ c \in Faucets /\ at[c] = "claimed"
  /\ Enqueue(c, "op", "queued")
  /\ UNCHANGED <<up, poisoned, active, engine, db, sent, failures, crashes>>

AskLeverage(c) ==
  /\ up /\ c \in Leverages /\ at[c] = "new"
  /\ Enqueue(c, "set", "queued")
  /\ UNCHANGED <<up, poisoned, active, engine, db, sent, failures, crashes>>

\* The leverage handler goes on once its engine task has resolved.
SaveLeverage(c) ==
  /\ up /\ c \in Leverages /\ at[c] = "applied"
  /\ Enqueue(c, "save", "queued")
  /\ UNCHANGED <<up, poisoned, active, engine, db, sent, failures, crashes>>

-----------------------------------------------------------------------------
(* The chain.                                                              *)

Ready(step) ==
  up /\ active = NoTask /\ queue # <<>> /\ Head(queue).step = step

\* The engine operation runs and the batch with its one event goes to
\* applyBatch.
StartOp ==
  LET c == Head(queue).call IN
  /\ Ready("op")
  /\ queue' = Tail(queue)
  /\ engine' = [engine EXCEPT !.log = Append(@, EntryFor(c)), !.seq = @ + 1]
  /\ active' = [call |-> c, step |-> "apply", entry |-> EntryFor(c)]
  /\ UNCHANGED <<up, poisoned, db, at, sent, failures, crashes>>

\* submitOrder rejects: an orderRejected event, and nothing else changes.
StartRejected ==
  LET c == Head(queue).call IN
  /\ Ready("op") /\ c \in Orders
  /\ queue' = Tail(queue)
  /\ engine' = [engine EXCEPT !.seq = @ + 1]
  /\ active' = [call |-> c, step |-> "skip", entry |-> EntryFor(c)]
  /\ UNCHANGED <<up, poisoned, db, at, sent, failures, crashes>>

HoldsOrders == \E i \in DOMAIN engine.log : engine.log[i].call \in Orders

AfterThrow_breaksChain(c) == active' = [call |-> c, step |-> "stuck"]

\* The chain swallows the rejection of a task (#q = task.then(.., ..)).
AfterThrow(c) == active' = NoTask

\* setLeverage throws LEVERAGE_IN_USE while the trader has orders.
LeverageInUse ==
  LET c == Head(queue).call IN
  /\ Ready("set") /\ HoldsOrders
  /\ queue' = Tail(queue)
  /\ at' = [at EXCEPT ![c] = "refused"]
  /\ AfterThrow(c)
  /\ UNCHANGED <<up, poisoned, engine, db, sent, failures, crashes>>

\* setLeverage emits no event, so nothing is projected.
ApplyLeverage ==
  LET c == Head(queue).call IN
  /\ Ready("set") /\ ~HoldsOrders
  /\ queue' = Tail(queue)
  /\ engine' = [engine EXCEPT !.leverage = LeverageAsked[c]]
  /\ at' = [at EXCEPT ![c] = "applied"]
  /\ UNCHANGED <<up, poisoned, active, db, sent, failures, crashes>>

StartSave ==
  LET c == Head(queue).call IN
  /\ Ready("save")
  /\ queue' = Tail(queue)
  /\ active' = [call |-> c, step |-> "save"]
  /\ UNCHANGED <<up, poisoned, engine, db, at, sent, failures, crashes>>

\* applyBatch's transaction: what is above the watermark is applied, and the
\* watermark moves with it.
CommitBatch ==
  LET e == active.entry IN
  /\ up /\ active # NoTask /\ active.step \in {"apply", "skip"}
  /\ db' = IF e.seq <= db.watermark THEN db
           ELSE [db EXCEPT !.watermark = e.seq,
                           !.log = IF active.step = "apply" THEN Append(@, e) ELSE @]
  /\ active' = [active EXCEPT
                  !.step = IF @ = "apply" THEN "dispatch" ELSE "dispatchRejected"]
  /\ UNCHANGED <<up, poisoned, queue, engine, at, sent, failures, crashes>>

Dispatchable_whenStarted ==
  active # NoTask /\ active.step # "save"

Dispatchable ==
  active # NoTask /\ active.step \in {"dispatch", "dispatchRejected"}

\* Broadcast, then the caller's promise resolves.
Dispatch ==
  /\ up /\ Dispatchable
  /\ sent' = Append(sent, active.entry.seq)
  /\ at' = [at EXCEPT ![active.call] =
              IF active.step = "dispatch" THEN "ok" ELSE "refused"]
  /\ active' = NoTask
  /\ UNCHANGED <<up, poisoned, queue, engine, db, failures, crashes>>

Poison_onlyReported == UNCHANGED poisoned
Poison == poisoned' = TRUE

\* applyBatch throws and rolls back: the pipeline is poisoned.  The tasks that
\* are already in the chain stay there.
FailBatch ==
  /\ up /\ active # NoTask /\ active.step \in {"apply", "skip"}
  /\ failures < MaxFailures
  /\ failures' = failures + 1 /\ Poison
  /\ at' = [at EXCEPT ![active.call] = "failed"]
  /\ active' = NoTask
  /\ UNCHANGED <<up, queue, engine, db, sent, crashes>>

CommitSave ==
  /\ up /\ active # NoTask /\ active.step = "save"
  /\ db' = [db EXCEPT !.leverage = LeverageAsked[active.call]]
  /\ at' = [at EXCEPT ![active.call] = "ok"]
  /\ active' = NoTask
  /\ UNCHANGED <<up, poisoned, queue, engine, sent, failures, crashes>>

\* A runDb task that fails rejects its caller and poisons nothing.
FailSave ==
  /\ up /\ active # NoTask /\ active.step = "save"
  /\ failures < MaxFailures
  /\ failures' = failures + 1
  /\ at' = [at EXCEPT ![active.call] = "failed"]
  /\ active' = NoTask
  /\ UNCHANGED <<up, poisoned, queue, engine, db, sent, crashes>>

-----------------------------------------------------------------------------
(* Crash and boot.                                                         *)

Unanswered == {c \in Calls : at[c] \in {"claimed", "queued", "applied"}}

GoDown ==
  /\ up /\ up' = FALSE
  /\ queue' = <<>> /\ active' = NoTask
  /\ at' = [c \in Calls |-> IF c \in Unanswered THEN "lost" ELSE at[c]]
  /\ UNCHANGED <<poisoned, engine, db, sent, failures>>

Crash == GoDown /\ crashes < MaxCrashes /\ crashes' = crashes + 1

\* onFatal: a poisoned process exits 50 ms later.
ExitPoisoned == GoDown /\ poisoned /\ UNCHANGED crashes

Restored_seqOfLog ==
  [log |-> db.log, leverage |-> db.leverage,
   seq |-> IF db.log = <<>> THEN 0 ELSE Last(db.log).seq]

\* loadRestoreState and restoreState.
Restored == [log |-> db.log, leverage |-> db.leverage, seq |-> db.watermark]

Boot ==
  /\ ~up /\ up' = TRUE /\ poisoned' = FALSE
  /\ engine' = Restored
  /\ UNCHANGED <<queue, active, db, at, sent, failures, crashes>>

-----------------------------------------------------------------------------

Init ==
  /\ up = TRUE /\ poisoned = FALSE /\ queue = <<>> /\ active = NoTask
  /\ engine = [log |-> <<>>, leverage |-> DefaultLeverage, seq |-> 0]
  /\ db = [log |-> <<>>, leverage |-> DefaultLeverage, claimed |-> FALSE,
           watermark |-> 0]
  /\ at = [c \in Calls |-> "new"]
  /\ sent = <<>> /\ failures = 0 /\ crashes = 0

Handlers ==
  \E c \in Calls :
    PlaceOrder(c) \/ ClaimFaucet(c) \/ CreditFaucet(c) \/ AskLeverage(c)
      \/ SaveLeverage(c)

Continue == \E c \in Calls : CreditFaucet(c) \/ SaveLeverage(c)

Chain ==
  \/ StartOp \/ StartRejected \/ LeverageInUse \/ ApplyLeverage \/ StartSave
  \/ CommitBatch \/ Dispatch \/ FailBatch \/ CommitSave \/ FailSave

\* No call is left to make or to answer: the server waits for clients.
Quiescent ==
  /\ up /\ queue = <<>> /\ active = NoTask
  /\ \A c \in Calls : at[c] \in {"ok", "refused", "failed", "lost"}
  /\ UNCHANGED vars

Next == Handlers \/ Chain \/ Crash \/ ExitPoisoned \/ Boot \/ Quiescent

\* The event loop keeps running the chain and the handlers' continuations, a
\* poisoned process exits and the supervisor boots the next one.
Spec ==
  /\ Init /\ [][Next]_vars
  /\ WF_vars(Chain) /\ WF_vars(Continue)
  /\ WF_vars(ExitPoisoned) /\ WF_vars(Boot)

-----------------------------------------------------------------------------
(* Properties.                                                             *)

\* The shape of the pipeline's state.
TypeOK ==
  /\ up \in BOOLEAN /\ poisoned \in BOOLEAN
  /\ queue \in Seq(Tasks)
  /\ active \in Started \cup {NoTask}
  /\ engine \in [log : Seq(Entries), leverage : Nat \ {0}, seq : Nat]
  /\ db \in [log : Seq(Entries), leverage : Nat \ {0}, claimed : BOOLEAN,
             watermark : Nat]
  /\ at \in [Calls -> {"new", "claimed", "queued", "applied", "ok", "refused",
                       "failed", "lost"}]
  /\ sent \in Seq(Nat \ {0})

\* What the pipeline promises its callers: a command is in the durable history
\* at most once, stays there across crashes, failures and restarts, and is there
\* before its caller hears of success.
Durable == INSTANCE DurableLog WITH
  Commands <- Orders \cup Faucets,
  history <- [i \in DOMAIN db.log |-> db.log[i].call],
  acked <- {c \in Orders \cup Faucets : at[c] = "ok"}

AcknowledgedIsDurable == Durable!Spec

\* While the pipeline is healthy the engine is the projection plus at most the
\* one batch being applied, and they number events alike.
EngineIsProjection ==
  up /\ ~poisoned =>
    IF active # NoTask /\ active.step \in {"apply", "skip"}
    THEN /\ engine.log = IF active.step = "apply" THEN Append(db.log, active.entry)
                                                  ELSE db.log
         /\ engine.seq = active.entry.seq /\ active.entry.seq > db.watermark
    ELSE engine.log = db.log /\ engine.seq = db.watermark

\* Subscribers never see a sequence number twice or going back, not even across
\* a restart, and never one that a crash can take back.
BroadcastInOrder ==
  /\ \A i, j \in DOMAIN sent : i < j => sent[i] < sent[j]
  /\ \A i \in DOMAIN sent : sent[i] <= db.watermark

\* The faucet pays at most once, however many claims race or are retried after
\* a crash (account.ts:18-19).
FaucetOnce ==
  \A i, j \in DOMAIN engine.log :
    engine.log[i].call \in Faucets /\ engine.log[j].call \in Faucets => i = j

\* A call that reached the queue is answered, or its process dies.
EveryCallEnds ==
  \A c \in Calls : at[c] \in {"queued", "claimed", "applied"}
    ~> at[c] \in {"ok", "refused", "failed", "lost"}

\* "... so no later op runs on the now-diverged engine" (pipeline.ts:62-63): no
\* command in the durable history was computed on the effects of one that is
\* not.
NoOpOnDivergedEngine ==
  \A i \in DOMAIN db.log :
    db.log[i].after = IF i = 1 THEN 0 ELSE db.log[i - 1].seq

\* "... so engine state and the durable projection cannot diverge or reorder"
\* (account.ts:28-30): the engine's leverage is the one the trader's live orders
\* were locked at, which is what restoreState recomputes their locks from.
LeverageSurvives ==
  up => \A i \in DOMAIN engine.log :
    engine.log[i].call \in Orders => engine.log[i].leverage = engine.leverage

=============================================================================
