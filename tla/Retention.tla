----------------------------- MODULE Retention -----------------------------
(***************************************************************************)
(* apps/api/src/retention.ts and the pruning of packages/db/src/repos.ts.  *)
(* A timer prunes the projection: the house's dead orders, the tails of    *)
(* the append-only tapes, and the tail of the realized-PnL tape, which is  *)
(* first folded into a carryover.  It runs on the pipeline's queue, so     *)
(* nothing is projected meanwhile, but it is several statements and the    *)
(* process can end between any two of them.                                *)
(***************************************************************************)
EXTENDS Integers, Sequences, FiniteSetsExt, Functions

CONSTANTS
  PnlOwners,        \* (user, market) pairs with realized PnL
  PnlAmounts,       \* what a close may realize
  HouseOwner,       \* mirrorUserId
  OrderOwners,      \* users whose orders are projected, the house among them
  TradesKeep, EventsKeep,
  MaxProjected, MaxOrderRows   \* bounds: tape rows and order rows ever projected

ASSUME RetentionAssumption ==
  /\ PnlAmounts \subseteq Int /\ HouseOwner \in OrderOwners
  /\ TradesKeep \in Nat /\ EventsKeep \in Nat
  /\ MaxProjected \in Nat /\ MaxOrderRows \in Nat

VARIABLES
  tapes,      \* trades, funding, liquidations: the seqs of the rows kept
  pnl,        \* the rows of realized_pnl_events
  carryover,  \* owner -> realized_pnl_carryover
  orderRows,  \* the orders table, in projection order
  pruning,    \* the statement a prune has reached, and the cut it read
  lastSeq,    \* the newest seq projected
  lifetime, ever   \* history: owner -> PnL ever realized, tape -> seqs ever

retentionVars ==
  <<tapes, pnl, carryover, orderRows, pruning, lastSeq, lifetime, ever>>

Tapes == {"trades", "funding", "liquidations"}
Keep(t) == IF t = "trades" THEN TradesKeep ELSE EventsKeep
NotPruning == [at |-> "idle", cut |-> 0]
After == [orders |-> "trades", trades |-> "funding", funding |-> "liquidations",
          liquidations |-> "cut"]

-----------------------------------------------------------------------------
(* The projector's writes, between prunes.                                 *)

ProjectRow(t) ==
  /\ pruning = NotPruning /\ lastSeq < MaxProjected
  /\ lastSeq' = lastSeq + 1
  /\ tapes' = [tapes EXCEPT ![t] = @ \cup {lastSeq + 1}]
  /\ ever' = [ever EXCEPT ![t] = @ \cup {lastSeq + 1}]
  /\ UNCHANGED <<pnl, carryover, orderRows, pruning, lifetime>>

ProjectPnl(o, amount) ==
  /\ pruning = NotPruning /\ lastSeq < MaxProjected
  /\ lastSeq' = lastSeq + 1
  /\ pnl' = pnl \cup {[seq |-> lastSeq + 1, owner |-> o, amount |-> amount]}
  /\ lifetime' = [lifetime EXCEPT ![o] = @ + amount]
  /\ UNCHANGED <<tapes, carryover, orderRows, pruning, ever>>

ProjectOrder(o) ==
  /\ pruning = NotPruning /\ Len(orderRows) < MaxOrderRows
  /\ \E status \in {"open", "untriggered"} :
       orderRows' = Append(orderRows, [owner |-> o, status |-> status, old |-> FALSE,
                                      gone |-> FALSE])
  /\ UNCHANGED <<tapes, pnl, carryover, pruning, lastSeq, lifetime, ever>>

EndOrder(i) ==
  /\ pruning = NotPruning /\ orderRows[i].status \in {"open", "untriggered"}
  /\ \E status \in {"filled", "cancelled"} :
       orderRows' = [orderRows EXCEPT ![i].status = status]
  /\ UNCHANGED <<tapes, pnl, carryover, pruning, lastSeq, lifetime, ever>>

\* ORDER_RETENTION_MS pass since an order was placed: its row keeps that time.
OrderAges(i) ==
  /\ ~orderRows[i].old
  /\ orderRows' = [orderRows EXCEPT ![i].old = TRUE]
  /\ UNCHANGED <<tapes, pnl, carryover, pruning, lastSeq, lifetime, ever>>

-----------------------------------------------------------------------------
(* prune(), a statement a step.                                            *)

StartPrune ==
  /\ pruning = NotPruning
  /\ pruning' = [NotPruning EXCEPT !.at = "orders"]
  /\ UNCHANGED <<tapes, pnl, carryover, orderRows, lastSeq, lifetime, ever>>

\* Only the house's, only dead ones, only old ones.
Prunable(r) ==
  r.owner = HouseOwner /\ r.status \in {"cancelled", "filled"} /\ r.old

PruneOrders ==
  /\ pruning.at = "orders"
  /\ orderRows' = [i \in DOMAIN orderRows |->
                     [orderRows[i] EXCEPT !.gone = @ \/ Prunable(orderRows[i])]]
  /\ pruning' = [pruning EXCEPT !.at = After[@]]
  /\ UNCHANGED <<tapes, pnl, carryover, lastSeq, lifetime, ever>>

\* The newest `keep`, and the newest of the others; 0 when there is none.
Newest(seqs, keep) == {q \in seqs : Cardinality({k \in seqs : k > q}) < keep}
Cut(seqs, keep) ==
  LET older == seqs \ Newest(seqs, keep) IN IF older = {} THEN 0 ELSE Max(older)

TrimBySeq ==
  /\ pruning.at \in Tapes
  /\ LET t == pruning.at
         cut == Cut(tapes[t], Keep(t))
     IN  tapes' = [tapes EXCEPT ![t] = {q \in @ : q > cut}]
  /\ pruning' = [pruning EXCEPT !.at = After[@]]
  /\ UNCHANGED <<pnl, carryover, orderRows, lastSeq, lifetime, ever>>

\* pruneRealizedPnl reads its cut outside the transaction that uses it.
ReadPnlCut ==
  /\ pruning.at = "cut"
  /\ LET cut == Cut({r.seq : r \in pnl}, EventsKeep) IN
       pruning' = IF cut = 0 THEN NotPruning ELSE [at |-> "fold", cut |-> cut]
  /\ UNCHANGED <<tapes, pnl, carryover, orderRows, lastSeq, lifetime, ever>>

\* sum(amount) ... group by owner.
PnlSum(rows, o) == SumFunction([r \in {x \in rows : x.owner = o} |-> r.amount])

Folded_belowCut(cut) == {r \in pnl : r.seq < cut}

\* The rows that the transaction sums up.
Folded(cut) == {r \in pnl : r.seq <= cut}

\* One transaction: the sums join the carryover and the rows go.
FoldPnl ==
  /\ pruning.at = "fold"
  /\ carryover' = [o \in PnlOwners |->
                     carryover[o] + PnlSum(Folded(pruning.cut), o)]
  /\ pnl' = {r \in pnl : r.seq > pruning.cut}
  /\ pruning' = NotPruning
  /\ UNCHANGED <<tapes, orderRows, lastSeq, lifetime, ever>>

\* The process ends, or a statement fails: the statements before it stand.
PruneBreaksOff ==
  /\ pruning # NotPruning
  /\ pruning' = NotPruning
  /\ UNCHANGED <<tapes, pnl, carryover, orderRows, lastSeq, lifetime, ever>>

RetentionInit ==
  /\ tapes = [t \in Tapes |-> {}] /\ ever = tapes
  /\ pnl = {} /\ carryover = [o \in PnlOwners |-> 0] /\ lifetime = carryover
  /\ orderRows = <<>> /\ pruning = NotPruning /\ lastSeq = 0

RetentionNext ==
  \/ \E t \in Tapes : ProjectRow(t)
  \/ \E o \in PnlOwners, amount \in PnlAmounts : ProjectPnl(o, amount)
  \/ \E o \in OrderOwners : ProjectOrder(o)
  \/ \E i \in DOMAIN orderRows : EndOrder(i) \/ OrderAges(i)
  \/ StartPrune \/ PruneOrders \/ TrimBySeq \/ ReadPnlCut \/ FoldPnl
  \/ PruneBreaksOff

RetentionSpec == RetentionInit /\ [][RetentionNext]_retentionVars

-----------------------------------------------------------------------------
(* Properties.                                                             *)

RetentionTypeOK ==
  /\ lastSeq \in 0..MaxProjected
  /\ \A o \in PnlOwners : carryover[o] \in Int /\ lifetime[o] \in Int
  /\ \A i \in DOMAIN orderRows : orderRows[i].owner \in OrderOwners
  /\ pruning.at \in Tapes \cup {"idle", "orders", "cut", "fold"}

\* realizedPnlSummary(): the tape and the carryover.
Summary(o) == carryover[o] + PnlSum(pnl, o)

\* Between any two statements of a prune, and wherever one breaks off: the PnL
\* a user is shown is all the PnL ever realized; no live order and no user's
\* order is gone, so a restart restores every one; and of each tape the newest
\* rows, as many as are to be kept, are still there.
RetentionSafe ==
  /\ \A o \in PnlOwners : Summary(o) = lifetime[o]
  /\ \A i \in DOMAIN orderRows :
       orderRows[i].gone => /\ orderRows[i].owner = HouseOwner
                            /\ orderRows[i].status \notin {"open", "untriggered"}
  /\ \A t \in Tapes : Newest(ever[t], Keep(t)) \subseteq tapes[t]
=============================================================================
