----------------------------- MODULE Prioritizer -----------------------------
(***************************************************************************)
(* The Prioritizer (engine/src/prioritizer.rs) beside the scheduler that   *)
(* gets the same batch: TpuPipeline::process_batch ranks a batch, counts   *)
(* the ranking, and leaves the order of the work to the scheduler.  Units  *)
(* are named by their place in the batch, bundles first, as in PrioGraph.  *)
(*                                                                         *)
(* Between the two calls the batch goes through two HashMaps.  The batches *)
(* checked hold every order of the same units, and OrdersAgree says        *)
(* nothing about units that only their order tells apart.                  *)
(***************************************************************************)
EXTENDS PrioGraph

VARIABLES
  batch,       \* the batch of the call
  prioritized  \* the list that prioritize() returned, of places in the batch

prioVars == <<vars, batch, prioritized>>

\* SchedulableUnit: what a bundle and a transaction pay, and the compute units
\* they ask for.
PriorityScore(b, i) ==
  IF i <= Len(b.bundles)
  THEN b.bundles[i].tip
  ELSE LET tx == b.txs[i - Len(b.bundles)]
       IN  SaturatingMul(tx.price, tx.limit) \div Million

ComputeUnits(b, i) ==
  IF i <= Len(b.bundles) THEN b.bundles[i].cu ELSE b.txs[i - Len(b.bundles)].limit

\* Mutation of CalculateScore: the fee, whatever it costs to earn it.
CalculateFee(b, i) == SaturatingMul(PriorityScore(b, i), Million)

\* A unit without compute units is worth nothing here.
CalculateScore(b, i) ==
  IF ComputeUnits(b, i) = 0 THEN 0
  ELSE SaturatingMul(PriorityScore(b, i), Million) \div ComputeUnits(b, i)

\* sort_by_key is stable and the key is reversed: i is put before j.
RankedBefore(b, i, j) ==
  \/ CalculateScore(b, i) > CalculateScore(b, j)
  \/ CalculateScore(b, i) = CalculateScore(b, j) /\ i < j

Prioritize(b) ==
  LET places == 1 .. Len(b.bundles) + Len(b.txs)
  IN  [p \in places |->
         CHOOSE i \in places : Cardinality({j \in places : RankedBefore(b, j, i)}) = p - 1]

\* One call of process_batch: prioritize(), then schedule().
PrioInit ==
  \E b \in Batches :
    /\ batch = b
    /\ prioritized = Prioritize(b)
    /\ InitWith(b)

PrioSpec == PrioInit /\ [][Next /\ UNCHANGED <<batch, prioritized>>]_prioVars

-----------------------------------------------------------------------------

Unpriced(i) == nodes[i].is_bundle /\ ComputeUnits(batch, i) = 0

\* The two components that value units agree: of two units that the scheduler
\* values differently it hands out first the one the prioritizer ranks first,
\* although each computes its values on its own and the graph never compares
\* units that do not conflict.  Only a bundle without compute units has two
\* values: it is last in one and its whole tip in the other.
OrdersAgree ==
  spc # "sort" =>
    \A p, q \in DOMAIN prioritized :
      LET i == prioritized[p]
          j == prioritized[q]
      IN  /\ p < q
          /\ nodes[i].priority # nodes[j].priority
          /\ ~Unpriced(i) /\ ~Unpriced(j)
          => \E r, s \in DOMAIN sorted : r < s /\ sorted[r] = i /\ sorted[s] = j
=============================================================================
