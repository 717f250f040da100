---------------------------- MODULE TpuPipeline ----------------------------
(***************************************************************************)
(* TpuPipeline (engine/src/pipeline.rs), the other client of the worker    *)
(* pool: process_batch schedules a batch and sends its units, whole, to    *)
(* the workers, but never waits for a completion; only shutdown() does,    *)
(* for all that were ever sent.                                            *)
(*                                                                         *)
(* The batch reaches the scheduler through two HashMaps, so in any order;  *)
(* the list that prioritize() returns is only counted (see Prioritizer).   *)
(* The scheduler is the AdaptiveScheduler: it answers with each unit at    *)
(* most once, on an existing worker, and never with an error.              *)
(***************************************************************************)
EXTENDS AsyncWorkerPool

CONSTANTS
  Batches,  \* the batches submitted: [bundles, txs], two sequences
  IdOf      \* IdOf[u]: the number of a bundle or the signature of a transaction

\* A bundle has the accounts of all its transactions.
Unit == [unit : Units, accounts : SUBSET Accounts]

ASSUME BatchesAssumption == Batches \subseteq [bundles : Seq(Unit), txs : Seq(Unit)]

\* What a batch lists, of both kinds.
Listed(batch) == {batch.bundles[i] : i \in DOMAIN batch.bundles}
                 \cup {batch.txs[i] : i \in DOMAIN batch.txs}

\* A unit is one item of one batch.  Nothing keeps other units, of the same batch
\* or of another, from having its id.
ASSUME UnitsAreItems ==
  \A b, d \in Batches : \A x \in Listed(b), y \in Listed(d) :
    x.unit = y.unit => b = d /\ x = y

VARIABLES
  bpc,       \* bpc[c]: where caller c is in process_batch
  todo,      \* todo[c]: the assignments not sent yet
  unit_map,  \* unit_map[c]: bundle_map and tx_map, by unit
  submitted  \* the batches submitted so far, each of them once

batchVars == <<bpc, todo, unit_map, submitted>>
vars == <<poolVars, batchVars>>

Init ==
  /\ PoolInit
  /\ bpc = [c \in Callers |-> "idle"]
  /\ todo = [c \in Callers |-> <<>>]
  /\ unit_map = [c \in Callers |-> <<>>]
  /\ submitted = {}

\* Collecting a sequence of units into a HashMap keeps the last of each id.
ById(units) ==
  LET last == {i \in DOMAIN units : \A j \in DOMAIN units :
                 IdOf[units[j].unit] = IdOf[units[i].unit] => j <= i}
  IN  [u \in {units[i].unit : i \in last} |->
         units[CHOOSE i \in last : units[i].unit = u]]

\* bundle_map and tx_map; the ids of the two kinds are never compared.
Maps(batch) ==
  LET bundle_map == ById(batch.bundles)
      tx_map     == ById(batch.txs)
  IN  [u \in DOMAIN bundle_map \cup DOMAIN tx_map |->
         IF u \in DOMAIN bundle_map THEN bundle_map[u] ELSE tx_map[u]]

\* The answers of the scheduler: some of the units, in any order, anywhere.  The
\* units of a map have different ids, so an id and its kind stand for one unit.
Schedules(units) ==
  UNION { { [i \in 1 .. n |-> [unit |-> order[i], worker |-> place[i]]] :
              order \in {o \in [1 .. n -> units] :
                           \A i, j \in 1 .. n : o[i] = o[j] => i = j},
              place \in [1 .. n -> Workers] } :
          n \in 0 .. Cardinality(units) }

BeginBatch(c, batch) ==
  /\ Usable
  /\ bpc[c] = "idle"
  /\ batch \notin submitted
  /\ submitted' = submitted \cup {batch}
  /\ unit_map' = [unit_map EXCEPT ![c] = Maps(batch)]
  /\ \E s \in Schedules(DOMAIN Maps(batch)) : todo' = [todo EXCEPT ![c] = s]
  /\ bpc' = [bpc EXCEPT ![c] = "send"]
  /\ UNCHANGED poolVars

\* Mutation of WorkItem: a bundle is sent without its transactions.
WorkItemWithoutBundle(c, u) ==
  [unit |-> u,
   accounts |-> IF \E batch \in submitted : \E i \in DOMAIN batch.bundles : batch.bundles[i].unit = u
                THEN {} ELSE unit_map[c][u].accounts]

\* The unit is taken out of its map and sent as it came.
WorkItem(c, u) == [unit |-> u, accounts |-> unit_map[c][u].accounts]

\* One turn of the loop.  An error of send_work would end the call with the
\* rest of the batch neither sent nor reported.
SendUnit(c) ==
  /\ bpc[c] = "send"
  /\ cpc[c] = "idle"
  /\ todo[c] # <<>>
  /\ LET next == Head(todo[c])
     IN  IF Sendable(next.worker)
         THEN /\ SendWork(c, next.worker, WorkItem(c, next.unit))
              /\ todo' = [todo EXCEPT ![c] = Tail(@)]
         ELSE /\ todo' = [todo EXCEPT ![c] = <<>>]
              /\ UNCHANGED poolVars
  /\ UNCHANGED <<bpc, unit_map, submitted>>

EndBatch(c) ==
  /\ bpc[c] = "send"
  /\ cpc[c] = "idle"
  /\ todo[c] = <<>>
  /\ bpc' = [bpc EXCEPT ![c] = "idle"]
  /\ UNCHANGED <<poolVars, todo, unit_map, submitted>>

\* shutdown(self), or the pipeline is dropped without it.
EndPipeline(c) ==
  /\ \A d \in Callers : bpc[d] = "idle"
  /\ BeginShutdown(c) \/ AbandonPool(c)
  /\ UNCHANGED batchVars

Next ==
  \/ \E w \in Workers : WorkerStep(w) /\ UNCHANGED batchVars
  \/ \E c \in Callers :
       \/ CountPending(c) /\ UNCHANGED batchVars
       \/ Drain(c) /\ UNCHANGED batchVars
       \/ SendShutdowns(c) /\ UNCHANGED batchVars
       \/ DropPool(c) /\ UNCHANGED batchVars
       \/ \E batch \in Batches : BeginBatch(c, batch)
       \/ SendUnit(c)
       \/ EndBatch(c)
       \/ EndPipeline(c)

Spec == Init /\ [][Next]_vars

FairSpec ==
  Spec /\ PoolFairness /\ \A c \in Callers : WF_vars(SendUnit(c) \/ EndBatch(c))

-----------------------------------------------------------------------------

Assigned(u) == \E c \in Callers : \E i \in DOMAIN todo[c] : todo[c][i].unit = u

\* Every unit the scheduler assigns is sent and, in the end, executed or
\* refused for a conflict, whatever happens to the pipeline meanwhile: no send
\* fails, and neither shutdown() nor a drop loses what is queued.
AssignedUnitsSettle ==
  \A u \in Units : Assigned(u) ~> fate[u] \in {"ok", "conflict"}

\* shutdown() signals the workers only when all work has come back: its drain
\* counts exactly the completions of everything sent and never waited for
\* ("Wait for any pending work to complete first").
ShutdownWaitsForAll ==
  \A c \in Callers : cpc[c] \in {"signal", "sleep"} =>
    /\ \A u \in Units : fate[u] # "queued"
    /\ completions = <<>>
    /\ \A w \in Workers : wpc[w] \in {"recv", "stopped"}

\* The accounts that a unit names in its batch.
NamedAccounts(u) ==
  UNION UNION {{x.accounts : x \in {y \in Listed(batch) : y.unit = u}} : batch \in Batches}

\* Two units that name a common account are never executed at the same time;
\* bundles keep their transactions on this way to the workers.
UnitIsolation ==
  \A v, w \in Executing :
    v # w => NamedAccounts(cur[v].unit) \cap NamedAccounts(cur[w].unit) = {}

\* shutdown() returns.
ShutdownReturns == \A c \in Callers : cpc[c] = "drain" ~> cpc[c] = "down"
=============================================================================
