------------------------- MODULE IntegratedPipeline -------------------------
(***************************************************************************)
(* IntegratedPipeline (engine/src/integrated_pipeline.rs) over the worker  *)
(* pool: process_batch schedules a batch, dispatches its units to workers, *)
(* waits for the completions and merges them into its answer.  The type    *)
(* takes &self, so several tasks may process batches at the same time.     *)
(*                                                                         *)
(* The scheduler is what the pipeline may rely on: Assignments below is    *)
(* the promise that the internal schedulers and the client of the external *)
(* one keep, and no more.                                                  *)
(***************************************************************************)
EXTENDS AsyncWorkerPool

CONSTANTS
  Batches,  \* the batches submitted: sequences of ExecutionUnitData
  IdOf      \* IdOf[u]: the id of unit u, a signature or the number of a bundle

Ids == {IdOf[u] : u \in Units}

UnitData == [unit : Units, kind : {"tx", "bundle"}, accounts : SUBSET Accounts]

\* The units of batch b and their ids.
UnitsOf(b) == {b[i].unit : i \in DOMAIN b}
IdsOf(b)   == {IdOf[u] : u \in UnitsOf(b)}

\* The length of a Vec fits in a usize.
ASSUME BatchesAssumption ==
  /\ Batches \subseteq Seq(UnitData)
  /\ \A b \in Batches : Len(b) < UsizeMod

\* A unit is one item of one batch.  Nothing keeps other units, of the same batch
\* or of another, from having its id.
ASSUME UnitsAreItems ==
  \A b, d \in Batches : \A i \in DOMAIN b, j \in DOMAIN d :
    b[i].unit = d[j].unit => b = d /\ i = j

VARIABLES
  bpc,        \* bpc[c]: where caller c is in process_batch
  batch,      \* batch[c]: the batch it is processing or processed last
  todo,       \* todo[c]: the assignments not dispatched yet
  unit_map,   \* unit_map[c]: the units not dispatched yet, by id
  results,    \* results[c]: dispatch results; the answer once bpc[c] = "idle"
  submitted   \* the batches submitted so far, each of them once

batchVars == <<bpc, batch, todo, unit_map, results, submitted>>
vars == <<poolVars, batchVars>>

Result     == [id : Ids, worker : Workers, success : BOOLEAN]
Assignment == [id : Ids, worker : Workers]

Init ==
  /\ PoolInit
  /\ bpc = [c \in Callers |-> "idle"]
  /\ batch = [c \in Callers |-> <<>>]
  /\ todo = [c \in Callers |-> <<>>]
  /\ unit_map = [c \in Callers |-> <<>>]
  /\ results = [c \in Callers |-> <<>>]
  /\ submitted = {}

-----------------------------------------------------------------------------
(* Scheduling *)

\* What a schedule of batch b can be: each unit at most once, by its id, in any
\* order, on any worker.  The greedy scheduler and an external one may leave units
\* out.
Assignments(b) ==
  UNION { { [i \in 1 .. n |-> [id |-> IdOf[b[order[i]].unit], worker |-> place[i]]] :
              order \in {o \in [1 .. n -> DOMAIN b] :
                           \A i, j \in 1 .. n : o[i] = o[j] => i = j},
              place \in [1 .. n -> Workers] } :
          n \in 0 .. Len(b) }

\* Collecting the units into a HashMap keeps the last of those with one id.
ById(b) ==
  LET last(id) == CHOOSE i \in DOMAIN b :
                    /\ IdOf[b[i].unit] = id
                    /\ \A j \in DOMAIN b : IdOf[b[j].unit] = id => j <= i
  IN  [id \in IdsOf(b) |-> b[last(id)]]

\* convert_to_work_item: a transaction keeps its accounts, a bundle is rebuilt
\* with an empty list of transactions and so has none.
ConvertToWorkItem(unit) ==
  [unit |-> unit.unit,
   accounts |-> IF unit.kind = "bundle" THEN {} ELSE unit.accounts]

-----------------------------------------------------------------------------
(* process_batch *)

BeginBatch(c, b) ==
  /\ Usable
  /\ bpc[c] = "idle"
  /\ b \notin submitted
  /\ submitted' = submitted \cup {b}
  /\ batch' = [batch EXCEPT ![c] = b]
  /\ unit_map' = [unit_map EXCEPT ![c] = ById(b)]
  /\ results' = [results EXCEPT ![c] = <<>>]
  /\ \E s \in Assignments(b) : todo' = [todo EXCEPT ![c] = s]
  /\ bpc' = [bpc EXCEPT ![c] = "dispatch"]
  /\ UNCHANGED poolVars

\* The scheduler answers with an error (the external one can time out):
\* process_batch returns it and nothing is dispatched.
ScheduleFails(c, b) ==
  /\ Usable
  /\ bpc[c] = "idle"
  /\ b \notin submitted
  /\ submitted' = submitted \cup {b}
  /\ batch' = [batch EXCEPT ![c] = b]
  /\ results' = [results EXCEPT ![c] = <<>>]
  /\ UNCHANGED <<poolVars, bpc, todo, unit_map>>

AddResult(c, success) ==
  results' = [results EXCEPT ![c] =
    Append(@, [id |-> Head(todo[c]).id, worker |-> Head(todo[c]).worker,
               success |-> success])]

\* One turn of the loop of dispatch_to_workers: send_work, whose error is the
\* result of the unit, unless
DispatchUnit(c) ==
  /\ bpc[c] = "dispatch"
  /\ cpc[c] = "idle"
  /\ todo[c] # <<>>
  /\ LET next == Head(todo[c])
     IN /\ next.id \in DOMAIN unit_map[c]
        /\ IF Sendable(next.worker)
           THEN SendWork(c, next.worker, ConvertToWorkItem(unit_map[c][next.id]))
           ELSE UNCHANGED poolVars
        /\ AddResult(c, Sendable(next.worker))
        /\ unit_map' = [unit_map EXCEPT
                          ![c] = [id \in DOMAIN @ \ {next.id} |-> @[id]]]
  /\ todo' = [todo EXCEPT ![c] = Tail(@)]
  /\ UNCHANGED <<bpc, batch, submitted>>

\* the unit is not in the map (another unit of the batch had its id).
UnitNotFound(c) ==
  /\ bpc[c] = "dispatch"
  /\ cpc[c] = "idle"
  /\ todo[c] # <<>>
  /\ Head(todo[c]).id \notin DOMAIN unit_map[c]
  /\ AddResult(c, FALSE)
  /\ todo' = [todo EXCEPT ![c] = Tail(@)]
  /\ UNCHANGED <<poolVars, bpc, batch, unit_map, submitted>>

\* All is dispatched; the units that no assignment named are dropped with the
\* map.
BeginWait(c) ==
  /\ bpc[c] = "dispatch"
  /\ todo[c] = <<>>
  /\ LoadPending(c)
  /\ unit_map' = [unit_map EXCEPT ![c] = <<>>]
  /\ bpc' = [bpc EXCEPT ![c] = "wait"]
  /\ UNCHANGED <<batch, todo, results, submitted>>

\* Mutation of Merge: the first completion is taken whatever its id.
MergeFirst(r, done) ==
  IF done = <<>> THEN r ELSE [r EXCEPT !.success = done[1].success]

\* A dispatch result takes the status of the first completion with its id.
Merge(r, done) ==
  LET same == {i \in DOMAIN done : IdOf[done[i].unit] = r.id}
  IN IF same = {} THEN r
     ELSE [r EXCEPT !.success =
             done[CHOOSE i \in same : \A j \in same : i <= j].success]

EndBatch(c) ==
  /\ bpc[c] = "wait"
  /\ cpc[c] = "idle"
  /\ results' = [results EXCEPT ![c] =
                   [i \in DOMAIN @ |-> Merge(@[i], got[c])]]
  /\ bpc' = [bpc EXCEPT ![c] = "idle"]
  /\ UNCHANGED <<poolVars, batch, todo, unit_map, submitted>>

\* The pipeline, and with it the pool, is dropped.
DropPipeline(c) ==
  /\ \A d \in Callers : bpc[d] = "idle"
  /\ AbandonPool(c)
  /\ UNCHANGED batchVars

\* The steps of a caller that is in process_batch.
BatchStep(c) ==
  \/ DispatchUnit(c)
  \/ UnitNotFound(c)
  \/ BeginWait(c)
  \/ EndBatch(c)

\* The work is over: the pipeline is gone and its workers have stopped.
Terminated == ~open /\ AllStopped /\ UNCHANGED vars

Next ==
  \/ \E w \in Workers : WorkerStep(w) /\ UNCHANGED batchVars
  \/ \E c \in Callers :
       \/ CallerStep(c) /\ UNCHANGED batchVars
       \/ \E b \in Batches : BeginBatch(c, b) \/ ScheduleFails(c, b)
       \/ BatchStep(c)
       \/ DropPipeline(c)
  \/ Terminated

Spec == Init /\ [][Next]_vars

\* tokio's scheduling of the pool's tasks, and of process_batch itself.
FairSpec == Spec /\ PoolFairness /\ \A c \in Callers : WF_vars(BatchStep(c))

-----------------------------------------------------------------------------

\* Every variable has its type, those of the pool included.
PipelineTypeOK ==
  /\ TypeOK
  /\ bpc \in [Callers -> {"idle", "dispatch", "wait"}]
  /\ batch \in [Callers -> Seq(UnitData)]
  /\ todo \in [Callers -> Seq(Assignment)]
  /\ results \in [Callers -> Seq(Result)]
  /\ DOMAIN unit_map = Callers
  /\ \A c \in Callers :
       /\ DOMAIN unit_map[c] \subseteq Ids
       /\ \A id \in DOMAIN unit_map[c] : unit_map[c][id] \in UnitData
  /\ submitted \subseteq Batches

\* The answer of process_batch is the truth about its batch: a result says
\* success exactly when the workers executed a unit of the batch with that id
\* ("Merge dispatch results with actual completion results"), whatever became of
\* its namesakes in other batches.
ResultsTruthful ==
  \A c \in Callers :
    bpc[c] = "idle" =>
      \A i \in DOMAIN results[c] :
        results[c][i].success <=>
          \E u \in UnitsOf(batch[c]) : IdOf[u] = results[c][i].id /\ fate[u] = "ok"

\* "Wait for all workers to complete their assigned work": when process_batch
\* has answered, none of the units of its batch is queued or executing.
BatchFinished ==
  \A c \in Callers :
    bpc[c] = "idle" => UnitsOf(batch[c]) \cap (QueuedUnits \cup WorkingUnits) = {}

\* Nothing is left over between batches: no pending count, no completion for
\* the next batch to take for its own, no lock.
QuietBetweenBatches ==
  (Usable /\ \A c \in Callers : bpc[c] = "idle") =>
    pending = 0 /\ completions = <<>> /\ locked = {}

\* process_batch returns.
BatchReturns == \A c \in Callers : bpc[c] # "idle" ~> bpc[c] = "idle"

\* When the pipeline is dropped its workers stop, after the queued work.
WorkersStop == ~open ~> AllStopped

\* The accounts that a unit names in its batch.
NamedAccounts(u) ==
  UNION UNION {{b[i].accounts : i \in {j \in DOMAIN b : b[j].unit = u}} : b \in Batches}

\* "Bundle: lock all -> execute seq", "Loose: lock -> execute -> unlock": two
\* units that name a common account are never executed at the same time.
UnitIsolation ==
  \A v, w \in Executing :
    v # w => NamedAccounts(cur[v].unit) \cap NamedAccounts(cur[w].unit) = {}

\* The units that are transactions in their batch.
Transactions ==
  {u \in Units : \A b \in Batches : \A i \in DOMAIN b :
                   b[i].unit = u => b[i].kind = "tx"}

\* "Loose: lock -> execute -> unlock", for what convert_to_work_item sends with
\* its accounts: two transactions that name a common account are never executed
\* at the same time, though tasks process batches that know nothing of each
\* other.
TransactionIsolation ==
  \A v, w \in Executing :
    v # w /\ {cur[v].unit, cur[w].unit} \subseteq Transactions =>
      NamedAccounts(cur[v].unit) \cap NamedAccounts(cur[w].unit) = {}

\* A result that says failure is about a unit with its id that was refused for a
\* conflict and is not executed, now or later.  This is what is left of
\* ResultsTruthful when several tasks process batches and take each other's
\* completions, for batches in which no id comes twice; the unit can be a namesake
\* of another batch, while the one of this batch was executed.
FailuresAreConflicts ==
  \A c \in Callers : \A i \in DOMAIN results[c] :
    ~results[c][i].success =>
      \E u \in Units : IdOf[u] = results[c][i].id /\ fate[u] = "conflict"
=============================================================================
