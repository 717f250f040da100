# Verification of Blunder

Blunder (`src/README.md`) is a Solana-style transaction scheduler in Rust: a
batch of transactions and bundles is put in order, assigned to workers by an
internal or an external scheduler, and executed by a pool of asynchronous
workers that lock the accounts of what they execute. This directory holds TLA+
models of its components, TLC configurations that check them on small
instances, and TLAPS proofs that hold for every instance.

## 1. The system

### Components, their state and their operations

| Component | Source | State | Operations |
|---|---|---|---|
| Account guards (sync) | `core/src/lock_guard.rs` 1-164 | `write_locked` (set), `read_locked` (map account -> reader count), each in a `parking_lot` lock | `would_conflict`, `AccountLockGuard::acquire`, drop |
| Account guards (async) | `core/src/lock_guard.rs` 165-334 | the same tables, each in a `tokio::sync::RwLock` | `would_conflict`, `acquire`, `release`, drop (with `try_write`) |
| Async worker pool | `engine/src/async_worker.rs` | per worker an unbounded channel and a task; one shared lock set; one completion channel behind a mutex; the counter `pending_work` | `spawn`, `send_work`, `wait_for_completions`, `shutdown`, the worker's `run` loop |
| Integrated pipeline | `engine/src/integrated_pipeline.rs` | a scheduler engine, a pool | `process_batch`: schedule, dispatch, wait, merge |
| Scheduler engine | `engine/src/scheduler_engine.rs` | an optional external client, an adaptive scheduler | `schedule` (external if configured, else convert and schedule internally) |
| Greedy scheduler | `scheduler/src/greedy.rs` | the account set of every worker, never emptied outside tests | `schedule_bundle`, `schedule_transaction`, `schedule`, `reset`, `release_accounts` |
| Priority graph scheduler | `scheduler/src/priograph.rs` | none between calls | graph construction, topological order, worker assignment |
| Adaptive scheduler, load monitor | `scheduler/src/adaptive.rs`, `load_monitor.rs` | the count of the last batch in an atomic; a greedy scheduler | choose greedy or priority graph by load |
| External scheduler client | `core/src/external_scheduler/client.rs` | connection mutex, map of pending requests, receive loop | `schedule` (send, wait with a timeout, validate), `report_completion` |
| External scheduler server | `scheduler-external/src/main.rs`, `round_robin.rs` | per connection one loop | read request, `RoundRobinScheduler::schedule`, send answer |
| TPU pipeline | `engine/src/pipeline.rs` | a pool, a scheduler | `process_batch` of another shape: prioritise, schedule, send, no waiting |
| Prioritizer | `engine/src/prioritizer.rs` | none | score, stable sort |
| Block engine | `engine/src/block_engine.rs` | queued bundles, id counter | `submit_bundle`, `select_winning_bundles`, `clear` |
| Synchronous worker | `engine/src/worker.rs` | a lock set | lock, execute, unlock one item |
| Message helpers, item ids | `core/src/external_scheduler/{messages,id_generator}.rs` | an atomic counter | account bloom filter and conflict test, id layout |

### How they interact

`main.rs` builds an `IntegratedPipeline`, whose `process_batch` asks the
scheduler engine for an assignment of units to workers, turns each assigned
unit into a work item, puts it in its worker's channel, and then waits until it
has received as many completions as `pending_work` said. A worker takes one
item at a time, tries to lock all its accounts in the one set all workers
share, sleeps in place of the execution, unlocks, and sends a completion on the
channel all workers share. An item that meets a locked account is not retried:
it is reported as failed. With an external scheduler the assignment
comes over QUIC: one unidirectional stream per message in each direction, a map
from request id to the task that waits for the answer, and one task that
receives answers. The guards of `lock_guard.rs` are a library for locking
accounts; the pool keeps a set of its own.

### What is hard

* **Interleaving.** Workers overlap between locking and unlocking; callers of
  the pool overlap between the item in the channel, the counter, the mutex of
  the receiver and the completion (`async_worker.rs` 172-211). None of the
  repository's tests has two tasks in the same call.
* **Counting.** `pending_work` is raised after the item is already in the
  channel and lowered by whoever receives; it can pass below zero and wrap.
* **Partial steps.** An async operation on the guards awaits two locks and can
  be cancelled at either; `drop` cannot await and gives up when a lock is taken.
* **Stopping.** A worker stops on `Shutdown` or on a closed channel, with or
  without items behind it; `shutdown` waits for work that may never complete.
* **Loss of information.** Bundles lose their transactions, and with them
  their accounts, on the way to the scheduler and to the worker.
* **Timeouts and limits** in the external client: an answer at the moment of
  the timeout, bounded streams, a mutex held across awaits.

`PROJECT.json` lists these hazards at their lines.

### What makes each component correct

* Guards: the tables hold exactly what live guards hold; conflicting guards
  never coexist; nothing stays locked when no guard is left; no operation blocks
  for ever.
* Pool: items in execution share no account; the lock set is exact; a unit is
  executed and reported at most once and settled in the end; waiting returns;
  the counter accounts for every unit.
* Pipeline: the answer is the truth about every unit in it; when it is given
  nothing it speaks of is still running; nothing is left over for the next
  batch; it returns.
* Schedulers: each unit at most once, on an existing worker, conflicting units
  not in parallel, priorities respected, no unit starved by state left from
  earlier batches.
* External scheduler: a request has one result, and an answer is a valid answer to
  that request; the map of pending requests holds no more than it must; the
  receive loop survives; where the two sides can wait for each other, calls
  still return.
* Library components: the filter hides no conflict; ids and submissions are
  neither repeated nor lost; the best bundles win.

## 2. The models

| Module | Models | Extends |
|---|---|---|
| `AccountLocking` | the abstract promise: an owner takes all its accounts or none, writers exclude everybody, readers share | |
| `LockTables` | the two tables of the guards as operators: `Conflicts`, `AddReaders`, `DropReaders` | |
| `AccountLocks` | the synchronous guards | `LockTables`; implements `AccountLocking` |
| `AsyncAccountLocks` | the async guards, tokio's `RwLock`, cancellation, drop | `LockTables`; implements `AccountLocking` |
| `ConflictFilter` | the bloom filter and the conflict tests on items, beside the guards | `AccountLocks` |
| `SyncWorker` | the synchronous workers | implements `AccountLocking` |
| `AsyncWorkerPool` | the workers, the calls of the pool, and their most general client | implements `AccountLocking` |
| `IntegratedPipeline` | `process_batch` over the pool | `AsyncWorkerPool` |
| `TpuPipeline` | the other pipeline: sends batches, never waits, shuts down | `AsyncWorkerPool` |
| `PrioGraph` | one call of the priority graph scheduler: graph, sort, assignment | |
| `Prioritizer` | the prioritizer's ranking of the batch the scheduler gets | `PrioGraph` |
| `AdaptiveScheduler` | the load monitor, the choice, and the greedy scheduler behind it, shared by callers | |
| `SchedulerEngine` | the conversion of items in front of it | `AdaptiveScheduler` |
| `SchedulingService` | the abstract promise of an external scheduler to its callers | |
| `RoundRobin` | the scheduling function of the server | |
| `ExternalScheduler` | client, connection and server | `RoundRobin`; implements `SchedulingService` |
| `BlockEngine` | submissions, clears, winners | |
| `ItemIds` | the id generator | |
| `Library` | the components that only tests call, side by side: guards with conflict tests, synchronous workers, block engine, ids | `ConflictFilter`; instances of the others |
| `MCLibrary`, `MCAsyncAccountLocks`, `MCAsyncWorkerPool`, `MCIntegratedPipeline`, `MCTpuPipeline`, `MCPrioGraph`, `MCAdaptiveScheduler`, `MCExternalScheduler` | constants for TLC | the module of that name (`MCPrioGraph`: `Prioritizer`, `MCAdaptiveScheduler`: `SchedulerEngine`) |
| `Library_proof`, `AsyncAccountLocks_proof`, `AsyncWorkerPool_proof`, `PrioGraph_proof`, `AdaptiveScheduler_proof`, `ExternalScheduler_proof` | theorems | the module of that name (`PrioGraph_proof`: `Prioritizer`, `AdaptiveScheduler_proof`: `SchedulerEngine`) |
| `IntegratedPipeline_proof`, `TpuPipeline_proof` | theorems | the module of that name and `AsyncWorkerPool_proof` |

### The guards

`AccountLocks` keeps the code's two tables, and the accounts of each live
guard. Every synchronous operation takes `write_locked` and then `read_locked`
and keeps both to its end, so it is one step. `NoReaders` is the empty map; a
map entry exists only while its count is positive, which `IsReadTable` states.

`AsyncAccountLocks` splits every operation at its awaits: `BeginAcquire` asks
for `write_locked`, `AwaitReadTable` asks for `read_locked` once the first is
granted, `FinishAcquire` or `RefuseAcquire` runs when both are. A lock is the
sequence of requests made and not given back; the front one is granted, and so
are the readers behind a reader, which is tokio's fair queue. `Cancel` is the
drop of a future at one of its awaits. `release(self)` owns the guard, so its
cancellation runs the guard's `Drop`. `Drop` is four steps: `try_write` on each
table may succeed or fail on its own. What a failed drop leaves locked is kept
in the history variables `leakedW` and `leakedR`, so that `TablesExact` says
exactly what the tables contain.

### The pool

One action of `AsyncWorkerPool` is one stretch of code between two points where
another task can act: the worker's `Receive`, `AcquireLocks` or
`FailToAcquire`, `ReleaseLocks`, `Report`, `Stop`; the caller's `SendWork` then
`CountPending` (two steps because line 179 and line 182 are), `LoadPending`,
`LockReceiver`, `ReceiveCompletion` then `SubtractPending`, and the steps of
`shutdown`. The sleep that stands for execution is the time a worker spends in
`execute`. The locks of all the transactions of a bundle are taken together and
given back together in the code, so an item is a unit with one set of accounts.
`AcquireLocks` checks the accounts and inserts them under one write lock, and is
one step. `pending` wraps at `UsizeMod`. `Vec::with_capacity(pending)` on a
count that wrapped panics: `cpc = "panicked"`, reached in the run `pool`
when two callers are between send and count and two others wait.
`Sendable` is false when the worker's task has ended, because its receiver is
dropped. `fate` is history.

`PoolNext` is the most general client: every caller does what the public
interface allows, in any order, once per unit. `SubmitShutdown` is the
`Shutdown` that a caller sends to a worker by hand, as the test at
`async_worker.rs` 381 does. `shutdown(self)` and the drop of the pool need sole
ownership (`SoleOwner`). `PoolSpec` has this client with any items; the two
pipelines are clients of their own, and are proved to be special cases of it.

### The pipeline

`IntegratedPipeline` replaces the general client of the pool by `process_batch`. The
schedule of a batch is any element of `Assignments(b)`: each unit at most once,
any order, any worker, units may be missing. The internal schedulers and
the validated answer of the external one all lie in that set. `ById` is the
`HashMap` that keeps the last of the units with one id; a schedule can name an
id twice, and the second is reported as not found. A unit is told apart from its
id (`IdOf`): the pool runs units, while the map, the assignments and the results
know ids, which other units of the same or another batch may have. `batch` keeps
which batch an answer is about. `ConvertToWorkItem` keeps a
transaction's accounts and loses a bundle's, as the code does. `DropPipeline` is
the end of `main`: there is no call to `shutdown`, the pool is dropped and the
workers stop when their channels are empty.

### The schedulers

`PrioGraph` follows `schedule` of `priograph.rs` in its three parts. The initial
states are the graphs of all batches: a priority per unit, computed with the
code's saturating 64-bit arithmetic (`U64Max`, `Million`), and an edge from the
more to the less valuable of two units that share an account, by position
between equals. `Pop` takes one of the best units of the heap; the code compares
priorities only, so among equals any may come out. `Assign` places the next unit
of the order. `worker_loads` is added without saturation: a sum past the largest
`u64` wraps in a release build (`Assign`) and panics in a debug build (`Panic`).
A scheduler made for no workers indexes worker 0 and panics.

`BestFirst` says more than a topological sort gives: edges exist only between
units that conflict, yet the whole order is by priority, because every edge goes
down and the heap always holds a unit of the highest priority left.

`Prioritizer` is the other judge of the same batch. `TpuPipeline` calls
`prioritize`, counts what it returns, and gives the scheduler the batch in
another order. That loses nothing only if the scheduler values the units as the
prioritizer does, with arithmetic written twice: this is `OrdersAgree`. The two
differ on one kind of unit, a bundle without compute units.

`AdaptiveScheduler` has callers that share one scheduler, as callers of
`process_batch` do. The count that `UpdatePending` stores is loaded again in
`ChooseScheduler`, and another caller may have stored its own in between. The
greedy scheduler takes its lock per unit; its sets are never emptied, because
the only code that empties them is not reachable from the engine.
`SchedulerEngine` puts `convert_execution_units` in front (`OfKind` is its loop
for one kind of item): bundles come before transactions, without accounts, so the
greedy scheduler gives every bundle to worker 0. Items are told apart from their
ids, because a bundle's id is parsed as a `u64` and replaced by 0 if it is none
(`BundleId`: `Printed` has the ids that read as numbers, with the number printed,
and `Zero` is "0"); several bundles of a batch can be called "0" in the answer.
Transactions keep their ids; they get one fixed price (`scheduler_engine.rs` 61), so the
priority graph has nothing to order them by but their place in the batch.

### The TPU pipeline

`TpuPipeline` is the second client of the pool. `process_batch` has no await:
`BeginBatch` builds the two maps and takes any schedule of their units, each
`SendUnit` is one turn of the loop, and other callers and the workers run in
between. Units are sent whole, with all the accounts of a bundle's transactions,
so `UnitIsolation` holds here, where it fails for the integrated pipeline. Units
are told apart from their ids (`IdOf`) as there: of the units of one kind and one
id the map keeps the last, so the scheduler sees each id once. Nobody
waits, so `pending_work` and the completion channel grow until `shutdown`.

### The external scheduler

`ExternalScheduler` has the tasks of both sides: callers, the client's receive
loop, the server's loop. One action is the code between two awaits. What is
taken from quinn: streams are accepted in the order they were opened; at most
`MaxStreams` (100) are unread in each direction, and `open_uni` waits at that
limit; a message that exceeds a stream's window (1.25 MB) makes `write_all` wait
for the reader (`Huge`); `read_to_end` gives up on a message of more than 1 MB,
and a writer that is still writing is then refused (`Long`, `Refused`); a lost
connection fails every operation; both sides have an idle timeout. An answer is
shorter than its request, so it is never too long.

The connection mutex is the queue `connq`, tokio's order of arrival. A caller
keeps it across `open_uni` and `write_all`; the receive loop takes it before each
accept and releases it before it waits. The three short locks (the counter, the
pending map, the insertion) are held across no await and are part of their
steps. The timer of a call starts when its request is sent; it may win or lose
against an answer that is there (`tokio::select!` chooses at random), and
`TimeOut` removes the entry later, so that the receive loop may be faster.
`LoseConnection` is any loss, at any time; nobody connects again.
`EngineMessage::Heartbeat` is never sent, and the connection is never `None`.

`SchedulingService` is what a caller may rely on: one result per request, and
an answer places every item of that request, on a worker that exists, with
conflicting items apart while some worker is free of the conflict.
`RoundRobin` computes the server's answers as the code does, with the counter
that outlives the request: `Placed` says where one item goes given the places of
the items before it, `Placement` is the one list of places that follows it. `StallIsCircular` is about the one way in which
the parts can block each other: the holder of the mutex waits for a stream, the
server for a stream to answer on, the receive loop for the mutex.

### The library components

The guards, the conflict tests, the synchronous workers, the block engine and
the id generator have no caller in the repository but their tests. `Library`
runs each as a state machine of its own; `focus` picks one per behaviour, so
that the state space is their sum and not their product.

`ConflictFilter` asks whether the conflict tests on items, a bloom filter and
then the exact sets, say the same as the guards of `lock_guard.rs` for the same
accounts. The hash function is any function from account and seed to a word
and a bit; it is chosen once, as `DefaultHasher` has fixed keys.

`SyncWorker` has threads that call a worker at the same time. `BlockEngine` has
`submit_bundle` in two steps, both under the mutex, and `clear` as `DashMap` does
it, one shard after the other, beside submissions. `select_winners` is a
function and is applied to every list; `ByScore` is the one order a stable sort
by descending score gives. `ItemIds` has the atomic
counter with its width, and the two kinds of items that share it.

## 3. The runs

| Run | Instance | Shows |
|---|---|---|
| `library` | 3 guards, 3 accounts, every pair of account sets, 3 hash functions; 3 threads; 2 submitters, 2 shards, 3 ids; every list of up to 4 submissions; 6 item ids | tables exact, conflict tests on items exact, refinement of `AccountLocking` by guards and by workers; no id twice, no submission lost, clears complete; best winners; ids tell their kind and place |
| `async_guards` | 3 tasks, 2 accounts, a writer, a reader and a mixed request | tables and refinement across awaits, cancellations and drops; every operation returns, and no wait is circular; only a drop that meets another operation leaks |
| `async_drop_leak` | as above, no cancellation | **violated**: with no guard alive an account is still locked |
| `pool` | 3 callers (symmetric), 2 workers, 3 units with a chain of conflicts | lock set exact, `pending_work` explained by the units, no unit in two places, refinement |
| `tpu` | 2 callers, 2 workers, a batch with a bundle and a conflicting transaction, a batch of two transactions with one signature, all schedules | assigned units settle, shutdown waits for all and returns, units with a common account never together |
| `pipeline` | 1 caller, 2 workers, a batch with two conflicting transactions and a bundle, and a batch with one signature twice and a bundle with the number of the first batch's, all schedules | answers true, batch finished when answered, a wait is for exactly what is to come, nothing left over, batches return, workers stop |
| `pipeline_two_callers` | 2 callers, one batch each | **violated**: a batch is answered while its unit is queued |
| `bundle_isolation` | as `pipeline` | **violated**: a bundle runs beside a conflicting transaction |
| `priograph` | up to 1 bundle and 4 transactions, 2 accounts, 0 or 2 workers | the whole order by priority, no unit lost or repeated, conflicting units apart while there is room, loads balanced, agreement with the prioritizer |
| `adaptive` | 2 callers, 2 workers, 4 batches, bundle ids that are numbers and that are not | every item answered or left out, bundles never left out, what one worker was given never conflicts, a unit left out only if every worker was given a conflicting one |
| `greedy_leftovers` | 1 caller, the same batches | **violated**: a unit is left out for the sake of a batch that is over |
| `external` | 2 callers, 2 workers, 3 requests, 1 report, 1 stream in each direction | only network errors leak an entry; a batch is rejected only for its own repeated id; the one stall is circular; the receive loop survives; `SchedulingService` is implemented; every call returns |

### Bounds

* Two workers and three units with conflicts `u1 - u2 - u3` are the least with
  a pair that conflicts, a pair that does not, and a queue of more than one.
* Three callers are needed for the count to wrap while somebody still waits:
  one between send and count, two that take the completions.
* `UsizeMod = 8` stands for 2^64 and `MaxCapacity = 5` for the largest capacity
  a vector can have: with 3 units a count is at most 3 when it has not wrapped
  and at least 5 when it has (at most 3 sends are uncounted), so both are
  distinguishable; that the limit lies between is all that matters.
* `MaxLeaks = 2` stops new acquisitions after two leaked read sets; the
  history variable would grow without bound otherwise. Two are enough for
  the reader count of one account to be leaked twice and read once more.
* Each unit and each batch is submitted once; a batch that is submitted again is
  another batch of other units, with the same ids. Both kinds of repetition are in
  `pipeline`: two transactions of a batch with one signature, and bundles of two
  batches with one number, as `main.rs` numbers its bundles. In `adaptive` three
  bundles have ids of all three sorts (a number, and two that are none).
* At most one hand-sent `Shutdown` waits in a channel at a time. In `pool` both
  workers may get one. The run is symmetric in the callers, in the workers, and
  in the exchange of the two ends of the chain of conflicts (`Symmetry`).
* `MaxTxs = 4` transactions and a bundle: three units in a chain of conflicts,
  one of equal value beside them, and one more, so that a unit is held back by
  two others and the heap has a choice. `U64Max = 7` and `Million = 2` stand for
  2^64 - 1 and 1,000,000: the tip 4 saturates and the sum of three priorities
  passes the largest number, which is what tells the cases apart.
* In `tpu` the two batches are submitted once each, by either caller, so that one
  call sends while the other, the workers, and then `shutdown` or the drop run.
* `MaxStreams = 1` stands for 100. The stall needs both directions full and one
  more message on each side: with one stream, two callers suffice. `MaxRequests =
  3` and `MaxReports = 1` are the calls, `Workload` says which batch each may
  carry: the three conflicting transactions (one more than there are workers, so
  that the fallback of the round robin is used), the repeated id, the two sizes
  that are too long. A second report or request brings no new kind of step.
* `ShardCount = 2` and `MaxIds = 3`: an id inserted before, behind and beside
  a clear. `MaxList = 4`: a winner, a loser to it, a bundle that conflicts with
  the loser only, and one more of equal score. `SeqMod = 4` stands for 2^64 and
  `MaxIssued = 6` goes past it, so that an id does come back.
* 2 words of 3 bits and 2 seeds stand for 16 words of 64 bits and 3 seeds; the
  three hash functions have all, some and no collisions. `FilterIsExact` is
  proved for all of them.
* `HighThreshold = 1` stands for 2000: one batch is at most at it and two
  are above it, whose accounts are left for the others.

### Fairness, and why the code justifies it

tokio polls a task whose channel, lock or timer is ready, so every worker and
every call that has begun is weakly fair (`PoolFairness`, and `FairSpec` of the
pipelines). tokio's `Mutex` serves waiters in order of arrival; a caller waiting
for the receiver may find the mutex taken and free again many times, so
`LockReceiver` is strongly fair. Nobody has to make a call. The queue of the
`RwLock`s and of the connection mutex is in the state, so weak fairness is
enough there. The pipelines never send `Shutdown` by hand: behind one,
work is discarded but counted and the waits do hang (the hazard at
`async_worker.rs` 90, which `PendingAccounting` describes).

In `external`, callers, the two loops and the timers of calls are weakly fair.
The network owes nothing, so a loss is fair only when nobody can move (`Idle`):
then no packet is sent and the idle timeout of the connection (30 s in the
client's default, 60 s in `configure_server`) does end it. Without it
`CallsReturn` fails, which its mutant `NeverIdle` shows.

Deadlock is checked where the system always has something to do or has
`Terminated` (`pipeline`, `priograph`, `external`), and in `async_guards`. The
clients of the pool stop when all units are sent and the pool is down, the
callers of the adaptive scheduler when all batches are answered, and the library
components at their bounds; their runs say `CHECK_DEADLOCK FALSE`.

## 4. What the checks disagree with

* *A dropped async guard may lock for ever.* `Drop` tries each table once.
  `lock_guard.rs` 3-4 promises "automatically release locks on drop"; 317 says
  "may not be released immediately". Nothing releases them later.
  `QuietDropsRelease` shows the exact condition: another operation under way.
* *Concurrent batches take each other's completions.* `process_batch` takes
  `&self` and waits on shared state: `wait_for_completions` loads the count (190)
  before it takes the receiver's mutex (196). For the same reason two callers
  that load the same count wait for more completions than there are, and one of
  them may never return; `async_worker.rs` 188 promises "all pending work".
* *A bundle is executed without its accounts.* `integrated_pipeline.rs` 180
  rebuilds it with no transactions, although `README.md` 157 has
  its workers lock all of them.
* *A finished batch blocks later ones.* The greedy scheduler "assigns work to
  the first available worker without conflicts" (`greedy.rs` 7), but a worker
  stays unavailable for every account it was ever given; a unit that meets
  them on all workers is left out of the answer, and the caller of
  `process_batch` is not told.

Not called a disagreement, but worth knowing: a batch that has one id twice
executes one unit and reports two successes (`ResultsTruthful` is per id), and
with an external scheduler it is rejected whole (`RejectedOnlyDuplicates`). If
another caller takes that unit's completion, one of the two results stays a
failure and the unit has run: `FailuresAreConflicts` needs distinct ids. An
item that meets a lock is failed and never retried. Two more on ids:

* Nothing keeps an id from being used in two batches: `main.rs` gives bundles the
  numbers 1 and 2 at 101 and 120 and again at 153-156, on one pipeline. One caller
  at a time is not harmed (`ResultsTruthful` is about the units of the batch). Of
  two callers, one can be given the other's completion for its own id and report
  as failed a unit that was executed; the failure is then its namesake's
  (`FailuresAreConflicts`).
* `scheduler_engine.rs` 65 turns a bundle id that is not a number into 0 without an
  error. The engine's tests use "bundle1" (`scheduler_integration.rs` 30, with
  an external scheduler, which keeps it); a caller of `SchedulerEngine::schedule`
  without one gets assignments for "0" and cannot tell its bundles apart (`AnswerCovers` says by which id each is answered). On the
  way through `IntegratedPipeline` every bundle id is a printed `u64`
  (`Bundle::id`), so this does not happen there, and the parse error in
  `convert_execution_unit_to_bundle` is not reached.

Of the external scheduler:

* `round_robin.rs` 46-47 says that conflicting transactions "pile up on the
  same worker". The code looks for a worker *without* a conflict, so they go to
  different ones; `SchedulingService` states what the code does. The ignored test
  `external_scheduler_integration.rs` 77-80 expects the workers 0, 1, 0, 1 for
  three transactions and a bundle without conflicts, which all go to worker 0.
* With 100 unread streams in each direction and more calls behind them the client
  blocks itself: the caller that holds the mutex waits for the server, which waits
  for the receive loop, which waits for the mutex. Callers in that queue have no
  timer yet (the 5 seconds begin after the send), and are freed by the idle
  timeout of the connection only, after which the engine has no scheduler.
* A failed send leaves its entry in `pending_requests` for good (`PendingExact`).

## 5. What is proved

Every safety invariant and every refinement and action property that a passing
run checks is also a theorem, for every value of the constants: any number of
workers, callers, units, accounts, guards, batches, shards and streams, any word
size, any schedule. The runs stay: they are what found the invariants, and their
mutants show that the properties can fail. Some theorems state what no run lists:
`FailuresAreReal` and `NoWaitPanics` are the other side of `pipeline_two_callers`
and of the panic that `pool` reaches, `TransactionsAreIsolated` that of
`bundle_isolation`, `DrainIsExact` is `WaitsForWhatIsThere` for `shutdown`; the
types of every model and `ProbeIsExact`, on which `FilterIsExact` rests, are
theorems as well.

What is assumed of the constants is named in the modules and evaluated by the
runs. Types: `PoolAssumption`, `BatchesAssumption`, `PrioGraphAssumption`,
`AdaptiveAssumption`, `RequestsAssumption`, `FilterAssumption`,
`LibraryAssumption`, `ExternalAssumption`, `WorkerCountAssumption`; they say that
a batch is a sequence, a score and a price a natural number, a modulus not zero.
`IdsAssumption` says that a printed number and "0" are ids. Finiteness:
`GuardsFinite`, `TasksFinite`, `PoolFinite`, because the code counts
what is in those sets. Identity: `UnitsAreItems`, a unit is one item of one
batch, which is what a unit means and asks nothing of ids. `Len(b) < UsizeMod`: a
batch in memory is shorter than 2^64. Some theorems have a
hypothesis of their own:

* `AnswersAreTrue`, `BatchIsFinished` and `NothingLeftOver` assume one caller.
  That is how `main.rs` calls `process_batch`, and with two the run
  `pipeline_two_callers` refutes the second.
* `WaitsAreExact` and `NoWaitPanics` assume one caller too: two that load the
  same count wait for the same completions. `NoWaitPanics` assumes `BatchesFit`
  as well: a vector can have room for a whole batch (the batch is in one).
* `FailuresAreReal` assumes `DistinctIds`: no single batch names an id twice.
  Otherwise the second result of an id is "not found" although the unit ran
  (section 4). Batches of different callers may share ids, which is why it says
  that *a* unit with the id was refused.
* `ShutdownWaits` and `DrainIsExact` assume `Cardinality(Units) < UsizeMod`: fewer than 2^64 units
  in the life of a pool. Otherwise the count could pass through 0 on its way up.
* `LoadsBalanced` has its two conditions in the property: without conflicts, and
  without a sum of priorities that passes the largest `u64`, where the loads wrap.

### The pool (`AsyncWorkerPool_proof`)

* *Locks.* `PoolInv` is `TypeOK`, `LockTableExact` and `ExclusiveExecution`. Neither
  of the last two is inductive alone: releasing an item's accounts keeps the set
  exact only if no other item in execution has one of them, and exclusion is kept
  by `AcquireLocks` only if the set is exact. `ConflictsAreReal` and the
  refinement `PoolImplementsLocking` follow.
* *Units.* `UnitsInv` says where each unit is, and ties the place to the history
  `fate`: `QueuesExact` (channels are distinct and hold queued units),
  `HandsExact` (workers hold different units), `ReportsExact` (one completion per
  unit, with the truth in it), `GotTruthful` (so has what callers received) and
  `NoneLost` (a queued unit is in a channel or in a worker's hands). A unit in a
  channel may not be in another's hands because it was sent once, when its
  fate was "unsent": that is why `fate` is in the invariant. `EveryUnitInOnePlace`
  follows.
* *The count.* `CountInv` is `pending = Expected % UsizeMod` for the integer
  `Expected`, sums of cardinalities. Each action moves one unit from one place to
  the next, so each lemma computes two cardinalities; `PendingIsExact` follows.
  The count is below what is there while a sender is between `send` and
  `fetch_add`; `Expected` is then negative at worst, and the modulus makes it the
  wrapped number that the code has.

These are proved for `PoolNext`, the most general client, so a pipeline inherits
all of them by showing that it is a client.

### The pipelines (`IntegratedPipeline_proof`, `TpuPipeline_proof`)

* `PipelineIsPoolClient` and `TpuIsPoolClient`: `Spec => PoolSpec`, any callers,
  batches and schedules. What has to be shown is that a unit is sent only while
  it is unsent: `Fresh`, every unit that a caller still holds is unsent and no
  two callers hold the same. The types need that the last unit of an id and the
  first completion of an id exist.
* *One caller.* `SoloInv` has a part for each place of the call: `Idle` (nothing
  is in flight and the answer is true), `Dispatching` (what is in flight was
  dispatched by this call, and the rest of the batch fits in the count),
  `Waiting` (`want` is what was received and what is in flight). The number
  waited for is right because, until something stops a worker (`Undisturbed`),
  the count is the size of `Flight`: `FlightCount`, from `CountInv` and the
  disjointness in `UnitsInv`.
  `AnswersAreTrue`, `BatchIsFinished` and `NothingLeftOver` follow, and so does
  `WaitsAreExact`. For `NoWaitPanics` the same parts carry a second bound,
  `MaxCapacity` in place of `UsizeMod`.
* *Several callers.* A caller may be given another's completions, or none of its
  own, so nothing ties its answer to what it dispatched. What is left is
  `SharedInv`: the pool stays until the last batch is answered, so a send
  succeeds (`PoolStays`); what is still to be dispatched is in the map, so
  nothing is "not found" (`ToDispatch`); and a result is a failure only after a
  completion said so, which is the last thing that happens to a unit
  (`ConflictKept`). From these `FailuresAreReal`.
* *Isolation.* `ItemsIn(S)`: every item in a channel or in a worker's hands is in
  the set S. It is kept by every step of the pool and by each send of an item of
  S (`ItemsWorker`, `ItemsSend`, `ItemsCaller`), so a pipeline has to say only what it
  sends: `ListedItems`, with the accounts that their batch lists for them, for the
  TPU pipeline, and `ConvertedItems` for the integrated one, which has a bundle
  without accounts. With exclusion in the pool these are `UnitsAreIsolated` and
  `TransactionsAreIsolated`: transactions never run together, and the loss
  of the bundle's accounts is all that `bundle_isolation` refutes.
* *Shutdown.* `DownInv` says that while one caller drains, the others are idle,
  and that it waits for what it has received and what is in flight. So it sends
  `Shutdown` only when nothing is in flight, `ShutdownWaits`, and what it waits
  for is what is to come, `DrainIsExact`.

### The guards (`Library_proof`, `AsyncAccountLocks_proof`)

* Synchronous: the tables are exact, the reader count of an account is the
  cardinality of the guards that read it, and the guards exclude each other
  (`LocksInvariant`). Each half needs the other, as in the pool. From it
  `TablesAreExact`, `ProbeIsExact`, `LocksImplementLocking`. `FilterIsExact` adds
  the conflict tests on items: a common account sets a common bit under any hash
  function, so the filter never hides a conflict, and the exact sets decide the
  rest.
* Async: the same with what failed drops have left. `WritesExact` and
  `CountsExact` include `leakedW` and `leakedR`; `Apart` says that a guard with
  writes shares no account with another guard or with a leak of writes. It is
  inductive across `Cancel` and the four steps of `Drop`, because the tables
  change only when both locks are granted, or by `try_write`, which is granted.
  `AsyncLocksImplementLocking` is the refinement.
* `OnlyBusyDropsLeak`: `LocksInv` says that each request on a lock is of a
  task at a place where it has one, once. A `try_write` fails only if there is
  a request, so there is a task at such a place.
* `WaitsAreNotCircular`: all operations take `write_locked` before
  `read_locked`. So whoever has `read_locked`, or is first in line for it, has all
  it needs, and whoever has `write_locked` waits for `read_locked` at most. A
  wait goes over at most one other task to one that can go on, for any number
  of tasks. That every operation returns also needs fairness, and is checked.

### The internal schedulers (`PrioGraph_proof`, `AdaptiveScheduler_proof`)

* *Order.* `GraphExact`: the in-degree of a unit is the number of its
  predecessors not sorted yet, and the heap is the unsorted units of in-degree 0.
  `OrderExact`: what is sorted is better than what is not. `AssignExact`: what is
  assigned is a prefix of the order, and a worker's accounts are those of its
  units. The step from the first to the second is `TopIsBest`: among the
  unsorted units there is a best one in the order `Better` (a finite set has a
  minimum in a well-founded order), nothing unsorted has an edge into it, so it
  is in the heap, so what is popped has the highest priority of all that is left.
  The same argument shows that the heap is empty only when everything is sorted
  (`SortIsComplete`): the graph has no cycle.
* *Loads.* `LoadsExact`: the load of a worker is the sum of the priorities of the
  units it was given. Without conflicts all workers are candidates
  (`AllAreCandidates`), the least loaded one gets the unit, and its load grows by
  just that unit; the sum does not wrap because it is at most the sum of the
  batch (`SumBelow`). Sums are functions that satisfy the recursion (`IsSum`).
* *The prioritizer.* `PrioritizerAgrees`: score and priority are the same
  number, for all units but bundles without compute units and any word size.
  `Ranks` is about sorting by counting what comes before: in a strict total
  order the counts are 0 to n - 1, each once, so that `Prioritize` is a sort
  (`PrioritizeSorts`). Both orders are then by the same numbers:
  `OrderIsThePrioritizers`.
* *Greedy and adaptive.* `StatesExact`: a worker's account set is what the greedy
  scheduler gave it, over all batches and callers. From it `GreedyIsDisjoint` and
  `LeftOutIsBlocked`, also for the batches that the engine converts.
* *The answer of the engine.* `Answers(c)`: what the caller asked for, converted,
  is what is still to do, what is answered and what is left out. `ConvertsEach`
  says that the conversion's two loops together give each item converted, a bundle
  under `BundleId` and a transaction under its own id (`FilterKeeps` for one
  loop). No bundle is left out, because a unit without
  accounts finds every worker available, and there is one. `AnswersCoverRequests`
  follows.

### The external scheduler (`ExternalScheduler_proof`)

`IInv` has seven parts. `CallsInv`: a call in progress has an open request of its
own. `PendingExact`. `FlightInv`: what is on its way was sent whole, and an
answer on its way is one that `RoundRobin` can give to that request's batch.
`QueueInv` and `WriterInv`: who asks for the mutex is in its queue once, who
writes is first in it, and without a loss an unfinished stream is of the one who
writes. `LinkInv`: `LoopSurvives`, and the limits of the streams. From it:
`PendingRequestsAreExact`; `LoopKeepsReceiving`; `StallsAreCircular` (with
`lost` false, each of the other waits of the three parties contradicts one of
the parts); `RejectedAreDuplicates`, which needs that `Placed` has a solution
for every batch and that validation accepts it if the ids are distinct; and
`ExternalImplementsService`, the refinement of `SchedulingService`.

### The library components (`Library_proof`)

* `WorkersImplementLocking`: the two-part invariant of the pool, for the
  synchronous workers.
* `SubmissionsAreExact`: `IdsTaken` (ids in use are below the counter, and the
  one about to be inserted is not in use) and `Cleared` (a clear has emptied the
  shards before its own).
* `IdsAreDistinct`: the n-th id is made of n modulo `SeqMod`, and two remainders
  less than `SeqMod` apart differ.
* `WinnersAreBest`: `ByScoreSorts` (the sort puts every submission in one place,
  from `Ranks`) and `ChosenWell`, the invariant of the loop over that order.

### How loops and recursive functions are proved about

Induction theorems that take a predicate cannot be used with these provers. A
recursive function f on 0 .. n is handled in two steps: a function that
satisfies the recursion exists (`SumExists`, `FilterExists`, `ChoiceExists`, the
placement of `RoundRobin`), and every function that satisfies it has the
property. Both are by the least counterexample (`LeastOf`, from the
well-foundedness of the natural numbers): the least m at which it fails is not
0, and holds at m - 1. The model therefore has recursive functions, no RECURSIVE
operator, and no `SelectSeq`, whose definition the prover does not expand.

### What is only model-checked

Every liveness property: `OperationsReturn`, the settling of units and the
return of `shutdown`, of batches and of calls, the end of the workers. The
provers have no rules for fairness or ENABLED. The absence of deadlock, where
the runs check it, is model-checked for the same reason; for the async guards
and for a wait of the pool, `WaitsAreNotCircular`, `WaitsAreExact` and
`DrainIsExact` prove what it comes from. The four disagreements
of section 4 are counterexamples of runs.

## 6. Not modelled, and abstractions

* Execution is a sleep in the code and has no result but success; the content
  of transactions, priorities, compute units and signatures is left out.
* The futures of the pool's calls are not cancelled, and the runtime is not
  killed. A cancelled `wait_for_completions` would keep the completions it
  received and the counts it subtracted.
* TLS, QUIC and the codec of the messages are external; a peer that sends
  something other than its protocol is not modelled. The server serves each
  connection with a loop of its own that shares nothing, so one is modelled.
* The message structs of `messages.rs` that no code uses, `GreedyScheduler::reset`
  and `release_accounts` (tests only), getters, and the command line in
  `main.rs`, which submits fixed batches one after the other.
* `PROJECT.json` says of each component whether it is modelled.

## 7. Plan

Done: all components with state that the engine or the tests reach are modelled;
every safety, action and refinement property of the passing runs is proved. What
may be added:

1. For the greedy scheduler, `LeftOutForItsBatch` for the first batch of a
   scheduler, which is when its sets are empty; it follows from
   `LeftOutOnlyIfBlocked` when only one batch has been scheduled.
2. For `AsyncAccountLocks`, that the locks are granted in the order of the
   requests.
3. The cancelled futures of the pool's calls (section 6), once the engine has a
   caller that cancels them.
