-------------------------- MODULE AsyncWorkerPool --------------------------
(***************************************************************************)
(* The worker pool of engine/src/async_worker.rs: tokio tasks that take    *)
(* work from one channel each, lock the accounts of an item in one shared  *)
(* set, execute it, unlock and report on one shared completion channel;    *)
(* and the callers of the pool, who send work, wait for completions and    *)
(* shut the pool down.                                                     *)
(*                                                                         *)
(* One action is one stretch of code between two points where another      *)
(* task can be seen to act: an await, a channel send, an atomic update.    *)
(* This module has the state and the operations, and PoolSpec, the pool    *)
(* under the most general client; IntegratedPipeline and TpuPipeline are   *)
(* the clients that the engine has.                                        *)
(***************************************************************************)
EXTENDS Integers, Sequences, FiniteSets

CONSTANTS
  Workers,     \* the ids of the spawned workers (0..worker_count-1)
  Callers,     \* the tasks that share a reference to the pool
  Units,       \* the work submitted: single transactions and bundles
  Accounts,    \* account keys
  Shutdown,    \* WorkItem::Shutdown
  NoItem,      \* no item taken yet
  UsizeMod,    \* 2^64 in the code: pending_work wraps there
  MaxCapacity  \* the largest n for which Vec::with_capacity(n) does not panic

Items == [unit : Units, accounts : SUBSET Accounts]

ASSUME PoolAssumption ==
  /\ Shutdown \notin Items
  /\ NoItem \notin Items
  /\ Shutdown # NoItem
  /\ UsizeMod \in Nat \ {0}
  /\ MaxCapacity \in Nat

\* There are finitely many workers and tasks, and a run submits finitely many units.
ASSUME PoolFinite == IsFiniteSet(Workers) /\ IsFiniteSet(Callers) /\ IsFiniteSet(Units)

VARIABLES
  locked,       \* global_locks: the accounts locked by executing workers
  queue,        \* queue[w]: the channel of work_rx of worker w
  wpc,          \* wpc[w]: where worker w is in run()
  cur,          \* cur[w]: the item worker w took last
  outcome,      \* outcome[w]: the outcome worker w is about to report
  completions,  \* the completion channel
  pending,      \* pending_work, an AtomicUsize
  open,         \* the pool still exists: its senders and its receiver are alive
  cpc,          \* cpc[c]: where caller c is in a call of the pool
  want,         \* want[c]: the count of pending work that caller c loaded
  got,          \* got[c]: the completions caller c received in this call
  fate          \* history: what became of each unit

workerVars == <<locked, queue, wpc, cur, outcome>>
callerVars == <<pending, open, cpc, want, got>>
poolVars   == <<workerVars, callerVars, completions, fate>>

WorkerPcs == {"recv", "acquire", "execute", "report", "stopped"}
WaitPcs   == {"lock", "receive", "subtract"}
DownPcs   == {"drain", "signal", "sleep", "down"}
CallerPcs == {"idle", "count", "panicked"} \cup WaitPcs \cup DownPcs
Fates     == {"unsent", "queued", "ok", "conflict", "discarded"}

Completion == [unit : Units, worker : Workers, success : BOOLEAN]

PoolInit ==
  /\ locked = {}
  /\ queue = [w \in Workers |-> <<>>]
  /\ wpc = [w \in Workers |-> "recv"]
  /\ cur = [w \in Workers |-> NoItem]
  /\ outcome = [w \in Workers |-> FALSE]
  /\ completions = <<>>
  /\ pending = 0
  /\ open = TRUE
  /\ cpc = [c \in Callers |-> "idle"]
  /\ want = [c \in Callers |-> 0]
  /\ got = [c \in Callers |-> <<>>]
  /\ fate = [u \in Units |-> "unsent"]

-----------------------------------------------------------------------------
(* The worker task: AsyncWorker::run *)

\* The ids of the units that wait in a channel.
UnitsIn(q) == {q[i].unit : i \in {j \in DOMAIN q : q[j] # Shutdown}}

\* Mutation of Receive: the item is read and stays in the channel.
ReceivePeeks(w) ==
  /\ wpc[w] = "recv"
  /\ queue[w] # <<>>
  /\ Head(queue[w]) # Shutdown
  /\ cur' = [cur EXCEPT ![w] = Head(queue[w])]
  /\ wpc' = [wpc EXCEPT ![w] = "acquire"]
  /\ UNCHANGED <<locked, queue, outcome, completions, callerVars, fate>>

\* recv() yields a transaction or a bundle.
Receive(w) ==
  /\ wpc[w] = "recv"
  /\ queue[w] # <<>>
  /\ Head(queue[w]) # Shutdown
  /\ cur' = [cur EXCEPT ![w] = Head(queue[w])]
  /\ queue' = [queue EXCEPT ![w] = Tail(queue[w])]
  /\ wpc' = [wpc EXCEPT ![w] = "acquire"]
  /\ UNCHANGED <<locked, outcome, completions, callerVars, fate>>

\* Mutation of Stop: a closed channel does not end the loop.
StopOnSignalOnly(w) ==
  /\ wpc[w] = "recv"
  /\ queue[w] # <<>> /\ Head(queue[w]) = Shutdown
  /\ wpc' = [wpc EXCEPT ![w] = "stopped"]
  /\ queue' = [queue EXCEPT ![w] = <<>>]
  /\ fate' = [u \in Units |->
                IF u \in UnitsIn(queue[w]) THEN "discarded" ELSE fate[u]]
  /\ UNCHANGED <<locked, cur, outcome, completions, callerVars>>

\* recv() yields Shutdown, or None because the pool dropped the sender: the
\* loop breaks and the receiver is dropped with whatever is still queued.
Stop(w) ==
  /\ wpc[w] = "recv"
  /\ \/ queue[w] # <<>> /\ Head(queue[w]) = Shutdown
     \/ queue[w] = <<>> /\ ~open
  /\ wpc' = [wpc EXCEPT ![w] = "stopped"]
  /\ queue' = [queue EXCEPT ![w] = <<>>]
  /\ fate' = [u \in Units |->
                IF u \in UnitsIn(queue[w]) THEN "discarded" ELSE fate[u]]
  /\ UNCHANGED <<locked, cur, outcome, completions, callerVars>>

\* acquire_locks under the write lock of the set: all the accounts are free
\* and all are taken,
AcquireLocks(w) ==
  /\ wpc[w] = "acquire"
  /\ cur[w].accounts \cap locked = {}
  /\ locked' = locked \cup cur[w].accounts
  /\ wpc' = [wpc EXCEPT ![w] = "execute"]
  /\ UNCHANGED <<queue, cur, outcome, completions, callerVars, fate>>

\* Mutation of FailToAcquire: accounts taken before the conflict was found are
\* not given back.
FailKeepingLocks(w) ==
  /\ wpc[w] = "acquire"
  /\ cur[w].accounts \cap locked # {}
  /\ locked' = locked \cup cur[w].accounts
  /\ wpc' = [wpc EXCEPT ![w] = "report"]
  /\ outcome' = [outcome EXCEPT ![w] = FALSE]
  /\ fate' = [fate EXCEPT ![cur[w].unit] = "conflict"]
  /\ UNCHANGED <<queue, cur, completions, callerVars>>

\* or one is not free, nothing is taken and LockAcquisitionFailed is
\* reported; the item is not tried again.
FailToAcquire(w) ==
  /\ wpc[w] = "acquire"
  /\ cur[w].accounts \cap locked # {}
  /\ wpc' = [wpc EXCEPT ![w] = "report"]
  /\ outcome' = [outcome EXCEPT ![w] = FALSE]
  /\ fate' = [fate EXCEPT ![cur[w].unit] = "conflict"]
  /\ UNCHANGED <<locked, queue, cur, completions, callerVars>>

\* Mutation of ReleaseLocks: the shared set is cleared.
ReleaseEverything(w) ==
  /\ wpc[w] = "execute"
  /\ locked' = {}
  /\ wpc' = [wpc EXCEPT ![w] = "report"]
  /\ outcome' = [outcome EXCEPT ![w] = TRUE]
  /\ fate' = [fate EXCEPT ![cur[w].unit] = "ok"]
  /\ UNCHANGED <<queue, cur, completions, callerVars>>

\* The sleeps are over: release_locks.
ReleaseLocks(w) ==
  /\ wpc[w] = "execute"
  /\ locked' = locked \ cur[w].accounts
  /\ wpc' = [wpc EXCEPT ![w] = "report"]
  /\ outcome' = [outcome EXCEPT ![w] = TRUE]
  /\ fate' = [fate EXCEPT ![cur[w].unit] = "ok"]
  /\ UNCHANGED <<queue, cur, completions, callerVars>>

\* Mutation of Report: a failed item ends the worker's loop.
ReportAndQuit(w) ==
  /\ wpc[w] = "report"
  /\ wpc' = [wpc EXCEPT ![w] = IF outcome[w] THEN "recv" ELSE "stopped"]
  /\ completions' = Append(completions, [unit |-> cur[w].unit, worker |-> w,
                                         success |-> outcome[w]])
  /\ UNCHANGED <<locked, queue, cur, outcome, callerVars, fate>>

\* completion_tx.send, whose error (the pool is gone) is ignored.
Report(w) ==
  /\ wpc[w] = "report"
  /\ wpc' = [wpc EXCEPT ![w] = "recv"]
  /\ completions' =
       IF open
       THEN Append(completions, [unit |-> cur[w].unit, worker |-> w,
                                 success |-> outcome[w]])
       ELSE completions
  /\ UNCHANGED <<locked, queue, cur, outcome, callerVars, fate>>

WorkerStep(w) ==
  \/ Receive(w)
  \/ Stop(w)
  \/ AcquireLocks(w)
  \/ FailToAcquire(w)
  \/ ReleaseLocks(w)
  \/ Report(w)

-----------------------------------------------------------------------------
(* The callers: send_work, wait_for_completions, shutdown *)

\* shutdown(self) consumes the pool: no call can begin once one has begun it.
Usable == open /\ \A c \in Callers : cpc[c] \notin DownPcs

AllStopped == \A w \in Workers : wpc[w] = "stopped"

\* The channel of worker w takes items: w is a worker and its receiver lives.
Sendable(w) == w \in Workers /\ wpc[w] # "stopped"

\* send_work puts the item in the channel first,
SendWork(c, w, item) ==
  /\ Usable
  /\ cpc[c] = "idle"
  /\ Sendable(w)
  /\ queue' = [queue EXCEPT ![w] = Append(@, item)]
  /\ IF item = Shutdown
     THEN UNCHANGED <<cpc, fate>>
     ELSE /\ cpc' = [cpc EXCEPT ![c] = "count"]
          /\ fate' = [fate EXCEPT ![item.unit] = "queued"]
  /\ UNCHANGED <<locked, wpc, cur, outcome, completions, pending, open, want, got>>

\* and counts it afterwards.
CountPending(c) ==
  /\ cpc[c] = "count"
  /\ pending' = (pending + 1) % UsizeMod
  /\ cpc' = [cpc EXCEPT ![c] = "idle"]
  /\ UNCHANGED <<workerVars, completions, open, want, got, fate>>

\* wait_for_completions loads the count.  Nothing is pending: it returns no
\* completions.  A count that wrapped below zero makes with_capacity panic.
LoadPending(c) ==
  /\ Usable
  /\ cpc[c] = "idle"
  /\ want' = [want EXCEPT ![c] = pending]
  /\ got' = [got EXCEPT ![c] = <<>>]
  /\ cpc' = [cpc EXCEPT ![c] = IF pending = 0 THEN "idle"
                               ELSE IF pending > MaxCapacity THEN "panicked"
                               ELSE "lock"]
  /\ UNCHANGED <<workerVars, completions, pending, open, fate>>

\* The mutex around completion_rx: one caller at a time is in the loop.
LockReceiver(c) ==
  /\ cpc[c] = "lock"
  /\ \A d \in Callers : cpc[d] \notin {"receive", "subtract"}
  /\ cpc' = [cpc EXCEPT ![c] = "receive"]
  /\ UNCHANGED <<workerVars, completions, pending, open, want, got, fate>>

ReceiveCompletion(c) ==
  /\ cpc[c] = "receive"
  /\ completions # <<>>
  /\ got' = [got EXCEPT ![c] = Append(@, Head(completions))]
  /\ completions' = Tail(completions)
  /\ cpc' = [cpc EXCEPT ![c] = "subtract"]
  /\ UNCHANGED <<workerVars, pending, open, want, fate>>

\* Mutations of SubtractPending: the count taken once per call, one completion
\* too many, one too few.
SubtractOnce(c) ==
  /\ cpc[c] = "subtract"
  /\ pending' = IF Len(got[c]) < want[c] THEN pending
                ELSE (pending + UsizeMod - 1) % UsizeMod
  /\ cpc' = [cpc EXCEPT ![c] = IF Len(got[c]) < want[c] THEN "receive" ELSE "idle"]
  /\ UNCHANGED <<workerVars, completions, open, want, got, fate>>

SubtractAndWaitOneMore(c) ==
  /\ cpc[c] = "subtract"
  /\ pending' = (pending + UsizeMod - 1) % UsizeMod
  /\ cpc' = [cpc EXCEPT ![c] = IF Len(got[c]) <= want[c] THEN "receive" ELSE "idle"]
  /\ UNCHANGED <<workerVars, completions, open, want, got, fate>>

SubtractAndReturnEarly(c) ==
  /\ cpc[c] = "subtract"
  /\ pending' = (pending + UsizeMod - 1) % UsizeMod
  /\ cpc' = [cpc EXCEPT ![c] = IF Len(got[c]) + 1 < want[c] THEN "receive" ELSE "idle"]
  /\ UNCHANGED <<workerVars, completions, open, want, got, fate>>

\* fetch_sub after the push; the call returns when it has as many
\* completions as it loaded.
SubtractPending(c) ==
  /\ cpc[c] = "subtract"
  /\ pending' = (pending + UsizeMod - 1) % UsizeMod
  /\ cpc' = [cpc EXCEPT ![c] = IF Len(got[c]) < want[c] THEN "receive" ELSE "idle"]
  /\ UNCHANGED <<workerVars, completions, open, want, got, fate>>

\* recv() yields None: every worker has stopped and its sender is dropped.
ReceiverClosed(c) ==
  /\ cpc[c] = "receive"
  /\ completions = <<>>
  /\ AllStopped
  /\ cpc' = [cpc EXCEPT ![c] = "idle"]
  /\ UNCHANGED <<workerVars, completions, pending, open, want, got, fate>>

\* Nobody else is in a call: caller c can own the pool alone.
SoleOwner(c) ==
  /\ Usable
  /\ \A d \in Callers : cpc[d] \in {"idle", "panicked"}
  /\ cpc[c] = "idle"

\* shutdown(self) takes the pool by value.
BeginShutdown(c) ==
  /\ SoleOwner(c)
  /\ want' = [want EXCEPT ![c] = pending]
  /\ got' = [got EXCEPT ![c] = <<>>]
  /\ cpc' = [cpc EXCEPT ![c] = IF pending > 0 THEN "drain" ELSE "signal"]
  /\ UNCHANGED <<workerVars, completions, pending, open, fate>>

\* Mutations of Drain: it stops at the first completion, it waits for one
\* too many.
DrainOnce(c) ==
  /\ cpc[c] = "drain"
  /\ completions # <<>>
  /\ got' = [got EXCEPT ![c] = Append(@, Head(completions))]
  /\ completions' = Tail(completions)
  /\ cpc' = [cpc EXCEPT ![c] = "signal"]
  /\ UNCHANGED <<workerVars, pending, open, want, fate>>

DrainOneMore(c) ==
  /\ cpc[c] = "drain"
  /\ completions # <<>>
  /\ got' = [got EXCEPT ![c] = Append(@, Head(completions))]
  /\ completions' = Tail(completions)
  /\ cpc' = [cpc EXCEPT ![c] = IF Len(got[c]) < want[c] THEN "drain" ELSE "signal"]
  /\ UNCHANGED <<workerVars, pending, open, want, fate>>

\* It drains as many completions as were pending (and leaves the count).
Drain(c) ==
  /\ cpc[c] = "drain"
  /\ completions # <<>>
  /\ got' = [got EXCEPT ![c] = Append(@, Head(completions))]
  /\ completions' = Tail(completions)
  /\ cpc' = [cpc EXCEPT ![c] = IF Len(got[c]) + 1 < want[c] THEN "drain" ELSE "signal"]
  /\ UNCHANGED <<workerVars, pending, open, want, fate>>

DrainClosed(c) ==
  /\ cpc[c] = "drain"
  /\ completions = <<>>
  /\ AllStopped
  /\ cpc' = [cpc EXCEPT ![c] = "signal"]
  /\ UNCHANGED <<workerVars, completions, pending, open, want, got, fate>>

\* Then every worker that still listens is sent Shutdown,
SendShutdowns(c) ==
  /\ cpc[c] = "signal"
  /\ queue' = [w \in Workers |-> IF Sendable(w) THEN Append(queue[w], Shutdown)
                                 ELSE queue[w]]
  /\ cpc' = [cpc EXCEPT ![c] = "sleep"]
  /\ UNCHANGED <<locked, wpc, cur, outcome, completions, pending, open, want, got, fate>>

\* and when the sleep is over the pool is dropped, with its channel ends.
DropPool(c) ==
  /\ cpc[c] = "sleep"
  /\ open' = FALSE
  /\ completions' = <<>>
  /\ cpc' = [cpc EXCEPT ![c] = "down"]
  /\ UNCHANGED <<workerVars, pending, want, got, fate>>

\* Or the last reference to the pool goes away without a shutdown.
AbandonPool(c) ==
  /\ SoleOwner(c)
  /\ open' = FALSE
  /\ completions' = <<>>
  /\ cpc' = [cpc EXCEPT ![c] = "down"]
  /\ UNCHANGED <<workerVars, pending, want, got, fate>>

CallerStep(c) ==
  \/ CountPending(c)
  \/ LockReceiver(c)
  \/ ReceiveCompletion(c)
  \/ SubtractPending(c)
  \/ ReceiverClosed(c)
  \/ Drain(c)
  \/ DrainClosed(c)
  \/ SendShutdowns(c)
  \/ DropPool(c)

-----------------------------------------------------------------------------
(* The most general client that the interface admits: any number of callers
   share the pool, and each sends units, sends Shutdown by hand (as
   test_async_worker_shutdown_signal does), waits, shuts down or drops the
   pool, in any order.                                                      *)

\* A unit is one submission: it is sent at most once.
SubmitUnit(c, items) ==
  \E w \in Workers, item \in items :
    /\ fate[item.unit] = "unsent"
    /\ SendWork(c, w, item)

\* One Shutdown at a time in a channel bounds the state; a second one behind
\* it would be discarded with the channel.
SubmitShutdown(c) ==
  \E w \in Workers :
    /\ \A i \in DOMAIN queue[w] : queue[w][i] # Shutdown
    /\ SendWork(c, w, Shutdown)

BeginCall(c, items) ==
  \/ SubmitUnit(c, items)
  \/ SubmitShutdown(c)
  \/ LoadPending(c)
  \/ BeginShutdown(c)
  \/ AbandonPool(c)

PoolNext(items) ==
  \/ \E w \in Workers : WorkerStep(w)
  \/ \E c \in Callers : CallerStep(c) \/ BeginCall(c, items)

PoolSpec == PoolInit /\ [][PoolNext(Items)]_poolVars

-----------------------------------------------------------------------------
(* The scheduling the code relies on.  tokio polls every task whose channel,
   lock or timer is ready, so each worker and each call that has begun keeps
   going; tokio's Mutex hands the lock over in arrival order, so a caller that
   asks for completion_rx again and again finds it free gets it.  Nobody is
   obliged to make a call.                                                  *)
PoolFairness ==
  /\ \A w \in Workers : WF_poolVars(WorkerStep(w))
  /\ \A c \in Callers : /\ WF_poolVars(CallerStep(c))
                        /\ SF_poolVars(LockReceiver(c))

-----------------------------------------------------------------------------
(* Properties of the pool *)

Executing == {w \in Workers : wpc[w] = "execute"}
Busy      == {w \in Workers : wpc[w] \in {"acquire", "execute", "report"}}

\* Every variable has its type; a worker past recv() has an item in hand.
TypeOK ==
  /\ locked \in SUBSET Accounts
  /\ queue \in [Workers -> Seq(Items \cup {Shutdown})]
  /\ wpc \in [Workers -> WorkerPcs]
  /\ cur \in [Workers -> Items \cup {NoItem}]
  /\ \A w \in Busy : cur[w] \in Items
  /\ outcome \in [Workers -> BOOLEAN]
  /\ completions \in Seq(Completion)
  /\ pending \in 0 .. UsizeMod - 1
  /\ open \in BOOLEAN
  /\ cpc \in [Callers -> CallerPcs]
  /\ want \in [Callers -> 0 .. UsizeMod - 1]
  /\ got \in [Callers -> Seq(Completion)]
  /\ fate \in [Units -> Fates]

\* The lock set holds exactly the accounts of the items being executed: none
\* is leaked, none is unlocked early (acquire_locks, release_locks).
LockTableExact ==
  locked = UNION {cur[w].accounts : w \in Executing}

\* Two items that are being executed at the same time share no account.
ExclusiveExecution ==
  \A v, w \in Executing : v # w => cur[v].accounts \cap cur[w].accounts = {}

\* A worker gives up on an item only because another worker is executing one
\* that shares an account with it: no stale lock ever fails an item.
ConflictIsReal ==
  [][\A w \in Workers :
       FailToAcquire(w) =>
         \E v \in Executing \ {w} : cur[v].accounts \cap cur[w].accounts # {}]_poolVars

\* The units on their way from a sender to the count: in a channel, in a
\* worker's hands, in the completion channel, or received but not subtracted.
QueuedUnits   == UNION {UnitsIn(queue[w]) : w \in Workers}
WorkingUnits  == {cur[w].unit : w \in Busy}
ReportedUnits == {completions[i].unit : i \in DOMAIN completions}
Discarded     == {u \in Units : fate[u] = "discarded"}
CallersAt(pc) == {c \in Callers : cpc[c] = pc}

\* pending_work is what was sent and not yet taken out, whatever the order in
\* which sends, counts, receives and subtractions of several callers overlap.
\* A caller between send and fetch_add is not counted yet; work that a stopped
\* worker discarded stays counted for ever.  (Nobody loads the count once a
\* shutdown, which drains without subtracting, has begun.)
PendingAccounting ==
  Usable =>
    pending = (Cardinality(QueuedUnits) + Cardinality(WorkingUnits)
               + Len(completions) + Cardinality(CallersAt("subtract"))
               + Cardinality(Discarded) + UsizeMod
               - Cardinality(CallersAt("count"))) % UsizeMod

\* No unit is executed, reported or handed to a caller twice: the places a
\* sent unit can be in are disjoint.
UnitInOnePlace ==
  /\ \A v, w \in Workers : v # w => UnitsIn(queue[v]) \cap UnitsIn(queue[w]) = {}
  /\ \A v, w \in Busy : v # w => cur[v].unit # cur[w].unit
  /\ Cardinality(ReportedUnits) = Len(completions)
  /\ QueuedUnits \cap (WorkingUnits \cup ReportedUnits) = {}
  /\ WorkingUnits \cap ReportedUnits = {}

\* A call that collects completions waits for as many as there are units on
\* their way to it, no more (or it would never return) and no fewer (or the next
\* call would take what it left).  The count was loaded long before, and units
\* move on while it waits.
WaitsForWhatIsThere ==
  \A c \in Callers : cpc[c] \in WaitPcs \cup {"drain"} =>
    want[c] - Len(got[c]) = Cardinality(QueuedUnits) + Cardinality(WorkingUnits)
                            + Len(completions)

\* with_capacity(pending) does not panic: the count has not wrapped when it is
\* loaded, and is no larger than what the callers have sent.
WaitsDoNotPanic == \A c \in Callers : cpc[c] # "panicked"

\* The lock set and the items in execution, as AccountLocking sees them: a
\* worker owns the accounts of the item it executes, all exclusively.
Locking == INSTANCE AccountLocking
  WITH Owners <- Workers,
       writes <- [w \in Workers |-> IF w \in Executing THEN cur[w].accounts ELSE {}],
       reads  <- [w \in Workers |-> {}]

\* acquire_locks and release_locks implement AccountLocking: a worker takes
\* all its accounts or none, and gives them back together.
LockingSpec == Locking!Spec
=============================================================================
