----------------------- MODULE AsyncWorkerPool_proof -----------------------
(***************************************************************************)
(* The pool under its most general client, for any number of workers,      *)
(* callers, units and accounts: types and lock exclusion, the refinement   *)
(* of AccountLocking, where every unit is, and what pending_work counts.   *)
(*                                                                         *)
(* The lock lemmas are about PoolStep, any step whoever calls it; those    *)
(* about units are about PoolNext, which sends a unit once.  A             *)
(* specification that drives the pool only has to show that its steps are  *)
(* such steps or leave the pool alone.                                     *)
(***************************************************************************)
EXTENDS AsyncWorkerPool, FiniteSetTheorems, WellFoundedInduction, TLAPS

\* A step of a worker, of a call in progress, or the beginning of a call.
PoolStep ==
  \/ \E w \in Workers : WorkerStep(w)
  \/ \E c \in Callers : CallerStep(c) \/ LoadPending(c) \/ BeginShutdown(c) \/ AbandonPool(c)
  \/ \E c \in Callers, w \in Workers, item \in Items \cup {Shutdown} : SendWork(c, w, item)

\* The lock set is what the executing items lock, and these are disjoint.
\* Neither holds on its own: a release removes the accounts of one item from
\* the set, which is right only if no other item in execution needs them, and
\* two items exclude each other only because the set knows them both.
PoolInv == TypeOK /\ LockTableExact /\ ExclusiveExecution

\* The index of the round robin is that of a worker.
LEMMA ModRange ==
  ASSUME NEW n \in Nat \ {0}, NEW i \in Int
  PROVE  i % n \in 0 .. n - 1
OBVIOUS

\* A new pool has empty queues and no locks.
LEMMA PoolInitInv == PoolInit => PoolInv
<1> SUFFICES ASSUME PoolInit PROVE PoolInv
  OBVIOUS
<1> USE DEF PoolInit
<1>1. Executing = {} /\ Busy = {}
  BY DEF Executing, Busy
<1>2. 0 \in 0 .. UsizeMod - 1
  BY PoolAssumption
<1>3. TypeOK
  BY <1>1, <1>2 DEF TypeOK, WorkerPcs, CallerPcs, Fates
<1>4. LockTableExact /\ ExclusiveExecution
  BY <1>1 DEF LockTableExact, ExclusiveExecution
<1>5. QED
  BY <1>3, <1>4 DEF PoolInv

-----------------------------------------------------------------------------
(* Type correctness: one lemma for the workers, one for the callers *)

\* The worker's steps (run, acquire_locks, release_locks) keep the types.
LEMMA WorkerType ==
  ASSUME TypeOK, NEW w \in Workers, WorkerStep(w)
  PROVE  TypeOK'
<1> USE DEF TypeOK, Busy, WorkerPcs, workerVars, callerVars
<1>1. CASE Receive(w)
  <2>1. /\ queue[w] \in Seq(Items \cup {Shutdown})
        /\ queue[w] # <<>>
        /\ Head(queue[w]) \in Items
    BY <1>1 DEF Receive
  <2>2. Tail(queue[w]) \in Seq(Items \cup {Shutdown})
    BY <2>1
  <2>3. QED
    BY <1>1, <2>1, <2>2 DEF Receive
<1>2. CASE Stop(w)
  <2>1. fate' \in [Units -> Fates]
    BY <1>2 DEF Stop, Fates
  <2>2. QED
    BY <1>2, <2>1 DEF Stop
<1>3. CASE AcquireLocks(w)
  <2>1. cur[w] \in Items
    BY <1>3 DEF AcquireLocks
  <2>2. locked' \in SUBSET Accounts
    BY <1>3, <2>1 DEF AcquireLocks, Items
  <2>3. QED
    BY <1>3, <2>1, <2>2 DEF AcquireLocks
<1>4. CASE FailToAcquire(w)
  <2>1. cur[w] \in Items
    BY <1>4 DEF FailToAcquire
  <2>2. fate' \in [Units -> Fates]
    BY <1>4, <2>1 DEF FailToAcquire, Items, Fates
  <2>3. QED
    BY <1>4, <2>1, <2>2 DEF FailToAcquire
<1>5. CASE ReleaseLocks(w)
  <2>1. cur[w] \in Items
    BY <1>5 DEF ReleaseLocks
  <2>2. fate' \in [Units -> Fates]
    BY <1>5, <2>1 DEF ReleaseLocks, Items, Fates
  <2>3. QED
    BY <1>5, <2>1, <2>2 DEF ReleaseLocks
<1>6. CASE Report(w)
  <2>1. cur[w] \in Items
    BY <1>6 DEF Report
  <2>2. [unit |-> cur[w].unit, worker |-> w, success |-> outcome[w]] \in Completion
    BY <2>1 DEF Items, Completion
  <2>3. completions' \in Seq(Completion)
    BY <1>6, <2>2 DEF Report
  <2>4. QED
    BY <1>6, <2>3 DEF Report
<1>7. QED
  BY <1>1, <1>2, <1>3, <1>4, <1>5, <1>6 DEF WorkerStep

\* Sending work keeps the types: the item goes into the worker's channel and
\* the unit's history says so.
LEMMA SendType ==
  ASSUME TypeOK, NEW c \in Callers, NEW w \in Workers,
         NEW item \in Items \cup {Shutdown}, SendWork(c, w, item)
  PROVE  TypeOK'
<1> USE DEF SendWork
<1>1. queue' \in [Workers -> Seq(Items \cup {Shutdown})]
  BY DEF TypeOK
<1>2. cpc' \in [Callers -> CallerPcs] /\ fate' \in [Units -> Fates]
  BY DEF TypeOK, CallerPcs, Fates, Items
<1>3. QED
  BY <1>1, <1>2 DEF TypeOK, Busy

\* The steps of a call keep the types; the count stays below its modulus.
LEMMA CallerType ==
  ASSUME TypeOK, NEW c \in Callers,
         CallerStep(c) \/ LoadPending(c) \/ BeginShutdown(c) \/ AbandonPool(c)
  PROVE  TypeOK'
<1> USE DEF TypeOK, Busy, CallerPcs, WaitPcs, DownPcs, workerVars
<1>1. CASE CountPending(c)
  <2>1. pending' \in 0 .. UsizeMod - 1
    BY <1>1, PoolAssumption, ModRange DEF CountPending
  <2>2. QED
    BY <1>1, <2>1 DEF CountPending
<1>2. CASE LoadPending(c)
  BY <1>2 DEF LoadPending
<1>3. CASE LockReceiver(c)
  BY <1>3 DEF LockReceiver
<1>4. CASE ReceiveCompletion(c)
  <2>1. /\ Head(completions) \in Completion
        /\ Tail(completions) \in Seq(Completion)
    BY <1>4 DEF ReceiveCompletion
  <2>2. got' \in [Callers -> Seq(Completion)]
    BY <1>4, <2>1 DEF ReceiveCompletion
  <2>3. QED
    BY <1>4, <2>1, <2>2 DEF ReceiveCompletion
<1>5. CASE SubtractPending(c)
  <2>1. pending' \in 0 .. UsizeMod - 1
    BY <1>5, PoolAssumption, ModRange DEF SubtractPending
  <2>2. QED
    BY <1>5, <2>1 DEF SubtractPending
<1>6. CASE ReceiverClosed(c)
  BY <1>6 DEF ReceiverClosed
<1>7. CASE BeginShutdown(c)
  BY <1>7 DEF BeginShutdown
<1>8. CASE Drain(c)
  <2>1. /\ Head(completions) \in Completion
        /\ Tail(completions) \in Seq(Completion)
    BY <1>8 DEF Drain
  <2>2. got' \in [Callers -> Seq(Completion)]
    BY <1>8, <2>1 DEF Drain
  <2>3. QED
    BY <1>8, <2>1, <2>2 DEF Drain
<1>9. CASE DrainClosed(c)
  BY <1>9 DEF DrainClosed
<1>10. CASE SendShutdowns(c)
  <2>1. queue' \in [Workers -> Seq(Items \cup {Shutdown})]
    BY <1>10 DEF SendShutdowns
  <2>2. QED
    BY <1>10, <2>1 DEF SendShutdowns
<1>11. CASE DropPool(c)
  <2>1. completions' \in Seq(Completion)
    BY <1>11 DEF DropPool
  <2>2. QED
    BY <1>11, <2>1 DEF DropPool
<1>12. CASE AbandonPool(c)
  <2>1. completions' \in Seq(Completion)
    BY <1>12 DEF AbandonPool
  <2>2. QED
    BY <1>12, <2>1 DEF AbandonPool
<1>13. QED
  BY <1>1, <1>2, <1>3, <1>4, <1>5, <1>6, <1>7, <1>8, <1>9, <1>10, <1>11, <1>12
     DEF CallerStep

-----------------------------------------------------------------------------
(* The lock set *)

\* Only acquire_locks and release_locks change what is locked or executing.
LEMMA LockInvStep ==
  ASSUME PoolInv, PoolStep
  PROVE  LockTableExact' /\ ExclusiveExecution'
<1> USE DEF PoolInv, LockTableExact, ExclusiveExecution, Executing
<1>1. ASSUME NEW w \in Workers, AcquireLocks(w)
      PROVE  LockTableExact' /\ ExclusiveExecution'
  <2>1. Executing' = Executing \cup {w} /\ w \notin Executing
    BY <1>1 DEF AcquireLocks, TypeOK
  <2>2. cur' = cur /\ locked' = locked \cup cur[w].accounts
    BY <1>1 DEF AcquireLocks
  <2>3. \A v \in Executing : cur[v].accounts \cap cur[w].accounts = {}
    BY <1>1 DEF AcquireLocks
  <2>4. LockTableExact'
    BY <2>1, <2>2
  <2>5. ExclusiveExecution'
    BY <2>1, <2>2, <2>3
  <2>6. QED
    BY <2>4, <2>5
<1>2. ASSUME NEW w \in Workers, ReleaseLocks(w)
      PROVE  LockTableExact' /\ ExclusiveExecution'
  <2>1. Executing' = Executing \ {w} /\ w \in Executing
    BY <1>2 DEF ReleaseLocks, TypeOK
  <2>2. cur' = cur /\ locked' = locked \ cur[w].accounts
    BY <1>2 DEF ReleaseLocks
  <2>3. \A v \in Executing \ {w} : cur[v].accounts \cap cur[w].accounts = {}
    BY <2>1
  <2>4. LockTableExact'
    BY <2>1, <2>2, <2>3
  <2>5. ExclusiveExecution'
    BY <2>1, <2>2
  <2>6. QED
    BY <2>4, <2>5
<1>3. ASSUME NEW w \in Workers, Receive(w) \/ Stop(w) \/ FailToAcquire(w) \/ Report(w)
      PROVE  LockTableExact' /\ ExclusiveExecution'
  <2>1. Executing' = Executing
    BY <1>3 DEF Receive, Stop, FailToAcquire, Report, TypeOK
  <2>2. locked' = locked /\ \A v \in Executing : cur'[v] = cur[v]
    BY <1>3 DEF Receive, Stop, FailToAcquire, Report, TypeOK
  <2>3. QED
    BY <2>1, <2>2
<1>4. ASSUME UNCHANGED <<locked, wpc, cur>>
      PROVE  LockTableExact' /\ ExclusiveExecution'
  BY <1>4
<1>5. ASSUME NEW c \in Callers,
             CallerStep(c) \/ LoadPending(c) \/ BeginShutdown(c) \/ AbandonPool(c)
      PROVE  UNCHANGED <<locked, wpc, cur>>
  BY <1>5 DEF CallerStep, CountPending, LoadPending, LockReceiver, ReceiveCompletion,
              SubtractPending, ReceiverClosed, BeginShutdown, Drain, DrainClosed,
              SendShutdowns, DropPool, AbandonPool, workerVars
<1>6. ASSUME NEW c \in Callers, NEW w \in Workers, NEW item \in Items \cup {Shutdown},
             SendWork(c, w, item)
      PROVE  UNCHANGED <<locked, wpc, cur>>
  BY <1>6 DEF SendWork
<1>7. QED
  BY <1>1, <1>2, <1>3, <1>4, <1>5, <1>6 DEF PoolStep, WorkerStep

\* The inductive step of the pool's invariant.
LEMMA PoolInvStep ==
  PoolInv /\ (PoolStep \/ UNCHANGED poolVars) => PoolInv'
<1>1. ASSUME PoolInv, PoolStep PROVE PoolInv'
  <2>1. TypeOK'
    BY <1>1, WorkerType, CallerType, SendType DEF PoolInv, PoolStep
  <2>2. QED
    BY <1>1, <2>1, LockInvStep DEF PoolInv
<1>2. ASSUME PoolInv, UNCHANGED poolVars PROVE PoolInv'
  BY <1>2 DEF PoolInv, TypeOK, LockTableExact, ExclusiveExecution, Executing, Busy,
              poolVars, workerVars, callerVars
<1>3. QED
  BY <1>1, <1>2

-----------------------------------------------------------------------------
(* What the invariant gives every step *)

\* A worker that fails to acquire shares an account with an item in execution.
LEMMA ConflictStep ==
  ASSUME PoolInv, NEW w \in Workers, FailToAcquire(w)
  PROVE  \E v \in Executing \ {w} : cur[v].accounts \cap cur[w].accounts # {}
<1>1. w \notin Executing
  BY DEF FailToAcquire, Executing
<1>2. PICK x \in locked : x \in cur[w].accounts
  BY DEF FailToAcquire
<1>3. PICK v \in Executing : x \in cur[v].accounts
  BY <1>2 DEF PoolInv, LockTableExact
<1>4. QED
  BY <1>1, <1>2, <1>3

\* The initial state has no owner of anything.
LEMMA LockingInit == PoolInit => Locking!Init
BY DEF PoolInit, Locking!Init, Executing

\* Every step of the pool is an Acquire or a Release of AccountLocking, or
\* changes nothing that AccountLocking sees.
LEMMA LockingStep ==
  ASSUME PoolInv, PoolStep \/ UNCHANGED poolVars
  PROVE  [Locking!Next]_(Locking!vars)
<1> USE DEF PoolInv
<1>1. ASSUME NEW w \in Workers, AcquireLocks(w)
      PROVE  Locking!Next
  <2> DEFINE W == cur[w].accounts
  <2>1. /\ Executing' = Executing \cup {w}
        /\ w \notin Executing
        /\ cur' = cur
    BY <1>1 DEF AcquireLocks, TypeOK, Executing
  <2>2. W \in SUBSET Accounts
    BY <1>1 DEF AcquireLocks, TypeOK, Busy, Items
  <2>3. \A v \in Executing : W \cap cur[v].accounts = {}
    BY <1>1 DEF AcquireLocks, LockTableExact
  <2>4. Locking!Acquire(w, W, {})
    BY <2>1, <2>3 DEF Locking!Acquire, Locking!Compatible
  <2>5. QED
    BY <2>2, <2>4 DEF Locking!Next
<1>2. ASSUME NEW w \in Workers, ReleaseLocks(w)
      PROVE  Locking!Next
  <2>1. /\ Executing' = Executing \ {w}
        /\ cur' = cur
    BY <1>2 DEF ReleaseLocks, TypeOK, Executing
  <2>2. Locking!Release(w)
    BY <2>1 DEF Locking!Release
  <2>3. QED
    BY <2>2 DEF Locking!Next
<1>3. ASSUME NEW w \in Workers, Receive(w) \/ Stop(w) \/ FailToAcquire(w) \/ Report(w)
      PROVE  UNCHANGED Locking!vars
  <2>1. Executing' = Executing /\ \A v \in Executing : cur'[v] = cur[v]
    BY <1>3 DEF Receive, Stop, FailToAcquire, Report, TypeOK, Executing
  <2>2. QED
    BY <2>1 DEF Locking!vars
<1>4. ASSUME NEW c \in Callers,
             CallerStep(c) \/ LoadPending(c) \/ BeginShutdown(c) \/ AbandonPool(c)
      PROVE  UNCHANGED <<wpc, cur>>
  BY <1>4 DEF CallerStep, CountPending, LoadPending, LockReceiver, ReceiveCompletion,
              SubtractPending, ReceiverClosed, BeginShutdown, Drain, DrainClosed,
              SendShutdowns, DropPool, AbandonPool, workerVars
<1>5. ASSUME NEW c \in Callers, NEW w \in Workers, NEW item \in Items \cup {Shutdown},
             SendWork(c, w, item)
      PROVE  UNCHANGED <<wpc, cur>>
  BY <1>5 DEF SendWork
<1>6. ASSUME UNCHANGED <<wpc, cur>>
      PROVE  UNCHANGED Locking!vars
  BY <1>6 DEF Locking!vars, Executing
<1>7. CASE UNCHANGED poolVars
  BY <1>6, <1>7 DEF poolVars, workerVars
<1>8. QED
  BY <1>1, <1>2, <1>3, <1>4, <1>5, <1>6, <1>7 DEF PoolStep, WorkerStep

-----------------------------------------------------------------------------
(* Where the units are *)

Truth(success) == IF success THEN "ok" ELSE "conflict"

\* No unit is twice in one channel.
Distinct(q) ==
  \A i, j \in DOMAIN q :
    q[i] # Shutdown /\ q[j] # Shutdown /\ q[i].unit = q[j].unit => i = j

\* What a channel holds after a send.
LEMMA AppendToChannel ==
  ASSUME NEW q \in Seq(Items \cup {Shutdown}), NEW x \in Items \cup {Shutdown}
  PROVE  /\ x = Shutdown => UnitsIn(Append(q, x)) = UnitsIn(q)
         /\ x # Shutdown => UnitsIn(Append(q, x)) = UnitsIn(q) \cup {x.unit}
         /\ Distinct(q) /\ (x # Shutdown => x.unit \notin UnitsIn(q)) => Distinct(Append(q, x))
<1> DEFINE r == Append(q, x)
<1>1. /\ Len(q) \in Nat
      /\ DOMAIN q = 1 .. Len(q)
      /\ DOMAIN r = 1 .. Len(q) + 1
      /\ \A i \in 1 .. Len(q) : r[i] = q[i]
      /\ r[Len(q) + 1] = x
  OBVIOUS
<1> HIDE DEF r
<1>2. x = Shutdown => UnitsIn(r) = UnitsIn(q)
  BY <1>1 DEF UnitsIn
<1>3. x # Shutdown => UnitsIn(r) = UnitsIn(q) \cup {x.unit}
  BY <1>1 DEF UnitsIn
<1>4. Distinct(q) /\ (x # Shutdown => x.unit \notin UnitsIn(q)) => Distinct(r)
  BY <1>1 DEF UnitsIn, Distinct
<1> QED
  BY <1>2, <1>3, <1>4 DEF r

\* What a channel holds after a receive.
LEMMA TailOfChannel ==
  ASSUME NEW q \in Seq(Items \cup {Shutdown}), q # <<>>, Head(q) # Shutdown, Distinct(q)
  PROVE  /\ Head(q).unit \in UnitsIn(q)
         /\ UnitsIn(Tail(q)) = UnitsIn(q) \ {Head(q).unit}
         /\ Distinct(Tail(q))
<1> DEFINE r == Tail(q)
<1>1. /\ Len(q) \in Nat \ {0}
      /\ DOMAIN q = 1 .. Len(q)
      /\ DOMAIN r = 1 .. Len(q) - 1
      /\ \A i \in 1 .. Len(q) - 1 : r[i] = q[i + 1]
      /\ Head(q) = q[1]
  OBVIOUS
<1> HIDE DEF r
<1>2. Head(q).unit \in UnitsIn(q)
  BY <1>1 DEF UnitsIn
<1>3. ASSUME NEW u \in UnitsIn(r) PROVE u \in UnitsIn(q) /\ u # Head(q).unit
  <2>1. PICK i \in DOMAIN r : r[i] # Shutdown /\ r[i].unit = u
    BY DEF UnitsIn
  <2>2. i + 1 \in DOMAIN q /\ q[i + 1] = r[i] /\ 1 \in DOMAIN q /\ i + 1 # 1
    BY <1>1, <2>1
  <2> QED
    BY <1>1, <2>1, <2>2 DEF UnitsIn, Distinct
<1>4. ASSUME NEW u \in UnitsIn(q), u # Head(q).unit PROVE u \in UnitsIn(r)
  <2>1. PICK i \in DOMAIN q : q[i] # Shutdown /\ q[i].unit = u
    BY DEF UnitsIn
  <2>2. i # 1
    BY <1>1, <1>4, <2>1
  <2>3. i - 1 \in DOMAIN r /\ r[i - 1] = q[i]
    BY <1>1, <2>1, <2>2
  <2> QED
    BY <2>1, <2>3 DEF UnitsIn
<1>5. Distinct(r)
  <2> SUFFICES ASSUME NEW i \in DOMAIN r, NEW j \in DOMAIN r,
                      r[i] # Shutdown, r[j] # Shutdown, r[i].unit = r[j].unit
               PROVE  i = j
    BY DEF Distinct
  <2>1. i + 1 \in DOMAIN q /\ j + 1 \in DOMAIN q /\ q[i + 1] = r[i] /\ q[j + 1] = r[j]
    BY <1>1
  <2>2. i + 1 = j + 1
    BY <2>1 DEF Distinct
  <2> QED
    BY <1>1, <2>2
<1> QED
  BY <1>2, <1>3, <1>4, <1>5 DEF r

\* What the history says of a unit whose item worker w has in hand.
FateInHand(w) == IF wpc[w] = "report" THEN Truth(outcome[w]) ELSE "queued"

\* Where the units are, and what became of those that are settled.
QueuesExact ==
  /\ \A w \in Workers : Distinct(queue[w])
  /\ \A v, w \in Workers : v # w => UnitsIn(queue[v]) \cap UnitsIn(queue[w]) = {}
  /\ \A w \in Workers : \A u \in UnitsIn(queue[w]) : fate[u] = "queued"

HandsExact ==
  /\ \A v, w \in Busy : v # w => cur[v].unit # cur[w].unit
  /\ \A v \in Busy, w \in Workers : cur[v].unit \notin UnitsIn(queue[w])
  /\ \A w \in Busy : fate[cur[w].unit] = FateInHand(w)

ReportsExact ==
  /\ \A i, j \in DOMAIN completions : completions[i].unit = completions[j].unit => i = j
  /\ \A i \in DOMAIN completions : fate[completions[i].unit] = Truth(completions[i].success)
  /\ \A w \in Busy, i \in DOMAIN completions : completions[i].unit # cur[w].unit

GotTruthful ==
  \A c \in Callers : \A i \in DOMAIN got[c] :
    fate[got[c][i].unit] = Truth(got[c][i].success)

NoneLost ==
  \A u \in Units : fate[u] = "queued" =>
    \/ \E w \in Workers : u \in UnitsIn(queue[w])
    \/ \E w \in Busy : cur[w].unit = u

UnitsInv == QueuesExact /\ HandsExact /\ ReportsExact /\ GotTruthful /\ NoneLost

\* In a new pool no unit has been sent.
LEMMA UnitsInitInv == PoolInit => UnitsInv
<1> SUFFICES ASSUME PoolInit PROVE UnitsInv
  OBVIOUS
<1> USE DEF PoolInit
<1>1. Busy = {}
  BY DEF Busy
<1>2. UnitsIn(<<>>) = {} /\ Distinct(<<>>)
  BY DEF UnitsIn, Distinct
<1>3. QueuesExact
  BY <1>2 DEF QueuesExact
<1>4. HandsExact /\ ReportsExact /\ GotTruthful /\ NoneLost
  BY <1>1 DEF HandsExact, ReportsExact, GotTruthful, NoneLost
<1> QED
  BY <1>3, <1>4 DEF UnitsInv

\* A unit that is received moves from the channel to the worker's hands.
LEMMA ReceiveUnits ==
  ASSUME TypeOK, UnitsInv, NEW w \in Workers, Receive(w)
  PROVE  UnitsInv'
<1> USE DEF UnitsInv
<1> DEFINE u == Head(queue[w]).unit
<1>1. /\ queue[w] \in Seq(Items \cup {Shutdown})
      /\ queue[w] # <<>>
      /\ Head(queue[w]) # Shutdown
  BY DEF TypeOK, Receive
<1>2. Distinct(queue[w])
  BY DEF QueuesExact
<1>3. /\ u \in UnitsIn(queue[w])
      /\ UnitsIn(Tail(queue[w])) = UnitsIn(queue[w]) \ {u}
      /\ Distinct(Tail(queue[w]))
  BY <1>1, <1>2, TailOfChannel
<1>4. \A v \in Workers : queue'[v] = IF v = w THEN Tail(queue[w]) ELSE queue[v]
  BY DEF TypeOK, Receive
<1>5. /\ Busy' = Busy \cup {w} /\ w \notin Busy
      /\ \A v \in Busy : cur'[v] = cur[v] /\ wpc'[v] = wpc[v]
      /\ cur'[w].unit = u /\ wpc'[w] = "acquire"
  BY DEF TypeOK, Receive, Busy
<1>6. UNCHANGED <<outcome, completions, got, fate>>
  BY DEF Receive, callerVars
<1> HIDE DEF u
<1>7. QueuesExact'
  BY <1>3, <1>4, <1>6 DEF QueuesExact
<1>8. fate[u] = "queued" /\ \A v \in Workers \ {w} : u \notin UnitsIn(queue[v])
  BY <1>3 DEF QueuesExact
<1>9. HandsExact'
  BY <1>3, <1>4, <1>5, <1>6, <1>8 DEF HandsExact, FateInHand
<1>10. ReportsExact'
  BY <1>5, <1>6, <1>8 DEF ReportsExact, Truth
<1>11. GotTruthful'
  BY <1>6 DEF GotTruthful
<1>12. NoneLost'
  BY <1>3, <1>4, <1>5, <1>6 DEF NoneLost
<1> QED
  BY <1>7, <1>9, <1>10, <1>11, <1>12

\* Only units are anywhere.
LEMMA UnitsTyped ==
  ASSUME TypeOK
  PROVE  /\ \A v \in Busy : cur[v].unit \in Units
         /\ \A i \in DOMAIN completions : completions[i].unit \in Units
         /\ \A c \in Callers : \A i \in DOMAIN got[c] : got[c][i].unit \in Units
         /\ \A v \in Workers : UnitsIn(queue[v]) \subseteq Units
<1>1. \A v \in Busy : cur[v].unit \in Units
  BY DEF TypeOK, Items
<1>2. ASSUME NEW i \in DOMAIN completions PROVE completions[i].unit \in Units
  <2>1. completions[i] \in Completion
    BY DEF TypeOK
  <2> QED
    BY <2>1 DEF Completion
<1>3. ASSUME NEW c \in Callers, NEW i \in DOMAIN got[c] PROVE got[c][i].unit \in Units
  <2>1. got[c] \in Seq(Completion)
    BY DEF TypeOK
  <2>2. got[c][i] \in Completion
    BY <2>1
  <2> QED
    BY <2>2 DEF Completion
<1>4. ASSUME NEW v \in Workers, NEW i \in DOMAIN queue[v], queue[v][i] # Shutdown
      PROVE  queue[v][i].unit \in Units
  <2>1. queue[v] \in Seq(Items \cup {Shutdown})
    BY DEF TypeOK
  <2>2. queue[v][i] \in Items
    BY <1>4, <2>1
  <2> QED
    BY <2>2 DEF Items
<1> QED
  BY <1>1, <1>2, <1>3, <1>4 DEF UnitsIn

\* A worker that stops discards what is left in its channel, and only that.
LEMMA StopUnits ==
  ASSUME TypeOK, UnitsInv, NEW w \in Workers, Stop(w)
  PROVE  UnitsInv'
<1> USE DEF UnitsInv
<1>1. UnitsIn(<<>>) = {} /\ Distinct(<<>>)
  BY DEF UnitsIn, Distinct
<1>2. \A v \in Workers : queue'[v] = IF v = w THEN <<>> ELSE queue[v]
  BY DEF TypeOK, Stop
<1>3. Busy' = Busy /\ \A v \in Busy : cur'[v] = cur[v] /\ wpc'[v] = wpc[v]
  BY DEF TypeOK, Stop, Busy
<1>4. UNCHANGED <<outcome, completions, got>>
  BY DEF Stop, callerVars
<1>5. \A u \in Units : fate'[u] = IF u \in UnitsIn(queue[w]) THEN "discarded" ELSE fate[u]
  BY DEF Stop
<1>6. \A u \in UnitsIn(queue[w]) : fate[u] = "queued"
  BY DEF QueuesExact
<1>7. /\ \A v \in Busy : cur[v].unit \in Units
      /\ \A i \in DOMAIN completions : completions[i].unit \in Units
      /\ \A c \in Callers : \A i \in DOMAIN got[c] : got[c][i].unit \in Units
      /\ \A v \in Workers : UnitsIn(queue[v]) \subseteq Units
  BY UnitsTyped
<1>8. QueuesExact'
  BY <1>1, <1>2, <1>5, <1>7 DEF QueuesExact
<1>9. HandsExact'
  BY <1>1, <1>2, <1>3, <1>4, <1>5, <1>7 DEF HandsExact, FateInHand
<1>10. ReportsExact'
  BY <1>3, <1>4, <1>5, <1>6, <1>7 DEF ReportsExact, Truth
<1>11. GotTruthful'
  BY <1>4, <1>5, <1>6, <1>7 DEF GotTruthful, Truth
<1>12. NoneLost'
  BY <1>2, <1>3, <1>5 DEF NoneLost
<1> QED
  BY <1>8, <1>9, <1>10, <1>11, <1>12

\* Steps that move no item and settle nothing.
LEMMA UnitsKept ==
  ASSUME UnitsInv, UNCHANGED <<queue, cur, outcome, completions, got, fate>>,
         Busy' = Busy,
         \A w \in Busy : wpc'[w] = "report" <=> wpc[w] = "report"
  PROVE  UnitsInv'
<1>1. \A w \in Busy : FateInHand(w)' = FateInHand(w)
  BY DEF FateInHand, Truth
<1>2. QueuesExact'
  BY DEF UnitsInv, QueuesExact
<1>3. HandsExact'
  BY <1>1 DEF UnitsInv, HandsExact
<1>4. ReportsExact'
  BY DEF UnitsInv, ReportsExact
<1>5. GotTruthful'
  BY DEF UnitsInv, GotTruthful
<1>6. NoneLost'
  BY DEF UnitsInv, NoneLost
<1> QED
  BY <1>2, <1>3, <1>4, <1>5, <1>6 DEF UnitsInv

\* The outcome of the item in hand is settled: a conflict, or a success.
LEMMA SettleUnits ==
  ASSUME TypeOK, UnitsInv, NEW w \in Workers, FailToAcquire(w) \/ ReleaseLocks(w)
  PROVE  UnitsInv'
<1> USE DEF UnitsInv
<1> DEFINE u == cur[w].unit
<1>1. w \in Busy /\ wpc[w] # "report"
  BY DEF FailToAcquire, ReleaseLocks, Busy
<1>2. u \in Units /\ fate[u] = "queued"
  BY <1>1, UnitsTyped DEF HandsExact, FateInHand
<1>3. /\ Busy' = Busy
      /\ \A v \in Busy : v # w => wpc'[v] = wpc[v] /\ outcome'[v] = outcome[v]
      /\ wpc'[w] = "report"
  BY DEF TypeOK, FailToAcquire, ReleaseLocks, Busy
<1>4. UNCHANGED <<queue, cur, completions, got>>
  BY DEF FailToAcquire, ReleaseLocks, callerVars
<1>5. /\ \A v \in Units : v # u => fate'[v] = fate[v]
      /\ fate'[u] = Truth(outcome'[w])
  BY <1>2 DEF TypeOK, FailToAcquire, ReleaseLocks, Truth
<1> HIDE DEF u
<1>6. u = cur[w].unit
  BY DEF u
<1>7. /\ \A v \in Workers : u \notin UnitsIn(queue[v])
      /\ \A v \in Busy : v # w => cur[v].unit # u
      /\ \A i \in DOMAIN completions : completions[i].unit # u
  BY <1>1, <1>6 DEF HandsExact, ReportsExact
<1>8. \A c \in Callers : \A i \in DOMAIN got[c] : got[c][i].unit # u
  BY <1>2 DEF GotTruthful, Truth
<1>9. QueuesExact'
  BY <1>4, <1>5, <1>7, UnitsTyped DEF QueuesExact
<1>10. HandsExact'
  BY <1>3, <1>4, <1>5, <1>6, <1>7, UnitsTyped DEF HandsExact, FateInHand
<1>11. ReportsExact'
  BY <1>3, <1>4, <1>5, <1>7, UnitsTyped DEF ReportsExact
<1>12. GotTruthful'
  BY <1>4, <1>5, <1>8, UnitsTyped DEF GotTruthful
<1>13. NoneLost'
  BY <1>3, <1>4, <1>5, <1>6 DEF NoneLost, Truth
<1> QED
  BY <1>9, <1>10, <1>11, <1>12, <1>13

\* completion_tx.send: the outcome goes from the worker's hands to the channel.
LEMMA ReportUnits ==
  ASSUME TypeOK, UnitsInv, NEW w \in Workers, Report(w)
  PROVE  UnitsInv'
<1> USE DEF UnitsInv
<1> DEFINE r == [unit |-> cur[w].unit, worker |-> w, success |-> outcome[w]]
<1>1. w \in Busy
  BY DEF Report, Busy
<1>2. /\ Busy' = Busy \ {w}
      /\ \A v \in Busy' : wpc'[v] = wpc[v]
  BY DEF TypeOK, Report, Busy
<1>3. UNCHANGED <<queue, cur, outcome, got, fate>>
  BY DEF Report, callerVars
<1>4. fate[cur[w].unit] = Truth(outcome[w])
  BY <1>1 DEF Report, HandsExact, FateInHand
<1>5. completions \in Seq(Completion) /\ cur[w] \in Items
  BY <1>1 DEF TypeOK
<1>6. r \in Completion
  BY <1>5 DEF TypeOK, Completion, Items
<1>7. completions' = completions \/ completions' = Append(completions, r)
  BY DEF Report
<1>8. \A i \in DOMAIN completions' :
        \/ i \in DOMAIN completions /\ completions'[i] = completions[i]
        \/ i = Len(completions) + 1 /\ completions'[i] = r
  BY <1>5, <1>6, <1>7
<1>9. r.unit = cur[w].unit /\ r.success = outcome[w]
  OBVIOUS
<1> HIDE DEF r
<1>10. QueuesExact'
  BY <1>3 DEF QueuesExact
<1>11. HandsExact'
  BY <1>2, <1>3 DEF HandsExact, FateInHand
<1>12. ReportsExact'
  BY <1>1, <1>2, <1>3, <1>4, <1>8, <1>9 DEF ReportsExact, HandsExact
<1>13. GotTruthful'
  BY <1>3 DEF GotTruthful
<1>14. NoneLost'
  <2> SUFFICES ASSUME NEW u \in Units, fate[u] = "queued"
               PROVE  (\/ \E v \in Workers : u \in UnitsIn(queue[v])
                       \/ \E v \in Busy : cur[v].unit = u)'
    BY <1>3 DEF NoneLost
  <2>1. u # cur[w].unit
    BY <1>4 DEF Truth
  <2> QED
    BY <1>2, <1>3, <2>1 DEF NoneLost
<1> QED
  BY <1>10, <1>11, <1>12, <1>13, <1>14

\* Every step of a worker.
LEMMA WorkerUnits ==
  ASSUME TypeOK, UnitsInv, NEW w \in Workers, WorkerStep(w)
  PROVE  UnitsInv'
<1>1. CASE AcquireLocks(w)
  <2>1. UNCHANGED <<queue, cur, outcome, completions, got, fate>>
    BY <1>1 DEF AcquireLocks, callerVars
  <2>2. Busy' = Busy /\ \A v \in Busy : wpc'[v] = "report" <=> wpc[v] = "report"
    BY <1>1 DEF TypeOK, AcquireLocks, Busy
  <2> QED
    BY <2>1, <2>2, UnitsKept
<1> QED
  BY <1>1, ReceiveUnits, StopUnits, SettleUnits, ReportUnits DEF WorkerStep

\* send_work of a unit that was not sent before.
LEMMA SendUnits ==
  ASSUME TypeOK, UnitsInv, NEW c \in Callers, NEW w \in Workers,
         NEW item \in Items \cup {Shutdown}, SendWork(c, w, item),
         item # Shutdown => fate[item.unit] = "unsent"
  PROVE  UnitsInv'
<1> USE DEF UnitsInv
<1>1. UNCHANGED <<wpc, cur, outcome, completions, got>> /\ Busy' = Busy
  BY DEF SendWork, Busy
<1>2. queue[w] \in Seq(Items \cup {Shutdown})
  BY DEF TypeOK
<1>3. \A v \in Workers : queue'[v] = IF v = w THEN Append(queue[w], item) ELSE queue[v]
  BY DEF TypeOK, SendWork
<1>4. CASE item = Shutdown
  <2>1. fate' = fate
    BY <1>4 DEF SendWork
  <2>2. \A v \in Workers : /\ UnitsIn(queue'[v]) = UnitsIn(queue[v])
                           /\ Distinct(queue'[v])
    BY <1>2, <1>3, <1>4, AppendToChannel DEF QueuesExact
  <2>3. QueuesExact' /\ HandsExact' /\ NoneLost'
    BY <1>1, <2>1, <2>2 DEF QueuesExact, HandsExact, FateInHand, NoneLost
  <2>4. ReportsExact' /\ GotTruthful'
    BY <1>1, <2>1 DEF ReportsExact, GotTruthful
  <2> QED
    BY <2>3, <2>4
<1>5. CASE item # Shutdown
  <2> DEFINE u == item.unit
  <2>1. u \in Units /\ fate[u] = "unsent"
    BY <1>5 DEF Items
  <2>2. /\ \A v \in Units : v # u => fate'[v] = fate[v]
        /\ fate'[u] = "queued"
    BY <1>5, <2>1 DEF TypeOK, SendWork
  <2> HIDE DEF u
  <2>3. u = item.unit
    BY DEF u
  <2>4. /\ \A v \in Workers : u \notin UnitsIn(queue[v])
        /\ \A v \in Busy : cur[v].unit # u
        /\ \A i \in DOMAIN completions : completions[i].unit # u
        /\ \A d \in Callers : \A i \in DOMAIN got[d] : got[d][i].unit # u
    BY <2>1 DEF QueuesExact, HandsExact, FateInHand, ReportsExact, GotTruthful, Truth
  <2>5. /\ \A v \in Workers : UnitsIn(queue'[v]) =
             IF v = w THEN UnitsIn(queue[v]) \cup {u} ELSE UnitsIn(queue[v])
        /\ \A v \in Workers : Distinct(queue'[v])
    <3>1. Distinct(queue[w]) /\ item.unit \notin UnitsIn(queue[w])
      BY <2>3, <2>4 DEF QueuesExact
    <3>2. /\ UnitsIn(Append(queue[w], item)) = UnitsIn(queue[w]) \cup {u}
          /\ Distinct(Append(queue[w], item))
      BY <1>2, <1>5, <2>3, <3>1, AppendToChannel
    <3> QED
      BY <1>3, <3>2 DEF QueuesExact
  <2>6. QueuesExact'
    <3>1. ASSUME NEW v \in Workers, NEW x \in UnitsIn(queue'[v]) PROVE fate'[x] = "queued"
      <4>1. x = u \/ x \in UnitsIn(queue[v])
        BY <2>5
      <4>2. x \in UnitsIn(queue[v]) => x \in Units /\ fate[x] = "queued"
        BY UnitsTyped DEF QueuesExact
      <4> QED
        BY <2>2, <4>1, <4>2
    <3>2. ASSUME NEW v \in Workers, NEW x \in Workers, v # x
          PROVE  UnitsIn(queue'[v]) \cap UnitsIn(queue'[x]) = {}
      <4>1. UnitsIn(queue[v]) \cap UnitsIn(queue[x]) = {}
        BY <3>2 DEF QueuesExact
      <4>2. u \notin UnitsIn(queue[v]) /\ u \notin UnitsIn(queue[x])
        BY <2>4
      <4> QED
        BY <2>5, <3>2, <4>1, <4>2
    <3> QED
      BY <2>5, <3>1, <3>2 DEF QueuesExact
  <2>7. HandsExact'
    <3>1. \A v \in Busy, x \in Workers : cur[v].unit \notin UnitsIn(queue'[x])
      BY <2>4, <2>5 DEF HandsExact
    <3>2. \A v \in Busy : fate'[cur[v].unit] = FateInHand(v)
      BY <2>2, <2>4, UnitsTyped DEF HandsExact
    <3>3. \A v : FateInHand(v)' = FateInHand(v)
      BY <1>1 DEF FateInHand
    <3> QED
      BY <1>1, <3>1, <3>2, <3>3 DEF HandsExact
  <2>8. ReportsExact'
    BY <1>1, <2>2, <2>4, UnitsTyped DEF ReportsExact
  <2>9. GotTruthful'
    BY <1>1, <2>2, <2>4, UnitsTyped DEF GotTruthful
  <2>10. NoneLost'
    BY <1>1, <2>2, <2>5 DEF NoneLost
  <2> QED
    BY <2>6, <2>7, <2>8, <2>9, <2>10
<1> QED
  BY <1>4, <1>5

\* A caller, or the drain of a shutdown, takes the first completion.
LEMMA TakeUnits ==
  ASSUME TypeOK, UnitsInv, NEW c \in Callers, ReceiveCompletion(c) \/ Drain(c)
  PROVE  UnitsInv'
<1> USE DEF UnitsInv
<1> DEFINE r == Head(completions)
<1>1. UNCHANGED <<wpc, queue, cur, outcome, fate>> /\ Busy' = Busy
  BY DEF ReceiveCompletion, Drain, workerVars, Busy
<1>2. completions \in Seq(Completion) /\ completions # <<>> /\ got[c] \in Seq(Completion)
  BY DEF TypeOK, ReceiveCompletion, Drain
<1>3. /\ \A i \in DOMAIN completions' :
           i + 1 \in DOMAIN completions /\ completions'[i] = completions[i + 1]
      /\ 1 \in DOMAIN completions /\ r = completions[1]
      /\ \A i \in DOMAIN completions' : i \in Nat
  <2>1. completions' = Tail(completions)
    BY DEF ReceiveCompletion, Drain
  <2> QED
    BY <1>2, <2>1
<1>4. /\ \A d \in Callers : d # c => got'[d] = got[d]
      /\ got'[c] = Append(got[c], r)
  BY DEF TypeOK, ReceiveCompletion, Drain
<1>5. r \in Completion
  BY <1>2
<1> HIDE DEF r
<1>6. \A i \in DOMAIN got'[c] : (i \in DOMAIN got[c] /\ got'[c][i] = got[c][i]) \/ got'[c][i] = r
  BY <1>2, <1>4, <1>5
<1>7. QueuesExact' /\ HandsExact' /\ NoneLost'
  BY <1>1 DEF QueuesExact, HandsExact, FateInHand, NoneLost
<1>8. ReportsExact'
  <2>1. ASSUME NEW i \in DOMAIN completions', NEW j \in DOMAIN completions',
               completions'[i].unit = completions'[j].unit
        PROVE  i = j
    <3>1. i + 1 = j + 1
      BY <1>3, <2>1 DEF ReportsExact
    <3> QED
      BY <1>3, <3>1
  <2> QED
    BY <1>1, <1>3, <2>1 DEF ReportsExact
<1>9. GotTruthful'
  BY <1>1, <1>3, <1>4, <1>6 DEF ReportsExact, GotTruthful
<1> QED
  BY <1>7, <1>8, <1>9

\* The pool is dropped, with its completions.
LEMMA DropUnits ==
  ASSUME UnitsInv, NEW c \in Callers, DropPool(c) \/ AbandonPool(c)
  PROVE  UnitsInv'
<1> USE DEF UnitsInv
<1>1. UNCHANGED <<wpc, queue, cur, outcome, got, fate>> /\ Busy' = Busy
  BY DEF DropPool, AbandonPool, workerVars, Busy
<1>2. completions' = <<>>
  BY DEF DropPool, AbandonPool
<1>3. QueuesExact' /\ HandsExact' /\ NoneLost'
  BY <1>1 DEF QueuesExact, HandsExact, FateInHand, NoneLost
<1>4. ReportsExact' /\ GotTruthful'
  BY <1>1, <1>2 DEF ReportsExact, GotTruthful
<1> QED
  BY <1>3, <1>4

\* A call begins: wait_for_completions or shutdown, with nothing received yet.
LEMMA BeginUnits ==
  ASSUME TypeOK, UnitsInv, NEW c \in Callers, LoadPending(c) \/ BeginShutdown(c)
  PROVE  UnitsInv'
<1> USE DEF UnitsInv
<1>1. UNCHANGED <<wpc, queue, cur, outcome, completions, fate>> /\ Busy' = Busy
  BY DEF LoadPending, BeginShutdown, workerVars, Busy
<1>2. \A d \in Callers : got'[d] = IF d = c THEN <<>> ELSE got[d]
  BY DEF TypeOK, LoadPending, BeginShutdown
<1>3. QueuesExact' /\ HandsExact' /\ NoneLost'
  BY <1>1 DEF QueuesExact, HandsExact, FateInHand, NoneLost
<1>4. ReportsExact' /\ GotTruthful'
  BY <1>1, <1>2 DEF ReportsExact, GotTruthful
<1> QED
  BY <1>3, <1>4

\* shutdown puts Shutdown in every open channel.
LEMMA SignalUnits ==
  ASSUME TypeOK, UnitsInv, NEW c \in Callers, SendShutdowns(c)
  PROVE  UnitsInv'
<1> USE DEF UnitsInv
<1>1. UNCHANGED <<wpc, cur, outcome, completions, got, fate>> /\ Busy' = Busy
  BY DEF SendShutdowns, Busy
<1>2. \A v \in Workers : queue[v] \in Seq(Items \cup {Shutdown})
  BY DEF TypeOK
<1>3. \A v \in Workers : queue'[v] = queue[v] \/ queue'[v] = Append(queue[v], Shutdown)
  BY DEF SendShutdowns
<1>4. \A v \in Workers : UnitsIn(queue'[v]) = UnitsIn(queue[v]) /\ Distinct(queue'[v])
  <2> SUFFICES ASSUME NEW v \in Workers
               PROVE  UnitsIn(queue'[v]) = UnitsIn(queue[v]) /\ Distinct(queue'[v])
    OBVIOUS
  <2>1. Distinct(queue[v])
    BY DEF QueuesExact
  <2>2. /\ UnitsIn(Append(queue[v], Shutdown)) = UnitsIn(queue[v])
        /\ Distinct(Append(queue[v], Shutdown))
    BY <1>2, <2>1, AppendToChannel
  <2> QED
    BY <1>3, <2>1, <2>2
<1>5. QueuesExact' /\ HandsExact' /\ NoneLost'
  BY <1>1, <1>4 DEF QueuesExact, HandsExact, FateInHand, NoneLost
<1>6. ReportsExact' /\ GotTruthful'
  BY <1>1 DEF ReportsExact, GotTruthful
<1> QED
  BY <1>5, <1>6

\* Every step of a call in progress, and the beginning of a call.
LEMMA CallerUnits ==
  ASSUME TypeOK, UnitsInv, NEW c \in Callers,
         CallerStep(c) \/ LoadPending(c) \/ BeginShutdown(c) \/ AbandonPool(c)
  PROVE  UnitsInv'
<1>1. CASE CountPending(c) \/ LockReceiver(c) \/ SubtractPending(c)
           \/ ReceiverClosed(c) \/ DrainClosed(c)
  <2>1. UNCHANGED <<wpc, queue, cur, outcome, completions, got, fate>>
    BY <1>1 DEF CountPending, LockReceiver, SubtractPending, ReceiverClosed,
                DrainClosed, workerVars
  <2>2. Busy' = Busy
    BY <2>1 DEF Busy
  <2> QED
    BY <2>1, <2>2, UnitsKept
<1> QED
  BY <1>1, TakeUnits, DropUnits, BeginUnits, SignalUnits DEF CallerStep

-----------------------------------------------------------------------------
(* Arithmetic modulo the width of the counter *)

\* What the prover knows of division with remainder.
LEMMA DivMod ==
  ASSUME NEW x \in Int, NEW m \in Nat \ {0}
  PROVE  x % m \in 0 .. m - 1 /\ (x \div m) \in Int /\ x = m * (x \div m) + (x % m)
OBVIOUS

\* Multiples of the modulus do not change the remainder.
LEMMA ModShift ==
  ASSUME NEW m \in Nat \ {0}, NEW q \in Int, NEW r \in Int
  PROVE  (m * q + r) % m = r % m
<1>1. r = m * (r \div m) + (r % m)
  BY DivMod
<1> DEFINE a == r \div m
           b == r % m
<1>2. a \in Int /\ b \in 0 .. m - 1
  BY DivMod
<1>3. r = m * a + b
  BY <1>1
<1> HIDE DEF a, b
<1>4. m * q + r = m * (q + a) + b
  BY <1>2, <1>3
<1>5. q + a \in Int /\ \A k \in Int : (m * k + b) % m = b
  BY <1>2
<1>6. (m * q + r) % m = b
  BY <1>4, <1>5
<1> QED
  BY <1>6 DEF b

\* The remainder of a sum is that of the remainders (fetch_add, fetch_sub).
LEMMA ModAdd == 
  ASSUME NEW x \in Int, NEW m \in Nat \ {0}, NEW k \in Int
  PROVE  ((x % m) + k) % m = (x + k) % m
<1> DEFINE a == x \div m
           b == x % m
<1>1. a \in Int /\ b \in Int /\ x = m * a + b
  BY DivMod
<1> HIDE DEF a, b
<1>2. x + k = m * a + (b + k) /\ b + k \in Int
  BY <1>1
<1>3. (x + k) % m = (b + k) % m
  <2>1. b + k \in Int
    BY <1>1
  <2>2. \A r \in Int : (m * a + r) % m = r % m
    BY <1>1, ModShift
  <2>3. (m * a + (b + k)) % m = (b + k) % m
    BY <2>1, <2>2
  <2> QED
    BY <1>2, <2>3
<1> QED
  BY <1>3 DEF b

\* Adding the modulus once does not change the remainder.
LEMMA ModWrap == 
  ASSUME NEW x \in Int, NEW m \in Nat \ {0}
  PROVE  (x + m) % m = x % m
<1>1. (m * 1 + x) % m = x % m
  <2>1. 1 \in Int
    OBVIOUS
  <2> QED
    BY <2>1, ModShift
<1>2. x + m = m * 1 + x
  OBVIOUS
<1> QED
  BY <1>1, <1>2

-----------------------------------------------------------------------------
(* What pending_work counts *)

\* The pending work, as an integer.
Expected ==
  Cardinality(QueuedUnits) + Cardinality(WorkingUnits) + Len(completions)
    + Cardinality(CallersAt("subtract")) + Cardinality(Discarded)
    - Cardinality(CallersAt("count"))

CountInv == Usable => pending = Expected % UsizeMod

\* The sets that Expected counts are finite.
LEMMA FiniteCounts ==
  ASSUME TypeOK
  PROVE  /\ IsFiniteSet(QueuedUnits) /\ Cardinality(QueuedUnits) \in Nat
         /\ IsFiniteSet(WorkingUnits) /\ Cardinality(WorkingUnits) \in Nat
         /\ IsFiniteSet(Discarded) /\ Cardinality(Discarded) \in Nat
         /\ Len(completions) \in Nat
         /\ \A pc : IsFiniteSet(CallersAt(pc)) /\ Cardinality(CallersAt(pc)) \in Nat
         /\ Expected \in Int
<1>1. /\ QueuedUnits \subseteq Units
      /\ WorkingUnits \subseteq Units
      /\ Discarded \subseteq Units
  BY UnitsTyped DEF QueuedUnits, WorkingUnits, Discarded
<1>2. \A pc : CallersAt(pc) \subseteq Callers
  BY DEF CallersAt
<1>3. /\ IsFiniteSet(QueuedUnits) /\ IsFiniteSet(WorkingUnits) /\ IsFiniteSet(Discarded)
      /\ \A pc : IsFiniteSet(CallersAt(pc))
  BY <1>1, <1>2, PoolFinite, FS_Subset
<1>4. /\ Cardinality(QueuedUnits) \in Nat
      /\ Cardinality(WorkingUnits) \in Nat
      /\ Cardinality(Discarded) \in Nat
      /\ \A pc : Cardinality(CallersAt(pc)) \in Nat
  BY <1>3, FS_CardinalityType
<1>5. Len(completions) \in Nat
  BY DEF TypeOK
<1> QED
  BY <1>3, <1>4, <1>5 DEF Expected

\* Each step moves a unit from one term of the sum to another.
LEMMA ReceiveCounts ==
  ASSUME TypeOK, UnitsInv, NEW w \in Workers, Receive(w)
  PROVE  Expected' = Expected
<1> DEFINE u == Head(queue[w]).unit
<1>1. /\ queue[w] \in Seq(Items \cup {Shutdown})
      /\ queue[w] # <<>>
      /\ Head(queue[w]) # Shutdown
      /\ Distinct(queue[w])
  BY DEF TypeOK, Receive, UnitsInv, QueuesExact
<1>2. /\ u \in UnitsIn(queue[w])
      /\ UnitsIn(Tail(queue[w])) = UnitsIn(queue[w]) \ {u}
  BY <1>1, TailOfChannel
<1>3. \A v \in Workers : queue'[v] = IF v = w THEN Tail(queue[w]) ELSE queue[v]
  BY DEF TypeOK, Receive
<1>4. /\ Busy' = Busy \cup {w} /\ w \notin Busy
      /\ \A v \in Busy : cur'[v] = cur[v]
      /\ cur'[w].unit = u
  BY DEF TypeOK, Receive, Busy
<1> HIDE DEF u
<1>5. QueuedUnits' = QueuedUnits \ {u} /\ u \in QueuedUnits
  BY <1>2, <1>3 DEF QueuedUnits, UnitsInv, QueuesExact
<1>6. WorkingUnits' = WorkingUnits \cup {u} /\ u \notin WorkingUnits
  BY <1>2, <1>4 DEF WorkingUnits, UnitsInv, HandsExact
<1>7. /\ Cardinality(QueuedUnits') = Cardinality(QueuedUnits) - 1
      /\ Cardinality(WorkingUnits') = Cardinality(WorkingUnits) + 1
  BY <1>5, <1>6, FiniteCounts, FS_AddElement, FS_RemoveElement
<1>8. UNCHANGED <<Discarded, completions, CallersAt("subtract"), CallersAt("count")>>
  BY DEF Receive, callerVars, Discarded, CallersAt
<1> QED
  BY <1>7, <1>8, FiniteCounts DEF Expected

\* A worker that stops leaves the expected count as it is.
LEMMA StopCounts ==
  ASSUME TypeOK, UnitsInv, NEW w \in Workers, Stop(w)
  PROVE  Expected' = Expected
<1> DEFINE U == UnitsIn(queue[w])
<1>1. UnitsIn(<<>>) = {}
  BY DEF UnitsIn
<1>2. \A v \in Workers : queue'[v] = IF v = w THEN <<>> ELSE queue[v]
  BY DEF TypeOK, Stop
<1>3. WorkingUnits' = WorkingUnits
  BY DEF TypeOK, Stop, Busy, WorkingUnits
<1>4. \A u \in Units : fate'[u] = IF u \in U THEN "discarded" ELSE fate[u]
  BY DEF Stop
<1>5. U \subseteq Units /\ \A u \in U : fate[u] = "queued"
  BY UnitsTyped DEF UnitsInv, QueuesExact
<1>6. QueuedUnits' = QueuedUnits \ U /\ U \subseteq QueuedUnits
  BY <1>1, <1>2 DEF QueuedUnits, UnitsInv, QueuesExact
<1> HIDE DEF U
<1>7. Discarded' = Discarded \cup U /\ Discarded \cap U = {}
  BY <1>4, <1>5 DEF Discarded
<1>8. IsFiniteSet(U) /\ Cardinality(U) \in Nat
  BY <1>6, FiniteCounts, FS_Subset, FS_CardinalityType
<1>9. Cardinality(QueuedUnits') = Cardinality(QueuedUnits) - Cardinality(U)
  <2>1. QueuedUnits \cap U = U
    BY <1>6
  <2>2. Cardinality(QueuedUnits \ U) = Cardinality(QueuedUnits) - Cardinality(QueuedUnits \cap U)
    BY FiniteCounts, FS_Difference
  <2> QED
    BY <1>6, <2>1, <2>2
<1>10. Cardinality(Discarded') = Cardinality(Discarded) + Cardinality(U)
  <2>1. Cardinality(Discarded \cup U)
          = Cardinality(Discarded) + Cardinality(U) - Cardinality(Discarded \cap U)
    BY <1>8, FiniteCounts, FS_Union
  <2>2. Cardinality(Discarded \cap U) = 0
    BY <1>7, FS_EmptySet
  <2> QED
    BY <1>7, <1>8, <2>1, <2>2, FiniteCounts
<1>11. UNCHANGED <<completions, CallersAt("subtract"), CallersAt("count")>>
  BY DEF Stop, callerVars, CallersAt
<1> QED
  BY <1>3, <1>8, <1>9, <1>10, <1>11, FiniteCounts DEF Expected

\* A completion that is sent replaces the unit in the hands of the worker.
LEMMA ReportCounts ==
  ASSUME TypeOK, UnitsInv, NEW w \in Workers, Report(w), open
  PROVE  Expected' = Expected
<1>1. w \in Busy /\ Busy' = Busy \ {w} /\ UNCHANGED <<cur, queue, cpc, fate>>
  BY DEF TypeOK, Report, Busy, callerVars
<1>2. WorkingUnits' = WorkingUnits \ {cur[w].unit} /\ cur[w].unit \in WorkingUnits
  BY <1>1 DEF WorkingUnits, UnitsInv, HandsExact
<1>3. Cardinality(WorkingUnits') = Cardinality(WorkingUnits) - 1
  BY <1>2, FiniteCounts, FS_RemoveElement
<1>4. Len(completions') = Len(completions) + 1
  <2>1. cur[w] \in Items /\ completions \in Seq(Completion)
    BY <1>1 DEF TypeOK
  <2>2. [unit |-> cur[w].unit, worker |-> w, success |-> outcome[w]] \in Completion
    BY <2>1 DEF TypeOK, Completion, Items
  <2> QED
    BY <2>1, <2>2 DEF Report
<1>5. UNCHANGED <<QueuedUnits, Discarded, CallersAt("subtract"), CallersAt("count")>>
  BY <1>1 DEF QueuedUnits, Discarded, CallersAt
<1> QED
  BY <1>3, <1>4, <1>5, FiniteCounts DEF Expected

\* Locking and settling an item moves it nowhere.
LEMMA SettleCounts ==
  ASSUME TypeOK, UnitsInv, NEW w \in Workers,
         AcquireLocks(w) \/ FailToAcquire(w) \/ ReleaseLocks(w)
  PROVE  Expected' = Expected
<1>1. Busy' = Busy /\ UNCHANGED <<cur, queue, completions, cpc>>
  BY DEF TypeOK, AcquireLocks, FailToAcquire, ReleaseLocks, Busy, callerVars
<1>2. Discarded' = Discarded
  <2>1. w \in Busy /\ wpc[w] # "report"
    BY DEF AcquireLocks, FailToAcquire, ReleaseLocks, Busy
  <2>2. fate[cur[w].unit] = "queued"
    BY <2>1 DEF UnitsInv, HandsExact, FateInHand
  <2>3. fate \in [Units -> Fates]
    BY DEF TypeOK
  <2>4. \/ fate' = fate
        \/ fate' = [fate EXCEPT ![cur[w].unit] = "conflict"]
        \/ fate' = [fate EXCEPT ![cur[w].unit] = "ok"]
    BY DEF AcquireLocks, FailToAcquire, ReleaseLocks
  <2>5. \A u \in Units : u # cur[w].unit => fate'[u] = fate[u]
    BY <2>3, <2>4
  <2>6. cur[w].unit \in Units => fate'[cur[w].unit] # "discarded"
    BY <2>2, <2>3, <2>4
  <2> QED
    BY <2>2, <2>5, <2>6 DEF Discarded
<1> QED
  BY <1>1, <1>2 DEF Expected, QueuedUnits, WorkingUnits, CallersAt

\* No step of a worker disturbs the count.
LEMMA WorkerCounts ==
  ASSUME TypeOK, UnitsInv, CountInv, NEW w \in Workers, WorkerStep(w)
  PROVE  CountInv'
<1>1. UNCHANGED <<pending, open, cpc>>
  BY DEF WorkerStep, Receive, Stop, AcquireLocks, FailToAcquire, ReleaseLocks, Report,
         callerVars
<1>2. Usable' = Usable
  BY <1>1 DEF Usable
<1>3. open => Expected' = Expected
  BY ReceiveCounts, StopCounts, ReportCounts, SettleCounts DEF WorkerStep
<1> QED
  BY <1>1, <1>2, <1>3 DEF CountInv, Usable

\* A send adds a unit, and its sender to those that have yet to count it.
LEMMA SendCounts ==
  ASSUME TypeOK, UnitsInv, CountInv, NEW c \in Callers, NEW w \in Workers,
         NEW item \in Items \cup {Shutdown}, SendWork(c, w, item),
         item # Shutdown => fate[item.unit] = "unsent"
  PROVE  CountInv'
<1>1. UNCHANGED <<pending, open, completions, wpc, cur>> /\ Usable
  BY DEF SendWork
<1>2. WorkingUnits' = WorkingUnits
  BY <1>1 DEF WorkingUnits, Busy
<1>3. queue[w] \in Seq(Items \cup {Shutdown})
  BY DEF TypeOK
<1>4. \A v \in Workers : queue'[v] = IF v = w THEN Append(queue[w], item) ELSE queue[v]
  BY DEF TypeOK, SendWork
<1>5. CASE item = Shutdown
  <2>1. UNCHANGED <<cpc, fate>>
    BY <1>5 DEF SendWork
  <2>2. UnitsIn(Append(queue[w], item)) = UnitsIn(queue[w])
    BY <1>3, <1>5, AppendToChannel
  <2>3. \A v \in Workers : UnitsIn(queue'[v]) = UnitsIn(queue[v])
    BY <1>4, <2>2
  <2>4. QueuedUnits' = QueuedUnits
    BY <2>3 DEF QueuedUnits
  <2> QED
    BY <1>1, <1>2, <2>1, <2>4 DEF CountInv, Expected, Discarded, CallersAt
<1>6. CASE item # Shutdown
  <2> DEFINE u == item.unit
  <2>1. u \in Units /\ fate[u] = "unsent"
    BY <1>6 DEF Items
  <2>2. fate' = [fate EXCEPT ![u] = "queued"] /\ cpc' = [cpc EXCEPT ![c] = "count"]
    BY <1>6 DEF SendWork
  <2>3. UnitsIn(Append(queue[w], item)) = UnitsIn(queue[w]) \cup {u}
    BY <1>3, <1>6, AppendToChannel
  <2> HIDE DEF u
  <2>4. QueuedUnits' = QueuedUnits \cup {u}
    BY <1>4, <2>3 DEF QueuedUnits
  <2>5. u \notin QueuedUnits
    BY <2>1 DEF QueuedUnits, UnitsInv, QueuesExact
  <2>6. Discarded' = Discarded
    BY <2>1, <2>2 DEF TypeOK, Discarded
  <2>7. /\ CallersAt("subtract")' = CallersAt("subtract")
        /\ CallersAt("count")' = CallersAt("count") \cup {c}
        /\ c \notin CallersAt("count")
    BY <2>2 DEF TypeOK, CallersAt, SendWork
  <2>8. /\ Cardinality(QueuedUnits') = Cardinality(QueuedUnits) + 1
        /\ Cardinality(CallersAt("count")') = Cardinality(CallersAt("count")) + 1
    BY <2>4, <2>5, <2>7, FiniteCounts, FS_AddElement
  <2>9. Expected' = Expected
    BY <1>1, <1>2, <2>6, <2>7, <2>8, FiniteCounts DEF Expected
  <2> QED
    BY <1>1, <2>9 DEF CountInv
<1> QED
  BY <1>5, <1>6

\* fetch_add makes up for the unit that was sent before it.
LEMMA CountPendingCounts ==
  ASSUME TypeOK, CountInv, NEW c \in Callers, CountPending(c)
  PROVE  CountInv'
<1>1. UNCHANGED <<queue, wpc, cur, completions, fate, open>>
  BY DEF CountPending, workerVars
<1>2. /\ CallersAt("subtract")' = CallersAt("subtract")
      /\ CallersAt("count")' = CallersAt("count") \ {c}
      /\ c \in CallersAt("count")
  BY DEF TypeOK, CallersAt, CountPending
<1>3. Cardinality(CallersAt("count")') = Cardinality(CallersAt("count")) - 1
  BY <1>2, FiniteCounts, FS_RemoveElement
<1>4. Expected' = Expected + 1
  BY <1>1, <1>2, <1>3, FiniteCounts
     DEF Expected, QueuedUnits, WorkingUnits, Busy, Discarded
<1>5. Usable' => Usable
  BY <1>1 DEF TypeOK, Usable, CountPending, DownPcs
<1>6. pending = Expected % UsizeMod => pending' = (Expected + 1) % UsizeMod
  <2>1. Expected \in Int /\ 1 \in Int /\ UsizeMod \in Nat \ {0}
    BY PoolAssumption, FiniteCounts
  <2>2. ((Expected % UsizeMod) + 1) % UsizeMod = (Expected + 1) % UsizeMod
    BY <2>1, ModAdd
  <2> QED
    BY <2>2 DEF CountPending
<1> QED
  BY <1>4, <1>5, <1>6 DEF CountInv

\* fetch_sub makes up for the completion that was received before it.
LEMMA SubtractCounts ==
  ASSUME TypeOK, CountInv, NEW c \in Callers, SubtractPending(c)
  PROVE  CountInv'
<1>1. UNCHANGED <<queue, wpc, cur, completions, fate, open>>
  BY DEF SubtractPending, workerVars
<1>2. /\ CallersAt("subtract")' = CallersAt("subtract") \ {c}
      /\ CallersAt("count")' = CallersAt("count")
      /\ c \in CallersAt("subtract")
  BY DEF TypeOK, CallersAt, SubtractPending
<1>3. Cardinality(CallersAt("subtract")') = Cardinality(CallersAt("subtract")) - 1
  BY <1>2, FiniteCounts, FS_RemoveElement
<1>4. Expected' = Expected - 1
  BY <1>1, <1>2, <1>3, FiniteCounts
     DEF Expected, QueuedUnits, WorkingUnits, Busy, Discarded
<1>5. Usable' => Usable
  BY <1>1 DEF TypeOK, Usable, SubtractPending, DownPcs
<1>6. pending = Expected % UsizeMod => pending' = (Expected - 1) % UsizeMod
  <2>1. UsizeMod - 1 \in Int /\ Expected \in Int /\ UsizeMod \in Nat \ {0}
    BY PoolAssumption, FiniteCounts
  <2>2. ((Expected % UsizeMod) + (UsizeMod - 1)) % UsizeMod
          = (Expected + (UsizeMod - 1)) % UsizeMod
    BY <2>1, ModAdd
  <2>3. (Expected - 1 + UsizeMod) % UsizeMod = (Expected - 1) % UsizeMod
    <3>1. Expected - 1 \in Int
      BY <2>1
    <3> QED
      BY <2>1, <3>1, ModWrap
  <2>4. Expected + (UsizeMod - 1) = Expected - 1 + UsizeMod
    BY <2>1
  <2>5. pending + UsizeMod - 1 = pending + (UsizeMod - 1)
    BY <2>1 DEF TypeOK
  <2> QED
    BY <2>2, <2>3, <2>4, <2>5 DEF SubtractPending
<1> QED
  BY <1>4, <1>5, <1>6 DEF CountInv

\* A completion that is received moves to its caller, who has yet to subtract it.
LEMMA TakeCounts ==
  ASSUME TypeOK, CountInv, NEW c \in Callers, ReceiveCompletion(c)
  PROVE  CountInv'
<1>1. UNCHANGED <<queue, wpc, cur, fate, open, pending>>
  BY DEF ReceiveCompletion, workerVars
<1>2. /\ CallersAt("subtract")' = CallersAt("subtract") \cup {c}
      /\ CallersAt("count")' = CallersAt("count")
      /\ c \notin CallersAt("subtract")
  BY DEF TypeOK, CallersAt, ReceiveCompletion
<1>3. Cardinality(CallersAt("subtract")') = Cardinality(CallersAt("subtract")) + 1
  BY <1>2, FiniteCounts, FS_AddElement
<1>4. Len(completions') = Len(completions) - 1
  BY DEF TypeOK, ReceiveCompletion
<1>5. Expected' = Expected
  BY <1>1, <1>2, <1>3, <1>4, FiniteCounts
     DEF Expected, QueuedUnits, WorkingUnits, Busy, Discarded
<1>6. Usable' => Usable
  BY <1>1 DEF TypeOK, Usable, ReceiveCompletion, DownPcs
<1> QED
  BY <1>1, <1>5, <1>6 DEF CountInv

\* Once a shutdown has begun, or the pool is gone, nobody loads the count.
LEMMA DownCounts ==
  ASSUME TypeOK, NEW c \in Callers,
         \/ BeginShutdown(c) \/ AbandonPool(c)
         \/ Drain(c) \/ DrainClosed(c) \/ SendShutdowns(c) \/ DropPool(c)
  PROVE  CountInv'
<1>1. open' = FALSE \/ cpc'[c] \in DownPcs
  BY DEF TypeOK, BeginShutdown, AbandonPool, Drain, DrainClosed, SendShutdowns,
         DropPool, DownPcs
<1> QED
  BY <1>1 DEF CountInv, Usable

\* No other step of a caller disturbs the count.
LEMMA CallerCounts ==
  ASSUME TypeOK, CountInv, NEW c \in Callers,
         CallerStep(c) \/ LoadPending(c) \/ BeginShutdown(c) \/ AbandonPool(c)
  PROVE  CountInv'
<1>1. CASE LoadPending(c) \/ LockReceiver(c) \/ ReceiverClosed(c)
  <2>1. UNCHANGED <<queue, wpc, cur, completions, fate, open, pending>>
    BY <1>1 DEF LoadPending, LockReceiver, ReceiverClosed, workerVars
  <2>2. /\ CallersAt("subtract")' = CallersAt("subtract")
        /\ CallersAt("count")' = CallersAt("count")
    BY <1>1 DEF TypeOK, CallersAt, LoadPending, LockReceiver, ReceiverClosed
  <2>3. Expected' = Expected
    BY <2>1, <2>2 DEF Expected, QueuedUnits, WorkingUnits, Busy, Discarded
  <2>4. Usable' => Usable
    BY <1>1, <2>1 DEF TypeOK, Usable, LoadPending, LockReceiver, ReceiverClosed, DownPcs
  <2> QED
    BY <2>1, <2>3, <2>4 DEF CountInv
<1> QED
  BY <1>1, CountPendingCounts, SubtractCounts, TakeCounts, DownCounts DEF CallerStep

-----------------------------------------------------------------------------
(* The theorems, about every run of the pool *)

\* Everything that is proved of the pool, in one inductive invariant.
PoolUnitsInv == PoolInv /\ UnitsInv /\ CountInv

\* The three invariants hold in a new pool.
LEMMA PoolUnitsInit == PoolInit => PoolUnitsInv
<1> SUFFICES ASSUME PoolInit PROVE PoolUnitsInv
  OBVIOUS
<1> DEFINE none == {}
<1>1. /\ QueuedUnits = none /\ WorkingUnits = none /\ Discarded = none
      /\ CallersAt("subtract") = none /\ CallersAt("count") = none
  BY DEF PoolInit, QueuedUnits, UnitsIn, WorkingUnits, Busy, Discarded, CallersAt
<1>2. Cardinality(none) = 0
  BY FS_EmptySet
<1>3. Len(completions) = 0 /\ pending = 0
  BY DEF PoolInit
<1> HIDE DEF none
<1>4. Expected = 0
  BY <1>1, <1>2, <1>3 DEF Expected
<1>5. 0 % UsizeMod = 0
  BY PoolAssumption
<1>6. CountInv
  BY <1>3, <1>4, <1>5 DEF CountInv
<1> QED
  BY <1>6, PoolInitInv, UnitsInitInv DEF PoolUnitsInv

\* A step under the general client is a step of the pool.
LEMMA ClientStep == [PoolNext(Items)]_poolVars => PoolStep \/ UNCHANGED poolVars
<1> SUFFICES ASSUME PoolNext(Items) PROVE PoolStep
  OBVIOUS
<1>1. ASSUME NEW c \in Callers, SubmitUnit(c, Items) \/ SubmitShutdown(c) PROVE PoolStep
  BY <1>1 DEF SubmitUnit, SubmitShutdown, PoolStep
<1> QED
  BY <1>1 DEF PoolNext, BeginCall, PoolStep

\* The three invariants together are inductive, for any client of the pool.
LEMMA PoolUnitsStep ==
  PoolUnitsInv /\ [PoolNext(Items)]_poolVars => PoolUnitsInv'
<1> SUFFICES ASSUME PoolUnitsInv, [PoolNext(Items)]_poolVars
             PROVE  PoolUnitsInv'
  OBVIOUS
<1> USE DEF PoolUnitsInv
<1>1. PoolInv'
  BY ClientStep, PoolInvStep
<1>2. TypeOK
  BY DEF PoolInv
<1>3. CASE UNCHANGED poolVars
  <2>1. UNCHANGED <<queue, wpc, cur, outcome, completions, pending, open, cpc, got, fate>>
    BY <1>3 DEF poolVars, workerVars, callerVars
  <2>2. Busy' = Busy
    BY <2>1 DEF Busy
  <2>3. UnitsInv'
    BY <2>1, <2>2, UnitsKept
  <2>4. CountInv'
    BY <2>1, <2>2 DEF CountInv, Expected, QueuedUnits, WorkingUnits, Discarded,
                      CallersAt, Usable
  <2> QED
    BY <1>1, <2>3, <2>4
<1>4. ASSUME NEW w \in Workers, WorkerStep(w) PROVE UnitsInv' /\ CountInv'
  BY <1>2, <1>4, WorkerUnits, WorkerCounts
<1>5. ASSUME NEW c \in Callers,
             CallerStep(c) \/ LoadPending(c) \/ BeginShutdown(c) \/ AbandonPool(c)
      PROVE  UnitsInv' /\ CountInv'
  BY <1>2, <1>5, CallerUnits, CallerCounts
<1>6. ASSUME NEW c \in Callers, SubmitUnit(c, Items) \/ SubmitShutdown(c)
      PROVE  UnitsInv' /\ CountInv'
  <2>1. PICK w \in Workers, item \in Items \cup {Shutdown} :
          SendWork(c, w, item) /\ (item # Shutdown => fate[item.unit] = "unsent")
    BY <1>6 DEF SubmitUnit, SubmitShutdown
  <2> QED
    BY <1>2, <2>1, SendUnits, SendCounts
<1> QED
  BY <1>1, <1>3, <1>4, <1>5, <1>6 DEF PoolNext, BeginCall

\* The pool's invariant holds at every moment of every run of the pool.
THEOREM PoolInvariant == PoolSpec => []PoolUnitsInv
BY PoolUnitsInit, PoolUnitsStep, PTL DEF PoolSpec

\* Type correctness of the pool.
THEOREM PoolTypeOK == PoolSpec => []TypeOK
<1>1. PoolUnitsInv => TypeOK
  BY DEF PoolUnitsInv, PoolInv
<1> QED
  BY PoolInvariant, <1>1, PTL

\* acquire_locks and release_locks keep the shared set equal to the accounts of
\* the items in execution: no account is leaked or unlocked early.
THEOREM LockTableIsExact == PoolSpec => []LockTableExact
<1>1. PoolUnitsInv => LockTableExact
  BY DEF PoolUnitsInv, PoolInv
<1> QED
  BY PoolInvariant, <1>1, PTL

\* Two items in execution at the same time never share an account.
THEOREM ExecutionIsExclusive == PoolSpec => []ExclusiveExecution
<1>1. PoolUnitsInv => ExclusiveExecution
  BY DEF PoolUnitsInv, PoolInv
<1> QED
  BY PoolInvariant, <1>1, PTL

\* LockAcquisitionFailed is never the fault of a stale lock.
THEOREM ConflictsAreReal == PoolSpec => ConflictIsReal
<1> DEFINE A == \A w \in Workers :
                  FailToAcquire(w) =>
                    \E v \in Executing \ {w} : cur[v].accounts \cap cur[w].accounts # {}
<1>1. PoolUnitsInv => A
  BY ConflictStep DEF PoolUnitsInv
<1> HIDE DEF A
<1>2. PoolSpec => [][A]_poolVars
  BY PoolInvariant, <1>1, PTL
<1> QED
  BY <1>2 DEF A, ConflictIsReal

\* The pool's locking implements AccountLocking.
THEOREM PoolImplementsLocking == PoolSpec => LockingSpec
<1>1. PoolUnitsInv /\ [PoolNext(Items)]_poolVars => [Locking!Next]_(Locking!vars)
  BY ClientStep, LockingStep DEF PoolUnitsInv
<1>2. PoolSpec => Locking!Init
  BY LockingInit DEF PoolSpec
<1> QED
  BY PoolInvariant, <1>1, <1>2, PTL DEF PoolSpec, Locking!Spec, LockingSpec

\* As many units are reported as there are completions: none is reported twice.
LEMMA ReportedOnce ==
  ASSUME TypeOK, ReportsExact
  PROVE  Cardinality(ReportedUnits) = Len(completions)
<1> DEFINE n == Len(completions)
           f == [i \in 1 .. n |-> completions[i].unit]
<1>1. n \in Nat /\ DOMAIN completions = 1 .. n
  BY DEF TypeOK
<1>2. f \in Bijection(1 .. n, ReportedUnits)
  <2>1. f \in [1 .. n -> ReportedUnits]
    BY <1>1 DEF ReportedUnits
  <2>2. \A i, j \in 1 .. n : f[i] = f[j] => i = j
    BY <1>1 DEF ReportsExact
  <2>3. \A u \in ReportedUnits : \E i \in 1 .. n : f[i] = u
    BY <1>1 DEF ReportedUnits
  <2> QED
    BY <2>1, <2>2, <2>3 DEF Bijection, Injection, Surjection, IsInjective
<1>3. ExistsBijection(1 .. n, ReportedUnits)
  BY <1>2 DEF ExistsBijection
<1> HIDE DEF n
<1>4. Cardinality(ReportedUnits) = n
  BY <1>1, <1>3, FS_CountingElements
<1> QED
  BY <1>4 DEF n

\* No unit is executed, reported or handed over twice: the places that a sent
\* unit can be in are disjoint.
THEOREM EveryUnitInOnePlace == PoolSpec => []UnitInOnePlace
<1>1. PoolUnitsInv => UnitInOnePlace
  <2> SUFFICES ASSUME TypeOK, UnitsInv PROVE UnitInOnePlace
    BY DEF PoolUnitsInv, PoolInv
  <2>1. QueuedUnits \cap WorkingUnits = {}
    BY DEF UnitsInv, HandsExact, QueuedUnits, WorkingUnits
  <2>2. QueuedUnits \cap ReportedUnits = {}
    BY DEF UnitsInv, QueuesExact, ReportsExact, Truth, QueuedUnits, ReportedUnits
  <2>3. WorkingUnits \cap ReportedUnits = {}
    BY DEF UnitsInv, ReportsExact, WorkingUnits, ReportedUnits
  <2>4. Cardinality(ReportedUnits) = Len(completions)
    BY ReportedOnce DEF UnitsInv
  <2> QED
    BY <2>1, <2>2, <2>3, <2>4 DEF UnitInOnePlace, UnitsInv, QueuesExact, HandsExact
<1> QED
  BY PoolInvariant, <1>1, PTL

\* pending_work is what was sent and not yet taken out, modulo the width of the
\* counter, in whatever order sends, counts, receives and subtractions overlap.
THEOREM PendingIsExact == PoolSpec => []PendingAccounting
<1>1. PoolUnitsInv => PendingAccounting
  <2> SUFFICES ASSUME TypeOK, CountInv PROVE PendingAccounting
    BY DEF PoolUnitsInv, PoolInv
  <2> DEFINE s == Cardinality(QueuedUnits) + Cardinality(WorkingUnits)
                  + Len(completions) + Cardinality(CallersAt("subtract"))
                  + Cardinality(Discarded)
             k == Cardinality(CallersAt("count"))
  <2>1. s \in Int /\ k \in Int /\ UsizeMod \in Nat \ {0}
    BY FiniteCounts, PoolAssumption
  <2>2. Usable => pending = (s - k) % UsizeMod
    <3>1. Expected = s - k
      BY FiniteCounts DEF Expected
    <3> QED
      BY <3>1 DEF CountInv
  <2>3. PendingAccounting <=> (Usable => pending = (s + (UsizeMod - k)) % UsizeMod)
    BY DEF PendingAccounting
  <2> HIDE DEF s, k
  <2>4. s - k \in Int /\ s + (UsizeMod - k) = (s - k) + UsizeMod
    BY <2>1
  <2>5. ((s - k) + UsizeMod) % UsizeMod = (s - k) % UsizeMod
    BY <2>1, <2>4, ModWrap
  <2> QED
    BY <2>2, <2>3, <2>4, <2>5
<1> QED
  BY PoolInvariant, <1>1, PTL

-----------------------------------------------------------------------------
(* Before anything stops a worker: what the clients of the engine rely on *)

\* The units that were sent and that no caller has received.
Flight == QueuedUnits \cup WorkingUnits \cup ReportedUnits

GotUnits(c) == {got[c][i].unit : i \in DOMAIN got[c]}

\* No Shutdown was sent, no worker has stopped and nothing was discarded.
Undisturbed ==
  /\ open
  /\ \A w \in Workers : wpc[w] # "stopped"
  /\ \A w \in Workers : \A i \in DOMAIN queue[w] : queue[w][i] # Shutdown
  /\ Discarded = {}

\* In a new pool nothing has stopped and nothing is in flight.
LEMMA InitUndisturbed == PoolInit => Undisturbed /\ Flight = {}
<1> SUFFICES ASSUME PoolInit PROVE Undisturbed /\ Flight = {}
  OBVIOUS
<1> USE DEF PoolInit
<1>1. QueuedUnits = {} /\ WorkingUnits = {} /\ ReportedUnits = {}
  BY DEF QueuedUnits, UnitsIn, WorkingUnits, Busy, ReportedUnits
<1>2. Undisturbed
  BY DEF Undisturbed, Discarded
<1> QED
  BY <1>1, <1>2 DEF Flight

\* The places are disjoint, so that their sizes add up.
LEMMA FlightCount ==
  ASSUME TypeOK, UnitsInv
  PROVE  /\ Flight \subseteq Units
         /\ IsFiniteSet(Flight)
         /\ Cardinality(Flight) \in Nat
         /\ Cardinality(Flight) =
              Cardinality(QueuedUnits) + Cardinality(WorkingUnits) + Len(completions)
<1>1. /\ QueuedUnits \subseteq Units
      /\ WorkingUnits \subseteq Units
      /\ ReportedUnits \subseteq Units
  BY UnitsTyped DEF QueuedUnits, WorkingUnits, ReportedUnits
<1>2. IsFiniteSet(ReportedUnits) /\ Cardinality(ReportedUnits) = Len(completions)
  BY <1>1, PoolFinite, FS_Subset, ReportedOnce DEF UnitsInv
<1>3. QueuedUnits \cap WorkingUnits = {}
  BY DEF UnitsInv, HandsExact, QueuedUnits, WorkingUnits
<1>4. QueuedUnits \cap ReportedUnits = {}
  BY DEF UnitsInv, QueuesExact, ReportsExact, Truth, QueuedUnits, ReportedUnits
<1>5. WorkingUnits \cap ReportedUnits = {}
  BY DEF UnitsInv, ReportsExact, WorkingUnits, ReportedUnits
<1> DEFINE QW == QueuedUnits \cup WorkingUnits
<1>6. IsFiniteSet(QW) /\ Cardinality(QW) = Cardinality(QueuedUnits) + Cardinality(WorkingUnits)
  <2>1. /\ IsFiniteSet(QW)
        /\ Cardinality(QW) = Cardinality(QueuedUnits) + Cardinality(WorkingUnits)
                             - Cardinality(QueuedUnits \cap WorkingUnits)
    BY FiniteCounts, FS_Union
  <2>2. Cardinality(QueuedUnits \cap WorkingUnits) = 0
    BY <1>3, FS_EmptySet
  <2> QED
    BY <2>1, <2>2, FiniteCounts
<1>7. QW \cap ReportedUnits = {} /\ Flight = QW \cup ReportedUnits
  BY <1>4, <1>5 DEF Flight
<1> HIDE DEF QW
<1>8. /\ IsFiniteSet(Flight)
      /\ Cardinality(Flight) = Cardinality(QW) + Cardinality(ReportedUnits)
  <2>1. /\ IsFiniteSet(Flight)
        /\ Cardinality(Flight) = Cardinality(QW) + Cardinality(ReportedUnits)
                                 - Cardinality(QW \cap ReportedUnits)
    BY <1>2, <1>6, <1>7, FS_Union
  <2>2. Cardinality(QW) \in Nat /\ Cardinality(ReportedUnits) \in Nat
    BY <1>2, <1>6, FS_CardinalityType
  <2> QED
    BY <1>7, <2>1, <2>2, FS_EmptySet
<1> QED
  BY <1>1, <1>2, <1>6, <1>8, FS_CardinalityType DEF Flight

\* With no send or receive half done, the count is the number of units in flight.
LEMMA PendingIsFlight ==
  ASSUME TypeOK, UnitsInv, CountInv, Usable, Undisturbed,
         CallersAt("count") = {}, CallersAt("subtract") = {},
         Cardinality(Flight) < UsizeMod
  PROVE  pending = Cardinality(Flight)
<1>1. /\ Cardinality(CallersAt("count")) = 0
      /\ Cardinality(CallersAt("subtract")) = 0
      /\ Cardinality(Discarded) = 0
  BY FS_EmptySet DEF Undisturbed
<1>2. Expected = Cardinality(Flight)
  BY <1>1, FlightCount, FiniteCounts DEF Expected
<1>3. Cardinality(Flight) \in 0 .. UsizeMod - 1 /\ UsizeMod \in Nat \ {0}
  BY FlightCount, PoolAssumption
<1>4. \A n \in 0 .. UsizeMod - 1 : n % UsizeMod = n
  BY <1>3
<1> QED
  BY <1>2, <1>3, <1>4 DEF CountInv

\* A worker moves its item from one place to the next.
LEMMA WorkerFlight ==
  ASSUME TypeOK, UnitsInv, Undisturbed, NEW w \in Workers, WorkerStep(w)
  PROVE  Undisturbed' /\ Flight' = Flight /\ UNCHANGED callerVars
<1>1. CASE Receive(w)
  <2> DEFINE u == Head(queue[w]).unit
  <2>1. /\ queue[w] \in Seq(Items \cup {Shutdown})
        /\ queue[w] # <<>>
        /\ Head(queue[w]) # Shutdown
        /\ Distinct(queue[w])
    BY <1>1 DEF TypeOK, Receive, UnitsInv, QueuesExact
  <2>2. /\ u \in UnitsIn(queue[w])
        /\ UnitsIn(Tail(queue[w])) = UnitsIn(queue[w]) \ {u}
    BY <2>1, TailOfChannel
  <2>3. \A v \in Workers : queue'[v] = IF v = w THEN Tail(queue[w]) ELSE queue[v]
    BY <1>1 DEF TypeOK, Receive
  <2>4. \A v \in Workers : \A i \in DOMAIN queue'[v] : queue'[v][i] # Shutdown
    <3>1. \A i \in DOMAIN Tail(queue[w]) :
            i + 1 \in DOMAIN queue[w] /\ Tail(queue[w])[i] = queue[w][i + 1]
      BY <2>1
    <3>2. \A i \in DOMAIN Tail(queue[w]) : Tail(queue[w])[i] # Shutdown
      BY <3>1 DEF Undisturbed
    <3> QED
      BY <2>3, <3>2 DEF Undisturbed
  <2>5. /\ Busy' = Busy \cup {w} /\ w \notin Busy
        /\ \A v \in Busy : cur'[v] = cur[v]
        /\ cur'[w].unit = u
    BY <1>1 DEF TypeOK, Receive, Busy
  <2> HIDE DEF u
  <2>6. QueuedUnits' = QueuedUnits \ {u} /\ u \in QueuedUnits
    BY <2>2, <2>3 DEF QueuedUnits, UnitsInv, QueuesExact
  <2>7. WorkingUnits' = WorkingUnits \cup {u}
    BY <2>5 DEF WorkingUnits
  <2>8. /\ UNCHANGED <<ReportedUnits, Discarded, callerVars>>
        /\ \A v \in Workers : wpc'[v] # "stopped"
    BY <1>1 DEF TypeOK, Receive, Undisturbed, ReportedUnits, Discarded
  <2> QED
    BY <2>4, <2>6, <2>7, <2>8 DEF Flight, Undisturbed, callerVars
<1>2. ~Stop(w)
  <2>1. queue[w] # <<>> => 1 \in DOMAIN queue[w] /\ Head(queue[w]) = queue[w][1]
    BY DEF TypeOK
  <2> QED
    BY <2>1 DEF Stop, Undisturbed
<1>3. CASE AcquireLocks(w) \/ FailToAcquire(w) \/ ReleaseLocks(w)
  <2>1. UNCHANGED <<queue, cur, completions, callerVars>> /\ Busy' = Busy
    BY <1>3 DEF TypeOK, AcquireLocks, FailToAcquire, ReleaseLocks, Busy
  <2>2. \A v \in Workers : wpc'[v] # "stopped"
    BY <1>3 DEF TypeOK, AcquireLocks, FailToAcquire, ReleaseLocks, Undisturbed
  <2>3. Discarded' = {}
    <3>1. fate \in [Units -> Fates]
      BY DEF TypeOK
    <3>2. \/ fate' = fate
          \/ fate' = [fate EXCEPT ![cur[w].unit] = "conflict"]
          \/ fate' = [fate EXCEPT ![cur[w].unit] = "ok"]
      BY <1>3 DEF AcquireLocks, FailToAcquire, ReleaseLocks
    <3> QED
      BY <3>1, <3>2 DEF Undisturbed, Discarded
  <2>4. UNCHANGED <<QueuedUnits, WorkingUnits, ReportedUnits>>
    BY <2>1 DEF QueuedUnits, WorkingUnits, ReportedUnits
  <2> QED
    BY <2>1, <2>2, <2>3, <2>4 DEF Undisturbed, Flight, callerVars
<1>4. CASE Report(w)
  <2> DEFINE r == [unit |-> cur[w].unit, worker |-> w, success |-> outcome[w]]
  <2>1. /\ w \in Busy /\ Busy' = Busy \ {w}
        /\ UNCHANGED <<cur, queue, fate, callerVars>>
        /\ \A v \in Workers : wpc'[v] # "stopped"
    BY <1>4 DEF TypeOK, Report, Busy, Undisturbed
  <2>2. WorkingUnits' = WorkingUnits \ {cur[w].unit} /\ cur[w].unit \in WorkingUnits
    BY <2>1 DEF WorkingUnits, UnitsInv, HandsExact
  <2>3. ReportedUnits' = ReportedUnits \cup {cur[w].unit}
    <3>1. cur[w] \in Items /\ completions \in Seq(Completion)
      BY <2>1 DEF TypeOK
    <3>2. r \in Completion /\ r.unit = cur[w].unit
      BY <3>1 DEF TypeOK, Completion, Items
    <3>3. completions' = Append(completions, r)
      BY <1>4 DEF Report, Undisturbed
    <3> HIDE DEF r
    <3>4. /\ DOMAIN completions' = DOMAIN completions \cup {Len(completions) + 1}
          /\ \A i \in DOMAIN completions : completions'[i] = completions[i]
          /\ completions'[Len(completions) + 1] = r
      BY <3>1, <3>2, <3>3
    <3> QED
      BY <3>2, <3>4 DEF ReportedUnits
  <2>4. UNCHANGED <<QueuedUnits, Discarded>>
    BY <2>1 DEF QueuedUnits, Discarded
  <2> QED
    BY <2>1, <2>2, <2>3, <2>4 DEF Undisturbed, Flight, callerVars
<1> QED
  BY <1>1, <1>2, <1>3, <1>4 DEF WorkerStep

\* send_work of a fresh unit puts it in flight.
LEMMA SendFlight ==
  ASSUME TypeOK, UnitsInv, Undisturbed, NEW c \in Callers, NEW w \in Workers,
         NEW item \in Items, SendWork(c, w, item), fate[item.unit] = "unsent"
  PROVE  /\ Undisturbed'
         /\ Flight' = Flight \cup {item.unit}
         /\ Cardinality(Flight') = Cardinality(Flight) + 1
         /\ cpc' = [cpc EXCEPT ![c] = "count"]
         /\ UNCHANGED <<pending, open, want, got, completions>>
<1> DEFINE u == item.unit
<1>1. /\ UNCHANGED <<wpc, cur, completions, pending, open, want, got>>
      /\ cpc' = [cpc EXCEPT ![c] = "count"]
      /\ fate' = [fate EXCEPT ![u] = "queued"]
      /\ item # Shutdown
  BY PoolAssumption DEF SendWork
<1>2. queue[w] \in Seq(Items \cup {Shutdown})
  BY DEF TypeOK
<1>3. \A v \in Workers : queue'[v] = IF v = w THEN Append(queue[w], item) ELSE queue[v]
  BY DEF TypeOK, SendWork
<1>4. UnitsIn(Append(queue[w], item)) = UnitsIn(queue[w]) \cup {u}
  BY <1>1, <1>2, AppendToChannel
<1>5. \A i \in DOMAIN Append(queue[w], item) : Append(queue[w], item)[i] # Shutdown
  BY <1>1, <1>2 DEF Undisturbed
<1> HIDE DEF u
<1>6. QueuedUnits' = QueuedUnits \cup {u}
  BY <1>3, <1>4 DEF QueuedUnits
<1>7. UNCHANGED <<WorkingUnits, ReportedUnits>>
  BY <1>1 DEF WorkingUnits, Busy, ReportedUnits
<1>8. Discarded' = {}
  BY <1>1 DEF TypeOK, Undisturbed, Discarded
<1>9. u \notin Flight
  BY DEF u, Flight, QueuedUnits, WorkingUnits, ReportedUnits, UnitsInv, QueuesExact,
         HandsExact, FateInHand, ReportsExact, Truth
<1>10. Undisturbed'
  BY <1>1, <1>3, <1>5, <1>8 DEF Undisturbed
<1>11. Flight' = Flight \cup {u}
  BY <1>6, <1>7 DEF Flight
<1>12. Cardinality(Flight') = Cardinality(Flight) + 1
  BY <1>9, <1>11, FlightCount, FS_AddElement
<1> QED
  BY <1>1, <1>10, <1>11, <1>12 DEF u

\* A caller takes a unit out of flight.
LEMMA TakeFlight ==
  ASSUME TypeOK, UnitsInv, Undisturbed, NEW c \in Callers,
         ReceiveCompletion(c) \/ Drain(c)
  PROVE  /\ Undisturbed'
         /\ Cardinality(Flight') = Cardinality(Flight) - 1
         /\ Len(got'[c]) = Len(got[c]) + 1
         /\ (Flight \cup GotUnits(c))' = Flight \cup GotUnits(c)
         /\ UNCHANGED <<pending, open, want, fate>>
<1> DEFINE r == Head(completions)
<1>1. UNCHANGED <<queue, wpc, cur, fate, pending, open, want>>
  BY DEF ReceiveCompletion, Drain, workerVars
<1>2. completions \in Seq(Completion) /\ completions # <<>> /\ got[c] \in Seq(Completion)
  BY DEF TypeOK, ReceiveCompletion, Drain
<1>3. completions' = Tail(completions) /\ got'[c] = Append(got[c], r)
  BY DEF TypeOK, ReceiveCompletion, Drain
<1>4. /\ r \in Completion
      /\ 1 \in DOMAIN completions /\ r = completions[1]
      /\ \A i \in DOMAIN completions :
           i # 1 => i - 1 \in DOMAIN completions' /\ completions'[i - 1] = completions[i]
      /\ \A i \in DOMAIN completions' :
           i + 1 \in DOMAIN completions /\ completions'[i] = completions[i + 1] /\ i + 1 # 1
  <2>1. /\ Len(completions) \in Nat \ {0} /\ DOMAIN completions = 1 .. Len(completions)
        /\ Len(completions') = Len(completions) - 1
        /\ DOMAIN completions' = 1 .. Len(completions) - 1
        /\ \A i \in 1 .. Len(completions) - 1 : completions'[i] = completions[i + 1]
        /\ r \in Completion /\ r = completions[1]
    BY <1>2, <1>3
  <2> HIDE DEF r
  <2>2. \A i \in 2 .. Len(completions) :
           i - 1 \in DOMAIN completions' /\ completions'[i - 1] = completions[i]
    BY <2>1
  <2>3. \A i \in DOMAIN completions' :
           i + 1 \in DOMAIN completions /\ completions'[i] = completions[i + 1] /\ i + 1 # 1
    BY <2>1
  <2> QED
    BY <2>1, <2>2, <2>3
<1> HIDE DEF r
<1>5. ReportedUnits' = ReportedUnits \ {r.unit} /\ r.unit \in ReportedUnits
  <2>1. r.unit \in ReportedUnits
    BY <1>4 DEF ReportedUnits
  <2>2. ReportedUnits' \subseteq ReportedUnits \ {r.unit}
    <3>1. ASSUME NEW i \in DOMAIN completions'
          PROVE  completions'[i].unit \in ReportedUnits \ {r.unit}
      BY <1>4 DEF ReportedUnits, UnitsInv, ReportsExact
    <3> QED
      BY <3>1 DEF ReportedUnits
  <2>3. ReportedUnits \ {r.unit} \subseteq ReportedUnits'
    BY <1>4 DEF ReportedUnits
  <2> QED
    BY <2>1, <2>2, <2>3
<1>6. UNCHANGED <<QueuedUnits, WorkingUnits, Discarded>>
  BY <1>1 DEF QueuedUnits, WorkingUnits, Busy, Discarded
<1>7. r.unit \notin QueuedUnits \cup WorkingUnits
  BY <1>4, <1>5 DEF UnitsInv, QueuesExact, ReportsExact, Truth, QueuedUnits,
                    WorkingUnits, ReportedUnits
<1>8. Flight' = Flight \ {r.unit} /\ r.unit \in Flight
  BY <1>5, <1>6, <1>7 DEF Flight
<1>9. Cardinality(Flight') = Cardinality(Flight) - 1
  BY <1>8, FlightCount, FS_RemoveElement
<1>10. Len(got'[c]) = Len(got[c]) + 1
  BY <1>2, <1>3, <1>4
<1>11. GotUnits(c)' = GotUnits(c) \cup {r.unit}
  <2>1. /\ DOMAIN got'[c] = DOMAIN got[c] \cup {Len(got[c]) + 1}
        /\ \A i \in DOMAIN got[c] : got'[c][i] = got[c][i]
        /\ got'[c][Len(got[c]) + 1] = r
    BY <1>2, <1>3, <1>4
  <2> QED
    BY <2>1 DEF GotUnits
<1>12. Undisturbed'
  BY <1>1, <1>6 DEF Undisturbed
<1> QED
  BY <1>1, <1>8, <1>9, <1>10, <1>11, <1>12

\* The other steps of a call leave the units where they are.
LEMMA FlightKept ==
  ASSUME UNCHANGED <<queue, wpc, cur, completions, fate, open>>
  PROVE  /\ Flight' = Flight
         /\ Undisturbed => Undisturbed'
         /\ QueuedUnits' = QueuedUnits
         /\ WorkingUnits' = WorkingUnits
BY DEF Flight, QueuedUnits, WorkingUnits, Busy, ReportedUnits, Undisturbed, Discarded

\* With nothing in flight a worker can only stop.
LEMMA NothingInFlight ==
  ASSUME TypeOK, Flight = {}, NEW w \in Workers, WorkerStep(w)
  PROVE  Flight' = {} /\ UNCHANGED <<fate, callerVars>>
<1>1. w \notin Busy
  BY DEF Flight, WorkingUnits
<1>2. ~Receive(w)
  <2>1. queue[w] # <<>> => 1 \in DOMAIN queue[w] /\ Head(queue[w]) = queue[w][1]
    BY DEF TypeOK
  <2>2. UnitsIn(queue[w]) = {}
    BY DEF Flight, QueuedUnits
  <2>3. Receive(w) => Head(queue[w]).unit \in UnitsIn(queue[w])
    BY <2>1 DEF Receive, UnitsIn
  <2> QED
    BY <2>2, <2>3
<1>3. Stop(w)
  BY <1>1, <1>2 DEF WorkerStep, AcquireLocks, FailToAcquire, ReleaseLocks, Report, Busy
<1>4. UnitsIn(<<>>) = {} /\ UnitsIn(queue[w]) = {}
  <2>1. UnitsIn(<<>>) = {}
    BY DEF UnitsIn
  <2> QED
    BY <2>1 DEF Flight, QueuedUnits
<1>5. fate' = fate
  BY <1>3, <1>4 DEF TypeOK, Stop
<1>6. \A v \in Workers : queue'[v] = IF v = w THEN <<>> ELSE queue[v]
  BY <1>3 DEF TypeOK, Stop
<1>7. QueuedUnits' = {}
  BY <1>4, <1>6 DEF Flight, QueuedUnits
<1>8. WorkingUnits' = {} /\ ReportedUnits' = {}
  <2>1. Busy' = Busy /\ cur' = cur /\ completions' = completions
    BY <1>3 DEF TypeOK, Stop, Busy
  <2> QED
    BY <2>1 DEF Flight, WorkingUnits, ReportedUnits
<1> QED
  BY <1>3, <1>5, <1>7, <1>8 DEF Flight, Stop

\* Whatever is not sent by this step and was unsent remains unsent.
LEMMA UnsentKept ==
  ASSUME TypeOK, UnitsInv, NEW u \in Units, fate[u] = "unsent",
         \/ \E w \in Workers : WorkerStep(w)
         \/ \E c \in Callers : CallerStep(c) \/ LoadPending(c) \/ BeginShutdown(c) \/ AbandonPool(c)
  PROVE  fate'[u] = "unsent"
<1>1. ASSUME NEW w \in Workers, Stop(w) PROVE fate'[u] = "unsent"
  <2>1. u \notin UnitsIn(queue[w])
    BY DEF UnitsInv, QueuesExact
  <2> QED
    BY <1>1, <2>1 DEF Stop
<1>2. ASSUME NEW w \in Workers, FailToAcquire(w) \/ ReleaseLocks(w)
      PROVE  fate'[u] = "unsent"
  <2>1. w \in Busy /\ wpc[w] # "report"
    BY <1>2 DEF FailToAcquire, ReleaseLocks, Busy
  <2>2. cur[w].unit # u
    BY <2>1 DEF UnitsInv, HandsExact, FateInHand
  <2>3. fate \in [Units -> Fates]
    BY DEF TypeOK
  <2> QED
    BY <1>2, <2>2, <2>3 DEF FailToAcquire, ReleaseLocks
<1>3. ASSUME NEW w \in Workers, Receive(w) \/ AcquireLocks(w) \/ Report(w)
      PROVE  fate'[u] = "unsent"
  BY <1>3 DEF Receive, AcquireLocks, Report
<1>4. ASSUME NEW c \in Callers,
             CallerStep(c) \/ LoadPending(c) \/ BeginShutdown(c) \/ AbandonPool(c)
      PROVE  fate'[u] = "unsent"
  BY <1>4 DEF CallerStep, CountPending, LoadPending, LockReceiver, ReceiveCompletion,
              SubtractPending, ReceiverClosed, Drain, DrainClosed, SendShutdowns,
              DropPool, BeginShutdown, AbandonPool
<1> QED
  BY <1>1, <1>2, <1>3, <1>4 DEF WorkerStep

\* A conflict is the last that happens to a unit.
LEMMA ConflictKept ==
  ASSUME TypeOK, UnitsInv, NEW u \in Units, fate[u] = "conflict",
         \/ \E w \in Workers : WorkerStep(w)
         \/ \E c \in Callers : CallerStep(c) \/ LoadPending(c) \/ BeginShutdown(c) \/ AbandonPool(c)
  PROVE  fate'[u] = "conflict"
<1>1. ASSUME NEW w \in Workers, Stop(w) PROVE fate'[u] = "conflict"
  <2>1. u \notin UnitsIn(queue[w])
    BY DEF UnitsInv, QueuesExact
  <2> QED
    BY <1>1, <2>1 DEF Stop
<1>2. ASSUME NEW w \in Workers, FailToAcquire(w) \/ ReleaseLocks(w)
      PROVE  fate'[u] = "conflict"
  <2>1. w \in Busy /\ wpc[w] # "report"
    BY <1>2 DEF FailToAcquire, ReleaseLocks, Busy
  <2>2. cur[w].unit # u
    BY <2>1 DEF UnitsInv, HandsExact, FateInHand
  <2>3. fate \in [Units -> Fates]
    BY DEF TypeOK
  <2> QED
    BY <1>2, <2>2, <2>3 DEF FailToAcquire, ReleaseLocks
<1>3. ASSUME NEW w \in Workers, Receive(w) \/ AcquireLocks(w) \/ Report(w)
      PROVE  fate'[u] = "conflict"
  BY <1>3 DEF Receive, AcquireLocks, Report
<1>4. ASSUME NEW c \in Callers,
             CallerStep(c) \/ LoadPending(c) \/ BeginShutdown(c) \/ AbandonPool(c)
      PROVE  fate'[u] = "conflict"
  BY <1>4 DEF CallerStep, CountPending, LoadPending, LockReceiver, ReceiveCompletion,
              SubtractPending, ReceiverClosed, Drain, DrainClosed, SendShutdowns,
              DropPool, BeginShutdown, AbandonPool
<1> QED
  BY <1>1, <1>2, <1>3, <1>4 DEF WorkerStep

-----------------------------------------------------------------------------
(* Where items come from *)

\* The items in the channels and in the workers' hands are all of set S.
ItemsIn(S) ==
  /\ \A w \in Workers : \A i \in DOMAIN queue[w] :
       queue[w][i] # Shutdown => queue[w][i] \in S
  /\ \A w \in Busy : cur[w] \in S

\* A new pool has no items.
LEMMA ItemsInit ==
  ASSUME PoolInit, NEW S
  PROVE  ItemsIn(S)
<1>1. Busy = {} /\ \A w \in Workers : queue[w] = <<>>
  BY DEF PoolInit, Busy
<1> QED
  BY <1>1 DEF ItemsIn

\* A worker takes an item from its channel and nowhere else.
LEMMA ItemsWorker ==
  ASSUME TypeOK, NEW S, ItemsIn(S), NEW w \in Workers, WorkerStep(w)
  PROVE  ItemsIn(S)'
<1>1. CASE Receive(w)
  <2>1. /\ queue[w] \in Seq(Items \cup {Shutdown}) /\ queue[w] # <<>>
        /\ Head(queue[w]) # Shutdown
    BY <1>1 DEF TypeOK, Receive
  <2>2. /\ 1 \in DOMAIN queue[w] /\ Head(queue[w]) = queue[w][1]
        /\ \A i \in DOMAIN Tail(queue[w]) :
             i + 1 \in DOMAIN queue[w] /\ Tail(queue[w])[i] = queue[w][i + 1]
    <3>1. PICK D : D = Items \cup {Shutdown}
      OBVIOUS
    <3>2. PICK q \in Seq(D) : q = queue[w] /\ q # <<>>
      BY <2>1, <3>1
    <3>3. 1 \in DOMAIN q /\ Head(q) = q[1]
      BY <3>2
    <3>4. \A i \in DOMAIN Tail(q) : i + 1 \in DOMAIN q /\ Tail(q)[i] = q[i + 1]
      BY <3>2
    <3> QED
      BY <3>2, <3>3, <3>4
  <2>3. \A v \in Workers : queue'[v] = IF v = w THEN Tail(queue[w]) ELSE queue[v]
    BY <1>1 DEF TypeOK, Receive
  <2>4. /\ Busy' = Busy \cup {w} /\ cur'[w] = Head(queue[w])
        /\ \A v \in Busy : v # w => cur'[v] = cur[v]
    BY <1>1 DEF TypeOK, Receive, Busy
  <2>5. Head(queue[w]) \in S
    BY <2>1, <2>2 DEF ItemsIn
  <2>6. \A v \in Busy' : cur'[v] \in S
    BY <2>4, <2>5 DEF ItemsIn
  <2>7. ASSUME NEW v \in Workers, NEW i \in DOMAIN queue'[v], queue'[v][i] # Shutdown
        PROVE  queue'[v][i] \in S
    <3>1. CASE v = w
      <4>1. queue'[v] = Tail(queue[w])
        BY <2>3, <3>1
      <4>2. i + 1 \in DOMAIN queue[w] /\ queue'[v][i] = queue[w][i + 1]
        BY <2>2, <2>7, <4>1
      <4> QED
        BY <2>7, <4>2 DEF ItemsIn
    <3>2. CASE v # w
      <4>1. queue'[v] = queue[v]
        BY <2>3, <3>2
      <4> QED
        BY <2>7, <4>1 DEF ItemsIn
    <3> QED
      BY <3>1, <3>2
  <2> QED
    BY <2>6, <2>7 DEF ItemsIn
<1>2. CASE Stop(w) \/ AcquireLocks(w) \/ FailToAcquire(w) \/ ReleaseLocks(w) \/ Report(w)
  <2>1. cur' = cur /\ Busy' \subseteq Busy
    BY <1>2 DEF TypeOK, Stop, AcquireLocks, FailToAcquire, ReleaseLocks, Report, Busy
  <2>2. \A v \in Workers : queue'[v] = queue[v] \/ queue'[v] = <<>>
    BY <1>2 DEF TypeOK, Stop, AcquireLocks, FailToAcquire, ReleaseLocks, Report
  <2> QED
    BY <2>1, <2>2 DEF ItemsIn
<1> QED
  BY <1>1, <1>2 DEF WorkerStep

\* send_work adds the one item that it is given.
LEMMA ItemsSend ==
  ASSUME TypeOK, NEW S \in SUBSET Items, ItemsIn(S),
         NEW c \in Callers, NEW w \in Workers, NEW item \in S, SendWork(c, w, item)
  PROVE  ItemsIn(S)'
<1>1. UNCHANGED <<wpc, cur>>
  BY DEF SendWork
<1>2. \A v \in Workers : /\ queue[v] \in Seq(Items \cup {Shutdown})
                         /\ queue'[v] = queue[v] \/ queue'[v] = Append(queue[v], item)
  BY DEF TypeOK, SendWork
<1>3. \A v \in Workers : \A i \in DOMAIN queue'[v] :
        (i \in DOMAIN queue[v] /\ queue'[v][i] = queue[v][i]) \/ queue'[v][i] = item
  <2>1. item \in Items \cup {Shutdown}
    OBVIOUS
  <2> QED
    BY <1>2, <2>1
<1> QED
  BY <1>1, <1>3 DEF ItemsIn, Busy

\* No other step of a caller sends an item.
LEMMA ItemsCaller ==
  ASSUME TypeOK, NEW S, ItemsIn(S), NEW c \in Callers,
         CallerStep(c) \/ LoadPending(c) \/ BeginShutdown(c) \/ AbandonPool(c)
  PROVE  ItemsIn(S)'
<1>1. ASSUME UNCHANGED <<queue, wpc, cur>> PROVE ItemsIn(S)'
  BY <1>1 DEF ItemsIn, Busy
<1>2. CASE SendShutdowns(c)
  <2>1. UNCHANGED <<wpc, cur>>
    BY <1>2 DEF SendShutdowns
  <2>2. \A v \in Workers : /\ queue[v] \in Seq(Items \cup {Shutdown})
                           /\ queue'[v] = queue[v] \/ queue'[v] = Append(queue[v], Shutdown)
    BY <1>2 DEF TypeOK, SendShutdowns
  <2>3. \A v \in Workers : \A i \in DOMAIN queue'[v] :
          (i \in DOMAIN queue[v] /\ queue'[v][i] = queue[v][i]) \/ queue'[v][i] = Shutdown
    BY <2>2
  <2> QED
    BY <2>1, <2>3 DEF ItemsIn, Busy
<1>3. CASE \/ CountPending(c) \/ LockReceiver(c) \/ ReceiveCompletion(c)
           \/ SubtractPending(c) \/ ReceiverClosed(c) \/ Drain(c) \/ DrainClosed(c)
           \/ DropPool(c) \/ LoadPending(c) \/ BeginShutdown(c) \/ AbandonPool(c)
  BY <1>1, <1>3 DEF CountPending, LockReceiver, ReceiveCompletion, SubtractPending,
     ReceiverClosed, Drain, DrainClosed, DropPool, LoadPending, BeginShutdown,
     AbandonPool, workerVars
<1> QED
  BY <1>2, <1>3 DEF CallerStep

-----------------------------------------------------------------------------
(* Positions in a sequence *)

\* A set of natural numbers has a least element.
LEMMA LeastOf ==
  ASSUME NEW S \in SUBSET Nat, S # {}
  PROVE  \E i \in S : \A j \in S : i <= j
<1>1. IsWellFoundedOn(OpToRel(<, Nat), Nat)
  BY NatLessThanWellFounded
<1>2. PICK i \in S : \A j \in S : <<j, i>> \notin OpToRel(<, Nat)
  BY <1>1, WFMin
<1>3. ASSUME NEW j \in S, j < i PROVE FALSE
  BY <1>2, <1>3 DEF OpToRel
<1> QED
  BY <1>3

\* A set of positions of a sequence has a last one.
LEMMA LastOf ==
  ASSUME NEW n \in Nat, NEW S \in SUBSET (1 .. n), S # {}
  PROVE  \E i \in S : \A j \in S : j <= i
<1> DEFINE T == {n - i : i \in S}
<1>1. T \in SUBSET Nat /\ T # {}
  <2>1. \A i \in S : i \in 1 .. n /\ n - i \in Nat
    OBVIOUS
  <2>2. T \subseteq Nat
    BY <2>1
  <2>3. \A i \in S : n - i \in T
    OBVIOUS
  <2> QED
    BY <2>2, <2>3
<1>2. PICK d \in T : \A e \in T : d <= e
  <2> HIDE DEF T
  <2> QED
    BY <1>1, LeastOf
<1>3. PICK i \in S : d = n - i
  OBVIOUS
<1>4. \A j \in S : n - i <= n - j
  BY <1>2, <1>3
<1> QED
  BY <1>4
=============================================================================
