------------------------- MODULE AsyncAccountLocks -------------------------
(***************************************************************************)
(* AsyncAccountLocks and AsyncAccountLockGuard (core/src/lock_guard.rs):   *)
(* the same tables, each behind a tokio RwLock that is awaited.  Between   *)
(* the two awaits of an operation other tasks run, a task can be cancelled *)
(* at either, and drop(), which cannot await, only tries the locks.        *)
(*                                                                         *)
(* A tokio RwLock grants requests in arrival order.  It is modelled by the *)
(* sequence of requests made and not yet given back: the first is granted, *)
(* and when it is a reader's so are the readers' requests right behind it. *)
(***************************************************************************)
EXTENDS LockTables, Sequences, FiniteSets

CONSTANTS
  Tasks,      \* each task has at most one guard
  Requests,   \* the [w, r] account sets a task may ask for
  MayDrop,    \* the tasks that may drop a guard without release()
  MayCancel,  \* the tasks whose futures may be dropped at an await
  MaxLeaks    \* bound: no new acquire once so many drops leaked reads

ASSUME RequestsAssumption ==
  /\ Requests \subseteq [w : SUBSET Accounts, r : SUBSET Accounts]
  /\ MayDrop \subseteq Tasks /\ MayCancel \subseteq Tasks
  /\ MaxLeaks \in Nat

ASSUME TasksFinite == IsFiniteSet(Tasks)

VARIABLES
  write_locked,  \* the HashSet of accounts
  read_locked,   \* the HashMap of account to count
  wLock,         \* the RwLock of write_locked: Seq([task, mode])
  rLock,         \* the RwLock of read_locked
  pc,            \* pc[t]: where task t is in an operation
  req,           \* req[t]: what its guard holds, or what it asks for
  leakedW,       \* history: write accounts a drop could not give back
  leakedR        \* history: the read sets drops could not give back, a Seq

vars == <<write_locked, read_locked, wLock, rLock, pc, req, leakedW, leakedR>>
tables == <<write_locked, read_locked, leakedW, leakedR>>

\* Where a task is.  "free": no guard.  "held": between operations, with a guard.
\* acq/rel/probe W, R: awaiting that lock in acquire, release, would_conflict.
\* dropW..: in Drop::drop, "try" before the try_write, "has" after it.
Init ==
  /\ write_locked = {}
  /\ read_locked = NoReaders
  /\ wLock = <<>>
  /\ rLock = <<>>
  /\ pc = [t \in Tasks |-> "free"]
  /\ req = [t \in Tasks |-> [w |-> {}, r |-> {}]]
  /\ leakedW = {}
  /\ leakedR = <<>>

-----------------------------------------------------------------------------
(* tokio::sync::RwLock *)

Entry(t, mode) == [task |-> t, mode |-> mode]

\* The request of task t has been granted.
Granted(lock, t) ==
  \E i \in DOMAIN lock :
    /\ lock[i].task = t
    /\ \/ i = 1
       \/ \A j \in 1 .. i : lock[j].mode = "read"

\* Give a lock back, or withdraw the request for it: a task has one at most.
Without(lock, t) ==
  IF \A i \in DOMAIN lock : lock[i].task # t THEN lock
  ELSE LET k == CHOOSE i \in DOMAIN lock : lock[i].task = t
       IN  [i \in 1 .. Len(lock) - 1 |-> lock[IF i < k THEN i ELSE i + 1]]

Goto(t, to) == pc' = [pc EXCEPT ![t] = to]

-----------------------------------------------------------------------------

\* acquire() and would_conflict() begin with the request for write_locked,
BeginAcquire(t, q) ==
  /\ pc[t] = "free"
  /\ Len(leakedR) < MaxLeaks
  /\ req' = [req EXCEPT ![t] = q]
  /\ wLock' = Append(wLock, Entry(t, "write"))
  /\ Goto(t, "acqW")
  /\ UNCHANGED <<rLock, tables>>

BeginProbe(t, q) ==
  /\ pc[t] = "free"
  /\ req' = [req EXCEPT ![t] = q]
  /\ wLock' = Append(wLock, Entry(t, "read"))
  /\ Goto(t, "probeW")
  /\ UNCHANGED <<rLock, tables>>

\* so does release() of a guard.
BeginRelease(t) ==
  /\ pc[t] = "held"
  /\ wLock' = Append(wLock, Entry(t, "write"))
  /\ Goto(t, "relW")
  /\ UNCHANGED <<rLock, req, tables>>

\* With write_locked granted, each asks for read_locked.
AwaitReadTable(t) ==
  /\ pc[t] \in {"acqW", "relW", "probeW"}
  /\ Granted(wLock, t)
  /\ rLock' = Append(rLock, Entry(t, IF pc[t] = "probeW" THEN "read" ELSE "write"))
  /\ Goto(t, CASE pc[t] = "acqW" -> "acqR" [] pc[t] = "relW" -> "relR"
               [] pc[t] = "probeW" -> "probeR")
  /\ UNCHANGED <<wLock, req, tables>>

\* Mutation of GiveBackBoth: read_locked stays locked.
GiveBackWriteTable(t) ==
  /\ wLock' = Without(wLock, t)
  /\ UNCHANGED rLock

GiveBackBoth(t) ==
  /\ wLock' = Without(wLock, t)
  /\ rLock' = Without(rLock, t)

would_conflict(t) == Conflicts(write_locked, read_locked, req[t].w, req[t].r)

\* With both granted, acquire() checks and takes the accounts,
FinishAcquire(t) ==
  /\ pc[t] = "acqR"
  /\ Granted(rLock, t)
  /\ ~would_conflict(t)
  /\ write_locked' = write_locked \cup req[t].w
  /\ read_locked' = AddReaders(read_locked, req[t].r)
  /\ GiveBackBoth(t)
  /\ Goto(t, "held")
  /\ UNCHANGED <<req, leakedW, leakedR>>

\* or fails and leaves the tables alone,
RefuseAcquire(t) ==
  /\ pc[t] = "acqR"
  /\ Granted(rLock, t)
  /\ would_conflict(t)
  /\ GiveBackBoth(t)
  /\ Goto(t, "free")
  /\ UNCHANGED <<req, tables>>

\* release() gives the accounts back,
FinishRelease(t) ==
  /\ pc[t] = "relR"
  /\ Granted(rLock, t)
  /\ write_locked' = write_locked \ req[t].w
  /\ read_locked' = DropReaders(read_locked, req[t].r)
  /\ GiveBackBoth(t)
  /\ Goto(t, "free")
  /\ UNCHANGED <<req, leakedW, leakedR>>

\* and would_conflict() answers.
FinishProbe(t) ==
  /\ pc[t] = "probeR"
  /\ Granted(rLock, t)
  /\ GiveBackBoth(t)
  /\ Goto(t, "free")
  /\ UNCHANGED <<req, tables>>

\* Mutations of Cancel: a request that was not granted stays in the queue; a
\* cancelled release() counts as done.
CancelGrantedOnly(t) ==
  /\ t \in MayCancel
  /\ pc[t] \in {"acqW", "acqR", "relW", "relR", "probeW", "probeR"}
  /\ wLock' = IF Granted(wLock, t) THEN Without(wLock, t) ELSE wLock
  /\ rLock' = IF Granted(rLock, t) THEN Without(rLock, t) ELSE rLock
  /\ Goto(t, IF pc[t] \in {"relW", "relR"} THEN "dropTryW" ELSE "free")
  /\ UNCHANGED <<req, tables>>

CancelLosingGuard(t) ==
  /\ t \in MayCancel
  /\ pc[t] \in {"acqW", "acqR", "relW", "relR", "probeW", "probeR"}
  /\ GiveBackBoth(t)
  /\ Goto(t, "free")
  /\ UNCHANGED <<req, tables>>

\* The future of an operation is dropped at an await: what it was granted and
\* what it asked for is given back.  release() owns the guard, so its Drop
\* follows; acquire() has no guard yet.
Cancel(t) ==
  /\ t \in MayCancel
  /\ pc[t] \in {"acqW", "acqR", "relW", "relR", "probeW", "probeR"}
  /\ GiveBackBoth(t)
  /\ Goto(t, IF pc[t] \in {"relW", "relR"} THEN "dropTryW" ELSE "free")
  /\ UNCHANGED <<req, tables>>

-----------------------------------------------------------------------------
(* Drop of a guard that was not released *)

BeginDrop(t) ==
  /\ t \in MayDrop
  /\ pc[t] = "held"
  /\ Goto(t, "dropTryW")
  /\ UNCHANGED <<wLock, rLock, req, tables>>

\* try_write on write_locked gets the lock only when nobody has it or waits,
TryWriteTable(t) ==
  /\ pc[t] = "dropTryW"
  /\ wLock = <<>>
  /\ wLock' = <<Entry(t, "write")>>
  /\ Goto(t, "dropHasW")
  /\ UNCHANGED <<rLock, req, tables>>

DropWrites(t) ==
  /\ pc[t] = "dropHasW"
  /\ write_locked' = write_locked \ req[t].w
  /\ wLock' = Without(wLock, t)
  /\ Goto(t, "dropTryR")
  /\ UNCHANGED <<read_locked, rLock, req, leakedW, leakedR>>

\* and otherwise a warning is printed and the write accounts stay locked.
MissWriteTable(t) ==
  /\ pc[t] = "dropTryW"
  /\ wLock # <<>>
  /\ leakedW' = leakedW \cup req[t].w
  /\ Goto(t, "dropTryR")
  /\ UNCHANGED <<write_locked, read_locked, leakedR, wLock, rLock, req>>

\* Likewise read_locked, whatever became of write_locked,
TryReadTable(t) ==
  /\ pc[t] = "dropTryR"
  /\ rLock = <<>>
  /\ rLock' = <<Entry(t, "write")>>
  /\ Goto(t, "dropHasR")
  /\ UNCHANGED <<wLock, req, tables>>

DropReads(t) ==
  /\ pc[t] = "dropHasR"
  /\ read_locked' = DropReaders(read_locked, req[t].r)
  /\ rLock' = Without(rLock, t)
  /\ Goto(t, "free")
  /\ UNCHANGED <<write_locked, wLock, req, leakedW, leakedR>>

\* without even a warning when it is missed.
MissReadTable(t) ==
  /\ pc[t] = "dropTryR"
  /\ rLock # <<>>
  /\ leakedR' = IF req[t].r = {} THEN leakedR ELSE Append(leakedR, req[t].r)
  /\ Goto(t, "free")
  /\ UNCHANGED <<write_locked, read_locked, leakedW, wLock, rLock, req>>

-----------------------------------------------------------------------------

\* The steps of a task that is in an operation.
Proceed(t) ==
  \/ AwaitReadTable(t)
  \/ FinishAcquire(t) \/ RefuseAcquire(t)
  \/ FinishRelease(t)
  \/ FinishProbe(t)
  \/ TryWriteTable(t) \/ MissWriteTable(t) \/ DropWrites(t)
  \/ TryReadTable(t) \/ MissReadTable(t) \/ DropReads(t)

Next ==
  \E t \in Tasks :
    \/ \E q \in Requests : BeginAcquire(t, q) \/ BeginProbe(t, q)
    \/ BeginRelease(t)
    \/ BeginDrop(t)
    \/ Cancel(t)
    \/ Proceed(t)

Spec == Init /\ [][Next]_vars

\* tokio polls a task whose lock is granted.
FairSpec == Spec /\ \A t \in Tasks : WF_vars(Proceed(t))

-----------------------------------------------------------------------------

\* The guards whose owner may still rely on the accounts,
Owned == {t \in Tasks : pc[t] = "held"}
\* and those that have not yet given back the writes, or the reads.
HasWrites == {t \in Tasks : pc[t] \in {"held", "relW", "relR", "dropTryW", "dropHasW"}}
HasReads  == HasWrites \cup {t \in Tasks : pc[t] \in {"dropTryR", "dropHasR"}}

LeaksOf(a) == {i \in DOMAIN leakedR : a \in leakedR[i]}

\* Both tables are the guards' accounts plus what failed drops left behind:
\* neither cancellation, nor a drop half way, nor a release after a leak
\* unlocks an account some guard still holds.
TablesExact ==
  /\ write_locked = (UNION {req[t].w : t \in HasWrites}) \cup leakedW
  /\ DOMAIN read_locked =
       (UNION {req[t].r : t \in HasReads}) \cup (UNION {leakedR[i] : i \in DOMAIN leakedR})
  /\ \A a \in DOMAIN read_locked :
       read_locked[a] =
         Cardinality({t \in HasReads : a \in req[t].r}) + Cardinality(LeaksOf(a))

\* Guards in use exclude each other as AccountLocking says, across the awaits,
\* the cancellations and the drops of all the others.
Locking == INSTANCE AccountLocking
  WITH Owners <- Tasks,
       writes <- [t \in Tasks |-> IF t \in Owned THEN req[t].w ELSE {}],
       reads  <- [t \in Tasks |-> IF t \in Owned THEN req[t].r ELSE {}]

LockingSpec == Locking!Spec

InOperation(t) == pc[t] \notin {"free", "held"}

Awaiting(t) == pc[t] \in {"acqW", "relW", "probeW", "acqR", "relR", "probeR"}

\* The lock that t awaits, or had to await last.
Awaited(t) == IF pc[t] \in {"acqR", "relR", "probeR"} THEN rLock ELSE wLock

\* In Drop::drop a task only tries, and can always go on.
Moves(t) == InOperation(t) /\ (Awaiting(t) => Granted(Awaited(t), t))

\* u asked before t for the lock that t awaits.
InTheWay(u, t) ==
  \E i, j \in DOMAIN Awaited(t) :
    i < j /\ Awaited(t)[i].task = u /\ Awaited(t)[j].task = t

\* The tasks do not wait in a circle, whoever is cancelled or dropped half way:
\* a task that waits has one in its way that can go on, or that itself waits
\* for one that can.
NoCircularWait ==
  \A t \in Tasks :
    InOperation(t) /\ ~Moves(t) =>
      \E u \in Tasks :
        /\ InTheWay(u, t)
        /\ Moves(u) \/ \E v \in Tasks : InTheWay(v, u) /\ Moves(v)

\* No operation waits for ever: the awaits of acquire, release and
\* would_conflict, in the same order everywhere, cannot block each other.
OperationsReturn ==
  \A t \in Tasks : InOperation(t) ~> ~InOperation(t)

\* The step that leaves accounts behind is not alone on the tables.
LeakMeetsOther ==
  <<leakedW, leakedR>>' # <<leakedW, leakedR>> =>
    \E t, u \in Tasks : t # u /\ {pc[t], pc[u]} \cap {"free", "held"} = {}

\* A drop leaves accounts locked only when it meets another operation on the
\* tables: a guard dropped while nobody acquires, releases, probes or drops
\* gives everything back, as release() always does.
QuietDropsRelease == [][LeakMeetsOther]_vars

\* "These guards automatically release locks on drop, preventing lock leaks
\* on panic or early return": with no guard alive, no account is locked.
DroppedGuardsRelease ==
  (\A t \in Tasks : pc[t] = "free") => write_locked = {} /\ DOMAIN read_locked = {}
=============================================================================
