----------------------------- MODULE SyncWorker -----------------------------
(***************************************************************************)
(* WorkerPool and Worker (engine/src/worker.rs), the synchronous pool:     *)
(* threads call execute_transaction and execute_bundle on its workers,     *)
(* which share one set of locked accounts behind a RwLock.  A worker keeps *)
(* nothing of its own, so a call is known by its thread.                   *)
(***************************************************************************)
CONSTANTS
  Threads,  \* the threads that call the workers
  Accounts  \* account keys

VARIABLES
  locked_accounts,  \* the shared set
  executing,        \* executing[t]: the accounts of the unit t is executing
  in_call           \* the threads inside a call that has its locks

vars == <<locked_accounts, executing, in_call>>

Init ==
  /\ locked_accounts = {}
  /\ executing = [t \in Threads |-> {}]
  /\ in_call = {}

\* Mutation of acquire_locks: a unit is refused only when all its accounts are
\* taken.
AcquireSomeLocks(t, accounts) ==
  /\ t \notin in_call
  /\ accounts = {} \/ ~(accounts \subseteq locked_accounts)
  /\ locked_accounts' = locked_accounts \cup accounts
  /\ executing' = [executing EXCEPT ![t] = accounts]
  /\ in_call' = in_call \cup {t}

\* The start of execute_transaction or execute_bundle: the accounts of the
\* whole unit under one write lock.  If one is taken the call returns
\* LockAcquisitionFailed and has changed nothing.
acquire_locks(t, accounts) ==
  /\ t \notin in_call
  /\ accounts \cap locked_accounts = {}
  /\ locked_accounts' = locked_accounts \cup accounts
  /\ executing' = [executing EXCEPT ![t] = accounts]
  /\ in_call' = in_call \cup {t}

\* The end of the call.  The execution between the two cannot fail, nor can a
\* transaction of a bundle end it early.
release_locks(t) ==
  /\ t \in in_call
  /\ locked_accounts' = locked_accounts \ executing[t]
  /\ executing' = [executing EXCEPT ![t] = {}]
  /\ in_call' = in_call \ {t}

Next ==
  \E t \in Threads :
    \/ \E accounts \in SUBSET Accounts : acquire_locks(t, accounts)
    \/ release_locks(t)

-----------------------------------------------------------------------------

Locking == INSTANCE AccountLocking
  WITH Owners <- Threads, writes <- executing, reads <- [t \in Threads |-> {}]

\* The synchronous workers implement AccountLocking, too: one shared set, from
\* which every call removes its own accounts, keeps the units that execute at
\* the same time apart.
LockingSpec == Locking!Spec
=============================================================================
