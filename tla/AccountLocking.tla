--------------------------- MODULE AccountLocking ---------------------------
(***************************************************************************)
(* What every account-locking component of the engine promises, whatever   *)
(* tables it keeps: an owner takes all the accounts it asks for in one     *)
(* step or none of them, a written account belongs to that owner alone,    *)
(* read accounts may be shared, and an owner gives back all it holds in    *)
(* one step.  AccountLocks (the guards of core/src/lock_guard.rs) and      *)
(* AsyncWorkerPool (the lock set of engine/src/async_worker.rs) are both   *)
(* shown to implement it.                                                  *)
(***************************************************************************)
CONSTANTS Owners,    \* the guards or workers that lock accounts
          Accounts   \* the account keys

VARIABLES writes,    \* writes[o]: the accounts owner o holds exclusively
          reads      \* reads[o]: the accounts owner o holds shared

vars == <<writes, reads>>

\* A request for W (exclusive) and R (shared) can stand beside an owner that
\* holds w and r: nobody else touches a written account.
Compatible(W, R, w, r) ==
  /\ W \cap (w \cup r) = {}
  /\ R \cap w = {}

Init ==
  /\ writes = [o \in Owners |-> {}]
  /\ reads  = [o \in Owners |-> {}]

Acquire(o, W, R) ==
  /\ writes[o] = {}
  /\ reads[o] = {}
  /\ \A p \in Owners \ {o} : Compatible(W, R, writes[p], reads[p])
  /\ writes' = [writes EXCEPT ![o] = W]
  /\ reads'  = [reads EXCEPT ![o] = R]

Release(o) ==
  /\ writes' = [writes EXCEPT ![o] = {}]
  /\ reads'  = [reads EXCEPT ![o] = {}]

Next ==
  \E o \in Owners :
    \/ \E W, R \in SUBSET Accounts : Acquire(o, W, R)
    \/ Release(o)

Spec == Init /\ [][Next]_vars

-----------------------------------------------------------------------------

\* Two different owners never hold the same account unless both only read it.
Exclusion ==
  \A o, p \in Owners :
    o # p => Compatible(writes[o], reads[o], writes[p], reads[p])
=============================================================================
