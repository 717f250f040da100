---------------------------- MODULE AccountLocks ----------------------------
(***************************************************************************)
(* AccountLocks and its RAII guard AccountLockGuard (core/src/             *)
(* lock_guard.rs).  Every operation takes write_locked and then            *)
(* read_locked and keeps both to its end, so each is one step.             *)
(***************************************************************************)
EXTENDS LockTables, FiniteSets

CONSTANTS Guards  \* the identities of guards that can be alive at one time

ASSUME GuardsFinite == IsFiniteSet(Guards)

VARIABLES
  write_locked,    \* HashSet of accounts
  read_locked,     \* HashMap of account to count
  live,            \* the guards that exist
  write_accounts,  \* write_accounts[g], {} for a guard that does not exist
  read_accounts    \* read_accounts[g], likewise

vars == <<write_locked, read_locked, live, write_accounts, read_accounts>>

Init ==
  /\ write_locked = {}
  /\ read_locked = NoReaders
  /\ live = {}
  /\ write_accounts = [g \in Guards |-> {}]
  /\ read_accounts = [g \in Guards |-> {}]

would_conflict(W, R) == Conflicts(write_locked, read_locked, W, R)

\* acquire succeeds: a guard for W and R comes to life.  (When it fails it
\* returns before it changes a table.)
Acquire(g, W, R) ==
  /\ g \notin live
  /\ ~would_conflict(W, R)
  /\ write_locked' = write_locked \cup W
  /\ read_locked' = AddReaders(read_locked, R)
  /\ live' = live \cup {g}
  /\ write_accounts' = [write_accounts EXCEPT ![g] = W]
  /\ read_accounts' = [read_accounts EXCEPT ![g] = R]

\* Drop of the guard.
Drop(g) ==
  /\ g \in live
  /\ write_locked' = write_locked \ write_accounts[g]
  /\ read_locked' = DropReaders(read_locked, read_accounts[g])
  /\ live' = live \ {g}
  /\ write_accounts' = [write_accounts EXCEPT ![g] = {}]
  /\ read_accounts' = [read_accounts EXCEPT ![g] = {}]

Next ==
  \E g \in Guards :
    \/ \E W, R \in SUBSET Accounts : Acquire(g, W, R)
    \/ Drop(g)

Spec == Init /\ [][Next]_vars

-----------------------------------------------------------------------------

ReadersOf(a) == {g \in live : a \in read_accounts[g]}

\* Every variable has its type; a guard that does not exist holds nothing.
TypeOK ==
  /\ write_locked \in SUBSET Accounts
  /\ IsReadTable(read_locked)
  /\ live \in SUBSET Guards
  /\ write_accounts \in [Guards -> SUBSET Accounts]
  /\ read_accounts \in [Guards -> SUBSET Accounts]
  /\ \A g \in Guards \ live : write_accounts[g] = {} /\ read_accounts[g] = {}

\* The tables hold exactly what the live guards hold: a dropped guard leaves
\* nothing behind ("preventing lock leaks"), and an account stays locked for
\* as long as one guard needs it.
TablesExact ==
  /\ write_locked = UNION {write_accounts[g] : g \in live}
  /\ DOMAIN read_locked = UNION {read_accounts[g] : g \in live}
  /\ \A a \in DOMAIN read_locked : read_locked[a] = Cardinality(ReadersOf(a))

Locking == INSTANCE AccountLocking
  WITH Owners <- Guards, writes <- write_accounts, reads <- read_accounts

\* would_conflict answers for the guards, not just for the tables: it is true
\* exactly when some live guard cannot stand beside the request.
ProbeExact ==
  \A W, R \in SUBSET Accounts :
    would_conflict(W, R) <=>
      \E g \in live : ~Locking!Compatible(W, R, write_accounts[g], read_accounts[g])

\* The guards implement AccountLocking: writers exclude everybody, readers
\* share, and a guard gives back everything at once.
LockingSpec == Locking!Spec
=============================================================================
