----------------------------- MODULE LockTables -----------------------------
(***************************************************************************)
(* The two tables behind the account guards of core/src/lock_guard.rs, and *)
(* what the synchronous and the async guards do to them: a set of accounts *)
(* locked for writing, and a map that counts the readers of an account and *)
(* has no entry for an account nobody reads.                               *)
(***************************************************************************)
EXTENDS Integers

CONSTANTS Accounts  \* account keys

\* The HashMap of read counts: a function on the accounts that are read.
IsReadTable(rl) ==
  /\ DOMAIN rl \subseteq Accounts
  /\ rl \in [DOMAIN rl -> Nat \ {0}]

NoReaders == [a \in {} |-> 0]

\* The count of an account, 0 when the map has no entry.
Readers(rl, a) == IF a \in DOMAIN rl THEN rl[a] ELSE 0

\* Mutation of Conflicts: new reads are not checked.
ConflictsIgnoringReads(wl, rl, W, R) == W \cap (wl \cup DOMAIN rl) # {}

\* New writes conflict with writers and readers, new reads with writers.
Conflicts(wl, rl, W, R) ==
  \/ W \cap (wl \cup DOMAIN rl) # {}
  \/ R \cap wl # {}

\* entry(acc).or_insert(0) += 1 for each account of R.
AddReaders(rl, R) ==
  [a \in DOMAIN rl \cup R |-> Readers(rl, a) + (IF a \in R THEN 1 ELSE 0)]

\* Mutation of DropReaders: the entry goes whatever its count.
DropReadersAtOnce(rl, R) == [a \in DOMAIN rl \ R |-> rl[a]]

\* count -= 1 for each account of R that has an entry, removed at 0.
DropReaders(rl, R) ==
  [a \in {x \in DOMAIN rl : ~(x \in R /\ rl[x] = 1)} |->
     rl[a] - (IF a \in R THEN 1 ELSE 0)]
=============================================================================
