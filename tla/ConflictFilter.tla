--------------------------- MODULE ConflictFilter ---------------------------
(***************************************************************************)
(* The conflict tests on the items of an external scheduler (core/src/     *)
(* external_scheduler/messages.rs): a bloom filter of the accounts of an   *)
(* item, compared first, and the exact account sets, compared when the     *)
(* filters overlap.  They stand beside the guards of AccountLocks: an item *)
(* here asks for accounts as a guard does.                                 *)
(***************************************************************************)
EXTENDS AccountLocks

CONSTANTS
  Seeds,  \* 0..2: an account is hashed with each of them
  Words,  \* 0..BLOOM_FILTER_SIZE-1: the words of a filter
  Bits,   \* 0..63: the bits of a word
  Hashes  \* what DefaultHasher may be: functions from account and seed to a place

ASSUME FilterAssumption ==
  /\ Seeds # {}
  /\ Hashes \subseteq [Accounts \X Seeds -> Words \X Bits]

VARIABLE hash  \* the hash function of the process

filterVars == <<vars, hash>>

\* Mutation of compute_bloom_filter: each word keeps the last bit only, as with
\* "=" in place of "|=".
BloomOfLast(h, accounts) ==
  [word \in Words |->
     LET bits == {b \in Bits : \E a \in accounts, s \in Seeds : h[<<a, s>>] = <<word, b>>}
     IN  {b \in bits : \A c \in bits : c <= b}]

\* The bits of each word that some account sets.
compute_bloom_filter(h, accounts) ==
  [word \in Words |-> {b \in Bits : \E a \in accounts, s \in Seeds : h[<<a, s>>] = <<word, b>>}]

blooms_might_conflict(x, y) == \E word \in Words : x[word] \cap y[word] # {}

\* A transaction or a bundle with its filter, over all its accounts
\* (SchedulableItem::from_transaction, from_bundle), and its account sets.
Item(h, W, R) ==
  [account_bloom |-> compute_bloom_filter(h, W \cup R), write |-> W, read |-> R]

accounts_conflict_hybrid_rw(x, y) ==
  /\ blooms_might_conflict(x.account_bloom, y.account_bloom)
  /\ \/ x.write \cap y.write # {}
     \/ x.write \cap y.read # {}
     \/ x.read \cap y.write # {}

\* Without telling reads from writes.
accounts_conflict_hybrid(x, y) ==
  /\ blooms_might_conflict(x.account_bloom, y.account_bloom)
  /\ (x.write \cup x.read) \cap (y.write \cup y.read) # {}

FilterInit == Init /\ hash \in Hashes

FilterSpec == FilterInit /\ [][Next /\ UNCHANGED hash]_filterVars

-----------------------------------------------------------------------------

\* The item of a live guard.
Held(g) == Item(hash, write_accounts[g], read_accounts[g])

\* "100% accuracy of exact checks": whatever the hash function does, an item
\* conflicts with the item of some live guard exactly when the guards' own
\* probe refuses it; no filter hides a conflict, and none invents one.  Without
\* reads and writes the test is exact for shared accounts.
FilterExact ==
  \A W, R \in SUBSET Accounts :
    /\ (\E g \in live : accounts_conflict_hybrid_rw(Item(hash, W, R), Held(g)))
         <=> would_conflict(W, R)
    /\ \A g \in live :
         accounts_conflict_hybrid(Item(hash, W, R), Held(g)) <=>
           (W \cup R) \cap (write_accounts[g] \cup read_accounts[g]) # {}
=============================================================================
