---------------------------- MODULE Library_proof ----------------------------
(***************************************************************************)
(* The components of Library, for any constants: the guards of             *)
(* AccountLocks keep exact tables and implement AccountLocking, the        *)
(* conflict tests on items agree with them, the synchronous workers        *)
(* implement AccountLocking, submissions and clears of the block engine    *)
(* lose nothing they should not, its winners are the best, and item ids    *)
(* tell their kind and place.                                              *)
(***************************************************************************)
EXTENDS Library, FiniteSetTheorems, WellFoundedInduction, TLAPS

(* The read table: what its updates do to the count of every account, with *)
(* or without an entry in the map                                          *)

\* An account has an entry exactly when its count is not 0.
LEMMA EntryIffRead ==
  ASSUME NEW rl, IsReadTable(rl), NEW a
  PROVE  /\ Readers(rl, a) \in Nat
         /\ a \in DOMAIN rl <=> Readers(rl, a) # 0
BY DEF IsReadTable, Readers

\* Acquiring counts one reader more for each account of R and for no other.
LEMMA AddReadersCounts ==
  ASSUME NEW rl, IsReadTable(rl), NEW R \in SUBSET Accounts
  PROVE  /\ IsReadTable(AddReaders(rl, R))
         /\ \A a : Readers(AddReaders(rl, R), a)
                     = Readers(rl, a) + (IF a \in R THEN 1 ELSE 0)
<1> DEFINE new == AddReaders(rl, R)
<1>1. DOMAIN new = DOMAIN rl \cup R
  BY DEF AddReaders
<1>2. \A a \in DOMAIN new : new[a] = Readers(rl, a) + (IF a \in R THEN 1 ELSE 0)
  BY DEF AddReaders
<1>3. \A a \in DOMAIN new : new[a] \in Nat \ {0}
  BY <1>1, <1>2, EntryIffRead
<1>4. IsReadTable(new)
  <2>1. new \in [DOMAIN new -> Nat \ {0}]
    BY <1>3 DEF AddReaders
  <2>2. QED
    BY <1>1, <2>1 DEF IsReadTable
<1>5. ASSUME NEW a
      PROVE  Readers(new, a) = Readers(rl, a) + (IF a \in R THEN 1 ELSE 0)
  <2>1. CASE a \in DOMAIN new
    BY <2>1, <1>2 DEF Readers
  <2>2. CASE a \notin DOMAIN new
    BY <2>2, <1>1 DEF Readers
  <2>3. QED
    BY <2>1, <2>2
<1>6. QED
  BY <1>4, <1>5

\* Dropping counts one reader less for each account of R that is read at all,
\* and the entry goes when the count reaches 0.
LEMMA DropReadersCounts ==
  ASSUME NEW rl, IsReadTable(rl), NEW R \in SUBSET Accounts
  PROVE  /\ IsReadTable(DropReaders(rl, R))
         /\ \A a : Readers(DropReaders(rl, R), a)
                     = IF a \in R /\ Readers(rl, a) # 0 THEN Readers(rl, a) - 1
                       ELSE Readers(rl, a)
<1> DEFINE new == DropReaders(rl, R)
<1>1. DOMAIN new = {x \in DOMAIN rl : ~(x \in R /\ rl[x] = 1)}
  BY DEF DropReaders
<1>2. \A a \in DOMAIN new : new[a] = rl[a] - (IF a \in R THEN 1 ELSE 0)
  BY DEF DropReaders
<1>3. \A a \in DOMAIN rl : rl[a] \in Nat \ {0}
  BY DEF IsReadTable
<1>4. \A a \in DOMAIN new : new[a] \in Nat \ {0}
  BY <1>1, <1>2, <1>3
<1>5. IsReadTable(new)
  <2>1. new \in [DOMAIN new -> Nat \ {0}]
    BY <1>4 DEF DropReaders
  <2>2. QED
    BY <1>1, <2>1 DEF IsReadTable
<1>6. ASSUME NEW a
      PROVE  Readers(new, a) = IF a \in R /\ Readers(rl, a) # 0
                               THEN Readers(rl, a) - 1 ELSE Readers(rl, a)
  <2>1. CASE a \in DOMAIN new
    BY <2>1, <1>1, <1>2, <1>3 DEF Readers
  <2>2. CASE a \notin DOMAIN new
    BY <2>2, <1>1, <1>3 DEF Readers
  <2>3. QED
    BY <2>1, <2>2
<1>7. QED
  BY <1>5, <1>6

-----------------------------------------------------------------------------
(* AccountLocks *)

\* The table counts of every account, the ones without an entry included.
CountsExact == \A a \in Accounts : Readers(read_locked, a) = Cardinality(ReadersOf(a))

\* Exactness is not inductive alone: dropping a guard takes its write accounts
\* out of the table, which leaves the others exact only if no other live guard
\* holds them, and that the guards exclude each other rests on the tables.
IInv ==
  /\ TypeOK
  /\ write_locked = UNION {write_accounts[g] : g \in live}
  /\ CountsExact
  /\ Locking!Exclusion

\* The readers of an account are finitely many.
LEMMA ReadersFinite ==
  ASSUME NEW a PROVE IsFiniteSet(ReadersOf(a)) \/ ~(live \subseteq Guards)
<1>1. ReadersOf(a) \subseteq live
  BY DEF ReadersOf
<1>2. QED
  BY <1>1, GuardsFinite, FS_Subset

\* The tables are empty and no guard is held.
LEMMA InitInv == Init => IInv
<1> SUFFICES ASSUME Init PROVE IInv
  OBVIOUS
<1> USE DEF Init
<1>1. TypeOK
  BY DEF TypeOK, IsReadTable, NoReaders
<1>2. CountsExact
  <2> SUFFICES ASSUME NEW a \in Accounts
               PROVE  Readers(read_locked, a) = Cardinality(ReadersOf(a))
    BY DEF CountsExact
  <2>1. ReadersOf(a) = {}
    BY DEF ReadersOf
  <2>2. Readers(read_locked, a) = 0
    BY DEF Readers, NoReaders
  <2>3. QED
    BY <2>1, <2>2, FS_EmptySet
<1>3. Locking!Exclusion
  BY DEF Locking!Exclusion, Locking!Compatible
<1>4. QED
  BY <1>1, <1>2, <1>3 DEF IInv

\* The exact tables say for every account who writes and who reads it.
LEMMA TablesSpeak ==
  ASSUME IInv, NEW a \in Accounts
  PROVE  /\ a \in write_locked <=> \E g \in live : a \in write_accounts[g]
         /\ a \in DOMAIN read_locked <=> \E g \in live : a \in read_accounts[g]
<1>1. a \in DOMAIN read_locked <=> Cardinality(ReadersOf(a)) # 0
  BY EntryIffRead DEF IInv, TypeOK, CountsExact
<1>2. IsFiniteSet(ReadersOf(a))
  BY ReadersFinite DEF IInv, TypeOK
<1>3. a \in DOMAIN read_locked <=> ReadersOf(a) # {}
  BY <1>1, <1>2, FS_EmptySet
<1>4. QED
  BY <1>3 DEF IInv, ReadersOf

\* would_conflict speaks of the live guards.
LEMMA ProbeSpeaks ==
  ASSUME IInv, NEW W \in SUBSET Accounts, NEW R \in SUBSET Accounts
  PROVE  would_conflict(W, R) <=>
           \E g \in live : ~Locking!Compatible(W, R, write_accounts[g], read_accounts[g])
<1>1. would_conflict(W, R) <=>
        \/ \E a \in W : a \in write_locked \/ a \in DOMAIN read_locked
        \/ \E a \in R : a \in write_locked
  BY DEF would_conflict, Conflicts
<1>2. \A a \in W \cup R : a \in Accounts
  OBVIOUS
<1>3. would_conflict(W, R) <=>
        \E g \in live : \/ \E a \in W : a \in write_accounts[g] \/ a \in read_accounts[g]
                        \/ \E a \in R : a \in write_accounts[g]
  BY <1>1, <1>2, TablesSpeak
<1>4. QED
  BY <1>3 DEF Locking!Compatible

\* acquire keeps the invariant.
LEMMA AcquireInv ==
  ASSUME IInv, NEW g \in Guards, NEW W \in SUBSET Accounts, NEW R \in SUBSET Accounts,
         Acquire(g, W, R)
  PROVE  IInv'
<1> USE DEF Acquire
<1>1. TypeOK'
  BY AddReadersCounts DEF IInv, TypeOK
<1>2. \A h \in live : write_accounts'[h] = write_accounts[h] /\ read_accounts'[h] = read_accounts[h]
  BY DEF IInv, TypeOK
<1>3. write_accounts'[g] = W /\ read_accounts'[g] = R
  BY DEF IInv, TypeOK
<1>4. (write_locked = UNION {write_accounts[h] : h \in live})'
  BY <1>2, <1>3 DEF IInv
<1>5. CountsExact'
  <2> SUFFICES ASSUME NEW a \in Accounts
               PROVE  Readers(read_locked', a) = Cardinality(ReadersOf(a)')
    BY DEF CountsExact
  <2>1. Readers(read_locked', a) = Readers(read_locked, a) + (IF a \in R THEN 1 ELSE 0)
    BY AddReadersCounts DEF IInv, TypeOK
  <2>2. ReadersOf(a)' = IF a \in R THEN ReadersOf(a) \cup {g} ELSE ReadersOf(a)
    BY <1>2, <1>3 DEF ReadersOf
  <2>3. IsFiniteSet(ReadersOf(a)) /\ g \notin ReadersOf(a)
    BY ReadersFinite DEF IInv, TypeOK, ReadersOf
  <2>4. Cardinality(ReadersOf(a) \cup {g}) = Cardinality(ReadersOf(a)) + 1
    BY <2>3, FS_AddElement
  <2>5. Readers(read_locked, a) = Cardinality(ReadersOf(a)) /\ Readers(read_locked, a) \in Nat
    BY EntryIffRead DEF IInv, TypeOK, CountsExact
  <2>6. QED
    BY <2>1, <2>2, <2>4, <2>5
<1>6. Locking!Exclusion'
  <2>1. \A h \in live : Locking!Compatible(W, R, write_accounts[h], read_accounts[h])
    BY ProbeSpeaks
  <2>2. \A h \in Guards \ live : write_accounts[h] = {} /\ read_accounts[h] = {}
    BY DEF IInv, TypeOK
  <2>3. \A h \in Guards \ {g} : write_accounts'[h] = write_accounts[h]
                             /\ read_accounts'[h] = read_accounts[h]
    BY DEF IInv, TypeOK
  <2>4. QED
    BY <1>3, <2>1, <2>2, <2>3 DEF IInv, Locking!Exclusion, Locking!Compatible
<1>7. QED
  BY <1>1, <1>4, <1>5, <1>6 DEF IInv

\* Dropping a guard keeps the invariant.
LEMMA DropInv ==
  ASSUME IInv, NEW g \in Guards, Drop(g)
  PROVE  IInv'
<1> USE DEF Drop
<1> DEFINE R == read_accounts[g]
<1>0. R \in SUBSET Accounts
  BY DEF IInv, TypeOK
<1>1. TypeOK'
  BY <1>0, DropReadersCounts DEF IInv, TypeOK
<1>2. \A h \in Guards \ {g} : write_accounts'[h] = write_accounts[h]
                           /\ read_accounts'[h] = read_accounts[h]
  BY DEF IInv, TypeOK
<1>3. write_accounts'[g] = {} /\ read_accounts'[g] = {}
  BY DEF IInv, TypeOK
<1>4. live \subseteq Guards
  BY DEF IInv, TypeOK
<1>5. (write_locked = UNION {write_accounts[h] : h \in live})'
  <2>1. \A h \in live \ {g} : write_accounts[h] \cap write_accounts[g] = {}
    BY <1>4 DEF IInv, Locking!Exclusion, Locking!Compatible
  <2>2. write_locked \ write_accounts[g] = UNION {write_accounts[h] : h \in live \ {g}}
    BY <2>1 DEF IInv
  <2>3. QED
    BY <1>2, <1>4, <2>2
<1>6. CountsExact'
  <2> SUFFICES ASSUME NEW a \in Accounts
               PROVE  Readers(read_locked', a) = Cardinality(ReadersOf(a)')
    BY DEF CountsExact
  <2>1. Readers(read_locked', a) = IF a \in R /\ Readers(read_locked, a) # 0
                                   THEN Readers(read_locked, a) - 1
                                   ELSE Readers(read_locked, a)
    BY <1>0, DropReadersCounts DEF IInv, TypeOK
  <2>2. ReadersOf(a)' = ReadersOf(a) \ {g}
    BY <1>2, <1>4 DEF ReadersOf
  <2>3. IsFiniteSet(ReadersOf(a)) /\ (g \in ReadersOf(a) <=> a \in R)
    BY ReadersFinite DEF IInv, TypeOK, ReadersOf
  <2>4. Readers(read_locked, a) = Cardinality(ReadersOf(a))
    BY DEF IInv, CountsExact
  <2>5. CASE a \in R
    <3>1. Cardinality(ReadersOf(a) \ {g}) = Cardinality(ReadersOf(a)) - 1
      BY <2>3, <2>5, FS_RemoveElement
    <3>2. Cardinality(ReadersOf(a)) # 0
      BY <2>3, <2>5, FS_EmptySet
    <3>3. QED
      BY <2>1, <2>2, <2>4, <2>5, <3>1, <3>2
  <2>6. CASE a \notin R
    <3>1. ReadersOf(a) \ {g} = ReadersOf(a)
      BY <2>3, <2>6
    <3>2. QED
      BY <2>1, <2>2, <2>4, <2>6, <3>1
  <2>7. QED
    BY <2>5, <2>6
<1>7. Locking!Exclusion'
  BY <1>2, <1>3 DEF IInv, Locking!Exclusion, Locking!Compatible
<1>8. QED
  BY <1>1, <1>5, <1>6, <1>7 DEF IInv

\* Every acquire and drop keeps the invariant.
LEMMA StepInv == IInv /\ [Next]_vars => IInv'
<1>1. ASSUME IInv, Next PROVE IInv'
  BY <1>1, AcquireInv, DropInv DEF Next
<1>2. ASSUME IInv, UNCHANGED vars PROVE IInv'
  BY <1>2 DEF vars, IInv, TypeOK, CountsExact, ReadersOf, Locking!Exclusion
<1>3. QED
  BY <1>1, <1>2

\* The inductive invariant of the synchronous guards: exact tables and
\* guards that exclude each other (acquire and Drop of AccountLocks).
THEOREM LocksInvariant == Spec => []IInv
BY InitInv, StepInv, PTL DEF Spec

\* Type correctness.
THEOREM LocksTypeOK == Spec => []TypeOK
<1>1. IInv => TypeOK
  BY DEF IInv
<1>2. QED
  BY LocksInvariant, <1>1, PTL

\* The tables hold what the live guards hold: no dropped guard leaves an
\* account locked, and no drop unlocks an account another guard still reads.
THEOREM TablesAreExact == Spec => []TablesExact
<1>1. ASSUME IInv PROVE TablesExact
  <2>1. DOMAIN read_locked = UNION {read_accounts[g] : g \in live}
    <3>1. DOMAIN read_locked \subseteq Accounts
      BY <1>1 DEF IInv, TypeOK, IsReadTable
    <3>2. \A g \in live : read_accounts[g] \subseteq Accounts
      BY <1>1 DEF IInv, TypeOK
    <3>3. \A a : a \in DOMAIN read_locked => \E g \in live : a \in read_accounts[g]
      BY <1>1, <3>1, TablesSpeak
    <3>4. \A g \in live : \A a \in read_accounts[g] : a \in DOMAIN read_locked
      BY <1>1, <3>2, TablesSpeak
    <3>5. QED
      BY <3>3, <3>4
  <2>2. \A a \in DOMAIN read_locked : read_locked[a] = Cardinality(ReadersOf(a))
    BY <1>1 DEF IInv, TypeOK, IsReadTable, CountsExact, Readers
  <2>3. QED
    BY <1>1, <2>1, <2>2 DEF IInv, TablesExact
<1>2. QED
  BY LocksInvariant, <1>1, PTL

\* would_conflict is true exactly when a live guard is in the way.
THEOREM ProbeIsExact == Spec => []ProbeExact
<1>1. IInv => ProbeExact
  BY ProbeSpeaks DEF ProbeExact
<1>2. QED
  BY LocksInvariant, <1>1, PTL

\* The guards implement AccountLocking.
THEOREM LocksImplementLocking == Spec => LockingSpec
<1>1. Init => Locking!Init
  BY DEF Init, Locking!Init
<1>2. ASSUME IInv, [Next]_vars PROVE [Locking!Next]_(Locking!vars)
  <2>1. ASSUME NEW g \in Guards, NEW W \in SUBSET Accounts, NEW R \in SUBSET Accounts,
               Acquire(g, W, R)
        PROVE  Locking!Acquire(g, W, R)
    <3>1. \A h \in live : Locking!Compatible(W, R, write_accounts[h], read_accounts[h])
      BY <1>2, <2>1, ProbeSpeaks DEF Acquire
    <3>2. \A h \in Guards \ live : write_accounts[h] = {} /\ read_accounts[h] = {}
      BY <1>2 DEF IInv, TypeOK
    <3>3. QED
      BY <2>1, <3>1, <3>2 DEF Acquire, Locking!Acquire, Locking!Compatible
  <2>2. ASSUME NEW g \in Guards, Drop(g) PROVE Locking!Release(g)
    BY <2>2 DEF Drop, Locking!Release
  <2>3. CASE UNCHANGED vars
    BY <2>3 DEF vars, Locking!vars
  <2>4. QED
    BY <1>2, <2>1, <2>2, <2>3 DEF Next, Locking!Next
<1>3. QED
  BY LocksInvariant, <1>1, <1>2, PTL DEF Spec, Locking!Spec, LockingSpec

-----------------------------------------------------------------------------
(* ConflictFilter: exact for every hash function, every size of the filter *)
(* and any number of guards                                                *)

\* A common account sets the same bit in both filters.
LEMMA SharedBit ==
  ASSUME NEW h \in Hashes, NEW A \in SUBSET Accounts, NEW B \in SUBSET Accounts,
         A \cap B # {}
  PROVE  blooms_might_conflict(compute_bloom_filter(h, A), compute_bloom_filter(h, B))
<1>1. PICK acc \in Accounts : acc \in A /\ acc \in B
  OBVIOUS
<1>2. PICK seed \in Seeds : TRUE
  BY FilterAssumption
<1>3. h[<<acc, seed>>] \in Words \X Bits
  BY FilterAssumption
<1>4. PICK word \in Words, bit \in Bits : h[<<acc, seed>>] = <<word, bit>>
  BY <1>3
<1>5. /\ bit \in compute_bloom_filter(h, A)[word]
      /\ bit \in compute_bloom_filter(h, B)[word]
  BY <1>1, <1>2, <1>4 DEF compute_bloom_filter
<1> QED
  BY <1>5 DEF blooms_might_conflict

\* The filter never hides a conflict of writes and reads, and the exact test
\* decides the rest.
LEMMA HybridRwExact ==
  ASSUME NEW h \in Hashes,
         NEW W \in SUBSET Accounts, NEW R \in SUBSET Accounts,
         NEW V \in SUBSET Accounts, NEW S \in SUBSET Accounts
  PROVE  accounts_conflict_hybrid_rw(Item(h, W, R), Item(h, V, S))
           <=> ~Locking!Compatible(W, R, V, S)
<1> DEFINE Clash == W \cap V # {} \/ W \cap S # {} \/ R \cap V # {}
<1>1. ~Locking!Compatible(W, R, V, S) <=> Clash
  BY DEF Locking!Compatible
<1>2. Clash => blooms_might_conflict(compute_bloom_filter(h, W \cup R),
                                     compute_bloom_filter(h, V \cup S))
  <2>1. Clash => (W \cup R) \cap (V \cup S) # {}
    OBVIOUS
  <2> QED
    BY <2>1, SharedBit
<1> QED
  BY <1>1, <1>2 DEF accounts_conflict_hybrid_rw, Item

\* Likewise for the test that does not tell reads from writes.
LEMMA HybridExact ==
  ASSUME NEW h \in Hashes,
         NEW W \in SUBSET Accounts, NEW R \in SUBSET Accounts,
         NEW V \in SUBSET Accounts, NEW S \in SUBSET Accounts
  PROVE  accounts_conflict_hybrid(Item(h, W, R), Item(h, V, S))
           <=> (W \cup R) \cap (V \cup S) # {}
  BY SharedBit DEF accounts_conflict_hybrid, Item

\* The hash function of a process does not change.
LEMMA HashStays == FilterSpec => [](hash \in Hashes)
<1>1. FilterInit => hash \in Hashes
  BY DEF FilterInit
<1>2. hash \in Hashes /\ [Next /\ UNCHANGED hash]_filterVars => (hash \in Hashes)'
  BY DEF filterVars
<1> QED
  BY <1>1, <1>2, PTL DEF FilterSpec

\* Beside the items, the guards behave as guards do.
LEMMA FilterKeepsGuards == FilterSpec => Spec
<1>1. FilterInit => Init
  BY DEF FilterInit
<1>2. [Next /\ UNCHANGED hash]_filterVars => [Next]_vars
  BY DEF filterVars
<1> QED
  BY <1>1, <1>2, PTL DEF FilterSpec, Spec

\* Whatever the hash function, the items' test refuses a request exactly when
\* the guards' probe does.
THEOREM FilterIsExact == FilterSpec => []FilterExact
<1>1. hash \in Hashes /\ TypeOK /\ ProbeExact => FilterExact
  <2> SUFFICES ASSUME hash \in Hashes, TypeOK, ProbeExact,
                      NEW W \in SUBSET Accounts, NEW R \in SUBSET Accounts
               PROVE  /\ (\E g \in live :
                            accounts_conflict_hybrid_rw(Item(hash, W, R), Held(g)))
                           <=> would_conflict(W, R)
                      /\ \A g \in live :
                           accounts_conflict_hybrid(Item(hash, W, R), Held(g)) <=>
                             (W \cup R) \cap (write_accounts[g] \cup read_accounts[g]) # {}
    BY DEF FilterExact
  <2>1. \A g \in live : /\ write_accounts[g] \in SUBSET Accounts
                        /\ read_accounts[g] \in SUBSET Accounts
    BY DEF TypeOK
  <2>2. \A g \in live : accounts_conflict_hybrid_rw(Item(hash, W, R), Held(g))
                          <=> ~Locking!Compatible(W, R, write_accounts[g], read_accounts[g])
    BY <2>1, HybridRwExact DEF Held
  <2>3. would_conflict(W, R) <=>
          \E g \in live : ~Locking!Compatible(W, R, write_accounts[g], read_accounts[g])
    BY DEF ProbeExact
  <2>4. \A g \in live : accounts_conflict_hybrid(Item(hash, W, R), Held(g)) <=>
                          (W \cup R) \cap (write_accounts[g] \cup read_accounts[g]) # {}
    BY <2>1, HybridExact DEF Held
  <2> QED
    BY <2>2, <2>3, <2>4
<1> QED
  BY <1>1, HashStays, FilterKeepsGuards, LocksTypeOK, ProbeIsExact, PTL

\* In the library the guards rest while others work, and then behave so.
LEMMA LibraryKeepsGuards == LibrarySpec => FilterSpec
<1>1. LibraryInit => FilterInit
  BY DEF LibraryInit
<1>2. [LibraryNext]_libraryVars => [Next /\ UNCHANGED hash]_filterVars
  BY DEF LibraryNext, libraryVars, guardVars, filterVars
<1> QED
  BY <1>1, <1>2, PTL DEF LibrarySpec, FilterSpec

-----------------------------------------------------------------------------
(* SyncWorker *)

\* The accounts of the units in execution are locked, and no two units share
\* one: without the second, a release would unlock accounts still in use.
WorkersInv ==
  /\ executing \in [Threads -> SUBSET Accounts]
  /\ in_call \subseteq Threads
  /\ \A t \in Threads \ in_call : executing[t] = {}
  /\ \A t \in Threads : executing[t] \subseteq locked_accounts
  /\ \A t, u \in Threads : t # u => executing[t] \cap executing[u] = {}

\* Every step keeps the workers on separate accounts.
LEMMA WorkersStep == WorkersInv /\ [LibraryNext]_libraryVars => WorkersInv'
<1> SUFFICES ASSUME WorkersInv, [LibraryNext]_libraryVars PROVE WorkersInv'
  OBVIOUS
<1> USE DEF WorkersInv
<1>1. ASSUME NEW t \in Threads, NEW A \in SUBSET Accounts, Sync!acquire_locks(t, A)
      PROVE  WorkersInv'
  <2>1. \A u \in Threads : executing'[u] = IF u = t THEN A ELSE executing[u]
    BY <1>1 DEF Sync!acquire_locks
  <2>2. A \cap locked_accounts = {} /\ locked_accounts' = locked_accounts \cup A
    BY <1>1 DEF Sync!acquire_locks
  <2>3. \A u \in Threads : A \cap executing[u] = {}
    BY <2>2
  <2> QED
    BY <1>1, <2>1, <2>2, <2>3 DEF Sync!acquire_locks
<1>2. ASSUME NEW t \in Threads, Sync!release_locks(t) PROVE WorkersInv'
  <2>1. \A u \in Threads : executing'[u] = IF u = t THEN {} ELSE executing[u]
    BY <1>2 DEF Sync!release_locks
  <2>2. \A u \in Threads : u # t => executing[u] \subseteq locked_accounts'
    BY <1>2 DEF Sync!release_locks
  <2> QED
    BY <1>2, <2>1, <2>2 DEF Sync!release_locks
<1>3. ASSUME UNCHANGED syncVars PROVE WorkersInv'
  BY <1>3 DEF syncVars
<1> QED
  BY <1>1, <1>2, <1>3 DEF LibraryNext, libraryVars, Sync!Next

\* The synchronous workers implement AccountLocking: from one shared set every
\* call takes its accounts at once and removes its own.
THEOREM WorkersImplementLocking == LibrarySpec => WorkerLocking
<1>1. LibraryInit => WorkersInv
  BY DEF LibraryInit, Sync!Init, WorkersInv
<1>2. LibraryInit => Sync!Locking!Init
  BY DEF LibraryInit, Sync!Init, Sync!Locking!Init
<1>3. ASSUME WorkersInv, NEW t \in Threads, NEW A \in SUBSET Accounts, Sync!acquire_locks(t, A)
      PROVE  Sync!Locking!Acquire(t, A, {})
  <2>1. \A u \in Threads : A \cap executing[u] = {}
    BY <1>3 DEF WorkersInv, Sync!acquire_locks
  <2>2. executing[t] = {} /\ executing' = [executing EXCEPT ![t] = A]
    BY <1>3 DEF WorkersInv, Sync!acquire_locks
  <2> QED
    BY <2>1, <2>2 DEF Sync!Locking!Acquire, Sync!Locking!Compatible
<1>4. ASSUME NEW t \in Threads, Sync!release_locks(t)
      PROVE  Sync!Locking!Release(t)
  BY <1>4 DEF Sync!release_locks, Sync!Locking!Release
<1>5. ASSUME WorkersInv, [LibraryNext]_libraryVars
      PROVE  [Sync!Locking!Next]_(Sync!Locking!vars)
  <2>1. ASSUME NEW t \in Threads, NEW A \in SUBSET Accounts, Sync!acquire_locks(t, A)
        PROVE  Sync!Locking!Next
    <3>1. {} \in SUBSET Accounts
      OBVIOUS
    <3> QED
      BY <1>3, <1>5, <2>1, <3>1 DEF Sync!Locking!Next
  <2>2. ASSUME NEW t \in Threads, Sync!release_locks(t) PROVE Sync!Locking!Next
    BY <1>4, <2>2 DEF Sync!Locking!Next
  <2>3. ASSUME UNCHANGED syncVars PROVE UNCHANGED Sync!Locking!vars
    BY <2>3 DEF syncVars, Sync!Locking!vars
  <2> QED
    BY <1>5, <2>1, <2>2, <2>3 DEF LibraryNext, libraryVars, Sync!Next
<1> QED
  BY <1>1, <1>2, <1>5, WorkersStep, PTL
  DEF LibrarySpec, WorkerLocking, Sync!LockingSpec, Sync!Locking!Spec

-----------------------------------------------------------------------------
(* BlockEngine *)

BlockTypeOK ==
  /\ submissions \in SUBSET Nat
  /\ next_id \in Nat
  /\ bpc \in [Submitters -> {"idle", "insert", "clear"}]
  /\ taken \in [Submitters -> Nat]
  /\ shard \in [Submitters -> Nat]
  /\ given \in Seq(Nat)
  /\ before \in [Submitters -> SUBSET Nat]
  /\ undisturbed \in SUBSET Nat

\* The ids in use are below the counter, and the one a submitter is about to
\* insert is not in use: the mutex makes it the only one.
IdsTaken ==
  /\ \A id \in submissions : id < next_id
  /\ \A p \in DOMAIN given : given[p] < next_id
  /\ \A p, q \in DOMAIN given : given[p] = given[q] => p = q
  /\ \A t \in Submitters : \A id \in before[t] : id < next_id
  /\ \A t \in Submitters : bpc[t] = "insert" =>
       /\ \A u \in Submitters : bpc[u] = "insert" => u = t
       /\ taken[t] < next_id
       /\ taken[t] \notin submissions
       /\ \A p \in DOMAIN given : given[p] # taken[t]
       /\ \A u \in Submitters : taken[t] \notin before[u]

\* A clear in progress has emptied the shards before its own.
Cleared ==
  /\ undisturbed \subseteq submissions
  /\ Block!Clearing # {} => undisturbed = {}
  /\ \A t \in Submitters : bpc[t] # "clear" => before[t] \cap submissions = {}
  /\ \A t \in Submitters : bpc[t] = "clear" =>
       /\ shard[t] < ShardCount
       /\ \A id \in before[t] \cap submissions : Block!ShardOf(id) >= shard[t]

BlockInv == BlockTypeOK /\ IdsTaken /\ Cleared

\* The shards are empty and no id has been taken.
LEMMA BlockInit == LibraryInit => BlockInv
BY DEF LibraryInit, Block!Init, Block!Clearing, BlockInv, BlockTypeOK, IdsTaken, Cleared

\* An id that is taken is new.
LEMMA TakeIdStep ==
  ASSUME BlockInv, NEW t \in Submitters, Block!TakeId(t)
  PROVE  BlockInv'
<1> USE DEF Block!TakeId, BlockInv
<1>1. BlockTypeOK'
  BY DEF BlockTypeOK
<1>2. /\ \A u \in Submitters : bpc'[u] = IF u = t THEN "insert" ELSE bpc[u]
      /\ taken'[t] = next_id
      /\ \A u \in Submitters : bpc[u] # "insert"
      /\ next_id' = next_id + 1 /\ next_id \in Nat
  BY DEF BlockTypeOK
<1>3. /\ \A id \in submissions : id \in Nat
      /\ \A p \in DOMAIN given : given[p] \in Nat
      /\ \A u \in Submitters : \A id \in before[u] : id \in Nat
  BY DEF BlockTypeOK
<1>4. IdsTaken'
  BY <1>2, <1>3 DEF IdsTaken
<1>5. Block!Clearing' = Block!Clearing
  BY <1>2 DEF Block!Clearing
<1>6. Cleared'
  BY <1>2, <1>5 DEF BlockTypeOK, Cleared, Block!ShardOf
<1> QED
  BY <1>1, <1>4, <1>6

\* A submission that is inserted uses up its id.
LEMMA InsertStep ==
  ASSUME BlockInv, NEW t \in Submitters, Block!Insert(t)
  PROVE  BlockInv'
<1> USE DEF Block!Insert, BlockInv
<1>1. BlockTypeOK'
  <2>1. taken[t] \in Nat /\ Append(given, taken[t]) \in Seq(Nat)
    BY DEF BlockTypeOK
  <2>2. submissions' \in SUBSET Nat /\ undisturbed' \in SUBSET Nat /\ given' \in Seq(Nat)
    BY <2>1 DEF BlockTypeOK
  <2> QED
    BY <2>2 DEF BlockTypeOK
<1>2. /\ \A u \in Submitters : bpc'[u] = IF u = t THEN "idle" ELSE bpc[u]
      /\ bpc[t] = "insert"
      /\ submissions' = submissions \cup {taken[t]}
      /\ given \in Seq(Nat) /\ given' = Append(given, taken[t])
  BY DEF BlockTypeOK
<1>3. \A p \in DOMAIN given' : (p \in DOMAIN given /\ given'[p] = given[p])
                               \/ (p = Len(given) + 1 /\ given'[p] = taken[t])
  BY <1>2 DEF BlockTypeOK
<1>4. IdsTaken'
  <2>1. \A p, q \in DOMAIN given' : given'[p] = given'[q] => p = q
    BY <1>2, <1>3 DEF IdsTaken
  <2>2. \A u \in Submitters : bpc'[u] # "insert"
    BY <1>2 DEF IdsTaken
  <2>3. /\ \A id \in submissions' : id < next_id'
        /\ \A p \in DOMAIN given' : given'[p] < next_id'
    BY <1>2, <1>3 DEF IdsTaken
  <2> QED
    BY <2>1, <2>2, <2>3 DEF IdsTaken
<1>5. Block!Clearing' = Block!Clearing
  BY <1>2 DEF Block!Clearing
<1>6. \A u \in Submitters : before'[u] \cap submissions' = before[u] \cap submissions
  BY <1>2 DEF IdsTaken
<1>7. Cleared'
  BY <1>2, <1>5, <1>6 DEF Cleared, Block!ShardOf
<1> QED
  BY <1>1, <1>4, <1>7

\* A clear that begins has emptied no shard yet.
LEMMA BeginClearStep ==
  ASSUME BlockInv, NEW t \in Submitters, Block!BeginClear(t)
  PROVE  BlockInv'
<1> USE DEF Block!BeginClear, BlockInv
<1>1. BlockTypeOK'
  BY DEF BlockTypeOK
<1>2. /\ \A u \in Submitters : bpc'[u] = IF u = t THEN "clear" ELSE bpc[u]
      /\ \A u \in Submitters : shard'[u] = IF u = t THEN 0 ELSE shard[u]
      /\ \A u \in Submitters : before'[u] = IF u = t THEN submissions ELSE before[u]
      /\ undisturbed' = {} /\ UNCHANGED <<submissions, next_id, taken, given>>
  BY DEF BlockTypeOK
<1>3. IdsTaken'
  BY <1>2 DEF IdsTaken
<1>4. \A id \in submissions : Block!ShardOf(id) >= 0 /\ ShardCount > 0
  BY LibraryAssumption DEF BlockTypeOK, Block!ShardOf
<1>5. ShardCount > 0
  BY LibraryAssumption
<1>6. Cleared'
  BY <1>2, <1>4, <1>5 DEF Cleared, Block!ShardOf
<1> QED
  BY <1>1, <1>3, <1>6

\* A clear that goes on has one more shard behind it.
LEMMA ClearShardStep ==
  ASSUME BlockInv, NEW t \in Submitters, Block!ClearShard(t)
  PROVE  BlockInv'
<1> USE DEF Block!ClearShard, BlockInv
<1>1. BlockTypeOK'
  <2>0. shard[t] \in Nat /\ submissions \in SUBSET Nat
    BY DEF BlockTypeOK
  <2>1. submissions' \subseteq submissions /\ shard[t] + 1 \in Nat
    BY <2>0
  <2>2. PICK to \in {"idle", "clear"} : bpc' = [bpc EXCEPT ![t] = to]
    OBVIOUS
  <2> QED
    BY <2>0, <2>1, <2>2 DEF BlockTypeOK
<1>2. /\ \A u \in Submitters :
           bpc'[u] = IF u = t THEN IF shard[t] + 1 = ShardCount THEN "idle" ELSE "clear"
                     ELSE bpc[u]
      /\ \A u \in Submitters : shard'[u] = IF u = t THEN shard[t] + 1 ELSE shard[u]
      /\ submissions' = {id \in submissions : Block!ShardOf(id) # shard[t]}
      /\ bpc[t] = "clear" /\ shard[t] \in Nat
      /\ UNCHANGED <<next_id, taken, given, before, undisturbed>>
  BY DEF BlockTypeOK
<1>3. IdsTaken'
  BY <1>2 DEF IdsTaken
<1>4. undisturbed = {}
  BY <1>2 DEF Cleared, Block!Clearing
<1>5. \A id \in submissions : Block!ShardOf(id) \in 0 .. ShardCount - 1
  BY LibraryAssumption DEF BlockTypeOK, Block!ShardOf
<1>6. \A id \in before[t] \cap submissions' : Block!ShardOf(id) >= shard[t] + 1
  BY <1>2, <1>5 DEF Cleared
<1>7. shard[t] + 1 = ShardCount => before[t] \cap submissions' = {}
  BY <1>2, <1>5, <1>6, LibraryAssumption
<1>8. shard[t] + 1 # ShardCount => shard[t] + 1 < ShardCount
  BY <1>2, LibraryAssumption DEF Cleared
<1>9. Cleared'
  <2>1. \A u \in Submitters : bpc'[u] # "clear" => before'[u] \cap submissions' = {}
    BY <1>2, <1>7 DEF Cleared
  <2>2. \A u \in Submitters : bpc'[u] = "clear" =>
          /\ shard'[u] < ShardCount
          /\ \A id \in before'[u] \cap submissions' : Block!ShardOf(id) >= shard'[u]
    BY <1>2, <1>6, <1>8 DEF Cleared
  <2> QED
    BY <1>2, <1>4, <2>1, <2>2 DEF Cleared, Block!ShardOf
<1> QED
  BY <1>1, <1>3, <1>9

\* No id is returned twice, what no clear overlaps or follows is there, and a
\* clear that is over has removed all that was there when it began, with
\* submissions and other clears beside it, shard by shard.
THEOREM SubmissionsAreExact == LibrarySpec => []SubmissionsExact
<1>1. ASSUME BlockInv, [LibraryNext]_libraryVars PROVE BlockInv'
  <2>1. ASSUME UNCHANGED blockVars PROVE BlockInv'
    BY <1>1, <2>1
    DEF blockVars, BlockInv, BlockTypeOK, IdsTaken, Cleared, Block!Clearing, Block!ShardOf
  <2>2. ASSUME Block!Next PROVE BlockInv'
    BY <1>1, <2>2, TakeIdStep, InsertStep, BeginClearStep, ClearShardStep DEF Block!Next
  <2> QED
    BY <1>1, <2>1, <2>2 DEF LibraryNext, libraryVars
<1>2. BlockInv => SubmissionsExact
  BY DEF BlockInv, IdsTaken, Cleared, SubmissionsExact, Block!SubmissionsExact, Block!Clearing
<1> QED
  BY BlockInit, <1>1, <1>2, PTL DEF LibrarySpec

-----------------------------------------------------------------------------
(* ItemIds *)

\* What the prover knows of division with remainder.
LEMMA DivMod ==
  ASSUME NEW x \in Int, NEW m \in Nat \ {0}
  PROVE  x % m \in 0 .. m - 1 /\ (x \div m) \in Int /\ x = m * (x \div m) + (x % m)
OBVIOUS

\* Division undoes what IdOf does: x is k times m and something less than m.
LEMMA DivModOf ==
  ASSUME NEW m \in Nat \ {0}, NEW k \in Int, NEW r \in 0 .. m - 1
  PROVE  (m * k + r) % m = r /\ (m * k + r) \div m = k
OBVIOUS

\* Numbers have the same remainder exactly when their difference has none.
LEMMA SameRemainder ==
  ASSUME NEW m \in Nat \ {0}, NEW p \in Int, NEW q \in Int
  PROVE  p % m = q % m <=> (p - q) % m = 0
<1> DEFINE a == p \div m
           b == p % m
           c == q \div m
           d == q % m
<1>1. a \in Int /\ b \in 0 .. m - 1 /\ p = m * a + b
  BY DivMod
<1>2. c \in Int /\ d \in 0 .. m - 1 /\ q = m * c + d
  BY DivMod
<1> HIDE DEF a, b, c, d
<1>3. p - q = m * (a - c) + (b - d)
  BY <1>1, <1>2
<1>4. b = d => (p - q) % m = 0
  <2>1. 0 \in 0 .. m - 1 /\ a - c \in Int
    BY <1>1, <1>2
  <2>2. (m * (a - c) + 0) % m = 0
    BY <2>1, DivModOf
  <2> QED
    BY <1>1, <1>2, <1>3, <2>1, <2>2
<1>5. b > d => (p - q) % m = b - d
  <2>1. CASE b > d
    <3>1. b - d \in 0 .. m - 1 /\ a - c \in Int
      BY <1>1, <1>2, <2>1
    <3>2. (m * (a - c) + (b - d)) % m = b - d
      BY <3>1, DivModOf
    <3> QED
      BY <1>3, <3>2
  <2> QED
    BY <2>1
<1>6. b < d => (p - q) % m = m + (b - d)
  <2>1. CASE b < d
    <3>1. m + (b - d) \in 0 .. m - 1 /\ (a - c) - 1 \in Int
      BY <1>1, <1>2, <2>1
    <3>2. p - q = m * ((a - c) - 1) + (m + (b - d))
      BY <1>1, <1>2, <1>3
    <3>3. (m * ((a - c) - 1) + (m + (b - d))) % m = m + (b - d)
      BY <3>1, DivModOf
    <3> QED
      BY <3>2, <3>3
  <2> QED
    BY <2>1
<1>7. b = d <=> (p - q) % m = 0
  BY <1>1, <1>2, <1>4, <1>5, <1>6
<1> QED
  BY <1>7 DEF b, d

\* What an id says.
LEMMA IdParts ==
  ASSUME NEW kind \in {0, 1}, NEW seq \in 0 .. SeqMod - 1
  PROVE  /\ Ids!IdOf(kind, seq) \in Nat
         /\ Ids!item_type(Ids!IdOf(kind, seq)) = kind
         /\ Ids!sequence(Ids!IdOf(kind, seq)) = seq
<1>1. SeqMod \in Nat \ {0}
  BY LibraryAssumption
<1>2. Ids!IdOf(kind, seq) = SeqMod * kind + seq
  BY <1>1 DEF Ids!IdOf
<1>3. (SeqMod * kind + seq) % SeqMod = seq /\ (SeqMod * kind + seq) \div SeqMod = kind
  BY <1>1, DivModOf
<1>4. kind % 256 = kind
  OBVIOUS
<1>5. SeqMod * kind + seq \in Nat
  BY <1>1
<1> QED
  BY <1>2, <1>3, <1>4, <1>5 DEF Ids!item_type, Ids!sequence

\* The counter tells how many ids were issued, and each its place.
IssuedId == [kind : {0, 1}, id : Nat]

IdsInv ==
  /\ issued \in Seq(IssuedId)
  /\ counter = (Len(issued) + 1) % SeqMod
  /\ \A p \in DOMAIN issued : issued[p].id = Ids!IdOf(issued[p].kind, p % SeqMod)

\* Each id that is issued carries its own number.
LEMMA IdsStep ==
  ASSUME IdsInv, NEW kind \in {0, 1}, Ids!NextId(kind)
  PROVE  IdsInv'
<1> DEFINE n == Len(issued)
           new == [kind |-> kind, id |-> Ids!IdOf(kind, counter)]
<1>1. SeqMod \in Nat \ {0}
  BY LibraryAssumption
<1>2. issued \in Seq(IssuedId) /\ n \in Nat
  BY DEF IdsInv
<1>3. counter \in 0 .. SeqMod - 1 /\ counter = (n + 1) % SeqMod
  BY <1>1, <1>2 DEF IdsInv
<1>4. new \in IssuedId
  BY <1>3, IdParts DEF IssuedId
<1>5. issued' = Append(issued, new) /\ counter' = (counter + 1) % SeqMod
  BY DEF Ids!NextId
<1> HIDE DEF new
<1>6. issued' \in Seq(IssuedId) /\ Len(issued') = n + 1
  BY <1>2, <1>4, <1>5
<1>7. counter' = (n + 1 + 1) % SeqMod
  <2> DEFINE a == (n + 1) \div SeqMod
  <2>1. a \in Int /\ n + 1 = SeqMod * a + counter
    BY <1>1, <1>2, <1>3, DivMod
  <2> HIDE DEF a
  <2>2. ((n + 1 + 1) - (counter + 1)) = SeqMod * a + 0
    BY <1>1, <1>2, <1>3, <2>1
  <2>3. (SeqMod * a + 0) % SeqMod = 0
    <3>1. 0 \in 0 .. SeqMod - 1
      BY <1>1
    <3> QED
      BY <1>1, <2>1, <3>1, DivModOf
  <2>4. n + 1 + 1 \in Int /\ counter + 1 \in Int
    BY <1>2, <1>3
  <2>5. (n + 1 + 1) % SeqMod = (counter + 1) % SeqMod
    <3> DEFINE x == n + 1 + 1
               y == counter + 1
    <3>1. x \in Int /\ y \in Int /\ (x - y) % SeqMod = 0
      BY <2>2, <2>3, <2>4
    <3> HIDE DEF x, y
    <3>2. x % SeqMod = y % SeqMod
      BY <1>1, <3>1, SameRemainder
    <3> QED
      BY <3>2 DEF x, y
  <2> QED
    BY <1>5, <2>5
<1>8. ASSUME NEW p \in DOMAIN issued'
      PROVE  issued'[p].id = Ids!IdOf(issued'[p].kind, p % SeqMod)
  <2>1. CASE p \in DOMAIN issued
    BY <1>2, <1>5, <2>1 DEF IdsInv
  <2>2. CASE p = n + 1
    BY <1>2, <1>3, <1>4, <1>5, <2>2 DEF new
  <2> QED
    BY <1>2, <1>6, <2>1, <2>2
<1> QED
  BY <1>6, <1>7, <1>8 DEF IdsInv

\* An id comes back only for the same kind after a whole turn of the counter,
\* and tells its kind and its place among all ids.
THEOREM IdsAreDistinct == LibrarySpec => []IdsDistinct
<1>1. LibraryInit => IdsInv
  <2> SUFFICES ASSUME LibraryInit PROVE IdsInv
    OBVIOUS
  <2>1. counter = 1 /\ issued = <<>>
    BY DEF LibraryInit, Ids!Init
  <2>2. 1 = (Len(issued) + 1) % SeqMod
    BY <2>1, LibraryAssumption
  <2> QED
    BY <2>1, <2>2 DEF IdsInv
<1>2. ASSUME IdsInv, [LibraryNext]_libraryVars PROVE IdsInv'
  <2>1. ASSUME UNCHANGED idVars PROVE IdsInv'
    BY <1>2, <2>1 DEF idVars, IdsInv
  <2>2. ASSUME Ids!Next PROVE IdsInv'
    BY <1>2, <2>2, IdsStep DEF Ids!Next, Ids!ITEM_TYPE_TRANSACTION, Ids!ITEM_TYPE_BUNDLE
  <2> QED
    BY <1>2, <2>1, <2>2 DEF LibraryNext, libraryVars
<1>3. ASSUME IdsInv PROVE IdsDistinct
  <2>1. SeqMod \in Nat \ {0}
    BY LibraryAssumption
  <2>2. ASSUME NEW p \in DOMAIN issued
        PROVE  /\ p \in Int /\ p % SeqMod \in 0 .. SeqMod - 1 /\ issued[p].kind \in {0, 1}
               /\ issued[p].id = Ids!IdOf(issued[p].kind, p % SeqMod)
               /\ Ids!item_type(issued[p].id) = issued[p].kind
               /\ Ids!sequence(issued[p].id) = p % SeqMod
    <3>0. issued \in Seq(IssuedId)
      BY <1>3 DEF IdsInv
    <3>1. p \in Int /\ issued[p].kind \in {0, 1}
      <4>1. p \in DOMAIN issued /\ DOMAIN issued = 1 .. Len(issued) /\ Len(issued) \in Nat
        BY <2>2, <3>0
      <4>2. issued[p] \in IssuedId
        BY <3>0, <4>1
      <4> QED
        BY <4>1, <4>2 DEF IssuedId
    <3>2. p % SeqMod \in 0 .. SeqMod - 1
      BY <2>1, <3>1, DivMod
    <3>3. issued[p].id = Ids!IdOf(issued[p].kind, p % SeqMod)
      BY <1>3, <2>2 DEF IdsInv
    <3> QED
      BY <3>1, <3>2, <3>3, IdParts
  <2>3. ASSUME NEW p \in DOMAIN issued, NEW q \in DOMAIN issued
        PROVE  issued[p].id = issued[q].id <=>
                 issued[p].kind = issued[q].kind /\ (p - q) % SeqMod = 0
    <3>1. issued[p].id = issued[q].id <=>
            issued[p].kind = issued[q].kind /\ p % SeqMod = q % SeqMod
      BY <2>2, <2>3
    <3>2. p % SeqMod = q % SeqMod <=> (p - q) % SeqMod = 0
      BY <2>1, <2>2, <2>3, SameRemainder
    <3> QED
      BY <3>1, <3>2
  <2> QED
    BY <2>2, <2>3 DEF IdsDistinct, Ids!IdsDistinct
<1> QED
  BY <1>1, <1>2, <1>3, PTL DEF LibrarySpec

-----------------------------------------------------------------------------
(* select_winners *)

\* A set of natural numbers has a least element.
LEMMA LeastOf ==
  ASSUME NEW S \in SUBSET Nat, S # {}
  PROVE  \E i \in S : \A j \in S : i <= j
<1>1. IsWellFoundedOn(OpToRel(<, Nat), Nat)
  BY NatLessThanWellFounded
<1>2. PICK i \in S : \A j \in S : <<j, i>> \notin OpToRel(<, Nat)
  BY <1>1, WFMin
<1>3. ASSUME NEW j \in S, j < i PROVE FALSE
  BY <1>2, <1>3 DEF OpToRel
<1> QED
  BY <1>3

\* A strict total order on the first n places.
IsOrder(R, n) ==
  /\ \A i \in 1 .. n : <<i, i>> \notin R
  /\ \A i, j \in 1 .. n : i # j => <<i, j>> \in R \/ <<j, i>> \in R
  /\ \A i, j, k \in 1 .. n : <<i, j>> \in R /\ <<j, k>> \in R => <<i, k>> \in R

Rank(R, n, i) == Cardinality({j \in 1 .. n : <<j, i>> \in R})

\* Ranks count the places from 0 to n - 1, in order, and leave none out.
LEMMA Ranks ==
  ASSUME NEW n \in Nat, NEW R, IsOrder(R, n)
  PROVE  /\ \A i, j \in 1 .. n : <<i, j>> \in R <=> Rank(R, n, i) < Rank(R, n, j)
         /\ \A p \in 1 .. n : \E i \in 1 .. n : Rank(R, n, i) = p - 1
<1> DEFINE S == 1 .. n
           T == 0 .. n - 1
           Below(i) == {j \in S : <<j, i>> \in R}
<1>1. IsFiniteSet(S) /\ Cardinality(S) = n /\ IsFiniteSet(T) /\ Cardinality(T) = n
  <2>1. 0 \in Int /\ 1 \in Int /\ n \in Int /\ n - 1 \in Int
    OBVIOUS
  <2>2. IsFiniteSet(S) /\ Cardinality(S) = IF 1 > n THEN 0 ELSE n - 1 + 1
    BY <2>1, FS_Interval
  <2>3. IsFiniteSet(T) /\ Cardinality(T) = IF 0 > n - 1 THEN 0 ELSE n - 1 - 0 + 1
    BY <2>1, FS_Interval
  <2> QED
    BY <2>2, <2>3
<1>2. \A i \in S : /\ IsFiniteSet(Below(i)) /\ Rank(R, n, i) = Cardinality(Below(i))
                   /\ Rank(R, n, i) \in T /\ Rank(R, n, i) \in Int
  <2> SUFFICES ASSUME NEW i \in S
               PROVE  /\ IsFiniteSet(Below(i)) /\ Rank(R, n, i) = Cardinality(Below(i))
                      /\ Rank(R, n, i) \in T /\ Rank(R, n, i) \in Int
    OBVIOUS
  <2>1. IsFiniteSet(Below(i)) /\ Cardinality(Below(i)) <= n
    BY <1>1, FS_Subset
  <2>2. Cardinality(Below(i)) \in Nat
    BY <2>1, FS_CardinalityType
  <2>3. Cardinality(Below(i)) # n
    <3>1. i \notin Below(i)
      BY DEF IsOrder
    <3>2. Below(i) \in SUBSET S /\ Below(i) # S
      BY <3>1
    <3> HIDE DEF Below
    <3> QED
      BY <1>1, <3>2, FS_Subset
  <2> QED
    BY <2>1, <2>2, <2>3 DEF Rank
<1>3. ASSUME NEW i \in S, NEW j \in S, <<i, j>> \in R
      PROVE  Rank(R, n, i) < Rank(R, n, j)
  <2>1. Below(i) \in SUBSET Below(j) /\ i \in Below(j) /\ i \notin Below(i)
    BY <1>3 DEF IsOrder
  <2> HIDE DEF Below
  <2>2. Cardinality(Below(i)) <= Cardinality(Below(j)) /\ Cardinality(Below(i)) # Cardinality(Below(j))
    BY <1>2, <2>1, FS_Subset
  <2> QED
    BY <1>2, <2>2
<1>4. ASSUME NEW i \in S, NEW j \in S, Rank(R, n, i) < Rank(R, n, j)
      PROVE  <<i, j>> \in R
  <2>1. Rank(R, n, i) \in Int /\ Rank(R, n, j) \in Int
    BY <1>2
  <2>2. i # j /\ ~(Rank(R, n, j) < Rank(R, n, i))
    BY <1>4, <2>1
  <2> QED
    BY <1>3, <2>2 DEF IsOrder
<1>5. \A p \in S : \E i \in S : Rank(R, n, i) = p - 1
  <2> DEFINE f == [i \in S |-> Rank(R, n, i)]
  <2>1. f \in [S -> T]
    BY <1>2
  <2>2. \A i, j \in S : f[i] = f[j] => i = j
    <3> SUFFICES ASSUME NEW i \in S, NEW j \in S, i # j PROVE f[i] # f[j]
      OBVIOUS
    <3>1. Rank(R, n, i) \in Int /\ Rank(R, n, j) \in Int
      BY <1>2
    <3>2. Rank(R, n, i) < Rank(R, n, j) \/ Rank(R, n, j) < Rank(R, n, i)
      BY <1>3 DEF IsOrder
    <3> QED
      BY <3>1, <3>2
  <2>3. \A p \in S : p - 1 \in T
    OBVIOUS
  <2> HIDE DEF f, T
  <2>4. f \in Injection(S, T)
    BY <2>1, <2>2 DEF Injection, IsInjective
  <2>5. f \in Surjection(S, T)
    BY <1>1, <2>4, FS_Injection
  <2>6. \A t \in T : \E i \in S : f[i] = t
    BY <2>5 DEF Surjection
  <2> QED
    BY <2>3, <2>6 DEF f
<1> QED
  BY <1>3, <1>4, <1>5

\* The sort puts every submission in one place, the best first.
LEMMA ByScoreSorts ==
  ASSUME NEW l \in Seq(Submission), NEW n \in Nat, n = Len(l)
  PROVE  /\ Block!ByScore(l) \in [1 .. n -> 1 .. n]
         /\ \A p, q \in 1 .. n : p < q => Block!SoldBefore(l, Block!ByScore(l)[p], Block!ByScore(l)[q])
         /\ \A i \in 1 .. n : \E p \in 1 .. n : Block!ByScore(l)[p] = i
<1> DEFINE S == 1 .. n
           R == {e \in S \X S : Block!SoldBefore(l, e[1], e[2])}
<1>1. \A i \in S : l[i].score \in Nat
  <2>1. \A i \in S : l[i] \in Submission
    OBVIOUS
  <2> QED
    BY <2>1 DEF Submission
<1>2. \A i, j \in S : <<i, j>> \in R <=> Block!SoldBefore(l, i, j)
  OBVIOUS
<1>3. IsOrder(R, n)
  <2> HIDE DEF R
  <2>1. ASSUME NEW i \in S PROVE ~Block!SoldBefore(l, i, i)
    <3>1. l[i].score \in Nat
      BY <1>1
    <3> QED
      BY <3>1 DEF Block!SoldBefore
  <2>2. ASSUME NEW i \in S, NEW j \in S, i # j
        PROVE  Block!SoldBefore(l, i, j) \/ Block!SoldBefore(l, j, i)
    <3>1. l[i].score \in Nat /\ l[j].score \in Nat
      BY <1>1
    <3> QED
      BY <2>2, <3>1 DEF Block!SoldBefore
  <2>3. ASSUME NEW i \in S, NEW j \in S, NEW k \in S,
               Block!SoldBefore(l, i, j), Block!SoldBefore(l, j, k)
        PROVE  Block!SoldBefore(l, i, k)
    <3>1. l[i].score \in Nat /\ l[j].score \in Nat /\ l[k].score \in Nat
      BY <1>1
    <3> QED
      BY <2>3, <3>1 DEF Block!SoldBefore
  <2> QED
    BY <1>2, <2>1, <2>2, <2>3 DEF IsOrder
<1> HIDE DEF R
<1> DEFINE o == [p \in S |-> CHOOSE i \in S : Rank(R, n, i) = p - 1]
<1>4. ASSUME NEW p \in S PROVE o[p] \in S /\ Rank(R, n, o[p]) = p - 1
  <2>1. \E i \in S : Rank(R, n, i) = p - 1
    BY <1>3, Ranks
  <2> QED
    BY <2>1
<1>5. o \in [S -> S]
  BY <1>4
<1> HIDE DEF o
<1>6. ASSUME NEW p \in S, NEW q \in S, p < q
      PROVE  Block!SoldBefore(l, o[p], o[q])
  <2>1. PICK i \in S, j \in S : i = o[p] /\ j = o[q]
    BY <1>4
  <2>2. Rank(R, n, i) = p - 1 /\ Rank(R, n, j) = q - 1
    BY <1>4, <2>1
  <2>3. Rank(R, n, i) < Rank(R, n, j)
    <3>1. p - 1 < q - 1
      BY <1>6
    <3> QED
      BY <2>2, <3>1
  <2> QED
    BY <1>2, <1>3, <2>1, <2>3, Ranks
<1>7. S = DOMAIN l
  OBVIOUS
<1>8. PICK order : order = Block!ByScore(l)
  OBVIOUS
<1>9. /\ order \in [S -> S]
      /\ \A p, q \in S : p < q => Block!SoldBefore(l, order[p], order[q])
  <2>1. /\ o \in [DOMAIN l -> DOMAIN l]
        /\ \A p, q \in DOMAIN l : p < q => Block!SoldBefore(l, o[p], o[q])
    BY <1>5, <1>6, <1>7
  <2>2. /\ order \in [DOMAIN l -> DOMAIN l]
        /\ \A p, q \in DOMAIN l : p < q => Block!SoldBefore(l, order[p], order[q])
    BY <1>8, <2>1 DEF Block!ByScore
  <2> QED
    BY <1>7, <2>2
<1>10. order \in Surjection(S, S)
  <2>1. ASSUME NEW p \in S, NEW q \in S, p # q PROVE order[p] # order[q]
    <3>1. p < q \/ q < p
      BY <2>1
    <3>2. \A i \in S : ~Block!SoldBefore(l, i, i)
      BY <1>2, <1>3 DEF IsOrder
    <3> QED
      BY <1>9, <3>1, <3>2
  <2>2. IsFiniteSet(S)
    BY FS_Interval
  <2>3. order \in Injection(S, S)
    BY <1>9, <2>1 DEF Injection, IsInjective
  <2> QED
    BY <2>2, <2>3, FS_Injection
<1>11. \A i \in S : \E p \in S : order[p] = i
  BY <1>10 DEF Surjection
<1> QED
  BY <1>8, <1>9, <1>11

Elements(s) == {s[i] : i \in DOMAIN s}

\* The winners among the first m of the order.
Chosen(f, l, o, m) ==
  IF m = 0 THEN <<>>
  ELSE IF Block!has_conflicts(l[o[m]].accounts,
                              UNION {l[f[m - 1][q]].accounts : q \in DOMAIN f[m - 1]})
       THEN f[m - 1]
       ELSE Append(f[m - 1], o[m])

IsChoice(f, l, o, n) == f = [m \in 0 .. n |-> Chosen(f, l, o, m)]

\* The loop that picks the winners has a run over every list.
LEMMA ChoiceExists ==
  ASSUME NEW l, NEW o, NEW n \in Nat
  PROVE  \E f : IsChoice(f, l, o, n)
<1> DEFINE Bad == {m \in 0 .. n : ~\E f : IsChoice(f, l, o, m)}
<1>1. CASE Bad = {}
  BY <1>1
<1>2. CASE Bad # {}
  <2>1. PICK m \in Bad : \A j \in Bad : m <= j
    <3>1. Bad \in SUBSET Nat
      OBVIOUS
    <3> HIDE DEF Bad
    <3> QED
      BY <1>2, <3>1, LeastOf
  <2>2. m \in 0 .. n /\ ~\E f : IsChoice(f, l, o, m)
    OBVIOUS
  <2>3. m # 0
    <3> DEFINE e == [j \in 0 .. 0 |-> <<>>]
    <3>1. \A j \in 0 .. 0 : Chosen(e, l, o, j) = <<>>
      BY DEF Chosen
    <3>2. e = [j \in 0 .. 0 |-> Chosen(e, l, o, j)]
      BY <3>1
    <3> HIDE DEF e
    <3>3. IsChoice(e, l, o, 0)
      BY <3>2 DEF IsChoice
    <3> QED
      BY <2>2, <3>3
  <2>4. m - 1 \in 0 .. n /\ m - 1 \notin Bad
    <3>1. m - 1 \in 0 .. n /\ ~(m <= m - 1)
      <4> HIDE DEF Bad
      <4> QED
        BY <2>2, <2>3
    <3> HIDE DEF Bad
    <3> QED
      BY <2>1, <3>1
  <2>5. PICK f : IsChoice(f, l, o, m - 1)
    BY <2>4
  <2> DEFINE h == [j \in 0 .. m |-> IF j = m THEN Chosen(f, l, o, m) ELSE f[j]]
  <2>6. \A j \in 0 .. m - 1 : f[j] = Chosen(f, l, o, j)
    BY <2>5 DEF IsChoice
  <2>7. ASSUME NEW j \in 0 .. m PROVE h[j] = Chosen(h, l, o, j)
    <3>1. CASE j = 0
      <4>1. 0 \in 0 .. m - 1 /\ 0 \in 0 .. m /\ 0 # m
        BY <2>2, <2>3
      <4>2. Chosen(f, l, o, 0) = <<>> /\ Chosen(h, l, o, 0) = <<>>
        BY DEF Chosen
      <4> QED
        BY <2>6, <3>1, <4>1, <4>2
    <3>2. CASE j # 0
      <4>1. j - 1 \in 0 .. m /\ j - 1 # m /\ h[j - 1] = f[j - 1]
        BY <2>2, <3>2
      <4>2. Chosen(h, l, o, j) = Chosen(f, l, o, j)
        BY <4>1 DEF Chosen
      <4>3. j # m => j \in 0 .. m - 1
        BY <2>2
      <4> QED
        BY <2>6, <4>2, <4>3
    <3> QED
      BY <3>1, <3>2
  <2>8. h = [j \in 0 .. m |-> Chosen(h, l, o, j)]
    <3>1. h = [j \in 0 .. m |-> h[j]]
      OBVIOUS
    <3> HIDE DEF h
    <3> QED
      BY <2>7, <3>1
  <2> HIDE DEF h
  <2>9. IsChoice(h, l, o, m)
    BY <2>8 DEF IsChoice
  <2> QED
    BY <2>2, <2>9
<1> QED
  BY <1>1, <1>2

\* The winners w among the first m of the order o: they come from there, none
\* conflicts with another, and whoever is not among them lost to a better one.
ChosenWell(w, l, o, n, m) ==
  /\ w \in Seq(1 .. n)
  /\ \A q \in DOMAIN w : \E p \in 1 .. m : w[q] = o[p]
  /\ \A p, q \in DOMAIN w : p < q => /\ Block!SoldBefore(l, w[p], w[q])
                                     /\ l[w[p]].accounts \cap l[w[q]].accounts = {}
  /\ \A p \in 1 .. m : o[p] \notin Elements(w) =>
       \E j \in Elements(w) : /\ Block!SoldBefore(l, j, o[p])
                              /\ l[j].accounts \cap l[o[p]].accounts # {}

\* The numbers up to n + 1.
LEMMA OneMore ==
  ASSUME NEW n \in Nat PROVE 1 .. n + 1 = (1 .. n) \cup {n + 1}
OBVIOUS

\* What a sequence holds after one more element at its end.
LEMMA ElementsOfAppend ==
  ASSUME NEW D, NEW s \in Seq(D), NEW x \in D
  PROVE  Elements(Append(s, x)) = Elements(s) \cup {x}
<1>1. PICK n \in Nat : n = Len(s) /\ DOMAIN s = 1 .. n
  OBVIOUS
<1>2. DOMAIN Append(s, x) = 1 .. n + 1 /\ Append(s, x)[n + 1] = x
  BY <1>1
<1>3. \A i \in 1 .. n : Append(s, x)[i] = s[i]
  BY <1>1
<1>4. 1 .. n + 1 = (1 .. n) \cup {n + 1}
  OBVIOUS
<1> QED
  BY <1>1, <1>2, <1>3, <1>4 DEF Elements

\* The loop of select_winners: the next submission of the order wins or loses
\* to a winner before it.
LEMMA ChooseNext ==
  ASSUME NEW l \in Seq(Submission), NEW n \in Nat, n = Len(l),
         NEW o \in [1 .. n -> 1 .. n],
         \A p, q \in 1 .. n : p < q => Block!SoldBefore(l, o[p], o[q]),
         NEW f, NEW m \in 1 .. n, ChosenWell(f[m - 1], l, o, n, m - 1)
  PROVE  ChosenWell(Chosen(f, l, o, m), l, o, n, m)
<1>1. PICK w : w = f[m - 1]
  OBVIOUS
<1>2. /\ w \in Seq(1 .. n)
      /\ \A q \in DOMAIN w : \E p \in 1 .. m - 1 : w[q] = o[p]
      /\ \A p, q \in DOMAIN w : p < q => /\ Block!SoldBefore(l, w[p], w[q])
                                         /\ l[w[p]].accounts \cap l[w[q]].accounts = {}
      /\ \A p \in 1 .. m - 1 : o[p] \notin Elements(w) =>
           \E j \in Elements(w) : /\ Block!SoldBefore(l, j, o[p])
                                  /\ l[j].accounts \cap l[o[p]].accounts # {}
  BY <1>1 DEF ChosenWell
<1>3. PICK x \in 1 .. n : x = o[m]
  OBVIOUS
<1>4. \A p : p \in 1 .. m <=> p \in 1 .. m - 1 \/ p = m
  OBVIOUS
<1>5. \A q \in DOMAIN w : Block!SoldBefore(l, w[q], x)
  <2> SUFFICES ASSUME NEW q \in DOMAIN w PROVE Block!SoldBefore(l, w[q], x)
    OBVIOUS
  <2>1. PICK p \in 1 .. m - 1 : w[q] = o[p]
    BY <1>2
  <2>2. p \in 1 .. n /\ p < m
    OBVIOUS
  <2> QED
    BY <1>3, <2>1, <2>2
<1>6. CASE Block!has_conflicts(l[x].accounts, UNION {l[w[q]].accounts : q \in DOMAIN w})
  <2>1. Chosen(f, l, o, m) = w
    BY <1>1, <1>3, <1>6 DEF Chosen
  <2>2. PICK q \in DOMAIN w : l[w[q]].accounts \cap l[x].accounts # {}
    BY <1>6 DEF Block!has_conflicts
  <2>3. \E j \in Elements(w) : /\ Block!SoldBefore(l, j, x)
                               /\ l[j].accounts \cap l[x].accounts # {}
    BY <1>5, <2>2 DEF Elements
  <2>4. ChosenWell(w, l, o, n, m)
    BY <1>2, <1>3, <1>4, <2>3 DEF ChosenWell
  <2> QED
    BY <2>1, <2>4
<1>7. CASE ~Block!has_conflicts(l[x].accounts, UNION {l[w[q]].accounts : q \in DOMAIN w})
  <2>1. Chosen(f, l, o, m) = Append(w, x)
    BY <1>1, <1>3, <1>7 DEF Chosen
  <2>2. \A q \in DOMAIN w : l[w[q]].accounts \cap l[x].accounts = {}
    BY <1>7 DEF Block!has_conflicts
  <2>3. PICK k \in Nat : k = Len(w) /\ DOMAIN w = 1 .. k
    BY <1>2
  <2>4. PICK v : v = Append(w, x)
    OBVIOUS
  <2>5. /\ v \in Seq(1 .. n) /\ DOMAIN v = 1 .. k + 1
        /\ v[k + 1] = x /\ \A q \in 1 .. k : v[q] = w[q]
    BY <1>2, <2>3, <2>4
  <2>6. Elements(v) = Elements(w) \cup {x}
    <3>1. PICK D : D = 1 .. n
      OBVIOUS
    <3>2. w \in Seq(D) /\ x \in D
      BY <1>2, <3>1
    <3>3. Elements(Append(w, x)) = Elements(w) \cup {x}
      BY <3>2, ElementsOfAppend
    <3> QED
      BY <2>4, <3>3
  <2>7. 1 .. k + 1 = (1 .. k) \cup {k + 1}
    BY OneMore
  <2>8. \A q \in DOMAIN v : \E p \in 1 .. m : v[q] = o[p]
    BY <1>2, <1>3, <1>4, <2>3, <2>5, <2>7
  <2>9. ASSUME NEW p \in DOMAIN v, NEW q \in DOMAIN v, p < q
        PROVE  /\ Block!SoldBefore(l, v[p], v[q])
               /\ l[v[p]].accounts \cap l[v[q]].accounts = {}
    <3>1. p \in 1 .. k /\ v[p] = w[p]
      BY <2>3, <2>5, <2>9
    <3>2. CASE q \in 1 .. k
      BY <1>2, <2>3, <2>5, <2>9, <3>1, <3>2
    <3>3. CASE q = k + 1
      BY <1>5, <2>2, <2>3, <2>5, <3>1, <3>3
    <3> QED
      BY <2>5, <2>7, <3>2, <3>3
  <2>10. ASSUME NEW p \in 1 .. m, o[p] \notin Elements(v)
         PROVE  \E j \in Elements(v) : /\ Block!SoldBefore(l, j, o[p])
                                       /\ l[j].accounts \cap l[o[p]].accounts # {}
    BY <1>2, <1>3, <1>4, <2>6, <2>10
  <2>11. ChosenWell(v, l, o, n, m)
    BY <2>5, <2>8, <2>9, <2>10 DEF ChosenWell
  <2> QED
    BY <2>1, <2>4, <2>11
<1> QED
  BY <1>6, <1>7

\* The winners of any list are the best that do not conflict.
LEMMA SelectsBest ==
  ASSUME NEW l \in Seq(Submission)
  PROVE  Block!BestOf(l, Block!select_winners(l))
<1>1. PICK n \in Nat : n = Len(l) /\ DOMAIN l = 1 .. n
  OBVIOUS
<1>2. PICK o : o = Block!ByScore(l)
  OBVIOUS
<1>3. /\ o \in [1 .. n -> 1 .. n]
      /\ \A p, q \in 1 .. n : p < q => Block!SoldBefore(l, o[p], o[q])
      /\ \A i \in 1 .. n : \E p \in 1 .. n : o[p] = i
  BY <1>1, <1>2, ByScoreSorts
<1> DEFINE f == CHOOSE g : IsChoice(g, l, o, n)
<1>4. IsChoice(f, l, o, n)
  BY ChoiceExists
<1>5. Block!select_winners(l) = f[n]
  BY <1>1, <1>2 DEF Block!select_winners, IsChoice, Chosen
<1> HIDE DEF f
<1>6. \A m \in 0 .. n : f[m] = Chosen(f, l, o, m)
  BY <1>4 DEF IsChoice
<1> DEFINE Bad == {m \in 0 .. n : ~ChosenWell(f[m], l, o, n, m)}
<1>7. CASE Bad # {}
  <2>1. PICK m \in Bad : \A j \in Bad : m <= j
    <3>1. Bad \in SUBSET Nat
      OBVIOUS
    <3> HIDE DEF Bad
    <3> QED
      BY <1>7, <3>1, LeastOf
  <2>2. m \in 0 .. n /\ ~ChosenWell(f[m], l, o, n, m)
    OBVIOUS
  <2>3. m # 0
    <3>1. f[0] = <<>>
      <4>1. 0 \in 0 .. n
        BY <1>1
      <4> QED
        BY <1>6, <4>1 DEF Chosen
    <3>2. <<>> \in Seq(1 .. n) /\ DOMAIN <<>> = {} /\ 1 .. 0 = {}
      OBVIOUS
    <3>3. ChosenWell(<<>>, l, o, n, 0)
      BY <3>2 DEF ChosenWell
    <3> QED
      BY <2>2, <3>1, <3>3
  <2>4. m \in 1 .. n /\ m - 1 \in 0 .. n /\ m - 1 \notin Bad
    <3>1. m \in 1 .. n /\ m - 1 \in 0 .. n /\ ~(m <= m - 1)
      <4> HIDE DEF Bad
      <4> QED
        BY <2>2, <2>3
    <3> HIDE DEF Bad
    <3> QED
      BY <2>1, <3>1
  <2>5. ChosenWell(f[m - 1], l, o, n, m - 1)
    BY <2>4
  <2>6. ChosenWell(Chosen(f, l, o, m), l, o, n, m)
    BY <1>1, <1>3, <2>4, <2>5, ChooseNext
  <2> QED
    BY <1>6, <2>2, <2>6
<1>8. CASE Bad = {}
  <2>1. PICK w : w = f[n]
    OBVIOUS
  <2>2. ChosenWell(w, l, o, n, n)
    BY <1>8, <2>1
  <2>3. \A i \in 1 .. n : l[i].score \in Nat
    <3>1. \A i \in 1 .. n : l[i] \in Submission
      BY <1>1
    <3> QED
      BY <3>1 DEF Submission
  <2>4. \A p \in DOMAIN w : w[p] \in 1 .. n
    BY <2>2 DEF ChosenWell
  <2>5. \A i, j \in 1 .. n : Block!SoldBefore(l, i, j) =>
          l[i].score >= l[j].score /\ (l[i].score = l[j].score => i < j)
    BY <2>3 DEF Block!SoldBefore
  <2>6. \A p, q \in DOMAIN w : p < q =>
           /\ l[w[p]].accounts \cap l[w[q]].accounts = {}
           /\ l[w[p]].score >= l[w[q]].score
    BY <2>2, <2>4, <2>5 DEF ChosenWell
  <2>7. ASSUME NEW i \in 1 .. n, ~\E p \in DOMAIN w : w[p] = i
        PROVE  \E j \in 1 .. n : /\ \E p \in DOMAIN w : w[p] = j
                                 /\ l[i].accounts \cap l[j].accounts # {}
                                 /\ l[j].score >= l[i].score
                                 /\ l[j].score = l[i].score => j < i
    <3>1. PICK p \in 1 .. n : o[p] = i
      BY <1>3
    <3>2. o[p] \notin Elements(w)
      BY <2>7, <3>1 DEF Elements
    <3>3. PICK j \in Elements(w) : /\ Block!SoldBefore(l, j, i)
                                   /\ l[j].accounts \cap l[i].accounts # {}
      BY <2>2, <3>1, <3>2 DEF ChosenWell
    <3>4. j \in 1 .. n /\ \E q \in DOMAIN w : w[q] = j
      BY <2>4, <3>3 DEF Elements
    <3>5. l[j].score >= l[i].score /\ (l[j].score = l[i].score => j < i)
      BY <2>5, <3>3, <3>4
    <3> QED
      BY <3>3, <3>4, <3>5
  <2>8. Block!BestOf(l, w)
    BY <1>1, <2>6, <2>7 DEF Block!BestOf
  <2> QED
    BY <1>5, <2>1, <2>8
<1> QED
  BY <1>7, <1>8

\* select_winners picks, for any list of submissions, bundles that do not
\* conflict, and leaves out only those that lost to a better one.
THEOREM WinnersAreBest == LibrarySpec => []WinnersBest
<1>1. LibraryInit => WinnersBest
  BY DEF LibraryInit, WinnersBest, Block!BestOf
<1>2. WinnersBest /\ [LibraryNext]_libraryVars => WinnersBest'
  <2> SUFFICES ASSUME WinnersBest, [LibraryNext]_libraryVars PROVE WinnersBest'
    OBVIOUS
  <2>1. CASE Select
    <3>1. PICK l \in Lists : l = list'
      BY <2>1 DEF Select
    <3>2. Block!BestOf(l, Block!select_winners(l))
      BY <3>1, LibraryAssumption, SelectsBest
    <3>3. PICK w : w = Block!select_winners(l) /\ w = winners'
      BY <2>1, <3>1 DEF Select
    <3>4. Block!BestOf(l, w)
      BY <3>2, <3>3
    <3> QED
      BY <3>1, <3>3, <3>4 DEF WinnersBest, Block!BestOf
  <2>2. CASE UNCHANGED selectVars
    BY <2>2 DEF selectVars, WinnersBest, Block!BestOf
  <2> QED
    BY <2>1, <2>2 DEF LibraryNext, libraryVars
<1> QED
  BY <1>1, <1>2, PTL DEF LibrarySpec
=============================================================================
