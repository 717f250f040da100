---------------------- MODULE AsyncAccountLocks_proof ----------------------
(***************************************************************************)
(* The async guards, for any finite set of tasks and any accounts: across  *)
(* awaits, cancellations and drops half way the tables hold the guards'    *)
(* accounts and what failed drops left, the guards implement               *)
(* AccountLocking, and only a drop that meets another operation leaks.     *)
(***************************************************************************)
EXTENDS AsyncAccountLocks, FiniteSetTheorems, TLAPS

AccountSets == [w : SUBSET Accounts, r : SUBSET Accounts]

\* Where a task that has a request on write_locked, or on read_locked, is.
AtWLock == {"acqW", "acqR", "relW", "relR", "probeW", "probeR", "dropHasW"}
AtRLock == {"acqR", "relR", "probeR", "dropHasR"}

Pcs == {"free", "held", "dropTryW", "dropTryR"} \cup AtWLock \cup AtRLock

TypeOK ==
  /\ write_locked \in SUBSET Accounts
  /\ IsReadTable(read_locked)
  /\ pc \in [Tasks -> Pcs]
  /\ req \in [Tasks -> AccountSets]
  /\ leakedW \in SUBSET Accounts
  /\ leakedR \in Seq(SUBSET Accounts)

ReadersOf(a) == {t \in HasReads : a \in req[t].r}

\* The counts of the read table, 0 for an account without an entry.
CountsExact ==
  \A a \in Accounts :
    Readers(read_locked, a) = Cardinality(ReadersOf(a)) + Cardinality(LeaksOf(a))

WritesExact ==
  \A a \in Accounts :
    a \in write_locked <=> a \in leakedW \/ \E t \in HasWrites : a \in req[t].w

\* Exactness is not inductive alone: giving back one task's writes leaves the
\* table exact only if no other task and no failed drop has them, too.
Apart ==
  \A t \in HasWrites :
    /\ req[t].w \cap leakedW = {}
    /\ \A u \in HasWrites : u # t => req[t].w \cap req[u].w = {}
    /\ \A u \in HasReads : u # t => req[t].w \cap req[u].r = {}

IInv == TypeOK /\ WritesExact /\ CountsExact /\ Apart

-----------------------------------------------------------------------------
(* Sets and counts *)

\* The readers and the leaks of an account are finitely many.
LEMMA CountsFinite ==
  ASSUME TypeOK, NEW a
  PROVE  /\ IsFiniteSet(ReadersOf(a)) /\ Cardinality(ReadersOf(a)) \in Nat
         /\ IsFiniteSet(LeaksOf(a)) /\ Cardinality(LeaksOf(a)) \in Nat
<1>1. ReadersOf(a) \subseteq Tasks
  BY DEF ReadersOf, HasReads, HasWrites
<1>2. IsFiniteSet(ReadersOf(a))
  BY <1>1, TasksFinite, FS_Subset
<1>3. LeaksOf(a) \subseteq 1 .. Len(leakedR) /\ Len(leakedR) \in Nat
  BY DEF LeaksOf, TypeOK
<1>4. IsFiniteSet(1 .. Len(leakedR))
  BY <1>3, FS_Interval
<1>5. IsFiniteSet(LeaksOf(a))
  BY <1>3, <1>4, FS_Subset
<1> QED
  BY <1>2, <1>5, FS_CardinalityType

\* An account has an entry in the read table exactly when a guard reads it or
\* a failed drop left it.
LEMMA EntryIffRead ==
  ASSUME IInv, NEW a \in Accounts
  PROVE  a \in DOMAIN read_locked <=> ReadersOf(a) # {} \/ LeaksOf(a) # {}
<1>1. a \in DOMAIN read_locked <=> Readers(read_locked, a) # 0
  BY DEF IInv, TypeOK, IsReadTable, Readers
<1>2. Cardinality(ReadersOf(a)) = 0 <=> ReadersOf(a) = {}
  BY CountsFinite, FS_EmptySet DEF IInv
<1>3. Cardinality(LeaksOf(a)) = 0 <=> LeaksOf(a) = {}
  BY CountsFinite, FS_EmptySet DEF IInv
<1> QED
  BY <1>1, <1>2, <1>3, CountsFinite DEF IInv, CountsExact

\* DropReaders takes one reader from each account of R that has an entry.
LEMMA DropReadersCounts ==
  ASSUME NEW rl, IsReadTable(rl), NEW R \in SUBSET Accounts
  PROVE  /\ IsReadTable(DropReaders(rl, R))
         /\ \A a : Readers(DropReaders(rl, R), a)
                     = IF a \in R /\ Readers(rl, a) # 0 THEN Readers(rl, a) - 1
                       ELSE Readers(rl, a)
<1> DEFINE new == DropReaders(rl, R)
<1>1. DOMAIN new = {x \in DOMAIN rl : ~(x \in R /\ rl[x] = 1)}
  BY DEF DropReaders
<1>2. \A a \in DOMAIN new : new[a] = rl[a] - (IF a \in R THEN 1 ELSE 0)
  BY DEF DropReaders
<1>3. \A a \in DOMAIN rl : rl[a] \in Nat \ {0}
  BY DEF IsReadTable
<1>4. \A a \in DOMAIN new : new[a] \in Nat \ {0}
  BY <1>1, <1>2, <1>3
<1>5. new \in [DOMAIN new -> Nat \ {0}]
  BY <1>4 DEF DropReaders
<1> QED
  BY <1>1, <1>2, <1>3, <1>5 DEF IsReadTable, Readers

\* One reader fewer of the accounts that task t read and no longer has.
LEMMA ReadsGivenBack ==
  ASSUME IInv, NEW t \in HasReads,
         read_locked' = DropReaders(read_locked, req[t].r),
         HasReads' = HasReads \ {t}, UNCHANGED <<req, leakedR>>
  PROVE  IsReadTable(read_locked)' /\ CountsExact'
<1>1. t \in Tasks /\ req[t].r \in SUBSET Accounts
  BY DEF IInv, TypeOK, AccountSets, HasReads, HasWrites
<1>2. IsReadTable(read_locked)'
  BY <1>1, DropReadersCounts DEF IInv, TypeOK
<1>3. ASSUME NEW a \in Accounts
      PROVE  Readers(read_locked', a) = Cardinality(ReadersOf(a)') + Cardinality(LeaksOf(a)')
  <2>1. LeaksOf(a)' = LeaksOf(a) /\ ReadersOf(a)' = ReadersOf(a) \ {t}
    BY DEF LeaksOf, ReadersOf
  <2>2. /\ IsFiniteSet(ReadersOf(a)) /\ Cardinality(ReadersOf(a)) \in Nat
        /\ Cardinality(LeaksOf(a)) \in Nat
    BY CountsFinite DEF IInv
  <2>3. Readers(read_locked, a) = Cardinality(ReadersOf(a)) + Cardinality(LeaksOf(a))
    BY DEF IInv, CountsExact
  <2>4. Readers(read_locked', a) = IF a \in req[t].r /\ Readers(read_locked, a) # 0
                                   THEN Readers(read_locked, a) - 1
                                   ELSE Readers(read_locked, a)
    BY <1>1, DropReadersCounts DEF IInv, TypeOK
  <2>5. CASE a \in req[t].r
    <3>1. t \in ReadersOf(a)
      BY <2>5 DEF ReadersOf
    <3>2. Cardinality(ReadersOf(a) \ {t}) = Cardinality(ReadersOf(a)) - 1
      BY <2>2, <3>1, FS_RemoveElement
    <3>3. Cardinality(ReadersOf(a)) # 0
      BY <2>2, <3>1, FS_EmptySet
    <3> QED
      BY <2>1, <2>2, <2>3, <2>4, <2>5, <3>2, <3>3
  <2>6. CASE a \notin req[t].r
    <3>1. ReadersOf(a) \ {t} = ReadersOf(a)
      BY <2>6 DEF ReadersOf
    <3> QED
      BY <2>1, <2>3, <2>4, <2>6, <3>1
  <2> QED
    BY <2>5, <2>6
<1> QED
  BY <1>2, <1>3 DEF CountsExact

\* Nothing to give back or to count: the sets of holders stay.
LEMMA HoldersStay ==
  ASSUME IInv, UNCHANGED <<write_locked, read_locked, leakedW, leakedR>>,
         HasWrites' = HasWrites, HasReads' = HasReads,
         \A t \in HasReads : req'[t] = req[t],
         TypeOK'
  PROVE  IInv'
<1>1. \A t \in HasWrites : req'[t] = req[t]
  BY DEF HasReads
<1>2. \A a : ReadersOf(a)' = ReadersOf(a) /\ LeaksOf(a)' = LeaksOf(a)
  BY DEF ReadersOf, LeaksOf
<1>3. CountsExact'
  BY <1>2 DEF IInv, CountsExact
<1>4. WritesExact'
  BY <1>1 DEF IInv, WritesExact
<1>5. Apart'
  BY <1>1 DEF IInv, Apart
<1> QED
  BY <1>3, <1>4, <1>5 DEF IInv

-----------------------------------------------------------------------------
(* The steps *)

\* The tables are empty and no guard is held.
LEMMA InitInv == Init => IInv
<1> SUFFICES ASSUME Init PROVE IInv
  OBVIOUS
<1>1. TypeOK
  BY DEF Init, TypeOK, Pcs, AccountSets, IsReadTable, NoReaders
<1>2. HasWrites = {} /\ HasReads = {}
  BY DEF Init, HasReads, HasWrites
<1>3. WritesExact /\ Apart
  BY <1>2 DEF Init, WritesExact, Apart
<1>4. ASSUME NEW a \in Accounts
      PROVE  Readers(read_locked, a) = Cardinality(ReadersOf(a)) + Cardinality(LeaksOf(a))
  <2>1. ReadersOf(a) = {} /\ LeaksOf(a) = {}
    BY <1>2 DEF Init, ReadersOf, LeaksOf
  <2>2. Readers(read_locked, a) = 0
    BY DEF Init, Readers, NoReaders
  <2> QED
    BY <2>1, <2>2, FS_EmptySet
<1> QED
  BY <1>1, <1>3, <1>4 DEF IInv, CountsExact

\* The operations that only wait, ask, answer or give up.
LEMMA WaitingStep ==
  ASSUME IInv, NEW t \in Tasks,
         \/ \E q \in Requests : BeginAcquire(t, q) \/ BeginProbe(t, q)
         \/ BeginRelease(t) \/ BeginDrop(t) \/ Cancel(t)
         \/ AwaitReadTable(t) \/ RefuseAcquire(t) \/ FinishProbe(t)
         \/ TryWriteTable(t) \/ TryReadTable(t)
  PROVE  IInv'
<1> USE DEF Goto, tables
<1>1. TypeOK /\ pc \in [Tasks -> Pcs]
  BY DEF IInv, TypeOK
<1>2. Requests \subseteq AccountSets
  BY RequestsAssumption DEF AccountSets
<1>3. CASE \E q \in Requests : BeginAcquire(t, q) \/ BeginProbe(t, q)
  <2>1. PICK q \in AccountSets :
          /\ pc[t] = "free" /\ req' = [req EXCEPT ![t] = q]
          /\ pc' = [pc EXCEPT ![t] = "acqW"] \/ pc' = [pc EXCEPT ![t] = "probeW"]
          /\ UNCHANGED tables
    BY <1>2, <1>3 DEF BeginAcquire, BeginProbe
  <2>2. TypeOK'
    BY <1>1, <2>1 DEF TypeOK, Pcs, AtWLock
  <2>3. HasWrites' = HasWrites /\ HasReads' = HasReads /\ t \notin HasReads
    BY <1>1, <2>1 DEF HasReads, HasWrites
  <2>4. \A u \in HasReads : req'[u] = req[u]
    BY <1>1, <2>1, <2>3 DEF TypeOK
  <2> QED
    BY <2>1, <2>2, <2>3, <2>4, HoldersStay
<1>4. CASE \/ BeginRelease(t) \/ BeginDrop(t) \/ Cancel(t)
           \/ AwaitReadTable(t) \/ RefuseAcquire(t) \/ FinishProbe(t)
           \/ TryWriteTable(t) \/ TryReadTable(t)
  <2>1. /\ UNCHANGED <<req, tables>>
        /\ \E to \in Pcs :
             /\ pc' = [pc EXCEPT ![t] = to]
             /\ \/ pc[t] \in {"held", "relW", "relR", "dropTryW"} /\ to \in {"relW", "relR", "dropTryW", "dropHasW"}
                \/ pc[t] = "dropTryR" /\ to = "dropHasR"
                \/ /\ pc[t] \in {"acqW", "acqR", "probeW", "probeR"}
                   /\ to \in {"free", "acqR", "probeR"}
    BY <1>4 DEF BeginRelease, BeginDrop, Cancel, AwaitReadTable, RefuseAcquire, FinishProbe,
                TryWriteTable, TryReadTable, Pcs, AtWLock, AtRLock
  <2>2. TypeOK'
    BY <1>1, <2>1 DEF TypeOK
  <2>3. HasWrites' = HasWrites /\ HasReads' = HasReads
    BY <1>1, <2>1 DEF HasReads, HasWrites
  <2> QED
    BY <2>1, <2>2, <2>3, HoldersStay
<1> QED
  BY <1>3, <1>4

\* The tables speak for the guards: what acquire() does not refuse conflicts
\* with no other holder and with nothing left behind.
LEMMA AdmittedIsApart ==
  ASSUME IInv, NEW t \in Tasks, t \notin HasReads, ~would_conflict(t)
  PROVE  /\ req[t].w \cap leakedW = {}
         /\ \A u \in HasWrites : /\ req[t].w \cap req[u].w = {}
                                 /\ req[t].r \cap req[u].w = {}
         /\ \A u \in HasReads : req[t].w \cap req[u].r = {}
<1>1. /\ req[t].w \cap write_locked = {} /\ req[t].w \cap DOMAIN read_locked = {}
      /\ req[t].r \cap write_locked = {}
  BY DEF would_conflict, Conflicts
<1>2. ASSUME NEW u \in HasReads PROVE req[u].r \subseteq DOMAIN read_locked
  <2>1. u \in Tasks /\ req[u].r \subseteq Accounts
    BY <1>2 DEF IInv, TypeOK, AccountSets, HasReads, HasWrites
  <2>2. ASSUME NEW a \in req[u].r PROVE a \in DOMAIN read_locked
    <3>1. u \in ReadersOf(a)
      BY <1>2 DEF ReadersOf
    <3> QED
      BY <2>1, <3>1, EntryIffRead
  <2> QED
    BY <2>2
<1>3. leakedW \subseteq write_locked /\ \A u \in HasWrites : req[u].w \subseteq write_locked
  BY DEF IInv, TypeOK, AccountSets, HasWrites, WritesExact
<1> QED
  BY <1>1, <1>2, <1>3

\* acquire() takes the accounts.
LEMMA AcquireStep ==
  ASSUME IInv, NEW t \in Tasks, FinishAcquire(t)
  PROVE  IInv'
<1> DEFINE W == req[t].w
           R == req[t].r
<1>1. /\ pc[t] = "acqR" /\ pc' = [pc EXCEPT ![t] = "held"]
      /\ write_locked' = write_locked \cup W
      /\ read_locked' = AddReaders(read_locked, R)
      /\ UNCHANGED <<req, leakedW, leakedR>>
  BY DEF FinishAcquire, Goto
<1>2. W \in SUBSET Accounts /\ R \in SUBSET Accounts
  BY DEF IInv, TypeOK, AccountSets
<1>3. /\ t \notin HasReads /\ t \notin HasWrites
      /\ HasReads' = HasReads \cup {t} /\ HasWrites' = HasWrites \cup {t}
  BY <1>1 DEF IInv, TypeOK, HasReads, HasWrites
<1>4. /\ IsReadTable(read_locked')
      /\ \A a : Readers(read_locked', a) = Readers(read_locked, a) + (IF a \in R THEN 1 ELSE 0)
  <2>1. /\ DOMAIN read_locked' = DOMAIN read_locked \cup R
        /\ \A a \in DOMAIN read_locked' :
             read_locked'[a] = Readers(read_locked, a) + (IF a \in R THEN 1 ELSE 0)
    BY <1>1 DEF AddReaders
  <2>2. \A a : Readers(read_locked, a) \in Nat /\ (a \in DOMAIN read_locked => Readers(read_locked, a) # 0)
    BY DEF IInv, TypeOK, IsReadTable, Readers
  <2>3. \A a \in DOMAIN read_locked' : read_locked'[a] \in Nat \ {0}
    BY <2>1, <2>2
  <2>4. read_locked' \in [DOMAIN read_locked' -> Nat \ {0}]
    BY <1>1, <2>3 DEF AddReaders
  <2>5. IsReadTable(read_locked')
    BY <1>2, <2>1, <2>4 DEF IInv, TypeOK, IsReadTable
  <2>6. \A a : Readers(read_locked', a) = Readers(read_locked, a) + (IF a \in R THEN 1 ELSE 0)
    BY <2>1, <2>2 DEF Readers
  <2> QED
    BY <2>5, <2>6
<1>5. TypeOK'
  BY <1>1, <1>2, <1>4 DEF IInv, TypeOK, Pcs
<1>6. ASSUME NEW a \in Accounts
      PROVE  Readers(read_locked', a) = Cardinality(ReadersOf(a)') + Cardinality(LeaksOf(a)')
  <2>1. /\ LeaksOf(a)' = LeaksOf(a)
        /\ ReadersOf(a)' = IF a \in R THEN ReadersOf(a) \cup {t} ELSE ReadersOf(a)
    BY <1>1, <1>3 DEF LeaksOf, ReadersOf
  <2>2. /\ IsFiniteSet(ReadersOf(a)) /\ Cardinality(ReadersOf(a)) \in Nat
        /\ Cardinality(LeaksOf(a)) \in Nat /\ t \notin ReadersOf(a)
    BY <1>3, CountsFinite DEF IInv, ReadersOf
  <2>3. Cardinality(ReadersOf(a) \cup {t}) = Cardinality(ReadersOf(a)) + 1
    BY <2>2, FS_AddElement
  <2>4. Readers(read_locked, a) = Cardinality(ReadersOf(a)) + Cardinality(LeaksOf(a))
    BY DEF IInv, CountsExact
  <2>5. Readers(read_locked', a) = Readers(read_locked, a) + (IF a \in R THEN 1 ELSE 0)
    BY <1>4
  <2> QED
    BY <2>1, <2>2, <2>3, <2>4, <2>5
<1>7. WritesExact'
  BY <1>1, <1>3 DEF IInv, WritesExact
<1>8. Apart'
  <2>1. ~would_conflict(t)
    BY DEF FinishAcquire
  <2> QED
    BY <1>1, <1>3, <2>1, AdmittedIsApart DEF IInv, Apart
<1> QED
  BY <1>5, <1>6, <1>7, <1>8 DEF IInv, CountsExact

\* release() gives writes and reads back, a drop one after the other.
LEMMA GiveBackStep ==
  ASSUME IInv, NEW t \in Tasks, FinishRelease(t) \/ DropWrites(t) \/ DropReads(t)
  PROVE  IInv'
<1>1. req[t].w \in SUBSET Accounts /\ UNCHANGED <<req, leakedW, leakedR>>
  BY DEF IInv, TypeOK, AccountSets, FinishRelease, DropWrites, DropReads
<1>2. HasWrites \subseteq HasReads
  BY DEF HasReads
<1>3. ASSUME t \in HasWrites, write_locked' = write_locked \ req[t].w,
             HasWrites' = HasWrites \ {t}, HasReads' \subseteq HasReads
      PROVE  WritesExact' /\ Apart'
  <2>1. \A u \in HasWrites \ {t} : req[t].w \cap req[u].w = {}
    BY <1>3 DEF IInv, Apart
  <2>2. req[t].w \cap leakedW = {}
    BY <1>3 DEF IInv, Apart
  <2>3. WritesExact'
    BY <1>1, <1>3, <2>1, <2>2 DEF IInv, WritesExact
  <2>4. Apart'
    BY <1>1, <1>3 DEF IInv, Apart
  <2> QED
    BY <2>3, <2>4
<1>4. CASE FinishRelease(t)
  <2>1. /\ t \in HasWrites /\ t \in HasReads
        /\ HasWrites' = HasWrites \ {t} /\ HasReads' = HasReads \ {t}
    BY <1>4 DEF IInv, TypeOK, FinishRelease, Goto, HasReads, HasWrites
  <2>2. IsReadTable(read_locked)' /\ CountsExact'
    BY <1>1, <1>4, <2>1, ReadsGivenBack DEF FinishRelease
  <2>3. TypeOK'
    BY <1>1, <1>4, <2>2 DEF IInv, TypeOK, FinishRelease, Goto, Pcs
  <2> QED
    BY <1>3, <1>4, <2>1, <2>2, <2>3 DEF IInv, FinishRelease
<1>5. CASE DropWrites(t)
  <2>1. t \in HasWrites /\ HasWrites' = HasWrites \ {t} /\ HasReads' = HasReads
    BY <1>5 DEF IInv, TypeOK, DropWrites, Goto, HasReads, HasWrites
  <2>2. TypeOK' /\ CountsExact'
    BY <1>1, <1>5, <2>1
    DEF IInv, TypeOK, DropWrites, Goto, Pcs, CountsExact, ReadersOf, LeaksOf
  <2> QED
    BY <1>3, <1>5, <2>1, <2>2 DEF IInv, DropWrites
<1>6. CASE DropReads(t)
  <2>1. t \in HasReads /\ HasWrites' = HasWrites /\ HasReads' = HasReads \ {t}
    BY <1>6 DEF IInv, TypeOK, DropReads, Goto, HasReads, HasWrites
  <2>2. IsReadTable(read_locked)' /\ CountsExact'
    BY <1>1, <1>6, <2>1, ReadsGivenBack DEF DropReads
  <2>3. TypeOK'
    BY <1>1, <1>6, <2>2 DEF IInv, TypeOK, DropReads, Goto, Pcs
  <2>4. WritesExact' /\ Apart'
    BY <1>1, <1>6, <2>1 DEF IInv, WritesExact, Apart, DropReads
  <2> QED
    BY <2>2, <2>3, <2>4 DEF IInv
<1> QED
  BY <1>4, <1>5, <1>6
\* A try_write that fails leaves accounts behind, which stay as they were in
\* the tables.
LEMMA LeakStep ==
  ASSUME IInv, NEW t \in Tasks, MissWriteTable(t) \/ MissReadTable(t)
  PROVE  IInv'
<1>1. req[t].w \in SUBSET Accounts /\ req[t].r \in SUBSET Accounts
  BY DEF IInv, TypeOK, AccountSets
<1>2. CASE MissWriteTable(t)
  <2>1. /\ UNCHANGED <<req, read_locked, write_locked, leakedR>>
        /\ leakedW' = leakedW \cup req[t].w
    BY <1>2 DEF MissWriteTable
  <2>2. /\ t \in HasWrites /\ HasWrites' = HasWrites \ {t} /\ HasReads' = HasReads
        /\ HasWrites \subseteq HasReads
    BY <1>2 DEF IInv, TypeOK, MissWriteTable, Goto, HasReads, HasWrites
  <2>3. TypeOK'
    BY <1>1, <1>2, <2>1 DEF IInv, TypeOK, MissWriteTable, Goto, Pcs
  <2>4. CountsExact'
    BY <2>1, <2>2 DEF IInv, CountsExact, ReadersOf, LeaksOf
  <2>5. WritesExact'
    BY <2>1, <2>2 DEF IInv, WritesExact
  <2>6. Apart'
    BY <2>1, <2>2 DEF IInv, Apart
  <2> QED
    BY <2>3, <2>4, <2>5, <2>6 DEF IInv
<1>3. CASE MissReadTable(t)
  <2> DEFINE R == req[t].r
  <2>1. /\ UNCHANGED <<req, read_locked, write_locked, leakedW>>
        /\ leakedR' = IF R = {} THEN leakedR ELSE Append(leakedR, R)
    BY <1>3 DEF MissReadTable
  <2>2. t \in HasReads /\ HasWrites' = HasWrites /\ HasReads' = HasReads \ {t}
    BY <1>3 DEF IInv, TypeOK, MissReadTable, Goto, HasReads, HasWrites
  <2>3. TypeOK'
    BY <1>1, <1>3, <2>1 DEF IInv, TypeOK, MissReadTable, Goto, Pcs
  <2>4. ASSUME NEW a \in Accounts
        PROVE  Readers(read_locked', a) = Cardinality(ReadersOf(a)') + Cardinality(LeaksOf(a)')
    <3>1. ReadersOf(a)' = ReadersOf(a) \ {t}
      BY <2>1, <2>2 DEF ReadersOf
    <3>2. /\ IsFiniteSet(ReadersOf(a)) /\ Cardinality(ReadersOf(a)) \in Nat
          /\ IsFiniteSet(LeaksOf(a)) /\ Cardinality(LeaksOf(a)) \in Nat
      BY CountsFinite DEF IInv
    <3>3. Readers(read_locked', a) = Cardinality(ReadersOf(a)) + Cardinality(LeaksOf(a))
      BY <2>1 DEF IInv, CountsExact
    <3>4. CASE a \in R
      <4>1. t \in ReadersOf(a)
        BY <2>2, <3>4 DEF ReadersOf
      <4>2. Cardinality(ReadersOf(a) \ {t}) = Cardinality(ReadersOf(a)) - 1
        BY <3>2, <4>1, FS_RemoveElement
      <4>3. leakedR \in Seq(SUBSET Accounts) /\ leakedR' = Append(leakedR, R)
        BY <2>1, <3>4 DEF IInv, TypeOK
      <4>4. /\ Len(leakedR) \in Nat /\ DOMAIN leakedR = 1 .. Len(leakedR)
            /\ DOMAIN leakedR' = DOMAIN leakedR \cup {Len(leakedR) + 1}
            /\ leakedR'[Len(leakedR) + 1] = R
            /\ \A i \in DOMAIN leakedR : leakedR'[i] = leakedR[i]
        BY <1>1, <4>3
      <4>5. /\ LeaksOf(a)' = LeaksOf(a) \cup {Len(leakedR) + 1}
            /\ Len(leakedR) + 1 \notin LeaksOf(a)
        BY <3>4, <4>4 DEF LeaksOf
      <4>6. Cardinality(LeaksOf(a)') = Cardinality(LeaksOf(a)) + 1
        BY <3>2, <4>5, FS_AddElement
      <4> QED
        BY <3>1, <3>2, <3>3, <4>2, <4>6
    <3>5. CASE a \notin R
      <4>1. ReadersOf(a) \ {t} = ReadersOf(a)
        BY <3>5 DEF ReadersOf
      <4>2. leakedR \in Seq(SUBSET Accounts)
        BY DEF IInv, TypeOK
      <4>3. LeaksOf(a)' = LeaksOf(a)
        BY <1>1, <2>1, <3>5, <4>2 DEF LeaksOf
      <4> QED
        BY <3>1, <3>3, <4>1, <4>3
    <3> QED
      BY <3>4, <3>5
  <2>5. WritesExact' /\ Apart'
    BY <2>1, <2>2 DEF IInv, WritesExact, Apart
  <2> QED
    BY <2>3, <2>4, <2>5 DEF IInv, CountsExact
<1> QED
  BY <1>2, <1>3

\* Every step of a task, a cancellation and a drop keeps the invariant.
LEMMA StepInv == IInv /\ [Next]_vars => IInv'
<1>1. ASSUME IInv, Next PROVE IInv'
  BY <1>1, WaitingStep, AcquireStep, GiveBackStep, LeakStep DEF Next, Proceed
<1>2. ASSUME IInv, UNCHANGED vars PROVE IInv'
  <2>1. TypeOK'
    BY <1>2 DEF vars, IInv, TypeOK
  <2> QED
    BY <1>2, <2>1, HoldersStay DEF vars, HasReads, HasWrites
<1> QED
  BY <1>1, <1>2

\* The inductive invariant of the async guards, across every await,
\* cancellation and drop (acquire, release and Drop of AsyncAccountLocks).
THEOREM GuardsInvariant == Spec => []IInv
BY InitInv, StepInv, PTL DEF Spec

\* The tables are the guards' accounts and what failed drops left behind:
\* neither cancellation, nor a drop half way, nor a release after a leak
\* unlocks an account that a guard still holds.
THEOREM TablesAreExact == Spec => []TablesExact
<1>1. ASSUME IInv PROVE TablesExact
  <2>1. /\ write_locked \subseteq Accounts /\ leakedW \subseteq Accounts
        /\ DOMAIN read_locked \subseteq Accounts
        /\ \A i \in DOMAIN leakedR : leakedR[i] \subseteq Accounts
        /\ \A t \in HasReads : req[t].w \subseteq Accounts /\ req[t].r \subseteq Accounts
        /\ HasWrites \subseteq HasReads
    BY <1>1 DEF IInv, TypeOK, IsReadTable, AccountSets, HasReads, HasWrites
  <2>2. write_locked = (UNION {req[t].w : t \in HasWrites}) \cup leakedW
    <3> DEFINE all == UNION {req[t].w : t \in HasWrites}
    <3>1. \A a : a \in all <=> \E t \in HasWrites : a \in req[t].w
      OBVIOUS
    <3>2. \A a \in Accounts : a \in write_locked <=> a \in all \/ a \in leakedW
      BY <1>1, <3>1 DEF IInv, WritesExact
    <3>3. all \subseteq Accounts
      BY <2>1, <3>1
    <3> HIDE DEF all
    <3>4. write_locked = all \cup leakedW
      BY <2>1, <3>2, <3>3
    <3> QED
      BY <3>4 DEF all
  <2>3. DOMAIN read_locked =
          (UNION {req[t].r : t \in HasReads}) \cup (UNION {leakedR[i] : i \in DOMAIN leakedR})
    <3>1. \A a \in Accounts : a \in DOMAIN read_locked <=>
            \/ \E t \in HasReads : a \in req[t].r
            \/ \E i \in DOMAIN leakedR : a \in leakedR[i]
      BY <1>1, EntryIffRead DEF ReadersOf, LeaksOf
    <3> DEFINE held == UNION {req[t].r : t \in HasReads}
               left == UNION {leakedR[i] : i \in DOMAIN leakedR}
    <3>2. \A a : a \in held <=> \E t \in HasReads : a \in req[t].r
      OBVIOUS
    <3>3. \A a : a \in left <=> \E i \in DOMAIN leakedR : a \in leakedR[i]
      OBVIOUS
    <3>4. held \subseteq Accounts /\ left \subseteq Accounts
      BY <2>1, <3>2, <3>3
    <3> HIDE DEF held, left
    <3>5. DOMAIN read_locked = held \cup left
      BY <2>1, <3>1, <3>2, <3>3, <3>4
    <3> QED
      BY <3>5 DEF held, left
  <2>4. \A a \in DOMAIN read_locked :
          read_locked[a] = Cardinality(ReadersOf(a)) + Cardinality(LeaksOf(a))
    BY <1>1, <2>1 DEF IInv, CountsExact, Readers
  <2> QED
    BY <2>2, <2>3, <2>4 DEF TablesExact, ReadersOf
<1> QED
  BY <1>1, GuardsInvariant, PTL

-----------------------------------------------------------------------------
(* AccountLocking *)

\* The guards in use implement AccountLocking, across the awaits, the
\* cancellations and the drops of all the others.
THEOREM AsyncLocksImplementLocking == Spec => LockingSpec
<1> DEFINE writes == [t \in Tasks |-> IF t \in Owned THEN req[t].w ELSE {}]
           reads  == [t \in Tasks |-> IF t \in Owned THEN req[t].r ELSE {}]
<1>1. Init => Locking!Init
  BY DEF Init, Owned, Locking!Init
<1>2. ASSUME IInv, NEW t \in Tasks, FinishAcquire(t),
             NEW W, NEW R, W = req[t].w, R = req[t].r
      PROVE  Locking!Acquire(t, W, R)
  <2>1. /\ pc[t] = "acqR" /\ pc' = [pc EXCEPT ![t] = "held"] /\ req' = req
        /\ ~would_conflict(t)
    BY <1>2 DEF FinishAcquire, Goto
  <2>2. t \notin HasReads /\ t \notin Owned /\ Owned' = Owned \cup {t}
    BY <1>2, <2>1 DEF IInv, TypeOK, HasReads, HasWrites, Owned
  <2>3. \A u \in Owned : u \in HasWrites /\ u \in HasReads
    BY DEF Owned, HasReads, HasWrites
  <2>4. \A u \in Tasks : Locking!Compatible(W, R, writes[u], reads[u])
    BY <1>2, <2>1, <2>2, <2>3, AdmittedIsApart DEF Locking!Compatible
  <2>5. writes' = [writes EXCEPT ![t] = W] /\ reads' = [reads EXCEPT ![t] = R]
    BY <1>2, <2>1, <2>2
  <2> QED
    BY <2>2, <2>4, <2>5 DEF Locking!Acquire
<1>3. ASSUME IInv, NEW t \in Tasks, BeginRelease(t) \/ BeginDrop(t) PROVE Locking!Release(t)
  <2>1. req' = req /\ Owned' = Owned \ {t}
    BY <1>3 DEF IInv, TypeOK, BeginRelease, BeginDrop, Goto, Owned
  <2> QED
    BY <2>1 DEF Locking!Release
<1>4. ASSUME IInv, NEW t \in Tasks,
             \/ \E q \in Requests : BeginAcquire(t, q) \/ BeginProbe(t, q)
             \/ Cancel(t) \/ AwaitReadTable(t) \/ RefuseAcquire(t) \/ FinishProbe(t)
             \/ FinishRelease(t)
             \/ TryWriteTable(t) \/ MissWriteTable(t) \/ DropWrites(t)
             \/ TryReadTable(t) \/ MissReadTable(t) \/ DropReads(t)
      PROVE  UNCHANGED Locking!vars
  <2>1. /\ t \notin Owned /\ Owned' = Owned
        /\ \A u \in Owned : req'[u] = req[u]
    BY <1>4
    DEF IInv, TypeOK, Owned, Goto, BeginAcquire, BeginProbe, Cancel, AwaitReadTable,
        RefuseAcquire, FinishProbe, FinishRelease, TryWriteTable, MissWriteTable,
        DropWrites, TryReadTable, MissReadTable, DropReads
  <2>2. writes' = writes /\ reads' = reads
    BY <2>1
  <2> QED
    BY <2>2 DEF Locking!vars
<1>5. ASSUME IInv, [Next]_vars PROVE [Locking!Next]_(Locking!vars)
  <2>1. ASSUME NEW t \in Tasks, FinishAcquire(t) PROVE Locking!Next
    <3>1. PICK W, R \in SUBSET Accounts : W = req[t].w /\ R = req[t].r
      BY <1>5 DEF IInv, TypeOK, AccountSets
    <3>2. Locking!Acquire(t, W, R)
      BY <1>2, <1>5, <2>1, <3>1
    <3> QED
      BY <3>2 DEF Locking!Next
  <2>2. ASSUME NEW t \in Tasks, BeginRelease(t) \/ BeginDrop(t) PROVE Locking!Next
    BY <1>3, <1>5, <2>2 DEF Locking!Next
  <2>3. CASE UNCHANGED vars
    BY <2>3 DEF vars, Owned, Locking!vars
  <2>4. CASE Next
    BY <1>4, <1>5, <2>1, <2>2, <2>4 DEF Next, Proceed
  <2> QED
    BY <1>5, <2>3, <2>4
<1> QED
  BY <1>1, <1>5, GuardsInvariant, PTL DEF Spec, Locking!Spec, LockingSpec
-----------------------------------------------------------------------------
(* The RwLocks, and what a drop may meet *)

LockRequest == [task : Tasks, mode : {"read", "write"}]

\* The requests on a lock are by different tasks, those at a place where they
\* have one; where[t] is the place of task t.
LockHeldAt(lock, where, places) ==
  /\ lock \in Seq(LockRequest)
  /\ \A i \in DOMAIN lock : where[lock[i].task] \in places
  /\ \A t \in Tasks : where[t] \in places => \E i \in DOMAIN lock : lock[i].task = t
  /\ \A i, j \in DOMAIN lock : lock[i].task = lock[j].task => i = j

LocksInv ==
  /\ pc \in [Tasks -> Pcs]
  /\ LockHeldAt(wLock, pc, AtWLock)
  /\ LockHeldAt(rLock, pc, AtRLock)

\* The requests of a lock are typed, and each is a task at one of the places.
LEMMA RequestsTyped ==
  ASSUME NEW places, NEW where, NEW lock, LockHeldAt(lock, where, places)
  PROVE  /\ lock \in Seq(LockRequest) /\ Len(lock) \in Nat /\ DOMAIN lock = 1 .. Len(lock)
         /\ \A i \in DOMAIN lock :
              lock[i] \in LockRequest /\ lock[i].task \in Tasks /\ where[lock[i].task] \in places
<1>1. lock \in Seq(LockRequest) /\ Len(lock) \in Nat /\ DOMAIN lock = 1 .. Len(lock)
  BY DEF LockHeldAt
<1>2. ASSUME NEW i \in DOMAIN lock PROVE lock[i] \in LockRequest /\ lock[i].task \in Tasks
  <2>1. lock[i] \in LockRequest
    BY <1>1
  <2> QED
    BY <2>1 DEF LockRequest
<1> QED
  BY <1>1, <1>2 DEF LockHeldAt

\* A new request comes last.
LEMMA RequestLast ==
  ASSUME NEW places, NEW where \in [Tasks -> Pcs], NEW lock, LockHeldAt(lock, where, places),
         NEW t \in Tasks, where[t] \notin places, NEW to \in places,
         NEW mode \in {"read", "write"}
  PROVE  LockHeldAt(Append(lock, Entry(t, mode)), [where EXCEPT ![t] = to], places)
<1> DEFINE new == Append(lock, Entry(t, mode))
<1>1. Entry(t, mode) \in LockRequest /\ Entry(t, mode).task = t
  BY DEF Entry, LockRequest
<1>2. lock \in Seq(LockRequest) /\ Len(lock) \in Nat /\ DOMAIN lock = 1 .. Len(lock)
  BY DEF LockHeldAt
<1>3. /\ new \in Seq(LockRequest) /\ DOMAIN new = 1 .. Len(lock) + 1
      /\ new[Len(lock) + 1].task = t
      /\ \A i \in 1 .. Len(lock) : new[i] = lock[i]
  BY <1>1, <1>2 DEF LockRequest
<1>4. \A i \in DOMAIN lock : /\ lock[i].task \in Tasks /\ where[lock[i].task] \in places
                             /\ lock[i].task # t
  BY RequestsTyped
<1> HIDE DEF new
<1>5. \A i \in DOMAIN new : i \in DOMAIN lock \/ i = Len(lock) + 1
  BY <1>2, <1>3
<1>6. \A i \in DOMAIN new : [where EXCEPT ![t] = to][new[i].task] \in places
  BY <1>2, <1>3, <1>4, <1>5
<1>7. \A i, j \in DOMAIN new : new[i].task = new[j].task => i = j
  BY <1>2, <1>3, <1>4, <1>5 DEF LockHeldAt
<1>8. ASSUME NEW u \in Tasks, [where EXCEPT ![t] = to][u] \in places
      PROVE  \E i \in DOMAIN new : new[i].task = u
  <2>1. CASE u = t
    BY <1>2, <1>3, <2>1
  <2>2. CASE u # t
    <3>1. PICK i \in DOMAIN lock : lock[i].task = u
      BY <1>8, <2>2 DEF LockHeldAt
    <3> QED
      BY <1>2, <1>3, <3>1
  <2> QED
    BY <2>1, <2>2
<1> QED
  BY <1>3, <1>6, <1>7, <1>8 DEF LockHeldAt, new

\* A task may move between places where it has a request, or has none.
LEMMA RequestsKept ==
  ASSUME NEW places, NEW where \in [Tasks -> Pcs], NEW lock, LockHeldAt(lock, where, places),
         NEW t \in Tasks, NEW to, where[t] \in places <=> to \in places
  PROVE  LockHeldAt(lock, [where EXCEPT ![t] = to], places)
<1>1. \A i \in DOMAIN lock : lock[i].task \in Tasks /\ where[lock[i].task] \in places
  BY RequestsTyped
<1> QED
  BY <1>1 DEF LockHeldAt

\* A task that gives its request back goes to a place where it has none.
LEMMA RequestGone ==
  ASSUME NEW places, NEW where \in [Tasks -> Pcs], NEW lock, LockHeldAt(lock, where, places),
         NEW t \in Tasks, NEW to, to \notin places
  PROVE  LockHeldAt(Without(lock, t), [where EXCEPT ![t] = to], places)
<1>1. /\ lock \in Seq(LockRequest) /\ Len(lock) \in Nat /\ DOMAIN lock = 1 .. Len(lock)
      /\ \A i \in DOMAIN lock : lock[i].task \in Tasks /\ where[lock[i].task] \in places
      /\ \A i, j \in DOMAIN lock : lock[i].task = lock[j].task => i = j
  <2>1. \A i, j \in DOMAIN lock : lock[i].task = lock[j].task => i = j
    BY DEF LockHeldAt
  <2> QED
    BY <2>1, RequestsTyped
<1>2. CASE \A i \in DOMAIN lock : lock[i].task # t
  <2>1. Without(lock, t) = lock
    BY <1>2 DEF Without
  <2> QED
    BY <1>1, <1>2, <2>1 DEF LockHeldAt
<1>3. CASE ~ \A i \in DOMAIN lock : lock[i].task # t
  <2> DEFINE k == CHOOSE i \in DOMAIN lock : lock[i].task = t
             new == [i \in 1 .. Len(lock) - 1 |-> lock[IF i < k THEN i ELSE i + 1]]
  <2>1. Without(lock, t) = new
    BY <1>3 DEF Without
  <2>2. k \in DOMAIN lock /\ lock[k].task = t
    BY <1>3
  <2> HIDE DEF k
  <2>3. ASSUME NEW i \in 1 .. Len(lock) - 1
        PROVE  \E m \in DOMAIN lock : /\ m # k /\ new[i] = lock[m]
                                      /\ m = IF i < k THEN i ELSE i + 1
    BY <1>1, <2>2
  <2>4. new \in Seq(LockRequest) /\ DOMAIN new = 1 .. Len(lock) - 1
    <3>1. \A i \in 1 .. Len(lock) - 1 : new[i] \in LockRequest
      BY <2>3, RequestsTyped
    <3>2. Len(lock) - 1 \in Nat
      BY <1>1, <2>2
    <3> QED
      BY <3>1, <3>2 DEF LockRequest
  <2> HIDE DEF new
  <2>5. \A i \in DOMAIN new : [where EXCEPT ![t] = to][new[i].task] \in places
    BY <1>1, <2>2, <2>3, <2>4
  <2>6. \A i, j \in DOMAIN new : new[i].task = new[j].task => i = j
    <3> SUFFICES ASSUME NEW i \in DOMAIN new, NEW j \in DOMAIN new, new[i].task = new[j].task
                 PROVE  i = j
      OBVIOUS
    <3>1. PICK m \in DOMAIN lock : new[i] = lock[m] /\ m = IF i < k THEN i ELSE i + 1
      BY <2>3, <2>4
    <3>2. PICK n \in DOMAIN lock : new[j] = lock[n] /\ n = IF j < k THEN j ELSE j + 1
      BY <2>3, <2>4
    <3>3. m = n
      BY <1>1, <3>1, <3>2
    <3>4. i \in Nat /\ j \in Nat /\ k \in Nat
      BY <1>1, <2>2, <2>4
    <3> QED
      BY <3>1, <3>2, <3>3, <3>4
  <2>7. ASSUME NEW u \in Tasks, [where EXCEPT ![t] = to][u] \in places
        PROVE  \E i \in DOMAIN new : new[i].task = u
    <3>1. u # t /\ where[u] \in places
      BY <2>7
    <3>2. PICK m \in DOMAIN lock : lock[m].task = u
      BY <3>1 DEF LockHeldAt
    <3>3. PICK i \in 1 .. Len(lock) - 1 : m = IF i < k THEN i ELSE i + 1
      <4>1. m \in 1 .. Len(lock) /\ k \in 1 .. Len(lock) /\ m # k
        BY <1>1, <2>2, <3>1, <3>2
      <4>2. CASE m < k
        <5>1. m \in 1 .. Len(lock) - 1
          BY <1>1, <4>1, <4>2
        <5> QED
          BY <4>2, <5>1
      <4>3. CASE m > k
        <5>1. m - 1 \in 1 .. Len(lock) - 1 /\ ~(m - 1 < k) /\ m = (m - 1) + 1
          BY <1>1, <4>1, <4>3
        <5> QED
          BY <5>1
      <4> QED
        BY <1>1, <4>1, <4>2, <4>3
    <3>4. new[i] = lock[m]
      BY <2>3, <3>3
    <3> QED
      BY <2>4, <3>2, <3>4
  <2> QED
    BY <2>1, <2>4, <2>5, <2>6, <2>7 DEF LockHeldAt
<1> QED
  BY <1>2, <1>3

\* No task has asked for a lock.
LEMMA LocksInit == Init => LocksInv
BY DEF Init, LocksInv, LockHeldAt, LockRequest, Pcs, AtWLock, AtRLock

\* A request on a lock stays with the place of its task.
LEMMA LocksStep == LocksInv /\ [Next]_vars => LocksInv'
<1> USE DEF Goto
<1>1. /\ \A to \in AtWLock \cup AtRLock \cup {"free", "held", "dropTryW", "dropTryR"} : to \in Pcs
      /\ {"acqW", "acqR", "relW", "relR", "probeW", "probeR", "dropHasW"} \subseteq AtWLock
      /\ {"acqR", "relR", "probeR", "dropHasR"} \subseteq AtRLock
      /\ \A at \in {"free", "held", "dropTryW", "dropTryR"} : at \notin AtWLock /\ at \notin AtRLock
      /\ \A at \in {"acqW", "relW", "probeW", "dropHasW"} : at \notin AtRLock
      /\ "dropHasR" \notin AtWLock
  BY DEF Pcs, AtWLock, AtRLock
<1>2. ASSUME LocksInv
      PROVE  /\ pc \in [Tasks -> Pcs]
             /\ LockHeldAt(wLock, pc, AtWLock) /\ LockHeldAt(rLock, pc, AtRLock)
  BY <1>2 DEF LocksInv
<1>3. ASSUME LocksInv, NEW t \in Tasks, NEW to \in Pcs, pc' = [pc EXCEPT ![t] = to],
             LockHeldAt(wLock', [pc EXCEPT ![t] = to], AtWLock),
             LockHeldAt(rLock', [pc EXCEPT ![t] = to], AtRLock)
      PROVE  LocksInv'
  BY <1>3, <1>2 DEF LocksInv
<1>4. ASSUME LocksInv, NEW t \in Tasks, NEW q, BeginAcquire(t, q) \/ BeginProbe(t, q) \/ BeginRelease(t)
      PROVE  LocksInv'
  <2>1. PICK to \in {"acqW", "probeW", "relW"}, mode \in {"read", "write"} :
          /\ pc[t] \in {"free", "held"} /\ pc' = [pc EXCEPT ![t] = to]
          /\ wLock' = Append(wLock, Entry(t, mode)) /\ rLock' = rLock
    BY <1>4 DEF BeginAcquire, BeginProbe, BeginRelease
  <2>2. LockHeldAt(wLock', [pc EXCEPT ![t] = to], AtWLock)
    BY <1>1, <1>2, <1>4, <2>1, RequestLast
  <2>3. LockHeldAt(rLock', [pc EXCEPT ![t] = to], AtRLock)
    BY <1>1, <1>2, <1>4, <2>1, RequestsKept
  <2> QED
    BY <1>1, <1>3, <1>4, <2>1, <2>2, <2>3
<1>5. ASSUME LocksInv, NEW t \in Tasks, AwaitReadTable(t) PROVE LocksInv'
  <2>1. PICK to \in {"acqR", "probeR", "relR"}, mode \in {"read", "write"} :
          /\ pc[t] \in {"acqW", "relW", "probeW"} /\ pc' = [pc EXCEPT ![t] = to]
          /\ rLock' = Append(rLock, Entry(t, mode)) /\ wLock' = wLock
    BY <1>5 DEF AwaitReadTable
  <2>2. LockHeldAt(wLock', [pc EXCEPT ![t] = to], AtWLock)
    BY <1>1, <1>2, <1>5, <2>1, RequestsKept
  <2>3. LockHeldAt(rLock', [pc EXCEPT ![t] = to], AtRLock)
    BY <1>1, <1>2, <1>5, <2>1, RequestLast
  <2> QED
    BY <1>1, <1>3, <1>5, <2>1, <2>2, <2>3
<1>6. ASSUME LocksInv, NEW t \in Tasks,
             \/ Cancel(t) \/ FinishAcquire(t) \/ RefuseAcquire(t) \/ FinishRelease(t) \/ FinishProbe(t)
      PROVE  LocksInv'
  <2>1. PICK to \in {"free", "held", "dropTryW"} :
          /\ pc' = [pc EXCEPT ![t] = to]
          /\ wLock' = Without(wLock, t) /\ rLock' = Without(rLock, t)
    BY <1>6 DEF Cancel, FinishAcquire, RefuseAcquire, FinishRelease, FinishProbe, GiveBackBoth
  <2>2. /\ LockHeldAt(wLock', [pc EXCEPT ![t] = to], AtWLock)
        /\ LockHeldAt(rLock', [pc EXCEPT ![t] = to], AtRLock)
    BY <1>1, <1>2, <1>6, <2>1, RequestGone
  <2> QED
    BY <1>1, <1>3, <1>6, <2>1, <2>2
<1>7. ASSUME LocksInv, NEW t \in Tasks, BeginDrop(t) \/ MissWriteTable(t) \/ MissReadTable(t)
      PROVE  LocksInv'
  <2>1. PICK to \in {"free", "dropTryW", "dropTryR"} :
          /\ pc[t] \in {"held", "dropTryW", "dropTryR"} /\ pc' = [pc EXCEPT ![t] = to]
          /\ wLock' = wLock /\ rLock' = rLock
    BY <1>7 DEF BeginDrop, MissWriteTable, MissReadTable
  <2>2. /\ LockHeldAt(wLock', [pc EXCEPT ![t] = to], AtWLock)
        /\ LockHeldAt(rLock', [pc EXCEPT ![t] = to], AtRLock)
    BY <1>1, <1>2, <1>7, <2>1, RequestsKept
  <2> QED
    BY <1>1, <1>3, <1>7, <2>1, <2>2
<1>8. ASSUME LocksInv, NEW t \in Tasks, DropWrites(t) PROVE LocksInv'
  <2>1. /\ pc[t] = "dropHasW" /\ pc' = [pc EXCEPT ![t] = "dropTryR"]
        /\ wLock' = Without(wLock, t) /\ rLock' = rLock
    BY <1>8 DEF DropWrites
  <2>2. /\ LockHeldAt(wLock', [pc EXCEPT ![t] = "dropTryR"], AtWLock)
        /\ LockHeldAt(rLock', [pc EXCEPT ![t] = "dropTryR"], AtRLock)
    BY <1>1, <1>2, <1>8, <2>1, RequestGone, RequestsKept
  <2> QED
    BY <1>1, <1>3, <1>8, <2>1, <2>2
<1>9. ASSUME LocksInv, NEW t \in Tasks, DropReads(t) PROVE LocksInv'
  <2>1. /\ pc[t] = "dropHasR" /\ pc' = [pc EXCEPT ![t] = "free"]
        /\ rLock' = Without(rLock, t) /\ wLock' = wLock
    BY <1>9 DEF DropReads
  <2>2. /\ LockHeldAt(wLock', [pc EXCEPT ![t] = "free"], AtWLock)
        /\ LockHeldAt(rLock', [pc EXCEPT ![t] = "free"], AtRLock)
    BY <1>1, <1>2, <1>9, <2>1, RequestGone, RequestsKept
  <2> QED
    BY <1>1, <1>3, <1>9, <2>1, <2>2
<1>10. ASSUME LocksInv, NEW t \in Tasks, TryWriteTable(t) PROVE LocksInv'
  <2>1. /\ pc[t] = "dropTryW" /\ pc' = [pc EXCEPT ![t] = "dropHasW"]
        /\ wLock' = Append(wLock, Entry(t, "write")) /\ rLock' = rLock
    BY <1>10 DEF TryWriteTable
  <2>2. LockHeldAt(wLock', [pc EXCEPT ![t] = "dropHasW"], AtWLock)
    BY <1>1, <1>2, <1>10, <2>1, RequestLast
  <2>3. LockHeldAt(rLock', [pc EXCEPT ![t] = "dropHasW"], AtRLock)
    BY <1>1, <1>2, <1>10, <2>1, RequestsKept
  <2> QED
    BY <1>1, <1>3, <1>10, <2>1, <2>2, <2>3
<1>11. ASSUME LocksInv, NEW t \in Tasks, TryReadTable(t) PROVE LocksInv'
  <2>1. /\ pc[t] = "dropTryR" /\ pc' = [pc EXCEPT ![t] = "dropHasR"]
        /\ rLock' = Append(rLock, Entry(t, "write")) /\ wLock' = wLock
    BY <1>11 DEF TryReadTable
  <2>2. LockHeldAt(wLock', [pc EXCEPT ![t] = "dropHasR"], AtWLock)
    BY <1>1, <1>2, <1>11, <2>1, RequestsKept
  <2>3. LockHeldAt(rLock', [pc EXCEPT ![t] = "dropHasR"], AtRLock)
    BY <1>1, <1>2, <1>11, <2>1, RequestLast
  <2> QED
    BY <1>1, <1>3, <1>11, <2>1, <2>2, <2>3
<1>12. ASSUME LocksInv, UNCHANGED vars PROVE LocksInv'
  BY <1>12 DEF vars, LocksInv
<1> QED
  BY <1>4, <1>5, <1>6, <1>7, <1>8, <1>9, <1>10, <1>11, <1>12 DEF Next, Proceed

\* The requests on the two locks are those of the tasks that await or have them.
LEMMA RequestsFollow == Spec => []LocksInv
BY LocksInit, LocksStep, PTL DEF Spec

\* A drop leaves accounts locked only when another task is in an operation on
\* the tables: a lock that try_write misses is somebody else's.
THEOREM OnlyBusyDropsLeak == Spec => QuietDropsRelease
<1>1. ASSUME LocksInv, [Next]_vars, <<leakedW, leakedR>>' # <<leakedW, leakedR>>
      PROVE  \E t, u \in Tasks : t # u /\ {pc[t], pc[u]} \cap {"free", "held"} = {}
  <2>1. PICK t \in Tasks : MissWriteTable(t) \/ MissReadTable(t)
    BY <1>1
    DEF Next, Proceed, vars, tables, BeginAcquire, BeginProbe, BeginRelease, BeginDrop, Cancel,
        AwaitReadTable, FinishAcquire, RefuseAcquire, FinishRelease, FinishProbe,
        TryWriteTable, DropWrites, TryReadTable, DropReads
  <2>2. CASE MissWriteTable(t)
    <3>1. pc[t] = "dropTryW" /\ wLock # <<>>
      BY <2>2 DEF MissWriteTable
    <3>2. 1 \in DOMAIN wLock /\ wLock[1].task \in Tasks /\ pc[wLock[1].task] \in AtWLock
      BY <1>1, <3>1, RequestsTyped DEF LocksInv
    <3> QED
      BY <3>1, <3>2 DEF AtWLock
  <2>3. CASE MissReadTable(t)
    <3>1. pc[t] = "dropTryR" /\ rLock # <<>>
      BY <2>3 DEF MissReadTable
    <3>2. 1 \in DOMAIN rLock /\ rLock[1].task \in Tasks /\ pc[rLock[1].task] \in AtRLock
      BY <1>1, <3>1, RequestsTyped DEF LocksInv
    <3> QED
      BY <3>1, <3>2 DEF AtRLock
  <2> QED
    BY <2>1, <2>2, <2>3
<1>2. LocksInv /\ [Next]_vars => [LeakMeetsOther]_vars
  BY <1>1 DEF LeakMeetsOther
<1> QED
  BY <1>2, RequestsFollow, PTL DEF Spec, QuietDropsRelease

\* Whoever waits for a table waits, directly or behind one other task, for a
\* task that can go on: acquire, release and would_conflict ask for the tables
\* in one order, and Drop never waits.
THEOREM WaitsAreNotCircular == Spec => []NoCircularWait
<1>1. ASSUME LocksInv, NEW t \in Tasks, pc[t] \in AtRLock, ~Moves(t)
      PROVE  \E u \in Tasks : InTheWay(u, t) /\ Moves(u)
  <2>1. /\ Awaited(t) = rLock /\ ~Granted(rLock, t)
    BY <1>1 DEF Moves, Awaited, Awaiting, InOperation, AtRLock
  <2>2. PICK i \in DOMAIN rLock : rLock[i].task = t
    BY <1>1 DEF LocksInv, LockHeldAt
  <2>3. /\ rLock \in Seq(LockRequest) /\ DOMAIN rLock = 1 .. Len(rLock) /\ Len(rLock) \in Nat
        /\ \A j \in DOMAIN rLock : rLock[j].task \in Tasks /\ pc[rLock[j].task] \in AtRLock
    BY <1>1, RequestsTyped DEF LocksInv
  <2>4. i # 1 /\ 1 \in DOMAIN rLock /\ 1 < i
    BY <2>1, <2>2, <2>3 DEF Granted
  <2>5. Granted(rLock, rLock[1].task)
    BY <2>4 DEF Granted
  <2>6. Moves(rLock[1].task)
    BY <2>3, <2>4, <2>5 DEF Moves, Awaited, Awaiting, InOperation, AtRLock
  <2> QED
    BY <2>1, <2>2, <2>3, <2>4, <2>6 DEF InTheWay
<1>2. ASSUME LocksInv, NEW t \in Tasks, pc[t] \in {"acqW", "relW", "probeW"}, ~Moves(t)
      PROVE  \E u \in Tasks : InTheWay(u, t) /\ pc[u] \in AtWLock /\ (pc[u] \in AtRLock \/ Moves(u))
  <2>1. /\ Awaited(t) = wLock /\ ~Granted(wLock, t)
    BY <1>2 DEF Moves, Awaited, Awaiting, InOperation
  <2>2. PICK i \in DOMAIN wLock : wLock[i].task = t
    BY <1>2 DEF LocksInv, LockHeldAt, AtWLock
  <2>3. /\ wLock \in Seq(LockRequest) /\ DOMAIN wLock = 1 .. Len(wLock) /\ Len(wLock) \in Nat
        /\ \A j \in DOMAIN wLock : wLock[j].task \in Tasks /\ pc[wLock[j].task] \in AtWLock
    BY <1>2, RequestsTyped DEF LocksInv
  <2>4. i # 1 /\ 1 \in DOMAIN wLock /\ 1 < i
    BY <2>1, <2>2, <2>3 DEF Granted
  <2>5. Granted(wLock, wLock[1].task)
    BY <2>4 DEF Granted
  <2>6. pc[wLock[1].task] \in AtRLock \/ Moves(wLock[1].task)
    BY <2>3, <2>4, <2>5 DEF Moves, Awaited, Awaiting, InOperation, AtWLock, AtRLock
  <2> QED
    BY <2>1, <2>2, <2>3, <2>4, <2>6 DEF InTheWay
<1>3. ASSUME LocksInv PROVE NoCircularWait
  <2> SUFFICES ASSUME NEW t \in Tasks, InOperation(t), ~Moves(t)
               PROVE  \E u \in Tasks :
                        /\ InTheWay(u, t)
                        /\ Moves(u) \/ \E v \in Tasks : InTheWay(v, u) /\ Moves(v)
    BY DEF NoCircularWait
  <2>1. pc[t] \in AtRLock \/ pc[t] \in {"acqW", "relW", "probeW"}
    BY <1>3 DEF LocksInv, Pcs, AtWLock, AtRLock, InOperation, Moves, Awaiting
  <2>2. CASE pc[t] \in AtRLock
    BY <1>1, <1>3, <2>2
  <2>3. CASE pc[t] \in {"acqW", "relW", "probeW"}
    <3>1. PICK u \in Tasks : InTheWay(u, t) /\ (pc[u] \in AtRLock \/ Moves(u))
      BY <1>2, <1>3, <2>3
    <3> QED
      BY <1>1, <1>3, <3>1
  <2> QED
    BY <2>1, <2>2, <2>3
<1> QED
  BY <1>3, RequestsFollow, PTL
=============================================================================
