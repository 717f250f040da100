------------------------- MODULE TpuPipeline_proof -------------------------
(***************************************************************************)
(* The pool under TpuPipeline, for any number of workers, callers and      *)
(* batches: it is a client of the pool as PoolSpec admits it, bundles keep *)
(* their accounts on the way to the workers, and shutdown() signals the    *)
(* workers only when everything ever sent has come back.                   *)
(***************************************************************************)
EXTENDS TpuPipeline, AsyncWorkerPool_proof

Assignment == [unit : Units, worker : Workers]

TpuTypeOK ==
  /\ bpc \in [Callers -> {"idle", "send"}]
  /\ todo \in [Callers -> Seq(Assignment)]
  /\ DOMAIN unit_map = Callers
  /\ submitted \subseteq Batches

\* The maps of a caller hold units of a batch.
MapsOfBatches ==
  \A c \in Callers : \A u \in DOMAIN unit_map[c] :
    \E b \in submitted : u \in DOMAIN Maps(b) /\ unit_map[c][u] = Maps(b)[u]

\* What is still to be sent was not sent before, and is to be sent once.
Fresh ==
  /\ \A b \in Batches \ submitted : \A u \in DOMAIN Maps(b) : fate[u] = "unsent"
  /\ \A c \in Callers : \A i \in DOMAIN todo[c] :
       todo[c][i].unit \in DOMAIN unit_map[c] /\ fate[todo[c][i].unit] = "unsent"
  /\ \A c, d \in Callers : \A i \in DOMAIN todo[c], j \in DOMAIN todo[d] :
       todo[c][i].unit = todo[d][j].unit => c = d /\ i = j

TpuInv == PoolUnitsInv /\ TpuTypeOK /\ MapsOfBatches /\ Fresh

-----------------------------------------------------------------------------
(* The maps *)

\* The HashMap of a sequence of units has units of the sequence.
LEMMA ByIdType ==
  ASSUME NEW b \in Seq(Unit), NEW u \in DOMAIN ById(b)
  PROVE  \E i \in DOMAIN b : b[i].unit = u /\ ById(b)[u] = b[i]
<1> DEFINE last == {i \in DOMAIN b : \A j \in DOMAIN b :
                      IdOf[b[j].unit] = IdOf[b[i].unit] => j <= i}
           kept == CHOOSE i \in last : b[i].unit = u
<1>1. ById(b) = [x \in {b[i].unit : i \in last} |-> b[CHOOSE i \in last : b[i].unit = x]]
  BY DEF ById
<1>2. last \subseteq DOMAIN b
  OBVIOUS
<1> HIDE DEF last
<1>3. \E i \in last : b[i].unit = u
  BY <1>1
<1>4. kept \in last /\ b[kept].unit = u
  BY <1>3
<1>5. ById(b)[u] = b[kept]
  BY <1>1, <1>3
<1> QED
  BY <1>2, <1>4, <1>5

\* The maps of a batch give each unit what the batch lists for it.
LEMMA MapsType ==
  ASSUME NEW b \in Batches
  PROVE  /\ Listed(b) \subseteq Unit
         /\ \A u \in DOMAIN Maps(b) :
              u \in Units /\ Maps(b)[u] \in Listed(b) /\ Maps(b)[u].unit = u
<1> DEFINE B == ById(b.bundles)
           T == ById(b.txs)
<1>1. b.bundles \in Seq(Unit) /\ b.txs \in Seq(Unit)
  BY BatchesAssumption
<1>2. Listed(b) \subseteq Unit
  BY <1>1 DEF Listed
<1>3. Maps(b) = [u \in DOMAIN B \cup DOMAIN T |-> IF u \in DOMAIN B THEN B[u] ELSE T[u]]
  BY DEF Maps
<1>4. \A u \in DOMAIN B : B[u] \in Listed(b) /\ B[u].unit = u
  <2>1. \A u \in DOMAIN B : \E i \in DOMAIN b.bundles : b.bundles[i].unit = u /\ B[u] = b.bundles[i]
    BY <1>1, ByIdType
  <2> HIDE DEF B
  <2> QED
    BY <2>1 DEF Listed
<1>5. \A u \in DOMAIN T : T[u] \in Listed(b) /\ T[u].unit = u
  <2>1. \A u \in DOMAIN T : \E i \in DOMAIN b.txs : b.txs[i].unit = u /\ T[u] = b.txs[i]
    BY <1>1, ByIdType
  <2> HIDE DEF T
  <2> QED
    BY <2>1 DEF Listed
<1> HIDE DEF B, T
<1>6. \A u \in DOMAIN Maps(b) : Maps(b)[u] \in Listed(b) /\ Maps(b)[u].unit = u
  BY <1>3, <1>4, <1>5
<1> QED
  BY <1>2, <1>6 DEF Unit

\* No unit is in the maps of two batches.
LEMMA MapsApart ==
  ASSUME NEW b \in Batches, NEW d \in Batches, b # d
  PROVE  DOMAIN Maps(b) \cap DOMAIN Maps(d) = {}
<1>1. ASSUME NEW u \in DOMAIN Maps(b), u \in DOMAIN Maps(d) PROVE FALSE
  <2>1. /\ Maps(b)[u] \in Listed(b) /\ Maps(d)[u] \in Listed(d)
        /\ Maps(b)[u].unit = Maps(d)[u].unit
    BY <1>1, MapsType
  <2> QED
    BY <2>1, UnitsAreItems
<1> QED
  BY <1>1

\* A schedule assigns each of its units once.
LEMMA SchedulesType ==
  ASSUME NEW ids \in SUBSET Units, NEW s \in Schedules(ids)
  PROVE  /\ s \in Seq(Assignment)
         /\ \A i \in DOMAIN s : s[i].unit \in ids
         /\ \A i, j \in DOMAIN s : s[i].unit = s[j].unit => i = j
<1> DEFINE of(n) == { [i \in 1 .. n |-> [unit |-> order[i], worker |-> place[i]]] :
                        order \in {o \in [1 .. n -> ids] :
                                     \A i, j \in 1 .. n : o[i] = o[j] => i = j},
                        place \in [1 .. n -> Workers] }
<1>1. Schedules(ids) = UNION {of(n) : n \in 0 .. Cardinality(ids)}
  BY DEF Schedules
<1>2. PICK n \in 0 .. Cardinality(ids) : s \in of(n)
  <2> HIDE DEF of
  <2> QED
    BY <1>1
<1>3. PICK order \in [1 .. n -> ids], place \in [1 .. n -> Workers] :
        /\ \A i, j \in 1 .. n : order[i] = order[j] => i = j
        /\ s = [i \in 1 .. n |-> [unit |-> order[i], worker |-> place[i]]]
  BY <1>2
<1>4. n \in Nat
  BY <1>2
<1>5. \A i \in 1 .. n : [unit |-> order[i], worker |-> place[i]] \in Assignment
  BY DEF Assignment
<1>6. s \in Seq(Assignment) /\ DOMAIN s = 1 .. n
  BY <1>3, <1>4, <1>5
<1>7. \A i \in 1 .. n : s[i].unit = order[i]
  BY <1>3
<1> QED
  BY <1>3, <1>6, <1>7

\* The work item of a unit in the map is one that the pool takes.
LEMMA WorkItemType ==
  ASSUME TpuTypeOK, MapsOfBatches, NEW c \in Callers, NEW u \in DOMAIN unit_map[c]
  PROVE  WorkItem(c, u) \in Items /\ WorkItem(c, u).unit = u
<1>1. PICK b \in Batches : u \in DOMAIN Maps(b) /\ unit_map[c][u] = Maps(b)[u]
  BY DEF TpuTypeOK, MapsOfBatches
<1>2. u \in Units /\ unit_map[c][u] \in Unit
  BY <1>1, MapsType
<1> QED
  BY <1>2 DEF WorkItem, Items, Unit

-----------------------------------------------------------------------------

\* Before the first call the pool is new and no caller holds a unit.
LEMMA TpuInitInv == Init => TpuInv
<1> SUFFICES ASSUME Init PROVE TpuInv
  OBVIOUS
<1>1. PoolUnitsInv
  BY PoolUnitsInit DEF Init
<1>2. <<>> \in Seq(Assignment) /\ DOMAIN <<>> = {}
  OBVIOUS
<1>3. TpuTypeOK /\ MapsOfBatches
  BY <1>2 DEF Init, TpuTypeOK, MapsOfBatches
<1>4. Fresh
  BY <1>2, MapsType DEF Init, PoolInit, Fresh
<1> QED
  BY <1>1, <1>3, <1>4 DEF TpuInv

\* The item that the loop sends next.
LEMMA NextItem ==
  ASSUME TpuInv, NEW c \in Callers, SendUnit(c)
  PROVE  LET next == Head(todo[c])
         IN  /\ next.worker \in Workers
             /\ next.unit \in DOMAIN unit_map[c] /\ next.unit \in Units
             /\ WorkItem(c, next.unit) \in Items
             /\ WorkItem(c, next.unit).unit = next.unit
             /\ fate[next.unit] = "unsent"
             /\ \/ SendWork(c, next.worker, WorkItem(c, next.unit))
                   /\ todo' = [todo EXCEPT ![c] = Tail(@)]
                \/ UNCHANGED poolVars /\ todo' = [todo EXCEPT ![c] = <<>>]
<1>1. todo[c] \in Seq(Assignment) /\ todo[c] # <<>>
  BY DEF TpuInv, TpuTypeOK, SendUnit
<1>2. Head(todo[c]) \in Assignment /\ 1 \in DOMAIN todo[c] /\ Head(todo[c]) = todo[c][1]
  BY <1>1
<1>3. Head(todo[c]).unit \in DOMAIN unit_map[c] /\ fate[Head(todo[c]).unit] = "unsent"
  BY <1>2 DEF TpuInv, Fresh
<1>4. WorkItem(c, Head(todo[c]).unit) \in Items
      /\ WorkItem(c, Head(todo[c]).unit).unit = Head(todo[c]).unit
  BY <1>3, WorkItemType DEF TpuInv
<1> QED
  BY <1>2, <1>3, <1>4 DEF SendUnit, Assignment

\* The pipeline touches the pool only by what its general client may do.
LEMMA TpuStep ==
  ASSUME TpuInv, [Next]_vars
  PROVE  [PoolNext(Items)]_poolVars
<1> USE DEF PoolNext, BeginCall
<1>1. ASSUME NEW c \in Callers, SendUnit(c) PROVE [PoolNext(Items)]_poolVars
  BY <1>1, NextItem DEF SubmitUnit
<1>2. ASSUME NEW c \in Callers, EndPipeline(c) PROVE PoolNext(Items)
  BY <1>2 DEF EndPipeline
<1>3. ASSUME NEW c \in Callers, NEW b \in Batches, BeginBatch(c, b) \/ EndBatch(c)
      PROVE  UNCHANGED poolVars
  BY <1>3 DEF BeginBatch, EndBatch
<1>4. ASSUME NEW c \in Callers, EndBatch(c)
      PROVE  UNCHANGED poolVars
  BY <1>4 DEF EndBatch
<1>5. ASSUME NEW w \in Workers, WorkerStep(w) PROVE PoolNext(Items)
  BY <1>5
<1>6. ASSUME NEW c \in Callers,
             CountPending(c) \/ Drain(c) \/ SendShutdowns(c) \/ DropPool(c)
      PROVE  PoolNext(Items)
  BY <1>6 DEF CallerStep
<1>7. ASSUME UNCHANGED vars PROVE UNCHANGED poolVars
  BY <1>7 DEF vars
<1> HIDE DEF PoolNext, BeginCall
<1> QED
  BY <1>1, <1>2, <1>3, <1>4, <1>5, <1>6, <1>7 DEF Next

\* The state of process_batch stays what it should be.
LEMMA TpuBatchStep ==
  ASSUME TpuInv, [Next]_vars
  PROVE  TpuTypeOK' /\ MapsOfBatches' /\ Fresh'
<1> USE DEF TpuInv
<1>1. TypeOK /\ UnitsInv
  BY DEF PoolUnitsInv, PoolInv
<1>2. \A b \in Batches : DOMAIN Maps(b) \subseteq Units
  BY MapsType
<1>3. \A c \in Callers : \A i \in DOMAIN todo[c] : todo[c][i].unit \in Units
  <2> SUFFICES ASSUME NEW c \in Callers, NEW i \in DOMAIN todo[c]
               PROVE  todo[c][i].unit \in Units
    OBVIOUS
  <2>1. todo[c] \in Seq(Assignment)
    BY DEF TpuTypeOK
  <2>2. todo[c][i] \in Assignment
    BY <2>1
  <2> QED
    BY <2>2 DEF Assignment
<1>4. ASSUME UNCHANGED <<todo, unit_map, submitted>>,
             bpc' \in [Callers -> {"idle", "send"}],
             \A u \in Units : fate[u] = "unsent" => fate'[u] = "unsent"
      PROVE  TpuTypeOK' /\ MapsOfBatches' /\ Fresh'
  <2>1. TpuTypeOK'
    BY <1>4 DEF TpuTypeOK
  <2>2. MapsOfBatches'
    BY <1>4 DEF MapsOfBatches
  <2>3. Fresh'
    BY <1>2, <1>3, <1>4 DEF Fresh
  <2> QED
    BY <2>1, <2>2, <2>3
<1>5. ASSUME NEW c \in Callers, NEW b \in Batches, BeginBatch(c, b)
      PROVE  TpuTypeOK' /\ MapsOfBatches' /\ Fresh'
  <2>1. PICK s \in Schedules(DOMAIN Maps(b)) : todo' = [todo EXCEPT ![c] = s]
    BY <1>5 DEF BeginBatch
  <2>2. /\ s \in Seq(Assignment)
        /\ \A i \in DOMAIN s : s[i].unit \in DOMAIN Maps(b)
        /\ \A i, j \in DOMAIN s : s[i].unit = s[j].unit => i = j
    BY <1>2, SchedulesType
  <2>3. /\ b \notin submitted /\ submitted' = submitted \cup {b}
        /\ \A d \in Callers : unit_map'[d] = IF d = c THEN Maps(b) ELSE unit_map[d]
        /\ \A d \in Callers : todo'[d] = IF d = c THEN s ELSE todo[d]
        /\ DOMAIN unit_map' = Callers
        /\ fate' = fate
    BY <1>5, <2>1 DEF BeginBatch, TpuTypeOK, poolVars
  <2>4. \A u \in DOMAIN Maps(b) : fate[u] = "unsent"
    BY <2>3 DEF Fresh
  <2>5. \A d \in Callers : d # c => \A i \in DOMAIN todo[d] : todo[d][i].unit \notin DOMAIN Maps(b)
    <3>1. submitted \subseteq Batches
      BY DEF TpuTypeOK
    <3>2. \A d \in Callers : DOMAIN unit_map[d] \cap DOMAIN Maps(b) = {}
      BY <2>3, <3>1, MapsApart DEF MapsOfBatches
    <3> QED
      BY <3>2 DEF Fresh
  <2>6. TpuTypeOK'
    BY <1>5, <2>1, <2>2, <2>3 DEF BeginBatch, TpuTypeOK
  <2>7. MapsOfBatches'
    BY <2>3 DEF MapsOfBatches
  <2>8. /\ \A x \in Batches \ submitted' : \A u \in DOMAIN Maps(x) : fate'[u] = "unsent"
        /\ \A d \in Callers : \A i \in DOMAIN todo'[d] :
             todo'[d][i].unit \in DOMAIN unit_map'[d] /\ fate'[todo'[d][i].unit] = "unsent"
    BY <2>2, <2>3, <2>4 DEF Fresh
  <2>9. \A d, e \in Callers : \A i \in DOMAIN todo'[d], j \in DOMAIN todo'[e] :
          todo'[d][i].unit = todo'[e][j].unit => d = e /\ i = j
    BY <2>2, <2>3, <2>5 DEF Fresh
  <2> QED
    BY <2>6, <2>7, <2>8, <2>9 DEF Fresh
<1>6. ASSUME NEW c \in Callers, SendUnit(c)
      PROVE  TpuTypeOK' /\ MapsOfBatches' /\ Fresh'
  <2> DEFINE next == Head(todo[c])
             u == next.unit
             item == WorkItem(c, u)
  <2>1. /\ UNCHANGED <<bpc, unit_map, submitted>>
        /\ todo[c] \in Seq(Assignment) /\ todo[c] # <<>>
    BY <1>6 DEF SendUnit, TpuTypeOK
  <2>2. /\ 1 \in DOMAIN todo[c] /\ next = todo[c][1]
        /\ Tail(todo[c]) \in Seq(Assignment)
        /\ \A i \in DOMAIN Tail(todo[c]) :
             i \in Nat /\ i + 1 \in DOMAIN todo[c] /\ i + 1 # 1 /\ Tail(todo[c])[i] = todo[c][i + 1]
    BY <2>1
  <2>3. u \in DOMAIN unit_map[c] /\ u \in Units /\ item.unit = u /\ item \in Items
    BY <1>6, NextItem
  <2>4. \/ /\ todo' = [todo EXCEPT ![c] = Tail(@)]
           /\ fate' = [fate EXCEPT ![u] = "queued"]
        \/ /\ todo' = [todo EXCEPT ![c] = <<>>]
           /\ fate' = fate
    BY <1>6, <2>3, NextItem, PoolAssumption DEF SendWork, poolVars
  <2> HIDE DEF item
  <2>5. TpuTypeOK'
    <3>1. <<>> \in Seq(Assignment)
      OBVIOUS
    <3> QED
      BY <2>1, <2>2, <2>4, <3>1 DEF TpuTypeOK
  <2>6. MapsOfBatches'
    BY <2>1 DEF MapsOfBatches
  <2>7. CASE todo' = [todo EXCEPT ![c] = <<>>] /\ fate' = fate
    <3>1. \A d \in Callers : todo'[d] = IF d = c THEN <<>> ELSE todo[d]
      BY <2>7 DEF TpuTypeOK
    <3> QED
      BY <2>1, <2>5, <2>6, <2>7, <3>1 DEF Fresh
  <2>8. CASE /\ todo' = [todo EXCEPT ![c] = Tail(@)]
             /\ fate' = [fate EXCEPT ![u] = "queued"]
    <3>1. \A d \in Callers : todo'[d] = IF d = c THEN Tail(todo[c]) ELSE todo[d]
      BY <2>8 DEF TpuTypeOK
    <3>2. \A x \in Units : x # u => fate'[x] = fate[x]
      BY <1>1, <2>8 DEF TypeOK
    <3>3. \A b \in Batches \ submitted : u \notin DOMAIN Maps(b)
      <4>1. submitted \subseteq Batches
        BY DEF TpuTypeOK
      <4> QED
        BY <2>3, <4>1, MapsApart DEF MapsOfBatches
    <3> HIDE DEF u, next
    <3>4. \A d \in Callers : \A i \in DOMAIN todo'[d] :
            \E k \in DOMAIN todo[d] :
              /\ todo'[d][i] = todo[d][k]
              /\ k = IF d = c THEN i + 1 ELSE i
              /\ d = c => k # 1
      BY <2>2, <3>1
    <3>5. \A d \in Callers : \A i \in DOMAIN todo'[d] : todo'[d][i].unit # u
      BY <2>2, <3>4 DEF Fresh, u
    <3>6. \A d \in Callers : \A i \in DOMAIN todo'[d] :
            todo'[d][i].unit \in DOMAIN unit_map'[d] /\ fate'[todo'[d][i].unit] = "unsent"
      <4>1. ASSUME NEW d \in Callers, NEW i \in DOMAIN todo'[d]
            PROVE  todo'[d][i].unit \in DOMAIN unit_map'[d] /\ fate'[todo'[d][i].unit] = "unsent"
        <5>1. PICK k \in DOMAIN todo[d] : todo'[d][i] = todo[d][k]
          BY <3>4
        <5>2. todo[d][k].unit \in DOMAIN unit_map[d] /\ fate[todo[d][k].unit] = "unsent"
          BY DEF Fresh
        <5> QED
          BY <1>3, <2>1, <3>2, <3>5, <5>1, <5>2
      <4> QED
        BY <4>1
    <3>7. \A d, e \in Callers : \A i \in DOMAIN todo'[d], j \in DOMAIN todo'[e] :
            todo'[d][i].unit = todo'[e][j].unit => d = e /\ i = j
      <4>1. ASSUME NEW d \in Callers, NEW e \in Callers,
                   NEW i \in DOMAIN todo'[d], NEW j \in DOMAIN todo'[e],
                   todo'[d][i].unit = todo'[e][j].unit
            PROVE  d = e /\ i = j
        <5>1. PICK k \in DOMAIN todo[d] : todo'[d][i] = todo[d][k] /\ k = IF d = c THEN i + 1 ELSE i
          BY <3>4
        <5>2. PICK l \in DOMAIN todo[e] : todo'[e][j] = todo[e][l] /\ l = IF e = c THEN j + 1 ELSE j
          BY <3>4
        <5>3. d = e /\ k = l
          BY <4>1, <5>1, <5>2 DEF Fresh
        <5>4. d = c => i \in Nat /\ j \in Nat
          BY <2>2, <3>1, <5>3
        <5> QED
          BY <5>1, <5>2, <5>3, <5>4
      <4> QED
        BY <4>1
    <3>8. \A b \in Batches \ submitted' : \A x \in DOMAIN Maps(b) : fate'[x] = "unsent"
      BY <1>2, <2>1, <3>2, <3>3 DEF Fresh
    <3> QED
      BY <2>5, <2>6, <3>6, <3>7, <3>8 DEF Fresh
  <2> QED
    BY <2>4, <2>7, <2>8
<1>7. ASSUME NEW c \in Callers, EndBatch(c)
      PROVE  TpuTypeOK' /\ MapsOfBatches' /\ Fresh'
  BY <1>4, <1>7 DEF EndBatch, poolVars, TpuTypeOK
<1>8. ASSUME UNCHANGED batchVars,
             \/ \E w \in Workers : WorkerStep(w)
             \/ \E c \in Callers : CallerStep(c) \/ BeginShutdown(c) \/ AbandonPool(c)
      PROVE  TpuTypeOK' /\ MapsOfBatches' /\ Fresh'
  <2>1. \A u \in Units : fate[u] = "unsent" => fate'[u] = "unsent"
    BY <1>1, <1>8, UnsentKept
  <2> QED
    BY <1>4, <1>8, <2>1 DEF batchVars, TpuTypeOK
<1>9. ASSUME NEW c \in Callers, EndPipeline(c)
      PROVE  TpuTypeOK' /\ MapsOfBatches' /\ Fresh'
  BY <1>8, <1>9 DEF EndPipeline
<1>10. ASSUME UNCHANGED vars PROVE TpuTypeOK' /\ MapsOfBatches' /\ Fresh'
  BY <1>4, <1>10 DEF vars, batchVars, poolVars, TpuTypeOK
<1> QED
  BY <1>5, <1>6, <1>7, <1>8, <1>9, <1>10 DEF Next, CallerStep

\* The invariant of the pipeline and of its pool holds in every run.
THEOREM TpuInvariant == Spec => []TpuInv
<1>1. TpuInv /\ [Next]_vars => TpuInv'
  BY TpuStep, PoolUnitsStep, TpuBatchStep DEF TpuInv
<1> QED
  BY TpuInitInv, <1>1, PTL DEF Spec

\* Any number of concurrent calls of process_batch use the pool as its general
\* client does, and send no unit twice, whatever the schedules are.
THEOREM TpuIsPoolClient == Spec => PoolSpec
<1>1. TpuInv /\ [Next]_vars => [PoolNext(Items)]_poolVars
  BY TpuStep
<1>2. Init => PoolInit
  BY DEF Init
<1> QED
  BY <1>1, <1>2, TpuInvariant, PTL DEF Spec, PoolSpec

-----------------------------------------------------------------------------
(* Bundles keep their accounts *)

\* An item has the accounts that a batch lists for its unit.
AsListed(item) ==
  \E b \in Batches : \E x \in Listed(b) : item.unit = x.unit /\ item.accounts = x.accounts

ListedItems == {item \in Items : AsListed(item)}

\* The item made of a unit has the accounts that its batch lists for it.
LEMMA WorkItemAsListed ==
  ASSUME TpuInv, NEW c \in Callers, NEW u \in DOMAIN unit_map[c]
  PROVE  AsListed(WorkItem(c, u))
<1>1. PICK b \in Batches : u \in DOMAIN Maps(b) /\ unit_map[c][u] = Maps(b)[u]
  BY DEF TpuInv, TpuTypeOK, MapsOfBatches
<1>2. unit_map[c][u] \in Listed(b) /\ unit_map[c][u].unit = u
  BY <1>1, MapsType
<1> QED
  BY <1>2 DEF WorkItem, AsListed

\* process_batch sends no other item, and nothing else brings one in.
LEMMA ItemsStep ==
  ASSUME TpuInv, ItemsIn(ListedItems), [Next]_vars
  PROVE  ItemsIn(ListedItems)'
<1>1. TypeOK
  BY DEF TpuInv, PoolUnitsInv, PoolInv
<1>2. ASSUME UNCHANGED poolVars PROVE ItemsIn(ListedItems)'
  BY <1>2 DEF ItemsIn, Busy, poolVars, workerVars
<1>3. ASSUME NEW w \in Workers, WorkerStep(w) PROVE ItemsIn(ListedItems)'
  BY <1>1, <1>3, ItemsWorker
<1>4. ASSUME NEW c \in Callers, SendUnit(c) PROVE ItemsIn(ListedItems)'
  <2> DEFINE next == Head(todo[c])
             item == WorkItem(c, next.unit)
  <2>1. /\ next.worker \in Workers /\ item \in Items /\ AsListed(item)
        /\ SendWork(c, next.worker, item) \/ UNCHANGED poolVars
    BY <1>4, NextItem, WorkItemAsListed
  <2> HIDE DEF item, next
  <2>2. item \in ListedItems /\ ListedItems \in SUBSET Items
    BY <2>1 DEF ListedItems
  <2> QED
    BY <1>1, <1>2, <2>1, <2>2, ItemsSend
<1>5. ASSUME NEW c \in Callers, CallerStep(c) \/ BeginShutdown(c) \/ AbandonPool(c)
      PROVE  ItemsIn(ListedItems)'
  BY <1>1, <1>5, ItemsCaller
<1>6. ASSUME NEW c \in Callers,
             CountPending(c) \/ Drain(c) \/ SendShutdowns(c) \/ DropPool(c)
      PROVE  CallerStep(c)
  BY <1>6 DEF CallerStep
<1>7. ASSUME NEW c \in Callers, EndPipeline(c) PROVE BeginShutdown(c) \/ AbandonPool(c)
  BY <1>7 DEF EndPipeline
<1>8. ASSUME NEW c \in Callers, NEW b \in Batches, BeginBatch(c, b)
      PROVE  UNCHANGED poolVars
  BY <1>8 DEF BeginBatch
<1>9. ASSUME NEW c \in Callers, EndBatch(c) PROVE UNCHANGED poolVars
  BY <1>9 DEF EndBatch
<1> QED
  BY <1>2, <1>3, <1>4, <1>5, <1>6, <1>7, <1>8, <1>9 DEF Next, vars

\* The accounts that a unit names are those of any item made of it.
LEMMA NamedAreListed ==
  ASSUME NEW item, AsListed(item)
  PROVE  NamedAccounts(item.unit) \subseteq item.accounts
<1>1. PICK d \in Batches :
        \E y \in Listed(d) : item.unit = y.unit /\ item.accounts = y.accounts
  BY DEF AsListed
<1>2. PICK y \in Listed(d) : item.unit = y.unit /\ item.accounts = y.accounts
  BY <1>1
<1>3. ASSUME NEW a \in NamedAccounts(item.unit) PROVE a \in item.accounts
  <2>1. PICK b \in Batches : \E x \in Listed(b) : x.unit = item.unit /\ a \in x.accounts
    BY <1>3 DEF NamedAccounts
  <2>2. PICK x \in Listed(b) : x.unit = item.unit /\ a \in x.accounts
    BY <2>1
  <2>3. x = y
    BY <1>2, <2>2, UnitsAreItems
  <2> QED
    BY <1>2, <2>2, <2>3
<1> QED
  BY <1>3

\* Two units that name a common account are never executed together: no bundle
\* loses its transactions between the batch and the lock set, whatever ids the
\* units share.
THEOREM UnitsAreIsolated == Spec => []UnitIsolation
<1>1. Init => ItemsIn(ListedItems)
  BY ItemsInit DEF Init
<1>2. TpuInv /\ ItemsIn(ListedItems) /\ [Next]_vars => ItemsIn(ListedItems)'
  BY ItemsStep
<1>3. TpuInv /\ ItemsIn(ListedItems) => UnitIsolation
  <2> SUFFICES ASSUME TpuInv, ItemsIn(ListedItems), NEW v \in Executing, NEW w \in Executing,
                      v # w
               PROVE  NamedAccounts(cur[v].unit) \cap NamedAccounts(cur[w].unit) = {}
    BY DEF UnitIsolation
  <2>1. v \in Busy /\ w \in Busy
    BY DEF Executing, Busy
  <2>2. /\ NamedAccounts(cur[v].unit) \subseteq cur[v].accounts
        /\ NamedAccounts(cur[w].unit) \subseteq cur[w].accounts
    BY <2>1, NamedAreListed DEF ItemsIn, ListedItems
  <2>3. cur[v].accounts \cap cur[w].accounts = {}
    BY DEF TpuInv, PoolUnitsInv, PoolInv, ExclusiveExecution
  <2> QED
    BY <2>2, <2>3
<1> QED
  BY <1>1, <1>2, <1>3, TpuInvariant, PTL DEF Spec

-----------------------------------------------------------------------------
(* shutdown() *)

\* While nobody shuts the pool down nothing disturbs it; the drain waits for
\* exactly what is in flight; then nothing is.
DownInv ==
  /\ \A c \in Callers : cpc[c] \in {"idle", "count"} \cup DownPcs
  /\ open /\ (\A c \in Callers : cpc[c] \notin DownPcs) => Undisturbed
  /\ \A c \in Callers : cpc[c] \in {"drain", "signal", "sleep"} =>
       \A d \in Callers : d # c => cpc[d] = "idle"
  /\ \A c \in Callers : cpc[c] = "drain" =>
       /\ Undisturbed
       /\ want[c] = Len(got[c]) + Cardinality(Flight)
       /\ Len(got[c]) < want[c]
  /\ \A c \in Callers : cpc[c] = "signal" => Undisturbed /\ Flight = {}
  /\ \A c \in Callers : cpc[c] = "sleep" => Flight = {}

\* No caller drains at first.
LEMMA DownInit == Init => DownInv
<1> SUFFICES ASSUME Init PROVE DownInv
  OBVIOUS
<1>1. Undisturbed /\ \A c \in Callers : cpc[c] = "idle"
  BY InitUndisturbed DEF Init, PoolInit
<1> QED
  BY <1>1 DEF DownInv, DownPcs

\* shutdown() loads the count: it is the number of units in flight.
LEMMA DownBegin ==
  ASSUME TypeOK, UnitsInv, CountInv, DownInv, Cardinality(Units) < UsizeMod,
         NEW c \in Callers, BeginShutdown(c)
  PROVE  DownInv'
<1>1. /\ Usable /\ \A d \in Callers : cpc[d] = "idle"
      /\ UNCHANGED <<queue, wpc, cur, completions, fate, open>>
  BY DEF BeginShutdown, SoleOwner, workerVars, DownInv, DownPcs
<1>2. Undisturbed
  BY <1>1 DEF DownInv, Usable, DownPcs
<1>3. CallersAt("count") = {} /\ CallersAt("subtract") = {}
  BY <1>1 DEF CallersAt
<1>4. Cardinality(Flight) \in Nat /\ Cardinality(Flight) <= Cardinality(Units)
  BY FlightCount, PoolFinite, FS_Subset
<1>5. pending = Cardinality(Flight)
  <2>1. Cardinality(Units) \in Nat /\ UsizeMod \in Nat
    BY PoolFinite, FS_CardinalityType, PoolAssumption
  <2>2. Cardinality(Flight) < UsizeMod
    BY <1>4, <2>1
  <2> QED
    BY <1>1, <1>2, <1>3, <2>2, PendingIsFlight
<1>6. /\ want'[c] = pending /\ got'[c] = <<>>
      /\ cpc'[c] = IF pending > 0 THEN "drain" ELSE "signal"
      /\ \A d \in Callers : d # c => cpc'[d] = "idle"
  BY <1>1 DEF TypeOK, BeginShutdown
<1>7. Flight' = Flight /\ Undisturbed'
  BY <1>1, <1>2, FlightKept
<1>8. cpc'[c] = "signal" => Flight = {}
  BY <1>4, <1>5, <1>6, FlightCount, FS_EmptySet
<1>9. cpc'[c] = "drain" =>
        want'[c] = Len(got'[c]) + Cardinality(Flight') /\ Len(got'[c]) < want'[c]
  BY <1>4, <1>5, <1>6, <1>7
<1> QED
  BY <1>6, <1>7, <1>8, <1>9 DEF DownInv, DownPcs

\* The drain takes one completion.
LEMMA DownDrain ==
  ASSUME TypeOK, UnitsInv, DownInv, NEW c \in Callers, Drain(c)
  PROVE  DownInv'
<1>1. /\ cpc[c] = "drain" /\ Undisturbed
      /\ want[c] = Len(got[c]) + Cardinality(Flight)
      /\ Len(got[c]) < want[c]
      /\ \A d \in Callers : d # c => cpc[d] = "idle"
  BY DEF DownInv, Drain
<1>2. /\ Undisturbed'
      /\ Cardinality(Flight') = Cardinality(Flight) - 1
      /\ Len(got'[c]) = Len(got[c]) + 1
      /\ want' = want
  BY <1>1, TakeFlight
<1>3. /\ cpc'[c] = IF Len(got[c]) + 1 < want[c] THEN "drain" ELSE "signal"
      /\ \A d \in Callers : d # c => cpc'[d] = "idle"
  BY <1>1 DEF TypeOK, Drain
<1>4. Len(got[c]) \in Nat /\ want[c] \in Nat /\ Cardinality(Flight) \in Nat
  BY FlightCount DEF TypeOK
<1>5. cpc'[c] = "signal" => Cardinality(Flight') = 0
  BY <1>1, <1>2, <1>3, <1>4
<1>6. IsFiniteSet(Flight')
  <2>1. TypeOK'
    BY CallerType DEF CallerStep
  <2>2. Flight' \subseteq Units
    <3>1. /\ \A v \in Busy' : cur'[v].unit \in Units
          /\ \A i \in DOMAIN completions' : completions'[i].unit \in Units
          /\ \A v \in Workers : UnitsIn(queue'[v]) \subseteq Units
      <4>1. UNCHANGED <<queue, wpc, cur>> /\ completions' \in Seq(Completion)
        BY <2>1 DEF Drain, workerVars, TypeOK
      <4>2. \A i \in DOMAIN completions' : completions'[i] \in Completion
        BY <4>1
      <4> QED
        BY <4>1, <4>2, UnitsTyped DEF Busy, Completion
    <3> QED
      BY <3>1 DEF Flight, QueuedUnits, WorkingUnits, ReportedUnits
  <2> QED
    BY <2>2, PoolFinite, FS_Subset
<1>7. cpc'[c] = "signal" => Flight' = {}
  BY <1>5, <1>6, FS_EmptySet
<1>8. cpc'[c] = "drain" =>
        want'[c] = Len(got'[c]) + Cardinality(Flight') /\ Len(got'[c]) < want'[c]
  BY <1>1, <1>2, <1>3, <1>4
<1> QED
  BY <1>2, <1>3, <1>7, <1>8 DEF DownInv, DownPcs

\* A worker's step.
LEMMA DownWorker ==
  ASSUME TypeOK, UnitsInv, DownInv, NEW w \in Workers, WorkerStep(w)
  PROVE  DownInv'
<1>1. UNCHANGED callerVars
  BY DEF WorkerStep, Receive, Stop, AcquireLocks, FailToAcquire, ReleaseLocks, Report
<1>2. Undisturbed => Undisturbed' /\ Flight' = Flight
  BY WorkerFlight
<1>3. Flight = {} => Flight' = {}
  BY NothingInFlight
<1> QED
  BY <1>1, <1>2, <1>3 DEF DownInv, callerVars

\* A send needs a pool that nobody shuts down.
LEMMA DownSend ==
  ASSUME TypeOK, UnitsInv, DownInv, NEW c \in Callers, NEW w \in Workers,
         NEW item \in Items, SendWork(c, w, item), fate[item.unit] = "unsent"
  PROVE  DownInv'
<1>1. Usable /\ Undisturbed /\ \A d \in Callers : cpc[d] \in {"idle", "count"}
  BY DEF SendWork, Usable, DownInv
<1>2. Undisturbed' /\ cpc' = [cpc EXCEPT ![c] = "count"]
  BY <1>1, SendFlight
<1>3. \A d \in Callers : cpc'[d] \in {"idle", "count"}
  BY <1>1, <1>2 DEF TypeOK
<1> QED
  BY <1>2, <1>3 DEF DownInv, DownPcs

\* The other steps of the callers.
LEMMA DownOther ==
  ASSUME TypeOK, DownInv, NEW c \in Callers,
         CountPending(c) \/ SendShutdowns(c) \/ DropPool(c) \/ AbandonPool(c)
  PROVE  DownInv'
<1>1. CASE CountPending(c)
  <2>1. /\ cpc[c] = "count" /\ cpc' = [cpc EXCEPT ![c] = "idle"]
        /\ UNCHANGED <<queue, wpc, cur, completions, fate, open, want, got>>
    BY <1>1 DEF CountPending, workerVars
  <2>2. Flight' = Flight /\ (Undisturbed => Undisturbed')
    BY <2>1, FlightKept
  <2>3. \A d \in Callers : cpc'[d] = IF d = c THEN "idle" ELSE cpc[d]
    BY <2>1 DEF TypeOK
  <2> QED
    BY <2>1, <2>2, <2>3 DEF DownInv, DownPcs
<1>2. CASE SendShutdowns(c)
  <2>1. /\ cpc[c] = "signal" /\ \A d \in Callers : cpc'[d] = IF d = c THEN "sleep" ELSE cpc[d]
        /\ UNCHANGED <<wpc, cur, completions, fate, open>>
    BY <1>2 DEF TypeOK, SendShutdowns
  <2>2. \A v \in Workers : UnitsIn(queue'[v]) = UnitsIn(queue[v])
    <3> SUFFICES ASSUME NEW v \in Workers PROVE UnitsIn(queue'[v]) = UnitsIn(queue[v])
      OBVIOUS
    <3>1. queue[v] \in Seq(Items \cup {Shutdown})
      BY DEF TypeOK
    <3>2. UnitsIn(Append(queue[v], Shutdown)) = UnitsIn(queue[v])
      BY <3>1, AppendToChannel
    <3> QED
      BY <1>2, <3>2 DEF SendShutdowns
  <2>3. Flight' = Flight
    BY <2>1, <2>2 DEF Flight, QueuedUnits, WorkingUnits, Busy, ReportedUnits
  <2> QED
    BY <2>1, <2>3 DEF DownInv, DownPcs
<1>3. CASE DropPool(c) \/ AbandonPool(c)
  <2>1. /\ open' = FALSE /\ \A d \in Callers : cpc'[d] = IF d = c THEN "down" ELSE cpc[d]
    BY <1>3 DEF TypeOK, DropPool, AbandonPool
  <2>2. \A d \in Callers : d # c => cpc[d] = "idle"
    BY <1>3 DEF DropPool, AbandonPool, SoleOwner, DownInv, DownPcs
  <2> QED
    BY <2>1, <2>2 DEF DownInv, DownPcs
<1> QED
  BY <1>1, <1>2, <1>3

\* Every step keeps the drain exact (shutdown).
LEMMA DownStep ==
  ASSUME Cardinality(Units) < UsizeMod, TpuInv, DownInv, [Next]_vars
  PROVE  DownInv'
<1>1. TypeOK /\ UnitsInv /\ CountInv
  BY DEF TpuInv, PoolUnitsInv, PoolInv
<1>2. ASSUME NEW c \in Callers, SendUnit(c) PROVE DownInv' \/ UNCHANGED poolVars
  BY <1>1, <1>2, NextItem, DownSend
<1>3. ASSUME NEW c \in Callers, EndPipeline(c) PROVE DownInv'
  BY <1>1, <1>3, DownBegin, DownOther DEF EndPipeline
<1>4. ASSUME NEW c \in Callers, NEW b \in Batches, BeginBatch(c, b)
      PROVE  UNCHANGED poolVars
  BY <1>4 DEF BeginBatch
<1>5. ASSUME NEW c \in Callers, EndBatch(c) PROVE UNCHANGED poolVars
  BY <1>5 DEF EndBatch
<1>6. ASSUME UNCHANGED poolVars PROVE DownInv'
  <2>1. UNCHANGED <<queue, wpc, cur, completions, fate, open, cpc, want, got>>
    BY <1>6 DEF poolVars, workerVars, callerVars
  <2>2. Flight' = Flight /\ (Undisturbed => Undisturbed')
    BY <2>1, FlightKept
  <2> QED
    BY <2>1, <2>2 DEF DownInv
<1>7. ASSUME NEW w \in Workers, WorkerStep(w) PROVE DownInv'
  BY <1>1, <1>7, DownWorker
<1>8. ASSUME NEW c \in Callers, CountPending(c) \/ Drain(c) \/ SendShutdowns(c) \/ DropPool(c)
      PROVE  DownInv'
  BY <1>1, <1>8, DownDrain, DownOther
<1> QED
  BY <1>2, <1>3, <1>4, <1>5, <1>6, <1>7, <1>8 DEF Next, vars

\* The invariant of shutdown().
LEMMA DownInvariant ==
  ASSUME Cardinality(Units) < UsizeMod
  PROVE  Spec => [](TpuInv /\ DownInv)
<1>1. TpuInv /\ DownInv /\ [Next]_vars => DownInv'
  BY DownStep
<1> QED
  BY DownInit, <1>1, TpuInvariant, PTL DEF Spec

\* If fewer units are submitted than the counter can hold, shutdown() signals
\* the workers only when everything ever sent has come back.
THEOREM ShutdownWaits ==
  ASSUME Cardinality(Units) < UsizeMod
  PROVE  Spec => []ShutdownWaitsForAll
<1>1. TpuInv /\ DownInv => ShutdownWaitsForAll
  <2> SUFFICES ASSUME TpuInv, DownInv, NEW c \in Callers, cpc[c] \in {"signal", "sleep"}
               PROVE  /\ \A u \in Units : fate[u] # "queued"
                      /\ completions = <<>>
                      /\ \A w \in Workers : wpc[w] \in {"recv", "stopped"}
    BY DEF ShutdownWaitsForAll
  <2>1. TypeOK /\ UnitsInv
    BY DEF TpuInv, PoolUnitsInv, PoolInv
  <2>2. Flight = {}
    BY DEF DownInv
  <2>3. QueuedUnits = {} /\ WorkingUnits = {}
    BY <2>2 DEF Flight
  <2>4. Busy = {}
    BY <2>3 DEF WorkingUnits
  <2>5. \A u \in Units : fate[u] # "queued"
    BY <2>1, <2>3, <2>4 DEF UnitsInv, NoneLost, QueuedUnits
  <2>6. completions = <<>>
    <3>1. Len(completions) = 0
      BY <2>1, <2>2, FlightCount, FiniteCounts, FS_EmptySet
    <3> QED
      BY <2>1, <3>1 DEF TypeOK
  <2>7. \A w \in Workers : wpc[w] \in {"recv", "stopped"}
    BY <2>1, <2>4 DEF TypeOK, WorkerPcs, Busy
  <2> QED
    BY <2>5, <2>6, <2>7
<1> QED
  BY <1>1, DownInvariant, PTL

\* With as few units, the drain of shutdown() waits for exactly the completions
\* that are still to come, over any number of batches that nobody waited for.
THEOREM DrainIsExact ==
  ASSUME Cardinality(Units) < UsizeMod
  PROVE  Spec => []WaitsForWhatIsThere
<1>1. TpuInv /\ DownInv => WaitsForWhatIsThere
  <2> SUFFICES ASSUME TpuInv, DownInv, NEW c \in Callers, cpc[c] \in WaitPcs \cup {"drain"}
               PROVE  want[c] - Len(got[c]) = Cardinality(QueuedUnits)
                                              + Cardinality(WorkingUnits) + Len(completions)
    BY DEF WaitsForWhatIsThere
  <2>1. TypeOK /\ UnitsInv
    BY DEF TpuInv, PoolUnitsInv, PoolInv
  <2>2. cpc[c] = "drain"
    BY DEF DownInv, WaitPcs, DownPcs
  <2>3. want[c] = Len(got[c]) + Cardinality(Flight)
    BY <2>2 DEF DownInv
  <2>4. Len(got[c]) \in Nat
    BY <2>1 DEF TypeOK
  <2>5. /\ Cardinality(Flight) \in Nat
        /\ Cardinality(Flight) =
             Cardinality(QueuedUnits) + Cardinality(WorkingUnits) + Len(completions)
    BY <2>1, FlightCount
  <2> QED
    BY <2>3, <2>4, <2>5
<1> QED
  BY <1>1, DownInvariant, PTL
=============================================================================
