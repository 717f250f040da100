---------------------- MODULE IntegratedPipeline_proof ----------------------
(***************************************************************************)
(* The pool under process_batch.  For any batches, schedules, workers and  *)
(* callers the pipeline is a client of the pool as PoolSpec admits it, so  *)
(* what is proved of the pool holds in the pipeline.  For one caller its   *)
(* answers are true and complete, and it leaves nothing behind.            *)
(***************************************************************************)
EXTENDS IntegratedPipeline, AsyncWorkerPool_proof

\* The units of a batch that have an id are sent at most once: by the map, which
\* keeps the last of them.
Mapped(b, id) == ById(b)[id].unit

\* What a caller still holds is unsent and of its batch.
Held(c) ==
  /\ batch[c] \in submitted \cup {<<>>}
  /\ bpc[c] # "dispatch" => DOMAIN unit_map[c] = {}
  /\ \A id \in DOMAIN unit_map[c] :
       /\ id \in IdsOf(batch[c])
       /\ unit_map[c][id] = ById(batch[c])[id]
       /\ fate[Mapped(batch[c], id)] = "unsent"

\* A unit is sent once: those of a batch not submitted yet, and those that a
\* caller still holds, are unsent, and no two callers are on the same batch.
Fresh ==
  /\ \A b \in Batches \ submitted : \A u \in UnitsOf(b) : fate[u] = "unsent"
  /\ \A b \in Batches : \A u \in UnitsOf(b) : fate[u] # "unsent" => u = Mapped(b, IdOf[u])
  /\ \A c \in Callers : Held(c)
  /\ \A c, d \in Callers : c # d /\ batch[c] = batch[d] => batch[c] = <<>>

PipelineInv == PoolUnitsInv /\ PipelineTypeOK /\ Fresh

\* The HashMap of the units of a batch maps each id to a unit with that id.
LEMMA ByIdType ==
  ASSUME NEW b \in Seq(UnitData)
  PROVE  /\ DOMAIN ById(b) = IdsOf(b)
         /\ IdsOf(b) \subseteq Ids /\ UnitsOf(b) \subseteq Units
         /\ \A id \in IdsOf(b) : ById(b)[id] \in UnitData /\ IdOf[Mapped(b, id)] = id
         /\ \A id \in IdsOf(b) : Mapped(b, id) \in UnitsOf(b)
         /\ \A id \in IdsOf(b) : \E i \in DOMAIN b : ById(b)[id] = b[i]
<1> DEFINE last(id) == CHOOSE i \in DOMAIN b :
                         /\ IdOf[b[i].unit] = id
                         /\ \A j \in DOMAIN b : IdOf[b[j].unit] = id => j <= i
<1>1. ById(b) = [id \in IdsOf(b) |-> b[last(id)]]
  BY DEF ById
<1>2. /\ Len(b) \in Nat
      /\ DOMAIN b = 1 .. Len(b)
      /\ \A i \in DOMAIN b : b[i] \in UnitData
  OBVIOUS
<1>3. IdsOf(b) \subseteq Ids /\ UnitsOf(b) \subseteq Units
  BY <1>2 DEF UnitData, UnitsOf, IdsOf, Ids
<1>4. ASSUME NEW id \in IdsOf(b) PROVE last(id) \in DOMAIN b /\ IdOf[b[last(id)].unit] = id
  <2> DEFINE S == {i \in DOMAIN b : IdOf[b[i].unit] = id}
  <2>1. S \in SUBSET (1 .. Len(b)) /\ S # {}
    BY <1>2 DEF IdsOf, UnitsOf
  <2>2. \E i \in S : \A j \in S : j <= i
    <3> HIDE DEF S
    <3> QED
      BY <1>2, <2>1, LastOf
  <2>3. \E i \in DOMAIN b : /\ IdOf[b[i].unit] = id
                            /\ \A j \in DOMAIN b : IdOf[b[j].unit] = id => j <= i
    BY <2>2
  <2> QED
    BY <2>3
<1> HIDE DEF last
<1>5. \A id \in IdsOf(b) : ById(b)[id] = b[last(id)]
  BY <1>1
<1>6. \A id \in IdsOf(b) : Mapped(b, id) \in UnitsOf(b) /\ IdOf[Mapped(b, id)] = id
  BY <1>4, <1>5 DEF Mapped, UnitsOf
<1> QED
  BY <1>1, <1>2, <1>3, <1>4, <1>5, <1>6

\* A unit is of one batch only.
LEMMA OneBatch ==
  ASSUME NEW b \in Batches, NEW d \in Batches, NEW u \in UnitsOf(b), u \in UnitsOf(d)
  PROVE  b = d
<1>1. PICK i \in DOMAIN b : u = b[i].unit
  BY DEF UnitsOf
<1>2. PICK j \in DOMAIN d : u = d[j].unit
  BY DEF UnitsOf
<1> QED
  BY <1>1, <1>2, UnitsAreItems

\* Every schedule is a sequence of assignments to workers of the pool.
LEMMA AssignmentsType ==
  ASSUME NEW b \in Seq(UnitData), NEW s \in Assignments(b)
  PROVE  /\ s \in Seq(Assignment)
         /\ Len(s) <= Len(b)
         /\ \A i \in DOMAIN s : s[i].id \in IdsOf(b)
         /\ \E order \in [DOMAIN s -> DOMAIN b] :
              /\ \A i, j \in DOMAIN s : order[i] = order[j] => i = j
              /\ \A i \in DOMAIN s : s[i].id = IdOf[b[order[i]].unit]
<1> DEFINE orders(n) == {o \in [1 .. n -> DOMAIN b] :
                           \A i, j \in 1 .. n : o[i] = o[j] => i = j}
<1>0. PICK n \in 0 .. Len(b) :
        \E order \in orders(n), place \in [1 .. n -> Workers] :
          s = [i \in 1 .. n |-> [id |-> IdOf[b[order[i]].unit], worker |-> place[i]]]
  <2> DEFINE of(n) == { [i \in 1 .. n |-> [id |-> IdOf[b[order[i]].unit], worker |-> place[i]]] :
                          order \in orders(n), place \in [1 .. n -> Workers] }
  <2>1. Assignments(b) = UNION {of(n) : n \in 0 .. Len(b)}
    BY DEF Assignments
  <2> HIDE DEF orders
  <2>2. PICK n \in 0 .. Len(b) : s \in of(n)
    <3> HIDE DEF of
    <3> QED
      BY <2>1
  <2> QED
    BY <2>2
<1>1. PICK order \in orders(n), place \in [1 .. n -> Workers] :
        s = [i \in 1 .. n |-> [id |-> IdOf[b[order[i]].unit], worker |-> place[i]]]
  BY <1>0
<1>2. Len(b) \in Nat /\ \A i \in DOMAIN b : IdOf[b[i].unit] \in Ids
  <2>1. Len(b) \in Nat /\ \A i \in DOMAIN b : b[i] \in UnitData
    OBVIOUS
  <2> QED
    BY <2>1 DEF UnitData, Ids
<1>3. n \in Nat
  BY <1>2
<1>4. \A i \in 1 .. n : [id |-> IdOf[b[order[i]].unit], worker |-> place[i]] \in Assignment
  BY <1>2 DEF Assignment
<1>5. s \in Seq(Assignment) /\ DOMAIN s = 1 .. n
  BY <1>1, <1>3, <1>4
<1>6. \A i \in 1 .. n : s[i].id \in IdsOf(b)
  BY <1>1 DEF IdsOf, UnitsOf
<1>7. Len(s) = n
  BY <1>3, <1>5
<1>8. /\ order \in [DOMAIN s -> DOMAIN b]
      /\ \A i, j \in DOMAIN s : order[i] = order[j] => i = j
      /\ \A i \in DOMAIN s : s[i].id = IdOf[b[order[i]].unit]
  BY <1>1, <1>5
<1> HIDE DEF orders
<1>9. \E o \in [DOMAIN s -> DOMAIN b] :
        /\ \A i, j \in DOMAIN s : o[i] = o[j] => i = j
        /\ \A i \in DOMAIN s : s[i].id = IdOf[b[o[i]].unit]
  BY <1>8
<1>10. Len(s) <= Len(b)
  BY <1>2, <1>3, <1>7
<1> QED
  BY <1>5, <1>6, <1>9, <1>10

\* The work item made of a unit is one that the pool takes.
LEMMA ConvertType ==
  ASSUME NEW unit \in UnitData
  PROVE  ConvertToWorkItem(unit) \in Items /\ ConvertToWorkItem(unit).unit = unit.unit
BY DEF ConvertToWorkItem, UnitData, Items

\* Merging a completion into a dispatch result gives a result.
LEMMA MergeType ==
  ASSUME NEW r \in Result, NEW done \in Seq(Completion)
  PROVE  Merge(r, done) \in Result
<1> DEFINE same == {i \in DOMAIN done : IdOf[done[i].unit] = r.id}
           first == CHOOSE i \in same : \A j \in same : i <= j
<1>1. CASE same = {}
  BY <1>1 DEF Merge
<1>2. CASE same # {}
  <2>1. same \in SUBSET Nat
    OBVIOUS
  <2>2. \E i \in same : \A j \in same : i <= j
    <3> HIDE DEF same
    <3> QED
      BY <1>2, <2>1, LeastOf
  <2>3. first \in DOMAIN done
    BY <2>2
  <2>4. done[first].success \in BOOLEAN
    <3> HIDE DEF first, same
    <3>1. done[first] \in Completion
      BY <2>3
    <3> QED
      BY <3>1 DEF Completion
  <2>5. Merge(r, done) = [r EXCEPT !.success = done[first].success]
    BY <1>2 DEF Merge
  <2> HIDE DEF first
  <2> QED
    BY <2>4, <2>5 DEF Result
<1> QED
  BY <1>1, <1>2

-----------------------------------------------------------------------------

\* Before the first batch nothing is held anywhere.
LEMMA PipelineInitInv == Init => PipelineInv
<1> SUFFICES ASSUME Init PROVE PipelineInv
  OBVIOUS
<1>1. PoolUnitsInv
  BY PoolUnitsInit DEF Init
<1>2. <<>> \in Seq(Assignment) /\ <<>> \in Seq(Result) /\ <<>> \in Seq(UnitData) /\ DOMAIN <<>> = {}
  OBVIOUS
<1>3. PipelineTypeOK
  BY <1>1, <1>2 DEF Init, PoolUnitsInv, PoolInv, PipelineTypeOK
<1>4. Fresh
  <2>1. \A b \in Batches : UnitsOf(b) \subseteq Units
    BY BatchesAssumption, ByIdType
  <2> QED
    BY <1>2, <2>1 DEF Init, PoolInit, Fresh, Held
<1> QED
  BY <1>1, <1>3, <1>4 DEF PipelineInv

\* The item that a dispatch sends is of its caller's batch and unsent.
LEMMA DispatchedItem ==
  ASSUME PipelineInv, NEW c \in Callers, DispatchUnit(c)
  PROVE  /\ Head(todo[c]) \in Assignment
         /\ Head(todo[c]).worker \in Workers
         /\ Head(todo[c]).id \in IdsOf(batch[c])
         /\ batch[c] \in Batches
         /\ unit_map[c][Head(todo[c]).id] \in UnitData
         /\ unit_map[c][Head(todo[c]).id] = ById(batch[c])[Head(todo[c]).id]
         /\ ConvertToWorkItem(unit_map[c][Head(todo[c]).id]) \in Items
         /\ ConvertToWorkItem(unit_map[c][Head(todo[c]).id]).unit = Mapped(batch[c], Head(todo[c]).id)
         /\ fate[Mapped(batch[c], Head(todo[c]).id)] = "unsent"
<1> DEFINE next == Head(todo[c])
<1>1. next \in Assignment
  BY DEF PipelineInv, PipelineTypeOK, DispatchUnit
<1>2. next.worker \in Workers
  BY <1>1 DEF Assignment
<1>3. next.id \in DOMAIN unit_map[c]
  BY DEF DispatchUnit
<1> HIDE DEF next
<1>4. /\ next.id \in IdsOf(batch[c])
      /\ unit_map[c][next.id] = ById(batch[c])[next.id]
      /\ fate[Mapped(batch[c], next.id)] = "unsent"
      /\ batch[c] \in submitted \cup {<<>>}
  BY <1>3 DEF PipelineInv, Fresh, Held
<1>5. batch[c] \in Batches
  <2>1. IdsOf(<<>>) = {}
    <3>1. DOMAIN <<>> = {}
      OBVIOUS
    <3> QED
      BY <3>1 DEF IdsOf, UnitsOf
  <2> QED
    BY <1>4, <2>1 DEF PipelineInv, PipelineTypeOK
<1>6. unit_map[c][next.id] \in UnitData
  BY <1>3 DEF PipelineInv, PipelineTypeOK
<1>7. /\ ConvertToWorkItem(unit_map[c][next.id]) \in Items
      /\ ConvertToWorkItem(unit_map[c][next.id]).unit = Mapped(batch[c], next.id)
  BY <1>4, <1>6, ConvertType DEF Mapped
<1> QED
  BY <1>1, <1>2, <1>4, <1>5, <1>6, <1>7 DEF next

\* The pipeline touches the pool only by what its general client may do.
LEMMA PipelineStep ==
  ASSUME PipelineInv, [Next]_vars
  PROVE  [PoolNext(Items)]_poolVars
<1> USE DEF PoolNext, BeginCall
<1>1. ASSUME NEW c \in Callers, DispatchUnit(c)
      PROVE  [PoolNext(Items)]_poolVars
  <2> DEFINE next == Head(todo[c])
             item == ConvertToWorkItem(unit_map[c][next.id])
  <2>1. next.worker \in Workers /\ item \in Items /\ fate[item.unit] = "unsent"
    BY <1>1, DispatchedItem
  <2>2. SendWork(c, next.worker, item) \/ UNCHANGED poolVars
    BY <1>1 DEF DispatchUnit
  <2> QED
    BY <2>1, <2>2 DEF SubmitUnit
<1>2. ASSUME NEW c \in Callers, BeginWait(c) PROVE PoolNext(Items)
  BY <1>2 DEF BeginWait
<1>3. ASSUME NEW c \in Callers, DropPipeline(c) PROVE PoolNext(Items)
  BY <1>3 DEF DropPipeline
<1>4. ASSUME NEW c \in Callers, UnitNotFound(c) \/ EndBatch(c) PROVE UNCHANGED poolVars
  BY <1>4 DEF UnitNotFound, EndBatch
<1>5. ASSUME NEW c \in Callers, NEW b \in Batches, BeginBatch(c, b) \/ ScheduleFails(c, b)
      PROVE  UNCHANGED poolVars
  BY <1>5 DEF BeginBatch, ScheduleFails
<1>6. ASSUME NEW w \in Workers, WorkerStep(w) PROVE PoolNext(Items)
  BY <1>6
<1>7. ASSUME NEW c \in Callers, CallerStep(c) PROVE PoolNext(Items)
  BY <1>7
<1>8. ASSUME Terminated \/ UNCHANGED vars PROVE UNCHANGED poolVars
  BY <1>8 DEF Terminated, vars
<1> HIDE DEF PoolNext, BeginCall
<1> QED
  BY <1>1, <1>2, <1>3, <1>4, <1>5, <1>6, <1>7, <1>8 DEF Next, BatchStep

\* The state of process_batch keeps its types: each index, id and worker it
\* uses is one that exists.
LEMMA BatchTypes ==
  ASSUME PipelineInv, TypeOK', [Next]_vars
  PROVE  PipelineTypeOK'
<1> USE DEF PipelineInv, PipelineTypeOK
<1>1. ASSUME UNCHANGED batchVars PROVE PipelineTypeOK'
  BY <1>1 DEF batchVars
<1>2. ASSUME NEW c \in Callers, NEW b \in Batches, BeginBatch(c, b)
      PROVE  PipelineTypeOK'
  <2>1. b \in Seq(UnitData)
    BY BatchesAssumption
  <2>2. PICK s \in Assignments(b) : todo' = [todo EXCEPT ![c] = s]
    BY <1>2 DEF BeginBatch
  <2>3. s \in Seq(Assignment) /\ <<>> \in Seq(Result)
    BY <2>1, AssignmentsType
  <2>4. \A d \in Callers : unit_map'[d] = IF d = c THEN ById(b) ELSE unit_map[d]
    BY <1>2 DEF BeginBatch
  <2>5. DOMAIN unit_map' = Callers
    BY <1>2 DEF BeginBatch
  <2>6. \A d \in Callers :
          /\ DOMAIN unit_map'[d] \subseteq Ids
          /\ \A id \in DOMAIN unit_map'[d] : unit_map'[d][id] \in UnitData
    <3>1. /\ DOMAIN ById(b) \subseteq Ids
          /\ \A id \in DOMAIN ById(b) : ById(b)[id] \in UnitData
      BY <2>1, ByIdType
    <3>2. \A d \in Callers :
            /\ DOMAIN unit_map[d] \subseteq Ids
            /\ \A id \in DOMAIN unit_map[d] : unit_map[d][id] \in UnitData
      OBVIOUS
    <3> QED
      BY <2>4, <3>1, <3>2 DEF BeginBatch
  <2> QED
    BY <1>2, <2>1, <2>2, <2>3, <2>5, <2>6 DEF BeginBatch
<1>3. ASSUME NEW c \in Callers, NEW b \in Batches, ScheduleFails(c, b)
      PROVE  PipelineTypeOK'
  <2>1. <<>> \in Seq(Result) /\ b \in Seq(UnitData)
    BY BatchesAssumption
  <2> QED
    BY <1>3, <2>1 DEF ScheduleFails
<1>4. ASSUME NEW c \in Callers, NEW success \in BOOLEAN, todo[c] # <<>>, AddResult(c, success)
      PROVE  results' \in [Callers -> Seq(Result)]
  <2>1. Head(todo[c]) \in Assignment
    BY <1>4
  <2>2. [id |-> Head(todo[c]).id, worker |-> Head(todo[c]).worker, success |-> success]
          \in Result
    BY <2>1 DEF Assignment, Result
  <2> QED
    BY <1>4, <2>2 DEF AddResult
<1>5. ASSUME NEW c \in Callers, todo[c] # <<>>, todo' = [todo EXCEPT ![c] = Tail(@)]
      PROVE  todo' \in [Callers -> Seq(Assignment)]
  <2>1. Tail(todo[c]) \in Seq(Assignment)
    BY <1>5
  <2> QED
    BY <1>5, <2>1
<1>6. ASSUME NEW c \in Callers, DispatchUnit(c) PROVE PipelineTypeOK'
  <2> DEFINE next == Head(todo[c])
  <2>1. Sendable(next.worker) \in BOOLEAN
    BY DEF Sendable
  <2>2. results' \in [Callers -> Seq(Result)]
    BY <1>4, <1>6, <2>1 DEF DispatchUnit
  <2>3. todo' \in [Callers -> Seq(Assignment)]
    BY <1>5, <1>6 DEF DispatchUnit
  <2>4. /\ DOMAIN unit_map' = Callers
        /\ \A d \in Callers : unit_map'[d] =
             IF d = c THEN [id \in DOMAIN unit_map[c] \ {next.id} |-> unit_map[c][id]]
                      ELSE unit_map[d]
    BY <1>6 DEF DispatchUnit
  <2>5. \A d \in Callers :
          /\ DOMAIN unit_map'[d] \subseteq Ids
          /\ \A id \in DOMAIN unit_map'[d] : unit_map'[d][id] \in UnitData
    <3>1. \A d \in Callers :
            /\ DOMAIN unit_map[d] \subseteq Ids
            /\ \A id \in DOMAIN unit_map[d] : unit_map[d][id] \in UnitData
      OBVIOUS
    <3> HIDE DEF PipelineInv, PipelineTypeOK, next
    <3> SUFFICES ASSUME NEW d \in Callers
                 PROVE  /\ DOMAIN unit_map'[d] \subseteq Ids
                        /\ \A id \in DOMAIN unit_map'[d] : unit_map'[d][id] \in UnitData
      OBVIOUS
    <3>2. CASE d = c
      BY <2>4, <3>1, <3>2
    <3>3. CASE d # c
      BY <2>4, <3>1, <3>3
    <3> QED
      BY <3>2, <3>3
  <2>6. bpc' = bpc /\ submitted' = submitted /\ batch' = batch
    BY <1>6 DEF DispatchUnit
  <2> QED
    BY <2>2, <2>3, <2>4, <2>5, <2>6
<1>7. ASSUME NEW c \in Callers, UnitNotFound(c) PROVE PipelineTypeOK'
  BY <1>4, <1>5, <1>7 DEF UnitNotFound
<1>8. ASSUME NEW c \in Callers, BeginWait(c) PROVE PipelineTypeOK'
  <2>1. DOMAIN <<>> = {}
    OBVIOUS
  <2> QED
    BY <1>8, <2>1 DEF BeginWait
<1>9. ASSUME NEW c \in Callers, EndBatch(c) PROVE PipelineTypeOK'
  <2>1. got[c] \in Seq(Completion)
    BY DEF TypeOK
  <2>2. results[c] \in Seq(Result)
    OBVIOUS
  <2>3. \A i \in DOMAIN results[c] : Merge(results[c][i], got[c]) \in Result
    BY <2>1, <2>2, MergeType
  <2>4. [i \in DOMAIN results[c] |-> Merge(results[c][i], got[c])] \in Seq(Result)
    <3>1. PICK n \in Nat : DOMAIN results[c] = 1 .. n
      BY <2>2
    <3>2. \A i \in 1 .. n : Merge(results[c][i], got[c]) \in Result
      BY <2>3, <3>1
    <3> HIDE DEF PipelineInv, PipelineTypeOK
    <3>3. [i \in 1 .. n |-> Merge(results[c][i], got[c])] \in Seq(Result)
      BY <3>2
    <3> QED
      BY <3>1, <3>3
  <2>5. results' \in [Callers -> Seq(Result)]
    BY <1>9, <2>4 DEF EndBatch
  <2> QED
    BY <1>9, <2>5 DEF EndBatch
<1>10. ASSUME NEW c \in Callers, DropPipeline(c) PROVE PipelineTypeOK'
  BY <1>1, <1>10 DEF DropPipeline
<1>11. ASSUME Terminated \/ UNCHANGED vars PROVE PipelineTypeOK'
  BY <1>1, <1>11 DEF Terminated, vars
<1> QED
  BY <1>1, <1>2, <1>3, <1>6, <1>7, <1>8, <1>9, <1>10, <1>11 DEF Next, BatchStep

\* What is to be sent is still unsent after every step.
LEMMA FreshStep ==
  ASSUME PipelineInv, [Next]_vars
  PROVE  Fresh'
<1> USE DEF PipelineInv
<1>1. /\ TypeOK /\ UnitsInv /\ submitted \subseteq Batches
      /\ bpc \in [Callers -> {"idle", "dispatch", "wait"}]
      /\ DOMAIN batch = Callers /\ DOMAIN unit_map = Callers
  BY DEF PoolUnitsInv, PoolInv, PipelineTypeOK
<1>2. \A b \in Batches :
        /\ DOMAIN ById(b) = IdsOf(b) /\ UnitsOf(b) \subseteq Units
        /\ \A id \in IdsOf(b) : Mapped(b, id) \in UnitsOf(b) /\ IdOf[Mapped(b, id)] = id
  BY BatchesAssumption, ByIdType
<1>3. \A c \in Callers : \A id \in DOMAIN unit_map[c] :
        batch[c] \in Batches /\ Mapped(batch[c], id) \in UnitsOf(batch[c])
  <2>1. IdsOf(<<>>) = {}
    <3>1. DOMAIN <<>> = {}
      OBVIOUS
    <3> QED
      BY <3>1 DEF IdsOf, UnitsOf
  <2> QED
    BY <1>1, <1>2, <2>1 DEF Fresh, Held
<1>4. ASSUME UNCHANGED <<batch, submitted>>,
             \A c \in Callers : bpc'[c] # "dispatch" =>
               bpc[c] # "dispatch" \/ DOMAIN unit_map'[c] = {},
             \A c \in Callers : unit_map'[c] = unit_map[c] \/ DOMAIN unit_map'[c] = {},
             \A b \in Batches : \A u \in UnitsOf(b) : fate[u] = "unsent" => fate'[u] = "unsent"
      PROVE  Fresh'
  <2>1. ASSUME NEW c \in Callers PROVE Held(c)'
    <3>1. Held(c)
      BY DEF Fresh
    <3>2. CASE unit_map'[c] = unit_map[c]
      BY <1>3, <1>4, <3>1, <3>2 DEF Held, Mapped
    <3>3. CASE DOMAIN unit_map'[c] = {}
      BY <1>4, <3>1, <3>3 DEF Held
    <3> QED
      BY <1>4, <3>2, <3>3
  <2>2. /\ \A b \in Batches \ submitted' : \A u \in UnitsOf(b) : fate'[u] = "unsent"
        /\ \A b \in Batches : \A u \in UnitsOf(b) :
             fate'[u] # "unsent" => u = Mapped(b, IdOf[u])
        /\ \A c, d \in Callers : c # d /\ batch'[c] = batch'[d] => batch'[c] = <<>>
    BY <1>4 DEF Fresh
  <2> QED
    BY <2>1, <2>2 DEF Fresh, Mapped
<1>5. ASSUME NEW c \in Callers, NEW b \in Batches, BeginBatch(c, b) \/ ScheduleFails(c, b)
      PROVE  Fresh'
  <2>1. /\ b \notin submitted
        /\ submitted' = submitted \cup {b}
        /\ \A d \in Callers : batch'[d] = IF d = c THEN b ELSE batch[d]
        /\ \A d \in Callers : d # c => unit_map'[d] = unit_map[d] /\ bpc'[d] = bpc[d]
        /\ fate' = fate
    BY <1>1, <1>5 DEF BeginBatch, ScheduleFails, poolVars
  <2>2. \A id \in IdsOf(b) : fate[Mapped(b, id)] = "unsent"
    BY <1>2, <2>1 DEF Fresh
  <2>3. Held(c)'
    <3>1. batch'[c] = b /\ b \in submitted'
      BY <2>1
    <3>2. CASE BeginBatch(c, b)
      <4>1. unit_map'[c] = ById(b) /\ bpc'[c] = "dispatch"
        BY <1>1, <3>2 DEF BeginBatch
      <4> QED
        BY <1>2, <2>1, <2>2, <3>1, <4>1 DEF Held, Mapped
    <3>3. CASE ScheduleFails(c, b)
      <4>1. DOMAIN unit_map'[c] = {}
        BY <3>3 DEF ScheduleFails, Fresh, Held
      <4> QED
        BY <3>1, <4>1 DEF Held
    <3> QED
      BY <1>5, <3>2, <3>3
  <2>4. ASSUME NEW d \in Callers, d # c PROVE Held(d)'
    <3>1. Held(d)
      BY DEF Fresh
    <3>2. /\ batch'[d] = batch[d] /\ unit_map'[d] = unit_map[d] /\ bpc'[d] = bpc[d]
          /\ submitted \subseteq submitted'
      BY <2>1, <2>4
    <3> QED
      BY <2>1, <3>1, <3>2 DEF Held, Mapped
  <2>5. \A d, e \in Callers : d # e /\ batch'[d] = batch'[e] => batch'[d] = <<>>
    <3>1. \A d \in Callers : d # c => batch[d] # b \/ batch[d] = <<>>
      BY <2>1 DEF Fresh, Held
    <3> QED
      BY <2>1, <3>1 DEF Fresh
  <2>6. /\ \A e \in Batches \ submitted' : \A u \in UnitsOf(e) : fate'[u] = "unsent"
        /\ \A e \in Batches : \A u \in UnitsOf(e) :
             fate'[u] # "unsent" => u = Mapped(e, IdOf[u])
    BY <2>1 DEF Fresh
  <2> QED
    BY <2>3, <2>4, <2>5, <2>6 DEF Fresh, Mapped
<1>6. ASSUME NEW c \in Callers, DispatchUnit(c)
      PROVE  Fresh'
  <2> DEFINE id == Head(todo[c]).id
             B == batch[c]
             u == Mapped(B, id)
             item == ConvertToWorkItem(unit_map[c][id])
  <2>1. /\ id \in IdsOf(B) /\ B \in Batches
        /\ item \in Items /\ item.unit = u
    BY <1>6, DispatchedItem
  <2>2. u \in UnitsOf(B) /\ IdOf[u] = id /\ B \in submitted
    <3>1. B \in submitted \/ B = <<>>
      BY DEF Fresh, Held
    <3>2. UnitsOf(<<>>) = {}
      <4>1. DOMAIN <<>> = {}
        OBVIOUS
      <4> QED
        BY <4>1 DEF UnitsOf
    <3> HIDE DEF id, B
    <3> QED
      BY <1>2, <2>1, <3>1, <3>2
  <2>3. fate' = fate \/ fate' = [fate EXCEPT ![u] = "queued"]
    BY <1>6, <2>1, PoolAssumption DEF DispatchUnit, SendWork, poolVars
  <2>4. /\ submitted' = submitted /\ batch' = batch /\ bpc' = bpc
        /\ \A d \in Callers : d # c => unit_map'[d] = unit_map[d]
        /\ unit_map'[c] = [k \in DOMAIN unit_map[c] \ {id} |-> unit_map[c][k]]
    BY <1>1, <1>6 DEF DispatchUnit
  <2>5. B = batch[c] /\ u = Mapped(B, id)
    OBVIOUS
  <2> HIDE DEF id, B, u, item
  <2>6. \A x \in Units : x # u => fate'[x] = fate[x]
    BY <1>1, <2>3 DEF TypeOK
  <2>7. \A b \in Batches : b # B => u \notin UnitsOf(b)
    BY <2>1, <2>2, OneBatch
  <2>8. ASSUME NEW d \in Callers PROVE Held(d)'
    <3>1. Held(d)
      BY DEF Fresh
    <3>2. CASE d = c
      <4>1. ASSUME NEW k \in DOMAIN unit_map'[c] PROVE fate'[Mapped(B, k)] = "unsent"
        <5>1. k \in DOMAIN unit_map[c] /\ k # id
          BY <2>4, <4>1
        <5>2. k \in IdsOf(B) /\ fate[Mapped(B, k)] = "unsent"
          BY <2>5, <3>1, <3>2, <5>1 DEF Held
        <5>3. IdOf[Mapped(B, k)] = k /\ Mapped(B, k) \in Units
          BY <1>2, <2>1, <5>2
        <5> QED
          BY <2>2, <2>6, <5>1, <5>2, <5>3
      <4>2. \A k \in DOMAIN unit_map'[c] : k \in DOMAIN unit_map[c] /\ unit_map'[c][k] = unit_map[c][k]
        BY <2>4
      <4>3. bpc'[c] = "dispatch"
        BY <1>6, <2>4 DEF DispatchUnit
      <4> QED
        BY <2>4, <2>5, <3>1, <3>2, <4>1, <4>2, <4>3 DEF Held, Mapped
    <3>3. CASE d # c
      <4>1. ASSUME NEW k \in DOMAIN unit_map[d] PROVE fate'[Mapped(batch[d], k)] = "unsent"
        <5>1. batch[d] \in Batches /\ Mapped(batch[d], k) \in UnitsOf(batch[d])
          BY <1>3
        <5>2. batch[d] # B
          <6>1. UnitsOf(<<>>) = {}
            <7>1. DOMAIN <<>> = {}
              OBVIOUS
            <7> QED
              BY <7>1 DEF UnitsOf
          <6>2. c # d /\ batch[c] = batch[d] => batch[c] = <<>>
            BY DEF Fresh
          <6> QED
            BY <2>5, <3>3, <5>1, <6>1, <6>2
        <5>3. Mapped(batch[d], k) # u /\ Mapped(batch[d], k) \in Units
          BY <1>2, <2>7, <5>1, <5>2
        <5>4. fate[Mapped(batch[d], k)] = "unsent"
          BY <3>1 DEF Held
        <5> QED
          BY <2>6, <5>3, <5>4
      <4> QED
        BY <2>4, <3>1, <3>3, <4>1 DEF Held, Mapped
    <3> QED
      BY <3>2, <3>3
  <2>9. \A b \in Batches \ submitted' : \A x \in UnitsOf(b) : fate'[x] = "unsent"
    BY <1>2, <2>2, <2>4, <2>6, <2>7 DEF Fresh
  <2>10. \A b \in Batches : \A x \in UnitsOf(b) : fate'[x] # "unsent" => x = Mapped(b, IdOf[x])
    <3>1. u = Mapped(B, IdOf[u])
      BY <2>2, <2>5
    <3> SUFFICES ASSUME NEW b \in Batches, NEW x \in UnitsOf(b), fate'[x] # "unsent"
                 PROVE  x = Mapped(b, IdOf[x])
      OBVIOUS
    <3>2. CASE x = u
      BY <2>7, <3>1, <3>2
    <3>3. CASE x # u
      <4>1. fate[x] # "unsent"
        BY <1>2, <2>6, <3>3
      <4> QED
        BY <4>1 DEF Fresh
    <3> QED
      BY <3>2, <3>3
  <2>11. \A d, e \in Callers : d # e /\ batch'[d] = batch'[e] => batch'[d] = <<>>
    BY <2>4 DEF Fresh
  <2> QED
    BY <2>8, <2>9, <2>10, <2>11 DEF Fresh, Mapped
<1>7. ASSUME NEW c \in Callers, BeginWait(c) \/ UnitNotFound(c) \/ EndBatch(c) \/ DropPipeline(c)
      PROVE  Fresh'
  <2>1. UNCHANGED <<batch, submitted>>
    BY <1>7 DEF BeginWait, UnitNotFound, EndBatch, DropPipeline, batchVars
  <2>2. fate' = fate
    BY <1>7 DEF BeginWait, UnitNotFound, EndBatch, DropPipeline, LoadPending, AbandonPool, poolVars
  <2>3. /\ \A d \in Callers : unit_map'[d] = unit_map[d] \/ DOMAIN unit_map'[d] = {}
        /\ \A d \in Callers : bpc'[d] # "dispatch" =>
             bpc[d] # "dispatch" \/ DOMAIN unit_map'[d] = {}
    <3>1. CASE BeginWait(c)
      <4>1. DOMAIN <<>> = {}
        OBVIOUS
      <4> QED
        BY <1>1, <3>1, <4>1 DEF BeginWait
    <3>2. CASE UnitNotFound(c) \/ EndBatch(c) \/ DropPipeline(c)
      BY <1>1, <3>2 DEF UnitNotFound, EndBatch, DropPipeline, batchVars
    <3> QED
      BY <1>7, <3>1, <3>2
  <2> QED
    BY <1>4, <2>1, <2>2, <2>3
<1>8. ASSUME UNCHANGED batchVars,
             (\E w \in Workers : WorkerStep(w)) \/ (\E c \in Callers : CallerStep(c))
      PROVE  Fresh'
  <2>1. UNCHANGED <<bpc, batch, unit_map, submitted>>
    BY <1>8 DEF batchVars
  <2>2. \A u \in Units : fate[u] = "unsent" => fate'[u] = "unsent"
    BY <1>1, <1>8, UnsentKept
  <2> QED
    BY <1>2, <1>4, <2>1, <2>2
<1>9. ASSUME Terminated \/ UNCHANGED vars PROVE Fresh'
  BY <1>4, <1>9 DEF Terminated, vars, batchVars, poolVars
<1> QED
  BY <1>5, <1>6, <1>7, <1>8, <1>9 DEF Next, BatchStep

\* The types of the pipeline and the pool's invariant hold in every run.
THEOREM PipelineInvariant == Spec => []PipelineInv
<1>1. ASSUME PipelineInv, [Next]_vars PROVE PipelineInv'
  <2>1. PoolUnitsInv'
    BY <1>1, PipelineStep, PoolUnitsStep DEF PipelineInv
  <2>2. TypeOK'
    BY <2>1 DEF PoolUnitsInv, PoolInv
  <2> QED
    BY <1>1, <2>1, <2>2, BatchTypes, FreshStep DEF PipelineInv
<1> QED
  BY PipelineInitInv, <1>1, PTL DEF Spec

\* Every unit id, worker and unit that process_batch handles is one that exists.
THEOREM PipelineTypes == Spec => []PipelineTypeOK
<1>1. PipelineInv => PipelineTypeOK
  BY DEF PipelineInv
<1> QED
  BY <1>1, PipelineInvariant, PTL

\* Any number of concurrent calls of process_batch use the pool as its general
\* client does, and send no unit twice, whatever the schedules are.
THEOREM PipelineIsPoolClient == Spec => PoolSpec
<1>1. PipelineInv /\ [Next]_vars => [PoolNext(Items)]_poolVars
  BY PipelineStep
<1>2. Init => PoolInit
  BY DEF Init
<1> QED
  BY <1>1, <1>2, PipelineInvariant, PTL DEF Spec, PoolSpec

\* In the pipeline, whatever the schedule, the lock set is exact and two work
\* items that name a common account are not executed together.
THEOREM PipelineExclusion == Spec => [](LockTableExact /\ ExclusiveExecution)
BY PipelineIsPoolClient, LockTableIsExact, ExecutionIsExclusive, PTL

-----------------------------------------------------------------------------
(* One caller: what process_batch answers *)

\* These units are of the batch of caller c, and what it has a result for is among
\* them.
Accounted(c, units) ==
  /\ units \subseteq UnitsOf(batch[c])
  /\ \A i \in DOMAIN results[c] : \E u \in units : IdOf[u] = results[c][i].id

\* A vector has room for the completions of each batch.
BatchesFit == \A b \in Batches : Len(b) <= MaxCapacity

\* Between batches nothing is in flight, and the answer is the truth.
Idle(c) ==
  bpc[c] = "idle" =>
    /\ IF open THEN cpc[c] = "idle" /\ Undisturbed ELSE cpc[c] = "down"
    /\ Flight = {}
    /\ \A i \in DOMAIN results[c] :
         results[c][i].success <=>
           \E u \in UnitsOf(batch[c]) : IdOf[u] = results[c][i].id /\ fate[u] = "ok"

\* What is in flight was dispatched by this call, and there is room for the
\* rest of the batch in the count.
Dispatching(c) ==
  bpc[c] = "dispatch" =>
    /\ Undisturbed
    /\ cpc[c] \in {"idle", "count"}
    /\ Cardinality(Flight) + Len(todo[c]) < UsizeMod
    /\ BatchesFit => Cardinality(Flight) + Len(todo[c]) <= MaxCapacity
    /\ \A i \in DOMAIN todo[c] :
         todo[c][i].id \in DOMAIN unit_map[c] \cup {IdOf[u] : u \in Flight}
    /\ Accounted(c, Flight)

\* The call waits for exactly what is in flight.
Waiting(c) ==
  bpc[c] = "wait" =>
    /\ Undisturbed
    /\ cpc[c] \in {"lock", "receive", "subtract", "idle", "panicked"}
    /\ BatchesFit => cpc[c] # "panicked"
    /\ want[c] = Len(got[c]) + Cardinality(Flight)
    /\ cpc[c] = "idle" => Flight = {}
    /\ Accounted(c, Flight \cup GotUnits(c))

SoloInv(c) == Idle(c) /\ Dispatching(c) /\ Waiting(c)

\* The only caller begins idle.
LEMMA SoloInit ==
  ASSUME NEW c \in Callers, Init
  PROVE  SoloInv(c)
<1>1. Undisturbed /\ Flight = {}
  BY InitUndisturbed DEF Init
<1>2. bpc[c] = "idle" /\ cpc[c] = "idle" /\ results[c] = <<>>
  BY DEF Init, PoolInit
<1>3. open /\ DOMAIN results[c] = {}
  BY <1>1, <1>2 DEF Undisturbed
<1> QED
  BY <1>1, <1>2, <1>3 DEF SoloInv, Idle, Dispatching, Waiting

\* The workers' steps.
LEMMA SoloWorker ==
  ASSUME TypeOK, UnitsInv, NEW c \in Callers, SoloInv(c), UNCHANGED batchVars,
         bpc[c] \in {"idle", "dispatch", "wait"},
         NEW w \in Workers, WorkerStep(w)
  PROVE  SoloInv(c)'
<1> USE DEF SoloInv
<1>1. CASE bpc[c] = "idle"
  <2>1. Flight' = {} /\ UNCHANGED <<fate, callerVars>>
    BY <1>1, NothingInFlight DEF Idle
  <2>2. Undisturbed => Undisturbed'
    BY WorkerFlight
  <2> QED
    BY <1>1, <2>1, <2>2 DEF Idle, Dispatching, Waiting, batchVars, callerVars
<1>2. CASE bpc[c] \in {"dispatch", "wait"}
  <2>1. Undisturbed' /\ Flight' = Flight /\ UNCHANGED callerVars
    BY <1>2, WorkerFlight DEF Dispatching, Waiting
  <2>2. GotUnits(c)' = GotUnits(c)
    BY <2>1 DEF GotUnits, callerVars
  <2> QED
    BY <1>2, <2>1, <2>2 DEF Idle, Dispatching, Waiting, Accounted, batchVars, callerVars
<1> QED
  BY <1>1, <1>2

\* The steps inside a call of the pool.
LEMMA SoloCall ==
  ASSUME TypeOK, UnitsInv, NEW c \in Callers, SoloInv(c), UNCHANGED batchVars,
         bpc[c] \in {"idle", "dispatch", "wait"}, CallerStep(c)
  PROVE  SoloInv(c)'
<1> USE DEF SoloInv
<1>1. bpc[c] # "idle" /\ cpc[c] \notin {"drain", "signal", "sleep"}
  BY DEF CallerStep, CountPending, LockReceiver, ReceiveCompletion, SubtractPending,
         ReceiverClosed, Drain, DrainClosed, SendShutdowns, DropPool, Idle, Dispatching,
         Waiting
<1>2. CASE bpc[c] = "dispatch"
  <2>1. CountPending(c)
    BY <1>1, <1>2 DEF CallerStep, LockReceiver, ReceiveCompletion, SubtractPending,
       ReceiverClosed, Drain, DrainClosed, SendShutdowns, DropPool, Dispatching
  <2>2. UNCHANGED <<queue, wpc, cur, completions, fate, open>> /\ cpc'[c] = "idle"
    BY <2>1 DEF TypeOK, CountPending, workerVars
  <2>3. Flight' = Flight /\ Undisturbed'
    BY <1>2, <2>2, FlightKept DEF Dispatching
  <2> QED
    BY <1>2, <2>2, <2>3 DEF Idle, Dispatching, Waiting, Accounted, batchVars
<1>3. CASE bpc[c] = "wait"
  <2>1. want[c] \in Nat /\ Len(got[c]) \in Nat /\ Cardinality(Flight) \in Nat
    BY FlightCount DEF TypeOK
  <2>2. CASE ReceiveCompletion(c)
    <3>1. /\ Undisturbed'
          /\ Cardinality(Flight') = Cardinality(Flight) - 1
          /\ Len(got'[c]) = Len(got[c]) + 1
          /\ (Flight \cup GotUnits(c))' = Flight \cup GotUnits(c)
          /\ UNCHANGED <<pending, open, want, fate>>
      BY <1>3, <2>2, TakeFlight DEF Waiting
    <3>2. cpc'[c] = "subtract"
      BY <2>2 DEF TypeOK, ReceiveCompletion
    <3> QED
      BY <1>3, <2>1, <3>1, <3>2 DEF Idle, Dispatching, Waiting, Accounted, batchVars
  <2>3. CASE LockReceiver(c) \/ SubtractPending(c) \/ ReceiverClosed(c)
    <3>1. UNCHANGED <<queue, wpc, cur, completions, fate, open, want, got>>
      BY <2>3 DEF LockReceiver, SubtractPending, ReceiverClosed, workerVars
    <3>2. Flight' = Flight /\ Undisturbed' /\ GotUnits(c)' = GotUnits(c)
      BY <1>3, <3>1, FlightKept DEF Waiting, GotUnits
    <3>3. cpc'[c] \in {"receive", "idle"}
      BY <2>3 DEF TypeOK, LockReceiver, SubtractPending, ReceiverClosed
    <3>4. ASSUME cpc'[c] = "idle" PROVE Flight = {}
      <4>1. CASE SubtractPending(c)
        <5>1. ~(Len(got[c]) < want[c])
          BY <3>4, <4>1 DEF TypeOK, SubtractPending
        <5>2. Cardinality(Flight) = 0
          BY <1>3, <2>1, <5>1 DEF Waiting
        <5> QED
          BY <5>2, FlightCount, FS_EmptySet
      <4>2. CASE ReceiverClosed(c)
        <5>1. completions = <<>> /\ Workers = {}
          BY <1>3, <4>2 DEF ReceiverClosed, AllStopped, Waiting, Undisturbed
        <5> QED
          BY <5>1 DEF Flight, QueuedUnits, WorkingUnits, Busy, ReportedUnits
      <4>3. ~LockReceiver(c)
        BY <3>4 DEF TypeOK, LockReceiver
      <4> QED
        BY <2>3, <4>1, <4>2, <4>3
    <3> QED
      BY <1>3, <3>1, <3>2, <3>3, <3>4
         DEF Idle, Dispatching, Waiting, Accounted, batchVars
  <2> QED
    BY <1>1, <1>3, <2>2, <2>3 DEF CallerStep, CountPending, Drain, DrainClosed,
       SendShutdowns, DropPool, Waiting
<1> QED
  BY <1>1, <1>2, <1>3

\* A batch begins: the units that are to be dispatched are all in the map.
LEMMA SoloBegin ==
  ASSUME TypeOK, UnitsInv, PipelineTypeOK, NEW c \in Callers, SoloInv(c),
         NEW b \in Batches, BeginBatch(c, b) \/ ScheduleFails(c, b)
  PROVE  SoloInv(c)'
<1> USE DEF SoloInv
<1>1. /\ UNCHANGED poolVars /\ bpc[c] = "idle" /\ open
      /\ results'[c] = <<>>
  BY DEF BeginBatch, ScheduleFails, Usable, PipelineTypeOK
<1>2. /\ Flight' = {} /\ Undisturbed' /\ cpc'[c] = "idle" /\ cpc[c] = "idle"
      /\ open' = open
  <2>1. UNCHANGED <<queue, wpc, cur, completions, fate, open, cpc>>
    BY <1>1 DEF poolVars, workerVars, callerVars
  <2> QED
    BY <1>1, <2>1, FlightKept DEF Idle
<1>3. CASE ScheduleFails(c, b)
  BY <1>1, <1>2, <1>3 DEF ScheduleFails, Idle, Dispatching, Waiting
<1>4. CASE BeginBatch(c, b)
  <2>1. PICK s \in Assignments(b) : todo' = [todo EXCEPT ![c] = s]
    BY <1>4 DEF BeginBatch
  <2>2. b \in Seq(UnitData) /\ Len(b) < UsizeMod
    BY BatchesAssumption
  <2>3. /\ s \in Seq(Assignment)
        /\ Len(s) <= Len(b)
        /\ \A i \in DOMAIN s : s[i].id \in IdsOf(b)
        /\ DOMAIN ById(b) = IdsOf(b)
    BY <2>2, AssignmentsType, ByIdType
  <2>4. todo'[c] = s /\ unit_map'[c] = ById(b) /\ bpc'[c] = "dispatch"
    BY <1>4, <2>1 DEF BeginBatch, PipelineTypeOK
  <2>5. Cardinality({}) = 0 /\ Len(s) \in Nat /\ Len(b) \in Nat /\ UsizeMod \in Nat
    BY <2>2, <2>3, FS_EmptySet, PoolAssumption
  <2>6. Cardinality(Flight') + Len(todo'[c]) < UsizeMod
    BY <1>2, <2>2, <2>3, <2>4, <2>5
  <2>7. BatchesFit => Cardinality(Flight') + Len(todo'[c]) <= MaxCapacity
    <3>1. BatchesFit => Len(b) <= MaxCapacity
      BY DEF BatchesFit
    <3> QED
      BY <1>2, <2>3, <2>4, <2>5, <3>1, PoolAssumption
  <2> QED
    BY <1>1, <1>2, <2>3, <2>4, <2>6, <2>7 DEF Idle, Dispatching, Waiting, Accounted
<1> QED
  BY <1>3, <1>4

\* The two arms of the dispatch loop.
LEMMA SoloDispatch ==
  ASSUME PipelineInv, NEW c \in Callers, SoloInv(c),
         DispatchUnit(c) \/ UnitNotFound(c)
  PROVE  SoloInv(c)'
<1> USE DEF SoloInv
<1>0. TypeOK /\ UnitsInv /\ PipelineTypeOK
  BY DEF PipelineInv, PoolUnitsInv, PoolInv
<1> USE <1>0
<1> DEFINE next == Head(todo[c])
           id == next.id
           u == Mapped(batch[c], id)
<1>1. /\ bpc[c] = "dispatch" /\ bpc'[c] = "dispatch" /\ cpc[c] = "idle"
      /\ todo[c] # <<>> /\ todo[c] \in Seq(Assignment)
      /\ todo'[c] = Tail(todo[c]) /\ batch'[c] = batch[c]
  BY DEF DispatchUnit, UnitNotFound, PipelineTypeOK
<1>2. /\ next \in Assignment
      /\ 1 \in DOMAIN todo[c] /\ next = todo[c][1]
      /\ Len(todo'[c]) = Len(todo[c]) - 1 /\ Len(todo[c]) \in Nat
      /\ \A i \in DOMAIN todo'[c] : i + 1 \in DOMAIN todo[c] /\ todo'[c][i] = todo[c][i + 1]
  BY <1>1
<1>3. PICK success : AddResult(c, success)
  BY DEF DispatchUnit, UnitNotFound
<1>4. \A i \in DOMAIN results'[c] :
        \/ i \in DOMAIN results[c] /\ results'[c][i] = results[c][i]
        \/ results'[c][i].id = id
  <2>1. results[c] \in Seq(Result)
    BY DEF PipelineTypeOK
  <2>2. results'[c] = Append(results[c], [id |-> id, worker |-> next.worker, success |-> success])
    BY <1>3 DEF AddResult, PipelineTypeOK
  <2> DEFINE r == [id |-> id, worker |-> next.worker, success |-> success]
  <2>3. r.id = id
    OBVIOUS
  <2> HIDE DEF r
  <2>4. results'[c] = Append(results[c], r)
    BY <2>2 DEF r
  <2>5. \A i \in DOMAIN results'[c] :
          \/ i \in DOMAIN results[c] /\ results'[c][i] = results[c][i]
          \/ results'[c][i] = r
    BY <2>1, <2>4
  <2> QED
    BY <2>3, <2>5
<1>5. /\ Cardinality(Flight) \in Nat /\ Cardinality(Flight) + Len(todo[c]) < UsizeMod
      /\ UsizeMod \in Nat /\ MaxCapacity \in Nat
      /\ BatchesFit => Cardinality(Flight) + Len(todo[c]) <= MaxCapacity
  BY <1>1, FlightCount, PoolAssumption DEF Dispatching
<1>6. ASSUME \/ Cardinality(Flight') = Cardinality(Flight) + 1
             \/ Cardinality(Flight') = Cardinality(Flight)
      PROVE  /\ Cardinality(Flight') + Len(todo'[c]) < UsizeMod
             /\ BatchesFit => Cardinality(Flight') + Len(todo'[c]) <= MaxCapacity
  <2> DEFINE f == Cardinality(Flight)
             n == Len(todo[c])
             g == Cardinality(Flight')
             m == Len(todo'[c])
  <2>1. f \in Nat /\ n \in Nat /\ UsizeMod \in Nat /\ MaxCapacity \in Nat
    BY <1>2, <1>5
  <2>2. f + n < UsizeMod /\ (BatchesFit => f + n <= MaxCapacity)
    BY <1>5
  <2>3. m = n - 1 /\ (g = f + 1 \/ g = f)
    BY <1>2, <1>6
  <2> HIDE DEF f, n, g, m
  <2>4. g + m <= f + n /\ g + m \in Int /\ f + n \in Int
    BY <2>1, <2>3
  <2>5. g + m < UsizeMod /\ (BatchesFit => g + m <= MaxCapacity)
    BY <2>1, <2>2, <2>4
  <2> QED
    BY <2>5 DEF g, m
<1>7. CASE DispatchUnit(c)
  <2> DEFINE item == ConvertToWorkItem(unit_map[c][id])
  <2>1. /\ next.worker \in Workers /\ item \in Items /\ item.unit = u /\ fate[u] = "unsent"
        /\ id \in IdsOf(batch[c]) /\ batch[c] \in Batches
    BY <1>7, DispatchedItem
  <2>2. u \in UnitsOf(batch[c]) /\ IdOf[u] = id
    BY <2>1, BatchesAssumption, ByIdType
  <2>3. Sendable(next.worker)
    BY <1>1, <2>1 DEF Sendable, Dispatching, Undisturbed
  <2>4. SendWork(c, next.worker, item)
    BY <1>7, <2>3 DEF DispatchUnit
  <2> HIDE DEF item
  <2>5. /\ Undisturbed'
        /\ Flight' = Flight \cup {u}
        /\ Cardinality(Flight') = Cardinality(Flight) + 1
        /\ cpc' = [cpc EXCEPT ![c] = "count"]
    BY <1>1, <2>1, <2>4, SendFlight DEF Dispatching
  <2>6. DOMAIN unit_map'[c] = DOMAIN unit_map[c] \ {id}
    BY <1>7 DEF DispatchUnit, PipelineTypeOK
  <2> HIDE DEF u, id, next
  <2>7. \A i \in DOMAIN todo'[c] :
          todo'[c][i].id \in DOMAIN unit_map'[c] \cup {IdOf[v] : v \in Flight'}
    BY <1>1, <1>2, <2>2, <2>5, <2>6 DEF Dispatching
  <2>8. Accounted(c, Flight)'
    BY <1>1, <1>4, <2>2, <2>5 DEF Dispatching, Accounted
  <2>9. cpc'[c] = "count"
    BY <2>5 DEF TypeOK
  <2>10. /\ Cardinality(Flight') + Len(todo'[c]) < UsizeMod
         /\ BatchesFit => Cardinality(Flight') + Len(todo'[c]) <= MaxCapacity
    BY <1>6, <2>5
  <2> QED
    BY <1>1, <2>5, <2>7, <2>8, <2>9, <2>10 DEF Idle, Dispatching, Waiting
<1>8. CASE UnitNotFound(c)
  <2>1. id \in {IdOf[v] : v \in Flight}
    BY <1>1, <1>2, <1>8 DEF UnitNotFound, Dispatching
  <2>2. UNCHANGED <<queue, wpc, cur, completions, fate, open, cpc, unit_map>>
    BY <1>8 DEF UnitNotFound, poolVars, workerVars, callerVars
  <2>3. Flight' = Flight /\ Undisturbed'
    BY <1>1, <2>2, FlightKept DEF Dispatching
  <2> HIDE DEF u, id, next
  <2>4. Accounted(c, Flight)'
    BY <1>1, <1>4, <2>1, <2>3 DEF Dispatching, Accounted
  <2>5. \A i \in DOMAIN todo'[c] :
          todo'[c][i].id \in DOMAIN unit_map'[c] \cup {IdOf[v] : v \in Flight'}
    BY <1>1, <1>2, <2>2, <2>3 DEF Dispatching
  <2>6. /\ Cardinality(Flight') + Len(todo'[c]) < UsizeMod
        /\ BatchesFit => Cardinality(Flight') + Len(todo'[c]) <= MaxCapacity
    BY <1>6, <2>3
  <2> QED
    BY <1>1, <2>2, <2>3, <2>4, <2>5, <2>6 DEF Idle, Dispatching, Waiting
<1> QED
  BY <1>7, <1>8

\* wait_for_completions loads the count: it is what is in flight.
LEMMA SoloWait ==
  ASSUME TypeOK, UnitsInv, CountInv, PipelineTypeOK,
         NEW c, Callers = {c}, SoloInv(c), BeginWait(c)
  PROVE  SoloInv(c)'
<1> USE DEF SoloInv
<1>1. /\ bpc[c] = "dispatch" /\ bpc'[c] = "wait" /\ todo[c] = <<>>
      /\ Usable /\ cpc[c] = "idle" /\ results' = results /\ batch' = batch
      /\ UNCHANGED <<queue, wpc, cur, completions, fate, open>>
  BY DEF BeginWait, LoadPending, PipelineTypeOK, workerVars
<1>2. CallersAt("count") = {} /\ CallersAt("subtract") = {}
  BY <1>1 DEF CallersAt
<1>3. Undisturbed /\ Cardinality(Flight) < UsizeMod
  BY <1>1, FlightCount, PoolAssumption DEF Dispatching
<1>4. pending = Cardinality(Flight)
  BY <1>1, <1>2, <1>3, PendingIsFlight
<1>5. Flight' = Flight /\ Undisturbed'
  BY <1>1, <1>3, FlightKept
<1>6. /\ want'[c] = pending /\ got'[c] = <<>>
      /\ cpc'[c] = IF pending = 0 THEN "idle"
                   ELSE IF pending > MaxCapacity THEN "panicked" ELSE "lock"
  BY DEF BeginWait, LoadPending, TypeOK
<1>7. cpc'[c] = "idle" => Flight = {}
  <2>1. cpc'[c] = "idle" => Cardinality(Flight) = 0
    BY <1>4, <1>6
  <2> QED
    BY <2>1, FlightCount, FS_EmptySet
<1>8. want'[c] = Len(got'[c]) + Cardinality(Flight')
  BY <1>4, <1>5, <1>6, FlightCount
<1>9. Accounted(c, Flight \cup GotUnits(c))'
  <2>1. GotUnits(c)' = {}
    <3>1. DOMAIN <<>> = {}
      OBVIOUS
    <3> QED
      BY <1>6, <3>1 DEF GotUnits
  <2> QED
    BY <1>1, <1>5, <2>1 DEF Dispatching, Accounted
<1>10. BatchesFit => cpc'[c] # "panicked"
  <2>1. /\ Cardinality(Flight) \in Nat /\ Len(todo[c]) = 0 /\ MaxCapacity \in Nat
        /\ BatchesFit => Cardinality(Flight) + Len(todo[c]) <= MaxCapacity
    BY <1>1, FlightCount, PoolAssumption DEF Dispatching
  <2>2. BatchesFit => ~(pending > MaxCapacity)
    BY <1>4, <2>1
  <2> QED
    BY <1>6, <2>2
<1> QED
  BY <1>1, <1>5, <1>6, <1>7, <1>8, <1>9, <1>10 DEF Idle, Dispatching, Waiting

\* A result that has a completion by its id takes the status of one.
LEMMA MergeTakes ==
  ASSUME NEW r \in Result, NEW done \in Seq(Completion),
         \E i \in DOMAIN done : IdOf[done[i].unit] = r.id
  PROVE  /\ Merge(r, done).id = r.id
         /\ \E i \in DOMAIN done :
              /\ IdOf[done[i].unit] = r.id
              /\ done[i].success \in BOOLEAN
              /\ Merge(r, done).success = done[i].success
<1> DEFINE same == {i \in DOMAIN done : IdOf[done[i].unit] = r.id}
           first == CHOOSE i \in same : \A j \in same : i <= j
<1>1. same \in SUBSET Nat /\ same # {}
  OBVIOUS
<1>2. \E i \in same : \A j \in same : i <= j
  <2> HIDE DEF same
  <2> QED
    BY <1>1, LeastOf
<1>3. first \in same
  BY <1>2
<1>4. Merge(r, done) = [r EXCEPT !.success = done[first].success]
  BY <1>1 DEF Merge
<1> HIDE DEF first
<1>5. first \in DOMAIN done /\ IdOf[done[first].unit] = r.id
  BY <1>3
<1>6. done[first].success \in BOOLEAN
  <2>1. done[first] \in Completion
    BY <1>5
  <2> QED
    BY <2>1 DEF Completion
<1>7. Merge(r, done).id = r.id /\ Merge(r, done).success = done[first].success
  BY <1>4 DEF Result
<1> QED
  BY <1>5, <1>6, <1>7

\* process_batch returns: every unit it has a result for was received, and no
\* other unit of the batch with the same id was ever sent.
LEMMA SoloEnd ==
  ASSUME PipelineInv, NEW c \in Callers, SoloInv(c), EndBatch(c)
  PROVE  SoloInv(c)'
<1> USE DEF SoloInv
<1>0. TypeOK /\ UnitsInv /\ PipelineTypeOK
  BY DEF PipelineInv, PoolUnitsInv, PoolInv
<1>1. /\ bpc[c] = "wait" /\ bpc'[c] = "idle" /\ cpc[c] = "idle"
      /\ results'[c] = [i \in DOMAIN results[c] |-> Merge(results[c][i], got[c])]
      /\ UNCHANGED <<queue, wpc, cur, completions, fate, open, cpc, batch>>
  BY <1>0 DEF EndBatch, PipelineTypeOK, poolVars, workerVars, callerVars
<1>2. /\ Flight = {} /\ Undisturbed
      /\ GotUnits(c) \subseteq UnitsOf(batch[c])
      /\ \A i \in DOMAIN results[c] : \E u \in GotUnits(c) : IdOf[u] = results[c][i].id
  BY <1>1 DEF Waiting, Accounted
<1>3. Flight' = {} /\ Undisturbed'
  BY <1>0, <1>1, <1>2, FlightKept
<1>4. /\ got[c] \in Seq(Completion)
      /\ \A i \in DOMAIN got[c] : fate[got[c][i].unit] = Truth(got[c][i].success)
  BY <1>0 DEF TypeOK, UnitsInv, GotTruthful
<1>5. ASSUME NEW u \in UnitsOf(batch[c]), NEW v \in UnitsOf(batch[c]),
             fate[u] # "unsent", fate[v] # "unsent", IdOf[u] = IdOf[v]
      PROVE  u = v
  <2>1. batch[c] \in Batches
    <3>1. UnitsOf(<<>>) = {}
      <4>1. DOMAIN <<>> = {}
        OBVIOUS
      <4> QED
        BY <4>1 DEF UnitsOf
    <3>2. batch[c] \in submitted \cup {<<>>} /\ submitted \subseteq Batches
      BY <1>0 DEF PipelineInv, Fresh, Held, PipelineTypeOK
    <3> QED
      BY <3>1, <3>2
  <2> QED
    BY <1>5, <2>1 DEF PipelineInv, Fresh
<1>6. ASSUME NEW i \in DOMAIN results[c]
      PROVE  results'[c][i].success <=>
               \E u \in UnitsOf(batch[c]) : IdOf[u] = results'[c][i].id /\ fate[u] = "ok"
  <2> DEFINE r == results[c][i]
             done == got[c]
  <2>1. r \in Result /\ results'[c][i] = Merge(r, done)
    BY <1>0, <1>1 DEF PipelineTypeOK
  <2>2. done \in Seq(Completion) /\ \E j \in DOMAIN done : IdOf[done[j].unit] = r.id
    BY <1>2, <1>4 DEF GotUnits
  <2>3. \A j \in DOMAIN done :
          done[j].unit \in UnitsOf(batch[c]) /\ fate[done[j].unit] = Truth(done[j].success)
    BY <1>2, <1>4 DEF GotUnits
  <2> HIDE DEF r, done
  <2>4. Merge(r, done).id = r.id
    BY <2>1, <2>2, MergeTakes
  <2>5. PICK j \in DOMAIN done :
          /\ IdOf[done[j].unit] = r.id
          /\ done[j].success \in BOOLEAN
          /\ Merge(r, done).success = done[j].success
    BY <2>1, <2>2, MergeTakes
  <2> DEFINE v == done[j].unit
  <2>6. /\ v \in UnitsOf(batch[c]) /\ IdOf[v] = r.id
        /\ fate[v] = IF done[j].success THEN "ok" ELSE "conflict"
    BY <2>3, <2>5 DEF Truth
  <2> HIDE DEF v
  <2>7. ASSUME NEW u \in UnitsOf(batch[c]), IdOf[u] = r.id, fate[u] = "ok" PROVE u = v
    BY <1>5, <2>6, <2>7
  <2>8. done[j].success <=> \E u \in UnitsOf(batch[c]) : IdOf[u] = r.id /\ fate[u] = "ok"
    BY <2>5, <2>6, <2>7
  <2> QED
    BY <2>1, <2>4, <2>5, <2>8
<1>7. DOMAIN results'[c] = DOMAIN results[c]
  BY <1>1
<1>8. Idle(c)'
  BY <1>1, <1>2, <1>3, <1>6, <1>7 DEF Idle, Undisturbed
<1> QED
  BY <1>1, <1>8 DEF Dispatching, Waiting

\* The pipeline is dropped.
LEMMA SoloDrop ==
  ASSUME TypeOK, NEW c \in Callers, SoloInv(c), DropPipeline(c)
  PROVE  SoloInv(c)'
<1> USE DEF SoloInv
<1>1. /\ bpc[c] = "idle" /\ open' = FALSE /\ cpc'[c] = "down"
      /\ UNCHANGED <<queue, wpc, cur, fate, bpc, batch, results>> /\ completions' = <<>>
  BY DEF DropPipeline, AbandonPool, TypeOK, workerVars, batchVars
<1>2. Flight' = {}
  <2>1. QueuedUnits' = QueuedUnits /\ WorkingUnits' = WorkingUnits /\ ReportedUnits' = {}
    BY <1>1 DEF QueuedUnits, WorkingUnits, Busy, ReportedUnits
  <2> QED
    BY <1>1, <2>1 DEF Idle, Flight
<1> QED
  BY <1>1, <1>2 DEF Idle, Dispatching, Waiting

\* Every step keeps the invariant of the only caller.
LEMMA SoloStep ==
  ASSUME NEW c, Callers = {c}, PipelineInv, SoloInv(c), [Next]_vars
  PROVE  SoloInv(c)'
<1>1. TypeOK /\ UnitsInv /\ CountInv /\ PipelineTypeOK /\ Fresh
  BY DEF PipelineInv, PoolUnitsInv, PoolInv
<1>2. c \in Callers /\ bpc[c] \in {"idle", "dispatch", "wait"}
  BY <1>1 DEF PipelineTypeOK
<1>3. CASE Terminated \/ UNCHANGED vars
  <2>1. UNCHANGED <<poolVars, batchVars>>
    BY <1>3 DEF Terminated, vars
  <2>2. UNCHANGED <<queue, wpc, cur, completions, fate, open, cpc, want, got>>
    BY <2>1 DEF poolVars, workerVars, callerVars
  <2>3. Flight' = Flight /\ (Undisturbed => Undisturbed') /\ GotUnits(c)' = GotUnits(c)
    BY <2>2, FlightKept DEF GotUnits
  <2> QED
    BY <2>1, <2>2, <2>3 DEF SoloInv, Idle, Dispatching, Waiting, Accounted, batchVars
<1>4. ASSUME NEW w \in Workers, WorkerStep(w), UNCHANGED batchVars PROVE SoloInv(c)'
  BY <1>1, <1>2, <1>4, SoloWorker
<1>5. ASSUME CallerStep(c), UNCHANGED batchVars PROVE SoloInv(c)'
  BY <1>1, <1>2, <1>5, SoloCall
<1>6. ASSUME NEW b \in Batches, BeginBatch(c, b) \/ ScheduleFails(c, b) PROVE SoloInv(c)'
  BY <1>1, <1>2, <1>6, SoloBegin
<1>7. ASSUME BatchStep(c) PROVE SoloInv(c)'
  BY <1>1, <1>2, <1>7, SoloDispatch, SoloWait, SoloEnd DEF BatchStep
<1>8. ASSUME DropPipeline(c) PROVE SoloInv(c)'
  BY <1>1, <1>2, <1>8, SoloDrop
<1> QED
  BY <1>3, <1>4, <1>5, <1>6, <1>7, <1>8 DEF Next

\* The invariant of a pipeline with one caller (process_batch).
LEMMA SoloInvariant ==
  ASSUME NEW c, Callers = {c}
  PROVE  Spec => [](PipelineInv /\ SoloInv(c))
<1>1. Init => SoloInv(c)
  BY SoloInit
<1>2. PipelineInv /\ SoloInv(c) /\ [Next]_vars => SoloInv(c)'
  BY SoloStep
<1> QED
  BY <1>1, <1>2, PipelineInvariant, PTL DEF Spec

\* One caller: the answer of process_batch says success of a unit exactly when
\* the workers executed it (merge of dispatch results and completions).
THEOREM AnswersAreTrue ==
  ASSUME NEW c, Callers = {c}
  PROVE  Spec => []ResultsTruthful
<1>1. SoloInv(c) => ResultsTruthful
  BY DEF SoloInv, Idle, ResultsTruthful
<1> QED
  BY <1>1, SoloInvariant, PTL

\* One caller: when process_batch has answered, nothing of it is still queued or
\* executing.  (With two callers a run refutes this.)
THEOREM BatchIsFinished ==
  ASSUME NEW c, Callers = {c}
  PROVE  Spec => []BatchFinished
<1>1. SoloInv(c) => BatchFinished
  BY DEF SoloInv, Idle, Flight, BatchFinished
<1> QED
  BY <1>1, SoloInvariant, PTL

\* One caller: between batches nothing is pending, no completion waits to be
\* taken for one of the next batch, and no account is locked.
THEOREM NothingLeftOver ==
  ASSUME NEW c, Callers = {c}
  PROVE  Spec => []QuietBetweenBatches
<1>1. PipelineInv /\ SoloInv(c) => QuietBetweenBatches
  <2> SUFFICES ASSUME PipelineInv, SoloInv(c), Usable, bpc[c] = "idle"
               PROVE  pending = 0 /\ completions = <<>> /\ locked = {}
    BY DEF QuietBetweenBatches
  <2>1. TypeOK /\ UnitsInv /\ CountInv /\ LockTableExact
    BY DEF PipelineInv, PoolUnitsInv, PoolInv
  <2>2. Undisturbed /\ cpc[c] = "idle" /\ Flight = {}
    BY DEF SoloInv, Idle, Usable
  <2>3. CallersAt("count") = {} /\ CallersAt("subtract") = {}
    BY <2>2 DEF CallersAt
  <2>4. Cardinality(Flight) = 0 /\ UsizeMod \in Nat \ {0}
    BY <2>2, FS_EmptySet, PoolAssumption
  <2>5. pending = 0
    BY <2>1, <2>2, <2>3, <2>4, PendingIsFlight
  <2>6. completions = <<>>
    <3>1. Len(completions) = 0
      BY <2>1, <2>4, FlightCount, FiniteCounts
    <3> QED
      BY <2>1, <3>1 DEF TypeOK
  <2>7. locked = {}
    BY <2>1, <2>2 DEF LockTableExact, Executing, Flight, WorkingUnits, Busy
  <2> QED
    BY <2>5, <2>6, <2>7
<1> QED
  BY <1>1, SoloInvariant, PTL

\* One caller: wait_for_completions waits for exactly the completions that are
\* still to come, so that it neither hangs nor leaves one behind.
THEOREM WaitsAreExact ==
  ASSUME NEW c, Callers = {c}
  PROVE  Spec => []WaitsForWhatIsThere
<1>1. PipelineInv /\ SoloInv(c) => WaitsForWhatIsThere
  <2> SUFFICES ASSUME PipelineInv, SoloInv(c), cpc[c] \in WaitPcs \cup {"drain"}
               PROVE  want[c] - Len(got[c]) = Cardinality(QueuedUnits)
                                              + Cardinality(WorkingUnits) + Len(completions)
    BY DEF WaitsForWhatIsThere
  <2>1. TypeOK /\ UnitsInv /\ bpc[c] \in {"idle", "dispatch", "wait"}
    BY DEF PipelineInv, PoolUnitsInv, PoolInv, PipelineTypeOK
  <2>2. bpc[c] = "wait"
    BY <2>1 DEF WaitPcs, SoloInv, Idle, Dispatching
  <2>3. want[c] = Len(got[c]) + Cardinality(Flight)
    BY <2>2 DEF SoloInv, Waiting
  <2>4. Len(got[c]) \in Nat
    BY <2>1 DEF TypeOK
  <2>5. /\ Cardinality(Flight) \in Nat
        /\ Cardinality(Flight) =
             Cardinality(QueuedUnits) + Cardinality(WorkingUnits) + Len(completions)
    BY <2>1, FlightCount
  <2> QED
    BY <2>3, <2>4, <2>5
<1> QED
  BY <1>1, SoloInvariant, PTL

\* One caller whose batches fit: the capacity that wait_for_completions asks for
\* is the number of completions that are to come, never a count that wrapped.
THEOREM NoWaitPanics ==
  ASSUME NEW c, Callers = {c}, BatchesFit
  PROVE  Spec => []WaitsDoNotPanic
<1>1. PipelineInv /\ SoloInv(c) => WaitsDoNotPanic
  <2> SUFFICES ASSUME PipelineInv, SoloInv(c) PROVE cpc[c] # "panicked"
    BY DEF WaitsDoNotPanic
  <2>1. bpc[c] \in {"idle", "dispatch", "wait"}
    BY DEF PipelineInv, PipelineTypeOK
  <2> QED
    BY <2>1 DEF SoloInv, Idle, Dispatching, Waiting
<1> QED
  BY <1>1, SoloInvariant, PTL

-----------------------------------------------------------------------------
(* Several callers: what holds of all of them together *)

\* The items that the units of the batches are converted to.
ConvertedItems ==
  {item \in Items : \E b \in Batches : \E i \in DOMAIN b : item = ConvertToWorkItem(b[i])}

OriginInv == ItemsIn(ConvertedItems)

\* Every item in the pool is a converted unit of a batch.
LEMMA OriginStep ==
  ASSUME PipelineInv, OriginInv, [Next]_vars
  PROVE  OriginInv'
<1> DEFINE S == ConvertedItems
<1>1. TypeOK /\ ItemsIn(S)
  BY DEF PipelineInv, PoolUnitsInv, PoolInv, OriginInv
<1>2. ASSUME UNCHANGED poolVars PROVE ItemsIn(S)'
  BY <1>1, <1>2 DEF ItemsIn, Busy, poolVars, workerVars
<1>3. ASSUME NEW w \in Workers, WorkerStep(w) PROVE ItemsIn(S)'
  BY <1>1, <1>3, ItemsWorker
<1>4. ASSUME NEW c \in Callers, CallerStep(c) \/ LoadPending(c) \/ AbandonPool(c)
      PROVE  ItemsIn(S)'
  BY <1>1, <1>4, ItemsCaller
<1>5. ASSUME NEW c \in Callers, DispatchUnit(c) PROVE ItemsIn(S)'
  <2> DEFINE next == Head(todo[c])
             unit == unit_map[c][next.id]
             item == ConvertToWorkItem(unit)
  <2>1. /\ next.worker \in Workers /\ item \in Items
        /\ batch[c] \in Batches /\ next.id \in IdsOf(batch[c])
        /\ unit = ById(batch[c])[next.id]
    BY <1>5, DispatchedItem
  <2>2. \E i \in DOMAIN batch[c] : unit = batch[c][i]
    BY <2>1, BatchesAssumption, ByIdType
  <2>3. SendWork(c, next.worker, item) \/ UNCHANGED poolVars
    BY <1>5 DEF DispatchUnit
  <2> HIDE DEF next, unit
  <2>4. item \in S /\ S \in SUBSET Items
    BY <2>1, <2>2 DEF ConvertedItems
  <2> HIDE DEF item, S
  <2> QED
    BY <1>1, <1>2, <2>1, <2>3, <2>4, ItemsSend
<1>6. ASSUME NEW c \in Callers, NEW b \in Batches, BeginBatch(c, b) \/ ScheduleFails(c, b)
      PROVE  UNCHANGED poolVars
  BY <1>6 DEF BeginBatch, ScheduleFails
<1>7. ASSUME NEW c \in Callers, UnitNotFound(c) \/ EndBatch(c) PROVE UNCHANGED poolVars
  BY <1>7 DEF UnitNotFound, EndBatch
<1>8. ASSUME NEW c \in Callers, BeginWait(c) \/ DropPipeline(c)
      PROVE  LoadPending(c) \/ AbandonPool(c)
  BY <1>8 DEF BeginWait, DropPipeline
<1>9. ASSUME Terminated \/ UNCHANGED vars PROVE UNCHANGED poolVars
  BY <1>9 DEF Terminated, vars
<1> QED
  BY <1>2, <1>3, <1>4, <1>5, <1>6, <1>7, <1>8, <1>9 DEF Next, BatchStep, OriginInv

\* The item of a transaction has all the accounts that the transaction names.
LEMMA TransactionsKeepAccounts ==
  ASSUME NEW item \in ConvertedItems, item.unit \in Transactions
  PROVE  NamedAccounts(item.unit) \subseteq item.accounts
<1>1. PICK d \in Batches : \E j \in DOMAIN d : item = ConvertToWorkItem(d[j])
  BY DEF ConvertedItems
<1>2. PICK j \in DOMAIN d : item = ConvertToWorkItem(d[j])
  BY <1>1
<1>3. item.unit = d[j].unit
  BY <1>2 DEF ConvertToWorkItem
<1>4. d[j].kind = "tx"
  BY <1>3 DEF Transactions
<1>5. item.accounts = d[j].accounts
  BY <1>2, <1>4 DEF ConvertToWorkItem
<1>6. ASSUME NEW a \in NamedAccounts(item.unit) PROVE a \in item.accounts
  <2>1. PICK b \in Batches : \E i \in DOMAIN b : b[i].unit = item.unit /\ a \in b[i].accounts
    BY <1>6 DEF NamedAccounts
  <2>2. PICK i \in DOMAIN b : b[i].unit = item.unit /\ a \in b[i].accounts
    BY <2>1
  <2>3. b = d /\ i = j
    BY <1>3, <2>2, UnitsAreItems
  <2> QED
    BY <1>5, <2>2, <2>3
<1> QED
  BY <1>6

\* Any number of callers, whatever ids the units have: two transactions that name
\* a common account are never executed together.  (Bundles lose their accounts on
\* the way: a run refutes UnitIsolation.)
THEOREM TransactionsAreIsolated == Spec => []TransactionIsolation
<1>1. Init => OriginInv
  BY ItemsInit DEF Init, OriginInv
<1>2. PipelineInv /\ OriginInv /\ [Next]_vars => OriginInv'
  BY OriginStep
<1>3. PipelineInv /\ OriginInv => TransactionIsolation
  <2> SUFFICES ASSUME PipelineInv, OriginInv, NEW v \in Executing, NEW w \in Executing,
                      v # w, cur[v].unit \in Transactions, cur[w].unit \in Transactions
               PROVE  NamedAccounts(cur[v].unit) \cap NamedAccounts(cur[w].unit) = {}
    BY DEF TransactionIsolation
  <2>1. v \in Busy /\ w \in Busy
    BY DEF Executing, Busy
  <2>2. cur[v] \in ConvertedItems /\ cur[w] \in ConvertedItems
    BY <2>1 DEF OriginInv, ItemsIn
  <2>3. /\ NamedAccounts(cur[v].unit) \subseteq cur[v].accounts
        /\ NamedAccounts(cur[w].unit) \subseteq cur[w].accounts
    BY <2>2, TransactionsKeepAccounts
  <2>4. cur[v].accounts \cap cur[w].accounts = {}
    BY DEF PipelineInv, PoolUnitsInv, PoolInv, ExclusiveExecution
  <2> QED
    BY <2>3, <2>4
<1> QED
  BY <1>1, <1>2, <1>3, PipelineInvariant, PTL DEF Spec

\* No id comes twice in a batch.
DistinctIds ==
  \A b \in Batches : \A i, j \in DOMAIN b : IdOf[b[i].unit] = IdOf[b[j].unit] => i = j

\* The pool outlives the batches, and until it is dropped nothing disturbs it.
PoolStays ==
  /\ \A c \in Callers : bpc[c] # "idle" => open
  /\ open => Undisturbed
  /\ \A c \in Callers : cpc[c] \notin {"drain", "signal", "sleep"}

\* What a caller is still to dispatch are ids in its map, each once.
ToDispatch(c) ==
  bpc[c] = "dispatch" =>
    /\ \A i \in DOMAIN todo[c] : todo[c][i].id \in DOMAIN unit_map[c]
    /\ \A i, j \in DOMAIN todo[c] : todo[c][i].id = todo[c][j].id => i = j

SharedInv == PoolStays /\ (\A c \in Callers : ToDispatch(c)) /\ FailuresAreConflicts

\* A worker does not stop while a batch is in process_batch.
LEMMA StaysStep ==
  ASSUME PipelineInv, PoolStays, [Next]_vars
  PROVE  PoolStays'
<1>1. TypeOK /\ UnitsInv /\ bpc \in [Callers -> {"idle", "dispatch", "wait"}]
  BY DEF PipelineInv, PoolUnitsInv, PoolInv, PipelineTypeOK
<1>2. ASSUME UNCHANGED poolVars,
             \A c \in Callers : bpc'[c] # "idle" => bpc[c] # "idle" \/ open
      PROVE  PoolStays'
  BY <1>2 DEF PoolStays, Undisturbed, Discarded, poolVars, workerVars, callerVars
<1>3. ASSUME NEW w \in Workers, WorkerStep(w), UNCHANGED batchVars PROVE PoolStays'
  <2>1. UNCHANGED callerVars
    BY <1>3 DEF WorkerStep, Receive, Stop, AcquireLocks, FailToAcquire, ReleaseLocks, Report
  <2>2. open => Undisturbed'
    BY <1>1, <1>3, WorkerFlight DEF PoolStays
  <2> QED
    BY <1>3, <2>1, <2>2 DEF PoolStays, callerVars, batchVars
<1>4. ASSUME NEW c \in Callers, CallerStep(c), UNCHANGED batchVars PROVE PoolStays'
  <2>1. \/ CountPending(c) \/ LockReceiver(c) \/ ReceiveCompletion(c)
        \/ SubtractPending(c) \/ ReceiverClosed(c)
    BY <1>4 DEF CallerStep, Drain, DrainClosed, SendShutdowns, DropPool, PoolStays
  <2>2. UNCHANGED <<queue, wpc, fate, open>>
    BY <2>1 DEF CountPending, LockReceiver, ReceiveCompletion, SubtractPending,
       ReceiverClosed, workerVars
  <2>3. \E pc \in {"idle", "receive", "subtract"} : cpc' = [cpc EXCEPT ![c] = pc]
    BY <2>1 DEF CountPending, LockReceiver, ReceiveCompletion, SubtractPending,
       ReceiverClosed
  <2>4. \A d \in Callers : cpc'[d] \notin {"drain", "signal", "sleep"}
    BY <1>1, <2>3 DEF PoolStays, TypeOK
  <2>5. Undisturbed => Undisturbed'
    BY <2>2 DEF Undisturbed, Discarded
  <2> QED
    BY <1>4, <2>2, <2>4, <2>5 DEF PoolStays, batchVars
<1>5. ASSUME NEW c \in Callers, NEW b \in Batches, BeginBatch(c, b) \/ ScheduleFails(c, b)
      PROVE  PoolStays'
  <2>1. open /\ UNCHANGED poolVars
    BY <1>5 DEF BeginBatch, ScheduleFails, Usable
  <2> QED
    BY <1>2, <2>1
<1>6. ASSUME NEW c \in Callers, DispatchUnit(c) PROVE PoolStays'
  <2> DEFINE next == Head(todo[c])
             item == ConvertToWorkItem(unit_map[c][next.id])
  <2>2. next.worker \in Workers
    BY <1>6, DispatchedItem
  <2>4. item \in Items /\ fate[item.unit] = "unsent"
    BY <1>6, DispatchedItem
  <2>5. SendWork(c, next.worker, item) \/ UNCHANGED poolVars
    BY <1>6 DEF DispatchUnit
  <2>6. open /\ bpc' = bpc
    BY <1>6 DEF DispatchUnit, PoolStays
  <2> HIDE DEF next, item
  <2>7. CASE SendWork(c, next.worker, item)
    <3>1. Undisturbed' /\ cpc' = [cpc EXCEPT ![c] = "count"]
      BY <1>1, <2>2, <2>4, <2>6, <2>7, SendFlight DEF PoolStays
    <3>2. \A d \in Callers : cpc'[d] \notin {"drain", "signal", "sleep"}
      BY <1>1, <3>1 DEF PoolStays, TypeOK
    <3> QED
      BY <2>6, <3>1, <3>2 DEF PoolStays, Undisturbed
  <2> QED
    BY <1>2, <2>5, <2>6, <2>7
<1>7. ASSUME NEW c \in Callers, UnitNotFound(c) \/ EndBatch(c) PROVE PoolStays'
  <2>1. UNCHANGED poolVars /\ \A d \in Callers : bpc'[d] # "idle" => bpc[d] # "idle"
    BY <1>1, <1>7 DEF UnitNotFound, EndBatch
  <2> QED
    BY <1>2, <2>1
<1>8. ASSUME NEW c \in Callers, BeginWait(c) PROVE PoolStays'
  <2>1. UNCHANGED <<queue, wpc, fate, open>> /\ open
    BY <1>8 DEF BeginWait, LoadPending, Usable, workerVars
  <2>2. \E pc \in {"idle", "panicked", "lock"} : cpc' = [cpc EXCEPT ![c] = pc]
    BY <1>8 DEF BeginWait, LoadPending
  <2>3. \A d \in Callers : cpc'[d] \notin {"drain", "signal", "sleep"}
    BY <1>1, <2>2 DEF PoolStays, TypeOK
  <2>4. Undisturbed => Undisturbed'
    BY <2>1 DEF Undisturbed, Discarded
  <2> QED
    BY <2>1, <2>3, <2>4 DEF PoolStays
<1>9. ASSUME NEW c \in Callers, DropPipeline(c) PROVE PoolStays'
  <2>1. open' = FALSE /\ bpc' = bpc /\ \A d \in Callers : bpc[d] = "idle"
    BY <1>9 DEF DropPipeline, AbandonPool, batchVars
  <2>2. cpc' = [cpc EXCEPT ![c] = "down"]
    BY <1>9 DEF DropPipeline, AbandonPool
  <2>3. \A d \in Callers : cpc'[d] \notin {"drain", "signal", "sleep"}
    BY <1>1, <2>2 DEF PoolStays, TypeOK
  <2> QED
    BY <2>1, <2>3 DEF PoolStays
<1>10. ASSUME Terminated \/ UNCHANGED vars PROVE PoolStays'
  BY <1>2, <1>10 DEF Terminated, vars, batchVars
<1> QED
  BY <1>3, <1>4, <1>5, <1>6, <1>7, <1>8, <1>9, <1>10 DEF Next, BatchStep

\* A schedule names each unit of the batch at most once, and a unit leaves the
\* map only with its assignment.
LEMMA ToDispatchStep ==
  ASSUME DistinctIds, PipelineInv, NEW e \in Callers, ToDispatch(e), [Next]_vars
  PROVE  ToDispatch(e)'
<1>1. PipelineTypeOK
  BY DEF PipelineInv
<1>2. ASSUME todo'[e] = todo[e], unit_map'[e] = unit_map[e],
             bpc'[e] = "dispatch" => bpc[e] = "dispatch"
      PROVE  ToDispatch(e)'
  BY <1>2 DEF ToDispatch
<1>3. ASSUME NEW b \in Batches, BeginBatch(e, b) PROVE ToDispatch(e)'
  <2>1. b \in Seq(UnitData)
    BY BatchesAssumption
  <2>2. PICK s \in Assignments(b) : todo' = [todo EXCEPT ![e] = s]
    BY <1>3 DEF BeginBatch
  <2>3. todo'[e] = s /\ DOMAIN unit_map'[e] = IdsOf(b)
    BY <1>1, <1>3, <2>1, <2>2, ByIdType DEF BeginBatch, PipelineTypeOK
  <2>4. \A i \in DOMAIN s : s[i].id \in IdsOf(b)
    BY <2>1, AssignmentsType
  <2>5. PICK order \in [DOMAIN s -> DOMAIN b] :
          /\ \A i, j \in DOMAIN s : order[i] = order[j] => i = j
          /\ \A i \in DOMAIN s : s[i].id = IdOf[b[order[i]].unit]
    BY <2>1, AssignmentsType
  <2>6. ASSUME NEW i \in DOMAIN s, NEW j \in DOMAIN s, s[i].id = s[j].id PROVE i = j
    <3>1. order[i] \in DOMAIN b /\ order[j] \in DOMAIN b
      BY <2>5
    <3>2. IdOf[b[order[i]].unit] = IdOf[b[order[j]].unit]
      BY <2>5, <2>6
    <3>3. order[i] = order[j]
      BY <3>1, <3>2 DEF DistinctIds
    <3> QED
      BY <2>5, <3>3
  <2> QED
    BY <2>3, <2>4, <2>6 DEF ToDispatch
<1>4. ASSUME DispatchUnit(e) PROVE ToDispatch(e)'
  <2> DEFINE u == Head(todo[e]).id
  <2>1. /\ todo'[e] = Tail(todo[e]) /\ todo[e] # <<>> /\ bpc[e] = "dispatch"
        /\ DOMAIN unit_map'[e] = DOMAIN unit_map[e] \ {u}
    BY <1>1, <1>4 DEF DispatchUnit, PipelineTypeOK
  <2>2. /\ 1 \in DOMAIN todo[e] /\ u = todo[e][1].id
        /\ \A i \in DOMAIN todo'[e] :
             /\ i \in Nat \ {0}
             /\ i + 1 \in DOMAIN todo[e] /\ todo'[e][i] = todo[e][i + 1]
    <3>1. PICK q \in Seq(Assignment) : q = todo[e] /\ q # <<>>
      BY <1>1, <2>1 DEF PipelineTypeOK
    <3>2. 1 \in DOMAIN q /\ Head(q) = q[1]
      BY <3>1
    <3>3. \A i \in DOMAIN Tail(q) : i \in Nat \ {0} /\ i + 1 \in DOMAIN q /\ Tail(q)[i] = q[i + 1]
      BY <3>1
    <3> QED
      BY <2>1, <3>1, <3>2, <3>3
  <2> HIDE DEF u
  <2>3. ASSUME NEW i \in DOMAIN todo'[e] PROVE todo'[e][i].id \in DOMAIN unit_map'[e]
    <3>1. todo'[e][i].id \in DOMAIN unit_map[e]
      BY <2>1, <2>2 DEF ToDispatch
    <3>2. todo'[e][i].id # u
      <4>1. i + 1 # 1
        BY <2>2
      <4> QED
        BY <2>1, <2>2, <4>1 DEF ToDispatch
    <3> QED
      BY <2>1, <3>1, <3>2
  <2>4. ASSUME NEW i \in DOMAIN todo'[e], NEW j \in DOMAIN todo'[e],
               todo'[e][i].id = todo'[e][j].id
        PROVE  i = j
    <3>1. i + 1 = j + 1
      BY <2>1, <2>2, <2>4 DEF ToDispatch
    <3> QED
      BY <2>2, <3>1
  <2> QED
    BY <2>3, <2>4 DEF ToDispatch
<1>5. ASSUME UnitNotFound(e) PROVE ToDispatch(e)'
  <2>1. todo[e] # <<>> /\ bpc[e] = "dispatch" /\ Head(todo[e]).id \notin DOMAIN unit_map[e]
    BY <1>5 DEF UnitNotFound
  <2>2. 1 \in DOMAIN todo[e] /\ Head(todo[e]) = todo[e][1]
    BY <1>1, <2>1 DEF PipelineTypeOK
  <2> QED
    BY <2>1, <2>2 DEF ToDispatch
<1>6. ASSUME NEW c \in Callers, BeginWait(c) \/ EndBatch(c) \/ DropPipeline(c)
      PROVE  ToDispatch(e)'
  <2>1. c # e \/ EndBatch(c) \/ DropPipeline(c) => todo'[e] = todo[e] /\ unit_map'[e] = unit_map[e]
    BY <1>1, <1>6 DEF BeginWait, EndBatch, DropPipeline, batchVars, PipelineTypeOK
  <2>2. bpc'[e] = "dispatch" => bpc[e] = "dispatch" /\ ~(c = e /\ BeginWait(c))
    BY <1>1, <1>6 DEF BeginWait, EndBatch, DropPipeline, batchVars, PipelineTypeOK
  <2> QED
    BY <1>2, <1>6, <2>1, <2>2 DEF ToDispatch
<1>7. ASSUME NEW c \in Callers, c # e,
             \/ \E b \in Batches : BeginBatch(c, b)
             \/ DispatchUnit(c)
             \/ UnitNotFound(c)
      PROVE  ToDispatch(e)'
  <2>1. todo'[e] = todo[e] /\ unit_map'[e] = unit_map[e] /\ bpc'[e] = bpc[e]
    BY <1>1, <1>7 DEF BeginBatch, DispatchUnit, UnitNotFound, PipelineTypeOK
  <2> QED
    BY <1>2, <2>1
<1>8. ASSUME NEW c \in Callers, NEW b \in Batches, ScheduleFails(c, b) PROVE ToDispatch(e)'
  BY <1>2, <1>8 DEF ScheduleFails
<1>9. ASSUME UNCHANGED batchVars PROVE ToDispatch(e)'
  BY <1>2, <1>9 DEF batchVars
<1>10. ASSUME Terminated \/ UNCHANGED vars PROVE ToDispatch(e)'
  BY <1>9, <1>10 DEF Terminated, vars
<1> QED
  BY <1>3, <1>4, <1>5, <1>6, <1>7, <1>8, <1>9, <1>10 DEF Next, BatchStep

\* A failure that is reported was a conflict, and a conflict is final.
LEMMA FailuresStep ==
  ASSUME PipelineInv, SharedInv, [Next]_vars
  PROVE  FailuresAreConflicts'
<1>1. TypeOK /\ UnitsInv /\ PipelineTypeOK
  BY DEF PipelineInv, PoolUnitsInv, PoolInv
<1>2. \A c \in Callers : \A i \in DOMAIN results[c] :
        /\ results[c][i] \in Result
        /\ ~results[c][i].success =>
             \E u \in Units : IdOf[u] = results[c][i].id /\ fate[u] = "conflict"
  <2>1. \A c \in Callers : \A i \in DOMAIN results[c] : results[c][i] \in Result
    BY <1>1 DEF PipelineTypeOK
  <2> QED
    BY <2>1 DEF Result, SharedInv, FailuresAreConflicts
<1>3. ASSUME results' = results,
             \A u \in Units : fate[u] = "conflict" => fate'[u] = "conflict"
      PROVE  FailuresAreConflicts'
  BY <1>2, <1>3 DEF FailuresAreConflicts
<1>4. ASSUME UNCHANGED batchVars,
             (\E w \in Workers : WorkerStep(w)) \/ (\E c \in Callers : CallerStep(c))
      PROVE  FailuresAreConflicts'
  <2>1. \A u \in Units : fate[u] = "conflict" => fate'[u] = "conflict"
    BY <1>1, <1>4, ConflictKept
  <2> QED
    BY <1>3, <1>4, <2>1 DEF batchVars
<1>5. ASSUME NEW c \in Callers, NEW b \in Batches, BeginBatch(c, b) \/ ScheduleFails(c, b)
      PROVE  FailuresAreConflicts'
  <2>1. /\ \A d \in Callers : results'[d] = IF d = c THEN <<>> ELSE results[d]
        /\ fate' = fate
    BY <1>1, <1>5 DEF BeginBatch, ScheduleFails, PipelineTypeOK, poolVars
  <2> SUFFICES ASSUME NEW d \in Callers, NEW i \in DOMAIN results'[d], ~results'[d][i].success
               PROVE  \E u \in Units : IdOf[u] = results'[d][i].id /\ fate'[u] = "conflict"
    BY DEF FailuresAreConflicts
  <2>2. d # c
    <3>1. DOMAIN <<>> = {}
      OBVIOUS
    <3> QED
      BY <2>1, <3>1
  <2> QED
    BY <1>2, <2>1, <2>2
<1>6. ASSUME NEW c \in Callers, DispatchUnit(c) PROVE FailuresAreConflicts'
  <2> DEFINE next == Head(todo[c])
             item == ConvertToWorkItem(unit_map[c][next.id])
             r == [id |-> next.id, worker |-> next.worker, success |-> TRUE]
  <2>2. next.worker \in Workers
    BY <1>6, DispatchedItem
  <2>4. item \in Items /\ fate[item.unit] = "unsent"
    BY <1>6, DispatchedItem
  <2>5. Sendable(next.worker)
    BY <1>6, <2>2 DEF DispatchUnit, SharedInv, PoolStays, Undisturbed, Sendable
  <2>6. SendWork(c, next.worker, item)
    BY <1>6, <2>5 DEF DispatchUnit
  <2>7. AddResult(c, TRUE)
    BY <1>6, <2>5 DEF DispatchUnit
  <2>8. \A d \in Callers : results'[d] = IF d = c THEN Append(results[c], r) ELSE results[d]
    BY <1>1, <2>7 DEF AddResult, PipelineTypeOK
  <2>9. r.success
    OBVIOUS
  <2> HIDE DEF next, item, r
  <2>10. \A u \in Units : fate[u] = "conflict" => fate'[u] = "conflict"
    <3>1. fate' = [fate EXCEPT ![item.unit] = "queued"]
      BY <2>4, <2>6, PoolAssumption DEF SendWork
    <3> QED
      BY <1>1, <2>4, <3>1 DEF TypeOK
  <2> SUFFICES ASSUME NEW d \in Callers, NEW i \in DOMAIN results'[d], ~results'[d][i].success
               PROVE  \E u \in Units : IdOf[u] = results'[d][i].id /\ fate'[u] = "conflict"
    BY DEF FailuresAreConflicts
  <2>11. i \in DOMAIN results[d] /\ results'[d][i] = results[d][i]
    <3>1. CASE d = c
      <4>1. results[c] \in Seq(Result)
        BY <1>1 DEF PipelineTypeOK
      <4>2. \A j \in DOMAIN Append(results[c], r) :
              \/ j \in DOMAIN results[c] /\ Append(results[c], r)[j] = results[c][j]
              \/ Append(results[c], r)[j] = r
        BY <4>1
      <4> QED
        BY <2>8, <2>9, <3>1, <4>2
    <3>2. CASE d # c
      BY <2>8, <3>2
    <3> QED
      BY <3>1, <3>2
  <2> QED
    BY <1>2, <2>10, <2>11
<1>7. ASSUME NEW c \in Callers, UnitNotFound(c) PROVE FALSE
  <2>1. todo[c] # <<>> /\ bpc[c] = "dispatch" /\ Head(todo[c]).id \notin DOMAIN unit_map[c]
    BY <1>7 DEF UnitNotFound
  <2>2. 1 \in DOMAIN todo[c] /\ Head(todo[c]) = todo[c][1]
    BY <1>1, <2>1 DEF PipelineTypeOK
  <2> QED
    BY <2>1, <2>2 DEF SharedInv, ToDispatch
<1>8. ASSUME NEW c \in Callers, BeginWait(c) \/ DropPipeline(c) PROVE FailuresAreConflicts'
  <2>1. results' = results /\ (LoadPending(c) \/ AbandonPool(c))
    BY <1>8 DEF BeginWait, DropPipeline, batchVars
  <2>2. \A u \in Units : fate[u] = "conflict" => fate'[u] = "conflict"
    BY <1>1, <2>1, ConflictKept
  <2> QED
    BY <1>3, <2>1, <2>2
<1>9. ASSUME NEW c \in Callers, EndBatch(c) PROVE FailuresAreConflicts'
  <2>1. /\ \A d \in Callers : results'[d] =
             IF d = c THEN [i \in DOMAIN results[c] |-> Merge(results[c][i], got[c])]
                      ELSE results[d]
        /\ fate' = fate
    BY <1>1, <1>9 DEF EndBatch, PipelineTypeOK, poolVars
  <2>2. /\ fate \in [Units -> Fates] /\ got[c] \in Seq(Completion)
        /\ \A j \in DOMAIN got[c] : fate[got[c][j].unit] = Truth(got[c][j].success)
    BY <1>1 DEF TypeOK, UnitsInv, GotTruthful
  <2> SUFFICES ASSUME NEW d \in Callers, NEW i \in DOMAIN results'[d], ~results'[d][i].success
               PROVE  \E u \in Units : IdOf[u] = results'[d][i].id /\ fate[u] = "conflict"
    BY <2>1 DEF FailuresAreConflicts
  <2>3. CASE d = c
    <3> DEFINE r == results[c][i]
               done == got[c]
    <3>1. i \in DOMAIN results[c] /\ results'[d][i] = Merge(r, done)
      BY <2>1, <2>3
    <3>2. /\ r \in Result
          /\ ~r.success => \E u \in Units : IdOf[u] = r.id /\ fate[u] = "conflict"
      BY <1>2, <3>1
    <3>3. /\ done \in Seq(Completion)
          /\ \A j \in DOMAIN done : fate[done[j].unit] = Truth(done[j].success)
      BY <2>2
    <3> HIDE DEF r, done
    <3>4. CASE \E j \in DOMAIN done : IdOf[done[j].unit] = r.id
      <4>1. Merge(r, done).id = r.id
        BY <3>2, <3>3, <3>4, MergeTakes
      <4>2. PICK j \in DOMAIN done :
              /\ IdOf[done[j].unit] = r.id
              /\ done[j].success \in BOOLEAN
              /\ Merge(r, done).success = done[j].success
        BY <3>2, <3>3, <3>4, MergeTakes
      <4>3. done[j].unit \in Units
        <5>1. done[j] \in Completion
          BY <3>3
        <5> QED
          BY <5>1 DEF Completion
      <4>4. ~done[j].success
        BY <3>1, <4>2
      <4>5. fate[done[j].unit] = "conflict"
        BY <3>3, <4>4 DEF Truth
      <4> QED
        BY <3>1, <4>1, <4>2, <4>3, <4>5
    <3>5. CASE ~\E j \in DOMAIN done : IdOf[done[j].unit] = r.id
      <4>1. Merge(r, done) = r
        BY <3>5 DEF Merge
      <4> QED
        BY <3>1, <3>2, <4>1
    <3> QED
      BY <3>4, <3>5
  <2>4. CASE d # c
    <3>1. results'[d] = results[d]
      BY <2>1, <2>4
    <3>2. i \in DOMAIN results[d] /\ ~results[d][i].success
      BY <3>1
    <3> QED
      BY <1>2, <3>1, <3>2
  <2> QED
    BY <2>3, <2>4
<1>10. ASSUME Terminated \/ UNCHANGED vars PROVE FailuresAreConflicts'
  BY <1>3, <1>10 DEF Terminated, vars, batchVars, poolVars
<1> QED
  BY <1>4, <1>5, <1>6, <1>7, <1>8, <1>9, <1>10 DEF Next, BatchStep

\* Any number of callers, batches in which no id comes twice, and any ids that
\* several batches use: what process_batch reports as failed has the id of a unit
\* that lost its accounts to another and stays unexecuted, whichever caller
\* received which completion.
THEOREM FailuresAreReal ==
  ASSUME DistinctIds
  PROVE  Spec => []FailuresAreConflicts
<1>1. Init => SharedInv
  <2> SUFFICES ASSUME Init PROVE SharedInv
    OBVIOUS
  <2>1. DOMAIN <<>> = {}
    OBVIOUS
  <2>2. Undisturbed
    BY InitUndisturbed DEF Init
  <2>3. PoolStays
    BY <2>2 DEF Init, PoolInit, PoolStays
  <2>4. \A c \in Callers : ToDispatch(c)
    BY DEF Init, ToDispatch
  <2>5. FailuresAreConflicts
    BY <2>1 DEF Init, FailuresAreConflicts
  <2> QED
    BY <2>3, <2>4, <2>5 DEF SharedInv
<1>2. PipelineInv /\ SharedInv /\ [Next]_vars => SharedInv'
  <2> SUFFICES ASSUME PipelineInv, SharedInv, [Next]_vars PROVE SharedInv'
    OBVIOUS
  <2>1. PoolStays'
    BY StaysStep DEF SharedInv
  <2>2. \A c \in Callers : ToDispatch(c)'
    BY ToDispatchStep DEF SharedInv
  <2>3. FailuresAreConflicts'
    BY FailuresStep
  <2> QED
    BY <2>1, <2>2, <2>3 DEF SharedInv
<1>3. SharedInv => FailuresAreConflicts
  BY DEF SharedInv
<1> QED
  BY <1>1, <1>2, <1>3, PipelineInvariant, PTL DEF Spec
=============================================================================
