--------------------------- MODULE PrioGraph_proof ---------------------------
(***************************************************************************)
(* The order and the assignment of the priority graph scheduler, for every *)
(* batch and every number of workers.                                      *)
(***************************************************************************)
EXTENDS Prioritizer, FiniteSetTheorems, WellFoundedInduction, TLAPS

Sorted   == {sorted[p] : p \in DOMAIN sorted}
Unsorted == DOMAIN nodes \ Sorted

\* The units that still hold i back.
Before(i) == {j \in Unsorted : Edge(nodes, j, i)}

\* The order i, j is one that BestFirst allows.
InOrder(i, j) ==
  \/ nodes[i].priority > nodes[j].priority
  \/ /\ nodes[i].priority = nodes[j].priority
     /\ InConflict(nodes, i, j) => i < j

\* in_degree and heap are what their names say.
GraphExact ==
  /\ \A i \in DOMAIN nodes : in_degree[i] = Cardinality(Before(i))
  /\ heap = {i \in Unsorted : Before(i) = {}}

\* What is sorted is in order, and in order before everything that is not.
OrderExact ==
  /\ \A p, q \in DOMAIN sorted : sorted[p] = sorted[q] => p = q
  /\ \A p, q \in DOMAIN sorted : p < q => InOrder(sorted[p], sorted[q])
  /\ \A i \in Sorted, j \in Unsorted : InOrder(i, j)

\* The assignments follow the order, and the accounts of a worker are those of
\* the units it was given.
AssignExact ==
  /\ spc = "sort" => assignments = <<>>
  /\ spc # "sort" => Unsorted = {}
  /\ Len(assignments) <= Len(sorted)
  /\ \A p \in DOMAIN assignments : assignments[p].unit = sorted[p]
  /\ \A w \in Workers :
       worker_locked[w] =
         UNION {nodes[assignments[p].unit].accounts :
                  p \in {r \in DOMAIN assignments : assignments[r].worker = w}}
  /\ spc = "done" => Len(assignments) = Len(sorted)

IInv == TypeOK /\ GraphExact /\ OrderExact /\ AssignExact /\ ConflictsSpread

-----------------------------------------------------------------------------
(* Arithmetic of the priorities *)

\* The words are the naturals up to the largest one.
LEMMA U64IsNat == /\ U64Max \in U64
                  /\ \A n : n \in U64 <=> n \in Nat /\ n <= U64Max
BY PrioGraphAssumption DEF U64

\* A quotient of naturals is no larger than what is divided.
LEMMA DivRange ==
  ASSUME NEW n \in Nat, NEW k \in Nat \ {0}
  PROVE  n \div k \in Nat /\ n \div k <= n
OBVIOUS

\* saturating_mul gives a word.
LEMMA SaturatingMulRange ==
  ASSUME NEW x \in Nat, NEW y \in Nat
  PROVE  SaturatingMul(x, y) \in U64
<1>1. x * y \in Nat
  OBVIOUS
<1>2. QED
  BY <1>1, U64IsNat, PrioGraphAssumption DEF SaturatingMul

\* A bundle becomes a node with a priority that is a word.
LEMMA BundleNodeType == ASSUME NEW b \in BundleData PROVE BundleNode(b) \in Node
<1> DEFINE top == SaturatingMul(b.tip, Million)
           k   == AtLeastOne(b.cu)
<1>1. b.tip \in Nat /\ b.cu \in Nat /\ Million \in Nat /\ b.accounts \in SUBSET Accounts
  BY U64IsNat, PrioGraphAssumption DEF BundleData
<1>2. top \in U64 /\ top \in Nat
  BY <1>1, SaturatingMulRange, U64IsNat
<1>3. k \in Nat \ {0}
  BY <1>1 DEF AtLeastOne
<1> HIDE DEF top, k
<1>4. top \div k \in U64
  BY <1>2, <1>3, DivRange, U64IsNat, PrioGraphAssumption
<1>5. QED
  BY <1>1, <1>4 DEF BundleNode, Node, top, k

\* A transaction becomes a node with a priority that is a word.
LEMMA TxNodeType == ASSUME NEW t \in TxData PROVE TxNode(t) \in Node
<1> DEFINE fee == SaturatingMul(t.price, t.limit) \div Million
           top == SaturatingMul(fee, Million)
           k   == AtLeastOne(t.limit)
<1>1. t.price \in Nat /\ t.limit \in Nat /\ Million \in Nat \ {0} /\ t.accounts \in SUBSET Accounts
  BY U64IsNat, PrioGraphAssumption DEF TxData
<1>2. SaturatingMul(t.price, t.limit) \in Nat
  BY <1>1, SaturatingMulRange, U64IsNat
<1>3. fee \in Nat
  BY <1>1, <1>2, DivRange
<1>4. top \in U64 /\ top \in Nat
  <2> HIDE DEF fee
  <2>1. QED
    BY <1>1, <1>3, SaturatingMulRange, U64IsNat
<1>5. k \in Nat \ {0}
  BY <1>1 DEF AtLeastOne
<1>6. top \div k \in U64
  <2> HIDE DEF top, k
  <2>1. QED
    BY <1>4, <1>5, DivRange, U64IsNat, PrioGraphAssumption
<1>7. QED
  BY <1>1, <1>6 DEF TxNode, Node

\* A batch becomes a sequence of nodes.
LEMMA NodesType == ASSUME NEW b \in Batches PROVE NodesOf(b) \in Seq(Node)
<1> DEFINE bs == [i \in 1 .. Len(b.bundles) |-> BundleNode(b.bundles[i])]
           ts == [i \in 1 .. Len(b.txs) |-> TxNode(b.txs[i])]
<1>1. b.bundles \in Seq(BundleData) /\ b.txs \in Seq(TxData)
  BY PrioGraphAssumption
<1>2. bs \in Seq(Node)
  BY <1>1, BundleNodeType
<1>3. ts \in Seq(Node)
  BY <1>1, TxNodeType
<1> HIDE DEF bs, ts
<1>4. bs \o ts \in Seq(Node)
  BY <1>2, <1>3
<1>5. QED
  BY <1>4 DEF NodesOf, bs, ts

-----------------------------------------------------------------------------
(* The order *)

\* Among finitely many units one is better than all the others, because Better
\* is a total order.
LEMMA BestExists ==
  ASSUME NEW ns \in Seq(Node), NEW U \in SUBSET DOMAIN ns, U # {}
  PROVE  \E m \in U : \A j \in U : j = m \/ Better(ns, m, j)
<1> DEFINE n == Len(ns)
           D(j) == {k \in U : Better(ns, k, j)}
           T == {D(j) : j \in U}
           R == StrictSubsetOrdering(1 .. n)
<1>0. n \in Nat /\ U \subseteq 1 .. n /\ \A j \in U : ns[j].priority \in Int /\ j \in Int
  <2>1. \A j \in DOMAIN ns : ns[j] \in Node
    OBVIOUS
  <2>2. QED
    BY <2>1, U64IsNat DEF Node
<1>1. IsFiniteSet(1 .. n)
  BY <1>0, FS_Interval
<1>2. IsWellFoundedOn(R, FiniteSubsetsOf(1 .. n))
  BY FS_StrictSubsetOrderingWellFounded
<1>3. T \subseteq FiniteSubsetsOf(1 .. n) /\ T # {}
  <2>1. \A j \in U : D(j) \in SUBSET (1 .. n)
    BY <1>0
  <2>2. \A S \in SUBSET (1 .. n) : IsFiniteSet(S)
    BY <1>1, FS_Subset
  <2>3. QED
    BY <2>1, <2>2 DEF FiniteSubsetsOf
<1>4. PICK d \in T : \A e \in T : <<e, d>> \notin R
  <2> HIDE DEF T, R
  <2>1. QED
    BY <1>2, <1>3, WFMin
<1>5. PICK m \in U : d = D(m)
  OBVIOUS
<1>6. ASSUME NEW j \in U, j # m, ~Better(ns, m, j) PROVE FALSE
  <2>1. Better(ns, j, m) /\ ~Better(ns, j, j)
    BY <1>0, <1>6 DEF Better
  <2>2. \A k \in U : Better(ns, k, j) => Better(ns, k, m)
    BY <1>0, <1>6, <2>1 DEF Better
  <2>3. D(j) \subseteq D(m) /\ j \notin D(j) /\ j \in D(m)
    BY <2>1, <2>2
  <2>4. <<D(j), D(m)>> \in R
    <3>1. D(j) \in SUBSET (1 .. n) /\ D(m) \in SUBSET (1 .. n) /\ D(j) # D(m)
      BY <1>0, <2>3
    <3> HIDE DEF D
    <3>2. QED
      BY <3>1, <2>3 DEF StrictSubsetOrdering
  <2>5. D(j) \in T
    OBVIOUS
  <2>6. QED
    BY <2>4, <2>5, <1>4, <1>5
<1>7. QED
  BY <1>6

-----------------------------------------------------------------------------
(* The invariant *)

\* Consequences of the types that the steps use.
LEMMA TypeFacts ==
  ASSUME TypeOK
  PROVE  /\ DOMAIN nodes = 1 .. Len(nodes) /\ Len(nodes) \in Nat
         /\ \A i \in DOMAIN nodes : /\ nodes[i].priority \in Nat
                                   /\ nodes[i].accounts \in SUBSET Accounts
                                   /\ i \in Nat
         /\ DOMAIN sorted = 1 .. Len(sorted) /\ Len(sorted) \in Nat
         /\ Sorted \subseteq DOMAIN nodes
         /\ \A i \in DOMAIN nodes : IsFiniteSet(Before(i))
<1>1. \A i \in DOMAIN nodes : nodes[i] \in Node
  BY DEF TypeOK
<1>2. \A i \in DOMAIN nodes : nodes[i].priority \in Nat
  BY <1>1, U64IsNat DEF Node
<1>3. \A i \in DOMAIN nodes : nodes[i].accounts \in SUBSET Accounts
  BY <1>1 DEF Node
<1>4. DOMAIN nodes = 1 .. Len(nodes) /\ Len(nodes) \in Nat
  BY DEF TypeOK
<1>5. Sorted \subseteq DOMAIN nodes
  BY DEF TypeOK, Sorted
<1>6. ASSUME NEW i \in DOMAIN nodes PROVE IsFiniteSet(Before(i))
  <2>1. Before(i) \subseteq 1 .. Len(nodes) /\ IsFiniteSet(1 .. Len(nodes))
    BY <1>4, FS_Interval DEF Before, Unsorted
  <2>2. QED
    BY <2>1, FS_Subset
<1>7. QED
  BY <1>2, <1>3, <1>4, <1>5, <1>6 DEF TypeOK

\* Before the first pop nothing is sorted and nothing assigned.
LEMMA InitInv == Init => IInv
<1> SUFFICES ASSUME NEW b \in Batches,
                    worker_count \in WorkerCounts,
                    nodes = NodesOf(b),
                    in_degree = [i \in DOMAIN nodes |->
                      Cardinality({j \in DOMAIN nodes : Edge(nodes, j, i)})],
                    heap = {i \in DOMAIN nodes : in_degree[i] = 0},
                    sorted = <<>>,
                    worker_locked = [w \in Workers |-> {}],
                    worker_loads = [w \in Workers |-> 0],
                    assignments = <<>>,
                    spc = "sort"
             PROVE  IInv
  BY DEF Init, InitWith
<1>1. nodes \in Seq(Node) /\ DOMAIN nodes = 1 .. Len(nodes) /\ Len(nodes) \in Nat
  BY NodesType
<1>2. Sorted = {} /\ Unsorted = DOMAIN nodes
  <2>1. DOMAIN sorted = {}
    OBVIOUS
  <2> QED
    BY <2>1 DEF Sorted, Unsorted
<1>3. \A i : Before(i) = {j \in DOMAIN nodes : Edge(nodes, j, i)}
  BY <1>2 DEF Before
<1>4. \A i : IsFiniteSet(Before(i)) /\ Cardinality(Before(i)) \in Nat
             /\ (Cardinality(Before(i)) = 0 <=> Before(i) = {})
  <2>1. IsFiniteSet(1 .. Len(nodes))
    BY <1>1, FS_Interval
  <2>2. \A i : Before(i) \subseteq 1 .. Len(nodes)
    BY <1>1, <1>3
  <2>3. \A i : IsFiniteSet(Before(i))
    BY <2>1, <2>2, FS_Subset
  <2>4. QED
    BY <2>3, FS_CardinalityType, FS_EmptySet
<1>5. TypeOK
  <2>1. in_degree \in [DOMAIN nodes -> Nat]
    BY <1>3, <1>4
  <2>2. 0 \in U64 /\ worker_count \in Nat
    BY PrioGraphAssumption DEF U64
  <2>3. QED
    BY <1>1, <2>1, <2>2 DEF TypeOK
<1>6. GraphExact
  BY <1>2, <1>3, <1>4 DEF GraphExact
<1>7. OrderExact
  BY <1>2 DEF OrderExact
<1>8. AssignExact
  BY DEF AssignExact
<1>9. ConflictsSpread
  BY DEF ConflictsSpread
<1>10. QED
  BY <1>5, <1>6, <1>7, <1>8, <1>9 DEF IInv

\* The unit on top of the heap is worth no less than any unit not yet sorted:
\* the best of those has nothing before it, so it is in the heap.
LEMMA TopIsBest ==
  ASSUME TypeOK, GraphExact, NEW i \in DOMAIN nodes, Pop(i)
  PROVE  \A j \in Unsorted : nodes[j].priority <= nodes[i].priority
<1>1. i \in Unsorted /\ Unsorted \subseteq DOMAIN nodes
  BY DEF Pop, GraphExact, Unsorted
<1>2. PICK m \in Unsorted : \A j \in Unsorted : j = m \/ Better(nodes, m, j)
  BY <1>1, BestExists DEF TypeOK
<1>3. Before(m) = {}
  <2>1. \A j \in Unsorted : ~Edge(nodes, j, m)
    BY <1>1, <1>2, TypeFacts DEF Edge, InConflict, Better
  <2>2. QED
    BY <2>1 DEF Before
<1>4. m \in heap
  BY <1>2, <1>3 DEF GraphExact
<1>5. nodes[m].priority <= nodes[i].priority
  BY <1>4 DEF Pop
<1>6. \A j \in Unsorted : nodes[j].priority <= nodes[m].priority
  BY <1>1, <1>2, TypeFacts DEF Better
<1>7. QED
  BY <1>1, <1>2, <1>5, <1>6, TypeFacts

\* A pop sorts the best unit, and adds to the heap those it freed.
LEMMA PopInv ==
  ASSUME IInv, NEW i \in DOMAIN nodes, Pop(i)
  PROVE  IInv'
<1> USE DEF IInv
<1>1. /\ i \in Unsorted /\ i \in heap /\ Before(i) = {}
      /\ sorted' = Append(sorted, i) /\ nodes' = nodes /\ worker_count' = worker_count
      /\ UNCHANGED <<worker_locked, worker_loads, assignments, spc>> /\ spc = "sort"
  BY DEF Pop, GraphExact
<1>2. DOMAIN sorted' = 1 .. Len(sorted) + 1 /\ sorted'[Len(sorted) + 1] = i
      /\ \A p \in DOMAIN sorted : sorted'[p] = sorted[p]
      /\ DOMAIN sorted = 1 .. Len(sorted) /\ Len(sorted) \in Nat
  BY <1>1 DEF TypeOK
<1>3. Sorted' = Sorted \cup {i} /\ Unsorted' = Unsorted \ {i}
  <2>1. Sorted' = Sorted \cup {i}
    <3> DEFINE n == Len(sorted)
    <3>1. Sorted' = {sorted'[p] : p \in 1 .. n + 1} /\ Sorted = {sorted[p] : p \in 1 .. n}
      BY <1>2 DEF Sorted
    <3>2. n \in Nat /\ sorted'[n + 1] = i /\ \A p \in 1 .. n : sorted'[p] = sorted[p]
      BY <1>2
    <3>3. 1 .. n + 1 = (1 .. n) \cup {n + 1}
      BY <3>2
    <3> HIDE DEF n
    <3>4. QED
      BY <3>1, <3>2, <3>3
  <2>2. QED
    BY <2>1, <1>1 DEF Unsorted
<1>4. \A j \in DOMAIN nodes : Edge(nodes, i, j) => j \in Unsorted
  <2>1. ASSUME NEW j \in Sorted, Edge(nodes, i, j) PROVE FALSE
    <3>1. InOrder(j, i)
      BY <1>1 DEF OrderExact
    <3>2. nodes[i].priority \in Nat /\ nodes[j].priority \in Nat /\ i \in Nat /\ j \in Nat
      BY TypeFacts
    <3>3. InConflict(nodes, j, i)
      BY <2>1 DEF Edge, InConflict
    <3>4. QED
      BY <2>1, <3>1, <3>2, <3>3 DEF Edge, Better, InOrder
  <2>2. QED
    BY <2>1 DEF Unsorted
<1>5. \A j \in DOMAIN nodes :
        /\ Before(j)' = Before(j) \ {i}
        /\ i \in Before(j) <=> Edge(nodes, i, j)
  BY <1>1, <1>3 DEF Before
<1>6. ASSUME NEW j \in DOMAIN nodes
      PROVE  /\ in_degree'[j] = Cardinality(Before(j)')
             /\ in_degree'[j] \in Nat
             /\ Edge(nodes, i, j) => (in_degree[j] = 1 <=> Before(j)' = {})
  <2>1. IsFiniteSet(Before(j)) /\ Cardinality(Before(j)) \in Nat
    BY TypeFacts, FS_CardinalityType
  <2>2. IsFiniteSet(Before(j) \ {i}) /\ Cardinality(Before(j) \ {i}) \in Nat
        /\ Cardinality(Before(j) \ {i}) =
             IF i \in Before(j) THEN Cardinality(Before(j)) - 1 ELSE Cardinality(Before(j))
    BY <2>1, FS_RemoveElement, FS_CardinalityType
  <2>3. Cardinality(Before(j) \ {i}) = 0 <=> Before(j) \ {i} = {}
    BY <2>2, FS_EmptySet
  <2>4. in_degree[j] = Cardinality(Before(j))
    BY DEF GraphExact
  <2>5. in_degree'[j] = in_degree[j] - (IF Edge(nodes, i, j) THEN 1 ELSE 0)
    BY DEF Pop
  <2>6. QED
    BY <1>5, <2>1, <2>2, <2>3, <2>4, <2>5
<1>7. TypeOK'
  <2>1. in_degree' \in [DOMAIN nodes -> Nat]
    BY <1>6 DEF Pop
  <2>2. heap' \in SUBSET DOMAIN nodes
    BY DEF Pop, TypeOK
  <2>3. sorted' \in Seq(DOMAIN nodes)
    BY <1>1 DEF TypeOK
  <2>4. Workers' = Workers
    BY <1>1 DEF Workers
  <2>5. QED
    BY <1>1, <2>1, <2>2, <2>3, <2>4 DEF TypeOK
<1>8. GraphExact'
  <2>1. ASSUME NEW j \in DOMAIN nodes
        PROVE  j \in heap' <=> j \in Unsorted' /\ Before(j)' = {}
    <3>1. j \in heap' <=> \/ j \in heap /\ j # i
                          \/ Edge(nodes, i, j) /\ in_degree[j] = 1
      BY DEF Pop
    <3>2. j \in heap <=> j \in Unsorted /\ Before(j) = {}
      BY DEF GraphExact
    <3>3. ~Edge(nodes, i, i)
      BY DEF Edge, InConflict
    <3>4. CASE Edge(nodes, i, j)
      BY <3>1, <3>2, <3>3, <3>4, <1>3, <1>4, <1>5, <1>6
    <3>5. CASE ~Edge(nodes, i, j)
      BY <3>1, <3>2, <3>5, <1>3, <1>5
    <3>6. QED
      BY <3>4, <3>5
  <2>2. heap' \subseteq DOMAIN nodes /\ Unsorted' \subseteq DOMAIN nodes
    BY <1>1, <1>7 DEF TypeOK, Unsorted
  <2>3. heap' = {j \in Unsorted' : Before(j)' = {}}
    BY <2>1, <2>2
  <2>4. QED
    BY <2>3, <1>1, <1>6 DEF GraphExact
<1>9. OrderExact'
  <2>1. \A j \in Unsorted' : InOrder(i, j)
    <3>1. ASSUME NEW j \in Unsorted, j # i PROVE InOrder(i, j)
      <4>1. nodes[j].priority <= nodes[i].priority
        BY TopIsBest
      <4>2. nodes[i].priority \in Nat /\ nodes[j].priority \in Nat /\ i \in Nat /\ j \in Nat
        BY TypeFacts DEF Unsorted
      <4>3. ~Edge(nodes, j, i)
        BY <1>1 DEF Before
      <4>4. InConflict(nodes, i, j) => InConflict(nodes, j, i)
        BY DEF InConflict
      <4>5. QED
        BY <4>1, <4>2, <4>3, <4>4, <3>1 DEF InOrder, Edge, Better
    <3>2. QED
      BY <3>1, <1>3
  <2>2. \A p \in DOMAIN sorted : sorted[p] \in Sorted /\ sorted[p] # i /\ InOrder(sorted[p], i)
    BY <1>1 DEF OrderExact, Sorted, Unsorted
  <2>3. \A k, j : InOrder(k, j)' <=> InOrder(k, j)
    BY <1>1 DEF InOrder
  <2>4. \A p, q \in DOMAIN sorted' : sorted'[p] = sorted'[q] => p = q
    BY <1>2, <2>2 DEF OrderExact
  <2>5. \A p, q \in DOMAIN sorted' : p < q => InOrder(sorted'[p], sorted'[q])
    BY <1>2, <2>2 DEF OrderExact
  <2>6. \A k \in Sorted', j \in Unsorted' : InOrder(k, j)
    BY <1>3, <2>1 DEF OrderExact
  <2>7. QED
    BY <2>3, <2>4, <2>5, <2>6 DEF OrderExact
<1>10. AssignExact'
  <2>1. assignments = <<>> /\ assignments' = <<>>
    BY <1>1 DEF AssignExact
  <2>2. Len(sorted') \in Nat /\ Workers' = Workers
    BY <1>1, <1>2 DEF Workers, TypeOK
  <2>3. QED
    BY <1>1, <2>1, <2>2 DEF AssignExact
<1>11. ConflictsSpread'
  BY <1>1 DEF ConflictsSpread, AssignExact
<1>12. QED
  BY <1>7, <1>8, <1>9, <1>10, <1>11

\* The end of the sort, at an empty heap, keeps the invariant.
LEMMA EndSortInv ==
  ASSUME IInv, EndSort
  PROVE  IInv'
<1> USE DEF IInv
<1>1. UNCHANGED <<worker_count, nodes, in_degree, heap, sorted, worker_locked,
                  worker_loads, assignments>> /\ heap = {} /\ spc = "sort" /\ spc' = "assign"
  BY DEF EndSort
<1>2. Unsorted = {}
  <2>1. ASSUME Unsorted # {} PROVE FALSE
    <3>1. PICK m \in Unsorted : \A j \in Unsorted : j = m \/ Better(nodes, m, j)
      BY <2>1, BestExists DEF TypeOK, Unsorted
    <3>2. \A j \in Unsorted : ~Edge(nodes, j, m)
      BY <3>1, TypeFacts DEF Edge, InConflict, Better, Unsorted
    <3>3. m \in heap
      BY <3>1, <3>2 DEF GraphExact, Before
    <3>4. QED
      BY <1>1, <3>3
  <2>2. QED
    BY <2>1
<1>3. TypeOK'
  BY <1>1 DEF TypeOK, Workers
<1>4. GraphExact'
  <2>1. Unsorted' = Unsorted /\ \A i : Before(i)' = Before(i)
    BY <1>1 DEF Before, Unsorted, Sorted
  <2>2. QED
    BY <1>1, <2>1 DEF GraphExact
<1>5. OrderExact'
  BY <1>1 DEF OrderExact, InOrder, Unsorted, Sorted
<1>6. AssignExact'
  BY <1>1, <1>2 DEF AssignExact, Workers, Unsorted, Sorted
<1>7. ConflictsSpread'
  BY <1>1 DEF ConflictsSpread, Workers
<1>8. QED
  BY <1>3, <1>4, <1>5, <1>6, <1>7

\* Among the workers there is a first of the least loaded.
LEMMA LeastLoadedIn ==
  ASSUME TypeOK, NEW ws \in SUBSET Workers, ws # {}
  PROVE  /\ LeastLoaded(ws) \in ws
         /\ \A v \in ws : worker_loads[LeastLoaded(ws)] <= worker_loads[v]
<1> DEFINE ns == [i \in 1 .. worker_count |->
                    [priority |-> U64Max - worker_loads[i - 1],
                     accounts |-> {}, is_bundle |-> FALSE]]
           U  == {w + 1 : w \in ws}
<1>1. worker_count \in Nat /\ Workers = 0 .. worker_count - 1
      /\ \A w \in Workers : worker_loads[w] \in Nat /\ worker_loads[w] <= U64Max
  BY U64IsNat DEF TypeOK, Workers
<1>2. ns \in Seq(Node) /\ DOMAIN ns = 1 .. worker_count
  <2>1. \A i \in 1 .. worker_count : ns[i] \in Node
    <3>1. ASSUME NEW i \in 1 .. worker_count PROVE U64Max - worker_loads[i - 1] \in U64
      <4>1. i - 1 \in Workers
        BY <1>1
      <4>2. QED
        BY <4>1, <1>1, U64IsNat, PrioGraphAssumption
    <3>2. QED
      BY <3>1 DEF Node
  <2>2. QED
    BY <2>1, <1>1
<1>3. U \in SUBSET DOMAIN ns /\ U # {}
  <2>1. \A w \in ws : w + 1 \in 1 .. worker_count
    BY <1>1
  <2> HIDE DEF ns
  <2>2. QED
    BY <1>2, <2>1
<1>4. PICK m \in U : \A j \in U : j = m \/ Better(ns, m, j)
  <2> HIDE DEF ns, U
  <2>1. QED
    BY <1>2, <1>3, BestExists
<1>5. PICK w \in ws : m = w + 1
  OBVIOUS
<1>6. ASSUME NEW v \in ws
      PROVE  \/ worker_loads[w] < worker_loads[v]
             \/ worker_loads[w] = worker_loads[v] /\ w <= v
  <2>1. v + 1 \in U /\ v \in Workers /\ w \in Workers
    OBVIOUS
  <2>2. ns[v + 1].priority = U64Max - worker_loads[v]
        /\ ns[w + 1].priority = U64Max - worker_loads[w]
    <3>1. v + 1 \in 1 .. worker_count /\ w + 1 \in 1 .. worker_count
          /\ (v + 1) - 1 = v /\ (w + 1) - 1 = w
      BY <1>1, <2>1
    <3>2. QED
      BY <3>1
  <2>3. v + 1 = w + 1 \/ Better(ns, w + 1, v + 1)
    BY <1>4, <1>5, <2>1
  <2> HIDE DEF ns, U
  <2>4. QED
    BY <1>1, <2>1, <2>2, <2>3, PrioGraphAssumption DEF Better
<1>7. PICK l : l = LeastLoaded(ws)
  OBVIOUS
<1>8. /\ l \in ws
      /\ \A v \in ws : \/ worker_loads[l] < worker_loads[v]
                       \/ worker_loads[l] = worker_loads[v] /\ l <= v
  BY <1>6, <1>7 DEF LeastLoaded
<1>9. \A v \in ws : worker_loads[l] <= worker_loads[v]
  BY <1>1, <1>8
<1>10. QED
  BY <1>7, <1>8, <1>9

\* An assignment takes the next unit in the order.
LEMMA AssignInv ==
  ASSUME IInv, Assign
  PROVE  IInv'
<1> USE DEF IInv
<1> DEFINE k == Len(assignments)
           i == NextNode
           w == LeastLoaded(Candidates(i))
<1>1. /\ UNCHANGED <<worker_count, nodes, in_degree, heap, sorted, spc>>
      /\ spc = "assign" /\ Workers # {} /\ k < Len(sorted)
      /\ worker_locked' = [worker_locked EXCEPT ![w] = @ \cup nodes[i].accounts]
      /\ worker_loads' = [worker_loads EXCEPT ![w] = AddLoad(@, nodes[i].priority)]
      /\ assignments' = Append(assignments, [unit |-> i, worker |-> w])
  BY DEF Assign
<1>2. k \in Nat /\ k + 1 \in DOMAIN sorted /\ i = sorted[k + 1] /\ i \in DOMAIN nodes
      /\ DOMAIN assignments = 1 .. k
  BY <1>1 DEF NextNode, TypeOK
<1>3. w \in Candidates(i) /\ w \in Workers
  <2>1. Candidates(i) \in SUBSET Workers /\ Candidates(i) # {}
    BY <1>1 DEF Candidates, Available
  <2>2. QED
    BY <2>1, LeastLoadedIn
<1> HIDE DEF w, i
<1>4. /\ DOMAIN assignments' = 1 .. k + 1
      /\ \A p \in 1 .. k : assignments'[p] = assignments[p]
      /\ assignments'[k + 1] = [unit |-> i, worker |-> w]
      /\ Len(assignments') = k + 1
  BY <1>1, <1>2 DEF TypeOK
<1>5. Workers' = Workers
  BY <1>1 DEF Workers
<1>6. TypeOK'
  <2>1. nodes[i].priority \in Nat /\ nodes[i].accounts \in SUBSET Accounts
    BY <1>2, TypeFacts
  <2>2. worker_loads[w] \in Nat
    BY <1>3, U64IsNat DEF TypeOK
  <2>3. AddLoad(worker_loads[w], nodes[i].priority) \in U64
    BY <2>1, <2>2, PrioGraphAssumption DEF AddLoad, U64
  <2>4. worker_loads' \in [Workers -> U64]
    BY <1>1, <1>3, <2>3 DEF TypeOK
  <2>5. worker_locked' \in [Workers -> SUBSET Accounts]
    BY <1>1, <1>3, <2>1 DEF TypeOK
  <2>6. assignments' \in Seq([unit : DOMAIN nodes, worker : Workers])
    BY <1>1, <1>2, <1>3 DEF TypeOK
  <2>7. QED
    BY <1>1, <1>5, <2>4, <2>5, <2>6 DEF TypeOK
<1>7. GraphExact'
  <2>1. Unsorted' = Unsorted /\ \A j : Before(j)' = Before(j)
    BY <1>1 DEF Before, Unsorted, Sorted
  <2>2. QED
    BY <1>1, <2>1 DEF GraphExact
<1>8. OrderExact'
  BY <1>1 DEF OrderExact, InOrder, Unsorted, Sorted
<1> DEFINE Given(v) == {r \in DOMAIN assignments : assignments[r].worker = v}
<1>9. \A v \in Workers :
        worker_locked[v] = UNION {nodes[assignments[p].unit].accounts : p \in Given(v)}
  BY DEF AssignExact
<1>10. AssignExact'
  <2>1. \A v \in Workers : Given(v)' = IF v = w THEN Given(v) \cup {k + 1} ELSE Given(v)
    <3>1. 1 .. k + 1 = (1 .. k) \cup {k + 1}
      BY <1>2
    <3>2. k + 1 \notin 1 .. k
      BY <1>2
    <3>3. QED
      BY <1>2, <1>4, <3>1, <3>2
  <2>2. \A v \in Workers : \A p \in Given(v) : p \in 1 .. k
    BY <1>2
  <2>3. ASSUME NEW v \in Workers
        PROVE  worker_locked'[v] =
                 UNION {nodes'[assignments'[p].unit].accounts : p \in Given(v)'}
    <3>1. worker_locked'[v] = IF v = w THEN worker_locked[v] \cup nodes[i].accounts
                             ELSE worker_locked[v]
      BY <1>1, <1>3 DEF TypeOK
    <3>2. \A p \in Given(v) : assignments'[p] = assignments[p]
      BY <2>2, <1>4
    <3>3. nodes' = nodes /\ assignments'[k + 1].unit = i
      BY <1>1, <1>4
    <3>4. Given(v)' = IF v = w THEN Given(v) \cup {k + 1} ELSE Given(v)
      BY <2>1
    <3> HIDE DEF Given
    <3>5. CASE v = w
      BY <1>9, <3>1, <3>2, <3>3, <3>4, <3>5
    <3>6. CASE v # w
      BY <1>9, <3>1, <3>2, <3>3, <3>4, <3>6
    <3>7. QED
      BY <3>5, <3>6
  <2>4. Unsorted' = {}
    BY <1>1 DEF AssignExact, Unsorted, Sorted
  <2>5. \A p \in DOMAIN assignments' : assignments'[p].unit = sorted'[p]
    <3>1. \A p \in 1 .. k : assignments[p].unit = sorted[p]
      BY <1>2 DEF AssignExact
    <3>2. \A p \in 1 .. k + 1 : p \in 1 .. k \/ p = k + 1
      BY <1>2
    <3>3. QED
      BY <1>1, <1>2, <1>4, <3>1, <3>2
  <2>6. Len(assignments') <= Len(sorted')
    BY <1>1, <1>2, <1>4 DEF TypeOK
  <2>7. QED
    BY <1>1, <1>5, <2>3, <2>4, <2>5, <2>6 DEF AssignExact
<1>11. ConflictsSpread'
  <2>1. ASSUME NEW p \in 1 .. k, assignments[p].worker = w,
               InConflict(nodes, assignments[p].unit, i), NEW v \in Workers
        PROVE  \E r \in 1 .. k : /\ assignments[r].worker = v
                                 /\ InConflict(nodes, assignments[r].unit, i)
    <3>1. p \in Given(w)
      BY <1>2, <2>1
    <3>2. nodes[assignments[p].unit].accounts \subseteq worker_locked[w]
      BY <1>3, <1>9, <3>1
    <3>3. w \notin Available(i)
      BY <2>1, <3>2 DEF Available, InConflict
    <3>4. nodes[i].accounts \cap worker_locked[v] # {}
      BY <1>3, <3>3 DEF Candidates, Available
    <3>5. PICK r \in Given(v) : nodes[i].accounts \cap nodes[assignments[r].unit].accounts # {}
      BY <1>9, <3>4
    <3>6. r \in 1 .. k /\ assignments[r].worker = v
      BY <1>2
    <3>7. assignments[r].unit # i
      <4>1. assignments[r].unit = sorted[r] /\ r \in DOMAIN sorted /\ r # k + 1
        <5>1. r \in DOMAIN assignments /\ r # k + 1
          BY <1>2, <3>6
        <5>2. Len(sorted) \in Nat /\ DOMAIN sorted = 1 .. Len(sorted)
          BY TypeFacts
        <5>3. r \in DOMAIN sorted
          BY <1>1, <1>2, <3>6, <5>2
        <5>4. QED
          BY <5>1, <5>3 DEF AssignExact
      <4>2. QED
        BY <1>2, <4>1 DEF OrderExact
    <3>8. QED
      BY <3>5, <3>6, <3>7 DEF InConflict
  <2>2. ASSUME NEW p \in DOMAIN assignments', NEW q \in DOMAIN assignments', p < q,
               assignments'[p].worker = assignments'[q].worker,
               InConflict(nodes, assignments'[p].unit, assignments'[q].unit),
               NEW v \in Workers
        PROVE  \E r \in DOMAIN assignments' :
                 /\ r < q
                 /\ assignments'[r].worker = v
                 /\ InConflict(nodes, assignments'[r].unit, assignments'[q].unit)
    <3>1. p \in 1 .. k /\ assignments'[p] = assignments[p]
      BY <1>2, <1>4, <2>2
    <3>2. CASE q = k + 1
      <4>1. assignments[p].worker = w /\ InConflict(nodes, assignments[p].unit, i)
        BY <1>4, <2>2, <3>1, <3>2
      <4>2. PICK r \in 1 .. k : /\ assignments[r].worker = v
                               /\ InConflict(nodes, assignments[r].unit, i)
        BY <2>1, <3>1, <4>1
      <4>3. QED
        BY <1>2, <1>4, <3>2, <4>2
    <3>3. CASE q # k + 1
      <4>1. q \in 1 .. k /\ assignments'[q] = assignments[q]
        BY <1>2, <1>4, <3>3
      <4>2. PICK r \in DOMAIN assignments :
              /\ r < q
              /\ assignments[r].worker = v
              /\ InConflict(nodes, assignments[r].unit, assignments[q].unit)
        BY <1>2, <2>2, <3>1, <4>1 DEF ConflictsSpread
      <4>3. QED
        BY <1>2, <1>4, <4>1, <4>2
    <3>4. QED
      BY <3>2, <3>3
  <2>3. QED
    BY <2>2, <1>1, <1>5 DEF ConflictsSpread
<1>12. QED
  BY <1>6, <1>7, <1>8, <1>10, <1>11

\* Panic and Return change nothing but where the call is.
LEMMA EndInv ==
  ASSUME IInv, Panic \/ Return
  PROVE  IInv'
<1> USE DEF IInv
<1>1. /\ UNCHANGED <<worker_count, nodes, in_degree, heap, sorted, worker_locked,
                     worker_loads, assignments>>
      /\ spc = "assign" /\ spc' \in {"done", "panicked"}
      /\ spc' = "done" => Len(assignments) = Len(sorted)
  BY DEF Panic, Return
<1>2. TypeOK'
  BY <1>1 DEF TypeOK, Workers
<1>3. GraphExact'
  <2>1. Unsorted' = Unsorted /\ \A i : Before(i)' = Before(i)
    BY <1>1 DEF Before, Unsorted, Sorted
  <2>2. QED
    BY <1>1, <2>1 DEF GraphExact
<1>4. OrderExact'
  BY <1>1 DEF OrderExact, InOrder, Unsorted, Sorted
<1>5. AssignExact'
  BY <1>1 DEF AssignExact, Workers, Unsorted, Sorted
<1>6. ConflictsSpread'
  BY <1>1 DEF ConflictsSpread, Workers
<1>7. QED
  BY <1>2, <1>3, <1>4, <1>5, <1>6

\* A step that changes nothing keeps the invariant.
LEMMA StutterInv ==
  ASSUME IInv, UNCHANGED vars
  PROVE  IInv'
<1> USE DEF IInv, vars
<1>1. TypeOK'
  BY DEF TypeOK, Workers
<1>2. GraphExact'
  <2>1. Unsorted' = Unsorted /\ \A i : Before(i)' = Before(i)
    BY DEF Before, Unsorted, Sorted
  <2>2. QED
    BY <2>1 DEF GraphExact
<1>3. OrderExact'
  BY DEF OrderExact, InOrder, Unsorted, Sorted
<1>4. AssignExact'
  BY DEF AssignExact, Workers, Unsorted, Sorted
<1>5. ConflictsSpread'
  BY DEF ConflictsSpread, Workers
<1>6. QED
  BY <1>1, <1>2, <1>3, <1>4, <1>5

\* The inductive invariant of a call of schedule(): in_degree and heap describe
\* what is not sorted yet, what is sorted is in order and before the rest, and
\* the accounts of a worker are those of the units it was given.
THEOREM PrioGraphInvariant == Spec => []IInv
<1>1. Init => IInv
  BY InitInv
<1>2. IInv /\ [Next]_vars => IInv'
  <2> SUFFICES ASSUME IInv, [Next]_vars PROVE IInv'
    OBVIOUS
  <2>1. ASSUME NEW i \in DOMAIN nodes, Pop(i) PROVE IInv'
    BY <2>1, PopInv
  <2>2. CASE EndSort
    BY <2>2, EndSortInv
  <2>3. CASE Assign
    BY <2>3, AssignInv
  <2>4. CASE Panic \/ Return
    BY <2>4, EndInv
  <2>5. CASE Terminated \/ UNCHANGED vars
    BY <2>5, StutterInv DEF Terminated
  <2>6. QED
    BY <2>1, <2>2, <2>3, <2>4, <2>5 DEF Next
<1>3. QED
  BY <1>1, <1>2, PTL DEF Spec

-----------------------------------------------------------------------------
(* The theorems *)

\* Every index that schedule() uses is one of a unit and of a worker.
THEOREM PrioGraphTypeOK == Spec => []TypeOK
<1>1. IInv => TypeOK
  BY DEF IInv
<1>2. QED
  BY <1>1, PrioGraphInvariant, PTL

\* The answer of the topological sort is in priority order over the whole batch,
\* and conflicting units worth the same keep the order of the batch.
THEOREM SortIsBestFirst == Spec => []BestFirst
<1>1. IInv => BestFirst
  BY DEF IInv, OrderExact, InOrder, BestFirst
<1>2. QED
  BY <1>1, PrioGraphInvariant, PTL

\* The graph has no cycle, so the sort ends with every unit, and each is
\* assigned once, in that order.
THEOREM SortIsComplete == Spec => []EveryUnitOnce
<1>1. ASSUME IInv PROVE EveryUnitOnce
  <2> USE <1>1 DEF IInv
  <2>1. \A p, q \in DOMAIN sorted : sorted[p] = sorted[q] => p = q
    BY DEF OrderExact
  <2>2. spc # "sort" => Sorted = DOMAIN nodes
    BY TypeFacts DEF AssignExact, Unsorted
  <2>3. spc = "done" => [p \in DOMAIN assignments |-> assignments[p].unit] = sorted
    <3>1. CASE spc = "done"
      <4>1. DOMAIN assignments = DOMAIN sorted
        BY <3>1 DEF AssignExact, TypeOK
      <4>2. \A p \in DOMAIN assignments : assignments[p].unit = sorted[p]
        BY DEF AssignExact
      <4>3. sorted = [p \in DOMAIN sorted |-> sorted[p]]
        BY DEF TypeOK
      <4>4. QED
        BY <4>1, <4>2, <4>3
    <3>2. QED
      BY <3>1
  <2>4. QED
    BY <2>1, <2>2, <2>3 DEF EveryUnitOnce, Sorted
<1>2. QED
  BY <1>1, PrioGraphInvariant, PTL

\* Conflicting units share a worker only when no worker is free of conflicts
\* with the later one.
THEOREM ConflictsAreSpread == Spec => []ConflictsSpread
<1>1. IInv => ConflictsSpread
  BY DEF IInv
<1>2. QED
  BY <1>1, PrioGraphInvariant, PTL

-----------------------------------------------------------------------------
(* The prioritizer beside the scheduler *)

\* What prioritize() was given beside the scheduler's own batch.
SameBatch == batch \in Batches /\ nodes = NodesOf(batch)

\* A value of a unit that both components compute alike.
ValuesAgree ==
  \A i \in DOMAIN nodes : ~Unpriced(i) => CalculateScore(batch, i) = nodes[i].priority

\* The pipeline's call of the scheduler is one of the calls PrioGraph describes.
LEMMA PrioImplementsScheduler == PrioSpec => Spec
<1>1. PrioInit => Init
  BY DEF PrioInit, Init
<1>2. [Next /\ UNCHANGED <<batch, prioritized>>]_prioVars => [Next]_vars
  BY DEF prioVars
<1> QED
  BY <1>1, <1>2, PTL DEF PrioSpec, Spec

\* No step of the scheduler touches its batch.
LEMMA BatchStays == PrioSpec => []SameBatch
<1>1. PrioInit => SameBatch
  BY DEF PrioInit, InitWith, SameBatch
<1>2. SameBatch /\ [Next /\ UNCHANGED <<batch, prioritized>>]_prioVars => SameBatch'
  BY DEF SameBatch, prioVars, vars, Next, Pop, EndSort, Assign, Panic, Return, Terminated
<1> QED
  BY <1>1, <1>2, PTL DEF PrioSpec

\* Without a compute limit a transaction pays nothing, whatever its price.
LEMMA FreeOfCharge ==
  ASSUME NEW x \in U64, NEW y \in U64
  PROVE  /\ SaturatingMul(x, 0) = 0
         /\ SaturatingMul(0, y) = 0
         /\ 0 \div Million = 0 /\ 0 \div 1 = 0
<1>1. x * 0 = 0 /\ 0 * y = 0 /\ ~(0 > U64Max)
  BY PrioGraphAssumption DEF U64
<1>2. 0 \div Million = 0 /\ 0 \div 1 = 0
  BY PrioGraphAssumption
<1> QED
  BY <1>1, <1>2 DEF SaturatingMul

\* The score of the prioritizer is the priority of the scheduler's node, for
\* every unit but a bundle without compute units.
THEOREM PrioritizerAgrees == PrioSpec => []ValuesAgree
<1>1. SameBatch => ValuesAgree
  <2> SUFFICES ASSUME SameBatch, NEW i \in DOMAIN nodes, ~Unpriced(i)
               PROVE  CalculateScore(batch, i) = nodes[i].priority
    BY DEF ValuesAgree
  <2> DEFINE m == Len(batch.bundles)
             n == Len(batch.txs)
             bs == [k \in 1 .. m |-> BundleNode(batch.bundles[k])]
             ts == [k \in 1 .. n |-> TxNode(batch.txs[k])]
  <2>1. batch.bundles \in Seq(BundleData) /\ batch.txs \in Seq(TxData)
    BY PrioGraphAssumption DEF SameBatch
  <2>2. m \in Nat /\ n \in Nat
    BY <2>1
  <2>3. bs \in Seq(Node) /\ Len(bs) = m /\ ts \in Seq(Node) /\ Len(ts) = n
    BY <2>1, <2>2, BundleNodeType, TxNodeType
  <2>4. nodes = bs \o ts
    BY DEF SameBatch, NodesOf
  <2>5. i \in 1 .. m + n
    <3> HIDE DEF bs, ts, m, n
    <3> QED BY <2>2, <2>3, <2>4
  <2>6. CASE i <= m
    <3>1. i \in 1 .. m
      BY <2>2, <2>5, <2>6
    <3>2. nodes[i] = bs[i]
      <4> HIDE DEF bs, ts, m, n
      <4> QED BY <2>2, <2>3, <2>4, <3>1
    <3>3. nodes[i] = BundleNode(batch.bundles[i])
      BY <3>1, <3>2
    <3>4. batch.bundles[i] \in BundleData
      BY <2>1, <3>1
    <3>5. batch.bundles[i].cu # 0
      BY <2>6, <3>3 DEF Unpriced, ComputeUnits, BundleNode
    <3> QED
      BY <2>6, <3>3, <3>5 DEF CalculateScore, PriorityScore, ComputeUnits, BundleNode, AtLeastOne
  <2>7. CASE ~(i <= m)
    <3> DEFINE k == i - m
    <3>1. k \in 1 .. n
      <4> HIDE DEF bs, ts, m, n
      <4> QED BY <2>2, <2>5, <2>7 DEF k
    <3>2. nodes[i] = ts[k]
      <4> HIDE DEF bs, ts
      <4> QED BY <2>2, <2>3, <2>4, <2>5, <2>7
    <3>3. nodes[i] = TxNode(batch.txs[k])
      BY <3>1, <3>2
    <3>4. batch.txs[k] \in TxData
      BY <2>1, <3>1
    <3> DEFINE tx == batch.txs[k]
    <3>5. tx.price \in U64 /\ tx.limit \in U64 /\ Million \in Nat
      BY <3>4, PrioGraphAssumption DEF TxData
    <3>6. /\ PriorityScore(batch, i) = SaturatingMul(tx.price, tx.limit) \div Million
          /\ ComputeUnits(batch, i) = tx.limit
      BY <2>7 DEF PriorityScore, ComputeUnits
    <3>7. nodes[i].priority =
            SaturatingMul(SaturatingMul(tx.price, tx.limit) \div Million, Million)
              \div AtLeastOne(tx.limit)
      BY <3>3 DEF TxNode
    <3> HIDE DEF tx, k
    <3>8. CASE tx.limit = 0
      <4>1. SaturatingMul(tx.price, tx.limit) \div Million = 0
        BY <3>5, <3>8, FreeOfCharge
      <4>2. SaturatingMul(0, Million) = 0
        <5>1. 0 * Million = 0 /\ ~(0 > U64Max)
          BY PrioGraphAssumption
        <5> QED
          BY <5>1 DEF SaturatingMul
      <4>3. AtLeastOne(tx.limit) = 1 /\ 0 \div 1 = 0
        BY <3>8 DEF AtLeastOne
      <4> QED
        BY <3>6, <3>7, <3>8, <4>1, <4>2, <4>3 DEF CalculateScore
    <3>9. CASE tx.limit # 0
      BY <3>6, <3>7, <3>9 DEF CalculateScore, AtLeastOne
    <3> QED
      BY <3>8, <3>9
  <2> QED
    BY <2>6, <2>7
<1> QED
  BY <1>1, BatchStays, PTL

-----------------------------------------------------------------------------
(* Sorting by rank *)

\* A strict total order on the first n places.
IsOrder(R, n) ==
  /\ \A i \in 1 .. n : <<i, i>> \notin R
  /\ \A i, j \in 1 .. n : i # j => <<i, j>> \in R \/ <<j, i>> \in R
  /\ \A i, j, k \in 1 .. n : <<i, j>> \in R /\ <<j, k>> \in R => <<i, k>> \in R

Rank(R, n, i) == Cardinality({j \in 1 .. n : <<j, i>> \in R})

\* Ranks count the places from 0 to n - 1, in order, and leave none out.
LEMMA Ranks ==
  ASSUME NEW n \in Nat, NEW R, IsOrder(R, n)
  PROVE  /\ \A i, j \in 1 .. n : <<i, j>> \in R <=> Rank(R, n, i) < Rank(R, n, j)
         /\ \A p \in 1 .. n : \E i \in 1 .. n : Rank(R, n, i) = p - 1
<1> DEFINE S == 1 .. n
           T == 0 .. n - 1
           Below(i) == {j \in S : <<j, i>> \in R}
<1>1. IsFiniteSet(S) /\ Cardinality(S) = n /\ IsFiniteSet(T) /\ Cardinality(T) = n
  <2>1. 0 \in Int /\ 1 \in Int /\ n \in Int /\ n - 1 \in Int
    OBVIOUS
  <2>2. IsFiniteSet(S) /\ Cardinality(S) = IF 1 > n THEN 0 ELSE n - 1 + 1
    BY <2>1, FS_Interval
  <2>3. IsFiniteSet(T) /\ Cardinality(T) = IF 0 > n - 1 THEN 0 ELSE n - 1 - 0 + 1
    BY <2>1, FS_Interval
  <2> QED
    BY <2>2, <2>3
<1>2. \A i \in S : /\ IsFiniteSet(Below(i)) /\ Rank(R, n, i) = Cardinality(Below(i))
                   /\ Rank(R, n, i) \in T /\ Rank(R, n, i) \in Int
  <2> SUFFICES ASSUME NEW i \in S
               PROVE  /\ IsFiniteSet(Below(i)) /\ Rank(R, n, i) = Cardinality(Below(i))
                      /\ Rank(R, n, i) \in T /\ Rank(R, n, i) \in Int
    OBVIOUS
  <2>1. IsFiniteSet(Below(i)) /\ Cardinality(Below(i)) <= n
    BY <1>1, FS_Subset
  <2>2. Cardinality(Below(i)) \in Nat
    BY <2>1, FS_CardinalityType
  <2>3. Cardinality(Below(i)) # n
    <3>1. i \notin Below(i)
      BY DEF IsOrder
    <3>2. Below(i) \in SUBSET S /\ Below(i) # S
      BY <3>1
    <3> HIDE DEF Below
    <3> QED
      BY <1>1, <3>2, FS_Subset
  <2> QED
    BY <2>1, <2>2, <2>3 DEF Rank
<1>3. ASSUME NEW i \in S, NEW j \in S, <<i, j>> \in R
      PROVE  Rank(R, n, i) < Rank(R, n, j)
  <2>1. Below(i) \in SUBSET Below(j) /\ i \in Below(j) /\ i \notin Below(i)
    BY <1>3 DEF IsOrder
  <2> HIDE DEF Below
  <2>2. Cardinality(Below(i)) <= Cardinality(Below(j)) /\ Cardinality(Below(i)) # Cardinality(Below(j))
    BY <1>2, <2>1, FS_Subset
  <2> QED
    BY <1>2, <2>2
<1>4. ASSUME NEW i \in S, NEW j \in S, Rank(R, n, i) < Rank(R, n, j)
      PROVE  <<i, j>> \in R
  <2>1. Rank(R, n, i) \in Int /\ Rank(R, n, j) \in Int
    BY <1>2
  <2>2. i # j /\ ~(Rank(R, n, j) < Rank(R, n, i))
    BY <1>4, <2>1
  <2> QED
    BY <1>3, <2>2 DEF IsOrder
<1>5. \A p \in S : \E i \in S : Rank(R, n, i) = p - 1
  <2> DEFINE f == [i \in S |-> Rank(R, n, i)]
  <2>1. f \in [S -> T]
    BY <1>2
  <2>2. \A i, j \in S : f[i] = f[j] => i = j
    <3> SUFFICES ASSUME NEW i \in S, NEW j \in S, i # j PROVE f[i] # f[j]
      OBVIOUS
    <3>1. Rank(R, n, i) \in Int /\ Rank(R, n, j) \in Int
      BY <1>2
    <3>2. Rank(R, n, i) < Rank(R, n, j) \/ Rank(R, n, j) < Rank(R, n, i)
      BY <1>3 DEF IsOrder
    <3> QED
      BY <3>1, <3>2
  <2>3. \A p \in S : p - 1 \in T
    OBVIOUS
  <2> HIDE DEF f, T
  <2>4. f \in Injection(S, T)
    BY <2>1, <2>2 DEF Injection, IsInjective
  <2>5. f \in Surjection(S, T)
    BY <1>1, <2>4, FS_Injection
  <2>6. \A t \in T : \E i \in S : f[i] = t
    BY <2>5 DEF Surjection
  <2> QED
    BY <2>3, <2>6 DEF f
<1> QED
  BY <1>3, <1>4, <1>5

\* Every unit has a score.
LEMMA ScoreType ==
  ASSUME NEW b \in Batches, NEW i \in 1 .. Len(b.bundles) + Len(b.txs)
  PROVE  CalculateScore(b, i) \in Nat
<1>1. b.bundles \in Seq(BundleData) /\ b.txs \in Seq(TxData) /\ Million \in Nat \ {0}
      /\ Len(b.bundles) \in Nat /\ Len(b.txs) \in Nat
  BY PrioGraphAssumption
<1>2. PriorityScore(b, i) \in Nat /\ ComputeUnits(b, i) \in Nat
  <2>1. CASE i <= Len(b.bundles)
    <3>1. b.bundles[i] \in BundleData
      BY <1>1, <2>1
    <3> QED
      BY <2>1, <3>1, U64IsNat DEF PriorityScore, ComputeUnits, BundleData
  <2>2. CASE ~(i <= Len(b.bundles))
    <3>1. PICK k \in 1 .. Len(b.txs) : k = i - Len(b.bundles)
      <4>1. PICK m \in Nat, n \in Nat : m = Len(b.bundles) /\ n = Len(b.txs)
        BY <1>1
      <4>2. i \in 1 .. m + n /\ ~(i <= m)
        BY <2>2, <4>1
      <4>3. i - m \in 1 .. n
        BY <4>2
      <4> QED
        BY <4>1, <4>3
    <3>2. PICK tx \in TxData : tx = b.txs[k]
      BY <1>1
    <3>3. tx.price \in Nat /\ tx.limit \in Nat
      BY U64IsNat DEF TxData
    <3>4. SaturatingMul(tx.price, tx.limit) \in Nat
      BY <3>3, SaturatingMulRange, U64IsNat
    <3>5. SaturatingMul(tx.price, tx.limit) \div Million \in Nat
      BY <1>1, <3>4, DivRange
    <3> QED
      BY <2>2, <3>1, <3>2, <3>3, <3>5 DEF PriorityScore, ComputeUnits
  <2> QED
    BY <2>1, <2>2
<1>3. CASE ComputeUnits(b, i) = 0
  BY <1>3 DEF CalculateScore
<1>4. CASE ComputeUnits(b, i) # 0
  <2>1. SaturatingMul(PriorityScore(b, i), Million) \in Nat
    BY <1>1, <1>2, SaturatingMulRange, U64IsNat
  <2>2. SaturatingMul(PriorityScore(b, i), Million) \div ComputeUnits(b, i) \in Nat
    BY <1>2, <1>4, <2>1, DivRange
  <2> QED
    BY <1>4, <2>2 DEF CalculateScore
<1> QED
  BY <1>3, <1>4

\* prioritize() returns all units, the higher score first and equal scores in
\* the order of the batch.
LEMMA PrioritizeSorts ==
  ASSUME NEW b \in Batches, NEW n \in Nat, n = Len(b.bundles) + Len(b.txs)
  PROVE  /\ DOMAIN Prioritize(b) = 1 .. n
         /\ \A p \in 1 .. n : Prioritize(b)[p] \in 1 .. n
         /\ \A p, q \in 1 .. n : p < q => RankedBefore(b, Prioritize(b)[p], Prioritize(b)[q])
<1> DEFINE S == 1 .. n
           R == {e \in S \X S : RankedBefore(b, e[1], e[2])}
<1>1. \A i \in S : CalculateScore(b, i) \in Nat
  BY ScoreType
<1>2. \A i, j \in S : <<i, j>> \in R <=> RankedBefore(b, i, j)
  OBVIOUS
<1>3. IsOrder(R, n)
  <2> HIDE DEF R
  <2>1. ASSUME NEW i \in S PROVE ~RankedBefore(b, i, i)
    <3>1. CalculateScore(b, i) \in Nat
      BY <1>1
    <3> QED
      BY <3>1 DEF RankedBefore
  <2>2. ASSUME NEW i \in S, NEW j \in S, i # j PROVE RankedBefore(b, i, j) \/ RankedBefore(b, j, i)
    <3>1. CalculateScore(b, i) \in Nat /\ CalculateScore(b, j) \in Nat
      BY <1>1
    <3> QED
      BY <2>2, <3>1 DEF RankedBefore
  <2>3. ASSUME NEW i \in S, NEW j \in S, NEW k \in S,
               RankedBefore(b, i, j), RankedBefore(b, j, k)
        PROVE  RankedBefore(b, i, k)
    <3>1. /\ CalculateScore(b, i) \in Nat /\ CalculateScore(b, j) \in Nat
          /\ CalculateScore(b, k) \in Nat
      BY <1>1
    <3> QED
      BY <2>3, <3>1 DEF RankedBefore
  <2> QED
    BY <1>2, <2>1, <2>2, <2>3 DEF IsOrder
<1>4. \A i \in S : Rank(R, n, i) = Cardinality({j \in S : RankedBefore(b, j, i)})
  <2> SUFFICES ASSUME NEW i \in S
               PROVE  Rank(R, n, i) = Cardinality({j \in S : RankedBefore(b, j, i)})
    OBVIOUS
  <2>1. {j \in S : <<j, i>> \in R} = {j \in S : RankedBefore(b, j, i)}
    BY <1>2
  <2> QED
    BY <2>1 DEF Rank
<1>5. Prioritize(b) = [p \in S |-> CHOOSE i \in S :
                                    Cardinality({j \in S : RankedBefore(b, j, i)}) = p - 1]
  BY DEF Prioritize
<1> HIDE DEF R
<1>6. \A p \in S : Prioritize(b)[p] \in S /\ Rank(R, n, Prioritize(b)[p]) = p - 1
  <2> SUFFICES ASSUME NEW p \in S
               PROVE  Prioritize(b)[p] \in S /\ Rank(R, n, Prioritize(b)[p]) = p - 1
    OBVIOUS
  <2>1. PICK r \in S : Rank(R, n, r) = p - 1
    BY <1>3, Ranks
  <2>2. PICK c : c = CHOOSE i \in S : Cardinality({j \in S : RankedBefore(b, j, i)}) = p - 1
    OBVIOUS
  <2>3. c \in S /\ Cardinality({j \in S : RankedBefore(b, j, c)}) = p - 1
    BY <1>4, <2>1, <2>2
  <2> QED
    BY <1>4, <1>5, <2>2, <2>3
<1>7. ASSUME NEW p \in S, NEW q \in S, p < q
      PROVE  RankedBefore(b, Prioritize(b)[p], Prioritize(b)[q])
  <2>1. PICK i \in S, j \in S : i = Prioritize(b)[p] /\ j = Prioritize(b)[q]
    BY <1>6
  <2>2. Rank(R, n, i) = p - 1 /\ Rank(R, n, j) = q - 1
    BY <1>6, <2>1
  <2>3. Rank(R, n, i) < Rank(R, n, j)
    <3>1. p - 1 < q - 1
      BY <1>7
    <3> QED
      BY <2>2, <3>1
  <2> QED
    BY <1>2, <1>3, <2>1, <2>3, Ranks
<1> QED
  BY <1>5, <1>6, <1>7

\* The scheduler hands the units out as the prioritizer ranks them, where it
\* tells them apart.
THEOREM OrderIsThePrioritizers == PrioSpec => []OrdersAgree
<1>1. PrioSpec => [](prioritized = Prioritize(batch))
  <2>1. PrioInit => prioritized = Prioritize(batch)
    BY DEF PrioInit
  <2>2. /\ prioritized = Prioritize(batch)
        /\ [Next /\ UNCHANGED <<batch, prioritized>>]_prioVars
        => (prioritized = Prioritize(batch))'
    BY DEF prioVars
  <2> QED
    BY <2>1, <2>2, PTL DEF PrioSpec
<1>2. ASSUME SameBatch, ValuesAgree, IInv, prioritized = Prioritize(batch)
      PROVE  OrdersAgree
  <2> SUFFICES ASSUME spc # "sort", NEW p \in DOMAIN prioritized, NEW q \in DOMAIN prioritized,
                      p < q, nodes[prioritized[p]].priority # nodes[prioritized[q]].priority,
                      ~Unpriced(prioritized[p]), ~Unpriced(prioritized[q])
               PROVE  \E r, s \in DOMAIN sorted :
                        r < s /\ sorted[r] = prioritized[p] /\ sorted[s] = prioritized[q]
    BY DEF OrdersAgree
  <2>1. batch.bundles \in Seq(BundleData) /\ batch.txs \in Seq(TxData)
    BY <1>2, PrioGraphAssumption DEF SameBatch
  <2>2. PICK n \in Nat : n = Len(batch.bundles) + Len(batch.txs)
    <3>1. PICK k \in Nat, m \in Nat : k = Len(batch.bundles) /\ m = Len(batch.txs)
      BY <2>1
    <3>2. k + m \in Nat
      OBVIOUS
    <3> QED
      BY <3>1, <3>2
  <2>3. DOMAIN nodes = 1 .. n
    <3> DEFINE bs == [k \in 1 .. Len(batch.bundles) |-> BundleNode(batch.bundles[k])]
               ts == [k \in 1 .. Len(batch.txs) |-> TxNode(batch.txs[k])]
    <3>1. bs \in Seq(Node) /\ ts \in Seq(Node)
          /\ Len(bs) = Len(batch.bundles) /\ Len(ts) = Len(batch.txs)
      BY <2>1, BundleNodeType, TxNodeType
    <3>2. nodes = bs \o ts
      BY <1>2 DEF SameBatch, NodesOf
    <3> HIDE DEF bs, ts
    <3>3. PICK xs \in Seq(Node), ys \in Seq(Node) : xs = bs /\ ys = ts
      BY <3>1
    <3>4. DOMAIN (xs \o ys) = 1 .. Len(xs) + Len(ys)
      OBVIOUS
    <3> QED
      BY <2>2, <3>1, <3>2, <3>3, <3>4
  <2>4. PICK i \in 1 .. n, j \in 1 .. n : i = prioritized[p] /\ j = prioritized[q]
    BY <1>2, <2>2, PrioritizeSorts DEF SameBatch
  <2>5. RankedBefore(batch, i, j)
    BY <1>2, <2>2, <2>4, PrioritizeSorts DEF SameBatch
  <2>6. nodes[i].priority > nodes[j].priority
    <3>1. nodes[i].priority = CalculateScore(batch, i) /\ nodes[j].priority = CalculateScore(batch, j)
      BY <1>2, <2>3, <2>4 DEF ValuesAgree
    <3> QED
      BY <2>4, <2>5, <3>1 DEF RankedBefore
  <2>7. Sorted = DOMAIN nodes
    BY <1>2, TypeFacts DEF IInv, AssignExact, Unsorted
  <2>8. PICK r \in DOMAIN sorted, s \in DOMAIN sorted : sorted[r] = i /\ sorted[s] = j
    <3>1. i \in Sorted /\ j \in Sorted
      BY <2>3, <2>7
    <3> QED
      BY <3>1 DEF Sorted
  <2>9. ~(s < r) /\ r # s
    <3>1. nodes[i].priority \in Int /\ nodes[j].priority \in Int
      <4>1. nodes[i] \in Node /\ nodes[j] \in Node
        BY <1>2, <2>3 DEF IInv, TypeOK
      <4> QED
        BY <4>1, U64IsNat DEF Node
    <3>2. ~InOrder(j, i)
      BY <2>6, <3>1 DEF InOrder
    <3>3. i # j
      BY <2>6, <3>1
    <3> QED
      BY <1>2, <2>8, <3>2, <3>3 DEF IInv, OrderExact
  <2>10. r \in Nat /\ s \in Nat
    <3>1. DOMAIN sorted \subseteq Nat
      <4>1. sorted \in Seq(DOMAIN nodes)
        BY <1>2 DEF IInv, TypeOK
      <4> QED
        BY <4>1
    <3> QED
      BY <3>1
  <2> QED
    BY <2>4, <2>8, <2>9, <2>10
<1> QED
  BY <1>1, <1>2, BatchStays, PrioritizerAgrees, PrioGraphInvariant, PrioImplementsScheduler, PTL

-----------------------------------------------------------------------------
(* The loads *)

\* A set of natural numbers has a least element.
LEMMA LeastOf ==
  ASSUME NEW S \in SUBSET Nat, S # {}
  PROVE  \E i \in S : \A j \in S : i <= j
<1>1. IsWellFoundedOn(OpToRel(<, Nat), Nat)
  BY NatLessThanWellFounded
<1>2. PICK i \in S : \A j \in S : <<j, i>> \notin OpToRel(<, Nat)
  BY <1>1, WFMin
<1>3. ASSUME NEW j \in S, j < i PROVE FALSE
  BY <1>2, <1>3 DEF OpToRel
<1> QED
  BY <1>3

\* The sums of the first weights.
IsSum(f, g, n) ==
  /\ f \in [0 .. n -> Nat]
  /\ f[0] = 0
  /\ \A k \in 1 .. n : f[k] = f[k - 1] + g[k]

SumsTo(f, g, n, t) == IsSum(f, g, n) /\ f[n] = t

\* Every finite list of naturals has a sum.
LEMMA SumExists ==
  ASSUME NEW n \in Nat, NEW g \in [1 .. n -> Nat]
  PROVE  \E f : IsSum(f, g, n)
<1> DEFINE Bad == {m \in 0 .. n : ~\E f : IsSum(f, g, m)}
<1>1. CASE Bad = {}
  BY <1>1
<1>2. CASE Bad # {}
  <2>1. PICK m \in Bad : \A j \in Bad : m <= j
    <3>1. Bad \in SUBSET Nat
      OBVIOUS
    <3> HIDE DEF Bad
    <3> QED
      BY <1>2, <3>1, LeastOf
  <2>2. m \in 0 .. n /\ ~\E f : IsSum(f, g, m)
    OBVIOUS
  <2>3. m # 0
    <3>1. [k \in 0 .. 0 |-> 0] \in [0 .. 0 -> Nat] /\ 1 .. 0 = {}
      OBVIOUS
    <3>2. IsSum([k \in 0 .. 0 |-> 0], g, 0)
      BY <3>1 DEF IsSum
    <3> QED
      BY <2>2, <3>2
  <2>4. m \in 1 .. n /\ m - 1 \in 0 .. n /\ m - 1 \notin Bad
    <3>1. m \in 1 .. n /\ m - 1 \in 0 .. n /\ ~(m <= m - 1)
      <4> HIDE DEF Bad
      <4> QED
        BY <2>2, <2>3
    <3> HIDE DEF Bad
    <3> QED
      BY <2>1, <3>1
  <2>5. PICK f : IsSum(f, g, m - 1)
    BY <2>4
  <2> DEFINE h == [k \in 0 .. m |-> IF k = m THEN f[m - 1] + g[m] ELSE f[k]]
  <2>6. f \in [0 .. m - 1 -> Nat] /\ g[m] \in Nat /\ f[m - 1] \in Nat
    BY <2>4, <2>5 DEF IsSum
  <2>7. h \in [0 .. m -> Nat] /\ h[0] = 0
    <3>1. \A k \in 0 .. m : k # m => k \in 0 .. m - 1
      BY <2>4
    <3> QED
      BY <2>4, <2>5, <2>6, <3>1 DEF IsSum
  <2>8. ASSUME NEW k \in 1 .. m PROVE h[k] = h[k - 1] + g[k]
    <3>1. CASE k = m
      BY <2>4, <3>1
    <3>2. CASE k # m
      <4>1. k \in 1 .. m - 1 /\ k - 1 # m /\ k \in 0 .. m /\ k - 1 \in 0 .. m
        BY <2>4, <3>2
      <4> QED
        BY <2>5, <3>2, <4>1 DEF IsSum
    <3> QED
      BY <3>1, <3>2
  <2> HIDE DEF h
  <2>9. IsSum(h, g, m)
    BY <2>7, <2>8 DEF IsSum
  <2> QED
    BY <2>2, <2>9
<1> QED
  BY <1>1, <1>2

\* Smaller weights have a smaller sum.
LEMMA SumBelow ==
  ASSUME NEW n \in Nat, NEW f, NEW g, NEW h, NEW k,
         IsSum(f, g, n), IsSum(h, k, n),
         \A i \in 1 .. n : g[i] \in Nat /\ k[i] \in Nat /\ g[i] <= k[i]
  PROVE  f[n] <= h[n]
<1> DEFINE Bad == {m \in 0 .. n : ~(f[m] <= h[m])}
<1>1. CASE Bad = {}
  BY <1>1
<1>2. CASE Bad # {}
  <2>1. PICK m \in Bad : \A j \in Bad : m <= j
    <3>1. Bad \in SUBSET Nat
      OBVIOUS
    <3> HIDE DEF Bad
    <3> QED
      BY <1>2, <3>1, LeastOf
  <2>2. m \in 0 .. n /\ ~(f[m] <= h[m])
    OBVIOUS
  <2>3. m # 0
    BY <2>2 DEF IsSum
  <2>4. m \in 1 .. n /\ m - 1 \in 0 .. n /\ m - 1 \notin Bad
    <3>1. m \in 1 .. n /\ m - 1 \in 0 .. n /\ ~(m <= m - 1)
      <4> HIDE DEF Bad
      <4> QED
        BY <2>2, <2>3
    <3> HIDE DEF Bad
    <3> QED
      BY <2>1, <3>1
  <2>5. f[m - 1] <= h[m - 1]
    BY <2>4
  <2>6. f[m] = f[m - 1] + g[m] /\ h[m] = h[m - 1] + k[m]
    BY <2>4 DEF IsSum
  <2>7. f[m - 1] \in Nat /\ h[m - 1] \in Nat /\ g[m] \in Nat /\ k[m] \in Nat /\ g[m] <= k[m]
    BY <2>4 DEF IsSum
  <2> QED
    BY <2>2, <2>5, <2>6, <2>7
<1> QED
  BY <1>1, <1>2

\* More weight at one place adds to the sum.
LEMMA SumAdds ==
  ASSUME NEW n \in Nat, NEW f, NEW g, NEW h, NEW i \in 1 .. n, NEW d \in Nat,
         IsSum(f, g, n),
         \A k \in 1 .. n : g[k] \in Nat,
         \A k \in 1 .. n : k # i => h[k] = g[k],
         h[i] = g[i] + d
  PROVE  \E s : SumsTo(s, h, n, f[n] + d)
<1> DEFINE e == [k \in 0 .. n |-> IF k < i THEN f[k] ELSE f[k] + d]
<1>1. f \in [0 .. n -> Nat] /\ f[0] = 0 /\ \A k \in 1 .. n : f[k] = f[k - 1] + g[k]
  BY DEF IsSum
<1>2. e \in [0 .. n -> Nat] /\ e[0] = 0
  BY <1>1
<1>3. ASSUME NEW k \in 1 .. n PROVE e[k] = e[k - 1] + h[k]
  <2>1. k \in 0 .. n /\ k - 1 \in 0 .. n
    OBVIOUS
  <2>2. f[k] \in Nat /\ f[k - 1] \in Nat /\ g[k] \in Nat /\ f[k] = f[k - 1] + g[k]
    BY <1>1, <2>1
  <2>3. /\ e[k] = IF k < i THEN f[k] ELSE f[k] + d
        /\ e[k - 1] = IF k - 1 < i THEN f[k - 1] ELSE f[k - 1] + d
    BY <2>1
  <2> HIDE DEF e
  <2> QED
    BY <2>2, <2>3
<1>4. e[n] = f[n] + d
  BY <1>1
<1> HIDE DEF e
<1>5. IsSum(e, h, n)
  BY <1>2, <1>3 DEF IsSum
<1>6. SumsTo(e, h, n, f[n] + d)
  BY <1>4, <1>5 DEF SumsTo
<1> QED
  BY <1>6

\* PriorityUpTo is the sum of the priorities.
LEMMA PrioritiesAddUp ==
  ASSUME TypeOK
  PROVE  IsSum(PriorityUpTo, [i \in DOMAIN nodes |-> nodes[i].priority], Len(nodes))
<1> DEFINE n == Len(nodes)
           g == [i \in DOMAIN nodes |-> nodes[i].priority]
<1>1. n \in Nat /\ DOMAIN nodes = 1 .. n /\ g \in [1 .. n -> Nat]
  BY TypeFacts
<1>2. PICK f : IsSum(f, g, n)
  <2> HIDE DEF g, n
  <2> QED
    BY <1>1, SumExists
<1>3. \A i \in 1 .. n : g[i] = nodes[i].priority
  BY <1>1
<1>4. f = [k \in 0 .. n |-> IF k = 0 THEN 0 ELSE f[k - 1] + nodes[k].priority]
  <2> HIDE DEF g, n
  <2>1. \A k \in 0 .. n : f[k] = IF k = 0 THEN 0 ELSE f[k - 1] + nodes[k].priority
    BY <1>1, <1>2, <1>3 DEF IsSum
  <2> QED
    BY <1>2, <2>1 DEF IsSum
<1>5. PriorityUpTo = [k \in 0 .. n |-> IF k = 0 THEN 0 ELSE PriorityUpTo[k - 1] + nodes[k].priority]
  BY <1>4 DEF PriorityUpTo
<1>6. \A k \in 0 .. n : PriorityUpTo[k] = IF k = 0 THEN 0 ELSE PriorityUpTo[k - 1] + nodes[k].priority
  BY <1>5
<1>7. \A k \in 0 .. n : PriorityUpTo[k] = f[k]
  <2> DEFINE Bad == {k \in 0 .. n : PriorityUpTo[k] # f[k]}
  <2>1. CASE Bad = {}
    BY <2>1
  <2>2. CASE Bad # {}
    <3>1. PICK m \in Bad : \A j \in Bad : m <= j
      <4>1. Bad \in SUBSET Nat
        OBVIOUS
      <4> HIDE DEF Bad
      <4> QED
        BY <2>2, <4>1, LeastOf
    <3>2. m \in 0 .. n /\ PriorityUpTo[m] # f[m]
      OBVIOUS
    <3>3. PICK N \in Nat : N = n
      BY <1>1
    <3>4. m # 0
      BY <1>2, <1>6, <3>2 DEF IsSum
    <3>5. m - 1 \in 0 .. n /\ m - 1 \notin Bad
      <4>1. m - 1 \in 0 .. n /\ ~(m <= m - 1)
        <5> HIDE DEF Bad
        <5> QED
          BY <3>2, <3>3, <3>4
      <4> HIDE DEF Bad
      <4> QED
        BY <3>1, <4>1
    <3>6. PriorityUpTo[m - 1] = f[m - 1]
      BY <3>5
    <3>7. f[m] = IF m = 0 THEN 0 ELSE f[m - 1] + nodes[m].priority
      BY <1>4, <3>2
    <3> QED
      BY <1>6, <3>2, <3>6, <3>7
  <2> QED
    BY <2>1, <2>2
<1>8. PriorityUpTo = f
  BY <1>2, <1>5, <1>7 DEF IsSum
<1> QED
  BY <1>2, <1>8

\* Worker w was given unit k.
GivenTo(k, w) == \E p \in DOMAIN assignments : assignments[p].unit = k /\ assignments[p].worker = w

Weights(w) == [k \in DOMAIN nodes |-> IF GivenTo(k, w) THEN nodes[k].priority ELSE 0]

\* No two units conflict, and no sum of priorities passes the largest u64.
Balanceable ==
  /\ \A i, j \in DOMAIN nodes : ~InConflict(nodes, i, j)
  /\ PriorityUpTo[Len(nodes)] <= U64Max

\* The load of a worker is the sum of the priorities it was given.
LoadsExact == \A w \in Workers : \E f : IsSum(f, Weights(w), Len(nodes)) /\ f[Len(nodes)] = worker_loads[w]

LoadInv == Balanceable => LoadsExact /\ LoadsBalanced

\* No step of a call touches its batch.
LEMMA BalanceableStays ==
  ASSUME nodes' = nodes
  PROVE  Balanceable' <=> Balanceable
BY DEF Balanceable, PriorityUpTo, InConflict

\* No worker has a load at first.
LEMMA InitLoads == Init => LoadInv
<1> SUFFICES ASSUME Init PROVE LoadInv
  OBVIOUS
<1>1. assignments = <<>> /\ DOMAIN assignments = {} /\ worker_loads = [w \in Workers |-> 0]
  BY DEF Init, InitWith
<1>2. PICK n \in Nat : n = Len(nodes) /\ DOMAIN nodes = 1 .. n
  BY InitInv, TypeFacts DEF IInv
<1>3. ASSUME NEW w \in Workers
      PROVE  \E f : IsSum(f, Weights(w), n) /\ f[n] = worker_loads[w]
  <2> DEFINE f == [k \in 0 .. n |-> 0]
  <2>1. \A k \in 1 .. n : Weights(w)[k] = 0
    BY <1>1, <1>2 DEF Weights, GivenTo
  <2>2. IsSum(f, Weights(w), n)
    BY <2>1 DEF IsSum
  <2>3. f[n] = 0
    OBVIOUS
  <2> HIDE DEF f
  <2> QED
    BY <1>1, <2>2, <2>3
<1> QED
  BY <1>1, <1>2, <1>3 DEF LoadInv, LoadsExact, LoadsBalanced

\* Without conflicts every worker is a candidate.
LEMMA AllAreCandidates ==
  ASSUME IInv, Balanceable, Len(assignments) < Len(sorted)
  PROVE  Candidates(NextNode) = Workers
<1> USE DEF IInv
<1>1. PICK k \in Nat : k = Len(assignments) /\ DOMAIN assignments = 1 .. k
  BY DEF TypeOK
<1>2. k + 1 \in DOMAIN sorted /\ NextNode = sorted[k + 1] /\ NextNode \in DOMAIN nodes
  BY <1>1, TypeFacts DEF NextNode, TypeOK
<1>3. ASSUME NEW p \in DOMAIN assignments
      PROVE  /\ assignments[p].unit \in DOMAIN nodes /\ assignments[p].unit # NextNode
             /\ p \in DOMAIN sorted
  <2>1. assignments[p].unit = sorted[p] /\ p # k + 1
    BY <1>1 DEF AssignExact
  <2>2. p \in DOMAIN sorted
    BY <1>1, TypeFacts
  <2>3. sorted[p] \in DOMAIN nodes
    BY <2>2 DEF TypeOK
  <2> QED
    BY <1>2, <2>1, <2>2, <2>3 DEF OrderExact
<1>4. ASSUME NEW w \in Workers PROVE nodes[NextNode].accounts \cap worker_locked[w] = {}
  <2>1. ASSUME NEW p \in DOMAIN assignments
        PROVE  nodes[NextNode].accounts \cap nodes[assignments[p].unit].accounts = {}
    BY <1>2, <1>3 DEF Balanceable, InConflict
  <2>2. worker_locked[w] =
          UNION {nodes[assignments[p].unit].accounts :
                   p \in {r \in DOMAIN assignments : assignments[r].worker = w}}
    BY DEF AssignExact
  <2> QED
    BY <2>1, <2>2
<1> QED
  BY <1>4 DEF Candidates, Available

\* The step that assigns a unit.
LEMMA AssignLoads ==
  ASSUME IInv, Assign, Balanceable, LoadsExact, LoadsBalanced
  PROVE  (LoadsExact /\ LoadsBalanced)'
<1> USE DEF IInv
<1>1. PICK k \in Nat : k = Len(assignments) /\ DOMAIN assignments = 1 .. k
  BY DEF TypeOK
<1>2. PICK i, w : i = NextNode /\ w = LeastLoaded(Candidates(i))
  OBVIOUS
<1>3. /\ UNCHANGED <<worker_count, nodes>> /\ Workers' = Workers
      /\ Workers # {} /\ k < Len(sorted)
      /\ worker_loads' = [worker_loads EXCEPT ![w] = AddLoad(@, nodes[i].priority)]
      /\ assignments' = Append(assignments, [unit |-> i, worker |-> w])
  BY <1>1, <1>2 DEF Assign, Workers
<1>4. /\ w \in Workers /\ \A v \in Workers : worker_loads[w] <= worker_loads[v]
  BY <1>1, <1>2, <1>3, AllAreCandidates, LeastLoadedIn
<1>5. PICK n \in Nat : n = Len(nodes) /\ DOMAIN nodes = 1 .. n
  BY TypeFacts
<1>6. i \in DOMAIN nodes /\ \A p \in DOMAIN assignments : assignments[p].unit # i
  <2>1. k + 1 \in DOMAIN sorted /\ i = sorted[k + 1] /\ i \in DOMAIN nodes
    BY <1>1, <1>2, <1>3, TypeFacts DEF NextNode, TypeOK
  <2>2. ASSUME NEW p \in DOMAIN assignments PROVE assignments[p].unit # i
    <3>1. assignments[p].unit = sorted[p] /\ p # k + 1
      BY <1>1 DEF AssignExact
    <3>2. p \in DOMAIN sorted
      BY <1>1, <1>3, TypeFacts
    <3> QED
      BY <2>1, <3>1, <3>2 DEF OrderExact
  <2> QED
    BY <2>1, <2>2
<1>7. /\ DOMAIN assignments' = 1 .. k + 1
      /\ \A p \in 1 .. k : assignments'[p] = assignments[p]
      /\ assignments'[k + 1].unit = i /\ assignments'[k + 1].worker = w
  <2>1. PICK a : a = [unit |-> i, worker |-> w]
    OBVIOUS
  <2>2. assignments' = Append(assignments, a) /\ a.unit = i /\ a.worker = w
    BY <1>3, <2>1
  <2> QED
    BY <1>1, <2>2 DEF TypeOK
<1>8. \A v \in Workers, j \in DOMAIN nodes :
        GivenTo(j, v)' <=> GivenTo(j, v) \/ (j = i /\ v = w)
  <2>1. \A p : p \in 1 .. k + 1 <=> p \in 1 .. k \/ p = k + 1
    OBVIOUS
  <2> QED
    BY <1>1, <1>7, <2>1 DEF GivenTo
<1>9. PICK d \in Nat : d = nodes[i].priority
  BY <1>6, TypeFacts
<1>10. \A v \in Workers : worker_loads[v] \in Nat /\ worker_loads[v] <= U64Max
  BY U64IsNat DEF TypeOK
<1>11. PICK f : IsSum(f, Weights(w), n) /\ f[n] = worker_loads[w]
  BY <1>4, <1>5 DEF LoadsExact
<1>12. \A j \in 1 .. n : /\ Weights(w)[j] \in Nat
                         /\ Weights(w)'[j] = IF j = i THEN Weights(w)[j] + d ELSE Weights(w)[j]
  <2> SUFFICES ASSUME NEW j \in 1 .. n
               PROVE  /\ Weights(w)[j] \in Nat
                      /\ Weights(w)'[j] = IF j = i THEN Weights(w)[j] + d ELSE Weights(w)[j]
    OBVIOUS
  <2>1. nodes[j].priority \in Nat
    BY <1>5, TypeFacts
  <2>2. /\ Weights(w)[j] = IF GivenTo(j, w) THEN nodes[j].priority ELSE 0
        /\ Weights(w)'[j] = IF GivenTo(j, w)' THEN nodes[j].priority ELSE 0
    BY <1>3, <1>5 DEF Weights
  <2>3. GivenTo(j, w)' <=> GivenTo(j, w) \/ j = i
    BY <1>4, <1>5, <1>8
  <2>4. ~GivenTo(i, w)
    BY <1>6 DEF GivenTo
  <2> QED
    BY <1>9, <2>1, <2>2, <2>3, <2>4
<1>13. PICK h : IsSum(h, Weights(w)', n) /\ h[n] = worker_loads[w] + d
  <2>1. PICK g, e : g = Weights(w) /\ e = Weights(w)'
    OBVIOUS
  <2>2. IsSum(f, g, n) /\ i \in 1 .. n /\ n \in Nat /\ d \in Nat
    BY <1>5, <1>6, <1>11, <2>1
  <2>3. /\ \A j \in 1 .. n : g[j] \in Nat
        /\ \A j \in 1 .. n : j # i => e[j] = g[j]
        /\ e[i] = g[i] + d
    BY <1>12, <2>1, <2>2
  <2>4. PICK h : SumsTo(h, e, n, f[n] + d)
    BY <2>2, <2>3, SumAdds
  <2> QED
    BY <1>11, <2>1, <2>4 DEF SumsTo
<1>14. worker_loads[w] + d <= U64Max
  <2>1. PICK p, g : p = PriorityUpTo /\ g = [j \in DOMAIN nodes |-> nodes[j].priority]
    OBVIOUS
  <2>2. IsSum(p, g, n) /\ p[n] <= U64Max
    BY <1>5, <2>1, PrioritiesAddUp DEF Balanceable
  <2>3. ASSUME NEW j \in 1 .. n
        PROVE  Weights(w)'[j] \in Nat /\ g[j] \in Nat /\ Weights(w)'[j] <= g[j]
    <3>1. nodes[j].priority \in Nat /\ g[j] = nodes[j].priority
      BY <1>5, <2>1, TypeFacts
    <3>2. Weights(w)'[j] = IF GivenTo(j, w)' THEN nodes[j].priority ELSE 0
      BY <1>3, <1>5 DEF Weights
    <3> QED
      BY <3>1, <3>2
  <2>4. PICK q : q = Weights(w)'
    OBVIOUS
  <2>5. h[n] <= p[n]
    BY <1>13, <2>2, <2>3, <2>4, SumBelow
  <2>6. p[n] \in Nat /\ U64Max \in Nat
    BY <2>2, PrioGraphAssumption DEF IsSum
  <2> QED
    BY <1>4, <1>10, <1>13, <2>2, <2>5, <2>6
<1>15. /\ worker_loads'[w] = worker_loads[w] + d
       /\ \A v \in Workers \ {w} : worker_loads'[v] = worker_loads[v]
  <2>1. AddLoad(worker_loads[w], d) = worker_loads[w] + d
    <3>1. PICK x \in Nat, u \in Nat : x = worker_loads[w] + d /\ u = U64Max
      BY <1>4, <1>10, PrioGraphAssumption
    <3>2. x \in Nat /\ x <= u
      BY <1>4, <1>10, <1>14, <3>1
    <3>3. x % (u + 1) = x
      BY <3>2
    <3> QED
      BY <3>1, <3>3 DEF AddLoad
  <2> QED
    BY <1>3, <1>4, <1>9, <2>1 DEF TypeOK
<1>16. LoadsExact'
  <2>1. ASSUME NEW v \in Workers
        PROVE  \E e : IsSum(e, Weights(v)', n) /\ e[n] = worker_loads'[v]
    <3>1. CASE v = w
      BY <1>13, <1>15, <3>1
    <3>2. CASE v # w
      <4>1. Weights(v)' = Weights(v)
        BY <1>3, <1>8, <3>2 DEF Weights
      <4> QED
        BY <1>5, <1>15, <3>2, <4>1 DEF LoadsExact
    <3> QED
      BY <3>1, <3>2
  <2> QED
    BY <1>3, <1>5, <2>1 DEF LoadsExact
<1>17. \A q \in DOMAIN assignments : assignments[q] \in [unit : DOMAIN nodes, worker : Workers]
  <2>1. PICK T : T = [unit : DOMAIN nodes, worker : Workers]
    OBVIOUS
  <2>2. assignments \in Seq(T)
    BY <2>1 DEF TypeOK
  <2>3. \A q \in DOMAIN assignments : assignments[q] \in T
    BY <2>2
  <2> QED
    BY <2>1, <2>3
<1>18. ASSUME NEW q \in DOMAIN assignments',
              \A r \in DOMAIN assignments' : assignments'[r].worker = assignments'[q].worker => r <= q,
              NEW x \in Workers
       PROVE  worker_loads'[assignments'[q].worker]
                <= worker_loads'[x] + nodes'[assignments'[q].unit].priority
  <2>1. /\ worker_loads[x] \in Nat /\ worker_loads[w] \in Nat /\ worker_loads'[x] \in Nat
        /\ worker_loads[x] <= worker_loads'[x] /\ worker_loads[w] <= worker_loads[x]
    BY <1>4, <1>10, <1>15
  <2>2. CASE q = k + 1
    <3>1. assignments'[q].worker = w /\ nodes'[assignments'[q].unit].priority = d
      BY <1>3, <1>7, <1>9, <2>2
    <3> QED
      BY <1>15, <2>1, <3>1
  <2>3. CASE q # k + 1
    <3>1. q \in DOMAIN assignments /\ assignments'[q] = assignments[q] /\ q \in 1 .. k
      BY <1>1, <1>7, <2>3
    <3>2. assignments[q].worker # w
      <4>1. k + 1 \in DOMAIN assignments' /\ ~(k + 1 <= q)
        BY <1>7, <3>1
      <4> QED
        BY <1>7, <1>18, <3>1, <4>1
    <3>3. PICK v \in Workers : v = assignments[q].worker
      <4>1. assignments[q] \in [unit : DOMAIN nodes, worker : Workers]
        BY <1>17, <3>1
      <4> QED
        BY <4>1
    <3>4. \A r \in DOMAIN assignments : assignments[r].worker = v => r <= q
      <4>1. ASSUME NEW r \in DOMAIN assignments PROVE r \in DOMAIN assignments' /\ assignments'[r] = assignments[r]
        BY <1>1, <1>7
      <4> QED
        BY <1>18, <3>1, <3>3, <4>1
    <3>5. worker_loads[v] <= worker_loads[x] + nodes[assignments[q].unit].priority
      BY <3>1, <3>3, <3>4 DEF LoadsBalanced, Balanceable
    <3>6. nodes[assignments[q].unit].priority \in Nat
      <4>1. assignments[q] \in [unit : DOMAIN nodes, worker : Workers]
        BY <1>17, <3>1
      <4>2. assignments[q].unit \in DOMAIN nodes
        BY <4>1
      <4> QED
        BY <4>2, TypeFacts
    <3>7. worker_loads'[v] = worker_loads[v] /\ worker_loads[v] \in Nat
      BY <1>10, <1>15, <3>2, <3>3
    <3> QED
      BY <1>3, <2>1, <3>1, <3>3, <3>5, <3>6, <3>7
  <2> QED
    BY <2>2, <2>3
<1>19. LoadsBalanced'
  BY <1>3, <1>18 DEF LoadsBalanced
<1> QED
  BY <1>16, <1>19

\* Without conflicts and overflow no worker is ahead of another by more than its
\* last unit (assign_workers).
THEOREM LoadsAreBalanced == Spec => []LoadsBalanced
<1>1. IInv /\ LoadInv /\ [Next]_vars => LoadInv'
  <2> SUFFICES ASSUME IInv, LoadInv, [Next]_vars, Balanceable' PROVE (LoadsExact /\ LoadsBalanced)'
    BY DEF LoadInv
  <2>1. nodes' = nodes
    BY DEF Next, Pop, EndSort, Assign, Panic, Return, Terminated, vars
  <2>2. Balanceable /\ LoadsExact /\ LoadsBalanced
    BY <2>1, BalanceableStays DEF LoadInv
  <2>3. CASE Assign
    BY <2>2, <2>3, AssignLoads
  <2>4. CASE UNCHANGED <<nodes, assignments, worker_loads, worker_count>>
    <3>1. LoadsExact'
      BY <2>2, <2>4 DEF LoadsExact, Weights, GivenTo, Workers
    <3>2. LoadsBalanced'
      BY <2>2, <2>4 DEF LoadsBalanced, Balanceable, Workers
    <3> QED
      BY <3>1, <3>2
  <2> QED
    BY <2>3, <2>4 DEF Next, Pop, EndSort, Panic, Return, Terminated, vars
<1>2. LoadInv => LoadsBalanced
  BY DEF LoadInv, Balanceable, LoadsBalanced
<1> QED
  BY <1>1, <1>2, InitLoads, PrioGraphInvariant, PTL DEF Spec

=============================================================================
