----------------------------- MODULE PrioGraph -----------------------------
(***************************************************************************)
(* One call of schedule() of the PrioGraphScheduler (scheduler/src/        *)
(* priograph.rs): a graph of the conflicts in a batch, whose edges go from *)
(* the more to the less valuable unit; its topological order, taken from a *)
(* heap; and the assignment of the units to workers in that order.         *)
(***************************************************************************)
EXTENDS Integers, Sequences, FiniteSets

CONSTANTS
  WorkerCounts, \* the numbers of workers a scheduler is made for
  Accounts,     \* account keys
  Batches,      \* the batches submitted: [bundles, txs], two sequences
  U64Max,       \* the largest u64
  Million       \* the factor 1_000_000 of the fee arithmetic

U64 == 0 .. U64Max

BundleData == [tip : U64, cu : U64, accounts : SUBSET Accounts]
TxData     == [price : U64, limit : U64, accounts : SUBSET Accounts]

ASSUME PrioGraphAssumption ==
  /\ WorkerCounts \subseteq Nat
  /\ U64Max \in Nat
  /\ Million \in Nat \ {0}
  /\ Batches \subseteq [bundles : Seq(BundleData), txs : Seq(TxData)]

VARIABLES
  worker_count,   \* the field of the scheduler
  nodes,          \* the units of the batch, bundles first
  in_degree,      \* in_degree[i]: the edges into i from units not sorted yet
  heap,           \* the units with no such edge
  sorted,         \* the units taken from the heap, in that order
  worker_locked,  \* worker_locked[w]: the accounts of the units given to w
  worker_loads,   \* worker_loads[w]: the priorities of the units given to w
  assignments,    \* the answer so far: Seq([unit, worker])
  spc             \* where the call is

Workers == 0 .. worker_count - 1

vars == <<worker_count, nodes, in_degree, heap, sorted, worker_locked,
          worker_loads, assignments, spc>>

-----------------------------------------------------------------------------
(* build_priority_graph *)

SaturatingMul(x, y) == IF x * y > U64Max THEN U64Max ELSE x * y
AtLeastOne(n) == IF n = 0 THEN 1 ELSE n

Node == [priority : U64, accounts : SUBSET Accounts, is_bundle : BOOLEAN]

BundleNode(b) ==
  [priority  |-> SaturatingMul(b.tip, Million) \div AtLeastOne(b.cu),
   accounts  |-> b.accounts,
   is_bundle |-> TRUE]

TxNode(t) ==
  LET fee == SaturatingMul(t.price, t.limit) \div Million
  IN [priority  |-> SaturatingMul(fee, Million) \div AtLeastOne(t.limit),
      accounts  |-> t.accounts,
      is_bundle |-> FALSE]

NodesOf(b) ==
  [i \in 1 .. Len(b.bundles) |-> BundleNode(b.bundles[i])] \o
  [i \in 1 .. Len(b.txs) |-> TxNode(b.txs[i])]

InConflict(ns, i, j) == i # j /\ ns[i].accounts \cap ns[j].accounts # {}

\* Mutations of Better and Edge: the order of the batch alone; edges both ways.
BetterByIndex(ns, i, j) == i < j

\* i is to come before j if it can: it is worth more, or as much and earlier
\* in the batch.
Better(ns, i, j) ==
  \/ ns[i].priority > ns[j].priority
  \/ ns[i].priority = ns[j].priority /\ i < j

EdgeBothWays(ns, i, j) == InConflict(ns, i, j)

\* The edge i -> j of the graph.
Edge(ns, i, j) == InConflict(ns, i, j) /\ Better(ns, i, j)

-----------------------------------------------------------------------------

\* A call of schedule() with this batch has built its graph.
InitWith(b) ==
  /\ worker_count \in WorkerCounts
  /\ nodes = NodesOf(b)
  /\ in_degree = [i \in DOMAIN nodes |->
                    Cardinality({j \in DOMAIN nodes : Edge(nodes, j, i)})]
  /\ heap = {i \in DOMAIN nodes : in_degree[i] = 0}
  /\ sorted = <<>>
  /\ worker_locked = [w \in Workers |-> {}]
  /\ worker_loads = [w \in Workers |-> 0]
  /\ assignments = <<>>
  /\ spc = "sort"

Init == \E b \in Batches : InitWith(b)

\* topological_sort pops a unit of the highest priority in the heap; which of
\* several, the heap decides.
Pop(i) ==
  /\ spc = "sort"
  /\ i \in heap
  /\ \A j \in heap : nodes[j].priority <= nodes[i].priority
  /\ sorted' = Append(sorted, i)
  /\ in_degree' = [j \in DOMAIN nodes |->
                     in_degree[j] - (IF Edge(nodes, i, j) THEN 1 ELSE 0)]
  /\ heap' = (heap \ {i}) \cup
             {j \in DOMAIN nodes : Edge(nodes, i, j) /\ in_degree[j] = 1}
  /\ UNCHANGED <<worker_count, nodes, worker_locked, worker_loads, assignments, spc>>

EndSort ==
  /\ spc = "sort"
  /\ heap = {}
  /\ spc' = "assign"
  /\ UNCHANGED <<worker_count, nodes, in_degree, heap, sorted, worker_locked,
                 worker_loads, assignments>>

\* assign_workers: the next unit of the order,
NextNode == sorted[Len(assignments) + 1]

Available(i) == {w \in Workers : nodes[i].accounts \cap worker_locked[w] = {}}

\* Mutations of Candidates and LeastLoaded: locked accounts are not looked at;
\* the first worker is taken.
AllCandidates(i) == Workers

FirstWorker(ws) == CHOOSE w \in ws : \A v \in ws : w <= v

\* goes to the first of the least loaded among the workers that hold none of
\* its accounts, or among all of them when there is none.
Candidates(i) == IF Available(i) # {} THEN Available(i) ELSE Workers

LeastLoaded(ws) ==
  CHOOSE w \in ws :
    \A v \in ws : \/ worker_loads[w] < worker_loads[v]
                  \/ worker_loads[w] = worker_loads[v] /\ w <= v

\* The sum of two u64: past the largest, it wraps in a build without overflow
\* checks and panics in one with them.
AddLoad(x, y) == (x + y) % (U64Max + 1)

Assign ==
  /\ spc = "assign"
  /\ Len(assignments) < Len(sorted)
  /\ Workers # {}
  /\ LET i == NextNode
         w == LeastLoaded(Candidates(i))
     IN /\ worker_locked' = [worker_locked EXCEPT ![w] = @ \cup nodes[i].accounts]
        /\ worker_loads' = [worker_loads EXCEPT ![w] = AddLoad(@, nodes[i].priority)]
        /\ assignments' = Append(assignments, [unit |-> i, worker |-> w])
  /\ UNCHANGED <<worker_count, nodes, in_degree, heap, sorted, spc>>

\* The loop panics at its first unit when there is no worker (worker 0 is
\* indexed), and at a sum past the largest u64.
Panic ==
  /\ spc = "assign"
  /\ Len(assignments) < Len(sorted)
  /\ \/ Workers = {}
     \/ /\ Workers # {}
        /\ LET w == LeastLoaded(Candidates(NextNode))
           IN worker_loads[w] + nodes[NextNode].priority > U64Max
  /\ spc' = "panicked"
  /\ UNCHANGED <<worker_count, nodes, in_degree, heap, sorted, worker_locked,
                 worker_loads, assignments>>

Return ==
  /\ spc = "assign"
  /\ Len(assignments) = Len(sorted)
  /\ spc' = "done"
  /\ UNCHANGED <<worker_count, nodes, in_degree, heap, sorted, worker_locked,
                 worker_loads, assignments>>

Terminated == spc \in {"done", "panicked"} /\ UNCHANGED vars

Next ==
  \/ \E i \in DOMAIN nodes : Pop(i)
  \/ EndSort
  \/ Assign
  \/ Panic
  \/ Return
  \/ Terminated

Spec == Init /\ [][Next]_vars

-----------------------------------------------------------------------------

\* Every variable has its type, and every index is one of a unit of the batch
\* and of a worker: no access of the code is out of bounds while there are
\* workers.
TypeOK ==
  /\ worker_count \in Nat
  /\ nodes \in Seq(Node)
  /\ in_degree \in [DOMAIN nodes -> Nat]
  /\ heap \in SUBSET DOMAIN nodes
  /\ sorted \in Seq(DOMAIN nodes)
  /\ worker_locked \in [Workers -> SUBSET Accounts]
  /\ worker_loads \in [Workers -> U64]
  /\ assignments \in Seq([unit : DOMAIN nodes, worker : Workers])
  /\ spc \in {"sort", "assign", "done", "panicked"}

\* The order is by priority over the whole batch, although the graph orders
\* only units that conflict: an edge never holds a unit back behind one that is
\* worth less.  Of two conflicting units worth the same, the earlier in the
\* batch is first ("Should be ordered by priority", priograph.rs:383).
BestFirst ==
  \A p, q \in DOMAIN sorted :
    p < q => LET i == sorted[p]
                 j == sorted[q]
             IN \/ nodes[i].priority > nodes[j].priority
                \/ /\ nodes[i].priority = nodes[j].priority
                   /\ InConflict(nodes, i, j) => i < j

\* The graph has no cycle and the answer no gap: the sort ends with every unit
\* in the order, each once, and the call returns with every unit assigned.
EveryUnitOnce ==
  /\ \A p, q \in DOMAIN sorted : sorted[p] = sorted[q] => p = q
  /\ spc # "sort" => {sorted[p] : p \in DOMAIN sorted} = DOMAIN nodes
  /\ spc = "done" => [p \in DOMAIN assignments |-> assignments[p].unit] = sorted

\* Two conflicting units share a worker only when every worker already had a
\* unit that conflicts with the later one.
ConflictsSpread ==
  \A p, q \in DOMAIN assignments :
    /\ p < q
    /\ assignments[p].worker = assignments[q].worker
    /\ InConflict(nodes, assignments[p].unit, assignments[q].unit)
    => \A w \in Workers :
         \E r \in DOMAIN assignments :
           /\ r < q
           /\ assignments[r].worker = w
           /\ InConflict(nodes, assignments[r].unit, assignments[q].unit)

PriorityUpTo[n \in 0 .. Len(nodes)] ==
  IF n = 0 THEN 0 ELSE PriorityUpTo[n - 1] + nodes[n].priority

\* Without conflicts the load is balanced as well as a list schedule can: no
\* worker is ahead of another by more than its own last unit.  (Past the
\* largest u64 the loads wrap and say nothing.)
LoadsBalanced ==
  /\ \A i, j \in DOMAIN nodes : ~InConflict(nodes, i, j)
  /\ PriorityUpTo[Len(nodes)] <= U64Max
  => \A q \in DOMAIN assignments :
       LET v == assignments[q].worker
       IN (\A r \in DOMAIN assignments : assignments[r].worker = v => r <= q)
          => \A w \in Workers :
               worker_loads[v] <= worker_loads[w] + nodes[assignments[q].unit].priority
=============================================================================
