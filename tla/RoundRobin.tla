----------------------------- MODULE RoundRobin -----------------------------
(***************************************************************************)
(* RoundRobinScheduler of scheduler-external/src/round_robin.rs: the       *)
(* scheduling function of the external scheduler.  Its only state between  *)
(* calls is next_worker, which the server keeps per connection.            *)
(***************************************************************************)
EXTENDS Integers, Sequences, FiniteSets

CONSTANTS WorkerCount  \* worker_count, the same in every request of an engine

ASSUME WorkerCountAssumption == WorkerCount \in Nat

Workers == 0 .. WorkerCount - 1

\* Mutation of ChooseWorker: always the next in turn.
ChooseInTurn(free, turn) == turn

\* The first free worker, searched from worker 0, or if all have conflicts the
\* next in turn.
ChooseWorker(free, turn) ==
  IF free = {} THEN turn ELSE CHOOSE w \in free : \A v \in free : w <= v

\* Where item i goes, given where those before it went.  A worker is free for it
\* if none of the items of this request it has so far shares an account with it.
\* next_worker is taken modulo worker_count, which is how it is used.
Placed(place, items, i, next_worker) ==
  LET before == 1 .. i - 1
      free   == {w \in Workers : \A j \in before :
                   items[j].accounts \cap items[i].accounts # {} => place[j].worker # w}
      turn   == next_worker + Cardinality({j \in before : place[j].fallback})
  IN  [worker   |-> ChooseWorker(free, turn % WorkerCount),
       fallback |-> free = {}]

\* Where the items go, one after the other.
Placement(items, next_worker) ==
  LET place[i \in DOMAIN items] == Placed(place, items, i, next_worker)
  IN  place

\* schedule(items, worker_count): the assignments, and next_worker afterwards.
Schedule(items, next_worker) ==
  LET place == Placement(items, next_worker)
      falls == Cardinality({i \in DOMAIN items : place[i].fallback})
  IN  IF WorkerCount = 0 THEN [assignments |-> <<>>, next_worker |-> next_worker]
      ELSE [assignments |-> [i \in DOMAIN items |->
                               [unit |-> items[i].id, worker |-> place[i].worker]],
            next_worker |-> (next_worker + falls) % WorkerCount]
=============================================================================
