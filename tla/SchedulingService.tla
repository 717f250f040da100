------------------------- MODULE SchedulingService -------------------------
(***************************************************************************)
(* What a caller of the external scheduler may rely on: a request is       *)
(* answered or fails, once, and an answer places every item of its own     *)
(* request on an existing worker, two conflicting items on different ones  *)
(* while a worker is free of conflicts.  ExternalScheduler, the client and *)
(* the server of the repository together, is shown to implement it.        *)
(***************************************************************************)
EXTENDS Integers, Sequences

CONSTANTS
  Ids,         \* request ids
  Batches,     \* the sequences of items that may be submitted
  WorkerCount  \* the number of workers of the engine

VARIABLES request  \* request[n]: phase, items and assignments of request n

New == [phase |-> "new", items |-> <<>>, assignments |-> <<>>]

\* An item that shares an account with one before it on its worker had no
\* worker without such an item to go to.
Spread(items, assignments) ==
  \A i, j \in DOMAIN items :
    /\ i < j
    /\ items[i].accounts \cap items[j].accounts # {}
    /\ assignments[i].worker = assignments[j].worker
    => \A w \in 0 .. WorkerCount - 1 : \E k \in 1 .. j - 1 :
         /\ assignments[k].worker = w
         /\ items[k].accounts \cap items[j].accounts # {}

\* One assignment per item, in the order of the items, each to an existing
\* worker, no item named twice; an engine without workers gets none.
ValidAnswer(items, assignments) ==
  IF WorkerCount = 0 THEN assignments = <<>>
  ELSE /\ DOMAIN assignments = DOMAIN items
       /\ \A i \in DOMAIN items :
            /\ assignments[i].unit = items[i].id
            /\ assignments[i].worker \in 0 .. WorkerCount - 1
            /\ \A j \in DOMAIN items : items[i].id = items[j].id => i = j
       /\ Spread(items, assignments)

Init == request = [n \in Ids |-> New]

Submit(n, items) ==
  /\ request[n].phase = "new"
  /\ request' = [request EXCEPT ![n] = [New EXCEPT !.phase = "open", !.items = items]]

Answer(n) ==
  /\ request[n].phase = "open"
  /\ request'[n].phase = "answered"
  /\ request'[n].items = request[n].items
  /\ ValidAnswer(request[n].items, request'[n].assignments)
  /\ request' = [request EXCEPT ![n] = request'[n]]

Fail(n) ==
  /\ request[n].phase = "open"
  /\ request' = [request EXCEPT ![n].phase = "failed"]

Next ==
  \E n \in Ids :
    \/ \E items \in Batches : Submit(n, items)
    \/ Answer(n)
    \/ Fail(n)

Spec == Init /\ [][Next]_request
=============================================================================
