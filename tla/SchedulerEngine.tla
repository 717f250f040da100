--------------------------- MODULE SchedulerEngine ---------------------------
(***************************************************************************)
(* SchedulerEngine without an external scheduler (engine/src/              *)
(* scheduler_engine.rs): schedule() rebuilds bundles and transactions from *)
(* the items it is given and hands them to the AdaptiveScheduler.          *)
(* With an external scheduler it passes the items on as they are: that is  *)
(* module ExternalScheduler.                                               *)
(***************************************************************************)
EXTENDS AdaptiveScheduler

CONSTANTS
  Requests,  \* the batches of items the pipeline asks to schedule
  Printed,   \* Printed[id]: for an id that reads as a u64, that number printed
  Zero       \* the id "0"

ASSUME IdsAssumption ==
  /\ DOMAIN Printed \subseteq Ids
  /\ Printed \in [DOMAIN Printed -> Ids]
  /\ Zero \in Ids

\* The priority of a transaction is not kept by the conversion, nor needed here.
ExecutionUnitData ==
  [kind : {"bundle", "transaction"}, item : Items, id : Ids, accounts : SUBSET Accounts]

VARIABLE items  \* items[c]: the items of the call of caller c

engineVars == <<vars, items>>

EngineInit == Init /\ items = [c \in Callers |-> <<>>]

\* The items of one kind, in their order.
OfKind(request, kind) ==
  LET upTo[n \in 0 .. Len(request)] ==
        IF n = 0 THEN <<>>
        ELSE IF request[n].kind = kind THEN Append(upTo[n - 1], request[n])
             ELSE upTo[n - 1]
  IN  upTo[Len(request)]

\* What a bundle is called in the answer: its id is parsed as a number, 0 if it
\* is none, and the schedulers print the number.
BundleId(id) == IF id \in DOMAIN Printed THEN Printed[id] ELSE Zero

\* A bundle is rebuilt without transactions and so without accounts.
RebuiltBundle(data) == [item |-> data.item, id |-> BundleId(data.id), accounts |-> {}]

\* A transaction keeps its accounts, all of them writable now.
RebuiltTransaction(data) == [item |-> data.item, id |-> data.id, accounts |-> data.accounts]

\* Mutation of ConvertExecutionUnits: of the bundles with one number only the
\* last is kept, as a map from numbers to bundles would.
ConvertKeepingLastBundle(request) ==
  LET bundles      == OfKind(request, "bundle")
      transactions == OfKind(request, "transaction")
      last         == IF bundles = <<>> THEN <<>> ELSE <<RebuiltBundle(bundles[Len(bundles)])>>
  IN  last \o [i \in DOMAIN transactions |-> RebuiltTransaction(transactions[i])]

\* Bundles and transactions are told apart and keep their order, the bundles
\* first.
ConvertExecutionUnits(request) ==
  LET bundles      == OfKind(request, "bundle")
      transactions == OfKind(request, "transaction")
  IN  [i \in DOMAIN bundles |-> RebuiltBundle(bundles[i])]
      \o [i \in DOMAIN transactions |-> RebuiltTransaction(transactions[i])]

ASSUME RequestsAssumption ==
  /\ Requests \subseteq Seq(ExecutionUnitData)
  /\ \A request \in Requests : ConvertExecutionUnits(request) \in Batches

Schedule(c, request) ==
  /\ UpdatePending(c, ConvertExecutionUnits(request))
  /\ items' = [items EXCEPT ![c] = request]

EngineNext ==
  \E c \in Callers :
    \/ \E request \in Requests : Schedule(c, request)
    \/ /\ \/ ChooseScheduler(c)
          \/ PrioSchedule(c)
          \/ ScheduleUnit(c)
          \/ LeaveOut(c)
          \/ EndGreedy(c)
          \/ BatchCompletes(c)
       /\ UNCHANGED items

EngineSpec == EngineInit /\ [][EngineNext]_engineVars

-----------------------------------------------------------------------------

Answered(c) == {x.unit : x \in answer[c]}

\* Once schedule() is over, the answer and what was left out are made of the
\* items it was asked for, and every item is there: no bundle is ever left out,
\* and the answer names it by the number read from its id, 0 if there is none;
\* a transaction comes under its own id and is judged by its own accounts,
\* whichever of the two schedulers was chosen by whatever load the callers
\* stored.
AnswerCovers ==
  \A c \in Callers : cpc[c] = "running" =>
    /\ \A u \in Answered(c) \cup left_out[c] :
         \E i \in DOMAIN items[c] : items[c][i].item = u.item
    /\ \A i \in DOMAIN items[c] :
         /\ items[c][i].kind = "bundle" =>
              \E u \in Answered(c) :
                u.item = items[c][i].item /\ u.id = BundleId(items[c][i].id)
         /\ items[c][i].kind = "transaction" =>
              \E u \in Answered(c) \cup left_out[c] :
                /\ u.item = items[c][i].item
                /\ u.id = items[c][i].id
                /\ u.accounts = items[c][i].accounts
=============================================================================
