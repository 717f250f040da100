------------------------- MODULE AdaptiveScheduler -------------------------
(***************************************************************************)
(* The internal scheduler of the engine: AdaptiveScheduler (scheduler/src/ *)
(* adaptive.rs) chooses by the load monitor (load_monitor.rs) between the  *)
(* GreedyScheduler (greedy.rs), which keeps the accounts it ever gave to   *)
(* each worker, and the PrioGraphScheduler, which keeps nothing.  Several  *)
(* callers share it, as the callers of process_batch do.                   *)
(*                                                                         *)
(* The greedy scheduler sits in a private field, so its reset() and        *)
(* release_accounts() cannot be called here, and nothing calls them.       *)
(***************************************************************************)
EXTENDS Integers, Sequences, FiniteSets

CONSTANTS
  WorkerCount,   \* worker_count
  Accounts,      \* account keys
  Items,         \* the items the units are made of, told apart whatever their ids
  Ids,           \* ids of units: nothing keeps two units from having the same
  Callers,       \* the tasks that share the scheduler
  Batches,       \* the batches: sequences of units, bundles first
  HighThreshold  \* more items than this are given to the greedy scheduler

Workers == 0 .. WorkerCount - 1
Unit    == [item : Items, id : Ids, accounts : SUBSET Accounts]

ASSUME AdaptiveAssumption ==
  /\ WorkerCount \in Nat \ {0}
  /\ HighThreshold \in Nat
  /\ Batches \subseteq Seq(Unit)

VARIABLES
  worker_states,  \* worker_states[w]: locked_accounts of worker w
  pending_count,  \* the count of the load monitor
  cpc,            \* cpc[c]: where caller c is
  todo,           \* todo[c]: the units of its batch not yet scheduled
  answer,         \* answer[c]: the assignments so far
  left_out,       \* left_out[c]: the units the greedy scheduler passed over
  submitted,      \* the batches submitted so far, each of them once
  given           \* history: every assignment of the greedy scheduler

vars == <<worker_states, pending_count, cpc, todo, answer, left_out, submitted, given>>

Assignment == [unit : Unit, worker : Workers]

Init ==
  /\ worker_states = [w \in Workers |-> {}]
  /\ pending_count = 0
  /\ cpc = [c \in Callers |-> "idle"]
  /\ todo = [c \in Callers |-> <<>>]
  /\ answer = [c \in Callers |-> {}]
  /\ left_out = [c \in Callers |-> {}]
  /\ submitted = {}
  /\ given = {}

-----------------------------------------------------------------------------

\* schedule() stores the size of the batch in the shared count,
UpdatePending(c, b) ==
  /\ cpc[c] = "idle"
  /\ b \notin submitted
  /\ submitted' = submitted \cup {b}
  /\ pending_count' = Len(b)
  /\ todo' = [todo EXCEPT ![c] = b]
  /\ answer' = [answer EXCEPT ![c] = {}]
  /\ left_out' = [left_out EXCEPT ![c] = {}]
  /\ cpc' = [cpc EXCEPT ![c] = "choose"]
  /\ UNCHANGED <<worker_states, given>>

\* and loads the count again to choose a scheduler.
ChooseScheduler(c) ==
  /\ cpc[c] = "choose"
  /\ cpc' = [cpc EXCEPT ![c] = IF pending_count > HighThreshold THEN "greedy" ELSE "prio"]
  /\ UNCHANGED <<worker_states, pending_count, todo, answer, left_out, submitted, given>>

\* The priority graph assigns every unit (module PrioGraph); here to any worker.
PrioSchedule(c) ==
  /\ cpc[c] = "prio"
  /\ \E place \in [DOMAIN todo[c] -> Workers] :
       answer' = [answer EXCEPT ![c] =
                    {[unit |-> todo[c][i], worker |-> place[i]] : i \in DOMAIN todo[c]}]
  /\ todo' = [todo EXCEPT ![c] = <<>>]
  /\ cpc' = [cpc EXCEPT ![c] = "running"]
  /\ UNCHANGED <<worker_states, pending_count, left_out, submitted, given>>

-----------------------------------------------------------------------------
(* GreedyScheduler: worker_states is locked for one unit at a time. *)

Available(u) == {w \in Workers : u.accounts \cap worker_states[w] = {}}

\* Mutation of ScheduleUnit: the accounts replace those of the units before.
ScheduleUnitForgetting(c) ==
  /\ cpc[c] = "greedy"
  /\ todo[c] # <<>>
  /\ \E w \in Available(Head(todo[c])) :
       /\ \A v \in Available(Head(todo[c])) : w <= v
       /\ worker_states' = [worker_states EXCEPT ![w] = Head(todo[c]).accounts]
       /\ answer' = [answer EXCEPT ![c] = @ \cup {[unit |-> Head(todo[c]), worker |-> w]}]
       /\ given' = given \cup {[unit |-> Head(todo[c]), worker |-> w]}
  /\ todo' = [todo EXCEPT ![c] = Tail(@)]
  /\ UNCHANGED <<pending_count, cpc, left_out, submitted>>

\* The next unit goes to the first worker that was given none of its accounts,
\* which keeps them,
ScheduleUnit(c) ==
  /\ cpc[c] = "greedy"
  /\ todo[c] # <<>>
  /\ \E w \in Available(Head(todo[c])) :
       /\ \A v \in Available(Head(todo[c])) : w <= v
       /\ worker_states' = [worker_states EXCEPT ![w] = @ \cup Head(todo[c]).accounts]
       /\ answer' = [answer EXCEPT ![c] = @ \cup {[unit |-> Head(todo[c]), worker |-> w]}]
       /\ given' = given \cup {[unit |-> Head(todo[c]), worker |-> w]}
  /\ todo' = [todo EXCEPT ![c] = Tail(@)]
  /\ UNCHANGED <<pending_count, cpc, left_out, submitted>>

\* Mutation of LeaveOut: one worker that cannot take the unit is enough.
LeaveOutEarly(c) ==
  /\ cpc[c] = "greedy"
  /\ todo[c] # <<>>
  /\ Available(Head(todo[c])) # Workers
  /\ left_out' = [left_out EXCEPT ![c] = @ \cup {Head(todo[c])}]
  /\ todo' = [todo EXCEPT ![c] = Tail(@)]
  /\ UNCHANGED <<worker_states, pending_count, cpc, answer, submitted, given>>

\* or it is left out of the answer, without an error.
LeaveOut(c) ==
  /\ cpc[c] = "greedy"
  /\ todo[c] # <<>>
  /\ Available(Head(todo[c])) = {}
  /\ left_out' = [left_out EXCEPT ![c] = @ \cup {Head(todo[c])}]
  /\ todo' = [todo EXCEPT ![c] = Tail(@)]
  /\ UNCHANGED <<worker_states, pending_count, cpc, answer, submitted, given>>

EndGreedy(c) ==
  /\ cpc[c] = "greedy"
  /\ todo[c] = <<>>
  /\ cpc' = [cpc EXCEPT ![c] = "running"]
  /\ UNCHANGED <<worker_states, pending_count, todo, answer, left_out, submitted, given>>

\* process_batch has dispatched the answer and received all completions.
BatchCompletes(c) ==
  /\ cpc[c] = "running"
  /\ cpc' = [cpc EXCEPT ![c] = "idle"]
  /\ UNCHANGED <<worker_states, pending_count, todo, answer, left_out, submitted, given>>

Next ==
  \E c \in Callers :
    \/ \E b \in Batches : UpdatePending(c, b)
    \/ ChooseScheduler(c)
    \/ PrioSchedule(c)
    \/ ScheduleUnit(c)
    \/ LeaveOut(c)
    \/ EndGreedy(c)
    \/ BatchCompletes(c)

Spec == Init /\ [][Next]_vars

-----------------------------------------------------------------------------

\* Every variable has its type.
TypeOK ==
  /\ worker_states \in [Workers -> SUBSET Accounts]
  /\ pending_count \in Nat
  /\ cpc \in [Callers -> {"idle", "choose", "prio", "greedy", "running"}]
  /\ todo \in [Callers -> Seq(Unit)]
  /\ answer \in [Callers -> SUBSET Assignment]
  /\ left_out \in [Callers -> SUBSET Unit]
  /\ submitted \in SUBSET Batches
  /\ given \in SUBSET Assignment

\* Two units the greedy scheduler gave to one worker, in whatever calls and
\* batches, share no account: callers that overlap do not both find an account
\* free on the same worker.
GreedyDisjoint ==
  \A x, y \in given :
    x.worker = y.worker /\ x # y => x.unit.accounts \cap y.unit.accounts = {}

\* A unit is left out only when every worker was given a unit that conflicts
\* with it, at some time.
LeftOutOnlyIfBlocked ==
  \A c \in Callers : \A u \in left_out[c] : \A w \in Workers :
    \E x \in given : x.worker = w /\ x.unit.accounts \cap u.accounts # {}

\* "Assigns work to the first available worker without conflicts": a unit of
\* the only batch in progress is left out only if it conflicts, on every worker,
\* with another unit of its batch; earlier batches are over.
LeftOutForItsBatch ==
  \A c \in Callers :
    /\ cpc[c] = "running"
    /\ \A d \in Callers \ {c} : cpc[d] = "idle"
    => \A u \in left_out[c] : \A w \in Workers :
         \E x \in answer[c] : x.worker = w /\ x.unit.accounts \cap u.accounts # {}
=============================================================================
