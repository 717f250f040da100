----------------------------- MODULE BlockEngine -----------------------------
(***************************************************************************)
(* The BlockEngine (engine/src/block_engine.rs): bundles are submitted     *)
(* under ids from a counter behind a mutex, all submissions are cleared    *)
(* without that mutex, and select_winners picks bundles that do not        *)
(* conflict from a list of submissions it is given.                        *)
(***************************************************************************)
EXTENDS Integers, Sequences, FiniteSets

CONSTANTS
  Submitters,   \* the threads that share the engine
  ShardCount,   \* DashMap keeps its entries in shards, each behind a lock
  MaxIds        \* bound: ids handed out

VARIABLES
  submissions,  \* the ids in the map, which their bundles carry, too
  next_id,      \* the counter
  bpc,          \* bpc[t]: "idle", "insert" (has the mutex) or "clear"
  taken,        \* taken[t]: the id of the submission of t
  shard,        \* shard[t]: the next shard that t clears
  given,        \* history: the ids returned by submit_bundle
  before,       \* history: before[t], the ids in the map when t began to clear
  undisturbed   \* history: ids inserted with no clear in progress or since

vars == <<submissions, next_id, bpc, taken, shard, given, before, undisturbed>>

Init ==
  /\ submissions = {}
  /\ next_id = 0
  /\ bpc = [t \in Submitters |-> "idle"]
  /\ taken = [t \in Submitters |-> 0]
  /\ shard = [t \in Submitters |-> 0]
  /\ given = <<>>
  /\ before = [t \in Submitters |-> {}]
  /\ undisturbed = {}

\* Which shard an id is in, the hash of DashMap decides.
ShardOf(id) == id % ShardCount

Clearing == {t \in Submitters : bpc[t] = "clear"}

\* Mutation of TakeId: the next id is the size of the map.
TakeIdFromSize(t) ==
  /\ bpc[t] = "idle"
  /\ next_id < MaxIds
  /\ \A s \in Submitters : bpc[s] # "insert"
  /\ taken' = [taken EXCEPT ![t] = Cardinality(submissions)]
  /\ next_id' = next_id + 1
  /\ bpc' = [bpc EXCEPT ![t] = "insert"]
  /\ UNCHANGED <<submissions, shard, given, before, undisturbed>>

\* submit_bundle takes the mutex and an id,
TakeId(t) ==
  /\ bpc[t] = "idle"
  /\ next_id < MaxIds
  /\ \A s \in Submitters : bpc[s] # "insert"
  /\ taken' = [taken EXCEPT ![t] = next_id]
  /\ next_id' = next_id + 1
  /\ bpc' = [bpc EXCEPT ![t] = "insert"]
  /\ UNCHANGED <<submissions, shard, given, before, undisturbed>>

\* inserts the submission and returns.
Insert(t) ==
  /\ bpc[t] = "insert"
  /\ submissions' = submissions \cup {taken[t]}
  /\ given' = Append(given, taken[t])
  /\ undisturbed' = IF Clearing = {} THEN undisturbed \cup {taken[t]} ELSE undisturbed
  /\ bpc' = [bpc EXCEPT ![t] = "idle"]
  /\ UNCHANGED <<next_id, taken, shard, before>>

\* clear_submission, one shard after the other.
BeginClear(t) ==
  /\ bpc[t] = "idle"
  /\ bpc' = [bpc EXCEPT ![t] = "clear"]
  /\ shard' = [shard EXCEPT ![t] = 0]
  /\ before' = [before EXCEPT ![t] = submissions]
  /\ undisturbed' = {}
  /\ UNCHANGED <<submissions, next_id, taken, given>>

ClearShard(t) ==
  /\ bpc[t] = "clear"
  /\ submissions' = {id \in submissions : ShardOf(id) # shard[t]}
  /\ shard' = [shard EXCEPT ![t] = @ + 1]
  /\ bpc' = [bpc EXCEPT ![t] = IF shard[t] + 1 = ShardCount THEN "idle" ELSE "clear"]
  /\ UNCHANGED <<next_id, taken, given, before, undisturbed>>

Next ==
  \E t \in Submitters :
    \/ TakeId(t)
    \/ Insert(t)
    \/ BeginClear(t)
    \/ ClearShard(t)

-----------------------------------------------------------------------------
(* select_winners, on a list of submissions [accounts, score] *)

\* Mutation of SoldBefore: the sort is by the lowest score.
SoldForLess(list, i, j) ==
  \/ list[i].score < list[j].score
  \/ list[i].score = list[j].score /\ i < j

\* A stable sort by descending score puts i before j.
SoldBefore(list, i, j) ==
  \/ list[i].score > list[j].score
  \/ list[i].score = list[j].score /\ i < j

ByScore(list) ==
  CHOOSE order \in [DOMAIN list -> DOMAIN list] :
    \A p, q \in DOMAIN list : p < q => SoldBefore(list, order[p], order[q])

has_conflicts(accounts, locked) == accounts \cap locked # {}

\* The winners, as places in the list: each bundle in turn whose accounts no
\* earlier winner has locked.
select_winners(list) ==
  LET order == ByScore(list)
      locked(winners) == UNION {list[winners[q]].accounts : q \in DOMAIN winners}
      upTo[n \in 0 .. Len(list)] ==
        IF n = 0 THEN <<>>
        ELSE IF has_conflicts(list[order[n]].accounts, locked(upTo[n - 1]))
             THEN upTo[n - 1]
             ELSE Append(upTo[n - 1], order[n])
  IN  upTo[Len(list)]

-----------------------------------------------------------------------------

\* No id is returned twice, although submissions come and go; a submission that
\* no clear overlaps or follows is there; and a clear that is over has removed
\* everything that was there when it began, although submissions go on beside
\* it and it holds one shard at a time.
SubmissionsExact ==
  /\ \A p, q \in DOMAIN given : given[p] = given[q] => p = q
  /\ undisturbed \subseteq submissions
  /\ \A t \in Submitters \ Clearing : before[t] \cap submissions = {}

\* The winners never conflict and are in order of their scores; every bundle
\* that lost conflicts with a winner that was worth as much.  Of two that are
\* worth the same the earlier in the list wins.
BestOf(list, winners) ==
  LET Wins(i) == \E p \in DOMAIN winners : winners[p] = i
  IN  /\ \A p, q \in DOMAIN winners : p < q =>
           /\ list[winners[p]].accounts \cap list[winners[q]].accounts = {}
           /\ list[winners[p]].score >= list[winners[q]].score
      /\ \A i \in DOMAIN list : ~Wins(i) =>
           \E j \in DOMAIN list :
             /\ Wins(j)
             /\ list[i].accounts \cap list[j].accounts # {}
             /\ list[j].score >= list[i].score
             /\ list[j].score = list[i].score => j < i
=============================================================================
