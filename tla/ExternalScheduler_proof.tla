---------------------- MODULE ExternalScheduler_proof ----------------------
(***************************************************************************)
(* The external scheduler, for any number of callers, requests, workers    *)
(* and streams: what round_robin answers, which requests are pending, how  *)
(* the connection can get stuck, and the refinement of SchedulingService.  *)
(***************************************************************************)
EXTENDS ExternalScheduler, FiniteSetTheorems, WellFoundedInduction, TLAPS

\* The answers the server can give to a batch, whatever it answered before.
AnswersTo(batch) == {Schedule(batch, k).assignments : k \in 0 .. WorkerCount}
Answers == (UNION {AnswersTo(batch) : batch \in Batches}) \cup {<<>>}

Phases == {"new", "open", "network", "timeout", "answered", "invalid"}
Request == [phase : Phases, items : Batches \cup {<<>>}, assignments : Answers]
Stream == [id : Ids \cup {0}, done : BOOLEAN]
Response == [id : Ids, assignments : Answers]

TypeOK ==
  /\ request_counter \in 0 .. MaxRequests
  /\ pending \subseteq Ids
  /\ connq \in Seq(Callers \cup {Loop})
  /\ cpc \in [Callers -> {"idle", "open", "write", "wait", "expire"}]
  /\ call \in [Callers -> Ids \cup {0}]
  /\ received \in [Callers -> Seq(Answers)]
  /\ toServer \in Seq(Stream)
  /\ toClient \in Seq(Response)
  /\ serving \in Seq(Response)
  /\ next_worker \in 0 .. WorkerCount
  /\ spc \in {"up", "ended"}
  /\ lpc \in {"ask", "queued", "accept", "ended"}
  /\ lost \in BOOLEAN
  /\ request \in [Ids -> Request]
  /\ reports \in 0 .. MaxReports

\* A call in progress has an open request of its own; those not yet begun have
\* left nothing behind.
CallsInv ==
  /\ \A n \in Ids : n > request_counter <=> request[n].phase = "new"
  /\ \A n \in Ids : request[n].phase # "new" => request[n].items \in Batches
  /\ \A n \in Ids : request[n].phase \in {"new", "open"} => request[n].assignments = <<>>
  /\ \A n \in Ids : request[n].phase = "new" => request[n].items = <<>>
  /\ \A c \in Callers : InCall(c) => request[call[c]].phase = "open"
  /\ \A c, d \in Callers : InCall(c) /\ InCall(d) /\ call[c] = call[d] => c = d
  /\ \A c \in Callers : cpc[c] \in {"wait", "expire"} => call[c] # 0

\* Request n was sent whole: it is not a network error and never becomes one.
Sent(n) ==
  /\ request[n].phase \notin {"new", "network"}
  /\ \A c \in Callers : InCall(c) /\ call[c] = n => cpc[c] \in {"wait", "expire"}

\* What is on its way was sent whole, and answers are answers to their request.
Answering(r) == Sent(r.id) /\ r.assignments \in AnswersTo(request[r.id].items)

InFlight == {serving[i] : i \in DOMAIN serving} \cup {toClient[i] : i \in DOMAIN toClient}

Finished == {toServer[i].id : i \in {j \in DOMAIN toServer : toServer[j].done}}

FlightInv ==
  /\ \A n \in Finished \ {0} : Sent(n)
  /\ \A r \in InFlight : Answering(r)
  /\ \A c \in Callers : InCall(c) =>
       /\ \A i \in DOMAIN received[c] : received[c][i] \in AnswersTo(request[call[c]].items)
       /\ cpc[c] \in {"open", "write"} => received[c] = <<>>

\* The queue of the mutex: those who ask are in it once, the one who writes is
\* first, and without a loss only the one who writes has a stream unfinished.
Queued(x) == \E i \in DOMAIN connq : connq[i] = x

Unfinished == {toServer[i].id : i \in {j \in DOMAIN toServer : ~toServer[j].done}}

QueueInv ==
  /\ \A i, j \in DOMAIN connq : connq[i] = connq[j] => i = j
  /\ \A c \in Callers : cpc[c] \in {"open", "write"} <=> Queued(c)
  /\ lpc = "queued" <=> Queued(Loop)
  /\ \A c \in Callers : cpc[c] = "write" => Holds(c)

WriterInv ==
  \A n \in Unfinished : lost \/ \E c \in Callers : cpc[c] = "write" /\ call[c] = n

LinkInv ==
  /\ spc = "ended" => lost
  /\ LoopSurvives
  /\ Len(toServer) <= MaxStreams
  /\ Len(toClient) <= MaxStreams

ClientInv == TypeOK /\ CallsInv /\ PendingExact /\ FlightInv
IInv == ClientInv /\ QueueInv /\ WriterInv /\ LinkInv

-----------------------------------------------------------------------------
(* Schedule: what round_robin answers to one request *)

\* A set of natural numbers has a least element.
LEMMA LeastOf ==
  ASSUME NEW S \in SUBSET Nat, S # {}
  PROVE  \E i \in S : \A j \in S : i <= j
<1>1. IsWellFoundedOn(OpToRel(<, Nat), Nat)
  BY NatLessThanWellFounded
<1>2. PICK i \in S : \A j \in S : <<j, i>> \notin OpToRel(<, Nat)
  BY <1>1, WFMin
<1>3. ASSUME NEW j \in S, j < i PROVE FALSE
  BY <1>2, <1>3 DEF OpToRel
<1> QED
  BY <1>3

\* The place of an item depends on the places of those before it only.
LEMMA PlacedLocal ==
  ASSUME NEW items, NEW next, NEW i \in Nat, NEW f, NEW g,
         \A j \in 1 .. i - 1 : f[j] = g[j]
  PROVE  Placed(f, items, i, next) = Placed(g, items, i, next)
<1> DEFINE before == 1 .. i - 1
           Free(p) == {w \in Workers : \A j \in before :
                         items[j].accounts \cap items[i].accounts # {} => p[j].worker # w}
           Falls(p) == {j \in before : p[j].fallback}
<1>1. Free(f) = Free(g)
  OBVIOUS
<1>2. Falls(f) = Falls(g)
  OBVIOUS
<1>3. \A p : Placed(p, items, i, next)
               = [worker |-> ChooseWorker(Free(p), (next + Cardinality(Falls(p))) % WorkerCount),
                  fallback |-> Free(p) = {}]
  BY DEF Placed
<1> HIDE DEF Free, Falls
<1> QED
  BY <1>1, <1>2, <1>3

\* So the places of all items exist, one after the other.
LEMMA PlacementIs ==
  ASSUME NEW items, NEW next, NEW len \in Nat, DOMAIN items = 1 .. len
  PROVE  Placement(items, next)
           = [i \in 1 .. len |-> Placed(Placement(items, next), items, i, next)]
<1> DEFINE IsPlacing(g, n) == g = [i \in 1 .. n |-> Placed(g, items, i, next)]
           Stuck == {n \in Nat : \A g : ~IsPlacing(g, n)}
<1>1. Stuck = {}
  <2> SUFFICES ASSUME Stuck # {} PROVE FALSE
    OBVIOUS
  <2>1. PICK n \in Stuck : \A m \in Stuck : n <= m
    <3>1. Stuck \in SUBSET Nat
      OBVIOUS
    <3> HIDE DEF Stuck
    <3> QED
      BY <3>1, LeastOf
  <2>2. n \in Nat /\ \A g : ~IsPlacing(g, n)
    OBVIOUS
  <2>3. n # 0
    <3> DEFINE none == [i \in 1 .. 0 |-> 0]
    <3>1. none = [i \in 1 .. 0 |-> Placed(none, items, i, next)]
      <4> DEFINE other == [i \in 1 .. 0 |-> Placed(none, items, i, next)]
      <4>1. DOMAIN none = DOMAIN other /\ DOMAIN none = {}
        OBVIOUS
      <4> QED
        BY <4>1
    <3>2. n = 0 => IsPlacing(none, n)
      BY <3>1
    <3> QED
      BY <2>2, <3>2
  <2>4. n - 1 \in Nat /\ n - 1 \notin Stuck
    <3>1. n - 1 \in Nat /\ ~(n <= n - 1)
      <4> HIDE DEF Stuck, IsPlacing
      <4> QED
        BY <2>2, <2>3
    <3> HIDE DEF Stuck, IsPlacing
    <3> QED
      BY <2>1, <3>1
  <2>5. PICK g : IsPlacing(g, n - 1)
    BY <2>4
  <2> DEFINE h == [i \in 1 .. n |-> IF i < n THEN g[i] ELSE Placed(g, items, n, next)]
  <2>6. ASSUME NEW i \in 1 .. n PROVE h[i] = Placed(h, items, i, next)
    <3>1. i \in Nat /\ \A j \in 1 .. i - 1 : h[j] = g[j]
      BY <2>2
    <3>2. Placed(h, items, i, next) = Placed(g, items, i, next)
      <4> HIDE DEF h
      <4> QED
        BY <3>1, PlacedLocal
    <3>3. CASE i < n
      <4>1. i \in 1 .. n - 1
        BY <2>2, <3>3
      <4>2. g[i] = Placed(g, items, i, next)
        BY <2>5, <4>1
      <4> QED
        BY <3>2, <3>3, <4>2
    <3>4. CASE i = n
      <4>1. ~(i < n)
        BY <2>2, <3>4
      <4> QED
        BY <3>2, <3>4, <4>1
    <3> QED
      BY <2>2, <3>3, <3>4
  <2>7. DOMAIN h = 1 .. n /\ h = [i \in 1 .. n |-> h[i]]
    OBVIOUS
  <2>8. IsPlacing(h, n)
    <3> HIDE DEF h
    <3> QED
      BY <2>6, <2>7
  <2> QED
    BY <2>2, <2>8
<1>2. PICK g : g = [i \in 1 .. len |-> Placed(g, items, i, next)]
  BY <1>1
<1>3. Placement(items, next)
        = CHOOSE p : p = [i \in DOMAIN items |-> Placed(p, items, i, next)]
  BY DEF Placement
<1> QED
  BY <1>2, <1>3

\* The worker that is searched for is a free one, or the next in turn.
LEMMA ChooseWorkerType ==
  ASSUME WorkerCount # 0, NEW free \in SUBSET Workers, NEW turn \in Nat
  PROVE  /\ ChooseWorker(free, turn % WorkerCount) \in Workers
         /\ free # {} => ChooseWorker(free, turn % WorkerCount) \in free
<1>1. WorkerCount \in Nat \ {0}
  BY WorkerCountAssumption
<1>2. turn % WorkerCount \in Workers
  BY <1>1 DEF Workers
<1>3. CASE free = {}
  BY <1>2, <1>3 DEF ChooseWorker
<1>4. CASE free # {}
  <2>1. free \in SUBSET Nat
    BY <1>1 DEF Workers
  <2>2. PICK w \in free : \A v \in free : w <= v
    BY <1>4, <2>1, LeastOf
  <2>3. ChooseWorker(free, turn % WorkerCount) \in free
    BY <1>4, <2>2 DEF ChooseWorker
  <2> QED
    BY <2>3
<1> QED
  BY <1>3, <1>4

\* schedule answers a batch with one worker for each item, in order, and puts
\* an item beside a conflicting one only if every worker has such an item.
LEMMA ScheduleIs ==
  ASSUME WorkerCount # 0, NEW items, NEW len \in Nat, DOMAIN items = 1 .. len,
         NEW next \in Nat, NEW s, s = Schedule(items, next)
  PROVE  /\ s.next_worker \in 0 .. WorkerCount
         /\ DOMAIN s.assignments = DOMAIN items
         /\ \A i \in DOMAIN items : /\ s.assignments[i].unit = items[i].id
                                    /\ s.assignments[i].worker \in Workers
         /\ Service!Spread(items, s.assignments)
<1> DEFINE place == Placement(items, next)
           Before(i) == 1 .. i - 1
           Free(i) == {w \in Workers : \A j \in Before(i) :
                         items[j].accounts \cap items[i].accounts # {} => place[j].worker # w}
           Falls(i) == {j \in Before(i) : place[j].fallback}
           AllFalls == {i \in DOMAIN items : place[i].fallback}
<1>1. WorkerCount \in Nat \ {0}
  BY WorkerCountAssumption
<1>2. place = [i \in 1 .. len |-> Placed(place, items, i, next)]
  BY PlacementIs
<1>3. ASSUME NEW i \in 1 .. len
      PROVE  place[i].worker
               = ChooseWorker(Free(i), (next + Cardinality(Falls(i))) % WorkerCount)
  <2>1. place[i] = Placed(place, items, i, next)
    <3> QED
      BY <1>2
  <2> QED
    BY <2>1 DEF Placed
<1>4. ASSUME NEW i \in 1 .. len
      PROVE  /\ place[i].worker \in Workers
             /\ Free(i) # {} => place[i].worker \in Free(i)
  <2>1. next + Cardinality(Falls(i)) \in Nat
    <3>1. i - 1 \in Int /\ 1 \in Int
      OBVIOUS
    <3>3. IsFiniteSet(Before(i)) /\ Falls(i) \subseteq Before(i)
      BY <3>1, FS_Interval
    <3>2. Cardinality(Falls(i)) \in Nat
      <4> HIDE DEF Before, Falls
      <4> QED
        BY <3>3, FS_Subset, FS_CardinalityType
    <3> QED
      BY <3>2
  <2>2. Free(i) \in SUBSET Workers
    OBVIOUS
  <2>3. place[i].worker = ChooseWorker(Free(i), (next + Cardinality(Falls(i))) % WorkerCount)
    <3> HIDE DEF Free, Falls
    <3> QED
      BY <1>3
  <2> HIDE DEF Free, Falls
  <2> QED
    BY <2>1, <2>2, <2>3, ChooseWorkerType
<1>5. s = [assignments |-> [i \in DOMAIN items |->
                              [unit |-> items[i].id, worker |-> place[i].worker]],
           next_worker |-> (next + Cardinality(AllFalls)) % WorkerCount]
  BY DEF Schedule
<1>6. s.next_worker \in 0 .. WorkerCount
  <2>1. IsFiniteSet(1 .. len) /\ AllFalls \subseteq 1 .. len
    BY FS_Interval
  <2>2. Cardinality(AllFalls) \in Nat
    <3> HIDE DEF AllFalls
    <3> QED
      BY <2>1, FS_Subset, FS_CardinalityType
  <2>3. s.next_worker = (next + Cardinality(AllFalls)) % WorkerCount
    BY <1>5
  <2> HIDE DEF AllFalls
  <2> QED
    BY <1>1, <2>2, <2>3
<1>7. \A i \in 1 .. len : /\ s.assignments[i].unit = items[i].id
                         /\ s.assignments[i].worker = place[i].worker
  BY <1>5
<1>8. DOMAIN s.assignments = DOMAIN items
  BY <1>5
<1>9. Service!Spread(items, s.assignments)
  <2> SUFFICES ASSUME NEW i \in 1 .. len, NEW j \in 1 .. len, i < j,
                      items[i].accounts \cap items[j].accounts # {},
                      place[i].worker = place[j].worker,
                      NEW w \in Workers
               PROVE  \E k \in 1 .. j - 1 : /\ place[k].worker = w
                                            /\ items[k].accounts \cap items[j].accounts # {}
    <3> QED
      BY <1>7 DEF Service!Spread, Workers
  <2>1. i \in Before(j)
    OBVIOUS
  <2>2. place[j].worker \notin Free(j)
    BY <2>1
  <2>3. Free(j) = {}
    BY <1>4, <2>2
  <2>4. w \notin Free(j)
    BY <2>3
  <2> QED
    BY <2>4
<1> QED
  BY <1>4, <1>6, <1>7, <1>8, <1>9

\* A batch is numbered from 1.
LEMMA BatchDomain ==
  ASSUME NEW b \in Batches
  PROVE  \E len \in Nat : DOMAIN b = 1 .. len
<1>1. b \in Seq({b[i] : i \in DOMAIN b})
  BY ExternalAssumption
<1> HIDE ExternalAssumption
<1>2. Len(b) \in Nat /\ DOMAIN b = 1 .. Len(b)
  BY <1>1
<1> QED
  BY <1>2

\* next_worker stays in range from one request to the next.
LEMMA NextWorkerType ==
  ASSUME NEW b \in Batches, NEW k \in 0 .. WorkerCount
  PROVE  /\ Schedule(b, k).next_worker \in 0 .. WorkerCount
         /\ Schedule(b, k).assignments \in AnswersTo(b)
<1>1. Schedule(b, k).assignments \in AnswersTo(b)
  BY DEF AnswersTo
<1>2. CASE WorkerCount = 0
  BY <1>1, <1>2 DEF Schedule
<1>3. CASE WorkerCount # 0
  <2>1. PICK len \in Nat : DOMAIN b = 1 .. len
    BY BatchDomain
  <2>2. k \in Nat
    BY WorkerCountAssumption
  <2>3. Schedule(b, k).next_worker \in 0 .. WorkerCount
    BY <1>3, <2>1, <2>2, ScheduleIs
  <2> QED
    BY <1>1, <2>3
<1> QED
  BY <1>2, <1>3

Unique(items) == \A i, j \in DOMAIN items : items[i].id = items[j].id => i = j

\* validate_assignments lets exactly the answers pass whose batch named no item
\* twice (and the empty answers to an engine without workers), and those are
\* valid answers.
LEMMA AnswerIsValid ==
  ASSUME NEW b \in Batches, NEW a \in AnswersTo(b)
  PROVE  /\ Validates(b, a) <=> Unique(b) \/ WorkerCount = 0
         /\ Validates(b, a) => Service!ValidAnswer(b, a)
<1>1. PICK k \in 0 .. WorkerCount : a = Schedule(b, k).assignments
  BY DEF AnswersTo
<1>2. CASE WorkerCount = 0
  <2>1. a = <<>>
    BY <1>1, <1>2 DEF Schedule
  <2>2. DOMAIN a = {}
    BY <2>1
  <2>3. Validates(b, a)
    BY <2>2 DEF Validates
  <2>4. Service!ValidAnswer(b, a)
    BY <1>2, <2>1 DEF Service!ValidAnswer
  <2> QED
    BY <1>2, <2>3, <2>4
<1>3. CASE WorkerCount # 0
  <2>1. PICK len \in Nat : DOMAIN b = 1 .. len
    BY BatchDomain
  <2>2. k \in Nat
    BY WorkerCountAssumption
  <2>3. /\ DOMAIN a = DOMAIN b
        /\ \A i \in DOMAIN b : /\ a[i].unit = b[i].id
                               /\ a[i].worker \in Workers
        /\ Service!Spread(b, a)
    BY <1>1, <1>3, <2>1, <2>2, ScheduleIs
  <2>4. Validates(b, a) <=> Unique(b)
    <3>1. ASSUME Validates(b, a) PROVE Unique(b)
      BY <2>3, <3>1 DEF Validates, Unique
    <3>2. ASSUME Unique(b) PROVE Validates(b, a)
      BY <2>3, <3>2 DEF Validates, Unique
    <3> QED
      BY <3>1, <3>2
  <2>5. ASSUME Unique(b) PROVE Service!ValidAnswer(b, a)
    BY <1>3, <2>3, <2>5 DEF Service!ValidAnswer, Unique, Workers
  <2> QED
    BY <1>3, <2>4, <2>5
<1> QED
  BY <1>2, <1>3

-----------------------------------------------------------------------------
(* Type correctness *)

\* Before the first call all is of its type.
LEMMA InitTypes == Init => TypeOK
<1> SUFFICES ASSUME Init PROVE TypeOK
  OBVIOUS
<1>1. request \in [Ids -> Request]
  <2>1. <<>> \in Answers /\ "new" \in Phases
    BY DEF Answers, Phases
  <2>2. [phase |-> "new", items |-> <<>>, assignments |-> <<>>] \in Request
    BY <2>1 DEF Request
  <2> QED
    BY <2>2 DEF Init
<1>2. /\ request_counter \in 0 .. MaxRequests
      /\ reports \in 0 .. MaxReports
      /\ next_worker \in 0 .. WorkerCount
  BY ExternalAssumption, WorkerCountAssumption DEF Init
<1> HIDE ExternalAssumption
<1>3. pending \subseteq Ids /\ connq \in Seq(Callers \cup {Loop})
  BY DEF Init
<1>4. /\ toServer \in Seq(Stream)
      /\ toClient \in Seq(Response)
      /\ serving \in Seq(Response)
  BY DEF Init
<1>5. /\ cpc \in [Callers -> {"idle", "open", "write", "wait", "expire"}]
      /\ call \in [Callers -> Ids \cup {0}]
      /\ received \in [Callers -> Seq(Answers)]
  BY DEF Init
<1> QED
  BY <1>1, <1>2, <1>3, <1>4, <1>5 DEF Init, TypeOK

\* A result: the call is idle and its request has a phase and assignments.
LEMMA ReturnTypes ==
  ASSUME TypeOK, NEW c \in Callers, NEW phase \in Phases, NEW a \in Answers,
         Return(c, phase, a)
  PROVE  /\ cpc' \in [Callers -> {"idle", "open", "write", "wait", "expire"}]
         /\ request' \in [Ids -> Request]
<1>1. cpc' \in [Callers -> {"idle", "open", "write", "wait", "expire"}]
  BY DEF TypeOK, Return
<1>2. CASE call[c] = 0
  BY <1>1, <1>2 DEF TypeOK, Return
<1>3. CASE call[c] # 0
  <2> DEFINE n == call[c]
  <2>1. n \in Ids /\ request \in [Ids -> Request]
    BY <1>3 DEF TypeOK
  <2>2. request' = [request EXCEPT ![n].phase = phase, ![n].assignments = a]
    BY <1>3 DEF Return
  <2>3. [request[n] EXCEPT !.phase = phase, !.assignments = a] \in Request
    BY <2>1 DEF Request
  <2> HIDE DEF n
  <2>4. request' = [request EXCEPT ![n] = [request[n] EXCEPT !.phase = phase, !.assignments = a]]
    BY <2>1, <2>2
  <2> QED
    BY <1>1, <2>1, <2>3, <2>4
<1> QED
  BY <1>2, <1>3

\* A function on 1 .. n is a sequence.
LEMMA FunctionIsSeq ==
  ASSUME NEW S, NEW n \in Nat, NEW f \in [1 .. n -> S]
  PROVE  f \in Seq(S)
OBVIOUS

\* What was appended to is not empty.
LEMMA AppendNotEmpty ==
  ASSUME NEW S, NEW q \in Seq(S), NEW e
  PROVE  Append(q, e) # <<>>
<1>1. q \in Seq(S \cup {e})
  OBVIOUS
<1>2. Len(Append(q, e)) = Len(q) + 1 /\ Len(q) \in Nat
  BY <1>1
<1>3. Len(<<>>) = 0
  OBVIOUS
<1> QED
  BY <1>2, <1>3

\* A step of a caller keeps the types; who writes holds the mutex.
LEMMA CallerTypes ==
  ASSUME TypeOK, NEW c \in Callers, cpc[c] = "write" => Holds(c),
         \/ \E batch \in Batches : BeginSchedule(c, batch)
         \/ BeginReport(c)
         \/ CallerStep(c)
  PROVE  TypeOK'
<1> USE DEF TypeOK, callVars, serverVars
<1>0. Append(connq, c) \in Seq(Callers \cup {Loop}) /\ (connq # <<>> => Tail(connq) \in Seq(Callers \cup {Loop}))
  OBVIOUS
<1>1. ASSUME NEW batch \in Batches, BeginSchedule(c, batch)
      PROVE  TypeOK'
  <2>1. PICK n \in Ids : /\ n = request_counter + 1
                         /\ request_counter' = n
                         /\ pending' = pending \cup {n}
                         /\ call' = [call EXCEPT ![c] = n]
                         /\ request' = [request EXCEPT ![n].phase = "open", ![n].items = batch]
    <3>1. request_counter + 1 \in Ids
      BY <1>1, ExternalAssumption DEF BeginSchedule, Ids
    <3> QED
      BY <1>1, <3>1 DEF BeginSchedule
  <2>2. [request[n] EXCEPT !.phase = "open", !.items = batch] \in Request
    BY DEF Request, Phases
  <2>3. request' = [request EXCEPT ![n] = [request[n] EXCEPT !.phase = "open", !.items = batch]]
    BY <2>1
  <2>4. request' \in [Ids -> Request]
    BY <2>2, <2>3
  <2>5. request_counter' \in 0 .. MaxRequests /\ pending' \subseteq Ids
    BY <2>1 DEF Ids
  <2>6. <<>> \in Seq(Answers)
    OBVIOUS
  <2> QED
    BY <1>0, <1>1, <2>1, <2>4, <2>5, <2>6 DEF BeginSchedule
<1>2. CASE BeginReport(c)
  <2>1. reports' \in 0 .. MaxReports
    BY <1>2, ExternalAssumption DEF BeginReport
  <2> QED
    BY <1>0, <1>2, <2>1 DEF BeginReport
<1>3. CASE OpenStream(c)
  <2>1. [id |-> call[c], done |-> FALSE] \in Stream
    BY DEF Stream
  <2>2. toServer' \in Seq(Stream)
    BY <1>3, <2>1 DEF OpenStream
  <2> QED
    BY <1>3, <2>2 DEF OpenStream
<1>4. CASE FinishWrite(c)
  <2>1. toServer' \in Seq(Stream)
    <3>1. \A i \in DOMAIN toServer : toServer'[i] \in Stream
      <4> SUFFICES ASSUME NEW i \in DOMAIN toServer PROVE toServer'[i] \in Stream
        BY <1>4 DEF FinishWrite
      <4>1. toServer[i] \in Stream
        OBVIOUS
      <4>2. [toServer[i] EXCEPT !.done = TRUE] \in Stream
        BY <4>1 DEF Stream
      <4> QED
        BY <1>4, <4>1, <4>2 DEF FinishWrite
    <3>2. Len(toServer) \in Nat /\ DOMAIN toServer = 1 .. Len(toServer)
      OBVIOUS
    <3>3. toServer' = [i \in 1 .. Len(toServer) |-> toServer'[i]]
      BY <1>4, <3>2 DEF FinishWrite
    <3>4. toServer' \in [1 .. Len(toServer) -> Stream]
      <4> HIDE DEF TypeOK
      <4> QED
        BY <3>1, <3>2, <3>3
    <3> QED
      BY <3>2, <3>4, FunctionIsSeq
  <2>2. connq' \in Seq(Callers \cup {Loop})
    BY <1>0, <1>4 DEF FinishWrite, CanFinish, Holds
  <2>3. /\ cpc' \in [Callers -> {"idle", "open", "write", "wait", "expire"}]
        /\ request' \in [Ids -> Request]
    BY <1>4 DEF FinishWrite, Return
  <2> QED
    BY <1>4, <2>1, <2>2, <2>3 DEF FinishWrite
<1>5. CASE SendFails(c)
  <2>1. "network" \in Phases /\ <<>> \in Answers
    BY DEF Phases, Answers
  <2>2. /\ cpc' \in [Callers -> {"idle", "open", "write", "wait", "expire"}]
        /\ request' \in [Ids -> Request]
    <3> HIDE DEF TypeOK
    <3> QED
      BY <1>5, <2>1, ReturnTypes DEF SendFails
  <2> QED
    BY <1>0, <1>5, <2>2 DEF SendFails, Refused, Holds
<1>6. CASE Receive(c)
  <2>0. received[c] \in Seq(Answers) /\ received[c] # <<>> /\ <<>> \in Seq(Answers)
    BY <1>6 DEF Receive
  <2>1. Head(received[c]) \in Answers /\ <<>> \in Answers
    <3>1. <<>> \in Answers
      BY DEF Answers
    <3> QED
      BY <2>0, <3>1
  <2>2. "answered" \in Phases /\ "invalid" \in Phases
    BY DEF Phases
  <2>3. /\ cpc' \in [Callers -> {"idle", "open", "write", "wait", "expire"}]
        /\ request' \in [Ids -> Request]
    <3> HIDE DEF TypeOK
    <3> QED
      BY <1>6, <2>1, <2>2, ReturnTypes DEF Receive
  <2> QED
    BY <1>6, <2>0, <2>3 DEF Receive
<1>7. CASE TimerFires(c)
  BY <1>7 DEF TimerFires
<1>8. CASE TimeOut(c)
  <2>1. "timeout" \in Phases /\ <<>> \in Answers
    BY DEF Phases, Answers
  <2>2. /\ cpc' \in [Callers -> {"idle", "open", "write", "wait", "expire"}]
        /\ request' \in [Ids -> Request]
    <3> HIDE DEF TypeOK
    <3> QED
      BY <1>8, <2>1, ReturnTypes DEF TimeOut
  <2> QED
    BY <1>8, <2>2 DEF TimeOut
<1> QED
  BY <1>1, <1>2, <1>3, <1>4, <1>5, <1>6, <1>7, <1>8 DEF CallerStep

\* A step of the server keeps the types: it answers what was sent to it.
LEMMA ServerTypes ==
  ASSUME TypeOK, CallsInv, FlightInv, ServerStep
  PROVE  TypeOK'
<1> USE DEF TypeOK, callVars, serverVars
<1>1. CASE ReadRequest
  <2> DEFINE n == Head(toServer).id
             s == Schedule(Items(n), next_worker)
  <2>1. /\ toServer # <<>> /\ Head(toServer).done /\ n # 0
        /\ serving' = <<[id |-> n, assignments |-> s.assignments]>>
        /\ next_worker' = s.next_worker
    BY <1>1 DEF ReadRequest, Accepting
  <2>2. Head(toServer) \in Stream /\ Head(toServer) = toServer[1] /\ 1 \in DOMAIN toServer
    BY <2>1
  <2>3. n \in Ids
    BY <2>1, <2>2 DEF Stream
  <2>4. Items(n) \in Batches
    <3>1. Sent(n)
      BY <2>1, <2>2 DEF FlightInv, Finished
    <3>2. request[n].phase # "new"
      BY <3>1 DEF Sent
    <3> HIDE DEF TypeOK, n
    <3> QED
      BY <2>3, <3>2 DEF CallsInv, Items
  <2>5. s.next_worker \in 0 .. WorkerCount /\ s.assignments \in AnswersTo(Items(n))
    BY <2>4, NextWorkerType
  <2>6. s.assignments \in Answers
    BY <2>4, <2>5 DEF Answers
  <2> HIDE DEF n, s
  <2>7. [id |-> n, assignments |-> s.assignments] \in Response
    BY <2>3, <2>6 DEF Response
  <2>8. serving' \in Seq(Response)
    BY <2>1, <2>7
  <2>9. toServer' \in Seq(Stream)
    BY <1>1, <2>1 DEF ReadRequest
  <2> QED
    BY <1>1, <2>1, <2>5, <2>8, <2>9 DEF ReadRequest
<1>2. CASE SkipMessage
  BY <1>2 DEF SkipMessage, CanRead, Accepting
<1>3. CASE SendResponse
  <2>1. Head(serving) \in Response /\ <<>> \in Seq(Response)
    BY <1>3 DEF SendResponse, CanRespond
  <2> QED
    BY <1>3, <2>1 DEF SendResponse
<1>4. CASE ResponseFails
  <2>1. <<>> \in Seq(Response)
    OBVIOUS
  <2> QED
    BY <1>4, <2>1 DEF ResponseFails
<1>5. CASE ServerEnds
  BY <1>5 DEF ServerEnds
<1> QED
  BY <1>1, <1>2, <1>3, <1>4, <1>5 DEF ServerStep

\* A step of the receive loop keeps the types.
LEMMA LoopTypes ==
  ASSUME TypeOK, LoopStep
  PROVE  TypeOK'
<1> USE DEF TypeOK, callVars, serverVars
<1>1. CASE LoopAsks
  BY <1>1 DEF LoopAsks
<1>2. CASE LoopGets
  BY <1>2 DEF LoopGets, Holds
<1>3. CASE HandleMessage
  <2>1. /\ toClient' \in Seq(Response)
        /\ Head(toClient) \in Response
    BY <1>3 DEF HandleMessage
  <2>2. pending' \subseteq Ids
    BY <1>3 DEF HandleMessage
  <2>3. received' \in [Callers -> Seq(Answers)]
    <3>1. CASE UNCHANGED received
      BY <3>1
    <3>2. CASE Deliver(Head(toClient))
      <4>1. Head(toClient).assignments \in Answers
        BY <2>1 DEF Response
      <4>2. \A c \in Callers : /\ received[c] \in Seq(Answers)
                               /\ Append(received[c], Head(toClient).assignments) \in Seq(Answers)
        BY <4>1
      <4> QED
        BY <3>2, <4>2 DEF Deliver
    <3> QED
      BY <1>3, <3>1, <3>2 DEF HandleMessage
  <2> QED
    BY <1>3, <2>1, <2>2, <2>3 DEF HandleMessage
<1>4. CASE LoopEnds
  BY <1>4 DEF LoopEnds
<1> QED
  BY <1>1, <1>2, <1>3, <1>4 DEF LoopStep

\* The loss of the connection keeps the types.
LEMMA OtherTypes ==
  ASSUME TypeOK, LoseConnection \/ UNCHANGED vars
  PROVE  TypeOK'
<1>1. CASE LoseConnection
  BY <1>1 DEF TypeOK, LoseConnection, callVars, serverVars
<1>2. CASE UNCHANGED vars
  BY <1>2 DEF TypeOK, vars, callVars, serverVars
<1> QED
  BY <1>1, <1>2

\* A step of the client, the server or the network keeps the types.
LEMMA NextTypes ==
  ASSUME IInv, [Next]_vars
  PROVE  TypeOK'
<1>1. TypeOK /\ CallsInv /\ FlightInv /\ \A c \in Callers : cpc[c] = "write" => Holds(c)
  BY DEF IInv, ClientInv, QueueInv
<1>2. Terminated => UNCHANGED vars
  BY DEF Terminated
<1> QED
  BY <1>1, <1>2, CallerTypes, ServerTypes, LoopTypes, OtherTypes DEF Next

-----------------------------------------------------------------------------
(* Calls and their requests *)

\* Request ids count from 1.
LEMMA IdsAreNaturals == Ids \subseteq Nat \ {0}
BY ExternalAssumption DEF Ids

\* What a result changes: the call is over, and its request has a phase.
LEMMA ReturnIs ==
  ASSUME TypeOK, NEW c \in Callers, NEW phase, NEW a, Return(c, phase, a)
  PROVE  /\ cpc' = [cpc EXCEPT ![c] = "idle"]
         /\ DOMAIN request' = Ids
         /\ \A n \in Ids : n # call[c] => request'[n] = request[n]
         /\ call[c] # 0 => /\ request'[call[c]].phase = phase
                           /\ request'[call[c]].items = request[call[c]].items
                           /\ request'[call[c]].assignments = a
<1>1. cpc' = [cpc EXCEPT ![c] = "idle"]
  BY DEF Return
<1>2. CASE call[c] = 0
  BY <1>1, <1>2 DEF Return, TypeOK
<1>3. CASE call[c] # 0
  <2>1. call[c] \in Ids /\ request \in [Ids -> Request]
    BY <1>3 DEF TypeOK
  <2>2. request' = [request EXCEPT ![call[c]].phase = phase, ![call[c]].assignments = a]
    BY <1>3 DEF Return
  <2>3. request[call[c]] \in [phase : Phases, items : Batches \cup {<<>>}, assignments : Answers]
    BY <2>1 DEF Request
  <2> QED
    BY <1>1, <2>1, <2>2, <2>3
<1> QED
  BY <1>2, <1>3

\* A call that returns closes its own request, and no other.
LEMMA CallEnds ==
  ASSUME TypeOK, CallsInv, NEW c \in Callers, cpc[c] # "idle",
         NEW phase \in {"network", "timeout", "answered", "invalid"}, NEW a,
         Return(c, phase, a), UNCHANGED <<request_counter, call>>
  PROVE  CallsInv'
<1>1. /\ cpc' = [cpc EXCEPT ![c] = "idle"]
      /\ \A n \in Ids : n # call[c] => request'[n] = request[n]
      /\ call[c] # 0 => /\ request'[call[c]].phase = phase
                        /\ request'[call[c]].items = request[call[c]].items
                        /\ request'[call[c]].assignments = a
  BY ReturnIs
<1>2. cpc \in [Callers -> {"idle", "open", "write", "wait", "expire"}]
  BY DEF TypeOK
<1>3. \A d \in Callers : InCall(d)' => InCall(d) /\ d # c
  BY <1>1, <1>2 DEF InCall
<1>4. call[c] # 0 => InCall(c) /\ call[c] \in Ids /\ request[call[c]].phase = "open"
  BY DEF InCall, CallsInv, TypeOK
<1>5. \A n \in Ids : (request'[n].phase = "new" <=> request[n].phase = "new")
                     /\ request'[n].items = request[n].items
                     /\ (request'[n].phase \in {"new", "open"} => request'[n] = request[n])
  BY <1>1, <1>4, IdsAreNaturals
<1>6. \A d \in Callers : InCall(d)' => request'[call[d]].phase = "open"
  <2> SUFFICES ASSUME NEW d \in Callers, InCall(d)' PROVE request'[call[d]].phase = "open"
    OBVIOUS
  <2>1. InCall(d) /\ d # c /\ call[d] \in Ids /\ request[call[d]].phase = "open"
    BY <1>3 DEF CallsInv, TypeOK, InCall
  <2>2. call[d] # call[c]
    BY <1>4, <2>1, IdsAreNaturals DEF CallsInv
  <2> QED
    BY <1>1, <2>1, <2>2
<1>7. \A d \in Callers : cpc'[d] \in {"wait", "expire"} => call[d] # 0
  BY <1>1, <1>2 DEF CallsInv
<1> QED
  BY <1>3, <1>5, <1>6, <1>7 DEF CallsInv

\* A step of a call that only moves on, from await to await.
LEMMA CallMoves ==
  ASSUME TypeOK, CallsInv, NEW c \in Callers, cpc[c] # "idle",
         NEW to \in {"write", "wait", "expire"}, to = "write" \/ call[c] # 0,
         cpc' = [cpc EXCEPT ![c] = to],
         UNCHANGED <<request_counter, call, request>>
  PROVE  CallsInv'
<1>1. \A d \in Callers : (cpc'[d] # "idle" <=> cpc[d] # "idle")
  BY DEF TypeOK
<1>2. \A d \in Callers : InCall(d)' <=> InCall(d)
  BY <1>1 DEF InCall
<1>3. \A d \in Callers : cpc'[d] \in {"wait", "expire"} => call[d] # 0
  BY DEF TypeOK, CallsInv
<1> QED
  BY <1>2, <1>3 DEF CallsInv

\* A call that begins opens a request under a new id.
LEMMA CallBegins ==
  ASSUME TypeOK, CallsInv, NEW c \in Callers, NEW batch \in Batches, BeginSchedule(c, batch)
  PROVE  CallsInv'
<1>1. PICK n \in Ids : /\ n = request_counter + 1
                       /\ request_counter' = n
                       /\ call' = [call EXCEPT ![c] = n]
                       /\ request' = [request EXCEPT ![n].phase = "open", ![n].items = batch]
  <2>1. request_counter + 1 \in Ids
    BY ExternalAssumption DEF BeginSchedule, Ids, TypeOK
  <2> QED
    BY <2>1 DEF BeginSchedule
<1>2. /\ cpc' = [cpc EXCEPT ![c] = "open"] /\ cpc[c] = "idle"
      /\ cpc \in [Callers -> {"idle", "open", "write", "wait", "expire"}]
      /\ call \in [Callers -> Ids \cup {0}] /\ request_counter \in Nat
  BY ExternalAssumption DEF BeginSchedule, TypeOK
<1>3. /\ request[n] \in [phase : Phases, items : Batches \cup {<<>>}, assignments : Answers]
      /\ request \in [Ids -> Request]
  BY DEF TypeOK, Request
<1>4. /\ request'[n].phase = "open" /\ request'[n].items = batch
      /\ request'[n].assignments = request[n].assignments
      /\ \A m \in Ids : m # n => request'[m] = request[m]
  BY <1>1, <1>3
<1>5. request[n].phase = "new" /\ request[n].assignments = <<>>
  BY <1>1, <1>2 DEF CallsInv, Ids
<1>6. /\ InCall(c)' /\ call'[c] = n
      /\ \A d \in Callers : d # c => call'[d] = call[d] /\ (InCall(d)' <=> InCall(d))
  BY <1>1, <1>2 DEF InCall, Ids
<1>7. \A d \in Callers : InCall(d) => call[d] # n /\ call[d] \in Ids /\ request[call[d]].phase = "open"
  BY <1>2, <1>5 DEF CallsInv, InCall
<1>8. \A m \in Ids : m > request_counter' <=> request'[m].phase = "new"
  <2> SUFFICES ASSUME NEW m \in Ids PROVE m > n <=> request'[m].phase = "new"
    BY <1>1
  <2>1. m \in Nat /\ n \in Nat /\ (m > request_counter <=> request[m].phase = "new")
    BY IdsAreNaturals DEF CallsInv
  <2>2. CASE m = n
    BY <1>4, <2>1, <2>2
  <2>3. CASE m # n
    <3>1. m > n <=> m > request_counter
      BY <1>1, <1>2, <2>1, <2>3
    <3> QED
      BY <1>4, <2>1, <2>3, <3>1
  <2> QED
    BY <2>2, <2>3
<1>9. \A m \in Ids : /\ request'[m].phase # "new" => request'[m].items \in Batches
                     /\ request'[m].phase \in {"new", "open"} => request'[m].assignments = <<>>
                     /\ request'[m].phase = "new" => request'[m].items = <<>>
  BY <1>4, <1>5 DEF CallsInv
<1>10. \A d \in Callers : InCall(d)' => request'[call'[d]].phase = "open"
  BY <1>4, <1>6, <1>7
<1>11. \A d, e \in Callers : InCall(d)' /\ InCall(e)' /\ call'[d] = call'[e] => d = e
  BY <1>6, <1>7 DEF CallsInv
<1>12. \A d \in Callers : cpc'[d] \in {"wait", "expire"} => call'[d] # 0
  BY <1>2, <1>6 DEF CallsInv
<1> QED
  BY <1>8, <1>9, <1>10, <1>11, <1>12 DEF CallsInv

\* Every step keeps each call with an open request of its own.
LEMMA NextCalls ==
  ASSUME IInv, [Next]_vars
  PROVE  CallsInv'
<1> USE DEF callVars, serverVars
<1>1. TypeOK /\ CallsInv
  BY DEF IInv, ClientInv
<1>2. ASSUME NEW c \in Callers, NEW batch \in Batches, BeginSchedule(c, batch)
      PROVE  CallsInv'
  BY <1>1, <1>2, CallBegins
<1>3. ASSUME NEW c \in Callers, BeginReport(c)
      PROVE  CallsInv'
  <2>1. \A d \in Callers : /\ InCall(d)' <=> InCall(d)
                           /\ InCall(d) => call'[d] = call[d]
                           /\ cpc'[d] \in {"wait", "expire"} => call'[d] # 0
    BY <1>1, <1>3 DEF BeginReport, TypeOK, InCall, CallsInv
  <2>2. UNCHANGED <<request, request_counter>>
    BY <1>3 DEF BeginReport
  <2> QED
    BY <1>1, <2>1, <2>2 DEF CallsInv
<1>4. ASSUME NEW c \in Callers, CallerStep(c)
      PROVE  CallsInv'
  <2>1. CASE OpenStream(c)
    BY <1>1, <2>1, CallMoves DEF OpenStream, CanOpen
  <2>2. CASE FinishWrite(c) /\ call[c] # 0
    BY <1>1, <2>2, CallMoves DEF FinishWrite, CanFinish
  <2>3. CASE FinishWrite(c) /\ call[c] = 0
    <3>1. \A d \in Callers : (InCall(d)' <=> InCall(d)) /\ (cpc'[d] \in {"wait", "expire"} => call[d] # 0)
      BY <1>1, <2>3 DEF FinishWrite, Return, InCall, TypeOK, CallsInv
    <3> QED
      BY <1>1, <2>3, <3>1 DEF FinishWrite, Return, CallsInv
  <2>4. CASE SendFails(c)
    BY <1>1, <2>4, CallEnds DEF SendFails, Refused
  <2>5. CASE Receive(c)
    BY <1>1, <2>5, CallEnds DEF Receive
  <2>6. CASE TimerFires(c)
    <3>1. call[c] # 0
      BY <1>1, <2>6 DEF CallsInv, TimerFires
    <3> QED
      BY <1>1, <2>6, <3>1, CallMoves DEF TimerFires
  <2>7. CASE TimeOut(c)
    BY <1>1, <2>7, CallEnds DEF TimeOut
  <2> QED
    BY <1>4, <2>1, <2>2, <2>3, <2>4, <2>5, <2>6, <2>7 DEF CallerStep
<1>5. ASSUME UNCHANGED callVars PROVE CallsInv'
  BY <1>1, <1>5 DEF CallsInv, InCall
<1>6. ServerStep \/ LoopStep \/ LoseConnection \/ Terminated \/ UNCHANGED vars => UNCHANGED callVars
  BY DEF ServerStep, ReadRequest, SkipMessage, SendResponse, ResponseFails, ServerEnds,
         LoopStep, LoopAsks, LoopGets, HandleMessage, LoopEnds, LoseConnection, Terminated, vars
<1> QED
  BY <1>2, <1>3, <1>4, <1>5, <1>6 DEF Next

\* What was sent whole stays sent, and so does its batch.
LEMMA SentStays ==
  ASSUME IInv, [Next]_vars, NEW n \in Ids, Sent(n)
  PROVE  Sent(n)' /\ request'[n].items = request[n].items
<1> USE DEF callVars, serverVars
<1>1. TypeOK /\ CallsInv
  BY DEF IInv, ClientInv
<1>2. /\ request[n].phase \notin {"new", "network"}
      /\ \A c \in Callers : InCall(c) /\ call[c] = n => cpc[c] \in {"wait", "expire"}
      /\ cpc \in [Callers -> {"idle", "open", "write", "wait", "expire"}]
      /\ call \in [Callers -> Ids \cup {0}]
      /\ n # 0
  BY <1>1, IdsAreNaturals DEF Sent, TypeOK
<1>3. ASSUME NEW c \in Callers, NEW batch \in Batches, BeginSchedule(c, batch)
      PROVE  Sent(n)' /\ request'[n].items = request[n].items
  <2> DEFINE m == request_counter + 1
  <2>1. m # n
    <3>1. request_counter \in Nat /\ n \in Nat
      BY <1>1, ExternalAssumption, IdsAreNaturals DEF TypeOK
    <3>2. ~(n > request_counter)
      BY <1>1, <1>2 DEF CallsInv
    <3> QED
      BY <3>1, <3>2
  <2>2. request'[n] = request[n]
    BY <1>1, <1>3, <2>1 DEF BeginSchedule, TypeOK
  <2>3. \A d \in Callers : InCall(d)' /\ call'[d] = n => d # c /\ InCall(d) /\ call[d] = n /\ cpc'[d] = cpc[d]
    BY <1>2, <1>3, <2>1 DEF BeginSchedule, InCall
  <2> QED
    BY <1>2, <2>2, <2>3 DEF Sent
<1>4. ASSUME NEW c \in Callers, BeginReport(c)
      PROVE  Sent(n)' /\ request'[n].items = request[n].items
  BY <1>2, <1>4 DEF BeginReport, Sent, InCall
<1>5. ASSUME NEW c \in Callers, CallerStep(c)
      PROVE  Sent(n)' /\ request'[n].items = request[n].items
  <2>1. CASE OpenStream(c)
    BY <1>2, <2>1 DEF OpenStream, CanOpen, Sent, InCall
  <2>2. CASE FinishWrite(c)
    BY <1>2, <2>2 DEF FinishWrite, Return, Sent, InCall
  <2>3. CASE TimerFires(c)
    BY <1>2, <2>3 DEF TimerFires, Sent, InCall
  <2>4. ASSUME NEW phase \in {"network", "timeout", "answered", "invalid"}, NEW a,
               Return(c, phase, a), UNCHANGED call,
               phase = "network" => cpc[c] \in {"open", "write"}, cpc[c] # "idle"
        PROVE  Sent(n)' /\ request'[n].items = request[n].items
    <3>1. /\ cpc' = [cpc EXCEPT ![c] = "idle"]
          /\ n # call[c] => request'[n] = request[n]
          /\ call[c] # 0 => /\ request'[call[c]].phase = phase
                            /\ request'[call[c]].items = request[call[c]].items
      BY <1>1, <2>4, ReturnIs
    <3>2. call[c] = n => phase # "network"
      BY <1>2, <2>4 DEF InCall
    <3>3. request'[n].phase \notin {"new", "network"} /\ request'[n].items = request[n].items
      BY <1>2, <3>1, <3>2
    <3> QED
      BY <1>2, <2>4, <3>1, <3>3 DEF Sent, InCall
  <2>5. CASE SendFails(c)
    BY <2>4, <2>5 DEF SendFails, Refused
  <2>6. CASE Receive(c)
    BY <2>4, <2>6 DEF Receive
  <2>7. CASE TimeOut(c)
    BY <2>4, <2>7 DEF TimeOut
  <2> QED
    BY <1>5, <2>1, <2>2, <2>3, <2>5, <2>6, <2>7 DEF CallerStep
<1>6. ASSUME UNCHANGED callVars
      PROVE  Sent(n)' /\ request'[n].items = request[n].items
  BY <1>2, <1>6 DEF Sent, InCall
<1>7. ServerStep \/ LoopStep \/ LoseConnection \/ Terminated \/ UNCHANGED vars => UNCHANGED callVars
  BY DEF ServerStep, ReadRequest, SkipMessage, SendResponse, ResponseFails, ServerEnds,
         LoopStep, LoopAsks, LoopGets, HandleMessage, LoopEnds, LoseConnection, Terminated, vars
<1> QED
  BY <1>3, <1>4, <1>5, <1>6, <1>7 DEF Next

\* The batch of a request does not change once it has begun.
LEMMA ItemsStay ==
  ASSUME IInv, [Next]_vars, NEW n \in Ids, request[n].phase # "new"
  PROVE  request'[n].items = request[n].items
<1> USE DEF callVars, serverVars
<1>1. TypeOK /\ CallsInv
  BY DEF IInv, ClientInv
<1>2. ASSUME NEW c \in Callers, NEW batch \in Batches, BeginSchedule(c, batch)
      PROVE  request'[n].items = request[n].items
  <2>1. n # request_counter + 1
    <3>1. request_counter \in Nat /\ n \in Nat
      BY <1>1, ExternalAssumption, IdsAreNaturals DEF TypeOK
    <3>2. ~(n > request_counter)
      BY <1>1 DEF CallsInv
    <3> QED
      BY <3>1, <3>2
  <2> QED
    BY <1>1, <1>2, <2>1 DEF BeginSchedule, TypeOK
<1>3. ASSUME NEW c \in Callers, CallerStep(c)
      PROVE  request'[n].items = request[n].items
  <2>1. ASSUME NEW phase, NEW a, Return(c, phase, a)
        PROVE  request'[n].items = request[n].items
    BY <1>1, <2>1, ReturnIs, IdsAreNaturals
  <2> QED
    BY <1>3, <2>1 DEF CallerStep, OpenStream, FinishWrite, SendFails, Receive, TimerFires, TimeOut
<1>4. \/ \E c \in Callers : BeginReport(c)
      \/ ServerStep \/ LoopStep \/ LoseConnection \/ Terminated \/ UNCHANGED vars
      => UNCHANGED request
  BY DEF BeginReport, ServerStep, ReadRequest, SkipMessage, SendResponse, ResponseFails, ServerEnds,
         LoopStep, LoopAsks, LoopGets, HandleMessage, LoopEnds, LoseConnection, Terminated, vars
<1> QED
  BY <1>2, <1>3, <1>4 DEF Next

-----------------------------------------------------------------------------
(* What is on its way *)

\* After a step, what is on its way to a caller still answers its request.
LEMMA NextInFlight ==
  ASSUME IInv, [Next]_vars
  PROVE  \A r \in InFlight' : Answering(r)'
<1> USE DEF callVars, serverVars
<1>1. TypeOK /\ CallsInv /\ FlightInv
  BY DEF IInv, ClientInv
<1>2. ASSUME NEW r \in InFlight
      PROVE  Answering(r)'
  <2>1. Answering(r) /\ r \in Response
    BY <1>1 DEF FlightInv, InFlight, TypeOK
  <2>2. r.id \in Ids /\ Sent(r.id) /\ r.assignments \in AnswersTo(request[r.id].items)
    BY <2>1 DEF Answering, Response
  <2>3. Sent(r.id)' /\ request'[r.id].items = request[r.id].items
    BY <2>2, SentStays
  <2> QED
    BY <2>2, <2>3 DEF Answering
<1>3. CASE ReadRequest
  <2> DEFINE n == Head(toServer).id
             s == Schedule(Items(n), next_worker)
             new == [id |-> n, assignments |-> s.assignments]
  <2>1. /\ toServer # <<>> /\ Head(toServer).done /\ n # 0
        /\ serving' = <<new>> /\ toClient' = toClient /\ request' = request
    BY <1>3 DEF ReadRequest, Accepting
  <2>2. /\ Head(toServer) \in Stream /\ Head(toServer) = toServer[1] /\ 1 \in DOMAIN toServer
    BY <1>1, <2>1 DEF TypeOK
  <2>3. n \in Finished \ {0} /\ n \in Ids
    BY <2>1, <2>2 DEF Finished, Stream
  <2>4. Items(n) \in Batches /\ Sent(n)
    BY <1>1, <2>3 DEF FlightInv, Sent, CallsInv, Items
  <2>5. s.assignments \in AnswersTo(Items(n))
    BY <1>1, <2>4, NextWorkerType DEF TypeOK
  <2> HIDE DEF n, s
  <2>6. ASSUME NEW r \in InFlight' PROVE Answering(r)'
    <3>1. CASE r \in InFlight
      BY <1>2, <3>1
    <3>2. CASE r \notin InFlight
      <4>1. r = new
        BY <2>1, <3>2 DEF InFlight
      <4>2. r.id = n /\ r.assignments = s.assignments
        BY <4>1
      <4>3. PICK m \in Ids : m = n
        BY <2>3
      <4>4. Sent(m)'
        BY <2>4, <4>3, SentStays
      <4>5. r.id = m /\ r.assignments \in AnswersTo(request[m].items) /\ request' = request
        BY <2>1, <2>5, <4>2, <4>3 DEF Items
      <4> QED
        BY <4>4, <4>5 DEF Answering
    <3> QED
      BY <3>1, <3>2
  <2> QED
    BY <2>6
<1>4. CASE SendResponse
  <2>1. serving # <<>> /\ serving' = <<>> /\ toClient' = Append(toClient, Head(serving))
    BY <1>4 DEF SendResponse, CanRespond
  <2>2. Head(serving) = serving[1] /\ 1 \in DOMAIN serving
    BY <1>1, <2>1 DEF TypeOK
  <2>3. InFlight' \subseteq InFlight
    <3>1. \A i \in DOMAIN toClient' : toClient'[i] = Head(serving) \/ \E j \in DOMAIN toClient : toClient'[i] = toClient[j]
      BY <1>1, <2>1 DEF TypeOK
    <3> QED
      BY <2>1, <2>2, <3>1 DEF InFlight
  <2> QED
    BY <1>2, <2>3
<1>5. CASE ResponseFails
  BY <1>2, <1>5 DEF ResponseFails, InFlight
<1>6. CASE HandleMessage
  <2>1. \A i \in DOMAIN toClient' : \E j \in DOMAIN toClient : toClient'[i] = toClient[j]
    <3>1. toClient \in Seq(Response) /\ toClient # <<>> /\ toClient' = Tail(toClient)
      BY <1>1, <1>6 DEF HandleMessage, TypeOK
    <3>2. \A i \in DOMAIN Tail(toClient) : i + 1 \in DOMAIN toClient /\ Tail(toClient)[i] = toClient[i + 1]
      BY <3>1
    <3> QED
      BY <3>1, <3>2
  <2>2. InFlight' \subseteq InFlight
    BY <1>6, <2>1 DEF HandleMessage, InFlight
  <2> QED
    BY <1>2, <2>2
<1>7. ASSUME UNCHANGED <<serving, toClient>>
      PROVE  \A r \in InFlight' : Answering(r)'
  BY <1>2, <1>7 DEF InFlight
<1>8. \/ ReadRequest \/ SendResponse \/ ResponseFails \/ HandleMessage
      \/ UNCHANGED <<serving, toClient>>
  BY DEF Next, BeginSchedule, BeginReport, CallerStep, OpenStream, FinishWrite, SendFails, Receive,
         TimerFires, TimeOut, ServerStep, SkipMessage, ServerEnds, LoopStep, LoopAsks, LoopGets,
         LoopEnds, LoseConnection, Terminated, vars
<1> QED
  BY <1>3, <1>4, <1>5, <1>6, <1>7, <1>8

\* A message that was finished was sent whole, after every step.
LEMMA NextFinished ==
  ASSUME IInv, [Next]_vars
  PROVE  \A n \in Finished' \ {0} : Sent(n)'
<1> USE DEF callVars, serverVars
<1>1. TypeOK /\ CallsInv /\ FlightInv /\ QueueInv
  BY DEF IInv, ClientInv
<1>2. ASSUME NEW n \in Finished \ {0}
      PROVE  Sent(n)'
  <2>1. n \in Ids /\ Sent(n)
    <3>1. PICK i \in DOMAIN toServer : n = toServer[i].id
      BY DEF Finished
    <3>2. toServer[i] \in Stream
      BY <1>1 DEF TypeOK
    <3>3. n \in Ids
      BY <3>1, <3>2 DEF Stream
    <3> QED
      BY <1>1, <3>3 DEF FlightInv
  <2> QED
    BY <2>1, SentStays
<1>3. ASSUME NEW c \in Callers, OpenStream(c)
      PROVE  Finished' \subseteq Finished
  <2>1. toServer' = Append(toServer, [id |-> call[c], done |-> FALSE]) /\ toServer \in Seq(Stream)
    BY <1>1, <1>3 DEF OpenStream, TypeOK
  <2>2. \A i \in DOMAIN toServer' :
          toServer'[i].done => i \in DOMAIN toServer /\ toServer'[i] = toServer[i]
    BY <2>1
  <2> QED
    BY <2>2 DEF Finished
<1>4. ASSUME NEW c \in Callers, FinishWrite(c), NEW n \in Finished' \ {0}
      PROVE  Sent(n)'
  <2>1. PICK i \in DOMAIN toServer : n = toServer'[i].id /\ toServer'[i].done
    BY <1>4 DEF Finished, FinishWrite
  <2>2. toServer[i] \in [id : Ids \cup {0}, done : BOOLEAN]
    <3>1. toServer[i] \in Stream
      BY <1>1 DEF TypeOK
    <3> QED
      BY <3>1 DEF Stream
  <2>3. n = toServer[i].id /\ (toServer[i].done \/ n = call[c])
    BY <1>4, <2>1, <2>2 DEF FinishWrite, Unread
  <2>4. CASE toServer[i].done
    BY <1>2, <2>3, <2>4 DEF Finished
  <2>5. CASE n = call[c]
    <3>1. InCall(c) /\ cpc' = [cpc EXCEPT ![c] = "wait"] /\ UNCHANGED <<request, call>> /\ n \in Ids
      BY <1>4, <2>2, <2>3, <2>5 DEF FinishWrite, CanFinish, InCall
    <3>2. request[n].phase = "open"
      BY <1>1, <2>5, <3>1 DEF CallsInv
    <3>3. \A d \in Callers : InCall(d)' /\ call'[d] = n => d = c
      BY <1>1, <2>5, <3>1 DEF CallsInv, InCall, TypeOK
    <3>4. cpc'[c] = "wait"
      BY <1>1, <3>1 DEF TypeOK
    <3> QED
      BY <3>1, <3>2, <3>3, <3>4 DEF Sent
  <2> QED
    BY <2>3, <2>4, <2>5
<1>5. ASSUME toServer # <<>>, toServer' = Tail(toServer)
      PROVE  Finished' \subseteq Finished
  <2>1. toServer \in Seq(Stream)
    BY <1>1 DEF TypeOK
  <2>2. \A i \in DOMAIN Tail(toServer) : i + 1 \in DOMAIN toServer /\ Tail(toServer)[i] = toServer[i + 1]
    BY <1>5, <2>1
  <2> QED
    BY <1>5, <2>2 DEF Finished
<1>6. UNCHANGED toServer => Finished' = Finished
  BY DEF Finished
<1>7. \/ \E c \in Callers : OpenStream(c) \/ FinishWrite(c)
      \/ toServer # <<>> /\ toServer' = Tail(toServer)
      \/ UNCHANGED toServer
  BY DEF Next, BeginSchedule, BeginReport, CallerStep, SendFails, Receive, TimerFires, TimeOut,
         ServerStep, ReadRequest, SkipMessage, CanRead, Accepting, SendResponse, ResponseFails,
         ServerEnds, LoopStep, LoopAsks, LoopGets, HandleMessage, LoopEnds, LoseConnection,
         Terminated, vars
<1> QED
  BY <1>2, <1>3, <1>4, <1>5, <1>6, <1>7

\* What a caller has received are answers to its own request, after every step.
LEMMA NextReceived ==
  ASSUME IInv, [Next]_vars, NEW c \in Callers, InCall(c)'
  PROVE  /\ \A i \in DOMAIN received'[c] : received'[c][i] \in AnswersTo(request'[call'[c]].items)
         /\ cpc'[c] \in {"open", "write"} => received'[c] = <<>>
<1> USE DEF callVars, serverVars
<1>1. TypeOK /\ CallsInv /\ FlightInv
  BY DEF IInv, ClientInv
<1>2. /\ cpc \in [Callers -> {"idle", "open", "write", "wait", "expire"}]
      /\ call \in [Callers -> Ids \cup {0}]
      /\ received \in [Callers -> Seq(Answers)]
  BY <1>1 DEF TypeOK
<1>3. ASSUME InCall(c)
      PROVE  /\ request'[call[c]].items = request[call[c]].items
             /\ \A i \in DOMAIN received[c] : received[c][i] \in AnswersTo(request[call[c]].items)
             /\ cpc[c] \in {"open", "write"} => received[c] = <<>>
  <2>1. PICK n \in Ids : n = call[c]
    BY <1>2, <1>3 DEF InCall
  <2>2. request[n].phase # "new"
    BY <1>1, <1>3, <2>1 DEF CallsInv
  <2>3. request'[n].items = request[n].items
    BY <2>2, ItemsStay
  <2> QED
    BY <1>1, <1>3, <2>1, <2>3 DEF FlightInv
<1>4. ASSUME NEW d \in Callers, NEW batch \in Batches, BeginSchedule(d, batch)
      PROVE  /\ \A i \in DOMAIN received'[c] : received'[c][i] \in AnswersTo(request'[call'[c]].items)
             /\ cpc'[c] \in {"open", "write"} => received'[c] = <<>>
  <2>1. CASE d = c
    <3>1. received'[c] = <<>>
      BY <1>2, <1>4, <2>1 DEF BeginSchedule
    <3> QED
      BY <3>1
  <2>2. CASE d # c
    <3>1. received'[c] = received[c] /\ cpc'[c] = cpc[c] /\ call'[c] = call[c]
      BY <1>2, <1>4, <2>2 DEF BeginSchedule
    <3> QED
      BY <1>3, <3>1 DEF InCall
  <2> QED
    BY <2>1, <2>2
<1>5. ASSUME NEW d \in Callers, BeginReport(d) \/ CallerStep(d)
      PROVE  /\ \A i \in DOMAIN received'[c] : received'[c][i] \in AnswersTo(request'[call'[c]].items)
             /\ cpc'[c] \in {"open", "write"} => received'[c] = <<>>
  <2>1. CASE d # c
    <3>1. received'[c] = received[c] /\ cpc'[c] = cpc[c] /\ call'[c] = call[c]
      BY <1>2, <1>5, <2>1 DEF BeginReport, CallerStep, OpenStream, FinishWrite, SendFails, Receive,
                              TimerFires, TimeOut, Return
    <3> QED
      BY <1>3, <3>1 DEF InCall
  <2>2. CASE d = c
    <3>1. CASE OpenStream(c) \/ TimerFires(c)
      <4>1. /\ received'[c] = received[c] /\ call'[c] = call[c] /\ cpc[c] # "idle"
            /\ cpc'[c] \in {"open", "write"} => cpc[c] \in {"open", "write"}
        BY <1>2, <3>1 DEF OpenStream, CanOpen, TimerFires
      <4> QED
        BY <1>3, <4>1 DEF InCall
    <3>2. CASE FinishWrite(c)
      <4>1. /\ received'[c] = received[c] /\ call'[c] = call[c] /\ cpc[c] # "idle"
            /\ cpc'[c] \notin {"open", "write"}
        BY <1>2, <3>2 DEF FinishWrite, CanFinish, Return
      <4> QED
        BY <1>3, <4>1 DEF InCall
    <3>3. ~(BeginReport(c) \/ SendFails(c) \/ Receive(c) \/ TimeOut(c))
      BY <1>2 DEF BeginReport, SendFails, Receive, TimeOut, Return, InCall
    <3> QED
      BY <1>5, <2>2, <3>1, <3>2, <3>3 DEF CallerStep
  <2> QED
    BY <2>1, <2>2
<1>6. CASE HandleMessage
  <2> DEFINE r == Head(toClient)
  <2>1. UNCHANGED callVars
    BY <1>6 DEF HandleMessage
  <2>2. InCall(c) /\ call[c] \in Ids
    BY <1>2, <2>1 DEF InCall
  <2>3. CASE received'[c] = received[c]
    BY <1>3, <2>1, <2>2, <2>3
  <2>4. CASE received'[c] # received[c]
    <3>1. call[c] = r.id /\ received'[c] = Append(received[c], r.assignments)
      BY <1>6, <2>4 DEF HandleMessage, Deliver
    <3>2. r \in InFlight
      BY <1>1, <1>6 DEF HandleMessage, InFlight, TypeOK
    <3>3. Sent(r.id) /\ r.assignments \in AnswersTo(request[r.id].items)
      <4> HIDE DEF r
      <4> QED
        BY <1>1, <3>2 DEF FlightInv, Answering
    <3>4. cpc[c] \in {"wait", "expire"}
      BY <2>2, <3>1, <3>3 DEF Sent
    <3>5. received[c] \in Seq(Answers)
      BY <1>2
    <3> HIDE DEF r
    <3>6. ASSUME NEW i \in DOMAIN received'[c]
          PROVE  received'[c][i] \in AnswersTo(request[call[c]].items)
      <4>1. \/ i \in DOMAIN received[c] /\ received'[c][i] = received[c][i]
            \/ received'[c][i] = r.assignments
        BY <3>1, <3>5
      <4> QED
        BY <1>3, <2>2, <3>1, <3>3, <4>1
    <3> QED
      BY <2>1, <3>4, <3>6
  <2> QED
    BY <2>3, <2>4
<1>7. ASSUME UNCHANGED <<callVars, received>>
      PROVE  /\ \A i \in DOMAIN received'[c] : received'[c][i] \in AnswersTo(request'[call'[c]].items)
             /\ cpc'[c] \in {"open", "write"} => received'[c] = <<>>
  BY <1>3, <1>7 DEF InCall
<1>8. ServerStep \/ LoopAsks \/ LoopGets \/ LoopEnds \/ LoseConnection \/ Terminated \/ UNCHANGED vars
      => UNCHANGED <<callVars, received>>
  BY DEF ServerStep, ReadRequest, SkipMessage, SendResponse, ResponseFails, ServerEnds,
         LoopAsks, LoopGets, LoopEnds, LoseConnection, Terminated, vars
<1> QED
  BY <1>4, <1>5, <1>6, <1>7, <1>8 DEF Next, LoopStep

\* Every step keeps what is known of what is on its way.
LEMMA NextFlight ==
  ASSUME IInv, [Next]_vars
  PROVE  FlightInv'
BY NextFinished, NextInFlight, NextReceived DEF FlightInv

-----------------------------------------------------------------------------
(* pending_requests *)

\* Call c awaits the answer to request n.
Awaits(c, n) == InCall(c) /\ call[c] = n /\ received[c] = <<>>

\* Request n is in the table: the same as PendingExact, one request at a time.
Pends(n) == (\E c \in Callers : Awaits(c, n)) \/ request[n].phase = "network"

\* PendingExact, one id at a time.
LEMMA PendingPointwise ==
  ASSUME TypeOK
  PROVE  PendingExact <=> \A n \in Ids : n \in pending <=> Pends(n)
<1>1. \A c \in Callers : InCall(c) => call[c] \in Ids
  BY DEF InCall, TypeOK
<1>2. pending \subseteq Ids
  BY DEF TypeOK
<1>3. ASSUME PendingExact, NEW n \in Ids PROVE n \in pending <=> Pends(n)
  BY <1>3 DEF PendingExact, Pends, Awaits
<1>4. ASSUME \A n \in Ids : n \in pending <=> Pends(n) PROVE PendingExact
  BY <1>1, <1>2, <1>4 DEF PendingExact, Pends, Awaits
<1> QED
  BY <1>3, <1>4

\* Every step keeps the table of pending requests exact.
LEMMA NextPends ==
  ASSUME IInv, [Next]_vars, NEW n \in Ids
  PROVE  n \in pending' <=> Pends(n)'
<1> USE DEF callVars, serverVars
<1>1. TypeOK /\ CallsInv /\ FlightInv /\ QueueInv /\ (n \in pending <=> Pends(n)) /\ n # 0
  BY PendingPointwise, IdsAreNaturals DEF IInv, ClientInv
<1>2. /\ cpc \in [Callers -> {"idle", "open", "write", "wait", "expire"}]
      /\ call \in [Callers -> Ids \cup {0}]
      /\ received \in [Callers -> Seq(Answers)]
  BY <1>1 DEF TypeOK
<1>3. ASSUME NEW c \in Callers, NEW batch \in Batches, BeginSchedule(c, batch)
      PROVE  n \in pending' <=> Pends(n)'
  <2>1. PICK m : m = request_counter + 1
    OBVIOUS
  <2>2. /\ pending' = pending \cup {m}
        /\ call' = [call EXCEPT ![c] = m]
        /\ cpc[c] = "idle" /\ cpc' = [cpc EXCEPT ![c] = "open"]
        /\ received' = [received EXCEPT ![c] = <<>>]
    BY <1>3, <2>1 DEF BeginSchedule
  <2>3. CASE n = m
    <3>1. Awaits(c, n)'
      BY <1>1, <1>2, <2>2, <2>3 DEF Awaits, InCall
    <3> QED
      BY <2>2, <2>3, <3>1 DEF Pends
  <2>4. CASE n # m
    <3>1. \A d \in Callers : Awaits(d, n)' <=> Awaits(d, n)
      BY <1>2, <2>2, <2>4 DEF Awaits, InCall
    <3>2. request'[n] = request[n]
      BY <1>1, <1>3, <2>1, <2>4 DEF BeginSchedule, TypeOK
    <3> QED
      BY <1>1, <2>2, <2>4, <3>1, <3>2 DEF Pends
  <2> QED
    BY <2>3, <2>4
<1>4. ASSUME \A d \in Callers : Awaits(d, n)' <=> Awaits(d, n), UNCHANGED <<request, pending>>
      PROVE  n \in pending' <=> Pends(n)'
  BY <1>1, <1>4 DEF Pends
<1>5. ASSUME NEW c \in Callers, BeginReport(c)
      PROVE  n \in pending' <=> Pends(n)'
  <2>1. \A d \in Callers : Awaits(d, n)' <=> Awaits(d, n)
    BY <1>1, <1>2, <1>5 DEF BeginReport, Awaits, InCall
  <2> QED
    BY <1>4, <1>5, <2>1 DEF BeginReport
<1>6. ASSUME NEW c \in Callers, OpenStream(c) \/ FinishWrite(c) \/ TimerFires(c)
      PROVE  n \in pending' <=> Pends(n)'
  <2>1. UNCHANGED <<request, pending, received, call>>
    BY <1>6 DEF OpenStream, FinishWrite, TimerFires, Return
  <2>2. \A d \in Callers : InCall(d)' <=> InCall(d)
    BY <1>2, <1>6 DEF OpenStream, CanOpen, FinishWrite, CanFinish, TimerFires, Return, InCall
  <2>3. \A d \in Callers : Awaits(d, n)' <=> Awaits(d, n)
    BY <2>1, <2>2 DEF Awaits
  <2> QED
    BY <1>4, <2>1, <2>3
<1>7. ASSUME NEW c \in Callers, NEW phase \in {"network", "timeout", "answered", "invalid"}, NEW a,
             Return(c, phase, a), cpc[c] # "idle", UNCHANGED call,
             \A d \in Callers \ {c} : received'[d] = received[d]
      PROVE  /\ ~ Awaits(c, n)'
             /\ \A d \in Callers \ {c} : Awaits(d, n)' <=> Awaits(d, n)
             /\ call[c] # n => request'[n] = request[n] /\ ~ Awaits(c, n)
             /\ call[c] = n => /\ request[n].phase = "open" /\ request'[n].phase = phase
                               /\ \A d \in Callers \ {c} : ~ Awaits(d, n)
  <2>1. /\ cpc' = [cpc EXCEPT ![c] = "idle"]
        /\ n # call[c] => request'[n] = request[n]
        /\ n = call[c] => request'[n].phase = phase
    BY <1>1, <1>7, ReturnIs
  <2>2. \A d \in Callers \ {c} : Awaits(d, n)' <=> Awaits(d, n)
    BY <1>2, <1>7, <2>1 DEF Awaits, InCall
  <2>3. ~ Awaits(c, n)'
    BY <1>2, <2>1 DEF Awaits, InCall
  <2>4. call[c] = n => InCall(c) /\ request[n].phase = "open" /\ \A d \in Callers \ {c} : ~ Awaits(d, n)
    BY <1>1, <1>7 DEF CallsInv, InCall, Awaits
  <2> QED
    BY <2>1, <2>2, <2>3, <2>4 DEF Awaits
<1>8. ASSUME NEW c \in Callers, SendFails(c)
      PROVE  n \in pending' <=> Pends(n)'
  <2>1. /\ cpc[c] \in {"open", "write"} /\ Return(c, "network", <<>>)
        /\ UNCHANGED <<call, received, pending>>
    BY <1>8 DEF SendFails, Refused
  <2>2. call[c] = n => Awaits(c, n)
    BY <1>1, <2>1 DEF FlightInv, Awaits, InCall
  <2> QED
    BY <1>1, <1>7, <2>1, <2>2 DEF Pends
<1>9. ASSUME NEW c \in Callers, Receive(c)
      PROVE  n \in pending' <=> Pends(n)'
  <2>1. PICK phase \in {"answered", "invalid"}, a \in {<<>>, Head(received[c])} : Return(c, phase, a)
    BY <1>9 DEF Receive
  <2>2. /\ cpc[c] = "wait" /\ UNCHANGED <<call, pending>> /\ received[c] # <<>>
        /\ received' = [received EXCEPT ![c] = <<>>]
    BY <1>9 DEF Receive
  <2>3. \A d \in Callers \ {c} : received'[d] = received[d]
    BY <1>2, <2>2
  <2>4. ~ Awaits(c, n)
    BY <2>2 DEF Awaits
  <2> QED
    BY <1>1, <1>7, <2>1, <2>2, <2>3, <2>4 DEF Pends
<1>10. ASSUME NEW c \in Callers, TimeOut(c)
       PROVE  n \in pending' <=> Pends(n)'
  <2>1. /\ cpc[c] = "expire" /\ Return(c, "timeout", <<>>) /\ UNCHANGED <<call, received>>
        /\ pending' = pending \ {call[c]}
    BY <1>10 DEF TimeOut
  <2> QED
    BY <1>1, <1>7, <2>1 DEF Pends
<1>11. CASE HandleMessage
  <2> DEFINE r == Head(toClient)
  <2>1. UNCHANGED callVars
    BY <1>11 DEF HandleMessage
  <2>2. r \in InFlight
    BY <1>1, <1>11 DEF HandleMessage, InFlight, TypeOK
  <2>3. Sent(r.id)
    <3> HIDE DEF r
    <3> QED
      BY <1>1, <2>2 DEF FlightInv, Answering
  <2>4. CASE r.id \notin pending
    <3>1. UNCHANGED <<pending, received>>
      BY <1>11, <2>4 DEF HandleMessage
    <3>2. \A d \in Callers : Awaits(d, n)' <=> Awaits(d, n)
      BY <2>1, <3>1 DEF Awaits, InCall
    <3> QED
      BY <1>4, <2>1, <3>1, <3>2
  <2>5. CASE r.id \in pending
    <3>1. /\ pending' = pending \ {r.id}
          /\ \A c \in Callers : received'[c] = IF call[c] = r.id /\ cpc[c] # "idle"
                                               THEN Append(received[c], r.assignments)
                                               ELSE received[c]
      BY <1>11, <2>5 DEF HandleMessage, Deliver
    <3>2. CASE n = r.id
      <4>1. \A c \in Callers : InCall(c) /\ call[c] = n => received'[c] # <<>>
        <5> SUFFICES ASSUME NEW c \in Callers, InCall(c), call[c] = n PROVE received'[c] # <<>>
          OBVIOUS
        <5>1. received'[c] = Append(received[c], r.assignments)
          BY <3>1, <3>2 DEF InCall
        <5>2. received[c] \in Seq(Answers)
          BY <1>2
        <5>3. Append(received[c], r.assignments) # <<>>
          BY <5>2, AppendNotEmpty
        <5> QED
          BY <5>1, <5>3
      <4>2. request'[n].phase # "network"
        BY <2>1, <2>3, <3>2 DEF Sent
      <4> QED
        BY <2>1, <3>1, <3>2, <4>1, <4>2 DEF Pends, Awaits, InCall
    <3>3. CASE n # r.id
      <4>1. \A d \in Callers : Awaits(d, n)' <=> Awaits(d, n)
        BY <2>1, <3>1, <3>3 DEF Awaits, InCall
      <4> QED
        BY <1>1, <2>1, <3>1, <3>3, <4>1 DEF Pends
    <3> QED
      BY <3>2, <3>3
  <2> QED
    BY <2>4, <2>5
<1>12. ServerStep \/ LoopAsks \/ LoopGets \/ LoopEnds \/ LoseConnection \/ Terminated \/ UNCHANGED vars
       => UNCHANGED <<callVars, received, pending>>
  BY DEF ServerStep, ReadRequest, SkipMessage, SendResponse, ResponseFails, ServerEnds,
         LoopAsks, LoopGets, LoopEnds, LoseConnection, Terminated, vars
<1>13. ASSUME UNCHANGED <<callVars, received, pending>>
       PROVE  n \in pending' <=> Pends(n)'
  <2>1. \A d \in Callers : Awaits(d, n)' <=> Awaits(d, n)
    BY <1>13 DEF Awaits, InCall
  <2> QED
    BY <1>4, <1>13, <2>1
<1> QED
  BY <1>3, <1>5, <1>6, <1>8, <1>9, <1>10, <1>11, <1>12, <1>13 DEF Next, LoopStep, CallerStep

-----------------------------------------------------------------------------
(* The mutex and the streams *)

\* Who joins a queue of different callers is in it once, and last.
LEMMA Joins ==
  ASSUME NEW S, NEW q \in Seq(S), NEW x \in S, \A i, j \in DOMAIN q : q[i] = q[j] => i = j,
         \A i \in DOMAIN q : q[i] # x, NEW r, r = Append(q, x)
  PROVE  /\ \A i, j \in DOMAIN r : r[i] = r[j] => i = j
         /\ \A y : (\E i \in DOMAIN r : r[i] = y) <=> (\E i \in DOMAIN q : q[i] = y) \/ y = x
         /\ q # <<>> => r # <<>> /\ Head(r) = Head(q)
<1>1. /\ Len(q) \in Nat /\ DOMAIN q = 1 .. Len(q) /\ DOMAIN r = 1 .. Len(q) + 1
      /\ r[Len(q) + 1] = x /\ \A i \in DOMAIN q : r[i] = q[i]
  OBVIOUS
<1>2. q # <<>> => r # <<>> /\ Head(r) = Head(q)
  OBVIOUS
<1>3. \A i \in DOMAIN r : i \in DOMAIN q \/ i = Len(q) + 1
  BY <1>1
<1>4. Len(q) + 1 \in DOMAIN r /\ \A i \in DOMAIN q : i \in DOMAIN r
  BY <1>1
<1>5. \A i, j \in DOMAIN r : r[i] = r[j] => i = j
  BY <1>1, <1>3
<1>6. \A y : (\E i \in DOMAIN r : r[i] = y) <=> (\E i \in DOMAIN q : q[i] = y) \/ y = x
  BY <1>1, <1>3, <1>4
<1> QED
  BY <1>2, <1>5, <1>6

\* When the first leaves, the others stay, once each.
LEMMA Leaves ==
  ASSUME NEW S, NEW q \in Seq(S), q # <<>>, \A i, j \in DOMAIN q : q[i] = q[j] => i = j,
         NEW x \in S, x = Head(q), NEW r, r = Tail(q)
  PROVE  /\ \A i, j \in DOMAIN r : r[i] = r[j] => i = j
         /\ \A i \in DOMAIN r : r[i] # x /\ \E j \in DOMAIN q : q[j] = r[i]
<1>1. /\ Len(q) \in Nat /\ Len(q) > 0 /\ DOMAIN q = 1 .. Len(q) /\ DOMAIN r = 1 .. Len(q) - 1
      /\ x = q[1] /\ \A i \in DOMAIN r : r[i] = q[i + 1]
  OBVIOUS
<1>2. /\ \A i \in DOMAIN r : i + 1 \in DOMAIN q /\ i + 1 # 1 /\ i \in Nat
      /\ 1 \in DOMAIN q
  BY <1>1
<1>3. \A i, j \in DOMAIN r : r[i] = r[j] => i = j
  BY <1>1, <1>2
<1>4. \A i \in DOMAIN r : r[i] # x /\ \E j \in DOMAIN q : q[j] = r[i]
  BY <1>1, <1>2
<1> QED
  BY <1>3, <1>4

\* Who is not the first is still in the queue when the first has left.
LEMMA Remain ==
  ASSUME NEW S, NEW q \in Seq(S), q # <<>>, NEW x \in S, x = Head(q), NEW r, r = Tail(q),
         NEW j \in DOMAIN q, q[j] # x
  PROVE  \E i \in DOMAIN r : r[i] = q[j]
<1>1. /\ Len(q) \in Nat /\ DOMAIN q = 1 .. Len(q) /\ DOMAIN r = 1 .. Len(q) - 1
      /\ x = q[1] /\ \A i \in DOMAIN r : r[i] = q[i + 1]
  OBVIOUS
<1>2. j - 1 \in DOMAIN r /\ r[j - 1] = q[j]
  BY <1>1
<1> QED
  BY <1>2

\* Every step keeps the queue of the mutex exact.
LEMMA NextQueue ==
  ASSUME IInv, [Next]_vars
  PROVE  QueueInv'
<1> USE DEF callVars, serverVars
<1>1. QueueInv /\ Loop \notin Callers
  BY ExternalAssumption DEF IInv
<1>2. /\ cpc \in [Callers -> {"idle", "open", "write", "wait", "expire"}]
      /\ connq \in Seq(Callers \cup {Loop})
  BY DEF IInv, ClientInv, TypeOK
<1>3. ASSUME NEW x \in Callers \cup {Loop}, ~Queued(x), connq' = Append(connq, x)
      PROVE  /\ \A i, j \in DOMAIN connq' : connq'[i] = connq'[j] => i = j
             /\ \A y : Queued(y)' <=> Queued(y) \/ y = x
             /\ \A y : Holds(y) => Holds(y)'
  BY <1>1, <1>2, <1>3, Joins DEF QueueInv, Queued, Holds
<1>4. ASSUME NEW x \in Callers \cup {Loop}, Holds(x), connq' = Tail(connq)
      PROVE  /\ \A i, j \in DOMAIN connq' : connq'[i] = connq'[j] => i = j
             /\ \A y : Queued(y)' <=> Queued(y) /\ y # x
             /\ \A c \in Callers : cpc[c] = "write" => c = x
  <2>1. connq # <<>> /\ Head(connq) = x
    BY <1>4 DEF Holds
  <2>2. /\ \A i, j \in DOMAIN connq' : connq'[i] = connq'[j] => i = j
        /\ \A y : Queued(y)' <=> Queued(y) /\ y # x
    <3>1. PICK S, q, r : S = Callers \cup {Loop} /\ q = connq /\ r = connq'
      OBVIOUS
    <3>2. q \in Seq(S) /\ q # <<>> /\ x = Head(q) /\ r = Tail(q)
      BY <1>2, <1>4, <2>1, <3>1
    <3>3. \A i, j \in DOMAIN q : q[i] = q[j] => i = j
      BY <1>1, <3>1 DEF QueueInv
    <3>4. /\ \A i, j \in DOMAIN r : r[i] = r[j] => i = j
          /\ \A i \in DOMAIN r : r[i] # x /\ \E j \in DOMAIN q : q[j] = r[i]
          /\ \A j \in DOMAIN q : q[j] = x \/ \E i \in DOMAIN r : r[i] = q[j]
      <4>1. x \in S
        BY <3>1
      <4>2. \A i, j \in DOMAIN r : r[i] = r[j] => i = j
        BY <3>2, <3>3, <4>1, Leaves
      <4>3. \A i \in DOMAIN r : r[i] # x /\ \E j \in DOMAIN q : q[j] = r[i]
        BY <3>2, <3>3, <4>1, Leaves
      <4>4. \A j \in DOMAIN q : q[j] = x \/ \E i \in DOMAIN r : r[i] = q[j]
        BY <3>2, <4>1, Remain
      <4> QED
        BY <4>2, <4>3, <4>4
    <3>5. \A y : (\E i \in DOMAIN r : r[i] = y) <=> (\E i \in DOMAIN q : q[i] = y) /\ y # x
      BY <3>4
    <3> QED
      BY <3>1, <3>4, <3>5 DEF Queued
  <2>3. \A c \in Callers : cpc[c] = "write" => c = x
    BY <1>1, <2>1 DEF QueueInv, Holds
  <2> QED
    BY <2>1, <2>2, <2>3
<1>5. ASSUME NEW c \in Callers, cpc[c] = "idle", connq' = Append(connq, c),
             cpc' = [cpc EXCEPT ![c] = "open"], UNCHANGED lpc
      PROVE  QueueInv'
  <2>1. ~Queued(c)
    BY <1>1, <1>5 DEF QueueInv
  <2> QED
    BY <1>1, <1>2, <1>3, <1>5, <2>1 DEF QueueInv
<1>6. ASSUME NEW c \in Callers, cpc[c] \in {"open", "write"}, Holds(c), connq' = Tail(connq),
             NEW to \in {"idle", "wait"}, cpc' = [cpc EXCEPT ![c] = to], UNCHANGED lpc
      PROVE  QueueInv'
  BY <1>1, <1>2, <1>4, <1>6 DEF QueueInv
<1>7. ASSUME NEW c \in Callers, CallerStep(c)
      PROVE  QueueInv'
  <2>1. CASE OpenStream(c)
    <3>1. /\ Holds(c) /\ cpc[c] = "open" /\ cpc' = [cpc EXCEPT ![c] = "write"]
          /\ UNCHANGED <<connq, lpc>>
      BY <2>1 DEF OpenStream, CanOpen
    <3> QED
      BY <1>1, <1>2, <3>1 DEF QueueInv, Queued, Holds
  <2>2. CASE FinishWrite(c)
    <3>1. /\ cpc[c] = "write" /\ connq' = Tail(connq) /\ UNCHANGED lpc
          /\ cpc' = [cpc EXCEPT ![c] = "idle"] \/ cpc' = [cpc EXCEPT ![c] = "wait"]
      BY <2>2 DEF FinishWrite, CanFinish, Return
    <3>2. Holds(c)
      BY <1>1, <3>1 DEF QueueInv
    <3> QED
      BY <1>6, <3>1, <3>2
  <2>3. CASE SendFails(c)
    <3>1. /\ cpc[c] \in {"open", "write"} /\ connq' = Tail(connq) /\ UNCHANGED lpc
          /\ cpc' = [cpc EXCEPT ![c] = "idle"]
      BY <2>3 DEF SendFails, Refused, Return
    <3>2. Holds(c)
      BY <1>1, <2>3 DEF QueueInv, SendFails, Refused
    <3> QED
      BY <1>6, <3>1, <3>2
  <2>4. CASE Receive(c) \/ TimerFires(c) \/ TimeOut(c)
    <3>1. /\ cpc[c] \in {"wait", "expire"} /\ UNCHANGED <<connq, lpc>>
          /\ cpc' = [cpc EXCEPT ![c] = "idle"] \/ cpc' = [cpc EXCEPT ![c] = "expire"]
      BY <2>4 DEF Receive, TimerFires, TimeOut, Return
    <3> QED
      BY <1>1, <1>2, <3>1 DEF QueueInv, Queued, Holds
  <2> QED
    BY <1>7, <2>1, <2>2, <2>3, <2>4 DEF CallerStep
<1>8. CASE LoopAsks
  <2>1. lpc = "ask" /\ connq' = Append(connq, Loop) /\ lpc' = "queued" /\ UNCHANGED cpc
    BY <1>8 DEF LoopAsks
  <2>2. ~Queued(Loop)
    BY <1>1, <2>1 DEF QueueInv
  <2> QED
    BY <1>1, <1>3, <2>1, <2>2 DEF QueueInv
<1>9. CASE LoopGets
  <2>1. Holds(Loop) /\ connq' = Tail(connq) /\ lpc' = "accept" /\ UNCHANGED cpc
    BY <1>9 DEF LoopGets
  <2> QED
    BY <1>1, <1>4, <2>1 DEF QueueInv
<1>10. ASSUME UNCHANGED <<connq, cpc>>, lpc' = "queued" <=> lpc = "queued"
       PROVE  QueueInv'
  BY <1>1, <1>10 DEF QueueInv, Queued, Holds
<1>11. HandleMessage \/ LoopEnds \/ ServerStep \/ LoseConnection \/ Terminated \/ UNCHANGED vars
       => UNCHANGED <<connq, cpc>> /\ (lpc' = "queued" <=> lpc = "queued")
  BY DEF HandleMessage, LoopEnds, ServerStep, ReadRequest, SkipMessage, SendResponse, ResponseFails,
         ServerEnds, LoseConnection, Terminated, vars
<1>12. ASSUME NEW c \in Callers, BeginReport(c) \/ \E batch \in Batches : BeginSchedule(c, batch)
       PROVE  QueueInv'
  BY <1>5, <1>12 DEF BeginReport, BeginSchedule
<1> QED
  BY <1>7, <1>8, <1>9, <1>10, <1>11, <1>12 DEF Next, LoopStep

\* Every step keeps the writer first in the queue and the stream his.
LEMMA NextWriter ==
  ASSUME IInv, [Next]_vars
  PROVE  WriterInv'
<1> USE DEF callVars, serverVars
<1>1. TypeOK /\ QueueInv /\ WriterInv
  BY DEF IInv, ClientInv
<1>2. /\ cpc \in [Callers -> {"idle", "open", "write", "wait", "expire"}]
      /\ call \in [Callers -> Ids \cup {0}]
      /\ toServer \in Seq(Stream)
      /\ lost \in BOOLEAN
  BY <1>1 DEF TypeOK
<1>3. \A c, d \in Callers : cpc[c] = "write" /\ Holds(d) => c = d
  BY <1>1 DEF QueueInv, Holds
<1>4. ASSUME Unfinished' \subseteq Unfinished, lost => lost',
             \A c \in Callers : cpc[c] = "write" => cpc'[c] = "write" /\ call'[c] = call[c]
      PROVE  WriterInv'
  BY <1>1, <1>4 DEF WriterInv
<1>5. ASSUME NEW c \in Callers, BeginReport(c) \/ \E batch \in Batches : BeginSchedule(c, batch)
      PROVE  WriterInv'
  <2>1. /\ cpc[c] = "idle" /\ cpc' = [cpc EXCEPT ![c] = "open"] /\ UNCHANGED <<toServer, lost>>
        /\ \A d \in Callers \ {c} : call'[d] = call[d]
    BY <1>2, <1>5 DEF BeginReport, BeginSchedule
  <2> QED
    BY <1>2, <1>4, <2>1 DEF Unfinished
<1>6. ASSUME NEW c \in Callers, OpenStream(c)
      PROVE  WriterInv'
  <2> DEFINE new == [id |-> call[c], done |-> FALSE]
  <2>1. /\ cpc[c] = "open" /\ cpc' = [cpc EXCEPT ![c] = "write"] /\ UNCHANGED <<call, lost>>
        /\ toServer' = Append(toServer, new)
    BY <1>6 DEF OpenStream, CanOpen
  <2>2. \A i \in DOMAIN toServer' :
          toServer'[i] = new \/ (i \in DOMAIN toServer /\ toServer'[i] = toServer[i])
    <3> HIDE DEF new
    <3> QED
      BY <1>2, <2>1
  <2>3. \A n \in Unfinished' : n = call[c] \/ n \in Unfinished
    BY <2>2 DEF Unfinished
  <2>4. cpc'[c] = "write" /\ \A d \in Callers : cpc[d] = "write" => cpc'[d] = "write"
    BY <1>2, <2>1
  <2> QED
    BY <1>1, <2>1, <2>3, <2>4 DEF WriterInv
<1>7. ASSUME NEW c \in Callers, FinishWrite(c)
      PROVE  WriterInv'
  <2>1. Unfinished' = {}
    <3> SUFFICES ASSUME NEW n \in Unfinished' PROVE FALSE
      OBVIOUS
    <3>1. PICK i \in DOMAIN toServer : n = toServer'[i].id /\ ~toServer'[i].done
      BY <1>7 DEF Unfinished, FinishWrite
    <3>2. toServer[i] \in [id : Ids \cup {0}, done : BOOLEAN]
      <4>1. toServer[i] \in Stream
        BY <1>2
      <4> QED
        BY <4>1 DEF Stream
    <3>3. ~toServer[i].done /\ i \notin Unread(c)
      BY <1>7, <3>1, <3>2 DEF FinishWrite
    <3>4. toServer[i].id \in Unfinished
      BY <3>3 DEF Unfinished
    <3>5. ~lost /\ Holds(c)
      BY <1>1, <1>7 DEF FinishWrite, CanFinish, QueueInv
    <3>6. PICK d \in Callers : cpc[d] = "write" /\ call[d] = toServer[i].id
      BY <1>1, <3>4, <3>5 DEF WriterInv
    <3>7. d = c
      BY <1>3, <3>5, <3>6
    <3> QED
      BY <3>3, <3>6, <3>7 DEF Unread
  <2> QED
    BY <2>1 DEF WriterInv
<1>8. ASSUME NEW c \in Callers, SendFails(c)
      PROVE  WriterInv'
  <2>1. UNCHANGED <<toServer, lost>>
    BY <1>8 DEF SendFails
  <2>2. CASE lost
    BY <2>1, <2>2 DEF WriterInv
  <2>3. CASE ~lost
    <3>1. Refused(c) /\ Holds(c)
      BY <1>1, <1>8, <2>3 DEF SendFails, QueueInv, Refused
    <3>2. Unfinished = {}
      <4> SUFFICES ASSUME NEW n \in Unfinished PROVE FALSE
        OBVIOUS
      <4>1. PICK i \in DOMAIN toServer : n = toServer[i].id /\ ~toServer[i].done
        BY DEF Unfinished
      <4>2. PICK d \in Callers : cpc[d] = "write" /\ call[d] = n
        BY <1>1, <2>3 DEF WriterInv
      <4>3. d = c
        BY <1>3, <3>1, <4>2
      <4> QED
        BY <3>1, <4>1, <4>2, <4>3 DEF Refused, Unread
    <3> QED
      BY <2>1, <3>2 DEF WriterInv, Unfinished
  <2> QED
    BY <2>2, <2>3
<1>9. ASSUME NEW c \in Callers, Receive(c) \/ TimerFires(c) \/ TimeOut(c)
      PROVE  WriterInv'
  <2>1. /\ cpc[c] \in {"wait", "expire"} /\ UNCHANGED <<toServer, lost, call>>
        /\ cpc' = [cpc EXCEPT ![c] = "idle"] \/ cpc' = [cpc EXCEPT ![c] = "expire"]
    BY <1>9 DEF Receive, TimerFires, TimeOut, Return
  <2> QED
    BY <1>2, <1>4, <2>1 DEF Unfinished
<1>10. ASSUME toServer # <<>>, toServer' = Tail(toServer), UNCHANGED <<callVars, lost>>
       PROVE  WriterInv'
  <2>1. \A i \in DOMAIN Tail(toServer) : i + 1 \in DOMAIN toServer /\ Tail(toServer)[i] = toServer[i + 1]
    BY <1>2, <1>10
  <2>2. Unfinished' \subseteq Unfinished
    BY <1>10, <2>1 DEF Unfinished
  <2> QED
    BY <1>4, <1>10, <2>2
<1>11. ASSUME UNCHANGED <<callVars, toServer>>, lost => lost'
       PROVE  WriterInv'
  BY <1>4, <1>11 DEF Unfinished
<1>12. ReadRequest \/ SkipMessage
       => toServer # <<>> /\ toServer' = Tail(toServer) /\ UNCHANGED <<callVars, lost>>
  BY DEF ReadRequest, SkipMessage, CanRead, Accepting
<1>13. SendResponse \/ ResponseFails \/ ServerEnds \/ LoopStep \/ LoseConnection \/ Terminated \/ UNCHANGED vars
       => UNCHANGED <<callVars, toServer>> /\ (lost => lost')
  BY DEF SendResponse, ResponseFails, ServerEnds, LoopStep, LoopAsks, LoopGets, HandleMessage,
         LoopEnds, LoseConnection, Terminated, vars
<1> QED
  BY <1>5, <1>6, <1>7, <1>8, <1>9, <1>10, <1>11, <1>12, <1>13 DEF Next, ServerStep, CallerStep

\* Every step keeps the streams within their limits and the loop alive.
LEMMA NextLink ==
  ASSUME IInv, [Next]_vars
  PROVE  LinkInv'
<1> USE DEF callVars, serverVars
<1>1. TypeOK /\ LinkInv /\ MaxStreams \in Nat
  BY ExternalAssumption DEF IInv, ClientInv
<1>2. /\ toServer \in Seq(Stream) /\ toClient \in Seq(Response)
      /\ Len(toServer) \in Nat /\ Len(toClient) \in Nat
      /\ Len(toServer) <= MaxStreams /\ Len(toClient) <= MaxStreams
  BY <1>1 DEF TypeOK, LinkInv
<1>3. Len(toServer') <= MaxStreams
  <2>1. \A s : Len(Append(toServer, s)) = Len(toServer) + 1
    OBVIOUS
  <2>2. ASSUME NEW c \in Callers, OpenStream(c) PROVE Len(toServer') <= MaxStreams
    <3>1. toServer' = Append(toServer, [id |-> call[c], done |-> FALSE]) /\ Len(toServer) < MaxStreams
      BY <2>2 DEF OpenStream, CanOpen
    <3>2. PICK s : s = [id |-> call[c], done |-> FALSE]
      OBVIOUS
    <3>3. Len(toServer') = Len(toServer) + 1
      <4>1. toServer \in Seq(Stream \cup {s})
        BY <1>2
      <4> QED
        BY <3>1, <3>2, <4>1
    <3> QED
      BY <1>1, <1>2, <3>1, <3>3
  <2>3. ASSUME NEW c \in Callers, FinishWrite(c) PROVE Len(toServer') <= MaxStreams
    <3>1. DOMAIN toServer' = DOMAIN toServer
      BY <2>3 DEF FinishWrite
    <3>2. PICK q : q = toServer'
      OBVIOUS
    <3>3. q \in Seq(Stream)
      BY <3>2, NextTypes DEF TypeOK
    <3>4. DOMAIN q = 1 .. Len(q) /\ DOMAIN toServer = 1 .. Len(toServer) /\ Len(q) \in Nat
      BY <1>2, <3>3
    <3>5. Len(q) <= Len(toServer)
      <4> SUFFICES ASSUME Len(q) > Len(toServer) PROVE FALSE
        BY <1>2, <3>4
      <4>1. Len(q) \in DOMAIN q /\ Len(q) \notin DOMAIN toServer
        BY <1>2, <3>4
      <4> QED
        BY <3>1, <3>2, <4>1
    <3> QED
      BY <1>1, <1>2, <3>2, <3>4, <3>5
  <2>4. ASSUME toServer # <<>>, toServer' = Tail(toServer) PROVE Len(toServer') <= MaxStreams
    BY <1>1, <1>2, <2>4
  <2>5. ASSUME UNCHANGED toServer PROVE Len(toServer') <= MaxStreams
    BY <1>2, <2>5
  <2>6. \/ \E c \in Callers : OpenStream(c) \/ FinishWrite(c)
        \/ toServer # <<>> /\ toServer' = Tail(toServer)
        \/ UNCHANGED toServer
    BY DEF Next, BeginSchedule, BeginReport, CallerStep, SendFails, Receive, TimerFires, TimeOut,
           ServerStep, ReadRequest, SkipMessage, CanRead, Accepting, SendResponse, ResponseFails,
           ServerEnds, LoopStep, LoopAsks, LoopGets, HandleMessage, LoopEnds, LoseConnection,
           Terminated, vars
  <2> QED
    BY <2>2, <2>3, <2>4, <2>5, <2>6
<1>4. Len(toClient') <= MaxStreams
  <2>1. ASSUME SendResponse PROVE Len(toClient') <= MaxStreams
    <3>1. /\ serving # <<>> /\ Len(toClient) < MaxStreams
          /\ toClient' = Append(toClient, Head(serving))
      BY <2>1 DEF SendResponse, CanRespond
    <3>2. Head(serving) \in Response
      BY <1>1, <3>1 DEF TypeOK
    <3>3. Len(toClient') = Len(toClient) + 1
      BY <1>2, <3>1, <3>2
    <3> QED
      BY <1>1, <1>2, <3>1, <3>3
  <2>2. ASSUME HandleMessage PROVE Len(toClient') <= MaxStreams
    <3>1. toClient # <<>> /\ toClient' = Tail(toClient)
      BY <2>2 DEF HandleMessage
    <3> QED
      BY <1>1, <1>2, <3>1
  <2>3. SendResponse \/ HandleMessage \/ UNCHANGED toClient
    BY DEF Next, BeginSchedule, BeginReport, CallerStep, OpenStream, FinishWrite, SendFails, Receive,
           TimerFires, TimeOut, ServerStep, ReadRequest, SkipMessage, ResponseFails, ServerEnds,
           LoopStep, LoopAsks, LoopGets, LoopEnds, LoseConnection, Terminated, vars
  <2> QED
    BY <1>2, <2>1, <2>2, <2>3
<1>5. /\ lost => lost'
      /\ spc' # spc => lost
      /\ lpc' # lpc => lpc' # "ended" \/ lost
  <2>1. ASSUME NEW c \in Callers,
               CallerStep(c) \/ BeginReport(c) \/ \E batch \in Batches : BeginSchedule(c, batch)
        PROVE  UNCHANGED <<spc, lpc, lost>>
    BY <2>1 DEF BeginSchedule, BeginReport, CallerStep, OpenStream, FinishWrite, SendFails,
                Receive, TimerFires, TimeOut
  <2>2. ServerStep => UNCHANGED <<lpc, lost>> /\ (spc' # spc => lost)
    BY DEF ServerStep, ReadRequest, SkipMessage, SendResponse, ResponseFails, ServerEnds
  <2>3. LoopStep => UNCHANGED <<spc, lost>> /\ (lpc' # lpc => lpc' # "ended" \/ lost)
    BY DEF LoopStep, LoopAsks, LoopGets, HandleMessage, LoopEnds
  <2>4. LoseConnection => lost' /\ UNCHANGED <<spc, lpc>>
    BY DEF LoseConnection
  <2>5. Terminated \/ UNCHANGED vars => UNCHANGED <<spc, lpc, lost>>
    BY DEF Terminated, vars
  <2> QED
    BY <2>1, <2>2, <2>3, <2>4, <2>5 DEF Next
<1> QED
  BY <1>1, <1>3, <1>4, <1>5 DEF LinkInv, LoopSurvives

\* The invariant holds before the first call.
LEMMA InitInvariant == Init => IInv
<1> SUFFICES ASSUME Init PROVE IInv
  OBVIOUS
<1> USE DEF Init
<1>1. TypeOK
  BY InitTypes
<1>2. \A c \in Callers : ~InCall(c)
  BY DEF InCall
<1>3. CallsInv
  BY <1>2, IdsAreNaturals DEF CallsInv
<1>4. DOMAIN serving = {} /\ DOMAIN toClient = {} /\ DOMAIN toServer = {} /\ DOMAIN connq = {}
  OBVIOUS
<1>5. \A n \in Ids : n \in pending <=> Pends(n)
  BY <1>2 DEF Pends, Awaits
<1>6. PendingExact
  BY <1>1, <1>5, PendingPointwise
<1>7. FlightInv /\ WriterInv
  BY <1>2, <1>4 DEF FlightInv, InFlight, Finished, WriterInv, Unfinished
<1>8. QueueInv
  BY <1>4 DEF QueueInv, Queued
<1>9. LinkInv
  <2>1. Len(toServer) = 0 /\ Len(toClient) = 0
    OBVIOUS
  <2> QED
    BY <2>1, ExternalAssumption DEF LinkInv, LoopSurvives
<1> QED
  BY <1>1, <1>3, <1>6, <1>7, <1>8, <1>9 DEF IInv, ClientInv

-----------------------------------------------------------------------------
(* The theorems *)

\* The inductive invariant of the client, the server and the connection between
\* them (ExternalSchedulerClient, handle_connection).
THEOREM ExternalInvariant == Spec => []IInv
<1>1. IInv /\ [Next]_vars => IInv'
  <2> SUFFICES ASSUME IInv, [Next]_vars PROVE IInv'
    OBVIOUS
  <2>1. TypeOK' /\ CallsInv' /\ FlightInv' /\ QueueInv' /\ WriterInv' /\ LinkInv'
    BY NextTypes, NextCalls, NextFlight, NextQueue, NextWriter, NextLink
  <2>2. \A n \in Ids : n \in pending' <=> Pends(n)'
    BY NextPends
  <2>3. PendingExact'
    <3>1. \A c \in Callers : InCall(c)' => call'[c] \in Ids
      BY <2>1 DEF InCall, TypeOK
    <3>2. pending' \subseteq Ids
      BY <2>1 DEF TypeOK
    <3> QED
      BY <2>2, <3>1, <3>2 DEF PendingExact, Pends, Awaits
  <2> QED
    BY <2>1, <2>3 DEF IInv, ClientInv
<1> QED
  BY <1>1, InitInvariant, PTL DEF Spec

\* Every request, answer, stream and worker index is one that exists.
THEOREM ExternalTypes == Spec => []TypeOK
<1>1. IInv => TypeOK
  BY DEF IInv, ClientInv
<1> QED
  BY <1>1, ExternalInvariant, PTL

\* pending_requests holds the calls that still want an answer and the requests
\* that failed in the network, and nothing else (schedule, handle_message).
THEOREM PendingRequestsAreExact == Spec => []PendingExact
<1>1. IInv => PendingExact
  BY DEF IInv, ClientInv
<1> QED
  BY <1>1, ExternalInvariant, PTL

\* While the connection lives somebody receives answers (receive_loop).
THEOREM LoopKeepsReceiving == Spec => []LoopSurvives
<1>1. IInv => LoopSurvives
  BY DEF IInv, LinkInv
<1> QED
  BY <1>1, ExternalInvariant, PTL

\* A living connection can get stuck in one way only, in a circle of the mutex,
\* the server's accept loop and the receive loop.
THEOREM StallsAreCircular == Spec => []StallIsCircular
<1>1. ASSUME IInv PROVE StallIsCircular
  <2> SUFFICES ASSUME ~lost, Idle, NEW c \in Callers, cpc[c] \in {"open", "write"}
               PROVE  /\ Head(connq) \in Callers
                      /\ \E i \in DOMAIN connq : connq[i] = Loop
                      /\ Len(toClient) = MaxStreams
                      /\ serving # <<>>
                      /\ \/ Len(toServer) = MaxStreams
                         \/ cpc[Head(connq)] = "write" /\ Sends(Head(connq), Huge)
    BY DEF StallIsCircular
  <2>1. /\ cpc \in [Callers -> {"idle", "open", "write", "wait", "expire"}]
        /\ call \in [Callers -> Ids \cup {0}]
        /\ connq \in Seq(Callers \cup {Loop})
        /\ toServer \in Seq(Stream) /\ toClient \in Seq(Response)
        /\ lpc \in {"ask", "queued", "accept", "ended"} /\ spc \in {"up", "ended"}
        /\ QueueInv /\ WriterInv /\ LinkInv
    BY <1>1 DEF IInv, ClientInv, TypeOK
  <2>2. MaxStreams \in Nat \ {0} /\ Loop \notin Callers /\ Huge \subseteq Long
    BY ExternalAssumption
  <2>3. connq # <<>> /\ Head(connq) \in Callers \cup {Loop} /\ Queued(Head(connq))
    <3>1. PICK i \in DOMAIN connq : connq[i] = c
      BY <2>1 DEF QueueInv, Queued
    <3>2. connq # <<>>
      BY <2>1, <3>1
    <3>3. 1 \in DOMAIN connq /\ Head(connq) = connq[1]
      BY <2>1, <3>2
    <3> QED
      BY <2>1, <3>2, <3>3 DEF Queued
  <2>4. Head(connq) # Loop
    <3>1. Head(connq) = Loop => lpc = "queued" /\ Holds(Loop)
      BY <2>1, <2>3 DEF QueueInv, Holds
    <3> QED
      BY <3>1 DEF Idle, LoopCanMove
  <2>5. PICK h \in Callers : h = Head(connq)
    BY <2>3, <2>4
  <2>6. Holds(h) /\ cpc[h] \in {"open", "write"}
    BY <2>1, <2>3, <2>5 DEF Holds, QueueInv
  <2>7. \A n \in Unfinished : cpc[h] = "write" /\ call[h] = n
    <3> SUFFICES ASSUME NEW n \in Unfinished PROVE cpc[h] = "write" /\ call[h] = n
      OBVIOUS
    <3>1. PICK d \in Callers : cpc[d] = "write" /\ call[d] = n
      BY <2>1 DEF WriterInv
    <3>2. d = h
      BY <2>1, <2>5, <3>1 DEF QueueInv, Holds
    <3> QED
      BY <3>1, <3>2
  <2>8. /\ toServer # <<>>
        /\ \/ Len(toServer) = MaxStreams
           \/ cpc[h] = "write" /\ Sends(h, Huge)
    <3>1. CASE cpc[h] = "open"
      <4>1. ~(Len(toServer) < MaxStreams)
        BY <2>6, <3>1 DEF Idle, CanOpen
      <4>2. Len(toServer) = MaxStreams
        BY <2>1, <2>2, <4>1 DEF LinkInv
      <4>3. Len(toServer) # Len(<<>>)
        BY <2>2, <4>2
      <4>4. toServer # <<>>
        BY <4>3
      <4> QED
        BY <4>2, <4>4
    <3>2. CASE cpc[h] = "write"
      <4>1. Sends(h, Huge)
        BY <3>2 DEF Idle, CanFinish
      <4>2. Unread(h) # {}
        BY <2>2, <3>2, <4>1 DEF Idle, Refused, Sends
      <4>3. toServer # <<>>
        BY <4>2 DEF Unread
      <4> QED
        BY <3>2, <4>1, <4>3
    <3> QED
      BY <2>6, <3>1, <3>2
  <2>9. Head(toServer).done \/ TooLong(Head(toServer).id)
    <3> SUFFICES ASSUME ~Head(toServer).done PROVE TooLong(Head(toServer).id)
      OBVIOUS
    <3>1. 1 \in DOMAIN toServer /\ Head(toServer) = toServer[1]
      BY <2>1, <2>8
    <3>2. Head(toServer).id \in Unfinished
      BY <3>1 DEF Unfinished
    <3>3. cpc[h] = "write" /\ call[h] = Head(toServer).id
      BY <2>7, <3>2
    <3>4. Sends(h, Huge)
      BY <3>3 DEF Idle, CanFinish
    <3> QED
      BY <2>2, <3>3, <3>4 DEF Sends, TooLong, Items
  <2>10. serving # <<>>
    <3>1. spc = "up"
      BY <2>1 DEF LinkInv
    <3>2. ~Accepting
      BY <2>9 DEF Idle, CanRead
    <3> QED
      BY <2>8, <3>1, <3>2 DEF Accepting
  <2>11. Len(toClient) = MaxStreams
    <3>1. ~(Len(toClient) < MaxStreams)
      BY <2>10 DEF Idle, CanRespond
    <3>2. Len(toClient) \in Nat /\ Len(toClient) <= MaxStreams
      BY <2>1 DEF LinkInv
    <3> QED
      BY <2>2, <3>1, <3>2
  <2>12. Queued(Loop)
    <3>1. toClient # <<>>
      BY <2>2, <2>11
    <3>2. lpc = "queued"
      BY <2>1, <3>1 DEF Idle, LoopCanMove, LinkInv, LoopSurvives
    <3> QED
      BY <2>1, <3>2 DEF QueueInv
  <2> QED
    BY <2>5, <2>8, <2>10, <2>11, <2>12 DEF Queued
<1> QED
  BY <1>1, ExternalInvariant, PTL

-----------------------------------------------------------------------------
(* Answers *)

\* What a call in progress receives is an answer to its own batch.
LEMMA ReceivedAnswer ==
  ASSUME IInv, NEW c \in Callers, Receive(c)
  PROVE  /\ call[c] \in Ids /\ request[call[c]].phase = "open"
         /\ request[call[c]].assignments = <<>>
         /\ request[call[c]].items \in Batches
         /\ Head(received[c]) \in AnswersTo(request[call[c]].items)
<1>1. TypeOK /\ CallsInv /\ FlightInv
  BY DEF IInv, ClientInv
<1>2. cpc[c] = "wait" /\ received[c] # <<>>
  BY DEF Receive
<1>3. InCall(c) /\ call[c] \in Ids
  BY <1>1, <1>2 DEF CallsInv, InCall, TypeOK
<1>4. received[c] \in Seq(Answers)
  BY <1>1 DEF TypeOK
<1>5. 1 \in DOMAIN received[c] /\ Head(received[c]) = received[c][1]
  BY <1>2, <1>4
<1>6. Head(received[c]) \in AnswersTo(request[call[c]].items)
  BY <1>1, <1>3, <1>5 DEF FlightInv
<1>7. request[call[c]].phase = "open"
  BY <1>1, <1>3 DEF CallsInv
<1> QED
  BY <1>1, <1>3, <1>6, <1>7 DEF CallsInv

\* A result leaves the other requests alone.
LEMMA ReceiveIs ==
  ASSUME IInv, NEW c \in Callers, Receive(c)
  PROVE  LET n == call[c]
             a == Head(received[c])
             ok == Validates(request[n].items, a)
         IN  /\ \A m \in Ids : m # n => request'[m] = request[m]
             /\ request'[n].items = request[n].items
             /\ ok => request'[n].phase = "answered" /\ request'[n].assignments = a
             /\ ~ok => request'[n].phase = "invalid" /\ request'[n].assignments = <<>>
<1>1. TypeOK
  BY DEF IInv, ClientInv
<1>2. call[c] # 0
  BY ReceivedAnswer, IdsAreNaturals
<1>3. CASE Validates(request[call[c]].items, Head(received[c]))
  <2>1. Return(c, "answered", Head(received[c]))
    BY <1>3 DEF Receive
  <2> QED
    BY <1>1, <1>2, <1>3, <2>1, ReturnIs
<1>4. CASE ~Validates(request[call[c]].items, Head(received[c]))
  <2>1. Return(c, "invalid", <<>>)
    BY <1>4 DEF Receive
  <2> QED
    BY <1>1, <1>2, <1>4, <2>1, ReturnIs
<1> QED
  BY <1>3, <1>4

Rejected(r) ==
  /\ r.phase = "invalid" => ~Unique(r.items)
  /\ r.phase = "answered" => Unique(r.items) \/ WorkerCount = 0

\* Every step rejects only answers to a batch with an item twice.
LEMMA NextRejected ==
  ASSUME IInv, [Next]_vars, NEW n \in Ids, Rejected(request[n])
  PROVE  Rejected(request[n])'
<1> USE DEF callVars, serverVars
<1>1. TypeOK /\ CallsInv
  BY DEF IInv, ClientInv
<1>2. ASSUME NEW c \in Callers, NEW batch \in Batches, BeginSchedule(c, batch)
      PROVE  Rejected(request[n])'
  <2>1. PICK m : m = request_counter + 1
    OBVIOUS
  <2>2. request' = [request EXCEPT ![m].phase = "open", ![m].items = batch]
    BY <1>2, <2>1 DEF BeginSchedule
  <2>3. CASE n = m
    <3>1. request[n] \in [phase : Phases, items : Batches \cup {<<>>}, assignments : Answers]
      BY <1>1 DEF TypeOK, Request
    <3>2. request'[n].phase = "open"
      BY <1>1, <2>2, <2>3, <3>1 DEF TypeOK
    <3> QED
      BY <3>2 DEF Rejected
  <2>4. CASE n # m
    <3>1. request'[n] = request[n]
      BY <1>1, <2>2, <2>4 DEF TypeOK
    <3> QED
      BY <3>1 DEF Rejected
  <2> QED
    BY <2>3, <2>4
<1>3. ASSUME NEW c \in Callers, NEW phase \in {"network", "timeout", "reported"}, NEW a, Return(c, phase, a)
      PROVE  Rejected(request[n])'
  <2>1. CASE n = call[c]
    <3>1. request'[n].phase = phase
      BY <1>1, <1>3, <2>1, ReturnIs, IdsAreNaturals
    <3> QED
      BY <3>1 DEF Rejected
  <2>2. CASE n # call[c]
    <3>1. request'[n] = request[n]
      BY <1>1, <1>3, <2>2, ReturnIs
    <3> QED
      BY <3>1 DEF Rejected
  <2> QED
    BY <2>1, <2>2
<1>4. ASSUME NEW c \in Callers, Receive(c)
      PROVE  Rejected(request[n])'
  <2>1. CASE n # call[c]
    <3>1. request'[n] = request[n]
      BY <1>4, <2>1, ReceiveIs
    <3> QED
      BY <3>1 DEF Rejected
  <2>2. CASE n = call[c]
    <3> DEFINE a == Head(received[c])
    <3>1. request[n].items \in Batches /\ a \in AnswersTo(request[n].items)
      BY <1>4, <2>2, ReceivedAnswer
    <3>2. Validates(request[n].items, a) <=> Unique(request[n].items) \/ WorkerCount = 0
      BY <3>1, AnswerIsValid
    <3>3. /\ request'[n].items = request[n].items
          /\ IF Validates(request[n].items, a) THEN request'[n].phase = "answered"
             ELSE request'[n].phase = "invalid"
      BY <1>4, <2>2, ReceiveIs
    <3> HIDE DEF a
    <3> QED
      BY <3>2, <3>3 DEF Rejected
  <2> QED
    BY <2>1, <2>2
<1>5. UNCHANGED request => Rejected(request[n])'
  BY DEF Rejected
<1>6. ASSUME NEW c \in Callers, CallerStep(c) PROVE Rejected(request[n])'
  BY <1>3, <1>4, <1>5, <1>6 DEF CallerStep, OpenStream, FinishWrite, SendFails, TimerFires, TimeOut
<1>7. \/ \E c \in Callers : BeginReport(c)
      \/ ServerStep \/ LoopStep \/ LoseConnection \/ Terminated \/ UNCHANGED vars
      => UNCHANGED request
  BY DEF BeginReport, ServerStep, ReadRequest, SkipMessage, SendResponse, ResponseFails, ServerEnds,
         LoopStep, LoopAsks, LoopGets, HandleMessage, LoopEnds, LoseConnection, Terminated, vars
<1> QED
  BY <1>2, <1>5, <1>6, <1>7 DEF Next

\* Validation rejects an answer of this server exactly when the batch names an
\* item twice (validate_assignments, round_robin).
THEOREM RejectedAreDuplicates == Spec => []RejectedOnlyDuplicates
<1> DEFINE Inv == \A n \in Ids : Rejected(request[n])
<1>1. Init => Inv
  BY DEF Init, Rejected
<1>2. IInv /\ Inv /\ [Next]_vars => Inv'
  BY NextRejected
<1>3. Inv => RejectedOnlyDuplicates
  BY DEF RejectedOnlyDuplicates, Rejected, Unique
<1> HIDE DEF Inv
<1> QED
  BY <1>1, <1>2, <1>3, ExternalInvariant, PTL DEF Spec

-----------------------------------------------------------------------------
(* The service *)

\* What the service sees of a request.
Seen(r) == [r EXCEPT !.phase = IF @ \in {"new", "open", "answered"} THEN @ ELSE "failed"]

\* A request is seen as it is but for the kind of its failure.
LEMMA SeenIs ==
  ASSUME NEW r \in Request
  PROVE  Seen(r) = [phase       |-> IF r.phase \in {"new", "open", "answered"} THEN r.phase
                                    ELSE "failed",
                    items       |-> r.items,
                    assignments |-> r.assignments]
BY DEF Seen, Request

\* In the service, nothing has been asked for at first.
LEMMA SeenInit == Init => Service!Init
<1> SUFFICES ASSUME Init PROVE Service!Init
  OBVIOUS
<1>1. ASSUME NEW n \in Ids
      PROVE  [request[n] EXCEPT !.phase = IF @ \in {"new", "open", "answered"} THEN @
                                          ELSE "failed"] = Service!New
  BY DEF Init, Service!New
<1> QED
  BY <1>1 DEF Service!Init

\* schedule() submits its request under a new id,
LEMMA BeginSubmits ==
  ASSUME IInv, NEW c \in Callers, NEW batch \in Batches, BeginSchedule(c, batch)
  PROVE  \E n \in Ids : Service!Submit(n, batch)
<1>1. TypeOK /\ CallsInv
  BY DEF IInv, ClientInv
<1>2. PICK n : n = request_counter + 1
  OBVIOUS
<1>3. n \in Ids /\ request[n].phase = "new"
  <2>1. request_counter < MaxRequests /\ request_counter \in 0 .. MaxRequests
    BY <1>1 DEF BeginSchedule, TypeOK
  <2>2. n \in Ids /\ n > request_counter
    BY <1>2, <2>1, ExternalAssumption DEF Ids
  <2> QED
    BY <1>1, <2>2 DEF CallsInv
<1>4. request[n] = Service!New
  <2>1. request[n] \in [phase : Phases, items : Batches \cup {<<>>}, assignments : Answers]
    BY <1>1, <1>3 DEF TypeOK, Request
  <2>2. request[n].items = <<>> /\ request[n].assignments = <<>>
    BY <1>1, <1>3 DEF CallsInv
  <2> QED
    BY <1>3, <2>1, <2>2 DEF Service!New
<1>5. request' = [request EXCEPT ![n].phase = "open", ![n].items = batch]
  BY <1>2 DEF BeginSchedule
<1>6. request'[n] = [phase |-> "open", items |-> batch, assignments |-> <<>>]
  <2>1. request'[n] = [Service!New EXCEPT !.phase = "open", !.items = batch]
    BY <1>1, <1>3, <1>4, <1>5 DEF TypeOK
  <2> QED
    BY <2>1 DEF Service!New
<1>7. Seen(request[n]) = Service!New /\ Seen(request[n])' = request'[n]
  BY <1>4, <1>6 DEF Seen, Service!New
<1>8. \A m \in Ids \ {n} : request'[m] = request[m]
  BY <1>1, <1>5 DEF TypeOK
<1>9. [m \in Ids |-> Seen(request'[m])]
      = [[m \in Ids |-> Seen(request[m])] EXCEPT
           ![n] = [Service!New EXCEPT !.phase = "open", !.items = batch]]
  BY <1>3, <1>6, <1>7, <1>8 DEF Service!New
<1> QED
  BY <1>3, <1>4, <1>7, <1>9 DEF Service!Submit, Service!New, Seen

\* a validated answer answers it,
LEMMA ReceiveAnswers ==
  ASSUME IInv, NEW c \in Callers, Receive(c),
         Validates(request[call[c]].items, Head(received[c]))
  PROVE  \E n \in Ids : Service!Answer(n)
<1>1. request \in [Ids -> Request] /\ call[c] \in Ids
  BY ReceivedAnswer DEF IInv, ClientInv, TypeOK
<1>2. PICK n \in Ids : n = call[c]
  BY <1>1
<1>3. PICK a \in AnswersTo(request[n].items) : a = Head(received[c])
  BY <1>2, ReceivedAnswer
<1>4. /\ request[n].phase = "open" /\ request[n].items \in Batches
      /\ Validates(request[n].items, a)
  BY <1>2, <1>3, ReceivedAnswer
<1>5. /\ request'[n].items = request[n].items /\ request'[n].phase = "answered"
      /\ request'[n].assignments = a
      /\ \A m \in Ids \ {n} : request'[m] = request[m]
  BY <1>2, <1>3, <1>4, ReceiveIs
<1>6. Service!ValidAnswer(request[n].items, a)
  BY <1>3, <1>4, AnswerIsValid
<1>7. request' \in [Ids -> Request]
  BY NextTypes DEF IInv, ClientInv, TypeOK, Next, CallerStep
<1>8. /\ Seen(request[n]).phase = "open" /\ Seen(request[n]).items = request[n].items
      /\ Seen(request'[n]).phase = "answered" /\ Seen(request'[n]).items = request[n].items
      /\ Seen(request'[n]).assignments = a
  BY <1>1, <1>4, <1>5, <1>7, SeenIs
<1>9. [m \in Ids |-> Seen(request'[m])]
      = [[m \in Ids |-> Seen(request[m])] EXCEPT ![n] = Seen(request'[n])]
  BY <1>5
<1>10. Service!Answer(n)
  BY <1>6, <1>8, <1>9 DEF Service!Answer, Seen
<1> QED
  BY <1>10

\* and every other result fails it.
LEMMA ReturnFails ==
  ASSUME IInv, NEW c \in Callers, call[c] # 0, request[call[c]].phase = "open",
         NEW phase \in {"network", "timeout", "invalid"}, Return(c, phase, <<>>)
  PROVE  \E n \in Ids : Service!Fail(n)
<1>1. TypeOK /\ CallsInv
  BY DEF IInv, ClientInv
<1>2. PICK n \in Ids : n = call[c]
  BY <1>1 DEF TypeOK
<1>3. request \in [Ids -> [phase : Phases, items : Batches \cup {<<>>}, assignments : Answers]]
  BY <1>1 DEF TypeOK, Request
<1>4. request' = [request EXCEPT ![n].phase = phase, ![n].assignments = <<>>]
  BY <1>2 DEF Return
<1>5. request[n].phase = "open" /\ request[n].assignments = <<>>
  BY <1>1, <1>2 DEF CallsInv
<1>6. request'[n] = [request[n] EXCEPT !.phase = phase]
  BY <1>3, <1>4, <1>5
<1>7. \A m \in Ids \ {n} : request'[m] = request[m]
  BY <1>3, <1>4
<1>8. Seen(request[n]) = request[n] /\ Seen(request'[n]) = [request[n] EXCEPT !.phase = "failed"]
  BY <1>3, <1>5, <1>6 DEF Seen
<1>9. [m \in Ids |-> Seen(request'[m])]
      = [[m \in Ids |-> Seen(request[m])] EXCEPT ![n].phase = "failed"]
  BY <1>7, <1>8
<1>10. Service!Fail(n)
  BY <1>5, <1>8, <1>9 DEF Service!Fail, Seen
<1> QED
  BY <1>10

\* Every step is one of the service, or none that its callers can see.
LEMMA NextServes ==
  ASSUME IInv, [Next]_vars
  PROVE  Service!Next \/ UNCHANGED [n \in Ids |-> Seen(request[n])]
<1> USE DEF callVars, serverVars
<1>1. TypeOK /\ CallsInv
  BY DEF IInv, ClientInv
<1>2. ASSUME NEW c \in Callers, NEW batch \in Batches, BeginSchedule(c, batch)
      PROVE  Service!Next
  BY <1>2, BeginSubmits DEF Service!Next
<1>3. ASSUME NEW c \in Callers, cpc[c] # "idle", NEW phase \in {"network", "timeout", "invalid"},
             Return(c, phase, <<>>)
      PROVE  Service!Next \/ UNCHANGED request
  <2>1. CASE call[c] = 0
    BY <1>3, <2>1 DEF Return
  <2>2. CASE call[c] # 0
    <3>1. request[call[c]].phase = "open"
      BY <1>1, <1>3, <2>2 DEF CallsInv, InCall
    <3> QED
      BY <1>3, <2>2, <3>1, ReturnFails DEF Service!Next
  <2> QED
    BY <2>1, <2>2
<1>4. ASSUME NEW c \in Callers, Receive(c)
      PROVE  Service!Next
  <2>1. call[c] \in Ids /\ request[call[c]].phase = "open" /\ call[c] # 0
    BY <1>4, ReceivedAnswer, IdsAreNaturals
  <2>2. CASE Validates(request[call[c]].items, Head(received[c]))
    BY <1>4, <2>2, ReceiveAnswers DEF Service!Next
  <2>3. CASE ~Validates(request[call[c]].items, Head(received[c]))
    <3>1. Return(c, "invalid", <<>>)
      BY <1>4, <2>3 DEF Receive
    <3> QED
      BY <2>1, <3>1, ReturnFails DEF Service!Next
  <2> QED
    BY <2>2, <2>3
<1>5. ASSUME NEW c \in Callers, FinishWrite(c) PROVE UNCHANGED request
  BY <1>5 DEF FinishWrite, Return
<1>6. ASSUME NEW c \in Callers, SendFails(c) PROVE Service!Next \/ UNCHANGED request
  <2>1. cpc[c] # "idle" /\ Return(c, "network", <<>>)
    BY <1>6 DEF SendFails, Refused
  <2> QED
    BY <1>3, <2>1
<1>7. ASSUME NEW c \in Callers, TimeOut(c) PROVE Service!Next \/ UNCHANGED request
  <2>1. cpc[c] # "idle" /\ Return(c, "timeout", <<>>)
    BY <1>7 DEF TimeOut
  <2> QED
    BY <1>3, <2>1
<1>8. ASSUME NEW c \in Callers, CallerStep(c) PROVE Service!Next \/ UNCHANGED request
  BY <1>4, <1>5, <1>6, <1>7, <1>8 DEF CallerStep, OpenStream, TimerFires
<1>9. \/ \E c \in Callers : BeginReport(c)
      \/ ServerStep \/ LoopStep \/ LoseConnection \/ Terminated \/ UNCHANGED vars
      => UNCHANGED request
  BY DEF BeginReport, ServerStep, ReadRequest, SkipMessage, SendResponse, ResponseFails, ServerEnds,
         LoopStep, LoopAsks, LoopGets, HandleMessage, LoopEnds, LoseConnection, Terminated, vars
<1>10. Service!Next \/ UNCHANGED request
  BY <1>2, <1>8, <1>9 DEF Next
<1> QED
  BY <1>10

\* The client, the server and the connection implement SchedulingService: a call
\* is answered or fails, once, and an answer is valid for the call's own batch.
THEOREM ExternalImplementsService == Spec => ServiceSpec
<1>1. IInv /\ [Next]_vars => [Service!Next]_([n \in Ids |-> Seen(request[n])])
  BY NextServes
<1>2. ServiceSpec <=> Service!Init /\ [][Service!Next]_([n \in Ids |-> Seen(request[n])])
  BY DEF ServiceSpec, Service!Spec, Seen
<1> QED
  BY <1>1, <1>2, SeenInit, ExternalInvariant, PTL DEF Spec
=============================================================================
