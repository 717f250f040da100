---------------------- MODULE AdaptiveScheduler_proof ----------------------
(***************************************************************************)
(* Proofs about the schedulers of the engine, for any number of callers,   *)
(* workers and batches.                                                    *)
(***************************************************************************)
EXTENDS SchedulerEngine, WellFoundedInduction, TLAPS

\* The account set of a worker is what the greedy scheduler gave to it.
StatesExact ==
  \A w \in Workers : \A a \in Accounts :
    a \in worker_states[w] <=> \E x \in given : x.worker = w /\ a \in x.unit.accounts

SchedulerInv == TypeOK /\ StatesExact /\ GreedyDisjoint /\ LeftOutOnlyIfBlocked

\* Nothing is given and nothing is left out in the beginning.
LEMMA InitInv == Init => SchedulerInv
<1> SUFFICES ASSUME Init PROVE SchedulerInv
  OBVIOUS
<1>1. TypeOK
  BY DEF Init, TypeOK, Workers, Unit
<1>2. StatesExact /\ GreedyDisjoint /\ LeftOutOnlyIfBlocked
  BY DEF Init, StatesExact, GreedyDisjoint, LeftOutOnlyIfBlocked, Workers
<1> QED
  BY <1>1, <1>2 DEF SchedulerInv

\* The steps that neither touch the account sets nor leave a unit out.
LEMMA QuietStep ==
  ASSUME SchedulerInv, TypeOK',
         UNCHANGED <<worker_states, given>>,
         \A c \in Callers : left_out'[c] \subseteq left_out[c]
  PROVE  SchedulerInv'
<1>1. StatesExact' /\ GreedyDisjoint'
  BY DEF SchedulerInv, StatesExact, GreedyDisjoint
<1>2. LeftOutOnlyIfBlocked'
  BY DEF SchedulerInv, LeftOutOnlyIfBlocked, Workers
<1> QED
  BY <1>1, <1>2 DEF SchedulerInv

\* A batch that is submitted consists of units, and its caller starts with
\* nothing left out.
LEMMA UpdatePendingInv ==
  ASSUME SchedulerInv, NEW c \in Callers, NEW b \in Batches, UpdatePending(c, b)
  PROVE  SchedulerInv'
<1>1. b \in Seq(Unit) /\ Len(b) \in Nat
  BY AdaptiveAssumption
<1>2. TypeOK'
  BY <1>1 DEF SchedulerInv, TypeOK, UpdatePending
<1>3. \A d \in Callers : left_out'[d] \subseteq left_out[d]
  BY DEF SchedulerInv, TypeOK, UpdatePending
<1> QED
  BY <1>2, <1>3, QuietStep DEF UpdatePending

\* The priority graph gives every unit of the batch to some worker.
LEMMA PrioScheduleInv ==
  ASSUME SchedulerInv, NEW c \in Callers, PrioSchedule(c)
  PROVE  SchedulerInv'
<1>1. PICK place \in [DOMAIN todo[c] -> Workers] :
        answer' = [answer EXCEPT ![c] =
                     {[unit |-> todo[c][i], worker |-> place[i]] : i \in DOMAIN todo[c]}]
  BY DEF PrioSchedule
<1>2. \A i \in DOMAIN todo[c] : todo[c][i] \in Unit
  BY DEF SchedulerInv, TypeOK
<1>3. {[unit |-> todo[c][i], worker |-> place[i]] : i \in DOMAIN todo[c]} \in SUBSET Assignment
  BY <1>2 DEF Assignment
<1>4. answer' \in [Callers -> SUBSET Assignment]
  BY <1>1, <1>3 DEF SchedulerInv, TypeOK
<1>5. <<>> \in Seq(Unit)
  OBVIOUS
<1>6. TypeOK'
  BY <1>4, <1>5 DEF SchedulerInv, TypeOK, PrioSchedule
<1> QED
  BY <1>6, QuietStep DEF PrioSchedule, SchedulerInv, TypeOK

\* The first worker that can take the unit takes it: the sets stay exact, and
\* the unit meets none of the accounts given to the worker before.
LEMMA ScheduleUnitInv ==
  ASSUME SchedulerInv, NEW c \in Callers, ScheduleUnit(c)
  PROVE  SchedulerInv'
<1> DEFINE u == Head(todo[c])
<1>1. u \in Unit /\ Tail(todo[c]) \in Seq(Unit)
  BY DEF SchedulerInv, TypeOK, ScheduleUnit
<1>2. PICK w \in Available(u) :
        /\ worker_states' = [worker_states EXCEPT ![w] = @ \cup u.accounts]
        /\ answer' = [answer EXCEPT ![c] = @ \cup {[unit |-> u, worker |-> w]}]
        /\ given' = given \cup {[unit |-> u, worker |-> w]}
  BY DEF ScheduleUnit
<1> DEFINE x0 == [unit |-> u, worker |-> w]
<1>3. /\ w \in Workers
      /\ u.accounts \cap worker_states[w] = {}
      /\ u.accounts \subseteq Accounts
      /\ x0 \in Assignment
  BY <1>1, <1>2 DEF Available, Unit, Assignment
<1> HIDE DEF u
<1>4. TypeOK'
  <2>1. worker_states' \in [Workers -> SUBSET Accounts]
    BY <1>2, <1>3 DEF SchedulerInv, TypeOK
  <2>2. answer' \in [Callers -> SUBSET Assignment] /\ given' \in SUBSET Assignment
    BY <1>2, <1>3 DEF SchedulerInv, TypeOK
  <2>3. todo' \in [Callers -> Seq(Unit)]
    BY <1>1 DEF SchedulerInv, TypeOK, ScheduleUnit
  <2> QED
    BY <2>1, <2>2, <2>3 DEF SchedulerInv, TypeOK, ScheduleUnit
<1>5. StatesExact'
  <2> SUFFICES ASSUME NEW v \in Workers, NEW a \in Accounts
               PROVE  a \in worker_states'[v] <=>
                        \E x \in given' : x.worker = v /\ a \in x.unit.accounts
    BY DEF StatesExact, Workers
  <2>1. a \in worker_states[v] <=> \E x \in given : x.worker = v /\ a \in x.unit.accounts
    BY DEF SchedulerInv, StatesExact
  <2>2. a \in worker_states'[v] <=> a \in worker_states[v] \/ (v = w /\ a \in u.accounts)
    BY <1>2, <1>3 DEF SchedulerInv, TypeOK
  <2>3. x0.worker = w /\ x0.unit = u
    OBVIOUS
  <2> QED
    BY <1>2, <2>1, <2>2, <2>3
<1>6. GreedyDisjoint'
  <2>1. \A x \in given : x.worker = w => x.unit.accounts \cap u.accounts = {}
    <3> SUFFICES ASSUME NEW x \in given, x.worker = w,
                        NEW a \in x.unit.accounts, a \in u.accounts
                 PROVE  FALSE
      OBVIOUS
    <3>1. a \in worker_states[w]
      BY <1>3 DEF SchedulerInv, StatesExact
    <3> QED
      BY <3>1, <1>3
  <2>2. x0.worker = w /\ x0.unit = u
    OBVIOUS
  <2> QED
    BY <1>2, <2>1, <2>2 DEF SchedulerInv, GreedyDisjoint
<1>7. LeftOutOnlyIfBlocked'
  BY <1>2 DEF SchedulerInv, LeftOutOnlyIfBlocked, ScheduleUnit, Workers
<1> QED
  BY <1>4, <1>5, <1>6, <1>7 DEF SchedulerInv

\* When no worker can take the unit, every set meets its accounts, and the sets
\* are what was given.
LEMMA LeaveOutInv ==
  ASSUME SchedulerInv, NEW c \in Callers, LeaveOut(c)
  PROVE  SchedulerInv'
<1> DEFINE u == Head(todo[c])
<1>1. u \in Unit /\ Tail(todo[c]) \in Seq(Unit)
  BY DEF SchedulerInv, TypeOK, LeaveOut
<1>2. u.accounts \subseteq Accounts
  BY <1>1 DEF Unit
<1>3. Available(u) = {}
  BY DEF LeaveOut
<1>4. left_out' = [left_out EXCEPT ![c] = @ \cup {u}]
  BY DEF LeaveOut
<1> HIDE DEF u
<1>5. TypeOK'
  <2>1. todo' \in [Callers -> Seq(Unit)]
    BY <1>1 DEF SchedulerInv, TypeOK, LeaveOut
  <2>2. left_out' \in [Callers -> SUBSET Unit]
    BY <1>1, <1>4 DEF SchedulerInv, TypeOK
  <2> QED
    BY <2>1, <2>2 DEF SchedulerInv, TypeOK, LeaveOut
<1>6. StatesExact' /\ GreedyDisjoint'
  BY DEF SchedulerInv, StatesExact, GreedyDisjoint, LeaveOut, Workers
<1>7. \A w \in Workers :
        \E x \in given : x.worker = w /\ x.unit.accounts \cap u.accounts # {}
  <2> SUFFICES ASSUME NEW w \in Workers
               PROVE  \E x \in given : x.worker = w /\ x.unit.accounts \cap u.accounts # {}
    OBVIOUS
  <2>1. PICK a \in u.accounts : a \in worker_states[w]
    BY <1>3 DEF Available
  <2>2. PICK x \in given : x.worker = w /\ a \in x.unit.accounts
    BY <2>1, <1>2 DEF SchedulerInv, StatesExact
  <2> QED
    BY <2>1, <2>2
<1>8. LeftOutOnlyIfBlocked'
  <2> SUFFICES ASSUME NEW d \in Callers, NEW v \in left_out'[d], NEW w \in Workers
               PROVE  \E x \in given : x.worker = w /\ x.unit.accounts \cap v.accounts # {}
    BY DEF LeftOutOnlyIfBlocked, LeaveOut, Workers
  <2>1. v \in left_out[d] \/ v = u
    BY <1>4 DEF SchedulerInv, TypeOK
  <2> QED
    BY <2>1, <1>7 DEF SchedulerInv, LeftOutOnlyIfBlocked
<1> QED
  BY <1>5, <1>6, <1>8 DEF SchedulerInv

\* The remaining steps of a caller change where it is and nothing else.
LEMMA MoveInv ==
  ASSUME SchedulerInv, NEW c \in Callers,
         ChooseScheduler(c) \/ EndGreedy(c) \/ BatchCompletes(c)
  PROVE  SchedulerInv'
<1>1. TypeOK'
  BY DEF SchedulerInv, TypeOK, ChooseScheduler, EndGreedy, BatchCompletes
<1> QED
  BY <1>1, QuietStep DEF ChooseScheduler, EndGreedy, BatchCompletes

\* Every step of the scheduler keeps the invariant.
LEMMA NextInv == SchedulerInv /\ [Next]_vars => SchedulerInv'
<1> SUFFICES ASSUME SchedulerInv, [Next]_vars PROVE SchedulerInv'
  OBVIOUS
<1>1. CASE Next
  BY <1>1, UpdatePendingInv, PrioScheduleInv, ScheduleUnitInv, LeaveOutInv, MoveInv DEF Next
<1>2. CASE UNCHANGED vars
  <2>1. TypeOK'
    BY <1>2 DEF vars, SchedulerInv, TypeOK
  <2> QED
    BY <1>2, <2>1, QuietStep DEF vars
<1> QED
  BY <1>1, <1>2

\* The inductive invariant: the account sets of the greedy scheduler are exactly
\* what it gave out, over all batches and callers.
THEOREM SchedulerInvariant == Spec => []SchedulerInv
  BY InitInv, NextInv, PTL DEF Spec

\* Type correctness: the greedy scheduler assigns only to workers that exist.
THEOREM SchedulerTypes == Spec => []TypeOK
<1>1. SchedulerInv => TypeOK
  BY DEF SchedulerInv
<1> QED
  BY <1>1, SchedulerInvariant, PTL

\* What the greedy scheduler gave to one worker never conflicts, however calls
\* overlap: find_available_worker and extend are under one lock.
THEOREM GreedyIsDisjoint == Spec => []GreedyDisjoint
<1>1. SchedulerInv => GreedyDisjoint
  BY DEF SchedulerInv
<1> QED
  BY <1>1, SchedulerInvariant, PTL

\* A unit is missing from the answer only if every worker was given a unit that
\* conflicts with it.
THEOREM LeftOutIsBlocked == Spec => []LeftOutOnlyIfBlocked
<1>1. SchedulerInv => LeftOutOnlyIfBlocked
  BY DEF SchedulerInv
<1> QED
  BY <1>1, SchedulerInvariant, PTL

\* The engine calls the schedulers only by their own steps, with batches of
\* units, whatever items it is asked to schedule.
LEMMA EngineImplementsScheduler == EngineSpec => Spec
<1>1. EngineInit => Init
  BY DEF EngineInit
<1>2. [EngineNext]_engineVars => [Next]_vars
  <2>1. ASSUME NEW c \in Callers, NEW request \in Requests, Schedule(c, request)
        PROVE  Next
    BY <2>1, RequestsAssumption DEF Schedule, Next
  <2>2. ASSUME EngineNext
        PROVE  Next
    BY <2>1, <2>2 DEF EngineNext, Next
  <2> QED
    BY <2>2 DEF engineVars
<1> QED
  BY <1>1, <1>2, PTL DEF EngineSpec, Spec

\* In the engine, too, no worker is given conflicting units by the greedy
\* scheduler and nothing is left out without a conflict.
THEOREM EngineSchedulesDisjoint ==
  EngineSpec => [](GreedyDisjoint /\ LeftOutOnlyIfBlocked)
  BY EngineImplementsScheduler, GreedyIsDisjoint, LeftOutIsBlocked, PTL

-----------------------------------------------------------------------------
(* The answers of the engine *)

Elements(s) == {s[i] : i \in DOMAIN s}

\* A set of natural numbers has a least element.
LEMMA LeastOf ==
  ASSUME NEW S \in SUBSET Nat, S # {}
  PROVE  \E i \in S : \A j \in S : i <= j
<1>1. IsWellFoundedOn(OpToRel(<, Nat), Nat)
  BY NatLessThanWellFounded
<1>2. PICK i \in S : \A j \in S : <<j, i>> \notin OpToRel(<, Nat)
  BY <1>1, WFMin
<1>3. ASSUME NEW j \in S, j < i PROVE FALSE
  BY <1>2, <1>3 DEF OpToRel
<1> QED
  BY <1>3

\* What a sequence holds after one more element at its end.
LEMMA ElementsOfAppend ==
  ASSUME NEW D, NEW s \in Seq(D), NEW x \in D
  PROVE  Elements(Append(s, x)) = Elements(s) \cup {x}
<1>1. PICK n \in Nat : n = Len(s) /\ DOMAIN s = 1 .. n
  OBVIOUS
<1>2. DOMAIN Append(s, x) = 1 .. n + 1 /\ Append(s, x)[n + 1] = x
  BY <1>1
<1>3. \A i \in 1 .. n : Append(s, x)[i] = s[i]
  BY <1>1
<1>4. 1 .. n + 1 = (1 .. n) \cup {n + 1}
  OBVIOUS
<1> QED
  BY <1>1, <1>2, <1>3, <1>4 DEF Elements

\* A sequence holds its first element and what its tail holds.
LEMMA ElementsOfTail ==
  ASSUME NEW D, NEW s \in Seq(D), s # <<>>
  PROVE  Elements(s) = Elements(Tail(s)) \cup {Head(s)}
<1>1. PICK n \in Nat : n = Len(s) /\ DOMAIN s = 1 .. n /\ n # 0
  OBVIOUS
<1>2. DOMAIN Tail(s) = 1 .. n - 1 /\ \A i \in 1 .. n - 1 : Tail(s)[i] = s[i + 1]
  BY <1>1
<1>3. Head(s) = s[1]
  OBVIOUS
<1>4. ASSUME NEW i \in 1 .. n, i # 1 PROVE \E j \in 1 .. n - 1 : s[i] = Tail(s)[j]
  <2>1. i - 1 \in 1 .. n - 1 /\ (i - 1) + 1 = i
    BY <1>4
  <2> QED
    BY <1>2, <2>1
<1>5. 1 \in 1 .. n /\ \A j \in 1 .. n - 1 : j + 1 \in 1 .. n
  BY <1>1
<1>6. ASSUME NEW x, x \in Elements(s) PROVE x \in Elements(Tail(s)) \cup {Head(s)}
  <2>1. PICK i \in 1 .. n : x = s[i]
    BY <1>1, <1>6 DEF Elements
  <2>2. CASE i = 1
    BY <1>3, <2>1, <2>2
  <2>3. CASE i # 1
    <3>1. PICK j \in 1 .. n - 1 : s[i] = Tail(s)[j]
      BY <1>4, <2>3
    <3> QED
      BY <1>2, <2>1, <3>1 DEF Elements
  <2> QED
    BY <2>2, <2>3
<1>7. ASSUME NEW j \in 1 .. n - 1 PROVE Tail(s)[j] \in Elements(s)
  BY <1>1, <1>2, <1>5 DEF Elements
<1>8. Head(s) \in Elements(s)
  BY <1>1, <1>3, <1>5 DEF Elements
<1> QED
  <2>1. Elements(Tail(s)) = {Tail(s)[j] : j \in 1 .. n - 1}
    BY <1>2 DEF Elements
  <2> QED
    BY <1>6, <1>7, <1>8, <2>1

\* Two sequences one after the other hold what either holds.
LEMMA ElementsOfConcat ==
  ASSUME NEW D, NEW s \in Seq(D), NEW t \in Seq(D)
  PROVE  Elements(s \o t) = Elements(s) \cup Elements(t)
<1>1. PICK m \in Nat, n \in Nat : m = Len(s) /\ DOMAIN s = 1 .. m /\ n = Len(t) /\ DOMAIN t = 1 .. n
  OBVIOUS
<1>2. /\ DOMAIN (s \o t) = 1 .. m + n
      /\ \A i \in 1 .. m : (s \o t)[i] = s[i]
      /\ \A i \in 1 .. n : (s \o t)[m + i] = t[i]
  BY <1>1
<1>3. ASSUME NEW i \in 1 .. m + n, i \notin 1 .. m
      PROVE  \E j \in 1 .. n : i = m + j
  <2>1. i - m \in 1 .. n /\ i = m + (i - m)
    BY <1>3
  <2> QED
    BY <2>1
<1>4. (1 .. m) \subseteq 1 .. m + n /\ \A i \in 1 .. n : m + i \in 1 .. m + n
  OBVIOUS
<1>5. ASSUME NEW x, x \in Elements(s \o t) PROVE x \in Elements(s) \cup Elements(t)
  <2>1. PICK i \in 1 .. m + n : x = (s \o t)[i]
    BY <1>2, <1>5 DEF Elements
  <2>2. CASE i \in 1 .. m
    BY <1>1, <1>2, <2>1, <2>2 DEF Elements
  <2>3. CASE i \notin 1 .. m
    <3>1. PICK j \in 1 .. n : i = m + j
      BY <1>3, <2>3
    <3>2. x = t[j]
      BY <1>2, <2>1, <3>1
    <3> QED
      BY <1>1, <3>2 DEF Elements
  <2> QED
    BY <2>2, <2>3
<1>6. Elements(s) \subseteq Elements(s \o t)
  <2>1. ASSUME NEW i \in 1 .. m PROVE s[i] \in Elements(s \o t)
    BY <1>2, <1>4 DEF Elements
  <2> QED
    BY <1>1, <2>1 DEF Elements
<1>7. Elements(t) \subseteq Elements(s \o t)
  <2>1. ASSUME NEW i \in 1 .. n PROVE t[i] \in Elements(s \o t)
    BY <1>2, <1>4 DEF Elements
  <2> QED
    BY <1>1, <2>1 DEF Elements
<1> QED
  BY <1>5, <1>6, <1>7

\* f gives the elements of the first n of s that are of the kind.
IsFilter(f, s, k, n) ==
  f = [m \in 0 .. n |-> IF m = 0 THEN <<>>
                        ELSE IF s[m].kind = k THEN Append(f[m - 1], s[m])
                             ELSE f[m - 1]]

\* The recursion of the conversion (OfKind) has a solution.
LEMMA FilterExists ==
  ASSUME NEW s, NEW k, NEW n \in Nat
  PROVE  \E f : IsFilter(f, s, k, n)
<1> DEFINE Bad == {m \in 0 .. n : ~\E f : IsFilter(f, s, k, m)}
<1>1. CASE Bad = {}
  BY <1>1
<1>2. CASE Bad # {}
  <2>1. PICK m \in Bad : \A j \in Bad : m <= j
    <3>1. Bad \in SUBSET Nat
      OBVIOUS
    <3> HIDE DEF Bad
    <3> QED
      BY <1>2, <3>1, LeastOf
  <2>2. m \in 0 .. n /\ ~\E f : IsFilter(f, s, k, m)
    OBVIOUS
  <2>3. m # 0
    <3> DEFINE e == [j \in 0 .. 0 |-> <<>>]
    <3>1. e = [j \in 0 .. 0 |-> IF j = 0 THEN <<>>
                                ELSE IF s[j].kind = k THEN Append(e[j - 1], s[j]) ELSE e[j - 1]]
      OBVIOUS
    <3> HIDE DEF e
    <3>2. IsFilter(e, s, k, 0)
      BY <3>1 DEF IsFilter
    <3> QED
      BY <2>2, <3>2
  <2>4. m - 1 \in 0 .. n /\ m - 1 \notin Bad
    <3>1. m - 1 \in 0 .. n /\ ~(m <= m - 1)
      <4> HIDE DEF Bad
      <4> QED
        BY <2>2, <2>3
    <3> HIDE DEF Bad
    <3> QED
      BY <2>1, <3>1
  <2>5. PICK f : IsFilter(f, s, k, m - 1)
    BY <2>4
  <2> DEFINE G(g, j) == IF j = 0 THEN <<>>
                        ELSE IF s[j].kind = k THEN Append(g[j - 1], s[j]) ELSE g[j - 1]
             h == [j \in 0 .. m |-> IF j = m THEN G(f, m) ELSE f[j]]
  <2>6. \A j \in 0 .. m - 1 : f[j] = G(f, j)
    BY <2>5 DEF IsFilter
  <2>7. ASSUME NEW j \in 0 .. m PROVE h[j] = G(h, j)
    <3>1. CASE j = 0
      BY <2>2, <2>3, <2>6, <3>1
    <3>2. CASE j # 0
      <4>1. j - 1 \in 0 .. m /\ j - 1 # m /\ h[j - 1] = f[j - 1]
        BY <2>2, <3>2
      <4>2. G(h, j) = G(f, j)
        BY <4>1
      <4>3. j # m => j \in 0 .. m - 1
        BY <2>2
      <4> QED
        BY <2>6, <4>2, <4>3
    <3> QED
      BY <3>1, <3>2
  <2>8. h = [j \in 0 .. m |-> G(h, j)]
    <3>1. h = [j \in 0 .. m |-> h[j]]
      OBVIOUS
    <3> HIDE DEF h, G
    <3> QED
      BY <2>7, <3>1
  <2> HIDE DEF h
  <2>9. IsFilter(h, s, k, m)
    BY <2>8 DEF IsFilter
  <2> QED
    BY <2>2, <2>9
<1> QED
  BY <1>1, <1>2

\* It keeps those of the kind and no others.
LEMMA FilterKeeps ==
  ASSUME NEW D, NEW s \in Seq(D), NEW k, NEW f, IsFilter(f, s, k, Len(s))
  PROVE  /\ f[Len(s)] \in Seq(D)
         /\ Elements(f[Len(s)]) = {x \in Elements(s) : x.kind = k}
<1>1. PICK n \in Nat : n = Len(s) /\ DOMAIN s = 1 .. n
  OBVIOUS
<1>2. \A m \in 0 .. n : f[m] = IF m = 0 THEN <<>>
                               ELSE IF s[m].kind = k THEN Append(f[m - 1], s[m])
                                    ELSE f[m - 1]
  BY <1>1 DEF IsFilter
<1>3. \A m \in 1 .. n : s[m] \in D
  BY <1>1
<1> DEFINE Good(m) == /\ f[m] \in Seq(D)
                      /\ Elements(f[m]) = {x \in {s[i] : i \in 1 .. m} : x.kind = k}
           Bad == {m \in 0 .. n : ~Good(m)}
<1>4. CASE Bad = {}
  <2>1. Good(n)
    BY <1>4
  <2> QED
    BY <1>1, <2>1 DEF Elements
<1>5. CASE Bad # {}
  <2>1. PICK m \in Bad : \A j \in Bad : m <= j
    <3>1. Bad \in SUBSET Nat
      OBVIOUS
    <3> HIDE DEF Bad
    <3> QED
      BY <1>5, <3>1, LeastOf
  <2>2. m \in 0 .. n /\ ~Good(m)
    OBVIOUS
  <2>3. m # 0
    <3>1. SUFFICES ASSUME m = 0 PROVE Good(0)
      BY <2>2
    <3>2. f[0] = <<>>
      BY <1>2, <2>2, <3>1
    <3>3. <<>> \in Seq(D) /\ DOMAIN <<>> = {} /\ 1 .. 0 = {}
      OBVIOUS
    <3> QED
      BY <3>2, <3>3 DEF Elements
  <2>4. m \in 1 .. n /\ m - 1 \in 0 .. n /\ m - 1 \notin Bad
    <3>1. m \in 1 .. n /\ m - 1 \in 0 .. n /\ ~(m <= m - 1)
      <4> HIDE DEF Bad
      <4> QED
        BY <2>2, <2>3
    <3> HIDE DEF Bad
    <3> QED
      BY <2>1, <3>1
  <2>5. Good(m - 1)
    BY <2>4
  <2>6. \A i : i \in 1 .. m <=> i \in 1 .. m - 1 \/ i = m
    BY <2>4
  <2>7. {s[i] : i \in 1 .. m} = {s[i] : i \in 1 .. m - 1} \cup {s[m]}
    BY <2>6
  <2>8. f[m] = IF s[m].kind = k THEN Append(f[m - 1], s[m]) ELSE f[m - 1]
    BY <1>2, <2>2, <2>3
  <2>9. s[m] \in D
    BY <1>3, <2>4
  <2>10. Good(m)
    <3>1. CASE s[m].kind = k
      <4>1. Elements(Append(f[m - 1], s[m])) = Elements(f[m - 1]) \cup {s[m]}
        BY <2>5, <2>9, ElementsOfAppend
      <4>2. Append(f[m - 1], s[m]) \in Seq(D)
        BY <2>5, <2>9
      <4>3. Elements(f[m]) = {x \in {s[i] : i \in 1 .. m} : x.kind = k}
        BY <2>5, <2>7, <2>8, <3>1, <4>1
      <4> QED
        BY <2>8, <3>1, <4>2, <4>3
    <3>2. CASE s[m].kind # k
      BY <2>5, <2>7, <2>8, <3>2
    <3> QED
      BY <3>1, <3>2
  <2> QED
    BY <2>2, <2>10
<1> QED
  BY <1>4, <1>5

\* OfKind gives the items of the kind and no others.
LEMMA OfKindKeeps ==
  ASSUME NEW request \in Seq(ExecutionUnitData), NEW kind
  PROVE  /\ OfKind(request, kind) \in Seq(ExecutionUnitData)
         /\ Elements(OfKind(request, kind)) = {x \in Elements(request) : x.kind = kind}
<1>1. PICK n \in Nat : n = Len(request)
  OBVIOUS
<1> DEFINE upTo == CHOOSE f : IsFilter(f, request, kind, n)
<1>2. IsFilter(upTo, request, kind, n)
  BY <1>1, FilterExists
<1>3. OfKind(request, kind) = upTo[n]
  BY <1>1 DEF OfKind, IsFilter
<1> HIDE DEF upTo
<1> QED
  BY <1>1, <1>2, <1>3, FilterKeeps

\* What the scheduler is given for an item.
Converted(data) == IF data.kind = "bundle" THEN RebuiltBundle(data) ELSE RebuiltTransaction(data)

\* The batch of the scheduler is made of the items, each converted.
LEMMA ConvertsEach ==
  ASSUME NEW request \in Seq(ExecutionUnitData)
  PROVE  Elements(ConvertExecutionUnits(request)) = {Converted(x) : x \in Elements(request)}
<1> DEFINE bundles == OfKind(request, "bundle")
           transactions == OfKind(request, "transaction")
           B == [i \in DOMAIN bundles |-> RebuiltBundle(bundles[i])]
           T == [i \in DOMAIN transactions |-> RebuiltTransaction(transactions[i])]
<1>1. /\ bundles \in Seq(ExecutionUnitData)
      /\ Elements(bundles) = {x \in Elements(request) : x.kind = "bundle"}
      /\ transactions \in Seq(ExecutionUnitData)
      /\ Elements(transactions) = {x \in Elements(request) : x.kind = "transaction"}
  BY OfKindKeeps
<1>2. ConvertExecutionUnits(request) = B \o T
  BY DEF ConvertExecutionUnits
<1> HIDE DEF bundles, transactions
<1>3. \A x \in Elements(request) : x.kind \in {"bundle", "transaction"}
  <2>1. \A i \in DOMAIN request : request[i] \in ExecutionUnitData
    OBVIOUS
  <2>2. \A x \in Elements(request) : x \in ExecutionUnitData
    BY <2>1 DEF Elements
  <2> QED
    BY <2>2 DEF ExecutionUnitData
<1>4. Elements(B) = {Converted(x) : x \in Elements(bundles)}
  <2>1. \A i \in DOMAIN bundles : bundles[i].kind = "bundle"
    BY <1>1 DEF Elements
  <2>2. \A i \in DOMAIN bundles : B[i] = Converted(bundles[i])
    BY <2>1 DEF Converted
  <2>3. DOMAIN B = DOMAIN bundles
    OBVIOUS
  <2> HIDE DEF B
  <2> QED
    BY <2>2, <2>3 DEF Elements
<1>5. Elements(T) = {Converted(x) : x \in Elements(transactions)}
  <2>1. \A i \in DOMAIN transactions : transactions[i].kind = "transaction"
    BY <1>1 DEF Elements
  <2>2. \A i \in DOMAIN transactions : T[i] = Converted(transactions[i])
    BY <2>1 DEF Converted
  <2>3. DOMAIN T = DOMAIN transactions
    OBVIOUS
  <2> HIDE DEF T
  <2> QED
    BY <2>2, <2>3 DEF Elements
<1>6. PICK D : D = {x : x \in Elements(B) \cup Elements(T)}
  OBVIOUS
<1>7. B \in Seq(D) /\ T \in Seq(D)
  <2>1. PICK m \in Nat, n \in Nat : DOMAIN bundles = 1 .. m /\ DOMAIN transactions = 1 .. n
    BY <1>1
  <2>2. \A i \in 1 .. m : B[i] \in D
    BY <1>6, <2>1 DEF Elements
  <2>3. \A i \in 1 .. n : T[i] \in D
    BY <1>6, <2>1 DEF Elements
  <2>4. B = [i \in 1 .. m |-> B[i]]
    BY <2>1
  <2>5. T = [i \in 1 .. n |-> T[i]]
    BY <2>1
  <2> HIDE DEF B, T
  <2>6. B \in Seq(D)
    BY <2>2, <2>4
  <2>7. T \in Seq(D)
    BY <2>3, <2>5
  <2> QED
    BY <2>6, <2>7
<1> HIDE DEF B, T
<1>8. Elements(B \o T) = Elements(B) \cup Elements(T)
  BY <1>7, ElementsOfConcat
<1> QED
  BY <1>1, <1>2, <1>3, <1>4, <1>5, <1>8

-----------------------------------------------------------------------------

\* A caller past its submission answers for the items it was asked to schedule:
\* each is answered, left out or still to do, and no bundle can be left out,
\* since every worker is available to a unit without accounts.
Answers(c) ==
  /\ items[c] \in Seq(ExecutionUnitData)
  /\ {Converted(x) : x \in Elements(items[c])}
       = Elements(todo[c]) \cup Answered(c) \cup left_out[c]
  /\ \A u \in left_out[c] : u.accounts # {}
  /\ cpc[c] \in {"choose", "prio"} => Answered(c) = {} /\ left_out[c] = {}
  /\ cpc[c] = "running" => Elements(todo[c]) = {}

AnswersInv ==
  /\ TypeOK
  /\ items \in [Callers -> Seq(ExecutionUnitData)]
  /\ \A c \in Callers : cpc[c] # "idle" => Answers(c)

\* A caller is not disturbed by the steps of the others.
LEMMA OthersAnswer ==
  ASSUME NEW c \in Callers, Answers(c),
         items'[c] = items[c], todo'[c] = todo[c], answer'[c] = answer[c],
         left_out'[c] = left_out[c], cpc'[c] = cpc[c]
  PROVE  Answers(c)'
BY DEF Answers, Answered, Elements, Converted

\* Before the first call nobody has asked for anything.
LEMMA AnswersInit == EngineInit => AnswersInv
<1>1. EngineInit => TypeOK
  BY InitInv DEF EngineInit, SchedulerInv
<1>2. <<>> \in Seq(ExecutionUnitData)
  OBVIOUS
<1> QED
  BY <1>1, <1>2 DEF EngineInit, Init, AnswersInv

\* A call of the engine with any scheduler keeps its answer complete (schedule).
LEMMA AnswersSchedule ==
  ASSUME AnswersInv, TypeOK', NEW c \in Callers, NEW request \in Requests, Schedule(c, request)
  PROVE  AnswersInv'
<1>1. request \in Seq(ExecutionUnitData)
  BY RequestsAssumption
<1>2. /\ items' = [items EXCEPT ![c] = request]
      /\ todo' = [todo EXCEPT ![c] = ConvertExecutionUnits(request)]
      /\ answer' = [answer EXCEPT ![c] = {}]
      /\ left_out' = [left_out EXCEPT ![c] = {}]
      /\ cpc' = [cpc EXCEPT ![c] = "choose"]
  BY DEF Schedule, UpdatePending
<1>3. items' \in [Callers -> Seq(ExecutionUnitData)]
  BY <1>1, <1>2 DEF AnswersInv
<1>4. Answers(c)'
  <2>1. /\ items'[c] = request /\ todo'[c] = ConvertExecutionUnits(request)
        /\ answer'[c] = {} /\ left_out'[c] = {} /\ cpc'[c] = "choose"
    BY <1>2 DEF AnswersInv, TypeOK
  <2>2. Elements(ConvertExecutionUnits(request)) = {Converted(x) : x \in Elements(request)}
    BY <1>1, ConvertsEach
  <2> QED
    BY <1>1, <2>1, <2>2 DEF Answers, Answered
<1>5. ASSUME NEW d \in Callers, d # c, cpc'[d] # "idle" PROVE Answers(d)'
  BY <1>2, <1>5, OthersAnswer DEF AnswersInv, TypeOK
<1> QED
  BY <1>3, <1>4, <1>5 DEF AnswersInv

\* A step of caller c that leaves the items alone.
LEMMA AnswersMove ==
  ASSUME AnswersInv, TypeOK', NEW c \in Callers, UNCHANGED items,
         cpc' = [cpc EXCEPT ![c] = cpc'[c]], todo' = [todo EXCEPT ![c] = todo'[c]],
         answer' = [answer EXCEPT ![c] = answer'[c]],
         left_out' = [left_out EXCEPT ![c] = left_out'[c]],
         cpc'[c] # "idle" => Answers(c)'
  PROVE  AnswersInv'
<1>1. ASSUME NEW d \in Callers, d # c, cpc'[d] # "idle" PROVE Answers(d)'
  BY <1>1, OthersAnswer DEF AnswersInv, TypeOK
<1> QED
  BY <1>1 DEF AnswersInv

\* The step of a greedy caller with its next unit.
LEMMA AnswersGreedy ==
  ASSUME AnswersInv, TypeOK', NEW c \in Callers, UNCHANGED items,
         ScheduleUnit(c) \/ LeaveOut(c)
  PROVE  AnswersInv'
<1> DEFINE u == Head(todo[c])
<1>1. /\ cpc[c] = "greedy" /\ UNCHANGED cpc
      /\ todo[c] \in Seq(Unit) /\ todo[c] # <<>>
      /\ todo' = [todo EXCEPT ![c] = Tail(@)]
      /\ todo'[c] = Tail(todo[c])
      /\ Answers(c)
  BY DEF ScheduleUnit, LeaveOut, AnswersInv, TypeOK
<1>2. Elements(todo[c]) = Elements(todo'[c]) \cup {u}
  BY <1>1, ElementsOfTail
<1>3. CASE ScheduleUnit(c)
  <2>1. PICK w : /\ answer' = [answer EXCEPT ![c] = @ \cup {[unit |-> u, worker |-> w]}]
                 /\ UNCHANGED left_out
    BY <1>3 DEF ScheduleUnit
  <2>2. answer'[c] = answer[c] \cup {[unit |-> u, worker |-> w]}
    BY <2>1 DEF AnswersInv, TypeOK
  <2> HIDE DEF u
  <2>3. Answered(c)' = Answered(c) \cup {u}
    <3>1. [unit |-> u, worker |-> w].unit = u
      OBVIOUS
    <3> QED
      BY <2>2, <3>1 DEF Answered
  <2>4. Answers(c)'
    BY <1>1, <1>2, <2>1, <2>3 DEF Answers
  <2> QED
    BY <1>1, <2>1, <2>2, <2>4, AnswersMove DEF AnswersInv, TypeOK
<1>4. CASE LeaveOut(c)
  <2>1. /\ left_out' = [left_out EXCEPT ![c] = @ \cup {u}]
        /\ left_out'[c] = left_out[c] \cup {u}
        /\ UNCHANGED answer /\ Available(u) = {}
    BY <1>4 DEF LeaveOut, AnswersInv, TypeOK
  <2> HIDE DEF u
  <2>2. u.accounts # {}
    <3>1. 0 \in Workers
      BY AdaptiveAssumption DEF Workers
    <3> QED
      BY <2>1, <3>1 DEF Available
  <2>3. Answered(c)' = Answered(c)
    BY <2>1 DEF Answered
  <2>4. Answers(c)'
    BY <1>1, <1>2, <2>1, <2>2, <2>3 DEF Answers
  <2> QED
    BY <1>1, <2>1, <2>4, AnswersMove DEF AnswersInv, TypeOK
<1> QED
  BY <1>3, <1>4

\* The priority graph answers with every unit of the batch.
LEMMA AnswersPrio ==
  ASSUME AnswersInv, TypeOK', NEW c \in Callers, UNCHANGED items, PrioSchedule(c)
  PROVE  AnswersInv'
<1>1. PICK place : answer' = [answer EXCEPT ![c] =
        {[unit |-> todo[c][i], worker |-> place[i]] : i \in DOMAIN todo[c]}]
  BY DEF PrioSchedule
<1>2. /\ answer'[c] = {[unit |-> todo[c][i], worker |-> place[i]] : i \in DOMAIN todo[c]}
      /\ cpc[c] = "prio" /\ cpc'[c] = "running" /\ cpc' = [cpc EXCEPT ![c] = "running"]
      /\ todo'[c] = <<>> /\ todo' = [todo EXCEPT ![c] = <<>>]
      /\ UNCHANGED left_out
      /\ Answers(c)
  BY <1>1 DEF PrioSchedule, AnswersInv, TypeOK
<1>3. Answered(c)' = Elements(todo[c])
  <2>1. PICK A, s : A = answer'[c] /\ s = todo[c]
    OBVIOUS
  <2>2. Answered(c)' = {x.unit : x \in A}
    BY <2>1 DEF Answered
  <2>3. A = {[unit |-> s[i], worker |-> place[i]] : i \in DOMAIN s}
    BY <1>2, <2>1
  <2>4. {x.unit : x \in A} = {s[i] : i \in DOMAIN s}
    <3> DEFINE r(i) == [unit |-> s[i], worker |-> place[i]]
    <3>1. \A i : r(i).unit = s[i]
      OBVIOUS
    <3>2. A = {r(i) : i \in DOMAIN s}
      BY <2>3
    <3> HIDE DEF r
    <3> QED
      BY <3>1, <3>2
  <2> QED
    BY <2>1, <2>2, <2>4 DEF Elements
<1>4. Elements(todo[c])' = {}
  BY <1>2 DEF Elements
<1>5. Answers(c)'
  BY <1>2, <1>3, <1>4 DEF Answers
<1> QED
  BY <1>1, <1>2, <1>5, AnswersMove DEF AnswersInv, TypeOK

\* The other steps move the caller on.
LEMMA AnswersMoveOn ==
  ASSUME AnswersInv, TypeOK', NEW c \in Callers, UNCHANGED items,
         ChooseScheduler(c) \/ EndGreedy(c) \/ BatchCompletes(c)
  PROVE  AnswersInv'
<1>1. /\ UNCHANGED <<todo, answer, left_out>>
      /\ cpc' = [cpc EXCEPT ![c] = cpc'[c]]
      /\ cpc[c] # "idle" /\ Answers(c)
  BY DEF ChooseScheduler, EndGreedy, BatchCompletes, AnswersInv, TypeOK
<1>2. /\ cpc'[c] \in {"prio", "choose"} => cpc[c] = "choose"
      /\ cpc'[c] = "running" => todo[c] = <<>>
  BY DEF ChooseScheduler, EndGreedy, BatchCompletes, AnswersInv, TypeOK
<1>3. /\ Answered(c)' = Answered(c) /\ Elements(todo[c])' = Elements(todo[c])
      /\ cpc'[c] = "running" => Elements(todo[c]) = {}
  BY <1>1, <1>2 DEF Answered, Elements
<1>4. Answers(c)'
  BY <1>1, <1>2, <1>3 DEF Answers
<1> QED
  BY <1>1, <1>4, AnswersMove DEF AnswersInv, TypeOK

\* Each item of a call is answered or left out, and nothing else is; no bundle is
\* left out; the answer names a transaction by its id and a bundle by the number
\* its id reads as, 0 if it reads as none (schedule() of SchedulerEngine and of
\* AdaptiveScheduler).
THEOREM AnswersCoverRequests == EngineSpec => []AnswerCovers
<1>1. AnswersInv /\ TypeOK' /\ [EngineNext]_engineVars => AnswersInv'
  <2> SUFFICES ASSUME AnswersInv, TypeOK', [EngineNext]_engineVars PROVE AnswersInv'
    OBVIOUS
  <2>1. CASE EngineNext
    BY <2>1, AnswersSchedule, AnswersGreedy, AnswersPrio, AnswersMoveOn DEF EngineNext
  <2>2. CASE UNCHANGED engineVars
    BY <2>2, OthersAnswer DEF AnswersInv, engineVars, vars
  <2> QED
    BY <2>1, <2>2
<1>2. ASSUME AnswersInv PROVE AnswerCovers
  <2> SUFFICES ASSUME NEW c \in Callers, cpc[c] = "running"
               PROVE  /\ \A u \in Answered(c) \cup left_out[c] :
                           \E i \in DOMAIN items[c] : items[c][i].item = u.item
                      /\ \A i \in DOMAIN items[c] :
                           /\ items[c][i].kind = "bundle" =>
                                \E u \in Answered(c) :
                                  u.item = items[c][i].item /\ u.id = BundleId(items[c][i].id)
                           /\ items[c][i].kind = "transaction" =>
                                \E u \in Answered(c) \cup left_out[c] :
                                  /\ u.item = items[c][i].item
                                  /\ u.id = items[c][i].id
                                  /\ u.accounts = items[c][i].accounts
    BY DEF AnswerCovers
  <2>1. /\ {Converted(x) : x \in Elements(items[c])} = Answered(c) \cup left_out[c]
        /\ \A u \in left_out[c] : u.accounts # {}
    BY <1>2 DEF AnswersInv, Answers
  <2>2. /\ \A x : RebuiltBundle(x).item = x.item /\ RebuiltTransaction(x).item = x.item
        /\ \A x : RebuiltBundle(x).id = BundleId(x.id) /\ RebuiltBundle(x).accounts = {}
        /\ \A x : RebuiltTransaction(x).id = x.id /\ RebuiltTransaction(x).accounts = x.accounts
    BY DEF RebuiltBundle, RebuiltTransaction
  <2>3. ASSUME NEW u \in Answered(c) \cup left_out[c]
        PROVE  \E i \in DOMAIN items[c] : items[c][i].item = u.item
    <3>1. PICK x \in Elements(items[c]) : u = Converted(x)
      BY <2>1
    <3>2. u.item = x.item
      BY <2>2, <3>1 DEF Converted
    <3> QED
      BY <3>2 DEF Elements
  <2>4. ASSUME NEW i \in DOMAIN items[c]
        PROVE  Converted(items[c][i]) \in Answered(c) \cup left_out[c]
    BY <2>1 DEF Elements
  <2>5. ASSUME NEW i \in DOMAIN items[c], items[c][i].kind = "bundle"
        PROVE  \E u \in Answered(c) :
                 u.item = items[c][i].item /\ u.id = BundleId(items[c][i].id)
    <3>1. Converted(items[c][i]) = RebuiltBundle(items[c][i])
      BY <2>5 DEF Converted
    <3>2. RebuiltBundle(items[c][i]) \in Answered(c)
      BY <2>1, <2>2, <2>4, <3>1
    <3> QED
      BY <2>2, <3>2
  <2>6. ASSUME NEW i \in DOMAIN items[c], items[c][i].kind = "transaction"
        PROVE  \E u \in Answered(c) \cup left_out[c] :
                 /\ u.item = items[c][i].item
                 /\ u.id = items[c][i].id
                 /\ u.accounts = items[c][i].accounts
    <3>1. Converted(items[c][i]) = RebuiltTransaction(items[c][i])
      BY <2>6 DEF Converted
    <3> QED
      BY <2>2, <2>4, <3>1
  <2> QED
    BY <2>3, <2>5, <2>6
<1>3. EngineSpec => []TypeOK
  BY EngineImplementsScheduler, SchedulerTypes, PTL
<1> QED
  BY <1>1, <1>2, <1>3, AnswersInit, PTL DEF EngineSpec
=============================================================================
