------------------------- MODULE ExternalScheduler -------------------------
(***************************************************************************)
(* The external scheduler: the client the engine holds (core/src/          *)
(* external_scheduler/client.rs), the server (scheduler-external/src/      *)
(* main.rs), and the one QUIC connection between them.                     *)
(*                                                                         *)
(* Every message has a unidirectional stream of its own.  QUIC delivers a  *)
(* stream completely or the connection is lost; quinn hands streams to     *)
(* accept_uni in the order they were opened, and a peer that has           *)
(* MaxStreams of them unread makes open_uni wait.  Neither side ever       *)
(* connects again.  One action is the code between two awaits.             *)
(***************************************************************************)
EXTENDS RoundRobin, FiniteSets

CONSTANTS
  Callers,      \* the tasks that call schedule() and report_completion()
  Loop,         \* the task of receive_loop()
  Batches,      \* the requests: sequences of items
  Long,         \* those whose message is longer than read_to_end accepts
  Huge,         \* those longer than the window of a stream, too
  MaxStreams,   \* max_concurrent_uni_streams, 100 in both directions
  MaxRequests,  \* bound: calls of schedule()
  Workload,     \* bound: Workload[n], the batches the n-th call may submit
  MaxReports    \* bound: calls of report_completion()

ASSUME ExternalAssumption ==
  /\ Loop \notin Callers
  /\ \A batch \in Batches : batch \in Seq({batch[i] : i \in DOMAIN batch})
  /\ Huge \subseteq Long
  /\ Long \subseteq Batches
  /\ MaxStreams \in Nat \ {0}
  /\ MaxRequests \in Nat
  /\ Workload \in [1 .. MaxRequests -> SUBSET Batches]
  /\ MaxReports \in Nat

Ids == 1 .. MaxRequests

VARIABLES
  request_counter,  \* the last request id
  pending,          \* pending_requests: the ids that await an answer
  connq,            \* the mutex around the connection: holder, then waiters
  cpc,              \* cpc[c]: where caller c is
  call,             \* call[c]: its request id, 0 in report_completion
  received,         \* received[c]: its response channel
  toServer,         \* the streams the engine opened and the server has not read
  toClient,         \* the streams the server opened and the engine has not read
  serving,          \* the answer the server is about to send, or <<>>
  next_worker,      \* of the connection's RoundRobinScheduler
  spc,              \* where handle_connection() is
  lpc,              \* where receive_loop() is
  lost,             \* the connection is closed or timed out
  request,          \* history: request[n] is the n-th call and its result
  reports           \* history: how many reports there were

callVars   == <<request_counter, cpc, call, request, reports>>
serverVars == <<serving, next_worker, spc>>
vars == <<callVars, serverVars, pending, connq, received, toServer, toClient, lpc, lost>>

Init ==
  /\ request_counter = 0
  /\ pending = {}
  /\ connq = <<>>
  /\ cpc = [c \in Callers |-> "idle"]
  /\ call = [c \in Callers |-> 0]
  /\ received = [c \in Callers |-> <<>>]
  /\ toServer = <<>>
  /\ toClient = <<>>
  /\ serving = <<>>
  /\ next_worker = 0
  /\ spc = "up"
  /\ lpc = "ask"
  /\ lost = FALSE
  /\ request = [n \in Ids |-> [phase |-> "new", items |-> <<>>, assignments |-> <<>>]]
  /\ reports = 0

-----------------------------------------------------------------------------
(* ExternalSchedulerClient::schedule and report_completion *)

\* schedule() takes the next id, enters it in pending_requests and queues for
\* the connection.  No answer can have that id before it is sent.
BeginSchedule(c, batch) ==
  /\ cpc[c] = "idle"
  /\ request_counter < MaxRequests
  /\ LET n == request_counter + 1
     IN  /\ batch \in Workload[n]
         /\ request_counter' = n
         /\ pending' = pending \cup {n}
         /\ call' = [call EXCEPT ![c] = n]
         /\ request' = [request EXCEPT ![n].phase = "open", ![n].items = batch]
  /\ received' = [received EXCEPT ![c] = <<>>]
  /\ connq' = Append(connq, c)
  /\ cpc' = [cpc EXCEPT ![c] = "open"]
  /\ UNCHANGED <<serverVars, toServer, toClient, lpc, lost, reports>>

BeginReport(c) ==
  /\ cpc[c] = "idle"
  /\ reports < MaxReports
  /\ reports' = reports + 1
  /\ call' = [call EXCEPT ![c] = 0]
  /\ connq' = Append(connq, c)
  /\ cpc' = [cpc EXCEPT ![c] = "open"]
  /\ UNCHANGED <<serverVars, request_counter, request, pending, received, toServer,
                 toClient, lpc, lost>>

Holds(c) == connq # <<>> /\ Head(connq) = c

\* The size of the message of caller c: a report is short.
Sends(c, sizes) == call[c] # 0 /\ request[call[c]].items \in sizes

\* The stream of the call of caller c that it has not finished.
Unread(c) == {i \in DOMAIN toServer : toServer[i].id = call[c] /\ ~toServer[i].done}

CanOpen(c)   == Holds(c) /\ cpc[c] = "open" /\ ~lost /\ Len(toServer) < MaxStreams
CanFinish(c) == cpc[c] = "write" /\ ~lost /\ ~Sends(c, Huge)
Refused(c)   == cpc[c] = "write" /\ Sends(c, Long) /\ Unread(c) = {}

\* open_uni().await, holding the mutex.
OpenStream(c) ==
  /\ CanOpen(c)
  /\ toServer' = Append(toServer, [id |-> call[c], done |-> FALSE])
  /\ cpc' = [cpc EXCEPT ![c] = "write"]
  /\ UNCHANGED <<serverVars, request_counter, call, request, reports, pending, connq,
                 received, toClient, lpc, lost>>

\* The call is over with this result; a report has none.
Return(c, phase, assignments) ==
  /\ cpc' = [cpc EXCEPT ![c] = "idle"]
  /\ request' = IF call[c] = 0 THEN request
                ELSE [request EXCEPT ![call[c]].phase = phase,
                                     ![call[c]].assignments = assignments]

\* write_all().await and finish(), and the mutex is released.  A message that
\* exceeds the window of the stream waits for the server to read.
FinishWrite(c) ==
  /\ CanFinish(c)
  /\ toServer' = [i \in DOMAIN toServer |->
                    IF i \in Unread(c) THEN [toServer[i] EXCEPT !.done = TRUE]
                    ELSE toServer[i]]
  /\ connq' = Tail(connq)
  /\ IF call[c] = 0 THEN Return(c, "reported", <<>>)
     ELSE cpc' = [cpc EXCEPT ![c] = "wait"] /\ UNCHANGED request
  /\ UNCHANGED <<serverVars, request_counter, call, reports, pending, received,
                 toClient, lpc, lost>>

\* open_uni or write_all fails, because the connection is lost or the server
\* stopped the stream: the error is returned, and the entry stays.
SendFails(c) ==
  /\ \/ Holds(c) /\ cpc[c] = "open" /\ lost
     \/ cpc[c] = "write" /\ lost
     \/ Refused(c)
  /\ connq' = Tail(connq)
  /\ Return(c, "network", <<>>)
  /\ UNCHANGED <<serverVars, request_counter, call, reports, pending, received, toServer,
                 toClient, lpc, lost>>

\* validate_assignments: no item twice, no unknown item, no unknown worker.
Validates(items, assignments) ==
  \A i \in DOMAIN assignments :
    /\ \A j \in DOMAIN assignments : assignments[i].unit = assignments[j].unit => i = j
    /\ \E k \in DOMAIN items : items[k].id = assignments[i].unit
    /\ assignments[i].worker \in Workers

\* The answer wins the select, is validated and returned.
Receive(c) ==
  /\ cpc[c] = "wait"
  /\ received[c] # <<>>
  /\ LET assignments == Head(received[c])
     IN  IF Validates(request[call[c]].items, assignments)
         THEN Return(c, "answered", assignments)
         ELSE Return(c, "invalid", <<>>)
  /\ received' = [received EXCEPT ![c] = <<>>]
  /\ UNCHANGED <<serverVars, request_counter, call, reports, pending, connq, toServer,
                 toClient, lpc, lost>>

\* Or the timer wins it, also beside an answer,
TimerFires(c) ==
  /\ cpc[c] = "wait"
  /\ cpc' = [cpc EXCEPT ![c] = "expire"]
  /\ UNCHANGED <<serverVars, request_counter, call, request, reports, pending, connq,
                 received, toServer, toClient, lpc, lost>>

\* Mutation of TimeOut: the entry is left to the receive loop.
TimeOutOnly(c) ==
  /\ cpc[c] = "expire"
  /\ Return(c, "timeout", <<>>)
  /\ UNCHANGED <<serverVars, request_counter, call, reports, pending, connq, received,
                 toServer, toClient, lpc, lost>>

\* and the entry is removed, if the receive loop has not removed it.
TimeOut(c) ==
  /\ cpc[c] = "expire"
  /\ pending' = pending \ {call[c]}
  /\ Return(c, "timeout", <<>>)
  /\ UNCHANGED <<serverVars, request_counter, call, reports, connq, received, toServer,
                 toClient, lpc, lost>>

CallerStep(c) ==
  \/ OpenStream(c)
  \/ FinishWrite(c)
  \/ SendFails(c)
  \/ Receive(c)
  \/ TimerFires(c)
  \/ TimeOut(c)

-----------------------------------------------------------------------------
(* handle_connection() of the server: one message after the other *)

Items(n) == request[n].items

Accepting == spc = "up" /\ serving = <<>> /\ toServer # <<>>

\* A stream ends with finish(), or read_to_end gives up on it.
TooLong(n) == n # 0 /\ Items(n) \in Long
CanRead    == Accepting /\ (Head(toServer).done \/ TooLong(Head(toServer).id))

\* A request is scheduled; the answer waits for a stream of its own.
ReadRequest ==
  /\ Accepting
  /\ LET n == Head(toServer).id
         s == Schedule(Items(n), next_worker)
     IN  /\ n # 0
         /\ Head(toServer).done
         /\ ~TooLong(n)
         /\ serving' = <<[id |-> n, assignments |-> s.assignments]>>
         /\ next_worker' = s.next_worker
  /\ toServer' = Tail(toServer)
  /\ UNCHANGED <<callVars, pending, connq, received, toClient, spc, lpc, lost>>

\* A report is logged, a message that is too long is dropped with a warning.
SkipMessage ==
  /\ CanRead
  /\ Head(toServer).id = 0 \/ TooLong(Head(toServer).id)
  /\ toServer' = Tail(toServer)
  /\ UNCHANGED <<callVars, serverVars, pending, connq, received, toClient, lpc, lost>>

CanRespond == serving # <<>> /\ ~lost /\ Len(toClient) < MaxStreams

\* send_response: open_uni waits for the engine to read earlier answers.  An
\* answer is shorter than its request, so it is never too long for the reader.
SendResponse ==
  /\ CanRespond
  /\ toClient' = Append(toClient, Head(serving))
  /\ serving' = <<>>
  /\ UNCHANGED <<callVars, pending, connq, received, toServer, next_worker, spc, lpc, lost>>

\* Its error is logged.
ResponseFails ==
  /\ serving # <<>>
  /\ lost
  /\ serving' = <<>>
  /\ UNCHANGED <<callVars, pending, connq, received, toServer, toClient, next_worker,
                 spc, lpc, lost>>

\* accept_uni fails: the loop is over.
ServerEnds ==
  /\ spc = "up"
  /\ serving = <<>>
  /\ lost
  /\ spc' = "ended"
  /\ UNCHANGED <<callVars, pending, connq, received, toServer, toClient, serving,
                 next_worker, lpc, lost>>

ServerStep == ReadRequest \/ SkipMessage \/ SendResponse \/ ResponseFails \/ ServerEnds

-----------------------------------------------------------------------------
(* receive_loop() of the client *)

\* The loop queues for the connection,
LoopAsks ==
  /\ lpc = "ask"
  /\ connq' = Append(connq, Loop)
  /\ lpc' = "queued"
  /\ UNCHANGED <<callVars, serverVars, pending, received, toServer, toClient, lost>>

\* Mutation of LoopGets: the mutex is held across accept_uni.
LoopGetsAndKeeps ==
  /\ lpc = "queued"
  /\ Holds(Loop)
  /\ lpc' = "accept"
  /\ UNCHANGED <<callVars, serverVars, pending, connq, received, toServer, toClient, lost>>

\* clones it and releases the mutex before it accepts.
LoopGets ==
  /\ lpc = "queued"
  /\ Holds(Loop)
  /\ connq' = Tail(connq)
  /\ lpc' = "accept"
  /\ UNCHANGED <<callVars, serverVars, pending, received, toServer, toClient, lost>>

\* The answer goes to the channel of the call that is in progress under its id;
\* a channel whose call has returned is closed, and the error ignored.
Deliver(answer) ==
  received' = [c \in Callers |->
                 IF call[c] = answer.id /\ cpc[c] # "idle"
                 THEN Append(received[c], answer.assignments) ELSE received[c]]

\* Mutations of HandleMessage: the answer goes to any call that waits; an
\* answer nobody waits for ends the loop.
HandleForAnybody ==
  /\ lpc = "accept"
  /\ toClient # <<>>
  /\ toClient' = Tail(toClient)
  /\ IF pending # {}
     THEN \E n \in pending :
            /\ pending' = pending \ {n}
            /\ Deliver([Head(toClient) EXCEPT !.id = n])
     ELSE UNCHANGED <<pending, received>>
  /\ lpc' = "ask"
  /\ UNCHANGED <<callVars, serverVars, connq, toServer, lost>>

HandleKnownOnly ==
  /\ lpc = "accept"
  /\ toClient # <<>>
  /\ toClient' = Tail(toClient)
  /\ IF Head(toClient).id \in pending
     THEN /\ pending' = pending \ {Head(toClient).id}
          /\ Deliver(Head(toClient))
          /\ lpc' = "ask"
     ELSE lpc' = "ended" /\ UNCHANGED <<pending, received>>
  /\ UNCHANGED <<callVars, serverVars, connq, toServer, lost>>

\* accept_uni, read_to_end and handle_message: an answer nobody waits for any
\* more is dropped.
HandleMessage ==
  /\ lpc = "accept"
  /\ toClient # <<>>
  /\ toClient' = Tail(toClient)
  /\ IF Head(toClient).id \in pending
     THEN /\ pending' = pending \ {Head(toClient).id}
          /\ Deliver(Head(toClient))
     ELSE UNCHANGED <<pending, received>>
  /\ lpc' = "ask"
  /\ UNCHANGED <<callVars, serverVars, connq, toServer, lost>>

\* accept_uni fails: nobody receives answers any more.
LoopEnds ==
  /\ lpc = "accept"
  /\ lost
  /\ lpc' = "ended"
  /\ UNCHANGED <<callVars, serverVars, pending, connq, received, toServer, toClient, lost>>

LoopStep == LoopAsks \/ LoopGets \/ HandleMessage \/ LoopEnds

-----------------------------------------------------------------------------
(* The connection *)

LoopCanMove ==
  \/ lpc = "ask"
  \/ lpc = "queued" /\ Holds(Loop)
  \/ lpc = "accept" /\ toClient # <<>>

\* Mutation of Idle: no idle timeout is configured.
NeverIdle == FALSE

\* Nobody sends, reads or is about to: what the idle timer of QUIC waits for.
Idle ==
  /\ \A c \in Callers : ~CanOpen(c) /\ ~CanFinish(c) /\ ~Refused(c)
  /\ ~LoopCanMove
  /\ ~CanRead
  /\ ~CanRespond

\* A side goes away, the network fails, or the connection was idle for longer
\* than max_idle_timeout.  Calls and loops then find out on their own.
LoseConnection ==
  /\ ~lost
  /\ lost' = TRUE
  /\ UNCHANGED <<callVars, serverVars, pending, connq, received, toServer, toClient, lpc>>

\* Everything has come to its end, within the bounds.
Terminated ==
  /\ \A c \in Callers : cpc[c] = "idle"
  /\ request_counter = MaxRequests
  /\ reports = MaxReports
  /\ lpc = "ended"
  /\ spc = "ended"
  /\ UNCHANGED vars

Next ==
  \/ \E c \in Callers :
       \/ \E batch \in Batches : BeginSchedule(c, batch)
       \/ BeginReport(c)
       \/ CallerStep(c)
  \/ ServerStep
  \/ LoopStep
  \/ LoseConnection
  \/ Terminated

Spec == Init /\ [][Next]_vars

\* Tasks that can move do; the timers of calls and the idle timer fire.
Fairness ==
  /\ \A c \in Callers : WF_vars(CallerStep(c))
  /\ WF_vars(ServerStep)
  /\ WF_vars(LoopStep)
  /\ WF_vars(Idle /\ LoseConnection)

FairSpec == Spec /\ Fairness

-----------------------------------------------------------------------------

InCall(c) == cpc[c] # "idle" /\ call[c] # 0

\* pending_requests holds the calls that still want an answer, and besides
\* those exactly the calls that returned with a network error: only they leak.
PendingExact ==
  pending = {call[c] : c \in {d \in Callers : InCall(d) /\ received[d] = <<>>}}
            \cup {n \in Ids : request[n].phase = "network"}

\* A complete answer of this server is rejected if and only if the batch named
\* an item twice: validation never rejects a batch for another batch's answer,
\* and never lets a repeated item through.
RejectedOnlyDuplicates ==
  \A n \in Ids :
    LET items  == request[n].items
        unique == \A i, j \in DOMAIN items : items[i].id = items[j].id => i = j
    IN  /\ request[n].phase = "invalid" => ~unique
        /\ request[n].phase = "answered" => unique \/ WorkerCount = 0

\* The connection is stuck, with a caller waiting to send, in one way only: the
\* holder of the mutex waits for the server to read, the server for the receive
\* loop to take an answer, and the loop, behind the holder, for the mutex.
StallIsCircular ==
  /\ ~lost
  /\ Idle
  /\ \E c \in Callers : cpc[c] \in {"open", "write"}
  => /\ Head(connq) \in Callers
     /\ \E i \in DOMAIN connq : connq[i] = Loop
     /\ Len(toClient) = MaxStreams
     /\ serving # <<>>
     /\ \/ Len(toServer) = MaxStreams
        \/ cpc[Head(connq)] = "write" /\ Sends(Head(connq), Huge)

\* While the connection lives somebody receives answers: late, unknown and
\* rejected answers do not end the loop.
LoopSurvives == lpc = "ended" => lost

\* Every call returns, also from a stuck connection, thanks to the idle timer.
CallsReturn == \A c \in Callers : cpc[c] # "idle" ~> cpc[c] = "idle"

\* The client and the server implement SchedulingService: the answer a caller
\* gets is a valid answer to its own batch, and it gets one result.
Service == INSTANCE SchedulingService
  WITH request <- [n \in Ids |->
                     [request[n] EXCEPT !.phase = IF @ \in {"new", "open", "answered"}
                                                  THEN @ ELSE "failed"]]

ServiceSpec == Service!Spec
=============================================================================
