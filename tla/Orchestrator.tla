---------------------------- MODULE Orchestrator ----------------------------
(***************************************************************************)
(* The AnalysisOrchestrator (src/internal/analyzers/orchestrator.go) from  *)
(* the moment Start has returned: callers submit requests, a pool of       *)
(* workers claims and analyses them, callers take the responses, pollers   *)
(* read metrics and worker statuses, one coordinator goroutine owns the    *)
(* running flag, the statuses and the counters, and Stop or a cancelled    *)
(* context may end it all at any moment.                                   *)
(*                                                                         *)
(* A request stands for the one call of AnalyzeDocumentWithRequestID that  *)
(* carries it (SubmitRequest, then GetResponse); a poll stands for one     *)
(* call of GetMetrics or GetWorkerStatus.  A response is known by the      *)
(* request it answers: AnalysisPipeline.AnalyzeDocument always answers     *)
(* with the ID it was asked for, so whether it carries a result or an      *)
(* error is the only other thing that matters here.                        *)
(***************************************************************************)
EXTENDS Integers, Sequences, FiniteSets, Functions

CONSTANTS
  Requests,     \* the requests, each submitted by a caller of its own
  Workers,      \* the worker goroutines (config.MaxWorkers of them)
  Polls,        \* the GetMetrics / GetWorkerStatus calls
  QueueSize,    \* capacity of requestQueue and of responseQueue
  CoordSize,    \* capacity of coordinationChan (10 in the code)
  Observed,     \* which bookkeeping the instance records, of "status" and "metrics"
  NoRequest     \* no request

ASSUME QueueSizeAssumption == QueueSize \in Nat
ASSUME CoordSizeAssumption == CoordSize \in Nat \ {0}
ASSUME NoRequestAssumption == NoRequest \notin Requests
ASSUME ObservedAssumption == Observed \subseteq {"status", "metrics"}
ASSUME FiniteAssumption == IsFiniteSet(Workers)

VARIABLES
  caller,            \* where each caller stands in SubmitRequest / GetResponse
  got,               \* the response each caller took, if any
  requestQueue,      \* buffered channel of accepted requests
  responseQueue,     \* buffered channel of responses
  coordinationChan,  \* buffered channel of messages to the coordinator
  statusChan,        \* buffered channel of worker statuses
  worker,            \* where each worker goroutine stands
  current,           \* the request in each worker's hands
  handled,           \* requestsHandled of each worker
  dropped,           \* requests whose response was thrown away
  coordinator,       \* the coordination goroutine: "loop", "locking", "exited"
  held,              \* the metrics message the coordinator took and waits to count
  isRunning,         \* the coordinator's running flag
  workerStatuses,    \* the last status the coordinator took from each worker
  metrics,           \* OrchestratorMetrics: total, active, completed, failed
  poll,              \* where each poll stands
  readers,           \* polls that hold metrics.mu for reading
  stop,              \* where Stop stands
  cancelled          \* whether the context given to Start is done

callerVars == <<caller, got>>
queueVars  == <<requestQueue, responseQueue>>
workerVars == <<worker, current, handled, dropped>>
coordVars  == <<coordinator, held, isRunning, workerStatuses, metrics>>
pollVars   == <<poll, readers>>
endVars    == <<stop, cancelled>>
vars == <<callerVars, queueVars, coordinationChan, statusChan, workerVars,
          coordVars, pollVars, endVars>>

-----------------------------------------------------------------------------
(* Data types *)

CallerStates == {"new", "sent", "awaiting", "checked", "queued", "waiting",
                 "returned", "refused", "closed", "panicked"}
WorkerStates == {"starting", "idle", "analyzing", "sending", "finishing",
                 "stopped"}
CoordinatorStates == {"loop", "locking", "exited"}
PollStates == {"new", "ready", "sent", "awaiting", "replied", "returned"}
StopStates == {"running", "signalled", "draining", "stopped", "timedout"}

Running            == [type |-> "running"]
GetMetricsMsg(r)   == [type |-> "getMetrics", request |-> r]
GetStatusMsg(p)    == [type |-> "getWorkerStatus", poll |-> p]
Started            == [type |-> "started"]
Completed          == [type |-> "completed"]
Failed             == [type |-> "failed"]

MetricsMessage == {Started, Completed, Failed}
Message == {Running} \union {GetMetricsMsg(r) : r \in Requests}
             \union {GetStatusMsg(p) : p \in Polls} \union MetricsMessage
NoMessage == [type |-> "none"]

Status == [worker : Workers, active : BOOLEAN, handled : Nat]
NoStatus == [worker |-> NoRequest, active |-> FALSE, handled |-> 0]


(* A select with one send and a default: the message is lost when full. *)
Offer(chan, msg, size) == IF Len(chan) < size THEN Append(chan, msg) ELSE chan

Notify(msg) == coordinationChan' = Offer(coordinationChan, msg, CoordSize)

(* Nothing but GetWorkerStatus reads a status and nothing but GetMetrics   *)
(* a counter, so an instance that is about something else may leave them   *)
(* unrecorded; the coordination messages themselves are always sent.       *)
Report(w, active, n) ==
  statusChan' = IF "status" \in Observed
                THEN Offer(statusChan,
                           [worker |-> w, active |-> active, handled |-> n],
                           Cardinality(Workers))
                ELSE statusChan

shutdown           == stop # "running"                     \* shutdownChan is closed
requestQueueClosed == stop \notin {"running", "signalled"}
NeverClosed        == FALSE   \* mutant of the next: Stop forgets to close it
responseQueueClosed == stop = "stopped"

(* A panic in any goroutine ends the process. *)
Alive == \A r \in Requests : caller[r] # "panicked"

-----------------------------------------------------------------------------
(* Start has just returned: the workers' goroutines exist, and the message *)
(* that sets the running flag is on its way to the coordinator.            *)
Init ==
  /\ caller = [r \in Requests |-> "new"]
  /\ got = [r \in Requests |-> NoRequest]
  /\ requestQueue = <<>>
  /\ responseQueue = <<>>
  /\ coordinationChan = <<Running>>
  /\ statusChan = <<>>
  /\ worker = [w \in Workers |-> "starting"]
  /\ current = [w \in Workers |-> NoRequest]
  /\ handled = [w \in Workers |-> 0]
  /\ dropped = {}
  /\ coordinator = "loop"
  /\ held = NoMessage
  /\ isRunning = FALSE
  /\ workerStatuses = [w \in Workers |-> NoStatus]
  /\ metrics = [total |-> 0, active |-> 0, completed |-> 0, failed |-> 0]
  /\ poll = [p \in Polls |-> "new"]
  /\ readers = {}
  /\ stop = "running"
  /\ cancelled = FALSE

-----------------------------------------------------------------------------
(* SubmitRequest and GetResponse *)

(* The handshake's first half: ask the coordinator whether it runs, or     *)
(* give up at once when its channel is full.                               *)
AskRunning(r) ==
  /\ caller[r] = "new"
  /\ \/ /\ Len(coordinationChan) < CoordSize
        /\ caller' = [caller EXCEPT ![r] = "sent"]
        /\ Notify(GetMetricsMsg(r))
     \/ /\ Len(coordinationChan) = CoordSize
        /\ caller' = [caller EXCEPT ![r] = "refused"]
        /\ UNCHANGED coordinationChan
  /\ UNCHANGED <<got, queueVars, statusChan, workerVars, coordVars, pollVars, endVars>>

(* The caller reaches the receive on its unbuffered reply channel; an      *)
(* answer offered earlier found nobody there.                              *)
AwaitRunning(r) ==
  /\ caller[r] = "sent"
  /\ caller' = [caller EXCEPT ![r] = "awaiting"]
  /\ UNCHANGED <<got, queueVars, coordinationChan, statusChan, workerVars,
                 coordVars, pollVars, endVars>>

(* 50 ms have passed without an answer. *)
RunningTimeout(r) ==
  /\ caller[r] = "awaiting"
  /\ caller' = [caller EXCEPT ![r] = "refused"]
  /\ UNCHANGED <<got, queueVars, coordinationChan, statusChan, workerVars,
                 coordVars, pollVars, endVars>>

(* The non-blocking send into requestQueue.  A send on a closed channel    *)
(* panics, default clause or not.                                          *)
Enqueue(r) ==
  /\ caller[r] = "checked"
  /\ \/ /\ requestQueueClosed
        /\ caller' = [caller EXCEPT ![r] = "panicked"]
        /\ UNCHANGED requestQueue
     \/ /\ ~requestQueueClosed
        /\ Len(requestQueue) < QueueSize
        /\ caller' = [caller EXCEPT ![r] = "queued"]
        /\ requestQueue' = Append(requestQueue, r)
     \/ /\ ~requestQueueClosed
        /\ Len(requestQueue) = QueueSize
        /\ caller' = [caller EXCEPT ![r] = "refused"]
        /\ UNCHANGED requestQueue
  /\ UNCHANGED <<got, responseQueue, coordinationChan, statusChan, workerVars,
                 coordVars, pollVars, endVars>>

(* Mutant of SignalStarted: a signal that finds no room fails the submission. *)
SignalOrRefuse(r) ==
  /\ caller[r] = "queued"
  /\ caller' = [caller EXCEPT ![r] = IF Len(coordinationChan) < CoordSize
                                     THEN "waiting" ELSE "refused"]
  /\ Notify(Started)
  /\ UNCHANGED <<got, queueVars, statusChan, workerVars, coordVars, pollVars, endVars>>

(* The request is already in the queue when msgRequestStarted is offered. *)
SignalStarted(r) ==
  /\ caller[r] = "queued"
  /\ caller' = [caller EXCEPT ![r] = "waiting"]
  /\ Notify(Started)
  /\ UNCHANGED <<got, queueVars, statusChan, workerVars, coordVars, pollVars, endVars>>

(* GetResponse takes whatever response comes next, or learns that the      *)
(* queue has been closed.                                                  *)
GetResponse(r) ==
  /\ caller[r] = "waiting"
  /\ \/ /\ responseQueue # <<>>
        /\ caller' = [caller EXCEPT ![r] = "returned"]
        /\ got' = [got EXCEPT ![r] = Head(responseQueue)]
        /\ responseQueue' = Tail(responseQueue)
     \/ /\ responseQueue = <<>>
        /\ responseQueueClosed
        /\ caller' = [caller EXCEPT ![r] = "closed"]
        /\ UNCHANGED <<got, responseQueue>>
  /\ UNCHANGED <<requestQueue, coordinationChan, statusChan, workerVars,
                 coordVars, pollVars, endVars>>

-----------------------------------------------------------------------------
(* AnalysisWorker.run and processRequest *)

WorkerStarts(w) ==
  /\ worker[w] = "starting"
  /\ worker' = [worker EXCEPT ![w] = "idle"]
  /\ Report(w, FALSE, handled[w])
  /\ UNCHANGED <<callerVars, queueVars, coordinationChan, current, handled,
                 dropped, coordVars, pollVars, endVars>>

(* Mutant of Claim: the request is counted as handled when it is claimed.  *)
ClaimAndCount(w) ==
  /\ worker[w] = "idle"
  /\ requestQueue # <<>>
  /\ worker' = [worker EXCEPT ![w] = "analyzing"]
  /\ current' = [current EXCEPT ![w] = Head(requestQueue)]
  /\ requestQueue' = Tail(requestQueue)
  /\ Report(w, TRUE, handled[w] + 1)
  /\ UNCHANGED <<callerVars, responseQueue, coordinationChan, handled, dropped,
                 coordVars, pollVars, endVars>>

Claim(w) ==
  /\ worker[w] = "idle"
  /\ requestQueue # <<>>
  /\ worker' = [worker EXCEPT ![w] = "analyzing"]
  /\ current' = [current EXCEPT ![w] = Head(requestQueue)]
  /\ requestQueue' = Tail(requestQueue)
  /\ Report(w, TRUE, handled[w])
  /\ UNCHANGED <<callerVars, responseQueue, coordinationChan, handled, dropped,
                 coordVars, pollVars, endVars>>

(* The context, the shutdown channel or the closed and drained queue ends  *)
(* the loop; the first two win or lose against a queued request at random. *)
WorkerExits(w) ==
  /\ worker[w] = "idle"
  /\ \/ cancelled
     \/ shutdown
     \/ requestQueueClosed /\ requestQueue = <<>>
  /\ worker' = [worker EXCEPT ![w] = "stopped"]
  /\ UNCHANGED <<callerVars, queueVars, coordinationChan, statusChan, current,
                 handled, dropped, coordVars, pollVars, endVars>>

(* Mutant of Analyzed: an error is signalled but never answered. *)
AnalyzedOrForgotten(w) ==
  /\ worker[w] = "analyzing"
  /\ \/ /\ worker' = [worker EXCEPT ![w] = "sending"]
        /\ UNCHANGED coordinationChan
     \/ /\ worker' = [worker EXCEPT ![w] = "finishing"]
        /\ Notify(Failed)
  /\ UNCHANGED <<callerVars, queueVars, statusChan, current, handled, dropped,
                 coordVars, pollVars, endVars>>

(* AnalyzeDocument returns, with a result or with an error; an error is    *)
(* signalled before the response is sent.                                  *)
Analyzed(w) ==
  /\ worker[w] = "analyzing"
  /\ worker' = [worker EXCEPT ![w] = "sending"]
  /\ \/ UNCHANGED coordinationChan
     \/ Notify(Failed)
  /\ UNCHANGED <<callerVars, queueVars, statusChan, current, handled, dropped,
                 coordVars, pollVars, endVars>>

(* Mutant of SendResponse: the last slot of the queue is never used. *)
SendBelowLast(w) ==
  /\ worker[w] = "sending"
  /\ worker' = [worker EXCEPT ![w] = "finishing"]
  /\ \/ /\ Len(responseQueue) < QueueSize - 1
        /\ responseQueue' = Append(responseQueue, current[w])
        /\ UNCHANGED dropped
     \/ /\ cancelled \/ Len(responseQueue) >= QueueSize - 1
        /\ dropped' = dropped \union {current[w]}
        /\ UNCHANGED responseQueue
  /\ UNCHANGED <<callerVars, requestQueue, coordinationChan, statusChan, current,
                 handled, coordVars, pollVars, endVars>>

(* The select of three: send, give up because the context is done, or drop *)
(* the response when neither is possible.  (A send on a closed queue would *)
(* panic: StopCompletes has waited for every worker.)                      *)
SendResponse(w) ==
  /\ worker[w] = "sending"
  /\ worker' = [worker EXCEPT ![w] = "finishing"]
  /\ \/ /\ Len(responseQueue) < QueueSize
        /\ responseQueue' = Append(responseQueue, current[w])
        /\ UNCHANGED dropped
     \/ /\ cancelled \/ Len(responseQueue) = QueueSize
        /\ dropped' = dropped \union {current[w]}
        /\ UNCHANGED responseQueue
  /\ UNCHANGED <<callerVars, requestQueue, coordinationChan, statusChan, current,
                 handled, coordVars, pollVars, endVars>>

(* processRequest's deferred function. *)
Finish(w) ==
  /\ worker[w] = "finishing"
  /\ worker' = [worker EXCEPT ![w] = "idle"]
  /\ current' = [current EXCEPT ![w] = NoRequest]
  /\ handled' = [handled EXCEPT ![w] = @ + 1]
  /\ Report(w, FALSE, handled[w] + 1)
  /\ Notify(Completed)
  /\ UNCHANGED <<callerVars, queueVars, dropped, coordVars, pollVars, endVars>>

-----------------------------------------------------------------------------
(* runCoordination *)

Receive(msg) ==
  /\ coordinator = "loop"
  /\ coordinationChan # <<>>
  /\ msg = Head(coordinationChan)
  /\ coordinationChan' = Tail(coordinationChan)

SetRunning ==
  /\ Receive(Running)
  /\ isRunning' = TRUE
  /\ UNCHANGED <<callerVars, queueVars, statusChan, workerVars, coordinator, held,
                 workerStatuses, metrics, pollVars, endVars>>

(* The answer reaches only a caller that is already waiting for it. *)
AnswerRunning(r) ==
  /\ Receive(GetMetricsMsg(r))
  /\ caller' = IF caller[r] = "awaiting"
               THEN [caller EXCEPT ![r] = IF isRunning THEN "checked" ELSE "refused"]
               ELSE caller
  /\ UNCHANGED <<got, queueVars, statusChan, workerVars, coordVars, pollVars, endVars>>

AnswerStatus(p) ==
  /\ Receive(GetStatusMsg(p))
  /\ poll' = IF poll[p] = "awaiting" THEN [poll EXCEPT ![p] = "replied"] ELSE poll
  /\ UNCHANGED <<callerVars, queueVars, statusChan, workerVars, coordVars, readers, endVars>>

Decrement(n) == IF n > 0 THEN n - 1 ELSE n

(* Mutant of Count: a failure counts as a completion too. *)
CountFailedTwice(m, msg) ==
  [total     |-> IF msg = Started THEN m.total + 1 ELSE m.total,
   active    |-> IF msg = Started THEN m.active + 1 ELSE Decrement(m.active),
   completed |-> IF msg # Started THEN m.completed + 1 ELSE m.completed,
   failed    |-> IF msg = Failed THEN m.failed + 1 ELSE m.failed]

(* What the three metrics messages do to the counters. *)
Count(m, msg) ==
  [total     |-> IF msg = Started THEN m.total + 1 ELSE m.total,
   active    |-> IF msg = Started THEN m.active + 1 ELSE Decrement(m.active),
   completed |-> IF msg = Completed THEN m.completed + 1 ELSE m.completed,
   failed    |-> IF msg = Failed THEN m.failed + 1 ELSE m.failed]

Record(msg) == metrics' = IF "metrics" \in Observed THEN Count(metrics, msg) ELSE metrics

(* A metrics message is counted under metrics.mu: at once when no poll     *)
(* reads, else after a wait during which the coordinator serves nobody.    *)
TakeMetrics(msg) ==
  /\ Receive(msg)
  /\ \/ /\ readers = {}
        /\ Record(msg)
        /\ UNCHANGED <<coordinator, held>>
     \/ /\ readers # {}
        /\ coordinator' = "locking"
        /\ held' = msg
        /\ UNCHANGED metrics
  /\ UNCHANGED <<callerVars, queueVars, statusChan, workerVars, isRunning,
                 workerStatuses, pollVars, endVars>>

LockMetrics ==
  /\ coordinator = "locking"
  /\ readers = {}
  /\ Record(held)
  /\ coordinator' = "loop"
  /\ held' = NoMessage
  /\ UNCHANGED <<callerVars, queueVars, coordinationChan, statusChan, workerVars,
                 isRunning, workerStatuses, pollVars, endVars>>

TakeStatus ==
  /\ coordinator = "loop"
  /\ statusChan # <<>>
  /\ workerStatuses' = [workerStatuses EXCEPT ![Head(statusChan).worker] = Head(statusChan)]
  /\ statusChan' = Tail(statusChan)
  /\ UNCHANGED <<callerVars, queueVars, coordinationChan, workerVars, coordinator,
                 held, isRunning, metrics, pollVars, endVars>>

CoordinatorExits ==
  /\ coordinator = "loop"
  /\ cancelled \/ shutdown
  /\ coordinator' = "exited"
  /\ UNCHANGED <<callerVars, queueVars, coordinationChan, statusChan, workerVars,
                 held, isRunning, workerStatuses, metrics, pollVars, endVars>>

-----------------------------------------------------------------------------
(* GetMetrics and GetWorkerStatus *)

(* GetMetrics keeps metrics.mu until it has asked the coordinator for the  *)
(* statuses; a writer that already waits keeps a new reader out.           *)
LockForReading(p) ==
  /\ poll[p] = "new"
  /\ coordinator # "locking"
  /\ poll' = [poll EXCEPT ![p] = "ready"]
  /\ readers' = readers \union {p}
  /\ UNCHANGED <<callerVars, queueVars, coordinationChan, statusChan, workerVars,
                 coordVars, endVars>>

(* GetWorkerStatus called directly holds no lock. *)
StatusOnly(p) ==
  /\ poll[p] = "new"
  /\ poll' = [poll EXCEPT ![p] = "ready"]
  /\ UNCHANGED <<callerVars, queueVars, coordinationChan, statusChan, workerVars,
                 coordVars, readers, endVars>>

AskStatus(p) ==
  /\ poll[p] = "ready"
  /\ \/ /\ Len(coordinationChan) < CoordSize
        /\ poll' = [poll EXCEPT ![p] = "sent"]
     \/ /\ Len(coordinationChan) = CoordSize
        /\ poll' = [poll EXCEPT ![p] = "replied"]
  /\ Notify(GetStatusMsg(p))
  /\ UNCHANGED <<callerVars, queueVars, statusChan, workerVars, coordVars, readers, endVars>>

AwaitStatus(p) ==
  /\ poll[p] = "sent"
  /\ poll' = [poll EXCEPT ![p] = "awaiting"]
  /\ UNCHANGED <<callerVars, queueVars, coordinationChan, statusChan, workerVars,
                 coordVars, readers, endVars>>

(* Mutant of StatusTimeout: the poll waits for ever, with the lock. *)
NoStatusTimeout(p) == FALSE

(* 100 ms have passed without an answer. *)
StatusTimeout(p) ==
  /\ poll[p] = "awaiting"
  /\ poll' = [poll EXCEPT ![p] = "replied"]
  /\ UNCHANGED <<callerVars, queueVars, coordinationChan, statusChan, workerVars,
                 coordVars, readers, endVars>>

PollReturns(p) ==
  /\ poll[p] = "replied"
  /\ poll' = [poll EXCEPT ![p] = "returned"]
  /\ readers' = readers \ {p}
  /\ UNCHANGED <<callerVars, queueVars, coordinationChan, statusChan, workerVars,
                 coordVars, endVars>>

-----------------------------------------------------------------------------
(* Stop, and the context of Start *)

Cancel ==
  /\ ~cancelled
  /\ cancelled' = TRUE
  /\ UNCHANGED <<callerVars, queueVars, coordinationChan, statusChan, workerVars,
                 coordVars, pollVars, stop>>

StopMoves(from, to) ==
  /\ stop = from
  /\ stop' = to
  /\ UNCHANGED <<callerVars, queueVars, coordinationChan, statusChan, workerVars,
                 coordVars, pollVars, cancelled>>

CloseShutdownChan == StopMoves("running", "signalled")
CloseRequestQueue == StopMoves("signalled", "draining")

(* Mutant of StopCompletes: o.wg counts the coordinator only. *)
StopsBeforeWorkers == coordinator = "exited" /\ StopMoves("draining", "stopped")

(* o.wg counts the coordinator and the workers. *)
StopCompletes ==
  /\ coordinator = "exited"
  /\ \A w \in Workers : worker[w] = "stopped"
  /\ StopMoves("draining", "stopped")

(* The context given to Stop ends the wait: responseQueue stays open. *)
StopTimeout == StopMoves("draining", "timedout")

-----------------------------------------------------------------------------
CallerStep(r) == \/ AskRunning(r) \/ AwaitRunning(r) \/ RunningTimeout(r)
                 \/ Enqueue(r) \/ SignalStarted(r) \/ GetResponse(r)

WorkerStep(w) == \/ WorkerStarts(w) \/ Claim(w) \/ WorkerExits(w)
                 \/ Analyzed(w) \/ SendResponse(w) \/ Finish(w)

CoordinatorStep ==
  \/ SetRunning
  \/ \E r \in Requests : AnswerRunning(r)
  \/ \E p \in Polls : AnswerStatus(p)
  \/ \E msg \in MetricsMessage : TakeMetrics(msg)
  \/ LockMetrics
  \/ TakeStatus
  \/ CoordinatorExits

PollStep(p) == \/ LockForReading(p) \/ StatusOnly(p) \/ AskStatus(p)
               \/ AwaitStatus(p) \/ StatusTimeout(p) \/ PollReturns(p)

StopStep == CloseRequestQueue \/ StopCompletes

Next ==
  /\ Alive
  /\ \/ \E r \in Requests : CallerStep(r)
     \/ \E w \in Workers : WorkerStep(w)
     \/ CoordinatorStep
     \/ \E p \in Polls : PollStep(p)
     \/ StopStep
     \/ CloseShutdownChan
     \/ StopTimeout
     \/ Cancel

(* Goroutines that can run do run, and timers fire.  Nothing obliges       *)
(* anyone to submit, to poll, to stop or to cancel.                        *)
Fairness ==
  /\ \A r \in Requests :
       WF_vars(Alive /\ caller[r] # "new" /\ CallerStep(r))
  /\ \A w \in Workers : WF_vars(Alive /\ WorkerStep(w))
  /\ WF_vars(Alive /\ CoordinatorStep)
  /\ \A p \in Polls : WF_vars(Alive /\ poll[p] # "new" /\ PollStep(p))
  /\ WF_vars(Alive /\ StopStep)

Spec == Init /\ [][Next]_vars
FairSpec == Spec /\ Fairness

-----------------------------------------------------------------------------
(* Properties *)

Holding(w) == worker[w] \in {"analyzing", "sending"}

Queued    == Range(requestQueue)
InHand    == {current[w] : w \in {x \in Workers : Holding(x)}}
Answered  == Range(responseQueue)
Taken     == {got[r] : r \in Requests} \ {NoRequest}
Accepted  == {r \in Requests : caller[r] \in {"queued", "waiting", "returned", "closed"}}

TypeOK ==
  /\ caller \in [Requests -> CallerStates]
  /\ got \in [Requests -> Requests \union {NoRequest}]
  /\ requestQueue \in Seq(Requests)
  /\ Len(requestQueue) <= QueueSize
  /\ responseQueue \in Seq(Requests)
  /\ Len(responseQueue) <= QueueSize
  /\ coordinationChan \in Seq(Message)
  /\ Len(coordinationChan) <= CoordSize
  /\ statusChan \in Seq(Status)
  /\ Len(statusChan) <= Cardinality(Workers)
  /\ worker \in [Workers -> WorkerStates]
  /\ current \in [Workers -> Requests \union {NoRequest}]
  /\ handled \in [Workers -> Nat]
  /\ dropped \subseteq Requests
  /\ coordinator \in CoordinatorStates
  /\ held \in MetricsMessage \union {NoMessage}
  /\ isRunning \in BOOLEAN
  /\ workerStatuses \in [Workers -> Status \union {NoStatus}]
  /\ metrics \in [total : Nat, active : Nat, completed : Nat, failed : Nat]
  /\ poll \in [Polls -> PollStates]
  /\ readers \subseteq Polls
  /\ stop \in StopStates
  /\ cancelled \in BOOLEAN

(* A worker has a request in its hands exactly from Claim to Finish, and a *)
(* caller has a response exactly when it has returned with one.            *)
BusyWorkersHold ==
  \A w \in Workers :
    worker[w] \in {"analyzing", "sending", "finishing"} <=> current[w] # NoRequest
ReturnedCallersGot ==
  \A r \in Requests : caller[r] = "returned" <=> got[r] # NoRequest

(* No place ever holds a request twice: the channels, the hands of the     *)
(* workers and the responses the callers took.                             *)
NoDuplicate ==
  /\ IsInjective(requestQueue)
  /\ IsInjective(responseQueue)
  /\ \A v, w \in Workers : Holding(v) /\ Holding(w) /\ current[v] = current[w] => v = w
  /\ \A r, q \in Requests : got[r] = got[q] /\ got[r] # NoRequest => r = q

(* An accepted request is in exactly one place: waiting in requestQueue,   *)
(* in a worker's hands, answered in responseQueue, taken by a caller, or   *)
(* thrown away; a request that was refused is in none.                     *)
Conservation ==
  /\ Queued \union InHand \union Answered \union Taken \union dropped = Accepted
  /\ Queued \intersect (InHand \union Answered \union Taken \union dropped) = {}
  /\ InHand \intersect (Answered \union Taken \union dropped) = {}
  /\ Answered \intersect (Taken \union dropped) = {}
  /\ Taken \intersect dropped = {}

EachRequestInOnePlace == NoDuplicate /\ Conservation

(* The orchestrator implements the abstract pool of requests.             *)
PlaceOf(r) == CASE r \in Queued   -> "queued"
                [] r \in InHand   -> "working"
                [] r \in Answered -> "answered"
                [] r \in Taken    -> "taken"
                [] r \in dropped  -> "dropped"
                [] OTHER          -> "new"

Pool == INSTANCE RequestPool WITH place <- [r \in Requests |-> PlaceOf(r)],
                                  closed <- responseQueueClosed

(* Every step of every goroutine moves at most one request, by one hop of  *)
(* its life, and none once responseQueue is closed but the taking of       *)
(* answers.                                                                *)
ImplementsPool == Pool!Spec

(* Unless the context is cancelled, processRequest throws a response away  *)
(* only after more requests than responseQueue holds have been accepted.   *)
NoDropBelowCapacity ==
  dropped # {} /\ ~cancelled => Cardinality(Accepted) > QueueSize

(* A worker's status never runs ahead of the worker: it never reports more *)
(* requests than the worker has handled, and it reports the worker busy    *)
(* with the next one only while the worker really is.                      *)
StatusOfWorker(s, w) ==
  /\ s.handled <= handled[w]
  /\ s.active /\ s.handled = handled[w] => current[w] # NoRequest
StatusNeverAhead ==
  /\ \A i \in 1..Len(statusChan) : StatusOfWorker(statusChan[i], statusChan[i].worker)
  /\ \A w \in Workers : StatusOfWorker(workerStatuses[w], w)

(* The counters never claim more than happened, whatever messages the full *)
(* coordination channel lost: TotalRequests counts accepted requests,      *)
(* CompletedRequests handled ones, and a failure comes from a worker that  *)
(* has analysed.                                                           *)
PendingOf(type) ==
  Cardinality({i \in 1..Len(coordinationChan) : coordinationChan[i].type = type})
    + (IF held.type = type THEN 1 ELSE 0)
MetricsNeverOvercount ==
  /\ metrics.total + PendingOf("started") <= Cardinality(Accepted)
  /\ metrics.completed + PendingOf("completed") <= SumFunction(handled)
  /\ metrics.failed + PendingOf("failed")
       <= SumFunction(handled) + Cardinality({w \in Workers : worker[w] \in {"sending", "finishing"}})
  /\ metrics.active <= metrics.total

(* SubmitRequest returns (or the process has panicked), also when the      *)
(* coordinator is gone, busy or answered too early; and an accepted        *)
(* request is answered unless the orchestrator is stopped or its context   *)
(* cancelled.                                                              *)
AcceptedIsAnswered ==
  \A r \in Requests :
    /\ caller[r] = "sent" ~> \/ caller[r] \in {"refused", "waiting", "returned", "closed"}
                             \/ ~Alive
    /\ r \in Accepted ~> caller[r] = "returned" \/ shutdown \/ cancelled

(* GetMetrics and GetWorkerStatus return, and metrics.mu is released,      *)
(* although GetMetrics waits for the coordinator with the lock the         *)
(* coordinator needs.                                                      *)
PollReturnsAndUnlocks ==
  \A p \in Polls :
    poll[p] # "new" ~> (poll[p] = "returned" /\ p \notin readers) \/ ~Alive

(* Once both channels are closed Stop ends, one way or the other, and one  *)
(* that completes leaves nobody waiting in GetResponse.                    *)
StopReleasesCallers ==
  /\ stop = "draining" ~> stop \in {"stopped", "timedout"} \/ ~Alive
  /\ \A r \in Requests :
       stop = "stopped" /\ r \in Accepted ~> caller[r] \in {"returned", "closed"} \/ ~Alive

(* What the project's texts say and the code does not do. *)

(* A caller of AnalyzeDocumentWithRequestID gets the response to its own   *)
(* request ("preserves original request ID").                              *)
CallerGetsOwnResponse == \A r \in Requests : got[r] \in {NoRequest, r}

=============================================================================
