------------------------- MODULE OrchestratorProofs -------------------------
(***************************************************************************)
(* Theorems about the orchestrator for every number of requests, workers   *)
(* and polls, and for every size of its channels.                          *)
(***************************************************************************)
EXTENDS Orchestrator, ChannelLemmas

-----------------------------------------------------------------------------
(* Lemmas about the channels. *)

(* A non-blocking send keeps a channel a bounded sequence of its messages. *)
LEMMA OfferType ==
  ASSUME NEW S, NEW chan \in Seq(S), NEW msg \in S, NEW size \in Nat,
         Len(chan) <= size
  PROVE  /\ Offer(chan, msg, size) \in Seq(S)
         /\ Len(Offer(chan, msg, size)) <= size
BY DEF Offer

-----------------------------------------------------------------------------
(* Type correctness *)

(* The types of the queues and channels alone, for the steps that use them. *)
LEMMA ChannelTypes ==
  ASSUME TypeOK
  PROVE  /\ requestQueue \in Seq(Requests) /\ Len(requestQueue) <= QueueSize
         /\ responseQueue \in Seq(Requests) /\ Len(responseQueue) <= QueueSize
         /\ coordinationChan \in Seq(Message) /\ Len(coordinationChan) <= CoordSize
         /\ statusChan \in Seq(Status) /\ Len(statusChan) <= Cardinality(Workers)
         /\ QueueSize \in Nat
         /\ CoordSize \in Nat \ {0}
BY QueueSizeAssumption, CoordSizeAssumption DEF TypeOK

LEMMA SizesType == Cardinality(Workers) \in Nat
BY FiniteAssumption, FS_CardinalityType

(* Every message somebody offers is one the coordinator knows.             *)
LEMMA MessageType ==
  /\ Running \in Message
  /\ \A r \in Requests : GetMetricsMsg(r) \in Message
  /\ \A p \in Polls : GetStatusMsg(p) \in Message
  /\ MetricsMessage \subseteq Message
  /\ {Started, Completed, Failed} = MetricsMessage
BY DEF Message, MetricsMessage

(* A non-blocking message to the coordinator, and a status report, keep    *)
(* their channels bounded and well typed.                                  *)
LEMMA NotifyType ==
  ASSUME TypeOK, NEW msg \in Message, Notify(msg)
  PROVE  coordinationChan' \in Seq(Message) /\ Len(coordinationChan') <= CoordSize
<1>. CoordSize \in Nat
  BY CoordSizeAssumption
<1>. QED  BY OfferType DEF Notify, TypeOK

LEMMA ReportType ==
  ASSUME TypeOK, NEW w \in Workers, NEW active \in BOOLEAN, NEW n \in Nat,
         Report(w, active, n)
  PROVE  statusChan' \in Seq(Status) /\ Len(statusChan') <= Cardinality(Workers)
<1>. DEFINE s == [worker |-> w, active |-> active, handled |-> n]
<1>1. s \in Status
  BY DEF Status
<1>. HIDE DEF s
<1>2. /\ Offer(statusChan, s, Cardinality(Workers)) \in Seq(Status)
      /\ Len(Offer(statusChan, s, Cardinality(Workers))) <= Cardinality(Workers)
  BY <1>1, OfferType, SizesType DEF TypeOK
<1>. QED  BY <1>2 DEF Report, TypeOK, s

LEMMA CountType ==
  ASSUME NEW m \in [total : Nat, active : Nat, completed : Nat, failed : Nat],
         NEW msg
  PROVE  Count(m, msg) \in [total : Nat, active : Nat, completed : Nat, failed : Nat]
BY DEF Count, Decrement

(* The orchestrator starts in a state of the right types.                  *)
LEMMA TypeInit == Init => TypeOK
<1>. SUFFICES ASSUME Init PROVE TypeOK
  OBVIOUS
<1>1. /\ requestQueue \in Seq(Requests) /\ Len(requestQueue) = 0
      /\ responseQueue \in Seq(Requests) /\ Len(responseQueue) = 0
      /\ statusChan \in Seq(Status) /\ Len(statusChan) = 0
  BY EmptySeq DEF Init
<1>2. coordinationChan \in Seq(Message) /\ Len(coordinationChan) = 1
  BY MessageType DEF Init
<1>. QED
  <2>1. NoMessage \in MetricsMessage \union {NoMessage}
    OBVIOUS
  <2>2. workerStatuses \in [Workers -> Status \union {NoStatus}]
    BY DEF Init
  <2>3. /\ Len(requestQueue) <= QueueSize
        /\ Len(responseQueue) <= QueueSize
        /\ Len(coordinationChan) <= CoordSize
        /\ Len(statusChan) <= Cardinality(Workers)
    BY <1>1, <1>2, QueueSizeAssumption, CoordSizeAssumption, SizesType
  <2>4. metrics \in [total : Nat, active : Nat, completed : Nat, failed : Nat]
    BY DEF Init
  <2>. QED  BY <1>1, <1>2, <2>1, <2>2, <2>3, <2>4
  DEF Init, TypeOK, CallerStates, WorkerStates, CoordinatorStates, PollStates,
      StopStates

(* A step of a caller keeps the types.                                     *)
LEMMA TypeCaller ==
  ASSUME TypeOK, NEW r \in Requests, CallerStep(r)
  PROVE  TypeOK'
<1>1. CASE AskRunning(r)
  <2>1. coordinationChan' \in Seq(Message) /\ Len(coordinationChan') <= CoordSize
    BY <1>1, NotifyType, MessageType DEF AskRunning, TypeOK
  <2>. QED  BY <1>1, <2>1 DEF AskRunning, TypeOK, CallerStates, queueVars, workerVars,
                              coordVars, pollVars, endVars
<1>2. CASE AwaitRunning(r)
  BY <1>2 DEF AwaitRunning, TypeOK, CallerStates, queueVars, workerVars, coordVars,
              pollVars, endVars
<1>3. CASE RunningTimeout(r)
  BY <1>3 DEF RunningTimeout, TypeOK, CallerStates, queueVars, workerVars, coordVars,
              pollVars, endVars
<1>4. CASE Enqueue(r)
  <2>1. requestQueue' \in Seq(Requests) /\ Len(requestQueue') <= QueueSize
    <3>1. /\ requestQueue \in Seq(Requests)
          /\ Len(requestQueue) <= QueueSize
          /\ QueueSize \in Nat
      BY ChannelTypes
    <3>2. \/ requestQueue' = requestQueue
          \/ Len(requestQueue) < QueueSize /\ requestQueue' = Append(requestQueue, r)
      BY <1>4 DEF Enqueue
    <3>. QED  BY <3>1, <3>2
  <2>. QED  BY <1>4, <2>1 DEF Enqueue, TypeOK, CallerStates, workerVars, coordVars,
                              pollVars, endVars
<1>5. CASE SignalStarted(r)
  <2>1. coordinationChan' \in Seq(Message) /\ Len(coordinationChan') <= CoordSize
    BY <1>5, NotifyType, MessageType DEF SignalStarted
  <2>. QED  BY <1>5, <2>1 DEF SignalStarted, TypeOK, CallerStates, queueVars,
                              workerVars, coordVars, pollVars, endVars
<1>6. CASE GetResponse(r)
  <2>1. CASE responseQueue # <<>>
    <3>1. /\ Tail(responseQueue) \in Seq(Requests)
          /\ Len(Tail(responseQueue)) <= QueueSize
          /\ Head(responseQueue) \in Requests
      BY <2>1, ReceiveType, ChannelTypes
    <3>2. /\ responseQueue' \in Seq(Requests) /\ Len(responseQueue') <= QueueSize
          /\ caller' \in [Requests -> CallerStates]
          /\ got' \in [Requests -> Requests \union {NoRequest}]
      <4>1. /\ caller' = [caller EXCEPT ![r] = "returned"]
            /\ got' = [got EXCEPT ![r] = Head(responseQueue)]
            /\ responseQueue' = Tail(responseQueue)
        BY <1>6, <2>1 DEF GetResponse
      <4>2. /\ caller \in [Requests -> CallerStates] /\ "returned" \in CallerStates
            /\ got \in [Requests -> Requests \union {NoRequest}]
        BY DEF TypeOK, CallerStates
      <4>. QED  BY <3>1, <4>1, <4>2
    <3>3. UNCHANGED <<requestQueue, coordinationChan, statusChan, workerVars, coordVars,
                      pollVars, endVars>>
      BY <1>6 DEF GetResponse
    <3>. QED  BY <3>2, <3>3 DEF TypeOK, workerVars, coordVars, pollVars, endVars
  <2>2. CASE responseQueue = <<>>
    BY <1>6, <2>2 DEF GetResponse, TypeOK, CallerStates, workerVars, coordVars,
                      pollVars, endVars
  <2>. QED  BY <2>1, <2>2
<1>. QED  BY <1>1, <1>2, <1>3, <1>4, <1>5, <1>6 DEF CallerStep

(* A step of a worker keeps the types.                                     *)
LEMMA TypeWorker ==
  ASSUME TypeOK, BusyWorkersHold, NEW w \in Workers, WorkerStep(w)
  PROVE  TypeOK'
<1>0. handled[w] \in Nat /\ current[w] \in Requests \union {NoRequest}
  BY DEF TypeOK
<1>1. CASE WorkerStarts(w)
  <2>1. statusChan' \in Seq(Status) /\ Len(statusChan') <= Cardinality(Workers)
    BY <1>0, <1>1, ReportType DEF WorkerStarts
  <2>. QED  BY <1>1, <2>1 DEF WorkerStarts, TypeOK, WorkerStates, callerVars, queueVars,
                              coordVars, pollVars, endVars
<1>2. CASE Claim(w)
  <2>1. statusChan' \in Seq(Status) /\ Len(statusChan') <= Cardinality(Workers)
    BY <1>0, <1>2, ReportType DEF Claim
  <2>2. /\ requestQueue' \in Seq(Requests)
        /\ Len(requestQueue') <= QueueSize
        /\ Head(requestQueue) \in Requests
    BY <1>2, ReceiveType, ChannelTypes DEF Claim
  <2>. QED  BY <1>2, <2>1, <2>2 DEF Claim, TypeOK, WorkerStates, callerVars, coordVars,
                                    pollVars, endVars
<1>3. CASE WorkerExits(w)
  BY <1>3 DEF WorkerExits, TypeOK, WorkerStates, callerVars, queueVars, coordVars,
              pollVars, endVars
<1>4. CASE Analyzed(w)
  <2>1. coordinationChan' \in Seq(Message) /\ Len(coordinationChan') <= CoordSize
    BY <1>4, NotifyType, MessageType DEF Analyzed, TypeOK
  <2>. QED  BY <1>4, <2>1 DEF Analyzed, TypeOK, WorkerStates, callerVars, queueVars,
                              coordVars, pollVars, endVars
<1>5. CASE SendResponse(w)
  <2>1. current[w] \in Requests
    BY <1>0, <1>5 DEF SendResponse, BusyWorkersHold
  <2>2. responseQueue' \in Seq(Requests) /\ Len(responseQueue') <= QueueSize
    <3>1. /\ responseQueue \in Seq(Requests)
          /\ Len(responseQueue) <= QueueSize
          /\ QueueSize \in Nat
      BY ChannelTypes
    <3>2. \/ responseQueue' = responseQueue
          \/ /\ Len(responseQueue) < QueueSize
             /\ responseQueue' = Append(responseQueue, current[w])
      BY <1>5 DEF SendResponse
    <3>. QED  BY <2>1, <3>1, <3>2
  <2>. QED  BY <1>5, <2>1, <2>2 DEF SendResponse, TypeOK, WorkerStates, callerVars,
                                    coordVars, pollVars, endVars
<1>6. CASE Finish(w)
  <2>1. coordinationChan' \in Seq(Message) /\ Len(coordinationChan') <= CoordSize
    BY <1>6, NotifyType, MessageType DEF Finish
  <2>2. statusChan' \in Seq(Status) /\ Len(statusChan') <= Cardinality(Workers)
    <3>1. handled[w] + 1 \in Nat
      BY <1>0
    <3>2. Report(w, FALSE, handled[w] + 1)
      BY <1>6 DEF Finish
    <3>. QED  BY <3>1, <3>2, ReportType
  <2>. QED  BY <1>0, <1>6, <2>1, <2>2 DEF Finish, TypeOK, WorkerStates, callerVars,
                                          queueVars, coordVars, pollVars, endVars
<1>. QED  BY <1>1, <1>2, <1>3, <1>4, <1>5, <1>6 DEF WorkerStep

(* A step of the coordinator keeps the types.                              *)
LEMMA TypeCoordinator ==
  ASSUME TypeOK, CoordinatorStep
  PROVE  TypeOK'
<1>0. ASSUME NEW msg, Receive(msg)
      PROVE  coordinationChan' \in Seq(Message) /\ Len(coordinationChan') <= CoordSize
  <2>1. coordinationChan # <<>> /\ coordinationChan' = Tail(coordinationChan)
    BY <1>0 DEF Receive
  <2>2. /\ Tail(coordinationChan) \in Seq(Message)
        /\ Len(Tail(coordinationChan)) = Len(coordinationChan) - 1
        /\ Len(coordinationChan) \in Nat
    BY <2>1, ReceiveType, ChannelTypes
  <2>. QED  BY <2>1, <2>2, ChannelTypes
<1>1. CASE SetRunning
  BY <1>0, <1>1 DEF SetRunning, TypeOK, callerVars, queueVars, workerVars, pollVars, endVars
<1>2. CASE \E r \in Requests : AnswerRunning(r)
  <2>. PICK r \in Requests : AnswerRunning(r)
    BY <1>2
  <2>1. coordinationChan' \in Seq(Message) /\ Len(coordinationChan') <= CoordSize
    BY <1>0 DEF AnswerRunning
  <2>. QED  BY <2>1 DEF AnswerRunning, TypeOK, CallerStates, queueVars, workerVars,
                        coordVars, pollVars, endVars
<1>3. CASE \E p \in Polls : AnswerStatus(p)
  <2>. PICK p \in Polls : AnswerStatus(p)
    BY <1>3
  <2>1. coordinationChan' \in Seq(Message) /\ Len(coordinationChan') <= CoordSize
    BY <1>0 DEF AnswerStatus
  <2>. QED  BY <2>1 DEF AnswerStatus, TypeOK, PollStates, callerVars, queueVars,
                        workerVars, coordVars, endVars
<1>4. CASE \E msg \in MetricsMessage : TakeMetrics(msg)
  <2>. PICK msg \in MetricsMessage : TakeMetrics(msg)
    BY <1>4
  <2>1. coordinationChan' \in Seq(Message) /\ Len(coordinationChan') <= CoordSize
    BY <1>0 DEF TakeMetrics
  <2>2. metrics' \in [total : Nat, active : Nat, completed : Nat, failed : Nat]
    BY CountType DEF TakeMetrics, Record, TypeOK
  <2>. QED  BY <2>1, <2>2 DEF TakeMetrics, TypeOK, CoordinatorStates, callerVars,
                              queueVars, workerVars, pollVars, endVars
<1>5. CASE LockMetrics
  <2>1. metrics' \in [total : Nat, active : Nat, completed : Nat, failed : Nat]
    BY <1>5, CountType DEF LockMetrics, Record, TypeOK
  <2>. QED  BY <1>5, <2>1 DEF LockMetrics, TypeOK, CoordinatorStates, callerVars,
                              queueVars, workerVars, pollVars, endVars
<1>6. CASE TakeStatus
  <2>1. /\ statusChan # <<>>
        /\ statusChan' = Tail(statusChan)
        /\ workerStatuses' = [workerStatuses EXCEPT ![Head(statusChan).worker] = Head(statusChan)]
    BY <1>6 DEF TakeStatus
  <2>2. /\ Head(statusChan) \in Status
        /\ Tail(statusChan) \in Seq(Status)
        /\ Len(Tail(statusChan)) = Len(statusChan) - 1
        /\ Len(statusChan) \in Nat
    BY <2>1, ReceiveType, ChannelTypes
  <2>3. statusChan' \in Seq(Status) /\ Len(statusChan') <= Cardinality(Workers)
    BY <2>1, <2>2, ChannelTypes, SizesType
  <2>4. workerStatuses' \in [Workers -> Status \union {NoStatus}]
    BY <2>1, <2>2 DEF TypeOK
  <2>. QED  BY <1>6, <2>3, <2>4 DEF TakeStatus, TypeOK, callerVars, queueVars,
                                    workerVars, pollVars, endVars
<1>7. CASE CoordinatorExits
  BY <1>7 DEF CoordinatorExits, TypeOK, CoordinatorStates, callerVars, queueVars,
              workerVars, pollVars, endVars
<1>. QED  BY <1>1, <1>2, <1>3, <1>4, <1>5, <1>6, <1>7 DEF CoordinatorStep

(* A step of a poll keeps the types.                                       *)
LEMMA TypePoll ==
  ASSUME TypeOK, NEW p \in Polls, PollStep(p)
  PROVE  TypeOK'
<1>. USE DEF TypeOK, PollStates, callerVars, queueVars, workerVars, coordVars, endVars
<1>1. CASE LockForReading(p)
  BY <1>1 DEF LockForReading
<1>2. CASE StatusOnly(p)
  BY <1>2 DEF StatusOnly
<1>3. CASE AskStatus(p)
  <2>1. coordinationChan' \in Seq(Message) /\ Len(coordinationChan') <= CoordSize
    BY <1>3, NotifyType, MessageType DEF AskStatus
  <2>. QED  BY <1>3, <2>1 DEF AskStatus
<1>4. CASE AwaitStatus(p)
  BY <1>4 DEF AwaitStatus
<1>5. CASE StatusTimeout(p)
  BY <1>5 DEF StatusTimeout
<1>6. CASE PollReturns(p)
  BY <1>6 DEF PollReturns
<1>. QED  BY <1>1, <1>2, <1>3, <1>4, <1>5, <1>6 DEF PollStep

(* Stop, its timeout and the cancelled context keep the types.             *)
LEMMA TypeEnd ==
  ASSUME TypeOK, StopStep \/ CloseShutdownChan \/ StopTimeout \/ Cancel
  PROVE  TypeOK'
<1>1. ASSUME NEW from, NEW to \in StopStates, StopMoves(from, to)
      PROVE  TypeOK'
  BY <1>1 DEF StopMoves, TypeOK, callerVars, queueVars, workerVars, coordVars, pollVars
<1>2. CASE Cancel
  BY <1>2 DEF Cancel, TypeOK, callerVars, queueVars, workerVars, coordVars, pollVars
<1>. QED  BY <1>1, <1>2 DEF StopStep, CloseShutdownChan, CloseRequestQueue, StopCompletes,
                            StopTimeout, StopStates

-----------------------------------------------------------------------------
(* Who touches what                                                        *)

(* The data path (callers, queues, workers) moves only when a caller or a  *)
(* worker steps or when the coordinator answers a handshake.               *)
LEMMA DataSteps ==
  ASSUME [Next]_vars
  PROVE  \/ \E r \in Requests : CallerStep(r) \/ AnswerRunning(r)
         \/ \E w \in Workers : WorkerStep(w)
         \/ UNCHANGED <<callerVars, queueVars, workerVars>>
<1>. USE DEF callerVars, queueVars, workerVars
<1>1. CASE CoordinatorStep
  BY <1>1 DEF CoordinatorStep, SetRunning, AnswerStatus, TakeMetrics, LockMetrics,
              TakeStatus, CoordinatorExits
<1>2. CASE \E p \in Polls : PollStep(p)
  BY <1>2 DEF PollStep, LockForReading, StatusOnly, AskStatus, AwaitStatus,
              StatusTimeout, PollReturns
<1>3. CASE StopStep \/ CloseShutdownChan \/ StopTimeout \/ Cancel
  BY <1>3 DEF StopStep, CloseShutdownChan, CloseRequestQueue, StopCompletes,
              StopTimeout, Cancel, StopMoves
<1>4. CASE UNCHANGED vars
  BY <1>4 DEF vars
<1>. QED  BY <1>1, <1>2, <1>3, <1>4 DEF Next

(* A caller leaves the workers alone, a worker the callers.                *)
LEMMA CallerLeaves ==
  ASSUME NEW r \in Requests, CallerStep(r) \/ AnswerRunning(r)
  PROVE  UNCHANGED workerVars
BY DEF CallerStep, AnswerRunning, AskRunning, AwaitRunning, RunningTimeout, Enqueue,
       SignalStarted, GetResponse, workerVars

LEMMA WorkerLeaves ==
  ASSUME NEW w \in Workers, WorkerStep(w)
  PROVE  UNCHANGED callerVars
BY DEF WorkerStep, WorkerStarts, Claim, WorkerExits, Analyzed, SendResponse, Finish,
       callerVars

-----------------------------------------------------------------------------
(* Requests in the workers' hands and in the callers'                      *)

(* A worker holds a request exactly from Claim to Finish.                  *)
LEMMA BusyStep ==
  ASSUME TypeOK, BusyWorkersHold, [Next]_vars
  PROVE  BusyWorkersHold'
<1>. USE NoRequestAssumption DEF BusyWorkersHold
<1>1. ASSUME NEW w \in Workers, WorkerStep(w)
      PROVE  BusyWorkersHold'
  <2>1. CASE Claim(w)
    <3>1. Head(requestQueue) \in Requests
      BY <2>1, ReceiveType, ChannelTypes DEF Claim
    <3>. QED  BY <2>1, <3>1 DEF Claim, TypeOK
  <2>2. CASE WorkerStarts(w) \/ WorkerExits(w)
    BY <2>2 DEF WorkerStarts, WorkerExits, TypeOK
  <2>3. CASE Analyzed(w)
    BY <2>3 DEF Analyzed, TypeOK
  <2>4. CASE SendResponse(w)
    BY <2>4 DEF SendResponse, TypeOK
  <2>5. CASE Finish(w)
    BY <2>5 DEF Finish, TypeOK
  <2>. QED  BY <1>1, <2>1, <2>2, <2>3, <2>4, <2>5 DEF WorkerStep
<1>2. CASE UNCHANGED workerVars
  BY <1>2 DEF workerVars
<1>. QED  BY <1>1, <1>2, DataSteps, CallerLeaves

(* A caller holds a response exactly when it has returned with one.        *)
LEMMA GotStep ==
  ASSUME TypeOK, ReturnedCallersGot, [Next]_vars
  PROVE  ReturnedCallersGot'
<1>. USE NoRequestAssumption DEF ReturnedCallersGot
<1>1. ASSUME NEW r \in Requests, CallerStep(r) \/ AnswerRunning(r)
      PROVE  ReturnedCallersGot'
  <2>1. CASE GetResponse(r)
    <3>1. responseQueue # <<>> => Head(responseQueue) \in Requests
      BY ReceiveType, ChannelTypes
    <3>. QED  BY <2>1, <3>1 DEF GetResponse, TypeOK
  <2>2. CASE AskRunning(r)
    BY <2>2 DEF AskRunning, TypeOK
  <2>3. CASE AwaitRunning(r) \/ RunningTimeout(r) \/ SignalStarted(r)
    BY <2>3 DEF AwaitRunning, RunningTimeout, SignalStarted, TypeOK
  <2>4. CASE Enqueue(r)
    BY <2>4 DEF Enqueue, TypeOK
  <2>5. CASE AnswerRunning(r)
    BY <2>5 DEF AnswerRunning, TypeOK
  <2>. QED  BY <1>1, <2>1, <2>2, <2>3, <2>4, <2>5 DEF CallerStep
<1>2. CASE UNCHANGED callerVars
  BY <1>2 DEF callerVars
<1>. QED  BY <1>1, <1>2, DataSteps, WorkerLeaves

-----------------------------------------------------------------------------
(* Type correctness as a theorem                                           *)

TypeInv == TypeOK /\ BusyWorkersHold /\ ReturnedCallersGot

LEMMA TypeInvInit == Init => TypeInv
BY TypeInit DEF TypeInv, Init, BusyWorkersHold, ReturnedCallersGot

LEMMA TypeInvStep ==
  ASSUME TypeInv, [Next]_vars
  PROVE  TypeInv'
<1>. USE DEF TypeInv
<1>1. TypeOK'
  <2>1. CASE UNCHANGED vars
    BY <2>1 DEF TypeOK, vars, callerVars, queueVars, workerVars, coordVars, pollVars,
                endVars
  <2>. QED  BY <2>1, TypeCaller, TypeWorker, TypeCoordinator, TypePoll, TypeEnd DEF Next
<1>. QED  BY <1>1, BusyStep, GotStep

(* Every variable keeps its type, every channel its capacity; a worker     *)
(* holds a request exactly while it is busy and a caller a response        *)
(* exactly when it has returned with one.                                  *)
THEOREM TypeCorrect == Spec => [](TypeOK /\ BusyWorkersHold /\ ReturnedCallersGot)
<1>1. Spec => []TypeInv
  BY TypeInvInit, TypeInvStep, PTL DEF Spec
<1>. QED  BY <1>1, PTL DEF TypeInv

-----------------------------------------------------------------------------
(* The life of a request: what each step does to the places                *)

DataInv == TypeInv /\ EachRequestInOnePlace

(* SubmitRequest moves a request nobody has seen into the queue.           *)
LEMMA EnqueueHop ==
  ASSUME DataInv, NEW r \in Requests, Enqueue(r), caller'[r] = "queued"
  PROVE  /\ r \notin Accepted
         /\ Queued' = Queued \union {r}
         /\ Accepted' = Accepted \union {r}
         /\ UNCHANGED <<InHand, Answered, Taken, dropped>>
         /\ NoDuplicate'
<1>. USE DEF DataInv, TypeInv
<1>1. /\ requestQueue' = Append(requestQueue, r)
      /\ caller[r] = "checked"
      /\ caller' = [caller EXCEPT ![r] = "queued"]
      /\ UNCHANGED <<got, responseQueue, worker, current, dropped>>
  BY DEF Enqueue, TypeOK, workerVars
<1>2. r \notin Accepted /\ Accepted' = Accepted \union {r}
  BY <1>1 DEF Accepted, TypeOK
<1>3. Queued' = Queued \union {r}
  BY <1>1, ChannelTypes, SendContents DEF Queued
<1>4. UNCHANGED <<InHand, Answered, Taken, dropped>>
  BY <1>1 DEF InHand, Answered, Taken, Holding
<1>5. r \notin Queued
  BY <1>2 DEF EachRequestInOnePlace, Conservation
<1>6. IsInjective(requestQueue')
  BY <1>1, <1>5, ChannelTypes, SendContents DEF Queued, EachRequestInOnePlace, NoDuplicate
<1>7. NoDuplicate'
  BY <1>1, <1>6 DEF EachRequestInOnePlace, NoDuplicate, Holding
<1>. QED  BY <1>2, <1>3, <1>4, <1>7

(* A worker moves the oldest queued request into its hands.                *)
LEMMA ClaimHop ==
  ASSUME DataInv, NEW w \in Workers, Claim(w)
  PROVE  /\ Head(requestQueue) \in Queued
         /\ Queued' = Queued \ {Head(requestQueue)}
         /\ InHand' = InHand \union {Head(requestQueue)}
         /\ UNCHANGED <<Accepted, Answered, Taken, dropped>>
         /\ NoDuplicate'
<1>. USE DEF DataInv, TypeInv
<1>. DEFINE h == Head(requestQueue)
<1>1. /\ requestQueue # <<>>
      /\ worker[w] = "idle"
      /\ worker' = [worker EXCEPT ![w] = "analyzing"]
      /\ current' = [current EXCEPT ![w] = h]
      /\ requestQueue' = Tail(requestQueue)
      /\ UNCHANGED <<caller, got, responseQueue, dropped>>
  BY DEF Claim, callerVars
<1>2. h \in Queued /\ Queued' = Queued \ {h} /\ IsInjective(requestQueue')
  BY <1>1, ChannelTypes, ReceiveContents DEF Queued, EachRequestInOnePlace, NoDuplicate
<1>3. UNCHANGED <<Accepted, Answered, Taken, dropped>>
  BY <1>1 DEF Accepted, Answered, Taken
<1>4. /\ ~Holding(w) /\ Holding(w)'
      /\ current'[w] = h
      /\ \A v \in Workers \ {w} : /\ Holding(v)' <=> Holding(v)
                                  /\ current'[v] = current[v]
  BY <1>1 DEF Holding, TypeOK
<1>5. InHand' = InHand \union {h}
  BY <1>4 DEF InHand
<1>6. h \notin InHand
  BY <1>2 DEF EachRequestInOnePlace, Conservation
<1>7. ASSUME NEW u \in Workers, NEW v \in Workers, Holding(u)', Holding(v)',
             current'[u] = current'[v]
      PROVE  u = v
  BY <1>4, <1>6, <1>7 DEF InHand, EachRequestInOnePlace, NoDuplicate
<1>8. NoDuplicate'
  BY <1>1, <1>2, <1>7 DEF EachRequestInOnePlace, NoDuplicate
<1>. QED  BY <1>2, <1>3, <1>5, <1>8

(* A worker moves the request in its hands to the responses, or drops it.  *)
LEMMA SendHop ==
  ASSUME DataInv, NEW w \in Workers, SendResponse(w)
  PROVE  /\ current[w] \in InHand
         /\ InHand' = InHand \ {current[w]}
         /\ \/ /\ Answered' = Answered \union {current[w]}
               /\ UNCHANGED dropped
            \/ /\ dropped' = dropped \union {current[w]}
               /\ UNCHANGED Answered
         /\ UNCHANGED <<Accepted, Queued, Taken>>
         /\ NoDuplicate'
<1>. USE DEF DataInv, TypeInv
<1>1. /\ worker[w] = "sending"
      /\ worker' = [worker EXCEPT ![w] = "finishing"]
      /\ UNCHANGED <<caller, got, requestQueue, current>>
      /\ \/ responseQueue' = Append(responseQueue, current[w]) /\ UNCHANGED dropped
         \/ dropped' = dropped \union {current[w]} /\ UNCHANGED responseQueue
  BY DEF SendResponse, callerVars
<1>2. /\ Holding(w) /\ ~Holding(w)'
      /\ \A v \in Workers \ {w} : Holding(v)' <=> Holding(v)
      /\ \A v \in Workers : Holding(v)' => Holding(v)
  BY <1>1 DEF Holding, TypeOK
<1>3. current[w] \in InHand
  BY <1>2 DEF InHand
<1>4. InHand' = InHand \ {current[w]}
  <2>1. ASSUME NEW x \in InHand'  PROVE x \in InHand \ {current[w]}
    <3>1. PICK v \in Workers : Holding(v)' /\ x = current[v]
      BY <1>1, <2>1 DEF InHand
    <3>2. v # w /\ Holding(v)
      BY <1>2, <3>1
    <3>. QED  BY <1>2, <3>1, <3>2 DEF InHand, EachRequestInOnePlace, NoDuplicate
  <2>2. ASSUME NEW x \in InHand \ {current[w]}  PROVE x \in InHand'
    BY <1>1, <1>2, <2>2 DEF InHand
  <2>. QED  BY <2>1, <2>2
<1>5. current[w] \in Requests
  BY <1>1 DEF TypeOK, BusyWorkersHold
<1>6. current[w] \notin Answered
  BY <1>3 DEF EachRequestInOnePlace, Conservation
<1>7. /\ \/ Answered' = Answered \union {current[w]} /\ UNCHANGED dropped
         \/ dropped' = dropped \union {current[w]} /\ UNCHANGED Answered
      /\ IsInjective(responseQueue')
  <2>1. CASE responseQueue' = Append(responseQueue, current[w]) /\ UNCHANGED dropped
    BY <2>1, <1>5, <1>6, ChannelTypes, SendContents
    DEF Answered, EachRequestInOnePlace, NoDuplicate
  <2>2. CASE dropped' = dropped \union {current[w]} /\ UNCHANGED responseQueue
    BY <2>2 DEF Answered, EachRequestInOnePlace, NoDuplicate
  <2>. QED  BY <1>1, <2>1, <2>2
<1>8. UNCHANGED <<Accepted, Queued, Taken>>
  BY <1>1 DEF Accepted, Queued, Taken
<1>9. NoDuplicate'
  BY <1>1, <1>2, <1>7 DEF EachRequestInOnePlace, NoDuplicate
<1>. QED  BY <1>3, <1>4, <1>7, <1>8, <1>9

(* A caller takes the oldest response.                                     *)
LEMMA TakeHop ==
  ASSUME DataInv, NEW r \in Requests, GetResponse(r), responseQueue # <<>>
  PROVE  /\ Head(responseQueue) \in Answered
         /\ Answered' = Answered \ {Head(responseQueue)}
         /\ Taken' = Taken \union {Head(responseQueue)}
         /\ UNCHANGED <<Accepted, Queued, InHand, dropped>>
         /\ NoDuplicate'
<1>. USE DEF DataInv, TypeInv
<1>. DEFINE h == Head(responseQueue)
<1>1. /\ caller[r] = "waiting"
      /\ caller' = [caller EXCEPT ![r] = "returned"]
      /\ got' = [got EXCEPT ![r] = h]
      /\ responseQueue' = Tail(responseQueue)
      /\ UNCHANGED <<requestQueue, worker, current, dropped>>
  BY DEF GetResponse, workerVars
<1>2. h \in Answered /\ Answered' = Answered \ {h} /\ IsInjective(responseQueue')
  BY <1>1, ChannelTypes, ReceiveContents DEF Answered, EachRequestInOnePlace, NoDuplicate
<1>3. h \in Requests /\ h # NoRequest
  BY ReceiveType, ChannelTypes, NoRequestAssumption
<1>4. got[r] = NoRequest
  BY <1>1 DEF ReturnedCallersGot, TypeOK
<1>5. Taken' = Taken \union {h}
  BY <1>1, <1>3, <1>4 DEF Taken, TypeOK
<1>6. UNCHANGED <<Accepted, Queued, InHand, dropped>>
  BY <1>1 DEF Accepted, Queued, InHand, Holding, TypeOK
<1>7. h \notin Taken
  BY <1>2 DEF EachRequestInOnePlace, Conservation
<1>8. ASSUME NEW p \in Requests, NEW q \in Requests, got'[p] = got'[q], got'[p] # NoRequest
      PROVE  p = q
  BY <1>1, <1>3, <1>7, <1>8 DEF Taken, TypeOK, EachRequestInOnePlace, NoDuplicate
<1>9. NoDuplicate'
  BY <1>1, <1>2, <1>8 DEF EachRequestInOnePlace, NoDuplicate, Holding
<1>. QED  BY <1>2, <1>5, <1>6, <1>9

(* No request changes place. *)
Still == /\ UNCHANGED <<Queued, InHand, Answered, Taken, dropped, Accepted>>
         /\ NoDuplicate'

(* Every step is one of the four hops or leaves every request in place.    *)
LEMMA HopOrStill ==
  ASSUME DataInv, [Next]_vars
  PROVE  \/ \E r \in Requests : Enqueue(r) /\ caller'[r] = "queued"
         \/ \E w \in Workers : Claim(w)
         \/ \E w \in Workers : SendResponse(w)
         \/ \E r \in Requests : GetResponse(r) /\ responseQueue # <<>>
         \/ Still
<1>. USE DEF DataInv, TypeInv
<1>1. ASSUME UNCHANGED <<got, queueVars, worker, current, dropped>>, UNCHANGED Accepted
      PROVE  Still
  BY <1>1 DEF Still, Queued, InHand, Answered, Taken, NoDuplicate, Holding, queueVars,
              EachRequestInOnePlace
<1>2. ASSUME NEW r \in Requests, CallerStep(r) \/ AnswerRunning(r)
      PROVE  \/ Enqueue(r) /\ caller'[r] = "queued"
             \/ GetResponse(r) /\ responseQueue # <<>>
             \/ Still
  <2>1. CASE AskRunning(r) \/ AwaitRunning(r) \/ RunningTimeout(r) \/ AnswerRunning(r)
    <3>1. /\ UNCHANGED <<got, queueVars, worker, current, dropped>>
          /\ caller[r] \in {"new", "sent", "awaiting"} \/ caller' = caller
          /\ \/ caller' = caller
             \/ \E s \in {"sent", "awaiting", "checked", "refused"} :
                   caller' = [caller EXCEPT ![r] = s]
      BY <2>1 DEF AskRunning, AwaitRunning, RunningTimeout, AnswerRunning, workerVars
    <3>2. UNCHANGED Accepted
      BY <3>1 DEF Accepted, TypeOK
    <3>. QED  BY <1>1, <3>1, <3>2
  <2>2. CASE Enqueue(r) /\ caller'[r] # "queued"
    <3>1. /\ UNCHANGED <<got, queueVars, worker, current, dropped>>
          /\ caller[r] = "checked"
          /\ \E s \in {"panicked", "refused"} : caller' = [caller EXCEPT ![r] = s]
      BY <2>2 DEF Enqueue, workerVars, queueVars, TypeOK
    <3>2. UNCHANGED Accepted
      BY <3>1 DEF Accepted, TypeOK
    <3>. QED  BY <1>1, <3>1, <3>2
  <2>3. CASE SignalStarted(r)
    <3>1. UNCHANGED <<got, queueVars, worker, current, dropped>>
      BY <2>3 DEF SignalStarted, workerVars
    <3>2. UNCHANGED Accepted
      BY <2>3 DEF SignalStarted, Accepted, TypeOK
    <3>. QED  BY <1>1, <3>1, <3>2
  <2>4. CASE GetResponse(r) /\ responseQueue = <<>>
    <3>1. UNCHANGED <<got, queueVars, worker, current, dropped>>
      BY <2>4 DEF GetResponse, workerVars, queueVars
    <3>2. UNCHANGED Accepted
      BY <2>4 DEF GetResponse, Accepted, TypeOK
    <3>. QED  BY <1>1, <3>1, <3>2
  <2>. QED  BY <1>2, <2>1, <2>2, <2>3, <2>4 DEF CallerStep
<1>3. ASSUME NEW w \in Workers, WorkerStep(w)
      PROVE  Claim(w) \/ SendResponse(w) \/ Still
  <2>1. CASE WorkerStarts(w) \/ WorkerExits(w) \/ Analyzed(w) \/ Finish(w)
    <3>1. UNCHANGED <<caller, got, requestQueue, responseQueue, dropped>>
      BY <2>1 DEF WorkerStarts, WorkerExits, Analyzed, Finish, callerVars, queueVars
    <3>2. \A v \in Workers : /\ Holding(v)' <=> Holding(v)
                             /\ Holding(v) => current'[v] = current[v]
      BY <2>1 DEF WorkerStarts, WorkerExits, Analyzed, Finish, Holding, TypeOK
    <3>3. UNCHANGED InHand
      BY <3>2 DEF InHand
    <3>4. NoDuplicate'
      BY <3>1, <3>2 DEF NoDuplicate, EachRequestInOnePlace
    <3>. QED  BY <3>1, <3>3, <3>4 DEF Still, Queued, Answered, Taken, Accepted
  <2>. QED  BY <1>3, <2>1 DEF WorkerStep
<1>4. CASE UNCHANGED <<callerVars, queueVars, workerVars>>
  <2>1. UNCHANGED <<got, queueVars, worker, current, dropped>> /\ UNCHANGED Accepted
    BY <1>4 DEF callerVars, workerVars, Accepted
  <2>. QED  BY <1>1, <2>1
<1>. QED  BY <1>2, <1>3, <1>4, DataSteps

LEMMA DataInvInit == Init => DataInv
<1>. SUFFICES ASSUME Init PROVE EachRequestInOnePlace
  BY TypeInvInit DEF DataInv
<1>1. /\ requestQueue = <<>>
      /\ responseQueue = <<>>
      /\ \A w \in Workers : ~Holding(w)
      /\ \A r \in Requests : got[r] = NoRequest
      /\ dropped = {}
      /\ \A r \in Requests : caller[r] = "new"
  BY DEF Init, Holding
<1>2. Queued = {} /\ Answered = {} /\ IsInjective(requestQueue) /\ IsInjective(responseQueue)
  BY <1>1, EmptySeq DEF Queued, Answered, Range, IsInjective
<1>3. InHand = {} /\ Taken = {} /\ Accepted = {}
  BY <1>1 DEF InHand, Taken, Accepted
<1>. QED  BY <1>1, <1>2, <1>3 DEF EachRequestInOnePlace, NoDuplicate, Conservation

LEMMA DataInvStep ==
  ASSUME DataInv, [Next]_vars
  PROVE  DataInv'
<1>1. TypeInv'
  BY TypeInvStep DEF DataInv
<1>2. Conservation
  BY DEF DataInv, EachRequestInOnePlace
<1>3. EachRequestInOnePlace'
  <2>. USE <1>2 DEF EachRequestInOnePlace, Conservation
  <2>1. CASE \E r \in Requests : Enqueue(r) /\ caller'[r] = "queued"
    BY <2>1, EnqueueHop
  <2>2. CASE \E w \in Workers : Claim(w)
    BY <2>2, ClaimHop
  <2>3. CASE \E w \in Workers : SendResponse(w)
    BY <2>3, SendHop
  <2>4. CASE \E r \in Requests : GetResponse(r) /\ responseQueue # <<>>
    BY <2>4, TakeHop
  <2>5. CASE Still
    BY <2>5 DEF Still
  <2>. QED  BY <2>1, <2>2, <2>3, <2>4, <2>5, HopOrStill
<1>. QED  BY <1>1, <1>3 DEF DataInv

(* However the goroutines interleave, an accepted request is in exactly    *)
(* one place and nowhere twice, and a refused one is nowhere.              *)
THEOREM RequestsAreConserved == Spec => []EachRequestInOnePlace
<1>1. Spec => []DataInv
  BY DataInvInit, DataInvStep, PTL DEF Spec
<1>. QED  BY <1>1, PTL DEF DataInv

-----------------------------------------------------------------------------
(* Stop *)

(* StopCompletes closes responseQueue only when nobody can send to it any    *)
(* more, and an exited coordinator and a stopped worker never come back: a   *)
(* pool that is closed stays closed, as the refinement below needs.          *)
NoWorkAfterStop ==
  responseQueueClosed => /\ coordinator = "exited"
                         /\ \A w \in Workers : worker[w] = "stopped"

LEMMA NobodyWorksAfterStop == Spec => []NoWorkAfterStop
<1>1. Init => NoWorkAfterStop
  BY DEF Init, NoWorkAfterStop, responseQueueClosed
<1>2. TypeInv /\ NoWorkAfterStop /\ [Next]_vars => NoWorkAfterStop'
  <2>. SUFFICES ASSUME TypeInv, NoWorkAfterStop, [Next]_vars
                PROVE  NoWorkAfterStop'
    OBVIOUS
  <2>. USE DEF NoWorkAfterStop, responseQueueClosed
  <2>1. ASSUME NEW r \in Requests, CallerStep(r)
        PROVE  UNCHANGED <<stop, coordinator, worker>>
    BY <2>1 DEF CallerStep, AskRunning, AwaitRunning, RunningTimeout, Enqueue,
                SignalStarted, GetResponse, workerVars, coordVars, endVars
  <2>2. ASSUME NEW w \in Workers, WorkerStep(w)
        PROVE  worker[w] # "stopped" /\ UNCHANGED <<stop, coordinator>>
    BY <2>2 DEF WorkerStep, WorkerStarts, Claim, WorkerExits, Analyzed, SendResponse,
                Finish, coordVars, endVars
  <2>3. CASE CoordinatorStep
    <3>1. coordinator # "exited" /\ UNCHANGED <<stop, worker>>
      BY <2>3 DEF CoordinatorStep, SetRunning, AnswerRunning, AnswerStatus, TakeMetrics,
                  LockMetrics, TakeStatus, CoordinatorExits, Receive, workerVars, endVars
    <3>. QED  BY <3>1
  <2>4. ASSUME NEW p \in Polls, PollStep(p)
        PROVE  UNCHANGED <<stop, coordinator, worker>>
    BY <2>4 DEF PollStep, LockForReading, StatusOnly, AskStatus, AwaitStatus,
                StatusTimeout, PollReturns, workerVars, coordVars, endVars
  <2>5. CASE StopStep \/ CloseShutdownChan \/ StopTimeout \/ Cancel
    BY <2>5 DEF StopStep, CloseShutdownChan, CloseRequestQueue, StopCompletes,
                StopTimeout, Cancel, StopMoves, workerVars, coordVars
  <2>6. CASE UNCHANGED vars
    BY <2>6 DEF vars, workerVars, coordVars, endVars
  <2>. QED  BY <2>1, <2>2, <2>3, <2>4, <2>5, <2>6 DEF Next
<1>3. Spec => []TypeInv
  BY TypeInvInit, TypeInvStep, PTL DEF Spec
<1>. QED  BY <1>1, <1>2, <1>3, PTL DEF Spec

-----------------------------------------------------------------------------
(* The orchestrator implements the pool of requests                        *)

(* The refinement mapping tells the places apart, before and after a step. *)
LEMMA PlaceNow ==
  ASSUME DataInv, NEW r \in Requests
  PROVE  /\ r \in Queued   => PlaceOf(r) = "queued"
         /\ r \in InHand   => PlaceOf(r) = "working"
         /\ r \in Answered => PlaceOf(r) = "answered"
         /\ r \in Taken    => PlaceOf(r) = "taken"
         /\ r \in dropped  => PlaceOf(r) = "dropped"
         /\ r \notin Accepted => PlaceOf(r) = "new"
BY DEF PlaceOf, DataInv, EachRequestInOnePlace, Conservation

LEMMA PlaceNext ==
  ASSUME DataInv', NEW r \in Requests
  PROVE  /\ (r \in Queued)'   => PlaceOf(r)' = "queued"
         /\ (r \in InHand)'   => PlaceOf(r)' = "working"
         /\ (r \in Answered)' => PlaceOf(r)' = "answered"
         /\ (r \in Taken)'    => PlaceOf(r)' = "taken"
         /\ (r \in dropped)'  => PlaceOf(r)' = "dropped"
         /\ (r \notin Accepted)' => PlaceOf(r)' = "new"
BY DEF PlaceOf, DataInv, EachRequestInOnePlace, Conservation

(* A request that no step moves keeps its place.                           *)
LEMMA PlaceKept ==
  ASSUME DataInv, DataInv', NEW r \in Requests,
         (r \in Queued)' <=> r \in Queued,
         (r \in InHand)' <=> r \in InHand,
         (r \in Answered)' <=> r \in Answered,
         (r \in Taken)' <=> r \in Taken,
         (r \in dropped)' <=> r \in dropped
  PROVE  PlaceOf(r)' = PlaceOf(r)
BY DEF PlaceOf

(* One hop of one request is a hop of the pool.                            *)
LEMMA HopMaps ==
  ASSUME NEW h \in Requests, NEW from, NEW to, PlaceOf(h) = from, PlaceOf(h)' = to,
         \A q \in Requests \ {h} : PlaceOf(q)' = PlaceOf(q),
         UNCHANGED responseQueueClosed
  PROVE  Pool!Hop(h, from, to)
BY DEF Pool!Hop

(* Only a Stop that completes closes responseQueue.                        *)
LEMMA ClosedStep ==
  ASSUME [Next]_vars
  PROVE  UNCHANGED responseQueueClosed \/ StopCompletes
<1>. USE DEF responseQueueClosed, endVars
<1>1. ASSUME NEW r \in Requests, CallerStep(r)
      PROVE  UNCHANGED stop
  BY <1>1 DEF CallerStep, AskRunning, AwaitRunning, RunningTimeout, Enqueue,
              SignalStarted, GetResponse
<1>2. ASSUME NEW w \in Workers, WorkerStep(w)
      PROVE  UNCHANGED stop
  BY <1>2 DEF WorkerStep, WorkerStarts, Claim, WorkerExits, Analyzed, SendResponse, Finish
<1>3. CASE CoordinatorStep
  BY <1>3 DEF CoordinatorStep, SetRunning, AnswerRunning, AnswerStatus, TakeMetrics,
              LockMetrics, TakeStatus, CoordinatorExits
<1>4. ASSUME NEW p \in Polls, PollStep(p)
      PROVE  UNCHANGED stop
  BY <1>4 DEF PollStep, LockForReading, StatusOnly, AskStatus, AwaitStatus,
              StatusTimeout, PollReturns
<1>5. CASE StopStep \/ CloseShutdownChan \/ StopTimeout \/ Cancel
  BY <1>5 DEF StopStep, CloseShutdownChan, CloseRequestQueue, StopTimeout, Cancel, StopMoves
<1>6. CASE UNCHANGED vars
  BY <1>6 DEF vars
<1>. QED  BY <1>1, <1>2, <1>3, <1>4, <1>5, <1>6 DEF Next

LEMMA PoolStep ==
  ASSUME DataInv, DataInv', NoWorkAfterStop, [Next]_vars
  PROVE  [Pool!Next]_(Pool!vars)
<1>1. CASE \E r \in Requests : Enqueue(r) /\ caller'[r] = "queued"
  <2>. PICK r \in Requests : Enqueue(r) /\ caller'[r] = "queued"
    BY <1>1
  <2>1. PlaceOf(r) = "new" /\ PlaceOf(r)' = "queued"
    BY EnqueueHop, PlaceNow, PlaceNext
  <2>2. \A q \in Requests \ {r} : PlaceOf(q)' = PlaceOf(q)
    BY EnqueueHop, PlaceKept
  <2>3. ~responseQueueClosed /\ UNCHANGED responseQueueClosed
    BY DEF Enqueue, requestQueueClosed, responseQueueClosed, endVars, DataInv, TypeInv, TypeOK
  <2>4. Pool!Accept(r)
    BY <2>1, <2>2, <2>3, HopMaps DEF Pool!Accept
  <2>. QED  BY <2>4 DEF Pool!Next
<1>2. CASE \E w \in Workers : Claim(w)
  <2>. PICK w \in Workers : Claim(w)
    BY <1>2
  <2>. PICK h \in Requests : h = Head(requestQueue)
    BY ReceiveType, ChannelTypes DEF Claim, DataInv, TypeInv
  <2>1. PlaceOf(h) = "queued" /\ PlaceOf(h)' = "working"
    BY ClaimHop, PlaceNow, PlaceNext
  <2>2. \A q \in Requests \ {h} : PlaceOf(q)' = PlaceOf(q)
    BY ClaimHop, PlaceKept
  <2>3. ~responseQueueClosed /\ UNCHANGED responseQueueClosed
    BY DEF Claim, NoWorkAfterStop, responseQueueClosed, endVars
  <2>4. Pool!Claim(h)
    BY <2>1, <2>2, <2>3, HopMaps DEF Pool!Claim
  <2>. QED  BY <2>4 DEF Pool!Next
<1>3. CASE \E w \in Workers : SendResponse(w)
  <2>. PICK w \in Workers : SendResponse(w)
    BY <1>3
  <2>. PICK c \in Requests : c = current[w]
    BY DEF SendResponse, DataInv, TypeInv, TypeOK, BusyWorkersHold
  <2>1. PlaceOf(c) = "working" /\ PlaceOf(c)' \in {"answered", "dropped"}
    BY SendHop, PlaceNow, PlaceNext
  <2>2. \A q \in Requests \ {c} : PlaceOf(q)' = PlaceOf(q)
    BY SendHop, PlaceKept
  <2>3. ~responseQueueClosed /\ UNCHANGED responseQueueClosed
    BY DEF SendResponse, NoWorkAfterStop, responseQueueClosed, endVars
  <2>4. Pool!Answer(c) \/ Pool!Drop(c)
    BY <2>1, <2>2, <2>3, HopMaps DEF Pool!Answer, Pool!Drop
  <2>. QED  BY <2>4 DEF Pool!Next
<1>4. CASE \E r \in Requests : GetResponse(r) /\ responseQueue # <<>>
  <2>. PICK r \in Requests : GetResponse(r) /\ responseQueue # <<>>
    BY <1>4
  <2>. PICK h \in Requests : h = Head(responseQueue)
    BY ReceiveType, ChannelTypes DEF DataInv, TypeInv
  <2>1. PlaceOf(h) = "answered" /\ PlaceOf(h)' = "taken"
    BY TakeHop, PlaceNow, PlaceNext
  <2>2. \A q \in Requests \ {h} : PlaceOf(q)' = PlaceOf(q)
    BY TakeHop, PlaceKept
  <2>3. UNCHANGED responseQueueClosed
    BY DEF GetResponse, responseQueueClosed, endVars
  <2>4. Pool!Take(h)
    BY <2>1, <2>2, <2>3, HopMaps DEF Pool!Take
  <2>. QED  BY <2>4 DEF Pool!Next
<1>5. CASE Still
  <2>1. \A q \in Requests : PlaceOf(q)' = PlaceOf(q)
    BY <1>5, PlaceKept DEF Still
  <2>2. CASE UNCHANGED responseQueueClosed
    BY <2>1, <2>2 DEF Pool!vars
  <2>3. CASE StopCompletes
    <3>1. ~responseQueueClosed /\ responseQueueClosed'
      BY <2>3 DEF StopCompletes, StopMoves, responseQueueClosed
    <3>2. InHand = {}
      BY <2>3 DEF StopCompletes, InHand, Holding
    <3>3. \A q \in Requests : PlaceOf(q) # "working"
      BY <3>2 DEF PlaceOf
    <3>4. Pool!Close
      BY <2>1, <3>1, <3>3 DEF Pool!Close
    <3>. QED  BY <3>4 DEF Pool!Next
  <2>. QED  BY <2>2, <2>3, ClosedStep
<1>. QED  BY <1>1, <1>2, <1>3, <1>4, <1>5, HopOrStill

LEMMA PoolInit == Init => Pool!Init
<1>. SUFFICES ASSUME Init PROVE Pool!Init
  OBVIOUS
<1>1. DataInv /\ Accepted = {}
  BY DataInvInit DEF Init, Accepted
<1>2. \A r \in Requests : PlaceOf(r) = "new"
  BY <1>1, PlaceNow
<1>3. responseQueueClosed = FALSE
  BY DEF Init, responseQueueClosed
<1>. QED  BY <1>2, <1>3 DEF Pool!Init

(* Every behaviour of the orchestrator is a behaviour of the abstract pool: *)
(* each request moves through its life one hop at a time and never back,   *)
(* and after Stop only answers that are there are taken.                   *)
THEOREM OrchestratorImplementsPool == Spec => ImplementsPool
<1>1. Spec => []DataInv
  BY DataInvInit, DataInvStep, PTL DEF Spec
<1>2. Spec => []NoWorkAfterStop
  BY NobodyWorksAfterStop
<1>. QED  BY <1>1, <1>2, PoolInit, PoolStep, PTL DEF Spec, ImplementsPool, Pool!Spec

-----------------------------------------------------------------------------
(* Overload *)

(* Only an Enqueue accepts a request, and nothing takes that back.         *)
LEMMA AcceptedGrows ==
  ASSUME DataInv, [Next]_vars, IsFiniteSet(Accepted)
  PROVE  /\ Accepted \subseteq Accepted'
         /\ IsFiniteSet(Accepted')
         /\ Cardinality(Accepted) <= Cardinality(Accepted')
<1>1. \/ UNCHANGED Accepted
      \/ \E r \in Requests : Accepted' = Accepted \union {r}
  BY HopOrStill, EnqueueHop, ClaimHop, SendHop, TakeHop DEF Still
<1>2. Accepted \subseteq Accepted' /\ IsFiniteSet(Accepted')
  BY <1>1, FS_AddElement
<1>. QED  BY <1>2, FS_Subset

(* A response is thrown away in a full queue, or after the context is done *)
(* and that is for good.                                                   *)
LEMMA DropsWhenFull ==
  ASSUME DataInv, [Next]_vars, ~cancelled'
  PROVE  /\ ~cancelled
         /\ \/ UNCHANGED dropped
            \/ \E w \in Workers : SendResponse(w) /\ Len(responseQueue) = QueueSize
<1>1. ASSUME NEW r \in Requests, CallerStep(r)
      PROVE  UNCHANGED <<cancelled, dropped>>
  BY <1>1 DEF CallerStep, AskRunning, AwaitRunning, RunningTimeout, Enqueue,
              SignalStarted, GetResponse, workerVars, endVars
<1>2. ASSUME NEW w \in Workers, WorkerStep(w)
      PROVE  /\ UNCHANGED cancelled
             /\ \/ UNCHANGED dropped
                \/ SendResponse(w) /\ (cancelled \/ Len(responseQueue) = QueueSize)
  BY <1>2 DEF WorkerStep, WorkerStarts, Claim, WorkerExits, Analyzed, SendResponse,
              Finish, endVars
<1>3. CASE CoordinatorStep
  BY <1>3 DEF CoordinatorStep, SetRunning, AnswerRunning, AnswerStatus, TakeMetrics,
              LockMetrics, TakeStatus, CoordinatorExits, workerVars, endVars
<1>4. ASSUME NEW p \in Polls, PollStep(p)
      PROVE  UNCHANGED <<cancelled, dropped>>
  BY <1>4 DEF PollStep, LockForReading, StatusOnly, AskStatus, AwaitStatus,
              StatusTimeout, PollReturns, workerVars, endVars
<1>5. CASE StopStep \/ CloseShutdownChan \/ StopTimeout \/ Cancel
  BY <1>5 DEF StopStep, CloseShutdownChan, CloseRequestQueue, StopCompletes,
              StopTimeout, Cancel, StopMoves, workerVars
<1>6. CASE UNCHANGED vars
  BY <1>6 DEF vars, workerVars, endVars
<1>. QED  BY <1>1, <1>2, <1>3, <1>4, <1>5, <1>6 DEF Next

OverloadInv == DataInv /\ IsFiniteSet(Accepted) /\ NoDropBelowCapacity

LEMMA OverloadInvStep ==
  ASSUME OverloadInv, [Next]_vars
  PROVE  OverloadInv'
<1>. USE DEF OverloadInv
<1>1. DataInv'
  BY DataInvStep
<1>2. /\ IsFiniteSet(Accepted') /\ Cardinality(Accepted) <= Cardinality(Accepted')
      /\ Accepted \subseteq Accepted'
      /\ Cardinality(Accepted) \in Nat /\ Cardinality(Accepted') \in Nat
  BY AcceptedGrows, FS_CardinalityType
<1>3. ASSUME NEW w \in Workers, SendResponse(w), Len(responseQueue) = QueueSize
      PROVE  Cardinality(Accepted) > QueueSize
  <2>1. /\ current[w] \in InHand /\ current[w] \notin Answered
        /\ Answered \union {current[w]} \subseteq Accepted
    BY <1>3, SendHop DEF DataInv, EachRequestInOnePlace, Conservation
  <2>2. IsFiniteSet(Answered) /\ Cardinality(Answered) = QueueSize
    BY <1>3, ChannelTypes, ContentsNumber
    DEF Answered, DataInv, TypeInv, EachRequestInOnePlace, NoDuplicate
  <2>3. Cardinality(Answered \union {current[w]}) = QueueSize + 1
    BY <2>1, <2>2, OneMore
  <2>4. Cardinality(Answered \union {current[w]}) <= Cardinality(Accepted)
    BY <2>1, FS_Subset
  <2>. QED  BY <1>2, <2>3, <2>4, QueueSizeAssumption
<1>4. NoDropBelowCapacity'
  <2>. SUFFICES ASSUME dropped' # {}, ~cancelled'
                PROVE  Cardinality(Accepted') > QueueSize
    BY DEF NoDropBelowCapacity
  <2>1. Cardinality(Accepted) > QueueSize
    BY <1>3, DropsWhenFull DEF NoDropBelowCapacity
  <2>. QED  BY <1>2, <2>1, QueueSizeAssumption
<1>. QED  BY <1>1, <1>2, <1>4

(* Unless the context is cancelled, a response is thrown away only after   *)
(* more requests than responseQueue holds have been accepted (the default  *)
(* case of processRequest's select).                                       *)
THEOREM DropsAreOverload == Spec => []NoDropBelowCapacity
<1>1. Init => OverloadInv
  <2>1. Init => Accepted = {} /\ dropped = {}
    BY DEF Init, Accepted
  <2>. QED  BY <2>1, DataInvInit, FS_EmptySet DEF OverloadInv, NoDropBelowCapacity
<1>2. OverloadInv /\ [Next]_vars => OverloadInv'
  BY OverloadInvStep
<1>3. OverloadInv => NoDropBelowCapacity
  BY DEF OverloadInv
<1>. QED  BY <1>1, <1>2, <1>3, PTL DEF Spec

-----------------------------------------------------------------------------
(* Statuses *)

(* The steps that touch a status, or what a status is about.               *)
LEMMA StatusSteps ==
  ASSUME [Next]_vars
  PROVE  \/ \E w \in Workers : WorkerStep(w)
         \/ TakeStatus
         \/ UNCHANGED <<statusChan, workerStatuses, worker, current, handled>>
<1>1. ASSUME NEW r \in Requests, CallerStep(r)
      PROVE  UNCHANGED <<statusChan, workerStatuses, worker, current, handled>>
  BY <1>1 DEF CallerStep, AskRunning, AwaitRunning, RunningTimeout, Enqueue,
              SignalStarted, GetResponse, workerVars, coordVars
<1>2. CASE CoordinatorStep
  BY <1>2 DEF CoordinatorStep, SetRunning, AnswerRunning, AnswerStatus, TakeMetrics,
              LockMetrics, CoordinatorExits, workerVars, coordVars
<1>3. ASSUME NEW p \in Polls, PollStep(p)
      PROVE  UNCHANGED <<statusChan, workerStatuses, worker, current, handled>>
  BY <1>3 DEF PollStep, LockForReading, StatusOnly, AskStatus, AwaitStatus,
              StatusTimeout, PollReturns, workerVars, coordVars
<1>4. CASE StopStep \/ CloseShutdownChan \/ StopTimeout \/ Cancel
  BY <1>4 DEF StopStep, CloseShutdownChan, CloseRequestQueue, StopCompletes,
              StopTimeout, Cancel, StopMoves, workerVars, coordVars
<1>5. CASE UNCHANGED vars
  BY <1>5 DEF vars, workerVars, coordVars
<1>. QED  BY <1>1, <1>2, <1>3, <1>4, <1>5 DEF Next

(* What a status may say of a worker that has handled n requests and is    *)
(* busy or not.                                                            *)
NotAhead(s, n, busy) == s.handled <= n /\ (s.active /\ s.handled = n => busy)
FollowsNow(s, w)  == NotAhead(s, handled[w], current[w] # NoRequest)
FollowsNext(s, w) == NotAhead(s, handled'[w], current'[w] # NoRequest)

LEMMA NeverAheadNow ==
  StatusNeverAhead <=> /\ \A i \in 1 .. Len(statusChan) :
                             FollowsNow(statusChan[i], statusChan[i].worker)
                       /\ \A w \in Workers : FollowsNow(workerStatuses[w], w)
BY DEF StatusNeverAhead, StatusOfWorker, FollowsNow, NotAhead

LEMMA NeverAheadNext ==
  ASSUME \A i \in 1 .. Len(statusChan') :
           FollowsNext(statusChan'[i], statusChan'[i].worker),
         \A w \in Workers : FollowsNext(workerStatuses'[w], w)
  PROVE  StatusNeverAhead'
BY DEF StatusNeverAhead, StatusOfWorker, FollowsNext, NotAhead

(* A step of a worker makes no status of before run ahead: the count only  *)
(* grows, and the hands are emptied only when it does.                     *)
LEMMA StatusesStay ==
  ASSUME TypeInv, NEW w \in Workers, WorkerStep(w),
         NEW s \in Status \union {NoStatus}, NEW v \in Workers, FollowsNow(s, v)
  PROVE  FollowsNext(s, v)
<1>1. s.handled \in Nat /\ handled[v] \in Nat
  BY DEF Status, NoStatus, TypeInv, TypeOK
<1>2. \/ handled'[v] = handled[v] /\ (current[v] # NoRequest => current'[v] # NoRequest)
      \/ handled'[v] = handled[v] + 1
  <2>1. CASE WorkerStarts(w) \/ WorkerExits(w) \/ Analyzed(w) \/ SendResponse(w)
    BY <2>1 DEF WorkerStarts, WorkerExits, Analyzed, SendResponse
  <2>2. CASE Claim(w)
    <3>1. Head(requestQueue) # NoRequest
      BY <2>2, ReceiveType, ChannelTypes, NoRequestAssumption DEF Claim, TypeInv
    <3>. QED  BY <2>2, <3>1 DEF Claim, TypeInv, TypeOK
  <2>3. CASE Finish(w)
    BY <2>3 DEF Finish, TypeInv, TypeOK
  <2>. QED  BY <2>1, <2>2, <2>3 DEF WorkerStep
<1>. QED  BY <1>1, <1>2 DEF FollowsNow, FollowsNext, NotAhead

(* What a worker reports is true when it reports it.                       *)
LEMMA ReportsAreTrue ==
  ASSUME TypeInv, NEW w \in Workers, WorkerStep(w)
  PROVE  \/ statusChan' = statusChan
         \/ \E s \in Status : /\ statusChan' = Append(statusChan, s)
                              /\ FollowsNext(s, s.worker)
<1>0. handled[w] \in Nat /\ handled \in [Workers -> Nat]
  BY DEF TypeInv, TypeOK
<1>1. ASSUME NEW active \in BOOLEAN, NEW n \in Nat, Report(w, active, n),
             n = handled'[w], active => current'[w] # NoRequest
      PROVE  \/ statusChan' = statusChan
             \/ \E s \in Status : /\ statusChan' = Append(statusChan, s)
                                  /\ FollowsNext(s, s.worker)
  <2>. DEFINE s == [worker |-> w, active |-> active, handled |-> n]
  <2>1. s \in Status /\ s.worker = w
    BY <1>1 DEF Status
  <2>2. FollowsNext(s, w)
    BY <1>1 DEF FollowsNext, NotAhead
  <2>3. statusChan' = statusChan \/ statusChan' = Append(statusChan, s)
    BY <1>1 DEF Report, Offer
  <2>. QED  BY <2>1, <2>2, <2>3
<1>2. CASE WorkerStarts(w)
  <2>1. Report(w, FALSE, handled[w]) /\ handled[w] = handled'[w]
    BY <1>2 DEF WorkerStarts
  <2>. QED  BY <1>0, <1>1, <2>1
<1>3. CASE Claim(w)
  <2>1. Head(requestQueue) # NoRequest
    BY <1>3, ReceiveType, ChannelTypes, NoRequestAssumption DEF Claim, TypeInv
  <2>2. current'[w] # NoRequest
    BY <1>3, <2>1 DEF Claim, TypeInv, TypeOK
  <2>3. Report(w, TRUE, handled[w]) /\ handled[w] = handled'[w]
    BY <1>3 DEF Claim
  <2>. QED  BY <1>0, <1>1, <2>2, <2>3
<1>4. CASE Finish(w)
  <2>1. handled'[w] = handled[w] + 1
    BY <1>0, <1>4 DEF Finish
  <2>2. Report(w, FALSE, handled[w] + 1)
    BY <1>4 DEF Finish
  <2>3. handled[w] + 1 \in Nat
    BY <1>0
  <2>. QED  BY <1>1, <2>1, <2>2, <2>3
<1>5. CASE WorkerExits(w) \/ Analyzed(w) \/ SendResponse(w)
  BY <1>5 DEF WorkerExits, Analyzed, SendResponse
<1>. QED  BY <1>2, <1>3, <1>4, <1>5 DEF WorkerStep

LEMMA StatusStep ==
  ASSUME TypeInv, StatusNeverAhead, [Next]_vars
  PROVE  StatusNeverAhead'
<1>0. /\ statusChan \in Seq(Status) /\ Len(statusChan) \in Nat
      /\ \A i \in 1 .. Len(statusChan) : statusChan[i] \in Status
      /\ workerStatuses \in [Workers -> Status \union {NoStatus}]
      /\ \A s \in Status : s.worker \in Workers
  BY LenProperties, ElementOfSeq DEF TypeInv, TypeOK, Status
<1>now. /\ \A i \in 1 .. Len(statusChan) : FollowsNow(statusChan[i], statusChan[i].worker)
        /\ \A w \in Workers : FollowsNow(workerStatuses[w], w)
  BY NeverAheadNow
<1>1. CASE \E w \in Workers : WorkerStep(w)
  <2>. PICK w \in Workers : WorkerStep(w)
    BY <1>1
  <2>1. workerStatuses' = workerStatuses
    BY DEF WorkerStep, WorkerStarts, Claim, WorkerExits, Analyzed, SendResponse, Finish,
           coordVars
  <2>2. \A v \in Workers : FollowsNext(workerStatuses'[v], v)
    BY <1>0, <1>now, <2>1, StatusesStay
  <2>3. \A i \in 1 .. Len(statusChan) : FollowsNext(statusChan[i], statusChan[i].worker)
    BY <1>0, <1>now, StatusesStay
  <2>4. CASE statusChan' = statusChan
    BY <2>2, <2>3, <2>4, NeverAheadNext
  <2>5. ASSUME NEW s \in Status, statusChan' = Append(statusChan, s),
               FollowsNext(s, s.worker)
        PROVE  StatusNeverAhead'
    <3>1. /\ Len(statusChan') = Len(statusChan) + 1
          /\ statusChan'[Len(statusChan) + 1] = s
          /\ \A i \in 1 .. Len(statusChan) : statusChan'[i] = statusChan[i]
      BY <1>0, <2>5, AppendProperties
    <3>2. \A i \in 1 .. Len(statusChan') : FollowsNext(statusChan'[i], statusChan'[i].worker)
      BY <1>0, <2>3, <2>5, <3>1
    <3>. QED  BY <2>2, <3>2, NeverAheadNext
  <2>. QED  BY <2>4, <2>5, ReportsAreTrue
<1>2. CASE TakeStatus
  <2>. DEFINE h == Head(statusChan)
  <2>1. /\ statusChan # <<>> /\ statusChan' = Tail(statusChan)
        /\ workerStatuses' = [workerStatuses EXCEPT ![h.worker] = h]
        /\ UNCHANGED <<current, handled>>
    BY <1>2 DEF TakeStatus, workerVars
  <2>2. /\ h = statusChan[1] /\ 1 \in 1 .. Len(statusChan)
        /\ Len(statusChan') = Len(statusChan) - 1
        /\ \A i \in 1 .. Len(statusChan) - 1 : /\ statusChan'[i] = statusChan[i + 1]
                                              /\ i + 1 \in 1 .. Len(statusChan)
    BY <1>0, <2>1, ReceiveType, HeadTailProperties
  <2>3. h \in Status /\ h.worker \in Workers /\ FollowsNow(h, h.worker)
    BY <1>0, <1>now, <2>2
  <2>4. \A s, v : FollowsNext(s, v) <=> FollowsNow(s, v)
    BY <2>1 DEF FollowsNext, FollowsNow
  <2>5. \A v \in Workers : FollowsNext(workerStatuses'[v], v)
    BY <1>0, <1>now, <2>1, <2>3, <2>4
  <2>6. \A i \in 1 .. Len(statusChan') : FollowsNext(statusChan'[i], statusChan'[i].worker)
    BY <1>now, <2>2, <2>4
  <2>. QED  BY <2>5, <2>6, NeverAheadNext
<1>3. CASE UNCHANGED <<statusChan, workerStatuses, worker, current, handled>>
  BY <1>3 DEF StatusNeverAhead, StatusOfWorker
<1>. QED  BY <1>1, <1>2, <1>3, StatusSteps

(* No status, sent or kept, says more than its worker has done, or that it *)
(* is busy when it is not, however many statuses the full channel lost     *)
(* (updateStatus, GetWorkerStatus).                                        *)
THEOREM StatusesFollow == Spec => []StatusNeverAhead
<1>1. Init => TypeInv /\ StatusNeverAhead
  <2>. SUFFICES ASSUME Init PROVE StatusNeverAhead
    BY TypeInvInit
  <2>1. /\ statusChan = <<>> /\ Len(statusChan) = 0
        /\ \A w \in Workers : workerStatuses[w] = NoStatus /\ handled[w] = 0
    BY EmptySeq DEF Init
  <2>2. \A w \in Workers : StatusOfWorker(workerStatuses[w], w)
    BY <2>1 DEF StatusOfWorker, NoStatus
  <2>. QED  BY <2>1, <2>2 DEF StatusNeverAhead
<1>2. TypeInv /\ StatusNeverAhead /\ [Next]_vars => (TypeInv /\ StatusNeverAhead)'
  BY TypeInvStep, StatusStep
<1>. QED  BY <1>1, <1>2, PTL DEF Spec

-----------------------------------------------------------------------------
(* Counters *)

(* What has been counted and what is still to be, by type of message.      *)
TotalClaim     == metrics.total + PendingOf("started")
CompletedClaim == metrics.completed + PendingOf("completed")
FailedClaim    == metrics.failed + PendingOf("failed")

(* Callers whose start has been signalled, or would have been; workers that *)
(* have analysed and not finished.                                         *)
Signalled == {r \in Requests : caller[r] \in {"waiting", "returned", "closed"}}
Ending    == {w \in Workers : worker[w] \in {"sending", "finishing"}}

(* Accepted requests are more than those signalled: SubmitRequest enqueues *)
(* before it signals.  This is what makes the first bound inductive.       *)
CountInv ==
  /\ IsFiniteSet(Signalled)
  /\ TotalClaim <= Cardinality(Signalled)
  /\ CompletedClaim <= SumFunction(handled)
  /\ FailedClaim <= SumFunction(handled) + Cardinality(Ending)
  /\ metrics.active <= metrics.total

MetricsInv == TypeInv /\ IsFiniteSet(Accepted) /\ CountInv

LEMMA PendingIsNumber ==
  ASSUME TypeOK, NEW type
  PROVE  /\ PendingOf(type) = NumberOf(coordinationChan, type)
                               + (IF held.type = type THEN 1 ELSE 0)
         /\ NumberOf(coordinationChan, type) \in Nat
         /\ PendingOf(type) \in Nat
<1>1. NumberOf(coordinationChan, type) \in Nat
  BY NumberType DEF TypeOK
<1>2. PendingOf(type) = NumberOf(coordinationChan, type)
                          + (IF held.type = type THEN 1 ELSE 0)
  BY DEF PendingOf, NumberOf, IndicesOf
<1>. QED  BY <1>1, <1>2

LEMMA PendingIsNumberNext ==
  ASSUME TypeOK', NEW type
  PROVE  /\ PendingOf(type)' = NumberOf(coordinationChan', type)
                                + (IF held'.type = type THEN 1 ELSE 0)
         /\ NumberOf(coordinationChan', type) \in Nat
         /\ PendingOf(type)' \in Nat
<1>1. NumberOf(coordinationChan', type) \in Nat
  BY NumberType DEF TypeOK
<1>2. PendingOf(type)' = NumberOf(coordinationChan', type)
                           + (IF held'.type = type THEN 1 ELSE 0)
  BY DEF PendingOf, NumberOf, IndicesOf
<1>. QED  BY <1>1, <1>2

LEMMA CountTypes ==
  ASSUME TypeOK
  PROVE  /\ metrics.total \in Nat /\ metrics.active \in Nat
         /\ metrics.completed \in Nat /\ metrics.failed \in Nat
         /\ SumFunction(handled) \in Nat
         /\ IsFiniteSet(Ending) /\ Cardinality(Ending) \in Nat
         /\ IsFiniteSet(Workers)
<1>1. handled \in [Workers -> Nat] /\ IsFiniteSet(Workers) /\ Ending \in SUBSET Workers
  BY FiniteAssumption DEF TypeOK, Ending
<1>2. SumFunction(handled) \in Nat
  BY <1>1, SumIsUnits, UnitsFinite
<1>. QED  BY <1>1, <1>2, FS_Subset, FS_CardinalityType DEF TypeOK

(* A non-blocking message makes at most one more pending, of its type.     *)
LEMMA NotifyCounts ==
  ASSUME TypeOK, TypeOK', NEW msg \in Message, Notify(msg), held' = held, NEW type
  PROVE  PendingOf(type)' <= PendingOf(type) + (IF msg.type = type THEN 1 ELSE 0)
<1>1. \/ coordinationChan' = coordinationChan
      \/ coordinationChan' = Append(coordinationChan, msg)
  BY DEF Notify, Offer
<1>2. coordinationChan \in Seq(Message)
  BY DEF TypeOK
<1>3. NumberOf(coordinationChan', type)
        <= NumberOf(coordinationChan, type) + (IF msg.type = type THEN 1 ELSE 0)
  <2>1. NumberOf(coordinationChan, type) \in Nat
    BY <1>2, NumberType
  <2>2. CASE coordinationChan' = coordinationChan
    BY <2>1, <2>2
  <2>3. CASE coordinationChan' = Append(coordinationChan, msg)
    <3>1. /\ msg.type = type => NumberOf(Append(coordinationChan, msg), type)
                                  = NumberOf(coordinationChan, type) + 1
          /\ msg.type # type => NumberOf(Append(coordinationChan, msg), type)
                                  = NumberOf(coordinationChan, type)
      BY <1>2, NumberAfterSend
    <3>. QED  BY <2>1, <2>3, <3>1
  <2>. QED  BY <1>1, <2>2, <2>3
<1>. QED  BY <1>3, PendingIsNumber, PendingIsNumberNext

(* The coordinator counts what is pending, or loses it, and nothing else.  *)
LEMMA CoordinatorCounts ==
  ASSUME TypeInv, TypeInv', CoordinatorStep, metrics.active <= metrics.total
  PROVE  /\ TotalClaim' <= TotalClaim
         /\ CompletedClaim' <= CompletedClaim
         /\ FailedClaim' <= FailedClaim
         /\ metrics'.active <= metrics'.total
<1>. USE DEF TypeInv
<1>. DEFINE N(type) == NumberOf(coordinationChan, type)
            M(type) == NumberOf(coordinationChan', type)
            In(msg, type) == IF msg.type = type THEN 1 ELSE 0
<1>0. /\ \A type : /\ PendingOf(type) = N(type) + In(held, type)
                   /\ PendingOf(type)' = M(type) + In(held', type)
                   /\ N(type) \in Nat /\ M(type) \in Nat
      /\ metrics \in [total : Nat, active : Nat, completed : Nat, failed : Nat]
  BY PendingIsNumber, PendingIsNumberNext DEF TypeOK
<1>1. ASSUME NEW msg, Receive(msg), NEW type
      PROVE  N(type) = M(type) + In(msg, type)
  <2>1. /\ coordinationChan \in Seq(Message) /\ coordinationChan # <<>>
        /\ msg = Head(coordinationChan) /\ coordinationChan' = Tail(coordinationChan)
    BY <1>1 DEF Receive, TypeOK
  <2>. QED  BY <2>1, NumberAfterReceive
<1>2. ASSUME NEW msg \in MetricsMessage \union {NoMessage}, Record(msg)
      PROVE  /\ metrics'.total <= metrics.total + In(msg, "started")
             /\ metrics'.completed <= metrics.completed + In(msg, "completed")
             /\ metrics'.failed <= metrics.failed + In(msg, "failed")
             /\ metrics'.active <= metrics'.total
  BY <1>0, <1>2 DEF Record, Count, Decrement, MetricsMessage, NoMessage, Started,
                    Completed, Failed
<1>. HIDE DEF N, M
<1>. USE DEF TotalClaim, CompletedClaim, FailedClaim
<1>3. ASSUME NEW msg, Receive(msg), UNCHANGED <<metrics, held>>
      PROVE  /\ TotalClaim' <= TotalClaim
             /\ CompletedClaim' <= CompletedClaim
             /\ FailedClaim' <= FailedClaim
             /\ metrics'.active <= metrics'.total
  BY <1>0, <1>1, <1>3
<1>4. CASE SetRunning \/ (\E r \in Requests : AnswerRunning(r)) \/ (\E p \in Polls : AnswerStatus(p))
  <2>1. (\E msg : Receive(msg)) /\ UNCHANGED <<metrics, held>>
    BY <1>4 DEF SetRunning, AnswerRunning, AnswerStatus, coordVars
  <2>. QED  BY <1>3, <2>1
<1>nat. /\ metrics.total \in Nat /\ metrics.completed \in Nat /\ metrics.failed \in Nat
        /\ metrics'.total \in Nat /\ metrics'.completed \in Nat /\ metrics'.failed \in Nat
        /\ \A type : PendingOf(type) \in Nat /\ PendingOf(type)' \in Nat
        /\ \A msg, type : In(msg, type) \in {0, 1}
  <2>1. metrics'.total \in Nat /\ metrics'.completed \in Nat /\ metrics'.failed \in Nat
    BY DEF TypeOK
  <2>. QED  BY <1>0, <2>1
<1>5. ASSUME NEW msg \in MetricsMessage, TakeMetrics(msg)
      PROVE  /\ TotalClaim' <= TotalClaim
             /\ CompletedClaim' <= CompletedClaim
             /\ FailedClaim' <= FailedClaim
             /\ metrics'.active <= metrics'.total
  <2>1. \A type : N(type) = M(type) + In(msg, type)
    BY <1>1, <1>5 DEF TakeMetrics
  <2>2. CASE Record(msg) /\ UNCHANGED held
    <3>1. /\ metrics'.total <= metrics.total + In(msg, "started")
          /\ metrics'.completed <= metrics.completed + In(msg, "completed")
          /\ metrics'.failed <= metrics.failed + In(msg, "failed")
          /\ metrics'.active <= metrics'.total
      BY <1>2, <2>2
    <3>2. \A type : PendingOf(type) = PendingOf(type)' + In(msg, type)
      BY <1>0, <2>1, <2>2
    <3>. QED  BY <3>1, <3>2, <1>nat
  <2>3. CASE held' = msg /\ UNCHANGED metrics
    BY <1>0, <2>1, <2>3
  <2>. QED  BY <1>5, <2>2, <2>3 DEF TakeMetrics
<1>6. CASE LockMetrics
  <2>1. /\ Record(held) /\ held' = NoMessage /\ UNCHANGED coordinationChan
        /\ held \in MetricsMessage \union {NoMessage}
    BY <1>6 DEF LockMetrics, TypeOK
  <2>2. \A type : M(type) = N(type)
    BY <2>1 DEF N, M
  <2>3. \A type \in {"started", "completed", "failed"} : In(held', type) = 0
    BY <2>1 DEF NoMessage
  <2>4. /\ metrics'.total <= metrics.total + In(held, "started")
        /\ metrics'.completed <= metrics.completed + In(held, "completed")
        /\ metrics'.failed <= metrics.failed + In(held, "failed")
        /\ metrics'.active <= metrics'.total
    BY <1>2, <2>1
  <2>5. \A type \in {"started", "completed", "failed"} :
          PendingOf(type) = PendingOf(type)' + In(held, type)
    BY <1>0, <2>2, <2>3
  <2>. QED  BY <1>nat, <2>4, <2>5
<1>7. CASE TakeStatus \/ CoordinatorExits
  <2>1. UNCHANGED <<metrics, held, coordinationChan>>
    BY <1>7 DEF TakeStatus, CoordinatorExits
  <2>2. \A type : M(type) = N(type)
    BY <2>1 DEF N, M
  <2>. QED  BY <1>0, <2>1, <2>2
<1>. QED  BY <1>4, <1>5, <1>6, <1>7 DEF CoordinatorStep

(* Nobody but the coordinator counts, and only SignalStarted, Analyzed and *)
(* Finish add a message that counts.                                       *)
LEMMA OthersCount ==
  ASSUME TypeInv, TypeInv', [Next]_vars
  PROVE  \/ CoordinatorStep
         \/ \E r \in Requests : SignalStarted(r)
         \/ \E w \in Workers : Analyzed(w) \/ Finish(w)
         \/ /\ UNCHANGED <<metrics, handled, Ending>>
            /\ Signalled' = Signalled
            /\ TotalClaim' <= TotalClaim
            /\ CompletedClaim' <= CompletedClaim
            /\ FailedClaim' <= FailedClaim
<1>. USE DEF TypeInv
<1>. DEFINE Quiet == /\ UNCHANGED <<metrics, handled, Ending>>
                     /\ Signalled' = Signalled
                     /\ TotalClaim' <= TotalClaim
                     /\ CompletedClaim' <= CompletedClaim
                     /\ FailedClaim' <= FailedClaim
<1>1. ASSUME UNCHANGED <<metrics, held>>,
             \/ UNCHANGED coordinationChan
             \/ \E msg \in Message : /\ Notify(msg)
                                    /\ msg.type \notin {"started", "completed", "failed"}
      PROVE  /\ TotalClaim' <= TotalClaim
             /\ CompletedClaim' <= CompletedClaim
             /\ FailedClaim' <= FailedClaim
  <2>1. \A type \in {"started", "completed", "failed"} : PendingOf(type)' <= PendingOf(type)
    BY <1>1, NotifyCounts, PendingIsNumber, PendingIsNumberNext
  <2>2. \A type : PendingOf(type) \in Nat /\ PendingOf(type)' \in Nat
    BY PendingIsNumber, PendingIsNumberNext
  <2>. QED  BY <1>1, <2>1, <2>2, CountTypes DEF TotalClaim, CompletedClaim, FailedClaim
<1>2. ASSUME NEW r \in Requests, CallerStep(r)
      PROVE  SignalStarted(r) \/ Quiet
  <2>1. UNCHANGED <<metrics, held, worker, handled>>
    BY <1>2 DEF CallerStep, AskRunning, AwaitRunning, RunningTimeout, Enqueue,
                SignalStarted, GetResponse, workerVars, coordVars
  <2>2. CASE AskRunning(r)
    <3>1. GetMetricsMsg(r) \in Message /\ GetMetricsMsg(r).type = "getMetrics"
      BY MessageType DEF GetMetricsMsg
    <3>2. UNCHANGED coordinationChan \/ Notify(GetMetricsMsg(r))
      BY <2>2 DEF AskRunning
    <3>3. Signalled' = Signalled
      BY <2>2 DEF AskRunning, Signalled, TypeOK
    <3>. QED  BY <1>1, <2>1, <3>1, <3>2, <3>3 DEF Ending
  <2>3. CASE AwaitRunning(r) \/ RunningTimeout(r) \/ Enqueue(r) \/ GetResponse(r)
    <3>1. UNCHANGED coordinationChan
      BY <2>3 DEF AwaitRunning, RunningTimeout, Enqueue, GetResponse
    <3>2. Signalled' = Signalled
      BY <2>3 DEF AwaitRunning, RunningTimeout, Enqueue, GetResponse, Signalled, TypeOK
    <3>. QED  BY <1>1, <2>1, <3>1, <3>2 DEF Ending
  <2>. QED  BY <1>2, <2>2, <2>3 DEF CallerStep
<1>3. ASSUME NEW w \in Workers, WorkerStep(w)
      PROVE  Analyzed(w) \/ Finish(w) \/ Quiet
  <2>1. CASE WorkerStarts(w) \/ Claim(w) \/ WorkerExits(w) \/ SendResponse(w)
    <3>1. UNCHANGED <<metrics, held, coordinationChan, handled, caller>>
      BY <2>1 DEF WorkerStarts, Claim, WorkerExits, SendResponse, coordVars, callerVars
    <3>2. UNCHANGED Ending
      BY <2>1 DEF WorkerStarts, Claim, WorkerExits, SendResponse, Ending, TypeOK
    <3>. QED  BY <1>1, <3>1, <3>2 DEF Signalled
  <2>. QED  BY <1>3, <2>1 DEF WorkerStep
<1>4. ASSUME NEW p \in Polls, PollStep(p)
      PROVE  Quiet
  <2>1. UNCHANGED <<metrics, held, handled, worker, caller>>
    BY <1>4 DEF PollStep, LockForReading, StatusOnly, AskStatus, AwaitStatus,
                StatusTimeout, PollReturns, workerVars, coordVars, callerVars
  <2>2. GetStatusMsg(p) \in Message /\ GetStatusMsg(p).type = "getWorkerStatus"
    BY MessageType DEF GetStatusMsg
  <2>3. UNCHANGED coordinationChan \/ Notify(GetStatusMsg(p))
    BY <1>4 DEF PollStep, LockForReading, StatusOnly, AskStatus, AwaitStatus,
                StatusTimeout, PollReturns
  <2>. QED  BY <1>1, <2>1, <2>2, <2>3 DEF Ending, Signalled
<1>5. ASSUME (StopStep \/ CloseShutdownChan \/ StopTimeout \/ Cancel) \/ UNCHANGED vars
      PROVE  Quiet
  <2>1. UNCHANGED <<metrics, held, coordinationChan, handled, worker, caller>>
    BY <1>5 DEF StopStep, CloseShutdownChan, CloseRequestQueue, StopCompletes,
                StopTimeout, Cancel, StopMoves, vars, workerVars, coordVars, callerVars
  <2>. QED  BY <1>1, <2>1 DEF Ending, Signalled
<1>. HIDE DEF Quiet
<1>6. \/ CoordinatorStep
      \/ \E r \in Requests : SignalStarted(r)
      \/ \E w \in Workers : Analyzed(w) \/ Finish(w)
      \/ Quiet
  BY <1>2, <1>3, <1>4, <1>5 DEF Next
<1>. QED  BY <1>6 DEF Quiet

LEMMA CountInvStep ==
  ASSUME MetricsInv, TypeInv', [Next]_vars
  PROVE  CountInv'
<1>. USE DEF MetricsInv, TypeInv
<1>0. /\ \A type : PendingOf(type) \in Nat /\ PendingOf(type)' \in Nat
      /\ metrics.total \in Nat /\ metrics.completed \in Nat /\ metrics.failed \in Nat
      /\ metrics'.total \in Nat /\ metrics'.completed \in Nat /\ metrics'.failed \in Nat
      /\ SumFunction(handled) \in Nat
      /\ IsFiniteSet(Ending) /\ Cardinality(Ending) \in Nat
      /\ IsFiniteSet(Signalled) /\ Cardinality(Signalled) \in Nat
  <2>1. metrics'.total \in Nat /\ metrics'.completed \in Nat /\ metrics'.failed \in Nat
    BY DEF TypeOK
  <2>. QED  BY <2>1, PendingIsNumber, PendingIsNumberNext, CountTypes, FS_CardinalityType
            DEF CountInv
<1>. USE DEF CountInv, TotalClaim, CompletedClaim, FailedClaim
<1>1. CASE CoordinatorStep
  <2>1. UNCHANGED <<handled, worker>> /\ Signalled' = Signalled
    BY <1>1 DEF CoordinatorStep, SetRunning, AnswerRunning, AnswerStatus, TakeMetrics,
                LockMetrics, TakeStatus, CoordinatorExits, workerVars, callerVars,
                Signalled, TypeOK
  <2>2. UNCHANGED Ending
    BY <2>1 DEF Ending
  <2>3. /\ TotalClaim' <= TotalClaim
        /\ CompletedClaim' <= CompletedClaim
        /\ FailedClaim' <= FailedClaim
        /\ metrics'.active <= metrics'.total
    BY <1>1, CoordinatorCounts
  <2>. QED  BY <1>0, <2>1, <2>2, <2>3
<1>2. ASSUME NEW r \in Requests, SignalStarted(r)
      PROVE  CountInv'
  <2>1. /\ caller[r] = "queued" /\ caller' = [caller EXCEPT ![r] = "waiting"]
        /\ Notify(Started)
        /\ UNCHANGED <<metrics, held, worker, handled>>
    BY <1>2 DEF SignalStarted, workerVars, coordVars
  <2>2. r \notin Signalled /\ Signalled' = Signalled \union {r} /\ UNCHANGED Ending
    BY <2>1 DEF Signalled, Ending, TypeOK
  <2>3. IsFiniteSet(Signalled') /\ Cardinality(Signalled') = Cardinality(Signalled) + 1
    BY <1>0, <2>2, OneMore
  <2>4. Started \in Message /\ Started.type = "started"
    BY MessageType DEF Started
  <2>5. /\ PendingOf("started")' <= PendingOf("started") + 1
        /\ PendingOf("completed")' <= PendingOf("completed")
        /\ PendingOf("failed")' <= PendingOf("failed")
    BY <1>0, <2>1, <2>4, NotifyCounts
  <2>. QED  BY <1>0, <2>1, <2>2, <2>3, <2>5
<1>3. ASSUME NEW w \in Workers, Analyzed(w)
      PROVE  CountInv'
  <2>1. /\ worker[w] = "analyzing" /\ worker' = [worker EXCEPT ![w] = "sending"]
        /\ UNCHANGED coordinationChan \/ Notify(Failed)
        /\ UNCHANGED <<metrics, held, handled, caller>>
    BY <1>3 DEF Analyzed, coordVars, callerVars
  <2>2. w \notin Ending /\ Ending' = Ending \union {w} /\ UNCHANGED Signalled
    BY <2>1 DEF Signalled, Ending, TypeOK
  <2>3. Cardinality(Ending') = Cardinality(Ending) + 1
    BY <1>0, <2>2, OneMore
  <2>4. Failed \in Message /\ Failed.type = "failed"
    BY MessageType DEF Failed
  <2>5. /\ PendingOf("started")' <= PendingOf("started")
        /\ PendingOf("completed")' <= PendingOf("completed")
        /\ PendingOf("failed")' <= PendingOf("failed") + 1
    <3>1. CASE UNCHANGED coordinationChan
      <4>1. \A type : PendingOf(type)' = PendingOf(type)
        BY <2>1, <3>1 DEF PendingOf
      <4>. QED  BY <1>0, <4>1
    <3>2. CASE Notify(Failed)
      BY <1>0, <2>1, <2>4, <3>2, NotifyCounts
    <3>. QED  BY <2>1, <3>1, <3>2
  <2>. QED  BY <1>0, <2>1, <2>2, <2>3, <2>5
<1>4. ASSUME NEW w \in Workers, Finish(w)
      PROVE  CountInv'
  <2>1. /\ worker[w] = "finishing" /\ worker' = [worker EXCEPT ![w] = "idle"]
        /\ handled' = [handled EXCEPT ![w] = handled[w] + 1]
        /\ Notify(Completed)
        /\ UNCHANGED <<metrics, held, caller>>
    BY <1>4 DEF Finish, coordVars, callerVars
  <2>2. w \in Ending /\ Ending' = Ending \ {w} /\ UNCHANGED Signalled
    BY <2>1 DEF Signalled, Ending, TypeOK
  <2>3. Cardinality(Ending') = Cardinality(Ending) - 1
    BY <1>0, <2>2, OneLess
  <2>4. Completed \in Message /\ Completed.type = "completed"
    BY MessageType DEF Completed
  <2>5. /\ PendingOf("started")' <= PendingOf("started")
        /\ PendingOf("completed")' <= PendingOf("completed") + 1
        /\ PendingOf("failed")' <= PendingOf("failed")
    BY <1>0, <2>1, <2>4, NotifyCounts
  <2>6. SumFunction(handled') = SumFunction(handled) + 1
    <3>1. handled \in [Workers -> Nat] /\ handled' \in [Workers -> Nat]
      BY DEF TypeOK
    <3>. QED  BY <2>1, <3>1, FiniteAssumption, SumGrows
  <2>. QED  BY <1>0, <2>1, <2>2, <2>3, <2>5, <2>6
<1>5. CASE /\ UNCHANGED <<metrics, handled, Ending>>
           /\ Signalled' = Signalled
           /\ TotalClaim' <= TotalClaim
           /\ CompletedClaim' <= CompletedClaim
           /\ FailedClaim' <= FailedClaim
  BY <1>0, <1>5
<1>. QED  BY <1>1, <1>2, <1>3, <1>4, <1>5, OthersCount

(* The counters never claim more than happened, whatever messages the full *)
(* channel lost and however long the coordinator waited for the lock:      *)
(* TotalRequests counts accepted requests, CompletedRequests handled ones, *)
(* FailedRequests analysed ones (the coordinator's message handlers).      *)
THEOREM CountersAreHonest == Spec => []MetricsNeverOvercount
<1>1. Init => OverloadInv /\ MetricsInv
  <2>. SUFFICES ASSUME Init PROVE OverloadInv /\ MetricsInv
    OBVIOUS
  <2>1. DataInv /\ Accepted = {} /\ Signalled = {} /\ dropped = {}
    BY DataInvInit DEF Init, Accepted, Signalled
  <2>2. OverloadInv
    BY <2>1, FS_EmptySet DEF OverloadInv, NoDropBelowCapacity
  <2>3. TypeOK
    BY <2>1 DEF DataInv, TypeInv
  <2>4. SumFunction(handled) = 0
    BY FiniteAssumption, SumOfZeros DEF Init
  <2>5. \A type \in {"started", "completed", "failed"} : PendingOf(type) = 0
    <3>. SUFFICES ASSUME NEW type \in {"started", "completed", "failed"}
                  PROVE  PendingOf(type) = 0
      OBVIOUS
    <3>1. /\ coordinationChan = Append(<<>>, Running) /\ <<>> \in Seq(Message)
          /\ Running \in Message /\ Running.type # type
          /\ held.type # type
      BY MessageType, EmptySeq DEF Init, Running, NoMessage
    <3>2. NumberOf(<<>>, type) = 0
      BY FS_EmptySet, EmptySeq DEF NumberOf, IndicesOf
    <3>3. NumberOf(coordinationChan, type) = 0
      BY <3>1, <3>2, NumberAfterSend
    <3>. QED  BY <2>3, <3>1, <3>3, PendingIsNumber
  <2>6. metrics = [total |-> 0, active |-> 0, completed |-> 0, failed |-> 0]
    BY DEF Init
  <2>7. Cardinality(Ending) \in Nat /\ Cardinality({}) = 0 /\ IsFiniteSet({})
    BY <2>3, CountTypes, FS_EmptySet
  <2>8. CountInv
    BY <2>1, <2>4, <2>5, <2>6, <2>7
    DEF CountInv, TotalClaim, CompletedClaim, FailedClaim
  <2>. QED  BY <2>1, <2>2, <2>7, <2>8 DEF MetricsInv, DataInv
<1>2. OverloadInv /\ MetricsInv /\ [Next]_vars => (OverloadInv /\ MetricsInv)'
  BY OverloadInvStep, CountInvStep DEF OverloadInv, MetricsInv, DataInv
<1>3. MetricsInv => MetricsNeverOvercount
  <2>. SUFFICES ASSUME MetricsInv PROVE MetricsNeverOvercount
    OBVIOUS
  <2>1. Cardinality(Signalled) <= Cardinality(Accepted)
    <3>1. Signalled \subseteq Accepted
      BY DEF Signalled, Accepted
    <3>. QED  BY <3>1, FS_Subset DEF MetricsInv
  <2>2. Cardinality(Signalled) \in Nat /\ Cardinality(Accepted) \in Nat
    BY FS_CardinalityType DEF MetricsInv, CountInv
  <2>3. \A type : PendingOf(type) \in Nat
    BY PendingIsNumber DEF MetricsInv, TypeInv
  <2>4. metrics.total \in Nat
    BY DEF MetricsInv, TypeInv, TypeOK
  <2>. QED  BY <2>1, <2>2, <2>3, <2>4
            DEF MetricsInv, CountInv, MetricsNeverOvercount, TotalClaim, CompletedClaim,
                FailedClaim, Ending
<1>. QED  BY <1>1, <1>2, <1>3, PTL DEF Spec

=============================================================================
