--------------------------- MODULE IdaesSubsystem ---------------------------
(***************************************************************************)
(* The IDAES subsystem (src/internal/subsystems/idaes_subsystem.go) and    *)
(* the web subsystem's client and adapter in front of it                   *)
(* (web_subsystem.go, idaes_adapter.go).                                   *)
(*                                                                         *)
(* A web handler submits its request and only then registers a channel for *)
(* the response.  One goroutine processes the requests, one broadcasts the *)
(* responses, each to a callback in a goroutine of its own.  The questions *)
(* healthMonitor answers are left out.                                     *)
(*                                                                         *)
(* AnalyzeDocumentWithRequestID is known from module Orchestrator: it      *)
(* returns, unless the context it was created with (the parent of the      *)
(* subsystem's own) is cancelled, which may leave its caller in            *)
(* GetResponse until AnalysisSystem.Stop closes responseQueue.  Of the     *)
(* response only the request is kept; lastError and the processing times   *)
(* are read by nobody but the health report.                               *)
(***************************************************************************)
EXTENDS Integers, Sequences, FiniteSets, Functions

CONSTANTS
  Requests,        \* one per call of IDaesAdapter.AnalyzeDocument (a fresh UUID)
  RequestBuffer,   \* config.RequestBuffer
  ResponseBuffer,  \* config.ResponseBuffer
  ClientBuffer,    \* capacity of IDaesClient.responseChan (100)
  NoRequest

ASSUME NoRequestAssumption == NoRequest \notin Requests
ASSUME BuffersAssumption ==
  {RequestBuffer, ResponseBuffer, ClientBuffer} \subseteq Nat \ {0}

VARIABLES
  caller,             \* where each call of AnalyzeDocument stands
  slot,               \* the channel GetResponseForRequest makes for each call
  general,            \* the client's responseChan, from which nobody takes
  callback,           \* the goroutine that carries each response to the client
  requestChan, responseChan,
  processor,          \* requestProcessor
  current,            \* the request it is processing
  requestsInProgress, requestsProcessed,
  broadcaster,        \* responseBroadcaster
  monitor,            \* healthMonitor
  stop,               \* IDaesSubsystem.Stop
  web,                \* WebSubsystem.Stop
  parentCancelled     \* main's context, the parent of all others

clientVars    == <<caller, slot, general, callback>>
processorVars == <<processor, current, requestsInProgress, requestsProcessed>>
endVars       == <<stop, web, parentCancelled>>
vars == <<clientVars, requestChan, responseChan, processorVars, broadcaster,
          monitor, endVars>>

TypeOK ==
  /\ caller \in [Requests -> {"new", "submitted", "refused", "waiting",
                              "answered", "gave up"}]
  /\ slot \in [Requests -> {"none", "empty", "full", "closed"}]
  /\ general \subseteq Requests /\ Cardinality(general) <= ClientBuffer
  /\ callback \in [Requests -> {"none", "started", "found", "missed", "done",
                                "panicked", "lost"}]
  /\ requestChan \in Seq(Requests) /\ Len(requestChan) <= RequestBuffer
  /\ responseChan \in Seq(Requests) /\ Len(responseChan) <= ResponseBuffer
  /\ processor \in {"idle", "analyzing", "abandoned", "sending", "exited"}
  /\ current \in Requests \cup {NoRequest}
  /\ requestsInProgress \in Nat /\ requestsProcessed \in Nat
  /\ broadcaster \in {"running", "exited"}
  /\ monitor \in {"running", "exited"}
  /\ stop \in {"new", "closed", "waiting", "stopped"}
  /\ web \in {"running", "unsubscribed", "cancelled"}
  /\ parentCancelled \in BOOLEAN

\* Both subsystems have been started and the client has subscribed.
Init ==
  /\ caller = [r \in Requests |-> "new"]
  /\ slot = [r \in Requests |-> "none"]
  /\ general = {}
  /\ callback = [r \in Requests |-> "none"]
  /\ requestChan = <<>> /\ responseChan = <<>>
  /\ processor = "idle" /\ current = NoRequest
  /\ requestsInProgress = 0 /\ requestsProcessed = 0
  /\ broadcaster = "running"
  /\ monitor = "running"
  /\ stop = "new" /\ web = "running" /\ parentCancelled = FALSE

\* shutdownChan is closed; the subsystem's context and the client's are done.
Shutdown  == stop # "new"
Cancelled == parentCancelled \/ stop \in {"waiting", "stopped"}
WebDone   == parentCancelled \/ web = "cancelled"

-----------------------------------------------------------------------------
(* AnalyzeDocument in a web handler *)

Submit(r) ==
  /\ caller[r] = "new"
  /\ Len(requestChan) < RequestBuffer
  /\ requestChan' = Append(requestChan, r)
  /\ caller' = [caller EXCEPT ![r] = "submitted"]
  /\ UNCHANGED <<slot, general, callback, responseChan, processorVars,
                 broadcaster, monitor, endVars>>

Refuse(r) ==
  /\ caller[r] = "new"
  /\ Cancelled \/ Len(requestChan) >= RequestBuffer
  /\ caller' = [caller EXCEPT ![r] = "refused"]
  /\ UNCHANGED <<slot, general, callback, requestChan, responseChan,
                 processorVars, broadcaster, monitor, endVars>>

Waits(r, from, to, channel) ==
  /\ caller[r] = from
  /\ caller' = [caller EXCEPT ![r] = to]
  /\ slot' = [slot EXCEPT ![r] = channel]
  /\ UNCHANGED <<general, callback, requestChan, responseChan, processorVars,
                 broadcaster, monitor, endVars>>

Register(r) == Waits(r, "submitted", "waiting", "empty")

TakeResponse(r) == slot[r] = "full" /\ Waits(r, "waiting", "answered", "empty")

\* The adapter's timeout, or the client's context is done.
GiveUp(r) == Waits(r, "waiting", "gave up", slot[r])

\* The deferred function: delete from pendingRequests, close the channel.
Cleanup(r) ==
  /\ slot[r] \in {"empty", "full"}
  /\ caller[r] \in {"answered", "gave up"}
  /\ Waits(r, caller[r], caller[r], "closed")

-----------------------------------------------------------------------------
(* handleResponse, in a goroutine of its own for each response.  A panic is *)
(* recovered by the broadcaster's wrapper.                                  *)

Carry(r, from, to) ==
  /\ callback[r] = from
  /\ callback' = [callback EXCEPT ![r] = to]
  /\ UNCHANGED <<caller, requestChan, responseChan, processorVars, broadcaster,
                 monitor, endVars>>

\* Mutant of LookUp: a response without a pending request is dropped.
LookUpOrDrop(r) ==
  /\ Carry(r, "started", IF slot[r] \in {"empty", "full"} THEN "found" ELSE "lost")
  /\ UNCHANGED <<slot, general>>

\* pendingRequests is read under the lock and used after it.
LookUp(r) ==
  /\ Carry(r, "started", IF slot[r] \in {"empty", "full"} THEN "found" ELSE "missed")
  /\ UNCHANGED <<slot, general>>

\* Mutant of Route: the return after the send is missing.
RouteAndFallBack(r) ==
  /\ slot[r] = "empty"
  /\ Carry(r, "found", "missed")
  /\ slot' = [slot EXCEPT ![r] = "full"]
  /\ UNCHANGED general

Route(r) ==
  /\ slot[r] = "empty"
  /\ Carry(r, "found", "done")
  /\ slot' = [slot EXCEPT ![r] = "full"]
  /\ UNCHANGED general

SendOnClosed(r) ==
  slot[r] = "closed" /\ Carry(r, "found", "panicked") /\ UNCHANGED <<slot, general>>

FallBack(r) ==
  /\ Cardinality(general) < ClientBuffer
  /\ Carry(r, "missed", "done")
  /\ general' = general \cup {r}
  /\ UNCHANGED slot

\* The general channel is full, or the client's context is done.
Lose(r) ==
  /\ \/ Cardinality(general) >= ClientBuffer /\ Carry(r, "missed", "lost")
     \/ WebDone /\ (Carry(r, "found", "lost") \/ Carry(r, "missed", "lost"))
  /\ UNCHANGED <<slot, general>>

-----------------------------------------------------------------------------
(* requestProcessor *)

TakeRequest ==
  /\ processor = "idle"
  /\ requestChan # <<>>
  /\ current' = Head(requestChan)
  /\ requestChan' = Tail(requestChan)
  /\ processor' = "analyzing"
  /\ requestsInProgress' = requestsInProgress + 1
  /\ UNCHANGED <<clientVars, responseChan, requestsProcessed, broadcaster,
                 monitor, endVars>>

\* The orchestrator's workers have followed the parent context; nobody is left
\* to answer.
Abandon ==
  /\ parentCancelled
  /\ processor = "analyzing"
  /\ processor' = "abandoned"
  /\ UNCHANGED <<clientVars, requestChan, responseChan, current,
                 requestsInProgress, requestsProcessed, broadcaster,
                 monitor, endVars>>

\* With a result or with an error.  An abandoned call returns only once
\* AnalysisSystem.Stop has closed responseQueue, which StopCompletes does after
\* it has waited for this very goroutine: never.
AnalysisReturns ==
  /\ processor = "analyzing"
  /\ processor' = "sending"
  /\ requestsInProgress' = requestsInProgress - 1
  /\ requestsProcessed' = requestsProcessed + 1
  /\ UNCHANGED <<clientVars, requestChan, responseChan, current, broadcaster,
                 monitor, endVars>>

\* Mutant of SendResponse: a full response channel drops the response.
SendOrDrop ==
  /\ processor = "sending"
  /\ responseChan' = IF Len(responseChan) < ResponseBuffer
                     THEN Append(responseChan, current) ELSE responseChan
  /\ processor' = "idle" /\ current' = NoRequest
  /\ UNCHANGED <<clientVars, requestChan, requestsInProgress,
                 requestsProcessed, broadcaster, monitor, endVars>>

SendResponse ==
  /\ processor = "sending"
  /\ Len(responseChan) < ResponseBuffer
  /\ responseChan' = Append(responseChan, current)
  /\ processor' = "idle" /\ current' = NoRequest
  /\ UNCHANGED <<clientVars, requestChan, requestsInProgress,
                 requestsProcessed, broadcaster, monitor, endVars>>

\* Mutant of ResponseCancelled: the context is not looked at while sending.
NeverCancelled == FALSE

ResponseCancelled ==
  /\ processor = "sending"
  /\ Cancelled
  /\ callback' = [callback EXCEPT ![current] = "lost"]
  /\ processor' = "idle" /\ current' = NoRequest
  /\ UNCHANGED <<caller, slot, general, requestChan, responseChan,
                 requestsInProgress, requestsProcessed, broadcaster,
                 monitor, endVars>>

ProcessorExits ==
  /\ processor = "idle"
  /\ Shutdown \/ Cancelled
  /\ processor' = "exited"
  /\ UNCHANGED <<clientVars, requestChan, responseChan, current,
                 requestsInProgress, requestsProcessed, broadcaster,
                 monitor, endVars>>

-----------------------------------------------------------------------------
(* responseBroadcaster *)

\* The web client is the only subscriber.
Broadcast ==
  /\ broadcaster = "running"
  /\ responseChan # <<>>
  /\ callback' = [callback EXCEPT ![Head(responseChan)] =
                    IF web = "running" THEN "started" ELSE "lost"]
  /\ responseChan' = Tail(responseChan)
  /\ UNCHANGED <<caller, slot, general, requestChan, processorVars,
                 broadcaster, monitor, endVars>>

BroadcasterExits ==
  /\ broadcaster = "running"
  /\ Shutdown \/ Cancelled
  /\ broadcaster' = "exited"
  /\ UNCHANGED <<clientVars, requestChan, responseChan, processorVars,
                 monitor, endVars>>

-----------------------------------------------------------------------------
(* healthMonitor: its questions and answers touch nothing else, but Stop waits *)
(* for it.                                                                    *)

MonitorExits ==
  /\ monitor = "running"
  /\ Shutdown \/ Cancelled
  /\ monitor' = "exited"
  /\ UNCHANGED <<clientVars, requestChan, responseChan, processorVars,
                 broadcaster, endVars>>

-----------------------------------------------------------------------------
(* The ends *)

Ends == UNCHANGED <<clientVars, requestChan, responseChan, processorVars,
                    broadcaster, monitor>>

CloseShutdownChan ==
  stop = "new" /\ stop' = "closed" /\ UNCHANGED <<web, parentCancelled>> /\ Ends

CancelContext ==
  stop = "closed" /\ stop' = "waiting" /\ UNCHANGED <<web, parentCancelled>> /\ Ends

\* i.wg.Wait(), then AnalysisSystem.Stop.
StopCompletes ==
  /\ stop = "waiting"
  /\ processor = "exited" /\ broadcaster = "exited" /\ monitor = "exited"
  /\ stop' = "stopped"
  /\ UNCHANGED <<web, parentCancelled>> /\ Ends

Unsubscribe ==
  web = "running" /\ web' = "unsubscribed" /\ UNCHANGED <<stop, parentCancelled>> /\ Ends

CancelWeb ==
  web = "unsubscribed" /\ web' = "cancelled" /\ UNCHANGED <<stop, parentCancelled>> /\ Ends

CancelParent ==
  ~parentCancelled /\ parentCancelled' = TRUE /\ UNCHANGED <<stop, web>> /\ Ends

-----------------------------------------------------------------------------

CallStep(r) == Register(r) \/ TakeResponse(r) \/ Cleanup(r)
CallbackStep(r) ==
  LookUp(r) \/ Route(r) \/ SendOnClosed(r) \/ FallBack(r) \/ Lose(r)
ProcessorStep == TakeRequest \/ AnalysisReturns \/ SendResponse
                 \/ ResponseCancelled \/ ProcessorExits
BroadcasterStep == Broadcast \/ BroadcasterExits
StopStep == CancelContext \/ StopCompletes

Next ==
  \/ \E r \in Requests : \/ Submit(r) \/ Refuse(r) \/ GiveUp(r)
                         \/ CallStep(r) \/ CallbackStep(r)
  \/ ProcessorStep \/ Abandon
  \/ BroadcasterStep
  \/ MonitorExits
  \/ CloseShutdownChan \/ StopStep
  \/ Unsubscribe \/ CancelWeb \/ CancelParent

\* Goroutines that can run do.  Nobody need submit or stop, and a caller need not
\* give up.
Fairness ==
  /\ \A r \in Requests : WF_vars(CallStep(r)) /\ WF_vars(CallbackStep(r))
  /\ WF_vars(ProcessorStep)
  /\ WF_vars(BroadcasterStep)
  /\ WF_vars(MonitorExits)
  /\ WF_vars(StopStep)

Spec == Init /\ [][Next]_vars /\ Fairness

-----------------------------------------------------------------------------
(* Properties *)

Accepted == {r \in Requests : caller[r] \notin {"new", "refused"}}

\* Where a request or its response is; "gone" stands for the caller that has
\* taken it, the closed channel that has buried it, and for those that are lost.
PlacesOf(r) ==
  {p \in {"requestChan", "processor", "responseChan", "callback", "slot",
          "general", "gone"} :
     CASE p = "requestChan"  -> r \in Range(requestChan)
       [] p = "processor"    -> current = r
       [] p = "responseChan" -> r \in Range(responseChan)
       [] p = "callback"     -> callback[r] \in {"started", "found", "missed"}
       [] p = "slot"         -> slot[r] = "full"
       [] p = "general"      -> r \in general
       [] p = "gone"         ->
            \/ callback[r] \in {"lost", "panicked"}
            \/ callback[r] = "done" /\ slot[r] # "full" /\ r \notin general}

\* An accepted request is in exactly one place at any time, from the request
\* buffer to its caller, and the counters of the health report add up to it.
\* (With the types of the state.)
EachRequestInOnePlace ==
  /\ TypeOK
  /\ \A r \in Requests : Cardinality(PlacesOf(r)) = IF r \in Accepted THEN 1 ELSE 0
  /\ IsInjective(requestChan) /\ IsInjective(responseChan)
  /\ Cardinality(Accepted)
       = Len(requestChan) + requestsInProgress + requestsProcessed

\* While both subsystems run, a response that gets lost, and one whose callback
\* panics on a channel that was closed meanwhile, is missed by nobody: its caller
\* has given up, or the general channel that nobody empties was full.  A response
\* in that channel has missed its caller for good: it never gets another answer.
LostOnlyWhenLate ==
  /\ \A r \in general : caller[r] # "answered"
  /\ ~Cancelled /\ web = "running" =>
       \A r \in Requests :
         /\ callback[r] = "lost" =>
              caller[r] = "gave up" \/ Cardinality(general) = ClientBuffer
         /\ callback[r] = "panicked" => caller[r] = "gave up"

\* A caller that has registered before its response is sent out is answered, as
\* long as both subsystems run.  (One that registers later waits in vain.)
RegisteredIsAnswered ==
  \A r \in Requests :
    caller[r] = "waiting" /\ callback[r] = "none"
      ~> caller[r] # "waiting" \/ Shutdown \/ Cancelled \/ web # "running"

\* Stop ends, from any point of the three goroutines, unless the parent context
\* takes the orchestrator's workers away first.
StopEnds == stop = "closed" ~> stop = "stopped" \/ parentCancelled

\* "Graceful Shutdown: All worker goroutines properly terminate on shutdown
\* signal" (docs/testing/PHASE6_SUBSYSTEM_TESTING_SUMMARY.md:59).
WorkersTerminate ==
  stop = "closed" ~>
    processor = "exited" /\ broadcaster = "exited" /\ monitor = "exited"
=============================================================================
