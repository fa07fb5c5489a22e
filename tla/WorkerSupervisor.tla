-------------------------- MODULE WorkerSupervisor --------------------------
(***************************************************************************)
(* The WorkerSupervisor and its ChannelAnalysisWorkers                     *)
(* (src/internal/analyzers/worker_supervisor.go, channel_worker.go), from  *)
(* the moment Start has returned.  A distributor hands requests to workers *)
(* in turns, the supervisor loop owns the events, and a goroutine of its   *)
(* own replaces each worker that fails.  All of them use the map of        *)
(* workers without a lock.                                                 *)
(*                                                                         *)
(* Requests are numbered in the order in which they enter the channel;     *)
(* those that are refused leave no trace.  Workers have the numbers the    *)
(* code gives them: one counter serves both as the source of worker IDs    *)
(* and as the turn of the round robin.  Health checks are left out: the    *)
(* events they raise are ignored by handleWorkerEvent.                     *)
(***************************************************************************)
EXTENDS Integers, Sequences, FiniteSets

CONSTANTS
  NumRequests,    \* bound: the requests that are accepted
  MaxWorkers,     \* maxWorkers
  RequestBuffer,  \* capacity of requests (100)
  CommandBuffer,  \* capacity of each worker's commands (10)
  ResultBuffer,   \* capacity of each worker's results (20)
  EventBuffer,    \* capacity of workerEvents (100)
  MaxCounter      \* bound: the values workerCounter takes

ASSUME SizesAssumption ==
  {NumRequests, MaxWorkers, RequestBuffer, CommandBuffer, ResultBuffer,
   EventBuffer, MaxCounter} \subseteq Nat \ {0}
\* Otherwise Start blocks: nobody receives its events before it has returned.
ASSUME StartAssumption == MaxWorkers <= EventBuffer /\ MaxWorkers <= MaxCounter

Requests == 1 .. NumRequests
Nil      == 0                  \* what a closed channel yields
Counters == 1 .. MaxCounter

VARIABLES
  accepted,       \* how many requests have entered the channel
  requests,       \* the channel; closed when the supervisor loop has ended
  supervisor, distributor, healthMonitor,  \* "loop" or "exited", and between
  sending,        \* what the distributor is sending, to whom, in which turn
  shutdown,       \* Shutdown: "new" or "sent"
  workers,        \* the map: the workers the supervisor knows
  workerCounter, activeWorkers, processedReqs,
  worker,         \* the goroutine of each worker ever created
  commands, hand, \* its command channel, and the request it processes
  results,        \* its result channel; closed when it has exited
  resultMonitor,  \* monitorWorkerResults of each worker
  stoppers,       \* the Shutdown calls of shutdownAllWorkers
  failure,        \* each handleWorkerFailure goroutine, by the turn or the
  failing,        \* worker that caused it, and the worker it is about: the
                  \* failed one, then its replacement
  workerEvents,
  handled, dropped,
  cancelled,      \* the context is done
  fatal           \* the process has died

workerVars == <<worker, commands, hand, results>>
countVars  == <<workerCounter, activeWorkers>>
loopVars   == <<supervisor, healthMonitor, shutdown, stoppers>>
distVars   == <<distributor, sending, processedReqs>>
failVars   == <<failure, failing>>
requestVars == <<accepted, requests>>
vars == <<requestVars, loopVars, distVars, workers, countVars, workerVars,
          resultMonitor, failVars, workerEvents, handled, dropped, cancelled,
          fatal>>

FailureStates == {"none", "looking", "stopping", "removing", "uncounting", "sizing",
                  "creating", "placing", "counting", "notifying", "done"}
NoSend == [request |-> Nil, worker |-> 0, turn |-> 0]

TypeOK ==
  /\ accepted \in 0 .. NumRequests
  /\ requests \in Seq(Requests) /\ Len(requests) <= RequestBuffer
  /\ supervisor \in {"loop", "cleaning", "exited"}
  /\ {distributor, healthMonitor} \subseteq {"loop", "sending", "exited"}
  /\ sending \in [request : Requests \cup {Nil}, worker : 0 .. MaxCounter,
                  turn : 0 .. MaxCounter]
  /\ shutdown \in {"new", "sent"}
  /\ workers \subseteq Counters /\ stoppers \subseteq Counters
  /\ workerCounter \in 0 .. MaxCounter
  /\ activeWorkers \in Int /\ processedReqs \in Nat
  /\ worker \in [Counters -> {"none", "idle", "busy", "exited", "panicked"}]
  /\ hand \in [Counters -> Requests \cup {Nil}]
  /\ commands \in [Counters -> Seq(Requests \cup {Nil})]
  /\ \A w \in Counters : Len(commands[w]) <= CommandBuffer
  /\ results \in [Counters -> 0 .. ResultBuffer]
  /\ resultMonitor \in [Counters -> {"none", "running", "done"}]
  /\ failure \in [Counters -> FailureStates]
  /\ failing \in [Counters -> 0 .. MaxCounter]
  /\ workerEvents \in Seq(Counters \cup {Nil})
  /\ Len(workerEvents) <= EventBuffer
  /\ handled \subseteq Requests /\ dropped \subseteq Requests
  /\ cancelled \in BOOLEAN /\ fatal \in BOOLEAN

\* Start has created the workers.
Init ==
  /\ accepted = 0 /\ requests = <<>>
  /\ supervisor = "loop" /\ distributor = "loop" /\ healthMonitor = "loop"
  /\ sending = NoSend /\ shutdown = "new"
  /\ workers = 1 .. MaxWorkers
  /\ workerCounter = MaxWorkers /\ activeWorkers = MaxWorkers /\ processedReqs = 0
  /\ worker = [w \in Counters |-> IF w <= MaxWorkers THEN "idle" ELSE "none"]
  /\ commands = [w \in Counters |-> <<>>] /\ hand = [w \in Counters |-> Nil]
  /\ results = [w \in Counters |-> 0]
  /\ resultMonitor = [w \in Counters |-> IF w <= MaxWorkers THEN "running" ELSE "none"]
  /\ stoppers = {}
  /\ failure = [n \in Counters |-> "none"] /\ failing = [n \in Counters |-> 0]
  /\ workerEvents = [i \in 1 .. MaxWorkers |-> Nil]
  /\ handled = {} /\ dropped = {}
  /\ cancelled = FALSE /\ fatal = FALSE

requestsClosed == supervisor = "exited"

-----------------------------------------------------------------------------
(* SubmitRequest *)

Submit ==
  /\ accepted < NumRequests
  /\ ~requestsClosed /\ Len(requests) < RequestBuffer
  /\ accepted' = accepted + 1
  /\ requests' = Append(requests, accepted')
  /\ UNCHANGED <<loopVars, distVars, workers, countVars, workerVars, resultMonitor,
                 failVars, workerEvents, handled, dropped, cancelled, fatal>>

Dies ==
  /\ fatal' = TRUE
  /\ UNCHANGED <<requestVars, loopVars, distVars, workers, countVars, workerVars,
                 resultMonitor, failVars, workerEvents, handled, dropped, cancelled>>

\* A send on a closed channel.
SubmitOnClosed == accepted < NumRequests /\ requestsClosed /\ Dies

-----------------------------------------------------------------------------
(* requestDistributor *)

\* Mutant of Selectable: worker IDs are taken to be smaller than their number.
SelectableSmall(n) == {w \in workers : n % Cardinality(workers) = w}

\* selectWorker; the map is visited in no particular order.
Selectable(n) ==
  {w \in workers : n % Cardinality(workers) = w % Cardinality(workers)}

Received == IF requests = <<>> THEN Nil ELSE Head(requests)

\* A request, or nil from the closed channel.
Receives ==
  /\ distributor = "loop"
  /\ requests # <<>> \/ requestsClosed
  /\ workerCounter < MaxCounter
  /\ workerCounter' = workerCounter + 1
  /\ requests' = IF requests = <<>> THEN requests ELSE Tail(requests)
  /\ UNCHANGED <<accepted, loopVars, processedReqs, workers, activeWorkers,
                 workerVars, resultMonitor, failVars, workerEvents, handled,
                 cancelled>>

Select ==
  /\ Receives
  /\ \E w \in Selectable(workerCounter') :
       sending' = [request |-> Received, worker |-> w, turn |-> workerCounter']
  /\ distributor' = "sending"
  /\ UNCHANGED <<dropped, fatal>>

SelectNone ==
  /\ Receives
  /\ Selectable(workerCounter') = {} /\ Received # Nil
  /\ dropped' = dropped \cup {Received}
  /\ UNCHANGED <<distributor, sending, fatal>>

\* The warning that no worker is found dereferences the request.
SelectNoneForNil ==
  /\ distributor = "loop" /\ requestsClosed /\ requests = <<>>
  /\ workerCounter < MaxCounter /\ Selectable(workerCounter + 1) = {}
  /\ Dies

Sent ==
  /\ distributor = "sending"
  /\ distributor' = "loop" /\ sending' = NoSend
  /\ UNCHANGED <<requestVars, loopVars, workers, countVars, worker, hand, results,
                 resultMonitor, workerEvents, handled, cancelled, fatal>>

\* Mutant of Deliver: a send that finds the channel full is taken for done.
DeliverOrLose ==
  LET w == sending.worker IN
  /\ Sent
  /\ commands' = IF Len(commands[w]) < CommandBuffer
                 THEN [commands EXCEPT ![w] = Append(@, sending.request)]
                 ELSE commands
  /\ processedReqs' = processedReqs + 1
  /\ UNCHANGED <<failVars, dropped>>

Deliver ==
  LET w == sending.worker IN
  /\ Sent
  /\ Len(commands[w]) < CommandBuffer
  /\ commands' = [commands EXCEPT ![w] = Append(@, sending.request)]
  /\ processedReqs' = processedReqs + 1
  /\ UNCHANGED <<failVars, dropped>>

\* SendCommand times out, or the context is done.
DeliverFails ==
  /\ Sent
  /\ cancelled \/ Len(commands[sending.worker]) >= CommandBuffer
  /\ failure' = [failure EXCEPT ![sending.turn] = "looking"]
  /\ failing' = [failing EXCEPT ![sending.turn] = sending.worker]
  /\ dropped' = dropped \cup ({sending.request} \ {Nil})
  /\ UNCHANGED <<commands, processedReqs>>

-----------------------------------------------------------------------------
(* ChannelAnalysisWorker *)

WorkerMoves(w, from, to) ==
  /\ worker[w] = from
  /\ worker' = [worker EXCEPT ![w] = to]
  /\ UNCHANGED <<requestVars, distVars, workers, countVars, resultMonitor,
                 workerEvents, dropped, cancelled, fatal>>

TakeCommand(w) ==
  /\ commands[w] # <<>> /\ Head(commands[w]) # Nil
  /\ WorkerMoves(w, "idle", "busy")
  /\ hand' = [hand EXCEPT ![w] = Head(commands[w])]
  /\ commands' = [commands EXCEPT ![w] = Tail(@)]
  /\ UNCHANGED <<results, loopVars, failVars, handled>>

\* The nil request is dereferenced; the goroutine recovers and replaces itself.
\* Its results are never closed.
TakeNil(w) ==
  /\ commands[w] # <<>> /\ Head(commands[w]) = Nil
  /\ WorkerMoves(w, "idle", "panicked")
  /\ commands' = [commands EXCEPT ![w] = Tail(@)]
  /\ failure' = [failure EXCEPT ![w] = "looking"]
  /\ failing' = [failing EXCEPT ![w] = w]
  /\ UNCHANGED <<hand, results, loopVars, handled>>

\* A result for which there is no room is lost.
Offered(w) == [results EXCEPT ![w] = IF @ < ResultBuffer THEN @ + 1 ELSE @]

\* A cancelled request raises no event, its result is not recorded.
Finish(w) ==
  /\ WorkerMoves(w, "busy", "idle")
  /\ results' = Offered(w) \/ (cancelled /\ UNCHANGED results)
  /\ handled' = handled \cup {hand[w]}
  /\ hand' = [hand EXCEPT ![w] = Nil]
  /\ UNCHANGED <<commands, loopVars, failVars>>

\* Mutant of WorkerExits: the worker does not watch the context.
WorkerExitsNot(w) == cancelled /\ FALSE /\ UNCHANGED vars

WorkerExits(w) ==
  /\ cancelled
  /\ WorkerMoves(w, "idle", "exited")
  /\ UNCHANGED <<commands, hand, results, loopVars, failVars, handled>>

-----------------------------------------------------------------------------
(* monitorWorkerResults; the result it holds while it waits for room counts *)
(* as still in the channel.                                                 *)

Notify(event) ==
  /\ Len(workerEvents) < EventBuffer
  /\ workerEvents' = Append(workerEvents, event)

ForwardResult(w) ==
  /\ resultMonitor[w] = "running" /\ results[w] > 0
  /\ Notify(Nil)
  /\ results' = [results EXCEPT ![w] = @ - 1]
  /\ UNCHANGED <<requestVars, loopVars, distVars, workers, countVars, worker,
                 commands, hand, resultMonitor, failVars, handled, dropped,
                 cancelled, fatal>>

ForwardShutdown(w) ==
  /\ resultMonitor[w] = "running" /\ results[w] = 0 /\ worker[w] = "exited"
  /\ Notify(w)
  /\ resultMonitor' = [resultMonitor EXCEPT ![w] = "done"]
  /\ UNCHANGED <<requestVars, loopVars, distVars, workers, countVars, workerVars,
                 failVars, handled, dropped, cancelled, fatal>>

-----------------------------------------------------------------------------
(* supervisorLoop *)

\* Mutant of Cleans: the count is left to handleWorkerFailure.
CleansUncounted(w) == workers' = workers \ {w} /\ UNCHANGED supervisor

\* cleanupWorker: the worker leaves the table, and then the count.
Cleans(w) == workers' = workers \ {w} /\ supervisor' = "cleaning"

HandleEvent ==
  /\ supervisor = "loop" /\ workerEvents # <<>>
  /\ IF Head(workerEvents) # Nil
     THEN Cleans(Head(workerEvents))
     ELSE UNCHANGED <<workers, supervisor>>
  /\ workerEvents' = Tail(workerEvents)
  /\ UNCHANGED <<requestVars, healthMonitor, shutdown, stoppers, distVars, countVars,
                 workerVars, resultMonitor, failVars, handled, dropped, cancelled,
                 fatal>>

CleanedUp ==
  /\ supervisor = "cleaning"
  /\ supervisor' = "loop"
  /\ activeWorkers' = activeWorkers - 1
  /\ UNCHANGED <<requestVars, healthMonitor, shutdown, stoppers, distVars, workers,
                 workerCounter, workerVars, resultMonitor, failVars, workerEvents,
                 handled, dropped, cancelled, fatal>>

Ends == UNCHANGED <<requestVars, sending, processedReqs, workers, countVars,
                    workerVars, resultMonitor, failVars, workerEvents, handled,
                    dropped, fatal>>

\* shutdownAllWorkers closes requests and calls Shutdown of every known worker.
SupervisorEnds ==
  /\ supervisor = "loop"
  /\ supervisor' = "exited"
  /\ stoppers' = workers
  /\ UNCHANGED <<distributor, healthMonitor>> /\ Ends
DistributorEnds ==
  /\ distributor = "loop"
  /\ distributor' = "exited"
  /\ UNCHANGED <<supervisor, healthMonitor, stoppers>> /\ Ends
HealthMonitorEnds ==
  /\ healthMonitor = "loop"
  /\ healthMonitor' = "exited"
  /\ UNCHANGED <<supervisor, distributor, stoppers>> /\ Ends

\* Shutdown's one token goes to whichever of the three takes it.
Shutdown ==
  /\ shutdown = "new" /\ shutdown' = "sent"
  /\ SupervisorEnds \/ DistributorEnds \/ HealthMonitorEnds
  /\ UNCHANGED cancelled

OnCancel(end) == cancelled /\ end /\ UNCHANGED <<shutdown, cancelled>>

Cancel ==
  /\ ~cancelled /\ cancelled' = TRUE
  /\ UNCHANGED <<loopVars, distributor>> /\ Ends

\* A Shutdown of shutdownAllWorkers: the worker takes the token, or time is up.
Stopped(w) ==
  /\ w \in stoppers
  /\ stoppers' = stoppers \ {w}
  /\ WorkerMoves(w, "idle", "exited")
  /\ UNCHANGED <<commands, hand, results, supervisor, healthMonitor, shutdown,
                 failVars, handled>>
StopperGivesUp(w) ==
  /\ w \in stoppers /\ (cancelled \/ worker[w] # "idle")
  /\ stoppers' = stoppers \ {w}
  /\ UNCHANGED <<requestVars, supervisor, healthMonitor, shutdown, distVars,
                 workers, countVars, workerVars, resultMonitor, failVars,
                 workerEvents, handled, dropped, cancelled, fatal>>

-----------------------------------------------------------------------------
(* handleWorkerFailure *)

Goes(n, from, to) ==
  /\ failure[n] = from
  /\ failure' = [failure EXCEPT ![n] = to]
  /\ UNCHANGED <<requestVars, loopVars, distVars, handled, dropped, cancelled, fatal>>

Look(n) ==
  /\ Goes(n, "looking", IF failing[n] \in workers THEN "stopping" ELSE "sizing")
  /\ UNCHANGED <<failing, workers, countVars, workerVars, resultMonitor, workerEvents>>

\* worker.Shutdown
StopFailing(n) ==
  /\ Goes(n, "stopping", "removing")
  /\ worker[failing[n]] = "idle"
  /\ worker' = [worker EXCEPT ![failing[n]] = "exited"]
  /\ UNCHANGED <<failing, workers, countVars, commands, hand, results, resultMonitor,
                 workerEvents>>
GiveUpFailing(n) ==
  /\ Goes(n, "stopping", "removing")
  /\ cancelled \/ worker[failing[n]] # "idle"
  /\ UNCHANGED <<failing, workers, countVars, workerVars, resultMonitor, workerEvents>>

\* Like cleanupWorker, in two steps: in between the count is above the table.
Remove(n) ==
  /\ Goes(n, "removing", "uncounting")
  /\ workers' = workers \ {failing[n]}
  /\ UNCHANGED <<failing, countVars, workerVars, resultMonitor, workerEvents>>
Uncount(n) ==
  /\ Goes(n, "uncounting", "sizing")
  /\ activeWorkers' = activeWorkers - 1
  /\ UNCHANGED <<failing, workers, workerCounter, workerVars, resultMonitor,
                 workerEvents>>

Size(n) ==
  /\ Goes(n, "sizing", IF Cardinality(workers) < MaxWorkers THEN "creating" ELSE "done")
  /\ UNCHANGED <<failing, workers, countVars, workerVars, resultMonitor, workerEvents>>

\* createWorker: the number, the table with the goroutines, the count, the event.
Number(n) ==
  /\ Goes(n, "creating", "placing")
  /\ workerCounter < MaxCounter
  /\ workerCounter' = workerCounter + 1
  /\ failing' = [failing EXCEPT ![n] = workerCounter']
  /\ UNCHANGED <<workers, activeWorkers, workerVars, resultMonitor, workerEvents>>
Place(n) ==
  /\ Goes(n, "placing", "counting")
  /\ workers' = workers \cup {failing[n]}
  /\ worker' = [worker EXCEPT ![failing[n]] = "idle"]
  /\ resultMonitor' = [resultMonitor EXCEPT ![failing[n]] = "running"]
  /\ UNCHANGED <<failing, countVars, commands, hand, results, workerEvents>>
Count(n) ==
  /\ Goes(n, "counting", "notifying")
  /\ activeWorkers' = activeWorkers + 1
  /\ UNCHANGED <<failing, workers, workerCounter, workerVars, resultMonitor,
                 workerEvents>>
Announce(n) ==
  /\ Goes(n, "notifying", "done")
  /\ Notify(Nil)
  /\ UNCHANGED <<failing, workers, countVars, workerVars, resultMonitor>>

-----------------------------------------------------------------------------
(* The map has no lock: the runtime may notice that one goroutine reads or *)
(* writes it while another writes it, and ends the process.                *)

CleansUp == supervisor = "loop" /\ workerEvents # <<>> /\ Head(workerEvents) # Nil
MapWriters == {n \in Counters : failure[n] \in {"removing", "placing"}}
MapReaders == {n \in Counters : failure[n] = "looking"}
MapUsers == Cardinality(MapWriters \cup MapReaders) + (IF CleansUp THEN 1 ELSE 0)
              + (IF distributor = "loop" /\ requests # <<>> THEN 1 ELSE 0)
MapFault ==
  /\ MapWriters # {} \/ CleansUp
  /\ MapUsers > 1
  /\ Dies

-----------------------------------------------------------------------------

DistributorStep ==
  Select \/ SelectNone \/ SelectNoneForNil \/ Deliver \/ DeliverFails
WorkerStep(w) == TakeCommand(w) \/ TakeNil(w) \/ Finish(w) \/ WorkerExits(w)
MonitorStep(w) == ForwardResult(w) \/ ForwardShutdown(w)
StopperStep(w) == Stopped(w) \/ StopperGivesUp(w)
SupervisorStep == HandleEvent \/ CleanedUp \/ OnCancel(SupervisorEnds)
FailureStep(n) ==
  \/ Look(n) \/ StopFailing(n) \/ GiveUpFailing(n) \/ Remove(n) \/ Uncount(n)
  \/ Size(n) \/ Number(n) \/ Place(n) \/ Count(n) \/ Announce(n)

\* What goes on without anybody's asking.
GoroutineStep ==
  \/ DistributorStep \/ OnCancel(DistributorEnds)
  \/ \E w \in Counters : WorkerStep(w) \/ MonitorStep(w) \/ StopperStep(w)
  \/ SupervisorStep \/ OnCancel(HealthMonitorEnds)
  \/ \E n \in Counters : FailureStep(n)

Next ==
  /\ ~fatal
  /\ \/ GoroutineStep
     \/ Submit \/ SubmitOnClosed \/ Shutdown \/ Cancel
     \/ MapFault

\* Goroutines run and timers run out.  The code is fair to each goroutine and to
\* each ready case of a select; with the bounds no goroutine runs for ever, and
\* fairness to all of them together is enough.
Fairness == WF_vars(~fatal /\ GoroutineStep)

Spec == Init /\ [][Next]_vars
FairSpec == Spec /\ Fairness

-----------------------------------------------------------------------------
(* Properties *)

PlacesOf(r) ==
  {<<"requests", i>> : i \in {j \in DOMAIN requests : requests[j] = r}}
  \cup {<<"commands", q[1], q[2]>> : q \in
          {p \in Counters \X (1 .. CommandBuffer) :
             p[2] <= Len(commands[p[1]]) /\ commands[p[1]][p[2]] = r}}
  \cup {<<"hand", w>> : w \in {v \in Counters : hand[v] = r}}
  \cup {<<k, 0>> : k \in {h \in {"sending", "handled", "dropped"} :
             CASE h = "sending" -> sending.request = r
               [] h = "handled" -> r \in handled
               [] h = "dropped" -> r \in dropped}}

\* However workers fail and are replaced, an accepted request is processed at
\* most once and never forgotten: it is always in exactly one place.  (With the
\* types of the state.)
EachRequestInOnePlace ==
  /\ TypeOK
  /\ \A r \in Requests :
       Cardinality(PlacesOf(r)) = IF r <= accepted THEN 1 ELSE 0

\* activeWorkers, from which the pool's health is computed, is never more than the
\* workers the supervisor knows but for removals that have left the table and
\* not yet the count; replacements in the table and not yet in the count are
\* already allowed for.  In whatever order handleWorkerFailure and the event of
\* a worker's end remove it, and a worker may be removed by both, the count can
\* lag behind for good, but never reports capacity that is not there.
Uncounting == {n \in Counters : failure[n] = "uncounting"}
Counting   == {n \in Counters : failure[n] = "counting"}
ActiveNeverOvercounted ==
  activeWorkers + Cardinality(Counting)
    <= Cardinality(workers) + Cardinality(Uncounting)
         + (IF supervisor = "cleaning" THEN 1 ELSE 0)

\* As long as no worker has been taken for failed, nobody has asked for the end
\* and the process lives, the turns always find a worker: every accepted request
\* is processed.
Intact == /\ \A n \in Counters : failure[n] = "none"
          /\ shutdown = "new" /\ ~cancelled /\ ~fatal
IntactProcessesAll ==
  \A r \in Requests : accepted >= r ~> r \in handled \/ ~Intact

\* A cancelled context ends every goroutine that serves requests, those of the
\* workers created meanwhile included.
CancelEndsAll ==
  cancelled ~> \/ fatal
               \/ /\ {supervisor, distributor, healthMonitor} = {"exited"}
                  /\ \A w \in Counters : worker[w] \notin {"idle", "busy"}
=============================================================================
