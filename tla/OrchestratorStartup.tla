------------------------ MODULE OrchestratorStartup ------------------------
(***************************************************************************)
(* How an AnalysisOrchestrator comes to run: the factory adds its          *)
(* pipelines (CreateSystem, AddPipeline), AnalysisSystem.Start starts the  *)
(* coordinator and then creates the workers one by one, each with the      *)
(* pipeline the coordinator selects for it (createWorker, selectPipeline), *)
(* and last of all announces that the orchestrator is running.  The        *)
(* context may be cancelled, or shutdownChan closed, at any moment.        *)
(* Orchestrator.tla takes over where Start returns.                        *)
(*                                                                         *)
(* No caller adds a pipeline after Start, so no coordinator is there to    *)
(* confirm an addition: AddPipeline always waits its 100 ms out.           *)
(***************************************************************************)
EXTENDS Integers, Sequences, FiniteSets

CONSTANTS
  ToAdd,          \* the pipelines there are, in the order they are created
  NumWorkers,     \* config.MaxWorkers
  CoordSize,      \* capacity of coordinationChan (10 in the code)
  SelectSize,     \* capacity of pipelineSelectChan (10 in the code)
  LoadBalancing,  \* config.LoadBalancing
  NilPipeline     \* the nil *AnalysisPipeline

Pipelines == {ToAdd[i] : i \in DOMAIN ToAdd}
WorkerIDs == 0 .. NumWorkers - 1

ASSUME ToAddAssumption ==
  /\ ToAdd \in Seq(Pipelines)
  /\ \A i, j \in DOMAIN ToAdd : ToAdd[i] = ToAdd[j] => i = j
ASSUME NilAssumption == NilPipeline \notin Pipelines
ASSUME SizesAssumption ==
  NumWorkers \in Nat /\ CoordSize \in Nat \ {0} /\ SelectSize \in Nat \ {0}

VARIABLES
  starter,           \* where the goroutine that creates and starts stands
  added,             \* calls of AddPipeline that have returned
  pipelines,         \* o.pipelines
  workers,           \* the pipeline of each worker created so far (o.workers)
  coordinationChan,  \* buffered channel of messages to the coordinator
  pipelineSelectChan,\* buffered channel of the workers a pipeline is asked for
  answer,            \* responseChan (capacity 1) of each worker's selection
  roundRobinCounter, \* the coordinator's selection counter
  coordination,      \* the coordinator: "unborn", "loop" or "exited"
  isRunning,         \* the coordinator's running flag
  cancelled,         \* whether the context given to Start is done
  shutdown           \* whether shutdownChan is closed

startVars == <<starter, added, pipelines, workers>>
coordVars == <<roundRobinCounter, coordination, isRunning>>
outsideVars   == <<cancelled, shutdown>>
startupVars == <<startVars, coordinationChan, pipelineSelectChan, answer,
                 coordVars, outsideVars>>

StarterStates == {"adding", "confirming", "asking", "choosing", "announcing",
                  "returned", "failed"}

Addition(p) == [type |-> "addition", pipeline |-> p]
RunningMessage     == [type |-> "running"]
Message == {Addition(p) : p \in Pipelines} \cup {RunningMessage}
Chosen == Pipelines \cup {NilPipeline}

StartupTypeOK ==
  /\ starter \in StarterStates
  /\ added \in 0 .. Len(ToAdd)
  /\ pipelines \in Seq(Pipelines)
  /\ workers \in Seq(Chosen) /\ Len(workers) <= NumWorkers
  /\ coordinationChan \in Seq(Message) /\ Len(coordinationChan) <= CoordSize
  /\ pipelineSelectChan \in Seq(WorkerIDs)
  /\ Len(pipelineSelectChan) <= SelectSize
  /\ answer \in [WorkerIDs -> Seq(Chosen)]
  /\ roundRobinCounter \in Nat
  /\ coordination \in {"unborn", "loop", "exited"}
  /\ isRunning \in BOOLEAN /\ cancelled \in BOOLEAN /\ shutdown \in BOOLEAN

StartupInit ==
  /\ starter = "adding"
  /\ added = 0
  /\ pipelines = <<>>
  /\ workers = <<>>
  /\ coordinationChan = <<>>
  /\ pipelineSelectChan = <<>>
  /\ answer = [w \in WorkerIDs |-> <<>>]
  /\ roundRobinCounter = 0
  /\ coordination = "unborn"
  /\ isRunning = FALSE
  /\ cancelled = FALSE
  /\ shutdown = FALSE

-----------------------------------------------------------------------------
(* CreateSystem and AddPipeline *)

NextPipeline == ToAdd[added + 1]

\* The message fits in coordinationChan; the coordinator will find it there.
QueueAddition ==
  /\ starter = "adding" /\ added < Len(ToAdd)
  /\ Len(coordinationChan) < CoordSize
  /\ coordinationChan' = Append(coordinationChan, Addition(NextPipeline))
  /\ starter' = "confirming"
  /\ UNCHANGED <<added, pipelines, workers, pipelineSelectChan, answer,
                 coordVars, outsideVars>>

AddDirectly ==
  /\ pipelines' = Append(pipelines, NextPipeline)
  /\ added' = added + 1
  /\ starter' = "adding"
  /\ UNCHANGED <<workers, coordinationChan, pipelineSelectChan, answer,
                 coordVars, outsideVars>>

\* Nobody confirms within 100 ms: the pipeline is appended here as well.
ConfirmationTimeout == starter = "confirming" /\ AddDirectly

\* coordinationChan is full: the pipeline is appended here only.
AddWithoutCoordination ==
  /\ starter = "adding" /\ added < Len(ToAdd)
  /\ Len(coordinationChan) = CoordSize
  /\ AddDirectly

-----------------------------------------------------------------------------
(* Start, createWorker and selectPipeline.  How many pipelines are added    *)
(* before Start is the caller's choice: CreateSystem adds one per worker,   *)
(* the tests of the orchestrator a single one.                              *)

NothingToStart ==
  /\ starter = "adding"
  /\ pipelines = <<>>
  /\ starter' = "failed"
  /\ UNCHANGED <<added, pipelines, workers, coordinationChan,
                 pipelineSelectChan, answer, coordVars, outsideVars>>

AfterWorkers(n) == IF n < NumWorkers THEN "asking" ELSE "announcing"

StartCoordinator ==
  /\ starter = "adding"
  /\ pipelines # <<>>
  /\ coordination' = "loop"
  /\ starter' = AfterWorkers(0)
  /\ UNCHANGED <<added, pipelines, workers, coordinationChan,
                 pipelineSelectChan, answer, roundRobinCounter, isRunning,
                 outsideVars>>

AskForPipeline ==
  /\ starter = "asking"
  /\ Len(pipelineSelectChan) < SelectSize
  /\ pipelineSelectChan' = Append(pipelineSelectChan, Len(workers))
  /\ starter' = "choosing"
  /\ UNCHANGED <<added, pipelines, workers, coordinationChan, answer,
                 coordVars, outsideVars>>

CreateWorker(p) ==
  /\ workers' = Append(workers, p)
  /\ starter' = AfterWorkers(Len(workers) + 1)
  /\ UNCHANGED <<added, pipelines, coordinationChan, pipelineSelectChan,
                 coordVars, outsideVars>>

TakeAnswer ==
  /\ starter = "choosing"
  /\ answer[Len(workers)] # <<>>
  /\ CreateWorker(Head(answer[Len(workers)]))
  /\ answer' = [answer EXCEPT ![Len(workers)] = Tail(@)]

\* Both of selectPipeline's selects give up on a closed shutdownChan, and
\* the worker is created without a pipeline.
SelectionShutDown ==
  /\ starter \in {"asking", "choosing"}
  /\ shutdown
  /\ CreateWorker(NilPipeline)
  /\ UNCHANGED answer

Announce(chan) ==
  /\ starter = "announcing"
  /\ coordinationChan' = chan
  /\ starter' = "returned"
  /\ UNCHANGED <<added, pipelines, workers, pipelineSelectChan, answer,
                 coordVars, outsideVars>>

\* A non-blocking send: lost when coordinationChan is full.
AnnounceRunning ==
  Announce(IF Len(coordinationChan) < CoordSize
           THEN Append(coordinationChan, RunningMessage)
           ELSE coordinationChan)

-----------------------------------------------------------------------------
(* runCoordination *)

KnownPipelines == {pipelines[i] : i \in DOMAIN pipelines}

\* Mutant of AddUnlessKnown: the duplicate check is missing.
AddAgain(p) == pipelines' = Append(pipelines, p)

AddUnlessKnown(p) ==
  pipelines' = IF p \in KnownPipelines THEN pipelines
               ELSE Append(pipelines, p)

TakeMessage ==
  /\ coordination = "loop"
  /\ coordinationChan # <<>>
  /\ coordinationChan' = Tail(coordinationChan)
  /\ LET m == Head(coordinationChan) IN
       \/ /\ m.type = "addition"
          /\ AddUnlessKnown(m.pipeline)
          /\ UNCHANGED isRunning
       \/ /\ m.type = "running"
          /\ isRunning' = TRUE
          /\ UNCHANGED pipelines
  /\ UNCHANGED <<starter, added, workers, pipelineSelectChan, answer,
                 roundRobinCounter, coordination, outsideVars>>

\* Mutant of Selected: round robin forgotten, always the first pipeline.
SelectedFirst == pipelines[1]

Selected ==
  IF LoadBalancing = "round_robin"
  THEN pipelines[(roundRobinCounter % Len(pipelines)) + 1]
  ELSE pipelines[1]

Counted == IF LoadBalancing = "round_robin" THEN roundRobinCounter + 1
           ELSE roundRobinCounter

\* The answer always fits: responseChan is buffered and used once.
SelectPipeline ==
  /\ coordination = "loop"
  /\ pipelineSelectChan # <<>>
  /\ pipelineSelectChan' = Tail(pipelineSelectChan)
  /\ answer' = [answer EXCEPT ![Head(pipelineSelectChan)] = Append(@, Selected)]
  /\ roundRobinCounter' = Counted
  /\ UNCHANGED <<startVars, coordinationChan, coordination, isRunning, outsideVars>>

CoordinatorReturns ==
  /\ coordination = "loop"
  /\ coordination' = "exited"
  /\ UNCHANGED <<startVars, coordinationChan, pipelineSelectChan, answer,
                 roundRobinCounter, isRunning, outsideVars>>

\* Mutant of CoordinatorExits: it returns as soon as it finds nothing to do.
ExitsWhenIdle ==
  /\ cancelled \/ shutdown \/ coordinationChan \o pipelineSelectChan = <<>>
  /\ CoordinatorReturns

CoordinatorExits == (cancelled \/ shutdown) /\ CoordinatorReturns

-----------------------------------------------------------------------------
(* The end, from outside *)

Cancel ==
  /\ ~cancelled
  /\ cancelled' = TRUE
  /\ UNCHANGED <<startVars, coordinationChan, pipelineSelectChan, answer,
                 coordVars, shutdown>>

CloseShutdownChan ==
  /\ ~shutdown
  /\ shutdown' = TRUE
  /\ UNCHANGED <<startVars, coordinationChan, pipelineSelectChan, answer,
                 coordVars, cancelled>>

StarterStep ==
  \/ QueueAddition \/ ConfirmationTimeout \/ AddWithoutCoordination
  \/ NothingToStart \/ StartCoordinator
  \/ AskForPipeline \/ TakeAnswer \/ SelectionShutDown \/ AnnounceRunning

CoordinationStep == TakeMessage \/ SelectPipeline \/ CoordinatorExits

StartupNext == StarterStep \/ CoordinationStep \/ Cancel \/ CloseShutdownChan

\* The caller adds the next pipeline, or starts, when it pleases; what it has
\* begun goes on.
StartupFairness ==
  /\ WF_startupVars(starter # "adding" /\ StarterStep)
  /\ WF_startupVars(CoordinationStep)

StartupSpec == StartupInit /\ [][StartupNext]_startupVars /\ StartupFairness

-----------------------------------------------------------------------------
(* Properties *)

\* Although an addition that times out is made twice, once by AddPipeline and
\* once by the coordinator that later finds the message, o.pipelines is at
\* every moment exactly the pipelines added so far, in order.
PipelinesAsAdded == pipelines = SubSeq(ToAdd, 1, added)

\* With at least as many pipelines as workers no two workers share one, as
\* the comment on CreateSystem's loop asks (factory.go:139: "Each worker needs
\* its own pipeline with its own resultChan to avoid race conditions"): the
\* result channel of a shared pipeline would hand a worker the response of
\* another.  The least_busy selection of the default configuration breaks it.
PrivatePipelines ==
  Len(pipelines) >= NumWorkers =>
    \A i, j \in DOMAIN workers :
      workers[i] = workers[j] /\ workers[i] # NilPipeline => i = j

\* Round robin spreads the workers evenly over however many pipelines there are:
\* no pipeline serves two workers more than another when Start returns, so that
\* with a pipeline per worker each worker has its own; and only a closed
\* shutdownChan can leave a worker without a pipeline, which it would dereference
\* with its first request.  (Any other selection gives all workers the first
\* pipeline: this property says nothing of them.)
WorkersOf(p) == {i \in DOMAIN workers : workers[i] = p}
FairShares ==
  /\ LoadBalancing = "round_robin" /\ starter = "returned" /\ ~shutdown =>
       \A p, q \in KnownPipelines :
         Cardinality(WorkersOf(p)) <= Cardinality(WorkersOf(q)) + 1
  /\ (\E i \in DOMAIN workers : workers[i] = NilPipeline) => shutdown

\* A Start that has begun returns, as long as its context lives: every worker's
\* selection is answered, although the coordinator serves other messages as
\* well.  The coordinator then learns that the orchestrator runs and
\* SubmitRequest stops refusing, unless it is ended first: the announcement, a
\* non-blocking send, finds room for certain when the additions alone cannot
\* fill the channel.
StartReturns ==
  starter \in {"asking", "choosing", "announcing"}
    ~> \/ cancelled
       \/ /\ starter = "returned"
          /\ added < CoordSize => isRunning \/ coordination = "exited"
=============================================================================
