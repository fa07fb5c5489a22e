-------------------------- MODULE SystemLifecycle --------------------------
(***************************************************************************)
(* The AnalysisSystem (factory.go) from its creation to its end: Start     *)
(* registers three components with the system's CancellationCoordinator    *)
(* and starts the orchestrator, Stop lets the coordinator shut them down,  *)
(* cancels the context of the orchestrator and closes the clients.         *)
(*                                                                         *)
(* The orchestrator is its workers here; the module Orchestrator has the   *)
(* rest.  IDaesSubsystem.Stop calls Stop with a context it has cancelled   *)
(* already; tests call it with a live one.                                 *)
(***************************************************************************)
EXTENDS Cancellation

CONSTANTS
  SystemWorkers,  \* the orchestrator's workers; none if MaxWorkers is zero
  MaxStarts       \* bound: the calls of Start

ASSUME MaxStartsAssumption == MaxStarts \in Nat

VARIABLES
  system,          \* "none", "absent" (creation failed) or "created"
  starts,          \* calls of Start so far
  started,         \* calls of Start that have returned nil
  stop,            \* where Stop stands
  systemCancelled, \* the system context is cancelled
  worker           \* each worker of the orchestrator

systemVars == <<system, starts, started, stop, systemCancelled, worker>>
allSystemVars == <<systemVars, cancelVars>>

SystemComponents == {"analysis_orchestrator", "pipeline_stages", "storage_manager"}

SystemTypeOK ==
  /\ system \in {"none", "absent", "created"}
  /\ starts \in 0 .. MaxStarts /\ started \in 0 .. MaxStarts
  /\ stop \in {"new", "waiting", "waited", "cancelled", "closed"}
  /\ systemCancelled \in BOOLEAN
  /\ worker \in [SystemWorkers -> {"none", "idle", "busy", "ended"}]
  /\ registered \subseteq SystemComponents \cup {"pipeline_stages_analyzer"}

SystemInit ==
  /\ system = "none" /\ starts = 0 /\ started = 0
  /\ stop = "new" /\ systemCancelled = FALSE
  /\ worker = [w \in SystemWorkers |-> "none"]

-----------------------------------------------------------------------------

\* CreateFromConfig: clients that do not answer and a missing entity extractor
\* end the creation, missing citation and topic extractors do not.  The LLM, the
\* store and the extractor are tried in turn.
CreateSystem ==
  \E llm, store, entities \in BOOLEAN :
    /\ system = "none"
    /\ system' = IF llm /\ store /\ entities THEN "created" ELSE "absent"
    /\ UNCHANGED <<starts, started, stop, systemCancelled, worker, cancelVars>>

StartCalled ==
  /\ system = "created" /\ stop = "new"
  /\ starts < MaxStarts /\ starts' = starts + 1

\* The orchestrator is registered already, by a Start that succeeded or failed.
StartRefused ==
  /\ StartCalled
  /\ registered \cap SystemComponents # {}
  /\ UNCHANGED <<system, started, stop, systemCancelled, worker, cancelVars>>

\* Orchestrator.Start creates the workers, or fails for want of a pipeline; the
\* components stay registered then.
StartSystem ==
  /\ StartCalled
  /\ RegisterComponents(SystemComponents)
  /\ worker' = [w \in SystemWorkers |-> "idle"]
  /\ started' = IF SystemWorkers = {} THEN started ELSE started + 1
  /\ UNCHANGED <<system, stop, systemCancelled>>

-----------------------------------------------------------------------------
(* Stop *)

StopMoves(from, to) ==
  stop = from /\ stop' = to /\ UNCHANGED <<system, starts, started, worker>>

StopSystem ==
  /\ system = "created"
  /\ StopMoves("new", "waiting")
  /\ \E callerDone \in BOOLEAN : InitiateShutdown(callerDone)
  /\ UNCHANGED systemCancelled

\* WaitForShutdownCompletion; after its 30 seconds ForceShutdown finds the
\* shutdown initiated and does nothing.
WaitOver ==
  /\ StopMoves("waiting", "waited")
  /\ UNCHANGED <<systemCancelled, cancelVars>>

\* Mutant of CancelSystem: the end of the coordinator's work is taken for enough.
CancelSystemNot ==
  StopMoves("waited", "cancelled") /\ UNCHANGED <<systemCancelled, cancelVars>>

CancelSystem ==
  /\ StopMoves("waited", "cancelled")
  /\ systemCancelled' = TRUE
  /\ UNCHANGED cancelVars

\* closeRemainingComponents, whose errors are only logged.
CloseRemaining ==
  StopMoves("cancelled", "closed") /\ UNCHANGED <<systemCancelled, cancelVars>>

-----------------------------------------------------------------------------
(* The orchestrator's workers *)

WorkerGoes(w, from, to) ==
  /\ worker[w] = from
  /\ worker' = [worker EXCEPT ![w] = to]
  /\ UNCHANGED <<system, starts, started, stop, systemCancelled, cancelVars>>

\* Orchestrator.Stop has been called: it has closed the channels.
OrchestratorStopped == "analysis_orchestrator" \in DOMAIN stopping

TakesWork(w) == ~OrchestratorStopped /\ ~systemCancelled /\ WorkerGoes(w, "idle", "busy")
WorkDone(w)  == WorkerGoes(w, "busy", "idle")
WorkCancelled(w) == systemCancelled /\ WorkerGoes(w, "busy", "idle")
Ends(w) == (OrchestratorStopped \/ systemCancelled) /\ WorkerGoes(w, "idle", "ended")

AllEnded == \A w \in SystemWorkers : worker[w] \in {"none", "ended"}

\* Orchestrator.Stop waits for the workers; the pipeline and the storage manager
\* have nothing to stop.
ShutdownReturns ==
  /\ \/ AllEnded /\ ComponentStops("analysis_orchestrator", "ok")
     \/ ComponentTimesOut("analysis_orchestrator")
     \/ ComponentStops("pipeline_stages", "ok") \/ ComponentStops("storage_manager", "ok")
  /\ UNCHANGED systemVars

-----------------------------------------------------------------------------

\* What goes on by itself; a worker that is busy may stay so until the system
\* context is cancelled.
SystemStep ==
  \/ WaitOver \/ CancelSystem \/ CloseRemaining
  \/ \E w \in SystemWorkers : WorkCancelled(w) \/ Ends(w)
  \/ ShutdownReturns
  \/ system = "created" /\ CoordinatorStep /\ UNCHANGED systemVars

SystemNext ==
  \/ SystemStep
  \/ CreateSystem \/ StartRefused \/ StartSystem \/ StopSystem
  \/ \E w \in SystemWorkers : TakesWork(w) \/ WorkDone(w)

SystemFairness == WF_allSystemVars(SystemStep)
SystemSpec ==
  /\ SystemInit /\ CancelInit({})
  /\ [][SystemNext]_allSystemVars
  /\ SystemFairness

-----------------------------------------------------------------------------
(* Properties *)

\* However often Start is called, after failures too, the workers are created
\* once; and the coordinator never reports a shutdown of the orchestrator as
\* done while a worker goes on.
StartedOnce ==
  /\ started <= 1
  /\ \A k \in DOMAIN stopping :
       k = "analysis_orchestrator" /\ stopping[k] = "ok" => AllEnded

\* Stop ends, with a live context or one that is done, whatever the workers do,
\* and no worker survives it.
StopEndsWorkers == stop = "waiting" ~> stop = "closed" /\ AllEnded
=============================================================================
