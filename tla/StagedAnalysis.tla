--------------------------- MODULE StagedAnalysis ---------------------------
(***************************************************************************)
(* AnalyzeDocumentPipeline of the PipelineStagesAnalyzer                   *)
(* (pipeline_stages.go) with the contexts of its TimeoutManager: a call    *)
(* starts one goroutine per part of the analysis, collects what they       *)
(* send, and stores the whole.  The analyzer's own CancellationCoordinator *)
(* knows one component, the analyzer, whose Shutdown waits for a channel   *)
(* that nobody closes.                                                     *)
(*                                                                         *)
(* The context of a call does not derive from its caller's, unless that is *)
(* done already: a caller that gives up later is not noticed.              *)
(***************************************************************************)
EXTENDS Cancellation

CONSTANTS
  StageCalls,    \* the calls
  Parts,         \* what is extracted, "entity" among it
  StageConfigs,  \* the parts a request's configuration can enable
  Available      \* the parts for which choosing an extractor succeeds

ASSUME StageAssumption ==
  /\ IsFiniteSet(Parts) /\ "entity" \in Parts /\ "call" \notin Parts
  /\ StageConfigs \subseteq SUBSET Parts /\ Available \subseteq Parts

VARIABLES
  call,        \* where each call stands
  enabled,     \* the parts its configuration enables
  expired,     \* the 120 s of pipelineCtx are over, or it was born done
  stage,       \* the goroutine of each part
  box,         \* the result channel of each part, of capacity 1
  results,     \* what the call has taken out of them
  stored,      \* how far the storage stage got: document, then part by part
  early        \* calls that were tracked when the shutdown began

stageVars == <<call, enabled, expired, stage, box, results, stored, early>>
allStageVars == <<stageVars, cancelVars>>
callVars == <<expired, early>>

NoParts == [p \in Parts |-> "none"]

StageTypeOK ==
  /\ CancelTypeOK
  /\ call \in [StageCalls -> {"new", "checked", "collecting", "storing",
               "embedding", "refused", "stopped", "failed", "whole"}]
  /\ enabled \in [StageCalls -> SUBSET Parts]
  /\ expired \in [StageCalls -> BOOLEAN]
  /\ stage \in [StageCalls -> [Parts ->
               {"none", "started", "tracked", "extracting", "ended"}]]
  /\ box \in [StageCalls -> [Parts -> {"none", "empty", "ok", "failed"}]]
  /\ results \in [StageCalls -> [Parts -> {"none", "empty", "ok", "failed"}]]
  /\ stored \in [StageCalls -> 0 .. Cardinality(Parts) + 1]
  /\ early \subseteq StageCalls
  /\ tracked \subseteq StageCalls \X {"call", "entity"}

StageInit ==
  /\ call = [c \in StageCalls |-> "new"]
  /\ enabled = [c \in StageCalls |-> {}]
  /\ expired = [c \in StageCalls |-> FALSE]
  /\ stage = [c \in StageCalls |-> NoParts]
  /\ box = [c \in StageCalls |-> NoParts]
  /\ results = [c \in StageCalls |-> NoParts]
  /\ stored = [c \in StageCalls |-> 0]
  /\ early = {}

Answered == {"refused", "stopped", "failed", "whole"}
Returned(c) == call[c] \in Answered

\* pipelineCtx: its own timer, the root context, or the deferred cancel.
PipelineDone(c) == root \/ expired[c] \/ Returned(c)

-----------------------------------------------------------------------------
(* The call *)

CallGoes(c, from, to) == call[c] = from /\ call' = [call EXCEPT ![c] = to]

\* CreatePipelineContext, with a caller that has given up already or not, and
\* the check for a shutdown.
Begin(c) ==
  /\ CallGoes(c, "new", IF done THEN "refused" ELSE "checked")
  /\ \E callerDone \in BOOLEAN : expired' = [expired EXCEPT ![c] = callerDone]
  /\ UNCHANGED <<enabled, stage, box, results, stored, early, cancelVars>>

\* TrackGoroutine, and the fan-out; a part that is disabled sends nothing.
FanOut(c) ==
  \E on \in StageConfigs :
    /\ CallGoes(c, "checked", "collecting")
    /\ enabled' = [enabled EXCEPT ![c] = on]
    /\ stage' = [stage EXCEPT ![c] = [p \in Parts |-> IF p \in on THEN "started" ELSE "none"]]
    /\ box' = [box EXCEPT ![c] = [p \in Parts |-> IF p \in on THEN "none" ELSE "empty"]]
    /\ Track({<<c, "call">>})
    /\ UNCHANGED <<callVars, results, stored, shutdownVars>>

Collect(c) ==
  \E p \in Parts :
    /\ call[c] = "collecting" /\ box[c][p] # "none"
    /\ results' = [results EXCEPT ![c][p] = box[c][p]]
    /\ box' = [box EXCEPT ![c][p] = "none"]
    /\ UNCHANGED <<call, enabled, callVars, stage, stored, cancelVars>>

Collected(c) == \A p \in Parts : results[c][p] # "none"
AnyFailed(c) == \E p \in Parts : results[c][p] = "failed"

\* The call returns: it is no longer tracked, and its context is cancelled.
Returns(c, from, to) ==
  /\ CallGoes(c, from, to)
  /\ Untrack({<<c, "call">>})
  /\ UNCHANGED <<enabled, callVars, stage, box, results, shutdownVars>>

CollectStops(c) ==
  /\ ~Collected(c) /\ (PipelineDone(c) \/ done)
  /\ Returns(c, "collecting", "stopped")
  /\ UNCHANGED stored

CollectFails(c) ==
  /\ Collected(c) /\ AnyFailed(c)
  /\ Returns(c, "collecting", "failed")
  /\ UNCHANGED stored

\* The aggregated result goes to the storage stage, if results are stored.
Aggregate(c) ==
  /\ Collected(c) /\ ~AnyFailed(c)
  /\ CallGoes(c, "collecting", "storing") \/ CallGoes(c, "collecting", "embedding")
  /\ UNCHANGED <<enabled, callVars, stage, box, results, stored, cancelVars>>

\* The document, then the items of each part in turn; the first failure ends
\* the stage but not the call.
Store(c) ==
  /\ call[c] = "storing"
  /\ \/ /\ stored[c] <= Cardinality(enabled[c])
        /\ stored' = [stored EXCEPT ![c] = @ + 1]
        /\ UNCHANGED call
     \/ CallGoes(c, "storing", "embedding") /\ UNCHANGED stored
  /\ UNCHANGED <<enabled, callVars, stage, box, results, cancelVars>>

\* An embedding that fails is left out.
Embed(c) == Returns(c, "embedding", "whole") /\ UNCHANGED stored

-----------------------------------------------------------------------------
(* The extraction stages *)

StageGoes(c, p, from, to) ==
  /\ stage[c][p] = from
  /\ stage' = [stage EXCEPT ![c][p] = to]
  /\ UNCHANGED <<call, enabled, callVars, results, stored, shutdownVars>>

\* The result always finds room; an entity stage that was tracked no longer is.
Sends(c, p, from, result) ==
  /\ StageGoes(c, p, from, "ended")
  /\ box' = [box EXCEPT ![c][p] = result]
  /\ Untrack({<<c, p>>})

\* Only the entity stage is tracked.
EntityTracked(c) ==
  /\ StageGoes(c, "entity", "started", "tracked")
  /\ Track({<<c, "entity">>})
  /\ UNCHANGED box

Ready(p) == IF p = "entity" THEN "tracked" ELSE "started"

\* The shutdown seen by the entity stage, or no extractor.
Refuses(c, p) ==
  /\ (p = "entity" /\ done) \/ p \notin Available
  /\ Sends(c, p, Ready(p), "failed")

\* Mutant of Extracts: the entity stage does not look at the done channel.
ExtractsAlways(c, p) ==
  /\ p \in Available
  /\ StageGoes(c, p, Ready(p), "extracting")
  /\ UNCHANGED <<box, tracked>>

Extracts(c, p) ==
  /\ p \in Available /\ ~(p = "entity" /\ done)
  /\ StageGoes(c, p, Ready(p), "extracting")
  /\ UNCHANGED <<box, tracked>>

ExtractionSucceeds(c, p) == Sends(c, p, "extracting", "ok")
ExtractionFails(c, p)    == Sends(c, p, "extracting", "failed")

\* The extractor's context is done.  That of the entity stage has a timer of 30
\* seconds, and does not end with the call.
ExtractionCancelled(c, p) ==
  /\ p = "entity" \/ PipelineDone(c)
  /\ Sends(c, p, "extracting", "failed")

-----------------------------------------------------------------------------

Expires(c) ==
  /\ call[c] \in {"checked", "collecting"} /\ ~expired[c]
  /\ expired' = [expired EXCEPT ![c] = TRUE]
  /\ UNCHANGED <<call, enabled, stage, box, results, stored, early, cancelVars>>

StageShutdown ==
  /\ \E callerDone \in BOOLEAN : InitiateShutdown(callerDone)
  /\ early' = {c \in StageCalls : <<c, "call">> \in tracked}
  /\ UNCHANGED <<call, enabled, expired, stage, box, results, stored>>

\* The analyzer is the one component of its coordinator; its Shutdown waits for
\* doneChan.
AnalyzerCoordinatorStep ==
  /\ registered = {"pipeline_stages_analyzer"}
  /\ CoordinatorStep \/ ComponentTimesOut("pipeline_stages_analyzer")
  /\ UNCHANGED stageVars

CallSteps(c) ==
  \/ FanOut(c) \/ Collect(c) \/ CollectStops(c) \/ CollectFails(c) \/ Aggregate(c)
  \/ Store(c) \/ Embed(c)
PartSteps(c, p) == Refuses(c, p) \/ Extracts(c, p) \/ ExtractionCancelled(c, p)

\* What goes on by itself, timers of the shutdown and of the entity extraction
\* included, the timer of the call and the return of an extractor excluded.
StageStep ==
  \/ \E c \in StageCalls :
       CallSteps(c) \/ EntityTracked(c) \/ \E p \in Parts : PartSteps(c, p)
  \/ AnalyzerCoordinatorStep

StageNext ==
  \/ StageStep
  \/ \E c \in StageCalls :
       \/ Begin(c) \/ Expires(c)
       \/ \E p \in Parts : ExtractionSucceeds(c, p) \/ ExtractionFails(c, p)
  \/ StageShutdown

StageFairness == WF_allStageVars(StageStep)
StageSpec ==
  /\ StageInit /\ CancelInit({"pipeline_stages_analyzer"})
  /\ [][StageNext]_allStageVars
  /\ StageFairness

-----------------------------------------------------------------------------
(* Properties *)

\* An answer without an error holds every part that was asked for, and nothing
\* of a call is stored unless all of them were extracted.
AnswersAreWhole ==
  \A c \in StageCalls :
    call[c] = "whole" \/ stored[c] > 0 =>
      \A p \in Parts : results[c][p] = IF p \in enabled[c] THEN "ok" ELSE "empty"

\* When the coordinator reports that all goroutines are gone, every call it knew
\* has returned, and no entity extraction of such a call goes on, not even one
\* whose goroutine had not been tracked yet.
GoneMeansGone ==
  goroutines = "gone" =>
    \A c \in early : Returned(c) /\ stage[c]["entity"] # "extracting"

\* Whole answers, and a report of gone goroutines that is true.
StagesSound == StageTypeOK /\ AnswersAreWhole /\ GoneMeansGone

\* A shutdown releases every call, whatever its extractors do; it ends by its
\* timers although the analyzer's own Shutdown never does.
ShutdownReleases ==
  done ~> /\ coordinator = "finished"
          /\ \A c \in StageCalls : Returned(c) \/ call[c] = "new"
=============================================================================
