-------------------------- MODULE PipelineMetrics --------------------------
(***************************************************************************)
(* The PipelineMetrics of an AnalysisPipeline (pipeline.go): extraction    *)
(* goroutines record every use of an extractor, storage goroutines count   *)
(* the finished documents and average their durations.                     *)
(*                                                                         *)
(* recordExtractorUsage, recordError and updateProcessingTime hold the     *)
(* metrics' mutex; SuccessfulAnalyses++ and FailedAnalyses++ do not, so    *)
(* each of the two is a read and a later write, and one of two concurrent  *)
(* increments may be lost.                                                 *)
(***************************************************************************)
EXTENDS Integers, FiniteSets

CONSTANTS
  Docs,         \* the documents
  Extractions,  \* enabled extractions per document (0 .. 3)
  Storers,      \* storage goroutines of the pipeline (at most 2)
  Durations     \* the processing times a document can take

ASSUME ExtractionsAssumption == Extractions \in 0 .. 3
ASSUME StorersAssumption == Storers \in Nat
ASSUME DurationsAssumption == Durations \subseteq Nat \ {0}

VARIABLES
  doc,         \* where each document stands
  attempts,    \* extractions tried for each document
  errored,     \* whether a document collected an error
  seen,        \* the counter a storage goroutine read for each document
  total,       \* TotalAnalyses
  successful,  \* SuccessfulAnalyses
  failed,      \* FailedAnalyses
  average,     \* AverageProcessingTime
  taken,       \* the duration of each finished document
  panicked     \* an integer divide by zero has ended the process

docVars == <<doc, attempts, errored, seen>>
pipelineMetricsVars == <<docVars, total, successful, failed, average, taken, panicked>>

PipelineMetricsTypeOK ==
  /\ doc \in [Docs -> {"extracting", "counting", "done"}]
  /\ attempts \in [Docs -> 0 .. Extractions]
  /\ errored \in [Docs -> BOOLEAN]
  /\ seen \in [Docs -> Nat]
  /\ total \in Nat /\ successful \in Nat /\ failed \in Nat
  /\ average \in Nat
  /\ taken \in [Docs -> Durations \cup {0}]
  /\ panicked \in BOOLEAN

PipelineMetricsInit ==
  /\ doc = [d \in Docs |-> "extracting"]
  /\ attempts = [d \in Docs |-> 0]
  /\ errored = [d \in Docs |-> FALSE]
  /\ seen = [d \in Docs |-> 0]
  /\ total = 0 /\ successful = 0 /\ failed = 0 /\ average = 0
  /\ taken = [d \in Docs |-> 0]
  /\ panicked = FALSE

-----------------------------------------------------------------------------

Attempted(d) ==
  /\ doc[d] = "extracting"
  /\ attempts' = [attempts EXCEPT ![d] = @ + 1]
  /\ UNCHANGED <<doc, seen, successful, failed, average, taken, panicked>>

\* An extraction succeeds: it counts as one more analysis.
recordExtractorUsage(d) ==
  /\ attempts[d] < Extractions
  /\ Attempted(d)
  /\ total' = total + 1
  /\ UNCHANGED errored

recordError(d) ==
  /\ attempts[d] < Extractions
  /\ Attempted(d)
  /\ errored' = [errored EXCEPT ![d] = TRUE]
  /\ UNCHANGED total

Counting == {d \in Docs : doc[d] = "counting"}

Finalized(d, ok) ==
  /\ doc[d] = "extracting" /\ attempts[d] = Extractions
  /\ doc' = [doc EXCEPT ![d] = "counting"]
  /\ errored' = [errored EXCEPT ![d] = @ \/ ~ok]
  /\ seen' = [seen EXCEPT ![d] = IF errored'[d] THEN failed ELSE successful]
  /\ UNCHANGED <<attempts, total, successful, failed, average, taken, panicked>>

\* A storage goroutine finalizes the response, which storing may have failed,
\* and reads the counter it is going to increment.
Finalize(d) ==
  Cardinality(Counting) < Storers /\ \E ok \in BOOLEAN : Finalized(d, ok)

updatedAverage(t) ==
  IF total = 1 THEN t ELSE (average * (total - 1) + t) \div total

Done(d) ==
  /\ doc[d] = "counting"
  /\ doc' = [doc EXCEPT ![d] = "done"]
  /\ UNCHANGED <<attempts, errored, seen, total>>

CountFailed(d) ==
  /\ errored[d]
  /\ Done(d)
  /\ failed' = seen[d] + 1
  /\ UNCHANGED <<successful, average, taken, panicked>>

\* Mutant of CountSuccessful: a document that failed counts as successful too.
CountAlways(d) ==
  \E t \in Durations :
    /\ Done(d)
    /\ successful' = successful + 1
    /\ taken' = [taken EXCEPT ![d] = t]
    /\ UNCHANGED <<failed, average, panicked>>

CountSuccessful(d) ==
  \E t \in Durations :
    /\ ~errored[d]
    /\ Done(d)
    /\ successful' = seen[d] + 1
    /\ taken' = [taken EXCEPT ![d] = t]
    /\ IF total = 0
       THEN panicked' = TRUE /\ UNCHANGED average
       ELSE average' = updatedAverage(t) /\ UNCHANGED panicked
    /\ UNCHANGED failed

PipelineMetricsNext ==
  /\ ~panicked
  /\ \E d \in Docs :
       \/ recordExtractorUsage(d) \/ recordError(d) \/ Finalize(d)
       \/ CountFailed(d) \/ CountSuccessful(d)

PipelineMetricsSpec == PipelineMetricsInit /\ [][PipelineMetricsNext]_pipelineMetricsVars

-----------------------------------------------------------------------------
(* Properties *)

Faultless == {d \in Docs : doc[d] = "done" /\ ~errored[d]}
Faulty    == {d \in Docs : doc[d] = "done" /\ errored[d]}

\* Unsynchronised increments lose counts but never invent one, and they never
\* lose all of them.
CountsWhatFinished ==
  /\ successful <= Cardinality(Faultless)
  /\ failed <= Cardinality(Faulty)
  /\ Faultless # {} => successful > 0
  /\ Faulty # {} => failed > 0

Taken == {taken[d] : d \in Faultless}

\* The average, rounded down at every step, never exceeds the longest time.
AverageNotAboveLongest ==
  average > 0 => \E t \in Taken : average <= t

\* The average is divided by TotalAnalyses, which counts extractor uses: as long
\* as any extraction is enabled, a document without errors has counted one.
DivisorNotZero == Extractions > 0 => ~panicked

\* What the metrics of a pipeline promise although two of their counters are
\* incremented without the mutex.
MetricsTruthful ==
  PipelineMetricsTypeOK /\ CountsWhatFinished /\ AverageNotAboveLongest /\ DivisorNotZero
=============================================================================
