--------------------------- MODULE ProcessesProofs ---------------------------
(***************************************************************************)
(* Theorems about the components of MCProcesses.  They share no state that *)
(* the theorems relate, and each has its own section.                      *)
(***************************************************************************)
EXTENDS MCProcesses, TLAPS, FiniteSetTheorems, SequenceTheorems

-----------------------------------------------------------------------------
(* main: the inductive invariant *)

\* A context is done only after a signal or a failure; who returns the
\* context's error has seen it done.
ErrorsHaveCauses ==
  /\ groupDone => signal \/ groupError = "failure"
  /\ groupError # "none" => groupDone
  /\ watcher => groupDone
  /\ \A s \in Named : routine[s] = "stopping" => groupDone
  /\ exit = "zero" => signal

\* What is still to be created has no goroutine, and a Stop comes after Start.
StopAfterStart ==
  /\ \A i \in created + 1 .. Len(EnabledSubsystems) : routine[EnabledSubsystems[i]] = "none"
  /\ \A s \in Named : stopCall[s] # "none" => routine[s] \in {"stopping", "returned"}
  /\ \A s \in Named : s = "web" /\ stopCall[s] = "stopped" => server = "ended"

MainInv == ProcessTypeOK /\ ErrorsHaveCauses /\ StopAfterStart

LEMMA MainInit == ProcessInit => MainInv
<1> SUFFICES ASSUME ProcessInit PROVE MainInv
  OBVIOUS
<1>1. /\ Len(EnabledSubsystems) \in Nat
      /\ \A i \in 1 .. Len(EnabledSubsystems) : EnabledSubsystems[i] \in Named
  BY SubsystemsAssumption, LenProperties DEF Named
<1>2. ProcessTypeOK
  <2>1. created \in 0 .. Len(EnabledSubsystems)
    BY <1>1 DEF ProcessInit
  <2>2. /\ routine \in [Named -> {"none", "starting", "running", "stopping", "returned"}]
        /\ stopCall \in [Named -> {"none", "stopping", "waiting", "stopped"}]
    BY DEF ProcessInit
  <2> QED
    BY <2>1, <2>2 DEF ProcessInit, ProcessTypeOK
<1>3. ErrorsHaveCauses
  BY DEF ProcessInit, ErrorsHaveCauses
<1>4. \A i \in created + 1 .. Len(EnabledSubsystems) : routine[EnabledSubsystems[i]] = "none"
  <2> SUFFICES ASSUME NEW i \in created + 1 .. Len(EnabledSubsystems)
               PROVE routine[EnabledSubsystems[i]] = "none"
    OBVIOUS
  <2>1. i \in 1 .. Len(EnabledSubsystems)
    BY <1>1 DEF ProcessInit
  <2> QED
    BY <1>1, <2>1 DEF ProcessInit
<1> QED
  BY <1>2, <1>3, <1>4 DEF ProcessInit, MainInv, StopAfterStart

LEMMA MainStep == MainInv /\ [ProcessNext]_processVars => MainInv'
<1> SUFFICES ASSUME MainInv, [ProcessNext]_processVars PROVE MainInv'
  OBVIOUS
<1> USE DEF MainInv, ProcessTypeOK, ErrorsHaveCauses, StopAfterStart, Running
<1>0. /\ Len(EnabledSubsystems) \in Nat /\ DOMAIN EnabledSubsystems = 1 .. Len(EnabledSubsystems)
      /\ \A i \in 1 .. Len(EnabledSubsystems) : EnabledSubsystems[i] \in Named
      /\ \A i, j \in 1 .. Len(EnabledSubsystems) :
           EnabledSubsystems[i] = EnabledSubsystems[j] => i = j
  BY SubsystemsAssumption, LenProperties DEF Named
<1>1. CASE UNCHANGED processVars
  BY <1>1 DEF processVars
<1>2. CASE Launch
  BY <1>2 DEF Launch
<1>3. CASE Create
  <2> DEFINE s == EnabledSubsystems[created + 1]
  <2>1. /\ created + 1 \in 1 .. Len(EnabledSubsystems) /\ s \in Named
        /\ routine[s] = "none" /\ stopCall[s] = "none"
    BY <1>0, <1>3 DEF Create
  <2>2. \A i \in created + 2 .. Len(EnabledSubsystems) : EnabledSubsystems[i] # s
    BY <1>0, <2>1
  <2>3. /\ created' \in 0 .. Len(EnabledSubsystems) /\ created' \in {created, created + 1}
        /\ routine' \in [Named -> {"none", "starting", "running", "stopping", "returned"}]
        /\ \A r \in Named \ {s} : routine'[r] = routine[r]
        /\ created' = created => routine' = routine
        /\ routine'[s] \in {"none", "starting"}
    BY <1>0, <1>3, <2>1 DEF Create
  <2>4. StopAfterStart'
    <3>1. created \in Nat /\ created' \in Nat
      BY <1>0, <2>3
    <3>2. PICK k \in Nat : k = created'
      BY <3>1
    <3>3. PICK j \in Nat : j = created
      BY <3>1
    <3>4. k \in {j, j + 1}
      BY <2>3, <3>2, <3>3
    <3>5. ASSUME NEW i \in k + 1 .. Len(EnabledSubsystems)
          PROVE routine'[EnabledSubsystems[i]] = "none"
      <4>1. /\ i \in j + 1 .. Len(EnabledSubsystems) /\ i \in 1 .. Len(EnabledSubsystems)
            /\ k = j + 1 => i \in j + 2 .. Len(EnabledSubsystems)
        BY <1>0, <3>4
      <4>2. routine[EnabledSubsystems[i]] = "none" /\ EnabledSubsystems[i] \in Named
        BY <1>0, <3>3, <4>1
      <4>3. CASE k = j
        BY <2>3, <3>2, <3>3, <4>2, <4>3
      <4>4. CASE k = j + 1
        BY <2>2, <2>3, <3>3, <4>1, <4>2, <4>4
      <4> QED
        BY <3>4, <4>3, <4>4
    <3>6. \A i \in created' + 1 .. Len(EnabledSubsystems) : routine'[EnabledSubsystems[i]] = "none"
      BY <3>2, <3>5
    <3> QED
      BY <1>3, <2>1, <2>3, <3>6 DEF Create
  <2>5. ErrorsHaveCauses'
    BY <1>3, <2>1, <2>3 DEF Create
  <2> QED
    BY <1>3, <2>3, <2>4, <2>5 DEF Create
<1>4. CASE Finish
  BY <1>4 DEF Finish, GroupOver
<1>5. CASE SendSignal
  BY <1>5 DEF SendSignal
<1>6. CASE SignalSeen
  BY <1>6 DEF SignalSeen, Return
<1>7. CASE ServerStep
  BY <1>7 DEF ServerStep, MakeServer, Serve, ServeFails, ServerGoes
<1>8. CASE ShutdownServer
  BY <1>8 DEF ShutdownServer, StopCallGoes
<1>9. ASSUME NEW s \in Named, RoutineStep(s) PROVE MainInv'
  <2>0. \A i \in created + 1 .. Len(EnabledSubsystems) :
          routine[s] # "none" => EnabledSubsystems[i] # s
    OBVIOUS
  <2>1. CASE StartSucceeds(s)
    BY <1>0, <2>0, <2>1 DEF StartSucceeds, RoutineGoes
  <2>2. CASE SubsystemFails(s)
    <3>1. ProcessTypeOK' /\ ErrorsHaveCauses'
      BY <2>2 DEF SubsystemFails, RoutineGoes, Return
    <3>2. StopAfterStart'
      BY <1>0, <2>0, <2>2 DEF SubsystemFails, RoutineGoes
    <3> QED
      BY <3>1, <3>2
  <2>3. CASE LaunchStop(s)
    BY <1>0, <2>0, <2>3 DEF LaunchStop, RoutineGoes
  <2>4. CASE ShutdownOver(s)
    BY <1>0, <2>0, <2>4 DEF ShutdownOver, RoutineGoes, Return
  <2> QED
    BY <1>9, <2>1, <2>2, <2>3, <2>4 DEF RoutineStep
<1>10. ASSUME NEW s \in Named, StopReturns(s) PROVE MainInv'
  BY <1>10 DEF StopReturns, StopCallGoes
<1> QED
  BY <1>1, <1>2, <1>3, <1>4, <1>5, <1>6, <1>7, <1>8, <1>9, <1>10 DEF ProcessNext

\* Whatever the order of signals, failures and returning goroutines, an exit
\* code of zero follows a signal, a kept error has cancelled the context, and a
\* Stop of the web subsystem that returned has seen its server end (main,
\* errgroup).
THEOREM ExitIsTrue == ProcessSpec => [](ProcessTypeOK /\ ExitTellsTruth)
<1>1. MainInv => ProcessTypeOK /\ ExitTellsTruth
  BY DEF MainInv, ErrorsHaveCauses, StopAfterStart, ProcessTypeOK, ExitTellsTruth
<1> QED
  BY <1>1, MainInit, MainStep, PTL DEF ProcessSpec

-----------------------------------------------------------------------------
(* The metrics of a pipeline: the inductive invariant *)

\* A storage goroutine has read a count of documents that have finished by now;
\* a document without errors has counted every extraction it tried.
ReadCountsAreOld ==
  \A d \in Docs :
    /\ doc[d] = "counting" /\ errored[d] => seen[d] <= Cardinality(Faulty)
    /\ doc[d] = "counting" /\ ~errored[d] => seen[d] <= Cardinality(Faultless)
    /\ doc[d] # "extracting" => attempts[d] = Extractions
    /\ ~errored[d] /\ attempts[d] > 0 => total > 0

FinitelyManyFinished == IsFiniteSet(Faulty) /\ IsFiniteSet(Faultless)

MetricsInv ==
  /\ PipelineMetricsTypeOK /\ CountsWhatFinished /\ AverageNotAboveLongest
  /\ DivisorNotZero /\ ReadCountsAreOld /\ FinitelyManyFinished

LEMMA MetricsInit == PipelineMetricsInit => MetricsInv
<1> SUFFICES ASSUME PipelineMetricsInit PROVE MetricsInv
  OBVIOUS
<1>1. PipelineMetricsTypeOK
  <2>1. 0 \in 0 .. Extractions
    BY ExtractionsAssumption
  <2>2. attempts \in [Docs -> 0 .. Extractions] /\ seen \in [Docs -> Nat]
    BY <2>1 DEF PipelineMetricsInit
  <2>3. errored \in [Docs -> BOOLEAN] /\ taken \in [Docs -> Durations \cup {0}]
    BY DEF PipelineMetricsInit
  <2> QED
    BY <2>2, <2>3 DEF PipelineMetricsInit, PipelineMetricsTypeOK
<1>2. Faulty = {} /\ Faultless = {}
  BY DEF PipelineMetricsInit, Faultless, Faulty
<1>3. IsFiniteSet({}) /\ Cardinality({}) = 0
  BY FS_EmptySet
<1>4. CountsWhatFinished /\ FinitelyManyFinished
  <2>1. Cardinality(Faulty) = 0 /\ Cardinality(Faultless) = 0
    BY <1>2, <1>3
  <2>2. FinitelyManyFinished
    BY <1>2, <1>3 DEF FinitelyManyFinished
  <2>3. successful = 0 /\ failed = 0
    BY DEF PipelineMetricsInit
  <2> QED
    BY <1>2, <2>1, <2>2, <2>3 DEF CountsWhatFinished
<1> QED
  BY <1>1, <1>4 DEF PipelineMetricsInit, MetricsInv, AverageNotAboveLongest, DivisorNotZero,
                    ReadCountsAreOld

\* A weighted mean, rounded down, does not exceed a bound of both its parts.
LEMMA MeanBelow ==
  ASSUME NEW a \in Nat, NEW t \in Nat, NEW m \in Nat, NEW n \in Nat \ {0}, a <= m, t <= m
  PROVE  (a * (n - 1) + t) \div n \in Nat /\ (a * (n - 1) + t) \div n <= m
<1>1. a * (n - 1) <= m * (n - 1)
  OBVIOUS
<1>2. a * (n - 1) + t <= m * n
  BY <1>1
<1>3. (m * n) \div n = m
  OBVIOUS
<1>4. a * (n - 1) + t \in Nat
  OBVIOUS
<1> QED
  BY <1>2, <1>3, <1>4

\* Before a document is counted, only what is recorded about it changes.
LEMMA RecordStep ==
  ASSUME MetricsInv, NEW d \in Docs, recordExtractorUsage(d) \/ recordError(d)
  PROVE  MetricsInv'
<1>0. /\ PipelineMetricsTypeOK /\ doc[d] = "extracting" /\ attempts[d] < Extractions
      /\ doc' = doc /\ seen' = seen /\ taken' = taken /\ successful' = successful
      /\ failed' = failed /\ average' = average /\ panicked' = panicked
      /\ attempts' = [attempts EXCEPT ![d] = @ + 1]
      /\ \/ total' = total + 1 /\ errored' = errored
         \/ total' = total /\ errored' = [errored EXCEPT ![d] = TRUE]
  BY DEF MetricsInv, recordExtractorUsage, recordError, Attempted
<1>1. PipelineMetricsTypeOK'
  <2>1. attempts' \in [Docs -> 0 .. Extractions]
    <3>1. attempts[d] + 1 \in 0 .. Extractions
      BY <1>0, ExtractionsAssumption DEF PipelineMetricsTypeOK
    <3> QED
      BY <1>0, <3>1 DEF PipelineMetricsTypeOK
  <2>2. errored' \in [Docs -> BOOLEAN]
    BY <1>0 DEF PipelineMetricsTypeOK
  <2>3. total' \in Nat
    BY <1>0 DEF PipelineMetricsTypeOK
  <2> QED
    BY <1>0, <2>1, <2>2, <2>3 DEF PipelineMetricsTypeOK
<1>2. Faulty' = Faulty /\ Faultless' = Faultless
  BY <1>0 DEF PipelineMetricsTypeOK, Faultless, Faulty
<1>3. Taken' = Taken
  BY <1>0, <1>2 DEF Taken
<1>4. CountsWhatFinished' /\ FinitelyManyFinished' /\ AverageNotAboveLongest' /\ DivisorNotZero'
  BY <1>0, <1>2, <1>3 DEF MetricsInv, CountsWhatFinished, FinitelyManyFinished,
                          AverageNotAboveLongest, DivisorNotZero
<1>5. ReadCountsAreOld'
  <2> SUFFICES ASSUME NEW e \in Docs
               PROVE  /\ doc'[e] = "counting" /\ errored'[e] =>
                           seen'[e] <= Cardinality(Faulty')
                      /\ doc'[e] = "counting" /\ ~errored'[e] =>
                           seen'[e] <= Cardinality(Faultless')
                      /\ doc'[e] # "extracting" => attempts'[e] = Extractions
                      /\ ~errored'[e] /\ attempts'[e] > 0 => total' > 0
    BY DEF ReadCountsAreOld
  <2>1. CASE e = d
    <3>1. attempts[d] \in Nat /\ attempts'[d] = attempts[d] + 1 /\ total \in Nat
      BY <1>0, ExtractionsAssumption DEF PipelineMetricsTypeOK
    <3>2. doc'[d] = "extracting"
      BY <1>0
    <3>3. ~errored'[d] => total' = total + 1
      BY <1>0 DEF PipelineMetricsTypeOK
    <3> QED
      BY <2>1, <3>1, <3>2, <3>3
  <2>2. CASE e # d
    <3>1. attempts'[e] = attempts[e] /\ errored'[e] = errored[e] /\ doc'[e] = doc[e]
      BY <1>0, <2>2 DEF PipelineMetricsTypeOK
    <3>2. total' \in {total, total + 1} /\ total \in Nat
      BY <1>0 DEF PipelineMetricsTypeOK
    <3>3. /\ doc[e] = "counting" /\ errored[e] => seen[e] <= Cardinality(Faulty)
          /\ doc[e] = "counting" /\ ~errored[e] => seen[e] <= Cardinality(Faultless)
          /\ doc[e] # "extracting" => attempts[e] = Extractions
          /\ ~errored[e] /\ attempts[e] > 0 => total > 0
      BY DEF MetricsInv, ReadCountsAreOld
    <3> QED
      BY <1>0, <1>2, <3>1, <3>2, <3>3
  <2> QED
    BY <2>1, <2>2
<1> QED
  BY <1>1, <1>4, <1>5 DEF MetricsInv

\* The counter a storage goroutine reads is no larger than the number of
\* documents that have finished.
LEMMA FinalizeStep ==
  ASSUME MetricsInv, NEW d \in Docs, NEW ok \in BOOLEAN, Finalized(d, ok)
  PROVE  MetricsInv'
<1>0. /\ PipelineMetricsTypeOK /\ doc[d] = "extracting" /\ attempts[d] = Extractions
      /\ doc' = [doc EXCEPT ![d] = "counting"]
      /\ seen' = [seen EXCEPT ![d] = IF errored'[d] THEN failed ELSE successful]
      /\ taken' = taken /\ successful' = successful /\ failed' = failed
      /\ average' = average /\ panicked' = panicked /\ attempts' = attempts /\ total' = total
      /\ errored' \in [Docs -> BOOLEAN] /\ (errored[d] => errored'[d])
      /\ \A e \in Docs \ {d} : errored'[e] = errored[e]
  BY DEF MetricsInv, Finalized, PipelineMetricsTypeOK
<1>1. PipelineMetricsTypeOK'
  BY <1>0 DEF PipelineMetricsTypeOK
<1>2. Faulty' = Faulty /\ Faultless' = Faultless
  BY <1>0 DEF PipelineMetricsTypeOK, Faulty, Faultless
<1>3. Taken' = Taken
  BY <1>0, <1>2 DEF Taken
<1>4. CountsWhatFinished' /\ FinitelyManyFinished' /\ AverageNotAboveLongest' /\ DivisorNotZero'
  BY <1>0, <1>2, <1>3 DEF MetricsInv, CountsWhatFinished, FinitelyManyFinished,
                          AverageNotAboveLongest, DivisorNotZero
<1>5. ReadCountsAreOld'
  <2> SUFFICES ASSUME NEW e \in Docs
               PROVE  /\ doc'[e] = "counting" /\ errored'[e] => seen'[e] <= Cardinality(Faulty')
                      /\ doc'[e] = "counting" /\ ~errored'[e] => seen'[e] <= Cardinality(Faultless')
                      /\ doc'[e] # "extracting" => attempts'[e] = Extractions
                      /\ ~errored'[e] /\ attempts'[e] > 0 => total' > 0
    BY DEF ReadCountsAreOld
  <2>1. CASE e = d
    <3>1. /\ errored'[d] => seen'[d] = failed
          /\ ~errored'[d] => seen'[d] = successful
      BY <1>0 DEF PipelineMetricsTypeOK
    <3>2. ~errored'[d] /\ attempts'[d] > 0 => total' > 0
      BY <1>0 DEF MetricsInv, ReadCountsAreOld
    <3>3. successful <= Cardinality(Faultless) /\ failed <= Cardinality(Faulty)
      BY DEF MetricsInv, CountsWhatFinished
    <3> QED
      BY <1>0, <1>2, <2>1, <3>1, <3>2, <3>3
  <2>2. CASE e # d
    BY <1>0, <1>2, <2>2 DEF MetricsInv, ReadCountsAreOld, PipelineMetricsTypeOK
  <2> QED
    BY <2>1, <2>2
<1> QED
  BY <1>1, <1>4, <1>5 DEF MetricsInv

\* One more document has finished: the count that is written was read before.
LEMMA CountFailedStep ==
  ASSUME MetricsInv, NEW d \in Docs, CountFailed(d)
  PROVE  MetricsInv'
<1>0. /\ PipelineMetricsTypeOK /\ errored[d] /\ doc[d] = "counting"
      /\ doc' = [doc EXCEPT ![d] = "done"] /\ failed' = seen[d] + 1
      /\ seen' = seen /\ taken' = taken /\ successful' = successful
      /\ average' = average /\ panicked' = panicked /\ attempts' = attempts /\ total' = total
      /\ errored' = errored
  BY DEF MetricsInv, CountFailed, Done
<1>1. PipelineMetricsTypeOK'
  BY <1>0 DEF PipelineMetricsTypeOK
<1>2. Faulty' = Faulty \cup {d} /\ d \notin Faulty /\ Faultless' = Faultless
  BY <1>0 DEF PipelineMetricsTypeOK, Faulty, Faultless
<1>3. /\ IsFiniteSet(Faulty') /\ Cardinality(Faulty') = Cardinality(Faulty) + 1
      /\ Cardinality(Faulty) \in Nat
  BY <1>2, FS_AddElement, FS_CardinalityType DEF MetricsInv, FinitelyManyFinished
<1>4. seen[d] <= Cardinality(Faulty) /\ seen[d] \in Nat
  BY <1>0 DEF MetricsInv, ReadCountsAreOld, PipelineMetricsTypeOK
<1>5. Taken' = Taken
  BY <1>0, <1>2 DEF Taken
<1>6. CountsWhatFinished' /\ FinitelyManyFinished' /\ AverageNotAboveLongest' /\ DivisorNotZero'
  BY <1>0, <1>2, <1>3, <1>4, <1>5 DEF MetricsInv, CountsWhatFinished, FinitelyManyFinished,
                          AverageNotAboveLongest, DivisorNotZero
<1>7. ReadCountsAreOld'
  BY <1>0, <1>2, <1>3 DEF MetricsInv, ReadCountsAreOld, PipelineMetricsTypeOK
<1> QED
  BY <1>1, <1>6, <1>7 DEF MetricsInv

LEMMA CountSuccessfulStep ==
  ASSUME MetricsInv, NEW d \in Docs, CountSuccessful(d)
  PROVE  MetricsInv'
<1>0. PICK t \in Durations :
      /\ PipelineMetricsTypeOK /\ ~errored[d] /\ doc[d] = "counting"
      /\ doc' = [doc EXCEPT ![d] = "done"] /\ successful' = seen[d] + 1
      /\ taken' = [taken EXCEPT ![d] = t]
      /\ seen' = seen /\ failed' = failed /\ attempts' = attempts /\ total' = total
      /\ errored' = errored
      /\ IF total = 0 THEN panicked' = TRUE /\ average' = average
                      ELSE average' = updatedAverage(t) /\ panicked' = panicked
  BY DEF MetricsInv, CountSuccessful, Done
<1>1. t \in Nat \ {0} /\ average \in Nat /\ total \in Nat
  BY <1>0, DurationsAssumption DEF PipelineMetricsTypeOK
<1>2. Faultless' = Faultless \cup {d} /\ d \notin Faultless /\ Faulty' = Faulty
  BY <1>0 DEF PipelineMetricsTypeOK, Faulty, Faultless
<1>3. /\ IsFiniteSet(Faultless') /\ Cardinality(Faultless') = Cardinality(Faultless) + 1
      /\ Cardinality(Faultless) \in Nat
  BY <1>2, FS_AddElement, FS_CardinalityType DEF MetricsInv, FinitelyManyFinished
<1>4. seen[d] <= Cardinality(Faultless) /\ seen[d] \in Nat
  BY <1>0 DEF MetricsInv, ReadCountsAreOld, PipelineMetricsTypeOK
<1>5. t \in Taken' /\ \A u \in Taken : u \in Taken'
  BY <1>0, <1>2 DEF Taken, PipelineMetricsTypeOK, Faultless
<1>6. /\ average' \in Nat
      /\ average' > 0 => average' <= average \/ average' <= t
  <2>1. CASE total = 0
    BY <1>0, <1>1, <2>1
  <2>2. CASE total = 1
    BY <1>0, <1>1, <2>2 DEF updatedAverage
  <2>3. CASE total > 1
    <3>1. average' = (average * (total - 1) + t) \div total
      BY <1>0, <1>1, <2>3 DEF updatedAverage
    <3>2. PICK m \in {average, t} : average <= m /\ t <= m
      BY <1>1
    <3> QED
      BY <1>1, <2>3, <3>1, <3>2, MeanBelow
  <2> QED
    BY <1>1, <2>1, <2>2, <2>3
<1>7. PipelineMetricsTypeOK'
  <2>1. /\ taken' \in [Docs -> Durations \cup {0}]
        /\ doc' \in [Docs -> {"extracting", "counting", "done"}]
    BY <1>0 DEF PipelineMetricsTypeOK
  <2>2. successful' \in Nat
    BY <1>0, <1>4
  <2>3. panicked' \in BOOLEAN
    BY <1>0 DEF PipelineMetricsTypeOK
  <2> QED
    BY <1>0, <1>6, <2>1, <2>2, <2>3 DEF PipelineMetricsTypeOK
<1>8. AverageNotAboveLongest'
  <2> SUFFICES ASSUME average' > 0 PROVE \E u \in Taken' : average' <= u
    BY DEF AverageNotAboveLongest
  <2>1. CASE average' <= t
    BY <1>5, <2>1
  <2>2. CASE average' <= average
    <3>1. PICK u \in Taken : average <= u
      BY <1>1, <1>6, <2>2 DEF MetricsInv, AverageNotAboveLongest
    <3>2. u \in Nat
      <4>1. \A e \in Docs : taken[e] \in Durations \cup {0}
        BY <1>0 DEF PipelineMetricsTypeOK
      <4>2. Durations \cup {0} \subseteq Nat
        BY DurationsAssumption
      <4> QED
        BY <3>1, <4>1, <4>2 DEF Taken, Faultless
    <3> QED
      BY <1>1, <1>5, <1>6, <2>2, <3>1, <3>2
  <2> QED
    BY <1>6, <2>1, <2>2
<1>9. DivisorNotZero'
  <2>1. attempts[d] = Extractions /\ (attempts[d] > 0 => total > 0)
    BY <1>0 DEF MetricsInv, ReadCountsAreOld
  <2>2. Extractions > 0 => total # 0
    BY <1>1, <2>1
  <2> QED
    BY <1>0, <2>2 DEF MetricsInv, DivisorNotZero
<1>10. CountsWhatFinished' /\ FinitelyManyFinished'
  BY <1>0, <1>2, <1>3, <1>4 DEF MetricsInv, CountsWhatFinished, FinitelyManyFinished
<1>11. ReadCountsAreOld'
  BY <1>0, <1>2, <1>3 DEF MetricsInv, ReadCountsAreOld, PipelineMetricsTypeOK
<1> QED
  BY <1>7, <1>8, <1>9, <1>10, <1>11 DEF MetricsInv

LEMMA MetricsStep == MetricsInv /\ [PipelineMetricsNext]_pipelineMetricsVars => MetricsInv'
<1> SUFFICES ASSUME MetricsInv, [PipelineMetricsNext]_pipelineMetricsVars PROVE MetricsInv'
  OBVIOUS
<1>1. CASE UNCHANGED pipelineMetricsVars
  BY <1>1 DEF pipelineMetricsVars, docVars, MetricsInv, PipelineMetricsTypeOK, CountsWhatFinished,
       AverageNotAboveLongest, Taken, DivisorNotZero, ReadCountsAreOld, FinitelyManyFinished,
       Faulty, Faultless
<1>2. CASE PipelineMetricsNext
  BY <1>2, RecordStep, FinalizeStep, CountFailedStep, CountSuccessfulStep
     DEF PipelineMetricsNext, Finalize
<1> QED
  BY <1>1, <1>2

\* Though two counters are incremented without the mutex, no count exceeds the
\* documents that finished so nor is zero once there is one, the average never
\* exceeds the longest duration, and it is never divided by zero as long as any
\* extraction is enabled (recordExtractorUsage, updateProcessingTime).
THEOREM MetricsAreTruthful == PipelineMetricsSpec => []MetricsTruthful
<1>1. MetricsInv => MetricsTruthful
  BY DEF MetricsInv, MetricsTruthful
<1> QED
  BY <1>1, MetricsInit, MetricsStep, PTL DEF PipelineMetricsSpec

-----------------------------------------------------------------------------
(* The broadcaster: the inductive invariant *)

\* Serve goes down the slice: who stands behind index has the event it took.
Missing(i) == IF i <= index THEN 1 ELSE 0
ListenersInStep ==
  /\ \A i \in DOMAIN listeners :
       joined[listeners[i]] + Len(delivered[listeners[i]]) + Missing(i) = served
  /\ \A i, j \in DOMAIN listeners : listeners[i] = listeners[j] => i = j
  /\ serve # "broadcasting" => index = 0
  /\ index <= Len(listeners)

\* A listener has been added, and is not closed; one that is still to be added
\* has been given nothing.
Listening(s) == \E i \in DOMAIN listeners : listeners[i] = s
ListenersJoined ==
  \A s \in Subscribers :
    /\ Listening(s) => subscriber[s] \in {"added", "removing"} /\ closings[s] = 0
    /\ subscriber[s] \in {"new", "adding"} => delivered[s] = <<>> /\ closings[s] = 0
    /\ closings[s] <= 1

DeliveredInOrder ==
  \A s \in Subscribers :
    \A i \in 1 .. Len(delivered[s]) : delivered[s][i] = joined[s] + i

BroadcastInv == BroadcastTypeOK /\ ListenersInStep /\ ListenersJoined /\ DeliveredInOrder

LEMMA BroadcastStart == BroadcastInit => BroadcastInv
<1> SUFFICES ASSUME BroadcastInit PROVE BroadcastInv
  OBVIOUS
<1>0. /\ EventCapacity \in Nat \ {0} /\ ListenerCapacity \in Nat \ {0} /\ MaxTicks \in Nat
      /\ 0 \in 0 .. ListenerCapacity /\ 0 \in 0 .. MaxTicks
  BY BroadcastAssumption
<1>1. /\ <<>> \in Seq(Subscribers) /\ <<>> \in Seq(Nat) /\ Len(<<>>) = 0
      /\ DOMAIN listeners = {}
  BY EmptySeq DEF BroadcastInit
<1>2. /\ delivered \in [Subscribers -> Seq(Nat)] /\ joined \in [Subscribers -> Nat]
      /\ unread \in [Subscribers -> 0 .. ListenerCapacity] /\ closings \in [Subscribers -> Nat]
  BY <1>0, <1>1 DEF BroadcastInit
<1>3. /\ subscriber \in [Subscribers -> {"new", "adding", "added", "removing", "removed"}]
      /\ submitter \in [Submitters -> {"new", "sending", "sent"}]
  BY DEF BroadcastInit
<1>4. /\ emitted \in Nat /\ served \in 0 .. emitted /\ emitted - served <= EventCapacity
      /\ index \in 0 .. Len(listeners) + 1 /\ listeners \in Seq(Subscribers) /\ ticks \in 0 .. MaxTicks
  BY <1>0, <1>1 DEF BroadcastInit
<1>5. BroadcastTypeOK
  BY <1>2, <1>3, <1>4 DEF BroadcastInit, BroadcastTypeOK
<1>6. ListenersInStep
  BY <1>1 DEF BroadcastInit, ListenersInStep
<1>7. ListenersJoined /\ DeliveredInOrder
  BY <1>1 DEF BroadcastInit, ListenersJoined, Listening, DeliveredInOrder
<1> QED
  BY <1>5, <1>6, <1>7 DEF BroadcastInv

\* The steps that do not touch the listeners.
LEMMA AroundStep ==
  ASSUME BroadcastInv,
         /\ listeners' = listeners /\ joined' = joined /\ delivered' = delivered
         /\ closings' = closings /\ index' = index /\ served' = served
         /\ \/ serve' = serve
            \/ index = 0 /\ serve' = "loop",
         BroadcastTypeOK',
         \A s \in Subscribers : \/ subscriber'[s] = subscriber[s]
                                \/ subscriber[s] = "new" /\ subscriber'[s] = "adding"
                                \/ subscriber[s] = "added" /\ subscriber'[s] = "removing"
  PROVE  BroadcastInv'
<1>1. ListenersInStep'
  BY DEF BroadcastInv, ListenersInStep, Missing
<1>2. \A s \in Subscribers : Listening(s)' <=> Listening(s)
  BY DEF Listening
<1>3. ListenersJoined'
  BY <1>2 DEF BroadcastInv, ListenersJoined
<1>4. DeliveredInOrder'
  BY DEF BroadcastInv, DeliveredInOrder
<1> QED
  BY <1>1, <1>3, <1>4 DEF BroadcastInv

LEMMA SourceStep ==
  ASSUME BroadcastInv,
         \/ \E r \in Submitters : SubmitRequest(r) \/ SendEvent(r)
         \/ Tick \/ SendTick \/ CollectorEnds \/ StopMetrics \/ StopOver \/ CancelMetrics
         \/ \E s \in Subscribers : Subscribe(s) \/ Unsubscribe(s) \/ Read(s)
         \/ BroadcastOver \/ UNCHANGED broadcastVars
  PROVE  BroadcastInv'
<1> USE BroadcastAssumption DEF BroadcastInv, BroadcastTypeOK, subscriberVars, sourceVars, endVars
<1>0. ASSUME Emit
      PROVE  emitted' \in Nat /\ served \in 0 .. emitted' /\ emitted' - served <= EventCapacity
  BY <1>0 DEF Emit
<1>1. ASSUME NEW r \in Submitters, SubmitRequest(r) \/ SendEvent(r)
      PROVE  BroadcastInv'
  <2>1. submitter' \in [Submitters -> {"new", "sending", "sent"}]
    BY <1>1 DEF SubmitRequest, SendEvent
  <2>2. CASE SubmitRequest(r)
    BY <2>1, <2>2, AroundStep DEF SubmitRequest
  <2>3. CASE SendEvent(r)
    BY <1>0, <2>1, <2>3, AroundStep DEF SendEvent
  <2> QED
    BY <1>1, <2>2, <2>3
<1>2. CASE Tick \/ SendTick \/ CollectorEnds
  <2>1. CASE Tick
    <3>1. ticks' \in 0 .. MaxTicks
      BY <2>1 DEF Tick
    <3> QED
      BY <2>1, <3>1, AroundStep DEF Tick, CollectorGoes
  <2>2. CASE SendTick
    BY <1>0, <2>2, AroundStep DEF SendTick, CollectorGoes
  <2>3. CASE CollectorEnds
    BY <2>3, AroundStep DEF CollectorEnds, CollectorGoes
  <2> QED
    BY <1>2, <2>1, <2>2, <2>3
<1>3. CASE StopMetrics \/ StopOver \/ CancelMetrics
  BY <1>3, AroundStep DEF StopMetrics, StopOver, CancelMetrics
<1>4. CASE \E s \in Subscribers : Subscribe(s) \/ Unsubscribe(s)
  BY <1>4, AroundStep DEF Subscribe, Unsubscribe, Asks
<1>5. CASE \E s \in Subscribers : Read(s)
  <2>1. unread' \in [Subscribers -> 0 .. ListenerCapacity]
    BY <1>5 DEF Read
  <2> QED
    BY <1>5, <2>1, AroundStep DEF Read
<1>6. CASE BroadcastOver
  BY <1>6, AroundStep DEF BroadcastOver
<1>7. CASE UNCHANGED broadcastVars
  BY <1>7, AroundStep DEF broadcastVars
<1> QED
  BY <1>1, <1>2, <1>3, <1>4, <1>5, <1>6, <1>7

LEMMA AddListenerStep ==
  ASSUME BroadcastInv, NEW s \in Subscribers, AddListener(s)
  PROVE  BroadcastInv'
<1>0. /\ BroadcastTypeOK /\ serve = "loop" /\ subscriber[s] = "adding" /\ index = 0
      /\ subscriber' = [subscriber EXCEPT ![s] = "added"]
      /\ joined' = [joined EXCEPT ![s] = served]
      /\ delivered' = delivered /\ unread' = unread /\ closings' = closings
      /\ serve' = serve /\ index' = index /\ served' = served
      /\ ~Listening(s) /\ delivered[s] = <<>> /\ closings[s] = 0
  BY DEF AddListener, BroadcastInv, ListenersInStep, ListenersJoined
<1>1. PICK n \in Nat : n = Len(listeners) /\ DOMAIN listeners = 1 .. n
  BY <1>0, LenProperties DEF BroadcastTypeOK
<1>2. /\ listeners' \in Seq(Subscribers) /\ Len(listeners') = n + 1
      /\ DOMAIN listeners' = 1 .. n + 1
      /\ \A i \in 1 .. n : listeners'[i] = listeners[i]
      /\ listeners'[n + 1] = s
  BY <1>0, <1>1, AppendProperties, LenProperties DEF AddListener, BroadcastTypeOK
<1>3. \A i \in 1 .. n : listeners[i] \in Subscribers \ {s}
  BY <1>0, <1>1, ElementOfSeq DEF Listening, BroadcastTypeOK
<1>4. BroadcastTypeOK'
  <2>1. joined' \in [Subscribers -> Nat]
    BY <1>0 DEF BroadcastTypeOK
  <2>2. subscriber' \in [Subscribers -> {"new", "adding", "added", "removing", "removed"}]
    BY <1>0 DEF BroadcastTypeOK
  <2>3. index' \in 0 .. Len(listeners') + 1
    BY <1>0, <1>2
  <2> QED
    BY <1>0, <1>2, <2>1, <2>2, <2>3 DEF BroadcastTypeOK, AddListener, sourceVars, endVars
<1>5. ListenersInStep'
  <2>1. \A i \in 1 .. n + 1 : joined'[listeners'[i]] + Len(delivered[listeners'[i]]) = served
    <3> SUFFICES ASSUME NEW i \in 1 .. n + 1
                 PROVE joined'[listeners'[i]] + Len(delivered[listeners'[i]]) = served
      OBVIOUS
    <3>1. CASE i = n + 1
      <4>1. joined'[s] = served /\ Len(delivered[s]) = 0 /\ served \in Nat
        BY <1>0, EmptySeq DEF BroadcastTypeOK
      <4> QED
        BY <1>2, <3>1, <4>1
    <3>2. CASE i \in 1 .. n
      <4>1. joined'[listeners[i]] = joined[listeners[i]]
        BY <1>0, <1>3, <3>2 DEF BroadcastTypeOK
      <4>2. joined[listeners[i]] + Len(delivered[listeners[i]]) = served
        <5>1. /\ joined[listeners[i]] \in Nat /\ Len(delivered[listeners[i]]) \in Nat
              /\ Missing(i) = 0
          BY <1>0, <1>3, <3>2, LenProperties DEF BroadcastTypeOK, Missing
        <5>2. joined[listeners[i]] + Len(delivered[listeners[i]]) + Missing(i) = served
          BY <1>1, <3>2 DEF BroadcastInv, ListenersInStep
        <5> QED
          BY <5>1, <5>2
      <4> QED
        BY <1>2, <3>2, <4>1, <4>2
    <3> QED
      BY <3>1, <3>2
  <2>2. \A i \in 1 .. n + 1 : /\ joined'[listeners'[i]] + Len(delivered'[listeners'[i]]) \in Nat
                              /\ Missing(i)' = 0
    BY <1>0, <2>1 DEF Missing, BroadcastTypeOK
  <2>3. \A i \in 1 .. n + 1 :
          joined'[listeners'[i]] + Len(delivered'[listeners'[i]]) + Missing(i)' = served'
    BY <1>0, <2>1, <2>2
  <2>4. \A i, j \in 1 .. n + 1 : listeners'[i] = listeners'[j] => i = j
    <3>1. \A i, j \in 1 .. n : listeners[i] = listeners[j] => i = j
      BY <1>1 DEF BroadcastInv, ListenersInStep
    <3> QED
      BY <1>2, <1>3, <3>1
  <2> QED
    BY <1>0, <1>2, <2>3, <2>4 DEF ListenersInStep
<1>6. ListenersJoined'
  <2>1. \A r \in Subscribers : Listening(r)' => Listening(r) \/ r = s
    BY <1>1, <1>2 DEF Listening
  <2> QED
    BY <1>0, <2>1 DEF BroadcastInv, ListenersJoined, BroadcastTypeOK
<1>7. DeliveredInOrder'
  <2>1. \A i \in 1 .. Len(delivered[s]) : FALSE
    BY <1>0, EmptySeq
  <2> QED
    BY <1>0, <2>1 DEF BroadcastInv, DeliveredInOrder, BroadcastTypeOK
<1> QED
  BY <1>4, <1>5, <1>6, <1>7 DEF BroadcastInv

\* The one that takes the place of the removed listener is the last; everybody
\* else stays where it is.
Origin(j, i) == IF j = i THEN Len(listeners) ELSE j

LEMMA RemovedListener ==
  ASSUME listeners \in Seq(Subscribers), NEW i \in 1 .. Len(listeners),
         removeListenerByIndex(i)
  PROVE  /\ listeners' \in Seq(Subscribers) /\ Len(listeners') = Len(listeners) - 1
         /\ DOMAIN listeners' = 1 .. Len(listeners) - 1
         /\ \A j \in 1 .. Len(listeners) - 1 :
              /\ listeners'[j] = listeners[Origin(j, i)]
              /\ Origin(j, i) \in (1 .. Len(listeners)) \ {i}
<1> DEFINE moved == [listeners EXCEPT ![i] = listeners[Len(listeners)]]
<1>0. PICK n \in Nat : n = Len(listeners)
  BY LenProperties
<1>1. n \in 1 .. n /\ listeners[n] \in Subscribers
  BY <1>0, ElementOfSeq
<1>2. \A j \in 1 .. n : moved[j] = (IF j = i THEN listeners[n] ELSE listeners[j]) /\ moved[j] \in Subscribers
  BY <1>0, <1>1, ExceptSeq, ElementOfSeq
<1>3. listeners' = SubSeq(moved, 1, n - 1)
  BY <1>0 DEF removeListenerByIndex
<1> HIDE DEF moved
<1>4. \A j \in 1 .. n - 1 : moved[j] \in Subscribers
  BY <1>2
<1>5. /\ listeners' \in Seq(Subscribers) /\ Len(listeners') = n - 1
      /\ \A j \in 1 .. n - 1 : listeners'[j] = moved[j]
  <2>1. /\ SubSeq(moved, 1, n - 1) \in Seq(Subscribers)
        /\ Len(SubSeq(moved, 1, n - 1)) = IF 1 <= n - 1 THEN (n - 1) - 1 + 1 ELSE 0
        /\ \A j \in 1 .. (n - 1) - 1 + 1 : SubSeq(moved, 1, n - 1)[j] = moved[1 + j - 1]
    BY <1>4, SubSeqProperties
  <2>2. n - 1 \in Nat /\ (n - 1) - 1 + 1 = n - 1 /\ \A j \in 1 .. n - 1 : 1 + j - 1 = j
    BY <1>1
  <2> QED
    BY <1>3, <2>1, <2>2
<1>6. \A j \in 1 .. n - 1 : Origin(j, i) \in (1 .. n) \ {i}
  BY <1>0, <1>1 DEF Origin
<1> QED
  BY <1>0, <1>2, <1>5, <1>6, LenProperties DEF Origin

LEMMA RemainingListeners ==
  ASSUME BroadcastInv, NEW i \in 1 .. Len(listeners), removeListenerByIndex(i)
  PROVE  /\ \A j, k \in DOMAIN listeners' : listeners'[j] = listeners'[k] => j = k
         /\ \A r \in Subscribers : Listening(r)' => Listening(r) /\ r # listeners[i]
<1>0. PICK n \in Nat : n = Len(listeners) /\ DOMAIN listeners = 1 .. n
  BY LenProperties DEF BroadcastInv, BroadcastTypeOK
<1>1. /\ DOMAIN listeners' = 1 .. n - 1
      /\ \A j \in 1 .. n - 1 : /\ listeners'[j] = listeners[Origin(j, i)]
                               /\ Origin(j, i) \in (1 .. n) \ {i}
  BY <1>0, RemovedListener DEF BroadcastInv, BroadcastTypeOK
<1>2. \A j, k \in 1 .. n : listeners[j] = listeners[k] => j = k
  BY <1>0 DEF BroadcastInv, ListenersInStep
<1>3. \A j, k \in 1 .. n - 1 : Origin(j, i) = Origin(k, i) => j = k
  BY <1>0 DEF Origin
<1>4. \A j, k \in 1 .. n - 1 : listeners'[j] = listeners'[k] => j = k
  <2> TAKE j, k \in 1 .. n - 1
  <2> HAVE listeners'[j] = listeners'[k]
  <2>1. Origin(j, i) = Origin(k, i)
    BY <1>1, <1>2
  <2> QED
    BY <1>3, <2>1
<1>5. ASSUME NEW r \in Subscribers, Listening(r)' PROVE Listening(r) /\ r # listeners[i]
  <2>1. PICK j \in 1 .. n - 1 : listeners'[j] = r
    BY <1>1, <1>5 DEF Listening
  <2>2. listeners[Origin(j, i)] = r /\ Origin(j, i) \in 1 .. n /\ Origin(j, i) # i
    BY <1>1, <2>1
  <2> QED
    BY <1>0, <1>2, <2>2 DEF Listening
<1> QED
  BY <1>1, <1>4, <1>5

LEMMA RemoveListenerStep ==
  ASSUME BroadcastInv, NEW s \in Subscribers, RemoveListener(s)
  PROVE  BroadcastInv'
<1>0. /\ BroadcastTypeOK /\ serve = "loop" /\ subscriber[s] = "removing" /\ index = 0
      /\ subscriber' = [subscriber EXCEPT ![s] = "removed"]
      /\ joined' = joined /\ delivered' = delivered /\ unread' = unread
      /\ serve' = serve /\ index' = index /\ served' = served
      /\ UNCHANGED sourceVars /\ UNCHANGED endVars
  BY DEF RemoveListener, BroadcastInv, ListenersInStep
<1>1. PICK n \in Nat : n = Len(listeners) /\ DOMAIN listeners = 1 .. n
  BY <1>0, LenProperties DEF BroadcastTypeOK
<1>2. subscriber' \in [Subscribers -> {"new", "adding", "added", "removing", "removed"}]
  BY <1>0 DEF BroadcastTypeOK
<1>3. CASE /\ \A i \in DOMAIN listeners : listeners[i] # s
           /\ UNCHANGED <<listeners, closings>>
  <2>1. BroadcastTypeOK'
    BY <1>0, <1>2, <1>3 DEF BroadcastTypeOK, sourceVars, endVars
  <2>2. ListenersInStep'
    BY <1>0, <1>3 DEF BroadcastInv, ListenersInStep, Missing
  <2>3. \A r \in Subscribers : Listening(r)' => Listening(r) /\ r # s
    BY <1>3 DEF Listening
  <2>4. ListenersJoined' /\ DeliveredInOrder'
    BY <1>0, <1>3, <2>3 DEF BroadcastInv, ListenersJoined, DeliveredInOrder, BroadcastTypeOK
  <2> QED
    BY <2>1, <2>2, <2>4 DEF BroadcastInv
<1>4. ASSUME NEW i \in DOMAIN listeners, listeners[i] = s, removeListenerByIndex(i),
             closings' = [closings EXCEPT ![s] = @ + 1]
      PROVE  BroadcastInv'
  <2>0. i \in 1 .. n /\ Listening(s) /\ closings[s] = 0
    BY <1>1, <1>4 DEF Listening, BroadcastInv, ListenersJoined
  <2>1. /\ listeners' \in Seq(Subscribers) /\ Len(listeners') = n - 1
        /\ DOMAIN listeners' = 1 .. n - 1
        /\ \A j \in 1 .. n - 1 : /\ listeners'[j] = listeners[Origin(j, i)]
                                 /\ Origin(j, i) \in 1 .. n
    BY <1>0, <1>1, <1>4, <2>0, RemovedListener DEF BroadcastTypeOK
  <2>2. /\ \A j, k \in DOMAIN listeners' : listeners'[j] = listeners'[k] => j = k
        /\ \A r \in Subscribers : Listening(r)' => Listening(r) /\ r # s
    BY <1>1, <1>4, <2>0, RemainingListeners
  <2>3. BroadcastTypeOK'
    <3>1. closings' \in [Subscribers -> Nat]
      <4>1. closings \in [Subscribers -> Nat]
        BY <1>0 DEF BroadcastTypeOK
      <4> QED
        BY <1>4, <4>1
    <3>2. index' \in 0 .. Len(listeners') + 1
      BY <1>0, <2>1, <1>1, <2>0
    <3> QED
      BY <1>0, <1>2, <2>1, <3>1, <3>2 DEF BroadcastTypeOK, sourceVars, endVars
  <2>4. ListenersInStep'
    <3>1. \A j \in 1 .. n : joined[listeners[j]] + Len(delivered[listeners[j]]) + 0 = served
      BY <1>0, <1>1 DEF BroadcastInv, ListenersInStep, Missing
    <3>2. \A j \in 1 .. n - 1 : Missing(j)' = 0
      BY <1>0 DEF Missing
    <3>3. \A j \in 1 .. n - 1 :
            joined'[listeners'[j]] + Len(delivered'[listeners'[j]]) + Missing(j)' = served'
      <4> TAKE j \in 1 .. n - 1
      <4>1. listeners'[j] = listeners[Origin(j, i)] /\ Origin(j, i) \in 1 .. n
        BY <2>1
      <4>2. joined[listeners'[j]] + Len(delivered[listeners'[j]]) + 0 = served
        BY <3>1, <4>1
      <4> QED
        BY <1>0, <3>2, <4>2
    <3>4. serve' = "loop" /\ index' = 0 /\ index' <= Len(listeners')
      BY <1>0, <2>0, <2>1
    <3> QED
      BY <2>1, <2>2, <3>3, <3>4 DEF ListenersInStep
  <2>5. ListenersJoined'
    <3> SUFFICES ASSUME NEW r \in Subscribers
                 PROVE  /\ Listening(r)' => subscriber'[r] \in {"added", "removing"} /\ closings'[r] = 0
                        /\ subscriber'[r] \in {"new", "adding"} => delivered'[r] = <<>> /\ closings'[r] = 0
                        /\ closings'[r] <= 1
      BY DEF ListenersJoined
    <3>1. CASE r = s
      BY <1>0, <1>4, <2>0, <2>2, <3>1 DEF BroadcastTypeOK
    <3>2. CASE r # s
      BY <1>0, <1>4, <2>2, <3>2 DEF BroadcastInv, ListenersJoined, BroadcastTypeOK
    <3> QED
      BY <3>1, <3>2
  <2>6. DeliveredInOrder'
    BY <1>0 DEF BroadcastInv, DeliveredInOrder
  <2> QED
    BY <2>3, <2>4, <2>5, <2>6 DEF BroadcastInv
<1> QED
  BY <1>3, <1>4 DEF RemoveListener

LEMMA TakeEventStep ==
  ASSUME BroadcastInv, TakeEvent
  PROVE  BroadcastInv'
<1>0. /\ BroadcastTypeOK /\ serve = "loop" /\ served < emitted /\ index = 0
      /\ served' = served + 1 /\ serve' = "broadcasting" /\ index' = Len(listeners)
      /\ UNCHANGED subscriberVars /\ UNCHANGED sourceVars /\ UNCHANGED endVars
  BY DEF TakeEvent, BroadcastInv, ListenersInStep
<1>1. PICK n \in Nat : n = Len(listeners) /\ DOMAIN listeners = 1 .. n
  BY <1>0, LenProperties DEF BroadcastTypeOK
<1>2. BroadcastTypeOK'
  <2>1. served' \in 0 .. emitted /\ emitted - served' <= EventCapacity
    BY <1>0, BroadcastAssumption DEF BroadcastTypeOK
  <2> QED
    BY <1>0, <1>1, <2>1 DEF BroadcastTypeOK, subscriberVars, sourceVars, endVars
<1>3. ListenersInStep'
  <2>1. ASSUME NEW i \in 1 .. n
        PROVE joined'[listeners'[i]] + Len(delivered'[listeners'[i]]) + Missing(i)' = served'
    <3>1. /\ joined[listeners[i]] \in Nat /\ Len(delivered[listeners[i]]) \in Nat
          /\ joined[listeners[i]] + Len(delivered[listeners[i]]) + Missing(i) = served
          /\ Missing(i) = 0
      <4>1. listeners[i] \in Subscribers
        BY <1>0, <1>1, ElementOfSeq DEF BroadcastTypeOK
      <4>2. joined[listeners[i]] \in Nat /\ Len(delivered[listeners[i]]) \in Nat
        BY <1>0, <4>1, LenProperties DEF BroadcastTypeOK
      <4>3. joined[listeners[i]] + Len(delivered[listeners[i]]) + Missing(i) = served
        BY <1>1 DEF BroadcastInv, ListenersInStep
      <4>4. Missing(i) = 0
        BY <1>0 DEF Missing
      <4> QED
        BY <4>2, <4>3, <4>4
    <3>2. Missing(i)' = 1
      BY <1>0, <1>1 DEF Missing
    <3> QED
      BY <1>0, <3>1, <3>2 DEF subscriberVars
  <2> QED
    BY <1>0, <1>1, <2>1 DEF BroadcastInv, ListenersInStep, subscriberVars
<1>4. ListenersJoined' /\ DeliveredInOrder'
  BY <1>0 DEF BroadcastInv, ListenersJoined, DeliveredInOrder, Listening, subscriberVars
<1> QED
  BY <1>2, <1>3, <1>4 DEF BroadcastInv

LEMMA ServeEndsStep ==
  ASSUME BroadcastInv, ServeEnds
  PROVE  BroadcastInv'
<1>0. /\ BroadcastTypeOK /\ serve = "loop" /\ index = 0 /\ serve' = "ended"
      /\ closings' = [s \in Subscribers |-> IF Listening(s) THEN closings[s] + 1 ELSE closings[s]]
      /\ listeners' = <<>> /\ served' = served /\ index' = index
      /\ UNCHANGED <<subscriber, joined, delivered, unread>>
      /\ UNCHANGED sourceVars /\ UNCHANGED endVars
  BY DEF ServeEnds, BroadcastInv, ListenersInStep, Listening
<1>1. /\ listeners' \in Seq(Subscribers) /\ Len(listeners') = 0 /\ DOMAIN listeners' = {}
  BY <1>0, EmptySeq
<1>2. BroadcastTypeOK'
  <2>1. closings' \in [Subscribers -> Nat]
    BY <1>0 DEF BroadcastTypeOK
  <2> QED
    BY <1>0, <1>1, <2>1 DEF BroadcastTypeOK, sourceVars, endVars
<1>3. ListenersInStep'
  BY <1>0, <1>1 DEF ListenersInStep
<1>4. ListenersJoined'
  <2>1. \A s \in Subscribers : ~Listening(s)'
    BY <1>1 DEF Listening
  <2> QED
    BY <1>0, <2>1 DEF BroadcastInv, ListenersJoined, BroadcastTypeOK
<1>5. DeliveredInOrder'
  BY <1>0 DEF BroadcastInv, DeliveredInOrder
<1> QED
  BY <1>2, <1>3, <1>4, <1>5 DEF BroadcastInv

LEMMA DeliverStep ==
  ASSUME BroadcastInv, Deliver
  PROVE  BroadcastInv'
<1>0. /\ BroadcastTypeOK /\ serve = "broadcasting" /\ index > 0 /\ index <= Len(listeners)
      /\ index' = index - 1 /\ served' = served /\ serve' = serve
      /\ UNCHANGED <<subscriber, joined, closings>>
      /\ UNCHANGED sourceVars /\ UNCHANGED endVars
  BY DEF Deliver, BroadcastInv, ListenersInStep
<1>1. PICK n \in Nat : n = Len(listeners) /\ DOMAIN listeners = 1 .. n
  BY <1>0, LenProperties DEF BroadcastTypeOK
<1>2. PICK k \in 1 .. n : k = index
  BY <1>0, <1>1 DEF BroadcastTypeOK
<1>3. PICK s \in Subscribers : s = listeners[k]
  BY <1>0, <1>1, <1>2, ElementOfSeq DEF BroadcastTypeOK
<1>4. \A i \in 1 .. n : /\ listeners[i] \in Subscribers
                       /\ joined[listeners[i]] \in Nat /\ Len(delivered[listeners[i]]) \in Nat
                       /\ joined[listeners[i]] + Len(delivered[listeners[i]])
                            = served - (IF i <= k THEN 1 ELSE 0)
  <2> TAKE i \in 1 .. n
  <2>1. listeners[i] \in Subscribers
    BY <1>0, <1>1, ElementOfSeq DEF BroadcastTypeOK
  <2>2. joined[listeners[i]] \in Nat /\ Len(delivered[listeners[i]]) \in Nat
    BY <1>0, <2>1, LenProperties DEF BroadcastTypeOK
  <2>3. /\ joined[listeners[i]] + Len(delivered[listeners[i]]) + Missing(i) = served
        /\ Missing(i) = IF i <= k THEN 1 ELSE 0
    BY <1>1, <1>2 DEF BroadcastInv, ListenersInStep, Missing
  <2> QED
    BY <2>1, <2>2, <2>3
<1>5. \A i \in Nat : Missing(i)' = IF i <= k - 1 THEN 1 ELSE 0
  BY <1>0, <1>2 DEF Missing
<1>6. \A i, j \in 1 .. n : listeners[i] = listeners[j] => i = j
  BY <1>1 DEF BroadcastInv, ListenersInStep
<1>7. CASE /\ HasRoom(s)
           /\ delivered' = [delivered EXCEPT ![s] = Append(@, served)]
           /\ unread' = [unread EXCEPT ![s] = @ + 1]
           /\ UNCHANGED listeners
  <2>1. /\ delivered'[s] \in Seq(Nat) /\ Len(delivered'[s]) = Len(delivered[s]) + 1
        /\ \A i \in 1 .. Len(delivered[s]) : delivered'[s][i] = delivered[s][i]
        /\ delivered'[s][Len(delivered[s]) + 1] = served
        /\ \A r \in Subscribers \ {s} : delivered'[r] = delivered[r]
    <3>1. delivered[s] \in Seq(Nat) /\ served \in Nat
      BY <1>0 DEF BroadcastTypeOK
    <3>2. delivered'[s] = Append(delivered[s], served) /\ \A r \in Subscribers \ {s} : delivered'[r] = delivered[r]
      BY <1>0, <1>7 DEF BroadcastTypeOK
    <3> QED
      BY <3>1, <3>2, AppendProperties
  <2>2. BroadcastTypeOK'
    <3>1. unread' \in [Subscribers -> 0 .. ListenerCapacity]
      <4>1. unread[s] \in 0 .. ListenerCapacity /\ unread[s] < ListenerCapacity
        BY <1>0, <1>7 DEF BroadcastTypeOK, HasRoom
      <4>2. unread[s] + 1 \in 0 .. ListenerCapacity
        BY <4>1, BroadcastAssumption
      <4> QED
        BY <1>0, <1>7, <4>2 DEF BroadcastTypeOK
    <3>2. delivered' \in [Subscribers -> Seq(Nat)]
      <4>1. served \in Nat /\ delivered[s] \in Seq(Nat)
        BY <1>0 DEF BroadcastTypeOK
      <4>2. Append(delivered[s], served) \in Seq(Nat)
        BY <4>1, AppendProperties
      <4> QED
        BY <1>0, <1>7, <4>2 DEF BroadcastTypeOK
    <3>3. index' \in 0 .. Len(listeners') + 1
      BY <1>0, <1>1, <1>2, <1>7
    <3> QED
      BY <1>0, <1>7, <3>1, <3>2, <3>3 DEF BroadcastTypeOK, sourceVars, endVars
  <2>3. ListenersInStep'
    <3>1. ASSUME NEW i \in 1 .. n
          PROVE joined[listeners[i]] + Len(delivered'[listeners[i]]) + Missing(i)' = served
      <4>0. served \in Nat /\ Missing(i)' = IF i <= k - 1 THEN 1 ELSE 0
        <5>1. served \in Nat
          BY <1>0 DEF BroadcastTypeOK
        <5>2. i \in Nat
          OBVIOUS
        <5> QED
          BY <1>5, <5>1, <5>2
      <4>1. CASE i = k
        <5>1. /\ joined[s] \in Nat /\ Len(delivered[s]) \in Nat
              /\ joined[s] + Len(delivered[s]) = served - 1
          BY <1>3, <1>4
        <5>2. Len(delivered'[s]) = Len(delivered[s]) + 1 /\ listeners[i] = s /\ Missing(i)' = 0
          BY <1>3, <2>1, <4>0, <4>1
        <5>3. joined[s] + Len(delivered'[s]) + 0 = served
          BY <4>0, <5>1, <5>2
        <5> QED
          BY <5>2, <5>3
      <4>2. CASE i # k
        <5>1. delivered'[listeners[i]] = delivered[listeners[i]]
          BY <1>3, <1>4, <1>6, <2>1, <4>2
        <5>2. i <= k <=> i <= k - 1
          BY <4>2
        <5>3. /\ joined[listeners[i]] \in Nat /\ Len(delivered[listeners[i]]) \in Nat
              /\ joined[listeners[i]] + Len(delivered[listeners[i]])
                   = served - (IF i <= k THEN 1 ELSE 0)
          BY <1>4
        <5>4. Missing(i)' = IF i <= k THEN 1 ELSE 0
          BY <4>0, <5>2
        <5>5. joined[listeners[i]] + Len(delivered[listeners[i]]) + Missing(i)' = served
          BY <4>0, <5>3, <5>4
        <5> QED
          BY <5>1, <5>5
      <4> QED
        BY <4>1, <4>2
    <3>2. \A i, j \in DOMAIN listeners' : listeners'[i] = listeners'[j] => i = j
      BY <1>1, <1>6, <1>7
    <3>3. index' <= Len(listeners') /\ serve' = "broadcasting"
      BY <1>0, <1>1, <1>2, <1>7
    <3> QED
      BY <1>0, <1>1, <1>7, <3>1, <3>2, <3>3 DEF ListenersInStep
  <2>4. ListenersJoined'
    <3>1. \A r \in Subscribers : Listening(r)' <=> Listening(r)
      BY <1>7 DEF Listening
    <3>2. Listening(s)
      BY <1>1, <1>3 DEF Listening
    <3>3. subscriber[s] \in {"added", "removing"}
      BY <3>2 DEF BroadcastInv, ListenersJoined
    <3>4. \A r \in Subscribers \ {s} : delivered'[r] = delivered[r]
      BY <2>1
    <3> QED
      BY <1>0, <3>1, <3>3, <3>4, SMTT(30) DEF BroadcastInv, ListenersJoined
  <2>5. DeliveredInOrder'
    <3> SUFFICES ASSUME NEW r \in Subscribers, NEW i \in 1 .. Len(delivered'[r])
                 PROVE delivered'[r][i] = joined[r] + i
      BY <1>0 DEF DeliveredInOrder
    <3>1. CASE r # s
      BY <2>1, <3>1 DEF BroadcastInv, DeliveredInOrder
    <3>2. CASE r = s
      <4>0. Len(delivered[s]) \in Nat /\ joined[s] \in Nat /\ joined[s] + Len(delivered[s]) = served - 1
            /\ served \in Nat
        <5>1. served \in Nat
          BY <1>0 DEF BroadcastTypeOK
        <5>2. /\ joined[s] \in Nat /\ Len(delivered[s]) \in Nat
              /\ joined[s] + Len(delivered[s]) = served - 1
          BY <1>3, <1>4
        <5> QED
          BY <5>1, <5>2
      <4>1. CASE i = Len(delivered[s]) + 1
        <5>1. delivered'[s][i] = served
          BY <2>1, <4>1
        <5>2. joined[s] + i = served
          BY <4>0, <4>1
        <5> QED
          BY <3>2, <5>1, <5>2
      <4>2. CASE i \in 1 .. Len(delivered[s])
        BY <2>1, <3>2, <4>2 DEF BroadcastInv, DeliveredInOrder
      <4> QED
        BY <2>1, <3>2, <4>0, <4>1, <4>2
    <3> QED
      BY <3>1, <3>2
  <2> QED
    BY <2>2, <2>3, <2>4, <2>5 DEF BroadcastInv
<1>8. CASE /\ ~HasRoom(s) /\ removeListenerByIndex(k)
           /\ UNCHANGED <<delivered, unread>>
  <2>1. /\ listeners' \in Seq(Subscribers) /\ Len(listeners') = n - 1
        /\ DOMAIN listeners' = 1 .. n - 1
        /\ \A j \in 1 .. n - 1 : /\ listeners'[j] = listeners[Origin(j, k)]
                                 /\ Origin(j, k) \in 1 .. n
    BY <1>0, <1>1, <1>8, RemovedListener DEF BroadcastTypeOK
  <2>2. /\ \A i, j \in DOMAIN listeners' : listeners'[i] = listeners'[j] => i = j
        /\ \A r \in Subscribers : Listening(r)' => Listening(r)
    BY <1>1, <1>8, RemainingListeners
  <2>3. BroadcastTypeOK'
    <3>1. index' \in 0 .. Len(listeners') + 1
      BY <1>0, <1>1, <1>2, <2>1
    <3> QED
      BY <1>0, <1>8, <2>1, <3>1 DEF BroadcastTypeOK, sourceVars, endVars
  <2>4. ListenersInStep'
    <3>1. ASSUME NEW j \in 1 .. n - 1
          PROVE joined[listeners'[j]] + Len(delivered[listeners'[j]]) + Missing(j)' = served
      <4>1. Origin(j, k) \in 1 .. n /\ (Origin(j, k) <= k <=> j <= k - 1)
        BY <1>1, <1>2, <2>1 DEF Origin
      <4>2. PICK o \in 1 .. n : o = Origin(j, k)
        BY <4>1
      <4>3. /\ joined[listeners[o]] + Len(delivered[listeners[o]])
                  = served - (IF o <= k THEN 1 ELSE 0)
            /\ joined[listeners[o]] \in Nat /\ Len(delivered[listeners[o]]) \in Nat
        BY <1>4
      <4>4. Missing(j)' = IF o <= k THEN 1 ELSE 0
        BY <1>5, <4>1, <4>2
      <4>5. listeners'[j] = listeners[o]
        BY <2>1, <4>2
      <4>6. served \in Nat
        BY <1>0 DEF BroadcastTypeOK
      <4> QED
        BY <4>3, <4>4, <4>5, <4>6
    <3>2. index' <= Len(listeners') /\ serve' = "broadcasting"
      BY <1>0, <1>1, <1>2, <2>1
    <3> QED
      BY <1>0, <1>8, <2>1, <2>2, <3>1, <3>2 DEF ListenersInStep
  <2>5. ListenersJoined' /\ DeliveredInOrder'
    BY <1>0, <1>8, <2>2 DEF BroadcastInv, ListenersJoined, DeliveredInOrder
  <2> QED
    BY <2>3, <2>4, <2>5 DEF BroadcastInv
<1> QED
  BY <1>2, <1>3, <1>7, <1>8 DEF Deliver

LEMMA BroadcastInvStep == BroadcastInv /\ [BroadcastNext]_broadcastVars => BroadcastInv'
BY AddListenerStep, RemoveListenerStep, TakeEventStep, DeliverStep, ServeEndsStep, SourceStep
   DEF BroadcastNext, BroadcastStep

\* Whoever else is added, removed or too slow in the middle of a broadcast, every
\* listener is given each event since it was added exactly once and in order, and
\* no channel is closed twice (Serve, broadcast, removeListenerByIndex).
THEOREM EventsOnce == BroadcastSpec => []EveryEventOnce
<1>1. ASSUME BroadcastInv PROVE EveryEventOnce
  <2>1. \A s \in Subscribers :
          delivered[s] = [i \in 1 .. Len(delivered[s]) |-> joined[s] + i]
    <3> TAKE s \in Subscribers
    <3>1. delivered[s] \in Seq(Nat)
      BY <1>1 DEF BroadcastInv, BroadcastTypeOK
    <3>2. /\ delivered[s] = [i \in DOMAIN delivered[s] |-> delivered[s][i]]
          /\ DOMAIN delivered[s] = 1 .. Len(delivered[s])
      BY <3>1, LenProperties
    <3>3. \A i \in 1 .. Len(delivered[s]) : delivered[s][i] = joined[s] + i
      BY <1>1 DEF BroadcastInv, DeliveredInOrder
    <3> QED
      BY <3>2, <3>3
  <2>2. ASSUME NEW i \in DOMAIN listeners, serve = "loop"
        PROVE  joined[listeners[i]] + Len(delivered[listeners[i]]) = served
    <3>1. /\ i \in Nat \ {0} /\ listeners[i] \in Subscribers
          /\ joined[listeners[i]] \in Nat /\ Len(delivered[listeners[i]]) \in Nat
      <4>1. i \in 1 .. Len(listeners) /\ Len(listeners) \in Nat /\ listeners[i] \in Subscribers
        BY <1>1, LenProperties, ElementOfSeq DEF BroadcastInv, BroadcastTypeOK
      <4>2. /\ joined \in [Subscribers -> Nat] /\ delivered \in [Subscribers -> Seq(Nat)]
        BY <1>1 DEF BroadcastInv, BroadcastTypeOK
      <4>3. delivered[listeners[i]] \in Seq(Nat) /\ joined[listeners[i]] \in Nat
        BY <4>1, <4>2
      <4> QED
        BY <4>1, <4>3, LenProperties
    <3>2. Missing(i) = 0
      BY <1>1, <2>2, <3>1 DEF BroadcastInv, ListenersInStep, Missing
    <3>3. joined[listeners[i]] + Len(delivered[listeners[i]]) + Missing(i) = served
      BY <1>1 DEF BroadcastInv, ListenersInStep
    <3> QED
      BY <3>1, <3>2, <3>3
  <2> QED
    BY <1>1, <2>1, <2>2 DEF BroadcastInv, ListenersInStep, ListenersJoined, EveryEventOnce
<1> QED
  BY <1>1, BroadcastStart, BroadcastInvStep, PTL DEF BroadcastSpec

-----------------------------------------------------------------------------
(* The hardware subsystem: the inductive invariant *)

\* The render loop goes on to its drawing only with a buffer it has seen, which
\* only a Stop can take; and it does not run before the display has started.
RendersWhatItSaw ==
  /\ loop["render"] \in {"checked", "drawing"} => buffer \in {"there", "taken"}
  /\ hardware = "created" => loop["render"] = "none"

DevicesInv == DeviceTypeOK /\ DisplayShowsWhatItHas /\ RendersWhatItSaw

LEMMA DevicesStart == DevicesInit => DevicesInv
BY DEF DevicesInit, DevicesInv, DeviceTypeOK, DisplayShowsWhatItHas, RendersWhatItSaw, Loops,
       Modes, Services

\* A step of a loop, from where and to where; none of them starts the display.
LEMMA LoopGoes ==
  ASSUME DevicesInv, NEW l \in Loops, NEW from,
         NEW to \in {"select", "lock", "led", "checked", "drawing", "ended"},
         DeviceGoes(l, from, to), hardware = "created" => from # "none",
         \/ UNCHANGED displayVars
         \/ l # "render" /\ (MessageExpires \/ Show("status")) /\ UNCHANGED <<buffer, active>>,
         l = "render" /\ to \in {"checked", "drawing"} => buffer \in {"there", "taken"}
  PROVE  DevicesInv'
<1>1. /\ loop' \in [Loops -> {"none", "select", "lock", "led", "checked", "drawing", "panicked", "ended"}]
      /\ loop'["render"] = (IF l = "render" THEN to ELSE loop["render"])
      /\ l = "render" => loop["render"] = from
      /\ loop["render"] # "panicked"
  BY DEF DevicesInv, DeviceTypeOK, DeviceGoes, Loops, Alive
<1>2. /\ mode' \in Modes /\ contents' \subseteq Modes \ {"idle"}
      /\ mode' # "idle" => mode' \in contents'
  BY DEF DevicesInv, DeviceTypeOK, DisplayShowsWhatItHas, displayVars, MessageExpires, Show, Modes
<1>3. buffer' = buffer /\ active' = active
  BY DEF displayVars
<1> QED
  BY <1>1, <1>2, <1>3 DEF DevicesInv, DeviceTypeOK, DisplayShowsWhatItHas, RendersWhatItSaw,
                          DeviceGoes

LEMMA DevicesStep == DevicesInv /\ [DevicesNext]_deviceVars => DevicesInv'
<1> SUFFICES ASSUME DevicesInv, [DevicesNext]_deviceVars PROVE DevicesInv'
  OBVIOUS
<1>0. DeviceTypeOK /\ DisplayShowsWhatItHas /\ RendersWhatItSaw /\ "render" \in Loops
  BY DEF DevicesInv, Loops
<1>1. CASE UNCHANGED deviceVars
  BY <1>0, <1>1 DEF DevicesInv, DeviceTypeOK, DisplayShowsWhatItHas, RendersWhatItSaw, deviceVars,
                    displayVars
<1>2. ASSUME NEW from, NEW to \in {"display", "gpio", "stats", "running", "failed"}, NEW ls,
             Starts(from, to, ls), UNCHANGED <<buffer, active>>, "render" \in ls => from = "created"
      PROVE  DevicesInv'
  BY <1>0, <1>2 DEF Starts, Alive, DevicesInv, DeviceTypeOK, DisplayShowsWhatItHas, RendersWhatItSaw
<1>3. CASE StartDisplay
  <2>1. loop' \in [Loops -> {"none", "select", "lock", "led", "checked", "drawing", "panicked", "ended"}]
    BY <1>0, <1>3 DEF StartDisplay, Starts, DeviceTypeOK
  <2>2. loop'["render"] = "select" /\ hardware' = "display"
    BY <1>0, <1>3 DEF StartDisplay, Starts
  <2>3. /\ buffer' \in {buffer, "there"} /\ active' \in BOOLEAN
        /\ active' => buffer' = "there"
    <3>1. CASE buffer' = "there" /\ active' = TRUE
      BY <3>1
    <3>2. CASE UNCHANGED <<buffer, active>>
      BY <1>0, <3>2 DEF DeviceTypeOK, DisplayShowsWhatItHas
    <3> QED
      BY <1>3, <3>1, <3>2 DEF StartDisplay
  <2> QED
    BY <1>0, <1>3, <2>1, <2>2, <2>3
       DEF StartDisplay, Starts, DevicesInv, DeviceTypeOK, DisplayShowsWhatItHas, RendersWhatItSaw
<1>4. CASE StartGpio \/ StartStats \/ StartUpdate \/ DeviceStartFails
  BY <1>2, <1>4 DEF StartGpio, StartStats, StartUpdate, DeviceStartFails
<1>5. CASE CancelHardware \/ StopHardware \/ StopSteps
  <2> USE <1>0 DEF DevicesInv, DeviceTypeOK, DisplayShowsWhatItHas, RendersWhatItSaw,
                   HardwareStopGoes, Alive, Services, Modes
  <2>1. CASE CancelHardware
    BY <2>1 DEF CancelHardware, displayVars
  <2>2. CASE StopHardware
    BY <2>2 DEF StopHardware
  <2>3. CASE StatsStopped \/ UpdateStopped
    <3>1. CASE StatsStopped
      BY <3>1 DEF StatsStopped
    <3>2. CASE UpdateStopped
      BY <3>2 DEF UpdateStopped
    <3> QED
      BY <2>3, <3>1, <3>2
  <2>5. ASSUME NEW s \in Services, NEW from, NEW to \in {"gpioWait", "displayWait"},
               StopLocks(s, from, to)
        PROVE  DevicesInv'
    BY <2>5 DEF StopLocks
  <2>6. CASE GpioStopped
    BY <2>6 DEF GpioStopped
  <2>4. CASE DisplayStopped
    BY <2>4 DEF DisplayStopped
  <2> QED
    BY <1>5, <2>1, <2>2, <2>3, <2>4, <2>5, <2>6 DEF StopSteps
<1>6. CASE ShowMessage
  BY <1>0, <1>6 DEF ShowMessage, Show, Alive, Modes, DevicesInv, DeviceTypeOK,
                    DisplayShowsWhatItHas, RendersWhatItSaw
<1>7. CASE Render
  BY <1>0, <1>7, LoopGoes DEF Render, DevicesInv
<1>8. CASE DeviceTicks
  BY <1>0, <1>8, LoopGoes DEF DeviceTicks, DeviceTick
<1>9. CASE LoopSteps
  <2> USE <1>0 DEF Loops
  <2>1. CASE DisplayTick
    BY <2>1, LoopGoes DEF DisplayTick, displayVars
  <2>2. CASE ReadMode
    BY <2>2, LoopGoes DEF ReadMode, RendersWhatItSaw, DeviceGoes
  <2>3. CASE Draw
    <3>1. CASE buffer = "there"
      BY <2>3, <3>1, LoopGoes DEF Draw
    <3>2. CASE buffer # "there"
      BY <2>3, <3>2 DEF Draw, DeviceGoes, displayVars, DevicesInv, DeviceTypeOK,
                        DisplayShowsWhatItHas, RendersWhatItSaw
    <3> QED
      BY <3>1, <3>2
  <2>4. CASE GpioTick
    BY <2>4, LoopGoes DEF GpioTick
  <2>5. CASE UpdateSystemStatus
    BY <2>5, LoopGoes DEF UpdateSystemStatus, Show
  <2>6. CASE SetStatusLED
    BY <2>6, LoopGoes DEF SetStatusLED
  <2> QED
    BY <1>9, <2>1, <2>2, <2>3, <2>4, <2>5, <2>6 DEF LoopSteps
<1>10. CASE \E l \in Loops : LoopEnds(l)
  BY <1>0, <1>10, LoopGoes DEF LoopEnds
<1> QED
  BY <1>1, <1>3, <1>4, <1>5, <1>6, <1>7, <1>8, <1>9, <1>10 DEF DevicesNext

LEMMA DisplayIsTrue == DevicesSpec => [](DeviceTypeOK /\ DisplayShowsWhatItHas)
<1>1. DevicesInv => DeviceTypeOK /\ DisplayShowsWhatItHas
  BY DEF DevicesInv
<1> QED
  BY <1>1, DevicesStart, DevicesStep, PTL DEF DevicesSpec

-----------------------------------------------------------------------------
(* The analysis system: the inductive invariant *)

\* A Start that succeeds registers the components, which refuses the next one;
\* no component is shut down before Stop, after which nobody starts.
StartComesFirst ==
  /\ started <= 1
  /\ started > 0 => registered \cap SystemComponents # {}
  /\ stop = "new" => coordinator = "idle"
  /\ coordinator \in {"idle", "closing", "copying"} => DOMAIN stopping = {}

StoppedMeansEnded ==
  \A k \in DOMAIN stopping : k = "analysis_orchestrator" /\ stopping[k] = "ok" => AllEnded

SystemInv == SystemTypeOK /\ StartComesFirst /\ StoppedMeansEnded

LEMMA SystemStart == SystemInit /\ CancelInit({}) => SystemInv
<1> SUFFICES ASSUME SystemInit, CancelInit({}) PROVE SystemInv
  OBVIOUS
<1>1. DOMAIN stopping = {}
  BY DEF CancelInit
<1>2. 0 \in 0 .. MaxStarts
  BY MaxStartsAssumption
<1>3. worker \in [SystemWorkers -> {"none", "idle", "busy", "ended"}]
  BY DEF SystemInit
<1>4. SystemTypeOK
  BY <1>2, <1>3 DEF SystemInit, CancelInit, SystemTypeOK
<1> QED
  BY <1>1, <1>4 DEF SystemInit, CancelInit, SystemInv, StartComesFirst, StoppedMeansEnded

\* The coordinator's steps leave the rest of the system as it is.
LEMMA SystemCoordinates ==
  ASSUME SystemInv, UNCHANGED systemVars, stop # "new" \/ coordinator' = coordinator,
         CoordinatorStep
  PROVE  SystemInv'
<1>0. AllEnded' <=> AllEnded
  BY DEF AllEnded, systemVars
<1> USE <1>0 DEF SystemInv, SystemTypeOK, StartComesFirst, StoppedMeansEnded, systemVars
<1>1. CASE CancelRoot
  BY <1>1 DEF CancelRoot
<1>2. CASE CopyComponents
  <2>1. \A k \in DOMAIN stopping' : stopping'[k] = "running"
    BY <1>2 DEF CopyComponents
  <2> QED
    BY <1>2, <2>1 DEF CopyComponents
<1>3. CASE CollectResults \/ CollectTimesOut
  BY <1>3 DEF CollectResults, CollectTimesOut
<1>4. CASE GoroutinesDone \/ GracefulTimeout
  BY <1>4 DEF GoroutinesDone, GracefulTimeout, Waited
<1>5. CASE ComponentTimeout \/ ShutdownTimeout
  BY <1>5 DEF ComponentTimeout, ShutdownTimeout
<1> QED
  BY <1>1, <1>2, <1>3, <1>4, <1>5 DEF CoordinatorStep

LEMMA SystemInvStep == SystemInv /\ [SystemNext]_allSystemVars => SystemInv'
<1> SUFFICES ASSUME SystemInv, [SystemNext]_allSystemVars PROVE SystemInv'
  OBVIOUS
<1> USE DEF SystemInv, SystemTypeOK, StartComesFirst, StoppedMeansEnded
<1>1. CASE UNCHANGED allSystemVars
  BY <1>1 DEF allSystemVars, systemVars, cancelVars, AllEnded
<1>2. CASE CreateSystem
  BY <1>2 DEF CreateSystem, cancelVars, AllEnded
<1>3. CASE StartRefused
  BY <1>3, MaxStartsAssumption DEF StartRefused, StartCalled, cancelVars, AllEnded
<1>4. CASE StartSystem
  <2>1. /\ stop = "new" /\ starts' = starts + 1 /\ starts < MaxStarts
        /\ registered \cap SystemComponents = {} /\ registered' = registered \cup SystemComponents
        /\ worker' = [w \in SystemWorkers |-> "idle"]
        /\ started' = (IF SystemWorkers = {} THEN started ELSE started + 1)
        /\ UNCHANGED <<system, stop, systemCancelled, done, root, coordinator, stopping>>
    BY <1>4 DEF StartSystem, StartCalled, RegisterComponents
  <2>2. started = 0 /\ started' \in {0, 1} /\ starts' \in 1 .. MaxStarts
    BY <2>1, MaxStartsAssumption
  <2>3. DOMAIN stopping' = {} /\ coordinator' = "idle"
    BY <2>1
  <2>4. registered' \cap SystemComponents # {}
    BY <2>1 DEF SystemComponents
  <2>5. SystemTypeOK'
    <3>1. worker' \in [SystemWorkers -> {"none", "idle", "busy", "ended"}]
      BY <2>1
    <3>2. started' \in 0 .. MaxStarts /\ starts' \in 0 .. MaxStarts
      BY <2>2, MaxStartsAssumption
    <3> QED
      BY <2>1, <3>1, <3>2
  <2> QED
    BY <2>1, <2>2, <2>3, <2>4, <2>5
<1>5. CASE StopSystem
  BY <1>5 DEF StopSystem, StopMoves, InitiateShutdown, AllEnded
<1>6. CASE WaitOver \/ CancelSystem \/ CloseRemaining
  BY <1>6 DEF WaitOver, CancelSystem, CloseRemaining, StopMoves, cancelVars, AllEnded
<1>7. ASSUME NEW w \in SystemWorkers, TakesWork(w) \/ WorkDone(w) \/ WorkCancelled(w) \/ Ends(w)
      PROVE  SystemInv'
  <2>1. PICK from \in {"idle", "busy"}, to \in {"idle", "busy", "ended"} : WorkerGoes(w, from, to)
    BY <1>7 DEF TakesWork, WorkDone, WorkCancelled, Ends
  <2>2. /\ worker' \in [SystemWorkers -> {"none", "idle", "busy", "ended"}]
        /\ ~AllEnded
    BY <2>1 DEF WorkerGoes, AllEnded
  <2> QED
    BY <2>1, <2>2 DEF WorkerGoes, cancelVars
<1>8. CASE ShutdownReturns
  <2>0. AllEnded' <=> AllEnded
    BY <1>8 DEF ShutdownReturns, systemVars, AllEnded
  <2>1. ASSUME NEW k, NEW how, ComponentStops(k, how), UNCHANGED systemVars,
               k = "analysis_orchestrator" /\ how = "ok" => AllEnded
        PROVE  SystemInv'
    BY <2>0, <2>1 DEF ComponentStops, systemVars
  <2> QED
    BY <1>8, <2>1 DEF ShutdownReturns, ComponentTimesOut
<1>9. CASE system = "created" /\ CoordinatorStep /\ UNCHANGED systemVars
  <2>1. stop # "new" \/ coordinator' = coordinator
    BY <1>9 DEF CoordinatorStep, CancelRoot, CopyComponents, CollectResults, CollectTimesOut,
                GoroutinesDone, GracefulTimeout, Waited, ComponentTimeout, ShutdownTimeout
  <2> QED
    BY <1>9, <2>1, SystemCoordinates
<1> QED
  BY <1>1, <1>2, <1>3, <1>4, <1>5, <1>6, <1>7, <1>8, <1>9 DEF SystemNext, SystemStep

LEMMA WorkersStartOnce == SystemSpec => [](SystemTypeOK /\ StartedOnce)
<1>1. SystemInv => SystemTypeOK /\ StartedOnce
  BY DEF SystemInv, StartComesFirst, StoppedMeansEnded, StartedOnce
<1> QED
  BY <1>1, SystemStart, SystemInvStep, PTL DEF SystemSpec

-----------------------------------------------------------------------------
(* The staged analysis: the inductive invariant *)

CallGoesOn(c) == call[c] \in {"collecting", "storing", "embedding"}
ExtractsEntities(c) == stage[c]["entity"] \in {"tracked", "extracting"}

\* Only what is enabled is extracted, and what has been collected stays as it was
\* when the call went on.
PartsSound ==
  \A c \in StageCalls :
    /\ call[c] \in {"new", "checked", "refused"} =>
         results[c] = NoParts /\ \A p \in Parts : stage[c][p] = "none"
    /\ \A p \in Parts :
         /\ stage[c][p] # "none" => p \in enabled[c]
         /\ ~(call[c] \in {"new", "checked", "refused"}) =>
              /\ box[c][p] \in (IF p \in enabled[c] THEN {"none", "ok", "failed"} ELSE {"none", "empty"})
              /\ results[c][p] \in (IF p \in enabled[c] THEN {"none", "ok", "failed"} ELSE {"none", "empty"})
    /\ call[c] \in {"storing", "embedding", "whole"} => Collected(c) /\ ~AnyFailed(c)
    /\ stored[c] > 0 => call[c] \in {"storing", "embedding", "whole"}

\* The coordinator tracks the calls and the entity extractions that go on.
TrackedGoOn ==
  \A c \in StageCalls :
    /\ <<c, "call">> \in tracked <=> CallGoesOn(c)
    /\ <<c, "entity">> \in tracked <=> ExtractsEntities(c)

EarlyHaveBegun ==
  /\ \A c \in early : CallGoesOn(c) \/ Returned(c)
  /\ coordinator # "idle" => done
  /\ goroutines # "unknown" => coordinator = "finished"

StageInv ==
  StageTypeOK /\ PartsSound /\ TrackedGoOn /\ EarlyHaveBegun /\ GoneMeansGone

LEMMA StageStart ==
  StageInit /\ CancelInit({"pipeline_stages_analyzer"}) => StageInv
<1> SUFFICES ASSUME StageInit, CancelInit({"pipeline_stages_analyzer"}) PROVE StageInv
  OBVIOUS
<1>1. /\ DOMAIN stopping = {} /\ tracked = {} /\ IsFiniteSet({})
      /\ IsFiniteSet({"pipeline_stages_analyzer"})
  <2>1. DOMAIN stopping = {} /\ tracked = {}
    BY DEF CancelInit
  <2>2. IsFiniteSet({}) /\ IsFiniteSet({"pipeline_stages_analyzer"})
    BY FS_EmptySet, FS_Singleton
  <2> QED
    BY <2>1, <2>2
<1>2. CancelTypeOK
  BY <1>1 DEF CancelInit, CancelTypeOK
<1>3. Cardinality(Parts) \in Nat /\ 0 \in 0 .. Cardinality(Parts) + 1
  BY StageAssumption, FS_CardinalityType
<1>4. /\ stage \in [StageCalls -> [Parts -> {"none", "started", "tracked", "extracting", "ended"}]]
      /\ box \in [StageCalls -> [Parts -> {"none", "empty", "ok", "failed"}]]
      /\ results \in [StageCalls -> [Parts -> {"none", "empty", "ok", "failed"}]]
  BY DEF StageInit, NoParts
<1>5. /\ enabled \in [StageCalls -> SUBSET Parts] /\ expired \in [StageCalls -> BOOLEAN]
      /\ stored \in [StageCalls -> 0 .. Cardinality(Parts) + 1]
  BY <1>3 DEF StageInit
<1>6. StageTypeOK
  BY <1>1, <1>2, <1>4, <1>5 DEF StageInit, StageTypeOK
<1>7. PartsSound
  BY DEF StageInit, NoParts, PartsSound
<1>8. TrackedGoOn
  BY <1>1, StageAssumption DEF StageInit, NoParts, TrackedGoOn, CallGoesOn, ExtractsEntities
<1> QED
  BY <1>6, <1>7, <1>8 DEF StageInit, CancelInit, StageInv, EarlyHaveBegun, GoneMeansGone

\* A step of one call leaves what is said of the others as it was.
OtherCalls(c) ==
  \A d \in StageCalls \ {c} :
    /\ call'[d] = call[d] /\ enabled'[d] = enabled[d] /\ stage'[d] = stage[d]
    /\ box'[d] = box[d] /\ results'[d] = results[d] /\ stored'[d] = stored[d]

PartsOf(c) ==
  /\ call[c] \in {"new", "checked", "refused"} =>
       results[c] = NoParts /\ \A p \in Parts : stage[c][p] = "none"
  /\ \A p \in Parts :
       /\ stage[c][p] # "none" => p \in enabled[c]
       /\ ~(call[c] \in {"new", "checked", "refused"}) =>
            /\ box[c][p] \in (IF p \in enabled[c] THEN {"none", "ok", "failed"} ELSE {"none", "empty"})
            /\ results[c][p] \in (IF p \in enabled[c] THEN {"none", "ok", "failed"} ELSE {"none", "empty"})
  /\ call[c] \in {"storing", "embedding", "whole"} => Collected(c) /\ ~AnyFailed(c)
  /\ stored[c] > 0 => call[c] \in {"storing", "embedding", "whole"}

LEMMA PartsOfOne ==
  ASSUME PartsSound, NEW c \in StageCalls, OtherCalls(c), PartsOf(c)'
  PROVE  PartsSound'
<1>1. ASSUME NEW d \in StageCalls PROVE PartsOf(d)'
  <2>1. CASE d = c
    BY <2>1
  <2>2. CASE d # c
    <3>1. PartsOf(d)
      BY DEF PartsSound, PartsOf
    <3>2. /\ call'[d] = call[d] /\ enabled'[d] = enabled[d] /\ stage'[d] = stage[d]
          /\ box'[d] = box[d] /\ results'[d] = results[d] /\ stored'[d] = stored[d]
      BY <2>2 DEF OtherCalls
    <3> QED
      BY <3>1, <3>2 DEF PartsOf, Collected, AnyFailed
  <2> QED
    BY <2>1, <2>2
<1> QED
  BY <1>1 DEF PartsSound, PartsOf

TrackedOf(c) ==
  /\ <<c, "call">> \in tracked <=> CallGoesOn(c)
  /\ <<c, "entity">> \in tracked <=> ExtractsEntities(c)

LEMMA TrackedOfOne ==
  ASSUME TrackedGoOn, NEW c \in StageCalls, OtherCalls(c), TrackedOf(c)',
         \A g : g[1] # c => (g \in tracked' <=> g \in tracked)
  PROVE  TrackedGoOn'
<1>1. ASSUME NEW d \in StageCalls, d # c PROVE TrackedOf(d)'
  <2>1. /\ <<d, "call">> \in tracked' <=> <<d, "call">> \in tracked
        /\ <<d, "entity">> \in tracked' <=> <<d, "entity">> \in tracked
    BY <1>1
  <2>2. call'[d] = call[d] /\ stage'[d] = stage[d]
    BY <1>1 DEF OtherCalls
  <2> QED
    BY <2>1, <2>2 DEF TrackedGoOn, TrackedOf, CallGoesOn, ExtractsEntities
<1> QED
  BY <1>1 DEF TrackedGoOn, TrackedOf

\* Calls that were there at the shutdown do not begin again, and their entity
\* extraction does not start after it.
LEMMA EarlyOfOne ==
  ASSUME EarlyHaveBegun, GoneMeansGone, NEW c \in StageCalls, OtherCalls(c), early' = early,
         UNCHANGED shutdownVars,
         CallGoesOn(c) => CallGoesOn(c)' \/ Returned(c)', Returned(c) => Returned(c)',
         stage[c]["entity"] # "extracting" => stage'[c]["entity"] # "extracting" \/ ~done,
         early \subseteq StageCalls
  PROVE  EarlyHaveBegun' /\ GoneMeansGone'
<1> DEFINE going == {"collecting", "storing", "embedding"}
<1>1. ASSUME NEW d \in StageCalls
      PROVE  /\ call[d] \in going => call'[d] \in going \/ call'[d] \in Answered
             /\ call[d] \in Answered => call'[d] \in Answered
  <2>1. CASE d = c
    BY <2>1 DEF CallGoesOn, Returned
  <2>2. CASE d # c
    BY <2>2 DEF OtherCalls
  <2> QED
    BY <2>1, <2>2
<1>2. EarlyHaveBegun'
  <2>1. \A d \in early' : CallGoesOn(d)' \/ Returned(d)'
    <3> TAKE d \in early'
    <3>1. d \in StageCalls /\ (call[d] \in going \/ call[d] \in Answered)
      BY DEF EarlyHaveBegun, CallGoesOn, Returned
    <3>2. call'[d] \in going \/ call'[d] \in Answered
      BY <1>1, <3>1
    <3> QED
      BY <3>2 DEF Returned, CallGoesOn
  <2>2. /\ coordinator' # "idle" => done'
        /\ goroutines' # "unknown" => coordinator' = "finished"
    BY DEF EarlyHaveBegun, shutdownVars
  <2> QED
    BY <2>1, <2>2 DEF EarlyHaveBegun
<1>3. GoneMeansGone'
  <2> SUFFICES ASSUME goroutines' = "gone", NEW d \in early
               PROVE Returned(d)' /\ stage'[d]["entity"] # "extracting"
    BY DEF GoneMeansGone
  <2>0. d \in StageCalls
    OBVIOUS
  <2>1. done /\ Returned(d) /\ stage[d]["entity"] # "extracting"
    BY DEF GoneMeansGone, EarlyHaveBegun, shutdownVars
  <2> QED
    <3>1. Returned(d)'
      BY <1>1, <2>0, <2>1 DEF Returned
    <3>2. CASE d = c
      BY <2>1, <3>1, <3>2
    <3>3. CASE d # c
      <4>1. stage'[d] = stage[d]
        BY <2>0, <3>3 DEF OtherCalls
      <4> QED
        BY <2>1, <3>1, <4>1
    <3> QED
      BY <3>2, <3>3
<1> QED
  BY <1>2, <1>3

\* What has to be shown of a step of one call.
LEMMA OneCallStep ==
  ASSUME StageInv, NEW c \in StageCalls, StageTypeOK', OtherCalls(c), PartsOf(c)', TrackedOf(c)',
         \A g : g[1] # c => (g \in tracked' <=> g \in tracked),
         early' = early, UNCHANGED shutdownVars,
         CallGoesOn(c) => CallGoesOn(c)' \/ Returned(c)', Returned(c) => Returned(c)',
         stage[c]["entity"] # "extracting" => stage'[c]["entity"] # "extracting" \/ ~done
  PROVE  StageInv'
<1>0. early \subseteq StageCalls
  BY DEF StageInv, StageTypeOK
<1>1. PartsSound'
  BY PartsOfOne DEF StageInv
<1>2. TrackedGoOn'
  BY TrackedOfOne DEF StageInv
<1>3. EarlyHaveBegun' /\ GoneMeansGone'
  BY <1>0, EarlyOfOne DEF StageInv
<1> QED
  BY <1>1, <1>2, <1>3 DEF StageInv

LEMMA TrackOne ==
  ASSUME StageTypeOK, NEW c \in StageCalls, NEW k \in {"call", "entity"}, UNCHANGED shutdownVars,
         tracked' \in {tracked \cup {<<c, k>>}, tracked \ {<<c, k>>}, tracked}
  PROVE  /\ CancelTypeOK' /\ tracked' \subseteq StageCalls \X {"call", "entity"}
         /\ \A g : g[1] # c => (g \in tracked' <=> g \in tracked)
<1>1. IsFiniteSet(tracked) /\ CancelTypeOK /\ tracked \subseteq StageCalls \X {"call", "entity"}
  BY DEF StageTypeOK, CancelTypeOK
<1>2. IsFiniteSet(tracked')
  BY <1>1, FS_AddElement, FS_RemoveElement
<1>3. CancelTypeOK'
  BY <1>1, <1>2 DEF CancelTypeOK, shutdownVars
<1>4. tracked' \subseteq StageCalls \X {"call", "entity"}
  BY <1>1
<1> QED
  BY <1>3, <1>4

LEMMA StageBegins ==
  ASSUME StageInv, NEW c \in StageCalls, Begin(c)
  PROVE  StageInv'
<1>0. /\ StageTypeOK /\ PartsOf(c) /\ TrackedOf(c) /\ call[c] = "new"
      /\ call' = [call EXCEPT ![c] = IF done THEN "refused" ELSE "checked"]
      /\ expired' \in [StageCalls -> BOOLEAN]
      /\ UNCHANGED <<enabled, stage, box, results, stored, early>>
      /\ tracked' = tracked /\ UNCHANGED shutdownVars
  <2>1. StageTypeOK /\ PartsOf(c) /\ TrackedOf(c)
    BY DEF StageInv, PartsSound, PartsOf, TrackedGoOn, TrackedOf
  <2>2. expired' \in [StageCalls -> BOOLEAN]
    BY <2>1 DEF Begin, StageTypeOK
  <2> QED
    BY <2>1, <2>2 DEF Begin, CallGoes, cancelVars, shutdownVars
<1>1. call'[c] \in {"refused", "checked"} /\ \A d \in StageCalls \ {c} : call'[d] = call[d]
  BY <1>0 DEF StageTypeOK
<1>2. CancelTypeOK'
  BY <1>0 DEF StageTypeOK, CancelTypeOK, shutdownVars
<1>3. StageTypeOK'
  BY <1>0, <1>2 DEF StageTypeOK
<1>4. PartsOf(c)' /\ TrackedOf(c)'
  BY <1>0, <1>1 DEF PartsOf, TrackedOf, CallGoesOn, ExtractsEntities, Collected, AnyFailed
<1>5. OtherCalls(c)
  BY <1>0, <1>1 DEF OtherCalls
<1>6. ~CallGoesOn(c) /\ ~Returned(c)
  BY <1>0 DEF CallGoesOn, Returned, Answered
<1> QED
  BY <1>0, <1>3, <1>4, <1>5, <1>6, OneCallStep

LEMMA StageFansOut ==
  ASSUME StageInv, NEW c \in StageCalls, FanOut(c)
  PROVE  StageInv'
<1>0. PICK on \in SUBSET Parts :
      /\ StageTypeOK /\ PartsOf(c) /\ TrackedOf(c) /\ call[c] = "checked"
      /\ call' = [call EXCEPT ![c] = "collecting"]
      /\ enabled' = [enabled EXCEPT ![c] = on]
      /\ stage' = [stage EXCEPT ![c] = [p \in Parts |-> IF p \in on THEN "started" ELSE "none"]]
      /\ box' = [box EXCEPT ![c] = [p \in Parts |-> IF p \in on THEN "none" ELSE "empty"]]
      /\ tracked' = tracked \cup {<<c, "call">>}
      /\ UNCHANGED <<expired, early, results, stored>> /\ UNCHANGED shutdownVars
  BY StageAssumption
     DEF StageInv, PartsSound, PartsOf, TrackedGoOn, TrackedOf, FanOut, CallGoes, Track, callVars
<1>1. /\ call'[c] = "collecting" /\ enabled'[c] = on
      /\ stage'[c] = [p \in Parts |-> IF p \in on THEN "started" ELSE "none"]
      /\ box'[c] = [p \in Parts |-> IF p \in on THEN "none" ELSE "empty"]
      /\ \A d \in StageCalls \ {c} : /\ call'[d] = call[d] /\ enabled'[d] = enabled[d]
                                     /\ stage'[d] = stage[d] /\ box'[d] = box[d]
  BY <1>0 DEF StageTypeOK
<1>2. /\ CancelTypeOK' /\ tracked' \subseteq StageCalls \X {"call", "entity"}
      /\ \A g : g[1] # c => (g \in tracked' <=> g \in tracked)
  BY <1>0, TrackOne
<1>3. StageTypeOK'
  <2>1. /\ stage' \in [StageCalls -> [Parts -> {"none", "started", "tracked", "extracting", "ended"}]]
        /\ box' \in [StageCalls -> [Parts -> {"none", "empty", "ok", "failed"}]]
    BY <1>0 DEF StageTypeOK
  <2> QED
    BY <1>0, <1>2, <2>1 DEF StageTypeOK
<1>4. PartsOf(c)'
  BY <1>0, <1>1 DEF PartsOf, NoParts
<1>5. TrackedOf(c)'
  <2>1. stage'[c]["entity"] \in {"started", "none"} /\ stage[c]["entity"] = "none"
    BY <1>0, <1>1, StageAssumption DEF PartsOf
  <2> QED
    BY <1>0, <1>1, <2>1 DEF TrackedOf, CallGoesOn, ExtractsEntities
<1>6. OtherCalls(c)
  BY <1>0, <1>1 DEF OtherCalls
<1>7. ~CallGoesOn(c) /\ ~Returned(c) /\ stage'[c]["entity"] # "extracting"
  BY <1>0, <1>1, StageAssumption DEF CallGoesOn, Returned, Answered
<1> QED
  BY <1>0, <1>2, <1>3, <1>4, <1>5, <1>6, <1>7, OneCallStep

LEMMA StageCollects ==
  ASSUME StageInv, NEW c \in StageCalls, Collect(c)
  PROVE  StageInv'
<1>0. PICK p \in Parts :
      /\ StageTypeOK /\ PartsOf(c) /\ TrackedOf(c) /\ call[c] = "collecting" /\ box[c][p] # "none"
      /\ results' = [results EXCEPT ![c][p] = box[c][p]]
      /\ box' = [box EXCEPT ![c][p] = "none"]
      /\ UNCHANGED <<call, enabled, expired, early, stage, stored, tracked>>
      /\ UNCHANGED shutdownVars
  BY DEF StageInv, PartsSound, PartsOf, TrackedGoOn, TrackedOf, Collect, callVars, cancelVars,
         shutdownVars
<1>1. /\ results'[c] = [results[c] EXCEPT ![p] = box[c][p]]
      /\ box'[c] = [box[c] EXCEPT ![p] = "none"]
      /\ \A d \in StageCalls \ {c} : results'[d] = results[d] /\ box'[d] = box[d]
  BY <1>0 DEF StageTypeOK
<1>2. CancelTypeOK'
  BY <1>0 DEF StageTypeOK, CancelTypeOK, shutdownVars
<1>3. StageTypeOK'
  <2>1. /\ box[c] \in [Parts -> {"none", "empty", "ok", "failed"}]
        /\ results[c] \in [Parts -> {"none", "empty", "ok", "failed"}]
    BY <1>0 DEF StageTypeOK
  <2>2. /\ [results[c] EXCEPT ![p] = box[c][p]] \in [Parts -> {"none", "empty", "ok", "failed"}]
        /\ [box[c] EXCEPT ![p] = "none"] \in [Parts -> {"none", "empty", "ok", "failed"}]
    BY <2>1
  <2>3. /\ results' \in [StageCalls -> [Parts -> {"none", "empty", "ok", "failed"}]]
        /\ box' \in [StageCalls -> [Parts -> {"none", "empty", "ok", "failed"}]]
    BY <1>0, <2>2 DEF StageTypeOK
  <2> QED
    BY <1>0, <1>2, <2>3 DEF StageTypeOK
<1>4. PartsOf(c)'
  <2>1. ASSUME NEW q \in Parts
        PROVE  /\ box'[c][q] \in {box[c][q], "none"}
               /\ results'[c][q] \in {results[c][q], box[c][q]}
    BY <1>0, <1>1 DEF StageTypeOK
  <2> QED
    BY <1>0, <2>1 DEF PartsOf
<1>5. TrackedOf(c)' /\ OtherCalls(c)
  BY <1>0, <1>1 DEF TrackedOf, CallGoesOn, ExtractsEntities, OtherCalls
<1>6. CallGoesOn(c)' /\ ~Returned(c)
  BY <1>0 DEF CallGoesOn, Returned, Answered
<1> QED
  BY <1>0, <1>3, <1>4, <1>5, <1>6, OneCallStep

\* The call returns, or goes on with what it has collected.
LEMMA StageReturns ==
  ASSUME StageInv, NEW c \in StageCalls, CollectStops(c) \/ CollectFails(c) \/ Embed(c)
  PROVE  StageInv'
<1>0. PICK from \in {"collecting", "embedding"}, to \in {"stopped", "failed", "whole"} :
      /\ StageTypeOK /\ PartsOf(c) /\ TrackedOf(c) /\ call[c] = from
      /\ to = "whole" <=> from = "embedding"
      /\ call' = [call EXCEPT ![c] = to] /\ tracked' = tracked \ {<<c, "call">>}
      /\ UNCHANGED <<enabled, expired, early, stage, box, results, stored>>
      /\ UNCHANGED shutdownVars
  BY DEF StageInv, PartsSound, PartsOf, TrackedGoOn, TrackedOf, CollectStops, CollectFails, Embed,
         Returns, CallGoes, Untrack, callVars
<1>1. call'[c] = to /\ \A d \in StageCalls \ {c} : call'[d] = call[d]
  BY <1>0 DEF StageTypeOK
<1>2. /\ CancelTypeOK' /\ tracked' \subseteq StageCalls \X {"call", "entity"}
      /\ \A g : g[1] # c => (g \in tracked' <=> g \in tracked)
  BY <1>0, TrackOne
<1>3. StageTypeOK'
  BY <1>0, <1>2 DEF StageTypeOK
<1>4. PartsOf(c)'
  <2>1. \A p \in Parts : /\ stage'[c][p] = stage[c][p] /\ box'[c][p] = box[c][p]
                        /\ results'[c][p] = results[c][p] /\ enabled'[c] = enabled[c]
    BY <1>0
  <2>2. CASE from = "collecting"
    BY <1>0, <1>1, <2>1, <2>2 DEF PartsOf
  <2>3. CASE from = "embedding"
    BY <1>0, <1>1, <2>1, <2>3 DEF PartsOf, Collected, AnyFailed
  <2> QED
    BY <2>2, <2>3
<1>5. TrackedOf(c)' /\ OtherCalls(c)
  BY <1>0, <1>1 DEF TrackedOf, CallGoesOn, ExtractsEntities, OtherCalls
<1>6. Returned(c)' /\ ~Returned(c)
  BY <1>0, <1>1 DEF Returned, Answered
<1> QED
  BY <1>0, <1>2, <1>3, <1>4, <1>5, <1>6, OneCallStep

LEMMA StageGoesOn ==
  ASSUME StageInv, NEW c \in StageCalls, Aggregate(c) \/ Store(c)
  PROVE  StageInv'
<1>0. /\ StageTypeOK /\ PartsOf(c) /\ TrackedOf(c) /\ call[c] \in {"collecting", "storing"}
      /\ UNCHANGED <<enabled, expired, early, stage, box, results, tracked>>
      /\ UNCHANGED shutdownVars
  BY DEF StageInv, PartsSound, PartsOf, TrackedGoOn, TrackedOf, Aggregate, Store, CallGoes,
         callVars, cancelVars, shutdownVars
<1>1. /\ call' \in [StageCalls -> {"new", "checked", "collecting", "storing", "embedding", "refused",
                                   "stopped", "failed", "whole"}]
      /\ call'[c] \in {"storing", "embedding"}
      /\ \A d \in StageCalls \ {c} : call'[d] = call[d]
  BY <1>0 DEF Aggregate, Store, CallGoes, StageTypeOK
<1>2. Collected(c) /\ ~AnyFailed(c)
  BY <1>0 DEF Aggregate, Store, PartsOf
<1>3. stored' \in [StageCalls -> 0 .. Cardinality(Parts) + 1] /\ \A d \in StageCalls \ {c} : stored'[d] = stored[d]
  <2>1. enabled[c] \in SUBSET Parts /\ stored[c] \in Nat
    BY <1>0, StageAssumption, FS_CardinalityType DEF StageTypeOK
  <2>2. Cardinality(enabled[c]) <= Cardinality(Parts) /\ Cardinality(Parts) \in Nat
        /\ Cardinality(enabled[c]) \in Nat
    BY <2>1, StageAssumption, FS_Subset, FS_CardinalityType
  <2>3. stored[c] <= Cardinality(enabled[c]) => stored[c] + 1 \in 0 .. Cardinality(Parts) + 1
    BY <2>1, <2>2
  <2>4. \/ stored' = stored
        \/ stored[c] <= Cardinality(enabled[c]) /\ stored' = [stored EXCEPT ![c] = @ + 1]
    BY DEF Aggregate, Store
  <2> QED
    BY <1>0, <2>3, <2>4 DEF StageTypeOK
<1>4. CancelTypeOK'
  BY <1>0 DEF StageTypeOK, CancelTypeOK, shutdownVars
<1>5. StageTypeOK'
  BY <1>0, <1>1, <1>3, <1>4 DEF StageTypeOK
<1>6. PartsOf(c)'
  BY <1>0, <1>1, <1>2 DEF PartsOf, Collected, AnyFailed
<1>7. TrackedOf(c)' /\ OtherCalls(c)
  BY <1>0, <1>1, <1>3 DEF TrackedOf, CallGoesOn, ExtractsEntities, OtherCalls
<1>8. CallGoesOn(c)' /\ ~Returned(c)
  BY <1>0, <1>1 DEF CallGoesOn, Returned, Answered
<1> QED
  BY <1>0, <1>5, <1>6, <1>7, <1>8, OneCallStep

\* The goroutine of a part moves; the entity stage cannot start to extract once
\* the shutdown has begun.
LEMMA StagePartGoes ==
  ASSUME StageInv, NEW c \in StageCalls, NEW p \in Parts,
         NEW from \in {"started", "tracked", "extracting"},
         NEW to \in {"tracked", "extracting", "ended"},
         StageGoes(c, p, from, to),
         to = "ended" => /\ Untrack({<<c, p>>})
                         /\ \E r \in {"ok", "failed"} : box' = [box EXCEPT ![c][p] = r],
         to # "ended" => UNCHANGED box,
         to = "extracting" => UNCHANGED tracked /\ from = Ready(p) /\ ~(p = "entity" /\ done),
         to = "tracked" => Track({<<c, "entity">>}) /\ p = "entity"
  PROVE  StageInv'
<1>0. /\ StageTypeOK /\ PartsOf(c) /\ TrackedOf(c) /\ stage[c][p] = from
      /\ stage' = [stage EXCEPT ![c][p] = to]
      /\ UNCHANGED <<call, enabled, expired, early, results, stored>>
      /\ UNCHANGED shutdownVars
  BY DEF StageInv, PartsSound, PartsOf, TrackedGoOn, TrackedOf, StageGoes, callVars
<1>1. /\ stage'[c] = [stage[c] EXCEPT ![p] = to]
      /\ \A d \in StageCalls \ {c} : stage'[d] = stage[d]
      /\ stage[c] \in [Parts -> {"none", "started", "tracked", "extracting", "ended"}]
  BY <1>0 DEF StageTypeOK
<1>2. /\ stage'[c][p] = to /\ \A q \in Parts \ {p} : stage'[c][q] = stage[c][q]
      /\ stage'[c] \in [Parts -> {"none", "started", "tracked", "extracting", "ended"}]
      /\ stage' \in [StageCalls -> [Parts -> {"none", "started", "tracked", "extracting", "ended"}]]
  <2>1. stage'[c][p] = to /\ \A q \in Parts \ {p} : stage'[c][q] = stage[c][q]
    BY <1>1
  <2>2. stage'[c] \in [Parts -> {"none", "started", "tracked", "extracting", "ended"}]
    BY <1>1
  <2> QED
    BY <1>0, <1>1, <2>1, <2>2 DEF StageTypeOK
<1>3. p # "entity" => <<c, p>> \notin tracked
  <2>1. tracked \subseteq StageCalls \X {"call", "entity"} /\ p # "call"
    BY <1>0, StageAssumption DEF StageTypeOK
  <2> QED
    BY <2>1
<1>4. PICK k \in {"call", "entity"} :
        tracked' \in {tracked \cup {<<c, k>>}, tracked \ {<<c, k>>}, tracked}
  <2>1. CASE to = "ended"
    <3>1. CASE p = "entity"
      BY <2>1, <3>1 DEF Untrack
    <3>2. CASE p # "entity"
      BY <1>3, <2>1, <3>2 DEF Untrack
    <3> QED
      BY <3>1, <3>2
  <2>2. CASE to = "extracting"
    BY <2>2
  <2>3. CASE to = "tracked"
    BY <2>3 DEF Track
  <2> QED
    BY <2>1, <2>2, <2>3
<1>5. /\ CancelTypeOK' /\ tracked' \subseteq StageCalls \X {"call", "entity"}
      /\ \A g : g[1] # c => (g \in tracked' <=> g \in tracked)
  BY <1>0, <1>4, TrackOne
<1>6. /\ box' \in [StageCalls -> [Parts -> {"none", "empty", "ok", "failed"}]]
      /\ \A d \in StageCalls \ {c} : box'[d] = box[d]
      /\ \A q \in Parts : box'[c][q] = box[c][q] \/ (q = p /\ box'[c][q] \in {"ok", "failed"})
  <2>0. box \in [StageCalls -> [Parts -> {"none", "empty", "ok", "failed"}]]
    BY <1>0 DEF StageTypeOK
  <2>1. CASE to # "ended"
    <3>1. box' = box
      BY <2>1
    <3> QED
      BY <2>0, <3>1
  <2>2. CASE to = "ended"
    <3>1. PICK r \in {"ok", "failed"} : box' = [box EXCEPT ![c][p] = r]
      BY <2>2
    <3>2. /\ box[c] \in [Parts -> {"none", "empty", "ok", "failed"}]
          /\ box'[c] = [box[c] EXCEPT ![p] = r]
          /\ \A d \in StageCalls \ {c} : box'[d] = box[d]
      BY <2>0, <3>1
    <3>3. [box[c] EXCEPT ![p] = r] \in [Parts -> {"none", "empty", "ok", "failed"}]
      BY <3>2
    <3>4. box' \in [StageCalls -> [Parts -> {"none", "empty", "ok", "failed"}]]
      BY <2>0, <3>1, <3>3
    <3>5. \A q \in Parts : box'[c][q] = box[c][q] \/ (q = p /\ box'[c][q] \in {"ok", "failed"})
      BY <3>2
    <3> QED
      BY <3>2, <3>4, <3>5
  <2> QED
    BY <2>1, <2>2
<1>7. StageTypeOK'
  BY <1>0, <1>2, <1>5, <1>6 DEF StageTypeOK
<1>8. /\ ~(call[c] \in {"new", "checked", "refused"}) /\ p \in enabled[c]
  BY <1>0 DEF PartsOf
<1>9. PartsOf(c)'
  BY <1>0, <1>2, <1>6, <1>8 DEF PartsOf, Collected, AnyFailed
<1>10. TrackedOf(c)'
  <2>1. <<c, "call">> \in tracked' <=> <<c, "call">> \in tracked
    BY StageAssumption DEF Untrack, Track
  <2>2. <<c, "entity">> \in tracked' <=> ExtractsEntities(c)'
    <3>1. CASE p # "entity"
      <4>1. tracked' = tracked
        BY <1>3, <3>1 DEF Untrack
      <4>2. stage'[c]["entity"] = stage[c]["entity"]
        BY <1>2, <3>1, StageAssumption
      <4> QED
        BY <1>0, <4>1, <4>2 DEF TrackedOf, ExtractsEntities
    <3>2. CASE p = "entity"
      <4>1. CASE to = "ended"
        BY <1>2, <3>2, <4>1 DEF Untrack, ExtractsEntities
      <4>2. CASE to = "extracting"
        BY <1>0, <1>2, <3>2, <4>2 DEF TrackedOf, ExtractsEntities, Ready
      <4>3. CASE to = "tracked"
        BY <1>2, <3>2, <4>3 DEF Track, ExtractsEntities
      <4> QED
        BY <4>1, <4>2, <4>3
    <3> QED
      BY <3>1, <3>2
  <2> QED
    BY <1>0, <2>1, <2>2 DEF TrackedOf, CallGoesOn
<1>11. OtherCalls(c)
  BY <1>0, <1>1, <1>6 DEF OtherCalls
<1>12. stage[c]["entity"] # "extracting" => stage'[c]["entity"] # "extracting" \/ ~done
  <2>1. CASE p = "entity" /\ to = "extracting"
    BY <2>1
  <2>2. CASE p = "entity" /\ to # "extracting"
    BY <1>2, <2>2
  <2>3. CASE p # "entity"
    BY <1>2, <2>3, StageAssumption
  <2> QED
    BY <2>1, <2>2, <2>3
<1>13. /\ CallGoesOn(c) => CallGoesOn(c)' /\ UNCHANGED early
       /\ Returned(c) => Returned(c)'
  BY <1>0 DEF CallGoesOn, Returned
<1> QED
  BY <1>0, <1>5, <1>7, <1>9, <1>10, <1>11, <1>12, <1>13, OneCallStep

LEMMA StagePartStep ==
  ASSUME StageInv, NEW c \in StageCalls,
         \/ EntityTracked(c)
         \/ \E p \in Parts : \/ PartSteps(c, p)
                            \/ ExtractionSucceeds(c, p) \/ ExtractionFails(c, p)
  PROVE  StageInv'
<1>1. CASE EntityTracked(c)
  BY <1>1, StageAssumption, StagePartGoes DEF EntityTracked
<1>2. ASSUME NEW p \in Parts, NEW from \in {"started", "tracked", "extracting"},
             NEW r \in {"ok", "failed"}, Sends(c, p, from, r)
      PROVE  StageInv'
  BY <1>2, StagePartGoes DEF Sends
<1>3. ASSUME NEW p \in Parts, Refuses(c, p) PROVE StageInv'
  BY <1>2, <1>3 DEF Refuses, Ready
<1>4. ASSUME NEW p \in Parts, Extracts(c, p) PROVE StageInv'
  <2>1. Ready(p) \in {"started", "tracked", "extracting"}
    BY DEF Ready
  <2> QED
    BY <1>4, <2>1, StagePartGoes DEF Extracts
<1>5. ASSUME NEW p \in Parts,
             ExtractionSucceeds(c, p) \/ ExtractionFails(c, p) \/ ExtractionCancelled(c, p)
      PROVE  StageInv'
  BY <1>2, <1>5 DEF ExtractionSucceeds, ExtractionFails, ExtractionCancelled
<1> QED
  BY <1>1, <1>3, <1>4, <1>5 DEF PartSteps

LEMMA StageExpires ==
  ASSUME StageInv, NEW c \in StageCalls, Expires(c)
  PROVE  StageInv'
<1>0. /\ StageTypeOK /\ PartsOf(c) /\ TrackedOf(c)
      /\ UNCHANGED <<call, enabled, stage, box, results, stored, early, tracked>>
      /\ UNCHANGED shutdownVars
  BY DEF StageInv, PartsSound, PartsOf, TrackedGoOn, TrackedOf, Expires, cancelVars, shutdownVars
<1>1. CancelTypeOK'
  BY <1>0 DEF StageTypeOK, CancelTypeOK, shutdownVars
<1>2. expired' \in [StageCalls -> BOOLEAN]
  BY <1>0 DEF StageTypeOK, Expires
<1>3. StageTypeOK'
  BY <1>0, <1>1, <1>2 DEF StageTypeOK
<1>4. PartsOf(c)' /\ TrackedOf(c)' /\ OtherCalls(c)
  BY <1>0 DEF PartsOf, Collected, AnyFailed, TrackedOf, CallGoesOn, ExtractsEntities, OtherCalls
<1>5. /\ CallGoesOn(c) => CallGoesOn(c)'
      /\ Returned(c) => Returned(c)'
  BY <1>0 DEF CallGoesOn, Returned
<1> QED
  BY <1>0, <1>3, <1>4, <1>5, OneCallStep

\* Only the coordinator, or nothing that is modelled here, moves.
LEMMA CallsStay ==
  ASSUME StageInv, UNCHANGED <<call, enabled, expired, stage, box, results, stored>>,
         tracked' = tracked
  PROVE  PartsSound' /\ TrackedGoOn'
BY DEF StageInv, PartsSound, Collected, AnyFailed, TrackedGoOn, CallGoesOn, ExtractsEntities

LEMMA StageShutsDown ==
  ASSUME StageInv, StageShutdown
  PROVE  StageInv'
<1>0. /\ StageTypeOK /\ coordinator = "idle" /\ coordinator' = "closing" /\ done' = TRUE
      /\ contexts' \in {"all", "live"} /\ early' = {c \in StageCalls : <<c, "call">> \in tracked}
      /\ UNCHANGED <<root, registered, stopping, tracked, goroutines>>
      /\ UNCHANGED <<call, enabled, expired, stage, box, results, stored>>
  BY DEF StageInv, StageShutdown, InitiateShutdown
<1>1. PartsSound' /\ TrackedGoOn'
  BY <1>0, CallsStay
<1>2. CancelTypeOK'
  BY <1>0 DEF StageTypeOK, CancelTypeOK
<1>3. StageTypeOK'
  BY <1>0, <1>2 DEF StageTypeOK
<1>4. goroutines' = "unknown"
  BY <1>0 DEF StageInv, EarlyHaveBegun
<1>5. \A c \in early' : CallGoesOn(c)'
  BY <1>0 DEF StageInv, TrackedGoOn, CallGoesOn
<1> QED
  BY <1>0, <1>1, <1>3, <1>4, <1>5 DEF StageInv, EarlyHaveBegun, GoneMeansGone

\* The wait for the goroutines finds them gone only when no call and no entity
\* extraction is tracked.
LEMMA StageCoordinates ==
  ASSUME StageInv, AnalyzerCoordinatorStep
  PROVE  StageInv'
<1>0. /\ CancelTypeOK /\ EarlyHaveBegun
      /\ UNCHANGED <<call, enabled, expired, stage, box, results, stored, early>>
  BY DEF StageInv, StageTypeOK, AnalyzerCoordinatorStep, stageVars
<1>1. CASE ComponentTimesOut("pipeline_stages_analyzer")
  BY <1>0, <1>1 DEF ComponentTimesOut, ComponentStops, CancelTypeOK, StageInv, StageTypeOK, PartsSound,
       Collected, AnyFailed, TrackedGoOn, CallGoesOn, ExtractsEntities, EarlyHaveBegun, GoneMeansGone,
       Returned
<1>2. CASE CoordinatorStep
  <2>1. /\ UNCHANGED <<done, registered, tracked>> /\ coordinator # "idle" /\ coordinator # "finished"
        /\ coordinator' \in {"copying", "stopping", "waiting", "finished"}
        /\ contexts' \in {"live", "component", "all"} /\ root' \in BOOLEAN
        /\ \A k \in DOMAIN stopping' : stopping'[k] \in {"running", "ok", "failed"}
        /\ \/ goroutines' = goroutines
           \/ coordinator' = "finished" /\ goroutines' = "left"
           \/ coordinator' = "finished" /\ goroutines' = "gone" /\ tracked = {}
    BY <1>0, <1>2
       DEF CoordinatorStep, CancelRoot, CopyComponents, CollectResults, CollectTimesOut,
           GoroutinesDone, GracefulTimeout, Waited, ComponentTimeout, ShutdownTimeout, CancelTypeOK
  <2>2. goroutines = "unknown"
    BY <1>0, <2>1 DEF EarlyHaveBegun
  <2>3. CancelTypeOK'
    BY <1>0, <2>1 DEF CancelTypeOK
  <2>4. StageTypeOK'
    BY <1>0, <2>1, <2>3 DEF StageInv, StageTypeOK
  <2>5. PartsSound' /\ TrackedGoOn'
    BY <1>0, <2>1, CallsStay
  <2>6. EarlyHaveBegun'
    BY <1>0, <2>1, <2>2 DEF EarlyHaveBegun, CallGoesOn, Returned
  <2>7. GoneMeansGone'
    <3> SUFFICES ASSUME goroutines' = "gone", NEW c \in early
                 PROVE Returned(c)' /\ stage'[c]["entity"] # "extracting"
      BY <1>0 DEF GoneMeansGone
    <3>1. tracked = {} /\ c \in StageCalls
      BY <2>1, <2>2 DEF StageInv, StageTypeOK
    <3>2. ~CallGoesOn(c) /\ ~ExtractsEntities(c)
      BY <3>1 DEF StageInv, TrackedGoOn
    <3>3. Returned(c)
      BY <1>0, <3>2 DEF EarlyHaveBegun
    <3> QED
      BY <1>0, <3>2, <3>3 DEF Returned, ExtractsEntities
  <2> QED
    BY <2>4, <2>5, <2>6, <2>7 DEF StageInv
<1> QED
  BY <1>1, <1>2 DEF AnalyzerCoordinatorStep

LEMMA StageInvStep == StageInv /\ [StageNext]_allStageVars => StageInv'
<1> SUFFICES ASSUME StageInv, [StageNext]_allStageVars PROVE StageInv'
  OBVIOUS
<1>1. CASE UNCHANGED allStageVars
  BY <1>1 DEF allStageVars, stageVars, cancelVars, StageInv, StageTypeOK, CancelTypeOK, PartsSound,
       Collected, AnyFailed, TrackedGoOn, CallGoesOn, ExtractsEntities, EarlyHaveBegun,
       GoneMeansGone, Returned
<1>2. CASE StageNext
  BY <1>2, StageBegins, StageFansOut, StageCollects, StageReturns, StageGoesOn, StagePartStep,
     StageExpires, StageShutsDown, StageCoordinates
     DEF StageNext, StageStep, CallSteps
<1> QED
  BY <1>1, <1>2

\* However stages, deadlines and a shutdown mix, an answer without an error and a
\* stored document hold every part that was asked for; and when the coordinator
\* reports that all goroutines are gone, the calls it knew and their entity
\* extractions are (AnalyzeDocumentPipeline, coordinateComponentShutdown).
THEOREM AnswersWhole == StageSpec => []StagesSound
<1>1. ASSUME StageInv PROVE StagesSound
  <2>1. ASSUME NEW c \in StageCalls, call[c] = "whole" \/ stored[c] > 0, NEW p \in Parts
        PROVE  results[c][p] = IF p \in enabled[c] THEN "ok" ELSE "empty"
    <3>1. PartsOf(c)
      BY <1>1 DEF StageInv, PartsSound, PartsOf
    <3>2. call[c] \in {"storing", "embedding", "whole"} /\ Collected(c) /\ ~AnyFailed(c)
      BY <2>1, <3>1 DEF PartsOf
    <3> QED
      BY <3>1, <3>2 DEF PartsOf, Collected, AnyFailed
  <2> QED
    BY <1>1, <2>1 DEF StageInv, StagesSound, AnswersAreWhole
<1> QED
  BY <1>1, StageStart, StageInvStep, PTL DEF StageSpec

-----------------------------------------------------------------------------
(* The three lifecycles together *)

\* However calls of Start and Stop, workers, loops, signals and failures mix, the
\* workers are created once and are over when their shutdown is reported, the
\* display shows what it has, and the exit code tells the truth (AnalysisSystem,
\* HardwareSubsystem, main).
THEOREM LifecyclesAreSound ==
  SystemSpec /\ DevicesSpec /\ ProcessSpec => []LifecyclesSound
<1>1. /\ SystemTypeOK /\ StartedOnce
      /\ DeviceTypeOK /\ DisplayShowsWhatItHas
      /\ ProcessTypeOK /\ ExitTellsTruth
      => LifecyclesSound
  BY DEF LifecyclesSound
<1> QED
  BY <1>1, WorkersStartOnce, DisplayIsTrue, ExitIsTrue, PTL
=============================================================================
