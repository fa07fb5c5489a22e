---------------------- MODULE OrchestratorStartupProofs ----------------------
(***************************************************************************)
(* Theorems about the start of an orchestrator, for every sequence of      *)
(* pipelines, every number of workers and every size of the channels.      *)
(***************************************************************************)
EXTENDS OrchestratorStartup, TLAPS, SequenceTheorems, FiniteSetTheorems

-----------------------------------------------------------------------------
(* Lemmas about the channels and the pipelines. *)

\* A receive takes a message of the channel and leaves a shorter one.
LEMMA ReceiveType ==
  ASSUME NEW S, NEW s \in Seq(S), s # <<>>
  PROVE  /\ Head(s) \in S /\ Head(s) = s[1] /\ 1 \in DOMAIN s
         /\ Tail(s) \in Seq(S)
         /\ Len(s) \in Nat \ {0}
         /\ Len(Tail(s)) = Len(s) - 1
         /\ DOMAIN Tail(s) = 1 .. Len(s) - 1
         /\ \A i \in 1 .. Len(s) - 1 : Tail(s)[i] = s[i + 1] /\ i + 1 \in DOMAIN s
BY HeadTailProperties, EmptySeq, LenProperties

\* A send makes the channel one longer and leaves what it holds.
LEMMA SendType ==
  ASSUME NEW S, NEW s \in Seq(S), NEW x \in S
  PROVE  /\ Append(s, x) \in Seq(S)
         /\ Append(s, x) # <<>>
         /\ Len(s) \in Nat
         /\ Len(Append(s, x)) = Len(s) + 1
         /\ DOMAIN s = 1 .. Len(s)
         /\ DOMAIN Append(s, x) = 1 .. Len(s) + 1
         /\ Append(s, x)[Len(s) + 1] = x
         /\ \A i \in 1 .. Len(s) : Append(s, x)[i] = s[i]
BY AppendProperties, LenProperties

LEMMA ToAddType ==
  /\ Len(ToAdd) \in Nat
  /\ DOMAIN ToAdd = 1 .. Len(ToAdd)
  /\ \A i \in 1 .. Len(ToAdd) : ToAdd[i] \in Pipelines
BY ToAddAssumption, LenProperties, ElementOfSeq DEF Pipelines

\* The first pipelines, and the one after them.
LEMMA PrefixGrows ==
  ASSUME NEW n \in 0 .. Len(ToAdd) - 1
  PROVE  Append(SubSeq(ToAdd, 1, n), ToAdd[n + 1]) = SubSeq(ToAdd, 1, n + 1)
<1>1. /\ n \in Nat /\ n + 1 \in 1 .. Len(ToAdd)
      /\ ToAdd[n + 1] \in Pipelines
  BY ToAddType
<1>2. /\ SubSeq(ToAdd, 1, n) \in Seq(Pipelines)
      /\ SubSeq(ToAdd, 1, n + 1) \in Seq(Pipelines)
      /\ Len(SubSeq(ToAdd, 1, n)) = n
      /\ Len(SubSeq(ToAdd, 1, n + 1)) = n + 1
      /\ \A i \in 1 .. n : SubSeq(ToAdd, 1, n)[i] = ToAdd[i]
      /\ \A i \in 1 .. n + 1 : SubSeq(ToAdd, 1, n + 1)[i] = ToAdd[i]
  BY <1>1, ToAddAssumption, ToAddType, SubSeqProperties
<1>3. /\ Append(SubSeq(ToAdd, 1, n), ToAdd[n + 1]) \in Seq(Pipelines)
      /\ Len(Append(SubSeq(ToAdd, 1, n), ToAdd[n + 1])) = n + 1
      /\ \A i \in 1 .. n + 1 :
           Append(SubSeq(ToAdd, 1, n), ToAdd[n + 1])[i] = ToAdd[i]
  BY <1>1, <1>2, SendType
<1>. QED  BY <1>2, <1>3, SeqEqual

\* What a prefix of the pipelines to add is.
LEMMA PrefixType ==
  ASSUME NEW n \in 0 .. Len(ToAdd)
  PROVE  /\ SubSeq(ToAdd, 1, n) \in Seq(Pipelines)
         /\ Len(SubSeq(ToAdd, 1, n)) = n
         /\ DOMAIN SubSeq(ToAdd, 1, n) = 1 .. n
         /\ \A i \in 1 .. n : SubSeq(ToAdd, 1, n)[i] = ToAdd[i]
<1>1. n \in Nat /\ n <= Len(ToAdd)
  BY ToAddType
<1>2. /\ SubSeq(ToAdd, 1, n) \in Seq(Pipelines)
      /\ Len(SubSeq(ToAdd, 1, n)) = n
      /\ \A i \in 1 .. n : SubSeq(ToAdd, 1, n)[i] = ToAdd[i]
  BY <1>1, ToAddAssumption, ToAddType, SubSeqProperties
<1>. QED  BY <1>2, <1>1, LenProperties

-----------------------------------------------------------------------------
(* The inductive invariant.  Nothing is selected before Start, workers are *)
(* only created while there are some to create, and the additions the      *)
(* coordinator will find are known pipelines, or the one whose addition    *)
(* the creator is still waiting for.                                       *)

Waited == IF starter = "confirming" THEN {NextPipeline} ELSE {}

PhasesAgree ==
  /\ starter \in {"adding", "confirming"} =>
       /\ coordination = "unborn"
       /\ workers = <<>>
       /\ roundRobinCounter = 0
       /\ pipelineSelectChan = <<>>
       /\ answer = [w \in WorkerIDs |-> <<>>]
  /\ starter = "failed" => coordination = "unborn"
  /\ starter = "confirming" => added < Len(ToAdd)
  /\ starter \in {"asking", "choosing"} => Len(workers) < NumWorkers
  /\ coordination # "unborn" => pipelines # <<>>

AdditionsKnown ==
  \A i \in DOMAIN coordinationChan :
    coordinationChan[i].type = "addition" =>
      coordinationChan[i].pipeline \in KnownPipelines \cup Waited

StartInv == StartupTypeOK /\ PhasesAgree /\ PipelinesAsAdded /\ AdditionsKnown

LEMMA StartInvInit == StartupInit => StartInv
<1>. SUFFICES ASSUME StartupInit PROVE StartInv
  OBVIOUS
<1>1. StartupTypeOK
  <2>1. /\ \A S : <<>> \in Seq(S)
        /\ Len(<<>>) = 0
    BY EmptySeq
  <2>2. answer \in [WorkerIDs -> Seq(Chosen)]
    BY <2>1 DEF StartupInit
  <2>3. Len(ToAdd) \in Nat /\ NumWorkers \in Nat /\ CoordSize \in Nat /\ SelectSize \in Nat
    BY ToAddType, SizesAssumption
  <2>4. /\ pipelines \in Seq(Pipelines)
        /\ workers \in Seq(Chosen) /\ Len(workers) <= NumWorkers
        /\ coordinationChan \in Seq(Message) /\ Len(coordinationChan) <= CoordSize
        /\ pipelineSelectChan \in Seq(WorkerIDs)
        /\ Len(pipelineSelectChan) <= SelectSize
    BY <2>1, <2>3 DEF StartupInit
  <2>5. added \in 0 .. Len(ToAdd) /\ roundRobinCounter \in Nat
    BY <2>3 DEF StartupInit
  <2>. QED  BY <2>2, <2>4, <2>5 DEF StartupInit, StartupTypeOK, StarterStates
<1>2. PhasesAgree
  BY DEF StartupInit, PhasesAgree
<1>3. PipelinesAsAdded
  BY PrefixType, ToAddType, EmptySeq DEF StartupInit, PipelinesAsAdded
<1>4. AdditionsKnown
  BY DEF StartupInit, AdditionsKnown
<1>. QED  BY <1>1, <1>2, <1>3, <1>4 DEF StartInv

\* The pipeline the coordinator would select next is one of o.pipelines.
LEMMA SelectedType ==
  ASSUME StartInv, coordination # "unborn"
  PROVE  /\ Selected \in Pipelines
         /\ Counted \in Nat
<1>1. pipelines \in Seq(Pipelines) /\ pipelines # <<>> /\ roundRobinCounter \in Nat
  BY DEF StartInv, StartupTypeOK, PhasesAgree
<1>2. Len(pipelines) \in Nat \ {0} /\ DOMAIN pipelines = 1 .. Len(pipelines)
  BY <1>1, LenProperties, EmptySeq
<1>3. roundRobinCounter % Len(pipelines) \in 0 .. Len(pipelines) - 1
  BY <1>1, <1>2
<1>4. \A i \in 1 .. Len(pipelines) : pipelines[i] \in Pipelines
  BY <1>1, <1>2, ElementOfSeq
<1>5. 1 \in 1 .. Len(pipelines)
      /\ (roundRobinCounter % Len(pipelines)) + 1 \in 1 .. Len(pipelines)
  BY <1>2, <1>3
<1>. QED  BY <1>1, <1>4, <1>5 DEF Selected, Counted

\* A message in the channel adds nothing the orchestrator does not have.
LEMMA NothingNewToAdd ==
  ASSUME StartInv, coordination = "loop", coordinationChan # <<>>,
         Head(coordinationChan).type = "addition"
  PROVE  Head(coordinationChan).pipeline \in KnownPipelines
<1>1. starter # "confirming"
  BY DEF StartInv, PhasesAgree
<1>2. Head(coordinationChan) = coordinationChan[1] /\ 1 \in DOMAIN coordinationChan
  BY ReceiveType DEF StartInv, StartupTypeOK
<1>. QED  BY <1>1, <1>2 DEF StartInv, AdditionsKnown, Waited

-----------------------------------------------------------------------------
(* Every step keeps the types. *)

LEMMA MessagesTyped ==
  /\ RunningMessage \in Message
  /\ \A p \in Pipelines : Addition(p) \in Message
BY DEF Message

LEMMA TypeStep == StartInv /\ [StartupNext]_startupVars => StartupTypeOK'
<1>. SUFFICES ASSUME StartInv, [StartupNext]_startupVars PROVE StartupTypeOK'
  OBVIOUS
<1>. USE DEF StartInv
<1>1. /\ coordinationChan \in Seq(Message) /\ Len(coordinationChan) <= CoordSize
      /\ pipelineSelectChan \in Seq(WorkerIDs) /\ Len(pipelineSelectChan) <= SelectSize
      /\ pipelines \in Seq(Pipelines) /\ workers \in Seq(Chosen)
      /\ answer \in [WorkerIDs -> Seq(Chosen)]
      /\ Len(workers) \in Nat /\ Len(coordinationChan) \in Nat
      /\ Len(pipelineSelectChan) \in Nat
      /\ CoordSize \in Nat /\ SelectSize \in Nat /\ NumWorkers \in Nat
      /\ added \in 0 .. Len(ToAdd) /\ Len(ToAdd) \in Nat
  BY SizesAssumption, ToAddType, LenProperties DEF StartupTypeOK
<1>2. CASE QueueAddition
  <2>1. NextPipeline \in Pipelines
    BY <1>1, <1>2, ToAddType DEF QueueAddition, NextPipeline
  <2>2. Addition(NextPipeline) \in Message
    BY <2>1, MessagesTyped
  <2>3. /\ coordinationChan' \in Seq(Message)
        /\ Len(coordinationChan') <= CoordSize
    BY <1>1, <1>2, <2>2, SendType DEF QueueAddition
  <2>. QED  BY <1>2, <2>3 DEF QueueAddition, StartupTypeOK, StarterStates, coordVars, outsideVars
<1>3. ASSUME AddDirectly, added < Len(ToAdd) PROVE StartupTypeOK'
  <2>1. NextPipeline \in Pipelines
    BY <1>1, <1>3, ToAddType DEF NextPipeline
  <2>2. pipelines' \in Seq(Pipelines)
    BY <1>1, <1>3, <2>1, SendType DEF AddDirectly
  <2>3. added' \in 0 .. Len(ToAdd)
    BY <1>1, <1>3 DEF AddDirectly
  <2>. QED  BY <1>3, <2>2, <2>3 DEF AddDirectly, StartupTypeOK, StarterStates, coordVars, outsideVars
<1>4. CASE ConfirmationTimeout
  BY <1>3, <1>4 DEF ConfirmationTimeout, PhasesAgree
<1>5. CASE AddWithoutCoordination
  BY <1>3, <1>5 DEF AddWithoutCoordination
<1>6. CASE NothingToStart
  BY <1>6 DEF NothingToStart, StartupTypeOK, StarterStates, coordVars, outsideVars
<1>7. \A n \in Nat : AfterWorkers(n) \in StarterStates
  BY DEF AfterWorkers, StarterStates
<1>8. CASE StartCoordinator
  BY <1>7, <1>8 DEF StartCoordinator, StartupTypeOK, outsideVars
<1>9. CASE AskForPipeline
  <2>1. Len(workers) \in WorkerIDs
    BY <1>1, <1>9 DEF AskForPipeline, PhasesAgree, WorkerIDs
  <2>2. /\ pipelineSelectChan' \in Seq(WorkerIDs)
        /\ Len(pipelineSelectChan') <= SelectSize
    BY <1>1, <1>9, <2>1, SendType DEF AskForPipeline
  <2>. QED  BY <1>9, <2>2 DEF AskForPipeline, StartupTypeOK, StarterStates, coordVars, outsideVars
<1>10. ASSUME NEW p \in Chosen, CreateWorker(p), starter \in {"asking", "choosing"},
              answer' \in [WorkerIDs -> Seq(Chosen)]
       PROVE  StartupTypeOK'
  <2>1. /\ workers' \in Seq(Chosen)
        /\ Len(workers') <= NumWorkers
    BY <1>1, <1>10, SendType DEF CreateWorker, PhasesAgree
  <2>2. starter' \in StarterStates
    BY <1>1, <1>7, <1>10 DEF CreateWorker
  <2>. QED  BY <1>10, <2>1, <2>2 DEF CreateWorker, StartupTypeOK, coordVars, outsideVars
<1>11. CASE TakeAnswer
  <2>1. Len(workers) \in WorkerIDs
    BY <1>1, <1>11 DEF TakeAnswer, PhasesAgree, WorkerIDs
  <2>2. answer[Len(workers)] \in Seq(Chosen) /\ answer[Len(workers)] # <<>>
    BY <1>1, <1>11, <2>1 DEF TakeAnswer
  <2>3. /\ Head(answer[Len(workers)]) \in Chosen
        /\ Tail(answer[Len(workers)]) \in Seq(Chosen)
    BY <2>2, ReceiveType
  <2>4. answer' \in [WorkerIDs -> Seq(Chosen)]
    BY <1>1, <1>11, <2>3 DEF TakeAnswer
  <2>. QED  BY <1>10, <1>11, <2>3, <2>4 DEF TakeAnswer
<1>12. CASE SelectionShutDown
  <2>1. NilPipeline \in Chosen
    BY DEF Chosen
  <2>. QED  BY <1>1, <1>10, <1>12, <2>1 DEF SelectionShutDown
<1>13. CASE AnnounceRunning
  <2>1. /\ coordinationChan' \in Seq(Message)
        /\ Len(coordinationChan') <= CoordSize
    BY <1>1, <1>13, MessagesTyped, SendType DEF AnnounceRunning, Announce
  <2>. QED
    BY <1>13, <2>1 DEF AnnounceRunning, Announce, StartupTypeOK, StarterStates,
                       coordVars, outsideVars
<1>14. CASE TakeMessage
  <2>1. /\ coordinationChan' \in Seq(Message)
        /\ Len(coordinationChan') <= CoordSize
    BY <1>1, <1>14, ReceiveType DEF TakeMessage
  <2>2. pipelines' = pipelines
    BY <1>14, NothingNewToAdd DEF TakeMessage, AddUnlessKnown
  <2>3. isRunning' \in BOOLEAN
    BY <1>14 DEF TakeMessage, StartupTypeOK
  <2>. QED  BY <1>14, <2>1, <2>2, <2>3 DEF TakeMessage, StartupTypeOK, outsideVars
<1>15. CASE SelectPipeline
  <2>1. Selected \in Chosen /\ Counted \in Nat
    BY <1>15, SelectedType DEF SelectPipeline, Chosen
  <2>2. /\ pipelineSelectChan' \in Seq(WorkerIDs)
        /\ Len(pipelineSelectChan') <= SelectSize
        /\ Head(pipelineSelectChan) \in WorkerIDs
    BY <1>1, <1>15, ReceiveType DEF SelectPipeline
  <2>3. Append(answer[Head(pipelineSelectChan)], Selected) \in Seq(Chosen)
    BY <1>1, <2>1, <2>2, SendType
  <2>4. answer' \in [WorkerIDs -> Seq(Chosen)]
    BY <1>1, <1>15, <2>2, <2>3 DEF SelectPipeline
  <2>. QED  BY <1>15, <2>1, <2>2, <2>4 DEF SelectPipeline, StartupTypeOK, startVars, outsideVars
<1>16. CASE CoordinatorExits
  BY <1>16 DEF CoordinatorExits, CoordinatorReturns, StartupTypeOK, startVars, outsideVars
<1>17. CASE Cancel
  BY <1>17 DEF Cancel, StartupTypeOK, startVars, coordVars
<1>18. CASE CloseShutdownChan
  BY <1>18 DEF CloseShutdownChan, StartupTypeOK, startVars, coordVars
<1>19. CASE UNCHANGED startupVars
  BY <1>19 DEF startupVars, StartupTypeOK, startVars, coordVars, outsideVars
<1>. QED
  BY <1>2, <1>4, <1>5, <1>6, <1>8, <1>9, <1>11, <1>12, <1>13, <1>14, <1>15,
     <1>16, <1>17, <1>18, <1>19 DEF StartupNext, StarterStep, CoordinationStep

-----------------------------------------------------------------------------
(* Every step keeps the phases. *)

LEMMA PhasesStep == StartInv /\ [StartupNext]_startupVars => PhasesAgree'
<1>. SUFFICES ASSUME StartInv, [StartupNext]_startupVars PROVE PhasesAgree'
  OBVIOUS
<1>1. /\ PhasesAgree /\ pipelines \in Seq(Pipelines) /\ workers \in Seq(Chosen)
      /\ Len(workers) \in Nat /\ added \in Nat /\ Len(ToAdd) \in Nat
      /\ NumWorkers \in Nat
  BY ToAddType, LenProperties, SizesAssumption DEF StartInv, StartupTypeOK
<1>2. CASE QueueAddition
  BY <1>1, <1>2 DEF QueueAddition, PhasesAgree, coordVars
<1>3. ASSUME AddDirectly, starter \in {"adding", "confirming"} PROVE PhasesAgree'
  BY <1>1, <1>3 DEF AddDirectly, PhasesAgree, coordVars
<1>4. CASE ConfirmationTimeout
  BY <1>3, <1>4 DEF ConfirmationTimeout
<1>5. CASE AddWithoutCoordination
  BY <1>3, <1>5 DEF AddWithoutCoordination
<1>6. CASE NothingToStart
  BY <1>1, <1>6 DEF NothingToStart, PhasesAgree, coordVars
<1>7. CASE StartCoordinator
  <2>1. workers = <<>> /\ Len(workers) = 0
    BY <1>1, <1>7, EmptySeq DEF StartCoordinator, PhasesAgree
  <2>. QED  BY <1>1, <1>7, <2>1 DEF StartCoordinator, PhasesAgree, AfterWorkers
<1>8. CASE AskForPipeline
  BY <1>1, <1>8 DEF AskForPipeline, PhasesAgree, coordVars
<1>9. ASSUME NEW p \in Chosen, CreateWorker(p), starter \in {"asking", "choosing"}
      PROVE  PhasesAgree'
  <2>1. Len(workers') = Len(workers) + 1
    BY <1>1, <1>9, SendType DEF CreateWorker
  <2>. QED  BY <1>1, <1>9, <2>1 DEF CreateWorker, PhasesAgree, AfterWorkers, coordVars
<1>10. CASE TakeAnswer
  <2>1. Head(answer[Len(workers)]) \in Chosen
    <3>1. Len(workers) \in WorkerIDs
      BY <1>1, <1>10 DEF TakeAnswer, PhasesAgree, WorkerIDs
    <3>2. answer[Len(workers)] \in Seq(Chosen) /\ answer[Len(workers)] # <<>>
      BY <3>1, <1>10 DEF TakeAnswer, StartInv, StartupTypeOK
    <3>. QED  BY <3>2, ReceiveType
  <2>. QED  BY <1>9, <1>10, <2>1 DEF TakeAnswer
<1>11. CASE SelectionShutDown
  BY <1>9, <1>11 DEF SelectionShutDown, Chosen
<1>12. CASE AnnounceRunning
  BY <1>1, <1>12 DEF AnnounceRunning, Announce, PhasesAgree, coordVars
<1>13. CASE TakeMessage
  <2>1. pipelines' = pipelines
    BY <1>13, NothingNewToAdd DEF TakeMessage, AddUnlessKnown
  <2>. QED  BY <1>1, <1>13, <2>1 DEF TakeMessage, PhasesAgree
<1>14. CASE SelectPipeline
  BY <1>1, <1>14 DEF SelectPipeline, PhasesAgree, startVars
<1>15. CASE CoordinatorExits
  BY <1>1, <1>15 DEF CoordinatorExits, CoordinatorReturns, PhasesAgree, startVars
<1>16. CASE Cancel
  BY <1>1, <1>16 DEF Cancel, PhasesAgree, startVars, coordVars
<1>17. CASE CloseShutdownChan
  BY <1>1, <1>17 DEF CloseShutdownChan, PhasesAgree, startVars, coordVars
<1>18. CASE UNCHANGED startupVars
  BY <1>1, <1>18 DEF startupVars, PhasesAgree, startVars, coordVars
<1>. QED
  BY <1>2, <1>4, <1>5, <1>6, <1>7, <1>8, <1>10, <1>11, <1>12, <1>13, <1>14,
     <1>15, <1>16, <1>17, <1>18 DEF StartupNext, StarterStep, CoordinationStep

-----------------------------------------------------------------------------
(* Additions count once: pipelines only grow when AddPipeline returns. *)

\* Where o.pipelines can change, and how.
LEMMA PipelinesGrow ==
  ASSUME StartInv, [StartupNext]_startupVars
  PROVE  \/ AddDirectly /\ added < Len(ToAdd)
         \/ UNCHANGED <<pipelines, added>>
<1>1. CASE TakeMessage
  BY <1>1, NothingNewToAdd DEF TakeMessage, AddUnlessKnown
<1>2. CASE ConfirmationTimeout
  BY <1>2 DEF ConfirmationTimeout, StartInv, PhasesAgree
<1>3. CASE AddWithoutCoordination
  BY <1>3 DEF AddWithoutCoordination
<1>. QED
  BY <1>1, <1>2, <1>3
     DEF StartupNext, StarterStep, CoordinationStep, startupVars, startVars, QueueAddition,
         NothingToStart, StartCoordinator, AskForPipeline, TakeAnswer,
         CreateWorker, SelectionShutDown, AnnounceRunning, Announce,
         SelectPipeline, CoordinatorExits, CoordinatorReturns, Cancel,
         CloseShutdownChan

LEMMA AddedStep == StartInv /\ [StartupNext]_startupVars => PipelinesAsAdded'
<1>. SUFFICES ASSUME StartInv, [StartupNext]_startupVars PROVE PipelinesAsAdded'
  OBVIOUS
<1>1. CASE AddDirectly /\ added < Len(ToAdd)
  <2>1. added \in 0 .. Len(ToAdd) - 1
    BY <1>1, ToAddType DEF StartInv, StartupTypeOK
  <2>2. Append(SubSeq(ToAdd, 1, added), ToAdd[added + 1]) = SubSeq(ToAdd, 1, added + 1)
    BY <2>1, PrefixGrows
  <2>. QED
    BY <1>1, <2>2 DEF AddDirectly, NextPipeline, StartInv, PipelinesAsAdded
<1>2. CASE UNCHANGED <<pipelines, added>>
  BY <1>2 DEF StartInv, PipelinesAsAdded
<1>. QED  BY <1>1, <1>2, PipelinesGrow

\* A pipeline that is known stays known, and one just added becomes known.
LEMMA KnownGrows ==
  ASSUME StartInv, [StartupNext]_startupVars
  PROVE  /\ KnownPipelines \subseteq KnownPipelines'
         /\ AddDirectly /\ added < Len(ToAdd) => NextPipeline \in KnownPipelines'
<1>1. CASE AddDirectly /\ added < Len(ToAdd)
  <2>1. NextPipeline \in Pipelines /\ pipelines \in Seq(Pipelines)
    BY <1>1, ToAddType DEF StartInv, StartupTypeOK, NextPipeline
  <2>2. pipelines' = Append(pipelines, NextPipeline)
    BY <1>1 DEF AddDirectly
  <2>3. /\ DOMAIN pipelines \subseteq DOMAIN pipelines'
        /\ \A i \in DOMAIN pipelines : pipelines'[i] = pipelines[i]
        /\ Len(pipelines) + 1 \in DOMAIN pipelines'
        /\ pipelines'[Len(pipelines) + 1] = NextPipeline
    BY <2>1, <2>2, SendType
  <2>. QED  BY <2>3 DEF KnownPipelines
<1>2. CASE UNCHANGED <<pipelines, added>> /\ ~(AddDirectly /\ added < Len(ToAdd))
  BY <1>2 DEF KnownPipelines
<1>. QED  BY <1>1, <1>2, PipelinesGrow

LEMMA AdditionsStep == StartInv /\ [StartupNext]_startupVars => AdditionsKnown'
<1>. SUFFICES ASSUME StartInv, [StartupNext]_startupVars,
                     NEW i \in DOMAIN coordinationChan',
                     coordinationChan'[i].type = "addition"
              PROVE  coordinationChan'[i].pipeline \in (KnownPipelines \cup Waited)'
  BY DEF AdditionsKnown
<1>1. coordinationChan \in Seq(Message) /\ coordinationChan' \in Seq(Message)
  BY TypeStep DEF StartInv, StartupTypeOK
<1>2. KnownPipelines \subseteq KnownPipelines'
  BY KnownGrows
<1>3. ASSUME NEW j \in DOMAIN coordinationChan,
             coordinationChan'[i] = coordinationChan[j],
             Waited \subseteq (KnownPipelines \cup Waited)'
      PROVE  coordinationChan'[i].pipeline \in (KnownPipelines \cup Waited)'
  BY <1>2, <1>3 DEF StartInv, AdditionsKnown
<1>4. CASE QueueAddition
  <2>1. starter = "adding" /\ starter' = "confirming" /\ added' = added
    BY <1>4 DEF QueueAddition
  <2>2. Waited = {} /\ Waited' = {NextPipeline}
    BY <2>1 DEF Waited, NextPipeline
  <2>3. /\ coordinationChan' = Append(coordinationChan, Addition(NextPipeline))
        /\ NextPipeline \in Pipelines
    BY <1>4, ToAddType DEF QueueAddition, NextPipeline, StartInv, StartupTypeOK
  <2>4. Addition(NextPipeline) \in Message
    BY <2>3, MessagesTyped
  <2>5. \/ coordinationChan'[i] = Addition(NextPipeline)
        \/ i \in DOMAIN coordinationChan /\ coordinationChan'[i] = coordinationChan[i]
    BY <1>1, <2>3, <2>4, SendType
  <2>. QED  BY <1>3, <2>2, <2>5 DEF Addition
<1>5. CASE AnnounceRunning
  <2>1. starter = "announcing" /\ Waited = {}
    BY <1>5 DEF AnnounceRunning, Announce, Waited
  <2>2. \/ coordinationChan' = coordinationChan
        \/ coordinationChan' = Append(coordinationChan, RunningMessage)
    BY <1>5 DEF AnnounceRunning, Announce
  <2>3. \/ coordinationChan'[i] = RunningMessage
        \/ i \in DOMAIN coordinationChan /\ coordinationChan'[i] = coordinationChan[i]
    BY <1>1, <2>2, MessagesTyped, SendType
  <2>. QED  BY <1>3, <2>1, <2>3 DEF RunningMessage
<1>6. CASE TakeMessage
  <2>1. /\ coordinationChan # <<>> /\ coordinationChan' = Tail(coordinationChan)
        /\ starter' = starter /\ starter # "confirming"
    BY <1>6 DEF TakeMessage, StartInv, PhasesAgree
  <2>2. i + 1 \in DOMAIN coordinationChan
        /\ coordinationChan'[i] = coordinationChan[i + 1]
    BY <1>1, <2>1, ReceiveType
  <2>. QED  BY <1>3, <2>1, <2>2 DEF Waited
<1>7. CASE UNCHANGED coordinationChan
  <2>1. Waited \subseteq (KnownPipelines \cup Waited)'
    <3>1. CASE starter # "confirming"
      BY <3>1 DEF Waited
    <3>2. CASE starter = "confirming" /\ AddDirectly /\ added < Len(ToAdd)
      BY <3>2, KnownGrows DEF Waited
    <3>3. CASE starter = "confirming" /\ UNCHANGED <<starter, added>>
      BY <3>3 DEF Waited, NextPipeline
    <3>4. starter = "confirming" =>
            \/ ConfirmationTimeout
            \/ UNCHANGED <<starter, added>>
      BY DEF StartupNext, StarterStep, CoordinationStep, startupVars, startVars, QueueAddition,
             AddWithoutCoordination, NothingToStart, StartCoordinator,
             AskForPipeline, TakeAnswer, SelectionShutDown, AnnounceRunning,
             Announce, TakeMessage, SelectPipeline, CoordinatorExits,
             CoordinatorReturns, Cancel, CloseShutdownChan
    <3>. QED
      BY <3>1, <3>2, <3>3, <3>4 DEF ConfirmationTimeout, StartInv, PhasesAgree
  <2>. QED  BY <1>3, <1>7, <2>1
<1>8. \/ QueueAddition \/ AnnounceRunning \/ TakeMessage
      \/ UNCHANGED coordinationChan
  BY DEF StartupNext, StarterStep, CoordinationStep, startupVars, ConfirmationTimeout,
         AddDirectly, AddWithoutCoordination, NothingToStart, StartCoordinator,
         AskForPipeline, TakeAnswer, SelectionShutDown, CreateWorker,
         SelectPipeline, CoordinatorExits, CoordinatorReturns, Cancel,
         CloseShutdownChan
<1>. QED  BY <1>4, <1>5, <1>6, <1>7, <1>8

LEMMA StartInvStep == StartInv /\ [StartupNext]_startupVars => StartInv'
BY TypeStep, PhasesStep, AddedStep, AdditionsStep DEF StartInv

\* Types, phases and known additions hold at every moment of a start.
THEOREM StartIsSound == StartupSpec => []StartInv
BY StartInvInit, StartInvStep, PTL DEF StartupSpec

\* The types and channel capacities hold (TypeOK).
THEOREM StartupTypes == StartupSpec => []StartupTypeOK
<1>1. StartInv => StartupTypeOK
  BY DEF StartInv
<1>. QED  BY <1>1, StartIsSound, PTL

\* Every pipeline is added exactly once and in order, although a timed-out
\* addition is made by AddPipeline and again by the coordinator.
THEOREM AddedOnce == StartupSpec => []PipelinesAsAdded
<1>1. StartInv => PipelinesAsAdded
  BY DEF StartInv
<1>. QED  BY <1>1, StartIsSound, PTL

-----------------------------------------------------------------------------
(* The pipelines, and counting by remainders: among the numbers below any   *)
(* n, no remainder occurs more than once oftener than another.             *)

\* The pipelines are all different.
LEMMA PipelinesDiffer ==
  ASSUME StartInv, NEW i \in 1 .. Len(pipelines), NEW j \in 1 .. Len(pipelines),
         pipelines[i] = pipelines[j]
  PROVE  i = j
<1>1. pipelines = SubSeq(ToAdd, 1, added) /\ added \in 0 .. Len(ToAdd)
  BY DEF StartInv, PipelinesAsAdded, StartupTypeOK
<1>2. /\ Len(pipelines) = added
      /\ pipelines[i] = ToAdd[i] /\ pipelines[j] = ToAdd[j]
  BY <1>1, PrefixType
<1>. QED  BY <1>1, <1>2, ToAddAssumption, ToAddType

LEMMA DivMod ==
  ASSUME NEW n \in Int, NEW m \in Nat \ {0}
  PROVE  /\ n \div m \in Int /\ n % m \in 0 .. m - 1
         /\ n = m * (n \div m) + (n % m)
BY Z3

\* Division with a remainder has one result.
LEMMA OneRemainder ==
  ASSUME NEW n \in Int, NEW m \in Nat \ {0}, NEW k \in Int, NEW r \in 0 .. m - 1,
         n = m * k + r
  PROVE  n % m = r
<1>. DEFINE q == n \div m
<1>1. q \in Int /\ n % m \in 0 .. m - 1 /\ n = m * q + (n % m)
  BY DivMod
<1>2. CASE q = k
  BY <1>1, <1>2
<1>3. CASE q <= k - 1
  <2>1. m * (k - q) >= m
    BY <1>1, <1>3
  <2>. QED  BY <1>1, <2>1
<1>4. CASE q >= k + 1
  <2>1. m * (q - k) >= m
    BY <1>1, <1>4
  <2>. QED  BY <1>1, <2>1
<1>. QED  BY <1>1, <1>2, <1>3, <1>4

\* Going back by d within one round takes d from the remainder; going back by
\* a round less d adds d to it.
LEMMA RemainderShift ==
  ASSUME NEW n \in Int, NEW m \in Nat \ {0}, NEW d \in Int,
         (n % m) - d \in 0 .. m - 1
  PROVE  (n - d) % m = (n % m) - d /\ (n - m - d) % m = (n % m) - d
<1>1. n \div m \in Int /\ n % m \in 0 .. m - 1 /\ n = m * (n \div m) + (n % m)
  BY DivMod
<1>2. /\ n - d = m * (n \div m) + ((n % m) - d)
      /\ n - m - d = m * ((n \div m) - 1) + ((n % m) - d)
      /\ n - d \in Int /\ n - m - d \in Int /\ (n \div m) - 1 \in Int
  BY <1>1
<1>. QED  BY <1>1, <1>2, OneRemainder

\* A number that is not its own remainder is a round further at least.
LEMMA RoundBelow ==
  ASSUME NEW n \in Nat, NEW m \in Nat \ {0}, n # n % m
  PROVE  n >= m + (n % m)
<1>. DEFINE q == n \div m
<1>1. q \in Int /\ n % m \in 0 .. m - 1 /\ n = m * q + (n % m)
  BY DivMod
<1>2. q # 0
  BY <1>1
<1>3. ~(q <= -1)
  <2>. SUFFICES ASSUME q <= -1 PROVE FALSE
    OBVIOUS
  <2>1. m * (-1 - q) >= 0
    BY <1>1
  <2>. QED  BY <1>1, <2>1
<1>4. q >= 1
  BY <1>1, <1>2, <1>3
<1>5. m * (q - 1) >= 0
  BY <1>1, <1>4
<1>. QED  BY <1>1, <1>5

\* The turns among the first n that fall to the one with remainder r of m.
TurnsOf(n, m, r) == {i \in 1 .. n : (i - 1) % m = r}

LEMMA TurnsAreEven ==
  ASSUME NEW n \in Nat, NEW m \in Nat \ {0},
         NEW a \in 0 .. m - 1, NEW b \in 0 .. m - 1
  PROVE  Cardinality(TurnsOf(n, m, a)) <= Cardinality(TurnsOf(n, m, b)) + 1
<1>1. ASSUME NEW r \in 0 .. m - 1
      PROVE  /\ IsFiniteSet(TurnsOf(n, m, r))
             /\ Cardinality(TurnsOf(n, m, r)) \in Nat
  <2>1. IsFiniteSet(1 .. n)
    BY FS_Interval
  <2>2. TurnsOf(n, m, r) \in SUBSET (1 .. n)
    BY DEF TurnsOf
  <2>3. IsFiniteSet(TurnsOf(n, m, r))
    BY <2>1, <2>2, FS_Subset
  <2>. QED  BY <2>3, FS_CardinalityType
<1>2. CASE a = b
  BY <1>1, <1>2
<1>3. CASE a > b
  <2>. DEFINE f == [i \in TurnsOf(n, m, a) |-> i - (a - b)]
  <2>1. ASSUME NEW i \in TurnsOf(n, m, a) PROVE f[i] \in TurnsOf(n, m, b)
    <3>1. i \in 1 .. n /\ (i - 1) % m = a
      BY DEF TurnsOf
    <3>2. (i - 1) - (a - b) \in Int /\ ((i - 1) - (a - b)) % m = b
      <4>. DEFINE d == a - b
                  k == i - 1
      <4>1. d \in Int /\ k \in Int /\ k % m = a /\ a - d = b /\ b \in 0 .. m - 1
        BY <3>1
      <4>. HIDE DEF d, k
      <4>2. (k - d) % m = b
        BY <4>1, RemainderShift
      <4>. QED  BY <4>1, <4>2 DEF d, k
    <3>3. i - 1 >= a
      <4>1. i - 1 = (i - 1) % m \/ i - 1 >= m + ((i - 1) % m)
        BY <3>1, RoundBelow
      <4>. QED  BY <3>1, <4>1
    <3>4. i - (a - b) \in 1 .. n /\ (i - (a - b)) - 1 = (i - 1) - (a - b)
      BY <1>3, <3>1, <3>3
    <3>. QED  BY <3>2, <3>4 DEF TurnsOf
  <2>2. \A i, j \in TurnsOf(n, m, a) : f[i] = f[j] => i = j
    BY DEF TurnsOf
  <2>3. f \in Injection(TurnsOf(n, m, a), TurnsOf(n, m, b))
    BY <2>1, <2>2 DEF Injection, IsInjective
  <2>. QED  BY <1>1, <2>3, FS_Injection
<1>4. CASE a < b
  <2>. DEFINE S == TurnsOf(n, m, a) \ {a + 1}
              f == [i \in S |-> i - m - (a - b)]
  <2>1. ASSUME NEW i \in S PROVE f[i] \in TurnsOf(n, m, b)
    <3>1. i \in 1 .. n /\ (i - 1) % m = a /\ i - 1 # a
      BY DEF TurnsOf
    <3>2. /\ (i - 1) - m - (a - b) \in Int
          /\ ((i - 1) - m - (a - b)) % m = b
      <4>. DEFINE d == a - b
                  k == i - 1
      <4>1. d \in Int /\ k \in Int /\ k % m = a /\ a - d = b /\ b \in 0 .. m - 1
        BY <3>1
      <4>. HIDE DEF d, k
      <4>2. (k - m - d) % m = b
        BY <4>1, RemainderShift
      <4>. QED  BY <4>1, <4>2 DEF d, k
    <3>3. i - 1 >= m + a
      BY <3>1, RoundBelow
    <3>4. /\ i - m - (a - b) \in 1 .. n
          /\ (i - m - (a - b)) - 1 = (i - 1) - m - (a - b)
      BY <1>4, <3>1, <3>3
    <3>. QED  BY <3>2, <3>4 DEF TurnsOf
  <2>2. \A i, j \in S : f[i] = f[j] => i = j
    BY DEF TurnsOf
  <2>3. f \in Injection(S, TurnsOf(n, m, b))
    BY <2>1, <2>2 DEF Injection, IsInjective
  <2>4. Cardinality(S) <= Cardinality(TurnsOf(n, m, b))
    BY <1>1, <2>3, FS_Injection
  <2>5. \/ Cardinality(S) = Cardinality(TurnsOf(n, m, a))
        \/ Cardinality(S) = Cardinality(TurnsOf(n, m, a)) - 1
    BY <1>1, FS_RemoveElement
  <2>. QED  BY <1>1, <2>4, <2>5
<1>. QED  BY <1>2, <1>3, <1>4

-----------------------------------------------------------------------------
(* While shutdownChan is open every worker has the pipeline of its turn (the *)
(* first, unless the selection is by round robin),                          *)
(* and one selection at a time is on its way: the starter's request, or the *)
(* coordinator's answer, with the counter moved on.                         *)

RoundRobin == LoadBalancing = "round_robin"
Turn(k) == IF RoundRobin THEN pipelines[(k % Len(pipelines)) + 1] ELSE pipelines[1]
TurnsCounted(k) == roundRobinCounter = IF RoundRobin THEN k ELSE 0

NoAnswer == answer = [w \in WorkerIDs |-> <<>>]
OneAnswer ==
  answer = [w \in WorkerIDs |-> IF w = Len(workers) THEN <<Turn(w)>> ELSE <<>>]

Asked ==
  /\ pipelineSelectChan = <<Len(workers)>>
  /\ NoAnswer
  /\ TurnsCounted(Len(workers))

Answered ==
  /\ pipelineSelectChan = <<>>
  /\ OneAnswer
  /\ TurnsCounted(Len(workers) + 1)

NothingUnderWay ==
  /\ pipelineSelectChan = <<>>
  /\ NoAnswer
  /\ TurnsCounted(Len(workers))

TurnsTaken ==
  ~shutdown =>
    /\ \A i \in DOMAIN workers : workers[i] = Turn(i - 1)
    /\ starter # "choosing" => NothingUnderWay
    /\ starter = "choosing" => Asked \/ Answered

\* Workers are created only where there is a pipeline to give them.
PipelinesFirst ==
  starter \in {"asking", "choosing"} \/ workers # <<>> => pipelines # <<>>

EvenInv == StartInv /\ PipelinesFirst /\ TurnsTaken

LEMMA PipelinesFirstStep == StartInv /\ PipelinesFirst /\ [StartupNext]_startupVars => PipelinesFirst'
<1>. SUFFICES ASSUME StartInv, PipelinesFirst, [StartupNext]_startupVars PROVE PipelinesFirst'
  OBVIOUS
<1>1. CASE AddDirectly /\ added < Len(ToAdd)
  <2>1. /\ pipelines \in Seq(Pipelines)
        /\ NextPipeline \in Pipelines
    BY <1>1, ToAddType DEF StartInv, StartupTypeOK, NextPipeline
  <2>2. pipelines' # <<>>
    BY <1>1, <2>1, SendType DEF AddDirectly
  <2>. QED  BY <2>2 DEF PipelinesFirst
<1>2. CASE UNCHANGED pipelines
  BY <1>2
     DEF PipelinesFirst, StartupNext, StarterStep, CoordinationStep, startupVars, startVars,
         QueueAddition, ConfirmationTimeout, AddDirectly,
         AddWithoutCoordination, NothingToStart, StartCoordinator,
         AskForPipeline, TakeAnswer, CreateWorker, SelectionShutDown,
         AnnounceRunning, Announce, TakeMessage, SelectPipeline,
         CoordinatorExits, CoordinatorReturns, Cancel, CloseShutdownChan
<1>. QED  BY <1>1, <1>2, PipelinesGrow

\* Once there are workers, or a selection under way, no pipeline is added.
LEMMA TurnsTakenStep ==
  ASSUME EvenInv, [StartupNext]_startupVars
  PROVE  TurnsTaken'
<1>. SUFFICES ASSUME ~shutdown'
              PROVE  /\ (\A i \in DOMAIN workers : workers[i] = Turn(i - 1))'
                     /\ (starter # "choosing" => NothingUnderWay)'
                     /\ (starter = "choosing" => Asked \/ Answered)'
  BY DEF TurnsTaken
<1>1. ~shutdown
  BY DEF StartupNext, StarterStep, CoordinationStep, startupVars, outsideVars, QueueAddition,
         ConfirmationTimeout, AddDirectly, AddWithoutCoordination,
         NothingToStart, StartCoordinator, AskForPipeline, TakeAnswer,
         CreateWorker, SelectionShutDown, AnnounceRunning, Announce,
         TakeMessage, SelectPipeline, CoordinatorExits, CoordinatorReturns,
         Cancel, CloseShutdownChan
<1>2. /\ \A i \in DOMAIN workers : workers[i] = Turn(i - 1)
      /\ starter # "choosing" => NothingUnderWay
      /\ starter = "choosing" => Asked \/ Answered
  BY <1>1 DEF EvenInv, TurnsTaken
<1>3. /\ workers \in Seq(Chosen) /\ Len(workers) \in Nat
      /\ answer \in [WorkerIDs -> Seq(Chosen)]
      /\ pipelines \in Seq(Pipelines)
      /\ PhasesAgree /\ StartInv
      /\ starter = "choosing" => Len(workers) \in WorkerIDs
  BY LenProperties, SizesAssumption
     DEF EvenInv, StartInv, StartupTypeOK, PhasesAgree, WorkerIDs
<1>. DEFINE n == Len(workers)
\* Before Start.
<1>4. CASE starter' \in {"adding", "confirming"}
  <2>1. /\ workers' = <<>> /\ roundRobinCounter' = 0
        /\ pipelineSelectChan' = <<>> /\ NoAnswer'
    BY <1>3, <1>4, PhasesStep DEF PhasesAgree, NoAnswer
  <2>2. Len(workers') = 0 /\ DOMAIN workers' = {}
    BY <2>1
  <2>. QED  BY <1>4, <2>1, <2>2 DEF NothingUnderWay, TurnsCounted
\* Nothing changes but the starter's phase, which stays on its side.
<1>5. CASE /\ UNCHANGED <<workers, pipelines, answer, pipelineSelectChan,
                          roundRobinCounter>>
           /\ starter' = "choosing" <=> starter = "choosing"
  BY <1>2, <1>5 DEF Turn, TurnsCounted, NothingUnderWay, Asked, Answered, NoAnswer,
                    OneAnswer
<1>6. CASE AskForPipeline
  <2>1. pipelineSelectChan' = <<n>> /\ NothingUnderWay
    BY <1>2, <1>6 DEF AskForPipeline, NothingUnderWay
  <2>2. Asked'
    BY <1>6, <2>1 DEF AskForPipeline, Asked, NothingUnderWay, NoAnswer, TurnsCounted,
                      coordVars
  <2>. QED  BY <1>2, <1>6, <2>2 DEF AskForPipeline, Turn
<1>7. CASE TakeAnswer
  <2>1. Answered
    <3>1. answer[n] # <<>> /\ n \in WorkerIDs
      BY <1>3, <1>7 DEF TakeAnswer
    <3>2. ~NoAnswer
      BY <3>1 DEF NoAnswer
    <3>. QED  BY <1>2, <1>7, <3>2 DEF TakeAnswer, Asked
  <2>2. /\ n \in WorkerIDs /\ answer[n] = <<Turn(n)>>
        /\ Head(answer[n]) = Turn(n) /\ Tail(answer[n]) = <<>>
    BY <1>3, <1>7, <2>1 DEF TakeAnswer, Answered, OneAnswer
  <2>3. workers' = Append(workers, Turn(n)) /\ Turn(n) \in Chosen
    <3>1. Head(answer[n]) \in Chosen
      BY <1>3, <1>7, <2>2, ReceiveType DEF TakeAnswer
    <3>. QED  BY <1>7, <2>2, <3>1 DEF TakeAnswer, CreateWorker
  <2>4. /\ DOMAIN workers = 1 .. n /\ DOMAIN workers' = 1 .. n + 1
        /\ workers'[n + 1] = Turn(n) /\ Len(workers') = n + 1
        /\ \A i \in 1 .. n : workers'[i] = workers[i]
    BY <1>3, <2>3, SendType
  <2>5. pipelines' = pipelines /\ pipelineSelectChan' = <<>>
        /\ roundRobinCounter' = (IF RoundRobin THEN n + 1 ELSE 0)
        /\ starter' # "choosing"
    BY <1>7, <2>1 DEF TakeAnswer, CreateWorker, Answered, AfterWorkers, TurnsCounted,
                      coordVars
  <2>6. NoAnswer'
    BY <1>7, <2>1, <2>2 DEF TakeAnswer, Answered, OneAnswer, NoAnswer
  <2>7. ASSUME NEW i \in DOMAIN workers' PROVE workers'[i] = Turn(i - 1)'
    <3>1. i \in 1 .. n \/ (i = n + 1 /\ i - 1 = n)
      BY <1>3, <2>4
    <3>. HIDE DEF n
    <3>2. CASE i \in 1 .. n
      BY <1>2, <2>4, <2>5, <3>2 DEF Turn
    <3>3. CASE i = n + 1 /\ i - 1 = n
      BY <2>4, <2>5, <3>3 DEF Turn
    <3>. QED  BY <3>1, <3>2, <3>3
  <2>. QED  BY <2>4, <2>5, <2>6, <2>7 DEF NothingUnderWay, TurnsCounted
<1>8. CASE SelectPipeline
  <2>1. Asked /\ starter = "choosing"
    BY <1>2, <1>8 DEF SelectPipeline, NothingUnderWay, Answered
  <2>2. /\ n \in WorkerIDs
        /\ Head(pipelineSelectChan) = n /\ Tail(pipelineSelectChan) = <<>>
    BY <1>3, <2>1 DEF Asked
  <2>3. /\ Selected = Turn(n)
        /\ roundRobinCounter' = (IF RoundRobin THEN n + 1 ELSE 0)
    BY <1>8, <2>1 DEF Selected, Turn, Asked, SelectPipeline, Counted, TurnsCounted,
                      RoundRobin
  <2>4. workers' = workers /\ pipelines' = pipelines /\ starter' = starter
    BY <1>8 DEF SelectPipeline, startVars
  <2>5. answer' = [w \in WorkerIDs |-> IF w = n THEN <<Turn(n)>> ELSE <<>>]
    <3>1. answer' = [answer EXCEPT ![n] = Append(@, Turn(n))]
      BY <1>8, <2>2, <2>3 DEF SelectPipeline
    <3>. QED  BY <2>1, <2>2, <3>1 DEF Asked, NoAnswer
  <2>6. Answered'
    BY <1>8, <2>2, <2>3, <2>4, <2>5 DEF Answered, OneAnswer, SelectPipeline, Turn,
                                        TurnsCounted
  <2>. QED  BY <1>2, <2>1, <2>4, <2>6 DEF Turn
<1>9. CASE StartCoordinator
  <2>1. starter' # "choosing"
    BY <1>9 DEF StartCoordinator, AfterWorkers
  <2>. QED
    BY <1>2, <1>9, <2>1 DEF StartCoordinator, Turn, TurnsCounted, NothingUnderWay, NoAnswer
<1>10. CASE TakeMessage
  <2>1. pipelines' = pipelines
    BY <1>3, <1>10, NothingNewToAdd DEF TakeMessage, AddUnlessKnown
  <2>. QED  BY <1>5, <1>10, <2>1 DEF TakeMessage
<1>11. CASE SelectionShutDown
  BY <1>1, <1>11 DEF SelectionShutDown
<1>12. CASE \/ NothingToStart \/ AnnounceRunning \/ CoordinatorExits
             \/ Cancel \/ UNCHANGED startupVars
  BY <1>5, <1>12 DEF NothingToStart, AnnounceRunning, Announce, CoordinatorExits,
                     CoordinatorReturns, Cancel, startupVars, startVars, coordVars
<1>13. CASE CloseShutdownChan
  BY <1>13 DEF CloseShutdownChan
<1>14. CASE QueueAddition \/ ConfirmationTimeout \/ AddWithoutCoordination
  BY <1>4, <1>14 DEF QueueAddition, ConfirmationTimeout, AddWithoutCoordination,
                     AddDirectly
<1>. QED
  BY <1>6, <1>7, <1>8, <1>9, <1>10, <1>11, <1>12, <1>13, <1>14
     DEF StartupNext, StarterStep, CoordinationStep

\* As long as shutdownChan is open, no worker is without a pipeline, whatever
\* the selection; and where it is by round robin, Start deals the workers out
\* evenly over however many pipelines there are.
THEOREM SharesAreFair == StartupSpec => []FairShares
<1>1. StartupInit => EvenInv
  <2>. SUFFICES ASSUME StartupInit PROVE PipelinesFirst /\ TurnsTaken
    BY StartInvInit DEF EvenInv
  <2>1. Len(workers) = 0 /\ DOMAIN workers = {}
    BY DEF StartupInit
  <2>. QED
    BY <2>1 DEF StartupInit, PipelinesFirst, TurnsTaken, NothingUnderWay, NoAnswer,
                TurnsCounted
<1>2. EvenInv /\ [StartupNext]_startupVars => EvenInv'
  BY StartInvStep, PipelinesFirstStep, TurnsTakenStep DEF EvenInv
<1>3. EvenInv => FairShares
  <2>. SUFFICES ASSUME EvenInv PROVE FairShares
    OBVIOUS
  <2>1. /\ workers \in Seq(Chosen) /\ Len(workers) \in Nat
        /\ DOMAIN workers = 1 .. Len(workers)
        /\ pipelines \in Seq(Pipelines) /\ Len(pipelines) \in Nat
        /\ DOMAIN pipelines = 1 .. Len(pipelines)
        /\ \A i \in 1 .. Len(pipelines) : pipelines[i] \in Pipelines
    BY LenProperties, ElementOfSeq DEF EvenInv, StartInv, StartupTypeOK
  <2>. DEFINE n == Len(workers)
              m == Len(pipelines)
  <2>2. ASSUME ~shutdown, NEW i \in 1 .. n
        PROVE  /\ m \in Nat \ {0}
               /\ (i - 1) % m \in 0 .. m - 1
               /\ workers[i] = Turn(i - 1)
    <3>1. m # 0
      <4>1. i \in DOMAIN workers /\ workers # <<>>
        BY <2>1
      <4>2. pipelines # <<>>
        BY <4>1 DEF EvenInv, PipelinesFirst
      <4>. QED  BY <2>1, <4>2, EmptySeq
    <3>2. (i - 1) % m \in 0 .. m - 1
      <4>1. i - 1 \in Int /\ m \in Nat \ {0}
        BY <2>1, <3>1
      <4>. HIDE DEF m
      <4>. QED  BY <4>1, DivMod
    <3>3. i \in DOMAIN workers
      BY <2>1
    <3>. QED  BY <2>1, <2>2, <3>1, <3>2, <3>3 DEF EvenInv, TurnsTaken
  <2>3. ASSUME ~shutdown, NEW i \in DOMAIN workers PROVE workers[i] # NilPipeline
    <3>1. i \in 1 .. n
      BY <2>1
    <3>2. ((i - 1) % m) + 1 \in 1 .. m /\ 1 \in 1 .. m
      BY <2>2, <2>3, <3>1
    <3>3. Turn(i - 1) \in Pipelines
      BY <2>1, <3>2 DEF Turn
    <3>. QED  BY <2>2, <2>3, <3>1, <3>3, NilAssumption
  <2>4. ASSUME ~shutdown, RoundRobin, NEW x \in 1 .. Len(pipelines)
        PROVE  WorkersOf(pipelines[x]) = TurnsOf(Len(workers), Len(pipelines), x - 1)
    <3>1. ASSUME NEW i \in 1 .. n
          PROVE  workers[i] = pipelines[x] <=> (i - 1) % m = x - 1
      <4>. DEFINE y == ((i - 1) % m) + 1
      <4>0. m \in Nat \ {0} /\ (i - 1) % m \in 0 .. m - 1 /\ workers[i] = pipelines[y]
        BY <2>2, <2>4 DEF Turn
      <4>1. y \in 1 .. m /\ workers[i] = pipelines[y]
        BY <4>0
      <4>2. pipelines[y] = pipelines[x] => y = x
        BY <4>1, PipelinesDiffer DEF EvenInv
      <4>3. (i - 1) % m \in 0 .. m - 1 /\ m \in Nat
        BY <2>1, <2>2, <2>4
      <4>4. y = x <=> (i - 1) % m = x - 1
        BY <4>3
      <4>. QED  BY <4>1, <4>2, <4>4
    <3>. QED  BY <2>1, <3>1 DEF WorkersOf, TurnsOf
  <2>5. ASSUME ~shutdown, RoundRobin, NEW p \in KnownPipelines, NEW q \in KnownPipelines
        PROVE  Cardinality(WorkersOf(p)) <= Cardinality(WorkersOf(q)) + 1
    <3>1. PICK x \in 1 .. m, y \in 1 .. m : p = pipelines[x] /\ q = pipelines[y]
      BY <2>1 DEF KnownPipelines
    <3>2. m \in Nat \ {0} /\ x - 1 \in 0 .. m - 1 /\ y - 1 \in 0 .. m - 1
      BY <2>1
    <3>3. /\ WorkersOf(p) = TurnsOf(n, m, x - 1)
          /\ WorkersOf(q) = TurnsOf(n, m, y - 1)
      BY <2>4, <2>5, <3>1
    <3>. QED  BY <2>1, <3>2, <3>3, TurnsAreEven
  <2>. QED  BY <2>3, <2>5 DEF FairShares, RoundRobin
<1>. QED  BY <1>1, <1>2, <1>3, PTL DEF StartupSpec
=============================================================================
