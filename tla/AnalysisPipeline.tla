-------------------------- MODULE AnalysisPipeline --------------------------
(***************************************************************************)
(* The four-stage AnalysisPipeline (src/internal/analyzers/pipeline.go):   *)
(* callers put a document into documentChan and then take whatever         *)
(* resultChan holds next; extraction, processing and storage goroutines    *)
(* pass the documents on.  Nothing in it ever ends: stageDoneChan is never *)
(* closed and the goroutines do not look at their context, which only      *)
(* makes the calls they pass it to fail.                                   *)
(*                                                                         *)
(* A caller is a worker of the orchestrator (processRequest), which may    *)
(* give up any request when its ProcessingTimeout is over.  A document is  *)
(* known by the request that submits it, its content by which extractions  *)
(* succeeded and which steps reported an error.                            *)
(***************************************************************************)
EXTENDS Integers, Sequences, FiniteSets, Functions

CONSTANTS
  Requests,               \* the requests
  Callers,                \* the goroutines that call AnalyzeDocument
  MaxConcurrentAnalyses,  \* config.MaxConcurrentAnalyses
  ChanSize,               \* capacity of each of the four channels (10 .. 30)
  Parts,                  \* the enabled extractions: entities, citations, topics
  UseUnified,             \* a unified extractor is registered and enabled
  UnifiedFallback,        \* config.UnifiedFallbackEnabled
  HasDeadline,            \* config.AnalysisTimeout > 0
  CallersGiveUp,          \* whether ProcessingTimeout ever runs out here
  NoRequest

ASSUME NoRequestAssumption == NoRequest \notin Requests
ASSUME SizesAssumption ==
  MaxConcurrentAnalyses \in Nat \ {0} /\ ChanSize \in Nat \ {0}
ASSUME FiniteAssumption == IsFiniteSet(Callers)
ASSUME PartsAssumption == Parts \subseteq {"entities", "citations", "topics"}
ASSUME FlagsAssumption ==
  {UseUnified, UnifiedFallback, HasDeadline, CallersGiveUp} \subseteq BOOLEAN

AtMost(n, bound) == 1 .. IF n < bound THEN n ELSE bound
Extractors == {"extraction"} \X AtMost(MaxConcurrentAnalyses, 5)
Processors == {"processing"} \X AtMost(MaxConcurrentAnalyses \div 2, 3)
Storers    == {"storage"} \X AtMost(MaxConcurrentAnalyses \div 3, 2)
StageWorkers == Extractors \cup Processors \cup Storers

\* The steps that can report an error.
Steps == Parts \cup {"unified", "embedding", "storing"}

VARIABLES
  call,            \* where each caller stands in AnalyzeDocument
  asked,           \* the request of each caller
  outcome,         \* how the call for each request returned
  documentChan, processingChan, storageChan,  \* the stages' buffered channels
  resultChan,      \* buffered channel of responses
  holding,         \* the document each stage goroutine works on
  deadline,        \* the context of each stage goroutine
  parts,           \* the extractions each document's result holds
  errors           \* the steps that failed for each document

callerVars == <<call, asked, outcome>>
chanVars   == <<documentChan, processingChan, storageChan, resultChan>>
workVars   == <<holding, deadline>>
docVars    == <<parts, errors>>
vars == <<callerVars, chanVars, workVars, docVars>>

TypeOK ==
  /\ call \in [Callers -> {"idle", "submitting", "waiting"}]
  /\ asked \in [Callers -> Requests \cup {NoRequest}]
  /\ outcome \in [Requests -> {"none", "asked", "own", "wrong", "unsubmitted",
                               "abandoned"}]
  /\ \A chan \in {documentChan, processingChan, storageChan, resultChan} :
       chan \in Seq(Requests) /\ Len(chan) <= ChanSize
  /\ holding \in [StageWorkers -> Requests \cup {NoRequest}]
  /\ deadline \in [StageWorkers -> {"none", "armed", "expired"}]
  /\ parts \in [Requests -> SUBSET Parts]
  /\ errors \in [Requests -> SUBSET Steps]

Init ==
  /\ call = [c \in Callers |-> "idle"]
  /\ asked = [c \in Callers |-> NoRequest]
  /\ outcome = [r \in Requests |-> "none"]
  /\ documentChan = <<>> /\ processingChan = <<>> /\ storageChan = <<>>
  /\ resultChan = <<>>
  /\ holding = [w \in StageWorkers |-> NoRequest]
  /\ deadline = [w \in StageWorkers |-> "none"]
  /\ parts = [r \in Requests |-> {}]
  /\ errors = [r \in Requests |-> {}]

HasRoom(chan) == Len(chan) < ChanSize

-----------------------------------------------------------------------------
(* AnalyzeDocument *)

Begin(c, r) ==
  /\ call[c] = "idle" /\ outcome[r] = "none"
  /\ call' = [call EXCEPT ![c] = "submitting"]
  /\ asked' = [asked EXCEPT ![c] = r]
  /\ outcome' = [outcome EXCEPT ![r] = "asked"]
  /\ UNCHANGED <<chanVars, workVars, docVars>>

Submit(c) ==
  /\ call[c] = "submitting"
  /\ HasRoom(documentChan)
  /\ documentChan' = Append(documentChan, asked[c])
  /\ call' = [call EXCEPT ![c] = "waiting"]
  /\ UNCHANGED <<asked, outcome, processingChan, storageChan, resultChan,
                 workVars, docVars>>

Return(c, how) ==
  /\ call' = [call EXCEPT ![c] = "idle"]
  /\ asked' = [asked EXCEPT ![c] = NoRequest]
  /\ outcome' = [outcome EXCEPT ![asked[c]] = how]

\* Mutant of SubmissionTimeout: the document is sent after all.
SubmissionTimeoutLate(c) ==
  /\ CallersGiveUp
  /\ call[c] = "submitting"
  /\ Return(c, "unsubmitted")
  /\ documentChan' = IF HasRoom(documentChan)
                     THEN Append(documentChan, asked[c]) ELSE documentChan
  /\ UNCHANGED <<processingChan, storageChan, resultChan, workVars, docVars>>

SubmissionTimeout(c) ==
  /\ CallersGiveUp
  /\ call[c] = "submitting"
  /\ Return(c, "unsubmitted")
  /\ UNCHANGED <<chanVars, workVars, docVars>>

\* Mutant of Receive: a response of somebody else's is put back.
ReceiveOrPutBack(c) ==
  /\ call[c] = "waiting"
  /\ resultChan # <<>>
  /\ IF Head(resultChan) = asked[c]
     THEN Return(c, "own") /\ resultChan' = Tail(resultChan)
     ELSE Return(c, "wrong") /\ UNCHANGED resultChan
  /\ UNCHANGED <<documentChan, processingChan, storageChan, workVars, docVars>>

\* A response with another request's ID is consumed all the same, and the call
\* returns the error "pipeline returned wrong response".
Receive(c) ==
  /\ call[c] = "waiting"
  /\ resultChan # <<>>
  /\ Return(c, IF Head(resultChan) = asked[c] THEN "own" ELSE "wrong")
  /\ resultChan' = Tail(resultChan)
  /\ UNCHANGED <<documentChan, processingChan, storageChan, workVars, docVars>>

\* The document stays in the pipeline; its response will find another taker.
ResultTimeout(c) ==
  /\ CallersGiveUp
  /\ call[c] = "waiting"
  /\ Return(c, "abandoned")
  /\ UNCHANGED <<chanVars, workVars, docVars>>

-----------------------------------------------------------------------------
(* The stages.  Each goroutine replaces its context by one with a deadline   *)
(* whenever it takes a document, so the deadline of its first document stays *)
(* in force for all that follow.                                            *)

Armed(d) == IF HasDeadline /\ d = "none" THEN "armed" ELSE d

Takes(w, chan) ==
  /\ holding[w] = NoRequest
  /\ chan # <<>>
  /\ holding' = [holding EXCEPT ![w] = Head(chan)]
  /\ deadline' = [deadline EXCEPT ![w] = Armed(@)]
  /\ UNCHANGED <<callerVars, resultChan, docVars>>

TakeDocument(w) ==
  /\ Takes(w, documentChan)
  /\ documentChan' = Tail(documentChan)
  /\ UNCHANGED <<processingChan, storageChan>>

TakeExtracted(w) ==
  /\ Takes(w, processingChan)
  /\ processingChan' = Tail(processingChan)
  /\ UNCHANGED <<documentChan, storageChan>>

TakeProcessed(w) ==
  /\ Takes(w, storageChan)
  /\ storageChan' = Tail(storageChan)
  /\ UNCHANGED <<documentChan, processingChan>>

Expire(w) ==
  /\ deadline[w] = "armed"
  /\ deadline' = [deadline EXCEPT ![w] = "expired"]
  /\ UNCHANGED <<callerVars, chanVars, holding, docVars>>

\* The calls that may succeed: none with a context that is done.
Possible(w, calls) == IF deadline[w] = "expired" THEN {} ELSE calls

\* What an extraction leaves when the calls in ok succeed.  Unified extraction
\* comes first; its error is kept when the individual extractors take over.
Extraction(ok) ==
  IF UseUnified /\ "unified" \in ok
  THEN [parts |-> Parts, errors |-> {}]
  ELSE IF UseUnified /\ ~UnifiedFallback
  THEN [parts |-> {}, errors |-> {"unified"}]
  ELSE [parts  |-> Parts \cap ok,
        errors |-> (Parts \ ok) \cup (IF UseUnified THEN {"unified"} ELSE {})]

\* Mutant of Hands: an error overwrites those of the stages before.
HandsLastErrors(w, failed) ==
  /\ holding[w] # NoRequest
  /\ holding' = [holding EXCEPT ![w] = NoRequest]
  /\ errors' = [errors EXCEPT ![holding[w]] = failed]
  /\ UNCHANGED <<callerVars, deadline>>

Hands(w, failed) ==
  /\ holding[w] # NoRequest
  /\ holding' = [holding EXCEPT ![w] = NoRequest]
  /\ errors' = [errors EXCEPT ![holding[w]] = @ \cup failed]
  /\ UNCHANGED <<callerVars, deadline>>

\* Mutant of Extract: the send is given up when the context is done.
ExtractOrGiveUp(w) ==
  \E ok \in SUBSET Possible(w, Parts \cup {"unified"}) :
    /\ HasRoom(processingChan)
    /\ Hands(w, Extraction(ok).errors)
    /\ parts' = [parts EXCEPT ![holding[w]] = Extraction(ok).parts]
    /\ processingChan' = IF deadline[w] = "expired" THEN processingChan
                         ELSE Append(processingChan, holding[w])
    /\ UNCHANGED <<documentChan, storageChan, resultChan>>

Extract(w) ==
  \E ok \in SUBSET Possible(w, Parts \cup {"unified"}) :
    /\ HasRoom(processingChan)
    /\ Hands(w, Extraction(ok).errors)
    /\ parts' = [parts EXCEPT ![holding[w]] = Extraction(ok).parts]
    /\ processingChan' = Append(processingChan, holding[w])
    /\ UNCHANGED <<documentChan, storageChan, resultChan>>

\* The embedding; GenerateEmbeddings is on by default.
Process(w) ==
  \E ok \in SUBSET Possible(w, {"embedding"}) :
    /\ HasRoom(storageChan)
    /\ Hands(w, {"embedding"} \ ok)
    /\ storageChan' = Append(storageChan, holding[w])
    /\ UNCHANGED <<documentChan, processingChan, resultChan, parts>>

\* Mutant of Store: a document that failed is dropped without a response.
StoreOrDrop(w) ==
  \E ok \in SUBSET Possible(w, {"storing"}) :
    /\ HasRoom(resultChan)
    /\ Hands(w, {"storing"} \ ok)
    /\ resultChan' = IF ok = {} THEN resultChan
                     ELSE Append(resultChan, holding[w])
    /\ UNCHANGED <<documentChan, processingChan, storageChan, parts>>

\* The document and each entity, citation and topic are stored in turn; an
\* error is noted and the next one is tried.
Store(w) ==
  \E ok \in SUBSET Possible(w, {"storing"}) :
    /\ HasRoom(resultChan)
    /\ Hands(w, {"storing"} \ ok)
    /\ resultChan' = Append(resultChan, holding[w])
    /\ UNCHANGED <<documentChan, processingChan, storageChan, parts>>

CallStep(c) ==
  Submit(c) \/ SubmissionTimeout(c) \/ Receive(c) \/ ResultTimeout(c)
ExtractionStep(w) == TakeDocument(w) \/ Extract(w)
ProcessingStep(w) == TakeExtracted(w) \/ Process(w)
StorageStep(w)    == TakeProcessed(w) \/ Store(w)

Next ==
  \/ \E c \in Callers : CallStep(c) \/ \E r \in Requests : Begin(c, r)
  \/ \E w \in Extractors : ExtractionStep(w)
  \/ \E w \in Processors : ProcessingStep(w)
  \/ \E w \in Storers : StorageStep(w)
  \/ \E w \in StageWorkers : Expire(w)

\* A caller in AnalyzeDocument and every stage goroutine goes on while it can;
\* no timeout is counted on.
Fairness ==
  /\ \A c \in Callers : WF_vars(Submit(c) \/ Receive(c))
  /\ \A w \in Extractors : WF_vars(ExtractionStep(w))
  /\ \A w \in Processors : WF_vars(ProcessingStep(w))
  /\ \A w \in Storers : WF_vars(StorageStep(w))

Spec == Init /\ [][Next]_vars /\ Fairness

-----------------------------------------------------------------------------
(* Properties *)

Channels == <<documentChan, processingChan, storageChan, resultChan>>
Waiting == {c \in Callers : call[c] = "waiting"}
Abandoned == {r \in Requests : outcome[r] = "abandoned"}

\* The places a request's document or response can be found in.
PlacesOf(r) ==
  {p \in (1 .. 4) \X (1 .. ChanSize) :
     p[2] <= Len(Channels[p[1]]) /\ Channels[p[1]][p[2]] = r}
  \cup {w \in StageWorkers : holding[w] = r}

\* No document is ever in two places, and the pipeline holds exactly one for
\* each caller that waits and one for each call that ever gave up: an abandoned
\* document is never cleared away, it only changes hands, because every wrong
\* response a call takes leaves its own behind.  (With the types of the state.)
InFlight == {r \in Requests : PlacesOf(r) # {}}
EveryAnswerAccounted ==
  /\ TypeOK
  /\ \A r \in Requests : Cardinality(PlacesOf(r)) <= 1
  /\ Cardinality(InFlight) = Cardinality(Waiting) + Cardinality(Abandoned)

\* A failed extraction neither takes the others' results along nor goes
\* unreported: in a response every enabled part is there, or its failure is
\* (that of unified extraction standing for all when it has no fallback).
Answered == Range(resultChan)
CompleteOrReported ==
  \A r \in Answered :
    parts[r] = IF "unified" \in errors[r] /\ ~UnifiedFallback THEN {}
               ELSE Parts \ errors[r]

\* A caller with a pipeline of its own (factory.go:139) gets its own answers as
\* long as it has not given up a call.
OwnUntilTimeout ==
  Cardinality(Callers) = 1 /\ Abandoned = {} =>
    \A r \in Requests : outcome[r] # "wrong"

\* The documents that fit into the pipeline.
Capacity == 4 * ChanSize + Cardinality(StageWorkers)

\* What is ready to go on without a timeout.
Ready ==
  \/ \E c \in Callers : /\ call[c] # "idle"
                       /\ IF call[c] = "submitting" THEN HasRoom(documentChan)
                                                    ELSE resultChan # <<>>
  \/ \E w \in Extractors : IF holding[w] = NoRequest THEN documentChan # <<>>
                                                  ELSE HasRoom(processingChan)
  \/ \E w \in Processors : IF holding[w] = NoRequest THEN processingChan # <<>>
                                                  ELSE HasRoom(storageChan)
  \/ \E w \in Storers : IF holding[w] = NoRequest THEN storageChan # <<>>
                                               ELSE HasRoom(resultChan)

\* An answer that nobody takes holds up a storage goroutine, and so on back to
\* documentChan.  Yet with a goroutine in every stage (MaxConcurrentAnalyses / 3
\* storage goroutines) a call is stuck only when the answers to abandoned calls
\* fill every channel and occupy every goroutine; one place less, and the stages
\* or the caller can go on.
StuckOnlyWhenFull ==
  MaxConcurrentAnalyses >= 3 /\ (\E c \in Callers : call[c] # "idle") /\ ~Ready =>
    Cardinality(Abandoned) >= Capacity

\* Every call returns, without the help of its timeout and whatever fails in the
\* stages, unless so many calls have been abandoned that their answers fill the
\* pipeline.  Then the pipeline is blocked for good.
CallReturns ==
  \A c \in Callers :
    call[c] = "submitting" ~> call[c] = "idle" \/ Cardinality(Abandoned) >= Capacity

\* "Individual analysis failures don't affect other requests"
\* (docs/concurrency/ANALYSIS_PIPELINE.md:182): the deadline AnalysisTimeout
\* sets is a document's own and has not run out before the document is taken.
FreshDeadline ==
  [][\A w \in StageWorkers :
       holding[w] = NoRequest /\ holding'[w] # NoRequest =>
         deadline[w] # "expired"]_vars
=============================================================================
