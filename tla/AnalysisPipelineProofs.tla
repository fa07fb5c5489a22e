----------------------- MODULE AnalysisPipelineProofs -----------------------
(***************************************************************************)
(* Theorems about the analysis pipeline for all sets of requests and       *)
(* callers, every size of its channels, every number of stage goroutines   *)
(* and every configuration of the extractions.                             *)
(***************************************************************************)
EXTENDS AnalysisPipeline, ChannelLemmas

-----------------------------------------------------------------------------
(* The inductive invariant *)

\* A caller that is not idle has a request of its own, which is still asked.
CallersAsk ==
  /\ \A c \in Callers : call[c] = "idle" <=> asked[c] = NoRequest
  /\ \A c \in Callers : call[c] # "idle" => outcome[asked[c]] = "asked"
  /\ \A c, d \in Callers : c # d /\ call[c] # "idle" => asked[c] # asked[d]

InHand == {r \in Requests : \E w \in StageWorkers : holding[w] = r}
Located == Range(documentChan) \cup Range(processingChan) \cup Range(storageChan)
             \cup Range(resultChan) \cup InHand

\* The places are apart: no channel holds a document twice, and no two channels
\* or goroutines the same one.
ChannelsApart ==
  /\ IsInjective(documentChan) /\ IsInjective(processingChan)
  /\ IsInjective(storageChan) /\ IsInjective(resultChan)
  /\ Range(documentChan) \cap Range(processingChan) = {}
  /\ Range(documentChan) \cap Range(storageChan) = {}
  /\ Range(documentChan) \cap Range(resultChan) = {}
  /\ Range(processingChan) \cap Range(storageChan) = {}
  /\ Range(processingChan) \cap Range(resultChan) = {}
  /\ Range(storageChan) \cap Range(resultChan) = {}
HandsApart ==
  /\ \A w \in StageWorkers :
       /\ holding[w] \notin Range(documentChan) /\ holding[w] \notin Range(processingChan)
       /\ holding[w] \notin Range(storageChan) /\ holding[w] \notin Range(resultChan)
  /\ \A w, v \in StageWorkers : holding[w] = holding[v] => holding[w] = NoRequest \/ w = v

\* What is in the pipeline has been submitted.
OnlySubmitted ==
  /\ \A r \in Located : outcome[r] \notin {"none", "unsubmitted"}
  /\ \A c \in Callers : call[c] = "submitting" => asked[c] \notin Located

Counted ==
  /\ IsFiniteSet(Located) /\ IsFiniteSet(Waiting) /\ IsFiniteSet(Abandoned)
  /\ Cardinality(Located) = Cardinality(Waiting) + Cardinality(Abandoned)

\* Without a timeout the pipeline of a single caller holds its own document only.
SoleCaller ==
  (\E c \in Callers : Callers = {c}) /\ Abandoned = {} =>
    /\ Located = {asked[c] : c \in Waiting}
    /\ \A r \in Requests : outcome[r] # "wrong"

\* No step has failed for a document before its extraction, and after it every
\* part is there or its failure is reported.
Untouched ==
  {r \in Requests : outcome[r] = "none"}
  \cup {asked[c] : c \in {d \in Callers : call[d] = "submitting"}}
  \cup Range(documentChan)
  \cup {r \in Requests : \E w \in Extractors : holding[w] = r}
Extracted ==
  Range(processingChan) \cup Range(storageChan) \cup Range(resultChan)
  \cup {r \in Requests : \E w \in Processors \cup Storers : holding[w] = r}
Accounted(r) ==
  parts[r] = IF "unified" \in errors[r] /\ ~UnifiedFallback THEN {}
             ELSE Parts \ errors[r]
ContentSound ==
  /\ \A r \in Untouched : errors[r] = {}
  /\ \A r \in Extracted : Accounted(r)

PlacesInv == TypeOK /\ CallersAsk /\ ChannelsApart /\ HandsApart /\ OnlySubmitted
PipelineInv == PlacesInv /\ Counted /\ SoleCaller /\ ContentSound

-----------------------------------------------------------------------------
(* Type correctness *)

LEMMA WorkersType ==
  /\ Extractors \subseteq StageWorkers /\ Processors \subseteq StageWorkers
  /\ Storers \subseteq StageWorkers
  /\ Extractors \cap Processors = {} /\ Extractors \cap Storers = {}
BY DEF StageWorkers, Extractors, Processors, Storers

LEMMA StepsType ==
  /\ Parts \subseteq Steps /\ "unified" \in Steps /\ "embedding" \in Steps
  /\ "storing" \in Steps
  /\ "unified" \notin Parts /\ "embedding" \notin Parts /\ "storing" \notin Parts
BY PartsAssumption DEF Steps

\* An extraction leaves a document without earlier errors with all of its parts
\* or reports the failures.
LEMMA ExtractionSound ==
  ASSUME NEW ok
  PROVE  LET e == Extraction(ok) IN
         /\ e.parts \subseteq Parts /\ e.errors \subseteq Steps
         /\ e.parts = IF "unified" \in e.errors /\ ~UnifiedFallback THEN {}
                      ELSE Parts \ e.errors
<1>. UseUnified \in BOOLEAN /\ UnifiedFallback \in BOOLEAN
  BY FlagsAssumption
<1>1. CASE UseUnified /\ "unified" \in ok
  BY <1>1 DEF Extraction
<1>2. CASE UseUnified /\ "unified" \notin ok /\ ~UnifiedFallback
  BY <1>2, StepsType DEF Extraction
<1>3. CASE UseUnified /\ "unified" \notin ok /\ UnifiedFallback
  BY <1>3, StepsType DEF Extraction
<1>4. CASE ~UseUnified
  BY <1>4, StepsType DEF Extraction
<1>. QED  BY <1>1, <1>2, <1>3, <1>4

LEMMA ChannelTypes ==
  ASSUME TypeOK
  PROVE  /\ documentChan \in Seq(Requests) /\ processingChan \in Seq(Requests)
         /\ storageChan \in Seq(Requests) /\ resultChan \in Seq(Requests)
         /\ Len(documentChan) <= ChanSize /\ Len(processingChan) <= ChanSize
         /\ Len(storageChan) <= ChanSize /\ Len(resultChan) <= ChanSize
         /\ ChanSize \in Nat
BY SizesAssumption DEF TypeOK

\* What a goroutine takes is a document that then nobody else has.
LEMMA TakeType ==
  ASSUME TypeOK, NEW w \in StageWorkers, NEW chan \in Seq(Requests), Takes(w, chan)
  PROVE  /\ Head(chan) \in Requests /\ Head(chan) # NoRequest
         /\ Tail(chan) \in Seq(Requests) /\ Len(Tail(chan)) = Len(chan) - 1
         /\ Len(chan) \in Nat
         /\ holding' \in [StageWorkers -> Requests \cup {NoRequest}]
         /\ deadline' \in [StageWorkers -> {"none", "armed", "expired"}]
<1>1. /\ Head(chan) \in Requests /\ Tail(chan) \in Seq(Requests)
      /\ Len(Tail(chan)) = Len(chan) - 1 /\ Len(chan) \in Nat
  BY ReceiveType DEF Takes
<1>2. Head(chan) # NoRequest
  BY <1>1, NoRequestAssumption
<1>3. holding' \in [StageWorkers -> Requests \cup {NoRequest}]
  BY <1>1 DEF Takes, TypeOK
<1>4. deadline' \in [StageWorkers -> {"none", "armed", "expired"}]
  BY DEF Takes, TypeOK, Armed
<1>. QED  BY <1>1, <1>2, <1>3, <1>4

LEMMA HandType ==
  ASSUME TypeOK, NEW w \in StageWorkers, NEW failed \in SUBSET Steps, Hands(w, failed),
         NEW chan \in Seq(Requests), HasRoom(chan)
  PROVE  /\ holding[w] \in Requests
         /\ Append(chan, holding[w]) \in Seq(Requests)
         /\ Len(Append(chan, holding[w])) <= ChanSize
         /\ holding' \in [StageWorkers -> Requests \cup {NoRequest}]
         /\ errors' \in [Requests -> SUBSET Steps]
<1>1. holding[w] \in Requests
  BY DEF Hands, TypeOK
<1>2. /\ Append(chan, holding[w]) \in Seq(Requests)
      /\ Len(Append(chan, holding[w])) = Len(chan) + 1 /\ Len(chan) \in Nat
  BY <1>1, SendType
<1>3. Len(Append(chan, holding[w])) <= ChanSize
  BY <1>2, SizesAssumption DEF HasRoom
<1>4. holding' \in [StageWorkers -> Requests \cup {NoRequest}]
  BY DEF Hands, TypeOK
<1>5. errors' \in [Requests -> SUBSET Steps]
  BY <1>1 DEF Hands, TypeOK
<1>. QED  BY <1>1, <1>2, <1>3, <1>4, <1>5

LEMMA ReturnType ==
  ASSUME TypeOK, NEW c \in Callers, NEW how \in {"own", "wrong", "unsubmitted", "abandoned"},
         Return(c, how)
  PROVE  /\ call' \in [Callers -> {"idle", "submitting", "waiting"}]
         /\ asked' \in [Callers -> Requests \cup {NoRequest}]
         /\ outcome' \in [Requests -> {"none", "asked", "own", "wrong", "unsubmitted",
                                       "abandoned"}]
BY DEF Return, TypeOK

LEMMA TypeInit == Init => TypeOK
<1>. SUFFICES ASSUME Init PROVE TypeOK
  OBVIOUS
<1>1. <<>> \in Seq(Requests) /\ Len(<<>>) <= ChanSize
  BY EmptyContents, SizesAssumption
<1>. QED  BY <1>1 DEF Init, TypeOK

LEMMA TypeCall ==
  ASSUME TypeOK, CallersAsk, NEW c \in Callers,
         CallStep(c) \/ \E r \in Requests : Begin(c, r)
  PROVE  TypeOK'
<1>1. CASE \E r \in Requests : Begin(c, r)
  BY <1>1 DEF Begin, TypeOK, chanVars, workVars, docVars
<1>2. CASE Submit(c)
  <2>1. asked[c] \in Requests
    BY <1>2 DEF Submit, CallersAsk, TypeOK
  <2>2. documentChan' \in Seq(Requests) /\ Len(documentChan') <= ChanSize
    BY <1>2, <2>1, SendType, ChannelTypes DEF Submit, HasRoom
  <2>. QED  BY <1>2, <2>2 DEF Submit, TypeOK, workVars, docVars
<1>3. CASE SubmissionTimeout(c)
  BY <1>3, ReturnType DEF SubmissionTimeout, TypeOK, chanVars, workVars, docVars
<1>4. CASE Receive(c)
  <2>1. resultChan' \in Seq(Requests) /\ Len(resultChan') <= ChanSize
    BY <1>4, ReceiveType, ChannelTypes DEF Receive
  <2>2. PICK how \in {"own", "wrong"} : Return(c, how)
    BY <1>4 DEF Receive
  <2>. QED  BY <1>4, <2>1, <2>2, ReturnType DEF Receive, TypeOK, workVars, docVars
<1>5. CASE ResultTimeout(c)
  BY <1>5, ReturnType DEF ResultTimeout, TypeOK, chanVars, workVars, docVars
<1>. QED  BY <1>1, <1>2, <1>3, <1>4, <1>5 DEF CallStep

LEMMA TypeWorker ==
  ASSUME TypeOK,
         \/ \E w \in Extractors : ExtractionStep(w)
         \/ \E w \in Processors : ProcessingStep(w)
         \/ \E w \in Storers : StorageStep(w)
         \/ \E w \in StageWorkers : Expire(w)
  PROVE  TypeOK'
<1>0. SUFFICES ASSUME NEW w \in StageWorkers,
                      \/ ExtractionStep(w) \/ ProcessingStep(w) \/ StorageStep(w)
                      \/ Expire(w)
               PROVE  TypeOK'
  BY WorkersType
<1>1. CASE TakeDocument(w)
  <2>1. documentChan' \in Seq(Requests) /\ Len(documentChan') <= ChanSize
    BY <1>1, TakeType, ChannelTypes DEF TakeDocument
  <2>. QED  BY <1>1, <2>1, TakeType, ChannelTypes
            DEF TakeDocument, Takes, TypeOK, callerVars, docVars
<1>2. CASE TakeExtracted(w)
  <2>1. processingChan' \in Seq(Requests) /\ Len(processingChan') <= ChanSize
    BY <1>2, TakeType, ChannelTypes DEF TakeExtracted
  <2>. QED  BY <1>2, <2>1, TakeType, ChannelTypes
            DEF TakeExtracted, Takes, TypeOK, callerVars, docVars
<1>3. CASE TakeProcessed(w)
  <2>1. storageChan' \in Seq(Requests) /\ Len(storageChan') <= ChanSize
    BY <1>3, TakeType, ChannelTypes DEF TakeProcessed
  <2>. QED  BY <1>3, <2>1, TakeType, ChannelTypes
            DEF TakeProcessed, Takes, TypeOK, callerVars, docVars
<1>4. CASE Extract(w)
  <2>1. PICK ok \in SUBSET Possible(w, Parts \cup {"unified"}) :
               /\ HasRoom(processingChan)
               /\ Hands(w, Extraction(ok).errors)
               /\ parts' = [parts EXCEPT ![holding[w]] = Extraction(ok).parts]
               /\ processingChan' = Append(processingChan, holding[w])
               /\ UNCHANGED <<documentChan, storageChan, resultChan>>
    BY <1>4 DEF Extract
  <2>2. Extraction(ok).errors \in SUBSET Steps /\ Extraction(ok).parts \in SUBSET Parts
    BY ExtractionSound
  <2>3. /\ holding[w] \in Requests
        /\ processingChan' \in Seq(Requests) /\ Len(processingChan') <= ChanSize
        /\ holding' \in [StageWorkers -> Requests \cup {NoRequest}]
        /\ errors' \in [Requests -> SUBSET Steps]
    BY <2>1, <2>2, HandType, ChannelTypes
  <2>4. parts' \in [Requests -> SUBSET Parts]
    BY <2>1, <2>2, <2>3 DEF TypeOK
  <2>. QED  BY <2>1, <2>3, <2>4 DEF Hands, TypeOK, callerVars
<1>5. CASE Process(w)
  <2>1. PICK failed \in SUBSET {"embedding"} : HasRoom(storageChan) /\ Hands(w, failed)
    BY <1>5 DEF Process
  <2>2. failed \in SUBSET Steps
    BY StepsType
  <2>3. /\ storageChan' \in Seq(Requests) /\ Len(storageChan') <= ChanSize
        /\ holding' \in [StageWorkers -> Requests \cup {NoRequest}]
        /\ errors' \in [Requests -> SUBSET Steps]
    BY <1>5, <2>1, <2>2, HandType, ChannelTypes DEF Process
  <2>. QED  BY <1>5, <2>1, <2>3 DEF Process, Hands, TypeOK, callerVars
<1>6. CASE Store(w)
  <2>1. PICK failed \in SUBSET {"storing"} : HasRoom(resultChan) /\ Hands(w, failed)
    BY <1>6 DEF Store
  <2>2. failed \in SUBSET Steps
    BY StepsType
  <2>3. /\ resultChan' \in Seq(Requests) /\ Len(resultChan') <= ChanSize
        /\ holding' \in [StageWorkers -> Requests \cup {NoRequest}]
        /\ errors' \in [Requests -> SUBSET Steps]
    BY <1>6, <2>1, <2>2, HandType, ChannelTypes DEF Store
  <2>. QED  BY <1>6, <2>1, <2>3 DEF Store, Hands, TypeOK, callerVars
<1>7. CASE Expire(w)
  BY <1>7 DEF Expire, TypeOK, callerVars, chanVars, docVars
<1>. QED  BY <1>0, <1>1, <1>2, <1>3, <1>4, <1>5, <1>6, <1>7
          DEF ExtractionStep, ProcessingStep, StorageStep

-----------------------------------------------------------------------------
(* Every document in one place *)

LEMMA TakeMoves ==
  ASSUME TypeOK, HandsApart, NEW w \in StageWorkers, NEW chan \in Seq(Requests),
         Takes(w, chan), IsInjective(chan), \A v \in StageWorkers : holding[v] \notin Range(chan)
  PROVE  /\ Range(Tail(chan)) = Range(chan) \ {Head(chan)}
         /\ IsInjective(Tail(chan))
         /\ Head(chan) \in Range(chan) /\ Head(chan) \in Requests
         /\ holding'[w] = Head(chan)
         /\ \A v \in StageWorkers : v # w => holding'[v] = holding[v]
         /\ InHand' = InHand \cup {Head(chan)}
<1>1. /\ Range(Tail(chan)) = Range(chan) \ {Head(chan)}
      /\ IsInjective(Tail(chan)) /\ Head(chan) \in Range(chan)
  BY ReceiveContents DEF Takes
<1>2. Head(chan) \in Requests
  BY TakeType
<1>3. /\ holding'[w] = Head(chan)
      /\ \A v \in StageWorkers : v # w => holding'[v] = holding[v]
      /\ holding[w] = NoRequest
  BY DEF Takes, TypeOK
<1>4. InHand' = InHand \cup {Head(chan)}
  BY <1>2, <1>3, NoRequestAssumption DEF InHand
<1>. QED  BY <1>1, <1>2, <1>3, <1>4

LEMMA HandMoves ==
  ASSUME TypeOK, HandsApart, NEW w \in StageWorkers, NEW failed, Hands(w, failed),
         NEW chan \in Seq(Requests), IsInjective(chan),
         \A v \in StageWorkers : holding[v] \notin Range(chan)
  PROVE  /\ Range(Append(chan, holding[w])) = Range(chan) \cup {holding[w]}
         /\ IsInjective(Append(chan, holding[w]))
         /\ holding[w] \in Requests
         /\ holding'[w] = NoRequest
         /\ \A v \in StageWorkers : v # w => holding'[v] = holding[v]
         /\ \A v \in StageWorkers : v # w => holding[v] # holding[w]
         /\ InHand' = InHand \ {holding[w]} /\ holding[w] \in InHand
<1>1. holding[w] \in Requests /\ holding[w] # NoRequest
  BY DEF Hands, TypeOK
<1>2. /\ Range(Append(chan, holding[w])) = Range(chan) \cup {holding[w]}
      /\ IsInjective(Append(chan, holding[w]))
  BY <1>1, SendContents
<1>3. /\ holding'[w] = NoRequest
      /\ \A v \in StageWorkers : v # w => holding'[v] = holding[v]
  BY DEF Hands, TypeOK
<1>4. \A v \in StageWorkers : v # w => holding[v] # holding[w]
  BY <1>1 DEF HandsApart
<1>5. InHand' = InHand \ {holding[w]} /\ holding[w] \in InHand
  BY <1>1, <1>3, <1>4, NoRequestAssumption DEF InHand
<1>. QED  BY <1>1, <1>2, <1>3, <1>4, <1>5

Stays == Located' = Located /\ ChannelsApart' /\ HandsApart'

\* Taking a document from a channel changes its place and nothing else.
LEMMA TakeStays ==
  ASSUME PlacesInv, NEW w \in StageWorkers,
         TakeDocument(w) \/ TakeExtracted(w) \/ TakeProcessed(w)
  PROVE  Stays
<1>. USE DEF PlacesInv
<1>0. NoRequest \notin Requests
  BY NoRequestAssumption
<1>1. /\ Range(documentChan) \subseteq Requests /\ Range(processingChan) \subseteq Requests
      /\ Range(storageChan) \subseteq Requests /\ Range(resultChan) \subseteq Requests
  BY ChannelTypes, ContentsType
<1>2. CASE TakeDocument(w)
  <2>1. /\ documentChan' = Tail(documentChan) /\ processingChan' = processingChan
        /\ storageChan' = storageChan /\ resultChan' = resultChan
    BY <1>2 DEF TakeDocument, Takes
  <2>2. /\ Range(documentChan') = Range(documentChan) \ {Head(documentChan)}
        /\ IsInjective(documentChan')
        /\ Head(documentChan) \in Range(documentChan)
        /\ holding'[w] = Head(documentChan)
        /\ \A v \in StageWorkers : v # w => holding'[v] = holding[v]
        /\ InHand' = InHand \cup {Head(documentChan)}
    BY <1>2, <2>1, TakeMoves, ChannelTypes DEF TakeDocument, ChannelsApart, HandsApart
  <2>3. Located' = Located
    BY <2>1, <2>2 DEF Located
  <2>4. ChannelsApart'
    BY <2>1, <2>2 DEF ChannelsApart
  <2>5. HandsApart'
    BY <2>1, <2>2 DEF HandsApart, ChannelsApart
  <2>. QED  BY <2>3, <2>4, <2>5 DEF Stays
<1>3. CASE TakeExtracted(w)
  <2>1. /\ processingChan' = Tail(processingChan) /\ documentChan' = documentChan
        /\ storageChan' = storageChan /\ resultChan' = resultChan
    BY <1>3 DEF TakeExtracted, Takes
  <2>2. /\ Range(processingChan') = Range(processingChan) \ {Head(processingChan)}
        /\ IsInjective(processingChan')
        /\ Head(processingChan) \in Range(processingChan)
        /\ holding'[w] = Head(processingChan)
        /\ \A v \in StageWorkers : v # w => holding'[v] = holding[v]
        /\ InHand' = InHand \cup {Head(processingChan)}
    BY <1>3, <2>1, TakeMoves, ChannelTypes DEF TakeExtracted, ChannelsApart, HandsApart
  <2>3. Located' = Located
    BY <2>1, <2>2 DEF Located
  <2>4. ChannelsApart'
    BY <2>1, <2>2 DEF ChannelsApart
  <2>5. HandsApart'
    BY <2>1, <2>2 DEF HandsApart, ChannelsApart
  <2>. QED  BY <2>3, <2>4, <2>5 DEF Stays
<1>4. CASE TakeProcessed(w)
  <2>1. /\ storageChan' = Tail(storageChan) /\ documentChan' = documentChan
        /\ processingChan' = processingChan /\ resultChan' = resultChan
    BY <1>4 DEF TakeProcessed, Takes
  <2>2. /\ Range(storageChan') = Range(storageChan) \ {Head(storageChan)}
        /\ IsInjective(storageChan')
        /\ Head(storageChan) \in Range(storageChan)
        /\ holding'[w] = Head(storageChan)
        /\ \A v \in StageWorkers : v # w => holding'[v] = holding[v]
        /\ InHand' = InHand \cup {Head(storageChan)}
    BY <1>4, <2>1, TakeMoves, ChannelTypes DEF TakeProcessed, ChannelsApart, HandsApart
  <2>3. Located' = Located
    BY <2>1, <2>2 DEF Located
  <2>4. ChannelsApart'
    BY <2>1, <2>2 DEF ChannelsApart
  <2>5. HandsApart'
    BY <2>1, <2>2 DEF HandsApart, ChannelsApart
  <2>. QED  BY <2>3, <2>4, <2>5 DEF Stays
<1>. QED  BY <1>2, <1>3, <1>4

\* So does handing it on.
LEMMA HandStays ==
  ASSUME PlacesInv, NEW w \in StageWorkers, Extract(w) \/ Process(w) \/ Store(w)
  PROVE  Stays
<1>. USE DEF PlacesInv
<1>0. NoRequest \notin Requests
  BY NoRequestAssumption
<1>1. /\ Range(documentChan) \subseteq Requests /\ Range(processingChan) \subseteq Requests
      /\ Range(storageChan) \subseteq Requests /\ Range(resultChan) \subseteq Requests
  BY ChannelTypes, ContentsType
<1>2. CASE Extract(w)
  <2>1. /\ processingChan' = Append(processingChan, holding[w])
        /\ documentChan' = documentChan
        /\ storageChan' = storageChan /\ resultChan' = resultChan
        /\ \E failed : Hands(w, failed)
    BY <1>2 DEF Extract
  <2>2. /\ Range(processingChan') = Range(processingChan) \cup {holding[w]}
        /\ IsInjective(processingChan')
        /\ holding[w] \in Requests
        /\ holding'[w] = NoRequest
        /\ \A v \in StageWorkers : v # w => holding'[v] = holding[v]
        /\ \A v \in StageWorkers : v # w => holding[v] # holding[w]
        /\ InHand' = InHand \ {holding[w]} /\ holding[w] \in InHand
    BY <2>1, HandMoves, ChannelTypes DEF ChannelsApart, HandsApart
  <2>3. Located' = Located
    BY <2>1, <2>2 DEF Located
  <2>4. ChannelsApart'
    BY <2>1, <2>2 DEF ChannelsApart, HandsApart
  <2>5. HandsApart'
    BY <1>0, <1>1, <2>1, <2>2 DEF HandsApart
  <2>. QED  BY <2>3, <2>4, <2>5 DEF Stays
<1>3. CASE Process(w)
  <2>1. /\ storageChan' = Append(storageChan, holding[w])
        /\ documentChan' = documentChan
        /\ processingChan' = processingChan /\ resultChan' = resultChan
        /\ \E failed : Hands(w, failed)
    BY <1>3 DEF Process
  <2>2. /\ Range(storageChan') = Range(storageChan) \cup {holding[w]}
        /\ IsInjective(storageChan')
        /\ holding[w] \in Requests
        /\ holding'[w] = NoRequest
        /\ \A v \in StageWorkers : v # w => holding'[v] = holding[v]
        /\ \A v \in StageWorkers : v # w => holding[v] # holding[w]
        /\ InHand' = InHand \ {holding[w]} /\ holding[w] \in InHand
    BY <2>1, HandMoves, ChannelTypes DEF ChannelsApart, HandsApart
  <2>3. Located' = Located
    BY <2>1, <2>2 DEF Located
  <2>4. ChannelsApart'
    BY <2>1, <2>2 DEF ChannelsApart, HandsApart
  <2>5. HandsApart'
    BY <1>0, <1>1, <2>1, <2>2 DEF HandsApart
  <2>. QED  BY <2>3, <2>4, <2>5 DEF Stays
<1>4. CASE Store(w)
  <2>1. /\ resultChan' = Append(resultChan, holding[w])
        /\ documentChan' = documentChan
        /\ processingChan' = processingChan /\ storageChan' = storageChan
        /\ \E failed : Hands(w, failed)
    BY <1>4 DEF Store
  <2>2. /\ Range(resultChan') = Range(resultChan) \cup {holding[w]}
        /\ IsInjective(resultChan')
        /\ holding[w] \in Requests
        /\ holding'[w] = NoRequest
        /\ \A v \in StageWorkers : v # w => holding'[v] = holding[v]
        /\ \A v \in StageWorkers : v # w => holding[v] # holding[w]
        /\ InHand' = InHand \ {holding[w]} /\ holding[w] \in InHand
    BY <2>1, HandMoves, ChannelTypes DEF ChannelsApart, HandsApart
  <2>3. Located' = Located
    BY <2>1, <2>2 DEF Located
  <2>4. ChannelsApart'
    BY <2>1, <2>2 DEF ChannelsApart, HandsApart
  <2>5. HandsApart'
    BY <1>0, <1>1, <2>1, <2>2 DEF HandsApart
  <2>. QED  BY <2>3, <2>4, <2>5 DEF Stays
<1>. QED  BY <1>2, <1>3, <1>4

\* A stage goroutine changes nothing that the callers see but the places of
\* documents.
LEMMA StageStays ==
  ASSUME PlacesInv,
         \/ \E w \in Extractors : ExtractionStep(w)
         \/ \E w \in Processors : ProcessingStep(w)
         \/ \E w \in Storers : StorageStep(w)
         \/ \E w \in StageWorkers : Expire(w)
  PROVE  Stays /\ UNCHANGED callerVars
<1>1. CASE \E w \in StageWorkers : Expire(w)
  BY <1>1 DEF Expire, Stays, Located, InHand, ChannelsApart, HandsApart, chanVars,
              PlacesInv
<1>2. CASE \E w \in Extractors : ExtractionStep(w)
  <2>. PICK w \in Extractors : ExtractionStep(w)
    BY <1>2
  <2>1. Stays
    BY TakeStays, HandStays, WorkersType DEF ExtractionStep
  <2>. QED  BY <2>1 DEF ExtractionStep, TakeDocument, Takes, Extract, Hands
<1>3. CASE \E w \in Processors : ProcessingStep(w)
  <2>. PICK w \in Processors : ProcessingStep(w)
    BY <1>3
  <2>1. Stays
    BY TakeStays, HandStays, WorkersType DEF ProcessingStep
  <2>. QED  BY <2>1 DEF ProcessingStep, TakeExtracted, Takes, Process, Hands
<1>4. CASE \E w \in Storers : StorageStep(w)
  <2>. PICK w \in Storers : StorageStep(w)
    BY <1>4
  <2>1. Stays
    BY TakeStays, HandStays, WorkersType DEF StorageStep
  <2>. QED  BY <2>1 DEF StorageStep, TakeProcessed, Takes, Store, Hands
<1>. QED  BY <1>1, <1>2, <1>3, <1>4

\* What a caller does to the places: one document more when it submits, one less
\* when it takes a response, and neither otherwise.
LEMMA SubmitMoves ==
  ASSUME PlacesInv, NEW c \in Callers, Submit(c)
  PROVE  /\ asked[c] \in Requests /\ asked[c] \notin Located
         /\ Located' = Located \cup {asked[c]}
         /\ Range(documentChan') = Range(documentChan) \cup {asked[c]}
         /\ ChannelsApart' /\ HandsApart'
<1>. USE DEF PlacesInv
<1>1. /\ call[c] = "submitting" /\ documentChan' = Append(documentChan, asked[c])
      /\ UNCHANGED <<processingChan, storageChan, resultChan, holding>>
  BY DEF Submit, workVars
<1>2. asked[c] \in Requests /\ asked[c] \notin Located
  BY <1>1 DEF CallersAsk, OnlySubmitted, TypeOK
<1>3. /\ Range(documentChan') = Range(documentChan) \cup {asked[c]}
      /\ IsInjective(documentChan')
  BY <1>1, <1>2, SendContents, ChannelTypes DEF ChannelsApart, Located
<1>4. Located' = Located \cup {asked[c]}
  BY <1>1, <1>3 DEF Located, InHand
<1>5. ChannelsApart'
  BY <1>1, <1>2, <1>3 DEF ChannelsApart, Located
<1>6. \A v \in StageWorkers : holding[v] # asked[c]
  BY <1>2 DEF Located, InHand
<1>7. HandsApart'
  BY <1>1, <1>3, <1>6 DEF HandsApart
<1>. QED  BY <1>2, <1>3, <1>4, <1>5, <1>7

LEMMA ReceiveMoves ==
  ASSUME PlacesInv, NEW c \in Callers, Receive(c)
  PROVE  /\ Head(resultChan) \in Located
         /\ Located' = Located \ {Head(resultChan)}
         /\ Range(resultChan') = Range(resultChan) \ {Head(resultChan)}
         /\ ChannelsApart' /\ HandsApart'
<1>. USE DEF PlacesInv
<1>1. /\ resultChan # <<>> /\ resultChan' = Tail(resultChan)
      /\ UNCHANGED <<documentChan, processingChan, storageChan, holding>>
  BY DEF Receive, workVars
<1>2. /\ Range(resultChan') = Range(resultChan) \ {Head(resultChan)}
      /\ Head(resultChan) \in Range(resultChan)
      /\ IsInjective(resultChan')
  BY <1>1, ReceiveContents, ChannelTypes DEF ChannelsApart
<1>3. Head(resultChan) \notin InHand
  BY <1>2 DEF HandsApart, InHand
<1>4. Located' = Located \ {Head(resultChan)}
  BY <1>1, <1>2, <1>3 DEF Located, InHand, ChannelsApart
<1>5. ChannelsApart' /\ HandsApart'
  BY <1>1, <1>2 DEF ChannelsApart, HandsApart
<1>. QED  BY <1>2, <1>4, <1>5 DEF Located

LEMMA CallStays ==
  ASSUME PlacesInv, NEW c \in Callers,
         \/ SubmissionTimeout(c) \/ ResultTimeout(c)
         \/ \E r \in Requests : Begin(c, r)
  PROVE  Stays
BY DEF PlacesInv, SubmissionTimeout, ResultTimeout, Begin, Stays, Located, InHand,
       ChannelsApart, HandsApart, chanVars, workVars

\* A call that returns leaves its caller idle and its request answered.
LEMMA ReturnAsks ==
  ASSUME TypeOK, CallersAsk, NEW c \in Callers, NEW how, Return(c, how),
         call[c] # "idle", how # "asked"
  PROVE  /\ CallersAsk'
         /\ asked[c] \in Requests /\ outcome[asked[c]] = "asked"
         /\ outcome'[asked[c]] = how
         /\ \A r \in Requests : r # asked[c] => outcome'[r] = outcome[r]
         /\ call'[c] = "idle" /\ \A d \in Callers : d # c => call'[d] = call[d]
         /\ \A d \in Callers : d # c => asked'[d] = asked[d] /\ (call[d] # "idle" => asked[d] # asked[c])
<1>1. asked[c] \in Requests /\ outcome[asked[c]] = "asked"
  BY DEF CallersAsk, TypeOK
<1>2. /\ outcome'[asked[c]] = how
      /\ \A r \in Requests : r # asked[c] => outcome'[r] = outcome[r]
  BY <1>1 DEF Return, TypeOK
<1>3. /\ call'[c] = "idle" /\ \A d \in Callers : d # c => call'[d] = call[d]
      /\ asked'[c] = NoRequest /\ \A d \in Callers : d # c => asked'[d] = asked[d]
  BY DEF Return, TypeOK
<1>4. \A d \in Callers : d # c /\ call[d] # "idle" => asked[d] # asked[c]
  BY DEF CallersAsk
<1>5. \A d \in Callers : call[d] # "idle" => asked[d] \in Requests
  BY DEF CallersAsk, TypeOK
<1>6. CallersAsk'
  BY <1>2, <1>3, <1>4, <1>5 DEF CallersAsk
<1>. QED  BY <1>1, <1>2, <1>3, <1>4, <1>6

LEMMA BeginAsks ==
  ASSUME TypeOK, CallersAsk, NEW c \in Callers, NEW r \in Requests, Begin(c, r)
  PROVE  /\ CallersAsk'
         /\ call[c] = "idle" /\ outcome[r] = "none"
         /\ outcome'[r] = "asked" /\ \A q \in Requests : q # r => outcome'[q] = outcome[q]
         /\ call'[c] = "submitting" /\ \A d \in Callers : d # c => call'[d] = call[d]
         /\ asked'[c] = r /\ \A d \in Callers : d # c => asked'[d] = asked[d]
<1>1. /\ call[c] = "idle" /\ outcome[r] = "none"
      /\ outcome'[r] = "asked" /\ \A q \in Requests : q # r => outcome'[q] = outcome[q]
      /\ call'[c] = "submitting" /\ \A d \in Callers : d # c => call'[d] = call[d]
      /\ asked'[c] = r /\ \A d \in Callers : d # c => asked'[d] = asked[d]
  BY DEF Begin, TypeOK
<1>2. \A d \in Callers : call[d] # "idle" => asked[d] \in Requests /\ asked[d] # r
  BY <1>1 DEF CallersAsk, TypeOK
<1>3. CallersAsk'
  BY <1>1, <1>2, NoRequestAssumption DEF CallersAsk
<1>. QED  BY <1>1, <1>3

LEMMA LocatedType == ASSUME TypeOK PROVE Located \subseteq Requests
BY ChannelTypes, ContentsType DEF Located, InHand

LEMMA PlacesInit == Init => PlacesInv
<1>. SUFFICES ASSUME Init PROVE PlacesInv
  OBVIOUS
<1>1. TypeOK
  BY TypeInit
<1>2. CallersAsk
  BY DEF Init, CallersAsk
<1>3. ChannelsApart /\ HandsApart /\ Located = {}
  BY EmptyContents, NoRequestAssumption
     DEF Init, ChannelsApart, HandsApart, Located, InHand
<1>4. OnlySubmitted
  BY <1>3 DEF OnlySubmitted, Init
<1>. QED  BY <1>1, <1>2, <1>3, <1>4 DEF PlacesInv

LEMMA PlacesStep == PlacesInv /\ [Next]_vars => PlacesInv'
<1>. SUFFICES ASSUME PlacesInv, [Next]_vars PROVE PlacesInv'
  OBVIOUS
<1>. USE DEF PlacesInv
<1>1. CASE UNCHANGED vars
  BY <1>1 DEF vars, callerVars, chanVars, workVars, docVars, TypeOK, CallersAsk,
              ChannelsApart, HandsApart, OnlySubmitted, Located, InHand
<1>2. CASE \/ \E w \in Extractors : ExtractionStep(w)
           \/ \E w \in Processors : ProcessingStep(w)
           \/ \E w \in Storers : StorageStep(w)
           \/ \E w \in StageWorkers : Expire(w)
  <2>1. TypeOK'
    BY <1>2, TypeWorker
  <2>2. Stays /\ UNCHANGED callerVars
    BY <1>2, StageStays
  <2>3. CallersAsk' /\ OnlySubmitted'
    BY <2>2 DEF callerVars, CallersAsk, OnlySubmitted, Stays
  <2>. QED  BY <2>1, <2>2, <2>3 DEF Stays
<1>3. ASSUME NEW c \in Callers, CallStep(c) \/ \E r \in Requests : Begin(c, r)
      PROVE  PlacesInv'
  <2>1. TypeOK'
    BY <1>3, TypeCall
  <2>2. CASE \E r \in Requests : Begin(c, r)
    <3>. PICK r \in Requests : Begin(c, r)
      BY <2>2
    <3>1. Stays
      BY CallStays
    <3>2. CallersAsk'
      BY BeginAsks
    <3>3. r \notin Located
      BY BeginAsks DEF OnlySubmitted
    <3>4. OnlySubmitted'
      BY <3>1, <3>3, BeginAsks, LocatedType DEF OnlySubmitted, Stays
    <3>. QED  BY <2>1, <3>1, <3>2, <3>4 DEF Stays
  <2>3. CASE Submit(c)
    <3>1. /\ call[c] = "submitting" /\ call'[c] = "waiting"
          /\ \A d \in Callers : d # c => call'[d] = call[d]
          /\ UNCHANGED <<asked, outcome>>
      BY <2>3 DEF Submit, TypeOK
    <3>2. CallersAsk'
      BY <3>1 DEF CallersAsk
    <3>3. OnlySubmitted'
      BY <2>3, <3>1, SubmitMoves DEF OnlySubmitted, CallersAsk
    <3>. QED  BY <2>1, <2>3, <3>2, <3>3, SubmitMoves
  <2>4. CASE SubmissionTimeout(c)
    <3>1. Return(c, "unsubmitted") /\ call[c] = "submitting"
      BY <2>4 DEF SubmissionTimeout
    <3>2. Stays
      BY <2>4, CallStays
    <3>3. asked[c] \notin Located
      BY <3>1 DEF OnlySubmitted
    <3>4. OnlySubmitted'
      BY <3>1, <3>2, <3>3, ReturnAsks, LocatedType DEF OnlySubmitted, Stays
    <3>. QED  BY <2>1, <3>1, <3>2, <3>4, ReturnAsks DEF Stays
  <2>5. CASE Receive(c)
    <3>1. PICK how \in {"own", "wrong"} : Return(c, how) /\ call[c] = "waiting"
      BY <2>5 DEF Receive
    <3>2. OnlySubmitted'
      BY <2>5, <3>1, ReturnAsks, ReceiveMoves, LocatedType DEF OnlySubmitted
    <3>. QED  BY <2>1, <2>5, <3>1, <3>2, ReturnAsks, ReceiveMoves
  <2>6. CASE ResultTimeout(c)
    <3>1. Return(c, "abandoned") /\ call[c] = "waiting"
      BY <2>6 DEF ResultTimeout
    <3>2. Stays
      BY <2>6, CallStays
    <3>3. OnlySubmitted'
      BY <3>1, <3>2, ReturnAsks, LocatedType DEF OnlySubmitted, Stays
    <3>. QED  BY <2>1, <3>1, <3>2, <3>3, ReturnAsks DEF Stays
  <2>. QED  BY <1>3, <2>2, <2>3, <2>4, <2>5, <2>6 DEF CallStep
<1>. QED  BY <1>1, <1>2, <1>3 DEF Next

-----------------------------------------------------------------------------
(* The documents in the pipeline are counted by the callers *)

LEMMA CountedInit == Init => Counted /\ SoleCaller
<1>. SUFFICES ASSUME Init PROVE Counted /\ SoleCaller
  OBVIOUS
<1>1. Located = {} /\ Waiting = {} /\ Abandoned = {}
  BY EmptyContents, NoRequestAssumption
     DEF Init, Located, InHand, Waiting, Abandoned
<1>2. IsFiniteSet({}) /\ Cardinality({}) = 0
  BY FS_EmptySet
<1>3. Counted
  BY <1>1, <1>2 DEF Counted
<1>4. SoleCaller
  BY <1>1 DEF SoleCaller, Init
<1>. QED  BY <1>3, <1>4

\* A step that leaves the three sets as they are.
LEMMA CountedKept ==
  ASSUME Counted, Located' = Located, Waiting' = Waiting, Abandoned' = Abandoned
  PROVE  Counted'
BY DEF Counted

LEMMA CountedStep == PlacesInv /\ Counted /\ [Next]_vars => Counted'
<1>. SUFFICES ASSUME PlacesInv, Counted, [Next]_vars PROVE Counted'
  OBVIOUS
<1>1. CASE UNCHANGED vars
  BY <1>1, CountedKept
     DEF vars, callerVars, chanVars, workVars, docVars, Located, InHand, Waiting, Abandoned
<1>2. CASE \/ \E w \in Extractors : ExtractionStep(w)
           \/ \E w \in Processors : ProcessingStep(w)
           \/ \E w \in Storers : StorageStep(w)
           \/ \E w \in StageWorkers : Expire(w)
  <2>1. Stays /\ UNCHANGED callerVars
    BY <1>2, StageStays
  <2>. QED  BY <2>1, CountedKept DEF Stays, callerVars, Waiting, Abandoned
<1>3. ASSUME NEW c \in Callers, CallStep(c) \/ \E r \in Requests : Begin(c, r)
      PROVE  Counted'
  <2>0. TypeOK /\ CallersAsk
    BY DEF PlacesInv
  <2>1. CASE \E r \in Requests : Begin(c, r)
    <3>. PICK r \in Requests : Begin(c, r)
      BY <2>1
    <3>1. Located' = Located
      BY CallStays DEF Stays
    <3>2. Waiting' = Waiting /\ Abandoned' = Abandoned
      BY <2>0, BeginAsks DEF Waiting, Abandoned
    <3>. QED  BY <3>1, <3>2, CountedKept
  <2>2. CASE Submit(c)
    <3>1. /\ call[c] = "submitting" /\ call'[c] = "waiting"
          /\ \A d \in Callers : d # c => call'[d] = call[d]
          /\ outcome' = outcome
      BY <2>0, <2>2 DEF Submit, TypeOK
    <3>2. Waiting' = Waiting \cup {c} /\ c \notin Waiting /\ Abandoned' = Abandoned
      BY <3>1 DEF Waiting, Abandoned
    <3>3. Located' = Located \cup {asked[c]} /\ asked[c] \notin Located
      BY <2>2, SubmitMoves
    <3>4. /\ IsFiniteSet(Waiting') /\ IsFiniteSet(Located')
          /\ Cardinality(Waiting') = Cardinality(Waiting) + 1
          /\ Cardinality(Located') = Cardinality(Located) + 1
          /\ Cardinality(Waiting) \in Nat
      BY <3>2, <3>3, OneMore DEF Counted
    <3>5. Cardinality(Abandoned) \in Nat
      BY FS_CardinalityType DEF Counted
    <3>. QED  BY <3>2, <3>4, <3>5 DEF Counted
  <2>3. CASE SubmissionTimeout(c)
    <3>1. Return(c, "unsubmitted") /\ call[c] = "submitting"
      BY <2>3 DEF SubmissionTimeout
    <3>2. Located' = Located
      BY <2>3, CallStays DEF Stays
    <3>3. Waiting' = Waiting /\ Abandoned' = Abandoned
      BY <2>0, <3>1, ReturnAsks DEF Waiting, Abandoned
    <3>. QED  BY <3>2, <3>3, CountedKept
  <2>4. CASE Receive(c)
    <3>1. PICK how \in {"own", "wrong"} : Return(c, how) /\ call[c] = "waiting"
      BY <2>4 DEF Receive
    <3>2. Waiting' = Waiting \ {c} /\ c \in Waiting /\ Abandoned' = Abandoned
      BY <2>0, <3>1, ReturnAsks DEF Waiting, Abandoned
    <3>3. Located' = Located \ {Head(resultChan)} /\ Head(resultChan) \in Located
      BY <2>4, ReceiveMoves
    <3>4. /\ IsFiniteSet(Waiting') /\ IsFiniteSet(Located')
          /\ Cardinality(Waiting') = Cardinality(Waiting) - 1
          /\ Cardinality(Located') = Cardinality(Located) - 1
          /\ Cardinality(Waiting) \in Nat /\ Cardinality(Located) \in Nat
      BY <3>2, <3>3, OneLess DEF Counted
    <3>5. Cardinality(Abandoned) \in Nat
      BY FS_CardinalityType DEF Counted
    <3>. QED  BY <3>2, <3>4, <3>5 DEF Counted
  <2>5. CASE ResultTimeout(c)
    <3>1. Return(c, "abandoned") /\ call[c] = "waiting"
      BY <2>5 DEF ResultTimeout
    <3>2. Located' = Located
      BY <2>5, CallStays DEF Stays
    <3>3. /\ Waiting' = Waiting \ {c} /\ c \in Waiting
          /\ Abandoned' = Abandoned \cup {asked[c]} /\ asked[c] \notin Abandoned
      BY <2>0, <3>1, ReturnAsks DEF Waiting, Abandoned
    <3>4. /\ IsFiniteSet(Waiting') /\ IsFiniteSet(Abandoned')
          /\ Cardinality(Waiting') = Cardinality(Waiting) - 1
          /\ Cardinality(Abandoned') = Cardinality(Abandoned) + 1
          /\ Cardinality(Waiting) \in Nat /\ Cardinality(Abandoned) \in Nat
      BY <3>3, OneMore, OneLess DEF Counted
    <3>. QED  BY <3>2, <3>4 DEF Counted
  <2>. QED  BY <1>3, <2>1, <2>2, <2>3, <2>4, <2>5 DEF CallStep
<1>. QED  BY <1>1, <1>2, <1>3 DEF Next

\* Nothing makes an abandoned request anything else.
LEMMA AbandonedStays ==
  ASSUME PlacesInv, [Next]_vars
  PROVE  Abandoned \subseteq Abandoned'
<1>0. TypeOK /\ CallersAsk
  BY DEF PlacesInv
<1>1. CASE UNCHANGED vars
  BY <1>1 DEF vars, callerVars, Abandoned
<1>2. CASE \/ \E w \in Extractors : ExtractionStep(w)
           \/ \E w \in Processors : ProcessingStep(w)
           \/ \E w \in Storers : StorageStep(w)
           \/ \E w \in StageWorkers : Expire(w)
  BY <1>2, StageStays DEF callerVars, Abandoned
<1>3. ASSUME NEW c \in Callers, CallStep(c) \/ \E r \in Requests : Begin(c, r)
      PROVE  Abandoned \subseteq Abandoned'
  <2>1. CASE \E r \in Requests : Begin(c, r)
    BY <1>0, <2>1, BeginAsks DEF Abandoned
  <2>2. CASE Submit(c)
    BY <2>2 DEF Submit, Abandoned
  <2>3. CASE SubmissionTimeout(c) \/ Receive(c) \/ ResultTimeout(c)
    <3>1. PICK how \in {"own", "wrong", "unsubmitted", "abandoned"} : Return(c, how)
      BY <2>3 DEF SubmissionTimeout, Receive, ResultTimeout
    <3>2. call[c] # "idle"
      BY <2>3 DEF SubmissionTimeout, Receive, ResultTimeout
    <3>. QED  BY <1>0, <3>1, <3>2, ReturnAsks DEF Abandoned
  <2>. QED  BY <1>3, <2>1, <2>2, <2>3 DEF CallStep
<1>. QED  BY <1>1, <1>2, <1>3 DEF Next

LEMMA SoleCallerStep == PlacesInv /\ SoleCaller /\ [Next]_vars => SoleCaller'
<1>. SUFFICES ASSUME PlacesInv, SoleCaller, [Next]_vars,
                     NEW c \in Callers, Callers = {c}, Abandoned' = {}
              PROVE  /\ Located' = {asked'[d] : d \in Waiting'}
                     /\ \A r \in Requests : outcome'[r] # "wrong"
  BY DEF SoleCaller
<1>0. TypeOK /\ CallersAsk
  BY DEF PlacesInv
<1>1. /\ Located = {asked[d] : d \in Waiting}
      /\ \A r \in Requests : outcome[r] # "wrong"
  BY AbandonedStays DEF SoleCaller
<1>2. /\ call[c] = "waiting" => Located = {asked[c]}
      /\ call[c] # "waiting" => Located = {}
  BY <1>1 DEF Waiting
<1>3. SUFFICES /\ call'[c] = "waiting" => Located' = {asked'[c]}
               /\ call'[c] # "waiting" => Located' = {}
               /\ \A r \in Requests : outcome'[r] # "wrong"
  BY DEF Waiting
<1>4. CASE UNCHANGED vars
  BY <1>4, <1>1, <1>2
     DEF vars, callerVars, chanVars, workVars, docVars, Located, InHand
<1>5. CASE \/ \E w \in Extractors : ExtractionStep(w)
           \/ \E w \in Processors : ProcessingStep(w)
           \/ \E w \in Storers : StorageStep(w)
           \/ \E w \in StageWorkers : Expire(w)
  BY <1>5, <1>1, <1>2, StageStays DEF Stays, callerVars
<1>6. CASE \E r \in Requests : Begin(c, r)
  <2>. PICK r \in Requests : Begin(c, r)
    BY <1>6
  <2>1. Located' = Located
    BY CallStays DEF Stays
  <2>. QED  BY <1>0, <1>1, <1>2, <2>1, BeginAsks
<1>7. CASE Submit(c)
  BY <1>0, <1>1, <1>2, <1>7, SubmitMoves DEF Submit, TypeOK
<1>8. CASE SubmissionTimeout(c)
  <2>1. Return(c, "unsubmitted") /\ call[c] = "submitting" /\ Located' = Located
    BY <1>8, CallStays DEF SubmissionTimeout, Stays
  <2>. QED  BY <1>0, <1>1, <1>2, <2>1, ReturnAsks
<1>9. CASE Receive(c)
  <2>1. call[c] = "waiting" /\ Head(resultChan) = asked[c]
    BY <1>2, <1>9, ReceiveMoves DEF Receive
  <2>2. Return(c, "own")
    BY <1>9, <2>1 DEF Receive
  <2>3. Located' = {}
    BY <1>2, <1>9, <2>1, ReceiveMoves
  <2>. QED  BY <1>0, <1>1, <2>1, <2>2, <2>3, ReturnAsks
<1>10. CASE ResultTimeout(c)
  <2>1. asked[c] \in Abandoned'
    BY <1>0, <1>10, ReturnAsks DEF ResultTimeout, Abandoned
  <2>. QED  BY <2>1
<1>. QED  BY <1>4, <1>5, <1>6, <1>7, <1>8, <1>9, <1>10 DEF Next, CallStep

-----------------------------------------------------------------------------
(* What a response holds *)

LEMMA ContentInit == Init => ContentSound
BY EmptyContents, NoRequestAssumption, WorkersType
   DEF Init, ContentSound, Untouched, Extracted

LEMMA ContentKept ==
  ASSUME ContentSound, UNCHANGED docVars,
         Untouched' \subseteq Untouched, Extracted' \subseteq Extracted
  PROVE  ContentSound'
BY DEF ContentSound, docVars, Accounted

\* A step of a stage that takes a document.
LEMMA TakeContent ==
  ASSUME PlacesInv, ContentSound,
         \/ \E w \in Extractors : TakeDocument(w)
         \/ \E w \in Processors : TakeExtracted(w)
         \/ \E w \in Storers : TakeProcessed(w)
  PROVE  ContentSound'
<1>. USE DEF PlacesInv
<1>1. CASE \E w \in Extractors : TakeDocument(w)
  <2>. PICK w \in Extractors : TakeDocument(w)
    BY <1>1
  <2>1. /\ documentChan' = Tail(documentChan) /\ processingChan' = processingChan
        /\ storageChan' = storageChan /\ resultChan' = resultChan
        /\ UNCHANGED <<callerVars, docVars>>
    BY DEF TakeDocument, Takes
  <2>2. /\ Range(documentChan') = Range(documentChan) \ {Head(documentChan)}
        /\ Head(documentChan) \in Range(documentChan)
        /\ holding'[w] = Head(documentChan)
        /\ \A v \in StageWorkers : v # w => holding'[v] = holding[v]
    BY TakeMoves, ChannelTypes, WorkersType DEF TakeDocument, ChannelsApart, HandsApart
  <2>3. Untouched' \subseteq Untouched
    BY <2>1, <2>2, WorkersType DEF Untouched, callerVars
  <2>4. Extracted' \subseteq Extracted
    BY <2>1, <2>2, WorkersType DEF Extracted
  <2>. QED  BY <2>1, <2>3, <2>4, ContentKept
<1>2. CASE \E w \in Processors : TakeExtracted(w)
  <2>. PICK w \in Processors : TakeExtracted(w)
    BY <1>2
  <2>1. /\ processingChan' = Tail(processingChan) /\ documentChan' = documentChan
        /\ storageChan' = storageChan /\ resultChan' = resultChan
        /\ UNCHANGED <<callerVars, docVars>>
    BY DEF TakeExtracted, Takes
  <2>2. /\ Range(processingChan') = Range(processingChan) \ {Head(processingChan)}
        /\ Head(processingChan) \in Range(processingChan)
        /\ holding'[w] = Head(processingChan)
        /\ \A v \in StageWorkers : v # w => holding'[v] = holding[v]
    BY TakeMoves, ChannelTypes, WorkersType DEF TakeExtracted, ChannelsApart, HandsApart
  <2>3. Untouched' \subseteq Untouched
    BY <2>1, <2>2, WorkersType DEF Untouched, callerVars
  <2>4. Extracted' \subseteq Extracted
    BY <2>1, <2>2, WorkersType DEF Extracted
  <2>. QED  BY <2>1, <2>3, <2>4, ContentKept
<1>3. CASE \E w \in Storers : TakeProcessed(w)
  <2>. PICK w \in Storers : TakeProcessed(w)
    BY <1>3
  <2>1. /\ storageChan' = Tail(storageChan) /\ documentChan' = documentChan
        /\ processingChan' = processingChan /\ resultChan' = resultChan
        /\ UNCHANGED <<callerVars, docVars>>
    BY DEF TakeProcessed, Takes
  <2>2. /\ Range(storageChan') = Range(storageChan) \ {Head(storageChan)}
        /\ Head(storageChan) \in Range(storageChan)
        /\ holding'[w] = Head(storageChan)
        /\ \A v \in StageWorkers : v # w => holding'[v] = holding[v]
    BY TakeMoves, ChannelTypes, WorkersType DEF TakeProcessed, ChannelsApart, HandsApart
  <2>3. Untouched' \subseteq Untouched
    BY <2>1, <2>2, WorkersType DEF Untouched, callerVars
  <2>4. Extracted' \subseteq Extracted
    BY <2>1, <2>2, WorkersType DEF Extracted
  <2>. QED  BY <2>1, <2>3, <2>4, ContentKept
<1>. QED  BY <1>1, <1>2, <1>3

\* The document that is handed on is in no place of the untouched ones any more,
\* and no other document changes.
LEMMA HandContent ==
  ASSUME PlacesInv, NEW w \in StageWorkers, NEW failed, Hands(w, failed),
         documentChan' = documentChan
  PROVE  /\ holding[w] \in Requests
         /\ errors'[holding[w]] = errors[holding[w]] \cup failed
         /\ \A r \in Requests : r # holding[w] => errors'[r] = errors[r]
         /\ \A v \in StageWorkers : holding'[v] # NoRequest => holding'[v] = holding[v]
         /\ Untouched' \subseteq Untouched \ {holding[w]}
<1>. USE DEF PlacesInv
<1>1. holding[w] \in Requests /\ holding[w] # NoRequest
  BY DEF Hands, TypeOK
<1>2. /\ errors'[holding[w]] = errors[holding[w]] \cup failed
      /\ \A r \in Requests : r # holding[w] => errors'[r] = errors[r]
  BY <1>1 DEF Hands, TypeOK
<1>3. holding'[w] = NoRequest /\ \A v \in StageWorkers : v # w => holding'[v] = holding[v]
  BY DEF Hands, TypeOK
<1>4. holding[w] \in Located
  BY <1>1 DEF Located, InHand
<1>5. /\ outcome[holding[w]] # "none"
      /\ \A c \in Callers : call[c] = "submitting" => asked[c] # holding[w]
  BY <1>4 DEF OnlySubmitted
<1>6. /\ holding[w] \notin Range(documentChan)
      /\ \A v \in StageWorkers : v # w => holding[v] # holding[w]
  BY <1>1 DEF HandsApart
<1>7. UNCHANGED callerVars
  BY DEF Hands
<1>8. Untouched' \subseteq Untouched \ {holding[w]}
  BY <1>1, <1>3, <1>5, <1>6, <1>7, NoRequestAssumption, WorkersType
     DEF Untouched, callerVars
<1>. QED  BY <1>1, <1>2, <1>3, <1>8

LEMMA ExtractContent ==
  ASSUME PlacesInv, ContentSound, NEW w \in Extractors, Extract(w)
  PROVE  ContentSound'
<1>. USE DEF PlacesInv
<1>0. PICK d : d = holding[w]
  OBVIOUS
<1>1. PICK ok :
         /\ Hands(w, Extraction(ok).errors)
         /\ parts' = [parts EXCEPT ![holding[w]] = Extraction(ok).parts]
         /\ processingChan' = Append(processingChan, holding[w])
         /\ UNCHANGED <<documentChan, storageChan, resultChan>>
  BY DEF Extract
<1>2. /\ holding[w] \in Requests
      /\ errors'[holding[w]] = errors[holding[w]] \cup Extraction(ok).errors
      /\ \A r \in Requests : r # holding[w] => errors'[r] = errors[r]
      /\ \A v \in StageWorkers : holding'[v] # NoRequest => holding'[v] = holding[v]
      /\ Untouched' \subseteq Untouched \ {holding[w]}
  BY <1>1, HandContent, WorkersType
<1>3. /\ parts'[holding[w]] = Extraction(ok).parts
      /\ \A r \in Requests : r # holding[w] => parts'[r] = parts[r]
  BY <1>1, <1>2 DEF TypeOK
<1>4. errors[holding[w]] = {}
  BY <1>2 DEF ContentSound, Untouched
<1>5. Accounted(d)'
  BY <1>0, <1>2, <1>3, <1>4, ExtractionSound DEF Accounted
<1>6. Range(processingChan') = Range(processingChan) \cup {holding[w]}
  BY <1>1, <1>2, SendContents, ChannelTypes
<1>7. Extracted' \subseteq Extracted \cup {holding[w]}
  BY <1>1, <1>2, <1>6, NoRequestAssumption, WorkersType DEF Extracted
<1>8. Untouched \subseteq Requests /\ Extracted \subseteq Requests
  BY ChannelTypes, ContentsType DEF Untouched, Extracted, CallersAsk, TypeOK
<1>9. ASSUME NEW r \in Untouched'  PROVE errors'[r] = {}
  BY <1>2, <1>8, <1>9 DEF ContentSound
<1>10. ASSUME NEW r \in Extracted'  PROVE Accounted(r)'
  <2>1. CASE r = d
    BY <1>5, <2>1
  <2>2. CASE r # d
    <3>1. r \in Extracted /\ r \in Requests
      BY <1>0, <1>7, <1>8, <1>10, <2>2
    <3>2. Accounted(r)
      BY <3>1 DEF ContentSound
    <3>3. errors'[r] = errors[r] /\ parts'[r] = parts[r]
      BY <1>0, <1>2, <1>3, <2>2, <3>1
    <3>. QED  BY <3>2, <3>3 DEF Accounted
  <2>. QED  BY <2>1, <2>2
<1>. QED  BY <1>9, <1>10 DEF ContentSound

\* An error of a later step takes nothing away from what was extracted.
LEMMA LaterContent ==
  ASSUME PlacesInv, ContentSound, NEW w \in Processors \cup Storers,
         NEW failed \in SUBSET {"embedding", "storing"}, Hands(w, failed),
         parts' = parts, documentChan' = documentChan,
         Extracted' \subseteq Extracted
  PROVE  ContentSound'
<1>. USE DEF PlacesInv
<1>1. /\ holding[w] \in Requests
      /\ errors'[holding[w]] = errors[holding[w]] \cup failed
      /\ \A r \in Requests : r # holding[w] => errors'[r] = errors[r]
      /\ Untouched' \subseteq Untouched \ {holding[w]}
  BY HandContent, WorkersType
<1>2. Untouched \subseteq Requests /\ Extracted \subseteq Requests
  BY ChannelTypes, ContentsType DEF Untouched, Extracted, CallersAsk, TypeOK
<1>3. ASSUME NEW r \in Untouched'  PROVE errors'[r] = {}
  BY <1>1, <1>2, <1>3 DEF ContentSound
<1>4. ASSUME NEW r \in Extracted'  PROVE Accounted(r)'
  <2>1. Accounted(r) /\ r \in Requests
    BY <1>2, <1>4 DEF ContentSound
  <2>2. errors'[r] = errors[r] \/ errors'[r] = errors[r] \cup failed
    BY <1>1, <2>1
  <2>3. /\ Parts \ errors'[r] = Parts \ errors[r]
        /\ "unified" \in errors'[r] <=> "unified" \in errors[r]
    BY <2>2, StepsType
  <2>. QED  BY <2>1, <2>3 DEF Accounted
<1>. QED  BY <1>3, <1>4 DEF ContentSound

LEMMA ContentStep == PlacesInv /\ ContentSound /\ [Next]_vars => ContentSound'
<1>. SUFFICES ASSUME PlacesInv, ContentSound, [Next]_vars PROVE ContentSound'
  OBVIOUS
<1>0. TypeOK /\ CallersAsk
  BY DEF PlacesInv
<1>1. CASE UNCHANGED vars
  BY <1>1, ContentKept
     DEF vars, callerVars, chanVars, workVars, docVars, Untouched, Extracted
<1>2. CASE \E w \in StageWorkers : Expire(w)
  BY <1>2, ContentKept
     DEF Expire, callerVars, chanVars, docVars, Untouched, Extracted
<1>3. CASE \E w \in Extractors : ExtractionStep(w)
  BY <1>3, TakeContent, ExtractContent DEF ExtractionStep
<1>4. CASE \E w \in Processors : ProcessingStep(w)
  <2>. PICK w \in Processors : ProcessingStep(w)
    BY <1>4
  <2>1. CASE TakeExtracted(w)
    BY <2>1, TakeContent
  <2>2. CASE Process(w)
    <3>1. PICK failed \in SUBSET {"embedding"} : Hands(w, failed)
      BY <2>2 DEF Process
    <3>2. /\ storageChan' = Append(storageChan, holding[w]) /\ parts' = parts
          /\ UNCHANGED <<documentChan, processingChan, resultChan>>
      BY <2>2 DEF Process
    <3>3. /\ holding[w] \in Requests
          /\ \A v \in StageWorkers : holding'[v] # NoRequest => holding'[v] = holding[v]
      BY <3>1, <3>2, HandContent, WorkersType
    <3>4. Range(storageChan') = Range(storageChan) \cup {holding[w]}
      BY <1>0, <3>2, <3>3, SendContents, ChannelTypes
    <3>5. Extracted' \subseteq Extracted
      BY <3>2, <3>3, <3>4, NoRequestAssumption, WorkersType DEF Extracted
    <3>. QED  BY <3>1, <3>2, <3>5, LaterContent
  <2>. QED  BY <2>1, <2>2 DEF ProcessingStep
<1>5. CASE \E w \in Storers : StorageStep(w)
  <2>. PICK w \in Storers : StorageStep(w)
    BY <1>5
  <2>1. CASE TakeProcessed(w)
    BY <2>1, TakeContent
  <2>2. CASE Store(w)
    <3>1. PICK failed \in SUBSET {"storing"} : Hands(w, failed)
      BY <2>2 DEF Store
    <3>2. /\ resultChan' = Append(resultChan, holding[w]) /\ parts' = parts
          /\ UNCHANGED <<documentChan, processingChan, storageChan>>
      BY <2>2 DEF Store
    <3>3. /\ holding[w] \in Requests
          /\ \A v \in StageWorkers : holding'[v] # NoRequest => holding'[v] = holding[v]
      BY <3>1, <3>2, HandContent, WorkersType
    <3>4. Range(resultChan') = Range(resultChan) \cup {holding[w]}
      BY <1>0, <3>2, <3>3, SendContents, ChannelTypes
    <3>5. Extracted' \subseteq Extracted
      BY <3>2, <3>3, <3>4, NoRequestAssumption, WorkersType DEF Extracted
    <3>. QED  BY <3>1, <3>2, <3>5, LaterContent
  <2>. QED  BY <2>1, <2>2 DEF StorageStep
<1>6. ASSUME NEW c \in Callers, CallStep(c) \/ \E r \in Requests : Begin(c, r)
      PROVE  ContentSound'
  <2>1. CASE \E r \in Requests : Begin(c, r)
    <3>. PICK r \in Requests : Begin(c, r)
      BY <2>1
    <3>1. UNCHANGED <<chanVars, workVars, docVars>>
      BY DEF Begin
    <3>2. Untouched' \subseteq Untouched
      BY <1>0, <3>1, BeginAsks DEF chanVars, workVars, Untouched
    <3>. QED  BY <3>1, <3>2, ContentKept DEF chanVars, workVars, Extracted
  <2>2. CASE Submit(c)
    <3>1. /\ call[c] = "submitting" /\ call' = [call EXCEPT ![c] = "waiting"]
          /\ UNCHANGED <<asked, outcome, processingChan, storageChan, resultChan,
                         workVars, docVars>>
      BY <2>2 DEF Submit
    <3>2. Untouched' \subseteq Untouched
      BY <1>0, <2>2, <3>1, SubmitMoves DEF workVars, Untouched, TypeOK
    <3>. QED  BY <3>1, <3>2, ContentKept DEF workVars, Extracted
  <2>3. CASE SubmissionTimeout(c) \/ ResultTimeout(c)
    <3>1. /\ \E how \in {"unsubmitted", "abandoned"} : Return(c, how)
          /\ call[c] # "idle"
          /\ UNCHANGED <<chanVars, workVars, docVars>>
      BY <2>3 DEF SubmissionTimeout, ResultTimeout
    <3>2. Untouched' \subseteq Untouched
      BY <1>0, <3>1, ReturnAsks DEF chanVars, workVars, Untouched
    <3>. QED  BY <3>1, <3>2, ContentKept DEF chanVars, workVars, Extracted
  <2>4. CASE Receive(c)
    <3>1. /\ \E how \in {"own", "wrong"} : Return(c, how)
          /\ call[c] # "idle"
          /\ UNCHANGED <<documentChan, processingChan, storageChan, workVars, docVars>>
      BY <2>4 DEF Receive
    <3>2. Untouched' \subseteq Untouched
      BY <1>0, <3>1, ReturnAsks DEF workVars, Untouched
    <3>3. Extracted' \subseteq Extracted
      BY <2>4, <3>1, ReceiveMoves DEF workVars, Extracted
    <3>. QED  BY <3>1, <3>2, <3>3, ContentKept
  <2>. QED  BY <1>6, <2>1, <2>2, <2>3, <2>4 DEF CallStep
<1>. QED  BY <1>1, <1>2, <1>3, <1>4, <1>5, <1>6 DEF Next

-----------------------------------------------------------------------------
(* The theorems *)

LEMMA PipelineInvariant == Spec => []PipelineInv
<1>1. Init => PipelineInv
  BY PlacesInit, CountedInit, ContentInit DEF PipelineInv
<1>2. PipelineInv /\ [Next]_vars => PipelineInv'
  BY PlacesStep, CountedStep, SoleCallerStep, ContentStep DEF PipelineInv
<1>. QED  BY <1>1, <1>2, PTL DEF Spec

\* A document that is located is in exactly one of the places of the channels and
\* the goroutines.
LEMMA PlaceUnique ==
  ASSUME PlacesInv, NEW r \in Requests
  PROVE  /\ Cardinality(PlacesOf(r)) <= 1
         /\ PlacesOf(r) # {} <=> r \in Located
<1>. USE DEF PlacesInv
<1>. DEFINE Slots == {p \in (1 .. 4) \X (1 .. ChanSize) :
                        p[2] <= Len(Channels[p[1]]) /\ Channels[p[1]][p[2]] = r}
            Holders == {w \in StageWorkers : holding[w] = r}
<1>0. r # NoRequest
  BY NoRequestAssumption
<1>1. /\ DOMAIN documentChan = 1 .. Len(documentChan)
      /\ DOMAIN processingChan = 1 .. Len(processingChan)
      /\ DOMAIN storageChan = 1 .. Len(storageChan)
      /\ DOMAIN resultChan = 1 .. Len(resultChan)
      /\ Len(documentChan) \in Nat /\ Len(processingChan) \in Nat
      /\ Len(storageChan) \in Nat /\ Len(resultChan) \in Nat
  BY ChannelTypes, LenProperties
<1>2. /\ Channels[1] = documentChan /\ Channels[2] = processingChan
      /\ Channels[3] = storageChan /\ Channels[4] = resultChan
  BY DEF Channels
<1>3. ASSUME NEW p \in Slots, NEW q \in Slots  PROVE p = q
  <2>1. /\ p = <<p[1], p[2]>> /\ q = <<q[1], q[2]>>
        /\ p[1] \in 1 .. 4 /\ q[1] \in 1 .. 4 /\ p[2] \in Nat /\ q[2] \in Nat
        /\ p[2] >= 1 /\ q[2] >= 1
    OBVIOUS
  <2>2. /\ p[2] \in DOMAIN Channels[p[1]] /\ Channels[p[1]][p[2]] = r
        /\ q[2] \in DOMAIN Channels[q[1]] /\ Channels[q[1]][q[2]] = r
    BY <1>1, <1>2, <2>1
  <2>3. r \in Range(Channels[p[1]]) /\ r \in Range(Channels[q[1]])
    BY <2>2 DEF Range
  <2>4. p[1] = q[1]
    BY <1>2, <2>1, <2>3 DEF ChannelsApart
  <2>5. IsInjective(Channels[p[1]])
    BY <1>2, <2>1 DEF ChannelsApart
  <2>6. p[2] = q[2]
    BY <2>2, <2>4, <2>5 DEF IsInjective
  <2>. QED  BY <2>1, <2>4, <2>6
<1>4. ASSUME NEW p \in Slots  PROVE r \in Located /\ Holders = {}
  <2>1. p[1] \in 1 .. 4 /\ p[2] \in DOMAIN Channels[p[1]] /\ Channels[p[1]][p[2]] = r
    BY <1>1, <1>2
  <2>2. r \in Range(Channels[p[1]])
    BY <2>1 DEF Range
  <2>. QED  BY <1>2, <2>1, <2>2 DEF Located, HandsApart
<1>5. \A w, v \in Holders : w = v
  BY <1>0 DEF HandsApart
<1>6. PlacesOf(r) = Slots \cup Holders
  BY DEF PlacesOf
<1>7. \A p, q \in PlacesOf(r) : p = q
  BY <1>3, <1>4, <1>5, <1>6
<1>8. ASSUME NEW k \in 1 .. 4, r \in Range(Channels[k])  PROVE Slots # {}
  <2>1. PICK i \in DOMAIN Channels[k] : Channels[k][i] = r
    BY <1>8 DEF Range
  <2>2. i \in 1 .. ChanSize /\ i <= Len(Channels[k])
    BY <1>1, <1>2, <2>1, ChannelTypes
  <2>3. <<k, i>> \in Slots
    BY <2>1, <2>2
  <2>. QED  BY <2>3
<1>9. r \in Located => PlacesOf(r) # {}
  BY <1>2, <1>6, <1>8 DEF Located, InHand
<1>10. PlacesOf(r) # {} => r \in Located
  BY <1>4, <1>6 DEF Located, InHand
<1>11. Cardinality(PlacesOf(r)) <= 1
  BY <1>7, AtMostOne
<1>. QED  BY <1>9, <1>10, <1>11

\* The pipeline holds one document for each caller that waits and each call given
\* up, none of them twice (AnalyzeDocument and the stage loops).
THEOREM AnswersAccounted == Spec => []EveryAnswerAccounted
<1>1. PipelineInv => EveryAnswerAccounted
  <2>. SUFFICES ASSUME PipelineInv PROVE EveryAnswerAccounted
    OBVIOUS
  <2>1. PlacesInv /\ Counted /\ TypeOK
    BY DEF PipelineInv, PlacesInv
  <2>2. \A r \in Requests : Cardinality(PlacesOf(r)) <= 1
    BY <2>1, PlaceUnique
  <2>3. InFlight = Located
    BY <2>1, PlaceUnique, LocatedType DEF InFlight
  <2>. QED  BY <2>1, <2>2, <2>3 DEF EveryAnswerAccounted, Counted
<1>. QED  BY <1>1, PipelineInvariant, PTL

\* A response holds every part or reports its failure, whichever calls of the
\* extraction stage fail (runExtractionStage).
THEOREM ResponsesAccounted == Spec => []CompleteOrReported
<1>1. PipelineInv => CompleteOrReported
  BY DEF PipelineInv, ContentSound, CompleteOrReported, Answered, Extracted, Accounted
<1>. QED  BY <1>1, PipelineInvariant, PTL

\* A single caller gets its own answers until it gives a call up (factory.go).
THEOREM OwnAnswers == Spec => []OwnUntilTimeout
<1>1. PipelineInv => OwnUntilTimeout
  <2>. SUFFICES ASSUME PipelineInv, Cardinality(Callers) = 1, Abandoned = {}
                PROVE  \A r \in Requests : outcome[r] # "wrong"
    BY DEF OwnUntilTimeout
  <2>1. SoleCaller
    BY DEF PipelineInv
  <2>. QED  BY <2>1, FS_Singleton, FiniteAssumption DEF SoleCaller
<1>. QED  BY <1>1, PipelineInvariant, PTL

-----------------------------------------------------------------------------
(* When the pipeline stands still *)

LEMMA GoroutinesFinite == IsFiniteSet(StageWorkers) /\ Cardinality(StageWorkers) \in Nat
<1>1. \A n, bound \in Nat : IsFiniteSet(AtMost(n, bound))
  BY FS_Interval DEF AtMost
<1>2. /\ IsFiniteSet(AtMost(MaxConcurrentAnalyses, 5))
      /\ IsFiniteSet(AtMost(MaxConcurrentAnalyses \div 2, 3))
      /\ IsFiniteSet(AtMost(MaxConcurrentAnalyses \div 3, 2))
  BY <1>1, SizesAssumption
<1>3. IsFiniteSet({"extraction"}) /\ IsFiniteSet({"processing"}) /\ IsFiniteSet({"storage"})
  BY FS_Singleton
<1>4. IsFiniteSet(Extractors) /\ IsFiniteSet(Processors) /\ IsFiniteSet(Storers)
  BY <1>2, <1>3, FS_Product DEF Extractors, Processors, Storers
<1>. QED  BY <1>4, FS_Union, FS_CardinalityType DEF StageWorkers

\* With three analyses at a time every stage has a goroutine.
LEMMA EveryStageServed ==
  ASSUME MaxConcurrentAnalyses >= 3
  PROVE  Extractors # {} /\ Processors # {} /\ Storers # {}
<1>1. \A n, bound \in Nat \ {0} : 1 \in AtMost(n, bound)
  BY DEF AtMost
<1>2. /\ MaxConcurrentAnalyses \in Nat \ {0} /\ MaxConcurrentAnalyses \div 2 \in Nat \ {0}
      /\ MaxConcurrentAnalyses \div 3 \in Nat \ {0}
  BY SizesAssumption
<1>3. /\ 1 \in AtMost(MaxConcurrentAnalyses, 5)
      /\ 1 \in AtMost(MaxConcurrentAnalyses \div 2, 3)
      /\ 1 \in AtMost(MaxConcurrentAnalyses \div 3, 2)
  BY <1>1, <1>2
<1>4. /\ <<"extraction", 1>> \in Extractors /\ <<"processing", 1>> \in Processors
      /\ <<"storage", 1>> \in Storers
  BY <1>3 DEF Extractors, Processors, Storers
<1>. QED  BY <1>4

\* Goroutines that are all at work hold a document each.
LEMMA AllAtWork ==
  ASSUME PlacesInv, \A w \in StageWorkers : holding[w] # NoRequest
  PROVE  IsFiniteSet(InHand) /\ Cardinality(InHand) = Cardinality(StageWorkers)
<1>. DEFINE f == [w \in StageWorkers |-> holding[w]]
<1>1. \A w \in StageWorkers : holding[w] \in InHand
  BY DEF PlacesInv, TypeOK, InHand
<1>2. f \in Surjection(StageWorkers, InHand)
  BY <1>1 DEF Surjection, InHand
<1>3. f \in Injection(StageWorkers, InHand)
  BY <1>1 DEF Injection, IsInjective, PlacesInv, HandsApart
<1>. HIDE DEF f
<1>. QED  BY <1>2, <1>3, FS_Surjection, GoroutinesFinite

LEMMA TwoApart ==
  ASSUME NEW S, NEW T, IsFiniteSet(S), IsFiniteSet(T), S \cap T = {}
  PROVE  /\ IsFiniteSet(S \cup T)
         /\ Cardinality(S \cup T) = Cardinality(S) + Cardinality(T)
<1>1. Cardinality(S \cap T) = 0
  BY FS_EmptySet
<1>2. Cardinality(S) \in Nat /\ Cardinality(T) \in Nat
  BY FS_CardinalityType
<1>3. /\ IsFiniteSet(S \cup T)
      /\ Cardinality(S \cup T) = Cardinality(S) + Cardinality(T) - Cardinality(S \cap T)
  BY FS_Union
<1>. QED  BY <1>1, <1>2, <1>3

\* A pipeline with all channels full and all goroutines at work holds as many
\* documents as it has places.
LEMMA FullCapacity ==
  ASSUME PlacesInv, \A w \in StageWorkers : holding[w] # NoRequest,
         ~HasRoom(documentChan), ~HasRoom(processingChan), ~HasRoom(storageChan),
         ~HasRoom(resultChan)
  PROVE  Cardinality(Located) = Capacity
<1>. DEFINE A == Range(documentChan)    B == Range(processingChan)
            C == Range(storageChan)     D == Range(resultChan)
<1>1. /\ Len(documentChan) = ChanSize /\ Len(processingChan) = ChanSize
      /\ Len(storageChan) = ChanSize /\ Len(resultChan) = ChanSize /\ ChanSize \in Nat
  BY ChannelTypes, LenProperties DEF PlacesInv, HasRoom
<1>2. /\ IsFiniteSet(A) /\ Cardinality(A) = ChanSize /\ IsFiniteSet(B) /\ Cardinality(B) = ChanSize
      /\ IsFiniteSet(C) /\ Cardinality(C) = ChanSize /\ IsFiniteSet(D) /\ Cardinality(D) = ChanSize
  BY <1>1, ContentsNumber, ChannelTypes DEF PlacesInv, ChannelsApart
<1>3. IsFiniteSet(InHand) /\ Cardinality(InHand) = Cardinality(StageWorkers)
  BY AllAtWork
<1>4. /\ A \cap B = {} /\ (A \cup B) \cap C = {} /\ (A \cup B \cup C) \cap D = {}
  BY DEF PlacesInv, ChannelsApart
<1>5. (A \cup B \cup C \cup D) \cap InHand = {}
  BY DEF PlacesInv, HandsApart, InHand
<1>6. Located = A \cup B \cup C \cup D \cup InHand
  BY DEF Located
<1>. HIDE DEF A, B, C, D
<1>7. IsFiniteSet(A \cup B) /\ Cardinality(A \cup B) = ChanSize + ChanSize
  BY <1>2, <1>4, TwoApart
<1>8. /\ IsFiniteSet(A \cup B \cup C)
      /\ Cardinality(A \cup B \cup C) = Cardinality(A \cup B) + ChanSize
  BY <1>2, <1>4, <1>7, TwoApart
<1>9. /\ IsFiniteSet(A \cup B \cup C \cup D)
      /\ Cardinality(A \cup B \cup C \cup D) = Cardinality(A \cup B \cup C) + ChanSize
  BY <1>2, <1>4, <1>8, TwoApart
<1>10. Cardinality(Located) = Cardinality(A \cup B \cup C \cup D) + Cardinality(StageWorkers)
  BY <1>3, <1>5, <1>6, <1>9, TwoApart
<1>11. Cardinality(Located) = 4 * ChanSize + Cardinality(StageWorkers)
  BY <1>1, <1>7, <1>8, <1>9, <1>10, GoroutinesFinite
<1>. QED  BY <1>11 DEF Capacity

\* A caller that waits while nothing is ready waits for a document that is nowhere.
LEMMA NobodyWaitsInVain ==
  ASSUME PlacesInv, Counted, MaxConcurrentAnalyses >= 3, ~Ready,
         NEW c \in Callers, call[c] = "waiting"
  PROVE  FALSE
<1>0. ChanSize > 0
  BY SizesAssumption
<1>1. resultChan = <<>> /\ HasRoom(resultChan)
  BY <1>0, EmptyContents DEF Ready, HasRoom
<1>2. /\ \A w \in Storers : holding[w] = NoRequest
      /\ storageChan = <<>> /\ HasRoom(storageChan)
  BY <1>0, <1>1, EveryStageServed, EmptyContents DEF Ready, HasRoom
<1>3. /\ \A w \in Processors : holding[w] = NoRequest
      /\ processingChan = <<>> /\ HasRoom(processingChan)
  BY <1>0, <1>2, EveryStageServed, EmptyContents DEF Ready, HasRoom
<1>4. /\ \A w \in Extractors : holding[w] = NoRequest
      /\ documentChan = <<>>
  BY <1>3, EveryStageServed DEF Ready
<1>5. \A w \in StageWorkers : holding[w] = NoRequest
  BY <1>2, <1>3, <1>4 DEF StageWorkers
<1>6. InHand = {}
  BY <1>5, NoRequestAssumption DEF InHand
<1>7. Located = {}
  BY <1>1, <1>2, <1>3, <1>4, <1>6, EmptyContents DEF Located
<1>8. Cardinality(Waiting) = 0
  BY <1>7, FS_EmptySet, FS_CardinalityType DEF Counted
<1>9. Waiting = {}
  BY <1>8, FS_EmptySet DEF Counted
<1>. QED  BY <1>9 DEF Waiting

\* A caller that finds no room while nothing is ready faces a full pipeline.
LEMMA SubmissionStuck ==
  ASSUME PlacesInv, MaxConcurrentAnalyses >= 3, ~Ready,
         NEW c \in Callers, call[c] = "submitting"
  PROVE  Cardinality(Located) = Capacity
<1>0. \A chan \in {documentChan, processingChan, storageChan} : ~HasRoom(chan) => chan # <<>>
  BY SizesAssumption, EmptyContents DEF HasRoom
<1>1. ~HasRoom(documentChan) /\ documentChan # <<>>
  BY <1>0 DEF Ready
<1>2. /\ \A w \in Extractors : holding[w] # NoRequest
      /\ ~HasRoom(processingChan) /\ processingChan # <<>>
  BY <1>0, <1>1, EveryStageServed DEF Ready
<1>3. /\ \A w \in Processors : holding[w] # NoRequest
      /\ ~HasRoom(storageChan) /\ storageChan # <<>>
  BY <1>0, <1>2, EveryStageServed DEF Ready
<1>4. /\ \A w \in Storers : holding[w] # NoRequest
      /\ ~HasRoom(resultChan)
  BY <1>3, EveryStageServed DEF Ready
<1>5. \A w \in StageWorkers : holding[w] # NoRequest
  BY <1>2, <1>3, <1>4 DEF StageWorkers
<1>. QED  BY <1>1, <1>2, <1>3, <1>4, <1>5, FullCapacity

\* While a call is not over, something is ready to go on, unless the answers to
\* abandoned calls occupy every place of the pipeline (AnalyzeDocument, stage loops).
THEOREM StuckWhenFull == Spec => []StuckOnlyWhenFull
<1>1. PipelineInv => StuckOnlyWhenFull
  <2>. SUFFICES ASSUME PipelineInv, MaxConcurrentAnalyses >= 3, ~Ready,
                       NEW c \in Callers, call[c] # "idle"
                PROVE  Cardinality(Abandoned) >= Capacity
    BY DEF StuckOnlyWhenFull
  <2>1. PlacesInv /\ Counted
    BY DEF PipelineInv
  <2>2. \A d \in Callers : call[d] # "waiting"
    BY <2>1, NobodyWaitsInVain
  <2>3. call[c] = "submitting"
    BY <2>1, <2>2 DEF PlacesInv, TypeOK
  <2>4. Cardinality(Located) = Capacity
    BY <2>1, <2>3, SubmissionStuck
  <2>5. Waiting = {} /\ Cardinality(Waiting) = 0
    BY <2>2, FS_EmptySet DEF Waiting
  <2>6. Cardinality(Abandoned) \in Nat /\ Cardinality(Located) = Cardinality(Abandoned)
    BY <2>1, <2>5, FS_CardinalityType DEF Counted
  <2>. QED  BY <2>4, <2>6
<1>. QED  BY <1>1, PipelineInvariant, PTL
=============================================================================
