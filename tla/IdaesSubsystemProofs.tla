------------------------ MODULE IdaesSubsystemProofs ------------------------
(***************************************************************************)
(* Theorems about the IDAES subsystem and its web client, for every set of *)
(* requests and every size of the buffers.                                 *)
(***************************************************************************)
EXTENDS IdaesSubsystem, ChannelLemmas

-----------------------------------------------------------------------------
(* The inductive invariant *)

\* On its way a request is in one of three places, and its callback is not there
\* yet.
OnItsWay(r) == r \in Range(requestChan) \/ current = r \/ r \in Range(responseChan)
WaysApart ==
  /\ IsInjective(requestChan) /\ IsInjective(responseChan)
  /\ Range(requestChan) \cap Range(responseChan) = {}
  /\ current \notin Range(requestChan) /\ current \notin Range(responseChan)
  /\ \A r \in Requests :
       /\ OnItsWay(r) => r \in Accepted /\ callback[r] = "none"
       /\ r \in Accepted /\ callback[r] = "none" => OnItsWay(r)
       /\ callback[r] # "none" => r \in Accepted

\* How far a call has come, and its channel with it.
SlotsAgree ==
  \A r \in Requests :
    /\ slot[r] = "none" <=> caller[r] \in {"new", "refused", "submitted"}
    /\ slot[r] = "closed" => caller[r] \in {"answered", "gave up"}
    /\ caller[r] = "answered" => callback[r] = "done" /\ slot[r] # "full"

\* A response comes to its caller or to the general channel, by its callback only.
DeliveredOnce ==
  \A r \in Requests :
    /\ slot[r] = "full" => callback[r] = "done" /\ r \notin general
    /\ r \in general => callback[r] = "done" /\ caller[r] # "answered"
    /\ callback[r] = "found" => slot[r] # "none"

ProcessorAgrees ==
  /\ current # NoRequest <=> processor \in {"analyzing", "abandoned", "sending"}
  /\ requestsInProgress = IF processor \in {"analyzing", "abandoned"} THEN 1 ELSE 0

AcceptedCounted ==
  /\ IsFiniteSet(Accepted)
  /\ Cardinality(Accepted) = Len(requestChan) + requestsInProgress + requestsProcessed

Lossless == ~Cancelled /\ web = "running" =>
  \A r \in Requests :
    /\ callback[r] = "lost" => caller[r] = "gave up" \/ Cardinality(general) = ClientBuffer
    /\ callback[r] = "panicked" => caller[r] = "gave up"

IdaesInv ==
  /\ TypeOK /\ IsFiniteSet(general)
  /\ WaysApart /\ SlotsAgree /\ DeliveredOnce /\ ProcessorAgrees
  /\ AcceptedCounted /\ Lossless

-----------------------------------------------------------------------------
(* Type correctness *)

LEMMA BufferTypes ==
  ASSUME TypeOK
  PROVE  /\ requestChan \in Seq(Requests) /\ Len(requestChan) \in Nat
         /\ responseChan \in Seq(Requests) /\ Len(responseChan) \in Nat
         /\ Range(requestChan) \subseteq Requests /\ Range(responseChan) \subseteq Requests
         /\ RequestBuffer \in Nat /\ ResponseBuffer \in Nat /\ ClientBuffer \in Nat
         /\ Len(requestChan) <= RequestBuffer /\ Len(responseChan) <= ResponseBuffer
         /\ requestsInProgress \in Nat /\ requestsProcessed \in Nat
         /\ NoRequest \notin Requests
BY BuffersAssumption, NoRequestAssumption, LenProperties, ContentsType DEF TypeOK

LEMMA TypeInit == Init => TypeOK /\ IsFiniteSet(general)
<1>1. /\ <<>> \in Seq(Requests) /\ Len(<<>>) = 0
      /\ IsFiniteSet({}) /\ Cardinality({}) = 0
      /\ 0 <= ClientBuffer /\ 0 <= RequestBuffer /\ 0 <= ResponseBuffer
  BY EmptyContents, FS_EmptySet, BuffersAssumption
<1>. SUFFICES ASSUME Init PROVE TypeOK /\ IsFiniteSet(general)
  OBVIOUS
<1>2. /\ requestChan \in Seq(Requests) /\ Len(requestChan) <= RequestBuffer
      /\ responseChan \in Seq(Requests) /\ Len(responseChan) <= ResponseBuffer
      /\ general \subseteq Requests /\ Cardinality(general) <= ClientBuffer
      /\ IsFiniteSet(general)
  BY <1>1 DEF Init
<1>. QED  BY <1>2 DEF Init, TypeOK

LEMMA TypeCaller ==
  ASSUME TypeOK, NEW r \in Requests, Submit(r) \/ Refuse(r) \/ GiveUp(r) \/ CallStep(r)
  PROVE  TypeOK'
<1>1. CASE Submit(r)
  <2>1. requestChan' \in Seq(Requests) /\ Len(requestChan') <= RequestBuffer
    BY <1>1, SendType, BufferTypes DEF Submit
  <2>. QED  BY <1>1, <2>1 DEF Submit, TypeOK, processorVars, endVars
<1>2. CASE Refuse(r)
  BY <1>2 DEF Refuse, TypeOK, processorVars, endVars
<1>3. CASE GiveUp(r) \/ CallStep(r)
  <2>1. PICK from, to, channel :
               /\ Waits(r, from, to, channel)
               /\ to \in {"waiting", "answered", "gave up"}
               /\ channel \in {"none", "empty", "full", "closed"}
    BY <1>3 DEF GiveUp, CallStep, Register, TakeResponse, Cleanup, TypeOK
  <2>2. /\ caller' \in [Requests -> {"new", "refused", "submitted", "waiting", "answered",
                                   "gave up"}]
        /\ slot' \in [Requests -> {"none", "empty", "full", "closed"}]
    BY <2>1 DEF Waits, TypeOK
  <2>3. UNCHANGED <<general, callback, requestChan, responseChan, processorVars, broadcaster,
                    monitor, endVars>>
    BY <2>1 DEF Waits
  <2>. QED  BY <2>2, <2>3 DEF TypeOK, processorVars, endVars
<1>. QED  BY <1>1, <1>2, <1>3

LEMMA TypeCallback ==
  ASSUME TypeOK, IsFiniteSet(general), NEW r \in Requests, CallbackStep(r)
  PROVE  TypeOK' /\ IsFiniteSet(general')
<1>1. PICK from, to : Carry(r, from, to) /\ to \in {"found", "missed", "done", "panicked", "lost"}
  BY DEF CallbackStep, LookUp, Route, SendOnClosed, FallBack, Lose
<1>2. slot' \in [Requests -> {"none", "empty", "full", "closed"}]
  BY DEF CallbackStep, LookUp, Route, SendOnClosed, FallBack, Lose, TypeOK
<1>3. /\ general' \subseteq Requests /\ Cardinality(general') <= ClientBuffer
      /\ IsFiniteSet(general')
  <2>1. CASE general' = general
    BY <2>1 DEF TypeOK
  <2>2. CASE FallBack(r)
    <3>1. Cardinality(general) < ClientBuffer /\ general' = general \cup {r}
      BY <2>2 DEF FallBack
    <3>2. /\ IsFiniteSet(general') /\ Cardinality(general) \in Nat
          /\ \/ Cardinality(general') = Cardinality(general)
             \/ Cardinality(general') = Cardinality(general) + 1
      BY <3>1, FS_AddElement, FS_CardinalityType
    <3>3. Cardinality(general') <= ClientBuffer
      BY <3>1, <3>2, BufferTypes
    <3>4. general' \subseteq Requests
      BY <3>1 DEF TypeOK
    <3>. QED  BY <3>2, <3>3, <3>4
  <2>. QED  BY <2>1, <2>2 DEF CallbackStep, LookUp, Route, SendOnClosed, Lose
<1>4. callback' \in [Requests -> {"none", "started", "found", "missed", "done",
                                "panicked", "lost"}]
  BY <1>1 DEF Carry, TypeOK
<1>5. UNCHANGED <<caller, requestChan, responseChan, processorVars, broadcaster, monitor, endVars>>
  BY <1>1 DEF Carry
<1>. QED  BY <1>2, <1>3, <1>4, <1>5 DEF TypeOK, processorVars, endVars

LEMMA TypeProcessor ==
  ASSUME TypeOK, ProcessorAgrees, ProcessorStep \/ Abandon
  PROVE  TypeOK'
<1>1. CASE TakeRequest
  <2>1. /\ Head(requestChan) \in Requests
        /\ requestChan' \in Seq(Requests) /\ Len(requestChan') <= RequestBuffer
    BY <1>1, ReceiveType, BufferTypes DEF TakeRequest
  <2>2. current' \in Requests \cup {NoRequest} /\ requestsInProgress' \in Nat
    BY <1>1, <2>1, BufferTypes DEF TakeRequest
  <2>. QED  BY <1>1, <2>1, <2>2 DEF TakeRequest, TypeOK, clientVars, endVars
<1>2. CASE Abandon
  BY <1>2 DEF Abandon, TypeOK, clientVars, endVars
<1>3. CASE AnalysisReturns
  <2>1. requestsInProgress' \in Nat /\ requestsProcessed' \in Nat
    BY <1>3, BufferTypes DEF AnalysisReturns, ProcessorAgrees
  <2>. QED  BY <1>3, <2>1 DEF AnalysisReturns, TypeOK, clientVars, endVars
<1>4. CASE SendResponse
  <2>1. current \in Requests
    BY <1>4 DEF SendResponse, ProcessorAgrees, TypeOK
  <2>2. responseChan' \in Seq(Requests) /\ Len(responseChan') <= ResponseBuffer
    BY <1>4, <2>1, SendType, BufferTypes DEF SendResponse
  <2>. QED  BY <1>4, <2>2 DEF SendResponse, TypeOK, clientVars, endVars
<1>5. CASE ResponseCancelled
  BY <1>5 DEF ResponseCancelled, TypeOK, endVars
<1>6. CASE ProcessorExits
  BY <1>6 DEF ProcessorExits, TypeOK, clientVars, endVars
<1>. QED  BY <1>1, <1>2, <1>3, <1>4, <1>5, <1>6 DEF ProcessorStep

\* The steps that touch nothing of a request.
Outside ==
  \/ BroadcasterExits \/ MonitorExits \/ CloseShutdownChan \/ StopStep
  \/ Unsubscribe \/ CancelWeb \/ CancelParent

LEMMA TypeOutside == TypeOK /\ (Broadcast \/ Outside) => TypeOK'
<1>. SUFFICES ASSUME TypeOK, Broadcast \/ Outside PROVE TypeOK'
  OBVIOUS
<1>1. CASE Broadcast
  <2>1. /\ Head(responseChan) \in Requests
        /\ responseChan' \in Seq(Requests) /\ Len(responseChan') <= ResponseBuffer
    BY <1>1, ReceiveType, BufferTypes DEF Broadcast
  <2>. QED  BY <1>1, <2>1 DEF Broadcast, TypeOK, processorVars, endVars
<1>2. CASE BroadcasterExits
  BY <1>2 DEF BroadcasterExits, TypeOK, clientVars, processorVars, endVars
<1>3. CASE MonitorExits
  BY <1>3 DEF MonitorExits, TypeOK, clientVars, processorVars, endVars
<1>4. CASE CloseShutdownChan \/ StopStep \/ Unsubscribe \/ CancelWeb \/ CancelParent
  <2>1. CASE CloseShutdownChan \/ StopStep
    <3>1. stop' \in {"closed", "waiting", "stopped"} /\ UNCHANGED <<web, parentCancelled>> /\ Ends
      BY <2>1 DEF CloseShutdownChan, StopStep, CancelContext, StopCompletes
    <3>. QED  BY <3>1 DEF Ends, TypeOK, clientVars, processorVars
  <2>2. CASE Unsubscribe \/ CancelWeb \/ CancelParent
    <3>1. /\ web' \in {"unsubscribed", "cancelled"} \/ web' = web
          /\ parentCancelled' = TRUE \/ parentCancelled' = parentCancelled
          /\ stop' = stop /\ Ends
      BY <2>2 DEF Unsubscribe, CancelWeb, CancelParent
    <3>2. web' \in {"running", "unsubscribed", "cancelled"} /\ parentCancelled' \in BOOLEAN
      BY <3>1 DEF TypeOK
    <3>. QED  BY <3>1, <3>2 DEF Ends, TypeOK, clientVars, processorVars
  <2>. QED  BY <1>4, <2>1, <2>2
<1>. QED  BY <1>1, <1>2, <1>3, <1>4 DEF Outside

-----------------------------------------------------------------------------
(* Every step keeps the invariant *)

LEMMA InvInit == Init => IdaesInv
<1>. SUFFICES ASSUME Init PROVE IdaesInv
  OBVIOUS
<1>0. NoRequest \notin Requests
  BY NoRequestAssumption
<1>1. Range(<<>>) = {} /\ IsInjective(<<>>) /\ Len(<<>>) = 0
  BY EmptyContents
<1>2. Accepted = {}
  BY DEF Init, Accepted
<1>3. WaysApart
  BY <1>0, <1>1, <1>2 DEF Init, WaysApart, OnItsWay
<1>4. AcceptedCounted
  BY <1>1, <1>2, FS_EmptySet DEF Init, AcceptedCounted
<1>. QED  BY <1>3, <1>4, TypeInit
          DEF IdaesInv, Init, SlotsAgree, DeliveredOnce, ProcessorAgrees, Lossless

LEMMA SubmitStep ==
  ASSUME IdaesInv, NEW r \in Requests, Submit(r)
  PROVE  IdaesInv'
<1>. USE DEF IdaesInv
<1>1. /\ caller[r] = "new" /\ caller'[r] = "submitted"
      /\ \A q \in Requests : q # r => caller'[q] = caller[q]
      /\ requestChan' = Append(requestChan, r)
      /\ UNCHANGED <<slot, general, callback, responseChan, processorVars, endVars>>
  BY DEF Submit, TypeOK
<1>2. r \notin Accepted /\ Accepted' = Accepted \cup {r}
  BY <1>1 DEF Accepted
<1>3. ~OnItsWay(r) /\ callback[r] = "none"
  BY <1>2 DEF WaysApart, TypeOK
<1>4. /\ Range(requestChan') = Range(requestChan) \cup {r} /\ IsInjective(requestChan')
      /\ Len(requestChan') = Len(requestChan) + 1
  BY <1>1, <1>3, SendContents, SendType, BufferTypes DEF WaysApart, OnItsWay
<1>5. WaysApart'
  BY <1>1, <1>2, <1>3, <1>4 DEF WaysApart, OnItsWay, processorVars
<1>6. AcceptedCounted'
  <2>1. /\ IsFiniteSet(Accepted') /\ Cardinality(Accepted') = Cardinality(Accepted) + 1
        /\ Cardinality(Accepted) = Len(requestChan) + requestsInProgress + requestsProcessed
    BY <1>2, OneMore DEF AcceptedCounted
  <2>. QED  BY <1>1, <1>4, <2>1, BufferTypes DEF AcceptedCounted, processorVars
<1>7. SlotsAgree' /\ DeliveredOnce'
  BY <1>1 DEF SlotsAgree, DeliveredOnce
<1>8. Lossless'
  BY <1>1, <1>3 DEF Lossless, Cancelled, endVars
<1>9. ProcessorAgrees'
  BY <1>1 DEF ProcessorAgrees, processorVars
<1>. QED  BY <1>1, <1>5, <1>6, <1>7, <1>8, <1>9, TypeCaller

LEMMA CallerStep ==
  ASSUME IdaesInv, NEW r \in Requests, Refuse(r) \/ GiveUp(r) \/ CallStep(r)
  PROVE  IdaesInv'
<1>. USE DEF IdaesInv
<1>1. /\ UNCHANGED <<general, callback, requestChan, responseChan, processorVars, endVars>>
      /\ \A q \in Requests : q # r => caller'[q] = caller[q] /\ slot'[q] = slot[q]
  BY DEF Refuse, GiveUp, CallStep, Register, TakeResponse, Cleanup, Waits, TypeOK
<1>2. \/ caller[r] = "new" /\ caller'[r] = "refused" /\ slot'[r] = slot[r]
      \/ caller[r] = "submitted" /\ caller'[r] = "waiting" /\ slot'[r] = "empty"
      \/ caller[r] = "waiting" /\ caller'[r] = "answered" /\ slot[r] = "full" /\ slot'[r] = "empty"
      \/ caller[r] = "waiting" /\ caller'[r] = "gave up" /\ slot'[r] = slot[r]
      \/ /\ caller[r] \in {"answered", "gave up"} /\ caller'[r] = caller[r]
         /\ slot'[r] = "closed" /\ slot[r] \in {"empty", "full"}
  BY DEF Refuse, GiveUp, CallStep, Register, TakeResponse, Cleanup, Waits, TypeOK
<1>3. Accepted' = Accepted
  BY <1>1, <1>2 DEF Accepted
<1>4. WaysApart' /\ AcceptedCounted' /\ ProcessorAgrees'
  BY <1>1, <1>3 DEF WaysApart, OnItsWay, AcceptedCounted, ProcessorAgrees, processorVars
<1>5. SlotsAgree'
  <2>. SUFFICES ASSUME NEW q \in Requests
                PROVE  /\ slot'[q] = "none" <=> caller'[q] \in {"new", "refused", "submitted"}
                       /\ slot'[q] = "closed" => caller'[q] \in {"answered", "gave up"}
                       /\ caller'[q] = "answered" => callback'[q] = "done" /\ slot'[q] # "full"
    BY DEF SlotsAgree
  <2>1. CASE q # r
    BY <1>1, <2>1 DEF SlotsAgree
  <2>2. CASE q = r
    BY <1>1, <1>2, <2>2 DEF SlotsAgree, DeliveredOnce
  <2>. QED  BY <2>1, <2>2
<1>6. DeliveredOnce'
  BY <1>1, <1>2 DEF SlotsAgree, DeliveredOnce, TypeOK
<1>7. Lossless'
  BY <1>1, <1>2 DEF Lossless, Cancelled, endVars
<1>. QED  BY <1>1, <1>4, <1>5, <1>6, <1>7, TypeCaller

LEMMA CallbackSteps ==
  ASSUME IdaesInv, NEW r \in Requests, CallbackStep(r)
  PROVE  IdaesInv'
<1>. USE DEF IdaesInv
<1>1. /\ UNCHANGED <<caller, requestChan, responseChan, processorVars, endVars>>
      /\ \A q \in Requests : q # r => callback'[q] = callback[q] /\ slot'[q] = slot[q]
      /\ callback[r] \in {"started", "found", "missed"}
      /\ callback'[r] \in {"found", "missed", "done", "panicked", "lost"}
  BY DEF CallbackStep, LookUp, Route, SendOnClosed, FallBack, Lose, Carry, TypeOK
<1>2. \/ /\ callback[r] = "started" /\ slot[r] \in {"empty", "full"} /\ callback'[r] = "found"
         /\ UNCHANGED <<slot, general>>
      \/ callback'[r] = "missed" /\ UNCHANGED <<slot, general>>
      \/ /\ callback[r] = "found" /\ callback'[r] = "done" /\ general' = general
         /\ slot[r] = "empty" /\ slot'[r] = "full"
      \/ callback'[r] = "panicked" /\ slot[r] = "closed" /\ UNCHANGED <<slot, general>>
      \/ /\ callback[r] = "missed" /\ callback'[r] = "done" /\ slot' = slot
         /\ general' = general \cup {r} /\ Cardinality(general) < ClientBuffer
      \/ /\ callback'[r] = "lost" /\ UNCHANGED <<slot, general>>
         /\ Cardinality(general) >= ClientBuffer \/ WebDone
  BY DEF CallbackStep, LookUp, Route, SendOnClosed, FallBack, Lose, Carry, TypeOK
<1>3. Accepted' = Accepted
  BY <1>1 DEF Accepted
<1>4. WaysApart' /\ AcceptedCounted' /\ ProcessorAgrees'
  BY <1>1, <1>3 DEF WaysApart, OnItsWay, AcceptedCounted, ProcessorAgrees, processorVars
<1>5. caller[r] # "answered"
  BY <1>1 DEF SlotsAgree
<1>6. SlotsAgree'
  BY <1>1, <1>2, <1>5 DEF SlotsAgree, TypeOK
<1>7. DeliveredOnce'
  <2>1. slot[r] # "full" /\ r \notin general
    BY <1>1 DEF DeliveredOnce
  <2>2. \A q \in Requests : q # r => q \in general' <=> q \in general
    BY <1>2
  <2>3. \A q \in Requests : q # r =>
          /\ slot'[q] = "full" => callback'[q] = "done" /\ q \notin general'
          /\ q \in general' => callback'[q] = "done" /\ caller'[q] # "answered"
          /\ callback'[q] = "found" => slot'[q] # "none"
    BY <1>1, <2>2 DEF DeliveredOnce
  <2>4. /\ slot'[r] = "full" => callback'[r] = "done" /\ r \notin general'
        /\ r \in general' => callback'[r] = "done" /\ caller'[r] # "answered"
        /\ callback'[r] = "found" => slot'[r] # "none"
    BY <1>1, <1>2, <1>5, <2>1
  <2>. QED  BY <2>3, <2>4 DEF DeliveredOnce
<1>8. Lossless'
  <2>. SUFFICES ASSUME ~Cancelled, web = "running"
                PROVE  \A q \in Requests :
                         /\ callback'[q] = "lost" =>
                              caller[q] = "gave up" \/ Cardinality(general') = ClientBuffer
                         /\ callback'[q] = "panicked" => caller[q] = "gave up"
    BY <1>1 DEF Lossless, Cancelled, endVars
  <2>1. ~WebDone
    BY DEF WebDone, Cancelled
  <2>2. Cardinality(general) = ClientBuffer => general' = general
    BY <1>2, BufferTypes
  <2>3. \A q \in Requests :
          /\ callback[q] = "lost" =>
               caller[q] = "gave up" \/ Cardinality(general) = ClientBuffer
          /\ callback[q] = "panicked" => caller[q] = "gave up"
    BY DEF Lossless
  <2>4. callback'[r] = "lost" => Cardinality(general') = ClientBuffer
    <3>. SUFFICES ASSUME callback'[r] = "lost" PROVE Cardinality(general') = ClientBuffer
      OBVIOUS
    <3>1. general' = general /\ Cardinality(general) >= ClientBuffer
      BY <1>2, <2>1
    <3>2. Cardinality(general) \in Nat /\ Cardinality(general) <= ClientBuffer
      BY FS_CardinalityType DEF TypeOK
    <3>. QED  BY <3>1, <3>2, BufferTypes
  <2>5. callback'[r] = "panicked" => caller[r] = "gave up"
    BY <1>2, <1>5 DEF SlotsAgree
  <2>. QED  BY <1>1, <2>2, <2>3, <2>4, <2>5
<1>. QED  BY <1>4, <1>6, <1>7, <1>8, TypeCallback

LEMMA TakeRequestStep == IdaesInv /\ TakeRequest => IdaesInv'
<1>. SUFFICES ASSUME IdaesInv, TakeRequest PROVE IdaesInv'
  OBVIOUS
<1>. USE DEF IdaesInv
<1>1. /\ processor = "idle" /\ current = NoRequest
      /\ processor' = "analyzing"
      /\ current' = Head(requestChan) /\ requestChan' = Tail(requestChan)
      /\ requestsInProgress' = requestsInProgress + 1 /\ requestsInProgress = 0
      /\ UNCHANGED <<clientVars, responseChan, requestsProcessed, endVars>>
  BY DEF TakeRequest, ProcessorAgrees
<1>2. /\ Head(requestChan) \in Requests /\ Head(requestChan) \in Range(requestChan)
      /\ Range(requestChan') = Range(requestChan) \ {Head(requestChan)}
      /\ IsInjective(requestChan')
      /\ Len(requestChan') = Len(requestChan) - 1
      /\ Len(requestChan) \in Nat
  BY <1>1, ReceiveType, ReceiveContents, BufferTypes DEF TakeRequest, WaysApart
<1>3. Accepted' = Accepted
  BY <1>1 DEF Accepted, clientVars
<1>4. WaysApart'
  BY <1>1, <1>2, <1>3, NoRequestAssumption DEF WaysApart, OnItsWay, clientVars
<1>5. AcceptedCounted'
  BY <1>1, <1>2, <1>3, BufferTypes DEF AcceptedCounted
<1>6. ProcessorAgrees'
  BY <1>1, <1>2, NoRequestAssumption DEF ProcessorAgrees
<1>7. SlotsAgree' /\ DeliveredOnce' /\ Lossless'
  BY <1>1 DEF SlotsAgree, DeliveredOnce, Lossless, Cancelled, clientVars, endVars
<1>8. TypeOK'
  BY TypeProcessor DEF ProcessorStep
<1>. QED  BY <1>1, <1>4, <1>5, <1>6, <1>7, <1>8 DEF clientVars

LEMMA SendResponseStep == IdaesInv /\ SendResponse => IdaesInv'
<1>. SUFFICES ASSUME IdaesInv, SendResponse PROVE IdaesInv'
  OBVIOUS
<1>. USE DEF IdaesInv
<1>1. /\ processor = "sending" /\ processor' = "idle"
      /\ current' = NoRequest /\ responseChan' = Append(responseChan, current)
      /\ UNCHANGED <<clientVars, requestChan, requestsInProgress, requestsProcessed, endVars>>
  BY DEF SendResponse
<1>2. current \in Requests /\ current # NoRequest
  BY <1>1 DEF ProcessorAgrees, TypeOK
<1>3. /\ Range(responseChan') = Range(responseChan) \cup {current}
      /\ IsInjective(responseChan')
  BY <1>1, <1>2, SendContents, BufferTypes DEF WaysApart
<1>4. Accepted' = Accepted
  BY <1>1 DEF Accepted, clientVars
<1>5. NoRequest \notin Range(requestChan) /\ NoRequest \notin Range(responseChan)
  BY BufferTypes
<1>6. WaysApart'
  BY <1>1, <1>2, <1>3, <1>4, <1>5, NoRequestAssumption DEF WaysApart, OnItsWay, clientVars
<1>7. AcceptedCounted' /\ ProcessorAgrees'
  BY <1>1, <1>4 DEF AcceptedCounted, ProcessorAgrees
<1>8. SlotsAgree' /\ DeliveredOnce' /\ Lossless'
  BY <1>1 DEF SlotsAgree, DeliveredOnce, Lossless, Cancelled, clientVars, endVars
<1>9. TypeOK'
  BY TypeProcessor DEF ProcessorStep
<1>. QED  BY <1>1, <1>6, <1>7, <1>8, <1>9 DEF clientVars

LEMMA ResponseCancelledStep == IdaesInv /\ ResponseCancelled => IdaesInv'
<1>. SUFFICES ASSUME IdaesInv, ResponseCancelled PROVE IdaesInv'
  OBVIOUS
<1>. USE DEF IdaesInv
<1>1. /\ processor = "sending" /\ processor' = "idle" /\ Cancelled
      /\ current' = NoRequest
      /\ UNCHANGED <<caller, slot, general, requestChan, responseChan,
                     requestsInProgress, requestsProcessed, endVars>>
  BY DEF ResponseCancelled
<1>2. current \in Requests /\ current # NoRequest
  BY <1>1 DEF ProcessorAgrees, TypeOK
<1>3. /\ callback'[current] = "lost"
      /\ \A q \in Requests : q # current => callback'[q] = callback[q]
  BY <1>2 DEF ResponseCancelled, TypeOK
<1>4. Accepted' = Accepted
  BY <1>1 DEF Accepted
<1>5. NoRequest \notin Range(requestChan) /\ NoRequest \notin Range(responseChan)
  BY BufferTypes
<1>6. current \in Accepted /\ callback[current] = "none"
  BY <1>2 DEF WaysApart, OnItsWay
<1>7. WaysApart'
  BY <1>1, <1>2, <1>3, <1>4, <1>5, <1>6, NoRequestAssumption DEF WaysApart, OnItsWay
<1>8. AcceptedCounted' /\ ProcessorAgrees'
  BY <1>1, <1>4 DEF AcceptedCounted, ProcessorAgrees
<1>9. SlotsAgree' /\ DeliveredOnce'
  BY <1>1, <1>2, <1>3, <1>6 DEF SlotsAgree, DeliveredOnce
<1>10. Lossless'
  BY <1>1 DEF Lossless, Cancelled, endVars
<1>11. TypeOK'
  BY TypeProcessor DEF ProcessorStep
<1>. QED  BY <1>1, <1>7, <1>8, <1>9, <1>10, <1>11

LEMMA BroadcastStep == IdaesInv /\ Broadcast => IdaesInv'
<1>. SUFFICES ASSUME IdaesInv, Broadcast PROVE IdaesInv'
  OBVIOUS
<1>. USE DEF IdaesInv
<1>0. PICK h : h = Head(responseChan)
  OBVIOUS
<1>1. /\ responseChan' = Tail(responseChan) /\ responseChan # <<>>
      /\ UNCHANGED <<caller, slot, general, requestChan, processorVars, endVars>>
  BY DEF Broadcast
<1>2. /\ h \in Requests /\ h \in Range(responseChan)
      /\ Range(responseChan') = Range(responseChan) \ {h}
      /\ IsInjective(responseChan')
  BY <1>0, <1>1, ReceiveType, ReceiveContents, BufferTypes DEF WaysApart
<1>3. /\ callback'[h] \in {"started", "lost"} /\ (web = "running" => callback'[h] = "started")
      /\ \A q \in Requests : q # h => callback'[q] = callback[q]
  BY <1>0, <1>2 DEF Broadcast, TypeOK
<1>4. Accepted' = Accepted
  BY <1>1 DEF Accepted
<1>5. h \in Accepted /\ callback[h] = "none"
  BY <1>2 DEF WaysApart, OnItsWay
<1>6. h \notin Range(requestChan) /\ current # h
  BY <1>2 DEF WaysApart
<1>7. WaysApart'
  BY <1>1, <1>2, <1>3, <1>4, <1>5, <1>6 DEF WaysApart, OnItsWay, processorVars
<1>8. AcceptedCounted' /\ ProcessorAgrees'
  BY <1>1, <1>4 DEF AcceptedCounted, ProcessorAgrees, processorVars
<1>9. SlotsAgree' /\ DeliveredOnce'
  BY <1>1, <1>2, <1>3, <1>5 DEF SlotsAgree, DeliveredOnce
<1>10. Lossless'
  BY <1>1, <1>2, <1>3 DEF Lossless, Cancelled, endVars
<1>11. TypeOK'
  BY TypeOutside
<1>. QED  BY <1>1, <1>7, <1>8, <1>9, <1>10, <1>11

\* Nothing that has been cancelled or unsubscribed comes back.
LEMMA OutsideStep ==
  ASSUME IdaesInv, Outside \/ Abandon \/ AnalysisReturns \/ ProcessorExits
  PROVE  IdaesInv'
<1>. USE DEF IdaesInv
<1>1. UNCHANGED <<clientVars, requestChan, responseChan, current>>
  BY DEF Outside, Abandon, AnalysisReturns, ProcessorExits, BroadcasterExits, MonitorExits,
         CloseShutdownChan, StopStep, CancelContext, StopCompletes, Unsubscribe, CancelWeb,
         CancelParent, Ends, processorVars
<1>2. Accepted' = Accepted
  BY <1>1 DEF Accepted, clientVars
<1>3. WaysApart' /\ SlotsAgree' /\ DeliveredOnce'
  BY <1>1, <1>2 DEF WaysApart, OnItsWay, SlotsAgree, DeliveredOnce, clientVars
<1>4. AcceptedCounted' /\ ProcessorAgrees'
  <2>1. CASE Outside
    <3>1. UNCHANGED processorVars
      BY <2>1 DEF Outside, BroadcasterExits, MonitorExits,
         CloseShutdownChan, StopStep, CancelContext, StopCompletes, Unsubscribe, CancelWeb,
         CancelParent, Ends
    <3>. QED  BY <1>1, <1>2, <3>1 DEF AcceptedCounted, ProcessorAgrees, processorVars
  <2>2. CASE Abandon \/ ProcessorExits
    BY <1>1, <1>2, <2>2 DEF Abandon, ProcessorExits, AcceptedCounted, ProcessorAgrees
  <2>3. CASE AnalysisReturns
    <3>1. /\ processor = "analyzing" /\ processor' = "sending"
          /\ requestsInProgress' = requestsInProgress - 1
          /\ requestsProcessed' = requestsProcessed + 1
      BY <2>3 DEF AnalysisReturns
    <3>2. requestsInProgress = 1 /\ requestsInProgress' = 0
      BY <3>1 DEF ProcessorAgrees
    <3>3. AcceptedCounted'
      BY <1>1, <1>2, <3>1, <3>2, BufferTypes DEF AcceptedCounted
    <3>4. ProcessorAgrees'
      BY <1>1, <3>1, <3>2 DEF ProcessorAgrees
    <3>. QED  BY <3>3, <3>4
  <2>. QED  BY <2>1, <2>2, <2>3
<1>5. /\ Cancelled => Cancelled'
      /\ web' = "running" => web = "running"
  BY DEF Outside, Abandon, AnalysisReturns, ProcessorExits, BroadcasterExits, MonitorExits,
         CloseShutdownChan, StopStep, CancelContext, StopCompletes, Unsubscribe, CancelWeb,
         CancelParent, Cancelled, endVars
<1>6. Lossless'
  BY <1>1, <1>5 DEF Lossless, clientVars
<1>7. TypeOK'
  BY TypeOutside, TypeProcessor DEF ProcessorStep
<1>. QED  BY <1>1, <1>3, <1>4, <1>6, <1>7 DEF clientVars

LEMMA InvStep == IdaesInv /\ [Next]_vars => IdaesInv'
<1>. SUFFICES ASSUME IdaesInv, [Next]_vars PROVE IdaesInv'
  OBVIOUS
<1>1. CASE UNCHANGED vars
  <2>0. /\ UNCHANGED <<caller, slot, general, callback, requestChan, responseChan>>
        /\ UNCHANGED <<processor, current, requestsInProgress, requestsProcessed>>
        /\ UNCHANGED <<broadcaster, monitor, stop, web, parentCancelled>>
    BY <1>1 DEF vars, clientVars, processorVars, endVars
  <2>1. TypeOK' /\ IsFiniteSet(general')
    BY <2>0 DEF IdaesInv, TypeOK
  <2>2. WaysApart'
    BY <2>0 DEF IdaesInv, WaysApart, OnItsWay, Accepted
  <2>3. SlotsAgree' /\ DeliveredOnce'
    BY <2>0 DEF IdaesInv, SlotsAgree, DeliveredOnce
  <2>4. ProcessorAgrees' /\ AcceptedCounted'
    BY <2>0 DEF IdaesInv, ProcessorAgrees, AcceptedCounted, Accepted
  <2>5. Lossless'
    BY <2>0 DEF IdaesInv, Lossless, Cancelled
  <2>. QED  BY <2>1, <2>2, <2>3, <2>4, <2>5 DEF IdaesInv
<1>2. CASE Next
  BY <1>2, SubmitStep, CallerStep, CallbackSteps, TakeRequestStep, SendResponseStep,
     ResponseCancelledStep, BroadcastStep, OutsideStep
     DEF Next, ProcessorStep, BroadcasterStep, Outside
<1>. QED  BY <1>1, <1>2

-----------------------------------------------------------------------------
(* The theorems *)

LEMMA IdaesInvariant == Spec => []IdaesInv
BY InvInit, InvStep, PTL DEF Spec

\* The places of a request, by how far it has come.
LEMMA OnePlace ==
  ASSUME IdaesInv, NEW r \in Requests
  PROVE  Cardinality(PlacesOf(r)) = IF r \in Accepted THEN 1 ELSE 0
<1>. USE DEF IdaesInv
<1>0. /\ \A x : Cardinality({x}) = 1
      /\ Cardinality({}) = 0
  BY FS_Singleton, FS_EmptySet
<1>1. CASE r \notin Accepted
  <2>1. PlacesOf(r) = {}
    BY <1>1 DEF PlacesOf, WaysApart, OnItsWay, DeliveredOnce
  <2>. QED  BY <1>0, <1>1, <2>1
<1>2. CASE r \in Accepted
  <2>1. \E x : PlacesOf(r) = {x}
    <3>1. CASE callback[r] = "none" /\ r \in Range(requestChan)
      <4>. PlacesOf(r) = {"requestChan"}
        BY <3>1 DEF PlacesOf, WaysApart, DeliveredOnce
      <4>. QED  OBVIOUS
    <3>2. CASE callback[r] = "none" /\ current = r
      <4>. PlacesOf(r) = {"processor"}
        BY <3>2 DEF PlacesOf, WaysApart, DeliveredOnce
      <4>. QED  OBVIOUS
    <3>3. CASE callback[r] = "none" /\ r \in Range(responseChan)
      <4>. PlacesOf(r) = {"responseChan"}
        BY <3>3 DEF PlacesOf, WaysApart, DeliveredOnce
      <4>. QED  OBVIOUS
    <3>4. CASE callback[r] \in {"started", "found", "missed"}
      <4>. PlacesOf(r) = {"callback"}
        BY <3>4 DEF PlacesOf, WaysApart, OnItsWay, DeliveredOnce
      <4>. QED  OBVIOUS
    <3>5. CASE callback[r] = "done" /\ slot[r] = "full"
      <4>. PlacesOf(r) = {"slot"}
        BY <3>5 DEF PlacesOf, WaysApart, OnItsWay, DeliveredOnce
      <4>. QED  OBVIOUS
    <3>6. CASE callback[r] = "done" /\ r \in general
      <4>. PlacesOf(r) = {"general"}
        BY <3>6 DEF PlacesOf, WaysApart, OnItsWay, DeliveredOnce
      <4>. QED  OBVIOUS
    <3>7. CASE \/ callback[r] \in {"lost", "panicked"}
               \/ callback[r] = "done" /\ slot[r] # "full" /\ r \notin general
      <4>. PlacesOf(r) = {"gone"}
        BY <3>7 DEF PlacesOf, WaysApart, OnItsWay, DeliveredOnce
      <4>. QED  OBVIOUS
    <3>. QED  BY <1>2, <3>1, <3>2, <3>3, <3>4, <3>5, <3>6, <3>7
              DEF WaysApart, OnItsWay, TypeOK
  <2>. QED  BY <1>0, <1>2, <2>1
<1>. QED  BY <1>1, <1>2

\* An accepted request is always in exactly one place, from the request buffer to
\* its caller, and the counters of the health report add up to it.
THEOREM RequestsInOnePlace == Spec => []EachRequestInOnePlace
<1>1. IdaesInv => EachRequestInOnePlace
  BY OnePlace DEF IdaesInv, EachRequestInOnePlace, WaysApart, AcceptedCounted
<1>. QED  BY <1>1, IdaesInvariant, PTL

\* While both subsystems run, a lost response is missed by nobody who still waits
\* for it, unless the general channel was full.
THEOREM LossesAreLate == Spec => []LostOnlyWhenLate
<1>1. IdaesInv => LostOnlyWhenLate
  BY DEF IdaesInv, LostOnlyWhenLate, DeliveredOnce, Lossless, TypeOK
<1>. QED  BY <1>1, IdaesInvariant, PTL
=============================================================================
