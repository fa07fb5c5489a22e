----------------------- MODULE WorkerSupervisorProofs -----------------------
(***************************************************************************)
(* Theorems about the worker supervisor, for every number of requests and  *)
(* workers, every size of its channels and every bound on its counter.     *)
(***************************************************************************)
EXTENDS WorkerSupervisor, ChannelLemmas

-----------------------------------------------------------------------------
(* The inductive invariant *)

Commanded(w) == Range(commands[w]) \ {Nil}

\* A channel holds no request twice; the command channels may hold several nils.
Once(s) == \A i, j \in DOMAIN s : s[i] = s[j] /\ s[i] # Nil => i = j

Located(r) ==
  \/ r \in Range(requests)
  \/ \E w \in Counters : r \in Commanded(w) \/ hand[w] = r
  \/ sending.request = r \/ r \in handled \/ r \in dropped

\* A request is with one goroutine, in one channel or at one end.
Apart(r) ==
  /\ r \in Range(requests) =>
       /\ \A w \in Counters : r \notin Commanded(w) /\ hand[w] # r
       /\ sending.request # r /\ r \notin handled /\ r \notin dropped
  /\ \A w \in Counters : r \in Commanded(w) =>
       /\ \A v \in Counters : (v # w => r \notin Commanded(v)) /\ hand[v] # r
       /\ sending.request # r /\ r \notin handled /\ r \notin dropped
  /\ \A w \in Counters : hand[w] = r =>
       /\ \A v \in Counters : v # w => hand[v] # r
       /\ sending.request # r /\ r \notin handled /\ r \notin dropped
  /\ sending.request = r => r \notin handled /\ r \notin dropped
  /\ r \in handled => r \notin dropped

EachApart ==
  /\ Once(requests) /\ \A w \in Counters : Once(commands[w])
  /\ \A r \in Requests : Apart(r) /\ (r <= accepted <=> Located(r))

\* A worker has a request while it is busy, the distributor while it sends, and a
\* worker that is yet to be created has none.
HandsAgree ==
  /\ \A w \in Counters : hand[w] # Nil <=> worker[w] = "busy"
  /\ \A w \in Counters : w > workerCounter => worker[w] = "none" /\ w \notin workers
  /\ IF distributor = "sending"
     THEN sending.worker \in Counters /\ sending.turn \in Counters
     ELSE sending = NoSend

\* The counter gives every turn and every worker a number of its own: the
\* goroutine that replaces a worker is the only one with its number, and what
\* createWorker is about to put in the table is not there yet.
NumbersFresh ==
  /\ \A n \in Counters : failure[n] # "none" =>
       n <= workerCounter /\ worker[n] \in {"none", "panicked"}
  /\ distributor = "sending" =>
       /\ sending.turn <= workerCounter
       /\ failure[sending.turn] = "none" /\ worker[sending.turn] = "none"
  /\ \A n \in Counters : failure[n] = "placing" =>
       /\ failing[n] \in Counters /\ failing[n] <= workerCounter
       /\ failing[n] \notin workers
       /\ worker[failing[n]] = "none" /\ failure[failing[n]] = "none"
       /\ distributor = "sending" => sending.turn # failing[n]
       /\ \A m \in Counters \ {n} : failure[m] = "placing" => failing[m] # failing[n]

SupervisorInv ==
  TypeOK /\ HandsAgree /\ NumbersFresh /\ EachApart /\ ActiveNeverOvercounted

-----------------------------------------------------------------------------
(* Lemmas about the channels *)

LEMMA OnceTail ==
  ASSUME NEW S, NEW s \in Seq(S), s # <<>>, Once(s)
  PROVE  /\ Once(Tail(s)) /\ Head(s) \in Range(s)
         /\ Range(Tail(s)) \ {Nil} = (Range(s) \ {Nil}) \ {Head(s)}
<1>1. /\ Len(s) \in Nat \ {0} /\ DOMAIN s = 1 .. Len(s) /\ Head(s) = s[1]
  BY ReceiveType, LenProperties
<1>2. /\ DOMAIN Tail(s) = 1 .. Len(s) - 1
      /\ \A i \in 1 .. Len(s) - 1 : Tail(s)[i] = s[i + 1]
  BY <1>1, ReceiveType, HeadTailProperties, LenProperties
<1>3. Once(Tail(s))
  <2>. SUFFICES ASSUME NEW i \in 1 .. Len(s) - 1, NEW j \in 1 .. Len(s) - 1,
                       s[i + 1] = s[j + 1], s[i + 1] # Nil
                PROVE  i = j
    BY <1>2 DEF Once
  <2>1. i + 1 \in DOMAIN s /\ j + 1 \in DOMAIN s
    BY <1>1
  <2>2. i + 1 = j + 1
    BY <2>1 DEF Once
  <2>. QED  BY <2>2
<1>4. Head(s) \in Range(s)
  BY <1>1 DEF Range
<1>5. ASSUME NEW x \in Range(Tail(s)) \ {Nil}  PROVE x \in (Range(s) \ {Nil}) \ {Head(s)}
  <2>1. PICK i \in 1 .. Len(s) - 1 : x = s[i + 1]
    BY <1>2, <1>5 DEF Range
  <2>2. i + 1 \in DOMAIN s /\ 1 \in DOMAIN s /\ i + 1 # 1
    BY <1>1
  <2>. QED  BY <1>1, <1>5, <2>1, <2>2 DEF Range, Once
<1>6. ASSUME NEW x \in (Range(s) \ {Nil}) \ {Head(s)}  PROVE x \in Range(Tail(s)) \ {Nil}
  <2>1. PICK i \in 1 .. Len(s) : x = s[i]
    BY <1>1, <1>6 DEF Range
  <2>2. i # 1
    BY <1>1, <1>6, <2>1
  <2>3. i - 1 \in 1 .. Len(s) - 1 /\ (i - 1) + 1 = i
    BY <1>1, <2>2
  <2>4. Tail(s)[i - 1] = x
    BY <1>2, <2>1, <2>3
  <2>. QED  BY <1>2, <1>6, <2>3, <2>4 DEF Range
<1>. QED  BY <1>3, <1>4, <1>5, <1>6

LEMMA OnceAppend ==
  ASSUME NEW S, NEW s \in Seq(S), NEW x \in S, Once(s), x = Nil \/ x \notin Range(s)
  PROVE  /\ Once(Append(s, x))
         /\ Range(Append(s, x)) = Range(s) \cup {x}
<1>1. /\ Len(s) \in Nat /\ DOMAIN s = 1 .. Len(s)
      /\ DOMAIN Append(s, x) = 1 .. Len(s) + 1
      /\ Append(s, x)[Len(s) + 1] = x
      /\ \A i \in 1 .. Len(s) : Append(s, x)[i] = s[i]
  BY AppendProperties, LenProperties
<1>2. Once(Append(s, x))
  BY <1>1 DEF Once, Range
<1>3. Range(Append(s, x)) = Range(s) \cup {x}
  BY <1>1 DEF Range
<1>. QED  BY <1>2, <1>3

-----------------------------------------------------------------------------
(* Type correctness *)

LEMMA SizesType ==
  /\ NumRequests \in Nat \ {0} /\ MaxWorkers \in Nat \ {0} /\ RequestBuffer \in Nat \ {0}
  /\ CommandBuffer \in Nat \ {0} /\ ResultBuffer \in Nat \ {0} /\ EventBuffer \in Nat \ {0}
  /\ MaxCounter \in Nat \ {0}
  /\ MaxWorkers <= EventBuffer /\ MaxWorkers <= MaxCounter
  /\ Nil \notin Requests
BY SizesAssumption, StartAssumption DEF Requests, Nil

LEMMA StateTypes ==
  ASSUME TypeOK
  PROVE  /\ requests \in Seq(Requests) /\ Len(requests) \in Nat
         /\ Len(requests) <= RequestBuffer /\ Range(requests) \subseteq Requests
         /\ workerEvents \in Seq(Counters \cup {Nil}) /\ Len(workerEvents) \in Nat
         /\ Len(workerEvents) <= EventBuffer
         /\ workerCounter \in Nat /\ workerCounter <= MaxCounter
         /\ accepted \in Nat /\ accepted <= NumRequests
         /\ \A w \in Counters :
              /\ commands[w] \in Seq(Requests \cup {Nil}) /\ Len(commands[w]) \in Nat
              /\ Len(commands[w]) <= CommandBuffer
              /\ Range(commands[w]) \subseteq Requests \cup {Nil}
              /\ results[w] \in Nat /\ results[w] <= ResultBuffer
BY SizesType, LenProperties, ContentsType DEF TypeOK

LEMMA TypeInit == Init => TypeOK
<1>. SUFFICES ASSUME Init PROVE TypeOK
  OBVIOUS
<1>1. /\ requests \in Seq(Requests) /\ Len(requests) <= RequestBuffer
      /\ commands \in [Counters -> Seq(Requests \cup {Nil})]
      /\ \A w \in Counters : Len(commands[w]) <= CommandBuffer
      /\ results \in [Counters -> 0 .. ResultBuffer]
  BY EmptyContents, SizesType DEF Init
<1>2. /\ workerEvents \in Seq(Counters \cup {Nil}) /\ Len(workerEvents) <= EventBuffer
  <2>1. /\ workerEvents \in [1 .. MaxWorkers -> Counters \cup {Nil}]
        /\ MaxWorkers \in Nat
    BY SizesType DEF Init
  <2>2. workerEvents \in Seq(Counters \cup {Nil}) /\ Len(workerEvents) = MaxWorkers
    BY <2>1, SizesType, LenProperties DEF Init
  <2>. QED  BY <2>2, SizesType
<1>3. /\ workers \subseteq Counters /\ workerCounter \in 0 .. MaxCounter
      /\ accepted \in 0 .. NumRequests /\ activeWorkers \in Int
  BY SizesType DEF Init, Counters
<1>4. /\ sending \in [request : Requests \cup {Nil}, worker : 0 .. MaxCounter,
                      turn : 0 .. MaxCounter]
      /\ failing \in [Counters -> 0 .. MaxCounter]
  BY SizesType DEF Init, NoSend
<1>. QED  BY <1>1, <1>2, <1>3, <1>4 DEF Init, TypeOK, FailureStates

\* Every step but those listed leaves the requests where they are.
Data == <<accepted, requests, commands, hand, sending, handled, dropped>>

LEMMA TypeSubmit == TypeOK /\ Submit => TypeOK'
<1>. SUFFICES ASSUME TypeOK, Submit PROVE TypeOK'
  OBVIOUS
<1>1. accepted' \in 0 .. NumRequests /\ accepted' \in Requests
  BY StateTypes, SizesType DEF Submit, Requests
<1>2. requests' \in Seq(Requests) /\ Len(requests') <= RequestBuffer
  BY <1>1, SendType, StateTypes, SizesType DEF Submit
<1>. QED  BY <1>1, <1>2 DEF Submit, TypeOK, loopVars, distVars, countVars, workerVars, failVars

LEMMA TypeDies == TypeOK /\ Dies => TypeOK'
BY DEF Dies, TypeOK, requestVars, loopVars, distVars, countVars, workerVars, failVars

LEMMA ReceivedType ==
  ASSUME TypeOK, Receives
  PROVE  /\ Received \in Requests \cup {Nil}
         /\ requests' \in Seq(Requests) /\ Len(requests') <= RequestBuffer
         /\ workerCounter' \in 0 .. MaxCounter /\ workerCounter' \in Counters
<1>1. workerCounter' \in 0 .. MaxCounter /\ workerCounter' \in Counters
  BY StateTypes, SizesType DEF Receives, Counters
<1>2. CASE requests = <<>>
  BY <1>1, <1>2, StateTypes DEF Receives, Received
<1>3. CASE requests # <<>>
  BY <1>1, <1>3, StateTypes, ReceiveType, SizesType DEF Receives, Received
<1>. QED  BY <1>2, <1>3

LEMMA TypeDistributor ==
  ASSUME TypeOK, HandsAgree, DistributorStep
  PROVE  TypeOK'
<1>1. CASE Select
  <2>1. PICK w \in Selectable(workerCounter') :
               sending' = [request |-> Received, worker |-> w, turn |-> workerCounter']
    BY <1>1 DEF Select
  <2>2. w \in 0 .. MaxCounter
    BY <2>1, SizesType DEF Selectable, TypeOK, Counters
  <2>3. sending' \in [request : Requests \cup {Nil}, worker : 0 .. MaxCounter,
                      turn : 0 .. MaxCounter]
    BY <1>1, <2>1, <2>2, ReceivedType DEF Select
  <2>. QED  BY <1>1, <2>3, ReceivedType
            DEF Select, Receives, TypeOK, loopVars, workerVars, failVars
<1>2. CASE SelectNone
  <2>1. dropped' \subseteq Requests
    BY <1>2, ReceivedType DEF SelectNone, TypeOK
  <2>. QED  BY <1>2, <2>1, ReceivedType
            DEF SelectNone, Receives, TypeOK, loopVars, workerVars, failVars
<1>3. CASE SelectNoneForNil
  BY <1>3, TypeDies DEF SelectNoneForNil
<1>4. CASE Deliver
  <2>0. PICK w : w = sending.worker
    OBVIOUS
  <2>1. w \in Counters /\ sending.request \in Requests \cup {Nil}
    <3>1. distributor = "sending"
      BY <1>4 DEF Deliver, Sent
    <3>2. sending.worker \in Counters
      BY <3>1 DEF HandsAgree
    <3>3. sending.request \in Requests \cup {Nil}
      BY DEF TypeOK
    <3>. QED  BY <2>0, <3>2, <3>3
  <2>2. /\ Append(commands[w], sending.request) \in Seq(Requests \cup {Nil})
        /\ Len(Append(commands[w], sending.request)) <= CommandBuffer
    <3>1. commands[w] \in Seq(Requests \cup {Nil}) /\ Len(commands[w]) \in Nat
      BY <2>1, StateTypes
    <3>2. Len(commands[w]) < CommandBuffer /\ CommandBuffer \in Nat
      BY <1>4, <2>0, SizesType DEF Deliver
    <3>. QED  BY <2>1, <3>1, <3>2, SendType
  <2>3. /\ commands' \in [Counters -> Seq(Requests \cup {Nil})]
        /\ \A v \in Counters : Len(commands'[v]) <= CommandBuffer
    BY <1>4, <2>0, <2>2 DEF Deliver, TypeOK
  <2>4. NoSend \in [request : Requests \cup {Nil}, worker : 0 .. MaxCounter,
                    turn : 0 .. MaxCounter]
    BY SizesType DEF NoSend
  <2>5. processedReqs' \in Nat
    BY <1>4 DEF Deliver, TypeOK
  <2>6. /\ distributor' = "loop" /\ sending' = NoSend /\ UNCHANGED dropped
        /\ UNCHANGED <<requestVars, loopVars, workers, countVars, worker, hand, results,
                       resultMonitor, workerEvents, handled, cancelled, fatal, failVars>>
    BY <1>4 DEF Deliver, Sent
  <2>. QED  BY <2>3, <2>4, <2>5, <2>6, SMTT(30)
            DEF TypeOK, requestVars, loopVars, countVars, failVars
<1>5. CASE DeliverFails
  <2>1. NoSend \in [request : Requests \cup {Nil}, worker : 0 .. MaxCounter,
                    turn : 0 .. MaxCounter]
    BY SizesType DEF NoSend
  <2>2. /\ failure' \in [Counters -> FailureStates]
        /\ failing' \in [Counters -> 0 .. MaxCounter]
        /\ dropped' \subseteq Requests
    BY <1>5 DEF DeliverFails, TypeOK, FailureStates
  <2>. QED  BY <1>5, <2>1, <2>2
            DEF DeliverFails, Sent, TypeOK, requestVars, loopVars, countVars
<1>. QED  BY <1>1, <1>2, <1>3, <1>4, <1>5 DEF DistributorStep

\* A command that is taken leaves the others in their channels.
LEMMA CommandsTail ==
  ASSUME TypeOK, NEW w \in Counters, commands[w] # <<>>,
         commands' = [commands EXCEPT ![w] = Tail(@)]
  PROVE  /\ Head(commands[w]) \in Requests \cup {Nil}
         /\ commands' \in [Counters -> Seq(Requests \cup {Nil})]
         /\ \A v \in Counters : Len(commands'[v]) <= CommandBuffer
<1>1. /\ Head(commands[w]) \in Requests \cup {Nil}
      /\ Tail(commands[w]) \in Seq(Requests \cup {Nil})
      /\ Len(Tail(commands[w])) <= CommandBuffer
  BY ReceiveType, StateTypes, SizesType
<1>. QED  BY <1>1 DEF TypeOK

LEMMA TypeWorker ==
  ASSUME TypeOK, HandsAgree, NEW w \in Counters, WorkerStep(w) \/ StopperStep(w)
  PROVE  TypeOK'
<1>1. CASE TakeCommand(w)
  <2>1. /\ Head(commands[w]) \in Requests \cup {Nil}
        /\ commands' \in [Counters -> Seq(Requests \cup {Nil})]
        /\ \A v \in Counters : Len(commands'[v]) <= CommandBuffer
    BY <1>1, CommandsTail DEF TakeCommand
  <2>. QED  BY <1>1, <2>1 DEF TakeCommand, WorkerMoves, TypeOK, requestVars, distVars,
                              countVars, loopVars, failVars
<1>2. CASE TakeNil(w)
  <2>1. /\ commands' \in [Counters -> Seq(Requests \cup {Nil})]
        /\ \A v \in Counters : Len(commands'[v]) <= CommandBuffer
    BY <1>2, CommandsTail DEF TakeNil
  <2>2. /\ failure' \in [Counters -> FailureStates]
        /\ failing' \in [Counters -> 0 .. MaxCounter]
    <3>1. w \in 0 .. MaxCounter
      BY SizesType DEF Counters
    <3>. QED  BY <1>2, <3>1 DEF TakeNil, TypeOK, FailureStates
  <2>. QED  BY <1>2, <2>1, <2>2 DEF TakeNil, WorkerMoves, TypeOK, requestVars, distVars,
                              countVars, loopVars
<1>3. CASE Finish(w)
  <2>1. results' \in [Counters -> 0 .. ResultBuffer]
    BY <1>3, SizesType DEF Finish, Offered, TypeOK
  <2>2. hand[w] \in Requests
    BY <1>3 DEF Finish, WorkerMoves, HandsAgree, TypeOK
  <2>3. /\ hand' \in [Counters -> Requests \cup {Nil}] /\ handled' \subseteq Requests
    BY <1>3, <2>2 DEF Finish, TypeOK
  <2>. QED  BY <1>3, <2>1, <2>3 DEF Finish, WorkerMoves, TypeOK, requestVars, distVars,
                              countVars, loopVars, failVars
<1>4. CASE WorkerExits(w)
  BY <1>4 DEF WorkerExits, WorkerMoves, TypeOK, requestVars, distVars,
                              countVars, loopVars, failVars
<1>5. CASE Stopped(w)
  BY <1>5 DEF Stopped, WorkerMoves, TypeOK, requestVars, distVars, countVars, failVars
<1>6. CASE StopperGivesUp(w)
  BY <1>6 DEF StopperGivesUp, TypeOK, requestVars, distVars, countVars, workerVars, failVars
<1>. QED  BY <1>1, <1>2, <1>3, <1>4, <1>5, <1>6 DEF WorkerStep, StopperStep

LEMMA NotifyType ==
  ASSUME TypeOK, NEW event \in Counters \cup {Nil}, Notify(event)
  PROVE  workerEvents' \in Seq(Counters \cup {Nil}) /\ Len(workerEvents') <= EventBuffer
BY SendType, StateTypes, SizesType DEF Notify

LEMMA TypeMonitor ==
  ASSUME TypeOK, NEW w \in Counters, MonitorStep(w)
  PROVE  TypeOK'
<1>1. CASE ForwardResult(w)
  <2>1. results' \in [Counters -> 0 .. ResultBuffer]
    BY <1>1, SizesType DEF ForwardResult, TypeOK
  <2>2. workerEvents' \in Seq(Counters \cup {Nil}) /\ Len(workerEvents') <= EventBuffer
    BY <1>1, NotifyType DEF ForwardResult
  <2>. QED  BY <1>1, <2>1, <2>2 DEF ForwardResult, TypeOK, requestVars, distVars,
                              countVars, loopVars, failVars
<1>2. CASE ForwardShutdown(w)
  <2>2. workerEvents' \in Seq(Counters \cup {Nil}) /\ Len(workerEvents') <= EventBuffer
    BY <1>2, NotifyType DEF ForwardShutdown
  <2>. QED  BY <1>2, <2>2 DEF ForwardShutdown, TypeOK, requestVars, distVars,
                              countVars, loopVars, failVars, workerVars
<1>. QED  BY <1>1, <1>2 DEF MonitorStep

\* The steps of the supervisor and the ends of the three loops.
Loops ==
  \/ SupervisorStep \/ OnCancel(DistributorEnds) \/ OnCancel(HealthMonitorEnds)
  \/ Shutdown \/ Cancel

LEMMA TypeLoops == TypeOK /\ Loops => TypeOK'
<1>. SUFFICES ASSUME TypeOK, Loops PROVE TypeOK'
  OBVIOUS
<1>1. CASE HandleEvent
  <2>1. /\ workerEvents # <<>> /\ workerEvents' = Tail(workerEvents)
    BY <1>1 DEF HandleEvent
  <2>2. workerEvents' \in Seq(Counters \cup {Nil}) /\ Len(workerEvents') <= EventBuffer
    BY <2>1, ReceiveType, StateTypes, SizesType
  <2>3. /\ workers' \subseteq Counters /\ supervisor' \in {"loop", "cleaning", "exited"}
    BY <1>1 DEF HandleEvent, Cleans, TypeOK
  <2>. QED  BY <1>1, <2>2, <2>3 DEF HandleEvent, TypeOK, requestVars, distVars, countVars,
                                    failVars, workerVars
<1>2. CASE OnCancel(SupervisorEnds) \/ OnCancel(DistributorEnds)
           \/ OnCancel(HealthMonitorEnds) \/ Shutdown \/ Cancel
  BY <1>2 DEF OnCancel, Shutdown, Cancel, SupervisorEnds, DistributorEnds,
              HealthMonitorEnds, Ends, TypeOK, requestVars, countVars, workerVars,
              failVars, loopVars
<1>3. CASE CleanedUp
  BY <1>3 DEF CleanedUp, TypeOK, requestVars, distVars, failVars, workerVars
<1>. QED  BY <1>1, <1>2, <1>3 DEF Loops, SupervisorStep

LEMMA TypeFailure ==
  ASSUME TypeOK, NumbersFresh, NEW n \in Counters, FailureStep(n)
  PROVE  TypeOK'
<1>1. PICK from, to : Goes(n, from, to) /\ to \in FailureStates
  BY DEF FailureStep, Look, StopFailing, GiveUpFailing, Remove, Uncount, Size, Number, Place,
         Count, Announce, FailureStates
<1>2. /\ failure' \in [Counters -> FailureStates]
      /\ UNCHANGED <<requestVars, loopVars, distVars, handled, dropped, cancelled, fatal>>
  BY <1>1 DEF Goes, TypeOK
<1>3. CASE Look(n) \/ GiveUpFailing(n) \/ Size(n)
  BY <1>2, <1>3 DEF Look, GiveUpFailing, Size, TypeOK, requestVars, loopVars, distVars,
                    countVars, workerVars
<1>4. CASE StopFailing(n)
  BY <1>2, <1>4 DEF StopFailing, TypeOK, requestVars, loopVars, distVars, countVars
<1>5. CASE Remove(n) \/ Uncount(n) \/ Count(n)
  <2>1. workers' \subseteq Counters /\ activeWorkers' \in Int /\ UNCHANGED workerCounter
    BY <1>5 DEF Remove, Uncount, Count, TypeOK, countVars
  <2>2. UNCHANGED <<failing, workerVars, resultMonitor, workerEvents>>
    BY <1>5 DEF Remove, Uncount, Count
  <2>. QED  BY <1>2, <2>1, <2>2 DEF TypeOK, requestVars, loopVars, distVars, workerVars
<1>6. CASE Number(n)
  <2>1. workerCounter' \in 0 .. MaxCounter
    BY <1>6, StateTypes, SizesType DEF Number
  <2>2. failing' \in [Counters -> 0 .. MaxCounter]
    BY <1>6, <2>1 DEF Number, TypeOK
  <2>3. UNCHANGED <<workers, activeWorkers, workerVars, resultMonitor, workerEvents>>
    BY <1>6 DEF Number
  <2>. QED  BY <1>2, <2>1, <2>2, <2>3 DEF TypeOK, requestVars, loopVars, distVars, workerVars
<1>7. CASE Place(n)
  <2>1. failing[n] \in Counters
    BY <1>7 DEF Place, Goes, NumbersFresh
  <2>2. workers' \subseteq Counters
    BY <1>7, <2>1 DEF Place, TypeOK
  <2>3. /\ worker' \in [Counters -> {"none", "idle", "busy", "exited", "panicked"}]
        /\ resultMonitor' \in [Counters -> {"none", "running", "done"}]
    BY <1>7 DEF Place, TypeOK
  <2>4. UNCHANGED <<failing, countVars, commands, hand, results, workerEvents>>
    BY <1>7 DEF Place
  <2>. QED  BY <1>2, <2>2, <2>3, <2>4 DEF TypeOK, requestVars, loopVars, distVars, countVars
<1>8. CASE Announce(n)
  <2>1. workerEvents' \in Seq(Counters \cup {Nil}) /\ Len(workerEvents') <= EventBuffer
    BY <1>8, NotifyType DEF Announce
  <2>. QED  BY <1>2, <1>8, <2>1 DEF Announce, TypeOK, requestVars, loopVars, distVars,
                                    countVars, workerVars
<1>. QED  BY <1>3, <1>4, <1>5, <1>6, <1>7, <1>8 DEF FailureStep

-----------------------------------------------------------------------------
(* The hands of the workers and of the distributor *)

LEMMA HandsInit == Init => HandsAgree
<1>. SUFFICES ASSUME Init PROVE HandsAgree
  OBVIOUS
<1>1. \A w \in Counters : hand[w] # Nil <=> worker[w] = "busy"
  BY DEF Init
<1>2. \A w \in Counters : w > workerCounter => worker[w] = "none" /\ w \notin workers
  BY SizesType DEF Init, Counters
<1>. QED  BY <1>1, <1>2 DEF HandsAgree, Init

\* The steps of the workers and of those that stop them.
LEMMA HandsWorker ==
  ASSUME TypeOK, HandsAgree, NEW w \in Counters, WorkerStep(w) \/ StopperStep(w)
  PROVE  HandsAgree'
<1>1. UNCHANGED <<sending, distributor, workerCounter, workers>>
  BY DEF WorkerStep, StopperStep, TakeCommand, TakeNil, Finish, WorkerExits, Stopped,
         StopperGivesUp, WorkerMoves, distVars, countVars
<1>2. /\ \A v \in Counters : v # w => worker'[v] = worker[v] /\ hand'[v] = hand[v]
      /\ worker[w] = "none" => worker'[w] = "none"
      /\ \/ worker'[w] = "busy" /\ hand'[w] # Nil
         \/ worker'[w] # "busy" /\ hand'[w] = Nil
         \/ worker'[w] = worker[w] /\ hand'[w] = hand[w]
  BY DEF WorkerStep, StopperStep, TakeCommand, TakeNil, Finish, WorkerExits, Stopped,
         StopperGivesUp, WorkerMoves, TypeOK, HandsAgree, workerVars
<1>. QED  BY <1>1, <1>2 DEF HandsAgree

LEMMA HandsFailure ==
  ASSUME TypeOK, HandsAgree, NumbersFresh, NEW n \in Counters, FailureStep(n)
  PROVE  HandsAgree'
<1>1. UNCHANGED <<sending, distributor, hand>>
  BY DEF FailureStep, Look, StopFailing, GiveUpFailing, Remove, Uncount, Size, Number, Place,
         Count, Announce, Goes, distVars, workerVars
<1>2. CASE \/ Look(n) \/ GiveUpFailing(n) \/ Uncount(n) \/ Size(n) \/ Count(n)
           \/ Announce(n)
  BY <1>1, <1>2 DEF Look, GiveUpFailing, Uncount, Size, Count, Announce, HandsAgree,
                    countVars, workerVars
<1>3. CASE Remove(n)
  BY <1>1, <1>3 DEF Remove, HandsAgree, countVars, workerVars
<1>4. CASE StopFailing(n)
  <2>1. /\ UNCHANGED <<workers, workerCounter>>
        /\ \A v \in Counters : worker'[v] = worker[v] \/ (worker[v] = "idle" /\ worker'[v] = "exited")
    BY <1>4 DEF StopFailing, countVars, TypeOK
  <2>. QED  BY <1>1, <2>1 DEF HandsAgree
<1>5. CASE Number(n)
  <2>1. /\ workerCounter' = workerCounter + 1 /\ workerCounter \in Nat
        /\ UNCHANGED <<workers, worker>>
    BY <1>5, StateTypes DEF Number, workerVars
  <2>2. \A v \in Counters : v > workerCounter' => v > workerCounter
    BY <2>1 DEF Counters
  <2>. QED  BY <1>1, <2>1, <2>2 DEF HandsAgree
<1>6. CASE Place(n)
  <2>0. PICK id : id = failing[n]
    OBVIOUS
  <2>1. /\ id \in Counters /\ id <= workerCounter /\ worker[id] = "none"
    BY <1>6, <2>0 DEF Place, Goes, NumbersFresh
  <2>2. /\ UNCHANGED workerCounter /\ workers' = workers \cup {id}
        /\ worker'[id] = "idle" /\ \A v \in Counters : v # id => worker'[v] = worker[v]
    BY <1>6, <2>0, <2>1 DEF Place, countVars, TypeOK
  <2>3. \A v \in Counters : v > workerCounter => v # id
    BY <2>1, StateTypes DEF Counters
  <2>. QED  BY <1>1, <2>1, <2>2, <2>3 DEF HandsAgree
<1>. QED  BY <1>2, <1>3, <1>4, <1>5, <1>6 DEF FailureStep

LEMMA HandsDistributor ==
  ASSUME TypeOK, HandsAgree, DistributorStep
  PROVE  HandsAgree'
<1>1. UNCHANGED <<hand, worker, workers>> \/ SelectNoneForNil
  BY DEF DistributorStep, Select, SelectNone, Receives, Deliver, DeliverFails, Sent, workerVars
<1>2. CASE Select
  <2>1. /\ workerCounter' \in Counters /\ workerCounter' = workerCounter + 1
        /\ workerCounter \in Nat
    BY <1>2, ReceivedType, StateTypes DEF Select, Receives
  <2>2. /\ distributor' = "sending" /\ sending'.worker \in Counters
        /\ sending'.turn \in Counters
    BY <1>2, <2>1 DEF Select, Selectable, TypeOK
  <2>3. \A v \in Counters : v > workerCounter' => v > workerCounter
    BY <2>1 DEF Counters
  <2>4. UNCHANGED <<hand, worker, workers>>
    BY <1>2 DEF Select, Receives, workerVars
  <2>. QED  BY <2>2, <2>3, <2>4 DEF HandsAgree
<1>3. CASE SelectNone
  <2>1. /\ workerCounter' = workerCounter + 1 /\ workerCounter \in Nat
        /\ UNCHANGED <<distributor, sending, hand, worker, workers>>
    BY <1>3, StateTypes DEF SelectNone, Receives, workerVars
  <2>2. \A v \in Counters : v > workerCounter' => v > workerCounter
    BY <2>1 DEF Counters
  <2>. QED  BY <2>1, <2>2 DEF HandsAgree
<1>4. CASE SelectNoneForNil
  BY <1>4 DEF SelectNoneForNil, Dies, HandsAgree, distVars, workerVars, countVars
<1>5. CASE Deliver \/ DeliverFails
  BY <1>5 DEF Deliver, DeliverFails, Sent, HandsAgree, countVars
<1>. QED  BY <1>2, <1>3, <1>4, <1>5 DEF DistributorStep

\* The other steps have nothing to do with hands.
LEMMA HandsElse ==
  ASSUME TypeOK, HandsAgree,
         \/ Submit \/ Dies \/ Loops
         \/ \E w \in Counters : MonitorStep(w)
  PROVE  HandsAgree'
<1>1. CASE Submit \/ Dies \/ \E w \in Counters : MonitorStep(w)
  BY <1>1 DEF Submit, Dies, MonitorStep, ForwardResult, ForwardShutdown, HandsAgree,
              distVars, countVars, workerVars
<1>2. CASE HandleEvent
  BY <1>2 DEF HandleEvent, Cleans, HandsAgree, distVars, countVars, workerVars
<1>3. CASE OnCancel(SupervisorEnds) \/ OnCancel(DistributorEnds)
           \/ OnCancel(HealthMonitorEnds) \/ Shutdown \/ Cancel
  <2>1. UNCHANGED <<sending, hand, worker, workers, workerCounter>>
    BY <1>3 DEF OnCancel, Shutdown, Cancel, SupervisorEnds, DistributorEnds,
                HealthMonitorEnds, Ends, countVars, workerVars
  <2>2. distributor' = distributor \/ (distributor = "loop" /\ distributor' = "exited")
    BY <1>3 DEF OnCancel, Shutdown, Cancel, SupervisorEnds, DistributorEnds,
                HealthMonitorEnds
  <2>. QED  BY <2>1, <2>2 DEF HandsAgree
<1>4. CASE CleanedUp
  BY <1>4 DEF CleanedUp, HandsAgree, distVars, workerVars
<1>. QED  BY <1>1, <1>2, <1>3, <1>4 DEF Loops, SupervisorStep

-----------------------------------------------------------------------------
(* The numbers of the turns and of the workers *)

LEMMA FreshInit == Init => NumbersFresh
BY DEF Init, NumbersFresh

LEMMA FreshDistributor ==
  ASSUME TypeOK, HandsAgree, NumbersFresh, DistributorStep
  PROVE  NumbersFresh'
<1>1. CASE Select \/ SelectNone
  <2>0. PICK t : t = workerCounter + 1
    OBVIOUS
  <2>1. /\ t \in Counters /\ t = workerCounter + 1 /\ workerCounter' = t /\ workerCounter \in Nat
        /\ UNCHANGED <<failure, failing, worker, workers>>
    BY <1>1, <2>0, StateTypes, SizesType
       DEF Select, SelectNone, Receives, Counters, failVars, workerVars
  <2>2. /\ distributor = "loop"
        /\ distributor' = "sending" => sending'.turn = t
    BY <1>1, <2>1 DEF Select, SelectNone, Receives
  <2>3. \A n \in Counters : n <= workerCounter => n <= t /\ n # t
    BY <2>1 DEF Counters
  <2>4. failure[t] = "none" /\ worker[t] = "none"
    <3>1. t > workerCounter /\ ~(t <= workerCounter)
      BY <2>1
    <3>. QED  BY <2>1, <3>1 DEF NumbersFresh, HandsAgree
  <2>5. t <= workerCounter'
    BY <2>1
  <2>. QED  BY <2>1, <2>2, <2>3, <2>4, <2>5 DEF NumbersFresh
<1>2. CASE SelectNoneForNil
  BY <1>2 DEF SelectNoneForNil, Dies, NumbersFresh, distVars, workerVars, countVars, failVars
<1>3. CASE Deliver
  BY <1>3 DEF Deliver, Sent, NumbersFresh, countVars, failVars
<1>4. CASE DeliverFails
  <2>0. PICK t : t = sending.turn
    OBVIOUS
  <2>1. /\ t \in Counters /\ t <= workerCounter /\ worker[t] = "none"
        /\ \A n \in Counters : failure[n] = "placing" => failing[n] # t
    BY <1>4, <2>0 DEF DeliverFails, Sent, NumbersFresh, HandsAgree
  <2>2. /\ failure'[t] = "looking" /\ distributor' = "loop"
        /\ \A n \in Counters : n # t => failure'[n] = failure[n] /\ failing'[n] = failing[n]
        /\ UNCHANGED <<workerCounter, worker, workers>>
    BY <1>4, <2>0, <2>1 DEF DeliverFails, Sent, TypeOK, countVars
  <2>. QED  BY <2>1, <2>2 DEF NumbersFresh
<1>. QED  BY <1>1, <1>2, <1>3, <1>4 DEF DistributorStep

\* A worker that fails does so once; the steps of the workers leave the numbers.
LEMMA FreshWorker ==
  ASSUME TypeOK, HandsAgree, NumbersFresh, NEW w \in Counters, WorkerStep(w) \/ StopperStep(w)
  PROVE  NumbersFresh'
<1>1. UNCHANGED <<sending, distributor, workerCounter, workers>>
  BY DEF WorkerStep, StopperStep, TakeCommand, TakeNil, Finish, WorkerExits, Stopped,
         StopperGivesUp, WorkerMoves, distVars, countVars
<1>2. CASE TakeNil(w)
  <2>1. /\ worker[w] = "idle" /\ worker'[w] = "panicked" /\ failure'[w] = "looking"
        /\ \A v \in Counters : v # w =>
             worker'[v] = worker[v] /\ failure'[v] = failure[v] /\ failing'[v] = failing[v]
    BY <1>2 DEF TakeNil, WorkerMoves, TypeOK
  <2>2. ~(w > workerCounter)
    BY <2>1 DEF HandsAgree
  <2>3. w <= workerCounter
    BY <2>2, StateTypes DEF Counters
  <2>4. ASSUME distributor = "sending"
        PROVE  sending.turn \in Counters /\ sending.turn # w
    BY <2>1, <2>4 DEF NumbersFresh, HandsAgree
  <2>. QED  BY <1>1, <2>1, <2>3, <2>4 DEF NumbersFresh
<1>3. CASE ~TakeNil(w)
  <2>1. /\ UNCHANGED <<failure, failing>>
        /\ \A v \in Counters :
             \/ worker'[v] = worker[v]
             \/ worker[v] \notin {"none", "panicked"}
    BY <1>3 DEF WorkerStep, StopperStep, TakeCommand, Finish, WorkerExits, Stopped,
                StopperGivesUp, WorkerMoves, TypeOK, failVars, workerVars
  <2>2. ASSUME distributor = "sending"
        PROVE  sending.turn \in Counters
    BY <2>2 DEF HandsAgree
  <2>. QED  BY <1>1, <2>1, <2>2 DEF NumbersFresh
<1>. QED  BY <1>2, <1>3

LEMMA FreshFailure ==
  ASSUME TypeOK, HandsAgree, NumbersFresh, NEW n \in Counters, FailureStep(n)
  PROVE  NumbersFresh'
<1>1. UNCHANGED <<sending, distributor>>
  BY DEF FailureStep, Look, StopFailing, GiveUpFailing, Remove, Uncount, Size, Number, Place,
         Count, Announce, Goes, distVars
<1>2. /\ failure[n] # "none" /\ failure'[n] # "none"
      /\ \A m \in Counters : m # n => failure'[m] = failure[m]
      /\ failure'[n] = "placing" => Number(n)
  BY DEF FailureStep, Look, StopFailing, GiveUpFailing, Remove, Uncount, Size, Number, Place,
         Count, Announce, Goes, TypeOK
<1>3. ASSUME distributor = "sending"
      PROVE  sending.turn \in Counters /\ sending.turn # n
  BY <1>2, <1>3 DEF NumbersFresh, HandsAgree
<1>4. CASE \/ Look(n) \/ StopFailing(n) \/ GiveUpFailing(n) \/ Remove(n) \/ Uncount(n)
           \/ Size(n) \/ Count(n) \/ Announce(n)
  <2>1. /\ UNCHANGED <<failing, workerCounter>> /\ workers' \subseteq workers
        /\ failure'[n] # "placing"
    BY <1>4 DEF Look, StopFailing, GiveUpFailing, Remove, Uncount, Size, Count, Announce,
                Goes, TypeOK, countVars
  <2>2. \A v \in Counters : worker'[v] = worker[v] \/ worker[v] \notin {"none", "panicked"}
    BY <1>4 DEF Look, StopFailing, GiveUpFailing, Remove, Uncount, Size, Count, Announce,
                TypeOK, workerVars
  <2>. QED  BY <1>1, <1>2, <1>3, <2>1, <2>2 DEF NumbersFresh
<1>5. CASE Number(n)
  <2>0. PICK id : id = workerCounter + 1
    OBVIOUS
  <2>1. /\ id \in Counters /\ id = workerCounter + 1 /\ workerCounter' = id /\ workerCounter \in Nat
        /\ UNCHANGED <<worker, workers>>
    BY <1>5, <2>0, StateTypes, SizesType DEF Number, Counters, workerVars
  <2>2. failing'[n] = id /\ \A m \in Counters : m # n => failing'[m] = failing[m]
    BY <1>5, <2>1 DEF Number, TypeOK
  <2>3. \A m \in Counters : m <= workerCounter => m <= id /\ m # id
    BY <2>1 DEF Counters
  <2>4. /\ failure[id] = "none" /\ worker[id] = "none" /\ id \notin workers /\ id # n
    <3>1. id > workerCounter /\ ~(id <= workerCounter)
      BY <2>1
    <3>. QED  BY <1>2, <2>1, <3>1 DEF NumbersFresh, HandsAgree
  <2>5. id <= workerCounter'
    BY <2>1
  <2>6. \A m \in Counters : failure'[m] # "none" =>
          m <= workerCounter' /\ worker'[m] \in {"none", "panicked"}
    BY <1>2, <2>1, <2>3 DEF NumbersFresh
  <2>7. distributor' = "sending" =>
          /\ sending'.turn <= workerCounter' /\ sending'.turn # id
          /\ failure'[sending'.turn] = "none" /\ worker'[sending'.turn] = "none"
    BY <1>1, <1>2, <1>3, <2>1, <2>3 DEF NumbersFresh
  <2>8. /\ failing'[n] \in Counters /\ failing'[n] <= workerCounter' /\ failing'[n] \notin workers'
        /\ worker'[failing'[n]] = "none" /\ failure'[failing'[n]] = "none"
        /\ distributor' = "sending" => sending'.turn # failing'[n]
    BY <1>2, <2>1, <2>2, <2>4, <2>5, <2>7
  <2>9. ASSUME NEW m \in Counters, m # n, failure'[m] = "placing"
        PROVE  /\ failing'[m] \in Counters /\ failing'[m] <= workerCounter'
               /\ failing'[m] \notin workers' /\ failing'[m] # id
               /\ worker'[failing'[m]] = "none" /\ failure'[failing'[m]] = "none"
               /\ distributor' = "sending" => sending'.turn # failing'[m]
               /\ \A k \in Counters \ {m, n} : failure'[k] = "placing" => failing'[k] # failing'[m]
    <3>1. failure[m] = "placing" /\ failing'[m] = failing[m]
      BY <1>2, <2>2, <2>9
    <3>2. failing[m] # n
      BY <1>2, <3>1 DEF NumbersFresh
    <3>3. /\ failing[m] \in Counters /\ failing[m] <= workerCounter /\ failing[m] \notin workers
          /\ worker[failing[m]] = "none" /\ failure[failing[m]] = "none"
          /\ distributor = "sending" => sending.turn # failing[m]
      BY <3>1 DEF NumbersFresh
    <3>4. failing[m] <= id /\ failing[m] # id /\ failure'[failing[m]] = "none"
      BY <1>2, <2>3, <3>2, <3>3
    <3>5. ASSUME NEW k \in Counters, k # m, k # n, failure'[k] = "placing"
          PROVE  failing'[k] # failing[m]
      BY <1>2, <2>2, <3>1, <3>5 DEF NumbersFresh
    <3>. QED  BY <1>1, <2>1, <3>1, <3>3, <3>4, <3>5
  <2>. QED  BY <2>2, <2>6, <2>7, <2>8, <2>9 DEF NumbersFresh
<1>6. CASE Place(n)
  <2>0. PICK id : id = failing[n]
    OBVIOUS
  <2>1. /\ id \in Counters /\ failure[n] = "placing" /\ failure'[n] = "counting"
        /\ failure[id] = "none"
        /\ distributor = "sending" => sending.turn # id
        /\ \A m \in Counters \ {n} : failure[m] = "placing" => failing[m] # id
    BY <1>6, <2>0 DEF Place, Goes, NumbersFresh, TypeOK
  <2>2. /\ UNCHANGED <<workerCounter, failing>> /\ workers' = workers \cup {id}
        /\ \A v \in Counters : v # id => worker'[v] = worker[v]
    BY <1>6, <2>0, <2>1 DEF Place, countVars, TypeOK
  <2>. QED  BY <1>1, <1>2, <1>3, <2>1, <2>2 DEF NumbersFresh
<1>. QED  BY <1>4, <1>5, <1>6 DEF FailureStep

\* The other steps leave the numbers alone, and the table at most loses a worker.
LEMMA FreshElse ==
  ASSUME TypeOK, NumbersFresh,
         \/ Submit \/ Dies \/ Loops
         \/ \E w \in Counters : MonitorStep(w)
  PROVE  NumbersFresh'
<1>1. /\ UNCHANGED <<sending, worker, workerCounter, failure, failing>>
      /\ workers' \subseteq workers
      /\ distributor' = "sending" => distributor = "sending"
  BY DEF Submit, Dies, MonitorStep, ForwardResult, ForwardShutdown, Loops, SupervisorStep,
         HandleEvent, Cleans, CleanedUp, OnCancel, Shutdown, Cancel, SupervisorEnds,
         DistributorEnds, HealthMonitorEnds, Ends, distVars, countVars, workerVars, failVars
<1>. QED  BY <1>1 DEF NumbersFresh

-----------------------------------------------------------------------------
(* Every request in one place *)

LEMMA ApartInit == Init => EachApart
<1>. SUFFICES ASSUME Init PROVE EachApart
  OBVIOUS
<1>1. /\ Range(requests) = {} /\ \A w \in Counters : Range(commands[w]) = {}
      /\ Once(requests) /\ \A w \in Counters : Once(commands[w])
  BY EmptyContents DEF Init, Once
<1>2. /\ \A w \in Counters : hand[w] = 0
      /\ sending.request = 0 /\ handled = {} /\ dropped = {} /\ accepted = 0
  BY DEF Init, Nil, NoSend
<1>3. \A r \in Requests : r # 0 /\ ~(r <= 0)
  BY DEF Requests
<1>. QED  BY <1>1, <1>2, <1>3 DEF EachApart, Apart, Located, Commanded

LEMMA ApartKept == EachApart /\ UNCHANGED Data => EachApart'
BY DEF EachApart, Data, Apart, Located, Commanded, Once

LEMMA ApartSubmit ==
  ASSUME TypeOK, EachApart, Submit
  PROVE  EachApart'
<1>0. PICK r : r = accepted'
  OBVIOUS
<1>1. /\ r \in Requests /\ r = accepted + 1 /\ accepted \in Nat /\ ~(r <= accepted)
  BY <1>0, StateTypes, SizesType DEF Submit, Requests
<1>2. /\ requests' = Append(requests, r)
      /\ UNCHANGED <<commands, hand, sending, handled, dropped>>
  BY <1>0 DEF Submit, workerVars, distVars
<1>3. ~Located(r)
  BY <1>1 DEF EachApart
<1>4. /\ Once(requests') /\ Range(requests') = Range(requests) \cup {r}
  BY <1>1, <1>2, <1>3, OnceAppend, StateTypes DEF EachApart, Located
<1>5. \A w \in Counters : Once(commands'[w]) /\ Commanded(w)' = Commanded(w)
  BY <1>2 DEF EachApart, Commanded
<1>6. ASSUME NEW q \in Requests  PROVE Apart(q)' /\ (q <= accepted' <=> Located(q)')
  <2>1. CASE q = r
    BY <1>0, <1>1, <1>2, <1>3, <1>4, <1>5, <2>1 DEF Apart, Located
  <2>2. CASE q # r
    <3>1. q <= accepted' <=> q <= accepted
      BY <1>0, <1>1, <2>2 DEF Requests
    <3>. QED  BY <1>2, <1>4, <1>5, <2>2, <3>1 DEF EachApart, Apart, Located
  <2>. QED  BY <2>1, <2>2
<1>. QED  BY <1>4, <1>5, <1>6 DEF EachApart

\* What the distributor receives has left the channel.
LEMMA ReceivesMoves ==
  ASSUME TypeOK, EachApart, Receives
  PROVE  /\ Once(requests') /\ Received \in Requests \cup {Nil}
         /\ Received # Nil => Received \in Range(requests)
         /\ Range(requests') = Range(requests) \ {Received}
         /\ UNCHANGED <<accepted, commands, hand, handled>>
<1>1. UNCHANGED <<accepted, commands, hand, handled>>
  BY DEF Receives, workerVars
<1>2. CASE requests = <<>>
  BY <1>1, <1>2, EmptyContents DEF Receives, Received, EachApart
<1>3. CASE requests # <<>>
  <2>1. /\ Received = Head(requests) /\ requests' = Tail(requests)
    BY <1>3 DEF Receives, Received
  <2>2. /\ Once(Tail(requests)) /\ Head(requests) \in Range(requests)
        /\ Range(Tail(requests)) \ {Nil} = (Range(requests) \ {Nil}) \ {Head(requests)}
    BY <1>3, OnceTail, StateTypes DEF EachApart
  <2>3. Nil \notin Range(requests) /\ Nil \notin Range(Tail(requests))
    <3>1. Tail(requests) \in Seq(Requests)
      BY <1>3, ReceiveType, StateTypes
    <3>. QED  BY <3>1, ContentsType, StateTypes, SizesType
  <2>4. Head(requests) \in Requests
    BY <2>2, StateTypes
  <2>. QED  BY <1>1, <2>1, <2>2, <2>3, <2>4
<1>. QED  BY <1>2, <1>3

LEMMA ApartDistributor ==
  ASSUME TypeOK, HandsAgree, EachApart, DistributorStep
  PROVE  EachApart'
<1>0. Nil \notin Requests
  BY SizesType
<1>1. CASE Select
  <2>0. PICK x : x = Received
    OBVIOUS
  <2>1. /\ Once(requests') /\ x \in Requests \cup {Nil}
        /\ x # Nil => x \in Range(requests)
        /\ Range(requests') = Range(requests) \ {x}
        /\ UNCHANGED <<accepted, commands, hand, handled, dropped>>
    BY <1>1, <2>0, ReceivesMoves DEF Select
  <2>2. sending.request = Nil /\ sending'.request = x
    BY <1>1, <2>0 DEF Select, Receives, HandsAgree, NoSend
  <2>3. \A w \in Counters : Once(commands'[w]) /\ Commanded(w)' = Commanded(w)
    BY <2>1 DEF EachApart, Commanded
  <2>4. ASSUME NEW q \in Requests  PROVE Apart(q)' /\ (q <= accepted' <=> Located(q)')
    BY <1>0, <2>1, <2>2, <2>3 DEF EachApart, Apart, Located
  <2>. QED  BY <2>1, <2>3, <2>4 DEF EachApart
<1>2. CASE SelectNone
  <2>0. PICK x : x = Received
    OBVIOUS
  <2>1. /\ Once(requests') /\ x \in Requests /\ x \in Range(requests)
        /\ Range(requests') = Range(requests) \ {x}
        /\ UNCHANGED <<accepted, commands, hand, handled, sending>>
        /\ dropped' = dropped \cup {x}
    BY <1>2, <2>0, ReceivesMoves DEF SelectNone
  <2>3. \A w \in Counters : Once(commands'[w]) /\ Commanded(w)' = Commanded(w)
    BY <2>1 DEF EachApart, Commanded
  <2>4. ASSUME NEW q \in Requests  PROVE Apart(q)' /\ (q <= accepted' <=> Located(q)')
    BY <1>0, <2>1, <2>3 DEF EachApart, Apart, Located
  <2>. QED  BY <2>1, <2>3, <2>4 DEF EachApart
<1>3. CASE SelectNoneForNil
  BY <1>3, ApartKept DEF SelectNoneForNil, Dies, Data, requestVars, workerVars, distVars
<1>4. CASE Deliver
  <2>0. PICK x, w : x = sending.request /\ w = sending.worker
    OBVIOUS
  <2>1. w \in Counters /\ x \in Requests \cup {Nil}
    BY <1>4, <2>0 DEF Deliver, Sent, HandsAgree, TypeOK
  <2>2. /\ commands' = [commands EXCEPT ![w] = Append(@, x)]
        /\ sending'.request = Nil
        /\ UNCHANGED <<accepted, requests, hand, handled, dropped>>
    BY <1>4, <2>0 DEF Deliver, Sent, NoSend, requestVars
  <2>3. x = Nil \/ (x \in Requests /\ x \notin Range(commands[w]))
    BY <2>0, <2>1 DEF EachApart, Apart, Commanded
  <2>4. /\ commands'[w] = Append(commands[w], x)
        /\ \A v \in Counters : v # w => commands'[v] = commands[v]
    BY <2>1, <2>2 DEF TypeOK
  <2>5. Once(Append(commands[w], x)) /\ Range(Append(commands[w], x)) = Range(commands[w]) \cup {x}
    BY <2>1, <2>3, OnceAppend, StateTypes DEF EachApart
  <2>6. /\ Commanded(w)' = Commanded(w) \cup ({x} \ {Nil})
        /\ \A v \in Counters : v # w => Commanded(v)' = Commanded(v)
    BY <2>1, <2>4, <2>5 DEF Commanded
  <2>7. \A v \in Counters : Once(commands'[v])
    BY <2>4, <2>5 DEF EachApart
  <2>8. ASSUME NEW q \in Requests  PROVE Apart(q)' /\ (q <= accepted' <=> Located(q)')
    BY <1>0, <2>0, <2>1, <2>2, <2>6 DEF EachApart, Apart, Located
  <2>. QED  BY <2>2, <2>7, <2>8 DEF EachApart
<1>5. CASE DeliverFails
  <2>0. PICK x : x = sending.request
    OBVIOUS
  <2>1. /\ sending'.request = Nil /\ dropped' = dropped \cup ({x} \ {Nil})
        /\ UNCHANGED <<accepted, requests, commands, hand, handled>>
    BY <1>5, <2>0 DEF DeliverFails, Sent, NoSend, requestVars
  <2>2. \A w \in Counters : Once(commands'[w]) /\ Commanded(w)' = Commanded(w)
    BY <2>1 DEF EachApart, Commanded
  <2>3. ASSUME NEW q \in Requests  PROVE Apart(q)' /\ (q <= accepted' <=> Located(q)')
    BY <1>0, <2>0, <2>1, <2>2 DEF EachApart, Apart, Located
  <2>. QED  BY <2>1, <2>2, <2>3 DEF EachApart
<1>. QED  BY <1>1, <1>2, <1>3, <1>4, <1>5 DEF DistributorStep

LEMMA ApartWorker ==
  ASSUME TypeOK, HandsAgree, EachApart, NEW w \in Counters, WorkerStep(w) \/ StopperStep(w)
  PROVE  EachApart'
<1>0. Nil \notin Requests
  BY SizesType
<1>1. CASE TakeCommand(w) \/ TakeNil(w)
  <2>0. PICK x : x = Head(commands[w])
    OBVIOUS
  <2>1. /\ commands[w] # <<>> /\ commands' = [commands EXCEPT ![w] = Tail(@)]
        /\ hand[w] = Nil
        /\ UNCHANGED <<accepted, requests, sending, handled, dropped>>
    BY <1>1 DEF TakeCommand, TakeNil, WorkerMoves, HandsAgree, requestVars, distVars
  <2>2. hand'[w] = x /\ \A v \in Counters : v # w => hand'[v] = hand[v]
    BY <1>1, <2>0, <2>1 DEF TakeCommand, TakeNil, TypeOK
  <2>3. /\ commands'[w] = Tail(commands[w])
        /\ \A v \in Counters : v # w => commands'[v] = commands[v]
    BY <2>1 DEF TypeOK
  <2>4. /\ Once(Tail(commands[w])) /\ x \in Range(commands[w])
        /\ Range(Tail(commands[w])) \ {Nil} = (Range(commands[w]) \ {Nil}) \ {x}
    BY <2>0, <2>1, OnceTail, StateTypes DEF EachApart
  <2>5. /\ Commanded(w)' = Commanded(w) \ {x}
        /\ x # Nil => x \in Commanded(w)
        /\ \A v \in Counters : v # w => Commanded(v)' = Commanded(v)
    BY <2>3, <2>4 DEF Commanded
  <2>6. \A v \in Counters : Once(commands'[v])
    BY <2>3, <2>4 DEF EachApart
  <2>7. ASSUME NEW q \in Requests  PROVE Apart(q)' /\ (q <= accepted' <=> Located(q)')
    BY <1>0, <2>1, <2>2, <2>5 DEF EachApart, Apart, Located
  <2>. QED  BY <2>1, <2>6, <2>7 DEF EachApart
<1>2. CASE Finish(w)
  <2>0. PICK x : x = hand[w]
    OBVIOUS
  <2>1. /\ x \in Requests /\ x # Nil /\ handled' = handled \cup {x}
        /\ UNCHANGED <<accepted, requests, commands, sending, dropped>>
    BY <1>2, <2>0 DEF Finish, WorkerMoves, HandsAgree, TypeOK, requestVars, distVars
  <2>2. hand'[w] = Nil /\ \A v \in Counters : v # w => hand'[v] = hand[v]
    BY <1>2 DEF Finish, TypeOK
  <2>3. \A v \in Counters : Once(commands'[v]) /\ Commanded(v)' = Commanded(v)
    BY <2>1 DEF EachApart, Commanded
  <2>4. ASSUME NEW q \in Requests  PROVE Apart(q)' /\ (q <= accepted' <=> Located(q)')
    BY <1>0, <2>0, <2>1, <2>2, <2>3 DEF EachApart, Apart, Located
  <2>. QED  BY <2>1, <2>3, <2>4 DEF EachApart
<1>3. CASE WorkerExits(w) \/ Stopped(w) \/ StopperGivesUp(w)
  BY <1>3, ApartKept DEF WorkerExits, Stopped, StopperGivesUp, WorkerMoves, Data,
                         requestVars, distVars, workerVars
<1>. QED  BY <1>1, <1>2, <1>3 DEF WorkerStep, StopperStep

\* All other steps move no request.
LEMMA ApartElse ==
  ASSUME EachApart,
         \/ Dies \/ Loops
         \/ \E w \in Counters : MonitorStep(w) \/ FailureStep(w)
  PROVE  EachApart'
<1>1. UNCHANGED Data
  BY DEF Dies, Loops, SupervisorStep, HandleEvent, CleanedUp, OnCancel, Shutdown, Cancel,
         SupervisorEnds, DistributorEnds, HealthMonitorEnds, Ends, MonitorStep,
         ForwardResult, ForwardShutdown, FailureStep, Look, StopFailing, GiveUpFailing,
         Remove, Uncount, Size, Number, Place, Count, Announce, Goes, Data, requestVars,
         distVars, workerVars
<1>. QED  BY <1>1, ApartKept

-----------------------------------------------------------------------------
(* The count of the workers *)

LEMMA WorkersFinite ==
  ASSUME TypeOK
  PROVE  IsFiniteSet(workers) /\ Cardinality(workers) \in Nat
<1>1. IsFiniteSet(Counters)
  BY FS_Interval, SizesType DEF Counters
<1>. QED  BY <1>1, FS_Subset, FS_CardinalityType DEF TypeOK

LEMMA ActiveInit == Init => ActiveNeverOvercounted
<1>. SUFFICES ASSUME Init PROVE ActiveNeverOvercounted
  OBVIOUS
<1>1. Cardinality(1 .. MaxWorkers) = MaxWorkers
  BY FS_Interval, SizesType
<1>2. Uncounting = {} /\ Counting = {}
  BY DEF Init, Uncounting, Counting
<1>. QED  BY <1>1, <1>2, FS_EmptySet, SizesType DEF Init, ActiveNeverOvercounted

\* The goroutines between the table and the count are finitely many.
LEMMA BetweenFinite ==
  ASSUME TypeOK
  PROVE  /\ IsFiniteSet(Uncounting) /\ Cardinality(Uncounting) \in Nat
         /\ IsFiniteSet(Counting) /\ Cardinality(Counting) \in Nat
<1>1. IsFiniteSet(Counters)
  BY FS_Interval, SizesType DEF Counters
<1>. QED  BY <1>1, FS_Subset, FS_CardinalityType DEF Uncounting, Counting

\* The step of one goroutine takes only that goroutine in or out.
LEMMA BetweenStep ==
  ASSUME TypeOK, NEW n \in Counters,
         \A m \in Counters : m # n => failure'[m] = failure[m]
  PROVE  /\ Uncounting' = IF failure'[n] = "uncounting" THEN Uncounting \cup {n}
                                                        ELSE Uncounting \ {n}
         /\ Counting' = IF failure'[n] = "counting" THEN Counting \cup {n} ELSE Counting \ {n}
         /\ n \in Uncounting <=> failure[n] = "uncounting"
         /\ n \in Counting <=> failure[n] = "counting"
BY DEF Uncounting, Counting

LEMMA OneWorkerLess ==
  ASSUME TypeOK, NEW w
  PROVE  /\ Cardinality(workers \ {w}) \in Nat
         /\ Cardinality(workers \ {w}) >= Cardinality(workers) - 1
<1>1. CASE w \in workers
  BY <1>1, WorkersFinite, OneLess, FS_CardinalityType
<1>2. CASE w \notin workers
  <2>1. workers \ {w} = workers
    BY <1>2
  <2>. QED  BY <2>1, WorkersFinite
<1>. QED  BY <1>1, <1>2

\* What none of the four sums sees.
LEMMA ActiveKept ==
  ASSUME ActiveNeverOvercounted,
         UNCHANGED <<workers, activeWorkers, Uncounting, Counting>>,
         (supervisor' = "cleaning") <=> (supervisor = "cleaning")
  PROVE  ActiveNeverOvercounted'
BY DEF ActiveNeverOvercounted

LEMMA ActiveFailure ==
  ASSUME TypeOK, NumbersFresh, ActiveNeverOvercounted, NEW n \in Counters, FailureStep(n)
  PROVE  ActiveNeverOvercounted'
<1>. DEFINE c == IF supervisor = "cleaning" THEN 1 ELSE 0
<1>1. /\ UNCHANGED supervisor /\ c \in Nat /\ activeWorkers \in Int
      /\ Cardinality(workers) \in Nat
      /\ Cardinality(Uncounting) \in Nat /\ Cardinality(Counting) \in Nat
      /\ activeWorkers + Cardinality(Counting)
           <= Cardinality(workers) + Cardinality(Uncounting) + c
  BY WorkersFinite, BetweenFinite
     DEF FailureStep, Look, StopFailing, GiveUpFailing, Remove, Uncount, Size, Number, Place,
         Count, Announce, Goes, loopVars, TypeOK, ActiveNeverOvercounted
<1>2. CASE Remove(n)
  <2>0. /\ failure[n] = "removing" /\ failure'[n] = "uncounting"
        /\ \A m \in Counters : m # n => failure'[m] = failure[m]
    BY <1>2 DEF Remove, Goes, TypeOK
  <2>1. /\ n \notin Uncounting /\ Uncounting' = Uncounting \cup {n} /\ Counting' = Counting
    BY <2>0, BetweenStep
  <2>2. Cardinality(Uncounting') = Cardinality(Uncounting) + 1
    BY <2>1, BetweenFinite, OneMore
  <2>3. /\ UNCHANGED activeWorkers /\ Cardinality(workers') \in Nat
        /\ Cardinality(workers') >= Cardinality(workers) - 1
    BY <1>2, OneWorkerLess DEF Remove, countVars
  <2>. QED  BY <1>1, <2>1, <2>2, <2>3 DEF ActiveNeverOvercounted
<1>3. CASE Uncount(n)
  <2>0. /\ failure[n] = "uncounting" /\ failure'[n] = "sizing"
        /\ \A m \in Counters : m # n => failure'[m] = failure[m]
    BY <1>3 DEF Uncount, Goes, TypeOK
  <2>1. n \in Uncounting /\ Uncounting' = Uncounting \ {n} /\ Counting' = Counting
    BY <2>0, BetweenStep
  <2>2. Cardinality(Uncounting') = Cardinality(Uncounting) - 1
    BY <2>1, BetweenFinite, OneLess
  <2>3. UNCHANGED workers /\ activeWorkers' = activeWorkers - 1
    BY <1>3 DEF Uncount
  <2>. QED  BY <1>1, <2>1, <2>2, <2>3 DEF ActiveNeverOvercounted
<1>4. CASE Place(n)
  <2>0. /\ failure[n] = "placing" /\ failure'[n] = "counting"
        /\ \A m \in Counters : m # n => failure'[m] = failure[m]
    BY <1>4 DEF Place, Goes, TypeOK
  <2>1. n \notin Counting /\ Counting' = Counting \cup {n} /\ Uncounting' = Uncounting
    BY <2>0, BetweenStep
  <2>2. Cardinality(Counting') = Cardinality(Counting) + 1
    BY <2>1, BetweenFinite, OneMore
  <2>3. UNCHANGED activeWorkers /\ workers' = workers \cup {failing[n]}
        /\ failing[n] \notin workers
    BY <1>4 DEF Place, Goes, countVars, NumbersFresh
  <2>4. Cardinality(workers') = Cardinality(workers) + 1
    BY <2>3, WorkersFinite, OneMore
  <2>. QED  BY <1>1, <2>1, <2>2, <2>3, <2>4 DEF ActiveNeverOvercounted
<1>5. CASE Count(n)
  <2>0. /\ failure[n] = "counting" /\ failure'[n] = "notifying"
        /\ \A m \in Counters : m # n => failure'[m] = failure[m]
    BY <1>5 DEF Count, Goes, TypeOK
  <2>1. n \in Counting /\ Counting' = Counting \ {n} /\ Uncounting' = Uncounting
    BY <2>0, BetweenStep
  <2>2. Cardinality(Counting') = Cardinality(Counting) - 1
    BY <2>1, BetweenFinite, OneLess
  <2>3. UNCHANGED workers /\ activeWorkers' = activeWorkers + 1
    BY <1>5 DEF Count
  <2>. QED  BY <1>1, <2>1, <2>2, <2>3 DEF ActiveNeverOvercounted
<1>6. CASE \/ Look(n) \/ StopFailing(n) \/ GiveUpFailing(n) \/ Size(n) \/ Number(n)
           \/ Announce(n)
  <2>1. UNCHANGED <<workers, activeWorkers>>
    BY <1>6 DEF Look, StopFailing, GiveUpFailing, Size, Number, Announce, countVars
  <2>2. PICK from \in FailureStates \ {"uncounting", "counting"},
             to \in FailureStates \ {"uncounting", "counting"} : Goes(n, from, to)
    BY <1>6 DEF Look, StopFailing, GiveUpFailing, Size, Number, Announce, FailureStates
  <2>3. failure[n] = from /\ failure'[n] = to /\ \A m \in Counters : m # n => failure'[m] = failure[m]
    BY <2>2 DEF Goes, TypeOK
  <2>4. UNCHANGED <<Uncounting, Counting>>
    BY <2>2, <2>3, BetweenStep
  <2>. QED  BY <1>1, <2>1, <2>4, ActiveKept
<1>. QED  BY <1>2, <1>3, <1>4, <1>5, <1>6 DEF FailureStep

LEMMA ActiveStep ==
  ASSUME TypeOK, HandsAgree, NumbersFresh, ActiveNeverOvercounted, [Next]_vars
  PROVE  ActiveNeverOvercounted'
<1>1. CASE HandleEvent
  <2>1. UNCHANGED <<activeWorkers, Uncounting, Counting>>
    BY <1>1 DEF HandleEvent, countVars, failVars, Uncounting, Counting
  <2>2. supervisor = "loop"
    BY <1>1 DEF HandleEvent
  <2>3. CASE Head(workerEvents) = Nil
    BY <1>1, <2>1, <2>2, <2>3, ActiveKept DEF HandleEvent
  <2>4. CASE Head(workerEvents) # Nil
    <3>1. /\ supervisor' = "cleaning" /\ Cardinality(workers') \in Nat
          /\ Cardinality(workers') >= Cardinality(workers) - 1
      BY <1>1, <2>4, OneWorkerLess DEF HandleEvent, Cleans
    <3>2. activeWorkers + Cardinality(Counting) <= Cardinality(workers) + Cardinality(Uncounting)
      BY <2>2, WorkersFinite, BetweenFinite DEF ActiveNeverOvercounted
    <3>3. /\ activeWorkers \in Int /\ Cardinality(workers) \in Nat
          /\ Cardinality(Uncounting) \in Nat /\ Cardinality(Counting) \in Nat
      BY WorkersFinite, BetweenFinite DEF TypeOK
    <3>. QED  BY <2>1, <3>1, <3>2, <3>3 DEF ActiveNeverOvercounted
  <2>. QED  BY <2>3, <2>4
<1>2. CASE CleanedUp
  <2>1. UNCHANGED <<workers, Uncounting, Counting>>
    BY <1>2 DEF CleanedUp, failVars, Uncounting, Counting
  <2>2. supervisor = "cleaning" /\ supervisor' = "loop" /\ activeWorkers' = activeWorkers - 1
    BY <1>2 DEF CleanedUp
  <2>3. /\ activeWorkers \in Int /\ Cardinality(workers) \in Nat
        /\ Cardinality(Uncounting) \in Nat /\ Cardinality(Counting) \in Nat
    BY WorkersFinite, BetweenFinite DEF TypeOK
  <2>. QED  BY <2>1, <2>2, <2>3 DEF ActiveNeverOvercounted
<1>3. CASE \E n \in Counters : FailureStep(n)
  BY <1>3, ActiveFailure
<1>4. CASE DeliverFails
  <2>1. UNCHANGED <<workers, activeWorkers, supervisor>>
    BY <1>4 DEF DeliverFails, Sent, countVars, loopVars
  <2>0. PICK t : t = sending.turn
    OBVIOUS
  <2>2. /\ t \in Counters /\ failure[t] = "none" /\ failure'[t] = "looking"
        /\ \A m \in Counters : m # t => failure'[m] = failure[m]
    BY <1>4, <2>0 DEF DeliverFails, Sent, HandsAgree, NumbersFresh, TypeOK
  <2>3. UNCHANGED <<Uncounting, Counting>>
    BY <2>2, BetweenStep
  <2>. QED  BY <2>1, <2>3, ActiveKept
<1>5. ASSUME NEW w \in Counters, TakeNil(w)  PROVE ActiveNeverOvercounted'
  <2>1. UNCHANGED <<workers, activeWorkers, supervisor>>
    BY <1>5 DEF TakeNil, WorkerMoves, countVars, loopVars
  <2>2. /\ failure[w] = "none" /\ failure'[w] = "looking"
        /\ \A m \in Counters : m # w => failure'[m] = failure[m]
    BY <1>5 DEF TakeNil, WorkerMoves, NumbersFresh, TypeOK
  <2>3. UNCHANGED <<Uncounting, Counting>>
    BY <2>2, BetweenStep
  <2>. QED  BY <2>1, <2>3, ActiveKept
<1>6. CASE UNCHANGED <<workers, activeWorkers, failure>>
           /\ ((supervisor' = "cleaning") <=> (supervisor = "cleaning"))
  <2>1. UNCHANGED <<Uncounting, Counting>>
    BY <1>6 DEF Uncounting, Counting
  <2>. QED  BY <1>6, <2>1, ActiveKept
<1>7. CASE Select \/ SelectNone \/ SelectNoneForNil \/ Deliver
  BY <1>6, <1>7 DEF Select, SelectNone, Receives, SelectNoneForNil, Dies, Deliver, Sent,
                    countVars, failVars, loopVars
<1>8. ASSUME NEW w \in Counters, MonitorStep(w) \/ StopperStep(w) \/ WorkerStep(w)
      PROVE  ActiveNeverOvercounted'
  BY <1>5, <1>6, <1>8
     DEF WorkerStep, TakeCommand, Finish, WorkerExits, WorkerMoves, MonitorStep, ForwardResult,
         ForwardShutdown, StopperStep, Stopped, StopperGivesUp, countVars, failVars, loopVars
<1>9. CASE \/ OnCancel(DistributorEnds) \/ OnCancel(SupervisorEnds)
           \/ OnCancel(HealthMonitorEnds) \/ Shutdown \/ Cancel
  BY <1>6, <1>9 DEF OnCancel, DistributorEnds, SupervisorEnds, HealthMonitorEnds,
                    Shutdown, Cancel, Ends, countVars, failVars, loopVars
<1>10. CASE Submit \/ SubmitOnClosed \/ MapFault \/ UNCHANGED vars
  BY <1>6, <1>10 DEF Submit, SubmitOnClosed, MapFault, Dies, countVars, failVars, loopVars,
                     vars
<1>. QED  BY <1>1, <1>2, <1>3, <1>4, <1>7, <1>8, <1>9, <1>10
          DEF Next, GoroutineStep, SupervisorStep, DistributorStep

-----------------------------------------------------------------------------
(* The theorems *)

LEMMA InvStep == SupervisorInv /\ [Next]_vars => SupervisorInv'
<1>. SUFFICES ASSUME SupervisorInv, [Next]_vars PROVE SupervisorInv'
  OBVIOUS
<1>. USE DEF SupervisorInv
<1>1. ActiveNeverOvercounted'
  BY ActiveStep
<1>2. SUFFICES TypeOK' /\ HandsAgree' /\ NumbersFresh' /\ EachApart'
  BY <1>1
<1>3. CASE UNCHANGED vars
  <2>1. UNCHANGED Data
    BY <1>3 DEF vars, Data, requestVars, distVars, workerVars
  <2>2. TypeOK' /\ HandsAgree' /\ NumbersFresh'
    BY <1>3 DEF vars, requestVars, loopVars, distVars, countVars, workerVars, failVars,
                TypeOK, HandsAgree, NumbersFresh
  <2>. QED  BY <2>1, <2>2, ApartKept
<1>4. CASE DistributorStep
  BY <1>4, TypeDistributor, HandsDistributor, FreshDistributor, ApartDistributor
<1>5. CASE \E w \in Counters : WorkerStep(w) \/ StopperStep(w)
  BY <1>5, TypeWorker, HandsWorker, FreshWorker, ApartWorker
<1>6. CASE \E w \in Counters : MonitorStep(w)
  BY <1>6, TypeMonitor, HandsElse, FreshElse, ApartElse
<1>7. CASE \E n \in Counters : FailureStep(n)
  BY <1>7, TypeFailure, HandsFailure, FreshFailure, ApartElse
<1>8. CASE Loops
  BY <1>8, TypeLoops, HandsElse, FreshElse, ApartElse
<1>9. CASE Submit
  BY <1>9, TypeSubmit, HandsElse, FreshElse, ApartSubmit
<1>10. CASE SubmitOnClosed \/ MapFault
  <2>1. Dies
    BY <1>10 DEF SubmitOnClosed, MapFault
  <2>. QED  BY <2>1, TypeDies, HandsElse, FreshElse, ApartElse
<1>. QED  BY <1>3, <1>4, <1>5, <1>6, <1>7, <1>8, <1>9, <1>10
          DEF Next, GoroutineStep, Loops

LEMMA SupervisorInvariant == Spec => []SupervisorInv
<1>1. Init => SupervisorInv
  BY TypeInit, HandsInit, FreshInit, ApartInit, ActiveInit DEF SupervisorInv
<1>. QED  BY <1>1, InvStep, PTL DEF Spec

\* The places of a request are one or none.
LEMMA OnePlace ==
  ASSUME TypeOK, EachApart, NEW r \in Requests
  PROVE  Cardinality(PlacesOf(r)) = IF r <= accepted THEN 1 ELSE 0
<1>. DEFINE InChannel == {<<"requests", i>> : i \in {j \in DOMAIN requests : requests[j] = r}}
            Queued == {p \in Counters \X (1 .. CommandBuffer) :
                         p[2] <= Len(commands[p[1]]) /\ commands[p[1]][p[2]] = r}
            InCommands == {<<"commands", q[1], q[2]>> : q \in Queued}
            InHands == {<<"hand", w>> : w \in {v \in Counters : hand[v] = r}}
            Ends3 == {h \in {"sending", "handled", "dropped"} :
                        CASE h = "sending" -> sending.request = r
                          [] h = "handled" -> r \in handled
                          [] h = "dropped" -> r \in dropped}
            AtEnds == {<<k, 0>> : k \in Ends3}
<1>0. r # Nil /\ Apart(r) /\ Once(requests) /\ \A w \in Counters : Once(commands[w])
  BY SizesType DEF EachApart
<1>1. PlacesOf(r) = InChannel \cup InCommands \cup InHands \cup AtEnds
  BY DEF PlacesOf
<1>2. /\ InChannel # {} => r \in Range(requests)
      /\ \A p, q \in InChannel : p = q
  BY <1>0 DEF Range, Once
<1>3. ASSUME NEW q \in Queued
      PROVE  q[1] \in Counters /\ q[2] \in DOMAIN commands[q[1]] /\ r \in Commanded(q[1])
  <2>1. DOMAIN commands[q[1]] = 1 .. Len(commands[q[1]]) /\ Len(commands[q[1]]) \in Nat
    BY StateTypes, LenProperties
  <2>2. q[2] \in DOMAIN commands[q[1]] /\ commands[q[1]][q[2]] = r
    BY <2>1
  <2>. QED  BY <1>0, <2>2 DEF Commanded, Range
<1>4. /\ InCommands # {} => \E w \in Counters : r \in Commanded(w)
      /\ \A p, q \in Queued : p = q
  <2>1. ASSUME NEW p \in Queued, NEW q \in Queued  PROVE p = q
    <3>1. p[1] = q[1]
      BY <1>0, <1>3 DEF Apart
    <3>2. p[2] = q[2]
      BY <1>0, <1>3, <3>1 DEF Once
    <3>. QED  BY <3>1, <3>2
  <2>. QED  BY <1>3, <2>1
<1>5. /\ InHands # {} => \E w \in Counters : hand[w] = r
      /\ \A p, q \in InHands : p = q
  BY <1>0 DEF Apart
<1>6. /\ AtEnds # {} => sending.request = r \/ r \in handled \/ r \in dropped
      /\ \A p, q \in Ends3 : p = q
  BY <1>0 DEF Apart
<1>7. \A p, q \in PlacesOf(r) : p = q
  <2>. HIDE DEF Ends3, Queued
  <2>1. \A p, q \in InCommands : p = q
    BY <1>4
  <2>2. \A p, q \in AtEnds : p = q
    BY <1>6
  <2>3. \/ InCommands = {} /\ InHands = {} /\ AtEnds = {}
        \/ InChannel = {} /\ InHands = {} /\ AtEnds = {}
        \/ InChannel = {} /\ InCommands = {} /\ AtEnds = {}
        \/ InChannel = {} /\ InCommands = {} /\ InHands = {}
    <3>. HIDE DEF InChannel, InCommands, InHands, AtEnds
    <3>. QED  BY <1>0, <1>2, <1>4, <1>5, <1>6 DEF Apart
  <2>. HIDE DEF InChannel, InCommands, InHands, AtEnds
  <2>. QED  BY <1>1, <1>2, <1>5, <2>1, <2>2, <2>3
<1>8. Located(r) => PlacesOf(r) # {}
  <2>1. r \in Range(requests) => InChannel # {}
    BY DEF Range
  <2>2. ASSUME NEW w \in Counters, r \in Commanded(w)  PROVE InCommands # {}
    <3>1. PICK i \in DOMAIN commands[w] : commands[w][i] = r
      BY <2>2 DEF Commanded, Range
    <3>2. i \in 1 .. CommandBuffer /\ i <= Len(commands[w])
      BY <3>1, StateTypes, LenProperties, SizesType
    <3>3. <<w, i>> \in Queued
      BY <3>1, <3>2
    <3>. QED  BY <3>3
  <2>3. (\E w \in Counters : hand[w] = r) => InHands # {}
    OBVIOUS
  <2>4. /\ sending.request = r => "sending" \in Ends3
        /\ r \in handled => "handled" \in Ends3
        /\ r \in dropped => "dropped" \in Ends3
    OBVIOUS
  <2>5. sending.request = r \/ r \in handled \/ r \in dropped => AtEnds # {}
    <3>. HIDE DEF Ends3
    <3>. QED  BY <2>4
  <2>. HIDE DEF InChannel, InCommands, InHands, AtEnds
  <2>. QED  BY <1>1, <2>1, <2>2, <2>3, <2>5 DEF Located
<1>9. PlacesOf(r) # {} => Located(r)
  <2>. HIDE DEF InChannel, InCommands, InHands, AtEnds
  <2>. QED  BY <1>1, <1>2, <1>4, <1>5, <1>6 DEF Located
<1>10. IsFiniteSet(PlacesOf(r)) /\ Cardinality(PlacesOf(r)) <= 1
  BY <1>7, AtMostOne
<1>11. PlacesOf(r) # {} <=> r <= accepted
  BY <1>8, <1>9 DEF EachApart
<1>12. /\ Cardinality(PlacesOf(r)) \in Nat
       /\ Cardinality(PlacesOf(r)) = 0 <=> PlacesOf(r) = {}
  BY <1>10, FS_CardinalityType, FS_EmptySet
<1>. QED  BY <1>10, <1>11, <1>12

\* However workers fail and are replaced, an accepted request is always in
\* exactly one place: processed at most once and never forgotten.
THEOREM RequestsInOnePlace == Spec => []EachRequestInOnePlace
<1>1. SupervisorInv => EachRequestInOnePlace
  BY OnePlace DEF SupervisorInv, EachRequestInOnePlace
<1>. QED  BY <1>1, SupervisorInvariant, PTL

\* The supervisor never reports more workers than it knows, except for the removals
\* that are between the table and the count, in whatever order a failed worker is
\* removed by its failure and by the event of its end.
THEOREM ActiveIsCovered == Spec => []ActiveNeverOvercounted
<1>1. SupervisorInv => ActiveNeverOvercounted
  BY DEF SupervisorInv
<1>. QED  BY <1>1, SupervisorInvariant, PTL
=============================================================================
