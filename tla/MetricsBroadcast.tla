-------------------------- MODULE MetricsBroadcast --------------------------
(***************************************************************************)
(* The MetricsBroadcaster (metrics_broadcaster.go) inside the              *)
(* ChannelBasedOrchestrator (channel_orchestrator.go): submitted requests  *)
(* and the metrics collector put events into one channel, Serve hands each *)
(* event to every listener, without waiting for those that are slow.       *)
(*                                                                         *)
(* Events are numbered in the order in which they enter the channel.       *)
(* Nobody writes the orchestrator's worker status and response channels;   *)
(* they are left out.                                                      *)
(***************************************************************************)
EXTENDS Integers, Sequences

CONSTANTS
  Subscribers,     \* each subscribes once
  Submitters,      \* calls of SubmitRequest
  MaxTicks,        \* bound: the ticks of the collector
  EventCapacity,   \* capacity of metricsEventChan (1000)
  ListenerCapacity \* capacity of a listener's channel (100)

ASSUME BroadcastAssumption ==
  {EventCapacity, ListenerCapacity} \subseteq Nat \ {0} /\ MaxTicks \in Nat

VARIABLES
  emitted,     \* the events that have entered the channel
  served,      \* the events that Serve has taken from it
  serve,       \* "loop", "broadcasting" or "ended"
  listeners,   \* the slice of listeners
  index,       \* the listener whose turn it is, counted down
  subscriber,  \* where each subscriber stands
  joined,      \* the events served before it was added
  delivered,   \* the events put into its channel
  unread,      \* how many of them are still there
  closings,    \* how often its channel has been closed
  submitter,   \* where each call of SubmitRequest stands
  collector,   \* "loop", "sending" or "ended"
  ticks, orchestratorStop, ctxDone

subscriberVars == <<listeners, subscriber, joined, delivered, unread, closings>>
sourceVars == <<emitted, submitter, collector, ticks>>
endVars == <<orchestratorStop, ctxDone>>
broadcastVars == <<subscriberVars, sourceVars, endVars, served, serve, index>>

BroadcastTypeOK ==
  /\ emitted \in Nat /\ served \in 0 .. emitted
  /\ emitted - served <= EventCapacity
  /\ serve \in {"loop", "broadcasting", "ended"}
  /\ listeners \in Seq(Subscribers) /\ index \in 0 .. Len(listeners) + 1
  /\ subscriber \in [Subscribers -> {"new", "adding", "added", "removing", "removed"}]
  /\ joined \in [Subscribers -> Nat] /\ delivered \in [Subscribers -> Seq(Nat)]
  /\ unread \in [Subscribers -> 0 .. ListenerCapacity]
  /\ closings \in [Subscribers -> Nat]
  /\ submitter \in [Submitters -> {"new", "sending", "sent"}]
  /\ collector \in {"loop", "sending", "ended"} /\ ticks \in 0 .. MaxTicks
  /\ orchestratorStop \in {"new", "waiting", "graceful", "timeout"}
  /\ ctxDone \in BOOLEAN

BroadcastInit ==
  /\ emitted = 0 /\ served = 0
  /\ serve = "loop" /\ listeners = <<>> /\ index = 0
  /\ subscriber = [s \in Subscribers |-> "new"]
  /\ joined = [s \in Subscribers |-> 0]
  /\ delivered = [s \in Subscribers |-> <<>>]
  /\ unread = [s \in Subscribers |-> 0]
  /\ closings = [s \in Subscribers |-> 0]
  /\ submitter = [r \in Submitters |-> "new"]
  /\ collector = "loop" /\ ticks = 0
  /\ orchestratorStop = "new" /\ ctxDone = FALSE

-----------------------------------------------------------------------------
(* Subscribe and Unsubscribe hand the channel over to Serve: nobody takes it *)
(* once Serve has ended.                                                     *)

Asks(s, from, to) ==
  /\ subscriber[s] = from
  /\ subscriber' = [subscriber EXCEPT ![s] = to]
  /\ UNCHANGED <<listeners, joined, delivered, unread, closings, sourceVars,
                 endVars, served, serve, index>>
Subscribe(s)   == Asks(s, "new", "adding")
Unsubscribe(s) == Asks(s, "added", "removing")

Read(s) ==
  /\ unread[s] > 0
  /\ unread' = [unread EXCEPT ![s] = @ - 1]
  /\ UNCHANGED <<listeners, subscriber, joined, delivered, closings, sourceVars,
                 endVars, served, serve, index>>

-----------------------------------------------------------------------------
(* Serve *)

AddListener(s) ==
  /\ serve = "loop" /\ subscriber[s] = "adding"
  /\ subscriber' = [subscriber EXCEPT ![s] = "added"]
  /\ listeners' = Append(listeners, s)
  /\ joined' = [joined EXCEPT ![s] = served]
  /\ UNCHANGED <<delivered, unread, closings, sourceVars, endVars, served, serve, index>>

\* The last listener takes the place of the one that is removed.
removeListenerByIndex(i) ==
  LET last == Len(listeners)
      moved == [listeners EXCEPT ![i] = listeners[last]] IN
  listeners' = SubSeq(moved, 1, last - 1)

\* A listener that was slow is not there any more.
RemoveListener(s) ==
  /\ serve = "loop" /\ subscriber[s] = "removing"
  /\ subscriber' = [subscriber EXCEPT ![s] = "removed"]
  /\ \/ \E i \in DOMAIN listeners :
          /\ listeners[i] = s
          /\ removeListenerByIndex(i)
          /\ closings' = [closings EXCEPT ![s] = @ + 1]
     \/ /\ \A i \in DOMAIN listeners : listeners[i] # s
        /\ UNCHANGED <<listeners, closings>>
  /\ UNCHANGED <<joined, delivered, unread, sourceVars, endVars, served, serve, index>>

TakeEvent ==
  /\ serve = "loop" /\ served < emitted
  /\ served' = served + 1
  /\ serve' = "broadcasting" /\ index' = Len(listeners)
  /\ UNCHANGED <<subscriberVars, sourceVars, endVars>>

HasRoom(s) == unread[s] < ListenerCapacity

\* Mutant of Deliver: Serve waits for room.
DeliverWaiting ==
  LET s == listeners[index] IN
  /\ serve = "broadcasting" /\ index > 0 /\ HasRoom(s)
  /\ delivered' = [delivered EXCEPT ![s] = Append(@, served)]
  /\ unread' = [unread EXCEPT ![s] = @ + 1]
  /\ UNCHANGED <<listeners, subscriber, joined, closings>>
  /\ index' = index - 1
  /\ UNCHANGED <<sourceVars, endVars, served, serve>>

\* Mutant of Deliver: the place of the removed listener counts as not served.
DeliverTwice ==
  LET s == listeners[index] IN
  /\ serve = "broadcasting" /\ index > 0
  /\ \/ /\ HasRoom(s)
        /\ delivered' = [delivered EXCEPT ![s] = Append(@, served)]
        /\ unread' = [unread EXCEPT ![s] = @ + 1]
        /\ index' = index - 1
        /\ UNCHANGED listeners
     \/ /\ ~HasRoom(s)
        /\ removeListenerByIndex(index)
        /\ index' = IF index = Len(listeners) THEN index - 1 ELSE index
        /\ UNCHANGED <<delivered, unread>>
  /\ UNCHANGED <<subscriber, joined, closings, sourceVars, endVars, served, serve>>

\* One round of broadcast: a listener without room is removed.
Deliver ==
  LET s == listeners[index] IN
  /\ serve = "broadcasting" /\ index > 0
  /\ \/ /\ HasRoom(s)
        /\ delivered' = [delivered EXCEPT ![s] = Append(@, served)]
        /\ unread' = [unread EXCEPT ![s] = @ + 1]
        /\ UNCHANGED listeners
     \/ /\ ~HasRoom(s)
        /\ removeListenerByIndex(index)
        /\ UNCHANGED <<delivered, unread>>
  /\ index' = index - 1
  /\ UNCHANGED <<subscriber, joined, closings, sourceVars, endVars, served, serve>>

BroadcastOver ==
  /\ serve = "broadcasting" /\ index = 0
  /\ serve' = "loop"
  /\ UNCHANGED <<subscriberVars, sourceVars, endVars, served, index>>

\* cleanup closes the channels of all that are left.
ServeEnds ==
  /\ serve = "loop" /\ ctxDone
  /\ serve' = "ended"
  /\ closings' = [s \in Subscribers |->
       IF \E i \in DOMAIN listeners : listeners[i] = s THEN closings[s] + 1 ELSE closings[s]]
  /\ listeners' = <<>>
  /\ UNCHANGED <<subscriber, joined, delivered, unread, sourceVars, endVars, served, index>>

-----------------------------------------------------------------------------
(* The sources of the events *)

Emit == emitted - served < EventCapacity /\ emitted' = emitted + 1

SubmitRequest(r) ==
  /\ submitter[r] = "new"
  /\ submitter' = [submitter EXCEPT ![r] = "sending"]
  /\ UNCHANGED <<emitted, collector, ticks, subscriberVars, endVars, served, serve, index>>

\* The request goes on to the supervisor.
SendEvent(r) ==
  /\ submitter[r] = "sending"
  /\ Emit
  /\ submitter' = [submitter EXCEPT ![r] = "sent"]
  /\ UNCHANGED <<collector, ticks, subscriberVars, endVars, served, serve, index>>

CollectorGoes(from, to) ==
  /\ collector = from /\ collector' = to
  /\ UNCHANGED <<submitter, subscriberVars, endVars, served, serve, index>>
Tick ==
  /\ CollectorGoes("loop", "sending")
  /\ ticks < MaxTicks /\ ticks' = ticks + 1
  /\ UNCHANGED emitted
SendTick == CollectorGoes("sending", "loop") /\ Emit /\ UNCHANGED ticks

CollectorEnds ==
  /\ CollectorGoes("loop", "ended")
  /\ ctxDone \/ orchestratorStop # "new"
  /\ UNCHANGED <<emitted, ticks>>

\* Stop of the orchestrator, after the supervisor's Shutdown; a second call
\* would close shutdownChan again.
StopMetrics ==
  /\ orchestratorStop = "new" /\ orchestratorStop' = "waiting"
  /\ UNCHANGED <<subscriberVars, sourceVars, ctxDone, served, serve, index>>
StopOver ==
  /\ orchestratorStop = "waiting"
  /\ \/ collector = "ended" /\ orchestratorStop' = "graceful"
     \/ orchestratorStop' = "timeout"
  /\ UNCHANGED <<subscriberVars, sourceVars, ctxDone, served, serve, index>>

CancelMetrics ==
  /\ ~ctxDone /\ ctxDone' = TRUE
  /\ UNCHANGED <<subscriberVars, sourceVars, orchestratorStop, served, serve, index>>

-----------------------------------------------------------------------------

BroadcastStep ==
  \/ \E s \in Subscribers : AddListener(s) \/ RemoveListener(s)
  \/ TakeEvent \/ Deliver \/ BroadcastOver \/ ServeEnds
  \/ \E r \in Submitters : SendEvent(r)
  \/ SendTick \/ CollectorEnds \/ StopOver

BroadcastNext ==
  \/ BroadcastStep
  \/ \E s \in Subscribers : Subscribe(s) \/ Unsubscribe(s) \/ Read(s)
  \/ \E r \in Submitters : SubmitRequest(r)
  \/ Tick \/ StopMetrics \/ CancelMetrics

\* Readers need not read: only Serve, the sources and Stop go on by themselves.
BroadcastFairness == WF_broadcastVars(BroadcastStep)
BroadcastSpec ==
  BroadcastInit /\ [][BroadcastNext]_broadcastVars /\ BroadcastFairness

-----------------------------------------------------------------------------
(* Properties *)

\* Whoever else is removed in the middle of a broadcast, a listener is given
\* every event since it was added exactly once and in order, none is closed
\* twice, and none is in the slice twice.
EveryEventOnce ==
  /\ BroadcastTypeOK
  /\ \A s \in Subscribers :
       /\ delivered[s] = [i \in 1 .. Len(delivered[s]) |-> joined[s] + i]
       /\ closings[s] <= 1
  /\ \A i \in DOMAIN listeners :
       /\ serve = "loop" => joined[listeners[i]] + Len(delivered[listeners[i]]) = served
       /\ \A j \in DOMAIN listeners : listeners[i] = listeners[j] => i = j

\* As long as the context lives, nobody who submits, subscribes or unsubscribes
\* waits for ever, however little the listeners read; and the collector ends
\* after Stop.
NobodyWaits ==
  /\ \A r \in Submitters : submitter[r] = "sending" ~> submitter[r] = "sent" \/ ctxDone
  /\ \A s \in Subscribers :
       subscriber[s] \in {"adding", "removing"} ~>
         subscriber[s] \in {"added", "removed"} \/ ctxDone
  /\ orchestratorStop = "waiting" ~> collector = "ended" \/ ctxDone
=============================================================================
