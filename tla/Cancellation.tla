---------------------------- MODULE Cancellation ----------------------------
(***************************************************************************)
(* The CancellationCoordinator (cancellation_coordinator.go): a channel    *)
(* that is closed once, a root context, the components it shuts down in    *)
(* parallel and the goroutines it waits for.  StagedAnalysis and           *)
(* SystemLifecycle build on it; each has a coordinator of its own.         *)
(*                                                                         *)
(* Three timers and the context of the caller of InitiateShutdown bound    *)
(* the work.  The component timeout (20 s) ends before the shutdown        *)
(* timeout (30 s), both are derived from the caller's context.             *)
(***************************************************************************)
EXTENDS Integers, FiniteSets

VARIABLES
  done,         \* the done channel is closed
  root,         \* the root context is cancelled
  coordinator,  \* where coordinateComponentShutdown stands
  registered,   \* the registered components
  stopping,     \* the Shutdown call of each component: running, ok or failed
  contexts,     \* which contexts are done: "live", "component" or "all"
  tracked,      \* the tracked goroutines
  goroutines    \* what the wait for them found: "unknown", "gone" or "left"

cancelVars == <<done, root, coordinator, registered, stopping, contexts,
                tracked, goroutines>>
shutdownVars == <<done, root, coordinator, registered, stopping, contexts,
                  goroutines>>

CancelTypeOK ==
  /\ done \in BOOLEAN /\ root \in BOOLEAN
  /\ coordinator \in {"idle", "closing", "copying", "stopping", "waiting", "finished"}
  /\ \A k \in DOMAIN stopping : stopping[k] \in {"running", "ok", "failed"}
  /\ contexts \in {"live", "component", "all"}
  /\ goroutines \in {"unknown", "gone", "left"}
  /\ IsFiniteSet(registered) /\ IsFiniteSet(tracked)

CancelInit(components) ==
  /\ done = FALSE /\ root = FALSE
  /\ coordinator = "idle"
  /\ registered = components
  /\ stopping = <<>>
  /\ contexts = "live"
  /\ tracked = {} /\ goroutines = "unknown"

-----------------------------------------------------------------------------

\* A name that is taken is refused.
RegisterComponents(ks) ==
  /\ registered \cap ks = {}
  /\ registered' = registered \cup ks
  /\ UNCHANGED <<done, root, coordinator, stopping, contexts, tracked, goroutines>>

Track(gs)   == tracked' = tracked \cup gs
Untrack(gs) == tracked' = tracked \ gs

\* The body of shutdownOnce; whoever comes later finds nothing left to do.
InitiateShutdown(callerDone) ==
  /\ coordinator = "idle"
  /\ coordinator' = "closing"
  /\ done' = TRUE
  /\ contexts' = IF callerDone THEN "all" ELSE "live"
  /\ UNCHANGED <<root, registered, stopping, tracked, goroutines>>

CancelRoot ==
  /\ coordinator = "closing"
  /\ coordinator' = "copying"
  /\ root' = TRUE
  /\ UNCHANGED <<done, registered, stopping, contexts, tracked, goroutines>>

\* Without components nobody waits for the goroutines either.
CopyComponents ==
  /\ coordinator = "copying"
  /\ coordinator' = IF registered = {} THEN "finished" ELSE "stopping"
  /\ stopping' = [k \in registered |-> "running"]
  /\ UNCHANGED <<done, root, registered, contexts, tracked, goroutines>>

\* The Shutdown call of a component returns.
ComponentStops(k, how) ==
  /\ k \in DOMAIN stopping /\ stopping[k] = "running"
  /\ stopping' = [stopping EXCEPT ![k] = how]
  /\ UNCHANGED <<done, root, coordinator, registered, contexts, tracked, goroutines>>

\* One that waits for its context gives up when the context is done.
ComponentTimesOut(k) == contexts # "live" /\ ComponentStops(k, "failed")

CollectResults ==
  /\ coordinator = "stopping"
  /\ \A k \in DOMAIN stopping : stopping[k] # "running"
  /\ coordinator' = "waiting"
  /\ UNCHANGED <<done, root, registered, stopping, contexts, tracked, goroutines>>

\* shutdownCtx is done: the goroutines are not waited for.
CollectTimesOut ==
  /\ coordinator = "stopping" /\ contexts = "all"
  /\ coordinator' = "finished"
  /\ UNCHANGED <<done, root, registered, stopping, contexts, tracked, goroutines>>

Waited(found) ==
  /\ coordinator = "waiting"
  /\ coordinator' = "finished"
  /\ goroutines' = found
  /\ UNCHANGED <<done, root, registered, stopping, contexts, tracked>>
GoroutinesDone  == tracked = {} /\ Waited("gone")
GracefulTimeout == Waited("left")

ComponentTimeout ==
  /\ coordinator = "stopping" /\ contexts = "live"
  /\ contexts' = "component"
  /\ UNCHANGED <<done, root, coordinator, registered, stopping, tracked, goroutines>>
ShutdownTimeout ==
  /\ coordinator = "stopping" /\ contexts # "all"
  /\ contexts' = "all"
  /\ UNCHANGED <<done, root, coordinator, registered, stopping, tracked, goroutines>>

CoordinatorStep ==
  \/ CancelRoot \/ CopyComponents \/ CollectResults \/ CollectTimesOut
  \/ GoroutinesDone \/ GracefulTimeout
  \/ ComponentTimeout \/ ShutdownTimeout
=============================================================================
