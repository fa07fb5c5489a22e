------------------------- MODULE MCWorkerSupervisor -------------------------
(***************************************************************************)
(* WorkerSupervisor with two workers, in two situations: more requests     *)
(* than the workers take in time, in a supervisor that nobody ends; and    *)
(* the end of the supervisor or of its context, with one request at most.  *)
(***************************************************************************)
EXTENDS WorkerSupervisor

VARIABLE situation

\* Bounds: at the end there is one turn or one replacement beside the request's.
Situated ==
  \/ situation = "overload" /\ ~cancelled' /\ shutdown' = "new"
  \/ situation = "end" /\ accepted' <= 1 /\ workerCounter' <= MaxWorkers + 2

MCInit == Init /\ situation \in {"overload", "end"}
MCNext == Next /\ Situated /\ UNCHANGED situation
MCSpec ==
  /\ MCInit
  /\ [][MCNext]_<<vars, situation>>
  /\ WF_vars(~fatal /\ GoroutineStep /\ Situated)
=============================================================================
