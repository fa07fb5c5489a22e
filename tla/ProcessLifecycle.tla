-------------------------- MODULE ProcessLifecycle --------------------------
(***************************************************************************)
(* main (cmd/main.go): the subsystems are created one after the other, each *)
(* is started and stopped by a goroutine of an errgroup, a signal or the   *)
(* first error cancels the context of all, and main waits for the group.   *)
(*                                                                         *)
(* The context for the shutdown is derived from the one that has just been *)
(* cancelled, so it is done from the start: each goroutine may return      *)
(* before the Stop it has launched, and the process end with Stop running. *)
(*                                                                         *)
(* The web server (Start and Stop of web_subsystem.go and web.go) is here  *)
(* because Stop of its subsystem waits for it without a timeout.  The two  *)
(* servers for profiling are left out.                                     *)
(***************************************************************************)
EXTENDS Naturals, Sequences

CONSTANT EnabledSubsystems \* the subsystems in the order of their creation

VARIABLES
  created,    \* how many have been created, or may not be created
  routine,    \* each subsystem's goroutine in the group
  stopCall,   \* the Stop it has launched
  server,     \* the web server's goroutine
  groupError, \* the first error a goroutine has returned: "none", "canceled", "failure"
  groupDone,  \* the context of the group is done
  signal,     \* SIGINT or SIGTERM has been sent
  watcher,    \* the goroutine that waits for it has returned
  exit        \* "new", "running", or how the process has ended: "zero", "one"

processVars ==
  <<created, routine, stopCall, server, groupError, groupDone, signal, watcher, exit>>

Named == {EnabledSubsystems[i] : i \in DOMAIN EnabledSubsystems}

\* main creates each of them at most once.
ASSUME SubsystemsAssumption ==
  /\ EnabledSubsystems \in Seq({"idaes", "web", "hardware"})
  /\ \A i, j \in DOMAIN EnabledSubsystems :
       EnabledSubsystems[i] = EnabledSubsystems[j] => i = j

ProcessTypeOK ==
  /\ created \in 0 .. Len(EnabledSubsystems)
  /\ routine \in [Named -> {"none", "starting", "running", "stopping", "returned"}]
  /\ stopCall \in [Named -> {"none", "stopping", "waiting", "stopped"}]
  /\ server \in {"none", "launched", "made", "serving", "ended"}
  /\ groupError \in {"none", "canceled", "failure"} /\ groupDone \in BOOLEAN
  /\ signal \in BOOLEAN /\ watcher \in BOOLEAN /\ exit \in {"new", "running", "zero", "one"}

ProcessInit ==
  /\ created = 0 /\ routine = [s \in Named |-> "none"]
  /\ stopCall = [s \in Named |-> "none"] /\ server = "none"
  /\ groupError = "none" /\ groupDone = FALSE /\ signal = FALSE /\ watcher = FALSE
  /\ exit = "new"

Running == exit = "running"

-----------------------------------------------------------------------------
(* main *)

Launch ==
  /\ exit = "new" /\ exit' = "running"
  /\ UNCHANGED <<created, routine, stopCall, server, groupError, groupDone, signal, watcher>>

\* The IDAES and the web subsystem must be created, the hardware need not be.
Create ==
  LET s == EnabledSubsystems[created + 1] IN
  /\ Running /\ created < Len(EnabledSubsystems)
  /\ \/ created' = created + 1
        /\ routine' = [routine EXCEPT ![s] = "starting"] /\ UNCHANGED exit
     \/ s = "hardware" /\ created' = created + 1 /\ UNCHANGED <<routine, exit>>
     \/ s # "hardware" /\ exit' = "one" /\ UNCHANGED <<created, routine>>
  /\ UNCHANGED <<stopCall, server, groupError, groupDone, signal, watcher>>

\* eg.Wait, when everything has been started and every goroutine has returned,
\* the one that waits for signals among them.
GroupOver ==
  /\ Running /\ created = Len(EnabledSubsystems)
  /\ \A s \in Named : routine[s] \in {"none", "returned"}
  /\ watcher
  /\ UNCHANGED <<created, routine, stopCall, server, groupError, groupDone, signal, watcher>>

\* Mutant of Finish: errors count only while the context is live.
FinishQuietly ==
  /\ GroupOver
  /\ exit' = IF groupError = "failure" /\ ~groupDone THEN "one" ELSE "zero"

Finish ==
  /\ GroupOver
  /\ exit' = IF groupError = "failure" THEN "one" ELSE "zero"

-----------------------------------------------------------------------------
(* The errgroup: the first error is kept, then the context cancelled. *)

Return(error) ==
  /\ groupError' = IF groupError = "none" THEN error ELSE groupError
  /\ groupDone' = (groupDone \/ error # "none")

SendSignal ==
  /\ Running /\ ~signal /\ signal' = TRUE
  /\ UNCHANGED <<created, routine, stopCall, server, groupError, groupDone, watcher, exit>>

\* The goroutine that waits for a signal is started after all others: it
\* cancels the context and returns nil, or returns the context's error.
SignalSeen ==
  /\ Running /\ created = Len(EnabledSubsystems)
  /\ ~watcher /\ watcher' = TRUE
  /\ \/ signal /\ groupDone' = TRUE /\ UNCHANGED groupError
     \/ groupDone /\ Return("canceled")
  /\ UNCHANGED <<created, routine, stopCall, server, signal, exit>>

-----------------------------------------------------------------------------
(* The goroutine of a subsystem *)

RoutineGoes(s, from, to) ==
  /\ Running /\ routine[s] = from /\ routine' = [routine EXCEPT ![s] = to]
  /\ UNCHANGED <<created, signal, watcher, exit>>

\* The web subsystem only launches its server; nobody learns that it failed.
StartSucceeds(s) ==
  /\ RoutineGoes(s, "starting", "running")
  /\ server' = IF s = "web" THEN "launched" ELSE server
  /\ UNCHANGED <<stopCall, groupError, groupDone>>
SubsystemFails(s) ==
  /\ RoutineGoes(s, "starting", "returned") /\ s # "web"
  /\ Return("failure")
  /\ UNCHANGED <<stopCall, server>>
LaunchStop(s) ==
  /\ RoutineGoes(s, "running", "stopping") /\ groupDone
  /\ stopCall' = [stopCall EXCEPT ![s] = "stopping"]
  /\ UNCHANGED <<server, groupError, groupDone>>

\* Stop has returned nil, or the shutdown context is done: it was from the start.
ShutdownOver(s) ==
  /\ RoutineGoes(s, "stopping", "returned")
  /\ \/ stopCall[s] = "stopped" /\ UNCHANGED <<groupError, groupDone>>
     \/ Return("canceled")
  /\ UNCHANGED <<stopCall, server>>

-----------------------------------------------------------------------------
(* The web server *)

ServerGoes(from, to) ==
  /\ Running /\ server = from /\ server' = to
  /\ UNCHANGED <<created, routine, stopCall, groupError, groupDone, signal, watcher, exit>>

MakeServer == ServerGoes("launched", "made")
Serve      == ServerGoes("made", "serving")
\* The address is in use: the error is only logged.
ServeFails == ServerGoes("made", "ended")

StopCallGoes(s, to) ==
  /\ Running /\ stopCall' = [stopCall EXCEPT ![s] = to]
  /\ UNCHANGED <<created, routine, groupError, groupDone, signal, watcher, exit>>

\* Stop of the web subsystem shuts down the server there is and waits for its
\* goroutine.  If the server has not been made yet nothing will ever end it.
ShutdownServer ==
  /\ "web" \in Named /\ stopCall["web"] = "stopping" /\ StopCallGoes("web", "waiting")
  /\ server' = IF server = "launched" THEN server ELSE "ended"
StopReturns(s) ==
  /\ \/ s = "web" /\ stopCall[s] = "waiting" /\ server = "ended"
     \/ s # "web" /\ stopCall[s] = "stopping"
  /\ StopCallGoes(s, "stopped")
  /\ UNCHANGED server

-----------------------------------------------------------------------------

RoutineStep(s) ==
  StartSucceeds(s) \/ SubsystemFails(s) \/ LaunchStop(s) \/ ShutdownOver(s)
ServerStep == MakeServer \/ Serve \/ ServeFails

ProcessNext ==
  \/ Launch \/ Create \/ Finish \/ SendSignal \/ SignalSeen \/ ServerStep \/ ShutdownServer
  \/ \E s \in Named : RoutineStep(s) \/ StopReturns(s)

ProcessFairness ==
  /\ WF_processVars(Create \/ Finish) /\ WF_processVars(SignalSeen)
  /\ WF_processVars(ServerStep) /\ WF_processVars(ShutdownServer)
  /\ \A s \in Named :
       WF_processVars(RoutineStep(s)) /\ WF_processVars(StopReturns(s))

ProcessSpec == ProcessInit /\ [][ProcessNext]_processVars /\ ProcessFairness

-----------------------------------------------------------------------------
(* Properties *)

\* The process ends with zero only if it has been told to: the error of a
\* subsystem that does not start is not lost among those of the others, which
\* all return the context's error because the shutdown context is done.  A Stop
\* that returns is never still waiting for the web server.
ExitTellsTruth ==
  /\ exit = "zero" => signal
  /\ groupError = "none" \/ groupDone
  /\ "web" \in Named /\ stopCall["web"] = "stopped" => server = "ended"

\* After a signal or an error the process ends, even if the web server had not
\* been made when it was stopped and its Stop hangs.
ProcessEnds == signal \/ groupDone ~> ~Running
=============================================================================
