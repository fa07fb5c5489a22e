----------------------------- MODULE MCProcesses -----------------------------
(***************************************************************************)
(* Seven components that share no state, each on a small instance: the one *)
(* chosen at the start runs, the others stay as they are.                  *)
(***************************************************************************)
EXTENDS PipelineMetrics, StagedAnalysis, SystemLifecycle, MetricsBroadcast,
        Devices, ProcessLifecycle, OrchestratorStartup

CONSTANTS p1, p2, p3

ThreePipelines == <<p1, p2, p3>>

SubsystemOrder == <<"idaes", "web", "hardware">>

VARIABLE component

Components == {"metrics", "stages", "system", "broadcast", "devices", "process",
               "startup"}

Init ==
  /\ component \in Components
  /\ PipelineMetricsInit /\ StageInit /\ SystemInit
  /\ CancelInit(IF component = "stages" THEN {"pipeline_stages_analyzer"} ELSE {})
  /\ BroadcastInit /\ DevicesInit /\ ProcessInit /\ StartupInit

Next ==
  /\ UNCHANGED component
  /\ \/ /\ component = "metrics" /\ PipelineMetricsNext
        /\ UNCHANGED <<stageVars, systemVars, cancelVars, broadcastVars, deviceVars,
                       processVars, startupVars>>
     \/ /\ component = "stages" /\ StageNext
        /\ UNCHANGED <<pipelineMetricsVars, systemVars, broadcastVars, deviceVars,
                       processVars, startupVars>>
     \/ /\ component = "system" /\ SystemNext
        /\ UNCHANGED <<pipelineMetricsVars, stageVars, broadcastVars, deviceVars,
                       processVars, startupVars>>
     \/ /\ component = "broadcast" /\ BroadcastNext
        /\ UNCHANGED <<pipelineMetricsVars, stageVars, systemVars, cancelVars,
                       deviceVars, processVars, startupVars>>
     \/ /\ component = "devices" /\ DevicesNext
        /\ UNCHANGED <<pipelineMetricsVars, stageVars, systemVars, cancelVars,
                       broadcastVars, processVars, startupVars>>
     \/ /\ component = "process" /\ ProcessNext
        /\ UNCHANGED <<pipelineMetricsVars, stageVars, systemVars, cancelVars,
                       broadcastVars, deviceVars, startupVars>>
     \/ /\ component = "startup" /\ StartupNext
        /\ UNCHANGED <<pipelineMetricsVars, stageVars, systemVars, cancelVars,
                       broadcastVars, deviceVars, processVars>>

allVars == <<component, pipelineMetricsVars, stageVars, systemVars, cancelVars,
             broadcastVars, deviceVars, processVars, startupVars>>

Spec ==
  /\ Init
  /\ [][Next]_allVars
  /\ StageFairness /\ SystemFairness
  /\ BroadcastFairness
  /\ DevicesFairness /\ ProcessFairness /\ StartupFairness

-----------------------------------------------------------------------------

\* What the analysis system, the hardware subsystem and the process promise at
\* any moment between start and stop: workers that are created once, a display
\* that shows what it has, an exit code that tells the truth.
LifecyclesSound ==
  /\ SystemTypeOK /\ DeviceTypeOK /\ ProcessTypeOK
  /\ StartedOnce /\ DisplayShowsWhatItHas /\ ExitTellsTruth

\* Every Stop and Shutdown ends, by its timers if not otherwise, and what it
\* stops ends with it: the staged calls, the workers of the analysis system, the
\* loops of the hardware subsystem, the process.
StopsEnd == ShutdownReleases /\ StopEndsWorkers /\ DevicesEnd /\ ProcessEnds
=============================================================================
