----------------------- MODULE MCOrchestratorStartup -----------------------
(* OrchestratorStartup on small instances. *)
EXTENDS OrchestratorStartup

CONSTANTS p1, p2, p3

ThreePipelines == <<p1, p2, p3>>
=============================================================================
