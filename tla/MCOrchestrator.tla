--------------------------- MODULE MCOrchestrator ---------------------------
(* Small instances of Orchestrator for TLC. *)
EXTENDS Orchestrator, TLC

Symmetry == Permutations(Requests) \union Permutations(Workers) \union Permutations(Polls)
=============================================================================
