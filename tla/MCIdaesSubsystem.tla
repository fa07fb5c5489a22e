-------------------------- MODULE MCIdaesSubsystem --------------------------
(* IdaesSubsystem on small instances. *)
EXTENDS IdaesSubsystem
=============================================================================
