--------------------------- MODULE MCOrchestrator ---------------------------
(* Orchestrator for TLC; every bound is a constant of the configuration. *)
EXTENDS Orchestrator
=============================================================================
