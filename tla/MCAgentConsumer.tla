-------------------------- MODULE MCAgentConsumer --------------------------
(* AgentConsumer for TLC; every bound is a constant of the configuration. *)
EXTENDS AgentConsumer
=============================================================================
