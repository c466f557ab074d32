------------------------------- MODULE MCLLM -------------------------------
(* LLM with two callers that race for the limiter; a tick is 100 ms. *)
EXTENDS LLM

MCBackoff == <<2>>
=============================================================================
