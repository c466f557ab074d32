----------------------------- MODULE MCRegistry -----------------------------
(* Registry with one orchestrator, one agent and two ticks per refresh; Consul's
   minute and half minute are shortened to three ticks and two. *)
EXTENDS Registry
=============================================================================
