----------------------------- MODULE MCOutbound -----------------------------
(* Outbound with small sets of actions and channels. *)
EXTENDS Outbound
=============================================================================
