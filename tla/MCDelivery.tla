----------------------------- MODULE MCDelivery -----------------------------
(* Delivery for TLC; every bound is a constant of the configuration. *)
EXTENDS Delivery
=============================================================================
