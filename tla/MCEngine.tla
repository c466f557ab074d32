------------------------------ MODULE MCEngine ------------------------------
(***************************************************************************)
(* Engine for TLC.  Calls are unbounded in number; MaxAttempts bounds the  *)
(* attempts of one call as the code does.                                  *)
(***************************************************************************)
EXTENDS Engine
=============================================================================
