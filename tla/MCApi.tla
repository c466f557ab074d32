------------------------------- MODULE MCApi -------------------------------
(* Api with two sessions of two services and pages of one. *)
EXTENDS Api

CONSTANTS s1, s2

MCSessions == {s1, s2}
MCStart   == {"NONE", "CREATED", "VERIFYING"}
MCTarget   == (s1 :> "a") @@ (s2 :> "b")
MCFilters  == { [status |-> 0, target |-> ""], [status |-> 0, target |-> "a"],
                [status |-> 13, target |-> ""] }
=============================================================================
