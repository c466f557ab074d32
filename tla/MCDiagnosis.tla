---------------------------- MODULE MCDiagnosis ----------------------------
(* Diagnosis on a few payloads around the limits of the detectors' rules. *)
EXTENDS Diagnosis

MCLogBatches ==
    {[g \in {"orders", "users"} \X {INFO, ERROR, FATAL} |->
        IF g = <<s, v>> THEN n ELSE IF g = <<"users", INFO>> THEN 1 ELSE 0] :
            s \in {"orders", "users"}, v \in {INFO, ERROR, FATAL}, n \in {1, 5, 6}}

MCMetrics ==
    {[named |-> TRUE, value |-> v, threshold |-> t, relation |-> r] :
        v \in {0, 20, 21, 51}, t \in {0, 10}, r \in {"gt", "lt", "eq"}}

MCSpans ==
    {[named |-> n, duration |-> d, p99 |-> p] :
        n \in BOOLEAN, d \in {0, 1000, 1001, 5000, 5001}, p \in {0, 2000}}

MCAnswers ==
    {[pattern |-> "", confidence |-> 0]}
    \cup {[pattern |-> p, confidence |-> c] :
            p \in {"timeout_cascade", "disk_full"}, c \in {-20, 60, 130}}

MCJson(k, a, r) == [key |-> k, action |-> a, risk |-> r]

MCStepAnswers ==
    {<<>>,
     <<MCJson("action_type", "restart_pod", "LOW")>>,
     <<MCJson("ActionType", "restart_pod", "HIGH"), MCJson("ActionType", "switch_master", "LOW")>>,
     <<MCJson("action_type", "drop_tables", "LOW"), MCJson("ActionType", "config_change", "LOW")>>}

MCEntry(c, r, u, ok, s) ==
    [covers |-> c, rate |-> r, used |-> u, parsable |-> ok, steps |-> s]

MCKnowledgeBase ==
    {MCEntry({"timeout_cascade"}, 90, 3, FALSE, <<>>),
     MCEntry({"timeout_cascade"}, 80, 3, TRUE, <<MCJson("ActionType", "rollback_deploy", "LOW")>>),
     MCEntry({"timeout_cascade"}, 80, 1, TRUE, <<MCJson("action_type", "scale_up", "LOW")>>),
     MCEntry({"unknown", "timeout_cascade"}, 10, 9, TRUE, <<MCJson("ActionType", "config_change", "")>>)}

MCMaxTally == [errors |-> 11, warnings |-> 21, slow |-> 4]
=============================================================================
