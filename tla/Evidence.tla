------------------------------ MODULE Evidence ------------------------------
(***************************************************************************)
(* What the diagnostic agents compute from a batch of observations         *)
(* (internal/agent, internal/observation), as operators: detection of log  *)
(* patterns, metric anomalies and slow spans, the rule-based root cause    *)
(* analysis, the rule table of risks and the decoding of fix steps.  Texts *)
(* (labels, summaries, ids) are left out; confidences are in hundredths.   *)
(***************************************************************************)
EXTENDS Integers, Sequences

\* The numbers of the Severity enum, which Handle compares.
UNSPECIFIED == 0
DEBUG       == 1
INFO        == 2
WARN        == 3
ERROR       == 4
FATAL       == 5
Severity    == UNSPECIFIED..FATAL

\* observation.Validate for an observation whose id, session, source, type and
\* schema version have been filled in, as New and the agents do.
Validate(o) == o.severity # UNSPECIFIED /\ o.confidence \in 0..100

\* observation.New: the observation, or nothing but an error.
New(o) == IF Validate(o) THEN {o} ELSE {}

-----------------------------------------------------------------------------
(* The collectors.  An observation keeps what heuristicRCA looks at, its   *)
(* severity and, for a trace, whether the span took more than five         *)
(* seconds, and its confidence.                                            *)

Observed(sev, conf, slow) ==
    [severity |-> sev, confidence |-> conf, slow |-> slow]

\* logs[<<service, severity>>] is the number of log lines of that group.  A
\* group of errors gives one pattern, FATAL when it has more than five lines.
DetectLogPatterns(logs) ==
    { <<g, Observed(IF logs[g] > 5 THEN FATAL ELSE ERROR, 70, FALSE)>> :
        g \in { h \in DOMAIN logs : logs[h] > 0 /\ h[2] \in {ERROR, FATAL} } }

\* A metric [named, value, threshold, relation] breaches its threshold.
IsAnomaly(m) ==
    /\ m.named /\ m.threshold # 0
    /\ \/ m.relation = "gt" /\ m.value > m.threshold
       \/ m.relation = "lt" /\ m.value < m.threshold
       \/ m.relation = "eq" /\ m.value = m.threshold

DetectMetricAnomalies(m) ==
    IF ~IsAnomaly(m)                     THEN {}
    ELSE IF m.value > 5 * m.threshold    THEN {Observed(FATAL, 95, FALSE)}
    ELSE IF m.value > 2 * m.threshold    THEN {Observed(ERROR, 85, FALSE)}
    ELSE {Observed(WARN, 75, FALSE)}

\* Twice the 99th percentile, or one second when there is none.
SpanThreshold(t) == IF t.p99 = 0 THEN 1000 ELSE 2 * t.p99

DetectTraceBottlenecks(t) ==
    LET d == t.duration
        threshold == SpanThreshold(t)
    IN  IF ~t.named \/ d = 0 \/ d <= threshold THEN {}
        ELSE IF d > 5 * threshold THEN {Observed(FATAL, 95, d > 5000)}
        ELSE IF d > 3 * threshold THEN {Observed(ERROR, 85, d > 5000)}
        ELSE {Observed(WARN, 75, d > 5000)}

\* The collect command: each collector answers with one synthetic finding.
SyntheticLog    == Observed(ERROR, 75, FALSE)
SyntheticMetric == Observed(ERROR, 80, FALSE)
SyntheticTrace  == Observed(ERROR, 80, FALSE)

-----------------------------------------------------------------------------
(* Root cause analysis.  A tally counts a batch of observations.           *)

Conclusion(pattern, conf) == [pattern |-> pattern, confidence |-> conf]

\* Mutant: the rules for errors in the other order.
BugHeuristicRCA(tally) ==
    IF tally.errors > 10                        THEN Conclusion("database_connection_pool_exhaustion", 75)
    ELSE IF tally.errors > 5 /\ tally.slow > 0  THEN Conclusion("timeout_cascade", 80)
    ELSE IF tally.slow > 3                      THEN Conclusion("n_plus_one_query", 70)
    ELSE IF tally.warnings > 20                 THEN Conclusion("resource_leak", 65)
    ELSE Conclusion("unknown", 30)

HeuristicRCA(tally) ==
    IF tally.errors > 5 /\ tally.slow > 0       THEN Conclusion("timeout_cascade", 80)
    ELSE IF tally.errors > 10                   THEN Conclusion("database_connection_pool_exhaustion", 75)
    ELSE IF tally.slow > 3                      THEN Conclusion("n_plus_one_query", 70)
    ELSE IF tally.warnings > 20                 THEN Conclusion("resource_leak", 65)
    ELSE Conclusion("unknown", 30)

HeuristicRFACall == Conclusion("unknown", 30)

\* math.Min(math.Max(c, 0), 1)
Clamp(c) == IF c < 0 THEN 0 ELSE IF c > 100 THEN 100 ELSE c

\* What the analyze command brings along.
NoEvidence == [inputs |-> 0, errors |-> 0, warnings |-> 0, slow |-> 0]

\* Mutant: the confidence of the model is taken as it is.
BugRunRCA(answer, tally) ==
    IF answer.pattern # "" THEN answer
    ELSE IF tally.inputs > 0 THEN HeuristicRCA(tally) ELSE HeuristicRFACall

\* runRCA.  An answer without a pattern stands for one that is not usable: no
\* client, a failed call, no JSON, or a required field that is empty.
RunRCA(answer, tally) ==
    IF answer.pattern # "" THEN [answer EXCEPT !.confidence = Clamp(@)]
    ELSE IF tally.inputs > 0 THEN HeuristicRCA(tally) ELSE HeuristicRFACall

-----------------------------------------------------------------------------
(* Fix steps. *)

Step(action, risk) == [action |-> action, risk |-> risk]

\* json.Unmarshal into FixStep, which has no field tags: an object's member
\* "ActionType" fills the field in, a member "action_type" does not.
DecodeStep(json) ==
    Step(IF json.key = "ActionType" THEN json.action ELSE "", json.risk)

DefaultFixSteps(pattern) ==
    CASE pattern = "database_connection_pool_exhaustion" ->
            <<Step("scale_up", ""), Step("config_change", "")>>
      [] pattern = "timeout_cascade" ->
            <<Step("circuit_break", ""), Step("scale_up", "")>>
      [] pattern = "n_plus_one_query" ->
            <<Step("config_change", ""), Step("restart_pod", "")>>
      [] pattern = "resource_leak" ->
            <<Step("restart_pod", ""), Step("config_change", "")>>
      [] OTHER -> <<Step("restart_pod", "")>>

LowRisk    == {"restart_pod", "scale_up"}
MediumRisk == {"scale_down", "config_change", "circuit_break", "rate_limit",
               "gc_tune", "connection_pool_tune"}

\* Mutant: a risk that comes with the step wins.
BugAssessRisk(step) ==
    IF step.risk # "" THEN step.risk
    ELSE IF step.action \in LowRisk THEN "LOW"
    ELSE IF step.action \in MediumRisk THEN "MEDIUM" ELSE "HIGH"

\* assessRisk: an action type that the rules do not know is HIGH.
AssessRisk(step) ==
    IF step.action \in LowRisk THEN "LOW"
    ELSE IF step.action \in MediumRisk THEN "MEDIUM"
    ELSE "HIGH"
=============================================================================
