----------------------------- MODULE Diagnosis -----------------------------
(***************************************************************************)
(* One session on its way through the agents (the Handle functions of      *)
(* internal/agent): the collectors report what they detect to the          *)
(* orchestrator, which takes the first report as the signal to send the    *)
(* analyze command; the RCA agent, which is given no evidence, concludes;  *)
(* and the fix agent turns the conclusion into a plan, whose steps it      *)
(* persists and publishes.  The language model and the knowledge base may  *)
(* answer anything; inserts may fail; the RCA result may be delivered more *)
(* than once.                                                              *)
(***************************************************************************)
EXTENDS Evidence, FiniteSets

CONSTANTS
    LogBatches,     \* batches of raw log lines: functions for DetectLogPatterns
    Metrics,        \* payloads of raw metrics
    Spans,          \* payloads of raw spans
    Answers,        \* answers of the model to the RCA prompt
    StepAnswers,    \* parsed answers to the fix prompt: sequences of JSON steps
    KnowledgeBase,  \* entries [covers, rate, used, parsable, steps]
    MaxTally,       \* bound: the tally that stops the collection
    MaxDeliveries   \* bound: deliveries of the RCA result to the fix agent

\* An object of a JSON array of steps: the key of its action type, and values.
JsonStep == [key : STRING, action : STRING, risk : STRING]

ASSUME DiagnosisAssumption ==
    /\ \A logs \in LogBatches : IsFiniteSet(DOMAIN logs)
    /\ Answers \subseteq [pattern : STRING, confidence : Int]
    /\ StepAnswers \subseteq Seq(JsonStep)
    /\ \A e \in KnowledgeBase : e.steps \in Seq(JsonStep)
    /\ MaxDeliveries \in Nat

VARIABLES
    reported,    \* tally of what the collectors have told the orchestrator
    analysed,    \* the RCA agent has handled its message
    rca,         \* its RCA_RESULT: none or one
    pool,        \* the fix agent has a database pool
    deliveries,  \* deliveries of the RCA result handled by the fix agent
    asked,       \* JSON steps behind the plan of the last delivery
    plan,        \* steps of the last delivery
    rows,        \* fix_actions rows of the session
    emitted      \* FIX_ACTION observations of the last delivery

analysis == <<analysed, rca>>
fixing   == <<deliveries, asked, plan, rows, emitted>>
vars     == <<reported, analysis, pool, fixing>>

Tally(S, p(_)) == Cardinality({x \in S : p(x[2])})

\* The tally extended by a set of tagged observations.
Extended(t, S) ==
    [inputs   |-> t.inputs + Cardinality(S),
     errors   |-> t.errors + Tally(S, LAMBDA o : o.severity \in {ERROR, FATAL}),
     warnings |-> t.warnings + Tally(S, LAMBDA o : o.severity = WARN),
     slow     |-> t.slow + Tally(S, LAMBDA o : o.slow)]

Init ==
    /\ reported = NoEvidence
    /\ analysed = FALSE /\ rca = {}
    /\ pool \in BOOLEAN
    /\ deliveries = 0 /\ asked = <<>> /\ plan = <<>> /\ rows = {} /\ emitted = {}

-----------------------------------------------------------------------------
(* The collectors.  What they report after the analysis was requested is   *)
(* dropped by the event loop (see Orchestrator).  The orchestrator sends   *)
(* them collect commands; raw payloads on the same topics are the other    *)
(* thing that Handle accepts.                                              *)

Report(S) ==
    /\ ~analysed
    /\ reported' = Extended(reported, {x \in S : Validate(x[2])})
    /\ \A f \in DOMAIN MaxTally : reported'[f] <= MaxTally[f]
    /\ UNCHANGED <<analysis, pool, fixing>>

\* LogAgent.Handle on raw lines.
HandleLogs == \E logs \in LogBatches : Report(DetectLogPatterns(logs))

\* MetricAgent.Handle on a raw metric.
HandleMetric ==
    \E m \in Metrics : Report({<<"metric", o>> : o \in DetectMetricAnomalies(m)})

\* TraceAgent.Handle on a raw span.
HandleSpan ==
    \E t \in Spans : Report({<<"trace", o>> : o \in DetectTraceBottlenecks(t)})

\* A collect command to one of the collectors.
HandleCollect ==
    \E o \in {SyntheticLog, SyntheticMetric, SyntheticTrace} :
        Report({<<"collect", o>>})

-----------------------------------------------------------------------------
(* The RCA agent. *)

\* RCAgent.Handle on the analyze command, which the orchestrator sends after
\* the first report.  The command carries no evidence, and nothing of what was
\* reported is kept.
HandleAnalyze ==
    /\ ~analysed /\ reported.inputs > 0
    /\ \E answer \in Answers :
          LET c == RunRCA(answer, NoEvidence)
          IN  rca' = New([pattern |-> c.pattern, confidence |-> c.confidence,
                          severity |-> INFO])
    /\ analysed' = TRUE /\ reported' = NoEvidence
    /\ UNCHANGED <<pool, fixing>>

-----------------------------------------------------------------------------
(* The fix agent. *)

\* searchKnowledgeBase: entries whose pattern contains the searched one and
\* whose steps can be parsed.
Candidates(pattern) ==
    {e \in KnowledgeBase : pattern \in e.covers /\ e.parsable}

\* ORDER BY success_rate DESC, times_used DESC: the entries that may be first.
First(C) ==
    {e \in C : \A f \in C : e.rate > f.rate \/ (e.rate = f.rate /\ e.used >= f.used)}

\* The JSON steps that the plan may be made from.  The search finds nothing
\* without a pool, and it may fail.
Sources(pattern) ==
    (IF pool THEN {e.steps : e \in First(Candidates(pattern))} ELSE {})
    \cup StepAnswers

\* The steps of FixAgent.Handle: decoded from the knowledge base or the model,
\* or the defaults when the model gives none.
MakePlan(pattern) ==
    \/ \E json \in Sources(pattern) :
          /\ asked' = json
          /\ plan' = [i \in 1..Len(json) |-> DecodeStep(json[i])]
    \/ /\ asked' = <<>>
       /\ plan' = DefaultFixSteps(pattern)

\* Every step is published, one that could not be persisted too.
Emitted(r, failed) == {i \in 1..Len(plan') : Validate(r)}

\* FixActionDAO.Create: a second row for the same (session_id, seq) violates
\* uq_fix_actions_session_seq.
Insert(new) == rows \cup {n \in new : \A r \in rows : r.seq # n.seq}

\* The row of a step; HIGH risk requires approval.
FixRow(i, step) ==
    [seq |-> i, action |-> step.action, risk |-> AssessRisk(step),
     approval |-> AssessRisk(step) = "HIGH"]

\* FixAgent.Handle: per step the risk, the row and the observation.
HandleRCAResult ==
    /\ deliveries < MaxDeliveries
    /\ deliveries' = deliveries + 1
    /\ \E r \in rca :
        /\ MakePlan(r.pattern)
        /\ \E failed \in SUBSET (1..Len(plan')) :
              /\ pool \/ failed = {}
              /\ rows' = IF pool THEN Insert({FixRow(i, plan'[i]) : i \in (1..Len(plan')) \ failed})
                                 ELSE rows
              /\ emitted' = Emitted(r, failed)
    /\ UNCHANGED <<reported, analysis, pool>>

Next ==
    \/ HandleLogs \/ HandleMetric \/ HandleSpan \/ HandleCollect
    \/ HandleAnalyze \/ HandleRCAResult

Spec == Init /\ [][Next]_vars

-----------------------------------------------------------------------------
(***************************************************************************)
(* The RCA agent always publishes a conclusion: whatever the model answers *)
(* (nothing, nonsense, a confidence of 1.3), runRCA ends with a result     *)
(* that observation.New accepts, so the session is not left in ANALYZING.  *)
(***************************************************************************)
RCAAlwaysAnswers == analysed => rca # {}

(***************************************************************************)
(* The rule-based analysis is monotone: over what the collectors have      *)
(* reported so far its confidence never falls, although a further          *)
(* observation may change the rule of heuristicRCA that applies.  This is  *)
(* about the rules: as wired, the RCA agent is not given the reports.      *)
(***************************************************************************)
ConfidenceGrows ==
    [][~analysed' =>
        HeuristicRCA(reported').confidence >= HeuristicRCA(reported).confidence]_vars

\* The least level of risk PLAN.md:265 asks of an action type, in the order
\* LOW, MEDIUM, HIGH; a type that neither the plan nor assessRisk lists is to
\* "fail closed" (fix.go:283), and of those that only assessRisk lists the plan
\* asks nothing.
PlannedLevel(action) ==
    CASE action \in {"restart_pod", "scale_up"} -> 0
      [] action = "config_change" -> 1
      [] action \in {"scale_down", "switch_master", "data_migration"} -> 2
      [] action \in {"rollback_deploy", "circuit_break", "rate_limit",
                     "gc_tune", "connection_pool_tune"} -> 0
      [] OTHER -> 2

RiskLevel(risk) == CASE risk = "LOW" -> 0 [] risk = "MEDIUM" -> 1 [] OTHER -> 2

(***************************************************************************)
(* Neither the model nor a knowledge-base entry can talk the risk of a     *)
(* step down (fix.go:260): a step is rated at least as high as the plan's  *)
(* table rates the action type it was asked for with, whatever risk it     *)
(* claims and however it is decoded.  The one exception is scale_down: the *)
(* plan says HIGH, assessRisk says MEDIUM (fix.go:268).                    *)
(***************************************************************************)
NoDowngrade ==
    \A i \in DOMAIN asked :
        asked[i].action # "scale_down" =>
            RiskLevel(AssessRisk(plan[i])) >= PlannedLevel(asked[i].action)
=============================================================================
