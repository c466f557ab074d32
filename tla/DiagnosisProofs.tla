-------------------------- MODULE DiagnosisProofs --------------------------
(***************************************************************************)
(* Proofs about what the agents compute, for any log batches, metrics and  *)
(* spans, any answers of the language model, any knowledge base and any    *)
(* number of deliveries.                                                   *)
(***************************************************************************)
EXTENDS Diagnosis, FiniteSetTheorems, TLAPS

-----------------------------------------------------------------------------
(***************************************************************************)
(* What the collectors report.                                             *)
(***************************************************************************)

\* Tagged observations whose severity is one that Validate accepts.
Batch(S) ==
    /\ IsFiniteSet(S)
    /\ \A x \in S : x[2].severity \in WARN..FATAL /\ Validate(x[2])

\* A log batch gives finitely many valid patterns.
LEMMA LogBatch ==
    ASSUME NEW logs \in LogBatches
    PROVE  Batch(DetectLogPatterns(logs))
  <1> DEFINE G == { h \in DOMAIN logs : logs[h] > 0 /\ h[2] \in {ERROR, FATAL} }
             pat(g) == <<g, Observed(IF logs[g] > 5 THEN FATAL ELSE ERROR, 70, FALSE)>>
  <1>1. IsFiniteSet(DOMAIN logs) /\ G \subseteq DOMAIN logs
    BY DiagnosisAssumption
  <1>2. IsFiniteSet(G)
    BY <1>1, FS_Subset
  <1>3. DetectLogPatterns(logs) = {pat(g) : g \in G}
    BY DEF DetectLogPatterns
  <1>4. IsFiniteSet({pat(g) : g \in G})
    <2> DEFINE T == {pat(g) : g \in G}
               f == [g \in G |-> pat(g)]
    <2>1. f \in [G -> T] /\ \A x \in T : \E g \in G : f[g] = x
      <3> HIDE DEF G, pat
      <3> QED OBVIOUS
    <2> HIDE DEF G, T, f
    <2>2. f \in Surjection(G, T)
      BY <2>1 DEF Surjection
    <2>3. IsFiniteSet(T)
      BY <1>2, <2>2, FS_Surjection
    <2> QED BY <2>3 DEF T
  <1>5. \A x \in {pat(g) : g \in G} : x[2].severity \in WARN..FATAL /\ Validate(x[2])
    BY DEF Observed, Validate, WARN, ERROR, FATAL, UNSPECIFIED
  <1> QED BY <1>3, <1>4, <1>5 DEF Batch

\* At most one observation is a batch.
LEMMA OneObservation ==
    ASSUME NEW tag, NEW D,
           D = {} \/ \E o : D = {o} /\ o.severity \in WARN..FATAL /\ Validate(o)
    PROVE  Batch({<<tag, o>> : o \in D})
  <1>1. CASE D = {}
    <2>1. {<<tag, o>> : o \in D} = {}
      BY <1>1
    <2> QED BY <2>1, FS_EmptySet DEF Batch
  <1>2. CASE \E o : D = {o} /\ o.severity \in WARN..FATAL /\ Validate(o)
    <2>1. PICK o : D = {o} /\ o.severity \in WARN..FATAL /\ Validate(o)
      BY <1>2
    <2>2. {<<tag, q>> : q \in D} = {<<tag, o>>}
      BY <2>1
    <2>3. IsFiniteSet({<<tag, o>>})
      BY FS_Singleton
    <2>4. \A x \in {<<tag, o>>} : x[2] = o
      OBVIOUS
    <2> QED BY <2>1, <2>2, <2>3, <2>4 DEF Batch
  <1> QED BY <1>1, <1>2

\* So are the findings of the metric agent, of the trace agent and of a
\* collect command.
LEMMA SmallBatches ==
    /\ \A m \in Metrics : Batch({<<"metric", o>> : o \in DetectMetricAnomalies(m)})
    /\ \A t \in Spans : Batch({<<"trace", o>> : o \in DetectTraceBottlenecks(t)})
    /\ \A o \in {SyntheticLog, SyntheticMetric, SyntheticTrace} :
          Batch({<<"collect", o>>})
  <1>0. ASSUME NEW b
        PROVE  \A o \in {Observed(FATAL, 95, b), Observed(ERROR, 85, b),
                         Observed(WARN, 75, b)} :
                  o.severity \in WARN..FATAL /\ Validate(o)
    BY DEF Observed, Validate, WARN, ERROR, FATAL, UNSPECIFIED
  <1>1. ASSUME NEW m \in Metrics
        PROVE  Batch({<<"metric", o>> : o \in DetectMetricAnomalies(m)})
    <2>1. \/ DetectMetricAnomalies(m) = {}
          \/ DetectMetricAnomalies(m) = {Observed(FATAL, 95, FALSE)}
          \/ DetectMetricAnomalies(m) = {Observed(ERROR, 85, FALSE)}
          \/ DetectMetricAnomalies(m) = {Observed(WARN, 75, FALSE)}
      BY Zenon DEF DetectMetricAnomalies
    <2>2. \A o \in {Observed(FATAL, 95, FALSE), Observed(ERROR, 85, FALSE),
                  Observed(WARN, 75, FALSE)} :
             o.severity \in WARN..FATAL /\ Validate(o)
      BY <1>0
    <2>3. \/ DetectMetricAnomalies(m) = {}
          \/ \E o : /\ DetectMetricAnomalies(m) = {o}
                   /\ o.severity \in WARN..FATAL /\ Validate(o)
      BY <2>1, <2>2
    <2> QED BY <2>3, OneObservation
  <1>2. ASSUME NEW t \in Spans
        PROVE  Batch({<<"trace", o>> : o \in DetectTraceBottlenecks(t)})
    <2>1. \/ DetectTraceBottlenecks(t) = {}
          \/ DetectTraceBottlenecks(t) = {Observed(FATAL, 95, t.duration > 5000)}
          \/ DetectTraceBottlenecks(t) = {Observed(ERROR, 85, t.duration > 5000)}
          \/ DetectTraceBottlenecks(t) = {Observed(WARN, 75, t.duration > 5000)}
      BY DEF DetectTraceBottlenecks
    <2>2. \A o \in {Observed(FATAL, 95, t.duration > 5000), Observed(ERROR, 85, t.duration > 5000),
                  Observed(WARN, 75, t.duration > 5000)} :
             o.severity \in WARN..FATAL /\ Validate(o)
      BY <1>0
    <2>3. \/ DetectTraceBottlenecks(t) = {}
          \/ \E o : /\ DetectTraceBottlenecks(t) = {o}
                   /\ o.severity \in WARN..FATAL /\ Validate(o)
      BY <2>1, <2>2
    <2> QED BY <2>3, OneObservation
  <1>3. ASSUME NEW o \in {SyntheticLog, SyntheticMetric, SyntheticTrace}
        PROVE  Batch({<<"collect", o>>})
    <2>1. o.severity \in WARN..FATAL /\ Validate(o)
      <3>1. o = Observed(ERROR, 75, FALSE) \/ o = Observed(ERROR, 80, FALSE)
        BY DEF SyntheticLog, SyntheticMetric, SyntheticTrace
      <3>2. /\ o.severity = ERROR /\ o.confidence \in 0..100
        BY <3>1 DEF Observed
      <3> QED BY <3>2 DEF Validate, WARN, ERROR, FATAL, UNSPECIFIED
    <2>2. Batch({<<"collect", q>> : q \in {o}})
      BY <2>1, OneObservation
    <2>3. {<<"collect", q>> : q \in {o}} = {<<"collect", o>>}
      OBVIOUS
    <2> QED BY <2>2, <2>3
  <1> QED BY <1>1, <1>2, <1>3

-----------------------------------------------------------------------------
(***************************************************************************)
(* The tally.                                                              *)
(***************************************************************************)

TallyType == [inputs : Nat, errors : Nat, warnings : Nat, slow : Nat]

\* A batch only adds to the tally: no count falls.
LEMMA ExtendedGrows ==
    ASSUME NEW t \in TallyType, NEW S, Batch(S)
    PROVE  /\ Extended(t, S) \in TallyType
           /\ Extended(t, S).errors >= t.errors
           /\ Extended(t, S).warnings >= t.warnings
           /\ Extended(t, S).slow >= t.slow
  <1> DEFINE E == {x \in S : x[2].severity \in {ERROR, FATAL}}
             W == {x \in S : x[2].severity = WARN}
             L == {x \in S : x[2].slow}
  <1>1. Extended(t, S) = [inputs   |-> t.inputs + Cardinality(S),
                          errors   |-> t.errors + Cardinality(E),
                          warnings |-> t.warnings + Cardinality(W),
                          slow     |-> t.slow + Cardinality(L)]
    BY DEF Extended, Tally
  <1>2. IsFiniteSet(S) /\ E \subseteq S /\ W \subseteq S /\ L \subseteq S
    BY DEF Batch
  <1>3. IsFiniteSet(E) /\ IsFiniteSet(W) /\ IsFiniteSet(L)
    BY <1>2, FS_Subset
  <1>4. /\ Cardinality(S) \in Nat /\ Cardinality(E) \in Nat
        /\ Cardinality(W) \in Nat /\ Cardinality(L) \in Nat
    BY <1>2, <1>3, FS_CardinalityType
  <1> HIDE DEF E, W, L
  <1>5. /\ t.inputs \in Nat /\ t.errors \in Nat /\ t.warnings \in Nat
        /\ t.slow \in Nat
    BY DEF TallyType
  <1>6. Extended(t, S) \in TallyType
    BY <1>1, <1>4, <1>5 DEF TallyType
  <1>7. /\ Extended(t, S).errors >= t.errors
        /\ Extended(t, S).warnings >= t.warnings
        /\ Extended(t, S).slow >= t.slow
    BY <1>1, <1>4, <1>5
  <1> QED BY <1>6, <1>7

\* The rules of heuristicRCA, taken in their order, give no less confidence
\* to a larger tally.
LEMMA HeuristicMonotone ==
    ASSUME NEW t \in TallyType, NEW u \in TallyType,
           u.errors >= t.errors, u.warnings >= t.warnings, u.slow >= t.slow
    PROVE  HeuristicRCA(u).confidence >= HeuristicRCA(t).confidence
  <1>1. /\ t.errors \in Nat /\ t.warnings \in Nat /\ t.slow \in Nat
        /\ u.errors \in Nat /\ u.warnings \in Nat /\ u.slow \in Nat
    BY DEF TallyType
  <1> QED BY <1>1 DEF HeuristicRCA, Conclusion

\* Whatever the model answers, the conclusion's confidence is one that
\* observation.New accepts.
LEMMA ConclusionValid ==
    ASSUME NEW answer \in Answers, NEW t
    PROVE  RunRCA(answer, t).confidence \in 0..100
  <1>1. answer \in [pattern : STRING, confidence : Int]
    BY DiagnosisAssumption
  <1>2. HeuristicRCA(t).confidence \in 0..100
    BY DEF HeuristicRCA, Conclusion
  <1>3. HeuristicRFACall.confidence \in 0..100
    BY DEF HeuristicRFACall, Conclusion
  <1>4. [answer EXCEPT !.confidence = Clamp(@)].confidence \in 0..100
    BY <1>1 DEF Clamp
  <1> QED BY <1>2, <1>3, <1>4 DEF RunRCA

-----------------------------------------------------------------------------
(***************************************************************************)
(* Reports and conclusion.                                                 *)
(***************************************************************************)

\* The tally has its type, and until the RCA agent has handled its command
\* there is no conclusion.
Pending ==
    /\ reported \in TallyType /\ analysed \in BOOLEAN
    /\ ~analysed => rca = {}

DInv == Pending /\ RCAAlwaysAnswers

\* The empty tally.
LEMMA NoEvidenceType == NoEvidence \in TallyType
  BY DEF NoEvidence, TallyType

\* A report extends the tally by the observations that are valid, which are
\* all of a collector's.
LEMMA ReportGrows ==
    ASSUME Pending, NEW S, Batch(S), Report(S)
    PROVE  /\ ~analysed /\ analysed' = analysed /\ rca' = rca
           /\ reported' \in TallyType
           /\ reported'.errors >= reported.errors
           /\ reported'.warnings >= reported.warnings
           /\ reported'.slow >= reported.slow
  <1>1. {x \in S : Validate(x[2])} = S
    BY DEF Batch
  <1>2. reported' = Extended(reported, S)
    BY <1>1 DEF Report
  <1>3. ~analysed /\ analysed' = analysed /\ rca' = rca
    BY DEF Report, analysis
  <1>4. reported \in TallyType
    BY DEF Pending
  <1> QED BY <1>2, <1>3, <1>4, ExtendedGrows

\* Each of the collectors' actions is a report of a batch.
LEMMA CollectorReports ==
    ASSUME HandleLogs \/ HandleMetric \/ HandleSpan \/ HandleCollect
    PROVE  \E S : Batch(S) /\ Report(S)
  <1>1. CASE HandleMetric
    BY <1>1, SmallBatches DEF HandleMetric
  <1>2. CASE HandleSpan
    BY <1>2, SmallBatches DEF HandleSpan
  <1>3. CASE HandleCollect
    BY <1>3, SmallBatches DEF HandleCollect
  <1>4. CASE HandleLogs
    BY <1>4, LogBatch DEF HandleLogs
  <1> QED BY <1>1, <1>2, <1>3, <1>4

\* Reports change neither the conclusion nor whether there is one.
LEMMA CollectorKeeps ==
    ASSUME DInv, HandleLogs \/ HandleMetric \/ HandleSpan \/ HandleCollect
    PROVE  DInv'
  <1>1. PICK S : Batch(S) /\ Report(S)
    BY CollectorReports
  <1>2. /\ ~analysed /\ analysed' = analysed /\ rca' = rca
        /\ reported' \in TallyType
    BY <1>1, ReportGrows DEF DInv
  <1> QED BY <1>2 DEF DInv, Pending, RCAAlwaysAnswers

\* The RCA agent publishes what it concludes on the analyze command.
LEMMA HandleAnalyzeKeeps ==
    ASSUME DInv, HandleAnalyze
    PROVE  DInv'
  <1>1. PICK answer \in Answers :
           rca' = New([pattern |-> RunRCA(answer, NoEvidence).pattern,
                       confidence |-> RunRCA(answer, NoEvidence).confidence,
                       severity |-> INFO])
    BY DEF HandleAnalyze
  <1> DEFINE c == RunRCA(answer, NoEvidence)
             r == [pattern |-> c.pattern, confidence |-> c.confidence,
                   severity |-> INFO]
  <1>2. analysed' = TRUE /\ reported' = NoEvidence
    BY DEF HandleAnalyze
  <1>3. c.confidence \in 0..100
    BY ConclusionValid
  <1>4. rca' = New(r)
    BY <1>1
  <1> HIDE DEF c
  <1>5. Validate(r)
    BY <1>3 DEF Validate, INFO, UNSPECIFIED
  <1> HIDE DEF r
  <1>6. rca' # {}
    BY <1>4, <1>5 DEF New
  <1> QED BY <1>2, <1>6, NoEvidenceType DEF DInv, Pending, RCAAlwaysAnswers

\* Nothing has been collected at the start.
LEMMA DiagnosisInit == Init => DInv
  BY NoEvidenceType DEF Init, DInv, Pending, RCAAlwaysAnswers

\* Every step keeps the invariant.
LEMMA DiagnosisStep == DInv /\ [Next]_vars => DInv'
  <1> SUFFICES ASSUME DInv, [Next]_vars
               PROVE  DInv'
    OBVIOUS
  <1>1. CASE UNCHANGED vars \/ HandleRCAResult
    <2>1. reported' = reported /\ analysed' = analysed /\ rca' = rca
      BY <1>1 DEF vars, HandleRCAResult, analysis
    <2> QED BY <2>1 DEF DInv, Pending, RCAAlwaysAnswers
  <1>2. CASE HandleLogs \/ HandleMetric \/ HandleSpan \/ HandleCollect
    BY <1>2, CollectorKeeps
  <1>3. CASE HandleAnalyze
    BY <1>3, HandleAnalyzeKeeps
  <1> QED BY <1>1, <1>2, <1>3 DEF Next

\* The invariant holds in every behaviour.
LEMMA DiagnosisInvariant == Spec => []DInv
  BY DiagnosisInit, DiagnosisStep, PTL DEF Spec

\* Whatever the model answers, the RCA agent publishes a conclusion: runRCA
\* always ends with a result that observation.New accepts.
THEOREM DiagnosisRCAAlwaysAnswers == Spec => []RCAAlwaysAnswers
  <1>1. DInv => RCAAlwaysAnswers
    BY DEF DInv
  <1> QED BY <1>1, DiagnosisInvariant, PTL

\* Over what the collectors have reported, the confidence of the rule-based
\* analysis never falls, although a further observation may change the rule
\* that applies.
THEOREM DiagnosisConfidenceGrows == Spec => ConfidenceGrows
  <1> DEFINE Grows == ~analysed' =>
        HeuristicRCA(reported').confidence >= HeuristicRCA(reported).confidence
  <1>1. DInv /\ [Next]_vars => [Grows]_vars
    <2> SUFFICES ASSUME DInv, Next, ~analysed'
                 PROVE  HeuristicRCA(reported').confidence
                           >= HeuristicRCA(reported).confidence
      OBVIOUS
    <2>0. Pending /\ reported \in TallyType
      BY DEF DInv, Pending
    <2>1. ASSUME NEW S, Batch(S), Report(S)
          PROVE  HeuristicRCA(reported').confidence
                    >= HeuristicRCA(reported).confidence
      BY <2>0, <2>1, ReportGrows, HeuristicMonotone
    <2>2. CASE HandleLogs \/ HandleMetric \/ HandleSpan \/ HandleCollect
      BY <2>1, <2>2, CollectorReports
    <2>3. CASE HandleRCAResult
      <3>1. reported' = reported
        BY <2>3 DEF HandleRCAResult
      <3> QED BY <2>0, <3>1, HeuristicMonotone DEF TallyType
    <2>4. ~HandleAnalyze
      BY DEF HandleAnalyze
    <2> QED BY <2>2, <2>3, <2>4 DEF Next
  <1> QED BY <1>1, DiagnosisInvariant, PTL DEF Spec, ConfidenceGrows

-----------------------------------------------------------------------------
(***************************************************************************)
(* Risk.                                                                   *)
(***************************************************************************)

\* A decoded step is never less risky than the plan's table says of the action
\* type that was asked for, whether the decoder kept the type or lost it;
\* scale_down is the one type of the table that the code rates lower.
LEMMA DecodedAsPlanned ==
    ASSUME NEW json, json.action # "scale_down"
    PROVE  RiskLevel(AssessRisk(DecodeStep(json))) >= PlannedLevel(json.action)
  <1>1. PlannedLevel(json.action) \in {0, 1, 2}
    BY DEF PlannedLevel
  <1>2. CASE DecodeStep(json).action = ""
    <2>1. AssessRisk(DecodeStep(json)) = "HIGH"
      BY <1>2 DEF AssessRisk, LowRisk, MediumRisk
    <2> QED BY <1>1, <2>1 DEF RiskLevel
  <1>3. CASE DecodeStep(json).action = json.action
    BY <1>3 DEF AssessRisk, LowRisk, MediumRisk, RiskLevel, PlannedLevel
  <1> QED BY <1>2, <1>3 DEF DecodeStep, Step

\* The JSON behind a plan is a sequence of steps.
LEMMA SourcesAreSteps ==
    ASSUME NEW pattern, NEW json \in Sources(pattern)
    PROVE  json \in Seq(JsonStep)
  BY DiagnosisAssumption DEF Sources, First, Candidates

\* Neither the model nor a knowledge-base entry talks the risk of a step down
\* (fix.go:260) below the table of PLAN.md:265, scale_down excepted.
THEOREM DiagnosisNoDowngrade == Spec => []NoDowngrade
  <1>1. Init => NoDowngrade
    BY DEF Init, NoDowngrade
  <1>2. NoDowngrade /\ [Next]_vars => NoDowngrade'
    <2> SUFFICES ASSUME NoDowngrade, [Next]_vars
                 PROVE  NoDowngrade'
      OBVIOUS
    <2>1. CASE HandleRCAResult
      <3>1. PICK r \in rca : MakePlan(r.pattern)
        BY <2>1 DEF HandleRCAResult
      <3>2. CASE asked' = <<>>
        BY <3>2 DEF NoDowngrade
      <3>3. ASSUME NEW json \in Sources(r.pattern), asked' = json,
                   plan' = [i \in 1..Len(json) |-> DecodeStep(json[i])]
            PROVE  NoDowngrade'
        <4>1. DOMAIN asked' = 1..Len(json)
          BY <3>3, SourcesAreSteps
        <4>2. \A i \in 1..Len(json) : plan'[i] = DecodeStep(asked'[i])
          BY <3>3
        <4> QED BY <4>1, <4>2, DecodedAsPlanned DEF NoDowngrade
      <3> QED BY <3>1, <3>2, <3>3 DEF MakePlan
    <2>2. CASE ~HandleRCAResult
      <3>1. asked' = asked /\ plan' = plan
        BY <2>2
        DEF Next, vars, fixing, HandleLogs, HandleMetric, HandleSpan,
            HandleCollect, HandleAnalyze, Report
      <3> QED BY <3>1 DEF NoDowngrade
    <2> QED BY <2>1, <2>2
  <1> QED BY <1>1, <1>2, PTL DEF Spec
=============================================================================
