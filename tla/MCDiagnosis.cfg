CONSTANTS
    LogBatches <- MCLogBatches
    Metrics <- MCMetrics
    Spans <- MCSpans
    Answers <- MCAnswers
    StepAnswers <- MCStepAnswers
    KnowledgeBase <- MCKnowledgeBase
    MaxTally <- MCMaxTally
    MaxDeliveries = 2
SPECIFICATION Spec
INVARIANTS RCAAlwaysAnswers NoDowngrade
PROPERTY ConfidenceGrows
\* the session's evidence may have been handled to the end
CHECK_DEADLOCK FALSE
