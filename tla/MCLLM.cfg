CONSTANTS
    Callers = {c1, c2}
    MinInterval = 2
    MaxAttempts = 2
    Backoff <- MCBackoff
    MaxCalls = 1
    MaxTime = 3
SPECIFICATION FairSpec
INVARIANTS SlotsSpaced RateBound
PROPERTY ChatReturns
\* all calls may have returned
CHECK_DEADLOCK FALSE
