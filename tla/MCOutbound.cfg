CONSTANTS
    Actions = {a1, a2}
    Configs = {good, bad, nowhere}
    Healthy = {good}
    Malformed = {nowhere}
    MaxAttempts = 3
SPECIFICATION FairSpec
INVARIANTS NoticeFindsRequest DuplicatesHaveCause
PROPERTIES HealthyIsReached
\* the gate and its deliveries end
CHECK_DEADLOCK FALSE
