CONSTANTS
    Collectors = {"log"}
    NActions = 1
    Operators = {"op"}
    StartAt = "ANALYZING"
    PersistFixes = TRUE
    MaxRetries = 0
    MaxFaults = 0
    MaxCrashes = 0
SPECIFICATION FairSpec
PROPERTY ApprovedIsExecuted
