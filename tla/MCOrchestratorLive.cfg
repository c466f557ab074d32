CONSTANTS
    Collectors = {"log"}
    NActions = 1
    Operators = {"op"}
    StartAt = "CREATED"
    PersistFixes = TRUE
    MaxRetries = 1
    MaxFaults = 1
    MaxCrashes = 1
SPECIFICATION FairSpec
PROPERTIES Implements CollectingEnds ProposedEnds VerifyingEnds
