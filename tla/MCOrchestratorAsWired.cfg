CONSTANTS
    Collectors = {"log", "metric"}
    NActions = 1
    Operators = {"op"}
    StartAt = "CREATED"
    PersistFixes = FALSE
    MaxRetries = 1
    MaxFaults = 0
    MaxCrashes = 0
SPECIFICATION FairSpec
PROPERTIES AnalyzingEnds FixActionAdvances
