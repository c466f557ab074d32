CONSTANTS
    Collectors = {"log"}
    NActions = 2
    Operators = {"op"}
    StartAt = "ANALYZING"
    PersistFixes = TRUE
    MaxRetries = 0
    MaxFaults = 1
    MaxCrashes = 1
SPECIFICATION Spec
INVARIANTS TypeOK NoUnapprovedRun RunAtMostOnce NothingRunsEarly ResolvedWithoutFailure
