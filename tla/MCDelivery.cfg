CONSTANTS
    Partitions = {"p", "q"}
    N = 2
    Cap = 2
    Threshold = 0
    MaxStops = 1
    MaxRebalances = 1
SPECIFICATION FairSpec
INVARIANTS CommitCoversSettled
PROPERTIES FreshGroupBackfills Settles
CHECK_DEADLOCK FALSE
