CONSTANTS
    N = 3
    Cap = 1
    MaxTries = 3
    MaxStops = 2
    MaxRebalances = 1
SPECIFICATION FairSpec
INVARIANTS CommittedIsAccounted LossBound
PROPERTY Delivered
CHECK_DEADLOCK FALSE
