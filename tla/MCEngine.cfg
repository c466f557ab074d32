CONSTANTS
    Sessions = {s1}
    Start = {"NONE", "FIX_PROPOSED"}
    Workers = {w1, w2}
    Events = {"START_COLLECT", "FIX_GENERATED", "IGNORE", "RETRY"}
    MaxAttempts = 3
    NoWorker = NoWorker
SPECIFICATION FairSpec
INVARIANTS RowLock ReadIsCurrent OneWinner HistoryIsPath TimelineSound
PROPERTIES Implements CallReturns
