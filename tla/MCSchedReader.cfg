SPECIFICATION Spec
CONSTANTS
    NULL = NULL
    NumTasks = 3
    TimeMod = 8
    Horizon = 2
    Durations <- MCDurations
    Sleepers <- TwoSleepers
    UartReaders <- OneReader
    ErrorAsleep <- NoErrors
INVARIANTS
    OthersInvariant
PROPERTIES
    NoOverdueSleeper
    
