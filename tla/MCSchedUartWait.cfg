SPECIFICATION Spec
CONSTANTS
    NULL = NULL
    NumTasks = 3
    TimeMod = 16
    Horizon = 2
    Durations <- MCDurations
    Sleepers <- TwoSleepers
    UartReaders <- OneReader
    ErrorAsleep <- NoErrors
INVARIANT NoActiveTaskLost
