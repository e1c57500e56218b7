SPECIFICATION Spec
CONSTANTS
    NULL = NULL
    NumTasks = 3
    TimeMod = 16
    Horizon = 2
    Durations <- MCDurations
    Sleepers <- TwoSleepers
    UartReaders <- NoReaders
    ErrorAsleep <- OneError
INVARIANT OnOneQueue
