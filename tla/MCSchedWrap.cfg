SPECIFICATION Spec
CONSTANTS
    NULL = NULL
    NumTasks = 3
    TimeMod = 4
    Horizon = 5
    Durations <- MCDurations
    Sleepers <- TwoSleepers
    UartReaders <- NoReaders
    ErrorAsleep <- NoErrors
PROPERTY NoEarlyWake
