SPECIFICATION Spec
CONSTANTS
    NULL = NULL
    NumTasks = 3
    TimeMod = 16
    Horizon = 8
    Durations <- MCDurations
    Sleepers <- ThreeSleepers
    UartReaders <- NoReaders
    ErrorAsleep <- NoErrors
PROPERTY NoOverdueSleeper
