SPECIFICATION FairSpec
CONSTANTS
    NULL = NULL
    NumTasks = 3
    TimeMod = 8
    Horizon = 2
    Durations <- MCDurations
    Sleepers <- TwoSleepers
    UartReaders <- NoReaders
    ErrorAsleep <- NoErrors
INVARIANTS
    TypeOK
    SchedInvariant
PROPERTIES
    NoOverdueSleeper
    NoEarlyWake
    ReadyTaskRuns
    SleeperWakes
    ImplementsTasks
