SPECIFICATION FairSpec
CONSTANTS
    Tasks = {t1, t2}
    MinChoices = {0, 1}
    MaxWorkers = 2
    MaxThreads = 2
    MaxCreated = 3
    MayRunOut = TRUE
    NoTask = NoTask
INVARIANTS
    PermitPerTask
    FreesWhatEnded
    NobodyOutlivesExit
PROPERTIES
    ExitReturns
    WorkersDrainQueue
    KeepsThePromise
    ExitGoesOn
CHECK_DEADLOCK FALSE
