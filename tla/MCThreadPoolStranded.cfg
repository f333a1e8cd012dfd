SPECIFICATION FairSpec
CONSTANTS
    Tasks = {t1, t2}
    MinChoices = {0}
    MaxWorkers = 1
    MaxThreads = 2
    MaxCreated = 2
    MayRunOut = FALSE
    NoTask = NoTask
PROPERTY
    EveryTaskIsTaken
CHECK_DEADLOCK FALSE
