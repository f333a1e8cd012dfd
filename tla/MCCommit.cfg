\* Three staged changes, two power losses and two errors, at any step.
CONSTANTS
    Sources = {"export", "title"}
    Missing = Missing
    Torn = Torn
    Written = Written
    MaxGen = 3
    MaxCrashes = 2
    MaxFailures = 2

SPECIFICATION Spec

INVARIANT TypeOK
INVARIANT SuccessIsDurable
INVARIANT SaveSurvivesPowerLoss
INVARIANT BackupBringsSaveBack
INVARIANT RollBackIsWhole
INVARIANT TitleHasBackup
