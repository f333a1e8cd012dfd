\* One error during a commit of an exported save.
CONSTANTS
    Sources = {"export"}
    Missing = Missing
    Torn = Torn
    Written = Written
    MaxGen = 3
    MaxCrashes = 0
    MaxFailures = 1

SPECIFICATION Spec

INVARIANT FailureLeavesSave
