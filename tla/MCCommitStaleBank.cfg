\* One power loss during the second commit of an exported save.
CONSTANTS
    Sources = {"export"}
    Missing = Missing
    Torn = Torn
    Written = Written
    MaxGen = 3
    MaxCrashes = 1
    MaxFailures = 0

SPECIFICATION Spec

INVARIANT BankNotBehindSave
