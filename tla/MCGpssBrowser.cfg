SPECIFICATION FairSpec
CONSTANTS
    MaxRequests = 6
    MAX_ATTEMPTS = 2
    Companies = {{"browser"}, {"canceller", "download"}}
    Searches = {s1, s2}
    Totals = {1, 2, 3}
    PerPage = 1
    MaxChanges = 1
INVARIANTS
    AnswerIsComing
    AnsweredOnce
    WritesIntoOpenFile
    FileIsWhole
    PagesFit
PROPERTY
    NobodyWaitsForEver
CHECK_DEADLOCK FALSE
