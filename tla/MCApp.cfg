SPECIFICATION FairSpec
CONSTANTS
    MaxScreens = 3
    MaxRequests = 3
    OtherFonts = 2
INVARIANTS
    ScreenInEveryFrame
    SurvivesAsCounted
    NothingUsedAfterRelease
PROPERTIES
    ExitReturns
    LeavingGoesOn
CHECK_DEADLOCK FALSE
