\* Valid and impossible values, over any number of transfers.
CONSTANTS
    InitialIvs <- MCInitialIvs
    InitialLevels = {0, 255}

SPECIFICATION Spec

INVARIANT AlwaysAccepted
INVARIANT ComesHomeUnchanged

PROPERTY OrderOfStatsKept
