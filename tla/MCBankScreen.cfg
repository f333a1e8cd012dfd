\* Three slots, a party of one, two entries in the bank.
CONSTANTS
    Jibanyan = Jibanyan
    Whisper = Whisper
    NoRecord = NoRecord
    Game = YW1
    OtherGame = YW2
    Bodies <- MCBodies
    Transferable <- MCTransferable
    Games <- MCGames
    InitialSaves <- MCInitialSaves
    InitialBanks <- MCInitialBanks
    Rank <- MCRank
    SortModes = {"original", "name"}
    Slots = 3
    PartySize = 1
    NumberSpace = 4
    MaxEntries = 2
    MaxId = 3
    MaxCommitId = 2

SPECIFICATION ScreenSpec

INVARIANT ScreenShowsSession
INVARIANT QueuedDepositsAreGood
INVARIANT MarkedIdsWereHandedOut
INVARIANT MarkedSlotsAreTaken

PROPERTY ActsThroughSession
