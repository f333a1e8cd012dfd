\* Three slots, a party of one, identifier halves of three bits.
CONSTANTS
    Jibanyan = Jibanyan
    Whisper = Whisper
    Komasan = Komasan
    NoRecord = NoRecord
    Game = YW1
    OtherGame = YW2
    Bodies <- MCBodies
    Transferable <- MCTransferable
    Games <- MCGames
    InitialSaves <- MCInitialSaves
    InitialBanks <- MCInitialBanks
    Slots = 3
    PartySize = 1
    NumberSpace = 8
    MaxEntries = 2
    MaxId = 3

SPECIFICATION Spec

INVARIANT TypeOK
INVARIANT SaveStaysConsistent
INVARIANT BankStaysOrdered
INVARIANT RollbackAlwaysFits
INVARIANT ShownPartyIsGuarded
INVARIANT CleanMeansNothingStaged

PROPERTY PartyUntouched
PROPERTY KeepsThePromise
