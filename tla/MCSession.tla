------------------------------ MODULE MCSession ------------------------------
(***************************************************************************)
(* Module Session on small saves: every consistent save in which each      *)
(* Yo-kai has its own number, with any of the party positions blank.       *)
(***************************************************************************)
EXTENDS SessionProperties, TLC

CONSTANTS Jibanyan, Whisper, Komasan, OtherGame

MCHalves == <<0, 5>>
MCBodies == {Jibanyan, Whisper, Komasan}
MCTransferable == {Jibanyan}
MCGames == {Game, OtherGame}

\* Each Yo-kai of the save with the number the game gave it.
Native(b, half) == [body |-> b, number |-> <<half, (half + 1) % NumberSpace>>]
NativeRecords ==
    {Native(Jibanyan, MCHalves[1]), Native(Whisper, MCHalves[2])}
NativeNumbers == {r.number : r \in NativeRecords}

MCInitialSaves ==
    {image \in [slots : [Slot -> NativeRecords \cup {NoRecord}],
                index : [Slot -> NativeNumbers \cup {Blank}]] : Consistent(image)}

\* One entry banked from another game, one that shares the number of a
\* record of the save.
MCInitialBanks ==
    {EmptyBank,
     Appended(EmptyBank, OtherGame, Native(Jibanyan, 2)),
     Appended(EmptyBank, Game, Native(Komasan, MCHalves[1]))}

=============================================================================
