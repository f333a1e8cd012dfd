---------------------------- MODULE MCBankScreen ----------------------------
(***************************************************************************)
(* Module BankScreen on one save of three slots: a party member and a      *)
(* Yo-kai in reserve, and a bank with one of another game.                 *)
(***************************************************************************)
EXTENDS BankScreenProperties, TLC

CONSTANTS Jibanyan, Whisper, OtherGame

MCBodies == {Jibanyan, Whisper}
MCGames == {Game, OtherGame}
MCTransferable == {Jibanyan}

MCRank == [name  |-> (Jibanyan :> 1 @@ Whisper :> 2),
           level |-> (Jibanyan :> 2 @@ Whisper :> 1)]

MCRecord(b, half) == [body |-> b, number |-> <<half, (half + 1) % NumberSpace>>]

MCInitialSaves ==
    {[slots |-> (0 :> MCRecord(Jibanyan, 1) @@ 1 :> MCRecord(Whisper, 0) @@ 2 :> NoRecord),
      index |-> (0 :> <<0, 1>> @@ 1 :> <<1, 2>> @@ 2 :> Blank)]}

MCInitialBanks == {Appended(EmptyBank, OtherGame, MCRecord(Whisper, 2)),
                   Appended(EmptyBank, OtherGame, MCRecord(Jibanyan, 2))}
=============================================================================
