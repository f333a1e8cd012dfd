------------------------- MODULE ConversionProperties -------------------------
(***************************************************************************)
(* The correctness properties of module Conversion.                        *)
(***************************************************************************)
EXTENDS Conversion

\* The variables keep their types.
TypeOK ==
    /\ game \in Games /\ iv \in [Stat -> Byte] /\ level \in Byte
    /\ origin \in [game : Games, iv : [Stat -> Byte]]
    /\ coarse \in BOOLEAN

\* What convertRecord builds always passes validateRecord, whatever the save
\* held: no Yo-kai is stuck in the bank for the rounding of its values.
AlwaysAccepted ==
    \A target \in Games \ {game} :
        \A made \in {ConvertedIvs(game, target, iv)} :
            ValidRecord(target, made, Clamped(level))

\* A Yo-kai that was valid and has been in no coarser game comes home with
\* the values it left with, whatever games it has been in.
ComesHomeUnchanged ==
    /\ ValidIvs(origin.game, origin.iv)
    /\ ~ coarse
    /\ game = origin.game
    => Read(game, iv) = Read(game, origin.iv)

\* A transfer of a valid record never turns a stronger stat into a weaker
\* one, in the stats that both games have.
OrderOfStatsKept ==
    [][ ValidIvs(game, iv) =>
        LET old == Points(game, Read(game, iv))
            new == Points(game', Read(game', iv'))
        IN  \A s, t \in Stats(game) \cap Stats(game') :
                old[s] > old[t] => new[s] >= new[t] ]_vars
===============================================================================
