------------------------------ MODULE Conversion ------------------------------
(***************************************************************************)
(* What a Yo-kai's individual values and level become when it changes      *)
(* games (src/common/source/yokai/Transfer.cpp), over any number of         *)
(* transfers: each withdrawal into another game rebuilds the record, and    *)
(* the next one starts from what the last one made.                        *)
(*                                                                         *)
(* Five values are stored.  Yo-kai Watch gives ten points to them; the     *)
(* later games give forty and store the first doubled; Blasters has no     *)
(* fifth value.  Nickname, experience, temperament, health, owner and      *)
(* moves are copied or defaulted on the way and not modelled, nor is the   *)
(* species, which decides whether there is a transfer at all.              *)
(***************************************************************************)
EXTENDS Integers, FiniteSets

CONSTANTS
    InitialIvs,    \* for each game, the values a record may have in a save
    InitialLevels  \* and its level

Games == {"YW1", "YW2", "YW3", "Blasters", "Busters2"}
Stat  == 1 .. 5
Stats(g) == IF g = "Blasters" THEN 1 .. 4 ELSE Stat
Byte  == 0 .. 255

VARIABLES
    game, iv, level,    \* the record
    origin,             \* history: the game and the values it began with
    coarse              \* history: it has been in a game that keeps less

vars == <<game, iv, level, origin, coarse>>

ASSUME ConversionAssumption ==
    /\ DOMAIN InitialIvs = Games
    /\ \A g \in Games : InitialIvs[g] \subseteq [Stat -> Byte]
    /\ InitialLevels \subseteq Byte

-----------------------------------------------------------------------------
(* The points behind the stored values *)

Total(points) ==
    LET Of(s) == IF s \in DOMAIN points THEN points[s] ELSE 0
    IN  Of(1) + Of(2) + Of(3) + Of(4) + Of(5)

\* Nothing is read behind the values the game has.
Read(g, stored) ==
    [s \in Stat |-> IF s \notin Stats(g) THEN 0
                    ELSE IF g = "YW1" THEN stored[s] % 16
                    ELSE stored[s]]

Points(g, stored) ==
    [s \in Stats(g) |-> IF g # "YW1" /\ s = 1 THEN stored[1] \div 2 ELSE stored[s]]

Even(stored) == stored[1] % 2 = 0

\* Variant: whatever the rounding leaves over is dropped.
ScaleDown(points, target) ==
    [s \in DOMAIN points |-> (points[s] * target) \div Total(points)]

\* Variant: the smallest remainders first.
ScaleSmallestFirst(points, target) ==
    LET total        == Total(points)
        Share(s)     == (points[s] * target) \div total
        Remainder(s) == (points[s] * target) % total
        Before(s, t) == \/ Remainder(s) < Remainder(t)
                        \/ Remainder(s) = Remainder(t) /\ s < t
        remaining    == target - Total([s \in DOMAIN points |-> Share(s)])
    IN  [s \in DOMAIN points |->
            Share(s) + IF Cardinality({t \in DOMAIN points : Before(t, s)}) < remaining
                       THEN 1 ELSE 0]

\* scale(): each stat its share, rounded down, and one more for the largest
\* remainders, until the target is reached.
Scale(points, target) ==
    LET total        == Total(points)
        Share(s)     == (points[s] * target) \div total
        Remainder(s) == (points[s] * target) % total
        Before(s, t) == \/ Remainder(s) > Remainder(t)
                        \/ Remainder(s) = Remainder(t) /\ points[s] > points[t]
                        \/ Remainder(s) = Remainder(t) /\ points[s] = points[t] /\ s < t
        remaining    == target - Total([s \in DOMAIN points |-> Share(s)])
    IN  [s \in DOMAIN points |->
            Share(s) + IF Cardinality({t \in DOMAIN points : Before(t, s)}) < remaining
                       THEN 1 ELSE 0]

\* Forty points as the later games store them.
Stored(points) ==
    [s \in Stat |-> IF s \notin DOMAIN points THEN 0
                    ELSE IF s = 1 THEN 2 * points[1]
                    ELSE points[s]]

Default == Stored(<<8, 8, 8, 8, 8>>)

\* Variant: the first value is taken as it is stored.
ToYW1Unhalved(stored) ==
    IF Even(stored) /\ Total(stored) # 0 THEN Scale(stored, 10) ELSE [s \in Stat |-> 2]

ToYW1(stored) ==
    LET points == [stored EXCEPT ![1] = @ \div 2]
    IN  IF Even(stored) /\ Total(points) # 0 THEN Scale(points, 10) ELSE [s \in Stat |-> 2]

\* An odd first value is rounded down here, and a default elsewhere.
ToBlasters(stored) ==
    LET points == Points("Blasters", stored)
    IN  IF Total(points) # 0 THEN Stored(Scale(points, 40)) ELSE Stored(<<10, 10, 10, 10>>)

ToLater(stored) ==
    IF Even(stored) /\ Total(Points("YW2", stored)) = 40 THEN stored ELSE Default

\* convertedIvs()
ConvertedIvs(source, target, stored) ==
    LET own  == Read(source, stored)
        from == IF source # "YW1" THEN own
                ELSE IF Total(own) = 0 THEN Default
                ELSE Stored(Scale(own, 40))
    IN  CASE target = "YW1"      -> ToYW1(from)
          [] target = "Blasters" -> ToBlasters(from)
          [] OTHER               -> ToLater(from)

\* std::clamp
Clamped(l) == IF l < 1 THEN 1 ELSE IF l > 99 THEN 99 ELSE l

\* validateRecord()
ValidIvs(g, stored) ==
    LET own == Read(g, stored)
    IN  IF g = "YW1" THEN Total(own) = 10
        ELSE Even(own) /\ Total(Points(g, own)) = 40

ValidRecord(g, stored, l) == ValidIvs(g, stored) /\ l \in 1 .. 99

-----------------------------------------------------------------------------

Init ==
    /\ game \in Games
    /\ iv \in InitialIvs[game]
    /\ level \in InitialLevels
    /\ origin = [game |-> game, iv |-> iv]
    /\ coarse = FALSE

\* The games that cannot tell apart what this one can.
Coarser(g) == CASE g = "YW1" -> {"Blasters"} [] g = "Blasters" -> {"YW1"}
                [] OTHER -> {"YW1", "Blasters"}

\* convertRecord(): a bank entry withdrawn into another game, and banked again
Convert(target) ==
    /\ target # game
    /\ game' = target
    /\ iv' = ConvertedIvs(game, target, iv)
    /\ level' = Clamped(level)
    /\ ValidRecord(target, iv', level')
    /\ coarse' = (coarse \/ target \in Coarser(origin.game))
    /\ UNCHANGED origin

Next == \E target \in Games : Convert(target)

Spec == Init /\ [][Next]_vars

===============================================================================
