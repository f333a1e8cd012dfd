----------------------------- MODULE MCConversion -----------------------------
(***************************************************************************)
(* Module Conversion on every valid distribution of Yo-kai Watch, on a     *)
(* sample of those of the later games, and on values no game would store.  *)
(***************************************************************************)
EXTENDS ConversionProperties

\* The distributions of a number of points in steps.
Distributions(n, points, step) ==
    {[s \in 1 .. n |-> IF s < n THEN f[s] ELSE points - Total(f)] :
        f \in {g \in [1 .. n - 1 -> {step * i : i \in 0 .. points \div step}] :
                   Total(g) =< points}}

\* Not a distribution, or not of so many points.
MCOdd == [Stat -> {0, 7, 255}]

\* The first value doubled, a fifth of zero where there is none.
Doubled(f) == [s \in Stat |-> IF s = 1 THEN 2 * f[1] ELSE IF s \in DOMAIN f THEN f[s] ELSE 0]

Later(step) == {Doubled(f) : f \in Distributions(5, 40, step)}

MCInitialIvs ==
    [g \in Games |->
        CASE g = "YW1"      -> Distributions(5, 10, 1) \cup MCOdd
          [] g = "Blasters" -> {Doubled(f) : f \in Distributions(4, 40, 5)} \cup MCOdd
          [] g = "YW2"      -> Later(5) \cup MCOdd
          [] OTHER          -> Later(10)]
===============================================================================
