--------------------------- MODULE ConversionProofs ---------------------------
(***************************************************************************)
(* Proofs of the properties of ConversionProperties, for every record a    *)
(* save can hold: any five bytes as its values, any byte as its level.     *)
(*                                                                         *)
(* All of them rest on what scale() promises (ScaledPoints): it gives out  *)
(* exactly the points asked for, keeps the order of the stats, and finds   *)
(* the exact solution when there is one.                                   *)
(***************************************************************************)
EXTENDS ConversionProperties, FiniteSetTheorems, TLAPS

Four == 1 .. 4

-----------------------------------------------------------------------------
(* Arithmetic *)

(***************************************************************************)
(* Division by a positive number.                                          *)
(***************************************************************************)
LEMMA Remainder ==
    ASSUME NEW a \in Nat, NEW b \in Nat, b > 0
    PROVE  a % b \in 0 .. b - 1
OBVIOUS

LEMMA Quotient ==
    ASSUME NEW a \in Nat, NEW b \in Nat, b > 0
    PROVE  /\ a \div b \in Nat /\ a % b \in Nat /\ a % b < b
           /\ a = b * (a \div b) + (a % b)
<1>1. a % b \in 0 .. b - 1
  BY Remainder
<1>2. a \div b \in Int
  OBVIOUS
<1>3. a = b * (a \div b) + (a % b)
  OBVIOUS
<1>4. ASSUME NEW q \in Int, b * q >= 1 - b
      PROVE  q >= 0
  BY <1>4
<1>5. b * (a \div b) \in Int
  BY <1>2
<1>6. b * (a \div b) >= 1 - b
  BY <1>1, <1>3, <1>5
<1>7. a \div b >= 0
  BY <1>2, <1>4, <1>6
<1>8. QED
  BY <1>1, <1>2, <1>3, <1>7

LEMMA Distributes ==
    ASSUME NEW c \in Int, NEW a \in Int, NEW b \in Int
    PROVE  c * (a - b) = c * a - c * b
OBVIOUS

(***************************************************************************)
(* A set of stats has as many elements as it says of each.                 *)
(***************************************************************************)
One(S, s) == IF s \in S THEN 1 ELSE 0

LEMMA CountOfStats ==
    ASSUME NEW S \in SUBSET Stat
    PROVE  /\ IsFiniteSet(S)
           /\ Cardinality(S) = One(S, 1) + One(S, 2) + One(S, 3) + One(S, 4) + One(S, 5)
<1> DEFINE A(n) == {x \in S : x =< n}
<1>0. \A x \in S : x \in Int /\ 0 < x /\ x =< 5
  BY DEF Stat
<1>1. A(0) = {} /\ A(5) = S
  BY <1>0
<1>2. ASSUME NEW n \in 0 .. 4
      PROVE  /\ A(n + 1) = IF n + 1 \in S THEN A(n) \cup {n + 1} ELSE A(n)
             /\ n + 1 \notin A(n)
  <2>1. \A x \in S : x =< n + 1 <=> x =< n \/ x = n + 1
    BY <1>0
  <2>2. QED
    BY <2>1
<1> HIDE DEF A
<1>3. IsFiniteSet(A(0)) /\ Cardinality(A(0)) = 0
  BY <1>1, FS_EmptySet
<1>4. ASSUME NEW n \in 0 .. 4, IsFiniteSet(A(n)), Cardinality(A(n)) \in Nat
      PROVE  IsFiniteSet(A(n + 1)) /\ Cardinality(A(n + 1)) = Cardinality(A(n)) + One(S, n + 1)
  <2>1. CASE n + 1 \in S
    <3>1. A(n + 1) = A(n) \cup {n + 1} /\ n + 1 \notin A(n)
      BY <1>2, <2>1
    <3>2. /\ IsFiniteSet(A(n) \cup {n + 1})
          /\ Cardinality(A(n) \cup {n + 1}) = Cardinality(A(n)) + 1
      BY <1>4, <3>1, FS_AddElement
    <3>3. QED
      BY <2>1, <3>1, <3>2 DEF One
  <2>2. CASE n + 1 \notin S
    BY <1>2, <1>4, <2>2 DEF One
  <2>3. QED
    BY <2>1, <2>2
<1>5. \A n \in 1 .. 5 : One(S, n) \in Nat
  BY DEF One
<1>6. IsFiniteSet(A(1)) /\ Cardinality(A(1)) = One(S, 1)
  BY <1>3, <1>4, <1>5
<1>7. IsFiniteSet(A(2)) /\ Cardinality(A(2)) = One(S, 1) + One(S, 2)
  BY <1>4, <1>5, <1>6
<1>8. IsFiniteSet(A(3)) /\ Cardinality(A(3)) = One(S, 1) + One(S, 2) + One(S, 3)
  BY <1>4, <1>5, <1>7
<1>9. IsFiniteSet(A(4)) /\ Cardinality(A(4)) = One(S, 1) + One(S, 2) + One(S, 3) + One(S, 4)
  BY <1>4, <1>5, <1>8
<1>10. IsFiniteSet(A(5)) /\ Cardinality(A(5)) = One(S, 1) + One(S, 2) + One(S, 3) + One(S, 4) + One(S, 5)
  BY <1>4, <1>5, <1>9
<1>11. QED
  BY <1>1, <1>10

(***************************************************************************)
(* In a strict total order on five stats as many of them come among the    *)
(* first k as that: said of the bits that tell for each two of them        *)
(* whether the first of the two comes first.                               *)
(***************************************************************************)
LEMMA FirstBits ==
    ASSUME NEW b12 \in {0, 1}, NEW b13 \in {0, 1}, NEW b14 \in {0, 1}, NEW b15 \in {0, 1},
           NEW b23 \in {0, 1}, NEW b24 \in {0, 1}, NEW b25 \in {0, 1},
           NEW b34 \in {0, 1}, NEW b35 \in {0, 1}, NEW b45 \in {0, 1},
           b12 = b23 => b13 = b12, b12 = b24 => b14 = b12, b12 = b25 => b15 = b12,
           b13 = b34 => b14 = b13, b13 = b35 => b15 = b13, b14 = b45 => b15 = b14,
           b23 = b34 => b24 = b23, b23 = b35 => b25 = b23, b24 = b45 => b25 = b24,
           b34 = b45 => b35 = b34,
           NEW k \in 0 .. 4
    PROVE    (IF (1 - b12) + (1 - b13) + (1 - b14) + (1 - b15) < k THEN 1 ELSE 0)
           + (IF b12 + (1 - b23) + (1 - b24) + (1 - b25) < k THEN 1 ELSE 0)
           + (IF b13 + b23 + (1 - b34) + (1 - b35) < k THEN 1 ELSE 0)
           + (IF b14 + b24 + b34 + (1 - b45) < k THEN 1 ELSE 0)
           + (IF b15 + b25 + b35 + b45 < k THEN 1 ELSE 0) = k
OBVIOUS

(***************************************************************************)
(* The same of an order given as a relation: `Firsts` gives one to each of *)
(* the k stats that have fewer than k before them.                         *)
(***************************************************************************)
Ahead(R, D, s)     == {t \in D : <<t, s>> \in R}
Firsts(R, D, k)    == [s \in D |-> IF Cardinality(Ahead(R, D, s)) < k THEN 1 ELSE 0]
TotalOrderOn(R, D) ==
    /\ \A s \in D : <<s, s>> \notin R
    /\ \A s, t \in D : s # t => (<<s, t>> \in R <=> <<t, s>> \notin R)
    /\ \A s, t, u \in D : <<s, t>> \in R /\ <<t, u>> \in R => <<s, u>> \in R

LEMMA FirstsOfFive ==
    ASSUME NEW R, TotalOrderOn(R, Stat), NEW k \in 0 .. 4
    PROVE  Total(Firsts(R, Stat, k)) = k
<1> DEFINE b(s, t) == IF <<s, t>> \in R THEN 1 ELSE 0
<1>1. \A s, t \in Stat : b(s, t) \in {0, 1}
  OBVIOUS
<1>2. \A s \in Stat : b(s, s) = 0
  BY DEF TotalOrderOn
<1>3. ASSUME NEW s \in Stat, NEW t \in Stat, s # t
      PROVE  b(t, s) = 1 - b(s, t)
  <2>1. <<s, t>> \in R <=> <<t, s>> \notin R
    BY <1>3 DEF TotalOrderOn
  <2>2. QED
    BY <2>1
<1>4. ASSUME NEW s \in Stat, NEW t \in Stat, NEW u \in Stat,
             s # t, t # u, s # u, b(s, t) = b(t, u)
      PROVE  b(s, u) = b(s, t)
  <2>1. CASE <<s, t>> \in R
    BY <1>4, <2>1 DEF TotalOrderOn
  <2>2. CASE <<s, t>> \notin R
    <3>1. <<t, s>> \in R /\ <<u, t>> \in R
      BY <1>4, <2>2 DEF TotalOrderOn
    <3>2. <<s, u>> \notin R
      BY <1>4, <3>1 DEF TotalOrderOn
    <3>3. QED
      BY <2>2, <3>2
  <2>3. QED
    BY <2>1, <2>2
<1>5. \A s \in Stat : Cardinality(Ahead(R, Stat, s)) = b(1, s) + b(2, s) + b(3, s) + b(4, s) + b(5, s)
  <2>1. SUFFICES ASSUME NEW s \in Stat
                 PROVE  Cardinality(Ahead(R, Stat, s)) = b(1, s) + b(2, s) + b(3, s) + b(4, s) + b(5, s)
    OBVIOUS
  <2>2. Ahead(R, Stat, s) \in SUBSET Stat
    BY DEF Ahead
  <2>3. \A t \in Stat : One(Ahead(R, Stat, s), t) = b(t, s)
    BY DEF Ahead, One
  <2>4. QED
    BY <2>2, <2>3, CountOfStats DEF Stat
<1>6. 1 \in Stat /\ 2 \in Stat /\ 3 \in Stat /\ 4 \in Stat /\ 5 \in Stat
  BY DEF Stat
<1> HIDE DEF b
<1>7. /\ Cardinality(Ahead(R, Stat, 1)) = (1 - b(1, 2)) + (1 - b(1, 3)) + (1 - b(1, 4)) + (1 - b(1, 5))
      /\ Cardinality(Ahead(R, Stat, 2)) = b(1, 2) + (1 - b(2, 3)) + (1 - b(2, 4)) + (1 - b(2, 5))
      /\ Cardinality(Ahead(R, Stat, 3)) = b(1, 3) + b(2, 3) + (1 - b(3, 4)) + (1 - b(3, 5))
      /\ Cardinality(Ahead(R, Stat, 4)) = b(1, 4) + b(2, 4) + b(3, 4) + (1 - b(4, 5))
      /\ Cardinality(Ahead(R, Stat, 5)) = b(1, 5) + b(2, 5) + b(3, 5) + b(4, 5)
  BY <1>1, <1>2, <1>3, <1>5, <1>6
<1>8. /\ b(1, 2) \in {0, 1} /\ b(1, 3) \in {0, 1} /\ b(1, 4) \in {0, 1} /\ b(1, 5) \in {0, 1}
      /\ b(2, 3) \in {0, 1} /\ b(2, 4) \in {0, 1} /\ b(2, 5) \in {0, 1}
      /\ b(3, 4) \in {0, 1} /\ b(3, 5) \in {0, 1} /\ b(4, 5) \in {0, 1}
  BY <1>1, <1>6
<1>9. /\ b(1, 2) = b(2, 3) => b(1, 3) = b(1, 2)
      /\ b(1, 2) = b(2, 4) => b(1, 4) = b(1, 2)
      /\ b(1, 2) = b(2, 5) => b(1, 5) = b(1, 2)
      /\ b(1, 3) = b(3, 4) => b(1, 4) = b(1, 3)
      /\ b(1, 3) = b(3, 5) => b(1, 5) = b(1, 3)
      /\ b(1, 4) = b(4, 5) => b(1, 5) = b(1, 4)
      /\ b(2, 3) = b(3, 4) => b(2, 4) = b(2, 3)
      /\ b(2, 3) = b(3, 5) => b(2, 5) = b(2, 3)
      /\ b(2, 4) = b(4, 5) => b(2, 5) = b(2, 4)
      /\ b(3, 4) = b(4, 5) => b(3, 5) = b(3, 4)
  BY <1>4, <1>6
<1>10. Total(Firsts(R, Stat, k)) =
           (IF Cardinality(Ahead(R, Stat, 1)) < k THEN 1 ELSE 0)
         + (IF Cardinality(Ahead(R, Stat, 2)) < k THEN 1 ELSE 0)
         + (IF Cardinality(Ahead(R, Stat, 3)) < k THEN 1 ELSE 0)
         + (IF Cardinality(Ahead(R, Stat, 4)) < k THEN 1 ELSE 0)
         + (IF Cardinality(Ahead(R, Stat, 5)) < k THEN 1 ELSE 0)
  BY <1>6 DEF Total, Firsts
<1>11. QED
  BY <1>7, <1>8, <1>9, <1>10, FirstBits

(***************************************************************************)
(* Four stats are five with the fifth behind the others.                   *)
(***************************************************************************)
LEMMA FirstsOfFour ==
    ASSUME NEW R, TotalOrderOn(R, Four), NEW k \in 0 .. 3
    PROVE  Total(Firsts(R, Four, k)) = k
<1> DEFINE wider == {p \in Stat \X Stat : IF p[2] = 5 THEN p[1] # 5 ELSE p[1] # 5 /\ p \in R}
<1>1. Stat = Four \cup {5} /\ 5 \notin Four
  BY DEF Stat, Four
<1>2. /\ \A s, t \in Four : <<s, t>> \in wider <=> <<s, t>> \in R
      /\ \A s \in Four : <<s, 5>> \in wider /\ <<5, s>> \notin wider
      /\ <<5, 5>> \notin wider
  BY <1>1
<1> HIDE DEF wider
<1>3. TotalOrderOn(wider, Stat)
  <2>1. \A s \in Stat : <<s, s>> \notin wider
    BY <1>1, <1>2 DEF TotalOrderOn
  <2>2. ASSUME NEW s \in Stat, NEW t \in Stat, s # t
        PROVE  <<s, t>> \in wider <=> <<t, s>> \notin wider
    BY <1>1, <1>2, <2>2 DEF TotalOrderOn
  <2>3. ASSUME NEW s \in Stat, NEW t \in Stat, NEW u \in Stat,
               <<s, t>> \in wider, <<t, u>> \in wider
        PROVE  <<s, u>> \in wider
    <3>1. s \in Four /\ t \in Four
      BY <1>1, <1>2, <2>3
    <3>2. CASE u = 5
      BY <1>2, <3>1, <3>2
    <3>3. CASE u \in Four
      BY <1>2, <2>3, <3>1, <3>3 DEF TotalOrderOn
    <3>4. QED
      BY <1>1, <3>2, <3>3
  <2>4. QED
    BY <2>1, <2>2, <2>3 DEF TotalOrderOn
<1>4. Total(Firsts(wider, Stat, k)) = k
  BY <1>3, FirstsOfFive
<1>5. \A s \in Four : Ahead(wider, Stat, s) = Ahead(R, Four, s)
  BY <1>1, <1>2 DEF Ahead
<1>6. Ahead(wider, Stat, 5) = Four
  BY <1>1, <1>2 DEF Ahead
<1>7. Cardinality(Four) = 4
  <2>1. Four \in SUBSET Stat /\ \A s \in 1 .. 4 : One(Four, s) = 1
    BY DEF Four, Stat, One
  <2>2. One(Four, 5) = 0
    BY DEF Four, One
  <2>3. QED
    BY <2>1, <2>2, CountOfStats
<1>8. /\ \A s \in Four : Firsts(wider, Stat, k)[s] = Firsts(R, Four, k)[s]
      /\ Firsts(wider, Stat, k)[5] = 0
      /\ \A s \in Four : Firsts(R, Four, k)[s] \in {0, 1}
      /\ DOMAIN Firsts(wider, Stat, k) = Stat /\ DOMAIN Firsts(R, Four, k) = Four
  BY <1>1, <1>5, <1>6, <1>7 DEF Firsts
<1>9. 1 \in Four /\ 2 \in Four /\ 3 \in Four /\ 4 \in Four
  BY DEF Four
<1>10. Total(Firsts(wider, Stat, k)) = Total(Firsts(R, Four, k))
  BY <1>1, <1>8, <1>9 DEF Total
<1>11. QED
  BY <1>4, <1>10

-----------------------------------------------------------------------------
(* scale() *)

(***************************************************************************)
(* The points of five stats, and of four.                                  *)
(***************************************************************************)
LEMMA TotalOfFive ==
    ASSUME NEW f, DOMAIN f = Stat
    PROVE  Total(f) = f[1] + f[2] + f[3] + f[4] + f[5]
BY DEF Total, Stat

LEMMA TotalOfFour ==
    ASSUME NEW f, DOMAIN f = Four, \A s \in Four : f[s] \in Nat
    PROVE  Total(f) = f[1] + f[2] + f[3] + f[4]
BY DEF Total, Four

(***************************************************************************)
(* Two sums that the totals of both sizes have in common.                  *)
(***************************************************************************)
Kinds == {Stat, Four}

LEMMA TotalType ==
    ASSUME NEW D \in Kinds, NEW f \in [D -> Nat]
    PROVE  /\ Total(f) \in Nat
           /\ \A s \in D : f[s] =< Total(f)
           /\ Total(f) = 0 => \A s \in D : f[s] = 0
<1>1. CASE D = Stat
  <2>1. /\ \A s \in Stat : f[s] \in Nat
        /\ 1 \in Stat /\ 2 \in Stat /\ 3 \in Stat /\ 4 \in Stat /\ 5 \in Stat
        /\ \A s \in Stat : s = 1 \/ s = 2 \/ s = 3 \/ s = 4 \/ s = 5
    BY <1>1 DEF Stat
  <2>2. Total(f) = f[1] + f[2] + f[3] + f[4] + f[5]
    BY <1>1, TotalOfFive
  <2>3. QED
    BY <1>1, <2>1, <2>2
<1>2. CASE D = Four
  <2>1. /\ \A s \in Four : f[s] \in Nat
        /\ 1 \in Four /\ 2 \in Four /\ 3 \in Four /\ 4 \in Four
        /\ \A s \in Four : s = 1 \/ s = 2 \/ s = 3 \/ s = 4
    BY <1>2 DEF Four
  <2>2. Total(f) = f[1] + f[2] + f[3] + f[4]
    BY <1>2, <2>1, TotalOfFour
  <2>3. f[1] \in Nat /\ f[2] \in Nat /\ f[3] \in Nat /\ f[4] \in Nat
    BY <2>1
  <2>4. /\ f[1] =< Total(f) /\ f[2] =< Total(f) /\ f[3] =< Total(f) /\ f[4] =< Total(f)
        /\ Total(f) \in Nat
    BY <2>2, <2>3
  <2>5. Total(f) = 0 => f[1] = 0 /\ f[2] = 0 /\ f[3] = 0 /\ f[4] = 0
    BY <2>3, <2>4
  <2>6. QED
    BY <1>2, <2>1, <2>4, <2>5
<1>3. QED
  BY <1>1, <1>2 DEF Kinds

LEMMA TotalOfSum ==
    ASSUME NEW D \in Kinds, NEW f \in [D -> Nat], NEW g \in [D -> Nat]
    PROVE  Total([s \in D |-> f[s] + g[s]]) = Total(f) + Total(g)
<1> DEFINE h == [s \in D |-> f[s] + g[s]]
<1>1. /\ \A s \in D : f[s] \in Nat /\ g[s] \in Nat /\ h[s] = f[s] + g[s] /\ h[s] \in Nat
      /\ DOMAIN f = D /\ DOMAIN g = D /\ DOMAIN h = D
  OBVIOUS
<1> HIDE DEF h
<1>2. CASE D = Stat
  <2>1. 1 \in D /\ 2 \in D /\ 3 \in D /\ 4 \in D /\ 5 \in D
    BY <1>2 DEF Stat
  <2>2. /\ Total(f) = f[1] + f[2] + f[3] + f[4] + f[5]
        /\ Total(g) = g[1] + g[2] + g[3] + g[4] + g[5]
        /\ Total(h) = h[1] + h[2] + h[3] + h[4] + h[5]
    BY <1>1, <1>2, TotalOfFive
  <2>3. /\ h[1] = f[1] + g[1] /\ f[1] \in Nat /\ g[1] \in Nat
        /\ h[2] = f[2] + g[2] /\ f[2] \in Nat /\ g[2] \in Nat
        /\ h[3] = f[3] + g[3] /\ f[3] \in Nat /\ g[3] \in Nat
        /\ h[4] = f[4] + g[4] /\ f[4] \in Nat /\ g[4] \in Nat
        /\ h[5] = f[5] + g[5] /\ f[5] \in Nat /\ g[5] \in Nat
    BY <1>1, <2>1
  <2>4. Total(h) = Total(f) + Total(g)
    BY <2>2, <2>3
  <2>5. QED
    BY <2>4 DEF h
<1>3. CASE D = Four
  <2>1. 1 \in D /\ 2 \in D /\ 3 \in D /\ 4 \in D
    BY <1>3 DEF Four
  <2>2. /\ Total(f) = f[1] + f[2] + f[3] + f[4]
        /\ Total(g) = g[1] + g[2] + g[3] + g[4]
        /\ Total(h) = h[1] + h[2] + h[3] + h[4]
    BY <1>1, <1>3, TotalOfFour
  <2>3. /\ h[1] = f[1] + g[1] /\ f[1] \in Nat /\ g[1] \in Nat
        /\ h[2] = f[2] + g[2] /\ f[2] \in Nat /\ g[2] \in Nat
        /\ h[3] = f[3] + g[3] /\ f[3] \in Nat /\ g[3] \in Nat
        /\ h[4] = f[4] + g[4] /\ f[4] \in Nat /\ g[4] \in Nat
    BY <1>1, <2>1
  <2>4. Total(h) = Total(f) + Total(g)
    BY <2>2, <2>3
  <2>5. QED
    BY <2>4 DEF h
<1>4. QED
  BY <1>2, <1>3 DEF Kinds, h

LEMMA TotalOfProduct ==
    ASSUME NEW D \in Kinds, NEW f \in [D -> Nat], NEW k \in Nat
    PROVE  Total([s \in D |-> k * f[s]]) = k * Total(f)
<1> DEFINE h == [s \in D |-> k * f[s]]
<1>1. /\ \A s \in D : f[s] \in Nat /\ h[s] = k * f[s] /\ h[s] \in Nat
      /\ DOMAIN f = D /\ DOMAIN h = D
  OBVIOUS
<1>2. ASSUME NEW a \in Nat, NEW b \in Nat
      PROVE  k * (a + b) = k * a + k * b
  OBVIOUS
<1> HIDE DEF h
<1>3. CASE D = Stat
  <2>1. 1 \in D /\ 2 \in D /\ 3 \in D /\ 4 \in D /\ 5 \in D
    BY <1>3 DEF Stat
  <2>2. /\ Total(f) = f[1] + f[2] + f[3] + f[4] + f[5]
        /\ Total(h) = h[1] + h[2] + h[3] + h[4] + h[5]
    BY <1>1, <1>3, TotalOfFive
  <2>3. k * (f[1] + f[2] + f[3] + f[4] + f[5])
          = k * f[1] + k * f[2] + k * f[3] + k * f[4] + k * f[5]
    BY <1>1, <1>2, <2>1
  <2>4. QED
    BY <1>1, <2>1, <2>2, <2>3 DEF h
<1>4. CASE D = Four
  <2>1. 1 \in D /\ 2 \in D /\ 3 \in D /\ 4 \in D
    BY <1>4 DEF Four
  <2>2. /\ Total(f) = f[1] + f[2] + f[3] + f[4]
        /\ Total(h) = h[1] + h[2] + h[3] + h[4]
    BY <1>1, <1>4, TotalOfFour
  <2>3. k * (f[1] + f[2] + f[3] + f[4]) = k * f[1] + k * f[2] + k * f[3] + k * f[4]
    BY <1>1, <1>2, <2>1
  <2>4. QED
    BY <1>1, <2>1, <2>2, <2>3 DEF h
<1>5. QED
  BY <1>3, <1>4 DEF Kinds, h

(***************************************************************************)
(* A number of points left over, each stat having fewer than the total, is *)
(* smaller than the number of stats.                                       *)
(***************************************************************************)
LEMMA LeftOver ==
    ASSUME NEW D \in Kinds, NEW r \in [D -> Nat], NEW total \in Nat, total > 0,
           \A s \in D : r[s] < total,
           NEW k \in Int, total * k = Total(r)
    PROVE  k \in IF D = Stat THEN 0 .. 4 ELSE 0 .. 3
<1> USE DEF Kinds
<1>1. Total(r) \in Nat
  BY TotalType
<1>2. k >= 0
  BY <1>1
<1>3. CASE D = Stat
  <2>1. 1 \in D /\ 2 \in D /\ 3 \in D /\ 4 \in D /\ 5 \in D /\ DOMAIN r = Stat
    BY <1>3 DEF Stat
  <2>2. Total(r) = r[1] + r[2] + r[3] + r[4] + r[5]
    BY <2>1, TotalOfFive
  <2>3. /\ r[1] \in Nat /\ r[2] \in Nat /\ r[3] \in Nat /\ r[4] \in Nat /\ r[5] \in Nat
        /\ r[1] < total /\ r[2] < total /\ r[3] < total /\ r[4] < total /\ r[5] < total
    BY <2>1
  <2>4. total * k < total * 5
    BY <2>2, <2>3
  <2>5. k < 5
    BY <1>2, <2>4
  <2>6. QED
    BY <1>2, <1>3, <2>5
<1>4. CASE D = Four
  <2>1. 1 \in D /\ 2 \in D /\ 3 \in D /\ 4 \in D /\ DOMAIN r = Four /\ Stat # Four
    BY <1>4 DEF Stat, Four
  <2>2. Total(r) = r[1] + r[2] + r[3] + r[4]
    BY <1>4, <2>1, TotalOfFour
  <2>3. /\ r[1] \in Nat /\ r[2] \in Nat /\ r[3] \in Nat /\ r[4] \in Nat
        /\ r[1] < total /\ r[2] < total /\ r[3] < total /\ r[4] < total
    BY <2>1
  <2>4. total * k < total * 4
    BY <2>2, <2>3
  <2>5. k < 4
    BY <1>2, <2>4
  <2>6. QED
    BY <1>2, <1>4, <2>1, <2>5
<1>5. QED
  BY <1>3, <1>4

(***************************************************************************)
(* scale() gives out exactly the points asked for; a stat that had more    *)
(* than another does not get less; and when the points can be scaled       *)
(* without a remainder, nothing is rounded.                                *)
(***************************************************************************)
LEMMA ScaledPoints ==
    ASSUME NEW D \in Kinds, NEW points \in [D -> Nat], NEW target \in Nat, Total(points) # 0
    PROVE  /\ Scale(points, target) \in [D -> Nat]
           /\ Total(Scale(points, target)) = target
           /\ \A s, t \in D : points[s] > points[t] =>
                  Scale(points, target)[s] >= Scale(points, target)[t]
           /\ \A exact \in [D -> Nat] :
                  (\A s \in D : points[s] * target = Total(points) * exact[s])
                      => Scale(points, target) = exact
<1> DEFINE total        == Total(points)
           q            == [s \in D |-> (points[s] * target) \div total]
           r            == [s \in D |-> (points[s] * target) % total]
           Before(s, t) == \/ r[s] > r[t]
                           \/ r[s] = r[t] /\ points[s] > points[t]
                           \/ r[s] = r[t] /\ points[s] = points[t] /\ s < t
           R            == {p \in D \X D : Before(p[1], p[2])}
           remaining    == target - Total(q)
           extra        == Firsts(R, D, remaining)
           new          == Scale(points, target)
<1>1. total \in Nat /\ total > 0
  BY TotalType
<1>2. \A s \in D : points[s] \in Nat /\ points[s] * target \in Nat
  OBVIOUS
<1>3. \A s \in D : /\ q[s] \in Nat /\ r[s] \in Nat /\ r[s] < total
                   /\ points[s] * target = total * q[s] + r[s]
  <2> HIDE DEF total
  <2>1. QED
    BY <1>1, <1>2, Quotient
<1>4. q \in [D -> Nat] /\ r \in [D -> Nat]
  BY <1>3
<1>5. D \subseteq Int
  BY DEF Kinds, Stat, Four
<1>6. \A s, t \in D : <<s, t>> \in R <=> Before(s, t)
  OBVIOUS
<1>7. new = [s \in D |-> q[s] + extra[s]]
  <2>1. \A s \in D : Ahead(R, D, s) = {t \in D : Before(t, s)}
    BY <1>6 DEF Ahead
  <2>2. DOMAIN points = D
    OBVIOUS
  <2>3. new = [s \in D |-> q[s] + IF Cardinality({t \in D : Before(t, s)}) < remaining
                                  THEN 1 ELSE 0]
    BY <2>2 DEF Scale
  <2>4. \A s \in D : extra[s] = IF Cardinality({t \in D : Before(t, s)}) < remaining
                                THEN 1 ELSE 0
    BY <2>1 DEF Firsts
  <2>5. QED
    BY <2>3, <2>4
<1> HIDE DEF total, q, r, new
<1>8. TotalOrderOn(R, D)
  <2>1. \A s \in D : <<s, s>> \notin R
    BY <1>2, <1>3, <1>5, <1>6
  <2>2. ASSUME NEW s \in D, NEW t \in D, s # t
        PROVE  <<s, t>> \in R <=> <<t, s>> \notin R
    <3>1. Before(s, t) <=> ~ Before(t, s)
      BY <1>2, <1>3, <1>5, <2>2
    <3>2. QED
      BY <1>6, <3>1
  <2>3. ASSUME NEW s \in D, NEW t \in D, NEW u \in D, Before(s, t), Before(t, u)
        PROVE  Before(s, u)
    BY <1>2, <1>3, <1>5, <2>3
  <2>4. QED
    BY <1>6, <2>1, <2>2, <2>3 DEF TotalOrderOn
<1> HIDE DEF R, Before, remaining, extra
<1>9. total * remaining = Total(r) /\ remaining \in Int
  <2>1. Total([s \in D |-> target * points[s]]) = target * total
    BY TotalOfProduct DEF total
  <2>2. [s \in D |-> target * points[s]] = [s \in D |-> total * q[s] + r[s]]
    BY <1>2, <1>3
  <2> DEFINE whole == [s \in D |-> total * q[s]]
  <2>3. whole \in [D -> Nat] /\ Total(whole) = total * Total(q)
    BY <1>1, <1>4, TotalOfProduct
  <2>4. [s \in D |-> total * q[s] + r[s]] = [s \in D |-> whole[s] + r[s]]
    OBVIOUS
  <2> HIDE DEF whole
  <2>5. Total([s \in D |-> whole[s] + r[s]]) = Total(whole) + Total(r)
    BY <1>4, <2>3, TotalOfSum
  <2>6. target * total = total * Total(q) + Total(r)
    BY <2>1, <2>2, <2>3, <2>4, <2>5
  <2>7. Total(q) \in Nat /\ Total(r) \in Nat
    BY <1>4, TotalType
  <2>8. total * (target - Total(q)) = total * target - total * Total(q)
    BY <1>1, <2>7, Distributes
  <2>9. total * target = target * total
    BY <1>1
  <2>10. total * Total(q) \in Int
    BY <1>1, <2>7
  <2>11. QED
    BY <2>6, <2>7, <2>8, <2>9, <2>10 DEF remaining
<1>10. remaining \in IF D = Stat THEN 0 .. 4 ELSE 0 .. 3
  BY <1>1, <1>3, <1>4, <1>9, LeftOver
<1>11. Total(extra) = remaining
  BY <1>8, <1>10, FirstsOfFive, FirstsOfFour DEF extra, Kinds
<1>12. extra \in [D -> {0, 1}]
  BY DEF extra, Firsts
<1>13. new \in [D -> Nat]
  BY <1>3, <1>7, <1>12
<1>14. Total(new) = target
  <2>1. Total(new) = Total(q) + Total(extra)
    BY <1>4, <1>7, <1>12, TotalOfSum
  <2>2. Total(q) \in Nat
    BY <1>4, TotalType
  <2>3. QED
    BY <1>11, <2>1, <2>2 DEF remaining
<1>15. ASSUME NEW s \in D, NEW t \in D, points[s] > points[t]
       PROVE  new[s] >= new[t]
  <2>1. points[s] * target >= points[t] * target
    <3>1. \A a, b \in Nat : a > b => a * target >= b * target
      OBVIOUS
    <3>2. QED
      BY <1>2, <1>15, <3>1
  <2>2. total * q[s] + r[s] >= total * q[t] + r[t]
    BY <1>3, <2>1
  <2>3. q[s] >= q[t]
    <3>1. ASSUME q[s] + 1 =< q[t]
          PROVE  FALSE
      <4>1. \A a, b \in Nat : a + 1 =< b => total * a + total =< total * b
        BY <1>1
      <4>2. total * q[s] + total =< total * q[t]
        BY <1>3, <3>1, <4>1
      <4>3. total * q[s] \in Nat /\ total * q[t] \in Nat
        BY <1>1, <1>3
      <4>4. QED
        BY <1>1, <1>3, <2>2, <4>2, <4>3
    <3>2. QED
      BY <1>3, <3>1
  <2>4. CASE q[s] > q[t]
    BY <1>3, <1>7, <1>12, <2>4
  <2>5. CASE q[s] = q[t]
    <3>1. total * q[s] \in Nat
      BY <1>1, <1>3
    <3>2. r[s] >= r[t]
      BY <1>3, <2>2, <2>5, <3>1
    <3>3. Before(s, t)
      BY <1>3, <1>15, <3>2 DEF Before
    <3>4. Ahead(R, D, s) \subseteq Ahead(R, D, t)
      BY <1>6, <1>8, <3>3 DEF TotalOrderOn, Ahead
    <3>5. Ahead(R, D, t) \in SUBSET Stat
      BY DEF Ahead, Kinds, Stat, Four
    <3>6. Cardinality(Ahead(R, D, s)) =< Cardinality(Ahead(R, D, t))
      BY <3>4, <3>5, CountOfStats, FS_Subset
    <3>7. Cardinality(Ahead(R, D, s)) \in Nat /\ Cardinality(Ahead(R, D, t)) \in Nat
      BY <3>4, <3>5, CountOfStats DEF One
    <3>8. extra[s] >= extra[t]
      BY <1>10, <3>6, <3>7 DEF extra, Firsts
    <3>9. QED
      BY <1>3, <1>7, <1>12, <2>5, <3>8
  <2>6. q[s] \in Nat /\ q[t] \in Nat
    BY <1>3
  <2>7. QED
    BY <2>3, <2>4, <2>5, <2>6
<1>16. ASSUME NEW exact \in [D -> Nat],
              \A s \in D : points[s] * target = total * exact[s]
       PROVE  new = exact
  <2>1. \A s \in D : q[s] = exact[s] /\ r[s] = 0
    <3>1. SUFFICES ASSUME NEW s \in D
                   PROVE  q[s] = exact[s] /\ r[s] = 0
      OBVIOUS
    <3>2. exact[s] \in Nat /\ total * exact[s] = total * q[s] + r[s]
      BY <1>3, <1>16
    <3>3. total * (exact[s] - q[s]) = r[s]
      <4>1. q[s] \in Nat /\ r[s] \in Nat
        BY <1>3
      <4>2. total * (exact[s] - q[s]) = total * exact[s] - total * q[s]
        BY <1>1, <3>2, <4>1, Distributes
      <4>3. total * q[s] \in Int
        BY <1>1, <4>1
      <4>4. QED
        BY <3>2, <4>1, <4>2, <4>3
    <3>4. \A d \in Int : total * d >= 0 /\ total * d < total => d = 0
      BY <1>1
    <3>5. exact[s] - q[s] = 0
      BY <1>1, <1>3, <3>2, <3>3, <3>4
    <3>6. q[s] \in Nat /\ total * 0 = 0
      BY <1>1, <1>3
    <3>7. QED
      BY <3>2, <3>3, <3>5, <3>6
  <2>2. q = exact
    BY <1>4, <2>1
  <2>3. Total(r) = 0
    <3>1. \A s \in D : r[s] = 0
      BY <2>1
    <3>2. CASE D = Stat
      <4>1. Total(r) = r[1] + r[2] + r[3] + r[4] + r[5]
        BY <1>4, <3>2, TotalOfFive
      <4>2. QED
        BY <3>1, <3>2, <4>1 DEF Stat
    <3>3. CASE D = Four
      <4>1. Total(r) = r[1] + r[2] + r[3] + r[4]
        BY <1>3, <1>4, <3>3, TotalOfFour
      <4>2. QED
        BY <3>1, <3>3, <4>1 DEF Four
    <3>4. QED
      BY <3>2, <3>3 DEF Kinds
  <2>4. remaining = 0
    BY <1>1, <1>9, <2>3
  <2>5. \A s \in D : extra[s] = 0
    <3>1. SUFFICES ASSUME NEW s \in D
                   PROVE  extra[s] = 0
      OBVIOUS
    <3>2. Ahead(R, D, s) \in SUBSET Stat
      BY DEF Ahead, Kinds, Stat, Four
    <3>3. Cardinality(Ahead(R, D, s)) \in Nat
      BY <3>2, CountOfStats DEF One
    <3>4. QED
      BY <2>4, <3>3 DEF extra, Firsts
  <2>6. QED
    BY <1>7, <2>2, <2>5
<1>17. QED
  BY <1>13, <1>14, <1>15, <1>16 DEF new, total

-----------------------------------------------------------------------------
(* The conversions *)

Later == {"YW2", "YW3", "Busters2"}

(***************************************************************************)
(* What a record brings: the points it had, as the later games store them. *)
(***************************************************************************)
Brought(source, stored) ==
    LET own == Read(source, stored)
    IN  IF source # "YW1" THEN own
        ELSE IF Total(own) = 0 THEN Default
        ELSE Stored(Scale(own, 40))

LEMMA ConvertedFrom ==
    ASSUME NEW source, NEW stored
    PROVE  /\ ConvertedIvs(source, "YW1", stored) = ToYW1(Brought(source, stored))
           /\ ConvertedIvs(source, "Blasters", stored) = ToBlasters(Brought(source, stored))
           /\ \A target \in Later : ConvertedIvs(source, target, stored) = ToLater(Brought(source, stored))
BY DEF ConvertedIvs, Brought, Later

(***************************************************************************)
(* The stats of the games.                                                 *)
(***************************************************************************)
LEMMA StatsOfGames ==
    /\ Stats("Blasters") = Four
    /\ \A g \in Games : g # "Blasters" => Stats(g) = Stat
    /\ \A g \in Games : Stats(g) \in Kinds
    /\ Four \subseteq Stat
    /\ Games = Later \cup {"YW1", "Blasters"} /\ "YW1" \notin Later /\ "Blasters" \notin Later
BY DEF Stats, Four, Kinds, Games, Stat, Later

(***************************************************************************)
(* Forty points, stored in a game that gives forty, are bytes the game     *)
(* accepts, and the points are read back from them.                        *)
(***************************************************************************)
LEMMA FortyStored ==
    ASSUME NEW g \in Games, g # "YW1",
           NEW points \in [Stats(g) -> Nat], Total(points) = 40
    PROVE  /\ Stored(points) \in [Stat -> Byte]
           /\ Read(g, Stored(points)) = Stored(points)
           /\ Even(Stored(points))
           /\ Points(g, Stored(points)) = points
           /\ ValidIvs(g, Stored(points))
<1> DEFINE made == Stored(points)
<1>1. Stats(g) \in Kinds /\ Stats(g) \subseteq Stat /\ 1 \in Stats(g)
  BY StatsOfGames DEF Kinds, Four, Stat
<1>2. \A s \in Stats(g) : points[s] \in 0 .. 40
  <2>1. \A s \in Stats(g) : points[s] \in Nat /\ points[s] =< Total(points)
    BY <1>1, TotalType
  <2>2. QED
    BY <2>1
<1>3. DOMAIN points = Stats(g)
  OBVIOUS
<1>4. \A s \in Stat : made[s] = IF s \notin Stats(g) THEN 0
                               ELSE IF s = 1 THEN 2 * points[1] ELSE points[s]
  BY <1>3 DEF Stored
<1>5. made = [s \in Stat |-> made[s]]
  BY DEF Stored
<1> HIDE DEF made
<1>6. made \in [Stat -> Byte]
  <2>1. \A s \in Stat : made[s] \in Byte
    BY <1>1, <1>2, <1>4 DEF Byte
  <2>2. QED
    BY <1>5, <2>1
<1>7. made[1] = 2 * points[1] /\ points[1] \in 0 .. 40
  BY <1>1, <1>2, <1>4
<1>8. Even(made) /\ made[1] \div 2 = points[1]
  BY <1>7 DEF Even
<1>9. Read(g, made) = made
  <2>1. \A s \in Stat : s \notin Stats(g) => made[s] = 0
    BY <1>4
  <2>2. Read(g, made) = [s \in Stat |-> made[s]]
    BY <2>1 DEF Read
  <2>3. QED
    BY <1>5, <2>2
<1>10. Points(g, made) = points
  <2>1. Points(g, made) = [s \in Stats(g) |-> IF s = 1 THEN made[1] \div 2 ELSE made[s]]
    BY DEF Points
  <2>2. \A s \in Stats(g) : points[s] = IF s = 1 THEN made[1] \div 2 ELSE made[s]
    BY <1>1, <1>4, <1>8
  <2>3. points = [s \in Stats(g) |-> points[s]]
    OBVIOUS
  <2>4. QED
    BY <2>1, <2>2, <2>3
<1>11. ValidIvs(g, made)
  BY <1>8, <1>9, <1>10 DEF ValidIvs
<1>12. QED
  BY <1>6, <1>8, <1>9, <1>10, <1>11 DEF made

(***************************************************************************)
(* The defaults are distributions too.                                     *)
(***************************************************************************)
LEMMA Defaults ==
    /\ <<8, 8, 8, 8, 8>> \in [Stat -> Nat] /\ Total(<<8, 8, 8, 8, 8>>) = 40
    /\ <<10, 10, 10, 10>> \in [Four -> Nat] /\ Total(<<10, 10, 10, 10>>) = 40
    /\ [s \in Stat |-> 2] \in [Stat -> Nat] /\ Total([s \in Stat |-> 2]) = 10
<1>1. <<8, 8, 8, 8, 8>> \in [Stat -> Nat]
  BY DEF Stat
<1>2. <<10, 10, 10, 10>> \in [Four -> Nat]
  BY DEF Four
<1>3. Total(<<8, 8, 8, 8, 8>>) = 40
  BY <1>1, TotalOfFive
<1>4. Total(<<10, 10, 10, 10>>) = 40
  <2> DEFINE f == <<10, 10, 10, 10>>
  <2>1. DOMAIN f = Four /\ f[1] = 10 /\ f[2] = 10 /\ f[3] = 10 /\ f[4] = 10
    BY DEF Four
  <2>2. \A s \in Four : f[s] \in Nat
    BY <1>2
  <2> HIDE DEF f
  <2>3. Total(f) = 40
    BY <2>1, <2>2, TotalOfFour
  <2>4. QED
    BY <2>3 DEF f
<1>5. Total([s \in Stat |-> 2]) = 10
  BY TotalOfFive DEF Stat
<1>6. QED
  BY <1>1, <1>2, <1>3, <1>4, <1>5

(***************************************************************************)
(* What a record brings are bytes, and from Yo-kai Watch forty points.     *)
(***************************************************************************)
LEMMA BroughtType ==
    ASSUME NEW source \in Games, NEW stored \in [Stat -> Byte]
    PROVE  /\ Read(source, stored) \in [Stat -> Byte]
           /\ Brought(source, stored) \in [Stat -> Byte]
           /\ source = "YW1" =>
                /\ Even(Brought(source, stored))
                /\ Total(Points("YW2", Brought(source, stored))) = 40
           /\ source # "YW1" => Brought(source, stored) = Read(source, stored)
<1> DEFINE own == Read(source, stored)
<1>1. own \in [Stat -> Byte]
  <2>1. \A s \in Stat : stored[s] \in 0 .. 255 /\ stored[s] % 16 \in 0 .. 255
    BY DEF Byte
  <2>2. QED
    BY <2>1 DEF Read, Byte
<1>2. own \in [Stat -> Nat]
  BY <1>1 DEF Byte
<1> HIDE DEF own
<1>3. CASE source # "YW1"
  BY <1>1, <1>3 DEF Brought, own
<1>4. CASE source = "YW1"
  <2>1. Stats("YW2") = Stat /\ "YW2" \in Games /\ Stat \in Kinds
    BY StatsOfGames DEF Games, Kinds
  <2>2. PICK points \in [Stat -> Nat] : Total(points) = 40 /\ Brought(source, stored) = Stored(points)
    <3>1. CASE Total(own) = 0
      BY <1>4, <3>1, Defaults DEF Brought, Default, own
    <3>2. CASE Total(own) # 0
      <4>1. Scale(own, 40) \in [Stat -> Nat] /\ Total(Scale(own, 40)) = 40
        BY <1>2, <2>1, <3>2, ScaledPoints
      <4>2. QED
        BY <1>4, <3>2, <4>1 DEF Brought, own
    <3>3. QED
      BY <3>1, <3>2
  <2>3. QED
    BY <1>1, <1>4, <2>1, <2>2, FortyStored DEF own
<1>5. QED
  BY <1>3, <1>4

(***************************************************************************)
(* Every conversion makes values the game accepts.                         *)
(***************************************************************************)
LEMMA ToYW1Accepted ==
    ASSUME NEW stored \in [Stat -> Nat]
    PROVE  /\ ToYW1(stored) \in [Stat -> Byte]
           /\ Read("YW1", ToYW1(stored)) = ToYW1(stored)
           /\ ValidIvs("YW1", ToYW1(stored))
<1> DEFINE points == [stored EXCEPT ![1] = @ \div 2]
           made   == ToYW1(stored)
<1>1. points \in [Stat -> Nat]
  <2>1. 1 \in Stat /\ \A n \in Nat : n \div 2 \in Nat
    BY DEF Stat
  <2>2. stored[1] \div 2 \in Nat
    BY <2>1
  <2>3. QED
    BY <2>2
<1>2. made \in [Stat -> Nat] /\ Total(made) = 10
  <2>1. CASE Even(stored) /\ Total(points) # 0
    <3>1. made = Scale(points, 10)
      BY <2>1 DEF ToYW1
    <3> HIDE DEF points, made
    <3>2. QED
      BY <1>1, <2>1, <3>1, ScaledPoints DEF Kinds
  <2>2. CASE ~ (Even(stored) /\ Total(points) # 0)
    <3>1. made = [s \in Stat |-> 2]
      BY <2>2 DEF ToYW1
    <3>2. QED
      BY <3>1, Defaults
  <2>3. QED
    BY <2>1, <2>2
<1> HIDE DEF made
<1>3. \A s \in Stat : made[s] \in Nat /\ made[s] =< 10
  BY <1>2, TotalType DEF Kinds
<1>4. made \in [Stat -> Byte]
  BY <1>2, <1>3 DEF Byte
<1>5. Read("YW1", made) = made
  <2>1. \A s \in Stat : s \in Stats("YW1") /\ made[s] % 16 = made[s]
    BY <1>3, StatsOfGames DEF Games
  <2>2. Read("YW1", made) = [s \in Stat |-> made[s]]
    BY <2>1 DEF Read
  <2>3. QED
    BY <1>2, <2>2
<1>6. ValidIvs("YW1", made)
  BY <1>2, <1>5 DEF ValidIvs
<1>7. QED
  BY <1>4, <1>5, <1>6 DEF made

LEMMA ToBlastersAccepted ==
    ASSUME NEW stored \in [Stat -> Nat]
    PROVE  \E points \in [Four -> Nat] :
               /\ Total(points) = 40
               /\ ToBlasters(stored) = Stored(points)
<1> DEFINE points == Points("Blasters", stored)
<1>1. points \in [Four -> Nat]
  <2>1. \A s \in Four : stored[s] \in Nat
    BY StatsOfGames
  <2>2. 1 \in Four /\ stored[1] \div 2 \in Nat
    BY <2>1 DEF Four
  <2>3. points = [s \in Four |-> IF s = 1 THEN stored[1] \div 2 ELSE stored[s]]
    BY StatsOfGames DEF Points
  <2>4. QED
    BY <2>1, <2>2, <2>3
<1>2. CASE Total(points) # 0
  <2> HIDE DEF points
  <2>1. Scale(points, 40) \in [Four -> Nat] /\ Total(Scale(points, 40)) = 40
    BY <1>1, <1>2, ScaledPoints DEF Kinds
  <2>2. ToBlasters(stored) = Stored(Scale(points, 40))
    BY <1>2 DEF ToBlasters, points
  <2>3. QED
    BY <2>1, <2>2
<1>3. CASE Total(points) = 0
  <2>1. ToBlasters(stored) = Stored(<<10, 10, 10, 10>>)
    BY <1>3 DEF ToBlasters
  <2>2. QED
    BY <2>1, Defaults
<1>4. QED
  BY <1>2, <1>3

LEMMA ToLaterAccepted ==
    ASSUME NEW g \in Later, NEW stored \in [Stat -> Byte]
    PROVE  ToLater(stored) \in [Stat -> Byte] /\ ValidIvs(g, ToLater(stored))
<1>1. g \in Games /\ g # "YW1" /\ Stats(g) = Stat /\ Stats("YW2") = Stat
  BY StatsOfGames DEF Later, Games
<1>2. CASE Even(stored) /\ Total(Points("YW2", stored)) = 40
  <2>1. ToLater(stored) = stored
    BY <1>2 DEF ToLater
  <2>2. Read(g, stored) = stored
    BY <1>1 DEF Read
  <2>3. Points(g, stored) = Points("YW2", stored)
    BY <1>1 DEF Points
  <2>4. QED
    BY <1>1, <1>2, <2>1, <2>2, <2>3 DEF ValidIvs
<1>3. CASE ~ (Even(stored) /\ Total(Points("YW2", stored)) = 40)
  <2>1. ToLater(stored) = Stored(<<8, 8, 8, 8, 8>>)
    BY <1>3 DEF ToLater, Default
  <2>2. <<8, 8, 8, 8, 8>> \in [Stats(g) -> Nat] /\ Total(<<8, 8, 8, 8, 8>>) = 40
    BY <1>1, Defaults
  <2>3. QED
    BY <1>1, <2>1, <2>2, FortyStored
<1>4. QED
  BY <1>2, <1>3

LEMMA ConvertedAccepted ==
    ASSUME NEW source \in Games, NEW target \in Games, NEW stored \in [Stat -> Byte]
    PROVE  /\ ConvertedIvs(source, target, stored) \in [Stat -> Byte]
           /\ ValidIvs(target, ConvertedIvs(source, target, stored))
<1> DEFINE from == Brought(source, stored)
<1>1. from \in [Stat -> Byte] /\ from \in [Stat -> Nat]
  BY BroughtType DEF Byte
<1> HIDE DEF from
<1>2. CASE target = "YW1"
  BY <1>1, <1>2, ConvertedFrom, ToYW1Accepted DEF from
<1>3. CASE target = "Blasters"
  <2>1. PICK points \in [Four -> Nat] : Total(points) = 40 /\ ToBlasters(from) = Stored(points)
    BY <1>1, ToBlastersAccepted
  <2>2. points \in [Stats(target) -> Nat] /\ target # "YW1"
    BY <1>3, StatsOfGames
  <2>3. Stored(points) \in [Stat -> Byte] /\ ValidIvs(target, Stored(points))
    BY <2>1, <2>2, FortyStored
  <2>4. QED
    BY <1>3, <2>1, <2>3, ConvertedFrom DEF from
<1>4. CASE target \in Later
  BY <1>1, <1>4, ConvertedFrom, ToLaterAccepted DEF from
<1>5. QED
  BY <1>2, <1>3, <1>4, StatsOfGames

-----------------------------------------------------------------------------
(* What a valid record brings, and what each game makes of it *)

(***************************************************************************)
(* Forty points of five stats survive being stored: they are there for     *)
(* each of the conversions.                                                *)
(***************************************************************************)
LEMMA StoredPoints ==
    ASSUME NEW W \in [Stat -> Nat], Total(W) = 40
    PROVE  /\ Stored(W) \in [Stat -> Byte]
           /\ \A s \in Stat : Stored(W)[s] = IF s = 1 THEN 2 * W[1] ELSE W[s]
           /\ Even(Stored(W))
           /\ Points("YW2", Stored(W)) = W
           /\ [Stored(W) EXCEPT ![1] = @ \div 2] = W
           /\ Points("Blasters", Stored(W)) = [s \in Four |-> W[s]]
<1>1. "YW2" \in Games /\ Stats("YW2") = Stat /\ 1 \in Stat /\ Four \subseteq Stat
  BY StatsOfGames DEF Games, Stat
<1>2. /\ Stored(W) \in [Stat -> Byte] /\ Even(Stored(W))
      /\ Points("YW2", Stored(W)) = W
  BY <1>1, FortyStored
<1>3. \A s \in Stat : Stored(W)[s] = IF s = 1 THEN 2 * W[1] ELSE W[s]
  BY DEF Stored
<1>4. W[1] \in Nat /\ \A n \in Nat : (2 * n) \div 2 = n
  BY <1>1
<1>5. Stored(W)[1] \div 2 = W[1]
  BY <1>1, <1>3, <1>4
<1> DEFINE halved == [Stored(W) EXCEPT ![1] = @ \div 2]
<1>6. halved = W
  <2>1. \A s \in Stat : halved[s] = W[s]
    BY <1>2, <1>3, <1>5
  <2>2. DOMAIN halved = Stat /\ halved = [s \in Stat |-> halved[s]]
    BY <1>2
  <2>3. QED
    BY <2>1, <2>2
<1>7. Points("Blasters", Stored(W)) = [s \in Four |-> W[s]]
  <2>1. Stats("Blasters") = Four
    BY StatsOfGames
  <2>2. \A s \in Four :
            (IF "Blasters" # "YW1" /\ s = 1 THEN Stored(W)[1] \div 2 ELSE Stored(W)[s]) = W[s]
    BY <1>1, <1>3, <1>5
  <2>3. QED
    BY <2>1, <2>2 DEF Points
<1>8. QED
  BY <1>2, <1>3, <1>6, <1>7

(***************************************************************************)
(* A valid record brings the forty points it has, or four for each of the  *)
(* ten of Yo-kai Watch, and none in a stat its game does not have.         *)
(***************************************************************************)
Worth(source) == IF source = "YW1" THEN 4 ELSE 1

Brings(source, stored, W) ==
    /\ Total(W) = 40
    /\ Brought(source, stored) = Stored(W)
    /\ \A s \in Stats(source) :
           /\ Points(source, Read(source, stored))[s] \in Nat
           /\ W[s] = Worth(source) * Points(source, Read(source, stored))[s]
    /\ \A s \in Stat \ Stats(source) : W[s] = 0

LEMMA ValidBrings ==
    ASSUME NEW source \in Games, NEW stored \in [Stat -> Byte], ValidIvs(source, stored)
    PROVE  \E W \in [Stat -> Nat] : Brings(source, stored, W)
<1> DEFINE own == Read(source, stored)
           old == Points(source, own)
<1>1. own \in [Stat -> Byte]
  BY BroughtType
<1>2. \A s \in Stat : own[s] \in Nat
  BY <1>1 DEF Byte
<1>3. Stats(source) \in Kinds /\ Stats(source) \subseteq Stat /\ 1 \in Stats(source) /\ 1 \in Stat
  BY StatsOfGames DEF Kinds, Four, Stat
<1>4. CASE source = "YW1"
  <2>1. Stats(source) = Stat
    BY <1>4, StatsOfGames
  <2>2. old = own
    <3>1. old = [s \in Stat |-> own[s]]
      BY <1>4, <2>1 DEF Points
    <3>2. QED
      BY <1>1, <3>1
  <2>3. Total(own) = 10
    BY <1>4 DEF ValidIvs
  <2> DEFINE W == [s \in Stat |-> 4 * own[s]]
  <2> HIDE DEF own, old
  <2>4. own \in [Stat -> Nat] /\ W \in [Stat -> Nat] /\ \A s \in Stat : W[s] = 4 * own[s]
    BY <1>1, <1>2
  <2>5. Total(W) = 40
    BY <2>3, <2>4, TotalOfProduct DEF Kinds
  <2> HIDE DEF W
  <2>6. \A s \in Stat : own[s] * 40 = Total(own) * W[s]
    BY <1>2, <2>3, <2>4
  <2>7. Scale(own, 40) = W
    <3>1. Stat \in Kinds /\ 40 \in Nat /\ Total(own) # 0
      BY <2>3 DEF Kinds
    <3>2. \A exact \in [Stat -> Nat] :
             (\A s \in Stat : own[s] * 40 = Total(own) * exact[s]) => Scale(own, 40) = exact
      BY <2>4, <3>1, ScaledPoints
    <3>3. QED
      BY <2>4, <2>6, <3>2
  <2>8. Brought(source, stored) = Stored(W)
    BY <1>4, <2>3, <2>7 DEF Brought, own
  <2>9. Brings(source, stored, W)
    BY <1>2, <1>4, <2>1, <2>2, <2>4, <2>5, <2>8 DEF Brings, Worth, own, old
  <2>10. QED
    BY <2>4, <2>9
<1>5. CASE source # "YW1"
  <2>1. Even(own) /\ Total(old) = 40 /\ Brought(source, stored) = own
    BY <1>5 DEF ValidIvs, Brought
  <2>2. \A s \in Stat \ Stats(source) : own[s] = 0
    BY DEF Read
  <2>3. /\ DOMAIN old = Stats(source)
        /\ \A s \in Stats(source) : old[s] = IF s = 1 THEN own[1] \div 2 ELSE own[s]
    BY <1>5 DEF Points
  <2>4. own[1] \in Nat /\ own[1] % 2 = 0
    BY <1>2, <1>3, <2>1 DEF Even
  <2> HIDE DEF own, old
  <2>5. own[1] \div 2 \in Nat /\ own[1] = 2 * (own[1] \div 2)
    <3>1. /\ own[1] \div 2 \in Nat
          /\ own[1] = 2 * (own[1] \div 2) + (own[1] % 2)
      BY <2>4, Quotient
    <3>2. QED
      BY <2>4, <3>1
  <2>6. \A s \in Stats(source) : old[s] \in Nat
    BY <1>2, <1>3, <2>3, <2>5
  <2> DEFINE W == [s \in Stat |-> IF s \in Stats(source) THEN old[s] ELSE 0]
  <2>7. /\ W \in [Stat -> Nat]
        /\ \A s \in Stats(source) : W[s] = old[s]
        /\ \A s \in Stat \ Stats(source) : W[s] = 0
    BY <1>3, <2>6
  <2> HIDE DEF W
  <2>8. Total(W) = Total(old)
    <3>1. DOMAIN W = Stat /\ Total(W) = W[1] + W[2] + W[3] + W[4] + W[5]
      BY <2>7, TotalOfFive
    <3>2. CASE Stats(source) = Stat
      <4>1. W = old
        <5>1. W = [s \in Stat |-> W[s]]
          BY <2>7
        <5>2. old = [s \in Stat |-> old[s]]
          BY <3>2 DEF old, Points
        <5>3. QED
          BY <2>7, <3>2, <5>1, <5>2
      <4>2. QED
        BY <4>1
    <3>3. CASE Stats(source) = Four
      <4>1. Total(old) = old[1] + old[2] + old[3] + old[4]
        BY <2>3, <2>6, <3>3, TotalOfFour
      <4>2. 1 \in Four /\ 2 \in Four /\ 3 \in Four /\ 4 \in Four /\ 5 \in Stat \ Four
        BY DEF Four, Stat
      <4>3. W[1] = old[1] /\ W[2] = old[2] /\ W[3] = old[3] /\ W[4] = old[4] /\ W[5] = 0
        BY <2>7, <3>3, <4>2
      <4>4. old[1] \in Nat /\ old[2] \in Nat /\ old[3] \in Nat /\ old[4] \in Nat
        BY <2>6, <3>3, <4>2
      <4>5. QED
        BY <3>1, <4>1, <4>3, <4>4
    <3>4. QED
      BY <1>3, <3>2, <3>3 DEF Kinds
  <2>9. Stored(W) = own
    <3>1. \A s \in Stat : (IF s = 1 THEN 2 * W[1] ELSE W[s]) = own[s]
      BY <1>3, <2>2, <2>3, <2>5, <2>7
    <3>2. Stored(W) = [s \in Stat |-> IF s = 1 THEN 2 * W[1] ELSE W[s]]
      BY <2>7 DEF Stored
    <3>3. own = [s \in Stat |-> own[s]]
      BY <1>1
    <3>4. QED
      BY <3>1, <3>2, <3>3
  <2>10. Brings(source, stored, W)
    BY <1>5, <2>1, <2>6, <2>7, <2>8, <2>9 DEF Brings, Worth, own, old
  <2>11. QED
    BY <2>7, <2>10
<1>6. QED
  BY <1>4, <1>5

(***************************************************************************)
(* What each game makes of forty points: the later games keep them,        *)
(* Yo-kai Watch a quarter, Blasters the first four stats'.                 *)
(***************************************************************************)
LEMMA MadeOf ==
    ASSUME NEW W \in [Stat -> Nat], Total(W) = 40
    PROVE  /\ ToLater(Stored(W)) = Stored(W)
           /\ ToYW1(Stored(W)) = Scale(W, 10)
           /\ LET kept == [s \in Four |-> W[s]]
              IN  ToBlasters(Stored(W)) =
                      IF Total(kept) # 0 THEN Stored(Scale(kept, 40))
                      ELSE Stored(<<10, 10, 10, 10>>)
<1>1. ToLater(Stored(W)) = Stored(W)
  BY StoredPoints DEF ToLater
<1>2. ToYW1(Stored(W)) = Scale(W, 10)
  <2>1. [Stored(W) EXCEPT ![1] = @ \div 2] = W /\ Even(Stored(W))
    BY StoredPoints
  <2> DEFINE points == [Stored(W) EXCEPT ![1] = @ \div 2]
  <2>2. ToYW1(Stored(W)) = IF Even(Stored(W)) /\ Total(points) # 0
                           THEN Scale(points, 10) ELSE [s \in Stat |-> 2]
    BY DEF ToYW1
  <2>3. points = W
    BY <2>1
  <2> HIDE DEF points
  <2>4. QED
    BY <2>1, <2>2, <2>3
<1>3. Points("Blasters", Stored(W)) = [s \in Four |-> W[s]]
  BY StoredPoints
<1>4. QED
  BY <1>1, <1>2, <1>3 DEF ToBlasters

-----------------------------------------------------------------------------
(* The theorems *)

(***************************************************************************)
(* std::clamp() brings any byte into 1 .. 99.                              *)
(***************************************************************************)
LEMMA ClampedLevel ==
    ASSUME NEW l \in Byte
    PROVE  Clamped(l) \in 1 .. 99 /\ Clamped(l) \in Byte
BY DEF Clamped, Byte

LEMMA TypeStep == TypeOK /\ [Next]_vars => TypeOK'
<1>1. ASSUME TypeOK, NEW target \in Games, Convert(target)
      PROVE  TypeOK'
  <2>1. game \in Games /\ iv \in [Stat -> Byte] /\ level \in Byte
    BY <1>1 DEF TypeOK
  <2>2. iv' \in [Stat -> Byte]
    BY <1>1, <2>1, ConvertedAccepted DEF Convert
  <2>3. level' \in Byte
    BY <1>1, <2>1, ClampedLevel DEF Convert
  <2>4. coarse' \in BOOLEAN /\ game' \in Games /\ origin' = origin
    BY <1>1 DEF Convert, TypeOK
  <2>5. QED
    BY <1>1, <2>2, <2>3, <2>4 DEF TypeOK
<1>2. ASSUME TypeOK, UNCHANGED vars
      PROVE  TypeOK'
  BY <1>2 DEF TypeOK, vars
<1>3. QED
  BY <1>1, <1>2 DEF Next

LEMMA TypeStart == Init => TypeOK
<1> SUFFICES ASSUME Init
             PROVE  TypeOK
  OBVIOUS
<1>1. game \in Games /\ level \in Byte /\ coarse \in BOOLEAN
  BY ConversionAssumption DEF Init
<1>2. iv \in [Stat -> Byte]
  BY <1>1, ConversionAssumption DEF Init
<1>3. origin \in [game : Games, iv : [Stat -> Byte]]
  BY <1>1, <1>2 DEF Init
<1>4. QED
  BY <1>1, <1>2, <1>3 DEF TypeOK

(***************************************************************************)
(* The record keeps its types: no conversion overflows a byte.             *)
(***************************************************************************)
THEOREM TypeCorrect == Spec => []TypeOK
BY TypeStart, TypeStep, PTL DEF Spec

(***************************************************************************)
(* validateRecord() accepts what convertRecord() makes of any record a     *)
(* save can hold, so its check never refuses a withdrawal: of every game,  *)
(* into every other, whatever the bytes of the values and of the level.    *)
(***************************************************************************)
THEOREM Accepted == Spec => []AlwaysAccepted
<1>1. ASSUME TypeOK
      PROVE  AlwaysAccepted
  <2>1. ASSUME NEW target \in Games
        PROVE  ValidRecord(target, ConvertedIvs(game, target, iv), Clamped(level))
    BY <1>1, ConvertedAccepted, ClampedLevel DEF TypeOK, ValidRecord
  <2>2. QED
    BY <2>1 DEF AlwaysAccepted
<1>2. QED
  BY <1>1, TypeCorrect, PTL

(***************************************************************************)
(* Why a Yo-kai comes home unchanged.  In every game it can be in without  *)
(* having lost anything, the record is read as the values it left with, or *)
(* as what they were turned into on the way out of Yo-kai Watch.           *)
(***************************************************************************)
Remembered ==
    ValidIvs(origin.game, origin.iv) /\ ~ coarse =>
        /\ game \notin Coarser(origin.game)
        /\ Read(game, iv) = IF game = "YW1" THEN Read(origin.game, origin.iv)
                            ELSE Brought(origin.game, origin.iv)

Inv == TypeOK /\ Remembered

LEMMA RememberedStart == Init => Inv
<1> SUFFICES ASSUME Init
             PROVE  Inv
  OBVIOUS
<1>1. TypeOK
  BY TypeStart
<1>2. game = origin.game /\ iv = origin.iv /\ game \in Games
  BY DEF Init
<1>3. game \notin Coarser(game)
  BY <1>2 DEF Coarser, Games
<1>4. Read(game, iv) = IF game = "YW1" THEN Read(game, iv) ELSE Brought(game, iv)
  BY DEF Brought
<1>5. QED
  BY <1>1, <1>2, <1>3, <1>4 DEF Inv, Remembered

\* Before a transfer the record brings what it brought at first.
LEMMA SameBrought ==
    ASSUME Inv, ValidIvs(origin.game, origin.iv), ~ coarse
    PROVE  Brought(game, iv) = Brought(origin.game, origin.iv)
<1>1. /\ game \in Games /\ origin.game \in Games
      /\ game \notin Coarser(origin.game)
      /\ Read(game, iv) = IF game = "YW1" THEN Read(origin.game, origin.iv)
                          ELSE Brought(origin.game, origin.iv)
  BY DEF Inv, TypeOK, Remembered
<1>2. CASE game = "YW1"
  <2>1. origin.game = "YW1"
    BY <1>1, <1>2 DEF Coarser, Games
  <2>2. QED
    BY <1>1, <1>2, <2>1 DEF Brought
<1>3. CASE game # "YW1"
  BY <1>1, <1>3 DEF Brought
<1>4. QED
  BY <1>2, <1>3

LEMMA RememberedStep == Inv /\ [Next]_vars => Inv'
<1>1. ASSUME Inv, UNCHANGED vars
      PROVE  Inv'
  BY <1>1 DEF Inv, TypeOK, Remembered, vars
<1>2. ASSUME Inv, NEW target \in Games, Convert(target)
      PROVE  Inv'
  <2>1. TypeOK /\ TypeOK'
    BY <1>2, TypeStep DEF Inv, Next
  <2>2. ASSUME ValidIvs(origin.game, origin.iv), ~ coarse'
        PROVE  /\ target \notin Coarser(origin.game)
               /\ Read(target, iv') = IF target = "YW1" THEN Read(origin.game, origin.iv)
                                      ELSE Brought(origin.game, origin.iv)
    <3> DEFINE home == origin.game
               left == origin.iv
    <3>1. ~ coarse /\ target \notin Coarser(home)
      BY <1>2, <2>2 DEF Convert
    <3>2. home \in Games /\ left \in [Stat -> Byte] /\ game \in Games /\ game \notin Coarser(home)
      BY <1>2, <2>1, <2>2, <3>1 DEF TypeOK, Inv, Remembered
    <3>3. Brought(game, iv) = Brought(home, left)
      BY <1>2, <2>2, <3>1, SameBrought
    <3>4. PICK W \in [Stat -> Nat] : Brings(home, left, W)
      BY <2>2, <3>2, ValidBrings
    <3>5. Total(W) = 40 /\ Brought(game, iv) = Stored(W) /\ Brought(home, left) = Stored(W)
      BY <3>3, <3>4 DEF Brings
    <3>6. CASE target = "YW1"
      <4>1. home = "YW1"
        BY <3>1, <3>2, <3>6 DEF Coarser, Games
      <4> DEFINE own == Read(home, left)
      <4>2. own \in [Stat -> Nat] /\ Stats(home) = Stat
        <5>1. own \in [Stat -> Byte]
          BY <3>2, BroughtType
        <5>2. own \in [Stat -> Nat]
          BY <5>1 DEF Byte
        <5>3. QED
          BY <4>1, <5>2, StatsOfGames DEF Games
      <4>3. Points(home, own) = own
        <5>1. Points(home, own) = [s \in Stat |-> own[s]]
          BY <4>1, <4>2 DEF Points
        <5>2. QED
          BY <4>2, <5>1
      <4>4. \A s \in Stat : W[s] * 10 = Total(W) * own[s]
        <5>1. \A s \in Stat : own[s] \in Nat /\ W[s] = 4 * own[s]
          BY <3>4, <4>1, <4>2, <4>3 DEF Brings, Worth
        <5> HIDE DEF own
        <5>2. QED
          BY <3>5, <5>1
      <4>5. Scale(W, 10) = own
        <5>1. Stat \in Kinds /\ 10 \in Nat /\ Total(W) # 0
          BY <3>5 DEF Kinds
        <5>2. \A exact \in [Stat -> Nat] :
                 (\A s \in Stat : W[s] * 10 = Total(W) * exact[s]) => Scale(W, 10) = exact
          BY <5>1, ScaledPoints
        <5>3. QED
          BY <4>2, <4>4, <5>2
      <4>6. iv' = ToYW1(Stored(W))
        BY <1>2, <3>5, <3>6, ConvertedFrom DEF Convert
      <4>7. ToYW1(Stored(W)) = own
        BY <3>5, <4>5, MadeOf
      <4>8. Read("YW1", own) = own
        <5>1. Stored(W) \in [Stat -> Nat]
          BY <3>5, StoredPoints DEF Byte
        <5>2. QED
          BY <4>7, <5>1, ToYW1Accepted
      <4>9. QED
        BY <3>1, <3>6, <4>6, <4>7, <4>8
    <3>7. CASE target = "Blasters"
      <4>1. home = "Blasters"
        BY <3>1, <3>2, <3>7 DEF Coarser, Games
      <4> DEFINE kept == [s \in Four |-> W[s]]
      <4>2. Stats(home) = Four /\ Four \subseteq Stat /\ 5 \in Stat \ Four
        BY <4>1, StatsOfGames DEF Stat, Four
      <4>3. W[5] = 0 /\ \A s \in Stat \ Four : W[s] = 0
        BY <3>4, <4>2 DEF Brings
      <4>4. kept \in [Four -> Nat] /\ \A s \in Four : kept[s] = W[s] /\ kept[s] \in Nat
        BY <4>2
      <4> HIDE DEF kept
      <4>5. Total(kept) = 40
        <5>1. Total(W) = W[1] + W[2] + W[3] + W[4] + W[5]
          BY TotalOfFive
        <5>2. Total(kept) = kept[1] + kept[2] + kept[3] + kept[4]
          BY <4>4, TotalOfFour
        <5>3. 1 \in Four /\ 2 \in Four /\ 3 \in Four /\ 4 \in Four
          BY DEF Four
        <5>4. QED
          BY <3>5, <4>3, <4>4, <5>1, <5>2, <5>3
      <4>6. Scale(kept, 40) = kept
        <5>1. Four \in Kinds /\ 40 \in Nat /\ Total(kept) # 0
          BY <4>5 DEF Kinds
        <5>2. \A exact \in [Four -> Nat] :
                 (\A s \in Four : kept[s] * 40 = Total(kept) * exact[s]) => Scale(kept, 40) = exact
          BY <4>4, <5>1, ScaledPoints
        <5>3. \A s \in Four : kept[s] * 40 = Total(kept) * kept[s]
          BY <4>4, <4>5
        <5>4. QED
          BY <4>4, <5>2, <5>3
      <4>7. Stored(kept) = Stored(W)
        <5>1. DOMAIN kept = Four /\ DOMAIN W = Stat /\ 1 \in Four
          BY <4>4 DEF Four
        <5>2. \A s \in Stat : (IF s \notin Four THEN 0 ELSE IF s = 1 THEN 2 * kept[1] ELSE kept[s])
                              = (IF s \notin Stat THEN 0 ELSE IF s = 1 THEN 2 * W[1] ELSE W[s])
          BY <4>2, <4>3, <4>4, <5>1
        <5>3. QED
          BY <5>1, <5>2 DEF Stored
      <4>8. iv' = Stored(W)
        <5>1. iv' = ToBlasters(Stored(W))
          BY <1>2, <3>5, <3>7, ConvertedFrom DEF Convert
        <5>2. ToBlasters(Stored(W)) = Stored(Scale(kept, 40))
          BY <3>5, <4>5, MadeOf DEF kept
        <5>3. QED
          BY <4>6, <4>7, <5>1, <5>2
      <4>9. Read(target, iv') = Stored(W)
        <5>1. Read(target, Stored(kept)) = Stored(kept)
          BY <3>7, <4>1, <4>2, <4>4, <4>5, <3>2, FortyStored
        <5>2. QED
          BY <4>7, <4>8, <5>1
      <4>10. QED
        BY <3>1, <3>5, <3>7, <4>9
    <3>8. CASE target \in Later
      <4>1. Stats(target) = Stat /\ target # "YW1"
        BY <3>8, StatsOfGames
      <4>2. iv' = Stored(W)
        <5>1. iv' = ToLater(Stored(W))
          BY <1>2, <3>5, <3>8, ConvertedFrom DEF Convert
        <5>2. QED
          BY <3>5, <5>1, MadeOf
      <4>3. Read(target, Stored(W)) = Stored(W)
        BY <3>5, <4>1, FortyStored
      <4>4. QED
        BY <3>1, <3>5, <4>1, <4>2, <4>3
    <3>9. QED
      BY <3>6, <3>7, <3>8, StatsOfGames
  <2>3. game' = target /\ origin' = origin
    BY <1>2 DEF Convert
  <2>4. Remembered'
    BY <2>2, <2>3 DEF Remembered
  <2>5. QED
    BY <2>1, <2>4 DEF Inv
<1>3. QED
  BY <1>1, <1>2 DEF Next

(***************************************************************************)
(* A Yo-kai that was valid and that no coarser game has held comes home    *)
(* with the values it left with, after any number of transfers: scaling    *)
(* ten points to forty and back is exact.                                  *)
(***************************************************************************)
THEOREM HomeUnchanged == Spec => []ComesHomeUnchanged
<1>1. ASSUME Inv
      PROVE  ComesHomeUnchanged
  <2>1. ASSUME ValidIvs(origin.game, origin.iv), ~ coarse, game = origin.game
        PROVE  Read(game, iv) = Read(game, origin.iv)
    <3>1. Read(game, iv) = IF game = "YW1" THEN Read(game, origin.iv)
                           ELSE Brought(game, origin.iv)
      BY <1>1, <2>1 DEF Inv, Remembered
    <3>2. QED
      BY <3>1 DEF Brought
  <2>2. QED
    BY <2>1 DEF ComesHomeUnchanged
<1>2. QED
  BY <1>1, RememberedStart, RememberedStep, PTL DEF Spec

-----------------------------------------------------------------------------
(* The order of the stats *)

\* What a game makes of forty points: none overtakes a larger one.
NotOvertaken(target, made, W, S) ==
    \A s, t \in S \cap Stats(target) :
        W[s] > W[t] =>
            Points(target, Read(target, made))[s] >= Points(target, Read(target, made))[t]

LEMMA OrderMade ==
    ASSUME NEW source \in Games, NEW target \in Games, NEW stored \in [Stat -> Byte],
           NEW W \in [Stat -> Nat], Brings(source, stored, W)
    PROVE  NotOvertaken(target, ConvertedIvs(source, target, stored), W, Stats(source))
<1> DEFINE made == ConvertedIvs(source, target, stored)
<1>1. Total(W) = 40 /\ Brought(source, stored) = Stored(W)
  BY DEF Brings
<1>2. Stat \in Kinds /\ Four \in Kinds /\ Total(W) # 0 /\ 10 \in Nat /\ 40 \in Nat
  BY <1>1 DEF Kinds
<1>3. CASE target = "YW1"
  <2>1. made = Scale(W, 10)
    BY <1>1, <1>3, ConvertedFrom, MadeOf
  <2>2. Read("YW1", made) = made
    <3>1. Stored(W) \in [Stat -> Nat]
      BY <1>1, StoredPoints DEF Byte
    <3>2. made = ToYW1(Stored(W))
      BY <1>1, <1>3, ConvertedFrom
    <3>3. QED
      BY <3>1, <3>2, ToYW1Accepted
  <2>3. Scale(W, 10) \in [Stat -> Nat]
    BY <1>2, ScaledPoints
  <2>4. \A s, t \in Stat : W[s] > W[t] => Scale(W, 10)[s] >= Scale(W, 10)[t]
    BY <1>2, ScaledPoints
  <2> HIDE DEF made
  <2>5. Stats("YW1") = Stat
    BY StatsOfGames DEF Games
  <2>6. \A s \in Stat : Points("YW1", Read("YW1", made))[s] = Scale(W, 10)[s]
    BY <2>1, <2>2, <2>5 DEF Points
  <2>7. QED
    BY <1>3, <2>4, <2>5, <2>6 DEF NotOvertaken, made
<1>4. CASE target = "Blasters"
  <2> DEFINE kept == [s \in Four |-> W[s]]
  <2>1. Stats(target) = Four /\ Four \subseteq Stat
    BY <1>4, StatsOfGames
  <2>2. kept \in [Four -> Nat] /\ \A s \in Four : kept[s] = W[s]
    BY <2>1
  <2>3. made = IF Total(kept) # 0 THEN Stored(Scale(kept, 40)) ELSE Stored(<<10, 10, 10, 10>>)
    BY <1>1, <1>4, ConvertedFrom, MadeOf
  <2> HIDE DEF kept, made
  <2>4. CASE Total(kept) # 0
    <3>1. /\ Scale(kept, 40) \in [Four -> Nat] /\ Total(Scale(kept, 40)) = 40
          /\ \A s, t \in Four : kept[s] > kept[t] => Scale(kept, 40)[s] >= Scale(kept, 40)[t]
      BY <1>2, <2>2, <2>4, ScaledPoints
    <3>2. Points(target, Read(target, made)) = Scale(kept, 40)
      BY <1>4, <2>1, <2>3, <2>4, <3>1, FortyStored
    <3>3. QED
      BY <2>1, <2>2, <3>1, <3>2 DEF NotOvertaken, made
  <2>5. CASE Total(kept) = 0
    <3>1. <<10, 10, 10, 10>> \in [Four -> Nat] /\ Total(<<10, 10, 10, 10>>) = 40
      BY Defaults
    <3>2. Points(target, Read(target, made)) = <<10, 10, 10, 10>>
      BY <1>4, <2>1, <2>3, <2>5, <3>1, FortyStored
    <3>3. \A s \in Four : Points(target, Read(target, made))[s] = 10
      BY <3>2 DEF Four
    <3>4. QED
      BY <2>1, <3>3 DEF NotOvertaken, made
  <2>6. QED
    BY <2>4, <2>5
<1>5. CASE target \in Later
  <2>1. Stats(target) = Stat /\ target # "YW1"
    BY <1>5, StatsOfGames
  <2>2. made = Stored(W)
    BY <1>1, <1>5, ConvertedFrom, MadeOf
  <2> HIDE DEF made
  <2>3. Points(target, Read(target, made)) = W
    BY <1>1, <2>1, <2>2, FortyStored
  <2>4. \A s \in Stat : W[s] \in Nat
    OBVIOUS
  <2>5. QED
    BY <2>1, <2>3, <2>4 DEF NotOvertaken, made
<1>6. QED
  BY <1>3, <1>4, <1>5, StatsOfGames

(***************************************************************************)
(* A transfer of a valid record turns no stronger stat into a weaker one,  *)
(* in the stats both games have: the scaling may make equals of them, but  *)
(* the points left over by the rounding go to the larger ones first.       *)
(***************************************************************************)
THEOREM OrderKept == Spec => OrderOfStatsKept
<1> DEFINE Kept == ValidIvs(game, iv) =>
                     LET old == Points(game, Read(game, iv))
                         new == Points(game', Read(game', iv'))
                     IN  \A s, t \in Stats(game) \cap Stats(game') :
                             old[s] > old[t] => new[s] >= new[t]
<1>1. ASSUME TypeOK, NEW target \in Games, Convert(target)
      PROVE  Kept
  <2> SUFFICES ASSUME ValidIvs(game, iv)
               PROVE  \A s, t \in Stats(game) \cap Stats(target) :
                          Points(game, Read(game, iv))[s] > Points(game, Read(game, iv))[t] =>
                              Points(target, Read(target, iv'))[s] >= Points(target, Read(target, iv'))[t]
    BY <1>1 DEF Convert
  <2>1. game \in Games /\ iv \in [Stat -> Byte] /\ iv' = ConvertedIvs(game, target, iv)
    BY <1>1 DEF TypeOK, Convert
  <2>2. PICK W \in [Stat -> Nat] : Brings(game, iv, W)
    BY <2>1, ValidBrings
  <2>3. NotOvertaken(target, iv', W, Stats(game))
    BY <2>1, <2>2, OrderMade
  <2> DEFINE old == Points(game, Read(game, iv))
  <2>4. \A s \in Stats(game) : old[s] \in Nat /\ W[s] = Worth(game) * old[s]
    BY <2>2 DEF Brings
  <2> HIDE DEF old
  <2>5. \A a, b \in Nat : a > b => Worth(game) * a > Worth(game) * b
    BY DEF Worth
  <2>6. \A s, t \in Stats(game) : old[s] > old[t] => W[s] > W[t]
    BY <2>4, <2>5
  <2>7. QED
    BY <2>3, <2>6 DEF NotOvertaken, old
<1>2. ASSUME TypeOK, UNCHANGED vars
      PROVE  Kept
  <2> SUFFICES ASSUME ValidIvs(game, iv), game' = game, iv' = iv
               PROVE  \A s, t \in Stats(game) :
                          Points(game, Read(game, iv))[s] > Points(game, Read(game, iv))[t] =>
                              Points(game, Read(game, iv))[s] >= Points(game, Read(game, iv))[t]
    BY <1>2 DEF vars
  <2>1. \E W \in [Stat -> Nat] : Brings(game, iv, W)
    BY <1>2, ValidBrings DEF TypeOK
  <2>2. \A s \in Stats(game) : Points(game, Read(game, iv))[s] \in Nat
    BY <2>1 DEF Brings
  <2>3. QED
    BY <2>2
<1>3. TypeOK /\ [Next]_vars => Kept
  BY <1>1, <1>2 DEF Next
<1>4. TypeOK /\ [Next]_vars => [Kept]_vars
  BY <1>3
<1> HIDE DEF Kept
<1>5. Spec => [][Kept]_vars
  BY <1>4, TypeCorrect, PTL DEF Spec
<1>6. QED
  BY <1>5 DEF OrderOfStatsKept, Kept
=============================================================================
