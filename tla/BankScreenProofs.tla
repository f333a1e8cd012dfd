--------------------------- MODULE BankScreenProofs ---------------------------
(***************************************************************************)
(* What the transfer screen promises, for every save, bank, order and      *)
(* batch, and that it uses the session as module Session says.             *)
(***************************************************************************)
EXTENDS BankScreenProperties, SessionProofs

Row == [slot : Slot, record : Record]

\* The rows are the records of the image, each once.
RowsOfSave(rows, image) ==
    /\ rows \in Seq(Row)
    /\ Len(rows) = Cardinality(Occupied(image))
    /\ \A i \in 1 .. Len(rows) : image.slots[rows[i].slot] = rows[i].record
    /\ \A i, j \in 1 .. Len(rows) : rows[i].slot = rows[j].slot => i = j
    /\ \A s \in Occupied(image) : \E i \in 1 .. Len(rows) : rows[i].slot = s

\* The rows are the positions of the entries, each once.
RowsOfBank(rows, entries) ==
    /\ rows \in Seq(Nat)
    /\ Len(rows) = Len(entries)
    /\ \A i \in 1 .. Len(rows) : rows[i] \in 1 .. Len(entries)
    /\ \A k \in 1 .. Len(entries) : \E i \in 1 .. Len(rows) : rows[i] = k

-----------------------------------------------------------------------------
(* Sorting *)

(***************************************************************************)
(* There are n places, from 0 on as from 1 on.                             *)
(***************************************************************************)
LEMMA PlacesFromZero ==
    ASSUME NEW n \in Nat
    PROVE  IsFiniteSet(0 .. n - 1) /\ Cardinality(0 .. n - 1) = n
<1>1. 0 \in Int /\ n - 1 \in Int
  OBVIOUS
<1>2. /\ IsFiniteSet(0 .. n - 1)
      /\ Cardinality(0 .. n - 1) = IF 0 > n - 1 THEN 0 ELSE (n - 1) - 0 + 1
  BY <1>1, FS_Interval
<1>3. QED
  BY <1>2

LEMMA PlacesFromOne ==
    ASSUME NEW n \in Nat
    PROVE  IsFiniteSet(1 .. n) /\ Cardinality(1 .. n) = n
<1>1. 1 \in Int /\ n \in Int
  OBVIOUS
<1>2. /\ IsFiniteSet(1 .. n)
      /\ Cardinality(1 .. n) = IF 1 > n THEN 0 ELSE n - 1 + 1
  BY <1>1, FS_Interval
<1>3. QED
  BY <1>2

(***************************************************************************)
(* Ascending has every pair in one place: the number of pairs before a     *)
(* pair is a different one for each, and below the number of pairs.        *)
(***************************************************************************)
LEMMA AscendingHasAll ==
    ASSUME NEW pairs \in SUBSET (Nat \X Nat), IsFiniteSet(pairs)
    PROVE  /\ Cardinality(pairs) \in Nat
           /\ Ascending(pairs) \in [1 .. Cardinality(pairs) -> pairs]
           /\ \A i, j \in 1 .. Cardinality(pairs) :
                  Ascending(pairs)[i] = Ascending(pairs)[j] => i = j
           /\ \A p \in pairs : \E i \in 1 .. Cardinality(pairs) : Ascending(pairs)[i] = p
<1> DEFINE n == Cardinality(pairs)
           Before(p, q) == p[1] < q[1] \/ (p[1] = q[1] /\ p[2] < q[2])
           Below(p) == {q \in pairs : Before(q, p)}
           rank == [p \in pairs |-> Cardinality(Below(p))]
<1>1. n \in Nat
  BY FS_CardinalityType
<1>2. /\ \A p, q, r \in pairs : Before(p, q) /\ Before(q, r) => Before(p, r)
      /\ \A p \in pairs : ~ Before(p, p)
      /\ \A p, q \in pairs : p # q => Before(p, q) \/ Before(q, p)
  <2>1. \A p \in pairs : p = <<p[1], p[2]>> /\ p[1] \in Nat /\ p[2] \in Nat
    OBVIOUS
  <2>2. \A p, q \in pairs : p[1] = q[1] /\ p[2] = q[2] => p = q
    BY <2>1
  <2>3. QED
    BY <2>1, <2>2
<1> HIDE DEF Before
<1>3. \A p \in pairs : IsFiniteSet(Below(p)) /\ Cardinality(Below(p)) \in 0 .. n - 1
  <2> TAKE p \in pairs
  <2>1. Below(p) \in SUBSET pairs /\ Below(p) # pairs
    BY <1>2
  <2>2. /\ IsFiniteSet(Below(p)) /\ Cardinality(Below(p)) =< n
        /\ n = Cardinality(Below(p)) => pairs = Below(p)
    BY <2>1, FS_Subset
  <2>3. Cardinality(Below(p)) \in Nat
    BY <2>2, FS_CardinalityType
  <2>4. QED
    BY <1>1, <2>1, <2>2, <2>3
<1>4. ASSUME NEW p \in pairs, NEW q \in pairs, Before(p, q)
      PROVE  rank[p] < rank[q]
  <2>1. Below(p) \in SUBSET Below(q) /\ Below(p) # Below(q)
    BY <1>2, <1>4
  <2>2. /\ Cardinality(Below(p)) =< Cardinality(Below(q))
        /\ Cardinality(Below(q)) = Cardinality(Below(p)) => Below(q) = Below(p)
    BY <1>3, <2>1, FS_Subset
  <2>3. Cardinality(Below(p)) \in Nat /\ Cardinality(Below(q)) \in Nat
    BY <1>3, FS_CardinalityType
  <2>4. Cardinality(Below(p)) < Cardinality(Below(q))
    BY <2>1, <2>2, <2>3
  <2>5. QED
    BY <2>4
<1>5. rank \in Injection(pairs, 0 .. n - 1)
  <2>1. rank \in [pairs -> 0 .. n - 1]
    BY <1>3
  <2>2. ASSUME NEW p \in pairs, NEW q \in pairs, rank[p] = rank[q]
        PROVE  p = q
    <3>1. rank[p] \in Int /\ ~ (rank[p] < rank[q]) /\ ~ (rank[q] < rank[p])
      BY <1>1, <2>1, <2>2
    <3>2. ~ Before(p, q) /\ ~ Before(q, p)
      BY <1>4, <3>1
    <3>3. QED
      BY <1>2, <3>2
  <2>3. QED
    BY <2>1, <2>2 DEF Injection, IsInjective
<1>6. IsFiniteSet(0 .. n - 1) /\ Cardinality(0 .. n - 1) = n
  BY <1>1, PlacesFromZero
<1>7. rank \in Surjection(pairs, 0 .. n - 1)
  <2> DEFINE places == 0 .. n - 1
  <2>1. rank \in Injection(pairs, places)
    BY <1>5
  <2>2. IsFiniteSet(places) /\ Cardinality(places) = Cardinality(pairs)
    BY <1>6
  <2> HIDE DEF rank, places
  <2>3. rank \in Surjection(pairs, places)
    BY <2>1, <2>2, FS_Injection
  <2>4. QED
    BY <2>3 DEF places
<1>8. \A i \in 1 .. n : \E p \in pairs : Cardinality(Below(p)) = i - 1
  <2>1. \A k \in 0 .. n - 1 : \E p \in pairs : rank[p] = k
    BY <1>7 DEF Surjection
  <2>2. \A i \in 1 .. n : i - 1 \in 0 .. n - 1
    BY <1>1
  <2>3. QED
    BY <2>1, <2>2
<1>9. Ascending(pairs) = [i \in 1 .. n |-> CHOOSE p \in pairs : Cardinality(Below(p)) = i - 1]
  BY DEF Ascending, Before
<1>10. \A i \in 1 .. n : /\ Ascending(pairs)[i] \in pairs
                         /\ rank[Ascending(pairs)[i]] = i - 1
  BY <1>8, <1>9
<1>11. Ascending(pairs) \in [1 .. n -> pairs]
  BY <1>9, <1>10
<1>12. \A p \in pairs : \E i \in 1 .. n : Ascending(pairs)[i] = p
  <2> TAKE p \in pairs
  <2>1. rank[p] \in 0 .. n - 1 /\ rank[p] + 1 \in 1 .. n /\ (rank[p] + 1) - 1 = rank[p]
    BY <1>1, <1>3
  <2>2. rank[Ascending(pairs)[rank[p] + 1]] = rank[p] /\ Ascending(pairs)[rank[p] + 1] \in pairs
    BY <1>10, <2>1
  <2>3. Ascending(pairs)[rank[p] + 1] = p
    BY <1>5, <2>2 DEF Injection, IsInjective
  <2>4. QED
    BY <2>1, <2>3
<1>13. \A i, j \in 1 .. n : Ascending(pairs)[i] = Ascending(pairs)[j] => i = j
  <2>1. \A i, j \in 1 .. n : i - 1 = j - 1 => i = j
    BY <1>1
  <2>2. QED
    BY <1>10, <2>1
<1>14. QED
  BY <1>1, <1>11, <1>12, <1>13

(***************************************************************************)
(* One pair for each number, with the number in it: as many.               *)
(***************************************************************************)
LEMMA OnePairEach ==
    ASSUME NEW S, IsFiniteSet(S), NEW T, NEW f \in [S -> T],
           \A x, y \in S : f[x] = f[y] => x = y,
           \A y \in T : \E x \in S : f[x] = y
    PROVE  IsFiniteSet(T) /\ Cardinality(T) = Cardinality(S)
<1>1. f \in Bijection(S, T)
  BY DEF Bijection, Injection, Surjection, IsInjective
<1>2. ExistsBijection(S, T)
  BY <1>1 DEF ExistsBijection
<1>3. QED
  BY <1>2, FS_Bijection

(***************************************************************************)
(* A set of numbers in order: each number in one place.                    *)
(***************************************************************************)
LEMMA InSetOrderHasAll ==
    ASSUME NEW numbers \in SUBSET Nat, IsFiniteSet(numbers)
    PROVE  /\ Cardinality(numbers) \in Nat
           /\ InSetOrder(numbers) \in [1 .. Cardinality(numbers) -> numbers]
           /\ \A i, j \in 1 .. Cardinality(numbers) :
                  InSetOrder(numbers)[i] = InSetOrder(numbers)[j] => i = j
           /\ \A m \in numbers :
                  \E i \in 1 .. Cardinality(numbers) : InSetOrder(numbers)[i] = m
<1> DEFINE pairs == {<<m, 0>> : m \in numbers}
           f     == [m \in numbers |-> <<m, 0>>]
           order == Ascending(pairs)
           n     == Cardinality(numbers)
<1>1. /\ pairs \in SUBSET (Nat \X Nat)
      /\ \A p \in pairs : p[1] \in numbers /\ p = <<p[1], 0>>
      /\ \A m \in numbers : <<m, 0>> \in pairs
  OBVIOUS
<1>2. /\ f \in [numbers -> pairs]
      /\ \A x, y \in numbers : f[x] = f[y] => x = y
      /\ \A p \in pairs : \E m \in numbers : f[m] = p
  OBVIOUS
<1>3. IsFiniteSet(pairs) /\ Cardinality(pairs) = n
  <2> HIDE DEF pairs, f
  <2>1. QED
    BY <1>2, OnePairEach
<1>4. InSetOrder(numbers) = [i \in DOMAIN order |-> order[i][1]]
  BY DEF InSetOrder
<1> HIDE DEF pairs, f
<1>5. /\ n \in Nat /\ order \in [1 .. n -> pairs]
      /\ \A i, j \in 1 .. n : order[i] = order[j] => i = j
      /\ \A p \in pairs : \E i \in 1 .. n : order[i] = p
  BY <1>1, <1>3, AscendingHasAll
<1> HIDE DEF order, n
<1>6. /\ InSetOrder(numbers) = [i \in 1 .. n |-> order[i][1]]
      /\ \A i \in 1 .. n : order[i] \in pairs
  BY <1>4, <1>5
<1>7. InSetOrder(numbers) \in [1 .. n -> numbers]
  BY <1>1, <1>6
<1>8. \A i, j \in 1 .. n : InSetOrder(numbers)[i] = InSetOrder(numbers)[j] => i = j
  <2> TAKE i, j \in 1 .. n
  <2> HAVE InSetOrder(numbers)[i] = InSetOrder(numbers)[j]
  <2>1. order[i][1] = order[j][1]
    BY <1>6
  <2>2. order[i] = order[j]
    BY <1>1, <1>6, <2>1
  <2>3. QED
    BY <1>5, <2>2
<1>9. \A m \in numbers : \E i \in 1 .. n : InSetOrder(numbers)[i] = m
  <2> TAKE m \in numbers
  <2>1. PICK i \in 1 .. n : order[i] = <<m, 0>>
    BY <1>1, <1>5
  <2>2. InSetOrder(numbers)[i] = m
    BY <1>6, <2>1
  <2>3. QED
    BY <2>2
<1>10. QED
  BY <1>5, <1>7, <1>8, <1>9 DEF n

\* The same rows in another order
Rearranged(new, rows) ==
    \E place \in [1 .. Len(rows) -> 1 .. Len(rows)] :
        /\ \A i, j \in 1 .. Len(rows) : place[i] = place[j] => i = j
        /\ \A k \in 1 .. Len(rows) : \E i \in 1 .. Len(rows) : place[i] = k
        /\ \A i \in 1 .. Len(rows) : new[i] = rows[place[i]]

(***************************************************************************)
(* Sorting puts every row in one place.                                    *)
(***************************************************************************)
LEMMA SortedHasAll ==
    ASSUME NEW R, NEW rows \in Seq(R), NEW keys \in [DOMAIN rows -> Nat]
    PROVE  /\ Sorted(rows, keys) \in Seq(R)
           /\ Len(Sorted(rows, keys)) = Len(rows) /\ Len(rows) \in Nat
           /\ Rearranged(Sorted(rows, keys), rows)
<1> DEFINE n     == Len(rows)
           pairs == {<<keys[i], i>> : i \in 1 .. n}
           f     == [i \in 1 .. n |-> <<keys[i], i>>]
           order == Ascending(pairs)
           place == [i \in 1 .. n |-> order[i][2]]
<1>1. /\ n \in Nat /\ DOMAIN rows = 1 .. n
      /\ keys \in [1 .. n -> Nat]
      /\ IsFiniteSet(1 .. n) /\ Cardinality(1 .. n) = n
  <2>1. n \in Nat /\ DOMAIN rows = 1 .. n
    BY LenProperties
  <2>2. keys \in [1 .. n -> Nat]
    BY <2>1
  <2>3. QED
    BY <2>1, <2>2, PlacesFromOne
<1>2. Sorted(rows, keys) = [i \in 1 .. n |-> rows[order[i][2]]]
  BY <1>1 DEF Sorted
<1> HIDE DEF n
<1>3. /\ pairs \in SUBSET (Nat \X Nat)
      /\ \A p \in pairs : p[2] \in 1 .. n /\ p = <<keys[p[2]], p[2]>>
      /\ \A i \in 1 .. n : <<keys[i], i>> \in pairs
  BY <1>1
<1>4. /\ f \in [1 .. n -> pairs]
      /\ \A x, y \in 1 .. n : f[x] = f[y] => x = y
      /\ \A p \in pairs : \E i \in 1 .. n : f[i] = p
  OBVIOUS
<1> HIDE DEF pairs, f
<1>5. IsFiniteSet(pairs) /\ Cardinality(pairs) = n
  BY <1>1, <1>4, OnePairEach
<1>6. /\ order \in [1 .. n -> pairs]
      /\ \A i, j \in 1 .. n : order[i] = order[j] => i = j
      /\ \A p \in pairs : \E i \in 1 .. n : order[i] = p
  BY <1>3, <1>5, AscendingHasAll
<1> HIDE DEF order
<1>7. place \in [1 .. n -> 1 .. n]
  BY <1>3, <1>6
<1>8. \A i, j \in 1 .. n : place[i] = place[j] => i = j
  <2> TAKE i, j \in 1 .. n
  <2> HAVE place[i] = place[j]
  <2>1. order[i][2] = order[j][2] /\ order[i] \in pairs /\ order[j] \in pairs
    BY <1>6
  <2>2. order[i] = order[j]
    BY <1>3, <2>1
  <2>3. QED
    BY <1>6, <2>2
<1>9. \A k \in 1 .. n : \E i \in 1 .. n : place[i] = k
  <2> TAKE k \in 1 .. n
  <2>1. PICK i \in 1 .. n : order[i] = <<keys[k], k>>
    BY <1>3, <1>6
  <2>2. QED
    BY <2>1
<1>10. \A i \in 1 .. n : Sorted(rows, keys)[i] = rows[place[i]]
  BY <1>2
<1> HIDE DEF place
<1>11. Sorted(rows, keys) \in Seq(R) /\ Len(Sorted(rows, keys)) = n
  <2>1. Sorted(rows, keys) \in [1 .. n -> R]
    <3>1. DOMAIN Sorted(rows, keys) = 1 .. n
      BY <1>2
    <3>2. \A i \in 1 .. n : Sorted(rows, keys)[i] \in R
      BY <1>7, <1>10, LenProperties DEF n
    <3>3. QED
      BY <1>2, <1>7, <1>10, <3>1, <3>2
  <2>2. QED
    BY <1>1, <2>1, SeqDef
<1>12. Rearranged(Sorted(rows, keys), rows)
  BY <1>7, <1>8, <1>9, <1>10 DEF Rearranged, n
<1>13. QED
  BY <1>1, <1>11, <1>12 DEF n

-----------------------------------------------------------------------------
(* The rows *)

(***************************************************************************)
(* Sorted rows show the same save.                                         *)
(***************************************************************************)
LEMMA SortedRowsOfSave ==
    ASSUME NEW image, NEW rows, RowsOfSave(rows, image), NEW keys \in [DOMAIN rows -> Nat]
    PROVE  RowsOfSave(Sorted(rows, keys), image)
<1> DEFINE n   == Len(rows)
           new == Sorted(rows, keys)
<1>1. /\ rows \in Seq(Row)
      /\ n = Cardinality(Occupied(image))
      /\ \A i \in 1 .. n : image.slots[rows[i].slot] = rows[i].record
      /\ \A i, j \in 1 .. n : rows[i].slot = rows[j].slot => i = j
      /\ \A s \in Occupied(image) : \E i \in 1 .. n : rows[i].slot = s
  BY DEF RowsOfSave
<1>2. new \in Seq(Row) /\ Len(new) = n /\ n \in Nat
  BY <1>1, SortedHasAll
<1>3. PICK place \in [1 .. n -> 1 .. n] :
          /\ \A i, j \in 1 .. n : place[i] = place[j] => i = j
          /\ \A k \in 1 .. n : \E i \in 1 .. n : place[i] = k
          /\ \A i \in 1 .. n : new[i] = rows[place[i]]
  <2>1. Rearranged(new, rows)
    BY <1>1, SortedHasAll
  <2>2. QED
    BY <2>1, Zenon DEF Rearranged
<1> HIDE DEF n, new
<1>4. \A i \in 1 .. n : new[i] = rows[place[i]] /\ place[i] \in 1 .. n
  BY <1>3
<1>5. \A i \in 1 .. n : image.slots[new[i].slot] = new[i].record
  <2> TAKE i \in 1 .. n
  <2>1. image.slots[rows[place[i]].slot] = rows[place[i]].record
    BY <1>1, <1>4
  <2>2. QED
    BY <1>4, <2>1
<1>6. \A i, j \in 1 .. n : new[i].slot = new[j].slot => i = j
  <2> TAKE i, j \in 1 .. n
  <2> HAVE new[i].slot = new[j].slot
  <2>1. rows[place[i]].slot = rows[place[j]].slot
    BY <1>4
  <2>2. place[i] = place[j]
    BY <1>1, <1>4, <2>1, Zenon
  <2>3. QED
    BY <1>3, <2>2
<1>7. \A s \in Occupied(image) : \E i \in 1 .. n : new[i].slot = s
  <2> TAKE s \in Occupied(image)
  <2>1. PICK k \in 1 .. n : rows[k].slot = s
    BY <1>1
  <2>2. PICK i \in 1 .. n : place[i] = k
    BY <1>3
  <2>3. new[i].slot = s
    BY <1>3, <2>1, <2>2
  <2>4. QED
    BY <2>3
<1>8. QED
  BY <1>1, <1>2, <1>5, <1>6, <1>7 DEF RowsOfSave, new

(***************************************************************************)
(* Sorted rows list the same bank.                                         *)
(***************************************************************************)
LEMMA SortedRowsOfBank ==
    ASSUME NEW entries, NEW rows, RowsOfBank(rows, entries), NEW keys \in [DOMAIN rows -> Nat]
    PROVE  RowsOfBank(Sorted(rows, keys), entries)
<1> DEFINE n   == Len(rows)
           new == Sorted(rows, keys)
<1>1. /\ rows \in Seq(Nat)
      /\ n = Len(entries)
      /\ \A i \in 1 .. n : rows[i] \in 1 .. Len(entries)
      /\ \A k \in 1 .. Len(entries) : \E i \in 1 .. n : rows[i] = k
  BY DEF RowsOfBank
<1>2. new \in Seq(Nat) /\ Len(new) = n /\ n \in Nat
  BY <1>1, SortedHasAll
<1>3. PICK place \in [1 .. n -> 1 .. n] :
          /\ \A k \in 1 .. n : \E i \in 1 .. n : place[i] = k
          /\ \A i \in 1 .. n : new[i] = rows[place[i]]
  <2>1. Rearranged(new, rows)
    BY <1>1, SortedHasAll
  <2>2. QED
    BY <2>1, Zenon DEF Rearranged
<1> HIDE DEF n, new
<1>4. \A i \in 1 .. n : new[i] \in 1 .. Len(entries)
  <2> TAKE i \in 1 .. n
  <2>1. new[i] = rows[place[i]] /\ place[i] \in 1 .. n
    BY <1>3
  <2>2. QED
    BY <1>1, <2>1, Zenon
<1>5. \A k \in 1 .. Len(entries) : \E i \in 1 .. n : new[i] = k
  <2> TAKE k \in 1 .. Len(entries)
  <2>1. PICK m \in 1 .. n : rows[m] = k
    BY <1>1
  <2>2. PICK i \in 1 .. n : place[i] = m
    BY <1>3
  <2>3. new[i] = k
    BY <1>3, <2>1, <2>2
  <2>4. QED
    BY <2>3
<1>6. QED
  BY <1>1, <1>2, <1>4, <1>5 DEF RowsOfBank, new

(***************************************************************************)
(* records() reads every record once.                                      *)
(***************************************************************************)
LEMMA OccupiedFinite ==
    ASSUME NEW image
    PROVE  Occupied(image) \in SUBSET Nat /\ IsFiniteSet(Occupied(image))
<1>1. Slot \in SUBSET Nat /\ Occupied(image) \in SUBSET Slot
  BY SaveImageAssumption DEF Slot, Occupied
<1>2. IsFiniteSet(Slot)
  BY SaveImageAssumption, FS_Interval DEF Slot
<1>3. QED
  BY <1>1, <1>2, FS_Subset

LEMMA RecordsOfImage ==
    ASSUME NEW image \in Image
    PROVE  RowsOfSave(Records(image), image)
<1> DEFINE n     == Cardinality(Occupied(image))
           order == InSetOrder(Occupied(image))
           new   == Records(image)
<1>1. /\ n \in Nat /\ order \in [1 .. n -> Occupied(image)]
      /\ \A i, j \in 1 .. n : order[i] = order[j] => i = j
      /\ \A s \in Occupied(image) : \E i \in 1 .. n : order[i] = s
  BY OccupiedFinite, InSetOrderHasAll
<1>2. new = [i \in 1 .. n |-> [slot |-> order[i], record |-> image.slots[order[i]]]]
  BY <1>1 DEF Records
<1> HIDE DEF n, order, new
<1>3. \A s \in Occupied(image) : s \in Slot /\ image.slots[s] \in Record
  BY DEF Occupied, Image
<1>4. \A i \in 1 .. n : /\ order[i] \in Occupied(image)
                        /\ new[i].slot = order[i]
                        /\ new[i].record = image.slots[order[i]]
                        /\ new[i] \in Row
  BY <1>1, <1>2, <1>3 DEF Row
<1>5. new \in Seq(Row) /\ Len(new) = n
  <2>1. new \in [1 .. n -> Row]
    BY <1>2, <1>4
  <2>2. QED
    BY <1>1, <2>1, SeqDef
<1>6. /\ \A i \in 1 .. n : image.slots[new[i].slot] = new[i].record
      /\ \A i, j \in 1 .. n : new[i].slot = new[j].slot => i = j
      /\ \A s \in Occupied(image) : \E i \in 1 .. n : new[i].slot = s
  BY <1>1, <1>4
<1>7. QED
  BY <1>5, <1>6 DEF RowsOfSave, n, new

\* Some of the rows, from different positions
Drawn(new, rows, positions) ==
    \E order \in [1 .. Len(new) -> positions] :
        /\ \A i, j \in 1 .. Len(new) : order[i] = order[j] => i = j
        /\ \A i \in 1 .. Len(new) : new[i] = rows[order[i]]

(***************************************************************************)
(* The rows that have been chosen are rows, each at most once.             *)
(***************************************************************************)
LEMMA ChosenRows ==
    ASSUME NEW R, NEW rows \in Seq(R), NEW positions \in SUBSET (1 .. Len(rows))
    PROVE  /\ Chosen(rows, positions) \in Seq(R)
           /\ Drawn(Chosen(rows, positions), rows, positions)
<1> DEFINE n     == Cardinality(positions)
           order == InSetOrder(positions)
           new   == Chosen(rows, positions)
<1>1. Len(rows) \in Nat /\ rows \in [1 .. Len(rows) -> R]
  BY LenProperties
<1>2. positions \in SUBSET Nat /\ IsFiniteSet(positions)
  <2>1. IsFiniteSet(1 .. Len(rows)) /\ positions \in SUBSET (1 .. Len(rows))
    BY <1>1, PlacesFromOne
  <2>2. IsFiniteSet(positions)
    BY <2>1, FS_Subset
  <2>3. QED
    BY <1>1, <2>2
<1>3. /\ n \in Nat /\ order \in [1 .. n -> positions]
      /\ \A i, j \in 1 .. n : order[i] = order[j] => i = j
  BY <1>2, InSetOrderHasAll
<1>4. new = [i \in 1 .. n |-> rows[order[i]]]
  BY <1>3 DEF Chosen
<1> HIDE DEF n, order, new
<1>5. new \in [1 .. n -> R]
  BY <1>1, <1>3, <1>4
<1>6. new \in Seq(R) /\ Len(new) = n
  BY <1>3, <1>5, SeqDef
<1>7. \A i \in 1 .. n : new[i] = rows[order[i]]
  BY <1>4
<1>8. QED
  BY <1>3, <1>6, <1>7 DEF new, Drawn

(***************************************************************************)
(* The order of the list is a number for every row.                        *)
(***************************************************************************)
LEMMA OriginalPositionIsNatural ==
    ASSUME NEW image, NEW slot \in Slot
    PROVE  OriginalPosition(image, slot) \in Nat
<1> DEFINE found == {i \in Slot : /\ image.index[i] # Blank
                                  /\ SlotsOfNumber(image, image.index[i]) # {}
                                  /\ Min(SlotsOfNumber(image, image.index[i])) = slot}
<1>1. Slots \in Nat /\ Slot = 0 .. Slots - 1 /\ slot \in Nat
  BY SaveImageAssumption DEF Slot
<1>2. found \in SUBSET (0 .. Slots)
  BY <1>1
<1>3. CASE found = {}
  BY <1>1, <1>3 DEF OriginalPosition
<1>4. CASE found # {}
  <2> HIDE DEF found
  <2>1. Slots \in Nat /\ found \in SUBSET (0 .. Slots) /\ found # {}
    BY <1>1, <1>2, <1>4
  <2>2. Max(found) \in found
    BY <2>1, MaxOfNaturals, Zenon
  <2>3. \A x \in found : x \in Nat
    BY <2>1
  <2>4. Max(found) \in Nat
    BY <2>2, <2>3, Zenon
  <2>5. QED
    BY <1>4, <2>4 DEF OriginalPosition, found
<1>5. QED
  BY <1>3, <1>4

LEMMA RankIsNatural ==
    ASSUME NEW by \in SortModes, by # "original", NEW body \in Bodies
    PROVE  Rank[by][body] \in Nat
BY BankScreenAssumption

LEMMA SortedGameShows ==
    ASSUME NEW image, NEW rows, RowsOfSave(rows, image), NEW by \in SortModes
    PROVE  RowsOfSave(SortedGame(rows, image, by), image)
<1> DEFINE keys == [i \in DOMAIN rows |->
               IF by = "original" THEN OriginalPosition(image, rows[i].slot)
               ELSE Rank[by][rows[i].record.body]]
<1>1. \A i \in DOMAIN rows : rows[i].slot \in Slot /\ rows[i].record.body \in Bodies
  <2>1. \A i \in DOMAIN rows : rows[i] \in Row
    BY LenProperties DEF RowsOfSave
  <2>2. QED
    BY <2>1 DEF Row, Record
<1>2. keys \in [DOMAIN rows -> Nat]
  BY <1>1, OriginalPositionIsNatural, RankIsNatural
<1>3. RowsOfSave(Sorted(rows, keys), image)
  <2> HIDE DEF keys
  <2>1. QED
    BY <1>2, SortedRowsOfSave
<1>4. QED
  BY <1>3 DEF SortedGame

LEMMA SortedBankShows ==
    ASSUME NEW b \in Banks, NEW rows, RowsOfBank(rows, b.entries), NEW by \in SortModes
    PROVE  RowsOfBank(SortedBank(rows, b.entries, by), b.entries)
<1> DEFINE entries == b.entries
           keys == [i \in DOMAIN rows |->
               IF by = "original" THEN entries[rows[i]].arrival
               ELSE Rank[by][entries[rows[i]].record.body]]
<1>1. \A k \in 1 .. Len(entries) : entries[k].arrival \in Nat /\ entries[k].record.body \in Bodies
  <2>1. entries \in Seq(Entry(Games, Record))
    BY DEF Banks, BankOf, Entry
  <2>2. \A k \in 1 .. Len(entries) : entries[k] \in Entry(Games, Record)
    BY <2>1, LenProperties
  <2>3. QED
    BY <2>2 DEF Entry, Record
<1>2. \A i \in DOMAIN rows : rows[i] \in 1 .. Len(entries)
  BY LenProperties DEF RowsOfBank
<1>3. keys \in [DOMAIN rows -> Nat]
  <2> HIDE DEF entries
  <2>1. \A i \in DOMAIN rows : /\ entries[rows[i]].arrival \in Nat
                                /\ entries[rows[i]].record.body \in Bodies
    BY <1>1, <1>2
  <2>2. QED
    BY <2>1, RankIsNatural
<1>4. RowsOfBank(Sorted(rows, keys), b.entries)
  <2> HIDE DEF keys, entries
  <2>1. RowsOfBank(rows, entries)
    BY DEF entries
  <2>2. RowsOfBank(Sorted(rows, keys), entries)
    BY <1>3, <2>1, SortedRowsOfBank
  <2>3. QED
    BY <2>2 DEF entries
<1>5. QED
  BY <1>4 DEF SortedBank

(***************************************************************************)
(* The party shown is slots of the save.                                   *)
(***************************************************************************)
LEMMA PartySlotsAreSlots ==
    ASSUME NEW image
    PROVE  PartySlots(image) \subseteq Slot
<1>1. ASSUME NEW number, SlotsOfNumber(image, number) # {}
      PROVE  Min(SlotsOfNumber(image, number)) \in Slot
  <2>1. SlotsOfNumber(image, number) \in SUBSET Slot /\ Slot \in SUBSET Nat
    BY SaveImageAssumption DEF SlotsOfNumber, Occupied, Slot
  <2>2. Min(SlotsOfNumber(image, number)) \in SlotsOfNumber(image, number)
    BY <1>1, <2>1, MinOfNaturals
  <2>3. QED
    BY <2>1, <2>2
<1>2. QED
  BY <1>1 DEF PartySlots

(***************************************************************************)
(* refresh() shows the save and the bank as they are.                      *)
(***************************************************************************)
LEMMA FreshRows ==
    ASSUME NEW image \in Image, NEW b \in Banks,
           NEW byGame \in SortModes, NEW byBank \in SortModes
    PROVE  /\ RowsOfSave(SortedGame(Records(image), image, byGame), image)
           /\ RowsOfBank(SortedBank([i \in DOMAIN b.entries |-> i], b.entries, byBank), b.entries)
<1>1. RowsOfSave(Records(image), image)
  BY RecordsOfImage
<1>2. RowsOfBank([i \in DOMAIN b.entries |-> i], b.entries)
  <2> DEFINE n    == Len(b.entries)
             rows == [i \in DOMAIN b.entries |-> i]
  <2>1. b.entries \in Seq(Entry(Games, Record))
    BY DEF Banks, BankOf, Entry
  <2>2. n \in Nat /\ DOMAIN b.entries = 1 .. n
    BY <2>1, LenProperties
  <2> HIDE DEF n
  <2>3. rows \in [1 .. n -> Nat] /\ \A i \in 1 .. n : rows[i] = i
    BY <2>2
  <2>4. rows \in Seq(Nat) /\ Len(rows) = n
    BY <2>2, <2>3, SeqDef
  <2>5. QED
    BY <2>3, <2>4 DEF RowsOfBank, n
<1>3. QED
  BY <1>1, <1>2, SortedGameShows, SortedBankShows

-----------------------------------------------------------------------------
(* The invariant *)

FaceTypes ==
    /\ stale \in BOOLEAN
    /\ gameRows \in Seq(Row) /\ bankRows \in Seq(Nat)
    /\ party \subseteq Slot /\ markedSlots \subseteq Slot /\ markedIds \subseteq Nat
    /\ pane \in {"game", "bank"} /\ mode \in {"list", "mark", "menu"}
    /\ gameSort \in SortModes /\ bankSort \in SortModes

CallTypes ==
    /\ call = [op |-> call.op, left |-> call.left]
    /\ \/ call = NoCall
       \/ call.op \in {"deposit", "copyToBank"} /\ call.left \in Seq(Row)
       \/ call.op \in {"withdraw", "copyToSave"} /\ call.left \in Seq(Nat)

Shown ==
    Idle => /\ RowsOfSave(gameRows, save)
            /\ RowsOfBank(bankRows, bank.entries)
            /\ party = PartySlots(save)

\* The rows a batch still has to do
Queued ==
    /\ call.op = "copyToBank" =>
           \A i \in 1 .. Len(call.left) : save.slots[call.left[i].slot] = call.left[i].record
    /\ call.op = "deposit" =>
           /\ \A i, j \in 1 .. Len(call.left) : call.left[i].slot = call.left[j].slot => i = j
           /\ ~ wrapped => \A i \in 1 .. Len(call.left) :
                  MayDeposit(call.left[i].slot, call.left[i].record)

Marked ==
    /\ MarkedIdsWereHandedOut
    /\ call.op # "deposit" /\ ~ stale => markedSlots \subseteq Occupied(save)

FaceInv == FaceTypes /\ CallTypes /\ Shown /\ Queued /\ Marked

ScreenInv == IInv /\ FaceInv

(***************************************************************************)
(* What the invariants say at once.                                        *)
(***************************************************************************)
LEMMA SessionTypes ==
    ASSUME IInv
    PROVE  /\ save \in Image /\ originalSave \in Image
           /\ bank \in Banks /\ originalBank \in Banks
           /\ bank.nextId \in Nat /\ Ordered(bank) /\ Ordered(originalBank)
<1>1. TypeOK
  BY TypesOfInvariant DEF IInv
<1>2. bank.nextId \in Nat
  BY <1>1 DEF TypeOK, Banks, BankOf
<1>3. QED
  BY <1>1, <1>2 DEF TypeOK, IInv, BankStaysOrdered

LEMMA IdleBatch ==
    /\ Idle <=> call = NoCall
    /\ NoCall.op = "none" /\ NoCall.left = <<>>
    /\ call.op # "none" => ~ Idle
BY DEF Idle, NoCall

(***************************************************************************)
(* A row on screen is a record that is there, and a row of the bank an id  *)
(* that has been handed out.                                               *)
(***************************************************************************)
LEMMA RowsNameRecords ==
    ASSUME ScreenInv, Idle, NEW i \in DOMAIN gameRows
    PROVE  /\ gameRows[i] \in Row /\ gameRows[i].slot \in Slot
           /\ gameRows[i].record \in Record
           /\ save.slots[gameRows[i].slot] = gameRows[i].record
           /\ gameRows[i].slot \in Occupied(save)
<1>1. RowsOfSave(gameRows, save)
  BY DEF ScreenInv, FaceInv, Shown
<1>2. gameRows[i] \in Row /\ i \in 1 .. Len(gameRows)
  BY <1>1, LenProperties DEF RowsOfSave
<1>3. gameRows[i].slot \in Slot /\ gameRows[i].record \in Record
  BY <1>2 DEF Row
<1>4. save.slots[gameRows[i].slot] = gameRows[i].record
  BY <1>1, <1>2 DEF RowsOfSave
<1>5. gameRows[i].record # NoRecord
  BY <1>3, SaveImageAssumption DEF Record, Number, Half
<1>6. QED
  BY <1>2, <1>3, <1>4, <1>5 DEF Occupied

LEMMA RowsNameIds ==
    ASSUME ScreenInv, Idle, NEW i \in DOMAIN bankRows
    PROVE  ShownId(i) \in Nat /\ ShownId(i) < bank.nextId
<1>1. RowsOfBank(bankRows, bank.entries)
  BY DEF ScreenInv, FaceInv, Shown
<1>2. bankRows[i] \in 1 .. Len(bank.entries)
  BY <1>1, LenProperties DEF RowsOfBank
<1>3. bank.entries \in Seq(Entry(Games, Record)) /\ Ordered(bank)
  BY SessionTypes DEF ScreenInv, Banks, BankOf, Entry
<1>4. bankRows[i] \in DOMAIN bank.entries
  BY <1>2, <1>3, LenProperties
<1>5. bank.entries[bankRows[i]] \in Entry(Games, Record)
  BY <1>2, <1>3, LenProperties
<1>6. bank.entries[bankRows[i]].id \in Nat
  BY <1>5 DEF Entry
<1>7. bank.entries[bankRows[i]].id < bank.nextId
  BY <1>3, <1>4 DEF Ordered
<1>8. QED
  BY <1>6, <1>7 DEF ShownId

(***************************************************************************)
(* refresh(), whatever the session has become.                             *)
(***************************************************************************)
LEMMA RefreshShows ==
    ASSUME IInv', NEW byGame \in SortModes, NEW byBank \in SortModes, Refresh(byGame, byBank)
    PROVE  /\ RowsOfSave(gameRows', save')
           /\ RowsOfBank(bankRows', bank'.entries)
           /\ party' = PartySlots(save')
           /\ gameRows' \in Seq(Row) /\ bankRows' \in Seq(Nat) /\ party' \subseteq Slot
<1>1. save' \in Image /\ bank' \in Banks
  BY NumberedBankIsBank DEF IInv, NumberedTypes, NumberedImage
<1>2. /\ gameRows' = SortedGame(Records(save'), save', byGame)
      /\ bankRows' = SortedBank([i \in DOMAIN bank'.entries |-> i], bank'.entries, byBank)
      /\ party' = PartySlots(save')
  BY DEF Refresh
<1>3. /\ RowsOfSave(gameRows', save')
      /\ RowsOfBank(bankRows', bank'.entries)
  BY <1>1, <1>2, FreshRows
<1>4. party' \subseteq Slot
  BY <1>2, PartySlotsAreSlots
<1>5. QED
  BY <1>2, <1>3, <1>4 DEF RowsOfSave, RowsOfBank

(***************************************************************************)
(* After a handler that ends with refresh() and no batch is under way.     *)
(***************************************************************************)
LEMMA EndsShown ==
    ASSUME IInv', NEW byGame \in SortModes, NEW byBank \in SortModes, Refresh(byGame, byBank),
           call' = NoCall,
           stale' \in BOOLEAN, markedSlots' \subseteq Slot, markedIds' \subseteq Nat,
           pane' \in {"game", "bank"}, mode' \in {"list", "mark", "menu"},
           gameSort' \in SortModes, bankSort' \in SortModes,
           MarkedIdsWereHandedOut',
           ~ stale' => markedSlots' \subseteq Occupied(save')
    PROVE  FaceInv'
<1>1. /\ RowsOfSave(gameRows', save')
      /\ RowsOfBank(bankRows', bank'.entries)
      /\ party' = PartySlots(save')
      /\ gameRows' \in Seq(Row) /\ bankRows' \in Seq(Nat) /\ party' \subseteq Slot
  BY RefreshShows
<1>2. FaceTypes'
  BY <1>1 DEF FaceTypes
<1>3. CallTypes' /\ Queued'
  BY DEF CallTypes, Queued, NoCall
<1>4. Shown'
  BY <1>1 DEF Shown
<1>5. Marked'
  BY DEF Marked
<1>6. QED
  BY <1>2, <1>3, <1>4, <1>5 DEF FaceInv

(***************************************************************************)
(* The session stands still while the screen is used.                      *)
(***************************************************************************)
LEMMA SessionStands ==
    ASSUME IInv, UNCHANGED session
    PROVE  /\ IInv' /\ [Next]_vars
           /\ save' = save /\ bank' = bank /\ wrapped' = wrapped
           /\ MarkedIdsWereHandedOut /\ markedIds' = markedIds => MarkedIdsWereHandedOut'
<1>1. UNCHANGED vars
  BY DEF session
<1>2. [Next]_vars
  BY <1>1
<1>3. IInv'
  BY <1>2, NextPreserves
<1>4. save' = save /\ bank' = bank /\ wrapped' = wrapped
  BY <1>1 DEF vars
<1>5. QED
  BY <1>2, <1>3, <1>4 DEF MarkedIdsWereHandedOut

LEMMA KeyStep ==
    ASSUME ScreenInv, Idle, UNCHANGED <<session, view, call>>,
           stale' \in BOOLEAN, markedSlots' \subseteq Slot, markedIds' \subseteq Nat,
           pane' \in {"game", "bank"}, mode' \in {"list", "mark", "menu"},
           gameSort' \in SortModes, bankSort' \in SortModes,
           \A id \in markedIds' : id < bank.nextId,
           ~ stale' => markedSlots' \subseteq Occupied(save)
    PROVE  [Next]_vars /\ FaceInv'
<1>1. /\ IInv' /\ [Next]_vars
      /\ save' = save /\ bank' = bank
  BY SessionStands DEF ScreenInv
<1>2. call' = NoCall /\ gameRows' = gameRows /\ bankRows' = bankRows /\ party' = party
  BY DEF view, Idle
<1>3. FaceTypes'
  BY <1>2 DEF FaceTypes, ScreenInv, FaceInv
<1>4. CallTypes' /\ Queued'
  BY <1>2 DEF CallTypes, Queued, NoCall
<1>5. Shown'
  BY <1>1, <1>2 DEF Shown, ScreenInv, FaceInv
<1>6. Marked'
  BY <1>1 DEF Marked, MarkedIdsWereHandedOut
<1>7. QED
  BY <1>1, <1>3, <1>4, <1>5, <1>6 DEF FaceInv

-----------------------------------------------------------------------------
(* What is marked and chosen *)

(***************************************************************************)
(* A cursor that is on a row is on one of the rows.                        *)
(***************************************************************************)
LEMMA CursorOnRow ==
    ASSUME NEW R, NEW rows \in Seq(R), NEW i \in Cursors(rows), i # 0
    PROVE  i \in DOMAIN rows
BY DEF Cursors

LEMMA SlotsToMoveExist ==
    ASSUME ScreenInv, Idle, NEW i \in Cursors(gameRows)
    PROVE  /\ SlotsToMove(i) \subseteq Slot
           /\ ~ stale => SlotsToMove(i) \subseteq Occupied(save)
<1>1. /\ markedSlots \subseteq Slot /\ gameRows \in Seq(Row)
      /\ ~ stale => markedSlots \subseteq Occupied(save)
  BY DEF ScreenInv, FaceInv, FaceTypes, Marked, Idle, NoCall
<1>2. i # 0 => gameRows[i].slot \in Slot /\ gameRows[i].slot \in Occupied(save)
  BY <1>1, CursorOnRow, RowsNameRecords
<1>3. QED
  BY <1>1, <1>2 DEF SlotsToMove

LEMMA IdsToMoveHandedOut ==
    ASSUME ScreenInv, Idle, NEW i \in Cursors(bankRows)
    PROVE  /\ IdsToMove(i) \subseteq Nat
           /\ \A id \in IdsToMove(i) : id < bank.nextId
           /\ IsFiniteSet(IdsToMove(i))
<1>1. /\ markedIds \subseteq Nat /\ bankRows \in Seq(Nat)
      /\ \A id \in markedIds : id < bank.nextId
  BY DEF ScreenInv, FaceInv, FaceTypes, Marked, MarkedIdsWereHandedOut
<1>2. i # 0 => ShownId(i) \in Nat /\ ShownId(i) < bank.nextId
  BY <1>1, CursorOnRow, RowsNameIds
<1>3. /\ IdsToMove(i) \subseteq Nat
      /\ \A id \in IdsToMove(i) : id < bank.nextId
  BY <1>1, <1>2 DEF IdsToMove
<1>4. bank.nextId \in Nat
  BY SessionTypes DEF ScreenInv
<1>5. IdsToMove(i) \in SUBSET (0 .. bank.nextId)
  BY <1>3, <1>4
<1>6. IsFiniteSet(0 .. bank.nextId)
  BY <1>4, FS_Interval
<1>7. IsFiniteSet(IdsToMove(i))
  BY <1>5, <1>6, FS_Subset
<1>8. QED
  BY <1>3, <1>7

(***************************************************************************)
(* The rows a batch takes from the save: its records, each once.           *)
(***************************************************************************)
LEMMA RowsOfSlots ==
    ASSUME ScreenInv, Idle, NEW slots
    PROVE  /\ RowsOf(slots) \in Seq(Row)
           /\ \A i \in 1 .. Len(RowsOf(slots)) :
                  save.slots[RowsOf(slots)[i].slot] = RowsOf(slots)[i].record
           /\ \A i, j \in 1 .. Len(RowsOf(slots)) :
                  RowsOf(slots)[i].slot = RowsOf(slots)[j].slot => i = j
<1> DEFINE places == {i \in DOMAIN gameRows : gameRows[i].slot \in slots}
           new    == Chosen(gameRows, places)
           n      == Len(new)
<1>1. RowsOfSave(gameRows, save)
  BY DEF ScreenInv, FaceInv, Shown
<1>2. gameRows \in Seq(Row) /\ places \in SUBSET (1 .. Len(gameRows))
  BY <1>1, LenProperties DEF RowsOfSave
<1>3. RowsOf(slots) = new
  BY DEF RowsOf
<1> HIDE DEF places
<1>4. new \in Seq(Row) /\ Drawn(new, gameRows, places)
  BY <1>2, ChosenRows
<1> HIDE DEF new
<1>5. PICK order \in [1 .. n -> places] :
          /\ \A i, j \in 1 .. n : order[i] = order[j] => i = j
          /\ \A i \in 1 .. n : new[i] = gameRows[order[i]]
  BY <1>4, Zenon DEF Drawn
<1> HIDE DEF n
<1>6. \A i \in 1 .. n : order[i] \in 1 .. Len(gameRows) /\ new[i] = gameRows[order[i]]
  BY <1>2, <1>5
<1>7. \A i \in 1 .. n : save.slots[new[i].slot] = new[i].record
  <2> TAKE i \in 1 .. n
  <2>1. save.slots[gameRows[order[i]].slot] = gameRows[order[i]].record
    BY <1>1, <1>6 DEF RowsOfSave
  <2>2. QED
    BY <1>6, <2>1
<1>8. \A i, j \in 1 .. n : new[i].slot = new[j].slot => i = j
  <2> TAKE i, j \in 1 .. n
  <2> HAVE new[i].slot = new[j].slot
  <2>1. gameRows[order[i]].slot = gameRows[order[j]].slot
    BY <1>6
  <2>2. order[i] = order[j]
    BY <1>1, <1>6, <2>1, Zenon DEF RowsOfSave
  <2>3. QED
    BY <1>5, <2>2
<1>9. QED
  BY <1>3, <1>4, <1>7, <1>8 DEF n, new

(***************************************************************************)
(* The records and ids a copy takes.                                       *)
(***************************************************************************)
LEMMA RowsToCopyHold ==
    ASSUME ScreenInv, Idle, NEW i \in Cursors(gameRows), i # 0
    PROVE  /\ RowsToCopy(i) \in Seq(Row)
           /\ \A k \in 1 .. Len(RowsToCopy(i)) :
                  save.slots[RowsToCopy(i)[k].slot] = RowsToCopy(i)[k].record
<1>1. CASE markedSlots = {}
  <2>1. gameRows \in Seq(Row)
    BY DEF ScreenInv, FaceInv, FaceTypes
  <2>2. i \in DOMAIN gameRows
    BY <2>1, CursorOnRow
  <2>3. /\ gameRows[i] \in Row
        /\ save.slots[gameRows[i].slot] = gameRows[i].record
    BY <2>2, RowsNameRecords
  <2>4. RowsToCopy(i) = <<gameRows[i]>>
    BY <1>1 DEF RowsToCopy
  <2>5. QED
    BY <2>3, <2>4
<1>2. CASE markedSlots # {}
  BY <1>2, RowsOfSlots DEF RowsToCopy
<1>3. QED
  BY <1>1, <1>2

LEMMA IdsToCopyAreNumbers ==
    ASSUME ScreenInv, Idle, NEW i \in Cursors(bankRows), i # 0
    PROVE  IdsToCopy(i) \in Seq(Nat)
<1>1. bankRows \in Seq(Nat)
  BY DEF ScreenInv, FaceInv, FaceTypes
<1>2. \A k \in DOMAIN bankRows : ShownId(k) \in Nat
  BY RowsNameIds
<1>3. CASE markedIds = {}
  BY <1>1, <1>2, <1>3, CursorOnRow DEF IdsToCopy
<1>4. CASE markedIds # {}
  <2> DEFINE places == {k \in DOMAIN bankRows : ShownId(k) \in markedIds}
             shown  == IdsShown
  <2>1. Len(bankRows) \in Nat /\ DOMAIN bankRows = 1 .. Len(bankRows)
    BY <1>1, LenProperties
  <2>2. shown = [k \in 1 .. Len(bankRows) |-> ShownId(k)]
    BY <2>1 DEF IdsShown
  <2>3. shown \in [1 .. Len(bankRows) -> Nat]
    BY <1>2, <2>1, <2>2
  <2>4. shown \in Seq(Nat) /\ Len(shown) = Len(bankRows)
    BY <2>1, <2>3, SeqDef
  <2>5. places \in SUBSET (1 .. Len(shown))
    BY <2>1, <2>4
  <2> HIDE DEF places, shown
  <2>6. Chosen(shown, places) \in Seq(Nat)
    BY <2>4, <2>5, ChosenRows
  <2>7. QED
    BY <1>4, <2>6 DEF IdsToCopy, places, shown
<1>5. QED
  BY <1>3, <1>4

LEMMA IdsInSetOrder ==
    ASSUME ScreenInv, Idle, NEW i \in Cursors(bankRows)
    PROVE  InSetOrder(IdsToMove(i)) \in Seq(Nat)
<1> DEFINE ids == IdsToMove(i)
           n   == Cardinality(ids)
<1>1. ids \in SUBSET Nat /\ IsFiniteSet(ids)
  BY IdsToMoveHandedOut
<1> HIDE DEF ids
<1>2. n \in Nat /\ InSetOrder(ids) \in [1 .. n -> ids]
  BY <1>1, InSetOrderHasAll
<1> HIDE DEF n
<1>3. InSetOrder(ids) \in Seq(ids)
  BY <1>2, SeqDef
<1>4. QED
  BY <1>1, <1>3 DEF ids

(***************************************************************************)
(* What a deposit leaves of the others that may be deposited.              *)
(***************************************************************************)
LEMMA ListedWhenConsistent ==
    ASSUME NEW image, Consistent(image), NEW slot \in Occupied(image)
    PROVE  EntriesOf(image, image.slots[slot].number) # {}
<1>1. image.slots[slot].number \in {image.index[i] : i \in Slot}
  <2>1. image.slots[slot].number \in {image.slots[s].number : s \in Occupied(image)}
    OBVIOUS
  <2>2. QED
    BY <2>1, Zenon DEF Consistent
<1>2. QED
  BY <1>1 DEF EntriesOf

LEMMA DepositKeepsOthers ==
    ASSUME NEW image \in Image,
           NEW slot \in Slot, NEW record \in Record,
           CanRemove(image, slot, record), ~ IsPartySlot(image, slot),
           Consistent(Removed(image, slot)),
           NEW other \in Slot, NEW held \in Record, other # slot,
           CanRemove(image, other, held), ~ IsPartySlot(image, other)
    PROVE  /\ CanRemove(Removed(image, slot), other, held)
           /\ ~ IsPartySlot(Removed(image, slot), other)
<1> DEFINE left == Removed(image, slot)
<1>1. left.slots[other] = held
  BY DEF Removed, CanRemove, Image
<1>2. held # NoRecord
  BY SaveImageAssumption DEF Record, Number, Half
<1>3. other \in Occupied(left)
  BY <1>1, <1>2 DEF Occupied
<1>4. ~ IsPartySlot(left, other)
  BY RemovedParty DEF NoNewMembers
<1>5. EntriesOf(left, held.number) # {}
  BY <1>1, <1>3, ListedWhenConsistent
<1>6. QED
  BY <1>1, <1>4, <1>5 DEF CanRemove

(***************************************************************************)
(* An arrival leaves the slots that were taken taken.                      *)
(***************************************************************************)
LEMMA InsertedKeepsOccupied ==
    ASSUME NEW image \in Image, NEW record \in Record, NEW renumber \in BOOLEAN, CanInsert(image)
    PROVE  Occupied(image) \subseteq Occupied(Inserted(image, record, renumber))
<1>1. FirstFree(image) \in Slot /\ image.slots[FirstFree(image)] = NoRecord
  BY InsertionPlace
<1>2. QED
  BY <1>1 DEF Occupied, Inserted, Image

-----------------------------------------------------------------------------
(* Keys that do not reach the session *)

LEMMA SwitchPaneStep ==
    ASSUME ScreenInv, NEW to \in {"game", "bank"}, SwitchPane(to)
    PROVE  [Next]_vars /\ FaceInv'
<1>1. /\ FaceTypes /\ Marked /\ Idle
      /\ UNCHANGED <<session, view, call>>
      /\ UNCHANGED <<stale, markedSlots, markedIds, mode, gameSort, bankSort>>
      /\ pane' \in {"game", "bank"}
  BY DEF SwitchPane, ScreenInv, FaceInv, marks
<1>2. ~ stale => markedSlots \subseteq Occupied(save)
  BY <1>1 DEF Marked, Idle, NoCall
<1>3. \A id \in markedIds' : id < bank.nextId
  BY <1>1 DEF Marked, MarkedIdsWereHandedOut
<1>4. QED
  BY <1>1, <1>2, <1>3, KeyStep DEF FaceTypes

LEMMA ModeStep ==
    ASSUME ScreenInv, SelectKey \/ Menu
    PROVE  [Next]_vars /\ FaceInv'
<1>1. /\ FaceTypes /\ Marked /\ Idle
      /\ UNCHANGED <<session, view, call>>
      /\ UNCHANGED <<stale, markedSlots, markedIds, pane, gameSort, bankSort>>
      /\ mode' \in {"list", "mark", "menu"}
  BY DEF SelectKey, Menu, ScreenInv, FaceInv, marks
<1>2. ~ stale => markedSlots \subseteq Occupied(save)
  BY <1>1 DEF Marked, Idle, NoCall
<1>3. \A id \in markedIds' : id < bank.nextId
  BY <1>1 DEF Marked, MarkedIdsWereHandedOut
<1>4. QED
  BY <1>1, <1>2, <1>3, KeyStep DEF FaceTypes

(***************************************************************************)
(* Toggling marks what is on screen, and what is on screen is there.       *)
(***************************************************************************)
LEMMA ToggleSlotStep ==
    ASSUME ScreenInv, NEW i \in DOMAIN gameRows, ToggleSlot(i)
    PROVE  [Next]_vars /\ FaceInv'
<1>1. /\ FaceTypes /\ Marked /\ Idle
      /\ UNCHANGED <<session, view, call>>
      /\ UNCHANGED <<stale, markedIds, mode, gameSort, bankSort>>
      /\ pane' \in {"game", "bank"}
  BY DEF ToggleSlot, ScreenInv, FaceInv
<1>2. gameRows[i].slot \in Slot /\ gameRows[i].slot \in Occupied(save)
  BY <1>1, RowsNameRecords
<1>3. markedSlots' \subseteq markedSlots \cup {gameRows[i].slot}
  BY DEF ToggleSlot, Toggled
<1>4. /\ markedSlots' \subseteq Slot
      /\ ~ stale' => markedSlots' \subseteq Occupied(save)
  BY <1>1, <1>2, <1>3 DEF FaceTypes, Marked, Idle, NoCall
<1>5. \A id \in markedIds' : id < bank.nextId
  BY <1>1 DEF Marked, MarkedIdsWereHandedOut
<1>6. QED
  BY <1>1, <1>4, <1>5, KeyStep DEF FaceTypes

LEMMA ToggleIdStep ==
    ASSUME ScreenInv, NEW i \in DOMAIN bankRows, ToggleId(i)
    PROVE  [Next]_vars /\ FaceInv'
<1>1. /\ FaceTypes /\ Marked /\ Idle
      /\ UNCHANGED <<session, view, call>>
      /\ UNCHANGED <<stale, markedSlots, pane, mode, gameSort, bankSort>>
  BY DEF ToggleId, ScreenInv, FaceInv, ui
<1>2. ShownId(i) \in Nat /\ ShownId(i) < bank.nextId
  BY <1>1, RowsNameIds
<1>3. markedIds' \subseteq markedIds \cup {ShownId(i)}
  BY DEF ToggleId, Toggled
<1>4. markedIds' \subseteq Nat /\ \A id \in markedIds' : id < bank.nextId
  BY <1>1, <1>2, <1>3 DEF FaceTypes, Marked, MarkedIdsWereHandedOut
<1>5. ~ stale => markedSlots \subseteq Occupied(save)
  BY <1>1 DEF Marked, Idle, NoCall
<1>6. QED
  BY <1>1, <1>4, <1>5, KeyStep DEF FaceTypes

LEMMA CancelMarksStep ==
    ASSUME ScreenInv, CancelMarks
    PROVE  [Next]_vars /\ FaceInv'
<1>1. /\ FaceTypes /\ Marked /\ Idle
      /\ UNCHANGED <<session, view, call>>
      /\ UNCHANGED <<pane, gameSort, bankSort>>
      /\ mode' \in {"list", "mark", "menu"}
      /\ \/ markedSlots' = {} /\ stale' = FALSE /\ markedIds' = markedIds
         \/ markedIds' = {} /\ markedSlots' = markedSlots /\ stale' = stale
  BY DEF CancelMarks, ScreenInv, FaceInv
<1>2. ~ stale' => markedSlots' \subseteq Occupied(save)
  BY <1>1 DEF Marked, Idle, NoCall
<1>3. \A id \in markedIds' : id < bank.nextId
  BY <1>1 DEF Marked, MarkedIdsWereHandedOut
<1>4. stale' \in BOOLEAN /\ markedSlots' \subseteq Slot /\ markedIds' \subseteq Nat
  BY <1>1 DEF FaceTypes
<1>5. QED
  BY <1>1, <1>2, <1>3, <1>4, KeyStep DEF FaceTypes

(***************************************************************************)
(* Sorting loses no row and shows none twice, on top of any earlier order. *)
(***************************************************************************)
LEMMA SortActiveStep ==
    ASSUME ScreenInv, SortActive
    PROVE  [Next]_vars /\ FaceInv'
<1>1. /\ FaceTypes /\ Marked /\ Shown /\ Idle
      /\ UNCHANGED <<session, call>>
      /\ UNCHANGED <<party, stale, markedSlots, markedIds, pane, mode>>
      /\ gameRows' = SortedGame(gameRows, save, gameSort')
      /\ bankRows' = SortedBank(bankRows, bank.entries, bankSort')
  BY DEF SortActive, ScreenInv, FaceInv, marks
<1>2. /\ IInv' /\ [Next]_vars
      /\ save' = save /\ bank' = bank
  BY <1>1, SessionStands DEF ScreenInv
<1>3. NextSort(gameSort) \in SortModes /\ NextSort(bankSort) \in SortModes
  BY BankScreenAssumption DEF NextSort
<1>4. gameSort' \in SortModes /\ bankSort' \in SortModes
  BY <1>1, <1>3 DEF SortActive, FaceTypes
<1>5. /\ RowsOfSave(gameRows, save) /\ RowsOfBank(bankRows, bank.entries)
      /\ party = PartySlots(save)
  BY <1>1 DEF Shown
<1>6. RowsOfSave(gameRows', save)
  BY <1>1, <1>4, <1>5, SortedGameShows
<1>7. RowsOfBank(bankRows', bank.entries)
  <2>1. bank \in Banks
    BY SessionTypes DEF ScreenInv
  <2>2. QED
    BY <1>1, <1>4, <1>5, <2>1, SortedBankShows
<1>8. Shown'
  BY <1>1, <1>2, <1>5, <1>6, <1>7 DEF Shown
<1>9. FaceTypes'
  BY <1>1, <1>4, <1>6, <1>7 DEF FaceTypes, RowsOfSave, RowsOfBank
<1>10. CallTypes' /\ Queued'
  BY <1>1 DEF CallTypes, Queued, Idle, NoCall
<1>11. Marked'
  BY <1>1, <1>2 DEF Marked, MarkedIdsWereHandedOut, Idle, NoCall
<1>12. QED
  BY <1>2, <1>8, <1>9, <1>10, <1>11 DEF FaceInv

-----------------------------------------------------------------------------
(* A batch begins *)

LEMMA BeginsStep ==
    ASSUME ScreenInv, Idle, NEW op, NEW batch, Begins(op, batch), mode' = "list",
           \/ op \in {"deposit", "copyToBank"} /\ batch \in Seq(Row)
           \/ op \in {"withdraw", "copyToSave"} /\ batch \in Seq(Nat),
           markedSlots' \subseteq Slot, markedIds' \subseteq Nat,
           \A id \in markedIds' : id < bank.nextId,
           op # "deposit" /\ ~ stale => markedSlots' \subseteq Occupied(save),
           op = "copyToBank" =>
               \A k \in 1 .. Len(batch) : save.slots[batch[k].slot] = batch[k].record,
           op = "deposit" =>
               /\ \A k, m \in 1 .. Len(batch) : batch[k].slot = batch[m].slot => k = m
               /\ ~ wrapped => \A k \in 1 .. Len(batch) :
                                   MayDeposit(batch[k].slot, batch[k].record)
    PROVE  [Next]_vars /\ FaceInv'
<1>1. /\ FaceTypes
      /\ UNCHANGED session
      /\ UNCHANGED <<gameRows, bankRows, party, stale, pane, gameSort, bankSort>>
      /\ call' = [op |-> op, left |-> batch]
  BY DEF Begins, ScreenInv, FaceInv, view
<1>2. /\ IInv' /\ [Next]_vars
      /\ save' = save /\ bank' = bank /\ wrapped' = wrapped
  BY <1>1, SessionStands DEF ScreenInv
<1>3. call'.op = op /\ call'.left = batch
  BY <1>1
<1>4. FaceTypes'
  BY <1>1 DEF FaceTypes
<1>5. CallTypes'
  BY <1>1, <1>3 DEF CallTypes
<1>6. Shown'
  <2>1. call' # NoCall
    BY <1>3 DEF NoCall
  <2>2. QED
    BY <2>1 DEF Shown, Idle
<1>7. Queued'
  BY <1>2, <1>3 DEF Queued, MayDeposit
<1>8. Marked'
  BY <1>1, <1>2, <1>3 DEF Marked, MarkedIdsWereHandedOut
<1>9. QED
  BY <1>2, <1>4, <1>5, <1>6, <1>7, <1>8 DEF FaceInv

LEMMA MarksWhenIdle ==
    ASSUME ScreenInv, Idle
    PROVE  /\ markedSlots \subseteq Slot /\ markedIds \subseteq Nat
           /\ \A id \in markedIds : id < bank.nextId
           /\ ~ stale => markedSlots \subseteq Occupied(save)
BY DEF ScreenInv, FaceInv, FaceTypes, Marked, MarkedIdsWereHandedOut, Idle, NoCall

(***************************************************************************)
(* None of the rows to deposit is in the party, so each may be deposited.  *)
(***************************************************************************)
LEMMA MoveToBankStep ==
    ASSUME ScreenInv, NEW i \in Cursors(gameRows), MoveToBank(i)
    PROVE  [Next]_vars /\ FaceInv'
<1> DEFINE batch == RowsOf(SlotsToMove(i))
<1>1. /\ Idle /\ mode' = "list"
      /\ \A row \in ToSet(batch) : row.slot \notin party
      /\ markedSlots' = SlotsToMove(i) /\ markedIds' = markedIds
      /\ Begins("deposit", batch)
  BY DEF MoveToBank, Choosing
<1>2. /\ batch \in Seq(Row)
      /\ \A k \in 1 .. Len(batch) : save.slots[batch[k].slot] = batch[k].record
      /\ \A k, m \in 1 .. Len(batch) : batch[k].slot = batch[m].slot => k = m
  BY <1>1, RowsOfSlots
<1>3. SlotsToMove(i) \subseteq Slot
  BY <1>1, SlotsToMoveExist
<1> HIDE DEF batch
<1>4. \A k \in 1 .. Len(batch) : batch[k] \in Row /\ batch[k].slot \notin party
  BY <1>1, <1>2, LenProperties DEF ToSet
<1>5. ASSUME ~ wrapped, NEW k \in 1 .. Len(batch)
      PROVE  MayDeposit(batch[k].slot, batch[k].record)
  <2> DEFINE slot == batch[k].slot
             record == batch[k].record
  <2>1. slot \in Slot /\ record \in Record /\ save.slots[slot] = record
    BY <1>2, <1>4 DEF Row
  <2>2. party = {s \in Slot : IsPartySlot(save, s)}
    BY <1>1, <1>5, ShownPartyOfInvariant DEF ScreenInv, FaceInv, Shown, ShownPartyIsGuarded
  <2>3. ~ IsPartySlot(save, slot)
    BY <1>4, <2>1, <2>2
  <2>4. record # NoRecord
    BY <2>1, SaveImageAssumption DEF Record, Number, Half
  <2>5. slot \in Occupied(save) /\ Consistent(save)
    BY <1>5, <2>1, <2>4 DEF Occupied, ScreenInv, IInv, SaveStaysConsistent
  <2>6. EntriesOf(save, record.number) # {}
    BY <2>1, <2>5, ListedWhenConsistent
  <2>7. QED
    BY <2>1, <2>3, <2>6 DEF MayDeposit, CanRemove
<1>6. \A id \in markedIds : id < bank.nextId /\ id \in Nat
  BY <1>1, MarksWhenIdle
<1>7. QED
  BY <1>1, <1>2, <1>3, <1>5, <1>6, BeginsStep

LEMMA MoveToSaveStep ==
    ASSUME ScreenInv, NEW i \in Cursors(bankRows), MoveToSave(i)
    PROVE  [Next]_vars /\ FaceInv'
<1>1. /\ Idle /\ mode' = "list"
      /\ markedIds' = IdsToMove(i) /\ markedSlots' = markedSlots
      /\ Begins("withdraw", InSetOrder(IdsToMove(i)))
  BY DEF MoveToSave, Choosing
<1>2. /\ InSetOrder(IdsToMove(i)) \in Seq(Nat)
      /\ IdsToMove(i) \subseteq Nat /\ \A id \in IdsToMove(i) : id < bank.nextId
  BY <1>1, IdsInSetOrder, IdsToMoveHandedOut
<1>3. QED
  BY <1>1, <1>2, BeginsStep, MarksWhenIdle

LEMMA CopyChosenToBankStep ==
    ASSUME ScreenInv, NEW i \in Cursors(gameRows), CopyChosenToBank(i)
    PROVE  [Next]_vars /\ FaceInv'
<1>1. /\ Idle /\ mode' = "list" /\ i # 0
      /\ markedIds' = markedIds /\ markedSlots' = markedSlots
      /\ Begins("copyToBank", RowsToCopy(i))
  BY DEF CopyChosenToBank, Choosing
<1>2. QED
  BY <1>1, BeginsStep, MarksWhenIdle, RowsToCopyHold

LEMMA CopyChosenToSaveStep ==
    ASSUME ScreenInv, NEW i \in Cursors(bankRows), CopyChosenToSave(i)
    PROVE  [Next]_vars /\ FaceInv'
<1>1. /\ Idle /\ mode' = "list" /\ i # 0
      /\ markedIds' = markedIds /\ markedSlots' = markedSlots
      /\ Begins("copyToSave", IdsToCopy(i))
  BY DEF CopyChosenToSave, Choosing
<1>2. QED
  BY <1>1, BeginsStep, MarksWhenIdle, IdsToCopyAreNumbers

LEMMA MoveRefusedStep ==
    ASSUME ScreenInv, NEW i \in Cursors(gameRows), MoveRefused(i)
    PROVE  [Next]_vars /\ FaceInv'
<1>1. /\ FaceTypes /\ Idle /\ mode' = "list"
      /\ UNCHANGED session /\ UNCHANGED <<markedIds, stale, pane, gameSort, bankSort, call>>
      /\ markedSlots' = SlotsToMove(i)
      /\ Refresh(gameSort, bankSort)
  BY DEF MoveRefused, Choosing, ScreenInv, FaceInv
<1>2. /\ IInv' /\ [Next]_vars
      /\ save' = save /\ bank' = bank
  BY <1>1, SessionStands DEF ScreenInv
<1>3. /\ SlotsToMove(i) \subseteq Slot
      /\ ~ stale => SlotsToMove(i) \subseteq Occupied(save)
  BY <1>1, SlotsToMoveExist
<1>4. MarkedIdsWereHandedOut'
  BY <1>1, <1>2, MarksWhenIdle DEF MarkedIdsWereHandedOut
<1>5. call' = NoCall
  BY <1>1 DEF Idle
<1>6. QED
  BY <1>1, <1>2, <1>3, <1>4, <1>5, EndsShown DEF FaceTypes

-----------------------------------------------------------------------------
(* A batch goes on *)

LEMMA BatchOfRows ==
    ASSUME ScreenInv, call.op \in {"deposit", "copyToBank"}, call.left # <<>>
    PROVE  /\ Next1 \in Row /\ Next1.slot \in Slot /\ Next1.record \in Record
           /\ Next1 = call.left[1]
           /\ call.left \in Seq(Row) /\ Tail(call.left) \in Seq(Row)
           /\ Len(call.left) \in Nat /\ Len(call.left) > 0
           /\ Len(Tail(call.left)) = Len(call.left) - 1
           /\ \A k \in 1 .. Len(Tail(call.left)) : /\ Tail(call.left)[k] = call.left[k + 1]
                                                   /\ k + 1 \in 1 .. Len(call.left)
                                                   /\ k + 1 # 1
<1>1. call.left \in Seq(Row)
  BY DEF ScreenInv, FaceInv, CallTypes, NoCall
<1>2. Next1 \in Row /\ Next1 = call.left[1] /\ Len(call.left) > 0
  BY <1>1 DEF Next1
<1>3. Next1.slot \in Slot /\ Next1.record \in Record
  BY <1>2 DEF Row
<1>4. QED
  BY <1>1, <1>2, <1>3

LEMMA BatchOfIds ==
    ASSUME ScreenInv, call.op \in {"withdraw", "copyToSave"}, call.left # <<>>
    PROVE  Tail(call.left) \in Seq(Nat)
<1>1. call.left \in Seq(Nat)
  BY DEF ScreenInv, FaceInv, CallTypes, NoCall
<1>2. QED
  BY <1>1

\* A record that is there can be named by its slot.
LEMMA HeldIsRow ==
    ASSUME NEW slot \in Slot, NEW record \in Record, save.slots[slot] = record
    PROVE  record \in Rows(slot)
BY SaveImageAssumption DEF Rows, Record, Number, Half

LEMMA DoneStep ==
    ASSUME ScreenInv, call.op # "none", call.left # <<>>, Done,
           Queued', MarkedIdsWereHandedOut',
           call.op # "deposit" => Occupied(save) \subseteq Occupied(save')
    PROVE  FaceInv'
<1>1. /\ FaceTypes /\ CallTypes /\ Marked
      /\ call' = [op |-> call.op, left |-> Tail(call.left)]
      /\ UNCHANGED <<gameRows, bankRows, party, markedSlots, markedIds, stale,
                     pane, mode, gameSort, bankSort>>
  BY DEF Done, ScreenInv, FaceInv, CallTypes, view, marks, ui
<1>2. call'.op = call.op /\ call'.left = Tail(call.left)
  BY <1>1
<1>3. FaceTypes'
  BY <1>1 DEF FaceTypes
<1>4. CallTypes'
  <2>1. CASE call.op \in {"deposit", "copyToBank"}
    BY <1>1, <1>2, <2>1, BatchOfRows DEF CallTypes
  <2>2. CASE call.op \in {"withdraw", "copyToSave"}
    BY <1>1, <1>2, <2>2, BatchOfIds DEF CallTypes
  <2>3. call.op \in {"deposit", "copyToBank", "withdraw", "copyToSave"}
    BY <1>1 DEF CallTypes, NoCall
  <2>4. QED
    BY <2>1, <2>2, <2>3
<1>5. Shown'
  <2>1. call' # NoCall
    BY <1>2 DEF NoCall
  <2>2. QED
    BY <2>1 DEF Shown, Idle
<1>6. Marked'
  BY <1>1, <1>2 DEF Marked
<1>7. QED
  BY <1>3, <1>4, <1>5, <1>6 DEF FaceInv

(***************************************************************************)
(* The records of a deposit batch stay good through the removals before.   *)
(***************************************************************************)
LEMMA DepositedStep ==
    ASSUME ScreenInv, Deposited
    PROVE  [Next]_vars /\ FaceInv'
<1> DEFINE slot   == Next1.slot
           record == Next1.record
<1>1. /\ call.op = "deposit" /\ call.left # <<>>
      /\ Deposit(slot, record) /\ Done
  BY DEF Deposited, Under
<1>2. /\ Next1 = call.left[1] /\ slot \in Slot /\ record \in Record
      /\ call.left \in Seq(Row)
      /\ \A k \in 1 .. Len(Tail(call.left)) : /\ Tail(call.left)[k] = call.left[k + 1]
                                              /\ k + 1 \in 1 .. Len(call.left)
                                              /\ k + 1 # 1
      /\ Len(call.left) \in Nat /\ Len(call.left) > 0
  BY <1>1, BatchOfRows
<1>3. /\ ~ IsPartySlot(save, slot) /\ CanRemove(save, slot, record)
      /\ save' = Removed(save, slot) /\ wrapped' = wrapped
      /\ bank' = Appended(bank, Game, record)
  BY <1>1 DEF Deposit, MayDeposit
<1>4. record \in Rows(slot)
  BY <1>2, <1>3, HeldIsRow DEF CanRemove
<1>5. [Next]_vars
  BY <1>1, <1>2, <1>4 DEF Next
<1>6. IInv'
  BY <1>5, NextPreserves DEF ScreenInv
<1>7. call'.op = "deposit" /\ call'.left = Tail(call.left)
  BY <1>1 DEF Done, ScreenInv, FaceInv, CallTypes
<1>8. Queued'
  <2> DEFINE left == Tail(call.left)
  <2>1. /\ \A k, m \in 1 .. Len(call.left) : call.left[k].slot = call.left[m].slot => k = m
        /\ ~ wrapped => \A k \in 1 .. Len(call.left) :
               MayDeposit(call.left[k].slot, call.left[k].record)
    BY <1>1 DEF ScreenInv, FaceInv, Queued
  <2>2. \A k, m \in 1 .. Len(left) : left[k].slot = left[m].slot => k = m
    <3> TAKE k, m \in 1 .. Len(left)
    <3> HAVE left[k].slot = left[m].slot
    <3>1. k + 1 = m + 1
      BY <1>2, <2>1
    <3>2. k \in Int /\ m \in Int
      OBVIOUS
    <3>3. QED
      BY <3>1, <3>2
  <2>3. ASSUME ~ wrapped, NEW k \in 1 .. Len(left)
        PROVE  /\ CanRemove(save', left[k].slot, left[k].record)
               /\ ~ IsPartySlot(save', left[k].slot)
    <3>1. left[k] = call.left[k + 1] /\ k + 1 \in 1 .. Len(call.left) /\ 1 \in 1 .. Len(call.left)
          /\ k + 1 # 1
      BY <1>2
    <3>2. left[k].slot # slot
      BY <1>2, <2>1, <3>1
    <3>3. call.left[k + 1] \in Row
      BY <1>2, <3>1, LenProperties
    <3>4. left[k].slot \in Slot /\ left[k].record \in Record
      BY <3>1, <3>3 DEF Row
    <3>5. CanRemove(save, left[k].slot, left[k].record) /\ ~ IsPartySlot(save, left[k].slot)
      BY <2>1, <2>3, <3>1 DEF MayDeposit
    <3>6. Consistent(Removed(save, slot))
      BY <1>3, <1>6, <2>3 DEF IInv, SaveStaysConsistent
    <3>7. save \in Image
      BY SessionTypes DEF ScreenInv
    <3> HIDE DEF left, slot, record
    <3>8. QED
      BY <1>2, <1>3, <3>2, <3>4, <3>5, <3>6, <3>7, DepositKeepsOthers
  <2>4. QED
    BY <1>3, <1>7, <2>2, <2>3 DEF Queued, MayDeposit
<1>9. MarkedIdsWereHandedOut'
  <2>1. \A id \in markedIds : id < bank.nextId /\ id \in Nat
    BY DEF ScreenInv, FaceInv, FaceTypes, Marked, MarkedIdsWereHandedOut
  <2>2. bank'.nextId = bank.nextId + 1 /\ bank.nextId \in Nat /\ markedIds' = markedIds
    BY <1>1, <1>3, SessionTypes DEF Appended, Done, marks, ScreenInv
  <2>3. QED
    BY <2>1, <2>2 DEF MarkedIdsWereHandedOut
<1>10. QED
  BY <1>1, <1>5, <1>8, <1>9, DoneStep

LEMMA CopiedToBankStep ==
    ASSUME ScreenInv, CopiedToBank
    PROVE  [Next]_vars /\ FaceInv'
<1>1. /\ call.op = "copyToBank" /\ call.left # <<>>
      /\ CopyToBank(Next1.record) /\ Done
      /\ save' = save /\ bank' = Appended(bank, Game, Next1.record)
  BY DEF CopiedToBank, Under, CopyToBank
<1>2. /\ Next1 = call.left[1] /\ Next1.slot \in Slot /\ Next1.record \in Record
      /\ \A k \in 1 .. Len(Tail(call.left)) : /\ Tail(call.left)[k] = call.left[k + 1]
                                              /\ k + 1 \in 1 .. Len(call.left)
      /\ 1 \in 1 .. Len(call.left)
  BY <1>1, BatchOfRows
<1>3. \A k \in 1 .. Len(call.left) : save.slots[call.left[k].slot] = call.left[k].record
  BY <1>1 DEF ScreenInv, FaceInv, Queued
<1>4. Next1.record \in Rows(Next1.slot)
  BY <1>2, <1>3, HeldIsRow
<1>5. [Next]_vars
  BY <1>1, <1>2, <1>4 DEF Next
<1>6. call'.op = "copyToBank" /\ call'.left = Tail(call.left)
  BY <1>1 DEF Done, ScreenInv, FaceInv, CallTypes
<1>7. Queued'
  BY <1>1, <1>2, <1>3, <1>6 DEF Queued
<1>8. MarkedIdsWereHandedOut'
  <2>1. \A id \in markedIds : id < bank.nextId /\ id \in Nat
    BY DEF ScreenInv, FaceInv, FaceTypes, Marked, MarkedIdsWereHandedOut
  <2>2. bank'.nextId = bank.nextId + 1 /\ bank.nextId \in Nat /\ markedIds' = markedIds
    BY <1>1, SessionTypes DEF Appended, Done, marks, ScreenInv
  <2>3. QED
    BY <2>1, <2>2 DEF MarkedIdsWereHandedOut
<1>9. QED
  BY <1>1, <1>5, <1>7, <1>8, DoneStep

(***************************************************************************)
(* What comes out of the bank fills an empty slot and hands out no id.     *)
(***************************************************************************)
LEMMA ArrivedStep ==
    ASSUME ScreenInv, Withdrawn \/ CopiedToSave
    PROVE  [Next]_vars /\ FaceInv'
<1>1. /\ call.op \in {"withdraw", "copyToSave"} /\ call.left # <<>>
      /\ Done /\ Has(bank, Next1)
      /\ Withdraw(Next1) \/ CopyToSave(Next1)
  BY DEF Withdrawn, CopiedToSave, Under, Withdraw, CopyToSave
<1>2. Next1 \in Ids(bank)
  BY <1>1 DEF Has, Positions, Ids
<1>3. [Next]_vars
  BY <1>1, <1>2 DEF Next
<1>4. Occupied(save) \subseteq Occupied(save')
  <2> DEFINE entry == Find(bank, Next1)
  <2>1. PICK renumber \in BOOLEAN : Receive(entry, renumber)
    <3>1. Renumbers(entry) \in BOOLEAN
      BY DEF Renumbers
    <3>2. Receive(entry, Renumbers(entry)) \/ Receive(entry, TRUE)
      BY <1>1 DEF Withdraw, CopyToSave
    <3> HIDE DEF entry
    <3>3. QED
      BY <3>1, <3>2, Zenon
  <2>2. /\ CanInsert(save)
        /\ save' = Inserted(save, ConvertRecord(entry, Game), renumber)
    BY <2>1, Zenon DEF Receive
  <2>3. save \in Image /\ bank \in BankOf(Games, Record)
    BY SessionTypes DEF ScreenInv, Banks
  <2>4. entry.record \in Record
    BY <1>1, <2>3, FoundEntry DEF Entry
  <2>5. ConvertRecord(entry, Game) \in Record
    BY <2>4, SaveImageAssumption DEF ConvertRecord, Record, Blank, Number, Half
  <2> HIDE DEF entry
  <2>6. QED
    BY <2>2, <2>3, <2>5, InsertedKeepsOccupied
<1>5. bank'.nextId = bank.nextId
  <2>1. bank \in Banks
    BY SessionTypes DEF ScreenInv
  <2>2. bank' = bank \/ bank' = [bank EXCEPT !.entries = RemoveAt(@, Position(bank, Next1))]
    BY <1>1 DEF Withdraw, CopyToSave, Erased
  <2>3. QED
    BY <2>1, <2>2 DEF Banks, BankOf
<1>6. call'.op = call.op
  BY <1>1 DEF Done, ScreenInv, FaceInv, CallTypes
<1>7. Queued'
  BY <1>1, <1>6 DEF Queued
<1>8. MarkedIdsWereHandedOut'
  BY <1>1, <1>5 DEF ScreenInv, FaceInv, Marked, MarkedIdsWereHandedOut, Done, marks
<1>9. QED
  BY <1>1, <1>3, <1>4, <1>7, <1>8, DoneStep

-----------------------------------------------------------------------------
(* A batch is over *)

LEMMA ThrowsStep ==
    ASSUME ScreenInv, IInv', Throws,
           bank'.nextId = bank.nextId \/ bank'.nextId = bank.nextId + 1,
           \/ stale' = TRUE
           \/ /\ stale' = stale /\ call.op # "deposit"
              /\ Occupied(save) \subseteq Occupied(save')
    PROVE  FaceInv'
<1>1. /\ FaceTypes
      /\ call' = NoCall /\ Refresh(gameSort, bankSort)
      /\ UNCHANGED <<markedSlots, markedIds, pane, mode, gameSort, bankSort>>
  BY DEF Throws, ScreenInv, FaceInv, ui
<1>2. MarkedIdsWereHandedOut'
  <2>1. \A id \in markedIds : id < bank.nextId /\ id \in Nat
    BY DEF ScreenInv, FaceInv, FaceTypes, Marked, MarkedIdsWereHandedOut
  <2>2. bank.nextId \in Nat
    BY SessionTypes DEF ScreenInv
  <2>3. QED
    BY <1>1, <2>1, <2>2 DEF MarkedIdsWereHandedOut
<1>3. ~ stale' => markedSlots' \subseteq Occupied(save')
  BY <1>1 DEF ScreenInv, FaceInv, Marked
<1>4. QED
  BY <1>1, <1>2, <1>3, EndsShown DEF FaceTypes

LEMMA DepositThrowsStep ==
    ASSUME ScreenInv, DepositThrows
    PROVE  [Next]_vars /\ FaceInv'
<1>1. /\ call.op = "deposit" /\ call.left # <<>>
      /\ UNCHANGED session \/ DepositFails(Next1.slot, Next1.record)
      /\ Throws /\ stale' = TRUE
  BY DEF DepositThrows, Under
<1>2. CASE UNCHANGED session
  BY <1>1, <1>2, SessionStands, ThrowsStep DEF ScreenInv
<1>3. CASE DepositFails(Next1.slot, Next1.record)
  <2>1. /\ Next1.slot \in Slot /\ Next1.record \in Record
        /\ save.slots[Next1.slot] = Next1.record
        /\ bank'.nextId = bank.nextId + 1
    BY <1>1, <1>3, BatchOfRows DEF DepositFails, MayDeposit, CanRemove, AppendFailed
  <2>2. Next1.record \in Rows(Next1.slot)
    BY <2>1, HeldIsRow
  <2>3. [Next]_vars
    BY <1>3, <2>1, <2>2 DEF Next
  <2>4. IInv'
    BY <2>3, NextPreserves DEF ScreenInv
  <2>5. QED
    BY <1>1, <2>1, <2>3, <2>4, ThrowsStep
<1>4. QED
  BY <1>1, <1>2, <1>3

LEMMA CopyToBankThrowsStep ==
    ASSUME ScreenInv, CopyToBankThrows
    PROVE  [Next]_vars /\ FaceInv'
<1>1. /\ call.op = "copyToBank"
      /\ CopyToBankFails /\ Throws /\ stale' = stale
      /\ save' = save /\ bank'.nextId = bank.nextId + 1
  BY DEF CopyToBankThrows, Under, CopyToBankFails, AppendFailed
<1>2. [Next]_vars
  BY <1>1 DEF Next
<1>3. IInv'
  BY <1>2, NextPreserves DEF ScreenInv
<1>4. QED
  BY <1>1, <1>2, <1>3, ThrowsStep

LEMMA ReceiveThrowsStep ==
    ASSUME ScreenInv, ReceiveThrows
    PROVE  [Next]_vars /\ FaceInv'
<1>1. /\ call.op \in {"withdraw", "copyToSave"}
      /\ UNCHANGED session /\ Throws /\ stale' = stale
  BY DEF ReceiveThrows, Under
<1>2. IInv' /\ [Next]_vars /\ save' = save /\ bank' = bank
  BY <1>1, SessionStands DEF ScreenInv
<1>3. QED
  BY <1>1, <1>2, ThrowsStep

LEMMA BatchEndsStep ==
    ASSUME ScreenInv, BatchEnds
    PROVE  [Next]_vars /\ FaceInv'
<1>1. /\ FaceTypes /\ Marked
      /\ UNCHANGED session /\ call' = NoCall
      /\ Refresh(gameSort, bankSort)
      /\ UNCHANGED <<pane, mode, gameSort, bankSort>>
      /\ \/ markedSlots' = {} /\ stale' = FALSE /\ markedIds' = markedIds
         \/ /\ call.op # "deposit"
            /\ markedIds' = {} /\ markedSlots' = markedSlots /\ stale' = stale
  BY DEF BatchEnds, ScreenInv, FaceInv, ui
<1>2. IInv' /\ [Next]_vars /\ save' = save /\ bank' = bank
  BY <1>1, SessionStands DEF ScreenInv
<1>3. /\ stale' \in BOOLEAN /\ markedSlots' \subseteq Slot /\ markedIds' \subseteq Nat
      /\ ~ stale' => markedSlots' \subseteq Occupied(save')
  BY <1>1, <1>2 DEF FaceTypes, Marked
<1>4. MarkedIdsWereHandedOut'
  BY <1>1, <1>2 DEF Marked, MarkedIdsWereHandedOut
<1>5. QED
  BY <1>1, <1>2, <1>3, <1>4, EndsShown DEF FaceTypes

-----------------------------------------------------------------------------
(* Keys that reach the session *)

LEMMA CommitStep ==
    ASSUME ScreenInv, Commit
    PROVE  [Next]_vars /\ FaceInv'
<1>1. /\ Idle /\ AcceptCommitted
      /\ UNCHANGED <<gameRows, bankRows, party, markedSlots, markedIds, stale,
                     pane, mode, gameSort, bankSort, call>>
      /\ save' = save /\ bank' = bank /\ wrapped' = wrapped
  BY DEF Commit, AcceptCommitted, view, marks, ui
<1>2. [Next]_vars
  BY <1>1 DEF Next
<1>3. FaceTypes /\ CallTypes /\ Shown /\ Queued /\ Marked
  BY DEF ScreenInv, FaceInv
<1>4. FaceTypes' /\ CallTypes'
  BY <1>1, <1>3 DEF FaceTypes, CallTypes
<1>5. Shown'
  BY <1>1, <1>3 DEF Shown, Idle
<1>6. Queued'
  BY <1>1 DEF Queued, Idle, NoCall
<1>7. Marked'
  BY <1>1, <1>3 DEF Marked, MarkedIdsWereHandedOut
<1>8. QED
  BY <1>2, <1>4, <1>5, <1>6, <1>7 DEF FaceInv

(***************************************************************************)
(* Discarding takes the marks back with the id counter.                    *)
(***************************************************************************)
LEMMA DiscardAllStep ==
    ASSUME ScreenInv, DiscardAll
    PROVE  [Next]_vars /\ FaceInv'
<1>1. /\ FaceTypes /\ Discard /\ Refresh(gameSort, bankSort)
      /\ markedSlots' = {} /\ markedIds' = {} /\ stale' = FALSE
      /\ call' = NoCall
      /\ UNCHANGED <<pane, mode, gameSort, bankSort>>
  BY DEF DiscardAll, ScreenInv, FaceInv, ui, Idle
<1>2. [Next]_vars
  BY <1>1 DEF Next
<1>3. IInv'
  BY <1>2, NextPreserves DEF ScreenInv
<1>4. MarkedIdsWereHandedOut'
  BY <1>1 DEF MarkedIdsWereHandedOut
<1>5. QED
  BY <1>1, <1>2, <1>3, <1>4, EndsShown DEF FaceTypes

LEMMA LeaveStep ==
    ASSUME ScreenInv, Leave
    PROVE  [Next]_vars /\ FaceInv'
<1>1. /\ UNCHANGED session \/ Load
      /\ Refresh("original", "original")
      /\ markedSlots' = {} /\ markedIds' = {} /\ stale' = FALSE
      /\ call' = NoCall /\ pane' = "game" /\ mode' = "list"
      /\ gameSort' = "original" /\ bankSort' = "original"
  BY DEF Leave, Opened
<1>2. [Next]_vars
  BY <1>1 DEF Next, session
<1>3. IInv'
  BY <1>2, NextPreserves DEF ScreenInv
<1>4. MarkedIdsWereHandedOut'
  BY <1>1 DEF MarkedIdsWereHandedOut
<1>5. "original" \in SortModes
  BY BankScreenAssumption
<1>6. FaceInv'
  BY <1>1, <1>3, <1>4, <1>5, EndsShown
<1>7. QED
  BY <1>2, <1>6

-----------------------------------------------------------------------------
(* The invariant holds *)

LEMMA ScreenOpens ==
    ASSUME ScreenInit
    PROVE  ScreenInv
<1>1. IInv
  BY InitEstablishes DEF ScreenInit
<1>2. save \in Image /\ bank \in Banks
  BY <1>1, SessionTypes
<1>3. "original" \in SortModes
  BY BankScreenAssumption
<1>4. /\ RowsOfSave(gameRows, save) /\ RowsOfBank(bankRows, bank.entries)
      /\ party = PartySlots(save) /\ party \subseteq Slot
  BY <1>2, <1>3, FreshRows, PartySlotsAreSlots DEF ScreenInit
<1>5. /\ markedSlots = {} /\ markedIds = {} /\ stale = FALSE
      /\ pane = "game" /\ mode = "list"
      /\ gameSort = "original" /\ bankSort = "original"
      /\ call = NoCall
  BY DEF ScreenInit
<1>6. FaceTypes
  BY <1>3, <1>4, <1>5 DEF FaceTypes, RowsOfSave, RowsOfBank
<1>7. CallTypes /\ Queued
  BY <1>5 DEF CallTypes, Queued, NoCall
<1>8. Shown /\ Marked
  BY <1>4, <1>5 DEF Shown, Marked, MarkedIdsWereHandedOut
<1>9. QED
  BY <1>1, <1>6, <1>7, <1>8 DEF ScreenInv, FaceInv

LEMMA ScreenStep ==
    ASSUME ScreenInv, [ScreenNext]_screenVars
    PROVE  [Next]_vars /\ ScreenInv'
<1>1. CASE \E to \in {"game", "bank"} : SwitchPane(to)
  BY <1>1, SwitchPaneStep, NextPreserves DEF ScreenInv
<1>2. CASE SelectKey \/ Menu
  BY <1>2, ModeStep, NextPreserves DEF ScreenInv
<1>3. CASE SortActive
  BY <1>3, SortActiveStep, NextPreserves DEF ScreenInv
<1>4. CASE \E i \in DOMAIN gameRows : ToggleSlot(i)
  BY <1>4, ToggleSlotStep, NextPreserves DEF ScreenInv
<1>5. CASE \E i \in DOMAIN bankRows : ToggleId(i)
  BY <1>5, ToggleIdStep, NextPreserves DEF ScreenInv
<1>6. CASE CancelMarks
  BY <1>6, CancelMarksStep, NextPreserves DEF ScreenInv
<1>7. CASE \E i \in Cursors(gameRows) : MoveRefused(i)
  BY <1>7, MoveRefusedStep, NextPreserves DEF ScreenInv
<1>8. CASE \E i \in Cursors(gameRows) : MoveToBank(i)
  BY <1>8, MoveToBankStep, NextPreserves DEF ScreenInv
<1>9. CASE \E i \in Cursors(gameRows) : CopyChosenToBank(i)
  BY <1>9, CopyChosenToBankStep, NextPreserves DEF ScreenInv
<1>10. CASE \E i \in Cursors(bankRows) : MoveToSave(i)
  BY <1>10, MoveToSaveStep, NextPreserves DEF ScreenInv
<1>11. CASE \E i \in Cursors(bankRows) : CopyChosenToSave(i)
  BY <1>11, CopyChosenToSaveStep, NextPreserves DEF ScreenInv
<1>12. CASE Deposited
  BY <1>12, DepositedStep, NextPreserves DEF ScreenInv
<1>13. CASE DepositThrows
  BY <1>13, DepositThrowsStep, NextPreserves DEF ScreenInv
<1>14. CASE CopiedToBank
  BY <1>14, CopiedToBankStep, NextPreserves DEF ScreenInv
<1>15. CASE CopyToBankThrows
  BY <1>15, CopyToBankThrowsStep, NextPreserves DEF ScreenInv
<1>16. CASE Withdrawn \/ CopiedToSave
  BY <1>16, ArrivedStep, NextPreserves DEF ScreenInv
<1>17. CASE ReceiveThrows
  BY <1>17, ReceiveThrowsStep, NextPreserves DEF ScreenInv
<1>18. CASE BatchEnds
  BY <1>18, BatchEndsStep, NextPreserves DEF ScreenInv
<1>19. CASE Commit
  BY <1>19, CommitStep, NextPreserves DEF ScreenInv
<1>20. CASE DiscardAll
  BY <1>20, DiscardAllStep, NextPreserves DEF ScreenInv
<1>21. CASE Leave
  BY <1>21, LeaveStep, NextPreserves DEF ScreenInv
<1>22. CASE UNCHANGED screenVars
  <2>1. /\ UNCHANGED session
        /\ UNCHANGED <<gameRows, bankRows, party, markedSlots, markedIds, stale,
                       pane, mode, gameSort, bankSort, call>>
    BY <1>22 DEF screenVars, view, marks, ui
  <2>2. IInv' /\ [Next]_vars /\ save' = save /\ bank' = bank /\ wrapped' = wrapped
    BY <2>1, SessionStands DEF ScreenInv
  <2>3. FaceTypes' /\ CallTypes' /\ Shown'
    BY <2>1, <2>2 DEF FaceTypes, CallTypes, Shown, Idle, ScreenInv, FaceInv
  <2>4. Queued' /\ Marked'
    BY <2>1, <2>2 DEF Queued, MayDeposit, Marked, MarkedIdsWereHandedOut, ScreenInv, FaceInv
  <2>5. QED
    BY <2>2, <2>3, <2>4 DEF ScreenInv, FaceInv
<1>23. QED
  BY <1>1, <1>2, <1>3, <1>4, <1>5, <1>6, <1>7, <1>8, <1>9, <1>10, <1>11, <1>12, <1>13,
     <1>14, <1>15, <1>16, <1>17, <1>18, <1>19, <1>20, <1>21, <1>22
  DEF ScreenNext, Mark, Choose, Batch

(***************************************************************************)
(* The inductive invariant of the screen holds in every reachable state.   *)
(***************************************************************************)
THEOREM ScreenInvariance == ScreenSpec => []ScreenInv
<1>1. ScreenInit => ScreenInv
  BY ScreenOpens
<1>2. ScreenInv /\ [ScreenNext]_screenVars => ScreenInv'
  BY ScreenStep
<1>3. QED
  BY <1>1, <1>2, PTL DEF ScreenSpec

(***************************************************************************)
(* Every key and every step of a batch is a call the session allows, or    *)
(* none: what is proved of Session holds under the screen.                 *)
(***************************************************************************)
THEOREM ScreenActsThroughSession == ScreenSpec => ActsThroughSession
<1>1. ScreenInit => Init
  BY DEF ScreenInit
<1>2. ScreenInv /\ [ScreenNext]_screenVars => [Next]_vars
  BY ScreenStep
<1>3. QED
  BY <1>1, <1>2, ScreenInvariance, PTL DEF ScreenSpec, ActsThroughSession, Spec

(***************************************************************************)
(* The screen's variables keep their types.                                *)
(***************************************************************************)
THEOREM ScreenTypes == ScreenSpec => []ScreenTypeOK
<1>1. ScreenInv => ScreenTypeOK
  <2> SUFFICES ASSUME ScreenInv
               PROVE  ScreenTypeOK
    OBVIOUS
  <2>1. /\ save \in Image /\ originalSave \in Image
        /\ bank \in Banks /\ originalBank \in Banks
        /\ dirty \in BOOLEAN /\ wrapped \in BOOLEAN
    BY SessionTypes DEF ScreenInv, IInv, NumberedTypes
  <2>2. FaceTypes /\ CallTypes
    BY DEF ScreenInv, FaceInv
  <2>3. Idle => call.left = <<>>
    BY DEF Idle, NoCall
  <2>4. call.op \in {"none", "deposit", "withdraw", "copyToBank", "copyToSave"}
    BY <2>2 DEF CallTypes, NoCall
  <2>5. QED
    BY <2>1, <2>2, <2>3, <2>4 DEF ScreenTypeOK, FaceTypes, Row
<1>2. QED
  BY <1>1, ScreenInvariance, PTL

(***************************************************************************)
(* When a key is handled the screen shows every record and every entry,    *)
(* each once, and the party as it is.                                      *)
(***************************************************************************)
THEOREM ScreenIsTrue == ScreenSpec => []ScreenShowsSession
<1>1. ScreenInv => ScreenShowsSession
  <2> SUFFICES ASSUME ScreenInv, Idle
               PROVE  /\ Len(gameRows) = Cardinality(Occupied(save))
                      /\ ToSet(gameRows) = {[slot |-> s, record |-> save.slots[s]] : s \in Occupied(save)}
                      /\ Len(bankRows) = Len(bank.entries)
                      /\ ToSet(bankRows) = DOMAIN bank.entries
                      /\ party = PartySlots(save)
    BY DEF ScreenShowsSession
  <2>1. /\ RowsOfSave(gameRows, save) /\ RowsOfBank(bankRows, bank.entries)
        /\ party = PartySlots(save)
    BY DEF ScreenInv, FaceInv, Shown
  <2>2. DOMAIN gameRows = 1 .. Len(gameRows) /\ DOMAIN bankRows = 1 .. Len(bankRows)
    BY <2>1, LenProperties DEF RowsOfSave, RowsOfBank
  <2>3. ToSet(gameRows) \subseteq {[slot |-> s, record |-> save.slots[s]] : s \in Occupied(save)}
    <3>1. \A i \in DOMAIN gameRows :
              /\ gameRows[i].slot \in Occupied(save)
              /\ gameRows[i] = [slot |-> gameRows[i].slot, record |-> save.slots[gameRows[i].slot]]
      BY RowsNameRecords DEF Row
    <3>2. QED
      BY <3>1 DEF ToSet
  <2>4. {[slot |-> s, record |-> save.slots[s]] : s \in Occupied(save)} \subseteq ToSet(gameRows)
    <3> SUFFICES ASSUME NEW s \in Occupied(save)
                 PROVE  [slot |-> s, record |-> save.slots[s]] \in ToSet(gameRows)
      OBVIOUS
    <3>1. PICK i \in 1 .. Len(gameRows) : gameRows[i].slot = s
      BY <2>1 DEF RowsOfSave
    <3>2. gameRows[i] = [slot |-> s, record |-> save.slots[s]]
      BY <2>2, <3>1, RowsNameRecords DEF Row
    <3>3. QED
      BY <2>2, <3>1, <3>2 DEF ToSet
  <2>5. ToSet(bankRows) = DOMAIN bank.entries
    <3>1. bank.entries \in Seq(Entry(Games, Record))
      BY SessionTypes DEF ScreenInv, Banks, BankOf, Entry
    <3>2. DOMAIN bank.entries = 1 .. Len(bank.entries)
      BY <3>1, LenProperties
    <3>3. \A k \in 1 .. Len(bank.entries) : \E i \in DOMAIN bankRows : bankRows[i] = k
      BY <2>1, <2>2 DEF RowsOfBank
    <3>4. \A i \in DOMAIN bankRows : bankRows[i] \in 1 .. Len(bank.entries)
      BY <2>1, <2>2 DEF RowsOfBank
    <3>5. QED
      BY <3>2, <3>3, <3>4 DEF ToSet
  <2>6. QED
    BY <2>1, <2>3, <2>4, <2>5 DEF RowsOfSave, RowsOfBank
<1>2. QED
  BY <1>1, ScreenInvariance, PTL

(***************************************************************************)
(* A deposit batch that has begun stops only when the bank fails, as long  *)
(* as no number has wrapped.                                               *)
(***************************************************************************)
THEOREM QueueIsGood == ScreenSpec => []QueuedDepositsAreGood
<1>1. ScreenInv => QueuedDepositsAreGood
  <2> SUFFICES ASSUME ScreenInv, ~ wrapped, call.op = "deposit", NEW i \in DOMAIN call.left
               PROVE  MayDeposit(call.left[i].slot, call.left[i].record)
    BY DEF QueuedDepositsAreGood
  <2>1. call.left \in Seq(Row)
    BY DEF ScreenInv, FaceInv, CallTypes, NoCall
  <2>2. i \in 1 .. Len(call.left)
    BY <2>1, LenProperties
  <2>3. QED
    BY <2>2 DEF ScreenInv, FaceInv, Queued
<1>2. QED
  BY <1>1, ScreenInvariance, PTL

(***************************************************************************)
(* A marked bank id is one the bank has handed out.                        *)
(***************************************************************************)
THEOREM MarkedIdsKeepTheirMeaning == ScreenSpec => []MarkedIdsWereHandedOut
<1>1. ScreenInv => MarkedIdsWereHandedOut
  BY DEF ScreenInv, FaceInv, Marked
<1>2. QED
  BY <1>1, ScreenInvariance, PTL

(***************************************************************************)
(* Marked slots are taken, unless the bank failed under them.              *)
(***************************************************************************)
THEOREM MarkedSlotsKeepTheirYokai == ScreenSpec => []MarkedSlotsAreTaken
<1>1. ScreenInv => MarkedSlotsAreTaken
  BY MarksWhenIdle DEF MarkedSlotsAreTaken
<1>2. QED
  BY <1>1, ScreenInvariance, PTL

(***************************************************************************)
(* So the party is safe from whatever is done on the screen, batches that  *)
(* fail half-way, discards and reloads included,                           *)
(***************************************************************************)
COROLLARY ScreenLeavesParty == ScreenSpec => PartyUntouched
BY ScreenActsThroughSession, PartySafety DEF ActsThroughSession

(***************************************************************************)
(* and no Yo-kai is lost or made on the screen but by a copy or by giving  *)
(* changes up: the screen implements Collection.                           *)
(***************************************************************************)
COROLLARY ScreenKeepsThePromise == ScreenSpec => KeepsThePromise
BY ScreenActsThroughSession, SessionKeepsThePromise DEF ActsThroughSession
=============================================================================
