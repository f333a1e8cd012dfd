------------------------------ MODULE StoreProofs ------------------------------
(***************************************************************************)
(* What the operations of SaveImage and YokaiBank preserve: of a save, for *)
(* every number of slots, party size and width of an identifier; of a      *)
(* bank, for every set of games and every set of records.                  *)
(***************************************************************************)
EXTENDS SaveImage, YokaiBank, FiniteSetsExt, SequenceTheorems, WellFoundedInduction, TLAPS

-----------------------------------------------------------------------------
(* The least and the greatest of a set, for what looks for a first slot, a *)
(* first entry or the highest number in use                                *)

(***************************************************************************)
(* A set of naturals has a least element, and Min is it.                   *)
(***************************************************************************)
LEMMA MinOfNaturals ==
    ASSUME NEW S \in SUBSET Nat, S # {}
    PROVE  Min(S) \in S /\ \A x \in S : Min(S) =< x
<1>1. PICK n \in S : \A m \in S : ~ (<<m, n>> \in OpToRel(<, Nat))
  BY WFMin, NatLessThanWellFounded
<1>2. \A m \in S : ~ (m < n)
  BY <1>1, Zenon DEF OpToRel
<1>3. \A m \in S : n =< m
  BY <1>2
<1>4. QED
  BY <1>3 DEF Min

(***************************************************************************)
(* A set of naturals that stays below a bound has a greatest element.      *)
(***************************************************************************)
LEMMA MaxOfNaturals ==
    ASSUME NEW bound \in Nat, NEW S \in SUBSET (0 .. bound), S # {}
    PROVE  Max(S) \in S /\ \A x \in S : x =< Max(S)
<1> DEFINE T == {bound - x : x \in S}
<1>1. T \in SUBSET Nat /\ T # {}
  <2>1. \A x \in S : bound - x \in Nat
    OBVIOUS
  <2>2. QED
    BY <2>1
<1>2. PICK n \in T : \A m \in T : n =< m
  <2> HIDE DEF T
  <2>1. QED
    BY <1>1, MinOfNaturals
<1>3. PICK top \in S : n = bound - top
  BY <1>2
<1>4. \A x \in S : x \in Int /\ bound - x \in T
  OBVIOUS
<1> HIDE DEF T
<1>5. ASSUME NEW x \in S
      PROVE  top >= x
  <2>1. bound - top =< bound - x
    BY <1>2, <1>3, <1>4
  <2>2. QED
    BY <1>4, <2>1
<1>6. \E x \in S : \A y \in S : x >= y
  BY <1>5
<1>7. QED
  BY <1>4, <1>6 DEF Max

-----------------------------------------------------------------------------
(* remove() *)

(***************************************************************************)
(* Closing up the identifier list at `at` keeps every other entry, in the  *)
(* order it had, and frees the last position.                              *)
(***************************************************************************)
LEMMA DelistedEntries ==
    ASSUME NEW index \in [Slot -> Number], NEW at \in Slot
    PROVE  /\ Delisted(index, at) \in [Slot -> Number]
           /\ \A i \in Slot : i < at => Delisted(index, at)[i] = index[i]
           /\ \A i \in Slot : i >= at /\ i + 1 \in Slot =>
                  Delisted(index, at)[i] = index[i + 1]
           /\ Delisted(index, at)[Slots - 1] = Blank
           /\ \A j \in Slot : j # at => \E i \in Slot : Delisted(index, at)[i] = index[j]
<1> DEFINE new == Delisted(index, at)
<1>1. Blank \in Number
  BY SaveImageAssumption DEF Blank, Number, Half
<1>2. new \in [Slot -> Number]
  BY <1>1 DEF Delisted
<1>3. \A i \in Slot : i < at => new[i] = index[i]
  BY DEF Delisted
<1>4. \A i \in Slot : i >= at /\ i + 1 \in Slot => new[i] = index[i + 1]
  BY DEF Delisted, Slot
<1>5. new[Slots - 1] = Blank
  BY SaveImageAssumption DEF Delisted, Slot
<1>6. ASSUME NEW j \in Slot, j # at
      PROVE  \E i \in Slot : new[i] = index[j]
  <2>1. CASE j < at
    BY <1>3, <2>1
  <2>2. CASE j > at
    <3>1. j - 1 \in Slot /\ j - 1 >= at /\ (j - 1) + 1 = j
      BY <2>2, SaveImageAssumption DEF Slot
    <3>2. QED
      BY <1>4, <3>1
  <2>3. QED
    BY <1>6, <2>1, <2>2 DEF Slot
<1>7. QED
  BY <1>2, <1>3, <1>4, <1>5, <1>6

(***************************************************************************)
(* The entry remove() closes up is the first that carries the number.      *)
(***************************************************************************)
LEMMA RemovedEntry ==
    ASSUME NEW save \in Image, NEW number \in Number, EntriesOf(save, number) # {}
    PROVE  /\ Min(EntriesOf(save, number)) \in Slot
           /\ save.index[Min(EntriesOf(save, number))] = number
           /\ \A i \in Slot : i < Min(EntriesOf(save, number)) => save.index[i] # number
<1>1. EntriesOf(save, number) \in SUBSET Nat
  BY SaveImageAssumption DEF EntriesOf, Slot
<1>2. /\ Min(EntriesOf(save, number)) \in EntriesOf(save, number)
      /\ \A i \in EntriesOf(save, number) : Min(EntriesOf(save, number)) =< i
  BY <1>1, MinOfNaturals
<1>3. \A i \in Slot : i \in Int
  BY DEF Slot
<1>4. QED
  BY <1>2, <1>3 DEF EntriesOf

(***************************************************************************)
(* remove() leaves an image, and a consistent one if it was consistent.    *)
(***************************************************************************)
LEMMA RemovedType ==
    ASSUME NEW save \in Image, NEW slot \in Slot, NEW expected \in Record,
           CanRemove(save, slot, expected)
    PROVE  Removed(save, slot) \in Image
<1>1. save.slots[slot] = expected /\ expected.number \in Number
  BY DEF CanRemove, Record
<1>2. Min(EntriesOf(save, expected.number)) \in Slot
  BY <1>1, RemovedEntry DEF CanRemove
<1>3. Delisted(save.index, Min(EntriesOf(save, expected.number))) \in [Slot -> Number]
  BY <1>2, DelistedEntries DEF Image
<1>4. QED
  BY <1>1, <1>3 DEF Removed, Image

LEMMA RemovedConsistent ==
    ASSUME NEW save \in Image, NEW slot \in Slot, NEW expected \in Record,
           CanRemove(save, slot, expected), Consistent(save)
    PROVE  Consistent(Removed(save, slot))
<1> DEFINE number == expected.number
           at     == Min(EntriesOf(save, number))
           new    == Removed(save, slot)
           old    == save.index
<1>1. /\ save.slots[slot] = expected
      /\ number \in Number
      /\ expected # NoRecord
      /\ old \in [Slot -> Number]
      /\ slot \in Occupied(save)
  BY SaveImageAssumption DEF CanRemove, Record, Image, Number, Half, Occupied
<1>2. at \in Slot /\ old[at] = number
  BY <1>1, RemovedEntry DEF CanRemove
<1>3. /\ new.index = Delisted(old, at)
      /\ new.slots = [save.slots EXCEPT ![slot] = NoRecord]
  BY <1>1 DEF Removed
<1> HIDE DEF number, at, new, old
<1>4. /\ Occupied(new) = Occupied(save) \ {slot}
      /\ \A s \in Occupied(new) : new.slots[s] = save.slots[s]
  BY <1>1, <1>3 DEF Occupied, Image
<1>5. /\ \A i \in Slot : i < at => new.index[i] = old[i]
      /\ \A i \in Slot : i >= at /\ i + 1 \in Slot => new.index[i] = old[i + 1]
      /\ new.index[Slots - 1] = Blank
      /\ \A j \in Slot : j # at => \E i \in Slot : new.index[i] = old[j]
  BY <1>1, <1>2, <1>3, DelistedEntries
<1>6. \A i, j \in Slot : old[i] = old[j] /\ old[i] # Blank => i = j
  BY DEF Consistent, old
<1>7. {old[i] : i \in Slot} \ {Blank} = {save.slots[s].number : s \in Occupied(save)}
  BY DEF Consistent, old
<1>8. number # Blank
  BY <1>1 DEF Consistent, number
<1>9. \A i \in Slot : i < at \/ (i >= at /\ i + 1 \in Slot) \/ i = Slots - 1
  BY <1>2, SaveImageAssumption DEF Slot
<1>10. \A i \in Slot : new.index[i] # Blank =>
          \E j \in Slot : j # at /\ new.index[i] = old[j] /\ (j = i \/ j = i + 1) /\ (j = i <=> i < at)
  BY <1>2, <1>5, <1>9 DEF Slot
<1>11. \A i, j \in Slot : new.index[i] = new.index[j] /\ new.index[i] # Blank => i = j
  BY <1>2, <1>6, <1>10 DEF Slot
<1>12. \A s, t \in Occupied(new) : new.slots[s].number = new.slots[t].number => s = t
  BY <1>4 DEF Consistent
<1>13. \A s \in Occupied(new) : new.slots[s].number # Blank /\ new.slots[s].number # number
  BY <1>1, <1>4 DEF Consistent, number
<1>14. {new.index[i] : i \in Slot} \ {Blank} = {new.slots[s].number : s \in Occupied(new)}
  <2>1. ASSUME NEW i \in Slot, new.index[i] # Blank
        PROVE  \E s \in Occupied(new) : new.index[i] = new.slots[s].number
    <3>1. PICK j \in Slot : j # at /\ new.index[i] = old[j]
      BY <1>10, <2>1
    <3>2. old[j] # number
      BY <1>2, <1>6, <1>8, <3>1
    <3>3. PICK s \in Occupied(save) : old[j] = save.slots[s].number
      BY <1>7, <2>1, <3>1
    <3>4. s # slot
      BY <1>1, <3>2, <3>3 DEF number
    <3>5. QED
      BY <1>4, <3>1, <3>3, <3>4
  <2>2. ASSUME NEW s \in Occupied(new)
        PROVE  \E i \in Slot : new.index[i] = new.slots[s].number
    <3>1. PICK j \in Slot : old[j] = save.slots[s].number
      BY <1>4, <1>7
    <3>2. j # at
      BY <1>2, <1>4, <1>13, <3>1
    <3>3. QED
      BY <1>4, <1>5, <3>1, <3>2
  <2>3. QED
    BY <1>13, <2>1, <2>2
<1>15. QED
  BY <1>11, <1>12, <1>13, <1>14 DEF Consistent, new

-----------------------------------------------------------------------------
(* insert() *)

(***************************************************************************)
(* A record goes to an empty slot and to a blank entry past the party.     *)
(***************************************************************************)
LEMMA InsertionPlace ==
    ASSUME NEW save \in Image, CanInsert(save)
    PROVE  /\ FirstFree(save) \in Slot
           /\ save.slots[FirstFree(save)] = NoRecord
           /\ Min(OpenEntries(save)) \in Slot
           /\ Min(OpenEntries(save)) >= PartySize
           /\ save.index[Min(OpenEntries(save))] = Blank
<1>1. Free(save) \in SUBSET Nat /\ OpenEntries(save) \in SUBSET Nat
  BY DEF Free, OpenEntries, Slot
<1>2. FirstFree(save) \in Free(save) /\ Min(OpenEntries(save)) \in OpenEntries(save)
  BY <1>1, MinOfNaturals DEF CanInsert, FirstFree
<1>3. QED
  BY <1>2 DEF Free, Occupied, OpenEntries

(***************************************************************************)
(* assignNumbers gives an identifier, never the blank one, and unless it   *)
(* wraps one that no record of the save carries.                           *)
(***************************************************************************)
LEMMA NewNumberFresh ==
    ASSUME NEW save \in Image
    PROVE  /\ NewNumber(save) \in Number
           /\ NewNumber(save) # Blank
           /\ ~ NumberWraps(save) => ~ ContainsIdentifier(save, NewNumber(save))
<1> DEFINE halves == {save.slots[s].number[1] : s \in Occupied(save)}
           low    == IF Occupied(save) = {} THEN 0 ELSE (HighestHalf(save) + 1) % NumberSpace
<1>1. \A s \in Occupied(save) : save.slots[s].number \in Number /\ save.slots[s].number[1] \in Half
  BY DEF Occupied, Image, Record, Number
<1>2. halves \in SUBSET Half
  BY <1>1
<1>3. Occupied(save) # {} =>
        /\ HighestHalf(save) \in Half
        /\ \A s \in Occupied(save) : save.slots[s].number[1] =< HighestHalf(save)
  <2>1. SUFFICES ASSUME Occupied(save) # {}
                 PROVE  /\ HighestHalf(save) \in halves
                        /\ \A x \in halves : x =< HighestHalf(save)
    BY <1>2
  <2>2. halves # {}
    BY <2>1
  <2>3. halves \in SUBSET (0 .. NumberSpace - 1) /\ NumberSpace - 1 \in Nat
    BY <1>2, SaveImageAssumption DEF Half
  <2> HIDE DEF halves
  <2>4. Max(halves) \in halves /\ \A x \in halves : x =< Max(halves)
    BY <2>2, <2>3, MaxOfNaturals
  <2>5. QED
    BY <2>4 DEF HighestHalf, halves
<1>4. low \in Half
  BY <1>3, SaveImageAssumption DEF Half
<1>5. (low + 1) % NumberSpace \in Half
  BY <1>4, SaveImageAssumption DEF Half
<1>6. low = 0 => (low + 1) % NumberSpace = 1
  BY SaveImageAssumption
<1>7. NewNumber(save) = <<low, (low + 1) % NumberSpace>>
  BY DEF NewNumber
<1> HIDE DEF low, halves
<1>8. NewNumber(save) \in Number
  BY <1>4, <1>5, <1>7 DEF Number
<1>9. NewNumber(save) # Blank
  BY <1>6, <1>7 DEF Blank
<1>10. ASSUME ~ NumberWraps(save), NEW s \in Occupied(save)
       PROVE  save.slots[s].number # NewNumber(save)
  <2>1. HighestHalf(save) \in Half /\ save.slots[s].number[1] =< HighestHalf(save)
    BY <1>3
  <2>2. HighestHalf(save) + 1 < NumberSpace
    BY <1>10, <2>1, SaveImageAssumption DEF NumberWraps, Half
  <2>3. low = HighestHalf(save) + 1
    BY <2>1, <2>2, SaveImageAssumption DEF low, Half
  <2>4. save.slots[s].number[1] # low
    BY <1>1, <2>1, <2>3 DEF Half
  <2>5. QED
    BY <1>7, <2>4
<1>11. QED
  BY <1>8, <1>9, <1>10 DEF ContainsIdentifier

(***************************************************************************)
(* insert() leaves an image; it stays consistent when the record goes in   *)
(* under an identifier that is not blank and not in use.                   *)
(***************************************************************************)
LEMMA InsertedNumber ==
    ASSUME NEW save \in Image, NEW record \in Record, NEW renumber \in BOOLEAN
    PROVE  (IF renumber THEN NewNumber(save) ELSE record.number) \in Number
BY NewNumberFresh DEF Record

LEMMA InsertedType ==
    ASSUME NEW save \in Image, NEW record \in Record, NEW renumber \in BOOLEAN,
           CanInsert(save)
    PROVE  Inserted(save, record, renumber) \in Image
<1> DEFINE number == IF renumber THEN NewNumber(save) ELSE record.number
<1>1. number \in Number
  BY InsertedNumber
<1> HIDE DEF number
<1>2. [body |-> record.body, number |-> number] \in Record
  BY <1>1 DEF Record
<1>3. Inserted(save, record, renumber) =
        [slots |-> [save.slots EXCEPT
                       ![FirstFree(save)] = [body |-> record.body, number |-> number]],
         index |-> [save.index EXCEPT ![Min(OpenEntries(save))] = number]]
  BY DEF Inserted, number
<1>4. QED
  BY <1>1, <1>2, <1>3, InsertionPlace DEF Image

LEMMA InsertedConsistent ==
    ASSUME NEW save \in Image, NEW record \in Record, NEW renumber \in BOOLEAN,
           CanInsert(save), Consistent(save),
           (IF renumber THEN NewNumber(save) ELSE record.number) # Blank,
           ~ ContainsIdentifier(save, IF renumber THEN NewNumber(save) ELSE record.number)
    PROVE  Consistent(Inserted(save, record, renumber))
<1> DEFINE number == IF renumber THEN NewNumber(save) ELSE record.number
           slot   == FirstFree(save)
           at     == Min(OpenEntries(save))
           old    == save.index
           new    == Inserted(save, record, renumber)
<1>1. number \in Number
  BY InsertedNumber
<1>2. /\ slot \in Slot /\ save.slots[slot] = NoRecord
      /\ at \in Slot /\ old[at] = Blank
      /\ old \in [Slot -> Number]
  BY InsertionPlace DEF Image
<1>3. /\ new.slots = [save.slots EXCEPT ![slot] = [body |-> record.body, number |-> number]]
      /\ new.index = [old EXCEPT ![at] = number]
  BY DEF Inserted
<1>4. number # Blank /\ \A s \in Occupied(save) : save.slots[s].number # number
  BY DEF ContainsIdentifier
<1>5. /\ \A i, j \in Slot : old[i] = old[j] /\ old[i] # Blank => i = j
      /\ {old[i] : i \in Slot} \ {Blank} = {save.slots[s].number : s \in Occupied(save)}
      /\ \A s, t \in Occupied(save) : save.slots[s].number = save.slots[t].number => s = t
      /\ \A s \in Occupied(save) : save.slots[s].number # Blank
  BY DEF Consistent
<1>6. [body |-> record.body, number |-> number] \in Record
  BY <1>1 DEF Record
<1> HIDE DEF number, slot, at, old, new
<1>7. /\ Occupied(new) = Occupied(save) \cup {slot}
      /\ slot \notin Occupied(save)
      /\ new.slots[slot].number = number
      /\ \A s \in Occupied(save) : new.slots[s] = save.slots[s]
  BY <1>2, <1>3, <1>6, SaveImageAssumption DEF Occupied, Image, Record, Number, Half
<1>8. /\ new.index[at] = number
      /\ \A i \in Slot : i # at => new.index[i] = old[i]
  BY <1>2, <1>3
<1>9. \A i \in Slot : old[i] # number
  BY <1>4, <1>5
<1>10. \A s, t \in Occupied(new) : new.slots[s].number = new.slots[t].number => s = t
  BY <1>4, <1>5, <1>7
<1>11. \A s \in Occupied(new) : new.slots[s].number # Blank
  BY <1>4, <1>5, <1>7
<1>12. \A i, j \in Slot : new.index[i] = new.index[j] /\ new.index[i] # Blank => i = j
  BY <1>5, <1>8, <1>9
<1>13. {new.index[i] : i \in Slot} \ {Blank} = {new.slots[s].number : s \in Occupied(new)}
  <2>1. ASSUME NEW i \in Slot, new.index[i] # Blank
        PROVE  \E s \in Occupied(new) : new.index[i] = new.slots[s].number
    <3>1. CASE i = at
      BY <1>7, <1>8, <3>1
    <3>2. CASE i # at
      BY <1>5, <1>7, <1>8, <2>1, <3>2
    <3>3. QED
      BY <3>1, <3>2
  <2>2. ASSUME NEW s \in Occupied(new)
        PROVE  \E i \in Slot : new.index[i] = new.slots[s].number
    <3>1. CASE s = slot
      BY <1>2, <1>7, <1>8, <3>1
    <3>2. CASE s # slot
      <4>1. s \in Occupied(save) /\ save.slots[s].number # Blank
        BY <1>5, <1>7, <3>2
      <4>0. {old[i] : i \in Slot} \ {Blank} = {save.slots[t].number : t \in Occupied(save)}
        BY <1>5
      <4>2. save.slots[s].number \in {old[i] : i \in Slot}
        <5>1. save.slots[s].number \in {save.slots[t].number : t \in Occupied(save)}
          BY <4>1
        <5>2. QED
          BY <4>0, <5>1
      <4>3. PICK i \in Slot : old[i] = save.slots[s].number
        BY <4>2
      <4>4. i # at
        BY <1>2, <4>1, <4>3
      <4>5. QED
        BY <1>7, <1>8, <4>1, <4>3, <4>4
    <3>3. QED
      BY <3>1, <3>2
  <2>3. QED
    BY <1>11, <2>1, <2>2
<1>14. QED
  BY <1>10, <1>11, <1>12, <1>13 DEF Consistent, new

-----------------------------------------------------------------------------
(* The party, and both operations together *)

Numbered         == {record \in Record : record.number # Blank}
NumberedImage(save) ==
    save \in Image /\ \A s \in Slot : save.slots[s] \in Numbered \cup {NoRecord}

\* The party positions are as they were, and so are the records they name.
PartyKept(old, new) ==
    /\ \A p \in Party : new.index[p] = old.index[p]
    /\ \A s \in Slot : IsPartySlot(old, s) => new.slots[s] = old.slots[s]

NoNewMembers(old, new) == \A s \in Slot : IsPartySlot(new, s) => IsPartySlot(old, s)

(***************************************************************************)
(* Taking out a record that is not in the party leaves the party alone: its *)
(* entry in the list comes after the party's.                              *)
(***************************************************************************)
LEMMA RemovedParty ==
    ASSUME NEW save \in Image, NEW slot \in Slot, NEW expected \in Record,
           CanRemove(save, slot, expected), ~ IsPartySlot(save, slot)
    PROVE  /\ PartyKept(save, Removed(save, slot))
           /\ NoNewMembers(save, Removed(save, slot))
<1> DEFINE number == save.slots[slot].number
           at     == Min(EntriesOf(save, number))
           new    == Removed(save, slot)
<1>1. /\ save.slots[slot] = expected /\ number = expected.number
      /\ number \in Number /\ EntriesOf(save, number) # {}
      /\ slot \in Occupied(save)
      /\ save.slots \in [Slot -> Record \cup {NoRecord}]
      /\ save.index \in [Slot -> Number]
  BY SaveImageAssumption DEF CanRemove, Record, Image, Number, Half, Occupied
<1>2. at \in Slot /\ save.index[at] = number
  BY <1>1, RemovedEntry
<1>3. /\ new.slots = [save.slots EXCEPT ![slot] = NoRecord]
      /\ new.index = Delisted(save.index, at)
  BY DEF Removed
<1> HIDE DEF number, at, new
<1>4. Party \subseteq Slot /\ \A p \in Party, i \in Slot : i \notin Party => p < i
  BY SaveImageAssumption DEF Party, Slot
<1>5. at \notin Party
  BY <1>1, <1>2 DEF IsPartySlot, number
<1>6. \A p \in Party : new.index[p] = save.index[p]
  BY <1>1, <1>2, <1>3, <1>4, <1>5, DelistedEntries
<1>7. /\ \A s \in Slot : s # slot => new.slots[s] = save.slots[s]
      /\ new.slots[slot] = NoRecord
  BY <1>1, <1>3
<1>8. PartyKept(save, new)
  BY <1>6, <1>7 DEF PartyKept
<1>9. NoNewMembers(save, new)
  BY <1>6, <1>7 DEF NoNewMembers, IsPartySlot, Occupied
<1>10. QED
  BY <1>8, <1>9 DEF new

(***************************************************************************)
(* An insertion leaves the party alone, and a record that comes in under a *)
(* number nobody has does not become a member.                             *)
(***************************************************************************)
LEMMA InsertedParty ==
    ASSUME NEW save \in Image, NEW record \in Record, NEW renumber \in BOOLEAN,
           CanInsert(save)
    PROVE  /\ PartyKept(save, Inserted(save, record, renumber))
           /\ (/\ Consistent(save)
               /\ (IF renumber THEN NewNumber(save) ELSE record.number) # Blank
               /\ ~ ContainsIdentifier(save, IF renumber THEN NewNumber(save) ELSE record.number))
                  => NoNewMembers(save, Inserted(save, record, renumber))
<1> DEFINE number == IF renumber THEN NewNumber(save) ELSE record.number
           slot   == FirstFree(save)
           at     == Min(OpenEntries(save))
           new    == Inserted(save, record, renumber)
<1>1. /\ slot \in Slot /\ save.slots[slot] = NoRecord
      /\ at \in Slot /\ at >= PartySize /\ save.index[at] = Blank
      /\ save.slots \in [Slot -> Record \cup {NoRecord}]
      /\ save.index \in [Slot -> Number]
  BY InsertionPlace DEF Image
<1>2. /\ new.slots = [save.slots EXCEPT ![slot] = [body |-> record.body, number |-> number]]
      /\ new.index = [save.index EXCEPT ![at] = number]
  BY DEF Inserted
<1> HIDE DEF number, slot, at, new
<1>3. Party \subseteq Slot /\ at \notin Party
  BY <1>1, SaveImageAssumption DEF Party, Slot
<1>4. /\ \A p \in Party : new.index[p] = save.index[p]
      /\ \A s \in Slot : s # slot => new.slots[s] = save.slots[s]
      /\ new.slots[slot].number = number
  BY <1>1, <1>2, <1>3
<1>5. PartyKept(save, new)
  BY <1>1, <1>4 DEF PartyKept, IsPartySlot, Occupied
<1>6. ASSUME Consistent(save), number # Blank, ~ ContainsIdentifier(save, number)
      PROVE  NoNewMembers(save, new)
  <2>1. {save.index[i] : i \in Slot} \ {Blank} = {save.slots[s].number : s \in Occupied(save)}
    BY <1>6 DEF Consistent
  <2>2. \A s \in Occupied(save) : save.slots[s].number # number
    BY <1>6 DEF ContainsIdentifier
  <2>3. \A p \in Party : save.index[p] # number
    BY <1>3, <1>6, <2>1, <2>2
  <2>4. ~ IsPartySlot(new, slot)
    BY <1>4, <2>3 DEF IsPartySlot
  <2>5. \A s \in Slot : s # slot /\ IsPartySlot(new, s) => IsPartySlot(save, s)
    BY <1>4 DEF IsPartySlot, Occupied
  <2>6. QED
    BY <2>4, <2>5 DEF NoNewMembers
<1>7. QED
  BY <1>5, <1>6 DEF number, new

(***************************************************************************)
(* After a removal there is a free slot and, at the end of the list, a     *)
(* free entry; and if the save was consistent, nobody else has the number. *)
(***************************************************************************)
LEMMA RoomAfterRemoval ==
    ASSUME NEW save \in Image, NEW slot \in Slot, NEW expected \in Record,
           CanRemove(save, slot, expected)
    PROVE  /\ CanInsert(Removed(save, slot))
           /\ Consistent(save) =>
                  /\ expected.number # Blank
                  /\ ~ ContainsIdentifier(Removed(save, slot), expected.number)
<1> DEFINE number == save.slots[slot].number
           at     == Min(EntriesOf(save, number))
           new    == Removed(save, slot)
<1>1. /\ save.slots[slot] = expected /\ number = expected.number
      /\ number \in Number /\ EntriesOf(save, number) # {}
      /\ slot \in Occupied(save)
      /\ save.slots \in [Slot -> Record \cup {NoRecord}]
      /\ save.index \in [Slot -> Number]
  BY SaveImageAssumption DEF CanRemove, Record, Image, Number, Half, Occupied
<1>2. at \in Slot
  BY <1>1, RemovedEntry
<1>3. /\ new.slots = [save.slots EXCEPT ![slot] = NoRecord]
      /\ new.index = Delisted(save.index, at)
  BY DEF Removed
<1> HIDE DEF number, at, new
<1>4. /\ \A s \in Slot : s # slot => new.slots[s] = save.slots[s]
      /\ new.slots[slot] = NoRecord
  BY <1>1, <1>3
<1>5. slot \in Free(new)
  BY <1>4 DEF Free, Occupied
<1>6. new.index[Slots - 1] = Blank
  BY <1>1, <1>2, <1>3, DelistedEntries
<1>7. Slots - 1 \in OpenEntries(new)
  BY <1>6, SaveImageAssumption DEF OpenEntries, Slot
<1>8. ASSUME Consistent(save)
      PROVE  number # Blank /\ ~ ContainsIdentifier(new, number)
  BY <1>1, <1>4, <1>8 DEF Consistent, ContainsIdentifier, Occupied, number
<1>9. QED
  BY <1>1, <1>5, <1>7, <1>8 DEF CanInsert, new

(***************************************************************************)
(* A removal and an insertion keep every record numbered.                  *)
(***************************************************************************)
LEMMA RemovedNumbered ==
    ASSUME NEW save, NumberedImage(save), NEW slot \in Slot, NEW expected \in Record,
           CanRemove(save, slot, expected)
    PROVE  NumberedImage(Removed(save, slot))
<1>1. save \in Image /\ Removed(save, slot) \in Image
  BY RemovedType DEF NumberedImage
<1>2. Removed(save, slot).slots = [save.slots EXCEPT ![slot] = NoRecord]
  BY DEF Removed
<1>3. QED
  BY <1>1, <1>2 DEF NumberedImage, Image

LEMMA InsertedNumbered ==
    ASSUME NEW save, NumberedImage(save), NEW record \in Record, NEW renumber \in BOOLEAN,
           CanInsert(save), renumber \/ record.number # Blank
    PROVE  NumberedImage(Inserted(save, record, renumber))
<1> DEFINE number == IF renumber THEN NewNumber(save) ELSE record.number
           new    == Inserted(save, record, renumber)
<1>1. save \in Image /\ new \in Image /\ number \in Number
  BY InsertedType, InsertedNumber DEF NumberedImage
<1>2. number # Blank
  BY <1>1, NewNumberFresh
<1>3. new.slots = [save.slots EXCEPT ![FirstFree(save)] = [body |-> record.body, number |-> number]]
  BY DEF Inserted
<1> HIDE DEF number, new
<1>4. [body |-> record.body, number |-> number] \in Numbered
  BY <1>1, <1>2 DEF Numbered, Record
<1>5. NumberedImage(new)
  BY <1>1, <1>3, <1>4 DEF NumberedImage, Image
<1>6. QED
  BY <1>5 DEF new

-----------------------------------------------------------------------------
(* The bank: entries stay records of their set, ids and arrivals in order  *)

Entry(games, records) == [id : Nat, arrival : Nat, game : games, record : records]

(***************************************************************************)
(* append(): the new entry is the last and has the numbers kept for it.    *)
(***************************************************************************)
LEMMA AppendedKeeps ==
    ASSUME NEW games, NEW records, NEW bank \in BankOf(games, records),
           NEW game \in games, NEW record \in records
    PROVE  /\ Appended(bank, game, record) \in BankOf(games, records)
           /\ Ordered(bank) => Ordered(Appended(bank, game, record))
<1> DEFINE new   == Appended(bank, game, record)
           entry == [id |-> bank.nextId, arrival |-> bank.nextArrival,
                     game |-> game, record |-> record]
           n     == Len(bank.entries)
<1>1. /\ bank.entries \in Seq(Entry(games, records))
      /\ bank.nextId \in Nat /\ bank.nextArrival \in Nat
      /\ entry \in Entry(games, records)
  BY DEF BankOf, Entry
<1>2. /\ new.entries = Append(bank.entries, entry)
      /\ new.nextId = bank.nextId + 1 /\ new.nextArrival = bank.nextArrival + 1
  BY DEF Appended
<1>3. /\ n \in Nat /\ DOMAIN bank.entries = 1 .. n
      /\ \A i \in 1 .. n : bank.entries[i] \in Entry(games, records)
  BY <1>1, LenProperties, ElementOfSeq
<1>4. /\ new.entries \in Seq(Entry(games, records))
      /\ Len(new.entries) = n + 1
      /\ \A i \in 1 .. n : new.entries[i] = bank.entries[i]
      /\ new.entries[n + 1] = entry
  BY <1>1, <1>2, AppendProperties
<1>5. DOMAIN new.entries = 1 .. n + 1
  BY <1>4, LenProperties
<1>6. new \in BankOf(games, records)
  BY <1>1, <1>2, <1>4 DEF BankOf, Entry, Appended
<1>7. entry.id = bank.nextId /\ entry.arrival = bank.nextArrival
  OBVIOUS
<1> HIDE DEF new, entry, n
<1>8. ASSUME Ordered(bank)
      PROVE  Ordered(new)
  <2>1. \A i \in 1 .. n : /\ bank.entries[i].id \in Nat /\ bank.entries[i].arrival \in Nat
                          /\ bank.entries[i].id < bank.nextId
                          /\ bank.entries[i].arrival < bank.nextArrival
    BY <1>3, <1>8 DEF Ordered, Entry
  <2>2. ASSUME NEW i \in 1 .. n + 1, NEW j \in 1 .. n + 1, i < j
        PROVE  /\ new.entries[i].id < new.entries[j].id
               /\ new.entries[i].arrival < new.entries[j].arrival
    <3>1. i \in 1 .. n
      BY <1>3, <2>2
    <3>2. CASE j \in 1 .. n
      BY <1>3, <1>4, <1>8, <2>2, <3>1, <3>2 DEF Ordered
    <3>3. CASE j = n + 1
      BY <1>4, <1>7, <2>1, <3>1, <3>3
    <3>4. QED
      BY <1>3, <3>2, <3>3
  <2>3. ASSUME NEW i \in 1 .. n + 1
        PROVE  /\ new.entries[i].id < new.nextId
               /\ new.entries[i].arrival < new.nextArrival
    <3>1. CASE i \in 1 .. n
      BY <1>1, <1>2, <1>4, <2>1, <3>1
    <3>2. CASE i = n + 1
      BY <1>1, <1>2, <1>4, <1>7, <3>2
    <3>3. QED
      BY <1>3, <3>1, <3>2
  <2>4. QED
    BY <1>5, <2>2, <2>3 DEF Ordered
<1>9. QED
  BY <1>6, <1>8 DEF new

(***************************************************************************)
(* An append() that throws after it numbered the entry.                    *)
(***************************************************************************)
LEMMA AppendFailedKeeps ==
    ASSUME NEW games, NEW records, NEW bank \in BankOf(games, records)
    PROVE  /\ AppendFailed(bank) \in BankOf(games, records)
           /\ Ordered(bank) => Ordered(AppendFailed(bank))
<1>1. /\ bank.entries \in Seq(Entry(games, records))
      /\ bank.nextId \in Nat /\ bank.nextArrival \in Nat
  BY DEF BankOf, Entry
<1>2. /\ AppendFailed(bank) \in BankOf(games, records)
      /\ AppendFailed(bank).entries = bank.entries
      /\ AppendFailed(bank).nextId = bank.nextId + 1
      /\ AppendFailed(bank).nextArrival = bank.nextArrival + 1
  BY DEF AppendFailed, BankOf
<1>3. \A i \in DOMAIN bank.entries : bank.entries[i] \in Entry(games, records)
  BY <1>1, LenProperties, ElementOfSeq
<1>4. \A i \in DOMAIN bank.entries :
          bank.entries[i].id \in Nat /\ bank.entries[i].arrival \in Nat
  BY <1>3 DEF Entry
<1>5. QED
  BY <1>1, <1>2, <1>4 DEF Ordered

(***************************************************************************)
(* find(): an entry of the bank, with the id asked for.                    *)
(***************************************************************************)
LEMMA FoundEntry ==
    ASSUME NEW games, NEW records, NEW bank \in BankOf(games, records),
           NEW id, Has(bank, id)
    PROVE  /\ Position(bank, id) \in 1 .. Len(bank.entries)
           /\ Find(bank, id) \in Entry(games, records)
           /\ Find(bank, id).id = id
<1>1. bank.entries \in Seq(Entry(games, records))
  BY DEF BankOf, Entry
<1>2. Len(bank.entries) \in Nat /\ DOMAIN bank.entries = 1 .. Len(bank.entries)
  BY <1>1, LenProperties
<1>3. Positions(bank, id) \in SUBSET Nat /\ Positions(bank, id) # {}
  BY <1>2 DEF Positions, Has
<1>4. Position(bank, id) \in Positions(bank, id)
  BY <1>3, MinOfNaturals DEF Position
<1>5. QED
  BY <1>1, <1>2, <1>4, ElementOfSeq DEF Positions, Find

(***************************************************************************)
(* erase(): what is left are the other entries, those behind the erased    *)
(* one moved up by one position.                                           *)
(***************************************************************************)
LEMMA ErasedEntries ==
    ASSUME NEW games, NEW records, NEW bank \in BankOf(games, records),
           NEW id, Has(bank, id)
    PROVE  LET at   == Position(bank, id)
               n    == Len(bank.entries)
               left == Erased(bank, id).entries
           IN  /\ n \in Nat /\ at \in 1 .. n
               /\ DOMAIN bank.entries = 1 .. n /\ DOMAIN left = 1 .. n - 1
               /\ left \in Seq(Entry(games, records))
               /\ \A i \in 1 .. n - 1 :
                      left[i] = bank.entries[IF i < at THEN i ELSE i + 1]
<1> DEFINE all  == bank.entries
           at   == Position(bank, id)
           n    == Len(all)
           low  == SubSeq(all, 1, at - 1)
           high == SubSeq(all, at + 1, n)
           left == low \o high
           From(i) == IF i < at THEN i ELSE i + 1
<1>1. all \in Seq(Entry(games, records))
  BY DEF BankOf, Entry
<1>2. /\ n \in Nat /\ DOMAIN all = 1 .. n /\ at \in 1 .. n
      /\ \A i \in 1 .. n : all[i] \in Entry(games, records)
  BY <1>1, FoundEntry, LenProperties, ElementOfSeq
<1>3. Erased(bank, id).entries = left
  BY DEF Erased, RemoveAt, BankOf
<1> HIDE DEF all, at, n
<1>5. /\ low \in Seq(Entry(games, records)) /\ Len(low) = at - 1
      /\ \A i \in 1 .. at - 1 : low[i] = all[i]
  <2>1. at - 1 \in Int /\ (\A i \in 1 .. at - 1 : all[i] \in Entry(games, records))
    BY <1>2
  <2>2. /\ low \in Seq(Entry(games, records))
        /\ Len(low) = IF 1 <= at - 1 THEN (at - 1) - 1 + 1 ELSE 0
        /\ \A i \in 1 .. (at - 1) - 1 + 1 : low[i] = all[1 + i - 1]
    BY <2>1, SubSeqProperties
  <2>3. QED
    BY <1>2, <2>2
<1>6. /\ high \in Seq(Entry(games, records)) /\ Len(high) = n - at
      /\ \A i \in 1 .. n - at : high[i] = all[at + i]
  <2>1. at + 1 \in Int /\ n \in Int /\ (\A i \in at + 1 .. n : all[i] \in Entry(games, records))
    BY <1>2
  <2>2. /\ high \in Seq(Entry(games, records))
        /\ Len(high) = IF at + 1 <= n THEN n - (at + 1) + 1 ELSE 0
        /\ \A i \in 1 .. n - (at + 1) + 1 : high[i] = all[(at + 1) + i - 1]
    BY <2>1, SubSeqProperties
  <2>3. QED
    BY <1>2, <2>2
<1> HIDE DEF low, high
<1>7. /\ left \in Seq(Entry(games, records)) /\ Len(left) = n - 1
      /\ DOMAIN left = 1 .. n - 1
      /\ \A i \in 1 .. n - 1 : left[i] = all[From(i)]
  <2>1. /\ left \in Seq(Entry(games, records))
        /\ Len(left) = Len(low) + Len(high)
        /\ \A i \in 1 .. Len(low) + Len(high) :
               left[i] = IF i <= Len(low) THEN low[i] ELSE high[i - Len(low)]
    BY <1>5, <1>6, ConcatProperties
  <2>2. DOMAIN left = 1 .. Len(left)
    BY <2>1, LenProperties
  <2> HIDE DEF left
  <2>3. Len(low) + Len(high) = n - 1
    BY <1>2, <1>5, <1>6
  <2>4. ASSUME NEW i \in 1 .. n - 1
        PROVE  left[i] = all[From(i)]
    <3>1. left[i] = IF i <= at - 1 THEN low[i] ELSE high[i - (at - 1)]
      BY <1>5, <2>1, <2>3
    <3>2. CASE i < at
      BY <1>2, <1>5, <3>1, <3>2
    <3>3. CASE ~ (i < at)
      <4>1. i - (at - 1) \in 1 .. n - at /\ at + (i - (at - 1)) = i + 1
        BY <1>2, <3>3
      <4>2. QED
        BY <1>2, <1>6, <3>1, <3>3, <4>1
    <3>4. QED
      BY <3>2, <3>3
  <2>5. QED
    BY <2>1, <2>2, <2>3, <2>4
<1> HIDE DEF left
<1>8. QED
  BY <1>2, <1>3, <1>7 DEF all, at, n

(***************************************************************************)
(* Erasing keeps the bank a bank, in the order it had.                     *)
(***************************************************************************)
LEMMA ErasedKeeps ==
    ASSUME NEW games, NEW records, NEW bank \in BankOf(games, records),
           NEW id, Has(bank, id)
    PROVE  /\ Erased(bank, id) \in BankOf(games, records)
           /\ Ordered(bank) => Ordered(Erased(bank, id))
<1> DEFINE all  == bank.entries
           at   == Position(bank, id)
           n    == Len(all)
           left == Erased(bank, id).entries
           From(i) == IF i < at THEN i ELSE i + 1
<1>1. /\ n \in Nat /\ at \in 1 .. n
      /\ DOMAIN all = 1 .. n /\ DOMAIN left = 1 .. n - 1
      /\ left \in Seq(Entry(games, records))
      /\ \A i \in 1 .. n - 1 : left[i] = all[From(i)]
  BY ErasedEntries
<1>2. /\ Erased(bank, id) = [bank EXCEPT !.entries = left]
      /\ bank = [entries |-> all, nextId |-> bank.nextId, nextArrival |-> bank.nextArrival]
      /\ bank.nextId \in Nat /\ bank.nextArrival \in Nat
  BY DEF Erased, BankOf
<1> HIDE DEF all, at, n, left
<1>3. Erased(bank, id) = [entries |-> left, nextId |-> bank.nextId, nextArrival |-> bank.nextArrival]
  BY <1>2
<1>4. Erased(bank, id) \in BankOf(games, records)
  BY <1>1, <1>2, <1>3 DEF BankOf, Entry
<1>5. /\ \A i \in 1 .. n - 1 : From(i) \in 1 .. n
      /\ \A i, j \in 1 .. n - 1 : i < j => From(i) < From(j)
  BY <1>1
<1> HIDE DEF From
<1>6. ASSUME Ordered(bank)
      PROVE  Ordered(Erased(bank, id))
  <2>1. /\ \A i, j \in 1 .. n : i < j => all[i].id < all[j].id /\ all[i].arrival < all[j].arrival
        /\ \A i \in 1 .. n : all[i].id < bank.nextId /\ all[i].arrival < bank.nextArrival
    BY <1>1, <1>6 DEF Ordered, all
  <2>2. \A i, j \in 1 .. n - 1 : i < j =>
            left[i].id < left[j].id /\ left[i].arrival < left[j].arrival
    BY <1>1, <1>5, <2>1
  <2>3. \A i \in 1 .. n - 1 :
            left[i].id < bank.nextId /\ left[i].arrival < bank.nextArrival
    BY <1>1, <1>5, <2>1
  <2>4. QED
    BY <1>1, <1>3, <2>2, <2>3 DEF Ordered
<1>7. QED
  BY <1>4, <1>6

(***************************************************************************)
(* A bank read back from its file: the same entries, sorted, and counters  *)
(* above all of them.                                                      *)
(***************************************************************************)
LEMMA AboveAll ==
    ASSUME NEW bound \in Nat, NEW S \in SUBSET (0 .. bound)
    PROVE  /\ Above(S) \in Nat
           /\ \A x \in S : x < Above(S)
<1> DEFINE T == {1} \cup {x + 1 : x \in S}
<1>1. /\ T \in SUBSET (0 .. bound + 1) /\ T # {} /\ bound + 1 \in Nat
      /\ \A x \in S : x \in Int /\ x + 1 \in T
  OBVIOUS
<1>2. Above(S) = Max(T)
  BY DEF Above
<1> HIDE DEF T
<1>3. Max(T) \in T /\ \A x \in T : x =< Max(T)
  BY <1>1, MaxOfNaturals
<1>4. Max(T) \in Nat
  <2>1. Max(T) \in 0 .. bound + 1
    BY <1>1, <1>3
  <2>2. QED
    BY <1>1, <2>1
<1>5. ASSUME NEW x \in S
      PROVE  x < Max(T)
  <2>1. x \in Int /\ x + 1 =< Max(T)
    BY <1>1, <1>3
  <2>2. QED
    BY <1>4, <2>1
<1>6. QED
  BY <1>2, <1>4, <1>5

(***************************************************************************)
(* decode(encode()) puts the entries in an order that sorts them by        *)
(* arrival; none is lost or doubled.                                       *)
(***************************************************************************)
LEMMA ReloadedEntries ==
    ASSUME NEW games, NEW records, NEW bank \in BankOf(games, records), Ordered(bank)
    PROVE  LET all == bank.entries
               n   == Len(all)
               new == Reloaded(bank).entries
           IN  /\ n \in Nat /\ DOMAIN all = 1 .. n /\ DOMAIN new = 1 .. n
               /\ \A i \in 1 .. n : all[i] \in Entry(games, records)
               /\ new \in Seq(Entry(games, records))
               /\ \E p \in Bijection(1 .. n, 1 .. n) :
                      /\ \A i \in 1 .. n : new[i] = all[p[i]]
                      /\ \A i, j \in 1 .. n : i < j => p[i] < p[j]
<1> DEFINE all      == bank.entries
           n        == Len(all)
           Before(i, j) == \/ all[i].arrival < all[j].arrival
                           \/ all[i].arrival = all[j].arrival /\ i < j
           Sorts(p) == \A i, j \in DOMAIN all : i < j => Before(p[i], p[j])
           order    == CHOOSE p \in Bijection(DOMAIN all, DOMAIN all) : Sorts(p)
           new      == Reloaded(bank).entries
<1>1. all \in Seq(Entry(games, records))
  BY DEF BankOf, Entry
<1>2. /\ n \in Nat /\ DOMAIN all = 1 .. n
      /\ \A i \in 1 .. n : all[i] \in Entry(games, records)
  BY <1>1, LenProperties, ElementOfSeq
<1>3. new = [i \in DOMAIN all |-> all[order[i]]]
  BY DEF Reloaded, SortedByArrival
<1>4. \A i \in 1 .. n :
          /\ all[i].arrival \in Nat
          /\ \A j \in 1 .. n : i < j => all[i].arrival < all[j].arrival
  BY <1>2 DEF Ordered, Entry
<1> HIDE DEF all, n, new
<1>5. order \in Bijection(DOMAIN all, DOMAIN all) /\ Sorts(order)
  <2> DEFINE same == [i \in DOMAIN all |-> i]
  <2>1. same \in Bijection(DOMAIN all, DOMAIN all)
    BY DEF Bijection, Injection, Surjection, IsInjective
  <2>2. \A i, j \in DOMAIN all : i < j => Before(i, j)
    BY <1>2, <1>4
  <2>3. Sorts(same)
    BY <2>2
  <2> HIDE DEF same, Sorts
  <2>4. QED
    BY <2>1, <2>3
<1>6. /\ order \in Bijection(1 .. n, 1 .. n)
      /\ order \in [1 .. n -> 1 .. n]
      /\ \A i, j \in 1 .. n : i < j => Before(order[i], order[j])
  BY <1>2, <1>5 DEF Bijection, Injection
<1> HIDE DEF order
<1>7. \A i, j \in 1 .. n : i < j => order[i] < order[j]
  <2>1. \A i, j \in 1 .. n : Before(i, j) => i < j
    BY <1>4
  <2>2. QED
    BY <1>6, <2>1
<1>8. DOMAIN new = 1 .. n /\ \A i \in 1 .. n : new[i] = all[order[i]]
  BY <1>2, <1>3
<1>9. new \in Seq(Entry(games, records))
  <2>1. new \in [1 .. n -> Entry(games, records)]
    BY <1>2, <1>3, <1>6
  <2>2. QED
    BY <1>2, <2>1
<1>10. QED
  BY <1>2, <1>6, <1>7, <1>8, <1>9 DEF all, n, new

LEMMA ReloadedKeeps ==
    ASSUME NEW games, NEW records, NEW bank \in BankOf(games, records), Ordered(bank)
    PROVE  /\ Reloaded(bank) \in BankOf(games, records)
           /\ Ordered(Reloaded(bank))
<1> DEFINE all    == bank.entries
           n      == Len(all)
           new    == Reloaded(bank)
           sorted == new.entries
<1>1. /\ n \in Nat /\ DOMAIN all = 1 .. n /\ DOMAIN sorted = 1 .. n
      /\ \A i \in 1 .. n : all[i] \in Entry(games, records)
      /\ sorted \in Seq(Entry(games, records))
      /\ bank.nextId \in Nat /\ bank.nextArrival \in Nat
  BY ReloadedEntries DEF BankOf
<1>2. PICK order \in Bijection(1 .. n, 1 .. n) :
          /\ \A i \in 1 .. n : sorted[i] = all[order[i]]
          /\ \A i, j \in 1 .. n : i < j => order[i] < order[j]
  BY ReloadedEntries
<1>3. /\ new.nextId = Above({all[i].id : i \in DOMAIN all})
      /\ new.nextArrival = Above({all[i].arrival : i \in DOMAIN all})
      /\ new = [entries |-> sorted, nextId |-> new.nextId, nextArrival |-> new.nextArrival]
  BY DEF Reloaded
<1>4. \A i \in 1 .. n :
          /\ all[i].id \in Nat /\ all[i].arrival \in Nat
          /\ all[i].id < bank.nextId /\ all[i].arrival < bank.nextArrival
          /\ \A j \in 1 .. n : i < j => all[i].id < all[j].id /\ all[i].arrival < all[j].arrival
  BY <1>1 DEF Ordered, Entry
<1> HIDE DEF all, n, new, sorted
<1>5. \A i \in 1 .. n : order[i] \in 1 .. n
  BY <1>2 DEF Bijection, Injection
<1>6. \A i, j \in 1 .. n : i < j => order[i] < order[j]
  BY <1>2
<1>7. \A i \in 1 .. n : sorted[i] = all[order[i]]
  BY <1>2
<1>8. /\ new.nextId \in Nat
      /\ \A i \in 1 .. n : all[i].id < new.nextId
  <2> DEFINE ids == {all[i].id : i \in DOMAIN all}
  <2>1. /\ ids \in SUBSET (0 .. bank.nextId)
        /\ \A i \in 1 .. n : all[i].id \in ids
    <3>1. \A i \in 1 .. n : all[i].id \in 0 .. bank.nextId
      BY <1>1, <1>4
    <3>2. QED
      BY <1>1, <3>1
  <2>2. new.nextId = Above(ids)
    BY <1>3
  <2> HIDE DEF ids
  <2>3. QED
    BY <1>1, <2>1, <2>2, AboveAll
<1>9. /\ new.nextArrival \in Nat
      /\ \A i \in 1 .. n : all[i].arrival < new.nextArrival
  <2> DEFINE arrivals == {all[i].arrival : i \in DOMAIN all}
  <2>1. /\ arrivals \in SUBSET (0 .. bank.nextArrival)
        /\ \A i \in 1 .. n : all[i].arrival \in arrivals
    <3>1. \A i \in 1 .. n : all[i].arrival \in 0 .. bank.nextArrival
      BY <1>1, <1>4
    <3>2. QED
      BY <1>1, <3>1
  <2>2. new.nextArrival = Above(arrivals)
    BY <1>3
  <2> HIDE DEF arrivals
  <2>3. QED
    BY <1>1, <2>1, <2>2, AboveAll
<1>10. new \in BankOf(games, records)
  BY <1>1, <1>3, <1>8, <1>9 DEF BankOf, Entry
<1>11. Ordered(new)
  <2>1. \A i, j \in 1 .. n : i < j =>
            sorted[i].id < sorted[j].id /\ sorted[i].arrival < sorted[j].arrival
    BY <1>4, <1>5, <1>6, <1>7
  <2>2. \A i \in 1 .. n : sorted[i].id < new.nextId /\ sorted[i].arrival < new.nextArrival
    BY <1>5, <1>7, <1>8, <1>9
  <2>3. QED
    BY <1>1, <2>1, <2>2 DEF Ordered, sorted
<1>12. QED
  BY <1>10, <1>11 DEF new
===============================================================================
