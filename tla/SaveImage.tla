------------------------------ MODULE SaveImage ------------------------------
(***************************************************************************)
(* The decrypted save of one game, as src/common/source/yokai/SaveImage.cpp *)
(* reads and rewrites it.  A save has a table of record slots and, apart   *)
(* from it, an ordered list of identifiers whose first entries are the     *)
(* active party.  The two must keep naming the same Yo-kai; every          *)
(* operation below updates both.                                           *)
(*                                                                         *)
(* A record is a Yo-kai (`body`: species, level, nickname, values, all the *)
(* bytes the operations copy without looking) and its identifier: the two  *)
(* 16-bit numbers at the start of the record.  A slot whose species id is  *)
(* zero is empty (NoRecord).  An operation that throws is split in two: a  *)
(* condition (CanRemove, CanInsert) and the image it leaves otherwise.     *)
(***************************************************************************)
EXTENDS Integers, FiniteSetsExt

CONSTANTS
    Bodies,       \* the individual Yo-kai
    NoRecord,     \* the content of an empty slot
    Slots,        \* number of record slots, and of index entries
    PartySize,    \* leading index entries that are the party: 6, or 4
    NumberSpace   \* values of an identifier's half: 2^16 in the program

ASSUME SaveImageAssumption ==
    /\ NoRecord \notin [body : Bodies, number : (0 .. NumberSpace - 1) \X (0 .. NumberSpace - 1)]
    /\ PartySize \in Nat
    /\ Slots \in Nat
    /\ PartySize < Slots
    /\ NumberSpace \in Nat \ {0, 1}

Slot     == 0 .. Slots - 1
Half     == 0 .. NumberSpace - 1
Number   == Half \X Half
Blank    == <<0, 0>>
Record   == [body : Bodies, number : Number]
Image    == [slots : [Slot -> Record \cup {NoRecord}], index : [Slot -> Number]]
Party    == 0 .. PartySize - 1

-----------------------------------------------------------------------------
(* Queries *)

Occupied(save) == {s \in Slot : save.slots[s] # NoRecord}
Free(save)     == Slot \ Occupied(save)

\* hasFreeSlot, and the first slot insert() would take
FirstFree(save) == Min(Free(save))

\* containsIdentifier: only occupied slots count
ContainsIdentifier(save, number) ==
    \E s \in Occupied(save) : save.slots[s].number = number

\* Variant: the identifier list read as a table parallel to the slots.
IsPartySlotParallel(save, slot) ==
    slot \in Occupied(save) \cap Party /\ save.index[slot] = save.slots[slot].number

IsPartySlot(save, slot) ==
    /\ slot \in Occupied(save)
    /\ \E p \in Party : save.index[p] = save.slots[slot].number

\* The slot a map from numbers to slots holds: the first one emplaced stays.
SlotsOfNumber(save, number) ==
    {s \in Occupied(save) : save.slots[s].number = number}

PartySlots(save) ==
    {Min(SlotsOfNumber(save, save.index[p])) :
        p \in {q \in Party : SlotsOfNumber(save, save.index[q]) # {}}}

\* The index entries that carry a number, in the order syncIndex meets them.
EntriesOf(save, number) == {i \in Slot : save.index[i] = number}

\* Variant: a blank party position taken for a free entry.
OpenEntriesAnywhere(save) == {i \in Slot : save.index[i] = Blank}

\* Where insert() lists a record: blank party positions are reserved.
OpenEntries(save) == {i \in Slot : i >= PartySize /\ save.index[i] = Blank}

-----------------------------------------------------------------------------
(* remove(): the record must still be the one that was read, and be listed; *)
(* its index entry closes up and the slot is cleared.                       *)

CanRemove(save, slot, expected) ==
    /\ slot \in Slot
    /\ save.slots[slot] = expected
    /\ EntriesOf(save, expected.number) # {}

\* Variant: the entries move up and the last one is not cleared.
DelistedKeepingLast(index, at) ==
    [i \in Slot |-> IF i >= at /\ i + 1 \in Slot THEN index[i + 1] ELSE index[i]]

Delisted(index, at) ==
    [i \in Slot |-> IF i < at THEN index[i]
                    ELSE IF i + 1 \in Slot THEN index[i + 1] ELSE Blank]

Removed(save, slot) ==
    [slots |-> [save.slots EXCEPT ![slot] = NoRecord],
     index |-> Delisted(save.index, Min(EntriesOf(save, save.slots[slot].number)))]

-----------------------------------------------------------------------------
(* insert(): the first empty slot, on request under a new number, listed in *)
(* the first blank reserve entry; when there is none the slot is cleared    *)
(* again, which leaves the image as it was.                                 *)

HighestHalf(save) == Max({save.slots[s].number[1] : s \in Occupied(save)})

\* Variant: the successor kept in a wider integer.
NewNumberWide(save) ==
    LET number == IF Occupied(save) = {} THEN 0 ELSE HighestHalf(save) + 1
    IN  <<number, number + 1>>

\* assignNumbers: 16-bit arithmetic, so the successor of the highest half wraps.
NewNumber(save) ==
    LET number == IF Occupied(save) = {} THEN 0
                  ELSE (HighestHalf(save) + 1) % NumberSpace
    IN  <<number, (number + 1) % NumberSpace>>

NumberWraps(save) ==
    Occupied(save) # {} /\ HighestHalf(save) + 1 = NumberSpace

CanInsert(save) == Free(save) # {} /\ OpenEntries(save) # {}

Inserted(save, record, renumber) ==
    LET number == IF renumber THEN NewNumber(save) ELSE record.number
    IN  [slots |-> [save.slots EXCEPT
                       ![FirstFree(save)] = [body |-> record.body, number |-> number]],
         index |-> [save.index EXCEPT ![Min(OpenEntries(save))] = number]]

-----------------------------------------------------------------------------
(* What makes an image usable by the game: the index lists every record     *)
(* once and nothing else.                                                   *)

Consistent(save) ==
    /\ \A s, t \in Occupied(save) :
           save.slots[s].number = save.slots[t].number => s = t
    /\ \A s \in Occupied(save) : save.slots[s].number # Blank
    /\ \A i, j \in Slot :
           save.index[i] = save.index[j] /\ save.index[i] # Blank => i = j
    /\ {save.index[i] : i \in Slot} \ {Blank}
           = {save.slots[s].number : s \in Occupied(save)}
=============================================================================
