------------------------------- MODULE Session -------------------------------
(***************************************************************************)
(* A transfer session (src/common/source/yokai/Session.cpp): working copies *)
(* of a save and of the bank, the originals they were loaded from, and the *)
(* operations that move and copy Yo-kai between the two.  The session is   *)
(* created by SaveContext::load from what the files hold and its originals *)
(* are replaced when the platform layer reports a commit; the files        *)
(* themselves are in module Commit.                                        *)
(*                                                                         *)
(* The caller names a Yo-kai of the save by a record it read before (a row *)
(* of a screen), just now or when the session was opened, and a Yo-kai of  *)
(* the bank by its id.  A call that throws before it changed anything is a *)
(* step that does not happen.                                              *)
(***************************************************************************)
EXTENDS SaveImage, YokaiBank

CONSTANTS
    Games,          \* the supported games
    Game,           \* the game of the save
    Transferable,   \* the Yo-kai whose species every game has
    InitialSaves,   \* the saves a session may be opened on
    InitialBanks,   \* the banks it may find
    MaxEntries,     \* bound: a full bank takes no more entries
    MaxId           \* bound: bank ids handed out

VARIABLES
    save, bank,             \* mSave, mBank
    originalSave,           \* mOriginalSave
    originalBank,           \* mOriginalBank
    dirty,                  \* mDirty
    wrapped                 \* history: a new number has wrapped to zero

vars == <<save, bank, originalSave, originalBank, dirty, wrapped>>

Banks == BankOf(Games, Record)

ASSUME SessionAssumption ==
    /\ Game \in Games
    /\ Transferable \subseteq Bodies
    /\ \A image \in InitialSaves : image \in Image /\ Consistent(image)
    /\ \A b \in InitialBanks :
           /\ b \in Banks /\ Ordered(b)
           /\ \A i \in DOMAIN b.entries : b.entries[i].record.number # Blank
    /\ MaxEntries \in Nat /\ MaxId \in Nat

-----------------------------------------------------------------------------
(* Transfer.cpp: a record of another game is rebuilt under a blank number,  *)
(* and only if the species exists there.                                    *)

Compatible(target, entry) ==
    target = entry.game \/ entry.record.body \in Transferable

ConvertRecord(entry, target) ==
    IF entry.game = target THEN entry.record
    ELSE [body |-> entry.record.body, number |-> Blank]

\* Variant: the save is not asked whether it uses the number.
RenumbersForeignOnly(entry) == entry.game # Game

Renumbers(entry) ==
    \/ entry.game # Game
    \/ ContainsIdentifier(save, ConvertRecord(entry, Game).number)

-----------------------------------------------------------------------------

Init ==
    /\ originalSave \in InitialSaves
    /\ originalBank \in InitialBanks
    /\ save = originalSave
    /\ bank = originalBank
    /\ dirty = FALSE
    /\ wrapped = FALSE

\* The records a caller can name a slot by: as records() gives them now, or
\* as it gave them for the image the session started from.
Rows(slot) == {save.slots[slot], originalSave.slots[slot]} \ {NoRecord}

\* What deposit(record) takes out of the save: not a party member, and still
\* the very record the caller holds.
MayDeposit(slot, record) ==
    /\ ~ IsPartySlot(save, slot)
    /\ CanRemove(save, slot, record)

\* deposit(record)
Deposit(slot, record) ==
    /\ MayDeposit(slot, record)
    /\ Len(bank.entries) < MaxEntries /\ bank.nextId < MaxId
    /\ save' = Removed(save, slot)
    /\ bank' = Appended(bank, Game, record)
    /\ dirty' = TRUE
    /\ UNCHANGED <<originalSave, originalBank, wrapped>>

\* Variant: the catch block only rethrows.
DepositFailsWithoutRollBack(slot, record) ==
    /\ MayDeposit(slot, record)
    /\ bank.nextId < MaxId
    /\ save' = Removed(save, slot)
    /\ bank' = AppendFailed(bank)
    /\ UNCHANGED <<originalSave, originalBank, dirty, wrapped>>

\* deposit(record) when the bank cannot store the entry: the record goes back
\* into the save by an ordinary insertion, under its old number.
DepositFails(slot, record) ==
    /\ MayDeposit(slot, record)
    /\ bank.nextId < MaxId
    /\ LET taken == Removed(save, slot)
       IN  save' = IF CanInsert(taken) THEN Inserted(taken, record, FALSE)
                   ELSE taken
    /\ bank' = AppendFailed(bank)
    /\ UNCHANGED <<originalSave, originalBank, dirty, wrapped>>

\* copyToBank(record): no guard at all, whatever the record's age
CopyToBank(record) ==
    /\ Len(bank.entries) < MaxEntries /\ bank.nextId < MaxId
    /\ bank' = Appended(bank, Game, record)
    /\ dirty' = TRUE
    /\ UNCHANGED <<save, originalSave, originalBank, wrapped>>

\* copyToBank(record) when the bank cannot store the entry
CopyToBankFails ==
    /\ bank.nextId < MaxId
    /\ bank' = AppendFailed(bank)
    /\ UNCHANGED <<save, originalSave, originalBank, dirty, wrapped>>

\* The part of withdraw() and copyToSave() that puts the entry in the save.
Receive(entry, renumber) ==
    /\ Compatible(Game, entry)
    /\ CanInsert(save)
    /\ save' = Inserted(save, ConvertRecord(entry, Game), renumber)
    /\ wrapped' = (wrapped \/ (renumber /\ NumberWraps(save)))

\* withdraw(id): a native record keeps its number unless the save uses it
Withdraw(id) ==
    /\ Has(bank, id)
    /\ Receive(Find(bank, id), Renumbers(Find(bank, id)))
    /\ bank' = Erased(bank, id)
    /\ dirty' = TRUE
    /\ UNCHANGED <<originalSave, originalBank>>

\* Variant: the change is not noted.
CopyToSaveUnnoted(id) ==
    /\ Has(bank, id)
    /\ Receive(Find(bank, id), TRUE)
    /\ UNCHANGED <<bank, originalSave, originalBank, dirty>>

\* copyToSave(id): always a new number
CopyToSave(id) ==
    /\ Has(bank, id)
    /\ Receive(Find(bank, id), TRUE)
    /\ dirty' = TRUE
    /\ UNCHANGED <<bank, originalSave, originalBank>>

Discard ==
    /\ save' = originalSave
    /\ bank' = originalBank
    /\ dirty' = FALSE
    /\ UNCHANGED <<originalSave, originalBank, wrapped>>

\* acceptCommitted(): commit() of the screen runs only on a dirty session
AcceptCommitted ==
    /\ dirty
    /\ originalSave' = save
    /\ originalBank' = bank
    /\ dirty' = FALSE
    /\ UNCHANGED <<save, bank, wrapped>>

\* SaveContext::load: a new session over what was last committed
Load ==
    /\ save' = originalSave
    /\ bank' = Reloaded(originalBank)
    /\ originalBank' = Reloaded(originalBank)
    /\ dirty' = FALSE
    /\ UNCHANGED <<originalSave, wrapped>>

Next ==
    \/ \E slot \in Slot : \E record \in Rows(slot) : Deposit(slot, record)
    \/ \E slot \in Slot : \E record \in Rows(slot) : DepositFails(slot, record)
    \/ \E slot \in Slot : \E record \in Rows(slot) : CopyToBank(record)
    \/ CopyToBankFails
    \/ \E id \in Ids(bank) : Withdraw(id)
    \/ \E id \in Ids(bank) : CopyToSave(id)
    \/ Discard
    \/ AcceptCommitted
    \/ Load

Spec == Init /\ [][Next]_vars
=============================================================================
