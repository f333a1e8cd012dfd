---------------------------- MODULE SessionProofs ----------------------------
(***************************************************************************)
(* Proofs of the properties of SessionProperties, for every number of      *)
(* slots, party size, width of an identifier, bank and sequence of         *)
(* transfers.  The inductive invariant adds two facts to the safety        *)
(* properties: records and entries never have the blank number, and the    *)
(* party of the working save is the one of the original.                   *)
(*                                                                         *)
(* The second part counts: the session's slots and bank entries by Yo-kai. *)
(* Each operation of SaveImage and YokaiBank changes one count by one, and *)
(* a sequence of operations that fails changes none, so a session          *)
(* implements Collection and one that is not dirty has nothing to lose.    *)
(***************************************************************************)
EXTENDS SessionProperties, StoreProofs, FiniteSetTheorems

NumberedBanks == BankOf(Games, Numbered)

NumberedTypes ==
    /\ NumberedImage(save) /\ NumberedImage(originalSave)
    /\ bank \in NumberedBanks /\ originalBank \in NumberedBanks
    /\ dirty \in BOOLEAN /\ wrapped \in BOOLEAN

PartyOfOriginal ==
    /\ \A p \in Party : save.index[p] = originalSave.index[p]
    /\ ~ wrapped => \A s \in Slot :
           IsPartySlot(save, s) \/ IsPartySlot(originalSave, s) =>
               save.slots[s] = originalSave.slots[s]

IInv ==
    /\ NumberedTypes
    /\ SaveStaysConsistent
    /\ BankStaysOrdered
    /\ PartyOfOriginal

(***************************************************************************)
(* A bank of numbered records is a bank.                                   *)
(***************************************************************************)
LEMMA NumberedBankIsBank ==
    ASSUME NEW b \in NumberedBanks
    PROVE  b \in Banks
<1>1. /\ b.entries \in Seq(Entry(Games, Numbered))
      /\ b = [entries |-> b.entries, nextId |-> b.nextId, nextArrival |-> b.nextArrival]
      /\ b.nextId \in Nat /\ b.nextArrival \in Nat
  BY DEF NumberedBanks, BankOf, Entry
<1>2. Entry(Games, Numbered) \subseteq Entry(Games, Record)
  BY DEF Entry, Numbered
<1>3. b.entries \in Seq(Entry(Games, Record))
  BY <1>1, <1>2
<1>4. QED
  BY <1>1, <1>3 DEF Banks, BankOf, Entry

LEMMA TypesOfInvariant ==
    ASSUME NumberedTypes
    PROVE  TypeOK
BY NumberedBankIsBank DEF NumberedTypes, NumberedImage, TypeOK

(***************************************************************************)
(* A caller only holds numbered records.                                   *)
(***************************************************************************)
LEMMA RowsAreRecords ==
    ASSUME NumberedTypes, NEW slot \in Slot, NEW record \in Rows(slot)
    PROVE  record \in Numbered /\ record \in Record
BY DEF NumberedTypes, NumberedImage, Rows, Numbered

(***************************************************************************)
(* The party invariant, from what an operation does to the save.           *)
(***************************************************************************)
LEMMA PartyStep ==
    ASSUME PartyOfOriginal, PartyKept(save, save'),
           ~ wrapped' => ~ wrapped /\ NoNewMembers(save, save'),
           originalSave' = originalSave
    PROVE  PartyOfOriginal'
<1>1. \A p \in Party : save'.index[p] = originalSave'.index[p]
  BY DEF PartyOfOriginal, PartyKept
<1>2. ASSUME ~ wrapped', NEW s \in Slot, IsPartySlot(save', s)
      PROVE  save'.slots[s] = originalSave'.slots[s]
  <2>1. IsPartySlot(save, s)
    BY <1>2 DEF NoNewMembers
  <2>2. QED
    BY <1>2, <2>1 DEF PartyOfOriginal, PartyKept
<1>3. ASSUME ~ wrapped', NEW s \in Slot, IsPartySlot(originalSave, s)
      PROVE  save'.slots[s] = originalSave'.slots[s]
  <2>1. save.slots[s] = originalSave.slots[s]
    BY <1>3 DEF PartyOfOriginal
  <2>2. IsPartySlot(save, s)
    BY <1>3, <2>1 DEF PartyOfOriginal, IsPartySlot, Occupied
  <2>3. QED
    BY <2>1, <2>2 DEF PartyKept
<1>4. QED
  BY <1>1, <1>2, <1>3 DEF PartyOfOriginal

(***************************************************************************)
(* The effect of one step on the invariant when the originals stay: the    *)
(* operations' lemmas establish its hypotheses.                            *)
(***************************************************************************)
LEMMA WorkingCopiesStep ==
    ASSUME IInv,
           NumberedImage(save'), bank' \in NumberedBanks, Ordered(bank'),
           dirty' \in BOOLEAN, wrapped' \in BOOLEAN,
           ~ wrapped' => /\ ~ wrapped
                         /\ Consistent(save) => Consistent(save')
                         /\ NoNewMembers(save, save'),
           PartyKept(save, save'),
           originalSave' = originalSave, originalBank' = originalBank
    PROVE  IInv'
<1>1. NumberedTypes'
  BY DEF IInv, NumberedTypes, NumberedBanks, NumberedImage
<1>2. SaveStaysConsistent'
  BY DEF IInv, SaveStaysConsistent
<1>3. BankStaysOrdered'
  BY DEF IInv, BankStaysOrdered
<1>4. PartyOfOriginal'
  BY PartyStep DEF IInv
<1>5. QED
  BY <1>1, <1>2, <1>3, <1>4 DEF IInv

LEMMA UntouchedSave ==
    ASSUME save' = save
    PROVE  PartyKept(save, save') /\ NoNewMembers(save, save')
BY DEF PartyKept, NoNewMembers

-----------------------------------------------------------------------------
(* One lemma per operation *)

LEMMA DepositStep ==
    ASSUME IInv, NEW slot \in Slot, NEW record \in Rows(slot), Deposit(slot, record)
    PROVE  IInv' /\ PartyKept(save, save')
<1>1. /\ record \in Numbered /\ record \in Record
      /\ NumberedImage(save) /\ save \in Image
      /\ CanRemove(save, slot, record) /\ ~ IsPartySlot(save, slot)
      /\ bank \in BankOf(Games, Numbered) /\ Ordered(bank) /\ Game \in Games
  BY RowsAreRecords, SessionAssumption
     DEF IInv, NumberedTypes, NumberedImage, NumberedBanks, BankStaysOrdered, Deposit, MayDeposit
<1>2. NumberedImage(save') /\ PartyKept(save, save') /\ NoNewMembers(save, save')
  BY <1>1, RemovedNumbered, RemovedParty DEF Deposit
<1>3. Consistent(save) => Consistent(save')
  BY <1>1, RemovedConsistent DEF Deposit
<1>4. bank' \in NumberedBanks /\ Ordered(bank')
  BY <1>1, AppendedKeeps DEF Deposit, NumberedBanks
<1>5. /\ dirty' \in BOOLEAN /\ wrapped' = wrapped /\ wrapped \in BOOLEAN
      /\ originalSave' = originalSave /\ originalBank' = originalBank
  BY DEF Deposit, IInv, NumberedTypes
<1>6. QED
  BY <1>2, <1>3, <1>4, <1>5, WorkingCopiesStep

(***************************************************************************)
(* The roll back of a failed deposit: by RoomAfterRemoval its insertion    *)
(* never throws, and the number is nobody else's.                          *)
(***************************************************************************)
LEMMA DepositFailsStep ==
    ASSUME IInv, NEW slot \in Slot, NEW record \in Rows(slot), DepositFails(slot, record)
    PROVE  IInv' /\ PartyKept(save, save')
<1> DEFINE taken == Removed(save, slot)
<1>1. /\ record \in Numbered /\ record \in Record
      /\ NumberedImage(save) /\ save \in Image
      /\ CanRemove(save, slot, record) /\ ~ IsPartySlot(save, slot)
      /\ bank \in BankOf(Games, Numbered) /\ Ordered(bank)
  BY RowsAreRecords
     DEF IInv, NumberedTypes, NumberedImage, NumberedBanks, BankStaysOrdered, DepositFails, MayDeposit
<1>2. NumberedImage(taken) /\ PartyKept(save, taken) /\ NoNewMembers(save, taken)
  BY <1>1, RemovedNumbered, RemovedParty
<1>3. /\ CanInsert(taken)
      /\ Consistent(save) => /\ Consistent(taken)
                             /\ record.number # Blank
                             /\ ~ ContainsIdentifier(taken, record.number)
  BY <1>1, RemovedConsistent, RoomAfterRemoval
<1>4. save' = Inserted(taken, record, FALSE)
  BY <1>3 DEF DepositFails
<1> HIDE DEF taken
<1>5. taken \in Image /\ record.number # Blank
  BY <1>1, <1>2 DEF NumberedImage, Numbered
<1>6. NumberedImage(save')
  BY <1>1, <1>2, <1>3, <1>4, <1>5, InsertedNumbered
<1>7. PartyKept(taken, save') /\ (Consistent(save) => NoNewMembers(taken, save'))
  BY <1>1, <1>3, <1>4, <1>5, InsertedParty
<1>8. Consistent(save) => Consistent(save')
  BY <1>1, <1>3, <1>4, <1>5, InsertedConsistent
<1>9. PartyKept(save, save')
  BY <1>2, <1>7 DEF PartyKept, IsPartySlot, Occupied
<1>10. Consistent(save) => NoNewMembers(save, save')
  BY <1>2, <1>7 DEF NoNewMembers
<1>11. bank' \in NumberedBanks /\ Ordered(bank')
  BY <1>1, AppendFailedKeeps DEF DepositFails, NumberedBanks
<1>12. /\ dirty' \in BOOLEAN /\ wrapped' = wrapped /\ wrapped \in BOOLEAN
       /\ originalSave' = originalSave /\ originalBank' = originalBank
       /\ ~ wrapped => Consistent(save)
  BY DEF DepositFails, IInv, NumberedTypes, SaveStaysConsistent
<1>13. QED
  BY <1>6, <1>8, <1>9, <1>10, <1>11, <1>12, WorkingCopiesStep

LEMMA CopyToBankStep ==
    ASSUME IInv, NEW slot \in Slot, NEW record \in Rows(slot), CopyToBank(record)
    PROVE  IInv' /\ PartyKept(save, save')
<1>1. /\ record \in Numbered
      /\ bank \in BankOf(Games, Numbered) /\ Ordered(bank) /\ Game \in Games
  BY RowsAreRecords, SessionAssumption DEF IInv, NumberedTypes, NumberedBanks, BankStaysOrdered
<1>2. bank' \in NumberedBanks /\ Ordered(bank')
  BY <1>1, AppendedKeeps DEF CopyToBank, NumberedBanks
<1>3. /\ dirty' \in BOOLEAN /\ wrapped' = wrapped /\ save' = save
      /\ originalSave' = originalSave /\ originalBank' = originalBank
      /\ NumberedImage(save) /\ wrapped \in BOOLEAN
  BY DEF CopyToBank, IInv, NumberedTypes
<1>4. NumberedImage(save') /\ (Consistent(save) => Consistent(save'))
  BY <1>3
<1>5. QED
  BY <1>2, <1>3, <1>4, UntouchedSave, WorkingCopiesStep

LEMMA CopyToBankFailsStep ==
    ASSUME IInv, CopyToBankFails
    PROVE  IInv' /\ PartyKept(save, save')
<1>1. bank \in BankOf(Games, Numbered) /\ Ordered(bank)
  BY DEF IInv, NumberedTypes, NumberedBanks, BankStaysOrdered
<1>2. bank' \in NumberedBanks /\ Ordered(bank')
  BY <1>1, AppendFailedKeeps DEF CopyToBankFails, NumberedBanks
<1>3. /\ dirty' \in BOOLEAN /\ wrapped' = wrapped /\ save' = save
      /\ originalSave' = originalSave /\ originalBank' = originalBank
      /\ NumberedImage(save) /\ wrapped \in BOOLEAN
  BY DEF CopyToBankFails, IInv, NumberedTypes
<1>4. NumberedImage(save') /\ (Consistent(save) => Consistent(save'))
  BY <1>3
<1>5. QED
  BY <1>2, <1>3, <1>4, UntouchedSave, WorkingCopiesStep

(***************************************************************************)
(* A record that comes in has a number, under which nobody is in the save  *)
(* unless the number has wrapped.                                          *)
(***************************************************************************)
LEMMA ReceiveStep ==
    ASSUME IInv, NEW id, Has(bank, id),
           NEW renumber \in BOOLEAN, renumber \/ ~ Renumbers(Find(bank, id)),
           Receive(Find(bank, id), renumber)
    PROVE  /\ NumberedImage(save') /\ PartyKept(save, save')
           /\ wrapped' \in BOOLEAN
           /\ ~ wrapped' => /\ ~ wrapped
                            /\ Consistent(save) => Consistent(save')
                            /\ NoNewMembers(save, save')
<1> DEFINE entry  == Find(bank, id)
           record == ConvertRecord(entry, Game)
           number == IF renumber THEN NewNumber(save) ELSE record.number
<1>1. entry \in Entry(Games, Numbered)
  BY FoundEntry DEF IInv, NumberedTypes, NumberedBanks
<1>2. entry.record \in Record /\ entry.record.number # Blank
  BY <1>1 DEF Entry, Numbered
<1>3. Blank \in Number
  BY SaveImageAssumption DEF Blank, Number, Half
<1>4. record \in Record
  BY <1>2, <1>3 DEF ConvertRecord, Record
<1>5. ~ renumber => /\ record.number # Blank
                    /\ ~ ContainsIdentifier(save, record.number)
  BY <1>2 DEF Renumbers, ConvertRecord
<1>6. /\ NumberedImage(save) /\ save \in Image /\ wrapped \in BOOLEAN
      /\ ~ wrapped => Consistent(save)
  BY DEF IInv, NumberedTypes, NumberedImage, SaveStaysConsistent
<1>7. /\ CanInsert(save)
      /\ save' = Inserted(save, record, renumber)
      /\ wrapped' = (wrapped \/ (renumber /\ NumberWraps(save)))
  BY DEF Receive
<1> HIDE DEF entry, record
<1>8. NumberedImage(save')
  BY <1>4, <1>5, <1>6, <1>7, InsertedNumbered
<1>9. wrapped' \in BOOLEAN
  BY <1>6, <1>7 DEF NumberWraps
<1>10. ASSUME ~ wrapped'
       PROVE  ~ wrapped /\ number # Blank /\ ~ ContainsIdentifier(save, number)
  <2>1. ~ wrapped /\ (renumber => ~ NumberWraps(save))
    BY <1>7, <1>10
  <2>2. CASE renumber
    BY <1>6, <2>1, <2>2, NewNumberFresh
  <2>3. CASE ~ renumber
    BY <1>5, <2>1, <2>3
  <2>4. QED
    BY <2>2, <2>3
<1>11. ASSUME ~ wrapped'
       PROVE  Consistent(save') /\ NoNewMembers(save, save')
  BY <1>4, <1>6, <1>7, <1>10, <1>11, InsertedConsistent, InsertedParty
<1>12. PartyKept(save, save')
  BY <1>4, <1>6, <1>7, InsertedParty
<1>13. QED
  BY <1>8, <1>9, <1>10, <1>11, <1>12

LEMMA WithdrawStep ==
    ASSUME IInv, NEW id \in Ids(bank), Withdraw(id)
    PROVE  IInv' /\ PartyKept(save, save')
<1> DEFINE renumber == Renumbers(Find(bank, id))
<1>1. renumber \in BOOLEAN /\ (renumber \/ ~ Renumbers(Find(bank, id)))
  BY DEF Renumbers, ContainsIdentifier
<1>2. Has(bank, id) /\ Receive(Find(bank, id), renumber)
  BY DEF Withdraw
<1> HIDE DEF renumber
<1>3. /\ NumberedImage(save') /\ PartyKept(save, save')
      /\ wrapped' \in BOOLEAN
      /\ ~ wrapped' => /\ ~ wrapped
                       /\ Consistent(save) => Consistent(save')
                       /\ NoNewMembers(save, save')
  BY <1>1, <1>2, ReceiveStep
<1>4. bank \in BankOf(Games, Numbered) /\ Ordered(bank)
  BY DEF IInv, NumberedTypes, NumberedBanks, BankStaysOrdered
<1>5. bank' \in NumberedBanks /\ Ordered(bank')
  BY <1>2, <1>4, ErasedKeeps DEF Withdraw, NumberedBanks
<1>6. /\ dirty' \in BOOLEAN
      /\ originalSave' = originalSave /\ originalBank' = originalBank
  BY DEF Withdraw
<1>7. QED
  BY <1>3, <1>5, <1>6, WorkingCopiesStep

LEMMA CopyToSaveStep ==
    ASSUME IInv, NEW id \in Ids(bank), CopyToSave(id)
    PROVE  IInv' /\ PartyKept(save, save')
<1>1. Has(bank, id) /\ Receive(Find(bank, id), TRUE)
  BY DEF CopyToSave
<1>2. /\ NumberedImage(save') /\ PartyKept(save, save')
      /\ wrapped' \in BOOLEAN
      /\ ~ wrapped' => /\ ~ wrapped
                       /\ Consistent(save) => Consistent(save')
                       /\ NoNewMembers(save, save')
  BY <1>1, ReceiveStep
<1>3. /\ dirty' \in BOOLEAN /\ bank' = bank
      /\ originalSave' = originalSave /\ originalBank' = originalBank
      /\ bank \in NumberedBanks /\ Ordered(bank)
  BY DEF CopyToSave, IInv, NumberedTypes, BankStaysOrdered
<1>4. bank' \in NumberedBanks /\ Ordered(bank')
  BY <1>3
<1>5. QED
  BY <1>2, <1>3, <1>4, WorkingCopiesStep

(***************************************************************************)
(* The steps that make the save and its original the same image: discard,  *)
(* a reported commit, a new session.  The party of the original is that of *)
(* the save, so putting one in the place of the other leaves it alone.     *)
(***************************************************************************)
LEMMA SameImages ==
    ASSUME IInv, save' = originalSave', save' \in {save, originalSave},
           bank' \in NumberedBanks, Ordered(bank'),
           originalBank' \in NumberedBanks, Ordered(originalBank'),
           dirty' \in BOOLEAN, wrapped' = wrapped
    PROVE  IInv' /\ \/ PartyKept(save, save')
                    \/ wrapped /\ \A p \in Party : save'.index[p] = save.index[p]
<1>1. NumberedTypes'
  BY DEF IInv, NumberedTypes, NumberedBanks, NumberedImage
<1>2. SaveStaysConsistent'
  BY DEF IInv, SaveStaysConsistent
<1>3. BankStaysOrdered'
  BY DEF BankStaysOrdered
<1>4. PartyOfOriginal'
  BY DEF PartyOfOriginal
<1>5. CASE save' = save
  BY <1>1, <1>2, <1>3, <1>4, <1>5, UntouchedSave DEF IInv
<1>6. CASE save' = originalSave
  <2>1. \A p \in Party : save'.index[p] = save.index[p]
    BY <1>6 DEF IInv, PartyOfOriginal
  <2>2. ~ wrapped => \A s \in Slot : IsPartySlot(save, s) => save'.slots[s] = save.slots[s]
    BY <1>6 DEF IInv, PartyOfOriginal
  <2>3. PartyKept(save, save') \/ wrapped
    BY <2>1, <2>2 DEF PartyKept
  <2>4. QED
    BY <1>1, <1>2, <1>3, <1>4, <2>1, <2>3 DEF IInv
<1>7. QED
  BY <1>5, <1>6

LEMMA DiscardStep ==
    ASSUME IInv, Discard
    PROVE  IInv' /\ \/ PartyKept(save, save')
                    \/ wrapped /\ \A p \in Party : save'.index[p] = save.index[p]
<1>1. /\ save' = originalSave' /\ save' \in {save, originalSave}
      /\ bank' \in NumberedBanks /\ Ordered(bank')
      /\ originalBank' \in NumberedBanks /\ Ordered(originalBank')
      /\ dirty' \in BOOLEAN /\ wrapped' = wrapped
  BY DEF Discard, IInv, NumberedTypes, NumberedBanks, BankStaysOrdered
<1>2. QED
  BY <1>1, SameImages

LEMMA AcceptCommittedStep ==
    ASSUME IInv, AcceptCommitted
    PROVE  IInv' /\ \/ PartyKept(save, save')
                    \/ wrapped /\ \A p \in Party : save'.index[p] = save.index[p]
<1>1. /\ save' = originalSave' /\ save' \in {save, originalSave}
      /\ bank' \in NumberedBanks /\ Ordered(bank')
      /\ originalBank' \in NumberedBanks /\ Ordered(originalBank')
      /\ dirty' \in BOOLEAN /\ wrapped' = wrapped
  BY DEF AcceptCommitted, IInv, NumberedTypes, NumberedBanks, BankStaysOrdered
<1>2. QED
  BY <1>1, SameImages

LEMMA LoadStep ==
    ASSUME IInv, Load
    PROVE  IInv' /\ \/ PartyKept(save, save')
                    \/ wrapped /\ \A p \in Party : save'.index[p] = save.index[p]
<1>1. originalBank \in BankOf(Games, Numbered) /\ Ordered(originalBank)
  BY DEF IInv, NumberedTypes, NumberedBanks, BankStaysOrdered
<1>2. Reloaded(originalBank) \in NumberedBanks /\ Ordered(Reloaded(originalBank))
  BY <1>1, ReloadedKeeps DEF NumberedBanks
<1>3. /\ save' = originalSave' /\ save' \in {save, originalSave}
      /\ dirty' \in BOOLEAN /\ wrapped' = wrapped
      /\ bank' = Reloaded(originalBank) /\ originalBank' = Reloaded(originalBank)
  BY DEF Load
<1>4. /\ bank' \in NumberedBanks /\ Ordered(bank')
      /\ originalBank' \in NumberedBanks /\ Ordered(originalBank')
  BY <1>2, <1>3
<1>5. QED
  BY <1>3, <1>4, SameImages

-----------------------------------------------------------------------------
(* The invariant and the theorems *)

LEMMA InitEstablishes ==
    ASSUME Init
    PROVE  IInv
<1>1. /\ save = originalSave /\ bank = originalBank
      /\ originalSave \in InitialSaves /\ originalBank \in InitialBanks
      /\ dirty = FALSE /\ wrapped = FALSE
  BY DEF Init
<1>2. /\ originalSave \in Image /\ Consistent(originalSave)
      /\ originalBank \in Banks /\ Ordered(originalBank)
      /\ \A i \in DOMAIN originalBank.entries : originalBank.entries[i].record.number # Blank
  BY <1>1, SessionAssumption
<1>3. NumberedImage(originalSave)
  BY <1>2 DEF NumberedImage, Numbered, Consistent, Occupied, Image
<1>4. originalBank \in NumberedBanks
  <2>1. /\ originalBank.entries \in Seq(Entry(Games, Record))
        /\ originalBank = [entries |-> originalBank.entries, nextId |-> originalBank.nextId,
                           nextArrival |-> originalBank.nextArrival]
        /\ originalBank.nextId \in Nat /\ originalBank.nextArrival \in Nat
    BY <1>2 DEF Banks, BankOf, Entry
  <2>2. /\ Len(originalBank.entries) \in Nat
        /\ DOMAIN originalBank.entries = 1 .. Len(originalBank.entries)
        /\ originalBank.entries \in [1 .. Len(originalBank.entries) -> Entry(Games, Record)]
    BY <2>1, LenProperties
  <2>3. \A i \in 1 .. Len(originalBank.entries) :
            originalBank.entries[i] \in Entry(Games, Numbered)
    BY <1>2, <2>2 DEF Entry, Numbered
  <2>4. originalBank.entries \in Seq(Entry(Games, Numbered))
    BY <2>2, <2>3
  <2>5. QED
    BY <2>1, <2>4 DEF NumberedBanks, BankOf, Entry
<1>5. QED
  BY <1>1, <1>2, <1>3, <1>4
     DEF IInv, NumberedTypes, SaveStaysConsistent, BankStaysOrdered, PartyOfOriginal

LEMMA NextPreserves ==
    ASSUME IInv, [Next]_vars
    PROVE  /\ IInv'
           /\ \/ PartyKept(save, save')
              \/ wrapped /\ \A p \in Party : save'.index[p] = save.index[p]
<1>1. CASE \E slot \in Slot : \E record \in Rows(slot) : Deposit(slot, record)
  BY <1>1, DepositStep
<1>2. CASE \E slot \in Slot : \E record \in Rows(slot) : DepositFails(slot, record)
  BY <1>2, DepositFailsStep
<1>3. CASE \E slot \in Slot : \E record \in Rows(slot) : CopyToBank(record)
  BY <1>3, CopyToBankStep
<1>4. CASE CopyToBankFails
  BY <1>4, CopyToBankFailsStep
<1>5. CASE \E id \in Ids(bank) : Withdraw(id)
  BY <1>5, WithdrawStep
<1>6. CASE \E id \in Ids(bank) : CopyToSave(id)
  BY <1>6, CopyToSaveStep
<1>7. CASE Discard
  BY <1>7, DiscardStep
<1>8. CASE AcceptCommitted
  BY <1>8, AcceptCommittedStep
<1>9. CASE Load
  BY <1>9, LoadStep
<1>10. CASE UNCHANGED vars
  <2>1. IInv'
    BY <1>10 DEF vars, IInv, NumberedTypes, NumberedImage, NumberedBanks, SaveStaysConsistent,
                BankStaysOrdered, PartyOfOriginal
  <2>2. QED
    BY <1>10, <2>1, UntouchedSave DEF vars
<1>11. QED
  BY <1>1, <1>2, <1>3, <1>4, <1>5, <1>6, <1>7, <1>8, <1>9, <1>10 DEF Next

(***************************************************************************)
(* The inductive invariant holds in every reachable state.                 *)
(***************************************************************************)
THEOREM Invariance == Spec => []IInv
<1>1. Init => IInv
  BY InitEstablishes
<1>2. IInv /\ [Next]_vars => IInv'
  BY NextPreserves
<1>3. QED
  BY <1>1, <1>2, PTL DEF Spec

(***************************************************************************)
(* The variables of the session keep their types.                          *)
(***************************************************************************)
THEOREM TypeCorrect == Spec => []TypeOK
<1>1. IInv => TypeOK
  BY TypesOfInvariant DEF IInv
<1>2. QED
  BY <1>1, Invariance, PTL

(***************************************************************************)
(* After any sequence of transfers the identifier list names every record  *)
(* of the save once and nothing else, as long as no number has wrapped.    *)
(***************************************************************************)
THEOREM SaveConsistency == Spec => []SaveStaysConsistent
<1>1. IInv => SaveStaysConsistent
  BY DEF IInv
<1>2. QED
  BY <1>1, Invariance, PTL

(***************************************************************************)
(* Bank ids and arrivals never repeat, across appends, erasures and        *)
(* reloads that recompute the counters.                                    *)
(***************************************************************************)
THEOREM BankOrder == Spec => []BankStaysOrdered
<1>1. IInv => BankStaysOrdered
  BY DEF IInv
<1>2. QED
  BY <1>1, Invariance, PTL

(***************************************************************************)
(* The catch block of deposit() can always put the record back.            *)
(***************************************************************************)
THEOREM RollbackFits == Spec => []RollbackAlwaysFits
<1>1. IInv => RollbackAlwaysFits
  <2>1. SUFFICES ASSUME IInv, NEW slot \in Slot, NEW record \in Rows(slot),
                        MayDeposit(slot, record)
                 PROVE  CanInsert(Removed(save, slot))
    BY DEF RollbackAlwaysFits
  <2>2. save \in Image /\ record \in Record /\ CanRemove(save, slot, record)
    BY <2>1, RowsAreRecords DEF IInv, NumberedTypes, NumberedImage, MayDeposit
  <2>3. QED
    BY <2>2, RoomAfterRemoval
<1>2. QED
  BY <1>1, Invariance, PTL

(***************************************************************************)
(* The party shown is the party protected.                                 *)
(***************************************************************************)
LEMMA ShownPartyOfInvariant ==
    ASSUME IInv
    PROVE  ShownPartyIsGuarded
<1>1. SUFFICES ASSUME ~ wrapped
               PROVE  PartySlots(save) = {s \in Slot : IsPartySlot(save, s)}
  BY DEF ShownPartyIsGuarded
<1>2. Consistent(save)
  BY <1>1 DEF IInv, SaveStaysConsistent
<1>3. ASSUME NEW p \in Party, NEW s \in SlotsOfNumber(save, save.index[p])
      PROVE  Min(SlotsOfNumber(save, save.index[p])) = s
  <2>1. SlotsOfNumber(save, save.index[p]) = {s}
    BY <1>2, <1>3 DEF SlotsOfNumber, Consistent
  <2>2. SlotsOfNumber(save, save.index[p]) \in SUBSET Nat
    BY DEF SlotsOfNumber, Occupied, Slot
  <2>3. Min(SlotsOfNumber(save, save.index[p])) \in SlotsOfNumber(save, save.index[p])
    BY <1>3, <2>2, MinOfNaturals
  <2>4. QED
    BY <2>1, <2>3
<1>4. ASSUME NEW s \in PartySlots(save)
      PROVE  s \in Slot /\ IsPartySlot(save, s)
  <2>1. PICK p \in Party : /\ SlotsOfNumber(save, save.index[p]) # {}
                           /\ s = Min(SlotsOfNumber(save, save.index[p]))
    BY <1>4 DEF PartySlots
  <2>2. s \in SlotsOfNumber(save, save.index[p])
    BY <1>3, <2>1
  <2>3. QED
    BY <2>2 DEF SlotsOfNumber, IsPartySlot, Occupied
<1>5. ASSUME NEW s \in Slot, IsPartySlot(save, s)
      PROVE  s \in PartySlots(save)
  <2>1. PICK p \in Party : s \in SlotsOfNumber(save, save.index[p])
    BY <1>5 DEF IsPartySlot, SlotsOfNumber
  <2>2. QED
    BY <1>3, <2>1 DEF PartySlots
<1>6. QED
  BY <1>4, <1>5

(***************************************************************************)
(* partySlots() gives the slots isPartySlot() protects, until a number     *)
(* wraps.                                                                  *)
(***************************************************************************)
THEOREM ShownParty == Spec => []ShownPartyIsGuarded
<1>1. IInv => ShownPartyIsGuarded
  BY ShownPartyOfInvariant
<1>2. QED
  BY <1>1, Invariance, PTL

(***************************************************************************)
(* No step of a session touches the active party.                          *)
(***************************************************************************)
THEOREM PartySafety == Spec => PartyUntouched
<1>1. IInv /\ [Next]_vars =>
        [ /\ \A p \in Party : save'.index[p] = save.index[p]
          /\ ~ wrapped => \A s \in Slot :
                 IsPartySlot(save, s) => save'.slots[s] = save.slots[s] ]_vars
  BY NextPreserves DEF PartyKept
<1>2. QED
  BY <1>1, Invariance, PTL DEF Spec, PartyUntouched

-----------------------------------------------------------------------------
(* Counting: the records that a save and a bank hold of each Yo-kai *)

Holders(slots, b)  == {s \in Slot : slots[s] # NoRecord /\ slots[s].body = b}
Owners(entries, b) == {i \in DOMAIN entries : entries[i].record.body = b}

SlotTable == [Slot -> Record \cup {NoRecord}]
EntryList == Seq(Entry(Games, Record))

-----------------------------------------------------------------------------
(* Counting the records of a save *)

LEMMA HoldersFinite ==
    ASSUME NEW slots, NEW b
    PROVE  IsFiniteSet(Holders(slots, b)) /\ Cardinality(Holders(slots, b)) \in Nat
<1>1. IsFiniteSet(Slot)
  BY SaveImageAssumption, FS_Interval DEF Slot
<1>2. Holders(slots, b) \in SUBSET Slot
  BY DEF Holders
<1>3. QED
  BY <1>1, <1>2, FS_Subset, FS_CardinalityType

LEMMA SlotAmounts ==
    ASSUME NEW slots
    PROVE  /\ InSlots(slots) \in Promise!Amount
           /\ \A b \in Bodies : InSlots(slots)[b] = Cardinality(Holders(slots, b))
<1>1. InSlots(slots) = [b \in Bodies |-> Cardinality(Holders(slots, b))]
  BY DEF InSlots, Holders
<1>2. \A b \in Bodies : Cardinality(Holders(slots, b)) \in Nat
  BY HoldersFinite
<1>3. QED
  BY <1>1, <1>2 DEF Promise!Amount

(***************************************************************************)
(* Clearing a slot takes one away from its Yo-kai's count.                 *)
(***************************************************************************)
LEMMA ClearedSlot ==
    ASSUME NEW slots \in SlotTable, NEW slot \in Slot, slots[slot] # NoRecord
    PROVE  /\ slots[slot].body \in Bodies
           /\ InSlots(slots)[slots[slot].body] > 0
           /\ InSlots([slots EXCEPT ![slot] = NoRecord]) =
                  Promise!Less(InSlots(slots), slots[slot].body)
<1> DEFINE body == slots[slot].body
           new  == [slots EXCEPT ![slot] = NoRecord]
<1>1. body \in Bodies
  BY DEF SlotTable, Record
<1>2. /\ new[slot] = NoRecord
      /\ \A s \in Slot : s # slot => new[s] = slots[s]
  BY DEF SlotTable
<1>3. /\ slot \in Holders(slots, body)
      /\ Holders(new, body) = Holders(slots, body) \ {slot}
      /\ \A b \in Bodies : b # body => Holders(new, b) = Holders(slots, b)
  BY <1>2 DEF Holders
<1> HIDE DEF body, new
<1>4. /\ Cardinality(Holders(new, body)) = Cardinality(Holders(slots, body)) - 1
      /\ Cardinality(Holders(slots, body)) > 0
  <2>1. /\ IsFiniteSet(Holders(slots, body))
        /\ Cardinality(Holders(slots, body)) \in Nat
        /\ Cardinality(Holders(new, body)) \in Nat
    BY HoldersFinite
  <2>2. Cardinality(Holders(new, body)) = Cardinality(Holders(slots, body)) - 1
    BY <1>3, <2>1, FS_RemoveElement
  <2>3. QED
    BY <2>1, <2>2
<1>5. \A b \in Bodies : InSlots(new)[b] = Promise!Less(InSlots(slots), body)[b]
  BY <1>1, <1>3, <1>4, SlotAmounts DEF Promise!Less, Promise!Amount
<1>6. InSlots(new) \in [Bodies -> Nat] /\ DOMAIN Promise!Less(InSlots(slots), body) = Bodies
  BY SlotAmounts DEF Promise!Less, Promise!Amount
<1>7. InSlots(new) = Promise!Less(InSlots(slots), body)
  BY <1>5, <1>6 DEF Promise!Less
<1>8. QED
  BY <1>1, <1>4, <1>7, SlotAmounts DEF body, new

(***************************************************************************)
(* Filling an empty slot adds one.                                         *)
(***************************************************************************)
LEMMA FilledSlot ==
    ASSUME NEW slots \in SlotTable, NEW slot \in Slot, slots[slot] = NoRecord,
           NEW record \in Record
    PROVE  InSlots([slots EXCEPT ![slot] = record]) =
               Promise!More(InSlots(slots), record.body)
<1> DEFINE body == record.body
           new  == [slots EXCEPT ![slot] = record]
<1>1. body \in Bodies /\ record # NoRecord
  BY SaveImageAssumption DEF Record, Number, Half
<1>2. /\ new[slot] = record
      /\ \A s \in Slot : s # slot => new[s] = slots[s]
  BY DEF SlotTable
<1>3. /\ slot \notin Holders(slots, body)
      /\ Holders(new, body) = Holders(slots, body) \cup {slot}
      /\ \A b \in Bodies : b # body => Holders(new, b) = Holders(slots, b)
  BY <1>1, <1>2 DEF Holders
<1> HIDE DEF body, new
<1>4. Cardinality(Holders(new, body)) = Cardinality(Holders(slots, body)) + 1
  BY <1>3, HoldersFinite, FS_AddElement
<1>5. \A b \in Bodies : InSlots(new)[b] = Promise!More(InSlots(slots), body)[b]
  BY <1>1, <1>3, <1>4, SlotAmounts DEF Promise!More, Promise!Amount
<1>6. InSlots(new) \in [Bodies -> Nat] /\ DOMAIN Promise!More(InSlots(slots), body) = Bodies
  BY SlotAmounts DEF Promise!More, Promise!Amount
<1>7. QED
  BY <1>5, <1>6 DEF Promise!More, body, new

(***************************************************************************)
(* remove() and insert() of the save.                                      *)
(***************************************************************************)
LEMMA RemovedAmounts ==
    ASSUME NEW image \in Image, NEW slot \in Slot, NEW record \in Record,
           CanRemove(image, slot, record)
    PROVE  /\ record.body \in Bodies
           /\ InSlots(image.slots)[record.body] > 0
           /\ InSlots(Removed(image, slot).slots) =
                  Promise!Less(InSlots(image.slots), record.body)
<1>1. /\ image.slots \in SlotTable
      /\ image.slots[slot] = record /\ record # NoRecord
      /\ Removed(image, slot).slots = [image.slots EXCEPT ![slot] = NoRecord]
  BY SaveImageAssumption DEF Image, SlotTable, CanRemove, Removed, Record, Number, Half
<1>2. QED
  BY <1>1, ClearedSlot

LEMMA InsertedAmounts ==
    ASSUME NEW image \in Image, NEW record \in Record, NEW renumber \in BOOLEAN,
           CanInsert(image)
    PROVE  InSlots(Inserted(image, record, renumber).slots) =
               Promise!More(InSlots(image.slots), record.body)
<1> DEFINE number == IF renumber THEN NewNumber(image) ELSE record.number
           stored == [body |-> record.body, number |-> number]
<1>1. number \in Number
  BY InsertedNumber
<1>2. Inserted(image, record, renumber).slots = [image.slots EXCEPT ![FirstFree(image)] = stored]
  BY DEF Inserted
<1> HIDE DEF number
<1>3. stored \in Record /\ stored.body = record.body
  BY <1>1 DEF Record
<1>4. image.slots \in SlotTable
  BY DEF Image, SlotTable
<1> HIDE DEF stored
<1>5. QED
  BY <1>2, <1>3, <1>4, InsertionPlace, FilledSlot

-----------------------------------------------------------------------------
(* Counting the entries of a bank *)

LEMMA OwnersFinite ==
    ASSUME NEW entries \in EntryList, NEW b
    PROVE  IsFiniteSet(Owners(entries, b)) /\ Cardinality(Owners(entries, b)) \in Nat
<1>1. DOMAIN entries = 1 .. Len(entries) /\ Len(entries) \in Nat
  BY LenProperties DEF EntryList
<1>2. IsFiniteSet(DOMAIN entries)
  BY <1>1, FS_Interval
<1>3. Owners(entries, b) \in SUBSET DOMAIN entries
  BY DEF Owners
<1>4. QED
  BY <1>2, <1>3, FS_Subset, FS_CardinalityType

LEMMA EntryAmounts ==
    ASSUME NEW entries \in EntryList
    PROVE  /\ InEntries(entries) \in Promise!Amount
           /\ \A b \in Bodies : InEntries(entries)[b] = Cardinality(Owners(entries, b))
<1>1. InEntries(entries) = [b \in Bodies |-> Cardinality(Owners(entries, b))]
  BY DEF InEntries, Owners
<1>2. \A b \in Bodies : Cardinality(Owners(entries, b)) \in Nat
  BY OwnersFinite
<1>3. QED
  BY <1>1, <1>2 DEF Promise!Amount

LEMMA EntriesOfBank ==
    ASSUME NEW b \in Banks
    PROVE  b.entries \in EntryList
BY DEF Banks, BankOf, EntryList, Entry

(***************************************************************************)
(* append() adds one.                                                      *)
(***************************************************************************)
LEMMA AppendedAmounts ==
    ASSUME NEW b \in Banks, NEW game \in Games, NEW record \in Record
    PROVE  InEntries(Appended(b, game, record).entries) =
               Promise!More(InEntries(b.entries), record.body)
<1> DEFINE all   == b.entries
           entry == [id |-> b.nextId, arrival |-> b.nextArrival,
                     game |-> game, record |-> record]
           new   == Appended(b, game, record).entries
           n     == Len(all)
           body  == record.body
<1>1. /\ all \in EntryList
      /\ entry \in Entry(Games, Record) /\ entry.record = record /\ body \in Bodies
  BY EntriesOfBank DEF Banks, BankOf, Entry, Record
<1>2. new = Append(all, entry)
  BY DEF Appended
<1> HIDE DEF all, entry, new
<1>3. /\ n \in Nat /\ DOMAIN all = 1 .. n
      /\ new \in EntryList /\ Len(new) = n + 1
      /\ \A i \in 1 .. n : new[i] = all[i]
      /\ new[n + 1] = entry
  BY <1>1, <1>2, LenProperties, AppendProperties DEF EntryList
<1>4. DOMAIN new = 1 .. n + 1
  BY <1>3, LenProperties DEF EntryList
<1> HIDE DEF n, body
<1>5. /\ 1 .. n + 1 = (1 .. n) \cup {n + 1}
      /\ n + 1 \notin 1 .. n
  BY <1>3
<1>6. /\ n + 1 \notin Owners(all, body)
      /\ Owners(new, body) = Owners(all, body) \cup {n + 1}
      /\ \A c \in Bodies : c # body => Owners(new, c) = Owners(all, c)
  BY <1>1, <1>3, <1>4, <1>5 DEF Owners, body
<1>7. Cardinality(Owners(new, body)) = Cardinality(Owners(all, body)) + 1
  BY <1>1, <1>6, OwnersFinite, FS_AddElement
<1>8. \A c \in Bodies : InEntries(new)[c] = Promise!More(InEntries(all), body)[c]
  BY <1>1, <1>3, <1>6, <1>7, EntryAmounts DEF Promise!More, Promise!Amount
<1>9. InEntries(new) \in [Bodies -> Nat] /\ DOMAIN Promise!More(InEntries(all), body) = Bodies
  BY <1>1, <1>3, EntryAmounts DEF Promise!More, Promise!Amount
<1>10. QED
  BY <1>8, <1>9 DEF Promise!More, body, all, new

(***************************************************************************)
(* Positions matched one to one, with the same Yo-kai: the same number.    *)
(***************************************************************************)
LEMMA SameCount ==
    ASSUME NEW S, IsFiniteSet(S), NEW T, NEW f \in [S -> T],
           \A x, y \in S : f[x] = f[y] => x = y,
           \A y \in T : \E x \in S : f[x] = y
    PROVE  Cardinality(T) = Cardinality(S)
<1>1. f \in Bijection(S, T)
  BY DEF Bijection, Injection, Surjection, IsInjective
<1>2. ExistsBijection(S, T)
  BY <1>1 DEF ExistsBijection
<1>3. QED
  BY <1>2, FS_Bijection

(***************************************************************************)
(* erase() takes one away.                                                 *)
(***************************************************************************)
LEMMA ErasedAmounts ==
    ASSUME NEW b \in Banks, NEW id, Has(b, id)
    PROVE  /\ Find(b, id).record.body \in Bodies
           /\ InEntries(b.entries)[Find(b, id).record.body] > 0
           /\ InEntries(Erased(b, id).entries) =
                  Promise!Less(InEntries(b.entries), Find(b, id).record.body)
<1> DEFINE all  == b.entries
           left == Erased(b, id).entries
           at   == Position(b, id)
           n    == Len(all)
           body == Find(b, id).record.body
           From(i) == IF i < at THEN i ELSE i + 1
<1>1. /\ n \in Nat /\ at \in 1 .. n
      /\ DOMAIN all = 1 .. n /\ DOMAIN left = 1 .. n - 1
      /\ left \in EntryList
      /\ \A i \in 1 .. n - 1 : left[i] = all[From(i)]
  BY ErasedEntries DEF Banks, EntryList
<1>2. body \in Bodies /\ all[at].record.body = body
  <2>1. Find(b, id) \in Entry(Games, Record)
    BY FoundEntry DEF Banks
  <2>2. QED
    BY <2>1 DEF Entry, Record, Find
<1>3. all \in EntryList
  BY EntriesOfBank
<1> HIDE DEF all, left, at, n, body
<1>4. /\ \A i \in 1 .. n - 1 : From(i) \in 1 .. n /\ From(i) # at
      /\ \A i, j \in 1 .. n - 1 : From(i) = From(j) => i = j
      /\ \A j \in 1 .. n : j # at => \E i \in 1 .. n - 1 : From(i) = j
  <2>1. /\ \A i \in 1 .. n - 1 : From(i) \in 1 .. n /\ From(i) # at
        /\ \A i, j \in 1 .. n - 1 : From(i) = From(j) => i = j
    BY <1>1
  <2>2. ASSUME NEW j \in 1 .. n, j < at
        PROVE  j \in 1 .. n - 1 /\ From(j) = j
    BY <1>1, <2>2
  <2>3. ASSUME NEW j \in 1 .. n, j > at
        PROVE  j - 1 \in 1 .. n - 1 /\ From(j - 1) = j
    BY <1>1, <2>3
  <2>4. \A j \in 1 .. n : j # at => j < at \/ j > at
    BY <1>1
  <2>5. QED
    BY <2>1, <2>2, <2>3, <2>4
<1> HIDE DEF From
<1>5. ASSUME NEW c
      PROVE  Cardinality(Owners(left, c)) = Cardinality(Owners(all, c) \ {at})
  <2> DEFINE S == Owners(left, c)
             T == Owners(all, c) \ {at}
             f == [i \in S |-> From(i)]
  <2>1. \A i \in S : i \in 1 .. n - 1 /\ left[i].record.body = c
    BY <1>1 DEF Owners
  <2>2. f \in [S -> T]
    BY <1>1, <1>4, <2>1 DEF Owners
  <2>3. \A i, j \in S : f[i] = f[j] => i = j
    BY <1>4, <2>1
  <2>4. ASSUME NEW j \in T
        PROVE  \E i \in S : f[i] = j
    <3>1. j \in 1 .. n /\ j # at /\ all[j].record.body = c
      BY <1>1 DEF Owners
    <3>2. PICK i \in 1 .. n - 1 : From(i) = j
      BY <1>4, <3>1
    <3>3. i \in S
      BY <1>1, <3>1, <3>2 DEF Owners
    <3>4. QED
      BY <3>2, <3>3
  <2>5. IsFiniteSet(S)
    BY <1>1, OwnersFinite
  <2> HIDE DEF S, T, f
  <2>6. Cardinality(T) = Cardinality(S)
    BY <2>2, <2>3, <2>4, <2>5, SameCount
  <2>7. QED
    BY <2>6 DEF S, T
<1>6. /\ at \in Owners(all, body)
      /\ \A c \in Bodies : c # body => at \notin Owners(all, c)
  BY <1>1, <1>2 DEF Owners
<1>7. /\ Cardinality(Owners(left, body)) = Cardinality(Owners(all, body)) - 1
      /\ Cardinality(Owners(all, body)) > 0
  <2>1. /\ Cardinality(Owners(all, body)) \in Nat
        /\ Cardinality(Owners(left, body)) \in Nat
        /\ IsFiniteSet(Owners(all, body))
    BY <1>1, <1>3, OwnersFinite
  <2>2. Cardinality(Owners(all, body) \ {at}) = Cardinality(Owners(all, body)) - 1
    BY <1>6, <2>1, FS_RemoveElement
  <2>3. QED
    BY <1>5, <2>1, <2>2
<1>8. ASSUME NEW c \in Bodies, c # body
      PROVE  Cardinality(Owners(left, c)) = Cardinality(Owners(all, c))
  <2>1. Owners(all, c) \ {at} = Owners(all, c)
    BY <1>6, <1>8
  <2>2. QED
    BY <1>5, <2>1
<1>9. \A c \in Bodies : InEntries(left)[c] = Promise!Less(InEntries(all), body)[c]
  BY <1>1, <1>2, <1>3, <1>7, <1>8, EntryAmounts DEF Promise!Less, Promise!Amount
<1>10. InEntries(left) \in [Bodies -> Nat] /\ DOMAIN Promise!Less(InEntries(all), body) = Bodies
  BY <1>1, <1>3, EntryAmounts DEF Promise!Less, Promise!Amount
<1>11. InEntries(left) = Promise!Less(InEntries(all), body)
  BY <1>9, <1>10 DEF Promise!Less
<1>12. InEntries(all)[body] > 0
  BY <1>2, <1>3, <1>7, EntryAmounts
<1>13. QED
  BY <1>2, <1>11, <1>12 DEF body, all, left

(***************************************************************************)
(* A bank read back from its file holds as many of each.                   *)
(***************************************************************************)
LEMMA ReloadedAmounts ==
    ASSUME NEW b \in Banks, Ordered(b)
    PROVE  InEntries(Reloaded(b).entries) = InEntries(b.entries)
<1> DEFINE all == b.entries
           new == Reloaded(b).entries
           n   == Len(all)
<1>1. DOMAIN all = 1 .. n /\ DOMAIN new = 1 .. n /\ new \in EntryList /\ all \in EntryList
  BY ReloadedEntries, EntriesOfBank DEF Banks, EntryList
<1>2. PICK p \in Bijection(1 .. n, 1 .. n) : \A i \in 1 .. n : new[i] = all[p[i]]
  BY ReloadedEntries DEF Banks
<1> HIDE DEF all, new, n
<1>3. /\ \A i \in 1 .. n : p[i] \in 1 .. n
      /\ \A i, j \in 1 .. n : p[i] = p[j] => i = j
      /\ \A j \in 1 .. n : \E i \in 1 .. n : p[i] = j
  BY DEF Bijection, Injection, Surjection, IsInjective
<1>4. ASSUME NEW c
      PROVE  Cardinality(Owners(all, c)) = Cardinality(Owners(new, c))
  <2> DEFINE S == Owners(new, c)
             T == Owners(all, c)
             f == [i \in S |-> p[i]]
  <2>1. /\ \A i \in S : i \in 1 .. n
        /\ f \in [S -> T]
        /\ \A i, j \in S : f[i] = f[j] => i = j
    BY <1>1, <1>2, <1>3 DEF Owners
  <2>2. \A j \in T : \E i \in S : f[i] = j
    BY <1>1, <1>2, <1>3 DEF Owners
  <2>3. IsFiniteSet(S)
    BY <1>1, OwnersFinite
  <2> HIDE DEF S, T, f
  <2>4. Cardinality(T) = Cardinality(S)
    BY <2>1, <2>2, <2>3, SameCount
  <2>5. QED
    BY <2>4 DEF S, T
<1>5. InEntries(new) = InEntries(all)
  BY <1>1, <1>4, EntryAmounts DEF Promise!Amount
<1>6. QED
  BY <1>5 DEF all, new

-----------------------------------------------------------------------------
(* One lemma per operation *)

InSave == InSlots(save.slots)
InBank == InEntries(bank.entries)

\* What the invariant says of the types, in the form the lemmas above ask for.
LEMMA Typed ==
    ASSUME IInv
    PROVE  /\ save \in Image /\ originalSave \in Image
           /\ bank \in Banks /\ originalBank \in Banks
           /\ Ordered(bank) /\ Ordered(originalBank)
           /\ Game \in Games
           /\ \A slot \in Slot : \A record \in Rows(slot) : record \in Record
BY RowsAreRecords, NumberedBankIsBank, SessionAssumption
   DEF IInv, NumberedTypes, NumberedImage, BankStaysOrdered

\* A record a caller holds is of a Yo-kai that the save has or had when it was
\* last kept.
LEMMA RowsAreHeld ==
    ASSUME IInv, NEW slot \in Slot, NEW record \in Rows(slot)
    PROVE  /\ record.body \in Bodies
           /\ \/ InSlots(save.slots)[record.body] > 0
              \/ InSlots(originalSave.slots)[record.body] > 0
<1>1. save.slots \in SlotTable /\ originalSave.slots \in SlotTable
  BY Typed DEF Image, SlotTable
<1>2. record # NoRecord /\ (record = save.slots[slot] \/ record = originalSave.slots[slot])
  BY DEF Rows
<1>3. QED
  BY <1>1, <1>2, ClearedSlot

LEMMA DepositMoves ==
    ASSUME IInv, NEW slot \in Slot, NEW record \in Rows(slot), Deposit(slot, record)
    PROVE  /\ record.body \in Bodies
           /\ InSave[record.body] > 0
           /\ InSlots(save'.slots) = Promise!Less(InSave, record.body)
           /\ InEntries(bank'.entries) = Promise!More(InBank, record.body)
<1>1. /\ save \in Image /\ bank \in Banks /\ record \in Record /\ Game \in Games
      /\ CanRemove(save, slot, record)
      /\ save' = Removed(save, slot)
      /\ bank' = Appended(bank, Game, record)
  BY Typed DEF Deposit, MayDeposit
<1>2. QED
  BY <1>1, RemovedAmounts, AppendedAmounts DEF InSave, InBank

(***************************************************************************)
(* A deposit that fails puts the record back: RoomAfterRemoval.            *)
(***************************************************************************)
LEMMA DepositFailsMovesNothing ==
    ASSUME IInv, NEW slot \in Slot, NEW record \in Rows(slot), DepositFails(slot, record)
    PROVE  /\ InSlots(save'.slots) = InSave
           /\ bank'.entries = bank.entries
<1> DEFINE taken == Removed(save, slot)
<1>1. /\ save \in Image /\ record \in Record
      /\ CanRemove(save, slot, record)
      /\ bank' = AppendFailed(bank)
  BY Typed DEF DepositFails, MayDeposit
<1>2. taken \in Image /\ CanInsert(taken)
  BY <1>1, RemovedType, RoomAfterRemoval
<1>3. save' = Inserted(taken, record, FALSE)
  BY <1>2 DEF DepositFails
<1>4. record.body \in Bodies /\ InSlots(taken.slots) = Promise!Less(InSave, record.body)
  BY <1>1, RemovedAmounts DEF InSave
<1> HIDE DEF taken
<1>5. InSlots(save'.slots) = Promise!More(InSlots(taken.slots), record.body)
  BY <1>1, <1>2, <1>3, InsertedAmounts
<1>6. InSave \in [Bodies -> Nat]
  BY SlotAmounts DEF InSave, Promise!Amount
<1>7. InSlots(save'.slots) = InSave
  BY <1>4, <1>5, <1>6 DEF Promise!More, Promise!Less
<1>8. QED
  BY <1>1, <1>7 DEF AppendFailed

LEMMA CopyToBankAdds ==
    ASSUME IInv, NEW slot \in Slot, NEW record \in Rows(slot), CopyToBank(record)
    PROVE  InEntries(bank'.entries) = Promise!More(InBank, record.body)
<1>1. /\ bank \in Banks /\ record \in Record /\ Game \in Games
      /\ bank' = Appended(bank, Game, record)
  BY Typed DEF CopyToBank
<1>2. QED
  BY <1>1, AppendedAmounts DEF InBank

\* What withdraw() and copyToSave() put in the save is the entry's Yo-kai.
LEMMA ReceiveAdds ==
    ASSUME IInv, NEW id, Has(bank, id), NEW renumber \in BOOLEAN,
           Receive(Find(bank, id), renumber)
    PROVE  /\ Find(bank, id).record.body \in Bodies
           /\ InBank[Find(bank, id).record.body] > 0
           /\ InSlots(save'.slots) = Promise!More(InSave, Find(bank, id).record.body)
<1> DEFINE entry  == Find(bank, id)
           record == ConvertRecord(entry, Game)
<1>1. entry.record \in Record
  <2>1. entry \in Entry(Games, Record)
    BY Typed, FoundEntry DEF Banks
  <2>2. QED
    BY <2>1 DEF Entry
<1>2. record \in Record /\ record.body = entry.record.body
  BY <1>1, SaveImageAssumption DEF ConvertRecord, Record, Blank, Number, Half
<1>3. /\ save \in Image /\ CanInsert(save)
      /\ save' = Inserted(save, record, renumber)
  BY Typed DEF Receive
<1>4. entry.record.body \in Bodies /\ InBank[entry.record.body] > 0
  BY Typed, ErasedAmounts DEF InBank
<1> HIDE DEF record, entry
<1>5. InSlots(save'.slots) = Promise!More(InSave, record.body)
  BY <1>2, <1>3, InsertedAmounts DEF InSave
<1>6. QED
  BY <1>2, <1>4, <1>5 DEF entry

LEMMA WithdrawMoves ==
    ASSUME IInv, NEW id \in Ids(bank), Withdraw(id)
    PROVE  \E body \in Bodies :
               /\ InBank[body] > 0
               /\ InSlots(save'.slots) = Promise!More(InSave, body)
               /\ InEntries(bank'.entries) = Promise!Less(InBank, body)
<1> DEFINE renumber == Renumbers(Find(bank, id))
           body     == Find(bank, id).record.body
<1>1. renumber \in BOOLEAN
  BY DEF Renumbers, ContainsIdentifier
<1>2. /\ Has(bank, id) /\ Receive(Find(bank, id), renumber)
      /\ bank' = Erased(bank, id)
  BY DEF Withdraw
<1> HIDE DEF renumber
<1>3. /\ body \in Bodies /\ InBank[body] > 0
      /\ InSlots(save'.slots) = Promise!More(InSave, body)
  BY <1>1, <1>2, ReceiveAdds
<1>4. InEntries(bank'.entries) = Promise!Less(InBank, body)
  BY <1>2, Typed, ErasedAmounts DEF InBank
<1> HIDE DEF body
<1>5. QED
  BY <1>3, <1>4

LEMMA CopyToSaveAdds ==
    ASSUME IInv, NEW id \in Ids(bank), CopyToSave(id)
    PROVE  \E body \in Bodies :
               /\ InBank[body] > 0
               /\ InSlots(save'.slots) = Promise!More(InSave, body)
<1>1. Has(bank, id) /\ Receive(Find(bank, id), TRUE)
  BY DEF CopyToSave
<1>2. QED
  BY <1>1, ReceiveAdds

-----------------------------------------------------------------------------
(* The invariant and the theorems *)

LEMMA NextKeepsClean ==
    ASSUME IInv, CleanMeansNothingStaged, [Next]_vars
    PROVE  CleanMeansNothingStaged'
<1>1. CASE \/ \E slot \in Slot : \E record \in Rows(slot) :
                  Deposit(slot, record) \/ CopyToBank(record)
           \/ \E id \in Ids(bank) : Withdraw(id) \/ CopyToSave(id)
  BY <1>1 DEF CleanMeansNothingStaged, Deposit, CopyToBank, Withdraw, CopyToSave
<1>2. CASE \E slot \in Slot : \E record \in Rows(slot) : DepositFails(slot, record)
  <2>1. /\ InSlots(save'.slots) = InSlots(save.slots)
        /\ bank'.entries = bank.entries
    BY <1>2, DepositFailsMovesNothing DEF InSave
  <2>2. UNCHANGED <<originalSave, originalBank, dirty>>
    BY <1>2 DEF DepositFails
  <2>3. QED
    BY <2>1, <2>2 DEF CleanMeansNothingStaged
<1>3. CASE CopyToBankFails
  BY <1>3 DEF CleanMeansNothingStaged, CopyToBankFails, AppendFailed
<1>4. CASE Discard \/ AcceptCommitted \/ Load
  BY <1>4 DEF CleanMeansNothingStaged, Discard, AcceptCommitted, Load
<1>5. CASE UNCHANGED vars
  BY <1>5 DEF CleanMeansNothingStaged, vars
<1>6. QED
  BY <1>1, <1>2, <1>3, <1>4, <1>5 DEF Next

(***************************************************************************)
(* A session that is not dirty has nothing to lose.                        *)
(***************************************************************************)
THEOREM NothingStaged == Spec => []CleanMeansNothingStaged
<1>1. Init => CleanMeansNothingStaged
  BY DEF Init, CleanMeansNothingStaged
<1>2. IInv /\ CleanMeansNothingStaged /\ [Next]_vars => CleanMeansNothingStaged'
  BY NextKeepsClean
<1> HIDE DEF IInv, CleanMeansNothingStaged, Init, Next
<1>3. QED
  BY <1>1, <1>2, Invariance, PTL DEF Spec

LEMMA InitKeepsPromise ==
    ASSUME Init
    PROVE  Promise!Init
<1>1. /\ originalSave \in Image /\ originalBank \in Banks
      /\ save = originalSave /\ bank = originalBank
  BY SessionAssumption DEF Init
<1>2. InSlots(save.slots) \in Promise!Amount /\ InEntries(bank.entries) \in Promise!Amount
  BY <1>1, SlotAmounts, EntryAmounts, EntriesOfBank
<1>3. QED
  BY <1>1, <1>2 DEF Promise!Init

LEMMA NextKeepsPromise ==
    ASSUME IInv, [Next]_vars
    PROVE  [Promise!Next]_(Promise!vars)
<1>1. ASSUME NEW slot \in Slot, NEW record \in Rows(slot), Deposit(slot, record)
      PROVE  Promise!MoveToBank(record.body) /\ record.body \in Bodies
  BY <1>1, DepositMoves DEF Deposit, Promise!MoveToBank, InSave, InBank
<1>2. ASSUME NEW slot \in Slot, NEW record \in Rows(slot), DepositFails(slot, record)
      PROVE  UNCHANGED Promise!vars
  BY <1>2, DepositFailsMovesNothing DEF DepositFails, Promise!vars, InSave
<1>3. ASSUME NEW slot \in Slot, NEW record \in Rows(slot), CopyToBank(record)
      PROVE  Promise!CopyToBank(record.body) /\ record.body \in Bodies
  <2>1. /\ InEntries(bank'.entries) = Promise!More(InEntries(bank.entries), record.body)
        /\ UNCHANGED <<save, originalSave, originalBank>>
    BY <1>3, CopyToBankAdds DEF CopyToBank, InBank
  <2>2. record.body \in Bodies /\ record.body \in Promise!Held(InSlots(save.slots))
                                      \cup Promise!Held(InSlots(originalSave.slots))
    BY RowsAreHeld DEF Promise!Held
  <2>3. QED
    BY <2>1, <2>2 DEF Promise!CopyToBank
<1>4. CASE CopyToBankFails
  BY <1>4 DEF CopyToBankFails, AppendFailed, Promise!vars
<1>5. ASSUME NEW id \in Ids(bank), Withdraw(id)
      PROVE  \E body \in Bodies : Promise!MoveToSave(body)
  BY <1>5, WithdrawMoves DEF Withdraw, Promise!MoveToSave, InSave, InBank
<1>6. ASSUME NEW id \in Ids(bank), CopyToSave(id)
      PROVE  \E body \in Bodies : Promise!CopyToSave(body)
  BY <1>6, CopyToSaveAdds DEF CopyToSave, Promise!CopyToSave, InSave, InBank
<1>7. ASSUME Discard
      PROVE  Promise!PutBack
  BY <1>7 DEF Discard, Promise!PutBack
<1>8. ASSUME AcceptCommitted
      PROVE  Promise!Keep
  BY <1>8 DEF AcceptCommitted, Promise!Keep
<1>9. ASSUME Load
      PROVE  Promise!PutBack
  <2>1. InEntries(Reloaded(originalBank).entries) = InEntries(originalBank.entries)
    BY Typed, ReloadedAmounts
  <2>2. QED
    BY <1>9, <2>1 DEF Load, Promise!PutBack
<1>10. CASE UNCHANGED vars
  BY <1>10 DEF vars, Promise!vars
<1>11. QED
  BY <1>1, <1>2, <1>3, <1>4, <1>5, <1>6, <1>7, <1>8, <1>9, <1>10 DEF Next, Promise!Next

(***************************************************************************)
(* Whatever is transferred, and whatever fails, a session only moves,      *)
(* copies, puts back or keeps: it implements Collection.                   *)
(***************************************************************************)
THEOREM SessionKeepsThePromise == Spec => KeepsThePromise
<1>1. Init => Promise!Init
  BY InitKeepsPromise
<1>2. IInv /\ [Next]_vars => [Promise!Next]_(Promise!vars)
  BY NextKeepsPromise
<1> HIDE DEF IInv, Init, Next
<1>3. QED
  BY <1>1, <1>2, Invariance, PTL DEF Spec, KeepsThePromise, Promise!Spec
===============================================================================
