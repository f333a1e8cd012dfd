-------------------------- MODULE SessionProperties --------------------------
(***************************************************************************)
(* The correctness properties of module Session.                           *)
(***************************************************************************)
EXTENDS Session, FiniteSets

\* The variables keep their types; a bank entry always has a number.
TypeOK ==
    /\ save \in Image /\ originalSave \in Image
    /\ bank \in Banks /\ originalBank \in Banks
    /\ dirty \in BOOLEAN /\ wrapped \in BOOLEAN

\* As long as no new number has wrapped, the identifier list of the working
\* save (SaveImage::syncIndex) names every record once and nothing else,
\* after any sequence of transfers, failed ones included.
SaveStaysConsistent == ~ wrapped => Consistent(save) /\ Consistent(originalSave)

\* Ids and arrivals in the bank (Bank::append, Bank::decode) stay distinct, in
\* order, and below the counters, so an id never names two entries and a
\* reload cannot hand out a number that is in use.
BankStaysOrdered == Ordered(bank) /\ Ordered(originalBank)

\* A deposit that fails in the bank can always put its record back: the
\* insertion in the catch block of Session::deposit never throws, so the
\* record is not lost between the two.
RollbackAlwaysFits ==
    \A slot \in Slot : \A record \in Rows(slot) :
        MayDeposit(slot, record) => CanInsert(Removed(save, slot))

\* No step touches the active party: not its positions in the identifier
\* list, not even blank ones, and not the records they name.
PartyUntouched ==
    [][ /\ \A p \in Party : save'.index[p] = save.index[p]
        /\ ~ wrapped => \A s \in Slot :
               IsPartySlot(save, s) => save'.slots[s] = save.slots[s] ]_vars

\* The party members the screen grays out (SaveImage::partySlots) are exactly
\* those the session refuses to deposit (SaveImage::isPartySlot).
ShownPartyIsGuarded ==
    ~ wrapped => PartySlots(save) = {s \in Slot : IsPartySlot(save, s)}

\* Two records of the save never carry the same identifier
\* (YOKAI_PORT.md:71, README.md:55: a copy receives a fresh identifier).
IdentifiersNeverCollide ==
    \A s, t \in Occupied(save) :
        save.slots[s].number = save.slots[t].number => s = t

-----------------------------------------------------------------------------
(* Refinement: the session implements Collection. *)

InSlots(slots) ==
    [b \in Bodies |-> Cardinality({s \in Slot : slots[s] # NoRecord /\ slots[s].body = b})]

InEntries(entries) ==
    [b \in Bodies |-> Cardinality({i \in DOMAIN entries : entries[i].record.body = b})]

Promise == INSTANCE Collection WITH
    inSave <- InSlots(save.slots),
    inBank <- InEntries(bank.entries),
    kept   <- [save |-> InSlots(originalSave.slots), bank |-> InEntries(originalBank.entries)]

\* Whatever happens, failures included, a transfer moves one Yo-kai or copies
\* one, and none is lost or made otherwise.
KeepsThePromise == Promise!Spec

\* A session that is not dirty has nothing to lose: commit() skips it and B
\* leaves the screen without asking, so both sides must hold what the
\* originals hold.
CleanMeansNothingStaged ==
    ~ dirty => /\ InSlots(save.slots) = InSlots(originalSave.slots)
               /\ bank.entries = originalBank.entries
=============================================================================
