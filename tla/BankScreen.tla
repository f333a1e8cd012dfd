------------------------------ MODULE BankScreen ------------------------------
(***************************************************************************)
(* The transfer screen, 3ds/source/gui/screen/YokaiBankScreen.cpp: what it *)
(* shows of a session, what the user has marked, and the batches it sends  *)
(* to the session.  The rows are copies taken by refresh() and the marks   *)
(* are slots and bank ids, so both can outlive what they name.             *)
(*                                                                         *)
(* One key is handled per frame; the cursors and the selected menu item    *)
(* can be brought anywhere and are chosen when they are used.  A batch is  *)
(* one step per Yo-kai, with no key handled in between; it ends when all   *)
(* are done or when the session throws.  Confirmations are given: a refused *)
(* one changes nothing.                                                    *)
(***************************************************************************)
EXTENDS Session, FiniteSets

CONSTANTS
    MaxCommitId,            \* bound: bank ids handed out when a commit happens
    SortModes,              \* the orders; bound: the last one may be left out
    Rank                    \* place of a Yo-kai by name and by level

ASSUME BankScreenAssumption ==
    /\ Rank \in [{"name", "level"} -> [Bodies -> Nat]]
    /\ MaxCommitId \in Nat
    /\ SortModes \in {{"original", "name"}, {"original", "name", "level"}}

VARIABLES
    gameRows, bankRows,         \* the rows: slots with their records, positions
    party,                      \* partyGameSlots
    markedSlots, markedIds,     \* markedGameSlots, markedBankIds
    pane,                       \* the active list
    mode,                       \* "mark": markMode, "menu": menuOpen
    gameSort, bankSort,
    call,                       \* the batch under way: what is left of it
    stale                       \* history: a deposit under marks failed half-way

session == vars
view    == <<gameRows, bankRows, party>>
marks   == <<markedSlots, markedIds, stale>>
ui      == <<pane, mode, gameSort, bankSort>>
screenVars == <<session, view, marks, ui, call>>

NoCall == [op |-> "none", left |-> <<>>]
Idle   == call = NoCall

-----------------------------------------------------------------------------
(* The rows *)

\* Pairs of a key and a number by the keys, those with the same key by the number
Ascending(pairs) ==
    LET Before(p, q) == p[1] < q[1] \/ (p[1] = q[1] /\ p[2] < q[2])
    IN  [place \in 1 .. Cardinality(pairs) |->
            CHOOSE p \in pairs : Cardinality({q \in pairs : Before(q, p)}) = place - 1]

\* The elements of a std::set of numbers
InSetOrder(numbers) ==
    LET order == Ascending({<<n, 0>> : n \in numbers})
    IN  [place \in DOMAIN order |-> order[place][1]]

\* std::stable_sort, given the key of each row
Sorted(rows, keys) ==
    LET order == Ascending({<<keys[i], i>> : i \in DOMAIN rows})
    IN  [i \in DOMAIN rows |-> rows[order[i][2]]]

\* The rows that have been chosen, as they are shown
Chosen(rows, positions) ==
    LET order == InSetOrder(positions)
    IN  [i \in DOMAIN order |-> rows[order[i]]]

\* records(): in the order of the slots
Records(image) ==
    LET order == InSetOrder(Occupied(image))
    IN  [i \in DOMAIN order |-> [slot |-> order[i], record |-> image.slots[order[i]]]]

\* recordOrder(): the last index entry that leads to the slot, and the slots
\* that none leads to behind the others
OriginalPosition(image, slot) ==
    LET found == {i \in Slot : /\ image.index[i] # Blank
                               /\ SlotsOfNumber(image, image.index[i]) # {}
                               /\ Min(SlotsOfNumber(image, image.index[i])) = slot}
    IN  IF found = {} THEN Slots + slot ELSE Max(found)

SortedGame(rows, image, by) ==
    Sorted(rows, [i \in DOMAIN rows |->
        IF by = "original" THEN OriginalPosition(image, rows[i].slot)
        ELSE Rank[by][rows[i].record.body]])

SortedBank(rows, entries, by) ==
    Sorted(rows, [i \in DOMAIN rows |->
        IF by = "original" THEN entries[rows[i]].arrival
        ELSE Rank[by][entries[rows[i]].record.body]])

\* refresh(), after what the handler does to the session
Refresh(byGame, byBank) ==
    /\ gameRows' = SortedGame(Records(save'), save', byGame)
    /\ bankRows' = SortedBank([i \in DOMAIN bank'.entries |-> i], bank'.entries, byBank)
    /\ party' = PartySlots(save')

ShownId(i) == bank.entries[bankRows[i]].id

-----------------------------------------------------------------------------

\* The screen as it is constructed
Opened ==
    /\ markedSlots' = {} /\ markedIds' = {} /\ stale' = FALSE
    /\ pane' = "game" /\ mode' = "list"
    /\ gameSort' = "original" /\ bankSort' = "original"
    /\ call' = NoCall
    /\ Refresh("original", "original")

ScreenInit ==
    /\ Init
    /\ markedSlots = {} /\ markedIds = {} /\ stale = FALSE
    /\ pane = "game" /\ mode = "list"
    /\ gameSort = "original" /\ bankSort = "original"
    /\ call = NoCall
    /\ gameRows = SortedGame(Records(save), save, "original")
    /\ bankRows = SortedBank([i \in DOMAIN bank.entries |-> i], bank.entries, "original")
    /\ party = PartySlots(save)

-----------------------------------------------------------------------------
(* Keys that do not reach the session *)

ActiveHasMarks == IF pane = "game" THEN markedSlots # {} ELSE markedIds # {}

\* L and R, and a touch of a row when nothing is being marked
SwitchPane(to) ==
    /\ Idle /\ pane # to /\ pane' = to
    /\ UNCHANGED <<session, view, marks, mode, gameSort, bankSort, call>>

\* SELECT: leaving mark mode with marks opens the menu
SelectKey ==
    /\ Idle
    /\ mode' = IF mode # "mark" THEN "mark" ELSE IF ActiveHasMarks THEN "menu" ELSE "list"
    /\ UNCHANGED <<session, view, marks, pane, gameSort, bankSort, call>>

\* A outside mark mode; then B, or the item that starts mark mode
Menu ==
    /\ Idle
    /\ \/ mode = "list" /\ mode' = "menu"
       \/ mode = "menu" /\ mode' \in {"list", "mark"}
    /\ UNCHANGED <<session, view, marks, pane, gameSort, bankSort, call>>

\* Y: the rows are sorted as they are now, on top of the previous order
NextSort(by) ==
    CASE by = "original" -> "name"
      [] by = "name" /\ "level" \in SortModes -> "level"
      [] OTHER -> "original"

SortActive ==
    /\ Idle /\ mode # "menu"
    /\ IF pane = "game" THEN gameSort' = NextSort(gameSort) /\ UNCHANGED bankSort
       ELSE bankSort' = NextSort(bankSort) /\ UNCHANGED gameSort
    /\ gameRows' = SortedGame(gameRows, save, gameSort')
    /\ bankRows' = SortedBank(bankRows, bank.entries, bankSort')
    /\ UNCHANGED <<session, party, marks, pane, mode, call>>

Toggled(set, element) == IF element \in set THEN set \ {element} ELSE set \cup {element}

\* toggleSelected() on the save: A, or a touch, which also makes it active
ToggleSlot(i) ==
    /\ Idle /\ mode = "mark" /\ pane' = "game"
    /\ gameRows[i].slot \notin party
    /\ markedSlots' = Toggled(markedSlots, gameRows[i].slot)
    /\ UNCHANGED <<session, view, markedIds, stale, mode, gameSort, bankSort, call>>

ToggleId(i) ==
    /\ Idle /\ mode = "mark" /\ pane = "bank"
    /\ markedIds' = Toggled(markedIds, ShownId(i))
    /\ UNCHANGED <<session, view, markedSlots, stale, ui, call>>

\* B in mark mode
CancelMarks ==
    /\ Idle /\ mode = "mark" /\ mode' = "list"
    /\ IF pane = "game" THEN markedSlots' = {} /\ stale' = FALSE /\ UNCHANGED markedIds
       ELSE markedIds' = {} /\ UNCHANGED <<markedSlots, stale>>
    /\ UNCHANGED <<session, view, pane, gameSort, bankSort, call>>

-----------------------------------------------------------------------------
(* Move and copy: what a batch takes *)

\* A cursor of a list; there is nothing under the one of an empty list.
Cursors(rows) == IF rows = <<>> THEN {0} ELSE DOMAIN rows

RowsOf(slots) == Chosen(gameRows, {i \in DOMAIN gameRows : gameRows[i].slot \in slots})
IdsShown      == [i \in DOMAIN bankRows |-> ShownId(i)]

\* Move without marks marks the row under the cursor.
SlotsToMove(i) == IF markedSlots = {} /\ i # 0 THEN {gameRows[i].slot} ELSE markedSlots
IdsToMove(i)   == IF markedIds = {} /\ i # 0 THEN {ShownId(i)} ELSE markedIds

\* Copy takes it without marking it; both in the order they are shown.
RowsToCopy(i) == IF markedSlots = {} THEN <<gameRows[i]>> ELSE RowsOf(markedSlots)
IdsToCopy(i)  == IF markedIds = {} THEN <<ShownId(i)>>
                 ELSE Chosen(IdsShown, {k \in DOMAIN bankRows : ShownId(k) \in markedIds})

Choosing(from) == Idle /\ mode = "menu" /\ pane = from /\ mode' = "list"

\* Bound: the bank has room for the whole batch.
FitsBank(batch) ==
    /\ Len(bank.entries) + Len(batch) =< MaxEntries
    /\ bank.nextId + Len(batch) =< MaxId

Begins(op, batch) ==
    /\ call' = [op |-> op, left |-> batch]
    /\ UNCHANGED <<session, view, stale, pane, gameSort, bankSort>>

\* transfer() with a party member among the chosen throws; it stays marked.
MoveRefused(i) ==
    /\ Choosing("game")
    /\ \E row \in ToSet(RowsOf(SlotsToMove(i))) : row.slot \in party
    /\ markedSlots' = SlotsToMove(i)
    /\ UNCHANGED session
    /\ Refresh(gameSort, bankSort)
    /\ UNCHANGED <<markedIds, stale, pane, gameSort, bankSort, call>>

\* Variant: the party is left to the session to protect.
MoveToBankUnchecked(i) ==
    /\ Choosing("game")
    /\ FitsBank(RowsOf(SlotsToMove(i)))
    /\ markedSlots' = SlotsToMove(i)
    /\ Begins("deposit", RowsOf(SlotsToMove(i)))
    /\ UNCHANGED markedIds

MoveToBank(i) ==
    /\ Choosing("game")
    /\ \A row \in ToSet(RowsOf(SlotsToMove(i))) : row.slot \notin party
    /\ FitsBank(RowsOf(SlotsToMove(i)))
    /\ markedSlots' = SlotsToMove(i)
    /\ Begins("deposit", RowsOf(SlotsToMove(i)))
    /\ UNCHANGED markedIds

MoveToSave(i) ==
    /\ Choosing("bank")
    /\ markedIds' = IdsToMove(i)
    /\ Begins("withdraw", InSetOrder(IdsToMove(i)))
    /\ UNCHANGED markedSlots

\* copySelected() does nothing on an empty list.
CopyChosenToBank(i) ==
    /\ Choosing("game") /\ i # 0
    /\ FitsBank(RowsToCopy(i))
    /\ Begins("copyToBank", RowsToCopy(i))
    /\ UNCHANGED <<markedSlots, markedIds>>

CopyChosenToSave(i) ==
    /\ Choosing("bank") /\ i # 0
    /\ Begins("copyToSave", IdsToCopy(i))
    /\ UNCHANGED <<markedSlots, markedIds>>

-----------------------------------------------------------------------------
(* One Yo-kai of the batch: the session does it, or throws, and then the    *)
(* batch is over with its marks as they were.                               *)

Under(op) == call.op = op /\ call.left # <<>>
Next1     == Head(call.left)

Done ==
    /\ call' = [call EXCEPT !.left = Tail(@)]
    /\ UNCHANGED <<view, marks, ui>>

Throws ==
    /\ call' = NoCall
    /\ Refresh(gameSort, bankSort)
    /\ UNCHANGED <<markedSlots, markedIds, ui>>

Deposited ==
    Under("deposit") /\ Deposit(Next1.slot, Next1.record) /\ Done

DepositThrows ==
    /\ Under("deposit")
    /\ \/ ~ MayDeposit(Next1.slot, Next1.record) /\ UNCHANGED session
       \/ DepositFails(Next1.slot, Next1.record)
    /\ Throws
    /\ stale' = TRUE

Withdrawn == Under("withdraw") /\ Withdraw(Next1) /\ Done

CopiedToBank == Under("copyToBank") /\ CopyToBank(Next1.record) /\ Done

CopyToBankThrows ==
    Under("copyToBank") /\ CopyToBankFails /\ Throws /\ UNCHANGED stale

CopiedToSave == Under("copyToSave") /\ CopyToSave(Next1) /\ Done

\* No such entry, not compatible, or no room in the save
ReceiveThrows ==
    /\ Under("withdraw") \/ Under("copyToSave")
    /\ ~ (/\ Has(bank, Next1)
          /\ Compatible(Game, Find(bank, Next1))
          /\ CanInsert(save))
    /\ UNCHANGED session
    /\ Throws /\ UNCHANGED stale

\* Variant: the marks are kept.
BatchEndsKeepingMarks ==
    /\ ~ Idle /\ call.left = <<>>
    /\ UNCHANGED session
    /\ call' = NoCall
    /\ Refresh(gameSort, bankSort)
    /\ UNCHANGED <<marks, ui>>

BatchEnds ==
    /\ ~ Idle /\ call.left = <<>>
    /\ UNCHANGED session
    /\ call' = NoCall
    /\ IF call.op \in {"deposit", "copyToBank"}
       THEN markedSlots' = {} /\ stale' = FALSE /\ UNCHANGED markedIds
       ELSE markedIds' = {} /\ UNCHANGED <<markedSlots, stale>>
    /\ Refresh(gameSort, bankSort)
    /\ UNCHANGED ui

-----------------------------------------------------------------------------
(* Keys that reach the session *)

\* X: a commit that succeeds; one that fails changes nothing here.
Commit ==
    /\ Idle /\ mode # "menu" /\ bank.nextId =< MaxCommitId
    /\ AcceptCommitted
    /\ UNCHANGED <<view, marks, ui, call>>

\* Variant: the rows stay as they are.
DiscardUnshown ==
    /\ Idle /\ mode = "list" /\ dirty
    /\ Discard
    /\ markedSlots' = {} /\ markedIds' = {} /\ stale' = FALSE
    /\ UNCHANGED <<view, ui, call>>

\* Variant: the marks survive.
DiscardKeepingMarks ==
    /\ Idle /\ mode = "list" /\ dirty
    /\ Discard
    /\ Refresh(gameSort, bankSort)
    /\ UNCHANGED <<marks, ui, call>>

\* Variant: a batch is not waited for, and goes on.
DiscardDuringBatch ==
    /\ mode = "list" /\ dirty
    /\ Discard
    /\ markedSlots' = {} /\ markedIds' = {} /\ stale' = FALSE
    /\ Refresh(gameSort, bankSort)
    /\ UNCHANGED <<ui, call>>

\* B on a dirty session
DiscardAll ==
    /\ Idle /\ mode = "list" /\ dirty
    /\ Discard
    /\ markedSlots' = {} /\ markedIds' = {} /\ stale' = FALSE
    /\ Refresh(gameSort, bankSort)
    /\ UNCHANGED <<ui, call>>

\* B on a clean one leaves the screen; from the overview it is opened again,
\* on the same session or on one loaded again from the files.
Leave ==
    /\ Idle /\ mode = "list" /\ ~ dirty
    /\ UNCHANGED session \/ Load
    /\ Opened

-----------------------------------------------------------------------------

Mark ==
    \/ \E i \in DOMAIN gameRows : ToggleSlot(i)
    \/ \E i \in DOMAIN bankRows : ToggleId(i)
    \/ CancelMarks

Choose ==
    \/ \E i \in Cursors(gameRows) : MoveRefused(i) \/ MoveToBank(i) \/ CopyChosenToBank(i)
    \/ \E i \in Cursors(bankRows) : MoveToSave(i) \/ CopyChosenToSave(i)

Batch ==
    \/ Deposited \/ DepositThrows
    \/ CopiedToBank \/ CopyToBankThrows
    \/ Withdrawn \/ CopiedToSave \/ ReceiveThrows
    \/ BatchEnds

ScreenNext ==
    \/ \E to \in {"game", "bank"} : SwitchPane(to)
    \/ SelectKey \/ Menu \/ SortActive
    \/ Mark \/ Choose \/ Batch
    \/ Commit \/ DiscardAll \/ Leave

ScreenSpec == ScreenInit /\ [][ScreenNext]_screenVars
=============================================================================
