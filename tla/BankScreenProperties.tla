-------------------------- MODULE BankScreenProperties --------------------------
(***************************************************************************)
(* The correctness properties of module BankScreen.                        *)
(***************************************************************************)
EXTENDS BankScreen

\* The variables keep their types.
ScreenTypeOK ==
    /\ save \in Image /\ originalSave \in Image
    /\ bank \in Banks /\ originalBank \in Banks
    /\ dirty \in BOOLEAN /\ wrapped \in BOOLEAN /\ stale \in BOOLEAN
    /\ gameRows \in Seq([slot : Slot, record : Record])
    /\ bankRows \in Seq(Nat)
    /\ party \subseteq Slot /\ markedSlots \subseteq Slot /\ markedIds \subseteq Nat
    /\ pane \in {"game", "bank"} /\ mode \in {"list", "mark", "menu"}
    /\ gameSort \in SortModes /\ bankSort \in SortModes
    /\ call.op \in {"none", "deposit", "withdraw", "copyToBank", "copyToSave"}
    /\ Idle => call.left = <<>>

\* Whenever a key is handled the rows are the records of the save and the
\* entries of the bank, each once, and the grayed ones the party: no handler
\* that changes the session forgets refresh(), none that throws either.
ScreenShowsSession ==
    Idle => /\ Len(gameRows) = Cardinality(Occupied(save))
            /\ ToSet(gameRows) = {[slot |-> s, record |-> save.slots[s]] : s \in Occupied(save)}
            /\ Len(bankRows) = Len(bank.entries)
            /\ ToSet(bankRows) = DOMAIN bank.entries
            /\ party = PartySlots(save)

\* A deposit batch cannot stop half-way for a reason that was there when it
\* began: the records read before its first deposit stay the ones Session
\* finds, through the removals before them, and none is in the party.
QueuedDepositsAreGood ==
    ~ wrapped /\ call.op = "deposit" =>
        \A i \in DOMAIN call.left :
            MayDeposit(call.left[i].slot, call.left[i].record)

\* A marked bank id has been handed out, so no later arrival gets it and the
\* mark never comes to mean another entry (discard() takes the counter back).
MarkedIdsWereHandedOut == \A id \in markedIds : id < bank.nextId

\* Marks on the save name Yo-kai that are there, unless the bank failed in
\* the middle of a batch: no empty slot waits, marked, for the next arrival.
MarkedSlotsAreTaken ==
    Idle /\ ~ stale => markedSlots \subseteq Occupied(save)

\* Whatever the screen does to the session is a call the session allows, on a
\* record it shows or has shown since it was opened: no batch goes on with
\* records read from rows that have been overtaken.
ActsThroughSession == Spec

-----------------------------------------------------------------------------
(* What the documentation and the messages say, and the code does not. *)

\* YokaiBankScreen.cpp:330: "Party members cannot be marked".
PartyIsNeverMarked == Idle => markedSlots \cap party = {}
=============================================================================
