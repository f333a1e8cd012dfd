------------------------------ MODULE Collection ------------------------------
(***************************************************************************)
(* What a transfer session promises, without slots, identifiers or ids: a  *)
(* player's Yo-kai are in the save or in the bank; a move takes one out of *)
(* one side and puts it in the other, a copy adds one, nothing else adds   *)
(* or loses any, and until the changes are kept everything can be put back. *)
(***************************************************************************)
EXTENDS Integers

CONSTANT Bodies    \* the individual Yo-kai

VARIABLES
    inSave, inBank,   \* how many of each are on either side
    kept              \* the two sides as last kept

vars == <<inSave, inBank, kept>>

Amount == [Bodies -> Nat]

TypeOK ==
    /\ inSave \in Amount
    /\ inBank \in Amount
    /\ kept \in [save : Amount, bank : Amount]

More(amount, b) == [amount EXCEPT ![b] = @ + 1]
Less(amount, b) == [amount EXCEPT ![b] = @ - 1]
Held(amount)    == {b \in Bodies : amount[b] > 0}

Init ==
    /\ inSave \in Amount
    /\ inBank \in Amount
    /\ kept = [save |-> inSave, bank |-> inBank]

MoveToBank(b) ==
    /\ inSave[b] > 0
    /\ inSave' = Less(inSave, b)
    /\ inBank' = More(inBank, b)
    /\ UNCHANGED kept

MoveToSave(b) ==
    /\ inBank[b] > 0
    /\ inBank' = Less(inBank, b)
    /\ inSave' = More(inSave, b)
    /\ UNCHANGED kept

\* What was shown when the session was opened can still be copied.
CopyToBank(b) ==
    /\ b \in Held(inSave) \cup Held(kept.save)
    /\ inBank' = More(inBank, b)
    /\ UNCHANGED <<inSave, kept>>

CopyToSave(b) ==
    /\ inBank[b] > 0
    /\ inSave' = More(inSave, b)
    /\ UNCHANGED <<inBank, kept>>

PutBack ==
    /\ inSave' = kept.save
    /\ inBank' = kept.bank
    /\ UNCHANGED kept

Keep ==
    /\ kept' = [save |-> inSave, bank |-> inBank]
    /\ UNCHANGED <<inSave, inBank>>

Next ==
    \/ \E b \in Bodies : MoveToBank(b) \/ MoveToSave(b) \/ CopyToBank(b) \/ CopyToSave(b)
    \/ PutBack
    \/ Keep

Spec == Init /\ [][Next]_vars
===============================================================================
