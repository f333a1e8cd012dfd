--------------------------- MODULE CommitProperties ---------------------------
(***************************************************************************)
(* The correctness properties of module Commit.                            *)
(***************************************************************************)
EXTENDS Commit

\* What the next load finds on these files, if nothing interrupts it.
Recovered ==
    [save |-> IF SaveIsRecoverable THEN disk.saveBak ELSE disk.save,
     bank |-> ReadBank(IF disk.journal # Missing /\ BankIsRecoverable
                       THEN disk.bankBak ELSE disk.bank)]

\* The variables keep their types; the journal and the backup of an export
\* are never used for a title, nor the other way round.
TypeOK ==
    /\ source \in Sources /\ disk \in Disk
    /\ pc \in {"off", "read", "idle"} \cup RecoverySteps \cup TrySteps \cup CatchSteps
    /\ original \in [save : Generations, bank : Generations]
    /\ staged \in 0 .. made /\ made \in Generations
    /\ crashes \in 0 .. MaxCrashes /\ failures \in 0 .. MaxFailures
    /\ before \in [save : Contents, bank : Contents]
    /\ phase \in {"none", "begun", "backedUp", "rotated", "cut"}
    /\ committed \in 0 .. made
    /\ IF Installed THEN disk.journal = Missing /\ disk.saveBak = Missing
       ELSE disk.backup = Missing

\* Once commit() has said "Saved game and bank", whatever errors and power
\* losses came before it, a later load gives that save and that bank, until
\* the next attempt begins.
SuccessIsDurable ==
    phase = "none" => Recovered = [save |-> committed, bank |-> committed]

\* Power losses alone, however many and also during recovery, never cost an
\* exported save: it is the one last committed.
SaveSurvivesPowerLoss ==
    ~ Installed /\ failures = 0 => Recovered.save = committed

\* From the moment the copy of an exported save is complete, a load or the
\* catch block of commit() brings that save back, until the commit is done;
\* and it never comes with a newer bank, unless the attempt found no bank that
\* it could have kept (YokaiSaveContext.cpp:26-29).
BackupBringsSaveBack ==
    ~ Installed /\ phase \in {"backedUp", "rotated"} =>
        /\ Recovered.save = before.save
        /\ Recovered.bank > before.bank => before.bank = 0

\* From the moment the bank's old backup is gone, what is brought back is the
\* save and the bank the attempt began with, the two together.
RollBackIsWhole ==
    ~ Installed /\ phase = "rotated" => Recovered = before

\* An installed title whose save is not the one the attempt began with always
\* has that one in its backup, power losses and failing rewrites included; and
\* where the bank is missing although there has been one, the backup beside it
\* still is the one the attempt began with (YokaiBank.cpp:171).
TitleHasBackup ==
    Installed /\ phase \in {"backedUp", "rotated"} =>
        /\ disk.save = before.save \/ disk.backup = before.save
        /\ disk.bank = Missing => before.bank \in {0, disk.bankBak}

-----------------------------------------------------------------------------
(* What the documentation and the log messages say, and the code does not. *)

\* YOKAI_PORT.md: "exported-save recovery journal".  A session is never
\* opened on a bank older than the save beside it: what was deposited between
\* the two would be in neither.
BankNotBehindSave == pc = "idle" => original.bank >= original.save

\* YokaiBankScreen.cpp:514: "commit failed after backup restore".  After a
\* failed commit the save is the one that was there before.
FailureLeavesSave ==
    pc = "idle" /\ phase # "none" /\ staged # 0 => disk.save = before.save
=============================================================================
