-------------------------------- MODULE Commit --------------------------------
(***************************************************************************)
(* How a session reaches the files: YokaiBankScreen::commit, the bank's    *)
(* saveAtomic and the recovery in SaveContext::load, one step per file     *)
(* operation, for one save and the bank.                                   *)
(*                                                                         *)
(* What a save and a bank file hold is a generation: the number of the     *)
(* staged changes they were written from, the same number in both.  A write *)
(* or copy that is cut short, by an error or by the power going off, leaves *)
(* its file as it was or torn; renaming and removing are all or nothing,   *)
(* and what was written stays written.  Nothing is known to the code about *)
(* the difference between a torn save backup and a whole one.              *)
(*                                                                         *)
(* The save is an exported file or the save archive of an installed title, *)
(* which takes a whole new content when it is committed.                   *)
(***************************************************************************)
EXTENDS Integers

CONSTANTS
    Sources,                \* the kinds of save: "export", "title"
    Missing, Torn,          \* no file; half a file
    Written,                \* a journal that names the save
    MaxGen,                 \* bound: changes staged
    MaxCrashes, MaxFailures \* bounds: power losses, failing file operations

ASSUME CommitAssumption ==
    /\ Sources \subseteq {"export", "title"}
    /\ Missing \notin Nat /\ Torn \notin Nat /\ Missing # Torn
    /\ Written \notin {Missing, Torn}
    /\ MaxGen \in Nat /\ MaxCrashes \in Nat /\ MaxFailures \in Nat

VARIABLES
    source,     \* where the save is
    disk,       \* the files
    pc,         \* the file operation that is next
    original,   \* the generations the session started from
    staged,     \* the generation it would write, 0 when it is not dirty
    made,       \* the last generation made
    crashes, failures,
    before,     \* history: what the last attempt to commit found
    phase,      \* history: how far it came, or that its undoing was cut short
    committed   \* history: the generation last committed

vars == <<source, disk, pc, original, staged, made, crashes, failures, before, phase, committed>>
memory  == <<source, original, staged, made>>
history == <<before, phase, committed>>
faults  == <<crashes, failures>>

Installed == source = "title"

Generations == 0 .. MaxGen
Contents    == Generations \cup {Missing, Torn}
Files       == {"save", "saveBak", "saveTmp", "bank", "bankBak", "bankTmp", "backup"}
Disk        == [save : Contents, saveBak : Contents, saveTmp : Contents, bank : Contents,
                bankBak : Contents, bankTmp : Contents, backup : Contents,
                journal : {Missing, Torn, Written}]

RecoverySteps == {"recoverSave", "recoverBank", "removeJournal"}
TrySteps      == {"backup", "journal", "write", "remove", "rename", "title", "secure",
                  "bankTmp", "dropOld", "rotate", "publish", "unjournal"}
CatchSteps    == {"restoreSave", "restoreBank"}

\* What the attempt keeps a copy of, and where: for a title the bytes the
\* session read or last wrote, for an export the file itself.
BackupSource == IF Installed THEN original.save ELSE disk.save
BackupFile   == IF Installed THEN "backup" ELSE "saveBak"

\* The journal leads recovery to a backup: a torn one names no file at all.
SaveIsRecoverable == disk.journal = Written /\ disk.saveBak # Missing
BankIsRecoverable == disk.bankBak # Missing

\* The files the next operation overwrites from their beginning.
BeingWritten ==
    {file \in Files \cup {"journal"} :
        \/ file = "save" /\ pc = "recoverSave" /\ SaveIsRecoverable
        \/ file = "save" /\ pc = "restoreSave" /\ ~ Installed /\ disk.saveBak # Missing
        \/ file = "bank" /\ pc \in {"recoverBank", "restoreBank"} /\ BankIsRecoverable
        \/ file = BackupFile /\ pc = "backup"
        \/ file = "journal" /\ pc = "journal"
        \/ file = "saveTmp" /\ pc = "write"
        \/ file = "bankTmp" /\ pc = "bankTmp"}

\* What an operation that is cut short can leave.
CutShort == {disk} \cup {[disk EXCEPT ![file] = Torn] : file \in BeingWritten}

\* Bank::load of a file that does not exist is an empty bank.
ReadBank(content) == IF content = Missing THEN 0 ELSE content

-----------------------------------------------------------------------------

Init ==
    /\ source \in Sources
    /\ disk = [save |-> 0, saveBak |-> Missing, saveTmp |-> Missing, bank |-> Missing,
               bankBak |-> Missing, bankTmp |-> Missing, backup |-> Missing,
               journal |-> Missing]
    /\ pc = "off"
    /\ original = [save |-> 0, bank |-> 0]
    /\ staged = 0
    /\ made = 0
    /\ crashes = 0 /\ failures = 0
    /\ before = [save |-> 0, bank |-> 0]
    /\ phase = "none"
    /\ committed = 0

\* One file operation: the step that comes next, and the files it leaves.
Step(step, next, files) ==
    /\ pc = step /\ pc' = next
    /\ disk' = files
    /\ UNCHANGED <<memory, faults, history>>

With(file, content) == [disk EXCEPT ![file] = content]

-----------------------------------------------------------------------------
(* SaveContext::load, beginning with recoverInterruptedExportCommit, which *)
(* has nothing to do without a journal.                                    *)

\* Variant: the journal is gone once it has been read.
LoadForgettingJournal ==
    Step("off", IF disk.journal = Missing THEN "read" ELSE "recoverSave", With("journal", Missing))

Load == Step("off", IF disk.journal = Missing THEN "read" ELSE "recoverSave", disk)

\* Variant: a save that is there is taken to be the right one.
RecoverSaveIfMissing ==
    Step("recoverSave", "recoverBank",
         IF SaveIsRecoverable /\ disk.save = Missing THEN With("save", disk.saveBak) ELSE disk)

RecoverSave ==
    Step("recoverSave", "recoverBank",
         IF SaveIsRecoverable THEN With("save", disk.saveBak) ELSE disk)

\* Variant: the same for the bank.
RecoverBankIfMissing ==
    Step("recoverBank", "removeJournal",
         IF BankIsRecoverable /\ disk.bank = Missing THEN With("bank", disk.bankBak) ELSE disk)

RecoverBank ==
    Step("recoverBank", "removeJournal",
         IF BankIsRecoverable THEN With("bank", disk.bankBak) ELSE disk)

RemoveJournal == Step("removeJournal", "read", With("journal", Missing))

\* decryptSave and Bank::load refuse a file that is not whole.
Read ==
    /\ pc = "read"
    /\ IF disk.save \in Nat /\ disk.bank # Torn
       THEN /\ pc' = "idle"
            /\ original' = [save |-> disk.save, bank |-> ReadBank(disk.bank)]
       ELSE pc' = "off" /\ UNCHANGED original
    /\ staged' = 0
    /\ UNCHANGED <<source, disk, made, faults, history>>

-----------------------------------------------------------------------------
(* The session *)

Edit ==
    /\ pc = "idle" /\ made < MaxGen
    /\ made' = made + 1
    /\ staged' = made + 1
    /\ UNCHANGED <<source, disk, pc, original, faults, history>>

Discard ==
    /\ pc = "idle" /\ staged # 0
    /\ staged' = 0
    /\ UNCHANGED <<source, disk, pc, original, made, faults, history>>

\* leaving the save, or the program, with nothing under way
Quit ==
    /\ pc = "idle" /\ pc' = "off"
    /\ staged' = 0
    /\ UNCHANGED <<source, disk, original, made, faults, history>>

-----------------------------------------------------------------------------
(* YokaiBankScreen::commit *)

Begin ==
    /\ pc = "idle" /\ staged # 0 /\ pc' = "backup"
    /\ before' = [save |-> BackupSource, bank |-> ReadBank(disk.bank)]
    /\ phase' = "begun"
    /\ UNCHANGED <<disk, memory, faults, committed>>

\* A step after which the attempt has come to another phase.
Reaches(reached, step, next, files) ==
    /\ pc = step /\ pc' = next
    /\ disk' = files
    /\ phase' = reached
    /\ UNCHANGED <<memory, faults, before, committed>>

\* Variant: the title's save is read again for its backup.
BackupFromTitle ==
    Reaches("backedUp", "backup", IF Installed THEN "title" ELSE "journal",
            With(BackupFile, disk.save))

\* Variant: a journal for a title too.
BackupThenJournal == Reaches("backedUp", "backup", "journal", With(BackupFile, BackupSource))

Backup ==
    Reaches("backedUp", "backup", IF Installed THEN "title" ELSE "journal",
            With(BackupFile, BackupSource))

WriteJournal   == Step("journal", "write", With("journal", Written))
WriteTemporary == Step("write", "remove", With("saveTmp", staged))
RemoveSave     == Step("remove", "rename", With("save", Missing))
RenameSave     == Step("rename", "bankTmp",
                       [disk EXCEPT !.save = disk.saveTmp, !.saveTmp = Missing])

\* title::write up to the commit of the archive, which makes it visible, and
\* the secure value of a title on the SD card
WriteTitle       == Step("title", "secure", With("save", staged))
ClearSecureValue == Step("secure", "bankTmp", disk)

\* saveAtomic: without a bank file there is nothing to rotate
WriteBankTemporary ==
    Step("bankTmp", IF disk.bank = Missing THEN "publish" ELSE "dropOld", With("bankTmp", staged))
DropOldBackup == Reaches("rotated", "dropOld", "rotate", With("bankBak", Missing))
Rotate        == Step("rotate", "publish", [disk EXCEPT !.bankBak = disk.bank, !.bank = Missing])
Published     == [disk EXCEPT !.bank = disk.bankTmp, !.bankTmp = Missing]

\* acceptCommitted, after the last file operation
Accept(step, files) ==
    /\ pc = step /\ pc' = "idle"
    /\ disk' = files
    /\ original' = [save |-> staged, bank |-> staged]
    /\ staged' = 0
    /\ phase' = "none"
    /\ committed' = staged
    /\ UNCHANGED <<source, made, faults, before>>

Publish ==
    \/ Installed /\ Accept("publish", Published)
    \/ ~ Installed /\ Step("publish", "unjournal", Published)

\* Variant: the journal is left for the next load to find.
AcceptKeepingJournal == Accept("unjournal", disk)

Unjournal == Accept("unjournal", With("journal", Missing))

-----------------------------------------------------------------------------
(* The catch block of commit *)

RestoreSave ==
    Step("restoreSave", "restoreBank",
         IF Installed THEN With("save", original.save)
         ELSE IF disk.saveBak # Missing THEN With("save", disk.saveBak)
         ELSE disk)

\* The staged changes stay staged.
RestoreBank ==
    Step("restoreBank", "idle", IF BankIsRecoverable THEN With("bank", disk.bankBak) ELSE disk)

-----------------------------------------------------------------------------
(* What goes wrong *)

Failing(count) ==
    /\ failures + count =< MaxFailures
    /\ failures' = failures + count
    /\ UNCHANGED <<crashes, before, committed>>

\* The program ends, or the call: nothing staged is left.  When it was
\* undoing a commit that had no journal yet, nobody will finish that.
Ends ==
    /\ pc' = "off"
    /\ disk' \in CutShort
    /\ staged' = 0
    /\ phase' = IF pc \in CatchSteps /\ disk.journal # Written THEN "cut" ELSE phase
    /\ UNCHANGED <<source, original, made>>

\* A step of the attempt throws, the encryption included.
StepFails ==
    /\ pc \in TrySteps \ {"publish"} /\ pc' = "restoreSave"
    /\ Failing(1)
    /\ disk' \in CutShort
    /\ UNCHANGED <<memory, phase>>

\* saveAtomic's own catch takes the bank back from its backup, unless that
\* rename fails too.
PublishFails ==
    /\ pc = "publish" /\ pc' = "restoreSave"
    /\ \/ Failing(1) /\ ~ BankIsRecoverable /\ UNCHANGED disk
       \/ Failing(1) /\ BankIsRecoverable
          /\ disk' = [disk EXCEPT !.bank = disk.bankBak, !.bankBak = Missing]
       \/ Failing(2) /\ BankIsRecoverable /\ UNCHANGED disk
    /\ UNCHANGED <<memory, phase>>

\* A failing rewrite of the title is passed over in silence.
RestoreTitleFails ==
    /\ Installed
    /\ pc = "restoreSave" /\ pc' = "restoreBank"
    /\ Failing(1)
    /\ UNCHANGED <<disk, memory, phase>>

\* An exception out of load() leaves the save closed; one out of the catch
\* block ends the program.
CallFails ==
    /\ \/ pc \in RecoverySteps \cup {"read", "restoreBank"}
       \/ pc = "restoreSave" /\ ~ Installed
    /\ Failing(1)
    /\ Ends

PowerLoss ==
    /\ pc # "off"
    /\ crashes < MaxCrashes /\ crashes' = crashes + 1
    /\ Ends
    /\ UNCHANGED <<failures, before, committed>>

-----------------------------------------------------------------------------

LoadStep   == Load \/ RecoverSave \/ RecoverBank \/ RemoveJournal \/ Read
UserStep   == Edit \/ Discard \/ Quit \/ Begin
ExportStep == WriteJournal \/ WriteTemporary \/ RemoveSave \/ RenameSave \/ Unjournal
TitleStep  == WriteTitle \/ ClearSecureValue
BankStep   == WriteBankTemporary \/ DropOldBackup \/ Rotate \/ Publish
CatchStep  == RestoreSave \/ RestoreBank
Fault      == StepFails \/ PublishFails \/ RestoreTitleFails \/ CallFails \/ PowerLoss

Next ==
    \/ LoadStep
    \/ UserStep
    \/ Backup \/ ExportStep \/ TitleStep \/ BankStep
    \/ CatchStep
    \/ Fault

Spec == Init /\ [][Next]_vars
===============================================================================
