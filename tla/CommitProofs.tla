----------------------------- MODULE CommitProofs -----------------------------
(***************************************************************************)
(* Proofs about module Commit: what was reported saved stays saved, and    *)
(* what an attempt found can be had back, for any number of generations,   *)
(* power losses and failing operations.                                    *)
(***************************************************************************)
EXTENDS CommitProperties, TLAPS

Attempted == phase \in {"backedUp", "rotated"}
BeforeRotation == {"backup", "journal", "write", "remove", "rename", "title", "secure",
                   "bankTmp", "dropOld", "rotate"}
Journalled == {"write", "remove", "rename", "bankTmp", "dropOld", "rotate", "publish",
               "unjournal"}

\* Where the attempt is, and how far it has come.
PhaseFits ==
    /\ pc \in RecoverySteps \cup {"journal", "write", "remove", "rename", "unjournal"}
         => ~ Installed
    /\ pc \in {"title", "secure"} => Installed
    /\ phase = "none" => pc \in {"off", "read", "idle"}
    /\ pc = "backup" => phase = "begun"
    /\ pc \in BeforeRotation \ {"backup", "rotate"} => phase = "backedUp"
    /\ pc = "rotate" => phase = "rotated"
    /\ pc \in {"publish", "unjournal"} => Attempted
    /\ pc \in CatchSteps => phase \in {"begun", "backedUp", "rotated"}
    /\ pc = "read" => disk.journal = Missing
    /\ pc \in RecoverySteps => disk.journal # Missing
    /\ pc \in Journalled /\ ~ Installed => disk.journal = Written

\* What the attempt has written so far is the staged generation, the latest.
WritesStaged ==
    /\ pc \in TrySteps \cup CatchSteps => staged # 0
    /\ staged # 0 => staged = made
    /\ pc \in {"remove", "rename"} => disk.saveTmp = staged
    /\ pc \in {"secure", "bankTmp", "dropOld", "rotate", "publish", "unjournal"}
         => disk.save = staged
    /\ pc \in {"dropOld", "rotate", "publish"} => disk.bankTmp = staged
    /\ pc = "unjournal" => disk.bank = staged

\* After a success both files hold it, and there is no journal.
Settled ==
    phase = "none" =>
        disk.journal = Missing /\ disk.save = committed /\ ReadBank(disk.bank) = committed

\* Without failures an exported save is the committed one where it is, or where
\* the journal points.
Powerless ==
    ~ Installed /\ failures = 0 =>
        /\ pc \notin CatchSteps
        /\ IF disk.journal = Written THEN disk.saveBak = committed ELSE disk.save = committed
        /\ pc \in {"idle", "backup", "journal"} => disk.journal = Missing
        /\ pc \in {"journal", "write", "remove", "rename"} => disk.saveBak = committed
        /\ pc \in {"recoverBank", "removeJournal"} => disk.save = committed

\* The save an attempt found is in its backup, and a journal leads to it while
\* it is not in its place.
SaveKept ==
    ~ Installed =>
        /\ pc \in {"idle", "backup", "restoreBank"} => disk.save # Missing
        /\ pc = "restoreSave" => disk.saveBak # Missing \/ disk.save # Missing
        /\ pc \in {"backup", "journal"} => before.save = disk.save
        /\ Attempted =>
             /\ disk.saveBak = before.save /\ before.save # Missing
             /\ disk.journal = Written \/ disk.save = before.save
             /\ pc \in {"recoverBank", "removeJournal"} => disk.save = before.save

\* The bank's backup is whole and not newer than the bank.
BankKept ==
    /\ disk.bankBak # Torn
    /\ disk.bank \in Nat => disk.bank <= made
    /\ disk.bankBak \in Nat => disk.bankBak <= made
    /\ before.bank \in Nat
    /\ pc \in {"idle"} \cup TrySteps \cup CatchSteps => disk.bank # Torn
    /\ pc \in BeforeRotation => before.bank = ReadBank(disk.bank)
    /\ pc \in {"dropOld", "rotate"} => disk.bank # Missing
    /\ pc = "rotate" => disk.bankBak = Missing
    /\ pc = "publish" => disk.bank = Missing
    /\ pc = "publish" /\ phase = "backedUp" => before.bank = 0
    /\ pc = "publish" /\ phase = "rotated" => disk.bankBak = before.bank

NotNewer == disk.bankBak = Missing \/ (disk.bank \in Nat /\ disk.bankBak <= disk.bank)

\* For an export: how bank, backup and journal go together.
ExportBank ==
    ~ Installed =>
        /\ NotNewer \/ disk.bank = Torn \/ (disk.bank = Missing /\ disk.journal = Written)
        /\ pc \in {"idle"} \cup BeforeRotation => NotNewer
        /\ pc = "publish" /\ phase = "backedUp" => disk.bankBak = Missing
        /\ pc = "removeJournal" => disk.bank = disk.bankBak \/ disk.bankBak = Missing
        /\ phase = "backedUp" =>
             /\ disk.bankBak \in Nat => disk.bankBak <= before.bank
             /\ disk.bank \in Nat => disk.bank <= before.bank \/ before.bank = 0
             /\ disk.bank = Torn => disk.journal # Missing /\ disk.bankBak # Missing
        /\ phase = "rotated" =>
             \/ disk.bankBak = before.bank /\ (disk.journal # Missing \/ disk.bank = before.bank)
             \/ disk.bankBak = Missing /\ disk.bank = before.bank

\* For a title: its save is in the backup, and a bank that is missing too.
TitleKept ==
    Installed /\ Attempted =>
        /\ disk.backup = before.save
        /\ phase = "backedUp" /\ disk.bank = Missing => before.bank = 0
        /\ phase = "rotated" /\ disk.bank = Missing => disk.bankBak = before.bank

TitleBegun == Installed /\ pc = "backup" => before.save = original.save

IInv == /\ TypeOK /\ PhaseFits /\ WritesStaged /\ Settled /\ Powerless
        /\ SaveKept /\ BankKept /\ ExportBank /\ TitleKept /\ TitleBegun

-----------------------------------------------------------------------------
(* Files *)

USE CommitAssumption DEF Generations, Contents, Files, Installed

\* d comes from the files as they are by tearing some of those being written.
CutFrom(d) ==
    /\ d.save = disk.save \/ (d.save = Torn /\ "save" \in BeingWritten)
    /\ d.saveBak = disk.saveBak \/ (d.saveBak = Torn /\ "saveBak" \in BeingWritten)
    /\ d.saveTmp = disk.saveTmp \/ (d.saveTmp = Torn /\ "saveTmp" \in BeingWritten)
    /\ d.bank = disk.bank \/ (d.bank = Torn /\ "bank" \in BeingWritten)
    /\ d.bankBak = disk.bankBak
    /\ d.bankTmp = disk.bankTmp \/ (d.bankTmp = Torn /\ "bankTmp" \in BeingWritten)
    /\ d.backup = disk.backup \/ (d.backup = Torn /\ "backup" \in BeingWritten)
    /\ d.journal = disk.journal \/ (d.journal = Torn /\ "journal" \in BeingWritten)

\* An operation that is cut short tears at most what it was writing, and no
\* operation writes into the bank's backup.
LEMMA CutShortFiles ==
    ASSUME disk \in Disk, NEW d \in CutShort
    PROVE  d \in Disk /\ CutFrom(d)
<1>1. CASE d = disk
  BY <1>1 DEF CutFrom
<1>2. CASE \E file \in BeingWritten : d = [disk EXCEPT ![file] = Torn]
  <2>1. PICK file \in BeingWritten : d = [disk EXCEPT ![file] = Torn]
    BY <1>2
  <2>2. file \in {"save", "saveBak", "saveTmp", "bank", "bankTmp", "backup", "journal"}
    BY DEF BeingWritten, BackupFile
  <2>3. d \in Disk
    BY <2>1, <2>2 DEF Disk
  <2>4. CutFrom(d)
    BY <2>1, <2>2 DEF Disk, CutFrom
  <2> QED
    BY <2>3, <2>4
<1> QED
  BY <1>1, <1>2 DEF CutShort

\* Renaming from one name to another, as rename and saveAtomic do.
LEMMA RenameFiles ==
    ASSUME disk \in Disk
    PROVE  /\ LET d == [disk EXCEPT !.save = disk.saveTmp, !.saveTmp = Missing] IN
             /\ d \in Disk
             /\ d.save = disk.saveTmp /\ d.saveTmp = Missing
             /\ d.saveBak = disk.saveBak /\ d.bank = disk.bank /\ d.bankBak = disk.bankBak
             /\ d.bankTmp = disk.bankTmp /\ d.backup = disk.backup /\ d.journal = disk.journal
           /\ LET d == [disk EXCEPT !.bankBak = disk.bank, !.bank = Missing] IN
             /\ d \in Disk
             /\ d.bankBak = disk.bank /\ d.bank = Missing
             /\ d.save = disk.save /\ d.saveBak = disk.saveBak /\ d.saveTmp = disk.saveTmp
             /\ d.bankTmp = disk.bankTmp /\ d.backup = disk.backup /\ d.journal = disk.journal
           /\ LET d == [disk EXCEPT !.bank = disk.bankTmp, !.bankTmp = Missing] IN
             /\ d \in Disk
             /\ d.bank = disk.bankTmp /\ d.bankTmp = Missing
             /\ d.save = disk.save /\ d.saveBak = disk.saveBak /\ d.saveTmp = disk.saveTmp
             /\ d.bankBak = disk.bankBak /\ d.backup = disk.backup /\ d.journal = disk.journal
           /\ LET d == [disk EXCEPT !.bank = disk.bankBak, !.bankBak = Missing] IN
             /\ d \in Disk
             /\ d.bank = disk.bankBak /\ d.bankBak = Missing
             /\ d.save = disk.save /\ d.saveBak = disk.saveBak /\ d.saveTmp = disk.saveTmp
             /\ d.bankTmp = disk.bankTmp /\ d.backup = disk.backup /\ d.journal = disk.journal
BY DEF Disk

-----------------------------------------------------------------------------
(* The invariant *)

USE DEF IInv, TypeOK, PhaseFits, WritesStaged, Settled, Powerless, SaveKept, BankKept,
        ExportBank, TitleKept, TitleBegun, NotNewer, Attempted, ReadBank, RecoverySteps,
        TrySteps, CatchSteps, BeforeRotation, Journalled, memory, faults, history, Step

\* It holds before the first load.
LEMMA InitInv == Init => IInv
BY DEF Init, Disk

\* Recovery and reading.
LEMMA LoadInv == IInv /\ LoadStep => IInv'
<1> SUFFICES ASSUME IInv, LoadStep PROVE IInv'
  OBVIOUS
<1>1. CASE Load
  BY <1>1 DEF Load
<1>2. CASE RecoverSave
  BY <1>2 DEF RecoverSave, With, SaveIsRecoverable, Disk
<1>3. CASE RecoverBank
  BY <1>3 DEF RecoverBank, With, BankIsRecoverable, Disk
<1>4. CASE RemoveJournal
  BY <1>4 DEF RemoveJournal, With, Disk
<1>5. CASE Read
  BY <1>5 DEF Read, Disk
<1> QED
  BY <1>1, <1>2, <1>3, <1>4, <1>5 DEF LoadStep

\* What the user does, up to the begin of a commit.
LEMMA UserInv == IInv /\ UserStep => IInv'
<1> SUFFICES ASSUME IInv, UserStep PROVE IInv'
  OBVIOUS
<1>1. CASE Edit
  BY <1>1 DEF Edit, Disk
<1>2. CASE Discard
  BY <1>2 DEF Discard
<1>3. CASE Quit
  BY <1>3 DEF Quit
<1>4. CASE Begin
  BY <1>4 DEF Begin, BackupSource, Disk
<1> QED
  BY <1>1, <1>2, <1>3, <1>4 DEF UserStep

\* The attempt, up to the bank.
LEMMA SaveFileInv == IInv /\ (Backup \/ ExportStep \/ TitleStep) => IInv'
<1> SUFFICES ASSUME IInv, Backup \/ ExportStep \/ TitleStep PROVE IInv'
  OBVIOUS
<1>1. CASE Backup
  BY <1>1 DEF Backup, Reaches, With, BackupFile, BackupSource, Disk
<1>2. CASE WriteJournal
  BY <1>2 DEF WriteJournal, With, Disk
<1>3. CASE WriteTemporary
  BY <1>3 DEF WriteTemporary, With, Disk
<1>4. CASE RemoveSave
  BY <1>4 DEF RemoveSave, With, Disk
<1>5. CASE RenameSave
  BY <1>5, RenameFiles DEF RenameSave
<1>6. CASE WriteTitle
  BY <1>6 DEF WriteTitle, With, Disk
<1>7. CASE ClearSecureValue
  BY <1>7 DEF ClearSecureValue
<1>8. CASE Unjournal
  BY <1>8 DEF Unjournal, Accept, With, Disk
<1> QED
  BY <1>1, <1>2, <1>3, <1>4, <1>5, <1>6, <1>7, <1>8 DEF ExportStep, TitleStep

\* The bank's saveAtomic, and the catch block of commit.
LEMMA BankFileInv == IInv /\ (BankStep \/ CatchStep) => IInv'
<1> SUFFICES ASSUME IInv, BankStep \/ CatchStep PROVE IInv'
  OBVIOUS
<1>1. CASE WriteBankTemporary
  BY <1>1 DEF WriteBankTemporary, With, Disk
<1>2. CASE DropOldBackup
  BY <1>2 DEF DropOldBackup, Reaches, With, Disk
<1>3. CASE Rotate
  BY <1>3, RenameFiles DEF Rotate
<1>4. CASE Publish
  <2>1. pc = "publish" /\ disk' = Published /\ UNCHANGED <<source, made, crashes, failures, before>>
    BY <1>4 DEF Publish, Accept
  <2>2. /\ disk' \in Disk /\ disk'.bank = disk.bankTmp /\ disk'.bankTmp = Missing
        /\ disk'.save = disk.save /\ disk'.saveBak = disk.saveBak /\ disk'.saveTmp = disk.saveTmp
        /\ disk'.bankBak = disk.bankBak /\ disk'.backup = disk.backup
        /\ disk'.journal = disk.journal
    BY <2>1, RenameFiles DEF Published
  <2>3. CASE Installed
    <3>1. /\ pc' = "idle" /\ original' = [save |-> staged, bank |-> staged] /\ staged' = 0
          /\ phase' = "none" /\ committed' = staged
      BY <1>4, <2>3 DEF Publish, Accept
    <3> QED
      BY <2>1, <2>2, <2>3, <3>1
  <2>4. CASE ~ Installed
    <3>1. pc' = "unjournal" /\ UNCHANGED <<original, staged, phase, committed>>
      BY <1>4, <2>4 DEF Publish
    <3> QED
      BY <2>1, <2>2, <2>4, <3>1
  <2> QED
    BY <2>3, <2>4
<1>5. CASE RestoreSave
  BY <1>5 DEF RestoreSave, With, Disk
<1>6. CASE RestoreBank
  BY <1>6 DEF RestoreBank, With, BankIsRecoverable, Disk
<1> QED
  BY <1>1, <1>2, <1>3, <1>4, <1>5, <1>6 DEF BankStep, CatchStep

\* What goes wrong.
LEMMA FaultInv == IInv /\ Fault => IInv'
<1> SUFFICES ASSUME IInv, Fault PROVE IInv'
  OBVIOUS
<1> USE DEF Failing, CutFrom, BeingWritten, BackupFile, SaveIsRecoverable,
           BankIsRecoverable
<1>1. CASE StepFails
  <2>1. disk' \in Disk /\ CutFrom(disk')
    BY <1>1, CutShortFiles DEF StepFails
  <2>2. TypeOK'
    BY <1>1, <2>1 DEF StepFails
  <2>3. PhaseFits'
    BY <1>1, <2>1 DEF StepFails
  <2>4. WritesStaged'
    BY <1>1, <2>1 DEF StepFails
  <2>5. Settled'
    BY <1>1, <2>1 DEF StepFails
  <2>6. Powerless'
    BY <1>1, <2>1 DEF StepFails
  <2>7. SaveKept'
    BY <1>1, <2>1 DEF StepFails
  <2>8. BankKept'
    BY <1>1, <2>1 DEF StepFails
  <2>9. ExportBank'
    BY <1>1, <2>1 DEF StepFails
  <2>10. TitleKept'
    BY <1>1, <2>1 DEF StepFails
  <2>11. TitleBegun'
    BY <1>1, <2>1 DEF StepFails
  <2> QED
    BY <2>2, <2>3, <2>4, <2>5, <2>6, <2>7, <2>8, <2>9, <2>10, <2>11
<1>2. CASE PublishFails
  <2>1. /\ pc = "publish" /\ pc' = "restoreSave" /\ failures' \in 1 .. MaxFailures
        /\ UNCHANGED <<memory, phase, crashes, before, committed>>
    BY <1>2 DEF PublishFails
  <2>2. CASE UNCHANGED disk
    BY <2>1, <2>2
  <2>3. CASE BankIsRecoverable /\ disk' = [disk EXCEPT !.bank = disk.bankBak, !.bankBak = Missing]
    <3>1. /\ disk' \in Disk /\ disk'.bank = disk.bankBak /\ disk'.bankBak = Missing
          /\ disk'.save = disk.save /\ disk'.saveBak = disk.saveBak
          /\ disk'.saveTmp = disk.saveTmp /\ disk'.bankTmp = disk.bankTmp
          /\ disk'.backup = disk.backup /\ disk'.journal = disk.journal
      BY <2>3, RenameFiles
    <3> QED
      BY <2>1, <2>3, <3>1
  <2> QED
    BY <1>2, <2>2, <2>3 DEF PublishFails
<1>3. CASE RestoreTitleFails
  BY <1>3 DEF RestoreTitleFails
<1>4. ASSUME Ends PROVE disk' \in Disk /\ CutFrom(disk')
  BY <1>4, CutShortFiles DEF Ends
<1>5. CASE CallFails
  <2>1. Ends /\ disk' \in Disk /\ CutFrom(disk')
    BY <1>4, <1>5 DEF CallFails
  <2>2. TypeOK'
    BY <1>5, <2>1 DEF CallFails, Ends
  <2>3. PhaseFits'
    BY <1>5, <2>1 DEF CallFails, Ends
  <2>4. WritesStaged'
    BY <1>5, <2>1 DEF CallFails, Ends
  <2>5. Settled'
    BY <1>5, <2>1 DEF CallFails, Ends
  <2>6. Powerless'
    BY <1>5, <2>1 DEF CallFails, Ends
  <2>7. SaveKept'
    BY <1>5, <2>1 DEF CallFails, Ends
  <2>8. BankKept'
    BY <1>5, <2>1 DEF CallFails, Ends
  <2>9. ExportBank'
    BY <1>5, <2>1 DEF CallFails, Ends
  <2>10. TitleKept'
    BY <1>5, <2>1 DEF CallFails, Ends
  <2>11. TitleBegun'
    BY <1>5, <2>1 DEF CallFails, Ends
  <2> QED
    BY <2>2, <2>3, <2>4, <2>5, <2>6, <2>7, <2>8, <2>9, <2>10, <2>11
<1>6. CASE PowerLoss
  <2>1. Ends /\ disk' \in Disk /\ CutFrom(disk')
    BY <1>4, <1>6 DEF PowerLoss
  <2>2. TypeOK'
    BY <1>6, <2>1 DEF PowerLoss, Ends
  <2>3. PhaseFits'
    BY <1>6, <2>1 DEF PowerLoss, Ends
  <2>4. WritesStaged'
    BY <1>6, <2>1 DEF PowerLoss, Ends
  <2>5. Settled'
    BY <1>6, <2>1 DEF PowerLoss, Ends
  <2>6. Powerless'
    BY <1>6, <2>1 DEF PowerLoss, Ends
  <2>7. SaveKept'
    BY <1>6, <2>1 DEF PowerLoss, Ends
  <2>8. BankKept'
    BY <1>6, <2>1 DEF PowerLoss, Ends
  <2>9. ExportBank'
    BY <1>6, <2>1 DEF PowerLoss, Ends
  <2>10. TitleKept'
    BY <1>6, <2>1 DEF PowerLoss, Ends
  <2>11. TitleBegun'
    BY <1>6, <2>1 DEF PowerLoss, Ends
  <2> QED
    BY <2>2, <2>3, <2>4, <2>5, <2>6, <2>7, <2>8, <2>9, <2>10, <2>11
<1> QED
  BY <1>1, <1>2, <1>3, <1>5, <1>6 DEF Fault

\* The invariant holds in every reachable state, for any number of generations,
\* power losses and failing operations.
THEOREM Invariance == Spec => []IInv
<1>1. IInv /\ Next => IInv'
  BY LoadInv, UserInv, SaveFileInv, BankFileInv, FaultInv DEF Next
<1>2. IInv /\ UNCHANGED vars => IInv'
  BY DEF vars
<1> HIDE DEF IInv
<1>3. IInv /\ [Next]_vars => IInv'
  BY <1>1, <1>2
<1> QED
  BY <1>3, InitInv, PTL DEF Spec

-----------------------------------------------------------------------------
(* The properties of the runs *)

\* The variables keep their types: a journal is never written for a title, nor
\* the title's backup for an exported save.
THEOREM TypeCorrect == Spec => []TypeOK
<1>1. IInv => TypeOK
  BY DEF TypeOK
<1> HIDE DEF IInv, TypeOK
<1> QED
  BY <1>1, Invariance, PTL

\* What commit() has reported as saved, save and bank, a later load gives back,
\* whatever failed or was cut short before it.
THEOREM SuccessStays == Spec => []SuccessIsDurable
<1>1. IInv => SuccessIsDurable
  BY DEF SuccessIsDurable, Recovered, SaveIsRecoverable, BankIsRecoverable
<1> HIDE DEF IInv, TypeOK
<1> QED
  BY <1>1, Invariance, PTL

\* However many power losses there are, recovery included, an exported save is
\* the one last committed.
THEOREM PowerLossSafe == Spec => []SaveSurvivesPowerLoss
<1>1. IInv => SaveSurvivesPowerLoss
  BY DEF SaveSurvivesPowerLoss, Recovered, SaveIsRecoverable, BankIsRecoverable
<1> HIDE DEF IInv, TypeOK
<1> QED
  BY <1>1, Invariance, PTL

\* From the moment the copy of an exported save is complete, the journal and the
\* catch block bring it back, and never with a bank newer than the attempt found.
THEOREM BackupWorks == Spec => []BackupBringsSaveBack
<1>1. IInv => BackupBringsSaveBack
  <2> SUFFICES ASSUME IInv, ~ Installed, Attempted
               PROVE  /\ Recovered.save = before.save
                      /\ Recovered.bank > before.bank => before.bank = 0
    BY DEF BackupBringsSaveBack
  <2>1. Recovered.save = before.save
    BY DEF Recovered, SaveIsRecoverable
  <2>2. CASE disk.journal # Missing /\ BankIsRecoverable
    <3>1. Recovered.bank = disk.bankBak /\ disk.bankBak \in Nat
      BY <2>2 DEF Recovered, BankIsRecoverable, Disk
    <3>2. before.bank \in Nat /\ disk.bankBak <= before.bank
      BY <2>2, <3>1 DEF BankIsRecoverable
    <3> QED
      BY <2>1, <3>1, <3>2
  <2>3. CASE ~ (disk.journal # Missing /\ BankIsRecoverable)
    <3>1. Recovered.bank = ReadBank(disk.bank)
      BY <2>3 DEF Recovered
    <3>2. disk.bank \in Nat \cup {Missing}
      BY <2>3 DEF BankIsRecoverable, Disk
    <3>3. before.bank = 0 \/ ReadBank(disk.bank) <= before.bank
      BY <2>3, <3>2 DEF BankIsRecoverable
    <3> QED
      BY <2>1, <3>1, <3>2, <3>3
  <2> QED
    BY <2>2, <2>3
<1> HIDE DEF IInv, TypeOK
<1> QED
  BY <1>1, Invariance, PTL

\* Once the bank's old backup is gone, save and bank are brought back together.
THEOREM RollBackWhole == Spec => []RollBackIsWhole
<1>1. IInv => RollBackIsWhole
  BY DEF RollBackIsWhole, Recovered, SaveIsRecoverable, BankIsRecoverable
<1> HIDE DEF IInv, TypeOK
<1> QED
  BY <1>1, Invariance, PTL

\* The save and the bank an attempt on a title began with are never lost.
THEOREM TitleSafe == Spec => []TitleHasBackup
<1>1. IInv => TitleHasBackup
  BY DEF TitleHasBackup
<1> HIDE DEF IInv, TypeOK
<1> QED
  BY <1>1, Invariance, PTL
===============================================================================
