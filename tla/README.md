# YKSM in TLA+

YKSM is a Nintendo 3DS program that moves Yo-kai between the save files of the
Yo-kai Watch games and a bank file on the SD card. It is a fork of PKSM: the new code
is under `src/common/source/yokai` (the model of a save, the bank, the transfer
session), `src/3ds/source/yokai` (where saves are found and written) and four screens in
`src/3ds/source/gui/screen/Yokai*.cpp`. The rest of the tree is inherited.

What a player risks is a collection. Everything here serves one question: *whatever is
moved, copied, undone, refused, saved, and interrupted, is each Yo-kai still in exactly
the places it should be?* The first group of modules answers it in three layers, the tables in
memory, the screen above them and the files below them. The second group models what the
program stands on and where its threads are: the thread pool, start-up, main loop and
shutdown with the music, and the queue of web requests with the page browser over it.

## 1. The system

### Components of the transfer path

| Component | State it keeps | Operations | Correct when |
|---|---|---|---|
| **Save image** `yokai/SaveImage.cpp` | decrypted bytes: a table of record slots, a list of identifiers whose first positions are the active party | `records`, `partySlots`, `isPartySlot`, `remove`, `insert` (+ `assignNumbers`, `syncIndex`) | slots and list tell the same story; the party is never disturbed |
| **Bank** `yokai/YokaiBank.cpp` | entries, `mNextId`, `mNextArrival` | `append`, `erase`, `find`, `encode`/`decode`, `load`, `saveAtomic` | an id names one entry, before and after a reload; there is always a whole file |
| **Transfer session** `yokai/Session.cpp` | working copies and originals of both, `mDirty` | `deposit`, `withdraw`, `copyToBank`, `copyToSave`, `discard`, `acceptCommitted` | no Yo-kai lost, none made except by a copy, a failure leaves the session as it was |
| **Record conversion** `yokai/Transfer.cpp`, `Species.cpp` | none | `compatible`, `convertRecord`, `convertedIvs`, `validateRecord` | the converted record is one the target game accepts |
| **Commit and recovery** `YokaiBankScreen::commit`, `Bank::saveAtomic`, `recoverInterruptedExportCommit` | eight files and the archive of a title | one long sequence of file operations, its catch block, and the recovery at the next load | save and bank move together, or not at all |
| **Transfer screen** `YokaiBankScreen.cpp` | rows, sort orders, marks, mode, active pane | marking, move, copy, sort, commit, discard, leave | it shows the session; a mark goes on naming the Yo-kai the player marked |
| **Title source** `yokai/YokaiTitleSource.cpp` | the title database, save archives, secure values | `discover`, `inspectTitle`, `write` | a written save is committed to its archive and its secure value cleared |
| **Save selection and overview** `YokaiTitleSelectScreen.cpp`, `YokaiSaveOverviewScreen.cpp` | two indices, the save that is open | open a save, go to the transfer screen, come back | a save that cannot be read is not opened |
| **Save cryptography** `yokai/Crypto.cpp` | none | stream cipher, CRC, AES-CCM, section order | `decrypt` and `encrypt` are inverse |

### How they interact

Everything on the transfer path runs on the main thread, by calls and exceptions; the hard part
there is not threads but *partial failure*: an exception at any call, and the power going off
between any two file operations.

```
 keys --> YokaiBankScreen --calls--> Session --mutates--> SaveImage, Bank (working copies)
               |  ^                     ^                       originals (for discard)
               |  +-- rows, marks       | acceptCommitted
               +-- commit() ------------+--> save file / title archive, bank.ykb,
                                             their backups and temporaries, the journal
 SaveContext::load <-- recoverInterruptedExportCommit <-- journal, backups
```

* The screen names a Yo-kai of the save by a *record it read earlier* (a row) and a Yo-kai
  of the bank by its *id*. Both can be out of date when they are used.
* `Session` edits two values that must change together and undoes the first when the second
  throws.
* `commit()` writes two files that must change together. An exported save has a
  journal, an installed title has a backup only, and both kinds share one bank.
* `SaveContext::load` decides from which files are present what an interrupted
  commit was doing. It sees no generation number and no checksum of the backups.

### Inherited components

| Inherited component | State | Operations | Hard behaviour |
|---|---|---|---|
| **Thread pool** `3ds/source/utils/thread.cpp` | task queue, semaphore, worker counts, thread list, two events | `init`, `background`, `executeTask`, the worker, the reaper, `exit` | the queue and the semaphore are two structures; a worker that leaves while a task comes; the reaper's index over an unlocked wait; exit against all of them |
| **Screen stack** `ScreenStack.cpp` | stack, pending pushes and pops | `push`, `requestPop`, `applyPending` | several changes asked for in one frame |
| **Start-up and shutdown** `app.cpp`, `Subsystems.cpp`, `main.cpp`, parts of `gui.cpp` | the teardowns on record | `App::init`, main loop, `App::exit`, font loader | releasing what was acquired when a later step fails, under threads that use it |
| **Background music** `sound.cpp` | two flags, one event | `init`, `start`, `exit`, sound thread, frame callback | a thread that has not begun looks like one that has ended; a sound chip that goes silent |
| **Download queue** `fetch.cpp` | records in flight, curl's multi handle | `submit`, `getAsync`, `cancel`, `await`, `download`, fetch thread, `exit` | a cancel that meets the end of its transfer; retries; exit under a caller that waits |
| **Page browser** `GpssBrowser.cpp` | page on screen, its two neighbours | `query`, `jumpPage`, `nextPage`, `prevPage`, `refresh` | pages fetched ahead for a search that changes meanwhile |

```
 App::init --acquires--> ... Threads ... Gui --starts--> font loader, sound thread
    | (record of teardowns)       |   ^                        |          ^
 App::exit --releases backwards---+   +-- both are threads of  |          | event
    |                                     the pool's list ----+   ndsp frame callback
 main loop --per frame--> ScreenStack.applyPending, then the top screen
 a screen --> GpssBrowser --submit--> fetch thread --callback--> slot --spin--> the screen
```

* Start-up, shutdown, threads, screen stack and music run in every session of YKSM.
  The fetch thread does not: `App::init` does not acquire `Fetch` (`app.cpp:25-45`) and no
  screen YKSM itself adds downloads. The queue and the browser are modelled as the inherited
  code stands, from `Fetch::init` on.
* A thread is created with `Threads::background` or by the pool; nobody looks at whether that
  worked. Shutdown waits for the font loader by an event, for the sound thread by a flag,
  and for every thread by the reaper.
* The browser asks on the main thread and is answered on the fetch thread, which publishes a
  slot's contents before it sets `ready`.

Wireless transfer (`TransferProtocol.cpp`, `WirelessTransfer.cpp`, `server.cpp`), the Pokemon
banks (`Bank.cpp`, `banks.cpp`), the other screens and the script interpreter, configuration
and assets are compiled in, but no screen of YKSM opens what uses them. Archives and files
(`io/`) wrap system calls. `PROJECT.json` lists each with its status.

## 2. Modules

| Module | Models | Extends / instantiates |
|---|---|---|
| `SaveImage` | slots and identifier list; `remove`, `insert`, the queries | |
| `YokaiBank` | entries and counters; `append`, `erase`, `find`, `decode(encode())` | |
| `Session` | one action per operation, successful and throwing | extends both |
| `SessionProperties` | its properties and its refinement mapping | extends `Session`, instantiates `Collection` |
| `Collection` | *abstract*: how many of each Yo-kai on either side, and what a discard brings back | |
| `BankScreen` | the transfer screen around the session | extends `Session`, whose actions are the calls it makes |
| `BankScreenProperties` | its properties | extends `BankScreen` |
| `Conversion` | what individual values and level become over a chain of games; `validateRecord` | |
| `ConversionProperties` | its properties | extends `Conversion` |
| `Commit` | every file operation of a commit, of its undoing and of recovery | |
| `CommitProperties` | its properties | extends `Commit` |
| `Executor` | *abstract*: tasks wait, start in order, at most once, and not after the end | |
| `ThreadPool` | the threads of the program, one step per lock, atomic access or kernel call | |
| `ThreadPoolProperties` | its properties and its refinement mapping | extends `ThreadPool`, instantiates `Executor` |
| `ScreenStack` | pending pushes and pops, applied one by one | |
| `Music` | the sound thread, the frame callback, the flags between them | |
| `App` | start-up, main loop and shutdown, with the font loader | extends `ScreenStack`, `Music` |
| `AppProperties` | its properties | extends `App` |
| `Fetch` | requests, the fetch thread, cancel, download, exit | |
| `GpssBrowser` | paging over a search on the server | extends `Fetch` |
| `GpssBrowserProperties` | the properties of both | extends `GpssBrowser` |
| `MCSession`, `MCBankScreen`, `MCConversion`, `MCCommit`, `MCThreadPool`, `MCApp`, `MCGpssBrowser` | the instances TLC checks | extend the properties |
| `StoreProofs` | lemmas about the operators of `SaveImage` and `YokaiBank` | extends both |
| `SessionProofs`, `BankScreenProofs` | proofs of the session and of the screen over it | extend the properties; `BankScreenProofs` extends `SessionProofs` as well |
| `ConversionProofs`, `CommitProofs`, `AppProofs`, `ThreadPoolProofs`, `GpssBrowserProofs` | proofs | each extends the properties it proves |

`PROJECT.json` maps each definition to the lines it stands for.

### Save image

`slots` is the record table (a record is a Yo-kai, `body`, and its two-part identifier,
`number`), `index` the identifier list. A body stands for all bytes of a record the code does
not interpret. The identifier matters bit for bit: `assignNumbers` takes the highest
first half plus one modulo 2^16, so a half is a member of `0 .. NumberSpace - 1`
and wraps. `CanRemove` and `CanInsert` are the guards that throw in the code;
`Removed` and `Inserted` are what the calls do, `syncIndex` included: removing moves
up all identifiers behind the removed one, inserting takes the first blank reserve position.

### Bank

Entries in file order with id, arrival, game and record. `Appended` takes both counters;
`AppendFailed` is an `append` whose storage fails, after the counters were taken;
`Reloaded` is `decode(encode(bank))`: entries sorted by arrival, counters one above the highest
in use, so that ids of erased entries come back.

### Session

| Action | Code |
|---|---|
| `Deposit`, `DepositFails` | `Session::deposit`; the second is its catch block, which reinserts the record |
| `CopyToBank`, `CopyToBankFails` | `copyToBank` |
| `Withdraw`, `CopyToSave` | `withdraw`, `copyToSave`, with conversion and renumbering |
| `Discard`, `AcceptCommitted`, `Load` | `discard`, `acceptCommitted`, and the constructor on the files as committed |

A call that throws before it changed anything is not a step. The caller's record is any the
session has shown for that slot, now or when it was opened. The history variable
`wrapped` records that `assignNumbers` has wrapped to zero. The properties
of the identifier list that need fresh identifiers say `~ wrapped`; without it they
fail, which run `session_numbers` shows.

### Record conversion

One Yo-kai on a journey through the games: `Convert(target)` is `convertRecord`, with the guard
`validateRecord` puts at its end. `Scale` is the rounding by largest remainders; Yo-kai Watch
distributes ten points, the later games forty and store the first doubled, Blasters has
four values. `origin` and `coarse` are history: where the Yo-kai began and whether it has been in a
game that keeps less of its values than that one.

### Transfer screen

`gameRows`, `bankRows`, `party` are what `refresh()` last computed; `markedSlots`, `markedIds` the
two sets of marks; `call` is a batch under way with what is left of it, one Yo-kai per
step, so that an exception between two of them is a step as well. A handler whose
exception is caught refreshes; `stale` is a history variable: a batch failed in
the bank, with marks already out of date. Cursors are not
state: a cursor can be brought to any row, so an action that reads one takes any row.

The screen calls the session by the actions of `Session` itself, so that a step of the
screen is a session step or leaves the session alone (`ActsThroughSession`). `Ascending` puts
rows in the order of a key and rows of the same key in the order they had, which is what
`std::stable_sort` does; `InSetOrder` is the order in which the code walks a `std::set` of marks.

### Commit

A file holds a *generation*, the number of the staged changes it was written from. The
same number goes into the save and the bank, so that "they belong together" is
equality. Each file operation is one action (`pc` names the next). An
operation cut short, by an error or a power loss, leaves the file it was
overwriting as it was or `Torn`; rename and remove are all or nothing. A torn save
or bank is refused by its checksum when it is loaded, a torn journal names no save, a torn
*backup* is not recognised by the code at all. `before`, `phase` and `committed` are history:
what the last attempt found, how far it came, what was last reported as saved.

### Thread pool

`list` is the list of thread handles, oldest first (the code keeps the first two places of its
array of handles for the two events, `exitEvent` and `updateEvent`). `tasks` and `permits` are the
queue and the semaphore; `numWorkers`, `freeWorkers`, `minWorkers` the counters of the same names.
`pc`, `main` and `reaper` say where each thread is, `held` the task a worker has taken, `at` the
one number the reaper carries over its unlocked wait: how many handles it waits for, and then the
index of the one that ended.

| Actions | Code |
|---|---|
| `StartWorker`, `InitReturns`, `Background` | `Threads::init`, `background` |
| `PushTask`, `ReleasePermit`, `CountWorkers`, `CountSpare`, `CreateWorker` | `executeTask`, up to the worker it may start |
| `WorkerBegins` ... `WorkerEnds`, `JobEnds` | `taskWorkerThread` read by read, any other thread |
| `ReaperScan` ... `ReaperEnds` | `reapThread`; it keeps the lock on the list while it joins |
| `ExitClear` ... `ExitClose` | `Threads::exit` |

`Spawn` fails when the list is full or the kernel has no memory for a stack. Tasks do not call
`executeTask` themselves: none in the program does.

### Start-up, main loop, shutdown

`Acquire` and `AcquireFails` go along `Names`, the ten steps of `App::init`; `held` is the record
of teardowns and `Release` takes the last one off it *before* it runs, as `releaseAll` does.
`Gui::init` and `Gui::exit` are taken apart (`GuiBegins`, `GuiFails`, `GuiReturns`; `FreeFonts`,
`StopMusicFirst`, `WakeForExit`, `SpinEnds`, `GuiIsDown`), because the threads meet them half-way. A
frame is `Frame`, in which the screen on top asks for any short sequence of pushes and pops, then
`EdgeBegins` and one `EdgeGoesOn` for each change. `ReplacementSurvives` says in one
formula what the loop of the code counts; `SurvivesAsCounted` compares the two. `PlayerSteps`,
`CallbackTests`, `CallbackSignals` are the sound thread and the callback of the sound chip.

### Requests and pages

`inFlight` is the list of records and what curl's multi handle holds, which change together under
one lock; `verdict` is how a transfer has ended, `done` what the fetch thread has drained and not
answered yet, `answers` the history of what the callback of each request has been given.
`Submit` answers at once what curl does not take. A cancelled request, a download with its
retries and the browser are three callers of the same queue (`company`). A slot of the
browser is the request that fills it: `current`, `next`, `prev`, and `arriving`, the one `adopt` spins
on, with the page number it will have. `asked` and `beyond` are history: which search and page
each request was for, and whether a page past the last has been shown since the last refresh.
The server's search grows and shrinks by `TotalChanges`.

`file` is what lies at the path of a download, stdio's buffer included: nothing, an empty file, a
part (or another page), or the bytes of one attempt from the first to the last. The thread that
downloads opens, closes and removes it (`DownloadAsks`, `DownloadReturns`); the fetch thread writes
it (`Writes`, in `TransferEnds`). `fclose` flushes the last of a 64 KB buffer and may fail, and so may
`remove`; the code looks at neither, and the history variable `cardFailed` says that it has happened.

## 3. What is checked

| Run | Shows |
|---|---|
| `session` | 177,431 states: `SaveStaysConsistent`, `BankStaysOrdered`, `RollbackAlwaysFits`, `ShownPartyIsGuarded`, `PartyUntouched`, `CleanMeansNothingStaged`, and the refinement `KeepsThePromise` of `Collection` |
| `bank_screen` | 661,308 states: `ScreenShowsSession`, `QueuedDepositsAreGood`, `MarkedIdsWereHandedOut`, `MarkedSlotsAreTaken`, and `ActsThroughSession`: every step is one of `Session` or none |
| `conversion` | 83,140 states: `AlwaysAccepted`, `ComesHomeUnchanged`, `OrderOfStatsKept`, from all 1,001 distributions of ten points, a sample of those of forty, and values no game stores |
| `commit` | 92,294 states, two power losses and two errors anywhere in up to three commits, recovery included: `SuccessIsDurable`, `SaveSurvivesPowerLoss`, `BackupBringsSaveBack`, `RollBackIsWhole`, `TitleHasBackup` |
| `thread_pool` | 167,953 states: `PermitPerTask` (queue and semaphore agree until exit), `FreesWhatEnded` (the reaper frees the thread it saw end), `NobodyOutlivesExit`; under fairness `ExitReturns`, `WorkersDrainQueue`; without any, `ExitGoesOn` (exit is held up by nothing, and what it waits for is bounded); and the refinement `KeepsThePromise` of `Executor` |
| `app` | 44,532 states: `ScreenInEveryFrame`, `SurvivesAsCounted`, `NothingUsedAfterRelease`; under fairness `ExitReturns`; without any, `LeavingGoesOn`, the same of `App::exit` |
| `gpss_browser` | 352,214 states: `AnswerIsComing` (what a thread waits for is on its way), `AnsweredOnce`, `WritesIntoOpenFile` (no transfer writes through a file that is closed), `FileIsWhole` (what is kept is of one attempt), `PagesFit`; under fairness `NobodyWaitsForEver` |
| `session_numbers`, `party_marked`, `commit_stale_bank`, `commit_torn_backup`, `task_stranded` | what a document, a comment or a message says and the code does not do (section 6) |

Every property of a passing run has a variant of the code under which TLC finds it violated
(`mutants` in `PROJECT.json`; the variants stand in the modules, marked *Variant*, in
front of the definition they replace).

The types of `App`, `Conversion`, `GpssBrowser`, `BankScreen` and `ThreadPool` are proved (`TypeCorrect`, `ScreenTypes`)
and not part of a run; the other modules have theirs in both.

### Bounds

| Bound | Why it is enough |
|---|---|
| `Slots = 3`, `PartySize = 1` | a party member, a record behind the one removed (so that the list shifts) and a free slot. Every initial save of `session` that satisfies `Consistent` is tried, blank party positions included. |
| `NumberSpace` 8, 4 | room for fresh identifiers, and so few that a run of copies reaches the wrap |
| `MaxEntries = 2`, `MaxId = 3` | a middle entry to erase and an id that comes back after a reload. The code has no capacity of its own below the id space; the bound cuts behaviours, it models no full bank. |
| `MaxCommitId = 2` (`bank_screen`) | commits happen while ids are left to hand out afterwards |
| `SortModes` two of three in `bank_screen` | "name" and "level" differ only in the key; `party_marked` has all three |
| `InitialIvs` | ten points in every way; forty in steps of 5 or 10, which meet every case of the rounding on the way to ten points; 0, 7 and 255 in every combination for values that are no distribution |
| `InitialLevels = {0, 255}` | both sides of the clamp |
| `MaxGen = 3` | a first commit (no bank file yet), one that finds a bank without a backup, one that finds an old backup |
| `MaxCrashes = 2`, `MaxFailures = 2` | a fault, and a fault while the first is being repaired; PublishFails takes two at once |
| `Tasks` two, `MaxWorkers = 2`, `MinChoices = {0, 1}` | order between tasks, two workers, a worker that is permanent and none; the program has at most two workers and no permanent one |
| `MaxThreads = 2`, `MaxCreated = 3`, `MayRunOut` | a list that is full, a place in it that is used again, a third thread after one was freed, and a kernel without memory |
| `MaxScreens = 3`, `MaxRequests = 3` (`app`) | a pop of the last screen before, between and after pushes |
| `OtherFonts = 2` | shutdown before, during and after the loader |
| `MaxRequests = 6` (`gpss_browser`), `Totals` 1 to 3, `PerPage = 1` | a refresh with both neighbours and turns after it; one page, two (where the neighbours are the same page) and three |
| `MaxChanges = 1`, two `Searches` | the search changes under a page that is shown, awaited or fetched ahead |
| `MAX_ATTEMPTS = 2` | a first attempt, a retry, and an end by the limit |
| `Companies` | the browser alone, and a download beside a request that is cancelled. The browser shares no state with the other two but the queue. |

A turn of the fetch thread that finds nothing over changes nothing and is left out.
The deadlock check is off in `thread_pool`, `task_stranded`, `app` and `gpss_browser`, because the
program stops there: `Threads::exit`, `App::exit` and `Fetch::exit` end the behaviour. That they
get there is what `ExitReturns` says. The other components can always take another step.

### Fairness

The transfer path assumes none and claims no liveness: it is sequential, a user decides when
anything happens, and nothing promises a player that they will go on.

Where there are threads, weak fairness is assumed for each thread that can go on by itself:

* the main thread inside `init`, `executeTask`, `exit`, a frame or a wait. The console's
  scheduler runs it, and the threads below it run while it blocks for the display, once per frame;
* each worker and each job, the reaper, the font loader, the sound thread, the fetch thread.
  A task and a job come to their end;
* transfers: `build` sets a connection timeout and a stall guard, so curl gives up what does not move;
* the second half of the frame callback once the first has run.

Not assumed: that the user does anything (hands in a task, turns a page, cancels, leaves), that
the server's search changes, that the sound chip ever calls back, that a thread can be created.

| Property | Says | Would fail if |
|---|---|---|
| `ExitReturns` (thread pool) | `Threads::exit` returns, wherever workers, jobs and reaper are | exit did not release a permit for each worker that waits |
| `WorkersDrainQueue` | a task announced while a worker has not decided to leave is taken | a worker went after one task |
| `ExitReturns` (app) | `App::exit` ends, also when the sound chip is silent | exit did not signal the frame event itself |
| `NobodyWaitsForEver` | `adopt` and `await`, which spin without a timeout, go on | a turn of the fetch thread forgot what else it had drained |

What these four rest on holds without fairness and is a property of its own, checked and proved (section 4):
`ExitGoesOn`, `LeavingGoesOn`, `AnswerIsComing` and, proved only, `WorkersStay`. Each says that what is waited for is
always there or on its way, and the first two that there is an end to the steps until then. Fairness adds only that the
threads take them.

`ExitReturns` of the pool has a condition when `minWorkers` is above zero: `exit` releases one
permit per *counted* worker (`thread.cpp:283`), and one that has been created and has not counted
itself yet would wait for ever. The program calls `init(0, 2)`, where it holds without one.
`NobodyWaitsForEver` excepts a download that waits while `Fetch::exit` runs.

## 4. What is proved

Fifty-one theorems in seven modules, over every value of the constants; `StoreProofs` holds lemmas
only. Each component has an inductive invariant of named parts, of which its safety properties follow.

### Session

`SessionProofs` proves for all saves, all banks, every party size, number of slots and width
of identifiers:

| Theorem | States |
|---|---|
| `Invariance` | `Spec => []IInv` |
| `TypeCorrect` | `[]TypeOK` |
| `SaveConsistency` | `[]SaveStaysConsistent` |
| `BankOrder` | `[]BankStaysOrdered` |
| `RollbackFits` | `[]RollbackAlwaysFits` |
| `ShownParty` | `[]ShownPartyIsGuarded` |
| `PartySafety` | `PartyUntouched`, as an action property |
| `NothingStaged` | `[]CleanMeansNothingStaged` |
| `SessionKeepsThePromise` | `KeepsThePromise`: the session implements `Collection` |

*Assumptions*: `SaveImageAssumption` (fewer party positions than slots, at
least two identifier halves, an empty slot is no record) and `SessionAssumption` (initial saves are consistent,
initial banks are ordered and hold no blank identifier). Both are evaluated by TLC in the runs.

*The argument.* None of these is inductive alone. `IInv` is

1. `NumberedTypes`: types, and *no record of a save and no bank entry has the blank number*. A
   withdrawn native record keeps its number; were it blank, the
   list would name it like an empty position and consistency would break.
2. `SaveStaysConsistent`, for the working save and the original: `Discard` brings the original back.
3. `BankStaysOrdered`, likewise for both banks.
4. `PartyOfOriginal`: the party positions of the list hold what the original's hold and, as long
   as no number has wrapped, the party's slots hold the same records. `Discard` and
   `AcceptCommitted` replace one image by the other, and `PartyUntouched` speaks of them too.

The lemmas about the two stores are in `StoreProofs`: removing and
inserting keep types, consistency and the party, the new number is fresh unless it
wraps (`NewNumberFresh`), and after a removal there is always room
(`RoomAfterRemoval`: the removed number leaves a blank reserve position, because the record was not
in the party). Append, erase and reload keep the order, the last
because a bank in order is its own and only sorting by arrival. `SessionProofs` has one lemma
per action and combines them in `NextPreserves`.

For the refinement the proof counts. The slots that hold a Yo-kai, and the bank entries that do, are finite
sets; clearing a slot removes one member, filling an empty one adds one. `erase` moves entries up and a
reload sorts them, so there the sets before and after are matched by a bijection
(`ErasedEntries`, `ReloadedEntries`). A failed deposit is one away and one
back, which is a stutter of `Collection`. That gives each action its abstract step, and with
`IInv` the refinement.

### Transfer screen

`BankScreenProofs`, for every save, bank, party size, identifier width and order of names and levels,
from the assumptions of the session and `BankScreenAssumption` (names and levels
are numbers; which orders the player can choose):

| Theorem | States |
|---|---|
| `ScreenInvariance` | `ScreenSpec => []ScreenInv` |
| `ScreenActsThroughSession` | `ActsThroughSession`: the screen implements `Session` |
| `ScreenTypes` | `[]ScreenTypeOK` |
| `ScreenIsTrue` | `[]ScreenShowsSession` |
| `QueueIsGood` | `[]QueuedDepositsAreGood` |
| `MarkedIdsKeepTheirMeaning` | `[]MarkedIdsWereHandedOut` |
| `MarkedSlotsKeepTheirYokai` | `[]MarkedSlotsAreTaken` |
| `ScreenLeavesParty`, `ScreenKeepsThePromise` | `PartyUntouched` and the refinement of `Collection`, for the session under the screen |

The last two are corollaries: whatever is proved of a session holds under the screen, because the screen
implements it. `ScreenInv` is the session's `IInv` and, for the screen:

1. `FaceTypes`, `CallTypes`: types; the queue of a batch holds rows of the save or ids of the bank, as the
   operation says.
2. `Shown`: between batches the rows are the records of the save and the entries of the bank, each once,
   and the party is the one protected. That needs what sorting does for any number of rows
   (`SortedHasAll`): a row's place after sorting is the number of rows before it in a strict
   total order, so that no two rows get the same place.
3. `Queued`: what a batch has left to do still holds. Its slots differ, so that one deposit does not touch
   the record of the next, and each record may still be deposited, unless a number has
   wrapped. `ScreenShowsSession` is not enough here: the rows are not refreshed inside a batch.
4. `Marked`: marked ids are below `mNextId`, marked slots are taken unless a deposit batch is under way or
   has failed in the bank (`stale`).

### Record conversion

`ConversionProofs`, for every record of any five bytes: `TypeCorrect`, `Accepted`
(`AlwaysAccepted`), `HomeUnchanged` (`ComesHomeUnchanged`), `OrderKept` (`OrderOfStatsKept`).
They rest on what the rounding by largest remainders promises (`ScaledPoints`): the
points add up exactly to the ones asked for, a stat that had more than another does not get less, and when the
points can be scaled without a remainder nothing is rounded. That the sum is exact is
counting: as many stats get one point more as points are left over, because the order by remainder
and place is total (`FirstsOfFive`, `FirstsOfFour`). A stat list has four or five members, so
no induction is needed.

`ComesHomeUnchanged` speaks of chains of any length. The invariant `Remembered` says what the games on
the way keep: as long as no coarser game has rounded it, the record is read
as the values it left with, or as those multiplied by four on the way out of Yo-kai Watch.

### Commit

`CommitProofs`, for any number of generations, power losses and errors, from `CommitAssumption`:
`TypeCorrect`, `SuccessStays` (`SuccessIsDurable`), `PowerLossSafe` (`SaveSurvivesPowerLoss`), `BackupWorks`
(`BackupBringsSaveBack`), `RollBackWhole` (`RollBackIsWhole`), `TitleSafe` (`TitleHasBackup`).
The invariant says, for each value of `pc`, which file holds what the attempt found, which the
staged change and which is still what was last reported: `PhaseFits` (how far the attempt is),
`WritesStaged` (what is written is what is staged), `Settled` (once a commit is done there is no
journal, and save and bank both hold what was reported), `Powerless` (without a failing operation the
committed save of an export is in its place or where the journal points), `SaveKept` and `BankKept` (where the old save and the old bank are), `ExportBank` (the bank
beside an exported save), `TitleKept` and `TitleBegun` (the backup of a title). One lemma per group of
steps, each over what the step writes and what a fault tears.

### Start-up and shutdown

`AppProofs`, for any number of screens, requests and fonts, from `AppAssumption`: `TypeCorrect`,
`ScreenStays` (`ScreenInEveryFrame`), `CountsAsTheLoop` (`SurvivesAsCounted`), `ReleaseIsSafe`
(`NothingUsedAfterRelease`), `DescentGoesOn` (`LeavingGoesOn`). The invariant:
`RecordFits` (the teardowns on record are the first of `Names`, and what is up is exactly those plus the one being
torn down), `MusicFits` and `LoaderFits` (where the sound thread, its flags and the loader
can be for each step of the main thread), `ScreensFit` (once the root has been asked for there is a
screen, or a push still to come that no pop undoes). The last needs the argument behind
`ReplacementSurvives`: if a pop of the last screen is kept, some push after it survives
all pops after that.

`CountsAsTheLoop` compares that formula with the loop of the code, for lists of changes of any length. The loop is a
recursive function over the list; if its count went wrong at some length there would be a least one, and a
step of the loop before it that is right.

`DescentGoesOn` has two halves. `LeavingFits` is inductive beside the invariant: while `Gui::exit` spins on `finished` the
sound thread is gone, or can take a step, because the event has been signalled after `playing` was
cleared; while it waits for the loader, the loader runs or has left its event. And `StepsLeft`, which adds up what the teardowns on
record, the place of the main thread, the sound thread and the fonts to load have left, goes down with every step,
but for those of the callback and of a sound thread not told to stop yet, which leave it alone.

### Thread pool

`ThreadPoolProofs`, for any number of tasks, workers, threads and places in the list, from
`PoolAssumption`: `TypeCorrect`, `PermitsMatchTasks` (`PermitPerTask`), `ReaperIsRight`
(`FreesWhatEnded`), `AllAreGone` (`NobodyOutlivesExit`) and `Promise`, that the pool implements
`Executor`. The invariant: `ListFits` (the list holds each thread that was created and not freed,
once; while the reaper joins, the freed ones are those before its index), `ReaperFits` (the reaper's
index stays inside the list over the moments it has no lock), `ExitFits` (what is gone at each step of exit), `CountersFit`
(the counters are the numbers of threads at certain places), `PermitPerTask`, `TasksFit` (a task is
fresh, queued or held, and held by one worker). Each step that changes a counter moves
one thread from one set to another, which `OneMoves` turns into arithmetic.

Two more theorems are about the end, and one about the time before it:

* `ExitComes` (`ExitGoesOn`) is `ExitIsFree` and `ExitIsBounded`. The first says that whatever exit waits for can take a
  step. Two facts make it inductive: `StopFits` (where the reaper, the lock and the events are at each step of exit) and
  `Enough` (once exit has released its permits there are at least as many as workers that may still ask for one; a
  permit taken is a worker fewer that asks). Its condition is that of `ExitReturns`: with `min` above zero no
  worker may be about to count itself. The second says that from the clearing of the queue on every step of any
  thread makes `StepsLeft` smaller: no worker finds a task that would bring it round its loop again, and
  the reaper goes round once for each thread it frees.
* `SomebodyStays` (`WorkersStay`): while a task has been announced, a worker that has not decided to leave remains.

### Requests and pages

`GpssBrowserProofs`, for any number of requests, attempts and changes, any totals, page size and searches, from
`FetchAssumption` and `BrowserAssumption`: `TypeCorrect`, `EachAnsweredOnce` (`AnsweredOnce`),
`OpenWhileWritten` (`WritesIntoOpenFile`), `WholeFile` (`FileIsWhole`), `FittingPages` (`PagesFit`), `NobodyIsForgotten` (`AnswerIsComing`). The invariant has two halves.

* `Base` is about the requests: `FetchTypes`, `AnsweredOnce` itself, `Threads` (what the fetch thread has
  drained has ended, and is answered before it drains again), `Counted` (attempts of the
  download), `OpenFile` (a try with curl or with the fetch thread is the one the download waits for; while it
  does, the file is empty until that try ends, and holds the page when it has ended with one),
  `FileIsWhole`, `AskedFor` (each request built was for a search and a page).
* `Front` is about the browser: `PageTypes`, `Room`, `Shown` (the page on screen has been answered, and it and its neighbours
  were asked for by this search under the numbers the page number implies), `Expected` (the page
  a turn waits for was asked for under the number it will be shown with).

`Front` rests on `Base` in one point: a page that has been answered is not in flight any more,
so the total it came with, from which the numbers of its neighbours follow, does not change.

`FileIsWhole` follows the file through both threads: the download truncates it before a try, only that try writes,
and the file is closed when the try has been answered. As a request that is answered is nowhere else
(`AnsweredOnce`), nothing can write to the next file, or to one that is closed, for a try that is over.

`AnswerIsComing` needs one more fact, `FetcherRuns`: until exit tells it to end the fetch thread does not. With it, a
request that was sent and not answered is in flight or drained by a turn that is not over yet.

### Only model-checked

Liveness under fairness is out of reach of the prover: `ExitReturns` of both modules,
`WorkersDrainQueue`, `NobodyWaitsForEver`. What they need beside fairness is proved, as said above. Every other property of
a passing run is a theorem.

## 5. Hazards

`PROJECT.json` lists what is hard to test in this code, at its line, with the properties that
would catch it. Not in that list, because nothing in the repository says it should be otherwise and
no harm to a Yo-kai comes of it:

* a withdrawal batch that stops half-way keeps the marks of ids that are gone, so the next one
  stops at the first of them (`YokaiBankScreen.cpp:376`); a copy batch that stops keeps all marks, and
  repeating it copies the first Yo-kai again (`YokaiBankScreen.cpp:428`);
* the order of a batch from the bank (`YokaiBankScreen.cpp:374`, section 6);
* `MarkedSlotsAreTaken` excepts the time after a deposit batch that the bank has refused (`stale`), in which
  a mark does name whatever comes into its slot next, and `CleanMeansNothingStaged` compares which
  Yo-kai are there, not where: a failed deposit may bring its record back in another slot
  (`Session.cpp:41`);
* the catch block around `erase` in `withdraw` (`Session.cpp:78–91`) takes the inserted record out
  again; `erase` cannot throw for an id `find` has just found, so it is no action of the model.

## 6. Where code and documents disagree

| Run | The code | It is said |
|---|---|---|
| `session_numbers` | `assignNumbers` wraps at 0xFFFF and may reuse an identifier | a copy's identifier cannot collide (YOKAI_PORT.md:70) |
| `party_marked` | Move on an unmarked party row marks it, throws, and leaves the mark; the next operation goes by that mark, not by the cursor | "Party members cannot be marked" (YokaiBankScreen.cpp:330) |
| `commit_stale_bank` | before the bank is rotated, recovery brings back the bank of the commit before | recovery journal (YOKAI_PORT.md:14) |
| `commit_torn_backup` | the catch block copies a half-written backup over a whole save | "after backup restore" (YokaiBankScreen.cpp:514) |
| `task_stranded` | a worker that has found the semaphore empty is counted until it is gone: with as many of them as the maximum, a task handed in starts no worker and waits for the next call | "Executes task on a worker thread" (thread.hpp:61) |

Seen while modelling, without a run of their own:

* marked bank entries are withdrawn by ascending id (`YokaiBankScreen.cpp:374`), not "in visible
  order" (YOKAI_PORT.md:11);
* in a first commit there is no bank to go back to: recovery restores the save and leaves the new bank;
* a title has no journal: between the two renames of `saveAtomic` there is no bank, and
  after a power loss there it is read as an empty one. `TitleHasBackup` says that its backup is beside it;
* `Fetch::exit` drops the records in flight without running their callbacks (`fetch.cpp:365-369`), and
  `fetch.hpp:124` says a callback runs exactly once "whatever happens". `AnsweredOnce` says *once*
  until exit and *at most once* after it;
* the last bytes of a download reach the card in `fclose`, out of a buffer of 64 KB (`fetch.cpp:501`), and its
  result is dropped (`fetch.cpp:514`). When that flush fails, on a full card, `download` returns 0 over a file that has been
  cut short, although the comment above says "the bytes have to be on the SD card before the code below decides to remove
  them". The results of `remove` are dropped as well (`fetch.cpp:524, 530`), so that what a failed download has written may
  stay, and `fetch.hpp:146` says "The file is removed unless the download succeeded". `AssetStore` hashes what it has
  downloaded and would notice. The model takes both steps (`CardFails`); `FileIsWhole` holds only up to the first of them, and
  without its `~cardFailed` TLC finds it violated;
* a retry of a download that cannot begin returns before the file of the attempt before is removed
  (`fetch.cpp:489-500`), against the same line of `fetch.hpp`. `FileIsWhole` excepts it (`attempt = 0`) and fails without
  the exception;
* a search that shrinks to one page is shown under the page number that was asked for, which
  `PagesFit` excepts;
* only `refresh` looks for a search that has shrunk (`GpssBrowser.cpp:343`). A turn to page 4 whose answer says
  that three pages are left shows page 4 of 3; the next turn forward leads to page 2 and keeps
  page 4, not page 1, as the one behind it. `PagesFit` excepts what follows until the next refresh
  (`beyond`);
* `Threads::exit` with `min` above zero, as above (`thread.cpp:283`).

The properties of run `commit` are what *does* hold beside them: what was reported saved stays saved
(`SuccessIsDurable`), an exported save survives any power losses as long as no operation also
fails, and once the bank's old backup is gone a roll back is whole.

## 7. What is left out, and the plan

*Not modelled, and why*

* **Data.** Byte layouts, character sets, the generated species and version tables: what the properties
  do not tell apart. Temperament, health, owner and moves of a converted record are copied bytes.
* **Numeric functions of whole files.** The stream cipher, CRC, AES-CCM, memory-sum cryptography and
  the big-number code below it: out of reach of a model checker. A file that fails its
  checksum is `Torn`.
* **Two transfer screens over one session.** `BankScreen` is one screen; a second one pushed in the same
  frame over the same context is not modelled.
* **Drawing and input.** Cursors, touch, layout, fonts as pixels, tweening.
* **Inherited screens, the hex editor, the script interpreter, the Pokemon banks, wireless
  transfer.** No screen of YKSM opens them. The framing of wireless transfer has unit tests.
* **Vendored code** (audio decoders, big numbers, the script language): third-party.
* **System services.** Archives and files are external: `Commit` models what the code expects of them.

By lines these are most of the tree. What the program itself decides is in `yokai/`, its
four screens and the inherited components of section 1, and that is what the modules cover.

*Next*

1. `Commit` for two saves with one bank: the journal of one, the rotation of the other.
2. The order of the sections of a save (`reorder` in `Crypto.cpp`), as a permutation and its inverse.
