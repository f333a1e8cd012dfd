------------------------------ MODULE ThreadPool ------------------------------
(***************************************************************************)
(* The threads of the program (3ds/source/utils/thread.cpp): plain threads,*)
(* a pool of workers fed by a task queue and a counting semaphore, and a   *)
(* reaper that frees each thread once it has ended.  Every step below is   *)
(* one atomic access to what threads share: a section under a DataMutex,   *)
(* one operation on an atomic counter, one call of the kernel.             *)
(***************************************************************************)
EXTENDS Naturals, Sequences

CONSTANTS
    Tasks,        \* what is handed to executeTask; each is handed in once
    MinChoices,   \* the values of minWorkers Threads::init is called with
    MaxWorkers,   \* maxWorkers
    MaxThreads,   \* MAX_THREADS, the capacity of the thread list
    MaxCreated,   \* bound: how many threads the kernel ever creates
    MayRunOut,    \* whether threadCreate may find no memory
    NoTask        \* Task{nullptr, nullptr}

ASSUME PoolAssumption ==
    /\ MaxWorkers \in Nat /\ MaxThreads \in Nat /\ MaxCreated \in Nat
    /\ MinChoices \subseteq 0..MaxWorkers
    /\ MayRunOut \in BOOLEAN
    /\ NoTask \notin Tasks

\* A thread is named by the order of its creation.
Tids == 1..MaxCreated

VARIABLES
    list,         \* threads->first, and from its third handle on threads->second
    exitEvent,    \* threads->second[0] is signalled
    updateEvent,  \* threads->second[1] is signalled
    tasks,        \* workerTasks
    permits,      \* the count of moreTasks
    numWorkers, freeWorkers, minWorkers,
    pc,           \* where each thread is; "none" before it exists
    held,         \* the task a worker has taken
    main,         \* where the main thread is inside init, executeTask or exit
    toStart,      \* the initial workers init has still to create
    reaper, at,   \* where the reaper is, and its snapshot size or index
    created,      \* how many threads there have been
    fresh         \* the tasks not handed in yet

queueVars == <<tasks, permits, fresh>>
countVars == <<numWorkers, freeWorkers, minWorkers>>
threadVars == <<list, updateEvent, pc, created>>
vars == <<queueVars, countVars, threadVars, main, toStart, reaper, at, exitEvent, held>>

Init == /\ list = <<>> /\ exitEvent = FALSE /\ updateEvent = FALSE
        /\ tasks = <<>> /\ permits = 0
        /\ numWorkers = 0 /\ freeWorkers = 0
        /\ minWorkers \in MinChoices
        /\ pc = [t \in Tids |-> "none"]
        /\ held = [t \in Tids |-> NoTask]
        /\ main = "starting" /\ toStart = minWorkers
        /\ reaper = "scan" /\ at = 0
        /\ created = 0 /\ fresh = Tasks

-------------------------------------------------------------------------------
(* createThread.  The reaper keeps the lock on the list while it joins. *)

ListIsFree == reaper # "joining"

\* Variant: the new thread goes to the front of the list.
SpawnInFront(body) ==
    /\ ListIsFree /\ Len(list) < MaxThreads /\ created < MaxCreated
    /\ created' = created + 1
    /\ list' = <<created + 1>> \o list
    /\ pc' = [pc EXCEPT ![created + 1] = body]
    /\ updateEvent' = TRUE

Spawn(body) ==
    /\ ListIsFree /\ Len(list) < MaxThreads /\ created < MaxCreated
    /\ created' = created + 1
    /\ list' = Append(list, created + 1)
    /\ pc' = [pc EXCEPT ![created + 1] = body]
    /\ updateEvent' = TRUE

\* The list is full, or threadCreate finds no memory.
SpawnFails ==
    /\ ListIsFree
    /\ MayRunOut \/ Len(list) >= MaxThreads \/ created = MaxCreated
    /\ UNCHANGED threadVars

-------------------------------------------------------------------------------
(* executeTask.  Only the main thread calls it, and creates threads: no body *)
(* that runs on a thread of the pool does.                                   *)

Main(from, to) == /\ main = from /\ main' = to
                  /\ UNCHANGED <<countVars, reaper, at, held>>

PushTask(t) ==
    /\ Main("open", "release")
    /\ t \in fresh /\ fresh' = fresh \ {t}
    /\ tasks' = Append(tasks, t)
    /\ UNCHANGED <<permits, threadVars, toStart, exitEvent>>

ReleasePermit ==
    /\ Main("release", "count")
    /\ permits' = permits + 1
    /\ UNCHANGED <<tasks, fresh, threadVars, toStart, exitEvent>>

\* numWorkers < maxWorkers, the first half of the condition
CountWorkers ==
    /\ Main("count", IF numWorkers < MaxWorkers THEN "spare" ELSE "open")
    /\ UNCHANGED <<queueVars, threadVars, toStart, exitEvent>>

\* freeWorkers == 0, the second half
CountSpare ==
    /\ Main("spare", IF freeWorkers = 0 THEN "create" ELSE "open")
    /\ UNCHANGED <<queueVars, threadVars, toStart, exitEvent>>

\* Nobody looks at the result of Threads::background.
CreateWorker ==
    /\ Main("create", "open")
    /\ Spawn("new") \/ SpawnFails
    /\ UNCHANGED <<queueVars, toStart, exitEvent>>

-------------------------------------------------------------------------------
(* Threads::init, background and exit *)

StartWorker ==
    /\ toStart > 0
    /\ \/ Main("starting", "starting") /\ Spawn("new") /\ toStart' = toStart - 1
       \/ Main("starting", "unwind") /\ SpawnFails /\ UNCHANGED toStart
    /\ UNCHANGED <<queueVars, exitEvent>>

InitReturns ==
    /\ toStart = 0
    /\ Main("starting", "open")
    /\ UNCHANGED <<queueVars, threadVars, toStart, exitEvent>>

Background ==
    /\ Main("open", "open")
    /\ Spawn("job")
    /\ UNCHANGED <<queueVars, toStart, exitEvent>>

\* Variant: exit leaves the tasks that are queued.
ExitKeepsQueue ==
    /\ Main("open", "wake") \/ Main("unwind", "wake")
    /\ UNCHANGED <<queueVars, threadVars, toStart, exitEvent>>

ExitClear ==
    /\ Main("open", "wake") \/ Main("unwind", "wake")
    /\ tasks' = <<>>
    /\ UNCHANGED <<permits, fresh, threadVars, toStart, exitEvent>>

\* Variant: exit leaves waiting workers alone.
ExitWakesNobody ==
    /\ Main("wake", "signal")
    /\ UNCHANGED <<queueVars, threadVars, toStart, exitEvent>>

ExitWake ==
    /\ Main("wake", "signal")
    /\ permits' = permits + numWorkers
    /\ UNCHANGED <<tasks, fresh, threadVars, toStart, exitEvent>>

ExitSignal ==
    /\ Main("signal", "join") /\ ListIsFree
    /\ exitEvent' = TRUE
    /\ UNCHANGED <<queueVars, threadVars, toStart>>

ExitJoin ==
    /\ Main("join", "close") /\ reaper = "ended"
    /\ UNCHANGED <<queueVars, threadVars, toStart, exitEvent>>

ExitClose ==
    /\ Main("close", "closed") /\ ListIsFree
    /\ list' = <<>>
    /\ UNCHANGED <<queueVars, updateEvent, pc, created, toStart, exitEvent>>

-------------------------------------------------------------------------------
(* taskWorkerThread *)

Thread(t, from, to) ==
    /\ pc[t] = from /\ pc' = [pc EXCEPT ![t] = to]
    /\ UNCHANGED <<list, updateEvent, created, minWorkers, fresh,
                   main, toStart, reaper, at, exitEvent>>

WorkerBegins(w) ==
    /\ Thread(w, "new", "try")
    /\ numWorkers' = numWorkers + 1
    /\ UNCHANGED <<tasks, permits, freeWorkers, held>>

\* Variant: the worker takes a failed attempt for a permit.
TryAcquireUnasked(w) ==
    /\ Thread(w, "try", "pop")
    /\ permits' = IF permits > 0 THEN permits - 1 ELSE 0
    /\ UNCHANGED <<tasks, numWorkers, freeWorkers, held>>

TryAcquire(w) ==
    /\ IF permits > 0 THEN Thread(w, "try", "pop") /\ permits' = permits - 1
                      ELSE Thread(w, "try", "check") /\ UNCHANGED permits
    /\ UNCHANGED <<tasks, numWorkers, freeWorkers, held>>

CheckWorkers(w) ==
    /\ Thread(w, "check", IF numWorkers <= minWorkers THEN "idle" ELSE "leave")
    /\ UNCHANGED <<tasks, permits, numWorkers, freeWorkers, held>>

CountFree(w) ==
    /\ Thread(w, "idle", "wait")
    /\ freeWorkers' = freeWorkers + 1
    /\ UNCHANGED <<tasks, permits, numWorkers, held>>

Acquire(w) ==
    /\ Thread(w, "wait", "woken")
    /\ permits > 0 /\ permits' = permits - 1
    /\ UNCHANGED <<tasks, numWorkers, freeWorkers, held>>

UncountFree(w) ==
    /\ Thread(w, "woken", "pop")
    /\ freeWorkers' = freeWorkers - 1
    /\ UNCHANGED <<tasks, permits, numWorkers, held>>

\* Variant: the worker takes the task that came last.
PopLastTask(w) ==
    /\ Thread(w, "pop", "run")
    /\ tasks # <<>> /\ tasks' = SubSeq(tasks, 1, Len(tasks) - 1)
    /\ held' = [held EXCEPT ![w] = tasks[Len(tasks)]]
    /\ UNCHANGED <<permits, numWorkers, freeWorkers>>

PopTask(w) ==
    /\ Thread(w, "pop", "run")
    /\ tasks # <<>> /\ tasks' = Tail(tasks)
    /\ held' = [held EXCEPT ![w] = Head(tasks)]
    /\ UNCHANGED <<permits, numWorkers, freeWorkers>>

\* The null task that tells a worker to go.
PopNothing(w) ==
    /\ Thread(w, "pop", "leave") /\ tasks = <<>>
    /\ UNCHANGED <<tasks, permits, numWorkers, freeWorkers, held>>

\* Variant: a worker goes after one task.
TaskEndsWorker(w) ==
    /\ Thread(w, "run", "leave")
    /\ held' = [held EXCEPT ![w] = NoTask]
    /\ UNCHANGED <<tasks, permits, numWorkers, freeWorkers>>

TaskEnds(w) ==
    /\ Thread(w, "run", "try")
    /\ held' = [held EXCEPT ![w] = NoTask]
    /\ UNCHANGED <<tasks, permits, numWorkers, freeWorkers>>

WorkerEnds(w) ==
    /\ Thread(w, "leave", "ended")
    /\ numWorkers' = numWorkers - 1
    /\ UNCHANGED <<tasks, permits, freeWorkers, held>>

\* A thread that is no worker: the music, the font loader, a download.
JobEnds(j) ==
    /\ Thread(j, "job", "ended")
    /\ UNCHANGED <<tasks, permits, numWorkers, freeWorkers, held>>

-------------------------------------------------------------------------------
(* reapThread *)

Reaper(from, to) ==
    /\ reaper = from /\ reaper' = to
    /\ UNCHANGED <<queueVars, countVars, created, main, toStart, held>>

\* The size is read under the lock, the wait happens without it.
ReaperScan ==
    /\ Reaper("scan", "wait")
    /\ at' = Len(list)
    /\ UNCHANGED <<list, updateEvent, pc, exitEvent>>

ReaperToldToExit ==
    /\ Reaper("wait", "lock")
    /\ exitEvent /\ exitEvent' = FALSE
    /\ UNCHANGED <<list, updateEvent, pc, at>>

ReaperUpdates ==
    /\ Reaper("wait", "scan")
    /\ updateEvent /\ updateEvent' = FALSE
    /\ UNCHANGED <<list, pc, at, exitEvent>>

\* One of the handles of the snapshot: the index is all that is kept of it.
ReaperSeesEnd ==
    /\ Reaper("wait", "free")
    /\ \E i \in 1..at : pc[list[i]] = "ended" /\ at' = i
    /\ UNCHANGED <<list, updateEvent, pc, exitEvent>>

ReaperFrees ==
    /\ Reaper("free", "scan")
    /\ pc' = [pc EXCEPT ![list[at]] = "freed"]
    /\ list' = SubSeq(list, 1, at - 1) \o SubSeq(list, at + 1, Len(list))
    /\ UNCHANGED <<updateEvent, at, exitEvent>>

ReaperLocks ==
    /\ Reaper("lock", "joining")
    /\ at' = 1
    /\ UNCHANGED <<list, updateEvent, pc, exitEvent>>

ReaperJoins ==
    /\ Reaper("joining", "joining")
    /\ at <= Len(list) /\ at' = at + 1
    /\ pc[list[at]] = "ended" /\ pc' = [pc EXCEPT ![list[at]] = "freed"]
    /\ UNCHANGED <<list, updateEvent, exitEvent>>

\* Variant: off by one at the end of the list.
ReaperEndsEarly ==
    /\ Reaper("joining", "ended") /\ at >= Len(list)
    /\ UNCHANGED <<list, updateEvent, pc, at, exitEvent>>

ReaperEnds ==
    /\ Reaper("joining", "ended") /\ at > Len(list)
    /\ UNCHANGED <<list, updateEvent, pc, at, exitEvent>>

-------------------------------------------------------------------------------

Submission == ReleasePermit \/ CountWorkers \/ CountSpare \/ CreateWorker

Exit == ExitClear \/ ExitWake \/ ExitSignal \/ ExitJoin \/ ExitClose

ThreadSteps(w) == \/ WorkerBegins(w) \/ TryAcquire(w) \/ CheckWorkers(w) \/ CountFree(w)
                  \/ Acquire(w) \/ UncountFree(w) \/ PopTask(w) \/ PopNothing(w)
                  \/ TaskEnds(w) \/ WorkerEnds(w) \/ JobEnds(w)

ReaperSteps == \/ ReaperScan \/ ReaperToldToExit \/ ReaperUpdates \/ ReaperSeesEnd
               \/ ReaperFrees \/ ReaperLocks \/ ReaperJoins \/ ReaperEnds

Next == \/ (\E t \in Tasks : PushTask(t)) \/ Submission
        \/ \E w \in Tids : ThreadSteps(w)
        \/ StartWorker \/ InitReturns \/ Background \/ Exit \/ ReaperSteps

Spec == Init /\ [][Next]_vars

(***************************************************************************)
(* The kernel runs every thread that can run: the main thread blocks once  *)
(* per frame and threads below it run then.  A task and a job come to      *)
(* their end.  Handing in a task, starting a job and leaving are the       *)
(* user's choice, so they are not forced.                                  *)
(***************************************************************************)
MainGoesOn == \/ StartWorker \/ InitReturns \/ Submission
              \/ main # "open" /\ Exit

Fairness == /\ WF_vars(MainGoesOn)
            /\ \A w \in Tids : WF_vars(ThreadSteps(w))
            /\ WF_vars(ReaperSteps)

FairSpec == Spec /\ Fairness

===============================================================================
