------------------------- MODULE ThreadPoolProperties -------------------------
(***************************************************************************)
(* What must hold of the thread pool.                                      *)
(***************************************************************************)
EXTENDS ThreadPool, FiniteSets

WorkerAt == {"new", "try", "check", "idle", "wait", "woken", "pop", "run", "leave"}
Counted == WorkerAt \ {"new"}
Alive == WorkerAt \cup {"job"}

\* Every variable of the pool has its type.
TypeOK ==
    /\ list \in Seq(Tids)
    /\ exitEvent \in BOOLEAN /\ updateEvent \in BOOLEAN
    /\ tasks \in Seq(Tasks) /\ fresh \subseteq Tasks
    /\ permits \in Nat /\ numWorkers \in Nat /\ freeWorkers \in Nat
    /\ minWorkers \in MinChoices
    /\ pc \in [Tids -> Alive \cup {"none", "ended", "freed"}]
    /\ held \in [Tids -> Tasks \cup {NoTask}]
    /\ main \in {"starting", "open", "release", "count", "spare", "create",
                 "unwind", "wake", "signal", "join", "close", "closed"}
    /\ toStart \in 0..minWorkers
    /\ reaper \in {"scan", "wait", "free", "lock", "joining", "ended"}
    /\ at \in Nat /\ created \in 0..MaxCreated

Stopping == main \in {"wake", "signal", "join", "close", "closed"}

\* The threads that hold a permit they have not turned into a task yet, and the
\* task that is queued and not announced yet.
Permitted == {w \in Tids : pc[w] \in {"woken", "pop"}}
Unannounced == IF main = "release" THEN 1 ELSE 0

\* Until the pool stops there is exactly one permit for each queued task: queue
\* and semaphore are two structures under two locks (thread.cpp:268-269 against
\* 147-166), and were a permit lost a task would wait for ever, were one too
\* many a worker would take the null task of line 167, which is meant for exit.
PermitPerTask ==
    ~Stopping =>
        Len(tasks) = permits + Cardinality(Permitted) + Unannounced

\* The reaper keeps an index over the moment in which it does not hold the lock
\* (thread.cpp:54-68, 84-87): the entry it frees is still the thread it saw end.
FreesWhatEnded ==
    /\ reaper = "free" => at <= Len(list) /\ pc[list[at]] = "ended"
    /\ \A i \in 1..Len(list) :
         pc[list[i]] = "freed" => reaper \in {"joining", "ended"} /\ i < at

\* When Threads::exit has joined the reaper no thread of the program is left:
\* what it closes and clears next is used by nobody (thread.cpp:286-295).
NobodyOutlivesExit ==
    main \in {"close", "closed"} => \A t \in Tids : pc[t] \in {"none", "freed"}

\* With min > 0 exit needs one condition: a worker that has not counted itself
\* when exit releases one permit per counted worker (thread.cpp:283) may wait
\* for ever afterwards.  The program calls init(0, 2).
SafeToWake == main = "wake" => minWorkers = 0 \/ \A t \in Tids : pc[t] # "new"

\* Threads::exit returns, wherever workers, jobs and the reaper are when it is
\* called, and also when init calls it because a worker could not be created.
ExitReturns == (main = "wake" /\ SafeToWake) ~> main = "closed"

\* Nothing holds up Threads::exit: whenever it waits, for the lock on the list or
\* for the reaper, what it waits for can take a step.  The reaper in its turn is
\* told to leave its loop, and the thread it joins has ended, or runs, or waits
\* for a permit that is there (thread.cpp:54-79, 147-153, 282-287).
CanGoOn(t) == pc[t] \in Alive /\ (pc[t] = "wait" => permits > 0)
NothingHoldsExit ==
    /\ main \in {"signal", "close"} => ListIsFree
    /\ main = "join" => \/ reaper \in {"scan", "free", "lock", "ended"}
                        \/ reaper = "wait" /\ exitEvent
                        \/ reaper = "joining" /\ at > Len(list)
                        \/ reaper = "joining" /\ pc[list[at]] = "ended"
                        \/ reaper = "joining" /\ CanGoOn(list[at])
ExitIsNotHeldUp == []SafeToWake => []NothingHoldsExit

\* How many steps a thread, the reaper and the main thread have in front of them at
\* most once exit has cleared the queue.
Ahead(p) == CASE p = "new" -> 12 [] p = "run" -> 11 [] p = "try" -> 10
              [] p = "check" -> 9 [] p = "idle" -> 8 [] p = "wait" -> 7
              [] p = "woken" -> 6 [] p = "pop" -> 5 [] p \in {"leave", "job"} -> 4
              [] p = "ended" -> 3 [] OTHER -> 0
ReaperAhead == CASE reaper = "scan" -> 5 [] reaper = "wait" -> 4 [] reaper = "free" -> 3
                 [] reaper = "lock" -> 2 [] reaper = "joining" -> 1 [] OTHER -> 0
MainAhead == CASE main = "wake" -> 4 [] main = "signal" -> 3 [] main = "join" -> 2
               [] main = "close" -> 1 [] OTHER -> 0
ThreadsAhead == {p \in Tids \X (1..12) : p[2] <= Ahead(pc[p[1]])}
StepsLeft == Cardinality(ThreadsAhead) + ReaperAhead + MainAhead + (IF updateEvent THEN 2 ELSE 0)

\* From the moment exit has cleared the queue no thread goes round in a circle: each
\* step of any of them, the reaper's loop included, brings the end nearer, so that
\* exit waits for a bounded number of steps (thread.cpp:46-91, 142-185, 282-296).
ExitDescends == [][Stopping => StepsLeft' < StepsLeft]_vars

\* As long as one worker has not yet decided to leave, every task that has been
\* announced to the semaphore is taken: a worker that has run a task comes back
\* for the next one, and none leaves while there is a permit.
Working == \E w \in Tids : pc[w] \in WorkerAt \ {"check", "leave"}
Queued(t) == \E i \in 1..Len(tasks) : tasks[i] = t
Announced(t) == \E i \in 1..Len(tasks) : tasks[i] = t /\ i <= permits
WorkersDrainQueue == \A t \in Tasks : (Announced(t) /\ Working) ~> ~Queued(t)

\* Exit always goes on: it is not held up, and what it waits for is bounded.
ExitGoesOn == ExitIsNotHeldUp /\ ExitDescends

\* A worker that has not yet decided to leave does not do so while a task has been
\* announced: the last one always finds the permit (thread.cpp:147-159).
WorkersStay == [][~Stopping /\ permits > 0 /\ Working => Working']_vars

\* thread.hpp:61 says of executeTask: "Executes task on a worker thread".  Every
\* task queued while the pool stays up is taken by a worker, as long as the
\* bound of this model leaves a thread to create.
EveryTaskIsTaken ==
    \A t \in Tasks : Queued(t) ~> (Stopping \/ ~Queued(t) \/ created = MaxCreated)

\* The promise of Executor: tasks start in the order they were queued, each at
\* most once, and none runs when exit has returned.
Pool == INSTANCE Executor
            WITH waiting <- tasks,
                 running <- {held[w] : w \in Tids} \ {NoTask},
                 phase <- CASE main \in {"close", "closed"} -> "stopped"
                            [] main \in {"wake", "signal", "join"} -> "stopping"
                            [] OTHER -> "up"
KeepsThePromise == Pool!Spec

===============================================================================
