--------------------------- MODULE ThreadPoolProofs --------------------------
(***************************************************************************)
(* Proofs about module ThreadPool: it keeps the promise of Executor, tasks *)
(* and permits go together, and the reaper frees what has ended, for any   *)
(* number of tasks, workers and threads.                                   *)
(***************************************************************************)
EXTENDS ThreadPoolProperties, FiniteSetTheorems, SequenceTheorems, TLAPS

Listed(t) == \E i \in 1..Len(list) : list[i] = t

\* The list holds each thread that is not freed, once; while the reaper joins,
\* the freed ones are those before its index.
ListFits ==
    /\ \A t \in Tids : (pc[t] = "none") <=> (t > created)
    /\ \A i \in 1..Len(list) : list[i] <= created
    /\ \A i, j \in 1..Len(list) : list[i] = list[j] => i = j
    /\ \A t \in Tids : pc[t] \in Alive \cup {"ended"} => Listed(t)
    /\ \A i \in 1..Len(list) :
         (pc[list[i]] = "freed") <=> (reaper \in {"joining", "ended"} /\ i < at)

\* The index of the reaper stays inside the list over the moments without the lock.
ReaperFits ==
    /\ reaper = "wait" => at <= Len(list)
    /\ reaper = "free" => 1 <= at /\ at <= Len(list) /\ pc[list[at]] = "ended"
    /\ reaper = "joining" => 1 <= at /\ at <= Len(list) + 1
    /\ reaper = "ended" => at > Len(list)

\* The reaper leaves its loop only when exit has told it to.
ExitFits ==
    /\ exitEvent => main = "join" /\ reaper \notin {"lock", "joining", "ended"}
    /\ reaper \in {"lock", "joining", "ended"} => main \in {"join", "close", "closed"}
    /\ main \in {"close", "closed"} => reaper = "ended"

\* The counters count.
Counting == {w \in Tids : pc[w] \in Counted}
Waiters == {w \in Tids : pc[w] \in {"wait", "woken"}}
CountersFit == numWorkers = Cardinality(Counting) /\ freeWorkers = Cardinality(Waiters)

\* A task is in one place: not handed in, in the queue once, or with one worker.
TasksFit ==
    /\ \A w \in Tids : (pc[w] = "run") <=> (held[w] # NoTask)
    /\ \A i, j \in 1..Len(tasks) : tasks[i] = tasks[j] => i = j
    /\ \A i \in 1..Len(tasks) : tasks[i] \notin fresh
    /\ \A w \in Tids : held[w] \notin fresh /\ \A i \in 1..Len(tasks) : held[w] # tasks[i]
    /\ \A v, w \in Tids : held[v] = held[w] /\ held[v] # NoTask => v = w

IInv == TypeOK /\ ListFits /\ ReaperFits /\ ExitFits /\ CountersFit /\ PermitPerTask /\ TasksFit

USE PoolAssumption

-----------------------------------------------------------------------------
(* Sequences *)

\* A sequence with one more element.
LEMMA Appended ==
    ASSUME NEW S, NEW s \in Seq(S), NEW e \in S, NEW n \in Nat, n = Len(s)
    PROVE  /\ Append(s, e) \in Seq(S) /\ Len(Append(s, e)) = n + 1
           /\ \A i \in 1..n : Append(s, e)[i] = s[i]
           /\ Append(s, e)[n + 1] = e
BY AppendProperties

\* The list without the entry the reaper frees.
LEMMA WithoutEntry ==
    ASSUME list \in Seq(Tids), at \in 1..Len(list), ReaperFrees
    PROVE  /\ list' \in Seq(Tids) /\ Len(list') = Len(list) - 1
           /\ \A i \in 1..(Len(list) - 1) : list'[i] = IF i < at THEN list[i] ELSE list[i + 1]
<1> DEFINE n == Len(list)
           a == SubSeq(list, 1, at - 1)
           b == SubSeq(list, at + 1, n)
<1>0. list' = a \o b /\ n \in Nat
  BY LenProperties DEF ReaperFrees
<1>1. \A i \in 1..n : list[i] \in Tids
  BY LenProperties
<1> HIDE DEF n
<1>2. /\ a \in Seq(Tids) /\ Len(a) = at - 1 /\ \A i \in 1..(at - 1) : a[i] = list[i]
  BY <1>0, <1>1, SubSeqProperties DEF n
<1>3. /\ b \in Seq(Tids) /\ Len(b) = n - at /\ \A i \in 1..(n - at) : b[i] = list[at + i]
  BY <1>0, <1>1, SubSeqProperties DEF n
<1>4. at \in 1..n
  BY DEF n
<1> HIDE DEF a, b
<1>5. /\ a \o b \in Seq(Tids) /\ Len(a \o b) = Len(a) + Len(b)
      /\ \A i \in 1..(Len(a) + Len(b)) : (a \o b)[i] = IF i <= Len(a) THEN a[i] ELSE b[i - Len(a)]
  BY <1>2, <1>3, ConcatProperties
<1>6. Len(a) + Len(b) = n - 1
  BY <1>0, <1>2, <1>3, <1>4
<1>7. ASSUME NEW i \in 1..(n - 1) PROVE (a \o b)[i] = IF i < at THEN list[i] ELSE list[i + 1]
  <2>1. (a \o b)[i] = IF i <= at - 1 THEN a[i] ELSE b[i - (at - 1)]
    BY <1>2, <1>4, <1>5, <1>6
  <2>2. CASE i < at
    BY <1>2, <1>4, <2>1, <2>2
  <2>3. CASE ~ (i < at)
    BY <1>0, <1>3, <1>4, <2>1, <2>3
  <2> QED
    BY <2>2, <2>3
<1> QED
  BY <1>0, <1>5, <1>6, <1>7 DEF n

\* A sequence without its first element: PopTask.
LEMMA Tailed ==
    ASSUME NEW S, NEW s \in Seq(S), s # <<>>, NEW n \in Nat, n = Len(s)
    PROVE  /\ n >= 1 /\ Head(s) = s[1] /\ Head(s) \in S
           /\ Tail(s) \in Seq(S) /\ Len(Tail(s)) = n - 1
           /\ \A i \in 1..(n - 1) : Tail(s)[i] = s[i + 1]
BY HeadTailProperties, EmptySeq

-----------------------------------------------------------------------------
(* The steps *)

\* What a step can do to threads and list.
SpawnStep ==
    /\ \E body \in {"new", "job"} : Spawn(body)
    /\ main \in {"starting", "open", "create"} /\ UNCHANGED <<reaper, at>>
ThreadStep == \E t \in Tids, from \in Alive, to \in Alive \cup {"ended"} : Thread(t, from, to)
QuietStep == UNCHANGED <<list, pc, created, reaper, at>>

USE DEF queueVars, countVars, threadVars, Submission, Exit, ThreadSteps, ReaperSteps, Main, Reaper

\* Each step creates a thread, moves one, is the reaper's, or touches none.
LEMMA StepKinds ==
    ASSUME Next
    PROVE  SpawnStep \/ ThreadStep \/ ReaperSteps \/ ExitClose \/ QuietStep
<1>1. CASE (\E t \in Tasks : PushTask(t)) \/ InitReturns
  BY <1>1 DEF PushTask, InitReturns, QuietStep
<1>2. CASE Submission
  BY <1>2 DEF ReleasePermit, CountWorkers, CountSpare, CreateWorker, SpawnFails, QuietStep,
              SpawnStep
<1>3. CASE StartWorker
  BY <1>3 DEF StartWorker, SpawnFails, QuietStep, SpawnStep
<1>4. CASE Background
  BY <1>4 DEF Background, SpawnStep
<1>5. CASE ExitClear \/ ExitWake \/ ExitSignal \/ ExitJoin
  BY <1>5 DEF ExitClear, ExitWake, ExitSignal, ExitJoin, QuietStep
<1>6. ASSUME NEW w \in Tids, ThreadSteps(w) PROVE ThreadStep
  <2>1. \E from \in Alive, to \in Alive \cup {"ended"} : Thread(w, from, to)
    BY <1>6 DEF WorkerBegins, TryAcquire, CheckWorkers, CountFree, Acquire, UncountFree, PopTask,
                PopNothing, TaskEnds, WorkerEnds, JobEnds, Alive, WorkerAt
  <2> QED
    BY <2>1 DEF ThreadStep
<1> QED
  BY <1>1, <1>2, <1>3, <1>4, <1>5, <1>6 DEF Next


\* Inside the program a thread is Alive; before and after, and freed, it is not.
LEMMA Places ==
    \A p \in Alive : p # "none" /\ p # "ended" /\ p # "freed"
BY DEF Alive, WorkerAt

-----------------------------------------------------------------------------
(* The list and the reaper *)

\* What the proofs below use of the types.
ListTypeOK ==
    /\ list \in Seq(Tids) /\ created \in Nat /\ created <= MaxCreated /\ at \in Nat
    /\ pc \in [Tids -> Alive \cup {"none", "ended", "freed"}]
    /\ Len(list) \in Nat

\* The reaper frees threads that have ended and no others, although its index is
\* older than its lock, because threads are only added behind it.
LEMMA ListInv ==
    ASSUME IInv, Next
    PROVE  ListFits' /\ ReaperFits'
<1>0. ListFits /\ ReaperFits /\ ExitFits /\ ListTypeOK
  <2>1. list \in Seq(Tids)
    BY DEF IInv, TypeOK
  <2>2. Len(list) \in Nat
    BY <2>1, LenProperties
  <2> QED
    BY <2>1, <2>2 DEF IInv, TypeOK, ListTypeOK
<1> DEFINE n == Len(list)
<1>n. n \in Nat /\ list \in Seq(Tids) /\ \A i \in 1..n : list[i] \in Tids
  BY <1>0, LenProperties DEF ListTypeOK
<1> HIDE DEF n
<1>1. CASE SpawnStep
  <2>1. PICK body \in {"new", "job"} : Spawn(body)
    BY <1>1 DEF SpawnStep
  <2>2. /\ UNCHANGED <<reaper, at>> /\ reaper \notin {"lock", "joining", "ended"}
    BY <1>0, <1>1 DEF SpawnStep, ExitFits
  <2>3. created + 1 \in Tids /\ created' = created + 1
    BY <1>0, <2>1 DEF Spawn, Tids, ListTypeOK
  <2>4. /\ Len(list') = n + 1 /\ \A i \in 1..n : list'[i] = list[i]
        /\ list'[n + 1] = created + 1
    BY <1>n, <2>1, <2>3, Appended DEF Spawn, n
  <2>5. pc' = [pc EXCEPT ![created + 1] = body]
    BY <2>1 DEF Spawn
  <2>6. body \in Alive
    BY DEF Alive, WorkerAt
  <2>a. pc[created + 1] = "none"
    BY <1>0, <2>3 DEF ListTypeOK, ListFits
  <2>7. \A u \in Tids : pc'[u] = IF u = created + 1 THEN body ELSE pc[u]
    BY <1>0, <2>5 DEF ListTypeOK
  <2>8. \A i \in 1..n : list[i] <= created /\ list[i] # created + 1 /\ pc'[list'[i]] = pc[list[i]]
    BY <1>0, <1>n, <2>4, <2>7 DEF ListFits, ListTypeOK, Tids, n
  <2>9. \A t \in Tids : (pc'[t] = "none") <=> (t > created')
    BY <1>0, <2>3, <2>6, <2>7, Places DEF ListFits, ListTypeOK, Tids
  <2>10. \A i \in 1..(n + 1) : /\ list'[i] <= created'
                               /\ \A j \in 1..(n + 1) : list'[i] = list'[j] => i = j
    <3>1. \A i, j \in 1..n : list[i] = list[j] => i = j
      BY <1>0 DEF ListFits, n
    <3>2. created' = created + 1 /\ created \in Nat /\ \A i \in 1..n : list[i] \in Nat
      BY <1>0, <1>n, <2>3 DEF ListTypeOK, Tids
    <3>3. \A i \in 1..(n + 1) : i \in 1..n \/ i = n + 1
      BY <1>n
    <3>4. ASSUME NEW i \in 1..(n + 1) PROVE list'[i] <= created'
      BY <2>4, <2>8, <3>2, <3>3
    <3>5. ASSUME NEW i \in 1..(n + 1), NEW j \in 1..(n + 1), list'[i] = list'[j] PROVE i = j
      BY <2>4, <2>8, <3>1, <3>3, <3>5
    <3> QED
      BY <3>4, <3>5
  <2>11. ASSUME NEW t \in Tids, pc'[t] \in Alive \cup {"ended"}
         PROVE  \E i \in 1..(n + 1) : list'[i] = t
    <3>1. CASE t = created + 1
      BY <1>n, <2>4, <3>1
    <3>2. CASE t # created + 1
      <4>1. PICK i \in 1..n : list[i] = t
        BY <1>0, <2>7, <2>11, <3>2 DEF ListFits, Listed, n
      <4> QED
        BY <1>n, <2>4, <4>1
    <3> QED
      BY <3>1, <3>2
  <2>12. \A i \in 1..(n + 1) : pc'[list'[i]] # "freed"
    BY <1>0, <1>n, <2>2, <2>3, <2>4, <2>6, <2>7, <2>8, Places DEF ListFits, n
  <2>13. ListFits'
    BY <2>2, <2>4, <2>9, <2>10, <2>11, <2>12 DEF ListFits, Listed
  <2>14. ReaperFits'
    <3>1. CASE reaper = "free"
      <4>1. at \in 1..n /\ pc[list[at]] = "ended"
        BY <1>0, <3>1 DEF ReaperFits, ListTypeOK, n
      <4> QED
        BY <1>n, <2>2, <2>4, <2>8, <3>1, <4>1 DEF ReaperFits
    <3>2. CASE reaper = "wait"
      <4>1. at <= n
        BY <1>0, <3>2 DEF ReaperFits, n
      <4> QED
        BY <1>0, <1>n, <2>2, <2>4, <3>2, <4>1 DEF ReaperFits, ListTypeOK
    <3> QED
      BY <2>2, <3>1, <3>2 DEF ReaperFits
  <2> QED
    BY <2>13, <2>14
<1>2. CASE ThreadStep
  <2>1. PICK t \in Tids, from \in Alive, to \in Alive \cup {"ended"} : Thread(t, from, to)
    BY <1>2 DEF ThreadStep
  <2>2. /\ UNCHANGED <<list, created, reaper, at>> /\ pc[t] = from /\ pc' = [pc EXCEPT ![t] = to]
    BY <2>1 DEF Thread
  <2>3. \A u \in Tids : /\ pc'[u] = "freed" <=> pc[u] = "freed"
                        /\ pc'[u] = "none" <=> pc[u] = "none"
                        /\ pc[u] = "ended" => pc'[u] = "ended"
                        /\ pc'[u] \in Alive \cup {"ended"} => pc[u] \in Alive \cup {"ended"}
    BY <1>0, <2>1, <2>2, Places DEF ListTypeOK
  <2>4. ListFits'
    BY <1>0, <1>n, <2>2, <2>3 DEF ListFits, Listed, n
  <2>5. ReaperFits'
    BY <1>0, <1>n, <2>2, <2>3 DEF ReaperFits, n
  <2> QED
    BY <2>4, <2>5
<1>3. CASE ReaperFrees
  <2>1. /\ reaper = "free" /\ reaper' = "scan" /\ UNCHANGED <<created, at>>
        /\ pc' = [pc EXCEPT ![list[at]] = "freed"] /\ at \in 1..n /\ pc[list[at]] = "ended"
    BY <1>0, <1>n, <1>3 DEF ReaperFrees, ReaperFits, ListTypeOK, n
  <2>2. /\ list' \in Seq(Tids) /\ Len(list') = n - 1
        /\ \A i \in 1..(n - 1) : list'[i] = IF i < at THEN list[i] ELSE list[i + 1]
    BY <1>n, <1>3, <2>1, WithoutEntry DEF n
  <2>3. /\ \A i, j \in 1..n : list[i] = list[j] => i = j
        /\ \A i \in 1..n : list[i] <= created /\ pc[list[i]] # "freed"
    BY <1>0, <2>1 DEF ListFits, n
  <2>4. \A t \in Tids : pc'[t] = IF t = list[at] THEN "freed" ELSE pc[t]
    BY <1>0, <1>n, <2>1 DEF ListTypeOK
  <2>5. \A t \in Tids : (pc'[t] = "none") <=> (t > created')
    BY <1>0, <2>1, <2>4 DEF ListFits
  <2>6. \A i \in 1..(n - 1) : /\ list'[i] <= created /\ list'[i] \in Tids /\ list'[i] # list[at]
                              /\ pc'[list'[i]] # "freed"
                              /\ \A j \in 1..(n - 1) : list'[i] = list'[j] => i = j
    <3>1. ASSUME NEW i \in 1..(n - 1)
          PROVE  /\ list'[i] <= created /\ list'[i] \in Tids /\ list'[i] # list[at]
                 /\ pc'[list'[i]] # "freed"
      <4>1. PICK j \in 1..n : j # at /\ list'[i] = list[j]
        <5>1. CASE i < at
          BY <1>n, <2>1, <2>2, <5>1
        <5>2. CASE ~ (i < at)
          <6>1. i + 1 \in 1..n /\ i + 1 # at /\ list'[i] = list[i + 1]
            BY <1>n, <2>1, <2>2, <5>2
          <6> QED
            BY <6>1
        <5> QED
          BY <5>1, <5>2
      <4> QED
        BY <1>n, <2>1, <2>3, <2>4, <4>1
    <3>2. ASSUME NEW i \in 1..(n - 1), NEW j \in 1..(n - 1), list'[i] = list'[j]
          PROVE  i = j
      BY <1>n, <2>1, <2>2, <2>3, <3>2
    <3> QED
      BY <3>1, <3>2
  <2>7. ASSUME NEW t \in Tids, pc'[t] \in Alive \cup {"ended"}
        PROVE  \E i \in 1..(n - 1) : list'[i] = t
    <3>1. t # list[at] /\ pc[t] \in Alive \cup {"ended"}
      BY <2>4, <2>7, Places
    <3>2. PICK i \in 1..n : list[i] = t
      BY <1>0, <3>1 DEF ListFits, Listed, n
    <3>3. CASE i < at
      <4>1. i \in 1..(n - 1)
        BY <1>n, <2>1, <3>3
      <4>2. list'[i] = list[i]
        BY <2>2, <3>3, <4>1
      <4> QED
        BY <3>2, <4>1, <4>2
    <3>4. CASE ~ (i < at)
      <4>1. i - 1 \in 1..(n - 1) /\ list'[i - 1] = list[i]
        BY <1>n, <2>1, <2>2, <3>1, <3>2, <3>4
      <4> QED
        BY <3>2, <4>1
    <3> QED
      BY <3>3, <3>4
  <2>8. ListFits'
    BY <2>1, <2>2, <2>5, <2>6, <2>7 DEF ListFits, Listed
  <2>9. ReaperFits'
    BY <2>1 DEF ReaperFits
  <2> QED
    BY <2>8, <2>9
<1>4. CASE ReaperJoins
  <2>1. /\ reaper = "joining" /\ reaper' = "joining" /\ UNCHANGED <<created, list>> /\ at' = at + 1
        /\ pc' = [pc EXCEPT ![list[at]] = "freed"] /\ at \in 1..n /\ pc[list[at]] = "ended"
    BY <1>0, <1>n, <1>4 DEF ReaperJoins, ReaperFits, ListTypeOK, n
  <2>2. \A t \in Tids : pc'[t] = IF t = list[at] THEN "freed" ELSE pc[t]
    BY <1>0, <1>n, <2>1 DEF ListTypeOK
  <2>3. \A i \in 1..n : (pc'[list[i]] = "freed") <=> (i < at')
    <3>1. ASSUME NEW i \in 1..n PROVE (pc[list[i]] = "freed") <=> (i < at)
      BY <1>0, <2>1 DEF ListFits, n
    <3>2. ASSUME NEW i \in 1..n PROVE list[i] = list[at] <=> i = at
      BY <1>0, <2>1 DEF ListFits, n
    <3> QED
      BY <1>n, <2>1, <2>2, <3>1, <3>2
  <2>4. \A t \in Tids : (pc'[t] = "none") <=> (t > created')
    BY <1>0, <2>1, <2>2 DEF ListFits
  <2>5. \A t \in Tids : pc'[t] \in Alive \cup {"ended"} => Listed(t)
    BY <1>0, <2>2, Places DEF ListFits
  <2>6. ListFits'
    BY <1>0, <2>1, <2>3, <2>4, <2>5 DEF ListFits, Listed, n
  <2>7. ReaperFits'
    BY <1>n, <2>1 DEF ReaperFits, n
  <2> QED
    BY <2>6, <2>7
<1>5. CASE ReaperScan \/ ReaperToldToExit \/ ReaperUpdates
  <2>1. /\ UNCHANGED <<list, pc, created>> /\ reaper \notin {"joining", "ended", "free"}
        /\ reaper' \in {"wait", "lock", "scan"} /\ (reaper' = "wait" => at' = Len(list))
    BY <1>5 DEF ReaperScan, ReaperToldToExit, ReaperUpdates
  <2> QED
    BY <1>0, <2>1 DEF ListFits, ReaperFits, Listed
<1>6. CASE ReaperSeesEnd
  <2>1. PICK i \in 1..at : pc[list[i]] = "ended" /\ at' = i
    BY <1>6 DEF ReaperSeesEnd
  <2>2. UNCHANGED <<list, pc, created>> /\ reaper = "wait" /\ reaper' = "free" /\ at <= n
    BY <1>0, <1>6 DEF ReaperSeesEnd, ReaperFits, n
  <2>3. ListFits'
    BY <1>0, <2>2 DEF ListFits, Listed
  <2>4. ReaperFits'
    BY <1>0, <1>n, <2>1, <2>2 DEF ReaperFits, ListTypeOK, n
  <2> QED
    BY <2>3, <2>4
<1>7. CASE ExitClose
  <2>1. list' = <<>> /\ UNCHANGED <<reaper, at, pc, created>> /\ reaper = "ended"
    BY <1>0, <1>7 DEF ExitClose, ExitFits
  <2>2. \A t \in Tids : pc[t] \notin Alive \cup {"ended"}
    <3>1. \A i \in 1..n : pc[list[i]] = "freed"
      BY <1>0, <1>n, <2>1 DEF ListFits, ReaperFits, ListTypeOK, n
    <3> QED
      BY <1>0, <3>1, Places DEF ListFits, Listed, n
  <2>3. Len(list') = 0
    BY <2>1
  <2>4. ListFits'
    BY <1>0, <2>1, <2>2, <2>3 DEF ListFits, Listed
  <2>5. ReaperFits'
    BY <1>0, <1>n, <2>1, <2>3 DEF ReaperFits, ListTypeOK, n
  <2> QED
    BY <2>4, <2>5
<1>9. CASE ReaperLocks \/ ReaperEnds
  <2>1. UNCHANGED <<list, pc, created>>
    BY <1>9 DEF ReaperLocks, ReaperEnds
  <2>2. ListFits'
    BY <1>0, <2>1, <1>9 DEF ListFits, Listed, ReaperLocks, ReaperEnds
  <2>3. ReaperFits'
    BY <1>0, <2>1, <1>9 DEF ReaperFits, ListTypeOK, ReaperLocks, ReaperEnds
  <2> QED
    BY <2>2, <2>3
<1>8. CASE QuietStep
  BY <1>0, <1>8 DEF ListFits, ReaperFits, Listed, QuietStep
<1> QED
  BY <1>1, <1>2, <1>3, <1>4, <1>5, <1>6, <1>7, <1>8, <1>9, StepKinds

-----------------------------------------------------------------------------
(* Leaving *)

\* What exit may do next and how far the reaper has come go together.
LEMMA ExitInv ==
    ASSUME IInv, Next
    PROVE  ExitFits'
<1>0. ExitFits
  BY DEF IInv
<1>1. CASE (\E t \in Tasks : PushTask(t)) \/ Submission \/ StartWorker \/ InitReturns \/ Background
  <2>1. /\ main \in {"open", "release", "count", "spare", "create", "starting"}
        /\ UNCHANGED <<exitEvent, reaper>>
    BY <1>1 DEF PushTask, ReleasePermit, CountWorkers, CountSpare, CreateWorker, StartWorker,
                InitReturns, Background
  <2>2. main' \notin {"join", "close", "closed"}
    BY <1>1 DEF PushTask, ReleasePermit, CountWorkers, CountSpare, CreateWorker, StartWorker,
                InitReturns, Background
  <2> QED
    BY <1>0, <2>1, <2>2 DEF ExitFits
<1>2. CASE Exit
  BY <1>0, <1>2 DEF ExitFits, ExitClear, ExitWake, ExitSignal, ExitJoin, ExitClose
<1>3. ASSUME NEW w \in Tids, ThreadSteps(w) PROVE ExitFits'
  <2>1. UNCHANGED <<main, exitEvent, reaper>>
    BY <1>3 DEF WorkerBegins, TryAcquire, CheckWorkers, CountFree, Acquire, UncountFree, PopTask,
                PopNothing, TaskEnds, WorkerEnds, JobEnds, Thread
  <2> QED
    BY <1>0, <2>1 DEF ExitFits
<1>4. CASE ReaperSteps
  BY <1>0, <1>4 DEF ExitFits, ReaperScan, ReaperToldToExit, ReaperUpdates, ReaperSeesEnd,
                    ReaperFrees, ReaperLocks, ReaperJoins, ReaperEnds
<1> QED
  BY <1>1, <1>2, <1>3, <1>4 DEF Next

-----------------------------------------------------------------------------
(* Counting *)

\* Two finite sets that differ in one element at most.
LEMMA OneMoves ==
    ASSUME NEW S, IsFiniteSet(S), NEW x, NEW T, \A y : y # x => (y \in S <=> y \in T)
    PROVE  /\ Cardinality(S) \in Nat
           /\ x \in T /\ x \notin S => Cardinality(T) = Cardinality(S) + 1
           /\ x \notin T /\ x \in S => Cardinality(T) = Cardinality(S) - 1
           /\ (x \in T <=> x \in S) => T = S
<1>1. CASE x \in T /\ x \notin S
  <2>1. T = S \cup {x}
    BY <1>1
  <2> QED
    BY <1>1, <2>1, FS_AddElement, FS_CardinalityType
<1>2. CASE x \notin T /\ x \in S
  <2>1. T = S \ {x}
    BY <1>2
  <2> QED
    BY <1>2, <2>1, FS_RemoveElement, FS_CardinalityType
<1>3. CASE x \in T <=> x \in S
  <2>1. T = S
    BY <1>3
  <2> QED
    BY <1>3, <2>1, FS_CardinalityType
<1> QED
  BY <1>1, <1>2, <1>3

\* There are finitely many threads.
LEMMA FinitelyMany ==
    IsFiniteSet(Counting) /\ IsFiniteSet(Waiters) /\ IsFiniteSet(Permitted)
<1>1. IsFiniteSet(Tids)
  BY FS_Interval DEF Tids
<1> QED
  BY <1>1, FS_Subset DEF Counting, Waiters, Permitted

\* What a thread that goes to a place does to the three numbers of threads.
Numbers(t, to) ==
    /\ Cardinality(Counting) \in Nat /\ Cardinality(Waiters) \in Nat
    /\ Cardinality(Permitted) \in Nat
    /\ to \in Counted /\ pc[t] \notin Counted => Cardinality(Counting') = Cardinality(Counting) + 1
    /\ to \notin Counted /\ pc[t] \in Counted => Cardinality(Counting') = Cardinality(Counting) - 1
    /\ (to \in Counted <=> pc[t] \in Counted) => Counting' = Counting
    /\ to \in {"wait", "woken"} /\ pc[t] \notin {"wait", "woken"}
         => Cardinality(Waiters') = Cardinality(Waiters) + 1
    /\ to \notin {"wait", "woken"} /\ pc[t] \in {"wait", "woken"}
         => Cardinality(Waiters') = Cardinality(Waiters) - 1
    /\ (to \in {"wait", "woken"} <=> pc[t] \in {"wait", "woken"}) => Waiters' = Waiters
    /\ to \in {"woken", "pop"} /\ pc[t] \notin {"woken", "pop"}
         => Cardinality(Permitted') = Cardinality(Permitted) + 1
    /\ to \notin {"woken", "pop"} /\ pc[t] \in {"woken", "pop"}
         => Cardinality(Permitted') = Cardinality(Permitted) - 1
    /\ (to \in {"woken", "pop"} <=> pc[t] \in {"woken", "pop"}) => Permitted' = Permitted

LEMMA ThreadMoves ==
    ASSUME pc \in [Tids -> Alive \cup {"none", "ended", "freed"}],
           NEW t \in Tids, NEW to, pc' = [pc EXCEPT ![t] = to]
    PROVE  Numbers(t, to)
<1>1. \A u \in Tids : pc'[u] = IF u = t THEN to ELSE pc[u]
  OBVIOUS
<1>2. /\ \A u : u # t => (u \in Counting <=> u \in Counting')
      /\ t \in Counting' <=> to \in Counted
      /\ t \in Counting <=> pc[t] \in Counted
  BY <1>1 DEF Counting
<1>3. /\ \A u : u # t => (u \in Waiters <=> u \in Waiters')
      /\ t \in Waiters' <=> to \in {"wait", "woken"}
      /\ t \in Waiters <=> pc[t] \in {"wait", "woken"}
  BY <1>1 DEF Waiters
<1>4. /\ \A u : u # t => (u \in Permitted <=> u \in Permitted')
      /\ t \in Permitted' <=> to \in {"woken", "pop"}
      /\ t \in Permitted <=> pc[t] \in {"woken", "pop"}
  BY <1>1 DEF Permitted
<1> HIDE DEF Counted
<1>5. /\ Cardinality(Counting) \in Nat
      /\ to \in Counted /\ pc[t] \notin Counted => Cardinality(Counting') = Cardinality(Counting) + 1
      /\ to \notin Counted /\ pc[t] \in Counted => Cardinality(Counting') = Cardinality(Counting) - 1
      /\ (to \in Counted <=> pc[t] \in Counted) => Counting' = Counting
  BY <1>2, OneMoves, FinitelyMany
<1>6. /\ Cardinality(Waiters) \in Nat
      /\ to \in {"wait", "woken"} /\ pc[t] \notin {"wait", "woken"}
           => Cardinality(Waiters') = Cardinality(Waiters) + 1
      /\ to \notin {"wait", "woken"} /\ pc[t] \in {"wait", "woken"}
           => Cardinality(Waiters') = Cardinality(Waiters) - 1
      /\ (to \in {"wait", "woken"} <=> pc[t] \in {"wait", "woken"}) => Waiters' = Waiters
  BY <1>3, OneMoves, FinitelyMany
<1>7. /\ Cardinality(Permitted) \in Nat
      /\ to \in {"woken", "pop"} /\ pc[t] \notin {"woken", "pop"}
           => Cardinality(Permitted') = Cardinality(Permitted) + 1
      /\ to \notin {"woken", "pop"} /\ pc[t] \in {"woken", "pop"}
           => Cardinality(Permitted') = Cardinality(Permitted) - 1
      /\ (to \in {"woken", "pop"} <=> pc[t] \in {"woken", "pop"}) => Permitted' = Permitted
  BY <1>4, OneMoves, FinitelyMany
<1> QED
  BY <1>5, <1>6, <1>7 DEF Numbers

\* What the lemmas on counting use of the invariant.
CountOK ==
    /\ pc \in [Tids -> Alive \cup {"none", "ended", "freed"}]
    /\ permits \in Nat /\ Len(tasks) \in Nat /\ tasks \in Seq(Tasks)
    /\ CountersFit /\ PermitPerTask

LEMMA CountOKHolds == ASSUME IInv PROVE CountOK
<1>1. tasks \in Seq(Tasks)
  BY DEF IInv, TypeOK
<1> QED
  BY <1>1, LenProperties DEF IInv, TypeOK, CountOK

\* A thread moves: the counters follow, and a permit goes with each task taken.
\* A worker that finds the queue empty while the pool is up would be one too many.
LEMMA ThreadsCount ==
    ASSUME CountOK, NEW w \in Tids, ThreadSteps(w)
    PROVE  CountersFit' /\ PermitPerTask'
<1> USE DEF Counted, WorkerAt
<1>c. CountersFit /\ PermitPerTask
  BY DEF CountOK
<1>t. PICK to \in Alive \cup {"ended"} : pc' = [pc EXCEPT ![w] = to] /\ UNCHANGED main
  BY DEF Thread, WorkerBegins, TryAcquire, CheckWorkers, CountFree, Acquire, UncountFree, PopTask,
         PopNothing, TaskEnds, WorkerEnds, JobEnds, Alive
<1>n. Numbers(w, to) /\ pc'[w] = to
  BY <1>t, ThreadMoves DEF CountOK
<1>s. Stopping' = Stopping /\ Unannounced' = Unannounced /\ Unannounced \in {0, 1}
  BY <1>t DEF Stopping, Unannounced
<1>1. CASE WorkerBegins(w)
  <2>1. /\ pc[w] = "new" /\ to = "try" /\ numWorkers' = numWorkers + 1
        /\ UNCHANGED <<tasks, permits, freeWorkers>>
    BY <1>1, <1>n, <1>t DEF WorkerBegins, Thread, CountOK
  <2>2. /\ Cardinality(Counting') = Cardinality(Counting) + 1 /\ Waiters' = Waiters
        /\ Permitted' = Permitted
    BY <1>n, <2>1 DEF Numbers
  <2> QED
    BY <1>c, <1>s, <2>1, <2>2 DEF CountersFit, PermitPerTask
<1>2. CASE TryAcquire(w) /\ permits > 0
  <2>1. /\ pc[w] = "try" /\ to = "pop" /\ permits' = permits - 1
        /\ UNCHANGED <<tasks, numWorkers, freeWorkers>>
    BY <1>2, <1>n, <1>t DEF TryAcquire, Thread, CountOK
  <2>2. /\ Counting' = Counting /\ Waiters' = Waiters /\ Cardinality(Permitted) \in Nat
        /\ Cardinality(Permitted') = Cardinality(Permitted) + 1
    BY <1>n, <2>1 DEF Numbers
  <2> QED
    BY <1>c, <1>s, <2>1, <2>2 DEF CountersFit, PermitPerTask, CountOK
<1>3. CASE (TryAcquire(w) /\ ~ (permits > 0)) \/ CheckWorkers(w) \/ TaskEnds(w) \/ JobEnds(w)
  <2>1. /\ UNCHANGED <<tasks, permits, numWorkers, freeWorkers>>
        /\ to \in Counted <=> pc[w] \in Counted
        /\ to \notin {"wait", "woken", "pop"} /\ pc[w] \notin {"wait", "woken", "pop"}
    BY <1>3, <1>n, <1>t DEF TryAcquire, CheckWorkers, TaskEnds, JobEnds, Thread, Alive, CountOK
  <2>2. Counting' = Counting /\ Waiters' = Waiters /\ Permitted' = Permitted
    BY <1>n, <2>1 DEF Numbers
  <2> QED
    BY <1>c, <1>s, <2>1, <2>2 DEF CountersFit, PermitPerTask
<1>4. CASE CountFree(w)
  <2>1. /\ pc[w] = "idle" /\ to = "wait" /\ freeWorkers' = freeWorkers + 1
        /\ UNCHANGED <<tasks, permits, numWorkers>>
    BY <1>4, <1>n, <1>t DEF CountFree, Thread, CountOK
  <2>2. /\ Cardinality(Waiters') = Cardinality(Waiters) + 1 /\ Counting' = Counting
        /\ Permitted' = Permitted
    BY <1>n, <2>1 DEF Numbers
  <2> QED
    BY <1>c, <1>s, <2>1, <2>2 DEF CountersFit, PermitPerTask
<1>5. CASE Acquire(w)
  <2>1. /\ pc[w] = "wait" /\ to = "woken" /\ permits' = permits - 1
        /\ UNCHANGED <<tasks, numWorkers, freeWorkers>>
    BY <1>5, <1>n, <1>t DEF Acquire, Thread, CountOK
  <2>2. /\ Counting' = Counting /\ Waiters' = Waiters /\ Cardinality(Permitted) \in Nat
        /\ Cardinality(Permitted') = Cardinality(Permitted) + 1
    BY <1>n, <2>1 DEF Numbers
  <2> QED
    BY <1>c, <1>s, <2>1, <2>2 DEF CountersFit, PermitPerTask, CountOK
<1>6. CASE UncountFree(w)
  <2>1. /\ pc[w] = "woken" /\ to = "pop" /\ freeWorkers' = freeWorkers - 1
        /\ UNCHANGED <<tasks, permits, numWorkers>>
    BY <1>6, <1>n, <1>t DEF UncountFree, Thread, CountOK
  <2>2. /\ Cardinality(Waiters') = Cardinality(Waiters) - 1 /\ Counting' = Counting
        /\ Permitted' = Permitted
    BY <1>n, <2>1 DEF Numbers
  <2> QED
    BY <1>c, <1>s, <2>1, <2>2 DEF CountersFit, PermitPerTask
<1>7. CASE PopTask(w) \/ PopNothing(w)
  <2>1. /\ pc[w] = "pop" /\ UNCHANGED <<permits, numWorkers, freeWorkers>>
        /\ to \in {"run", "leave"}
    BY <1>7, <1>n, <1>t DEF PopTask, PopNothing, Thread, CountOK
  <2>2. /\ Counting' = Counting /\ Waiters' = Waiters /\ Cardinality(Permitted) \in Nat
        /\ Cardinality(Permitted') = Cardinality(Permitted) - 1
    BY <1>n, <2>1 DEF Numbers
  <2>3. Cardinality(Permitted) # 0
    <3>1. w \in Permitted
      BY <2>1 DEF Permitted
    <3> QED
      BY <3>1, FinitelyMany, FS_EmptySet
  <2>4. ASSUME ~Stopping PROVE Len(tasks') = Len(tasks) - 1
    <3>1. Len(tasks) = permits + Cardinality(Permitted) + Unannounced /\ Len(tasks) # 0
      BY <1>c, <1>s, <2>2, <2>3, <2>4 DEF PermitPerTask, CountOK
    <3>2. tasks # <<>>
      BY <3>1
    <3>3. tasks' = Tail(tasks)
      BY <1>7, <3>2 DEF PopTask, PopNothing
    <3> QED
      BY <3>2, <3>3, HeadTailProperties DEF CountOK
  <2>5. CountersFit'
    BY <1>c, <2>1, <2>2 DEF CountersFit
  <2>6. PermitPerTask'
    BY <1>c, <1>s, <2>1, <2>2, <2>4 DEF PermitPerTask, CountOK
  <2> QED
    BY <2>5, <2>6
<1>8. CASE WorkerEnds(w)
  <2>1. /\ pc[w] = "leave" /\ to = "ended" /\ numWorkers' = numWorkers - 1
        /\ UNCHANGED <<tasks, permits, freeWorkers>>
    BY <1>8, <1>n, <1>t DEF WorkerEnds, Thread, CountOK
  <2>2. /\ Cardinality(Counting') = Cardinality(Counting) - 1 /\ Waiters' = Waiters
        /\ Permitted' = Permitted
    BY <1>n, <2>1 DEF Numbers
  <2> QED
    BY <1>c, <1>s, <2>1, <2>2 DEF CountersFit, PermitPerTask
<1> QED
  BY <1>1, <1>2, <1>3, <1>4, <1>5, <1>6, <1>7, <1>8 DEF ThreadSteps

\* Creating and freeing a thread changes none of the numbers, the main thread one at a time.
LEMMA CountInv ==
    ASSUME IInv, Next
    PROVE  CountersFit' /\ PermitPerTask'
<1>0. CountOK /\ CountersFit /\ PermitPerTask /\ ListFits /\ ReaperFits
  BY CountOKHolds DEF IInv
<1>1. CASE \E w \in Tids : ThreadSteps(w)
  BY <1>0, <1>1, ThreadsCount
<1> DEFINE Still == Counting' = Counting /\ Waiters' = Waiters /\ Permitted' = Permitted
<1>2. ASSUME UNCHANGED pc PROVE Still
  BY <1>2 DEF Counting, Waiters, Permitted
<1>3. ASSUME NEW body \in {"new", "job"}, Spawn(body) PROVE Still
  <2>1. /\ created + 1 \in Tids /\ pc[created + 1] = "none"
        /\ pc' = [pc EXCEPT ![created + 1] = body]
    BY <1>0, <1>3 DEF Spawn, IInv, TypeOK, Tids, ListFits
  <2>2. Numbers(created + 1, body)
    BY <1>0, <2>1, ThreadMoves DEF CountOK
  <2> QED
    BY <2>1, <2>2 DEF Numbers, Counted, WorkerAt
<1>4. ASSUME ReaperSteps PROVE Still
  <2>1. CASE UNCHANGED pc
    BY <1>2, <2>1
  <2>2. CASE ReaperFrees \/ ReaperJoins
    <3>1. /\ list \in Seq(Tids) /\ Len(list) \in Nat /\ at \in 1..Len(list)
      <4>1. list \in Seq(Tids) /\ at \in Nat
        BY DEF IInv, TypeOK
      <4> QED
        BY <1>0, <2>2, <4>1, LenProperties DEF ReaperFits, ReaperFrees, ReaperJoins
    <3>2. list[at] \in Tids
      BY <3>1, LenProperties
    <3>3. pc[list[at]] = "ended" /\ pc' = [pc EXCEPT ![list[at]] = "freed"]
      BY <1>0, <2>2 DEF ReaperFrees, ReaperJoins, ReaperFits
    <3>4. Numbers(list[at], "freed")
      BY <1>0, <3>2, <3>3, ThreadMoves DEF CountOK
    <3> QED
      BY <3>3, <3>4 DEF Numbers, Counted, WorkerAt
  <2> QED
    BY <1>4, <2>1, <2>2 DEF ReaperScan, ReaperToldToExit, ReaperUpdates, ReaperSeesEnd,
                            ReaperLocks, ReaperEnds
<1>5. CASE \E t \in Tasks : PushTask(t)
  <2>1. PICK t \in Tasks : PushTask(t)
    BY <1>5
  <2>2. /\ UNCHANGED <<pc, permits, numWorkers, freeWorkers>> /\ tasks' = Append(tasks, t)
        /\ main = "open" /\ main' = "release"
    BY <2>1 DEF PushTask
  <2>3. Len(tasks') = Len(tasks) + 1
    BY <1>0, <2>2, AppendProperties DEF CountOK
  <2>4. Still
    BY <1>2, <2>2
  <2>5. Cardinality(Permitted) \in Nat
    BY FinitelyMany, FS_CardinalityType
  <2> QED
    BY <1>0, <2>2, <2>3, <2>4, <2>5 DEF CountersFit, PermitPerTask, Stopping, Unannounced, CountOK
<1>6. CASE ReleasePermit
  <2>1. /\ UNCHANGED <<pc, tasks, numWorkers, freeWorkers>> /\ permits' = permits + 1
        /\ main = "release" /\ main' = "count"
    BY <1>6 DEF ReleasePermit
  <2>2. Still
    BY <1>2, <2>1
  <2>3. Cardinality(Permitted) \in Nat
    BY FinitelyMany, FS_CardinalityType
  <2> QED
    BY <1>0, <2>1, <2>2, <2>3 DEF CountersFit, PermitPerTask, Stopping, Unannounced, CountOK
<1>7. CASE CountWorkers \/ CountSpare \/ CreateWorker \/ StartWorker \/ InitReturns \/ Background
  <2>1. /\ UNCHANGED <<tasks, permits, numWorkers, freeWorkers>>
        /\ main \in {"count", "spare", "create", "starting", "open"}
        /\ main' \in {"count", "spare", "create", "starting", "open", "unwind"}
    BY <1>7 DEF CountWorkers, CountSpare, CreateWorker, StartWorker, InitReturns, Background
  <2>2. Still
    BY <1>2, <1>3, <1>7 DEF CountWorkers, CountSpare, CreateWorker, StartWorker, InitReturns,
                            Background, SpawnFails
  <2> QED
    BY <1>0, <2>1, <2>2 DEF CountersFit, PermitPerTask, Stopping, Unannounced
<1>8. CASE Exit
  <2>1. UNCHANGED <<pc, numWorkers, freeWorkers>> /\ Stopping'
    BY <1>8 DEF ExitClear, ExitWake, ExitSignal, ExitJoin, ExitClose, Stopping
  <2>2. Still
    BY <1>2, <2>1
  <2> QED
    BY <1>0, <2>1, <2>2 DEF CountersFit, PermitPerTask
<1>9. CASE ReaperSteps
  <2>1. UNCHANGED <<tasks, permits, numWorkers, freeWorkers, main>>
    BY <1>9 DEF ReaperScan, ReaperToldToExit, ReaperUpdates, ReaperSeesEnd,
                ReaperFrees, ReaperLocks, ReaperJoins, ReaperEnds
  <2>2. Still
    BY <1>4, <1>9
  <2> QED
    BY <1>0, <2>1, <2>2 DEF CountersFit, PermitPerTask, Stopping, Unannounced
<1> QED
  BY <1>1, <1>5, <1>6, <1>7, <1>8, <1>9 DEF Next

-----------------------------------------------------------------------------
(* Tasks *)

\* What TasksInv uses of the types.
TaskOK ==
    /\ pc \in [Tids -> Alive \cup {"none", "ended", "freed"}]
    /\ held \in [Tids -> Tasks \cup {NoTask}] /\ fresh \subseteq Tasks
    /\ tasks \in Seq(Tasks) /\ Len(tasks) \in Nat /\ \A i \in 1..Len(tasks) : tasks[i] \in Tasks
    /\ TasksFit

LEMMA TaskOKHolds == ASSUME IInv PROVE TaskOK
<1>1. tasks \in Seq(Tasks)
  BY DEF IInv, TypeOK
<1> QED
  BY <1>1, LenProperties DEF IInv, TypeOK, TaskOK

\* The steps that leave the tasks where they are.
TasksStay ==
    /\ UNCHANGED <<tasks, held, fresh>>
    /\ \A t \in Tids : (pc'[t] = "run") <=> (pc[t] = "run")

LEMMA OthersLeaveTasks ==
    ASSUME IInv, Next
    PROVE  \/ TasksStay \/ ExitClear
           \/ \E t \in Tasks : PushTask(t)
           \/ \E w \in Tids : PopTask(w) \/ TaskEnds(w)
<1>0. /\ pc \in [Tids -> Alive \cup {"none", "ended", "freed"}] /\ ListFits /\ ReaperFits
      /\ created \in Nat
  BY DEF IInv, TypeOK
<1>1. CASE Submission \/ InitReturns \/ StartWorker \/ Background
  <2>1. UNCHANGED <<tasks, held, fresh>>
    BY <1>1 DEF ReleasePermit, CountWorkers, CountSpare, CreateWorker, StartWorker, InitReturns,
                Background
  <2>2. UNCHANGED pc \/ \E body \in {"new", "job"} : Spawn(body)
    BY <1>1 DEF ReleasePermit, CountWorkers, CountSpare, CreateWorker, StartWorker, InitReturns,
                Background, SpawnFails
  <2>3. ASSUME NEW body \in {"new", "job"}, Spawn(body)
        PROVE  \A t \in Tids : (pc'[t] = "run") <=> (pc[t] = "run")
    <3>1. created + 1 \in Tids /\ pc[created + 1] = "none" /\ pc' = [pc EXCEPT ![created + 1] = body]
      BY <1>0, <2>3 DEF Spawn, IInv, TypeOK, Tids, ListFits
    <3> QED
      BY <1>0, <3>1
  <2> QED
    BY <2>1, <2>2, <2>3 DEF TasksStay
<1>2. CASE Exit
  BY <1>2 DEF ExitClear, ExitWake, ExitSignal, ExitJoin, ExitClose, TasksStay
<1>3. ASSUME NEW w \in Tids, ThreadSteps(w), ~ PopTask(w), ~ TaskEnds(w) PROVE TasksStay
  <2>1. UNCHANGED <<tasks, held, fresh>>
    BY <1>3 DEF WorkerBegins, TryAcquire, CheckWorkers, CountFree, Acquire, UncountFree,
                PopNothing, WorkerEnds, JobEnds, Thread
  <2>2. pc[w] # "run" /\ \E to \in (Alive \cup {"ended"}) \ {"run"} : pc' = [pc EXCEPT ![w] = to]
    BY <1>3 DEF WorkerBegins, TryAcquire, CheckWorkers, CountFree, Acquire, UncountFree,
                PopNothing, WorkerEnds, JobEnds, Thread, Alive, WorkerAt
  <2> QED
    BY <1>0, <2>1, <2>2 DEF TasksStay
<1>4. CASE ReaperSteps
  <2>1. UNCHANGED <<tasks, held, fresh>>
    BY <1>4 DEF ReaperScan, ReaperToldToExit, ReaperUpdates, ReaperSeesEnd,
                ReaperFrees, ReaperLocks, ReaperJoins, ReaperEnds
  <2>2. \/ UNCHANGED pc
        \/ pc[list[at]] = "ended" /\ pc' = [pc EXCEPT ![list[at]] = "freed"]
    BY <1>0, <1>4 DEF ReaperScan, ReaperToldToExit, ReaperUpdates, ReaperSeesEnd,
                ReaperFrees, ReaperLocks, ReaperJoins, ReaperEnds, ReaperFits
  <2> QED
    BY <1>0, <2>1, <2>2 DEF TasksStay
<1> QED
  BY <1>1, <1>2, <1>3, <1>4 DEF Next, TasksStay, InitReturns, ThreadSteps

\* A task stays in one place.
LEMMA TasksInv ==
    ASSUME IInv, Next
    PROVE  TasksFit'
<1>0. TaskOK /\ TasksFit /\ NoTask \notin Tasks
  BY TaskOKHolds DEF TaskOK
<1> DEFINE n == Len(tasks)
<1>n. n \in Nat
  BY <1>0 DEF TaskOK
<1> HIDE DEF n
<1>1. CASE TasksStay
  BY <1>0, <1>1 DEF TasksFit, TasksStay
<1>2. CASE ExitClear
  <2>1. Len(tasks') = 0 /\ UNCHANGED <<pc, held, fresh>>
    BY <1>2 DEF ExitClear
  <2> QED
    BY <1>0, <2>1 DEF TasksFit
<1>3. ASSUME NEW t \in Tasks, PushTask(t) PROVE TasksFit'
  <2>1. /\ t \in fresh /\ fresh' = fresh \ {t} /\ UNCHANGED <<pc, held>>
        /\ tasks' = Append(tasks, t)
    BY <1>3 DEF PushTask
  <2>2. /\ Len(tasks') = n + 1 /\ \A i \in 1..n : tasks'[i] = tasks[i]
        /\ tasks'[n + 1] = t
    BY <1>0, <2>1, Appended DEF TaskOK, n
  <2>3. /\ \A i \in 1..n : tasks[i] \notin fresh
        /\ \A i, j \in 1..n : tasks[i] = tasks[j] => i = j
        /\ \A w \in Tids : held[w] \notin fresh /\ \A i \in 1..n : held[w] # tasks[i]
    BY <1>0 DEF TasksFit, n
  <2>4. \A i \in 1..(n + 1) : i \in 1..n \/ i = n + 1
    BY <1>n
  <2>5. \A i, j \in 1..(n + 1) : tasks'[i] = tasks'[j] => i = j
    BY <2>1, <2>2, <2>3, <2>4
  <2>6. \A i \in 1..(n + 1) : tasks'[i] \notin fresh'
    BY <2>1, <2>2, <2>3, <2>4
  <2>7. \A w \in Tids : held'[w] \notin fresh' /\ \A i \in 1..(n + 1) : held'[w] # tasks'[i]
    BY <2>1, <2>2, <2>3, <2>4
  <2>8. /\ \A w \in Tids : (pc'[w] = "run") <=> (held'[w] # NoTask)
        /\ \A v, w \in Tids : held'[v] = held'[w] /\ held'[v] # NoTask => v = w
    BY <1>0, <2>1 DEF TasksFit
  <2> QED
    BY <2>2, <2>5, <2>6, <2>7, <2>8 DEF TasksFit
<1>4. ASSUME NEW w \in Tids, PopTask(w) PROVE TasksFit'
  <2>1. /\ pc[w] = "pop" /\ pc' = [pc EXCEPT ![w] = "run"] /\ tasks # <<>>
        /\ held' = [held EXCEPT ![w] = Head(tasks)] /\ tasks' = Tail(tasks) /\ UNCHANGED fresh
    BY <1>4 DEF PopTask, Thread
  <2>2. /\ n >= 1 /\ Head(tasks) = tasks[1] /\ tasks[1] \in Tasks /\ Len(tasks') = n - 1
        /\ \A i \in 1..(n - 1) : tasks'[i] = tasks[i + 1]
    BY <1>0, <2>1, Tailed DEF TaskOK, n
  <2>3. /\ \A i \in 1..n : tasks[i] \notin fresh
        /\ \A i, j \in 1..n : tasks[i] = tasks[j] => i = j
        /\ \A v \in Tids : held[v] \notin fresh /\ \A i \in 1..n : held[v] # tasks[i]
    BY <1>0 DEF TasksFit, n
  <2>4. \A v \in Tids : /\ held'[v] = IF v = w THEN tasks[1] ELSE held[v]
                        /\ pc'[v] = IF v = w THEN "run" ELSE pc[v]
    BY <1>0, <2>1, <2>2 DEF TaskOK
  <2>5. 1 \in 1..n /\ \A i \in 1..(n - 1) : i + 1 \in 1..n /\ i + 1 # 1
    BY <1>n, <2>2
  <2>6. /\ \A i, j \in 1..(n - 1) : tasks'[i] = tasks'[j] => i = j
        /\ \A i \in 1..(n - 1) : tasks'[i] \notin fresh' /\ tasks'[i] # tasks[1]
    <3>1. \A i, j \in 1..(n - 1) : i + 1 = j + 1 => i = j
      BY <1>n
    <3> QED
      BY <2>1, <2>2, <2>3, <2>5, <3>1
  <2>7. \A v \in Tids : held'[v] \notin fresh' /\ \A i \in 1..(n - 1) : held'[v] # tasks'[i]
    BY <2>1, <2>2, <2>3, <2>4, <2>5, <2>6
  <2>8. \A v \in Tids : (pc'[v] = "run") <=> (held'[v] # NoTask)
    BY <1>0, <2>2, <2>4 DEF TasksFit
  <2>9. \A u, v \in Tids : held'[u] = held'[v] /\ held'[u] # NoTask => u = v
    BY <1>0, <2>3, <2>4, <2>5 DEF TasksFit
  <2> QED
    BY <2>2, <2>6, <2>7, <2>8, <2>9 DEF TasksFit
<1>5. ASSUME NEW w \in Tids, TaskEnds(w) PROVE TasksFit'
  <2>1. /\ pc' = [pc EXCEPT ![w] = "try"] /\ UNCHANGED <<tasks, fresh>>
        /\ held' = [held EXCEPT ![w] = NoTask]
    BY <1>5 DEF TaskEnds, Thread
  <2>2. \A v \in Tids : /\ held'[v] = IF v = w THEN NoTask ELSE held[v]
                        /\ pc'[v] = IF v = w THEN "try" ELSE pc[v]
    BY <1>0, <2>1 DEF TaskOK
  <2>3. NoTask \notin fresh /\ \A i \in 1..Len(tasks) : tasks[i] # NoTask
    BY <1>0 DEF TaskOK
  <2> QED
    BY <1>0, <2>1, <2>2, <2>3 DEF TasksFit
<1> QED
  BY <1>1, <1>2, <1>3, <1>4, <1>5, OthersLeaveTasks

-----------------------------------------------------------------------------
(* The invariant *)

LEMMA TypeInv ==
    ASSUME IInv, Next, CountersFit'
    PROVE  TypeOK'
<1>0. TypeOK /\ ListFits /\ ReaperFits /\ TaskOK /\ list \in Seq(Tids) /\ tasks \in Seq(Tasks)
  BY TaskOKHolds DEF IInv, TypeOK
<1>1. numWorkers' \in Nat /\ freeWorkers' \in Nat
  <2>1. IsFiniteSet(Tids)
    BY FS_Interval DEF Tids
  <2>2. IsFiniteSet(Counting') /\ IsFiniteSet(Waiters')
    BY <2>1, FS_Subset DEF Counting, Waiters
  <2> QED
    BY <2>2, FS_CardinalityType DEF CountersFit
<1>2. ASSUME NEW body \in {"new", "job"}, Spawn(body)
      PROVE  /\ list' \in Seq(Tids) /\ created' \in 0..MaxCreated /\ updateEvent' \in BOOLEAN
             /\ pc' \in [Tids -> Alive \cup {"none", "ended", "freed"}]
  <2>1. created + 1 \in Tids /\ created' = created + 1 /\ created' \in 0..MaxCreated
    BY <1>0, <1>2 DEF Spawn, TypeOK, Tids
  <2>2. list' = Append(list, created + 1) /\ pc' = [pc EXCEPT ![created + 1] = body] /\ updateEvent'
    BY <1>2 DEF Spawn
  <2>3. list' \in Seq(Tids)
    BY <1>0, <2>1, <2>2, AppendProperties
  <2> QED
    BY <1>0, <2>1, <2>2, <2>3 DEF TypeOK, Alive, WorkerAt
<1>3. CASE (\E t \in Tasks : PushTask(t)) \/ ReleasePermit
  <2>1. tasks' \in Seq(Tasks)
    BY <1>0, <1>3, AppendProperties DEF PushTask, ReleasePermit
  <2>2. /\ UNCHANGED <<list, exitEvent, updateEvent, minWorkers, pc, held>>
        /\ UNCHANGED <<toStart, reaper, at, created>>
        /\ permits' \in Nat /\ fresh' \subseteq Tasks /\ main' \in {"release", "count"}
    BY <1>0, <1>3 DEF PushTask, ReleasePermit, TypeOK
  <2> QED
    BY <1>0, <1>1, <2>1, <2>2 DEF TypeOK
<1>4. CASE CountWorkers \/ CountSpare \/ CreateWorker \/ StartWorker \/ InitReturns \/ Background
  <2>1. /\ UNCHANGED <<tasks, permits, fresh, exitEvent, minWorkers, held, reaper, at>>
        /\ main' \in {"starting", "open", "release", "count", "spare", "create", "unwind"}
        /\ toStart' \in 0..minWorkers
    BY <1>0, <1>4 DEF CountWorkers, CountSpare, CreateWorker, StartWorker, InitReturns,
                      Background, TypeOK
  <2>2. UNCHANGED threadVars \/ \E body \in {"new", "job"} : Spawn(body)
    BY <1>4 DEF CountWorkers, CountSpare, CreateWorker, StartWorker, InitReturns, Background,
                SpawnFails
  <2>3. /\ list' \in Seq(Tids) /\ created' \in 0..MaxCreated /\ updateEvent' \in BOOLEAN
        /\ pc' \in [Tids -> Alive \cup {"none", "ended", "freed"}]
    BY <1>0, <1>2, <2>2 DEF TypeOK
  <2> QED
    BY <1>0, <1>1, <2>1, <2>3 DEF TypeOK
<1>5. CASE Exit
  <2>1. /\ UNCHANGED <<updateEvent, minWorkers, pc, held, toStart, reaper, at, created, fresh>>
        /\ main' \in {"wake", "signal", "join", "close", "closed"}
    BY <1>0, <1>5 DEF ExitClear, ExitWake, ExitSignal, ExitJoin, ExitClose, TypeOK
  <2>2. tasks' \in Seq(Tasks) /\ list' \in Seq(Tids)
    BY <1>0, <1>5, EmptySeq DEF ExitClear, ExitWake, ExitSignal, ExitJoin, ExitClose
  <2>3. permits' \in Nat
    BY <1>0, <1>5 DEF ExitClear, ExitWake, ExitSignal, ExitJoin, ExitClose, TypeOK
  <2>4. exitEvent' \in BOOLEAN
    BY <1>0, <1>5 DEF ExitClear, ExitWake, ExitSignal, ExitJoin, ExitClose, TypeOK
  <2> QED
    BY <1>0, <1>1, <2>1, <2>2, <2>3, <2>4 DEF TypeOK
<1>6. ASSUME NEW w \in Tids, ThreadSteps(w) PROVE TypeOK'
  <2>1. /\ UNCHANGED <<list, exitEvent, updateEvent, minWorkers, toStart>>
        /\ UNCHANGED <<reaper, at, created, fresh, main>>
        /\ \E to \in Alive \cup {"ended"} : pc' = [pc EXCEPT ![w] = to]
    BY <1>6 DEF WorkerBegins, TryAcquire, CheckWorkers, CountFree, Acquire, UncountFree, PopTask,
                PopNothing, TaskEnds, WorkerEnds, JobEnds, Thread, Alive, WorkerAt
  <2>2. permits' \in Nat
    BY <1>0, <1>6 DEF WorkerBegins, TryAcquire, CheckWorkers, CountFree, Acquire, UncountFree,
                      PopTask,
                PopNothing, TaskEnds, WorkerEnds, JobEnds, TypeOK
  <2>3. tasks' \in Seq(Tasks) /\ held' \in [Tids -> Tasks \cup {NoTask}]
    <3>1. CASE PopTask(w)
      <4>1. tasks' \in Seq(Tasks) /\ Head(tasks) \in Tasks /\ held' = [held EXCEPT ![w] = Head(tasks)]
        BY <1>0, <3>1, HeadTailProperties DEF PopTask
      <4> QED
        BY <1>0, <4>1 DEF TaskOK
    <3>2. CASE TaskEnds(w)
      BY <1>0, <3>2 DEF TaskEnds, TaskOK
    <3>3. CASE UNCHANGED <<tasks, held>>
      BY <1>0, <3>3 DEF TaskOK
    <3> QED
      BY <1>6, <3>1, <3>2, <3>3 DEF WorkerBegins, TryAcquire, CheckWorkers, CountFree, Acquire,
                                    UncountFree,
                PopNothing, WorkerEnds, JobEnds
  <2>4. pc' \in [Tids -> Alive \cup {"none", "ended", "freed"}]
    BY <1>0, <2>1 DEF TypeOK
  <2> QED
    BY <1>0, <1>1, <2>1, <2>2, <2>3, <2>4 DEF TypeOK
<1>7. CASE ReaperSteps
  <2>1. /\ UNCHANGED <<tasks, permits, minWorkers, held, toStart, created, fresh, main>>
        /\ reaper' \in {"scan", "wait", "free", "lock", "joining", "ended"}
        /\ exitEvent' \in BOOLEAN /\ updateEvent' \in BOOLEAN
    BY <1>0, <1>7 DEF ReaperScan, ReaperToldToExit, ReaperUpdates, ReaperSeesEnd,
                ReaperFrees, ReaperLocks, ReaperJoins, ReaperEnds, TypeOK
  <2>2. at' \in Nat
    <3>1. at \in Nat /\ Len(list) \in Nat
      BY <1>0, LenProperties DEF TypeOK
    <3>2. CASE ReaperSeesEnd
      BY <3>1, <3>2 DEF ReaperSeesEnd
    <3>3. CASE ReaperScan
      BY <3>1, <3>3 DEF ReaperScan
    <3>4. CASE ReaperLocks \/ ReaperJoins
      BY <3>1, <3>4 DEF ReaperLocks, ReaperJoins
    <3>5. CASE UNCHANGED at
      BY <3>1, <3>5
    <3> QED
      BY <1>7, <3>2, <3>3, <3>4, <3>5 DEF ReaperToldToExit, ReaperUpdates, ReaperFrees, ReaperEnds
  <2>3. list' \in Seq(Tids)
    <3>1. CASE ReaperFrees
      <4>1. at \in 1..Len(list)
        BY <1>0, <3>1 DEF ReaperFrees, ReaperFits, TypeOK
      <4> QED
        BY <1>0, <3>1, <4>1, WithoutEntry
    <3> QED
      BY <1>0, <1>7, <3>1 DEF ReaperScan, ReaperToldToExit, ReaperUpdates, ReaperSeesEnd,
                ReaperLocks, ReaperJoins, ReaperEnds
  <2>4. pc' \in [Tids -> Alive \cup {"none", "ended", "freed"}]
    BY <1>0, <1>7 DEF ReaperScan, ReaperToldToExit, ReaperUpdates, ReaperSeesEnd,
                ReaperFrees, ReaperLocks, ReaperJoins, ReaperEnds, TypeOK
  <2> QED
    BY <1>0, <1>1, <2>1, <2>2, <2>3, <2>4 DEF TypeOK
<1> QED
  BY <1>3, <1>4, <1>5, <1>6, <1>7 DEF Next

LEMMA InitInv ==
    ASSUME Init
    PROVE  IInv
<1>0. tasks = <<>> /\ list = <<>> /\ Len(list) = 0 /\ Len(tasks) = 0
  BY DEF Init
<1>1. TypeOK
  <2>1. list \in Seq(Tids) /\ tasks \in Seq(Tasks)
    BY <1>0, EmptySeq
  <2>2. exitEvent \in BOOLEAN /\ updateEvent \in BOOLEAN
    BY DEF Init
  <2>3. /\ pc \in [Tids -> Alive \cup {"none", "ended", "freed"}]
        /\ held \in [Tids -> Tasks \cup {NoTask}]
    BY DEF Init
  <2>4. /\ minWorkers \in MinChoices /\ toStart \in 0..minWorkers /\ fresh \subseteq Tasks
        /\ main = "starting" /\ reaper = "scan" /\ at \in Nat /\ created \in 0..MaxCreated
        /\ permits \in Nat /\ numWorkers \in Nat /\ freeWorkers \in Nat
    BY DEF Init
  <2> QED
    BY <2>1, <2>2, <2>3, <2>4 DEF TypeOK
<1>2. \A t \in Tids : pc[t] = "none" /\ held[t] = NoTask
  BY DEF Init
<1>3. ListFits /\ ReaperFits
  BY <1>0, <1>2, Places DEF Init, ListFits, ReaperFits, Tids
<1>4. ExitFits
  BY DEF Init, ExitFits
<1>5. CountersFit /\ PermitPerTask
  <2>1. Counting = {} /\ Waiters = {} /\ Permitted = {}
    BY <1>2 DEF Counting, Counted, WorkerAt, Waiters, Permitted
  <2>2. numWorkers = 0 /\ freeWorkers = 0 /\ permits = 0 /\ main = "starting"
    BY DEF Init
  <2> QED
    BY <1>0, <2>1, <2>2, FS_EmptySet DEF CountersFit, PermitPerTask, Unannounced
<1>6. TasksFit
  BY <1>0, <1>2 DEF Init, TasksFit
<1> QED
  BY <1>1, <1>3, <1>4, <1>5, <1>6 DEF IInv

LEMMA StutterInv ==
    ASSUME IInv, UNCHANGED vars
    PROVE  IInv'
<1> USE DEF IInv, vars
<1>1. TypeOK'
  BY DEF TypeOK
<1>2. ListFits' /\ ReaperFits'
  BY DEF ListFits, ReaperFits, Listed
<1>3. ExitFits'
  BY DEF ExitFits
<1>4. CountersFit' /\ PermitPerTask'
  BY DEF CountersFit, PermitPerTask, Counting, Waiters, Permitted, Stopping, Unannounced
<1>5. TasksFit'
  BY DEF TasksFit
<1> QED
  BY <1>1, <1>2, <1>3, <1>4, <1>5

\* The invariant holds in every state.
THEOREM Invariance == Spec => []IInv
<1>1. Init => IInv
  BY InitInv
<1>2. IInv /\ [Next]_vars => IInv'
  <2>1. ASSUME IInv, Next PROVE IInv'
    BY <2>1, TypeInv, ListInv, ExitInv, CountInv, TasksInv DEF IInv
  <2> QED
    BY <2>1, StutterInv
<1> HIDE DEF IInv
<1> QED
  BY <1>1, <1>2, PTL DEF Spec

-----------------------------------------------------------------------------
(* What follows *)

\* Every variable of the pool keeps its type (thread.cpp).
THEOREM TypeCorrect == Spec => []TypeOK
<1>1. IInv => TypeOK
  BY DEF IInv
<1> QED
  BY <1>1, Invariance, PTL

\* While the pool is up, each queued task has its permit: no worker waits beside a
\* task, and none takes the null task that is meant for exit (thread.cpp:147-180, 266-269).
THEOREM PermitsMatchTasks == Spec => []PermitPerTask
<1>1. IInv => PermitPerTask
  BY DEF IInv
<1> QED
  BY <1>1, Invariance, PTL

\* The reaper frees the thread it saw end, whatever was created meanwhile (thread.cpp:54-87).
THEOREM ReaperIsRight == Spec => []FreesWhatEnded
<1>1. IInv => FreesWhatEnded
  BY DEF IInv, FreesWhatEnded, ListFits, ReaperFits
<1> QED
  BY <1>1, Invariance, PTL

\* A thread that still runs would be in the list, and all of it is freed.
LEMMA NobodyLeft ==
    ASSUME IInv, reaper = "ended"
    PROVE  \A t \in Tids : pc[t] \in {"none", "freed"}
<1>1. ListFits /\ ReaperFits /\ at \in Nat /\ pc \in [Tids -> Alive \cup {"none", "ended", "freed"}]
  BY DEF IInv, TypeOK
<1>2. Len(list) \in Nat
  <2>1. list \in Seq(Tids)
    BY DEF IInv, TypeOK
  <2> QED
    BY <2>1, LenProperties
<1>3. \A i \in 1..Len(list) : pc[list[i]] = "freed"
  BY <1>1, <1>2 DEF ListFits, ReaperFits
<1> QED
  BY <1>1, <1>3, Places DEF ListFits, Listed

\* Once exit has joined the reaper no thread is left (thread.cpp:286-295).
THEOREM AllAreGone == Spec => []NobodyOutlivesExit
<1>1. IInv => NobodyOutlivesExit
  BY NobodyLeft DEF IInv, ExitFits, NobodyOutlivesExit
<1> QED
  BY <1>1, Invariance, PTL

-----------------------------------------------------------------------------
(* The promise *)

Running == {held[w] : w \in Tids} \ {NoTask}
Phase == CASE main \in {"close", "closed"} -> "stopped"
           [] main \in {"wake", "signal", "join"} -> "stopping"
           [] OTHER -> "up"

LEMMA PhaseIs ==
    /\ main \in {"close", "closed"} => Phase = "stopped"
    /\ main \in {"wake", "signal", "join"} => Phase = "stopping"
    /\ ~Stopping => Phase = "up"
BY DEF Phase, Stopping

\* The same in the next state.
LEMMA PhaseIsNext ==
    /\ main' \in {"close", "closed"} => Phase' = "stopped"
    /\ main' \in {"wake", "signal", "join"} => Phase' = "stopping"
    /\ ~Stopping' => Phase' = "up"
BY DEF Phase, Stopping

\* The steps that change no phase.
LEMMA PhaseStays ==
    ASSUME IInv, Next, ~ ExitClear, ~ ExitJoin
    PROVE  Phase' = Phase
<1>1. \/ UNCHANGED main
      \/ ~Stopping /\ ~Stopping'
      \/ main \in {"close", "closed"} /\ main' \in {"close", "closed"}
      \/ main \in {"wake", "signal", "join"} /\ main' \in {"wake", "signal", "join"}
  <2>1. CASE (\E t \in Tasks : PushTask(t)) \/ Submission \/ StartWorker \/ InitReturns \/ Background
    BY <2>1 DEF PushTask, ReleasePermit, CountWorkers, CountSpare, CreateWorker, StartWorker,
                InitReturns, Background, Stopping
  <2>2. CASE Exit
    BY <2>2 DEF ExitWake, ExitSignal, ExitClose
  <2>3. ASSUME NEW w \in Tids, ThreadSteps(w) PROVE UNCHANGED main
    BY <2>3 DEF WorkerBegins, TryAcquire, CheckWorkers, CountFree, Acquire, UncountFree, PopTask,
                PopNothing, TaskEnds, WorkerEnds, JobEnds, Thread
  <2>4. CASE ReaperSteps
    BY <2>4 DEF ReaperScan, ReaperToldToExit, ReaperUpdates, ReaperSeesEnd,
                ReaperFrees, ReaperLocks, ReaperJoins, ReaperEnds
  <2> QED
    BY <2>1, <2>2, <2>3, <2>4 DEF Next
<1>2. UNCHANGED main => Phase' = Phase
  BY DEF Phase
<1> QED
  BY <1>1, <1>2, PhaseIs, PhaseIsNext

\* A thread that runs a task keeps the pool from having stopped.
LEMMA StillUp ==
    ASSUME IInv, NEW w \in Tids, pc[w] \notin {"none", "freed"}
    PROVE  Phase # "stopped"
<1>1. main \notin {"close", "closed"}
  BY NobodyLeft DEF IInv, ExitFits
<1> QED
  BY <1>1 DEF Phase

\* Every step of the pool is a step of Executor or none.
LEMMA StepKeepsPromise ==
    ASSUME IInv, Next
    PROVE  [Pool!Next]_(Pool!vars)
<1>0. TaskOK /\ TasksFit /\ NoTask \notin Tasks
  BY TaskOKHolds DEF TaskOK
<1>1. ASSUME NEW t \in Tasks, PushTask(t) PROVE Pool!Submit(t)
  <2>1. /\ t \in fresh /\ fresh' = fresh \ {t} /\ UNCHANGED held /\ tasks' = Append(tasks, t)
        /\ main = "open" /\ main' = "release"
    BY <1>1 DEF PushTask
  <2>2. Phase = "up" /\ Phase' = "up"
    BY <2>1, PhaseIs, PhaseIsNext DEF Stopping
  <2> QED
    BY <2>1, <2>2 DEF Pool!Submit, Phase
<1>2. ASSUME NEW w \in Tids, PopTask(w) PROVE Pool!Start
  <2>1. /\ pc[w] = "pop" /\ tasks # <<>> /\ tasks' = Tail(tasks) /\ UNCHANGED <<fresh, main>>
        /\ held' = [held EXCEPT ![w] = Head(tasks)]
    BY <1>2 DEF PopTask, Thread
  <2>2. Head(tasks) \in Tasks /\ held[w] = NoTask
    BY <1>0, <2>1, HeadTailProperties DEF TaskOK, TasksFit
  <2>3. \A v \in Tids : held'[v] = IF v = w THEN Head(tasks) ELSE held[v]
    BY <1>0, <2>1 DEF TaskOK
  <2>4. Running' = Running \cup {Head(tasks)}
    BY <1>0, <2>2, <2>3 DEF Running
  <2>5. Phase # "stopped" /\ Phase' = Phase
    BY <2>1, StillUp DEF Phase
  <2> QED
    BY <2>1, <2>4, <2>5 DEF Pool!Start, Phase, Running
<1>3. ASSUME NEW w \in Tids, TaskEnds(w) PROVE \E t \in Tasks : Pool!Finish(t)
  <2>1. /\ pc[w] = "run" /\ UNCHANGED <<tasks, fresh, main>>
        /\ held' = [held EXCEPT ![w] = NoTask]
    BY <1>3 DEF TaskEnds, Thread
  <2>2. held[w] \in Tasks /\ \A v \in Tids : held[v] = held[w] => v = w
    BY <1>0, <2>1 DEF TaskOK, TasksFit
  <2>3. \A v \in Tids : held'[v] = IF v = w THEN NoTask ELSE held[v]
    BY <1>0, <2>1 DEF TaskOK
  <2>4. Running' = Running \ {held[w]} /\ held[w] \in Running
    BY <1>0, <2>2, <2>3 DEF Running
  <2>5. Phase' = Phase
    BY <2>1 DEF Phase
  <2> QED
    <3>1. PICK t \in Tasks : t = held[w]
      BY <2>2
    <3>2. Pool!Finish(t)
      BY <2>1, <2>4, <2>5, <3>1 DEF Pool!Finish, Phase, Running
    <3> QED
      BY <3>2
<1>4. ASSUME ExitClear PROVE Pool!Stop
  <2>1. /\ main \in {"open", "unwind"} /\ main' = "wake" /\ tasks' = <<>> /\ UNCHANGED <<fresh, held>>
    BY <1>4 DEF ExitClear
  <2>2. Phase = "up" /\ Phase' = "stopping"
    BY <2>1, PhaseIs, PhaseIsNext DEF Stopping
  <2> QED
    BY <2>1, <2>2 DEF Pool!Stop, Phase
<1>5. ASSUME ExitJoin PROVE Pool!Stopped
  <2>1. /\ main = "join" /\ main' = "close" /\ reaper = "ended" /\ UNCHANGED <<tasks, fresh, held>>
    BY <1>5 DEF ExitJoin
  <2>2. Phase = "stopping" /\ Phase' = "stopped"
    BY <2>1, PhaseIs, PhaseIsNext
  <2>3. \A w \in Tids : held[w] = NoTask
    BY <1>0, <2>1, NobodyLeft DEF TasksFit
  <2>4. Running = {}
    BY <2>3 DEF Running
  <2> QED
    BY <2>1, <2>2, <2>4 DEF Pool!Stopped, Phase, Running
<1>6. ASSUME TasksStay, ~ ExitClear, ~ ExitJoin PROVE UNCHANGED Pool!vars
  <2>1. UNCHANGED <<tasks, held, fresh>>
    BY <1>6 DEF TasksStay
  <2>2. Phase' = Phase
    BY <1>6, PhaseStays
  <2> QED
    BY <2>1, <2>2 DEF Phase, Pool!vars
<1>7. CASE \E t \in Tasks : PushTask(t)
  BY <1>1, <1>7 DEF Pool!Next
<1>8. ASSUME NEW w \in Tids, PopTask(w) \/ TaskEnds(w) PROVE [Pool!Next]_(Pool!vars)
  <2>1. Pool!Start \/ \E t \in Tasks : Pool!Finish(t)
    BY <1>2, <1>3, <1>8
  <2> QED
    BY <2>1 DEF Pool!Next
<1>9. CASE ExitClear \/ ExitJoin
  BY <1>4, <1>5, <1>9 DEF Pool!Next
<1> QED
  BY <1>6, <1>7, <1>8, <1>9, OthersLeaveTasks

\* The pool implements Executor: tasks start in the order in which they were handed
\* in, each at most once, and none runs when exit has returned (thread.cpp:142-185, 266-296).
THEOREM Promise == Spec => KeepsThePromise
<1>1. Init => Pool!Init
  <2>1. ASSUME Init PROVE Running = {} /\ Phase = "up"
    BY <2>1 DEF Init, Running, Phase
  <2> QED
    BY <2>1 DEF Init, Pool!Init, Running, Phase
<1>2. IInv /\ [Next]_vars => [Pool!Next]_(Pool!vars)
  <2>1. UNCHANGED vars => UNCHANGED Pool!vars
    BY DEF vars, Pool!vars
  <2> QED
    BY <2>1, StepKeepsPromise
<1> QED
  BY <1>1, <1>2, Invariance, PTL DEF Spec, Pool!Spec, KeepsThePromise

-----------------------------------------------------------------------------
(* Waiting for exit *)

\* Once exit has cleared the queue it stays empty and the reaper is told to leave;
\* and with minWorkers = 0 no worker ever waits, for the one that asks is counted.
StopFits ==
    /\ Stopping => tasks = <<>>
    /\ main = "join" /\ reaper \in {"scan", "wait", "free"} => exitEvent
    /\ minWorkers = 0 => \A t \in Tids : pc[t] \notin {"idle", "wait", "woken"}

\* The workers that may still come to wait for a permit.
Needing == {w \in Tids : pc[w] \in {"run", "try", "check", "idle", "wait"}}

\* What exit releases is enough for all of them.
Enough ==
    main \in {"signal", "join"} /\ minWorkers > 0 =>
        /\ \A t \in Tids : pc[t] # "new"
        /\ permits >= Cardinality(Needing)

\* The steps that are left to take then.
LEMMA StoppingSteps ==
    ASSUME Next, Stopping
    PROVE  \/ ExitWake \/ ExitSignal \/ ExitJoin \/ ExitClose
           \/ \E w \in Tids : ThreadSteps(w)
           \/ ReaperSteps
<1>1. main \notin {"starting", "open", "release", "count", "spare", "create", "unwind"}
  BY DEF Stopping
<1>2. ~ (\E t \in Tasks : PushTask(t)) /\ ~ Submission /\ ~ StartWorker /\ ~ InitReturns
      /\ ~ Background /\ ~ ExitClear
  BY <1>1 DEF PushTask, ReleasePermit, CountWorkers, CountSpare, CreateWorker, StartWorker,
              InitReturns, Background, ExitClear
<1> QED
  BY <1>2 DEF Next

\* The other steps of the main thread, before.
LEMMA OpenSteps ==
    ASSUME Next, ~Stopping
    PROVE  \/ ExitClear
           \/ \E w \in Tids : ThreadSteps(w)
           \/ ReaperSteps
           \/ ~Stopping' /\ UNCHANGED minWorkers
<1>1. CASE (\E t \in Tasks : PushTask(t)) \/ Submission \/ StartWorker \/ InitReturns \/ Background
  BY <1>1 DEF PushTask, ReleasePermit, CountWorkers, CountSpare, CreateWorker, StartWorker,
              InitReturns, Background, Stopping
<1>2. CASE Exit
  BY <1>2 DEF ExitClear, ExitWake, ExitSignal, ExitJoin, ExitClose, Stopping
<1> QED
  BY <1>1, <1>2 DEF Next

\* A thread leaves alone what belongs to the main thread and to the reaper.
LEMMA ThreadsOwn ==
    ASSUME NEW w \in Tids, ThreadSteps(w)
    PROVE  /\ UNCHANGED <<list, updateEvent, created, minWorkers, main, reaper, at, exitEvent>>
           /\ \E to \in Alive \cup {"ended"} : to # "new" /\ pc' = [pc EXCEPT ![w] = to]
           /\ tasks' = tasks \/ tasks # <<>>
BY DEF WorkerBegins, TryAcquire, CheckWorkers, CountFree, Acquire, UncountFree, PopTask,
       PopNothing, TaskEnds, WorkerEnds, JobEnds, Thread, Alive, WorkerAt

\* The reaper moves a thread that has ended and no other.
LEMMA ReaperMoves ==
    ASSUME IInv, ReaperSteps
    PROVE  /\ UNCHANGED <<tasks, permits, minWorkers, main>>
           /\ \/ UNCHANGED pc
              \/ \E t \in Tids : pc[t] = "ended" /\ pc' = [pc EXCEPT ![t] = "freed"]
<1>1. UNCHANGED <<tasks, permits, minWorkers, main>>
  BY DEF ReaperScan, ReaperToldToExit, ReaperUpdates, ReaperSeesEnd,
         ReaperFrees, ReaperLocks, ReaperJoins, ReaperEnds
<1>2. CASE ReaperFrees \/ ReaperJoins
  <2>1. list \in Seq(Tids) /\ at \in Nat /\ ReaperFits
    BY DEF IInv, TypeOK
  <2>n. Len(list) \in Nat
    BY <2>1, LenProperties
  <2>2. pc[list[at]] = "ended" /\ pc' = [pc EXCEPT ![list[at]] = "freed"]
    BY <1>2, <2>1 DEF ReaperFits, ReaperFrees, ReaperJoins
  <2>3. 1 <= at /\ at <= Len(list)
    BY <1>2, <2>1, <2>n DEF ReaperFits, ReaperFrees, ReaperJoins
  <2>4. list[at] \in Tids
    BY <2>1, <2>n, <2>3, LenProperties
  <2> QED
    BY <1>1, <2>2, <2>4
<1> QED
  BY <1>1, <1>2 DEF ReaperScan, ReaperToldToExit, ReaperUpdates, ReaperSeesEnd,
                    ReaperLocks, ReaperEnds

\* Where threads are changes in one place at a time, by what a step may do there.
LEMMA PlacesMove ==
    ASSUME IInv, Next
    PROVE  \/ UNCHANGED pc
           \/ \E t \in Tids, to \in Alive \cup {"ended", "freed"} :
                 /\ pc' = [pc EXCEPT ![t] = to]
                 /\ \/ pc[t] = "none" /\ to \in {"new", "job"} /\ ~Stopping
                    \/ pc[t] = "ended" /\ to = "freed"
                    \/ ThreadSteps(t)
<1>1. CASE SpawnStep
  <2>1. PICK body \in {"new", "job"} : Spawn(body)
    BY <1>1 DEF SpawnStep
  <2>2. created + 1 \in Tids /\ pc' = [pc EXCEPT ![created + 1] = body] /\ pc[created + 1] = "none"
    BY <2>1 DEF Spawn, Tids, IInv, TypeOK, ListFits
  <2>3. body \in Alive /\ ~Stopping
    BY <1>1 DEF Alive, WorkerAt, SpawnStep, Stopping
  <2> QED
    BY <2>2, <2>3
<1>2. ASSUME NEW w \in Tids, ThreadSteps(w)
      PROVE  \E to \in Alive \cup {"ended"} : pc' = [pc EXCEPT ![w] = to]
  BY <1>2, ThreadsOwn
<1>3. CASE ReaperSteps
  BY <1>3, ReaperMoves
<1>4. CASE (\E t \in Tasks : PushTask(t)) \/ InitReturns \/ Exit
  BY <1>4 DEF PushTask, InitReturns, ExitClear, ExitWake, ExitSignal, ExitJoin, ExitClose
<1>5. CASE Submission \/ StartWorker \/ Background
  <2>1. UNCHANGED pc \/ SpawnStep
    BY <1>5 DEF ReleasePermit, CountWorkers, CountSpare, CreateWorker, StartWorker, Background,
                SpawnFails, SpawnStep
  <2> QED
    BY <1>1, <2>1
<1>6. CASE \E w \in Tids : ThreadSteps(w)
  BY <1>2, <1>6
<1> QED
  BY <1>3, <1>4, <1>5, <1>6 DEF Next

LEMMA StopInv ==
    ASSUME IInv, StopFits, Next
    PROVE  StopFits'
<1>1. Stopping' => tasks' = <<>>
  <2>1. CASE \E w \in Tids : ThreadSteps(w)
    BY <2>1, ThreadsOwn DEF StopFits, Stopping
  <2>2. CASE ReaperSteps
    BY <2>2, ReaperMoves DEF StopFits, Stopping
  <2>3. CASE ExitClear
    BY <2>3 DEF ExitClear
  <2>4. CASE ExitWake \/ ExitSignal \/ ExitJoin \/ ExitClose
    BY <2>4 DEF StopFits, Stopping, ExitWake, ExitSignal, ExitJoin, ExitClose
  <2> QED
    BY <2>1, <2>2, <2>3, <2>4, StoppingSteps, OpenSteps
<1>2. main' = "join" /\ reaper' \in {"scan", "wait", "free"} => exitEvent'
  <2>1. CASE \E w \in Tids : ThreadSteps(w)
    BY <2>1, ThreadsOwn DEF StopFits
  <2>2. CASE ReaperSteps
    BY <2>2, ReaperMoves DEF StopFits, ReaperScan, ReaperToldToExit, ReaperUpdates, ReaperSeesEnd,
                             ReaperFrees, ReaperLocks, ReaperJoins, ReaperEnds
  <2>3. CASE ExitClear \/ ExitWake \/ ExitSignal \/ ExitJoin \/ ExitClose
    BY <2>3 DEF ExitClear, ExitWake, ExitSignal, ExitJoin, ExitClose
  <2>4. CASE ~Stopping'
    BY <2>4 DEF Stopping
  <2> QED
    BY <2>1, <2>2, <2>3, <2>4, StoppingSteps, OpenSteps
<1>3. UNCHANGED minWorkers
  <2>1. ASSUME NEW w \in Tids, ThreadSteps(w) PROVE UNCHANGED minWorkers
    BY <2>1, ThreadsOwn
  <2>2. CASE ReaperSteps
    BY <2>2, ReaperMoves
  <2>3. CASE ExitClear \/ ExitWake \/ ExitSignal \/ ExitJoin \/ ExitClose
    BY <2>3 DEF ExitClear, ExitWake, ExitSignal, ExitJoin, ExitClose
  <2> QED
    BY <2>1, <2>2, <2>3, StoppingSteps, OpenSteps
<1>4. ASSUME minWorkers = 0, NEW u \in Tids PROVE pc'[u] \notin {"idle", "wait", "woken"}
  <2>0. pc \in [Tids -> Alive \cup {"none", "ended", "freed"}] /\ pc[u] \notin {"idle", "wait", "woken"}
    BY <1>4 DEF IInv, TypeOK, StopFits
  <2>1. CASE UNCHANGED pc
    BY <2>0, <2>1
  <2>2. ASSUME NEW t \in Tids, NEW to, pc' = [pc EXCEPT ![t] = to], t # u \/ to \notin {"idle", "wait", "woken"}
        PROVE  pc'[u] \notin {"idle", "wait", "woken"}
    BY <2>0, <2>2
  <2>3. CASE ThreadSteps(u) /\ ~CheckWorkers(u)
    BY <2>0, <2>3 DEF WorkerBegins, TryAcquire, CountFree, Acquire, UncountFree, PopTask,
                      PopNothing, TaskEnds, WorkerEnds, JobEnds, Thread
  <2>4. CASE CheckWorkers(u)
    <3>1. u \in Counting
      BY <2>4 DEF CheckWorkers, Thread, Counting, Counted, WorkerAt
    <3>2. numWorkers \in Nat /\ numWorkers # 0
      BY <3>1, FinitelyMany, FS_EmptySet DEF IInv, TypeOK, CountersFit
    <3>3. ~ (numWorkers <= minWorkers)
      BY <1>4, <3>2
    <3>4. pc' = [pc EXCEPT ![u] = "leave"]
      BY <2>4, <3>3 DEF CheckWorkers, Thread
    <3> QED
      BY <2>2, <3>4
  <2> QED
    BY <2>1, <2>2, <2>3, <2>4, PlacesMove
<1> QED
  BY <1>1, <1>2, <1>3, <1>4 DEF StopFits

LEMMA StopFitsHolds == Spec => []StopFits
<1>1. Init => StopFits
  BY DEF Init, StopFits
<1>2. IInv /\ StopFits /\ [Next]_vars => StopFits'
  <2>1. StopFits /\ UNCHANGED vars => StopFits'
    BY DEF StopFits, Stopping, vars
  <2> QED
    BY <2>1, StopInv
<1> HIDE DEF IInv, StopFits
<1> QED
  BY <1>1, <1>2, Invariance, PTL DEF Spec

\* A worker that takes a permit needs none any more, and none comes to need one.
LEMMA EnoughInv ==
    ASSUME IInv, StopFits, SafeToWake, Enough, Next
    PROVE  Enough'
<1>0. /\ pc \in [Tids -> Alive \cup {"none", "ended", "freed"}] /\ permits \in Nat
      /\ minWorkers \in Nat /\ CountersFit
  BY DEF IInv, TypeOK
<1> SUFFICES ASSUME main' \in {"signal", "join"}, minWorkers' > 0
             PROVE  /\ \A t \in Tids : pc'[t] # "new"
                    /\ permits' >= Cardinality(Needing')
  BY DEF Enough
<1>1. IsFiniteSet(Needing) /\ Cardinality(Needing) \in Nat
  <2>1. IsFiniteSet(Tids) /\ Needing \subseteq Tids
    BY FS_Interval DEF Tids, Needing
  <2> QED
    BY <2>1, FS_Subset, FS_CardinalityType
<1>2. Stopping /\ (main \in {"signal", "join"} \/ ExitWake)
  BY StoppingSteps, OpenSteps, ThreadsOwn, ReaperMoves
     DEF Stopping, ExitClear, ExitWake, ExitSignal, ExitJoin, ExitClose
<1>3. UNCHANGED pc => Needing' = Needing
  BY DEF Needing
<1>4. CASE ExitWake
  <2>1. main = "wake" /\ permits' = permits + numWorkers /\ UNCHANGED <<pc, minWorkers>>
    BY <1>4 DEF ExitWake
  <2>2. \A t \in Tids : pc[t] # "new"
    BY <1>0, <2>1 DEF SafeToWake
  <2>3. Cardinality(Needing) <= numWorkers
    <3>1. Needing \subseteq Counting
      BY DEF Needing, Counting, Counted, WorkerAt
    <3> QED
      BY <1>0, <3>1, FinitelyMany, FS_Subset DEF CountersFit
  <2>4. numWorkers \in Nat
    BY DEF IInv, TypeOK
  <2> QED
    BY <1>0, <1>1, <1>3, <2>1, <2>2, <2>3, <2>4
<1>5. CASE main \in {"signal", "join"} /\ (ExitSignal \/ ExitJoin \/ ExitClose)
  <2>1. UNCHANGED <<pc, permits, minWorkers>>
    BY <1>5 DEF ExitSignal, ExitJoin, ExitClose
  <2> QED
    BY <1>3, <1>5, <2>1 DEF Enough
<1>6. CASE main \in {"signal", "join"} /\ ReaperSteps
  <2>1. UNCHANGED <<permits, minWorkers>>
    BY <1>6, ReaperMoves
  <2>2. /\ \A t \in Tids : pc[t] # "new"
        /\ permits >= Cardinality(Needing)
    BY <1>6, <2>1 DEF Enough
  <2>3. CASE UNCHANGED pc
    BY <1>3, <2>1, <2>2, <2>3
  <2>4. ASSUME NEW t \in Tids, pc[t] = "ended", pc' = [pc EXCEPT ![t] = "freed"]
        PROVE  /\ \A u \in Tids : pc'[u] # "new"
               /\ Needing' = Needing
    <3>1. \A u \in Tids : pc'[u] = IF u = t THEN "freed" ELSE pc[u]
      BY <1>0, <2>4
    <3> QED
      BY <2>2, <2>4, <3>1 DEF Needing
  <2> QED
    BY <1>6, <2>1, <2>2, <2>3, <2>4, ReaperMoves
<1>7. ASSUME main \in {"signal", "join"}, NEW w \in Tids, ThreadSteps(w)
      PROVE  /\ \A t \in Tids : pc'[t] # "new"
             /\ permits' >= Cardinality(Needing')
  <2>1. PICK to \in Alive \cup {"ended"} : to # "new" /\ pc' = [pc EXCEPT ![w] = to]
    BY <1>7, ThreadsOwn
  <2>2. \A u \in Tids : pc'[u] = IF u = w THEN to ELSE pc[u]
    BY <1>0, <2>1
  <2>3. /\ \A t \in Tids : pc[t] # "new"
        /\ permits >= Cardinality(Needing)
    BY <1>7, ThreadsOwn DEF Enough
  <2>4. to # "new" /\ pc[w] # "new" /\ tasks = <<>>
    BY <1>2, <2>1, <2>3 DEF StopFits
  <2>5. \/ UNCHANGED permits /\ (w \in Needing' => w \in Needing)
        \/ permits' = permits - 1 /\ w \in Needing /\ w \notin Needing'
    <3>1. CASE (TryAcquire(w) /\ permits > 0) \/ Acquire(w)
      <4>1. pc[w] \in {"try", "wait"} /\ pc'[w] \in {"pop", "woken"} /\ permits' = permits - 1
        BY <1>0, <3>1 DEF TryAcquire, Acquire, Thread
      <4> QED
        BY <4>1 DEF Needing
    <3>2. CASE TryAcquire(w) /\ ~ (permits > 0)
      <4>1. UNCHANGED permits /\ pc[w] = "try"
        BY <3>2 DEF TryAcquire, Thread
      <4> QED
        BY <4>1 DEF Needing
    <3>3. CASE \/ WorkerBegins(w) \/ CheckWorkers(w) \/ CountFree(w) \/ UncountFree(w)
               \/ PopTask(w) \/ PopNothing(w) \/ TaskEnds(w) \/ WorkerEnds(w) \/ JobEnds(w)
      <4>1. UNCHANGED permits
        BY <3>3 DEF WorkerBegins, CheckWorkers, CountFree, UncountFree, PopTask, PopNothing,
                    TaskEnds, WorkerEnds, JobEnds
      <4>2. \/ pc[w] \in {"check", "idle", "run"}
            \/ pc'[w] \in {"pop", "leave", "ended"}
        BY <1>0, <2>4, <3>3 DEF WorkerBegins, CheckWorkers, CountFree, UncountFree, PopTask,
                    PopNothing, TaskEnds, WorkerEnds, JobEnds, Thread
      <4> QED
        BY <4>1, <4>2 DEF Needing
    <3> QED
      BY <1>7, <3>1, <3>2, <3>3
  <2>6. \A u : u # w => (u \in Needing <=> u \in Needing')
    BY <2>2 DEF Needing
  <2>7. /\ w \notin Needing' /\ w \in Needing => Cardinality(Needing') = Cardinality(Needing) - 1
        /\ (w \in Needing' <=> w \in Needing) => Needing' = Needing
    BY <1>1, <2>6, OneMoves
  <2>8. permits' >= Cardinality(Needing')
    BY <1>0, <1>1, <2>3, <2>5, <2>7
  <2> QED
    BY <2>2, <2>3, <2>4, <2>8
<1> QED
  BY <1>2, <1>4, <1>5, <1>6, <1>7, StoppingSteps

\* What exit waits for can go on.
LEMMA NothingHolds ==
    ASSUME IInv, StopFits, Enough
    PROVE  NothingHoldsExit
<1>0. /\ pc \in [Tids -> Alive \cup {"none", "ended", "freed"}] /\ permits \in Nat
      /\ minWorkers \in Nat /\ reaper \in {"scan", "wait", "free", "lock", "joining", "ended"}
      /\ list \in Seq(Tids) /\ at \in Nat
      /\ ExitFits /\ ListFits /\ ReaperFits
  BY DEF IInv, TypeOK
<1>1. main \in {"signal", "close"} => ListIsFree
  BY <1>0 DEF ExitFits, ListIsFree
<1>2. ASSUME main = "join", NEW t \in Tids, pc[t] \in Alive PROVE CanGoOn(t)
  <2>1. CASE pc[t] = "wait"
    <3>1. minWorkers > 0
      BY <1>0, <2>1 DEF StopFits
    <3>2. t \in Needing /\ permits >= Cardinality(Needing)
      BY <1>2, <2>1, <3>1 DEF Needing, Enough
    <3>3. IsFiniteSet(Needing)
      <4>1. IsFiniteSet(Tids) /\ Needing \subseteq Tids
        BY FS_Interval DEF Tids, Needing
      <4> QED
        BY <4>1, FS_Subset
    <3>4. Cardinality(Needing) \in Nat /\ Cardinality(Needing) # 0
      BY <3>2, <3>3, FS_CardinalityType, FS_EmptySet
    <3> QED
      BY <1>0, <1>2, <3>2, <3>4 DEF CanGoOn
  <2> QED
    BY <1>2, <2>1 DEF CanGoOn
<1>3. ASSUME main = "join", reaper = "joining", ~ (at > Len(list))
      PROVE  pc[list[at]] = "ended" \/ CanGoOn(list[at])
  <2>1. Len(list) \in Nat
    BY <1>0, LenProperties
  <2>2. at \in 1..Len(list)
    BY <1>0, <1>3, <2>1 DEF ReaperFits
  <2>3. list[at] \in Tids /\ list[at] <= created
    BY <1>0, <2>2, LenProperties DEF ListFits
  <2>4. pc[list[at]] # "freed"
    BY <1>0, <1>3, <2>2 DEF ListFits
  <2>5. pc[list[at]] # "none"
    BY <1>0, <2>3 DEF ListFits, Tids, IInv, TypeOK
  <2> QED
    BY <1>0, <1>2, <1>3, <2>3, <2>4, <2>5
<1> QED
  BY <1>0, <1>1, <1>3 DEF NothingHoldsExit, StopFits

\* Nothing holds up exit, wherever the workers, the jobs and the reaper are, if no
\* worker was about to count itself when exit released the permits (thread.cpp:282-287).
THEOREM ExitIsFree == Spec => ExitIsNotHeldUp
<1>1. Init => Enough
  BY DEF Init, Enough
<1>2. IInv /\ StopFits /\ SafeToWake /\ Enough /\ [Next]_vars => Enough'
  <2>1. Enough /\ UNCHANGED vars => Enough'
    BY DEF Enough, Needing, vars
  <2> QED
    BY <2>1, EnoughInv
<1>3. IInv /\ StopFits /\ Enough => NothingHoldsExit
  BY NothingHolds
<1> HIDE DEF IInv, StopFits, Enough, SafeToWake, NothingHoldsExit
<1> QED
  BY <1>1, <1>2, <1>3, Invariance, StopFitsHolds, PTL DEF Spec, ExitIsNotHeldUp

-----------------------------------------------------------------------------
(* The end comes nearer *)

\* The three numbers besides the threads' are numbers.
LEMMA AheadIsNatural ==
    /\ ReaperAhead \in Nat /\ MainAhead \in Nat
    /\ \A p : Ahead(p) \in 0..12
BY DEF ReaperAhead, MainAhead, Ahead

LEMMA AheadIsFinite == IsFiniteSet(ThreadsAhead) /\ Cardinality(ThreadsAhead) \in Nat
<1>1. IsFiniteSet(Tids \X (1..12))
  <2>1. IsFiniteSet(Tids)
    BY FS_Interval DEF Tids
  <2>2. IsFiniteSet(1..12)
    <3> DEFINE n == 12
    <3>1. 1 \in Int /\ n \in Int
      OBVIOUS
    <3> HIDE DEF n
    <3>2. IsFiniteSet(1..n)
      BY <3>1, FS_Interval
    <3> QED
      BY <3>2 DEF n
  <2> QED
    BY <2>1, <2>2, FS_Product
<1>2. ThreadsAhead \subseteq Tids \X (1..12)
  BY DEF ThreadsAhead
<1> QED
  BY <1>1, <1>2, FS_Subset, FS_CardinalityType

\* A thread that moves forward has fewer steps in front of it, the others as many.
LEMMA ThreadDescends ==
    ASSUME pc \in [Tids -> Alive \cup {"none", "ended", "freed"}],
           NEW t \in Tids, NEW to, pc' = [pc EXCEPT ![t] = to], Ahead(to) < Ahead(pc[t])
    PROVE  /\ Cardinality(ThreadsAhead') \in Nat
           /\ Cardinality(ThreadsAhead') < Cardinality(ThreadsAhead)
           /\ pc[t] = "ended" /\ to = "freed" =>
                Cardinality(ThreadsAhead') = Cardinality(ThreadsAhead) - 3
<1> DEFINE A == ThreadsAhead
           B == ThreadsAhead'
<1>0. IsFiniteSet(A) /\ Cardinality(A) \in Nat
  BY AheadIsFinite
<1>1. \A u \in Tids : pc'[u] = IF u = t THEN to ELSE pc[u]
  OBVIOUS
<1>2. \A u \in Tids, k \in 1..12 : /\ <<u, k>> \in A <=> k <= Ahead(pc[u])
                                   /\ <<u, k>> \in B <=> k <= Ahead(pc'[u])
  BY DEF ThreadsAhead
<1>3. \A p \in A \cup B : \E u \in Tids, k \in 1..12 : p = <<u, k>>
  BY DEF ThreadsAhead
<1> HIDE DEF A, B
<1>4. Ahead(to) \in 0..12 /\ Ahead(pc[t]) \in 1..12
  BY AheadIsNatural
<1>5. B \subseteq A
  <2>1. ASSUME NEW u \in Tids, NEW k \in 1..12, <<u, k>> \in B PROVE <<u, k>> \in A
    <3>1. k <= Ahead(pc'[u])
      BY <1>2, <2>1
    <3>2. CASE u = t
      <4>1. k <= Ahead(to)
        BY <1>1, <3>1, <3>2
      <4>2. k <= Ahead(pc[t])
        BY <1>4, <4>1
      <4> QED
        BY <1>2, <3>2, <4>2
    <3>3. CASE u # t
      BY <1>1, <1>2, <3>1, <3>3
    <3> QED
      BY <3>2, <3>3
  <2>2. ASSUME NEW p \in B PROVE p \in A
    <3>1. PICK u \in Tids, k \in 1..12 : p = <<u, k>>
      BY <1>3
    <3> QED
      BY <2>1, <2>2, <3>1
  <2> QED
    BY <2>2
<1>6. A # B
  <2>1. PICK k \in 1..12 : k = Ahead(pc[t])
    BY <1>4
  <2>2. k <= Ahead(pc[t]) /\ ~ (k <= Ahead(pc'[t]))
    BY <1>1, <1>4, <2>1
  <2>3. <<t, k>> \in A /\ <<t, k>> \notin B
    BY <1>2, <2>2
  <2> QED
    BY <2>3
<1>7. IsFiniteSet(B) /\ Cardinality(B) \in Nat /\ Cardinality(B) < Cardinality(A)
  BY <1>0, <1>5, <1>6, FS_Subset, FS_CardinalityType
<1>8. ASSUME pc[t] = "ended", to = "freed" PROVE Cardinality(B) = Cardinality(A) - 3
  <2>1. Ahead(pc[t]) = 3 /\ Ahead(to) = 0
    BY <1>8 DEF Ahead
  <2>2. \A k \in 1..12 : /\ <<t, k>> \in A <=> k \in {1, 2, 3}
                         /\ <<t, k>> \notin B
    <3>1. pc'[t] = to
      BY <1>1
    <3>2. ASSUME NEW k \in 1..12
          PROVE  (k <= Ahead(pc[t]) <=> k \in {1, 2, 3}) /\ ~ (k <= Ahead(pc'[t]))
      BY <2>1, <3>1
    <3> QED
      BY <1>2, <3>2
  <2> DEFINE C == B \cup {<<t, 1>>}
             D == C \cup {<<t, 2>>}
  <2>3. A = D \cup {<<t, 3>>}
    <3>1. ASSUME NEW u \in Tids, NEW k \in 1..12
          PROVE  <<u, k>> \in A <=> <<u, k>> \in D \cup {<<t, 3>>}
      BY <1>1, <1>2, <2>2
    <3>2. ASSUME NEW p, p \in A \/ p \in D \cup {<<t, 3>>}
          PROVE  \E u \in Tids, k \in 1..12 : p = <<u, k>>
      BY <1>3, <3>2
    <3>3. ASSUME NEW p PROVE p \in A <=> p \in D \cup {<<t, 3>>}
      <4>1. CASE p \in A \/ p \in D \cup {<<t, 3>>}
        <5>1. PICK u \in Tids, k \in 1..12 : p = <<u, k>>
          BY <3>2, <4>1
        <5> HIDE DEF D
        <5> QED
          BY <3>1, <5>1
      <4> QED
        BY <4>1
    <3> HIDE DEF D
    <3> QED
      BY <3>3
  <2>4. <<t, 1>> \notin B /\ <<t, 2>> \notin C /\ <<t, 3>> \notin D
    BY <2>2
  <2>5. IsFiniteSet(C) /\ Cardinality(C) = Cardinality(B) + 1
    BY <1>7, <2>4, FS_AddElement
  <2>6. IsFiniteSet(D) /\ Cardinality(D) = Cardinality(C) + 1
    BY <2>4, <2>5, FS_AddElement
  <2>7. Cardinality(A) = Cardinality(D) + 1
    BY <2>3, <2>4, <2>6, FS_AddElement
  <2> QED
    BY <1>7, <2>5, <2>6, <2>7
<1> QED
  BY <1>7, <1>8 DEF A, B

\* The order of a thread's places.
LEMMA Order ==
    /\ Ahead("new") > Ahead("try") /\ Ahead("run") > Ahead("try")
    /\ Ahead("try") > Ahead("check") /\ Ahead("try") > Ahead("pop")
    /\ Ahead("check") > Ahead("idle") /\ Ahead("check") > Ahead("leave")
    /\ Ahead("idle") > Ahead("wait") /\ Ahead("wait") > Ahead("woken")
    /\ Ahead("woken") > Ahead("pop") /\ Ahead("pop") > Ahead("leave")
    /\ Ahead("leave") > Ahead("ended") /\ Ahead("job") > Ahead("ended")
    /\ Ahead("ended") > Ahead("freed")
BY DEF Ahead

\* Each step of a worker leads forward once there is no task to come back from.
LEMMA WorkerDescends ==
    ASSUME tasks = <<>>, NEW w \in Tids, ThreadSteps(w)
    PROVE  \E to \in Alive \cup {"ended"} :
              pc' = [pc EXCEPT ![w] = to] /\ Ahead(to) < Ahead(pc[w])
<1>1. PICK from \in Alive, to \in Alive \cup {"ended"} :
         /\ Thread(w, from, to)
         /\ <<from, to>> \in {<<"new", "try">>, <<"try", "check">>, <<"try", "pop">>,
               <<"check", "idle">>, <<"check", "leave">>, <<"idle", "wait">>, <<"wait", "woken">>,
               <<"woken", "pop">>, <<"pop", "leave">>, <<"run", "try">>, <<"leave", "ended">>,
               <<"job", "ended">>}
  BY DEF WorkerBegins, TryAcquire, CheckWorkers, CountFree, Acquire, UncountFree, PopTask,
         PopNothing, TaskEnds, WorkerEnds, JobEnds, Alive, WorkerAt
<1>2. Ahead(from) > Ahead(to)
  BY <1>1, Order
<1>3. pc[w] = from /\ pc' = [pc EXCEPT ![w] = to]
  BY <1>1 DEF Thread
<1>4. Ahead(from) \in 0..12 /\ Ahead(to) \in 0..12
  BY AheadIsNatural
<1> QED
  BY <1>2, <1>3, <1>4

\* Every step after exit has cleared the queue lessens what is left: the reaper goes
\* round its loop once more only for a thread that has ended or for the last update.
LEMMA EveryStepDescends ==
    ASSUME IInv, StopFits, Next, Stopping
    PROVE  StepsLeft' < StepsLeft
<1>0. /\ pc \in [Tids -> Alive \cup {"none", "ended", "freed"}] /\ tasks = <<>>
      /\ updateEvent \in BOOLEAN
  BY DEF IInv, TypeOK, StopFits
<1> DEFINE Update == IF updateEvent THEN 2 ELSE 0
<1>n. /\ Cardinality(ThreadsAhead) \in Nat /\ ReaperAhead \in Nat /\ MainAhead \in Nat
      /\ Update \in Nat
      /\ StepsLeft = Cardinality(ThreadsAhead) + ReaperAhead + MainAhead + Update
  BY AheadIsNatural, AheadIsFinite DEF StepsLeft
<1>m. StepsLeft' = Cardinality(ThreadsAhead') + ReaperAhead' + MainAhead' + Update'
  BY DEF StepsLeft
<1>p. UNCHANGED pc => Cardinality(ThreadsAhead') = Cardinality(ThreadsAhead)
  BY DEF ThreadsAhead
<1>1. CASE ExitWake \/ ExitSignal \/ ExitJoin \/ ExitClose
  <2>1. UNCHANGED <<pc, reaper, updateEvent>>
    BY <1>1 DEF ExitWake, ExitSignal, ExitJoin, ExitClose
  <2>2. MainAhead' = MainAhead - 1
    BY <1>1 DEF ExitWake, ExitSignal, ExitJoin, ExitClose, MainAhead
  <2>3. ReaperAhead' = ReaperAhead /\ Update' = Update
    BY <2>1 DEF ReaperAhead
  <2> HIDE DEF Update
  <2> QED
    BY <1>n, <1>m, <1>p, <2>1, <2>2, <2>3
<1>2. ASSUME NEW w \in Tids, ThreadSteps(w) PROVE StepsLeft' < StepsLeft
  <2>1. UNCHANGED <<main, reaper, updateEvent>>
    BY <1>2, ThreadsOwn
  <2>2. MainAhead' = MainAhead /\ ReaperAhead' = ReaperAhead /\ Update' = Update
    BY <2>1 DEF MainAhead, ReaperAhead
  <2>3. /\ Cardinality(ThreadsAhead') \in Nat
        /\ Cardinality(ThreadsAhead') < Cardinality(ThreadsAhead)
    BY <1>0, <1>2, WorkerDescends, ThreadDescends
  <2> HIDE DEF Update
  <2> QED
    BY <1>n, <1>m, <2>2, <2>3
<1>3. CASE ReaperSteps
  <2>1. MainAhead' = MainAhead
    BY <1>3, ReaperMoves DEF MainAhead
  <2>2. CASE ReaperFrees \/ ReaperJoins
    <3>1. /\ UNCHANGED updateEvent /\ ReaperAhead' <= ReaperAhead + 2 /\ ReaperAhead' \in Nat
      BY <2>2 DEF ReaperFrees, ReaperJoins, ReaperAhead
    <3>2. PICK t \in Tids : pc[t] = "ended" /\ pc' = [pc EXCEPT ![t] = "freed"]
      <4>1. pc[list[at]] = "ended" /\ pc' = [pc EXCEPT ![list[at]] = "freed"]
        BY <2>2 DEF ReaperFrees, ReaperJoins, IInv, ReaperFits
      <4>2. ASSUME UNCHANGED pc PROVE list[at] \notin Tids
        BY <1>0, <4>1, <4>2
      <4>3. \/ list[at] \notin Tids
            \/ \E t \in Tids : pc[t] = "ended" /\ pc' = [pc EXCEPT ![t] = "freed"]
        BY <4>1
      <4>4. list[at] \in Tids
        <5>1. list \in Seq(Tids) /\ at \in Nat /\ ReaperFits
          BY DEF IInv, TypeOK
        <5>2. Len(list) \in Nat
          BY <5>1, LenProperties
        <5>3. 1 <= at /\ at <= Len(list)
          BY <2>2, <5>1, <5>2 DEF ReaperFits, ReaperFrees, ReaperJoins
        <5> QED
          BY <5>1, <5>2, <5>3, LenProperties
      <4> QED
        BY <4>3, <4>4
    <3>3. Ahead("freed") < Ahead("ended")
      BY Order, AheadIsNatural
    <3>4. Cardinality(ThreadsAhead') = Cardinality(ThreadsAhead) - 3
      BY <1>0, <3>2, <3>3, ThreadDescends
    <3>5. Update' = Update
      BY <3>1
    <3> HIDE DEF Update
    <3> QED
      BY <1>n, <1>m, <2>1, <3>1, <3>4, <3>5
  <2>3. CASE ReaperUpdates
    <3>1. UNCHANGED pc /\ ReaperAhead' = ReaperAhead + 1 /\ Update' = Update - 2
      BY <2>3 DEF ReaperUpdates, ReaperAhead
    <3> HIDE DEF Update
    <3> QED
      BY <1>n, <1>m, <1>p, <2>1, <3>1
  <2>4. CASE ReaperScan \/ ReaperToldToExit \/ ReaperSeesEnd \/ ReaperLocks \/ ReaperEnds
    <3>1. UNCHANGED <<pc, updateEvent>> /\ ReaperAhead' < ReaperAhead /\ ReaperAhead' \in Nat
      BY <2>4 DEF ReaperScan, ReaperToldToExit, ReaperSeesEnd, ReaperLocks, ReaperEnds, ReaperAhead
    <3>2. Update' = Update
      BY <3>1
    <3> HIDE DEF Update
    <3> QED
      BY <1>n, <1>m, <1>p, <2>1, <3>1, <3>2
  <2> QED
    BY <1>3, <2>2, <2>3, <2>4
<1> QED
  BY <1>1, <1>2, <1>3, StoppingSteps

\* From the moment exit has cleared the queue every step brings its end nearer, so
\* exit waits for a bounded number of steps (thread.cpp:46-91, 142-185, 282-296).
THEOREM ExitIsBounded == Spec => ExitDescends
<1>1. IInv /\ StopFits /\ [Next]_vars => [Stopping => StepsLeft' < StepsLeft]_vars
  BY EveryStepDescends
<1> QED
  BY <1>1, Invariance, StopFitsHolds, PTL DEF Spec, ExitDescends

\* Threads::exit always goes on: it waits for nothing that cannot take a step, and for
\* a bounded number of steps.
THEOREM ExitComes == Spec => ExitGoesOn
BY ExitIsFree, ExitIsBounded DEF ExitGoesOn

\* While a task is announced a worker that could take it stays (thread.cpp:147-180).
THEOREM SomebodyStays == Spec => WorkersStay
<1>1. ASSUME IInv, Next, ~Stopping, permits > 0, Working PROVE Working'
  <2>0. /\ pc \in [Tids -> Alive \cup {"none", "ended", "freed"}] /\ CountOK
        /\ Cardinality(Permitted) \in Nat
    BY <1>1, CountOKHolds, FinitelyMany, FS_CardinalityType DEF IInv, TypeOK
  <2>1. tasks # <<>>
    <3>1. Len(tasks) # 0
      BY <1>1, <2>0 DEF CountOK, PermitPerTask, Unannounced
    <3> QED
      BY <3>1
  <2>2. PICK w \in Tids : pc[w] \in WorkerAt \ {"check", "leave"}
    BY <1>1 DEF Working
  <2>3. CASE ThreadSteps(w)
    <3>1. pc'[w] \in {"try", "pop", "wait", "woken", "run"}
      BY <1>1, <2>0, <2>1, <2>2, <2>3 DEF WorkerBegins, TryAcquire, CheckWorkers, CountFree, Acquire,
            UncountFree, PopTask, PopNothing, TaskEnds, WorkerEnds, JobEnds, Thread, WorkerAt
    <3> QED
      BY <3>1 DEF Working, WorkerAt
  <2>4. CASE ~ ThreadSteps(w)
    <3>1. pc'[w] = pc[w]
      BY <1>1, <2>0, <2>2, <2>4, PlacesMove DEF WorkerAt
    <3> QED
      BY <2>2, <3>1 DEF Working
  <2> QED
    BY <2>3, <2>4
<1>2. IInv /\ [Next]_vars => [~Stopping /\ permits > 0 /\ Working => Working']_vars
  BY <1>1
<1> QED
  BY <1>2, Invariance, PTL DEF Spec, WorkersStay

===============================================================================
