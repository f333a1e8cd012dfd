------------------------------- MODULE Executor -------------------------------
(***************************************************************************)
(* What the thread pool of the program promises, without threads: a task   *)
(* that is handed in waits, tasks start in the order in which they were    *)
(* handed in, each at most once, and once the pool has stopped nothing     *)
(* runs.  Stopping forgets what still waits; a task that runs meanwhile    *)
(* may hand in more.                                                       *)
(***************************************************************************)
EXTENDS Sequences

CONSTANT Tasks

VARIABLES
    fresh,    \* the tasks nobody has handed in yet
    waiting,  \* the tasks that wait, in the order they came
    running,  \* the tasks that run
    phase     \* "up", "stopping" or "stopped"

vars == <<fresh, waiting, running, phase>>

Init == /\ fresh = Tasks
        /\ waiting = <<>>
        /\ running = {}
        /\ phase = "up"

Submit(t) == /\ phase # "stopped"
             /\ t \in fresh
             /\ fresh' = fresh \ {t}
             /\ waiting' = Append(waiting, t)
             /\ UNCHANGED <<running, phase>>

Start == /\ phase # "stopped"
         /\ waiting # <<>>
         /\ running' = running \cup {Head(waiting)}
         /\ waiting' = Tail(waiting)
         /\ UNCHANGED <<fresh, phase>>

Finish(t) == /\ t \in running
             /\ running' = running \ {t}
             /\ UNCHANGED <<fresh, waiting, phase>>

Stop == /\ phase = "up"
        /\ phase' = "stopping"
        /\ waiting' = <<>>
        /\ UNCHANGED <<fresh, running>>

Stopped == /\ phase = "stopping"
           /\ running = {}
           /\ phase' = "stopped"
           /\ UNCHANGED <<fresh, waiting, running>>

Next == \/ \E t \in Tasks : Submit(t) \/ Finish(t)
        \/ Start \/ Stop \/ Stopped

Spec == Init /\ [][Next]_vars

===============================================================================
