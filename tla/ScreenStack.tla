----------------------------- MODULE ScreenStack -----------------------------
(***************************************************************************)
(* The stack of screens (common/source/gui/ScreenStack.cpp).  A screen     *)
(* asks for pushes and pops while it runs; they are carried out at the     *)
(* edge of the frame, one after the other.  Of the screens only their      *)
(* number is kept.                                                         *)
(***************************************************************************)
EXTENDS Naturals, Sequences, FiniteSets

VARIABLES
    screens,   \* how many screens are on the stack
    pending,   \* pendingChanges: "push" or "pop", as they were asked for
    changes,   \* the changes applyPending has moved out and carries out
    done       \* how many of them it has carried out

stackVars == <<screens, pending, changes, done>>

StackInit == screens = 0 /\ pending = <<>> /\ changes = <<>> /\ done = 0

Request(asked) ==
    /\ pending' = pending \o asked
    /\ UNCHANGED <<screens, changes, done>>

Later(kind, i) == {j \in i..Len(changes) : changes[j] = kind}

\* Variant: what counts is whether all that follows pushes more than it pops.
NetPushes(i) ==
    Cardinality(Later("push", i + 1)) > Cardinality(Later("pop", i + 1))

\* replacementSurvives: the loop counts pushes up and pops down, never below
\* zero, over the changes after the i-th.  What it counts ends above zero when
\* some stretch up to the last change has more pushes than pops.
ReplacementSurvives(i) ==
    \E j \in (i + 1)..Len(changes) :
        Cardinality(Later("push", j)) > Cardinality(Later("pop", j))

Applying == done < Len(changes)

\* The queue is moved out first: what is asked meanwhile is for the next frame.
TakePending ==
    /\ changes' = pending /\ done' = 0
    /\ pending' = <<>>
    /\ UNCHANGED screens

\* Variant: the last screen goes when the frame has asked for any push.
ApplyOneTrusting ==
    /\ Applying
    /\ done' = done + 1
    /\ screens' = CASE changes[done + 1] = "push" -> screens + 1
                    [] changes[done + 1] = "pop" /\ screens > 0
                         /\ (screens > 1 \/ Later("push", 1) # {}) -> screens - 1
                    [] OTHER -> screens
    /\ UNCHANGED <<pending, changes>>

ApplyOne ==
    /\ Applying
    /\ done' = done + 1
    /\ screens' = CASE changes[done + 1] = "push" -> screens + 1
                    [] changes[done + 1] = "pop" /\ screens > 0
                         /\ (screens > 1 \/ ReplacementSurvives(done + 1)) -> screens - 1
                    [] OTHER -> screens
    /\ UNCHANGED <<pending, changes>>

===============================================================================
