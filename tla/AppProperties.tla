----------------------------- MODULE AppProperties -----------------------------
(***************************************************************************)
(* What must hold of the life of the program.                              *)
(***************************************************************************)
EXTENDS App

NamesUp == {Names[i] : i \in 1..Len(Names)}

\* Every variable has its type.
TypeOK ==
    /\ screens \in Nat /\ done \in 0..Len(changes)
    /\ pending \in Seq({"push", "pop"}) /\ changes \in Seq({"push", "pop"})
    /\ ready \in BOOLEAN /\ playing \in BOOLEAN /\ finished \in BOOLEAN
    /\ frameEvent \in BOOLEAN /\ callback \in BOOLEAN
    /\ player \in {"none", "new", "test", "play", "wait", "leave", "ended"}
    /\ pc \in {"acquire", "targets", "loop", "play", "edge", "apply", "frame", "release",
               "fonts", "music", "wake", "spin", "silence", "join", "down"}
    /\ up \subseteq NamesUp /\ held \in Seq(NamesUp)
    /\ fonts \in {"none", "alive", "freed"} /\ loader \in {"none", "load", "ended"}
    /\ toLoad \in 0..OtherFonts /\ fontsLoaded \in BOOLEAN

\* ScreenStackTests.cpp says "the frame loop can never dereference an empty
\* stack": once the first edge has pushed the root screen there is a screen in
\* every frame, whatever pushes and pops the screens ask for and in which order.
ScreenInEveryFrame == pc = "frame" => screens > 0

\* The loop of replacementSurvives (ScreenStack.cpp:44-60), step by step: what it
\* has counted before it begins, at i, and after each change behind the i-th.
DepthsBehind(i) ==
    LET depth[n \in i..Len(changes)] ==
            IF n = i THEN 0
            ELSE IF changes[n] = "push" THEN depth[n - 1] + 1
            ELSE IF depth[n - 1] > 0 THEN depth[n - 1] - 1 ELSE 0
    IN  depth
LoopDepth(i) == DepthsBehind(i)[Len(changes)]

\* What the decision to keep the last screen is taken from counts as the loop
\* of the code counts.
SurvivesAsCounted ==
    \A i \in 1..Len(changes) : ReplacementSurvives(i) <=> LoopDepth(i) > 0

\* What a thread uses while it runs is there, at every step of coming up, failing
\* on the way and going down: the sound thread its decoder and buffers (Sound::exit
\* waits for finished, which is still true before the thread has begun), the
\* callback the sound chip, the loader the fonts (Gui::exit waits for its event),
\* each the subsystems below; and no thread outlives Threads::exit.
NothingUsedAfterRelease ==
    /\ player = "play" => ready /\ {"hid", "romfs", "gui"} \subseteq up
    /\ callback => ready
    /\ loader = "load" => fonts = "alive" /\ {"gfx", "romfs", "gui"} \subseteq up
    /\ player \notin {"none", "ended"} \/ loader = "load" => "threads" \in up

\* The sound thread can take a step.
PlayerGoesOn == player \in {"new", "test", "play", "leave"} \/ (player = "wait" /\ frameEvent)

\* Whatever App::exit waits for is there or will come: the event of the loader
\* (gui.cpp:1167), the end of the sound thread (sound.cpp:187), that of all threads.
NothingHoldsLeaving ==
    /\ pc = "fonts" => loader \in {"none", "load"} \/ fontsLoaded
    /\ pc = "spin" => PlayerIsGone \/ PlayerGoesOn
    /\ pc = "join" => /\ player \in {"none", "ended"} \/ PlayerGoesOn
                      /\ loader \in {"none", "load", "ended"}

\* How many steps main thread, sound thread and loader have in front of them at most.
\* As long as there is to be music the sound thread goes round its loop.
PlaceAhead(p) == CASE p = "fonts" -> 6 [] p = "music" -> 5 [] p = "wake" -> 4 [] p = "spin" -> 3
                   [] p \in {"silence", "join"} -> 2 [] p = "release" -> 1 [] OTHER -> 0
PlayerAhead == IF playing THEN 6
               ELSE CASE player = "new" -> 6 [] player = "play" -> 5 [] player = "wait" -> 4
                      [] player = "test" -> 3 [] player = "leave" -> 2 [] OTHER -> 0
LoaderAhead == IF loader = "load" THEN toLoad + 1 ELSE 0
StepsLeft == 6 * Len(held) + PlaceAhead(pc) + PlayerAhead + LoaderAhead

\* While the program goes down every step brings its end nearer, but for those of
\* the callback, and of the sound thread until it is told to stop.
LeavingDescends ==
    [][PlaceAhead(pc) > 0 =>
          \/ StepsLeft' < StepsLeft
          \/ /\ StepsLeft' = StepsLeft
             /\ UNCHANGED <<pc, held, up, fonts, loader, toLoad>>
             /\ playing \/ UNCHANGED player]_vars

\* Going down always goes on: no wait is for something that cannot come, and what
\* goes on in the meantime is bounded.
LeavingGoesOn == []NothingHoldsLeaving /\ LeavingDescends

\* App::exit returns: neither the wait for the loader, nor the spin on finished,
\* nor the join of all threads is for ever, even when the sound chip is silent.
ExitReturns == pc = "release" ~> pc = "down"

===============================================================================
