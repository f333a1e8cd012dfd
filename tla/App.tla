--------------------------------- MODULE App ---------------------------------
(***************************************************************************)
(* The life of the program (app.cpp, main.cpp, Subsystems.cpp and the init,*)
(* main loop and exit of gui.cpp): the main thread brings subsystems up in *)
(* order, runs frames and takes down what came up, while the font loader   *)
(* and the sound thread run beside it.                                     *)
(***************************************************************************)
EXTENDS ScreenStack, Music

CONSTANTS
    MaxScreens,   \* bound: screens a user opens on top of each other
    MaxRequests,  \* bound: changes asked for in one frame
    OtherFonts    \* how many fonts the loader still has to load

ASSUME AppAssumption ==
    MaxScreens \in Nat /\ MaxRequests \in Nat /\ OtherFonts \in Nat

VARIABLES
    pc,           \* where the main thread is
    up,           \* the subsystems that are up
    held,         \* mHeld: the teardowns on record, in the order they were recorded
    fonts,        \* fontData: "none", "alive" or "freed"
    loader,       \* where the font loader thread is
    toLoad,       \* the fonts it has still to load
    fontsLoaded   \* the sticky event it signals at its end

guiVars == <<fonts, loader, toLoad, fontsLoaded>>
vars == <<stackVars, musicVars, guiVars, pc, up, held>>

\* The sequence of App::init.
Names == <<"hid", "gfx", "logging", "cpu", "cfgu", "romfs", "archive", "threads", "am", "gui">>
\* Those whose init reports a status; the others return nothing.
MayFail == {"hid", "cfgu", "romfs", "archive", "threads", "am", "gui"}

NextName == Names[Len(held) + 1]

Init == /\ StackInit /\ MusicInit
        /\ pc = "acquire" /\ up = {} /\ held = <<>>
        /\ fonts = "none" /\ loader = "none" /\ toLoad = OtherFonts /\ fontsLoaded = FALSE

-------------------------------------------------------------------------------
(* App::init: acquire after acquire, joined with &&, stops at the first that *)
(* fails.  A failed one is not recorded, and App::exit follows.              *)

Acquire ==
    /\ pc = "acquire" /\ NextName # "gui"
    /\ up' = up \cup {NextName}
    /\ held' = Append(held, NextName)
    /\ UNCHANGED <<stackVars, musicVars, guiVars, pc>>

AcquireFails ==
    /\ pc = "acquire" /\ NextName \in MayFail
    /\ pc' = "release"
    /\ UNCHANGED <<stackVars, musicVars, guiVars, up, held>>

\* Gui::init: citro and the music first, whatever Sound::init says
GuiBegins ==
    /\ pc = "acquire" /\ NextName = "gui"
    /\ SetUpMusic
    /\ pc' = "targets"
    /\ UNCHANGED <<stackVars, guiVars, up, held>>

\* A render target or the sheet is missing: Sound::exit, C2D_Fini, C3D_Fini.
GuiFails ==
    /\ pc = "targets"
    /\ TearDownMusic
    /\ pc' = "release"
    /\ UNCHANGED <<stackVars, guiVars, up, held>>

\* The fonts, then the loader thread, which may not start; the root screen.
GuiReturns ==
    /\ pc = "targets"
    /\ fonts' = "alive"
    /\ loader' \in {"load", "none"}
    /\ up' = up \cup {"gui"} /\ held' = Append(held, "gui")
    /\ Request(<<"push">>)
    /\ pc' = "loop"
    /\ UNCHANGED <<musicVars, toLoad, fontsLoaded>>

-------------------------------------------------------------------------------
(* Gui::mainLoop *)

LoopBegins ==
    /\ pc = "loop"
    /\ IF ready THEN WantMusic /\ pc' = "play" ELSE pc' = "edge" /\ UNCHANGED musicVars
    /\ UNCHANGED <<stackVars, guiVars, up, held>>

MusicStarts ==
    /\ pc = "play"
    /\ StartPlayer
    /\ pc' = "edge"
    /\ UNCHANGED <<stackVars, guiVars, up, held>>

EdgeBegins ==
    /\ pc = "edge"
    /\ TakePending
    /\ pc' = "apply"
    /\ UNCHANGED <<musicVars, guiVars, up, held>>

EdgeGoesOn ==
    /\ pc = "apply"
    /\ IF Applying THEN ApplyOne /\ UNCHANGED pc
                   ELSE pc' = "frame" /\ UNCHANGED stackVars
    /\ UNCHANGED <<musicVars, guiVars, up, held>>

\* A frame of the screen on top; what it asks for waits for the edge.
Frame ==
    /\ pc = "frame" /\ screens > 0
    /\ \E n \in 0..MaxRequests : \E asked \in [1..n -> {"push", "pop"}] :
         /\ Cardinality({i \in 1..n : asked[i] = "push"}) + screens <= MaxScreens
         /\ Request(asked)
    /\ pc' = "edge"
    /\ UNCHANGED <<musicVars, guiVars, up, held>>

\* The user or the system leaves, a screen throws, or there is no screen.
LoopEnds ==
    /\ pc = "frame"
    /\ pc' = "release"
    /\ UNCHANGED <<stackVars, musicVars, guiVars, up, held>>

-------------------------------------------------------------------------------
(* loadRemainingFonts *)

LoaderLoads ==
    /\ loader = "load" /\ toLoad > 0
    /\ toLoad' = toLoad - 1
    /\ UNCHANGED <<stackVars, musicVars, fonts, loader, fontsLoaded, pc, up, held>>

LoaderEnds ==
    /\ loader = "load" /\ toLoad = 0
    /\ fontsLoaded' = TRUE
    /\ loader' = "ended"
    /\ UNCHANGED <<stackVars, musicVars, fonts, toLoad, pc, up, held>>

-------------------------------------------------------------------------------
(* App::exit: releaseAll takes the last teardown off the record, then runs it. *)

Latest == held[Len(held)]

Release ==
    /\ pc = "release" /\ held # <<>>
    /\ held' = SubSeq(held, 1, Len(held) - 1)
    /\ pc' = CASE Latest = "gui" -> "fonts" [] Latest = "threads" -> "join" [] OTHER -> pc
    /\ up' = IF Latest \in {"gui", "threads"} THEN up ELSE up \ {Latest}
    /\ UNCHANGED <<stackVars, musicVars, guiVars>>

Released ==
    /\ pc = "release" /\ held = <<>>
    /\ pc' = "down"
    /\ UNCHANGED <<stackVars, musicVars, guiVars, up, held>>

\* Variant: the fonts are freed under their lock, without waiting for the loader.
FreeFontsAtOnce ==
    /\ pc = "fonts"
    /\ fonts' = "freed"
    /\ pc' = "music"
    /\ UNCHANGED <<stackVars, musicVars, loader, toLoad, fontsLoaded, up, held>>

\* Gui::exit
FreeFonts ==
    /\ pc = "fonts"
    /\ loader = "none" \/ fontsLoaded
    /\ fonts' = "freed"
    /\ pc' = "music"
    /\ UNCHANGED <<stackVars, musicVars, loader, toLoad, fontsLoaded, up, held>>

\* Sound::exit: to stopThread, unless there is nothing to stop
StopMusicFirst ==
    /\ pc = "music"
    /\ IF playing THEN StopMusic /\ pc' = "wake" ELSE pc' = "silence" /\ UNCHANGED musicVars
    /\ UNCHANGED <<stackVars, guiVars, up, held>>

WakeForExit ==
    /\ pc = "wake"
    /\ WakePlayer
    /\ pc' = "spin"
    /\ UNCHANGED <<stackVars, guiVars, up, held>>

SpinEnds ==
    /\ pc = "spin" /\ PlayerIsGone
    /\ pc' = "silence"
    /\ UNCHANGED <<stackVars, musicVars, guiVars, up, held>>

GuiIsDown ==
    /\ pc = "silence"
    /\ TearDownMusic
    /\ up' = up \ {"gui"}
    /\ pc' = "release"
    /\ UNCHANGED <<stackVars, guiVars, held>>

\* Threads::exit, as ThreadPool has it: it returns when every thread has ended.
ThreadsAreDown ==
    /\ pc = "join"
    /\ player \in {"none", "ended"} /\ loader \in {"none", "ended"}
    /\ up' = up \ {"threads"}
    /\ pc' = "release"
    /\ UNCHANGED <<stackVars, musicVars, guiVars, held>>

-------------------------------------------------------------------------------

Starting == \/ Acquire \/ AcquireFails \/ GuiBegins \/ GuiFails \/ GuiReturns
Running == LoopBegins \/ MusicStarts \/ EdgeBegins \/ EdgeGoesOn \/ Frame \/ LoopEnds
Leaving == \/ Release \/ Released \/ FreeFonts \/ StopMusicFirst \/ WakeForExit
           \/ SpinEnds \/ GuiIsDown \/ ThreadsAreDown
Loader == LoaderLoads \/ LoaderEnds
Beside == UNCHANGED <<stackVars, guiVars, pc, up, held>>

Next == \/ Starting \/ Running \/ Leaving \/ Loader
        \/ PlayerSteps /\ Beside
        \/ (CallbackTests \/ CallbackSignals) /\ Beside

Spec == Init /\ [][Next]_vars

(***************************************************************************)
(* The main thread runs, and blocks once per frame, so that the threads    *)
(* below it run too.  When the user leaves is open, and that the sound     *)
(* chip ever calls back is not assumed: it stops when the console sleeps.  *)
(***************************************************************************)
Fairness == /\ WF_vars(Starting \/ Running \/ Leaving)
            /\ WF_vars(Loader)
            /\ WF_vars(PlayerSteps /\ Beside)
            /\ WF_vars(CallbackSignals /\ Beside)

FairSpec == Spec /\ Fairness

===============================================================================
