-------------------------------- MODULE Music --------------------------------
(***************************************************************************)
(* Background music (3ds/source/sound/sound.cpp): the main thread starts   *)
(* and stops a thread that decodes, the sound chip calls back once per     *)
(* frame.  Two flags are all the two threads agree by.                     *)
(***************************************************************************)
EXTENDS Naturals

VARIABLES
    ready,       \* init has claimed the sound chip and the buffers
    playing,     \* the main thread wants music
    finished,    \* the sound thread has left its loop
    frameEvent,  \* the one-shot event the sound thread waits for
    player,      \* where the sound thread is
    callback     \* whether the frame callback has seen playing and not signalled yet

musicVars == <<ready, playing, finished, frameEvent, player, callback>>

MusicInit == /\ ready = FALSE /\ playing = FALSE /\ finished = TRUE
             /\ frameEvent = FALSE /\ player = "none" /\ callback = FALSE

\* Sound::init; it is not ready without songs or when something is missing.
SetUpMusic == /\ ready' \in BOOLEAN
              /\ UNCHANGED <<playing, finished, frameEvent, player, callback>>

-------------------------------------------------------------------------------
(* Sound::start, in two steps *)

WantMusic == /\ playing' = TRUE
             /\ UNCHANGED <<ready, finished, frameEvent, player, callback>>

\* Nobody looks at the result of Threads::background.
StartPlayer == /\ player' \in {"new", "none"}
               /\ UNCHANGED <<ready, playing, finished, frameEvent, callback>>

-------------------------------------------------------------------------------
(* soundThread *)

Player(from, to) == player = from /\ player' = to

PlayerBegins == /\ Player("new", "test")
                /\ finished' = FALSE
                /\ UNCHANGED <<ready, playing, frameEvent, callback>>

\* Variant: the flag is not read again.
PlayerTestsOnce == /\ Player("test", "play")
                   /\ UNCHANGED <<ready, playing, finished, frameEvent, callback>>

PlayerTests == /\ Player("test", IF playing THEN "play" ELSE "leave")
               /\ UNCHANGED <<ready, playing, finished, frameEvent, callback>>

\* One turn: the volume, the decoder, the buffers and the channel are used.
PlayerPlays == /\ Player("play", "wait")
               /\ UNCHANGED <<ready, playing, finished, frameEvent, callback>>

PlayerWakes == /\ Player("wait", "test")
               /\ frameEvent /\ frameEvent' = FALSE
               /\ UNCHANGED <<ready, playing, finished, callback>>

PlayerEnds == /\ Player("leave", "ended")
              /\ finished' = TRUE
              /\ UNCHANGED <<ready, playing, frameEvent, callback>>

PlayerSteps == PlayerBegins \/ PlayerTests \/ PlayerPlays \/ PlayerWakes \/ PlayerEnds

-------------------------------------------------------------------------------
(* ndspFrameCallback *)

CallbackTests == /\ ready /\ ~callback
                 /\ playing /\ callback' = TRUE
                 /\ UNCHANGED <<ready, playing, finished, frameEvent, player>>

CallbackSignals == /\ callback /\ callback' = FALSE
                   /\ frameEvent' = TRUE
                   /\ UNCHANGED <<ready, playing, finished, player>>

-------------------------------------------------------------------------------
(* stopThread and the rest of Sound::exit *)

StopMusic == /\ playing' = FALSE
             /\ UNCHANGED <<ready, finished, frameEvent, player, callback>>

\* Variant: the event is not signalled; the next frame would do it.
WakePlayerLater == UNCHANGED musicVars

WakePlayer == /\ frameEvent' = TRUE
              /\ UNCHANGED <<ready, playing, finished, player, callback>>

PlayerIsGone == finished

\* The decoder and the buffers are freed; ndspExit waits for the callback.
TearDownMusic == /\ ~callback
                 /\ ready' = FALSE
                 /\ UNCHANGED <<playing, finished, frameEvent, player, callback>>

===============================================================================
