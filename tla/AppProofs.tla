------------------------------ MODULE AppProofs ------------------------------
(***************************************************************************)
(* Proofs about module App: a frame always has a screen, and nothing that  *)
(* a thread uses is released under it, for any number of screens, requests *)
(* and fonts.                                                              *)
(***************************************************************************)
EXTENDS AppProperties, FiniteSetTheorems, SequenceTheorems, WellFoundedInduction, TLAPS

Looping == {"loop", "play", "edge", "apply", "frame"}
GuiLeaving == {"fonts", "music", "wake", "spin", "silence"}

\* What is on record is the beginning of Names, and what is up is what is on
\* record, with the one whose teardown is running.
Depth == Len(held)
Top == IF pc \in GuiLeaving \cup {"join"} THEN Depth + 1 ELSE Depth
FirstNames(n) == {Names[i] : i \in 1..n}

RecordIsPrefix ==
    held \in Seq(NamesUp) /\ \A i \in 1..Len(held) : held[i] = Names[i]

DepthFits ==
    /\ Depth \in 0..10
    /\ pc = "acquire" => Depth < 10
    /\ pc \in {"targets"} \cup GuiLeaving => Depth = 9
    /\ pc \in Looping => Depth = 10
    /\ pc = "join" => Depth = 7

RecordFits == RecordIsPrefix /\ DepthFits /\ up = FirstNames(Top)

GuiIsUp == Top = 10
BeforeLoop == pc \in {"acquire", "targets", "loop"}

\* The flags of the music against the places of the main thread and the player.
MusicFits ==
    /\ ~finished <=> player \in {"test", "play", "wait", "leave"}
    /\ playing \/ callback => ready
    /\ playing => pc \in Looping \cup {"release", "fonts", "music"} /\ GuiIsUp
    /\ ready => GuiIsUp \/ pc = "targets"
    /\ BeforeLoop \/ pc = "play" => player = "none"
    /\ BeforeLoop => ~playing /\ ~callback
    /\ pc = "acquire" => ~ready
    /\ pc = "play" => playing
    /\ player # "none" => /\ pc # "targets"
                          /\ playing \/ Top < 10 \/ pc \in {"wake", "spin", "silence"}
    /\ player \in {"play", "wait"} => ready
    /\ pc = "silence" => player \in {"none", "new", "test", "leave", "ended"}
    /\ player \notin {"none", "ended"} => Top >= 8

\* The loader runs only while the fonts, and all it needs, are there.
LoaderFits ==
    /\ loader = "load" => ~fontsLoaded /\ fonts = "alive" /\ GuiIsUp
                            /\ pc \in Looping \cup {"release", "fonts"}
    /\ fontsLoaded => loader = "ended"
    /\ pc \in {"acquire", "targets"} => loader = "none"

\* There is a screen, or one is about to come and stay.
ScreensFit ==
    /\ pc \in {"acquire", "targets"} => pending = <<>>
    /\ pc \in {"loop", "play", "edge"} => screens > 0 \/ pending = <<"push">>
    /\ pc = "apply" => screens > 0 \/ ReplacementSurvives(done)
    /\ pc = "frame" => screens > 0

IInv == TypeOK /\ RecordFits /\ MusicFits /\ LoaderFits /\ ScreensFit

-----------------------------------------------------------------------------
(* The names of the subsystems *)

\* Which of the subsystems is where in the order of App::init; none is there twice.
LEMMA NamesOrder ==
    /\ Names \in Seq(NamesUp) /\ Len(Names) = 10
    /\ \A i \in 1..10 : Names[i] = "gui" <=> i = 10
    /\ \A i \in 1..10 : Names[i] = "threads" <=> i = 8
    /\ \A i, j \in 1..10 : Names[i] = Names[j] => i = j
    /\ Names[1] = "hid" /\ Names[2] = "gfx" /\ Names[6] = "romfs"
<1>1. Len(Names) = 10
  BY DEF Names
<1>2. /\ Names[1] = "hid" /\ Names[2] = "gfx" /\ Names[3] = "logging" /\ Names[4] = "cpu"
      /\ Names[5] = "cfgu" /\ Names[6] = "romfs" /\ Names[7] = "archive"
      /\ Names[8] = "threads" /\ Names[9] = "am" /\ Names[10] = "gui"
  BY DEF Names
<1>3. \A i \in 1..10 : i = 1 \/ i = 2 \/ i = 3 \/ i = 4 \/ i = 5 \/ i = 6 \/ i = 7 \/ i = 8
                         \/ i = 9 \/ i = 10
  OBVIOUS
<1>4. Names \in Seq(NamesUp)
  BY <1>1, <1>2, <1>3 DEF Names, NamesUp
<1> QED
  BY <1>1, <1>2, <1>3, <1>4

\* Recording the next name.
LEMMA OneMore ==
    ASSUME RecordIsPrefix, Depth \in 0..9, held' = Append(held, Names[Depth + 1])
    PROVE  /\ RecordIsPrefix' /\ Depth' = Depth + 1
           /\ FirstNames(Depth) \cup {Names[Depth + 1]} = FirstNames(Depth + 1)
<1>1. Names[Depth + 1] \in NamesUp
  BY NamesOrder DEF NamesUp
<1>2. /\ held' \in Seq(NamesUp) /\ Len(held') = Len(held) + 1
      /\ held'[Len(held) + 1] = Names[Len(held) + 1]
      /\ \A i \in 1..Len(held) : held'[i] = held[i]
  BY <1>1, AppendProperties DEF RecordIsPrefix, Depth
<1>3. RecordIsPrefix'
  BY <1>2 DEF RecordIsPrefix
<1>4. Depth' = Depth + 1
  BY <1>2 DEF Depth
<1>5. FirstNames(Depth) \cup {Names[Depth + 1]} = FirstNames(Depth + 1)
  BY DEF FirstNames
<1> QED
  BY <1>3, <1>4, <1>5

\* A sequence without its last element.
LEMMA CutLast ==
    ASSUME NEW S, NEW s \in Seq(S), NEW n \in Nat, Len(s) = n + 1
    PROVE  /\ SubSeq(s, 1, n) \in Seq(S) /\ Len(SubSeq(s, 1, n)) = n
           /\ \A i \in 1..n : SubSeq(s, 1, n)[i] = s[i]
<1>1. \A i \in 1..n : s[i] \in S
  BY LenProperties
<1> QED
  BY <1>1, SubSeqProperties

\* Taking the last name off the record.
LEMMA OneLess ==
    ASSUME RecordIsPrefix, Depth \in 1..10, held' = SubSeq(held, 1, Len(held) - 1)
    PROVE  /\ RecordIsPrefix' /\ Depth' = Depth - 1 /\ Latest = Names[Depth]
           /\ FirstNames(Depth) \ {Names[Depth]} = FirstNames(Depth - 1)
<1> DEFINE n == Depth - 1
<1>1. n \in Nat /\ Depth = n + 1
  OBVIOUS
<1>a. Len(held) = n + 1 /\ held \in Seq(NamesUp)
  BY <1>1 DEF Depth, RecordIsPrefix
<1>b. held' = SubSeq(held, 1, n)
  BY DEF Depth
<1> HIDE DEF n
<1>5. held' \in Seq(NamesUp) /\ Len(held') = n /\ \A i \in 1..n : held'[i] = held[i]
  BY <1>1, <1>a, <1>b, CutLast
<1>2. RecordIsPrefix'
  BY <1>1, <1>a, <1>5 DEF RecordIsPrefix
<1>3. Depth' = n
  BY <1>5 DEF Depth
<1>6. Latest = Names[Depth]
  BY <1>1, <1>a DEF Depth, Latest, RecordIsPrefix
<1>4. FirstNames(Depth) \ {Names[Depth]} = FirstNames(Depth - 1)
  BY NamesOrder DEF FirstNames
<1> QED
  BY <1>2, <1>3, <1>4, <1>6 DEF n

-----------------------------------------------------------------------------
(* The stack of screens *)

\* A pop does not take from the pushes and pops that follow it: what survived
\* before it is considered survives after it.
LEMMA SurvivesPop ==
    ASSUME changes \in Seq({"push", "pop"}), done \in 0..Len(changes), Applying,
           changes[done + 1] = "pop", ReplacementSurvives(done)
    PROVE  ReplacementSurvives(done + 1)
<1>1. PICK j \in (done + 1)..Len(changes) :
         Cardinality(Later("push", j)) > Cardinality(Later("pop", j))
  BY DEF ReplacementSurvives
<1>2. CASE j >= done + 2
  BY <1>1, <1>2 DEF ReplacementSurvives
<1>3. CASE j = done + 1
  <2>1. IsFiniteSet(Later("push", j)) /\ IsFiniteSet(Later("pop", j))
    <3>1. IsFiniteSet(j..Len(changes))
      BY <1>1, FS_Interval
    <3> QED
      BY <3>1, FS_Subset DEF Later
  <2>2. Later("push", j) = Later("push", j + 1) /\ Later("pop", j) = Later("pop", j + 1) \cup {j}
    BY <1>3 DEF Later
  <2>3. IsFiniteSet(Later("pop", j + 1)) /\ j \notin Later("pop", j + 1)
    BY <2>1, <2>2, FS_Subset DEF Later
  <2>4. Cardinality(Later("pop", j)) = Cardinality(Later("pop", j + 1)) + 1
    BY <2>2, <2>3, FS_AddElement
  <2>5. /\ Cardinality(Later("push", j)) \in Nat /\ Cardinality(Later("pop", j)) \in Nat
        /\ Cardinality(Later("pop", j + 1)) \in Nat
    BY <2>1, <2>3, FS_CardinalityType
  <2>6. Cardinality(Later("push", j + 1)) > Cardinality(Later("pop", j + 1))
    BY <1>1, <2>2, <2>4, <2>5
  <2>7. j + 1 =< Len(changes)
    <3>1. Cardinality({}) = 0
      BY FS_EmptySet
    <3>2. ASSUME Later("push", j + 1) = {} PROVE FALSE
      <4>1. Cardinality(Later("push", j + 1)) = 0
        BY <3>1, <3>2, Zenon
      <4> QED
        BY <2>5, <2>6, <4>1
    <3> QED
      BY <3>2 DEF Later
  <2> QED
    BY <1>1, <1>3, <2>6, <2>7 DEF ReplacementSurvives
<1> QED
  BY <1>1, <1>2, <1>3

-----------------------------------------------------------------------------
(* The invariant *)

USE AppAssumption

\* It holds at the start.
LEMMA InitInv == Init => IInv
<1> SUFFICES ASSUME Init PROVE IInv
  OBVIOUS
<1> USE DEF Init, StackInit, MusicInit
<1>1. TypeOK
  <2>1. pending \in Seq({"push", "pop"}) /\ changes \in Seq({"push", "pop"}) /\ held \in Seq(NamesUp)
    OBVIOUS
  <2>2. done \in 0..Len(changes)
    OBVIOUS
  <2>3. /\ ready \in BOOLEAN /\ playing \in BOOLEAN /\ finished \in BOOLEAN
        /\ frameEvent \in BOOLEAN /\ callback \in BOOLEAN /\ fontsLoaded \in BOOLEAN
    BY Zenon
  <2>4. screens \in Nat /\ toLoad \in 0..OtherFonts
    OBVIOUS
  <2>5. up \subseteq NamesUp
    OBVIOUS
  <2> QED
    BY <2>1, <2>2, <2>3, <2>4, <2>5 DEF TypeOK
<1>2. RecordFits
  <2>1. RecordIsPrefix /\ Depth = 0
    BY DEF RecordIsPrefix, Depth
  <2>2. FirstNames(0) = {}
    BY DEF FirstNames
  <2> QED
    BY <2>1, <2>2 DEF RecordFits, DepthFits, Looping, GuiLeaving, Top
<1>3. MusicFits /\ LoaderFits /\ ScreensFit
  BY DEF MusicFits, LoaderFits, ScreensFit, BeforeLoop, Looping, GuiIsUp, Top
<1> QED
  BY <1>1, <1>2, <1>3 DEF IInv

USE DEF stackVars, musicVars, guiVars, Starting, Running, Leaving, Loader, PlayerSteps, Beside

\* The record of what is up follows the steps of App::init and App::exit.
LEMMA RecordInv == IInv /\ Next => RecordFits'
<1> SUFFICES ASSUME IInv, Next PROVE RecordFits'
  OBVIOUS
<1> USE DEF RecordFits, DepthFits, Looping, GuiLeaving, Top
<1>0. RecordFits
  BY DEF IInv
<1>1. CASE Acquire
  <2>1. NextName = Names[Depth + 1]
    BY DEF NextName, Depth
  <2>2. Depth \in 0..8
    BY <1>0, <1>1, <2>1, NamesOrder DEF Acquire
  <2>3. RecordIsPrefix' /\ Depth' = Depth + 1 /\ up' = FirstNames(Depth + 1)
    BY <1>0, <1>1, <2>1, <2>2, OneMore DEF Acquire
  <2> QED
    BY <1>1, <2>2, <2>3 DEF Acquire
<1>2. CASE GuiReturns
  <2>1. Depth = 9 /\ Names[Depth + 1] = "gui"
    BY <1>0, <1>2, NamesOrder DEF GuiReturns
  <2>2. RecordIsPrefix' /\ Depth' = 10 /\ up' = FirstNames(10)
    BY <1>0, <1>2, <2>1, OneMore DEF GuiReturns
  <2> QED
    BY <1>2, <2>2 DEF GuiReturns
<1>3. ASSUME UNCHANGED <<up, held>> PROVE RecordIsPrefix' /\ UNCHANGED <<up, Depth>>
  BY <1>0, <1>3 DEF RecordIsPrefix, Depth
<1>4. CASE GuiBegins
  <2>1. Depth = 9
    <3>1. Names[Depth + 1] = "gui"
      BY <1>4 DEF GuiBegins, NextName, Depth
    <3>2. Depth \in 0..9
      BY <1>0, <1>4 DEF GuiBegins
    <3> QED
      BY <3>1, <3>2, NamesOrder
  <2> QED
    BY <1>0, <1>3, <1>4, <2>1 DEF GuiBegins
<1>5. CASE AcquireFails \/ GuiFails
  BY <1>0, <1>3, <1>5 DEF AcquireFails, GuiFails
<1>6. CASE Running
  BY <1>0, <1>3, <1>6 DEF LoopBegins, MusicStarts, EdgeBegins, EdgeGoesOn, Frame, LoopEnds
<1>7. CASE Release
  <2>1. Depth \in 1..10 /\ up = FirstNames(Depth)
    <3>1. Depth # 0
      BY <1>0, <1>7, EmptySeq DEF Release, RecordIsPrefix, Depth
    <3> QED
      BY <1>0, <1>7, <3>1 DEF Release
  <2>2. /\ RecordIsPrefix' /\ Depth' = Depth - 1 /\ Latest = Names[Depth]
        /\ FirstNames(Depth) \ {Names[Depth]} = FirstNames(Depth - 1)
    BY <1>0, <1>7, <2>1, OneLess DEF Release
  <2>3. CASE Latest = "gui"
    <3>1. Depth = 10
      BY <2>1, <2>2, <2>3, NamesOrder
    <3>2. pc' = "fonts" /\ UNCHANGED up
      BY <1>7, <2>3 DEF Release
    <3> QED
      BY <2>1, <2>2, <3>1, <3>2
  <2>4. CASE Latest = "threads"
    <3>1. Depth = 8
      BY <2>1, <2>2, <2>4, NamesOrder
    <3>2. pc' = "join" /\ UNCHANGED up
      BY <1>7, <2>4 DEF Release
    <3> QED
      BY <2>1, <2>2, <3>1, <3>2
  <2>5. CASE Latest \notin {"gui", "threads"}
    <3>1. pc' = "release" /\ up' = FirstNames(Depth - 1)
      BY <1>7, <2>1, <2>2, <2>5 DEF Release
    <3> QED
      BY <2>1, <2>2, <3>1
  <2> QED
    BY <2>3, <2>4, <2>5
<1>8. CASE Released \/ FreeFonts \/ StopMusicFirst \/ WakeForExit \/ SpinEnds
  BY <1>0, <1>3, <1>8 DEF Released, FreeFonts, StopMusicFirst, WakeForExit, SpinEnds
<1>9. ASSUME UNCHANGED held PROVE RecordIsPrefix' /\ UNCHANGED Depth
  BY <1>0, <1>9 DEF RecordIsPrefix, Depth
<1>10. CASE GuiIsDown
  <2>1. Depth = 9 /\ up = FirstNames(10) /\ up' = up \ {"gui"}
    BY <1>0, <1>10 DEF GuiIsDown
  <2>2. FirstNames(10) \ {"gui"} = FirstNames(9)
    BY NamesOrder DEF FirstNames
  <2> QED
    BY <1>9, <1>10, <2>1, <2>2 DEF GuiIsDown
<1>11. CASE ThreadsAreDown
  <2>1. Depth = 7 /\ up = FirstNames(8) /\ up' = up \ {"threads"}
    BY <1>0, <1>11 DEF ThreadsAreDown
  <2>2. FirstNames(8) \ {"threads"} = FirstNames(7)
    BY NamesOrder DEF FirstNames
  <2> QED
    BY <1>9, <1>11, <2>1, <2>2 DEF ThreadsAreDown
<1>12. CASE UNCHANGED <<pc, up, held>>
  BY <1>0, <1>3, <1>12
<1>13. CASE Loader \/ (PlayerSteps /\ Beside) \/ ((CallbackTests \/ CallbackSignals) /\ Beside)
  <2>1. UNCHANGED <<pc, up, held>>
    BY <1>13 DEF LoaderLoads, LoaderEnds
  <2> QED
    BY <2>1, <1>12
<1> QED
  BY <1>1, <1>2, <1>4, <1>5, <1>6, <1>7, <1>8, <1>10, <1>11, <1>13 DEF Next

\* How a step moves the depth of the record: Release shortens it, and only GuiIsDown
\* and ThreadsAreDown, besides the recording of a name, follow it up.
LEMMA DepthMoves ==
    ASSUME IInv, Next
    PROVE  /\ DepthFits /\ DepthFits'
           /\ UNCHANGED held => UNCHANGED Depth
           /\ Release => /\ Depth \in 1..10 /\ Depth' = Depth - 1
                         /\ pc' = IF Depth = 10 THEN "fonts" ELSE IF Depth = 8 THEN "join" ELSE "release"
<1>1. DepthFits /\ DepthFits'
  BY RecordInv DEF IInv, RecordFits
<1>2. UNCHANGED held => UNCHANGED Depth
  BY DEF Depth
<1>3. ASSUME Release
      PROVE  /\ Depth \in 1..10 /\ Depth' = Depth - 1
             /\ pc' = IF Depth = 10 THEN "fonts" ELSE IF Depth = 8 THEN "join" ELSE "release"
  <2>1. Depth \in 1..10 /\ RecordIsPrefix
    <3>1. RecordIsPrefix
      BY DEF IInv, RecordFits
    <3>2. Depth # 0
      BY <1>3, <3>1, EmptySeq DEF Release, RecordIsPrefix, Depth
    <3> QED
      BY <1>1, <3>1, <3>2 DEF DepthFits
  <2>2. Depth' = Depth - 1 /\ Latest = Names[Depth]
    BY <1>3, <2>1, OneLess DEF Release
  <2>3. (Latest = "gui" <=> Depth = 10) /\ (Latest = "threads" <=> Depth = 8)
    BY <2>1, <2>2, NamesOrder
  <2>4. /\ pc = "release"
        /\ pc' = CASE Latest = "gui" -> "fonts" [] Latest = "threads" -> "join" [] OTHER -> pc
    BY <1>3 DEF Release
  <2> QED
    BY <2>1, <2>2, <2>3, <2>4
<1> QED
  BY <1>1, <1>2, <1>3

\* The flags keep agreeing with the places of the main thread, the player and
\* the callback.
LEMMA MusicInv == IInv /\ Next => MusicFits'
<1> SUFFICES ASSUME IInv, Next PROVE MusicFits'
  OBVIOUS
<1> USE DEF MusicFits, DepthFits, Looping, GuiLeaving, Top, GuiIsUp, BeforeLoop
<1>0. MusicFits /\ TypeOK
  BY DEF IInv
<1>a. finished \in BOOLEAN /\ playing \in BOOLEAN /\ ready \in BOOLEAN /\ callback \in BOOLEAN
      /\ player \in {"none", "new", "test", "play", "wait", "leave", "ended"}
  BY <1>0 DEF TypeOK
<1>b. DepthFits /\ DepthFits' /\ (UNCHANGED held => UNCHANGED Depth)
  BY DepthMoves
<1>1. CASE Acquire
  BY <1>0, <1>a, <1>b, <1>1 DEF Acquire
<1>2. CASE AcquireFails
  BY <1>0, <1>a, <1>b, <1>2 DEF AcquireFails
<1>3. CASE GuiBegins
  BY <1>0, <1>a, <1>b, <1>3 DEF GuiBegins, SetUpMusic
<1>4. CASE GuiFails
  BY <1>0, <1>a, <1>b, <1>4 DEF GuiFails, TearDownMusic
<1>5. CASE GuiReturns
  BY <1>0, <1>a, <1>b, <1>5 DEF GuiReturns
<1>6. CASE LoopBegins
  BY <1>0, <1>a, <1>b, <1>6 DEF LoopBegins, WantMusic
<1>7. CASE MusicStarts
  BY <1>0, <1>a, <1>b, <1>7 DEF MusicStarts, StartPlayer
<1>8. CASE EdgeBegins \/ EdgeGoesOn \/ Frame
  <2>1. UNCHANGED <<musicVars, held>> /\ {pc, pc'} \subseteq {"edge", "apply", "frame"}
    BY <1>8 DEF EdgeBegins, EdgeGoesOn, Frame
  <2> QED
    BY <1>0, <1>a, <1>b, <2>1
<1>9. CASE LoopEnds
  BY <1>0, <1>a, <1>b, <1>9 DEF LoopEnds
<1>10. CASE Release
  BY <1>0, <1>a, <1>b, <1>10, DepthMoves DEF Release
<1>11. CASE Released
  <2>1. Depth = 0
    BY <1>11, EmptySeq DEF Released, Depth
  <2> QED
    BY <1>0, <1>a, <1>b, <1>11, <2>1 DEF Released
<1>12. CASE FreeFonts
  BY <1>0, <1>a, <1>b, <1>12 DEF FreeFonts
<1>13. CASE StopMusicFirst
  BY <1>0, <1>a, <1>b, <1>13 DEF StopMusicFirst, StopMusic
<1>14. CASE WakeForExit
  BY <1>0, <1>a, <1>b, <1>14 DEF WakeForExit, WakePlayer
<1>15. CASE SpinEnds
  BY <1>0, <1>a, <1>b, <1>15 DEF SpinEnds, PlayerIsGone
<1>16. CASE GuiIsDown
  BY <1>0, <1>a, <1>b, <1>16 DEF GuiIsDown, TearDownMusic
<1>17. CASE ThreadsAreDown
  BY <1>0, <1>a, <1>b, <1>17 DEF ThreadsAreDown
<1>18. CASE Loader
  <2>1. UNCHANGED <<musicVars, pc, held>>
    BY <1>18 DEF LoaderLoads, LoaderEnds
  <2> QED
    BY <1>0, <1>a, <1>b, <2>1
<1>19. CASE PlayerSteps /\ Beside
  BY <1>0, <1>a, <1>b, <1>19 DEF Player, PlayerBegins, PlayerTests, PlayerPlays, PlayerWakes,
                                 PlayerEnds
<1>20. CASE (CallbackTests \/ CallbackSignals) /\ Beside
  BY <1>0, <1>a, <1>b, <1>20 DEF CallbackTests, CallbackSignals
<1> QED
  BY <1>1, <1>2, <1>3, <1>4, <1>5, <1>6, <1>7, <1>8, <1>9, <1>10, <1>11, <1>12, <1>13, <1>14,
     <1>15, <1>16, <1>17, <1>18, <1>19, <1>20 DEF Next

\* The loader keeps what it needs: Gui::exit waits for its event.
LEMMA LoaderInv == IInv /\ Next => LoaderFits'
<1> SUFFICES ASSUME IInv, Next PROVE LoaderFits'
  OBVIOUS
<1> USE DEF LoaderFits, DepthFits, Looping, GuiLeaving, Top, GuiIsUp
<1>0. LoaderFits /\ fontsLoaded \in BOOLEAN
  BY DEF IInv, TypeOK
<1>a. DepthFits /\ DepthFits' /\ (UNCHANGED held => UNCHANGED Depth)
  BY DepthMoves
<1>1. CASE Acquire \/ AcquireFails \/ GuiBegins \/ GuiFails
  <2>1. UNCHANGED guiVars /\ pc \in {"acquire", "targets"}
    BY <1>1 DEF Acquire, AcquireFails, GuiBegins, GuiFails
  <2> QED
    BY <1>0, <2>1
<1>2. CASE GuiReturns
  BY <1>0, <1>a, <1>2 DEF GuiReturns
<1>3. CASE Running
  <2>1. /\ UNCHANGED <<guiVars, held>> /\ pc \in Looping
        /\ pc' \in Looping \cup {"release"}
    BY <1>3 DEF LoopBegins, MusicStarts, EdgeBegins, EdgeGoesOn, Frame, LoopEnds
  <2> QED
    BY <1>0, <1>a, <2>1
<1>4. CASE Release
  BY <1>0, <1>a, <1>4, DepthMoves DEF Release
<1>5. CASE Released
  <2>1. Depth = 0
    BY <1>5, EmptySeq DEF Released, Depth
  <2> QED
    BY <1>0, <1>a, <1>5, <2>1 DEF Released
<1>6. CASE FreeFonts
  BY <1>0, <1>6 DEF FreeFonts
<1>7. CASE StopMusicFirst \/ WakeForExit \/ SpinEnds \/ GuiIsDown \/ ThreadsAreDown
  <2>1. /\ UNCHANGED guiVars /\ pc \in {"music", "wake", "spin", "silence", "join"}
        /\ pc' \notin {"acquire", "targets"}
    BY <1>7 DEF StopMusicFirst, WakeForExit, SpinEnds, GuiIsDown, ThreadsAreDown
  <2> QED
    BY <1>0, <2>1
<1>8. CASE Loader
  <2>1. UNCHANGED <<fonts, pc, held>> /\ loader = "load"
    BY <1>8 DEF LoaderLoads, LoaderEnds
  <2>2. CASE LoaderLoads
    BY <1>0, <1>a, <2>1, <2>2 DEF LoaderLoads
  <2>3. CASE LoaderEnds
    <3>1. loader' = "ended" /\ fontsLoaded' = TRUE
      BY <2>3 DEF LoaderEnds
    <3> QED
      BY <1>0, <2>1, <3>1
  <2> QED
    BY <1>8, <2>2, <2>3
<1>9. CASE (PlayerSteps /\ Beside) \/ ((CallbackTests \/ CallbackSignals) /\ Beside)
  <2>1. UNCHANGED <<guiVars, pc, held>>
    BY <1>9
  <2> QED
    BY <1>0, <1>a, <2>1
<1> QED
  BY <1>1, <1>2, <1>3, <1>4, <1>5, <1>6, <1>7, <1>8, <1>9 DEF Next

Kinds == {"push", "pop"}

\* Every edge leaves a screen: each pop of the last one has a push to follow.
LEMMA ScreensInv == IInv /\ Next => ScreensFit'
<1> SUFFICES ASSUME IInv, Next PROVE ScreensFit'
  OBVIOUS
<1>0. /\ ScreensFit /\ screens \in Nat /\ done \in 0..Len(changes)
      /\ pending \in Seq(Kinds) /\ changes \in Seq(Kinds)
  BY DEF IInv, TypeOK, Kinds
<1>1. CASE UNCHANGED <<stackVars, pc>>
  BY <1>0, <1>1 DEF ScreensFit, ReplacementSurvives, Later
<1>2. ASSUME UNCHANGED stackVars, pc' \notin {"apply", "frame"},
             pc' \in {"acquire", "targets"} => pc \in {"acquire", "targets"},
             pc' \in {"loop", "play", "edge"} => pc \in {"loop", "play", "edge"}
      PROVE  ScreensFit'
  BY <1>0, <1>2 DEF ScreensFit
<1>3. CASE GuiReturns
  <2>1. pending' = <<"push">> /\ pc' = "loop"
    BY <1>0, <1>3 DEF GuiReturns, Request, ScreensFit
  <2> QED
    BY <2>1 DEF ScreensFit
<1>4. CASE EdgeBegins
  <2>1. changes' = pending /\ done' = 0 /\ UNCHANGED screens /\ pc' = "apply"
    BY <1>4 DEF EdgeBegins, TakePending
  <2>2. CASE screens > 0
    BY <2>1, <2>2 DEF ScreensFit
  <2>3. CASE pending = <<"push">>
    <3>1. Later("push", 1)' = {1} /\ Later("pop", 1)' = {} /\ Len(changes') = 1
      BY <2>1, <2>3 DEF Later
    <3>2. Cardinality({1}) = 1 /\ Cardinality({}) = 0
      BY FS_Singleton, FS_EmptySet
    <3>3. ReplacementSurvives(0)'
      BY <3>1, <3>2 DEF ReplacementSurvives
    <3> QED
      BY <2>1, <3>3 DEF ScreensFit
  <2> QED
    BY <1>0, <1>4, <2>2, <2>3 DEF ScreensFit, EdgeBegins
<1>5. CASE EdgeGoesOn
  <2>1. CASE ~ Applying
    <3>1. ~ ReplacementSurvives(done)
      BY <1>0, <2>1 DEF Applying, ReplacementSurvives
    <3>2. screens > 0 /\ UNCHANGED screens /\ pc' = "frame"
      BY <1>0, <1>5, <2>1, <3>1 DEF EdgeGoesOn, ScreensFit
    <3> QED
      BY <3>2 DEF ScreensFit
  <2>2. CASE Applying
    <3>1. /\ done' = done + 1 /\ UNCHANGED <<pending, changes, pc>> /\ pc = "apply"
          /\ screens > 0 \/ ReplacementSurvives(done)
          /\ changes[done + 1] \in Kinds
      BY <1>0, <1>5, <2>2 DEF EdgeGoesOn, ApplyOne, ScreensFit, Applying
    <3>2. ReplacementSurvives(done + 1) => ReplacementSurvives(done)'
      BY <3>1 DEF ReplacementSurvives, Later
    <3>3. CASE changes[done + 1] = "push"
      <4>1. screens' = screens + 1
        BY <1>5, <2>2, <3>3 DEF EdgeGoesOn, ApplyOne
      <4> QED
        BY <1>0, <3>1, <4>1 DEF ScreensFit
    <3>4. CASE changes[done + 1] = "pop" /\ screens = 0
      <4>1. ReplacementSurvives(done + 1)
        BY <1>0, <2>2, <3>1, <3>4, SurvivesPop DEF Kinds
      <4> QED
        BY <3>1, <3>2, <4>1 DEF ScreensFit
    <3>5. CASE changes[done + 1] = "pop" /\ screens > 0
      <4>1. screens' = IF screens > 1 \/ ReplacementSurvives(done + 1) THEN screens - 1 ELSE screens
        BY <1>5, <2>2, <3>5 DEF EdgeGoesOn, ApplyOne
      <4> QED
        BY <1>0, <3>1, <3>2, <3>5, <4>1 DEF ScreensFit
    <3> QED
      BY <1>0, <3>1, <3>3, <3>4, <3>5 DEF Kinds
  <2> QED
    BY <2>1, <2>2
<1>6. CASE Frame
  <2>1. screens > 0 /\ UNCHANGED screens /\ pc' = "edge"
    BY <1>6 DEF Frame, Request
  <2> QED
    BY <2>1 DEF ScreensFit
<1>7. CASE Acquire \/ AcquireFails \/ GuiBegins \/ GuiFails
  <2>1. /\ UNCHANGED stackVars /\ pc \in {"acquire", "targets"}
        /\ pc' \in {"acquire", "targets", "release"}
    BY <1>7 DEF Acquire, AcquireFails, GuiBegins, GuiFails
  <2> QED
    BY <1>2, <2>1
<1>8. CASE LoopBegins \/ MusicStarts \/ LoopEnds
  <2>1. /\ UNCHANGED stackVars /\ pc' \in {"play", "edge", "release"}
        /\ pc' \in {"play", "edge"} => pc \in {"loop", "play"}
    BY <1>8 DEF LoopBegins, MusicStarts, LoopEnds
  <2> QED
    BY <1>2, <2>1
<1>9. CASE Leaving
  <2>1. /\ UNCHANGED stackVars
        /\ pc' \in {"release", "fonts", "music", "wake", "spin", "silence", "join", "down"}
    BY <1>9 DEF Release, Released, FreeFonts, StopMusicFirst, WakeForExit, SpinEnds, GuiIsDown,
                ThreadsAreDown
  <2> QED
    BY <1>2, <2>1
<1>10. CASE Loader \/ (PlayerSteps /\ Beside) \/ ((CallbackTests \/ CallbackSignals) /\ Beside)
  <2>1. UNCHANGED <<stackVars, pc>>
    BY <1>10 DEF LoaderLoads, LoaderEnds
  <2> QED
    BY <1>1, <2>1
<1> QED
  BY <1>3, <1>4, <1>5, <1>6, <1>7, <1>8, <1>9, <1>10 DEF Next

\* The types, by the component a variable belongs to.
StackTypeOK ==
    /\ screens \in Nat /\ done \in 0..Len(changes)
    /\ pending \in Seq(Kinds) /\ changes \in Seq(Kinds)
MusicTypeOK ==
    /\ ready \in BOOLEAN /\ playing \in BOOLEAN /\ finished \in BOOLEAN
    /\ frameEvent \in BOOLEAN /\ callback \in BOOLEAN
    /\ player \in {"none", "new", "test", "play", "wait", "leave", "ended"}
GuiTypeOK ==
    /\ fonts \in {"none", "alive", "freed"} /\ loader \in {"none", "load", "ended"}
    /\ toLoad \in 0..OtherFonts /\ fontsLoaded \in BOOLEAN
PlaceTypeOK ==
    pc \in {"acquire", "targets", "loop", "play", "edge", "apply", "frame", "release",
            "fonts", "music", "wake", "spin", "silence", "join", "down"}

\* Each step touches the variables of few components.
LEMMA TypeInv == IInv /\ Next => TypeOK'
<1> SUFFICES ASSUME IInv, Next PROVE TypeOK'
  OBVIOUS
<1>0. StackTypeOK /\ MusicTypeOK /\ GuiTypeOK /\ PlaceTypeOK
  BY DEF IInv, TypeOK, StackTypeOK, MusicTypeOK, GuiTypeOK, PlaceTypeOK, Kinds
<1>1. up' \subseteq NamesUp /\ held' \in Seq(NamesUp)
  <2>1. RecordIsPrefix' /\ DepthFits' /\ up' = FirstNames(Top)'
    BY RecordInv DEF RecordFits
  <2>2. Top' \in 0..10
    <3>1. CASE pc' \in GuiLeaving
      BY <2>1, <3>1 DEF DepthFits, Top
    <3>2. CASE pc' = "join"
      BY <2>1, <3>2 DEF DepthFits, Top
    <3>3. CASE pc' \notin GuiLeaving \cup {"join"}
      <4>1. Top' = Depth'
        BY <3>3 DEF Top
      <4> QED
        BY <2>1, <4>1 DEF DepthFits
    <3> QED
      BY <3>1, <3>2, <3>3
  <2> QED
    BY <2>1, <2>2, NamesOrder DEF RecordIsPrefix, FirstNames, NamesUp
<1>2. StackTypeOK'
  <2>1. CASE UNCHANGED stackVars
    BY <1>0, <2>1 DEF StackTypeOK
  <2>2. ASSUME NEW asked \in Seq(Kinds), Request(asked) PROVE StackTypeOK'
    BY <1>0, <2>2, ConcatProperties DEF Request, StackTypeOK
  <2>3. CASE GuiReturns
    <3>1. <<"push">> \in Seq(Kinds) /\ Request(<<"push">>)
      BY <2>3 DEF GuiReturns, Kinds
    <3> QED
      BY <3>1, <2>2
  <2>4. CASE Frame
    <3>1. PICK n \in 0..MaxRequests : \E asked \in [1..n -> Kinds] : Request(asked)
      BY <2>4 DEF Frame, Kinds
    <3>2. PICK asked \in [1..n -> Kinds] : Request(asked)
      BY <3>1
    <3>3. asked \in Seq(Kinds)
      BY <3>2, SeqDef
    <3> QED
      BY <3>2, <3>3, <2>2
  <2>5. CASE EdgeBegins
    BY <1>0, <2>5 DEF EdgeBegins, TakePending, StackTypeOK
  <2>6. CASE EdgeGoesOn
    <3>1. CASE Applying
      BY <1>0, <2>6, <3>1 DEF EdgeGoesOn, ApplyOne, Applying, StackTypeOK
    <3> QED
      BY <2>1, <2>6, <3>1 DEF EdgeGoesOn
  <2>7. CASE \/ Acquire \/ AcquireFails \/ GuiBegins \/ GuiFails \/ LoopBegins \/ MusicStarts
             \/ LoopEnds \/ Leaving \/ Loader \/ (PlayerSteps /\ Beside)
             \/ ((CallbackTests \/ CallbackSignals) /\ Beside)
    <3>1. UNCHANGED stackVars
      BY <2>7 DEF Acquire, AcquireFails, GuiBegins, GuiFails, LoopBegins, MusicStarts, LoopEnds,
                  Release, Released, FreeFonts, StopMusicFirst, WakeForExit, SpinEnds, GuiIsDown,
                  ThreadsAreDown, LoaderLoads, LoaderEnds
    <3> QED
      BY <2>1, <3>1
  <2> QED
    BY <2>3, <2>4, <2>5, <2>6, <2>7 DEF Next
<1>3. MusicTypeOK'
  <2> USE DEF MusicTypeOK
  <2>1. CASE UNCHANGED musicVars
    BY <1>0, <2>1
  <2>2. CASE PlayerSteps /\ Beside
    BY <1>0, <2>2 DEF Player, PlayerBegins, PlayerTests, PlayerPlays, PlayerWakes, PlayerEnds
  <2>3. CASE (CallbackTests \/ CallbackSignals) /\ Beside
    BY <1>0, <2>3 DEF CallbackTests, CallbackSignals
  <2>4. CASE GuiBegins \/ GuiFails \/ LoopBegins \/ MusicStarts
    BY <1>0, <2>4 DEF GuiBegins, SetUpMusic, GuiFails, TearDownMusic, LoopBegins, WantMusic,
                      MusicStarts, StartPlayer
  <2>5. CASE StopMusicFirst \/ WakeForExit \/ GuiIsDown
    BY <1>0, <2>5 DEF StopMusicFirst, StopMusic, WakeForExit, WakePlayer, GuiIsDown, TearDownMusic
  <2>6. CASE \/ Acquire \/ AcquireFails \/ GuiReturns \/ EdgeBegins \/ EdgeGoesOn \/ Frame \/ LoopEnds
             \/ Release \/ Released \/ FreeFonts \/ SpinEnds \/ ThreadsAreDown \/ Loader
    <3>1. UNCHANGED musicVars
      BY <2>6 DEF Acquire, AcquireFails, GuiReturns, EdgeBegins, EdgeGoesOn, Frame, LoopEnds,
                  Release, Released, FreeFonts, SpinEnds, ThreadsAreDown, LoaderLoads, LoaderEnds
    <3> QED
      BY <2>1, <3>1
  <2> QED
    BY <2>2, <2>3, <2>4, <2>5, <2>6 DEF Next
<1>4. GuiTypeOK'
  <2> USE DEF GuiTypeOK
  <2>1. CASE UNCHANGED guiVars
    BY <1>0, <2>1
  <2>2. CASE GuiReturns \/ FreeFonts
    BY <1>0, <2>2 DEF GuiReturns, FreeFonts
  <2>4. CASE LoaderLoads
    BY <1>0, <2>4 DEF LoaderLoads
  <2>5. CASE LoaderEnds
    BY <1>0, <2>5 DEF LoaderEnds
  <2>3. CASE \/ Acquire \/ AcquireFails \/ GuiBegins \/ GuiFails \/ Running \/ Release \/ Released
             \/ StopMusicFirst \/ WakeForExit \/ SpinEnds \/ GuiIsDown \/ ThreadsAreDown
             \/ (PlayerSteps /\ Beside) \/ ((CallbackTests \/ CallbackSignals) /\ Beside)
    <3>1. UNCHANGED guiVars
      BY <2>3 DEF Acquire, AcquireFails, GuiBegins, GuiFails, LoopBegins, MusicStarts, EdgeBegins,
                  EdgeGoesOn, Frame, LoopEnds, Release, Released, StopMusicFirst, WakeForExit,
                  SpinEnds, GuiIsDown, ThreadsAreDown
    <3> QED
      BY <2>1, <3>1
  <2> QED
    BY <2>2, <2>3, <2>4, <2>5 DEF Next
<1>5. PlaceTypeOK'
  <2> USE DEF PlaceTypeOK
  <2>1. CASE Starting
    BY <1>0, <2>1 DEF Acquire, AcquireFails, GuiBegins, GuiFails, GuiReturns
  <2>2. CASE Running
    BY <1>0, <2>2 DEF LoopBegins, MusicStarts, EdgeBegins, EdgeGoesOn, Frame, LoopEnds
  <2>3. CASE Leaving
    BY <1>0, <2>3 DEF Release, Released, FreeFonts, StopMusicFirst, WakeForExit, SpinEnds,
                      GuiIsDown,
                      ThreadsAreDown
  <2>4. CASE Loader \/ (PlayerSteps /\ Beside) \/ ((CallbackTests \/ CallbackSignals) /\ Beside)
    <3>1. UNCHANGED pc
      BY <2>4 DEF LoaderLoads, LoaderEnds
    <3> QED
      BY <1>0, <3>1
  <2> QED
    BY <2>1, <2>2, <2>3, <2>4 DEF Next
<1> QED
  BY <1>1, <1>2, <1>3, <1>4, <1>5
     DEF TypeOK, StackTypeOK, MusicTypeOK, GuiTypeOK, PlaceTypeOK, Kinds

\* The invariant holds in every reachable state.
THEOREM Invariance == Spec => []IInv
<1>1. IInv /\ Next => IInv'
  BY TypeInv, RecordInv, MusicInv, LoaderInv, ScreensInv DEF IInv
<1>2. IInv /\ UNCHANGED vars => IInv'
  <2> SUFFICES ASSUME IInv, UNCHANGED vars PROVE IInv'
    OBVIOUS
  <2>1. TypeOK'
    BY DEF IInv, TypeOK, vars
  <2>2. RecordFits'
    BY DEF IInv, RecordFits, RecordIsPrefix, DepthFits, Depth, Top, vars
  <2>3. MusicFits' /\ LoaderFits'
    BY DEF IInv, MusicFits, LoaderFits, BeforeLoop, GuiIsUp, Top, Depth, vars
  <2>4. ScreensFit'
    BY DEF IInv, ScreensFit, ReplacementSurvives, Later, vars
  <2> QED
    BY <2>1, <2>2, <2>3, <2>4 DEF IInv
<1>3. IInv /\ [Next]_vars => IInv'
  BY <1>1, <1>2
<1> QED
  BY <1>3, InitInv, PTL DEF Spec

-----------------------------------------------------------------------------
(* The properties of the run *)

\* Every variable keeps its type.
THEOREM TypeCorrect == Spec => []TypeOK
<1>1. IInv => TypeOK
  BY DEF IInv
<1> QED
  BY <1>1, Invariance, PTL

\* Whatever the screens push and pop, and in which order, a frame has a screen.
THEOREM ScreenStays == Spec => []ScreenInEveryFrame
<1>1. IInv => ScreenInEveryFrame
  BY DEF IInv, ScreensFit, ScreenInEveryFrame
<1> QED
  BY <1>1, Invariance, PTL

\* No thread is left without what it uses, wherever coming up stops and in
\* whatever order the threads run while the program goes down.
THEOREM ReleaseIsSafe == Spec => []NothingUsedAfterRelease
<1>1. IInv => NothingUsedAfterRelease
  <2> SUFFICES ASSUME IInv PROVE NothingUsedAfterRelease
    OBVIOUS
  <2>1. /\ MusicFits /\ LoaderFits /\ Top \in 0..10 /\ up = FirstNames(Top)
        /\ player \in {"none", "new", "test", "play", "wait", "leave", "ended"}
    BY DEF IInv, TypeOK, RecordFits, DepthFits, Top, GuiLeaving
  <2>2. Top = 10 => {"hid", "gfx", "romfs", "gui", "threads"} \subseteq up
    BY <2>1, NamesOrder DEF FirstNames
  <2>3. Top >= 8 => "threads" \in up
    BY <2>1, NamesOrder DEF FirstNames
  <2>4. player = "play" => ready /\ GuiIsUp
    BY <2>1 DEF MusicFits
  <2> QED
    BY <2>1, <2>2, <2>3, <2>4 DEF MusicFits, LoaderFits, GuiIsUp, NothingUsedAfterRelease
<1> QED
  BY <1>1, Invariance, PTL

-----------------------------------------------------------------------------
(* Going down *)

\* The loader signals before it ends; and the event that wakes the sound thread at
\* exit stays until that has gone by it, for it does not play another turn.
LeavingFits ==
    /\ loader = "ended" => fontsLoaded
    /\ pc = "spin" /\ player \in {"play", "wait"} => frameEvent

LEMMA LeavingInv ==
    ASSUME IInv, LeavingFits, Next
    PROVE  LeavingFits'
<1>0. /\ playing => pc # "spin"
      /\ player \in {"none", "new", "test", "play", "wait", "leave", "ended"}
      /\ frameEvent \in BOOLEAN /\ fontsLoaded \in BOOLEAN /\ playing \in BOOLEAN
  BY DEF IInv, TypeOK, MusicFits, Looping
<1> USE DEF LeavingFits
<1>1. CASE Starting
  BY <1>1 DEF Acquire, AcquireFails, GuiBegins, GuiFails, GuiReturns
<1>2. CASE Running
  <2>1. UNCHANGED guiVars /\ pc' \in Looping \cup {"release"}
    BY <1>2 DEF LoopBegins, MusicStarts, EdgeBegins, EdgeGoesOn, Frame, LoopEnds, Looping
  <2> QED
    BY <2>1 DEF Looping
<1>3. CASE Leaving
  <2>1. UNCHANGED <<loader, fontsLoaded>>
    BY <1>3 DEF Release, Released, FreeFonts, StopMusicFirst, WakeForExit, SpinEnds, GuiIsDown,
                ThreadsAreDown
  <2>2. pc' = "spin" => WakeForExit
    BY <1>3 DEF Release, Released, FreeFonts, StopMusicFirst, SpinEnds, GuiIsDown, ThreadsAreDown
  <2>3. WakeForExit => frameEvent'
    BY DEF WakeForExit, WakePlayer
  <2> QED
    BY <2>1, <2>2, <2>3
<1>4. CASE Loader
  BY <1>4 DEF LoaderLoads, LoaderEnds
<1>5. CASE PlayerSteps /\ Beside
  BY <1>0, <1>5 DEF Beside, PlayerSteps, Player, PlayerBegins, PlayerTests, PlayerPlays,
                    PlayerWakes, PlayerEnds
<1>6. CASE (CallbackTests \/ CallbackSignals) /\ Beside
  BY <1>6 DEF Beside, CallbackTests, CallbackSignals
<1> QED
  BY <1>1, <1>2, <1>3, <1>4, <1>5, <1>6 DEF Next

LEMMA LeavingFitsHolds == Spec => []LeavingFits
<1>1. Init => LeavingFits
  BY DEF Init, LeavingFits
<1>2. IInv /\ LeavingFits /\ [Next]_vars => LeavingFits'
  <2>1. LeavingFits /\ UNCHANGED vars => LeavingFits'
    BY DEF LeavingFits, vars
  <2> QED
    BY <2>1, LeavingInv
<1> HIDE DEF IInv, LeavingFits
<1> QED
  BY <1>1, <1>2, Invariance, PTL DEF Spec

\* At each of the three waits: the sound thread has nothing to play any more when the
\* threads are joined, as the record shows that the music is down.
LEMMA NothingHolds ==
    ASSUME IInv, LeavingFits
    PROVE  NothingHoldsLeaving
<1>0. /\ player \in {"none", "new", "test", "play", "wait", "leave", "ended"}
      /\ loader \in {"none", "load", "ended"} /\ MusicFits /\ DepthFits
  BY DEF IInv, TypeOK, RecordFits
<1>1. pc = "spin" => PlayerIsGone \/ PlayerGoesOn
  BY <1>0 DEF LeavingFits, PlayerIsGone, PlayerGoesOn, MusicFits
<1>2. pc = "join" => player \in {"none", "ended"} \/ PlayerGoesOn
  <2>1. pc = "join" => ~ready
    BY <1>0 DEF MusicFits, DepthFits, GuiIsUp, Top
  <2> QED
    BY <1>0, <2>1 DEF PlayerGoesOn, MusicFits
<1> QED
  BY <1>0, <1>1, <1>2 DEF LeavingFits, NothingHoldsLeaving

\* The parts of what is left are numbers.
LEMMA AheadIsNatural ==
    ASSUME IInv
    PROVE  /\ PlaceAhead(pc) \in Nat /\ LoaderAhead \in Nat
           /\ PlayerAhead \in 0..6 /\ (playing => PlayerAhead = 6)
           /\ Depth \in Nat /\ StepsLeft = 6 * Depth + PlaceAhead(pc) + PlayerAhead + LoaderAhead
<1>1. toLoad \in Nat /\ Depth \in Nat
  BY DEF IInv, TypeOK, RecordFits, DepthFits
<1>2. PlaceAhead(pc) \in Nat /\ PlayerAhead \in 0..6 /\ (playing => PlayerAhead = 6)
  BY DEF PlaceAhead, PlayerAhead
<1> QED
  BY <1>1, <1>2 DEF LoaderAhead, StepsLeft, Depth

\* A step that goes down, by the thread that takes it.
LEMMA EveryStepDescends ==
    ASSUME IInv, IInv', Next, PlaceAhead(pc) > 0
    PROVE  \/ StepsLeft' < StepsLeft
           \/ /\ StepsLeft' = StepsLeft
              /\ UNCHANGED <<pc, held, up, fonts, loader, toLoad>>
              /\ playing \/ UNCHANGED player
<1>0. /\ PlaceAhead(pc) \in Nat /\ LoaderAhead \in Nat
      /\ PlayerAhead \in 0..6 /\ (playing => PlayerAhead = 6)
      /\ Depth \in Nat /\ StepsLeft = 6 * Depth + PlaceAhead(pc) + PlayerAhead + LoaderAhead
  BY AheadIsNatural
<1>a. /\ PlaceAhead(pc)' \in Nat /\ LoaderAhead' \in Nat /\ PlayerAhead' \in 0..6 /\ Depth' \in Nat
      /\ StepsLeft' = 6 * Depth' + PlaceAhead(pc)' + PlayerAhead' + LoaderAhead'
  <2>1. /\ toLoad' \in Nat
        /\ Depth' \in Nat
    BY DEF IInv, TypeOK, RecordFits, DepthFits
  <2>2. PlaceAhead(pc)' \in Nat /\ PlayerAhead' \in 0..6
    BY DEF PlaceAhead, PlayerAhead
  <2>3. LoaderAhead' \in Nat
    <3>1. loader' = "load" => LoaderAhead' = toLoad' + 1
      BY DEF LoaderAhead
    <3>2. loader' # "load" => LoaderAhead' = 0
      BY DEF LoaderAhead
    <3>3. \A n \in Nat : n + 1 \in Nat
      OBVIOUS
    <3>4. toLoad' \in Nat
      BY <2>1
    <3> QED
      BY <3>1, <3>2, <3>3, <3>4
  <2>4. StepsLeft' = 6 * Depth' + PlaceAhead(pc)' + PlayerAhead' + LoaderAhead'
    BY DEF StepsLeft, Depth
  <2> QED
    BY <2>1, <2>2, <2>3, <2>4
<1>b. pc \in {"release", "fonts", "music", "wake", "spin", "silence", "join"}
  BY DEF PlaceAhead
<1>c. /\ UNCHANGED held => Depth' = Depth
      /\ UNCHANGED <<playing, player>> => PlayerAhead' = PlayerAhead
      /\ UNCHANGED <<loader, toLoad>> => LoaderAhead' = LoaderAhead
      /\ UNCHANGED pc => PlaceAhead(pc)' = PlaceAhead(pc)
  BY DEF Depth, PlayerAhead, LoaderAhead
<1>1. CASE Starting \/ Running
  <2>1. pc \in {"acquire", "targets"} \cup Looping
    BY <1>1 DEF Acquire, AcquireFails, GuiBegins, GuiFails, GuiReturns, LoopBegins, MusicStarts,
                EdgeBegins, EdgeGoesOn, Frame, LoopEnds, Looping
  <2> QED
    BY <1>b, <2>1 DEF Looping
<1>2. CASE Release
  <2>1. /\ pc = "release" /\ Depth' = Depth - 1 /\ pc' \in {"fonts", "join", "release"}
        /\ UNCHANGED <<playing, player, loader, toLoad>>
    BY <1>2, DepthMoves DEF Release
  <2>2. PlaceAhead(pc) = 1 /\ PlaceAhead(pc)' <= 6
    BY <2>1 DEF PlaceAhead
  <2> QED
    BY <1>0, <1>a, <1>c, <2>1, <2>2
<1>3. CASE Released \/ FreeFonts \/ WakeForExit \/ SpinEnds \/ GuiIsDown \/ ThreadsAreDown
  <2>1. UNCHANGED <<held, playing, player, loader, toLoad>>
    BY <1>3 DEF Released, FreeFonts, WakeForExit, WakePlayer, SpinEnds, GuiIsDown, TearDownMusic,
                ThreadsAreDown
  <2>2. PlaceAhead(pc)' < PlaceAhead(pc)
    BY <1>3 DEF Released, FreeFonts, WakeForExit, SpinEnds, GuiIsDown, ThreadsAreDown, PlaceAhead
  <2> QED
    BY <1>0, <1>a, <1>c, <2>1, <2>2
<1>4. CASE StopMusicFirst
  <2>1. UNCHANGED <<held, loader, toLoad>>
    BY <1>4 DEF StopMusicFirst
  <2>2. PlaceAhead(pc)' < PlaceAhead(pc)
    BY <1>4 DEF StopMusicFirst, PlaceAhead
  <2>3. playing \/ UNCHANGED <<playing, player>>
    BY <1>4 DEF StopMusicFirst
  <2>4. PlayerAhead' <= PlayerAhead
    BY <1>0, <1>a, <1>c, <2>3
  <2> QED
    BY <1>0, <1>a, <1>c, <2>1, <2>2, <2>4
<1>5. CASE Loader
  <2>1. UNCHANGED <<held, pc, playing, player>>
    BY <1>5 DEF LoaderLoads, LoaderEnds
  <2>2. toLoad \in Nat
    BY DEF IInv, TypeOK
  <2>3. LoaderAhead' < LoaderAhead
    BY <1>5, <2>2 DEF LoaderLoads, LoaderEnds, LoaderAhead
  <2> QED
    BY <1>0, <1>a, <1>c, <2>1, <2>3
<1>6. CASE PlayerSteps /\ Beside
  <2>1. UNCHANGED <<pc, held, up, fonts, loader, toLoad, playing>>
    BY <1>6 DEF Beside, PlayerSteps, PlayerBegins, PlayerTests, PlayerPlays, PlayerWakes, PlayerEnds
  <2>2. CASE playing
    <3>1. PlayerAhead' = PlayerAhead
      BY <2>1, <2>2 DEF PlayerAhead
    <3> QED
      BY <1>0, <1>a, <1>c, <2>1, <2>2, <3>1
  <2>3. CASE ~playing
    <3>1. PlayerAhead' < PlayerAhead
      BY <1>6, <2>1, <2>3 DEF PlayerSteps, Player, PlayerBegins, PlayerTests, PlayerPlays,
                              PlayerWakes, PlayerEnds, PlayerAhead
    <3> QED
      BY <1>0, <1>a, <1>c, <2>1, <3>1
  <2> QED
    BY <2>2, <2>3
<1>7. CASE (CallbackTests \/ CallbackSignals) /\ Beside
  <2>1. UNCHANGED <<pc, held, up, fonts, loader, toLoad, playing, player>>
    BY <1>7 DEF Beside, CallbackTests, CallbackSignals
  <2> QED
    BY <1>0, <1>a, <1>c, <2>1
<1> QED
  BY <1>1, <1>2, <1>3, <1>4, <1>5, <1>6, <1>7 DEF Next, Leaving

\* Going down always goes on: neither the wait for the loader's event, nor the spin on
\* finished, nor the join is for something that cannot come, also when the sound chip
\* is silent, and each step but the callback's brings the end nearer (sound.cpp:180-192,
\* gui.cpp:1165-1170).
THEOREM DescentGoesOn == Spec => LeavingGoesOn
<1>1. IInv /\ LeavingFits => NothingHoldsLeaving
  BY NothingHolds
<1>2. IInv /\ IInv' /\ [Next]_vars =>
         [PlaceAhead(pc) > 0 =>
            \/ StepsLeft' < StepsLeft
            \/ /\ StepsLeft' = StepsLeft
               /\ UNCHANGED <<pc, held, up, fonts, loader, toLoad>>
               /\ playing \/ UNCHANGED player]_vars
  BY EveryStepDescends
<1> HIDE DEF IInv, LeavingFits
<1>3. Spec => []NothingHoldsLeaving
  BY <1>1, Invariance, LeavingFitsHolds, PTL
<1>4. Spec => LeavingDescends
  BY <1>2, Invariance, PTL DEF Spec, LeavingDescends
<1> QED
  BY <1>3, <1>4 DEF LeavingGoesOn

-----------------------------------------------------------------------------
(* What the loop of replacementSurvives counts *)

(***************************************************************************)
(* What does not hold of every number fails for a first time.              *)
(***************************************************************************)
LEMMA FirstOf ==
    ASSUME NEW S \in SUBSET Nat, S # {}
    PROVE  \E n \in S : \A m \in S : n =< m
<1>1. PICK n \in S : \A m \in S : ~ (<<m, n>> \in OpToRel(<, Nat))
  BY WFMin, NatLessThanWellFounded
<1>2. \A m \in S : ~ (m < n)
  BY <1>1, Zenon DEF OpToRel
<1>3. \A m \in S : n =< m
  BY <1>2
<1>4. QED
  BY <1>3

(***************************************************************************)
(* A count that begins with zero and depends on the one before is one: for *)
(* every stretch of numbers, and whatever the step is.                     *)
(***************************************************************************)
CountsFrom(f, i, n, step) ==
    /\ f \in [i .. n -> Nat]
    /\ f[i] = 0
    /\ \A m \in i + 1 .. n : f[m] = step[m, f[m - 1]]

LEMMA CountExists ==
    ASSUME NEW step \in [Nat \X Nat -> Nat], NEW i \in Nat, NEW n \in Nat, i =< n
    PROVE  \E f : CountsFrom(f, i, n, step)
<1> DEFINE Bad == {m \in Nat : i =< m /\ ~ \E f : CountsFrom(f, i, m, step)}
<1>1. SUFFICES ASSUME Bad # {}
               PROVE  FALSE
  OBVIOUS
<1>2. PICK m \in Bad : \A k \in Bad : m =< k
  BY <1>1, FirstOf
<1>3. m \in Nat /\ i < m
  <2> DEFINE z == [k \in i .. i |-> 0]
  <2>1. i \in i .. i /\ i + 1 .. i = {}
    OBVIOUS
  <2>2. z \in [i .. i -> Nat] /\ z[i] = 0
    BY <2>1
  <2>3. CountsFrom(z, i, i, step)
    BY <2>1, <2>2 DEF CountsFrom
  <2>4. QED
    BY <1>2, <2>3
<1> HIDE DEF Bad
<1>4. m - 1 \in Nat /\ i =< m - 1 /\ m - 1 \notin Bad
  BY <1>2, <1>3
<1>5. PICK f : CountsFrom(f, i, m - 1, step)
  BY <1>4 DEF Bad
<1> DEFINE g == [k \in i .. m |-> IF k = m THEN step[m, f[m - 1]] ELSE f[k]]
<1>6. f[m - 1] \in Nat /\ step[m, f[m - 1]] \in Nat
  <2>1. m - 1 \in i .. m - 1
    BY <1>4
  <2>2. f[m - 1] \in Nat
    BY <2>1, <1>5 DEF CountsFrom
  <2>3. <<m, f[m - 1]>> \in Nat \X Nat
    BY <1>3, <2>2
  <2>4. QED
    BY <2>2, <2>3
<1>7. CountsFrom(g, i, m, step)
  <2> DEFINE last == step[m, f[m - 1]]
  <2>1. \A k \in i .. m : k \in Int /\ (k = m \/ k \in i .. m - 1)
    BY <1>3
  <2>2. m \in i .. m /\ g[m] = last
    <3>1. m \in i .. m
      BY <1>3
    <3>2. QED
      BY <3>1, Zenon
  <2>3. \A k \in i .. m - 1 : k \in i .. m /\ k # m /\ g[k] = f[k]
    <3>1. \A k \in i .. m - 1 : k \in i .. m /\ k # m
      BY <1>3
    <3>2. QED
      BY <3>1, Zenon
  <2>4. f \in [i .. m - 1 -> Nat] /\ f[i] = 0
    BY <1>5 DEF CountsFrom
  <2>5. last \in Nat
    BY <1>6
  <2>6. DOMAIN g = i .. m
    OBVIOUS
  <2>7. g = [k \in i .. m |-> g[k]]
    OBVIOUS
  <2> HIDE DEF g, last
  <2>8. g \in [i .. m -> Nat]
    <3>1. \A k \in i .. m : g[k] \in Nat
      BY <2>1, <2>2, <2>3, <2>4, <2>5
    <3>2. QED
      BY <2>7, <3>1
  <2>9. g[i] = 0
    BY <1>4, <2>3, <2>4
  <2>10. ASSUME NEW k \in i + 1 .. m
         PROVE  g[k] = step[k, g[k - 1]]
    <3>1. g[k - 1] = f[k - 1]
      <4>1. k - 1 \in i .. m - 1
        BY <1>3
      <4>2. QED
        BY <2>3, <4>1
    <3>2. CASE k = m
      BY <2>2, <3>1, <3>2 DEF last
    <3>3. CASE k # m
      <4>1. k \in i + 1 .. m - 1 /\ k \in i .. m - 1
        BY <1>3, <3>3
      <4>2. g[k] = f[k] /\ f[k] = step[k, f[k - 1]]
        BY <2>3, <4>1, <1>5 DEF CountsFrom
      <4>3. QED
        BY <3>1, <4>2
    <3>4. QED
      BY <3>2, <3>3
  <2>11. QED
    BY <2>8, <2>9, <2>10 DEF CountsFrom
<1>8. QED
  BY <1>2, <1>7 DEF Bad

(***************************************************************************)
(* The loop of replacementSurvives counts as it says.                      *)
(***************************************************************************)
LEMMA LoopCounts ==
    ASSUME TypeOK, NEW i \in 1 .. Len(changes)
    PROVE  /\ DepthsBehind(i) \in [i .. Len(changes) -> Nat]
           /\ DepthsBehind(i)[i] = 0
           /\ \A n \in i + 1 .. Len(changes) :
                  DepthsBehind(i)[n] =
                      IF changes[n] = "push" THEN DepthsBehind(i)[n - 1] + 1
                      ELSE IF DepthsBehind(i)[n - 1] > 0 THEN DepthsBehind(i)[n - 1] - 1 ELSE 0
<1> DEFINE N    == Len(changes)
           step == [x \in Nat \X Nat |->
                       IF changes[x[1]] = "push" THEN x[2] + 1
                       ELSE IF x[2] > 0 THEN x[2] - 1 ELSE 0]
           Body(f) == [n \in i .. N |->
                          IF n = i THEN 0
                          ELSE IF changes[n] = "push" THEN f[n - 1] + 1
                          ELSE IF f[n - 1] > 0 THEN f[n - 1] - 1 ELSE 0]
<1>1. N \in Nat /\ i \in Nat /\ i =< N
  BY LenProperties DEF TypeOK
<1>2. step \in [Nat \X Nat -> Nat]
  OBVIOUS
<1>3. PICK f : CountsFrom(f, i, N, step)
  BY <1>1, <1>2, CountExists
<1>4. f = Body(f)
  <2>1. f \in [i .. N -> Nat] /\ f[i] = 0
    BY <1>3 DEF CountsFrom
  <2>2. ASSUME NEW n \in i .. N, n # i
        PROVE  f[n] = IF changes[n] = "push" THEN f[n - 1] + 1
                      ELSE IF f[n - 1] > 0 THEN f[n - 1] - 1 ELSE 0
    <3>1. n \in i + 1 .. N /\ n - 1 \in i .. N /\ n \in Nat
      BY <2>2, <1>1
    <3>2. f[n] = step[n, f[n - 1]] /\ f[n - 1] \in Nat
      BY <3>1, <2>1, <1>3 DEF CountsFrom
    <3>3. QED
      BY <3>1, <3>2
  <2>3. QED
    BY <2>1, <2>2
<1>5. DepthsBehind(i) = CHOOSE g : g = Body(g)
  BY DEF DepthsBehind
<1> DEFINE d == DepthsBehind(i)
<1>6. d = Body(d)
  BY <1>4, <1>5
<1>7. ASSUME NEW n \in i .. N
      PROVE  d[n] = IF n = i THEN 0
                    ELSE IF changes[n] = "push" THEN d[n - 1] + 1
                    ELSE IF d[n - 1] > 0 THEN d[n - 1] - 1 ELSE 0
  BY <1>6, Zenon
<1>8. \A n \in i .. N : d[n] \in Nat
  <2> DEFINE Bad == {n \in i .. N : d[n] \notin Nat}
  <2>1. SUFFICES ASSUME Bad # {}
                 PROVE  FALSE
    OBVIOUS
  <2>2. PICK n \in Bad : \A m \in Bad : n =< m
    <3>1. Bad \in SUBSET Nat
      BY <1>1
    <3>2. QED
      BY <2>1, <3>1, FirstOf
  <2> HIDE DEF d
  <2>3. n \in i .. N /\ d[n] \notin Nat
    BY <2>2
  <2>4. n # i
    BY <2>3, <1>7
  <2>5. n - 1 \in i .. N /\ n - 1 \notin Bad
    BY <1>1, <2>2, <2>3, <2>4
  <2>6. d[n - 1] \in Nat
    BY <2>5
  <2>7. QED
    BY <1>7, <2>3, <2>6
<1>9. d \in [i .. N -> Nat]
  <2>1. d = [n \in i .. N |-> d[n]]
    BY <1>6
  <2>2. QED
    BY <1>8, <2>1
<1>10. d[i] = 0
  BY <1>1, <1>7
<1>11. ASSUME NEW n \in i + 1 .. N
       PROVE  d[n] = IF changes[n] = "push" THEN d[n - 1] + 1
                     ELSE IF d[n - 1] > 0 THEN d[n - 1] - 1 ELSE 0
  <2>1. n \in i .. N /\ n # i
    BY <1>1
  <2>2. QED
    BY <1>7, <2>1
<1>12. QED
  BY <1>9, <1>10, <1>11

(***************************************************************************)
(* What the loop has counted after the n-th change is the greatest surplus *)
(* of pushes over pops in a stretch that ends with that change, or zero.   *)
(***************************************************************************)
Behind(kind, j, n) == Cardinality({k \in j .. n : changes[k] = kind})

LEMMA BehindIsNatural ==
    ASSUME NEW kind, NEW j \in Nat, NEW n \in Nat
    PROVE  Behind(kind, j, n) \in Nat
<1> DEFINE S == {k \in j .. n : changes[k] = kind}
<1>1. IsFiniteSet(j .. n)
  BY FS_Interval
<1>2. IsFiniteSet(S)
  BY <1>1, FS_Subset
<1>3. QED
  BY <1>2, FS_CardinalityType DEF Behind

LEMMA OneMoreBehind ==
    ASSUME NEW kind, NEW j \in Nat, NEW n \in Nat, j =< n + 1
    PROVE  Behind(kind, j, n + 1) = Behind(kind, j, n) + (IF changes[n + 1] = kind THEN 1 ELSE 0)
<1> DEFINE S == {k \in j .. n : changes[k] = kind}
           T == {k \in j .. n + 1 : changes[k] = kind}
<1>1. IsFiniteSet(j .. n)
  BY FS_Interval
<1>2. IsFiniteSet(S)
  BY <1>1, FS_Subset
<1>3. n + 1 \notin S
  OBVIOUS
<1>4. Behind(kind, j, n) = Cardinality(S) /\ Behind(kind, j, n + 1) = Cardinality(T)
  BY DEF Behind
<1>5. Cardinality(S) \in Nat
  BY <1>2, FS_CardinalityType
<1> HIDE DEF S, T
<1>6. CASE changes[n + 1] = kind
  <2>1. T = S \cup {n + 1}
    BY <1>6 DEF S, T
  <2>2. Cardinality(T) = Cardinality(S) + 1
    BY <1>2, <1>3, <2>1, FS_AddElement
  <2>3. QED
    BY <1>4, <1>5, <1>6, <2>2
<1>7. CASE changes[n + 1] # kind
  <2>1. T = S
    BY <1>7 DEF S, T
  <2>2. QED
    BY <1>4, <1>5, <1>7, <2>1
<1>8. QED
  BY <1>6, <1>7

LEMMA NothingBehind ==
    ASSUME NEW kind, NEW n \in Nat
    PROVE  Behind(kind, n + 1, n) = 0
<1>1. {k \in n + 1 .. n : changes[k] = kind} = {}
  OBVIOUS
<1>2. QED
  BY <1>1, FS_EmptySet DEF Behind

LEMMA LoopCountsSurplus ==
    ASSUME TypeOK, NEW i \in 1 .. Len(changes), NEW n \in i .. Len(changes)
    PROVE  /\ \A j \in i + 1 .. n + 1 :
                  Behind("push", j, n) =< Behind("pop", j, n) + DepthsBehind(i)[n]
           /\ \E j \in i + 1 .. n + 1 :
                  Behind("push", j, n) = Behind("pop", j, n) + DepthsBehind(i)[n]
<1> DEFINE N == Len(changes)
           d == DepthsBehind(i)
           Most(m) == \A j \in i + 1 .. m + 1 : Behind("push", j, m) =< Behind("pop", j, m) + d[m]
           Some(m) == \E j \in i + 1 .. m + 1 : Behind("push", j, m) = Behind("pop", j, m) + d[m]
           Bad == {m \in i .. N : ~ (Most(m) /\ Some(m))}
<1>1. N \in Nat /\ i \in Nat /\ \A m \in 1 .. N : changes[m] \in {"push", "pop"}
  BY LenProperties, ElementOfSeq DEF TypeOK
<1>2. /\ \A m \in i .. N : d[m] \in Nat
      /\ d[i] = 0
      /\ \A m \in i + 1 .. N : d[m] = IF changes[m] = "push" THEN d[m - 1] + 1
                                      ELSE IF d[m - 1] > 0 THEN d[m - 1] - 1 ELSE 0
  BY LoopCounts
<1>3. SUFFICES ASSUME Bad # {}
               PROVE  FALSE
  OBVIOUS
<1>4. PICK m \in Bad : \A k \in Bad : m =< k
  <2>1. Bad \in SUBSET Nat
    BY <1>1
  <2>2. QED
    BY <1>3, <2>1, FirstOf
<1> HIDE DEF d, N
<1>5. m \in Nat /\ m \in i .. N
  BY <1>1, <1>4
<1>6. m # i
  <2>1. Behind("push", i + 1, i) = 0 /\ Behind("pop", i + 1, i) = 0
    BY <1>1, NothingBehind
  <2>2. \A j \in i + 1 .. i + 1 : j = i + 1
    BY <1>1
  <2>3. i + 1 \in i + 1 .. i + 1
    BY <1>1
  <2>4. Most(i) /\ Some(i)
    BY <1>2, <2>1, <2>2, <2>3
  <2>5. QED
    BY <1>4, <2>4
<1> DEFINE l == m - 1
<1>7. l \in Nat /\ l \in i .. N /\ m = l + 1 /\ m \in i + 1 .. N
  BY <1>1, <1>5, <1>6
<1>8. Most(l) /\ Some(l)
  <2>1. l \notin Bad
    BY <1>4, <1>7
  <2>2. QED
    BY <1>7, <2>1
<1> HIDE DEF Most, Some, Bad, l
<1>9. d[l] \in Nat /\ d[m] \in Nat
  BY <1>2, <1>5, <1>7
<1>10. d[m] = IF changes[m] = "push" THEN d[l] + 1 ELSE IF d[l] > 0 THEN d[l] - 1 ELSE 0
  BY <1>2, <1>7 DEF l
<1>11. changes[m] \in {"push", "pop"}
  BY <1>1, <1>5
<1>12. ASSUME NEW j \in i + 1 .. l + 1
       PROVE  /\ Behind("push", j, l) \in Nat /\ Behind("pop", j, l) \in Nat
              /\ Behind("push", j, m) = Behind("push", j, l) + (IF changes[m] = "push" THEN 1 ELSE 0)
              /\ Behind("pop", j, m) = Behind("pop", j, l) + (IF changes[m] = "push" THEN 0 ELSE 1)
  <2>1. j \in Nat /\ j =< l + 1
    BY <1>1, <1>7
  <2>2. Behind("push", j, l) \in Nat /\ Behind("pop", j, l) \in Nat
    BY <1>7, <2>1, BehindIsNatural
  <2>3. \A kind : Behind(kind, j, m) = Behind(kind, j, l) + (IF changes[m] = kind THEN 1 ELSE 0)
    BY <1>7, <2>1, OneMoreBehind
  <2>4. QED
    BY <1>11, <2>2, <2>3
<1>13. Behind("push", m + 1, m) = 0 /\ Behind("pop", m + 1, m) = 0
  BY <1>5, NothingBehind
<1>14. \A j \in i + 1 .. m + 1 : j \in i + 1 .. l + 1 \/ j = m + 1
  BY <1>1, <1>7
<1>15. Most(m)
  <2>1. ASSUME NEW j \in i + 1 .. l + 1
        PROVE  Behind("push", j, m) =< Behind("pop", j, m) + d[m]
    <3>1. Behind("push", j, l) =< Behind("pop", j, l) + d[l]
      BY <1>8 DEF Most
    <3>2. QED
      BY <1>9, <1>10, <1>12, <3>1
  <2>2. 0 =< 0 + d[m]
    BY <1>9
  <2>3. QED
    BY <1>13, <1>14, <2>1, <2>2 DEF Most
<1>16. Some(m)
  <2>1. CASE changes[m] = "push" \/ d[l] > 0
    <3>1. PICK j \in i + 1 .. l + 1 : Behind("push", j, l) = Behind("pop", j, l) + d[l]
      BY <1>8 DEF Some
    <3>2. Behind("push", j, m) = Behind("pop", j, m) + d[m]
      BY <1>9, <1>10, <1>12, <2>1, <3>1
    <3>3. j \in i + 1 .. m + 1
      BY <1>1, <1>7
    <3>4. QED
      BY <3>2, <3>3 DEF Some
  <2>2. CASE ~ (changes[m] = "push" \/ d[l] > 0)
    <3>1. d[m] = 0
      BY <1>10, <2>2
    <3>2. m + 1 \in i + 1 .. m + 1
      BY <1>1, <1>7
    <3>3. QED
      BY <1>13, <3>1, <3>2 DEF Some
  <2>3. QED
    BY <2>1, <2>2
<1>17. QED
  BY <1>4, <1>15, <1>16 DEF Bad

LEMMA DecidedAsCounted ==
    ASSUME TypeOK, NEW i \in 1 .. Len(changes)
    PROVE  ReplacementSurvives(i) <=> LoopDepth(i) > 0
<1> DEFINE N == Len(changes)
           d == LoopDepth(i)
<1>1. N \in Nat /\ i \in Nat /\ i =< N
  BY LenProperties DEF TypeOK
<1>2. d \in Nat
  BY <1>1, LoopCounts DEF LoopDepth
<1>3. \A kind, j : Cardinality(Later(kind, j)) = Behind(kind, j, N)
  BY DEF Later, Behind
<1>4. \A j \in i + 1 .. N + 1 : Behind("push", j, N) \in Nat /\ Behind("pop", j, N) \in Nat
  BY <1>1, BehindIsNatural
<1>5. /\ \A j \in i + 1 .. N + 1 : Behind("push", j, N) =< Behind("pop", j, N) + d
      /\ \E j \in i + 1 .. N + 1 : Behind("push", j, N) = Behind("pop", j, N) + d
  BY <1>1, LoopCountsSurplus DEF LoopDepth
<1> HIDE DEF N, d
<1>6. ASSUME NEW j \in i + 1 .. N, Behind("push", j, N) > Behind("pop", j, N)
      PROVE  d > 0
  <2>1. j \in i + 1 .. N + 1
    BY <1>1
  <2>2. QED
    BY <1>2, <1>4, <1>5, <1>6, <2>1
<1>7. ASSUME d > 0
      PROVE  \E j \in i + 1 .. N : Behind("push", j, N) > Behind("pop", j, N)
  <2>1. PICK j \in i + 1 .. N + 1 : Behind("push", j, N) = Behind("pop", j, N) + d
    BY <1>5
  <2>2. Behind("push", j, N) > Behind("pop", j, N)
    BY <1>2, <1>4, <1>7, <2>1
  <2>3. Behind("push", N + 1, N) = 0 /\ Behind("pop", N + 1, N) = 0
    BY <1>1, NothingBehind
  <2>4. j # N + 1
    BY <2>2, <2>3
  <2>5. j \in i + 1 .. N
    BY <1>1, <2>4
  <2>6. QED
    BY <2>2, <2>5
<1>8. ReplacementSurvives(i) <=>
          \E j \in i + 1 .. N : Behind("push", j, N) > Behind("pop", j, N)
  BY <1>3 DEF ReplacementSurvives, N
<1>9. QED
  BY <1>6, <1>7, <1>8 DEF d

(***************************************************************************)
(* SurvivesAsCounted: replacementSurvives keeps or drops the last screen   *)
(* as its loop counts, for any number of changes in any order.             *)
(***************************************************************************)
THEOREM CountsAsTheLoop == Spec => []SurvivesAsCounted
<1>1. TypeOK => SurvivesAsCounted
  BY DecidedAsCounted DEF SurvivesAsCounted
<1>2. QED
  BY <1>1, TypeCorrect, PTL

===============================================================================
