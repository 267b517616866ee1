------------------------- MODULE MaskRenderer_proofs -------------------------
(***************************************************************************)
(* MaskRenderer for every set of choices and readings, every length of the *)
(* renderer's list and any number of objects.                              *)
(***************************************************************************)
EXTENDS MaskRenderer, TLAPS

USE DEF request, scene, head, history, Null, NoOrnament

\* What has been taken out and what has been put in at each place of a build.
ContainerInBuild ==
    /\ gl \in {"start", "parse", "texture"} => children = {}
    /\ gl = "ornament" => children \subseteq {mMonkey}
    /\ gl \in {"texture", "ornament"} => mMonkey # Null

\* Behind the place where a build reads the id, a choice that it did not go by has
\* left the flag set, and only initScene leaves the flag alone.
ChoiceIsAsked ==
    ui = "idle" /\ gl \in {"leave", "idle"} /\ ~failed /\ ~during /\ built # mOrnamentId =>
        isBuildMask /\ (gl = "leave" => initial)

IInv == /\ TypeOK
        /\ ContainerInBuild
        /\ NoForgottenChild
        /\ ChoiceIsAsked
        /\ FilterFollowsMask

LEMMA InitIInv == Init => IInv
<1> SUFFICES ASSUME Init
             PROVE  IInv
  OBVIOUS
<1>1. TypeOK
  <2>1. <<0, 0, 0>> \in Int \X Int \X Int
    OBVIOUS
  <2>2. last \in Int \X Int \X Int /\ mAccValues \in Int \X Int \X Int /\ rotation \in Int \X Int \X Int
    BY <2>1, Zenon DEF Init
  <2>3. objects \in Nat /\ mMonkey \in 0..objects /\ mOrnament \in 0..objects /\ children \subseteq 1..objects
    <3>1. objects = 0 /\ mMonkey = 0 /\ mOrnament = 0 /\ children = {}
      BY Zenon DEF Init
    <3> QED
      BY <3>1
  <2>4. /\ ui \in {"idle", "chosen"} /\ mOrnamentId \in Choices \union {NoOrnament}
        /\ isBuildMask \in BOOLEAN /\ gl \in GL /\ initial \in BOOLEAN /\ attached \in BOOLEAN
        /\ built \in Choices \union {NoOrnament} /\ failed \in BOOLEAN /\ during \in BOOLEAN
    BY Zenon DEF Init, GL
  <2> QED
    BY <2>2, <2>3, <2>4 DEF TypeOK
<1>2. ContainerInBuild /\ NoForgottenChild /\ ChoiceIsAsked
  BY DEF Init, ContainerInBuild, NoForgottenChild, ChoiceIsAsked
<1>3. FilterFollowsMask
  <2>1. last = <<0, 0, 0>> /\ mAccValues = <<0, 0, 0>>
    BY Zenon DEF Init
  <2>2. last[1] = 0 /\ last[2] = 0 /\ last[3] = 0
    BY <2>1
  <2>3. -last[1] = 0
    <3>1. \A n \in Int : n <= 0 /\ n >= 0 => -n = 0
      OBVIOUS
    <3>2. last[1] \in Int /\ last[1] <= 0 /\ last[1] >= 0
      BY <2>2
    <3> QED
      BY <3>1, <3>2
  <2>4. <<last[3], last[2], -last[1]>> = <<0, 0, 0>>
    BY <2>2, <2>3, Zenon
  <2> QED
    BY <2>1, <2>4 DEF FilterFollowsMask
<1> QED
  BY <1>1, <1>2, <1>3 DEF IInv

LEMMA SetOrnamentIdStep ==
    ASSUME IInv, NEW position \in Choices, SetOrnamentId(position)
    PROVE  IInv'
BY DEF SetOrnamentId, IInv, TypeOK, ContainerInBuild, NoForgottenChild, ChoiceIsAsked,
       FilterFollowsMask

LEMMA SetBuildMaskStep ==
    ASSUME IInv, SetBuildMask
    PROVE  IInv'
<1>1. TypeOK'
  BY DEF SetBuildMask, IInv, TypeOK
<1>2. ChoiceIsAsked'
  BY DEF SetBuildMask, IInv, TypeOK, ChoiceIsAsked, Building, GL
<1>3. ContainerInBuild' /\ NoForgottenChild' /\ FilterFollowsMask'
  BY DEF SetBuildMask, IInv, ContainerInBuild, NoForgottenChild, FilterFollowsMask
<1> QED
  BY <1>1, <1>2, <1>3 DEF IInv

LEMMA BeginBuildStep ==
    ASSUME IInv, BeginBuild
    PROVE  IInv'
<1>1. children' = {}
  BY DEF BeginBuild, IInv, NoForgottenChild
<1>2. TypeOK'
  BY <1>1 DEF BeginBuild, IInv, TypeOK, GL
<1>3. ContainerInBuild' /\ NoForgottenChild'
  BY <1>1 DEF BeginBuild, ContainerInBuild, NoForgottenChild
<1>4. ChoiceIsAsked' /\ FilterFollowsMask'
  BY DEF BeginBuild, IInv, ChoiceIsAsked, FilterFollowsMask
<1> QED
  BY <1>2, <1>3, <1>4 DEF IInv

LEMMA ParseStep ==
    ASSUME IInv, Parse
    PROVE  IInv'
<1>1. children = {} /\ children' = {}
  BY DEF Parse, IInv, ContainerInBuild
<1>2. TypeOK'
  BY <1>1 DEF Parse, IInv, TypeOK, GL
<1>3. ContainerInBuild' /\ NoForgottenChild'
  BY <1>1 DEF Parse, IInv, TypeOK, ContainerInBuild, NoForgottenChild
<1>4. ChoiceIsAsked' /\ FilterFollowsMask'
  BY DEF Parse, IInv, ChoiceIsAsked, FilterFollowsMask
<1> QED
  BY <1>2, <1>3, <1>4 DEF IInv

LEMMA AddMaskStep ==
    ASSUME IInv, AddMask
    PROVE  IInv'
<1>1. children' = {mMonkey} /\ mMonkey # Null /\ mMonkey' = mMonkey
  BY DEF AddMask, IInv, ContainerInBuild
<1>2. mMonkey \in 1..objects
  BY <1>1 DEF IInv, TypeOK
<1>3. TypeOK'
  BY <1>1, <1>2 DEF AddMask, IInv, TypeOK, GL
<1>4. ContainerInBuild' /\ NoForgottenChild'
  BY <1>1 DEF AddMask, ContainerInBuild, NoForgottenChild
<1>5. ChoiceIsAsked' /\ FilterFollowsMask'
  BY DEF AddMask, IInv, ChoiceIsAsked, FilterFollowsMask
<1> QED
  BY <1>3, <1>4, <1>5 DEF IInv

LEMMA AddOrnamentStep ==
    ASSUME IInv, AddOrnament
    PROVE  IInv'
<1>1. children \subseteq {mMonkey} /\ mMonkey' = mMonkey /\ gl' = "leave"
  BY DEF AddOrnament, IInv, ContainerInBuild
<1>2. \/ children' = children /\ mOrnament' = mOrnament /\ objects' = objects
      \/ /\ objects' = objects + 1 /\ mOrnament' = objects + 1
         /\ children' = children \union {objects + 1}
  BY DEF AddOrnament, OrnamentListed
<1>3. /\ objects' \in Nat
      /\ mMonkey' \in 0..objects' /\ mOrnament' \in 0..objects' /\ children' \subseteq 1..objects'
  <2>1. /\ objects \in Nat /\ mMonkey \in 0..objects /\ mOrnament \in 0..objects
        /\ \A c \in children : c \in Int /\ 1 <= c /\ c <= objects
    BY DEF IInv, TypeOK
  <2>2. \A c \in children' : c \in Int /\ 1 <= c /\ c <= objects'
    BY <1>2, <2>1
  <2>3. children' \subseteq 1..objects'
    BY <1>2, <2>1, <2>2
  <2> QED
    BY <1>1, <1>2, <2>1, <2>3
<1>4. TypeOK'
  BY <1>3 DEF AddOrnament, IInv, TypeOK, GL
<1>5. ContainerInBuild' /\ NoForgottenChild'
  BY <1>1, <1>2 DEF ContainerInBuild, NoForgottenChild
<1>6. ChoiceIsAsked' /\ FilterFollowsMask'
  BY DEF AddOrnament, IInv, ChoiceIsAsked, FilterFollowsMask
<1> QED
  BY <1>4, <1>5, <1>6 DEF IInv

LEMMA BuildThrowsStep ==
    ASSUME IInv, BuildThrows, gl' \in {"leave", "idle", "dead"}, initial' \in BOOLEAN
    PROVE  IInv'
<1>1. \/ UNCHANGED <<objects, mOrnament, children>>
      \/ /\ gl = "ornament" /\ objects' = objects + 1 /\ mOrnament' = objects + 1
         /\ children' \in {children, children \union {objects + 1}}
  BY DEF BuildThrows, IInv, TypeOK
<1>2. /\ objects' \in Nat
      /\ mMonkey' \in 0..objects' /\ mOrnament' \in 0..objects' /\ children' \subseteq 1..objects'
  <2>1. /\ objects \in Nat /\ mMonkey \in 0..objects /\ mOrnament \in 0..objects
        /\ \A c \in children : c \in Int /\ 1 <= c /\ c <= objects
        /\ mMonkey' = mMonkey
    BY DEF BuildThrows, IInv, TypeOK
  <2>2. \A c \in children' : c \in Int /\ 1 <= c /\ c <= objects'
    BY <1>1, <2>1
  <2> QED
    BY <1>1, <2>1, <2>2
<1>3. TypeOK'
  BY <1>2 DEF BuildThrows, IInv, TypeOK, GL
<1>4. ContainerInBuild'
  BY DEF ContainerInBuild
<1>5. NoForgottenChild'
  <2>1. mMonkey' = mMonkey
    BY DEF BuildThrows
  <2> QED
    BY <1>1, <2>1 DEF IInv, ContainerInBuild, NoForgottenChild
<1>6. ChoiceIsAsked' /\ FilterFollowsMask'
  BY DEF BuildThrows, IInv, ChoiceIsAsked, FilterFollowsMask
<1> QED
  BY <1>3, <1>4, <1>5, <1>6 DEF IInv

LEMMA BuildFailsStep ==
    ASSUME IInv, BuildFails \/ LogThrows
    PROVE  IInv'
<1>1. gl' \in {"leave", "idle", "dead"} /\ initial' \in BOOLEAN /\ BuildThrows
  BY DEF BuildFails, LogThrows, IInv, TypeOK
<1> QED
  BY <1>1, BuildThrowsStep

LEMMA NewProcessStep ==
    ASSUME IInv, NewProcess
    PROVE  IInv'
<1>1. Init'
  BY Zenon DEF NewProcess, Init
<1>2. (Init => IInv)'
  BY InitIInv, PTL
<1> QED
  BY <1>1, <1>2

LEMMA SceneReadyStep ==
    ASSUME IInv, SceneReady
    PROVE  IInv'
BY DEF SceneReady, IInv, TypeOK, ContainerInBuild, NoForgottenChild, ChoiceIsAsked,
       FilterFollowsMask, GL

LEMMA RequestDoneStep ==
    ASSUME IInv, RequestDone
    PROVE  IInv'
BY DEF RequestDone, IInv, TypeOK, ContainerInBuild, NoForgottenChild, ChoiceIsAsked,
       FilterFollowsMask, GL

LEMMA FrameStep ==
    ASSUME IInv, Frame
    PROVE  IInv'
BY DEF Frame, IInv, TypeOK, ContainerInBuild, NoForgottenChild, ChoiceIsAsked,
       FilterFollowsMask

LEMMA RotateModelStep ==
    ASSUME IInv, NEW reading \in Readings, RotateModel(reading)
    PROVE  IInv'
<1>1. \A i \in {1, 2, 3} : last[i] \in Int /\ reading[i] \in Int
  BY ReadingsAssumption DEF IInv, TypeOK
<1>2. PICK a, b, c \in Int : Filtered(reading) = <<a, b, c>>
  BY <1>1 DEF Filtered, Accepted
<1>3. last' = <<a, b, c>> /\ mAccValues' = <<c, b, -a>>
  BY <1>2 DEF RotateModel
<1>4. TypeOK'
  BY <1>3 DEF RotateModel, IInv, TypeOK
<1>5. FilterFollowsMask'
  BY <1>3 DEF FilterFollowsMask
<1>6. ContainerInBuild' /\ NoForgottenChild' /\ ChoiceIsAsked'
  BY DEF RotateModel, IInv, ContainerInBuild, NoForgottenChild, ChoiceIsAsked
<1> QED
  BY <1>4, <1>5, <1>6 DEF IInv

LEMMA NextIInv == IInv /\ [Next]_vars => IInv'
<1> SUFFICES ASSUME IInv, [Next]_vars
             PROVE  IInv'
  OBVIOUS
<1>1. CASE UNCHANGED vars
  BY <1>1 DEF vars, IInv, TypeOK, ContainerInBuild, NoForgottenChild, ChoiceIsAsked,
              FilterFollowsMask
<1>2. CASE Next
  BY <1>2, SetOrnamentIdStep, SetBuildMaskStep, BeginBuildStep, ParseStep, AddMaskStep,
     AddOrnamentStep, BuildFailsStep, NewProcessStep, SceneReadyStep, RequestDoneStep, FrameStep,
     RotateModelStep
     DEF Next
<1> QED
  BY <1>1, <1>2

\* The invariant of the mask renderer holds in every state.
THEOREM Invariance == Spec => []IInv
BY InitIInv, NextIInv, PTL DEF Spec

\* Every variable keeps its type, and the container holds only parsed objects.
THEOREM TypeCorrect == Spec => []TypeOK
<1>1. IInv => TypeOK
  BY DEF IInv
<1> QED
  BY <1>1, Invariance, PTL

\* No build, failed or not, leaves a mask or an ornament behind that the next build
\* cannot remove (AccelerometerRenderer.java:92-123).
THEOREM NothingForgotten == Spec => []NoForgottenChild
<1>1. IInv => NoForgottenChild
  BY DEF IInv
<1> QED
  BY <1>1, Invariance, PTL

\* A choice is lost only to a build that failed or was running.
THEOREM ChoicesBuilt == Spec => []UnbuiltChoiceHasCause
<1>1. IInv => UnbuiltChoiceHasCause
  BY DEF IInv, ChoiceIsAsked, UnbuiltChoiceHasCause
<1> QED
  BY <1>1, Invariance, PTL

\* The filter of the head rotation and the mask never drift apart.
THEOREM FilterCorrect == Spec => []FilterFollowsMask
<1>1. IInv => FilterFollowsMask
  BY DEF IInv
<1> QED
  BY <1>1, Invariance, PTL

=============================================================================
