---------------------------- MODULE MaskRenderer ----------------------------
(***************************************************************************)
(* util/AccelerometerRenderer.java: the three-dimensional mask over the    *)
(* camera preview.  The UI thread asks for an ornament by writing its id   *)
(* and then the flag isBuildMask; the GL thread tests the flag in          *)
(* onRender, rebuilds the scene with showMaskModel and clears the flag     *)
(* behind that; the inference thread filters the rotations of the head     *)
(* (FaceActivity.rotateModel) and leaves them in mAccValues.               *)
(*                                                                         *)
(* An object that a LoaderOBJ has parsed is a number, counted up.  The     *)
(* files the mask is parsed from are not under the renderer's control, so  *)
(* every build may fail where the code may throw.                          *)
(***************************************************************************)
EXTENDS Integers

CONSTANTS
    Choices,        \* positions in the sheet of FaceActivity
    Ornaments,      \* what mOrnaments.size() of the renderer is
    Readings,       \* rotations of the head: <<x, y, z>> in degrees
    MaxObjects      \* bound: objects parsed in the life of the renderer

ASSUME ChoicesAssumption == Choices \subseteq Nat
ASSUME OrnamentsAssumption == Ornaments \in Nat
ASSUME ReadingsAssumption == Readings \subseteq Int \X Int \X Int
ASSUME MaxObjectsAssumption == MaxObjects \in Nat

VARIABLES
    ui,             \* where the UI thread is in the item listener
    mOrnamentId, isBuildMask,
    gl,             \* where the GL thread is in showMaskModel
    initial,        \* showMaskModel was called by initScene
    attached,       \* mContainer is a child of the scene
    objects,        \* objects parsed so far
    mMonkey, mOrnament,         \* the last objects parsed, or Null
    children,       \* the children of mContainer
    last,           \* lastX, lastY, lastZ
    mAccValues,
    rotation,       \* the rotation of mContainer
    built,          \* history: the id that the last build went by
    failed,         \* history: the last build ended in an exception
    during          \* history: a request came while the last build was running

request == <<ui, mOrnamentId, isBuildMask>>
scene == <<gl, initial, attached, objects, mMonkey, mOrnament, children>>
head == <<last, mAccValues>>
history == <<built, failed, during>>

vars == <<request, scene, head, rotation, history>>

Null == 0
NoOrnament == -1

GL == {"start", "parse", "texture", "ornament", "leave", "idle", "dead"}
Building == gl \in {"parse", "texture", "ornament", "leave"}

\* An exception that nothing catches on the GL thread ends the process.
Alive == gl # "dead"

Init ==
    /\ ui = "idle"
    /\ mOrnamentId = NoOrnament /\ isBuildMask = FALSE
    /\ gl = "start" /\ initial = TRUE /\ attached = FALSE
    /\ objects = 0 /\ mMonkey = Null /\ mOrnament = Null /\ children = {}
    /\ last = <<0, 0, 0>> /\ mAccValues = <<0, 0, 0>> /\ rotation = <<0, 0, 0>>
    /\ built = NoOrnament /\ failed = FALSE /\ during = FALSE

----------------------------------------------------------------------------
(* UI thread: the listener that initOrnamentSheet sets *)

SetOrnamentId(position) ==
    /\ Alive
    /\ ui = "idle"
    /\ mOrnamentId' = position
    /\ ui' = "chosen"
    /\ UNCHANGED <<isBuildMask, scene, head, rotation, history>>

\* Variant: while a build is running the request is taken for the one that began it.
SetBuildMaskUnlessBuilding ==
    /\ Alive
    /\ ui = "chosen"
    /\ isBuildMask' = (isBuildMask \/ ~Building)
    /\ ui' = "idle"
    /\ UNCHANGED <<mOrnamentId, scene, head, rotation, history>>

SetBuildMask ==
    /\ Alive
    /\ ui = "chosen"
    /\ isBuildMask' = TRUE
    /\ during' = (during \/ (Building /\ ~initial))
    /\ ui' = "idle"
    /\ UNCHANGED <<mOrnamentId, scene, head, rotation, built, failed>>

----------------------------------------------------------------------------
(* GL thread: initScene, onRender and showMaskModel *)

\* The call of showMaskModel: what was shown is taken out of the container.
BeginBuild ==
    /\ \/ gl = "start"
       \/ gl = "idle" /\ isBuildMask
    /\ objects < MaxObjects
    /\ children' = children \ {mMonkey, mOrnament}
    /\ gl' = "parse"
    /\ failed' = FALSE /\ during' = FALSE
    /\ UNCHANGED <<request, initial, attached, objects, mMonkey, mOrnament, head,
                   rotation, built>>

Parse ==
    /\ gl = "parse"
    /\ objects' = objects + 1
    /\ mMonkey' = objects + 1
    /\ gl' = "texture"
    /\ UNCHANGED <<request, initial, attached, mOrnament, children, head, rotation, history>>

\* The texture of the face, and the new mask becomes a child.
AddMask ==
    /\ gl = "texture"
    /\ children' = children \union {mMonkey}
    /\ gl' = "ornament"
    /\ UNCHANGED <<request, initial, attached, objects, mMonkey, mOrnament, head,
                   rotation, history>>

OrnamentListed == mOrnamentId >= 0 /\ Ornaments > mOrnamentId

\* mOrnamentId is read again here, whatever the request was that began the build.
AddOrnament ==
    /\ gl = "ornament"
    /\ built' = mOrnamentId
    /\ IF OrnamentListed
         THEN /\ objects' = objects + 1
              /\ mOrnament' = objects + 1
              /\ children' = children \union {objects + 1}
         ELSE UNCHANGED <<objects, mOrnament, children>>
    /\ gl' = "leave"
    /\ UNCHANGED <<request, initial, attached, mMonkey, head, rotation, failed, during>>

\* An exception in showMaskModel.  That of a listed ornament comes before it is
\* parsed, before it becomes a child, or behind that, with its animations.
BuildThrows ==
    /\ gl \in {"parse", "texture"} \/ (gl = "ornament" /\ OrnamentListed)
    /\ IF gl = "ornament"
         THEN /\ objects' \in {objects, objects + 1}
              /\ mOrnament' = IF objects' = objects THEN mOrnament ELSE objects'
              /\ children' \in {children, children \union ({objects'} \ {objects})}
         ELSE UNCHANGED <<objects, mOrnament, children>>
    /\ failed' = TRUE
    /\ UNCHANGED <<request, attached, mMonkey, head, rotation, built, during>>

\* It is caught at the end of showMaskModel, and its message is logged.
BuildFails ==
    /\ BuildThrows
    /\ gl' = "leave"
    /\ UNCHANGED initial

\* It has no message: Log.e throws out of the catch.  initScene catches that one and
\* leaves the container out of the scene; behind onRender nothing catches it.
LogThrows ==
    /\ BuildThrows
    /\ gl' = IF initial THEN "idle" ELSE "dead"
    /\ initial' = FALSE

\* Back in initScene: the container becomes a child of the scene.
SceneReady ==
    /\ gl = "leave" /\ initial
    /\ attached' = TRUE
    /\ initial' = FALSE
    /\ gl' = "idle"
    /\ UNCHANGED <<request, objects, mMonkey, mOrnament, children, head, rotation, history>>

\* Back in onRender: the flag is cleared, whatever was asked for meanwhile.
RequestDone ==
    /\ gl = "leave" /\ ~initial
    /\ isBuildMask' = FALSE
    /\ rotation' = mAccValues
    /\ gl' = "idle"
    /\ UNCHANGED <<ui, mOrnamentId, initial, attached, objects, mMonkey, mOrnament,
                   children, head, history>>

\* onRender without a request.
Frame ==
    /\ gl = "idle" /\ ~isBuildMask
    /\ rotation # mAccValues
    /\ rotation' = mAccValues
    /\ UNCHANGED <<request, scene, head, history>>

----------------------------------------------------------------------------
(* Inference thread: rotateModel *)

Jump(a, b) == a - b > 90 \/ b - a > 90

\* A reading more than 90 degrees from the last accepted one repeats that one.
Accepted(a, b) == IF Jump(a, b) THEN a ELSE b

Filtered(reading) ==
    << Accepted(last[1], reading[1]), Accepted(last[2], reading[2]),
       Accepted(last[3], reading[3]) >>

\* Variant: the fields take every reading.
RotateForgetsJump(reading) ==
    /\ Alive
    /\ LET f == Filtered(reading) IN mAccValues' = <<f[3], f[2], -f[1]>>
    /\ last' = reading
    /\ UNCHANGED <<request, scene, rotation, history>>

RotateModel(reading) ==
    /\ Alive
    /\ LET f == Filtered(reading) IN
          /\ mAccValues' = <<f[3], f[2], -f[1]>>
          /\ last' = f
    /\ UNCHANGED <<request, scene, rotation, history>>

----------------------------------------------------------------------------

\* The process is gone; the user starts the next one.
NewProcess ==
    /\ ~Alive
    /\ ui' = "idle"
    /\ mOrnamentId' = NoOrnament /\ isBuildMask' = FALSE
    /\ gl' = "start" /\ initial' = TRUE /\ attached' = FALSE
    /\ objects' = 0 /\ mMonkey' = Null /\ mOrnament' = Null /\ children' = {}
    /\ last' = <<0, 0, 0>> /\ mAccValues' = <<0, 0, 0>> /\ rotation' = <<0, 0, 0>>
    /\ built' = NoOrnament /\ failed' = FALSE /\ during' = FALSE

Next ==
    \/ \E position \in Choices : SetOrnamentId(position)
    \/ SetBuildMask
    \/ BeginBuild \/ Parse \/ AddMask \/ AddOrnament
    \/ BuildFails \/ LogThrows \/ NewProcess
    \/ SceneReady \/ RequestDone \/ Frame
    \/ \E reading \in Readings : RotateModel(reading)

Spec == Init /\ [][Next]_vars

----------------------------------------------------------------------------
(* Properties *)

\* Every variable has its type; an object in the container is one that was parsed.
TypeOK ==
    /\ ui \in {"idle", "chosen"}
    /\ mOrnamentId \in Choices \union {NoOrnament}
    /\ isBuildMask \in BOOLEAN
    /\ gl \in GL
    /\ initial \in BOOLEAN
    /\ attached \in BOOLEAN
    /\ objects \in Nat
    /\ mMonkey \in 0..objects
    /\ mOrnament \in 0..objects
    /\ children \subseteq 1..objects
    /\ last \in Int \X Int \X Int
    /\ mAccValues \in Int \X Int \X Int
    /\ rotation \in Int \X Int \X Int
    /\ built \in Choices \union {NoOrnament}
    /\ failed \in BOOLEAN
    /\ during \in BOOLEAN

\* However builds fail, the container never holds a mask or an ornament that the
\* fields have forgotten, which no later build could remove
\* (AccelerometerRenderer.java:92-123).
NoForgottenChild == children \subseteq {mMonkey, mOrnament}

\* When nothing is under way and nothing is asked for, the last build went by the
\* last choice, unless that build failed or the request came while it ran and was
\* cleared with it (AccelerometerRenderer.java:79, FaceActivity.java:199-200).
UnbuiltChoiceHasCause ==
    ui = "idle" /\ gl = "idle" /\ ~isBuildMask /\ built # mOrnamentId =>
        failed \/ during

\* The rotation the filter compares the next reading with is the one the renderer
\* was given, in the renderer's order and signs: however many readings it turned
\* away, filter and mask never drift apart (FaceActivity.java:387-407).
FilterFollowsMask == mAccValues = <<last[3], last[2], -last[1]>>

\* README.md:3, "on this face model change faces or add ornaments": after a build
\* that did not fail the mask wears the ornament the build went by.
ChosenOrnamentIsWorn ==
    gl = "idle" /\ ~failed /\ built # NoOrnament => mOrnament \in children

=============================================================================
