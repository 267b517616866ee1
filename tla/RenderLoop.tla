------------------------------ MODULE RenderLoop ------------------------------
(***************************************************************************)
(* The camera preview of the face screen: MyCameraRenderer, and the static *)
(* state of CameraFilter it draws with.                                    *)
(*                                                                         *)
(* The UI thread runs the surface callbacks and setSelectedFilter.  Each   *)
(* onSurfaceTextureAvailable starts a render thread with run; the thread   *)
(* of a surface that goes away is interrupted and never joined, so it may  *)
(* still run when the next one starts, over the same fields.  The k-th     *)
(* surface, its thread and the camera texture made for it have number k.   *)
(*                                                                         *)
(* What the renderer asks of CameraUtils is in CameraSession.  OpenGL is   *)
(* outside src/: a thread that got through initGL has a context, a         *)
(* SurfaceTexture belongs to the context of its first updateTexImage, and  *)
(* a window takes one EGL surface.                                         *)
(***************************************************************************)
EXTENDS Naturals, Integers

CONSTANTS
    MaxSurfaces,   \* bound: calls of onSurfaceTextureAvailable in one process
    Filters,       \* the number of filters, 21 in the code
    Size           \* the widths and heights a view can have

ASSUME MaxSurfacesAssumption == MaxSurfaces \in Nat \ {0}
ASSUME FiltersAssumption == Filters \in Nat \ {0}
ASSUME SizeAssumption == Size \subseteq Nat \ {0}

Id == 1..Filters
Surface == 1..MaxSurfaces
Null == 0

VARIABLES
    ui,                     \* where the UI thread is in the callback it runs
    crash,                  \* why the process ended, and which thread ended it
    surface,                \* whether the view has a surface
    made,                   \* the newest surface, and the field renderThread
    window,                 \* of each surface: the thread that draws to it
    cameraSurfaceTexture,   \* the newest camera texture
    context,                \* of each camera texture: the thread it belongs to
    released,               \* the camera textures that were released
    gwidth, gheight,        \* negative until a render thread has taken them
    at,                     \* of each render thread: where it is in run
    local,                  \* of each render thread: a value it has read
    interrupted,            \* the interrupt flags
    monitor,                \* the thread that is in synchronized (this)
    cameraFilterMap,        \* of each filter: the thread that built it
    selectedFilterId,
    selectedFilter,
    pick,                   \* what setSelectedFilter on the UI thread has read
    PROGRAM,                \* who built it, and whether after its interrupt
    CAMERA_RENDER_BUF,      \* the same, and how large it is
    overlapped,             \* history: surfaces that came while a thread still ran
    raced,                  \* history: a filter was chosen during a set-up
    crossed                 \* history: the newest size was stored, or taken, while
                            \* a thread was still taking one

vars == <<ui, crash, surface, made, window, cameraSurfaceTexture, context, released,
          gwidth, gheight, at, local, interrupted, monitor, cameraFilterMap,
          selectedFilterId, selectedFilter, pick, PROGRAM, CAMERA_RENDER_BUF,
          overlapped, raced, crossed>>

view == <<surface, made, overlapped>>
textures == <<cameraSurfaceTexture, context, released>>
filters == <<cameraFilterMap, selectedFilterId, selectedFilter, pick, raced>>
statics == <<PROGRAM, CAMERA_RENDER_BUF>>
size == <<gwidth, gheight, crossed>>
threads == <<at, local, interrupted, monitor>>

SetUp == {"initGL", "fill", "select", "set", "lookup"}
Taking == {"readWidth", "storeWidth", "readHeight", "storeHeight"}
Loop == {"check", "checkHeight", "update", "texture", "draw", "bind"} \union Taking
Storing == {"startHeight", "changeHeight"}
UI == {"idle", "start", "releaseProgram", "releaseBuffer", "pickSet"} \union Storing
Crash == {"none", "window", "noWindow", "texture", "noFilter", "noBuffer"}

NoFilter == [id |-> Null, of |-> Null]
NoProgram == [of |-> Null, late |-> FALSE]
NoBuffer == [of |-> Null, width |-> 0, height |-> 0, late |-> FALSE]
Filter(id) ==
    IF cameraFilterMap[id] = Null THEN NoFilter ELSE [id |-> id, of |-> cameraFilterMap[id]]

Runs == crash.why = "none"
Die(t, reason) == crash' = [why |-> reason, by |-> t]
IsAlive(t) == at[t] \in SetUp \union Loop \union {"finish"}
Moves(t, from, to) ==
    /\ Runs
    /\ at[t] = from
    /\ at' = [at EXCEPT ![t] = to]

----------------------------------------------------------------------------

Init ==
    /\ ui = "idle"
    /\ crash = [why |-> "none", by |-> Null]
    /\ surface = FALSE
    /\ made = 0
    /\ window = [k \in Surface |-> Null]
    /\ cameraSurfaceTexture = Null
    /\ context = [k \in Surface |-> Null]
    /\ released = {}
    /\ gwidth = 0
    /\ gheight = 0
    /\ at = [t \in Surface |-> "new"]
    /\ local = [t \in Surface |-> 0]
    /\ interrupted = {}
    /\ monitor = Null
    /\ cameraFilterMap = [id \in Id |-> Null]
    /\ selectedFilterId = 1
    /\ selectedFilter = NoFilter
    /\ pick = NoFilter
    /\ PROGRAM = NoProgram
    /\ CAMERA_RENDER_BUF = NoBuffer
    /\ overlapped = {}
    /\ raced = FALSE
    /\ crossed = FALSE

----------------------------------------------------------------------------
(* The UI thread *)

UiMoves(from, to) ==
    /\ Runs
    /\ ui = from
    /\ ui' = to

\* gwidth = -width, the first of the two stores of a new size.
StoreWidth ==
    /\ \E width \in Size : gwidth' = -width
    /\ crossed' = (\E t \in Surface : at[t] \in Taking)
    /\ UNCHANGED gheight

\* onSurfaceTextureAvailable: the old thread is interrupted, not waited for.
SurfaceTextureAvailable ==
    /\ UiMoves("idle", "startHeight")
    /\ ~surface
    /\ made < MaxSurfaces
    /\ surface' = TRUE
    /\ made' = made + 1
    /\ interrupted' = interrupted \union {t \in {made} \intersect Surface : IsAlive(t)}
    /\ StoreWidth
    /\ overlapped' = IF \E t \in Surface : IsAlive(t)
                       THEN overlapped \union {made + 1} ELSE overlapped
    /\ UNCHANGED <<crash, window, textures, at, local, monitor, filters, statics>>

\* gheight = -height, in onSurfaceTextureAvailable and onSurfaceTextureSizeChanged.
StoreHeight ==
    /\ UiMoves("changeHeight", "idle") \/ UiMoves("startHeight", "start")
    /\ \E height \in Size : gheight' = -height
    /\ UNCHANGED <<crash, view, window, textures, gwidth, crossed, threads, filters, statics>>

\* Variant: a camera texture that is there is used again.
StartThreadReuses ==
    /\ UiMoves("start", "idle")
    /\ cameraSurfaceTexture' = IF cameraSurfaceTexture = Null THEN made ELSE cameraSurfaceTexture
    /\ at' = [at EXCEPT ![made] = "initGL"]
    /\ UNCHANGED <<crash, view, window, context, released, size, local, interrupted, monitor,
                   filters, statics>>

\* The camera texture is made, and the thread started.
StartThread ==
    /\ UiMoves("start", "idle")
    /\ cameraSurfaceTexture' = made
    /\ at' = [at EXCEPT ![made] = "initGL"]
    /\ UNCHANGED <<crash, view, window, context, released, size, local, interrupted, monitor,
                   filters, statics>>

\* onSurfaceTextureSizeChanged.
SurfaceTextureSizeChanged ==
    /\ UiMoves("idle", "changeHeight")
    /\ surface
    /\ StoreWidth
    /\ UNCHANGED <<crash, view, window, textures, threads, filters, statics>>

\* Variant: the thread is left running.
DestroyedOnlyReleases ==
    /\ UiMoves("idle", "releaseProgram")
    /\ surface
    /\ surface' = FALSE
    /\ UNCHANGED <<crash, made, overlapped, window, textures, size, threads, filters, statics>>

\* onSurfaceTextureDestroyed, up to CameraFilter.release.
SurfaceTextureDestroyed ==
    /\ UiMoves("idle", "releaseProgram")
    /\ surface
    /\ surface' = FALSE
    /\ interrupted' = interrupted \union {t \in {made} : IsAlive(t)}
    /\ UNCHANGED <<crash, made, overlapped, window, textures, size, at, local, monitor,
                   filters, statics>>

ReleaseProgram ==
    /\ UiMoves("releaseProgram", "releaseBuffer")
    /\ PROGRAM' = NoProgram
    /\ UNCHANGED <<crash, view, window, textures, size, threads, filters, CAMERA_RENDER_BUF>>

\* Variant: the buffer is kept for the next surface.
KeepBuffer ==
    /\ UiMoves("releaseBuffer", "idle")
    /\ UNCHANGED <<crash, view, window, textures, size, threads, filters, statics>>

ReleaseBuffer ==
    /\ UiMoves("releaseBuffer", "idle")
    /\ CAMERA_RENDER_BUF' = NoBuffer
    /\ UNCHANGED <<crash, view, window, textures, size, threads, filters, PROGRAM>>

\* setSelectedFilter for a choice of the user: the id and the lookup, then the field.
Pick ==
    /\ UiMoves("idle", "pickSet")
    /\ selectedFilterId' \in Id
    /\ pick' = Filter(selectedFilterId')
    /\ raced' = (raced \/ \E t \in Surface : at[t] \in SetUp)
    /\ UNCHANGED <<crash, view, window, textures, size, threads, cameraFilterMap,
                   selectedFilter, statics>>

PickSet ==
    /\ UiMoves("pickSet", "idle")
    /\ selectedFilter' = pick
    /\ pick' = NoFilter
    /\ UNCHANGED <<crash, view, window, textures, size, threads, cameraFilterMap,
                   selectedFilterId, raced, statics>>

----------------------------------------------------------------------------
(* A render thread, before its loop *)

\* initGL draws to the surface the field has by now.
InitGL(t) ==
    /\ Moves(t, "initGL", "fill")
    /\ surface
    /\ window[made] = Null
    /\ window' = [window EXCEPT ![made] = t]
    /\ local' = [local EXCEPT ![t] = 1]
    /\ UNCHANGED <<ui, crash, view, textures, size, interrupted, monitor, filters, statics>>

\* The surface is gone: EGL_BAD_NATIVE_WINDOW is logged and run goes on.
InitGLWithoutWindow(t) ==
    /\ Moves(t, "initGL", "fill")
    /\ ~surface
    /\ local' = [local EXCEPT ![t] = 1]
    /\ UNCHANGED <<ui, crash, view, window, textures, size, interrupted, monitor, filters, statics>>

\* eglCreateWindowSurface fails: another thread draws to the surface, or it is gone.
InitGLThrows(t) ==
    /\ Runs
    /\ at[t] = "initGL"
    /\ \/ surface /\ window[made] # Null /\ Die(t, "window")
       \/ ~surface /\ Die(t, "noWindow")
    /\ UNCHANGED <<ui, view, window, textures, size, threads, filters, statics>>

HasContext(t) == \E k \in Surface : window[k] = t

\* The constructor of the next filter, and its place in the map.  Without a
\* context no program can be built.
Fill(t) ==
    /\ Moves(t, "fill", IF local[t] = Filters THEN "select" ELSE "fill")
    /\ PROGRAM' = IF PROGRAM = NoProgram /\ HasContext(t)
                    THEN [of |-> t, late |-> t \in interrupted] ELSE PROGRAM
    /\ cameraFilterMap' = [cameraFilterMap EXCEPT ![local[t]] = t]
    /\ local' = [local EXCEPT ![t] = IF local[t] = Filters THEN 0 ELSE @ + 1]
    /\ UNCHANGED <<ui, crash, view, window, textures, size, interrupted, monitor,
                   selectedFilterId, selectedFilter, pick, raced, CAMERA_RENDER_BUF>>

\* setSelectedFilter(selectedFilterId): the argument, then the one field and the other.
SelectRead(t) ==
    /\ Moves(t, "select", "set")
    /\ local' = [local EXCEPT ![t] = selectedFilterId]
    /\ UNCHANGED <<ui, crash, view, window, textures, size, interrupted, monitor,
                   filters, statics>>

SelectSet(t) ==
    /\ Moves(t, "set", "lookup")
    /\ selectedFilterId' = local[t]
    /\ UNCHANGED <<ui, crash, view, window, textures, size, local, interrupted, monitor,
                   cameraFilterMap, selectedFilter, pick, raced, statics>>

\* Variant: a new thread keeps the filter that is selected.
SelectOnce(t) ==
    /\ Moves(t, "lookup", "check")
    /\ selectedFilter' = IF selectedFilter = NoFilter THEN Filter(local[t]) ELSE selectedFilter
    /\ local' = [local EXCEPT ![t] = 0]
    /\ UNCHANGED <<ui, crash, view, window, textures, size, interrupted, monitor,
                   cameraFilterMap, selectedFilterId, pick, raced, statics>>

SelectFilter(t) ==
    /\ Moves(t, "lookup", "check")
    /\ selectedFilter' = Filter(local[t])
    /\ local' = [local EXCEPT ![t] = 0]
    /\ UNCHANGED <<ui, crash, view, window, textures, size, interrupted, monitor,
                   cameraFilterMap, selectedFilterId, pick, raced, statics>>

----------------------------------------------------------------------------
(* A render thread, in its loop *)

\* Variant: the size is taken only by a thread that has not drawn yet.
CheckOnce(t) ==
    /\ Moves(t, "check", IF t \in interrupted THEN "finish"
                         ELSE IF gwidth < 0 /\ context[made] = Null THEN "checkHeight"
                         ELSE "update")
    /\ UNCHANGED <<ui, crash, view, window, textures, size, local, interrupted, monitor,
                   filters, statics>>

\* The head of the loop, and the test of gwidth.
Check(t) ==
    /\ Moves(t, "check", IF t \in interrupted THEN "finish"
                         ELSE IF gwidth < 0 THEN "checkHeight" ELSE "update")
    /\ UNCHANGED <<ui, crash, view, window, textures, size, local, interrupted, monitor,
                   filters, statics>>

\* The test of gheight: from here on the thread takes the size.
CheckHeight(t) ==
    /\ Moves(t, "checkHeight", IF gheight < 0 THEN "readWidth" ELSE "update")
    /\ crossed' = \/ crossed
                  \/ gheight < 0 /\ (ui \in Storing \/ \E u \in Surface : at[u] \in Taking)
    /\ UNCHANGED <<ui, crash, view, window, textures, gwidth, gheight, local, interrupted,
                   monitor, filters, statics>>

\* gwidth = -gwidth, which reads now and writes later.
ReadWidth(t) ==
    /\ Moves(t, "readWidth", "storeWidth")
    /\ local' = [local EXCEPT ![t] = -gwidth]
    /\ UNCHANGED <<ui, crash, view, window, textures, size, interrupted, monitor,
                   filters, statics>>

TakeWidth(t) ==
    /\ Moves(t, "storeWidth", "readHeight")
    /\ gwidth' = local[t]
    /\ local' = [local EXCEPT ![t] = 0]
    /\ UNCHANGED <<ui, crash, view, window, textures, gheight, crossed, interrupted, monitor,
                   filters, statics>>

\* gheight = -gheight, in the same way.
ReadHeight(t) ==
    /\ Moves(t, "readHeight", "storeHeight")
    /\ local' = [local EXCEPT ![t] = -gheight]
    /\ UNCHANGED <<ui, crash, view, window, textures, size, interrupted, monitor,
                   filters, statics>>

\* Variant: the height is turned for the viewport, and not stored.
TakeWidthOnly(t) ==
    /\ Moves(t, "storeHeight", "update")
    /\ local' = [local EXCEPT ![t] = 0]
    /\ UNCHANGED <<ui, crash, view, window, textures, size, interrupted, monitor,
                   filters, statics>>

TakeHeight(t) ==
    /\ Moves(t, "storeHeight", "update")
    /\ gheight' = local[t]
    /\ local' = [local EXCEPT ![t] = 0]
    /\ UNCHANGED <<ui, crash, view, window, textures, gwidth, crossed, interrupted, monitor,
                   filters, statics>>

\* synchronized (this): all threads run the one renderer.
EnterMonitor(t) ==
    /\ Moves(t, "update", "texture")
    /\ monitor = Null
    /\ monitor' = t
    /\ UNCHANGED <<ui, crash, view, window, textures, size, local, interrupted,
                   filters, statics>>

\* Variant: a lock that is not given back.
UpdateKeepsMonitor(t) ==
    /\ Moves(t, "texture", "draw")
    /\ cameraSurfaceTexture \notin released
    /\ context[cameraSurfaceTexture] \in {Null, t}
    /\ context' = [context EXCEPT ![cameraSurfaceTexture] = t]
    /\ UNCHANGED <<ui, crash, view, window, cameraSurfaceTexture, released, size,
                   local, interrupted, monitor, filters, statics>>

\* updateTexImage of the newest texture, by a thread of the right context.
UpdateTexImage(t) ==
    /\ Moves(t, "texture", "draw")
    /\ cameraSurfaceTexture \notin released
    /\ context[cameraSurfaceTexture] \in {Null, t}
    /\ context' = [context EXCEPT ![cameraSurfaceTexture] = t]
    /\ monitor' = Null
    /\ UNCHANGED <<ui, crash, view, window, cameraSurfaceTexture, released, size,
                   local, interrupted, filters, statics>>

\* A released texture, or one of another context: an IllegalStateException,
\* where the loop catches only InterruptedException.
UpdateTexImageThrows(t) ==
    /\ Runs
    /\ at[t] = "texture"
    /\ cameraSurfaceTexture \in released \/ context[cameraSurfaceTexture] \notin {Null, t}
    /\ Die(t, "texture")
    /\ monitor' = Null
    /\ UNCHANGED <<ui, view, window, textures, size, at, local, interrupted, filters, statics>>

\* draw, up to the use of the buffer, which is made anew for another size.
Draw(t) ==
    /\ Moves(t, "draw", "bind")
    /\ selectedFilter # NoFilter
    /\ CAMERA_RENDER_BUF' =
         IF \/ CAMERA_RENDER_BUF.of = Null
            \/ CAMERA_RENDER_BUF.width # gwidth \/ CAMERA_RENDER_BUF.height # gheight
           THEN [of |-> t, width |-> gwidth, height |-> gheight, late |-> t \in interrupted]
           ELSE CAMERA_RENDER_BUF
    /\ UNCHANGED <<ui, crash, view, window, textures, size, local, interrupted, monitor,
                   filters, PROGRAM>>

DrawThrows(t) ==
    /\ Runs
    /\ at[t] = "draw"
    /\ selectedFilter = NoFilter
    /\ Die(t, "noFilter")
    /\ UNCHANGED <<ui, view, window, textures, size, threads, filters, statics>>

\* Variant: the catch block does nothing.
BindSwallows(t) ==
    /\ Moves(t, "bind", "check")
    /\ CAMERA_RENDER_BUF.of # Null
    /\ interrupted' = interrupted \ {t}
    /\ UNCHANGED <<ui, crash, view, window, textures, size, local, monitor, filters, statics>>

\* The rest of draw, and sleep: where that throws, the flag is cleared and the
\* catch block sets it again.
Bind(t) ==
    /\ Moves(t, "bind", "check")
    /\ CAMERA_RENDER_BUF.of # Null
    /\ UNCHANGED <<ui, crash, view, window, textures, size, local, interrupted, monitor, filters, statics>>

\* release came between: the field is read again and is null.
BindThrows(t) ==
    /\ Runs
    /\ at[t] = "bind"
    /\ CAMERA_RENDER_BUF.of = Null
    /\ Die(t, "noBuffer")
    /\ UNCHANGED <<ui, view, window, textures, size, threads, filters, statics>>

\* The end of run releases the texture the field has by now.
Finish(t) ==
    /\ Moves(t, "finish", "ended")
    /\ released' = released \union {cameraSurfaceTexture}
    /\ UNCHANGED <<ui, crash, view, window, cameraSurfaceTexture, context, size,
                   local, interrupted, monitor, filters, statics>>

----------------------------------------------------------------------------

\* The next process, after a crash or when the bound on surfaces is reached.
NewProcess ==
    /\ \/ ~Runs
       \/ /\ ui = "idle" /\ ~surface /\ made = MaxSurfaces
          /\ \A t \in Surface : ~IsAlive(t)
    /\ ui' = "idle"
    /\ crash' = [why |-> "none", by |-> Null]
    /\ surface' = FALSE
    /\ made' = 0
    /\ window' = [k \in Surface |-> Null]
    /\ cameraSurfaceTexture' = Null
    /\ context' = [k \in Surface |-> Null]
    /\ released' = {}
    /\ gwidth' = 0
    /\ gheight' = 0
    /\ at' = [t \in Surface |-> "new"]
    /\ local' = [t \in Surface |-> 0]
    /\ interrupted' = {}
    /\ monitor' = Null
    /\ cameraFilterMap' = [id \in Id |-> Null]
    /\ selectedFilterId' = 1
    /\ selectedFilter' = NoFilter
    /\ pick' = NoFilter
    /\ PROGRAM' = NoProgram
    /\ CAMERA_RENDER_BUF' = NoBuffer
    /\ overlapped' = {}
    /\ raced' = FALSE
    /\ crossed' = FALSE

UiStep == StoreHeight \/ StartThread \/ ReleaseProgram \/ ReleaseBuffer \/ PickSet

RenderStep(t) ==
    \/ InitGL(t) \/ InitGLWithoutWindow(t) \/ InitGLThrows(t) \/ Fill(t)
    \/ SelectRead(t) \/ SelectSet(t) \/ SelectFilter(t)
    \/ Check(t) \/ CheckHeight(t)
    \/ ReadWidth(t) \/ TakeWidth(t) \/ ReadHeight(t) \/ TakeHeight(t)
    \/ EnterMonitor(t) \/ UpdateTexImage(t) \/ UpdateTexImageThrows(t)
    \/ Draw(t) \/ DrawThrows(t) \/ Bind(t) \/ BindThrows(t) \/ Finish(t)

Next ==
    \/ SurfaceTextureAvailable \/ SurfaceTextureSizeChanged \/ SurfaceTextureDestroyed
    \/ Pick \/ UiStep
    \/ \E t \in Surface : RenderStep(t)
    \/ NewProcess

Spec == Init /\ [][Next]_vars

\* Every thread that was started runs on, and the UI thread ends what it began.  That
\* the fairness of a render thread is the strong one matters only at the monitor:
\* whoever leaves it draws and sleeps before it comes back, so a thread that finds it
\* free again and again gets it.
UiGoesOn == WF_vars(UiStep)

RenderGoesOn(t) == SF_vars(RenderStep(t))

Fairness ==
    /\ UiGoesOn
    /\ \A t \in Surface : RenderGoesOn(t)

FairSpec == Spec /\ Fairness

----------------------------------------------------------------------------
(* Properties *)

\* What the fields gwidth and gheight can hold.
Extent == Size \union {-s : s \in Size} \union {0}

\* Every variable has its type.
TypeOK ==
    /\ ui \in UI
    /\ crash \in [why : Crash, by : Surface \union {Null}]
    /\ surface \in BOOLEAN
    /\ made \in Surface \union {0}
    /\ window \in [Surface -> Surface \union {Null}]
    /\ cameraSurfaceTexture \in Surface \union {Null}
    /\ context \in [Surface -> Surface \union {Null}]
    /\ released \in SUBSET Surface
    /\ gwidth \in Extent
    /\ gheight \in Extent
    /\ at \in [Surface -> SetUp \union Loop \union {"new", "finish", "ended"}]
    /\ local \in [Surface -> Id \union Extent]
    /\ interrupted \in SUBSET Surface
    /\ monitor \in Surface \union {Null}
    /\ cameraFilterMap \in [Id -> Surface \union {Null}]
    /\ selectedFilterId \in Id
    /\ {selectedFilter, pick} \subseteq [id : Id \union {Null}, of : Surface \union {Null}]
    /\ PROGRAM \in [of : Surface \union {Null}, late : BOOLEAN]
    /\ CAMERA_RENDER_BUF \in [of : Surface \union {Null}, width : Extent, height : Extent,
                              late : BOOLEAN]
    /\ overlapped \in SUBSET Surface
    /\ raced \in BOOLEAN
    /\ crossed \in BOOLEAN

\* At most one render thread goes on for ever: whoever is not the thread of the
\* surface the view has now is stopping, and no wait between two frames loses the
\* interrupt.
OneRenderer ==
    \A t \in Surface : IsAlive(t) /\ ~(surface /\ t = made) => t \in interrupted

\* A render thread loses its camera texture, or finds it or its window in the
\* hands of another thread, only if it, or its predecessor, was overlapped: a
\* surface that came after the last thread had ended is drawn undisturbed.
TextureLossNeedsOverlap ==
    /\ crash.why \in {"texture", "window"} => overlapped # {}
    /\ overlapped = {} => \A t \in Surface :
         at[t] \in Loop /\ t \notin interrupted => t \notin released

\* The buffer, or the surface to draw to, is taken away only from a thread that has
\* been interrupted before: what the renderer is still needed for is safe from it.
LossNeedsInterrupt ==
    crash.why \in {"noBuffer", "noWindow"} => crash.by \in interrupted

\* A thread that goes on draws with the program and the buffer of its own context,
\* unless its surface came too early or they were made by a predecessor after that
\* had been interrupted: CameraFilter.release does not wait for the thread.
ForeignStaticsWereLate ==
    \A t \in Surface :
      at[t] = "bind" /\ t \notin interrupted /\ overlapped = {} =>
        /\ PROGRAM.of = t \/ PROGRAM.late
        /\ CAMERA_RENDER_BUF.of = t \/ CAMERA_RENDER_BUF.late

\* While no filter is chosen during a set-up, the chosen filter is the one that is
\* drawn with, one is always there, and its programs are of the thread's context.
SelectionHolds ==
    ~raced =>
      /\ crash.why # "noFilter"
      /\ \A t \in Surface :
           at[t] \in Loop /\ t = made /\ overlapped = {} /\ ui # "pickSet"
             => selectedFilter = [id |-> selectedFilterId, of |-> t]

\* Between two callbacks, with no thread at it, width and height are both taken or both
\* still to be taken: the two stores of the UI thread and the two of a render thread
\* leave fields of mixed signs, which the test of the loop passes by for ever, only
\* where they have crossed.
SizeIsWhole ==
    /\ ~crossed
    /\ ui \notin Storing
    /\ \A t \in Surface : at[t] \notin Taking
    => (gwidth < 0 <=> gheight < 0)

\* When each thread has a step to take.  It is in synchronized (this) that a render
\* thread waits for another.
WaitsForMonitor(t) == at[t] = "update" /\ monitor # Null

UiCanStep == Runs /\ ui \in Storing \union {"start", "releaseProgram", "releaseBuffer", "pickSet"}
RenderCanStep(t) == Runs /\ IsAlive(t) /\ ~WaitsForMonitor(t)

\* Fairness is about these states and no others.
StepsFollowGuards ==
    /\ UiCanStep <=> ENABLED <<UiStep>>_vars
    /\ \A t \in Surface :
         /\ RenderCanStep(t) <=> ENABLED <<RenderStep(t)>>_vars

\* Whoever waits for the monitor waits for a thread that is still there, in the block,
\* and does not wait itself.
MonitorIsGivenBack ==
    Runs => \A t \in Surface : WaitsForMonitor(t) =>
              at[monitor] = "texture" /\ RenderCanStep(monitor)

\* The render threads never wait for each other in a circle, or for one that has ended,
\* and everywhere else a thread goes on, whatever the others did to the fields it reads.
NoThreadIsStuck == StepsFollowGuards /\ MonitorIsGivenBack

\* A thread that was interrupted ends, whatever it was doing.
InterruptedEnds ==
    \A t \in Surface : t \in interrupted ~> (at[t] \in {"ended", "new"} \/ ~Runs)

\* A new size is taken by the render loop, unless its surface goes away, or the stores
\* of the two threads have crossed.
ResizeIsTaken ==
    (gwidth < 0 \/ gheight < 0) /\ surface
      ~> (gwidth >= 0 /\ gheight >= 0) \/ crossed \/ ~surface \/ ~Runs

=============================================================================
