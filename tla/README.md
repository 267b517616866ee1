# MyARApplication: a verification project

TLA+ modules beside the Android application `MyARApplication`: models of its
concurrent and stateful parts, TLC configurations that check them on small
instances, and proofs for every value of the constants, checked by TLAPS.
Paths below are relative to
`src/app/src/main/java/com/cj/mobile/myarapplication/` unless they start with `src/`.

## 1. The system

Three screens, started from `MainActivity`: the face screen (camera preview with
filters, face landmarks and 3D ornaments), and two measuring screens.

| Part | State it keeps | Operations | What makes it correct |
|---|---|---|---|
| **Camera session** `ui/CameraUtils.java`, lifecycle of `FaceActivity.java` | static: semaphore `mCameraOpenCloseLock`, `mCameraDevice`, `mCaptureSession`, `mPreviewReader`, background handler | `openCamera`, `closeCamera`, `createCameraPreviewSession`, `mStateCallback`, `onConfigured`; `onResume`, `onPause`, `onDestroy` | every permit is accounted for; open and close exclude each other; no field is left on a closed device; callbacks never outlive their looper; `onPause` ends |
| **Frame pipeline** `OnGetImageListener.java`, `FaceDet.java`, `jni_face_det.cpp` | `mIsComputing`, the frame bitmap, `mInferenceHandler`, `mFaceDet` and the native detector behind it | `initialize`, `onImageAvailable`, the inference task, `deInitialize` | one frame at a time; a frame is not overwritten while read; the detector is not deleted while used; `onPause` leaves nothing running |
| **Render loop** `camera/MyCameraRenderer.java`, `camera/filter/CameraFilter.java` | render thread, window, camera texture, size, filter map and selection; static `PROGRAM`, `CAMERA_RENDER_BUF` | surface callbacks, `run`, `draw`, `release`, `setSelectedFilter` | one renderer goes on; an interrupted one ends; the survivor keeps its texture, buffer, program and filter; a size is taken whole; nobody waits for ever at `synchronized (this)` |
| **Handover of the statics** `FaceActivity.java`, `ui/CameraUtils.java` | static: view, handler, listener and camera id, shared by all instances | start, `onResume`, `onPause`, `onDestroy` of two instances; `setUpCameraOutputs`, `releaseReferences` | the newest instance owns the statics; what its predecessor's late `onDestroy` takes from it is known |
| **Head rotation filter** `FaceActivity.rotateModel` | last angles | one update per detection | filter and mask do not drift apart |
| **Ornament renderer** `util/AccelerometerRenderer.java` | request flag, ornament id, the objects in the container | `setmOrnamentId`, `setBuildMask`, `onRender`, `showMaskModel` | the last choice is built, and no object is forgotten in the container |
| **Face model files** `util/OBJUtils.java`, `util/FileUtils.java` | files on external storage | `buildFaceModel` and the readers | readers never see half a model; not modelled, the code cannot be reached |
| **Sensor measurement** `SensorMeasureActivity.java` | camera, preview, permission, sensor registration, measuring flag | surface and lifecycle callbacks, permission result, start, stop, `onSensorChanged` | no camera is forgotten, the screen has its preview, the sensors report to a measurement on the screen |
| **Two-point measurement** `TwoMeasureActivity.java` | two points with their markers, measuring flag, level, title and hint, camera provider | `handleTap`, button, permission result, sensor and lifecycle callbacks | markers belong to the points; a distance on the screen is that of the marked points |
| **Pure functions** `CameraUtils.chooseOptimalSize`, `BitmapUtils.calculateInSampleSize`, `jni_common/yuv2rgb.cpp`, `rgb2yuv.cpp`, `jni_face_det.cpp`, `detector.h` | none, but for the last results of a detector | | stay inside their planes, in the range of their types, and give back the places they were given |
| Rest | presets, adapters, views, shaders, vendored dlib and miniglog, code nobody calls | | not modelled; `PROJECT.json` gives a reason for each |

How the parts interact on the face screen. `FaceActivity.onResume` makes a
background looper and an inference looper and, if the texture is there, calls
`CameraUtils.openCamera`; otherwise it installs `MyCameraRenderer` as surface
listener, whose `onSurfaceTextureAvailable` opens the camera, makes the preview
session and starts the render thread. The camera service calls `mStateCallback`
on the background looper, the image reader calls `onImageAvailable` there too,
and that posts a task to the inference looper, whose result is posted to the
activity. `onPause` calls `closeCamera`, which takes the semaphore, closes
everything and releases the detector, then both loopers are told to quit and
are joined. `onSurfaceTextureDestroyed` interrupts the render thread without
waiting for it. The ornament sheet writes an id and a flag that the GL thread of the
mask reads; the inference thread leaves the angles of the head there. All
instances of `FaceActivity` share the statics of `CameraUtils`, and the `onDestroy` of
one may come behind the `onResume` of the next.

What is hard here: the two-thread semaphore protocol in which one thread takes a
permit and another gives it back; failures that lose or add a permit; fields
read on one thread and cleared on another; callbacks that arrive after what
they belong to was closed; queues that are drained after the resources of their
tasks were freed; threads that are asked to stop and not waited for; a flag
that is the only lock of a buffer; statics that outlive the instance that set
them; a request flag that is cleared behind the work it asked for; a build that throws
between taking the old object away and adding the new one; two texts and four fields that several
callbacks must keep in step. `PROJECT.json` lists each hazard at its line.

## 2. Modules

| Module | What it is |
|---|---|
| `CameraSession` | the camera session, with the activity and surface callbacks that drive it |
| `CameraSession_proofs` | its inductive invariant and the theorems |
| `FrameSlot` | abstract: a single frame buffer that passes from writer to reader and back |
| `FramePipeline` | the frame pipeline; its property `ImplementsSlot` says that it implements `FrameSlot` |
| `FramePipeline_proofs` | its inductive invariant, the theorems, and the refinement |
| `RenderLoop` | the render threads, their textures and the statics of `CameraFilter` |
| `SensorMeasure` | the sensor measuring screen: camera, preview, permission and sensors |
| `SensorMeasure_proofs` | its inductive invariant and the theorems |
| `RenderLoop_proofs` | the inductive invariant of `RenderLoop` and the theorems |
| `ActivityHandover`, `MCActivityHandover`, `ActivityHandover_proofs` | two and more face screens, one after the other, over the statics of `CameraUtils` |
| `TwoMeasure`, `MCTwoMeasure`, `TwoMeasure_proofs` | the two-point measuring screen |
| `MaskRenderer`, `MCMaskRenderer`, `MaskRenderer_proofs` | the ornament renderer and the filter of the head rotation |
| `YuvRgb`, `FaceImages` | pure operators: colour conversion; sizes and places of images, results of the detectors |
| `Pictures_proofs` | theorems about the operators of these two |

The `MC` modules only define the sets that a `.cfg` cannot write.

Each operation of the code is cut into the steps between which another thread
can be observed: where a field is read again after a test, where a lock is taken
or given back, where a thread waits. Between two such points a handler is one
action. Operators named in a comment as a *Variant* are defective forms of the
operation that follows; nothing in `Next` uses them. `PROJECT.json` pairs each with a
property it breaks, which shows that the property depends on that line of code.

### 2.1 CameraSession

`ui` is where the UI thread is inside a method, `bg` where the background looper is
inside a callback, `service` what the camera service has still to report about
each device (its comment lists the phases). `mCameraOpenCloseLock` is the number
of permits. `OpenAccepted`, `OpenRefused`, `OpenThrows` and `OpenDies` are the four
ways out of `openCamera`, the last one a `SecurityException` or `IllegalArgumentException` that nothing catches.
`createCameraPreviewSession` reads `mCameraDevice` twice, for the request and for the session (`ReaderCreated`, `SessionCreated`),
and each read may find it null or closed. `CloseAcquires` to `CloseReleases` are the statements of
`closeCamera` between which `onDisconnected` can run, the close of the device and the write of `null` behind it among them; `OnOpened`, `OnRefused`,
`OnDropped` release the permit, and `WriteDevice` is the later write of `mCameraDevice`.
An exception nobody catches ends in `ui = "crashed"` with the reason in `crash`;
`NewProcess` starts over with fresh statics.

### 2.2 FramePipeline and FrameSlot

One activity and all its sessions (one `onResume` each). Each session has a
background looper, an inference looper and a task queue; `initThread` is the thread that
runs `initialize`. A frame is a number, `mCroppedBitmap` the frame whose pixels the
bitmap holds (0 while it is written). `mFaceDet` is `"null"` before `initialize`
has finished, `"live"`, or `"released"` when the native detector was deleted while
the field still refers to it. Conversion, scaling and drawing of pixels are left
out. The mask listener is never called, because nothing calls `setIsNeedMask`.

`FrameSlot` has an owner (`free`, `writer`, `queued`, `reader`, or `stuck` for a
flag that nobody will reset) and the content of a buffer that was handed over. The
mapping takes the owner from who has the flag to give back (`Holder`), the content
from the bitmap, and the number of sessions from `session`; so a
buffer is freed only by its reader, and only a new activity starts over.

### 2.3 RenderLoop

One `MyCameraRenderer`. The k-th surface, its thread, its window and its camera
texture are numbered k. `at[t]` is where thread t is in `run`; `context[k]` is the
thread whose GL context texture k belongs to; `PROGRAM` and `CAMERA_RENDER_BUF` record who made
them and whether that thread had been interrupted by then. Three history variables,
`overlapped`, `raced` and `crossed`, are read by properties only. `gwidth` and `gheight` are the two plain fields
they are in the code: the UI thread stores one and then the other (`StoreWidth`, `StoreHeight`), a render thread tests one and then the other, and
each of its two negations reads and writes in two steps (`ReadWidth` to `TakeHeight`). `crossed` says that the newest size was stored, or begun to be
taken, while a thread was between these steps. `monitor` is the thread inside `synchronized (this)`; all threads run the
same renderer, so they share it. The two assignments of `setSelectedFilter` are two steps. A test of `selectedFilter` and the call behind it
are one step, and
so are the statements of a filter's constructor.

### 2.4 SensorMeasure

Every callback of `SensorMeasureActivity` runs on the UI thread and is one action; what
interleaves are the callbacks with the messages still queued for that thread
(`delayed`, `errors`), and the instances of the activity, because the next one may be on the screen
before the last one is destroyed. `camera[i]` is the field: `"null"`, `"served"` while the camera
service serves the object (`connected` is the service's side of it), `"lost"` after an eviction or a
failure. `preview[i]` is `"waiting"` after a `startPreview` without a surface. `late` and
`failed` are history variables for the properties. `onResume` follows
`onRequestPermissionsResult`, and `surfaceChanged` follows `surfaceCreated`, as the framework guarantees.
The distance itself (`onSensorChanged`) is left out.

### 2.5 ActivityHandover

`CameraSession` has one activity and cuts its methods finely; here the methods are coarse and
the activities several. An instance is a number, in the order of their starts; each static of
`CameraUtils` holds the number of the instance that set it, or `Null`. `Pause(finished)` leads
into `closeCamera` and the join of the loopers; `Destroy(i)` is `releaseReferences`, and is
enabled at any time after the pause of a finished instance, whoever is on the screen. `on[d]` is the looper
the callbacks of device `d` come on: that of `mBackgroundHandler` when the open was made, or
the UI looper when this was `null`. `cameras` is the list the platform reports, of each camera its facing and whether it has a
stream configuration map, from which
`setUpCameraOutputs` takes an id or fails by its count of the facings. `openCamera` is accepted, refused, throws a
`CameraAccessException`, or ends the process for want of an id (its other fatal exceptions are in `CameraSession`), and a device that
outlives its looper can be driven away by the next. `dropped`,
`overtaken` and `loadedLate` are history variables for the properties.

### 2.6 TwoMeasure

One action per callback; a tap is one of three actions, refused (with the order of the tests in `Refusal`), a
start, or an end. Lengths are pixels of the view, as whole numbers. A point of the
sensor is kept in pixels of the region it was taken from. The scale to the sensor differs in the two directions (6.17 mm by 4.54 mm is
not 4:3, and `bindPreview` replaces both by what the device reports), so the constants `SENSOR_WIDTH` and `SENSOR_HEIGHT` are in the
distance of two points (`Nearer`). `optics` is the focal length `bindPreview` found; with a long one `calculateDistance` refuses a pair of
points that comes out below 1 mm, and `LongFocus` says how near they then have to be. `provider` is the future of
`ProcessCameraProvider`, which may end after `onPause`, or fail (`ProviderFails`). `result` is the pair of points whose distance was
shown last; the value of the distance is left out.

### 2.7 MaskRenderer

Three threads: the UI thread writes `mOrnamentId` and then the flag, two steps; the GL thread is at `gl` in
`initScene`, `onRender` or `showMaskModel`; the inference thread is `RotateModel`. A parsed object
is a number; `children` is the content of `mContainer`. `BuildThrows` is an exception at any place that may throw,
between the assignment of an ornament and its place in the container too, and leaves what was done until there. `BuildFails` is the catch
that logs its message;
`LogThrows` is the same catch for an exception without a message, where `Log.e` throws in its turn: `initScene` then leaves the container
out of the scene, and
behind `onRender` the GL thread dies and the process with it. `initial` says that the build was called by `initScene`, which does
not clear the flag. `mAccValues` is written and read as one.

### 2.8 YuvRgb, FaceImages

No state and no run: operators for one sample, one pixel, one size, one result, and
the theorems of `Pictures_proofs` about them. `ChooseOptimalSize` has the list of the platform as its argument; `Det`
and `DetectResult` are one call of the native detector, given what dlib found; a path of a landmark model without a file behind it gives
shapes without
parts, of which `getDetectResult2` then reads parts that are not there (`"undefined"`). Loops
appear through the element that is read or written for a pixel, in closed form.

## 3. Runs

| Run | Expected | Bounds | Shows |
|---|---|---|---|
| `camera_session` | pass, 5920 states | 3 opens, faults on | the invariants of section 3.1 and `PauseCompletes` |
| `camera_resume` | violation | 3 opens, no faults | `PreviewStartsOnResume`, the comment at `FaceActivity.java:106-107` |
| `camera_session_closed` | violation | 3 opens, no faults | `ClosedSessionIsIgnored`, the comment at `CameraUtils.java:425` |
| `frame_pipeline` | pass, 22826 states | 3 sessions, 3 frames, faults on | section 3.2 and the refinement |
| `render_loop` | pass, 386520 states | 2 surfaces, 1 filter, 1 size | section 3.3 |
| `sensor_measure` | pass, about 420000 states | 2 instances, 2 late messages, 2 errors each, faults on | section 3.4 |
| `sensor_measure_resumed` | violation | 2 instances, no faults | `MeasuringIsListening`, the comment at `SensorMeasureActivity.java:59` |
| `activity_handover` | pass, 215446 states | 2 instances, 3 opens, 4 camera lists, faults on | section 3.5 |
| `two_measure` | pass, 2877 states | view 100 by 147, marker 10, 4 taps, sensor 19 by 14, `RATIO_4_3` = 0 | section 3.6 |
| `two_measure_marker` | violation | the same | `MarkerIsOnPoint`, the comment at `TwoMeasureActivity.java:266` |
| `mask_renderer` | pass, 60654 states | 2 choices, 4 readings, 4 objects | section 3.7 |
| `mask_ornament` | violation | the same | `ChosenOrnamentIsWorn`, `README.md:3` of the repository |

Why the bounds are enough. Three opens: one that fails or is lost, one that meets the
consequences, one after recovery; a stale session needs two. Three sessions: the
listener's own, one with the stale handler, and one more that finds the flag
already stuck; three frames let a frame be taken, refused and taken again. Two
surfaces: every conflict of the render loop is between a thread and its
predecessor. One filter is enough for a choice to be lost, to the null of a map that is not filled yet or to the filter of the
predecessor; which of several filters is drawn is left to the theorem `SelectionKept`, for any number (with two filters TLC holds the invariants over
1.9 million states, but needs more than the five minutes of a run for the liveness). One size, so that negative and
positive values differ. Two
instances, since a camera has one holder and one rival; two late messages and two errors, so that an old one
and a new one can be queued together. Two instances of the face screen: an instance meets the leftovers of its
predecessor only, because an instance is started only when the last one is paused; three opens, one for each instance
and one more after a failure; camera lists with a usable camera first, last, and not at all, for each of the two reasons: the count of the
facings fails, or the front camera has no stream map. Four taps: two that are too
close to each other, one far away, one outside the region; all states are reached with them. Two choices: the last and the one
before. Four parsed objects: two whole builds, or more that fail; four readings: accepted, turned
away, and one over 180 degrees. `Ornaments` is 0, the length that the list of the
renderer has in this code; the proofs hold for every length.
Deadlock is checked in all runs: where the program may stop, after a crash or at a
bound, a step to the next process or activity follows.

### 3.1 Camera session

`PermitAccounting` is the law of the semaphore: free permits, plus queued first
callbacks, plus opens that will never be answered, plus `closeCamera` at work, make
one, plus one for every connection lost after `onOpened` (those callbacks release a permit
nobody took). From it follow `OpenCloseExclusive` (until a connection is lost),
`CloseWaitsForCallback` (the UI thread blocks only for a queued callback or for ever
after a lost open) and `OpenNeverWaits` (the exception of the 2500 ms time-out cannot happen:
`onPause` has seen every callback before the next open, or never returns; so the time-out is
not a step of the model). `OneAttachedDevice`, `DeadLooperIsQuiet` and `FieldIsNotClosed` say what the
join in `onPause` buys; `ReaderIsClosedFirst` that no image reader is
overwritten. `PauseCompletes` is liveness, and `PauseIsNeverStuck` is what it rests on in every single state. It has two parts:
`PauseHasAStep` (inside `onPause` the guard of its own next step holds, or, where it stands still, that of a step of the looper it
waits for, or the open was lost) and `StepsFollowGuards` (these guards are exactly what ENABLED means).

Two runs end in a violation, each of a statement in the code. The comment in
`onResume` says that over an existing texture the preview is started from there;
only the camera is opened. The comment in `onConfigured` says the camera is already
closed; the test reads the field of the newest camera, so the session of a closed one
passes when another is open, and `setRepeatingRequest` throws.

### 3.2 Frame pipeline

`OneFrameInThePipeline` and `FrameIntact` are what the plain field `mIsComputing` must
provide in place of a lock, over the loopers of all sessions.
`DetectorOutlivesDetection` is the monitor's job. `DetectionGoesOn`: while the session goes on whose looper `initialize` was given (the
first one, or a
later one if `initialize` was slow), the flag is lost to nothing but an exception between its test and the post: whatever the thread of
`initialize`, the detection and
its result do, the next frame finds it free. In a session after that one the post goes to a looper that has quit, and the
flag is lost with the first frame; no line of the repository promises otherwise, and the theorem `StuckForGood` says that it stays lost.
`DeletedDetectorWasOvertaken`: the call through a deleted detector, which the model
reaches, needs a task that `onPause` or a lost camera overtook. `PausedIsQuiet`,
`PauseEnds` and `FrameLeaves` are about the end of a session and of a frame. `NobodyIsStuck`: the UI thread, the two loopers and
the monitor never wait for each other in a circle; only the monitor and the two joins are waited for, and what is waited for can
go on. Its parts are `ThreadsHaveAStep`, of guards, and `StepsFollowGuards`, as above.

### 3.3 Render loop

`OneRenderer`: every thread but that of the present surface has been interrupted, and
no sleep loses it; `InterruptedEnds`: such a thread ends. `TextureLossNeedsOverlap`,
`LossNeedsInterrupt`, `ForeignStaticsWereLate` and `SelectionHolds` say under which
condition each shared thing can be lost, and that without it nothing is. The
losses themselves are reachable: the field `cameraSurfaceTexture` released by an old thread,
a null buffer in a dying thread, a program or buffer made after `release`, a
choice of the user overwritten by the set-up of a thread. Width and height are two fields without a lock, so where the UI thread stores a
size while a render thread takes one, the model reaches what the code does: one field negative, the other not, the test of `:183` never true
again, and the
size never taken until the view is resized once more. `SizeIsWhole` says that only such crossed stores leave fields of
two signs, over both threads and both callbacks; `ResizeIsTaken` that any other size is taken, in both fields, or the surface goes away.
`NoThreadIsStuck`: at `synchronized (this)`, the one place where a render thread waits, it waits for a thread that is
still there, in the block, and can leave it, by the end of the block or by an exception (`MonitorIsGivenBack`); and the guards of all
steps are what ENABLED means (`StepsFollowGuards`), so that fairness is asked for in these states and no others.

### 3.4 Sensor measurement

`NoCameraForgotten`: the camera in use is the one that a field refers to, so no path through the four
callers of `initCamera` and the four of `releaseCamera` leaves a camera that nobody can
release. `BackgroundCameraWasLate`: an instance that is not on the screen has a camera only from
the message of `surfaceCreated` that came behind `onPause` (the model reaches this: nothing
removes the message). `DarkPreviewHasCause`: on the screen, with a surface, the preview runs unless a
call failed, or an error came in, since the last `initCamera` that worked; the error of a camera
that was already released counts, because `errorCallback` does not look at its argument.
`ListeningIsMeasuring`: the sensors report only to an instance that measures on the screen. The converse
is the violated `MeasuringIsListening`: after `onPause` and `onResume`, `isMeasuring` is still set,
the button says "stop", and no listener is registered.

### 3.5 Handover of the statics

`NoSelfWait`: an open whose handler was cleared by a predecessor's `onDestroy` is answered on the UI thread itself, the
thread that waits for the permit in `closeCamera`. The process would wait for itself, if
`createCameraPreviewSession` did not end it before, or the view were not cleared with the
handler. The property says so for every process that has not lost a connection behind `onOpened`. The condition is needed: such a
loss releases a permit nobody took (section 3.1), and when a surface comes twice within one pause, the opens without a close between them can use up
the permits, so that `openCamera` of a resume waits. A proof attempt without the condition
found this; three opens are too few to reach it. `NoIdHasCause`: `openCamera` without a camera id ends the process; this
needs a list of cameras that `setUpCameraOutputs` fails on, or no camera that it takes, or a view that was
cleared. `LeftDetectorHasCause`: `deInitialize` is called through a static, so a cleared listener leaves the native detector
to the garbage collector; the other way to that is an `initialize` that ends behind the last `closeCamera`.

### 3.6 Two-point measurement

`MarkersFollowPoints`: four fields are set by taps and cleared by the button and by the lifecycle, in different places.
`ShownDistanceIsCurrent`: title and hint are written by five methods; whatever order they are
called in, "complete" and a distance stand on the screen only with the two points that the distance was computed from.
The violated `MarkerIsOnPoint` shows that `setMarkerPosition` uses the identifier `RATIO_4_3` as if it were the
ratio: all markers are drawn on the middle line.

### 3.7 Mask and head

`UnbuiltChoiceHasCause`: the flag is cleared behind the build, so a choice made during a build is cleared with
it, and is shown only after the next choice; the property says that this and a failed build are
the only ways to lose one. An exception without a message in `onRender` ends the process; no property is about what is lost with it.
`FilterFollowsMask`: `rotateModel` compares with the angles it last accepted, and these are what the
mask shows, for any sequence of readings; the defect one might expect, a filter
that compares with a reading it has turned away, is the mutant. The price is that a head that moved
by more than 90 degrees between two detections stays lost until it comes back. The violated `ChosenOrnamentIsWorn` shows that no ornament is ever
worn, although the `README.md` of the repository (line 3) names them: the sheet has a list of its own and the renderer's list is never filled.

The type invariants of `CameraSession`, `FramePipeline`, `RenderLoop` and `SensorMeasure` are not among the properties of their runs: they are proved
(section 5).

## 4. Fairness

Each conjunct of a `Fairness` has a name of its own, such as `PauseGoesOn` or `RenderGoesOn(t)`, by which the proofs refer to it.
Weak fairness of the steps of a thread that is inside a method, has a message queued or
runs a loop: the operating system schedules every runnable thread, and a looper
takes its messages in order. `SensorMeasure`, `ActivityHandover`, `TwoMeasure` and
`MaskRenderer` have safety properties only: nothing in them waits for a step of another thread that the properties leave open. No fairness
for the user, the lifecycle, the camera
(frames, disconnects, errors) and `onConfigured`: nothing in the code forces them. A
thread that waits on the semaphore, the monitor or a join is modelled by a disabled step,
so the fairness promises nothing about it until it can go on.

The fairness of a render thread is strong. At every place but one its next step stays enabled until it is taken, so that strong and weak
mean the same; the exception is `synchronized (this)`, which another thread may take again before this one is scheduled. Whoever leaves the
block draws and sleeps (`DRAW_INTERVAL`, `MyCameraRenderer.java:200`) before it comes back, so a waiting thread finds the monitor free for a
whole frame, again and again, and the
assumption is that it gets it. Java does not promise that a monitor is fair; with weak fairness only, TLC and the proofs would allow a
thread to be passed over for ever.

## 5. Proofs

Every theorem holds for any values of the constants that satisfy the assumptions of the
module: bounds are naturals (positive where a first activity, session or surface must exist), `Faults` is a
Boolean, `Instance` of `SensorMeasure` is not empty and does not contain `Nobody`, `CameraLists` are
sequences of cameras, the view of `TwoMeasure` has sizes that 4 and 3 divide, a marker fits into it and taps
lie in it, `Readings` are triples of integers. So the bounds of the runs are not bounds of the proofs.

`CameraSession_proofs`. The invariants are not inductive alone. `IInv` adds, to the
type invariant and the stated properties: `Phases` (where the UI thread can be for a given state of
activity and looper), `Quiet` (no callback is queued or running before an open can have been
made), `Fresh` (devices are used in the order of their numbers, and an open has one left), `Fields` and
`Readers` (what `mCameraDevice` and `mPreviewReader` can refer to), and `Free` (where the
next open can come from, the permit is free). Counting permits needs that a step moves one device between sets, so
the module proves small lemmas on cardinalities first. The step lemmas go through the
actions one by one. Theorems: `TypeCorrect`, `PermitsAccounted`,
`Exclusive`, `PauseWaitsForAnswer`, `NoOpenTimesOut`, `CallbacksConfined`, `OneDeviceAtATime`, `FieldFollowsClosing`,
the action property `ReadersClosed`, and `PauseGoesOnOrWaits`, `PauseNotStuck`: `onPause` is never stuck. This rests on the
permit accounting (at the lock a missing permit is a queued callback or a lost open) and on `DeadLooperIsQuiet`.

`FramePipeline_proofs`. `IInv` is the type invariant with: `Exclusion` (the counting of
`OneFrameInThePipeline` in quantified form: a writer, a waiting task and a reader
exclude one another, and each implies the flag), `FramesKnown`, `HandlerReadOnce` (tasks
are queued only on the looper of `mInferenceHandler`, which is set once), and the
detector's state during a detection. `EndInv`, on top of it, has `SessionsEnd` (what has ended when the activity is paused) and
`DeletedBefore` (a detector deleted before the current session
is not asked in it, because its tasks go to the looper of an earlier one). Theorems: `TypeCorrect`, `OneFrameAtATime`, `FramesIntact`,
`DetectorSafe`, `DetectionKept`, `PauseLeavesNothing`, `DeletionOvertakes`, and `SlotImplemented`: every step of the pipeline is a step of
`FrameSlot` or a stutter under the mapping, proved per action from the
invariant before and after the step. From it follows `StuckForGood`: a flag the camera thread has left set is not reset
until the next listener. `ThreadsAlwaysGo` and `NobodyStuck` (nobody waits in a circle) need `Exclusion` for
the monitor and one more invariant, `QuitBeforeJoin`: a looper that `onPause` joins was told to quit.

`SensorMeasure_proofs`. `IInv` is the type invariant with `NoCameraForgotten`, `BackgroundCameraWasLate`,
`ListeningIsMeasuring`, and in place of `DarkPreviewHasCause` two stronger facts: `ShownHasCamera` (on the screen there is a
camera or a failure) and `PreviewFollowsCamera` (a camera without a failure is served and has its preview, or the
preview waits and there is no surface). The lemma `InitCameraResult` says what `initCamera` leaves behind,
whoever calls it; four actions use it. Theorems: `TypeCorrect`, `CamerasKnown`,
`BackgroundCamerasWereLate`, `DarkPreviewsHaveCauses`, `ListenersMeasure`.

`RenderLoop_proofs`. `IInv` adds to the type invariant and the properties: `Fresh` (threads, windows and
textures are used in the order of their numbers), `LocalRead` (what a thread has read and not yet used),
`BufferHeld` (a thread that draws has a buffer, unless it was interrupted), `Alone` (without an overlap, a thread
at work is the only one), `Equipped` (what a thread has at each place of `run`), `Statics` (who made the program and the buffer),
`MapFilled` and `ChoiceFilled` (the selected filter is in the map, but for a race). On top of it are `MonitorHeld` (`monitor` is the thread
that is in the block, and there is
one at most) and `TakenInTurn` (until stores cross, one thread at most takes a size, and the signs of the two fields say how far it has
come). Theorems: `TypeCorrect`, `OneGoesOn`,
`TextureKept`, `LossesNeedInterrupts`, `StaticsOwned`, `SelectionKept`, `SizesAreWhole`, `ThreadsNotStuck`. The last one proves
`MonitorIsGivenBack` without a hypothesis.

`ActivityHandover_proofs`. `IInv`: `Places` (where the UI thread can be for a state of the newest instance), `StaticsFollow`
(how the statics follow starts, resumes and late destroys; it implies `ShownOwnsStatics`), `CrashHasCause`, `DetectorHasCause`, and, until a
connection is lost,
`OnePermit` (free permits and queued first callbacks, or unanswered opens, make one), `RestIsFree` and `PreviewWillCrash` (an open answered
on the UI looper has a preview behind it that finds no device). Theorems: `TypeCorrect`, `StaticsOwned`,
`NoWaitForItself`, `NoIdExplained`, `DetectorsExplained`.

`TwoMeasure_proofs`. The type invariant and both properties are inductive together, given lemmas that a tap in the region
has its point on the sensor and its marker in the view. Theorems: `TypeCorrect`, `MarkersCorrect`, `DistanceCorrect`.

`MaskRenderer_proofs`. `IInv`: `ContainerInBuild` (what `mContainer` holds at each place of a build), `NoForgottenChild`,
`ChoiceIsAsked` (a choice that no build has gone by is asked for, or has its cause) and `FilterFollowsMask`. Theorems: `TypeCorrect`,
`NothingForgotten`, `ChoicesBuilt`, `FilterCorrect`. `NoForgottenChild` is proved only; no run
checks it.

`Pictures_proofs`, for every sample, size and stride. Colour: `SumsFit` (no overflow of a 32-bit `int`), `MasksCutNothing`,
`EncoderStaysInBytes`, `GrayStaysGray`, `StretchIsExact`, and `ColourSurvives`: a block of four equal pixels that is encoded and decoded
again keeps its colour but for -7..+1 in red, -2..+5 in green and -9..+2 in blue, and these bounds are reached. Planes:
`PlanarReadsStayInside`, `HalfSizeReadsStayInside`,
`ChromaStaysInside`, `FirstPixelClears`. Sizes and results: `ChosenPreview` (the smallest preview that is big enough),
`ResultsAreFresh` (a result never mixes the shapes of two frames, and a pose is undefined exactly if the file of the landmark model is
missing), `FilteredCovers`, `SampledStaysLarge`.
Five theorems are about limits of the code:

- `OddWidthShearsChroma`: for an odd width the semi-planar conversion reads the colours of a row ever further
  from where `WriteYUV` has put them.
- `SideBlocksAreTinted`: a block at the edge of an odd image sums fewer than four pixels, so it is not the average that
  `rgb2yuv.cpp:26` announces. (The comment at `yuv2rgb.cpp:42-44` exchanges the coefficients of red and blue; the code is right.)
- `ColumnsMatch`, `ColumnsFallShort`: the scale 2.5 that `jni_face_det.cpp` puts on a place is right for a preview that is 320 high, and
  marks fall short for a higher one. `RowsDriftLittle` bounds the error of the rounded height.
- `TwinsVanish`: of two equal rectangles the pedestrian filter keeps neither.

Liveness is proved relative to one fact that TLC checks. Fairness promises a step of an action that stays ENABLED (or, the strong one,
becomes ENABLED again and again), and what
ENABLED means is out of this prover's reach. So each of the three modules with fairness writes the guards of its processes down
(`PauseCanStep`, `LooperCanStep`, `BackgroundCanStep`, ...), and `StepsFollowGuards` says that a guard holds in exactly the states where
the action is ENABLED. The theorems have this equivalence as a hypothesis (`FairSpec /\ []StepsFollowGuards => PauseEnds`), and the runs
check it in every state of their instances, as a part of the three invariants above. That some guard does hold whenever a process has work is no
hypothesis: it is proved (`PauseGoesOnOrWaits`, `ThreadsAlwaysGo`, and `MonitorIsGivenBack` in `ThreadsNotStuck`). On top of it, for any number
of opens, sessions, frames and surfaces, the proofs have the argument that the steps taken lead to the end:

- `PauseEndsInTime` (`CameraSession_proofs`): `onPause` from the lock to the join, stage by stage. At the lock and in the join the
  looper has at most a running callback and queued ones; every step of it brings it nearer to idle, and nothing is queued behind
  `closeLock`, because the open that could call back is the one that is waited for.
- `FramesComeOut`, `PausesEnd` (`FramePipeline_proofs`): `Work(s)` is a number from 7 to 0 that says how far the frame of
  session s is from its end: 7 and 6 while it is written, 5 and 4 in the queue, behind a drawing or alone, 3 and 2 while it is read,
  1 for a drawing that is left. `StepOfWork` shows that no step raises it while a frame is there or the reader is
  closed, `BackgroundWorks` and `InferenceWorks` that the thread which has the frame lowers it. This needs two more invariants:
  `QueueForm` (a queue has at most one drawing, then at most one detection, and is empty while a frame is read; `QueueBounded` follows) and
  `ReaderClosed` (no new frame behind `closeReader`). In the join of the background thread the camera may still be lost, but once.
- `InterruptedThreadsEnd`, `ResizesAreTaken` (`RenderLoop_proofs`): a thread is moved by its own steps only (`StepOfThread`), so it goes
  through the places of `run` one after the other. At the monitor it may be passed over: `MonitorComesFree` shows that whoever has it leaves
  the block, and strong
  fairness does the rest. An interrupted thread leaves the loop at the next check, and a thread that is not
  interrupted finds a whole size there and takes it (`WantsAreTaken`), or another thread is at it and ends (`SomeTakingEnds`), or the stores
  cross. The second theorem needs the invariant `Current`: the thread of the surface the view has is neither
  interrupted nor at its end. The loop over the filters is followed step by step, so both have the assumption
  `Filters <= 21`: 21 is the number in the code, and a proof for every number would need an induction over temporal formulas.

Only model-checked: `StepsFollowGuards`, because of the ENABLED in it. Every property of a passing run is also a theorem, the three
invariants of which it is a part, and the five liveness properties, with it as their hypothesis.
Two further limits shape the modules: what a recursive definition computes needs an induction
the installed provers cannot instantiate, and RECURSIVE operators disable the
SMT backend, so no module has them.

## 6. Left out, and why

- Data: pixels, landmarks, shaders, layout, dialogs and logging. No property is about them.
- `mIsComputing` is not volatile; a stale `TRUE` only drops a frame, which is a step that changes nothing.
- What `CameraUtils` may throw inside `onSurfaceTextureAvailable` ends the process; `RenderLoop`
  leaves it to `CameraSession`.
- Concurrent use of the unsynchronised `SparseArray` of filters, beyond lost or missing entries.
- The face model files (`OBJUtils`, `FileUtils`): `buildFaceModel` is called only by the mask listener, which is called only when
  `mIsNeedMask` is set, and `setIsNeedMask` has no caller.
- `SensorMeasureActivity.onSensorChanged` (287-366) and the trigonometry of `calculateDistance`: floating-point
  arithmetic over sensor values, which neither TLC nor the provers compute with. In `TwoMeasure` the
  test for NaN (216-220) cannot succeed for the points a tap makes, and the fading of a marker is layout.
- `configureTransform` and the aspect ratio of the view; the drawing of marks in `OnGetImageListener`: layout.
- The branch of `showMaskModel` that adds an ornament is in `MaskRenderer`, and dead in its run, since the list is empty in this code;
  its `ArrayList` and the camera, lights and materials of the scene are left out.
- OpenGL programs and buffers, lists, views and navigation, the `JNI` wrappers: no state that outlives a call, or generated by hand from
  a fixed table.
- `createCameraPreviewSession` without a parameter, `PedestrianDet` on the Java side and the other code that nothing calls. The
  filter of the pedestrian detector is in `FaceImages`, because it is compiled into the library.
- Vendored libraries: dlib with its examples, tools and bindings, and miniglog. They are about 99 % of the lines of
  C++ under `src/`, so the share of the whole tree that the models map is small, while most state-changing
  code of the application itself is mapped. The application's use of dlib is a detector that may be created, called, deleted, and may fail.

## 7. What is left

1. `onSensorChanged` in scaled integers, against the comments at `SensorMeasureActivity.java:56-57`, `:64` and `:350`: only
   worth its name if the rounding of `float` is modelled too.
2. `render_loop` with three surfaces or two filters: no new conflict is expected, and all its properties are proved for any number (with
`StepsFollowGuards`, and for at most 21 filters, where section 5 says so).
3. Writes of `mAccValues` one by one (a torn read shows one frame with mixed angles).
4. `buildFaceModel` with a crash between any two writes, should `setIsNeedMask` get a caller.
