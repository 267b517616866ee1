-------------------------- MODULE ActivityHandover --------------------------
(***************************************************************************)
(* Several instances of FaceActivity, one after the other, over the static *)
(* state of ui/CameraUtils.java.  MainActivity starts an instance, the     *)
(* user leaves it with the back key, and the platform calls its onDestroy  *)
(* when it finds the time: the next instance may have been resumed by      *)
(* then, and CameraUtils.releaseReferences (314-324) clears the view, the  *)
(* handler and the listener that this next instance has just installed.    *)
(*                                                                         *)
(* CameraSession cuts the callbacks and closeCamera of one activity into   *)
(* their steps.  Here each callback of the camera and closeCamera is one   *)
(* step, waits included, and what is added is who the statics refer to,    *)
(* on which looper a callback comes, and which detector is released.       *)
(***************************************************************************)
EXTENDS Naturals, Sequences

CONSTANTS
    MaxInstances,   \* bound: instances of FaceActivity in one process life
    MaxOpens,       \* bound: calls of openCamera in one process life
    CameraLists,    \* the cameras getCameraIdList may report, in its order
    Faults          \* whether the camera service may refuse, fail and disconnect

ASSUME BoundsAssumption == MaxInstances \in Nat \ {0} /\ MaxOpens \in Nat
ASSUME ListsAssumption ==
    CameraLists \subseteq Seq([facing : {"front", "back", "external"}, streams : BOOLEAN])
ASSUME FaultsAssumption == Faults \in BOOLEAN

Instance == 1..MaxInstances
Device == 1..MaxOpens
Null == 0
UILooper == 0   \* stands for the main looper where the others bear an instance

VARIABLES
    cameras,            \* facing of each camera, and whether it has a stream map
    act,                \* lifecycle state of each instance
    newest,             \* the instance that was started last
    leaving,            \* instances that were finished
    surface,            \* instances whose texture is available
    ui,                 \* where the UI thread is in a callback of the newest one
    crash,              \* the uncaught exception that ended the process
    looper,             \* the background looper of each instance's last onResume
    mTextureView,       \* statics of CameraUtils: the instance they belong to
    mBackgroundHandler,
    mOnGetPreviewListener,
    mCameraId,          \* static: index in cameras
    mCameraOpenCloseLock,
    mCameraDevice,
    opens,              \* calls of openCamera so far
    service,            \* the camera service's view of each device
    on,                 \* the looper the callbacks of each device come on
    mFaceDet,           \* the detector in each instance's listener
    loading,            \* instances whose initialize thread is at work
    dropped,            \* history: a device was lost after its onOpened
    overtaken,          \* history: instances started before a predecessor's onDestroy
    loadedLate          \* history: instances whose detector came behind closeCamera

statics == <<mTextureView, mBackgroundHandler, mOnGetPreviewListener>>
activities == <<act, newest, leaving, surface>>
detectors == <<mFaceDet, loading, loadedLate>>
connections == <<opens, service, on, dropped>>
lock == mCameraOpenCloseLock

vars == <<cameras, activities, ui, crash, looper, statics, mCameraId, lock,
          mCameraDevice, connections, detectors, overtaken>>

Act == {"unborn", "shown", "paused", "destroyed"}
UI == {"idle", "openFromResume", "openFromSurface", "preview", "closing",
       "joining", "crashed"}
Crash == {"none", "noCameraId", "noDevice", "closedDevice"}
Looper == {"none", "running", "dead"}
Detector == {"null", "live", "released"}

(***************************************************************************)
(* unused    openCamera was not called for it                              *)
(* opening   connected, onOpened is queued; refused: onError is queued     *)
(* open      connected; orphan: connected, but its looper has quit         *)
(* evicted   an orphan that a newer client drove away                      *)
(* closed    closed; lost: its open will never be answered by a callback   *)
(***************************************************************************)
Phase == {"unused", "opening", "refused", "open", "orphan", "evicted",
          "closed", "lost"}

InFlight == {d \in Device : service[d] \in {"opening", "refused"}}

----------------------------------------------------------------------------

Init ==
    /\ cameras \in CameraLists
    /\ act = [i \in Instance |-> "unborn"]
    /\ newest = 0
    /\ leaving = {}
    /\ surface = {}
    /\ ui = "idle"
    /\ crash = "none"
    /\ looper = [i \in Instance |-> "none"]
    /\ mTextureView = Null
    /\ mBackgroundHandler = Null
    /\ mOnGetPreviewListener = Null
    /\ mCameraId = Null
    /\ mCameraOpenCloseLock = 1
    /\ mCameraDevice = Null
    /\ opens = 0
    /\ service = [d \in Device |-> "unused"]
    /\ on = [d \in Device |-> UILooper]
    /\ dropped = FALSE
    /\ mFaceDet = [i \in Instance |-> "null"]
    /\ loading = {}
    /\ overtaken = {}
    /\ loadedLate = {}

----------------------------------------------------------------------------
(* Lifecycle and surface callbacks *)

\* Variant: onCreate does not hand the new view to CameraUtils.init.
LaunchKeepsView(i) ==
    /\ ui = "idle"
    /\ i = newest + 1
    /\ newest # 0 => newest \in leaving /\ act[newest] # "shown"
    /\ newest' = i
    /\ act' = [act EXCEPT ![i] = "shown"]
    /\ mBackgroundHandler' = i
    /\ mOnGetPreviewListener' = i
    /\ looper' = [looper EXCEPT ![i] = "running"]
    /\ loading' = loading \union {i}
    /\ UNCHANGED <<cameras, leaving, surface, ui, crash, mCameraId, lock,
                   mTextureView, mCameraDevice, connections, mFaceDet, loadedLate, overtaken>>

\* onCreate with initCamera, and onResume with startBackgroundThread and, the
\* texture not being there, initGetPreviewListener.  The platform runs both
\* without another callback between them.
Launch(i) ==
    /\ ui = "idle"
    /\ i = newest + 1
    /\ newest # 0 => newest \in leaving /\ act[newest] # "shown"
    /\ newest' = i
    /\ act' = [act EXCEPT ![i] = "shown"]
    /\ mTextureView' = i
    /\ mBackgroundHandler' = i
    /\ mOnGetPreviewListener' = i
    /\ looper' = [looper EXCEPT ![i] = "running"]
    /\ loading' = loading \union {i}
    /\ UNCHANGED <<cameras, leaving, surface, ui, crash, mCameraId, lock,
                   mCameraDevice, connections, mFaceDet, loadedLate, overtaken>>

\* onResume of an instance that was paused: its listener exists already.
Resume ==
    /\ ui = "idle"
    /\ newest # 0 /\ newest \notin leaving
    /\ act[newest] = "paused"
    /\ newest \in surface => opens < MaxOpens
    /\ act' = [act EXCEPT ![newest] = "shown"]
    /\ mBackgroundHandler' = newest
    /\ looper' = [looper EXCEPT ![newest] = "running"]
    /\ ui' = IF newest \in surface THEN "openFromResume" ELSE "idle"
    /\ UNCHANGED <<cameras, newest, leaving, surface, crash, mTextureView,
                   mOnGetPreviewListener, mCameraId, lock, mCameraDevice,
                   connections, detectors, overtaken>>

\* onSurfaceTextureAvailable, up to the call of openCamera.
SurfaceTextureAvailable ==
    /\ ui = "idle"
    /\ newest # 0 /\ newest \notin surface
    /\ act[newest] \in {"shown", "paused"}
    /\ opens < MaxOpens
    /\ surface' = surface \union {newest}
    /\ ui' = "openFromSurface"
    /\ UNCHANGED <<cameras, act, newest, leaving, crash, looper, statics, mCameraId,
                   lock, mCameraDevice, connections, detectors, overtaken>>

SurfaceTextureDestroyed(i) ==
    /\ ui = "idle"
    /\ i \in surface /\ act[i] = "paused"
    /\ surface' = surface \ {i}
    /\ UNCHANGED <<cameras, act, newest, leaving, ui, crash, looper, statics, mCameraId,
                   lock, mCameraDevice, connections, detectors, overtaken>>

\* Variant: onPause does not call closeCamera.
PauseKeepsCamera(finished) ==
    /\ ui = "idle"
    /\ newest # 0 /\ act[newest] = "shown"
    /\ act' = [act EXCEPT ![newest] = "paused"]
    /\ leaving' = IF finished THEN leaving \union {newest} ELSE leaving
    /\ ui' = "joining"
    /\ UNCHANGED <<cameras, newest, surface, crash, looper, statics, mCameraId, lock,
                   mCameraDevice, connections, detectors, overtaken>>

\* onPause, up to the acquire of closeCamera; the back key also finishes.
Pause(finished) ==
    /\ ui = "idle"
    /\ newest # 0 /\ act[newest] = "shown"
    /\ act' = [act EXCEPT ![newest] = "paused"]
    /\ leaving' = IF finished THEN leaving \union {newest} ELSE leaving
    /\ ui' = "closing"
    /\ UNCHANGED <<cameras, newest, surface, crash, looper, statics, mCameraId, lock,
                   mCameraDevice, connections, detectors, overtaken>>

\* onDestroy with releaseReferences, whoever the statics belong to by now.
Destroy(i) ==
    /\ ui = "idle"
    /\ i \in leaving /\ act[i] = "paused"
    /\ act' = [act EXCEPT ![i] = "destroyed"]
    /\ surface' = surface \ {i}
    /\ mTextureView' = Null
    /\ mBackgroundHandler' = Null
    /\ mOnGetPreviewListener' = Null
    /\ overtaken' = overtaken \union {j \in Instance : i < j /\ j <= newest}
    /\ UNCHANGED <<cameras, newest, leaving, ui, crash, looper, mCameraId, lock,
                   mCameraDevice, connections, detectors>>

----------------------------------------------------------------------------
(* CameraUtils.openCamera and createCameraPreviewSession *)

Opening == ui \in {"openFromResume", "openFromSurface"}

Facing(k) == cameras[k].facing

\* The loop that counts the facings: the first BACK camera behind a FRONT one
\* adds 1 to a count that does not exist, a NullPointerException (187).
CountingFails ==
    \E k \in DOMAIN cameras :
        /\ Facing(k) = "back"
        /\ \E j \in 1..(k - 1) : Facing(j) = "front"
        /\ \A j \in 1..(k - 1) : Facing(j) # "back"

\* The cameras the second loop does not skip: none without a stream map, and no
\* back camera where there is a front one.
Eligible ==
    {k \in DOMAIN cameras :
        /\ cameras[k].streams
        /\ Facing(k) = "back" => \A j \in DOMAIN cameras : Facing(j) # "front"}

\* setUpCameraOutputs: the first eligible camera, unless an exception it
\* swallows comes first, the one of a null mTextureView (229) among them.
SetUpCameraOutputs ==
    IF CountingFails \/ Eligible = {} \/ mTextureView = Null
      THEN mCameraId
      ELSE CHOOSE k \in Eligible : \A j \in Eligible : k <= j

\* The looper that the callbacks of the new device will come on: a null handler
\* means the looper of the calling thread.
CallbackLooper == IF mBackgroundHandler = Null THEN UILooper ELSE mBackgroundHandler

LooperRuns(l) == l = UILooper \/ looper[l] = "running"

Evict == [d \in Device |-> IF service[d] = "orphan" THEN "evicted" ELSE service[d]]

AfterOpen == IF ui = "openFromSurface" THEN "preview" ELSE "idle"

\* CameraManager.openCamera(null, ...) throws an IllegalArgumentException, which
\* nothing catches.
OpenWithoutId ==
    /\ Opening
    /\ lock > 0
    /\ SetUpCameraOutputs = Null
    /\ mCameraOpenCloseLock' = lock - 1
    /\ ui' = "crashed"
    /\ crash' = "noCameraId"
    /\ UNCHANGED <<cameras, activities, looper, statics, mCameraId, mCameraDevice,
                   connections, detectors, overtaken>>

\* tryAcquire got its permit (OpenFindsPermit) and the service accepted the
\* open, refused it, or threw a CameraAccessException.
OpenCamera(svc, phase) ==
    /\ Opening
    /\ lock > 0
    /\ SetUpCameraOutputs # Null
    /\ mCameraId' = SetUpCameraOutputs
    /\ mCameraOpenCloseLock' = lock - 1
    /\ opens' = opens + 1
    /\ service' = [svc EXCEPT
          ![opens + 1] = IF LooperRuns(CallbackLooper) THEN phase ELSE "lost"]
    /\ on' = [on EXCEPT ![opens + 1] = CallbackLooper]
    /\ ui' = AfterOpen
    /\ UNCHANGED <<cameras, activities, crash, looper, statics, mCameraDevice,
                   dropped, detectors, overtaken>>

OpenStep ==
    \/ OpenWithoutId
    \/ OpenCamera(Evict, "opening")
    \/ Faults /\ OpenCamera(service, "refused")
    \/ Faults /\ OpenCamera(service, "lost")

\* Variant: createCameraPreviewSession returns when there is no device.
PreviewNeedsDevice ==
    /\ ui = "preview"
    /\ ui' = "idle"
    /\ UNCHANGED <<cameras, activities, crash, looper, statics, mCameraId, lock,
                   mCameraDevice, connections, detectors, overtaken>>

\* createCaptureRequest on a null or closed device is not caught; on a connected
\* one the session is made, or a CameraAccessException is logged.
CreatePreviewSession ==
    /\ ui = "preview"
    /\ IF mCameraDevice = Null
         THEN ui' = "crashed" /\ crash' = "noDevice"
         ELSE IF service[mCameraDevice] = "closed"
                THEN ui' = "crashed" /\ crash' = "closedDevice"
                ELSE ui' = "idle" /\ UNCHANGED crash
    /\ UNCHANGED <<cameras, activities, looper, statics, mCameraId, lock,
                   mCameraDevice, connections, detectors, overtaken>>

----------------------------------------------------------------------------
(* CameraUtils.closeCamera and stopBackgroundThread, from onPause *)

\* deInitialize of the listener the static refers to.
DeInitialized ==
    [i \in Instance |->
        IF i = mOnGetPreviewListener /\ mFaceDet[i] = "live" THEN "released" ELSE mFaceDet[i]]

CloseCamera ==
    /\ ui = "closing"
    /\ lock > 0
    /\ service' = [d \in Device |-> IF d = mCameraDevice THEN "closed" ELSE service[d]]
    /\ mCameraDevice' = Null
    /\ mFaceDet' = DeInitialized
    /\ ui' = "joining"
    /\ UNCHANGED <<cameras, activities, crash, looper, statics, mCameraId, lock,
                   opens, on, dropped, loading, loadedLate, overtaken>>

\* quitSafely and join: what is queued on the looper runs first.
StopBackgroundThread ==
    /\ ui = "joining"
    /\ \A d \in InFlight : on[d] # newest
    /\ looper' = [looper EXCEPT ![newest] = "dead"]
    /\ service' = [d \in Device |->
          IF service[d] = "open" /\ on[d] = newest THEN "orphan" ELSE service[d]]
    /\ ui' = "idle"
    /\ UNCHANGED <<cameras, activities, crash, statics, mCameraId, lock,
                   mCameraDevice, opens, on, dropped, detectors, overtaken>>

----------------------------------------------------------------------------
(* mStateCallback, and the thread of initGetPreviewListener *)

\* A callback on the main looper waits until the UI thread is out of its method.
CallbackRuns(d) ==
    /\ ui # "crashed"
    /\ IF on[d] = UILooper THEN ui = "idle" ELSE looper[on[d]] = "running"

OnOpened(d) ==
    /\ CallbackRuns(d)
    /\ service[d] = "opening"
    /\ mCameraOpenCloseLock' = lock + 1
    /\ service' = [service EXCEPT ![d] = "open"]
    /\ mCameraDevice' = d
    /\ UNCHANGED <<cameras, activities, ui, crash, looper, statics, mCameraId,
                   opens, on, dropped, detectors, overtaken>>

\* onError of a refused open; onDisconnected, or onError, of an open camera.
OnGone(d) ==
    /\ CallbackRuns(d)
    /\ \/ service[d] = "refused"
       \/ Faults /\ service[d] = "open"
    /\ mCameraOpenCloseLock' = lock + 1
    /\ service' = [service EXCEPT ![d] = "closed"]
    /\ dropped' = (dropped \/ service[d] = "open")
    /\ mCameraDevice' = Null
    /\ mFaceDet' = DeInitialized
    /\ UNCHANGED <<cameras, activities, ui, crash, looper, statics, mCameraId,
                   opens, on, loading, loadedLate, overtaken>>

\* Whether closeCamera of the last onPause has passed.
ClosedBefore(i) == act[i] \in {"paused", "destroyed"} /\ (i = newest => ui # "closing")

\* initialize has loaded the model, which takes seconds.
Initialized(i) ==
    /\ ui # "crashed"
    /\ i \in loading
    /\ loading' = loading \ {i}
    /\ mFaceDet' = [mFaceDet EXCEPT ![i] = "live"]
    /\ loadedLate' = IF ClosedBefore(i) THEN loadedLate \union {i} ELSE loadedLate
    /\ UNCHANGED <<cameras, activities, ui, crash, looper, statics, mCameraId, lock,
                   mCameraDevice, connections, overtaken>>

----------------------------------------------------------------------------

\* A new process after a crash, after the user gave up on a UI thread that no
\* longer answers, or after the system reclaimed a process in the background.
NewProcess ==
    /\ \/ ui = "crashed"
       \/ ui = "closing" /\ lock = 0
       \/ ui = "idle" /\ \A i \in Instance : act[i] # "shown"
    /\ cameras' = cameras
    /\ act' = [i \in Instance |-> "unborn"]
    /\ newest' = 0
    /\ leaving' = {}
    /\ surface' = {}
    /\ ui' = "idle"
    /\ crash' = "none"
    /\ looper' = [i \in Instance |-> "none"]
    /\ mTextureView' = Null
    /\ mBackgroundHandler' = Null
    /\ mOnGetPreviewListener' = Null
    /\ mCameraId' = Null
    /\ mCameraOpenCloseLock' = 1
    /\ mCameraDevice' = Null
    /\ opens' = 0
    /\ service' = [d \in Device |-> "unused"]
    /\ on' = [d \in Device |-> UILooper]
    /\ dropped' = FALSE
    /\ mFaceDet' = [i \in Instance |-> "null"]
    /\ loading' = {}
    /\ overtaken' = {}
    /\ loadedLate' = {}

Next ==
    \/ \E i \in Instance :
          Launch(i) \/ Destroy(i) \/ SurfaceTextureDestroyed(i) \/ Initialized(i)
    \/ Resume \/ SurfaceTextureAvailable
    \/ \E finished \in BOOLEAN : Pause(finished)
    \/ OpenStep \/ CreatePreviewSession
    \/ CloseCamera \/ StopBackgroundThread
    \/ \E d \in Device : OnOpened(d) \/ OnGone(d)
    \/ NewProcess

Spec == Init /\ [][Next]_vars

----------------------------------------------------------------------------
(* Properties *)

\* Every variable has its type.
TypeOK ==
    /\ cameras \in CameraLists
    /\ act \in [Instance -> Act]
    /\ newest \in Instance \union {0}
    /\ leaving \subseteq Instance
    /\ surface \subseteq Instance
    /\ ui \in UI
    /\ crash \in Crash
    /\ looper \in [Instance -> Looper]
    /\ mTextureView \in Instance \union {Null}
    /\ mBackgroundHandler \in Instance \union {Null}
    /\ mOnGetPreviewListener \in Instance \union {Null}
    /\ mCameraId \in Nat
    /\ mCameraOpenCloseLock \in Nat
    /\ mCameraDevice \in Device \union {Null}
    /\ opens \in 0..MaxOpens
    /\ service \in [Device -> Phase]
    /\ on \in [Device -> Instance \union {UILooper}]
    /\ dropped \in BOOLEAN
    /\ mFaceDet \in [Instance -> Detector]
    /\ loading \subseteq Instance
    /\ overtaken \subseteq Instance
    /\ loadedLate \subseteq Instance

\* The statics never refer to a predecessor of the instance on the screen, and
\* are its own unless the onDestroy of a predecessor came behind its onResume
\* (FaceActivity.java:132, CameraUtils.java:314).
ShownOwnsStatics ==
    \A i \in Instance : act[i] = "shown" =>
        /\ {mTextureView, mBackgroundHandler, mOnGetPreviewListener} \subseteq {i, Null}
        /\ i \notin overtaken =>
              mTextureView = i /\ mBackgroundHandler = i /\ mOnGetPreviewListener = i

\* When closeCamera finds no permit, the first callback that will bring it back
\* is queued on a background looper, or an open was never answered.
CloseIsAnswered ==
    ui = "closing" /\ lock = 0 =>
        \/ \E d \in InFlight : on[d] # UILooper
        \/ \E d \in Device : service[d] = "lost"

\* openCamera finds a permit in any instance: the callback of a predecessor's
\* open never still holds it, so tryAcquire (CameraUtils.java:273) does not
\* time out after a handover either.
OpenFindsPermit == Opening => lock > 0

\* Before a first connection is lost, which leaves a permit too many, the UI thread
\* never waits for a callback on its own looper: an open with a null handler is
\* answered there, but createCameraPreviewSession behind it ends the process
\* (CameraUtils.java:78, 280, 291, 405).
NoSelfWait == ~dropped => CloseIsAnswered /\ OpenFindsPermit

\* openCamera is called without a camera id only when the facings are listed in
\* an order that makes setUpCameraOutputs fail, or list no camera it would take,
\* or when a predecessor's onDestroy has cleared the view.
NoIdHasCause ==
    crash = "noCameraId" => CountingFails \/ Eligible = {} \/ newest \in overtaken

\* The native detector of a destroyed activity is left to the garbage collector
\* (FaceDet.finalize) only if initialize ended behind the last closeCamera, or a
\* predecessor's onDestroy made CameraUtils forget the listener.
LeftDetectorHasCause ==
    \A i \in Instance :
        act[i] = "destroyed" /\ mFaceDet[i] = "live" => i \in overtaken \union loadedLate

=============================================================================
