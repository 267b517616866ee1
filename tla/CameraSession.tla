--------------------------- MODULE CameraSession ---------------------------
(***************************************************************************)
(* The camera of the face screen: the static state of ui/CameraUtils.java, *)
(* the lifecycle of FaceActivity and the surface callbacks of              *)
(* MyCameraRenderer that drive it.                                         *)
(*                                                                         *)
(* Two threads touch this state.  The UI thread runs the lifecycle and     *)
(* surface callbacks, and onConfigured (a null handler means the looper of *)
(* the calling thread).  The background looper, made by every onResume and *)
(* joined by every onPause, runs mStateCallback.  mCameraOpenCloseLock, a  *)
(* semaphore that starts with one permit, is taken by openCamera on the    *)
(* UI thread and given back by the first callback on the background        *)
(* thread; closeCamera takes it and gives it back on the UI thread.        *)
(*                                                                         *)
(* The camera service is outside src/.  Each call of openCamera opens a    *)
(* device of its own, numbered in the order of the calls; what the service *)
(* has still to tell the process about a device is its state.              *)
(***************************************************************************)
EXTENDS Naturals, FiniteSets

CONSTANTS
    MaxOpens,    \* bound: calls of CameraUtils.openCamera in one process life
    Faults       \* whether the camera service may refuse, fail and disconnect

ASSUME MaxOpensAssumption == MaxOpens \in Nat \ {0}
ASSUME FaultsAssumption == Faults \in BOOLEAN

Device == 1..MaxOpens
Null == 0

VARIABLES
    act,                    \* lifecycle state of FaceActivity
    surface,                \* textureView.isAvailable()
    ui,                     \* where the UI thread is in the method it runs
    crash,                  \* the uncaught exception that ended the process
    looper,                 \* the thread behind mBackgroundHandler
    bg,                     \* where that thread is in mStateCallback
    mCameraOpenCloseLock,   \* permits of the semaphore
    opens,                  \* calls of openCamera so far
    service,                \* the camera service's view of each device
    mCameraDevice,
    mCaptureSession,        \* the device whose session it is, or Null
    mPreviewReader,         \* the device it was made for, or Null
    configuring             \* devices with an onConfigured still to come

vars == <<act, surface, ui, crash, looper, bg, mCameraOpenCloseLock, opens,
          service, mCameraDevice, mCaptureSession, mPreviewReader, configuring>>

activity == <<act, surface>>
lock == mCameraOpenCloseLock
fields == <<mCameraDevice, mCaptureSession, mPreviewReader>>

Act == {"stopped", "paused", "resumed", "destroyed"}
UI == {"idle", "openFromResume", "openFromSurface", "preview", "session",
       "closeLock", "closeCheck", "closeDevice", "closeNull", "closeReader",
       "quit", "join", "crashed"}
Crash == {"none", "openFailed", "noDevice", "closedDevice", "closeRace",
          "closedSession"}
Looper == {"null", "running", "quitting", "dead"}

(***************************************************************************)
(* unused    openCamera was not called for it                              *)
(* opening   connected, onOpened is queued on the background looper        *)
(* refused   not connected, onError is queued                              *)
(* open      connected, onOpened has run                                   *)
(* dropping  connection lost, onDisconnected or onError is queued          *)
(* dropped   closed by onDisconnected or onError after it had been opened  *)
(* closed    closed by closeCamera, or by onError before it was opened     *)
(* orphan    still connected, but the looper of its callbacks has quit     *)
(* evicted   an orphan the service disconnected for a newer client         *)
(* lost      its open will never be answered by a callback                 *)
(***************************************************************************)
Phase == {"unused", "opening", "refused", "open", "dropping", "dropped",
          "closed", "orphan", "evicted", "lost"}

In(phases) == {d \in Device : service[d] \in phases}

InFlight == In({"opening", "refused"})      \* a first callback is queued
Attached == In({"opening", "refused", "open", "dropping"})
Queued == In({"opening", "refused", "dropping"})

Idle == [at |-> "idle", dev |-> Null]

ClosingUI == {"closeCheck", "closeDevice", "closeNull", "closeReader"}

----------------------------------------------------------------------------

Init ==
    /\ act = "stopped"
    /\ surface = FALSE
    /\ ui = "idle"
    /\ crash = "none"
    /\ looper = "null"
    /\ bg = Idle
    /\ mCameraOpenCloseLock = 1
    /\ opens = 0
    /\ service = [d \in Device |-> "unused"]
    /\ mCameraDevice = Null
    /\ mCaptureSession = Null
    /\ mPreviewReader = Null
    /\ configuring = {}

Die(reason) ==
    /\ ui' = "crashed"
    /\ crash' = reason

----------------------------------------------------------------------------
(* The UI thread: entering a callback *)

\* FaceActivity.onResume: startBackgroundThread, then openCamera if the texture
\* is there, else only the surface listener is installed.
Resume ==
    /\ ui = "idle"
    /\ act \in {"stopped", "paused"}
    /\ opens < MaxOpens
    /\ act' = "resumed"
    /\ looper' = "running"
    /\ ui' = IF surface THEN "openFromResume" ELSE "idle"
    /\ UNCHANGED <<surface, crash, bg, lock, opens, service, fields, configuring>>

\* MyCameraRenderer.onSurfaceTextureAvailable, up to the call of openCamera.
SurfaceTextureAvailable ==
    /\ ui = "idle"
    /\ act \in {"paused", "resumed"}
    /\ ~surface
    /\ opens < MaxOpens
    /\ surface' = TRUE
    /\ ui' = "openFromSurface"
    /\ UNCHANGED <<act, crash, looper, bg, lock, opens, service, fields, configuring>>

\* MyCameraRenderer.onSurfaceTextureDestroyed: the camera is left alone.  The
\* platform takes the texture away only from a view that is no longer shown.
SurfaceTextureDestroyed ==
    /\ ui = "idle"
    /\ act = "stopped"
    /\ surface
    /\ surface' = FALSE
    /\ UNCHANGED <<act, ui, crash, looper, bg, lock, opens, service, fields, configuring>>

\* FaceActivity.onPause, up to the acquire of closeCamera.
Pause ==
    /\ ui = "idle"
    /\ act = "resumed"
    /\ act' = "paused"
    /\ ui' = "closeLock"
    /\ UNCHANGED <<surface, crash, looper, bg, lock, opens, service, fields, configuring>>

Stop ==
    /\ ui = "idle"
    /\ act = "paused"
    /\ act' = "stopped"
    /\ UNCHANGED <<surface, ui, crash, looper, bg, lock, opens, service, fields, configuring>>

\* FaceActivity.onDestroy: releaseReferences forgets the view, the handler and
\* the listener; the camera fields of CameraUtils are static and survive.
Destroy ==
    /\ ui = "idle"
    /\ act = "stopped"
    /\ act' = "destroyed"
    /\ surface' = FALSE
    /\ looper' = "null"
    /\ UNCHANGED <<ui, crash, bg, lock, opens, service, fields, configuring>>

\* FaceActivity.onCreate of the next instance: initCamera sets the view again.
Create ==
    /\ ui = "idle"
    /\ act = "destroyed"
    /\ act' = "stopped"
    /\ UNCHANGED <<surface, ui, crash, looper, bg, lock, opens, service, fields, configuring>>

----------------------------------------------------------------------------
(* The UI thread: CameraUtils.openCamera *)

Opening == ui \in {"openFromResume", "openFromSurface"}

AfterOpen == IF ui = "openFromSurface" THEN "preview" ELSE "idle"

\* The device openCamera asks the service for.
Next1 == opens + 1

\* An older device of this process that is still connected loses its connection.
Evict == [d \in Device |-> IF service[d] = "orphan" THEN "evicted" ELSE service[d]]

\* tryAcquire got a permit and CameraManager.openCamera was called: no way out of
\* openCamera gives the permit back.  tryAcquire does not time out: OpenNeverWaits
\* says that the permit is there.
TakePermitAndOpen(svc, phase) ==
    /\ Opening
    /\ lock > 0
    /\ mCameraOpenCloseLock' = lock - 1
    /\ opens' = Next1
    /\ service' = [svc EXCEPT ![Next1] = phase]
    /\ UNCHANGED <<activity, looper, bg, fields, configuring>>

OpenReturns == ui' = AfterOpen /\ UNCHANGED crash

\* The callback for an accepted or refused open is posted to the handler that
\* openCamera passed on; a looper that has quit drops it.
OpenAccepted ==
    /\ TakePermitAndOpen(Evict, IF looper = "running" THEN "opening" ELSE "lost")
    /\ OpenReturns

OpenRefused ==
    /\ Faults
    /\ TakePermitAndOpen(service, IF looper = "running" THEN "refused" ELSE "lost")
    /\ OpenReturns

\* A CameraAccessException is logged.
OpenThrows ==
    /\ Faults
    /\ TakePermitAndOpen(service, "lost")
    /\ OpenReturns

\* Nothing catches a SecurityException (the permission is missing, which openCamera
\* only logs) or an IllegalArgumentException (there is no camera of that name).
OpenDies ==
    /\ Faults
    /\ TakePermitAndOpen(service, "lost")
    /\ Die("openFailed")

----------------------------------------------------------------------------
(* The UI thread: CameraUtils.createCameraPreviewSession(texture), and the    *)
(* session callbacks, which run on the UI looper                              *)

\* createCaptureRequest and then createCaptureSession are called on what the field
\* holds at that moment: null, a device that is closed, one that refuses (logged),
\* or one that works.
DeviceCalls == {"preview", "session"}

PreviewCrashes ==
    /\ ui \in DeviceCalls
    /\ \/ mCameraDevice = Null /\ Die("noDevice")
       \/ /\ mCameraDevice # Null
          /\ service[mCameraDevice] \in {"closed", "dropped"}
          /\ Die("closedDevice")
    /\ UNCHANGED <<activity, looper, bg, lock, opens, service, fields, configuring>>

\* A CameraAccessException; after createCaptureSession the reader is there.
PreviewFails ==
    /\ ui \in DeviceCalls
    /\ mCameraDevice # Null
    /\ service[mCameraDevice] \notin {"closed", "dropped"}
    /\ Faults \/ service[mCameraDevice] \in {"dropping", "evicted"}
    /\ ui' = "idle"
    /\ UNCHANGED <<activity, crash, looper, bg, lock, opens, service, fields, configuring>>

DeviceWorks ==
    /\ mCameraDevice # Null
    /\ service[mCameraDevice] \in {"open", "orphan"}

\* The request, and the new reader.
ReaderCreated ==
    /\ ui = "preview"
    /\ DeviceWorks
    /\ mPreviewReader' = mCameraDevice
    /\ ui' = "session"
    /\ UNCHANGED <<activity, crash, looper, bg, lock, opens, service,
                   mCameraDevice, mCaptureSession, configuring>>

\* The session: its onConfigured comes later.
SessionCreated ==
    /\ ui = "session"
    /\ DeviceWorks
    /\ configuring' = configuring \union {mCameraDevice}
    /\ ui' = "idle"
    /\ UNCHANGED <<activity, crash, looper, bg, lock, opens, service, fields>>

\* onConfigured: ignored when mCameraDevice is null; otherwise the session is
\* kept and setRepeatingRequest is called.  On the session of a closed device
\* that throws an IllegalStateException, which nothing catches.
Configured(d) ==
    /\ ui = "idle"
    /\ d \in configuring
    /\ configuring' = configuring \ {d}
    /\ mCaptureSession' = IF mCameraDevice = Null THEN mCaptureSession ELSE d
    /\ IF mCameraDevice # Null /\ service[d] \in {"closed", "dropped"}
         THEN Die("closedSession")
         ELSE UNCHANGED <<ui, crash>>
    /\ UNCHANGED <<activity, looper, bg, lock, opens, service,
                   mCameraDevice, mPreviewReader>>

ConfigureFailed(d) ==
    /\ Faults
    /\ ui = "idle"
    /\ d \in configuring
    /\ configuring' = configuring \ {d}
    /\ UNCHANGED <<activity, ui, crash, looper, bg, lock, opens, service, fields>>

----------------------------------------------------------------------------
(* The UI thread: CameraUtils.closeCamera, then FaceActivity.stopBackgroundThread *)

\* Variant: the result of a timed tryAcquire is not looked at.
CloseWithoutWaiting ==
    /\ ui = "closeLock"
    /\ mCameraOpenCloseLock' = lock - 1
    /\ mCaptureSession' = Null
    /\ ui' = "closeCheck"
    /\ UNCHANGED <<activity, crash, looper, bg, opens, service, mCameraDevice,
                   mPreviewReader, configuring>>

\* acquire, and the session.
CloseAcquires ==
    /\ ui = "closeLock"
    /\ lock > 0
    /\ mCameraOpenCloseLock' = lock - 1
    /\ mCaptureSession' = Null
    /\ ui' = "closeCheck"
    /\ UNCHANGED <<activity, crash, looper, bg, opens, service, mCameraDevice,
                   mPreviewReader, configuring>>

CloseChecksDevice ==
    /\ ui = "closeCheck"
    /\ ui' = IF mCameraDevice = Null THEN "closeReader" ELSE "closeDevice"
    /\ UNCHANGED <<activity, crash, looper, bg, lock, opens, service, fields, configuring>>

\* The field is read again: onDisconnected may have cleared it since the check.
\* The exception leaves through the finally block, which releases the permit.
CloseClosesDevice ==
    /\ ui = "closeDevice"
    /\ IF mCameraDevice = Null
         THEN /\ Die("closeRace")
              /\ mCameraOpenCloseLock' = lock + 1
              /\ UNCHANGED service
         ELSE /\ service' = [service EXCEPT
                     ![mCameraDevice] = IF @ = "dropped" THEN @ ELSE "closed"]
              /\ ui' = "closeNull"
              /\ UNCHANGED <<crash, lock>>
    /\ UNCHANGED <<activity, looper, bg, opens, fields, configuring>>

\* mCameraDevice = null, whatever a callback has written there since the close.
CloseNullsDevice ==
    /\ ui = "closeNull"
    /\ mCameraDevice' = Null
    /\ ui' = "closeReader"
    /\ UNCHANGED <<activity, crash, looper, bg, lock, opens, service, mCaptureSession,
                   mPreviewReader, configuring>>

\* Variant: closeCamera returns without the release of the finally block.
CloseKeepsPermit ==
    /\ ui = "closeReader"
    /\ mPreviewReader' = Null
    /\ ui' = "quit"
    /\ UNCHANGED <<activity, crash, looper, bg, lock, opens, service, mCameraDevice,
                   mCaptureSession, configuring>>

\* Variant: closeCamera leaves the reader open.
CloseForgetsReader ==
    /\ ui = "closeReader"
    /\ mCameraOpenCloseLock' = lock + 1
    /\ ui' = "quit"
    /\ UNCHANGED <<activity, crash, looper, bg, opens, service, fields, configuring>>

\* The reader, deInitialize of the listener, and the release of the finally block.
CloseReleases ==
    /\ ui = "closeReader"
    /\ mPreviewReader' = Null
    /\ mCameraOpenCloseLock' = lock + 1
    /\ ui' = "quit"
    /\ UNCHANGED <<activity, crash, looper, bg, opens, service, mCameraDevice,
                   mCaptureSession, configuring>>

\* quitSafely: what is queued still runs, what is posted later is dropped.
QuitLooper ==
    /\ ui = "quit"
    /\ looper' = "quitting"
    /\ ui' = "join"
    /\ UNCHANGED <<activity, crash, bg, lock, opens, service, fields, configuring>>

Orphaned == [d \in Device |-> IF service[d] = "open" THEN "orphan" ELSE service[d]]

\* Variant: stopBackgroundThread does not join.
JoinWithoutWaiting ==
    /\ ui = "join"
    /\ looper' = "dead"
    /\ service' = Orphaned
    /\ ui' = "idle"
    /\ UNCHANGED <<activity, crash, bg, lock, opens, fields, configuring>>

\* join returns once the queue is empty and the last callback has returned.
JoinLooper ==
    /\ ui = "join"
    /\ bg.at = "idle"
    /\ Queued = {}
    /\ looper' = "dead"
    /\ service' = Orphaned
    /\ ui' = "idle"
    /\ UNCHANGED <<activity, crash, bg, lock, opens, fields, configuring>>

----------------------------------------------------------------------------
(* The background looper: mStateCallback.  Each callback releases the permit  *)
(* first and writes mCameraDevice afterwards.                                 *)

\* Variant: what is queued is dropped when the looper is told to quit, as by quit().
LooperRunsUntilQuit == ui # "crashed" /\ looper = "running"

LooperRuns == ui # "crashed" /\ looper \in {"running", "quitting"}

\* Variant: the callbacks do not release the permit.
CallbackKeepsPermit(d, phases, phase, then) ==
    /\ LooperRuns
    /\ bg.at = "idle"
    /\ service[d] \in phases
    /\ service' = [service EXCEPT ![d] = phase]
    /\ bg' = [at |-> then, dev |-> d]
    /\ UNCHANGED <<activity, ui, crash, looper, lock, opens, fields, configuring>>

\* One callback, up to the write of mCameraDevice.
RunCallback(d, phases, phase, then) ==
    /\ LooperRuns
    /\ bg.at = "idle"
    /\ service[d] \in phases
    /\ mCameraOpenCloseLock' = lock + 1
    /\ service' = [service EXCEPT ![d] = phase]
    /\ bg' = [at |-> then, dev |-> d]
    /\ UNCHANGED <<activity, ui, crash, looper, opens, fields, configuring>>

OnOpened(d) == RunCallback(d, {"opening"}, "open", "assign")

\* onError of an open that failed: nothing was taken from the other callbacks.
OnRefused(d) == RunCallback(d, {"refused"}, "closed", "clear")

\* onDisconnected, or onError of an open camera: the permit is released again.
OnDropped(d) == RunCallback(d, {"dropping"}, "dropped", "clear")

\* Variant: onDisconnected and onError leave mCameraDevice as it is.
WriteDeviceWhenOpened ==
    /\ LooperRuns
    /\ bg.at # "idle"
    /\ mCameraDevice' = IF bg.at = "assign" THEN bg.dev ELSE mCameraDevice
    /\ bg' = Idle
    /\ UNCHANGED <<activity, ui, crash, looper, lock, opens, service,
                   mCaptureSession, mPreviewReader, configuring>>

\* The rest of the callback: mCameraDevice = cd, or mCameraDevice = null and
\* deInitialize of the listener.
WriteDevice ==
    /\ LooperRuns
    /\ bg.at # "idle"
    /\ mCameraDevice' = IF bg.at = "assign" THEN bg.dev ELSE Null
    /\ bg' = Idle
    /\ UNCHANGED <<activity, ui, crash, looper, lock, opens, service,
                   mCaptureSession, mPreviewReader, configuring>>

----------------------------------------------------------------------------
(* The platform *)

\* The service takes an open camera away, and the looper can still be told.
ServiceDrops(d) ==
    /\ Faults
    /\ ui # "crashed"
    /\ looper = "running"
    /\ service[d] = "open"
    /\ service' = [service EXCEPT ![d] = "dropping"]
    /\ UNCHANGED <<activity, ui, crash, looper, bg, lock, opens, fields, configuring>>

\* A new process after a crash, after the user gave up on a UI thread that no
\* longer answers, or after the system reclaimed a process in the background.
ProcessEnds ==
    \/ ui = "crashed"
    \/ ui = "closeLock" /\ lock = 0
    \/ ui = "idle" /\ act \in {"stopped", "destroyed"}

NewProcess ==
    /\ ProcessEnds
    /\ act' = "stopped"
    /\ surface' = FALSE
    /\ ui' = "idle"
    /\ crash' = "none"
    /\ looper' = "null"
    /\ bg' = Idle
    /\ mCameraOpenCloseLock' = 1
    /\ opens' = 0
    /\ service' = [d \in Device |-> "unused"]
    /\ mCameraDevice' = Null
    /\ mCaptureSession' = Null
    /\ mPreviewReader' = Null
    /\ configuring' = {}

----------------------------------------------------------------------------

OpenStep == OpenAccepted \/ OpenRefused \/ OpenThrows \/ OpenDies

PreviewStep == PreviewCrashes \/ PreviewFails \/ ReaderCreated \/ SessionCreated

CloseStep ==
    \/ CloseAcquires \/ CloseChecksDevice \/ CloseClosesDevice \/ CloseNullsDevice
    \/ CloseReleases \/ QuitLooper \/ JoinLooper

LifecycleStep ==
    \/ Resume \/ Pause \/ Stop \/ Destroy \/ Create
    \/ SurfaceTextureAvailable \/ SurfaceTextureDestroyed

SessionStep == \E d \in Device : Configured(d) \/ ConfigureFailed(d)

LooperStep ==
    \/ \E d \in Device : OnOpened(d) \/ OnRefused(d) \/ OnDropped(d)
    \/ WriteDevice

Next ==
    \/ LifecycleStep \/ OpenStep \/ PreviewStep \/ SessionStep \/ CloseStep
    \/ LooperStep
    \/ \E d \in Device : ServiceDrops(d)
    \/ NewProcess

Spec == Init /\ [][Next]_vars

\* A thread that has something to run runs: the UI thread goes on inside the
\* method it has entered, and the looper takes the next message of its queue.
\* Nothing makes the platform or the user act.
Fairness ==
    /\ WF_vars(OpenStep)
    /\ WF_vars(PreviewStep)
    /\ WF_vars(CloseStep)
    /\ WF_vars(LooperStep)

FairSpec == Spec /\ Fairness

----------------------------------------------------------------------------
(* Properties *)

\* Every variable has its type.
TypeOK ==
    /\ act \in Act
    /\ surface \in BOOLEAN
    /\ ui \in UI
    /\ crash \in Crash
    /\ looper \in Looper
    /\ bg \in [at : {"idle", "assign", "clear"}, dev : Device \union {Null}]
    /\ mCameraOpenCloseLock \in Nat
    /\ opens \in 0..MaxOpens
    /\ service \in [Device -> Phase]
    /\ mCameraDevice \in Device \union {Null}
    /\ mCaptureSession \in Device \union {Null}
    /\ mPreviewReader \in Device \union {Null}
    /\ configuring \in SUBSET Device

Lost == In({"lost"})
Dropped == In({"dropped"})

\* The one permit of mCameraOpenCloseLock is free, or taken by an open whose
\* first callback is queued, or by closeCamera, or gone with an open that will
\* never be answered (CameraUtils.java:282 logs the exception and keeps the
\* permit).  Every connection lost after onOpened adds a permit that nobody
\* took: onDisconnected and onError release unconditionally (:78, :89).
PermitAccounting ==
    mCameraOpenCloseLock + Cardinality(InFlight) + Cardinality(Lost)
        + (IF ui \in ClosingUI THEN 1 ELSE 0)
      = 1 + Cardinality(Dropped)

\* What the semaphore is for: until a connection has been lost, closeCamera is
\* never at work while an open still waits for its first callback.
OpenCloseExclusive ==
    ui \in ClosingUI /\ Dropped = {} => InFlight = {}

\* onPause blocks the UI thread on the semaphore only while a callback that
\* will release it is queued, or after an open that lost the permit for good.
CloseWaitsForCallback ==
    ui = "closeLock" /\ mCameraOpenCloseLock = 0 => InFlight # {} \/ Lost # {}

\* "Time out waiting to lock camera opening." is never thrown, neither by a slow
\* camera nor after an open that kept the permit for good: onPause sees every
\* queued callback before the next open can come, or never returns.
OpenNeverWaits == Opening => mCameraOpenCloseLock > 0

\* At most one device has callbacks outstanding: every open is made on a looper
\* on which no other open was made.
OneAttachedDevice == \A d, e \in Attached : d = e

\* Once stopBackgroundThread has joined the looper, no callback of the camera
\* is queued or half run, so none can touch the statics until the next open.
DeadLooperIsQuiet == looper \in {"null", "dead"} => Attached = {} /\ bg.at = "idle"

\* Outside the two steps in which closeCamera or a callback closes a device and then
\* clears the field, mCameraDevice is never a device that was closed.
FieldIsNotClosed ==
    mCameraDevice # Null /\ bg.at = "idle" /\ ui # "closeNull"
        => service[mCameraDevice] \notin {"closed", "dropped"}

\* An ImageReader is never replaced before closeCamera has closed it.
ReaderIsClosedFirst ==
    [][mPreviewReader' # mPreviewReader
         => mPreviewReader = Null \/ mPreviewReader' = Null]_vars

\* Where onPause stands still until a callback has run: in the acquire of
\* closeCamera, and in the join of stopBackgroundThread.
WaitsForLooper ==
    \/ ui = "closeLock" /\ mCameraOpenCloseLock = 0
    \/ ui = "join" /\ (bg.at # "idle" \/ Queued # {})

\* When onPause has a step of its own to take, and when the looper has.
PauseCanStep ==
    \/ ui = "closeLock" /\ lock > 0
    \/ ui \in ClosingUI \union {"quit"}
    \/ ui = "join" /\ bg.at = "idle" /\ Queued = {}

LooperCanStep == LooperRuns /\ (bg.at # "idle" \/ Queued # {})

\* The fairness of CloseStep and LooperStep is about these states and no others.
StepsFollowGuards ==
    /\ PauseCanStep <=> ENABLED <<CloseStep>>_vars
    /\ LooperCanStep <=> ENABLED <<LooperStep>>_vars

\* Inside onPause, somebody goes on: onPause itself, or, where it stands still, the
\* looper it waits for, unless an open took the permit for good.
PauseHasAStep ==
    ui \in ClosingUI \union {"closeLock", "quit", "join"} =>
      IF WaitsForLooper
        THEN LooperCanStep \/ (ui = "closeLock" /\ Lost # {})
        ELSE PauseCanStep

\* onPause and the looper never wait for each other: whatever callbacks were queued
\* before the acquire and before the join, the thread that runs them is still there,
\* and the steps fairness speaks of can be taken.
PauseIsNeverStuck == StepsFollowGuards /\ PauseHasAStep

\* onPause comes to its end, the looper joined, unless an open was never
\* answered: then the UI thread may wait for ever.
PauseCompletes ==
    (ui = "closeLock" /\ Lost = {}) ~> (ui \in {"idle", "crashed"})

\* FaceActivity.java:106-107: when the texture is already there,
\* onSurfaceTextureAvailable is not called and the camera is opened "and the
\* preview started from here".  So when an activity that is resumed over an
\* available texture has its camera open and nothing is left to run, a session
\* was created for that camera.
PreviewStartsOnResume ==
    /\ act = "resumed" /\ surface
    /\ ui = "idle" /\ bg.at = "idle" /\ configuring = {}
    /\ mCameraDevice # Null /\ service[mCameraDevice] = "open"
    => mPreviewReader = mCameraDevice

\* CameraUtils.java:425, "The camera is already closed": the test of
\* mCameraDevice in onConfigured turns away the session of a closed camera.
ClosedSessionIsIgnored == crash # "closedSession"

=============================================================================
