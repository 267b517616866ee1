---------------------------- MODULE SensorMeasure ----------------------------
(***************************************************************************)
(* SensorMeasureActivity: who holds the camera, whether its preview runs,  *)
(* and whether a measurement gets sensor events.  Every callback runs on   *)
(* the UI thread and is one action.  What makes it hard is what is still   *)
(* queued for that thread when the activity has gone on: the initCamera    *)
(* that surfaceCreated posts 300 ms ahead, and the errors of a camera.     *)
(* Instances of the activity overlap: the next one may be on the screen    *)
(* before the last one is destroyed, and messages outlive their instance.  *)
(***************************************************************************)
EXTENDS Integers, Sequences

CONSTANTS
    Instance,       \* instances of the activity
    Nobody,         \* not an instance
    MaxDelayed,     \* the delayed initCamera messages queued at a time
    MaxErrors,      \* the onError messages queued for an instance at a time
    Faults          \* whether cameras fail and surfaces come in odd sizes

ASSUME InstanceAssumption == Instance # {} /\ Nobody \notin Instance
ASSUME BoundsAssumption == MaxDelayed \in Nat /\ MaxErrors \in Nat
ASSUME FaultsAssumption == Faults \in BOOLEAN

VARIABLES
    act,            \* act[i]: where instance i is in its lifecycle
    granted,        \* the camera permission
    asking,         \* the instances whose permission dialog is not answered
    surface,        \* the instances whose SurfaceView has a surface
    delayed,        \* the instances whose delayed initCamera is due, in order
    late,           \* the instances that a delayed initCamera found paused
    camera,         \* camera[i]: the field camera is null, or the object is served
                    \* by the camera service, or it has lost the camera
    connected,      \* the instance whose camera object the service serves
    preview,        \* preview[i]: what startPreview has led to
    failed,         \* the instances that met a failure since a good initCamera
    errors,         \* errors[i]: the onError messages queued for i
    isMeasuring,    \* the instances whose field isMeasuring is set
    listening       \* the instances registered as sensor listeners

life == <<act, granted, asking, surface, late>>
held == <<camera, connected, preview, failed, errors>>
measurement == <<isMeasuring, listening>>
vars == <<life, delayed, held, measurement>>

Act == {"starting", "resumed", "paused", "destroyed"}
Camera == {"null", "served", "lost"}
Preview == {"off", "waiting", "on"}

Init ==
    /\ act = [i \in Instance |-> "destroyed"]
    /\ granted \in BOOLEAN
    /\ asking = {}
    /\ surface = {}
    /\ delayed = <<>>
    /\ late = {}
    /\ camera = [i \in Instance |-> "null"]
    /\ connected = Nobody
    /\ preview = [i \in Instance |-> "off"]
    /\ failed = {}
    /\ errors = [i \in Instance |-> 0]
    /\ isMeasuring = {}
    /\ listening = {}

------------------------------------------------------------------------------
(* initCamera and releaseCamera *)

\* Variant: without camera.release().
ReleaseForgets(i) ==
    /\ camera' = [camera EXCEPT ![i] = "null"]
    /\ connected' = connected
    /\ preview' = [preview EXCEPT ![i] = "off"]

\* releaseCamera: stopPreview, release, and the field.
ReleaseCamera(i) ==
    /\ camera' = [camera EXCEPT ![i] = "null"]
    /\ connected' = IF connected = i THEN Nobody ELSE connected
    /\ preview' = [preview EXCEPT ![i] = "off"]

\* Camera.open throws, or there is no back camera: the field stays null.
OpenFails(i, allowed) ==
    /\ Faults \/ ~allowed
    /\ ReleaseCamera(i)
    /\ failed' = failed \union {i}
    /\ UNCHANGED errors

\* The other instance that loses the camera when i opens it.
Evicted(i) == {connected} \ {i, Nobody}

\* Camera.open succeeds, and the service takes the camera from any other object
\* that has it.  A call behind it may throw: then the field is set, but no preview
\* runs.  A preview without a surface waits for one.
OpenSucceeds(i, works) ==
    /\ \A j \in Evicted(i) : errors[j] < MaxErrors
    /\ camera' = [j \in Instance |->
           IF j = i THEN "served" ELSE IF j \in Evicted(i) THEN "lost" ELSE camera[j]]
    /\ connected' = i
    /\ preview' = [j \in Instance |->
           IF j # i \/ ~works THEN "off"
           ELSE IF i \in surface THEN "on" ELSE "waiting"]
    /\ failed' = (failed \ {i}) \union Evicted(i) \union (IF works THEN {} ELSE {i})
    /\ errors' = [j \in Instance |-> IF j \in Evicted(i) THEN errors[j] + 1 ELSE errors[j]]

\* What may go wrong goes well, or fails when faults are on.
Works == IF Faults THEN BOOLEAN ELSE {TRUE}

InitCamera(i, allowed) ==
    \/ OpenFails(i, allowed)
    \/ allowed /\ \E works \in Works : OpenSucceeds(i, works)

------------------------------------------------------------------------------
(* The lifecycle *)

\* No other instance is on the screen.
Alone(i) == \A j \in Instance \ {i} : act[j] \in {"paused", "destroyed"}

\* onCreate, with checkCameraPermission.  An instance whose messages are gone may
\* stand for a new one.
Create(i) ==
    /\ act[i] = "destroyed" /\ Alone(i)
    /\ camera[i] = "null" /\ errors[i] = 0
    /\ \A k \in DOMAIN delayed : delayed[k] # i
    /\ act' = [act EXCEPT ![i] = "starting"]
    /\ late' = late \ {i}
    /\ isMeasuring' = isMeasuring \ {i}
    /\ IF granted
         THEN InitCamera(i, granted) /\ UNCHANGED asking
         ELSE /\ asking' = asking \union {i}
              /\ failed' = failed \ {i}
              /\ UNCHANGED <<camera, connected, preview, errors>>
    /\ UNCHANGED <<granted, surface, delayed, listening>>

\* Variant: onResume relies on the initCamera of surfaceCreated.
ResumeOnlyShows(i) ==
    /\ Alone(i)
    /\ act[i] = "starting" \/ (act[i] = "paused" /\ i \notin asking)
    /\ act' = [act EXCEPT ![i] = "resumed"]
    /\ late' = late \ {i}
    /\ UNCHANGED <<granted, asking, surface, delayed, held, measurement>>

\* onResume: initCamera if the field is null.
Resume(i) ==
    /\ Alone(i)
    /\ act[i] = "starting" \/ (act[i] = "paused" /\ i \notin asking)
    /\ act' = [act EXCEPT ![i] = "resumed"]
    /\ late' = late \ {i}
    /\ IF camera[i] = "null" THEN InitCamera(i, granted) ELSE UNCHANGED held
    /\ UNCHANGED <<granted, asking, surface, delayed, measurement>>

\* Variant: without releaseCamera.
PauseKeepsCamera(i) ==
    /\ act[i] = "resumed"
    /\ act' = [act EXCEPT ![i] = "paused"]
    /\ listening' = listening \ {i}
    /\ UNCHANGED <<granted, asking, surface, late, delayed, held, isMeasuring>>

\* Variant: without unregisterListener.
PauseKeepsListening(i) ==
    /\ act[i] = "resumed"
    /\ act' = [act EXCEPT ![i] = "paused"]
    /\ ReleaseCamera(i)
    /\ UNCHANGED <<granted, asking, surface, late, delayed, failed, errors,
                   measurement>>

\* onPause: releaseCamera and unregisterListener; isMeasuring stays.
Pause(i) ==
    /\ act[i] = "resumed"
    /\ act' = [act EXCEPT ![i] = "paused"]
    /\ ReleaseCamera(i)
    /\ listening' = listening \ {i}
    /\ UNCHANGED <<granted, asking, surface, late, delayed, failed, errors,
                   isMeasuring>>

\* onRequestPermissionsResult, granted: initCamera; onResume follows at once.
PermissionGranted(i) ==
    /\ i \in asking /\ act[i] = "paused" /\ Alone(i)
    /\ asking' = asking \ {i}
    /\ granted' = TRUE
    /\ act' = [act EXCEPT ![i] = "starting"]
    /\ InitCamera(i, TRUE)
    /\ UNCHANGED <<surface, late, delayed, measurement>>

\* onRequestPermissionsResult, denied: finish ends the instance.  So does the user
\* or the system, once it is paused.
Destroy(i) ==
    /\ act[i] = "paused" /\ i \notin surface
    /\ act' = [act EXCEPT ![i] = "destroyed"]
    /\ asking' = asking \ {i}
    /\ UNCHANGED <<granted, surface, late, delayed, held, measurement>>

------------------------------------------------------------------------------
(* The surface *)

\* surfaceChanged stops the preview and starts it again with the size of the
\* surface; a size the camera refuses, or a camera that is gone, throws in between.
Changed(i, fits) ==
    IF camera[i] = "null"
      THEN UNCHANGED <<preview, failed>>
      ELSE LET works == fits /\ camera[i] = "served" IN
           /\ preview' = [preview EXCEPT ![i] = IF works THEN "on" ELSE "off"]
           /\ failed' = IF works THEN failed ELSE failed \union {i}

\* surfaceCreated posts initCamera; surfaceChanged follows at once.
SurfaceCreated(i) ==
    /\ i \notin surface /\ Alone(i)
    /\ act[i] \in {"resumed", "paused"}
    /\ Len(delayed) < MaxDelayed
    /\ surface' = surface \union {i}
    /\ delayed' = Append(delayed, i)
    /\ \E fits \in Works : Changed(i, fits)
    /\ UNCHANGED <<act, granted, asking, late, camera, connected, errors, measurement>>

SurfaceChanged(i) ==
    /\ i \in surface /\ act[i] = "resumed"
    /\ \E fits \in Works : Changed(i, fits)
    /\ UNCHANGED <<life, delayed, camera, connected, errors, measurement>>

\* surfaceDestroyed comes when the window is hidden.
SurfaceDestroyed(i) ==
    /\ i \in surface /\ act[i] = "paused"
    /\ surface' = surface \ {i}
    /\ ReleaseCamera(i)
    /\ UNCHANGED <<act, granted, asking, late, delayed, failed, errors, measurement>>

------------------------------------------------------------------------------
(* Messages that may be late *)

\* 300 ms after surfaceCreated, whatever has become of the instance.
DelayedInit ==
    /\ delayed # <<>>
    /\ LET i == Head(delayed) IN
       /\ InitCamera(i, granted)
       /\ late' = IF act[i] \in {"paused", "destroyed"} THEN late \union {i} ELSE late
    /\ delayed' = Tail(delayed)
    /\ UNCHANGED <<act, granted, asking, surface, measurement>>

\* The camera service reports an error, and may have ended the connection.
ServiceFails(i) ==
    /\ Faults /\ connected = i
    /\ errors[i] < MaxErrors
    /\ errors' = [errors EXCEPT ![i] = @ + 1]
    /\ \/ UNCHANGED <<camera, connected, preview, failed>>
       \/ /\ camera' = [camera EXCEPT ![i] = "lost"]
          /\ connected' = Nobody
          /\ preview' = [preview EXCEPT ![i] = "off"]
          /\ failed' = failed \union {i}
    /\ UNCHANGED <<life, delayed, measurement>>

\* errorCallback does not look at its argument cam: it releases the camera that the
\* field refers to by now.
OnError(i) ==
    /\ errors[i] > 0
    /\ errors' = [errors EXCEPT ![i] = @ - 1]
    /\ ReleaseCamera(i)
    /\ failed' = failed \union {i}
    /\ UNCHANGED <<life, delayed, measurement>>

------------------------------------------------------------------------------
(* The button *)

StartMeasurement(i) ==
    /\ act[i] = "resumed" /\ i \notin isMeasuring
    /\ isMeasuring' = isMeasuring \union {i}
    /\ listening' = listening \union {i}
    /\ UNCHANGED <<life, delayed, held>>

StopMeasurement(i) ==
    /\ act[i] = "resumed" /\ i \in isMeasuring
    /\ isMeasuring' = isMeasuring \ {i}
    /\ listening' = listening \ {i}
    /\ UNCHANGED <<life, delayed, held>>

------------------------------------------------------------------------------

Lifecycle(i) == Create(i) \/ Resume(i) \/ Pause(i) \/ PermissionGranted(i) \/ Destroy(i)

Surface(i) == SurfaceCreated(i) \/ SurfaceChanged(i) \/ SurfaceDestroyed(i)

Next ==
    \/ \E i \in Instance : Lifecycle(i) \/ Surface(i)
    \/ \E i \in Instance : StartMeasurement(i) \/ StopMeasurement(i)
    \/ DelayedInit
    \/ \E i \in Instance : ServiceFails(i) \/ OnError(i)

Spec == Init /\ [][Next]_vars

------------------------------------------------------------------------------
(* Properties *)

\* Every variable has its type.
TypeOK ==
    /\ act \in [Instance -> Act]
    /\ granted \in BOOLEAN
    /\ asking \subseteq Instance
    /\ surface \subseteq Instance
    /\ delayed \in Seq(Instance)
    /\ late \subseteq Instance
    /\ camera \in [Instance -> Camera]
    /\ connected \in Instance \union {Nobody}
    /\ preview \in [Instance -> Preview]
    /\ failed \subseteq Instance
    /\ errors \in [Instance -> 0..MaxErrors]
    /\ isMeasuring \subseteq Instance
    /\ listening \subseteq Instance

\* However initCamera, the callbacks and the errors of several instances
\* interleave, the camera that is in use is the one a field refers to.
NoCameraForgotten ==
    \A i \in Instance : camera[i] = "served" <=> connected = i

\* An instance that is not on the screen holds a camera only because the
\* initCamera of its surfaceCreated came after its onPause.
BackgroundCameraWasLate ==
    \A i \in Instance :
        act[i] \in {"paused", "destroyed"} /\ camera[i] # "null" => i \in late

\* On the screen, with a surface, the preview runs, unless something has failed
\* since the last initCamera that worked.
DarkPreviewHasCause ==
    \A i \in surface : act[i] = "resumed" => preview[i] = "on" \/ i \in failed

\* A sensor listener is registered only while its instance measures, on the screen.
ListeningIsMeasuring ==
    \A i \in listening : i \in isMeasuring /\ act[i] = "resumed"

\* SensorMeasureActivity.java:59 says that isMeasuring is whether a measurement
\* is in progress; one is when the sensors of the instance on the screen report.
MeasuringIsListening ==
    \A i \in Instance : act[i] = "resumed" /\ i \in isMeasuring => i \in listening

==============================================================================
