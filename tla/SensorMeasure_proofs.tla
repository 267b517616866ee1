-------------------------- MODULE SensorMeasure_proofs --------------------------
(***************************************************************************)
(* The inductive invariant of SensorMeasure and what follows from it, for  *)
(* any number of instances of the activity, messages and errors.           *)
(***************************************************************************)
EXTENDS SensorMeasure, TLAPS

USE DEF Act, Camera, Preview, life, held, measurement

------------------------------------------------------------------------------
(* The inductive invariant *)

\* A preview that runs, or waits for a surface, is that of a served camera, and it
\* waits only while there is no surface; a served camera without one has a cause.
PreviewFollowsCamera ==
    \A i \in Instance :
        camera[i] # "null" /\ i \notin failed =>
            /\ camera[i] = "served"
            /\ preview[i] = "on" \/ (preview[i] = "waiting" /\ i \notin surface)

\* An instance on the screen has a camera, or has met a failure.
ShownHasCamera ==
    \A i \in Instance : act[i] = "resumed" /\ i \notin failed => camera[i] # "null"

IInv ==
    /\ TypeOK
    /\ NoCameraForgotten
    /\ PreviewFollowsCamera
    /\ ShownHasCamera
    /\ BackgroundCameraWasLate
    /\ ListeningIsMeasuring

------------------------------------------------------------------------------
(* Sequences *)

LEMMA AppendType ==
    ASSUME NEW S, NEW q \in Seq(S), NEW e \in S
    PROVE  Append(q, e) \in Seq(S)
  OBVIOUS

LEMMA HeadTailType ==
    ASSUME NEW S, NEW q \in Seq(S), q # <<>>
    PROVE  Head(q) \in S /\ Tail(q) \in Seq(S)
  OBVIOUS

------------------------------------------------------------------------------
(* initCamera *)

\* What initCamera leaves behind: the types, one owner of the camera, and for the
\* instance that ran it a camera with a preview or a failure; another instance
\* loses the camera at most.
LEMMA InitCameraResult ==
    ASSUME TypeOK, NoCameraForgotten, PreviewFollowsCamera,
           NEW i \in Instance, NEW allowed \in BOOLEAN, InitCamera(i, allowed)
    PROVE  /\ camera' \in [Instance -> Camera]
           /\ connected' \in Instance \union {Nobody}
           /\ preview' \in [Instance -> Preview]
           /\ failed' \subseteq Instance
           /\ errors' \in [Instance -> 0..MaxErrors]
           /\ \A j \in Instance : camera'[j] = "served" <=> connected' = j
           /\ \A j \in Instance : camera'[j] # "null" /\ j \notin failed' =>
                 /\ camera'[j] = "served"
                 /\ preview'[j] = "on" \/ (preview'[j] = "waiting" /\ j \notin surface)
           /\ i \notin failed' => camera'[i] # "null"
           /\ \A j \in Instance \ {i} :
                 /\ camera'[j] # "null" <=> camera[j] # "null"
                 /\ j \notin failed' => j \notin failed
  <1>1. Nobody \notin Instance /\ MaxErrors \in Nat
    BY InstanceAssumption, BoundsAssumption
  <1>2. CASE OpenFails(i, allowed)
    BY <1>1, <1>2 DEF OpenFails, ReleaseCamera, TypeOK, NoCameraForgotten, PreviewFollowsCamera
  <1>3. CASE \E works \in Works : OpenSucceeds(i, works)
    <2>1. PICK works \in Works : OpenSucceeds(i, works)
      BY <1>3
    <2>2. works \in BOOLEAN
      BY DEF Works
    <2>3. Evicted(i) \subseteq Instance /\ i \notin Evicted(i)
      BY <1>1 DEF Evicted, TypeOK
    <2>4. \A j \in Instance \ {i} : camera[j] = "served" <=> j \in Evicted(i)
      BY <1>1 DEF Evicted, NoCameraForgotten
    <2>5. /\ camera' \in [Instance -> Camera]
          /\ connected' \in Instance \union {Nobody}
          /\ preview' \in [Instance -> Preview]
          /\ failed' \subseteq Instance
      BY <2>1, <2>2, <2>3 DEF OpenSucceeds, TypeOK
    <2>6. errors' \in [Instance -> 0..MaxErrors]
      BY <1>1, <2>1, <2>3 DEF OpenSucceeds, TypeOK
    <2>7. \A j \in Instance : camera'[j] = "served" <=> connected' = j
      BY <2>1, <2>4 DEF OpenSucceeds, TypeOK
    <2>8. \A j \in Instance : camera'[j] # "null" /\ j \notin failed' =>
             /\ camera'[j] = "served"
             /\ preview'[j] = "on" \/ (preview'[j] = "waiting" /\ j \notin surface)
      BY <2>1, <2>2, <2>4 DEF OpenSucceeds, TypeOK, PreviewFollowsCamera
    <2>9. camera'[i] # "null"
      BY <2>1 DEF OpenSucceeds, TypeOK
    <2>10. \A j \in Instance \ {i} :
              /\ camera'[j] # "null" <=> camera[j] # "null"
              /\ j \notin failed' => j \notin failed
      BY <2>1, <2>4 DEF OpenSucceeds, TypeOK
    <2> QED
      BY <2>5, <2>6, <2>7, <2>8, <2>9, <2>10
  <1> QED
    BY <1>2, <1>3 DEF InitCamera

\* ReleaseCamera as every callback uses it: the field is null, nothing else changes hands.
LEMMA ReleaseCameraResult ==
    ASSUME TypeOK, NoCameraForgotten, NEW i \in Instance, ReleaseCamera(i)
    PROVE  /\ camera' \in [Instance -> Camera]
           /\ connected' \in Instance \union {Nobody}
           /\ preview' \in [Instance -> Preview]
           /\ \A j \in Instance : camera'[j] = "served" <=> connected' = j
           /\ camera'[i] = "null"
           /\ \A j \in Instance \ {i} : camera'[j] = camera[j] /\ preview'[j] = preview[j]
  BY InstanceAssumption DEF ReleaseCamera, TypeOK, NoCameraForgotten

------------------------------------------------------------------------------
(* One lemma per action *)

\* onPause gives back the camera and the sensors.
LEMMA PauseStep ==
    ASSUME IInv, NEW i \in Instance, Pause(i)
    PROVE  IInv'
  <1>1. TypeOK'
    BY DEF IInv, TypeOK, Pause, ReleaseCamera
  <1>2. NoCameraForgotten'
    BY InstanceAssumption DEF IInv, TypeOK, NoCameraForgotten, Pause, ReleaseCamera
  <1>3. PreviewFollowsCamera'
    BY DEF IInv, TypeOK, PreviewFollowsCamera, Pause, ReleaseCamera
  <1>4. BackgroundCameraWasLate'
    BY DEF IInv, TypeOK, BackgroundCameraWasLate, Pause, ReleaseCamera
  <1>5. ListeningIsMeasuring'
    BY DEF IInv, TypeOK, ListeningIsMeasuring, Pause, ReleaseCamera
  <1>6. ShownHasCamera'
    BY DEF IInv, TypeOK, ShownHasCamera, Pause, ReleaseCamera
  <1> QED
    BY <1>1, <1>2, <1>3, <1>4, <1>5, <1>6 DEF IInv

\* A destroyed instance keeps what a paused one had.
LEMMA DestroyStep ==
    ASSUME IInv, NEW i \in Instance, Destroy(i)
    PROVE  IInv'
  <1>1. TypeOK'
    BY DEF IInv, TypeOK, Destroy
  <1>2. BackgroundCameraWasLate'
    BY DEF IInv, TypeOK, BackgroundCameraWasLate, Destroy
  <1>3. ListeningIsMeasuring'
    BY DEF IInv, TypeOK, ListeningIsMeasuring, Destroy
  <1>4. NoCameraForgotten' /\ PreviewFollowsCamera' /\ ShownHasCamera'
    BY DEF IInv, TypeOK, NoCameraForgotten, PreviewFollowsCamera, ShownHasCamera,
       Destroy
  <1> QED
    BY <1>1, <1>2, <1>3, <1>4 DEF IInv

\* Without a surface there is no camera.
LEMMA SurfaceDestroyedStep ==
    ASSUME IInv, NEW i \in Instance, SurfaceDestroyed(i)
    PROVE  IInv'
  <1>1. TypeOK'
    BY DEF IInv, TypeOK, SurfaceDestroyed, ReleaseCamera
  <1>2. NoCameraForgotten'
    BY InstanceAssumption DEF IInv, TypeOK, NoCameraForgotten, SurfaceDestroyed,
       ReleaseCamera
  <1>3. PreviewFollowsCamera'
    BY DEF IInv, TypeOK, PreviewFollowsCamera, SurfaceDestroyed, ReleaseCamera
  <1>4. ShownHasCamera' /\ BackgroundCameraWasLate' /\ ListeningIsMeasuring'
    BY DEF IInv, TypeOK, ShownHasCamera, BackgroundCameraWasLate, ListeningIsMeasuring,
       SurfaceDestroyed, ReleaseCamera
  <1> QED
    BY <1>1, <1>2, <1>3, <1>4 DEF IInv

\* The error releases the camera, and is a failure.
LEMMA OnErrorStep ==
    ASSUME IInv, NEW i \in Instance, OnError(i)
    PROVE  IInv'
  <1>1. TypeOK'
    BY BoundsAssumption DEF IInv, TypeOK, OnError, ReleaseCamera
  <1>2. NoCameraForgotten'
    BY InstanceAssumption DEF IInv, TypeOK, NoCameraForgotten, OnError, ReleaseCamera
  <1>3. PreviewFollowsCamera'
    BY DEF IInv, TypeOK, PreviewFollowsCamera, OnError, ReleaseCamera
  <1>4. ShownHasCamera'
    BY DEF IInv, TypeOK, ShownHasCamera, OnError, ReleaseCamera
  <1>5. BackgroundCameraWasLate'
    BY DEF IInv, TypeOK, BackgroundCameraWasLate, OnError, ReleaseCamera
  <1>6. ListeningIsMeasuring'
    BY DEF IInv, TypeOK, ListeningIsMeasuring, OnError, ReleaseCamera
  <1> QED
    BY <1>1, <1>2, <1>3, <1>4, <1>5, <1>6 DEF IInv

\* A preview that waited for the surface starts, or fails.
LEMMA SurfaceCreatedStep ==
    ASSUME IInv, NEW i \in Instance, SurfaceCreated(i)
    PROVE  IInv'
  <1>1. TypeOK'
    <2>1. delayed' \in Seq(Instance)
      BY AppendType DEF IInv, TypeOK, SurfaceCreated
    <2>2. preview' \in [Instance -> Preview] /\ failed' \subseteq Instance
      <3>1. PICK fits \in Works : Changed(i, fits)
        BY DEF SurfaceCreated
      <3>2. preview \in [Instance -> Preview] /\ failed \subseteq Instance
        BY DEF IInv, TypeOK
      <3>3. CASE camera[i] = "null"
        BY <3>1, <3>2, <3>3 DEF Changed
      <3>4. CASE camera[i] # "null"
        BY <3>1, <3>2, <3>4 DEF Changed, Preview
      <3> QED
        BY <3>3, <3>4
    <2> QED
      BY <2>1, <2>2 DEF IInv, TypeOK, SurfaceCreated
  <1>2. PreviewFollowsCamera'
    BY DEF IInv, TypeOK, PreviewFollowsCamera, SurfaceCreated, Changed, Works
  <1>3. ShownHasCamera'
    BY DEF IInv, TypeOK, ShownHasCamera, SurfaceCreated, Changed, Works
  <1>4. NoCameraForgotten' /\ BackgroundCameraWasLate' /\ ListeningIsMeasuring'
    BY DEF IInv, TypeOK, NoCameraForgotten, BackgroundCameraWasLate,
       ListeningIsMeasuring, SurfaceCreated, Changed, Works
  <1> QED
    BY <1>1, <1>2, <1>3, <1>4 DEF IInv

\* The preview starts again, or fails.
LEMMA SurfaceChangedStep ==
    ASSUME IInv, NEW i \in Instance, SurfaceChanged(i)
    PROVE  IInv'
  <1>1. TypeOK'
    BY DEF IInv, TypeOK, SurfaceChanged, Changed, Works
  <1>2. PreviewFollowsCamera'
    BY DEF IInv, TypeOK, PreviewFollowsCamera, SurfaceChanged, Changed, Works
  <1>3. ShownHasCamera'
    BY DEF IInv, TypeOK, ShownHasCamera, SurfaceChanged, Changed, Works
  <1>4. NoCameraForgotten' /\ BackgroundCameraWasLate' /\ ListeningIsMeasuring'
    BY DEF IInv, TypeOK, NoCameraForgotten, BackgroundCameraWasLate,
       ListeningIsMeasuring, SurfaceChanged, Changed, Works
  <1> QED
    BY <1>1, <1>2, <1>3, <1>4 DEF IInv

\* A camera that is lost is no longer served.
LEMMA ServiceFailsStep ==
    ASSUME IInv, NEW i \in Instance, ServiceFails(i)
    PROVE  IInv'
  <1>1. TypeOK'
    <2>1. errors' \in [Instance -> 0..MaxErrors]
      BY BoundsAssumption DEF IInv, TypeOK, ServiceFails
    <2>2. /\ camera' \in [Instance -> Camera]
          /\ connected' \in Instance \union {Nobody}
          /\ preview' \in [Instance -> Preview]
          /\ failed' \subseteq Instance
      BY DEF IInv, TypeOK, ServiceFails
    <2> QED
      BY <2>1, <2>2 DEF IInv, TypeOK, ServiceFails
  <1>2. NoCameraForgotten'
    BY InstanceAssumption DEF IInv, TypeOK, NoCameraForgotten, ServiceFails
  <1>3. PreviewFollowsCamera'
    BY DEF IInv, TypeOK, PreviewFollowsCamera, ServiceFails
  <1>4. BackgroundCameraWasLate'
    BY DEF IInv, TypeOK, NoCameraForgotten, BackgroundCameraWasLate, ServiceFails
  <1>5. ShownHasCamera' /\ ListeningIsMeasuring'
    BY DEF IInv, TypeOK, ShownHasCamera, ListeningIsMeasuring, ServiceFails
  <1> QED
    BY <1>1, <1>2, <1>3, <1>4, <1>5 DEF IInv

\* A listener is registered while measuring, on the screen.
LEMMA StartMeasurementStep ==
    ASSUME IInv, NEW i \in Instance, StartMeasurement(i)
    PROVE  IInv'
  <1>1. TypeOK'
    BY DEF IInv, TypeOK, StartMeasurement
  <1>2. ListeningIsMeasuring'
    BY DEF IInv, TypeOK, ListeningIsMeasuring, StartMeasurement
  <1>3. NoCameraForgotten' /\ PreviewFollowsCamera' /\ ShownHasCamera' /\ BackgroundCameraWasLate'
    BY DEF IInv, TypeOK, NoCameraForgotten, PreviewFollowsCamera, ShownHasCamera,
       BackgroundCameraWasLate, StartMeasurement
  <1> QED
    BY <1>1, <1>2, <1>3 DEF IInv

\* With the measurement ends the listening.
LEMMA StopMeasurementStep ==
    ASSUME IInv, NEW i \in Instance, StopMeasurement(i)
    PROVE  IInv'
  <1>1. TypeOK'
    BY DEF IInv, TypeOK, StopMeasurement
  <1>2. ListeningIsMeasuring'
    BY DEF IInv, TypeOK, ListeningIsMeasuring, StopMeasurement
  <1>3. NoCameraForgotten' /\ PreviewFollowsCamera' /\ ShownHasCamera' /\ BackgroundCameraWasLate'
    BY DEF IInv, TypeOK, NoCameraForgotten, PreviewFollowsCamera, ShownHasCamera,
       BackgroundCameraWasLate, StopMeasurement
  <1> QED
    BY <1>1, <1>2, <1>3 DEF IInv

\* initCamera keeps what the invariant says of the camera, provided an instance
\* that is not on the screen by then is marked as late.
LEMMA InitCameraKeeps ==
    ASSUME IInv, TypeOK',
           NEW i \in Instance, NEW allowed \in BOOLEAN, InitCamera(i, allowed),
           \A j \in Instance \ {i} : act'[j] = act[j] /\ (j \in late => j \in late'),
           act'[i] \in {"paused", "destroyed"} => i \in late',
           UNCHANGED surface
    PROVE  NoCameraForgotten' /\ PreviewFollowsCamera' /\ ShownHasCamera'
           /\ BackgroundCameraWasLate'
  <1>1. NoCameraForgotten' /\ PreviewFollowsCamera'
    BY InitCameraResult DEF IInv, NoCameraForgotten, PreviewFollowsCamera
  <1>2. ShownHasCamera'
    BY InitCameraResult DEF IInv, ShownHasCamera
  <1>3. BackgroundCameraWasLate'
    BY InitCameraResult DEF IInv, BackgroundCameraWasLate
  <1> QED
    BY <1>1, <1>2, <1>3

\* A new instance measures nothing, and has a camera once it has the permission.
LEMMA CreateStep ==
    ASSUME IInv, NEW i \in Instance, Create(i)
    PROVE  IInv'
  <1>1. CASE granted
    <2>1. InitCamera(i, granted) /\ granted \in BOOLEAN
      BY <1>1 DEF Create, IInv, TypeOK
    <2>2. TypeOK'
      BY <1>1, <2>1, InitCameraResult DEF Create, IInv, TypeOK
    <2>3. NoCameraForgotten' /\ PreviewFollowsCamera' /\ ShownHasCamera'
          /\ BackgroundCameraWasLate'
      BY <2>1, <2>2, InitCameraKeeps DEF Create, IInv, TypeOK
    <2>4. ListeningIsMeasuring'
      BY DEF Create, IInv, TypeOK, ListeningIsMeasuring
    <2> QED
      BY <2>2, <2>3, <2>4 DEF IInv
  <1>2. CASE ~granted
    <2>1. TypeOK' /\ NoCameraForgotten'
      BY <1>2 DEF Create, IInv, TypeOK, NoCameraForgotten
    <2>2. PreviewFollowsCamera' /\ ShownHasCamera'
      BY <1>2 DEF Create, IInv, TypeOK, PreviewFollowsCamera, ShownHasCamera
    <2>3. BackgroundCameraWasLate' /\ ListeningIsMeasuring'
      BY <1>2 DEF Create, IInv, TypeOK, BackgroundCameraWasLate, ListeningIsMeasuring
    <2> QED
      BY <2>1, <2>2, <2>3 DEF IInv
  <1> QED
    BY <1>1, <1>2

\* On the screen there is a camera, or a failure.
LEMMA ResumeStep ==
    ASSUME IInv, NEW i \in Instance, Resume(i)
    PROVE  IInv'
  <1>1. ListeningIsMeasuring'
    BY DEF Resume, IInv, TypeOK, ListeningIsMeasuring
  <1>2. CASE camera[i] = "null"
    <2>1. InitCamera(i, granted) /\ granted \in BOOLEAN
      BY <1>2 DEF Resume, IInv, TypeOK
    <2>2. TypeOK'
      BY <2>1, InitCameraResult DEF Resume, IInv, TypeOK
    <2>3. NoCameraForgotten' /\ PreviewFollowsCamera' /\ ShownHasCamera'
          /\ BackgroundCameraWasLate'
      BY <2>1, <2>2, InitCameraKeeps, SMTT(30) DEF Resume, IInv, TypeOK
    <2> QED
      BY <1>1, <2>2, <2>3 DEF IInv
  <1>3. CASE camera[i] # "null"
    <2>1. TypeOK' /\ NoCameraForgotten'
      BY <1>3 DEF Resume, IInv, TypeOK, NoCameraForgotten
    <2>2. PreviewFollowsCamera' /\ ShownHasCamera'
      BY <1>3 DEF Resume, IInv, TypeOK, PreviewFollowsCamera, ShownHasCamera
    <2>3. BackgroundCameraWasLate'
      BY <1>3 DEF Resume, IInv, TypeOK, BackgroundCameraWasLate
    <2> QED
      BY <1>1, <2>1, <2>2, <2>3 DEF IInv
  <1> QED
    BY <1>2, <1>3

\* With the permission comes the camera, in front of onResume.
LEMMA PermissionGrantedStep ==
    ASSUME IInv, NEW i \in Instance, PermissionGranted(i)
    PROVE  IInv'
  <1>1. InitCamera(i, TRUE)
    BY DEF PermissionGranted
  <1>2. TypeOK'
    BY <1>1, InitCameraResult DEF PermissionGranted, IInv, TypeOK
  <1>3. NoCameraForgotten' /\ PreviewFollowsCamera' /\ ShownHasCamera'
        /\ BackgroundCameraWasLate'
    BY <1>1, <1>2, InitCameraKeeps DEF PermissionGranted, IInv, TypeOK
  <1>4. ListeningIsMeasuring'
    BY DEF PermissionGranted, IInv, TypeOK, ListeningIsMeasuring
  <1> QED
    BY <1>2, <1>3, <1>4 DEF IInv

\* A delayed initCamera opens the camera for an instance that is on the screen, or is late.
LEMMA DelayedInitStep == IInv /\ DelayedInit => IInv'
  <1> SUFFICES ASSUME IInv, DelayedInit PROVE IInv'
    OBVIOUS
  <1> DEFINE i == Head(delayed)
  <1>1. i \in Instance /\ Tail(delayed) \in Seq(Instance)
    BY HeadTailType DEF DelayedInit, IInv, TypeOK
  <1>2. /\ InitCamera(i, granted)
        /\ late' = IF act[i] \in {"paused", "destroyed"} THEN late \union {i} ELSE late
        /\ delayed' = Tail(delayed)
        /\ UNCHANGED <<act, granted, asking, surface, measurement>>
    BY DEF DelayedInit
  <1> HIDE DEF i
  <1>3. granted \in BOOLEAN
    BY DEF IInv, TypeOK
  <1>4. TypeOK'
    BY <1>1, <1>2, <1>3, InitCameraResult DEF IInv, TypeOK
  <1>5. NoCameraForgotten' /\ PreviewFollowsCamera' /\ ShownHasCamera'
        /\ BackgroundCameraWasLate'
    BY <1>1, <1>2, <1>3, <1>4, InitCameraKeeps DEF IInv, TypeOK
  <1>6. ListeningIsMeasuring'
    BY <1>2 DEF IInv, ListeningIsMeasuring
  <1> QED
    BY <1>4, <1>5, <1>6 DEF IInv

------------------------------------------------------------------------------
(* The theorems *)

LEMMA InitIInv == Init => IInv
  <1> SUFFICES ASSUME Init PROVE IInv
    OBVIOUS
  <1>1. TypeOK
    BY BoundsAssumption DEF Init, TypeOK
  <1>2. NoCameraForgotten
    BY InstanceAssumption DEF Init, NoCameraForgotten
  <1> QED
    BY <1>1, <1>2 DEF Init, IInv, PreviewFollowsCamera, ShownHasCamera,
       BackgroundCameraWasLate, ListeningIsMeasuring

LEMMA NextIInv == IInv /\ [Next]_vars => IInv'
  <1> SUFFICES ASSUME IInv, [Next]_vars PROVE IInv'
    OBVIOUS
  <1>1. ASSUME NEW i \in Instance, Lifecycle(i) PROVE IInv'
    BY <1>1, CreateStep, ResumeStep, PauseStep, PermissionGrantedStep, DestroyStep
       DEF Lifecycle
  <1>2. ASSUME NEW i \in Instance, Surface(i) PROVE IInv'
    BY <1>2, SurfaceCreatedStep, SurfaceChangedStep, SurfaceDestroyedStep DEF Surface
  <1>3. ASSUME NEW i \in Instance, StartMeasurement(i) \/ StopMeasurement(i) PROVE IInv'
    BY <1>3, StartMeasurementStep, StopMeasurementStep
  <1>4. CASE DelayedInit
    BY <1>4, DelayedInitStep
  <1>5. ASSUME NEW i \in Instance, ServiceFails(i) \/ OnError(i) PROVE IInv'
    BY <1>5, ServiceFailsStep, OnErrorStep
  <1>6. CASE UNCHANGED vars
    BY <1>6 DEF vars, IInv, TypeOK, NoCameraForgotten, PreviewFollowsCamera,
       ShownHasCamera, BackgroundCameraWasLate, ListeningIsMeasuring
  <1> QED
    BY <1>1, <1>2, <1>3, <1>4, <1>5, <1>6 DEF Next

LEMMA Invariant == Spec => []IInv
  BY InitIInv, NextIInv, PTL DEF Spec

\* Every variable has its type.
THEOREM TypeCorrect == Spec => []TypeOK
  <1>1. IInv => TypeOK
    BY DEF IInv
  <1> QED
    BY <1>1, Invariant, PTL

\* releaseCamera in front of every Camera.open, and the eviction by the service, keep
\* the field camera of one instance, and of no other, on the camera in use.
THEOREM CamerasKnown == Spec => []NoCameraForgotten
  <1>1. IInv => NoCameraForgotten
    BY DEF IInv
  <1> QED
    BY <1>1, Invariant, PTL

\* Only the initCamera posted by surfaceCreated opens a camera behind onPause.
THEOREM BackgroundCamerasWereLate == Spec => []BackgroundCameraWasLate
  <1>1. IInv => BackgroundCameraWasLate
    BY DEF IInv
  <1> QED
    BY <1>1, Invariant, PTL

\* In whatever order onResume, the permission, the surface and the delayed initCamera
\* come, an instance on the screen has its preview, unless one of them failed.
THEOREM DarkPreviewsHaveCauses == Spec => []DarkPreviewHasCause
  <1>1. IInv => DarkPreviewHasCause
    BY DEF IInv, TypeOK, PreviewFollowsCamera, ShownHasCamera, DarkPreviewHasCause
  <1> QED
    BY <1>1, Invariant, PTL

\* onPause takes the sensors from every measurement.
THEOREM ListenersMeasure == Spec => []ListeningIsMeasuring
  <1>1. IInv => ListeningIsMeasuring
    BY DEF IInv
  <1> QED
    BY <1>1, Invariant, PTL

==============================================================================
