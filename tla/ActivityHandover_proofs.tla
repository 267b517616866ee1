----------------------- MODULE ActivityHandover_proofs -----------------------
(***************************************************************************)
(* ActivityHandover for any number of instances and opens, and any lists   *)
(* of cameras: the type invariant, who owns the statics, the causes of an  *)
(* open without an id and of a detector that is left behind, and why the   *)
(* UI thread does not wait for its own looper.                             *)
(***************************************************************************)
EXTENDS ActivityHandover, WellFoundedInduction, TLAPS

USE DEF statics, activities, detectors, connections, lock, Null, UILooper, Instance, Device

----------------------------------------------------------------------------
(* The camera setUpCameraOutputs takes *)

LEMMA MinimumExists ==
    ASSUME NEW S \in SUBSET Nat, S # {}
    PROVE  \E k \in S : \A j \in S : k <= j
<1> DEFINE R == OpToRel(<, Nat)
<1>1. IsWellFoundedOn(R, Nat)
  BY NatLessThanWellFounded
<1> HIDE DEF R
<1>2. PICK k \in S : \A j \in S : <<j, k>> \notin R
  BY <1>1, WFMin, Zenon
<1>3. \A j, i \in Nat : j < i => <<j, i>> \in R
  BY DEF R, OpToRel
<1>4. \A j \in S : ~(j < k)
  BY <1>2, <1>3, Zenon
<1> QED
  BY <1>4

\* Without a cause to fail it returns an index of the list.
LEMMA SetUpType ==
    ASSUME cameras \in CameraLists, mCameraId \in Nat
    PROVE  /\ SetUpCameraOutputs \in Nat
           /\ SetUpCameraOutputs = Null =>
                CountingFails \/ Eligible = {} \/ mTextureView = Null
<1>1. Eligible \subseteq Nat \ {0}
  <2>1. cameras \in Seq([facing : {"front", "back", "external"}, streams : BOOLEAN])
    BY ListsAssumption
  <2>2. DOMAIN cameras \subseteq Nat \ {0}
    BY <2>1
  <2> QED
    BY <2>2 DEF Eligible
<1>2. CASE CountingFails \/ Eligible = {} \/ mTextureView = Null
  BY <1>2, Zenon DEF SetUpCameraOutputs
<1>3. CASE ~(CountingFails \/ Eligible = {} \/ mTextureView = Null)
  <2>1. SetUpCameraOutputs = CHOOSE k \in Eligible : \A j \in Eligible : k <= j
    BY <1>3, Zenon DEF SetUpCameraOutputs
  <2>2. \E k \in Eligible : \A j \in Eligible : k <= j
    BY <1>1, <1>3, MinimumExists, Zenon
  <2>3. SetUpCameraOutputs \in Eligible
    BY <2>1, <2>2, Zenon
  <2> QED
    BY <1>1, <2>3
<1> QED
  BY <1>2, <1>3

----------------------------------------------------------------------------
(* The inductive invariant *)

\* Where the UI thread is goes with the lifecycle of the newest instance, and only
\* the looper of an instance that is shown, or is being paused, runs.
Places ==
    /\ \A i \in Instance : act[i] = "unborn" <=> i > newest
    /\ \A i \in Instance : act[i] = "shown" => i = newest
    /\ ui \in {"closing", "joining"} => newest # 0 /\ act[newest] = "paused"
    /\ ui \in {"openFromResume", "openFromSurface", "preview"} =>
          newest # 0 /\ newest \in surface /\ act[newest] \in {"shown", "paused"}
    /\ ui = "openFromResume" => act[newest] = "shown" /\ mBackgroundHandler = newest
    /\ Opening => opens < MaxOpens
    /\ crash # "none" => ui = "crashed"
    /\ \A i \in Instance : i \in loading => act[i] # "unborn"
    /\ \A i \in Instance : looper[i] = "running" =>
          act[i] = "shown" \/ (i = newest /\ ui \in {"closing", "joining"})

\* The statics belong to the newest instance or to nobody, and to nobody only when it
\* was overtaken or is gone.
StaticsFollow ==
    /\ mTextureView \in {newest, Null}
    /\ mBackgroundHandler \in {newest, Null}
    /\ mOnGetPreviewListener \in {newest, Null}
    /\ newest # 0 /\ newest \notin overtaken /\ act[newest] \in {"shown", "paused"} =>
          mTextureView = newest /\ mBackgroundHandler = newest /\ mOnGetPreviewListener = newest

CrashHasCause ==
    crash = "noCameraId" => CountingFails \/ Eligible = {} \/ newest \in overtaken

\* A detector whose activity has closed its camera is released, or has an excuse.
DetectorHasCause ==
    \A i \in Instance :
        mFaceDet[i] = "live" /\ i \notin overtaken \union loadedLate =>
            act[i] = "shown" \/ (i = newest /\ act[i] = "paused" /\ ui = "closing")

\* The device whose open still holds a permit.
Holds(d) == service[d] \in {"opening", "refused", "lost"}

\* Before a connection is lost there is one permit, and at most one open holds it.
OnePermit ==
    ~dropped /\ ui # "crashed" =>
        /\ lock <= 1
        /\ lock = 0 => \E d \in Device : Holds(d)
        /\ lock > 0 => \A d \in Device : ~Holds(d)
        /\ \A d, e \in Device : Holds(d) /\ Holds(e) => d = e

\* No open since the last closeCamera.
Rest ==
    /\ ui \in {"idle", "joining", "openFromResume", "openFromSurface"}
    /\ ui = "idle" /\ newest # 0 /\ act[newest] = "shown" => newest \notin surface

RestIsFree == ~dropped /\ Rest => lock > 0 /\ mCameraDevice = Null

\* An open that will be answered on the main looper, or that was made while paused,
\* has no device to make a session of.
PreviewWillCrash ==
    /\ ~dropped /\ ui = "preview" /\ act[newest] = "paused" => mCameraDevice = Null
    /\ ~dropped /\ ui # "crashed" =>
          \A d \in InFlight : on[d] = UILooper => ui = "preview" /\ mCameraDevice = Null

IInv == /\ TypeOK
        /\ Places
        /\ StaticsFollow
        /\ CrashHasCause
        /\ DetectorHasCause
        /\ OnePermit
        /\ RestIsFree
        /\ PreviewWillCrash

LEMMA InitIInv == Init => IInv
<1> SUFFICES ASSUME Init
             PROVE  IInv
  OBVIOUS
<1>1. TypeOK
  <2>1. act \in [Instance -> Act] /\ looper \in [Instance -> Looper]
    BY DEF Init, Act, Looper
  <2>2. mFaceDet \in [Instance -> Detector] /\ service \in [Device -> Phase]
    BY DEF Init, Detector, Phase
  <2>3. on \in [Device -> Instance \union {UILooper}]
    BY DEF Init
  <2>4. opens \in 0..MaxOpens
    BY BoundsAssumption DEF Init
  <2> QED
    BY <2>1, <2>2, <2>3, <2>4 DEF Init, TypeOK, UI, Crash
<1>2. Places /\ StaticsFollow /\ CrashHasCause /\ DetectorHasCause
  BY DEF Init, Places, StaticsFollow, CrashHasCause, DetectorHasCause, Opening
<1>3. OnePermit /\ RestIsFree /\ PreviewWillCrash
  BY DEF Init, OnePermit, RestIsFree, PreviewWillCrash, Holds, Rest, InFlight
<1> QED
  BY <1>1, <1>2, <1>3 DEF IInv

----------------------------------------------------------------------------
(* The steps *)

LEMMA LaunchStep ==
    ASSUME IInv, NEW i \in Instance, Launch(i)
    PROVE  IInv'
<1>1. TypeOK'
  BY DEF Launch, IInv, TypeOK, Act, UI, Crash, Looper, Detector, Phase, Places, Opening
<1>2. Places'
  BY DEF Launch, IInv, Places, Opening, TypeOK
<1>3. StaticsFollow'
  BY DEF Launch, IInv, StaticsFollow, Places, TypeOK
<1>4. CrashHasCause'
  BY DEF Launch, IInv, CrashHasCause, CountingFails, Eligible, Facing, Places, TypeOK
<1>5. DetectorHasCause'
  BY DEF Launch, IInv, DetectorHasCause, Places, StaticsFollow, TypeOK
<1>6. OnePermit'
  BY DEF Launch, IInv, OnePermit, Holds, TypeOK
<1>7. RestIsFree'
  BY DEF Launch, IInv, RestIsFree, Rest, Places, OnePermit, Holds, TypeOK
<1>8. PreviewWillCrash'
  BY DEF Launch, IInv, PreviewWillCrash, InFlight, Places, OnePermit, Holds, RestIsFree,
     Rest, TypeOK
<1> QED
  BY <1>1, <1>2, <1>3, <1>4, <1>5, <1>6, <1>7, <1>8 DEF IInv

LEMMA ResumeStep ==
    ASSUME IInv, Resume
    PROVE  IInv'
<1>1. TypeOK'
  BY DEF Resume, IInv, TypeOK, Act, UI, Crash, Looper, Detector, Phase, Places, Opening
<1>2. Places'
  BY DEF Resume, IInv, Places, Opening, TypeOK
<1>3. StaticsFollow'
  BY DEF Resume, IInv, StaticsFollow, Places, TypeOK
<1>4. CrashHasCause'
  BY DEF Resume, IInv, CrashHasCause, CountingFails, Eligible, Facing, Places, TypeOK
<1>5. DetectorHasCause'
  BY DEF Resume, IInv, DetectorHasCause, Places, StaticsFollow, TypeOK
<1>6. OnePermit'
  BY DEF Resume, IInv, OnePermit, Holds, TypeOK
<1>7. RestIsFree'
  BY DEF Resume, IInv, RestIsFree, Rest, Places, OnePermit, Holds, TypeOK
<1>8. PreviewWillCrash'
  BY DEF Resume, IInv, PreviewWillCrash, InFlight, Places, OnePermit, Holds, RestIsFree,
     Rest, TypeOK
<1> QED
  BY <1>1, <1>2, <1>3, <1>4, <1>5, <1>6, <1>7, <1>8 DEF IInv

LEMMA SurfaceTextureAvailableStep ==
    ASSUME IInv, SurfaceTextureAvailable
    PROVE  IInv'
<1>1. TypeOK'
  BY DEF SurfaceTextureAvailable, IInv, TypeOK, Act, UI, Crash, Looper, Detector, Phase,
     Places, Opening
<1>2. Places'
  BY DEF SurfaceTextureAvailable, IInv, Places, Opening, TypeOK
<1>3. StaticsFollow'
  BY DEF SurfaceTextureAvailable, IInv, StaticsFollow, Places, TypeOK
<1>4. CrashHasCause'
  BY DEF SurfaceTextureAvailable, IInv, CrashHasCause, CountingFails, Eligible, Facing,
     Places, TypeOK
<1>5. DetectorHasCause'
  BY DEF SurfaceTextureAvailable, IInv, DetectorHasCause, Places, StaticsFollow, TypeOK
<1>6. OnePermit'
  BY DEF SurfaceTextureAvailable, IInv, OnePermit, Holds, TypeOK
<1>7. RestIsFree'
  BY DEF SurfaceTextureAvailable, IInv, RestIsFree, Rest, Places, OnePermit, Holds, TypeOK
<1>8. PreviewWillCrash'
  BY DEF SurfaceTextureAvailable, IInv, PreviewWillCrash, InFlight, Places, OnePermit,
     Holds, RestIsFree, Rest, TypeOK
<1> QED
  BY <1>1, <1>2, <1>3, <1>4, <1>5, <1>6, <1>7, <1>8 DEF IInv

LEMMA SurfaceTextureDestroyedStep ==
    ASSUME IInv, NEW i \in Instance, SurfaceTextureDestroyed(i)
    PROVE  IInv'
<1>1. TypeOK'
  BY DEF SurfaceTextureDestroyed, IInv, TypeOK, Act, UI, Crash, Looper, Detector, Phase,
     Places, Opening
<1>2. Places'
  BY DEF SurfaceTextureDestroyed, IInv, Places, Opening, TypeOK
<1>3. StaticsFollow'
  BY DEF SurfaceTextureDestroyed, IInv, StaticsFollow, Places, TypeOK
<1>4. CrashHasCause'
  BY DEF SurfaceTextureDestroyed, IInv, CrashHasCause, CountingFails, Eligible, Facing,
     Places, TypeOK
<1>5. DetectorHasCause'
  BY DEF SurfaceTextureDestroyed, IInv, DetectorHasCause, Places, StaticsFollow, TypeOK
<1>6. OnePermit'
  BY DEF SurfaceTextureDestroyed, IInv, OnePermit, Holds, TypeOK
<1>7. RestIsFree'
  BY DEF SurfaceTextureDestroyed, IInv, RestIsFree, Rest, Places, OnePermit, Holds, TypeOK
<1>8. PreviewWillCrash'
  BY DEF SurfaceTextureDestroyed, IInv, PreviewWillCrash, InFlight, Places, OnePermit,
     Holds, RestIsFree, Rest, TypeOK
<1> QED
  BY <1>1, <1>2, <1>3, <1>4, <1>5, <1>6, <1>7, <1>8 DEF IInv

LEMMA PauseStep ==
    ASSUME IInv, NEW finished \in BOOLEAN, Pause(finished)
    PROVE  IInv'
<1>1. TypeOK'
  BY DEF Pause, IInv, TypeOK, Act, UI, Crash, Looper, Detector, Phase, Places, Opening
<1>2. Places'
  BY DEF Pause, IInv, Places, Opening, TypeOK
<1>3. StaticsFollow'
  BY DEF Pause, IInv, StaticsFollow, Places, TypeOK
<1>4. CrashHasCause'
  BY DEF Pause, IInv, CrashHasCause, CountingFails, Eligible, Facing, Places, TypeOK
<1>5. DetectorHasCause'
  BY DEF Pause, IInv, DetectorHasCause, Places, StaticsFollow, TypeOK
<1>6. OnePermit'
  BY DEF Pause, IInv, OnePermit, Holds, TypeOK
<1>7. RestIsFree'
  BY DEF Pause, IInv, RestIsFree, Rest, Places, OnePermit, Holds, TypeOK
<1>8. PreviewWillCrash'
  BY DEF Pause, IInv, PreviewWillCrash, InFlight, Places, OnePermit, Holds, RestIsFree,
     Rest, TypeOK
<1> QED
  BY <1>1, <1>2, <1>3, <1>4, <1>5, <1>6, <1>7, <1>8 DEF IInv

LEMMA DestroyStep ==
    ASSUME IInv, NEW i \in Instance, Destroy(i)
    PROVE  IInv'
<1>1. TypeOK'
  BY DEF Destroy, IInv, TypeOK, Act, UI, Crash, Looper, Detector, Phase, Places, Opening
<1>2. Places'
  BY DEF Destroy, IInv, Places, Opening, TypeOK
<1>3. StaticsFollow'
  BY DEF Destroy, IInv, StaticsFollow, Places, TypeOK
<1>4. CrashHasCause'
  BY DEF Destroy, IInv, CrashHasCause, CountingFails, Eligible, Facing, Places, TypeOK
<1>5. DetectorHasCause'
  BY DEF Destroy, IInv, DetectorHasCause, Places, StaticsFollow, TypeOK
<1>6. OnePermit'
  BY DEF Destroy, IInv, OnePermit, Holds, TypeOK
<1>7. RestIsFree'
  BY DEF Destroy, IInv, RestIsFree, Rest, Places, OnePermit, Holds, TypeOK
<1>8. PreviewWillCrash'
  BY DEF Destroy, IInv, PreviewWillCrash, InFlight, Places, OnePermit, Holds, RestIsFree,
     Rest, TypeOK
<1> QED
  BY <1>1, <1>2, <1>3, <1>4, <1>5, <1>6, <1>7, <1>8 DEF IInv

LEMMA OpenWithoutIdStep ==
    ASSUME IInv, OpenWithoutId
    PROVE  IInv'
<1>1. TypeOK'
  BY DEF OpenWithoutId, IInv, TypeOK, Act, UI, Crash, Looper, Detector, Phase, Places,
     Opening
<1>2. Places'
  BY DEF OpenWithoutId, IInv, Places, Opening, TypeOK
<1>3. StaticsFollow'
  BY DEF OpenWithoutId, IInv, StaticsFollow, Places, TypeOK
<1>4. CrashHasCause'
  BY SetUpType DEF OpenWithoutId, IInv, CrashHasCause, CountingFails, Eligible, Facing,
     Places, StaticsFollow, Opening, TypeOK
<1>5. DetectorHasCause'
  BY DEF OpenWithoutId, IInv, DetectorHasCause, Opening, TypeOK
<1>6. OnePermit'
  BY DEF OpenWithoutId, IInv, OnePermit, Holds, TypeOK
<1>7. RestIsFree'
  BY DEF OpenWithoutId, IInv, RestIsFree, Rest, Places, OnePermit, Holds, TypeOK
<1>8. PreviewWillCrash'
  BY DEF OpenWithoutId, IInv, PreviewWillCrash, InFlight, Places, OnePermit, Holds,
     RestIsFree, Rest, TypeOK
<1> QED
  BY <1>1, <1>2, <1>3, <1>4, <1>5, <1>6, <1>7, <1>8 DEF IInv

LEMMA OpenCameraStep ==
    ASSUME IInv, NEW svc \in {service, Evict}, NEW phase \in {"opening", "refused", "lost"},
           OpenCamera(svc, phase)
    PROVE  IInv'
<1>1. TypeOK'
  <2>1. SetUpCameraOutputs \in Nat
    BY SetUpType DEF IInv, TypeOK
  <2>2. CallbackLooper \in Instance \union {UILooper} /\ AfterOpen \in UI
    BY DEF IInv, TypeOK, CallbackLooper, AfterOpen, UI
  <2>3. opens + 1 \in Device /\ opens' \in 0..MaxOpens
    BY BoundsAssumption DEF OpenCamera, IInv, TypeOK, Places
  <2>4. svc \in [Device -> Phase]
    BY DEF IInv, TypeOK, Evict, Phase
  <2>5. service' \in [Device -> Phase]
    BY <2>3, <2>4 DEF OpenCamera, Phase
  <2>6. on' \in [Device -> Instance \union {UILooper}]
    BY <2>2, <2>3 DEF OpenCamera, IInv, TypeOK
  <2>7. mCameraOpenCloseLock' \in Nat
    BY DEF OpenCamera, IInv, TypeOK
  <2> QED
    BY <2>1, <2>2, <2>3, <2>5, <2>6, <2>7 DEF OpenCamera, IInv, TypeOK
<1>2. Places'
  BY DEF OpenCamera, IInv, Places, Opening, AfterOpen, TypeOK
<1>3. StaticsFollow'
  BY DEF OpenCamera, IInv, StaticsFollow, Places, TypeOK
<1>4. CrashHasCause'
  BY DEF OpenCamera, IInv, CrashHasCause, CountingFails, Eligible, Facing, Places, TypeOK
<1>5. DetectorHasCause'
  BY DEF OpenCamera, IInv, DetectorHasCause, Opening, TypeOK
<1>6. OnePermit'
  <2>1. ~dropped => lock = 1 /\ \A e \in Device : ~Holds(e)
    BY DEF OpenCamera, IInv, OnePermit, TypeOK, Opening
  <2>2. \A e \in Device : svc[e] \in {"opening", "refused", "lost"} <=> Holds(e)
    BY DEF Holds, Evict
  <2>3. opens + 1 \in Device
    BY BoundsAssumption DEF OpenCamera, IInv, TypeOK, Places
  <2>4. svc \in [Device -> Phase]
    BY DEF IInv, TypeOK, Evict, Phase
  <2>5. ~dropped => \A e \in Device : Holds(e)' <=> e = opens + 1
    BY <2>1, <2>2, <2>3, <2>4 DEF OpenCamera, Holds
  <2>6. ~dropped => lock' = 0
    BY <2>1 DEF OpenCamera
  <2> QED
    BY <2>3, <2>5, <2>6 DEF OpenCamera, OnePermit
<1>7. RestIsFree'
  BY DEF OpenCamera, IInv, RestIsFree, Rest, Places, Opening, AfterOpen, TypeOK
<1>8. PreviewWillCrash'
  <2> SUFFICES ASSUME ~dropped
               PROVE  PreviewWillCrash'
    BY DEF OpenCamera, PreviewWillCrash
  <2>1. mCameraDevice = Null
    BY DEF OpenCamera, IInv, RestIsFree, Rest, Opening
  <2>2. \A e \in Device : ~Holds(e)
    BY DEF OpenCamera, IInv, OnePermit, TypeOK, Opening
  <2>3. svc \in [Device -> Phase] /\ \A e \in Device : svc[e] \notin {"opening", "refused"}
    BY <2>2 DEF Holds, Evict, IInv, TypeOK, Phase
  <2>4. opens + 1 \in Device
    BY BoundsAssumption DEF OpenCamera, IInv, TypeOK, Places
  <2>5. InFlight' \subseteq {opens + 1}
    BY <2>3, <2>4 DEF OpenCamera, InFlight
  <2>6. on'[opens + 1] = CallbackLooper
    BY <2>4 DEF OpenCamera, IInv, TypeOK
  <2>7. CallbackLooper = UILooper => AfterOpen = "preview"
    BY DEF OpenCamera, CallbackLooper, AfterOpen, IInv, Places, Opening
  <2> QED
    BY <2>1, <2>5, <2>6, <2>7 DEF OpenCamera, PreviewWillCrash
<1> QED
  BY <1>1, <1>2, <1>3, <1>4, <1>5, <1>6, <1>7, <1>8 DEF IInv

LEMMA CreatePreviewSessionStep ==
    ASSUME IInv, CreatePreviewSession
    PROVE  IInv'
<1>1. TypeOK'
  BY DEF CreatePreviewSession, IInv, TypeOK, Act, UI, Crash, Looper, Detector, Phase,
     Places, Opening
<1>2. Places'
  BY DEF CreatePreviewSession, IInv, Places, Opening, TypeOK
<1>3. StaticsFollow'
  BY DEF CreatePreviewSession, IInv, StaticsFollow, Places, TypeOK
<1>4. CrashHasCause'
  BY DEF CreatePreviewSession, IInv, CrashHasCause, CountingFails, Eligible, Facing, Places,
     TypeOK
<1>5. DetectorHasCause'
  BY DEF CreatePreviewSession, IInv, DetectorHasCause, Places, StaticsFollow, TypeOK
<1>6. OnePermit'
  BY DEF CreatePreviewSession, IInv, OnePermit, Holds, TypeOK
<1>7. RestIsFree'
  BY DEF CreatePreviewSession, IInv, RestIsFree, Rest, Places, PreviewWillCrash, TypeOK
<1>8. PreviewWillCrash'
  BY DEF CreatePreviewSession, IInv, PreviewWillCrash, InFlight, Places, OnePermit, Holds,
     RestIsFree, Rest, TypeOK
<1> QED
  BY <1>1, <1>2, <1>3, <1>4, <1>5, <1>6, <1>7, <1>8 DEF IInv

LEMMA CloseCameraStep ==
    ASSUME IInv, CloseCamera
    PROVE  IInv'
<1>1. TypeOK'
  BY DEF CloseCamera, DeInitialized, IInv, TypeOK, Act, UI, Crash, Looper, Detector, Phase,
     Places, Opening
<1>2. Places'
  BY DEF CloseCamera, DeInitialized, IInv, Places, Opening, TypeOK
<1>3. StaticsFollow'
  BY DEF CloseCamera, DeInitialized, IInv, StaticsFollow, Places, TypeOK
<1>4. CrashHasCause'
  BY DEF CloseCamera, DeInitialized, IInv, CrashHasCause, CountingFails, Eligible, Facing,
     Places, TypeOK
<1>5. DetectorHasCause'
  BY DEF CloseCamera, DeInitialized, IInv, DetectorHasCause, Places, StaticsFollow, TypeOK
<1>6. OnePermit'
  BY DEF CloseCamera, DeInitialized, IInv, OnePermit, Holds, TypeOK
<1>7. RestIsFree'
  BY DEF CloseCamera, DeInitialized, IInv, RestIsFree, Rest, Places, OnePermit, Holds,
     TypeOK
<1>8. PreviewWillCrash'
  BY DEF CloseCamera, DeInitialized, IInv, PreviewWillCrash, InFlight, Places, OnePermit,
     Holds, RestIsFree, Rest, TypeOK
<1> QED
  BY <1>1, <1>2, <1>3, <1>4, <1>5, <1>6, <1>7, <1>8 DEF IInv

LEMMA StopBackgroundThreadStep ==
    ASSUME IInv, StopBackgroundThread
    PROVE  IInv'
<1>1. TypeOK'
  BY DEF StopBackgroundThread, IInv, TypeOK, Act, UI, Crash, Looper, Detector, Phase,
     Places, Opening
<1>2. Places'
  BY DEF StopBackgroundThread, IInv, Places, Opening, TypeOK
<1>3. StaticsFollow'
  BY DEF StopBackgroundThread, IInv, StaticsFollow, Places, TypeOK
<1>4. CrashHasCause'
  BY DEF StopBackgroundThread, IInv, CrashHasCause, CountingFails, Eligible, Facing, Places,
     TypeOK
<1>5. DetectorHasCause'
  BY DEF StopBackgroundThread, IInv, DetectorHasCause, Places, StaticsFollow, TypeOK
<1>6. OnePermit'
  BY DEF StopBackgroundThread, IInv, OnePermit, Holds, TypeOK
<1>7. RestIsFree'
  BY DEF StopBackgroundThread, IInv, RestIsFree, Rest, Places, OnePermit, Holds, TypeOK
<1>8. PreviewWillCrash'
  BY DEF StopBackgroundThread, IInv, PreviewWillCrash, InFlight, Places, OnePermit, Holds,
     RestIsFree, Rest, TypeOK
<1> QED
  BY <1>1, <1>2, <1>3, <1>4, <1>5, <1>6, <1>7, <1>8 DEF IInv

LEMMA OnOpenedStep ==
    ASSUME IInv, NEW d \in Device, OnOpened(d)
    PROVE  IInv'
<1>1. TypeOK'
  BY DEF OnOpened, CallbackRuns, IInv, TypeOK, Act, UI, Crash, Looper, Detector, Phase,
     Places, Opening
<1>2. Places'
  BY DEF OnOpened, CallbackRuns, IInv, Places, Opening, TypeOK
<1>3. StaticsFollow'
  BY DEF OnOpened, CallbackRuns, IInv, StaticsFollow, Places, TypeOK
<1>4. CrashHasCause'
  BY DEF OnOpened, CallbackRuns, IInv, CrashHasCause, CountingFails, Eligible, Facing,
     Places, TypeOK
<1>5. DetectorHasCause'
  BY DEF OnOpened, CallbackRuns, IInv, DetectorHasCause, Places, StaticsFollow, TypeOK
<1>6. OnePermit'
  BY DEF OnOpened, CallbackRuns, IInv, OnePermit, Holds, TypeOK
<1>7. RestIsFree'
  BY DEF OnOpened, CallbackRuns, IInv, RestIsFree, Rest, Places, OnePermit, Holds, TypeOK
<1>8. PreviewWillCrash'
  BY DEF OnOpened, CallbackRuns, IInv, PreviewWillCrash, InFlight, Places, OnePermit, Holds,
     RestIsFree, Rest, TypeOK
<1> QED
  BY <1>1, <1>2, <1>3, <1>4, <1>5, <1>6, <1>7, <1>8 DEF IInv

LEMMA OnGoneStep ==
    ASSUME IInv, NEW d \in Device, OnGone(d)
    PROVE  IInv'
<1>1. TypeOK'
  BY DEF OnGone, CallbackRuns, DeInitialized, IInv, TypeOK, Act, UI, Crash, Looper,
     Detector, Phase, Places, Opening
<1>2. Places'
  BY DEF OnGone, CallbackRuns, DeInitialized, IInv, Places, Opening, TypeOK
<1>3. StaticsFollow'
  BY DEF OnGone, CallbackRuns, DeInitialized, IInv, StaticsFollow, Places, TypeOK
<1>4. CrashHasCause'
  BY DEF OnGone, CallbackRuns, DeInitialized, IInv, CrashHasCause, CountingFails, Eligible,
     Facing, Places, TypeOK
<1>5. DetectorHasCause'
  BY DEF OnGone, CallbackRuns, DeInitialized, IInv, DetectorHasCause, Places, StaticsFollow,
     TypeOK
<1>6. OnePermit'
  <2> SUFFICES ASSUME ~dropped'
               PROVE  OnePermit'
    BY DEF OnePermit
  <2>1. ~dropped /\ service[d] = "refused" /\ ui # "crashed"
    BY DEF OnGone, CallbackRuns, IInv, TypeOK
  <2>2. lock = 0 /\ \A e \in Device : Holds(e) => e = d
    BY <2>1 DEF IInv, OnePermit, Holds, TypeOK
  <2>3. lock' = 1
    BY <2>2 DEF OnGone
  <2>4. \A e \in Device : ~Holds(e)'
    BY <2>2 DEF OnGone, Holds, IInv, TypeOK
  <2> QED
    BY <2>3, <2>4 DEF OnePermit
<1>7. RestIsFree'
  BY DEF OnGone, CallbackRuns, DeInitialized, IInv, RestIsFree, Rest, Places, OnePermit,
     Holds, TypeOK
<1>8. PreviewWillCrash'
  BY DEF OnGone, CallbackRuns, DeInitialized, IInv, PreviewWillCrash, InFlight, Places,
     OnePermit, Holds, RestIsFree, Rest, TypeOK
<1> QED
  BY <1>1, <1>2, <1>3, <1>4, <1>5, <1>6, <1>7, <1>8 DEF IInv

LEMMA InitializedStep ==
    ASSUME IInv, NEW i \in Instance, Initialized(i)
    PROVE  IInv'
<1>1. TypeOK'
  BY DEF Initialized, ClosedBefore, IInv, TypeOK, Act, UI, Crash, Looper, Detector, Phase,
     Places, Opening
<1>2. Places'
  BY DEF Initialized, ClosedBefore, IInv, Places, Opening, TypeOK
<1>3. StaticsFollow'
  BY DEF Initialized, ClosedBefore, IInv, StaticsFollow, Places, TypeOK
<1>4. CrashHasCause'
  BY DEF Initialized, ClosedBefore, IInv, CrashHasCause, CountingFails, Eligible, Facing,
     Places, TypeOK
<1>5. DetectorHasCause'
  BY DEF Initialized, ClosedBefore, IInv, DetectorHasCause, Places, Act, TypeOK
<1>6. OnePermit'
  BY DEF Initialized, ClosedBefore, IInv, OnePermit, Holds, TypeOK
<1>7. RestIsFree'
  BY DEF Initialized, ClosedBefore, IInv, RestIsFree, Rest, Places, OnePermit, Holds, TypeOK
<1>8. PreviewWillCrash'
  BY DEF Initialized, ClosedBefore, IInv, PreviewWillCrash, InFlight, Places, OnePermit,
     Holds, RestIsFree, Rest, TypeOK
<1> QED
  BY <1>1, <1>2, <1>3, <1>4, <1>5, <1>6, <1>7, <1>8 DEF IInv

LEMMA NewProcessStep ==
    ASSUME IInv, NewProcess
    PROVE  IInv'
<1>1. TypeOK'
  <2>1. act' \in [Instance -> Act] /\ looper' \in [Instance -> Looper]
    BY DEF NewProcess, Act, Looper
  <2>2. mFaceDet' \in [Instance -> Detector] /\ service' \in [Device -> Phase]
    BY DEF NewProcess, Detector, Phase
  <2>3. on' \in [Device -> Instance \union {UILooper}]
    BY DEF NewProcess
  <2>4. opens' \in 0..MaxOpens
    BY BoundsAssumption DEF NewProcess
  <2> QED
    BY <2>1, <2>2, <2>3, <2>4 DEF NewProcess, IInv, TypeOK, UI, Crash
<1>2. Places'
  BY DEF NewProcess, IInv, Places, Opening, TypeOK
<1>3. StaticsFollow'
  BY DEF NewProcess, IInv, StaticsFollow, Places, TypeOK
<1>4. CrashHasCause'
  BY DEF NewProcess, IInv, CrashHasCause, CountingFails, Eligible, Facing, Places, TypeOK
<1>5. DetectorHasCause'
  BY DEF NewProcess, IInv, DetectorHasCause, Places, StaticsFollow, TypeOK
<1>6. OnePermit'
  BY DEF NewProcess, IInv, OnePermit, Holds, TypeOK
<1>7. RestIsFree'
  BY DEF NewProcess, IInv, RestIsFree, Rest, Places, OnePermit, Holds, TypeOK
<1>8. PreviewWillCrash'
  BY DEF NewProcess, IInv, PreviewWillCrash, InFlight, Places, OnePermit, Holds, RestIsFree,
     Rest, TypeOK
<1> QED
  BY <1>1, <1>2, <1>3, <1>4, <1>5, <1>6, <1>7, <1>8 DEF IInv

LEMMA NextIInv == IInv /\ [Next]_vars => IInv'
<1> SUFFICES ASSUME IInv, [Next]_vars
             PROVE  IInv'
  OBVIOUS
<1>1. CASE UNCHANGED vars
  BY <1>1 DEF vars, IInv, TypeOK, Places, Opening, StaticsFollow, CrashHasCause,
     CountingFails,
              Eligible, Facing, DetectorHasCause, OnePermit, Holds, RestIsFree, Rest,
              PreviewWillCrash, InFlight
<1>2. CASE Next
  <2>1. CASE OpenStep
    <3>1. \/ OpenWithoutId
          \/ \E svc \in {service, Evict}, phase \in {"opening", "refused", "lost"} :
                OpenCamera(svc, phase)
      BY <2>1 DEF OpenStep
    <3> QED
      BY <3>1, OpenWithoutIdStep, OpenCameraStep
  <2>2. CASE Resume \/ SurfaceTextureAvailable \/ \E finished \in BOOLEAN : Pause(finished)
    BY <2>2, ResumeStep, SurfaceTextureAvailableStep, PauseStep
  <2>3. CASE \E i \in Instance :
                Launch(i) \/ Destroy(i) \/ SurfaceTextureDestroyed(i) \/ Initialized(i)
    BY <2>3, LaunchStep, DestroyStep, SurfaceTextureDestroyedStep, InitializedStep
  <2>4. CASE CreatePreviewSession \/ CloseCamera \/ StopBackgroundThread \/ NewProcess
    BY <2>4, CreatePreviewSessionStep, CloseCameraStep, StopBackgroundThreadStep, NewProcessStep
  <2>5. CASE \E d \in Device : OnOpened(d) \/ OnGone(d)
    BY <2>5, OnOpenedStep, OnGoneStep
  <2> QED
    BY <1>2, <2>1, <2>2, <2>3, <2>4, <2>5 DEF Next
<1> QED
  BY <1>1, <1>2

----------------------------------------------------------------------------

\* The invariant of the handover holds in every state.
THEOREM Invariance == Spec => []IInv
BY InitIInv, NextIInv, PTL DEF Spec

\* Every variable keeps its type, over any number of instances.
THEOREM TypeCorrect == Spec => []TypeOK
<1>1. IInv => TypeOK
  BY DEF IInv
<1> QED
  BY <1>1, Invariance, PTL

\* The statics are those of the instance on the screen, unless a predecessor's
\* onDestroy came behind its onResume (CameraUtils.java:314-324).
THEOREM StaticsOwned == Spec => []ShownOwnsStatics
<1>1. IInv => ShownOwnsStatics
  BY DEF IInv, TypeOK, Places, StaticsFollow, ShownOwnsStatics
<1> QED
  BY <1>1, Invariance, PTL

\* The UI thread never waits for its own looper before a connection is lost.
THEOREM NoWaitForItself == Spec => []NoSelfWait
<1>1. IInv => NoSelfWait
  <2> SUFFICES ASSUME IInv, ~dropped
               PROVE  CloseIsAnswered /\ OpenFindsPermit
    BY DEF NoSelfWait
  <2>1. OpenFindsPermit
    BY DEF IInv, RestIsFree, Rest, Opening, OpenFindsPermit
  <2>2. CloseIsAnswered
    <3> SUFFICES ASSUME ui = "closing", lock = 0
                 PROVE  \/ \E d \in InFlight : on[d] # UILooper
                        \/ \E d \in Device : service[d] = "lost"
      BY DEF CloseIsAnswered
    <3>1. PICK d \in Device : Holds(d)
      BY DEF IInv, OnePermit
    <3>2. d \in InFlight => on[d] # UILooper
      BY DEF IInv, PreviewWillCrash
    <3> QED
      BY <3>1, <3>2 DEF Holds, InFlight
  <2> QED
    BY <2>1, <2>2
<1> QED
  BY <1>1, Invariance, PTL

\* An open without a camera id has one of the stated causes, for every list of
\* cameras (CameraUtils.java:171-230).
THEOREM NoIdExplained == Spec => []NoIdHasCause
<1>1. IInv => NoIdHasCause
  BY DEF IInv, CrashHasCause, NoIdHasCause
<1> QED
  BY <1>1, Invariance, PTL

\* A detector is left to the garbage collector only for one of the stated causes.
THEOREM DetectorsExplained == Spec => []LeftDetectorHasCause
<1>1. IInv => LeftDetectorHasCause
  BY DEF IInv, DetectorHasCause, LeftDetectorHasCause
<1> QED
  BY <1>1, Invariance, PTL

=============================================================================
