------------------------ MODULE CameraSession_proofs ------------------------
(***************************************************************************)
(* What the checks of CameraSession show for three opens of the camera,    *)
(* for any number of them.  The properties rest on one inductive           *)
(* invariant, IInv: the types, how far the UI thread, the lifecycle and    *)
(* the looper can be apart (Phases), when no callback can be outstanding   *)
(* (Quiet), and the account of the permits.                                *)
(***************************************************************************)
EXTENDS CameraSession, FiniteSetTheorems, TLAPS

Closing == {"closeLock", "closeCheck", "closeDevice", "closeNull", "closeReader", "quit"}

\* How openCamera is left: it returns, or the process dies.
OpenEnds == OpenReturns \/ Die("openFailed")

\* Where the UI thread can be for a given state of the activity and the looper.
Phases ==
    /\ act = "resumed" => looper = "running" /\ ui \notin Closing \union {"join"}
    /\ act \in {"stopped", "destroyed"} => ui \in {"idle", "crashed"}
    /\ looper = "null" => act \in {"stopped", "destroyed"}
    /\ ui \in Closing => looper = "running"
    /\ ui = "join" => looper = "quitting"
    /\ ui = "idle" /\ act # "resumed" => looper \in {"null", "dead"}
    /\ ui \in {"openFromResume", "openFromSurface", "preview", "session"} =>
         /\ surface
         /\ act = "paused" => looper = "dead"
    /\ crash # "none" <=> ui = "crashed"

\* No callback is queued or running when no open can have been made yet.
Quiet ==
    /\ ~surface => Attached = {} /\ bg.at = "idle"
    /\ Opening => Attached = {} /\ bg.at = "idle"

\* The devices are used in the order of their numbers, and an open has one left.
Fresh ==
    /\ \A d \in Device : d > opens => service[d] = "unused"
    /\ Opening => opens < MaxOpens

\* mCameraDevice, and the device about to be assigned to it, were opened.
Fields ==
    /\ mCameraDevice # Null
         => service[mCameraDevice] \notin {"unused", "opening", "refused", "lost"}
    /\ bg.at = "assign"
         => /\ bg.dev \in Device
            /\ service[bg.dev] \in {"open", "dropping"}
            /\ mCameraDevice # bg.dev
    /\ FieldIsNotClosed

\* No reader is left where a new one can be made, and a preview that starts while
\* the activity is paused finds no device.
Readers ==
    /\ ui \in {"quit", "join"} => mPreviewReader = Null
    /\ ui = "idle" /\ act # "resumed" => mPreviewReader = Null
    /\ ui \in {"openFromResume", "openFromSurface", "preview"} => mPreviewReader = Null
    /\ ui = "session" => act = "resumed"
    /\ act = "resumed" /\ ~surface => mPreviewReader = Null
    /\ /\ act = "paused"
       /\ ui \in {"closeReader", "quit", "join", "idle", "openFromSurface", "preview"}
       /\ ~surface \/ ui \in {"openFromSurface", "preview"}
       => mCameraDevice = Null

\* The permit is free wherever the next open can come from: while the UI thread
\* rests in an activity that is not resumed, or that has no texture yet.
Free ==
    /\ ui = "idle" /\ (act # "resumed" \/ ~surface) => mCameraOpenCloseLock > 0
    /\ ui \in {"quit", "join"} => mCameraOpenCloseLock > 0
    /\ ui = "openFromResume" => act = "resumed"
    /\ OpenNeverWaits

IInv ==
    /\ TypeOK
    /\ Phases
    /\ Quiet
    /\ Fresh
    /\ Fields
    /\ DeadLooperIsQuiet
    /\ OneAttachedDevice
    /\ Readers
    /\ PermitAccounting
    /\ Free

----------------------------------------------------------------------------
(* Counting devices by their phase *)

Count(f, S) == Cardinality({d \in Device : f[d] \in S})

\* What one device in phase p adds to the count of S.
Has(p, S) == IF p \in S THEN 1 ELSE 0

LEMMA DevicesFinite == IsFiniteSet(Device)
  BY MaxOpensAssumption, FS_Interval DEF Device

LEMMA CountIsNat ==
  ASSUME NEW f, NEW S
  PROVE  Count(f, S) \in Nat /\ IsFiniteSet({d \in Device : f[d] \in S})
  <1>1. {d \in Device : f[d] \in S} \subseteq Device
    OBVIOUS
  <1>2. IsFiniteSet({d \in Device : f[d] \in S})
    BY <1>1, DevicesFinite, FS_Subset
  <1> QED
    BY <1>2, FS_CardinalityType DEF Count

\* One device changes its phase: the count of S changes by what that device
\* brings and takes.
LEMMA CountChange ==
  ASSUME NEW f \in [Device -> Phase], NEW S, NEW d \in Device, NEW p \in Phase
  PROVE  Count([f EXCEPT ![d] = p], S)
           = Count(f, S) + Has(p, S) - Has(f[d], S)
  <1> DEFINE A == {x \in Device : f[x] \in S}
             g == [f EXCEPT ![d] = p]
             B == {x \in Device : g[x] \in S}
  <1>1. IsFiniteSet(A) /\ IsFiniteSet(B) /\ Cardinality(A) \in Nat /\ Cardinality(B) \in Nat
    BY CountIsNat DEF Count
  <1>2. Count(f, S) = Cardinality(A) /\ Count(g, S) = Cardinality(B)
    BY DEF Count
  <1>3. \/ p \in S /\ f[d] \in S /\ B = A
        \/ p \in S /\ f[d] \notin S /\ B = A \union {d} /\ d \notin A
        \/ p \notin S /\ f[d] \in S /\ B = A \ {d} /\ d \in A
        \/ p \notin S /\ f[d] \notin S /\ B = A
    <2>1. \A x \in Device : g[x] = IF x = d THEN p ELSE f[x]
      OBVIOUS
    <2> HIDE DEF g
    <2> QED
      BY <2>1
  <1> HIDE DEF A, B, g
  <1>4. d \notin A => Cardinality(A \union {d}) = Cardinality(A) + 1
    BY <1>1, FS_AddElement
  <1>5. d \in A => Cardinality(A \ {d}) = Cardinality(A) - 1
    BY <1>1, FS_RemoveElement
  <1>6. Count(g, S) = Count(f, S) + Has(p, S) - Has(f[d], S)
    BY <1>1, <1>2, <1>3, <1>4, <1>5 DEF Has
  <1> QED
    BY <1>6 DEF g

\* Closing the looper or opening a newer device moves devices only between
\* phases that are not counted.
LEMMA CountUnmoved ==
  ASSUME NEW f \in [Device -> Phase], NEW g \in [Device -> Phase], NEW S,
         \A d \in Device : (g[d] \in S) = (f[d] \in S)
  PROVE  Count(g, S) = Count(f, S)
  <1>1. {d \in Device : g[d] \in S} = {d \in Device : f[d] \in S}
    OBVIOUS
  <1> QED
    BY <1>1 DEF Count

\* No device is counted in S.
LEMMA CountZero ==
  ASSUME NEW f, NEW S
  PROVE  Count(f, S) = 0 <=> \A d \in Device : f[d] \notin S
  <1> DEFINE A == {d \in Device : f[d] \in S}
  <1>1. Cardinality(A) = 0 <=> A = {}
    BY CountIsNat, FS_EmptySet
  <1>2. A = {} <=> \A d \in Device : f[d] \notin S
    OBVIOUS
  <1> QED
    BY <1>1, <1>2 DEF Count

\* The account, in counts.
Answer == {"opening", "refused"}

LEMMA AccountInCounts ==
  PermitAccounting <=>
    mCameraOpenCloseLock + Count(service, Answer) + Count(service, {"lost"})
        + (IF ui \in ClosingUI THEN 1 ELSE 0)
      = 1 + Count(service, {"dropped"})
  BY DEF PermitAccounting, InFlight, Lost, Dropped, In, Count, Answer

LEMMA NullIsNoDevice == Null \notin Device
  BY DEF Null, Device

\* Evict and Orphaned each move the devices of one phase to another.
LEMMA EvictFacts ==
  ASSUME service \in [Device -> Phase]
  PROVE  /\ Evict \in [Device -> Phase]
         /\ \A d \in Device : \/ Evict[d] = service[d]
                              \/ (service[d] = "orphan" /\ Evict[d] = "evicted")
  <1>1. \A d \in Device : Evict[d] = IF service[d] = "orphan" THEN "evicted" ELSE service[d]
    BY DEF Evict
  <1>2. Evict \in [Device -> Phase]
    BY DEF Evict, Phase
  <1> QED
    BY <1>1, <1>2

----------------------------------------------------------------------------
(* The initial state *)

LEMMA InitIInv == Init => IInv
  <1> SUFFICES ASSUME Init PROVE IInv
    OBVIOUS
  <1>1. TypeOK
    <2>1. service \in [Device -> Phase] /\ opens \in 0..MaxOpens
      BY MaxOpensAssumption DEF Init, Phase
    <2> QED
      BY <2>1 DEF Init, TypeOK, Act, UI, Crash, Looper, Null, Idle
  <1>2. Phases /\ Fresh /\ Fields /\ Readers
    BY DEF Init, Phases, Closing, Fresh, Opening, Fields, FieldIsNotClosed, Idle, Readers
  <1>3. \A S \in {InFlight, Attached, Queued, Lost, Dropped} : S = {}
    BY DEF Init, InFlight, Attached, Queued, Lost, Dropped, In
  <1>4. Quiet /\ DeadLooperIsQuiet /\ OneAttachedDevice /\ Free
    BY <1>3 DEF Init, Idle, Quiet, DeadLooperIsQuiet, OneAttachedDevice, Free,
       OpenNeverWaits, Opening
  <1>5. PermitAccounting
    BY <1>3, FS_EmptySet DEF Init, PermitAccounting, ClosingUI
  <1> QED
    BY <1>1, <1>2, <1>4, <1>5 DEF IInv

----------------------------------------------------------------------------
(* Every step keeps IInv *)

LEMMA StepTypes == TypeOK /\ Fresh /\ [Next]_vars => TypeOK'
  <1> SUFFICES ASSUME TypeOK, Fresh, [Next]_vars PROVE TypeOK'
    OBVIOUS
  <1> USE DEF TypeOK, Act, UI, Crash, Looper, Null, activity, lock, fields
  <1>1. CASE LifecycleStep
    BY <1>1, ZenonT(60) DEF LifecycleStep, Resume, Pause, Stop, Destroy, Create,
       SurfaceTextureAvailable, SurfaceTextureDestroyed
  <1>2. CASE OpenStep
    <2>1. PICK svc \in [Device -> Phase], phase \in Phase :
             TakePermitAndOpen(svc, phase) /\ OpenEnds
      BY <1>2 DEF OpenStep, OpenAccepted, OpenRefused, OpenThrows, OpenDies, OpenEnds, Evict, Phase
    <2>2. Next1 \in 0..MaxOpens
      BY <2>1, MaxOpensAssumption DEF TakePermitAndOpen, Fresh, Next1
    <2>3. service' \in [Device -> Phase] /\ opens' \in 0..MaxOpens
      BY <2>1, <2>2 DEF TakePermitAndOpen
    <2>4. mCameraOpenCloseLock' \in Nat /\ ui' \in UI /\ crash' \in Crash
      BY <2>1 DEF TakePermitAndOpen, OpenEnds, OpenReturns, Die, AfterOpen
    <2> QED
      BY <2>1, <2>3, <2>4 DEF TakePermitAndOpen
  <1>3. CASE PreviewStep
    BY <1>3 DEF PreviewStep, PreviewCrashes, PreviewFails, ReaderCreated, SessionCreated,
       DeviceCalls, DeviceWorks, Die
  <1>4. CASE SessionStep
    BY <1>4 DEF SessionStep, Configured, ConfigureFailed, Die
  <1>5. CASE CloseStep
    <2>1. service' \in [Device -> Phase]
      BY <1>5 DEF CloseStep, CloseAcquires, CloseChecksDevice, CloseClosesDevice,
         CloseNullsDevice, CloseReleases, QuitLooper, JoinLooper, Orphaned, Phase
    <2>2. mCameraOpenCloseLock' \in Nat
      BY <1>5 DEF CloseStep, CloseAcquires, CloseChecksDevice, CloseClosesDevice,
         CloseNullsDevice, CloseReleases, QuitLooper, JoinLooper
    <2> QED
      BY <1>5, <2>1, <2>2 DEF CloseStep, CloseAcquires, CloseChecksDevice,
         CloseClosesDevice, CloseNullsDevice, CloseReleases, QuitLooper, JoinLooper, Die
  <1>6. CASE LooperStep
    <2>1. CASE WriteDevice
      BY <2>1 DEF WriteDevice, Idle, LooperRuns
    <2>2. CASE \E d \in Device : OnOpened(d) \/ OnRefused(d) \/ OnDropped(d)
      <3>1. PICK d \in Device, phases \in SUBSET Phase, phase \in Phase,
                 then \in {"assign", "clear"} : RunCallback(d, phases, phase, then)
        BY <2>2 DEF OnOpened, OnRefused, OnDropped, Phase
      <3>2. service' \in [Device -> Phase]
        BY <3>1 DEF RunCallback
      <3>3. bg' \in [at : {"idle", "assign", "clear"}, dev : Device \union {Null}]
        BY <3>1 DEF RunCallback
      <3> QED
        BY <3>1, <3>2, <3>3 DEF RunCallback
    <2> QED
      BY <1>6, <2>1, <2>2 DEF LooperStep
  <1>7. CASE \E d \in Device : ServiceDrops(d)
    BY <1>7 DEF ServiceDrops, Phase
  <1>8. CASE NewProcess
    <2>1. service' \in [Device -> Phase] /\ opens' \in 0..MaxOpens
      BY <1>8, MaxOpensAssumption DEF NewProcess, Phase
    <2> QED
      BY <1>8, <2>1 DEF NewProcess, Idle
  <1>9. CASE UNCHANGED vars
    BY <1>9 DEF vars
  <1> QED
    BY <1>1, <1>2, <1>3, <1>4, <1>5, <1>6, <1>7, <1>8, <1>9 DEF Next

LEMMA StepPhases == TypeOK /\ Phases /\ [Next]_vars => Phases'
  <1> SUFFICES ASSUME TypeOK, Phases, [Next]_vars PROVE Phases'
    OBVIOUS
  <1> USE DEF TypeOK, Phases, Closing, UI, Act, Looper, Crash, activity, lock, fields
  <1>1. CASE LifecycleStep
    <2>1. CASE Resume
      BY <2>1 DEF Resume
    <2>2. CASE Pause
      BY <2>2 DEF Pause
    <2>3. CASE Stop \/ Destroy \/ Create
      BY <2>3 DEF Stop, Destroy, Create
    <2>4. CASE SurfaceTextureAvailable
      BY <2>4 DEF SurfaceTextureAvailable
    <2>5. CASE SurfaceTextureDestroyed
      BY <2>5 DEF SurfaceTextureDestroyed
    <2> QED
      BY <1>1, <2>1, <2>2, <2>3, <2>4, <2>5 DEF LifecycleStep
  <1>2. CASE OpenStep
    BY <1>2 DEF OpenStep, OpenAccepted, OpenRefused, OpenThrows, OpenDies, OpenReturns, Die,
       TakePermitAndOpen, AfterOpen, Opening
  <1>3. CASE PreviewStep
    BY <1>3 DEF PreviewStep, PreviewCrashes, PreviewFails, ReaderCreated, SessionCreated,
       DeviceCalls, DeviceWorks, Die
  <1>4. CASE SessionStep
    BY <1>4 DEF SessionStep, Configured, ConfigureFailed, Die
  <1>5. CASE CloseStep
    BY <1>5 DEF CloseStep, CloseAcquires, CloseChecksDevice, CloseClosesDevice,
       CloseNullsDevice, CloseReleases, QuitLooper, JoinLooper, Die
  <1>6. CASE LooperStep
    BY <1>6 DEF LooperStep, OnOpened, OnRefused, OnDropped, RunCallback, WriteDevice
  <1>7. CASE \E d \in Device : ServiceDrops(d)
    BY <1>7 DEF ServiceDrops
  <1>8. CASE NewProcess
    BY <1>8 DEF NewProcess
  <1>9. CASE UNCHANGED vars
    BY <1>9 DEF vars
  <1> QED
    BY <1>1, <1>2, <1>3, <1>4, <1>5, <1>6, <1>7, <1>8, <1>9 DEF Next

LEMMA StepFresh == TypeOK /\ Fresh /\ Fields /\ [Next]_vars => Fresh'
  <1> SUFFICES ASSUME TypeOK, Fresh, Fields, [Next]_vars PROVE Fresh'
    OBVIOUS
  <1> USE DEF TypeOK, Fresh, Opening, activity, lock, fields
  <1>1. CASE LifecycleStep
    BY <1>1 DEF LifecycleStep, Resume, Pause, Stop, Destroy, Create,
       SurfaceTextureAvailable, SurfaceTextureDestroyed
  <1>2. CASE OpenStep
    <2>1. PICK svc \in [Device -> Phase], phase \in Phase :
             /\ TakePermitAndOpen(svc, phase) /\ OpenEnds
             /\ \A d \in Device : service[d] = "unused" => svc[d] = "unused"
      BY <1>2 DEF OpenStep, OpenAccepted, OpenRefused, OpenThrows, OpenDies, OpenEnds, Evict, Phase
    <2>2. ui' \in {"idle", "preview", "crashed"}
      BY <2>1 DEF OpenEnds, OpenReturns, Die, AfterOpen
    <2> QED
      BY <2>1, <2>2 DEF TakePermitAndOpen, Next1, Device
  <1>3. CASE PreviewStep
    BY <1>3 DEF PreviewStep, PreviewCrashes, PreviewFails, ReaderCreated, SessionCreated,
       DeviceCalls, DeviceWorks, Die
  <1>4. CASE SessionStep
    BY <1>4 DEF SessionStep, Configured, ConfigureFailed, Die
  <1>5. CASE CloseStep
    <2>1. \A d \in Device : service[d] = "unused" => service'[d] = "unused"
      BY <1>5 DEF CloseStep, CloseAcquires, CloseChecksDevice, CloseClosesDevice,
         CloseNullsDevice, CloseReleases, QuitLooper, JoinLooper, Orphaned, Fields
    <2> QED
      BY <1>5, <2>1 DEF CloseStep, CloseAcquires, CloseChecksDevice,
         CloseClosesDevice, CloseNullsDevice, CloseReleases, QuitLooper, JoinLooper, Die
  <1>6. CASE LooperStep
    BY <1>6 DEF LooperStep, OnOpened, OnRefused, OnDropped, RunCallback, WriteDevice
  <1>7. CASE \E d \in Device : ServiceDrops(d)
    BY <1>7 DEF ServiceDrops
  <1>8. CASE NewProcess
    BY <1>8 DEF NewProcess
  <1>9. CASE UNCHANGED vars
    BY <1>9 DEF vars
  <1> QED
    BY <1>1, <1>2, <1>3, <1>4, <1>5, <1>6, <1>7, <1>8, <1>9 DEF Next, OpenStep

LEMMA StepFields ==
  TypeOK /\ Fresh /\ Fields /\ Quiet /\ [Next]_vars => Fields'
  <1> SUFFICES ASSUME TypeOK, Fresh, Fields, Quiet, [Next]_vars PROVE Fields'
    OBVIOUS
  <1> USE DEF TypeOK, Fields, FieldIsNotClosed, Null, activity, lock, fields
  <1>1. CASE LifecycleStep
    BY <1>1 DEF LifecycleStep, Resume, Pause, Stop, Destroy, Create,
       SurfaceTextureAvailable, SurfaceTextureDestroyed
  <1>2. CASE OpenStep
    <2>1. PICK svc \in [Device -> Phase], phase \in Phase :
             /\ TakePermitAndOpen(svc, phase)
             /\ \A d \in Device : \/ svc[d] = service[d]
                                  \/ (service[d] = "orphan" /\ svc[d] = "evicted")
      BY <1>2, EvictFacts DEF OpenStep, OpenAccepted, OpenRefused, OpenThrows, OpenDies, Phase
    <2>2. Next1 \in Device /\ service[Next1] = "unused" /\ bg.at = "idle"
      BY <2>1, MaxOpensAssumption DEF TakePermitAndOpen, Next1, Device, Fresh, Quiet
    <2>3. mCameraDevice # Null => mCameraDevice # Next1
      BY <2>2
    <2>4. \A d \in Device : d # Next1 => service'[d] = svc[d]
      BY <2>1 DEF TakePermitAndOpen
    <2>5. bg' = bg /\ mCameraDevice' = mCameraDevice /\ ui # "closeNull"
      BY <2>1 DEF TakePermitAndOpen, Opening
    <2>6. mCameraDevice # Null => service'[mCameraDevice] \in {service[mCameraDevice], "evicted"}
      BY <2>1, <2>3, <2>4
    <2> QED
      BY <2>2, <2>5, <2>6
  <1>3. CASE PreviewStep
    BY <1>3 DEF PreviewStep, PreviewCrashes, PreviewFails, ReaderCreated, SessionCreated,
       DeviceCalls, DeviceWorks, Die
  <1>4. CASE SessionStep
    BY <1>4 DEF SessionStep, Configured, ConfigureFailed, Die
  <1>5. CASE CloseStep
    <2>1. CASE CloseClosesDevice
      <3>1. \A d \in Device : d # mCameraDevice => service'[d] = service[d]
        BY <2>1 DEF CloseClosesDevice
      <3>2. mCameraDevice' = mCameraDevice /\ bg' = bg
        BY <2>1 DEF CloseClosesDevice
      <3>3. \/ mCameraDevice = Null
            \/ /\ service'[mCameraDevice] \in {"dropped", "closed"}
               /\ ui' = "closeNull"
        BY <2>1 DEF CloseClosesDevice
      <3> QED
        BY <3>1, <3>2, <3>3, NullIsNoDevice
    <2>2. CASE JoinLooper
      BY <2>2 DEF JoinLooper, Orphaned, Idle
    <2>3. CASE CloseNullsDevice
      BY <2>3, NullIsNoDevice DEF CloseNullsDevice
    <2>4. CASE UNCHANGED <<service, mCameraDevice, bg>> /\ ui # "closeNull"
      BY <2>4
    <2> QED
      BY <1>5, <2>1, <2>2, <2>3, <2>4 DEF CloseStep, CloseAcquires, CloseChecksDevice,
         CloseReleases, QuitLooper
  <1>6. CASE WriteDevice
    BY <1>6 DEF WriteDevice, Idle
  <1>7. ASSUME NEW d \in Device, OnOpened(d) \/ OnRefused(d) \/ OnDropped(d)
        PROVE  Fields'
    <2>1. bg'.at \in {"assign", "clear"} /\ bg'.dev = d
      BY <1>7 DEF OnOpened, OnRefused, OnDropped, RunCallback, Idle
    <2>2. bg.at = "idle" /\ mCameraDevice' = mCameraDevice
      BY <1>7 DEF OnOpened, OnRefused, OnDropped, RunCallback
    <2>3. \A e \in Device : e # d => service'[e] = service[e]
      BY <1>7 DEF OnOpened, OnRefused, OnDropped, RunCallback
    <2>4. service'[d] \in {"open", "closed", "dropped"}
      BY <1>7 DEF OnOpened, OnRefused, OnDropped, RunCallback
    <2>5. bg'.at = "assign" => service'[d] = "open" /\ service[d] = "opening"
      BY <1>7 DEF OnOpened, OnRefused, OnDropped, RunCallback
    <2>6. mCameraDevice' # Null
            => service'[mCameraDevice'] \notin {"unused", "opening", "refused", "lost"}
      BY <2>2, <2>3, <2>4
    <2>7. bg'.at = "assign" => mCameraDevice' # d
      BY <2>2, <2>5, NullIsNoDevice
    <2>8. FieldIsNotClosed'
      BY <2>1 DEF FieldIsNotClosed
    <2> HIDE DEF FieldIsNotClosed
    <2> QED
      BY <2>1, <2>5, <2>6, <2>7, <2>8 DEF Fields
  <1>8. CASE \E d \in Device : ServiceDrops(d)
    BY <1>8 DEF ServiceDrops
  <1>9. CASE NewProcess
    BY <1>9 DEF NewProcess, Idle
  <1>10. CASE UNCHANGED vars
    BY <1>10 DEF vars
  <1> QED
    BY <1>1, <1>2, <1>3, <1>4, <1>5, <1>6, <1>7, <1>8, <1>9, <1>10
    DEF Next, OpenStep, LooperStep

\* The three facts about outstanding callbacks hold together.
LEMMA StepQuiet ==
  /\ TypeOK /\ Phases /\ Fresh /\ Fields
  /\ Quiet /\ DeadLooperIsQuiet /\ OneAttachedDevice
  /\ [Next]_vars
  => Quiet' /\ DeadLooperIsQuiet' /\ OneAttachedDevice'
  <1> SUFFICES ASSUME TypeOK, Phases, Fresh, Fields, Quiet, DeadLooperIsQuiet,
                      OneAttachedDevice, [Next]_vars
               PROVE  Quiet' /\ DeadLooperIsQuiet' /\ OneAttachedDevice'
    OBVIOUS
  <1> USE DEF TypeOK, Quiet, DeadLooperIsQuiet, OneAttachedDevice, Attached, In,
          activity, lock, fields
  <1>1. CASE LifecycleStep
    <2>1. Attached' = Attached /\ bg' = bg
      BY <1>1 DEF LifecycleStep, Resume, Pause, Stop, Destroy, Create,
         SurfaceTextureAvailable, SurfaceTextureDestroyed
    <2>2. CASE Resume \/ SurfaceTextureAvailable \/ SurfaceTextureDestroyed
      BY <2>1, <2>2 DEF Resume, SurfaceTextureAvailable, SurfaceTextureDestroyed,
         Phases, Opening
    <2>3. CASE Pause \/ Stop \/ Destroy \/ Create
      BY <2>1, <2>3 DEF Pause, Stop, Destroy, Create, Phases, Opening
    <2> QED
      BY <1>1, <2>2, <2>3 DEF LifecycleStep
  <1>2. CASE OpenStep
    <2>1. PICK svc \in [Device -> Phase], phase \in Phase :
             /\ TakePermitAndOpen(svc, phase) /\ OpenEnds
             /\ \A d \in Device : svc[d] = service[d] \/ svc[d] = "evicted"
             /\ looper # "running" => phase = "lost"
      BY <1>2, EvictFacts
      DEF OpenStep, OpenAccepted, OpenRefused, OpenThrows, OpenDies, OpenEnds, Phase
    <2>2. bg'.at = "idle" /\ surface' /\ looper' = looper /\ looper # "null"
      <3>1. surface /\ act \notin {"stopped", "destroyed"}
        BY <2>1 DEF TakePermitAndOpen, Opening, Phases
      <3>2. looper # "null"
        BY <3>1 DEF Phases
      <3> QED
        BY <2>1, <3>1, <3>2 DEF TakePermitAndOpen
    <2>3. ui' \notin {"openFromResume", "openFromSurface"}
      BY <2>1 DEF OpenEnds, OpenReturns, Die, AfterOpen
    <2>4. Attached' \subseteq {Next1} /\ (looper # "running" => Attached' = {})
      BY <2>1 DEF TakePermitAndOpen
    <2> QED
      BY <2>2, <2>3, <2>4 DEF Opening
  <1>3. CASE PreviewStep
    BY <1>3 DEF PreviewStep, PreviewCrashes, PreviewFails, ReaderCreated, SessionCreated,
       DeviceCalls, DeviceWorks, Die, Opening
  <1>4. CASE SessionStep
    BY <1>4 DEF SessionStep, Configured, ConfigureFailed, Die, Opening
  <1>5. CASE CloseStep
    <2>1. Attached' \subseteq Attached
      BY <1>5 DEF CloseStep, CloseAcquires, CloseChecksDevice, CloseClosesDevice,
         CloseNullsDevice, CloseReleases, QuitLooper, JoinLooper, Orphaned
    <2>2. CASE JoinLooper
      <3>1. Attached' = {}
        BY <2>2 DEF JoinLooper, Orphaned, Queued
      <3> QED
        BY <2>2, <3>1 DEF JoinLooper, Opening
    <2>3. CASE ~JoinLooper
      BY <1>5, <2>1, <2>3 DEF CloseStep, CloseAcquires, CloseChecksDevice,
         CloseClosesDevice, CloseNullsDevice, CloseReleases, QuitLooper, Die, Opening
    <2> QED
      BY <2>2, <2>3
  <1>6. CASE LooperStep
    <2>1. Attached # {} \/ bg.at # "idle"
      BY <1>6 DEF LooperStep, OnOpened, OnRefused, OnDropped, RunCallback, WriteDevice
    <2>2. Attached' \subseteq Attached
      BY <1>6 DEF LooperStep, OnOpened, OnRefused, OnDropped, RunCallback, WriteDevice
    <2>3. looper \in {"running", "quitting"} /\ UNCHANGED <<surface, looper, ui>>
      BY <1>6 DEF LooperStep, OnOpened, OnRefused, OnDropped, RunCallback, WriteDevice,
         LooperRuns
    <2> QED
      BY <2>1, <2>2, <2>3 DEF Opening
  <1>7. CASE \E d \in Device : ServiceDrops(d)
    <2>1. Attached' = Attached
      BY <1>7 DEF ServiceDrops
    <2> QED
      BY <1>7, <2>1 DEF ServiceDrops, Opening
  <1>8. CASE NewProcess
    BY <1>8 DEF NewProcess, Opening, Idle
  <1>9. CASE UNCHANGED vars
    BY <1>9 DEF vars, Opening
  <1> QED
    BY <1>1, <1>2, <1>3, <1>4, <1>5, <1>6, <1>7, <1>8, <1>9 DEF Next, OpenStep

\* What PermitAccounting adds up, on the side of the permits.
Taken == IF ui \in ClosingUI THEN 1 ELSE 0

\* What moving one device to phase p does to the three counts.
LEMMA CountsOfOne ==
  ASSUME NEW f \in [Device -> Phase], NEW d \in Device, NEW p \in Phase
  PROVE  /\ Count([f EXCEPT ![d] = p], Answer)
              = Count(f, Answer) + (IF p \in Answer THEN 1 ELSE 0)
                                 - (IF f[d] \in Answer THEN 1 ELSE 0)
         /\ Count([f EXCEPT ![d] = p], {"lost"})
              = Count(f, {"lost"}) + (IF p = "lost" THEN 1 ELSE 0)
                                   - (IF f[d] = "lost" THEN 1 ELSE 0)
         /\ Count([f EXCEPT ![d] = p], {"dropped"})
              = Count(f, {"dropped"}) + (IF p = "dropped" THEN 1 ELSE 0)
                                      - (IF f[d] = "dropped" THEN 1 ELSE 0)
  <1>1. /\ Count([f EXCEPT ![d] = p], Answer)
             = Count(f, Answer) + Has(p, Answer) - Has(f[d], Answer)
        /\ Count([f EXCEPT ![d] = p], {"lost"})
             = Count(f, {"lost"}) + Has(p, {"lost"}) - Has(f[d], {"lost"})
        /\ Count([f EXCEPT ![d] = p], {"dropped"})
             = Count(f, {"dropped"}) + Has(p, {"dropped"}) - Has(f[d], {"dropped"})
    BY CountChange, Zenon
  <1> QED
    BY <1>1 DEF Has

\* Moving devices between phases that are not counted.
LEMMA CountsUnmoved ==
  ASSUME NEW f \in [Device -> Phase], NEW g \in [Device -> Phase],
         \A d \in Device : \/ g[d] = f[d]
                           \/ /\ f[d] \notin Answer \union {"lost", "dropped"}
                              /\ g[d] \notin Answer \union {"lost", "dropped"}
  PROVE  /\ Count(g, Answer) = Count(f, Answer)
         /\ Count(g, {"lost"}) = Count(f, {"lost"})
         /\ Count(g, {"dropped"}) = Count(f, {"dropped"})
  <1>1. \A d \in Device : (g[d] \in Answer) = (f[d] \in Answer)
    OBVIOUS
  <1>2. \A d \in Device : (g[d] \in {"lost"}) = (f[d] \in {"lost"})
    OBVIOUS
  <1>3. \A d \in Device : (g[d] \in {"dropped"}) = (f[d] \in {"dropped"})
    OBVIOUS
  <1> QED
    BY <1>1, <1>2, <1>3, CountUnmoved

\* A step that leaves the balance as it was keeps the account.
LEMMA Balance ==
  ASSUME TypeOK, TypeOK', PermitAccounting,
         mCameraOpenCloseLock' + Count(service', Answer) + Count(service', {"lost"})
             + Taken' - Count(service', {"dropped"})
           = mCameraOpenCloseLock + Count(service, Answer) + Count(service, {"lost"})
             + Taken - Count(service, {"dropped"})
  PROVE  PermitAccounting'
  <1>1. /\ mCameraOpenCloseLock \in Nat /\ mCameraOpenCloseLock' \in Nat
        /\ Taken \in Nat /\ Taken' \in Nat
    BY DEF TypeOK, Taken
  <1>2. \A S : Count(service, S) \in Nat /\ Count(service', S) \in Nat
    BY CountIsNat
  <1>3. mCameraOpenCloseLock + Count(service, Answer) + Count(service, {"lost"}) + Taken
          = 1 + Count(service, {"dropped"})
    BY AccountInCounts DEF Taken
  <1>4. PermitAccounting' <=>
          mCameraOpenCloseLock' + Count(service', Answer) + Count(service', {"lost"}) + Taken'
            = 1 + Count(service', {"dropped"})
    <2>1. (PermitAccounting <=>
            mCameraOpenCloseLock + Count(service, Answer) + Count(service, {"lost"}) + Taken
              = 1 + Count(service, {"dropped"}))'
      BY AccountInCounts, PTL DEF Taken
    <2> QED
      BY <2>1 DEF Count
  <1> QED
    BY <1>1, <1>2, <1>3, <1>4

LEMMA Same ==
  ASSUME TypeOK, TypeOK', PermitAccounting, UNCHANGED <<mCameraOpenCloseLock, Taken>>,
         \A d \in Device : \/ service'[d] = service[d]
                           \/ /\ service[d] \notin Answer \union {"lost", "dropped"}
                              /\ service'[d] \notin Answer \union {"lost", "dropped"}
  PROVE  PermitAccounting'
  <1>1. service \in [Device -> Phase] /\ service' \in [Device -> Phase]
    BY DEF TypeOK
  <1>2. /\ Count(service', Answer) = Count(service, Answer)
        /\ Count(service', {"lost"}) = Count(service, {"lost"})
        /\ Count(service', {"dropped"}) = Count(service, {"dropped"})
    BY <1>1, CountsUnmoved
  <1> QED
    BY <1>2, Balance

LEMMA StepAccount ==
  /\ TypeOK /\ Quiet /\ Fresh /\ Fields /\ PermitAccounting /\ [Next]_vars
  => PermitAccounting'
  <1> SUFFICES ASSUME TypeOK, Quiet, Fresh, Fields, PermitAccounting, [Next]_vars
               PROVE  PermitAccounting'
    OBVIOUS
  <1>1. TypeOK'
    BY StepTypes
  <1>2. /\ service \in [Device -> Phase] /\ mCameraOpenCloseLock \in Nat
        /\ Taken \in Nat /\ \A S : Count(service, S) \in Nat
    BY CountIsNat DEF TypeOK, Taken
  <1>3. CASE UNCHANGED <<service, mCameraOpenCloseLock, Taken>>
    BY <1>1, <1>3, Same
  <1>4. CASE OpenStep
    <2>1. PICK svc \in [Device -> Phase], phase \in {"opening", "refused", "lost"} :
             /\ TakePermitAndOpen(svc, phase) /\ OpenEnds
             /\ \A d \in Device : \/ svc[d] = service[d]
                                  \/ (service[d] = "orphan" /\ svc[d] = "evicted")
      BY <1>2, <1>4, EvictFacts
      DEF OpenStep, OpenAccepted, OpenRefused, OpenThrows, OpenDies, OpenEnds
    <2>2. Next1 \in Device /\ svc[Next1] = "unused"
      BY <2>1, MaxOpensAssumption
      DEF TakePermitAndOpen, Next1, Device, Fresh, TypeOK
    <2>3. /\ Count(svc, Answer) = Count(service, Answer)
          /\ Count(svc, {"lost"}) = Count(service, {"lost"})
          /\ Count(svc, {"dropped"}) = Count(service, {"dropped"})
      <3>1. \A d \in Device : \/ svc[d] = service[d]
                              \/ /\ service[d] \notin Answer \union {"lost", "dropped"}
                                 /\ svc[d] \notin Answer \union {"lost", "dropped"}
        BY <2>1 DEF Answer
      <3> QED
        BY <1>2, <2>1, <3>1, CountsUnmoved
    <2>4. service' = [svc EXCEPT ![Next1] = phase] /\ phase \in Phase
      BY <2>1 DEF TakePermitAndOpen, Phase
    <2>5. /\ Count(service', Answer) + Count(service', {"lost"})
               = Count(service, Answer) + Count(service, {"lost"}) + 1
          /\ Count(service', {"dropped"}) = Count(service, {"dropped"})
      <3>1. /\ Count(service', Answer)
                 = Count(svc, Answer) + (IF phase \in Answer THEN 1 ELSE 0)
            /\ Count(service', {"lost"})
                 = Count(svc, {"lost"}) + (IF phase = "lost" THEN 1 ELSE 0)
            /\ Count(service', {"dropped"}) = Count(svc, {"dropped"})
        <4>1. Count(svc, Answer) \in Nat /\ Count(svc, {"lost"}) \in Nat
                /\ Count(svc, {"dropped"}) \in Nat
          BY CountIsNat
        <4>2. "unused" \notin Answer
          BY DEF Answer
        <4>3. /\ Count(service', Answer)
                   = Count(svc, Answer) + (IF phase \in Answer THEN 1 ELSE 0)
                       - (IF svc[Next1] \in Answer THEN 1 ELSE 0)
              /\ Count(service', {"lost"})
                   = Count(svc, {"lost"}) + (IF phase = "lost" THEN 1 ELSE 0)
                       - (IF svc[Next1] = "lost" THEN 1 ELSE 0)
              /\ Count(service', {"dropped"})
                   = Count(svc, {"dropped"}) + (IF phase = "dropped" THEN 1 ELSE 0)
                       - (IF svc[Next1] = "dropped" THEN 1 ELSE 0)
          <5>1. svc \in [Device -> Phase] /\ Next1 \in Device /\ phase \in Phase
            BY <2>1, <2>2, <2>4
          <5> QED
            BY <2>4, <5>1, CountsOfOne, Zenon
        <4> QED
          BY <2>1, <2>2, <4>1, <4>2, <4>3
      <3>2. (phase \in Answer) <=> (phase # "lost")
        BY <2>1 DEF Answer
      <3> QED
        BY <1>2, <2>3, <3>1, <3>2
    <2>6. mCameraOpenCloseLock' = mCameraOpenCloseLock - 1 /\ Taken' = Taken
      BY <2>1 DEF TakePermitAndOpen, OpenEnds, OpenReturns, Die, Taken, ClosingUI,
         Opening, AfterOpen, lock
    <2>7. \A S : Count(service', S) \in Nat
      BY CountIsNat
    <2> QED
      BY <1>1, <1>2, <2>5, <2>6, <2>7, Balance
  <1>5. CASE CloseAcquires \/ CloseReleases
    <2>1. service' = service
      BY <1>5 DEF CloseAcquires, CloseReleases
    <2>2. \/ /\ mCameraOpenCloseLock' = mCameraOpenCloseLock - 1
             /\ Taken = 0 /\ Taken' = 1
          \/ /\ mCameraOpenCloseLock' = mCameraOpenCloseLock + 1
             /\ Taken = 1 /\ Taken' = 0
      BY <1>5 DEF CloseAcquires, CloseReleases, Taken, ClosingUI, lock
    <2> QED
      BY <1>1, <1>2, <2>1, <2>2, Balance
  <1>6. CASE CloseClosesDevice
    <2>1. CASE mCameraDevice = Null
      <3>1. /\ service' = service /\ Taken = 1 /\ Taken' = 0
            /\ mCameraOpenCloseLock' = mCameraOpenCloseLock + 1
        BY <1>6, <2>1 DEF CloseClosesDevice, Die, Taken, ClosingUI, lock
      <3> QED
        BY <1>1, <1>2, <3>1, Balance
    <2>2. CASE mCameraDevice # Null
      <3>1. mCameraDevice \in Device /\ service[mCameraDevice] \notin Answer \union {"lost"}
        BY <2>2 DEF Fields, Answer, TypeOK
      <3>2. UNCHANGED <<mCameraOpenCloseLock, Taken>>
        BY <1>6, <2>2 DEF CloseClosesDevice, Taken, ClosingUI, lock
      <3>3. PICK p \in {"dropped", "closed"} :
               /\ service' = [service EXCEPT ![mCameraDevice] = p]
               /\ p = "dropped" <=> service[mCameraDevice] = "dropped"
        BY <1>2, <1>6, <2>2, <3>1 DEF CloseClosesDevice
      <3>4. \A d \in Device : \/ service'[d] = service[d]
                              \/ /\ service[d] \notin Answer \union {"lost", "dropped"}
                                 /\ service'[d] \notin Answer \union {"lost", "dropped"}
        BY <1>2, <3>1, <3>3 DEF Answer
      <3> QED
        BY <1>1, <3>2, <3>4, Same
    <2> QED
      BY <2>1, <2>2
  <1>7. CASE JoinLooper
    <2>1. \A d \in Device : \/ service'[d] = service[d]
                            \/ /\ service[d] \notin Answer \union {"lost", "dropped"}
                               /\ service'[d] \notin Answer \union {"lost", "dropped"}
      BY <1>7 DEF JoinLooper, Orphaned, Answer
    <2>2. UNCHANGED <<mCameraOpenCloseLock, Taken>>
      BY <1>7 DEF JoinLooper, Taken, ClosingUI, lock
    <2> QED
      BY <1>1, <2>1, <2>2, Same
  <1>8. ASSUME NEW d \in Device, OnOpened(d) \/ OnRefused(d) \/ OnDropped(d)
        PROVE  PermitAccounting'
    <2>1. PICK p \in {"open", "closed", "dropped"} :
             /\ service' = [service EXCEPT ![d] = p]
             /\ \/ p # "dropped" /\ service[d] \in Answer
                \/ p = "dropped" /\ service[d] = "dropping"
      BY <1>8 DEF OnOpened, OnRefused, OnDropped, RunCallback, Answer
    <2>2. /\ mCameraOpenCloseLock' = mCameraOpenCloseLock + 1
          /\ Taken' = Taken
      BY <1>8 DEF OnOpened, OnRefused, OnDropped, RunCallback, Taken, lock
    <2>3. p \in Phase /\ p \notin Answer /\ p # "lost"
      BY <2>1 DEF Phase, Answer
    <2>4. \/ /\ Count(service', Answer) = Count(service, Answer) - 1
             /\ Count(service', {"lost"}) = Count(service, {"lost"})
             /\ Count(service', {"dropped"}) = Count(service, {"dropped"})
          \/ /\ Count(service', Answer) = Count(service, Answer)
             /\ Count(service', {"lost"}) = Count(service, {"lost"})
             /\ Count(service', {"dropped"}) = Count(service, {"dropped"}) + 1
      <3>1. (service[d] \in Answer) => service[d] \notin {"lost", "dropped"}
        BY DEF Answer
      <3>2. "dropping" \notin Answer
        BY DEF Answer
      <3>3. /\ Count(service', Answer)
                 = Count(service, Answer) + (IF p \in Answer THEN 1 ELSE 0)
                     - (IF service[d] \in Answer THEN 1 ELSE 0)
            /\ Count(service', {"lost"})
                 = Count(service, {"lost"}) + (IF p = "lost" THEN 1 ELSE 0)
                     - (IF service[d] = "lost" THEN 1 ELSE 0)
            /\ Count(service', {"dropped"})
                 = Count(service, {"dropped"}) + (IF p = "dropped" THEN 1 ELSE 0)
                     - (IF service[d] = "dropped" THEN 1 ELSE 0)
        BY <1>2, <2>1, <2>3, CountsOfOne, Zenon
      <3> QED
        BY <1>2, <2>1, <2>3, <3>1, <3>2, <3>3
    <2>5. \A S : Count(service', S) \in Nat
      BY CountIsNat
    <2> QED
      BY <1>1, <1>2, <2>2, <2>4, <2>5, Balance
  <1>9. CASE \E d \in Device : ServiceDrops(d)
    <2>1. \A d \in Device : \/ service'[d] = service[d]
                            \/ /\ service[d] \notin Answer \union {"lost", "dropped"}
                               /\ service'[d] \notin Answer \union {"lost", "dropped"}
      BY <1>2, <1>9 DEF ServiceDrops, Answer
    <2>2. UNCHANGED <<mCameraOpenCloseLock, Taken>>
      BY <1>9 DEF ServiceDrops, Taken, lock
    <2> QED
      BY <1>1, <2>1, <2>2, Same
  <1>10. CASE NewProcess
    <2>1. InFlight' = {} /\ Lost' = {} /\ Dropped' = {}
      BY <1>10 DEF NewProcess, InFlight, Lost, Dropped, In
    <2>2. Cardinality({}) = 0
      BY FS_EmptySet
    <2> QED
      BY <1>10, <2>1, <2>2 DEF NewProcess, PermitAccounting, ClosingUI
  <1> DEFINE Quietly == UNCHANGED <<service, mCameraOpenCloseLock, Taken>>
  <1>11. LifecycleStep => Quietly
    BY DEF LifecycleStep, Resume, Pause, Stop, Destroy, Create, SurfaceTextureAvailable,
       SurfaceTextureDestroyed, Taken, ClosingUI, lock
  <1>12. PreviewStep \/ SessionStep => Quietly
    BY DEF PreviewStep, PreviewCrashes, PreviewFails, ReaderCreated, SessionCreated,
       DeviceCalls, DeviceWorks,
       SessionStep, Configured, ConfigureFailed, Die, Taken, ClosingUI, Opening, lock
  <1>13. CloseChecksDevice \/ CloseNullsDevice \/ QuitLooper \/ WriteDevice \/ UNCHANGED vars
           => Quietly
    BY DEF CloseChecksDevice, CloseNullsDevice, QuitLooper, WriteDevice, vars, Taken, ClosingUI, lock
  <1> QED
    BY <1>3, <1>4, <1>5, <1>6, <1>7, <1>8, <1>9, <1>10, <1>11, <1>12, <1>13
    DEF Next, CloseStep, LooperStep

LEMMA StepReaders ==
  /\ TypeOK /\ Phases /\ Quiet /\ DeadLooperIsQuiet /\ Readers /\ [Next]_vars
  => Readers'
  <1> SUFFICES ASSUME TypeOK, Phases, Quiet, DeadLooperIsQuiet, Readers, [Next]_vars
               PROVE  Readers'
    OBVIOUS
  <1> USE DEF Readers, Phases, Null, activity, lock, fields
  <1>1. CASE LifecycleStep
    BY <1>1 DEF LifecycleStep, Resume, Pause, Stop, Destroy, Create,
       SurfaceTextureAvailable, SurfaceTextureDestroyed, TypeOK, Act
  <1>2. CASE OpenStep
    BY <1>2 DEF OpenStep, OpenAccepted, OpenRefused, OpenThrows, OpenDies, OpenReturns, Die,
       TakePermitAndOpen, AfterOpen, Opening
  <1>3. CASE PreviewStep
    BY <1>3 DEF PreviewStep, PreviewCrashes, PreviewFails, ReaderCreated, SessionCreated,
       DeviceCalls, DeviceWorks, Die,
       TypeOK, Act
  <1>4. CASE SessionStep
    BY <1>4 DEF SessionStep, Configured, ConfigureFailed, Die
  <1>5. CASE CloseStep
    BY <1>5 DEF CloseStep, CloseAcquires, CloseChecksDevice, CloseClosesDevice,
       CloseNullsDevice, CloseReleases, QuitLooper, JoinLooper, Die, Closing
  <1>6. CASE WriteDevice
    <2>1. surface /\ ~Opening /\ looper # "dead"
      BY <1>6 DEF WriteDevice, LooperRuns, Quiet
    <2>2. ~(act = "paused" /\ ui = "preview")
      BY <2>1
    <2> QED
      BY <1>6, <2>1, <2>2 DEF WriteDevice, Opening
  <1>7. CASE \E d \in Device : OnOpened(d) \/ OnRefused(d) \/ OnDropped(d)
    BY <1>7 DEF OnOpened, OnRefused, OnDropped, RunCallback
  <1>8. CASE \E d \in Device : ServiceDrops(d)
    BY <1>8 DEF ServiceDrops
  <1>9. CASE NewProcess
    BY <1>9 DEF NewProcess
  <1>10. CASE UNCHANGED vars
    BY <1>10 DEF vars
  <1> QED
    BY <1>1, <1>2, <1>3, <1>4, <1>5, <1>6, <1>7, <1>8, <1>9, <1>10 DEF Next, LooperStep

LEMMA StepFree == TypeOK /\ Phases /\ Readers /\ Free /\ [Next]_vars => Free'
  <1> SUFFICES ASSUME TypeOK, Phases, Readers, Free, [Next]_vars PROVE Free'
    OBVIOUS
  <1> USE DEF TypeOK, Free, OpenNeverWaits, Opening, activity, lock, fields
  <1>1. CASE LifecycleStep
    BY <1>1 DEF LifecycleStep, Resume, Pause, Stop, Destroy, Create,
       SurfaceTextureAvailable, SurfaceTextureDestroyed
  <1>2. CASE OpenStep
    BY <1>2 DEF OpenStep, OpenAccepted, OpenRefused, OpenThrows, OpenDies, OpenReturns, Die,
       TakePermitAndOpen,
       AfterOpen, Phases
  <1>3. CASE PreviewStep
    \* A preview that does not end in a crash was started while resumed.
    <2>1. CASE PreviewCrashes
      BY <2>1 DEF PreviewCrashes, Die
    <2>2. CASE PreviewFails \/ ReaderCreated \/ SessionCreated
      <3>1. ui \in {"preview", "session"} /\ mCameraDevice # Null
        BY <2>2 DEF PreviewFails, ReaderCreated, SessionCreated, DeviceCalls, DeviceWorks
      <3>2. surface /\ act = "resumed"
        BY <3>1 DEF Phases, Readers, Act
      <3> QED
        BY <2>2, <3>2 DEF PreviewFails, ReaderCreated, SessionCreated
    <2> QED
      BY <1>3, <2>1, <2>2 DEF PreviewStep
  <1>4. CASE SessionStep
    BY <1>4 DEF SessionStep, Configured, ConfigureFailed, Die
  <1>5. CASE CloseStep
    BY <1>5 DEF CloseStep, CloseAcquires, CloseChecksDevice, CloseClosesDevice,
       CloseNullsDevice, CloseReleases, QuitLooper, JoinLooper, Die
  <1>6. CASE LooperStep
    BY <1>6 DEF LooperStep, OnOpened, OnRefused, OnDropped, RunCallback, WriteDevice
  <1>7. CASE \E d \in Device : ServiceDrops(d)
    BY <1>7 DEF ServiceDrops
  <1>8. CASE NewProcess
    BY <1>8 DEF NewProcess
  <1>9. CASE UNCHANGED vars
    BY <1>9 DEF vars
  <1> QED
    BY <1>1, <1>2, <1>3, <1>4, <1>5, <1>6, <1>7, <1>8, <1>9 DEF Next

LEMMA Inductive == IInv /\ [Next]_vars => IInv'
  BY StepTypes, StepPhases, StepFresh, StepFields, StepQuiet, StepReaders, StepAccount,
     StepFree DEF IInv

\* What the account of the permits says about blocking and exclusion.
LEMMA AccountConsequences ==
  ASSUME TypeOK, PermitAccounting
  PROVE  OpenCloseExclusive /\ CloseWaitsForCallback
  <1>1. /\ IsFiniteSet(InFlight) /\ Cardinality(InFlight) \in Nat
        /\ IsFiniteSet(Lost) /\ Cardinality(Lost) \in Nat
        /\ Cardinality(Dropped) \in Nat
    BY CountIsNat DEF Count, InFlight, Lost, Dropped, In
  <1>2. /\ Cardinality(InFlight) = 0 <=> InFlight = {}
        /\ Cardinality(Lost) = 0 <=> Lost = {}
        /\ Dropped = {} => Cardinality(Dropped) = 0
    BY <1>1, FS_EmptySet
  <1>3. mCameraOpenCloseLock \in Nat
    BY DEF TypeOK
  <1>4. OpenCloseExclusive
    BY <1>1, <1>2, <1>3 DEF PermitAccounting, OpenCloseExclusive
  <1>5. CloseWaitsForCallback
    BY <1>1, <1>2, <1>3 DEF PermitAccounting, CloseWaitsForCallback, ClosingUI
  <1> QED
    BY <1>4, <1>5

\* No step of the program exchanges one open reader for another.
LEMMA StepClosesReader ==
  IInv /\ [Next]_vars
  => [mPreviewReader' # mPreviewReader
        => mPreviewReader = Null \/ mPreviewReader' = Null]_vars
  <1> SUFFICES ASSUME IInv, Next, mPreviewReader' # mPreviewReader,
                      mPreviewReader # Null, mPreviewReader' # Null
               PROVE  FALSE
    BY DEF vars
  <1>1. CASE PreviewStep
    BY <1>1 DEF PreviewStep, PreviewCrashes, PreviewFails, ReaderCreated, SessionCreated,
       DeviceCalls, DeviceWorks, IInv, Readers, fields
  <1>2. CASE CloseStep \/ NewProcess
    BY <1>2 DEF CloseStep, CloseAcquires, CloseChecksDevice, CloseClosesDevice,
       CloseNullsDevice, CloseReleases, QuitLooper, JoinLooper, NewProcess, fields
  <1>3. ~(LifecycleStep \/ OpenStep \/ SessionStep)
    BY DEF LifecycleStep, Resume, Pause, Stop, Destroy, Create, SurfaceTextureAvailable,
       SurfaceTextureDestroyed, OpenStep, OpenAccepted, OpenRefused, OpenThrows, OpenDies,
       OpenReturns, Die, TakePermitAndOpen, SessionStep, Configured, ConfigureFailed, fields
  <1>4. ~(LooperStep \/ \E d \in Device : ServiceDrops(d))
    BY DEF LooperStep, OnOpened, OnRefused, OnDropped, RunCallback, WriteDevice,
       ServiceDrops, fields
  <1> QED
    BY <1>1, <1>2, <1>3, <1>4 DEF Next

----------------------------------------------------------------------------
(* Nobody waits for ever, and onPause comes to its end.  Fairness speaks of   *)
(* what is ENABLED, which the provers cannot expand: that the guards of       *)
(* CloseStep and LooperStep decide it is StepsFollowGuards, which enters as a *)
(* hypothesis and which TLC checks.  That a guard holds is proved.            *)

Pausing == ClosingUI \union {"closeLock", "quit", "join"}
Done == ui \in {"idle", "crashed"}

\* The stages of onPause, in the order it goes through them.
BlockedByCallback == ui = "closeLock" /\ lock = 0 /\ Lost = {} /\ bg.at # "idle"
BlockedByQueue == ui = "closeLock" /\ lock = 0 /\ Lost = {} /\ bg.at = "idle"
MayAcquire == ui = "closeLock" /\ lock > 0
AtCheck == ui = "closeCheck"
AtDevice == ui = "closeDevice"
AtNull == ui = "closeNull"
AtReader == ui = "closeReader"
AtQuit == ui = "quit"
JoinsBusy == ui = "join" /\ bg.at # "idle" /\ Queued # {}
JoinsQueued == ui = "join" /\ bg.at = "idle" /\ Queued # {}
JoinsLast == ui = "join" /\ bg.at # "idle" /\ Queued = {}
MayJoin == ui = "join" /\ bg.at = "idle" /\ Queued = {}

\* What the looper does meanwhile: the callback that is half run is finished, or
\* the one that is queued starts, and gives a permit back.
LooperAdvances ==
    /\ ui' = ui
    /\ Lost = {} => Lost' = {}
    /\ \/ bg.at # "idle" /\ bg'.at = "idle" /\ lock' = lock /\ Queued' = Queued
       \/ /\ bg.at = "idle" /\ bg'.at # "idle" /\ lock' = lock + 1
          /\ Queued # {} /\ Queued' = {}

\* What the service does: it has nothing more to say to a looper that is joined.
ServiceAdvances ==
    /\ UNCHANGED <<ui, lock, bg>>
    /\ Lost = {} => Lost' = {}
    /\ ui = "join" => Queued' = Queued

\* What onPause itself does.
PauseAdvances ==
    \/ MayAcquire /\ ui' = "closeCheck"
    \/ ui = "closeCheck" /\ ui' \in {"closeDevice", "closeReader"}
    \/ ui = "closeDevice" /\ ui' \in {"closeNull", "crashed"}
    \/ ui = "closeNull" /\ ui' = "closeReader"
    \/ ui = "closeReader" /\ ui' = "quit"
    \/ /\ ui = "quit" /\ ui' = "join"
       /\ UNCHANGED <<bg, Queued>>
    \/ MayJoin /\ ui' = "idle"

LEMMA LooperGoesOn ==
  ASSUME IInv, LooperStep
  PROVE  LooperAdvances
  <1>1. CASE WriteDevice
    BY <1>1 DEF WriteDevice, Idle, lock, Lost, Queued, In, LooperAdvances
  <1>2. CASE \E d \in Device : OnOpened(d) \/ OnRefused(d) \/ OnDropped(d)
    <2>1. PICK d \in Device, p \in {"open", "closed", "dropped"} :
             /\ bg.at = "idle" /\ bg'.at # "idle"
             /\ service[d] \in {"opening", "refused", "dropping"}
             /\ service' = [service EXCEPT ![d] = p]
             /\ lock' = lock + 1
             /\ ui' = ui
      BY <1>2 DEF OnOpened, OnRefused, OnDropped, RunCallback, lock
    <2>2. \A e \in Device : e \in Queued => e = d
      BY <2>1 DEF IInv, OneAttachedDevice, Attached, Queued, In
    <2>3. Queued # {} /\ Queued' = {} /\ (Lost = {} => Lost' = {})
      BY <2>1, <2>2 DEF Queued, Lost, In, IInv, TypeOK
    <2> QED
      BY <2>1, <2>3 DEF LooperAdvances
  <1> QED
    BY <1>1, <1>2 DEF LooperStep

LEMMA ServiceGoesOn ==
  ASSUME IInv, NEW d \in Device, ServiceDrops(d)
  PROVE  ServiceAdvances
  <1>1. Lost = {} => Lost' = {}
    BY DEF ServiceDrops, Lost, In, IInv, TypeOK
  <1>2. ui # "join"
    BY DEF ServiceDrops, IInv, Phases
  <1> QED
    BY <1>1, <1>2 DEF ServiceDrops, ServiceAdvances, lock

LEMMA PauseGoesOn ==
  ASSUME CloseStep
  PROVE  PauseAdvances
  BY DEF CloseStep, CloseAcquires, CloseChecksDevice, CloseClosesDevice,
     CloseNullsDevice, CloseReleases, QuitLooper, JoinLooper, Die, PauseAdvances,
     MayAcquire, MayJoin, Queued, In, lock

\* While the UI thread is in onPause, nothing else happens on it, except that the
\* process is ended.
LEMMA StepWhilePausing ==
  ASSUME IInv, [Next]_vars, ui \in Pausing
  PROVE  PauseAdvances \/ LooperAdvances \/ ServiceAdvances \/ Done'
  <1>1. ~(LifecycleStep \/ OpenStep \/ PreviewStep \/ SessionStep)
    BY DEF LifecycleStep, Resume, Pause, Stop, Destroy, Create, SurfaceTextureAvailable,
       SurfaceTextureDestroyed, OpenStep, OpenAccepted, OpenRefused, OpenThrows, OpenDies,
       OpenReturns, Die, TakePermitAndOpen, Opening, PreviewStep, PreviewCrashes,
       PreviewFails, ReaderCreated, SessionCreated, DeviceCalls, SessionStep,
       Configured, ConfigureFailed, Pausing, ClosingUI
  <1>2. UNCHANGED vars => ServiceAdvances
    BY DEF vars, ServiceAdvances, Lost, Queued, In, lock
  <1>3. NewProcess => Done'
    BY DEF NewProcess, Done
  <1> QED
    BY <1>1, <1>2, <1>3, LooperGoesOn, ServiceGoesOn, PauseGoesOn DEF Next

\* Whoever waits inside onPause waits for a looper that is there and has a message.
LEMMA SomebodyGoesOn ==
  ASSUME IInv, ui \in Pausing
  PROVE  /\ WaitsForLooper => LooperCanStep \/ (ui = "closeLock" /\ Lost # {})
         /\ ~WaitsForLooper => PauseCanStep
  <1>1. InFlight # {} => Queued # {}
    BY DEF InFlight, Queued, In
  <1>2. Queued # {} => Attached # {}
    BY DEF Queued, Attached, In
  <1>3. bg.at # "idle" \/ Queued # {} => LooperCanStep
    BY <1>2 DEF IInv, TypeOK, DeadLooperIsQuiet, Looper, LooperCanStep, LooperRuns,
       Pausing, ClosingUI
  <1>4. CASE WaitsForLooper
    <2>1. CASE ui = "closeLock" /\ mCameraOpenCloseLock = 0
      <3>1. CloseWaitsForCallback
        BY AccountConsequences DEF IInv
      <3> QED
        BY <1>1, <1>3, <2>1, <3>1 DEF CloseWaitsForCallback, WaitsForLooper
    <2> QED
      BY <1>3, <1>4, <2>1 DEF WaitsForLooper
  <1>5. CASE ~WaitsForLooper
    BY <1>5 DEF WaitsForLooper, PauseCanStep, Pausing, ClosingUI, IInv, TypeOK, lock
  <1> QED
    BY <1>4, <1>5

LEMMA NeverStuck ==
  ASSUME PauseIsNeverStuck, ui \in Pausing
  PROVE  /\ ~WaitsForLooper => ENABLED <<CloseStep>>_vars
         /\ WaitsForLooper /\ ~(ui = "closeLock" /\ Lost # {}) => ENABLED <<LooperStep>>_vars
  BY DEF PauseIsNeverStuck, StepsFollowGuards, PauseHasAStep, Pausing

Going == []IInv /\ []PauseIsNeverStuck /\ [][Next]_vars /\ Fairness

\* The wait for the permit: a callback that is half run ends ...
LEMMA CallbackEnds ==
  Going => (BlockedByCallback ~> (BlockedByQueue \/ MayAcquire \/ Done))
  <1> USE DEF BlockedByCallback, BlockedByQueue, MayAcquire, Done
  <1>1. IInv /\ BlockedByCallback /\ [Next]_vars => BlockedByCallback' \/ (BlockedByQueue \/ MayAcquire \/ Done)'
    BY StepWhilePausing DEF Pausing, ClosingUI, PauseAdvances, LooperAdvances,
       ServiceAdvances, IInv, TypeOK, lock
  <1>2. IInv /\ BlockedByCallback /\ <<LooperStep>>_vars => (BlockedByQueue \/ MayAcquire \/ Done)'
    BY LooperGoesOn DEF LooperAdvances, IInv, TypeOK, lock
  <1>3. PauseIsNeverStuck /\ BlockedByCallback => ENABLED <<LooperStep>>_vars
    BY NeverStuck DEF WaitsForLooper, Pausing, ClosingUI, lock
  <1> QED
    BY <1>1, <1>2, <1>3, PTL DEF Going, Fairness

\* ... and the one that is queued gives the permit back.
LEMMA AnswerComes ==
  Going => (BlockedByQueue ~> (MayAcquire \/ Done))
  <1> USE DEF BlockedByCallback, BlockedByQueue, MayAcquire, Done
  <1>1. IInv /\ BlockedByQueue /\ [Next]_vars => BlockedByQueue' \/ (MayAcquire \/ Done)'
    BY StepWhilePausing DEF Pausing, ClosingUI, PauseAdvances, LooperAdvances,
       ServiceAdvances, IInv, TypeOK, lock
  <1>2. IInv /\ BlockedByQueue /\ <<LooperStep>>_vars => (MayAcquire \/ Done)'
    BY LooperGoesOn DEF LooperAdvances, IInv, TypeOK, lock
  <1>3. PauseIsNeverStuck /\ BlockedByQueue => ENABLED <<LooperStep>>_vars
    BY NeverStuck DEF WaitsForLooper, Pausing, ClosingUI, lock
  <1> QED
    BY <1>1, <1>2, <1>3, PTL DEF Going, Fairness

\* With a permit there, closeCamera goes through its steps to the quit of the looper.
LEMMA PauseAcquires ==
  Going => (MayAcquire ~> (AtCheck \/ Done))
  <1> USE DEF MayAcquire, AtCheck, Done
  <1>1. IInv /\ MayAcquire /\ [Next]_vars => MayAcquire' \/ (AtCheck \/ Done)'
    BY StepWhilePausing DEF Pausing, ClosingUI, PauseAdvances, LooperAdvances,
       ServiceAdvances, IInv, TypeOK, lock
  <1>2. IInv /\ MayAcquire /\ <<CloseStep>>_vars => (AtCheck \/ Done)'
    BY PauseGoesOn DEF PauseAdvances, IInv, TypeOK, lock
  <1>3. PauseIsNeverStuck /\ MayAcquire => ENABLED <<CloseStep>>_vars
    BY NeverStuck DEF WaitsForLooper, Pausing, ClosingUI, lock
  <1> QED
    BY <1>1, <1>2, <1>3, PTL DEF Going, Fairness

\* ... the test of mCameraDevice ...
LEMMA PauseChecks ==
  Going => (AtCheck ~> (AtDevice \/ AtReader \/ Done))
  <1> USE DEF AtCheck, AtDevice, AtReader, Done, MayAcquire, MayJoin
  <1>1. IInv /\ AtCheck /\ [Next]_vars => AtCheck' \/ (AtDevice \/ AtReader \/ Done)'
    BY StepWhilePausing DEF Pausing, ClosingUI, PauseAdvances, LooperAdvances,
       ServiceAdvances, IInv, TypeOK, lock
  <1>2. IInv /\ AtCheck /\ <<CloseStep>>_vars => (AtDevice \/ AtReader \/ Done)'
    BY PauseGoesOn DEF PauseAdvances, IInv, TypeOK, lock
  <1>3. PauseIsNeverStuck /\ AtCheck => ENABLED <<CloseStep>>_vars
    BY NeverStuck DEF WaitsForLooper, Pausing, ClosingUI, lock
  <1> QED
    BY <1>1, <1>2, <1>3, PTL DEF Going, Fairness

\* ... the device ...
LEMMA PauseCloses ==
  Going => (AtDevice ~> (AtNull \/ Done))
  <1> USE DEF AtDevice, AtNull, Done, MayAcquire, MayJoin
  <1>1. IInv /\ AtDevice /\ [Next]_vars => AtDevice' \/ (AtNull \/ Done)'
    BY StepWhilePausing DEF Pausing, ClosingUI, PauseAdvances, LooperAdvances,
       ServiceAdvances, IInv, TypeOK, lock
  <1>2. IInv /\ AtDevice /\ <<CloseStep>>_vars => (AtNull \/ Done)'
    BY PauseGoesOn DEF PauseAdvances, IInv, TypeOK, lock
  <1>3. PauseIsNeverStuck /\ AtDevice => ENABLED <<CloseStep>>_vars
    BY NeverStuck DEF WaitsForLooper, Pausing, ClosingUI, lock
  <1> QED
    BY <1>1, <1>2, <1>3, PTL DEF Going, Fairness

\* ... the field ...
LEMMA PauseNulls ==
  Going => (AtNull ~> (AtReader \/ Done))
  <1> USE DEF AtNull, AtReader, Done, MayAcquire, MayJoin
  <1>1. IInv /\ AtNull /\ [Next]_vars => AtNull' \/ (AtReader \/ Done)'
    BY StepWhilePausing DEF Pausing, ClosingUI, PauseAdvances, LooperAdvances,
       ServiceAdvances, IInv, TypeOK, lock
  <1>2. IInv /\ AtNull /\ <<CloseStep>>_vars => (AtReader \/ Done)'
    BY PauseGoesOn DEF PauseAdvances, IInv, TypeOK, lock
  <1>3. PauseIsNeverStuck /\ AtNull => ENABLED <<CloseStep>>_vars
    BY NeverStuck DEF WaitsForLooper, Pausing, ClosingUI, lock
  <1> QED
    BY <1>1, <1>2, <1>3, PTL DEF Going, Fairness

\* ... the reader and the permit ...
LEMMA PauseReleases ==
  Going => (AtReader ~> (AtQuit \/ Done))
  <1> USE DEF AtQuit, AtReader, Done, MayAcquire, MayJoin
  <1>1. IInv /\ AtReader /\ [Next]_vars => AtReader' \/ (AtQuit \/ Done)'
    BY StepWhilePausing DEF Pausing, ClosingUI, PauseAdvances, LooperAdvances,
       ServiceAdvances, IInv, TypeOK, lock
  <1>2. IInv /\ AtReader /\ <<CloseStep>>_vars => (AtQuit \/ Done)'
    BY PauseGoesOn DEF PauseAdvances, IInv, TypeOK, lock
  <1>3. PauseIsNeverStuck /\ AtReader => ENABLED <<CloseStep>>_vars
    BY NeverStuck DEF WaitsForLooper, Pausing, ClosingUI, lock
  <1> QED
    BY <1>1, <1>2, <1>3, PTL DEF Going, Fairness

\* ... and the quit, whatever the looper has left to do.
LEMMA PauseQuits ==
  Going => (AtQuit ~> (JoinsBusy \/ JoinsQueued \/ JoinsLast \/ MayJoin \/ Done))
  <1> USE DEF JoinsBusy, JoinsQueued, JoinsLast, MayJoin, Done, AtQuit, MayAcquire
  <1>1. IInv /\ AtQuit /\ [Next]_vars => AtQuit' \/ (JoinsBusy \/ JoinsQueued \/ JoinsLast \/ MayJoin \/ Done)'
    BY StepWhilePausing DEF Pausing, ClosingUI, PauseAdvances, LooperAdvances,
       ServiceAdvances, IInv, TypeOK, lock
  <1>2. IInv /\ AtQuit /\ <<CloseStep>>_vars => (JoinsBusy \/ JoinsQueued \/ JoinsLast \/ MayJoin \/ Done)'
    BY PauseGoesOn DEF PauseAdvances, IInv, TypeOK, lock
  <1>3. PauseIsNeverStuck /\ AtQuit => ENABLED <<CloseStep>>_vars
    BY NeverStuck DEF WaitsForLooper, Pausing, ClosingUI, lock
  <1> QED
    BY <1>1, <1>2, <1>3, PTL DEF Going, Fairness

\* The wait of the join: the callback half run, the queued one, and its end.
LEMMA JoinSeesCallbackEnd ==
  Going => (JoinsBusy ~> (JoinsQueued \/ Done))
  <1> USE DEF JoinsBusy, JoinsQueued, JoinsLast, MayJoin, Done, MayAcquire
  <1>1. IInv /\ JoinsBusy /\ [Next]_vars => JoinsBusy' \/ (JoinsQueued \/ Done)'
    BY StepWhilePausing DEF Pausing, ClosingUI, PauseAdvances, LooperAdvances,
       ServiceAdvances, IInv, TypeOK, lock
  <1>2. IInv /\ JoinsBusy /\ <<LooperStep>>_vars => (JoinsQueued \/ Done)'
    BY LooperGoesOn DEF LooperAdvances, IInv, TypeOK, lock
  <1>3. PauseIsNeverStuck /\ JoinsBusy => ENABLED <<LooperStep>>_vars
    BY NeverStuck DEF WaitsForLooper, Pausing, ClosingUI, lock
  <1> QED
    BY <1>1, <1>2, <1>3, PTL DEF Going, Fairness

\* The queued callback is the only one: no other can follow it.
LEMMA JoinSeesQueueEmpty ==
  Going => (JoinsQueued ~> (JoinsLast \/ Done))
  <1> USE DEF JoinsBusy, JoinsQueued, JoinsLast, MayJoin, Done, MayAcquire
  <1>1. IInv /\ JoinsQueued /\ [Next]_vars => JoinsQueued' \/ (JoinsLast \/ Done)'
    BY StepWhilePausing DEF Pausing, ClosingUI, PauseAdvances, LooperAdvances,
       ServiceAdvances, IInv, TypeOK, lock
  <1>2. IInv /\ JoinsQueued /\ <<LooperStep>>_vars => (JoinsLast \/ Done)'
    BY LooperGoesOn DEF LooperAdvances, IInv, TypeOK, lock
  <1>3. PauseIsNeverStuck /\ JoinsQueued => ENABLED <<LooperStep>>_vars
    BY NeverStuck DEF WaitsForLooper, Pausing, ClosingUI, lock
  <1> QED
    BY <1>1, <1>2, <1>3, PTL DEF Going, Fairness

\* The last callback ends.
LEMMA JoinSeesLastEnd ==
  Going => (JoinsLast ~> (MayJoin \/ Done))
  <1> USE DEF JoinsBusy, JoinsQueued, JoinsLast, MayJoin, Done, MayAcquire
  <1>1. IInv /\ JoinsLast /\ [Next]_vars => JoinsLast' \/ (MayJoin \/ Done)'
    BY StepWhilePausing DEF Pausing, ClosingUI, PauseAdvances, LooperAdvances,
       ServiceAdvances, IInv, TypeOK, lock
  <1>2. IInv /\ JoinsLast /\ <<LooperStep>>_vars => (MayJoin \/ Done)'
    BY LooperGoesOn DEF LooperAdvances, IInv, TypeOK, lock
  <1>3. PauseIsNeverStuck /\ JoinsLast => ENABLED <<LooperStep>>_vars
    BY NeverStuck DEF WaitsForLooper, Pausing, ClosingUI, lock
  <1> QED
    BY <1>1, <1>2, <1>3, PTL DEF Going, Fairness

\* Nothing is left for the looper to run, and the join returns.
LEMMA PauseJoins ==
  Going => (MayJoin ~> Done)
  <1> USE DEF JoinsBusy, JoinsQueued, JoinsLast, MayJoin, Done, MayAcquire
  <1>1. IInv /\ MayJoin /\ [Next]_vars => MayJoin' \/ (Done)'
    BY StepWhilePausing DEF Pausing, ClosingUI, PauseAdvances, LooperAdvances,
       ServiceAdvances, IInv, TypeOK, lock
  <1>2. IInv /\ MayJoin /\ <<CloseStep>>_vars => (Done)'
    BY PauseGoesOn DEF PauseAdvances, IInv, TypeOK, lock
  <1>3. PauseIsNeverStuck /\ MayJoin => ENABLED <<CloseStep>>_vars
    BY NeverStuck DEF WaitsForLooper, Pausing, ClosingUI, lock
  <1> QED
    BY <1>1, <1>2, <1>3, PTL DEF Going, Fairness

----------------------------------------------------------------------------
(* The theorems *)

\* The inductive invariant holds in every state of every behaviour.
THEOREM Invariance == Spec => []IInv
  BY InitIInv, Inductive, PTL DEF Spec

\* However often the camera is opened, every variable keeps its type.
THEOREM TypeCorrect == Spec => []TypeOK
  <1>1. IInv => TypeOK
    BY DEF IInv
  <1> QED
    BY <1>1, Invariance, PTL

\* No permit is taken or given back except as PermitAccounting lists it.
THEOREM PermitsAccounted == Spec => []PermitAccounting
  <1>1. IInv => PermitAccounting
    BY DEF IInv
  <1> QED
    BY <1>1, Invariance, PTL

\* Opening and closing exclude each other until a connection has been lost.
THEOREM Exclusive == Spec => []OpenCloseExclusive
  <1>1. IInv => OpenCloseExclusive
    BY AccountConsequences DEF IInv
  <1> QED
    BY <1>1, Invariance, PTL

\* onPause blocks only on an open that has an answer queued or never gets one.
THEOREM PauseWaitsForAnswer == Spec => []CloseWaitsForCallback
  <1>1. IInv => CloseWaitsForCallback
    BY AccountConsequences DEF IInv
  <1> QED
    BY <1>1, Invariance, PTL

\* However often the camera is opened, no open waits for the permit.
THEOREM NoOpenTimesOut == Spec => []OpenNeverWaits
  <1>1. IInv => OpenNeverWaits
    BY DEF IInv, Free
  <1> QED
    BY <1>1, Invariance, PTL

\* One device at a time has callbacks outstanding.
THEOREM OneDeviceAtATime == Spec => []OneAttachedDevice
  <1>1. IInv => OneAttachedDevice
    BY DEF IInv
  <1> QED
    BY <1>1, Invariance, PTL

\* No callback is outstanding once the looper of its session is joined.
THEOREM CallbacksConfined == Spec => []DeadLooperIsQuiet
  <1>1. IInv => DeadLooperIsQuiet
    BY DEF IInv
  <1> QED
    BY <1>1, Invariance, PTL

\* Between callbacks, mCameraDevice is never a closed device.
THEOREM FieldFollowsClosing == Spec => []FieldIsNotClosed
  <1>1. IInv => FieldIsNotClosed
    BY DEF IInv, Fields
  <1> QED
    BY <1>1, Invariance, PTL

\* An ImageReader is closed before the next one is made.
THEOREM ReadersClosed == Spec => ReaderIsClosedFirst
  BY Invariance, StepClosesReader, PTL DEF Spec, ReaderIsClosedFirst

\* Inside onPause there is always a guard that holds, its own or that of the looper it
\* waits for, for any number of opens: an answer that is queued finds its looper.
THEOREM PauseGoesOnOrWaits == Spec => []PauseHasAStep
  <1>1. IInv => PauseHasAStep
    BY SomebodyGoesOn DEF PauseHasAStep, Pausing
  <1> QED
    BY <1>1, Invariance, PTL

\* So onPause and the looper never wait for each other.
THEOREM PauseNotStuck == Spec /\ []StepsFollowGuards => []PauseIsNeverStuck
  BY PauseGoesOnOrWaits, PTL DEF PauseIsNeverStuck

\* onPause always comes to its end when its open was answered, for any number of
\* opens: whatever the looper is doing, it ends before the acquire and before the
\* join, and nothing new can be queued behind it.
THEOREM PauseEndsInTime == FairSpec /\ []StepsFollowGuards => PauseCompletes
  <1>1. IInv /\ ui = "closeLock" /\ Lost = {} =>
          BlockedByCallback \/ BlockedByQueue \/ MayAcquire
    BY DEF IInv, TypeOK, BlockedByCallback, BlockedByQueue, MayAcquire, lock
  <1>2. FairSpec /\ []StepsFollowGuards => Going
    BY Invariance, PauseNotStuck, PTL DEF FairSpec, Spec, Going
  <1>3. FairSpec => []IInv
    BY Invariance, PTL DEF FairSpec
  <1>4. Going => (BlockedByCallback \/ BlockedByQueue \/ MayAcquire ~> AtQuit \/ Done)
    BY CallbackEnds, AnswerComes, PauseAcquires, PauseChecks, PauseCloses, PauseNulls,
       PauseReleases, PTL
  <1>5. Going => (AtQuit ~> Done)
    BY PauseQuits, JoinSeesCallbackEnd, JoinSeesQueueEmpty, JoinSeesLastEnd,
       PauseJoins, PTL
  <1> QED
    BY <1>1, <1>2, <1>3, <1>4, <1>5, PTL DEF PauseCompletes, Done

=============================================================================
