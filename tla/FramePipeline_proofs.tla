------------------------ MODULE FramePipeline_proofs ------------------------
(***************************************************************************)
(* What the checks of FramePipeline show for three sessions and three      *)
(* frames, for any number of either.  The invariant behind all of it is    *)
(* Exclusion: whoever has to give mIsComputing back is alone.              *)
(* The liveness theorems count how far a frame is from its end, Work.      *)
(***************************************************************************)
EXTENDS FramePipeline, SequenceTheorems, FiniteSetTheorems, TLAPS

\* A frame that is written or read is one of the camera's.
FramesKnown ==
    /\ \A s \in Session : Writing(s) => bg[s].frame \in Frame
    /\ \A s \in Session : Reading(s) => inf[s].frame \in Frame

\* Writer, waiting task and reader exclude each other and themselves.
Exclusion ==
    /\ \A s, t \in Session :
         /\ Writing(s) => ~Reading(t) /\ (Writing(t) => s = t)
         /\ Reading(s) => (Reading(t) => s = t)
         /\ \A i \in DOMAIN tasks[t] : DetectTask(t, i) =>
              /\ ~Writing(s) /\ ~Reading(s)
              /\ \A j \in DOMAIN tasks[s] : DetectTask(s, j) => s = t /\ i = j
    /\ ~mIsComputing => \A s \in Session :
         /\ ~Writing(s) /\ ~Reading(s)
         /\ \A i \in DOMAIN tasks[s] : ~DetectTask(s, i)

\* A detection is queued only on the looper initialize was given.
DetectsOnFirstLooper ==
    \A s \in Session : \A i \in DOMAIN tasks[s] : DetectTask(s, i) => s = mInferenceHandler

\* Nothing is posted before initialize has read the handler, once.
HandlerReadOnce ==
    /\ session = 0 => initThread = "none"
    /\ initThread \in {"none", "started"} => mInferenceHandler = Null
    /\ DetectsOnFirstLooper

IInv ==
    /\ TypeOK
    /\ FramesKnown
    /\ Exclusion
    /\ FrameIntact
    /\ DetectorOutlivesDetection
    /\ HandlerReadOnce

----------------------------------------------------------------------------
(* The queue of an inference looper *)

\* What a task at the end of the queue changes.
LEMMA Appended ==
  ASSUME NEW q \in Seq(Task), NEW e \in Task
  PROVE  /\ Append(q, e) \in Seq(Task)
         /\ DOMAIN q \subseteq DOMAIN Append(q, e)
         /\ Len(q) + 1 \in DOMAIN Append(q, e)
         /\ Append(q, e)[Len(q) + 1] = e
         /\ \A i \in DOMAIN Append(q, e) :
              \/ i \in DOMAIN q /\ Append(q, e)[i] = q[i]
              \/ i = Len(q) + 1 /\ i \notin DOMAIN q
  BY AppendProperties

\* What a task taken from the front changes.
LEMMA Taken ==
  ASSUME NEW q \in Seq(Task), q # <<>>
  PROVE  /\ Tail(q) \in Seq(Task)
         /\ Head(q) \in Task
         /\ 1 \in DOMAIN q /\ Head(q) = q[1]
         /\ \A i \in DOMAIN Tail(q) :
              i \in Nat /\ i > 0 /\ i + 1 \in DOMAIN q /\ Tail(q)[i] = q[i + 1]
  BY HeadTailProperties

\* A thread that moves on stays a thread.
LEMMA Moved ==
  ASSUME NEW P, NEW f \in [Session -> Thread(P)], NEW s \in Session, NEW p \in P
  PROVE  [f EXCEPT ![s].at = p] \in [Session -> Thread(P)]
  <1>1. [f[s] EXCEPT !.at = p] \in Thread(P)
    BY DEF Thread
  <1> QED
    BY <1>1

LEMMA Stopped ==
  ASSUME NEW P, NEW f \in [Session -> Thread(P)], NEW s \in Session, "idle" \in P
  PROVE  [f EXCEPT ![s] = Idle] \in [Session -> Thread(P)]
  BY DEF Thread, Idle

----------------------------------------------------------------------------
(* The initial state, and a new activity *)

LEMMA InitIInv == Init => IInv
  <1> SUFFICES ASSUME Init PROVE IInv
    OBVIOUS
  <1>1. TypeOK
    <2>1. bg \in [Session -> Thread(BgAt)] /\ inf \in [Session -> Thread(InfAt)]
      BY DEF Init, Thread, BgAt, InfAt, Idle
    <2>2. tasks \in [Session -> Seq(Task)]
      BY EmptySeq DEF Init
    <2>3. frames \in 0..MaxFrames /\ session \in Session \union {0}
      BY MaxFramesAssumption DEF Init
    <2>4. bgLooper \in [Session -> Looper] /\ infLooper \in [Session -> Looper]
      BY DEF Init, Looper
    <2> QED
      BY <2>1, <2>2, <2>3, <2>4 DEF Init, TypeOK, UI, Crash, Null
  <1>2. \A s \in Session : ~Writing(s) /\ ~Reading(s) /\ DOMAIN tasks[s] = {}
    BY DEF Init, Writing, Reading, Idle
  <1>3. FramesKnown /\ Exclusion /\ FrameIntact
    BY <1>2 DEF FramesKnown, Exclusion, FrameIntact
  <1>4. DetectorOutlivesDetection /\ HandlerReadOnce
    BY <1>2 DEF Init, DetectorOutlivesDetection, Idle, HandlerReadOnce, DetectsOnFirstLooper
  <1> QED
    BY <1>1, <1>3, <1>4 DEF IInv

\* A new activity starts like the first one.
LEMMA NewIsInit == NewActivity => Init'
  BY DEF NewActivity, Init

LEMMA NewIInv == NewActivity => IInv'
  BY NewIsInit, InitIInv, PTL

----------------------------------------------------------------------------
(* Every step keeps IInv *)

LEMMA StepTypes == TypeOK /\ FramesKnown /\ [Next]_vars => TypeOK'
  <1> SUFFICES ASSUME TypeOK, FramesKnown, [Next]_vars PROVE TypeOK'
    OBVIOUS
  <1> USE DEF TypeOK, screen, background, inference, listener, Null
  <1>1. CASE Resume \/ CreateReader \/ Pause
    <2>1. CASE Resume
      <3>1. session + 1 \in Session
        BY <2>1, MaxSessionsAssumption DEF Resume, Session
      <3> QED
        BY <2>1, <3>1 DEF Resume, Looper
    <2>2. CASE CreateReader \/ Pause
      BY <2>2 DEF CreateReader, Pause, UI
    <2> QED
      BY <1>1, <2>1, <2>2
  <1>2. CASE PauseStep
    BY <1>2, ZenonT(60) DEF PauseStep, CloseReader, DeInitialize, Release, QuitBackground,
       QuitInference, JoinBackground, JoinInference, Looper, UI
  <1>3. CASE InitializeStep
    BY <1>3 DEF InitializeStep, InitializeHandler, InitializeDetector
  <1>4. ASSUME NEW s \in Session, Acquire(s) PROVE TypeOK'
    <2>1. frames' \in Frame /\ frames' \in 0..MaxFrames
      BY <1>4, MaxFramesAssumption DEF Acquire, Frame
    <2>2. bg' \in [Session -> Thread(BgAt)]
      BY <1>4, <2>1 DEF Acquire, Thread, BgAt
    <2> QED
      BY <1>4, <2>1, <2>2 DEF Acquire
  <1>5. ASSUME NEW s \in Session, Disconnect(s) \/ Convert(s) PROVE TypeOK'
    <2>1. bg' \in [Session -> Thread(BgAt)]
      <3>1. "drawing" \in BgAt /\ "disconnecting" \in BgAt
        BY DEF BgAt
      <3>2. PICK p \in BgAt : bg' = [bg EXCEPT ![s].at = p]
        BY <1>5, <3>1 DEF Disconnect, Convert
      <3> QED
        BY <3>2, Moved
    <2> QED
      BY <1>5, <2>1 DEF Disconnect, Convert
  <1>6. ASSUME NEW s \in Session, ConvertThrows(s) \/ DisconnectReleases(s) PROVE TypeOK'
    <2>1. bg' \in [Session -> Thread(BgAt)]
      <3>1. "idle" \in BgAt
        BY DEF BgAt
      <3>2. bg' = [bg EXCEPT ![s] = Idle]
        BY <1>6 DEF ConvertThrows, DisconnectReleases
      <3> QED
        BY <3>1, <3>2, Stopped
    <2> QED
      BY <1>6, <2>1 DEF ConvertThrows, DisconnectReleases, Release
  <1>7. ASSUME NEW s \in Session, Post(s) PROVE TypeOK'
    <2>1. bg[s].frame \in Frame
      BY <1>7 DEF Post, BgRuns, FramesKnown, Writing
    <2>2. bg' \in [Session -> Thread(BgAt)]
      BY <1>7 DEF Post, Thread, BgAt, Idle
    <2>3. tasks' \in [Session -> Seq(Task)]
      <3>1. [kind |-> "detect", frame |-> bg[s].frame] \in Task
        BY <2>1 DEF Task
      <3>2. Append(tasks[mInferenceHandler], [kind |-> "detect", frame |-> bg[s].frame])
              \in Seq(Task)
        BY <1>7, <3>1, Appended DEF Post
      <3> QED
        BY <1>7, <3>2 DEF Post
    <2> QED
      BY <1>7, <2>1, <2>2, <2>3 DEF Post
  <1>8. ASSUME NEW s \in Session, PostCrashes(s) \/ TaskCrashes(s) PROVE TypeOK'
    BY <1>8 DEF PostCrashes, TaskCrashes, Die, Crash
  <1>9. ASSUME NEW s \in Session, StartTask(s) \/ Draw(s) PROVE TypeOK'
    <2>1. Tail(tasks[s]) \in Seq(Task) /\ Head(tasks[s]) \in Task
      BY <1>9, Taken DEF StartTask, Draw, NextTask
    <2>2. inf' \in [Session -> Thread(InfAt)]
      <3>1. Head(tasks[s]).frame \in Frame
        BY <2>1 DEF Task
      <3>2. \A p \in InfAt : [at |-> p, frame |-> Head(tasks[s]).frame] \in Thread(InfAt)
        BY <3>1 DEF Thread
      <3> QED
        BY <1>9, <3>2 DEF StartTask, Draw, InfAt
    <2> QED
      BY <1>9, <2>1, <2>2 DEF StartTask, Draw
  <1>10. ASSUME NEW s \in Session, Detected(s) \/ Skip(s) PROVE TypeOK'
    <2>1. inf' \in [Session -> Thread(InfAt)]
      <3>1. CASE Detected(s)
        <4>1. PICK p \in InfAt : inf' = [inf EXCEPT ![s].at = p]
          BY <3>1 DEF Detected, InfAt
        <4> QED
          BY <4>1, Moved
      <3>2. CASE Skip(s)
        BY <3>2, Stopped DEF Skip, InfAt
      <3> QED
        BY <1>10, <3>1, <3>2
    <2> QED
      BY <1>10, <2>1 DEF Detected, Skip
  <1>11. ASSUME NEW s \in Session, Deliver(s) PROVE TypeOK'
    <2>1. inf[s].frame \in Frame
      BY <1>11 DEF Deliver, InfRuns, FramesKnown, Reading
    <2>2. inf' \in [Session -> Thread(InfAt)]
      BY <1>11 DEF Deliver, Thread, InfAt, Idle
    <2>3. tasks' \in [Session -> Seq(Task)]
      <3>1. [kind |-> "draw", frame |-> inf[s].frame] \in Task
        BY <2>1 DEF Task
      <3>2. session \in Session =>
              Append(tasks[session], [kind |-> "draw", frame |-> inf[s].frame]) \in Seq(Task)
        BY <3>1, Appended
      <3>3. session \notin Session =>
              [tasks EXCEPT ![session] =
                 Append(@, [kind |-> "draw", frame |-> inf[s].frame])] = tasks
        OBVIOUS
      <3> QED
        BY <1>11, <3>2, <3>3 DEF Deliver
    <2> QED
      BY <1>11, <2>2, <2>3 DEF Deliver
  <1>12. CASE NewActivity
    BY <1>12, NewIInv DEF IInv
  <1>13. CASE UNCHANGED vars
    BY <1>13 DEF vars
  <1> QED
    BY <1>1, <1>2, <1>3, <1>4, <1>5, <1>6, <1>7, <1>8, <1>9, <1>10, <1>11, <1>12, <1>13
    DEF Next, BackgroundStep, InferenceStep

Holding == FramesKnown /\ Exclusion /\ FrameIntact

\* A step that takes nobody's hands off the buffer and puts nobody's on.
LEMMA Untouched ==
  ASSUME TypeOK, Holding, UNCHANGED <<inf, tasks, mIsComputing, mCroppedBitmap>>,
         \A t \in Session : Writing(t)' = Writing(t) /\ (Writing(t) => bg'[t] = bg[t])
  PROVE  Holding'
  BY DEF Holding, FramesKnown, Exclusion, FrameIntact, Writing, Reading, DetectTask

LEMMA StepHolding == TypeOK /\ Holding /\ [Next]_vars => Holding'
  <1> SUFFICES ASSUME TypeOK, Holding, [Next]_vars PROVE Holding'
    OBVIOUS
  <1> USE DEF screen, background, inference, listener
  <1>1. CASE Resume \/ CreateReader \/ Pause \/ PauseStep \/ InitializeStep
    <2>1. UNCHANGED <<bg, inf, tasks, mIsComputing, mCroppedBitmap>>
      BY <1>1 DEF Resume, CreateReader, Pause, PauseStep, CloseReader, DeInitialize,
         QuitBackground, QuitInference, JoinBackground, JoinInference, InitializeStep,
         InitializeHandler, InitializeDetector
    <2> QED
      BY <2>1, Untouched DEF Writing
  <1>2. ASSUME NEW s \in Session, PostCrashes(s) \/ TaskCrashes(s) PROVE Holding'
    <2>1. UNCHANGED <<bg, inf, tasks, mIsComputing, mCroppedBitmap>>
      BY <1>2 DEF PostCrashes, TaskCrashes
    <2> QED
      BY <2>1, Untouched DEF Writing
  <1>3. ASSUME NEW s \in Session, Disconnect(s) \/ DisconnectReleases(s) PROVE Holding'
    <2>1. UNCHANGED <<inf, tasks, mIsComputing, mCroppedBitmap>>
      BY <1>3 DEF Disconnect, DisconnectReleases
    <2>2. /\ ~Writing(s) /\ ~Writing(s)'
          /\ \A t \in Session \ {s} : bg'[t] = bg[t]
      BY <1>3 DEF Disconnect, DisconnectReleases, BgRuns, Writing, TypeOK, Idle, Thread
    <2>3. \A t \in Session : Writing(t)' = Writing(t) /\ (Writing(t) => bg'[t] = bg[t])
      BY <2>2 DEF Writing
    <2> QED
      BY <2>1, <2>3, Untouched
  <1>4. ASSUME NEW s \in Session, Acquire(s) PROVE Holding'
    <2>1. \A t \in Session :
            ~Writing(t) /\ ~Reading(t) /\ \A i \in DOMAIN tasks[t] : ~DetectTask(t, i)
      BY <1>4 DEF Acquire, Holding, Exclusion
    <2>2. mIsComputing' /\ UNCHANGED <<tasks, inf>>
      BY <1>4 DEF Acquire
    <2>3. bg'[s].frame \in Frame /\ \A t \in Session \ {s} : bg'[t] = bg[t]
      BY <1>4, MaxFramesAssumption DEF Acquire, Frame, TypeOK
    <2>4. \A t \in Session : ~Reading(t)' /\ \A i \in DOMAIN tasks'[t] : ~DetectTask(t, i)'
      BY <2>1, <2>2 DEF Reading, DetectTask
    <2>5. \A t \in Session : Writing(t)' => t = s
      BY <2>1, <2>3 DEF Writing
    <2> QED
      BY <2>2, <2>3, <2>4, <2>5 DEF Holding, FramesKnown, Exclusion, FrameIntact
  <1>5. ASSUME NEW s \in Session, Convert(s) PROVE Holding'
    <2>1. Writing(s) /\ UNCHANGED <<tasks, inf, mIsComputing>>
      BY <1>5 DEF Convert, BgRuns, Writing
    <2>2. \A t \in Session : ~Reading(t) /\ \A i \in DOMAIN tasks[t] : ~DetectTask(t, i)
      BY <2>1 DEF Holding, Exclusion
    <2>3. \A t \in Session : bg'[t].frame = bg[t].frame /\ (t # s => bg'[t] = bg[t])
      BY <1>5 DEF Convert, TypeOK, Thread
    <2>4. \A t \in Session : Writing(t)' => t = s
      BY <2>1, <2>3 DEF Holding, Exclusion, Writing
    <2>5. \A t \in Session : ~Reading(t)' /\ \A i \in DOMAIN tasks'[t] : ~DetectTask(t, i)'
      BY <2>1, <2>2 DEF Reading, DetectTask
    <2>6. mIsComputing'
      BY <2>1 DEF Holding, Exclusion
    <2>7. bg'[s].frame \in Frame
      BY <2>1, <2>3 DEF Holding, FramesKnown
    <2> QED
      BY <2>4, <2>5, <2>6, <2>7 DEF Holding, FramesKnown, Exclusion, FrameIntact
  <1>6. ASSUME NEW s \in Session, ConvertThrows(s) PROVE Holding'
    <2>1. Writing(s) /\ UNCHANGED <<tasks, inf, mIsComputing>>
      BY <1>6 DEF ConvertThrows, BgRuns, Writing
    <2>2. \A t \in Session : ~Reading(t) /\ \A i \in DOMAIN tasks[t] : ~DetectTask(t, i)
      BY <2>1 DEF Holding, Exclusion
    <2>3. ~Writing(s)' /\ \A t \in Session \ {s} : bg'[t] = bg[t]
      BY <1>6 DEF ConvertThrows, TypeOK, Writing, Idle
    <2>4. \A t \in Session : ~Writing(t)'
      BY <2>1, <2>3 DEF Holding, Exclusion, Writing
    <2>5. \A t \in Session : ~Reading(t)' /\ \A i \in DOMAIN tasks'[t] : ~DetectTask(t, i)'
      BY <2>1, <2>2 DEF Reading, DetectTask
    <2> QED
      BY <2>4, <2>5 DEF Holding, FramesKnown, Exclusion, FrameIntact
  <1>7. ASSUME NEW s \in Session, Post(s) PROVE Holding'
    <2>0. PICK h \in Session, task \in {[kind |-> "detect", frame |-> bg[s].frame]} :
            h = mInferenceHandler /\ task = [kind |-> "detect", frame |-> bg[s].frame]
      BY <1>7 DEF Post, TypeOK
    <2>1. Writing(s) /\ UNCHANGED <<inf, mIsComputing>>
      BY <1>7 DEF Post, BgRuns, Writing
    <2>2. \A t \in Session : ~Reading(t) /\ \A i \in DOMAIN tasks[t] : ~DetectTask(t, i)
      BY <2>1 DEF Holding, Exclusion
    <2>3. ~Writing(s)' /\ \A t \in Session \ {s} : bg'[t] = bg[t]
      BY <1>7 DEF Post, TypeOK, Writing, Idle
    <2>4. \A t \in Session : ~Writing(t)' /\ ~Reading(t)'
      BY <2>1, <2>2, <2>3 DEF Holding, Exclusion, Writing, Reading
    <2>5. mIsComputing' /\ task \in Task /\ tasks[h] \in Seq(Task)
      BY <2>0, <2>1 DEF Holding, Exclusion, FramesKnown, Task, TypeOK
    <2>6. mCroppedBitmap' = bg[s].frame
      BY <1>7 DEF Post
    <2>7. \A t \in Session : \A i \in DOMAIN tasks'[t] :
            DetectTask(t, i)' => t = h /\ i = Len(tasks[h]) + 1 /\ tasks'[t][i] = task
      <3>1. \A t \in Session : t # h => tasks'[t] = tasks[t]
        BY <1>7, <2>0 DEF Post, TypeOK
      <3>2. tasks'[h] = tasks[h] \/ tasks'[h] = Append(tasks[h], task)
        BY <1>7, <2>0 DEF Post, TypeOK
      <3>3. \A t \in Session : \A i \in DOMAIN tasks[t] : tasks[t][i].kind # "detect"
        BY <2>2 DEF DetectTask
      <3>4. ASSUME NEW i \in DOMAIN tasks'[h], tasks'[h][i].kind = "detect"
            PROVE  i = Len(tasks[h]) + 1 /\ tasks'[h][i] = task
        <4>1. tasks'[h] = Append(tasks[h], task)
          BY <3>2, <3>3, <3>4
        <4>2. \/ i \in DOMAIN tasks[h] /\ tasks'[h][i] = tasks[h][i]
              \/ i = Len(tasks[h]) + 1 /\ tasks'[h][i] = task
          BY <2>5, <4>1, Appended
        <4> QED
          BY <3>3, <3>4, <4>2
      <3> QED
        BY <3>1, <3>3, <3>4 DEF DetectTask
    <2>8. task.frame = bg[s].frame
      BY <2>0
    <2> QED
      BY <2>4, <2>5, <2>6, <2>7, <2>8 DEF Holding, FramesKnown, Exclusion, FrameIntact
  <1>8. ASSUME NEW s \in Session, StartTask(s) PROVE Holding'
    <2>1. /\ tasks[s] \in Seq(Task) /\ tasks[s] # <<>>
          /\ UNCHANGED <<bg, mIsComputing, mCroppedBitmap>>
      BY <1>8 DEF StartTask, NextTask, TypeOK
    <2>2. 1 \in DOMAIN tasks[s] /\ DetectTask(s, 1) /\ Head(tasks[s]) = tasks[s][1]
      BY <1>8, <2>1, Taken DEF StartTask, NextTask, DetectTask
    <2>3. \A t \in Session : ~Writing(t) /\ ~Reading(t)
      BY <2>2 DEF Holding, Exclusion
    <2>4. \A t \in Session : \A i \in DOMAIN tasks[t] : DetectTask(t, i) => t = s /\ i = 1
      BY <2>2 DEF Holding, Exclusion
    <2>5. \A t \in Session : \A i \in DOMAIN tasks'[t] : ~DetectTask(t, i)'
      <3>1. tasks'[s] = Tail(tasks[s]) /\ \A t \in Session \ {s} : tasks'[t] = tasks[t]
        BY <1>8 DEF StartTask, TypeOK
      <3>2. \A i \in DOMAIN Tail(tasks[s]) :
              i \in Nat /\ i > 0 /\ i + 1 \in DOMAIN tasks[s] /\ Tail(tasks[s])[i] = tasks[s][i + 1]
        BY <2>1, Taken
      <3>3. \A i \in DOMAIN Tail(tasks[s]) : ~DetectTask(s, i + 1)
        BY <2>4, <3>2
      <3>4. \A i \in DOMAIN Tail(tasks[s]) : Tail(tasks[s])[i].kind # "detect"
        BY <3>2, <3>3 DEF DetectTask
      <3>5. \A t \in Session \ {s} : \A i \in DOMAIN tasks[t] : tasks[t][i].kind # "detect"
        BY <2>4 DEF DetectTask
      <3> QED
        BY <3>1, <3>4, <3>5 DEF DetectTask
    <2>6. inf'[s].frame = tasks[s][1].frame /\ \A t \in Session \ {s} : inf'[t] = inf[t]
      BY <1>8, <2>2 DEF StartTask, TypeOK
    <2>7. \A t \in Session : ~Writing(t)' /\ (Reading(t)' => t = s)
      BY <2>1, <2>3, <2>6 DEF Writing, Reading
    <2>8. inf'[s].frame \in Frame /\ inf'[s].frame = mCroppedBitmap' /\ mIsComputing'
      <3>1. Head(tasks[s]) \in Task
        BY <2>1, Taken
      <3>2. tasks[s][1].frame \in Frame
        BY <2>2, <3>1 DEF Task
      <3>3. tasks[s][1].frame = mCroppedBitmap /\ mIsComputing
        BY <2>2 DEF Holding, FrameIntact, Exclusion
      <3> QED
        BY <2>1, <2>6, <3>2, <3>3
    <2> QED
      BY <2>5, <2>7, <2>8 DEF Holding, FramesKnown, Exclusion, FrameIntact
  <1>9. ASSUME NEW s \in Session, Detected(s) PROVE Holding'
    <2>1. Reading(s) /\ UNCHANGED <<bg, tasks, mIsComputing, mCroppedBitmap>>
      BY <1>9 DEF Detected, InfRuns, Reading
    <2>2. \A t \in Session : inf'[t].frame = inf[t].frame /\ Reading(t)' = Reading(t)
      BY <1>9, <2>1 DEF Detected, TypeOK, Thread, Reading
    <2>3. \A t \in Session : Writing(t)' = Writing(t)
      BY <2>1 DEF Writing
    <2>4. \A t \in Session : \A i \in DOMAIN tasks[t] : DetectTask(t, i)' = DetectTask(t, i)
      BY <2>1 DEF DetectTask
    <2> QED
      BY <2>1, <2>2, <2>3, <2>4 DEF Holding, FramesKnown, Exclusion, FrameIntact
  <1>10. ASSUME NEW s \in Session, Deliver(s) \/ Skip(s) PROVE Holding'
    <2>1. Reading(s) /\ UNCHANGED <<bg, mCroppedBitmap>>
      BY <1>10 DEF Deliver, Skip, InfRuns, Reading
    <2>2. \A t \in Session : ~Writing(t) /\ \A i \in DOMAIN tasks[t] : ~DetectTask(t, i)
      BY <2>1 DEF Holding, Exclusion
    <2>3. \A t \in Session : ~Reading(t)'
      <3>1. inf' = [inf EXCEPT ![s] = Idle]
        BY <1>10 DEF Deliver, Skip
      <3>2. inf'[s].at = "idle" /\ \A t \in Session \ {s} : inf'[t] = inf[t]
        BY <3>1 DEF TypeOK, Idle
      <3>3. \A t \in Session : Reading(t) => t = s
        BY <2>1 DEF Holding, Exclusion
      <3> QED
        BY <3>2, <3>3 DEF Reading
    <2>4. \A t \in Session : ~Writing(t)'
      BY <2>1, <2>2 DEF Writing
    <2>5. \A t \in Session : \A i \in DOMAIN tasks'[t] : ~DetectTask(t, i)'
      <3> DEFINE task == [kind |-> "draw", frame |-> inf[s].frame]
      <3>1. \A t \in Session : tasks'[t] = tasks[t] \/ tasks'[t] = Append(tasks[t], task)
        BY <1>10 DEF Deliver, Skip, TypeOK
      <3>2. task \in Task /\ task.kind # "detect"
        BY <2>1 DEF Task, Holding, FramesKnown
      <3> HIDE DEF task
      <3>3. ASSUME NEW t \in Session, NEW i \in DOMAIN tasks'[t] PROVE tasks'[t][i].kind # "detect"
        <4>1. CASE tasks'[t] = tasks[t]
          BY <2>2, <4>1 DEF DetectTask
        <4>2. CASE tasks'[t] = Append(tasks[t], task)
          <5>1. tasks[t] \in Seq(Task)
            BY DEF TypeOK
          <5>2. \/ i \in DOMAIN tasks[t] /\ tasks'[t][i] = tasks[t][i]
                \/ tasks'[t][i] = task
            BY <3>2, <4>2, <5>1, Appended
          <5> QED
            BY <2>2, <3>2, <5>2 DEF DetectTask
        <4> QED
          BY <3>1, <4>1, <4>2
      <3> QED
        BY <3>3 DEF DetectTask
    <2> QED
      BY <2>3, <2>4, <2>5 DEF Holding, FramesKnown, Exclusion, FrameIntact
  <1>11. ASSUME NEW s \in Session, Draw(s) PROVE Holding'
    <2>1. /\ tasks[s] \in Seq(Task) /\ tasks[s] # <<>>
          /\ UNCHANGED <<bg, inf, mIsComputing, mCroppedBitmap>>
      BY <1>11 DEF Draw, NextTask, TypeOK
    <2>2. tasks'[s] = Tail(tasks[s]) /\ \A t \in Session \ {s} : tasks'[t] = tasks[t]
      BY <1>11 DEF Draw, TypeOK
    <2>3. \A i \in DOMAIN Tail(tasks[s]) :
            i \in Nat /\ i > 0 /\ i + 1 \in DOMAIN tasks[s] /\ Tail(tasks[s])[i] = tasks[s][i + 1]
      BY <2>1, Taken
    <2> DEFINE old(t, i) == IF t = s THEN i + 1 ELSE i
    <2>4. \A t \in Session : \A i \in DOMAIN tasks'[t] :
            DetectTask(t, i)' =>
              /\ old(t, i) \in DOMAIN tasks[t]
              /\ DetectTask(t, old(t, i))
              /\ tasks'[t][i] = tasks[t][old(t, i)]
      BY <2>2, <2>3 DEF DetectTask
    <2>5. \A t \in Session : Writing(t)' = Writing(t) /\ Reading(t)' = Reading(t)
      BY <2>1 DEF Writing, Reading
    <2>6. \A t \in Session : \A i, j \in DOMAIN tasks'[t] :
            old(t, i) = old(t, j) => i = j
      <3>1. \A i, j \in DOMAIN tasks'[s] : i + 1 = j + 1 => i = j
        BY <2>2, <2>3
      <3> QED
        BY <3>1
    <2> HIDE DEF old
    <2>7. FrameIntact' /\ FramesKnown'
      BY <2>1, <2>4, <2>5 DEF Holding, FramesKnown, FrameIntact
    <2>8. Exclusion'
      <3>1. ASSUME NEW u \in Session, NEW t \in Session, NEW i \in DOMAIN tasks'[t],
                   DetectTask(t, i)'
            PROVE  /\ ~Writing(u)' /\ ~Reading(u)'
                   /\ \A j \in DOMAIN tasks'[u] : DetectTask(u, j)' => u = t /\ i = j
        <4>1. ~Writing(u) /\ ~Reading(u)
          BY <2>4, <3>1 DEF Holding, Exclusion
        <4>2. ASSUME NEW j \in DOMAIN tasks'[u], DetectTask(u, j)' PROVE u = t /\ i = j
          <5>1. u = t /\ old(t, i) = old(u, j)
            BY <2>4, <3>1, <4>2 DEF Holding, Exclusion
          <5> QED
            BY <2>6, <5>1
        <4> QED
          BY <2>5, <4>1, <4>2
      <3>2. ~mIsComputing' => \A t \in Session :
              ~Writing(t)' /\ ~Reading(t)' /\ \A i \in DOMAIN tasks'[t] : ~DetectTask(t, i)'
        BY <2>1, <2>4, <2>5 DEF Holding, Exclusion
      <3>3. \A u, t \in Session :
              /\ Writing(u)' => ~Reading(t)' /\ (Writing(t)' => u = t)
              /\ Reading(u)' => (Reading(t)' => u = t)
        BY <2>5 DEF Holding, Exclusion
      <3> QED
        BY <3>1, <3>2, <3>3 DEF Exclusion
    <2> QED
      BY <2>7, <2>8 DEF Holding
  <1>12. CASE NewActivity
    BY <1>12, NewIInv DEF IInv, Holding
  <1>13. CASE UNCHANGED vars
    <2>1. UNCHANGED <<bg, inf, tasks, mIsComputing, mCroppedBitmap>>
      BY <1>13 DEF vars
    <2> QED
      BY <2>1, Untouched DEF Writing
  <1> QED
    BY <1>1, <1>2, <1>3, <1>4, <1>5, <1>6, <1>7, <1>8, <1>9, <1>10, <1>11, <1>12, <1>13
    DEF Next, BackgroundStep, InferenceStep

LEMMA StepDetector ==
  TypeOK /\ DetectorOutlivesDetection /\ [Next]_vars => DetectorOutlivesDetection'
  <1> SUFFICES ASSUME TypeOK, DetectorOutlivesDetection, [Next]_vars
               PROVE  DetectorOutlivesDetection'
    OBVIOUS
  <1> USE DEF DetectorOutlivesDetection, screen, background, inference, listener
  <1>1. CASE UNCHANGED <<inf, mFaceDet>>
    BY <1>1
  <1>2. CASE DeInitialize \/ \E s \in Session : DisconnectReleases(s)
    BY <1>2 DEF DeInitialize, DisconnectReleases, Release, MonitorFree
  <1>3. CASE InitializeDetector
    BY <1>3 DEF InitializeDetector
  <1>4. ASSUME NEW s \in Session, StartTask(s) PROVE DetectorOutlivesDetection'
    <2>1. mFaceDet' = mFaceDet /\ inf'[s].at = "detecting" => mFaceDet = "live"
      BY <1>4 DEF StartTask, TypeOK
    <2>2. mFaceDet' = mFaceDet /\ \A t \in Session \ {s} : inf'[t] = inf[t]
      BY <1>4 DEF StartTask, TypeOK
    <2> QED
      BY <2>1, <2>2
  <1>5. ASSUME NEW s \in Session, Detected(s) \/ Deliver(s) \/ Skip(s)
        PROVE  DetectorOutlivesDetection'
    <2>1. mFaceDet' = mFaceDet /\ \A t \in Session \ {s} : inf'[t] = inf[t]
      BY <1>5 DEF Detected, Deliver, Skip, TypeOK
    <2>2. inf'[s].at # "detecting"
      BY <1>5 DEF Detected, Deliver, Skip, TypeOK, Thread, Idle
    <2> QED
      BY <2>1, <2>2
  <1>6. CASE NewActivity
    BY <1>6, NewIInv DEF IInv
  <1>7. Resume \/ CreateReader \/ Pause \/ InitializeHandler => UNCHANGED <<inf, mFaceDet>>
    BY DEF Resume, CreateReader, Pause, InitializeHandler
  <1>8. PauseStep => DeInitialize \/ UNCHANGED <<inf, mFaceDet>>
    BY DEF PauseStep, CloseReader, QuitBackground, QuitInference, JoinBackground, JoinInference
  <1>9. \A s \in Session :
          Acquire(s) \/ Disconnect(s) \/ Convert(s) \/ ConvertThrows(s) \/ Post(s)
            \/ PostCrashes(s) \/ TaskCrashes(s) \/ Draw(s) => UNCHANGED <<inf, mFaceDet>>
    BY DEF Acquire, Disconnect, Convert, ConvertThrows, Post, PostCrashes, TaskCrashes, Draw
  <1>10. UNCHANGED vars => UNCHANGED <<inf, mFaceDet>>
    BY DEF vars
  <1> QED
    BY <1>1, <1>2, <1>3, <1>4, <1>5, <1>6, <1>7, <1>8, <1>9, <1>10
    DEF Next, InitializeStep, BackgroundStep, InferenceStep

\* A queue changes at its end or at its front, and only Post adds a detection.
LEMMA StepHandler ==
  TypeOK /\ FramesKnown /\ HandlerReadOnce /\ [Next]_vars => HandlerReadOnce'
  <1> SUFFICES ASSUME TypeOK, FramesKnown, HandlerReadOnce, [Next]_vars
               PROVE  HandlerReadOnce'
    OBVIOUS
  <1> USE DEF HandlerReadOnce, DetectsOnFirstLooper, screen, background, inference, listener
  <1>1. CASE /\ UNCHANGED <<tasks, mInferenceHandler>>
             /\ UNCHANGED <<session, initThread>> \/ InitializeDetector \/ Resume
    <2>1. DetectsOnFirstLooper'
      BY <1>1 DEF DetectTask
    <2>2. session \in Session \union {0} /\ session + 1 # 0
      BY DEF TypeOK, Session
    <2>3. /\ session' = 0 => initThread' = "none"
          /\ initThread' \in {"none", "started"} => mInferenceHandler' = Null
      BY <1>1, <2>2 DEF InitializeDetector, Resume
    <2> QED
      BY <2>1, <2>3
  <1>2. CASE InitializeHandler
    <2>1. \A t \in Session : \A i \in DOMAIN tasks[t] : ~DetectTask(t, i)
      BY <1>2 DEF InitializeHandler, Null, Session
    <2> QED
      BY <1>2, <2>1 DEF InitializeHandler, DetectTask
  <1>3. ASSUME NEW s \in Session, Post(s) \/ Deliver(s) PROVE HandlerReadOnce'
    <2>1. UNCHANGED <<session, initThread, mInferenceHandler>>
      BY <1>3 DEF Post, Deliver
    <2>2. ASSUME NEW h, NEW task \in Task, task.kind = "detect" => h = mInferenceHandler,
                 \A t \in Session : \/ tasks'[t] = tasks[t]
                                    \/ t = h /\ tasks'[t] = Append(tasks[t], task)
          PROVE  HandlerReadOnce'
      <3>1. ASSUME NEW t \in Session, NEW i \in DOMAIN tasks'[t], tasks'[t][i].kind = "detect"
            PROVE  t = mInferenceHandler
        <4>1. tasks[t] \in Seq(Task)
          BY DEF TypeOK
        <4>2. \/ i \in DOMAIN tasks[t] /\ tasks'[t][i] = tasks[t][i]
              \/ t = h /\ tasks'[t][i] = task
          BY <2>2, <4>1, Appended
        <4> QED
          BY <2>2, <3>1, <4>2 DEF DetectTask
      <3> QED
        BY <2>1, <3>1 DEF DetectTask
    <2>3. CASE Post(s)
      <3> DEFINE task == [kind |-> "detect", frame |-> bg[s].frame]
      <3>1. task \in Task
        BY <2>3 DEF Post, BgRuns, FramesKnown, Writing, Task
      <3>2. \A t \in Session :
              \/ tasks'[t] = tasks[t]
              \/ t = mInferenceHandler /\ tasks'[t] = Append(tasks[t], task)
        BY <2>3 DEF Post, TypeOK
      <3> HIDE DEF task
      <3> QED
        BY <2>2, <3>1, <3>2
    <2>4. CASE Deliver(s)
      <3> DEFINE task == [kind |-> "draw", frame |-> inf[s].frame]
      <3>1. task \in Task /\ task.kind # "detect"
        BY <2>4 DEF Deliver, InfRuns, FramesKnown, Reading, Task
      <3>2. \A t \in Session :
              \/ tasks'[t] = tasks[t]
              \/ t = session /\ tasks'[t] = Append(tasks[t], task)
        BY <2>4 DEF Deliver, TypeOK
      <3>3. task.kind = "detect" => session = mInferenceHandler
        BY <3>1
      <3> HIDE DEF task
      <3> QED
        BY <2>2, <3>1, <3>2, <3>3
    <2> QED
      BY <1>3, <2>3, <2>4
  <1>4. ASSUME NEW s \in Session, StartTask(s) \/ Draw(s) PROVE HandlerReadOnce'
    <2>1. /\ tasks[s] \in Seq(Task) /\ tasks[s] # <<>>
          /\ tasks'[s] = Tail(tasks[s]) /\ \A t \in Session \ {s} : tasks'[t] = tasks[t]
          /\ UNCHANGED <<session, initThread, mInferenceHandler>>
      BY <1>4 DEF StartTask, Draw, NextTask, TypeOK
    <2>2. \A i \in DOMAIN Tail(tasks[s]) :
            i + 1 \in DOMAIN tasks[s] /\ Tail(tasks[s])[i] = tasks[s][i + 1]
      BY <2>1, Taken
    <2>3. \A t \in Session : \A i \in DOMAIN tasks'[t] :
            tasks'[t][i].kind = "detect" => t = mInferenceHandler
      <3>1. \A i \in DOMAIN Tail(tasks[s]) :
              Tail(tasks[s])[i].kind = "detect" => s = mInferenceHandler
        BY <2>2 DEF DetectTask
      <3> QED
        BY <2>1, <3>1 DEF DetectTask
    <2> QED
      BY <2>1, <2>3 DEF DetectTask
  <1>5. CASE NewActivity
    BY <1>5, NewIInv DEF IInv
  <1>6. Resume \/ CreateReader \/ Pause \/ PauseStep \/ InitializeDetector =>
          /\ UNCHANGED <<tasks, mInferenceHandler>>
          /\ UNCHANGED <<session, initThread>> \/ InitializeDetector \/ Resume
    BY DEF CreateReader, Pause, PauseStep, CloseReader, DeInitialize,
       QuitBackground, QuitInference, JoinBackground, JoinInference, Resume, InitializeDetector
  <1>7. \A s \in Session :
          Acquire(s) \/ Disconnect(s) \/ Convert(s) \/ ConvertThrows(s) \/ PostCrashes(s)
            \/ DisconnectReleases(s) \/ TaskCrashes(s) \/ Detected(s) \/ Skip(s)
          => UNCHANGED <<session, tasks, mInferenceHandler, initThread>>
    BY DEF Acquire, Disconnect, Convert, ConvertThrows, PostCrashes, DisconnectReleases,
       TaskCrashes, Detected, Skip
  <1>8. UNCHANGED vars => UNCHANGED <<session, tasks, mInferenceHandler, initThread>>
    BY DEF vars
  <1> QED
    BY <1>1, <1>2, <1>3, <1>4, <1>5, <1>6, <1>7, <1>8
    DEF Next, InitializeStep, BackgroundStep, InferenceStep

LEMMA Inductive == IInv /\ [Next]_vars => IInv'
  BY StepTypes, StepHolding, StepDetector, StepHandler DEF IInv, Holding

----------------------------------------------------------------------------
(* The end of a session, and the detector it deletes *)

Ended(looper) == looper \in {"null", "dead"}

\* A looper that does not run has nothing to do, and only the loopers of the current
\* session run, until onPause has joined them.
SessionsEnd ==
    /\ \A s \in Session :
         /\ Ended(bgLooper[s]) => bg[s].at = "idle"
         /\ Ended(infLooper[s]) => inf[s].at = "idle" /\ tasks[s] = <<>>
         /\ s # session => Ended(bgLooper[s]) /\ Ended(infLooper[s])
    /\ act = "resumed" => ui = "idle" /\ session \in Session
    /\ ui # "idle" => session \in Session
    /\ ui = "joinInference" => Ended(bgLooper[session])
    /\ act = "paused" /\ ui = "idle" =>
         \A s \in Session : Ended(bgLooper[s]) /\ Ended(infLooper[s])

\* A detector that was deleted before the current session is not asked in it, for
\* the handler its tasks go to is that of a session before.
DeletedBefore ==
    /\ initThread # "done" => mFaceDet = "null"
    /\ mInferenceHandler <= session
    /\ \A s \in Session : bg[s].at = "disconnecting" => s \in disconnected
    /\ mFaceDet = "released" /\ act = "resumed" /\ session \notin disconnected =>
         mInferenceHandler # session

EndInv == SessionsEnd /\ DeletedBefore /\ DeletedDetectorWasOvertaken

LEMMA InitEnd == Init => EndInv
  <1> SUFFICES ASSUME Init PROVE EndInv
    OBVIOUS
  <1>1. SessionsEnd /\ DeletedBefore
    BY DEF Init, SessionsEnd, DeletedBefore, Ended, Idle, Null
  <1> QED
    BY <1>1 DEF Init, EndInv, DeletedDetectorWasOvertaken

LEMMA NewEnd == NewActivity => EndInv'
  BY NewIsInit, InitEnd, PTL

LEMMA StepEnd == IInv /\ EndInv /\ [Next]_vars => EndInv'
  <1> SUFFICES ASSUME IInv, EndInv, [Next]_vars PROVE EndInv'
    OBVIOUS
  <1> USE DEF IInv, TypeOK, screen, background, inference, listener
  <1>1. CASE Resume
    <2>1. session \in Nat /\ session + 1 \in Session
      BY <1>1, MaxSessionsAssumption DEF Resume, Session
    <2>2. SessionsEnd'
      BY <1>1, <2>1 DEF Resume, EndInv, SessionsEnd, Ended
    <2>3. DeletedBefore'
      BY <1>1, <2>1 DEF Resume, EndInv, DeletedBefore, HandlerReadOnce, Null, Session
    <2> QED
      BY <1>1, <2>2, <2>3 DEF Resume, Alive, EndInv, DeletedDetectorWasOvertaken
  <1>2. CASE CreateReader \/ Pause
    <2>1. SessionsEnd'
      BY <1>2 DEF CreateReader, Pause, EndInv, SessionsEnd, Ended
    <2>2. DeletedBefore'
      BY <1>2 DEF CreateReader, Pause, EndInv, DeletedBefore
    <2> QED
      BY <1>2, <2>1, <2>2 DEF CreateReader, Pause, Alive, EndInv, DeletedDetectorWasOvertaken
  <1>3. CASE PauseStep
    <2>1. SessionsEnd'
      <3> USE DEF EndInv, SessionsEnd, Ended
      <3>1. CASE CloseReader \/ DeInitialize
        BY <3>1 DEF CloseReader, DeInitialize
      <3>2. CASE QuitBackground
        BY <3>2 DEF QuitBackground
      <3>3. CASE QuitInference
        BY <3>3 DEF QuitInference
      <3>4. CASE JoinBackground
        BY <3>4 DEF JoinBackground
      <3>5. CASE JoinInference
        BY <3>5 DEF JoinInference
      <3> QED
        BY <1>3, <3>1, <3>2, <3>3, <3>4, <3>5 DEF PauseStep
    <2>2. act = "paused"
      BY <1>3 DEF PauseStep, CloseReader, DeInitialize, QuitBackground, QuitInference,
         JoinBackground, JoinInference, EndInv, SessionsEnd
    <2>3. DeletedBefore'
      BY <1>3, <2>2 DEF PauseStep, CloseReader, DeInitialize, Release, QuitBackground,
         QuitInference, JoinBackground, JoinInference, EndInv, DeletedBefore
    <2> QED
      BY <1>3, <2>1, <2>3 DEF PauseStep, CloseReader, DeInitialize, QuitBackground,
         QuitInference, JoinBackground, JoinInference, Alive, EndInv, DeletedDetectorWasOvertaken
  <1>4. CASE InitializeStep
    <2>1. SessionsEnd'
      BY <1>4 DEF InitializeStep, InitializeHandler, InitializeDetector, EndInv, SessionsEnd
    <2>2. DeletedBefore'
      <3>1. session \in Int
        BY DEF Session, Null
      <3>2. CASE InitializeHandler
        BY <3>1, <3>2 DEF InitializeHandler, EndInv, DeletedBefore
      <3>3. CASE InitializeDetector
        BY <3>3 DEF InitializeDetector, EndInv, DeletedBefore
      <3> QED
        BY <1>4, <3>2, <3>3 DEF InitializeStep
    <2> QED
      BY <1>4, <2>1, <2>2 DEF InitializeStep, InitializeHandler, InitializeDetector, Alive,
         EndInv, DeletedDetectorWasOvertaken
  <1>5. ASSUME NEW s \in Session,
               Acquire(s) \/ Disconnect(s) \/ Convert(s) \/ ConvertThrows(s)
                 \/ DisconnectReleases(s)
        PROVE  EndInv'
    <2>1. ~Ended(bgLooper[s])
      BY <1>5 DEF Acquire, Disconnect, Convert, ConvertThrows, DisconnectReleases, BgRuns, Ended
    <2>2. \A r \in Session \ {s} : bg'[r] = bg[r]
      BY <1>5 DEF Acquire, Disconnect, Convert, ConvertThrows, DisconnectReleases
    <2>3. /\ UNCHANGED <<act, ui, crash, session, bgLooper, infLooper, tasks, inf, initThread,
                         mInferenceHandler>>
          /\ Alive
      BY <1>5 DEF Acquire, Disconnect, Convert, ConvertThrows, DisconnectReleases, BgRuns
    <2>4. SessionsEnd'
      BY <2>1, <2>2, <2>3 DEF EndInv, SessionsEnd
    <2>5. DeletedBefore'
      <3>1. CASE DisconnectReleases(s)
        <4>1. session \in disconnected
          BY <3>1, <2>1 DEF DisconnectReleases, BgRuns, EndInv, SessionsEnd, DeletedBefore
        <4> QED
          BY <3>1, <4>1, <2>2, <2>3 DEF DisconnectReleases, Release, EndInv, DeletedBefore,
             Idle, Thread
      <3>2. CASE ~DisconnectReleases(s)
        <4>1. mFaceDet' = mFaceDet /\ disconnected \subseteq disconnected'
          BY <1>5, <3>2 DEF Acquire, Disconnect, Convert, ConvertThrows
        <4>2. bg'[s].at = "disconnecting" => s \in disconnected'
          <5>1. CASE Acquire(s) \/ ConvertThrows(s)
            BY <5>1 DEF Acquire, ConvertThrows, Idle
          <5>2. CASE Disconnect(s)
            BY <5>2 DEF Disconnect
          <5>3. CASE Convert(s)
            BY <5>3, Moved DEF Convert, Thread
          <5> QED
            BY <1>5, <3>2, <5>1, <5>2, <5>3
        <4> QED
          BY <2>2, <2>3, <4>1, <4>2 DEF EndInv, DeletedBefore
      <3> QED
        BY <3>1, <3>2
    <2> QED
      BY <2>3, <2>4, <2>5 DEF Alive, EndInv, DeletedDetectorWasOvertaken
  <1>6. ASSUME NEW s \in Session, Post(s)
        PROVE  EndInv'
    <2>1. \A r \in Session : bg'[r].at \in {bg[r].at, "idle"}
      BY <1>6 DEF Post, Idle
    <2>2. \A r \in Session : Ended(infLooper[r]) => tasks'[r] = tasks[r]
      BY <1>6 DEF Post, Ended
    <2>3. /\ UNCHANGED <<act, ui, crash, session, bgLooper, infLooper, inf, initThread,
                         mInferenceHandler, mFaceDet, disconnected>>
          /\ Alive
      BY <1>6 DEF Post, BgRuns
    <2> QED
      BY <2>1, <2>2, <2>3 DEF EndInv, SessionsEnd, DeletedBefore, Alive,
         DeletedDetectorWasOvertaken
  <1>7. ASSUME NEW s \in Session, PostCrashes(s)
        PROVE  EndInv'
    BY <1>7 DEF PostCrashes, Die, EndInv, SessionsEnd, DeletedBefore,
       DeletedDetectorWasOvertaken
  <1>8. ASSUME NEW s \in Session, StartTask(s) \/ Detected(s) \/ Deliver(s) \/ Skip(s) \/ Draw(s)
        PROVE  EndInv'
    <2>1. ~Ended(infLooper[s])
      BY <1>8 DEF StartTask, Detected, Deliver, Skip, Draw, NextTask, InfRuns, Ended
    <2>2. \A r \in Session \ {s} : inf'[r] = inf[r]
      BY <1>8 DEF StartTask, Detected, Deliver, Skip, Draw
    <2>3. \A r \in Session : Ended(infLooper[r]) => tasks'[r] = tasks[r]
      BY <1>8, <2>1 DEF StartTask, Detected, Deliver, Skip, Draw, Ended
    <2>4. /\ UNCHANGED <<act, ui, crash, session, bgLooper, infLooper, bg, initThread,
                         mInferenceHandler, mFaceDet, disconnected>>
          /\ Alive
      BY <1>8 DEF StartTask, Detected, Deliver, Skip, Draw, NextTask, InfRuns
    <2> QED
      BY <2>1, <2>2, <2>3, <2>4 DEF EndInv, SessionsEnd, DeletedBefore, Alive,
         DeletedDetectorWasOvertaken
  <1>9. ASSUME NEW s \in Session, TaskCrashes(s)
        PROVE  EndInv'
    <2>1. /\ UNCHANGED <<act, ui, session, bgLooper, infLooper, bg, inf, tasks, initThread,
                         mInferenceHandler, mFaceDet, disconnected>>
          /\ s = session
      BY <1>9 DEF TaskCrashes, NextTask, InfRuns, EndInv, SessionsEnd, Ended
    <2>2. s = mInferenceHandler
      <3>1. tasks[s] \in Seq(Task) /\ tasks[s] # <<>> /\ Head(tasks[s]).kind = "detect"
        BY <1>9 DEF TaskCrashes, NextTask
      <3>2. 1 \in DOMAIN tasks[s] /\ tasks[s][1].kind = "detect"
        BY <3>1, Taken
      <3> QED
        BY <3>2 DEF HandlerReadOnce, DetectsOnFirstLooper, DetectTask
    <2>3. DeletedDetectorWasOvertaken'
      BY <1>9, <2>1, <2>2 DEF TaskCrashes, Die, EndInv, DeletedBefore,
         DeletedDetectorWasOvertaken
    <2> QED
      BY <2>1, <2>3 DEF EndInv, SessionsEnd, DeletedBefore
  <1>10. CASE UNCHANGED vars
    BY <1>10 DEF vars, EndInv, SessionsEnd, DeletedBefore, DeletedDetectorWasOvertaken
  <1> QED
    BY <1>1, <1>2, <1>3, <1>4, <1>5, <1>6, <1>7, <1>8, <1>9, <1>10, NewEnd
       DEF Next, BackgroundStep, InferenceStep

----------------------------------------------------------------------------
(* What can be queued, and the reader in onPause *)

\* At most one drawing is queued, at most one detection, and the drawing is first.
InOrder(q) ==
    \A i, j \in DOMAIN q : i < j => q[i].kind = "draw" /\ q[j].kind = "detect"

\* The frame that is read has its queue to itself.
QueueForm ==
    \A s \in Session : InOrder(tasks[s]) /\ (Reading(s) => tasks[s] = <<>>)

\* From closeReader to the next onResume there is no reader to take a frame from.
ReaderClosed ==
    /\ ui \notin {"idle", "closeReader"} => reader = Null
    /\ ui = "idle" /\ act = "paused" => reader = Null

LEMMA StepReaderClosed == EndInv /\ ReaderClosed /\ [Next]_vars => ReaderClosed'
  <1> SUFFICES ASSUME EndInv, ReaderClosed, [Next]_vars PROVE ReaderClosed'
    OBVIOUS
  <1> USE DEF ReaderClosed, EndInv, SessionsEnd, screen, background, inference, listener
  <1>1. CASE Resume \/ CreateReader \/ Pause \/ PauseStep \/ InitializeStep
    BY <1>1 DEF Resume, CreateReader, Pause, PauseStep, CloseReader, DeInitialize,
       QuitBackground, QuitInference, JoinBackground, JoinInference, InitializeStep,
       InitializeHandler, InitializeDetector
  <1>2. CASE NewActivity
    BY <1>2 DEF NewActivity
  <1>3. \A s \in Session :
          Acquire(s) \/ Disconnect(s) \/ BackgroundStep(s) => UNCHANGED <<act, ui, reader>>
    BY DEF Acquire, Disconnect, BackgroundStep, Convert, ConvertThrows, Post, PostCrashes,
       DisconnectReleases
  <1>4. \A s \in Session : InferenceStep(s) => UNCHANGED <<act, ui, reader>>
    BY DEF InferenceStep, StartTask, TaskCrashes, Detected, Deliver, Skip, Draw
  <1>5. UNCHANGED vars => UNCHANGED <<act, ui, reader>>
    BY DEF vars
  <1> QED
    BY <1>1, <1>2, <1>3, <1>4, <1>5 DEF Next

\* A looper that onPause joins was told to quit.
QuitBeforeJoin ==
    /\ ui \in {"quitInference", "joinBackground"} => bgLooper[session] = "quitting"
    /\ ui \in {"joinBackground", "joinInference"} => infLooper[session] = "quitting"

LEMMA StepQuitBeforeJoin ==
  IInv /\ EndInv /\ QuitBeforeJoin /\ [Next]_vars => QuitBeforeJoin'
  <1> SUFFICES ASSUME IInv, EndInv, QuitBeforeJoin, [Next]_vars PROVE QuitBeforeJoin'
    OBVIOUS
  <1> USE DEF QuitBeforeJoin, EndInv, SessionsEnd, screen, background, inference, listener
  <1>1. CASE Resume \/ CreateReader \/ Pause \/ InitializeStep
    BY <1>1 DEF Resume, CreateReader, Pause, InitializeStep, InitializeHandler,
       InitializeDetector
  <1>2. CASE PauseStep
    BY <1>2 DEF IInv, TypeOK, PauseStep, CloseReader, DeInitialize, QuitBackground,
       QuitInference, JoinBackground, JoinInference
  <1>3. CASE NewActivity
    BY <1>3 DEF NewActivity
  <1>4. \A s \in Session : Acquire(s) \/ Disconnect(s) \/ BackgroundStep(s)
          => UNCHANGED <<ui, session, bgLooper, infLooper>>
    BY DEF Acquire, Disconnect, BackgroundStep, Convert, ConvertThrows, Post, PostCrashes,
       DisconnectReleases
  <1>5. \A s \in Session : InferenceStep(s) => UNCHANGED <<ui, session, bgLooper, infLooper>>
    BY DEF InferenceStep, StartTask, TaskCrashes, Detected, Deliver, Skip, Draw
  <1>6. UNCHANGED vars => UNCHANGED <<ui, session, bgLooper, infLooper>>
    BY DEF vars
  <1> QED
    BY <1>1, <1>2, <1>3, <1>4, <1>5, <1>6 DEF Next

\* Only the current session's threads have anything to do.
LEMMA CurrentOnly ==
  ASSUME IInv, EndInv, NEW s \in Session,
         Writing(s) \/ Reading(s) \/ tasks[s] # <<>> \/ bg[s].at # "idle"
  PROVE  s = session
  BY DEF EndInv, SessionsEnd, Writing, Reading

LEMMA OrderOfOne ==
  /\ InOrder(<<>>)
  /\ \A e : InOrder(<<e>>)
  BY DEF InOrder

\* A detection goes behind the drawings.
LEMMA OrderAppended ==
  ASSUME NEW q \in Seq(Task), NEW e \in Task, e.kind = "detect", InOrder(q),
         \A i \in DOMAIN q : q[i].kind # "detect"
  PROVE  InOrder(Append(q, e))
  <1>1. \A i \in DOMAIN q : i \in 1..Len(q) /\ q[i].kind = "draw"
    <2>1. \A i \in DOMAIN q : i \in 1..Len(q) /\ q[i] \in Task
      BY ElementOfSeq, LenProperties
    <2> QED
      BY <2>1 DEF Task
  <1> SUFFICES ASSUME NEW i \in DOMAIN Append(q, e), NEW j \in DOMAIN Append(q, e), i < j
               PROVE  Append(q, e)[i].kind = "draw" /\ Append(q, e)[j].kind = "detect"
    BY DEF InOrder
  <1>2. /\ \/ i \in DOMAIN q /\ Append(q, e)[i] = q[i]
           \/ i = Len(q) + 1
        /\ \/ j \in DOMAIN q /\ Append(q, e)[j] = q[j]
           \/ j = Len(q) + 1 /\ Append(q, e)[j] = e
    BY Appended
  <1>3. Len(q) \in Nat
    BY LenProperties
  <1>4. i \in DOMAIN q /\ Append(q, e)[i] = q[i]
    BY <1>1, <1>2, <1>3
  <1>5. ~(j \in DOMAIN q)
    BY <1>1, <1>4 DEF InOrder
  <1> QED
    BY <1>1, <1>2, <1>4, <1>5

\* What is left behind the first task; a detection is always the last.
LEMMA OrderTaken ==
  ASSUME NEW q \in Seq(Task), q # <<>>, InOrder(q)
  PROVE  /\ InOrder(Tail(q))
         /\ Head(q).kind = "detect" => Tail(q) = <<>>
  <1>1. InOrder(Tail(q))
    <2> SUFFICES ASSUME NEW i \in DOMAIN Tail(q), NEW j \in DOMAIN Tail(q), i < j
                 PROVE  Tail(q)[i].kind = "draw" /\ Tail(q)[j].kind = "detect"
      BY DEF InOrder
    <2>1. /\ i \in Nat /\ i + 1 \in DOMAIN q /\ Tail(q)[i] = q[i + 1]
          /\ j \in Nat /\ j + 1 \in DOMAIN q /\ Tail(q)[j] = q[j + 1]
      BY Taken
    <2>2. i + 1 < j + 1
      BY <2>1
    <2> QED
      BY <2>1, <2>2 DEF InOrder
  <1>2. ASSUME Head(q).kind = "detect", Tail(q) # <<>> PROVE FALSE
    <2>1. 1 \in DOMAIN q /\ q[1].kind = "detect"
      BY <1>2, Taken
    <2>2. Tail(q) \in Seq(Task) /\ 1 \in DOMAIN Tail(q)
      BY <1>2, Taken
    <2>3. 2 \in DOMAIN q
      BY <2>2, Taken
    <2> QED
      BY <2>1, <2>3 DEF InOrder
  <1> QED
    BY <1>1, <1>2

LEMMA OrderIsShort ==
  ASSUME NEW q \in Seq(Task), InOrder(q)
  PROVE  Len(q) <= 2
  <1>1. Len(q) \in Nat /\ DOMAIN q = 1..Len(q)
    BY LenProperties
  <1>2. ASSUME ~(Len(q) <= 2) PROVE FALSE
    <2>1. 1 \in DOMAIN q /\ 2 \in DOMAIN q /\ 3 \in DOMAIN q
      BY <1>1, <1>2
    <2>2. q[2].kind = "detect" /\ q[2].kind = "draw"
      BY <2>1 DEF InOrder
    <2> QED
      BY <2>2
  <1> QED
    BY <1>2

LEMMA QueueAfterPost ==
  ASSUME IInv, EndInv, QueueForm, NEW s \in Session, Post(s)
  PROVE  QueueForm'
  <1> USE DEF IInv, TypeOK
  <1>1. inf' = inf /\ Writing(s)
    BY DEF Post, inference, BgRuns, Writing
  <1>2. \A t \in Session : ~Reading(t) /\ ~Reading(t)'
    BY <1>1 DEF Exclusion, Reading
  <1>3. CASE tasks' = tasks
    BY <1>2, <1>3 DEF QueueForm
  <1>4. CASE tasks' # tasks
    <2> DEFINE h == mInferenceHandler
               e == [kind |-> "detect", frame |-> bg[s].frame]
    <2>1. h \in Session /\ e \in Task /\ tasks' = [tasks EXCEPT ![h] = Append(@, e)]
      BY <1>1, <1>4 DEF Post, FramesKnown, Task, Null
    <2>2. /\ tasks[h] \in Seq(Task) /\ tasks'[h] = Append(tasks[h], e)
          /\ \A t \in Session \ {h} : tasks'[t] = tasks[t]
      BY <2>1
    <2>3. \A i \in DOMAIN tasks[h] : tasks[h][i].kind # "detect"
      BY <1>1, <2>1 DEF Exclusion, DetectTask
    <2>4. e.kind = "detect"
      OBVIOUS
    <2> HIDE DEF h, e
    <2>5. InOrder(tasks'[h])
      BY <2>1, <2>2, <2>3, <2>4, OrderAppended DEF QueueForm
    <2> QED
      BY <1>2, <2>1, <2>2, <2>5 DEF QueueForm
  <1> QED
    BY <1>3, <1>4

LEMMA QueueAfterDeliver ==
  ASSUME IInv, EndInv, QueueForm, NEW s \in Session, Deliver(s)
  PROVE  QueueForm'
  <1> USE DEF IInv, TypeOK
  <1>1. Reading(s) /\ inf' = [inf EXCEPT ![s] = Idle]
    BY DEF Deliver, InfRuns, Reading
  <1>2. s = session /\ tasks[s] = <<>>
    BY <1>1, CurrentOnly DEF QueueForm
  <1>3. \A t \in Session : Reading(t) => t = s
    BY <1>1 DEF Exclusion
  <1>4. \A t \in Session : ~Reading(t)'
    BY <1>1, <1>3 DEF Reading, Idle
  <1>5. \A t \in Session \ {s} : tasks'[t] = tasks[t]
    BY <1>2 DEF Deliver
  <1>6. InOrder(tasks'[s])
    <2>1. tasks'[s] = <<>> \/ \E e : tasks'[s] = Append(<<>>, e)
      BY <1>2 DEF Deliver
    <2>2. \A e : Append(<<>>, e) = <<e>>
      OBVIOUS
    <2> QED
      BY <2>1, <2>2, OrderOfOne
  <1> QED
    BY <1>4, <1>5, <1>6, Zenon DEF QueueForm

LEMMA QueueAfterTaking ==
  ASSUME IInv, EndInv, QueueForm, NEW s \in Session, StartTask(s) \/ Draw(s)
  PROVE  QueueForm'
  <1> USE DEF IInv, TypeOK
  <1>1. /\ tasks[s] \in Seq(Task) /\ tasks[s] # <<>>
        /\ tasks'[s] = Tail(tasks[s])
        /\ \A t \in Session \ {s} : tasks'[t] = tasks[t] /\ inf'[t] = inf[t]
        /\ ~Reading(s)
    BY DEF StartTask, Draw, NextTask, InfRuns, Reading, inference
  <1>2. InOrder(Tail(tasks[s]))
    BY <1>1, OrderTaken DEF QueueForm
  <1>3. StartTask(s) => Tail(tasks[s]) = <<>>
    BY <1>1, OrderTaken DEF StartTask, NextTask, QueueForm
  <1>4. Draw(s) => ~Reading(s)'
    BY <1>1 DEF Draw, Reading
  <1> QED
    BY <1>1, <1>2, <1>3, <1>4 DEF QueueForm, Reading

LEMMA StepQueueForm == IInv /\ EndInv /\ QueueForm /\ [Next]_vars => QueueForm'
  <1> SUFFICES ASSUME IInv, EndInv, QueueForm, [Next]_vars PROVE QueueForm'
    OBVIOUS
  <1> USE DEF screen, background, inference, listener
  <1>1. CASE NewActivity
    BY <1>1, OrderOfOne DEF NewActivity, QueueForm, Reading, Idle
  <1>2. ASSUME NEW s \in Session, Detected(s) \/ Skip(s)
        PROVE  QueueForm'
    <2>1. Reading(s) /\ tasks' = tasks /\ \A t \in Session \ {s} : inf'[t] = inf[t]
      BY <1>2 DEF IInv, TypeOK, Detected, Skip, InfRuns, Reading
    <2>2. \A t \in Session : Reading(t)' => Reading(t)
      BY <2>1 DEF Reading
    <2> QED
      BY <2>1, <2>2 DEF QueueForm
  <1>3. UNCHANGED <<tasks, inf>> => QueueForm'
    BY DEF QueueForm, Reading
  <1>4. Resume \/ CreateReader \/ Pause \/ PauseStep \/ InitializeStep \/ UNCHANGED vars
          => UNCHANGED <<tasks, inf>>
    BY DEF Resume, CreateReader, Pause, PauseStep, CloseReader, DeInitialize,
       QuitBackground, QuitInference, JoinBackground, JoinInference, InitializeStep,
       InitializeHandler, InitializeDetector, vars
  <1>5. \A s \in Session :
          Acquire(s) \/ Disconnect(s) \/ Convert(s) \/ ConvertThrows(s) \/ PostCrashes(s)
            \/ DisconnectReleases(s) \/ TaskCrashes(s)
          => UNCHANGED <<tasks, inf>>
    BY DEF Acquire, Disconnect, Convert, ConvertThrows, PostCrashes, DisconnectReleases,
       TaskCrashes
  <1> QED
    BY <1>1, <1>2, <1>3, <1>4, <1>5, QueueAfterPost, QueueAfterDeliver, QueueAfterTaking
    DEF Next, BackgroundStep, InferenceStep

\* Until the next onPause, the looper of the session takes what is posted to it.
LooperRuns == act = "resumed" => infLooper[session] = "running"

LEMMA StepLooperRuns == IInv /\ EndInv /\ LooperRuns /\ [Next]_vars => LooperRuns'
  <1> SUFFICES ASSUME IInv, EndInv, LooperRuns, [Next]_vars PROVE LooperRuns'
    OBVIOUS
  <1> USE DEF LooperRuns, EndInv, SessionsEnd, screen, background, inference, listener
  <1>1. CASE Resume
    <2>1. session + 1 \in Session
      BY <1>1, MaxSessionsAssumption DEF IInv, TypeOK, Resume, Session
    <2> QED
      BY <1>1, <2>1 DEF IInv, TypeOK, Resume
  <1>2. CASE CreateReader \/ Pause \/ InitializeStep \/ NewActivity
    BY <1>2 DEF CreateReader, Pause, InitializeStep, InitializeHandler, InitializeDetector,
       NewActivity
  <1>3. CASE PauseStep
    BY <1>3 DEF PauseStep, CloseReader, DeInitialize, QuitBackground, QuitInference,
       JoinBackground, JoinInference
  <1>4. \A s \in Session : Acquire(s) \/ Disconnect(s) \/ BackgroundStep(s) \/ InferenceStep(s)
          => UNCHANGED <<act, session, infLooper>>
    BY DEF Acquire, Disconnect, BackgroundStep, Convert, ConvertThrows, Post, PostCrashes,
       DisconnectReleases, InferenceStep, StartTask, TaskCrashes, Detected, Deliver, Skip, Draw
  <1>5. UNCHANGED vars => UNCHANGED <<act, session, infLooper>>
    BY DEF vars
  <1> QED
    BY <1>1, <1>2, <1>3, <1>4, <1>5 DEF Next

LEMMA InitQueue == Init => QueueForm /\ ReaderClosed /\ QuitBeforeJoin
  BY OrderOfOne DEF Init, QueueForm, ReaderClosed, QuitBeforeJoin, Reading, Idle

----------------------------------------------------------------------------
(* From the invariant to the count of frames *)

LEMMA AtMostOne ==
  ASSUME NEW S, \A x, y \in S : x = y
  PROVE  Cardinality(S) \in {0, 1} /\ (S = {} => Cardinality(S) = 0)
  <1>1. CASE S = {}
    BY <1>1, FS_EmptySet
  <1>2. CASE S # {}
    <2>1. PICK x \in S : S = {x}
      BY <1>2
    <2> QED
      BY <2>1, FS_Singleton
  <1> QED
    BY <1>1, <1>2

LEMMA WaitingIs ==
  \A x : x \in Waiting <=>
    \E s \in Session : \E i \in DOMAIN tasks[s] : DetectTask(s, i) /\ x = <<s, i>>
  BY DEF Waiting

LEMMA OneFrame == Exclusion => OneFrameInThePipeline
  <1> SUFFICES ASSUME Exclusion PROVE OneFrameInThePipeline
    OBVIOUS
  <1>1. \A x, y \in Writers : x = y
    BY DEF Exclusion, Writers
  <1>2. \A x, y \in Readers : x = y
    BY DEF Exclusion, Readers
  <1>3. \A x, y \in Waiting : x = y
    BY WaitingIs DEF Exclusion
  <1>4. /\ Writers = {} \/ (Waiting = {} /\ Readers = {})
        /\ Waiting = {} \/ Readers = {}
    BY WaitingIs DEF Exclusion, Writers, Readers
  <1>5. Cardinality(Writers) + Cardinality(Waiting) + Cardinality(Readers) <= 1
    <2>1. /\ Cardinality(Writers) \in {0, 1} /\ (Writers = {} => Cardinality(Writers) = 0)
          /\ Cardinality(Waiting) \in {0, 1} /\ (Waiting = {} => Cardinality(Waiting) = 0)
          /\ Cardinality(Readers) \in {0, 1} /\ (Readers = {} => Cardinality(Readers) = 0)
      BY <1>1, <1>2, <1>3, AtMostOne
    <2> HIDE DEF Writers
    <2> QED
      BY <1>4, <2>1
  <1>6. Writers # {} \/ Waiting # {} \/ Readers # {} => mIsComputing
    BY WaitingIs DEF Exclusion, Writers, Readers
  <1> QED
    BY <1>5, <1>6 DEF OneFrameInThePipeline

----------------------------------------------------------------------------
(* The pipeline implements the slot *)

SomeWriter == \E s \in Session : Writing(s)
SomeTask == \E s \in Session : \E i \in DOMAIN tasks[s] : DetectTask(s, i)
SomeReader == \E s \in Session : Reading(s)

LEMMA HolderIs ==
  Exclusion =>
    /\ SomeWriter => Holder = "writer" /\ Content = Null
    /\ SomeTask => Holder = "queued" /\ Content = mCroppedBitmap
    /\ SomeReader => Holder = "reader" /\ Content = mCroppedBitmap
    /\ ~SomeWriter /\ ~SomeTask /\ ~SomeReader =>
         Holder = (IF mIsComputing THEN "stuck" ELSE "free") /\ Content = Null
  <1> SUFFICES ASSUME Exclusion
               PROVE  /\ SomeWriter => Holder = "writer" /\ Content = Null
                      /\ SomeTask => Holder = "queued" /\ Content = mCroppedBitmap
                      /\ SomeReader => Holder = "reader" /\ Content = mCroppedBitmap
                      /\ ~SomeWriter /\ ~SomeTask /\ ~SomeReader =>
                           /\ Holder = (IF mIsComputing THEN "stuck" ELSE "free")
                           /\ Content = Null
    OBVIOUS
  <1>1. (Writers # {} <=> SomeWriter) /\ (Readers # {} <=> SomeReader)
    BY DEF Writers, Readers, SomeWriter, SomeReader
  <1>2. Waiting # {} <=> SomeTask
    BY WaitingIs DEF SomeTask
  <1>3. /\ SomeWriter => ~SomeTask /\ ~SomeReader
        /\ SomeTask => ~SomeReader
    BY DEF Exclusion, SomeWriter, SomeTask, SomeReader
  <1> QED
    BY <1>1, <1>2, <1>3 DEF Holder, Content

\* Where a step leaves the slot alone.
LEMMA SameSlot ==
  ASSUME Exclusion, Exclusion',
         SomeWriter' = SomeWriter, SomeTask' = SomeTask, SomeReader' = SomeReader,
         UNCHANGED <<mIsComputing, mCroppedBitmap>>
  PROVE  UNCHANGED <<Holder, Content>>
  <1>1. (Exclusion =>
          /\ SomeWriter => Holder = "writer" /\ Content = Null
          /\ SomeTask => Holder = "queued" /\ Content = mCroppedBitmap
          /\ SomeReader => Holder = "reader" /\ Content = mCroppedBitmap
          /\ ~SomeWriter /\ ~SomeTask /\ ~SomeReader =>
               Holder = (IF mIsComputing THEN "stuck" ELSE "free") /\ Content = Null)'
    BY HolderIs, PTL
  <1> QED
    BY <1>1, HolderIs DEF Null

LEMMA StepSlot == IInv /\ IInv' /\ [Next]_vars => [Slot!SlotNext]_(Slot!slot)
  <1> SUFFICES ASSUME IInv, IInv', [Next]_vars
               PROVE  Slot!SlotNext \/ UNCHANGED <<Holder, Content, session>>
    BY DEF Slot!slot
  <1> USE DEF screen, background, inference, listener
  <1>1. TypeOK /\ Exclusion /\ FramesKnown /\ TypeOK' /\ Exclusion'
    BY DEF IInv
  <1>2. /\ SomeWriter => Holder = "writer" /\ Content = Null
        /\ SomeTask => Holder = "queued" /\ Content = mCroppedBitmap
        /\ SomeReader => Holder = "reader" /\ Content = mCroppedBitmap
        /\ ~SomeWriter /\ ~SomeTask /\ ~SomeReader =>
             Holder = (IF mIsComputing THEN "stuck" ELSE "free") /\ Content = Null
    BY <1>1, HolderIs
  <1>3. /\ SomeWriter' => Holder' = "writer" /\ Content' = Null
        /\ SomeTask' => Holder' = "queued" /\ Content' = mCroppedBitmap'
        /\ SomeReader' => Holder' = "reader" /\ Content' = mCroppedBitmap'
        /\ ~SomeWriter' /\ ~SomeTask' /\ ~SomeReader' =>
             Holder' = (IF mIsComputing' THEN "stuck" ELSE "free") /\ Content' = Null
    <2>1. (Exclusion =>
            /\ SomeWriter => Holder = "writer" /\ Content = Null
            /\ SomeTask => Holder = "queued" /\ Content = mCroppedBitmap
            /\ SomeReader => Holder = "reader" /\ Content = mCroppedBitmap
            /\ ~SomeWriter /\ ~SomeTask /\ ~SomeReader =>
                 Holder = (IF mIsComputing THEN "stuck" ELSE "free") /\ Content = Null)'
      BY HolderIs, PTL
    <2> QED
      BY <1>1, <2>1 DEF Null
  <1>4. ASSUME UNCHANGED <<bg, inf, tasks, mIsComputing, mCroppedBitmap>>
        PROVE  UNCHANGED <<Holder, Content>>
    BY <1>1, <1>4, SameSlot DEF SomeWriter, SomeTask, SomeReader, Writing, Reading, DetectTask
  <1>5. ASSUME NEW s \in Session, Disconnect(s) \/ DisconnectReleases(s)
        PROVE  UNCHANGED <<Holder, Content, session>>
    <2>1. UNCHANGED <<session, inf, tasks, mIsComputing, mCroppedBitmap>>
      BY <1>5 DEF Disconnect, DisconnectReleases
    <2>2. ~Writing(s) /\ ~Writing(s)' /\ \A t \in Session \ {s} : bg'[t] = bg[t]
      BY <1>1, <1>5 DEF Disconnect, DisconnectReleases, BgRuns, Writing, TypeOK, Idle, Thread
    <2>3. SomeWriter' = SomeWriter
      BY <2>2 DEF SomeWriter, Writing
    <2>4. SomeTask' = SomeTask /\ SomeReader' = SomeReader
      BY <2>1 DEF SomeTask, SomeReader, DetectTask, Reading
    <2> QED
      BY <1>1, <2>1, <2>3, <2>4, SameSlot
  <1>6. ASSUME NEW s \in Session, Acquire(s) PROVE Slot!Take
    <2>1. ~SomeWriter /\ ~SomeTask /\ ~SomeReader /\ ~mIsComputing
      BY <1>1, <1>6 DEF Acquire, Exclusion, SomeWriter, SomeTask, SomeReader
    <2>2. SomeWriter' /\ UNCHANGED session
      BY <1>1, <1>6 DEF Acquire, TypeOK, SomeWriter, Writing
    <2> QED
      BY <1>2, <1>3, <2>1, <2>2 DEF Slot!Take
  <1>7. ASSUME NEW s \in Session, Convert(s) PROVE UNCHANGED <<Holder, Content, session>>
    <2>1. SomeWriter
      BY <1>7 DEF Convert, BgRuns, SomeWriter, Writing
    <2>2. SomeWriter' /\ UNCHANGED session
      BY <1>1, <1>7 DEF Convert, TypeOK, Thread, SomeWriter, Writing
    <2> QED
      BY <1>2, <1>3, <2>1, <2>2
  <1>8. ASSUME NEW s \in Session, ConvertThrows(s) \/ Post(s)
        PROVE  Slot!HandOver \/ Slot!Strand
    <2>1. Writing(s) /\ SomeWriter /\ mIsComputing'
      BY <1>1, <1>8 DEF ConvertThrows, Post, BgRuns, SomeWriter, Writing, Exclusion
    <2>2. bg' = [bg EXCEPT ![s] = Idle] /\ inf' = inf /\ session' = session
      BY <1>8 DEF ConvertThrows, Post
    <2>3. ~SomeWriter'
      <3>1. bg'[s].at = "idle" /\ \A t \in Session \ {s} : bg'[t] = bg[t]
        BY <1>1, <2>2 DEF TypeOK, Idle
      <3>2. \A t \in Session : Writing(t) => t = s
        BY <1>1, <2>1 DEF Exclusion
      <3> QED
        BY <3>1, <3>2 DEF SomeWriter, Writing
    <2>4. ~SomeReader'
      BY <1>1, <2>1, <2>2 DEF SomeReader, Exclusion, Reading
    <2>5. CASE SomeTask'
      <3>1. Post(s)
        <4>1. ~SomeTask
          BY <1>1, <2>1 DEF SomeTask, Exclusion
        <4>2. ~(tasks' = tasks)
          BY <2>5, <4>1 DEF SomeTask, DetectTask
        <4> QED
          BY <1>8, <4>2 DEF ConvertThrows
      <3>2. mCroppedBitmap' \in Frame
        BY <1>1, <2>1, <3>1 DEF Post, FramesKnown
      <3> QED
        BY <1>2, <1>3, <2>1, <2>2, <2>5, <3>2 DEF Slot!HandOver
    <2>6. CASE ~SomeTask'
      BY <1>2, <1>3, <2>1, <2>2, <2>3, <2>4, <2>6 DEF Slot!Strand
    <2> QED
      BY <2>5, <2>6
  <1>9. ASSUME NEW s \in Session, StartTask(s) PROVE Slot!StartReading
    <2>1. tasks[s] \in Seq(Task) /\ tasks[s] # <<>> /\ UNCHANGED <<mCroppedBitmap, session>>
      BY <1>1, <1>9 DEF StartTask, NextTask, TypeOK
    <2>2. 1 \in DOMAIN tasks[s] /\ DetectTask(s, 1)
      BY <1>9, <2>1, Taken DEF StartTask, NextTask, DetectTask
    <2>3. SomeTask
      BY <2>2 DEF SomeTask
    <2>4. SomeReader'
      BY <1>1, <1>9 DEF StartTask, TypeOK, SomeReader, Reading
    <2> QED
      BY <1>2, <1>3, <2>1, <2>3, <2>4 DEF Slot!StartReading
  <1>10. ASSUME NEW s \in Session, Detected(s) PROVE UNCHANGED <<Holder, Content, session>>
    <2>1. SomeReader /\ UNCHANGED <<mCroppedBitmap, session>>
      BY <1>10 DEF Detected, InfRuns, SomeReader, Reading
    <2>2. SomeReader'
      BY <1>1, <1>10 DEF Detected, TypeOK, Thread, SomeReader, Reading
    <2> QED
      BY <1>2, <1>3, <2>1, <2>2
  <1>11. ASSUME NEW s \in Session, Deliver(s) \/ Skip(s) PROVE Slot!FinishReading
    <2>1. SomeReader
      BY <1>11 DEF Deliver, Skip, InfRuns, SomeReader, Reading
    <2>2. ~mIsComputing' /\ UNCHANGED session
      BY <1>11 DEF Deliver, Skip
    <2>3. ~SomeWriter' /\ ~SomeTask' /\ ~SomeReader'
      BY <1>1, <2>2 DEF Exclusion, SomeWriter, SomeTask, SomeReader
    <2> QED
      BY <1>2, <1>3, <2>1, <2>2, <2>3 DEF Slot!FinishReading, Slot!None, Null
  <1>12. ASSUME NEW s \in Session, Draw(s) PROVE UNCHANGED <<Holder, Content, session>>
    <2>1. /\ tasks[s] \in Seq(Task) /\ tasks[s] # <<>> /\ Head(tasks[s]).kind = "draw"
          /\ UNCHANGED <<session, bg, inf, mIsComputing, mCroppedBitmap>>
      BY <1>1, <1>12 DEF Draw, NextTask, TypeOK
    <2>2. tasks'[s] = Tail(tasks[s]) /\ \A t \in Session \ {s} : tasks'[t] = tasks[t]
      BY <1>1, <1>12 DEF Draw, TypeOK
    <2>3. /\ \A i \in DOMAIN Tail(tasks[s]) :
               i + 1 \in DOMAIN tasks[s] /\ Tail(tasks[s])[i] = tasks[s][i + 1]
          /\ Head(tasks[s]) = tasks[s][1]
          /\ \A i \in DOMAIN tasks[s] :
               i = 1 \/ (i - 1 \in DOMAIN Tail(tasks[s]) /\ Tail(tasks[s])[i - 1] = tasks[s][i])
      BY <2>1, HeadTailProperties
    <2>4. ASSUME SomeTask' PROVE SomeTask
      <3>1. PICK t \in Session : \E i \in DOMAIN tasks'[t] : tasks'[t][i].kind = "detect"
        BY <2>4 DEF SomeTask, DetectTask
      <3>2. PICK i \in DOMAIN tasks'[t] : tasks'[t][i].kind = "detect"
        BY <3>1
      <3>3. CASE t = s
        <4>1. i + 1 \in DOMAIN tasks[s] /\ tasks[s][i + 1].kind = "detect"
          BY <2>2, <2>3, <3>2, <3>3
        <4> QED
          BY <4>1 DEF SomeTask, DetectTask
      <3>4. CASE t # s
        <4>1. tasks'[t] = tasks[t]
          BY <2>2, <3>4
        <4> QED
          BY <3>2, <4>1 DEF SomeTask, DetectTask
      <3> QED
        BY <3>3, <3>4
    <2>5. ASSUME SomeTask PROVE SomeTask'
      <3>1. PICK t \in Session : \E i \in DOMAIN tasks[t] : tasks[t][i].kind = "detect"
        BY <2>5 DEF SomeTask, DetectTask
      <3>2. PICK i \in DOMAIN tasks[t] : tasks[t][i].kind = "detect"
        BY <3>1
      <3>3. CASE t = s
        <4>1. i # 1
          BY <2>1, <2>3, <3>2, <3>3
        <4>2. i - 1 \in DOMAIN tasks'[s] /\ tasks'[s][i - 1].kind = "detect"
          BY <2>2, <2>3, <3>2, <3>3, <4>1
        <4> QED
          BY <4>2 DEF SomeTask, DetectTask
      <3>4. CASE t # s
        <4>1. tasks'[t] = tasks[t]
          BY <2>2, <3>4
        <4> QED
          BY <3>2, <4>1 DEF SomeTask, DetectTask
      <3> QED
        BY <3>3, <3>4
    <2>6. SomeWriter' = SomeWriter /\ SomeReader' = SomeReader
      BY <2>1 DEF SomeWriter, SomeReader, Writing, Reading
    <2>7. SomeTask' = SomeTask
      BY <2>4, <2>5 DEF SomeTask
    <2> QED
      BY <1>1, <2>1, <2>6, <2>7, SameSlot
  <1>13. CASE NewActivity
    <2>1. Init'
      BY <1>13, NewIsInit
    <2>2. ~SomeWriter' /\ ~SomeTask' /\ ~SomeReader' /\ ~mIsComputing' /\ session' = 0
      BY <2>1 DEF Init, SomeWriter, SomeTask, SomeReader, Writing, Reading, DetectTask, Idle
    <2> QED
      BY <1>3, <2>2 DEF Slot!SlotNext, Slot!Renew, Slot!None, Null
  <1>14. CreateReader \/ Pause \/ PauseStep \/ InitializeStep \/ UNCHANGED vars
           => UNCHANGED <<bg, inf, tasks, mIsComputing, mCroppedBitmap, session>>
    BY DEF CreateReader, Pause, PauseStep, CloseReader, DeInitialize,
       QuitBackground, QuitInference, JoinBackground, JoinInference, InitializeStep,
       InitializeHandler, InitializeDetector, vars
  <1>15. \A s \in Session : PostCrashes(s) \/ TaskCrashes(s)
           => UNCHANGED <<bg, inf, tasks, mIsComputing, mCroppedBitmap, session>>
    BY DEF PostCrashes, TaskCrashes
  <1>16. CASE Resume
    <2>1. UNCHANGED <<bg, inf, tasks, mIsComputing, mCroppedBitmap>> /\ session' = session + 1
      BY <1>16 DEF Resume
    <2> QED
      BY <1>4, <2>1 DEF Slot!SlotNext, Slot!Open
  <1> QED
    BY <1>16, <1>4, <1>5, <1>6, <1>7, <1>8, <1>9, <1>10, <1>11, <1>12, <1>13, <1>14, <1>15
    DEF Next, BackgroundStep, InferenceStep, Slot!SlotNext

LEMMA InitSlot == Init => Slot!SlotInit
  <1> SUFFICES ASSUME Init PROVE Slot!SlotInit
    OBVIOUS
  <1>1. Exclusion
    BY InitIInv DEF IInv
  <1>2. ~SomeWriter /\ ~SomeTask /\ ~SomeReader /\ ~mIsComputing /\ session = 0
    BY DEF Init, SomeWriter, SomeTask, SomeReader, Writing, Reading, DetectTask, Idle
  <1> QED
    BY <1>1, <1>2, HolderIs DEF Slot!SlotInit, Slot!None, Null

----------------------------------------------------------------------------
(* How far a frame is from its end.  Every step of a thread that works on it  *)
(* brings it nearer, and nothing but a new frame takes it back.               *)

PInv == IInv /\ EndInv /\ QueueForm /\ ReaderClosed /\ QuitBeforeJoin

\* What the inference thread of a session has still to take from its queue.
QueueWork(q) ==
    IF q = <<>> THEN 0
    ELSE IF Head(q).kind = "detect" THEN 4
    ELSE IF Tail(q) = <<>> THEN 1
    ELSE 5

\* 7 and 6 for a frame that is written, 5 and 4 for one that is queued behind a
\* drawing or alone, 3 and 2 for one that is read, 1 for a drawing that is left.
Work(s) ==
    IF bg[s].at = "converting" THEN 7
    ELSE IF bg[s].at = "drawing" THEN 6
    ELSE IF inf[s].at = "detecting" THEN 3
    ELSE IF Reading(s) THEN 2
    ELSE QueueWork(tasks[s])

LEMMA QueueWorkRange ==
  \A q : QueueWork(q) \in 0..5
  BY DEF QueueWork

LEMMA WorkRange ==
  ASSUME NEW s \in Session
  PROVE  /\ Work(s) \in 0..7
         /\ Work(s) >= 6 <=> Writing(s)
  BY QueueWorkRange DEF Work, Writing

\* A task is taken from the queue.
LEMMA QueueWorkTaken ==
  ASSUME NEW q \in Seq(Task), q # <<>>, InOrder(q)
  PROVE  /\ QueueWork(Tail(q)) < QueueWork(q)
         /\ Head(q).kind = "detect" => QueueWork(q) = 4 /\ Tail(q) = <<>>
  <1>1. Head(q).kind = "detect" => Tail(q) = <<>>
    BY OrderTaken
  <1>2. Tail(q) # <<>> /\ Head(q).kind # "detect" => QueueWork(Tail(q)) = 4
    <2> SUFFICES ASSUME Tail(q) # <<>>
                 PROVE  Head(Tail(q)).kind = "detect"
      BY DEF QueueWork
    <2>1. Tail(q) \in Seq(Task)
      BY Taken
    <2>2. 1 \in DOMAIN Tail(q) /\ Head(Tail(q)) = Tail(q)[1]
      BY <2>1, Taken
    <2>3. 1 \in DOMAIN q /\ 2 \in DOMAIN q /\ Tail(q)[1] = q[2]
      BY <2>2, Taken
    <2> QED
      BY <2>2, <2>3 DEF InOrder
  <1> QED
    BY <1>1, <1>2 DEF QueueWork

\* A detection that waits shows in the work that is left.
LEMMA QueueWorkDetect ==
  ASSUME NEW q \in Seq(Task), InOrder(q), NEW i \in DOMAIN q, q[i].kind = "detect"
  PROVE  QueueWork(q) >= 4
  <1>1. i \in 1..Len(q) /\ Len(q) \in Nat
    BY LenProperties
  <1>2. q # <<>>
    BY <1>1
  <1>3. Head(q) = q[1]
    BY <1>2, Taken
  <1>4. CASE i = 1
    <2>1. Head(q).kind = "detect"
      BY <1>3, <1>4
    <2> QED
      BY <1>2, <2>1 DEF QueueWork
  <1>5. CASE i # 1
    <2>1. Len(Tail(q)) = Len(q) - 1
      BY <1>2, HeadTailProperties
    <2>2. Tail(q) # <<>>
      <3>1. i - 1 \in DOMAIN Tail(q)
        BY <1>1, <1>2, <1>5, <2>1, HeadTailProperties, LenProperties
      <3> QED
        BY <3>1
    <2> QED
      BY <1>2, <2>2 DEF QueueWork
  <1> QED
    BY <1>4, <1>5

\* A frame that is in the pipeline is the current session's.
LEMMA FrameIsCurrent ==
  ASSUME PInv, SomeWriter \/ SomeTask \/ SomeReader
  PROVE  session \in Session /\ Work(session) >= 2
  <1> USE DEF PInv, IInv, TypeOK
  <1>1. CASE SomeWriter
    BY <1>1, CurrentOnly DEF SomeWriter, Writing, Work
  <1>2. CASE SomeReader
    BY <1>2, CurrentOnly DEF SomeReader, Reading, Work
  <1>3. CASE SomeTask
    <2>1. PICK s \in Session : \E i \in DOMAIN tasks[s] : DetectTask(s, i)
      BY <1>3 DEF SomeTask
    <2>2. PICK i \in DOMAIN tasks[s] : tasks[s][i].kind = "detect"
      BY <2>1 DEF DetectTask
    <2>3. tasks[s] \in Seq(Task) /\ InOrder(tasks[s])
      BY DEF QueueForm
    <2>4. tasks[s] # <<>>
      <3>1. QueueWork(tasks[s]) >= 4
        BY <2>2, <2>3, QueueWorkDetect
      <3> QED
        BY <3>1 DEF QueueWork
    <2>5. s = session
      BY <2>4, CurrentOnly
    <2>6. QueueWork(tasks[s]) >= 4 /\ QueueWork(tasks[s]) \in 0..5
      BY <2>2, <2>3, QueueWorkDetect, QueueWorkRange
    <2>7. Work(s) >= 2
      BY <2>6 DEF Work
    <2> QED
      BY <2>5, <2>7
  <1> QED
    BY <1>1, <1>2, <1>3

\* What a step of the background thread does to the work that is left.
LEMMA BackgroundWorks ==
  ASSUME PInv, NEW s \in Session, BackgroundStep(s)
  PROVE  \/ ~Alive'
         \/ /\ UNCHANGED <<session, ui>>
            /\ Work(s)' <= Work(s)
            /\ Writing(s) => Work(s)' < Work(s)
  <1> USE DEF PInv, IInv, TypeOK, background, inference, listener, screen
  <1>1. CASE Convert(s)
    <2>1. bg[s].at = "converting" /\ bg'[s].at = "drawing"
      BY <1>1 DEF Convert, BgRuns, Thread
    <2> QED
      BY <1>1, <2>1 DEF Convert, Work, Writing
  <1>2. CASE ConvertThrows(s)
    <2>1. /\ bg[s].at = "converting" /\ bg'[s].at = "idle"
          /\ UNCHANGED <<session, ui, inf, tasks>>
      BY <1>2 DEF ConvertThrows, BgRuns, Idle
    <2>2. QueueWork(tasks'[s]) \in 0..5
      BY QueueWorkRange
    <2>3. Work(s)' \in 0..5
      BY <2>1, <2>2 DEF Work, Reading
    <2> QED
      BY <2>1, <2>3 DEF Work
  <1>3. CASE Post(s)
    <2>1. /\ bg[s].at = "drawing" /\ bg'[s].at = "idle"
          /\ UNCHANGED <<session, ui, inf>>
      BY <1>3 DEF Post, BgRuns, Idle
    <2>2. QueueWork(tasks'[s]) \in 0..5
      BY QueueWorkRange
    <2>3. Work(s)' \in 0..5
      BY <2>1, <2>2 DEF Work, Reading
    <2> QED
      BY <2>1, <2>3 DEF Work
  <1>4. CASE PostCrashes(s)
    BY <1>4 DEF PostCrashes, Die, Alive
  <1>5. CASE DisconnectReleases(s)
    <2>1. bg[s].at = "disconnecting" /\ bg'[s].at = "idle"
      BY <1>5 DEF DisconnectReleases, BgRuns, Idle
    <2>2. UNCHANGED <<session, ui, inf, tasks>>
      BY <1>5 DEF DisconnectReleases
    <2>3. Work(s)' = Work(s)
      BY <2>1, <2>2 DEF Work, Reading
    <2>4. Work(s) \in 0..7
      BY WorkRange
    <2>5. ~Writing(s)
      BY <2>1 DEF Writing
    <2> QED
      BY <2>2, <2>3, <2>4, <2>5
  <1> QED
    BY <1>1, <1>2, <1>3, <1>4, <1>5 DEF BackgroundStep

\* What a step of the inference thread does to it.
LEMMA InferenceWorks ==
  ASSUME PInv, NEW s \in Session, InferenceStep(s)
  PROVE  \/ ~Alive'
         \/ /\ UNCHANGED <<session, ui>>
            /\ Work(s)' <= Work(s)
            /\ ~Writing(s) => Work(s)' < Work(s)
  <1> USE DEF PInv, IInv, TypeOK, background, inference, listener, screen
  <1>1. tasks[s] \in Seq(Task) /\ InOrder(tasks[s])
    BY DEF QueueForm
  <1>2. CASE StartTask(s)
    <2>1. /\ tasks[s] # <<>> /\ Head(tasks[s]).kind = "detect" /\ inf[s].at = "idle"
          /\ inf'[s].at \in {"detecting", "skipping"}
          /\ UNCHANGED <<session, ui, bg>>
      BY <1>2 DEF StartTask, NextTask, InfRuns
    <2>2. QueueWork(tasks[s]) = 4
      BY <1>1, <2>1, QueueWorkTaken
    <2>3. ~Writing(s)
      <3>1. 1 \in DOMAIN tasks[s] /\ DetectTask(s, 1)
        BY <1>1, <2>1, Taken DEF DetectTask
      <3> QED
        BY <3>1 DEF Exclusion
    <2> QED
      BY <2>1, <2>2, <2>3 DEF Work, Reading, Writing
  <1>3. CASE Draw(s)
    <2>1. /\ tasks[s] # <<>> /\ inf[s].at = "idle" /\ tasks'[s] = Tail(tasks[s])
          /\ UNCHANGED <<session, ui, bg, inf>>
      BY <1>3 DEF Draw, NextTask, InfRuns
    <2>2. QueueWork(tasks'[s]) < QueueWork(tasks[s])
      BY <1>1, <2>1, QueueWorkTaken
    <2>3. QueueWork(tasks'[s]) \in 0..5 /\ QueueWork(tasks[s]) \in 0..5
      BY QueueWorkRange
    <2> QED
      BY <2>1, <2>2, <2>3 DEF Work, Reading, Writing
  <1>4. CASE TaskCrashes(s)
    BY <1>4 DEF TaskCrashes, Die, Alive
  <1>5. CASE Detected(s)
    <2>1. /\ inf[s].at = "detecting" /\ inf'[s].at \in {"delivering", "skipping"}
          /\ UNCHANGED <<session, ui, bg>>
      BY <1>5 DEF Detected, InfRuns, Thread
    <2>2. ~Writing(s)
      BY <2>1 DEF Exclusion, Reading
    <2> QED
      BY <2>1, <2>2 DEF Work, Reading, Writing
  <1>6. CASE Deliver(s) \/ Skip(s)
    <2>1. /\ inf[s].at \in {"delivering", "skipping"} /\ inf'[s].at = "idle"
          /\ UNCHANGED <<session, ui, bg>>
      BY <1>6 DEF Deliver, Skip, InfRuns, Idle
    <2>2. Reading(s) /\ ~Writing(s) /\ tasks[s] = <<>>
      BY <2>1 DEF Exclusion, Reading, QueueForm
    <2>3. QueueWork(tasks'[s]) \in 0..1
      <3>1. tasks'[s] = <<>> \/ \E e : e.kind = "draw" /\ tasks'[s] = <<e>>
        <4>1. CASE Skip(s)
          BY <2>2, <4>1 DEF Skip
        <4>2. CASE Deliver(s)
          <5>1. s = session
            BY <2>2, CurrentOnly
          <5> DEFINE e == [kind |-> "draw", frame |-> inf[s].frame]
          <5>2. tasks'[s] \in {<<>>, Append(<<>>, e)}
            BY <2>2, <4>2, <5>1 DEF Deliver
          <5>3. Append(<<>>, e) = <<e>> /\ e.kind = "draw"
            OBVIOUS
          <5> QED
            BY <5>2, <5>3
        <4> QED
          BY <1>6, <4>1, <4>2
      <3>2. ASSUME NEW e, e.kind = "draw" PROVE QueueWork(<<e>>) = 1
        <4>1. <<e>> # <<>> /\ Head(<<e>>) = e /\ Tail(<<e>>) = <<>>
          OBVIOUS
        <4> QED
          BY <3>2, <4>1 DEF QueueWork
      <3>3. CASE tasks'[s] = <<>>
        BY <3>3 DEF QueueWork
      <3>4. CASE tasks'[s] # <<>>
        <4>1. PICK e : e.kind = "draw" /\ tasks'[s] = <<e>>
          BY <3>1, <3>4
        <4>2. QueueWork(<<e>>) = 1
          BY <3>2, <4>1
        <4> QED
          BY <4>1, <4>2
      <3> QED
        BY <3>3, <3>4
    <2> QED
      BY <2>1, <2>2, <2>3 DEF Work, Reading, Writing
  <1> QED
    BY <1>2, <1>3, <1>4, <1>5, <1>6 DEF InferenceStep

\* Only the loopers of the current session take a step.
LEMMA RunnerIsCurrent ==
  ASSUME PInv, NEW s \in Session,
         Acquire(s) \/ Disconnect(s) \/ BackgroundStep(s) \/ InferenceStep(s)
  PROVE  s = session
  <1>1. Acquire(s) \/ Disconnect(s) \/ BackgroundStep(s) => ~Ended(bgLooper[s])
    BY DEF Acquire, Disconnect, BackgroundStep, Convert, ConvertThrows, Post, PostCrashes,
       DisconnectReleases, BgRuns, Ended
  <1>2. InferenceStep(s) => ~Ended(infLooper[s])
    BY DEF InferenceStep, StartTask, TaskCrashes, Detected, Deliver, Skip, Draw, NextTask,
       InfRuns, Ended
  <1> QED
    BY <1>1, <1>2 DEF PInv, EndInv, SessionsEnd

\* The place onPause goes to from each of its places.
NextPlace ==
    [closeReader |-> "deInitialize", deInitialize |-> "quitBackground",
     quitBackground |-> "quitInference", quitInference |-> "joinBackground",
     joinBackground |-> "joinInference", joinInference |-> "idle"]

LEMMA PauseMoves ==
  ASSUME PauseStep
  PROVE  /\ ui' = NextPlace[ui]
         /\ UNCHANGED <<session, crash, bg, inf, tasks, disconnected>>
  BY DEF PauseStep, CloseReader, DeInitialize, QuitBackground, QuitInference,
     JoinBackground, JoinInference, NextPlace, screen, background, inference

\* While a frame is on its way, or the reader is closed, the work that is left never
\* grows; and onPause is left by its own steps only.
LEMMA StepOfWork ==
  ASSUME PInv, [Next]_vars, NEW s \in Session, session = s, Alive,
         Work(s) >= 2 \/ ui \notin {"idle", "closeReader"}
  PROVE  \/ ~Alive'
         \/ /\ session' = s
            /\ Work(s)' <= Work(s)
            /\ ui # "idle" => PauseStep \/ ui' = ui
  <1> USE DEF screen, background, inference, listener
  <1>1. Work(s) \in 0..7
    BY WorkRange
  <1>2. ASSUME UNCHANGED <<bg, inf, tasks>> PROVE Work(s)' = Work(s)
    BY <1>2 DEF Work, Reading
  <1>3. ~Resume /\ ~NewActivity
    <2>1. ASSUME ui = "idle", act = "paused" PROVE FALSE
      <3>1. bg[s].at = "idle" /\ inf[s].at = "idle" /\ tasks[s] = <<>>
        BY <2>1 DEF PInv, EndInv, SessionsEnd
      <3> QED
        BY <2>1, <3>1 DEF Work, Reading, QueueWork
    <2> QED
      BY <2>1 DEF Resume, NewActivity
  <1>4. CreateReader \/ Pause \/ InitializeStep \/ UNCHANGED vars =>
          /\ UNCHANGED <<bg, inf, tasks, session>>
          /\ ui # "idle" => ui' = ui
    BY DEF CreateReader, Pause, InitializeStep, InitializeHandler, InitializeDetector, vars
  <1>5. PauseStep => UNCHANGED <<bg, inf, tasks, session>>
    BY PauseMoves
  <1>6. ASSUME NEW t \in Session, Acquire(t) PROVE FALSE
    <2>1. t = s
      BY <1>6, RunnerIsCurrent
    <2>2. reader # Null /\ ~mIsComputing
      BY <1>6 DEF Acquire, Session, Null
    <2>3. bg[s].at = "idle" /\ inf[s].at = "idle"
      BY <1>6, <2>1, <2>2 DEF Acquire, BgRuns, PInv, IInv, Exclusion, Reading
    <2>4. Work(s) >= 2
      BY <2>2 DEF PInv, ReaderClosed
    <2>5. QueueWork(tasks[s]) >= 2
      BY <2>3, <2>4 DEF Work, Reading
    <2>6. tasks[s] \in Seq(Task) /\ InOrder(tasks[s])
      BY DEF PInv, IInv, TypeOK, QueueForm
    <2>7. \A i \in DOMAIN tasks[s] : tasks[s][i].kind # "detect"
      BY <2>2 DEF PInv, IInv, Exclusion, DetectTask
    <2>8. QueueWork(tasks[s]) \in {0, 1}
      <3>1. CASE tasks[s] = <<>>
        BY <3>1 DEF QueueWork
      <3>2. CASE tasks[s] # <<>>
        <4>1. Head(tasks[s]).kind # "detect"
          BY <2>6, <2>7, <3>2, Taken
        <4>2. Tail(tasks[s]) = <<>>
          <5> SUFFICES ASSUME Tail(tasks[s]) # <<>> PROVE FALSE
            OBVIOUS
          <5>1. Tail(tasks[s]) \in Seq(Task) /\ 1 \in DOMAIN tasks[s]
            BY <2>6, <3>2, Taken
          <5>2. 1 \in DOMAIN Tail(tasks[s])
            BY <5>1, Taken
          <5>3. 2 \in DOMAIN tasks[s]
            BY <2>6, <3>2, <5>2, Taken
          <5> QED
            BY <2>6, <2>7, <5>1, <5>3 DEF InOrder
        <4> QED
          BY <3>2, <4>1, <4>2 DEF QueueWork
      <3> QED
        BY <3>1, <3>2
    <2> QED
      BY <2>5, <2>8
  <1>7. ASSUME NEW t \in Session, Disconnect(t)
        PROVE  Work(s)' <= Work(s) /\ UNCHANGED <<session, ui>>
    <2>1. t = s /\ bg[s].at = "idle" /\ UNCHANGED <<session, ui, inf, tasks>>
      BY <1>7, RunnerIsCurrent DEF Disconnect, BgRuns
    <2>2. bg'[s].at = "disconnecting"
      BY <1>7, <2>1 DEF Disconnect, PInv, IInv, TypeOK, Thread
    <2>3. Work(s)' = Work(s)
      BY <2>1, <2>2 DEF Work, Reading
    <2> QED
      BY <1>1, <2>1, <2>3
  <1>8. ASSUME NEW t \in Session, BackgroundStep(t) \/ InferenceStep(t)
        PROVE  ~Alive' \/ (Work(s)' <= Work(s) /\ UNCHANGED <<session, ui>>)
    BY <1>8, RunnerIsCurrent, BackgroundWorks, InferenceWorks
  <1>9. Work(s) <= Work(s)
    BY <1>1
  <1> QED
    BY <1>2, <1>3, <1>4, <1>5, <1>6, <1>7, <1>8, <1>9 DEF Next

----------------------------------------------------------------------------
(* Nobody waits for ever, a frame leaves the pipeline, and onPause comes to    *)
(* its end.  Fairness speaks of what is ENABLED, which the provers cannot      *)
(* expand: that the guards of the steps decide it is StepsFollowGuards, which  *)
(* enters as a hypothesis and which TLC checks.  That a guard holds is proved. *)

\* onPause waits for nothing but the monitor and what the joined looper has to do.
LEMMA PauseGoes ==
  ASSUME PInv, Alive, ui # "idle", ~PauseWaits
  PROVE  PauseCanStep
  BY DEF PInv, QuitBeforeJoin, PauseWaits, PauseCanStep, IInv, TypeOK, UI

\* A callback that was entered has its thread.
LEMMA BackgroundGoes ==
  ASSUME PInv, Alive, NEW s \in Session,
         Writing(s) \/ (bg[s].at = "disconnecting" /\ MonitorFree)
  PROVE  BackgroundCanStep(s)
  <1>1. ~Ended(bgLooper[s])
    BY DEF PInv, EndInv, SessionsEnd, Writing
  <1> QED
    BY <1>1 DEF BackgroundCanStep, BgRuns, Ended, PInv, IInv, TypeOK, Looper

\* So has a task that is queued, and a detection finds the monitor free: whoever
\* holds it would be reading a frame while another waits.
LEMMA InferenceGoes ==
  ASSUME PInv, Alive, NEW s \in Session, Reading(s) \/ tasks[s] # <<>>
  PROVE  InferenceCanStep(s)
  <1>1. ~Ended(infLooper[s])
    BY DEF PInv, EndInv, SessionsEnd, Reading
  <1>2. InfRuns(s, inf[s].at)
    BY <1>1 DEF InfRuns, Ended, PInv, IInv, TypeOK, Looper
  <1>3. ASSUME tasks[s] # <<>>, Head(tasks[s]).kind # "draw" PROVE MonitorFree
    <2>1. tasks[s] \in Seq(Task)
      BY DEF PInv, IInv, TypeOK
    <2>2. 1 \in DOMAIN tasks[s] /\ Head(tasks[s]) = tasks[s][1] /\ Head(tasks[s]) \in Task
      BY <1>3, <2>1
    <2>3. DetectTask(s, 1)
      BY <1>3, <2>2 DEF DetectTask, Task
    <2>4. \A t \in Session : ~Reading(t)
      BY <2>2, <2>3 DEF PInv, IInv, Exclusion
    <2> QED
      BY <2>4 DEF MonitorFree, Reading
  <1> QED
    BY <1>2, <1>3 DEF InferenceCanStep

LEMMA ThreadsGo == PInv => ThreadsHaveAStep
  BY PauseGoes, BackgroundGoes, InferenceGoes DEF ThreadsHaveAStep

\* What fairness gets from it.
LEMMA NeverStuck ==
  ASSUME NobodyIsStuck, Alive
  PROVE  /\ ui # "idle" /\ ~PauseWaits => ENABLED <<PauseStep>>_vars
         /\ \A s \in Session :
              /\ Writing(s) \/ (bg[s].at = "disconnecting" /\ MonitorFree)
                   => ENABLED <<BackgroundStep(s)>>_vars
              /\ Reading(s) \/ tasks[s] # <<>> => ENABLED <<InferenceStep(s)>>_vars
  BY DEF NobodyIsStuck, StepsFollowGuards, ThreadsHaveAStep

Going == []PInv /\ []NobodyIsStuck /\ [][Next]_vars /\ Fairness

At(s, k) == session = s /\ Alive /\ Work(s) = k
Below(s, k) == session = s /\ Alive /\ Work(s) < k
Falls(s, k) == At(s, k) ~> Below(s, k) \/ ~Alive

LEMMA WorkRangeNext ==
  ASSUME NEW s \in Session
  PROVE  Work(s)' \in 0..7
  <1>1. QueueWork(tasks'[s]) \in 0..5
    BY QueueWorkRange
  <1> QED
    BY <1>1 DEF Work

\* A frame that is written goes on with its background thread.
LEMMA WriterGoesOn ==
  ASSUME NEW s \in Session, NEW k \in 6..7
  PROVE  Going => Falls(s, k)
  <1>1. PInv /\ At(s, k) /\ [Next]_vars => At(s, k)' \/ (Below(s, k)' \/ ~Alive')
    BY StepOfWork, WorkRangeNext DEF At, Below, Alive
  <1>2. PInv /\ At(s, k) /\ <<BackgroundStep(s)>>_vars => Below(s, k)' \/ ~Alive'
    <2>1. At(s, k) => Writing(s)
      BY WorkRange DEF At
    <2> QED
      BY <2>1, BackgroundWorks DEF At, Below
  <1>3. NobodyIsStuck /\ At(s, k) => ENABLED <<BackgroundStep(s)>>_vars
    BY WorkRange, NeverStuck DEF At
  <1>4. Fairness => BackgroundGoesOn(s)
    BY DEF Fairness
  <1> QED
    BY <1>1, <1>2, <1>3, <1>4, PTL DEF Going, BackgroundGoesOn, Falls

\* A frame that is queued or read goes on with its inference thread.
LEMMA ReaderGoesOn ==
  ASSUME NEW s \in Session, NEW k \in 2..5
  PROVE  Going => Falls(s, k)
  <1>1. PInv /\ At(s, k) /\ [Next]_vars => At(s, k)' \/ (Below(s, k)' \/ ~Alive')
    BY StepOfWork, WorkRangeNext DEF At, Below, Alive
  <1>2. PInv /\ At(s, k) /\ <<InferenceStep(s)>>_vars => Below(s, k)' \/ ~Alive'
    <2>1. At(s, k) => ~Writing(s)
      BY WorkRange DEF At
    <2> QED
      BY <2>1, InferenceWorks DEF At, Below
  <1>3. NobodyIsStuck /\ At(s, k) => ENABLED <<InferenceStep(s)>>_vars
    <2>1. At(s, k) => Reading(s) \/ tasks[s] # <<>>
      BY DEF At, Work, Reading, QueueWork
    <2> QED
      BY <2>1, NeverStuck DEF At
  <1>4. Fairness => InferenceGoesOn(s)
    BY DEF Fairness
  <1> QED
    BY <1>1, <1>2, <1>3, <1>4, PTL DEF Going, InferenceGoesOn, Falls

\* The frame of session s, until its task is over.
Busy(s) == session = s /\ Alive /\ Work(s) >= 2
NotBusy(s) == session = s /\ Alive /\ Work(s) <= 1
Gone(s) == NotBusy(s) \/ ~Alive

LEMMA FrameEnds ==
  ASSUME NEW s \in Session
  PROVE  Going => (Busy(s) ~> Gone(s))
  <1>1. /\ Busy(s) => At(s, 7) \/ At(s, 6) \/ At(s, 5) \/ At(s, 4) \/ At(s, 3) \/ At(s, 2)
        /\ Below(s, 7) => At(s, 6) \/ Below(s, 6)
        /\ Below(s, 6) => At(s, 5) \/ Below(s, 5)
        /\ Below(s, 5) => At(s, 4) \/ Below(s, 4)
        /\ Below(s, 4) => At(s, 3) \/ Below(s, 3)
        /\ Below(s, 3) => At(s, 2) \/ Below(s, 2)
        /\ Below(s, 2) => NotBusy(s)
    BY WorkRange DEF Busy, NotBusy, At, Below
  <1>2. Going => Falls(s, 7)
    BY WriterGoesOn
  <1>3. Going => Falls(s, 6)
    BY WriterGoesOn
  <1>4. Going => Falls(s, 5)
    BY ReaderGoesOn
  <1>5. Going => Falls(s, 4)
    BY ReaderGoesOn
  <1>6. Going => Falls(s, 3)
    BY ReaderGoesOn
  <1>7. Going => Falls(s, 2)
    BY ReaderGoesOn
  <1> QED
    BY <1>1, <1>2, <1>3, <1>4, <1>5, <1>6, <1>7, PTL DEF Gone, Falls

FrameIsOut == Holder \in {"free", "stuck"} \/ ~Alive
FrameComesOut == <>FrameIsOut
IfBusy(s) == Busy(s) => FrameComesOut

LEMMA EveryFrameEnds ==
  Going => [](\A s \in Session : IfBusy(s))
  <1>1. ASSUME NEW s \in Session PROVE Going => []IfBusy(s)
    <2>1. PInv /\ NotBusy(s) => FrameIsOut
      <3> SUFFICES ASSUME PInv, NotBusy(s) PROVE FrameIsOut
        OBVIOUS
      <3>1. ~(SomeWriter \/ SomeTask \/ SomeReader)
        <4>1. Work(s) \in 0..7
          BY WorkRange
        <4> QED
          BY <4>1, FrameIsCurrent DEF NotBusy
      <3>2. Holder \in {"free", "stuck"}
        BY <3>1, HolderIs DEF PInv, IInv
      <3> QED
        BY <3>2 DEF FrameIsOut
    <2>2. ~Alive => FrameIsOut
      BY DEF FrameIsOut
    <2>3. Going => (Busy(s) ~> Gone(s))
      BY FrameEnds
    <2> QED
      BY <2>1, <2>2, <2>3, PTL DEF Going, Gone, IfBusy, FrameComesOut
  <1>2. Going => \A s \in Session : []IfBusy(s)
    BY <1>1
  <1>3. (\A s \in Session : []IfBusy(s)) => [](\A s \in Session : IfBusy(s))
    OBVIOUS
  <1> QED
    BY <1>2, <1>3

----------------------------------------------------------------------------
(* onPause comes to its end *)

\* onPause of session s, at a place of its own and with what is left to do there.
Place(s, u) == session = s /\ Alive /\ ui = u
Rest(s, u, k) == Place(s, u) /\ Work(s) = k
Less(s, u, k) == Place(s, u) /\ Work(s) < k
Passed(s, u) == Place(s, NextPlace[u]) \/ ~Alive

Moves(s, u) == Place(s, u) ~> Passed(s, u)
Drains(s, u, k) == Rest(s, u, k) ~> Less(s, u, k) \/ Passed(s, u)
ComesToRest(s, u) == Place(s, u) ~> Rest(s, u, 0) \/ Passed(s, u)

Waits == {"deInitialize", "joinBackground", "joinInference"}

LEMMA OwnStep ==
  ASSUME NEW s \in Session, NEW u, Place(s, u), PauseStep
  PROVE  Passed(s, u)'
  BY PauseMoves DEF Place, Passed, Alive

LEMMA StepOfPause ==
  ASSUME NEW s \in Session, NEW u \in UI \ {"idle"}, Place(s, u), [Next]_vars
  PROVE  Place(s, u)' \/ Passed(s, u)'
  <1>1. CASE PauseStep
    BY <1>1, OwnStep
  <1> USE DEF screen, background, inference, listener, Place, Passed, Alive
  <1>2. CASE Resume \/ CreateReader \/ Pause \/ NewActivity
    BY <1>2 DEF Resume, CreateReader, Pause, NewActivity
  <1>3. CASE InitializeStep
    BY <1>3 DEF InitializeStep, InitializeHandler, InitializeDetector
  <1>4. ASSUME NEW t \in Session, Acquire(t) \/ Disconnect(t) \/ BackgroundStep(t)
        PROVE  UNCHANGED <<session, ui>>
    BY <1>4 DEF Acquire, Disconnect, BackgroundStep, Convert, ConvertThrows, Post,
       PostCrashes, DisconnectReleases
  <1>5. ASSUME NEW t \in Session, InferenceStep(t)
        PROVE  UNCHANGED <<session, ui>>
    BY <1>5 DEF InferenceStep, StartTask, TaskCrashes, Detected, Deliver, Skip, Draw
  <1>6. CASE UNCHANGED vars
    BY <1>6 DEF vars
  <1> QED
    BY <1>1, <1>2, <1>3, <1>4, <1>5, <1>6 DEF Next

\* The places where the UI thread waits for nobody.
LEMMA PlaceIsLeft ==
  ASSUME NEW s \in Session, NEW u \in {"closeReader", "quitBackground", "quitInference"}
  PROVE  Going => Moves(s, u)
  <1>1. Place(s, u) /\ [Next]_vars => Place(s, u)' \/ Passed(s, u)'
    BY StepOfPause DEF UI
  <1>2. Place(s, u) /\ <<PauseStep>>_vars => Passed(s, u)'
    BY OwnStep
  <1>3. NobodyIsStuck /\ Place(s, u) => ENABLED <<PauseStep>>_vars
    BY NeverStuck DEF Place, PauseWaits
  <1>4. Fairness => PauseGoesOn
    BY DEF Fairness
  <1> QED
    BY <1>1, <1>2, <1>3, <1>4, PTL DEF Going, PauseGoesOn, Moves

\* Where it may wait, what is left of the frame does not grow.
LEMMA StepOfRest ==
  ASSUME PInv, NEW s \in Session, NEW u \in Waits, NEW k \in 0..7, Rest(s, u, k),
         [Next]_vars
  PROVE  /\ Rest(s, u, k)' \/ Less(s, u, k)' \/ Passed(s, u)'
         /\ Place(s, u)' \/ Passed(s, u)'
         /\ Alive' => Work(s)' <= k
  <1>1. Place(s, u)' \/ Passed(s, u)'
    BY StepOfPause DEF Rest, Waits, UI
  <1>2. Alive' => Work(s)' <= k
    BY StepOfWork DEF Rest, Place, Waits
  <1>3. Work(s)' \in 0..7
    BY WorkRangeNext
  <1>4. Passed(s, u)' \/ (Place(s, u)' /\ Alive')
    BY <1>1 DEF Place, Passed, Alive
  <1> QED
    BY <1>1, <1>2, <1>3, <1>4 DEF Rest, Less

LEMMA WriterDrains ==
  ASSUME NEW s \in Session, NEW u \in Waits, NEW k \in 6..7
  PROVE  Going => Drains(s, u, k)
  <1>1. PInv /\ Rest(s, u, k) /\ [Next]_vars =>
          Rest(s, u, k)' \/ (Less(s, u, k)' \/ Passed(s, u)')
    BY StepOfRest
  <1>2. PInv /\ Rest(s, u, k) /\ <<BackgroundStep(s)>>_vars => Less(s, u, k)' \/ Passed(s, u)'
    <2> SUFFICES ASSUME PInv, Rest(s, u, k), BackgroundStep(s)
                 PROVE  Less(s, u, k)' \/ Passed(s, u)'
      OBVIOUS
    <2>1. Writing(s)
      BY WorkRange DEF Rest
    <2>2. ~Alive' \/ (UNCHANGED <<session, ui>> /\ Work(s)' < Work(s))
      BY <2>1, BackgroundWorks
    <2> QED
      BY <2>2 DEF Rest, Less, Place, Passed, Alive
  <1>3. NobodyIsStuck /\ Rest(s, u, k) => ENABLED <<BackgroundStep(s)>>_vars
    BY WorkRange, NeverStuck DEF Rest, Place
  <1>4. Fairness => BackgroundGoesOn(s)
    BY DEF Fairness
  <1> QED
    BY <1>1, <1>2, <1>3, <1>4, PTL DEF Going, BackgroundGoesOn, Drains

LEMMA ReaderDrains ==
  ASSUME NEW s \in Session, NEW u \in Waits, NEW k \in 1..5
  PROVE  Going => Drains(s, u, k)
  <1>1. PInv /\ Rest(s, u, k) /\ [Next]_vars =>
          Rest(s, u, k)' \/ (Less(s, u, k)' \/ Passed(s, u)')
    BY StepOfRest
  <1>2. PInv /\ Rest(s, u, k) /\ <<InferenceStep(s)>>_vars => Less(s, u, k)' \/ Passed(s, u)'
    <2> SUFFICES ASSUME PInv, Rest(s, u, k), InferenceStep(s)
                 PROVE  Less(s, u, k)' \/ Passed(s, u)'
      OBVIOUS
    <2>1. ~Writing(s)
      BY WorkRange DEF Rest
    <2>2. ~Alive' \/ (UNCHANGED <<session, ui>> /\ Work(s)' < Work(s))
      BY <2>1, InferenceWorks
    <2> QED
      BY <2>2 DEF Rest, Less, Place, Passed, Alive
  <1>3. NobodyIsStuck /\ Rest(s, u, k) => ENABLED <<InferenceStep(s)>>_vars
    <2>1. Rest(s, u, k) => Reading(s) \/ tasks[s] # <<>>
      BY DEF Rest, Work, Reading, QueueWork
    <2> QED
      BY <2>1, NeverStuck DEF Rest, Place
  <1>4. Fairness => InferenceGoesOn(s)
    BY DEF Fairness
  <1> QED
    BY <1>1, <1>2, <1>3, <1>4, PTL DEF Going, InferenceGoesOn, Drains

LEMMA DrainEnds ==
  ASSUME NEW s \in Session, NEW u \in Waits
  PROVE  Going => ComesToRest(s, u)
  <1>1. /\ Place(s, u) => Rest(s, u, 7) \/ Less(s, u, 7)
        /\ Less(s, u, 7) => Rest(s, u, 6) \/ Less(s, u, 6)
        /\ Less(s, u, 6) => Rest(s, u, 5) \/ Less(s, u, 5)
        /\ Less(s, u, 5) => Rest(s, u, 4) \/ Less(s, u, 4)
        /\ Less(s, u, 4) => Rest(s, u, 3) \/ Less(s, u, 3)
        /\ Less(s, u, 3) => Rest(s, u, 2) \/ Less(s, u, 2)
        /\ Less(s, u, 2) => Rest(s, u, 1) \/ Less(s, u, 1)
        /\ Less(s, u, 1) => Rest(s, u, 0)
    BY WorkRange DEF Rest, Less
  <1>2. Going => Drains(s, u, 7)
    BY WriterDrains
  <1>3. Going => Drains(s, u, 6)
    BY WriterDrains
  <1>4. Going => Drains(s, u, 5)
    BY ReaderDrains
  <1>5. Going => Drains(s, u, 4)
    BY ReaderDrains
  <1>6. Going => Drains(s, u, 3)
    BY ReaderDrains
  <1>7. Going => Drains(s, u, 2)
    BY ReaderDrains
  <1>8. Going => Drains(s, u, 1)
    BY ReaderDrains
  <1> QED
    BY <1>1, <1>2, <1>3, <1>4, <1>5, <1>6, <1>7, <1>8, PTL DEF Drains, ComesToRest

LEMMA NothingLeft ==
  ASSUME PInv, NEW s \in Session, session = s, Work(s) = 0
  PROVE  /\ bg[s].at \in {"idle", "disconnecting"}
         /\ inf[s].at = "idle" /\ tasks[s] = <<>>
         /\ MonitorFree
  <1>1. inf[s].at = "idle" /\ tasks[s] = <<>>
    BY DEF Work, Reading, QueueWork
  <1>2. bg[s].at \in {"idle", "disconnecting"}
    BY DEF Work, PInv, IInv, TypeOK, Thread, BgAt
  <1>3. MonitorFree
    BY <1>1, CurrentOnly DEF PInv, MonitorFree, Reading
  <1> QED
    BY <1>1, <1>2, <1>3

\* Then the monitor is free and the queue is empty.
LEMMA RestIsLeft ==
  ASSUME NEW s \in Session, NEW u \in {"deInitialize", "joinInference"}
  PROVE  Going => Moves(s, u)
  <1>1. PInv /\ Rest(s, u, 0) /\ [Next]_vars => Rest(s, u, 0)' \/ Passed(s, u)'
    <2>1. PInv /\ Rest(s, u, 0) /\ [Next]_vars =>
            Rest(s, u, 0)' \/ Less(s, u, 0)' \/ Passed(s, u)'
      BY StepOfRest DEF Waits
    <2>2. ~Less(s, u, 0)'
      BY WorkRangeNext DEF Less
    <2> QED
      BY <2>1, <2>2
  <1>2. Rest(s, u, 0) /\ <<PauseStep>>_vars => Passed(s, u)'
    BY OwnStep DEF Rest
  <1>3. PInv /\ NobodyIsStuck /\ Rest(s, u, 0) => ENABLED <<PauseStep>>_vars
    <2>1. PInv /\ Rest(s, u, 0) => Alive /\ ui # "idle" /\ ~PauseWaits
      BY NothingLeft DEF Rest, Place, PauseWaits
    <2> QED
      BY <2>1, NeverStuck
  <1>4. Fairness => PauseGoesOn
    BY DEF Fairness
  <1>5. Going => ComesToRest(s, u)
    BY DrainEnds DEF Waits
  <1> QED
    BY <1>1, <1>2, <1>3, <1>4, <1>5, PTL DEF Going, PauseGoesOn, Moves, ComesToRest

\* In the join of the background thread the camera may still be lost, once.
Joins(s) == Rest(s, "joinBackground", 0)
Joinable(s) == Joins(s) /\ bg[s].at = "idle" /\ s \notin disconnected
Releasing(s) == Joins(s) /\ bg[s].at = "disconnecting"
Released(s) == Joins(s) /\ bg[s].at = "idle" /\ s \in disconnected
Joined(s) == Passed(s, "joinBackground")

LEMMA BackgroundInJoin ==
  ASSUME PInv, NEW s \in Session, Joins(s), [Next]_vars, Joins(s)'
  PROVE  \/ UNCHANGED <<bg[s], disconnected>>
         \/ bg[s].at = "idle" /\ s \notin disconnected /\ bg'[s].at = "disconnecting"
         \/ /\ bg[s].at = "disconnecting" /\ bg'[s].at = "idle"
            /\ disconnected' = disconnected
  <1> USE DEF screen, background, inference, listener, PInv, IInv, TypeOK
  <1>1. ~Resume /\ ~NewActivity
    BY DEF Resume, NewActivity, Joins, Rest, Place
  <1>2. CASE CreateReader \/ Pause \/ PauseStep \/ InitializeStep
    <2>1. CASE PauseStep
      BY <2>1, PauseMoves
    <2>2. CASE CreateReader \/ Pause \/ InitializeStep
      BY <2>2 DEF CreateReader, Pause, InitializeStep, InitializeHandler, InitializeDetector
    <2> QED
      BY <1>2, <2>1, <2>2
  <1>3. ASSUME NEW t \in Session, Acquire(t) PROVE FALSE
    BY <1>3 DEF Acquire, ReaderClosed, Joins, Rest, Place, Null, Session
  <1>4. ASSUME NEW t \in Session, Disconnect(t)
        PROVE  bg[s].at = "idle" /\ s \notin disconnected /\ bg'[s].at = "disconnecting"
    <2>1. t = s
      BY <1>4, RunnerIsCurrent DEF Joins, Rest, Place
    <2> QED
      BY <1>4, <2>1 DEF Disconnect, BgRuns, Thread
  <1>5. ASSUME NEW t \in Session, BackgroundStep(t), Alive'
        PROVE  /\ bg[s].at = "disconnecting" /\ bg'[s].at = "idle"
               /\ disconnected' = disconnected
    <2>1. t = s
      BY <1>5, RunnerIsCurrent DEF Joins, Rest, Place
    <2>2. bg[s].at \in {"idle", "disconnecting"}
      BY NothingLeft DEF Joins, Rest, Place
    <2> QED
      BY <1>5, <2>1, <2>2 DEF BackgroundStep, Convert, ConvertThrows, Post, PostCrashes,
         DisconnectReleases, BgRuns, Idle, Die, Alive
  <1>6. ASSUME NEW t \in Session, InferenceStep(t)
        PROVE  UNCHANGED <<bg, disconnected>>
    BY <1>6 DEF InferenceStep, StartTask, TaskCrashes, Detected, Deliver, Skip, Draw
  <1>7. CASE UNCHANGED vars
    BY <1>7 DEF vars
  <1>8. Alive'
    BY DEF Joins, Rest, Place, Alive
  <1> QED
    BY <1>1, <1>2, <1>3, <1>4, <1>5, <1>6, <1>7, <1>8 DEF Next

LEMMA JoinIsLeft ==
  ASSUME NEW s \in Session
  PROVE  Going => Moves(s, "joinBackground")
  <1>1. PInv /\ Joins(s) /\ [Next]_vars => Joins(s)' \/ Joined(s)'
    <2>1. PInv /\ Joins(s) /\ [Next]_vars =>
            Joins(s)' \/ Less(s, "joinBackground", 0)' \/ Joined(s)'
      BY StepOfRest DEF Waits, Joins, Joined
    <2>2. ~Less(s, "joinBackground", 0)'
      BY WorkRangeNext DEF Less
    <2> QED
      BY <2>1, <2>2
  <1>2. PInv /\ Joins(s) => Joinable(s) \/ Releasing(s) \/ Released(s)
    BY NothingLeft DEF Joinable, Releasing, Released, Joins, Rest, Place
  <1>3. Joins(s) /\ PauseStep => Joined(s)'
    BY OwnStep DEF Joins, Joined, Rest
  <1>4. PInv /\ Joinable(s) /\ [Next]_vars => Joinable(s)' \/ (Releasing(s)' \/ Joined(s)')
    BY <1>1, BackgroundInJoin DEF Joinable, Releasing
  <1>5. PInv /\ Releasing(s) /\ [Next]_vars => Releasing(s)' \/ (Released(s)' \/ Joined(s)')
    <2>1. PInv /\ Releasing(s) => s \in disconnected
      BY DEF Releasing, PInv, EndInv, DeletedBefore
    <2> QED
      BY <1>1, <2>1, BackgroundInJoin DEF Released, Releasing
  <1>6. PInv /\ Released(s) /\ [Next]_vars => Released(s)' \/ Joined(s)'
    BY <1>1, BackgroundInJoin DEF Released
  <1>7. PInv /\ Releasing(s) /\ <<Next /\ BackgroundStep(s)>>_vars => Released(s)' \/ Joined(s)'
    <2> SUFFICES ASSUME PInv, Releasing(s), Next, BackgroundStep(s)
                 PROVE  Released(s)' \/ Joined(s)'
      OBVIOUS
    <2>1. ~Alive' \/ bg'[s].at = "idle"
      BY DEF BackgroundStep, Convert, ConvertThrows, Post, PostCrashes, DisconnectReleases,
         BgRuns, Idle, Die, Alive, Releasing, PInv, IInv, TypeOK
    <2>2. ~Alive' => Joined(s)'
      BY DEF Joined, Passed, Alive
    <2> QED
      BY <1>5, <2>1, <2>2 DEF Releasing
  <1>8. NobodyIsStuck /\ (Joinable(s) \/ Released(s)) => ENABLED <<PauseStep>>_vars
    <2>1. Joinable(s) \/ Released(s) => Alive /\ ui # "idle" /\ ~PauseWaits
      BY DEF Joinable, Released, Joins, Rest, Place, PauseWaits
    <2> QED
      BY <2>1, NeverStuck
  <1>9. PInv /\ NobodyIsStuck /\ Releasing(s) => ENABLED <<BackgroundStep(s)>>_vars
    <2>1. PInv /\ Releasing(s) => Alive /\ MonitorFree /\ bg[s].at = "disconnecting"
      BY NothingLeft DEF Releasing, Joins, Rest, Place
    <2> QED
      BY <2>1, NeverStuck
  <1>10. Fairness => PauseGoesOn /\ BackgroundGoesOn(s)
    BY DEF Fairness
  <1>11. Going => (Joinable(s) ~> Releasing(s) \/ Joined(s))
    BY <1>3, <1>4, <1>8, <1>10, PTL DEF Going, PauseGoesOn, Joinable
  <1>12. Going => (Releasing(s) ~> Released(s) \/ Joined(s))
    BY <1>5, <1>7, <1>9, <1>10, PTL DEF Going, BackgroundGoesOn
  <1>13. Going => (Released(s) ~> Joined(s))
    BY <1>3, <1>6, <1>8, <1>10, PTL DEF Going, PauseGoesOn, Released
  <1>14. Going => ComesToRest(s, "joinBackground")
    BY DrainEnds DEF Waits
  <1> QED
    BY <1>2, <1>11, <1>12, <1>13, <1>14, PTL DEF Going, Moves, Joins, Joined, ComesToRest

\* Every place of onPause in turn.
PauseOver == ui = "idle" \/ ~Alive
PauseComesToItsEnd == <>PauseOver
IfInPause(s) == Place(s, "closeReader") => PauseComesToItsEnd

LEMMA EveryPauseEnds ==
  Going => [](\A s \in Session : IfInPause(s))
  <1>1. ASSUME NEW s \in Session PROVE Going => []IfInPause(s)
    <2>1. Going => Moves(s, "closeReader")
      BY PlaceIsLeft
    <2>2. Going => Moves(s, "deInitialize")
      BY RestIsLeft
    <2>3. Going => Moves(s, "quitBackground")
      BY PlaceIsLeft
    <2>4. Going => Moves(s, "quitInference")
      BY PlaceIsLeft
    <2>5. Going => Moves(s, "joinBackground")
      BY JoinIsLeft
    <2>6. Going => Moves(s, "joinInference")
      BY RestIsLeft
    <2>7. /\ Passed(s, "closeReader") => Place(s, "deInitialize") \/ PauseOver
          /\ Passed(s, "deInitialize") => Place(s, "quitBackground") \/ PauseOver
          /\ Passed(s, "quitBackground") => Place(s, "quitInference") \/ PauseOver
          /\ Passed(s, "quitInference") => Place(s, "joinBackground") \/ PauseOver
          /\ Passed(s, "joinBackground") => Place(s, "joinInference") \/ PauseOver
          /\ Passed(s, "joinInference") => PauseOver
      BY DEF Passed, NextPlace, PauseOver, Place
    <2> QED
      BY <2>1, <2>2, <2>3, <2>4, <2>5, <2>6, <2>7, PTL DEF Moves, IfInPause, PauseComesToItsEnd
  <1>2. Going => \A s \in Session : []IfInPause(s)
    BY <1>1
  <1>3. (\A s \in Session : []IfInPause(s)) => [](\A s \in Session : IfInPause(s))
    OBVIOUS
  <1> QED
    BY <1>2, <1>3

----------------------------------------------------------------------------
(* The theorems *)

\* The inductive invariant holds in every state of every behaviour.
THEOREM Invariance == Spec => []IInv
  BY InitIInv, Inductive, PTL DEF Spec

\* Whatever the number of sessions and frames, every variable keeps its type.
THEOREM TypeCorrect == Spec => []TypeOK
  <1>1. IInv => TypeOK
    BY DEF IInv
  <1> QED
    BY <1>1, Invariance, PTL

\* mIsComputing admits one frame at a time to the pipeline, over all sessions.
THEOREM OneFrameAtATime == Spec => []OneFrameInThePipeline
  <1>1. IInv => OneFrameInThePipeline
    BY OneFrame DEF IInv
  <1> QED
    BY <1>1, Invariance, PTL

\* The inference thread reads the frame its task was posted for.
THEOREM FramesIntact == Spec => []FrameIntact
  <1>1. IInv => FrameIntact
    BY DEF IInv
  <1> QED
    BY <1>1, Invariance, PTL

\* No detector is deleted while it detects.
THEOREM DetectorSafe == Spec => []DetectorOutlivesDetection
  <1>1. IInv => DetectorOutlivesDetection
    BY DEF IInv
  <1> QED
    BY <1>1, Invariance, PTL

LEMMA Ends == Spec => []EndInv
  BY InitEnd, StepEnd, Invariance, PTL DEF Spec

\* When onPause has returned, nothing of the pipeline is left to run.
THEOREM PauseLeavesNothing == Spec => []PausedIsQuiet
  <1>1. EndInv => PausedIsQuiet
    BY DEF EndInv, SessionsEnd, PausedIsQuiet
  <1> QED
    BY <1>1, Ends, PTL

\* Only a task that onPause or a lost camera overtook finds its detector deleted.
THEOREM DeletionOvertakes == Spec => []DeletedDetectorWasOvertaken
  <1>1. EndInv => DeletedDetectorWasOvertaken
    BY DEF EndInv
  <1> QED
    BY <1>1, Ends, PTL

LEMMA Pipeline == Spec => []PInv
  <1>1. Init => PInv
    BY InitIInv, InitEnd, InitQueue DEF PInv
  <1>2. PInv /\ [Next]_vars => PInv'
    BY Inductive, StepEnd, StepQueueForm, StepReaderClosed, StepQuitBeforeJoin DEF PInv
  <1> QED
    BY <1>1, <1>2, PTL DEF Spec

\* The guard of a step holds for every thread that waits for nobody: onPause joins no
\* looper that was not told to quit, no callback and no task is left without its
\* thread, and no task finds the monitor taken.
THEOREM ThreadsAlwaysGo == Spec => []ThreadsHaveAStep
  BY Pipeline, ThreadsGo, PTL

\* So the threads of the pipeline never wait for each other in a circle.
THEOREM NobodyStuck == Spec /\ []StepsFollowGuards => []NobodyIsStuck
  BY ThreadsAlwaysGo, PTL DEF NobodyIsStuck

\* A frame that was taken leaves the pipeline, under weak fairness of the threads.
THEOREM FramesComeOut == FairSpec /\ []StepsFollowGuards => FrameLeaves
  <1>1. FairSpec /\ []StepsFollowGuards => Going
    BY Pipeline, NobodyStuck, PTL DEF FairSpec, Spec, Going
  <1> DEFINE HasFrame == Holder \in {"writer", "queued", "reader"}
  <1>2. PInv /\ HasFrame => (\E s \in Session : Busy(s)) \/ FrameIsOut
    <2> SUFFICES ASSUME PInv, HasFrame, Alive PROVE \E s \in Session : Busy(s)
      BY DEF FrameIsOut
    <2>1. SomeWriter \/ SomeTask \/ SomeReader
      BY HolderIs DEF PInv, IInv
    <2> QED
      BY <2>1, FrameIsCurrent DEF Busy
  <1>3. (\A s \in Session : IfBusy(s)) /\ (\E s \in Session : Busy(s)) => FrameComesOut
    BY DEF IfBusy
  <1>4. FrameIsOut <=> Holder \in {"free", "stuck"} \/ ~Alive
    BY DEF FrameIsOut
  <1> QED
    BY <1>1, <1>2, <1>3, <1>4, EveryFrameEnds, PTL DEF FrameLeaves, FrameComesOut, Going

\* onPause comes to its end, under the same fairness and the same hypothesis.
THEOREM PausesEnd == FairSpec /\ []StepsFollowGuards => PauseEnds
  <1>1. FairSpec /\ []StepsFollowGuards => Going
    BY Pipeline, NobodyStuck, PTL DEF FairSpec, Spec, Going
  <1> DEFINE Closing == ui = "closeReader"
  <1>2. PInv /\ Closing => (\E s \in Session : Place(s, "closeReader")) \/ PauseOver
    BY DEF PInv, EndInv, SessionsEnd, Place, PauseOver
  <1>3. (\A s \in Session : IfInPause(s)) /\ (\E s \in Session : Place(s, "closeReader"))
          => PauseComesToItsEnd
    BY DEF IfInPause
  <1>4. PauseOver <=> ui = "idle" \/ ~Alive
    BY DEF PauseOver
  <1> QED
    BY <1>1, <1>2, <1>3, <1>4, EveryPauseEnds, PTL DEF PauseEnds, PauseComesToItsEnd, Going

\* At most one drawing and one detection are ever queued on an inference looper.
THEOREM QueueBounded == Spec => [](\A s \in Session : Len(tasks[s]) <= 2)
  <1>1. PInv => \A s \in Session : Len(tasks[s]) <= 2
    BY OrderIsShort DEF PInv, IInv, TypeOK, QueueForm
  <1> QED
    BY <1>1, Pipeline, PTL

\* The flag, the queue and the threads together implement the slot of FrameSlot.
THEOREM SlotImplemented == Spec => ImplementsSlot
  BY Invariance, InitSlot, StepSlot, PTL DEF Spec, ImplementsSlot, Slot!SlotSpec

\* And so a flag that the camera thread has left set is never reset: until the next
\* listener, with its session 0, no frame is taken again.
THEOREM StuckForGood ==
  Spec => [][Holder = "stuck" => Holder' = "stuck" \/ session' = 0]_vars
  <1>1. IInv /\ IInv' /\ [Next]_vars
          => (Holder = "stuck" => Holder' = "stuck" \/ session' = 0)
    BY StepSlot DEF Slot!SlotNext, Slot!Open, Slot!Take, Slot!HandOver, Slot!Strand,
       Slot!StartReading, Slot!FinishReading, Slot!Renew, Slot!slot
  <1> QED
    BY <1>1, Invariance, PTL DEF Spec

\* The flag is lost by the camera thread only, which has to leave a frame without a task.
LEMMA StepOfDetection ==
  ASSUME IInv, IInv', EndInv, LooperRuns, [Next]_vars,
         act = "resumed", session = mInferenceHandler, Holder # "stuck", Holder' = "stuck"
  PROVE  \E s \in Session : bg[s].at = "converting" /\ bg'[s].at = "idle"
  <1> USE DEF screen, background, inference, listener
  <1>1. Holder = "writer" /\ session' = session
    BY StepSlot DEF Slot!SlotNext, Slot!Open, Slot!Take, Slot!HandOver, Slot!Strand,
       Slot!StartReading, Slot!FinishReading, Slot!Renew, Slot!slot
  <1>2. SomeWriter
    BY <1>1, HolderIs DEF IInv
  <1>3. ~SomeWriter' /\ ~SomeTask'
    <2>1. (Exclusion => /\ SomeWriter => Holder = "writer"
                        /\ SomeTask => Holder = "queued")'
      BY HolderIs, PTL
    <2> QED
      BY <2>1 DEF IInv
  <1>4. PICK s \in Session : Writing(s)
    BY <1>2 DEF SomeWriter
  <1>5. bg'[s].at \notin {"converting", "drawing"}
    BY <1>3 DEF SomeWriter, Writing
  <1>6. bg \in [Session -> Thread(BgAt)] /\ tasks \in [Session -> Seq(Task)]
    BY DEF IInv, TypeOK
  <1>7. ~(bg' = bg)
    BY <1>4, <1>5 DEF Writing
  <1>8. ~(Resume \/ CreateReader \/ Pause \/ PauseStep \/ InitializeStep \/ UNCHANGED vars)
    BY <1>7 DEF Resume, CreateReader, Pause, PauseStep, CloseReader, DeInitialize, QuitBackground,
       QuitInference, JoinBackground, JoinInference, InitializeStep, InitializeHandler,
       InitializeDetector, vars
  <1>9. ~NewActivity
    BY <1>1 DEF NewActivity, EndInv, SessionsEnd, Session
  <1>10. ASSUME NEW t \in Session, Acquire(t) \/ Disconnect(t) \/ BackgroundStep(t)
         PROVE  ConvertThrows(s) \/ Post(s)
    <2>1. ~PostCrashes(t)
      BY <1>7 DEF PostCrashes
    <2>2. bg'[s] # bg[s]
      BY <1>4, <1>5 DEF Writing
    <2>3. t = s
      BY <1>6, <1>10, <2>1, <2>2 DEF Acquire, Disconnect, BackgroundStep, Convert, ConvertThrows,
         Post, DisconnectReleases
    <2>4. ~Acquire(s) /\ ~Disconnect(s) /\ ~DisconnectReleases(s)
      BY <1>4 DEF Acquire, Disconnect, DisconnectReleases, BgRuns, Writing
    <2>5. ~Convert(s)
      BY <1>5, <1>6 DEF Convert, Thread
    <2> QED
      BY <1>10, <2>1, <2>3, <2>4, <2>5 DEF BackgroundStep
  <1>11. ~Post(s)
    <2> SUFFICES ASSUME Post(s) PROVE FALSE
      OBVIOUS
    <2> DEFINE h == mInferenceHandler
               e == [kind |-> "detect", frame |-> bg[s].frame]
    <2>1. h \in Session /\ infLooper[h] = "running"
      BY DEF LooperRuns, EndInv, SessionsEnd
    <2>2. tasks'[h] = Append(tasks[h], e)
      BY <1>6, <2>1 DEF Post
    <2>3. e \in Task
      BY <1>4 DEF IInv, FramesKnown, Task
    <2>4. Len(tasks[h]) + 1 \in DOMAIN tasks'[h] /\ tasks'[h][Len(tasks[h]) + 1] = e
      BY <1>6, <2>1, <2>2, <2>3, Appended
    <2> QED
      BY <1>3, <2>1, <2>4 DEF SomeTask, DetectTask
  <1>12. \A t \in Session : InferenceStep(t) => bg' = bg
    BY DEF InferenceStep, StartTask, TaskCrashes, Detected, Deliver, Skip, Draw
  <1>13. ConvertThrows(s)
    BY <1>7, <1>8, <1>9, <1>10, <1>11, <1>12 DEF Next
  <1> QED
    BY <1>6, <1>13 DEF ConvertThrows, BgRuns, Idle

\* While the session goes on whose looper initialize was given, only an exception in the
\* try block costs the listener its detection.
THEOREM DetectionKept == Spec => DetectionGoesOn
  <1>1. Spec => []LooperRuns
    <2>1. Init => LooperRuns
      BY DEF Init, LooperRuns
    <2> QED
      BY <2>1, StepLooperRuns, Invariance, Ends, PTL DEF Spec
  <1>2. IInv /\ IInv' /\ EndInv /\ LooperRuns /\ [Next]_vars =>
          (act = "resumed" /\ session = mInferenceHandler /\ Holder # "stuck" =>
             \/ Holder' # "stuck"
             \/ \E s \in Session : bg[s].at = "converting" /\ bg'[s].at = "idle")
    BY StepOfDetection
  <1> QED
    BY <1>1, <1>2, Invariance, Ends, PTL DEF Spec, DetectionGoesOn

=============================================================================
