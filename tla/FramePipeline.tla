---------------------------- MODULE FramePipeline ----------------------------
(***************************************************************************)
(* A camera frame on its way through OnGetImageListener, for one           *)
(* FaceActivity.  Four kinds of threads take part.                         *)
(*   - The UI thread runs onResume, which starts a background looper and   *)
(*     an inference looper, and onPause, which closes the camera, releases *)
(*     the detector and stops both loopers.                                *)
(*   - The background looper of a session runs onImageAvailable and        *)
(*     onDisconnected.                                                     *)
(*   - The inference looper of a session runs the tasks posted to it.      *)
(*   - One thread, started with the listener, runs initialize.             *)
(* mIsComputing is the only thing that keeps the first two apart on the    *)
(* frame buffer; the monitor of the listener keeps deInitialize and        *)
(* detect apart.  A session is one onResume, numbered from 1.              *)
(*                                                                         *)
(* mIsComputing is not volatile: a background thread may see it set for    *)
(* some time after it was cleared.  It then closes the image and returns,  *)
(* which leaves the state as it was.                                       *)
(***************************************************************************)
EXTENDS Naturals, Sequences, FiniteSets

CONSTANTS
    MaxSessions,   \* bound: calls of onResume in the life of one activity
    MaxFrames,     \* bound: frames the camera delivers in that life
    Faults         \* whether the camera, a frame or the model file may fail

ASSUME MaxSessionsAssumption == MaxSessions \in Nat \ {0}
ASSUME MaxFramesAssumption == MaxFrames \in Nat \ {0}
ASSUME FaultsAssumption == Faults \in BOOLEAN

Session == 1..MaxSessions
Frame == 1..MaxFrames
Null == 0

VARIABLES
    act,                \* lifecycle of FaceActivity
    ui,                 \* where the UI thread is in onPause
    crash,              \* the failure that ended the process
    session,            \* the current session, and FaceActivity.inferenceHandler
    reader,             \* the session of mPreviewReader, or Null
    frames,             \* frames taken so far
    bgLooper,           \* of each session: the background looper
    bg,                 \* of each session: where its background thread is
    infLooper,          \* of each session: the inference looper
    tasks,              \* of each session: the queue of the inference looper
    inf,                \* of each session: where its inference thread is
    initThread,         \* where the thread that runs initialize is
    mInferenceHandler,  \* the session it belongs to, or Null
    mFaceDet,           \* the detector behind the field
    mIsComputing,
    mCroppedBitmap,     \* the frame in the buffers, Null while they are filled
    disconnected        \* sessions whose camera has called onDisconnected

vars == <<act, ui, crash, session, reader, frames, bgLooper, bg, infLooper, tasks,
          inf, initThread, mInferenceHandler, mFaceDet, mIsComputing,
          mCroppedBitmap, disconnected>>

screen == <<act, session>>
background == <<bgLooper, bg, frames, mCroppedBitmap, disconnected>>
inference == <<infLooper, tasks, inf>>
listener == <<initThread, mInferenceHandler, mFaceDet, mIsComputing>>

UI == {"idle", "closeReader", "deInitialize", "quitBackground", "quitInference",
       "joinBackground", "joinInference"}
Crash == {"none", "noHandler", "noModel", "nullDetector"}
Looper == {"null", "running", "quitting", "dead"}

\* onImageAvailable after it took the flag: inside its try block, then behind it;
\* and onDisconnected before its call of deInitialize.
BgAt == {"idle", "converting", "drawing", "disconnecting"}
InfAt == {"idle", "detecting", "delivering", "skipping"}

Task == [kind : {"detect", "draw"}, frame : Frame]
Thread(places) == [at : places, frame : Frame \union {Null}]
Idle == [at |-> "idle", frame |-> Null]

Alive == crash = "none"
Die(reason) == crash' = reason

\* synchronized (OnGetImageListener.this), which only detect holds for long.
MonitorFree == \A s \in Session : inf[s].at # "detecting"

----------------------------------------------------------------------------

Init ==
    /\ act = "paused"
    /\ ui = "idle"
    /\ crash = "none"
    /\ session = 0
    /\ reader = Null
    /\ frames = 0
    /\ bgLooper = [s \in Session |-> "null"]
    /\ bg = [s \in Session |-> Idle]
    /\ infLooper = [s \in Session |-> "null"]
    /\ tasks = [s \in Session |-> <<>>]
    /\ inf = [s \in Session |-> Idle]
    /\ initThread = "none"
    /\ mInferenceHandler = Null
    /\ mFaceDet = "null"
    /\ mIsComputing = FALSE
    /\ mCroppedBitmap = Null
    /\ disconnected = {}

----------------------------------------------------------------------------
(* The UI thread *)

\* onResume: startBackgroundThread, and in the first session, over a texture that
\* is not there yet, initGetPreviewListener starts the thread of initialize.
Resume ==
    /\ Alive
    /\ ui = "idle"
    /\ act = "paused"
    /\ session < MaxSessions
    /\ act' = "resumed"
    /\ session' = session + 1
    /\ bgLooper' = [bgLooper EXCEPT ![session + 1] = "running"]
    /\ infLooper' = [infLooper EXCEPT ![session + 1] = "running"]
    /\ initThread' = IF session = 0 THEN "started" ELSE initThread
    /\ UNCHANGED <<ui, crash, reader, frames, bg, tasks, inf, mInferenceHandler,
                   mFaceDet, mIsComputing, mCroppedBitmap, disconnected>>

\* createCameraPreviewSession: the reader gets the listener and mBackgroundHandler.
CreateReader ==
    /\ Alive
    /\ ui = "idle"
    /\ act = "resumed"
    /\ reader = Null
    /\ reader' = session
    /\ UNCHANGED <<screen, ui, crash, background, inference, listener>>

\* onPause, up to the reader in closeCamera.
Pause ==
    /\ Alive
    /\ ui = "idle"
    /\ act = "resumed"
    /\ act' = "paused"
    /\ ui' = "closeReader"
    /\ UNCHANGED <<session, crash, reader, background, inference, listener>>

CloseReader ==
    /\ Alive
    /\ ui = "closeReader"
    /\ reader' = Null
    /\ ui' = "deInitialize"
    /\ UNCHANGED <<screen, crash, background, inference, listener>>

\* Variant: deInitialize is not synchronized.
ReleaseUnsynchronized ==
    mFaceDet' = IF mFaceDet = "null" THEN mFaceDet ELSE "released"

\* Variant: deInitialize waits until no frame is computed.
ReleaseWhenFree ==
    /\ ~mIsComputing
    /\ mFaceDet' = IF mFaceDet = "null" THEN mFaceDet ELSE "released"

\* deInitialize: the detector is deleted, the field keeps the empty FaceDet.
Release ==
    /\ MonitorFree
    /\ mFaceDet' = IF mFaceDet = "null" THEN mFaceDet ELSE "released"

DeInitialize ==
    /\ Alive
    /\ ui = "deInitialize"
    /\ Release
    /\ ui' = "quitBackground"
    /\ UNCHANGED <<screen, crash, reader, background, inference, initThread,
                   mInferenceHandler, mIsComputing>>

QuitBackground ==
    /\ Alive
    /\ ui = "quitBackground"
    /\ bgLooper' = [bgLooper EXCEPT ![session] = "quitting"]
    /\ ui' = "quitInference"
    /\ UNCHANGED <<screen, crash, reader, bg, frames, mCroppedBitmap, disconnected,
                   inference, listener>>

\* Variant: only the background looper is told to quit.
QuitForgotten ==
    /\ Alive
    /\ ui = "quitInference"
    /\ ui' = "joinBackground"
    /\ UNCHANGED <<screen, crash, reader, background, inference, listener>>

QuitInference ==
    /\ Alive
    /\ ui = "quitInference"
    /\ infLooper' = [infLooper EXCEPT ![session] = "quitting"]
    /\ ui' = "joinBackground"
    /\ UNCHANGED <<screen, crash, reader, background, tasks, inf, listener>>

\* Variant: the background thread is not joined.
LeaveBackground ==
    /\ Alive
    /\ ui = "joinBackground"
    /\ ui' = "joinInference"
    /\ UNCHANGED <<screen, crash, reader, background, inference, listener>>

JoinBackground ==
    /\ Alive
    /\ ui = "joinBackground"
    /\ bgLooper[session] = "quitting"
    /\ bg[session].at = "idle"
    /\ bgLooper' = [bgLooper EXCEPT ![session] = "dead"]
    /\ ui' = "joinInference"
    /\ UNCHANGED <<screen, crash, reader, bg, frames, mCroppedBitmap, disconnected,
                   inference, listener>>

\* quitSafely lets the tasks that are queued run before the thread ends.
JoinInference ==
    /\ Alive
    /\ ui = "joinInference"
    /\ infLooper[session] = "quitting"
    /\ inf[session].at = "idle"
    /\ tasks[session] = <<>>
    /\ infLooper' = [infLooper EXCEPT ![session] = "dead"]
    /\ ui' = "idle"
    /\ UNCHANGED <<screen, crash, reader, background, tasks, inf, listener>>

----------------------------------------------------------------------------
(* The thread of OnGetImageListener.initialize *)

\* The field inferenceHandler is read when the thread runs, not when it is made.
InitializeHandler ==
    /\ Alive
    /\ initThread = "started"
    /\ mInferenceHandler' = session
    /\ initThread' = "loading"
    /\ UNCHANGED <<screen, ui, crash, reader, background, inference, mFaceDet,
                   mIsComputing>>

\* new FaceDet loads the model, which takes long; the field is set behind it.
InitializeDetector ==
    /\ Alive
    /\ initThread = "loading"
    /\ mFaceDet' = "live"
    /\ initThread' = "done"
    /\ UNCHANGED <<screen, ui, crash, reader, background, inference,
                   mInferenceHandler, mIsComputing>>

----------------------------------------------------------------------------
(* The background looper: onImageAvailable and onDisconnected *)

BgRuns(s, place) ==
    /\ Alive
    /\ bgLooper[s] \in {"running", "quitting"}
    /\ bg[s].at = place

\* Variant: mIsComputing is not looked at.
AcquireAlways(s) ==
    /\ BgRuns(s, "idle")
    /\ reader = s
    /\ frames < MaxFrames
    /\ mIsComputing' = TRUE
    /\ frames' = frames + 1
    /\ bg' = [bg EXCEPT ![s] = [at |-> "converting", frame |-> frames + 1]]
    /\ UNCHANGED <<screen, ui, crash, reader, bgLooper, mCroppedBitmap, disconnected,
                   inference, initThread, mInferenceHandler, mFaceDet>>

\* An image, while none is computed: a closed reader throws and an image that
\* comes while mIsComputing is set is closed, both without a trace.
Acquire(s) ==
    /\ BgRuns(s, "idle")
    /\ reader = s
    /\ ~mIsComputing
    /\ frames < MaxFrames
    /\ mIsComputing' = TRUE
    /\ frames' = frames + 1
    /\ bg' = [bg EXCEPT ![s] = [at |-> "converting", frame |-> frames + 1]]
    /\ UNCHANGED <<screen, ui, crash, reader, bgLooper, mCroppedBitmap, disconnected,
                   inference, initThread, mInferenceHandler, mFaceDet>>

\* The planes are copied and converted; from here the bitmaps are written.
Convert(s) ==
    /\ BgRuns(s, "converting")
    /\ mCroppedBitmap' = Null
    /\ bg' = [bg EXCEPT ![s].at = "drawing"]
    /\ UNCHANGED <<screen, ui, crash, reader, bgLooper, frames, disconnected,
                   inference, listener>>

\* An exception in the try block, which the image of a closed reader throws: the
\* handler returns and mIsComputing stays set.
ConvertThrows(s) ==
    /\ BgRuns(s, "converting")
    /\ Faults \/ reader # s
    /\ bg' = [bg EXCEPT ![s] = Idle]
    /\ UNCHANGED <<screen, ui, crash, reader, bgLooper, frames, mCroppedBitmap,
                   disconnected, inference, listener>>

\* Variant: mIsComputing is reset as soon as the task is posted.
PostAndFree(s) ==
    /\ BgRuns(s, "drawing")
    /\ mInferenceHandler # Null
    /\ mCroppedBitmap' = bg[s].frame
    /\ bg' = [bg EXCEPT ![s] = Idle]
    /\ tasks' = IF infLooper[mInferenceHandler] = "running"
                  THEN [tasks EXCEPT ![mInferenceHandler] =
                          Append(@, [kind |-> "detect", frame |-> bg[s].frame])]
                  ELSE tasks
    /\ mIsComputing' = FALSE
    /\ UNCHANGED <<screen, ui, crash, reader, bgLooper, frames, disconnected,
                   infLooper, inf, initThread, mInferenceHandler, mFaceDet>>

\* Variant: the task is posted to the handler of the current session.
PostToCurrent(s) ==
    /\ BgRuns(s, "drawing")
    /\ mInferenceHandler # Null
    /\ mCroppedBitmap' = bg[s].frame
    /\ bg' = [bg EXCEPT ![s] = Idle]
    /\ tasks' = IF infLooper[session] = "running"
                  THEN [tasks EXCEPT ![session] =
                          Append(@, [kind |-> "detect", frame |-> bg[s].frame])]
                  ELSE tasks
    /\ UNCHANGED <<screen, ui, crash, reader, bgLooper, frames, disconnected,
                   infLooper, inf, listener>>

\* mCroppedBitmap is drawn and the task posted.  A looper that has quit takes no
\* task: post returns false, which nobody looks at.
Post(s) ==
    /\ BgRuns(s, "drawing")
    /\ mInferenceHandler # Null
    /\ mCroppedBitmap' = bg[s].frame
    /\ bg' = [bg EXCEPT ![s] = Idle]
    /\ tasks' = IF infLooper[mInferenceHandler] = "running"
                  THEN [tasks EXCEPT ![mInferenceHandler] =
                          Append(@, [kind |-> "detect", frame |-> bg[s].frame])]
                  ELSE tasks
    /\ UNCHANGED <<screen, ui, crash, reader, bgLooper, frames, disconnected,
                   infLooper, inf, listener>>

\* A frame is ready before initialize has run: mInferenceHandler is still null.
PostCrashes(s) ==
    /\ BgRuns(s, "drawing")
    /\ mInferenceHandler = Null
    /\ Die("noHandler")
    /\ UNCHANGED <<screen, ui, reader, background, inference, listener>>

\* onDisconnected or onError, up to deInitialize.
Disconnect(s) ==
    /\ Faults
    /\ BgRuns(s, "idle")
    /\ s \notin disconnected
    /\ disconnected' = disconnected \union {s}
    /\ bg' = [bg EXCEPT ![s].at = "disconnecting"]
    /\ UNCHANGED <<screen, ui, crash, reader, bgLooper, frames, mCroppedBitmap,
                   inference, listener>>

DisconnectReleases(s) ==
    /\ BgRuns(s, "disconnecting")
    /\ Release
    /\ bg' = [bg EXCEPT ![s] = Idle]
    /\ UNCHANGED <<screen, ui, crash, reader, bgLooper, frames, mCroppedBitmap,
                   disconnected, inference, initThread, mInferenceHandler, mIsComputing>>

----------------------------------------------------------------------------
(* The inference looper *)

\* Variant: a looper that is told to quit leaves its queue, as quit() would.
InfRunsUntilQuit(s, place) ==
    /\ Alive
    /\ infLooper[s] = "running"
    /\ inf[s].at = place

InfRuns(s, place) ==
    /\ Alive
    /\ infLooper[s] \in {"running", "quitting"}
    /\ inf[s].at = place

NextTask(s, kind) ==
    /\ InfRuns(s, "idle")
    /\ tasks[s] # <<>>
    /\ Head(tasks[s]).kind = kind

\* The task starts: detect enters the monitor, or, without a detector, is skipped.
StartTask(s) ==
    /\ NextTask(s, "detect")
    /\ mFaceDet # "released"
    /\ MonitorFree
    /\ tasks' = [tasks EXCEPT ![s] = Tail(@)]
    /\ inf' = [inf EXCEPT ![s] =
                 [at |-> IF mFaceDet = "live" THEN "detecting" ELSE "skipping",
                  frame |-> Head(tasks[s]).frame]]
    /\ UNCHANGED <<screen, ui, crash, reader, background, infLooper, listener>>

\* The shape model is not on the disk; or the detector was deleted, and
\* jniBitmapDetect calls det through the null pointer it finds.
TaskCrashes(s) ==
    /\ NextTask(s, "detect")
    /\ \/ Faults /\ Die("noModel")
       \/ mFaceDet = "released" /\ MonitorFree /\ Die("nullDetector")
    /\ UNCHANGED <<screen, ui, reader, background, inference, listener>>

\* detect returns, with a face or without.
Detected(s) ==
    /\ InfRuns(s, "detecting")
    /\ \E found \in BOOLEAN :
         inf' = [inf EXCEPT ![s].at = IF found THEN "delivering" ELSE "skipping"]
    /\ UNCHANGED <<screen, ui, crash, reader, background, infLooper, tasks, listener>>

\* onLandmarkChange posts the drawing to FaceActivity.inferenceHandler, which is
\* always the handler of the newest session; then the flag is reset.
Deliver(s) ==
    /\ InfRuns(s, "delivering")
    /\ tasks' = IF infLooper[session] = "running"
                  THEN [tasks EXCEPT ![session] =
                          Append(@, [kind |-> "draw", frame |-> inf[s].frame])]
                  ELSE tasks
    /\ mIsComputing' = FALSE
    /\ inf' = [inf EXCEPT ![s] = Idle]
    /\ UNCHANGED <<screen, ui, crash, reader, background, infLooper, initThread,
                   mInferenceHandler, mFaceDet>>

\* Variant: without a face the task returns at once.
SkipKeepsFlag(s) ==
    /\ InfRuns(s, "skipping")
    /\ inf' = [inf EXCEPT ![s] = Idle]
    /\ UNCHANGED <<screen, ui, crash, reader, background, infLooper, tasks, listener>>

\* No detector or no face: only the flag is reset.
Skip(s) ==
    /\ InfRuns(s, "skipping")
    /\ mIsComputing' = FALSE
    /\ inf' = [inf EXCEPT ![s] = Idle]
    /\ UNCHANGED <<screen, ui, crash, reader, background, infLooper, tasks, initThread,
                   mInferenceHandler, mFaceDet>>

\* drawLandMark: the bitmap goes to the UI thread.
Draw(s) ==
    /\ NextTask(s, "draw")
    /\ tasks' = [tasks EXCEPT ![s] = Tail(@)]
    /\ UNCHANGED <<screen, ui, crash, reader, background, infLooper, inf, listener>>

----------------------------------------------------------------------------

\* The next activity, or the next process, has a listener of its own.
NewActivity ==
    /\ ~Alive \/ (ui = "idle" /\ act = "paused")
    /\ act' = "paused"
    /\ ui' = "idle"
    /\ crash' = "none"
    /\ session' = 0
    /\ reader' = Null
    /\ frames' = 0
    /\ bgLooper' = [s \in Session |-> "null"]
    /\ bg' = [s \in Session |-> Idle]
    /\ infLooper' = [s \in Session |-> "null"]
    /\ tasks' = [s \in Session |-> <<>>]
    /\ inf' = [s \in Session |-> Idle]
    /\ initThread' = "none"
    /\ mInferenceHandler' = Null
    /\ mFaceDet' = "null"
    /\ mIsComputing' = FALSE
    /\ mCroppedBitmap' = Null
    /\ disconnected' = {}

PauseStep ==
    \/ CloseReader \/ DeInitialize \/ QuitBackground \/ QuitInference
    \/ JoinBackground \/ JoinInference

InitializeStep == InitializeHandler \/ InitializeDetector

\* The rest of a callback the background thread has entered.
BackgroundStep(s) ==
    \/ Convert(s) \/ ConvertThrows(s) \/ Post(s) \/ PostCrashes(s)
    \/ DisconnectReleases(s)

InferenceStep(s) ==
    \/ StartTask(s) \/ TaskCrashes(s) \/ Detected(s) \/ Deliver(s) \/ Skip(s) \/ Draw(s)

Next ==
    \/ Resume \/ CreateReader \/ Pause \/ PauseStep \/ InitializeStep
    \/ \E s \in Session : \/ Acquire(s) \/ Disconnect(s)
                          \/ BackgroundStep(s) \/ InferenceStep(s)
    \/ NewActivity

Spec == Init /\ [][Next]_vars

\* Each thread goes on with what it has entered, and each inference looper with
\* its queue.  Neither the camera nor the user is made to act.
PauseGoesOn == WF_vars(PauseStep)

InitializeGoesOn == WF_vars(InitializeStep)

BackgroundGoesOn(s) == WF_vars(BackgroundStep(s))

InferenceGoesOn(s) == WF_vars(InferenceStep(s))

Fairness ==
    /\ PauseGoesOn
    /\ InitializeGoesOn
    /\ \A s \in Session : BackgroundGoesOn(s) /\ InferenceGoesOn(s)

FairSpec == Spec /\ Fairness

----------------------------------------------------------------------------
(* Properties *)

\* Every variable has its type.
TypeOK ==
    /\ act \in {"paused", "resumed"}
    /\ ui \in UI
    /\ crash \in Crash
    /\ session \in Session \union {0}
    /\ reader \in Session \union {Null}
    /\ frames \in 0..MaxFrames
    /\ bgLooper \in [Session -> Looper]
    /\ bg \in [Session -> Thread(BgAt)]
    /\ infLooper \in [Session -> Looper]
    /\ tasks \in [Session -> Seq(Task)]
    /\ inf \in [Session -> Thread(InfAt)]
    /\ initThread \in {"none", "started", "loading", "done"}
    /\ mInferenceHandler \in Session \union {Null}
    /\ mFaceDet \in {"null", "live", "released"}
    /\ mIsComputing \in BOOLEAN
    /\ mCroppedBitmap \in Frame \union {Null}
    /\ disconnected \in SUBSET Session

Writing(s) == bg[s].at \in {"converting", "drawing"}
Reading(s) == inf[s].at # "idle"
DetectTask(s, i) == i \in DOMAIN tasks[s] /\ tasks[s][i].kind = "detect"

\* The threads and the tasks that have mIsComputing to give back.
Writers == {s \in Session : Writing(s)}
Readers == {s \in Session : Reading(s)}
Waiting == UNION {{<<s, i>> : i \in {j \in DOMAIN tasks[s] : DetectTask(s, j)}} :
                    s \in Session}

\* "No mutex needed as this method is not reentrant" (OnGetImageListener:116): at
\* most one frame is between its acquisition and the end of its task, over all
\* threads of all sessions, and while it is there mIsComputing is set.
OneFrameInThePipeline ==
    /\ Cardinality(Writers) + Cardinality(Waiting) + Cardinality(Readers) <= 1
    /\ Writers # {} \/ Waiting # {} \/ Readers # {} => mIsComputing

\* The bitmap a task is posted with is the one it reads: until detect has
\* returned, no later frame is drawn into it.
FrameIntact ==
    /\ \A s \in Session : \A i \in DOMAIN tasks[s] :
         DetectTask(s, i) => tasks[s][i].frame = mCroppedBitmap
    /\ \A s \in Session : Reading(s) => inf[s].frame = mCroppedBitmap

\* deInitialize never deletes the detector under a detection.
DetectorOutlivesDetection ==
    \A s \in Session : inf[s].at = "detecting" => mFaceDet = "live"

\* The deleted detector can be called only by a task that onPause or a lost
\* camera overtook, never in a session that goes on undisturbed.
DeletedDetectorWasOvertaken ==
    crash = "nullDetector" => act = "paused" \/ session \in disconnected

\* When onPause has returned, no thread of the pipeline has anything left to do.
PausedIsQuiet ==
    Alive /\ ui = "idle" /\ act = "paused" =>
        \A s \in Session : bg[s].at = "idle" /\ inf[s].at = "idle" /\ tasks[s] = <<>>

Holder ==
    CASE Writers # {} -> "writer"
      [] Waiting # {} -> "queued"
      [] Readers # {} -> "reader"
      [] OTHER -> IF mIsComputing THEN "stuck" ELSE "free"

Content == IF Holder \in {"queued", "reader"} THEN mCroppedBitmap ELSE Null

\* In the session whose looper initialize was given, early in the first one or late in a
\* later one, mIsComputing is lost to nothing but an exception in the try block: every
\* frame that gets to the post finds the looper running and gives the flag back, face or
\* no face, detector or none.  In a session after that the post goes to a looper that has
\* quit, and the first frame takes the flag with it.
DetectionGoesOn ==
    [][act = "resumed" /\ session = mInferenceHandler /\ Holder # "stuck" =>
         \/ Holder' # "stuck"
         \/ \E s \in Session : bg[s].at = "converting" /\ bg'[s].at = "idle"]_vars

Slot == INSTANCE FrameSlot WITH owner <- Holder, content <- Content

\* The buffer behind mIsComputing behaves like the slot of FrameSlot.
ImplementsSlot == Slot!SlotSpec

\* Where onPause stands still: at the monitor of the listener, and in the two joins.
PauseWaits ==
    \/ ui = "deInitialize" /\ ~MonitorFree
    \/ ui = "joinBackground" /\ bg[session].at # "idle"
    \/ ui = "joinInference" /\ (inf[session].at # "idle" \/ tasks[session] # <<>>)

\* When each thread has a step to take.
PauseCanStep ==
    /\ Alive
    /\ \/ ui \in {"closeReader", "quitBackground", "quitInference"}
       \/ ui = "deInitialize" /\ MonitorFree
       \/ ui = "joinBackground" /\ bgLooper[session] = "quitting" /\ bg[session].at = "idle"
       \/ /\ ui = "joinInference"
          /\ infLooper[session] = "quitting"
          /\ inf[session].at = "idle" /\ tasks[session] = <<>>

BackgroundCanStep(s) ==
    /\ BgRuns(s, bg[s].at)
    /\ Writing(s) \/ (bg[s].at = "disconnecting" /\ MonitorFree)

InferenceCanStep(s) ==
    /\ InfRuns(s, inf[s].at)
    /\ \/ Reading(s)
       \/ /\ tasks[s] # <<>>
          /\ Head(tasks[s]).kind = "draw" \/ Faults \/ MonitorFree

\* Fairness is about these states and no others.
StepsFollowGuards ==
    /\ PauseCanStep <=> ENABLED <<PauseStep>>_vars
    /\ \A s \in Session :
         /\ BackgroundCanStep(s) <=> ENABLED <<BackgroundStep(s)>>_vars
         /\ InferenceCanStep(s) <=> ENABLED <<InferenceStep(s)>>_vars

\* Whoever does not wait for the monitor or in a join goes on: a looper that is joined
\* was told to quit before, the thread of a callback that was entered and of a task
\* that was queued is still there, and a task never finds the monitor taken.
ThreadsHaveAStep ==
    Alive =>
      /\ ui # "idle" /\ ~PauseWaits => PauseCanStep
      /\ \A s \in Session :
           /\ Writing(s) \/ (bg[s].at = "disconnecting" /\ MonitorFree)
                => BackgroundCanStep(s)
           /\ Reading(s) \/ tasks[s] # <<>> => InferenceCanStep(s)

\* The threads of the pipeline never wait for each other in a circle, and the steps
\* fairness speaks of can be taken.
NobodyIsStuck == StepsFollowGuards /\ ThreadsHaveAStep

\* onPause comes to its end whatever the loopers were doing.
PauseEnds == ui = "closeReader" ~> ui = "idle" \/ ~Alive

\* A frame that was taken leaves the pipeline: the task runs, or the flag stays
\* set with nobody left to reset it.
FrameLeaves == Holder \in {"writer", "queued", "reader"} ~> Holder \in {"free", "stuck"} \/ ~Alive

=============================================================================
