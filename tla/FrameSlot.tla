------------------------------ MODULE FrameSlot ------------------------------
(***************************************************************************)
(* What the mIsComputing flag of OnGetImageListener promises: one frame    *)
(* buffer that passes from the camera thread, which fills it, to the       *)
(* inference thread, which reads it, and back.  A buffer that was handed   *)
(* over keeps its frame until the reader has finished.  The camera thread  *)
(* may lose the buffer for good; nobody else can.  A new session does not  *)
(* touch the buffer: only a new listener, with a buffer of its own, starts *)
(* over.                                                                   *)
(***************************************************************************)
EXTENDS Naturals

CONSTANT Frame      \* the frames the camera can deliver

VARIABLES
    owner,          \* who may touch the buffer
    content,        \* the frame a handed-over buffer holds, 0 for none
    session         \* the sessions the listener has lived through

slot == <<owner, content, session>>

None == 0

SlotInit == owner = "free" /\ content = None /\ session = 0

Open ==
    /\ session' = session + 1
    /\ UNCHANGED <<owner, content>>

Take ==
    /\ owner = "free"
    /\ owner' = "writer"
    /\ UNCHANGED <<content, session>>

HandOver ==
    /\ owner = "writer"
    /\ owner' = "queued"
    /\ content' \in Frame
    /\ UNCHANGED session

Strand ==
    /\ owner = "writer"
    /\ owner' = "stuck"
    /\ UNCHANGED <<content, session>>

StartReading ==
    /\ owner = "queued"
    /\ owner' = "reader"
    /\ UNCHANGED <<content, session>>

FinishReading ==
    /\ owner = "reader"
    /\ owner' = "free"
    /\ content' = None
    /\ UNCHANGED session

\* A new listener has a buffer of its own.
Renew ==
    /\ owner' = "free"
    /\ content' = None
    /\ session' = 0

SlotNext == Open \/ Take \/ HandOver \/ Strand \/ StartReading \/ FinishReading \/ Renew

SlotSpec == SlotInit /\ [][SlotNext]_slot

=============================================================================
