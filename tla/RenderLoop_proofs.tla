------------------------- MODULE RenderLoop_proofs -------------------------
(***************************************************************************)
(* Theorems about RenderLoop, for any number of surfaces and filters and   *)
(* any sizes of the view.  IInv is the inductive invariant: the parts say  *)
(* what is known of a thread at each place of run while it has not been    *)
(* interrupted (it is then the thread of the surface the view has), and    *)
(* what is known of all of them as long as no two threads overlap.         *)
(* The two liveness theorems follow a thread from place to place of run,   *)
(* and are for the 21 filters of the code, or fewer.                       *)
(***************************************************************************)
EXTENDS RenderLoop, TLAPS

Begun == Surface \ {t \in Surface : at[t] = "new"}
Filled == {"select", "set", "lookup", "finish", "ended"} \union Loop
Starting == {"startHeight", "start"}

\* Surfaces beyond the newest are untouched, and so is the newest until its thread
\* is started; what is released or bound belongs to a started thread.
Fresh ==
    /\ \A t \in Surface : t > made => at[t] = "new" /\ window[t] = Null
    /\ ui \in Starting => surface /\ made \in Surface /\ at[made] = "new"
    /\ surface => made \in Surface
    /\ ui \in {"releaseProgram", "releaseBuffer"} => ~surface
    /\ \A t \in Surface : at[t] # "new" => cameraSurfaceTexture # Null
    /\ cameraSurfaceTexture # Null => at[cameraSurfaceTexture] # "new"
    /\ \A k \in Surface : k \in released \/ context[k] # Null => at[k] # "new"
    /\ \A t \in interrupted : at[t] # "new"

\* What a thread has read, at the places where it keeps it.
LocalRead ==
    \A t \in Surface :
      /\ at[t] \in {"fill", "set", "lookup"} => local[t] \in Id
      /\ at[t] \in {"storeWidth", "storeHeight"} => local[t] \in Extent

\* Only a thread that was interrupted meets the buffer gone, or no window.
BufferHeld ==
    \A t \in Surface : at[t] = "bind" /\ t \notin interrupted => CAMERA_RENDER_BUF.of # Null

\* Without overlap the thread of the newest surface is the only one, and has its
\* texture, and finds its window free.
Alone ==
    overlapped = {} =>
      /\ \A t \in Surface : IsAlive(t) =>
           /\ t = made
           /\ cameraSurfaceTexture = t /\ t \notin released /\ context[t] \in {Null, t}
      /\ \A t \in Surface : t = made /\ at[t] \in {"new", "initGL"} => window[t] = Null
      /\ crash.why \notin {"texture", "window"}

\* A thread that was not interrupted has a context behind initGL, and a program
\* behind its first filter.
Equipped ==
    /\ PROGRAM.of = Null => PROGRAM = NoProgram
    /\ \A t \in Surface : IsAlive(t) /\ t \notin interrupted =>
         /\ at[t] = "fill" \/ at[t] \in Filled => HasContext(t)
         /\ (at[t] = "fill" /\ local[t] > 1) \/ at[t] \in Filled => PROGRAM.of # Null

\* The statics are clean or late when a thread starts, and no other thread touches
\* them then, unless it overlaps.
Statics ==
    /\ ui # "releaseProgram" /\ (surface => ui \in Starting) => PROGRAM.of = Null \/ PROGRAM.late
    /\ ui \notin {"releaseProgram", "releaseBuffer"} /\ (surface => ui \in Starting)
         => CAMERA_RENDER_BUF.of = Null \/ CAMERA_RENDER_BUF.late
    /\ overlapped = {} => \A t \in Surface : IsAlive(t) /\ t \notin interrupted =>
         /\ PROGRAM.of \in {Null, t} \/ PROGRAM.late
         /\ CAMERA_RENDER_BUF.of \in {Null, t} \/ CAMERA_RENDER_BUF.late

\* The map of the filters is filled up to where its threads are, and by the one
\* thread there is without overlap.
MapFilled ==
    \A t \in Surface : \A id \in Id :
      (at[t] = "fill" /\ id < local[t]) \/ at[t] \in Filled =>
        /\ cameraFilterMap[id] # Null
        /\ overlapped = {} /\ IsAlive(t) => cameraFilterMap[id] = t

\* A choice that was not made during a set-up is one of a filter that is there, and
\* nobody chooses between the two stores of the thread.
ChoiceFilled ==
    ~raced =>
      /\ crash.why # "noFilter"
      /\ \A t \in Surface : at[t] \in Loop => selectedFilter # NoFilter
      /\ overlapped = {} => \A t \in Surface : at[t] = "lookup" => selectedFilterId = local[t]
      /\ ui = "pickSet" => \A t \in Surface :
           /\ at[t] \notin SetUp
           /\ at[t] # "new" => pick.of # Null
           /\ at[t] \in Loop /\ overlapped = {} => pick = [id |-> selectedFilterId, of |-> t]

IInv ==
    /\ TypeOK /\ Fresh /\ LocalRead /\ OneRenderer /\ BufferHeld /\ LossNeedsInterrupt
    /\ Alone /\ Equipped /\ Statics /\ MapFilled /\ ChoiceFilled /\ SelectionHolds

LEMMA InitIInv == Init => IInv
<1> SUFFICES ASSUME Init
             PROVE  IInv
  OBVIOUS
<1>1. TypeOK
  <2>1. at \in [Surface -> SetUp \union Loop \union {"new", "finish", "ended"}]
    BY DEF Init
  <2>2. local \in [Surface -> Id \union Extent] /\ gwidth \in Extent /\ gheight \in Extent
    BY DEF Init, Extent
  <2>3. window \in [Surface -> Surface \union {Null}] /\ context \in [Surface -> Surface \union {Null}]
    BY DEF Init
  <2>4. cameraFilterMap \in [Id -> Surface \union {Null}]
    BY DEF Init
  <2>5. selectedFilterId \in Id
    BY FiltersAssumption DEF Init, Id
  <2>6. /\ {selectedFilter, pick} \subseteq [id : Id \union {Null}, of : Surface \union {Null}]
        /\ PROGRAM \in [of : Surface \union {Null}, late : BOOLEAN]
    BY DEF Init, NoFilter, NoProgram, Null
  <2>7. CAMERA_RENDER_BUF \in [of : Surface \union {Null}, width : Extent, height : Extent,
                               late : BOOLEAN]
    BY DEF Init, NoBuffer, Null, Extent
  <2> QED
    BY <2>1, <2>2, <2>3, <2>4, <2>5, <2>6, <2>7 DEF Init, TypeOK, UI, Crash
<1>2. Fresh /\ LocalRead /\ OneRenderer /\ BufferHeld /\ LossNeedsInterrupt
  BY DEF Init, Fresh, LocalRead, OneRenderer, BufferHeld, LossNeedsInterrupt, IsAlive, SetUp,
     Loop, Taking, Starting, Surface, Null
<1>3. Alone /\ Equipped /\ Statics
  BY DEF Init, Alone, Equipped, Statics, IsAlive, SetUp, Loop, Taking, Filled, Starting, NoProgram, NoBuffer, Null
<1>4. MapFilled /\ ChoiceFilled /\ SelectionHolds
  BY DEF Init, MapFilled, ChoiceFilled, SelectionHolds, SetUp, Loop, Taking, Filled
<1> QED
  BY <1>1, <1>2, <1>3, <1>4 DEF IInv

----------------------------------------------------------------------------
(* The steps *)

LEMMA SurfaceTextureAvailableStep ==
    ASSUME IInv, SurfaceTextureAvailable
    PROVE  IInv'
<1>1. LocalRead'
  BY DEF IInv, SurfaceTextureAvailable, size, UiMoves, Starting, Runs, textures, filters, statics,
     IsAlive, LocalRead
<1>2. TypeOK'
  <2>1. made' \in Surface
    BY MaxSurfacesAssumption DEF SurfaceTextureAvailable, size, IInv, TypeOK, Surface
  <2>2. gwidth' \in Extent /\ crossed' \in BOOLEAN /\ gheight' = gheight
    BY DEF SurfaceTextureAvailable, size, StoreWidth, Extent
  <2>3. interrupted' \in SUBSET Surface /\ overlapped' \in SUBSET Surface
    BY <2>1 DEF SurfaceTextureAvailable, size, IInv, TypeOK
  <2> QED
    BY <2>1, <2>2, <2>3 DEF IInv, SurfaceTextureAvailable, size, UiMoves, Starting, textures, filters,
       statics, TypeOK, UI, Storing
<1>3. Fresh'
  BY MaxSurfacesAssumption DEF IInv, SurfaceTextureAvailable, size, UiMoves, Starting, Runs, textures,
     filters, statics, IsAlive, Fresh, TypeOK, Surface, Null, SetUp, Loop, Taking
<1>4. OneRenderer'
  BY DEF IInv, SurfaceTextureAvailable, size, UiMoves, Starting, Runs, textures, filters, statics,
     IsAlive, OneRenderer, SetUp, Loop, Taking, TypeOK, Surface, Fresh
<1>5. BufferHeld'
  BY DEF IInv, SurfaceTextureAvailable, size, UiMoves, Starting, Runs, textures, filters, statics,
     IsAlive, BufferHeld, TypeOK, OneRenderer, SetUp, Loop, Taking
<1>6. LossNeedsInterrupt'
  BY DEF IInv, SurfaceTextureAvailable, size, UiMoves, Starting, Runs, textures, filters, statics,
     IsAlive, LossNeedsInterrupt, TypeOK, OneRenderer, BufferHeld, SetUp, Loop, Taking
<1>7. Alone'
  BY DEF IInv, SurfaceTextureAvailable, size, UiMoves, Starting, Runs, textures, filters, statics,
     IsAlive, Alone, SetUp, Loop, Taking, TypeOK, Surface, Null, Fresh, OneRenderer
<1>8. Equipped'
  BY DEF IInv, SurfaceTextureAvailable, size, UiMoves, Starting, Runs, textures, filters, statics,
     IsAlive, Equipped, Filled, Loop, Taking, HasContext, TypeOK, NoProgram, Null, LocalRead,
     OneRenderer, Fresh, SetUp
<1>9. Statics'
  BY DEF IInv, SurfaceTextureAvailable, size, UiMoves, Starting, Runs, textures, filters, statics,
     IsAlive, Statics, SetUp, Loop, Taking, TypeOK, Null, OneRenderer, Fresh
<1>10. MapFilled'
  BY DEF IInv, SurfaceTextureAvailable, size, UiMoves, Starting, Runs, textures, filters, statics,
     IsAlive, MapFilled, Filled, SetUp, Loop, Taking, TypeOK, Null, Alone, Fresh, LocalRead
<1>11. ChoiceFilled'
  BY DEF IInv, SurfaceTextureAvailable, size, UiMoves, Starting, Runs, textures, filters, statics,
     IsAlive, ChoiceFilled, SetUp, Loop, Taking, TypeOK, NoFilter, Null, MapFilled, Filled,
     Alone
<1>12. SelectionHolds'
  BY DEF IInv, SurfaceTextureAvailable, size, UiMoves, Starting, Runs, textures, filters, statics,
     IsAlive, SelectionHolds, Loop, Taking, TypeOK, NoFilter, Null, ChoiceFilled
<1> QED
  BY <1>1, <1>2, <1>3, <1>4, <1>5, <1>6, <1>7, <1>8, <1>9, <1>10, <1>11, <1>12 DEF
     IInv

LEMMA StartThreadStep ==
    ASSUME IInv, StartThread
    PROVE  IInv'
<1>1. LossNeedsInterrupt'
  BY DEF IInv, StartThread, size, UiMoves, Starting, Runs, view, filters, statics, LossNeedsInterrupt
<1>2. TypeOK'
  BY DEF IInv, StartThread, size, UiMoves, Starting, Runs, view, filters, statics, TypeOK, Surface,
     Null, UI, SetUp, Fresh
<1>3. Fresh'
  BY DEF IInv, StartThread, size, UiMoves, Starting, Runs, view, filters, statics, Fresh, TypeOK,
     Surface, Null
<1>4. LocalRead'
  BY DEF IInv, StartThread, size, UiMoves, Starting, Runs, view, filters, statics, LocalRead, TypeOK
<1>5. OneRenderer'
  BY DEF IInv, StartThread, size, UiMoves, Starting, Runs, view, filters, statics, OneRenderer,
     IsAlive, SetUp, Loop, Taking, TypeOK, Surface, Fresh
<1>6. BufferHeld'
  BY DEF IInv, StartThread, size, UiMoves, Starting, Runs, view, filters, statics, BufferHeld, TypeOK,
     OneRenderer, IsAlive, SetUp, Loop, Taking
<1>7. Alone'
  BY DEF IInv, StartThread, size, UiMoves, Starting, Runs, view, filters, statics, Alone, IsAlive,
     SetUp, Loop, Taking, TypeOK, Surface, Null, Fresh, OneRenderer
<1>8. Equipped'
  BY DEF IInv, StartThread, size, UiMoves, Starting, Runs, view, filters, statics, Equipped, Filled,
     Loop, Taking, HasContext, TypeOK, NoProgram, Null, LocalRead, OneRenderer, Fresh,
     IsAlive, SetUp
<1>9. Statics'
  BY DEF IInv, StartThread, size, UiMoves, Starting, Runs, view, filters, statics, Statics, IsAlive,
     SetUp, Loop, Taking, TypeOK, Null, OneRenderer, Fresh
<1>10. MapFilled'
  BY DEF IInv, StartThread, size, UiMoves, Starting, Runs, view, filters, statics, MapFilled, Filled,
     IsAlive, SetUp, Loop, Taking, TypeOK, Null, Alone, Fresh, LocalRead
<1>11. ChoiceFilled'
  BY DEF IInv, StartThread, size, UiMoves, Starting, Runs, view, filters, statics, ChoiceFilled,
     SetUp, Loop, Taking, TypeOK, NoFilter, Null, MapFilled, Filled, Alone, IsAlive
<1>12. SelectionHolds'
  BY DEF IInv, StartThread, size, UiMoves, Starting, Runs, view, filters, statics, SelectionHolds,
     Loop, Taking, TypeOK, NoFilter, Null, ChoiceFilled
<1> QED
  BY <1>1, <1>2, <1>3, <1>4, <1>5, <1>6, <1>7, <1>8, <1>9, <1>10, <1>11, <1>12 DEF
     IInv

\* The UI thread stores a part of a size, and goes on to where the other part is stored,
\* or back, or to the start of the thread.
LEMMA SizeStored ==
    ASSUME IInv, ui \in {"idle", "startHeight", "changeHeight"},
           ui' \in {"idle", "start", "changeHeight"}, ui \in Starting <=> ui' \in Starting,
           UNCHANGED <<crash, view, window, textures, threads, filters, statics>>,
           gwidth' \in Extent, gheight' \in Extent, crossed' \in BOOLEAN
    PROVE  IInv'
<1> USE DEF IInv, view, textures, threads, filters, statics
<1>1. LocalRead' /\ OneRenderer' /\ BufferHeld' /\ LossNeedsInterrupt' /\ Alone' /\ Equipped'
      /\ MapFilled'
  BY DEF LocalRead, OneRenderer, IsAlive, BufferHeld, LossNeedsInterrupt, Alone, Equipped,
     HasContext, MapFilled
<1>2. TypeOK'
  BY DEF TypeOK, UI, Storing
<1>3. Fresh'
  BY DEF Fresh, Starting
<1>4. Statics'
  BY DEF Statics, IsAlive, Starting
<1>5. ChoiceFilled' /\ SelectionHolds'
  BY DEF ChoiceFilled, SelectionHolds
<1> QED
  BY <1>1, <1>2, <1>3, <1>4, <1>5

LEMMA SurfaceTextureSizeChangedStep ==
    ASSUME IInv, SurfaceTextureSizeChanged
    PROVE  IInv'
<1>1. gwidth' \in Extent /\ gheight' \in Extent /\ crossed' \in BOOLEAN
  BY DEF SurfaceTextureSizeChanged, StoreWidth, Extent, IInv, TypeOK
<1> QED
  BY <1>1, SizeStored DEF SurfaceTextureSizeChanged, UiMoves, Starting

LEMMA StoreHeightStep ==
    ASSUME IInv, StoreHeight
    PROVE  IInv'
<1>1. gwidth' \in Extent /\ gheight' \in Extent /\ crossed' \in BOOLEAN
  BY DEF StoreHeight, Extent, IInv, TypeOK
<1> QED
  BY <1>1, SizeStored DEF StoreHeight, UiMoves, Starting

LEMMA SurfaceTextureDestroyedStep ==
    ASSUME IInv, SurfaceTextureDestroyed
    PROVE  IInv'
<1>1. LocalRead' /\ Alone' /\ MapFilled'
  BY DEF IInv, SurfaceTextureDestroyed, size, UiMoves, Starting, Runs, textures, filters, statics,
     IsAlive, LocalRead, Alone, SetUp, Loop, Taking, MapFilled, Filled
<1>2. TypeOK'
  <2>1. interrupted' \in SUBSET Surface
    BY DEF SurfaceTextureDestroyed, size, IInv, TypeOK, Fresh
  <2>2. ui' \in UI /\ surface' \in BOOLEAN
    BY DEF SurfaceTextureDestroyed, size, UiMoves, Starting, UI, Storing
  <2>3. /\ UNCHANGED <<crash, made, overlapped, window, gwidth, gheight, crossed, at, local, monitor>>
        /\ UNCHANGED <<cameraSurfaceTexture, context, released>>
    BY DEF SurfaceTextureDestroyed, size, textures, size
  <2>4. /\ UNCHANGED <<cameraFilterMap, selectedFilterId, selectedFilter, pick, raced>>
        /\ UNCHANGED <<PROGRAM, CAMERA_RENDER_BUF>>
    BY DEF SurfaceTextureDestroyed, size, filters, statics
  <2> QED
    BY <2>1, <2>2, <2>3, <2>4 DEF IInv, TypeOK
<1>3. Fresh'
  BY DEF IInv, SurfaceTextureDestroyed, size, UiMoves, Starting, Runs, textures, filters, statics,
     IsAlive, Fresh, TypeOK, Surface, Null, SetUp, Loop, Taking
<1>4. OneRenderer'
  BY DEF IInv, SurfaceTextureDestroyed, size, UiMoves, Starting, Runs, textures, filters, statics,
     IsAlive, OneRenderer, SetUp, Loop, Taking, TypeOK, Surface, Fresh
<1>5. BufferHeld'
  BY DEF IInv, SurfaceTextureDestroyed, size, UiMoves, Starting, Runs, textures, filters, statics,
     IsAlive, BufferHeld, TypeOK, OneRenderer, SetUp, Loop, Taking
<1>6. LossNeedsInterrupt'
  BY DEF IInv, SurfaceTextureDestroyed, size, UiMoves, Starting, Runs, textures, filters, statics,
     IsAlive, LossNeedsInterrupt, TypeOK, OneRenderer, BufferHeld, SetUp, Loop, Taking
<1>7. Equipped'
  BY DEF IInv, SurfaceTextureDestroyed, size, UiMoves, Starting, Runs, textures, filters, statics,
     IsAlive, Equipped, Filled, Loop, Taking, HasContext, TypeOK, NoProgram, Null, LocalRead,
     OneRenderer, Fresh, SetUp
<1>8. Statics'
  BY DEF IInv, SurfaceTextureDestroyed, size, UiMoves, Starting, Runs, textures, filters, statics,
     IsAlive, Statics, SetUp, Loop, Taking, TypeOK, Null, OneRenderer, Fresh
<1>9. ChoiceFilled'
  BY DEF IInv, SurfaceTextureDestroyed, size, UiMoves, Starting, Runs, textures, filters, statics,
     IsAlive, ChoiceFilled, SetUp, Loop, Taking, TypeOK, NoFilter, Null, MapFilled, Filled,
     Alone
<1>10. SelectionHolds'
  BY DEF IInv, SurfaceTextureDestroyed, size, UiMoves, Starting, Runs, textures, filters, statics,
     IsAlive, SelectionHolds, Loop, Taking, TypeOK, NoFilter, Null, ChoiceFilled
<1> QED
  BY <1>1, <1>2, <1>3, <1>4, <1>5, <1>6, <1>7, <1>8, <1>9, <1>10 DEF IInv

LEMMA ReleaseProgramStep ==
    ASSUME IInv, ReleaseProgram
    PROVE  IInv'
<1>1. LocalRead' /\ OneRenderer' /\ BufferHeld' /\ LossNeedsInterrupt' /\ Alone' /\
   MapFilled'
  BY DEF IInv, ReleaseProgram, size, UiMoves, Starting, Runs, view, textures, threads, filters,
     NoProgram, LocalRead, OneRenderer, IsAlive, SetUp, Loop, Taking, BufferHeld,
     LossNeedsInterrupt, Alone, MapFilled, Filled
<1>2. TypeOK'
  BY DEF IInv, ReleaseProgram, size, UiMoves, Starting, Runs, view, textures, threads, filters,
     NoProgram, TypeOK, Null, UI
<1>3. Fresh'
  BY DEF IInv, ReleaseProgram, size, UiMoves, Starting, Runs, view, textures, threads, filters,
     NoProgram, Fresh, TypeOK, Surface, Null
<1>4. Equipped'
  BY DEF IInv, ReleaseProgram, size, UiMoves, Starting, Runs, view, textures, threads, filters,
     NoProgram, Equipped, Filled, Loop, Taking, HasContext, TypeOK, Null, LocalRead,
     OneRenderer, Fresh, IsAlive, SetUp
<1>5. Statics'
  BY DEF IInv, ReleaseProgram, size, UiMoves, Starting, Runs, view, textures, threads, filters,
     NoProgram, Statics, IsAlive, SetUp, Loop, Taking, TypeOK, Null, OneRenderer, Fresh
<1>6. ChoiceFilled'
  BY DEF IInv, ReleaseProgram, size, UiMoves, Starting, Runs, view, textures, threads, filters,
     NoProgram, ChoiceFilled, SetUp, Loop, Taking, TypeOK, NoFilter, Null, MapFilled, Filled,
     Alone, IsAlive
<1>7. SelectionHolds'
  BY DEF IInv, ReleaseProgram, size, UiMoves, Starting, Runs, view, textures, threads, filters,
     NoProgram, SelectionHolds, Loop, Taking, TypeOK, NoFilter, Null, ChoiceFilled
<1> QED
  BY <1>1, <1>2, <1>3, <1>4, <1>5, <1>6, <1>7 DEF IInv

LEMMA ReleaseBufferStep ==
    ASSUME IInv, ReleaseBuffer
    PROVE  IInv'
<1>1. LocalRead' /\ OneRenderer' /\ LossNeedsInterrupt' /\ Alone' /\ Equipped' /\
   MapFilled'
  BY DEF IInv, ReleaseBuffer, size, UiMoves, Starting, Runs, view, textures, threads, filters,
     NoBuffer, LocalRead, OneRenderer, IsAlive, SetUp, Loop, Taking, LossNeedsInterrupt,
     Alone, Equipped, Filled, HasContext, MapFilled
<1>2. TypeOK'
  BY DEF IInv, ReleaseBuffer, size, UiMoves, Starting, Runs, view, textures, threads, filters,
     NoBuffer, TypeOK, Null, UI, Extent
<1>3. Fresh'
  BY DEF IInv, ReleaseBuffer, size, UiMoves, Starting, Runs, view, textures, threads, filters,
     NoBuffer, Fresh, TypeOK, Surface, Null
<1>4. BufferHeld'
  BY DEF IInv, ReleaseBuffer, size, UiMoves, Starting, Runs, view, textures, threads, filters,
     NoBuffer, BufferHeld, TypeOK, OneRenderer, IsAlive, SetUp, Loop, Taking, Fresh
<1>5. Statics'
  BY DEF IInv, ReleaseBuffer, size, UiMoves, Starting, Runs, view, textures, threads, filters,
     NoBuffer, Statics, IsAlive, SetUp, Loop, Taking, TypeOK, Null, OneRenderer, Fresh
<1>6. ChoiceFilled'
  BY DEF IInv, ReleaseBuffer, size, UiMoves, Starting, Runs, view, textures, threads, filters,
     NoBuffer, ChoiceFilled, SetUp, Loop, Taking, TypeOK, NoFilter, Null, MapFilled, Filled,
     Alone, IsAlive
<1>7. SelectionHolds'
  BY DEF IInv, ReleaseBuffer, size, UiMoves, Starting, Runs, view, textures, threads, filters,
     NoBuffer, SelectionHolds, Loop, Taking, TypeOK, NoFilter, Null, ChoiceFilled
<1> QED
  BY <1>1, <1>2, <1>3, <1>4, <1>5, <1>6, <1>7 DEF IInv

LEMMA PickStep ==
    ASSUME IInv, Pick
    PROVE  IInv'
<1>1. LocalRead' /\ OneRenderer' /\ BufferHeld' /\ LossNeedsInterrupt' /\ Alone' /\
   Equipped' /\ MapFilled'
  BY DEF IInv, Pick, size, UiMoves, Starting, Runs, view, textures, threads, statics, Filter,
     NoFilter, LocalRead, OneRenderer, IsAlive, SetUp, Loop, Taking, BufferHeld,
     LossNeedsInterrupt, Alone, Equipped, Filled, HasContext, MapFilled
<1>2. TypeOK'
  BY DEF IInv, Pick, size, UiMoves, Starting, Runs, view, textures, threads, statics, Filter,
     NoFilter, TypeOK, Null, UI
<1>3. Fresh'
  BY DEF IInv, Pick, size, UiMoves, Starting, Runs, view, textures, threads, statics, Filter,
     NoFilter, Fresh, TypeOK, Surface, Null
<1>4. Statics'
  BY DEF IInv, Pick, size, UiMoves, Starting, Runs, view, textures, threads, statics, Filter,
     NoFilter, Statics, IsAlive, SetUp, Loop, Taking, TypeOK, Null, OneRenderer, Fresh
<1>5. ChoiceFilled'
  <2>1. SUFFICES ASSUME ~raced' PROVE ChoiceFilled'
    BY DEF ChoiceFilled
  <2>2. ~raced /\ \A t \in Surface : at[t] \notin SetUp
    BY <2>1 DEF Pick, size
  <2>3. at' = at /\ crash' = crash /\ overlapped' = overlapped /\ selectedFilter' = selectedFilter
    BY DEF Pick, size, threads, view
  <2>4. PICK id \in Id : selectedFilterId' = id /\ pick' = Filter(id)
    BY DEF Pick, size
  <2>5. ASSUME NEW t \in Surface, at[t] # "new"
        PROVE  /\ pick'.of # Null
               /\ at[t] \in Loop /\ overlapped = {} => pick' = [id |-> selectedFilterId', of |-> t]
    <3>1. at[t] \in Filled
      BY <2>2, <2>5 DEF IInv, TypeOK, Filled, SetUp
    <3>2. /\ cameraFilterMap[id] # Null
          /\ overlapped = {} /\ at[t] \in Loop => cameraFilterMap[id] = t
      BY <3>1, <2>4 DEF IInv, MapFilled, IsAlive
    <3> QED
      BY <2>4, <3>2 DEF Filter
  <2>6. crash.why # "noFilter" /\ \A t \in Surface : at[t] \in Loop => selectedFilter # NoFilter
    BY <2>2 DEF IInv, ChoiceFilled
  <2>7. \A t \in Surface : at[t] # "lookup"
    BY <2>2 DEF SetUp
  <2>8. \A t \in Surface : at[t] \in Loop => at[t] # "new"
    BY DEF Loop, Taking
  <2> QED
    BY <2>2, <2>3, <2>5, <2>6, <2>7, <2>8 DEF ChoiceFilled
<1>6. SelectionHolds'
  BY DEF IInv, Pick, size, UiMoves, Starting, Runs, view, textures, threads, statics, Filter,
     NoFilter, SelectionHolds, Loop, Taking, TypeOK, Null, ChoiceFilled
<1> QED
  BY <1>1, <1>2, <1>3, <1>4, <1>5, <1>6 DEF IInv

LEMMA PickSetStep ==
    ASSUME IInv, PickSet
    PROVE  IInv'
<1>1. LocalRead' /\ OneRenderer' /\ BufferHeld' /\ LossNeedsInterrupt' /\ Alone' /\
   Equipped' /\ MapFilled'
  BY DEF IInv, PickSet, size, UiMoves, Starting, Runs, view, textures, threads, statics, NoFilter,
     LocalRead, OneRenderer, IsAlive, SetUp, Loop, Taking, BufferHeld, LossNeedsInterrupt,
     Alone, Equipped, Filled, HasContext, MapFilled
<1>2. TypeOK'
  BY DEF IInv, PickSet, size, UiMoves, Starting, Runs, view, textures, threads, statics, NoFilter,
     TypeOK, Null, UI
<1>3. Fresh'
  BY DEF IInv, PickSet, size, UiMoves, Starting, Runs, view, textures, threads, statics, NoFilter,
     Fresh, TypeOK, Surface, Null
<1>4. Statics'
  BY DEF IInv, PickSet, size, UiMoves, Starting, Runs, view, textures, threads, statics, NoFilter,
     Statics, IsAlive, SetUp, Loop, Taking, TypeOK, Null, OneRenderer, Fresh
<1>5. ChoiceFilled'
  BY DEF IInv, PickSet, size, UiMoves, Starting, Runs, view, textures, threads, statics, NoFilter,
     ChoiceFilled, SetUp, Loop, Taking, TypeOK, Null, MapFilled, Filled, Alone, IsAlive
<1>6. SelectionHolds'
  BY DEF IInv, PickSet, size, UiMoves, Starting, Runs, view, textures, threads, statics, NoFilter,
     SelectionHolds, Loop, Taking, TypeOK, Null, ChoiceFilled
<1> QED
  BY <1>1, <1>2, <1>3, <1>4, <1>5, <1>6 DEF IInv

LEMMA InitGLStep ==
    ASSUME IInv, NEW t \in Surface, InitGL(t)
    PROVE  IInv'
<1>1. LossNeedsInterrupt'
  BY DEF IInv, InitGL, size, Moves, Runs, view, textures, filters, statics,
     LossNeedsInterrupt
<1>2. TypeOK'
  BY FiltersAssumption DEF IInv, InitGL, size, Moves, Runs, view, textures, filters,
     statics, TypeOK, Surface, Null, UI, Storing, Crash, SetUp, Loop, Taking, Id, Fresh
<1>3. Fresh'
  BY SMTT(30) DEF IInv, InitGL, size, Moves, Runs, view, textures, filters, statics, Fresh, TypeOK,
     Surface, Null
<1>4. LocalRead'
  BY FiltersAssumption DEF IInv, InitGL, size, Moves, Runs, view, textures, filters,
     statics, LocalRead, TypeOK, Id
<1>5. OneRenderer'
  BY DEF IInv, InitGL, size, Moves, Runs, view, textures, filters, statics, OneRenderer,
     IsAlive, SetUp, Loop, Taking, TypeOK, Surface, Fresh
<1>6. BufferHeld'
  BY DEF IInv, InitGL, size, Moves, Runs, view, textures, filters, statics, BufferHeld,
     TypeOK, OneRenderer, IsAlive, SetUp, Loop, Taking
<1>7. Alone'
  BY DEF IInv, InitGL, size, Moves, Runs, view, textures, filters, statics, Alone, IsAlive,
     SetUp, Loop, Taking, TypeOK, Surface, Null, Fresh, OneRenderer
<1>8. Equipped'
  <2>1. HasContext(t)'
    BY DEF InitGL, size, IInv, Fresh, HasContext, TypeOK
  <2>2. ASSUME NEW r \in Surface, HasContext(r)
        PROVE  HasContext(r)'
    BY <2>2 DEF InitGL, size, IInv, TypeOK, HasContext, Surface, Null
  <2>3. local'[t] = 1 /\ at'[t] = "fill" /\ PROGRAM' = PROGRAM /\ interrupted' = interrupted
    BY DEF InitGL, size, Moves, IInv, TypeOK, statics
  <2>4. \A r \in Surface : r # t => at'[r] = at[r] /\ local'[r] = local[r]
    BY DEF InitGL, size, Moves, IInv, TypeOK
  <2> QED
    BY <2>1, <2>2, <2>3, <2>4 DEF IInv, Equipped, IsAlive, Filled, SetUp, Loop, Taking
<1>9. Statics'
  BY DEF IInv, InitGL, size, Moves, Runs, view, textures, filters, statics, Statics,
     IsAlive, SetUp, Loop, Taking, TypeOK, Null, OneRenderer, Fresh
<1>10. MapFilled'
  BY FiltersAssumption DEF IInv, InitGL, size, Moves, Runs, view, textures, filters,
     statics, MapFilled, Filled, IsAlive, SetUp, Loop, Taking, TypeOK, Null, Alone, Fresh,
     LocalRead, Id
<1>11. ChoiceFilled'
  BY DEF IInv, InitGL, size, Moves, Runs, view, textures, filters, statics, ChoiceFilled,
     SetUp, Loop, Taking, TypeOK, NoFilter, Null, MapFilled, Filled, Alone, IsAlive
<1>12. SelectionHolds'
  BY DEF IInv, InitGL, size, Moves, Runs, view, textures, filters, statics, SelectionHolds,
     Loop, Taking, TypeOK, NoFilter, Null, ChoiceFilled
<1> QED
  BY <1>1, <1>2, <1>3, <1>4, <1>5, <1>6, <1>7, <1>8, <1>9, <1>10, <1>11, <1>12 DEF
     IInv

LEMMA InitGLWithoutWindowStep ==
    ASSUME IInv, NEW t \in Surface, InitGLWithoutWindow(t)
    PROVE  IInv'
<1>1. LossNeedsInterrupt'
  BY DEF IInv, InitGLWithoutWindow, size, Moves, Runs, view, textures, filters, statics,
     LossNeedsInterrupt
<1>2. TypeOK'
  BY FiltersAssumption DEF IInv, InitGLWithoutWindow, size, Moves, Runs, view, textures,
     filters, statics, TypeOK, Surface, Null, UI, Storing, Crash, SetUp, Loop, Taking, Id
<1>3. Fresh'
  BY DEF IInv, InitGLWithoutWindow, size, Moves, Runs, view, textures, filters, statics,
     Fresh, TypeOK, Surface, Null
<1>4. LocalRead'
  BY FiltersAssumption DEF IInv, InitGLWithoutWindow, size, Moves, Runs, view, textures,
     filters, statics, LocalRead, TypeOK, Id
<1>5. OneRenderer'
  BY DEF IInv, InitGLWithoutWindow, size, Moves, Runs, view, textures, filters, statics,
     OneRenderer, IsAlive, SetUp, Loop, Taking, TypeOK, Surface, Fresh
<1>6. BufferHeld'
  BY DEF IInv, InitGLWithoutWindow, size, Moves, Runs, view, textures, filters, statics,
     BufferHeld, TypeOK, OneRenderer, IsAlive, SetUp, Loop, Taking
<1>7. Alone'
  BY DEF IInv, InitGLWithoutWindow, size, Moves, Runs, view, textures, filters, statics,
     Alone, IsAlive, SetUp, Loop, Taking, TypeOK, Surface, Null, Fresh, OneRenderer
<1>8. Equipped'
  BY DEF IInv, InitGLWithoutWindow, size, Moves, Runs, view, textures, filters, statics,
     Equipped, Filled, Loop, Taking, HasContext, TypeOK, NoProgram, Null, LocalRead,
     OneRenderer, Fresh, IsAlive, SetUp
<1>9. Statics'
  BY DEF IInv, InitGLWithoutWindow, size, Moves, Runs, view, textures, filters, statics,
     Statics, IsAlive, SetUp, Loop, Taking, TypeOK, Null, OneRenderer, Fresh
<1>10. MapFilled'
  BY FiltersAssumption DEF IInv, InitGLWithoutWindow, size, Moves, Runs, view, textures,
     filters, statics, MapFilled, Filled, IsAlive, SetUp, Loop, Taking, TypeOK, Null, Alone,
     Fresh, LocalRead, Id
<1>11. ChoiceFilled'
  BY DEF IInv, InitGLWithoutWindow, size, Moves, Runs, view, textures, filters, statics,
     ChoiceFilled, SetUp, Loop, Taking, TypeOK, NoFilter, Null, MapFilled, Filled, Alone,
     IsAlive
<1>12. SelectionHolds'
  BY DEF IInv, InitGLWithoutWindow, size, Moves, Runs, view, textures, filters, statics,
     SelectionHolds, Loop, Taking, TypeOK, NoFilter, Null, ChoiceFilled
<1> QED
  BY <1>1, <1>2, <1>3, <1>4, <1>5, <1>6, <1>7, <1>8, <1>9, <1>10, <1>11, <1>12 DEF
     IInv

LEMMA InitGLThrowsStep ==
    ASSUME IInv, NEW t \in Surface, InitGLThrows(t)
    PROVE  IInv'
<1>1. Fresh' /\ LocalRead' /\ OneRenderer' /\ BufferHeld' /\ Equipped' /\ Statics' /\
   MapFilled'
  BY DEF IInv, InitGLThrows, size, Runs, Die, view, textures, threads, filters, statics,
     Fresh, LocalRead, OneRenderer, IsAlive, SetUp, Loop, Taking, BufferHeld, Equipped,
     Filled, HasContext, Statics, MapFilled
<1>2. TypeOK'
  BY DEF IInv, InitGLThrows, size, Runs, Die, view, textures, threads, filters, statics,
     TypeOK, Surface, Null, UI, Storing, Crash, SetUp, Loop, Taking
<1>3. LossNeedsInterrupt'
  BY DEF IInv, InitGLThrows, size, Runs, Die, view, textures, threads, filters, statics,
     LossNeedsInterrupt, TypeOK, OneRenderer, BufferHeld, IsAlive, SetUp, Loop, Taking
<1>4. Alone'
  BY DEF IInv, InitGLThrows, size, Runs, Die, view, textures, threads, filters, statics,
     Alone, IsAlive, SetUp, Loop, Taking, TypeOK, Surface, Null, Fresh, OneRenderer
<1>5. ChoiceFilled'
  BY DEF IInv, InitGLThrows, size, Runs, Die, view, textures, threads, filters, statics,
     ChoiceFilled, SetUp, Loop, Taking, TypeOK, NoFilter, Null, MapFilled, Filled, Alone,
     IsAlive
<1>6. SelectionHolds'
  BY DEF IInv, InitGLThrows, size, Runs, Die, view, textures, threads, filters, statics,
     SelectionHolds, Loop, Taking, TypeOK, NoFilter, Null, ChoiceFilled
<1> QED
  BY <1>1, <1>2, <1>3, <1>4, <1>5, <1>6 DEF IInv

LEMMA FillStep ==
    ASSUME IInv, NEW t \in Surface, Fill(t)
    PROVE  IInv'
<1>1. LossNeedsInterrupt'
  BY DEF IInv, Fill, size, Moves, Runs, view, textures, NoProgram, LossNeedsInterrupt
<1>2. TypeOK'
  <2>1. local[t] \in 1..Filters
    BY DEF Fill, size, Moves, IInv, LocalRead, Id
  <2>2. at' \in [Surface -> SetUp \union Loop \union {"new", "finish", "ended"}]
    BY DEF Fill, size, Moves, IInv, TypeOK, SetUp
  <2>3. local' \in [Surface -> Id \union Extent]
    BY <2>1, FiltersAssumption DEF Fill, size, IInv, TypeOK, Id, Extent
  <2>4. cameraFilterMap' \in [Id -> Surface \union {Null}]
    BY DEF Fill, size, IInv, TypeOK
  <2>5. PROGRAM' \in [of : Surface \union {Null}, late : BOOLEAN]
    BY DEF Fill, size, IInv, TypeOK
  <2> QED
    BY <2>2, <2>3, <2>4, <2>5 DEF IInv, Fill, size, view, textures, TypeOK
<1>3. Fresh'
  BY DEF IInv, Fill, size, Moves, Runs, view, textures, NoProgram, Fresh, TypeOK, Surface,
     Null
<1>4. LocalRead'
  BY FiltersAssumption DEF IInv, Fill, size, Moves, Runs, view, textures, NoProgram,
     LocalRead, TypeOK, Id
<1>5. OneRenderer'
  BY DEF IInv, Fill, size, Moves, Runs, view, textures, NoProgram, OneRenderer, IsAlive,
     SetUp, Loop, Taking, TypeOK, Surface, Fresh
<1>6. BufferHeld'
  BY DEF IInv, Fill, size, Moves, Runs, view, textures, NoProgram, BufferHeld, TypeOK,
     OneRenderer, IsAlive, SetUp, Loop, Taking
<1>7. Alone'
  BY DEF IInv, Fill, size, Moves, Runs, view, textures, NoProgram, Alone, IsAlive, SetUp,
     Loop, Taking, TypeOK, Surface, Null, Fresh, OneRenderer
<1>8. Equipped'
  <2>1. PROGRAM'.of = Null => PROGRAM' = NoProgram
    <3>1. CASE PROGRAM' = PROGRAM
      BY <3>1 DEF IInv, Equipped
    <3>2. CASE PROGRAM' = [of |-> t, late |-> t \in interrupted]
      <4>1. PROGRAM'.of = t
        BY <3>2
      <4> QED
        BY <4>1 DEF Surface, Null
    <3> QED
      BY <3>1, <3>2 DEF Fill, size
  <2>2. PROGRAM.of # Null => PROGRAM' = PROGRAM
    BY DEF Fill, size, NoProgram, Null
  <2>3. t \notin interrupted => HasContext(t)
    BY DEF Fill, size, Moves, IInv, Equipped, IsAlive, SetUp
  <2>4. t \notin interrupted => PROGRAM'.of # Null
    BY <2>3 DEF Fill, size, IInv, Equipped, NoProgram, Surface, Null
  <2>5. window' = window /\ interrupted' = interrupted
    BY DEF Fill, size
  <2>6. \A r \in Surface : r # t => at'[r] = at[r] /\ local'[r] = local[r]
    BY DEF Fill, size, Moves, IInv, TypeOK
  <2> QED
    BY <2>1, <2>2, <2>3, <2>4, <2>5, <2>6
       DEF IInv, Equipped, HasContext, IsAlive, Filled, SetUp, Loop, Taking
<1>9. Statics'
  BY ZenonT(60) DEF IInv, Fill, size, Moves, Runs, view, textures, NoProgram, Statics, IsAlive, SetUp,
     Loop, Taking, TypeOK, Null, OneRenderer, Fresh
<1>10. MapFilled'
  BY FiltersAssumption DEF IInv, Fill, size, Moves, Runs, view, textures, NoProgram,
     MapFilled, Filled, IsAlive, SetUp, Loop, Taking, TypeOK, Null, Alone, Fresh, LocalRead,
     Id, Surface
<1>11. ChoiceFilled'
  BY DEF IInv, Fill, size, Moves, Runs, view, textures, NoProgram, ChoiceFilled, SetUp,
     Loop, Taking, TypeOK, NoFilter, Null, MapFilled, Filled, Alone, IsAlive
<1>12. SelectionHolds'
  BY DEF IInv, Fill, size, Moves, Runs, view, textures, NoProgram, SelectionHolds, Loop, Taking,
     TypeOK, NoFilter, Null, ChoiceFilled
<1> QED
  BY <1>1, <1>2, <1>3, <1>4, <1>5, <1>6, <1>7, <1>8, <1>9, <1>10, <1>11, <1>12 DEF
     IInv

LEMMA SelectReadStep ==
    ASSUME IInv, NEW t \in Surface, SelectRead(t)
    PROVE  IInv'
<1>1. LossNeedsInterrupt'
  BY DEF IInv, SelectRead, size, Moves, Runs, view, textures, filters, statics,
     LossNeedsInterrupt
<1>2. TypeOK'
  BY DEF IInv, SelectRead, size, Moves, Runs, view, textures, filters, statics, TypeOK,
     Surface, Null, UI, Storing, Crash, SetUp, Loop, Taking
<1>3. Fresh'
  BY DEF IInv, SelectRead, size, Moves, Runs, view, textures, filters, statics, Fresh,
     TypeOK, Surface, Null
<1>4. LocalRead'
  BY DEF IInv, SelectRead, size, Moves, Runs, view, textures, filters, statics, LocalRead,
     TypeOK
<1>5. OneRenderer'
  BY DEF IInv, SelectRead, size, Moves, Runs, view, textures, filters, statics, OneRenderer,
     IsAlive, SetUp, Loop, Taking, TypeOK, Surface, Fresh
<1>6. BufferHeld'
  BY DEF IInv, SelectRead, size, Moves, Runs, view, textures, filters, statics, BufferHeld,
     TypeOK, OneRenderer, IsAlive, SetUp, Loop, Taking
<1>7. Alone'
  BY DEF IInv, SelectRead, size, Moves, Runs, view, textures, filters, statics, Alone,
     IsAlive, SetUp, Loop, Taking, TypeOK, Surface, Null, Fresh, OneRenderer
<1>8. Equipped'
  BY DEF IInv, SelectRead, size, Moves, Runs, view, textures, filters, statics, Equipped,
     Filled, Loop, Taking, HasContext, TypeOK, NoProgram, Null, LocalRead, OneRenderer, Fresh,
     IsAlive, SetUp
<1>9. Statics'
  BY DEF IInv, SelectRead, size, Moves, Runs, view, textures, filters, statics, Statics,
     IsAlive, SetUp, Loop, Taking, TypeOK, Null, OneRenderer, Fresh
<1>10. MapFilled'
  BY DEF IInv, SelectRead, size, Moves, Runs, view, textures, filters, statics, MapFilled,
     Filled, IsAlive, SetUp, Loop, Taking, TypeOK, Null, Alone, Fresh, LocalRead
<1>11. ChoiceFilled'
  BY DEF IInv, SelectRead, size, Moves, Runs, view, textures, filters, statics,
     ChoiceFilled, SetUp, Loop, Taking, TypeOK, NoFilter, Null, MapFilled, Filled, Alone,
     IsAlive
<1>12. SelectionHolds'
  BY DEF IInv, SelectRead, size, Moves, Runs, view, textures, filters, statics,
     SelectionHolds, Loop, Taking, TypeOK, NoFilter, Null, ChoiceFilled
<1> QED
  BY <1>1, <1>2, <1>3, <1>4, <1>5, <1>6, <1>7, <1>8, <1>9, <1>10, <1>11, <1>12 DEF
     IInv

LEMMA SelectSetStep ==
    ASSUME IInv, NEW t \in Surface, SelectSet(t)
    PROVE  IInv'
<1>1. LossNeedsInterrupt'
  BY DEF IInv, SelectSet, size, Moves, Runs, view, textures, statics, NoFilter,
     LossNeedsInterrupt
<1>2. TypeOK'
  BY DEF IInv, SelectSet, size, Moves, Runs, view, textures, statics, NoFilter,
     TypeOK, Surface, Null, UI, Storing, Crash, SetUp, Loop, Taking, LocalRead
<1>3. Fresh'
  BY DEF IInv, SelectSet, size, Moves, Runs, view, textures, statics, NoFilter,
     Fresh, TypeOK, Surface, Null
<1>4. LocalRead'
  BY DEF IInv, SelectSet, size, Moves, Runs, view, textures, statics, NoFilter,
     LocalRead, TypeOK
<1>5. OneRenderer'
  BY DEF IInv, SelectSet, size, Moves, Runs, view, textures, statics, NoFilter,
     OneRenderer, IsAlive, SetUp, Loop, Taking, TypeOK, Surface, Fresh
<1>6. BufferHeld'
  BY DEF IInv, SelectSet, size, Moves, Runs, view, textures, statics, NoFilter,
     BufferHeld, TypeOK, OneRenderer, IsAlive, SetUp, Loop, Taking
<1>7. Alone'
  BY DEF IInv, SelectSet, size, Moves, Runs, view, textures, statics, NoFilter,
     Alone, IsAlive, SetUp, Loop, Taking, TypeOK, Surface, Null, Fresh, OneRenderer
<1>8. Equipped'
  BY DEF IInv, SelectSet, size, Moves, Runs, view, textures, statics, NoFilter,
     Equipped, Filled, Loop, Taking, HasContext, TypeOK, NoProgram, Null, LocalRead,
     OneRenderer, Fresh, IsAlive, SetUp
<1>9. Statics'
  BY DEF IInv, SelectSet, size, Moves, Runs, view, textures, statics, NoFilter,
     Statics, IsAlive, SetUp, Loop, Taking, TypeOK, Null, OneRenderer, Fresh
<1>10. MapFilled'
  BY DEF IInv, SelectSet, size, Moves, Runs, view, textures, statics, NoFilter,
     MapFilled, Filled, IsAlive, SetUp, Loop, Taking, TypeOK, Null, Alone, Fresh, LocalRead
<1>11. ChoiceFilled'
  <2>1. SUFFICES ASSUME ~raced' PROVE ChoiceFilled'
    BY DEF ChoiceFilled
  <2>2. /\ ~raced /\ crash' = crash /\ ui' = ui /\ at[t] = "set" /\ pick' = pick
        /\ at' = [at EXCEPT ![t] = "lookup"] /\ local' = local /\ overlapped' = overlapped
        /\ selectedFilter' = selectedFilter /\ selectedFilterId' = local[t]
    BY <2>1 DEF SelectSet, size, Moves, view
  <2>3. ui # "pickSet"
    BY <2>2 DEF IInv, ChoiceFilled, SetUp
  <2>4. overlapped = {} => \A u \in Surface : at[u] \in SetUp \union Loop => u = t
    BY <2>2 DEF IInv, Alone, IsAlive, SetUp
  <2>5. at' \in [Surface -> SetUp \union Loop \union {"new", "finish", "ended"}]
    BY <2>2 DEF IInv, TypeOK, SetUp
  <2> QED
    BY <2>2, <2>3, <2>4, <2>5 DEF IInv, ChoiceFilled, TypeOK, SetUp, Loop, Taking, Taking
<1>12. SelectionHolds'
  BY DEF IInv, SelectSet, size, Moves, Runs, view, textures, statics, NoFilter,
     SelectionHolds, Loop, Taking, TypeOK, Null, MapFilled, Filled, Alone, IsAlive, LocalRead,
     Surface, SetUp
<1> QED
  BY <1>1, <1>2, <1>3, <1>4, <1>5, <1>6, <1>7, <1>8, <1>9, <1>10, <1>11, <1>12 DEF
     IInv

LEMMA SelectFilterStep ==
    ASSUME IInv, NEW t \in Surface, SelectFilter(t)
    PROVE  IInv'
<1>1. LossNeedsInterrupt'
  BY DEF IInv, SelectFilter, size, Moves, Runs, view, textures, statics, Filter, NoFilter,
     LossNeedsInterrupt
<1>2. TypeOK'
  BY DEF IInv, SelectFilter, size, Moves, Runs, view, textures, statics, Filter, NoFilter,
     TypeOK, Null, LocalRead, SetUp, Loop, Extent
<1>3. Fresh'
  BY DEF IInv, SelectFilter, size, Moves, Runs, view, textures, statics, Filter, NoFilter,
     Fresh, TypeOK, Surface, Null
<1>4. LocalRead'
  BY DEF IInv, SelectFilter, size, Moves, Runs, view, textures, statics, Filter, NoFilter,
     LocalRead, TypeOK
<1>5. OneRenderer'
  BY DEF IInv, SelectFilter, size, Moves, Runs, view, textures, statics, Filter, NoFilter,
     OneRenderer, IsAlive, SetUp, Loop, Taking, TypeOK, Surface, Fresh
<1>6. BufferHeld'
  BY DEF IInv, SelectFilter, size, Moves, Runs, view, textures, statics, Filter, NoFilter,
     BufferHeld, TypeOK, OneRenderer, IsAlive, SetUp, Loop, Taking
<1>7. Alone'
  BY DEF IInv, SelectFilter, size, Moves, Runs, view, textures, statics, Filter, NoFilter,
     Alone, IsAlive, SetUp, Loop, Taking, TypeOK, Surface, Null, Fresh, OneRenderer
<1>8. Equipped'
  BY DEF IInv, SelectFilter, size, Moves, Runs, view, textures, statics, Filter, NoFilter,
     Equipped, Filled, Loop, Taking, HasContext, TypeOK, NoProgram, Null, LocalRead,
     OneRenderer, Fresh, IsAlive, SetUp
<1>9. Statics'
  BY DEF IInv, SelectFilter, size, Moves, Runs, view, textures, statics, Filter, NoFilter,
     Statics, IsAlive, SetUp, Loop, Taking, TypeOK, Null, OneRenderer, Fresh
<1>10. MapFilled'
  BY DEF IInv, SelectFilter, size, Moves, Runs, view, textures, statics, Filter, NoFilter,
     MapFilled, Filled, IsAlive, SetUp, Loop, Taking, TypeOK, Null, Alone, Fresh, LocalRead
<1>11. ChoiceFilled'
  <2>1. SUFFICES ASSUME ~raced' PROVE ChoiceFilled'
    BY DEF ChoiceFilled
  <2>2. /\ ~raced /\ crash' = crash /\ ui' = ui /\ at[t] = "lookup"
        /\ at' = [at EXCEPT ![t] = "check"] /\ pick' = pick
        /\ selectedFilter' = Filter(local[t]) /\ selectedFilterId' = selectedFilterId
        /\ local' = [local EXCEPT ![t] = 0] /\ overlapped' = overlapped
    BY <2>1 DEF SelectFilter, size, Moves, view
  <2>3. ui # "pickSet"
    BY <2>2 DEF IInv, ChoiceFilled, SetUp
  <2>4. selectedFilter' # NoFilter
    <3>1. local[t] \in Id /\ local[t] # Null
      BY <2>2 DEF IInv, LocalRead, Id, Null
    <3>2. cameraFilterMap[local[t]] # Null
      BY <2>2, <3>1 DEF IInv, MapFilled, Filled
    <3> QED
      BY <2>2, <3>1, <3>2 DEF Filter, NoFilter
  <2>5. crash.why # "noFilter"
    BY <2>2 DEF IInv, ChoiceFilled
  <2> QED
    BY <2>2, <2>3, <2>4, <2>5 DEF IInv, TypeOK, ChoiceFilled, NoFilter
<1>12. SelectionHolds'
  BY DEF IInv, SelectFilter, size, Moves, Runs, view, textures, statics, Filter, NoFilter,
     SelectionHolds, Loop, Taking, TypeOK, Null, MapFilled, Filled, Alone, IsAlive, LocalRead,
     Surface, SetUp, ChoiceFilled
<1> QED
  BY <1>1, <1>2, <1>3, <1>4, <1>5, <1>6, <1>7, <1>8, <1>9, <1>10, <1>11, <1>12 DEF
     IInv

\* A thread goes on in its loop, or leaves it, and changes nothing but its place, what it
\* has read, the size and the monitor.
LEMMA LoopMove ==
    ASSUME IInv, NEW t \in Surface, NEW p \in Loop,
           NEW q \in (Loop \ {"bind"}) \union {"finish"}, Moves(t, p, q),
           UNCHANGED <<ui, crash, view, window, textures, interrupted, filters, statics>>,
           gwidth' \in Extent, gheight' \in Extent, crossed' \in BOOLEAN,
           monitor' \in Surface \union {Null}, local' \in [Surface -> Id \union Extent],
           \A u \in Surface : u # t => local'[u] = local[u],
           q \in {"storeWidth", "storeHeight"} => local'[t] \in Extent
    PROVE  IInv'
<1> USE DEF IInv, Moves, view, textures, filters, statics
<1>1. LossNeedsInterrupt'
  BY DEF LossNeedsInterrupt
<1>2. at' \in [Surface -> SetUp \union Loop \union {"new", "finish", "ended"}] /\ at'[t] = q
      /\ \A u \in Surface : u # t => at'[u] = at[u]
  BY DEF TypeOK
<1>3. TypeOK'
  BY <1>2 DEF TypeOK
<1>4. Fresh'
  BY <1>2 DEF Fresh, TypeOK, Surface, Null, Loop, Taking
<1>5. LocalRead'
  BY <1>2 DEF LocalRead, Loop, Taking
<1>6. OneRenderer'
  BY <1>2 DEF OneRenderer, IsAlive
<1>7. BufferHeld'
  BY <1>2 DEF BufferHeld, Loop, Taking
<1>8. Alone'
  BY <1>2 DEF Alone, IsAlive, Loop, Taking
<1>9. Equipped'
  BY <1>2 DEF Equipped, Filled, HasContext, IsAlive, Loop, Taking
<1>10. Statics'
  BY <1>2 DEF Statics, IsAlive
<1>11. MapFilled'
  BY <1>2 DEF MapFilled, Filled, IsAlive, Loop, Taking
<1>12. ChoiceFilled'
  BY <1>2 DEF ChoiceFilled, SetUp, Loop, Taking
<1>13. SelectionHolds'
  BY <1>2 DEF SelectionHolds
<1> QED
  BY <1>1, <1>3, <1>4, <1>5, <1>6, <1>7, <1>8, <1>9, <1>10, <1>11, <1>12, <1>13

\* What a thread reads of the size it stores with the other sign.
LEMMA Negation ==
    ASSUME NEW s \in Extent
    PROVE  -s \in Extent /\ s \in Int
  BY SizeAssumption DEF Extent

LEMMA CheckStep ==
    ASSUME IInv, NEW t \in Surface, Check(t)
    PROVE  IInv'
<1> DEFINE q == IF t \in interrupted THEN "finish"
              ELSE IF gwidth < 0 THEN "checkHeight" ELSE "update"
<1>1. Moves(t, "check", q) /\ "check" \in Loop /\ q \in (Loop \ {"bind"}) \union {"finish"}
  BY DEF Check, Loop, Taking
<1>2. crossed' \in BOOLEAN /\ q \notin {"storeWidth", "storeHeight"}
  BY DEF Check, IInv, TypeOK, size
<1> HIDE DEF q
<1> QED
  BY <1>1, <1>2, LoopMove DEF Check, size, IInv, TypeOK

LEMMA CheckHeightStep ==
    ASSUME IInv, NEW t \in Surface, CheckHeight(t)
    PROVE  IInv'
<1> DEFINE q == IF gheight < 0 THEN "readWidth" ELSE "update"
<1>1. Moves(t, "checkHeight", q) /\ "checkHeight" \in Loop /\ q \in (Loop \ {"bind"}) \union {"finish"}
  BY DEF CheckHeight, Loop, Taking
<1>2. crossed' \in BOOLEAN /\ q \notin {"storeWidth", "storeHeight"}
  BY DEF CheckHeight, IInv, TypeOK, size
<1> HIDE DEF q
<1> QED
  BY <1>1, <1>2, LoopMove DEF CheckHeight, size, IInv, TypeOK

LEMMA ReadWidthStep ==
    ASSUME IInv, NEW t \in Surface, ReadWidth(t)
    PROVE  IInv'
<1>1. -gwidth \in Extent
  BY Negation DEF IInv, TypeOK
<1>2. local' \in [Surface -> Id \union Extent] /\ local'[t] \in Extent
      /\ \A u \in Surface : u # t => local'[u] = local[u]
  BY <1>1 DEF ReadWidth, IInv, TypeOK
<1>3. "readWidth" \in Loop /\ "storeWidth" \in Loop \ {"bind"}
  BY DEF Loop, Taking
<1> QED
  BY <1>2, <1>3, LoopMove DEF ReadWidth, size, IInv, TypeOK

LEMMA TakeWidthStep ==
    ASSUME IInv, NEW t \in Surface, TakeWidth(t)
    PROVE  IInv'
<1>1. local[t] \in Extent
  BY DEF TakeWidth, Moves, IInv, LocalRead
<1>2. local' \in [Surface -> Id \union Extent]
      /\ \A u \in Surface : u # t => local'[u] = local[u]
  BY DEF TakeWidth, IInv, TypeOK, Extent
<1>3. "storeWidth" \in Loop /\ "readHeight" \in Loop \ {"bind"}
  BY DEF Loop, Taking
<1> QED
  BY <1>1, <1>2, <1>3, LoopMove DEF TakeWidth, IInv, TypeOK

LEMMA ReadHeightStep ==
    ASSUME IInv, NEW t \in Surface, ReadHeight(t)
    PROVE  IInv'
<1>1. -gheight \in Extent
  BY Negation DEF IInv, TypeOK
<1>2. local' \in [Surface -> Id \union Extent] /\ local'[t] \in Extent
      /\ \A u \in Surface : u # t => local'[u] = local[u]
  BY <1>1 DEF ReadHeight, IInv, TypeOK
<1>3. "readHeight" \in Loop /\ "storeHeight" \in Loop \ {"bind"}
  BY DEF Loop, Taking
<1> QED
  BY <1>2, <1>3, LoopMove DEF ReadHeight, size, IInv, TypeOK

LEMMA TakeHeightStep ==
    ASSUME IInv, NEW t \in Surface, TakeHeight(t)
    PROVE  IInv'
<1>1. local[t] \in Extent
  BY DEF TakeHeight, Moves, IInv, LocalRead
<1>2. local' \in [Surface -> Id \union Extent]
      /\ \A u \in Surface : u # t => local'[u] = local[u]
  BY DEF TakeHeight, IInv, TypeOK, Extent
<1>3. "storeHeight" \in Loop /\ "update" \in Loop \ {"bind"}
  BY DEF Loop, Taking
<1> QED
  BY <1>1, <1>2, <1>3, LoopMove DEF TakeHeight, IInv, TypeOK

LEMMA EnterMonitorStep ==
    ASSUME IInv, NEW t \in Surface, EnterMonitor(t)
    PROVE  IInv'
<1>1. "update" \in Loop /\ "texture" \in Loop \ {"bind"}
  BY DEF Loop, Taking
<1> QED
  BY <1>1, LoopMove DEF EnterMonitor, size, IInv, TypeOK

LEMMA UpdateTexImageStep ==
    ASSUME IInv, NEW t \in Surface, UpdateTexImage(t)
    PROVE  IInv'
<1>1. LossNeedsInterrupt'
  BY DEF IInv, UpdateTexImage, size, Moves, Runs, view, filters, statics, LossNeedsInterrupt
<1>2. TypeOK'
  BY DEF IInv, UpdateTexImage, size, Moves, Runs, view, filters, statics, TypeOK, Surface,
     Null, UI, Storing, Crash, SetUp, Loop, Taking, Fresh
<1>3. Fresh'
  BY DEF IInv, UpdateTexImage, size, Moves, Runs, view, filters, statics, Fresh, TypeOK,
     Surface, Null
<1>4. LocalRead'
  BY DEF IInv, UpdateTexImage, size, Moves, Runs, view, filters, statics, LocalRead, TypeOK
<1>5. OneRenderer'
  BY DEF IInv, UpdateTexImage, size, Moves, Runs, view, filters, statics, OneRenderer,
     IsAlive, SetUp, Loop, Taking, TypeOK, Surface, Fresh
<1>6. BufferHeld'
  BY DEF IInv, UpdateTexImage, size, Moves, Runs, view, filters, statics, BufferHeld,
     TypeOK, OneRenderer, IsAlive, SetUp, Loop, Taking
<1>7. Alone'
  BY DEF IInv, UpdateTexImage, size, Moves, Runs, view, filters, statics, Alone, IsAlive,
     SetUp, Loop, Taking, TypeOK, Surface, Null, Fresh, OneRenderer
<1>8. Equipped'
  BY DEF IInv, UpdateTexImage, size, Moves, Runs, view, filters, statics, Equipped, Filled,
     Loop, Taking, HasContext, TypeOK, NoProgram, Null, LocalRead, OneRenderer, Fresh,
     IsAlive, SetUp
<1>9. Statics'
  BY DEF IInv, UpdateTexImage, size, Moves, Runs, view, filters, statics, Statics, IsAlive,
     SetUp, Loop, Taking, TypeOK, Null, OneRenderer, Fresh
<1>10. MapFilled'
  BY DEF IInv, UpdateTexImage, size, Moves, Runs, view, filters, statics, MapFilled, Filled,
     IsAlive, SetUp, Loop, Taking, TypeOK, Null, Alone, Fresh, LocalRead
<1>11. ChoiceFilled'
  BY DEF IInv, UpdateTexImage, size, Moves, Runs, view, filters, statics, ChoiceFilled,
     SetUp, Loop, Taking, TypeOK, NoFilter, Null, MapFilled, Filled, Alone, IsAlive
<1>12. SelectionHolds'
  BY DEF IInv, UpdateTexImage, size, Moves, Runs, view, filters, statics, SelectionHolds,
     Loop, Taking, TypeOK, NoFilter, Null, ChoiceFilled
<1> QED
  BY <1>1, <1>2, <1>3, <1>4, <1>5, <1>6, <1>7, <1>8, <1>9, <1>10, <1>11, <1>12 DEF
     IInv

LEMMA UpdateTexImageThrowsStep ==
    ASSUME IInv, NEW t \in Surface, UpdateTexImageThrows(t)
    PROVE  IInv'
<1>1. Fresh' /\ LocalRead' /\ OneRenderer' /\ BufferHeld' /\ Equipped' /\ Statics' /\
   MapFilled'
  BY DEF IInv, UpdateTexImageThrows, size, Runs, Die, view, textures, threads, filters,
     statics, Fresh, LocalRead, OneRenderer, IsAlive, SetUp, Loop, Taking, BufferHeld,
     Equipped, Filled, HasContext, Statics, MapFilled
<1>2. TypeOK'
  BY DEF IInv, UpdateTexImageThrows, size, Runs, Die, view, textures, threads, filters,
     statics, TypeOK, Surface, Null, UI, Storing, Crash, SetUp, Loop, Taking
<1>3. LossNeedsInterrupt'
  BY DEF IInv, UpdateTexImageThrows, size, Runs, Die, view, textures, threads, filters,
     statics, LossNeedsInterrupt, TypeOK, OneRenderer, BufferHeld, IsAlive, SetUp,
     Loop, Taking
<1>4. Alone'
  BY DEF IInv, UpdateTexImageThrows, size, Runs, Die, view, textures, threads, filters,
     statics, Alone, IsAlive, SetUp, Loop, Taking, TypeOK, Surface, Null, Fresh, OneRenderer
<1>5. ChoiceFilled'
  BY DEF IInv, UpdateTexImageThrows, size, Runs, Die, view, textures, threads, filters,
     statics, ChoiceFilled, SetUp, Loop, Taking, TypeOK, NoFilter, Null, MapFilled, Filled,
     Alone, IsAlive
<1>6. SelectionHolds'
  BY DEF IInv, UpdateTexImageThrows, size, Runs, Die, view, textures, threads, filters,
     statics, SelectionHolds, Loop, Taking, TypeOK, NoFilter, Null, ChoiceFilled
<1> QED
  BY <1>1, <1>2, <1>3, <1>4, <1>5, <1>6 DEF IInv

LEMMA DrawStep ==
    ASSUME IInv, NEW t \in Surface, Draw(t)
    PROVE  IInv'
<1>1. LossNeedsInterrupt'
  BY DEF IInv, Draw, size, Moves, Runs, view, textures, filters, LossNeedsInterrupt
<1>2. TypeOK'
  BY DEF IInv, Draw, size, Moves, Runs, view, textures, filters, TypeOK, Surface, Null, UI, Storing,
     Crash, SetUp, Loop, Taking
<1>3. Fresh'
  BY DEF IInv, Draw, size, Moves, Runs, view, textures, filters, Fresh, TypeOK, Surface,
     Null
<1>4. LocalRead'
  BY DEF IInv, Draw, size, Moves, Runs, view, textures, filters, LocalRead, TypeOK
<1>5. OneRenderer'
  BY DEF IInv, Draw, size, Moves, Runs, view, textures, filters, OneRenderer, IsAlive,
     SetUp, Loop, Taking, TypeOK, Surface, Fresh
<1>6. BufferHeld'
  BY DEF IInv, Draw, size, Moves, Runs, view, textures, filters, BufferHeld, TypeOK,
     Surface, Null
<1>7. Alone'
  BY DEF IInv, Draw, size, Moves, Runs, view, textures, filters, Alone, IsAlive, SetUp,
     Loop, Taking, TypeOK, Surface, Null, Fresh, OneRenderer
<1>8. Equipped'
  BY DEF IInv, Draw, size, Moves, Runs, view, textures, filters, Equipped, Filled, Loop, Taking,
     HasContext, TypeOK, NoProgram, Null, LocalRead, OneRenderer, Fresh, IsAlive,
     SetUp
<1>9. Statics'
  BY ZenonT(60) DEF IInv, Draw, size, Moves, Runs, view, textures, filters, Statics, IsAlive, SetUp,
     Loop, Taking, TypeOK, Null, OneRenderer, Fresh
<1>10. MapFilled'
  BY DEF IInv, Draw, size, Moves, Runs, view, textures, filters, MapFilled, Filled, IsAlive,
     SetUp, Loop, Taking, TypeOK, Null, Alone, Fresh, LocalRead
<1>11. ChoiceFilled'
  BY DEF IInv, Draw, size, Moves, Runs, view, textures, filters, ChoiceFilled, SetUp, Loop, Taking,
     TypeOK, NoFilter, Null, MapFilled, Filled, Alone, IsAlive
<1>12. SelectionHolds'
  BY DEF IInv, Draw, size, Moves, Runs, view, textures, filters, SelectionHolds, Loop, Taking,
     TypeOK, NoFilter, Null, ChoiceFilled
<1> QED
  BY <1>1, <1>2, <1>3, <1>4, <1>5, <1>6, <1>7, <1>8, <1>9, <1>10, <1>11, <1>12 DEF
     IInv

LEMMA DrawThrowsStep ==
    ASSUME IInv, NEW t \in Surface, DrawThrows(t)
    PROVE  IInv'
<1>1. Fresh' /\ LocalRead' /\ OneRenderer' /\ BufferHeld' /\ Equipped' /\ Statics' /\
   MapFilled'
  BY DEF IInv, DrawThrows, size, Runs, Die, view, textures, threads, filters, statics,
     Fresh, LocalRead, OneRenderer, IsAlive, SetUp, Loop, Taking, BufferHeld, Equipped,
     Filled, HasContext, Statics, MapFilled
<1>2. TypeOK'
  BY DEF IInv, DrawThrows, size, Runs, Die, view, textures, threads, filters, statics,
     TypeOK, Surface, Null, UI, Storing, Crash, SetUp, Loop, Taking
<1>3. LossNeedsInterrupt'
  BY DEF IInv, DrawThrows, size, Runs, Die, view, textures, threads, filters, statics,
     LossNeedsInterrupt, TypeOK, OneRenderer, BufferHeld, IsAlive, SetUp, Loop, Taking
<1>4. Alone'
  BY DEF IInv, DrawThrows, size, Runs, Die, view, textures, threads, filters, statics,
     Alone, IsAlive, SetUp, Loop, Taking, TypeOK, Surface, Null, Fresh, OneRenderer
<1>5. ChoiceFilled'
  BY DEF IInv, DrawThrows, size, Runs, Die, view, textures, threads, filters, statics,
     ChoiceFilled, SetUp, Loop, Taking, TypeOK, NoFilter, Null, MapFilled, Filled, Alone,
     IsAlive
<1>6. SelectionHolds'
  BY DEF IInv, DrawThrows, size, Runs, Die, view, textures, threads, filters, statics,
     SelectionHolds, Loop, Taking, TypeOK, NoFilter, Null, ChoiceFilled
<1> QED
  BY <1>1, <1>2, <1>3, <1>4, <1>5, <1>6 DEF IInv

LEMMA BindStep ==
    ASSUME IInv, NEW t \in Surface, Bind(t)
    PROVE  IInv'
<1>1. "bind" \in Loop /\ "check" \in Loop \ {"bind"}
  BY DEF Loop, Taking
<1> QED
  BY <1>1, LoopMove DEF Bind, size, IInv, TypeOK

LEMMA BindThrowsStep ==
    ASSUME IInv, NEW t \in Surface, BindThrows(t)
    PROVE  IInv'
<1>1. Fresh' /\ LocalRead' /\ OneRenderer' /\ BufferHeld' /\ Equipped' /\ Statics' /\
   MapFilled'
  BY DEF IInv, BindThrows, size, Runs, Die, view, textures, threads, filters, statics,
     Fresh, LocalRead, OneRenderer, IsAlive, SetUp, Loop, Taking, BufferHeld, Equipped,
     Filled, HasContext, Statics, MapFilled
<1>2. TypeOK'
  BY DEF IInv, BindThrows, size, Runs, Die, view, textures, threads, filters, statics,
     TypeOK, Surface, Null, UI, Storing, Crash, SetUp, Loop, Taking
<1>3. LossNeedsInterrupt'
  BY DEF IInv, BindThrows, size, Runs, Die, view, textures, threads, filters, statics,
     LossNeedsInterrupt, TypeOK, OneRenderer, BufferHeld, IsAlive, SetUp, Loop, Taking
<1>4. Alone'
  BY DEF IInv, BindThrows, size, Runs, Die, view, textures, threads, filters, statics,
     Alone, IsAlive, SetUp, Loop, Taking, TypeOK, Surface, Null, Fresh, OneRenderer
<1>5. ChoiceFilled'
  BY DEF IInv, BindThrows, size, Runs, Die, view, textures, threads, filters, statics,
     ChoiceFilled, SetUp, Loop, Taking, TypeOK, NoFilter, Null, MapFilled, Filled, Alone,
     IsAlive
<1>6. SelectionHolds'
  BY DEF IInv, BindThrows, size, Runs, Die, view, textures, threads, filters, statics,
     SelectionHolds, Loop, Taking, TypeOK, NoFilter, Null, ChoiceFilled
<1> QED
  BY <1>1, <1>2, <1>3, <1>4, <1>5, <1>6 DEF IInv

LEMMA FinishStep ==
    ASSUME IInv, NEW t \in Surface, Finish(t)
    PROVE  IInv'
<1>1. LossNeedsInterrupt'
  BY DEF IInv, Finish, size, Moves, Runs, view, filters, statics, LossNeedsInterrupt
<1>2. TypeOK'
  BY DEF IInv, Finish, size, Moves, Runs, view, filters, statics, TypeOK, Surface, Null, UI, Storing,
     Crash, SetUp, Loop, Taking, Fresh
<1>3. Fresh'
  BY DEF IInv, Finish, size, Moves, Runs, view, filters, statics, Fresh, TypeOK, Surface,
     Null
<1>4. LocalRead'
  BY DEF IInv, Finish, size, Moves, Runs, view, filters, statics, LocalRead, TypeOK
<1>5. OneRenderer'
  BY DEF IInv, Finish, size, Moves, Runs, view, filters, statics, OneRenderer, IsAlive,
     SetUp, Loop, Taking, TypeOK, Surface, Fresh
<1>6. BufferHeld'
  BY DEF IInv, Finish, size, Moves, Runs, view, filters, statics, BufferHeld, TypeOK,
     OneRenderer, IsAlive, SetUp, Loop, Taking
<1>7. Alone'
  BY DEF IInv, Finish, size, Moves, Runs, view, filters, statics, Alone, IsAlive, SetUp,
     Loop, Taking, TypeOK, Surface, Null, Fresh, OneRenderer
<1>8. Equipped'
  BY DEF IInv, Finish, size, Moves, Runs, view, filters, statics, Equipped, Filled, Loop, Taking,
     HasContext, TypeOK, NoProgram, Null, LocalRead, OneRenderer, Fresh, IsAlive,
     SetUp
<1>9. Statics'
  BY DEF IInv, Finish, size, Moves, Runs, view, filters, statics, Statics, IsAlive, SetUp,
     Loop, Taking, TypeOK, Null, OneRenderer, Fresh
<1>10. MapFilled'
  BY DEF IInv, Finish, size, Moves, Runs, view, filters, statics, MapFilled, Filled,
     IsAlive, SetUp, Loop, Taking, TypeOK, Null, Alone, Fresh, LocalRead
<1>11. ChoiceFilled'
  BY DEF IInv, Finish, size, Moves, Runs, view, filters, statics, ChoiceFilled, SetUp, Loop, Taking,
     TypeOK, NoFilter, Null, MapFilled, Filled, Alone, IsAlive
<1>12. SelectionHolds'
  BY DEF IInv, Finish, size, Moves, Runs, view, filters, statics, SelectionHolds, Loop, Taking,
     TypeOK, NoFilter, Null, ChoiceFilled
<1> QED
  BY <1>1, <1>2, <1>3, <1>4, <1>5, <1>6, <1>7, <1>8, <1>9, <1>10, <1>11, <1>12 DEF
     IInv

\* A new process starts like the first one.
LEMMA NewIsInit == NewProcess => Init'
  BY DEF NewProcess, Init

LEMMA NewProcessStep == NewProcess => IInv'
  BY NewIsInit, InitIInv, PTL

LEMMA Inductive == IInv /\ [Next]_vars => IInv'
<1> SUFFICES ASSUME IInv, [Next]_vars
             PROVE  IInv'
  OBVIOUS
<1>1. ASSUME NEW t \in Surface, RenderStep(t)
      PROVE  IInv'
  BY <1>1, InitGLStep, InitGLWithoutWindowStep, InitGLThrowsStep, FillStep, SelectReadStep,
     SelectSetStep, SelectFilterStep, CheckStep, CheckHeightStep, ReadWidthStep, TakeWidthStep,
     ReadHeightStep, TakeHeightStep, EnterMonitorStep, UpdateTexImageStep, UpdateTexImageThrowsStep,
     DrawStep, DrawThrowsStep, BindStep, BindThrowsStep, FinishStep DEF RenderStep
<1>2. CASE UiStep
  BY <1>2, StoreHeightStep, StartThreadStep, ReleaseProgramStep, ReleaseBufferStep, PickSetStep DEF UiStep
<1>3. CASE SurfaceTextureAvailable \/ SurfaceTextureSizeChanged \/ SurfaceTextureDestroyed \/ Pick
  BY <1>3, SurfaceTextureAvailableStep, SurfaceTextureSizeChangedStep,
     SurfaceTextureDestroyedStep, PickStep
<1>4. CASE UNCHANGED vars
  <2> USE <1>4 DEF vars, IInv
  <2>1. TypeOK' /\ Fresh' /\ LocalRead'
    BY DEF TypeOK, Fresh, LocalRead
  <2>2. OneRenderer' /\ BufferHeld' /\ LossNeedsInterrupt'
    BY DEF OneRenderer, BufferHeld, LossNeedsInterrupt, IsAlive
  <2>3. Alone' /\ Equipped' /\ Statics'
    BY DEF Alone, Equipped, Statics, IsAlive, HasContext
  <2>4. MapFilled' /\ ChoiceFilled' /\ SelectionHolds'
    BY DEF MapFilled, ChoiceFilled, SelectionHolds, IsAlive
  <2> QED
    BY <2>1, <2>2, <2>3, <2>4
<1> QED
  BY <1>1, <1>2, <1>3, <1>4, NewProcessStep DEF Next

----------------------------------------------------------------------------
(* The monitor, and the two fields of the size *)

\* The monitor is held by whoever is in the block, and by nobody else.
MonitorHeld == Runs => \A t \in Surface : monitor = t <=> at[t] = "texture"

\* Where the stores of the size have not crossed, one thread at most takes it, from the
\* width to the height, and not while the UI thread is between its two stores.
TakenInTurn ==
    ~crossed =>
      /\ ui \in Storing => gwidth < 0 /\ \A t \in Surface : at[t] \notin Taking
      /\ ui \notin Storing /\ (\A t \in Surface : at[t] \notin Taking)
           => (gwidth < 0 <=> gheight < 0)
      /\ \A t \in Surface : at[t] \in Taking =>
           /\ \A u \in Surface : at[u] \in Taking => u = t
           /\ gheight < 0
           /\ gwidth < 0 <=> at[t] \in {"readWidth", "storeWidth"}
           /\ at[t] \in {"storeWidth", "storeHeight"} => local[t] > 0

LEMMA ThreadTypes ==
  ASSUME IInv
  PROVE  /\ at \in [Surface -> SetUp \union Loop \union {"new", "finish", "ended"}]
         /\ DOMAIN local = Surface
         /\ made \in Surface \union {0}
         /\ gwidth \in Int /\ gheight \in Int
  BY Negation DEF IInv, TypeOK

\* The steps that leave the size and whoever takes it alone.
LEMMA SizeLeft ==
  ASSUME TakenInTurn, UNCHANGED size, ui' \in Storing <=> ui \in Storing,
         \A t \in Surface : at[t] \in Taking \/ at'[t] \in Taking
                              => at'[t] = at[t] /\ local'[t] = local[t]
  PROVE  TakenInTurn'
  BY DEF TakenInTurn, size, Taking

LEMMA RenderTakesInTurn ==
  ASSUME IInv, TakenInTurn, NEW t \in Surface, RenderStep(t)
  PROVE  TakenInTurn'
<1> USE ThreadTypes DEF Moves
<1>1. CASE InitGL(t) \/ InitGLWithoutWindow(t) \/ InitGLThrows(t) \/ Fill(t)
  BY <1>1, SizeLeft DEF InitGL, InitGLWithoutWindow, InitGLThrows, Fill, Taking, threads
<1>2. CASE SelectRead(t) \/ SelectSet(t) \/ SelectFilter(t)
  BY <1>2, SizeLeft DEF SelectRead, SelectSet, SelectFilter, Taking
<1>3. CASE Check(t) \/ EnterMonitor(t) \/ UpdateTexImage(t) \/ UpdateTexImageThrows(t)
  BY <1>3, SizeLeft DEF Check, EnterMonitor, UpdateTexImage, UpdateTexImageThrows, Taking
<1>4. CASE Draw(t) \/ DrawThrows(t) \/ Bind(t) \/ BindThrows(t) \/ Finish(t)
  BY <1>4, SizeLeft DEF Draw, DrawThrows, Bind, BindThrows, Finish, Taking, threads
<1>5. CASE CheckHeight(t)
  <2>1. CASE gheight < 0
    BY <1>5, <2>1 DEF CheckHeight, TakenInTurn, Taking
  <2>2. CASE ~(gheight < 0)
    BY <1>5, <2>2 DEF CheckHeight, TakenInTurn, Taking
  <2> QED
    BY <2>1, <2>2
<1>6. CASE ReadWidth(t) \/ ReadHeight(t)
  BY <1>6 DEF ReadWidth, ReadHeight, TakenInTurn, Taking, size
<1>7. CASE TakeWidth(t) \/ TakeHeight(t)
  <2>1. local[t] \in Int
    BY <1>7, Negation DEF TakeWidth, TakeHeight, IInv, LocalRead
  <2> QED
    BY <1>7, <2>1 DEF TakeWidth, TakeHeight, TakenInTurn, Taking
<1> QED
  BY <1>1, <1>2, <1>3, <1>4, <1>5, <1>6, <1>7 DEF RenderStep

LEMMA SizeInductive == IInv /\ TakenInTurn /\ [Next]_vars => TakenInTurn'
<1> SUFFICES ASSUME IInv, TakenInTurn, [Next]_vars PROVE TakenInTurn'
  OBVIOUS
<1> USE ThreadTypes DEF UiMoves
<1>1. CASE SurfaceTextureAvailable \/ SurfaceTextureSizeChanged
  <2>1. StoreWidth /\ at' = at /\ ui' \in Storing
    BY <1>1 DEF SurfaceTextureAvailable, SurfaceTextureSizeChanged, threads, Storing
  <2>2. gwidth' < 0
    BY <2>1, SizeAssumption DEF StoreWidth
  <2>3. ~crossed' => \A t \in Surface : at[t] \notin Taking
    BY <2>1 DEF StoreWidth
  <2> QED
    BY <2>1, <2>2, <2>3 DEF TakenInTurn
<1>2. CASE StoreHeight
  BY <1>2, SizeAssumption DEF StoreHeight, TakenInTurn, Storing, threads
<1>3. CASE StartThread \/ ReleaseProgram \/ ReleaseBuffer \/ PickSet
  <2>1. \A t \in Surface : at'[t] # at[t] => at[t] = "new" /\ at'[t] = "initGL"
    BY <1>3 DEF StartThread, ReleaseProgram, ReleaseBuffer, PickSet, threads, IInv, Fresh, Starting
  <2>2. local' = local /\ ui' \notin Storing /\ ui \notin Storing /\ UNCHANGED size
    BY <1>3 DEF StartThread, ReleaseProgram, ReleaseBuffer, PickSet, threads, Storing
  <2> QED
    BY <2>1, <2>2, SizeLeft DEF Taking
<1>4. CASE SurfaceTextureDestroyed \/ Pick
  BY <1>4, SizeLeft DEF SurfaceTextureDestroyed, Pick, threads, Storing
<1>5. CASE \E t \in Surface : RenderStep(t)
  BY <1>5, RenderTakesInTurn
<1>6. CASE NewProcess
  BY <1>6 DEF NewProcess, TakenInTurn, Storing, Taking
<1>7. CASE UNCHANGED vars
  BY <1>7, SizeLeft DEF vars, size
<1> QED
  BY <1>1, <1>2, <1>3, <1>4, <1>5, <1>6, <1>7 DEF Next, UiStep

LEMMA MonitorInductive == IInv /\ MonitorHeld /\ [Next]_vars => MonitorHeld'
<1> SUFFICES ASSUME IInv, MonitorHeld, [Next]_vars, Runs' PROVE MonitorHeld'
  BY DEF MonitorHeld
<1> USE ThreadTypes DEF MonitorHeld, UiMoves, Moves, Runs, Die
<1>1. CASE UiStep
  BY <1>1 DEF UiStep, StoreHeight, StartThread, ReleaseProgram, ReleaseBuffer, PickSet, threads,
     IInv, Fresh, Starting
<1>2. CASE SurfaceTextureAvailable \/ SurfaceTextureSizeChanged \/ SurfaceTextureDestroyed \/ Pick
  BY <1>2 DEF SurfaceTextureAvailable, SurfaceTextureSizeChanged, SurfaceTextureDestroyed, Pick,
     threads
<1>3. ASSUME NEW t \in Surface, RenderStep(t) PROVE MonitorHeld'
  <2>1. CASE EnterMonitor(t)
    <3>1. \A u \in Surface : at[u] # "texture"
      BY <2>1 DEF EnterMonitor, Surface, Null
    <3>2. monitor' = t /\ at' = [at EXCEPT ![t] = "texture"]
      BY <2>1 DEF EnterMonitor
    <3> QED
      BY <3>1, <3>2
  <2>6. CASE UpdateTexImage(t)
    <3>1. monitor' = Null /\ at' = [at EXCEPT ![t] = "draw"] /\ at[t] = "texture" /\ Runs
      BY <2>6 DEF UpdateTexImage
    <3>2. \A u \in Surface : at[u] = "texture" => u = t
      BY <3>1
    <3> QED
      BY <3>1, <3>2 DEF Surface, Null
  <2>2. CASE InitGL(t) \/ InitGLWithoutWindow(t) \/ Fill(t) \/ SelectRead(t) \/ SelectSet(t)
             \/ SelectFilter(t)
    BY <2>2 DEF InitGL, InitGLWithoutWindow, Fill, SelectRead, SelectSet, SelectFilter
  <2>3. CASE Check(t) \/ CheckHeight(t) \/ ReadWidth(t) \/ TakeWidth(t) \/ ReadHeight(t)
             \/ TakeHeight(t)
    BY <2>3 DEF Check, CheckHeight, ReadWidth, TakeWidth, ReadHeight, TakeHeight
  <2>4. CASE Draw(t) \/ Bind(t) \/ Finish(t)
    BY <2>4 DEF Draw, Bind, Finish
  <2>5. CASE InitGLThrows(t) \/ UpdateTexImageThrows(t) \/ DrawThrows(t) \/ BindThrows(t)
    BY <2>5 DEF InitGLThrows, UpdateTexImageThrows, DrawThrows, BindThrows
  <2> QED
    BY <1>3, <2>1, <2>2, <2>3, <2>4, <2>5, <2>6 DEF RenderStep
<1>4. CASE NewProcess
  BY <1>4 DEF NewProcess, Surface, Null
<1>5. CASE UNCHANGED vars
  BY <1>5 DEF vars
<1> QED
  BY <1>1, <1>2, <1>3, <1>4, <1>5 DEF Next

----------------------------------------------------------------------------
(* Where a render thread is, and where it goes *)

\* The thread of the surface the view has is neither interrupted nor at its end.
Current ==
    surface =>
      /\ made \notin interrupted
      /\ at[made] \notin {"finish", "ended"}
      /\ ui \notin Starting => at[made] # "new"

LInv == IInv /\ MonitorHeld /\ TakenInTurn /\ Current

\* The places run goes to from each of its places.
Then(p) ==
    CASE p = "initGL" -> {"fill"}
      [] p = "fill" -> {"fill", "select"}
      [] p = "select" -> {"set"}
      [] p = "set" -> {"lookup"}
      [] p = "lookup" -> {"check"}
      [] p = "check" -> {"checkHeight", "update", "finish"}
      [] p = "checkHeight" -> {"readWidth", "update"}
      [] p = "readWidth" -> {"storeWidth"}
      [] p = "storeWidth" -> {"readHeight"}
      [] p = "readHeight" -> {"storeHeight"}
      [] p = "storeHeight" -> {"update"}
      [] p = "update" -> {"texture"}
      [] p = "texture" -> {"draw"}
      [] p = "draw" -> {"bind"}
      [] p = "bind" -> {"check"}
      [] p = "finish" -> {"ended"}

\* What its own step does to a thread, and that it leaves the others alone.
LEMMA OwnStep ==
  ASSUME IInv, NEW t \in Surface, RenderStep(t)
  PROVE  /\ IsAlive(t)
         /\ ~Runs' \/ at'[t] \in Then(at[t])
         /\ at[t] = "check" /\ Runs' => (at'[t] = "finish" <=> t \in interrupted)
         /\ at[t] = "check" /\ gwidth < 0 => at'[t] # "update"
         /\ at[t] = "checkHeight" /\ gheight < 0 => at'[t] # "update"
         /\ at[t] = "storeHeight" => TakeHeight(t)
         /\ at[t] # "storeHeight" => gheight' = gheight
         /\ at[t] = "fill" /\ at'[t] = "fill" => local'[t] = local[t] + 1
         /\ \A k \in Surface : k # t => at'[k] = at[k] /\ local'[k] = local[k]
         /\ UNCHANGED <<ui, surface, made, interrupted>>
<1> USE ThreadTypes DEF Moves, Runs, Then, IsAlive, SetUp, Loop, Taking, view, threads, size
<1>1. CASE InitGL(t) \/ InitGLWithoutWindow(t)
  BY <1>1 DEF InitGL, InitGLWithoutWindow
<1>2. CASE InitGLThrows(t) \/ UpdateTexImageThrows(t) \/ DrawThrows(t) \/ BindThrows(t)
  BY <1>2 DEF InitGLThrows, UpdateTexImageThrows, DrawThrows, BindThrows, Die
<1>3. CASE Fill(t)
  BY <1>3 DEF Fill
<1>4. CASE SelectRead(t) \/ SelectSet(t) \/ SelectFilter(t)
  BY <1>4 DEF SelectRead, SelectSet, SelectFilter
<1>5. CASE Check(t) \/ CheckHeight(t)
  BY <1>5 DEF Check, CheckHeight
<1>6. CASE ReadWidth(t) \/ TakeWidth(t) \/ ReadHeight(t)
  BY <1>6 DEF ReadWidth, TakeWidth, ReadHeight
<1>7. CASE TakeHeight(t)
  BY <1>7 DEF TakeHeight
<1>8. CASE EnterMonitor(t) \/ UpdateTexImage(t)
  BY <1>8 DEF EnterMonitor, UpdateTexImage
<1>9. CASE Draw(t) \/ Bind(t)
  BY <1>9 DEF Draw, Bind
<1>10. CASE Finish(t)
  BY <1>10 DEF Finish
<1> QED
  BY <1>1, <1>2, <1>3, <1>4, <1>5, <1>6, <1>7, <1>8, <1>9, <1>10 DEF RenderStep

\* What the UI thread does to the render threads.
LEMMA UiMovesThreads ==
  ASSUME IInv, NEW t \in Surface,
         \/ UiStep \/ SurfaceTextureAvailable \/ SurfaceTextureSizeChanged
         \/ SurfaceTextureDestroyed \/ Pick
  PROVE  /\ UNCHANGED local
         /\ at'[t] = at[t] \/ (at[t] = "new" /\ at'[t] = "initGL" /\ t = made)
         /\ interrupted \subseteq interrupted'
         /\ UNCHANGED crash
<1> USE ThreadTypes DEF view, threads, UiMoves
<1>1. CASE StartThread
  BY <1>1 DEF StartThread, IInv, Fresh, Starting
<1>2. CASE StoreHeight \/ ReleaseProgram \/ ReleaseBuffer \/ PickSet \/ Pick
  BY <1>2 DEF StoreHeight, ReleaseProgram, ReleaseBuffer, PickSet, Pick
<1>3. CASE SurfaceTextureAvailable \/ SurfaceTextureSizeChanged \/ SurfaceTextureDestroyed
  BY <1>3 DEF SurfaceTextureAvailable, SurfaceTextureSizeChanged, SurfaceTextureDestroyed
<1> QED
  BY <1>1, <1>2, <1>3 DEF UiStep

LEMMA StepCurrent == IInv /\ Current /\ [Next]_vars => Current'
<1> SUFFICES ASSUME IInv, Current, [Next]_vars PROVE Current'
  OBVIOUS
<1> USE ThreadTypes DEF Current, Starting
<1>1. CASE SurfaceTextureAvailable
  <2>1. /\ surface' /\ made' = made + 1 /\ made' \in Surface /\ ui' \in Starting /\ at' = at
        /\ interrupted' \subseteq interrupted \union {made}
    BY <1>1, MaxSurfacesAssumption DEF SurfaceTextureAvailable, UiMoves, Surface
  <2>2. at[made'] = "new" /\ made' \notin interrupted
    BY <2>1 DEF IInv, Fresh, Surface
  <2> QED
    BY <2>1, <2>2, MaxSurfacesAssumption DEF Surface
<1>2. CASE UiStep
  <2>1. CASE StartThread
    BY <2>1 DEF StartThread, UiMoves, view, IInv, Fresh
  <2>2. CASE ReleaseProgram \/ ReleaseBuffer
    <3>1. ui \notin Starting /\ UNCHANGED <<surface, made, at, interrupted>>
      BY <2>2 DEF ReleaseProgram, ReleaseBuffer, UiMoves, view, threads
    <3> QED
      BY <3>1
  <2>3. CASE PickSet
    BY <2>3 DEF PickSet, UiMoves, view, threads
  <2>4. CASE StoreHeight
    <3>1. /\ UNCHANGED <<surface, made, at, interrupted>>
          /\ ui \in Starting <=> ui' \in Starting
      BY <2>4 DEF StoreHeight, UiMoves, view, threads
    <3> QED
      BY <3>1
  <2> QED
    BY <1>2, <2>1, <2>2, <2>3, <2>4 DEF UiStep
<1>3. CASE SurfaceTextureSizeChanged \/ SurfaceTextureDestroyed \/ Pick \/ NewProcess
  <2>1. CASE SurfaceTextureDestroyed \/ NewProcess
    BY <2>1 DEF SurfaceTextureDestroyed, NewProcess
  <2>2. CASE SurfaceTextureSizeChanged
    BY <2>2 DEF SurfaceTextureSizeChanged, UiMoves, view, threads
  <2>3. CASE Pick
    BY <2>3 DEF Pick, UiMoves, view, threads
  <2> QED
    BY <1>3, <2>1, <2>2, <2>3
<1>4. CASE \E t \in Surface : RenderStep(t)
  <2>1. PICK t \in Surface : RenderStep(t)
    BY <1>4
  <2>2. /\ at'[t] \in Then(at[t]) \/ ~Runs'
        /\ IsAlive(t) /\ UNCHANGED <<ui, surface, made, interrupted>>
        /\ at[t] = "check" /\ Runs' => (at'[t] = "finish" <=> t \in interrupted)
        /\ \A k \in Surface : k # t => at'[k] = at[k]
    BY <2>1, OwnStep
  <2>3. ~Runs' => at' = at
    BY <2>1 DEF RenderStep, InitGL, InitGLWithoutWindow, InitGLThrows, Fill, SelectRead,
       SelectSet, SelectFilter, Check, CheckHeight, ReadWidth, TakeWidth, ReadHeight, TakeHeight,
       EnterMonitor, UpdateTexImage, UpdateTexImageThrows, Draw, DrawThrows, Bind, BindThrows,
       Finish, Moves, Runs, threads
  <2>4. at[t] = "finish" => t \in interrupted \/ ~surface \/ t # made
    BY DEF Current
  <2>5. at[t] # "check" /\ at[t] # "finish" => at'[t] \notin {"new", "finish", "ended"}
    BY <2>2, <2>3 DEF Then, IsAlive, SetUp, Loop, Taking
  <2>6. at[t] = "check" => at'[t] \notin {"new", "ended"}
    BY <2>2, <2>3 DEF Then
  <2> QED
    BY <2>2, <2>3, <2>4, <2>5, <2>6 DEF IInv, Fresh
<1>5. CASE UNCHANGED vars
  BY <1>5 DEF vars
<1> QED
  BY <1>1, <1>2, <1>3, <1>4, <1>5 DEF Next

\* A thread that is alive is moved by nothing but its own steps.
LEMMA StepOfThread ==
  ASSUME IInv, NEW t \in Surface, Runs, IsAlive(t), [Next]_vars
  PROVE  /\ \/ ~Runs'
            \/ at'[t] \in Then(at[t])
            \/ at'[t] = at[t]
         /\ at'[t] # at[t] => RenderStep(t)
         /\ at[t] = "fill" /\ at'[t] = "fill" => local'[t] = local[t] \/ RenderStep(t)
         /\ t \in interrupted => t \in interrupted'
<1>1. CASE \E k \in Surface : RenderStep(k)
  <2>1. PICK k \in Surface : RenderStep(k)
    BY <1>1
  <2> QED
    BY <2>1, OwnStep
<1>2. CASE UiStep \/ SurfaceTextureAvailable \/ SurfaceTextureSizeChanged
           \/ SurfaceTextureDestroyed \/ Pick
  BY <1>2, UiMovesThreads DEF IsAlive, SetUp, Loop, Taking
<1>3. ~NewProcess
  BY DEF NewProcess, IsAlive
<1>4. CASE UNCHANGED vars
  BY <1>4 DEF vars
<1> QED
  BY <1>1, <1>2, <1>3, <1>4 DEF Next

----------------------------------------------------------------------------
(* A render thread goes on.  Fairness speaks of what is ENABLED, which the    *)
(* provers cannot expand: that the guards of the steps decide it is           *)
(* StepsFollowGuards, which enters as a hypothesis and which TLC checks.      *)
(* That a thread waits at the monitor only, and for whom, is proved.          *)

LEMMA GivenBack == IInv /\ MonitorHeld => MonitorIsGivenBack
  BY DEF IInv, TypeOK, MonitorHeld, MonitorIsGivenBack, WaitsForMonitor, RenderCanStep, IsAlive,
     SetUp, Loop, Taking

LEMMA NeverStuck ==
  ASSUME IInv, NoThreadIsStuck, Runs
  PROVE  /\ ui # "idle" => ENABLED <<UiStep>>_vars
         /\ \A t \in Surface : IsAlive(t) /\ ~WaitsForMonitor(t) => ENABLED <<RenderStep(t)>>_vars
  BY DEF IInv, TypeOK, UI, NoThreadIsStuck, StepsFollowGuards, UiCanStep, RenderCanStep

Going == []LInv /\ []NoThreadIsStuck /\ [][Next]_vars /\ Fairness

\* The places where a thread waits for nobody.
Places == {"initGL", "select", "set", "lookup", "check", "checkHeight", "readWidth",
           "storeWidth", "readHeight", "storeHeight", "texture", "draw", "bind", "finish"}

At(t, p) == Runs /\ at[t] = p
Left(t, p) == (Runs /\ at[t] \in Then(p) \ {p}) \/ ~Runs
Goes(t, p) == At(t, p) ~> Left(t, p)

LEMMA PlaceIsLeft ==
  ASSUME NEW t \in Surface, NEW p \in Places \union {"update"}, LInv, At(t, p)
  PROVE  /\ [Next]_vars => At(t, p)' \/ Left(t, p)'
         /\ <<RenderStep(t)>>_vars => Left(t, p)'
         /\ IsAlive(t)
<1> USE DEF Places, SetUp, Loop, Taking, IsAlive
<1>1. ASSUME [Next]_vars PROVE At(t, p)' \/ Left(t, p)'
  BY <1>1, StepOfThread DEF LInv, At, Left, Then
<1>2. ASSUME <<RenderStep(t)>>_vars PROVE Left(t, p)'
  BY <1>2, OwnStep DEF LInv, At, Left, Then
<1> QED
  BY <1>1, <1>2 DEF At

LEMMA ThreadGoesOn ==
  ASSUME NEW t \in Surface, NEW p \in Places
  PROVE  Going => Goes(t, p)
<1>1. LInv /\ At(t, p) /\ [Next]_vars => At(t, p)' \/ Left(t, p)'
  BY PlaceIsLeft
<1>2. LInv /\ At(t, p) /\ <<RenderStep(t)>>_vars => Left(t, p)'
  BY PlaceIsLeft
<1>3. LInv /\ NoThreadIsStuck /\ At(t, p) => ENABLED <<RenderStep(t)>>_vars
  BY PlaceIsLeft, NeverStuck DEF LInv, At, WaitsForMonitor, Places
<1>4. Fairness => RenderGoesOn(t)
  BY DEF Fairness
<1> QED
  BY <1>1, <1>2, <1>3, <1>4, PTL DEF Going, RenderGoesOn, Goes

----------------------------------------------------------------------------
(* The monitor is given back, again and again *)

Holds(t) == Runs /\ monitor = t
Free == monitor = Null \/ ~Runs
ComesFree == <>Free
IfHeld(t) == Holds(t) => ComesFree

LEMMA HolderLeaves ==
  ASSUME NEW t \in Surface
  PROVE  Going => []IfHeld(t)
<1>1. LInv /\ Holds(t) => At(t, "texture")
  BY DEF LInv, MonitorHeld, Holds, At
<1>2. LInv /\ Holds(t) /\ [Next]_vars => Holds(t)' \/ Free'
  <2> SUFFICES ASSUME LInv, Runs, monitor = t, [Next]_vars, Runs', at[t] = "texture"
               PROVE  monitor' = t \/ monitor' = Null
    BY <1>1 DEF Holds, Free, At
  <2>1. IInv' /\ MonitorHeld'
    BY Inductive, MonitorInductive DEF LInv
  <2>2. ASSUME NEW u \in Surface, monitor' = u, u # t PROVE FALSE
    <3>1. at'[u] = "texture"
      BY <2>1, <2>2 DEF MonitorHeld
    <3>2. at[u] # "texture"
      BY <2>2 DEF LInv, MonitorHeld
    <3>3. CASE \E k \in Surface : RenderStep(k)
      <4>1. RenderStep(u)
        BY <3>1, <3>2, <3>3, OwnStep DEF LInv
      <4>2. at[u] = "update"
        BY <3>1, <4>1, OwnStep DEF LInv, Then, IsAlive, SetUp, Loop, Taking
      <4>3. ~EnterMonitor(u)
        BY DEF EnterMonitor, Surface, Null
      <4> QED
        BY <4>1, <4>2, <4>3 DEF RenderStep, InitGL, InitGLWithoutWindow, InitGLThrows, Fill,
           SelectRead, SelectSet, SelectFilter, Check, CheckHeight, ReadWidth, TakeWidth,
           ReadHeight, TakeHeight, UpdateTexImage, UpdateTexImageThrows, Draw, DrawThrows, Bind,
           BindThrows, Finish, Moves
    <3>4. CASE UiStep \/ SurfaceTextureAvailable \/ SurfaceTextureSizeChanged
               \/ SurfaceTextureDestroyed \/ Pick
      BY <3>1, <3>2, <3>4, UiMovesThreads DEF LInv
    <3>5. ~NewProcess
      BY DEF NewProcess, IsAlive, Loop
    <3>6. CASE UNCHANGED vars
      BY <3>1, <3>2, <3>6 DEF vars
    <3> QED
      BY <3>3, <3>4, <3>5, <3>6 DEF Next
  <2> QED
    BY <2>1, <2>2 DEF IInv, TypeOK
<1>3. Left(t, "texture") => ~At(t, "texture")
  BY DEF Left, At, Then
<1>4. Going => Goes(t, "texture")
  BY ThreadGoesOn DEF Places
<1> QED
  BY <1>1, <1>2, <1>3, <1>4, PTL DEF Going, Goes, IfHeld, ComesFree

LEMMA MonitorComesFree == Going => []ComesFree
<1>1. Going => \A t \in Surface : []IfHeld(t)
  BY HolderLeaves
<1>2. (\A t \in Surface : []IfHeld(t)) => [](\A t \in Surface : IfHeld(t))
  OBVIOUS
<1>3. LInv => Free \/ \E t \in Surface : Holds(t)
  BY DEF LInv, IInv, TypeOK, Free, Holds
<1>4. (\A t \in Surface : IfHeld(t)) /\ (\E t \in Surface : Holds(t)) => ComesFree
  BY DEF IfHeld
<1>5. Going => [](\A t \in Surface : IfHeld(t))
  BY <1>1, <1>2
<1> QED
  BY <1>3, <1>4, <1>5, PTL DEF Going, ComesFree

\* Whoever waits for the monitor gets it: the one place where the fairness has to be
\* strong.
LEMMA MonitorIsHad ==
  ASSUME NEW t \in Surface
  PROVE  Going => Goes(t, "update")
<1>1. LInv /\ At(t, "update") /\ [Next]_vars => At(t, "update")' \/ Left(t, "update")'
  BY PlaceIsLeft
<1>2. LInv /\ At(t, "update") /\ <<RenderStep(t)>>_vars => Left(t, "update")'
  BY PlaceIsLeft
<1>3. LInv /\ NoThreadIsStuck /\ At(t, "update") /\ Free => ENABLED <<RenderStep(t)>>_vars
  BY PlaceIsLeft, NeverStuck DEF LInv, At, WaitsForMonitor, Free
<1>4. Fairness => RenderGoesOn(t)
  BY DEF Fairness
<1>5. Going => []ComesFree
  BY MonitorComesFree
<1> QED
  BY <1>1, <1>2, <1>3, <1>4, <1>5, PTL DEF Going, RenderGoesOn, Goes, ComesFree

\* The loop over the filters, from the n-th on.
FillFrom(t, n) == At(t, "fill") /\ local[t] >= n
Fills(t, n, m) == FillFrom(t, n) ~> FillFrom(t, m) \/ Left(t, "fill")

LEMMA FillGoesOn ==
  ASSUME NEW t \in Surface, NEW n \in Nat, NEW m, m = n + 1
  PROVE  Going => Fills(t, n, m)
<1> DEFINE More == FillFrom(t, m) \/ Left(t, "fill")
<1>1. LInv /\ At(t, "fill") => IsAlive(t) /\ local[t] \in Nat
  BY DEF LInv, IInv, LocalRead, At, Id, IsAlive, SetUp
<1>2. LInv /\ FillFrom(t, n) /\ [Next]_vars => FillFrom(t, n)' \/ More'
  BY <1>1, StepOfThread, OwnStep DEF LInv, FillFrom, At, Left, Then
<1>3. LInv /\ FillFrom(t, n) /\ <<RenderStep(t)>>_vars => More'
  BY <1>1, OwnStep DEF LInv, FillFrom, At, Left, Then
<1>4. LInv /\ NoThreadIsStuck /\ FillFrom(t, n) => ENABLED <<RenderStep(t)>>_vars
  BY <1>1, NeverStuck DEF LInv, FillFrom, At, WaitsForMonitor
<1>5. Fairness => RenderGoesOn(t)
  BY DEF Fairness
<1> QED
  BY <1>2, <1>3, <1>4, <1>5, PTL DEF Going, RenderGoesOn, Fills

\* The code has 21 filters.
LEMMA FillEnds ==
  ASSUME Filters <= 21, NEW t \in Surface
  PROVE  Going => Goes(t, "fill")
<1>1. Going =>
        /\ Fills(t, 1, 2) /\ Fills(t, 2, 3) /\ Fills(t, 3, 4)
        /\ Fills(t, 4, 5) /\ Fills(t, 5, 6) /\ Fills(t, 6, 7)
        /\ Fills(t, 7, 8) /\ Fills(t, 8, 9) /\ Fills(t, 9, 10)
        /\ Fills(t, 10, 11) /\ Fills(t, 11, 12) /\ Fills(t, 12, 13)
        /\ Fills(t, 13, 14) /\ Fills(t, 14, 15) /\ Fills(t, 15, 16)
        /\ Fills(t, 16, 17) /\ Fills(t, 17, 18) /\ Fills(t, 18, 19)
        /\ Fills(t, 19, 20) /\ Fills(t, 20, 21) /\ Fills(t, 21, 22)
  BY FillGoesOn
<1>2. LInv => ~FillFrom(t, 22)
  BY FiltersAssumption DEF LInv, IInv, LocalRead, FillFrom, At, Id
<1>3. LInv /\ At(t, "fill") => FillFrom(t, 1)
  BY DEF LInv, IInv, LocalRead, FillFrom, At, Id
<1> QED
  BY <1>1, <1>2, <1>3, PTL DEF Going, Fills, Goes


----------------------------------------------------------------------------
(* A thread that was interrupted ends *)

Stops(t) == Runs /\ IsAlive(t) /\ t \in interrupted
Over(t) == at[t] \in {"ended", "new"} \/ ~Runs
Ends(t) == Stops(t) ~> Over(t)

LEMMA WhereItGoes ==
  ASSUME NEW t \in Surface
  PROVE  /\ Left(t, "initGL") => At(t, "fill") \/ ~Runs
         /\ Left(t, "fill") => At(t, "select") \/ ~Runs
         /\ Left(t, "select") => At(t, "set") \/ ~Runs
         /\ Left(t, "set") => At(t, "lookup") \/ ~Runs
         /\ Left(t, "lookup") => At(t, "check") \/ ~Runs
         /\ Left(t, "check") =>
              At(t, "checkHeight") \/ At(t, "update") \/ At(t, "finish") \/ ~Runs
         /\ Left(t, "check") => ~At(t, "check")
         /\ Left(t, "checkHeight") => At(t, "readWidth") \/ At(t, "update") \/ ~Runs
         /\ Left(t, "checkHeight") => ~At(t, "checkHeight")
         /\ Left(t, "readWidth") => At(t, "storeWidth") \/ ~Runs
         /\ Left(t, "storeWidth") => At(t, "readHeight") \/ ~Runs
         /\ Left(t, "readHeight") => At(t, "storeHeight") \/ ~Runs
         /\ Left(t, "storeHeight") => At(t, "update") \/ ~Runs
         /\ Left(t, "update") => At(t, "texture") \/ ~Runs
         /\ Left(t, "texture") => At(t, "draw") \/ ~Runs
         /\ Left(t, "draw") => At(t, "bind") \/ ~Runs
         /\ Left(t, "bind") => At(t, "check") \/ ~Runs
         /\ Left(t, "finish") => Over(t)
  BY DEF At, Left, Then, Over

LEMMA EveryPlace ==
  ASSUME Filters <= 21, NEW t \in Surface
  PROVE  Going =>
        /\ Goes(t, "initGL") /\ Goes(t, "fill") /\ Goes(t, "select") /\ Goes(t, "set")
        /\ Goes(t, "lookup") /\ Goes(t, "check") /\ Goes(t, "checkHeight")
        /\ Goes(t, "readWidth") /\ Goes(t, "storeWidth") /\ Goes(t, "readHeight")
        /\ Goes(t, "storeHeight") /\ Goes(t, "update") /\ Goes(t, "texture")
        /\ Goes(t, "draw") /\ Goes(t, "bind") /\ Goes(t, "finish")
  BY FillEnds, MonitorIsHad, ThreadGoesOn DEF Places

\* From anywhere in the loop, its head is reached, or the process ends.
Heads(t) == Runs /\ at[t] \in Loop ~> At(t, "check") \/ ~Runs

LEMMA LoopComesRound ==
  ASSUME Filters <= 21, NEW t \in Surface
  PROVE  Going => Heads(t)
<1>1. Going =>
        /\ Goes(t, "checkHeight") /\ Goes(t, "readWidth") /\ Goes(t, "storeWidth")
        /\ Goes(t, "readHeight") /\ Goes(t, "storeHeight") /\ Goes(t, "update")
        /\ Goes(t, "texture") /\ Goes(t, "draw") /\ Goes(t, "bind")
  BY EveryPlace
<1>2. Runs /\ at[t] \in Loop =>
        \/ At(t, "check") \/ At(t, "checkHeight") \/ At(t, "readWidth") \/ At(t, "storeWidth")
        \/ At(t, "readHeight") \/ At(t, "storeHeight") \/ At(t, "update") \/ At(t, "texture")
        \/ At(t, "draw") \/ At(t, "bind")
  BY DEF At, Loop, Taking
<1> QED
  BY <1>1, <1>2, WhereItGoes, PTL DEF Going, Goes, Heads

LEMMA InterruptedThreadEnds ==
  ASSUME Filters <= 21, NEW t \in Surface
  PROVE  Going => Ends(t)
<1>1. Going =>
        /\ Goes(t, "initGL") /\ Goes(t, "fill") /\ Goes(t, "select") /\ Goes(t, "set")
        /\ Goes(t, "lookup") /\ Goes(t, "check") /\ Goes(t, "finish") /\ Heads(t)
  BY EveryPlace, LoopComesRound
<1>2. Stops(t) =>
        \/ At(t, "initGL") \/ At(t, "fill") \/ At(t, "select") \/ At(t, "set")
        \/ At(t, "lookup") \/ (Runs /\ at[t] \in Loop) \/ At(t, "finish")
  BY DEF Stops, IsAlive, At, SetUp
<1>3. LInv /\ Stops(t) /\ [Next]_vars => Stops(t)' \/ Over(t)'
  <2>1. LInv /\ Stops(t) /\ [Next]_vars => ~Runs' \/ at'[t] = at[t] \/ at'[t] \in Then(at[t])
    BY StepOfThread DEF LInv, Stops
  <2>2. LInv /\ Stops(t) /\ [Next]_vars => t \in interrupted'
    BY StepOfThread DEF LInv, Stops
  <2> QED
    BY <2>1, <2>2 DEF Stops, Over, IsAlive, Then, SetUp, Loop, Taking
<1>4. LInv /\ Stops(t) /\ At(t, "check") /\ [Next]_vars =>
        At(t, "check")' \/ At(t, "finish")' \/ Over(t)'
  <2> SUFFICES ASSUME LInv, Stops(t), at[t] = "check", [Next]_vars, Runs'
               PROVE  at'[t] \in {"check", "finish"}
    BY DEF At, Over
  <2>1. at'[t] # at[t] => RenderStep(t)
    BY StepOfThread DEF LInv, Stops
  <2> QED
    BY <2>1, OwnStep DEF LInv, Stops
<1>5. ~Runs => Over(t)
  BY DEF Over
<1> QED
  BY <1>1, <1>2, <1>3, <1>4, <1>5, WhereItGoes, PTL DEF Going, Goes, Heads, Ends

----------------------------------------------------------------------------
(* A new size is taken *)

Taken == (gwidth >= 0 /\ gheight >= 0) \/ crossed \/ ~surface \/ ~Runs
SizeIsTaken == <>Taken

\* Thread u is taking the size: it may be a predecessor that was interrupted.
Takes(u) == Runs /\ surface /\ ~crossed /\ at[u] \in Taking
SomeTakes == \E u \in Surface : Takes(u)
IfTakes(u) == Takes(u) => SizeIsTaken

\* Thread t, that of the surface the view has, is to take a size: of which only the
\* width is there, or both.
Resizes(t) == Runs /\ surface /\ made = t /\ ~crossed /\ (gwidth < 0 \/ gheight < 0)
Low(t) == Resizes(t) /\ ~(gheight < 0)
Wants(t) == Resizes(t) /\ gheight < 0
Starts(t, p) == Wants(t) /\ ui = p
IfResized(t) == Resizes(t) => SizeIsTaken

LEMMA ViewStays ==
  ASSUME IInv, Runs, surface, [Next]_vars
  PROVE  /\ made' = made
         /\ ui \in Starting => ui' = ui \/ UiStep
<1>1. CASE \E t \in Surface : RenderStep(t)
  BY <1>1, OwnStep
<1>2. CASE UiStep \/ SurfaceTextureSizeChanged \/ SurfaceTextureDestroyed \/ Pick
  BY <1>2 DEF UiStep, StoreHeight, StartThread, ReleaseProgram, ReleaseBuffer, PickSet, UiMoves,
     view, SurfaceTextureSizeChanged, SurfaceTextureDestroyed, Pick, Starting
<1>3. ~SurfaceTextureAvailable /\ ~NewProcess
  BY DEF SurfaceTextureAvailable, NewProcess
<1>4. CASE UNCHANGED vars
  BY <1>4 DEF vars
<1> QED
  BY <1>1, <1>2, <1>3, <1>4 DEF Next

\* The height is taken by a thread that has taken the width before.
LEMMA HeightIsLast ==
  ASSUME LInv, NEW u \in Surface, ~crossed, at[u] = "storeHeight", RenderStep(u)
  PROVE  Taken'
<1>1. TakeHeight(u)
  BY OwnStep DEF LInv
<1>2. local[u] > 0 /\ ~(gwidth < 0)
  BY DEF LInv, TakenInTurn, Taking
<1>3. local[u] \in Int /\ gwidth \in Int
  BY ThreadTypes, Negation DEF LInv, IInv, LocalRead
<1> QED
  BY <1>1, <1>2, <1>3, ThreadTypes DEF LInv, TakeHeight, Taken

LEMMA StepOfTaking ==
  ASSUME NEW u \in Surface, LInv, Takes(u), [Next]_vars
  PROVE  Takes(u)' \/ Taken'
<1> SUFFICES ASSUME Runs', surface', ~crossed', at'[u] \notin Taking
             PROVE  Taken'
  BY DEF Takes, Taken
<1>1. IsAlive(u)
  BY DEF Takes, IsAlive, Loop
<1>2. RenderStep(u) /\ at'[u] \in Then(at[u])
  BY <1>1, StepOfThread DEF Takes, LInv
<1>3. at[u] = "storeHeight"
  BY <1>2 DEF Takes, Then, Taking
<1> QED
  BY <1>2, <1>3, HeightIsLast DEF Takes

LEMMA TakingEnds ==
  ASSUME Filters <= 21, NEW u \in Surface
  PROVE  Going => []IfTakes(u)
<1>1. Going => /\ Goes(u, "readWidth") /\ Goes(u, "storeWidth")
               /\ Goes(u, "readHeight") /\ Goes(u, "storeHeight")
  BY EveryPlace
<1>2. LInv /\ Takes(u) /\ [Next]_vars => Takes(u)' \/ Taken'
  BY StepOfTaking
<1>3. Takes(u) => \/ At(u, "readWidth") \/ At(u, "storeWidth")
                  \/ At(u, "readHeight") \/ At(u, "storeHeight")
  BY DEF Takes, At, Taking
<1>4. At(u, "update") => ~Takes(u)
  BY DEF Takes, At, Taking
<1>5. ~Runs => Taken
  BY DEF Taken
<1>6. /\ Left(u, "readWidth") => At(u, "storeWidth") \/ ~Runs
      /\ Left(u, "storeWidth") => At(u, "readHeight") \/ ~Runs
      /\ Left(u, "readHeight") => At(u, "storeHeight") \/ ~Runs
      /\ Left(u, "storeHeight") => At(u, "update") \/ ~Runs
  BY WhereItGoes
<1> QED
  BY <1>1, <1>2, <1>3, <1>4, <1>5, <1>6, PTL DEF Going, Goes, IfTakes, SizeIsTaken

LEMMA SomeTakingEnds ==
  ASSUME Filters <= 21
  PROVE  Going => [](SomeTakes => SizeIsTaken)
<1>1. Going => \A u \in Surface : []IfTakes(u)
  BY TakingEnds
<1>2. (\A u \in Surface : []IfTakes(u)) => [](\A u \in Surface : IfTakes(u))
  OBVIOUS
<1>3. (\A u \in Surface : IfTakes(u)) => (SomeTakes => SizeIsTaken)
  BY DEF IfTakes, SomeTakes
<1>4. Going => [](\A u \in Surface : IfTakes(u))
  BY <1>1, <1>2
<1> QED
  BY <1>3, <1>4, PTL

LEMMA StepOfResize ==
  ASSUME NEW t \in Surface, LInv, Resizes(t), [Next]_vars
  PROVE  Resizes(t)' \/ Taken'
<1>1. IInv'
  BY Inductive DEF LInv
<1>2. gwidth' \in Int /\ gheight' \in Int
  BY <1>1, Negation DEF IInv, TypeOK
<1>3. made' = t
  BY ViewStays DEF LInv, Resizes
<1> QED
  BY <1>2, <1>3 DEF Resizes, Taken

\* While only the width is there, the UI thread is between its two stores.
LEMMA StepOfLow ==
  ASSUME NEW t \in Surface, LInv, Low(t)
  PROVE  /\ ui \in Storing
         /\ UiStep => Wants(t)' \/ Taken'
<1>1. ui \in Storing
  BY DEF LInv, TakenInTurn, Low, Resizes
<1>2. ASSUME UiStep PROVE Wants(t)' \/ Taken'
  <2>1. StoreHeight
    BY <1>1, <1>2 DEF UiStep, StartThread, ReleaseProgram, ReleaseBuffer, PickSet, UiMoves, Storing
  <2>2. gheight' < 0 /\ gwidth' = gwidth /\ UNCHANGED <<crash, surface, made, crossed>>
    BY <2>1, SizeAssumption DEF StoreHeight, view
  <2> QED
    BY <2>2 DEF Low, Resizes, Wants, Runs
<1> QED
  BY <1>1, <1>2

\* Once both are there, they are until the size is taken.
LEMMA StepOfWants ==
  ASSUME NEW t \in Surface, LInv, Wants(t), [Next]_vars
  PROVE  Wants(t)' \/ Taken'
<1>1. Resizes(t)' \/ Taken'
  BY StepOfResize DEF Wants
<1>2. CASE \E u \in Surface : RenderStep(u)
  <2>1. PICK u \in Surface : RenderStep(u)
    BY <1>2
  <2>2. CASE at[u] = "storeHeight"
    BY <2>1, <2>2, HeightIsLast DEF Wants, Resizes
  <2>3. CASE at[u] # "storeHeight"
    BY <1>1, <2>1, <2>3, OwnStep DEF LInv, Wants
  <2> QED
    BY <2>2, <2>3
<1>3. CASE UiStep
  <2>1. StoreHeight => gheight' < 0
    BY SizeAssumption DEF StoreHeight
  <2>2. ~StoreHeight => gheight' = gheight
    BY <1>3 DEF UiStep, StartThread, ReleaseProgram, ReleaseBuffer, PickSet, size
  <2> QED
    BY <1>1, <2>1, <2>2 DEF Wants
<1>4. CASE SurfaceTextureSizeChanged \/ SurfaceTextureDestroyed \/ Pick
  <2>1. gheight' = gheight
    BY <1>4 DEF SurfaceTextureSizeChanged, SurfaceTextureDestroyed, Pick, StoreWidth, size
  <2> QED
    BY <1>1, <2>1 DEF Wants
<1>5. ~SurfaceTextureAvailable /\ ~NewProcess
  BY DEF Wants, Resizes, SurfaceTextureAvailable, NewProcess
<1>6. CASE UNCHANGED vars
  BY <1>1, <1>6 DEF vars, Wants
<1> QED
  BY <1>2, <1>3, <1>4, <1>5, <1>6 DEF Next

\* At the tests, the thread of the surface takes the size, or another does already.
LEMMA StepOfTest ==
  ASSUME NEW t \in Surface, LInv, Wants(t), [Next]_vars
  PROVE  /\ At(t, "check") => At(t, "check")' \/ At(t, "checkHeight")' \/ SomeTakes \/ Taken'
         /\ At(t, "checkHeight") => At(t, "checkHeight")' \/ SomeTakes' \/ Taken'
<1>1. IInv /\ Runs /\ surface /\ made = t /\ t \notin interrupted /\ gheight < 0 /\ ~crossed
  BY DEF LInv, Current, Wants, Resizes
<1>2. ASSUME at[t] \in {"check", "checkHeight"}
      PROVE  at'[t] # at[t] => RenderStep(t)
  BY <1>1, <1>2, StepOfThread DEF IsAlive, Loop
<1>3. ASSUME at[t] = "check", ~SomeTakes, Runs' PROVE at'[t] \in {"check", "checkHeight"}
  <2>1. \A u \in Surface : at[u] \notin Taking
    BY <1>1, <1>3 DEF SomeTakes, Takes
  <2>2. gwidth < 0
    BY <1>1, <2>1, ThreadTypes DEF LInv, TakenInTurn
  <2> QED
    BY <1>1, <1>2, <1>3, <2>2, OwnStep DEF Then
<1>4. ASSUME at[t] = "checkHeight", Runs', surface', ~crossed'
      PROVE  at'[t] = "checkHeight" \/ SomeTakes'
  <2>1. at'[t] \in {"checkHeight", "readWidth"}
    BY <1>1, <1>2, <1>4, OwnStep DEF Then
  <2> QED
    BY <1>4, <2>1 DEF SomeTakes, Takes, Taking
<1> QED
  BY <1>3, <1>4 DEF At, Taken

LEMMA UiStarts ==
  ASSUME NEW t \in Surface
  PROVE  /\ Going => (Starts(t, "startHeight") ~> Starts(t, "start") \/ Taken)
         /\ Going => (Starts(t, "start") ~> At(t, "initGL") \/ Taken)
<1>1. LInv /\ Starts(t, "startHeight") /\ UiStep => ui' = "start"
  BY DEF Starts, UiStep, StoreHeight, StartThread, ReleaseProgram, ReleaseBuffer, PickSet, UiMoves
<1>2. LInv /\ Starts(t, "start") /\ UiStep => At(t, "initGL")'
  BY ThreadTypes DEF LInv, Starts, Wants, Resizes, UiStep, StoreHeight, StartThread,
     ReleaseProgram, ReleaseBuffer, PickSet, UiMoves, At, Runs
<1>3. LInv /\ Starts(t, "startHeight") /\ [Next]_vars =>
        Starts(t, "startHeight")' \/ (Starts(t, "start")' \/ Taken')
  BY <1>1, StepOfWants, ViewStays DEF Starts, Starting, LInv, Wants, Resizes
<1>4. LInv /\ Starts(t, "start") /\ [Next]_vars =>
        Starts(t, "start")' \/ (At(t, "initGL")' \/ Taken')
  BY <1>2, StepOfWants, ViewStays DEF Starts, Starting, LInv, Wants, Resizes
<1>5. LInv /\ Starts(t, "startHeight") /\ <<UiStep>>_vars => Starts(t, "start")' \/ Taken'
  BY <1>1, <1>3 DEF Starts, Next
<1>6. /\ NoThreadIsStuck /\ LInv /\ Starts(t, "startHeight") => ENABLED <<UiStep>>_vars
      /\ NoThreadIsStuck /\ LInv /\ Starts(t, "start") => ENABLED <<UiStep>>_vars
  BY NeverStuck DEF Starts, Wants, Resizes, LInv
<1>7. Fairness => UiGoesOn
  BY DEF Fairness
<1>8. Going => (Starts(t, "startHeight") ~> Starts(t, "start") \/ Taken)
  BY <1>3, <1>5, <1>6, <1>7, PTL DEF Going, UiGoesOn
<1>9. Going => (Starts(t, "start") ~> At(t, "initGL") \/ Taken)
  BY <1>2, <1>4, <1>6, <1>7, PTL DEF Going, UiGoesOn
<1> QED
  BY <1>8, <1>9

\* The second store of the UI thread comes.
LEMMA HeightComes ==
  ASSUME NEW t \in Surface
  PROVE  Going => (Low(t) ~> Wants(t) \/ Taken)
<1>1. LInv /\ Low(t) /\ [Next]_vars => Low(t)' \/ (Wants(t)' \/ Taken')
  BY StepOfResize DEF Low, Wants
<1>2. LInv /\ Low(t) /\ <<UiStep>>_vars => Wants(t)' \/ Taken'
  BY StepOfLow
<1>3. NoThreadIsStuck /\ LInv /\ Low(t) => ENABLED <<UiStep>>_vars
  BY StepOfLow, NeverStuck DEF Low, Resizes, LInv, Storing
<1>4. Fairness => UiGoesOn
  BY DEF Fairness
<1> QED
  BY <1>1, <1>2, <1>3, <1>4, PTL DEF Going, UiGoesOn

\* The thread of the surface comes to the tests, and there is a thread that takes it.
LEMMA WantsAreTaken ==
  ASSUME Filters <= 21, NEW t \in Surface
  PROVE  Going => (Wants(t) ~> Taken)
<1>1. Going =>
        /\ Goes(t, "initGL") /\ Goes(t, "fill") /\ Goes(t, "select") /\ Goes(t, "set")
        /\ Goes(t, "lookup") /\ Goes(t, "check") /\ Goes(t, "checkHeight") /\ Heads(t)
  BY EveryPlace, LoopComesRound
<1>2. LInv /\ Wants(t) =>
        \/ Starts(t, "startHeight") \/ Starts(t, "start")
        \/ At(t, "initGL") \/ At(t, "fill") \/ At(t, "select") \/ At(t, "set")
        \/ At(t, "lookup") \/ (Runs /\ at[t] \in Loop)
  BY DEF LInv, Current, Wants, Resizes, Starts, Starting, At, IInv, TypeOK, SetUp
<1>3. LInv /\ Wants(t) /\ [Next]_vars => Wants(t)' \/ Taken'
  BY StepOfWants
<1>4. /\ LInv /\ Wants(t) /\ At(t, "check") /\ [Next]_vars =>
           At(t, "check")' \/ At(t, "checkHeight")' \/ SomeTakes \/ Taken'
      /\ LInv /\ Wants(t) /\ At(t, "checkHeight") /\ [Next]_vars =>
           At(t, "checkHeight")' \/ SomeTakes' \/ Taken'
  BY StepOfTest
<1>5. ~Runs => Taken
  BY DEF Taken
<1>6. Going => [](SomeTakes => SizeIsTaken)
  BY SomeTakingEnds
<1>7. /\ Going => (Starts(t, "startHeight") ~> Starts(t, "start") \/ Taken)
      /\ Going => (Starts(t, "start") ~> At(t, "initGL") \/ Taken)
  BY UiStarts
<1> QED
  BY <1>1, <1>2, <1>3, <1>4, <1>5, <1>6, <1>7, WhereItGoes, PTL
     DEF Going, Goes, Heads, SizeIsTaken

LEMMA EveryResizeEnds ==
  ASSUME Filters <= 21
  PROVE  Going => [](\A t \in Surface : IfResized(t))
<1>1. ASSUME NEW t \in Surface PROVE Going => []IfResized(t)
  <2>1. Going => (Low(t) ~> Wants(t) \/ Taken)
    BY HeightComes
  <2>2. Going => (Wants(t) ~> Taken)
    BY WantsAreTaken
  <2>3. Resizes(t) => Low(t) \/ Wants(t)
    BY DEF Low, Wants
  <2> QED
    BY <2>1, <2>2, <2>3, PTL DEF IfResized, SizeIsTaken
<1>2. Going => \A t \in Surface : []IfResized(t)
  BY <1>1
<1>3. (\A t \in Surface : []IfResized(t)) => [](\A t \in Surface : IfResized(t))
  OBVIOUS
<1> QED
  BY <1>2, <1>3

----------------------------------------------------------------------------
(* The theorems *)

\* The invariant of the render loop holds in every state.
THEOREM Invariance == Spec => []IInv
  BY InitIInv, Inductive, PTL DEF Spec

\* Every variable keeps its type, for any number of surfaces and filters.
THEOREM TypeCorrect == Spec => []TypeOK
  <1>1. IInv => TypeOK
    BY DEF IInv
  <1> QED
    BY <1>1, Invariance, PTL

\* Every render thread but that of the surface the view has was interrupted.
THEOREM OneGoesOn == Spec => []OneRenderer
  <1>1. IInv => OneRenderer
    BY DEF IInv
  <1> QED
    BY <1>1, Invariance, PTL

\* The buffer and the window are missed only by a thread that was interrupted.
THEOREM LossesNeedInterrupts == Spec => []LossNeedsInterrupt
  <1>1. IInv => LossNeedsInterrupt
    BY DEF IInv
  <1> QED
    BY <1>1, Invariance, PTL

\* Where no two threads overlap, none loses its camera texture or its window.
THEOREM TextureKept == Spec => []TextureLossNeedsOverlap
  <1>1. IInv => TextureLossNeedsOverlap
    BY DEF IInv, Alone, TextureLossNeedsOverlap, IsAlive
  <1> QED
    BY <1>1, Invariance, PTL

\* A thread draws with a foreign program or buffer only if it was made late.
THEOREM StaticsOwned == Spec => []ForeignStaticsWereLate
  <1>1. IInv => ForeignStaticsWereLate
    BY DEF IInv, Statics, Equipped, BufferHeld, ForeignStaticsWereLate, IsAlive, Filled, Loop
  <1> QED
    BY <1>1, Invariance, PTL

\* Unless a filter is chosen during a set-up, the chosen filter is the one drawn with.
THEOREM SelectionKept == Spec => []SelectionHolds
  <1>1. IInv => SelectionHolds
    BY DEF IInv
  <1> QED
    BY <1>1, Invariance, PTL

LEMMA Loops == Spec => []LInv
<1>1. Init => MonitorHeld /\ TakenInTurn /\ Current
  BY DEF Init, MonitorHeld, TakenInTurn, Current, Surface, Null, Storing, Taking
<1> QED
  BY <1>1, StepCurrent, MonitorInductive, SizeInductive, Invariance, PTL DEF Spec, LInv

\* Between two callbacks, with no thread taking a size, width and height are of one sign,
\* unless the stores of the two threads have crossed: for any number of threads and any
\* sizes, because one thread at most takes a size until they have.
THEOREM SizesAreWhole == Spec => []SizeIsWhole
<1>1. LInv => SizeIsWhole
  BY DEF LInv, TakenInTurn, SizeIsWhole
<1> QED
  BY <1>1, Loops, PTL

\* A thread that waits for synchronized (this) waits for one that is in the block and
\* can leave it: the render threads never wait in a circle, and where the guards of
\* the steps are what ENABLED says, none is stuck anywhere else.
THEOREM ThreadsNotStuck == Spec /\ []StepsFollowGuards => []NoThreadIsStuck
<1>1. LInv => MonitorIsGivenBack
  BY GivenBack DEF LInv
<1> QED
  BY <1>1, Loops, PTL DEF NoThreadIsStuck

\* With the 21 filters of the code, or fewer, a render thread that was interrupted
\* ends, under strong fairness of the threads, whoever else wants the monitor.
THEOREM InterruptedThreadsEnd ==
  ASSUME Filters <= 21
  PROVE  FairSpec /\ []StepsFollowGuards => InterruptedEnds
<1>1. FairSpec /\ []StepsFollowGuards => Going
  BY Loops, ThreadsNotStuck, PTL DEF FairSpec, Spec, Going
<1> SUFFICES ASSUME NEW t \in Surface
             PROVE  Going => (t \in interrupted ~> (at[t] \in {"ended", "new"} \/ ~Runs))
  BY <1>1 DEF InterruptedEnds
<1>2. LInv /\ t \in interrupted => Stops(t) \/ Over(t)
  BY DEF LInv, IInv, TypeOK, Stops, Over, IsAlive, SetUp, Loop
<1>3. Over(t) => at[t] \in {"ended", "new"} \/ ~Runs
  BY DEF Over
<1>4. Going => Ends(t)
  BY InterruptedThreadEnds
<1> QED
  BY <1>2, <1>3, <1>4, PTL DEF Going, Ends

\* A size the view was given is taken, by the thread of its surface or by one that is
\* on its way out, or the surface goes away, or the stores have crossed; on the same
\* grounds.
THEOREM ResizesAreTaken ==
  ASSUME Filters <= 21
  PROVE  FairSpec /\ []StepsFollowGuards => ResizeIsTaken
<1>1. FairSpec /\ []StepsFollowGuards => Going
  BY Loops, ThreadsNotStuck, PTL DEF FairSpec, Spec, Going
<1>2. LInv /\ (gwidth < 0 \/ gheight < 0) /\ surface
        => (\E t \in Surface : Resizes(t)) \/ Taken
  BY DEF LInv, IInv, Fresh, Resizes, Taken
<1>3. (\A t \in Surface : IfResized(t)) /\ (\E t \in Surface : Resizes(t)) => SizeIsTaken
  BY DEF IfResized
<1>4. Taken <=> (gwidth >= 0 /\ gheight >= 0) \/ crossed \/ ~surface \/ ~Runs
  BY DEF Taken
<1>5. Going => [](\A t \in Surface : IfResized(t))
  BY EveryResizeEnds
<1> QED
  BY <1>1, <1>2, <1>3, <1>4, <1>5, PTL DEF ResizeIsTaken, SizeIsTaken, Going

=============================================================================
