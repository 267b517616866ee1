----------------------------- MODULE FaceImages -----------------------------
(***************************************************************************)
(* The sizes and places of an image on its way to a detector and of a mark *)
(* on its way back: the preview size CameraUtils chooses, the bitmap the   *)
(* listener cuts for FaceDet, the scale jni_face_det.cpp puts on what it   *)
(* found, what detector.h keeps of one detection to the next, the filter   *)
(* of the pedestrian detector, and the sampling of a decoded file.  Pure   *)
(* operators without a state; Pictures_proofs proves what holds for every  *)
(* size.                                                                   *)
(***************************************************************************)
EXTENDS Integers, Sequences

----------------------------------------------------------------------------
(* CameraUtils.chooseOptimalSize *)

Sizes == [width : Nat \ {0}, height : Nat \ {0}]

MINIMUM_PREVIEW_SIZE == 320

Area(size) == size.width * size.height

BigEnough(choices) ==
    {k \in DOMAIN choices : /\ choices[k].height >= MINIMUM_PREVIEW_SIZE
                            /\ choices[k].width >= MINIMUM_PREVIEW_SIZE}

\* The smallest of the options that are big enough; of equal ones Collections.min
\* takes the first.  An empty list of options throws at choices[0].
ChooseOptimalSize(choices) ==
    IF BigEnough(choices) = {}
      THEN choices[1]
      ELSE choices[CHOOSE k \in BigEnough(choices) : \A j \in BigEnough(choices) :
                      \/ Area(choices[k]) < Area(choices[j])
                      \/ Area(choices[k]) = Area(choices[j]) /\ k <= j]

----------------------------------------------------------------------------
(* OnGetImageListener: the frame is turned by 90 degrees and drawn, scaled, *)
(* to a bitmap of INPUT_SIZE columns.                                       *)

INPUT_SIZE == 128

CroppedHeight(preview) == (INPUT_SIZE * preview.width) \div preview.height

\* Column x of the bitmap shows a part of column c of the turned preview.
ColumnShows(x, c, preview) ==
    x * preview.height < INPUT_SIZE * (c + 1) /\ INPUT_SIZE * c < (x + 1) * preview.height

----------------------------------------------------------------------------
(* jni_face_det.cpp and detector.h *)

\* (int)(v * bitmap_scale), where bitmap_scale is 2.5: towards zero.
FullSize(v) == IF v >= 0 THEN (5 * v) \div 2 ELSE -((-5 * v) \div 2)

\* The landmark model: no path was given, there is no file at the path, or the
\* constructor has read it.  A predictor that read nothing gives empty shapes.
LandMarkModels == {"none", "missing", "loaded"}

NumParts(mLandMarkModel) == IF mLandMarkModel = "loaded" THEN 68 ELSE 0

\* What DLibHOGFaceDetector::det leaves behind, the number of its parts for a shape:
\* an empty image changes nothing, and det asks for a path, not for the file.
Det(found, image, mLandMarkModel, before) ==
    IF image = "empty"
      THEN [size |-> 0, mRets |-> before.mRets, mFaceShapeMap |-> before.mFaceShapeMap]
      ELSE [size |-> Len(found), mRets |-> found,
            mFaceShapeMap |-> [i \in {j \in DOMAIN found : mLandMarkModel # "none"} |->
                                  NumParts(mLandMarkModel)]]

\* get_2d_image_points takes the parts 30, 8, 36, 45, 48 and 54 of a shape.
PointsTaken == {8, 30, 36, 45, 48, 54}

\* getDetectResult2: the three numbers of the rotation and of the translation come
\* with each face that has a shape.  A part the shape does not have is read behind
\* the end of a vector: the pose is undefined, and so is what the process does.
Pose(det, i) ==
    IF i \notin DOMAIN det.mFaceShapeMap
      THEN "none"
      ELSE IF \A k \in PointsTaken : k < det.mFaceShapeMap[i] THEN "solved" ELSE "undefined"

DetectResult(det) ==
    [i \in 1..det.size |-> [face |-> det.mRets[i], pose |-> Pose(det, i)]]

----------------------------------------------------------------------------
(* OpencvHOGDetctor::det: what is left of the rectangles that were found *)

Rects == [x : Int, y : Int, width : Nat \ {0}, height : Nat \ {0}]

\* (r & q) == r.
Within(r, q) ==
    /\ q.x <= r.x /\ r.x + r.width <= q.x + q.width
    /\ q.y <= r.y /\ r.y + r.height <= q.y + q.height

\* The places in found of the rectangles that lie in no other one.
FoundFiltered(found) ==
    {i \in DOMAIN found : \A j \in DOMAIN found : j # i => ~Within(found[i], found[j])}

----------------------------------------------------------------------------
(* BitmapUtils.calculateInSampleSize *)

\* The condition of its loop, which doubles inSampleSize from 1 on.
SampleDoubles(inSampleSize, height, width, reqHeight, reqWidth) ==
    /\ (height \div 2) \div inSampleSize >= reqHeight
    /\ (width \div 2) \div inSampleSize >= reqWidth

=============================================================================
