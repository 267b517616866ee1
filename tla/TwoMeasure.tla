----------------------------- MODULE TwoMeasure -----------------------------
(***************************************************************************)
(* TwoMeasureActivity: the user holds the phone level, taps a start and an *)
(* end on the camera preview, and reads the distance.  Every method runs   *)
(* on the UI thread and is one action; what interleaves are the taps, the  *)
(* button, the accelerometer, the lifecycle, and the camera provider,      *)
(* whose future may end at any time.                                       *)
(*                                                                         *)
(* Lengths are pixels.  A point on the sensor is kept in pixels of the     *)
(* region it was taken from; distances on the sensor are scaled with the   *)
(* size of the sensor, which need not be 4:3 as that region is.            *)
(***************************************************************************)
EXTENDS Integers

CONSTANTS
    ViewWidth, ViewHeight,   \* the preview view, once it is laid out
    MarkerSize,              \* a marker is a square
    SENSOR_WIDTH, SENSOR_HEIGHT,  \* as bindPreview leaves them; only the ratio matters
    LongFocus,               \* a long FOCAL_LENGTH over 300 mm, in % of SENSOR_WIDTH
    RATIO_4_3,               \* androidx.camera.core.AspectRatio.RATIO_4_3
    Taps                     \* where the user may tap: <<x, y>>

ASSUME ViewAssumption ==
    /\ ViewWidth \in Nat \ {0} /\ ViewWidth % 4 = 0
    /\ ViewHeight \in Nat \ {0} /\ ViewHeight % 3 = 0
ASSUME MarkerAssumption == MarkerSize \in Nat /\ MarkerSize <= ViewWidth /\ MarkerSize <= ViewHeight
ASSUME SensorAssumption == SENSOR_WIDTH \in Nat \ {0} /\ SENSOR_HEIGHT \in Nat \ {0}
ASSUME FocusAssumption == LongFocus \in Nat
ASSUME RatioAssumption == RATIO_4_3 \in Nat
ASSUME TapsAssumption == Taps \subseteq (0..ViewWidth) \X (0..ViewHeight)

VARIABLES
    act,            \* lifecycle of the instance
    permission,     \* the camera permission: "granted", "asked" or "denied"
    provider,       \* the future of ProcessCameraProvider.getInstance
    bound,          \* bindPreview has set the touch listener
    optics,         \* the focal length bindPreview found: usable, not positive, or long
    laidOut,        \* the preview view has a size
    level,          \* orientation[1] is below 10 degrees
    isMeasuring,
    startPoint, endPoint,       \* a point of the sensor, or Null
    startMarker, endMarker,     \* the corner of a visible marker, or Null
    distanceText,               \* the title
    statusText,                 \* the hint below it
    result                      \* the points whose distance was shown last

points == <<startPoint, endPoint>>
markers == <<startMarker, endMarker>>
texts == <<distanceText, statusText, result>>
camera == <<permission, provider, bound, optics>>

vars == <<act, camera, laidOut, level, isMeasuring, points, markers, texts>>

Null == <<>>

Title == {"none", "waiting", "done", "failed"}
Status == {"none", "pickStart", "pickEnd", "notReady", "notLevel", "tooClose",
           "distance", "invalid"}

Lesser(a, b) == IF a < b THEN a ELSE b
Greater(a, b) == IF a < b THEN b ELSE a
Clamp(v, low, high) == Greater(low, Lesser(v, high))

----------------------------------------------------------------------------
(* handleTap: from the screen to the sensor *)

\* The region handleTap measures in: the largest with ratio 4:3, in the middle
\* (189-202).
RegionHeight == Lesser((3 * ViewWidth) \div 4, ViewHeight)
RegionWidth == (4 * RegionHeight) \div 3
RegionLeft == (ViewWidth - RegionWidth) \div 2
RegionTop == (ViewHeight - RegionHeight) \div 2

SensorPoint(tap) ==
    << Clamp(tap[1], RegionLeft, RegionLeft + RegionWidth) - RegionLeft,
       Clamp(tap[2], RegionTop, RegionTop + RegionHeight) - RegionTop >>

Square(n) == n * n

\* On the sensor p and q are nearer than this part of its width.  The coordinates
\* are (x / RegionWidth) * SENSOR_WIDTH and (y / RegionHeight) * SENSOR_HEIGHT, and
\* both sides are multiplied by 3 * RegionWidth = 4 * RegionHeight.
Nearer(p, q, percent) ==
    Square(3 * SENSOR_WIDTH * (p[1] - q[1])) + Square(4 * SENSOR_HEIGHT * (p[2] - q[2]))
        < Square((3 * percent * SENSOR_WIDTH * RegionWidth) \div 100)

\* Nearer than 3% of the width of the sensor (225-228).
TooClose(p, q) == Nearer(p, q, 3)

----------------------------------------------------------------------------
(* setMarkerPosition: from the screen to the layout.  ASPECT_RATIO is the      *)
(* identifier RATIO_4_3; a float divided by 0 is Infinity, and the minimum     *)
(* then is the other term (267-270).                                           *)

ASPECT_RATIO == RATIO_4_3

MarkerScale ==
    IF ASPECT_RATIO = 0 THEN ViewHeight
                        ELSE Lesser(ViewWidth \div ASPECT_RATIO, ViewHeight)

MarkerPosition(tap) ==
    LET width == MarkerScale * ASPECT_RATIO
        left == (ViewWidth - width) \div 2
        top == (ViewHeight - MarkerScale) \div 2
        corner == << Clamp(tap[1], left, left + width) - MarkerSize \div 2,
                     Clamp(tap[2], top, top + MarkerScale) - MarkerSize \div 2 >>
    IN  << Clamp(corner[1], 0, ViewWidth - MarkerSize),
           Clamp(corner[2], 0, ViewHeight - MarkerSize) >>

----------------------------------------------------------------------------

Init ==
    /\ act = "destroyed"
    /\ permission \in {"granted", "denied"}
    /\ provider = "none"
    /\ bound = FALSE
    /\ optics = "usable"
    /\ laidOut = FALSE
    /\ level = TRUE
    /\ isMeasuring = FALSE
    /\ startPoint = Null /\ endPoint = Null
    /\ startMarker = Null /\ endMarker = Null
    /\ distanceText = "none" /\ statusText = "none" /\ result = Null

\* onCreate of a new instance, with requestPermissions.  Its fields are fresh;
\* orientation is 0 until the first reading, which counts as level.
Create ==
    /\ act = "destroyed"
    /\ provider # "pending"
    /\ act' = "paused"
    /\ permission' = IF permission = "granted" THEN "granted" ELSE "asked"
    /\ provider' = IF permission = "granted" THEN "pending" ELSE "none"
    /\ bound' = FALSE
    /\ optics' = "usable"
    /\ laidOut' = FALSE
    /\ level' = TRUE
    /\ isMeasuring' = FALSE
    /\ startPoint' = Null /\ endPoint' = Null
    /\ startMarker' = Null /\ endMarker' = Null
    /\ distanceText' = "none" /\ statusText' = "none" /\ result' = Null

\* onRequestPermissionsResult: startCamera, or finish.
PermissionResult(granted) ==
    /\ permission = "asked"
    /\ act = "paused"
    /\ permission' = IF granted THEN "granted" ELSE "denied"
    /\ provider' = IF granted THEN "pending" ELSE provider
    /\ act' = IF granted THEN act ELSE "destroyed"
    /\ UNCHANGED <<bound, optics, laidOut, level, isMeasuring, points, markers, texts>>

\* The listener of startCamera with bindPreview.  bindToLifecycle refuses a
\* destroyed lifecycle, and a phone without a back camera, with an exception
\* that nothing catches; a null or failed query of the focal length leaves the
\* default.
ProviderReady(found) ==
    /\ provider = "pending"
    /\ provider' = "ready"
    /\ IF act = "destroyed" \/ found = "none"
         THEN act' = "crashed" /\ UNCHANGED <<bound, optics>>
         ELSE act' = act /\ bound' = TRUE /\ optics' = found
    /\ UNCHANGED <<permission, laidOut, level, isMeasuring, points, markers, texts>>

\* The future ends with an ExecutionException, which is printed.
ProviderFails ==
    /\ provider = "pending"
    /\ provider' = "ready"
    /\ UNCHANGED <<act, permission, bound, optics, laidOut, level, isMeasuring, points,
                   markers, texts>>

Resume ==
    /\ act = "paused"
    /\ permission # "asked"
    /\ act' = "resumed"
    /\ UNCHANGED <<camera, laidOut, level, isMeasuring, points, markers, texts>>

\* onPause unregisters the sensor and leaves the measurement as it is.
Pause ==
    /\ act = "resumed"
    /\ act' = "paused"
    /\ UNCHANGED <<camera, laidOut, level, isMeasuring, points, markers, texts>>

Destroy ==
    /\ act = "paused"
    /\ permission # "asked"
    /\ act' = "destroyed"
    /\ UNCHANGED <<camera, laidOut, level, isMeasuring, points, markers, texts>>

NewProcess ==
    /\ act = "crashed"
    /\ act' = "destroyed"
    /\ UNCHANGED <<camera, laidOut, level, isMeasuring, points, markers, texts>>

\* The first layout of the view.
Layout ==
    /\ act = "resumed"
    /\ ~laidOut
    /\ laidOut' = TRUE
    /\ UNCHANGED <<act, camera, level, isMeasuring, points, markers, texts>>

\* onSensorChanged: registered from onResume to onPause.
SensorChanged ==
    /\ act = "resumed"
    /\ level' = ~level
    /\ UNCHANGED <<act, camera, laidOut, isMeasuring, points, markers, texts>>

----------------------------------------------------------------------------

\* Variant: the button does not clear the markers.
ToggleKeepsMarkers ==
    /\ act = "resumed"
    /\ isMeasuring' = ~isMeasuring
    /\ startPoint' = Null /\ endPoint' = Null
    /\ distanceText' = "waiting"
    /\ statusText' = "pickStart"
    /\ UNCHANGED <<act, camera, laidOut, level, markers, result>>

\* toggleMeasurement, the button.
Toggle ==
    /\ act = "resumed"
    /\ isMeasuring' = ~isMeasuring
    /\ startPoint' = Null /\ endPoint' = Null
    /\ startMarker' = Null /\ endMarker' = Null
    /\ distanceText' = "waiting"
    /\ statusText' = "pickStart"
    /\ UNCHANGED <<act, camera, laidOut, level, result>>

\* A touch that the listener of bindPreview hands to handleTap.
Touched == act = "resumed" /\ bound /\ isMeasuring

\* handleTap turns the tap away: no size yet, not level, or too near the start.
Refusal(tap) ==
    IF ~laidOut THEN "notReady"
    ELSE IF ~level THEN "notLevel"
    ELSE IF startPoint # Null /\ TooClose(SensorPoint(tap), startPoint) THEN "tooClose"
    ELSE "none"

TapRefused(tap) ==
    /\ Touched
    /\ Refusal(tap) # "none"
    /\ statusText' = Refusal(tap)
    /\ UNCHANGED <<act, camera, laidOut, level, isMeasuring, points, markers,
                   distanceText, result>>

TapStart(tap) ==
    /\ Touched
    /\ Refusal(tap) = "none"
    /\ startPoint = Null
    /\ startPoint' = SensorPoint(tap)
    /\ startMarker' = MarkerPosition(tap)
    /\ statusText' = "pickEnd"
    /\ UNCHANGED <<act, camera, laidOut, level, isMeasuring, endPoint, endMarker,
                   distanceText, result>>

\* The focal length is not positive, or makes the distance of the two points less
\* than a millimetre.
NoDistance(end) ==
    \/ optics = "unusable"
    \/ optics = "long" /\ Nearer(startPoint, end, LongFocus)

\* calculateDistance for the end just chosen: a distance, or a message.
CalculateDistance(end) ==
    IF NoDistance(end)
      THEN /\ distanceText' = "failed" /\ statusText' = "invalid"
           /\ UNCHANGED result
      ELSE /\ distanceText' = "done" /\ statusText' = "distance"
           /\ result' = <<startPoint, end>>

\* Variant: the distance is calculated once, for the first end.
TapEndOnce(tap) ==
    /\ Touched
    /\ Refusal(tap) = "none"
    /\ startPoint # Null
    /\ endPoint' = SensorPoint(tap)
    /\ endMarker' = MarkerPosition(tap)
    /\ IF endPoint = Null THEN CalculateDistance(SensorPoint(tap)) ELSE UNCHANGED texts
    /\ UNCHANGED <<act, camera, laidOut, level, isMeasuring, startPoint, startMarker>>

\* Every further tap moves the end.
TapEnd(tap) ==
    /\ Touched
    /\ Refusal(tap) = "none"
    /\ startPoint # Null
    /\ endPoint' = SensorPoint(tap)
    /\ endMarker' = MarkerPosition(tap)
    /\ CalculateDistance(SensorPoint(tap))
    /\ UNCHANGED <<act, camera, laidOut, level, isMeasuring, startPoint, startMarker>>

Next ==
    \/ Create \/ Resume \/ Pause \/ Destroy \/ NewProcess \/ Layout
    \/ \E granted \in BOOLEAN : PermissionResult(granted)
    \/ \E found \in {"usable", "unusable", "long", "none"} : ProviderReady(found)
    \/ ProviderFails
    \/ SensorChanged \/ Toggle
    \/ \E tap \in Taps : TapRefused(tap) \/ TapStart(tap) \/ TapEnd(tap)

Spec == Init /\ [][Next]_vars

----------------------------------------------------------------------------
(* Properties *)

SensorPoints == (0..RegionWidth) \X (0..RegionHeight)
Corners == (0..(ViewWidth - MarkerSize)) \X (0..(ViewHeight - MarkerSize))

\* Every variable has its type: a point lies on the sensor, a marker in the view.
TypeOK ==
    /\ act \in {"paused", "resumed", "destroyed", "crashed"}
    /\ permission \in {"granted", "asked", "denied"}
    /\ provider \in {"none", "pending", "ready"}
    /\ bound \in BOOLEAN
    /\ optics \in {"usable", "unusable", "long"}
    /\ laidOut \in BOOLEAN
    /\ level \in BOOLEAN
    /\ isMeasuring \in BOOLEAN
    /\ startPoint \in SensorPoints \union {Null}
    /\ endPoint \in SensorPoints \union {Null}
    /\ startMarker \in Corners \union {Null}
    /\ endMarker \in Corners \union {Null}
    /\ distanceText \in Title
    /\ statusText \in Status
    /\ result \in (SensorPoints \X SensorPoints) \union {Null}

\* The markers on the screen are those of the points that the next tap goes by:
\* each is visible exactly while its point is set, an end needs a start, and
\* outside a measurement there is neither (234-248, 351-358).
MarkersFollowPoints ==
    /\ startMarker = Null <=> startPoint = Null
    /\ endMarker = Null <=> endPoint = Null
    /\ endPoint # Null => startPoint # Null
    /\ startPoint # Null => isMeasuring

\* The screen never says that a measurement is complete with the distance of
\* other points than the two that are marked, nor of two that are too close;
\* a tap that is turned away in between, a pause or a moved end change nothing
\* about that (222-232, 241-247, 336-338).
ShownDistanceIsCurrent ==
    distanceText = "done" \/ statusText = "distance" =>
        /\ startPoint # Null /\ endPoint # Null
        /\ result = <<startPoint, endPoint>>
        /\ ~TooClose(startPoint, endPoint)

\* The corner of a marker that is centred on a point of the sensor.
CornerAt(p) ==
    << Clamp(RegionLeft + p[1] - MarkerSize \div 2, 0, ViewWidth - MarkerSize),
       Clamp(RegionTop + p[2] - MarkerSize \div 2, 0, ViewHeight - MarkerSize) >>

\* TwoMeasureActivity.java:266, "compute the centred preview region (considering
\* the 4:3 ratio)": the start marker lies where handleTap, which computes that
\* region too, has taken the point.
MarkerIsOnPoint ==
    startPoint # Null => startMarker = CornerAt(startPoint)

=============================================================================
