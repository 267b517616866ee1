-------------------------- MODULE TwoMeasure_proofs --------------------------
(***************************************************************************)
(* TwoMeasure for every view, marker, sensor, set of taps and value of     *)
(* RATIO_4_3: the type invariant, the markers and the distance shown.      *)
(***************************************************************************)
EXTENDS TwoMeasure, TLAPS

USE DEF points, markers, texts, camera

----------------------------------------------------------------------------
(* The two ways of a tap *)

LEMMA RegionIsNat == RegionHeight \in Nat /\ RegionWidth \in Nat
<1>1. (3 * ViewWidth) \div 4 \in Nat
  BY ViewAssumption
<1>2. RegionHeight \in Nat
  BY <1>1, ViewAssumption DEF RegionHeight, Lesser
<1> QED
  BY <1>2 DEF RegionWidth

LEMMA ClampInRange ==
    ASSUME NEW v \in Int, NEW low \in Int, NEW high \in Int, low <= high
    PROVE  Clamp(v, low, high) \in low..high
BY DEF Clamp, Lesser, Greater

\* handleTap keeps every tap on the sensor.
LEMMA SensorPointType ==
    ASSUME NEW tap \in Taps
    PROVE  SensorPoint(tap) \in SensorPoints
<1>1. tap \in (0..ViewWidth) \X (0..ViewHeight)
  BY TapsAssumption
<1>2. tap[1] \in Int /\ tap[2] \in Int
  BY <1>1, ViewAssumption
<1>3. RegionLeft \in Int /\ RegionTop \in Int
  BY RegionIsNat, ViewAssumption DEF RegionLeft, RegionTop
<1>4. Clamp(tap[1], RegionLeft, RegionLeft + RegionWidth) \in RegionLeft..(RegionLeft + RegionWidth)
  BY <1>2, <1>3, RegionIsNat DEF Clamp, Lesser, Greater
<1>5. Clamp(tap[2], RegionTop, RegionTop + RegionHeight) \in RegionTop..(RegionTop + RegionHeight)
  BY <1>2, <1>3, RegionIsNat DEF Clamp, Lesser, Greater
<1>6. /\ Clamp(tap[1], RegionLeft, RegionLeft + RegionWidth) - RegionLeft \in 0..RegionWidth
      /\ Clamp(tap[2], RegionTop, RegionTop + RegionHeight) - RegionTop \in 0..RegionHeight
  BY <1>3, <1>4, <1>5, RegionIsNat
<1> QED
  BY <1>6 DEF SensorPoint, SensorPoints

\* setMarkerPosition keeps every marker in the view, whatever the ratio is.
LEMMA MarkerPositionType ==
    ASSUME NEW tap \in Taps
    PROVE  MarkerPosition(tap) \in Corners
<1>1. tap[1] \in Int /\ tap[2] \in Int
  BY TapsAssumption, ViewAssumption
<1>2. MarkerScale \in Int
  <2>1. ASPECT_RATIO # 0 => ViewWidth \div ASPECT_RATIO \in Int
    BY ViewAssumption, RatioAssumption DEF ASPECT_RATIO
  <2> QED
    BY <2>1, ViewAssumption DEF MarkerScale, Lesser
<1> DEFINE width == MarkerScale * ASPECT_RATIO
           left == (ViewWidth - width) \div 2
           top == (ViewHeight - MarkerScale) \div 2
           cx == Clamp(tap[1], left, left + width) - MarkerSize \div 2
           cy == Clamp(tap[2], top, top + MarkerScale) - MarkerSize \div 2
<1>3. width \in Int
  BY <1>2, RatioAssumption DEF ASPECT_RATIO
<1>4. cx \in Int /\ cy \in Int
  <2> HIDE DEF width
  <2>1. left \in Int /\ top \in Int /\ MarkerSize \div 2 \in Int
    BY <1>2, <1>3, ViewAssumption, MarkerAssumption
  <2> HIDE DEF left, top
  <2> QED
    BY <1>1, <1>2, <1>3, <2>1 DEF Clamp, Lesser, Greater
<1>5. MarkerPosition(tap) = << Clamp(cx, 0, ViewWidth - MarkerSize),
                               Clamp(cy, 0, ViewHeight - MarkerSize) >>
  BY DEF MarkerPosition
<1> HIDE DEF width, left, top, cx, cy
<1>6. /\ Clamp(cx, 0, ViewWidth - MarkerSize) \in 0..(ViewWidth - MarkerSize)
      /\ Clamp(cy, 0, ViewHeight - MarkerSize) \in 0..(ViewHeight - MarkerSize)
  BY <1>4, ClampInRange, ViewAssumption, MarkerAssumption
<1> QED
  BY <1>5, <1>6 DEF Corners

LEMMA PointsAreNotNull ==
    /\ \A p \in SensorPoints : p # Null
    /\ \A c \in Corners : c # Null
BY DEF SensorPoints, Corners, Null

LEMMA TooCloseIsSymmetric ==
    ASSUME NEW p \in SensorPoints, NEW q \in SensorPoints
    PROVE  TooClose(p, q) <=> TooClose(q, p)
<1>1. p[1] \in Int /\ p[2] \in Int /\ q[1] \in Int /\ q[2] \in Int
  BY RegionIsNat DEF SensorPoints
<1>2. /\ \A n \in Int : Square(-n) = Square(n)
      /\ \A a, m, n \in Int : a * (n - m) = -(a * (m - n))
  BY DEF Square
<1>3. 3 * SENSOR_WIDTH \in Int /\ 4 * SENSOR_HEIGHT \in Int
  BY SensorAssumption
<1>4. /\ Square(3 * SENSOR_WIDTH * (q[1] - p[1])) = Square(3 * SENSOR_WIDTH * (p[1] - q[1]))
      /\ Square(4 * SENSOR_HEIGHT * (q[2] - p[2])) = Square(4 * SENSOR_HEIGHT * (p[2] - q[2]))
  <2>1. \A a, m, n \in Int : a * (m - n) \in Int
    OBVIOUS
  <2>2. \A a, m, n \in Int : Square(a * (n - m)) = Square(a * (m - n))
    BY <1>2, <2>1
  <2> DEFINE w == 3 * SENSOR_WIDTH
             h == 4 * SENSOR_HEIGHT
  <2>3. w \in Int /\ h \in Int
    BY <1>3
  <2> HIDE DEF w, h
  <2>4. Square(w * (q[1] - p[1])) = Square(w * (p[1] - q[1]))
    BY <1>1, <2>2, <2>3, Zenon
  <2>5. Square(h * (q[2] - p[2])) = Square(h * (p[2] - q[2]))
    BY <1>1, <2>2, <2>3, Zenon
  <2> QED
    BY <2>4, <2>5 DEF w, h
<1> QED
  BY <1>4 DEF TooClose, Nearer

----------------------------------------------------------------------------
(* The invariant *)

IInv == TypeOK /\ MarkersFollowPoints /\ ShownDistanceIsCurrent

LEMMA InitIInv == Init => IInv
BY DEF Init, IInv, TypeOK, MarkersFollowPoints, ShownDistanceIsCurrent, Title, Status

\* The steps that leave the measurement as it is.
LEMMA OtherSteps ==
    ASSUME IInv,
           \/ Resume \/ Pause \/ Destroy \/ NewProcess \/ Layout \/ SensorChanged
           \/ ProviderFails
           \/ \E granted \in BOOLEAN : PermissionResult(granted)
           \/ \E found \in {"usable", "unusable", "long", "none"} : ProviderReady(found)
    PROVE  IInv'
<1>1. UNCHANGED <<isMeasuring, points, markers, texts>>
  BY DEF Resume, Pause, Destroy, NewProcess, Layout, SensorChanged, PermissionResult,
         ProviderReady, ProviderFails
<1>2. /\ act' \in {"paused", "resumed", "destroyed", "crashed"}
      /\ permission' \in {"granted", "asked", "denied"}
      /\ provider' \in {"none", "pending", "ready"}
      /\ bound' \in BOOLEAN /\ optics' \in {"usable", "unusable", "long"}
      /\ laidOut' \in BOOLEAN /\ level' \in BOOLEAN
  <2>1. CASE Resume \/ Pause \/ Destroy \/ NewProcess
    BY <2>1 DEF IInv, TypeOK, Resume, Pause, Destroy, NewProcess
  <2>2. CASE Layout \/ SensorChanged \/ ProviderFails
    BY <2>2 DEF IInv, TypeOK, Layout, SensorChanged, ProviderFails
  <2>3. CASE \E granted \in BOOLEAN : PermissionResult(granted)
    BY <2>3 DEF IInv, TypeOK, PermissionResult
  <2>4. CASE \E found \in {"usable", "unusable", "long", "none"} : ProviderReady(found)
    BY <2>4 DEF IInv, TypeOK, ProviderReady
  <2> QED
    BY <2>1, <2>2, <2>3, <2>4
<1>3. TypeOK'
  BY <1>1, <1>2 DEF IInv, TypeOK
<1>4. MarkersFollowPoints' /\ ShownDistanceIsCurrent'
  BY <1>1 DEF IInv, MarkersFollowPoints, ShownDistanceIsCurrent
<1> QED
  BY <1>3, <1>4 DEF IInv

LEMMA ClearingSteps ==
    ASSUME IInv, Create \/ Toggle
    PROVE  IInv'
<1>1. CASE Create
  BY <1>1 DEF IInv, TypeOK, MarkersFollowPoints, ShownDistanceIsCurrent, Create, Title, Status
<1>2. CASE Toggle
  BY <1>2 DEF IInv, TypeOK, MarkersFollowPoints, ShownDistanceIsCurrent, Toggle, Title, Status
<1> QED
  BY <1>1, <1>2

LEMMA TapRefusedStep ==
    ASSUME IInv, NEW tap \in Taps, TapRefused(tap)
    PROVE  IInv'
<1>1. statusText' \in {"notReady", "notLevel", "tooClose"}
  BY DEF TapRefused, Refusal
<1> QED
  BY <1>1 DEF IInv, TypeOK, MarkersFollowPoints, ShownDistanceIsCurrent, TapRefused, Title, Status

LEMMA TapStartStep ==
    ASSUME IInv, NEW tap \in Taps, TapStart(tap)
    PROVE  IInv'
<1>1. startPoint' \in SensorPoints /\ startMarker' \in Corners
  BY SensorPointType, MarkerPositionType DEF TapStart
<1>2. startPoint' # Null /\ startMarker' # Null
  BY <1>1, PointsAreNotNull
<1>3. startPoint = Null /\ endPoint = Null /\ isMeasuring
  BY DEF IInv, MarkersFollowPoints, TapStart, Touched
<1>4. TypeOK'
  BY <1>1 DEF IInv, TypeOK, TapStart, Status
<1>5. MarkersFollowPoints'
  BY <1>2, <1>3 DEF IInv, MarkersFollowPoints, TapStart
<1>6. ShownDistanceIsCurrent'
  <2>1. distanceText # "done"
    BY <1>3 DEF IInv, ShownDistanceIsCurrent
  <2> QED
    BY <2>1 DEF ShownDistanceIsCurrent, TapStart
<1> QED
  BY <1>4, <1>5, <1>6 DEF IInv

LEMMA TapEndStep ==
    ASSUME IInv, NEW tap \in Taps, TapEnd(tap)
    PROVE  IInv'
<1>1. endPoint' \in SensorPoints /\ endMarker' \in Corners
  BY SensorPointType, MarkerPositionType DEF TapEnd
<1>2. endPoint' # Null /\ endMarker' # Null
  BY <1>1, PointsAreNotNull
<1>3. startPoint \in SensorPoints /\ startPoint # Null
  BY DEF IInv, TypeOK, TapEnd
<1>4. ~TooClose(startPoint, endPoint')
  <2>1. ~TooClose(SensorPoint(tap), startPoint)
    BY <1>3 DEF TapEnd, Refusal
  <2>2. SensorPoint(tap) = endPoint'
    BY DEF TapEnd
  <2> QED
    BY <1>1, <1>3, <2>1, <2>2, TooCloseIsSymmetric
<1>5. /\ startPoint' = startPoint /\ startMarker' = startMarker /\ isMeasuring' = isMeasuring
      /\ \/ /\ distanceText' = "done" /\ statusText' = "distance"
            /\ result' = <<startPoint, endPoint'>>
         \/ distanceText' = "failed" /\ statusText' = "invalid" /\ result' = result
  BY DEF TapEnd, CalculateDistance
<1>6. TypeOK'
  <2>1. <<startPoint, endPoint'>> \in SensorPoints \X SensorPoints
    BY <1>1, <1>3
  <2>2. /\ result' \in (SensorPoints \X SensorPoints) \union {Null}
        /\ distanceText' \in Title /\ statusText' \in Status
    BY <1>5, <2>1 DEF IInv, TypeOK, Title, Status
  <2> QED
    BY <1>1, <1>5, <2>2 DEF IInv, TypeOK, TapEnd
<1>7. MarkersFollowPoints'
  BY <1>2, <1>3, <1>5 DEF IInv, MarkersFollowPoints
<1>8. ShownDistanceIsCurrent'
  <2>1. TooClose(startPoint, endPoint)' <=> TooClose(startPoint, endPoint')
    BY <1>5 DEF TooClose, Nearer, Square, RegionWidth, RegionHeight, Lesser
  <2> QED
    BY <1>2, <1>3, <1>4, <1>5, <2>1 DEF ShownDistanceIsCurrent
<1> QED
  BY <1>6, <1>7, <1>8 DEF IInv

LEMMA NextIInv == IInv /\ [Next]_vars => IInv'
<1> SUFFICES ASSUME IInv, [Next]_vars
             PROVE  IInv'
  OBVIOUS
<1>1. CASE UNCHANGED vars
  BY <1>1 DEF IInv, TypeOK, MarkersFollowPoints, ShownDistanceIsCurrent, vars
<1>2. CASE Next
  BY <1>2, OtherSteps, ClearingSteps, TapRefusedStep, TapStartStep, TapEndStep DEF Next
<1> QED
  BY <1>1, <1>2

\* The invariant of the two-point measurement holds in every state.
THEOREM Invariance == Spec => []IInv
BY InitIInv, NextIInv, PTL DEF Spec

\* Points stay on the sensor and markers in the view, for every size of the view and
\* every value of RATIO_4_3 (TwoMeasureActivity.java:184-213, 261-294).
THEOREM TypeCorrect == Spec => []TypeOK
<1>1. IInv => TypeOK
  BY DEF IInv
<1> QED
  BY <1>1, Invariance, PTL

\* The markers are those of the points the next tap goes by.
THEOREM MarkersCorrect == Spec => []MarkersFollowPoints
<1>1. IInv => MarkersFollowPoints
  BY DEF IInv
<1> QED
  BY <1>1, Invariance, PTL

\* A distance on the screen is that of the two points that are marked.
THEOREM DistanceCorrect == Spec => []ShownDistanceIsCurrent
<1>1. IInv => ShownDistanceIsCurrent
  BY DEF IInv
<1> QED
  BY <1>1, Invariance, PTL

=============================================================================
