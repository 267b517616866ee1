-------------------------- MODULE Pictures_proofs --------------------------
(***************************************************************************)
(* What YuvRgb and FaceImages compute, for every sample, every size, every *)
(* stride and every list.                                                  *)
(***************************************************************************)
EXTENDS YuvRgb, FaceImages, WellFoundedInduction, TLAPS

----------------------------------------------------------------------------
(* Samples *)

\* The three sums of yuv2rgb.cpp:46-48 fit an int for every byte of input, so no
\* signed overflow, which the language leaves undefined, can happen.
THEOREM SumsFit ==
    ASSUME NEW nY \in Byte, NEW nU \in Byte, NEW nV \in Byte
    PROVE  /\ FitsInt32(Red(nY, nU, nV))
           /\ FitsInt32(Green(nY, nU, nV))
           /\ FitsInt32(Blue(nY, nU, nV))
<1>1. Luma(nY) \in 0..239
  BY SMT DEF Byte, Luma
<1> QED
  BY <1>1, SMTT(30) DEF Byte, FitsInt32, Red, Green, Blue

\* Behind the saturation the shifts leave a value of the channel's width: the masks
\* 0xff, 0x1f and 0x3f (yuv2rgb.cpp:54-56, 186-188) never cut anything off.
THEOREM MasksCutNothing ==
    ASSUME NEW n \in Int
    PROVE  Eight(n) \in 0..255 /\ Six(n) \in 0..63 /\ Five(n) \in 0..31
<1>1. Saturated(n) \in Int /\ 0 <= Saturated(n) /\ Saturated(n) <= 262143
  BY SMT DEF Saturated, kMaxChannelValue
<1> QED
  BY <1>1, SMT DEF Eight, Six, Five

\* The luma of the encoder is in the studio range, and the parts that the pixels of
\* a block add to its U and its V (rgb2yuv.cpp:41, 44) are so small that four of
\* them, whatever the pixels are, never carry out of the byte.
THEOREM EncoderStaysInBytes ==
    ASSUME NEW r \in Byte, NEW g \in Byte, NEW b \in Byte
    PROVE  /\ EncodedY(r, g, b) \in 16..235
           /\ PartV(r, g, b) \in 4..60 /\ 4 * PartV(r, g, b) \in Byte
           /\ PartU(r, g, b) \in 4..60 /\ 4 * PartU(r, g, b) \in Byte
<1>1. EncodedY(r, g, b) \in 16..235
  BY SMT DEF Byte, EncodedY
<1>2. PartV(r, g, b) \in 4..60
  BY SMT DEF Byte, PartV
<1>3. PartU(r, g, b) \in 4..60
  BY SMT DEF Byte, PartU
<1> QED
  BY <1>1, <1>2, <1>3, SMT DEF Byte

\* A gray block of four pixels is encoded with neutral chroma, and neutral chroma is
\* decoded to a gray pixel: gray images survive both directions without a tint.
THEOREM GrayStaysGray ==
    /\ \A n \in Byte : 4 * PartV(n, n, n) = 128 /\ 4 * PartU(n, n, n) = 128
    /\ \A nY \in Byte : /\ Red(nY, 128, 128) = Green(nY, 128, 128)
                        /\ Green(nY, 128, 128) = Blue(nY, 128, 128)
<1>1. ASSUME NEW n \in Byte
      PROVE  4 * PartV(n, n, n) = 128 /\ 4 * PartU(n, n, n) = 128
  BY <1>1, SMT DEF Byte, PartV, PartU
<1>2. ASSUME NEW nY \in Byte
      PROVE  /\ Red(nY, 128, 128) = Green(nY, 128, 128)
             /\ Green(nY, 128, 128) = Blue(nY, 128, 128)
  BY <1>2, SMT DEF Byte, Luma, Red, Green, Blue
<1> QED
  BY <1>1, <1>2, SMT

\* A sum that is near 1024 times a byte is saturated and shifted to near that byte.
LEMMA SaturatedNear ==
    \A n \in Int, c \in Byte :
      /\ 1024 * c - 7168 <= n /\ n < 1024 * c + 2048 => Eight(n) \in (c - 7)..(c + 1)
      /\ 1024 * c - 2048 <= n /\ n < 1024 * c + 6144 => Eight(n) \in (c - 2)..(c + 5)
      /\ 1024 * c - 9216 <= n /\ n < 1024 * c + 3072 => Eight(n) \in (c - 9)..(c + 2)
BY DEF Eight, Saturated, kMaxChannelValue, Byte

\* A block of four equal pixels comes back from encoder and decoder in nearly its own
\* colour, although both round in every channel: red loses at most 7 of 255, green 2,
\* blue 9, and none gains more than 5.  The four parts of U and V are rounded down to
\* multiples of 4 (rgb2yuv.cpp:41, 44), which is why blue suffers most.
THEOREM ColourSurvives ==
    ASSUME NEW r \in Byte, NEW g \in Byte, NEW b \in Byte,
           NEW nY, nY = EncodedY(r, g, b),
           NEW nV, nV = 4 * PartV(r, g, b),
           NEW nU, nU = 4 * PartU(r, g, b)
    PROVE  /\ Eight(Red(nY, nU, nV)) \in (r - 7)..(r + 1)
           /\ Eight(Green(nY, nU, nV)) \in (g - 2)..(g + 5)
           /\ Eight(Blue(nY, nU, nV)) \in (b - 9)..(b + 2)
<1> DEFINE l == (66 * r + 129 * g + 25 * b + 128) \div 256
           v == (112 * r - 94 * g - 18 * b + 128) \div 1024
           u == (-38 * r - 74 * g + 112 * b + 128) \div 1024
<1>1. /\ l \in Nat /\ 256 * l <= 66 * r + 129 * g + 25 * b + 128
      /\ 66 * r + 129 * g + 25 * b + 128 <= 256 * l + 255
  BY DEF Byte
<1>2. /\ v \in Int /\ 1024 * v <= 112 * r - 94 * g - 18 * b + 128
      /\ 112 * r - 94 * g - 18 * b + 128 <= 1024 * v + 1023
  BY DEF Byte
<1>3. /\ u \in Int /\ 1024 * u <= -38 * r - 74 * g + 112 * b + 128
      /\ -38 * r - 74 * g + 112 * b + 128 <= 1024 * u + 1023
  BY DEF Byte
<1>4. /\ Red(nY, nU, nV) = 1192 * l + 6536 * v
      /\ Green(nY, nU, nV) = 1192 * l - 3332 * v - 1600 * u
      /\ Blue(nY, nU, nV) = 1192 * l + 8264 * u
  BY <1>1, <1>2, <1>3 DEF Red, Green, Blue, Luma, EncodedY, PartV, PartU
<1> HIDE DEF l, v, u
<1>5. /\ 1024 * r - 7168 <= 1192 * l + 6536 * v
      /\ 1192 * l + 6536 * v < 1024 * r + 2048
  BY <1>1, <1>2 DEF Byte
<1>6. /\ 1024 * g - 2048 <= 1192 * l - 3332 * v - 1600 * u
      /\ 1192 * l - 3332 * v - 1600 * u < 1024 * g + 6144
  BY <1>1, <1>2, <1>3 DEF Byte
<1>7. /\ 1024 * b - 9216 <= 1192 * l + 8264 * u
      /\ 1192 * l + 8264 * u < 1024 * b + 3072
  BY <1>1, <1>3 DEF Byte
<1>8. Red(nY, nU, nV) \in Int /\ Green(nY, nU, nV) \in Int /\ Blue(nY, nU, nV) \in Int
  BY <1>1, <1>2, <1>3, <1>4
<1> QED
  BY <1>4, <1>5, <1>6, <1>7, <1>8, SaturatedNear

\* In an image of odd size the blocks of the last column or the last row have two
\* pixels, the one in the corner has one: their chroma is the sum of that many
\* parts, at most 60 of 255, where "U and V are the average values of all 4 pixels"
\* (rgb2yuv.cpp:26).  A gray pixel there is not neutral any more.
THEOREM SideBlocksAreTinted ==
    \A n \in Byte : 2 * PartV(n, n, n) = 64 /\ PartV(n, n, n) = 32
  BY SMT DEF Byte, PartV

\* Stretching five or six bits to eight loses nothing and reaches both ends.
THEOREM StretchIsExact ==
    /\ \A n \in 0..31 : StretchFive(n) \in Byte /\ StretchFive(n) \div 8 = n
    /\ \A n \in 0..63 : StretchSix(n) \in Byte /\ StretchSix(n) \div 4 = n
    /\ StretchFive(31) = 255 /\ StretchSix(63) = 255
  BY SMT DEF Byte, StretchFive, StretchSix

----------------------------------------------------------------------------
(* Planes *)

LEMMA ProductGrows ==
    ASSUME NEW a \in Nat, NEW b \in Nat, NEW c \in Nat, a <= b
    PROVE  a * c <= b * c /\ c * a <= c * b /\ a * c \in Nat /\ b * c \in Nat
<1>1. PICK d \in Nat : b = a + d
  <2> b - a \in Nat /\ b = a + (b - a)
    OBVIOUS
  <2> QED
    OBVIOUS
<1>2. b * c = a * c + d * c
  BY <1>1
<1>3. d * c \in Nat /\ a * c \in Nat
  OBVIOUS
<1> QED
  BY <1>2, <1>3

LEMMA Halves ==
    ASSUME NEW n \in Nat, NEW k \in 0..(n - 1)
    PROVE  /\ k \div 2 \in Nat
           /\ k \div 2 <= (n + 1) \div 2 - 1
           /\ (n + 1) \div 2 \in Nat
           /\ 2 * (k \div 2) <= k
  OBVIOUS

\* ConvertYUV420ToARGB8888 reads only elements of the planes, for every size and all
\* strides of a camera image: the last row of a plane is not padded to the stride,
\* so a plane ends behind its last sample.
THEOREM PlanarReadsStayInside ==
    ASSUME NEW width \in Nat, NEW height \in Nat,
           NEW x \in 0..(width - 1), NEW y \in 0..(height - 1),
           NEW y_row_stride \in Nat, NEW uv_row_stride \in Nat, NEW uv_pixel_stride \in Nat
    PROVE  /\ PlanarY(x, y, y_row_stride) \in 0..PlanarY(width - 1, height - 1, y_row_stride)
           /\ PlanarUV(x, y, uv_row_stride, uv_pixel_stride) \in
                 0..(uv_row_stride * ((height + 1) \div 2 - 1)
                       + ((width + 1) \div 2 - 1) * uv_pixel_stride)
<1>1. y_row_stride * y <= y_row_stride * (height - 1) /\ y_row_stride * y \in Nat
  BY ProductGrows, height - 1 \in Nat, y <= height - 1
<1>2. PlanarY(x, y, y_row_stride) \in 0..PlanarY(width - 1, height - 1, y_row_stride)
  <2> DEFINE a == y_row_stride * y
             b == y_row_stride * (height - 1)
  <2>1. a \in Nat /\ a <= b /\ b \in Int
    BY <1>1
  <2> HIDE DEF a, b
  <2>2. a + x \in 0..(b + (width - 1))
    BY <2>1
  <2> QED
    BY <2>2 DEF PlanarY, a, b
<1> DEFINE h == y \div 2
           H == (height + 1) \div 2 - 1
           w == x \div 2
           W == (width + 1) \div 2 - 1
<1>3. h \in Nat /\ H \in Nat /\ h <= H /\ w \in Nat /\ W \in Nat /\ w <= W
  OBVIOUS
<1>4. PlanarUV(x, y, uv_row_stride, uv_pixel_stride) = uv_row_stride * h + w * uv_pixel_stride
  BY DEF PlanarUV
<1> HIDE DEF h, H, w, W
<1>5. /\ uv_row_stride * h <= uv_row_stride * H /\ uv_row_stride * h \in Nat
      /\ w * uv_pixel_stride <= W * uv_pixel_stride /\ w * uv_pixel_stride \in Nat
  BY <1>3, ProductGrows
<1>6. uv_row_stride * h + w * uv_pixel_stride \in 0..(uv_row_stride * H + W * uv_pixel_stride)
  <2> DEFINE a == uv_row_stride * h
             b == uv_row_stride * H
             c == w * uv_pixel_stride
             d == W * uv_pixel_stride
  <2>1. a \in Nat /\ c \in Nat /\ a <= b /\ c <= d /\ b \in Int /\ d \in Int
    BY <1>3, <1>5
  <2> HIDE DEF a, b, c, d
  <2>2. a + c \in 0..(b + d)
    BY <2>1
  <2> QED
    BY <2>2 DEF a, b, c, d
<1> QED
  BY <1>2, <1>4, <1>6 DEF H, W

\* The encoder writes a block, and the decoder reads one, where the other does as long
\* as the width is even; at an odd width the decoder, which steps by the width and
\* not by the rounded row (yuv2rgb.cpp:100, rgb2yuv.cpp:24), falls behind by one byte
\* more with every second row and takes U for V.
THEOREM OddWidthShearsChroma ==
    ASSUME NEW width \in Nat, NEW height \in Nat,
           NEW x \in 0..(width - 1), NEW y \in 0..(height - 1)
    PROVE  WrittenUV(x, y, width) =
             SemiPlanarUV(x, y, width) + (IF width % 2 = 0 THEN 0 ELSE y \div 2)
<1> DEFINE h == y \div 2
           w == x \div 2
<1>1. h \in Nat /\ w \in Nat
  OBVIOUS
<1> HIDE DEF h, w
<1>2. CASE width % 2 = 0
  <2>1. PICK k \in Nat : width = 2 * k
    BY <1>2, width \div 2 \in Nat, width = 2 * (width \div 2)
  <2>2. (width + 1) \div 2 = k
    BY <2>1
  <2>3. 2 * (h * k + w) = h * (2 * k) + 2 * w
    BY <1>1
  <2> QED
    BY <1>2, <2>1, <2>2, <2>3 DEF WrittenUV, SemiPlanarUV, h, w
<1>3. CASE width % 2 # 0
  <2>1. PICK k \in Nat : width = 2 * k + 1
    BY <1>3, width \div 2 \in Nat, width = 2 * (width \div 2) + 1
  <2>2. (width + 1) \div 2 = k + 1
    BY <2>1
  <2>3. 2 * (h * (k + 1) + w) = h * (2 * k + 1) + 2 * w + h
    BY <1>1
  <2> QED
    BY <1>3, <2>1, <2>2, <2>3 DEF WrittenUV, SemiPlanarUV, h, w
<1> QED
  BY <1>2, <1>3

\* The encoder writes only inside the chroma plane of whole blocks, for every size,
\* and so the decoder, which is never ahead of it, reads only inside.
THEOREM ChromaStaysInside ==
    ASSUME NEW width \in Nat, NEW height \in Nat,
           NEW x \in 0..(width - 1), NEW y \in 0..(height - 1)
    PROVE  /\ WrittenUV(x, y, width) + 1 < 2 * (((height + 1) \div 2) * ((width + 1) \div 2))
           /\ SemiPlanarUV(x, y, width) <= WrittenUV(x, y, width)
<1> DEFINE h == y \div 2
           w == x \div 2
           H == (height + 1) \div 2
           W == (width + 1) \div 2
<1>1. h \in Nat /\ w \in Nat /\ H \in Nat /\ W \in Nat /\ h + 1 <= H /\ w + 1 <= W
  OBVIOUS
<1>2. WrittenUV(x, y, width) = 2 * (h * W + w)
  BY DEF WrittenUV
<1> HIDE DEF h, w, H, W
<1>3. (h + 1) * W <= H * W
  BY <1>1, ProductGrows, h + 1 \in Nat
<1>4. (h + 1) * W = h * W + W
  BY <1>1
<1>5. WrittenUV(x, y, width) + 1 < 2 * (H * W)
  <2> DEFINE a == h * W
             b == H * W
  <2>1. a \in Int /\ b \in Int /\ a + W <= b
    BY <1>1, <1>3, <1>4
  <2> HIDE DEF a, b
  <2>2. 2 * (a + w) + 1 < 2 * b
    BY <1>1, <2>1
  <2> QED
    BY <1>2, <2>2 DEF a, b
<1>6. SemiPlanarUV(x, y, width) \in Int
  BY DEF SemiPlanarUV
<1>7. SemiPlanarUV(x, y, width) <= WrittenUV(x, y, width)
  BY <1>6, OddWidthShearsChroma
<1> QED
  BY <1>5, <1>7 DEF H, W

\* A block's first pixel in the order of the loops is the one that clears it, and each
\* pixel adds to the block of that pixel: no sum starts from what the output held.
THEOREM FirstPixelClears ==
    ASSUME NEW width \in Nat, NEW x \in Nat, NEW y \in Nat
    PROVE  /\ ClearsBlock(2 * (x \div 2), 2 * (y \div 2))
           /\ 2 * (x \div 2) <= x /\ 2 * (y \div 2) <= y
           /\ WrittenUV(2 * (x \div 2), 2 * (y \div 2), width) = WrittenUV(x, y, width)
<1>1. ClearsBlock(2 * (x \div 2), 2 * (y \div 2)) /\ 2 * (x \div 2) <= x /\ 2 * (y \div 2) <= y
  BY DEF ClearsBlock
<1>2. (2 * (x \div 2)) \div 2 = x \div 2 /\ (2 * (y \div 2)) \div 2 = y \div 2
  OBVIOUS
<1> QED
  BY <1>1, <1>2 DEF WrittenUV

\* ConvertYUV420SPToARGB8888HalfSize reads the four samples of a pixel inside the luma
\* plane; at an odd width the pointer falls behind its row by one sample per row
\* (yuv2rgb.cpp:128, 139) and the chroma by two bytes (131-134).
THEOREM HalfSizeReadsStayInside ==
    ASSUME NEW width \in Nat, NEW height \in Nat,
           NEW x \in 0..(width \div 2 - 1), NEW y \in 0..(height \div 2 - 1)
    PROVE  /\ HalfSizeY(x, y, width) =
                2 * (y * width) + 2 * x - (IF width % 2 = 0 THEN 0 ELSE y)
           /\ HalfSizeY(x, y, width) + width + 1 < width * height
           /\ HalfSizeUV(x, y, width) =
                WrittenUV(2 * x, 2 * y, width) - (IF width % 2 = 0 THEN 0 ELSE 2 * y)
<1> DEFINE p == y * width
<1>1. p \in Nat
  OBVIOUS
<1>2. y * (2 * (width \div 2) + width) = 2 * p - (IF width % 2 = 0 THEN 0 ELSE y)
  <2>1. CASE width % 2 = 0
    <3>1. 2 * (width \div 2) + width = 2 * width
      BY <2>1
    <3>2. y * (2 * width) = 2 * p
      OBVIOUS
    <3> QED
      BY <2>1, <3>1, <3>2
  <2>2. CASE width % 2 # 0
    <3>1. 2 * (width \div 2) + width = 2 * width - 1
      BY <2>2
    <3>2. y * (2 * width - 1) = 2 * p - y
      OBVIOUS
    <3> QED
      BY <2>2, <3>1, <3>2
  <2> QED
    BY <2>1, <2>2
<1>3. HalfSizeY(x, y, width) = 2 * p + 2 * x - (IF width % 2 = 0 THEN 0 ELSE y)
  <2> HIDE DEF p
  <2> QED
    BY <1>1, <1>2 DEF HalfSizeY
<1>4. HalfSizeY(x, y, width) + width + 1 < width * height
  <2>1. 2 * y + 2 <= height /\ 2 * x + 2 <= width /\ 2 * y + 2 \in Nat
    OBVIOUS
  <2>2. width * (2 * y + 2) <= width * height
    BY <2>1, ProductGrows
  <2>3. width * (2 * y + 2) = 2 * p + 2 * width
    OBVIOUS
  <2> DEFINE q == width * height
  <2>4. q \in Int /\ 2 * p + 2 * width <= q
    BY <2>2, <2>3
  <2> HIDE DEF p, q
  <2>5. 2 * p + 2 * x - (IF width % 2 = 0 THEN 0 ELSE y) + width + 1 < q
    BY <1>1, <2>1, <2>4
  <2> QED
    BY <1>3, <2>5 DEF q
<1>5. HalfSizeUV(x, y, width) =
        WrittenUV(2 * x, 2 * y, width) - (IF width % 2 = 0 THEN 0 ELSE 2 * y)
  <2>1. (2 * x) \div 2 = x /\ (2 * y) \div 2 = y
    OBVIOUS
  <2>2. (width + 1) \div 2 = width \div 2 + (IF width % 2 = 0 THEN 0 ELSE 1)
    OBVIOUS
  <2> DEFINE k == width \div 2
  <2>3. k \in Nat
    OBVIOUS
  <2> HIDE DEF k
  <2>4. 2 * (y * (k + 1) + x) = 2 * (y * k + x) + 2 * y
    BY <2>3
  <2>5. WrittenUV(2 * x, 2 * y, width) = 2 * (y * ((width + 1) \div 2) + x)
    BY <2>1 DEF WrittenUV
  <2>6. CASE width % 2 = 0
    BY <2>2, <2>3, <2>5, <2>6 DEF HalfSizeUV, k
  <2>7. CASE width % 2 # 0
    <3>1. (width + 1) \div 2 = k + 1
      BY <2>2, <2>7 DEF k
    <3>2. HalfSizeUV(x, y, width) = 2 * (y * k + x)
      BY DEF HalfSizeUV, k
    <3>3. 2 * (y * k + x) \in Int
      BY <2>3
    <3> QED
      BY <2>4, <2>5, <2>7, <3>1, <3>2, <3>3
  <2> QED
    BY <2>6, <2>7
<1> QED
  BY <1>3, <1>4, <1>5

----------------------------------------------------------------------------
(* Sizes and places *)

LEMMA LeastExists ==
    ASSUME NEW S \in SUBSET Nat, S # {}
    PROVE  \E k \in S : \A j \in S : k <= j
<1> DEFINE R == OpToRel(<, Nat)
<1>1. IsWellFoundedOn(R, Nat)
  BY NatLessThanWellFounded
<1> HIDE DEF R
<1>2. PICK k \in S : \A j \in S : <<j, k>> \notin R
  BY <1>1, WFMin, Zenon
<1>3. \A j, i \in Nat : j < i => <<j, i>> \in R
  BY DEF R, OpToRel
<1>4. \A j \in S : ~(j < k)
  BY <1>2, <1>3, Zenon
<1> QED
  BY <1>4

\* chooseOptimalSize (CameraUtils.java:146-168) returns one of the options, for every
\* list of them, and where some are big enough the smallest of these.
THEOREM ChosenPreview ==
    ASSUME NEW choices \in Seq(Sizes), choices # <<>>
    PROVE  /\ \E k \in DOMAIN choices : ChooseOptimalSize(choices) = choices[k]
           /\ \A j \in BigEnough(choices) :
                /\ ChooseOptimalSize(choices).width >= MINIMUM_PREVIEW_SIZE
                /\ ChooseOptimalSize(choices).height >= MINIMUM_PREVIEW_SIZE
                /\ Area(ChooseOptimalSize(choices)) <= Area(choices[j])
<1> DEFINE B == BigEnough(choices)
           area(k) == Area(choices[k])
           First(k) == \A j \in B : area(k) < area(j) \/ (area(k) = area(j) /\ k <= j)
<1>1. B \subseteq DOMAIN choices /\ DOMAIN choices \subseteq Nat /\ 1 \in DOMAIN choices
  BY DEF BigEnough
<1>2. \A k \in DOMAIN choices : area(k) \in Nat
  <2> SUFFICES ASSUME NEW k \in DOMAIN choices
               PROVE  choices[k].width * choices[k].height \in Nat
    BY DEF Area
  <2>1. choices[k] \in Sizes
    OBVIOUS
  <2>2. choices[k].width \in Nat /\ choices[k].height \in Nat
    BY <2>1 DEF Sizes
  <2> QED
    BY <2>2
<1>3. CASE B = {}
  BY <1>1, <1>3 DEF ChooseOptimalSize
<1>4. CASE B # {}
  <2> HIDE DEF B, area
  <2>1. PICK a \in {area(k) : k \in B} : \A b \in {area(k) : k \in B} : a <= b
    BY <1>1, <1>2, <1>4, LeastExists
  <2>2. PICK i \in {k \in B : area(k) = a} : \A j \in {k \in B : area(k) = a} : i <= j
    <3>1. {k \in B : area(k) = a} \in SUBSET Nat /\ {k \in B : area(k) = a} # {}
      BY <1>1, <2>1
    <3> QED
      BY <3>1, LeastExists, Zenon
  <2>3. i \in B /\ area(i) = a /\ \A j \in B : area(j) = a => i <= j
    BY <2>2
  <2>4. First(i)
    <3> SUFFICES ASSUME NEW j \in B
                 PROVE  area(i) < area(j) \/ (area(i) = area(j) /\ i <= j)
      OBVIOUS
    <3>1. area(j) \in Nat /\ a \in Nat /\ a <= area(j)
      BY <1>1, <1>2, <2>1, <2>3
    <3>2. CASE area(j) = a
      BY <2>3, <3>2
    <3>3. CASE area(j) # a
      <4>1. a < area(j)
        BY <3>1, <3>3
      <4> QED
        BY <2>3, <4>1
    <3> QED
      BY <3>2, <3>3
  <2> USE DEF B, area
  <2> DEFINE c == CHOOSE k \in BigEnough(choices) : \A j \in BigEnough(choices) :
                    \/ Area(choices[k]) < Area(choices[j])
                    \/ Area(choices[k]) = Area(choices[j]) /\ k <= j
  <2>5. c \in BigEnough(choices) /\ First(c)
    <3>1. /\ i \in BigEnough(choices)
          /\ \A j \in BigEnough(choices) :
               \/ Area(choices[i]) < Area(choices[j])
               \/ Area(choices[i]) = Area(choices[j]) /\ i <= j
      BY <2>3, <2>4
    <3> QED
      BY <3>1
  <2>6. ChooseOptimalSize(choices) = choices[c]
    BY <1>4, Zenon DEF ChooseOptimalSize
  <2> HIDE DEF c, B, area
  <2>7. c \in B
    BY <2>5 DEF B
  <2>8. \A j \in B : area(c) <= area(j)
    BY <1>1, <1>2, <2>5, <2>7
  <2> QED
    BY <1>1, <2>6, <2>7, <2>8 DEF B, BigEnough, area
<1> QED
  BY <1>3, <1>4

\* Where the preview is 320 rows high, as the comment at FaceActivity.java:416 has it,
\* a mark the native code has scaled by 2.5 (jni_face_det.cpp:90, 187-203) is in a
\* column of the preview that its column of the bitmap shows.
THEOREM ColumnsMatch ==
    ASSUME NEW preview \in Sizes, preview.height = 320, NEW x \in 0..(INPUT_SIZE - 1)
    PROVE  FullSize(x) \in 0..319 /\ ColumnShows(x, FullSize(x), preview)
  BY DEF FullSize, ColumnShows, INPUT_SIZE

\* For any higher preview, the sizes chooseOptimalSize also takes, the marks do not
\* reach the last columns: those of the last column of the bitmap are drawn at 317.
THEOREM ColumnsFallShort ==
    ASSUME NEW preview \in Sizes, preview.height > 320
    PROVE  FullSize(INPUT_SIZE - 1) = 317 /\ ~ColumnShows(INPUT_SIZE - 1, 317, preview)
<1>1. preview.height \in Nat
  BY DEF Sizes
<1> QED
  BY <1>1 DEF FullSize, ColumnShows, INPUT_SIZE

\* The height of the bitmap is rounded down, so its rows are not exactly 2.5 rows of a
\* preview of height 320: the mark of a row is at most where the row begins, and
\* less than three rows before it.
THEOREM RowsDriftLittle ==
    ASSUME NEW preview \in Sizes, preview.height = 320,
           NEW y \in 0..(CroppedHeight(preview) - 1)
    PROVE  /\ CroppedHeight(preview) * FullSize(y) <= y * preview.width
           /\ y * preview.width < CroppedHeight(preview) * (FullSize(y) + 3)
<1> DEFINE C == CroppedHeight(preview)
           W == preview.width
           m == FullSize(y)
<1>1. W \in Nat /\ C \in Nat /\ 5 * C <= 2 * W /\ 2 * W < 5 * C + 5
  BY DEF Sizes, CroppedHeight, INPUT_SIZE
<1>2. y \in Nat /\ y + 1 <= C
  BY <1>1
<1>3. m \in Nat /\ 2 * m <= 5 * y /\ 5 * y <= 2 * m + 1
  BY <1>2 DEF FullSize
<1> HIDE DEF C, W, m
<1>4. y * (5 * C) <= y * (2 * W) /\ y * (2 * W) <= y * (5 * C + 5)
  BY <1>1, <1>2, ProductGrows, 5 * C \in Nat, 2 * W \in Nat, 5 * C + 5 \in Nat
<1>5. C * (2 * m) <= C * (5 * y) /\ C * (5 * y) <= C * (2 * m + 1)
  BY <1>1, <1>2, <1>3, ProductGrows, 2 * m \in Nat, 5 * y \in Nat, 2 * m + 1 \in Nat
<1> DEFINE yC == y * C
           yW == y * W
           Cm == C * m
<1>6. yC \in Nat /\ yW \in Nat /\ Cm \in Nat
  BY <1>1, <1>2, <1>3
<1>7. y * (5 * C) = 5 * yC /\ y * (2 * W) = 2 * yW /\ y * (5 * C + 5) = 5 * yC + 5 * y
  BY <1>1, <1>2
<1>8. C * (2 * m) = 2 * Cm /\ C * (5 * y) = 5 * yC /\ C * (2 * m + 1) = 2 * Cm + C
  BY <1>1, <1>2, <1>3
<1>9. C * (m + 3) = Cm + 3 * C
  BY <1>1, <1>3
<1> HIDE DEF yC, yW, Cm
<1>10. Cm <= yW /\ yW < Cm + 3 * C
  BY <1>1, <1>2, <1>4, <1>5, <1>6, <1>7, <1>8
<1> QED
  BY <1>9, <1>10 DEF C, W, m, Cm, yW

\* What a detection returns does not depend on the detection before it, though an
\* empty image leaves mRets and mFaceShapeMap as they were (detector.h:179-203); all
\* its faces come with a rotation and a translation if the landmark model was read,
\* none if no path was given, and a pose is undefined exactly if the path has no file,
\* which det does not ask for (detector.h:194).
THEOREM ResultsAreFresh ==
    ASSUME NEW F, NEW found \in Seq(F), NEW image,
           NEW mLandMarkModel \in LandMarkModels, NEW before, NEW other
    PROVE  /\ DetectResult(Det(found, image, mLandMarkModel, before)) =
                DetectResult(Det(found, image, mLandMarkModel, other))
           /\ image # "empty" =>
                DetectResult(Det(found, image, mLandMarkModel, before)) =
                  [i \in DOMAIN found |->
                      [face |-> found[i],
                       pose |-> IF mLandMarkModel = "loaded" THEN "solved"
                                ELSE IF mLandMarkModel = "none" THEN "none"
                                ELSE "undefined"]]
<1>1. DOMAIN found = 1..Len(found)
  OBVIOUS
<1>2. CASE image = "empty"
  BY <1>2 DEF Det, DetectResult
<1>3. CASE image # "empty"
  <2> DEFINE shapes == [i \in {j \in DOMAIN found : mLandMarkModel # "none"} |->
                           NumParts(mLandMarkModel)]
             det == [size |-> Len(found), mRets |-> found, mFaceShapeMap |-> shapes]
             pose == IF mLandMarkModel = "loaded" THEN "solved"
                     ELSE IF mLandMarkModel = "none" THEN "none" ELSE "undefined"
  <2>1. Det(found, image, mLandMarkModel, before) = det
        /\ Det(found, image, mLandMarkModel, other) = det
    BY <1>3 DEF Det
  <2>2. ASSUME NEW i \in DOMAIN found
        PROVE  Pose(det, i) = pose
    <3>1. CASE mLandMarkModel = "none"
      BY <3>1 DEF Pose
    <3>2. CASE mLandMarkModel # "none"
      <4>1. i \in DOMAIN det.mFaceShapeMap /\ det.mFaceShapeMap[i] = NumParts(mLandMarkModel)
        BY <2>2, <3>2
      <4>2. (\A k \in PointsTaken : k < NumParts(mLandMarkModel)) <=> mLandMarkModel = "loaded"
        BY DEF PointsTaken, NumParts
      <4> HIDE DEF det
      <4> QED
        BY <3>2, <4>1, <4>2 DEF Pose, LandMarkModels
    <3> QED
      BY <3>1, <3>2
  <2>3. det.size = Len(found) /\ det.mRets = found
    OBVIOUS
  <2> HIDE DEF det
  <2>4. DetectResult(det) = [i \in DOMAIN found |-> [face |-> found[i], pose |-> pose]]
    BY <1>1, <2>2, <2>3 DEF DetectResult
  <2> QED
    BY <1>3, <2>1, <2>4
<1> QED
  BY <1>2, <1>3

LEMMA WithinIsTransitive ==
    ASSUME NEW p \in Rects, NEW q \in Rects, NEW r \in Rects, Within(p, q), Within(q, r)
    PROVE  Within(p, r)
<1>1. \A a \in Rects : a.x \in Int /\ a.y \in Int /\ a.width \in Nat /\ a.height \in Nat
  BY DEF Rects
<1> QED
  BY <1>1 DEF Within

LEMMA SameRect ==
    ASSUME NEW p \in Rects, NEW q \in Rects,
           p.x = q.x, p.y = q.y, p.width = q.width, p.height = q.height
    PROVE  p = q
  BY DEF Rects

LEMMA WithinNoLarger ==
    ASSUME NEW p \in Rects, NEW q \in Rects, Within(p, q),
           q.width + q.height <= p.width + p.height
    PROVE  p = q
<1> DEFINE px == p.x
           py == p.y
           pw == p.width
           ph == p.height
           qx == q.x
           qy == q.y
           qw == q.width
           qh == q.height
<1>1. px \in Int /\ py \in Int /\ pw \in Int /\ ph \in Int
  BY DEF Rects
<1>2. qx \in Int /\ qy \in Int /\ qw \in Int /\ qh \in Int
  BY DEF Rects
<1>3. qx <= px /\ px + pw <= qx + qw /\ qy <= py /\ py + ph <= qy + qh
  BY DEF Within
<1>4. qw + qh <= pw + ph
  OBVIOUS
<1> HIDE DEF px, py, pw, ph, qx, qy, qw, qh
<1>5. pw = qw /\ ph = qh /\ px = qx /\ py = qy
  BY <1>1, <1>2, <1>3, <1>4
<1> QED
  BY <1>5, SameRect DEF px, py, pw, ph, qx, qy, qw, qh

\* Of rectangles that differ from each other the filter (detector.h:45-52) loses none
\* without one that is kept and has it inside.
THEOREM FilteredCovers ==
    ASSUME NEW found \in Seq(Rects), NEW Bound \in Nat,
           \A i \in DOMAIN found : found[i].width + found[i].height <= Bound,
           \A i, j \in DOMAIN found : found[i] = found[j] => i = j,
           NEW i \in DOMAIN found
    PROVE  \E k \in FoundFiltered(found) : Within(found[i], found[k])
<1> DEFINE S == {j \in DOMAIN found : Within(found[i], found[j])}
           left(j) == Bound - (found[j].width + found[j].height)
<1>1. \A j \in DOMAIN found : found[j] \in Rects
  OBVIOUS
<1>2. \A j \in DOMAIN found :
        /\ found[j].x \in Int /\ found[j].y \in Int
        /\ found[j].width \in Nat /\ found[j].height \in Nat
  BY <1>1 DEF Rects
<1>3. \A j \in DOMAIN found : left(j) \in Nat
  BY <1>2
<1>4. i \in S
  BY <1>2 DEF Within
<1>5. PICK k \in S : \A j \in S : left(k) <= left(j)
  <2>1. {left(j) : j \in S} \in SUBSET Nat /\ {left(j) : j \in S} # {}
    BY <1>3, <1>4
  <2>2. PICK a \in {left(j) : j \in S} : \A b \in {left(j) : j \in S} : a <= b
    BY <2>1, LeastExists, Zenon
  <2> QED
    BY <2>2
<1>6. ASSUME NEW j \in DOMAIN found, j # k, Within(found[k], found[j])
      PROVE  FALSE
  <2>1. k \in DOMAIN found /\ Within(found[i], found[k])
    BY <1>5
  <2>2. found[i] \in Rects /\ found[j] \in Rects /\ found[k] \in Rects
    BY <1>1, <2>1
  <2>3. Within(found[i], found[j])
    BY <1>6, <2>1, <2>2, WithinIsTransitive
  <2>4. left(k) <= left(j)
    BY <1>5, <2>3
  <2>5. found[j].width + found[j].height <= found[k].width + found[k].height
    BY <1>2, <2>1, <2>4
  <2>6. found[j] = found[k]
    BY <1>6, <2>2, <2>5, WithinNoLarger
  <2> QED
    BY <1>6, <2>1, <2>6
<1> QED
  BY <1>5, <1>6 DEF FoundFiltered

\* A rectangle that was found twice is lost with its twin: each lies in the other.
THEOREM TwinsVanish ==
    ASSUME NEW found \in Seq(Rects), NEW i \in DOMAIN found, NEW j \in DOMAIN found,
           i # j, found[i] = found[j]
    PROVE  i \notin FoundFiltered(found) /\ j \notin FoundFiltered(found)
<1>1. found[i] \in Rects
  OBVIOUS
<1>2. Within(found[i], found[i])
  BY <1>1, SMTT(30) DEF Rects, Within
<1> QED
  BY <1>2 DEF FoundFiltered

LEMMA Quotient ==
    ASSUME NEW a \in Nat, NEW b \in Nat \ {0}, NEW c \in Nat
    PROVE  (a \div b) \in Nat /\ (c <= a \div b <=> b * c <= a)
  OBVIOUS

\* Each doubling of the sample size leaves the image at least as large as was asked
\* for, and behind the loop one side is less than twice that: the size is the largest
\* power of two the comment at BitmapUtils.java:30-31 speaks of.
THEOREM SampledStaysLarge ==
    ASSUME NEW height \in Nat, NEW width \in Nat, NEW reqHeight \in Nat, NEW reqWidth \in Nat,
           NEW inSampleSize \in Nat \ {0}
    PROVE  /\ SampleDoubles(inSampleSize, height, width, reqHeight, reqWidth) =>
                /\ height \div (2 * inSampleSize) >= reqHeight
                /\ width \div (2 * inSampleSize) >= reqWidth
           /\ ~SampleDoubles(inSampleSize, height, width, reqHeight, reqWidth) =>
                \/ height \div inSampleSize < 2 * reqHeight
                \/ width \div inSampleSize < 2 * reqWidth
<1>1. ASSUME NEW n \in Nat, NEW r \in Nat
      PROVE  /\ (n \div 2) \div inSampleSize >= r => n \div (2 * inSampleSize) >= r
             /\ (n \div 2) \div inSampleSize < r => n \div inSampleSize < 2 * r
  <2> DEFINE p == inSampleSize * r
  <2>1. p \in Nat /\ n \div 2 \in Nat /\ 2 * inSampleSize \in Nat \ {0} /\ 2 * r \in Nat
    OBVIOUS
  <2>2. r <= (n \div 2) \div inSampleSize <=> p <= n \div 2
    BY <2>1, Quotient
  <2>3. (2 * inSampleSize) * r = 2 * p /\ inSampleSize * (2 * r) = 2 * p
    OBVIOUS
  <2>4. r <= n \div (2 * inSampleSize) <=> 2 * p <= n
    BY <2>1, <2>3, Quotient
  <2>5. 2 * r <= n \div inSampleSize <=> 2 * p <= n
    BY <2>1, <2>3, Quotient
  <2>6. (n \div 2) \div inSampleSize \in Nat /\ n \div inSampleSize \in Nat
        /\ n \div (2 * inSampleSize) \in Nat
    BY <2>1, Quotient
  <2> HIDE DEF p
  <2>7. p <= n \div 2 <=> 2 * p <= n
    BY <2>1
  <2> QED
    BY <2>1, <2>2, <2>4, <2>5, <2>6, <2>7
<1>2. \A n \in Nat : (n \div 2) \div inSampleSize \in Nat
  BY Quotient, \A n \in Nat : n \div 2 \in Nat
<1>3. /\ (height \div 2) \div inSampleSize >= reqHeight =>
           height \div (2 * inSampleSize) >= reqHeight
      /\ (height \div 2) \div inSampleSize < reqHeight => height \div inSampleSize < 2 * reqHeight
  BY <1>1
<1>4. /\ (width \div 2) \div inSampleSize >= reqWidth =>
           width \div (2 * inSampleSize) >= reqWidth
      /\ (width \div 2) \div inSampleSize < reqWidth => width \div inSampleSize < 2 * reqWidth
  BY <1>1
<1> DEFINE h == (height \div 2) \div inSampleSize
           w == (width \div 2) \div inSampleSize
<1>5. h \in Nat /\ w \in Nat
  BY <1>2
<1> HIDE DEF h, w
<1>6. (~(h >= reqHeight) => h < reqHeight) /\ (~(w >= reqWidth) => w < reqWidth)
  BY <1>5
<1> QED
  BY <1>3, <1>4, <1>6, Zenon DEF SampleDoubles, h, w

=============================================================================
