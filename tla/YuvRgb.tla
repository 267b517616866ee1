------------------------------- MODULE YuvRgb -------------------------------
(***************************************************************************)
(* The colour conversions of jni_common: yuv2rgb.cpp, which OnGetImage-    *)
(* Listener reaches through ImageUtils, and its counterpart rgb2yuv.cpp.   *)
(* Pure arithmetic on int, without a state: the module says what a sample  *)
(* becomes and which element of a plane is read or written for the pixel   *)
(* (x, y).  The right shift of a negative int is arithmetic in the NDK's   *)
(* compilers, and so is \div.  Pictures_proofs proves what holds for every *)
(* sample, size and stride.                                                *)
(***************************************************************************)
EXTENDS Integers

Byte == 0..255
FitsInt32(n) == n \in Int /\ n >= -2147483647 - 1 /\ n <= 2147483647

----------------------------------------------------------------------------
(* yuv2rgb.cpp: a sample *)

kMaxChannelValue == 262143

Saturated(n) == IF n < 0 THEN 0 ELSE IF n > kMaxChannelValue THEN kMaxChannelValue ELSE n

Luma(nY) == IF nY < 16 THEN 0 ELSE nY - 16

Red(nY, nU, nV) == 1192 * Luma(nY) + 1634 * (nV - 128)
Green(nY, nU, nV) == 1192 * Luma(nY) - 833 * (nV - 128) - 400 * (nU - 128)
Blue(nY, nU, nV) == 1192 * Luma(nY) + 2066 * (nU - 128)

\* Eight bits of a channel, and the five or six of RGB 565, before the mask.
Eight(n) == Saturated(n) \div 1024
Six(n) == Saturated(n) \div 4096
Five(n) == Saturated(n) \div 8192

----------------------------------------------------------------------------
(* yuv2rgb.cpp: the elements that are read for the pixel (x, y) *)

\* ConvertYUV420ToARGB8888.
PlanarY(x, y, y_row_stride) == y_row_stride * y + x
PlanarUV(x, y, uv_row_stride, uv_pixel_stride) ==
    uv_row_stride * (y \div 2) + (x \div 2) * uv_pixel_stride

\* ConvertYUV420SPToARGB8888 and ConvertYUV420SPToRGB565: the first of the two
\* bytes of the block.
SemiPlanarUV(x, y, width) == (y \div 2) * width + 2 * (x \div 2)

\* ConvertYUV420SPToARGB8888HalfSize: where pY is for the pixel (x, y) of the
\* output, after so many steps of 2 and, behind each row, one of the stride.
HalfSizeY(x, y, width) == y * (2 * (width \div 2) + width) + 2 * x

\* Its pUV steps through the plane without a regard to the rows.
HalfSizeUV(x, y, width) == 2 * (y * (width \div 2) + x)

----------------------------------------------------------------------------
(* rgb2yuv.cpp *)

EncodedY(r8, g8, b8) == ((66 * r8 + 129 * g8 + 25 * b8 + 128) \div 256) + 16

\* What one pixel adds to V and to U of its block.
PartV(r8, g8, b8) == ((112 * r8 - 94 * g8 - 18 * b8 + 128) \div 1024) + 32
PartU(r8, g8, b8) == ((-38 * r8 - 74 * g8 + 112 * b8 + 128) \div 1024) + 32

\* WriteYUV: the first of the two bytes of the block.
WrittenUV(x, y, width) == 2 * ((y \div 2) * ((width + 1) \div 2) + (x \div 2))

\* The first pixel of a block clears it; ConvertARGB8888ToYUV420SP visits it
\* before the others.
ClearsBlock(x, y) == x % 2 = 0 /\ y % 2 = 0

\* ConvertRGB565ToYUV420SP: five and six bits stretched to eight.
StretchFive(n) == n * 8 + n \div 4
StretchSix(n) == n * 4 + n \div 16

=============================================================================
