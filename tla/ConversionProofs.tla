--------------------------- MODULE ConversionProofs ----------------------------
(***************************************************************************)
(* Proofs about the converters, for frames of every size and samples of    *)
(* every level.                                                            *)
(***************************************************************************)
EXTENDS Conversion, ManagerProofs

(* Arithmetic of one pixel.                                                *)

LEMMA TablesAreInt ==
  ASSUME NEW i \in Levels
  PROVE  /\ LutRv[i] \in Int /\ LutBu[i] \in Int
         /\ LutGu[i] \in Int /\ LutGv[i] \in Int
BY SMTT(30) DEF Levels, LutRv, LutBu, LutGu, LutGv, Quotient

\* A table entry is the product it stands for, cut at less than a level.
LEMMA LutRvClose ==
  ASSUME NEW i \in Levels
  PROVE  /\ -1000 < 1000 * LutRv[i] - 1402 * (i - 128)
         /\ 1000 * LutRv[i] - 1402 * (i - 128) < 1000
BY SMTT(30) DEF Levels, LutRv, Quotient

LEMMA LutBuClose ==
  ASSUME NEW i \in Levels
  PROVE  /\ -1000 < 1000 * LutBu[i] - 1772 * (i - 128)
         /\ 1000 * LutBu[i] - 1772 * (i - 128) < 1000
BY SMTT(30) DEF Levels, LutBu, Quotient

LEMMA LutGuClose ==
  ASSUME NEW i \in Levels
  PROVE  /\ -1000 < 1000 * LutGu[i] + 714 * (i - 128)
         /\ 1000 * LutGu[i] + 714 * (i - 128) < 1000
BY SMTT(30) DEF Levels, LutGu, Quotient

LEMMA LutGvClose ==
  ASSUME NEW i \in Levels
  PROVE  /\ -1000 < 1000 * LutGv[i] + 344 * (i - 128)
         /\ 1000 * LutGv[i] + 344 * (i - 128) < 1000
BY SMTT(30) DEF Levels, LutGv, Quotient

LEMMA ClipIsLevel ==
  ASSUME NEW color \in Int
  PROVE  CLIP(color) \in Levels
BY DEF CLIP, Levels

\* Cutting to a byte brings no two colours further apart.
LEMMA ClipNear ==
  ASSUME NEW color \in Int, NEW wanted \in Int,
         Magnitude(1000 * color - wanted) < 2000
  PROVE  Near(CLIP(color), 1, wanted)
BY SMTT(30) DEF CLIP, Near, Magnitude

\* The colours of yuyv2rgb are those of the formula.
LEMMA FromTablesNear ==
  ASSUME NEW y \in Levels, NEW u \in Levels, NEW v \in Levels
  PROVE  /\ FromTables(y, u, v) \in Colors
         /\ Near(FromTables(y, u, v).red, 1, Formula(y, u, v).red)
         /\ Near(FromTables(y, u, v).green, 1, Formula(y, u, v).green)
         /\ Near(FromTables(y, u, v).blue, 1, Formula(y, u, v).blue)
<1>1. y \in Int /\ u \in Int /\ v \in Int
  BY DEF Levels
<1>2. /\ y + LutRv[v] \in Int /\ y + LutGu[u] + LutGv[v] \in Int /\ y + LutBu[u] \in Int
  BY <1>1, TablesAreInt
<1>3. FromTables(y, u, v) \in Colors
  BY <1>2, ClipIsLevel DEF FromTables, Colors
<1>4. Magnitude(1000 * (y + LutRv[v]) - (1000 * y + 1402 * (v - 128))) < 2000
  BY <1>1, TablesAreInt, LutRvClose DEF Magnitude
<1>5. Magnitude(1000 * (y + LutGu[u] + LutGv[v])
                - (1000 * y - 714 * (u - 128) - 344 * (v - 128))) < 2000
  BY <1>1, TablesAreInt, LutGuClose, LutGvClose DEF Magnitude
<1>6. Magnitude(1000 * (y + LutBu[u]) - (1000 * y + 1772 * (u - 128))) < 2000
  BY <1>1, TablesAreInt, LutBuClose DEF Magnitude
<1>7. /\ Near(CLIP(y + LutRv[v]), 1, 1000 * y + 1402 * (v - 128))
      /\ Near(CLIP(y + LutBu[u]), 1, 1000 * y + 1772 * (u - 128))
  BY <1>1, <1>2, <1>4, <1>6, ClipNear
<1>8. Near(CLIP(y + LutGu[u] + LutGv[v]), 1,
           1000 * y - 714 * (u - 128) - 344 * (v - 128))
  BY <1>1, <1>2, <1>5, ClipNear
<1>9. QED
  BY <1>3, <1>7, <1>8 DEF FromTables, Formula

\* The two converters agree on one pixel, whatever its samples.
LEMMA PixelsAgree ==
  ASSUME NEW y \in Levels, NEW u \in Levels, NEW v \in Levels
  PROVE  Agree(y, u, v)
<1> DEFINE red   == (y * 256 + 359 * (v - 128)) \div 256
           green == (y * 256 - 88 * (u - 128) - 183 * (v - 128)) \div 256
           blue  == (y * 256 + 454 * (u - 128)) \div 256
<1>1. y \in Int /\ u \in Int /\ v \in Int
  BY DEF Levels
<1>2. red \in Int /\ green \in Int /\ blue \in Int
  BY <1>1
<1>3. \A a, b, n \in Int :
        /\ Magnitude(a - b) <= n => Magnitude(CLIP(a) - CLIP(b)) <= n
        /\ 1000 * Magnitude(a - b) <= n => 1000 * Magnitude(CLIP(a) - CLIP(b)) <= n
  BY DEF Magnitude, CLIP
<1>4. /\ 256 * red <= y * 256 + 359 * (v - 128)
      /\ y * 256 + 359 * (v - 128) < 256 * red + 256
      /\ 256 * green <= y * 256 - 88 * (u - 128) - 183 * (v - 128)
      /\ y * 256 - 88 * (u - 128) - 183 * (v - 128) < 256 * green + 256
      /\ 256 * blue <= y * 256 + 454 * (u - 128)
      /\ y * 256 + 454 * (u - 128) < 256 * blue + 256
  BY <1>1
<1>. HIDE DEF red, green, blue
<1> DEFINE rv == LutRv[v]  bu == LutBu[u]  gu == LutGu[u]  gv == LutGv[v]
<1>5. /\ rv \in Int /\ bu \in Int /\ gu \in Int /\ gv \in Int
      /\ -1000 < 1000 * rv - 1402 * (v - 128) /\ 1000 * rv - 1402 * (v - 128) < 1000
      /\ -1000 < 1000 * bu - 1772 * (u - 128) /\ 1000 * bu - 1772 * (u - 128) < 1000
      /\ -1000 < 1000 * gu + 714 * (u - 128) /\ 1000 * gu + 714 * (u - 128) < 1000
      /\ -1000 < 1000 * gv + 344 * (v - 128) /\ 1000 * gv + 344 * (v - 128) < 1000
  <2>1. rv \in Int /\ bu \in Int /\ gu \in Int /\ gv \in Int
    BY TablesAreInt
  <2>2. -1000 < 1000 * rv - 1402 * (v - 128) /\ 1000 * rv - 1402 * (v - 128) < 1000
    BY LutRvClose
  <2>3. -1000 < 1000 * bu - 1772 * (u - 128) /\ 1000 * bu - 1772 * (u - 128) < 1000
    BY LutBuClose
  <2>4. -1000 < 1000 * gu + 714 * (u - 128) /\ 1000 * gu + 714 * (u - 128) < 1000
    BY LutGuClose
  <2>5. -1000 < 1000 * gv + 344 * (v - 128) /\ 1000 * gv + 344 * (v - 128) < 1000
    BY LutGvClose
  <2> HIDE DEF rv, bu, gu, gv
  <2>6. QED
    BY <2>1, <2>2, <2>3, <2>4, <2>5
<1> HIDE DEF rv, bu, gu, gv
<1>6. /\ Magnitude(red - (y + LutRv[v])) <= 2 /\ Magnitude(blue - (y + LutBu[u])) <= 2
      /\ 1000 * Magnitude(green - (y + LutGu[u] + LutGv[v])) <= 371 * Magnitude(u - v) + 3100
  <2>1. /\ red - (y + rv) \in -2..2 /\ blue - (y + bu) \in -2..2
    BY SMTT(60), <1>1, <1>2, <1>4, <1>5 DEF Levels
  <2>2. LET d == green - (y + gu + gv)
        IN  /\ u >= v => 1000 * d <= 371 * (u - v) + 3100 /\ -1000 * d <= 371 * (u - v) + 3100
            /\ u < v => 1000 * d <= 371 * (v - u) + 3100 /\ -1000 * d <= 371 * (v - u) + 3100
    BY SMTT(60), <1>1, <1>2, <1>4, <1>5 DEF Levels
  <2>3. QED
    BY <1>1, <1>2, <1>5, <2>1, <2>2 DEF Magnitude, rv, bu, gu, gv
<1>7. /\ y + LutRv[v] \in Int /\ y + LutGu[u] + LutGv[v] \in Int /\ y + LutBu[u] \in Int
  BY <1>1, TablesAreInt
<1>8. /\ Magnitude(CLIP(red) - CLIP(y + LutRv[v])) <= 2
      /\ Magnitude(CLIP(blue) - CLIP(y + LutBu[u])) <= 2
  BY <1>2, <1>3, <1>6, <1>7
<1>9. 371 * Magnitude(u - v) + 3100 \in Int
  BY <1>1 DEF Magnitude
<1>10. 1000 * Magnitude(CLIP(green) - CLIP(y + LutGu[u] + LutGv[v]))
         <= 371 * Magnitude(u - v) + 3100
  BY <1>2, <1>3, <1>6, <1>7, <1>9
<1>11. QED
  BY <1>8, <1>10 DEF Agree, FromShifts, FromTables, red, green, blue

-----------------------------------------------------------------------------
(* Pixels.                                                                 *)

\* The fields of a pixel do not run into each other.
LEMMA FieldsKept ==
  ASSUME NEW color \in Colors, NEW size \in Depths
  PROVE  /\ Pack(size, color) \in Int
         /\ 0 <= Pack(size, color) /\ Pack(size, color) < PixelValues(size)
         /\ Shown(size, Pack(size, color)) =
              [red   |-> color.red \div Steps(size).red,
               green |-> color.green \div Steps(size).green,
               blue  |-> color.blue \div Steps(size).blue]
<1>1. PICK red \in 0..255 : red = color.red
  BY DEF Colors, Levels
<1>2. PICK green \in 0..255 : green = color.green
  BY DEF Colors, Levels
<1>3. PICK blue \in 0..255 : blue = color.blue
  BY DEF Colors, Levels
<1>4. CASE size = 16
  <2>1. PICK r \in 0..31 : r = red \div 8
    BY SMTT(20)
  <2>2. PICK g \in 0..63 : g = green \div 4
    BY SMTT(20)
  <2>3. PICK b \in 0..31 : b = blue \div 8
    BY SMTT(20)
  <2>4. /\ r * 2048 + g * 32 + b \in Int
        /\ 0 <= r * 2048 + g * 32 + b /\ r * 2048 + g * 32 + b < 65536
        /\ (r * 2048 + g * 32 + b) \div 2048 = r
        /\ (r * 2048 + g * 32 + b) % 32 = b
    <3>1. /\ r * 2048 + g * 32 + b \in Int
          /\ 0 <= r * 2048 + g * 32 + b /\ r * 2048 + g * 32 + b < 65536
      BY SMTT(20)
    <3>2. (r * 2048 + g * 32 + b) \div 2048 = r
      BY SMTT(20)
    <3>3. (r * 2048 + g * 32 + b) % 32 = b
      BY SMTT(20)
    <3>4. QED
      BY <3>1, <3>2, <3>3, SMTT(20)
  <2>5. ((r * 2048 + g * 32 + b) \div 32) % 64 = g
    <3>1. (r * 2048 + g * 32 + b) \div 32 = r * 64 + g
      BY SMTT(20)
    <3>2. (r * 64 + g) % 64 = g
      BY SMTT(20)
    <3>3. QED
      BY SMTT(20), <3>1, <3>2
  <2>6. Pack(size, color) = r * 2048 + g * 32 + b
    BY SMTT(20), <1>1, <1>2, <1>3, <1>4, <2>1, <2>2, <2>3 DEF Pack
  <2>7. QED
    BY SMTT(20), <1>1, <1>2, <1>3, <1>4, <2>1, <2>2, <2>3, <2>4, <2>5, <2>6
       DEF Shown, Steps, PixelValues
<1>5. CASE size # 16
  <2>1. /\ red * 65536 + green * 256 + blue \in Int
        /\ 0 <= red * 65536 + green * 256 + blue
        /\ red * 65536 + green * 256 + blue < 16777216
        /\ (red * 65536 + green * 256 + blue) \div 65536 = red
        /\ (red * 65536 + green * 256 + blue) % 256 = blue
    <3>1. /\ red * 65536 + green * 256 + blue \in Int
          /\ 0 <= red * 65536 + green * 256 + blue
          /\ red * 65536 + green * 256 + blue < 16777216
      BY SMTT(20)
    <3>2. (red * 65536 + green * 256 + blue) \div 65536 = red
      BY SMTT(20)
    <3>3. (red * 65536 + green * 256 + blue) % 256 = blue
      BY SMTT(20)
    <3>4. QED
      BY <3>1, <3>2, <3>3, SMTT(20)
  <2>2. ((red * 65536 + green * 256 + blue) \div 256) % 256 = green
    <3>1. (red * 65536 + green * 256 + blue) \div 256 = red * 256 + green
      BY SMTT(20)
    <3>2. (red * 256 + green) % 256 = green
      BY SMTT(20)
    <3>3. QED
      BY SMTT(20), <3>1, <3>2
  <2>3. Pack(size, color) = red * 65536 + green * 256 + blue
    BY SMTT(20), <1>1, <1>2, <1>3, <1>5 DEF Pack
  <2>4. red \div 1 = red /\ green \div 1 = green /\ blue \div 1 = blue
    BY SMTT(20)
  <2>5. QED
    BY SMTT(20), <1>1, <1>2, <1>3, <1>5, <2>1, <2>2, <2>3, <2>4 DEF Shown, Steps, PixelValues
<1>6. QED
  BY SMTT(20), <1>4, <1>5

\* Which colours end in the byte 132.
LEMMA Byte132 ==
  ASSUME NEW color \in Colors, NEW depth \in Depths
  PROVE  LastByte(depth, Pack(depth, color)) = 132 <=>
           \/ depth = 16 /\ color.red \in 128..135 /\ color.green \in 128..159
           \/ depth = 24 /\ color.blue = 132
<1>1. PICK r \in 0..255 : r = color.red
  BY DEF Colors, Levels
<1>2. PICK g \in 0..255 : g = color.green
  BY DEF Colors, Levels
<1>3. PICK b \in 0..255 : b = color.blue
  BY DEF Colors, Levels
<1>4. CASE depth = 16
  <2>1. ((r \div 8) * 2048 + (g \div 4) * 32 + b \div 8) \div 256 = 132
          <=> r \in 128..135 /\ g \in 128..159
    BY SMTT(20)
  <2>2. QED
    BY SMTT(20), <1>1, <1>2, <1>3, <1>4, <2>1 DEF LastByte, Pack
<1>5. CASE depth = 24
  <2>1. (r * 65536 + g * 256 + b) % 256 = b
    BY SMTT(20)
  <2>2. QED
    BY SMTT(20), <1>1, <1>2, <1>3, <1>5, <2>1 DEF LastByte, Pack
<1>6. CASE depth = 32
  <2>1. (r * 65536 + g * 256 + b) \div 16777216 = 0
    BY SMTT(20)
  <2>2. QED
    BY SMTT(20), <1>1, <1>2, <1>3, <1>6, <2>1 DEF LastByte, Pack
<1>7. QED
  BY <1>4, <1>5, <1>6 DEF Depths

-----------------------------------------------------------------------------
(* The buffer.                                                             *)

\* Lines do not overlap, and the last one ends with the buffer.
LEMMA LinesApart ==
  ASSUME NEW i \in Nat, NEW j \in Nat, i < j
  PROVE  i * Width + Width <= j * Width
<1>1. PICK n \in Nat : j = i + 1 + n
  <2>1. j = i + 1 + (j - i - 1) /\ j - i - 1 \in Nat
    OBVIOUS
  <2>2. QED
    BY <2>1
<1>2. Width \in Nat
  BY FrameAssumption
<1>3. j * Width = i * Width + Width + n * Width
  BY <1>1, <1>2
<1>4. n * Width \in Nat /\ i * Width \in Nat
  BY <1>1, <1>2
<1>5. QED
  BY <1>2, <1>3, <1>4

LEMMA TestedInside ==
  ASSUME TestedLine <= Height
  PROVE  /\ TestedLine * Width \in Pixels
         /\ \A n \in Nat : n < TestedLine => n * Width < TestedLine * Width
<1>1. Width \in Nat /\ Width > 0 /\ Height \in Nat /\ Area = Height * Width
  BY FrameAssumption
<1>2. TestedLine \in Nat /\ TestedLine <= Height /\ 0 < TestedLine
  BY <1>1, RgbAssumption
<1>3. TestedLine * Width \in Nat
  BY <1>1, <1>2
<1>4. 0 * Width + Width <= TestedLine * Width
  BY <1>2, LinesApart
<1>5. TestedLine * Width <= Area
  <2>1. CASE TestedLine = Height
    BY <1>1, <1>3, <2>1
  <2>2. CASE TestedLine < Height
    BY <1>1, <1>2, <1>3, <2>2, LinesApart
  <2>3. QED
    BY <1>1, <1>2, <2>1, <2>2
<1>6. ASSUME NEW n \in Nat, n < TestedLine
      PROVE  n * Width < TestedLine * Width
  <2>1. n * Width + Width <= TestedLine * Width /\ n * Width \in Nat
    BY <1>1, <1>2, <1>6, LinesApart
  <2>2. QED
    BY <1>1, <1>3, <2>1
<1>7. QED
  BY <1>1, <1>3, <1>4, <1>5, <1>6, FrameAssumption DEF Pixels

\* Each pixel of a YUYV frame has chroma samples.
LEMMA PairInside ==
  ASSUME NEW k \in Pixels
  PROVE  (k + 1) \div 2 \in 1..(Area \div 2)
<1>1. Width \in Nat /\ Height \in Nat /\ Area = Width * Height /\ Width % 2 = 0
  BY FrameAssumption
<1>2. PICK h \in Nat : Width = 2 * h
  <2>1. Width \div 2 \in Nat /\ Width = 2 * (Width \div 2)
    BY <1>1
  <2>2. QED
    BY <2>1
<1>3. h * Height \in Nat /\ Area = 2 * (h * Height)
  BY <1>1, <1>2
<1>4. PICK n \in Nat : Area = 2 * n
  BY <1>3
<1>5. k \in Int /\ 1 <= k /\ k <= 2 * n
  BY <1>1, <1>4 DEF Pixels
<1>6. Area \div 2 = n
  BY <1>4
<1>7. (k + 1) \div 2 \in 1..n
  BY <1>5
<1>8. QED
  BY <1>6, <1>7

\* The samples of a pixel of a YUYV frame.
LEMMA Samples ==
  ASSUME NEW f \in YuyvFrames, NEW k \in Pixels
  PROVE  /\ f.luma[k] \in Levels
         /\ f.u[(k + 1) \div 2] \in Levels /\ f.v[(k + 1) \div 2] \in Levels
BY PairInside, RgbAssumption DEF YuyvFrames

\* What can be shown of a pixel of an MJPEG frame is a colour.
LEMMA PictureIsColor ==
  ASSUME NEW f \in MjpegFrames, NEW k \in Pixels
  PROVE  f.color[k] \in Colors /\ Grey \in Colors
<1>1. f.color \in Pictures
  BY DEF MjpegFrames
<1>2. f.color \in [Pixels -> Colors]
  BY <1>1, RgbAssumption DEF Pixels
<1>3. Grey \in Colors
  BY DEF Grey, Colors, Levels
<1>4. QED
  BY <1>2, <1>3

LEMMA DepthKnown == Depth(format) \in Depths /\ Depth(format) \in AnyDepth
BY DEF Depth, Depths, AnyDepth

\* What is made of a YUYV frame fits the pixels.
LEMMA YuyvFits ==
  ASSUME NEW f \in YuyvFrames
  PROVE  /\ Pyuv422torgb(f) \in [Pixels -> Int]
         /\ \A k \in Pixels : /\ 0 <= Pyuv422torgb(f)[k]
                              /\ Pyuv422torgb(f)[k] < PixelValues(Depth(format))
<1>1. ASSUME NEW k \in Pixels
      PROVE  LET word == Pack(Depth(format), FromTables(f.luma[k], f.u[(k + 1) \div 2],
                                                        f.v[(k + 1) \div 2]))
             IN  word \in Int /\ 0 <= word /\ word < PixelValues(Depth(format))
  BY DepthKnown, Samples, FromTablesNear, FieldsKept, SMTT(20)
<1>2. QED
  BY <1>1, SMTT(20) DEF Pyuv422torgb

\* The pixels of one line are written, and hold what there is to show.
LEMMA LineFits ==
  ASSUME frame \in MjpegFrames, line \in Nat, bpp \in Depths, NEW k \in Pixels
  PROVE  LET word == Pack(bpp, Scanline(k))
         IN  word \in Int /\ 0 <= word /\ word < PixelValues(bpp)
<1>1. Scanline(k) \in Colors
  BY PictureIsColor DEF Scanline
<1>2. QED
  BY <1>1, FieldsKept, SMTT(20)

LEMMA LineIsPicture ==
  ASSUME frame \in MjpegFrames, line \in Nat, NEW k \in Pixels,
         k \in (line * Width + 1)..(line * Width + Width)
  PROVE  Scanline(k) = PictureColor(k)
<1>1. Width \in Nat /\ Width > 0 /\ frame.lines \in Nat /\ k \in Int
  BY FrameAssumption DEF MjpegFrames, Pixels
<1>2. line * Width \in Nat /\ frame.lines * Width \in Nat
  BY <1>1
<1>3. CASE line < frame.lines
  <2>1. line * Width + Width <= frame.lines * Width
    BY <1>1, <1>3, LinesApart
  <2>2. k <= frame.lines * Width
    BY <1>1, <1>2, <2>1
  <2>3. QED
    BY <1>3, <2>2 DEF Scanline, PictureColor
<1>4. CASE ~(line < frame.lines)
  <2>1. frame.lines * Width <= line * Width
    <3>1. CASE frame.lines = line
      BY <1>2, <3>1
    <3>2. CASE frame.lines < line
      BY <1>1, <1>2, <3>2, LinesApart
    <3>3. QED
      BY <1>1, <1>4, <3>1, <3>2
  <2>2. ~(k <= frame.lines * Width)
    BY <1>1, <1>2, <2>1
  <2>3. QED
    BY <1>4, <2>2 DEF Scanline, PictureColor
<1>5. QED
  BY <1>3, <1>4

-----------------------------------------------------------------------------
(* The invariant.                                                          *)

LEMMA RgbInitInv == Init => RgbInv
<1> SUFFICES ASSUME Init PROVE RgbInv
  OBVIOUS
<1>1. /\ memory = Unallocated /\ line = 0 /\ line_buffer = "none" /\ result = "none"
      /\ errors = 0
  BY DEF Init, RgbInit
<1>2. format \in Rgb \union {"JPEG"} /\ bpp \in AnyDepth
  BY DEF Init, RgbInit
<1>3. Unallocated.word \in [Pixels -> Int] /\ \A k \in Pixels : Unallocated.word[k] = Unset
  BY DEF Unallocated, Unset
<1>4. RgbTypeOK
  BY <1>1, <1>2, <1>3, FrameAssumption, RgbAssumption DEF RgbTypeOK, Unallocated
<1>5. Supported
  BY Found DEF Init, Supported
<1>6. Kept
  BY <1>1 DEF Kept, Unallocated
<1>7. YuyvWritten /\ LinesWritten /\ Ended
  BY <1>1 DEF YuyvWritten, LinesWritten, Ended
<1>8. QED
  BY <1>4, <1>5, <1>6, <1>7 DEF RgbInv

\* What the steps below use of the type invariant.
LEMMA RgbKnown ==
  ASSUME RgbInv
  PROVE  /\ format \in Rgb \union {"JPEG"} /\ bpp \in AnyDepth /\ bpp # 0
         /\ line \in 0..Height /\ errors \in 0..MaxErrors
         /\ Height \in Nat /\ Height > 0 /\ Width \in Nat
<1>1. bpp \in AnyDepth /\ format \in Rgb \union {"JPEG"}
  BY DEF RgbInv, RgbTypeOK
<1>2. bpp # 0
  BY <1>1 DEF AnyDepth, Depths
<1>3. line \in 0..Height /\ errors \in 0..MaxErrors
  BY Zenon DEF RgbInv, RgbTypeOK
<1>4. QED
  BY <1>1, <1>2, <1>3, FrameAssumption

LEMMA YuyvStep == RgbInv /\ Yuyv2rgb /\ camera' = camera => RgbInv'
<1> SUFFICES ASSUME RgbInv, Yuyv2rgb, camera' = camera PROVE RgbInv'
  OBVIOUS
<1>1. /\ converter = "yuyv2rgb" /\ converter' = converter
      /\ frame' \in YuyvFrames /\ bpp' = Depth(format)
      /\ memory' = [Allocated(bpp') EXCEPT !.word = Pyuv422torgb(frame')]
      /\ result' = "ok" /\ format' = format /\ line' = line
      /\ line_buffer' = line_buffer /\ errors' = errors
  BY DEF Yuyv2rgb, yuyv2rgb
<1>2. Depth(format') = Depth(format)
  BY <1>1
<1>3. memory'.size = bpp' /\ memory'.word = Pyuv422torgb(frame')
  BY <1>1 DEF RgbInv, Kept, RgbTypeOK, Allocated
<1>4. memory' \in [size : {0} \union AnyDepth, word : [Pixels -> Int]]
  BY <1>1, <1>3, YuyvFits, DepthKnown DEF RgbInv, Kept, RgbTypeOK, Allocated
<1>5. Pyuv422torgb(frame)' = Pyuv422torgb(frame')
  BY <1>1 DEF Pyuv422torgb, Depth
<1>6. RgbTypeOK'
  BY <1>1, <1>3, <1>4, YuyvFits, DepthKnown DEF RgbInv, RgbTypeOK, Pixels
<1>7. (Supported /\ Kept)'
  <2>1. Supported'
    BY <1>1 DEF RgbInv, Supported
  <2>2. bpp' # 0
    BY <1>1, DepthKnown DEF AnyDepth, Depths
  <2>3. Kept'
    BY <1>1, <1>3, <2>2 DEF Kept, Depth
  <2>4. QED
    BY <2>1, <2>3
<1>8. (YuyvWritten /\ LinesWritten /\ Ended)'
  BY <1>1, <1>3, <1>5 DEF YuyvWritten, LinesWritten, Ended, YuyvFrames, Pixels
<1>9. QED
  BY <1>6, <1>7, <1>8 DEF RgbInv

LEMMA MjpegStep == RgbInv /\ Mjpeg2rgb /\ camera' = camera => RgbInv'
<1> SUFFICES ASSUME RgbInv, Mjpeg2rgb, camera' = camera PROVE RgbInv'
  OBVIOUS
<1>1. converter = "mjpeg2rgb" /\ converter' = converter /\ format' = format /\ bpp' = bpp
  BY DEF Mjpeg2rgb, mjpeg2rgb, ConvertOneLine, DecodeFails, FinishFails,
         DecodeRefusesHeader, DecodeEnds
<1>2. bpp \in AnyDepth /\ bpp # 0
  BY RgbKnown
<1>3. Supported'
  BY <1>1 DEF RgbInv, Supported
<1>4. Height \in Nat /\ Height > 0 /\ Width \in Nat /\ line \in 0..Height
  BY RgbKnown
<1>5. CASE mjpeg2rgb
  <2>1. /\ result' = "converting" /\ line' = 0 /\ memory' = Allocated(bpp)
        /\ frame' \in MjpegFrames /\ errors' = errors /\ line_buffer' = "held"
    BY <1>5 DEF mjpeg2rgb
  <2>2. memory'.size = bpp /\ memory'.word = memory.word
    BY <2>1 DEF RgbInv, Kept, RgbTypeOK, Allocated
  <2>3. memory' \in [size : {0} \union AnyDepth, word : [Pixels -> Int]]
    BY <1>2, <2>1 DEF RgbInv, RgbTypeOK, Allocated
  <2>4. \A k \in Pixels : memory.word[k] # Unset =>
          0 <= memory.word[k] /\ memory.word[k] < PixelValues(bpp)
    <3>1. CASE memory.size = 0
      BY <3>1 DEF RgbInv, Kept, Unallocated
    <3>2. CASE memory.size = bpp
      BY <3>2 DEF RgbInv, RgbTypeOK
    <3>3. QED
      BY <3>1, <3>2 DEF RgbInv, Kept
  <2>5. RgbTypeOK'
    <3>1. /\ format' \in Rgb \union {"JPEG"} /\ bpp' \in AnyDepth
          /\ line' \in 0..Height /\ errors' \in 0..MaxErrors
      BY <1>1, <1>2, <1>4, <2>1, RgbKnown
    <3>2. QED
      BY <2>1, <2>2, <2>3, <2>4, <3>1 DEF RgbTypeOK, Pixels
  <2>6. Kept'
    BY <1>1, <1>2, <2>1, <2>2 DEF Kept
  <2>7. LinesWritten'
    <3>1. ~(\E k \in Pixels : k <= 0 * Width)
      BY <1>4 DEF Pixels
    <3>2. QED
      BY <2>1, <3>1 DEF LinesWritten, MjpegFrames, Pixels
  <2>8. (YuyvWritten /\ Ended)'
    BY <1>1, <2>1 DEF YuyvWritten, Ended
  <2>9. QED
    BY <1>3, <2>5, <2>6, <2>7, <2>8 DEF RgbInv
<1>6. CASE ConvertOneLine
  <2>1. /\ result = "converting" /\ result' = result /\ line < Height
        /\ line' = line + 1 /\ frame' = frame /\ errors' = errors
        /\ line_buffer' = line_buffer
    BY <1>6 DEF ConvertOneLine
  <2>2. frame \in MjpegFrames /\ frame.lines \in Nat
    BY <1>1, <2>1 DEF RgbInv, LinesWritten, MjpegFrames
  <2>3. memory.size = bpp
    BY <2>1 DEF RgbInv, Kept
  <2>4. /\ memory'.size = memory.size
        /\ \A k \in Pixels :
             memory'.word[k] =
               IF bpp \in Depths /\ k \in (line * Width + 1)..(line * Width + Width)
               THEN Pack(bpp, Scanline(k)) ELSE memory.word[k]
    BY <1>6 DEF ConvertOneLine, RgbInv, RgbTypeOK
  <2>5. memory' \in [size : {0} \union AnyDepth, word : [Pixels -> Int]]
    <3>1. bpp \in Depths => \A k \in Pixels : Pack(bpp, Scanline(k)) \in Int
      BY <1>4, <2>2, LineFits
    <3>2. QED
      BY <1>6, <3>1 DEF ConvertOneLine, RgbInv, RgbTypeOK
  <2>6. RgbTypeOK'
    <3>1. \A k \in Pixels : memory'.word[k] # Unset =>
            0 <= memory'.word[k] /\ memory'.word[k] < PixelValues(bpp)
      <4>1. \A k \in Pixels : memory.word[k] # Unset =>
              0 <= memory.word[k] /\ memory.word[k] < PixelValues(bpp)
        BY <2>3 DEF RgbInv, RgbTypeOK
      <4>2. QED
        BY <1>4, <2>2, <2>4, <4>1, LineFits
    <3>2. line' \in 0..Height
      BY <1>4, <2>1
    <3>3. QED
      BY <1>1, <2>1, <2>3, <2>4, <2>5, <3>1, <3>2 DEF RgbInv, RgbTypeOK, Pixels
  <2>7. LinesWritten'
    <3>1. ASSUME bpp \in Depths, NEW k \in Pixels, k <= line' * Width
          PROVE  memory'.word[k] = Pack(bpp, PictureColor(k))
      <4>1. k \in Int /\ line * Width \in Nat /\ line' * Width = line * Width + Width
        BY <1>4, <2>1 DEF Pixels
      <4>2. CASE k \in (line * Width + 1)..(line * Width + Width)
        BY <1>4, <2>2, <2>4, <3>1, <4>2, LineIsPicture
      <4>3. CASE k <= line * Width
        BY <1>1, <1>4, <2>1, <2>4, <3>1, <4>1, <4>3 DEF RgbInv, LinesWritten
      <4>4. QED
        BY <1>4, <3>1, <4>1, <4>2, <4>3
    <3>2. \A k \in Pixels : PictureColor(k)' = PictureColor(k)
      BY <2>1 DEF PictureColor
    <3>3. QED
      BY <1>1, <2>1, <2>2, <3>1, <3>2 DEF LinesWritten, MjpegFrames, Pixels
  <2>8. (Kept /\ YuyvWritten /\ Ended)'
    BY <1>1, <1>2, <2>1, <2>3, <2>4 DEF Kept, YuyvWritten, Ended
  <2>9. QED
    BY <1>3, <2>6, <2>7, <2>8 DEF RgbInv
<1>7. CASE DecodeFails \/ FinishFails \/ DecodeRefusesHeader
  <2>1. /\ result' \in {"failed", "crashed"} /\ line' = line /\ frame' = frame
        /\ memory' = memory /\ errors' = errors + 1 /\ errors < MaxErrors
        /\ line_buffer' \in {"none", "freed", "lost", "freed twice"}
    BY <1>7 DEF DecodeFails, FinishFails, DecodeRefusesHeader
  <2>2. errors \in 0..MaxErrors /\ MaxErrors \in Nat
    BY RgbAssumption, RgbKnown
  <2>3. RgbTypeOK'
    <3>1. /\ format' \in Rgb \union {"JPEG"} /\ bpp' \in AnyDepth
          /\ line' \in 0..Height /\ errors' \in 0..MaxErrors
      <4>1. errors' \in 0..MaxErrors
        <5>1. errors' = errors + 1 /\ errors < MaxErrors
          BY <2>1
        <5>2. QED
          BY <2>2, <5>1
      <4>2. line' \in 0..Height
        BY <1>4, <2>1
      <4>3. QED
        BY <1>1, <1>2, <4>1, <4>2, RgbKnown
    <3>2. /\ memory' \in [size : {0} \union AnyDepth, word : [Pixels -> Int]]
          /\ \A k \in Pixels : memory'.word[k] # Unset =>
               0 <= memory'.word[k] /\ memory'.word[k] < PixelValues(memory'.size)
      BY <2>1, Zenon DEF RgbInv, RgbTypeOK
    <3>3. QED
      BY <2>1, <3>1, <3>2 DEF RgbTypeOK, Pixels
  <2>4. (Kept /\ YuyvWritten /\ LinesWritten /\ Ended)'
    BY <1>1, <2>1 DEF RgbInv, Kept, YuyvWritten, LinesWritten, Ended, Unallocated, Pixels
  <2>5. QED
    BY <1>3, <2>3, <2>4 DEF RgbInv
<1>8. CASE DecodeEnds
  <2>1. /\ result = "converting" /\ line = Height
        /\ \E byte \in Tested : result' = (IF byte = 132 THEN "refused" ELSE "ok")
        /\ line' = line /\ frame' = frame /\ memory' = memory
        /\ errors' = errors /\ line_buffer' = "freed"
    BY <1>8 DEF DecodeEnds
  <2>2. Tested' = Tested
    BY <1>1, <2>1 DEF Tested
  <2>3. RgbTypeOK'
    BY <1>1, <2>1 DEF RgbInv, RgbTypeOK, Pixels
  <2>4. (Kept /\ YuyvWritten)'
    BY <1>1, <2>1 DEF RgbInv, Kept, YuyvWritten, Unallocated, Pixels
  <2>5. LinesWritten'
    <3>1. \A k \in Pixels : PictureColor(k)' = PictureColor(k)
      BY <2>1 DEF PictureColor
    <3>2. QED
      BY <1>1, <2>1, <3>1 DEF RgbInv, LinesWritten, MjpegFrames, Pixels
  <2>6. bpp \in Depths /\ TestedLine <= Height => (result' = "refused" <=> 132 \in Tested)
    <3> SUFFICES ASSUME bpp \in Depths, TestedLine <= Height
                 PROVE  result' = "refused" <=> 132 \in Tested
      OBVIOUS
    <3>1. PICK byte : Tested = {byte}
      BY DEF Tested
    <3>2. QED
      BY <2>1, <3>1
  <2>7. Ended'
    BY <1>1, <2>1, <2>2, <2>6 DEF Ended
  <2>8. QED
    BY <1>3, <2>3, <2>4, <2>5, <2>7 DEF RgbInv
<1>9. QED
  BY <1>5, <1>6, <1>7, <1>8 DEF Mjpeg2rgb

LEMMA ExitStep == RgbInv /\ Exit /\ camera' = camera => RgbInv'
<1> SUFFICES ASSUME RgbInv, Exit, camera' = camera PROVE RgbInv'
  OBVIOUS
<1>1. /\ memory' = Unallocated /\ format' \in Rgb /\ bpp' \in AnyDepth
      /\ result' = "none" /\ line' = line /\ line_buffer' = line_buffer
      /\ errors' = errors
      /\ converter' = get_convert_formats(convert_init, camera, format')
  BY DEF Exit, RgbExit
<1>2. Supported'
  <2>1. PICK wanted \in Rgb : wanted = format'
    BY <1>1
  <2>2. converter' = NULL \/ <<camera, wanted>> \in is_support(converter')
    BY <1>1, <2>1, Found
  <2>3. QED
    BY <2>1, <2>2 DEF Supported, is_support
<1>3. Unallocated.word \in [Pixels -> Int] /\ \A k \in Pixels : Unallocated.word[k] = Unset
  BY DEF Unallocated, Unset
<1>4. RgbTypeOK'
  BY <1>1, <1>3 DEF RgbInv, RgbTypeOK, Unallocated, Pixels
<1>5. Kept'
  BY <1>1 DEF Kept, Unallocated, Pixels
<1>6. (YuyvWritten /\ LinesWritten /\ Ended)'
  BY <1>1 DEF YuyvWritten, LinesWritten, Ended
<1>7. QED
  BY <1>2, <1>4, <1>5, <1>6 DEF RgbInv

LEMMA RgbSame == RgbInv /\ UNCHANGED <<camera, converter, rgb>> => RgbInv'
<1> SUFFICES ASSUME RgbInv, UNCHANGED <<camera, converter, rgb>> PROVE RgbInv'
  OBVIOUS
<1>1. (RgbTypeOK /\ Supported /\ Kept)'
  BY DEF RgbInv, rgb, RgbTypeOK, Supported, Kept, Unallocated, Pixels, Depth
<1>2. YuyvWritten'
  BY DEF RgbInv, rgb, YuyvWritten, YuyvFrames, Pyuv422torgb, Pixels, Depth
<1>3. LinesWritten'
  BY DEF RgbInv, rgb, LinesWritten, MjpegFrames, PictureColor, Pixels
<1>4. Ended'
  BY DEF RgbInv, rgb, Ended, Tested
<1>5. QED
  BY <1>1, <1>2, <1>3, <1>4 DEF RgbInv

\* Every pixel of the buffer that was written holds what there was to show of
\* it, whatever conversions came before: the invariant is kept by every step.
THEOREM RgbInvAlways == Spec => []RgbInv
<1>1. RgbInv /\ [Next]_vars => RgbInv'
  BY YuyvStep, MjpegStep, ExitStep, RgbSame
     DEF Next, vars, rgb, Yuyv2jpg, Unsupported, Crashed
<1>2. QED
  BY <1>1, RgbInitInv, PTL DEF Spec

-----------------------------------------------------------------------------
(* What a screen shows.                                                    *)

\* A field of a pixel is as near to the wanted level as the level was.
LEMMA StepsKeepNear ==
  ASSUME NEW level \in Levels, NEW step \in {1, 4, 8}, NEW wanted \in Int,
         Near(level, 1, wanted)
  PROVE  Near(level \div step, step, wanted)
<1>1. PICK n \in 0..255 : n = level
  BY DEF Levels
<1>2. PICK cut \in Int :
        cut = IF wanted > 255000 THEN 255000 ELSE IF wanted < 0 THEN 0 ELSE wanted
  BY SMTT(20)
<1>3. -2000 < cut - 1000 * n /\ cut - 1000 * n < 2000
  BY <1>1, <1>2, SMTT(20) DEF Near
<1>4. CASE step = 1
  BY <1>1, <1>4, SMTT(20)
<1>5. CASE step = 4
  <2>1. PICK q \in 0..63 : q = n \div 4 /\ 4 * q <= n /\ n <= 4 * q + 3
    BY SMTT(20)
  <2>2. -2000 < cut - 1000 * q * 4 /\ cut - 1000 * q * 4 < 1000 * (4 + 1)
    BY <1>3, <2>1, SMTT(20)
  <2>3. QED
    BY <1>1, <1>2, <1>5, <2>1, <2>2, SMTT(20) DEF Near
<1>6. CASE step = 8
  <2>1. PICK q \in 0..31 : q = n \div 8 /\ 8 * q <= n /\ n <= 8 * q + 7
    BY SMTT(20)
  <2>2. -2000 < cut - 1000 * q * 8 /\ cut - 1000 * q * 8 < 1000 * (8 + 1)
    BY <1>3, <2>1, SMTT(20)
  <2>3. QED
    BY <1>1, <1>2, <1>6, <2>1, <2>2, SMTT(20) DEF Near
<1>7. QED
  BY <1>4, <1>5, <1>6

\* A YUYV frame is shown in the colours of the formula, at every size of
\* frame and for every sample: no table entry, no cut to a byte and no field
\* of a pixel changes a colour by two levels.
THEOREM YuyvShownAlways == Spec => []YuyvShown
<1>1. ASSUME RgbInv PROVE YuyvShown
  <2> SUFFICES ASSUME converter = "yuyv2rgb", result = "ok", NEW k \in Pixels
               PROVE  LET shown  == Shown(bpp, memory.word[k])
                          steps  == Steps(bpp)
                          pair   == (k + 1) \div 2
                          wanted == Formula(frame.luma[k], frame.u[pair], frame.v[pair])
                      IN  /\ Near(shown.red, steps.red, wanted.red)
                          /\ Near(shown.green, steps.green, wanted.green)
                          /\ Near(shown.blue, steps.blue, wanted.blue)
    BY DEF YuyvShown
  <2>1. bpp = Depth(format) /\ bpp \in Depths
    <3>1. memory.size = bpp /\ bpp # 0
      BY <1>1, RgbKnown DEF RgbInv, Kept
    <3>2. QED
      BY <1>1, <3>1, DepthKnown DEF RgbInv, Kept
  <2>2. frame \in YuyvFrames /\ memory.word = Pyuv422torgb(frame)
    BY <1>1 DEF RgbInv, YuyvWritten
  <2>3. PICK y, u, v \in Levels :
          y = frame.luma[k] /\ u = frame.u[(k + 1) \div 2] /\ v = frame.v[(k + 1) \div 2]
    BY <2>2, Samples
  <2>4. PICK color \in Colors : color = FromTables(y, u, v)
    BY FromTablesNear
  <2>5. memory.word[k] = Pack(bpp, color)
    BY <2>1, <2>2, <2>3, <2>4 DEF Pyuv422torgb
  <2>6. Shown(bpp, memory.word[k]) =
          [red   |-> color.red \div Steps(bpp).red,
           green |-> color.green \div Steps(bpp).green,
           blue  |-> color.blue \div Steps(bpp).blue]
    BY <2>1, <2>5, FieldsKept, SMTT(20)
  <2>7. /\ Steps(bpp).red \in {1, 4, 8} /\ Steps(bpp).green \in {1, 4, 8}
        /\ Steps(bpp).blue \in {1, 4, 8}
    BY DEF Steps
  <2>8. /\ Formula(y, u, v).red \in Int /\ Formula(y, u, v).green \in Int
        /\ Formula(y, u, v).blue \in Int
    BY DEF Formula, Levels
  <2>9. /\ color.red \in Levels /\ color.green \in Levels /\ color.blue \in Levels
        /\ Near(color.red, 1, Formula(y, u, v).red)
        /\ Near(color.green, 1, Formula(y, u, v).green)
        /\ Near(color.blue, 1, Formula(y, u, v).blue)
    BY <2>4, FromTablesNear DEF Colors
  <2>10. /\ Near(color.red \div Steps(bpp).red, Steps(bpp).red, Formula(y, u, v).red)
         /\ Near(color.green \div Steps(bpp).green, Steps(bpp).green,
                 Formula(y, u, v).green)
         /\ Near(color.blue \div Steps(bpp).blue, Steps(bpp).blue,
                 Formula(y, u, v).blue)
    <3>1. Near(color.red \div Steps(bpp).red, Steps(bpp).red,
               Formula(y, u, v).red)
      BY <2>7, <2>8, <2>9, StepsKeepNear
    <3>2. Near(color.green \div Steps(bpp).green, Steps(bpp).green,
               Formula(y, u, v).green)
      BY <2>7, <2>8, <2>9, StepsKeepNear
    <3>3. Near(color.blue \div Steps(bpp).blue, Steps(bpp).blue,
               Formula(y, u, v).blue)
      BY <2>7, <2>8, <2>9, StepsKeepNear
    <3>4. QED
      BY <3>1, <3>2, <3>3
  <2>11. Formula(frame.luma[k], frame.u[(k + 1) \div 2], frame.v[(k + 1) \div 2])
           = Formula(y, u, v)
    BY <2>3
  <2>12. QED
    BY <2>6, <2>10, <2>11
<1>2. QED
  BY <1>1, RgbInvAlways, PTL

\* The photo a server gets and the picture a screen shows of one frame differ
\* by no more than the property says, whatever the samples.
THEOREM ConvertersAgreeAlways == Spec => []ConvertersAgree
<1>1. RgbInv => ConvertersAgree
  BY Samples, PixelsAgree DEF RgbInv, YuyvWritten, ConvertersAgree
<1>2. QED
  BY <1>1, RgbInvAlways, PTL

\* A frame that is taken is shown whole, up to where its data ended.
THEOREM PictureShownAlways == Spec => []PictureShown
<1>1. ASSUME RgbInv PROVE PictureShown
  <2> SUFFICES ASSUME converter = "mjpeg2rgb", result = "ok", bpp \in Depths,
                      NEW k \in Pixels
               PROVE  LET shown == Shown(bpp, memory.word[k])
                          steps == Steps(bpp)
                      IN  /\ shown.red = PictureColor(k).red \div steps.red
                          /\ shown.green = PictureColor(k).green \div steps.green
                          /\ shown.blue = PictureColor(k).blue \div steps.blue
    BY DEF PictureShown
  <2>1. frame \in MjpegFrames /\ line = Height
    BY <1>1 DEF RgbInv, LinesWritten, Ended
  <2>2. PictureColor(k) \in Colors
    BY <2>1, PictureIsColor DEF PictureColor
  <2>3. k <= line * Width
    BY <2>1, FrameAssumption DEF Pixels
  <2>4. memory.word[k] = Pack(bpp, PictureColor(k))
    BY <1>1, <2>3 DEF RgbInv, LinesWritten
  <2>5. QED
    BY <2>2, <2>4, FieldsKept, SMTT(20)
<1>2. QED
  BY <1>1, RgbInvAlways, PTL

\* The pixel that is tested is in the buffer, and holds the last pixel of its
\* line of the picture.
LEMMA TestedPixel ==
  ASSUME RgbInv, converter = "mjpeg2rgb", result \in {"ok", "refused"},
         bpp \in Depths, TestedLine <= Height
  PROVE  LET color == PictureColor(TestedLine * Width)
         IN  /\ frame.lines \in Nat
             /\ frame.lines < TestedLine => color = Grey
             /\ ~(frame.lines < TestedLine) => color = TestedColor
             /\ result = "refused" <=>
                  \/ bpp = 16 /\ color.red \in 128..135 /\ color.green \in 128..159
                  \/ bpp = 24 /\ color.blue = 132
<1>1. /\ frame \in MjpegFrames /\ frame.lines \in Nat /\ line = Height
      /\ result = "refused" <=> 132 \in Tested
  BY DEF RgbInv, LinesWritten, Ended, MjpegFrames
<1>2. PICK k \in Pixels : k = TestedLine * Width
  BY TestedInside
<1>3. PictureColor(k) \in Colors
  BY <1>1, PictureIsColor DEF PictureColor
<1>4. k <= line * Width
  BY <1>1, FrameAssumption DEF Pixels
<1>5. memory.word[k] = Pack(bpp, PictureColor(k))
  BY <1>4 DEF RgbInv, LinesWritten
<1>6. Tested = {LastByte(bpp, Pack(bpp, PictureColor(k)))}
  BY <1>2, <1>5 DEF Tested
<1>7. 132 \in Tested <=> LastByte(bpp, Pack(bpp, PictureColor(k))) = 132
  BY <1>6
<1>8. result = "refused" <=>
        \/ bpp = 16 /\ PictureColor(k).red \in 128..135
                    /\ PictureColor(k).green \in 128..159
        \/ bpp = 24 /\ PictureColor(k).blue = 132
  BY <1>1, <1>3, <1>7, Byte132
<1>9. frame.lines < TestedLine => PictureColor(k) = Grey
  <2> SUFFICES ASSUME frame.lines < TestedLine PROVE ~(k <= frame.lines * Width)
    BY DEF PictureColor
  <2>1. frame.lines * Width < k /\ frame.lines * Width \in Nat /\ k \in Int
    BY <1>1, <1>2, TestedInside, FrameAssumption DEF Pixels
  <2>2. QED
    BY <2>1
<1>10. ~(frame.lines < TestedLine) => PictureColor(k) = TestedColor
  <2> SUFFICES ASSUME ~(frame.lines < TestedLine) PROVE k <= frame.lines * Width
    BY <1>2 DEF PictureColor, TestedColor
  <2>1. TestedLine \in Nat /\ Width \in Nat
    BY RgbAssumption, FrameAssumption
  <2>2. CASE frame.lines = TestedLine
    BY <1>2, <2>2 DEF Pixels
  <2>3. CASE TestedLine < frame.lines
    <3>1. TestedLine * Width + Width <= frame.lines * Width
      BY <1>1, <2>1, <2>3, LinesApart
    <3>2. frame.lines * Width \in Nat /\ TestedLine * Width \in Nat
      BY <1>1, <2>1
    <3>3. QED
      BY <1>2, <2>1, <3>1, <3>2
  <2>4. QED
    BY <1>1, <2>1, <2>2, <2>3
<1>11. QED
  BY <1>1, <1>2, <1>8, <1>9, <1>10

\* A 16-bit frame without the tested line is never taken for a good one.
THEOREM TornRefusedAlways == Spec => []TornRefused
<1>1. ASSUME RgbInv PROVE TornRefused
  <2> SUFFICES ASSUME converter = "mjpeg2rgb", bpp = 16, frame.lines < TestedLine,
                      TestedLine <= Height, result = "ok"
               PROVE  FALSE
    BY DEF TornRefused
  <2>1. Grey.red \in 128..135 /\ Grey.green \in 128..159
    BY DEF Grey
  <2>2. QED
    BY <1>1, <2>1, TestedPixel DEF Depths
<1>2. QED
  BY <1>1, RgbInvAlways, PTL

\* The test costs no other good frame than one with such a pixel there.
THEOREM RefusedOnlyGreyAlways == Spec => []RefusedOnlyGrey
<1>1. ASSUME RgbInv, result = "refused", bpp \in Depths, TestedLine <= Height
      PROVE  \/ bpp = 16 /\ frame.lines < TestedLine
             \/ /\ bpp = 16
                /\ TestedColor.red \in 128..135 /\ TestedColor.green \in 128..159
             \/ bpp = 24 /\ TestedColor.blue = 132 /\ frame.lines >= TestedLine
  <2>1. converter = "mjpeg2rgb"
    BY <1>1 DEF RgbInv, Ended
  <2>2. CASE frame.lines < TestedLine
    <3>1. bpp = 16
      BY <1>1, <2>1, <2>2, TestedPixel DEF Grey
    <3>2. QED
      BY <2>2, <3>1
  <2>3. CASE ~(frame.lines < TestedLine)
    <3>1. frame.lines \in Nat /\ TestedLine \in Nat
      BY <1>1, <2>1, TestedPixel, RgbAssumption
    <3>2. QED
      BY <1>1, <2>1, <2>3, <3>1, TestedPixel
  <2>4. QED
    BY <2>2, <2>3
<1>2. RgbInv => RefusedOnlyGrey
  BY <1>1 DEF RefusedOnlyGrey
<1>3. QED
  BY <1>2, RgbInvAlways, PTL

\* Levels stay in a byte and lines in the frame.
THEOREM RgbTypeOKAlways == Spec => []RgbTypeOK
<1>1. RgbInv => RgbTypeOK
  BY DEF RgbInv
<1>2. QED
  BY <1>1, RgbInvAlways, PTL

-----------------------------------------------------------------------------
(* The converter of the photos.                                            *)

LEMMA CapacityNat == Capacity \in Nat \ {0} /\ Area <= Capacity /\ Area \in Nat
<1>1. PICK n \in Nat \ {0} : n = Area
  BY FrameAssumption
<1>2. QED
  BY <1>1 DEF Capacity

LEMMA LengthNat == JpegInv => length \in Nat
BY JpegAssumption DEF JpegInv, JpegTypeOK

LEMMA ByteFacts ==
  ASSUME NEW p \in Nat, NEW i \in Nat
  PROVE  Byte(p, i) \in Bytes /\ Byte(p, i).of = p
BY DEF Byte, Bytes

LEMMA OfNat == \A byte \in Bytes : byte.of \in Nat
BY DEF Bytes

\* Copying the last n bytes made moves the boundary between this photo and
\* the ones before by n, if they are not copied behind the buffer.
LEMMA FlushKeeps ==
  ASSUME JpegInv, pc = "compress", NEW total \in Nat, NEW n \in Nat, NEW next,
         Flush(total, n, next), total = written + n
  PROVE  /\ outbuffer_cursor' = written' /\ written' = total
         /\ pc' = IF total <= Capacity THEN next ELSE "overrun"
         /\ pixel_datas' \in [1..Capacity -> Bytes]
         /\ \A i \in 1..Capacity : pixel_datas'[i].of <= photo
         /\ \A i \in 1..Capacity :
              IF i <= total THEN pixel_datas'[i] = Byte(photo, i)
                            ELSE pixel_datas'[i].of < photo
<1> USE CapacityNat DEF JpegInv, JpegTypeOK
<1>1. written \in Nat /\ outbuffer_cursor = written /\ photo \in Nat /\ photo > 0
  BY LengthNat, JpegAssumption
<1>2. /\ outbuffer_cursor' = written' /\ written' = total
      /\ pc' = IF total <= Capacity THEN next ELSE "overrun"
  BY <1>1 DEF Flush
<1>3. ASSUME NEW i \in 1..Capacity
      PROVE  pixel_datas'[i] = IF i \in (written + 1)..(written + n) THEN Byte(photo, i)
                               ELSE pixel_datas[i]
  BY <1>1 DEF Flush
<1>4. ASSUME NEW i \in 1..Capacity
      PROVE  /\ pixel_datas'[i] \in Bytes
             /\ IF i <= total THEN pixel_datas'[i] = Byte(photo, i)
                              ELSE pixel_datas'[i].of < photo
  <2>1. CASE i <= written
    BY <1>1, <1>3, <2>1
  <2>2. CASE i > written /\ i <= total
    BY <1>1, <1>3, <2>2, ByteFacts
  <2>3. CASE i > total
    BY <1>1, <1>3, <2>3
  <2>4. QED
    BY <1>1, <2>1, <2>2, <2>3
<1>5. pixel_datas' \in [1..Capacity -> Bytes]
  BY <1>4 DEF Flush
<1>6. \A i \in 1..Capacity : pixel_datas'[i].of <= photo
  <2> TAKE i \in 1..Capacity
  <2>1. pixel_datas'[i].of \in Nat
    BY <1>4, OfNat
  <2>2. CASE i <= total
    BY <1>1, <1>4, <2>2, ByteFacts
  <2>3. CASE i > total
    BY <1>1, <1>4, <2>1, <2>3
  <2>4. QED
    BY <1>1, <2>2, <2>3
<1>7. QED
  BY <1>2, <1>4, <1>5, <1>6

\* Each step of a conversion keeps the boundary where written says it is.
THEOREM JpegInvAlways == JpegSpec => []JpegInv
<1> USE JpegAssumption, CapacityNat
<1>1. JpegInit => JpegInv
  BY ByteFacts DEF JpegInit, JpegInv, JpegTypeOK, Uninitialised
<1>2. JpegInv /\ [JpegNext]_jpeg => JpegInv'
  <2> SUFFICES ASSUME JpegInv, [JpegNext]_jpeg
               PROVE  JpegInv'
    OBVIOUS
  <2>0. length \in Nat
    BY LengthNat DEF JpegInv
  <2>1. CASE Convert
    <3>1. /\ photo \in Nat /\ photo' = photo + 1 /\ written' = 0
          /\ length' \in JpegLengths /\ length' \in Nat
      BY <2>1 DEF Convert, InitDestination, JpegInv, JpegTypeOK
    <3>2. \A i \in 1..Capacity : pixel_datas[i].of \in Nat /\ pixel_datas[i].of <= photo
      BY OfNat DEF JpegInv, JpegTypeOK
    <3>3. \A i \in 1..Capacity : pixel_datas'[i].of < photo'
      BY <2>1, <3>1, <3>2 DEF Convert
    <3>4. QED
      BY <2>1, <3>1, <3>2, <3>3 DEF Convert, DestBuffer, InitDestination, JpegInv, JpegTypeOK
  <2>2. ASSUME NEW n \in 1..OUTPUT_BUF_SIZE, Compress(n)
        PROVE  JpegInv'
    <3>1. made' = made + n /\ made' \in 0..length /\ n \in Nat
      BY <2>0, <2>2 DEF Compress, JpegInv, JpegTypeOK
    <3>2. CASE n = free_in_buffer
      <4>1. /\ Flush(made + n, OUTPUT_BUF_SIZE, "compress")
            /\ free_in_buffer' = OUTPUT_BUF_SIZE
        BY <2>2, <3>2 DEF Compress, EmptyOutputBuffer
      <4>2. /\ pc = "compress" /\ made + n = written + OUTPUT_BUF_SIZE
            /\ made + n \in 0..length
        BY <2>0, <2>2, <3>1, <3>2 DEF Compress, JpegInv, JpegTypeOK
      <4>3. /\ outbuffer_cursor' = written' /\ written' = made + n
            /\ pc' = IF made + n <= Capacity THEN "compress" ELSE "overrun"
            /\ pixel_datas' \in [1..Capacity -> Bytes]
            /\ \A i \in 1..Capacity : pixel_datas'[i].of <= photo
            /\ \A i \in 1..Capacity :
                 IF i <= made + n THEN pixel_datas'[i] = Byte(photo, i)
                                  ELSE pixel_datas'[i].of < photo
        BY <2>0, <3>1, <4>1, <4>2, FlushKeeps DEF JpegInv, JpegTypeOK
      <4>4. photo' = photo /\ length' = length /\ sent' = sent
        BY <2>2 DEF Compress
      <4>5. QED
        BY <2>0, <3>1, <4>1, <4>2, <4>3, <4>4 DEF JpegInv, JpegTypeOK
    <3>3. CASE n # free_in_buffer
      BY <2>0, <2>2, <3>1, <3>3 DEF Compress, JpegInv, JpegTypeOK
    <3>4. QED
      BY <3>2, <3>3
  <2>3. CASE Finish
    <3> DEFINE n == OUTPUT_BUF_SIZE - free_in_buffer
    <3>1. pc = "compress" /\ n \in Nat /\ made = written + n /\ made \in Nat
          /\ made = length
      BY <2>0, <2>3 DEF Finish, JpegInv, JpegTypeOK
    <3>2. /\ outbuffer_cursor' = written' /\ written' = made
          /\ pc' = IF made <= Capacity THEN "send" ELSE "overrun"
          /\ pixel_datas' \in [1..Capacity -> Bytes]
          /\ \A i \in 1..Capacity : pixel_datas'[i].of <= photo
          /\ \A i \in 1..Capacity :
               IF i <= made THEN pixel_datas'[i] = Byte(photo, i)
                            ELSE pixel_datas'[i].of < photo
      BY <2>3, <3>1, FlushKeeps DEF Finish, TermDestination
    <3>3. UNCHANGED <<photo, length, made, free_in_buffer, sent>>
      BY <2>3 DEF Finish
    <3>4. JpegTypeOK'
      BY <2>0, <3>1, <3>2, <3>3 DEF JpegInv, JpegTypeOK
    <3>5. QED
      BY <2>0, <3>1, <3>2, <3>3, <3>4 DEF JpegInv
  <2>4. CASE SendPhoto
    BY <2>4 DEF SendPhoto, JpegInv, JpegTypeOK
  <2>5. CASE UNCHANGED jpeg
    BY <2>5 DEF jpeg, JpegInv, JpegTypeOK
  <2>6. QED
    BY <2>1, <2>2, <2>3, <2>4, <2>5 DEF JpegNext, Bounded, Overrun
<1>3. QED
  BY <1>1, <1>2, PTL DEF JpegSpec

\* A JPEG that fits the buffer never overruns it, however many there were
\* before and however large: written is at most the length of this one.
THEOREM WithinBufferAlways == JpegSpec => []WithinBuffer
<1>1. ASSUME JpegInv, pc = "overrun" PROVE ~(length <= Capacity)
  <2>1. written \in Nat /\ length \in Nat /\ written <= length
    BY <1>1, LengthNat DEF JpegInv, JpegTypeOK
  <2>2. written > Capacity
    BY <1>1 DEF JpegInv
  <2>3. QED
    BY <2>1, <2>2, CapacityNat
<1>2. JpegInv => WithinBuffer
  BY <1>1 DEF WithinBuffer
<1>3. QED
  BY <1>2, JpegInvAlways, PTL

\* The server gets the bytes of the JPEG in order, up to one for each pixel.
THEOREM PhotoArrivesAlways == JpegSpec => []PhotoArrives
<1>1. JpegInv => PhotoArrives
  BY CapacityNat DEF JpegInv, JpegTypeOK, PhotoArrives
<1>2. QED
  BY <1>1, JpegInvAlways, PTL

\* What follows them is older.
THEOREM LeftoversAlways == JpegSpec => []Leftovers
<1>1. JpegInv => Leftovers
  BY CapacityNat DEF JpegInv, JpegTypeOK, Leftovers
<1>2. QED
  BY <1>1, JpegInvAlways, PTL

\* What the caller of the converters does with yuyv2jpg is what JpegSpec
\* allows, so that what is proved of a photo above holds here too.
THEOREM JpegHere == Spec => JpegSpec
<1>1. Init => JpegInit
  BY DEF Init
<1>2. [Next]_vars => [JpegNext]_jpeg
  BY DEF Next, vars, Yuyv2jpg, Unsupported, Crashed
<1>3. QED
  BY <1>1, <1>2, PTL DEF Spec, JpegSpec

=============================================================================
