------------------------------- MODULE RgbBuffer -------------------------------
(***************************************************************************)
(* convert/yuyv2rgb.c and convert/mjpeg2rgb.c: frames of the camera are    *)
(* converted, one after the other, into a buffer the first conversion      *)
(* allocates and exit frees.  A frame holds Area pixels in Height lines,   *)
(* the size the camera agreed on.  The code is registered with the         *)
(* converter yuyv2jpg, which is the one pictuer_send_thread asks for; here *)
(* a caller asks for RGB.                                                  *)
(*                                                                         *)
(* yuyv2rgb sets the depth of a pixel itself, mjpeg2rgb takes the one it   *)
(* finds in video_buf_out, whatever the format asked for.  The caller is   *)
(* taken to change format and depth only after exit: neither converter     *)
(* compares the buffer it keeps with what it is about to write.            *)
(***************************************************************************)
EXTENDS Color, Frame, ConvertManager

CONSTANTS
  TestedLine,         \* 240 in the code
  Lumas, Chromas,     \* samples of a YUYV camera
  Pictures,           \* what an MJPEG camera shows: a colour for each pixel
  MaxErrors           \* bound: failures of libjpeg in one behaviour

ASSUME RgbAssumption ==
  /\ TestedLine \in Nat \ {0}
  /\ Lumas \subseteq Levels /\ Chromas \subseteq Levels
  /\ Pictures \subseteq [1..Area -> Colors]
  /\ MaxErrors \in Nat

VARIABLES
  format,             \* video_buf_out->pixel_format: what is asked for
  bpp,                \* video_buf_out->video_pixel_datas.bpp
  frame,              \* video_buf_in
  memory,             \* video_buf_out->video_pixel_datas.pixel_datas
  line,               \* info.output_scanline
  line_buffer,        \* that of the last call of mjpeg2rgb
  result,             \* of the last conversion
  errors              \* conversions libjpeg gave up

rgb == <<format, bpp, frame, memory, line, line_buffer, result, errors>>

Pixels == 1..Area
Unset == -1

\* A frame of a YUYV camera: two pixels share their chroma samples.
YuyvFrames ==
  [luma : [Pixels -> Lumas],
   u : [1..(Area \div 2) -> Chromas], v : [1..(Area \div 2) -> Chromas]]

\* One of an MJPEG camera: the data may end before all lines are there.
MjpegFrames == [color : Pictures, lines : 0..Height]

\* What libjpeg shows in the place of lines without data.
Grey == [red |-> 128, green |-> 128, blue |-> 128]

\* 8 stands for every depth that covert_one_line does not know.
AnyDepth == Depths \union {8}

\* The depth of a format, as yuyv2rgb sets it.
Depth(f) == IF f = "RGB565" THEN 16 ELSE 32

\* Of the buffer, the depth it was allocated for is kept.
Unallocated == [size |-> 0, word |-> [k \in Pixels |-> Unset]]

RgbInit ==
  /\ format \in Rgb \union {"JPEG"} /\ bpp \in AnyDepth
  /\ frame = [color |-> [k \in Pixels |-> Grey], lines |-> 0]
  /\ memory = Unallocated
  /\ line = 0 /\ line_buffer = "none" /\ result = "none"
  /\ errors = 0

RgbTypeOK ==
  /\ format \in Rgb \union {"JPEG"} /\ bpp \in AnyDepth
  /\ memory \in [size : {0} \union AnyDepth, word : [Pixels -> Int]]
  /\ \A k \in Pixels : memory.word[k] # Unset =>
       0 <= memory.word[k] /\ memory.word[k] < PixelValues(memory.size)
  /\ line \in 0..Height
  /\ line_buffer \in {"none", "held", "freed", "lost", "freed twice"}
  /\ result \in {"none", "converting", "ok", "refused", "failed", "crashed"}
  /\ errors \in 0..MaxErrors

-----------------------------------------------------------------------------
Idle == result \notin {"converting", "crashed"}

\* if (!pixel_datas) malloc(total_bytes): a buffer once made is kept.
Allocated(depth) ==
  IF memory.size = 0 THEN [memory EXCEPT !.size = depth] ELSE memory

\* Mutant: takes the chroma of the next pair for the second pixel.
yuyv2rgbSlipped(f) ==
  [k \in Pixels |->
     LET pair == IF k % 2 = 0 /\ k < Area THEN k \div 2 + 1 ELSE (k + 1) \div 2
     IN  Pack(Depth(format), FromTables(f.luma[k], f.u[pair], f.v[pair]))]

\* Pyuv422torgb565 and Pyuv422torgb32: Y, U, Y1, V make two pixels.
Pyuv422torgb(f) ==
  [k \in Pixels |->
     LET pair == (k + 1) \div 2
     IN  Pack(Depth(format), FromTables(f.luma[k], f.u[pair], f.v[pair]))]

yuyv2rgb ==
  /\ frame' \in YuyvFrames
  /\ bpp' = Depth(format)
  /\ memory' = [Allocated(bpp') EXCEPT !.word = Pyuv422torgb(frame')]
  /\ result' = "ok"
  /\ UNCHANGED <<format, line, line_buffer, errors>>

\* mjpeg2rgb up to jpeg_start_decompress, line buffer and output allocated.
mjpeg2rgb ==
  /\ Idle
  /\ frame' \in MjpegFrames
  /\ memory' = Allocated(bpp)
  /\ line_buffer' = "held"
  /\ line' = 0 /\ result' = "converting"
  /\ UNCHANGED <<format, bpp, errors>>

\* jpeg_read_scanlines: with the data at its end fill_mem_input_buffer feeds
\* it a marker that ends the image, and the lines that miss come out grey.
Scanline(k) == IF line < frame.lines THEN frame.color[k] ELSE Grey

\* Mutant: put_datas is not moved on.
ConvertOneLineInPlace ==
  /\ result = "converting" /\ line < Height
  /\ memory' = [memory EXCEPT !.word = [k \in Pixels |->
       IF bpp \in Depths /\ k \in 1..Width
       THEN Pack(bpp, Scanline(line * Width + k)) ELSE @[k]]]
  /\ line' = line + 1
  /\ UNCHANGED <<format, bpp, frame, line_buffer, result, errors>>

\* covert_one_line: of a depth it does not know it writes nothing.
ConvertOneLine ==
  /\ result = "converting" /\ line < Height
  /\ memory' = [memory EXCEPT !.word = [k \in Pixels |->
       IF bpp \in Depths /\ k \in (line * Width + 1)..(line * Width + Width)
       THEN Pack(bpp, Scanline(k)) ELSE @[k]]]
  /\ line' = line + 1
  /\ UNCHANGED <<format, bpp, frame, line_buffer, result, errors>>

\* MyErrorExit comes back to setjmp from jpeg_read_scanlines.  line_buffer was
\* set in between and is not volatile: it is freed, or is NULL again and lost.
DecodeFails ==
  /\ result = "converting" /\ line < Height /\ errors < MaxErrors
  /\ result' = "failed"
  /\ errors' = errors + 1
  /\ line_buffer' \in {"freed", "lost"}
  /\ UNCHANGED <<format, bpp, frame, memory, line>>

\* The same from jpeg_finish_decompress, with line_buffer freed already: what
\* is still in the variable is freed again, which may end the program.
FinishFails ==
  /\ result = "converting" /\ line = Height /\ errors < MaxErrors
  /\ \/ result' = "failed" /\ line_buffer' = "freed"
     \/ result' = "crashed" /\ line_buffer' = "freed twice"
  /\ errors' = errors + 1
  /\ UNCHANGED <<format, bpp, frame, memory, line>>

\* libjpeg finds no image, or jpeg_mem_src_tj no byte: nothing was allocated.
DecodeRefusesHeader ==
  /\ Idle /\ errors < MaxErrors
  /\ result' = "failed"
  /\ errors' = errors + 1
  /\ line_buffer' = "none"
  /\ UNCHANGED <<format, bpp, frame, memory, line>>

\* pixel_datas[line_bytes * 240 - 1].  What was never written, and what is
\* behind a frame of fewer lines, is any byte.
Tested ==
  IF bpp \in Depths /\ TestedLine <= Height
  THEN {LastByte(bpp, memory.word[TestedLine * Width])} ELSE Levels

\* Mutant: tests the first byte of the pixel.
DecodeEndsLowByte ==
  /\ result = "converting" /\ line = Height
  /\ result' = IF memory.word[TestedLine * Width] % 256 = 132 THEN "refused" ELSE "ok"
  /\ line_buffer' = "freed"
  /\ UNCHANGED <<format, bpp, frame, memory, line, errors>>

\* jpeg_finish_decompress returns.  A frame whose tested byte is 132 is thrown
\* away.
DecodeEnds ==
  /\ result = "converting" /\ line = Height
  /\ \E byte \in Tested : result' = IF byte = 132 THEN "refused" ELSE "ok"
  /\ line_buffer' = "freed"
  /\ UNCHANGED <<format, bpp, frame, memory, line, errors>>

\* yuyv2rgb_exit and mjpeg2rgb_exit; then the caller may ask for another
\* format, or set another depth.
RgbExit ==
  /\ Idle /\ memory.size # 0
  /\ memory' = Unallocated
  /\ format' \in Rgb /\ bpp' \in AnyDepth
  /\ result' = "none"
  /\ UNCHANGED <<frame, line, line_buffer, errors>>

=============================================================================
