------------------------------ MODULE Conversion -------------------------------
(***************************************************************************)
(* The converters as a caller of convert_manager.c gets them: it asks for  *)
(* one from the camera's format to the wanted one, converts frame after    *)
(* frame with it, and may call its exit.                                   *)
(***************************************************************************)
EXTENDS JpegBuffer, RgbBuffer

VARIABLES
  camera,             \* the format v4l2_get_format answers
  converter           \* what get_convert_formats found

vars == <<camera, converter, rgb, jpeg>>

Init ==
  /\ camera \in {"YUYV", "MJPEG", "RGB565"}
  /\ RgbInit /\ JpegInit
  /\ converter = get_convert_formats(convert_init, camera, format)

Yuyv2rgb  == converter = "yuyv2rgb" /\ yuyv2rgb /\ UNCHANGED converter
Mjpeg2rgb ==
  /\ converter = "mjpeg2rgb"
  /\ \/ mjpeg2rgb \/ ConvertOneLine \/ DecodeEnds
     \/ DecodeRefusesHeader \/ DecodeFails \/ FinishFails
  /\ UNCHANGED converter
Exit ==
  /\ converter \in {"yuyv2rgb", "mjpeg2rgb"}
  /\ RgbExit
  /\ converter' = get_convert_formats(convert_init, camera, format')
Yuyv2jpg == converter = "yuyv2jpg" /\ JpegNext

\* "can not support this format convert": the caller gives up.
Unsupported == converter = NULL /\ UNCHANGED <<rgb, jpeg>>

\* The second free of line_buffer ended the program.
Crashed == result = "crashed" /\ UNCHANGED <<rgb, jpeg>>

Next ==
  /\ \/ (Yuyv2rgb \/ Mjpeg2rgb \/ Exit) /\ UNCHANGED jpeg
     \/ (Yuyv2jpg \/ Unsupported \/ Crashed) /\ UNCHANGED <<converter, rgb>>
  /\ UNCHANGED camera

Spec == Init /\ [][Next]_vars

-----------------------------------------------------------------------------
(* What a screen shows of the buffer.                                      *)

\* The bits of a pixel that belong to each colour.
Shown(depth, word) ==
  IF depth = 16
  THEN [red |-> word \div 2048, green |-> (word \div 32) % 64, blue |-> word % 32]
  ELSE [red |-> word \div 65536, green |-> (word \div 256) % 256, blue |-> word % 256]

\* How many of the 256 levels one step of such a field stands for.
Steps(depth) ==
  IF depth = 16 THEN [red |-> 8, green |-> 4, blue |-> 8]
                ELSE [red |-> 1, green |-> 1, blue |-> 1]

\* The formula color.c stands for, in thousandths of a level: that of JFIF,
\* but for the two factors of green, which are exchanged.
Formula(y, u, v) ==
  [red   |-> 1000 * y + 1402 * (v - 128),
   green |-> 1000 * y - 714 * (u - 128) - 344 * (v - 128),
   blue  |-> 1000 * y + 1772 * (u - 128)]

\* The level is the one wanted, cut to a byte, but for rounding.
Near(level, step, wanted) ==
  LET cut   == IF wanted > 255000 THEN 255000 ELSE IF wanted < 0 THEN 0 ELSE wanted
      error == cut - 1000 * level * step
  IN  -2000 < error /\ error < 1000 * (step + 1)

\* A frame yuyv2rgb has converted shows every pixel in the colour of its own
\* luma sample and the chroma samples it shares with its neighbour.
YuyvShown ==
  converter = "yuyv2rgb" /\ result = "ok" =>
    \A k \in Pixels :
      LET shown  == Shown(bpp, memory.word[k])
          steps  == Steps(bpp)
          pair   == (k + 1) \div 2
          wanted == Formula(frame.luma[k], frame.u[pair], frame.v[pair])
      IN  /\ Near(shown.red, steps.red, wanted.red)
          /\ Near(shown.green, steps.green, wanted.green)
          /\ Near(shown.blue, steps.blue, wanted.blue)

\* What there is to show of an MJPEG frame: grey from where its data ended.
PictureColor(k) == IF k <= frame.lines * Width THEN frame.color[k] ELSE Grey

\* A frame that mjpeg2rgb takes, with a depth it knows, shows its whole
\* picture, or grey from the line on where its data ended, and nothing of the
\* frame before.
PictureShown ==
  converter = "mjpeg2rgb" /\ result = "ok" /\ bpp \in Depths =>
    \A k \in Pixels :
      LET shown == Shown(bpp, memory.word[k])
          steps == Steps(bpp)
      IN  /\ shown.red = PictureColor(k).red \div steps.red
          /\ shown.green = PictureColor(k).green \div steps.green
          /\ shown.blue = PictureColor(k).blue \div steps.blue

\* For one frame yuyv2jpg and yuyv2rgb show the same red and blue but for two
\* levels, and the same green but for what the exchanged factors make of the
\* difference between u and v.
Agree(y, u, v) ==
  LET jpg    == FromShifts(y, u, v)
      tables == FromTables(y, u, v)
  IN  /\ Magnitude(jpg.red - tables.red) <= 2
      /\ Magnitude(jpg.blue - tables.blue) <= 2
      /\ 1000 * Magnitude(jpg.green - tables.green) <= 371 * Magnitude(u - v) + 3100

ConvertersAgree ==
  converter = "yuyv2rgb" /\ result = "ok" =>
    \A k \in Pixels : Agree(frame.luma[k], frame.u[(k + 1) \div 2], frame.v[(k + 1) \div 2])

\* With 16 bits, a frame whose data ends before the line that is tested is
\* not taken for a good one, if the frame has that line: it is grey there,
\* which ends in byte 132.
TornRefused ==
  /\ converter = "mjpeg2rgb" /\ bpp = 16
  /\ frame.lines < TestedLine /\ TestedLine <= Height
  => result # "ok"

\* The last pixel of the line that is tested, as the frame has it.
TestedColor == frame.color[TestedLine * Width]

\* A good frame that has that line is refused only for a grey to yellow pixel
\* at its end with 16 bits, only for one level of blue with 24, and never with
\* 32, where the byte is the one nobody uses.
RefusedOnlyGrey ==
  result = "refused" /\ bpp \in Depths /\ TestedLine <= Height =>
    \/ bpp = 16 /\ frame.lines < TestedLine
    \/ bpp = 16 /\ TestedColor.red \in 128..135 /\ TestedColor.green \in 128..159
    \/ bpp = 24 /\ TestedColor.blue = 132 /\ frame.lines >= TestedLine

-----------------------------------------------------------------------------
(* Why these hold: what every pixel written so far was made of.            *)

Supported == converter = NULL \/ <<camera, format>> \in is_support(converter)

\* The buffer is of the depth that is written to it.
Kept ==
  /\ memory.size \in {0, bpp}
  /\ memory.size = 0 => memory = Unallocated
  /\ converter = "yuyv2rgb" /\ memory.size # 0 => bpp = Depth(format)
  /\ result \in {"converting", "ok", "refused"} => memory.size = bpp

YuyvWritten ==
  converter = "yuyv2rgb" /\ result = "ok" =>
    frame \in YuyvFrames /\ memory.word = Pyuv422torgb(frame)

LinesWritten ==
  converter = "mjpeg2rgb" /\ result \in {"converting", "ok", "refused"} =>
    /\ frame \in MjpegFrames
    /\ bpp \in Depths =>
         \A k \in Pixels :
           k <= line * Width => memory.word[k] = Pack(bpp, PictureColor(k))

Ended ==
  /\ result \in {"converting", "refused"} => converter = "mjpeg2rgb"
  /\ converter = "mjpeg2rgb" /\ result \in {"ok", "refused"} =>
       /\ line = Height
       /\ bpp \in Depths /\ TestedLine <= Height =>
            (result = "refused" <=> 132 \in Tested)

RgbInv ==
  /\ RgbTypeOK /\ Supported /\ Kept
  /\ YuyvWritten /\ LinesWritten /\ Ended

=============================================================================
