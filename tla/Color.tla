--------------------------------- MODULE Color ---------------------------------
(***************************************************************************)
(* The colour arithmetic of convert/: the tables of color.c that yuyv2rgb  *)
(* uses, the shifts yuyv2jpg has instead of them, and how a colour is      *)
(* packed into a pixel of 16 or 32 bits.                                   *)
(***************************************************************************)
EXTENDS Integers

Levels == 0..255
Colors == [red : Levels, green : Levels, blue : Levels]

Magnitude(n) == IF n < 0 THEN -n ELSE n

\* a / b in C, for b > 0: the fraction is dropped, also below zero.
Quotient(a, b) == IF a >= 0 THEN a \div b ELSE -((-a) \div b)

\* CLIP of color.h, and the same test in yuyv2jpg_new.
CLIP(color) == IF color > 255 THEN 255 ELSE IF color < 0 THEN 0 ELSE color

-----------------------------------------------------------------------------
(* initLut, as far as its tables are read.                                 *)

LutRv == [i \in Levels |-> Quotient((i - 128) * 1402, 1000)]
LutBu == [i \in Levels |-> Quotient((i - 128) * 1772, 1000)]

\* Mutant: the green coefficients with their sign lost.
LutGuUnsigned == [i \in Levels |-> Quotient((i - 128) * 714, 1000)]

LutGu == [i \in Levels |-> Quotient((128 - i) * 714, 1000)]
LutGv == [i \in Levels |-> Quotient((128 - i) * 344, 1000)]

\* Mutant: green is not cut to a byte.
FromTablesUncut(y, u, v) ==
  [red   |-> CLIP(y + LutRv[v]),
   green |-> y + LutGu[u] + LutGv[v],
   blue  |-> CLIP(y + LutBu[u])]

\* R_FROMYV, G_FROMYUV and B_FROMYU.
FromTables(y, u, v) ==
  [red   |-> CLIP(y + LutRv[v]),
   green |-> CLIP(y + LutGu[u] + LutGv[v]),
   blue  |-> CLIP(y + LutBu[u])]

\* The pixel yuyv2jpg_new gives to the compressor; >> rounds down.
FromShifts(y, u, v) ==
  [red   |-> CLIP((y * 256 + 359 * (v - 128)) \div 256),
   green |-> CLIP((y * 256 - 88 * (u - 128) - 183 * (v - 128)) \div 256),
   blue  |-> CLIP((y * 256 + 454 * (u - 128)) \div 256)]

-----------------------------------------------------------------------------
(* Pixels.                                                                 *)

\* The depths, in bits of a pixel, that covert_one_line knows.
Depths == {16, 24, 32}

\* With 24 bits the bytes are red, green and blue in this order, so the number
\* is read from the first byte on; with 16 and 32 it is the one stored.
Pack(bpp, color) ==
  IF bpp = 16
  THEN (color.red \div 8) * 2048 + (color.green \div 4) * 32 + color.blue \div 8
  ELSE color.red * 65536 + color.green * 256 + color.blue

\* How many values a pixel takes: with 32 bits, the fourth byte is 0.
PixelValues(bpp) == IF bpp = 16 THEN 65536 ELSE 16777216

\* The byte of a pixel with the highest address, on a little-endian machine.
LastByte(bpp, word) ==
  CASE bpp = 16 -> word \div 256
    [] bpp = 24 -> word % 256
    [] bpp = 32 -> word \div 16777216

=============================================================================
