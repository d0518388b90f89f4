------------------------------- MODULE JpegBuffer ------------------------------
(***************************************************************************)
(* convert/yuyv2jpg.c as pictuer_send_thread uses it: libjpeg fills a      *)
(* small buffer, the destination manager copies it to pixel_datas, which   *)
(* is allocated once, and the thread sends one byte for each pixel of the  *)
(* frame, however many the JPEG has.                                       *)
(*                                                                         *)
(* A byte of memory is Byte(p, i): byte i of the JPEG of photo p.          *)
(***************************************************************************)
EXTENDS Frame

CONSTANTS
  OUTPUT_BUF_SIZE,    \* 8192 in the code
  JpegLengths,        \* the sizes a compressed frame can have
  MaxPhotos           \* bound: photos in one behaviour

\* The buffer has the two bytes a pixel of the frame has.  The size given to
\* dest_buffer is never looked at, and a JPEG can be larger.
Capacity == 2 * Area

ASSUME JpegAssumption ==
  /\ OUTPUT_BUF_SIZE \in Nat \ {0}
  /\ JpegLengths \subseteq Nat \ {0}
  /\ MaxPhotos \in Nat

VARIABLES
  pc,                 \* what the thread does: wait, compress, send; or overrun
  photo,              \* how many frames were converted
  length,             \* bytes libjpeg will make of this one
  made,               \* and has made so far
  free_in_buffer,     \* room in the small buffer
  outbuffer_cursor,   \* bytes from the start of pixel_datas
  written,
  pixel_datas,
  sent                \* the bytes of the last photo, as the server got them

jpeg == <<pc, photo, length, made, free_in_buffer, outbuffer_cursor, written,
          pixel_datas, sent>>

Bytes == [of : Nat, byte : Nat]
Byte(p, i) == [of |-> p, byte |-> i]
Uninitialised == Byte(0, 0)

JpegInit ==
  /\ pc = "wait" /\ photo = 0
  /\ length = 0 /\ made = 0
  /\ free_in_buffer = OUTPUT_BUF_SIZE /\ outbuffer_cursor = 0 /\ written = 0
  /\ pixel_datas = [i \in 1..Capacity |-> Uninitialised]
  /\ sent = [i \in 1..Area |-> Uninitialised]

JpegTypeOK ==
  /\ pc \in {"wait", "compress", "send", "overrun"} /\ photo \in 0..MaxPhotos
  /\ length \in {0} \union JpegLengths /\ made \in 0..length
  /\ free_in_buffer \in 1..OUTPUT_BUF_SIZE
  /\ outbuffer_cursor \in Nat /\ written \in 0..length
  /\ pixel_datas \in [1..Capacity -> Bytes]
  /\ sent \in [1..Area -> Bytes]

-----------------------------------------------------------------------------
(* The destination manager.                                                *)

\* Mutant: the cursor is set only when the manager is made.
DestBufferOnce == UNCHANGED outbuffer_cursor

\* dest_buffer.
DestBuffer == outbuffer_cursor' = 0

InitDestination == written' = 0 /\ free_in_buffer' = OUTPUT_BUF_SIZE

\* memcpy of the n bytes in the small buffer, the last of them byte total, and
\* what the thread does next.  Behind the buffer it overruns the heap, and
\* nothing is said of the program any more.
Flush(total, n, next) ==
  /\ pixel_datas' =
       [i \in 1..Capacity |->
          IF i \in (outbuffer_cursor + 1)..(outbuffer_cursor + n)
          THEN Byte(photo, total - n + (i - outbuffer_cursor))
          ELSE pixel_datas[i]]
  /\ outbuffer_cursor' = outbuffer_cursor + n
  /\ written' = written + n
  /\ pc' = IF outbuffer_cursor + n <= Capacity THEN next ELSE "overrun"

\* Mutant: copies the small buffer to the start of pixel_datas each time.
EmptyOutputBufferAtStart(total) ==
  /\ pixel_datas' =
       [i \in 1..Capacity |->
          IF i \in 1..OUTPUT_BUF_SIZE THEN Byte(photo, total - OUTPUT_BUF_SIZE + i)
          ELSE pixel_datas[i]]
  /\ UNCHANGED <<outbuffer_cursor, pc>>
  /\ written' = written + OUTPUT_BUF_SIZE
  /\ free_in_buffer' = OUTPUT_BUF_SIZE

EmptyOutputBuffer(total) ==
  /\ Flush(total, OUTPUT_BUF_SIZE, "compress")
  /\ free_in_buffer' = OUTPUT_BUF_SIZE

\* Mutant: copies the whole small buffer, the part that was not filled too.
TermDestinationWhole ==
  Flush(made + free_in_buffer, OUTPUT_BUF_SIZE, "send")

TermDestination == Flush(made, OUTPUT_BUF_SIZE - free_in_buffer, "send")

-----------------------------------------------------------------------------
\* A photo is asked for, and the conversion of its frame begins.
Convert ==
  /\ pc = "wait" /\ photo < MaxPhotos
  /\ photo' = photo + 1
  /\ length' \in JpegLengths
  /\ made' = 0
  /\ DestBuffer /\ InitDestination
  /\ pc' = "compress"
  /\ UNCHANGED <<pixel_datas, sent>>

\* jpeg_write_scanlines makes n bytes; libjpeg has the small buffer emptied
\* as soon as it is full.
Compress(n) ==
  /\ pc = "compress"
  /\ n <= length - made /\ n <= free_in_buffer
  /\ made' = made + n
  /\ IF n = free_in_buffer THEN EmptyOutputBuffer(made + n)
     ELSE /\ free_in_buffer' = free_in_buffer - n
          /\ UNCHANGED <<outbuffer_cursor, written, pixel_datas, pc>>
  /\ UNCHANGED <<photo, length, sent>>

\* jpeg_finish_compress.
Finish ==
  /\ pc = "compress" /\ made = length
  /\ TermDestination
  /\ UNCHANGED <<photo, length, made, free_in_buffer, sent>>

\* To photo.jpg and to the socket go width times height bytes.
SendPhoto ==
  /\ pc = "send"
  /\ sent' = [i \in 1..Area |-> pixel_datas[i]]
  /\ pc' = "wait"
  /\ UNCHANGED <<photo, length, made, free_in_buffer, outbuffer_cursor, written,
                 pixel_datas>>

Bounded == pc = "wait" /\ photo = MaxPhotos /\ UNCHANGED jpeg
Overrun == pc = "overrun" /\ UNCHANGED jpeg

JpegNext ==
  \/ Convert \/ (\E n \in 1..OUTPUT_BUF_SIZE : Compress(n)) \/ Finish \/ SendPhoto
  \/ Bounded \/ Overrun

JpegSpec == JpegInit /\ [][JpegNext]_jpeg

-----------------------------------------------------------------------------
\* The buffer is overrun only by a JPEG that is itself larger than it: the
\* copies of the conversions before do not add up, and none is made twice.
WithinBuffer == length <= Capacity => pc # "overrun"

\* What the server gets is the JPEG of this photo from its first byte on, in
\* order and without a gap: whole if it has at most a byte for each pixel,
\* else cut off.
PhotoArrives ==
  pc = "wait" /\ photo > 0 =>
    \A i \in 1..Area : i <= length => sent[i] = Byte(photo, i)

\* What follows the JPEG in the bytes sent was never part of this photo: it
\* is left over from a photo before, or from before the memory was allocated.
Leftovers ==
  pc = "wait" /\ photo > 0 =>
    \A i \in 1..Area : i > length => sent[i].of < photo

\* The three made inductive: cursor, written and small buffer agree on what
\* libjpeg has made, and pixel_datas holds that part of it that was copied.
JpegInv ==
  /\ JpegTypeOK
  /\ outbuffer_cursor = written
  /\ pc = "compress" => photo > 0 /\ made = written + (OUTPUT_BUF_SIZE - free_in_buffer)
  /\ pc \in {"wait", "send"} => written = length
  /\ pc = "overrun" => written > Capacity
  /\ pc = "send" => photo > 0
  /\ \A i \in 1..Capacity : pixel_datas[i].of <= photo
  /\ photo > 0 => \A i \in 1..Capacity :
                    IF i <= written THEN pixel_datas[i] = Byte(photo, i)
                                    ELSE pixel_datas[i].of < photo
  /\ pc = "wait" /\ photo > 0 => \A i \in 1..Area : sent[i] = pixel_datas[i]

=============================================================================
