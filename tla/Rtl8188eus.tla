------------------------------ MODULE Rtl8188eus ------------------------------
(***************************************************************************)
(* wifi/rtl8188eus.c: the TCP socket to the capsule server, and what the   *)
(* server does at the other end.  The server writes frames AAxx...; TCP    *)
(* delivers bytes, so a read may take part of a frame or several frames.   *)
(* Frames are kept whole in inbound, with the number of bytes of the first *)
(* one that were already read; no frame has "AA" past its first two bytes. *)
(***************************************************************************)
EXTENDS Process

CONSTANTS
  Codes,              \* the codes xx of the frames the server may send
  FrameLen,           \* bytes of a frame: the header AA, the code, the rest
  BufLen,             \* bytes of rcv_buf, 24 in the code
  MaxFrames,          \* bound: frames the server sends in one behaviour
  SendRoom            \* bound: writes the socket's send buffer holds

NoCode == "none"

ASSUME SocketAssumption ==
  /\ FrameLen \in Nat /\ FrameLen >= 4
  /\ BufLen \in Nat /\ BufLen >= 4
  /\ MaxFrames \in Nat
  /\ SendRoom \in Nat \ {0}
  /\ NoCode \notin Codes

VARIABLES
  inbound,            \* frames that arrived and were not wholly read
  taken,              \* bytes of Head(inbound) already read
  room,               \* writes the send buffer can still take
  peer,               \* the connection, as the server sees it
  quota               \* frames the server may still send

socket == <<inbound, taken, room, peer, quota>>

SocketInit ==
  /\ inbound = <<>> /\ taken = 0
  /\ room = SendRoom
  /\ peer = "open"
  /\ quota = MaxFrames

SocketTypeOK ==
  /\ inbound \in Seq(Codes)
  /\ taken \in Nat
  /\ room \in 0..SendRoom
  /\ peer \in {"open", "closed"}
  /\ quota \in 0..MaxFrames

Available == FrameLen * Len(inbound) - taken

-----------------------------------------------------------------------------
(* rtl8188eus_receive: a select that does not wait, then one read of       *)
(* n bytes.  The buffer was cleared, so bytes past n are zero.             *)

Take(n) ==
  LET pos == taken + n
  IN  /\ inbound' = SubSeq(inbound, (pos \div FrameLen) + 1, Len(inbound))
      /\ taken' = pos % FrameLen
      /\ UNCHANGED <<room, peer, quota>>

\* What the first four bytes of the buffer hold after a read of n bytes.
Parsed(buf, n) ==
  [aa   |-> taken = 0 /\ (n >= 2 \/ buf.aa),
   code |-> IF n >= 4 THEN (IF taken = 0 THEN Head(inbound) ELSE NoCode)
                      ELSE buf.code]

\* rtl8188eus_send: write blocks while the send buffer is full.  Once the
\* server closed the connection a write is lost, fails, or raises SIGPIPE,
\* for which the program has no handler; a failure is only printed.
Send ==
  \/ /\ peer = "open" /\ room > 0
     /\ room' = room - 1
     /\ UNCHANGED process
  \/ /\ peer = "closed"
     /\ UNCHANGED <<room, process>>
  \/ /\ peer = "closed"
     /\ Exit
     /\ UNCHANGED room

-----------------------------------------------------------------------------
(* The server.                                                             *)

ServerSend(code) ==
  /\ peer = "open" /\ quota > 0
  /\ quota' = quota - 1
  /\ inbound' = Append(inbound, code)
  /\ UNCHANGED <<taken, room, peer>>

ServerRead ==
  /\ peer = "open" /\ room < SendRoom
  /\ room' = room + 1
  /\ UNCHANGED <<inbound, taken, peer, quota>>

ServerClose ==
  /\ peer = "open"
  /\ peer' = "closed"
  /\ UNCHANGED <<inbound, taken, room, quota>>

=============================================================================
