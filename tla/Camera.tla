-------------------------------- MODULE Camera ---------------------------------
(***************************************************************************)
(* camera/v4l2.c with the driver behind it: NBuf mapped buffers, which the *)
(* driver fills in the order they were queued and gives back in the order  *)
(* it filled them.                                                         *)
(***************************************************************************)
EXTENDS Naturals, Sequences

CONSTANT NBuf         \* REGURY_BUFFER_NUMBERS, 4 in the code

ASSUME CameraAssumption == NBuf \in Nat \ {0}

Buffers == 1..NBuf
None == 0

VARIABLES
  streaming,          \* VIDIOC_STREAMON was done
  queue,              \* buffers the driver may fill
  done,               \* filled buffers, the oldest frame first
  held                \* camera_buf_cur_index, while the program has it

camera == <<streaming, queue, done, held>>

CameraInit ==
  /\ streaming = FALSE
  /\ queue = <<>> /\ done = <<>>
  /\ held = None

CameraTypeOK ==
  /\ streaming \in BOOLEAN
  /\ queue \in Seq(Buffers)
  /\ done \in Seq(Buffers)
  /\ held \in Buffers \union {None}

\* v4l2_init queues every buffer, and v4l2_start turns the stream on.
CameraStart ==
  /\ streaming' = TRUE
  /\ queue' = [i \in Buffers |-> i]
  /\ UNCHANGED <<done, held>>

\* The driver captures a frame; with no buffer queued it drops frames.
CameraFill ==
  /\ streaming
  /\ queue # <<>>
  /\ done' = Append(done, Head(queue))
  /\ queue' = Tail(queue)
  /\ UNCHANGED <<streaming, held>>

\* Mutant: takes a buffer and leaves it where it was.
CameraGetTwice ==
  /\ done # <<>>
  /\ held' = Head(done)
  /\ UNCHANGED <<streaming, queue, done>>

\* Mutant: does not record camera_buf_cur_index.
CameraGetUnrecorded ==
  /\ done # <<>>
  /\ done' = Tail(done)
  /\ UNCHANGED <<streaming, queue, held>>

\* v4l2_get_frame_streaming: poll waits for a filled buffer, VIDIOC_DQBUF
\* takes the oldest one.
CameraGet ==
  /\ done # <<>>
  /\ held' = Head(done)
  /\ done' = Tail(done)
  /\ UNCHANGED <<streaming, queue>>

\* Mutant: the buffer is not queued again.
CameraPutLost ==
  /\ held' = None
  /\ UNCHANGED <<streaming, queue, done>>

\* v4l2_put_frame_streaming: VIDIOC_QBUF of camera_buf_cur_index.
CameraPut ==
  /\ queue' = Append(queue, held)
  /\ held' = None
  /\ UNCHANGED <<streaming, done>>

=============================================================================
