------------------------------ MODULE CameraSetup ------------------------------
(***************************************************************************)
(* How pictuer_send_thread gets its camera: camera_init registers          *)
(* camera/v4l2.c, camera_device_init gives /dev/video0 to v4l2_init, then  *)
(* come v4l2_start and the lookup of a converter to JPEG.  PictureThread   *)
(* has all of it in one step.                                              *)
(***************************************************************************)
EXTENDS ConvertManager

CONSTANTS
  NBuf,               \* REGURY_BUFFER_NUMBERS, 4 in the code
  MaxFormats          \* bound: formats a camera has

\* The driver is trusted to give no more buffers than puc_buf has room for.
ASSUME CameraSetupAssumption == NBuf \in Nat \ {0} /\ MaxFormats \in Nat

support_fmts == {"YUYV", "MJPEG", "RGB565"}
Formats == support_fmts \union {"other"}

VARIABLES
  setup,              \* where the thread is
  camera_fd,
  pixelformat,        \* of camera_device, which is not initialised
  delivers,           \* the format the camera is set to
  enumerated,         \* v4l2_fmt_desc.index
  camera_buf_cnt,
  mapped, queued      \* how many buffers are mapped, and are the driver's

cameraSetup == <<setup, camera_fd, pixelformat, delivers, enumerated,
                 camera_buf_cnt, mapped, queued>>

\* The thread's stack is new, or holds what an earlier call left on it.
Indeterminate == {NULL, "stray"}

CameraSetupInit ==
  /\ setup = "open" /\ camera_fd = "closed"
  /\ pixelformat \in Indeterminate /\ delivers = NULL
  /\ enumerated = 0 /\ camera_buf_cnt = 0 /\ mapped = 0 /\ queued = 0

CameraSetupTypeOK ==
  /\ setup \in {"open", "querycap", "enum_fmt", "s_fmt", "reqbufs", "map",
                "queue", "start", "convert", "loop", "returned"}
  /\ camera_fd \in {"closed", "open"}
  /\ pixelformat \in support_fmts \union Indeterminate
  /\ delivers \in Formats \union {NULL}
  /\ enumerated \in 0..MaxFormats
  /\ camera_buf_cnt \in 0..NBuf
  /\ mapped \in 0..camera_buf_cnt /\ queued \in 0..mapped

-----------------------------------------------------------------------------
(* v4l2_init.                                                              *)

OpenFails ==
  /\ setup = "open"
  /\ setup' = "returned"
  /\ UNCHANGED <<camera_fd, pixelformat, delivers, enumerated, camera_buf_cnt,
                 mapped, queued>>

OpenVideo ==
  /\ setup = "open"
  /\ camera_fd' = "open" /\ setup' = "querycap"
  /\ UNCHANGED <<pixelformat, delivers, enumerated, camera_buf_cnt, mapped, queued>>

\* goto err_exit, from each ioctl that fails; what is mapped stays mapped.
ErrExit ==
  /\ \/ setup \in {"querycap", "s_fmt", "reqbufs", "map", "queue"}
     \/ setup = "enum_fmt" /\ pixelformat = NULL
  /\ camera_fd' = "closed" /\ setup' = "returned"
  /\ UNCHANGED <<pixelformat, delivers, enumerated, camera_buf_cnt, mapped, queued>>

QueryCap ==
  /\ setup = "querycap"
  /\ setup' = "enum_fmt"
  /\ UNCHANGED <<camera_fd, pixelformat, delivers, enumerated, camera_buf_cnt,
                 mapped, queued>>

\* VIDIOC_ENUM_FMT answers with one more format.
EnumFormat(format) ==
  /\ setup = "enum_fmt" /\ enumerated < MaxFormats
  /\ IF format \in support_fmts
     THEN pixelformat' = format /\ setup' = "s_fmt" /\ UNCHANGED enumerated
     ELSE enumerated' = enumerated + 1 /\ UNCHANGED <<pixelformat, setup>>
  /\ UNCHANGED <<camera_fd, delivers, camera_buf_cnt, mapped, queued>>

\* It has no more; what pixelformat held before is taken for a format.
EnumEnds ==
  /\ setup = "enum_fmt" /\ pixelformat # NULL
  /\ setup' = "s_fmt"
  /\ UNCHANGED <<camera_fd, pixelformat, delivers, enumerated, camera_buf_cnt,
                 mapped, queued>>

\* VIDIOC_S_FMT adjusts what the camera does not have.
SetFormat ==
  /\ setup = "s_fmt"
  /\ delivers' \in IF pixelformat \in Formats THEN {pixelformat} ELSE Formats
  /\ setup' = "reqbufs"
  /\ UNCHANGED <<camera_fd, pixelformat, enumerated, camera_buf_cnt, mapped, queued>>

RequestBuffers ==
  /\ setup = "reqbufs"
  /\ camera_buf_cnt' \in 1..NBuf
  /\ setup' = "map"
  /\ UNCHANGED <<camera_fd, pixelformat, delivers, enumerated, mapped, queued>>

MapBuffer ==
  /\ setup = "map"
  /\ mapped' = mapped + 1
  /\ setup' = IF mapped' = camera_buf_cnt THEN "queue" ELSE "map"
  /\ UNCHANGED <<camera_fd, pixelformat, delivers, enumerated, camera_buf_cnt, queued>>

\* Mutant: leaves the loop a buffer too early.
QueueBufferShort ==
  /\ setup = "queue"
  /\ queued' = queued + 1
  /\ setup' = IF queued' + 1 >= camera_buf_cnt THEN "start" ELSE "queue"
  /\ UNCHANGED <<camera_fd, pixelformat, delivers, enumerated, camera_buf_cnt, mapped>>

QueueBuffer ==
  /\ setup = "queue"
  /\ queued' = queued + 1
  /\ setup' = IF queued' = camera_buf_cnt THEN "start" ELSE "queue"
  /\ UNCHANGED <<camera_fd, pixelformat, delivers, enumerated, camera_buf_cnt, mapped>>

-----------------------------------------------------------------------------
\* The thread returns and leaves the camera open.
StartFails ==
  /\ setup = "start"
  /\ setup' = "returned"
  /\ UNCHANGED <<camera_fd, pixelformat, delivers, enumerated, camera_buf_cnt,
                 mapped, queued>>

\* v4l2_start.
StartStreaming ==
  /\ setup = "start"
  /\ setup' = "convert"
  /\ UNCHANGED <<camera_fd, pixelformat, delivers, enumerated, camera_buf_cnt,
                 mapped, queued>>

\* Mutant: goes on when no converter was found.
FindConverterUnchecked ==
  /\ setup = "convert"
  /\ setup' = "loop"
  /\ UNCHANGED <<camera_fd, pixelformat, delivers, enumerated, camera_buf_cnt,
                 mapped, queued>>

FindConverter ==
  /\ setup = "convert"
  /\ setup' = IF get_convert_formats(convert_init, pixelformat, "JPEG") = NULL
              THEN "returned" ELSE "loop"
  /\ UNCHANGED <<camera_fd, pixelformat, delivers, enumerated, camera_buf_cnt,
                 mapped, queued>>

CameraSetupStep ==
  \/ OpenFails \/ OpenVideo \/ ErrExit \/ QueryCap
  \/ (\E format \in Formats : EnumFormat(format)) \/ EnumEnds
  \/ SetFormat \/ RequestBuffers \/ MapBuffer \/ QueueBuffer
  \/ StartFails \/ StartStreaming \/ FindConverter

-----------------------------------------------------------------------------
\* The converter the photos are made with takes the format the camera gives,
\* although pixelformat may never have been set: nothing was left on the stack
\* that a converter to JPEG is registered for.
ConverterFitsCamera ==
  setup = "loop" =>
    /\ delivers = pixelformat
    /\ <<delivers, "JPEG">> \in is_support("yuyv2jpg")

\* Capsule begins with each buffer mapped and queued, and counts a descriptor
\* for the camera just if that much was done: one buffer that fails closes it,
\* and nothing that fails later does.
CameraKeptWhole ==
  setup \in {"start", "convert", "loop", "returned"} =>
    (camera_fd = "open" <=>
       camera_buf_cnt > 0 /\ mapped = camera_buf_cnt /\ queued = camera_buf_cnt)

=============================================================================
