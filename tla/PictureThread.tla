----------------------------- MODULE PictureThread -----------------------------
(***************************************************************************)
(* pictuer_send_thread of main.c: opens the camera, looks up a converter   *)
(* to JPEG and then, each time it is woken on send_con_var, takes a frame, *)
(* writes it to photo.jpg, sends it and gives the buffer back.             *)
(***************************************************************************)
EXTENDS Rtl8188eus, Camera, ConvertManager

CONSTANT CameraFormats   \* formats the camera may offer as its first known one

SupportFmts == {"YUYV", "MJPEG", "RGB565"}

ASSUME PictureAssumption == CameraFormats \subseteq SupportFmts

VARIABLE
  cpc                 \* where the thread is

PicturePcs == {"open", "lock", "wait", "waiting", "woken", "get", "save",
               "slock", "send", "put", "returned"}

PictureInit == Starts("picture", cpc, "open")

PictureTypeOK == cpc \in PicturePcs

\* get_convert_formats(format, V4L2_PIX_FMT_JPEG) finds a converter.
HasJpegConverter(format) == get_convert_formats(convert_init, format, "JPEG") # NULL

-----------------------------------------------------------------------------
PictureOpen ==
  /\ cpc = "open"
  /\ CanOpen("video0")
  /\ Opened
  /\ \/ /\ CameraStart
        /\ \E format \in CameraFormats :
             cpc' = IF HasJpegConverter(format) THEN "lock" ELSE "returned"
     \/ cpc' = "returned" /\ UNCHANGED camera      \* VIDIOC_STREAMON failed
  /\ UNCHANGED <<alive, socket_mutex, socket, sendVars>>

\* camera_device_init failed, and closed what it had opened.
PictureOpenFails ==
  /\ cpc = "open"
  /\ cpc' = "returned"
  /\ UNCHANGED <<process, socket_mutex, socket, sendVars, camera>>

PictureLock ==
  /\ cpc = "lock"
  /\ Lock(send_mutex, "picture")
  /\ cpc' = "wait"
  /\ UNCHANGED <<process, socket_mutex, socket, send_con_var, camera>>

PictureWait ==
  /\ cpc = "wait"
  /\ Wait(send_con_var, send_mutex, "picture")
  /\ cpc' = "waiting"
  /\ UNCHANGED <<process, socket_mutex, socket, camera>>

\* Mutant: waits with a timeout.
PictureWakeTimeout ==
  /\ cpc = "waiting"
  /\ Leave(send_con_var, "picture")
  /\ Lock(send_mutex, "picture")
  /\ cpc' = "woken"
  /\ UNCHANGED <<process, socket_mutex, socket, camera>>

PictureWake ==
  /\ cpc = "waiting"
  /\ Woken(send_con_var, "picture")
  /\ Leave(send_con_var, "picture")
  /\ Lock(send_mutex, "picture")
  /\ cpc' = "woken"
  /\ UNCHANGED <<process, socket_mutex, socket, camera>>

PictureUnlock ==
  /\ cpc = "woken"
  /\ Unlock(send_mutex)
  /\ cpc' = "get"
  /\ UNCHANGED <<process, socket_mutex, socket, send_con_var, camera>>

-----------------------------------------------------------------------------
PictureGet ==
  /\ cpc = "get"
  /\ CameraGet
  /\ cpc' = "save"
  /\ UNCHANGED <<process, socket_mutex, socket, sendVars>>

\* poll or VIDIOC_DQBUF, or later VIDIOC_QBUF, failed: the thread returns.
PictureCameraFails ==
  /\ cpc \in {"get", "put"}
  /\ cpc' = "returned"
  /\ UNCHANGED <<process, socket_mutex, socket, sendVars, camera>>

\* Mutant: gives the buffer back before it is sent, and again after.
PictureSaveRequeues ==
  /\ cpc = "save"
  /\ cpc' = "slock"
  /\ queue' = Append(queue, held)
  /\ UNCHANGED <<process, socket_mutex, socket, sendVars, streaming, done, held>>

\* Mutant: without the fclose.
PictureSaveUnclosed ==
  /\ cpc = "save"
  /\ IF fds < FdLimit THEN cpc' = "slock" /\ fds' = fds + 1 /\ UNCHANGED alive
     ELSE Exit /\ UNCHANGED cpc
  /\ UNCHANGED <<socket_mutex, socket, sendVars, camera>>

\* The result of fopen is not looked at: without a descriptor fwrite faults.
PictureSave ==
  /\ cpc = "save"
  /\ IF fds < FdLimit THEN cpc' = "slock" /\ UNCHANGED process
     ELSE Exit /\ UNCHANGED cpc
  /\ UNCHANGED <<socket_mutex, socket, sendVars, camera>>

PictureSendLock ==
  /\ cpc = "slock"
  /\ Lock(socket_mutex, "picture")
  /\ cpc' = "send"
  /\ UNCHANGED <<process, socket, sendVars, camera>>

\* Mutant: goes on to the next photo without giving the buffer back.
PictureSendContinues ==
  /\ cpc = "send"
  /\ Send
  /\ Unlock(socket_mutex)
  /\ cpc' = "lock"
  /\ UNCHANGED <<inbound, taken, peer, quota, sendVars, camera>>

PictureSend ==
  /\ cpc = "send"
  /\ Send
  /\ Unlock(socket_mutex)
  /\ cpc' = "put"
  /\ UNCHANGED <<inbound, taken, peer, quota, sendVars, camera>>

PicturePut ==
  /\ cpc = "put"
  /\ CameraPut
  /\ cpc' = "lock"
  /\ UNCHANGED <<process, socket_mutex, socket, sendVars>>

PictureStep ==
  \/ PictureOpen \/ PictureOpenFails
  \/ PictureLock \/ PictureWait \/ PictureWake \/ PictureUnlock
  \/ PictureGet \/ PictureCameraFails \/ PictureSave
  \/ PictureSendLock \/ PictureSend \/ PicturePut

=============================================================================
