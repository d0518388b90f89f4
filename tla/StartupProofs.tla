----------------------------- MODULE StartupProofs -----------------------------
(***************************************************************************)
(* Proofs about the start-up: no thread runs before its device is ready.   *)
(***************************************************************************)
EXTENDS Startup, ManagerProofs

\* Which devices are in the list, and what main() has reached so far.
StartupInv ==
  /\ list \in {INIT_LIST_HEAD, <<"hlk-rm04", "rtl8188eus">>}
  /\ pos \in Nat \ {0}
  /\ pc = "start" => list = INIT_LIST_HEAD
  /\ created # {} => pc \in {"create", "loop"}
  /\ pc \in {"start", "init"} => wifi_device = NULL
  /\ outcome = "none" /\ pc = "init" /\ pos = 1 => fd = "closed"
  /\ pc \in {"start", "init"} /\ argument = "server" => fd = "closed"
  /\ pc = "init" /\ pos = 1 => sockfd = "closed"
  /\ pc = "start" => pos = 1 /\ fd = "closed" /\ sockfd = "closed"
  /\ pc \in {"adc", "create", "loop"} =>
       /\ wifi_device \in {"hlk-rm04", "rtl8188eus"} /\ Ready(wifi_device)
       /\ wifi_device = "hlk-rm04" => argument = "tty" /\ sockfd = "closed"
       /\ wifi_device = "rtl8188eus" => argument = "server" /\ fd = "closed"
  /\ pc \in {"create", "loop"} => fd_ads1115 = "open"

\* wifi_init leaves the device that was registered last in front.
LEMMA RegisteredOrder ==
  list_add("hlk-rm04", list_add("rtl8188eus", INIT_LIST_HEAD))
    = <<"hlk-rm04", "rtl8188eus">>
<1> DEFINE rtl == <<"rtl8188eus">>
           rm04 == <<"hlk-rm04">>
           both == <<"hlk-rm04", "rtl8188eus">>
           Oprs == {"hlk-rm04", "rtl8188eus"}
<1>1. rtl \in Seq(Oprs) /\ rm04 \in Seq(Oprs) /\ both \in Seq(Oprs)
  OBVIOUS
<1>2. list_add("rtl8188eus", INIT_LIST_HEAD) = rtl
  BY <1>1, ConcatEmptySeq DEF list_add, INIT_LIST_HEAD
<1>3. rm04 \o rtl = both
  <2>1. /\ rm04 \o rtl \in Seq(Oprs) /\ Len(rm04 \o rtl) = 2
        /\ \A i \in 1..2 : (rm04 \o rtl)[i] = IF i <= 1 THEN rm04[i] ELSE rtl[i - 1]
    BY <1>1, ConcatProperties
  <2>2. \A i \in 1..2 : (rm04 \o rtl)[i] = both[i]
    BY <2>1
  <2>3. QED
    BY <1>1, <2>1, <2>2, SeqEqual
<1>4. QED
  BY <1>2, <1>3 DEF list_add

\* main() keeps to the order: devices, converter, threads.
LEMMA StartupInvAlways == Spec => []StartupInv
<1>1. Init => StartupInv
  BY DEF Init, StartupInv, INIT_LIST_HEAD
<1>2. StartupInv /\ [Next]_vars => StartupInv'
  <2> SUFFICES ASSUME StartupInv, [Next]_vars
               PROVE  StartupInv'
    OBVIOUS
  <2> USE DEF StartupInv, NULL, INIT_LIST_HEAD, list_add, Ready, Paths, lookup, devices, threads
  <2>1. CASE UNCHANGED mainVars
    BY <2>1 DEF mainVars
  <2> SUFFICES ASSUME Step, outcome = "none", UNCHANGED <<argument, stdin_tty>>
               PROVE  StartupInv'
    BY <2>1 DEF Next, Settled, mainVars, vars
  <2>2. CASE Usage
    BY <2>2 DEF Usage
  <2>3. CASE WifiInit
    <3>1. list' = <<"hlk-rm04", "rtl8188eus">>
      BY <2>3, RegisteredOrder DEF WifiInit
    <3>2. QED
      BY <2>3, <3>1 DEF WifiInit
  <2>4. CASE Rm04OpenFails \/ Rm04NoTerminal
    BY <2>4 DEF Rm04OpenFails, Rm04NoTerminal, At, Decline
  <2>5. CASE Rm04Accepts
    <3>1. pos = 1
      BY <2>5 DEF Rm04Accepts, At
    <3>2. QED
      BY <2>5, <3>1 DEF Rm04Accepts, At, Accept
  <2>6. CASE InitTtyFails
    BY <2>6 DEF InitTtyFails, At
  <2>7. CASE RtlNoSocket \/ RtlConnectFails
    BY <2>7 DEF RtlNoSocket, RtlConnectFails, At, Decline
  <2>8. CASE RtlConnects
    BY <2>8 DEF RtlConnects, At, Accept
  <2>9. CASE NoDevice
    BY <2>9 DEF NoDevice
  <2>10. CASE OpenAdc
    BY <2>10 DEF OpenAdc
  <2>11. CASE CreateThread
    BY <2>11 DEF CreateThread
  <2>12. CASE FirstReceive
    BY <2>12 DEF FirstReceive
  <2>13. QED
    BY <2>2, <2>3, <2>4, <2>5, <2>6, <2>7, <2>8, <2>9, <2>10, <2>11, <2>12 DEF Step
<1>3. QED
  BY <1>1, <1>2, PTL DEF Spec

\* Threads start only with a device that was initialised to the end.
THEOREM ThreadsHaveDeviceAlways == Spec => []ThreadsHaveDevice
<1>1. StartupInv => ThreadsHaveDevice
  BY DEF StartupInv, ThreadsHaveDevice, NULL, Ready
<1>2. QED
  BY <1>1, StartupInvAlways, PTL

\* The device that declined leaves no descriptor to the threads.
THEOREM NoOtherLineAlways == Spec => []NoOtherLine
<1>1. StartupInv => NoOtherLine
  BY DEF StartupInv, NoOtherLine
<1>2. QED
  BY <1>1, StartupInvAlways, PTL

\* A path like that of the usage text never starts the threads: a device that
\* accepted the argument is a serial line or an address.
THEOREM UsageNeverStartsAlways == Spec => []UsageNeverStarts
<1>1. StartupInv => UsageNeverStarts
  BY DEF StartupInv, UsageNeverStarts, NULL
<1>2. QED
  BY <1>1, StartupInvAlways, PTL

-----------------------------------------------------------------------------
(* The camera of the picture thread.                                       *)

\* How much of v4l2_init is done where, and where the format came from.
CameraSetupInv ==
  /\ CameraSetupTypeOK
  /\ setup = "open" =>
       camera_fd = "closed" /\ camera_buf_cnt = 0 /\ mapped = 0 /\ queued = 0
  /\ setup \in {"querycap", "enum_fmt", "s_fmt", "reqbufs"} =>
       camera_fd = "open" /\ camera_buf_cnt = 0 /\ mapped = 0 /\ queued = 0
  /\ setup = "map" => camera_fd = "open" /\ mapped < camera_buf_cnt /\ queued = 0
  /\ setup = "queue" =>
       camera_fd = "open" /\ mapped = camera_buf_cnt /\ queued < camera_buf_cnt
  /\ setup \in {"start", "convert", "loop"} =>
       /\ camera_fd = "open" /\ camera_buf_cnt > 0
       /\ mapped = camera_buf_cnt /\ queued = camera_buf_cnt
  /\ CameraKeptWhole
  /\ setup \in {"reqbufs", "map", "queue", "start", "convert", "loop"} =>
       (pixelformat \in support_fmts => delivers = pixelformat)
  /\ ConverterFitsCamera

LEMMA CameraSetupInvAlways == Spec => []CameraSetupInv
<1> USE CameraSetupAssumption
<1>1. Init => CameraSetupInv
  BY DEF Init, CameraSetupInit, CameraSetupInv, CameraSetupTypeOK, CameraKeptWhole,
         ConverterFitsCamera, support_fmts, Indeterminate, Formats
<1>2. CameraSetupInv /\ [Next]_vars => CameraSetupInv'
  <2> SUFFICES ASSUME CameraSetupInv, [Next]_vars PROVE CameraSetupInv'
    OBVIOUS
  <2> USE DEF CameraSetupInv, CameraSetupTypeOK, CameraKeptWhole, ConverterFitsCamera
  <2>1. CASE UNCHANGED cameraSetup
    BY <2>1 DEF cameraSetup
  <2> SUFFICES ASSUME CameraSetupStep PROVE CameraSetupInv'
    BY <2>1 DEF Next, Picture, Settled, vars
  <2>2. CASE OpenFails \/ OpenVideo
    BY <2>2 DEF OpenFails, OpenVideo
  <2>3. CASE ErrExit
    BY <2>3 DEF ErrExit
  <2>4. CASE QueryCap \/ EnumEnds
    BY <2>4 DEF QueryCap, EnumEnds
  <2>5. CASE \E format \in Formats : EnumFormat(format)
    BY <2>5 DEF EnumFormat, support_fmts
  <2>6. CASE SetFormat
    BY <2>6 DEF SetFormat, support_fmts, Formats
  <2>7. CASE RequestBuffers
    BY <2>7 DEF RequestBuffers
  <2>8. CASE MapBuffer
    BY <2>8 DEF MapBuffer
  <2>9. CASE QueueBuffer
    BY <2>9 DEF QueueBuffer
  <2>10. CASE StartFails \/ StartStreaming
    BY <2>10 DEF StartFails, StartStreaming
  <2>11. CASE FindConverter
    <3> DEFINE found == get_convert_formats(convert_init, pixelformat, "JPEG")
    <3>1. found # NULL => pixelformat = "YUYV"
      <4>1. found # NULL => /\ found \in {"yuyv2jpg", "yuyv2rgb", "mjpeg2rgb"}
                            /\ <<pixelformat, "JPEG">> \in is_support(found)
        BY Found
      <4> HIDE DEF found
      <4>2. QED
        BY <4>1 DEF is_support, Rgb
    <3>2. setup' = "loop" => delivers' = "YUYV" /\ pixelformat' = "YUYV"
      BY <2>11, <3>1 DEF FindConverter, support_fmts
    <3>3. <<"YUYV", "JPEG">> \in is_support("yuyv2jpg")
      BY DEF is_support
    <3>4. QED
      BY <2>11, <3>2, <3>3 DEF FindConverter
  <2>12. QED
    BY <2>2, <2>3, <2>4, <2>5, <2>6, <2>7, <2>8, <2>9, <2>10, <2>11 DEF CameraSetupStep
<1>3. QED
  BY <1>1, <1>2, PTL DEF Spec

\* Photos are made by the converter for the format the camera was set to.
THEOREM ConverterFitsCameraAlways == Spec => []ConverterFitsCamera
<1>1. CameraSetupInv => ConverterFitsCamera
  BY DEF CameraSetupInv
<1>2. QED
  BY <1>1, CameraSetupInvAlways, PTL

\* v4l2_init does everything or closes the camera, however many buffers the
\* driver has and wherever it fails.
THEOREM CameraKeptWholeAlways == Spec => []CameraKeptWhole
<1>1. CameraSetupInv => CameraKeptWhole
  BY DEF CameraSetupInv
<1>2. QED
  BY <1>1, CameraSetupInvAlways, PTL

-----------------------------------------------------------------------------
\* Every variable keeps its type: the search stays in the list of devices, and
\* no thread exists that was not asked for.
THEOREM TypeOKAlways == Spec => []TypeOK
<1> DEFINE Oprs == {"hlk-rm04", "rtl8188eus"}
           Here == /\ argument \in Arguments /\ stdin_tty \in BOOLEAN
                   /\ pc \in {"start", "init", "adc", "create", "loop"}
                   /\ outcome \in {"none", "returned", "exited", "fault"}
                   /\ list \in Seq(Oprs) /\ pos \in 1..(Len(list) + 1)
                   /\ wifi_device \in {NULL, "hlk-rm04", "rtl8188eus"}
                   /\ fd \in {"closed", "open", "raw"}
                   /\ sockfd \in {"closed", "open", "connected"}
                   /\ fd_ads1115 \in {"closed", "open"}
           Asked == /\ calls \in 0..5 /\ (pc = "create" => calls < 5)
                    /\ pc \in {"start", "init", "adc"} => calls = 0
                    /\ created \subseteq {Threads[i] : i \in 1..calls}
<1>1. Init => Here /\ Asked
  BY DEF Init, INIT_LIST_HEAD
<1>2. StartupInv /\ Here /\ [Next]_vars => Here'
  <2> SUFFICES ASSUME StartupInv, Here, [Next]_vars PROVE Here'
    OBVIOUS
  <2>1. CASE UNCHANGED mainVars
    BY <2>1 DEF mainVars, lookup, devices, threads
  <2> SUFFICES ASSUME Step, UNCHANGED <<argument, stdin_tty>> PROVE Here'
    BY <2>1 DEF Next, Settled, mainVars, vars
  <2> USE DEF lookup, devices, threads
  <2>2. CASE Usage \/ InitTtyFails \/ NoDevice \/ FirstReceive
    BY <2>2 DEF Usage, InitTtyFails, NoDevice, FirstReceive
  <2>3. CASE WifiInit
    <3>1. list' = <<"hlk-rm04", "rtl8188eus">> /\ pos' = 1
      BY <2>3, RegisteredOrder DEF WifiInit, StartupInv
    <3>2. list' \in Seq(Oprs) /\ Len(list') = 2
      BY <3>1
    <3>3. QED
      BY <2>3, <3>1, <3>2 DEF WifiInit
  <2>4. CASE Rm04OpenFails \/ Rm04NoTerminal \/ RtlNoSocket \/ RtlConnectFails
    BY <2>4 DEF Rm04OpenFails, Rm04NoTerminal, RtlNoSocket, RtlConnectFails, At, Decline
  <2>5. CASE Rm04Accepts \/ RtlConnects
    BY <2>5 DEF Rm04Accepts, RtlConnects, At, Accept
  <2>6. CASE OpenAdc \/ CreateThread
    BY <2>6 DEF OpenAdc, CreateThread
  <2>7. QED
    BY <2>2, <2>3, <2>4, <2>5, <2>6 DEF Step
<1>3. Here /\ Asked /\ [Next]_vars => Asked'
  <2> SUFFICES ASSUME Here, Asked, [Next]_vars PROVE Asked'
    OBVIOUS
  <2>1. Len(Threads) = 5
    BY DEF Threads
  <2>2. CASE CreateThread
    <3>1. calls' = calls + 1 /\ created' \subseteq created \union {Threads[calls']}
      BY <2>2 DEF CreateThread
    <3>2. 1..calls' = 1..calls \union {calls'}
      BY <3>1
    <3>3. created' \subseteq {Threads[i] : i \in 1..calls'}
      BY <3>1, <3>2
    <3>4. calls' \in 0..5 /\ (pc' = "create" => calls' < 5)
      BY <2>1, <2>2 DEF CreateThread
    <3>5. QED
      BY <2>2, <3>3, <3>4 DEF CreateThread
  <2>3. CASE UNCHANGED threads /\ (pc' \in {"start", "init"} => pc \in {"start", "init"})
             /\ (pc' = "adc" => pc \in {"start", "init", "adc"})
             /\ (pc' = "create" => pc \in {"adc", "create"})
    BY <2>3 DEF threads
  <2>4. CASE UNCHANGED mainVars
    BY <2>3, <2>4 DEF mainVars
  <2>5. CASE Step /\ ~CreateThread
    BY <2>3, <2>5
       DEF Step, Usage, WifiInit, Rm04OpenFails, Rm04NoTerminal, Rm04Accepts, InitTtyFails,
           RtlNoSocket, RtlConnectFails, RtlConnects, NoDevice, OpenAdc, FirstReceive, At,
           Accept, Decline
  <2>6. QED
    BY <2>2, <2>4, <2>5 DEF Next, Settled, vars
<1>4. Here /\ Asked /\ CameraSetupInv => TypeOK
  BY DEF TypeOK, CameraSetupInv, Threads
<1>. HIDE DEF Here, Asked
<1>5. QED
  BY <1>1, <1>2, <1>3, <1>4, StartupInvAlways, CameraSetupInvAlways, PTL DEF Spec

=============================================================================
