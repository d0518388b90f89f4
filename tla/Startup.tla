-------------------------------- MODULE Startup --------------------------------
(***************************************************************************)
(* main() up to its threads: wifi_init registers the two wifi devices,     *)
(* wifi_device_init gives each the program's argument until one accepts    *)
(* it, and five threads are created one after the other, which run at      *)
(* once: the picture thread sets up its camera while main() still creates  *)
(* others.  Where this ends well with rtl8188eus, Capsule begins.          *)
(***************************************************************************)
EXTENDS CameraSetup

Arguments == {"none",       \* not exactly one argument
              "tty",        \* the path of a serial line
              "video",      \* the path of another device, as the usage text has it
              "server",     \* the address of a machine
              "nowhere"}    \* anything else

Paths == {"tty", "video"}

\* In the order of their creation.
Threads == <<"picture", "sensor", "receive", "play", "sleep">>

VARIABLES
  argument,           \* argv
  stdin_tty,          \* is standard input a terminal?
  pc,                 \* where main() is
  outcome,            \* what became of the process
  list, pos,          \* the registered wifi_opr, and the one being tried
  wifi_device,
  fd,                 \* the serial line of HLK-RM04.c
  sockfd,             \* the socket of rtl8188eus.c
  fd_ads1115,
  calls,              \* calls of pthread_create
  created             \* the threads that exist

devices == <<fd, sockfd>>
lookup  == <<list, pos, wifi_device>>
threads == <<calls, created>>
mainVars == <<argument, stdin_tty, pc, outcome, lookup, devices, fd_ads1115, threads>>
vars == <<mainVars, cameraSetup>>

Init ==
  /\ argument \in Arguments /\ stdin_tty \in BOOLEAN
  /\ pc = "start" /\ outcome = "none"
  /\ list = INIT_LIST_HEAD /\ pos = 1 /\ wifi_device = NULL
  /\ fd = "closed" /\ sockfd = "closed" /\ fd_ads1115 = "closed"
  /\ calls = 0 /\ created = {}
  /\ CameraSetupInit

TypeOK ==
  /\ CameraSetupTypeOK
  /\ argument \in Arguments /\ stdin_tty \in BOOLEAN
  /\ pc \in {"start", "init", "adc", "create", "loop"}
  /\ outcome \in {"none", "returned", "exited", "fault"}
  /\ list \in Seq({"hlk-rm04", "rtl8188eus"}) 
  /\ pos \in 1..(Len(list) + 1)
  /\ wifi_device \in {NULL, "hlk-rm04", "rtl8188eus"}
  /\ fd \in {"closed", "open", "raw"}
  /\ sockfd \in {"closed", "open", "connected"}
  /\ fd_ads1115 \in {"closed", "open"}
  /\ calls \in 0..Len(Threads)
  /\ created \subseteq {Threads[i] : i \in 1..calls}

-----------------------------------------------------------------------------
Usage ==
  /\ pc = "start" /\ argument = "none"
  /\ outcome' = "returned"
  /\ UNCHANGED <<pc, lookup, devices, fd_ads1115, threads>>

\* Mutant: the devices are kept in the order they were registered in.
WifiInitInOrder ==
  /\ pc = "start" /\ argument # "none"
  /\ list' = <<"rtl8188eus", "hlk-rm04">>
  /\ pc' = "init"
  /\ UNCHANGED <<outcome, pos, wifi_device, devices, fd_ads1115, threads>>

\* wifi_init: rtl8188eus_register, then rm04_register.
WifiInit ==
  /\ pc = "start" /\ argument # "none"
  /\ list' = list_add("hlk-rm04", list_add("rtl8188eus", INIT_LIST_HEAD))
  /\ pc' = "init"
  /\ UNCHANGED <<outcome, pos, wifi_device, devices, fd_ads1115, threads>>

-----------------------------------------------------------------------------
(* wifi_device_init: pos->init(name) for one entry after the other.        *)

At(opr) == pc = "init" /\ pos <= Len(list) /\ list[pos] = opr

Accept ==
  /\ wifi_device' = list[pos]
  /\ pc' = "adc"
  /\ UNCHANGED <<outcome, list, pos, fd_ads1115, threads>>

Decline ==
  /\ pos' = pos + 1
  /\ UNCHANGED <<pc, outcome, list, wifi_device, fd_ads1115, threads>>

Rm04OpenFails == At("hlk-rm04") /\ Decline /\ UNCHANGED devices

\* isatty asks about standard input, and the line stays open.
Rm04NoTerminal ==
  /\ At("hlk-rm04") /\ argument \in Paths /\ ~stdin_tty
  /\ fd' = "open"
  /\ Decline
  /\ UNCHANGED sockfd

Rm04Accepts ==
  /\ At("hlk-rm04") /\ argument = "tty" /\ stdin_tty
  /\ fd' = "raw"
  /\ Accept
  /\ UNCHANGED sockfd

\* init_tty: tcgetattr fails on anything but a terminal, and tcsetattr may
\* fail on one; both end in exit(0).
InitTtyFails ==
  /\ At("hlk-rm04") /\ argument \in Paths /\ stdin_tty
  /\ fd' = "open"
  /\ outcome' = "exited"
  /\ UNCHANGED <<pc, lookup, sockfd, fd_ads1115, threads>>

RtlNoSocket == At("rtl8188eus") /\ Decline /\ UNCHANGED devices

\* Mutant: takes a socket that is not connected for success.
RtlConnectIgnored ==
  /\ At("rtl8188eus")
  /\ sockfd' = "open"
  /\ Accept
  /\ UNCHANGED fd

RtlConnectFails ==
  /\ At("rtl8188eus")
  /\ sockfd' = "open"
  /\ Decline
  /\ UNCHANGED fd

RtlConnects ==
  /\ At("rtl8188eus") /\ argument = "server"
  /\ sockfd' = "connected"
  /\ Accept
  /\ UNCHANGED fd

\* Mutant: goes past the head of the list.
NoDeviceMissed ==
  /\ pc = "init" /\ pos > Len(list)
  /\ Decline
  /\ UNCHANGED devices

NoDevice ==
  /\ pc = "init" /\ pos > Len(list)
  /\ outcome' = "returned"
  /\ UNCHANGED <<pc, lookup, devices, fd_ads1115, threads>>

-----------------------------------------------------------------------------
OpenAdc ==
  /\ pc = "adc"
  /\ \/ fd_ads1115' = "open" /\ pc' = "create" /\ UNCHANGED outcome
     \/ outcome' = "returned" /\ UNCHANGED <<pc, fd_ads1115>>
  /\ UNCHANGED <<lookup, devices, threads>>

\* pthread_create; its result is not looked at.
CreateThread ==
  /\ pc = "create"
  /\ calls' = calls + 1
  /\ \/ created' = created \union {Threads[calls + 1]}
     \/ UNCHANGED created
  /\ pc' = IF calls + 1 = Len(Threads) THEN "loop" ELSE "create"
  /\ UNCHANGED <<outcome, lookup, devices, fd_ads1115>>

\* The wifi_opr that have a receive; hlk_rm04_device_opr leaves it NULL.
HasReceive == {"rtl8188eus"}

\* receive_thread calls wifi_device->receive as soon as it runs.
FirstReceive ==
  /\ "receive" \in created /\ wifi_device \notin HasReceive
  /\ outcome' = "fault"
  /\ UNCHANGED <<pc, lookup, devices, fd_ads1115, threads>>

Step ==
  \/ Usage \/ WifiInit
  \/ Rm04OpenFails \/ Rm04NoTerminal \/ Rm04Accepts \/ InitTtyFails
  \/ RtlNoSocket \/ RtlConnectFails \/ RtlConnects \/ NoDevice
  \/ OpenAdc \/ CreateThread \/ FirstReceive

Picture == "picture" \in created /\ CameraSetupStep

\* The process ended, or main() goes round its loop.
Settled == (outcome # "none" \/ pc = "loop") /\ UNCHANGED vars

Next ==
  \/ outcome = "none" /\ Step /\ UNCHANGED <<argument, stdin_tty, cameraSetup>>
  \/ outcome = "none" /\ Picture /\ UNCHANGED mainVars
  \/ Settled

Spec == Init /\ [][Next]_vars

-----------------------------------------------------------------------------
Ready(device) ==
  IF device = "hlk-rm04" THEN fd = "raw" ELSE sockfd = "connected"

\* No thread exists before the device it will send with was initialised to
\* the end and the converter that sensor_send_thread reads was opened.
ThreadsHaveDevice ==
  created # {} => /\ wifi_device # NULL /\ Ready(wifi_device)
                  /\ fd_ads1115 = "open"

\* The device that was tried first and declined has left nothing open that
\* the threads would inherit: the descriptors Capsule counts start at 0.
NoOtherLine ==
  created # {} => IF wifi_device = "hlk-rm04" THEN sockfd = "closed"
                                              ELSE fd = "closed"

\* A path like the one in the usage text never starts a thread: the serial
\* device ends the process on it, or the network cannot be reached by it.
UsageNeverStarts == argument = "video" => created = {}

\* "/dev/ttySAC1" (HLK-RM04.c:111), the argument rm04_init is written for:
\* the program runs with the device that accepts it.
AcceptedDeviceRuns == outcome # "fault"

=============================================================================
