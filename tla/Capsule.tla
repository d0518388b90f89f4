-------------------------------- MODULE Capsule --------------------------------
(***************************************************************************)
(* The whole program after main() connected to the server: the five        *)
(* threads main() creates and main() itself, sharing the process, the      *)
(* socket and the devices, and the world around them.                      *)
(***************************************************************************)
EXTENDS ReceiveThread, PlayThread, SensorThread, SleepThread, PictureThread,
        MainLoop

vars == <<process, alsaVars, sendVars, sleepVars, socket_mutex, socket, camera,
          receiveVars, playVars, sensorVars, sleepThreadVars, cpc, mpc>>

Init ==
  /\ ProcessInit /\ SocketInit /\ CameraInit
  /\ ReceiveInit /\ PlayInit /\ SensorInit
  /\ SleepInit /\ PictureInit /\ MainInit

TypeOK ==
  /\ ProcessTypeOK /\ SocketTypeOK /\ CameraTypeOK
  /\ ReceiveTypeOK /\ PlayTypeOK /\ SensorTypeOK
  /\ SleepTypeOK /\ PictureTypeOK /\ MainTypeOK

-----------------------------------------------------------------------------
(* One step of one thread.  Each thread leaves alone what it cannot reach. *)

Receive ==
  /\ ReceiveStep
  /\ UNCHANGED <<process, sendVars, camera,
                 playVars, sensorVars, sleepThreadVars, cpc, mpc>>

Play ==
  /\ PlayStep
  /\ UNCHANGED <<sendVars, sleepVars, socket_mutex, socket, camera,
                 receiveVars, sensorVars, sleepThreadVars, cpc, mpc>>

Sensor ==
  /\ SensorStep
  /\ UNCHANGED <<alsaVars, sendVars, sleepVars, camera,
                 receiveVars, playVars, sleepThreadVars, cpc, mpc>>

Sleep ==
  /\ SleepStep
  /\ UNCHANGED <<alsaVars, sendVars, camera,
                 receiveVars, playVars, sensorVars, cpc, mpc>>

Picture ==
  /\ PictureStep
  /\ UNCHANGED <<alsaVars, sleepVars,
                 receiveVars, playVars, sensorVars, sleepThreadVars, mpc>>

Main ==
  /\ MainStep
  /\ UNCHANGED <<alsaVars, sleepVars, socket_mutex, socket, camera,
                 receiveVars, playVars, sensorVars, sleepThreadVars, cpc>>

\* The server, the sound device and the camera driver.
Server ==
  /\ ServerRead \/ ServerClose \/ \E code \in Codes : ServerSend(code)
  /\ UNCHANGED <<process, alsaVars, sendVars, sleepVars, socket_mutex, camera,
                 receiveVars, playVars, sensorVars, sleepThreadVars, cpc, mpc>>

SoundDevice ==
  /\ SoundFault
  /\ UNCHANGED <<process, alsaVars, sendVars, sleepVars, socket_mutex, socket, camera,
                 receiveVars, sensorVars, sleepThreadVars, cpc, mpc>>

CameraDriver ==
  /\ CameraFill
  /\ UNCHANGED <<process, alsaVars, sendVars, sleepVars, socket_mutex, socket,
                 receiveVars, playVars, sensorVars, sleepThreadVars, cpc, mpc>>

Step == Receive \/ Play \/ Sensor \/ Sleep \/ Picture \/ Main
        \/ Server \/ SoundDevice \/ CameraDriver

\* exit(), SIGPIPE or a fault ended the process.
Exited == ~alive /\ UNCHANGED vars

Next ==
  \/ alive /\ Step
  \/ Exited

Spec == Init /\ [][Next]_vars

One(b) == IF b THEN 1 ELSE 0

-----------------------------------------------------------------------------
(* Mutexes.                                                                *)

\* A mutex is owned exactly by the thread that is inside the region it
\* guards: no path of main.c leaves a region without the unlock, unlocks
\* twice, or enters without the lock.
LockDiscipline ==
  /\ socket_mutex = "receive" <=> rpc = "recv"
  /\ socket_mutex = "sensor"  <=> spc = "send"
  /\ socket_mutex = "sleep"   <=> zpc = "send"
  /\ socket_mutex = "picture" <=> cpc = "send"
  /\ socket_mutex \notin {"play", "main"}
  /\ alsa_mutex = "receive" <=> rpc = "signal"
  /\ alsa_mutex = "play"    <=> ppc \in {"wait", "read"}
  /\ alsa_mutex \in {"receive", "play", Free}
  /\ send_mutex = "main"    <=> mpc = "signal"
  /\ send_mutex = "picture" <=> cpc \in {"wait", "woken"}
  /\ send_mutex \in {"main", "picture", Free}
  /\ sleep_mutex = "receive" <=> rpc = "set"
  /\ sleep_mutex = "sleep"   <=> zpc = "check"
  /\ sleep_mutex \in {"receive", "sleep", Free}

UsingSocket(thread) ==
  \/ thread = "receive" /\ rpc = "recv"
  \/ thread = "sensor"  /\ spc = "send"
  \/ thread = "sleep"   /\ zpc = "send"
  \/ thread = "picture" /\ cpc = "send"

\* Two threads are never inside wifi_device->send or ->receive together, so
\* the bytes of a frame, of a burst or of a photo are never interleaved.
SocketExclusive ==
  \A t1, t2 \in Threads : UsingSocket(t1) /\ UsingSocket(t2) => t1 = t2

AboutToLock(thread) ==
  \/ thread = "receive" /\ rpc \in {"lock", "post", "arm"}
  \/ thread = "play"    /\ ppc \in {"lock", "waiting"}
  \/ thread = "sensor"  /\ spc = "lock"
  \/ thread = "sleep"   /\ zpc \in {"lock", "slock"}
  \/ thread = "picture" /\ cpc \in {"lock", "waiting", "slock"}
  \/ thread = "main"    /\ mpc = "lock"

\* A thread that waits for a mutex holds none, so the threads of main.c can
\* never wait for each other in a circle.
NoHoldAndWait ==
  \A t \in Threads :
    AboutToLock(t) => t \notin {socket_mutex, alsa_mutex, send_mutex, sleep_mutex}

\* The four frames of a sensor burst follow each other on the wire: while
\* sensor_send_thread is between its first and its last write no other
\* thread writes to the socket.
BurstUninterrupted ==
  [][spc = "send" /\ room' < room => burst' = burst - 1]_vars

\* The socket as Line has it: a turn lasts as long as socket_mutex is held.
TheLine == INSTANCE Line WITH
  Users   <- {"receive", "sensor", "sleep", "picture"},
  Talkers <- {"sensor", "sleep", "picture"},
  Pieces  <- [receive |-> 1, sensor |-> Burst, sleep |-> 1, picture |-> 1],
  Room    <- SendRoom,
  inside  <- {thread \in Threads : UsingSocket(thread)},
  left    <- IF spc = "send" THEN burst
             ELSE One(\E thread \in Threads : UsingSocket(thread)),
  unread  <- Available,
  up      <- alive

\* The threads that share the socket implement that line: every burst of
\* the sensor thread reaches the server as its four frames in one piece,
\* nobody reads or writes in between, and no frame is read by two threads.
ImplementsLine == TheLine!Spec

\* Each value, gas, humidity or temperature, fills its field: a frame never
\* runs over the 18 bytes of send_voltage, and all frames are of one length.
FrameFits == spc \in {"lock", "send"} => send_voltage = 18

-----------------------------------------------------------------------------
(* The gate.                                                               *)

\* The relay is on only while play_thread serves a command 5, between its
\* two relay_contrl calls: while the thread waits for the next command, or
\* plays another sound, the gate is locked.
GateOpenOnlyWhileWelcoming ==
  relay = "on" => choice = 5 /\ ppc \in {"fopen", "pcm_open", "play", "close"}

\* The gate as Gate has it: the keeper is play_thread, which hears a command
\* while it is blocked in pthread_cond_wait, is called by the signal until it
\* has read the command, and serves it until it locks alsa_mutex again.
TheGate == INSTANCE Gate WITH
  Commands  <- {5, 6, 7, 8},
  Opening   <- 5,
  NoCommand <- 0,
  Repeats   <- SpuriousWakeups,
  last   <- choice_play,
  keeper <- CASE ppc = "waiting" /\ "play" \in alsa_con_var -> "listening"
              [] ppc = "waiting" /\ "play" \notin alsa_con_var -> "called"
              [] ppc = "read" -> "called"
              [] OTHER -> "deaf",
  hand <- IF ppc \in {"switch", "fopen", "pcm_open", "play", "close"}
          THEN choice ELSE 0,
  door <- IF relay = "on" THEN "open" ELSE "locked",
  up   <- alive

\* The threads, mutexes and devices of main.c implement that gate: no
\* interleaving loses a command that is posted while play_thread waits,
\* serves a command twice (but for a wake-up without a signal), serves one
\* that was replaced, opens the door outside a command 5, leaves it open
\* after one, or passes over one that play_thread has read.
ImplementsGate == TheGate!Spec

-----------------------------------------------------------------------------
(* Descriptors.                                                            *)

PlayFds == One(ppc \notin {"open", "returned"}) + One(ppc = "pcm_open")
           + 2 * One(ppc = "play")

\* Without the distance sensor no descriptor is lost: what is in use is the
\* relay, the sound file and device while a sound plays, and one device for
\* each of the other threads.
OnlyDistanceLeaks ==
  "hc04" \notin Devices =>
    fds <= PlayFds + One(spc \in {"lock", "send"})
                   + One(zpc \notin {"open", "returned"}) + One(cpc # "open")

\* The relay and the two descriptors of a sound, and one device for each of
\* the three other threads that open one.
MostFds == 3 * One("relay" \in Devices) + One("dht11" \in Devices)
           + One("mpu6050" \in Devices) + One("video0" \in Devices)

\* Where the process may have one descriptor more, and has no distance sensor,
\* there is one for photo.jpg however long the threads have run: the fopen
\* that nobody looks at succeeds, and the fwrite after it does not fault.
PhotoFileOpens ==
  "hc04" \notin Devices /\ MostFds < FdLimit /\ cpc = "save" => fds < FdLimit

\* A thread is past its open only if its device is there.
DevicesThere ==
  /\ ppc \notin {"open", "returned"} => "relay" \in Devices
  /\ spc \in {"lock", "send"} => "dht11" \in Devices
  /\ zpc \notin {"open", "returned"} => "mpu6050" \in Devices
  /\ cpc \notin {"open", "returned"} => "video0" \in Devices

\* TypeOK made inductive: play_thread closes only what it opened, a command
\* that is posted has a value for choice_play, a burst in progress has frames
\* left, and the buffer that is used, sent and queued again is really held.
TypeInv ==
  /\ TypeOK
  /\ PlayFds <= fds
  /\ rpc \in {"post", "signal"} => rcv_buf.code \in PlayCodes
  /\ spc = "send" => burst > 0
  /\ cpc \in {"save", "slock", "send", "put"} => held # None

-----------------------------------------------------------------------------
(* The camera.                                                             *)

\* Once streaming, each of the NBuf buffers is in exactly one place: queued
\* for the driver, filled, or held by the thread.  The driver therefore
\* never writes to the buffer a photo is being made from.
BuffersConserved ==
  streaming =>
    LET places == queue \o done \o (IF held = None THEN <<>> ELSE <<held>>)
    IN  /\ Len(places) = NBuf
        /\ \A i, j \in DOMAIN places : places[i] = places[j] => i = j

-----------------------------------------------------------------------------
(* Liveness.  Fairness: a thread that can run does, a sound device that    *)
(* keeps recovering eventually takes a period, the server keeps reading    *)
(* and the camera keeps capturing.  Nothing has to fail.  A mutex is       *)
(* promised to nobody: a thread that waits for one gets it if it stays     *)
(* free, and may wait for ever if others always take it first.             *)

Fairness ==
  /\ WF_vars(alive /\ Receive)
  /\ WF_vars(alive /\ Play)
  /\ SF_vars(alive /\ Play /\ SoundWrite)
  /\ WF_vars(alive /\ Sensor)
  /\ WF_vars(alive /\ Sleep)
  /\ WF_vars(alive /\ Picture /\ cpc' # "returned")
  /\ WF_vars(alive /\ Main)
  /\ WF_vars(alive /\ Server /\ ServerRead)
  /\ WF_vars(alive /\ CameraDriver)

FairSpec == Spec /\ Fairness

\* An opened gate is locked again, unless the process ends or the sound
\* device dies while the greeting plays (then it stays open).
GateRecloses == relay = "on" ~> relay = "off" \/ ~alive \/ pcm = "dead"

\* A command 5 that wakes play_thread opens the gate, unless a later command
\* replaces it first.
WokenUnlockOpens ==
  (ppc = "waiting" /\ "play" \notin alsa_con_var /\ choice_play = 5)
    ~> (relay = "on" \/ choice_play # 5 \/ ~alive)

\* Others keep taking the socket and giving it back.
SocketTaken(thread) ==
  /\ []<>(socket_mutex \notin {thread, Free})
  /\ []<>(socket_mutex = Free)

\* An alert that sleep_detection_thread has decided on is written to the
\* socket, unless others take the socket again and again before it: nobody
\* keeps it, and nothing else can stop the thread.
AlertOnlyStarved ==
  <>[](alive /\ zpc \in {"read", "slock", "send"}) =>
    <>[](zpc = "slock") /\ SocketTaken("sleep")

\* A picture thread that was woken sends its photo and waits again, or gives
\* up on its camera, with the same exception: it is never left without a
\* buffer, and no failure of another thread keeps the socket from it.
PhotoOnlyStarved ==
  <>[](alive /\ cpc \in {"woken", "get", "save", "slock", "send", "put"}) =>
    <>[](cpc = "slock") /\ SocketTaken("picture")

-----------------------------------------------------------------------------
(* What a comment of main.c promises and the code does not do.             *)

\* "run once a second" (main.c:312): the distance is measured for ever.
SensesForever == []<>(mpc = "read")

=============================================================================
