----------------------------- MODULE CapsuleProofs -----------------------------
(***************************************************************************)
(* Proofs about the threads of main.c, for every set of devices, frames    *)
(* and bounds: the mutexes, the gate, the types of all variables, the      *)
(* socket and the descriptors.                                             *)
(***************************************************************************)
EXTENDS Capsule, SequenceTheorems, FiniteSetTheorems, TLAPS

-----------------------------------------------------------------------------
(* LockDiscipline is inductive by itself: one lemma per thread.            *)

\* receive_thread locks and unlocks socket_mutex, alsa_mutex and sleep_mutex
\* in pairs.
LEMMA ReceiveLocks ==
  ASSUME LockDiscipline, Receive
  PROVE  LockDiscipline'
<1> USE DEF LockDiscipline, Receive, Free, Lock, Unlock, socket, process, camera,
           alsaVars, sendVars, sleepVars, receiveVars, playVars, sensorVars,
           sleepThreadVars
<1>1. CASE ReceiveLock
  BY <1>1 DEF ReceiveLock
<1>2. CASE \E n \in 1..BufLen : ReceiveBytes(n)
  BY <1>2 DEF ReceiveBytes
<1>3. CASE ReceiveNothing
  BY <1>3 DEF ReceiveNothing
<1>4. CASE Dispatch
  BY <1>4 DEF Dispatch
<1>5. CASE PostLock
  BY <1>5 DEF PostLock
<1>6. CASE PostSignal
  BY <1>6 DEF PostSignal
<1>7. CASE ArmLock
  BY <1>7 DEF ArmLock
<1>8. CASE ArmSet
  BY <1>8 DEF ArmSet
<1>9. QED
  BY <1>1, <1>2, <1>3, <1>4, <1>5, <1>6, <1>7, <1>8 DEF ReceiveStep

\* play_thread only uses alsa_mutex, which pthread_cond_wait releases and
\* takes again.
LEMMA PlayLocks ==
  ASSUME LockDiscipline, Play
  PROVE  LockDiscipline'
<1> USE DEF LockDiscipline, Play, Free, Lock, Unlock, socket, process, camera,
           alsaVars, sendVars, sleepVars, receiveVars, playVars, sensorVars,
           sleepThreadVars
<1>1. CASE PlayOpen
  BY <1>1 DEF PlayOpen
<1>2. CASE PlayLock
  BY <1>2 DEF PlayLock
<1>3. CASE PlayWait
  BY <1>3 DEF PlayWait, Wait
<1>4. CASE PlayWake
  BY <1>4 DEF PlayWake
<1>5. CASE PlayRead
  BY <1>5 DEF PlayRead
<1>6. CASE PlaySwitch
  BY <1>6 DEF PlaySwitch
<1>7. CASE SoundOpen
  BY <1>7 DEF SoundOpen
<1>8. CASE SoundConfigure
  BY <1>8 DEF SoundConfigure
<1>9. CASE SoundConfigureFails
  BY <1>9 DEF SoundConfigureFails
<1>10. CASE SoundWrite
  BY <1>10 DEF SoundWrite
<1>11. CASE SoundRecover
  BY <1>11 DEF SoundRecover
<1>12. CASE SoundEnd
  BY <1>12 DEF SoundEnd
<1>13. CASE PlayClose
  BY <1>13 DEF PlayClose
<1>14. QED
  BY <1>1, <1>2, <1>3, <1>4, <1>5, <1>6, <1>7, <1>8, <1>9, <1>10, <1>11, <1>12, <1>13
  DEF PlayStep

\* sensor_send_thread holds socket_mutex for the whole burst.
LEMMA SensorLocks ==
  ASSUME LockDiscipline, Sensor
  PROVE  LockDiscipline'
<1> USE DEF LockDiscipline, Sensor, Free, Lock, Unlock, socket, process, camera,
           alsaVars, sendVars, sleepVars, receiveVars, playVars, sensorVars,
           sleepThreadVars
<1>1. CASE SensorOpen
  BY <1>1 DEF SensorOpen
<1>2. CASE SensorLock
  BY <1>2 DEF SensorLock
<1>3. CASE SensorSend
  BY <1>3 DEF SensorSend
<1>4. QED
  BY <1>1, <1>2, <1>3 DEF SensorStep

\* sleep_detection_thread unlocks sleep_mutex on both branches, and has done
\* so before it locks socket_mutex.
LEMMA SleepLocks ==
  ASSUME LockDiscipline, Sleep
  PROVE  LockDiscipline'
<1> USE DEF LockDiscipline, Sleep, Free, Lock, Unlock, socket, process, camera,
           alsaVars, sendVars, sleepVars, receiveVars, playVars, sensorVars,
           sleepThreadVars
<1>1. CASE SleepOpen
  BY <1>1 DEF SleepOpen
<1>2. CASE SleepLock
  BY <1>2 DEF SleepLock
<1>3. CASE SleepCheck
  BY <1>3 DEF SleepCheck
<1>4. CASE \E reading \in Readings : SleepRead(reading)
  BY <1>4 DEF SleepRead
<1>5. CASE SleepSendLock
  BY <1>5 DEF SleepSendLock
<1>6. CASE SleepSend
  BY <1>6 DEF SleepSend
<1>7. QED
  BY <1>1, <1>2, <1>3, <1>4, <1>5, <1>6 DEF SleepStep

\* pictuer_send_thread releases send_mutex before it takes a frame.
LEMMA PictureLocks ==
  ASSUME LockDiscipline, Picture
  PROVE  LockDiscipline'
<1> USE DEF LockDiscipline, Picture, Free, Lock, Unlock, socket, process, camera,
           alsaVars, sendVars, sleepVars, receiveVars, playVars, sensorVars,
           sleepThreadVars
<1>1. CASE PictureOpen
  BY <1>1 DEF PictureOpen
<1>2. CASE PictureOpenFails
  BY <1>2 DEF PictureOpenFails
<1>3. CASE PictureLock
  BY <1>3 DEF PictureLock
<1>4. CASE PictureWait
  BY <1>4 DEF PictureWait, Wait
<1>5. CASE PictureWake
  BY <1>5 DEF PictureWake
<1>6. CASE PictureUnlock
  BY <1>6 DEF PictureUnlock
<1>7. CASE PictureGet
  BY <1>7 DEF PictureGet
<1>8. CASE PictureCameraFails
  BY <1>8 DEF PictureCameraFails
<1>9. CASE PictureSave
  BY <1>9 DEF PictureSave
<1>10. CASE PictureSendLock
  BY <1>10 DEF PictureSendLock
<1>11. CASE PictureSend
  BY <1>11 DEF PictureSend
<1>12. CASE PicturePut
  BY <1>12 DEF PicturePut
<1>13. QED
  BY <1>1, <1>2, <1>3, <1>4, <1>5, <1>6, <1>7, <1>8, <1>9, <1>10, <1>11, <1>12
  DEF PictureStep

\* hc_04_distance locks send_mutex around its signal.
LEMMA MainLocks ==
  ASSUME LockDiscipline, Main
  PROVE  LockDiscipline'
<1> USE DEF LockDiscipline, Main, Free, Lock, Unlock, socket, process, camera,
           alsaVars, sendVars, sleepVars, receiveVars, playVars, sensorVars,
           sleepThreadVars
<1>1. CASE MainOpen
  BY <1>1 DEF MainOpen
<1>2. CASE MainOpenFails
  BY <1>2 DEF MainOpenFails
<1>3. CASE MainRead
  BY <1>3 DEF MainRead
<1>4. CASE MainLock
  BY <1>4 DEF MainLock
<1>5. CASE MainSignal
  BY <1>5 DEF MainSignal
<1>6. QED
  BY <1>1, <1>2, <1>3, <1>4, <1>5 DEF MainStep

\* The world outside changes neither mutexes nor program counters.
LEMMA WorldLocks ==
  ASSUME LockDiscipline, Server \/ SoundDevice \/ CameraDriver
  PROVE  LockDiscipline'
BY DEF LockDiscipline, Server, SoundDevice, SoundFault, CameraDriver, process,
       alsaVars, sendVars, sleepVars, receiveVars, playVars, sensorVars,
       sleepThreadVars

\* Every mutex of main.c is owned exactly by the thread that is inside the
\* region it guards.
THEOREM LockDisciplineAlways == Spec => []LockDiscipline
<1>1. Init => LockDiscipline
  BY DEF Starts, Init, LockDiscipline, Free, ProcessInit, ReceiveInit, PlayInit,
         SensorInit, SleepInit, PictureInit, MainInit
<1>2. LockDiscipline /\ [Next]_vars => LockDiscipline'
  <2> SUFFICES ASSUME LockDiscipline, [Next]_vars
               PROVE  LockDiscipline'
    OBVIOUS
  <2>1. CASE Step
    BY <2>1, ReceiveLocks, PlayLocks, SensorLocks, SleepLocks, PictureLocks,
       MainLocks, WorldLocks DEF Step
  <2>2. CASE UNCHANGED vars
    BY <2>2 DEF vars, LockDiscipline, process, alsaVars, sendVars, sleepVars,
                receiveVars, playVars, sensorVars, sleepThreadVars
  <2>3. QED
    BY <2>1, <2>2 DEF Next, Exited
<1>3. QED
  BY <1>1, <1>2, PTL DEF Spec

\* No two threads are inside wifi_device->send or ->receive together.
THEOREM SocketExclusiveAlways == Spec => []SocketExclusive
<1>1. LockDiscipline => SocketExclusive
  BY DEF LockDiscipline, SocketExclusive, UsingSocket
<1>2. QED
  BY <1>1, LockDisciplineAlways, PTL

\* No thread waits for a mutex while it holds one.
THEOREM NoHoldAndWaitAlways == Spec => []NoHoldAndWait
<1>1. LockDiscipline => NoHoldAndWait
  BY DEF LockDiscipline, NoHoldAndWait, AboutToLock, Threads, Free
<1>2. QED
  BY <1>1, LockDisciplineAlways, PTL

-----------------------------------------------------------------------------
\* The relay is on only while play_thread serves a command 5: only
\* play_thread touches the relay, and every way out of the greeting but the
\* end of the process passes relay_contrl(fd_relay, 0).
THEOREM GateOpenOnlyWhileWelcomingAlways == Spec => []GateOpenOnlyWhileWelcoming
<1>1. Init => GateOpenOnlyWhileWelcoming
  BY DEF Starts, Init, PlayInit, GateOpenOnlyWhileWelcoming
<1>2. GateOpenOnlyWhileWelcoming /\ [Next]_vars => GateOpenOnlyWhileWelcoming'
  <2> SUFFICES ASSUME GateOpenOnlyWhileWelcoming, [Next]_vars
               PROVE  GateOpenOnlyWhileWelcoming'
    OBVIOUS
  <2>1. CASE Play
    <3>1. CASE PlayOpen \/ PlayLock \/ PlayWait \/ PlayWake \/ PlayRead
      BY <3>1 DEF GateOpenOnlyWhileWelcoming, PlayOpen, PlayLock, PlayWait,
                  PlayWake, PlayRead
    <3>2. CASE PlaySwitch
      BY <3>2 DEF GateOpenOnlyWhileWelcoming, PlaySwitch
    <3>3. CASE \/ SoundOpen \/ SoundConfigure \/ SoundConfigureFails
               \/ SoundWrite \/ SoundRecover \/ SoundEnd
      BY <3>3 DEF GateOpenOnlyWhileWelcoming, SoundOpen, SoundConfigure,
                  SoundConfigureFails, SoundWrite, SoundRecover, SoundEnd, playVars
    <3>4. CASE PlayClose
      BY <3>4 DEF GateOpenOnlyWhileWelcoming, PlayClose
    <3>5. QED
      BY <2>1, <3>1, <3>2, <3>3, <3>4 DEF Play, PlayStep
  <2>2. CASE SoundDevice
    BY <2>2 DEF GateOpenOnlyWhileWelcoming, SoundDevice, SoundFault
  <2>3. CASE UNCHANGED playVars
    BY <2>3 DEF GateOpenOnlyWhileWelcoming, playVars
  <2>4. QED
    BY <2>1, <2>2, <2>3 DEF Next, Exited, Step, vars, Receive, Sensor, Sleep,
       Picture, Main, Server, CameraDriver
<1>3. QED
  BY <1>1, <1>2, PTL DEF Spec

-----------------------------------------------------------------------------
(* Type correctness.                                                       *)

\* With no frame in inbound there is nothing to read.
LEMMA EmptyAvailable ==
  ASSUME taken \in Nat, inbound = <<>>
  PROVE  Available \in Int /\ Available <= 0
<1>1. Len(inbound) = 0
  OBVIOUS
<1>2. FrameLen * Len(inbound) = 0
  BY <1>1, SocketAssumption
<1>3. QED
  BY <1>2 DEF Available

\* What is left of inbound after a read of n bytes is a sequence of frames.
LEMMA TakeTypes ==
  ASSUME SocketTypeOK, NEW n \in Nat, Take(n)
  PROVE  SocketTypeOK'
<1> DEFINE from == ((taken + n) \div FrameLen) + 1
<1>1. from \in Nat /\ from >= 1 /\ (taken + n) % FrameLen \in Nat
  BY SocketAssumption DEF SocketTypeOK
<1>2. \A i \in from..Len(inbound) : inbound[i] \in Codes
  BY <1>1 DEF SocketTypeOK
<1>3. SubSeq(inbound, from, Len(inbound)) \in Seq(Codes)
  BY <1>1, <1>2, SubSeqProperties, Len(inbound) \in Int DEF SocketTypeOK
<1>4. QED
  BY <1>1, <1>3 DEF Take, SocketTypeOK

\* exit() leaves the table of descriptors as it is.
LEMMA ExitTypes ==
  ASSUME Exit
  PROVE  alive' \in BOOLEAN /\ fds' = fds
BY DEF Exit

\* A write opens and closes nothing.
LEMMA SendFds ==
  ASSUME Send
  PROVE  fds' = fds
BY DEF Send, process, Exit

\* v4l2_init queues the buffers in the order of their indices.
LEMMA StartTypes ==
  ASSUME CameraTypeOK, CameraStart
  PROVE  CameraTypeOK'
<1>1. [i \in Buffers |-> i] \in Seq(Buffers)
  BY CameraAssumption DEF Buffers
<1>2. streaming' \in BOOLEAN
  BY DEF CameraStart
<1>3. QED
  BY <1>1, <1>2 DEF CameraStart, CameraTypeOK

\* A write takes one place in the send buffer, or ends the process.
LEMMA SendTypes ==
  ASSUME room \in 0..SendRoom, alive \in BOOLEAN, Send
  PROVE  room' \in 0..SendRoom /\ alive' \in BOOLEAN /\ fds' = fds
<1>1. CASE Exit /\ UNCHANGED room
  BY <1>1, ExitTypes
<1>2. CASE UNCHANGED <<room, process>>
  BY <1>2 DEF process
<1>3. CASE room > 0 /\ room' = room - 1 /\ UNCHANGED process
  BY <1>3, SocketAssumption DEF process
<1>4. QED
  BY <1>1, <1>2, <1>3 DEF Send

-----------------------------------------------------------------------------
(* TypeInv is preserved: one lemma per thread.                             *)

\* receive_thread: the parsed code is one the server may send, and only a
\* code with a value for choice_play is posted.
LEMMA ReceiveTypes ==
  ASSUME TypeInv, Receive
  PROVE  TypeInv'
<1> USE ProcessAssumption, SocketAssumption, PlayAssumption, CameraAssumption
<1> USE DEF TypeInv, TypeOK, ProcessTypeOK, SocketTypeOK, CameraTypeOK,
           ReceiveTypeOK, PlayTypeOK, SensorTypeOK, SleepTypeOK, PictureTypeOK,
           MainTypeOK, PlayFds, One, Receive, ReceivePcs, socket, process, camera,
           alsaVars, sendVars, sleepVars, receiveVars, playVars, sensorVars,
           sleepThreadVars, Threads, Free, Lock, Unlock
<1>1. CASE ReceiveLock
  BY <1>1 DEF ReceiveLock, Cleared
<1>2. CASE \E n \in 1..BufLen : ReceiveBytes(n)
  <2>1. PICK n \in 1..BufLen : ReceiveBytes(n)
    BY <1>2
  <2>2. rcv_buf' \in [aa : BOOLEAN, code : Codes \union {NoCode}]
    <3>1. inbound # <<>>
      BY <2>1, EmptyAvailable DEF ReceiveBytes
    <3>2. Head(inbound) \in Codes
      BY <3>1, HeadTailProperties
    <3>3. QED
      BY <2>1, <3>2 DEF ReceiveBytes, Parsed
  <2>3. SocketTypeOK'
    BY <2>1, TakeTypes DEF ReceiveBytes
  <2>4. QED
    BY <2>1, <2>2, <2>3 DEF ReceiveBytes
<1>3. CASE ReceiveNothing
  BY <1>3 DEF ReceiveNothing
<1>4. CASE Dispatch
  BY <1>4 DEF Dispatch
<1>5. CASE PostLock
  BY <1>5 DEF PostLock
<1>6. CASE PostSignal
  <2>1. alsa_con_var' \subseteq {"play"}
    BY <1>6 DEF PostSignal, Signal, Leave
  <2>2. choice_play' \in {0, 5, 6, 7, 8}
    BY <1>6 DEF PostSignal, ChoiceOf, PlayCodes
  <2>3. QED
    BY <1>6, <2>1, <2>2 DEF PostSignal
<1>7. CASE ArmLock
  BY <1>7 DEF ArmLock
<1>8. CASE ArmSet
  BY <1>8 DEF ArmSet
<1>9. QED
  BY <1>1, <1>2, <1>3, <1>4, <1>5, <1>6, <1>7, <1>8 DEF ReceiveStep

\* play_thread: its own descriptors are in use as long as it counts on them.
LEMMA PlayTypes ==
  ASSUME TypeInv, Play
  PROVE  TypeInv'
<1> USE ProcessAssumption, SocketAssumption, PlayAssumption, CameraAssumption
<1> USE DEF TypeInv, TypeOK, ProcessTypeOK, SocketTypeOK, CameraTypeOK,
           ReceiveTypeOK, PlayTypeOK, SensorTypeOK, SleepTypeOK, PictureTypeOK,
           MainTypeOK, PlayFds, One, Play, PlayPcs, socket, process, camera,
           alsaVars, sendVars, sleepVars, receiveVars, playVars, sensorVars,
           sleepThreadVars, Threads, Free, Lock, Unlock
<1>1. CASE PlayOpen
  BY <1>1 DEF PlayOpen, Opened, CanOpen
<1>2. CASE PlayLock
  BY <1>2 DEF PlayLock
<1>3. CASE PlayWait
  BY <1>3 DEF PlayWait, Wait
<1>4. CASE PlayWake
  BY <1>4 DEF PlayWake, Leave
<1>5. CASE PlayRead
  BY <1>5 DEF PlayRead
<1>6. CASE PlaySwitch
  BY <1>6 DEF PlaySwitch
<1>7. CASE SoundOpen
  BY <1>7, ExitTypes DEF SoundOpen, Opened
<1>8. CASE SoundConfigure
  BY <1>8 DEF SoundConfigure, Opened
<1>9. CASE SoundConfigureFails
  BY <1>9, ExitTypes DEF SoundConfigureFails
<1>10. CASE SoundWrite
  BY <1>10 DEF SoundWrite
<1>11. CASE SoundRecover
  BY <1>11 DEF SoundRecover
<1>12. CASE SoundEnd
  BY <1>12 DEF SoundEnd
<1>13. CASE PlayClose
  BY <1>13 DEF PlayClose
<1>14. QED
  BY <1>1, <1>2, <1>3, <1>4, <1>5, <1>6, <1>7, <1>8, <1>9, <1>10, <1>11, <1>12, <1>13
  DEF PlayStep

\* A number below a thousand has at most three digits.
LEMMA DigitsBounds ==
  ASSUME NEW n \in 0..999
  PROVE  Digits(n) \in 1..3
<1> DEFINE Below == {power \in Powers : power <= n}
<1>1. IsFiniteSet({10, 100}) /\ Cardinality({10, 100}) = 2
  <2>1. IsFiniteSet({10}) /\ Cardinality({10}) = 1
    BY FS_Singleton
  <2>2. {10, 100} = {10} \union {100} /\ 100 \notin {10}
    OBVIOUS
  <2>3. QED
    BY <2>1, <2>2, FS_AddElement
<1>2. Below \subseteq {10, 100}
  BY DEF Powers
<1>3. Cardinality(Below) \in 0..2
  <2>1. IsFiniteSet(Below) /\ Cardinality(Below) <= 2
    BY <1>1, <1>2, FS_Subset
  <2>2. Cardinality(Below) \in Nat
    BY <2>1, FS_CardinalityType
  <2>3. QED
    BY <2>1, <2>2
<1>4. QED
  BY <1>3 DEF Digits

\* The values of all four sensors fit a field of four characters.
LEMMA FrameSizes == GasFrames = {18} /\ ClimateFrames = {18}
<1>1. ASSUME NEW value \in Char PROVE Size(value) = 18
  <2>1. CASE value < 0
    <3>1. -value \in 0..999
      BY <2>1 DEF Char
    <3>2. Digits(-value) \in 1..3
      BY <3>1, DigitsBounds
    <3>3. QED
      BY <2>1, <3>2 DEF Size, FieldWidth
  <2>2. CASE ~(value < 0)
    <3>1. value \in 0..999
      BY <2>2 DEF Char
    <3>2. Digits(value) \in 1..3
      BY <3>1, DigitsBounds
    <3>3. QED
      BY <2>2, <3>2 DEF Size, FieldWidth
  <2>3. QED
    BY <2>1, <2>2
<1>2. AdcByte \subseteq Char /\ 0 \in AdcByte
  BY DEF AdcByte, Char
<1>3. QED
  BY <1>1, <1>2 DEF GasFrames, ClimateFrames

\* sensor_send_thread: a burst is never longer than its four frames.
LEMMA SensorTypes ==
  ASSUME TypeInv, Sensor
  PROVE  TypeInv'
<1> USE ProcessAssumption, SocketAssumption, PlayAssumption, CameraAssumption
<1> USE DEF TypeInv, TypeOK, ProcessTypeOK, SocketTypeOK, CameraTypeOK,
           ReceiveTypeOK, PlayTypeOK, SensorTypeOK, SleepTypeOK, PictureTypeOK,
           MainTypeOK, PlayFds, One, Sensor, socket, process, camera,
           alsaVars, sendVars, sleepVars, receiveVars, playVars, sensorVars,
           sleepThreadVars, Threads, Free, Lock, Unlock
<1>1. CASE SensorOpen
  BY <1>1, FrameSizes DEF SensorOpen, Opened, CanOpen, Format
<1>2. CASE SensorLock
  BY <1>2 DEF SensorLock, Burst
<1>3. CASE SensorSend
  BY <1>3, SendTypes, FrameSizes DEF SensorSend, Burst, Format
<1>4. QED
  BY <1>1, <1>2, <1>3 DEF SensorStep

\* sleep_detection_thread.
LEMMA SleepTypes ==
  ASSUME TypeInv, Sleep
  PROVE  TypeInv'
<1> USE ProcessAssumption, SocketAssumption, PlayAssumption, CameraAssumption
<1> USE DEF TypeInv, TypeOK, ProcessTypeOK, SocketTypeOK, CameraTypeOK,
           ReceiveTypeOK, PlayTypeOK, SensorTypeOK, SleepTypeOK, PictureTypeOK,
           MainTypeOK, PlayFds, One, Sleep, socket, process, camera,
           alsaVars, sendVars, sleepVars, receiveVars, playVars, sensorVars,
           sleepThreadVars, Threads, Free, Lock, Unlock
<1>1. CASE SleepOpen
  BY <1>1 DEF SleepOpen, Opened, CanOpen
<1>2. CASE SleepLock
  BY <1>2 DEF SleepLock
<1>3. CASE SleepCheck
  BY <1>3 DEF SleepCheck
<1>4. CASE \E reading \in Readings : SleepRead(reading)
  BY <1>4 DEF SleepRead
<1>5. CASE SleepSendLock
  BY <1>5 DEF SleepSendLock
<1>6. CASE SleepSend
  BY <1>6, SendTypes DEF SleepSend
<1>7. QED
  BY <1>1, <1>2, <1>3, <1>4, <1>5, <1>6 DEF SleepStep

\* pictuer_send_thread: it gives back only a buffer it has.
LEMMA PictureTypes ==
  ASSUME TypeInv, Picture
  PROVE  TypeInv'
<1> USE ProcessAssumption, SocketAssumption, PlayAssumption, CameraAssumption
<1> USE DEF TypeInv, TypeOK, ProcessTypeOK, SocketTypeOK, CameraTypeOK,
           ReceiveTypeOK, PlayTypeOK, SensorTypeOK, SleepTypeOK, PictureTypeOK,
           MainTypeOK, PlayFds, One, Picture, PicturePcs, socket, process, camera,
           alsaVars, sendVars, sleepVars, receiveVars, playVars, sensorVars,
           sleepThreadVars, Threads, Free, Lock, Unlock
<1>1. CASE PictureOpen
  <2>1. CameraTypeOK' /\ held' = held
    BY <1>1, StartTypes DEF PictureOpen, CameraStart
  <2>2. QED
    BY <1>1, <2>1 DEF PictureOpen, Opened, CanOpen
<1>2. CASE PictureOpenFails
  BY <1>2 DEF PictureOpenFails
<1>3. CASE PictureLock
  BY <1>3 DEF PictureLock
<1>4. CASE PictureWait
  BY <1>4 DEF PictureWait, Wait
<1>5. CASE PictureWake
  BY <1>5 DEF PictureWake, Leave
<1>6. CASE PictureUnlock
  BY <1>6 DEF PictureUnlock
<1>7. CASE PictureGet
  BY <1>7 DEF PictureGet, CameraGet, Buffers, None
<1>8. CASE PictureCameraFails
  BY <1>8 DEF PictureCameraFails
<1>9. CASE PictureSave
  BY <1>9, ExitTypes DEF PictureSave
<1>10. CASE PictureSendLock
  BY <1>10 DEF PictureSendLock
<1>11. CASE PictureSend
  BY <1>11, SendTypes DEF PictureSend
<1>12. CASE PicturePut
  BY <1>12 DEF PicturePut, CameraPut
<1>13. QED
  BY <1>1, <1>2, <1>3, <1>4, <1>5, <1>6, <1>7, <1>8, <1>9, <1>10, <1>11, <1>12
  DEF PictureStep

\* main().
LEMMA MainTypes ==
  ASSUME TypeInv, Main
  PROVE  TypeInv'
<1> USE ProcessAssumption, SocketAssumption, PlayAssumption, CameraAssumption
<1> USE DEF TypeInv, TypeOK, ProcessTypeOK, SocketTypeOK, CameraTypeOK,
           ReceiveTypeOK, PlayTypeOK, SensorTypeOK, SleepTypeOK, PictureTypeOK,
           MainTypeOK, PlayFds, One, Main, socket, process, camera,
           alsaVars, sendVars, sleepVars, receiveVars, playVars, sensorVars,
           sleepThreadVars, Threads, Free, Lock, Unlock
<1>1. CASE MainOpen
  BY <1>1 DEF MainOpen, Opened
<1>2. CASE MainOpenFails
  BY <1>2 DEF MainOpenFails
<1>3. CASE MainRead
  BY <1>3 DEF MainRead
<1>4. CASE MainLock
  BY <1>4 DEF MainLock
<1>5. CASE MainSignal
  <2>1. send_con_var' \subseteq {"picture"}
    BY <1>5 DEF MainSignal, Signal, Leave
  <2>2. QED
    BY <1>5, <2>1 DEF MainSignal
<1>6. QED
  BY <1>1, <1>2, <1>3, <1>4, <1>5 DEF MainStep

\* The server, the sound device and the camera driver.
LEMMA WorldTypes ==
  ASSUME TypeInv, Server \/ SoundDevice \/ CameraDriver
  PROVE  TypeInv'
<1> USE ProcessAssumption, SocketAssumption, PlayAssumption, CameraAssumption
<1> USE DEF TypeInv, TypeOK, ProcessTypeOK, SocketTypeOK, CameraTypeOK,
           ReceiveTypeOK, PlayTypeOK, SensorTypeOK, SleepTypeOK, PictureTypeOK,
           MainTypeOK, PlayFds, One, ServerSend, ServerRead, ServerClose, socket, process, camera,
           alsaVars, sendVars, sleepVars, receiveVars, playVars, sensorVars,
           sleepThreadVars, Threads, Free, Lock, Unlock
<1>1. CASE Server
  <2>1. CASE ServerRead \/ ServerClose
    BY <1>1, <2>1 DEF Server
  <2>2. CASE \E code \in Codes : ServerSend(code)
    BY <1>1, <2>2 DEF Server
  <2>3. QED
    BY <1>1, <2>1, <2>2 DEF Server
<1>2. CASE SoundDevice
  BY <1>2 DEF SoundDevice, SoundFault
<1>3. CASE CameraDriver
  BY <1>3 DEF CameraDriver, CameraFill
<1>4. QED
  BY <1>1, <1>2, <1>3

\* Initially everything is free, closed and empty.
LEMMA InitTypes == Init => TypeInv
<1> SUFFICES ASSUME Init PROVE TypeInv
  OBVIOUS
<1> USE DEF Init
<1>1. ProcessTypeOK
  <2>1. alive \in BOOLEAN
    BY DEF ProcessInit
  <2>2. QED
    BY <2>1, ProcessAssumption DEF ProcessInit, ProcessTypeOK, Threads, Free
<1>2. SocketTypeOK
  BY SocketAssumption DEF SocketInit, SocketTypeOK
<1>3. CameraTypeOK
  <2>1. streaming \in BOOLEAN
    BY DEF CameraInit
  <2>2. QED
    BY <2>1 DEF CameraInit, CameraTypeOK
<1>4. ReceiveTypeOK
  <2>1. Cleared \in [aa : BOOLEAN, code : Codes \union {NoCode}]
    BY DEF Cleared
  <2>2. QED
    BY <2>1 DEF Starts, ReceiveInit, ReceiveTypeOK, ReceivePcs
<1>5. PlayTypeOK /\ PlayFds = 0
  BY PlayAssumption DEF Starts, PlayInit, PlayTypeOK, PlayPcs, PlayFds, One
<1>6. SensorTypeOK /\ SleepTypeOK /\ PictureTypeOK /\ MainTypeOK
  BY DEF Starts, SensorInit, SensorTypeOK, Burst, SleepInit, SleepTypeOK, PictureInit,
         PictureTypeOK, PicturePcs, MainInit, MainTypeOK
<1>7. QED
  BY <1>1, <1>2, <1>3, <1>4, <1>5, <1>6
  DEF Starts, TypeInv, TypeOK, ProcessInit, ReceiveInit, SensorInit, PictureInit

\* One step keeps the types, whoever makes it.
LEMMA StepTypes ==
  ASSUME TypeInv, [Next]_vars
  PROVE  TypeInv'
<1>1. CASE Step
  BY <1>1, ReceiveTypes, PlayTypes, SensorTypes, SleepTypes, PictureTypes,
     MainTypes, WorldTypes DEF Step
<1>2. CASE UNCHANGED vars
  BY <1>2
  DEF vars, TypeInv, TypeOK, ProcessTypeOK, SocketTypeOK, CameraTypeOK,
      ReceiveTypeOK, PlayTypeOK, SensorTypeOK, SleepTypeOK, PictureTypeOK,
      MainTypeOK, PlayFds, socket, process, camera, alsaVars, sendVars,
      sleepVars, receiveVars, playVars, sensorVars, sleepThreadVars
<1>3. QED
  BY <1>1, <1>2 DEF Next, Exited

\* The variables of the threads keep their types, and what TypeInv adds.
THEOREM TypeInvAlways == Spec => []TypeInv
BY InitTypes, StepTypes, PTL DEF Spec

\* Type correctness proper.
THEOREM TypeOKAlways == Spec => []TypeOK
<1>1. TypeInv => TypeOK
  BY DEF TypeInv
<1>2. QED
  BY <1>1, TypeInvAlways, PTL

-----------------------------------------------------------------------------
\* While sensor_send_thread is in a burst, a write to the socket is its own:
\* every other writer would have to own socket_mutex.
THEOREM BurstUninterruptedAlways == Spec => BurstUninterrupted
<1> DEFINE Own == spc = "send" /\ room' < room => burst' = burst - 1
<1>1. TypeInv /\ LockDiscipline /\ [Next]_vars => [Own]_vars
  <2> SUFFICES ASSUME TypeInv, LockDiscipline, Next, spc = "send", room' < room
               PROVE  burst' = burst - 1
    OBVIOUS
  <2>1. room \in Nat
    BY SocketAssumption DEF TypeInv, TypeOK, SocketTypeOK
  <2>2. rpc # "recv" /\ zpc # "send" /\ cpc # "send"
    BY DEF LockDiscipline
  <2>3. room' # room
    BY <2>1
  <2>4. CASE Sensor
    BY <2>3, <2>4 DEF Sensor, SensorStep, SensorOpen, SensorLock, SensorSend, socket
  <2>5. ~Sleep
    BY <2>2, <2>3 DEF Sleep, SleepStep, SleepOpen, SleepLock, SleepCheck,
       SleepRead, SleepSendLock, SleepSend, socket
  <2>6. ~Picture
    BY <2>2, <2>3 DEF Picture, PictureStep, PictureOpen, PictureOpenFails,
       PictureLock, PictureWait, PictureWake, PictureUnlock, PictureGet,
       PictureCameraFails, PictureSave, PictureSendLock, PictureSend, PicturePut,
       socket
  <2>7. ~Receive
    BY <2>2, <2>3 DEF Receive, ReceiveStep, ReceiveLock, ReceiveBytes,
       ReceiveNothing, Dispatch, PostLock, PostSignal, ArmLock, ArmSet, socket
  <2>8. ~Server
    BY <2>1 DEF Server, ServerRead, ServerClose, ServerSend
  <2>9. QED
    BY <2>3, <2>4, <2>5, <2>6, <2>7, <2>8 DEF Next, Exited, Step, vars, socket,
       Play, Main, SoundDevice, CameraDriver
<1>2. QED
  BY <1>1, TypeInvAlways, LockDisciplineAlways, PTL DEF Spec, BurstUninterrupted

\* send_voltage is large enough, and its frames are all of one length.
THEOREM FrameFitsAlways == Spec => []FrameFits
<1>1. Init => FrameFits
  BY DEF Init, SensorInit, Starts, FrameFits
<1>2. FrameFits /\ [Next]_vars => FrameFits'
  <2> SUFFICES ASSUME FrameFits, [Next]_vars
               PROVE  FrameFits'
    OBVIOUS
  <2>1. CASE Sensor
    BY <2>1, FrameSizes DEF FrameFits, Sensor, SensorStep, SensorOpen, SensorLock,
       SensorSend, Format
  <2>2. CASE UNCHANGED sensorVars
    BY <2>2 DEF FrameFits, sensorVars
  <2>3. QED
    BY <2>1, <2>2 DEF Next, Exited, Step, vars, Receive, Play, Sleep, Picture, Main,
       Server, SoundDevice, CameraDriver
<1>3. QED
  BY <1>1, <1>2, PTL DEF Spec

\* Where there is no distance sensor no descriptor is lost.
THEOREM OnlyDistanceLeaksAlways == Spec => []OnlyDistanceLeaks
<1>1. Init => OnlyDistanceLeaks
  BY DEF Starts, Init, OnlyDistanceLeaks, ProcessInit, PlayInit, SensorInit, SleepInit,
         PictureInit, PlayFds, One
<1>2. TypeInv /\ OnlyDistanceLeaks /\ [Next]_vars => OnlyDistanceLeaks'
  <2> SUFFICES ASSUME TypeInv, OnlyDistanceLeaks, [Next]_vars, "hc04" \notin Devices
               PROVE  fds' <= PlayFds' + One(spc' \in {"lock", "send"})
                              + One(zpc' \notin {"open", "returned"})
                              + One(cpc' # "open")
    BY DEF OnlyDistanceLeaks
  <2> USE DEF OnlyDistanceLeaks, PlayFds, One
  <2>1. fds \in Nat
    BY ProcessAssumption DEF TypeInv, TypeOK, ProcessTypeOK
  <2>2. CASE Play
    BY <2>1, <2>2, ExitTypes DEF Play, PlayStep, PlayOpen, PlayLock, PlayWait, PlayWake,
       PlayRead, PlaySwitch, SoundOpen, SoundConfigure, SoundConfigureFails,
       SoundWrite, SoundRecover, SoundEnd, PlayClose, playVars, sensorVars,
       sleepThreadVars, process, Opened
  <2>3. CASE Sensor
    BY <2>1, <2>3, SendFds DEF Sensor, SensorStep, SensorOpen, SensorLock, SensorSend,
       playVars, sleepThreadVars, process, Opened
  <2>4. CASE Sleep
    BY <2>1, <2>4, SendFds DEF Sleep, SleepStep, SleepOpen, SleepLock, SleepCheck,
       SleepRead, SleepSendLock, SleepSend, playVars, sensorVars, process, Opened
  <2>5. CASE Picture
    BY <2>1, <2>5, SendFds, ExitTypes DEF Picture, PictureStep, PictureOpen,
       PictureOpenFails, PictureLock, PictureWait, PictureWake, PictureUnlock,
       PictureGet, PictureCameraFails, PictureSave, PictureSendLock, PictureSend,
       PicturePut, playVars, sensorVars, sleepThreadVars, process, Opened
  <2>6. CASE Main
    BY <2>1, <2>6 DEF Main, MainStep, MainOpen, MainOpenFails, MainRead, MainLock,
       MainSignal, CanOpen, playVars, sensorVars, sleepThreadVars, process
  <2>7. CASE UNCHANGED <<fds, ppc, spc, zpc, cpc>>
    BY <2>1, <2>7
  <2>8. QED
    BY <2>2, <2>3, <2>4, <2>5, <2>6, <2>7 DEF Next, Exited, Step, vars, Receive,
       Server, SoundDevice, SoundFault, CameraDriver, process, playVars,
       sensorVars, sleepThreadVars
<1>3. QED
  BY <1>1, <1>2, TypeInvAlways, PTL DEF Spec

\* Each thread opens its device before anything else, or returns.
LEMMA DevicesThereAlways == Spec => []DevicesThere
<1>1. Init => DevicesThere
  BY DEF Starts, Init, PlayInit, SensorInit, SleepInit, PictureInit, DevicesThere
<1>2. DevicesThere /\ [Next]_vars => DevicesThere'
  <2> SUFFICES ASSUME DevicesThere, [Next]_vars PROVE DevicesThere'
    OBVIOUS
  <2> USE DEF DevicesThere
  <2>1. CASE Play
    BY <2>1 DEF Play, PlayStep, PlayOpen, PlayLock, PlayWait, PlayWake, PlayRead,
       PlaySwitch, SoundOpen, SoundConfigure, SoundConfigureFails, SoundWrite,
       SoundRecover, SoundEnd, PlayClose, CanOpen, sensorVars, sleepThreadVars
  <2>2. CASE Sensor
    BY <2>2 DEF Sensor, SensorStep, SensorOpen, SensorLock, SensorSend, CanOpen,
       playVars, sleepThreadVars
  <2>3. CASE Sleep
    BY <2>3 DEF Sleep, SleepStep, SleepOpen, SleepLock, SleepCheck, SleepRead,
       SleepSendLock, SleepSend, CanOpen, playVars, sensorVars
  <2>4. CASE Picture
    BY <2>4 DEF Picture, PictureStep, PictureOpen, PictureOpenFails, PictureLock,
       PictureWait, PictureWake, PictureUnlock, PictureGet, PictureCameraFails,
       PictureSave, PictureSendLock, PictureSend, PicturePut, CanOpen, playVars,
       sensorVars, sleepThreadVars
  <2>5. CASE UNCHANGED <<ppc, spc, zpc, cpc>>
    BY <2>5
  <2>6. QED
    BY <2>1, <2>2, <2>3, <2>4, <2>5 DEF Next, Exited, Step, vars, Receive, Main,
       Server, SoundDevice, SoundFault, CameraDriver, playVars, sensorVars,
       sleepThreadVars
<1>3. QED
  BY <1>1, <1>2, PTL DEF Spec

\* As nothing is lost and nobody holds what he cannot have opened, there is a
\* descriptor for the file of a photo.
THEOREM PhotoFileOpensAlways == Spec => []PhotoFileOpens
<1>1. ASSUME TypeInv, OnlyDistanceLeaks, DevicesThere PROVE PhotoFileOpens
  <2> SUFFICES ASSUME "hc04" \notin Devices, MostFds < FdLimit, cpc = "save"
               PROVE  fds < FdLimit
    BY DEF PhotoFileOpens
  <2>1. fds \in Nat /\ FdLimit \in Nat
    BY <1>1, ProcessAssumption DEF TypeInv, TypeOK, ProcessTypeOK
  <2>2. fds <= PlayFds + One(spc \in {"lock", "send"})
               + One(zpc \notin {"open", "returned"}) + One(cpc # "open")
    BY <1>1 DEF OnlyDistanceLeaks
  <2>3. PlayFds \in Int /\ PlayFds <= 3 * One("relay" \in Devices)
    BY <1>1 DEF DevicesThere, PlayFds, One
  <2>4. /\ One(spc \in {"lock", "send"}) <= One("dht11" \in Devices)
        /\ One(zpc \notin {"open", "returned"}) <= One("mpu6050" \in Devices)
        /\ One(cpc # "open") <= One("video0" \in Devices)
    BY <1>1 DEF DevicesThere, One
  <2>5. fds <= MostFds
    BY <2>1, <2>2, <2>3, <2>4 DEF MostFds, One
  <2>6. QED
    BY <2>1, <2>5 DEF MostFds, One
<1>2. QED
  BY <1>1, TypeInvAlways, OnlyDistanceLeaksAlways, DevicesThereAlways, PTL

-----------------------------------------------------------------------------
(* The refinement of Line.                                                 *)

Inside == {thread \in Threads : UsingSocket(thread)}

Left == IF spc = "send" THEN burst
        ELSE One(\E thread \in Threads : UsingSocket(thread))

\* What the owner of socket_mutex says of the turn.
TurnInv ==
  /\ Inside = IF socket_mutex = Free THEN {} ELSE {socket_mutex}
  /\ Left = CASE socket_mutex = Free     -> 0
              [] socket_mutex = "sensor" -> burst
              [] OTHER                   -> 1

\* It follows from what the other invariants say of the mutex.
LEMMA TurnInvAlways == Spec => []TurnInv
<1>1. LockDiscipline /\ TypeInv => TurnInv
  <2> SUFFICES ASSUME LockDiscipline, TypeInv PROVE TurnInv
    OBVIOUS
  <2>1. socket_mutex \in Threads \union {Free}
    BY DEF TypeInv, TypeOK, ProcessTypeOK
  <2>2. \A thread \in Threads : UsingSocket(thread) <=> thread = socket_mutex
    BY DEF LockDiscipline, UsingSocket, Threads, Free
  <2>3. Free \notin Threads
    BY DEF Threads, Free
  <2>4. spc = "send" <=> socket_mutex = "sensor"
    BY DEF LockDiscipline
  <2>5. Inside = IF socket_mutex = Free THEN {} ELSE {socket_mutex}
    BY <2>1, <2>2, <2>3 DEF Inside
  <2>6. (\E thread \in Threads : UsingSocket(thread)) <=> socket_mutex # Free
    BY <2>1, <2>2, <2>3
  <2>7. Left = CASE socket_mutex = Free     -> 0
                 [] socket_mutex = "sensor" -> burst
                 [] OTHER                   -> 1
    BY <2>4, <2>6 DEF Left, One, Free
  <2>8. QED
    BY <2>5, <2>7 DEF TurnInv
<1>2. QED
  BY <1>1, LockDisciplineAlways, TypeInvAlways, PTL

\* A thread that takes the free socket_mutex begins a turn.
LEMMA LockBegins ==
  ASSUME TurnInv, TurnInv', alive, UNCHANGED <<process, socket>>,
         NEW user \in {"receive", "sensor", "sleep", "picture"},
         Lock(socket_mutex, user),
         user = "sensor" => burst' = Burst
  PROVE  TheLine!Next
<1>1. Inside = {} /\ Inside' = {user}
  BY DEF TurnInv, Lock, Free
<1>2. Left' = [receive |-> 1, sensor |-> Burst, sleep |-> 1, picture |-> 1][user]
  BY DEF TurnInv, Lock, Free
<1>3. TheLine!Begin(user)
  BY <1>1, <1>2 DEF TheLine!Begin, Inside, Left, socket, process, Available
<1>4. QED
  BY <1>3 DEF TheLine!Next

\* A write is a piece of the turn of the thread that owns socket_mutex.
LEMMA SendWrites ==
  ASSUME TypeInv, TurnInv, TurnInv', alive, Send, UNCHANGED <<inbound, taken, peer>>,
         NEW user \in {"sensor", "sleep", "picture"},
         socket_mutex = user,
         user # "sensor" => socket_mutex' = Free,
         user = "sensor" =>
           /\ burst' = burst - 1
           /\ socket_mutex' = IF burst = 1 THEN Free ELSE socket_mutex
  PROVE  TheLine!Next
<1>1. Inside = {user} /\ Left = IF user = "sensor" THEN burst ELSE 1
  BY DEF TurnInv, Free
<1>2. burst \in Nat
  BY DEF TypeInv, TypeOK, SensorTypeOK, Burst
<1>3. Left' = Left - 1 /\ Inside' = IF Left = 1 THEN {} ELSE Inside
  BY <1>1, <1>2 DEF TurnInv, Free
<1>4. TheLine!Piece(user)
  BY <1>1, <1>3 DEF TheLine!Piece, Inside, Left
<1>5. TheLine!Write(user)
  BY <1>4 DEF TheLine!Write, Send, Exit, process, Available
<1>6. QED
  BY <1>5 DEF TheLine!Next

\* A step that leaves the socket and its mutex alone is not seen, but for the
\* end of the process.
LEMMA OthersUnseen ==
  ASSUME TurnInv, TurnInv', alive, alive' \in BOOLEAN,
         UNCHANGED <<socket, socket_mutex, burst>>
  PROVE  [TheLine!Next]_(TheLine!vars)
<1>1. Inside' = Inside /\ Left' = Left
  BY DEF TurnInv
<1>2. QED
  BY <1>1 DEF Inside, Left, socket, Available, TheLine!Next, TheLine!Halt, TheLine!vars

\* Division, with the dividend put together again.
LEMMA DivisionSum ==
  ASSUME NEW p \in Nat, NEW f \in Nat, f > 0
  PROVE  p = (p \div f) * f + (p % f)
OBVIOUS

\* The quotient of naturals is one, and the remainder is small.
LEMMA DivisionTypes ==
  ASSUME NEW p \in Nat, NEW f \in Nat, f > 0
  PROVE  p \div f \in Nat /\ p % f \in 0..(f - 1)
<1>1. p \div f \in Int /\ p % f \in 0..(f - 1)
  OBVIOUS
<1>2. p \div f >= 0
  <2> SUFFICES ASSUME p \div f <= -1 PROVE FALSE
    BY <1>1
  <2>1. (p \div f) * f <= (-1) * f
    BY <1>1
  <2>2. (p \div f) * f \in Int
    BY <1>1
  <2>3. QED
    BY <1>1, <2>1, <2>2, DivisionSum
<1>3. QED
  BY <1>1, <1>2

\* No more than n pieces of size f fit into f * n.
LEMMA WholePieces ==
  ASSUME NEW f \in Nat, f > 0, NEW w \in Nat, NEW n \in Nat, w * f <= f * n
  PROVE  w <= n
<1> SUFFICES ASSUME n + 1 <= w PROVE FALSE
  OBVIOUS
<1>1. (n + 1) * f <= w * f
  OBVIOUS
<1>2. (n + 1) * f = f * n + f
  OBVIOUS
<1>3. f * n \in Int /\ w * f \in Int
  OBVIOUS
<1>4. QED
  BY <1>1, <1>2, <1>3

\* A read of n bytes leaves n fewer to be read.
LEMMA TakeConsumes ==
  ASSUME SocketTypeOK, NEW n \in Nat, n <= Available, Take(n)
  PROVE  Available' = Available - n
<1> DEFINE pos == taken + n
           whole == pos \div FrameLen
           rest == pos % FrameLen
<1>1. FrameLen \in Nat /\ FrameLen > 0 /\ taken \in Nat /\ pos \in Nat
  BY SocketAssumption DEF SocketTypeOK
<1>2. inbound \in Seq(Codes) /\ Len(inbound) \in Nat
  BY DEF SocketTypeOK
<1>3. FrameLen * Len(inbound) \in Int
  BY <1>1, <1>2
<1>4. whole \in Nat /\ rest \in 0..(FrameLen - 1) /\ pos = whole * FrameLen + rest
  BY <1>1, DivisionSum, DivisionTypes
<1>5. inbound' = SubSeq(inbound, whole + 1, Len(inbound)) /\ taken' = rest
  BY DEF Take
<1>6. pos <= FrameLen * Len(inbound)
  BY <1>1, <1>3 DEF Available
<1> HIDE DEF whole, rest
<1>7. whole * FrameLen \in Int
  BY <1>1, <1>4
<1>8. whole <= Len(inbound)
  <2>1. whole * FrameLen <= FrameLen * Len(inbound)
    BY <1>1, <1>3, <1>4, <1>6, <1>7
  <2>2. QED
    BY <1>1, <1>2, <1>4, <2>1, WholePieces
<1>9. Len(inbound') = Len(inbound) - whole
  BY <1>2, <1>4, <1>5, <1>8
<1>10. FrameLen * (Len(inbound) - whole) = FrameLen * Len(inbound) - whole * FrameLen
  BY <1>1, <1>2, <1>4
<1>11. Available' = FrameLen * Len(inbound) - whole * FrameLen - rest
  BY <1>5, <1>9, <1>10 DEF Available
<1>12. QED
  BY <1>1, <1>3, <1>4, <1>7, <1>11 DEF Available

\* receive_thread: a turn of one piece, whether there was something to read
\* or not.
LEMMA ReceiveImplementsLine ==
  ASSUME TypeInv, LockDiscipline, TurnInv, TurnInv', alive, Receive,
         alive' \in BOOLEAN
  PROVE  [TheLine!Next]_(TheLine!vars)
<1> USE DEF Receive, process, sensorVars
<1>1. CASE ReceiveLock
  BY <1>1, LockBegins DEF ReceiveLock
<1>2. CASE ReceiveNothing \/ \E n \in 1..BufLen : ReceiveBytes(n)
  <2>1. /\ socket_mutex = "receive" /\ socket_mutex' = Free
        /\ UNCHANGED <<room, peer, alive>>
    BY <1>2 DEF ReceiveNothing, ReceiveBytes, Take, LockDiscipline, Unlock, socket
  <2>2. /\ Inside = {"receive"}
        /\ Left' = Left - 1 /\ Inside' = IF Left = 1 THEN {} ELSE Inside
    BY <2>1 DEF TurnInv, Free
  <2>3. TheLine!Piece("receive")
    BY <2>2 DEF TheLine!Piece, Inside, Left
  <2>4. Available' \in 0..Available
    <3>1. CASE ReceiveNothing
      BY <3>1 DEF ReceiveNothing, Available, socket
    <3>2. CASE \E n \in 1..BufLen : ReceiveBytes(n)
      <4>1. SocketTypeOK /\ BufLen \in Nat
        BY SocketAssumption DEF TypeInv, TypeOK
      <4>2. PICK n \in 1..BufLen : n <= Available /\ Take(n)
        BY <3>2 DEF ReceiveBytes
      <4>3. Available' = Available - n
        BY <4>1, <4>2, TakeConsumes
      <4>4. Available \in Int
        BY <4>1, SocketAssumption DEF Available, SocketTypeOK
      <4>5. QED
        BY <4>1, <4>2, <4>3, <4>4
    <3>3. QED
      BY <1>2, <3>1, <3>2
  <2>5. TheLine!Read("receive")
    BY <2>1, <2>3, <2>4 DEF TheLine!Read
  <2>6. QED
    BY <2>5 DEF TheLine!Next
<1>3. CASE Dispatch \/ PostLock \/ PostSignal \/ ArmLock \/ ArmSet
  BY <1>3, OthersUnseen DEF Dispatch, PostLock, PostSignal, ArmLock, ArmSet
<1>4. QED
  BY <1>1, <1>2, <1>3 DEF ReceiveStep

\* sensor_send_thread: a turn of four pieces.
LEMMA SensorImplementsLine ==
  ASSUME TypeInv, LockDiscipline, TurnInv, TurnInv', alive, Sensor, alive' \in BOOLEAN
  PROVE  [TheLine!Next]_(TheLine!vars)
<1>1. CASE SensorOpen
  BY <1>1, OthersUnseen DEF SensorOpen
<1>2. CASE SensorLock
  BY <1>2, LockBegins DEF SensorLock
<1>3. CASE SensorSend
  <2>1. burst \in Nat /\ burst > 0
    BY <1>3 DEF SensorSend, TypeInv, TypeOK, SensorTypeOK, Burst
  <2>2. socket_mutex' = IF burst = 1 THEN Free ELSE socket_mutex
    BY <1>3, <2>1 DEF SensorSend, Unlock
  <2>3. QED
    BY <1>3, <2>2, SendWrites DEF SensorSend, LockDiscipline
<1>4. QED
  BY <1>1, <1>2, <1>3 DEF Sensor, SensorStep

\* sleep_detection_thread: a turn of one piece for an alert.
LEMMA SleepImplementsLine ==
  ASSUME TypeInv, LockDiscipline, TurnInv, TurnInv', alive, Sleep, alive' \in BOOLEAN
  PROVE  [TheLine!Next]_(TheLine!vars)
<1> USE DEF Sleep, sensorVars
<1>1. CASE \/ SleepOpen \/ SleepLock \/ SleepCheck
           \/ \E reading \in Readings : SleepRead(reading)
  BY <1>1, OthersUnseen DEF SleepOpen, SleepLock, SleepCheck, SleepRead
<1>2. CASE SleepSendLock
  BY <1>2, LockBegins DEF SleepSendLock
<1>3. CASE SleepSend
  BY <1>3, SendWrites DEF SleepSend, LockDiscipline, Unlock
<1>4. QED
  BY <1>1, <1>2, <1>3 DEF SleepStep

\* pictuer_send_thread: a turn of one piece for a photo.
LEMMA PictureImplementsLine ==
  ASSUME TypeInv, LockDiscipline, TurnInv, TurnInv', alive, Picture, alive' \in BOOLEAN
  PROVE  [TheLine!Next]_(TheLine!vars)
<1> USE DEF Picture, sensorVars
<1>1. CASE \/ PictureOpen \/ PictureOpenFails \/ PictureLock \/ PictureWait
           \/ PictureWake \/ PictureUnlock \/ PictureGet \/ PictureCameraFails
           \/ PictureSave \/ PicturePut
  BY <1>1, OthersUnseen DEF PictureOpen, PictureOpenFails, PictureLock,
     PictureWait, PictureWake, PictureUnlock, PictureGet, PictureCameraFails,
     PictureSave, PicturePut
<1>2. CASE PictureSendLock
  BY <1>2, LockBegins DEF PictureSendLock
<1>3. CASE PictureSend
  BY <1>3, SendWrites DEF PictureSend, LockDiscipline, Unlock
<1>4. QED
  BY <1>1, <1>2, <1>3 DEF PictureStep

\* The server is the far end.
LEMMA ServerImplementsLine ==
  ASSUME TypeInv, TurnInv, TurnInv', alive, Server
  PROVE  [TheLine!Next]_(TheLine!vars)
<1>1. Inside' = Inside /\ Left' = Left /\ alive' = alive
  BY DEF TurnInv, Server, sensorVars, process
<1>2. CASE ServerRead
  BY <1>1, <1>2 DEF ServerRead, Available, Inside, Left, TheLine!Hears, TheLine!Next
<1>3. CASE ServerClose
  BY <1>1, <1>3 DEF ServerClose, Available, Inside, Left, TheLine!HangsUp, TheLine!Next
<1>4. CASE \E code \in Codes : ServerSend(code)
  <2>1. PICK code \in Codes : ServerSend(code)
    BY <1>4
  <2>2. /\ FrameLen \in Nat /\ FrameLen > 0
        /\ inbound \in Seq(Codes) /\ Len(inbound) \in Nat /\ taken \in Nat
    BY SocketAssumption DEF TypeInv, TypeOK, SocketTypeOK
  <2>3. taken' = taken /\ Len(inbound') = Len(inbound) + 1
    BY <2>1, <2>2 DEF ServerSend
  <2>4. FrameLen * (Len(inbound) + 1) = FrameLen * Len(inbound) + FrameLen
    BY <2>2
  <2>5. FrameLen * Len(inbound) \in Int
    BY <2>2
  <2>6. Available' > Available
    BY <2>2, <2>3, <2>4, <2>5 DEF Available
  <2>7. QED
    BY <1>1, <2>1, <2>6 DEF ServerSend, Inside, Left, TheLine!Says, TheLine!Next
<1>5. QED
  BY <1>2, <1>3, <1>4 DEF Server

\* The threads and their mutex implement the line, for every size of the send
\* buffer, every stream of commands and every moment the server may hang up.
THEOREM ImplementsLineAlways == Spec => ImplementsLine
<1>1. Init => TheLine!Init
  <2> SUFFICES ASSUME Init PROVE TheLine!Init
    OBVIOUS
  <2>1. \A thread \in Threads : ~UsingSocket(thread)
    BY DEF Starts, Init, ReceiveInit, SensorInit, SleepInit, PictureInit, UsingSocket
  <2>2. spc # "send"
    BY DEF Starts, Init, SensorInit
  <2>3. Available = 0
    <3>1. Len(inbound) = 0 /\ taken = 0
      BY DEF Init, SocketInit
    <3>2. QED
      BY <3>1, SocketAssumption DEF Available
  <2>4. QED
    BY <2>1, <2>2, <2>3 DEF Init, ProcessInit, SocketInit, One, TheLine!Init
<1>2. TypeInv /\ TypeInv' /\ LockDiscipline /\ TurnInv /\ TurnInv' /\ [Next]_vars
        => [TheLine!Next]_(TheLine!vars)
  <2> SUFFICES ASSUME TypeInv, TypeInv', LockDiscipline, TurnInv, TurnInv', [Next]_vars
               PROVE  [TheLine!Next]_(TheLine!vars)
    OBVIOUS
  <2>1. alive' \in BOOLEAN
    BY DEF TypeInv, TypeOK, ProcessTypeOK
  <2>2. CASE UNCHANGED vars
    <3>1. Inside' = Inside /\ Left' = Left
      BY <2>2 DEF TurnInv, vars, sensorVars
    <3>2. QED
      BY <2>2, <3>1 DEF Inside, Left, vars, Available, process, socket, TheLine!vars
  <2>3. CASE alive /\ (Play \/ Main \/ SoundDevice \/ CameraDriver)
    BY <2>1, <2>3, OthersUnseen DEF Play, Main, SoundDevice, CameraDriver, sensorVars
  <2>4. CASE alive /\ (Receive \/ Sensor \/ Sleep \/ Picture \/ Server)
    BY <2>1, <2>4, ReceiveImplementsLine, SensorImplementsLine,
       SleepImplementsLine, PictureImplementsLine, ServerImplementsLine
  <2>5. QED
    BY <2>2, <2>3, <2>4 DEF Next, Exited, Step
<1>3. QED
  BY <1>1, <1>2, TypeInvAlways, LockDisciplineAlways, TurnInvAlways, PTL
  DEF Spec, TheLine!Spec, ImplementsLine

=============================================================================
