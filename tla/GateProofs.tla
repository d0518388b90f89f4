------------------------------- MODULE GateProofs ------------------------------
(***************************************************************************)
(* Proofs about the gate, however many commands the server sends: that     *)
(* the threads implement Gate, and what an opening has to be paid with.    *)
(***************************************************************************)
EXTENDS CapsuleDoor, CapsuleProofs

-----------------------------------------------------------------------------
(* The refinement of Gate.                                                 *)

\* What the mapping rests on: only a thread that waits can be woken, and a
\* command that is being served has or has not switched the relay already.
GateInv ==
  /\ "play" \in alsa_con_var => ppc = "waiting"
  /\ relay = "on" <=> choice = 5 /\ ppc \in {"fopen", "pcm_open", "play", "close"}
  /\ ppc \in {"fopen", "pcm_open", "play"} => choice \in {5, 8}
  /\ ppc = "close" => choice = 5

\* Only play_thread and receive_thread touch what GateInv is about.
LEMMA StepKeepsGateInv ==
  ASSUME TypeInv, GateInv, [Next]_vars
  PROVE  GateInv'
<1> USE DEF GateInv
<1>1. CASE Play
  <2>1. CASE PlayOpen \/ PlayLock \/ PlayRead
    BY <2>1 DEF PlayOpen, PlayLock, PlayRead, alsaVars
  <2>2. CASE PlayWait
    BY <2>2 DEF PlayWait, Wait
  <2>3. CASE PlayWake
    BY <2>3 DEF PlayWake, Leave
  <2>4. CASE PlaySwitch
    BY <2>4 DEF PlaySwitch, alsaVars
  <2>5. CASE SoundOpen \/ SoundConfigure \/ SoundConfigureFails
    BY <2>5 DEF SoundOpen, SoundConfigure, SoundConfigureFails, alsaVars, playVars
  <2>6. CASE SoundWrite \/ SoundRecover
    BY <2>6 DEF SoundWrite, SoundRecover, alsaVars
  <2>7. CASE SoundEnd
    BY <2>7 DEF SoundEnd, alsaVars
  <2>8. CASE PlayClose
    BY <2>8 DEF PlayClose, alsaVars
  <2>9. QED
    BY <1>1, <2>1, <2>2, <2>3, <2>4, <2>5, <2>6, <2>7, <2>8 DEF Play, PlayStep
<1>2. CASE Receive
  <2>1. alsa_con_var' \subseteq alsa_con_var
    BY <1>2 DEF Receive, ReceiveStep, ReceiveLock, ReceiveBytes, ReceiveNothing,
       Dispatch, PostLock, PostSignal, ArmLock, ArmSet, Signal, Leave, alsaVars
  <2>2. UNCHANGED playVars
    BY <1>2 DEF Receive
  <2>3. QED
    BY <2>1, <2>2 DEF playVars
<1>3. CASE ~Play /\ ~Receive
  <2>1. UNCHANGED <<alsa_con_var, ppc, choice, relay>>
    BY <1>3 DEF Next, Exited, Step, vars, Sensor, Sleep, Picture, Main, Server,
       SoundDevice, SoundFault, CameraDriver, playVars, alsaVars
  <2>2. QED
    BY <2>1
<1>4. QED
  BY <1>1, <1>2, <1>3

\* GateInv holds in every reachable state.
LEMMA GateInvAlways == Spec => []GateInv
<1>1. Init => GateInv
  BY DEF Starts, Init, ProcessInit, PlayInit, GateInv
<1>2. QED
  BY <1>1, StepKeepsGateInv, TypeInvAlways, PTL DEF Spec

\* A step of play_thread takes, opens, finishes, or is not seen.
LEMMA PlayImplementsGate ==
  ASSUME TypeInv, GateInv, Play, alive
  PROVE  [TheGate!Next]_(TheGate!vars)
<1> USE DEF GateInv, Play, PlayStep, TheGate!Next, TheGate!vars, alsaVars, process
<1>1. CASE PlayOpen \/ PlayLock
  BY <1>1 DEF PlayOpen, PlayLock
<1>2. CASE PlayWait
  BY <1>2 DEF PlayWait, Wait, TheGate!Listen
<1>3. CASE PlayWake
  <2>1. CASE "play" \in alsa_con_var
    BY <1>3, <2>1 DEF PlayWake, Woken, Leave, TheGate!Repeat
  <2>2. CASE "play" \notin alsa_con_var
    BY <1>3, <2>2 DEF PlayWake, Leave
  <2>3. QED
    BY <2>1, <2>2
<1>4. CASE PlayRead
  BY <1>4 DEF PlayRead, TheGate!Take
<1>5. CASE PlaySwitch
  <2>1. CASE choice = 5
    BY <1>5, <2>1 DEF PlaySwitch, TheGate!Open
  <2>2. CASE choice # 5
    BY <1>5, <2>2 DEF PlaySwitch, TheGate!Finish
  <2>3. QED
    BY <2>1, <2>2
<1>6. CASE SoundOpen
  BY <1>6 DEF SoundOpen, Exit, Opened, TheGate!Halt
<1>7. CASE SoundConfigure \/ SoundConfigureFails
  BY <1>7 DEF SoundConfigure, SoundConfigureFails, Exit, Opened, playVars, TheGate!Halt
<1>8. CASE SoundWrite \/ SoundRecover
  BY <1>8 DEF SoundWrite, SoundRecover
<1>9. CASE SoundEnd
  BY <1>9 DEF SoundEnd, TheGate!Finish
<1>10. CASE PlayClose
  BY <1>10 DEF PlayClose, TheGate!Finish
<1>11. QED
  BY <1>1, <1>2, <1>3, <1>4, <1>5, <1>6, <1>7, <1>8, <1>9, <1>10

\* A step of receive_thread posts, or is not seen.
LEMMA ReceiveImplementsGate ==
  ASSUME TypeInv, GateInv, Receive, alive
  PROVE  [TheGate!Next]_(TheGate!vars)
<1> USE DEF GateInv, Receive, playVars, process
<1>1. CASE PostSignal
  <2>1. choice_play' \in {5, 6, 7, 8}
    BY <1>1 DEF PostSignal, TypeInv, PlayCodes, ChoiceOf
  <2>2. "play" \notin alsa_con_var'
    BY <1>1 DEF PostSignal, Signal, Leave, TypeInv, TypeOK, ProcessTypeOK
  <2>3. TheGate!Post(choice_play')
    BY <1>1, <2>2 DEF PostSignal, TheGate!Post
  <2>4. QED
    BY <2>1, <2>3 DEF TheGate!Next
<1>2. CASE ~PostSignal
  <2>1. UNCHANGED <<alsa_con_var, choice_play>>
    BY <1>2 DEF ReceiveStep, ReceiveLock, ReceiveBytes, ReceiveNothing,
       Dispatch, PostLock, ArmLock, ArmSet, alsaVars
  <2>2. QED
    BY <2>1 DEF TheGate!vars
<1>3. QED
  BY <1>1, <1>2

\* Every other step is not seen, but for the end of the process.
LEMMA OtherImplementsGate ==
  ASSUME alive, alive' \in BOOLEAN,
         UNCHANGED <<alsa_con_var, choice_play, ppc, choice, relay>>
  PROVE  [TheGate!Next]_(TheGate!vars)
BY DEF TheGate!Next, TheGate!Halt, TheGate!vars

\* The program implements the gate: what is shown on a few frames by a run
\* holds for every number of them, every set of devices and sounds, and
\* every way TCP can cut the stream.
THEOREM ImplementsGateAlways == Spec => ImplementsGate
<1>1. Init => TheGate!Init
  BY DEF Starts, Init, ProcessInit, PlayInit, TheGate!Init
<1>2. TypeInv /\ TypeInv' /\ GateInv /\ [Next]_vars => [TheGate!Next]_(TheGate!vars)
  <2> SUFFICES ASSUME TypeInv, TypeInv', GateInv, [Next]_vars
               PROVE  [TheGate!Next]_(TheGate!vars)
    OBVIOUS
  <2>1. CASE UNCHANGED vars
    BY <2>1 DEF vars, process, alsaVars, playVars, TheGate!vars
  <2>2. CASE alive /\ Receive
    BY <2>2, ReceiveImplementsGate
  <2>3. CASE alive /\ Play
    BY <2>3, PlayImplementsGate
  <2>4. CASE alive /\ Step /\ ~Receive /\ ~Play
    <3>1. alive' \in BOOLEAN
      BY DEF TypeInv, TypeOK, ProcessTypeOK
    <3>2. UNCHANGED <<alsa_con_var, choice_play, ppc, choice, relay>>
      BY <2>4 DEF Step, Sensor, Sleep, Picture, Main, Server,
         SoundDevice, SoundFault, CameraDriver, playVars, alsaVars
    <3>3. QED
      BY <2>4, <3>1, <3>2, OtherImplementsGate
  <2>5. QED
    BY <2>1, <2>2, <2>3, <2>4 DEF Next, Exited
<1>3. QED
  BY <1>1, <1>2, TypeInvAlways, GateInvAlways, PTL DEF Spec, TheGate!Spec, ImplementsGate

-----------------------------------------------------------------------------
\* The history variables only watch: without them the behaviour is Capsule's.
LEMMA DoorSpecImpliesSpec == DoorSpec => Spec
<1>1. DoorInit => Init
  BY DEF DoorInit
<1>2. [DoorNext]_doorVars => [Next]_vars
  BY DEF DoorNext, doorVars
<1>3. QED
  BY <1>1, <1>2, PTL DEF DoorSpec, Spec

\* A step of play_thread moves a command from delivered to served.
LEMMA PlayKeepsDoorInv ==
  ASSUME DoorInv, Play, DoorNext
  PROVE  DoorInv'
<1> USE SocketAssumption DEF DoorInv, Underway, One, DoorNext, Play, OpensGate, PostsUnlock,
                             WakesUnsignalled, MaxOpens, MaxSpurious,
                             receiveVars, alsaVars
<1>1. CASE PlayOpen
  BY <1>1 DEF PlayOpen
<1>2. CASE PlayLock
  BY <1>2 DEF PlayLock
<1>3. CASE PlayWait
  BY <1>3 DEF PlayWait, Wait
<1>4. CASE PlayWake
  BY <1>4 DEF PlayWake, Woken, Leave
<1>5. CASE PlayRead
  BY <1>5 DEF PlayRead
<1>6. CASE PlaySwitch
  BY <1>6 DEF PlaySwitch
<1>7. CASE SoundOpen
  BY <1>7 DEF SoundOpen
<1>8. CASE SoundConfigure
  BY <1>8 DEF SoundConfigure
<1>9. CASE SoundConfigureFails \/ SoundWrite \/ SoundRecover
  BY <1>9 DEF SoundConfigureFails, SoundWrite, SoundRecover, playVars
<1>10. CASE SoundEnd
  BY <1>10 DEF SoundEnd
<1>11. CASE PlayClose
  BY <1>11 DEF PlayClose
<1>12. QED
  BY <1>1, <1>2, <1>3, <1>4, <1>5, <1>6, <1>7, <1>8, <1>9, <1>10, <1>11
  DEF PlayStep

\* A step of receive_thread pays for a command before it delivers it.
LEMMA ReceiveKeepsDoorInv ==
  ASSUME DoorInv, TypeInv, Receive, DoorNext
  PROVE  DoorInv'
<1> USE SocketAssumption DEF DoorInv, Underway, One, DoorNext, Receive, OpensGate, PostsUnlock,
                             WakesUnsignalled, MaxOpens, MaxSpurious, playVars
<1>1. CASE PostSignal
  <2>1. alsa_con_var \subseteq {"play"}
    BY DEF TypeInv, TypeOK, ProcessTypeOK
  <2>2. alsa_con_var' \subseteq alsa_con_var
    BY <1>1 DEF PostSignal, Signal, Leave
  <2>3. CASE choice_play' = 5
    BY <1>1, <2>2, <2>3 DEF PostSignal
  <2>4. CASE choice_play' # 5
    BY <1>1, <2>2, <2>4 DEF PostSignal
  <2>5. QED
    BY <2>3, <2>4
<1>2. CASE UNCHANGED <<alsa_con_var, choice_play>> /\ ~PostsUnlock
  BY <1>2
<1>3. CASE ~PostSignal
  BY <1>2, <1>3 DEF ReceiveStep, ReceiveLock, ReceiveBytes, ReceiveNothing,
     Dispatch, PostLock, ArmLock, ArmSet, alsaVars
<1>4. QED
  BY <1>1, <1>3

\* No other step touches the condition variable, the choice or the gate.
LEMMA OtherKeepsDoorInv ==
  ASSUME DoorInv, DoorNext,
         UNCHANGED <<alsaVars, receiveVars, ppc, choice>>
  PROVE  DoorInv'
BY SocketAssumption DEF DoorInv, Underway, One, DoorNext, OpensGate, PostsUnlock,
   WakesUnsignalled, MaxOpens, MaxSpurious, alsaVars, receiveVars

\* The commands under way and the openings are paid for by posted commands
\* and by wake-ups without a signal.
THEOREM DoorInvAlways == DoorSpec => []DoorInv
<1>1. DoorInit => DoorInv
  BY SocketAssumption DEF Starts, DoorInit, Init, ProcessInit, PlayInit, DoorInv, Underway,
     One, MaxOpens, MaxSpurious
<1>2. TypeInv /\ DoorInv /\ [DoorNext]_doorVars => DoorInv'
  <2> SUFFICES ASSUME TypeInv, DoorInv, [DoorNext]_doorVars
               PROVE  DoorInv'
    OBVIOUS
  <2>1. CASE UNCHANGED doorVars
    BY <2>1 DEF doorVars, vars, histories, DoorInv, Underway, One, alsaVars, playVars
  <2>2. CASE DoorNext /\ Receive
    BY <2>2, ReceiveKeepsDoorInv
  <2>3. CASE DoorNext /\ Play
    BY <2>3, PlayKeepsDoorInv
  <2>4. CASE DoorNext /\ ~Receive /\ ~Play
    <3>1. UNCHANGED <<alsaVars, receiveVars, ppc, choice>>
      BY <2>4 DEF DoorNext, Next, Exited, Step, vars, Sensor, Sleep, Picture, Main,
         Server, SoundDevice, SoundFault, CameraDriver, playVars
    <3>2. QED
      BY <2>4, <3>1, OtherKeepsDoorInv
  <2>5. QED
    BY <2>1, <2>2, <2>3, <2>4
<1>3. DoorSpec => []TypeInv
  BY DoorSpecImpliesSpec, TypeInvAlways, PTL
<1>4. QED
  BY <1>1, <1>2, <1>3, PTL DEF DoorSpec

\* The gate opens at most once for each unlock command that was posted, and
\* for each wake-up of play_thread that nobody signalled.
THEOREM NoPhantomOpeningAlways == DoorSpec => []NoPhantomOpening
<1>1. DoorInv => NoPhantomOpening
  BY SocketAssumption DEF DoorInv, NoPhantomOpening, Underway, One, MaxOpens, MaxSpurious
<1>2. QED
  BY <1>1, DoorInvAlways, PTL

-----------------------------------------------------------------------------
(* What receive_thread obeys.                                              *)

\* Only the server uses up its frames, and puts them where they arrive.
LEMMA OnlyServerSends ==
  ASSUME Next, ~\E code \in Codes : ServerSend(code)
  PROVE  /\ quota' = quota
         /\ Receive \/ inbound' = inbound
<1>1. CASE Receive
  BY <1>1 DEF Receive, ReceiveStep, ReceiveLock, ReceiveBytes, ReceiveNothing, Dispatch,
     PostLock, PostSignal, ArmLock, ArmSet, Take, socket
<1>2. CASE ~Receive
  BY <1>2 DEF Next, Exited, Step, vars, Play, Sensor, SensorStep,
     SensorOpen, SensorLock, SensorSend, Sleep, SleepStep, SleepOpen, SleepLock,
     SleepCheck, SleepRead, SleepSendLock, SleepSend, Picture, PictureStep,
     PictureOpen, PictureOpenFails, PictureLock, PictureWait, PictureWake,
     PictureUnlock, PictureGet, PictureCameraFails, PictureSave, PictureSendLock,
     PictureSend, PicturePut, Main, Server, ServerRead, ServerClose, SoundDevice,
     CameraDriver, socket
<1>3. QED
  BY <1>1, <1>2

\* Only receive_thread reads, and touches its own variables.
LEMMA OnlyReceiveReceives ==
  ASSUME Next, ~Receive
  PROVE  UNCHANGED <<rpc, rcv_buf, taken>>
BY DEF Next, Exited, Step, vars, Play, Sensor, SensorStep, SensorOpen, SensorLock,
   SensorSend, Sleep, SleepStep, SleepOpen, SleepLock, SleepCheck, SleepRead,
   SleepSendLock, SleepSend, Picture, PictureStep, PictureOpen, PictureOpenFails,
   PictureLock, PictureWait, PictureWake, PictureUnlock, PictureGet,
   PictureCameraFails, PictureSave, PictureSendLock, PictureSend, PicturePut, Main,
   Server, ServerRead, ServerClose, ServerSend, SoundDevice, CameraDriver,
   receiveVars, socket

\* A read of p bytes in all, of frames of F bytes of which there are L, ends
\* in one of them or behind the last.
LEMMA FramesOfBytes ==
  ASSUME NEW F \in Nat \ {0}, NEW L \in Nat, NEW p \in Nat, p <= F * L
  PROVE  /\ p \div F \in Nat /\ p % F \in 0..(F - 1)
         /\ p \div F <= L /\ (p % F > 0 => p \div F < L)
         /\ p > 0 => p \div F > 0 \/ p % F > 0
<1> DEFINE q == p \div F
           r == p % F
<1>1. q \in Nat /\ r \in 0..(F - 1) /\ p = F * q + r
  OBVIOUS
<1> HIDE DEF q, r
<1>2. q <= L
  <2> SUFFICES ASSUME q >= L + 1 PROVE FALSE
    BY <1>1
  <2>1. F * q >= F * (L + 1)
    BY <1>1
  <2>2. F * (L + 1) = F * L + F
    OBVIOUS
  <2>3. F * q \in Nat /\ F * L \in Nat
    BY <1>1
  <2>4. QED
    BY <1>1, <2>1, <2>2, <2>3
<1>3. r > 0 => q < L
  BY <1>1, <1>2
<1>4. p > 0 => q > 0 \/ r > 0
  BY <1>1
<1>5. QED
  BY <1>1, <1>2, <1>3, <1>4 DEF q, r

\* A read goes on in what was sent, and the command it finds begins with it.
LEMMA ReadKeepsOrder ==
  ASSUME TypeInv, OrderInv, NEW n \in 1..BufLen, ReceiveBytes(n),
         UNCHANGED <<frames, obeyed>>
  PROVE  OrderInv'
<1> USE SocketAssumption
<1> DEFINE q == (taken + n) \div FrameLen
           r == (taken + n) % FrameLen
           base == Len(frames) - Len(inbound)
<1>1. /\ inbound \in Seq(Codes) /\ taken \in Nat /\ Len(inbound) \in Nat
      /\ Len(frames) \in Nat /\ n \in Nat /\ taken + n > 0
  BY DEF TypeInv, TypeOK, SocketTypeOK, OrderInv, StreamInv
<1>2. taken + n <= FrameLen * Len(inbound)
  <2>1. FrameLen * Len(inbound) \in Nat
    BY <1>1
  <2>2. QED
    BY <1>1, <2>1 DEF ReceiveBytes, Available
<1>3. /\ q \in Nat /\ r \in 0..(FrameLen - 1) /\ q <= Len(inbound)
      /\ r > 0 => q < Len(inbound)
      /\ q > 0 \/ r > 0
  <2>1. FrameLen \in Nat \ {0} /\ taken + n \in Nat
    BY <1>1
  <2>2. QED
    BY <1>1, <1>2, <2>1, FramesOfBytes
<1>4. inbound' = SubSeq(inbound, q + 1, Len(inbound)) /\ taken' = r
  BY DEF ReceiveBytes, Take
<1> HIDE DEF q, r
<1>5. /\ inbound' \in Seq(Codes) /\ Len(inbound') = Len(inbound) - q
      /\ \A i \in 1..Len(inbound') : inbound'[i] = inbound[q + i]
  <2>1. \A i \in (q + 1)..Len(inbound) : inbound[i] \in Codes
    BY <1>1, <1>3
  <2>2. QED
    BY <1>1, <1>3, <1>4, <2>1, SubSeqProperties
<1>6. base \in Nat /\ Len(frames) - Len(inbound') = base + q
  BY <1>1, <1>3, <1>5 DEF OrderInv, StreamInv
<1>7. StreamInv'
  <2>1. \A i \in 1..Len(inbound') : inbound'[i] = frames[base + q + i]
    <3> SUFFICES ASSUME NEW i \in 1..Len(inbound')
                 PROVE  inbound'[i] = frames[base + q + i]
      OBVIOUS
    <3>1. q + i \in 1..Len(inbound) /\ base + (q + i) = base + q + i
      BY <1>1, <1>3, <1>5, <1>6
    <3>2. inbound[q + i] = frames[base + (q + i)]
      BY <3>1 DEF OrderInv, StreamInv
    <3>3. QED
      BY <1>5, <3>1, <3>2
  <2>2. taken' > 0 => inbound' # <<>>
    <3>1. taken' > 0 => Len(inbound') > 0
      BY <1>1, <1>3, <1>4, <1>5
    <3>2. inbound' = <<>> => Len(inbound') = 0
      OBVIOUS
    <3>3. QED
      BY <3>1, <3>2
  <2>3. taken' < FrameLen /\ Len(inbound') <= Len(frames)
    BY <1>1, <1>3, <1>4, <1>5, <1>6
  <2> HIDE DEF base
  <2>4. QED
    BY <1>6, <2>1, <2>2, <2>3 DEF OrderInv, StreamInv
<1>8. /\ Reached = base + One(taken > 0) /\ Reached' = base + q + One(r > 0)
      /\ Reached \in Nat /\ Reached' \in Nat /\ Reached <= Reached'
      /\ base + 1 <= Reached'
  <2>1. Reached' = base + q + One(r > 0)
    BY <1>4, <1>6 DEF Reached
  <2>2. taken > 0 \/ taken = 0
    BY <1>1
  <2> HIDE DEF base
  <2>3. Reached = base + One(taken > 0)
    BY DEF Reached, base
  <2>4. QED
    BY <1>1, <1>3, <1>6, <2>1, <2>2, <2>3 DEF One
<1>9. rcv_buf'.code # NoCode => taken = 0 /\ rcv_buf'.code = frames[base + 1]
  <2>1. rcv_buf = Cleared
    BY DEF OrderInv, ReceiveBytes
  <2>2. inbound # <<>>
    BY <1>1, EmptyAvailable DEF ReceiveBytes
  <2>3. Len(inbound) > 0 /\ Head(inbound) = inbound[1]
    BY <1>1, <2>2
  <2>4. inbound[1] = frames[base + 1]
    BY <1>1, <2>3 DEF OrderInv, StreamInv
  <2>5. QED
    BY <2>1, <2>3, <2>4 DEF ReceiveBytes, Parsed, Cleared
<1>10. PICK frame \in [DOMAIN obeyed -> 1..Reached] : InOrder(frame)
  BY DEF OrderInv
<1>11. frame \in [DOMAIN obeyed' -> 1..Reached'] /\ InOrder(frame)'
  BY <1>8, <1>10 DEF InOrder
<1>12. PICK next \in 1..Reached' : next = base + 1
  BY <1>6, <1>8
<1>13. Pending' => CanFollow(next, frame)'
  <2> SUFFICES ASSUME rcv_buf'.code # NoCode PROVE CanFollow(next, frame)'
    BY DEF Pending
  <2>1. Reached = base
    BY <1>6, <1>8, <1>9 DEF One
  <2>2. \A i \in DOMAIN obeyed : frame[i] < next
    BY <1>6, <1>10, <1>12, <2>1
  <2>3. QED
    BY <1>9, <1>12, <2>2 DEF CanFollow
<1>14. rpc' = "dispatch"
  BY DEF ReceiveBytes
<1>15. QED
  BY <1>7, <1>11, <1>12, <1>13, <1>14 DEF OrderInv

\* A command that is obeyed comes after those obeyed before it.
LEMMA ObeyKeepsOrder ==
  ASSUME TypeInv, OrderInv, PostSignal \/ ArmSet,
         frames' = frames, obeyed' = Append(obeyed, rcv_buf.code)
  PROVE  OrderInv'
<1>1. UNCHANGED <<inbound, taken, rcv_buf>> /\ rpc' = "lock" /\ Reached' = Reached
  BY DEF PostSignal, ArmSet, socket, Reached
<1>2. Pending /\ rcv_buf.code \in Codes
  <2>1. rcv_buf.code # NoCode
    BY DEF PostSignal, ArmSet, TypeInv, OrderInv, PlayCodes, SleepCodes, NoCode
  <2>2. QED
    BY <2>1 DEF Pending, PostSignal, ArmSet, TypeInv, TypeOK, ReceiveTypeOK
<1>3. obeyed \in Seq(Codes) /\ Reached \in Int
  BY DEF OrderInv, StreamInv, Reached, One, TypeInv, TypeOK, SocketTypeOK
<1>4. PICK frame \in [DOMAIN obeyed -> 1..Reached] :
        InOrder(frame) /\ \E next \in 1..Reached : CanFollow(next, frame)
  BY <1>2 DEF OrderInv
<1>5. PICK next \in 1..Reached : CanFollow(next, frame)
  BY <1>4
<1>6. /\ obeyed' \in Seq(Codes)
      /\ DOMAIN obeyed' = DOMAIN obeyed \union {Len(obeyed) + 1}
      /\ DOMAIN obeyed = 1..Len(obeyed) /\ Len(obeyed) \in Nat
      /\ \A i \in DOMAIN obeyed : obeyed'[i] = obeyed[i]
      /\ obeyed'[Len(obeyed) + 1] = rcv_buf.code
  BY <1>2, <1>3
<1>7. PICK longer \in [DOMAIN obeyed' -> 1..Reached] :
        \A i \in DOMAIN obeyed' : longer[i] = IF i \in DOMAIN obeyed THEN frame[i] ELSE next
  <2> DEFINE f == [i \in DOMAIN obeyed' |-> IF i \in DOMAIN obeyed THEN frame[i] ELSE next]
  <2>1. f \in [DOMAIN obeyed' -> 1..Reached]
    BY <1>4, <1>5
  <2>2. QED
    BY <2>1
<1>8. \A i \in DOMAIN obeyed' : obeyed'[i] = frames[longer[i]]
  BY <1>4, <1>5, <1>6, <1>7 DEF InOrder, CanFollow
<1>9. \A i, j \in DOMAIN obeyed' : i < j => longer[i] < longer[j]
  BY <1>4, <1>5, <1>6, <1>7 DEF InOrder, CanFollow
<1>10. InOrder(longer)'
  BY <1>8, <1>9 DEF InOrder
<1>11. StreamInv'
  BY <1>1, <1>6 DEF OrderInv, StreamInv
<1>12. QED
  BY <1>1, <1>7, <1>10, <1>11 DEF OrderInv, Pending

\* Steps that leave the stream and the histories alone.
LEMMA StillOrder ==
  ASSUME OrderInv, UNCHANGED <<inbound, taken, frames, obeyed>>,
         \/ rcv_buf' = Cleared /\ rpc' = "recv"
         \/ /\ rcv_buf' = rcv_buf /\ rpc' # "recv"
            /\ rpc = "lock" => rpc' = "lock"
            /\ rpc' \in {"arm", "set"} => rcv_buf.code \in SleepCodes
         \/ UNCHANGED <<rcv_buf, rpc>>
  PROVE  OrderInv'
<1>1. StreamInv' /\ Reached' = Reached
  BY DEF OrderInv, StreamInv, Reached
<1>2. PICK frame \in [DOMAIN obeyed -> 1..Reached] :
        InOrder(frame) /\ (Pending => \E next \in 1..Reached : CanFollow(next, frame))
  BY DEF OrderInv
<1>3. InOrder(frame)'
  BY <1>2 DEF InOrder
<1>4. Pending' => Pending /\ rcv_buf' = rcv_buf
  BY DEF Pending, Cleared
<1>5. \A next \in 1..Reached : CanFollow(next, frame) /\ Pending' => CanFollow(next, frame)'
  BY <1>4 DEF CanFollow
<1>6. /\ rpc' = "recv" => rcv_buf' = Cleared
      /\ rpc' \in {"arm", "set"} => rcv_buf'.code \in SleepCodes
  BY DEF OrderInv
<1>7. QED
  BY <1>1, <1>2, <1>3, <1>4, <1>5, <1>6 DEF OrderInv

\* A frame the server sends goes to the end of both.
LEMMA SendKeepsOrder ==
  ASSUME TypeInv, OrderInv, NEW code \in Codes,
         inbound' = Append(inbound, code), frames' = Append(frames, code),
         UNCHANGED <<taken, obeyed, rpc, rcv_buf>>
  PROVE  OrderInv'
<1>1. inbound \in Seq(Codes) /\ frames \in Seq(Codes) /\ taken \in Nat
      /\ Len(inbound) \in Nat /\ Len(frames) \in Nat
  BY DEF TypeInv, TypeOK, SocketTypeOK, OrderInv, StreamInv
<1>2. /\ inbound' \in Seq(Codes) /\ Len(inbound') = Len(inbound) + 1
      /\ frames' \in Seq(Codes) /\ Len(frames') = Len(frames) + 1
      /\ \A i \in 1..Len(frames) : frames'[i] = frames[i]
      /\ \A i \in 1..Len(inbound) : inbound'[i] = inbound[i]
      /\ inbound'[Len(inbound) + 1] = code /\ frames'[Len(frames) + 1] = code
  BY <1>1
<1>3. Reached' = Reached /\ Reached \in Int /\ Reached <= Len(frames)
  <2>1. inbound # <<>> => Len(inbound) > 0
    BY <1>1
  <2>2. One(taken > 0)' = One(taken > 0) /\ (One(taken > 0) = 1 => inbound # <<>>)
        /\ One(taken > 0) \in {0, 1}
    BY DEF One, OrderInv, StreamInv
  <2>3. Len(inbound) <= Len(frames)
    BY DEF OrderInv, StreamInv
  <2>4. QED
    BY <1>1, <1>2, <2>1, <2>2, <2>3 DEF Reached
<1>4. StreamInv'
  <2>1. Len(frames') - Len(inbound') = Len(frames) - Len(inbound)
    BY <1>1, <1>2
  <2>2. \A i \in 1..Len(inbound') :
          inbound'[i] = frames'[Len(frames) - Len(inbound) + i]
    <3> SUFFICES ASSUME NEW i \in 1..Len(inbound')
                 PROVE  inbound'[i] = frames'[Len(frames) - Len(inbound) + i]
      OBVIOUS
    <3>1. CASE i = Len(inbound) + 1
      BY <1>1, <1>2, <3>1
    <3>2. CASE i \in 1..Len(inbound)
      <4>1. Len(frames) - Len(inbound) + i \in 1..Len(frames)
        BY <1>1, <3>2 DEF OrderInv, StreamInv
      <4>2. inbound[i] = frames[Len(frames) - Len(inbound) + i]
        BY <3>2 DEF OrderInv, StreamInv
      <4>3. QED
        BY <1>2, <3>2, <4>1, <4>2
    <3>3. i = Len(inbound) + 1 \/ i \in 1..Len(inbound)
      BY <1>1, <1>2
    <3>4. QED
      BY <3>1, <3>2, <3>3
  <2>3. Len(inbound') <= Len(frames') /\ taken' < FrameLen /\ obeyed' \in Seq(Codes)
    BY <1>1, <1>2 DEF OrderInv, StreamInv
  <2>4. inbound' # <<>>
    <3>1. Len(inbound') > 0 /\ Len(<<>>) = 0
      BY <1>1, <1>2
    <3>2. QED
      BY <3>1
  <2>5. QED
    BY <1>2, <2>1, <2>2, <2>3, <2>4 DEF StreamInv
<1>5. PICK frame \in [DOMAIN obeyed -> 1..Reached] :
        InOrder(frame) /\ (Pending => \E next \in 1..Reached : CanFollow(next, frame))
  BY DEF OrderInv
<1>6. \A k \in 1..Reached : frames'[k] = frames[k]
  BY <1>1, <1>2, <1>3
<1>7. InOrder(frame)'
  BY <1>5, <1>6 DEF InOrder
<1>8. \A next \in 1..Reached : CanFollow(next, frame) => CanFollow(next, frame)'
  BY <1>6 DEF CanFollow
<1>9. Pending' = Pending
  BY DEF Pending
<1>10. QED
  BY <1>3, <1>4, <1>5, <1>7, <1>8, <1>9 DEF OrderInv

\* Every step keeps the order.
LEMMA StepKeepsOrder ==
  ASSUME TypeInv, OrderInv, DoorNext
  PROVE  OrderInv'
<1>1. quota \in Nat /\ inbound \in Seq(Codes)
  BY SocketAssumption DEF TypeInv, TypeOK, SocketTypeOK
<1>2. CASE \E code \in Codes : ServerSend(code)
  <2>1. PICK code \in Codes : ServerSend(code)
    BY <1>2
  <2>2. quota' # quota /\ inbound' = Append(inbound, code) /\ frames' = Append(frames, code)
    BY <1>1, <2>1 DEF ServerSend, Sends, DoorNext
  <2>3. UNCHANGED <<rpc, rcv_buf, taken>>
    <3>1. ~Receive
      BY <2>2 DEF Receive, ReceiveStep, ReceiveLock, ReceiveBytes, ReceiveNothing,
         Dispatch, PostLock, PostSignal, ArmLock, ArmSet, Take, socket
    <3>2. QED
      BY <3>1, OnlyReceiveReceives DEF DoorNext
  <2>4. QED
    BY <2>2, <2>3, SendKeepsOrder DEF DoorNext, Obeys
<1>3. CASE ~\E code \in Codes : ServerSend(code)
  <2>1. frames' = frames /\ (Receive \/ inbound' = inbound)
    BY <1>1, <1>3, OnlyServerSends DEF DoorNext, Sends
  <2>2. CASE Receive
    <3>1. CASE PostSignal \/ ArmSet
      BY <2>1, <3>1, ObeyKeepsOrder DEF DoorNext, Obeys, PostSignal, ArmSet
    <3>2. CASE \E n \in 1..BufLen : ReceiveBytes(n)
      BY <2>1, <3>2, ReadKeepsOrder DEF DoorNext, Obeys, ReceiveBytes
    <3>3. CASE ReceiveLock
      BY <2>1, <3>3, StillOrder DEF ReceiveLock, socket, DoorNext, Obeys
    <3>4. CASE Dispatch
      BY <2>1, <3>4, StillOrder DEF Dispatch, socket, DoorNext, Obeys
    <3>5. CASE ReceiveNothing \/ PostLock
      BY <2>1, <3>5, StillOrder DEF ReceiveNothing, PostLock, socket, DoorNext, Obeys
    <3>6. CASE ArmLock
      <4>1. rcv_buf.code \in SleepCodes
        BY <3>6 DEF ArmLock, OrderInv
      <4>2. QED
        BY <2>1, <3>6, <4>1, StillOrder DEF ArmLock, socket, DoorNext, Obeys
    <3>7. QED
      BY <2>2, <3>1, <3>2, <3>3, <3>4, <3>5, <3>6 DEF Receive, ReceiveStep
  <2>3. CASE ~Receive
    <3>1. UNCHANGED <<rpc, rcv_buf, taken>>
      BY <2>3, OnlyReceiveReceives DEF DoorNext
    <3>2. QED
      BY <2>1, <2>3, <3>1, StillOrder DEF DoorNext, Obeys
  <2>4. QED
    BY <2>2, <2>3
<1>4. QED
  BY <1>2, <1>3

\* Where the stream was cut, and what was obeyed of it.
THEOREM OrderInvAlways == DoorSpec => []OrderInv
<1>1. DoorInit => OrderInv
  <2> SUFFICES ASSUME DoorInit PROVE OrderInv
    OBVIOUS
  <2>1. /\ inbound = <<>> /\ taken = 0 /\ frames = <<>> /\ obeyed = <<>>
        /\ rpc \in {"lock", "returned"} /\ rcv_buf = Cleared
    BY DEF Starts, DoorInit, Init, SocketInit, ReceiveInit
  <2>2. Reached = 0 /\ DOMAIN obeyed = {} /\ Len(inbound) = 0 /\ Len(frames) = 0
    BY <2>1 DEF Reached, One
  <2>3. \E frame \in [DOMAIN obeyed -> 1..Reached] : InOrder(frame)
    <3>1. [i \in {} |-> i] \in [{} -> 1..Reached]
      OBVIOUS
    <3>2. QED
      BY <2>2, <3>1 DEF InOrder
  <2>4. StreamInv
    BY <2>1, <2>2, SocketAssumption DEF StreamInv
  <2>5. QED
    BY <2>1, <2>3, <2>4 DEF OrderInv, Pending, Cleared
<1>2. TypeInv /\ OrderInv /\ [DoorNext]_doorVars => OrderInv'
  <2>1. ASSUME OrderInv, UNCHANGED doorVars PROVE OrderInv'
    BY <2>1, StillOrder DEF doorVars, vars, histories, receiveVars, socket
  <2>2. QED
    BY <2>1, StepKeepsOrder
<1>3. DoorSpec => []TypeInv
  BY DoorSpecImpliesSpec, TypeInvAlways, PTL
<1>4. QED
  BY <1>1, <1>2, <1>3, PTL DEF DoorSpec

\* What receive_thread obeys is what the server sent, in that order, each
\* frame once: for every length of frames, buffer and stream, and every way
\* the stream is cut.
THEOREM ObeyedInOrderAlways == DoorSpec => []ObeyedInOrder
<1>1. TypeInv /\ OrderInv => ObeyedInOrder
  <2> SUFFICES ASSUME TypeInv, OrderInv PROVE ObeyedInOrder
    OBVIOUS
  <2>1. Reached <= Len(frames) /\ Reached \in Int /\ DOMAIN frames = 1..Len(frames)
        /\ Len(frames) \in Nat
    <3>1. inbound \in Seq(Codes) /\ Len(inbound) \in Nat /\ Len(frames) \in Nat
          /\ frames \in Seq(Codes) /\ Len(inbound) <= Len(frames)
      BY DEF TypeInv, TypeOK, SocketTypeOK, OrderInv, StreamInv
    <3>2. One(taken > 0) \in {0, 1} /\ (One(taken > 0) = 1 => Len(inbound) > 0)
      BY <3>1 DEF One, OrderInv, StreamInv
    <3>3. QED
      BY <3>1, <3>2 DEF Reached
  <2>2. PICK frame \in [DOMAIN obeyed -> 1..Reached] : InOrder(frame)
    BY DEF OrderInv
  <2>3. frame \in [DOMAIN obeyed -> DOMAIN frames]
    BY <2>1, <2>2
  <2>4. QED
    BY <2>2, <2>3 DEF ObeyedInOrder
<1>2. DoorSpec => []TypeInv
  BY DoorSpecImpliesSpec, TypeInvAlways, PTL
<1>3. QED
  BY <1>1, <1>2, OrderInvAlways, PTL

-----------------------------------------------------------------------------
\* What a read leaves in inbound was there before, and what it puts at the
\* start of rcv_buf is the first frame, or nothing a frame begins with.
LEMMA ReadKeepsLockedInv ==
  ASSUME TypeInv, LockedInv, NEW n \in 1..BufLen, ReceiveBytes(n), NoUnlockSent
  PROVE  /\ \A i \in DOMAIN inbound' : inbound'[i] # "05"
         /\ rcv_buf'.code # "05"
<1> USE SocketAssumption
<1>1. inbound \in Seq(Codes) /\ taken \in Nat
  BY DEF TypeInv, TypeOK, SocketTypeOK
<1>2. inbound # <<>>
  BY <1>1, EmptyAvailable DEF ReceiveBytes
<1>3. Head(inbound) # "05"
  BY <1>1, <1>2 DEF LockedInv
<1>4. rcv_buf'.code # "05"
  BY <1>3 DEF ReceiveBytes, Parsed, LockedInv, NoCode
<1> DEFINE from == ((taken + n) \div FrameLen) + 1
<1>5. from \in Nat /\ from >= 1 /\ Len(inbound) \in Nat
  BY <1>1
<1>6. inbound' = SubSeq(inbound, from, Len(inbound))
  BY DEF ReceiveBytes, Take
<1>7. \A i \in from..Len(inbound) : inbound[i] \in Codes \ {"05"}
  BY <1>1, <1>5 DEF LockedInv
<1> HIDE DEF from
<1>8. inbound' \in Seq(Codes \ {"05"})
  BY <1>5, <1>6, <1>7, SubSeqProperties
<1>9. QED
  BY <1>4, <1>8

\* A frame is appended to the history only when the server appended it to
\* inbound.
LEMMA SentFrameTypes ==
  ASSUME TypeInv, DoorNext
  PROVE  /\ inbound' \in Seq(Codes)
         /\ Sends => inbound'[Len(inbound')] \in Codes
<1>1. TypeInv'
  BY StepTypes DEF DoorNext
<1>2. inbound' \in Seq(Codes)
  BY <1>1 DEF TypeInv, TypeOK, SocketTypeOK
<1>3. ASSUME Sends PROVE inbound'[Len(inbound')] \in Codes
  <2>1. \E code \in Codes : ServerSend(code)
    BY <1>3, OnlyServerSends, SocketAssumption
    DEF Sends, DoorNext, TypeInv, TypeOK, SocketTypeOK
  <2>2. PICK code \in Codes : inbound' = Append(inbound, code)
    BY <2>1 DEF ServerSend
  <2>3. inbound \in Seq(Codes)
    BY DEF TypeInv, TypeOK, SocketTypeOK
  <2>4. QED
    BY <2>2, <2>3
<1>4. QED
  BY <1>2, <1>3

\* No step opens the gate, or brings an unlock command nearer to it, before
\* the server has sent one.
LEMMA StepKeepsLockedInv ==
  ASSUME TypeInv, LockedInv, DoorNext
  PROVE  LockedInv'
<1>1. /\ frames' \in Seq(Codes)
      /\ NoUnlockSent' => NoUnlockSent /\ (Sends => inbound'[Len(inbound')] # "05")
  <2>1. frames \in Seq(Codes) /\ inbound' \in Seq(Codes)
    BY SentFrameTypes DEF LockedInv
  <2>2. CASE ~Sends
    BY <2>1, <2>2 DEF DoorNext, NoUnlockSent
  <2>3. CASE Sends
    <3>1. inbound'[Len(inbound')] \in Codes
      BY <2>3, SentFrameTypes
    <3>2. /\ frames' \in Seq(Codes) /\ Len(frames') = Len(frames) + 1
          /\ frames'[Len(frames) + 1] = inbound'[Len(inbound')]
          /\ \A i \in 1..Len(frames) : frames'[i] = frames[i]
      BY <2>1, <2>3, <3>1 DEF DoorNext
    <3>3. DOMAIN frames = 1..Len(frames) /\ DOMAIN frames' = 1..(Len(frames) + 1)
          /\ Len(frames) \in Nat
      BY <2>1, <3>2
    <3>4. QED
      BY <3>2, <3>3 DEF NoUnlockSent
  <2>4. QED
    BY <2>2, <2>3
<1> SUFFICES ASSUME NoUnlockSent'
             PROVE  /\ \A i \in DOMAIN inbound' : inbound'[i] # "05"
                    /\ rcv_buf'.code # "05"
                    /\ choice_play' # 5 /\ choice' # 5
                    /\ opens' = 0 /\ relay' = "off"
  BY <1>1 DEF LockedInv
<1>2. NoUnlockSent /\ (Sends => inbound'[Len(inbound')] # "05")
  BY <1>1
<1>3. opens' = 0
  BY <1>2 DEF LockedInv, DoorNext, OpensGate, One
<1> USE <1>2, <1>3 DEF LockedInv
<1>4. CASE Receive
  <2>1. CASE \E n \in 1..BufLen : ReceiveBytes(n)
    BY <1>4, <2>1, ReadKeepsLockedInv DEF Receive, ReceiveBytes, playVars, alsaVars
  <2>2. CASE ReceiveLock
    BY <1>4, <2>2 DEF Receive, ReceiveLock, Cleared, NoCode, playVars, alsaVars, socket
  <2>3. CASE PostSignal
    BY <1>4, <2>3 DEF Receive, PostSignal, TypeInv, PlayCodes, ChoiceOf, playVars, socket
  <2>4. CASE ReceiveNothing \/ Dispatch \/ PostLock \/ ArmLock \/ ArmSet
    BY <1>4, <2>4 DEF Receive, ReceiveNothing, Dispatch, PostLock, ArmLock, ArmSet,
       playVars, alsaVars, socket
  <2>5. QED
    BY <1>4, <2>1, <2>2, <2>3, <2>4 DEF Receive, ReceiveStep
<1>5. CASE Play
  BY <1>5 DEF Play, PlayStep, PlayOpen, PlayLock, PlayWait, PlayWake, PlayRead,
     PlaySwitch, SoundOpen, SoundConfigure, SoundConfigureFails, SoundWrite,
     SoundRecover, SoundEnd, PlayClose, playVars, alsaVars, receiveVars, socket
<1>6. CASE Server
  <2>1. quota \in Nat /\ inbound \in Seq(Codes)
    BY SocketAssumption DEF TypeInv, TypeOK, SocketTypeOK
  <2>2. CASE \E code \in Codes : ServerSend(code)
    <3>1. PICK code \in Codes : ServerSend(code)
      BY <2>2
    <3>2. code # "05"
      BY <2>1, <3>1 DEF ServerSend, Sends
    <3>3. QED
      BY <1>6, <2>1, <3>1, <3>2 DEF Server, ServerSend, playVars, alsaVars, receiveVars
  <2>3. CASE ServerRead \/ ServerClose
    BY <1>6, <2>3 DEF Server, ServerRead, ServerClose, playVars, alsaVars, receiveVars
  <2>4. QED
    BY <1>6, <2>2, <2>3 DEF Server
<1>7. CASE ~Receive /\ ~Play /\ ~Server
  <2>1. UNCHANGED <<inbound, rcv_buf, choice_play, choice, relay>>
    BY <1>7 DEF DoorNext, Next, Exited, Step, vars, Sensor, SensorStep, SensorOpen,
       SensorLock, SensorSend, Sleep, SleepStep, SleepOpen, SleepLock, SleepCheck,
       SleepRead, SleepSendLock, SleepSend, Picture, PictureStep, PictureOpen,
       PictureOpenFails, PictureLock, PictureWait, PictureWake, PictureUnlock,
       PictureGet, PictureCameraFails, PictureSave, PictureSendLock, PictureSend,
       PicturePut, Main, SoundDevice, SoundFault, CameraDriver, playVars,
       alsaVars, receiveVars, socket
  <2>2. QED
    BY <2>1
<1>8. QED
  BY <1>4, <1>5, <1>6, <1>7

\* Until the first unlock frame is sent none is on its way anywhere: not in the
\* socket, not in what was read, not in choice_play.
THEOREM LockedInvAlways == DoorSpec => []LockedInv
<1>1. DoorInit => LockedInv
  BY DEF Starts, DoorInit, Init, SocketInit, ReceiveInit, Cleared, NoCode, ProcessInit,
         PlayInit, LockedInv
<1>2. TypeInv /\ LockedInv /\ [DoorNext]_doorVars => LockedInv'
  <2> SUFFICES ASSUME TypeInv, LockedInv, [DoorNext]_doorVars
               PROVE  LockedInv'
    OBVIOUS
  <2>1. CASE UNCHANGED doorVars
    BY <2>1 DEF doorVars, vars, histories, LockedInv, NoUnlockSent, alsaVars, playVars,
                receiveVars, socket
  <2>2. QED
    BY <2>1, StepKeepsLockedInv
<1>3. DoorSpec => []TypeInv
  BY DoorSpecImpliesSpec, TypeInvAlways, PTL
<1>4. QED
  BY <1>1, <1>2, <1>3, PTL DEF DoorSpec

\* Whatever pthread_cond_wait does, the gate stays locked until the first
\* unlock command has arrived.
THEOREM LockedUntilFirstUnlockAlways == DoorSpec => []LockedUntilFirstUnlock
<1>1. LockedInv => LockedUntilFirstUnlock
  BY DEF LockedInv, LockedUntilFirstUnlock
<1>2. QED
  BY <1>1, LockedInvAlways, PTL

=============================================================================
