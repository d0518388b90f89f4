----------------------------- MODULE HistoryProofs -----------------------------
(***************************************************************************)
(* Proofs about the histories of CapsuleSleep and CapsulePhoto: the sleep  *)
(* alerts, however many commands the server sends, and the photos, however *)
(* many buffers the camera has.                                            *)
(***************************************************************************)
EXTENDS CapsuleSleep, CapsulePhoto, CapsuleProofs

-----------------------------------------------------------------------------
\* The history variables of CapsuleSleep only watch, too.
LEMMA AlertSpecImpliesSpec == AlertSpec => Spec
<1>1. AlertInit => Init
  BY DEF AlertInit
<1>2. [AlertNext]_alertVars => [Next]_vars
  BY DEF AlertNext, alertVars
<1>3. QED
  BY <1>1, <1>2, PTL DEF AlertSpec, Spec

\* After a command 09 the alert already decided on is the last one.
LEMMA StepKeepsAlertInv ==
  ASSUME TypeInv, AlertInv, AlertNext
  PROVE  AlertInv'
<1> USE DEF AlertInv, AlertNext, SendsAlert, One
<1>1. my_sleep \in {0, 1}
  BY DEF TypeInv, TypeOK, ProcessTypeOK
<1>2. CASE Sleep
  <2>1. UNCHANGED my_sleep
    BY <1>2 DEF Sleep, SleepStep, SleepOpen, SleepLock, SleepCheck, SleepRead,
       SleepSendLock, SleepSend, sleepVars
  <2>2. CASE SleepSend
    BY <1>1, <2>1, <2>2 DEF SleepSend
  <2>3. CASE SleepCheck
    BY <1>1, <2>1, <2>3 DEF SleepCheck
  <2>4. CASE SleepOpen \/ SleepLock \/ SleepSendLock
    BY <1>1, <2>1, <2>4 DEF SleepOpen, SleepLock, SleepSendLock
  <2>5. CASE \E reading \in Readings : SleepRead(reading)
    BY <1>1, <2>1, <2>5 DEF SleepRead
  <2>6. QED
    BY <1>2, <2>2, <2>3, <2>4, <2>5 DEF Sleep, SleepStep
<1>3. CASE Receive
  <2>1. UNCHANGED zpc /\ my_sleep' \in {0, 1}
    BY <1>1, <1>3 DEF Receive, ReceiveStep, ReceiveLock, ReceiveBytes,
       ReceiveNothing, Dispatch, PostLock, PostSignal, ArmLock, ArmSet, sleepVars,
       sleepThreadVars
  <2>2. ~SendsAlert
    BY <2>1
  <2>3. everArmed' \in BOOLEAN /\ (everArmed => everArmed')
    OBVIOUS
  <2>4. CASE my_sleep' = 1
    <3>1. everArmed' /\ late' = 0
      BY <2>4
    <3>2. QED
      BY <2>3, <2>4, <3>1
  <2>5. CASE my_sleep' = 0 /\ my_sleep = 0
    BY <2>1, <2>2, <2>3, <2>5
  <2>6. CASE my_sleep' = 0 /\ my_sleep = 1
    BY <2>1, <2>2, <2>3, <2>6
  <2>7. QED
    BY <1>1, <2>1, <2>4, <2>5, <2>6
<1>4. CASE ~Sleep /\ ~Receive
  <2>1. UNCHANGED <<zpc, my_sleep>>
    BY <1>4 DEF Next, Exited, Step, vars, Play, Sensor, Picture, PictureStep, Main,
       Server, SoundDevice, CameraDriver, sleepVars, sleepThreadVars
  <2>2. QED
    BY <1>1, <2>1
<1>5. QED
  BY <1>2, <1>3, <1>4

\* The alert that the thread has decided on and not sent is counted as sent.
THEOREM AlertInvAlways == AlertSpec => []AlertInv
<1>1. AlertInit => AlertInv
  <2>1. AlertInit => everArmed \in BOOLEAN
    BY DEF AlertInit
  <2>2. QED
    BY <2>1 DEF Starts, AlertInit, Init, ProcessInit, SleepInit, AlertInv, One
<1>2. TypeInv /\ AlertInv /\ [AlertNext]_alertVars => AlertInv'
  <2> SUFFICES ASSUME TypeInv, AlertInv, [AlertNext]_alertVars
               PROVE  AlertInv'
    OBVIOUS
  <2>1. CASE UNCHANGED alertVars
    BY <2>1 DEF alertVars, vars, AlertInv, One, sleepVars, sleepThreadVars
  <2>2. QED
    BY <2>1, StepKeepsAlertInv
<1>3. AlertSpec => []TypeInv
  BY AlertSpecImpliesSpec, TypeInvAlways, PTL
<1>4. QED
  BY <1>1, <1>2, <1>3, PTL DEF AlertSpec

\* At most one alert is late, and none comes before the first command 08.
THEOREM AtMostOneLateAlertAlways == AlertSpec => []AtMostOneLateAlert
<1>1. TypeInv /\ AlertInv => AtMostOneLateAlert
  BY DEF TypeInv, TypeOK, ProcessTypeOK, AlertInv, AtMostOneLateAlert, One
<1>2. AlertSpec => []TypeInv
  BY AlertSpecImpliesSpec, TypeInvAlways, PTL
<1>3. QED
  BY <1>1, <1>2, AlertInvAlways, PTL

-----------------------------------------------------------------------------
(* The buffers of the camera.                                              *)

\* Those histories only watch as well.
LEMMA PhotoSpecImpliesSpec == PhotoSpec => Spec
<1>1. PhotoInit => Init
  BY DEF PhotoInit
<1>2. [PhotoNext]_photoVars => [Next]_vars
  BY DEF PhotoNext, photoVars
<1>3. QED
  BY <1>1, <1>2, PTL DEF PhotoSpec, Spec

\* v4l2_init queues each buffer once.
LEMMA StartPlaces ==
  ASSUME CameraStart, done = <<>>, held = None
  PROVE  NoneTwice' /\ UNCHANGED <<done, held>>
<1>1. UNCHANGED <<done, held>> /\ queue' = [i \in 1..NBuf |-> i]
  BY DEF CameraStart, Buffers
<1>2. queue' \in Seq(Nat) /\ Len(queue') = NBuf /\ DOMAIN queue' = 1..NBuf
  BY <1>1, CameraAssumption
<1>3. \A i \in 1..NBuf : queue'[i] = i
  BY <1>1
<1>4. Len(done') = 0 /\ DOMAIN done' = {}
  BY <1>1
<1>5. QED
  BY <1>1, <1>2, <1>3, <1>4, CameraAssumption DEF NoneTwice, None, One

\* The driver moves a buffer from one queue to the other.
LEMMA FillPlaces ==
  ASSUME CameraTypeOK, NoneTwice, CameraFill
  PROVE  /\ NoneTwice'
         /\ Len(done') = Len(done) + 1
         /\ done'[Len(done')] = Head(queue)
         /\ \A i \in 1..Len(done) : done'[i] = done[i] /\ done[i] # Head(queue)
         /\ Head(queue) # held /\ Head(queue) \in Buffers
<1> USE DEF CameraTypeOK, CameraFill, NoneTwice, One
<1>1. /\ Len(queue) \in Nat /\ DOMAIN queue = 1..Len(queue)
      /\ Len(done) \in Nat /\ DOMAIN done = 1..Len(done)
  BY LenProperties
<1>2. /\ Len(queue) > 0 /\ Head(queue) = queue[1] /\ Head(queue) \in Buffers
      /\ queue' \in Seq(Buffers) /\ Len(queue') = Len(queue) - 1
      /\ \A i \in 1..Len(queue') : queue'[i] = queue[i + 1]
  BY <1>1, HeadTailProperties
<1>3. /\ done' \in Seq(Buffers) /\ Len(done') = Len(done) + 1
      /\ \A i \in 1..Len(done) : done'[i] = done[i]
      /\ done'[Len(done) + 1] = queue[1]
  BY <1>1, <1>2, AppendProperties
<1>4. DOMAIN queue' = 1..Len(queue') /\ DOMAIN done' = 1..Len(done')
  BY <1>2, <1>3, LenProperties
<1>5. NoneTwice'
  <2>1. Len(queue') + Len(done') + One(held' # None) = NBuf
    BY <1>1, <1>2, <1>3, <1>4
  <2>2. \A i, j \in DOMAIN queue' : queue'[i] = queue'[j] => i = j
    BY <1>1, <1>2, <1>3, <1>4
  <2>3. \A i, j \in DOMAIN done' : done'[i] = done'[j] => i = j
    <3>1. /\ \A i, j \in DOMAIN done : done[i] = done[j] => i = j
          /\ \A i \in DOMAIN queue, j \in DOMAIN done : queue[i] # done[j]
      OBVIOUS
    <3> HIDE DEF CameraTypeOK, NoneTwice, CameraFill, One
    <3>2. 1 \in DOMAIN queue
      BY <1>1, <1>2
    <3>3. \A i \in DOMAIN done' : i \in DOMAIN done \/ i = Len(done) + 1
      BY <1>1, <1>3, <1>4
    <3>4. \A i \in DOMAIN done : done'[i] = done[i] /\ done[i] # queue[1]
      BY <1>1, <1>3, <3>1, <3>2
    <3>5. QED
      BY <1>3, <3>1, <3>3, <3>4
  <2>4. \A i \in DOMAIN queue', j \in DOMAIN done' : queue'[i] # done'[j]
    BY <1>1, <1>2, <1>3, <1>4
  <2>5. /\ \A i \in DOMAIN queue' : queue'[i] # held'
        /\ \A i \in DOMAIN done' : done'[i] # held'
    BY <1>1, <1>2, <1>3, <1>4
  <2>6. QED
    BY <2>1, <2>2, <2>3, <2>4, <2>5
<1>6. 1 \in DOMAIN queue /\ UNCHANGED held
  BY <1>1, <1>2
<1>7. \A i \in 1..Len(done) : done'[i] = done[i] /\ done[i] # queue[1]
  BY <1>1, <1>3, <1>6
<1>8. QED
  BY <1>2, <1>3, <1>5, <1>6, <1>7

\* VIDIOC_DQBUF takes the oldest filled buffer.
LEMMA GetPlaces ==
  ASSUME CameraTypeOK, NoneTwice, held = None, CameraGet
  PROVE  /\ NoneTwice'
         /\ held' = done[1] /\ held' \in Buffers
         /\ Len(done') = Len(done) - 1
         /\ \A i \in 1..Len(done') : done'[i] = done[i + 1]
<1> USE DEF CameraTypeOK, CameraGet, NoneTwice, One
<1>1. /\ Len(queue) \in Nat /\ DOMAIN queue = 1..Len(queue)
      /\ Len(done) \in Nat /\ DOMAIN done = 1..Len(done)
  BY LenProperties
<1>2. /\ Len(done) > 0 /\ Head(done) = done[1] /\ Head(done) \in Buffers
      /\ done' \in Seq(Buffers) /\ Len(done') = Len(done) - 1
      /\ \A i \in 1..Len(done') : done'[i] = done[i + 1]
  BY <1>1, HeadTailProperties
<1>3. DOMAIN done' = 1..Len(done') /\ held' # None
  BY <1>2, LenProperties DEF Buffers, None
<1>4. NoneTwice'
  <2>1. Len(queue') + Len(done') + One(held' # None) = NBuf
    BY <1>1, <1>2, <1>3
  <2>2. \A i, j \in DOMAIN queue' : queue'[i] = queue'[j] => i = j
    BY <1>1, <1>2, <1>3
  <2>3. \A i, j \in DOMAIN done' : done'[i] = done'[j] => i = j
    BY <1>1, <1>2, <1>3
  <2>4. \A i \in DOMAIN queue', j \in DOMAIN done' : queue'[i] # done'[j]
    BY <1>1, <1>2, <1>3
  <2>5. /\ \A i \in DOMAIN queue' : queue'[i] # held'
        /\ \A i \in DOMAIN done' : done'[i] # held'
    BY <1>1, <1>2, <1>3
  <2>6. QED
    BY <2>1, <2>2, <2>3, <2>4, <2>5
<1>5. QED
  BY <1>1, <1>2, <1>4

\* VIDIOC_QBUF gives the held one back.
LEMMA PutPlaces ==
  ASSUME CameraTypeOK, NoneTwice, held # None, CameraPut
  PROVE  NoneTwice'
<1> USE DEF CameraTypeOK, CameraPut, NoneTwice, One
<1>1. /\ Len(queue) \in Nat /\ DOMAIN queue = 1..Len(queue)
      /\ Len(done) \in Nat /\ DOMAIN done = 1..Len(done)
      /\ held \in Buffers
  BY LenProperties
<1>2. /\ queue' \in Seq(Buffers) /\ Len(queue') = Len(queue) + 1
      /\ \A i \in 1..Len(queue) : queue'[i] = queue[i]
      /\ queue'[Len(queue) + 1] = held
  BY <1>1, AppendProperties
<1>3. /\ DOMAIN queue' = 1..Len(queue')
      /\ \A i \in DOMAIN queue : queue[i] \in Buffers
      /\ \A i \in DOMAIN done : done[i] \in Buffers
  BY <1>1, <1>2, LenProperties
<1>4. None \notin Buffers
  BY DEF Buffers, None
<1>5. QED
  BY <1>1, <1>2, <1>3, <1>4

\* Every step of another thread than the picture thread leaves it alone.
LEMMA OthersKeepCamera ==
  ASSUME [Next]_vars, ~Picture, ~CameraDriver
  PROVE  UNCHANGED <<streaming, queue, done, held, cpc>>
BY DEF Next, Exited, Step, vars, Receive, Play, Sensor, Sleep, Main, Server,
   SoundDevice, camera

LEMMA StepKeepsBufferInv ==
  ASSUME TypeInv, BufferInv, [Next]_vars
  PROVE  BufferInv'
<1> USE DEF BufferInv
<1>1. CameraTypeOK
  BY DEF TypeInv, TypeOK
<1>2. CASE Picture
  <2>1. CASE PictureOpen
    <3>1. ~streaming /\ done = <<>> /\ held = None
      BY <2>1 DEF PictureOpen
    <3>2. CASE CameraStart
      <4>1. NoneTwice' /\ done' = <<>> /\ held' = None /\ streaming'
        BY <3>1, <3>2, StartPlaces DEF CameraStart
      <4>2. cpc' \in {"lock", "returned"}
        BY <2>1 DEF PictureOpen
      <4>3. QED
        BY <4>1, <4>2
    <3>3. CASE cpc' = "returned" /\ UNCHANGED camera
      <4>1. ~streaming' /\ done' = <<>> /\ held' = None
        BY <3>1, <3>3 DEF camera
      <4>2. QED
        BY <3>3, <4>1
    <3>4. QED
      BY <2>1, <3>2, <3>3 DEF PictureOpen
  <2>2. CASE PictureOpenFails \/ PictureLock \/ PictureWait \/ PictureWake
             \/ PictureUnlock \/ PictureCameraFails \/ PictureSave
             \/ PictureSendLock \/ PictureSend
    <3>1. UNCHANGED camera
      BY <2>2 DEF PictureOpenFails, PictureLock, PictureWait, PictureWake,
         PictureUnlock, PictureCameraFails, PictureSave, PictureSendLock, PictureSend
    <3>2. UNCHANGED NoneTwice
      BY <3>1 DEF NoneTwice, camera
    <3>3. cpc' # "open" \/ cpc' = cpc
      BY <2>2 DEF PictureOpenFails, PictureLock, PictureWait, PictureWake,
         PictureUnlock, PictureCameraFails, PictureSave, PictureSendLock, PictureSend
    <3>4. cpc' \in {"lock", "wait", "waiting", "woken", "get"}
            => cpc \in {"lock", "wait", "waiting", "woken", "get"}
      BY <2>2 DEF PictureOpenFails, PictureLock, PictureWait, PictureWake,
         PictureUnlock, PictureCameraFails, PictureSave, PictureSendLock, PictureSend
    <3>5. QED
      BY <3>1, <3>2, <3>3, <3>4 DEF camera
  <2>3. CASE PictureGet
    <3>1. streaming /\ held = None /\ NoneTwice
      BY <2>3 DEF PictureGet, CameraGet
    <3>2. NoneTwice' /\ streaming' /\ cpc' = "save"
      BY <1>1, <2>3, <3>1, GetPlaces DEF PictureGet, CameraGet
    <3>3. QED
      BY <3>2
  <2>4. CASE PicturePut
    <3>1. held # None /\ streaming /\ NoneTwice
      BY <2>4 DEF TypeInv, PicturePut
    <3>2. NoneTwice' /\ streaming' /\ cpc' = "lock" /\ held' = None
      BY <1>1, <2>4, <3>1, PutPlaces DEF PicturePut, CameraPut
    <3>3. QED
      BY <3>2
  <2>5. QED
    BY <1>2, <2>1, <2>2, <2>3, <2>4 DEF Picture, PictureStep
<1>3. CASE CameraDriver
  <2>1. streaming /\ NoneTwice /\ CameraFill /\ UNCHANGED <<streaming, held, cpc>>
    BY <1>3 DEF CameraDriver, CameraFill
  <2>2. QED
    BY <1>1, <2>1, FillPlaces
<1>4. CASE ~Picture /\ ~CameraDriver
  <2>1. UNCHANGED <<streaming, queue, done, held, cpc>>
    BY <1>4, OthersKeepCamera
  <2>2. QED
    BY <2>1 DEF NoneTwice
<1>5. QED
  BY <1>2, <1>3, <1>4

\* From v4l2_start on, each buffer is in exactly one place.
LEMMA BufferInvAlways == Spec => []BufferInv
<1>1. Init => BufferInv
  BY DEF Starts, Init, CameraInit, PictureInit, BufferInv
<1>2. QED
  BY <1>1, StepKeepsBufferInv, TypeInvAlways, PTL DEF Spec

\* Once streaming, no buffer of the camera is lost and none is in two places,
\* however the picture thread and the driver take turns.
THEOREM BuffersConservedAlways == Spec => []BuffersConserved
<1>1. TypeInv /\ BufferInv => BuffersConserved
  <2> SUFFICES ASSUME TypeInv, BufferInv, streaming
               PROVE  LET places == queue \o done \o
                                    (IF held = None THEN <<>> ELSE <<held>>)
                      IN  /\ Len(places) = NBuf
                          /\ \A i, j \in DOMAIN places :
                               places[i] = places[j] => i = j
    BY DEF BuffersConserved
  <2> DEFINE used == IF held = None THEN <<>> ELSE <<held>>
             both == queue \o done
             places == both \o used
  <2>1. NoneTwice /\ queue \in Seq(Buffers) /\ done \in Seq(Buffers)
    BY DEF BufferInv, TypeInv, TypeOK, CameraTypeOK
  <2>2. used \in Seq(Buffers) /\ Len(used) = One(held # None)
        /\ \A i \in 1..Len(used) : i = 1 /\ used[i] = held
    <3>1. held \in Buffers \union {None}
      BY DEF TypeInv, TypeOK, CameraTypeOK
    <3>2. CASE held = None
      BY <3>2 DEF One
    <3>3. CASE held # None
      BY <3>1, <3>3 DEF One
    <3>4. QED
      BY <3>2, <3>3
  <2>3. /\ both \in Seq(Buffers) /\ Len(both) = Len(queue) + Len(done)
        /\ \A i \in 1..Len(both) :
             both[i] = IF i <= Len(queue) THEN queue[i] ELSE done[i - Len(queue)]
    BY <2>1, ConcatProperties
  <2> HIDE DEF both, used
  <2>4. /\ places \in Seq(Buffers) /\ Len(places) = Len(both) + Len(used)
        /\ \A i \in 1..Len(places) :
             places[i] = IF i <= Len(both) THEN both[i] ELSE used[i - Len(both)]
    BY <2>2, <2>3, ConcatProperties
  <2>5. DOMAIN places = 1..Len(places)
    BY <2>4, LenProperties
  <2> HIDE DEF places
  <2>6. /\ DOMAIN queue = 1..Len(queue) /\ DOMAIN done = 1..Len(done)
        /\ Len(queue) \in Nat /\ Len(done) \in Nat /\ Len(used) \in Nat
    BY <2>1, <2>2, LenProperties
  <2>7. Len(places) = NBuf
    BY <2>1, <2>2, <2>3, <2>4 DEF NoneTwice
  <2>8. ASSUME NEW i \in DOMAIN places, NEW j \in DOMAIN places,
               places[i] = places[j]
        PROVE  i = j
    <3>1. /\ Len(both) = Len(queue) + Len(done)
          /\ Len(places) = Len(both) + Len(used)
          /\ Len(used) <= 1
          /\ i \in 1..Len(places) /\ j \in 1..Len(places)
          /\ i \in Nat /\ j \in Nat
      BY <2>2, <2>3, <2>4, <2>5, <2>6 DEF One
    <3>2. ASSUME NEW k \in 1..Len(places)
          PROVE  \/ k \in DOMAIN queue /\ places[k] = queue[k]
                 \/ /\ k - Len(queue) \in DOMAIN done
                    /\ places[k] = done[k - Len(queue)]
                 \/ k = Len(both) + 1 /\ places[k] = held /\ held # None
      <4>0. k \in Nat /\ Len(both) \in Nat /\ Len(places) \in Nat
        BY <2>6, <3>1
      <4>1. CASE k <= Len(queue)
        <5>1. places[k] = both[k]
          BY <2>4, <2>6, <3>1, <4>0, <4>1
        <5>2. k \in 1..Len(both) /\ both[k] = queue[k]
          BY <2>3, <2>6, <3>1, <4>0, <4>1
        <5>3. QED
          BY <2>6, <4>0, <4>1, <5>1, <5>2
      <4>2. CASE k > Len(queue) /\ k <= Len(both)
        <5>1. places[k] = both[k]
          BY <2>4, <2>6, <3>1, <4>0, <4>2
        <5>2. both[k] = done[k - Len(queue)]
          BY <2>3, <2>6, <3>1, <4>0, <4>2
        <5>3. QED
          BY <2>6, <3>1, <4>0, <4>2, <5>1, <5>2
      <4>3. CASE k > Len(both)
        <5>1. k - Len(both) \in 1..Len(used)
          BY <2>6, <3>1, <4>0, <4>3
        <5>2. places[k] = used[k - Len(both)]
          BY <2>4, <2>6, <3>1, <4>0, <4>3
        <5>3. k - Len(both) = 1 /\ used[k - Len(both)] = held
          BY <2>2, <5>1
        <5>4. held # None
          BY <2>2, <2>6, <5>1 DEF One
        <5>5. QED
          BY <4>0, <5>2, <5>3, <5>4
      <4>4. QED
        BY <4>0, <4>1, <4>2, <4>3
    <3>3. CASE i \in DOMAIN queue /\ places[i] = queue[i]
      BY <2>1, <2>6, <2>8, <3>1, <3>2, <3>3 DEF NoneTwice
    <3>4. CASE i - Len(queue) \in DOMAIN done /\ places[i] = done[i - Len(queue)]
      <4>1. j \in DOMAIN queue => places[j] # queue[j]
        BY <2>1, <2>8, <3>4 DEF NoneTwice
      <4>2. j = Len(both) + 1 => places[j] # held
        BY <2>1, <2>8, <3>4 DEF NoneTwice
      <4>3. j - Len(queue) \in DOMAIN done /\ places[j] = done[j - Len(queue)]
        BY <3>1, <3>2, <4>1, <4>2
      <4>4. i - Len(queue) = j - Len(queue)
        BY <2>1, <2>8, <3>4, <4>3 DEF NoneTwice
      <4>5. QED
        BY <2>6, <3>1, <4>4
    <3>5. CASE i = Len(both) + 1 /\ places[i] = held
      <4>1. j \in DOMAIN queue => places[j] # queue[j]
        BY <2>1, <2>8, <3>5 DEF NoneTwice
      <4>2. j - Len(queue) \in DOMAIN done => places[j] # done[j - Len(queue)]
        BY <2>1, <2>8, <3>5 DEF NoneTwice
      <4>3. QED
        BY <3>1, <3>2, <3>5, <4>1, <4>2
    <3>6. QED
      BY <3>1, <3>2, <3>3, <3>4, <3>5
  <2>9. QED
    BY <2>7, <2>8 DEF places, both, used
<1>2. QED
  BY <1>1, BufferInvAlways, TypeInvAlways, PTL

-----------------------------------------------------------------------------
(* The frames of the photos.                                               *)

\* What a step of the picture thread may do: to the camera nothing, or one of
\* three things, and only PictureSend goes from send to put.
LEMMA PictureSteps ==
  ASSUME Picture
  PROVE  \/ /\ cpc \notin {"save", "slock", "send"}
            /\ cpc' \notin {"save", "slock", "send"}
            /\ UNCHANGED <<done, held>>
         \/ /\ cpc = "get" /\ cpc' = "save" /\ CameraGet
         \/ /\ cpc \in {"save", "slock"} /\ cpc' \in {"save", "slock", "send"}
            /\ UNCHANGED <<done, held>>
         \/ /\ cpc = "send" /\ cpc' = "put" /\ UNCHANGED <<done, held>>
         \/ /\ cpc = "put" /\ cpc' = "lock" /\ UNCHANGED done /\ held' = None
BY DEF Picture, PictureStep, PictureOpen, PictureOpenFails, PictureLock, PictureWait,
   PictureWake, PictureUnlock, PictureGet, PictureCameraFails, PictureSave,
   PictureSendLock, PictureSend, PicturePut, camera, CameraStart, CameraGet, CameraPut

LEMMA StepKeepsFrameInv ==
  ASSUME TypeInv, BufferInv, FrameInv, PhotoNext
  PROVE  FrameInv'
<1> USE DEF FrameInv, One
<1>1. /\ CameraTypeOK /\ Len(done) \in Nat /\ DOMAIN done = 1..Len(done)
      /\ Len(photos) \in Nat /\ DOMAIN photos = 1..Len(photos)
      /\ \A i \in DOMAIN done : done[i] \in Buffers
      /\ held \in Buffers \union {None}
  BY LenProperties DEF TypeInv, TypeOK, CameraTypeOK
<1>2. [Next]_vars
  BY DEF PhotoNext
<1>3. CASE CameraDriver
  <2>1. NoneTwice /\ CameraFill /\ UNCHANGED <<held, cpc>>
    BY <1>3 DEF CameraDriver, CameraFill, BufferInv
  <2>2. /\ Len(done') = Len(done) + 1
        /\ done'[Len(done')] = Head(queue)
        /\ \A i \in 1..Len(done) : done'[i] = done[i] /\ done[i] # Head(queue)
        /\ Head(queue) # held /\ Head(queue) \in Buffers
    BY <1>1, <2>1, FillPlaces
  <2>3. DOMAIN done' = 1..Len(done')
    BY <1>1, <2>1, AppendProperties, LenProperties, HeadTailProperties
    DEF CameraFill, CameraTypeOK
  <2>4. Captures /\ ~SendsPhoto
    BY <1>1, <2>1, <2>2 DEF Captures, SendsPhoto
  <2>5. /\ captured' = captured + 1 /\ photos' = photos
        /\ frameIn' = [frameIn EXCEPT ![Head(queue)] = captured']
    BY <2>4 DEF PhotoNext
  <2>6. frameIn' \in [Buffers -> Nat] /\ captured' \in Nat
    BY <2>2, <2>5
  <2>7. ASSUME NEW i \in DOMAIN done'
        PROVE  frameIn'[done'[i]] = captured' - Len(done') + i
    <3>1. CASE i = Len(done')
      <4>1. frameIn'[done'[i]] = captured'
        BY <2>2, <2>5, <3>1
      <4>2. captured' \in Nat /\ Len(done') \in Nat
        BY <1>1, <2>2, <2>6
      <4>3. QED
        BY <3>1, <4>1, <4>2
    <3>2. CASE i # Len(done')
      <4>1. i \in DOMAIN done
        BY <1>1, <2>2, <2>3, <3>2
      <4>2. frameIn'[done'[i]] = frameIn[done[i]]
        BY <1>1, <2>2, <2>5, <4>1
      <4>3. QED
        BY <1>1, <2>2, <2>5, <4>1, <4>2
    <3>3. QED
      BY <3>1, <3>2
  <2>8. held' # None => frameIn'[held'] = captured' - Len(done')
    BY <1>1, <2>1, <2>2, <2>5
  <2>9. captured' = Len(photos') + One(cpc' \in {"save", "slock", "send"}) + Len(done')
    <3>1. /\ One(cpc' \in {"save", "slock", "send"})
             = One(cpc \in {"save", "slock", "send"})
          /\ One(cpc \in {"save", "slock", "send"}) \in Nat
      BY <2>1
    <3>2. captured = Len(photos) + One(cpc \in {"save", "slock", "send"}) + Len(done)
      OBVIOUS
    <3> HIDE DEF FrameInv, One
    <3>3. QED
      BY <1>1, <2>2, <2>5, <3>1, <3>2
  <2>10. QED
    BY <2>5, <2>6, <2>7, <2>8, <2>9
<1>4. ASSUME UNCHANGED done
      PROVE  UNCHANGED <<captured, frameIn>>
  <2>1. ~Captures
    BY <1>1, <1>4 DEF Captures
  <2>2. QED
    BY <2>1 DEF PhotoNext
<1>5. CASE Picture
  <2>1. CASE cpc = "get" /\ cpc' = "save" /\ CameraGet
    <3>1. NoneTwice /\ held = None
      BY <2>1 DEF CameraGet, BufferInv
    <3>2. /\ held' = done[1] /\ held' \in Buffers
          /\ Len(done') = Len(done) - 1
          /\ \A i \in 1..Len(done') : done'[i] = done[i + 1]
      BY <1>1, <2>1, <3>1, GetPlaces
    <3>3. DOMAIN done' = 1..Len(done') /\ Len(done') \in Nat /\ 1 \in DOMAIN done
      BY <1>1, <2>1, HeadTailProperties, LenProperties DEF CameraGet, CameraTypeOK
    <3>4. UNCHANGED <<captured, frameIn, photos>>
      BY <1>1, <2>1, <3>2 DEF PhotoNext, Captures, SendsPhoto
    <3>5. ASSUME NEW i \in DOMAIN done'
          PROVE  frameIn'[done'[i]] = captured' - Len(done') + i
      <4>1. i + 1 \in DOMAIN done /\ i \in Nat
        BY <1>1, <3>2, <3>3
      <4>2. frameIn[done[i + 1]] = captured - Len(done) + (i + 1)
        BY <4>1
      <4>3. done'[i] = done[i + 1] /\ captured \in Nat
        BY <3>2, <3>3
      <4>4. Len(done') = Len(done) - 1 /\ Len(done) \in Nat
        BY <1>1, <3>2
      <4>5. frameIn' = frameIn /\ captured' = captured
        BY <3>4
      <4> HIDE DEF FrameInv
      <4>6. QED
        BY <4>1, <4>2, <4>3, <4>4, <4>5
    <3>6. frameIn'[held'] = captured' - Len(done')
      <4>1. frameIn[done[1]] = captured - Len(done) + 1 /\ captured \in Nat
        BY <3>3
      <4>2. QED
        BY <1>1, <3>2, <3>4, <4>1
    <3>7. captured' = Len(photos') + One(cpc' \in {"save", "slock", "send"}) + Len(done')
      BY <1>1, <2>1, <3>2, <3>4
    <3>8. QED
      BY <3>4, <3>5, <3>6, <3>7
  <2>2. CASE cpc = "send" /\ cpc' = "put" /\ UNCHANGED <<done, held>>
    <3>1. held \in Buffers /\ held # None
      BY <1>1, <2>2 DEF TypeInv
    <3>2. frameIn[held] \in Nat /\ frameIn[held] = Len(photos) + 1
      BY <1>1, <2>2, <3>1
    <3>3. photos' = Append(photos, frameIn[held])
      BY <2>2 DEF PhotoNext, SendsPhoto
    <3>4. /\ photos' \in Seq(Nat) /\ Len(photos') = Len(photos) + 1
          /\ \A k \in 1..Len(photos) : photos'[k] = photos[k]
          /\ photos'[Len(photos) + 1] = Len(photos) + 1
      BY <3>2, <3>3, AppendProperties
    <3>5. DOMAIN photos' = 1..Len(photos')
      BY <3>4, LenProperties
    <3>6. \A k \in DOMAIN photos' : photos'[k] = k
      <4>1. \A k \in 1..Len(photos) : photos'[k] = k
        BY <1>1, <3>4
      <4>2. \A k \in DOMAIN photos' : k \in 1..Len(photos) \/ k = Len(photos) + 1
        BY <1>1, <3>4, <3>5
      <4>3. QED
        BY <3>4, <4>1, <4>2
    <3>7. QED
      BY <1>1, <1>4, <2>2, <3>4, <3>6
  <2>3. CASE ~SendsPhoto /\ UNCHANGED <<done, held>>
             /\ (cpc \in {"save", "slock", "send"} <=> cpc' \in {"save", "slock", "send"})
    <3>1. photos' = photos
      BY <2>3 DEF PhotoNext
    <3>2. QED
      BY <1>4, <2>3, <3>1
  <2>4. CASE cpc = "put" /\ cpc' = "lock" /\ UNCHANGED done /\ held' = None
    <3>1. photos' = photos
      BY <2>4 DEF PhotoNext, SendsPhoto
    <3>2. QED
      BY <1>4, <2>4, <3>1
  <2>5. QED
    BY <1>5, <2>1, <2>2, <2>3, <2>4, PictureSteps DEF SendsPhoto
<1>6. CASE ~Picture /\ ~CameraDriver
  <2>1. UNCHANGED <<done, held, cpc>>
    BY <1>2, <1>6, OthersKeepCamera
  <2>2. photos' = photos
    BY <2>1 DEF PhotoNext, SendsPhoto
  <2>3. QED
    BY <1>4, <2>1, <2>2
<1>7. QED
  BY <1>3, <1>5, <1>6

\* The frames that were captured are the photos sent, the one in use and
\* those in done, in this order.
LEMMA FrameInvAlways == PhotoSpec => []FrameInv
<1>1. PhotoInit => FrameInv
  BY CameraAssumption DEF Starts, PhotoInit, Init, CameraInit, PictureInit, FrameInv, One, Buffers, None
<1>2. TypeInv /\ BufferInv /\ FrameInv /\ [PhotoNext]_photoVars => FrameInv'
  <2> SUFFICES ASSUME TypeInv, BufferInv, FrameInv, [PhotoNext]_photoVars
               PROVE  FrameInv'
    OBVIOUS
  <2>1. CASE UNCHANGED photoVars
    BY <2>1 DEF photoVars, vars, camera, FrameInv
  <2>2. QED
    BY <2>1, StepKeepsFrameInv
<1>3. PhotoSpec => [](TypeInv /\ BufferInv)
  BY PhotoSpecImpliesSpec, TypeInvAlways, BufferInvAlways, PTL
<1>4. QED
  BY <1>1, <1>2, <1>3, PTL DEF PhotoSpec

\* The k-th photo shows the k-th frame, for every number of buffers.
THEOREM PhotoIsKthFrameAlways == PhotoSpec => []PhotoIsKthFrame
<1>1. FrameInv => PhotoIsKthFrame
  BY DEF FrameInv, PhotoIsKthFrame
<1>2. QED
  BY <1>1, FrameInvAlways, PTL

\* While a photo is made, fewer newer frames exist than the camera has
\* buffers.
THEOREM BoundedLagAlways == PhotoSpec => []BoundedLag
<1>1. TypeInv /\ BufferInv /\ FrameInv => BoundedLag
  <2> SUFFICES ASSUME TypeInv, BufferInv, FrameInv, held # None
               PROVE  captured - frameIn[held] <= NBuf - 1
    BY DEF BoundedLag
  <2>1. Len(queue) \in Nat /\ Len(done) \in Nat
    BY DEF TypeInv, TypeOK, CameraTypeOK
  <2>2. Len(queue) + Len(done) + 1 = NBuf
    BY DEF BufferInv, NoneTwice, One
  <2>3. captured \in Nat /\ frameIn[held] = captured - Len(done)
    BY DEF FrameInv
  <2>4. QED
    BY <2>1, <2>2, <2>3, CameraAssumption
<1>2. PhotoSpec => [](TypeInv /\ BufferInv)
  BY PhotoSpecImpliesSpec, TypeInvAlways, BufferInvAlways, PTL
<1>3. QED
  BY <1>1, <1>2, FrameInvAlways, PTL

\* No step changes the frame in the buffer that is saved and sent.
THEOREM FrameKeptWhileUsedAlways == PhotoSpec => FrameKeptWhileUsed
<1> DEFINE Kept == \A b \in Buffers : b = held /\ cpc \in {"save", "slock", "send"}
                     => frameIn'[b] = frameIn[b]
<1>1. TypeInv /\ BufferInv /\ FrameInv /\ [PhotoNext]_photoVars => [Kept]_photoVars
  <2> SUFFICES ASSUME TypeInv, BufferInv, FrameInv, PhotoNext, held \in Buffers,
                      cpc \in {"save", "slock", "send"}
               PROVE  frameIn'[held] = frameIn[held]
    OBVIOUS
  <2>1. CASE CameraDriver
    <3>1. CameraTypeOK /\ NoneTwice /\ CameraFill
      BY <2>1 DEF CameraDriver, CameraFill, BufferInv, TypeInv, TypeOK
    <3>2. Head(queue) # held /\ Head(queue) \in Buffers
      BY <3>1, FillPlaces
    <3>3. QED
      BY <3>2 DEF PhotoNext, FrameInv
  <2>2. CASE ~CameraDriver
    <3>1. [Next]_vars
      BY DEF PhotoNext
    <3>2. UNCHANGED done
      BY <2>2, <3>1, OthersKeepCamera, PictureSteps
    <3>3. Len(done) \in Nat
      BY DEF TypeInv, TypeOK, CameraTypeOK
    <3>4. QED
      BY <3>2, <3>3 DEF PhotoNext, Captures
  <2>3. QED
    BY <2>1, <2>2
<1>2. PhotoSpec => [](TypeInv /\ BufferInv)
  BY PhotoSpecImpliesSpec, TypeInvAlways, BufferInvAlways, PTL
<1>3. QED
  BY <1>1, <1>2, FrameInvAlways, PTL DEF PhotoSpec, FrameKeptWhileUsed

-----------------------------------------------------------------------------
(* Photos and signals.                                                     *)

\* At most one signal per photo is used up on the way to it, and one that
\* finds the picture thread waiting is the next.
LEMMA StepKeepsWakeInv ==
  ASSUME TypeInv, WakeInv, Len(photos) \in Nat, PhotoNext, ~SpuriousWakeups,
         photos \in Seq(Nat), SendsPhoto => frameIn[held] \in Nat
  PROVE  WakeInv'
<1> DEFINE Busy(pc) == One(pc \in {"woken", "get", "save", "slock", "send"})
           Called(pc, con) == One(pc = "waiting" /\ "picture" \notin con)
<1>1. /\ wakes \in Nat
      /\ Len(photos) + Busy(cpc) + Called(cpc, send_con_var) <= wakes
      /\ send_con_var \subseteq {"picture"}
  BY DEF WakeInv, TypeInv, TypeOK, ProcessTypeOK
<1>2. SUFFICES /\ wakes' \in Nat
               /\ Len(photos') + Busy(cpc') + Called(cpc', send_con_var') <= wakes'
  BY DEF WakeInv
<1>3. wakes' = wakes + One(Wakes)
  BY DEF PhotoNext
<1>4. CASE Picture
  <2>1. wakes' = wakes
    BY <1>1, <1>3, <1>4 DEF Picture, Wakes, One
  <2>2. CASE SendsPhoto
    <3>1. Len(photos') = Len(photos) + 1
      BY <2>2, AppendProperties DEF PhotoNext
    <3>2. QED
      BY <1>1, <2>1, <2>2, <3>1 DEF SendsPhoto, One
  <2>3. CASE ~SendsPhoto
    <3>1. photos' = photos
      BY <2>3 DEF PhotoNext
    <3>2. Busy(cpc') + Called(cpc', send_con_var')
            <= Busy(cpc) + Called(cpc, send_con_var)
      BY <1>4, <2>3 DEF Picture, PictureStep, PictureOpen, PictureOpenFails,
         PictureLock, PictureWait, PictureWake, PictureUnlock, PictureGet,
         PictureCameraFails, PictureSave, PictureSendLock, PictureSend, PicturePut,
         Wait, Woken, Leave, sendVars, One, SendsPhoto
    <3>3. /\ Busy(cpc) \in Nat /\ Called(cpc, send_con_var) \in Nat
          /\ Busy(cpc') \in Nat /\ Called(cpc', send_con_var') \in Nat
      BY DEF One
    <3> HIDE DEF Busy, Called
    <3>4. QED
      BY <1>1, <2>1, <3>1, <3>2, <3>3
  <2>4. QED
    BY <2>2, <2>3
<1>5. CASE Main
  <2>1. cpc' = cpc /\ photos' = photos
    BY <1>5 DEF Main, PhotoNext, SendsPhoto
  <2>2. CASE MainSignal
    <3>1. CASE send_con_var = {}
      <4>1. send_con_var' = {} /\ wakes' = wakes
        BY <1>1, <1>3, <2>2, <3>1 DEF MainSignal, Signal, Wakes, One
      <4>2. QED
        BY <1>1, <2>1, <3>1, <4>1
    <3>2. CASE send_con_var = {"picture"}
      <4>1. wakes' = wakes + 1
        BY <1>3, <2>2, <3>2 DEF MainSignal, Wakes, One
      <4>2. /\ Called(cpc, send_con_var) = 0 /\ Called(cpc', send_con_var') \in {0, 1}
            /\ Busy(cpc') = Busy(cpc) /\ Busy(cpc) \in Nat
        BY <2>1, <3>2 DEF One
      <4> HIDE DEF Busy, Called
      <4>3. QED
        BY <1>1, <2>1, <4>1, <4>2
    <3>3. QED
      BY <1>1, <3>1, <3>2
  <2>3. CASE ~MainSignal
    <3>1. send_con_var' = send_con_var /\ ~Wakes
      BY <1>5, <2>3 DEF Main, MainStep, MainOpen, MainOpenFails, MainRead, MainLock,
         sendVars, Wakes
    <3>2. wakes' = wakes
      BY <1>1, <1>3, <3>1 DEF One
    <3>3. QED
      BY <1>1, <2>1, <3>1, <3>2
  <2>4. QED
    BY <2>2, <2>3
<1>6. CASE ~Picture /\ ~Main
  <2>1. UNCHANGED <<cpc, send_con_var, mpc>>
    BY <1>6 DEF PhotoNext, Next, Exited, Step, vars, Receive, Play, Sensor, Sleep,
       Server, SoundDevice, CameraDriver, sendVars
  <2>2. photos' = photos /\ wakes' = wakes
    BY <1>1, <1>3, <2>1 DEF PhotoNext, SendsPhoto, Wakes, One
  <2>3. QED
    BY <1>1, <2>1, <2>2
<1>7. QED
  BY <1>4, <1>5, <1>6

\* A signal is used up by the photo it leads to, at the latest.
LEMMA WakeInvAlways == PhotoSpec => []WakeInv
<1>1. PhotoInit => WakeInv
  BY DEF Starts, PhotoInit, Init, PictureInit, WakeInv, One
<1>2. TypeInv /\ FrameInv /\ WakeInv /\ [PhotoNext]_photoVars => WakeInv'
  <2> SUFFICES ASSUME TypeInv, FrameInv, WakeInv, [PhotoNext]_photoVars
               PROVE  WakeInv'
    OBVIOUS
  <2>1. CASE UNCHANGED photoVars
    BY <2>1 DEF photoVars, vars, sendVars, WakeInv
  <2>2. CASE PhotoNext /\ ~SpuriousWakeups
    <3>1. photos \in Seq(Nat) /\ Len(photos) \in Nat
      BY DEF FrameInv
    <3>2. SendsPhoto => frameIn[held] \in Nat
      BY DEF SendsPhoto, TypeInv, TypeOK, CameraTypeOK, FrameInv
    <3>3. QED
      BY <2>2, <3>1, <3>2, StepKeepsWakeInv
  <2>3. CASE PhotoNext /\ SpuriousWakeups
    BY <2>3 DEF WakeInv, PhotoNext, One
  <2>4. QED
    BY <2>1, <2>2, <2>3
<1>3. PhotoSpec => []TypeInv
  BY PhotoSpecImpliesSpec, TypeInvAlways, PTL
<1>4. QED
  BY <1>1, <1>2, <1>3, FrameInvAlways, PTL DEF PhotoSpec

\* Where pthread_cond_wait returns only after a signal, each photo has one.
THEOREM PhotoPerSignalAlways == PhotoSpec => []PhotoPerSignal
<1>1. FrameInv /\ WakeInv => PhotoPerSignal
  <2> SUFFICES ASSUME FrameInv, WakeInv, ~SpuriousWakeups
               PROVE  Len(photos) <= wakes
    BY DEF PhotoPerSignal
  <2> DEFINE busy == One(cpc \in {"woken", "get", "save", "slock", "send"})
             called == One(cpc = "waiting" /\ "picture" \notin send_con_var)
  <2>1. busy \in Nat /\ called \in Nat /\ Len(photos) \in Nat
    BY DEF One, FrameInv
  <2>2. wakes \in Nat /\ Len(photos) + busy + called <= wakes
    BY DEF WakeInv
  <2> HIDE DEF busy, called
  <2>3. QED
    BY <2>1, <2>2
<1>2. QED
  BY <1>1, FrameInvAlways, WakeInvAlways, PTL

-----------------------------------------------------------------------------
(* The film.                                                               *)

\* pthread_cond_wait puts the thread on send_con_var as it begins to wait,
\* and it leaves the list before it goes on.
LEMMA ListedWaitsAlways == Spec => []ListedWaits
<1>1. Init => ListedWaits
  BY DEF Init, ProcessInit, ListedWaits
<1>2. TypeInv /\ ListedWaits /\ [Next]_vars => ListedWaits'
  <2> SUFFICES ASSUME TypeInv, ListedWaits, [Next]_vars
               PROVE  ListedWaits'
    OBVIOUS
  <2>1. send_con_var \subseteq {"picture"}
    BY DEF TypeInv, TypeOK, ProcessTypeOK
  <2>2. CASE Picture
    BY <2>1, <2>2 DEF ListedWaits, Picture, PictureStep, PictureOpen, PictureOpenFails,
       PictureLock, PictureWait, PictureWake, PictureUnlock, PictureGet,
       PictureCameraFails, PictureSave, PictureSendLock, PictureSend, PicturePut,
       Wait, Leave, sendVars
  <2>3. CASE Main
    BY <2>1, <2>3 DEF ListedWaits, Main, MainStep, MainOpen, MainOpenFails, MainRead,
       MainLock, MainSignal, Signal, Leave, sendVars
  <2>4. CASE ~Picture /\ ~Main
    BY <2>4 DEF ListedWaits, Next, Exited, Step, vars, Receive, Play, Sensor, Sleep,
       Server, SoundDevice, CameraDriver, sendVars
  <2>5. QED
    BY <2>2, <2>3, <2>4
<1>3. QED
  BY <1>1, <1>2, TypeInvAlways, PTL DEF Spec

\* How the histories follow a step.
LEMMA HistorySteps ==
  ASSUME TypeInv, FrameInv, WakeInv, PhotoNext
  PROVE  /\ captured \in Nat /\ wakes \in Nat
         /\ Wakes => wakes' = wakes + 1
         /\ ~Wakes => wakes' = wakes
         /\ ~SendsPhoto => photos' = photos
         /\ UNCHANGED done => captured' = captured
         /\ Len(done') = Len(done) + 1 => captured' = captured + 1
         /\ Len(done') = Len(done) - 1 => captured' = captured
<1>1. captured \in Nat /\ wakes \in Nat /\ Len(done) \in Nat
  BY DEF FrameInv, WakeInv, TypeInv, TypeOK, CameraTypeOK
<1>2. /\ Captures => captured' = captured + 1
      /\ ~Captures => captured' = captured
      /\ Wakes => wakes' = wakes + 1
      /\ ~Wakes => wakes' = wakes
      /\ ~SendsPhoto => photos' = photos
  BY <1>1 DEF PhotoNext, One
<1>3. /\ UNCHANGED done => ~Captures
      /\ Len(done') = Len(done) + 1 => Captures
      /\ Len(done') = Len(done) - 1 => ~Captures
  BY <1>1 DEF Captures
<1>4. QED
  BY <1>1, <1>2, <1>3

\* The driver fills a buffer only while one is queued.
LEMMA DriverImplementsFilm ==
  ASSUME TypeInv, BufferInv, FrameInv, WakeInv, PhotoNext, CameraDriver
  PROVE  TheFilm!Capture
<1>1. NoneTwice /\ CameraTypeOK /\ CameraFill /\ streaming
      /\ UNCHANGED <<held, cpc, send_con_var, mpc, alive, streaming>>
  BY DEF CameraDriver, CameraFill, BufferInv, TypeInv, TypeOK, process, sendVars
<1>2. Len(done') = Len(done) + 1 /\ Len(done) \in Nat
  BY <1>1, FillPlaces DEF CameraTypeOK
<1>3. Len(queue) \in Nat /\ Len(queue) > 0
  BY <1>1 DEF CameraFill, CameraTypeOK
<1>4. captured' = captured + 1 /\ captured \in Nat /\ UNCHANGED <<photos, wakes>>
  BY <1>1, <1>2, HistorySteps DEF SendsPhoto, Wakes
<1>5. Released' = Released /\ captured < Released + NBuf
  <2>1. Len(queue) + Len(done) + One(held # None) = NBuf /\ One(held # None) \in Nat
    BY <1>1 DEF NoneTwice, One
  <2>2. One(held' # None) = One(held # None)
    BY <1>1
  <2>3. QED
    BY <1>2, <1>3, <1>4, <2>1, <2>2 DEF Released
<1>6. Turn' = Turn
  BY <1>1 DEF Turn
<1>7. QED
  BY <1>1, <1>4, <1>5, <1>6 DEF TheFilm!Capture

\* hc_04_distance calls the photographer if it waits.
LEMMA MainImplementsFilm ==
  ASSUME TypeInv, ListedWaits, FrameInv, WakeInv, PhotoNext, alive, Main
  PROVE  [TheFilm!Next]_(TheFilm!vars)
<1>1. UNCHANGED <<streaming, done, held, cpc, alive>>
  BY DEF Main, MainStep, MainOpen, MainOpenFails, MainRead, MainLock, MainSignal,
     camera, process
<1>2. UNCHANGED <<captured, photos, Released>>
  <2>1. UNCHANGED <<captured, photos>>
    BY <1>1, HistorySteps DEF SendsPhoto
  <2>2. QED
    BY <1>1, <2>1 DEF Released
<1>3. send_con_var \subseteq {"picture"}
  BY DEF TypeInv, TypeOK, ProcessTypeOK
<1>4. CASE MainSignal /\ send_con_var # {}
  <2>1. cpc = "waiting" /\ "picture" \in send_con_var /\ send_con_var' = {}
    BY <1>3, <1>4 DEF ListedWaits, MainSignal, Signal, Leave
  <2>2. Turn = "waiting" /\ Turn' = "called"
    BY <1>1, <2>1 DEF Turn
  <2>3. wakes' = wakes + 1
    BY <1>4, HistorySteps DEF Wakes, MainSignal
  <2>4. QED
    BY <1>1, <1>2, <2>2, <2>3 DEF TheFilm!Next, TheFilm!Call
<1>5. CASE ~(MainSignal /\ send_con_var # {})
  <2>1. send_con_var' = send_con_var /\ ~Wakes
    BY <1>3, <1>5 DEF Main, MainStep, MainOpen, MainOpenFails, MainRead, MainLock,
       MainSignal, Signal, sendVars, Wakes
  <2>2. wakes' = wakes
    BY <2>1, HistorySteps
  <2>3. Turn' = Turn
    BY <1>1, <2>1 DEF Turn
  <2>4. QED
    BY <1>1, <1>2, <2>2, <2>3 DEF TheFilm!vars
<1>6. QED
  BY <1>4, <1>5

\* The other threads and devices can only end the process.
LEMMA OthersImplementFilm ==
  ASSUME TypeInv, FrameInv, WakeInv, PhotoNext, alive, alive' \in BOOLEAN,
         ~Picture, ~Main, ~CameraDriver
  PROVE  [TheFilm!Next]_(TheFilm!vars)
<1>1. UNCHANGED <<streaming, done, held, cpc, send_con_var, mpc>>
  BY DEF PhotoNext, Next, Exited, Step, vars, Receive, Play, Sensor, Sleep, Server,
     SoundDevice, camera, sendVars
<1>2. UNCHANGED <<captured, photos, wakes>>
  BY <1>1, HistorySteps DEF SendsPhoto, Wakes
<1>3. UNCHANGED <<Released, Turn>>
  BY <1>1, <1>2 DEF Released, Turn
<1>4. QED
  BY <1>1, <1>2, <1>3 DEF TheFilm!Next, TheFilm!Halt, TheFilm!vars

\* The picture thread is called once for each photo, shows the frame of the
\* buffer it holds, and then gives the buffer back.
LEMMA PictureImplementsFilm ==
  ASSUME TypeInv, BufferInv, FrameInv, WakeInv, PhotoNext, alive, Picture
  PROVE  [TheFilm!Next]_(TheFilm!vars)
<1>1. UNCHANGED wakes
  BY HistorySteps DEF Picture, Wakes
<1>2. Len(done) \in Nat /\ captured \in Nat /\ None \notin Buffers
  BY DEF FrameInv, TypeInv, TypeOK, CameraTypeOK, None, Buffers
<1>3. CASE PictureOpen
  <2>1. UNCHANGED <<done, held, captured, photos, alive>>
    BY <1>3, HistorySteps DEF PictureOpen, CameraStart, camera, SendsPhoto
  <2>2. UNCHANGED Released /\ Turn = "absent"
    BY <1>3, <2>1 DEF Released, Turn, PictureOpen
  <2>3. CASE streaming' = TRUE /\ cpc' \in {"lock", "returned"}
    <3>1. Turn' \in {"idle", "gone"}
      BY <2>3 DEF Turn
    <3>2. QED
      BY <1>1, <2>1, <2>2, <2>3, <3>1 DEF TheFilm!Next, TheFilm!Start
  <2>4. CASE UNCHANGED streaming /\ cpc' = "returned"
    <3>1. Turn' = "gone"
      BY <2>4 DEF Turn
    <3>2. QED
      BY <1>1, <2>1, <2>2, <2>4, <3>1 DEF TheFilm!Next, TheFilm!Leave
  <2>5. QED
    BY <1>3, <2>3, <2>4 DEF PictureOpen, CameraStart, camera
<1>4. CASE PictureOpenFails \/ PictureCameraFails
  <2>1. UNCHANGED <<streaming, done, held, alive>> /\ cpc \in {"open", "get", "put"}
        /\ cpc' = "returned"
    BY <1>4 DEF PictureOpenFails, PictureCameraFails, camera, process
  <2>2. UNCHANGED <<captured, photos, Released>>
    BY <2>1, HistorySteps DEF SendsPhoto, Released
  <2>3. Turn \in {"absent", "called", "shown"} /\ Turn' = "gone"
    BY <2>1 DEF Turn
  <2>4. QED
    BY <1>1, <2>1, <2>2, <2>3 DEF TheFilm!Next, TheFilm!Leave
<1>5. CASE PictureLock \/ PictureUnlock \/ PictureSendLock \/ PictureSave
  <2>1. /\ UNCHANGED <<streaming, done, held, send_con_var>>
        /\ \/ cpc = "lock" /\ cpc' = "wait"
           \/ cpc \in {"woken", "save", "slock"} /\ cpc' \in {"get", "save", "slock", "send"}
        /\ alive' \in {alive, FALSE}
    BY <1>5 DEF PictureLock, PictureUnlock, PictureSendLock, PictureSave, Exit, camera,
       process, sendVars
  <2>2. UNCHANGED <<captured, photos, Released>>
    BY <2>1, HistorySteps DEF SendsPhoto, Released
  <2>3. Turn' = Turn
    BY <2>1 DEF Turn
  <2>4. QED
    BY <1>1, <2>1, <2>2, <2>3 DEF TheFilm!Next, TheFilm!Halt, TheFilm!vars
<1>6. CASE PictureWait \/ PictureWake
  <2>1. UNCHANGED <<streaming, done, held, alive>> /\ cpc' \in {"waiting", "woken"}
    BY <1>6 DEF PictureWait, PictureWake, camera, process
  <2>2. UNCHANGED <<captured, photos, Released>>
    BY <2>1, HistorySteps DEF SendsPhoto, Released
  <2>3. CASE PictureWait
    <3>1. Turn = "idle" /\ Turn' = "waiting"
      BY <2>3 DEF PictureWait, Wait, Turn
    <3>2. QED
      BY <1>1, <2>1, <2>2, <3>1 DEF TheFilm!Next, TheFilm!Listen
  <2>4. CASE PictureWake
    <3>1. /\ Turn' = "called"
          /\ Turn = IF "picture" \in send_con_var THEN "waiting" ELSE "called"
          /\ SpuriousWakeups \/ "picture" \notin send_con_var
      BY <2>4 DEF PictureWake, Woken, Turn
    <3>2. QED
      BY <1>1, <2>1, <2>2, <3>1 DEF TheFilm!Next, TheFilm!Repeat, TheFilm!vars
  <2>5. QED
    BY <1>6, <2>3, <2>4
<1>7. CASE PictureGet
  <2>1. /\ streaming /\ held = None /\ CameraGet /\ NoneTwice /\ CameraTypeOK
        /\ UNCHANGED <<streaming, alive>> /\ cpc = "get" /\ cpc' = "save"
    BY <1>7 DEF PictureGet, CameraGet, BufferInv, TypeInv, TypeOK, process
  <2>2. Len(done') = Len(done) - 1 /\ held' # None
    BY <1>2, <2>1, GetPlaces
  <2>3. UNCHANGED <<captured, photos>>
    BY <2>1, <2>2, HistorySteps DEF SendsPhoto
  <2>4. UNCHANGED <<Released, Turn>>
    BY <1>2, <2>1, <2>2, <2>3 DEF Released, Turn, One
  <2>5. QED
    BY <1>1, <2>1, <2>3, <2>4 DEF TheFilm!vars
<1>8. CASE PictureSend
  <2>1. /\ UNCHANGED <<streaming, done, held>> /\ cpc = "send" /\ cpc' = "put"
        /\ alive' \in {alive, FALSE} /\ held # None
    BY <1>8 DEF PictureSend, Send, Exit, camera, process, TypeInv
  <2>2. UNCHANGED captured
    BY <2>1, HistorySteps
  <2>3. frameIn[held] = Released + 1 /\ Released < captured /\ UNCHANGED Released
    BY <1>2, <2>1, <2>2 DEF FrameInv, Released, One
  <2>4. photos' = Append(photos, Released + 1)
    BY <2>1, <2>3 DEF PhotoNext, SendsPhoto
  <2>5. Turn = "called" /\ Turn' = "shown"
    BY <2>1 DEF Turn
  <2>6. QED
    BY <1>1, <2>1, <2>2, <2>3, <2>4, <2>5 DEF TheFilm!Next, TheFilm!Show
<1>9. CASE PicturePut
  <2>1. /\ UNCHANGED <<streaming, done, alive>> /\ cpc = "put" /\ cpc' = "lock"
        /\ held # None /\ held' = None
    BY <1>9 DEF PicturePut, CameraPut, process, TypeInv
  <2>2. UNCHANGED <<captured, photos>>
    BY <2>1, HistorySteps DEF SendsPhoto
  <2>3. Released' = Released + 1
    BY <1>2, <2>1, <2>2 DEF Released, One
  <2>4. Turn = "shown" /\ Turn' = "idle"
    BY <2>1 DEF Turn
  <2>5. QED
    BY <1>1, <2>1, <2>2, <2>3, <2>4 DEF TheFilm!Next, TheFilm!Release
<1>10. QED
  BY <1>3, <1>4, <1>5, <1>6, <1>7, <1>8, <1>9 DEF Picture, PictureStep

\* All that the refinement needs.
LEMMA FilmInvAlways ==
  PhotoSpec => [](TypeInv /\ BufferInv /\ FrameInv /\ WakeInv /\ ListedWaits)
BY PhotoSpecImpliesSpec, TypeInvAlways, BufferInvAlways, FrameInvAlways,
   WakeInvAlways, ListedWaitsAlways, PTL

\* The main loop, the picture thread and the camera implement the film, for
\* every number of buffers.
THEOREM ImplementsFilmAlways == PhotoSpec => ImplementsFilm
<1> DEFINE Inv == TypeInv /\ BufferInv /\ FrameInv /\ WakeInv /\ ListedWaits
<1>1. PhotoInit => TheFilm!Init
  <2> SUFFICES ASSUME PhotoInit
               PROVE  TheFilm!Init
    OBVIOUS
  <2>1. /\ streaming = FALSE /\ done = <<>> /\ held = None /\ captured = 0
        /\ photos = <<>> /\ wakes = 0 /\ alive = TRUE /\ cpc \in {"open", "returned"}
    BY DEF PhotoInit, Init, CameraInit, ProcessInit, PictureInit, Starts
  <2>2. Released = 0
    <3>1. Len(done) = 0
      BY <2>1
    <3>2. One(held # None) = 0 /\ captured = 0
      BY <2>1 DEF One
    <3>3. QED
      BY <3>1, <3>2 DEF Released
  <2>3. Turn \in {"absent", "gone"}
    BY <2>1 DEF Turn
  <2>4. QED
    BY <2>1, <2>2, <2>3 DEF TheFilm!Init
<1>2. Inv /\ Inv' /\ [PhotoNext]_photoVars => [TheFilm!Next]_(TheFilm!vars)
  <2> SUFFICES ASSUME Inv, Inv', [PhotoNext]_photoVars
               PROVE  [TheFilm!Next]_(TheFilm!vars)
    OBVIOUS
  <2>1. CASE UNCHANGED vars /\ UNCHANGED <<captured, photos, wakes>>
    <3>1. UNCHANGED <<streaming, done, held, cpc, send_con_var, alive>>
      BY <2>1 DEF vars, process, camera, sendVars
    <3>2. UNCHANGED Released /\ UNCHANGED Turn
      BY <2>1, <3>1 DEF Released, Turn
    <3>3. QED
      BY <2>1, <3>1, <3>2 DEF TheFilm!vars
  <2>2. CASE PhotoNext /\ alive /\ Step
    <3>1. alive' \in BOOLEAN
      BY DEF TypeInv, TypeOK, ProcessTypeOK
    <3>2. CASE CameraDriver
      BY <2>2, <3>2, DriverImplementsFilm DEF TheFilm!Next
    <3>3. QED
      BY <2>2, <3>1, <3>2, MainImplementsFilm, OthersImplementFilm, PictureImplementsFilm
  <2>3. CASE PhotoNext /\ Exited
    <3>1. UNCHANGED vars /\ UNCHANGED done /\ UNCHANGED cpc /\ UNCHANGED mpc
      BY <2>3 DEF Exited, vars, camera
    <3>2. UNCHANGED <<captured, photos, wakes>>
      BY <2>3, <3>1, HistorySteps DEF SendsPhoto, Wakes
    <3>3. QED
      BY <2>1, <3>1, <3>2
  <2>4. QED
    BY <2>1, <2>2, <2>3 DEF photoVars, PhotoNext, Next
<1>3. QED
  BY <1>1, <1>2, FilmInvAlways, PTL DEF PhotoSpec, ImplementsFilm, TheFilm!Spec

=============================================================================
