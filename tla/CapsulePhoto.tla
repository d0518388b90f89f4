------------------------------ MODULE CapsulePhoto -----------------------------
(***************************************************************************)
(* Capsule with history variables that follow the frames of the camera:    *)
(* how many were captured since VIDIOC_STREAMON, which one each buffer     *)
(* holds, which ones were sent as photos, and how many signals of          *)
(* hc_04_distance found the picture thread waiting.                        *)
(***************************************************************************)
EXTENDS Capsule

VARIABLES captured, frameIn, photos, wakes

photoVars == <<vars, captured, frameIn, photos, wakes>>

PhotoInit ==
  /\ Init
  /\ captured = 0
  /\ frameIn = [b \in Buffers |-> 0]
  /\ photos = <<>>
  /\ wakes = 0

Captures == Len(done') > Len(done)
SendsPhoto == cpc = "send" /\ cpc' = "put"
Wakes == mpc = "signal" /\ mpc' = "open" /\ send_con_var # {}

PhotoNext ==
  /\ Next
  /\ captured' = captured + One(Captures)
  /\ frameIn' = IF Captures THEN [frameIn EXCEPT ![Head(queue)] = captured']
                ELSE frameIn
  /\ photos' = IF SendsPhoto THEN Append(photos, frameIn[held]) ELSE photos
  /\ wakes' = wakes + One(Wakes)

PhotoSpec == PhotoInit /\ [][PhotoNext]_photoVars

-----------------------------------------------------------------------------
\* The k-th photo shows the k-th frame since the camera was started, however
\* long ago that was: the driver stops at NBuf filled buffers, so the first
\* NBuf photos show what the camera saw at start-up.
PhotoIsKthFrame == \A k \in DOMAIN photos : photos[k] = k

\* The frame that is saved and the frame that is sent are the same one: the
\* driver does not overwrite the buffer between VIDIOC_DQBUF and VIDIOC_QBUF.
FrameKeptWhileUsed ==
  [][\A b \in Buffers : b = held /\ cpc \in {"save", "slock", "send"}
       => frameIn'[b] = frameIn[b]]_photoVars

\* At most NBuf - 1 newer frames exist while a photo is being sent: the
\* driver drops frames instead of running ahead of the program.
BoundedLag == held # None => captured - frameIn[held] <= NBuf - 1

\* Where pthread_cond_wait returns only after a signal, each photo answers a
\* signal of its own: one approach of a guest never yields two photos.
PhotoPerSignal == ~SpuriousWakeups => Len(photos) <= wakes

\* The frames whose buffer was queued again.
Released == captured - Len(done) - One(held # None)

\* What the photographer does: the signal calls it, until the photo is sent.
Turn ==
  CASE cpc = "open" -> "absent"
    [] cpc \in {"lock", "wait"} -> "idle"
    [] cpc = "waiting" -> IF "picture" \in send_con_var THEN "waiting" ELSE "called"
    [] cpc = "put" -> "shown"
    [] cpc = "returned" -> "gone"
    [] OTHER -> "called"

\* The camera and its thread as Film has them.
TheFilm == INSTANCE Film WITH
  Room     <- NBuf,
  Repeats  <- SpuriousWakeups,
  running  <- streaming,
  released <- Released,
  calls    <- wakes,
  turn     <- Turn,
  up       <- alive

\* hc_04_distance, pictuer_send_thread and the buffers of v4l2.c implement
\* that film: no interleaving with the driver shows a frame twice, skips one,
\* reuses the place of the one that is being sent, or makes a photo nobody
\* asked for.
ImplementsFilm == TheFilm!Spec

-----------------------------------------------------------------------------
(* Invariants that make these, and BuffersConserved, inductive.            *)

\* Each buffer is queued, filled or held, and not twice.
NoneTwice ==
  /\ Len(queue) + Len(done) + One(held # None) = NBuf
  /\ \A i, j \in DOMAIN queue : queue[i] = queue[j] => i = j
  /\ \A i, j \in DOMAIN done : done[i] = done[j] => i = j
  /\ \A i \in DOMAIN queue, j \in DOMAIN done : queue[i] # done[j]
  /\ \A i \in DOMAIN queue : queue[i] # held
  /\ \A i \in DOMAIN done : done[i] # held

\* Outside the turn that took it, no buffer is held.
BufferInv ==
  /\ cpc = "open" => ~streaming
  /\ ~streaming => done = <<>> /\ held = None
  /\ cpc \in {"open", "lock", "wait", "waiting", "woken", "get"} => held = None
  /\ streaming => NoneTwice

\* Each frame was sent, is used, or waits in done, and they follow each other.
FrameInv ==
  /\ captured \in Nat /\ frameIn \in [Buffers -> Nat] /\ photos \in Seq(Nat)
  /\ captured = Len(photos) + One(cpc \in {"save", "slock", "send"}) + Len(done)
  /\ \A k \in DOMAIN photos : photos[k] = k
  /\ \A i \in DOMAIN done : frameIn[done[i]] = captured - Len(done) + i
  /\ held # None => frameIn[held] = captured - Len(done)

\* A signal is used up by the photo it leads to, at the latest.
WakeInv ==
  /\ wakes \in Nat
  /\ ~SpuriousWakeups =>
       Len(photos) + One(cpc \in {"woken", "get", "save", "slock", "send"})
         + One(cpc = "waiting" /\ "picture" \notin send_con_var) <= wakes

\* Only a thread that waits is on send_con_var.
ListedWaits == send_con_var # {} => cpc = "waiting"

=============================================================================
