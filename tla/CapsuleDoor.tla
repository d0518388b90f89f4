------------------------------ MODULE CapsuleDoor ------------------------------
(***************************************************************************)
(* Capsule with history variables that follow the server's frames: those   *)
(* it sent, those receive_thread obeyed, how many commands 5 were posted,  *)
(* how often play_thread switched the relay on, and how often its          *)
(* pthread_cond_wait returned without a signal.  The last two stop         *)
(* counting above the number of commands there can be.                     *)
(***************************************************************************)
EXTENDS Capsule

VARIABLES frames, obeyed, posts, opens, spurious

histories == <<frames, obeyed, posts, opens, spurious>>
doorVars == <<vars, histories>>

DoorInit ==
  /\ Init
  /\ frames = <<>> /\ obeyed = <<>>
  /\ posts = 0 /\ opens = 0 /\ spurious = 0

MaxOpens == MaxFrames + 1         \* bounds: the counters stop here
MaxSpurious == MaxFrames + 2

Sends == quota' < quota
Obeys == rpc \in {"signal", "set"} /\ rpc' = "lock"
PostsUnlock == rpc = "signal" /\ rpc' = "lock" /\ choice_play' = 5
OpensGate == ppc = "switch" /\ ppc' = "fopen" /\ choice = 5
WakesUnsignalled == ppc = "waiting" /\ ppc' = "read" /\ "play" \in alsa_con_var

DoorNext ==
  /\ Next
  /\ frames' = IF Sends THEN Append(frames, inbound'[Len(inbound')]) ELSE frames
  /\ obeyed' = IF Obeys THEN Append(obeyed, rcv_buf.code) ELSE obeyed
  /\ posts' = posts + One(PostsUnlock)
  /\ opens' = opens + One(OpensGate /\ opens < MaxOpens)
  /\ spurious' = spurious + One(WakesUnsignalled /\ spurious < MaxSpurious)

DoorSpec == DoorInit /\ [][DoorNext]_doorVars
FairDoorSpec == DoorSpec /\ Fairness

-----------------------------------------------------------------------------
\* An unlock command on its way through play_thread: a wake-up that was
\* delivered and not used, or a choice of 5 that was read and not served.
Underway ==
  One(/\ choice_play = 5
      /\ \/ ppc = "waiting" /\ "play" \notin alsa_con_var
         \/ ppc = "read")
  + One(ppc = "switch" /\ choice = 5)

\* Every opening of the gate uses up one command that was posted, or one
\* return of pthread_cond_wait without a signal: choice_play stays 5 after it
\* was served, yet no later signal and no command for another sound reopens
\* the gate.
NoPhantomOpening == opens <= posts + spurious

\* Its inductive form: the commands under way are paid for too, and only a
\* thread that waits is in the queue of the condition variable.
DoorInv ==
  /\ posts \in Nat /\ opens \in 0..MaxOpens /\ spurious \in 0..MaxSpurious
  /\ "play" \in alsa_con_var => ppc = "waiting"
  /\ opens + Underway <= posts + spurious

\* frame says for each command obeyed which frame sent it was, in order.
InOrder(frame) ==
  /\ \A i, j \in DOMAIN obeyed : i < j => frame[i] < frame[j]
  /\ \A i \in DOMAIN obeyed : obeyed[i] = frames[frame[i]]

\* What receive_thread obeys is what the server sent, in the order it was
\* sent, each frame at most once: no remainder of an earlier read and no half
\* of a frame is taken for a command, and only whole commands are dropped.
ObeyedInOrder == \E frame \in [DOMAIN obeyed -> DOMAIN frames] : InOrder(frame)

\* inbound is the end of what was sent.
StreamInv ==
  /\ frames \in Seq(Codes) /\ obeyed \in Seq(Codes)
  /\ taken < FrameLen /\ (taken > 0 => inbound # <<>>)
  /\ Len(inbound) <= Len(frames)
  /\ \A i \in 1..Len(inbound) : inbound[i] = frames[Len(frames) - Len(inbound) + i]

\* The frames a read has reached: those read to their end, and the one a
\* read ended in.
Reached == Len(frames) - Len(inbound) + One(taken > 0)

\* The command in rcv_buf is still to be obeyed.
Pending == rpc # "lock" /\ rcv_buf.code # NoCode

\* A frame that was reached, and that a command in rcv_buf can be.
CanFollow(next, frame) ==
  /\ rcv_buf.code = frames[next]
  /\ \A i \in DOMAIN obeyed : frame[i] < next

\* The inductive form of ObeyedInOrder: what was obeyed was reached, and so
\* was the command in rcv_buf, after all of these.
OrderInv ==
  /\ StreamInv
  /\ rpc = "recv" => rcv_buf = Cleared
  /\ rpc \in {"arm", "set"} => rcv_buf.code \in SleepCodes
  /\ \E frame \in [DOMAIN obeyed -> 1..Reached] :
       /\ InOrder(frame)
       /\ Pending => \E next \in 1..Reached : CanFollow(next, frame)

\* No unlock command was sent so far.
NoUnlockSent == \A i \in DOMAIN frames : frames[i] # "05"

\* Whatever pthread_cond_wait does, the gate stays locked until the first
\* unlock command has arrived.
LockedUntilFirstUnlock == NoUnlockSent => opens = 0 /\ relay = "off"

\* Its inductive form: no trace of a code 05 anywhere between the socket and
\* the relay.
LockedInv ==
  /\ frames \in Seq(Codes)
  /\ NoUnlockSent =>
       /\ \A i \in DOMAIN inbound : inbound[i] # "05"
       /\ rcv_buf.code # "05"
       /\ choice_play # 5 /\ choice # 5
       /\ opens = 0 /\ relay = "off"

-----------------------------------------------------------------------------
\* "unlock" (main.c:506): each command 5 that receive_thread recognised opens
\* the gate.
EveryUnlockOpens ==
  \A n \in 1..MaxFrames : posts >= n ~> opens >= n \/ ~alive

=============================================================================
