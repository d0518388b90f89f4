---------------------------------- MODULE Film ---------------------------------
(***************************************************************************)
(* What the camera and its photographer promise, whatever threads, buffers *)
(* and locks bring it about: a film of a few places.  Frames are numbered  *)
(* as they are captured, and none is captured while all places are taken.  *)
(* A call that finds the photographer waiting is answered by one photo, of *)
(* the oldest frame on the film, whose place is free only after that; a    *)
(* call at any other time is lost.                                         *)
(***************************************************************************)
EXTENDS Naturals, Sequences

CONSTANTS
  Room,               \* places on the film
  Repeats             \* may the photographer believe it was called?

VARIABLES
  running,            \* does the camera capture frames?
  captured,           \* frames captured
  released,           \* frames whose place was given back
  photos,             \* the frames shown, in order
  calls,              \* calls that found the photographer waiting
  turn,               \* what the photographer does
  up                  \* FALSE once everything has stopped

vars == <<running, captured, released, photos, calls, turn, up>>

\* The photographer may never come.
Init ==
  /\ running = FALSE
  /\ captured = 0 /\ released = 0
  /\ photos = <<>> /\ calls = 0
  /\ turn \in {"absent", "gone"}
  /\ up = TRUE

\* It starts the camera, and may find the frames of no use.
Start ==
  /\ turn = "absent" /\ turn' \in {"idle", "gone"}
  /\ running' = TRUE
  /\ UNCHANGED <<captured, released, photos, calls, up>>

Capture ==
  /\ running /\ captured < released + Room
  /\ captured' = captured + 1
  /\ UNCHANGED <<running, released, photos, calls, turn, up>>

Listen ==
  /\ turn = "idle" /\ turn' = "waiting"
  /\ UNCHANGED <<running, captured, released, photos, calls, up>>

Call ==
  /\ turn = "waiting" /\ turn' = "called"
  /\ calls' = calls + 1
  /\ UNCHANGED <<running, captured, released, photos, up>>

Repeat ==
  /\ Repeats
  /\ turn = "waiting" /\ turn' = "called"
  /\ UNCHANGED <<running, captured, released, photos, calls, up>>

\* What shows the photo may also end everything.
Show ==
  /\ turn = "called" /\ turn' = "shown"
  /\ released < captured
  /\ photos' = Append(photos, released + 1)
  /\ up' \in {up, FALSE}
  /\ UNCHANGED <<running, captured, released, calls>>

Release ==
  /\ turn = "shown" /\ turn' = "idle"
  /\ released' = released + 1
  /\ UNCHANGED <<running, captured, photos, calls, up>>

\* The photographer gives up, but not while it waits.
Leave ==
  /\ turn \in {"absent", "called", "shown"} /\ turn' = "gone"
  /\ UNCHANGED <<running, captured, released, photos, calls, up>>

Halt ==
  /\ up' = FALSE
  /\ UNCHANGED <<running, captured, released, photos, calls, turn>>

Next ==
  /\ up
  /\ \/ Start \/ Capture \/ Listen \/ Call \/ Repeat
     \/ Show \/ Release \/ Leave \/ Halt

Spec == Init /\ [][Next]_vars

=============================================================================
