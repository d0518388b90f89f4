--------------------------------- MODULE Frame ---------------------------------
(***************************************************************************)
(* The frames the camera agreed on with v4l2_init, which asks for 640      *)
(* times 480 pixels.                                                       *)
(***************************************************************************)
EXTENDS Integers

CONSTANTS
  Width,              \* pixels of a line; a YUYV camera gives an even number
  Height,             \* lines
  Area                \* their product

ASSUME FrameAssumption ==
  /\ Width \in Nat \ {0} /\ Width % 2 = 0
  /\ Height \in Nat \ {0}
  /\ Area = Width * Height /\ Area \in Nat \ {0}

=============================================================================
