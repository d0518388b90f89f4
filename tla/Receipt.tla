-------------------------------- MODULE Receipt --------------------------------
(***************************************************************************)
(* What a safe send promises, whatever threads and signals bring it about: *)
(* a call succeeds by taking a receipt out of a box that holds one.  A     *)
(* listener, hired for each call, hears replies one after the other, and   *)
(* puts a receipt into the box for each one it was waiting for, beside     *)
(* which there is no room for another.  It leaves only when it looks into  *)
(* the box after a reply and finds a receipt there, and until then the     *)
(* call does not end.  So a receipt of a late reply may be left over for   *)
(* the call that follows, but none is ever taken twice.                    *)
(***************************************************************************)
EXTENDS Naturals

VARIABLES
  call,               \* what the caller is in: no call, one, or its end
  listener,
  box,                \* is there a receipt?
  received,           \* replies that were worth a receipt
  taken               \* receipts taken

vars == <<call, listener, box, received, taken>>

Init ==
  /\ call = "none" /\ listener = "none"
  /\ box = FALSE
  /\ received = 0 /\ taken = 0

Begin ==
  /\ call = "none" /\ call' = "asking"
  /\ listener' = "listening"
  /\ UNCHANGED <<box, received, taken>>

HearReceipt ==
  /\ listener = "listening" /\ listener' = "heard"
  /\ box' = TRUE
  /\ received' = received + 1
  /\ UNCHANGED <<call, taken>>

HearOther ==
  /\ listener = "listening" /\ listener' = "heard"
  /\ UNCHANGED <<call, box, received, taken>>

Look ==
  /\ listener = "heard"
  /\ listener' = IF box THEN "left" ELSE "listening"
  /\ UNCHANGED <<call, box, received, taken>>

Take ==
  /\ call = "asking" /\ call' = "ending"
  /\ box /\ box' = FALSE
  /\ taken' = taken + 1
  /\ UNCHANGED <<listener, received>>

End ==
  /\ call = "ending" /\ listener = "left"
  /\ call' = "none" /\ listener' = "none"
  /\ UNCHANGED <<box, received, taken>>

Next == Begin \/ HearReceipt \/ HearOther \/ Look \/ Take \/ End

Spec == Init /\ [][Next]_vars

=============================================================================
