------------------------------ MODULE CapsuleSleep -----------------------------
(***************************************************************************)
(* Capsule with history variables that follow the sleep alerts: whether a  *)
(* command 08 was ever obeyed, and how many alerts were sent since the     *)
(* last command 09.                                                        *)
(***************************************************************************)
EXTENDS Capsule

VARIABLES
  everArmed,          \* my_sleep was 1 at some time
  late                \* alerts sent while my_sleep is 0, since it was 1

alertVars == <<vars, everArmed, late>>

AlertInit ==
  /\ Init
  /\ everArmed = FALSE
  /\ late = 0

SendsAlert == zpc = "send" /\ zpc' = "lock"

AlertNext ==
  /\ Next
  /\ everArmed' = (everArmed \/ my_sleep' = 1)
  /\ late' = IF my_sleep' = 1 THEN 0 ELSE late + One(SendsAlert)

AlertSpec == AlertInit /\ [][AlertNext]_alertVars

-----------------------------------------------------------------------------
\* An alert can be late, because my_sleep is read before the angle and the
\* socket is waited for after it; but after a command 09 at most one more is
\* sent before the next 08, and none before the first.
AtMostOneLateAlert == late <= One(everArmed)

\* Its inductive form: an alert the thread may still send counts already.
AlertInv ==
  /\ late \in Nat /\ everArmed \in BOOLEAN
  /\ my_sleep = 1 => everArmed /\ late = 0
  /\ my_sleep = 0 =>
       late + One(zpc \in {"read", "slock", "send"}) <= One(everArmed)

=============================================================================
