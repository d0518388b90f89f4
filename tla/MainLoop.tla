------------------------------- MODULE MainLoop --------------------------------
(***************************************************************************)
(* The loop at the end of main(): hc_04_distance once a second.  Each call *)
(* opens /dev/hc04 anew and never closes it.                               *)
(***************************************************************************)
EXTENDS Process

VARIABLES
  mpc                 \* where main() is in hc_04_distance

MainInit == mpc = "open"

MainTypeOK == mpc \in {"open", "read", "lock", "signal"}

MainOpen ==
  /\ mpc = "open"
  /\ CanOpen("hc04")
  /\ Opened
  /\ mpc' = "read"
  /\ UNCHANGED <<alive, sendVars>>

\* A failed open returns from hc_04_distance; main() sleeps and tries again.
MainOpenFails ==
  /\ mpc = "open"
  /\ ~CanOpen("hc04")
  /\ UNCHANGED <<mpc, process, sendVars>>

\* distance is 0 when somebody is near, and when the read failed.
MainRead ==
  /\ mpc = "read"
  /\ mpc' \in {"lock", "open"}
  /\ UNCHANGED <<process, sendVars>>

MainLock ==
  /\ mpc = "lock"
  /\ Lock(send_mutex, "main")
  /\ mpc' = "signal"
  /\ UNCHANGED <<process, send_con_var>>

MainSignal ==
  /\ mpc = "signal"
  /\ Signal(send_con_var)
  /\ Unlock(send_mutex)
  /\ mpc' = "open"
  /\ UNCHANGED process

MainStep == MainOpen \/ MainOpenFails \/ MainRead \/ MainLock \/ MainSignal

=============================================================================
