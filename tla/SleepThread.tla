------------------------------ MODULE SleepThread ------------------------------
(***************************************************************************)
(* sleep_detection_thread of main.c: while my_sleep is set it compares the *)
(* angle of the bed with the one it started from, and reports that the     *)
(* guest turned over, once until the angle has come back.                  *)
(*                                                                         *)
(* A reading stands for error = standard - angle, the output of the Kalman *)
(* filter.  The filter starts from an uninitialised Angle_X_Final, so the  *)
(* first readings, and with them every later one, can be of any class.     *)
(***************************************************************************)
EXTENDS Rtl8188eus

VARIABLES
  zpc,                \* where the thread is
  can                 \* 1 once the angle has come back since the last alert

sleepThreadVars == <<zpc, can>>

Readings == {"turned",        \* error < -0.9
             "between",       \* neither, a NaN included
             "back"}          \* error > -0.75

SleepInit ==
  /\ Starts("sleep", zpc, "open")
  /\ can = 1

SleepTypeOK ==
  /\ zpc \in {"open", "lock", "check", "read", "slock", "send", "returned"}
  /\ can \in {0, 1}

SleepOpen ==
  /\ zpc = "open"
  /\ \/ CanOpen("mpu6050") /\ Opened /\ zpc' = "lock"
     \/ ~CanOpen("mpu6050") /\ zpc' = "returned" /\ UNCHANGED fds
  /\ UNCHANGED <<alive, socket_mutex, socket, sleepVars, can>>

SleepLock ==
  /\ zpc = "lock"
  /\ Lock(sleep_mutex, "sleep")
  /\ zpc' = "check"
  /\ UNCHANGED <<process, socket_mutex, socket, my_sleep, can>>

\* Mutant: keeps sleep_mutex while it reads the angle and sends.
SleepCheckHolding ==
  /\ zpc = "check"
  /\ IF my_sleep = 1 THEN zpc' = "read" /\ UNCHANGED sleep_mutex
     ELSE zpc' = "lock" /\ Unlock(sleep_mutex)
  /\ UNCHANGED <<process, socket_mutex, socket, my_sleep, can>>

\* Mutant: does not look at my_sleep.
SleepCheckAlways ==
  /\ zpc = "check"
  /\ Unlock(sleep_mutex)
  /\ zpc' = "read"
  /\ UNCHANGED <<process, socket_mutex, socket, my_sleep, can>>

SleepCheck ==
  /\ zpc = "check"
  /\ Unlock(sleep_mutex)
  /\ zpc' = IF my_sleep = 1 THEN "read" ELSE "lock"
  /\ UNCHANGED <<process, socket_mutex, socket, my_sleep, can>>

\* my_sleep is not looked at again before the alert is sent.
SleepRead(reading) ==
  /\ zpc = "read"
  /\ IF reading = "turned" /\ can = 1 THEN can' = 0 /\ zpc' = "slock"
     ELSE /\ can' = IF reading = "back" THEN 1 ELSE can
          /\ zpc' = "lock"
  /\ UNCHANGED <<process, socket_mutex, socket, sleepVars>>

SleepSendLock ==
  /\ zpc = "slock"
  /\ Lock(socket_mutex, "sleep")
  /\ zpc' = "send"
  /\ UNCHANGED <<process, socket, sleepVars, can>>

SleepSend ==
  /\ zpc = "send"
  /\ Send
  /\ Unlock(socket_mutex)
  /\ zpc' = "lock"
  /\ UNCHANGED <<inbound, taken, peer, quota, sleepVars, can>>

SleepStep ==
  \/ SleepOpen
  \/ SleepLock
  \/ SleepCheck
  \/ \E reading \in Readings : SleepRead(reading)
  \/ SleepSendLock
  \/ SleepSend

=============================================================================
