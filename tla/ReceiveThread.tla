----------------------------- MODULE ReceiveThread -----------------------------
(***************************************************************************)
(* receive_thread of main.c: polls the socket without a pause, parses the  *)
(* frame a read begins with, and hands the command to the play thread      *)
(* (choice_play and alsa_con_var) or to the sleep thread (my_sleep).       *)
(***************************************************************************)
EXTENDS Rtl8188eus

VARIABLES
  rpc,                \* where the thread is
  rcv_buf             \* what the first four bytes of rcv_buf say

receiveVars == <<rpc, rcv_buf>>

ReceivePcs == {"lock", "recv", "dispatch", "post", "signal", "arm", "set",
               "returned"}

Cleared == [aa |-> FALSE, code |-> NoCode]

ReceiveInit ==
  /\ Starts("receive", rpc, "lock")
  /\ rcv_buf = Cleared

ReceiveTypeOK ==
  /\ rpc \in ReceivePcs
  /\ rcv_buf \in [aa : BOOLEAN, code : Codes \union {NoCode}]

\* The codes play_thread serves, and the value each puts in choice_play.
PlayCodes == {"05", "06", "07", "88"}
\* Mutant: the branch of "88" was copied from the one of "05".
ChoiceOfPasted(code) == CASE code \in {"05", "88"} -> 5
                          [] code = "06" -> 6
                          [] code = "07" -> 7

ChoiceOf(code) == CASE code = "05" -> 5
                    [] code = "06" -> 6
                    [] code = "07" -> 7
                    [] code = "88" -> 8

SleepCodes == {"08", "09"}

-----------------------------------------------------------------------------
\* Mutant: without the memset of rcv_buf.
ReceiveLockUncleared ==
  /\ rpc = "lock"
  /\ Lock(socket_mutex, "receive")
  /\ rpc' = "recv"
  /\ UNCHANGED <<rcv_buf, alsaVars, sleepVars, socket>>

ReceiveLock ==
  /\ rpc = "lock"
  /\ rcv_buf' = Cleared
  /\ Lock(socket_mutex, "receive")
  /\ rpc' = "recv"
  /\ UNCHANGED <<alsaVars, sleepVars, socket>>

\* A read that found n bytes; receive_thread unlocks right after it.
ReceiveBytes(n) ==
  /\ rpc = "recv"
  /\ n <= Available
  /\ rcv_buf' = Parsed(rcv_buf, n)
  /\ Take(n)
  /\ Unlock(socket_mutex)
  /\ rpc' = "dispatch"
  /\ UNCHANGED <<alsaVars, sleepVars>>

\* Mutant: leaves early without the unlock.
ReceiveNothingLocked ==
  /\ rpc = "recv"
  /\ Available = 0
  /\ rpc' = "lock"
  /\ UNCHANGED <<rcv_buf, socket_mutex, alsaVars, sleepVars, socket>>

\* Nothing to read, or the end of the stream: receive returns 0.
ReceiveNothing ==
  /\ rpc = "recv"
  /\ Available = 0
  /\ Unlock(socket_mutex)
  /\ rpc' = "lock"
  /\ UNCHANGED <<rcv_buf, alsaVars, sleepVars, socket>>

Dispatch ==
  /\ rpc = "dispatch"
  /\ rpc' = IF ~rcv_buf.aa THEN "lock"
            ELSE IF rcv_buf.code \in PlayCodes THEN "post"
            ELSE IF rcv_buf.code \in SleepCodes THEN "arm"
            ELSE "lock"
  /\ UNCHANGED <<rcv_buf, socket_mutex, alsaVars, sleepVars, socket>>

PostLock ==
  /\ rpc = "post"
  /\ Lock(alsa_mutex, "receive")
  /\ rpc' = "signal"
  /\ UNCHANGED <<rcv_buf, socket_mutex, alsa_con_var, choice_play, sleepVars, socket>>

PostSignal ==
  /\ rpc = "signal"
  /\ choice_play' = ChoiceOf(rcv_buf.code)
  /\ Signal(alsa_con_var)
  /\ Unlock(alsa_mutex)
  /\ rpc' = "lock"
  /\ UNCHANGED <<rcv_buf, socket_mutex, sleepVars, socket>>

ArmLock ==
  /\ rpc = "arm"
  /\ Lock(sleep_mutex, "receive")
  /\ rpc' = "set"
  /\ UNCHANGED <<rcv_buf, socket_mutex, alsaVars, my_sleep, socket>>

ArmSet ==
  /\ rpc = "set"
  /\ my_sleep' = IF rcv_buf.code = "08" THEN 1 ELSE 0
  /\ Unlock(sleep_mutex)
  /\ rpc' = "lock"
  /\ UNCHANGED <<rcv_buf, socket_mutex, alsaVars, socket>>

ReceiveStep ==
  \/ ReceiveLock
  \/ \E n \in 1..BufLen : ReceiveBytes(n)
  \/ ReceiveNothing
  \/ Dispatch
  \/ PostLock
  \/ PostSignal
  \/ ArmLock
  \/ ArmSet

=============================================================================
