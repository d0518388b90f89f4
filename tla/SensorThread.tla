----------------------------- MODULE SensorThread ------------------------------
(***************************************************************************)
(* sensor_send_thread of main.c: every five seconds it samples the ADC and *)
(* the humidity sensor and writes four frames to the socket (CO, smoke,    *)
(* humidity, temperature) without releasing socket_mutex in between.       *)
(***************************************************************************)
EXTENDS Rtl8188eus, FiniteSets, Integers

VARIABLES
  spc,                \* where the thread is
  burst,              \* frames of this burst still to be written
  send_voltage        \* bytes the last sprintf wrote there

sensorVars == <<spc, burst, send_voltage>>

Burst == 4

SensorInit ==
  /\ Starts("sensor", spc, "open")
  /\ burst = 0
  /\ send_voltage = 0

SensorTypeOK ==
  /\ spc \in {"open", "lock", "send", "returned"}
  /\ burst \in 0..Burst
  /\ send_voltage \in Nat

-----------------------------------------------------------------------------
(* sprintf(send_voltage, "%s%4d%s", head, value, "FFFF\n").  Of a value     *)
(* only its width shows: whether a read succeeded makes no difference.     *)

AdcByte == 0..255     \* one byte, read into an int that was 0
Char == -128..255     \* dht11_data is of char, signed or not

Powers == {10, 100, 1000, 10000, 100000}
Digits(n) == 1 + Cardinality({power \in Powers : power <= n})

\* Mutant: %d.
FieldWidthUnpadded(value) == IF value < 0 THEN 1 + Digits(-value) ELSE Digits(value)

\* %4d: a sign and the digits, filled up to four characters.
FieldWidth(value) ==
  LET width == IF value < 0 THEN 1 + Digits(-value) ELSE Digits(value)
  IN  IF width < 4 THEN 4 ELSE width

\* Eight characters, the field, five more, and the NUL.
Size(value) == 8 + FieldWidth(value) + 5 + 1

GasFrames == {Size(value) : value \in AdcByte}         \* CO, smoke
ClimateFrames == {Size(value) : value \in Char}        \* humidity, temperature

\* The frame that follows the one that is sent: CO is the first of a burst.
Format(left) ==
  send_voltage' \in IF left \in {2, 3} THEN ClimateFrames ELSE GasFrames

-----------------------------------------------------------------------------
SensorOpen ==
  /\ spc = "open"
  /\ \/ CanOpen("dht11") /\ Opened /\ spc' = "lock" /\ Format(1)
     \/ ~CanOpen("dht11") /\ spc' = "returned" /\ UNCHANGED <<fds, send_voltage>>
  /\ UNCHANGED <<alive, socket_mutex, socket, burst>>

SensorLock ==
  /\ spc = "lock"
  /\ Lock(socket_mutex, "sensor")
  /\ spc' = "send"
  /\ burst' = Burst
  /\ UNCHANGED <<process, socket, send_voltage>>

\* Mutant: releases the socket between two frames.
SensorSendUnlocking ==
  /\ spc = "send"
  /\ Send
  /\ Format(burst)
  /\ burst' = burst - 1
  /\ Unlock(socket_mutex)
  /\ IF burst > 1 THEN UNCHANGED spc ELSE spc' = "lock"
  /\ UNCHANGED <<inbound, taken, peer, quota>>

\* After the last frame of a burst the thread sleeps, samples its sensors and
\* formats the first frame of the next one.
SensorSend ==
  /\ spc = "send"
  /\ Send
  /\ Format(burst)
  /\ burst' = burst - 1
  /\ IF burst > 1 THEN UNCHANGED <<socket_mutex, spc>>
     ELSE Unlock(socket_mutex) /\ spc' = "lock"
  /\ UNCHANGED <<inbound, taken, peer, quota>>

SensorStep == SensorOpen \/ SensorLock \/ SensorSend

=============================================================================
