--------------------------------- MODULE Gate ----------------------------------
(***************************************************************************)
(* What the gate promises, whatever threads bring it about: a lock with a  *)
(* keeper who hears one command at a time.  A command posted while the     *)
(* keeper listens is heard; one posted while it is called, but has not     *)
(* taken the command yet, replaces it; one posted at any other time is     *)
(* lost.  The door is open only while an opening command is served, which  *)
(* opens it and locks it again; every other command leaves it locked.      *)
(***************************************************************************)
CONSTANTS
  Commands,           \* what can be posted
  Opening,            \* the command that opens the door
  NoCommand,          \* nothing was posted yet, or nothing is served
  Repeats             \* may a command be served again without a post?

VARIABLES
  last,               \* the last command posted
  keeper,             \* does the keeper hear a command posted now?
  hand,               \* the command being served
  door,
  up                  \* FALSE once everything has stopped, the door as it is

vars == <<last, keeper, hand, door, up>>

Init ==
  /\ last = NoCommand
  /\ keeper = "deaf"
  /\ hand = NoCommand
  /\ door = "locked"
  /\ up = TRUE

Post(command) ==
  /\ last' = command
  /\ keeper' = IF keeper = "deaf" THEN "deaf" ELSE "called"
  /\ UNCHANGED <<hand, door, up>>

Listen ==
  /\ keeper = "deaf" /\ hand = NoCommand
  /\ keeper' = "listening"
  /\ UNCHANGED <<last, hand, door, up>>

Repeat ==
  /\ Repeats
  /\ keeper = "listening"
  /\ keeper' = "called"
  /\ UNCHANGED <<last, hand, door, up>>

\* Before the first post a repetition hands over NoCommand: nothing to do.
Take ==
  /\ keeper = "called"
  /\ keeper' = "deaf"
  /\ hand' = last
  /\ UNCHANGED <<last, door, up>>

Open ==
  /\ hand = Opening /\ door = "locked"
  /\ door' = "open"
  /\ UNCHANGED <<last, keeper, hand, up>>

Finish ==
  /\ hand # NoCommand
  /\ hand = Opening => door = "open"
  /\ hand' = NoCommand
  /\ door' = "locked"
  /\ UNCHANGED <<last, keeper, up>>

Halt ==
  /\ up' = FALSE
  /\ UNCHANGED <<last, keeper, hand, door>>

Next ==
  /\ up
  /\ \/ \E command \in Commands : Post(command)
     \/ Listen \/ Repeat \/ Take \/ Open \/ Finish
     \/ Halt

Spec == Init /\ [][Next]_vars

=============================================================================
