------------------------------- MODULE SendSafe --------------------------------
(***************************************************************************)
(* wifi/HLK-RM04.c: rm04_send_safe writes a line to the serial wifi module *)
(* until a reply holds the text it was told to expect.  A thread made for  *)
(* the call, wifi_recv_thread, gathers replies and reports a match in      *)
(* flag_wifi, which neither side protects: send_mutex only covers the      *)
(* condition variable, so every locked region is one step here.            *)
(***************************************************************************)
EXTENDS Naturals, Sequences

CONSTANTS
  MsgSize,            \* MSGSIZE, in pieces of a reply
  MaxCalls,           \* bound: calls of rm04_send_safe
  MaxPieces           \* bound: pieces the module says in one behaviour

ASSUME SendSafeAssumption ==
  /\ MsgSize \in Nat \ {0} /\ MaxCalls \in Nat /\ MaxPieces \in Nat

\* What the module says, cut where reads can cut it: the two halves of the
\* expected text, and anything else.
Pieces == {"O", "K", "x"}

VARIABLES
  caller,             \* where rm04_send_safe is
  recv,               \* where wifi_recv_thread is
  msg,                \* what it gathered so far; its length is total
  flag_wifi,
  send_con_var,       \* is the caller blocked in pthread_cond_wait?
  uart,               \* what arrived at the serial line and was not read
  calls,              \* calls started
  matches,            \* history: replies reported as a match
  returns,            \* history: calls that left their loop
  said                \* pieces the module has said

vars == <<caller, recv, msg, flag_wifi, send_con_var, uart,
          calls, matches, returns, said>>

Init ==
  /\ caller = "idle" /\ recv = "none"
  /\ msg = <<>> /\ uart = <<>>
  /\ flag_wifi = 0
  /\ send_con_var = FALSE
  /\ calls = 0 /\ matches = 0 /\ returns = 0 /\ said = 0

TypeOK ==
  /\ caller \in {"idle", "lock", "waiting", "test", "reset", "join"}
  /\ recv \in {"none", "first", "gather", "signal", "test", "exited"}
  /\ msg \in Seq(Pieces) /\ Len(msg) <= MsgSize
  /\ uart \in Seq(Pieces)
  /\ flag_wifi \in {0, 1}
  /\ send_con_var \in BOOLEAN
  /\ calls \in 0..MaxCalls /\ said \in 0..MaxPieces
  /\ matches \in Nat /\ returns \in Nat

-----------------------------------------------------------------------------
(* rm04_send_safe.                                                         *)

Call ==
  /\ caller = "idle" /\ calls < MaxCalls
  /\ calls' = calls + 1
  /\ caller' = "lock"
  /\ recv' = "first"
  /\ UNCHANGED <<msg, flag_wifi, send_con_var, uart, matches, returns, said>>

\* After a second: lock, write the line, wait.
SendLine ==
  /\ caller = "lock"
  /\ send_con_var' = TRUE
  /\ caller' = "waiting"
  /\ UNCHANGED <<recv, msg, flag_wifi, uart, calls, matches, returns, said>>

Wake ==
  /\ caller = "waiting" /\ ~send_con_var
  /\ caller' = "test"
  /\ UNCHANGED <<recv, msg, flag_wifi, send_con_var, uart,
                 calls, matches, returns, said>>

\* pthread_cond_wait may return without a signal; nothing promises that it will.
Spurious ==
  /\ send_con_var
  /\ send_con_var' = FALSE
  /\ UNCHANGED <<caller, recv, msg, flag_wifi, uart, calls, matches, returns, said>>

TestFlag ==
  /\ caller = "test"
  /\ caller' = IF flag_wifi = 1 THEN "reset" ELSE "lock"
  /\ UNCHANGED <<recv, msg, flag_wifi, send_con_var, uart,
                 calls, matches, returns, said>>

\* Mutant: flag_wifi keeps its value for the next call.
ResetFlagForgotten ==
  /\ caller = "reset"
  /\ caller' = "join"
  /\ returns' = returns + 1
  /\ UNCHANGED <<recv, msg, flag_wifi, send_con_var, uart, calls, matches, said>>

ResetFlag ==
  /\ caller = "reset"
  /\ flag_wifi' = 0
  /\ caller' = "join"
  /\ returns' = returns + 1
  /\ UNCHANGED <<recv, msg, send_con_var, uart, calls, matches, said>>

Join ==
  /\ caller = "join" /\ recv = "exited"
  /\ caller' = "idle"
  /\ recv' = "none"
  /\ UNCHANGED <<msg, flag_wifi, send_con_var, uart, calls, matches, returns, said>>

-----------------------------------------------------------------------------
(* wifi_recv_thread.                                                       *)

\* Mutant: always asks for MSGSIZE bytes.
GatherUnbounded(n) ==
  /\ n <= Len(uart)
  /\ msg' = msg \o SubSeq(uart, 1, n)
  /\ uart' = SubSeq(uart, n + 1, Len(uart))

Gather(n) ==
  /\ n <= Len(uart) /\ Len(msg) + n <= MsgSize
  /\ msg' = msg \o SubSeq(uart, 1, n)
  /\ uart' = SubSeq(uart, n + 1, Len(uart))

\* select without a timeout, then one read.
ReadFirst(n) ==
  /\ recv = "first"
  /\ Gather(n)
  /\ recv' = "gather"
  /\ UNCHANGED <<caller, flag_wifi, send_con_var, calls, matches, returns, said>>

\* More within half a second.  With msg full the read asks for 0 bytes and
\* the thread goes round for ever: no step.
ReadMore(n) ==
  /\ recv = "gather"
  /\ Gather(n)
  /\ UNCHANGED <<caller, recv, flag_wifi, send_con_var, calls, matches, returns, said>>

Hand == \E i \in 1..(Len(msg) - 1) : msg[i] = "O" /\ msg[i + 1] = "K"

\* strstr runs past a full msg, which has no terminator: either answer.
HandResults == {Hand} \union IF Len(msg) = MsgSize THEN {TRUE} ELSE {}

\* Half a second of silence ends the reply.
EndReply ==
  /\ recv = "gather" /\ uart = <<>>
  /\ \E matched \in HandResults :
       IF matched THEN flag_wifi' = 1 /\ matches' = matches + 1
       ELSE UNCHANGED <<flag_wifi, matches>>
  /\ msg' = <<>>
  /\ recv' = "signal"
  /\ UNCHANGED <<caller, send_con_var, uart, calls, returns, said>>

SignalCaller ==
  /\ recv = "signal"
  /\ send_con_var' = FALSE
  /\ recv' = "test"
  /\ UNCHANGED <<caller, msg, flag_wifi, uart, calls, matches, returns, said>>

\* Mutant: the break does not leave the loop.
LeaveNever ==
  /\ recv = "test"
  /\ recv' = "first"
  /\ UNCHANGED <<caller, msg, flag_wifi, send_con_var, uart,
                 calls, matches, returns, said>>

\* flag_wifi is read again: the caller may have reset it since.
LeaveOnMatch ==
  /\ recv = "test"
  /\ recv' = IF flag_wifi = 1 THEN "exited" ELSE "first"
  /\ UNCHANGED <<caller, msg, flag_wifi, send_con_var, uart,
                 calls, matches, returns, said>>

\* The module answers, repeats itself or says something unasked.
Say(piece) ==
  /\ said < MaxPieces
  /\ said' = said + 1
  /\ uart' = Append(uart, piece)
  /\ UNCHANGED <<caller, recv, msg, flag_wifi, send_con_var, calls, matches, returns>>

Caller == Call \/ SendLine \/ Wake \/ TestFlag \/ ResetFlag \/ Join

Recv ==
  \/ \E n \in 1..MsgSize : ReadFirst(n) \/ ReadMore(n)
  \/ EndReply \/ SignalCaller \/ LeaveOnMatch

Next == Caller \/ Recv \/ Spurious \/ \E piece \in Pieces : Say(piece)

Spec == Init /\ [][Next]_vars
FairSpec == Spec /\ WF_vars(Caller) /\ WF_vars(Recv)

-----------------------------------------------------------------------------
\* Each call that succeeds is paid for by a reply of its own that matched, so
\* that neither a repeated signal nor a spurious wake-up lets two calls succeed
\* on one answer.  It need not be a reply to its own line: a match reported
\* while the caller before was in pthread_join is kept in flag_wifi.
SuccessBackedByMatch == returns + flag_wifi <= matches

\* The receiving thread gives up on a call in progress only with a match on
\* record, which the caller has yet to see.
LeavesOnlyOnMatch ==
  recv = "exited" /\ caller \in {"lock", "waiting", "test"} => flag_wifi = 1

\* The promise of Receipt: flag_wifi is the box, a call asks until it resets
\* the flag, and wifi_recv_thread has heard a reply from the moment it ended to
\* the test that follows the signal.
TheReceipt == INSTANCE Receipt WITH
  call     <- CASE caller = "idle" -> "none"
                [] caller = "join" -> "ending"
                [] OTHER -> "asking",
  listener <- CASE recv = "none" -> "none"
                [] recv \in {"first", "gather"} -> "listening"
                [] recv \in {"signal", "test"} -> "heard"
                [] OTHER -> "left",
  box      <- flag_wifi = 1,
  received <- matches,
  taken    <- returns

\* rm04_send_safe and wifi_recv_thread keep it although flag_wifi is tested
\* and reset in two steps, without a lock, and whatever wakes the caller: no
\* match serves two calls, none is dropped but for one that finds another not
\* yet taken, and no call leaves wifi_recv_thread behind to answer the next.
ImplementsReceipt == TheReceipt!Spec

\* A caller that reset flag_wifi before wifi_recv_thread tested it hangs in
\* pthread_join, but for no longer than to the end of the next matching reply.
JoinEndsOnMatch == caller = "join" /\ flag_wifi = 1 ~> caller = "idle"

\* "send the data once every 1 s" (HLK-RM04.c:147): a caller that waits for a
\* reply goes on to send again.
Resends == caller = "waiting" ~> caller # "waiting"

=============================================================================
