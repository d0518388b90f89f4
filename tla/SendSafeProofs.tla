---------------------------- MODULE SendSafeProofs -----------------------------
(***************************************************************************)
(* Proofs about rm04_send_safe and wifi_recv_thread, for every size of the *)
(* reply buffer and whatever the module says.                              *)
(***************************************************************************)
EXTENDS SendSafe, SequenceTheorems, TLAPS

\* A read never puts more into msg than MSGSIZE bytes in all.
LEMMA GatherTypes ==
  ASSUME TypeOK, NEW n \in 1..MsgSize, Gather(n)
  PROVE  /\ msg' \in Seq(Pieces) /\ Len(msg') <= MsgSize
         /\ uart' \in Seq(Pieces)
<1> USE SendSafeAssumption
<1>1. msg \in Seq(Pieces) /\ uart \in Seq(Pieces) /\ n \in Nat /\ n <= Len(uart)
  BY DEF TypeOK, Gather
<1>2. Len(msg) \in Nat /\ Len(uart) \in Nat
  BY <1>1
<1>3. SubSeq(uart, 1, n) \in Seq(Pieces) /\ Len(SubSeq(uart, 1, n)) = n
  <2>1. \A i \in 1..n : uart[i] \in Pieces
    BY <1>1, <1>2
  <2>2. QED
    BY <1>1, <2>1, SubSeqProperties
<1>4. SubSeq(uart, n + 1, Len(uart)) \in Seq(Pieces)
  <2>1. \A i \in (n + 1)..Len(uart) : uart[i] \in Pieces
    BY <1>1, <1>2
  <2>2. QED
    BY <1>1, <1>2, <2>1, SubSeqProperties
<1>5. msg \o SubSeq(uart, 1, n) \in Seq(Pieces)
      /\ Len(msg \o SubSeq(uart, 1, n)) = Len(msg) + n
  BY <1>1, <1>3, ConcatProperties
<1>6. QED
  BY <1>4, <1>5 DEF Gather

\* Every variable keeps its type; msg never outgrows the buffer.
THEOREM TypeOKAlways == Spec => []TypeOK
<1> USE SendSafeAssumption
<1>1. Init => TypeOK
  <2>1. Init => send_con_var \in BOOLEAN
    BY DEF Init
  <2>2. QED
    BY <2>1 DEF Init, TypeOK
<1>2. TypeOK /\ [Next]_vars => TypeOK'
  <2> SUFFICES ASSUME TypeOK, [Next]_vars PROVE TypeOK'
    OBVIOUS
  <2>1. CASE Caller
    <3>1. CASE Call
      BY <3>1 DEF TypeOK, Call
    <3>2. CASE SendLine
      BY <3>2 DEF TypeOK, SendLine
    <3>3. CASE Wake
      BY <3>3 DEF TypeOK, Wake
    <3>4. CASE TestFlag
      BY <3>4 DEF TypeOK, TestFlag
    <3>5. CASE ResetFlag
      BY <3>5 DEF TypeOK, ResetFlag
    <3>6. CASE Join
      BY <3>6 DEF TypeOK, Join
    <3>7. QED
      BY <2>1, <3>1, <3>2, <3>3, <3>4, <3>5, <3>6 DEF Caller
  <2>2. CASE \E n \in 1..MsgSize : ReadFirst(n) \/ ReadMore(n)
    BY <2>2, GatherTypes DEF ReadFirst, ReadMore, TypeOK
  <2>3. CASE EndReply
    BY <2>3 DEF EndReply, TypeOK
  <2>4. CASE SignalCaller
    BY <2>4 DEF SignalCaller, TypeOK
  <2>5. CASE LeaveOnMatch
    BY <2>5 DEF LeaveOnMatch, TypeOK
  <2>6. CASE \E piece \in Pieces : Say(piece)
    BY <2>6 DEF Say, TypeOK
  <2>7. CASE Spurious
    BY <2>7 DEF Spurious, TypeOK
  <2>8. CASE UNCHANGED vars
    BY <2>8 DEF vars, TypeOK
  <2>9. QED
    BY <2>1, <2>2, <2>3, <2>4, <2>5, <2>6, <2>7, <2>8 DEF Next, Recv
<1>3. QED
  BY <1>1, <1>2, PTL DEF Spec

\* Each successful call is paid for by a match of its own: flag_wifi is a
\* token that wifi_recv_thread makes and only rm04_send_safe takes.
THEOREM SuccessBackedByMatchAlways == Spec => []SuccessBackedByMatch
<1> DEFINE Inv == SuccessBackedByMatch /\ (caller = "reset" => flag_wifi = 1)
<1>1. Init => Inv
  BY DEF Init, SuccessBackedByMatch
<1>2. TypeOK /\ Inv /\ [Next]_vars => Inv'
  <2> SUFFICES ASSUME TypeOK, Inv, [Next]_vars PROVE Inv'
    OBVIOUS
  <2> USE DEF SuccessBackedByMatch
  <2>1. flag_wifi \in {0, 1} /\ matches \in Nat /\ returns \in Nat
    BY DEF TypeOK
  <2>2. CASE ResetFlag
    BY <2>1, <2>2 DEF ResetFlag
  <2>3. CASE EndReply
    BY <2>1, <2>3 DEF EndReply
  <2>4. CASE TestFlag
    BY <2>1, <2>4 DEF TestFlag
  <2>5. CASE Call \/ SendLine \/ Wake \/ Join
    BY <2>1, <2>5 DEF Call, SendLine, Wake, Join
  <2>6. CASE UNCHANGED <<caller, flag_wifi, matches, returns>>
    BY <2>1, <2>6
  <2>7. QED
    BY <2>2, <2>3, <2>4, <2>5, <2>6 DEF Next, Caller, Recv, ReadFirst, ReadMore,
       SignalCaller, LeaveOnMatch, Say, Spurious, vars
<1>3. QED
  BY <1>1, <1>2, TypeOKAlways, PTL DEF Spec

\* wifi_recv_thread leaves a call in progress only with a match on record.
THEOREM LeavesOnlyOnMatchAlways == Spec => []LeavesOnlyOnMatch
<1>1. Init => LeavesOnlyOnMatch
  BY DEF Init, LeavesOnlyOnMatch
<1>2. LeavesOnlyOnMatch /\ [Next]_vars => LeavesOnlyOnMatch'
  BY DEF LeavesOnlyOnMatch, Next, Caller, Recv, Call, SendLine, Wake, TestFlag,
     ResetFlag, Join, ReadFirst, ReadMore, EndReply, SignalCaller, LeaveOnMatch,
     Say, Spurious, vars
<1>3. QED
  BY <1>1, <1>2, PTL DEF Spec

-----------------------------------------------------------------------------
(* The refinement.                                                         *)

\* What the mapping needs: the flag that the caller is about to reset is set,
\* and wifi_recv_thread exists just during a call.
ReceiptInv ==
  /\ caller = "reset" => flag_wifi = 1
  /\ recv = "none" <=> caller = "idle"

LEMMA ReceiptInvAlways == Spec => []ReceiptInv
<1>1. Init => ReceiptInv
  BY DEF Init, ReceiptInv
<1>2. ReceiptInv /\ [Next]_vars => ReceiptInv'
  <2> SUFFICES ASSUME ReceiptInv, [Next]_vars PROVE ReceiptInv'
    OBVIOUS
  <2>1. CASE Caller
    BY <2>1 DEF ReceiptInv, Caller, Call, SendLine, Wake, TestFlag, ResetFlag, Join
  <2>2. CASE Recv
    BY <2>2 DEF ReceiptInv, Recv, ReadFirst, ReadMore, EndReply, SignalCaller,
       LeaveOnMatch
  <2>3. CASE UNCHANGED <<caller, recv, flag_wifi>>
    BY <2>3 DEF ReceiptInv
  <2>4. QED
    BY <2>1, <2>2, <2>3 DEF Next, Spurious, Say, vars
<1>3. QED
  BY <1>1, <1>2, PTL DEF Spec

\* The steps of rm04_send_safe begin a call, take the receipt and end the
\* call; how often it is woken and what it writes does not show.
LEMMA CallerImplementsReceipt ==
  ASSUME TypeOK, ReceiptInv, Caller
  PROVE  [TheReceipt!Next]_(TheReceipt!vars)
<1>1. CASE Call
  <2>1. TheReceipt!Begin
    BY <1>1 DEF Call, TheReceipt!Begin
  <2>2. QED
    BY <2>1 DEF TheReceipt!Next
<1>2. CASE SendLine \/ Wake \/ TestFlag
  <2>1. UNCHANGED TheReceipt!vars
    BY <1>2 DEF SendLine, Wake, TestFlag, TheReceipt!vars
  <2>2. QED
    BY <2>1
<1>3. CASE ResetFlag
  <2>1. TheReceipt!Take
    BY <1>3 DEF ResetFlag, ReceiptInv, TheReceipt!Take
  <2>2. QED
    BY <2>1 DEF TheReceipt!Next
<1>4. CASE Join
  <2>1. TheReceipt!End
    BY <1>4 DEF Join, TheReceipt!End
  <2>2. QED
    BY <2>1 DEF TheReceipt!Next
<1>5. QED
  BY <1>1, <1>2, <1>3, <1>4 DEF Caller

\* The steps of wifi_recv_thread: the end of a reply is heard, and the test
\* after the signal decides whether the listener leaves.
LEMMA RecvImplementsReceipt ==
  ASSUME TypeOK, ReceiptInv, Recv
  PROVE  [TheReceipt!Next]_(TheReceipt!vars)
<1>1. CASE \E n \in 1..MsgSize : ReadFirst(n) \/ ReadMore(n)
  <2>1. UNCHANGED TheReceipt!vars
    BY <1>1 DEF ReadFirst, ReadMore, TheReceipt!vars
  <2>2. QED
    BY <2>1
<1>2. CASE EndReply
  <2>1. TheReceipt!HearReceipt \/ TheReceipt!HearOther
    BY <1>2 DEF EndReply, TheReceipt!HearReceipt, TheReceipt!HearOther
  <2>2. QED
    BY <2>1 DEF TheReceipt!Next
<1>3. CASE SignalCaller
  <2>1. UNCHANGED TheReceipt!vars
    BY <1>3 DEF SignalCaller, TheReceipt!vars
  <2>2. QED
    BY <2>1
<1>4. CASE LeaveOnMatch
  <2>1. TheReceipt!Look
    BY <1>4 DEF LeaveOnMatch, TheReceipt!Look
  <2>2. QED
    BY <2>1 DEF TheReceipt!Next
<1>5. QED
  BY <1>1, <1>2, <1>3, <1>4 DEF Recv

\* rm04_send_safe and wifi_recv_thread implement Receipt: although flag_wifi
\* is tested and reset in two steps and the caller may be woken by anything,
\* each receipt is taken once, by a call that was asking for it.
THEOREM ImplementsReceiptAlways == Spec => ImplementsReceipt
<1>1. Init => TheReceipt!Init
  BY DEF Init, TheReceipt!Init
<1>2. TypeOK /\ ReceiptInv /\ [Next]_vars => [TheReceipt!Next]_(TheReceipt!vars)
  <2> SUFFICES ASSUME TypeOK, ReceiptInv, [Next]_vars
               PROVE  [TheReceipt!Next]_(TheReceipt!vars)
    OBVIOUS
  <2>1. CASE Caller
    BY <2>1, CallerImplementsReceipt
  <2>2. CASE Recv
    BY <2>2, RecvImplementsReceipt
  <2>3. CASE UNCHANGED <<caller, recv, flag_wifi, matches, returns>>
    BY <2>3 DEF TheReceipt!vars
  <2>4. QED
    BY <2>1, <2>2, <2>3 DEF Next, Spurious, Say, vars
<1>3. QED
  BY <1>1, <1>2, TypeOKAlways, ReceiptInvAlways, PTL
     DEF Spec, ImplementsReceipt, TheReceipt!Spec

=============================================================================
