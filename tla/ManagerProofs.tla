----------------------------- MODULE ManagerProofs -----------------------------
(***************************************************************************)
(* What the lookup of a converter finds.                                   *)
(***************************************************************************)
EXTENDS ConvertManager, SequenceTheorems, TLAPS

\* A converter the lookup finds is registered, and supports the pair it was
\* looked up for.
LEMMA Found ==
  ASSUME NEW in, NEW out
  PROVE  LET found == get_convert_formats(convert_init, in, out)
         IN  \/ found = NULL
             \/ /\ found \in {"yuyv2jpg", "yuyv2rgb", "mjpeg2rgb"}
                /\ <<in, out>> \in is_support(found)
<1> DEFINE list == convert_init
           supports(i) == <<in, out>> \in is_support(list[i])
           first(i) == supports(i) /\ \A j \in 1..(i - 1) : ~supports(j)
<1>1. Len(list) = 3 /\ list \in Seq({"yuyv2jpg", "yuyv2rgb", "mjpeg2rgb"})
  <2> DEFINE Oprs == {"yuyv2jpg", "yuyv2rgb", "mjpeg2rgb"}
             last == <<"mjpeg2rgb">>
             both == <<"yuyv2rgb">> \o last
  <2>1. last \in Seq(Oprs) /\ <<"yuyv2rgb">> \in Seq(Oprs) /\ <<"yuyv2jpg">> \in Seq(Oprs)
    OBVIOUS
  <2>2. list_add("mjpeg2rgb", INIT_LIST_HEAD) = last
    BY <2>1, ConcatEmptySeq DEF list_add, INIT_LIST_HEAD
  <2>3. both \in Seq(Oprs) /\ Len(both) = 2
    BY <2>1, ConcatProperties
  <2>4. list = <<"yuyv2jpg">> \o both
    BY <2>2 DEF convert_init, list_add
  <2>5. <<"yuyv2jpg">> \o both \in Seq(Oprs) /\ Len(<<"yuyv2jpg">> \o both) = 3
    <3>. HIDE DEF both
    <3>1. Len(<<"yuyv2jpg">>) = 1
      OBVIOUS
    <3>2. <<"yuyv2jpg">> \o both \in Seq(Oprs)
      BY <2>1, <2>3, ConcatProperties
    <3>3. Len(<<"yuyv2jpg">> \o both) = Len(<<"yuyv2jpg">>) + Len(both)
      BY <2>1, <2>3, ConcatProperties
    <3>4. QED
      BY <2>3, <3>1, <3>2, <3>3
  <2>6. QED
    BY <2>4, <2>5
<1>2. DOMAIN list = 1..3
  BY <1>1
<1>. HIDE DEF list
<1>3. ASSUME \E i \in DOMAIN list : supports(i)
      PROVE  \E i \in DOMAIN list : first(i)
  <2>1. CASE supports(1)
    BY <1>2, <2>1
  <2>2. CASE ~supports(1) /\ supports(2)
    BY <1>2, <2>2
  <2>3. CASE ~supports(1) /\ ~supports(2) /\ supports(3)
    BY <1>2, <2>3
  <2>4. QED
    BY <1>2, <1>3, <2>1, <2>2, <2>3
<1>4. CASE \E i \in DOMAIN list : supports(i)
  <2>1. first(CHOOSE i \in DOMAIN list : first(i))
    BY <1>3, <1>4
  <2>2. get_convert_formats(list, in, out) = list[CHOOSE i \in DOMAIN list : first(i)]
    BY <1>4 DEF get_convert_formats
  <2>3. \A i \in DOMAIN list : list[i] \in {"yuyv2jpg", "yuyv2rgb", "mjpeg2rgb"}
    BY <1>1, <1>2
  <2>4. PICK i \in DOMAIN list : first(i) /\ get_convert_formats(list, in, out) = list[i]
    BY <1>3, <1>4, <2>1, <2>2
  <2>5. /\ get_convert_formats(list, in, out) \in {"yuyv2jpg", "yuyv2rgb", "mjpeg2rgb"}
        /\ <<in, out>> \in is_support(get_convert_formats(list, in, out))
    BY <2>3, <2>4
  <2>6. QED
    BY <2>5 DEF list
<1>5. CASE ~\E i \in DOMAIN list : supports(i)
  BY <1>5 DEF get_convert_formats, list
<1>6. QED
  BY <1>4, <1>5

=============================================================================
