---------------------------- MODULE KcpSeqProofs ----------------------------
(***************************************************************************)
(* Sequence numbers that wrap, for any window, any width of the numbers    *)
(* and any path that forgets a datagram in time. SeqInv ties every number  *)
(* the code compares to a place in the stream, close enough that           *)
(* _itimediff tells the true difference (SignedDifference).                *)
(***************************************************************************)
EXTENDS KcpSeq, ArithmeticLemmas, FiniteSetTheorems, SequenceTheorems

(* The constants, as the provers use them.                                 *)
LEMMA SeqConstants ==
  ASSUME ModulusAssumption, SeqAssumption
  PROVE  /\ Modulus \in Nat \ {0} /\ wnd \in Nat \ {0} /\ Stale \in Nat
         /\ wnd =< Stale /\ 2 * (wnd + Stale) =< Modulus
BY DEF ModulusAssumption, SeqAssumption

(* What the code sees of places in the stream that are close together.     *)
LEMMA SnFacts ==
  ASSUME ModulusAssumption, NEW a \in Int
  PROVE  /\ Sn(a) \in Tick
         /\ \A k \in Int : Plus(Sn(a), k) = Sn(a + k)
         /\ \A b \in Int : -Modulus =< 2 * (a - b) /\ 2 * (a - b) < Modulus =>
                             Itimediff(Sn(a), Sn(b)) = a - b
         /\ \A b \in Int : Sn(a) = Sn(b) /\ a - b < Modulus /\ b - a < Modulus => a = b
<1>1. Modulus \in Nat \ {0}
  BY DEF ModulusAssumption
<1>2. Sn(a) \in Tick
  BY <1>1, Remainder DEF Sn, Tick
<1>3. \A k \in Int : Plus(Sn(a), k) = Sn(a + k)
  BY <1>1, RemainderOfSum DEF Sn, Plus
<1>4. ASSUME NEW b \in Int, -Modulus =< 2 * (a - b), 2 * (a - b) < Modulus
      PROVE  Itimediff(Sn(a), Sn(b)) = a - b
  BY <1>1, <1>4, SignedDifference DEF Sn, Itimediff
<1>5. ASSUME NEW b \in Int, Sn(a) = Sn(b), a - b < Modulus, b - a < Modulus
      PROVE  a = b
  BY <1>1, <1>5, RemainderInjective DEF Sn
<1> QED
  BY <1>2, <1>3, <1>4, <1>5

-----------------------------------------------------------------------------
(* The invariant.                                                          *)

D == Len(delivered)

(* The receiver has it.                                                    *)
Got(seg) == seg \in rcv_buf \/ seg < D

(* Where the sender is: una is the place that snd_una stands for.          *)
SendWindow(una) ==
  /\ una =< sent /\ sent - una =< wnd
  /\ snd_una = Sn(una)
  /\ \A seg \in snd_buf : una =< seg

(* What the path, and the list of what to acknowledge, still hold.         *)
Recent(seg) == seg \in Nat /\ seg < sent /\ sent - seg =< Stale

(* An acknowledgement was true when it was sent, and was sent when the     *)
(* receiver was not far from it.                                           *)
AckTrue(a) ==
  /\ Recent(a.seg) /\ Got(a.seg)
  /\ \E una \in Nat : a.una = Sn(una) /\ una =< D /\ a.seg < una + wnd

SeqInv ==
  /\ sent \in Nat /\ delivered \in Seq(Nat) /\ D =< sent
  /\ snd_nxt = Sn(sent) /\ rcv_nxt = Sn(D)
  /\ \A seg \in snd_buf : seg \in Nat /\ seg < sent
  /\ \A seg \in rcv_buf : seg \in Nat /\ D < seg /\ seg < sent
  /\ \E una \in Nat : SendWindow(una)
  /\ \A seg \in data : Recent(seg)
  /\ \A seg \in acklist : Recent(seg) /\ Got(seg)
  /\ \A a \in acks : AckTrue(a)
  /\ InSequence
  /\ HeldUntilReceived

(* At the start places and numbers are all 0.                              *)
LEMMA SeqInit ==
  ASSUME ModulusAssumption, SeqAssumption, Init
  PROVE  SeqInv
<1>1. delivered \in Seq(Nat) /\ D = 0 /\ DOMAIN delivered = {}
  BY EmptySeq DEF Init, D
<1>2. Sn(0) = 0
  BY SeqConstants, RemainderSigned DEF Sn
<1>3. SendWindow(0)
  BY <1>2, SeqConstants DEF Init, SendWindow
<1> QED
  BY <1>1, <1>2, <1>3 DEF Init, SeqInv, InSequence, HeldUntilReceived

(* The sender's window starts no later than the receiver's.                *)
LEMMA WindowsMeet ==
  ASSUME ModulusAssumption, SeqAssumption, SeqInv, NEW una \in Nat, SendWindow(una)
  PROVE  D \in Nat /\ una =< D /\ sent =< D + wnd
<1>1. D \in Nat /\ sent \in Nat /\ D =< sent
  BY DEF SeqInv, D
<1>2. una =< D
  <2> SUFFICES ASSUME D < una PROVE FALSE
    BY <1>1
  <2>1. D \in 0..(sent - 1)
    BY <1>1 DEF SendWindow
  <2>2. D \in snd_buf \/ D \in rcv_buf \/ D < Len(delivered)
    BY <2>1 DEF SeqInv, HeldUntilReceived
  <2>3. D \notin snd_buf
    BY <1>1 DEF SendWindow
  <2>4. D \notin rcv_buf
    BY <1>1 DEF SeqInv
  <2> QED
    BY <1>1, <2>2, <2>3, <2>4 DEF D
<1> QED
  BY <1>1, <1>2, SeqConstants DEF SendWindow

-----------------------------------------------------------------------------
(* The invariant is kept.                                                  *)

(* ikcp_flush numbers a segment, and the path forgets what has become      *)
(* stale.                                                                  *)
LEMMA FlushKeeps ==
  ASSUME ModulusAssumption, SeqAssumption, SeqInv, ikcp_flush
  PROVE  SeqInv'
<1>1. /\ sent' = sent + 1 /\ snd_buf' = snd_buf \cup {sent} /\ snd_nxt' = Plus(snd_nxt, 1)
      /\ data' = Current(data \cup {sent}, sent') /\ acklist' = Current(acklist, sent')
      /\ acks' = {a \in acks : a.seg \in Current({a.seg}, sent')}
      /\ UNCHANGED <<snd_una, rcv_nxt, rcv_buf, delivered>>
  BY DEF ikcp_flush
<1>2. PICK una \in Nat : SendWindow(una)
  BY DEF SeqInv
<1>3. D \in Nat /\ D' = D /\ sent \in Nat /\ D =< sent
  BY <1>1 DEF SeqInv, D
<1>4. una =< sent /\ sent - una =< wnd /\ snd_una = Sn(una)
  BY <1>2 DEF SendWindow
<1>5. sent - una < wnd
  <2>1. Plus(snd_una, wnd) = Sn(una + wnd)
    BY <1>4, SnFacts, SeqConstants
  <2>2. /\ una + wnd \in Int /\ -Modulus =< 2 * (sent - (una + wnd))
        /\ 2 * (sent - (una + wnd)) < Modulus
    BY <1>3, <1>4, SeqConstants
  <2>3. Itimediff(Sn(sent), Sn(una + wnd)) = sent - (una + wnd)
    BY <1>3, <2>2, SnFacts
  <2>4. Itimediff(snd_nxt, Plus(snd_una, wnd)) < 0 /\ snd_nxt = Sn(sent)
    BY DEF ikcp_flush, SeqInv
  <2>5. sent - (una + wnd) < 0
    BY <2>1, <2>3, <2>4
  <2> QED
    BY <1>3, <2>5, SeqConstants
<1>6. SendWindow(una)'
  <2>1. una =< sent' /\ sent' - una =< wnd
    BY <1>1, <1>3, <1>4, <1>5, SeqConstants
  <2>2. \A seg \in snd_buf' : una =< seg
    BY <1>1, <1>2, <1>4 DEF SendWindow
  <2> QED
    BY <1>1, <1>4, <2>1, <2>2 DEF SendWindow
<1>7. snd_nxt' = Sn(sent')
  BY <1>1, <1>3, SnFacts DEF SeqInv
<1>8. \A seg : Got(seg) => Got(seg)'
  BY <1>1, <1>3 DEF Got
<1>9. \A seg : Recent(seg) /\ sent' - seg =< Stale => Recent(seg)'
  BY <1>1, <1>3 DEF Recent
<1>10. ASSUME NEW seg \in data' PROVE Recent(seg)'
  <2>1. seg \in data \cup {sent} /\ sent' - seg =< Stale
    BY <1>1 DEF Current
  <2>2. CASE seg \in data
    BY <1>9, <2>1, <2>2 DEF SeqInv
  <2>3. CASE seg = sent
    <3>1. seg \in Nat /\ seg < sent' /\ sent' - seg =< Stale
      BY <1>1, <1>3, <2>1, <2>3
    <3> QED
      BY <3>1 DEF Recent
  <2> QED
    BY <2>1, <2>2, <2>3
<1>11. \A seg \in acklist' : Recent(seg)' /\ Got(seg)'
  <2>1. \A seg \in acklist' : seg \in acklist /\ sent' - seg =< Stale
    BY <1>1 DEF Current
  <2> QED
    BY <1>8, <1>9, <2>1 DEF SeqInv
<1>12. \A a \in acks' : AckTrue(a)'
  <2> SUFFICES ASSUME NEW a \in acks' PROVE AckTrue(a)'
    OBVIOUS
  <2>1. a \in acks /\ sent' - a.seg =< Stale
    BY <1>1 DEF Current
  <2>2. AckTrue(a)
    BY <2>1 DEF SeqInv
  <2> QED
    BY <1>3, <1>8, <1>9, <2>1, <2>2 DEF AckTrue
<1>13. HeldUntilReceived'
  <2>1. \A seg \in 0..(sent' - 1) : seg \in 0..(sent - 1) \/ seg = sent
    BY <1>1, <1>3
  <2> QED
    BY <1>1, <2>1 DEF SeqInv, HeldUntilReceived
<1>14. InSequence'
  BY <1>1 DEF SeqInv, InSequence
<1>15. /\ sent' \in Nat /\ delivered' \in Seq(Nat) /\ D' =< sent' /\ rcv_nxt' = Sn(D')
       /\ \A seg \in snd_buf' : seg \in Nat /\ seg < sent'
       /\ \A seg \in rcv_buf' : seg \in Nat /\ D' < seg /\ seg < sent'
  BY <1>1, <1>3 DEF SeqInv
<1> QED
  BY <1>6, <1>7, <1>10, <1>11, <1>12, <1>13, <1>14, <1>15 DEF SeqInv

(* Sending and losing acknowledgements.                                    *)
LEMMA AckStepsKeep ==
  ASSUME ModulusAssumption, SeqAssumption, SeqInv, ikcp_flush_ack \/ Lose \/ UNCHANGED vars
  PROVE  SeqInv'
<1>1. UNCHANGED <<sent, snd_buf, snd_una, snd_nxt, rcv_nxt, rcv_buf, delivered, data>>
  BY DEF ikcp_flush_ack, Lose, vars, sender, receiver
<1>2. PICK una \in Nat : SendWindow(una)
  BY DEF SeqInv
<1>3. D \in Nat /\ sent \in Nat /\ sent =< D + wnd
  BY <1>2, WindowsMeet DEF SeqInv
<1>4. D' = D /\ \A seg : (Got(seg)' <=> Got(seg)) /\ (Recent(seg)' <=> Recent(seg))
  BY <1>1 DEF D, Got, Recent
<1>5. acklist' \subseteq acklist
  BY DEF ikcp_flush_ack, Lose, vars, sender, receiver
<1>6. ASSUME NEW a \in acks' PROVE AckTrue(a)'
  <2>1. CASE a \in acks
    BY <1>4, <2>1 DEF SeqInv, AckTrue
  <2>2. CASE a \notin acks
    <3>1. PICK seg \in acklist : acks' = acks \cup {[seg |-> seg, una |-> rcv_nxt]}
      BY <2>2 DEF ikcp_flush_ack, Lose, vars
    <3>2. a.seg = seg /\ a.una = Sn(D)
      BY <2>2, <3>1 DEF SeqInv
    <3>3. Recent(seg) /\ Got(seg)
      BY DEF SeqInv
    <3>4. seg < D + wnd
      BY <1>3, <3>3, SeqConstants DEF Recent
    <3> QED
      BY <1>3, <1>4, <3>2, <3>3, <3>4 DEF AckTrue
  <2> QED
    BY <2>1, <2>2
<1>7. SendWindow(una)'
  BY <1>1, <1>2 DEF SendWindow
<1>8. InSequence' /\ HeldUntilReceived'
  BY <1>1 DEF SeqInv, InSequence, HeldUntilReceived
<1>9. \A seg \in acklist' : Recent(seg)' /\ Got(seg)'
  BY <1>4, <1>5 DEF SeqInv
<1>10. \A seg \in data' : Recent(seg)'
  BY <1>1, <1>4 DEF SeqInv
<1> QED
  BY <1>1, <1>4, <1>6, <1>7, <1>8, <1>9, <1>10 DEF SeqInv

(* ikcp_parse_una drops what is below una, ikcp_parse_ack the segment it   *)
(* names: all of it the receiver has.                                      *)
LEMMA InputAckKeeps ==
  ASSUME ModulusAssumption, SeqAssumption, SeqInv, ikcp_input_ack
  PROVE  SeqInv'
<1>1. UNCHANGED <<sent, snd_nxt, rcv_nxt, rcv_buf, delivered, acklist, data, acks>>
  BY DEF ikcp_input_ack, receiver
<1>2. PICK a \in acks :
        LET buf == ikcp_parse_una(a.una)
        IN /\ snd_buf' = ikcp_parse_ack(buf, ikcp_shrink_buf(buf), Sn(a.seg))
           /\ snd_una' = ikcp_shrink_buf(snd_buf')
  BY DEF ikcp_input_ack
<1>3. PICK una \in Nat : SendWindow(una)
  BY DEF SeqInv
<1>4. D \in Nat /\ sent \in Nat /\ una =< D /\ sent =< D + wnd /\ D =< sent
  BY <1>3, WindowsMeet DEF SeqInv
<1>5. \A seg \in snd_buf : seg \in Nat /\ una =< seg /\ seg < sent /\ sent - seg =< wnd
  BY <1>3, <1>4, SeqConstants DEF SeqInv, SendWindow
<1>6. PICK ack \in Nat : a.una = Sn(ack) /\ ack =< D /\ a.seg < ack + wnd
  BY DEF SeqInv, AckTrue
<1>7. Recent(a.seg) /\ Got(a.seg)
  BY DEF SeqInv, AckTrue
<1> DEFINE buf == ikcp_parse_una(a.una)
<1>8. buf \subseteq snd_buf /\ \A seg \in snd_buf \ buf : seg < D
  <2>1. ASSUME NEW seg \in snd_buf PROVE Below(Sn(seg), a.una) => seg < ack
    <3>1. -Modulus =< 2 * (ack - seg) /\ 2 * (ack - seg) < Modulus
      BY <1>4, <1>5, <1>6, <1>7, SeqConstants DEF Recent
    <3>2. Itimediff(Sn(ack), Sn(seg)) = ack - seg
      BY <1>5, <3>1, SnFacts
    <3> QED
      BY <1>5, <1>6, <3>2 DEF Below
  <2>2. \A seg \in snd_buf \ buf : Below(Sn(seg), a.una)
    BY <1>5 DEF ikcp_parse_una
  <2>3. buf \subseteq snd_buf
    BY DEF ikcp_parse_una
  <2> HIDE DEF buf
  <2> QED
    BY <1>4, <1>5, <1>6, <2>1, <2>2, <2>3
<1>9. snd_buf' \subseteq snd_buf /\ \A seg \in snd_buf \ snd_buf' : Got(seg)
  <2>1. snd_buf' = buf \/ snd_buf' = {seg \in buf : Sn(seg) # Sn(a.seg)}
    BY <1>2 DEF ikcp_parse_ack
  <2> HIDE DEF buf
  <2>2. ASSUME NEW seg \in snd_buf, Sn(seg) = Sn(a.seg) PROVE seg = a.seg
    <3>1. /\ seg \in Int /\ a.seg \in Int
          /\ seg - a.seg < Modulus /\ a.seg - seg < Modulus
      BY <1>4, <1>5, <1>7, SeqConstants DEF Recent
    <3> QED
      BY <2>2, <3>1, SnFacts
  <2>3. \A seg \in snd_buf \ snd_buf' : seg \notin buf \/ seg = a.seg
    BY <1>8, <2>1, <2>2
  <2> QED
    BY <1>7, <1>8, <2>1, <2>3 DEF Got
<1>10. \E new \in Nat : SendWindow(new)'
  <2>1. CASE snd_buf' = {}
    <3>1. snd_una' = Sn(sent)
      BY <1>2, <2>1 DEF ikcp_shrink_buf, SeqInv
    <3>2. sent - sent =< wnd /\ sent =< sent
      BY <1>4, SeqConstants
    <3> QED
      BY <1>1, <1>4, <2>1, <3>1, <3>2 DEF SendWindow
  <2>2. CASE snd_buf' # {}
    <3>1. PICK least \in snd_buf' : \A s \in snd_buf' : least =< s
      BY <1>5, <1>9, <2>2, LeastNat
    <3>2. snd_una' = Sn(CHOOSE seg \in snd_buf' : \A s \in snd_buf' : seg =< s)
      BY <1>2, <2>2 DEF ikcp_shrink_buf
    <3>3. PICK new \in snd_buf' : snd_una' = Sn(new) /\ \A s \in snd_buf' : new =< s
      BY <3>1, <3>2
    <3>4. new \in Nat /\ new =< sent' /\ sent' - new =< wnd
      BY <1>1, <1>4, <1>5, <1>9
    <3> QED
      BY <3>3, <3>4 DEF SendWindow
  <2> QED
    BY <2>1, <2>2
<1>11. HeldUntilReceived'
  <2>1. ASSUME NEW seg \in 0..(sent - 1)
        PROVE  seg \in snd_buf' \/ seg \in rcv_buf \/ seg < Len(delivered)
    BY <1>9 DEF SeqInv, HeldUntilReceived, Got, D
  <2> QED
    BY <1>1, <2>1 DEF HeldUntilReceived
<1>12. D' = D /\ \A seg : (Got(seg)' <=> Got(seg)) /\ (Recent(seg)' <=> Recent(seg))
  BY <1>1 DEF D, Got, Recent
<1>13. \A x \in acks : AckTrue(x)'
  BY <1>1, <1>12 DEF SeqInv, AckTrue
<1>14. InSequence'
  BY <1>1 DEF SeqInv, InSequence
<1>15. \A seg \in snd_buf' : seg \in Nat /\ seg < sent'
  BY <1>1, <1>5, <1>9
<1> QED
  BY <1>1, <1>10, <1>11, <1>12, <1>13, <1>14, <1>15 DEF SeqInv

(* How much of buf is in line at the receiver: up to the first gap.        *)
LEMMA InLineFacts ==
  ASSUME ModulusAssumption, SeqAssumption, SeqInv, NEW buf,
         \A seg \in buf : seg \in Nat /\ D =< seg /\ seg < D + wnd
  PROVE  \E n \in Nat : /\ InLine(buf) = [k \in 1..n |-> D + k - 1]
                        /\ D + n \notin buf
                        /\ \A k \in 1..n : D + k - 1 \in buf
<1>1. D \in Nat
  BY DEF SeqInv, D
<1>2. buf \subseteq D..(D + wnd - 1)
  BY <1>1, SeqConstants
<1>3. IsFiniteSet(D..(D + wnd - 1)) /\ Cardinality(D..(D + wnd - 1)) = wnd
  <2>1. D \in Int /\ D + wnd - 1 \in Int /\ ~(D > D + wnd - 1) /\ (D + wnd - 1) - D + 1 = wnd
    BY <1>1, SeqConstants
  <2> QED
    BY <2>1, FS_Interval
<1>4. IsFiniteSet(buf) /\ Cardinality(buf) \in Nat /\ Cardinality(buf) =< wnd
  BY <1>2, <1>3, FS_Subset, FS_CardinalityType
<1> DEFINE Has(k) == \E s \in buf : Sn(s) = Plus(rcv_nxt, k)
           Ends(k) == ~Has(k) /\ \A j \in 0..(k - 1) : Has(j)
<1>5. ASSUME NEW k \in 0..wnd, NEW s \in buf PROVE Sn(s) = Plus(rcv_nxt, k) <=> s = D + k
  <2>1. Plus(rcv_nxt, k) = Sn(D + k)
    BY <1>1, SnFacts, SeqConstants DEF SeqInv
  <2>2. /\ s \in Int /\ D + k \in Int /\ s - (D + k) < Modulus /\ (D + k) - s < Modulus
    BY <1>1, SeqConstants
  <2> QED
    BY <2>1, <2>2, SnFacts
<1>6. \A k \in 0..wnd : Has(k) <=> D + k \in buf
  BY <1>5
<1> HIDE DEF Has
<1>7. PICK n \in Nat : D + n \notin buf /\ \A j \in Nat : j < n => D + j \in buf
  <2> DEFINE G == {k \in Nat : D + k \notin buf}
  <2>1. wnd \in G
    BY <1>1, SeqConstants
  <2>2. PICK n \in G : \A j \in G : n =< j
    <3>1. G \subseteq Nat /\ G # {}
      BY <2>1
    <3> HIDE DEF G
    <3> QED
      BY <3>1, LeastNat
  <2>3. \A j \in Nat : j < n => D + j \in buf
    BY <2>2
  <2> QED
    BY <2>2, <2>3
<1>8. n =< Cardinality(buf)
  <2>1. CASE n = 0
    BY <1>4, <2>1
  <2>2. CASE n # 0
    <3>1. D..(D + n - 1) \subseteq buf
      <4>1. ASSUME NEW x \in D..(D + n - 1) PROVE x \in buf
        <5>1. x - D \in Nat /\ x - D < n /\ D + (x - D) = x
          BY <1>1
        <5> QED
          BY <1>7, <5>1
      <4> QED
        BY <4>1
    <3>2. Cardinality(D..(D + n - 1)) = n
      <4>1. D \in Int /\ D + n - 1 \in Int /\ ~(D > D + n - 1) /\ (D + n - 1) - D + 1 = n
        BY <1>1, <2>2
      <4> QED
        BY <4>1, FS_Interval
    <3> DEFINE T == D..(D + n - 1)
    <3>3. Cardinality(T) = n /\ T \in SUBSET buf
      BY <3>1, <3>2
    <3> HIDE DEF T
    <3>4. Cardinality(T) =< Cardinality(buf)
      BY <1>4, <3>3, FS_Subset
    <3> QED
      BY <3>3, <3>4
  <2> QED
    BY <2>1, <2>2
<1>9. n \in 0..Cardinality(buf) /\ n \in 0..wnd
  BY <1>4, <1>8, SeqConstants
<1>10. Ends(n)
  <2>1. ~Has(n)
    BY <1>6, <1>7, <1>9
  <2>2. ASSUME NEW j \in 0..(n - 1) PROVE Has(j)
    <3>1. j \in 0..wnd /\ j \in Nat /\ j < n
      BY <1>9, SeqConstants
    <3> QED
      BY <1>6, <1>7, <3>1
  <2> QED
    BY <2>1, <2>2
<1>11. \A k \in 0..Cardinality(buf) : Ends(k) => k = n
  <2> SUFFICES ASSUME NEW k \in 0..Cardinality(buf), Ends(k) PROVE k = n
    OBVIOUS
  <2>1. k \in Nat /\ k \in 0..wnd
    BY <1>4, SeqConstants
  <2>2. ~(k < n)
    BY <1>6, <1>7, <2>1
  <2>3. ~(n < k)
    <3> SUFFICES ASSUME n < k PROVE FALSE
      OBVIOUS
    <3>1. n \in 0..(k - 1)
      BY <2>1
    <3> QED
      BY <1>10, <3>1
  <2> QED
    BY <2>1, <2>2, <2>3
<1>12. (CHOOSE k \in 0..Cardinality(buf) : Ends(k)) = n
  <2> HIDE DEF Ends
  <2> QED
    BY <1>9, <1>10, <1>11
<1>13. InLine(buf) = [k \in 1..n |-> CHOOSE s \in buf : Sn(s) = Plus(rcv_nxt, k - 1)]
  BY <1>12 DEF InLine, Ends, Has
<1>14. ASSUME NEW k \in 1..n PROVE (CHOOSE s \in buf : Sn(s) = Plus(rcv_nxt, k - 1)) = D + k - 1
  <2>1. k - 1 \in 0..wnd /\ k - 1 \in Nat /\ k - 1 < n /\ D + (k - 1) = D + k - 1
    BY <1>1, <1>9, SeqConstants
  <2>2. D + k - 1 \in buf
    BY <1>7, <2>1
  <2>3. \A s \in buf : Sn(s) = Plus(rcv_nxt, k - 1) <=> s = D + k - 1
    BY <1>5, <2>1
  <2> QED
    BY <2>2, <2>3
<1>15. \A k \in 1..n : D + k - 1 \in buf
  <2> SUFFICES ASSUME NEW k \in 1..n PROVE D + k - 1 \in buf
    OBVIOUS
  <2>1. k - 1 \in Nat /\ k - 1 < n /\ D + (k - 1) = D + k - 1
    BY <1>1
  <2> QED
    BY <1>7, <2>1
<1>16. InLine(buf) = [k \in 1..n |-> D + k - 1]
  BY <1>13, <1>14
<1> QED
  BY <1>7, <1>15, <1>16

(* What is where in one sequence after another.                            *)
LEMMA Appended ==
  ASSUME NEW s \in Seq(Nat), NEW t \in Seq(Nat)
  PROVE  /\ s \o t \in Seq(Nat) /\ Len(s \o t) = Len(s) + Len(t)
         /\ \A i \in 1..Len(s) : (s \o t)[i] = s[i]
         /\ \A i \in (Len(s) + 1)..(Len(s) + Len(t)) : (s \o t)[i] = t[i - Len(s)]
<1>1. /\ s \o t \in Seq(Nat) /\ Len(s \o t) = Len(s) + Len(t)
      /\ \A i \in 1..(Len(s) + Len(t)) :
           (s \o t)[i] = IF i =< Len(s) THEN s[i] ELSE t[i - Len(s)]
  BY ConcatProperties
<1>2. Len(s) \in Nat /\ Len(t) \in Nat
  OBVIOUS
<1> QED
  BY <1>1, <1>2

(* ikcp_parse_data: the number of a segment that is still about tells its  *)
(* place, so what is taken is what comes next.                             *)
LEMMA InputPushKeeps ==
  ASSUME ModulusAssumption, SeqAssumption, SeqInv, ikcp_input_push
  PROVE  SeqInv'
<1>1. UNCHANGED <<sent, snd_buf, snd_una, snd_nxt, data, acks>>
  BY DEF ikcp_input_push, sender
<1>2. PICK seg \in data :
        /\ acklist' = acklist \cup {seg}
        /\ LET buf == IF Fresh(Sn(seg)) THEN Inserted(seg) ELSE rcv_buf
               up  == InLine(buf)
           IN /\ delivered' = delivered \o up
              /\ rcv_buf' = buf \ {up[k] : k \in DOMAIN up}
              /\ rcv_nxt' = Plus(rcv_nxt, Len(up))
  BY DEF ikcp_input_push
<1>3. PICK una \in Nat : SendWindow(una)
  BY DEF SeqInv
<1>4. D \in Nat /\ sent \in Nat /\ una =< D /\ sent =< D + wnd /\ D =< sent
  BY <1>3, WindowsMeet DEF SeqInv
<1>5. Recent(seg) /\ seg \in Nat /\ seg < sent /\ sent - seg =< Stale
  BY DEF SeqInv, Recent
<1> DEFINE buf == IF Fresh(Sn(seg)) THEN Inserted(seg) ELSE rcv_buf
           up == InLine(buf)
<1>6. /\ \A s \in buf : s \in Nat /\ D =< s /\ s < D + wnd /\ s < sent
      /\ rcv_buf \subseteq buf
      /\ seg \in buf \/ seg < D
  <2>1. \A s \in rcv_buf : s \in Nat /\ D < s /\ s < sent
    BY DEF SeqInv
  <2>2. Fresh(Sn(seg)) <=> seg - D >= 0
    <3>1. D \in Int /\ seg \in Int /\ -Modulus =< 2 * (seg - D) /\ 2 * (seg - D) < Modulus
      BY <1>4, <1>5, SeqConstants
    <3>2. Itimediff(Sn(seg), Sn(D)) = seg - D
      BY <3>1, SnFacts
    <3> QED
      BY <3>2 DEF Fresh, SeqInv
  <2>3. \A s \in rcv_buf : Sn(s) = Sn(seg) => s = seg
    <3> SUFFICES ASSUME NEW s \in rcv_buf, Sn(s) = Sn(seg) PROVE s = seg
      OBVIOUS
    <3>1. s \in Int /\ seg \in Int /\ s - seg < Modulus /\ seg - s < Modulus
      BY <1>4, <1>5, <2>1, SeqConstants
    <3> QED
      BY <3>1, SnFacts
  <2>4. buf = rcv_buf \/ (buf = rcv_buf \cup {seg} /\ seg >= D)
    BY <1>4, <1>5, <2>2 DEF Inserted
  <2>5. seg \in buf \/ seg < D
    <3>1. CASE Fresh(Sn(seg))
      BY <2>3, <3>1 DEF Inserted
    <3>2. CASE ~Fresh(Sn(seg))
      BY <1>4, <1>5, <2>2, <3>2
    <3> QED
      BY <3>1, <3>2
  <2> HIDE DEF buf
  <2> QED
    BY <1>4, <1>5, <2>1, <2>4, <2>5, SeqConstants
<1>7. /\ delivered' = delivered \o up /\ rcv_nxt' = Plus(rcv_nxt, Len(up))
      /\ rcv_buf' = buf \ {up[k] : k \in DOMAIN up}
  BY <1>2
<1> HIDE DEF buf
<1>8. PICK n \in Nat : /\ up = [k \in 1..n |-> D + k - 1]
                       /\ D + n \notin buf /\ \A k \in 1..n : D + k - 1 \in buf
  BY <1>6, InLineFacts
<1> HIDE DEF up
<1>9. /\ up \in Seq(Nat) /\ Len(up) = n /\ DOMAIN up = 1..n
      /\ \A k \in 1..n : up[k] = D + k - 1
  BY <1>4, <1>8
<1>10. /\ delivered' \in Seq(Nat) /\ Len(delivered') = D + n
       /\ \A i \in 1..D : delivered'[i] = delivered[i]
       /\ \A i \in (D + 1)..(D + n) : delivered'[i] = up[i - D]
  <2>1. delivered \in Seq(Nat) /\ Len(delivered) = D
    BY DEF SeqInv, D
  <2>2. up \in Seq(Nat) /\ Len(up) = n
    BY <1>9
  <2>3. /\ delivered \o up \in Seq(Nat)
        /\ Len(delivered \o up) = Len(delivered) + Len(up)
        /\ \A i \in 1..Len(delivered) : (delivered \o up)[i] = delivered[i]
        /\ \A i \in (Len(delivered) + 1)..(Len(delivered) + Len(up)) :
             (delivered \o up)[i] = up[i - Len(delivered)]
    BY <2>1, <2>2, Appended, Zenon
  <2>4. delivered' = delivered \o up
    BY <1>7
  <2> QED
    BY <2>1, <2>2, <2>3, <2>4, Zenon
<1>11. D' = D + n /\ D' \in Nat
  BY <1>4, <1>10 DEF D
<1>12. D' =< sent /\ rcv_nxt' = Sn(D')
  <2>1. n # 0 => D + n - 1 < sent
    BY <1>6, <1>8
  <2>2. rcv_nxt' = Sn(D + n)
    BY <1>4, <1>7, <1>9, SnFacts DEF SeqInv
  <2> QED
    BY <1>4, <1>11, <2>1, <2>2
<1>13. InSequence'
  <2>1. ASSUME NEW i \in 1..(D + n) PROVE delivered'[i] = i - 1
    <3>1. CASE i \in 1..D
      <4>1. delivered[i] = i - 1
        <5>1. delivered \in Seq(Nat) /\ DOMAIN delivered = 1..D
          BY DEF SeqInv, D
        <5> QED
          BY <3>1, <5>1 DEF SeqInv, InSequence
      <4> QED
        BY <1>10, <3>1, <4>1
    <3>2. CASE i \notin 1..D
      <4>1. i \in (D + 1)..(D + n) /\ i - D \in 1..n /\ D + (i - D) - 1 = i - 1
        BY <1>4, <3>2
      <4> QED
        BY <1>9, <1>10, <4>1
    <3> QED
      BY <3>1, <3>2
  <2>2. DOMAIN delivered' = 1..(D + n)
    BY <1>10
  <2> QED
    BY <2>1, <2>2 DEF InSequence
<1>14. \A s \in rcv_buf' : s \in buf /\ D + n < s
  <2> SUFFICES ASSUME NEW s \in rcv_buf' PROVE s \in buf /\ D + n < s
    OBVIOUS
  <2>1. s \in buf /\ \A k \in 1..n : s # up[k]
    BY <1>7, <1>9
  <2>2. s \in Nat /\ D =< s /\ s # D + n
    BY <1>6, <1>8, <2>1
  <2>3. ~(s < D + n)
    <3> SUFFICES ASSUME s < D + n PROVE FALSE
      OBVIOUS
    <3>1. s - D + 1 \in 1..n /\ D + (s - D + 1) - 1 = s
      BY <1>4, <2>2
    <3> QED
      BY <1>9, <2>1, <3>1
  <2> QED
    BY <1>4, <2>1, <2>2, <2>3
<1>15. ASSUME NEW s, s \in buf \/ s < D PROVE Got(s)' \/ s \notin Nat
  <2> SUFFICES ASSUME s \in Nat, s \notin rcv_buf' PROVE s < D'
    BY DEF Got
  <2>1. CASE s < D
    BY <1>4, <1>11, <2>1
  <2>2. CASE s \in buf
    <3>1. PICK k \in 1..n : s = up[k]
      BY <1>7, <1>9, <2>2
    <3> QED
      BY <1>4, <1>9, <1>11, <3>1
  <2> QED
    BY <1>15, <2>1, <2>2
<1>16. \A s \in Nat : Got(s) => Got(s)'
  BY <1>6, <1>15 DEF Got
<1>17. \A s : Recent(s)' <=> Recent(s)
  BY <1>1 DEF Recent
<1>18. \A s \in acklist' : Recent(s)' /\ Got(s)'
  <2>1. Got(seg)'
    BY <1>5, <1>6, <1>15
  <2>2. \A s \in acklist : s \in Nat /\ Recent(s) /\ Got(s)
    BY DEF SeqInv, Recent
  <2> QED
    BY <1>2, <1>5, <1>16, <1>17, <2>1, <2>2
<1>19. \A a \in acks' : AckTrue(a)'
  <2> SUFFICES ASSUME NEW a \in acks PROVE AckTrue(a)'
    BY <1>1
  <2>1. Recent(a.seg) /\ Got(a.seg) /\ a.seg \in Nat
    BY DEF SeqInv, AckTrue, Recent
  <2>2. PICK ack \in Nat : a.una = Sn(ack) /\ ack =< D /\ a.seg < ack + wnd
    BY DEF SeqInv, AckTrue
  <2>3. ack =< D'
    BY <1>4, <1>11, <2>2
  <2> QED
    BY <1>16, <1>17, <2>1, <2>2, <2>3 DEF AckTrue
<1>20. HeldUntilReceived'
  <2>1. ASSUME NEW s \in 0..(sent - 1) PROVE s \in snd_buf \/ Got(s)'
    BY <1>4, <1>16 DEF SeqInv, HeldUntilReceived, Got, D
  <2> QED
    BY <1>1, <2>1 DEF HeldUntilReceived, Got, D
<1>21. SendWindow(una)'
  BY <1>1, <1>3 DEF SendWindow
<1>22. \A s \in rcv_buf' : s \in Nat /\ D' < s /\ s < sent'
  BY <1>1, <1>6, <1>11, <1>14
<1>23. \A s \in data' : Recent(s)'
  BY <1>1, <1>17 DEF SeqInv
<1> QED
  BY <1>1, <1>10, <1>12, <1>13, <1>18, <1>19, <1>20, <1>21, <1>22, <1>23 DEF SeqInv

(* For every window, every width of the numbers and every path that keeps  *)
(* nothing longer than Stale: places and numbers stay in step.             *)
THEOREM SeqInvariance ==
  ASSUME ModulusAssumption, SeqAssumption
  PROVE  Spec => []SeqInv
<1>1. Init => SeqInv
  BY SeqInit
<1>2. SeqInv /\ [Next]_vars => SeqInv'
  BY FlushKeeps, InputPushKeeps, AckStepsKeep, InputAckKeeps DEF Next
<1> QED
  BY <1>1, <1>2, PTL DEF Spec

(* ikcp_parse_data hands the stream over in order, each segment once, also *)
(* when sn wraps.                                                          *)
THEOREM InSequenceHolds ==
  ASSUME ModulusAssumption, SeqAssumption
  PROVE  Spec => []InSequence
<1>1. SeqInv => InSequence
  BY DEF SeqInv
<1> QED
  BY <1>1, SeqInvariance, PTL

(* ikcp_parse_una and ikcp_parse_ack forget no segment that the receiver   *)
(* does not have, also when una and sn wrap.                               *)
THEOREM HeldUntilReceivedHolds ==
  ASSUME ModulusAssumption, SeqAssumption
  PROVE  Spec => []HeldUntilReceived
<1>1. SeqInv => HeldUntilReceived
  BY DEF SeqInv
<1> QED
  BY <1>1, SeqInvariance, PTL

=============================================================================
