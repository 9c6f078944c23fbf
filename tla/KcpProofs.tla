------------------------------ MODULE KcpProofs -----------------------------
(***************************************************************************)
(* The properties of Kcp, for any windows, message sizes and bounds.       *)
(* First type correctness, with the lemmas about the operators; then IInv  *)
(* is shown inductive and the properties follow from it; then Kcp is shown *)
(* to implement MsgPipe.                                                   *)
(***************************************************************************)
EXTENDS KcpInvariant, SequenceTheorems, TLAPS

-----------------------------------------------------------------------------
(* Lemmas about the operators.                                             *)

(* The peer of an end is the other end, and the other way round.           *)
LEMMA PeerFacts ==
  \A e \in Endpoints :
    /\ Peer(e) \in Endpoints
    /\ Peer(e) # e
    /\ Peer(Peer(e)) = e
    /\ \A f \in Endpoints : f # e => f = Peer(e)
<1>1. PICK a \in Endpoints, b \in Endpoints : a # b /\ Endpoints = {a, b}
  BY EndpointsAssumption
<1>2. Peer(a) = b /\ Peer(b) = a
  BY <1>1, Zenon DEF Peer
<1> QED
  BY <1>1, <1>2

(* The fragments of a message are fragments.                               *)
LEMMA MessageType ==
  ASSUME NEW id \in Nat, NEW count \in Nat
  PROVE  /\ Message(id, count) \in Seq(Fragment)
         /\ Len(Message(id, count)) = count
         /\ \A i \in 1..count : Message(id, count)[i] = [id |-> id, frg |-> count - i]
<1>1. \A i \in 1..count : [id |-> id, frg |-> count - i] \in Fragment
  BY DEF Fragment
<1>2. Message(id, count) \in [1..count -> Fragment]
  BY <1>1 DEF Message
<1>3. Message(id, count) \in Seq(Fragment)
  BY <1>2, SeqDef
<1>4. Len(Message(id, count)) = count
  BY <1>2, <1>3
<1> QED
  BY <1>3, <1>4 DEF Message

(* A segment with number sn is found in any set of segments that has one.  *)
LEMMA FragOfType ==
  ASSUME NEW buf \in SUBSET Segment, NEW sn \in Sns(buf)
  PROVE  \E s \in buf : s.sn = sn /\ FragOf(buf, sn) = s.frag
<1>1. \E s \in buf : s.sn = sn
  BY DEF Sns
<1>2. (CHOOSE s \in buf : s.sn = sn) \in buf /\ (CHOOSE s \in buf : s.sn = sn).sn = sn
  BY <1>1
<1> QED
  BY <1>2 DEF FragOf

(* What ikcp_wnd_unused advertises is a size of window.                    *)
LEMMA WndUnusedType ==
  ASSUME TypeOK, NEW e \in Endpoints
  PROVE  ikcp_wnd_unused(e) \in 0..IKCP_WND_RCV
<1>1. Len(rcv_queue[e]) \in Nat
  BY DEF TypeOK
<1> QED
  BY <1>1, WindowAssumption DEF ikcp_wnd_unused

(* A segment ikcp_encode_seg writes is a datagram.                         *)
LEMMA EncodeType ==
  ASSUME TypeOK, NEW e \in Endpoints, NEW cmd \in Cmd, NEW sn \in Nat,
         NEW frag \in Fragment
  PROVE  ikcp_encode_seg(e, cmd, sn, frag) \in Datagram
<1>1. Peer(e) \in Endpoints /\ rcv_nxt[e] \in Nat
  BY PeerFacts DEF TypeOK
<1> QED
  BY <1>1, WndUnusedType DEF ikcp_encode_seg, Datagram

(* What a command without data carries has the type of a fragment.         *)
LEMMA NoFragType == NoFrag \in Fragment
BY DEF NoFrag, Fragment

(* A flush numbers at most what is queued and what the windows allow.      *)
LEMMA RoomFacts ==
  ASSUME TypeOK, NEW e \in Endpoints
  PROVE  /\ Room(e) \in Nat
         /\ Room(e) =< Len(snd_queue[e])
         /\ Room(e) > 0 => snd_nxt[e] + Room(e) =< snd_una[e] + IKCP_WND_SND
<1>1. /\ snd_una[e] \in Nat /\ snd_nxt[e] \in Nat /\ Len(snd_queue[e]) \in Nat
      /\ rmt_wnd[e] \in Nat
  BY WindowAssumption DEF TypeOK
<1> DEFINE cwnd == Min2(IKCP_WND_SND, rmt_wnd[e])
           room == snd_una[e] + cwnd - snd_nxt[e]
           len  == Len(snd_queue[e])
<1>2. cwnd \in Nat /\ cwnd =< IKCP_WND_SND
  BY <1>1, WindowAssumption DEF Min2
<1>3. Room(e) = IF room =< 0 THEN 0 ELSE Min2(room, len)
  BY DEF Room
<1>4. Room(e) = IF room =< 0 THEN 0 ELSE IF room =< len THEN room ELSE len
  BY <1>3 DEF Min2
<1>5. len \in Nat /\ len = Len(snd_queue[e])
  BY <1>1
<1> HIDE DEF cwnd, len
<1>6. CASE room =< 0
  BY <1>1, <1>2, <1>4, <1>5, <1>6, WindowAssumption
<1>7. CASE room > 0 /\ room =< len
  BY <1>1, <1>2, <1>4, <1>5, <1>7, WindowAssumption
<1>8. CASE room > 0 /\ room > len
  BY <1>1, <1>2, <1>4, <1>5, <1>8, WindowAssumption
<1> QED
  BY <1>1, <1>2, <1>5, <1>6, <1>7, <1>8

(* The new segments are numbered from snd_nxt and carry the queue's head.  *)
LEMMA NewSegmentsType ==
  ASSUME TypeOK, NEW e \in Endpoints
  PROVE  NewSegments(e) \in SUBSET Segment
<1>1. /\ snd_nxt[e] \in Nat /\ snd_queue[e] \in Seq(Fragment)
  BY DEF TypeOK
<1>2. SUFFICES ASSUME NEW i \in 1..Room(e)
               PROVE  [sn |-> snd_nxt[e] + i - 1, frag |-> snd_queue[e][i]] \in Segment
  BY DEF NewSegments
<1>3. i \in 1..Len(snd_queue[e])
  BY RoomFacts, <1>1
<1> QED
  BY <1>1, <1>3 DEF Segment

(* The move loop of ikcp_recv and ikcp_parse_data keeps types.             *)
LEMMA MoveReadyType ==
  ASSUME TypeOK, NEW e \in Endpoints, NEW buf \in SUBSET Segment,
         NEW que \in Seq(Fragment), MoveReady(e, buf, que)
  PROVE  /\ rcv_nxt' \in [Endpoints -> Nat]
         /\ rcv_buf' \in [Endpoints -> SUBSET Segment]
         /\ rcv_queue' \in [Endpoints -> Seq(Fragment)]
<1>1. rcv_nxt[e] \in Nat
  BY DEF TypeOK
<1>2. PICK nxt \in rcv_nxt[e]..(rcv_nxt[e] + IKCP_WND_RCV) :
        /\ MovesTo(e, buf, que, nxt)
        /\ rcv_nxt' = [rcv_nxt EXCEPT ![e] = nxt]
        /\ rcv_buf' = [rcv_buf EXCEPT ![e] = {s \in buf : s.sn >= nxt}]
        /\ rcv_queue' = [rcv_queue EXCEPT
             ![e] = que \o [i \in 1..(nxt - rcv_nxt[e]) |->
                              FragOf(buf, rcv_nxt[e] + i - 1)]]
  BY DEF MoveReady
<1>3. nxt \in Nat /\ nxt - rcv_nxt[e] \in Nat
  BY <1>1, WindowAssumption
<1> DEFINE moved == [i \in 1..(nxt - rcv_nxt[e]) |-> FragOf(buf, rcv_nxt[e] + i - 1)]
<1>4. moved \in Seq(Fragment)
  <2>1. ASSUME NEW i \in 1..(nxt - rcv_nxt[e])
        PROVE  FragOf(buf, rcv_nxt[e] + i - 1) \in Fragment
    <3>1. rcv_nxt[e] + i - 1 \in rcv_nxt[e]..(nxt - 1)
      BY <1>1, <1>3
    <3>2. rcv_nxt[e] + i - 1 \in Sns(buf)
      BY <3>1, <1>2 DEF MovesTo
    <3> QED
      BY <3>2, FragOfType DEF Segment
  <2>2. moved \in [1..(nxt - rcv_nxt[e]) -> Fragment]
    BY <2>1
  <2> QED
    BY <2>2, <1>3, SeqDef
<1>5. que \o moved \in Seq(Fragment)
  BY <1>4
<1>6. rcv_queue' = [rcv_queue EXCEPT ![e] = que \o moved]
  BY <1>2
<1> HIDE DEF moved
<1> QED
  BY <1>2, <1>3, <1>5, <1>6 DEF TypeOK

(* Inputting a datagram keeps types.                                       *)
LEMMA InputType ==
  ASSUME TypeOK, NEW e \in Endpoints, NEW d \in net, Receive(e, d)
  PROVE  TypeOK'
<1> USE DEF Receive, ikcp_input
<1>1. d \in Datagram
  BY DEF TypeOK
<1>2. d.sn \in Nat /\ d.frag \in Fragment /\ d.wnd \in 0..IKCP_WND_RCV
  BY <1>1 DEF Datagram
<1>3. rmt_wnd' \in [Endpoints -> 0..IKCP_WND_RCV]
  BY <1>2 DEF TypeOK
<1>4. snd_buf' \in [Endpoints -> SUBSET Segment]
  BY DEF TypeOK, Unacked
<1>5. snd_una' \in [Endpoints -> Nat]
  <2>1. Sns(snd_buf[e]) \cup {snd_nxt[e]} \subseteq Nat
    BY DEF TypeOK, Sns, Segment
  <2> QED
    BY <2>1 DEF TypeOK
<1>6. /\ rcv_buf' \in [Endpoints -> SUBSET Segment]
      /\ rcv_queue' \in [Endpoints -> Seq(Fragment)]
      /\ rcv_nxt' \in [Endpoints -> Nat]
      /\ acklist' \in [Endpoints -> SUBSET Nat]
  <2>1. CASE UNCHANGED rcvVars
    BY <2>1 DEF TypeOK, rcvVars
  <2>2. CASE InputPush(e, d) /\ ~UNCHANGED rcvVars
    <3>1. acklist' = [acklist EXCEPT ![e] = @ \cup {d.sn}]
      BY <2>2 DEF InputPush
    <3>2. acklist' \in [Endpoints -> SUBSET Nat]
      BY <3>1, <1>2 DEF TypeOK
    <3>3. CASE UNCHANGED <<rcv_buf, rcv_queue, rcv_nxt>>
      BY <3>2, <3>3 DEF TypeOK
    <3>4. CASE ikcp_parse_data(e, d)
      <4> DEFINE buf == IF d.sn \in Sns(rcv_buf[e]) THEN rcv_buf[e]
                        ELSE rcv_buf[e] \cup {[sn |-> d.sn, frag |-> d.frag]}
      <4>1. buf \in SUBSET Segment /\ rcv_queue[e] \in Seq(Fragment)
        BY <1>2 DEF TypeOK, Segment
      <4>2. MoveReady(e, buf, rcv_queue[e])
        BY <3>4 DEF ikcp_parse_data
      <4> QED
        BY <4>1, <4>2, <3>2, MoveReadyType
    <3> QED
      BY <2>2, <3>3, <3>4 DEF InputPush
  <2> QED
    BY <2>1, <2>2
<1>7. probe' \in [Endpoints -> SUBSET {"ASK_SEND", "ASK_TELL"}]
  BY DEF TypeOK
<1>8. net' \in SUBSET Datagram
  BY DEF TypeOK
<1> QED
  BY <1>3, <1>4, <1>5, <1>6, <1>7, <1>8 DEF TypeOK

(* Flushing keeps types.                                                   *)
LEMMA FlushType ==
  ASSUME TypeOK, NEW e \in Endpoints, NEW resend \in SUBSET snd_buf[e],
         NEW due \in BOOLEAN, ikcp_flush(e, resend, due)
  PROVE  TypeOK'
<1> USE DEF ikcp_flush
<1>1. NewSegments(e) \in SUBSET Segment /\ resend \in SUBSET Segment
  BY NewSegmentsType DEF TypeOK
<1>2. Room(e) \in Nat
  BY RoomFacts
<1>3. net' \in SUBSET Datagram
  <2>1. \A sn \in acklist[e] : ikcp_encode_seg(e, "ACK", sn, NoFrag) \in Datagram
    BY EncodeType, NoFragType DEF TypeOK, Cmd
  <2>2. \A s \in resend \cup NewSegments(e) :
          ikcp_encode_seg(e, "PUSH", s.sn, s.frag) \in Datagram
    BY <1>1, EncodeType DEF Segment, Cmd
  <2>3. WindowCommands(e, due) \subseteq Datagram
    BY EncodeType, NoFragType DEF WindowCommands, Cmd
  <2> QED
    BY <2>1, <2>2, <2>3 DEF TypeOK
<1>4. acklist' \in [Endpoints -> SUBSET Nat]
  BY DEF TypeOK
<1>5. probe_wait' \in [Endpoints -> BOOLEAN]
  BY Zenon DEF TypeOK
<1>6. probe' \in [Endpoints -> SUBSET {"ASK_SEND", "ASK_TELL"}]
  BY DEF TypeOK
<1>7. snd_buf' \in [Endpoints -> SUBSET Segment]
  BY <1>1 DEF TypeOK
<1>8. snd_nxt' \in [Endpoints -> Nat]
  BY <1>2 DEF TypeOK
<1>9. snd_queue' \in [Endpoints -> Seq(Fragment)]
  <2>1. snd_queue[e] \in Seq(Fragment)
    BY DEF TypeOK
  <2>2. SubSeq(snd_queue[e], Room(e) + 1, Len(snd_queue[e])) \in Seq(Fragment)
    BY <1>2, <2>1, SubSeqProperties
  <2> QED
    BY <2>2 DEF TypeOK
<1> QED
  BY <1>3, <1>4, <1>5, <1>6, <1>7, <1>8, <1>9 DEF TypeOK

(* Sending keeps types.                                                    *)
LEMMA SendType ==
  ASSUME TypeOK, NEW e \in Endpoints, ikcp_send(e)
  PROVE  TypeOK'
<1>1. PICK count \in 1..MaxCount :
        /\ snd_queue' = [snd_queue EXCEPT ![e] = @ \o Message(Len(sent[e]), count)]
        /\ sent' = [sent EXCEPT ![e] = @ \o Message(Len(sent[e]), count)]
  BY DEF ikcp_send
<1>2. count \in Nat /\ Len(sent[e]) \in Nat
  BY MaxCountAssumption DEF TypeOK
<1>3. Message(Len(sent[e]), count) \in Seq(Fragment)
  BY <1>2, MessageType
<1>4. /\ snd_queue[e] \o Message(Len(sent[e]), count) \in Seq(Fragment)
      /\ sent[e] \o Message(Len(sent[e]), count) \in Seq(Fragment)
  BY <1>3 DEF TypeOK
<1>5. /\ snd_queue' \in [Endpoints -> Seq(Fragment)]
      /\ sent' \in [Endpoints -> Seq(Fragment)]
  BY <1>1, <1>4 DEF TypeOK
<1> QED
  BY <1>5 DEF TypeOK, ikcp_send, rcvVars, wndVars

(* Taking a message keeps types.                                           *)
LEMMA RecvType ==
  ASSUME TypeOK, NEW e \in Endpoints, ikcp_recv(e)
  PROVE  TypeOK'
<1>1. PICK k \in 1..Len(rcv_queue[e]) :
        /\ delivered' = [delivered EXCEPT ![e] = @ \o SubSeq(rcv_queue[e], 1, k)]
        /\ MoveReady(e, rcv_buf[e], SubSeq(rcv_queue[e], k + 1, Len(rcv_queue[e])))
  BY DEF ikcp_recv
<1>2. rcv_queue[e] \in Seq(Fragment) /\ delivered[e] \in Seq(Fragment)
  BY DEF TypeOK
<1>3. /\ SubSeq(rcv_queue[e], 1, k) \in Seq(Fragment)
      /\ SubSeq(rcv_queue[e], k + 1, Len(rcv_queue[e])) \in Seq(Fragment)
  BY <1>2, SubSeqProperties
<1>4. delivered' \in [Endpoints -> Seq(Fragment)]
  BY <1>1, <1>2, <1>3 DEF TypeOK
<1>5. /\ rcv_nxt' \in [Endpoints -> Nat]
      /\ rcv_buf' \in [Endpoints -> SUBSET Segment]
      /\ rcv_queue' \in [Endpoints -> Seq(Fragment)]
  BY <1>1, <1>3, MoveReadyType DEF TypeOK
<1>6. probe' \in [Endpoints -> SUBSET {"ASK_SEND", "ASK_TELL"}]
  BY DEF TypeOK, ikcp_recv
<1> QED
  BY <1>4, <1>5, <1>6 DEF TypeOK, ikcp_recv, sndVars

(* Control blocks as ikcp_create makes them.                               *)
LEMMA InitType == Init => TypeOK
BY WindowAssumption DEF Init, TypeOK

(* Every step keeps types.                                                 *)
LEMMA NextType == TypeOK /\ [Next]_vars => TypeOK'
<1> SUFFICES ASSUME TypeOK, [Next]_vars PROVE TypeOK'
  OBVIOUS
<1>1. ASSUME NEW e \in Endpoints, ikcp_send(e) PROVE TypeOK'
  BY <1>1, SendType
<1>2. ASSUME NEW e \in Endpoints, ikcp_recv(e) PROVE TypeOK'
  BY <1>2, RecvType
<1>3. ASSUME NEW e \in Endpoints, Flush(e) PROVE TypeOK'
  BY <1>3, FlushType DEF Flush
<1>4. ASSUME NEW e \in Endpoints, NEW d \in net, Receive(e, d) PROVE TypeOK'
  BY <1>4, InputType
<1>5. ASSUME NEW d \in net, Lose(d) PROVE TypeOK'
  BY <1>5 DEF TypeOK, Lose, sndVars, rcvVars, wndVars
<1>6. CASE UNCHANGED vars
  BY <1>6 DEF TypeOK, vars, sndVars, rcvVars, wndVars
<1> QED
  BY <1>1, <1>2, <1>3, <1>4, <1>5, <1>6 DEF Next

(* In every reachable state every variable of the control blocks and every *)
(* datagram has its type.                                                  *)
THEOREM TypeCorrect == Spec => []TypeOK
BY InitType, NextType, PTL DEF Spec

-----------------------------------------------------------------------------
(* What steps do to the parts of the invariant they hardly touch.          *)

(* Addition is associative, stated for sums of lengths.                    *)
LEMMA AddAssoc == \A a, b, c \in Nat : a + (b + c) = (a + b) + c
OBVIOUS

(* Offsets in a stream: a fragments before b of which this is the i-th.    *)
LEMMA OffsetIn ==
  ASSUME NEW a \in Nat, NEW b \in Nat, NEW n \in Nat, NEW i \in 1..b, a + b =< n
  PROVE  a + i \in 1..n
OBVIOUS

(* The types of what the invariant speaks of.                              *)
LEMMA Types ==
  ASSUME TypeOK, NEW e \in Endpoints
  PROVE  /\ snd_una[e] \in Nat /\ snd_nxt[e] \in Nat /\ rcv_nxt[e] \in Nat
         /\ snd_queue[e] \in Seq(Fragment) /\ rcv_queue[e] \in Seq(Fragment)
         /\ sent[e] \in Seq(Fragment) /\ delivered[e] \in Seq(Fragment)
         /\ snd_buf[e] \subseteq Segment /\ rcv_buf[e] \subseteq Segment
         /\ acklist[e] \subseteq Nat
         /\ Sns(snd_buf[e]) \subseteq Nat /\ Sns(rcv_buf[e]) \subseteq Nat
BY DEF TypeOK, Sns, Segment

(* A datagram in flight stays true while streams and what is held grow.    *)
LEMMA OldDatagrams ==
  ASSUME IInv, NEW d \in net,
         \A e \in Endpoints :
           /\ snd_nxt'[e] \in Nat /\ snd_nxt[e] =< snd_nxt'[e]
           /\ rcv_nxt'[e] \in Nat /\ rcv_nxt[e] =< rcv_nxt'[e]
           /\ \A i \in 1..Len(sent[e]) : sent'[e][i] = sent[e][i]
           /\ \A sn \in Nat : Held(e, sn) => Held(e, sn)'
  PROVE  DatagramInv(d)'
<1>1. d \in Datagram
  BY DEF IInv, TypeOK
<1>2. d.dst \in Endpoints /\ d.sn \in Nat /\ d.una \in Nat
  BY <1>1 DEF Datagram
<1> DEFINE e == Peer(d.dst)
<1>3. e \in Endpoints
  BY <1>2, PeerFacts
<1>4. /\ snd_nxt[e] \in Nat /\ rcv_nxt[e] \in Nat /\ Len(sent[e]) \in Nat
      /\ Len(snd_queue[e]) \in Nat
  BY <1>3, Types DEF IInv
<1>5. snd_nxt[e] =< Len(sent[e])
  BY <1>3, <1>4 DEF IInv, SenderInv
<1>6. DatagramInv(d)
  BY DEF IInv
<1>7. d.cmd = "PUSH" => d.sn < snd_nxt'[e] /\ d.frag = sent'[e][d.sn + 1]
  <2> SUFFICES ASSUME d.cmd = "PUSH"
               PROVE  d.sn < snd_nxt'[e] /\ d.frag = sent'[e][d.sn + 1]
    OBVIOUS
  <2>1. d.sn < snd_nxt[e] /\ d.frag = sent[e][d.sn + 1]
    BY <1>6 DEF DatagramInv
  <2>2. d.sn + 1 \in 1..Len(sent[e])
    BY <2>1, <1>2, <1>4, <1>5
  <2> QED
    BY <2>1, <2>2, <1>2, <1>3, <1>4
<1>8. d.cmd = "ACK" => Held(e, d.sn)'
  BY <1>2, <1>3, <1>6 DEF DatagramInv
<1>9. d.una =< rcv_nxt'[e]
  BY <1>2, <1>3, <1>4, <1>6 DEF DatagramInv
<1> QED
  BY <1>7, <1>8, <1>9 DEF DatagramInv

(* What the move loop leaves e with, when it started with segments buf.    *)
Grows(e, buf) ==
  /\ rcv_nxt'[e] \in Nat /\ rcv_nxt[e] =< rcv_nxt'[e]
  /\ \A sn \in Nat : sn < rcv_nxt[e] \/ sn \in Sns(buf) => Held(e, sn)'
  /\ \A f \in Endpoints \ {e} :
       /\ rcv_nxt'[f] = rcv_nxt[f] /\ rcv_queue'[f] = rcv_queue[f]
       /\ rcv_buf'[f] = rcv_buf[f]

(* The move loop of ikcp_recv and ikcp_parse_data, started on fragments of *)
(* the peer's stream, ends with fragments of the stream and drops none.    *)
LEMMA MoveReadyEffect ==
  ASSUME IInv, NEW e \in Endpoints, NEW buf \in SUBSET Segment,
         NEW que \in Seq(Fragment), NEW base \in Nat,
         MoveReady(e, buf, que),
         InStream(e, base, que, buf, rcv_nxt[e])
  PROVE  /\ InStream(e, base, rcv_queue'[e], rcv_buf'[e], rcv_nxt'[e])
         /\ Grows(e, buf)
<1> DEFINE p == Peer(e)
<1>1. /\ rcv_nxt[e] \in Nat /\ p \in Endpoints /\ Len(que) \in Nat
      /\ rcv_nxt \in [Endpoints -> Nat]
      /\ rcv_buf \in [Endpoints -> SUBSET Segment]
      /\ rcv_queue \in [Endpoints -> Seq(Fragment)]
  BY PeerFacts DEF IInv, TypeOK
<1>2. PICK nxt \in rcv_nxt[e]..(rcv_nxt[e] + IKCP_WND_RCV) :
        /\ MovesTo(e, buf, que, nxt)
        /\ rcv_nxt' = [rcv_nxt EXCEPT ![e] = nxt]
        /\ rcv_buf' = [rcv_buf EXCEPT ![e] = {s \in buf : s.sn >= nxt}]
        /\ rcv_queue' = [rcv_queue EXCEPT
             ![e] = que \o [i \in 1..(nxt - rcv_nxt[e]) |->
                              FragOf(buf, rcv_nxt[e] + i - 1)]]
  BY DEF MoveReady
<1> DEFINE cnt   == nxt - rcv_nxt[e]
           moved == [i \in 1..cnt |-> FragOf(buf, rcv_nxt[e] + i - 1)]
<1>3. nxt \in Nat /\ cnt \in Nat /\ nxt = rcv_nxt[e] + cnt
  BY <1>1, WindowAssumption
<1>a. /\ base + Len(que) = rcv_nxt[e] /\ Len(que) =< IKCP_WND_RCV
      /\ rcv_nxt[e] =< snd_nxt[p]
      /\ \A i \in 1..Len(que) : que[i] = sent[p][base + i]
      /\ \A s \in buf : /\ rcv_nxt[e] =< s.sn /\ s.sn < rcv_nxt[e] + IKCP_WND_RCV
                        /\ s.sn < snd_nxt[p] /\ s.frag = sent[p][s.sn + 1]
  BY DEF InStream
<1>4. \A sn \in rcv_nxt[e]..(nxt - 1) :
        \E s \in buf : s.sn = sn /\ FragOf(buf, sn) = s.frag
  BY <1>2, FragOfType DEF MovesTo
<1>5. \A i \in 1..cnt :
        /\ moved[i] \in Fragment
        /\ moved[i] = sent[p][rcv_nxt[e] + i]
        /\ rcv_nxt[e] + i - 1 < snd_nxt[p]
  <2> SUFFICES ASSUME NEW i \in 1..cnt
               PROVE  /\ moved[i] \in Fragment
                      /\ moved[i] = sent[p][rcv_nxt[e] + i]
                      /\ rcv_nxt[e] + i - 1 < snd_nxt[p]
    OBVIOUS
  <2>1. rcv_nxt[e] + i - 1 \in rcv_nxt[e]..(nxt - 1)
    <3>1. i \in Nat /\ 1 =< i /\ i =< cnt
      BY <1>3
    <3> HIDE DEF cnt
    <3> QED
      BY <3>1, <1>1, <1>3
  <2>2. PICK s \in buf : /\ s.sn = rcv_nxt[e] + i - 1
                         /\ FragOf(buf, rcv_nxt[e] + i - 1) = s.frag
    BY <1>4, <2>1
  <2>3. s.sn + 1 = rcv_nxt[e] + i
    BY <2>2, <1>1, <1>3
  <2>4. s.frag = sent[p][s.sn + 1] /\ s.sn < snd_nxt[p] /\ s.frag \in Fragment
    BY <1>a DEF Segment
  <2>5. moved[i] = s.frag
    BY <2>2
  <2> QED
    BY <2>2, <2>3, <2>4, <2>5
<1>6. moved \in Seq(Fragment) /\ Len(moved) = cnt
  <2>1. moved \in [1..cnt -> Fragment]
    BY <1>5
  <2>2. moved \in Seq(Fragment)
    BY <2>1, <1>3, SeqDef
  <2> QED
    BY <2>1, <2>2, <1>3
<1>7. /\ rcv_nxt'[e] = nxt /\ rcv_queue'[e] = que \o moved
      /\ rcv_buf'[e] = {s \in buf : s.sn >= nxt}
      /\ \A f \in Endpoints \ {e} :
           /\ rcv_nxt'[f] = rcv_nxt[f] /\ rcv_queue'[f] = rcv_queue[f]
           /\ rcv_buf'[f] = rcv_buf[f]
  BY <1>1, <1>2
<1>0. cnt = 0 \/ Len(que) + cnt =< IKCP_WND_RCV
  BY <1>1, <1>2, <1>3 DEF MovesTo
<1> HIDE DEF moved, cnt
<1>8. /\ Len(rcv_queue'[e]) = Len(que) + cnt
      /\ \A i \in 1..(Len(que) + cnt) :
           rcv_queue'[e][i] = IF i =< Len(que) THEN que[i] ELSE moved[i - Len(que)]
  <2>1. /\ Len(que \o moved) = Len(que) + Len(moved)
        /\ \A i \in 1..(Len(que) + Len(moved)) :
             (que \o moved)[i] = IF i =< Len(que) THEN que[i] ELSE moved[i - Len(que)]
    BY <1>6, ConcatProperties
  <2>2. Len(moved) = cnt /\ rcv_queue'[e] = que \o moved
    BY <1>6, <1>7
  <2> QED
    BY <2>1, <2>2, Zenon
<1>9. base + Len(rcv_queue'[e]) = rcv_nxt'[e]
  BY <1>a, <1>1, <1>3, <1>7, <1>8
<1>10. Len(rcv_queue'[e]) =< IKCP_WND_RCV
  BY <1>0, <1>a, <1>1, <1>3, <1>8
<1>11. rcv_nxt'[e] =< snd_nxt[p]
  <2>1. CASE cnt = 0
    BY <2>1, <1>a, <1>1, <1>3, <1>7
  <2>2. CASE cnt # 0
    <3>1. cnt \in 1..cnt
      BY <2>2, <1>3
    <3>2. rcv_nxt[e] + cnt - 1 < snd_nxt[p] /\ snd_nxt[p] \in Nat
      BY <3>1, <1>1, <1>5, Types DEF IInv
    <3> QED
      BY <3>2, <1>1, <1>3, <1>7
  <2> QED
    BY <2>1, <2>2
<1>12. ASSUME NEW i \in 1..Len(rcv_queue'[e])
       PROVE  rcv_queue'[e][i] = sent[p][base + i]
  <2>1. CASE i =< Len(que)
    BY <2>1, <1>a, <1>1, <1>3, <1>8
  <2>2. CASE i > Len(que)
    <3>1. i - Len(que) \in 1..cnt
      BY <2>2, <1>1, <1>3, <1>8
    <3>2. rcv_queue'[e][i] = moved[i - Len(que)]
      BY <2>2, <1>1, <1>3, <1>8
    <3>3. moved[i - Len(que)] = sent[p][rcv_nxt[e] + (i - Len(que))]
      BY <3>1, <1>5
    <3>4. rcv_nxt[e] + (i - Len(que)) = base + i
      BY <1>a, <1>1, <1>8, <1>3
    <3> QED
      BY <3>2, <3>3, <3>4
  <2> QED
    BY <2>1, <2>2, <1>1, <1>3, <1>8
<1>13. ASSUME NEW s \in rcv_buf'[e]
       PROVE  /\ rcv_nxt'[e] =< s.sn /\ s.sn < rcv_nxt'[e] + IKCP_WND_RCV
              /\ s.sn < snd_nxt[p] /\ s.frag = sent[p][s.sn + 1]
  <2>1. s \in buf /\ s.sn >= nxt /\ s.sn \in Nat
    BY <1>7 DEF Segment
  <2> QED
    BY <2>1, <1>a, <1>1, <1>3, <1>7, WindowAssumption
<1>14. ASSUME NEW sn \in Nat, sn < rcv_nxt[e] \/ sn \in Sns(buf)
       PROVE  Held(e, sn)'
  <2>1. CASE sn < nxt
    BY <2>1, <1>7 DEF Held
  <2>2. CASE sn >= nxt
    <3>1. sn \in Sns(buf)
      BY <1>1, <1>3, <1>14, <2>2
    <3>2. sn \in Sns(rcv_buf'[e])
      BY <3>1, <2>2, <1>7 DEF Sns
    <3> QED
      BY <3>2 DEF Held, Sns
  <2> QED
    BY <2>1, <2>2, <1>3
<1>15. InStream(e, base, rcv_queue'[e], rcv_buf'[e], rcv_nxt'[e])
  BY <1>9, <1>10, <1>11, <1>12, <1>13 DEF InStream
<1>16. Grows(e, buf)
  BY <1>1, <1>3, <1>7, <1>14 DEF Grows
<1> QED
  BY <1>15, <1>16

-----------------------------------------------------------------------------
(* IInv is inductive: one lemma per action.                                *)

(* Nothing has been sent and nothing is in flight.                         *)
LEMMA InitInv == Init => IInv
<1> SUFFICES ASSUME Init PROVE IInv
  OBVIOUS
<1>1. TypeOK
  BY InitType
<1>2. ASSUME NEW e \in Endpoints
      PROVE  StreamInv(e) /\ SenderInv(e) /\ ReceiverInv(e) /\ AckInv(e) /\ HeldInv(e)
  <2>1. Peer(e) \in Endpoints
    BY PeerFacts
  <2>2. StreamInv(e)
    BY DEF Init, StreamInv
  <2>3. SenderInv(e)
    BY WindowAssumption DEF Init, SenderInv
  <2>4. ReceiverInv(e)
    BY <2>1, WindowAssumption DEF Init, ReceiverInv, InStream
  <2>5. AckInv(e) /\ HeldInv(e)
    BY DEF Init, AckInv, HeldInv
  <2> QED
    BY <2>2, <2>3, <2>4, <2>5
<1>3. net = {}
  BY DEF Init
<1> QED
  BY <1>1, <1>2, <1>3 DEF IInv

(* ikcp_send appends to the stream and to snd_queue alike.                 *)
LEMMA SendInv ==
  ASSUME IInv, NEW e \in Endpoints, ikcp_send(e)
  PROVE  IInv'
<1>1. TypeOK'
  BY SendType DEF IInv
<1>2. PICK count \in 1..MaxCount :
        /\ snd_queue' = [snd_queue EXCEPT ![e] = @ \o Message(Len(sent[e]), count)]
        /\ sent' = [sent EXCEPT ![e] = @ \o Message(Len(sent[e]), count)]
  BY DEF ikcp_send
<1> DEFINE len == Len(sent[e])
           msg == Message(len, count)
<1>3. count \in Nat /\ len \in Nat /\ count =< MaxCount
  BY MaxCountAssumption, Types DEF IInv
<1>4. /\ msg \in Seq(Fragment) /\ Len(msg) = count
      /\ \A i \in 1..count : msg[i] = [id |-> len, frg |-> count - i]
  BY <1>3, MessageType
<1>5. /\ sent'[e] = sent[e] \o msg
      /\ snd_queue'[e] = snd_queue[e] \o msg
      /\ \A f \in Endpoints \ {e} :
           sent'[f] = sent[f] /\ snd_queue'[f] = snd_queue[f]
  BY <1>2 DEF IInv, TypeOK
<1> HIDE DEF msg
<1>6. /\ Len(sent'[e]) = len + count
      /\ \A i \in 1..len : sent'[e][i] = sent[e][i]
      /\ \A i \in 1..count : sent'[e][len + i] = msg[i]
  <2>1. sent[e] \in Seq(Fragment)
    BY Types DEF IInv
  <2>2. /\ Len(sent[e] \o msg) = len + Len(msg)
        /\ \A i \in 1..(len + Len(msg)) :
             (sent[e] \o msg)[i] = IF i =< len THEN sent[e][i] ELSE msg[i - len]
    BY <2>1, <1>4, ConcatProperties
  <2>3. ASSUME NEW i \in 1..count PROVE (sent[e] \o msg)[len + i] = msg[i]
    <3>1. len + i \in 1..(len + Len(msg)) /\ ~(len + i =< len) /\ (len + i) - len = i
      BY <1>3, <1>4
    <3> QED
      BY <2>2, <3>1
  <2>4. ASSUME NEW i \in 1..len PROVE (sent[e] \o msg)[i] = sent[e][i]
    BY <2>2, <1>3, <1>4
  <2> QED
    BY <2>2, <2>3, <2>4, <1>4, <1>5
<1>7. /\ Len(snd_queue'[e]) = Len(snd_queue[e]) + count
      /\ \A i \in 1..Len(snd_queue'[e]) :
           snd_queue'[e][i] = IF i =< Len(snd_queue[e]) THEN snd_queue[e][i]
                              ELSE msg[i - Len(snd_queue[e])]
  <2>1. snd_queue[e] \in Seq(Fragment)
    BY Types DEF IInv
  <2>2. /\ Len(snd_queue[e] \o msg) = Len(snd_queue[e]) + Len(msg)
        /\ \A i \in 1..(Len(snd_queue[e]) + Len(msg)) :
             (snd_queue[e] \o msg)[i] = IF i =< Len(snd_queue[e]) THEN snd_queue[e][i]
                                        ELSE msg[i - Len(snd_queue[e])]
    BY <2>1, <1>4, ConcatProperties
  <2>3. Len(msg) = count /\ snd_queue'[e] = snd_queue[e] \o msg
    BY <1>4, <1>5
  <2> QED
    BY <2>2, <2>3, Zenon
<1>8. UNCHANGED <<snd_buf, snd_una, snd_nxt, rcv_buf, rcv_queue, rcv_nxt, acklist,
                  net, delivered>>
  BY DEF ikcp_send, rcvVars
<1>9. \A f \in Endpoints : \A i \in 1..Len(sent[f]) : sent'[f][i] = sent[f][i]
  BY <1>5, <1>6
<1>0. len = Len(sent[e])
  OBVIOUS
<1> HIDE DEF len
<1>10. StreamInv(e)'
  <2> SUFFICES ASSUME NEW i \in 1..Len(sent'[e])
               PROVE  LET f == sent'[e][i].frg
                      IN /\ f < MaxCount
                         /\ i + f =< Len(sent'[e])
                         /\ \A j \in 0..f : sent'[e][i + j].frg = f - j
    BY DEF StreamInv
  <2>1. CASE i =< len
    <3> DEFINE f == sent[e][i].frg
    <3>1. i \in 1..len /\ sent'[e][i] = sent[e][i]
      BY <2>1, <1>3, <1>6
    <3>2. f \in Nat
      <4>1. sent[e][i] \in Fragment
        BY <3>1, <1>0, Types, ElementOfSeq DEF IInv
      <4> QED
        BY <4>1 DEF Fragment
    <3>3. /\ f < MaxCount /\ i + f =< len
          /\ \A j \in 0..f : sent[e][i + j].frg = f - j
      BY <3>1, <1>0 DEF IInv, StreamInv
    <3> HIDE DEF f
    <3>4. ASSUME NEW j \in 0..f PROVE i + j \in 1..len
      BY <3>1, <3>2, <3>3, <1>3
    <3>5. \A j \in 0..f : sent'[e][i + j].frg = f - j
      BY <3>3, <3>4, <1>6
    <3> QED
      BY <3>1, <3>2, <3>3, <3>5, <1>3, <1>6 DEF f
  <2>2. CASE i > len
    <3> DEFINE m == i - len
    <3>1. m \in 1..count /\ i = len + m
      BY <2>2, <1>3, <1>6
    <3>2. sent'[e][i].frg = count - m
      <4>1. sent'[e][len + m] = msg[m] /\ msg[m] = [id |-> len, frg |-> count - m]
        BY <3>1, <1>4, <1>6
      <4>2. [id |-> len, frg |-> count - m].frg = count - m
        OBVIOUS
      <4> QED
        BY <4>1, <4>2, <3>1, Zenon
    <3>3. ASSUME NEW j \in 0..(count - m)
          PROVE  sent'[e][i + j].frg = (count - m) - j
      <4>1. m + j \in 1..count /\ i + j = len + (m + j)
        BY <3>1, <1>3
      <4>2. sent'[e][i + j].frg = count - (m + j)
        <5>1. /\ sent'[e][len + (m + j)] = msg[m + j]
              /\ msg[m + j] = [id |-> len, frg |-> count - (m + j)]
          BY <4>1, <1>4, <1>6
        <5> QED
          BY <5>1, <4>1
      <4> QED
        BY <4>2, <3>1, <1>3
    <3> HIDE DEF m
    <3> QED
      BY <3>1, <3>2, <3>3, <1>3, <1>6, MaxCountAssumption
  <2> QED
    BY <2>1, <2>2, <1>3, <1>6
<1>11. SenderInv(e)'
  <2>1. /\ snd_nxt[e] \in Nat /\ Len(snd_queue[e]) \in Nat
        /\ snd_nxt[e] + Len(snd_queue[e]) = len
        /\ \A s \in snd_buf[e] : s.sn \in Nat
    BY <1>0, Types DEF IInv, SenderInv, Segment
  <2> DEFINE q == Len(snd_queue[e])
  <2>0. /\ snd_nxt[e] \in Nat /\ q \in Nat /\ snd_nxt[e] + q = len
        /\ Len(snd_queue'[e]) = q + count /\ Len(sent'[e]) = len + count
    BY <2>1, <1>6, <1>7
  <2> HIDE DEF q
  <2>2. snd_nxt[e] + Len(snd_queue'[e]) = Len(sent'[e])
    BY <2>0, <1>3
  <2>3. ASSUME NEW i \in 1..Len(snd_queue'[e])
        PROVE  snd_queue'[e][i] = sent'[e][snd_nxt[e] + i]
    <3>1. CASE i =< q
      <4>1. snd_nxt[e] + i \in 1..len /\ i \in 1..Len(snd_queue[e])
        BY <3>1, <2>1, <2>0, <1>3 DEF q
      <4> QED
        BY <4>1, <3>1, <1>6, <1>7 DEF IInv, SenderInv, q
    <3>2. CASE i > q
      <4>1. i - q \in 1..count /\ snd_nxt[e] + i = len + (i - q)
        BY <3>2, <2>0, <1>3
      <4>2. snd_queue'[e][i] = msg[i - q]
        BY <3>2, <2>0, <1>7 DEF q
      <4> QED
        BY <4>1, <4>2, <1>6
    <3> QED
      BY <3>1, <3>2, <2>0
  <2>4. ASSUME NEW s \in snd_buf[e] PROVE s.frag = sent'[e][s.sn + 1]
    <3>1. s.sn + 1 \in 1..len /\ s.frag = sent[e][s.sn + 1]
      BY <2>1, <1>3 DEF IInv, SenderInv
    <3> QED
      BY <3>1, <1>6
  <2> QED
    BY <2>2, <2>3, <2>4, <1>8 DEF IInv, SenderInv
<1>12. ASSUME NEW f \in Endpoints, f # e PROVE StreamInv(f)' /\ SenderInv(f)'
  <2>1. sent'[f] = sent[f] /\ snd_queue'[f] = snd_queue[f]
    BY <1>12, <1>5
  <2>2. StreamInv(f) /\ SenderInv(f)
    BY DEF IInv
  <2>3. StreamInv(f)'
    BY <2>1, <2>2, Zenon DEF StreamInv
  <2>4. SenderInv(f)'
    BY <2>1, <2>2, <1>8 DEF SenderInv
  <2> QED
    BY <2>3, <2>4
<1>13. ASSUME NEW f \in Endpoints PROVE ReceiverInv(f)'
  <2> DEFINE p == Peer(f)
  <2>1. /\ p \in Endpoints /\ snd_nxt[p] \in Nat /\ Len(sent[p]) \in Nat
        /\ rcv_nxt[f] \in Nat /\ Len(delivered[f]) \in Nat /\ Len(rcv_queue[f]) \in Nat
        /\ Len(snd_queue[p]) \in Nat
    BY PeerFacts, Types DEF IInv
  <2>2. snd_nxt[p] =< Len(sent[p])
    BY <2>1 DEF IInv, SenderInv
  <2>3. ReceiverInv(f)
    BY DEF IInv
  <2>4. ASSUME NEW i \in 1..Len(rcv_queue[f])
        PROVE  rcv_queue[f][i] = sent'[p][Len(delivered[f]) + i]
    <3>1. /\ Len(delivered[f]) + Len(rcv_queue[f]) = rcv_nxt[f]
          /\ rcv_nxt[f] =< snd_nxt[p]
      BY <2>3 DEF ReceiverInv, InStream
    <3>2. Len(delivered[f]) + Len(rcv_queue[f]) =< Len(sent[p])
      <4>1. rcv_nxt[f] =< Len(sent[p])
        BY <2>1, <2>2, <3>1
      <4> QED
        BY <3>1, <4>1, Zenon
    <3>3. Len(delivered[f]) + i \in 1..Len(sent[p])
      BY <2>1, <3>2, OffsetIn
    <3> QED
      BY <3>3, <2>1, <2>3, <1>9 DEF ReceiverInv, InStream
  <2>5. ASSUME NEW s \in rcv_buf[f] PROVE s.frag = sent'[p][s.sn + 1]
    <3>1. s.sn \in Nat
      BY Types DEF IInv, Segment
    <3>2. s.sn + 1 \in 1..Len(sent[p])
      BY <3>1, <2>1, <2>2, <2>3 DEF ReceiverInv, InStream
    <3> QED
      BY <3>2, <2>1, <2>3, <1>9 DEF ReceiverInv, InStream
  <2> QED
    BY <2>3, <2>4, <2>5, <1>8 DEF ReceiverInv, InStream
<1>14. \A f \in Endpoints : AckInv(f)' /\ HeldInv(f)'
  BY <1>8 DEF IInv, AckInv, HeldInv, Held
<1>15. \A d \in net : DatagramInv(d)'
  <2>1. \A f \in Endpoints :
          /\ snd_nxt'[f] \in Nat /\ snd_nxt[f] =< snd_nxt'[f]
          /\ rcv_nxt'[f] \in Nat /\ rcv_nxt[f] =< rcv_nxt'[f]
          /\ \A sn \in Nat : Held(f, sn) => Held(f, sn)'
    BY <1>8, Types DEF IInv, Held
  <2> QED
    BY <2>1, <1>9, OldDatagrams
<1> QED
  BY <1>1, <1>8, <1>10, <1>11, <1>12, <1>13, <1>14, <1>15 DEF IInv

(* Losing a datagram.                                                      *)
LEMMA LoseInv ==
  ASSUME IInv, NEW d \in net, Lose(d)
  PROVE  IInv'
<1>1. TypeOK'
  BY DEF IInv, TypeOK, Lose, sndVars, rcvVars, wndVars
<1>2. /\ UNCHANGED <<snd_queue, snd_buf, snd_una, snd_nxt, rcv_buf, rcv_queue,
                     rcv_nxt, acklist, sent, delivered>>
      /\ net' \subseteq net
  BY DEF Lose, sndVars, rcvVars
<1>3. \A e \in Endpoints :
        StreamInv(e)' /\ SenderInv(e)' /\ ReceiverInv(e)' /\ AckInv(e)' /\ HeldInv(e)'
  <2> SUFFICES ASSUME NEW e \in Endpoints
               PROVE  StreamInv(e)' /\ SenderInv(e)' /\ ReceiverInv(e)' /\ AckInv(e)'
                      /\ HeldInv(e)'
    OBVIOUS
  <2>1. StreamInv(e) /\ SenderInv(e) /\ ReceiverInv(e) /\ AckInv(e) /\ HeldInv(e)
    BY DEF IInv
  <2>2. StreamInv(e)'
    BY <2>1, <1>2, Zenon DEF StreamInv
  <2>3. SenderInv(e)'
    BY <2>1, <1>2 DEF SenderInv
  <2>4. ReceiverInv(e)'
    BY <2>1, <1>2 DEF ReceiverInv, InStream
  <2>5. AckInv(e)' /\ HeldInv(e)'
    BY <2>1, <1>2 DEF AckInv, HeldInv, Held
  <2> QED
    BY <2>2, <2>3, <2>4, <2>5
<1>4. \A x \in net' : DatagramInv(x)'
  BY <1>2 DEF IInv, DatagramInv, Held
<1> QED
  BY <1>1, <1>3, <1>4 DEF IInv

(* A step of the receiving half of e that changes nothing of the senders:  *)
(* if e's own part holds after it and what e holds grows, all parts hold.  *)
LEMMA ReceiverStep ==
  ASSUME IInv, TypeOK', NEW e \in Endpoints,
         UNCHANGED <<snd_queue, snd_una, snd_nxt, snd_buf, sent>>,
         net' \subseteq net,
         rcv_nxt[e] =< rcv_nxt'[e],
         \A sn \in Nat : Held(e, sn) => Held(e, sn)',
         ReceiverInv(e)',
         \A sn \in acklist'[e] : Held(e, sn)',
         \A f \in Endpoints \ {e} :
           /\ rcv_nxt'[f] = rcv_nxt[f] /\ rcv_queue'[f] = rcv_queue[f]
           /\ rcv_buf'[f] = rcv_buf[f] /\ acklist'[f] = acklist[f]
           /\ delivered'[f] = delivered[f]
  PROVE  IInv'
<1>1. \A f \in Endpoints :
        /\ snd_nxt'[f] \in Nat /\ snd_nxt[f] =< snd_nxt'[f]
        /\ rcv_nxt'[f] \in Nat /\ rcv_nxt[f] =< rcv_nxt'[f]
        /\ \A i \in 1..Len(sent[f]) : sent'[f][i] = sent[f][i]
        /\ \A sn \in Nat : Held(f, sn) => Held(f, sn)'
  <2> SUFFICES ASSUME NEW f \in Endpoints
               PROVE  /\ snd_nxt'[f] \in Nat /\ snd_nxt[f] =< snd_nxt'[f]
                      /\ rcv_nxt'[f] \in Nat /\ rcv_nxt[f] =< rcv_nxt'[f]
                      /\ \A i \in 1..Len(sent[f]) : sent'[f][i] = sent[f][i]
                      /\ \A sn \in Nat : Held(f, sn) => Held(f, sn)'
    OBVIOUS
  <2>1. snd_nxt[f] \in Nat /\ rcv_nxt[f] \in Nat /\ rcv_nxt'[f] \in Nat
    BY DEF IInv, TypeOK
  <2>2. CASE f = e
    BY <2>1, <2>2
  <2>3. CASE f # e
    <3>1. rcv_nxt'[f] = rcv_nxt[f] /\ rcv_buf'[f] = rcv_buf[f]
      BY <2>3
    <3> QED
      BY <2>1, <3>1 DEF Held
  <2> QED
    BY <2>2, <2>3
<1>2. \A x \in net' : DatagramInv(x)'
  BY <1>1, OldDatagrams
<1>3. ASSUME NEW f \in Endpoints
      PROVE  StreamInv(f)' /\ SenderInv(f)' /\ ReceiverInv(f)' /\ AckInv(f)' /\ HeldInv(f)'
  <2>1. StreamInv(f) /\ SenderInv(f) /\ ReceiverInv(f) /\ AckInv(f) /\ HeldInv(f)
    BY DEF IInv
  <2>2. StreamInv(f)'
    BY <2>1, Zenon DEF StreamInv
  <2>3. SenderInv(f)'
    BY <2>1 DEF SenderInv
  <2>4. ReceiverInv(f)'
    <3>1. CASE f = e
      BY <3>1
    <3>2. CASE f # e
      <4>1. /\ rcv_nxt'[f] = rcv_nxt[f] /\ rcv_queue'[f] = rcv_queue[f]
            /\ rcv_buf'[f] = rcv_buf[f] /\ delivered'[f] = delivered[f]
        BY <3>2
      <4> QED
        BY <2>1, <4>1 DEF ReceiverInv, InStream
    <3> QED
      BY <3>1, <3>2
  <2>5. AckInv(f)'
    <3>1. CASE f = e
      BY <3>1 DEF AckInv
    <3>2. CASE f # e
      <4>1. acklist'[f] = acklist[f] /\ acklist[f] \subseteq Nat
        BY <3>2, Types DEF IInv
      <4> QED
        BY <2>1, <4>1, <1>1 DEF AckInv
    <3> QED
      BY <3>1, <3>2
  <2>6. HeldInv(f)'
    <3>1. snd_nxt[f] \in Nat /\ Peer(f) \in Endpoints
      BY PeerFacts, Types DEF IInv
    <3>2. ASSUME NEW sn \in 0..(snd_nxt[f] - 1)
          PROVE  sn \in Sns(snd_buf[f]) \/ Held(Peer(f), sn)'
      <4>1. sn \in Sns(snd_buf[f]) \/ Held(Peer(f), sn)
        BY <2>1 DEF HeldInv
      <4>2. sn \in Nat
        BY <3>1
      <4> QED
        BY <4>1, <4>2, <3>1, <1>1
    <3> QED
      BY <3>2 DEF HeldInv
  <2> QED
    BY <2>2, <2>3, <2>4, <2>5, <2>6
<1> QED
  BY <1>2, <1>3 DEF IInv

(* Taking a message.                                                       *)
LEMMA RecvInv ==
  ASSUME IInv, NEW e \in Endpoints, ikcp_recv(e)
  PROVE  IInv'
<1> DEFINE que == rcv_queue[e]
           p   == Peer(e)
<1>1. TypeOK'
  BY RecvType DEF IInv
<1>2. PICK k \in 1..Len(que) :
        /\ delivered' = [delivered EXCEPT ![e] = @ \o SubSeq(que, 1, k)]
        /\ MoveReady(e, rcv_buf[e], SubSeq(que, k + 1, Len(que)))
  BY DEF ikcp_recv
<1> DEFINE rest == SubSeq(que, k + 1, Len(que))
           base == Len(delivered[e]) + k
<1>3. /\ que \in Seq(Fragment) /\ delivered[e] \in Seq(Fragment)
      /\ Len(que) \in Nat /\ Len(delivered[e]) \in Nat /\ rcv_nxt[e] \in Nat
      /\ k \in Nat /\ k =< Len(que) /\ rcv_buf[e] \in SUBSET Segment
  BY Types DEF IInv
<1>4. /\ rest \in Seq(Fragment)
      /\ Len(rest) = Len(que) - k
      /\ \A i \in 1..(Len(que) - k) : rest[i] = que[k + i]
  <2>1. \A i \in (k + 1)..Len(que) : que[i] \in Fragment
    BY <1>3, ElementOfSeq
  <2>2. /\ rest \in Seq(Fragment)
        /\ Len(rest) = IF k + 1 =< Len(que) THEN Len(que) - (k + 1) + 1 ELSE 0
        /\ \A i \in 1..(Len(que) - (k + 1) + 1) : rest[i] = que[k + 1 + i - 1]
    BY <2>1, <1>3, SubSeqProperties
  <2>3. Len(que) - (k + 1) + 1 = Len(que) - k
    BY <1>3
  <2>4. Len(rest) = Len(que) - k
    BY <2>2, <1>3
  <2>5. ASSUME NEW i \in 1..(Len(que) - k) PROVE rest[i] = que[k + i]
    <3>1. rest[i] = que[k + 1 + i - 1]
      BY <2>2, <2>3
    <3>2. k + 1 + i - 1 = k + i
      BY <1>3
    <3> QED
      BY <3>1, <3>2
  <2> QED
    BY <2>2, <2>4, <2>5
<1>5. Len(delivered'[e]) = base /\ base \in Nat
  <2>1. delivered'[e] = delivered[e] \o SubSeq(que, 1, k)
    BY <1>2 DEF IInv, TypeOK
  <2>2. \A i \in 1..k : que[i] \in Fragment
    BY <1>3, ElementOfSeq
  <2>3. SubSeq(que, 1, k) \in Seq(Fragment) /\ Len(SubSeq(que, 1, k)) = k
    BY <2>2, <1>3, SubSeqProperties
  <2>4. Len(delivered[e] \o SubSeq(que, 1, k)) = Len(delivered[e]) + k
    BY <2>3, <1>3, ConcatProperties
  <2> QED
    BY <2>1, <2>4, <1>3
<1>6. ReceiverInv(e)
  BY DEF IInv
<1>7. InStream(e, base, rest, rcv_buf[e], rcv_nxt[e])
  <2>1. Len(delivered[e]) + Len(que) = rcv_nxt[e] /\ Len(que) =< IKCP_WND_RCV
    BY <1>6 DEF ReceiverInv, InStream
  <2>2. base + Len(rest) = rcv_nxt[e] /\ Len(rest) =< IKCP_WND_RCV
    <3> DEFINE q == Len(que)
               d == Len(delivered[e])
    <3>1. /\ q \in Nat /\ d \in Nat /\ k \in Nat /\ k =< q
          /\ d + q = rcv_nxt[e] /\ q =< IKCP_WND_RCV
          /\ Len(rest) = q - k /\ base = d + k
      BY <2>1, <1>3, <1>4
    <3> HIDE DEF q, d, base, rest
    <3> QED
      BY <3>1, WindowAssumption
  <2>3. ASSUME NEW i \in 1..Len(rest) PROVE rest[i] = sent[p][base + i]
    <3>1. rest[i] = que[k + i] /\ k + i \in 1..Len(que)
      BY <1>3, <1>4
    <3>2. que[k + i] = sent[p][Len(delivered[e]) + (k + i)]
      BY <3>1, <1>6 DEF ReceiverInv, InStream
    <3>3. Len(delivered[e]) + (k + i) = base + i
      <4>1. i \in Nat
        BY <1>3, <1>4
      <4> QED
        BY <4>1, <1>3, AddAssoc
    <3> QED
      BY <3>1, <3>2, <3>3
  <2> QED
    BY <2>2, <2>3, <1>6 DEF ReceiverInv, InStream
<1>9. MoveReady(e, rcv_buf[e], rest)
  BY <1>2
<1> HIDE DEF rest, base, que
<1>10. /\ InStream(e, base, rcv_queue'[e], rcv_buf'[e], rcv_nxt'[e])
       /\ Grows(e, rcv_buf[e])
  BY <1>3, <1>4, <1>5, <1>7, <1>9, MoveReadyEffect
<1>11. UNCHANGED <<snd_queue, snd_una, snd_nxt, snd_buf, sent, net, acklist>>
  BY DEF ikcp_recv, sndVars
<1>12. ReceiverInv(e)'
  BY <1>5, <1>10, <1>11 DEF ReceiverInv, InStream
<1>13. \A sn \in Nat : Held(e, sn) => Held(e, sn)'
  BY <1>10 DEF Held, Grows
<1>14. \A sn \in acklist'[e] : Held(e, sn)'
  BY <1>11, <1>13, Types DEF IInv, AckInv
<1>15. \A f \in Endpoints \ {e} : delivered'[f] = delivered[f] /\ acklist'[f] = acklist[f]
  BY <1>2, <1>11 DEF IInv, TypeOK
<1> QED
  BY <1>1, <1>10, <1>11, <1>12, <1>13, <1>14, <1>15, ReceiverStep DEF Grows

(* Inputting a datagram: first what it acknowledges, at the sending half.  *)
LEMMA InputSender ==
  ASSUME IInv, NEW e \in Endpoints, NEW d \in net, ikcp_input(e, d)
  PROVE  /\ SenderInv(e)' /\ snd_una[e] =< snd_una'[e]
         /\ \A sn \in Sns(snd_buf[e]) : sn \in Sns(snd_buf'[e]) \/ Held(Peer(e), sn)
         /\ \A f \in Endpoints \ {e} :
              snd_buf'[f] = snd_buf[f] /\ snd_una'[f] = snd_una[f]
         /\ UNCHANGED <<snd_queue, snd_nxt, sent, delivered>>
<1> DEFINE left == Unacked(e, d)
<1>1. UNCHANGED <<snd_queue, snd_nxt, sent, delivered>>
  BY DEF ikcp_input
<1>2. d.dst = e /\ DatagramInv(d) /\ d.sn \in Nat /\ d.una \in Nat
  BY DEF IInv, ikcp_input, TypeOK, Datagram
<1>3. SenderInv(e) /\ snd_una[e] \in Nat /\ snd_nxt[e] \in Nat
  BY Types DEF IInv
<1>4. PICK u \in Sns(snd_buf[e]) \cup {snd_nxt[e]} :
        /\ ikcp_shrink_buf(e, left, u)
        /\ snd_una' = [snd_una EXCEPT ![e] = u]
  BY DEF ikcp_input
<1>5. /\ snd_buf'[e] = left /\ snd_una'[e] = u
      /\ \A f \in Endpoints \ {e} :
           snd_buf'[f] = snd_buf[f] /\ snd_una'[f] = snd_una[f]
  BY <1>4 DEF IInv, TypeOK, ikcp_input
<1>6. left \subseteq snd_buf[e] /\ snd_buf[e] \subseteq Segment
  BY Types DEF Unacked, IInv
<1>7. u \in Nat /\ snd_una[e] =< u /\ u =< snd_nxt[e]
  <2>1. CASE u = snd_nxt[e]
    BY <2>1, <1>3 DEF SenderInv
  <2>2. CASE u \in Sns(snd_buf[e])
    <3>1. PICK s \in snd_buf[e] : s.sn = u
      BY <2>2 DEF Sns
    <3>2. s.sn \in Nat /\ snd_una[e] =< s.sn /\ s.sn < snd_nxt[e]
      BY <1>3, <1>6 DEF SenderInv, Segment
    <3> QED
      BY <3>1, <3>2, <1>3
  <2> QED
    BY <2>1, <2>2
<1>8. \A s \in left : u =< s.sn
  BY <1>4 DEF ikcp_shrink_buf
<1>9. SenderInv(e)'
  <2>1. snd_nxt[e] =< u + IKCP_WND_SND
    BY <1>3, <1>7, WindowAssumption DEF SenderInv
  <2>2. \A s \in snd_buf'[e] :
          /\ u =< s.sn /\ s.sn < snd_nxt[e] /\ s.frag = sent[e][s.sn + 1]
    BY <1>3, <1>5, <1>6, <1>8 DEF SenderInv
  <2> QED
    BY <2>1, <2>2, <1>1, <1>3, <1>5, <1>7 DEF SenderInv
<1>10. ASSUME NEW sn \in Sns(snd_buf[e])
       PROVE  sn \in Sns(snd_buf'[e]) \/ Held(Peer(e), sn)
  <2>1. PICK s \in snd_buf[e] : s.sn = sn
    BY DEF Sns
  <2>2. CASE s \in left
    BY <2>1, <2>2, <1>5 DEF Sns
  <2>3. CASE s \notin left
    <3>1. ~(s.sn >= d.una) \/ (d.cmd = "ACK" /\ s.sn = d.sn)
      BY <2>3 DEF Unacked
    <3>2. CASE d.cmd = "ACK" /\ s.sn = d.sn
      BY <3>2, <2>1, <1>2 DEF DatagramInv
    <3>3. CASE ~(s.sn >= d.una)
      <4>1. /\ s.sn \in Nat /\ rcv_nxt[Peer(e)] \in Nat
            /\ d.una =< rcv_nxt[Peer(e)]
        BY <1>2, <1>6, PeerFacts, Types DEF DatagramInv, Segment, IInv
      <4>2. s.sn < rcv_nxt[Peer(e)]
        BY <3>3, <4>1, <1>2
      <4> QED
        BY <4>2, <2>1 DEF Held
    <3> QED
      BY <3>1, <3>2, <3>3
  <2> QED
    BY <2>2, <2>3
<1> QED
  BY <1>1, <1>5, <1>7, <1>9, <1>10

(* Then what it carries, at the receiving half.                            *)
LEMMA InputReceiver ==
  ASSUME IInv, TypeOK', NEW e \in Endpoints, NEW d \in net, ikcp_input(e, d)
  PROVE  /\ ReceiverInv(e)' /\ AckInv(e)'
         /\ Grows(e, rcv_buf[e])
         /\ \A f \in Endpoints \ {e} : acklist'[f] = acklist[f]
<1>1. UNCHANGED <<snd_nxt, sent, delivered>>
  BY DEF ikcp_input
<1>2. /\ d.dst = e /\ DatagramInv(d) /\ d.sn \in Nat /\ d.frag \in Fragment
  BY DEF IInv, ikcp_input, TypeOK, Datagram
<1>3. /\ ReceiverInv(e) /\ AckInv(e) /\ rcv_nxt[e] \in Nat
      /\ rcv_queue[e] \in Seq(Fragment) /\ rcv_buf[e] \in SUBSET Segment
      /\ Len(delivered[e]) \in Nat /\ acklist[e] \subseteq Nat
  BY Types DEF IInv
<1>4. CASE UNCHANGED <<rcv_buf, rcv_queue, rcv_nxt>>
  <2>1. ReceiverInv(e)'
    BY <1>1, <1>3, <1>4 DEF ReceiverInv, InStream
  <2>2. Grows(e, rcv_buf[e])
    BY <1>3, <1>4 DEF Grows, Held
  <2>3. \/ UNCHANGED acklist
        \/ /\ acklist' = [acklist EXCEPT ![e] = @ \cup {d.sn}]
           /\ Held(e, d.sn)
    <3>1. CASE UNCHANGED rcvVars
      BY <3>1 DEF rcvVars
    <3>2. CASE InputPush(e, d) /\ ~UNCHANGED rcvVars /\ d.sn < rcv_nxt[e]
      BY <3>2, <1>4 DEF InputPush, Held
    <3>3. CASE InputPush(e, d) /\ ~UNCHANGED rcvVars /\ ~(d.sn < rcv_nxt[e])
      <4>1. /\ acklist' = [acklist EXCEPT ![e] = @ \cup {d.sn}]
            /\ ikcp_parse_data(e, d)
        BY <3>3, <1>2, <1>3 DEF InputPush
      <4>2. d.sn \in Sns(rcv_buf[e])
        <5> DEFINE buf == IF d.sn \in Sns(rcv_buf[e]) THEN rcv_buf[e]
                          ELSE rcv_buf[e] \cup {[sn |-> d.sn, frag |-> d.frag]}
        <5>1. PICK nxt \in rcv_nxt[e]..(rcv_nxt[e] + IKCP_WND_RCV) :
                /\ rcv_nxt' = [rcv_nxt EXCEPT ![e] = nxt]
                /\ rcv_buf' = [rcv_buf EXCEPT ![e] = {s \in buf : s.sn >= nxt}]
          BY <4>1 DEF ikcp_parse_data, MoveReady
        <5>2. nxt = rcv_nxt[e] /\ rcv_buf[e] = {s \in buf : s.sn >= nxt}
          BY <5>1, <1>4 DEF IInv, TypeOK
        <5>3. CASE d.sn \notin Sns(rcv_buf[e])
          <6> DEFINE new == [sn |-> d.sn, frag |-> d.frag]
          <6>1. new \in buf /\ new.sn = d.sn
            BY <5>3
          <6>2. new \in rcv_buf[e]
            BY <6>1, <5>2, <3>3, <1>2, <1>3
          <6> QED
            BY <6>1, <6>2 DEF Sns
        <5> QED
          BY <5>3
      <4> QED
        BY <4>1, <4>2 DEF Held
    <3> QED
      BY <3>1, <3>2, <3>3 DEF ikcp_input
  <2>4. ASSUME NEW sn \in acklist'[e] PROVE Held(e, sn)'
    <3>1. Held(e, sn)
      BY <2>3, <1>3 DEF AckInv, IInv, TypeOK
    <3> QED
      BY <3>1, <1>4 DEF Held
  <2>5. \A f \in Endpoints \ {e} : acklist'[f] = acklist[f]
    BY <2>3 DEF IInv, TypeOK
  <2> QED
    BY <2>1, <2>2, <2>4, <2>5 DEF AckInv
<1>5. CASE ~UNCHANGED <<rcv_buf, rcv_queue, rcv_nxt>>
  <2>1. /\ d.cmd = "PUSH" /\ d.sn < rcv_nxt[e] + IKCP_WND_RCV /\ d.sn >= rcv_nxt[e]
        /\ acklist' = [acklist EXCEPT ![e] = @ \cup {d.sn}]
        /\ ikcp_parse_data(e, d)
    BY <1>5 DEF ikcp_input, InputPush, rcvVars
  <2> DEFINE new == [sn |-> d.sn, frag |-> d.frag]
             buf == IF d.sn \in Sns(rcv_buf[e]) THEN rcv_buf[e] ELSE rcv_buf[e] \cup {new}
  <2>2. MoveReady(e, buf, rcv_queue[e])
    BY <2>1 DEF ikcp_parse_data
  <2>3. /\ buf \in SUBSET Segment /\ rcv_buf[e] \subseteq buf
        /\ \A s \in buf : s \in rcv_buf[e] \/ s = new
    BY <1>2, <1>3 DEF Segment
  <2>4. d.sn \in Sns(buf) /\ Sns(rcv_buf[e]) \subseteq Sns(buf)
    BY <2>3 DEF Sns
  <2> HIDE DEF buf
  <2>5. d.sn < snd_nxt[Peer(e)] /\ d.frag = sent[Peer(e)][d.sn + 1]
    BY <2>1, <1>2 DEF DatagramInv
  <2>6. InStream(e, Len(delivered[e]), rcv_queue[e], buf, rcv_nxt[e])
    <3>1. ASSUME NEW s \in buf
          PROVE  /\ rcv_nxt[e] =< s.sn /\ s.sn < rcv_nxt[e] + IKCP_WND_RCV
                 /\ s.sn < snd_nxt[Peer(e)] /\ s.frag = sent[Peer(e)][s.sn + 1]
      <4>1. CASE s \in rcv_buf[e]
        BY <4>1, <1>3 DEF ReceiverInv, InStream
      <4>2. CASE s = new
        BY <4>2, <2>1, <2>5, <1>2, <1>3
      <4> QED
        BY <4>1, <4>2, <2>3
    <3> QED
      BY <3>1, <1>3 DEF ReceiverInv, InStream
  <2>7. /\ InStream(e, Len(delivered[e]), rcv_queue'[e], rcv_buf'[e], rcv_nxt'[e])
        /\ Grows(e, buf)
    BY <2>2, <2>3, <2>6, <1>3, MoveReadyEffect
  <2>8. ReceiverInv(e)'
    BY <2>7, <1>1 DEF ReceiverInv, InStream
  <2>9. Grows(e, rcv_buf[e])
    BY <2>4, <2>7 DEF Grows
  <2>10. ASSUME NEW sn \in acklist'[e] PROVE Held(e, sn)'
    <3>1. sn \in acklist[e] \/ sn = d.sn
      BY <2>1 DEF IInv, TypeOK
    <3>2. CASE sn = d.sn
      BY <3>2, <2>4, <2>7, <1>2 DEF Grows
    <3>3. CASE sn \in acklist[e]
      BY <3>3, <2>9, <1>3 DEF AckInv, Held, Grows
    <3> QED
      BY <3>1, <3>2, <3>3
  <2>11. \A f \in Endpoints \ {e} : acklist'[f] = acklist[f]
    BY <2>1 DEF IInv, TypeOK
  <2> QED
    BY <2>8, <2>9, <2>10, <2>11 DEF AckInv
<1> QED
  BY <1>4, <1>5

(* Receiving a datagram, which UDP may duplicate.                          *)
LEMMA ReceiveInv ==
  ASSUME IInv, NEW e \in Endpoints, NEW d \in net, Receive(e, d)
  PROVE  IInv'
<1>1. TypeOK' /\ ikcp_input(e, d) /\ net' \subseteq net
  BY InputType DEF IInv, Receive
<1>2. /\ SenderInv(e)' /\ snd_una[e] =< snd_una'[e]
      /\ \A sn \in Sns(snd_buf[e]) : sn \in Sns(snd_buf'[e]) \/ Held(Peer(e), sn)
      /\ \A f \in Endpoints \ {e} :
           snd_buf'[f] = snd_buf[f] /\ snd_una'[f] = snd_una[f]
      /\ UNCHANGED <<snd_queue, snd_nxt, sent, delivered>>
  BY <1>1, InputSender
<1>3. /\ ReceiverInv(e)' /\ AckInv(e)' /\ Grows(e, rcv_buf[e])
      /\ \A f \in Endpoints \ {e} : acklist'[f] = acklist[f]
  BY <1>1, InputReceiver
<1>4. \A f \in Endpoints :
        /\ snd_nxt'[f] \in Nat /\ snd_nxt[f] =< snd_nxt'[f]
        /\ rcv_nxt'[f] \in Nat /\ rcv_nxt[f] =< rcv_nxt'[f]
        /\ \A i \in 1..Len(sent[f]) : sent'[f][i] = sent[f][i]
        /\ \A sn \in Nat : Held(f, sn) => Held(f, sn)'
  <2> SUFFICES ASSUME NEW f \in Endpoints
               PROVE  /\ snd_nxt'[f] \in Nat /\ snd_nxt[f] =< snd_nxt'[f]
                      /\ rcv_nxt'[f] \in Nat /\ rcv_nxt[f] =< rcv_nxt'[f]
                      /\ \A i \in 1..Len(sent[f]) : sent'[f][i] = sent[f][i]
                      /\ \A sn \in Nat : Held(f, sn) => Held(f, sn)'
    OBVIOUS
  <2>1. snd_nxt[f] \in Nat /\ rcv_nxt[f] \in Nat
    BY Types DEF IInv
  <2>2. CASE f = e
    BY <2>1, <2>2, <1>2, <1>3 DEF Grows, Held
  <2>3. CASE f # e
    <3>1. rcv_nxt'[f] = rcv_nxt[f] /\ rcv_buf'[f] = rcv_buf[f]
      BY <2>3, <1>3 DEF Grows
    <3> QED
      BY <2>1, <3>1, <1>2 DEF Held
  <2> QED
    BY <2>2, <2>3
<1>5. \A x \in net' : DatagramInv(x)'
  BY <1>1, <1>4, OldDatagrams
<1>6. ASSUME NEW f \in Endpoints
      PROVE  StreamInv(f)' /\ SenderInv(f)' /\ ReceiverInv(f)' /\ AckInv(f)' /\ HeldInv(f)'
  <2>1. StreamInv(f) /\ SenderInv(f) /\ ReceiverInv(f) /\ AckInv(f) /\ HeldInv(f)
    BY DEF IInv
  <2>2. StreamInv(f)'
    BY <2>1, <1>2, Zenon DEF StreamInv
  <2>3. SenderInv(f)' /\ ReceiverInv(f)' /\ AckInv(f)'
    <3>1. CASE f = e
      BY <3>1, <1>2, <1>3
    <3>2. CASE f # e
      <4>1. /\ snd_buf'[f] = snd_buf[f] /\ snd_una'[f] = snd_una[f]
            /\ rcv_nxt'[f] = rcv_nxt[f] /\ rcv_queue'[f] = rcv_queue[f]
            /\ rcv_buf'[f] = rcv_buf[f] /\ acklist'[f] = acklist[f]
        BY <3>2, <1>2, <1>3 DEF Grows
      <4>2. SenderInv(f)'
        BY <2>1, <4>1, <1>2 DEF SenderInv
      <4>3. ReceiverInv(f)'
        BY <2>1, <4>1, <1>2 DEF ReceiverInv, InStream
      <4>4. AckInv(f)'
        BY <2>1, <4>1 DEF AckInv, Held
      <4> QED
        BY <4>2, <4>3, <4>4
    <3> QED
      BY <3>1, <3>2
  <2>4. ASSUME NEW sn \in 0..(snd_nxt[f] - 1)
        PROVE  sn \in Sns(snd_buf'[f]) \/ Held(Peer(f), sn)'
    <3>1. sn \in Nat /\ Peer(f) \in Endpoints
      BY PeerFacts, Types DEF IInv
    <3>2. sn \in Sns(snd_buf[f]) \/ Held(Peer(f), sn)
      BY <2>1 DEF HeldInv
    <3>3. CASE Held(Peer(f), sn)
      BY <3>1, <3>3, <1>4
    <3>4. CASE sn \in Sns(snd_buf[f]) /\ f = e
      <4>1. sn \in Sns(snd_buf'[f]) \/ Held(Peer(f), sn)
        BY <3>4, <1>2
      <4> QED
        BY <4>1, <3>1, <1>4
    <3>5. CASE sn \in Sns(snd_buf[f]) /\ f # e
      BY <3>5, <1>2
    <3> QED
      BY <3>2, <3>3, <3>4, <3>5
  <2>5. HeldInv(f)'
    BY <2>4, <1>2 DEF HeldInv, Sns
  <2> QED
    BY <2>2, <2>3, <2>5
<1> QED
  BY <1>1, <1>5, <1>6 DEF IInv

(* Flushing, whatever is due.                                              *)
LEMMA FlushInv ==
  ASSUME IInv, NEW e \in Endpoints, NEW resend \in SUBSET snd_buf[e],
         NEW due \in BOOLEAN, ikcp_flush(e, resend, due)
  PROVE  IInv'
<1> DEFINE n == Room(e)
           q == Len(snd_queue[e])
<1>1. TypeOK'
  BY FlushType DEF IInv
<1>2. UNCHANGED <<snd_una, rcv_buf, rcv_queue, rcv_nxt, sent, delivered>>
  BY DEF ikcp_flush
<1>3. /\ n \in Nat /\ n =< q /\ q \in Nat /\ snd_nxt[e] \in Nat /\ snd_una[e] \in Nat
      /\ n > 0 => snd_nxt[e] + n =< snd_una[e] + IKCP_WND_SND
      /\ snd_queue[e] \in Seq(Fragment)
  BY RoomFacts, Types DEF IInv
<1>4. /\ snd_nxt'[e] = snd_nxt[e] + n
      /\ snd_buf'[e] = snd_buf[e] \cup NewSegments(e)
      /\ snd_queue'[e] = SubSeq(snd_queue[e], n + 1, q)
      /\ acklist'[e] = {}
      /\ \A f \in Endpoints \ {e} :
           /\ snd_nxt'[f] = snd_nxt[f] /\ snd_buf'[f] = snd_buf[f]
           /\ snd_queue'[f] = snd_queue[f] /\ acklist'[f] = acklist[f]
  BY DEF ikcp_flush, IInv, TypeOK
<1>5. SenderInv(e)
  BY DEF IInv
<1>6. ASSUME NEW s \in NewSegments(e)
      PROVE  /\ s.sn \in Nat /\ snd_nxt[e] =< s.sn /\ s.sn < snd_nxt[e] + n
             /\ s.frag = sent[e][s.sn + 1]
  <2>1. PICK i \in 1..n : s = [sn |-> snd_nxt[e] + i - 1, frag |-> snd_queue[e][i]]
    BY DEF NewSegments
  <2>2. i \in 1..q /\ i \in Nat /\ 1 =< i /\ i =< n
    BY <1>3
  <2>3. snd_queue[e][i] = sent[e][snd_nxt[e] + i]
    BY <2>2, <1>5 DEF SenderInv
  <2>4. s.sn = snd_nxt[e] + i - 1 /\ s.frag = snd_queue[e][i]
    BY <2>1
  <2> HIDE DEF n
  <2>5. /\ s.sn \in Nat /\ snd_nxt[e] =< s.sn /\ s.sn < snd_nxt[e] + n
        /\ s.sn + 1 = snd_nxt[e] + i
    BY <2>2, <2>4, <1>3
  <2> QED
    BY <2>3, <2>4, <2>5
<1>7. /\ Len(snd_queue'[e]) = q - n
      /\ \A i \in 1..(q - n) : snd_queue'[e][i] = snd_queue[e][n + i]
  <2> DEFINE sub == SubSeq(snd_queue[e], n + 1, q)
  <2>1. \A i \in (n + 1)..q : snd_queue[e][i] \in Fragment
    BY <1>3, ElementOfSeq
  <2>2. /\ Len(sub) = IF n + 1 =< q THEN q - (n + 1) + 1 ELSE 0
        /\ \A i \in 1..(q - (n + 1) + 1) : sub[i] = snd_queue[e][n + 1 + i - 1]
    BY <2>1, <1>3, SubSeqProperties
  <2> HIDE DEF sub, n, q
  <2>3. q - (n + 1) + 1 = q - n /\ Len(sub) = q - n
    BY <2>2, <1>3
  <2>4. ASSUME NEW i \in 1..(q - n) PROVE sub[i] = snd_queue[e][n + i]
    <3>1. sub[i] = snd_queue[e][n + 1 + i - 1]
      BY <2>2, <2>3
    <3>2. n + 1 + i - 1 = n + i
      BY <1>3
    <3> QED
      BY <3>1, <3>2
  <2> QED
    BY <2>3, <2>4, <1>4 DEF sub
<1>8. SenderInv(e)'
  <2> HIDE DEF n, q
  <2>1. /\ snd_nxt[e] + q = Len(sent[e]) /\ snd_una[e] =< snd_nxt[e]
        /\ snd_nxt[e] =< snd_una[e] + IKCP_WND_SND
        /\ \A i \in 1..q : snd_queue[e][i] = sent[e][snd_nxt[e] + i]
    BY <1>5 DEF SenderInv, q
  <2>2. snd_nxt'[e] + Len(snd_queue'[e]) = Len(sent[e])
    BY <2>1, <1>3, <1>4, <1>7
  <2>3. ASSUME NEW i \in 1..Len(snd_queue'[e])
        PROVE  snd_queue'[e][i] = sent[e][snd_nxt'[e] + i]
    <3>1. i \in 1..(q - n) /\ i \in Nat /\ n + i \in 1..q
      BY <1>3, <1>7
    <3>2. snd_queue'[e][i] = sent[e][snd_nxt[e] + (n + i)]
      BY <3>1, <2>1, <1>7
    <3>3. snd_nxt[e] + (n + i) = snd_nxt'[e] + i
      <4>1. snd_nxt[e] + (n + i) = (snd_nxt[e] + n) + i
        BY <3>1, <1>3, AddAssoc
      <4> QED
        BY <4>1, <1>4, Zenon
    <3> QED
      BY <3>2, <3>3
  <2>4. snd_una[e] =< snd_nxt'[e] /\ snd_nxt'[e] =< snd_una[e] + IKCP_WND_SND
    BY <2>1, <1>3, <1>4, WindowAssumption
  <2>5. ASSUME NEW s \in snd_buf'[e]
        PROVE  /\ snd_una[e] =< s.sn /\ s.sn < snd_nxt'[e]
               /\ s.frag = sent[e][s.sn + 1]
    <3>1. CASE s \in snd_buf[e]
      <4>1. s.sn \in Nat /\ snd_una[e] =< s.sn /\ s.sn < snd_nxt[e]
            /\ s.frag = sent[e][s.sn + 1]
        BY <3>1, <1>5, Types DEF SenderInv, IInv, Segment
      <4> QED
        BY <4>1, <1>3, <1>4
    <3>2. CASE s \in NewSegments(e)
      BY <3>2, <2>1, <1>3, <1>4, <1>6
    <3> QED
      BY <3>1, <3>2, <1>4
  <2> QED
    BY <2>2, <2>3, <2>4, <2>5, <1>2 DEF SenderInv
<1>9. \A f \in Endpoints :
        /\ snd_nxt'[f] \in Nat /\ snd_nxt[f] =< snd_nxt'[f]
        /\ rcv_nxt'[f] \in Nat /\ rcv_nxt[f] =< rcv_nxt'[f]
        /\ \A i \in 1..Len(sent[f]) : sent'[f][i] = sent[f][i]
        /\ \A sn \in Nat : Held(f, sn) => Held(f, sn)'
  <2> HIDE DEF n
  <2> SUFFICES ASSUME NEW f \in Endpoints
               PROVE  /\ snd_nxt'[f] \in Nat /\ snd_nxt[f] =< snd_nxt'[f]
                      /\ rcv_nxt[f] \in Nat
    BY <1>2 DEF Held
  <2>1. snd_nxt[f] \in Nat /\ rcv_nxt[f] \in Nat
    BY Types DEF IInv
  <2> QED
    BY <2>1, <1>3, <1>4
<1>10. \A x \in net' : DatagramInv(x)'
  <2>1. \A x \in net : DatagramInv(x)'
    BY <1>9, OldDatagrams
  <2>2. Peer(Peer(e)) = e /\ rcv_nxt[e] \in Nat
    BY PeerFacts, Types DEF IInv
  <2>3. ASSUME NEW x \in net', x \notin net PROVE DatagramInv(x)'
    <3>1. /\ x.dst = Peer(e) /\ x.una = rcv_nxt[e]
          /\ \/ x.cmd = "ACK" /\ x.sn \in acklist[e]
             \/ x.cmd = "WASK" \/ x.cmd = "WINS"
             \/ /\ x.cmd = "PUSH"
                /\ \E s \in snd_buf'[e] : x.sn = s.sn /\ x.frag = s.frag
      BY <2>3, <1>4 DEF ikcp_flush, WindowCommands, ikcp_encode_seg
    <3>2. CASE x.cmd = "ACK" /\ x.sn \in acklist[e]
      <4>1. Held(e, x.sn)'
        BY <3>2, <1>2 DEF IInv, AckInv, Held
      <4> QED
        BY <3>1, <3>2, <4>1, <2>2, <1>2 DEF DatagramInv
    <3>3. CASE x.cmd = "WASK" \/ x.cmd = "WINS"
      BY <3>1, <3>3, <2>2, <1>2 DEF DatagramInv
    <3>4. CASE /\ x.cmd = "PUSH"
               /\ \E s \in snd_buf'[e] : x.sn = s.sn /\ x.frag = s.frag
      <4>1. x.sn < snd_nxt'[e] /\ x.frag = sent'[e][x.sn + 1]
        BY <3>4, <1>8 DEF SenderInv
      <4> QED
        BY <3>1, <3>4, <4>1, <2>2, <1>2 DEF DatagramInv
    <3> QED
      BY <3>1, <3>2, <3>3, <3>4
  <2> QED
    BY <2>1, <2>3
<1>11. ASSUME NEW f \in Endpoints
       PROVE  StreamInv(f)' /\ SenderInv(f)' /\ ReceiverInv(f)' /\ AckInv(f)' /\ HeldInv(f)'
  <2>1. StreamInv(f) /\ SenderInv(f) /\ ReceiverInv(f) /\ AckInv(f) /\ HeldInv(f)
    BY DEF IInv
  <2>2. StreamInv(f)'
    BY <2>1, <1>2, Zenon DEF StreamInv
  <2>3. SenderInv(f)' /\ AckInv(f)'
    <3>1. CASE f = e
      BY <3>1, <1>4, <1>8 DEF AckInv
    <3>2. CASE f # e
      <4>1. /\ snd_nxt'[f] = snd_nxt[f] /\ snd_buf'[f] = snd_buf[f]
            /\ snd_queue'[f] = snd_queue[f] /\ acklist'[f] = acklist[f]
        BY <3>2, <1>4
      <4> QED
        BY <2>1, <4>1, <1>2 DEF SenderInv, AckInv, Held
    <3> QED
      BY <3>1, <3>2
  <2>4. ReceiverInv(f)'
    <3>1. Peer(f) \in Endpoints
      BY PeerFacts
    <3>2. /\ snd_nxt[Peer(f)] \in Nat /\ snd_nxt'[Peer(f)] \in Nat
          /\ snd_nxt[Peer(f)] =< snd_nxt'[Peer(f)]
          /\ rcv_nxt[f] \in Nat /\ \A s \in rcv_buf[f] : s.sn \in Nat
      BY <3>1, <1>9, Types DEF IInv, Segment
    <3>3. rcv_nxt[f] =< snd_nxt'[Peer(f)]
      BY <3>2, <2>1 DEF ReceiverInv, InStream
    <3>4. \A s \in rcv_buf[f] : s.sn < snd_nxt'[Peer(f)]
      BY <3>2, <2>1 DEF ReceiverInv, InStream
    <3> QED
      BY <3>3, <3>4, <2>1, <1>2 DEF ReceiverInv, InStream
  <2>5. HeldInv(f)'
    <3>1. CASE f # e
      <4>1. snd_nxt'[f] = snd_nxt[f] /\ snd_buf'[f] = snd_buf[f]
        BY <3>1, <1>4
      <4> QED
        BY <2>1, <4>1, <1>2 DEF HeldInv, Held
    <3>2. CASE f = e
      <4> SUFFICES ASSUME NEW sn \in 0..(snd_nxt'[e] - 1)
                   PROVE  sn \in Sns(snd_buf'[e]) \/ Held(Peer(e), sn)
        BY <3>2, <1>2 DEF HeldInv, Held
      <4> HIDE DEF n, q
      <4>1. sn \in Nat
        BY <1>3, <1>4
      <4>2. CASE sn < snd_nxt[e]
        <5>1. sn \in 0..(snd_nxt[e] - 1)
          BY <4>1, <4>2, <1>3
        <5>2. sn \in Sns(snd_buf[e]) \/ Held(Peer(e), sn)
          BY <5>1, <2>1, <3>2 DEF HeldInv
        <5> QED
          BY <5>2, <1>4 DEF Sns
      <4>3. CASE sn >= snd_nxt[e]
        <5> DEFINE i == sn - snd_nxt[e] + 1
        <5>1. i \in 1..n /\ snd_nxt[e] + i - 1 = sn
          BY <4>1, <4>3, <1>3, <1>4
        <5>2. [sn |-> snd_nxt[e] + i - 1, frag |-> snd_queue[e][i]] \in NewSegments(e)
          BY <5>1 DEF NewSegments, n
        <5>3. [sn |-> snd_nxt[e] + i - 1, frag |-> snd_queue[e][i]].sn = sn
          BY <5>1
        <5> HIDE DEF i
        <5> QED
          BY <5>2, <5>3, <1>4 DEF Sns
      <4> QED
        BY <4>1, <4>2, <4>3, <1>3
    <3> QED
      BY <3>1, <3>2
  <2> QED
    BY <2>2, <2>3, <2>4, <2>5
<1> QED
  BY <1>1, <1>10, <1>11 DEF IInv

(* Every step keeps IInv.                                                  *)
LEMMA NextInv == IInv /\ [Next]_vars => IInv'
<1> SUFFICES ASSUME IInv, [Next]_vars PROVE IInv'
  OBVIOUS
<1>1. ASSUME NEW e \in Endpoints, ikcp_send(e) PROVE IInv'
  BY <1>1, SendInv
<1>2. ASSUME NEW e \in Endpoints, ikcp_recv(e) PROVE IInv'
  BY <1>2, RecvInv
<1>3. ASSUME NEW e \in Endpoints, Flush(e) PROVE IInv'
  BY <1>3, FlushInv DEF Flush
<1>4. ASSUME NEW e \in Endpoints, NEW d \in net, Receive(e, d) PROVE IInv'
  BY <1>4, ReceiveInv
<1>5. ASSUME NEW d \in net, Lose(d) PROVE IInv'
  BY <1>5, LoseInv
<1>6. CASE UNCHANGED vars
  <2>1. UNCHANGED <<snd_queue, snd_buf, snd_una, snd_nxt, rcv_buf, rcv_queue, rcv_nxt,
                    acklist, rmt_wnd, probe, probe_wait, net, sent, delivered>>
    BY <1>6 DEF vars, sndVars, rcvVars, wndVars
  <2>2. TypeOK'
    BY <2>1 DEF IInv, TypeOK
  <2>3. ASSUME NEW e \in Endpoints
        PROVE  StreamInv(e)' /\ SenderInv(e)' /\ ReceiverInv(e)' /\ AckInv(e)' /\ HeldInv(e)'
    <3>1. StreamInv(e) /\ SenderInv(e) /\ ReceiverInv(e) /\ AckInv(e) /\ HeldInv(e)
      BY DEF IInv
    <3>2. StreamInv(e)'
      BY <3>1, <2>1, Zenon DEF StreamInv
    <3>3. SenderInv(e)' /\ ReceiverInv(e)'
      BY <3>1, <2>1 DEF SenderInv, ReceiverInv, InStream
    <3>4. AckInv(e)' /\ HeldInv(e)'
      BY <3>1, <2>1 DEF AckInv, HeldInv, Held
    <3> QED
      BY <3>2, <3>3, <3>4
  <2>4. \A d \in net' : DatagramInv(d)'
    BY <2>1 DEF IInv, DatagramInv, Held
  <2> QED
    BY <2>2, <2>3, <2>4 DEF IInv
<1> QED
  BY <1>1, <1>2, <1>3, <1>4, <1>5, <1>6 DEF Next

(* IInv holds in every reachable state.                                    *)
THEOREM Invariance == Spec => []IInv
BY InitInv, NextInv, PTL DEF Spec

-----------------------------------------------------------------------------
(* The properties of Kcp.                                                  *)

(* For any windows and any loss, duplication and reordering, a segment     *)
(* leaves snd_buf only when the peer holds it.                             *)
THEOREM NothingLost == Spec => []SentIsHeld
<1>1. IInv => SentIsHeld
  BY DEF IInv, HeldInv, Held, SentIsHeld
<1> QED
  BY <1>1, Invariance, PTL

(* The windows bound what a conversation keeps, at both ends.              *)
THEOREM Bounded == Spec => []WindowBounds
<1>1. IInv => WindowBounds
  <2> SUFFICES ASSUME IInv, NEW e \in Endpoints
               PROVE  /\ Len(rcv_queue[e]) =< IKCP_WND_RCV
                      /\ Sns(rcv_buf[e]) \subseteq
                           rcv_nxt[e]..(rcv_nxt[e] + IKCP_WND_RCV - 1)
                      /\ snd_nxt[e] - snd_una[e] =< IKCP_WND_SND
                      /\ Sns(snd_buf[e]) \subseteq snd_una[e]..(snd_nxt[e] - 1)
    BY DEF WindowBounds
  <2>1. /\ rcv_nxt[e] \in Nat /\ snd_nxt[e] \in Nat /\ snd_una[e] \in Nat
        /\ \A s \in rcv_buf[e] \cup snd_buf[e] : s.sn \in Nat
    BY Types DEF IInv, Segment
  <2>2. Len(rcv_queue[e]) =< IKCP_WND_RCV
    BY DEF IInv, ReceiverInv, InStream
  <2>3. ASSUME NEW s \in rcv_buf[e]
        PROVE  s.sn \in rcv_nxt[e]..(rcv_nxt[e] + IKCP_WND_RCV - 1)
    <3>1. ReceiverInv(e)
      BY DEF IInv
    <3>2. rcv_nxt[e] =< s.sn /\ s.sn < rcv_nxt[e] + IKCP_WND_RCV
      BY <3>1, <2>3 DEF ReceiverInv, InStream
    <3> QED
      BY <3>2, <2>1, <2>3, WindowAssumption
  <2>4. snd_nxt[e] - snd_una[e] =< IKCP_WND_SND
    BY <2>1, WindowAssumption DEF IInv, SenderInv
  <2>5. ASSUME NEW s \in snd_buf[e] PROVE s.sn \in snd_una[e]..(snd_nxt[e] - 1)
    BY <2>1 DEF IInv, SenderInv
  <2> QED
    BY <2>2, <2>3, <2>4, <2>5 DEF Sns
<1> QED
  BY <1>1, Invariance, PTL

(* No input, however stale, moves snd_una or rcv_nxt backwards.            *)
THEOREM Monotonic == Spec => EdgesAdvance
<1>1. IInv /\ [Next]_vars => [Advance]_vars
  <2> SUFFICES ASSUME IInv, Next PROVE Advance
    OBVIOUS
  <2>0. \A e \in Endpoints : snd_una[e] \in Nat /\ rcv_nxt[e] \in Nat
    BY Types DEF IInv
  <2>1. CASE UNCHANGED <<snd_una, rcv_nxt>>
    BY <2>0, <2>1 DEF Advance
  <2>2. ASSUME NEW e \in Endpoints, ikcp_recv(e) PROVE Advance
    <3>1. UNCHANGED snd_una
      BY <2>2 DEF ikcp_recv, sndVars
    <3>2. PICK rest, nxt \in rcv_nxt[e]..(rcv_nxt[e] + IKCP_WND_RCV) :
            rcv_nxt' = [rcv_nxt EXCEPT ![e] = nxt]
      BY <2>2 DEF ikcp_recv, MoveReady
    <3>3. nxt \in Nat /\ nxt >= rcv_nxt[e]
      BY <2>0, WindowAssumption
    <3> QED
      BY <3>1, <3>2, <3>3, <2>0 DEF IInv, TypeOK, Advance
  <2>3. ASSUME NEW e \in Endpoints, NEW d \in net, Receive(e, d) PROVE Advance
    <3>1. ikcp_input(e, d) /\ TypeOK'
      BY <2>3, InputType DEF Receive, IInv
    <3>2. /\ snd_una[e] =< snd_una'[e] /\ rcv_nxt[e] =< rcv_nxt'[e]
          /\ \A f \in Endpoints \ {e} :
               snd_una'[f] = snd_una[f] /\ rcv_nxt'[f] = rcv_nxt[f]
      BY <3>1, InputSender, InputReceiver DEF Grows
    <3>3. \A f \in Endpoints : snd_una'[f] \in Nat /\ rcv_nxt'[f] \in Nat
      BY <3>1 DEF TypeOK
    <3>4. ASSUME NEW f \in Endpoints
          PROVE  snd_una'[f] >= snd_una[f] /\ rcv_nxt'[f] >= rcv_nxt[f]
      BY <3>2, <3>3, <2>0
    <3> QED
      BY <3>4 DEF Advance
  <2>4. ASSUME NEW e \in Endpoints, ikcp_send(e) \/ Flush(e)
        PROVE  UNCHANGED <<snd_una, rcv_nxt>>
    BY <2>4 DEF ikcp_send, Flush, ikcp_flush, rcvVars
  <2>5. ASSUME NEW d \in net, Lose(d) PROVE UNCHANGED <<snd_una, rcv_nxt>>
    BY <2>5 DEF Lose, sndVars, rcvVars
  <2> QED
    BY <2>1, <2>2, <2>3, <2>4, <2>5 DEF Next
<1> QED
  BY <1>1, Invariance, PTL DEF Spec, EdgesAdvance

(* If no message has more fragments than the receive window, a full        *)
(* receive queue can always be drained.                                    *)
THEOREM Drainable == ASSUME MaxCount =< IKCP_WND_RCV PROVE Spec => []NeverWedged
<1>1. IInv => NeverWedged
  <2> SUFFICES ASSUME IInv, NEW e \in Endpoints, Len(rcv_queue[e]) >= IKCP_WND_RCV
               PROVE  Peekable(rcv_queue[e])
    BY DEF NeverWedged
  <2> DEFINE que == rcv_queue[e]
             p   == Peer(e)
             at  == Len(delivered[e]) + 1
  <2>1. /\ Len(que) \in Nat /\ que \in Seq(Fragment) /\ Len(que) >= 1
        /\ p \in Endpoints /\ Len(delivered[e]) \in Nat /\ rcv_nxt[e] \in Nat
        /\ snd_nxt[p] \in Nat /\ Len(sent[p]) \in Nat /\ Len(snd_queue[p]) \in Nat
    BY PeerFacts, Types, WindowAssumption DEF IInv
  <2>2. /\ Len(delivered[e]) + Len(que) = rcv_nxt[e] /\ rcv_nxt[e] =< snd_nxt[p]
        /\ que[1] = sent[p][at]
    <3>1. ReceiverInv(e)
      BY DEF IInv
    <3>2. 1 \in 1..Len(que)
      BY <2>1
    <3>3. \A i \in 1..Len(que) : que[i] = sent[p][Len(delivered[e]) + i]
      BY <3>1 DEF ReceiverInv, InStream
    <3> QED
      BY <3>1, <3>2, <3>3 DEF ReceiverInv, InStream
  <2>3. at \in 1..Len(sent[p])
    <3>1. snd_nxt[p] =< Len(sent[p])
      BY <2>1 DEF IInv, SenderInv
    <3>2. rcv_nxt[e] =< Len(sent[p])
      BY <3>1, <2>1, <2>2
    <3>3. Len(delivered[e]) + Len(que) =< Len(sent[p])
      BY <3>2, <2>2, Zenon
    <3>4. 1 \in 1..Len(que)
      BY <2>1
    <3> QED
      BY <3>3, <3>4, <2>1, OffsetIn
  <2>4. que[1].frg \in Nat /\ que[1].frg < MaxCount
    <3>1. que[1] \in Fragment
      BY <2>1, ElementOfSeq
    <3>2. sent[p][at].frg < MaxCount
      BY <2>1, <2>3 DEF IInv, StreamInv
    <3> QED
      BY <3>1, <3>2, <2>2 DEF Fragment
  <2>5. que # <<>>
    BY <2>1
  <2>6. Len(que) >= que[1].frg + 1
    <3> HIDE DEF que
    <3> QED
      BY <2>1, <2>4, MaxCountAssumption, WindowAssumption DEF que
  <2> QED
    BY <2>5, <2>6 DEF Peekable
<1> QED
  BY <1>1, Invariance, PTL

-----------------------------------------------------------------------------
(* Kcp implements MsgPipe.  The pipe's sent and delivered are the          *)
(* histories of the same name; ikcp_send is PipeSend, ikcp_recv is         *)
(* PipeDeliver and all else is a stutter.                                  *)

(* ikcp_send appends to the stream what the pipe appends.                  *)
LEMMA SendRefines ==
  ASSUME NEW e \in Endpoints, ikcp_send(e)
  PROVE  Pipe!PipeSend(e)
BY DEF ikcp_send, Pipe!PipeSend, Message, Pipe!Message

(* rcv_queue is the part of the peer's stream after what is delivered.     *)
LEMMA QueueInStream ==
  ASSUME IInv, NEW e \in Endpoints
  PROVE  /\ rcv_queue[e] \in Seq(Fragment) /\ delivered[e] \in Seq(Fragment)
         /\ Peer(e) \in Endpoints /\ sent[Peer(e)] \in Seq(Fragment)
         /\ Len(delivered[e]) \in Nat /\ Len(rcv_queue[e]) \in Nat
         /\ Len(sent[Peer(e)]) \in Nat
         /\ Len(delivered[e]) + Len(rcv_queue[e]) =< Len(sent[Peer(e)])
         /\ \A i \in 1..Len(rcv_queue[e]) :
              rcv_queue[e][i] = sent[Peer(e)][Len(delivered[e]) + i]
<1> DEFINE p == Peer(e)
<1>1. /\ rcv_queue[e] \in Seq(Fragment) /\ delivered[e] \in Seq(Fragment)
      /\ p \in Endpoints /\ sent[p] \in Seq(Fragment)
      /\ rcv_nxt[e] \in Nat /\ snd_nxt[p] \in Nat /\ snd_queue[p] \in Seq(Fragment)
  BY PeerFacts, Types DEF IInv
<1>2. /\ Len(delivered[e]) \in Nat /\ Len(rcv_queue[e]) \in Nat
      /\ Len(sent[p]) \in Nat /\ Len(snd_queue[p]) \in Nat
  BY <1>1
<1>3. ReceiverInv(e) /\ SenderInv(p)
  BY <1>1 DEF IInv
<1>4. /\ Len(delivered[e]) + Len(rcv_queue[e]) = rcv_nxt[e]
      /\ rcv_nxt[e] =< snd_nxt[p]
      /\ \A i \in 1..Len(rcv_queue[e]) :
           rcv_queue[e][i] = sent[p][Len(delivered[e]) + i]
  BY <1>3 DEF ReceiverInv, InStream
<1>5. snd_nxt[p] + Len(snd_queue[p]) = Len(sent[p])
  BY <1>3 DEF SenderInv
<1>6. rcv_nxt[e] =< Len(sent[p])
  BY <1>1, <1>2, <1>4, <1>5
<1> QED
  BY <1>1, <1>2, <1>4, <1>6

(* The message at the front of a peekable queue ends where its first       *)
(* fragment says: the loop of ikcp_recv always stops at a frg of 0, never  *)
(* because the queue has run out.                                          *)
LEMMA MessageEnds ==
  ASSUME IInv, NEW e \in Endpoints, Peekable(rcv_queue[e]),
         NEW k \in 1..Len(rcv_queue[e]),
         rcv_queue[e][k].frg = 0 \/ k = Len(rcv_queue[e]),
         \A i \in 1..(k - 1) : rcv_queue[e][i].frg # 0
  PROVE  rcv_queue[e][k].frg = 0
<1> DEFINE que  == rcv_queue[e]
           strm == sent[Peer(e)]
           from == Len(delivered[e])
           q    == Len(que)
           f    == que[1].frg
<1>0. /\ q \in Nat /\ from \in Nat
      /\ que \in Seq(Fragment) /\ Peer(e) \in Endpoints /\ Len(strm) \in Nat
      /\ from + q =< Len(strm)
      /\ \A i \in 1..q : que[i] = strm[from + i]
  BY QueueInStream, Zenon
<1>1. k \in Nat /\ 1 =< k /\ k =< q
  BY <1>0
<1>2. 1 \in 1..q
  BY <1>0, <1>1
<1>3. f \in Nat
  <2>1. que[1] \in Fragment
    BY <1>0, <1>2, ElementOfSeq
  <2> QED
    BY <2>1 DEF Fragment
<1>4. f + 1 =< q
  <2>1. f = 0 \/ q >= f + 1
    BY DEF Peekable
  <2> HIDE DEF f, q
  <2> QED
    BY <2>1, <1>0, <1>1, <1>3
<1>5. from + 1 \in 1..Len(strm)
  BY <1>0, <1>1, <1>2, OffsetIn
<1>6. que[1] = strm[from + 1]
  BY <1>0, <1>1, <1>2
<1>7. f \in 0..f
  BY <1>3
<1>8. \A j \in 0..f : strm[(from + 1) + j].frg = f - j
  <2>1. StreamInv(Peer(e))
    BY <1>0, <1>1 DEF IInv
  <2> QED
    BY <2>1, <1>5, <1>6 DEF StreamInv
<1>9. strm[(from + 1) + f].frg = 0
  <2>1. strm[(from + 1) + f].frg = f - f
    BY <1>7, <1>8
  <2> HIDE DEF f
  <2> QED
    BY <2>1, <1>3
<1>10. f + 1 \in 1..q /\ (from + 1) + f = from + (f + 1)
  <2> HIDE DEF f, q, from
  <2> QED
    BY <1>0, <1>1, <1>3, <1>4
<1>11. que[f + 1].frg = 0
  BY <1>0, <1>1, <1>9, <1>10
<1>12. CASE k = f + 1
  BY <1>11, <1>12
<1>13. CASE k < f + 1
  <2>1. k # q
    <3> HIDE DEF f, q
    <3> QED
      BY <1>13, <1>0, <1>1, <1>3, <1>4
  <2> QED
    BY <2>1
<1>14. CASE k > f + 1
  <2>1. f + 1 \in 1..(k - 1)
    <3> HIDE DEF f, q
    <3> QED
      BY <1>14, <1>0, <1>1, <1>3
  <2> QED
    BY <2>1, <1>11
<1>15. k = f + 1 \/ k < f + 1 \/ k > f + 1
  <2> HIDE DEF f
  <2> QED
    BY <1>0, <1>1, <1>3
<1> QED
  BY <1>12, <1>13, <1>14, <1>15

(* The front of rcv_queue is the stretch of the stream after `delivered'.  *)
LEMMA FrontInStream ==
  ASSUME IInv, NEW e \in Endpoints, NEW k \in 1..Len(rcv_queue[e])
  PROVE  SubSeq(rcv_queue[e], 1, k)
           = SubSeq(sent[Peer(e)], Len(delivered[e]) + 1, Len(delivered[e]) + k)
<1> DEFINE que  == rcv_queue[e]
           strm == sent[Peer(e)]
           from == Len(delivered[e])
           l    == SubSeq(que, 1, k)
           r    == SubSeq(strm, from + 1, from + k)
<1>0. /\ Len(que) \in Nat /\ from \in Nat
      /\ que \in Seq(Fragment) /\ strm \in Seq(Fragment) /\ Len(strm) \in Nat
      /\ from + Len(que) =< Len(strm)
      /\ \A i \in 1..Len(que) : que[i] = strm[from + i]
  BY QueueInStream, Zenon
<1>1. k \in Nat /\ 1 =< k /\ k =< Len(que)
  BY <1>0
<1>2. from + k =< Len(strm)
  <2> HIDE DEF from, que, strm
  <2> QED
    BY <1>0, <1>1
<1>3. l \in Seq(Fragment) /\ Len(l) = k /\ \A i \in 1..k : l[i] = que[i]
  <2>1. \A i \in 1..k : que[i] \in Fragment
    BY <1>0, <1>1, ElementOfSeq
  <2> QED
    BY <2>1, <1>0, <1>1, SubSeqProperties
<1>4. /\ r \in Seq(Fragment) /\ Len(r) = k
      /\ \A i \in 1..k : r[i] = strm[from + i]
  <2>1. \A i \in (from + 1)..(from + k) : strm[i] \in Fragment
    <3>1. \A i \in (from + 1)..(from + k) : i \in 1..Len(strm)
      <4> HIDE DEF from, strm
      <4> QED
        BY <1>0, <1>1, <1>2
    <3> QED
      BY <3>1, <1>0, <1>1, ElementOfSeq
  <2>2. /\ r \in Seq(Fragment)
        /\ Len(r) = IF from + 1 =< from + k THEN (from + k) - (from + 1) + 1 ELSE 0
        /\ \A i \in 1..((from + k) - (from + 1) + 1) : r[i] = strm[(from + 1) + i - 1]
    BY <2>1, <1>0, <1>1, SubSeqProperties
  <2>3. from + 1 =< from + k /\ (from + k) - (from + 1) + 1 = k
    <3> HIDE DEF from
    <3> QED
      BY <1>0, <1>1
  <2>4. \A i \in 1..k : (from + 1) + i - 1 = from + i
    <3> HIDE DEF from
    <3> QED
      BY <1>0, <1>1
  <2> HIDE DEF r, from, strm
  <2> QED
    BY <2>2, <2>3, <2>4
<1>5. \A i \in 1..k : l[i] = r[i]
  <2>1. ASSUME NEW i \in 1..k PROVE l[i] = r[i]
    <3>1. i \in 1..Len(que)
      BY <1>0, <1>1
    <3> QED
      BY <3>1, <1>0, <1>1, <1>3, <1>4
  <2> QED
    BY <2>1
<1> HIDE DEF l, r
<1>6. l = r
  BY <1>3, <1>4, <1>5, SeqEqual
<1> QED
  BY <1>6 DEF l, r

(* ikcp_recv hands out exactly the next message of the peer's stream.      *)
LEMMA RecvRefines ==
  ASSUME IInv, NEW e \in Endpoints, ikcp_recv(e)
  PROVE  Pipe!PipeDeliver(e)
<1> DEFINE que  == rcv_queue[e]
           strm == sent[Peer(e)]
           from == Len(delivered[e])
<1>1. PICK k \in 1..Len(que) :
        /\ que[k].frg = 0 \/ k = Len(que)
        /\ \A i \in 1..(k - 1) : que[i].frg # 0
        /\ delivered' = [delivered EXCEPT ![e] = @ \o SubSeq(que, 1, k)]
  BY DEF ikcp_recv
<1>2. Peekable(que) /\ UNCHANGED sent
  BY DEF ikcp_recv
<1>3. que[k].frg = 0
  BY <1>1, <1>2, MessageEnds
<1>0. /\ Len(que) \in Nat /\ from \in Nat
      /\ Len(strm) \in Nat /\ from + Len(que) =< Len(strm)
      /\ \A i \in 1..Len(que) : que[i] = strm[from + i]
  BY QueueInStream, Zenon
<1>4. k \in Nat /\ 1 =< k /\ k =< Len(que)
  BY <1>0
<1>5. from + k \in (from + 1)..Len(strm)
  <2> HIDE DEF from, que, strm
  <2> QED
    BY <1>0, <1>4
<1>6. strm[from + k].frg = 0
  BY <1>3, <1>0, <1>4
<1>7. ASSUME NEW i \in (from + 1)..(from + k - 1) PROVE strm[i].frg # 0
  <2>1. i - from \in 1..(k - 1) /\ i - from \in 1..Len(que) /\ from + (i - from) = i
    <3> HIDE DEF from, que, strm
    <3> QED
      BY <1>0, <1>4
  <2> QED
    BY <2>1, <1>1, <1>0, <1>4
<1>8. delivered' = [delivered EXCEPT ![e] = @ \o SubSeq(strm, from + 1, from + k)]
  <2>1. SubSeq(que, 1, k) = SubSeq(strm, from + 1, from + k)
    BY FrontInStream
  <2> QED
    BY <2>1, <1>1, Zenon
<1>9. Pipe!Peer(e) = Peer(e)
  BY DEF Pipe!Peer, Peer
<1> DEFINE Delivers(to) ==
             /\ strm[to].frg = 0
             /\ \A i \in (from + 1)..(to - 1) : strm[i].frg # 0
             /\ delivered' = [delivered EXCEPT ![e] = @ \o SubSeq(strm, from + 1, to)]
<1>10. Delivers(from + k)
  BY <1>6, <1>7, <1>8
<1>11. \E to \in (from + 1)..Len(strm) : Delivers(to)
  <2> HIDE DEF Delivers
  <2> QED
    BY <1>5, <1>10, Zenon
<1> QED
  BY <1>2, <1>9, <1>11, Zenon DEF Pipe!PipeDeliver

(* Whatever UDP loses, repeats or reorders, ikcp_send and ikcp_recv are    *)
(* the ends of a pipe of whole messages.                                   *)
THEOREM Refinement == Spec => ImplementsPipe
<1>1. Init => Pipe!PipeInit
  BY DEF Init, Pipe!PipeInit
<1>2. IInv /\ [Next]_vars => [Pipe!PipeNext]_Pipe!pipeVars
  <2> SUFFICES ASSUME IInv, [Next]_vars PROVE [Pipe!PipeNext]_Pipe!pipeVars
    OBVIOUS
  <2>1. ASSUME NEW e \in Endpoints, ikcp_send(e) \/ ikcp_recv(e)
        PROVE  Pipe!PipeNext
    BY <2>1, SendRefines, RecvRefines DEF Pipe!PipeNext
  <2>2. ASSUME NEW e \in Endpoints, Flush(e) PROVE UNCHANGED Pipe!pipeVars
    BY <2>2 DEF Flush, ikcp_flush, Pipe!pipeVars
  <2>3. ASSUME NEW e \in Endpoints, NEW d \in net, Receive(e, d)
        PROVE  UNCHANGED Pipe!pipeVars
    BY <2>3 DEF Receive, ikcp_input, Pipe!pipeVars
  <2>4. ASSUME NEW d \in net, Lose(d) PROVE UNCHANGED Pipe!pipeVars
    BY <2>4 DEF Lose, Pipe!pipeVars
  <2>5. CASE UNCHANGED vars
    BY <2>5 DEF vars, Pipe!pipeVars
  <2> QED
    BY <2>1, <2>2, <2>3, <2>4, <2>5 DEF Next
<1> QED
  BY <1>1, <1>2, Invariance, PTL DEF Spec, ImplementsPipe, Pipe!PipeSpec

=============================================================================
