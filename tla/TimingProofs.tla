---------------------------- MODULE TimingProofs ----------------------------
(***************************************************************************)
(* What run kcp_timing checks of the flush times, the sequence numbers,    *)
(* the window probes, the congestion window and the retransmissions, for   *)
(* every value of the constants: a behaviour of TimingSpec is one of each  *)
(* part, whose invariant is proved in the part's own module, for the       *)
(* congestion window and the retransmissions below.                        *)
(***************************************************************************)
EXTENDS MCTiming, ArithmeticLemmas, Sequences, FiniteSetTheorems

(* The flush times of a control block are those of KcpTimer.               *)
LEMMA TimerPart == TimingSpec => Timer!Spec
<1>1. TimingInit => Timer!Init
  BY DEF TimingInit
<1>2. [TimingNext]_timing => [Timer!Next]_(Timer!vars)
  BY DEF TimingNext, timing, timerVars, Timer!vars
<1> QED
  BY <1>1, <1>2, PTL DEF TimingSpec, Timer!Spec

(* Its numbers are those of KcpSeq.                                        *)
LEMMA SeqPart == TimingSpec => Wrap!Spec
<1>1. TimingInit => Wrap!Init
  BY DEF TimingInit
<1>2. [TimingNext]_timing => [Wrap!Next]_(Wrap!vars)
  BY DEF TimingNext, timing, seqVars, Wrap!vars, Wrap!sender, Wrap!receiver
<1> QED
  BY <1>1, <1>2, PTL DEF TimingSpec, Wrap!Spec

(* ikcp_check never names a time after the next flush, wherever the tick   *)
(* wraps.                                                                  *)
THEOREM CheckAlwaysInTime ==
  ASSUME Timer!ModulusAssumption, Timer!TimerAssumption
  PROVE  TimingSpec => []CheckInTime
<1>1. Timer!Spec => []Timer!CheckInTime
  BY Timer!CheckInTimeHolds
<1> QED
  BY <1>1, TimerPart, PTL DEF CheckInTime

(* An application that polls ikcp_update, or sleeps as ikcp_check says,    *)
(* flushes once per interval; after its clock was set, the limit of 10 s   *)
(* in ikcp_update bounds the first wait.                                   *)
THEOREM FlushAlwaysOnTime ==
  ASSUME Timer!ModulusAssumption, Timer!TimerAssumption
  PROVE  TimingSpec => []FlushOnTime
<1>1. Timer!Spec => []Timer!FlushOnTime
  BY Timer!FlushOnTimeHolds
<1> QED
  BY <1>1, TimerPart, PTL DEF FlushOnTime

(* ikcp_update does not flood either: flushes are an interval apart, less  *)
(* what the one before was late.                                           *)
THEOREM FlushAlwaysSpaced ==
  ASSUME Timer!ModulusAssumption, Timer!TimerAssumption
  PROVE  TimingSpec => FlushSpaced
<1>1. Timer!Spec => Timer!FlushSpaced
  BY Timer!FlushSpacedHolds
<1> QED
  BY <1>1, TimerPart, PTL DEF FlushSpaced

(* ikcp_parse_data hands the stream on in order, each segment once,        *)
(* wherever the sequence numbers start again.                              *)
THEOREM AlwaysInSequence ==
  ASSUME Wrap!ModulusAssumption, Wrap!SeqAssumption
  PROVE  TimingSpec => []InSequence
<1>1. Wrap!Spec => []Wrap!InSequence
  BY Wrap!InSequenceHolds
<1> QED
  BY <1>1, SeqPart, PTL DEF InSequence

(* ikcp_parse_una and ikcp_parse_ack never drop a segment the receiver     *)
(* does not have, however late the acknowledgement is.                     *)
THEOREM AlwaysHeldUntilReceived ==
  ASSUME Wrap!ModulusAssumption, Wrap!SeqAssumption
  PROVE  TimingSpec => []HeldUntilReceived
<1>1. Wrap!Spec => []Wrap!HeldUntilReceived
  BY Wrap!HeldUntilReceivedHolds
<1> QED
  BY <1>1, SeqPart, PTL DEF HeldUntilReceived

-----------------------------------------------------------------------------
(* The congestion window.  Its invariant is proved here, over the          *)
(* variables of the run.                                                   *)

(* ikcp_create.                                                            *)
LEMMA CwndInit ==
  ASSUME Cwnd!CwndAssumption, Cwnd!Init
  PROVE  Cwnd!CwndInv
BY DEF Cwnd!CwndAssumption, Cwnd!Init, Cwnd!CwndInv, Cwnd!IncrMatches

(* The growth in ikcp_input.                                               *)
LEMMA GrowKeeps ==
  ASSUME Cwnd!CwndAssumption, Cwnd!CwndInv, NEW peer \in Nat, Cwnd!Grow(peer)
  PROVE  cwnd' \in Nat /\ incr' \in Nat /\ Cwnd!IncrMatches'
<1> DEFINE slow == cwnd < ssthresh
           i == IF slow THEN incr + mss ELSE Cwnd!Raised
           c == IF slow \/ (cwnd + 1) * mss =< i THEN cwnd + 1 ELSE cwnd
<1>1. /\ mss \in Nat /\ mss >= 1 /\ cwnd \in Nat /\ incr \in Nat
      /\ cwnd * mss =< incr /\ incr < (cwnd + 2) * mss
  BY DEF Cwnd!CwndAssumption, Cwnd!CwndInv, Cwnd!IncrMatches
<1>2. /\ cwnd * mss \in Nat /\ (cwnd + 1) * mss = cwnd * mss + mss
      /\ (cwnd + 2) * mss = cwnd * mss + 2 * mss /\ (cwnd + 3) * mss = cwnd * mss + 3 * mss
  BY <1>1, Products
<1>3. i \in Nat /\ c \in Nat /\ c * mss =< i /\ i < (c + 2) * mss
  <2>1. CASE slow
    <3>1. i = incr + mss /\ c = cwnd + 1 /\ (c + 2) = cwnd + 3
      BY <1>1, <2>1
    <3> HIDE DEF i, c
    <3>2. c * mss = cwnd * mss + mss /\ (c + 2) * mss = cwnd * mss + 3 * mss
      BY <1>2, <3>1
    <3>3. i \in Nat /\ c \in Nat
      BY <1>1, <3>1
    <3> QED
      BY <1>1, <1>2, <3>1, <3>2, <3>3
  <2>2. CASE ~slow
    <3> DEFINE j == Cwnd!Max2(incr, mss)
    <3>1. j \in Nat /\ j >= mss /\ j >= incr /\ (j = incr \/ j = mss)
      BY <1>1 DEF Cwnd!Max2
    <3>2. i = j + (mss * mss) \div j + mss \div 16
      BY <2>2 DEF Cwnd!Raised
    <3> HIDE DEF j, i
    <3>3. /\ i \in Nat /\ i >= j /\ i < j + 2 * mss
          /\ j >= 2 * mss => i < j + mss
          /\ j < 2 * mss => i < 3 * mss
      BY <1>1, <3>1, <3>2, RaisedBounds
    <3>4. CASE (cwnd + 1) * mss =< i
      <4>1. c = cwnd + 1 /\ c + 2 = cwnd + 3
        BY <1>1, <3>4
      <4>2. i < cwnd * mss + 3 * mss
        <5>1. CASE j < 2 * mss
          BY <1>1, <1>2, <3>3, <5>1
        <5>2. CASE j >= 2 * mss
          <6>1. j = incr
            BY <1>1, <3>1, <5>2
          <6> QED
            BY <1>1, <1>2, <3>3, <5>2, <6>1
        <5> QED
          BY <1>1, <3>1, <5>1, <5>2
      <4> QED
        BY <1>1, <1>2, <3>3, <3>4, <4>1, <4>2
    <3>5. CASE ~((cwnd + 1) * mss =< i)
      <4>1. c = cwnd
        BY <2>2, <3>5
      <4> QED
        BY <1>1, <1>2, <3>1, <3>3, <3>5, <4>1
    <3> QED
      BY <3>4, <3>5
  <2> QED
    BY <2>1, <2>2
<1>4. IF c > peer THEN cwnd' = peer /\ incr' = peer * mss ELSE cwnd' = c /\ incr' = i
  BY DEF Cwnd!Grow
<1> HIDE DEF c, i
<1>5. CASE c > peer
  <2>1. peer * mss \in Nat /\ (peer + 2) * mss = peer * mss + 2 * mss
    BY <1>1, Products
  <2> QED
    BY <1>1, <1>4, <1>5, <2>1 DEF Cwnd!IncrMatches
<1>6. CASE ~(c > peer)
  BY <1>3, <1>4, <1>6 DEF Cwnd!IncrMatches
<1> QED
  BY <1>5, <1>6

(* The collapse and the fast recovery in ikcp_flush.                       *)
LEMMA CwndFlushKeeps ==
  ASSUME Cwnd!CwndAssumption, Cwnd!CwndInv, Cwnd!ikcp_flush
  PROVE  Cwnd!CwndInv'
<1>1. /\ mss \in Nat /\ mss >= 1 /\ cwnd \in Nat /\ incr \in Nat /\ snd_wnd \in Nat
      /\ resent \in Nat /\ IKCP_THRESH_MIN \in Nat /\ ssthresh \in Nat
      /\ rmt_wnd \in Nat /\ inflight \in Nat
  BY DEF Cwnd!CwndAssumption, Cwnd!CwndInv
<1>2. Cwnd!Usable \in Nat /\ Cwnd!Filled \in Nat
  BY <1>1 DEF Cwnd!Usable, Cwnd!Filled, Cwnd!Min2, Cwnd!Max2
<1>3. PICK timeout \in BOOLEAN, change \in BOOLEAN :
        LET w == IF change /\ ~timeout THEN Cwnd!FastRecovery ELSE Cwnd!Collapse(timeout)
        IN cwnd' = w.c /\ incr' = w.i /\ ssthresh' = w.s
  BY DEF Cwnd!ikcp_flush
<1>4. inflight' \in Nat /\ rmt_wnd' \in Nat
  BY <1>1, <1>2 DEF Cwnd!ikcp_flush
<1>5. CASE change /\ ~timeout
  <2> DEFINE s == Cwnd!Max2(Cwnd!Filled \div 2, IKCP_THRESH_MIN)
  <2>1. s \in Nat
    BY <1>1, <1>2 DEF Cwnd!Max2
  <2>2. cwnd' = s + resent /\ incr' = (s + resent) * mss /\ ssthresh' = s
    BY <1>3, <1>5 DEF Cwnd!FastRecovery
  <2> HIDE DEF s
  <2>3. s + resent \in Nat
    BY <1>1, <2>1
  <2>4. (s + resent) * mss \in Nat /\ ((s + resent) + 2) * mss = (s + resent) * mss + 2 * mss
    BY <1>1, <2>3, Products
  <2> QED
    BY <1>1, <1>4, <2>1, <2>2, <2>3, <2>4 DEF Cwnd!CwndInv, Cwnd!IncrMatches
<1>6. CASE ~(change /\ ~timeout)
  <2>1. /\ cwnd' = Cwnd!Collapse(timeout).c /\ incr' = Cwnd!Collapse(timeout).i /\ ssthresh' = Cwnd!Collapse(timeout).s
    BY <1>3, <1>6
  <2>2. ssthresh' \in Nat
    BY <1>1, <1>2, <2>1 DEF Cwnd!Collapse, Cwnd!Max2
  <2>3. \/ cwnd' = 1 /\ incr' = mss
        \/ cwnd' = cwnd /\ incr' = incr
    BY <1>1, <2>1 DEF Cwnd!Collapse, Cwnd!Max2
  <2> QED
    BY <1>1, <1>4, <2>2, <2>3 DEF Cwnd!CwndInv, Cwnd!IncrMatches
<1> QED
  BY <1>5, <1>6

(* Every flush and every datagram keep the invariant.                      *)
LEMMA CwndNext ==
  ASSUME Cwnd!CwndAssumption, Cwnd!CwndInv, [Cwnd!Next]_(Cwnd!vars)
  PROVE  Cwnd!CwndInv'
<1>1. CASE Cwnd!ikcp_input
  <2>1. PICK acked \in 0..inflight, peer \in RmtWnds, whole \in BOOLEAN :
          /\ rmt_wnd' = peer
          /\ inflight' = inflight - acked
          /\ IF whole /\ acked > 0 /\ cwnd < peer THEN Cwnd!Grow(peer) ELSE UNCHANGED <<cwnd, incr>>
    BY <1>1 DEF Cwnd!ikcp_input
  <2>2. rmt_wnd' \in Nat /\ inflight' \in Nat /\ ssthresh' \in Nat /\ peer \in Nat
    BY <1>1, <2>1 DEF Cwnd!ikcp_input, Cwnd!CwndInv, Cwnd!CwndAssumption
  <2>3. cwnd' \in Nat /\ incr' \in Nat /\ Cwnd!IncrMatches'
    BY <2>1, <2>2, GrowKeeps DEF Cwnd!CwndInv, Cwnd!IncrMatches
  <2> QED
    BY <2>2, <2>3 DEF Cwnd!CwndInv
<1>2. CASE Cwnd!ikcp_flush
  BY <1>2, CwndFlushKeeps
<1>3. CASE Cwnd!Calm
  BY <1>3 DEF Cwnd!Calm, Cwnd!CwndInv, Cwnd!IncrMatches
<1>4. CASE UNCHANGED Cwnd!vars
  BY <1>4 DEF Cwnd!vars, Cwnd!CwndInv, Cwnd!IncrMatches
<1> QED
  BY <1>1, <1>2, <1>3, <1>4 DEF Cwnd!Next

(* The congestion window in bytes and in segments stay together through    *)
(* ikcp_input's growth and ikcp_flush's collapse.                          *)
THEOREM IncrAlwaysMatches ==
  ASSUME Cwnd!CwndAssumption
  PROVE  TimingSpec => []IncrMatches
<1>1. TimingInit => Cwnd!CwndInv
  BY CwndInit DEF TimingInit
<1>2. [TimingNext]_timing => [Cwnd!Next]_(Cwnd!vars)
  BY DEF TimingNext, timing, cwndVars, Cwnd!vars
<1>3. Cwnd!CwndInv /\ [TimingNext]_timing => Cwnd!CwndInv'
  BY <1>2, CwndNext
<1>4. Cwnd!CwndInv => IncrMatches
  BY DEF Cwnd!CwndInv, IncrMatches
<1> QED
  BY <1>1, <1>3, <1>4, PTL DEF TimingSpec

(* Once the receiver of a full window has room, its sender knows after a   *)
(* flush and one way of the path, and for each WASK or WINS that was lost  *)
(* at most one longest wait between probes, two flushes and a round trip   *)
(* later: ikcp_flush's back-off never leaves the sender shut for good.     *)
THEOREM ReopensAlwaysInTime ==
  ASSUME Probe!ProbeAssumption
  PROVE  TimingSpec => []ReopensInTime
<1>1. TimingInit => Probe!ProbeInv
  BY Probe!ProbeInit DEF TimingInit
<1>2. [TimingNext]_timing => [Probe!Next]_(Probe!vars)
  BY DEF TimingNext, timing, probeVars, Probe!vars, Probe!sender, Probe!receiver
<1>3. Probe!ProbeInv /\ [TimingNext]_timing => Probe!ProbeInv'
  BY <1>2, Probe!ProbeNext
<1>4. Probe!ProbeInv => ReopensInTime
  BY DEF Probe!ProbeInv, ReopensInTime
<1> QED
  BY <1>1, <1>3, <1>4, PTL DEF TimingSpec

-----------------------------------------------------------------------------
(* Retransmissions.  The invariant follows every copy of a segment: the    *)
(* k-th is sent in time, and while it is on the way the timer still runs,  *)
(* so a timer runs out only when all copies are lost.                      *)

(* How much a timeout adds to the rto, at most, and the longest rto, timer *)
(* and time of the k-th copy of a segment.                                 *)
Grows == IF nodelay = 0 THEN Resend!LongestRto ELSE Resend!LongestRto \div 2

RtoOf(k) == Resend!LongestRto + (k - 1) * Grows

TimerOf(k) ==
  RtoOf(k) + (IF k = 1 /\ nodelay = 0 THEN Resend!LongestRto \div 8 ELSE 0)

LatestSend(k) == Resend!Patience(k - 1) - Resend!RoundTrip

(* The copies on the way: as data, noted by the peer, as acknowledgements. *)
Items(path) == {path[i] : i \in DOMAIN path}

OnTheWay == Items(fwd) \cup Items(acklist) \cup Items(back)

Missing(sn) == {k \in 1..snd_buf[sn].xmit : \A m \in OnTheWay : m.sn = sn => m.ts # k}

Datum == [sn : Nat, ts : Nat, age : 0..Delay]

Note == [sn : Nat, ts : Nat]

Ack == [sn : Nat, ts : Nat, una : Nat, age : 0..Delay]

(* Types, and that numbers on the way have been given out.                 *)
ResendTypes ==
  /\ queued \in Nat /\ snd_nxt \in Nat /\ snd_una \in Int /\ rto \in Rtos
  /\ snd_nxt + queued =< Count /\ rcvd \subseteq 0..(snd_nxt - 1)
  /\ state \in Int /\ idle \in 0..Period /\ kept \in 0..Period /\ lost \in Nat
  /\ DOMAIN snd_buf \subseteq 0..(snd_nxt - 1)
  /\ snd_buf \in [DOMAIN snd_buf -> Resend!SegTimer]
  /\ waited \in [DOMAIN snd_buf -> Nat]
  /\ skips \in [DOMAIN snd_buf -> Nat]
  /\ fwd \in Seq(Datum) /\ acklist \in Seq(Note) /\ back \in Seq(Ack)
  /\ \A m \in OnTheWay : m.sn < snd_nxt

(* The timer of a segment and how long it has been under way.              *)
TimerInv(sn) ==
  LET s == snd_buf[sn]
  IN /\ s.xmit >= 1
     /\ Resend!RoundTrip < s.rto /\ s.rto =< RtoOf(s.xmit)
     /\ s.due >= -idle
     /\ waited[sn] + s.due =< LatestSend(s.xmit) + TimerOf(s.xmit)

(* A copy that was sent in time and is on its way for `ticks', at most:    *)
(* the timer runs longer than the round trip.                              *)
CopyInv(m, ticks) ==
  m.sn \in DOMAIN snd_buf =>
    /\ waited[m.sn] - ticks =< LatestSend(m.ts)
    /\ snd_buf[m.sn].due + ticks > Resend!RoundTrip

CopiesInv ==
  /\ \A m \in Items(fwd) : CopyInv(m, m.age)
  /\ \A m \in Items(acklist) : CopyInv(m, Delay + kept)
  /\ \A m \in Items(back) : CopyInv(m, Delay + Period + m.age)

(* Copies are missing because they were lost.                              *)
MissingInv(sn) == Cardinality(Missing(sn)) =< lost

(* What a segment has paid for, with `fastack' left to pay with.           *)
PaidInv(sn) ==
  LET s == snd_buf[sn]
  IN /\ s.fastack =< skips[sn]
     /\ IF fastresend = 0 THEN s.xmit - 1 =< lost
        ELSE (s.xmit - 1 - lost) * fastresend =< skips[sn] - s.fastack

(* Without losses nothing is passed over: what is on the way is in order.  *)
Rising(path) == \A i, j \in DOMAIN path : i < j => path[i].sn =< path[j].sn

Before(S, T) == \A m \in S, n \in T : m.sn =< n.sn

CalmInv ==
  lost = 0 =>
    /\ state = 0
    /\ \A sn \in DOMAIN snd_buf : snd_buf[sn].xmit = 1 /\ skips[sn] = 0
    /\ Rising(back) /\ Rising(acklist) /\ Rising(fwd)
    /\ Before(Items(back), Items(acklist)) /\ Before(Items(back), Items(fwd))
    /\ Before(Items(acklist), Items(fwd))

ResendInv ==
  /\ ResendTypes
  /\ \A sn \in DOMAIN snd_buf : TimerInv(sn) /\ MissingInv(sn) /\ PaidInv(sn)
  /\ CopiesInv
  /\ CalmInv

-----------------------------------------------------------------------------
(* The constants.                                                          *)

(* What the proofs use of the constants.                                   *)
LEMMA ResendConstants ==
  ASSUME Resend!RetransmitAssumption
  PROVE  /\ Count \in Nat /\ fastresend \in Nat /\ Delay \in Nat
         /\ Period \in Nat /\ snd_wnd \in Nat
         /\ nodelay \in {0, 1} /\ IKCP_DEADLINK \in Nat /\ IKCP_DEADLINK > 1
         /\ Resend!RoundTrip \in Nat /\ Resend!RoundTrip = 2 * Delay + Period
         /\ Resend!LongestRto \in Nat /\ Grows \in Nat
         /\ \A r \in Rtos : /\ r \in Nat /\ r > Resend!RoundTrip /\ r =< Resend!LongestRto
                            /\ (IF nodelay = 0 THEN r ELSE r \div 2) \in Nat
                            /\ (IF nodelay = 0 THEN r ELSE r \div 2) =< Grows
                            /\ r \div 8 \in Nat /\ r \div 8 =< Resend!LongestRto \div 8
<1>1. /\ Count \in Nat /\ fastresend \in Nat /\ Delay \in Nat
      /\ Period \in Nat /\ snd_wnd \in Nat
      /\ nodelay \in {0, 1} /\ IKCP_DEADLINK \in Nat /\ IKCP_DEADLINK > 1
  BY DEF Resend!RetransmitAssumption
<1>2. Resend!RoundTrip \in Nat /\ Resend!RoundTrip = 2 * Delay + Period
  BY <1>1 DEF Resend!RoundTrip
<1>3. \A r \in Rtos : r \in Nat /\ r > Resend!RoundTrip
  BY DEF Resend!RetransmitAssumption
<1>4. PICK l \in Rtos : \A r \in Rtos : r =< l
  BY DEF Resend!RetransmitAssumption
<1>5. Resend!LongestRto \in Rtos /\ \A r \in Rtos : r =< Resend!LongestRto
  BY <1>3, <1>4 DEF Resend!LongestRto, Resend!Max
<1>6. Grows \in Nat
  BY <1>1, <1>3, <1>5 DEF Grows
<1>7. ASSUME NEW r \in Rtos
      PROVE  /\ (IF nodelay = 0 THEN r ELSE r \div 2) \in Nat
             /\ (IF nodelay = 0 THEN r ELSE r \div 2) =< Grows
             /\ r \div 8 \in Nat /\ r \div 8 =< Resend!LongestRto \div 8
  BY <1>1, <1>3, <1>5 DEF Grows
<1> QED
  BY <1>1, <1>2, <1>3, <1>5, <1>6, <1>7

(* How the longest timers and the latest times grow from copy to copy.     *)
LEMMA CopyToCopy ==
  ASSUME Resend!RetransmitAssumption, NEW k \in Nat \ {0}
  PROVE  /\ RtoOf(1) = Resend!LongestRto /\ RtoOf(k) \in Nat
         /\ RtoOf(k + 1) = RtoOf(k) + Grows
         /\ TimerOf(k) \in Nat /\ RtoOf(k) =< TimerOf(k)
         /\ nodelay = 0 => TimerOf(1) = RtoOf(1) + Resend!LongestRto \div 8
         /\ LatestSend(1) = 0 /\ LatestSend(k) \in Int
         /\ LatestSend(k + 1) = LatestSend(k) + TimerOf(k) + Period
<1> DEFINE L == Resend!LongestRto
           g == Grows
           n == k - 1
           T(m) == (m * (m - 1)) \div 2
           spare == IF nodelay = 0 THEN L \div 8 ELSE 0
<1>1. L \in Nat /\ g \in Nat /\ n \in Nat /\ Period \in Nat /\ spare \in Nat /\ Resend!RoundTrip \in Nat
      /\ nodelay \in {0, 1} /\ k \in Nat /\ k >= 1 /\ k = n + 1 /\ k - 1 = n
  BY ResendConstants
<1>2. T(n) \in Int /\ T(n + 1) = T(n) + n
  <2>1. (n + 1) * ((n + 1) - 1) = n * (n - 1) + 2 * n /\ n * (n - 1) \in Int
    BY <1>1
  <2> DEFINE a == n * (n - 1)
  <2>2. a \in Int
    BY <2>1
  <2> HIDE DEF a
  <2>3. (a + 2 * n) \div 2 = a \div 2 + n /\ a \div 2 \in Int
    BY <1>1, <2>2
  <2> QED
    BY <2>1, <2>3 DEF a
<1>3. T(0) = 0
  OBVIOUS
<1>4. \A m \in Nat : LatestSend(m + 1) = m * (L + Period) + g * T(m) + (IF m > 0 THEN spare ELSE 0)
  <2> TAKE m \in Nat
  <2>1. (m + 1) - 1 = m
    OBVIOUS
  <2>2. m * (L + Period) \in Int /\ g * T(m) \in Int
    BY <1>1
  <2> DEFINE A == m * (L + Period)
             B == g * T(m)
  <2>3. LatestSend(m + 1) = A + B + (IF m > 0 THEN spare ELSE 0) + Resend!RoundTrip - Resend!RoundTrip
    <3>1. LatestSend(m + 1) = Resend!Patience(m) - Resend!RoundTrip
      BY <2>1, Zenon DEF LatestSend
    <3> QED
      BY <3>1, <1>1 DEF Resend!Patience, Grows
  <2> HIDE DEF A, B, spare
  <2> QED
    BY <2>2, <2>3, <1>1 DEF A, B
<1> DEFINE R(m) == m * g
<1>5. R(n) \in Nat /\ R(n + 1) = R(n) + g
  BY <1>1
<1>6. RtoOf(k) = L + R(n) /\ RtoOf(k + 1) = L + R(n + 1)
  <2>1. k - 1 = n /\ (k + 1) - 1 = n + 1
    BY <1>1
  <2> QED
    BY <2>1 DEF RtoOf
<1>7. TimerOf(k) = RtoOf(k) + (IF n = 0 THEN spare ELSE 0)
  BY <1>1 DEF TimerOf
<1>8. RtoOf(1) = L
  <2>1. (1 - 1) * g = 0
    BY <1>1
  <2> QED
    BY <1>1, <2>1 DEF RtoOf
<1>9. nodelay = 0 => TimerOf(1) = RtoOf(1) + L \div 8
  BY DEF TimerOf
<1> HIDE DEF R, L, spare
<1>10. /\ RtoOf(k) \in Nat /\ RtoOf(k + 1) = RtoOf(k) + g /\ TimerOf(k) \in Nat
       /\ RtoOf(k) =< TimerOf(k)
  BY <1>1, <1>5, <1>6, <1>7
<1>11. LatestSend(1) = 0
  <2>1. LatestSend(0 + 1) = 0 * (L + Period) + g * T(0) + 0
    BY <1>4
  <2> HIDE DEF T
  <2>2. 0 * (L + Period) = 0 /\ g * 0 = 0
    BY <1>1
  <2> QED
    BY <2>1, <2>2, <1>3
<1>12. LatestSend(k) \in Int /\ LatestSend(k + 1) = LatestSend(k) + TimerOf(k) + Period
  <2> DEFINE A == n * (L + Period)
             B == g * T(n)
  <2>1. LatestSend(k) = A + B + (IF n > 0 THEN spare ELSE 0)
    BY <1>1, <1>4
  <2>2. LatestSend(k + 1) = (n + 1) * (L + Period) + g * T(n + 1) + spare
    <3>1. n + 1 \in Nat /\ n + 1 > 0
      BY <1>1
    <3> HIDE DEF T, n
    <3> QED
      BY <1>1, <1>4, <3>1
  <2> HIDE DEF T, n
  <2>3. A \in Int /\ B \in Int /\ (n + 1) * (L + Period) = A + L + Period
    BY <1>1, <1>2
  <2>4. g * T(n + 1) = B + R(n)
    BY <1>1, <1>2 DEF R
  <2> HIDE DEF A, B
  <2> QED
    BY <1>1, <1>5, <1>6, <1>7, <2>1, <2>2, <2>3, <2>4
<1> QED
  BY <1>8, <1>9, <1>10, <1>11, <1>12 DEF L

(* A later copy may be later.                                              *)
LEMMA LaterCopies ==
  ASSUME Resend!RetransmitAssumption
  PROVE  \A k \in Nat : \A j \in 1..(k + 1) : LatestSend(j) =< LatestSend(k + 1)
<1> DEFINE G == {k \in Nat : \A j \in 1..(k + 1) : LatestSend(j) =< LatestSend(k + 1)}
<1>1. \A k \in Nat \ {0} : /\ LatestSend(k) \in Int /\ LatestSend(k + 1) \in Int
                           /\ LatestSend(k) =< LatestSend(k + 1)
  <2> TAKE k \in Nat \ {0}
  <2>1. LatestSend(k) \in Int /\ TimerOf(k) \in Nat /\ Period \in Nat
        /\ LatestSend(k + 1) = LatestSend(k) + TimerOf(k) + Period
    BY CopyToCopy, ResendConstants
  <2> QED
    BY <2>1
<1>2. 0 \in G
  <2>1. \A j \in 1..(0 + 1) : j = 1
    OBVIOUS
  <2> QED
    BY <2>1, <1>1
<1>3. \A k \in Nat : k \in G => k + 1 \in G
  <2> TAKE k \in Nat
  <2> HAVE k \in G
  <2> SUFFICES ASSUME NEW j \in 1..(k + 1 + 1) PROVE LatestSend(j) =< LatestSend(k + 1 + 1)
    OBVIOUS
  <2>1. k + 1 \in Nat \ {0} /\ k + 1 + 1 \in Nat \ {0} /\ j \in Nat \ {0}
    OBVIOUS
  <2>2. /\ LatestSend(k + 1) =< LatestSend(k + 1 + 1) /\ LatestSend(k + 1) \in Int
        /\ LatestSend(k + 1 + 1) \in Int /\ LatestSend(j) \in Int
    BY <1>1, <2>1
  <2>3. CASE j = k + 1 + 1
    BY <2>2, <2>3
  <2>4. CASE j # k + 1 + 1
    <3>1. j \in 1..(k + 1)
      BY <2>4
    <3>2. LatestSend(j) =< LatestSend(k + 1)
      BY <3>1
    <3> QED
      BY <2>2, <3>2
  <2> QED
    BY <2>3, <2>4
<1> HIDE DEF G
<1>4. Nat \subseteq G
  BY <1>2, <1>3, SetInduction
<1> QED
  BY <1>4 DEF G

(* The time that losses cost is a number.                                  *)
LEMMA PatienceType ==
  ASSUME Resend!RetransmitAssumption, NEW n \in Int
  PROVE  Resend!Patience(n) \in Int
<1>1. /\ Resend!LongestRto \in Nat /\ Grows \in Nat /\ Period \in Nat /\ Resend!RoundTrip \in Nat
      /\ Resend!LongestRto \div 8 \in Nat
  BY ResendConstants
<1> DEFINE A == n * (Resend!LongestRto + Period)
           T == (n * (n - 1)) \div 2
           B == Grows * T
           C == IF nodelay = 0 THEN Resend!LongestRto \div 8 ELSE 0
<1>2. A \in Int /\ T \in Int /\ C \in Int
  BY <1>1
<1>3. B \in Int
  <2> HIDE DEF T
  <2> QED
    BY <1>1, <1>2
<1>4. Resend!Patience(n) = A + B + (IF n > 0 THEN C ELSE 0) + Resend!RoundTrip
  BY DEF Resend!Patience, Grows
<1> HIDE DEF A, B, C
<1> QED
  BY <1>1, <1>2, <1>3, <1>4

(* ... and so is the latest time of a copy.                                *)
LEMMA LatestSendType ==
  ASSUME Resend!RetransmitAssumption, NEW k \in Nat
  PROVE  LatestSend(k) \in Int
<1>1. Resend!RoundTrip \in Int /\ k - 1 \in Int
  BY ResendConstants
<1>2. Resend!Patience(k - 1) \in Int
  BY <1>1, PatienceType
<1> QED
  BY <1>1, <1>2 DEF LatestSend

-----------------------------------------------------------------------------
(* Sequences as the sets of their elements.                                *)

(* An element is appended.                                                 *)
LEMMA ItemsAppend ==
  ASSUME NEW X, NEW s \in Seq(X), NEW e \in X
  PROVE  Append(s, e) \in Seq(X) /\ Items(Append(s, e)) = Items(s) \cup {e}
<1>1. PICK n \in Nat : n = Len(s) /\ DOMAIN s = 1..n
  OBVIOUS
<1>2. /\ Append(s, e) \in Seq(X) /\ DOMAIN Append(s, e) = 1..(n + 1)
      /\ \A i \in 1..n : Append(s, e)[i] = s[i]
      /\ Append(s, e)[n + 1] = e
  BY <1>1
<1> DEFINE t == Append(s, e)
<1> HIDE DEF t
<1>3. \A x \in Items(t) : x \in Items(s) \cup {e}
  <2> TAKE x \in Items(t)
  <2>1. PICK i \in 1..(n + 1) : x = t[i]
    BY <1>2 DEF Items, t
  <2> QED
    BY <1>1, <1>2, <2>1 DEF Items, t
<1>4. \A x \in Items(s) \cup {e} : x \in Items(t)
  <2>1. \A i \in 1..n : t[i] \in Items(t) /\ i \in 1..(n + 1)
    BY <1>2 DEF Items, t
  <2>2. e \in Items(t)
    BY <1>2 DEF Items, t
  <2> QED
    BY <1>1, <1>2, <2>1, <2>2 DEF Items, t
<1> QED
  BY <1>2, <1>3, <1>4 DEF t

(* Two sequences, one after the other.                                     *)
LEMMA ItemsConcat ==
  ASSUME NEW X, NEW s \in Seq(X), NEW t \in Seq(X)
  PROVE  s \o t \in Seq(X) /\ Items(s \o t) = Items(s) \cup Items(t)
<1>1. PICK n \in Nat : n = Len(s) /\ DOMAIN s = 1..n
  OBVIOUS
<1>2. PICK m \in Nat : m = Len(t) /\ DOMAIN t = 1..m
  OBVIOUS
<1> DEFINE u == s \o t
<1>3. /\ u \in Seq(X) /\ DOMAIN u = 1..(n + m)
      /\ \A i \in 1..n : u[i] = s[i]
      /\ \A i \in 1..m : u[n + i] = t[i]
  BY <1>1, <1>2
<1> HIDE DEF u
<1>4. \A x \in Items(u) : x \in Items(s) \cup Items(t)
  <2> TAKE x \in Items(u)
  <2>1. PICK i \in 1..(n + m) : x = u[i]
    BY <1>3 DEF Items
  <2>2. CASE i =< n
    <3>1. i \in 1..n
      BY <2>2
    <3>2. x = s[i]
      BY <1>3, <2>1, <3>1
    <3> QED
      BY <1>1, <3>1, <3>2 DEF Items
  <2>3. CASE i > n
    <3>1. i - n \in 1..m /\ n + (i - n) = i
      BY <2>3
    <3>2. u[n + (i - n)] = t[i - n]
      BY <1>3, <3>1
    <3> QED
      BY <1>2, <2>1, <3>1, <3>2 DEF Items
  <2> QED
    BY <2>2, <2>3
<1>5. \A i \in 1..n : s[i] \in Items(u)
  <2> TAKE i \in 1..n
  <2>1. i \in 1..(n + m)
    OBVIOUS
  <2> QED
    BY <1>3, <2>1 DEF Items
<1>6. \A i \in 1..m : t[i] \in Items(u)
  <2> TAKE i \in 1..m
  <2>1. n + i \in 1..(n + m)
    OBVIOUS
  <2> QED
    BY <1>3, <2>1 DEF Items
<1>7. \A x \in Items(s) \cup Items(t) : x \in Items(u)
  BY <1>1, <1>2, <1>5, <1>6 DEF Items
<1> QED
  BY <1>3, <1>4, <1>7 DEF u

(* The first element is taken off.                                         *)
LEMMA ItemsTail ==
  ASSUME NEW X, NEW s \in Seq(X), s # << >>
  PROVE  /\ Head(s) \in X /\ Tail(s) \in Seq(X)
         /\ Items(s) = {Head(s)} \cup Items(Tail(s))
<1>1. PICK n \in Nat : n = Len(s) /\ DOMAIN s = 1..n /\ n >= 1
  OBVIOUS
<1> DEFINE t == Tail(s)
<1>2. /\ t \in Seq(X) /\ DOMAIN t = 1..(n - 1)
      /\ \A i \in 1..(n - 1) : t[i] = s[i + 1]
      /\ Head(s) = s[1] /\ s[1] \in X
  BY <1>1
<1> HIDE DEF t
<1>3. \A i \in 1..n : s[i] \in {s[1]} \cup Items(t)
  <2> TAKE i \in 1..n
  <2>1. CASE i = 1
    BY <2>1
  <2>2. CASE i # 1
    <3>1. i - 1 \in 1..(n - 1) /\ (i - 1) + 1 = i
      BY <2>2
    <3>2. t[i - 1] = s[i]
      BY <1>2, <3>1
    <3> QED
      BY <1>2, <3>1, <3>2 DEF Items
  <2> QED
    BY <2>1, <2>2
<1>4. \A i \in 1..(n - 1) : t[i] \in Items(s)
  <2> TAKE i \in 1..(n - 1)
  <2>1. i + 1 \in 1..n
    BY <1>1
  <2> QED
    BY <1>1, <1>2, <2>1 DEF Items
<1>5. s[1] \in Items(s)
  BY <1>1 DEF Items
<1> QED
  BY <1>1, <1>2, <1>3, <1>4, <1>5 DEF Items, t

(* An element is lost.                                                     *)
LEMMA ItemsRemove ==
  ASSUME NEW X, NEW s \in Seq(X), NEW i \in DOMAIN s
  PROVE  /\ s[i] \in X /\ Resend!RemoveAt(s, i) \in Seq(X)
         /\ Items(s) = {s[i]} \cup Items(Resend!RemoveAt(s, i))
<1>1. PICK n \in Nat : n = Len(s) /\ DOMAIN s = 1..n /\ i \in 1..n
  OBVIOUS
<1> DEFINE t == Resend!RemoveAt(s, i)
<1>2. /\ t \in Seq(X) /\ DOMAIN t = 1..(n - 1)
      /\ \A j \in 1..(i - 1) : t[j] = s[j]
      /\ \A j \in i..(n - 1) : t[j] = s[j + 1]
      /\ s[i] \in X
  <2> DEFINE a == SubSeq(s, 1, i - 1)
             b == SubSeq(s, i + 1, n)
  <2>1. /\ a \in Seq(X) /\ DOMAIN a = 1..(i - 1) /\ Len(a) = i - 1
        /\ \A j \in 1..(i - 1) : a[j] = s[j]
    BY <1>1
  <2>2. /\ b \in Seq(X) /\ DOMAIN b = 1..(n - i) /\ Len(b) = n - i
        /\ \A j \in 1..(n - i) : b[j] = s[i + j]
    BY <1>1, SMTT(30)
  <2>3. t = a \o b
    BY <1>1 DEF Resend!RemoveAt
  <2> HIDE DEF a, b, t
  <2>4. t \in Seq(X) /\ DOMAIN t = 1..(n - 1)
    BY <1>1, <2>1, <2>2, <2>3
  <2>5. \A j \in 1..(i - 1) : t[j] = s[j]
    BY <1>1, <2>1, <2>2, <2>3
  <2>6. \A j \in i..(n - 1) : t[j] = s[j + 1]
    <3> TAKE j \in i..(n - 1)
    <3>1. j - (i - 1) \in 1..(n - i) /\ i + (j - (i - 1)) = j + 1
      BY <1>1
    <3>2. t[j] = b[j - (i - 1)]
      BY <1>1, <2>1, <2>2, <2>3, <3>1, SMTT(30)
    <3> QED
      BY <2>2, <3>1, <3>2
  <2> QED
    BY <2>4, <2>5, <2>6, <1>1
<1> HIDE DEF t
<1>3. \A j \in 1..n : s[j] \in {s[i]} \cup Items(t)
  <2> TAKE j \in 1..n
  <2>1. CASE j = i
    BY <2>1
  <2>2. CASE j < i
    <3>1. j \in 1..(i - 1) /\ j \in 1..(n - 1)
      BY <1>1, <2>2
    <3> QED
      BY <1>2, <3>1 DEF Items
  <2>3. CASE j > i
    <3>1. j - 1 \in i..(n - 1) /\ j - 1 \in 1..(n - 1) /\ (j - 1) + 1 = j
      BY <1>1, <2>3
    <3>2. t[j - 1] = s[j]
      BY <1>2, <3>1
    <3> QED
      BY <1>2, <3>1, <3>2 DEF Items
  <2> QED
    BY <1>1, <2>1, <2>2, <2>3
<1>4. \A j \in 1..(n - 1) : t[j] \in Items(s)
  <2> TAKE j \in 1..(n - 1)
  <2>1. CASE j < i
    <3>1. j \in 1..(i - 1) /\ j \in 1..n
      BY <1>1, <2>1
    <3> QED
      BY <1>1, <1>2, <3>1 DEF Items
  <2>2. CASE j >= i
    <3>1. j \in i..(n - 1) /\ j + 1 \in 1..n
      BY <1>1, <2>2
    <3> QED
      BY <1>1, <1>2, <3>1 DEF Items
  <2> QED
    BY <1>1, <2>1, <2>2
<1>5. s[i] \in Items(s)
  BY <1>1 DEF Items
<1>6. Items(s) \subseteq {s[i]} \cup Items(t)
  BY <1>1, <1>3 DEF Items
<1>7. {s[i]} \cup Items(t) \subseteq Items(s)
  <2>1. Items(t) = {t[j] : j \in 1..(n - 1)}
    BY <1>2 DEF Items
  <2> QED
    BY <1>4, <1>5, <2>1
<1> QED
  BY <1>2, <1>6, <1>7 DEF t

(* The elements of a sequence have its type, and an empty one has none.    *)
LEMMA ItemsTyped ==
  ASSUME NEW X, NEW s \in Seq(X)
  PROVE  Items(s) \subseteq X
BY DEF Items

(* Order: the first number is the least, and taking it off, adding one     *)
(* that is not smaller, or joining two parts in order keeps the order.     *)
LEMMA RisingTail ==
  ASSUME NEW X, NEW s \in Seq(X), s # << >>, Rising(s)
  PROVE  Rising(Tail(s)) /\ \A m \in Items(Tail(s)) : Head(s).sn =< m.sn
<1>1. PICK n \in Nat : n = Len(s) /\ DOMAIN s = 1..n /\ n >= 1
  OBVIOUS
<1> DEFINE t == Tail(s)
<1>2. /\ DOMAIN t = 1..(n - 1)
      /\ \A i \in 1..(n - 1) : t[i] = s[i + 1] /\ i + 1 \in 1..n
      /\ Head(s) = s[1]
  BY <1>1
<1> HIDE DEF t
<1>3. \A i \in 1..(n - 1) : s[1].sn =< t[i].sn
  <2> TAKE i \in 1..(n - 1)
  <2>1. 1 \in 1..n /\ i + 1 \in 1..n /\ 1 < i + 1
    BY <1>1
  <2> QED
    BY <1>1, <1>2, <2>1 DEF Rising
<1>4. \A i, j \in 1..(n - 1) : i < j => t[i].sn =< t[j].sn
  <2> TAKE i, j \in 1..(n - 1)
  <2>1. i + 1 \in 1..n /\ j + 1 \in 1..n /\ (i < j => i + 1 < j + 1)
    OBVIOUS
  <2> QED
    BY <1>1, <1>2, <2>1 DEF Rising
<1> QED
  BY <1>2, <1>3, <1>4 DEF Rising, Items, t

(* Joining two parts in order.                                             *)
LEMMA RisingConcat ==
  ASSUME NEW X, NEW s \in Seq(X), NEW t \in Seq(X), Rising(s), Rising(t),
         Before(Items(s), Items(t))
  PROVE  Rising(s \o t)
<1>1. PICK n \in Nat : n = Len(s) /\ DOMAIN s = 1..n
  OBVIOUS
<1>2. PICK m \in Nat : m = Len(t) /\ DOMAIN t = 1..m
  OBVIOUS
<1> DEFINE u == s \o t
<1>3. /\ DOMAIN u = 1..(n + m)
      /\ \A i \in 1..n : u[i] = s[i]
      /\ \A i \in 1..m : u[n + i] = t[i]
  BY <1>1, <1>2
<1> HIDE DEF u
<1>4. \A i \in (n + 1)..(n + m) : i - n \in 1..m /\ u[i] = t[i - n]
  <2> TAKE i \in (n + 1)..(n + m)
  <2>1. i - n \in 1..m /\ n + (i - n) = i
    OBVIOUS
  <2>2. u[n + (i - n)] = t[i - n]
    BY <1>3, <2>1
  <2> QED
    BY <2>1, <2>2
<1>5. \A i, j \in 1..(n + m) : i < j => u[i].sn =< u[j].sn
  <2> SUFFICES ASSUME NEW i \in 1..(n + m), NEW j \in 1..(n + m), i < j
               PROVE  u[i].sn =< u[j].sn
    OBVIOUS
  <2>1. CASE j =< n
    <3>1. i \in 1..n /\ j \in 1..n
      BY <2>1
    <3>2. u[i] = s[i] /\ u[j] = s[j]
      BY <1>3, <3>1
    <3> QED
      BY <1>1, <3>1, <3>2 DEF Rising
  <2>2. CASE i > n
    <3>1. i \in (n + 1)..(n + m) /\ j \in (n + 1)..(n + m) /\ i - n < j - n
      BY <2>2
    <3>2. t[i - n].sn =< t[j - n].sn
      BY <1>2, <1>4, <3>1 DEF Rising
    <3> QED
      BY <1>4, <3>1, <3>2
  <2>3. CASE i =< n /\ j > n
    <3>1. i \in 1..n /\ j \in (n + 1)..(n + m)
      BY <2>3
    <3>2. s[i] \in Items(s) /\ t[j - n] \in Items(t)
      BY <1>1, <1>2, <1>4, <3>1 DEF Items
    <3>3. s[i].sn =< t[j - n].sn
      BY <3>2 DEF Before
    <3> QED
      BY <1>3, <1>4, <3>1, <3>3
  <2> QED
    BY <2>1, <2>2, <2>3
<1> QED
  BY <1>3, <1>5 DEF Rising, u

(* Adding one element that is not smaller.                                 *)
LEMMA RisingAppend ==
  ASSUME NEW X, NEW s \in Seq(X), NEW e \in X, Rising(s), Before(Items(s), {e})
  PROVE  Rising(Append(s, e))
<1>1. PICK n \in Nat : n = Len(s) /\ DOMAIN s = 1..n
  OBVIOUS
<1> DEFINE u == Append(s, e)
<1>2. DOMAIN u = 1..(n + 1) /\ u[n + 1] = e /\ \A i \in 1..n : u[i] = s[i]
  BY <1>1
<1> HIDE DEF u
<1>3. \A i, j \in 1..(n + 1) : i < j => u[i].sn =< u[j].sn
  <2> SUFFICES ASSUME NEW i \in 1..(n + 1), NEW j \in 1..(n + 1), i < j
               PROVE  u[i].sn =< u[j].sn
    OBVIOUS
  <2>1. i \in 1..n
    OBVIOUS
  <2>2. CASE j =< n
    BY <1>1, <1>2, <2>1, <2>2 DEF Rising
  <2>3. CASE j = n + 1
    <3>1. s[i] \in Items(s)
      BY <1>1, <2>1 DEF Items
    <3> QED
      BY <1>2, <2>1, <2>3, <3>1 DEF Before
  <2> QED
    BY <2>2, <2>3
<1> QED
  BY <1>2, <1>3 DEF Rising, u

-----------------------------------------------------------------------------
(* What a flush puts onto the path.                                        *)

Ascends(s) == \A i, j \in DOMAIN s : i < j => s[i] < s[j]

(* Every finite set of numbers can be put in ascending order.              *)
LEMMA OrderExists ==
  ASSUME NEW n \in Nat, NEW S, S \subseteq 0..(n - 1)
  PROVE  /\ IsFiniteSet(S) /\ Cardinality(S) \in Nat
         /\ \E s \in [1..Cardinality(S) -> S] : Ascends(s)
<1> DEFINE Good(T) == \E s \in [1..Cardinality(T) -> T] : Ascends(s)
           G == {m \in Nat : \A T \in SUBSET (0..(m - 1)) : Good(T)}
<1>1. \A m \in Nat : \A T \in SUBSET (0..(m - 1)) : IsFiniteSet(T) /\ Cardinality(T) \in Nat
  <2> TAKE m \in Nat
  <2> TAKE T \in SUBSET (0..(m - 1))
  <2>1. m - 1 \in Int /\ IsFiniteSet(0..(m - 1))
    BY FS_Interval
  <2> QED
    BY <2>1, FS_Subset, FS_CardinalityType
<1>2. 0 \in G
  <2> SUFFICES ASSUME NEW T \in SUBSET (0..(0 - 1)) PROVE Good(T)
    OBVIOUS
  <2>1. T = {}
    OBVIOUS
  <2>2. Cardinality(T) = 0
    BY <2>1, FS_EmptySet
  <2> DEFINE s == [i \in 1..0 |-> i]
  <2>3. s \in [1..Cardinality(T) -> T] /\ Ascends(s)
    BY <2>2 DEF Ascends
  <2> QED
    BY <2>3
<1>3. ASSUME NEW m \in Nat, m \in G PROVE m + 1 \in G
  <2> SUFFICES ASSUME NEW T \in SUBSET (0..m) PROVE Good(T)
    OBVIOUS
  <2>1. CASE m \notin T
    <3>1. T \in SUBSET (0..(m - 1))
      BY <2>1
    <3> QED
      BY <1>3, <3>1
  <2>2. CASE m \in T
    <3> DEFINE R == T \ {m}
               c == Cardinality(R)
    <3>1. R \in SUBSET (0..(m - 1))
      OBVIOUS
    <3>2. IsFiniteSet(R) /\ c \in Nat
      BY <1>1, <3>1
    <3>3. T = R \cup {m} /\ m \notin R
      BY <2>2
    <3>4. Cardinality(T) = c + 1
      <4> HIDE DEF R
      <4> QED
        BY <3>2, <3>3, FS_AddElement
    <3>5. PICK s \in [1..c -> R] : Ascends(s)
      BY <1>3, <3>1
    <3> HIDE DEF c
    <3> DEFINE t == [i \in 1..(c + 1) |-> IF i =< c THEN s[i] ELSE m]
    <3>6. t \in [1..(c + 1) -> T]
      BY <3>2, <3>3, <3>5
    <3>7. Ascends(t)
      <4> SUFFICES ASSUME NEW i \in 1..(c + 1), NEW j \in 1..(c + 1), i < j
                   PROVE  t[i] < t[j]
        BY DEF Ascends
      <4>1. i \in 1..c /\ t[i] = s[i] /\ s[i] \in R
        BY <3>2, <3>5
      <4>2. CASE j =< c
        <5>1. j \in 1..c /\ t[j] = s[j]
          BY <3>2, <4>2
        <5> QED
          BY <3>5, <4>1, <5>1 DEF Ascends
      <4>3. CASE j > c
        <5>1. t[j] = m
          BY <3>2, <4>3
        <5>2. s[i] \in 0..(m - 1)
          BY <3>1, <4>1
        <5> QED
          BY <4>1, <5>1, <5>2
      <4> QED
        BY <3>2, <4>2, <4>3
    <3> HIDE DEF t
    <3> QED
      BY <3>4, <3>6, <3>7
  <2> QED
    BY <2>1, <2>2
<1> HIDE DEF G
<1>4. Nat \subseteq G
  BY <1>2, <1>3, SetInduction
<1> QED
  BY <1>1, <1>4 DEF G

(* Sent puts exactly these segments onto the path, in order.               *)
LEMMA SentFacts ==
  ASSUME NEW n \in Nat, NEW S, S \subseteq 0..(n - 1), NEW buf,
         \A sn \in S : buf[sn].xmit \in Nat, Delay \in Nat
  PROVE  /\ Resend!Sent(S, buf) \in Seq(Datum)
         /\ \A m \in Items(Resend!Sent(S, buf)) :
              m.sn \in S /\ m.ts = buf[m.sn].xmit /\ m.age = 0
         /\ \A sn \in S : \E m \in Items(Resend!Sent(S, buf)) :
              m.sn = sn /\ m.ts = buf[sn].xmit
         /\ Rising(Resend!Sent(S, buf))
<1> DEFINE c == Cardinality(S)
           order == CHOOSE s \in Resend!SetToSeqs(S) :
                      \A i, j \in DOMAIN s : i < j => s[i] < s[j]
<1>0. \A x \in S : x \in Nat
  OBVIOUS
<1>1. IsFiniteSet(S) /\ c \in Nat
  BY OrderExists
<1>2. PICK s \in [1..c -> S] : Ascends(s)
  BY OrderExists
<1>3. Resend!SetToSeqs(S) = {f \in [1..c -> S] : \A i, j \in 1..c : i # j => f[i] # f[j]}
  <2>1. Resend!Cardinality(S) = Cardinality(S)
    BY Zenon DEF Resend!Cardinality, Cardinality
  <2> QED
    BY <2>1 DEF Resend!SetToSeqs
<1> HIDE DEF c
<1>4. s \in Resend!SetToSeqs(S)
  <2> SUFFICES ASSUME NEW i \in 1..c, NEW j \in 1..c, i # j PROVE s[i] # s[j]
    BY <1>2, <1>3
  <2>1. s[i] \in Nat /\ s[j] \in Nat
    BY <1>0, <1>2
  <2>2. i < j \/ j < i
    OBVIOUS
  <2>3. s[i] < s[j] \/ s[j] < s[i]
    BY <1>2, <2>2 DEF Ascends
  <2> QED
    BY <2>1, <2>3
<1>5. order \in Resend!SetToSeqs(S) /\ Ascends(order)
  BY <1>2, <1>4 DEF Ascends
<1>6. Resend!Sent(S, buf) =
        [i \in DOMAIN order |-> [sn |-> order[i], ts |-> buf[order[i]].xmit, age |-> 0]]
  BY DEF Resend!Sent
<1> HIDE DEF order
<1>7. order \in [1..c -> S] /\ DOMAIN order = 1..c
      /\ \A i, j \in 1..c : i # j => order[i] # order[j]
  BY <1>3, <1>5
<1>8. \A sn \in S : \E i \in 1..c : order[i] = sn
  <2>1. order \in Injection(1..c, S)
    BY <1>7 DEF Injection, IsInjective
  <2>2. Cardinality(1..c) = c
    <3>1. 1 \in Int /\ c \in Int
      BY <1>1
    <3>2. Cardinality(1..c) = IF 1 > c THEN 0 ELSE c - 1 + 1
      BY <3>1, FS_Interval
    <3> QED
      BY <1>1, <3>2
  <2>3. order \in Surjection(1..c, S)
    BY <1>1, <2>1, <2>2, FS_Injection DEF c
  <2> QED
    BY <2>3 DEF Surjection
<1> DEFINE p == Resend!Sent(S, buf)
<1>9. p = [i \in 1..c |-> [sn |-> order[i], ts |-> buf[order[i]].xmit, age |-> 0]]
  BY <1>6, <1>7
<1> HIDE DEF p
<1>10. \A i \in 1..c : /\ p[i].sn = order[i] /\ order[i] \in S
                       /\ p[i].ts = buf[p[i].sn].xmit
                       /\ p[i].age = 0 /\ p[i] \in Datum
  <2> TAKE i \in 1..c
  <2>0. order[i] \in S
    BY <1>7
  <2>1. order[i] \in Nat /\ buf[order[i]].xmit \in Nat
    BY <1>0, <2>0, Zenon
  <2>2. p[i] = [sn |-> order[i], ts |-> buf[order[i]].xmit, age |-> 0]
    BY <1>9
  <2> QED
    BY <2>0, <2>1, <2>2 DEF Datum
<1>11. DOMAIN p = 1..c /\ p \in Seq(Datum)
  <2>1. DOMAIN p = 1..c /\ p \in [1..c -> Datum]
    BY <1>9, <1>10
  <2> QED
    BY <1>1, <2>1
<1>12. \A m \in Items(p) : m.sn \in S /\ m.ts = buf[m.sn].xmit /\ m.age = 0
  BY <1>10, <1>11 DEF Items
<1>13. \A sn \in S : \E m \in Items(p) : m.sn = sn /\ m.ts = buf[sn].xmit
  <2> TAKE sn \in S
  <2>1. PICK i \in 1..c : order[i] = sn
    BY <1>8
  <2>2. p[i] \in Items(p)
    BY <1>11 DEF Items
  <2> QED
    BY <1>10, <2>1, <2>2
<1>14. Rising(p)
  <2> SUFFICES ASSUME NEW i \in 1..c, NEW j \in 1..c, i < j PROVE p[i].sn =< p[j].sn
    BY <1>11 DEF Rising
  <2>1. order[i] < order[j] /\ order[i] \in S /\ order[j] \in S
    BY <1>5, <1>7 DEF Ascends
  <2>2. order[i] \in Nat /\ order[j] \in Nat
    BY <1>0, <2>1
  <2> QED
    BY <1>10, <2>1, <2>2
<1> QED
  BY <1>11, <1>12, <1>13, <1>14 DEF p

-----------------------------------------------------------------------------
(* The invariant, step by step.                                            *)

(* The copies of a segment that are missing are finitely many.             *)
LEMMA FewerMissing ==
  ASSUME NEW x \in Nat, NEW S \in SUBSET (1..x), NEW T \in SUBSET S
  PROVE  /\ IsFiniteSet(S) /\ Cardinality(S) \in Nat
         /\ IsFiniteSet(T) /\ Cardinality(T) \in Nat /\ Cardinality(T) =< Cardinality(S)
<1>1. IsFiniteSet(1..x)
  BY FS_Interval
<1>2. IsFiniteSet(S)
  BY <1>1, FS_Subset
<1> QED
  BY <1>2, FS_Subset, FS_CardinalityType

(* A step on which no copy of a segment gets lost.                         *)
LEMMA NoneLost ==
  ASSUME NEW sn, snd_buf[sn].xmit \in Nat, snd_buf'[sn].xmit = snd_buf[sn].xmit,
         \A m \in OnTheWay : m.sn = sn => \E c \in OnTheWay' : c.sn = sn /\ c.ts = m.ts,
         lost \in Nat, lost' = lost, MissingInv(sn)
  PROVE  MissingInv(sn)'
<1>1. Missing(sn)' \in SUBSET Missing(sn) /\ Missing(sn) \in SUBSET (1..snd_buf[sn].xmit)
  BY DEF Missing
<1> DEFINE S == Missing(sn)
           T == Missing(sn)'
           x == snd_buf[sn].xmit
<1>2. x \in Nat /\ S \in SUBSET (1..x) /\ T \in SUBSET S
  BY <1>1
<1> HIDE DEF S, T, x
<1>3. Cardinality(S) \in Nat /\ Cardinality(T) \in Nat /\ Cardinality(T) =< Cardinality(S)
  BY <1>2, FewerMissing
<1>4. Cardinality(S) =< lost
  BY DEF MissingInv, S
<1>5. Cardinality(T) =< lost'
  BY <1>3, <1>4
<1> QED
  BY <1>5 DEF MissingInv, T

(* What the types say about one segment.                                   *)
LEMMA SegTypes ==
  ASSUME ResendTypes, NEW sn \in DOMAIN snd_buf
  PROVE  /\ snd_buf[sn].rto \in Nat /\ snd_buf[sn].due \in Int
         /\ snd_buf[sn].fastack \in Nat /\ snd_buf[sn].xmit \in Nat
         /\ waited[sn] \in Nat /\ skips[sn] \in Nat
         /\ sn \in Nat /\ sn < snd_nxt
         /\ snd_buf[sn] \in Resend!SegTimer
<1>1. /\ snd_buf \in [DOMAIN snd_buf -> Resend!SegTimer]
      /\ waited \in [DOMAIN snd_buf -> Nat] /\ skips \in [DOMAIN snd_buf -> Nat]
  BY DEF ResendTypes
<1>3. snd_buf[sn] \in Resend!SegTimer /\ waited[sn] \in Nat /\ skips[sn] \in Nat
  BY <1>1
<1>2. sn \in Nat /\ sn < snd_nxt
  BY DEF ResendTypes
<1> QED
  BY <1>2, <1>3 DEF Resend!SegTimer

(* ... and about what is on the way.                                       *)
LEMMA WayTypes ==
  ASSUME ResendTypes
  PROVE  /\ Items(fwd) \subseteq Datum /\ Items(acklist) \subseteq Note
         /\ Items(back) \subseteq Ack
         /\ \A m \in OnTheWay : m.sn \in Nat /\ m.ts \in Nat /\ m.sn < snd_nxt
         /\ \A m \in Items(fwd) \cup Items(back) : m.age \in 0..Delay
<1>1. /\ Items(fwd) \subseteq Datum /\ Items(acklist) \subseteq Note
      /\ Items(back) \subseteq Ack
  BY ItemsTyped DEF ResendTypes
<1>2. \A m \in OnTheWay : m.sn \in Nat /\ m.ts \in Nat
  BY <1>1 DEF OnTheWay, Datum, Note, Ack
<1>3. \A m \in Items(fwd) \cup Items(back) : m.age \in 0..Delay
  BY <1>1 DEF Datum, Ack
<1> QED
  BY <1>1, <1>2, <1>3 DEF ResendTypes

(* In the beginning nothing is under way.                                  *)
LEMMA ResendStarts ==
  ASSUME Resend!RetransmitAssumption, Resend!Init
  PROVE  ResendInv
<1>1. /\ queued = 0 /\ snd_una = 0 /\ snd_nxt = 0 /\ rto \in Rtos /\ state = 0 /\ idle = 0
      /\ rcvd = {} /\ kept = 0 /\ lost = 0
  BY DEF Resend!Init
<1>2. snd_buf = << >> /\ waited = << >> /\ skips = << >>
  BY DEF Resend!Init
<1>3. fwd = << >> /\ back = << >> /\ acklist = << >>
  BY DEF Resend!Init
<1>4. DOMAIN snd_buf = {} /\ snd_buf \in [{} -> Resend!SegTimer]
      /\ waited \in [{} -> Nat] /\ skips \in [{} -> Nat]
  BY <1>2
<1>5. Items(fwd) = {} /\ Items(acklist) = {} /\ Items(back) = {} /\ OnTheWay = {}
  BY <1>3 DEF Items, OnTheWay
<1>6. fwd \in Seq(Datum) /\ acklist \in Seq(Note) /\ back \in Seq(Ack)
  BY <1>3
<1>7. ResendTypes
  <2>1. 0 \in 0..Period /\ 0 =< Count
    BY ResendConstants
  <2> QED
    BY <1>1, <1>4, <1>5, <1>6, <2>1 DEF ResendTypes
<1>8. CopiesInv
  BY <1>5 DEF CopiesInv
<1>9. Rising(fwd) /\ Rising(back) /\ Rising(acklist)
  BY <1>3 DEF Rising
<1>10. CalmInv
  BY <1>1, <1>4, <1>5, <1>9 DEF CalmInv, Before
<1> QED
  BY <1>4, <1>7, <1>8, <1>10 DEF ResendInv

(* A step of another part of the control block.                            *)
LEMMA ResendStands ==
  ASSUME ResendInv, UNCHANGED resendVars
  PROVE  ResendInv'
BY DEF ResendInv, resendVars, ResendTypes, TimerInv, MissingInv, Missing, PaidInv,
       CopiesInv, CopyInv, CalmInv, OnTheWay

(* ikcp_send only queues.                                                  *)
LEMMA SendKeeps ==
  ASSUME Resend!RetransmitAssumption, ResendInv, Resend!ikcp_send
  PROVE  ResendInv'
<1>1. /\ queued' = queued + 1 /\ snd_nxt + queued < Count
      /\ UNCHANGED <<snd_una, snd_nxt, snd_buf, rto, state, idle, fwd, back, rcvd, acklist, kept,
                     lost, waited, skips>>
  BY DEF Resend!ikcp_send, Resend!peer
<1>2. ResendTypes'
  <2>1. queued' \in Nat /\ snd_nxt' + queued' =< Count
    <3>1. queued \in Nat /\ snd_nxt \in Nat /\ Count \in Nat
      BY ResendConstants DEF ResendInv, ResendTypes
    <3> QED
      BY <1>1, <3>1
  <2> QED
    BY <1>1, <2>1 DEF ResendInv, ResendTypes, OnTheWay
<1> QED
  BY <1>1, <1>2 DEF ResendInv, TimerInv, MissingInv, Missing, PaidInv, CopiesInv, CopyInv,
                    CalmInv, OnTheWay

(* What a step of the path or the peer leaves of the sender's parts.       *)
LEMMA SenderStands ==
  ASSUME UNCHANGED <<snd_buf, idle, lost, waited, skips>>, ResendInv
  PROVE  \A sn \in DOMAIN snd_buf : TimerInv(sn)' /\ PaidInv(sn)'
BY DEF ResendInv, TimerInv, PaidInv

(* The peer takes a segment off the path and notes its number.             *)
LEMMA PeerInputKeeps ==
  ASSUME Resend!RetransmitAssumption, ResendInv, Resend!PeerInput
  PROVE  ResendInv'
<1>a. PICK h : h = Head(fwd)
  OBVIOUS
<1>b. PICK note : note = [sn |-> h.sn, ts |-> h.ts]
  OBVIOUS
<1>1. /\ fwd # << >> /\ fwd' = Tail(fwd) /\ rcvd' = rcvd \cup {h.sn}
      /\ acklist' = Append(acklist, note)
  BY <1>a, <1>b DEF Resend!PeerInput
<1>2. UNCHANGED <<queued, snd_una, snd_nxt, snd_buf, rto, state, idle, back, kept, lost, waited, skips>>
  BY DEF Resend!PeerInput, Resend!sender
<1>3. ResendTypes
  BY DEF ResendInv
<1>4. fwd \in Seq(Datum) /\ acklist \in Seq(Note) /\ back \in Seq(Ack)
  BY <1>3 DEF ResendTypes
<1>5. h \in Datum /\ fwd' \in Seq(Datum) /\ Items(fwd) = {h} \cup Items(fwd')
  BY <1>a, <1>1, <1>4, ItemsTail
<1>6. h.sn \in Nat /\ h.ts \in Nat /\ h.age \in 0..Delay /\ note \in Note
      /\ note.sn = h.sn /\ note.ts = h.ts
  BY <1>b, <1>5 DEF Datum, Note
<1>7. acklist' \in Seq(Note) /\ Items(acklist') = Items(acklist) \cup {note}
  BY <1>1, <1>4, <1>6, ItemsAppend
<1>8. Items(back') = Items(back)
  BY <1>2
<1>9. /\ Delay \in Nat /\ Period \in Nat /\ kept \in 0..Period /\ snd_nxt \in Nat
      /\ Resend!RoundTrip \in Nat
  BY <1>3, ResendConstants DEF ResendTypes
<1>10. \A m \in OnTheWay : \E c \in OnTheWay' : c.sn = m.sn /\ c.ts = m.ts
  BY <1>5, <1>6, <1>7, <1>8 DEF OnTheWay
<1>11. \A m \in OnTheWay' : m.sn < snd_nxt'
  <2>1. \A m \in OnTheWay : m.sn < snd_nxt
    BY <1>3 DEF ResendTypes
  <2>2. h \in OnTheWay
    BY <1>5 DEF OnTheWay
  <2> QED
    BY <1>2, <1>5, <1>6, <1>7, <1>8, <2>1, <2>2 DEF OnTheWay
<1>12. ResendTypes'
  <2>1. h.sn \in 0..(snd_nxt - 1)
    <3>1. h \in OnTheWay
      BY <1>5 DEF OnTheWay
    <3>2. h.sn < snd_nxt
      BY <1>3, <3>1 DEF ResendTypes
    <3> QED
      BY <1>6, <1>9, <3>2
  <2>2. rcvd' \subseteq 0..(snd_nxt' - 1)
    BY <1>1, <1>2, <1>3, <2>1 DEF ResendTypes
  <2> QED
    BY <1>2, <1>3, <1>5, <1>7, <1>11, <2>2 DEF ResendTypes
<1>13. ASSUME NEW sn \in DOMAIN snd_buf PROVE MissingInv(sn)'
  <2>1. snd_buf[sn].xmit \in Nat /\ lost \in Nat
    BY <1>3, SegTypes DEF ResendTypes
  <2> QED
    BY <1>2, <1>10, <2>1, NoneLost DEF ResendInv
<1>14. CopiesInv'
  <2>1. \A m \in Items(fwd') : CopyInv(m, m.age)'
    BY <1>2, <1>5 DEF ResendInv, CopiesInv, CopyInv
  <2>2. \A m \in Items(back') : CopyInv(m, Delay + Period + m.age)'
    BY <1>2 DEF ResendInv, CopiesInv, CopyInv
  <2>3. \A m \in Items(acklist) : CopyInv(m, Delay + kept)'
    BY <1>2 DEF ResendInv, CopiesInv, CopyInv
  <2>4. CopyInv(note, Delay + kept)'
    <3> SUFFICES ASSUME h.sn \in DOMAIN snd_buf
                 PROVE  /\ waited[h.sn] - (Delay + kept) =< LatestSend(h.ts)
                        /\ snd_buf[h.sn].due + (Delay + kept) > Resend!RoundTrip
      BY <1>2, <1>6 DEF CopyInv
    <3>1. waited[h.sn] - h.age =< LatestSend(h.ts) /\ snd_buf[h.sn].due + h.age > Resend!RoundTrip
      BY <1>5 DEF ResendInv, CopiesInv, CopyInv
    <3>2. waited[h.sn] \in Nat /\ snd_buf[h.sn].due \in Int
      BY <1>3, SegTypes
    <3>3. LatestSend(h.ts) \in Int
      BY <1>6, LatestSendType
    <3> QED
      BY <1>6, <1>9, <3>1, <3>2, <3>3
  <2> QED
    BY <1>2, <1>7, <2>1, <2>2, <2>3, <2>4 DEF CopiesInv
<1>15. CalmInv'
  <2> SUFFICES ASSUME lost = 0
               PROVE  /\ Rising(acklist') /\ Rising(fwd')
                      /\ Before(Items(back), Items(acklist')) /\ Before(Items(back), Items(fwd'))
                      /\ Before(Items(acklist'), Items(fwd'))
    BY <1>2 DEF ResendInv, CalmInv
  <2>1. /\ Rising(back) /\ Rising(acklist) /\ Rising(fwd)
        /\ Before(Items(back), Items(acklist)) /\ Before(Items(back), Items(fwd))
        /\ Before(Items(acklist), Items(fwd))
    BY DEF ResendInv, CalmInv
  <2>2. Rising(fwd') /\ \A m \in Items(fwd') : h.sn =< m.sn
    BY <1>a, <1>1, <1>4, <2>1, RisingTail
  <2>3. Before(Items(acklist), {note})
    BY <1>5, <1>6, <2>1 DEF Before
  <2>4. Rising(acklist')
    BY <1>1, <1>4, <1>6, <2>1, <2>3, RisingAppend
  <2> QED
    BY <1>5, <1>6, <1>7, <2>1, <2>2, <2>4 DEF Before
<1> QED
  BY <1>2, <1>12, <1>13, <1>14, <1>15, SenderStands DEF ResendInv

(* The peer acknowledges what it has noted.                                *)
LEMMA PeerFlushKeeps ==
  ASSUME Resend!RetransmitAssumption, ResendInv, Resend!PeerFlush
  PROVE  ResendInv'
<1> DEFINE new == [i \in DOMAIN acklist |-> [sn |-> acklist[i].sn, ts |-> acklist[i].ts,
                                             una |-> Resend!rcv_nxt, age |-> 0]]
<1>1. back' = back \o new /\ acklist' = << >> /\ kept' = 0
  BY DEF Resend!PeerFlush
<1>2. UNCHANGED <<queued, snd_una, snd_nxt, snd_buf, rto, state, idle, fwd, rcvd, lost, waited, skips>>
  BY DEF Resend!PeerFlush, Resend!sender
<1>3. ResendTypes
  BY DEF ResendInv
<1>4. fwd \in Seq(Datum) /\ acklist \in Seq(Note) /\ back \in Seq(Ack)
  BY <1>3 DEF ResendTypes
<1>5. /\ Delay \in Nat /\ Period \in Nat /\ kept \in 0..Period /\ snd_nxt \in Nat /\ Count \in Nat
      /\ Resend!RoundTrip \in Nat
  BY <1>3, ResendConstants DEF ResendTypes
<1>6. Resend!rcv_nxt \in Nat
  <2>1. rcvd \subseteq 0..(snd_nxt - 1) /\ snd_nxt + queued =< Count /\ queued \in Nat
    BY <1>3 DEF ResendTypes
  <2> DEFINE T == (0..Count) \ rcvd
  <2>2. Count \in T
    BY <1>5, <2>1
  <2>3. PICK x \in T : \A y \in T : x =< y
    <3>1. T \subseteq Nat /\ T # {}
      BY <2>2
    <3> HIDE DEF T
    <3> QED
      BY <3>1, LeastNat
  <2>4. Resend!Min(T) \in T
    <3> HIDE DEF T
    <3> QED
      BY <2>3 DEF Resend!Min
  <2> QED
    BY <2>4 DEF Resend!rcv_nxt
<1>7. PICK n \in Nat : DOMAIN acklist = 1..n
  BY <1>4
<1>8. \A i \in 1..n : acklist[i].sn \in Nat /\ acklist[i].ts \in Nat
  <2>1. \A i \in 1..n : acklist[i] \in Note
    BY <1>4, <1>7
  <2> QED
    BY <2>1 DEF Note
<1>9. DOMAIN new = 1..n /\ \A i \in 1..n : /\ new[i] \in Ack /\ new[i].sn = acklist[i].sn
                                           /\ new[i].ts = acklist[i].ts /\ new[i].age = 0
  <2>1. 0 \in 0..Delay
    BY <1>5
  <2> QED
    BY <1>6, <1>7, <1>8, <2>1 DEF Ack
<1>10. new \in Seq(Ack)
  <2>1. new \in [1..n -> Ack]
    BY <1>7, <1>9
  <2> HIDE DEF new
  <2> QED
    BY <2>1
<1> HIDE DEF new
<1>11. back' \in Seq(Ack) /\ Items(back') = Items(back) \cup Items(new)
  BY <1>1, <1>4, <1>10, ItemsConcat
<1>12. \A m \in Items(new) : m.age = 0 /\ \E c \in Items(acklist) : c.sn = m.sn /\ c.ts = m.ts
  BY <1>7, <1>9 DEF Items
<1>13. \A c \in Items(acklist) : \E m \in Items(new) : c.sn = m.sn /\ c.ts = m.ts
  BY <1>7, <1>9 DEF Items
<1>14. Items(acklist') = {} /\ acklist' \in Seq(Note) /\ Rising(acklist')
  BY <1>1 DEF Items, Rising
<1>15. \A m \in OnTheWay : \E c \in OnTheWay' : c.sn = m.sn /\ c.ts = m.ts
  BY <1>2, <1>11, <1>13 DEF OnTheWay
<1>16. ResendTypes'
  <2>1. \A m \in OnTheWay : m.sn < snd_nxt
    BY <1>3 DEF ResendTypes
  <2>2. \A m \in OnTheWay' : m.sn < snd_nxt'
    BY <1>2, <1>11, <1>12, <1>14, <2>1 DEF OnTheWay
  <2>3. kept' \in 0..Period
    BY <1>1, <1>5
  <2> QED
    BY <1>2, <1>3, <1>11, <1>14, <2>2, <2>3 DEF ResendTypes
<1>17. ASSUME NEW sn \in DOMAIN snd_buf PROVE MissingInv(sn)'
  <2>1. snd_buf[sn].xmit \in Nat /\ lost \in Nat
    BY <1>3, SegTypes DEF ResendTypes
  <2> QED
    BY <1>2, <1>15, <2>1, NoneLost DEF ResendInv
<1>18. CopiesInv'
  <2>1. \A m \in Items(fwd') : CopyInv(m, m.age)'
    BY <1>2 DEF ResendInv, CopiesInv, CopyInv
  <2>2. \A m \in Items(back) : CopyInv(m, Delay + Period + m.age)'
    BY <1>2 DEF ResendInv, CopiesInv, CopyInv
  <2>3. ASSUME NEW m \in Items(new) PROVE CopyInv(m, Delay + Period + m.age)'
    <3>1. PICK c \in Items(acklist) : c.sn = m.sn /\ c.ts = m.ts
      BY <1>12
    <3>2. m.age = 0
      BY <1>12
    <3> SUFFICES ASSUME c.sn \in DOMAIN snd_buf
                 PROVE  /\ waited[c.sn] - (Delay + Period + 0) =< LatestSend(c.ts)
                        /\ snd_buf[c.sn].due + (Delay + Period + 0) > Resend!RoundTrip
      BY <1>2, <3>1, <3>2 DEF CopyInv
    <3>3. /\ waited[c.sn] - (Delay + kept) =< LatestSend(c.ts)
          /\ snd_buf[c.sn].due + (Delay + kept) > Resend!RoundTrip
      BY <3>1 DEF ResendInv, CopiesInv, CopyInv
    <3>4. waited[c.sn] \in Nat /\ snd_buf[c.sn].due \in Int
      BY <1>3, SegTypes
    <3>5. LatestSend(c.ts) \in Int
      <4>1. c.ts \in Nat
        BY <1>3, WayTypes DEF OnTheWay
      <4> QED
        BY <4>1, LatestSendType
    <3> QED
      BY <1>5, <3>3, <3>4, <3>5
  <2> QED
    BY <1>11, <1>14, <2>1, <2>2, <2>3 DEF CopiesInv
<1>19. CalmInv'
  <2> SUFFICES ASSUME lost = 0
               PROVE  /\ Rising(back') /\ Before(Items(back'), Items(fwd))
                      /\ Before(Items(back'), Items(acklist')) /\ Before(Items(acklist'), Items(fwd))
    BY <1>2, <1>14 DEF ResendInv, CalmInv
  <2>1. /\ Rising(back) /\ Rising(acklist)
        /\ Before(Items(back), Items(acklist)) /\ Before(Items(back), Items(fwd))
        /\ Before(Items(acklist), Items(fwd))
    BY DEF ResendInv, CalmInv
  <2>2. Rising(new)
    BY <1>7, <1>9, <2>1 DEF Rising
  <2>3. Before(Items(back), Items(new)) /\ Before(Items(new), Items(fwd))
    BY <1>12, <2>1 DEF Before
  <2>4. Rising(back')
    BY <1>1, <1>4, <1>10, <2>1, <2>2, <2>3, RisingConcat
  <2> QED
    BY <1>11, <1>14, <2>1, <2>3, <2>4 DEF Before
<1> QED
  BY <1>2, <1>16, <1>17, <1>18, <1>19, SenderStands DEF ResendInv

(* A step on which one copy of a segment, at most, gets lost.              *)
LEMMA OneLost ==
  ASSUME NEW sn, snd_buf[sn].xmit \in Nat, snd_buf'[sn].xmit = snd_buf[sn].xmit, NEW t,
         \A m \in OnTheWay : m.sn = sn =>
            m.ts = t \/ \E c \in OnTheWay' : c.sn = sn /\ c.ts = m.ts,
         lost \in Nat, lost' = lost + 1, MissingInv(sn)
  PROVE  MissingInv(sn)'
<1> DEFINE S == Missing(sn)
           T == Missing(sn)'
           x == snd_buf[sn].xmit
<1>1. x \in Nat /\ S \in SUBSET (1..x) /\ T \in SUBSET (1..x) /\ T \subseteq S \cup {t}
  BY DEF Missing
<1>2. Cardinality(S) =< lost
  BY DEF MissingInv
<1> HIDE DEF S, T, x
<1>3. IsFiniteSet(S) /\ Cardinality(S) \in Nat
  BY <1>1, FewerMissing
<1>4. IsFiniteSet(S \cup {t}) /\ Cardinality(S \cup {t}) \in Nat /\ Cardinality(S \cup {t}) =< Cardinality(S) + 1
  <2>1. IsFiniteSet(S \cup {t}) /\ Cardinality(S \cup {t}) = IF t \in S THEN Cardinality(S) ELSE Cardinality(S) + 1
    BY <1>3, FS_AddElement, Zenon
  <2> QED
    BY <1>3, <2>1
<1>5. Cardinality(T) =< Cardinality(S \cup {t})
  BY <1>1, <1>4, FS_Subset
<1>6. Cardinality(T) \in Nat
  BY <1>1, FewerMissing
<1>7. Cardinality(T) =< lost'
  BY <1>2, <1>3, <1>4, <1>5, <1>6
<1> QED
  BY <1>7 DEF MissingInv, T

(* The path loses a segment.                                               *)
LEMMA LoseKeeps ==
  ASSUME Resend!RetransmitAssumption, ResendInv, Resend!Lose
  PROVE  ResendInv'
<1>1. /\ lost' = lost + 1
      /\ UNCHANGED <<queued, snd_una, snd_nxt, snd_buf, rto, state, idle, rcvd, acklist, kept,
                     waited, skips>>
  BY DEF Resend!Lose, Resend!sender, Resend!peer
<1>2. ResendTypes /\ lost \in Nat
  BY DEF ResendInv, ResendTypes
<1>3. fwd \in Seq(Datum) /\ acklist \in Seq(Note) /\ back \in Seq(Ack)
  BY <1>2 DEF ResendTypes
<1>4. PICK gone :
        /\ fwd' \in Seq(Datum) /\ back' \in Seq(Ack)
        /\ \/ Items(fwd) = {gone} \cup Items(fwd') /\ Items(back') = Items(back)
           \/ Items(back) = {gone} \cup Items(back') /\ Items(fwd') = Items(fwd)
  <2>1. CASE \E i \in DOMAIN fwd : fwd' = Resend!RemoveAt(fwd, i) /\ back' = back
    <3>1. PICK i \in DOMAIN fwd : fwd' = Resend!RemoveAt(fwd, i) /\ back' = back
      BY <2>1
    <3>2. fwd' \in Seq(Datum) /\ Items(fwd) = {fwd[i]} \cup Items(fwd')
      BY <1>3, <3>1, ItemsRemove
    <3> QED
      BY <1>3, <3>1, <3>2
  <2>2. CASE \E i \in DOMAIN back : back' = Resend!RemoveAt(back, i) /\ fwd' = fwd
    <3>1. PICK i \in DOMAIN back : back' = Resend!RemoveAt(back, i) /\ fwd' = fwd
      BY <2>2
    <3>2. back' \in Seq(Ack) /\ Items(back) = {back[i]} \cup Items(back')
      BY <1>3, <3>1, ItemsRemove
    <3> QED
      BY <1>3, <3>1, <3>2
  <2> QED
    BY <2>1, <2>2 DEF Resend!Lose
<1>5. Items(fwd') \subseteq Items(fwd) /\ Items(back') \subseteq Items(back)
      /\ Items(acklist') = Items(acklist)
  BY <1>1, <1>4
<1>6. OnTheWay' \subseteq OnTheWay /\ OnTheWay \subseteq OnTheWay' \cup {gone}
  BY <1>4, <1>5 DEF OnTheWay
<1>7. ResendTypes'
  <2>1. \A m \in OnTheWay' : m.sn < snd_nxt'
    BY <1>1, <1>2, <1>6 DEF ResendTypes
  <2>2. lost' \in Nat
    BY <1>1, <1>2
  <2>3. /\ DOMAIN snd_buf' \subseteq 0..(snd_nxt' - 1)
        /\ snd_buf' \in [DOMAIN snd_buf' -> Resend!SegTimer]
        /\ waited' \in [DOMAIN snd_buf' -> Nat] /\ skips' \in [DOMAIN snd_buf' -> Nat]
        /\ acklist' \in Seq(Note)
    BY <1>1, <1>2 DEF ResendTypes
  <2>4. /\ queued' \in Nat /\ snd_nxt' \in Nat /\ snd_una' \in Int /\ rto' \in Rtos
        /\ snd_nxt' + queued' =< Count /\ rcvd' \subseteq 0..(snd_nxt' - 1)
        /\ state' \in Int /\ idle' \in 0..Period /\ kept' \in 0..Period
    BY <1>1, <1>2 DEF ResendTypes
  <2> QED
    BY <1>4, <2>1, <2>2, <2>3, <2>4, Zenon DEF ResendTypes
<1>8. ASSUME NEW sn \in DOMAIN snd_buf PROVE TimerInv(sn)'
  BY <1>1 DEF ResendInv, TimerInv
<1>9. ASSUME NEW sn \in DOMAIN snd_buf PROVE MissingInv(sn)'
  <2>1. snd_buf[sn].xmit \in Nat
    BY <1>2, SegTypes
  <2>2. \A m \in OnTheWay : m.sn = sn =>
            m.ts = gone.ts \/ \E c \in OnTheWay' : c.sn = sn /\ c.ts = m.ts
    BY <1>6
  <2> QED
    BY <1>1, <1>2, <2>1, <2>2, OneLost DEF ResendInv
<1>10. ASSUME NEW sn \in DOMAIN snd_buf PROVE PaidInv(sn)'
  <2> DEFINE x == snd_buf[sn].xmit
             a == snd_buf[sn].fastack
             k == skips[sn]
  <2>1. x \in Nat /\ a \in Nat /\ k \in Nat /\ fastresend \in Nat
    BY <1>2, SegTypes, ResendConstants
  <2>2. a =< k /\ IF fastresend = 0 THEN x - 1 =< lost ELSE (x - 1 - lost) * fastresend =< k - a
    BY DEF ResendInv, PaidInv
  <2> SUFFICES a =< k /\ IF fastresend = 0 THEN x - 1 =< lost + 1
                         ELSE (x - 1 - (lost + 1)) * fastresend =< k - a
    BY <1>1 DEF PaidInv
  <2> HIDE DEF x, a, k
  <2> DEFINE d == x - 1 - lost
  <2>3. d \in Int /\ x - 1 - (lost + 1) = d - 1
    BY <1>2, <2>1
  <2>4. d * fastresend =< k - a => (d - 1) * fastresend =< k - a
    <3> HIDE DEF d
    <3>1. (d - 1) * fastresend = d * fastresend - fastresend /\ d * fastresend \in Int
      BY <2>1, <2>3
    <3> DEFINE p == d * fastresend
               q == (d - 1) * fastresend
    <3>2. q = p - fastresend /\ p \in Int
      BY <3>1
    <3> HIDE DEF p, q
    <3>3. p =< k - a => q =< k - a
      BY <2>1, <3>2
    <3> QED
      BY <3>3 DEF p, q
  <2> QED
    BY <1>2, <2>1, <2>2, <2>3, <2>4
<1>11. CopiesInv'
  BY <1>1, <1>5 DEF ResendInv, CopiesInv, CopyInv
<1>12. CalmInv'
  <2>1. lost' # 0
    BY <1>1, <1>2
  <2> QED
    BY <2>1 DEF CalmInv
<1> QED
  BY <1>1, <1>7, <1>8, <1>9, <1>10, <1>11, <1>12 DEF ResendInv

(* A tick makes what is on the path a tick older.                          *)
LEMMA AgedFacts ==
  ASSUME Delay \in Nat, NEW X, X = Datum \/ X = Ack, NEW s \in Seq(X),
         \A i \in DOMAIN s : s[i].age < Delay
  PROVE  /\ Resend!Aged(s) \in Seq(X)
         /\ \A m \in Items(Resend!Aged(s)) : \E c \in Items(s) :
              m.sn = c.sn /\ m.ts = c.ts /\ m.age = c.age + 1
         /\ \A c \in Items(s) : \E m \in Items(Resend!Aged(s)) : m.sn = c.sn /\ m.ts = c.ts
         /\ Rising(s) => Rising(Resend!Aged(s))
<1>1. PICK n \in Nat : DOMAIN s = 1..n
  OBVIOUS
<1> DEFINE t == Resend!Aged(s)
<1>2. t = [i \in 1..n |-> [s[i] EXCEPT !.age = @ + 1]]
  BY <1>1 DEF Resend!Aged
<1> HIDE DEF t
<1>3. DOMAIN t = 1..n /\ \A i \in 1..n : t[i] = [s[i] EXCEPT !.age = @ + 1]
  BY <1>2
<1> DEFINE Older(c) == [c EXCEPT !.age = @ + 1]
<1>a. ASSUME NEW c \in Datum, c.age < Delay
      PROVE  Older(c) \in Datum /\ Older(c).sn = c.sn /\ Older(c).ts = c.ts /\ Older(c).age = c.age + 1
  BY <1>a DEF Datum
<1>b. ASSUME NEW c \in Ack, c.age < Delay
      PROVE  Older(c) \in Ack /\ Older(c).sn = c.sn /\ Older(c).ts = c.ts /\ Older(c).age = c.age + 1
  BY <1>b DEF Ack
<1>c. \A i \in 1..n : t[i] = Older(s[i])
  BY <1>3
<1> HIDE DEF Older
<1>4. ASSUME NEW i \in 1..n
      PROVE  t[i] \in X /\ t[i].sn = s[i].sn /\ t[i].ts = s[i].ts /\ t[i].age = s[i].age + 1
  <2>1. s[i] \in X /\ s[i].age < Delay
    BY <1>1
  <2>2. CASE X = Datum
    BY <1>a, <1>c, <2>1, <2>2
  <2>3. CASE X = Ack
    BY <1>b, <1>c, <2>1, <2>3
  <2> QED
    BY <2>2, <2>3
<1>5. t \in Seq(X)
  <2>1. t \in [1..n -> X]
    BY <1>2, <1>4
  <2> QED
    BY <2>1
<1>6. \A m \in Items(t) : \E c \in Items(s) : m.sn = c.sn /\ m.ts = c.ts /\ m.age = c.age + 1
  BY <1>1, <1>3, <1>4 DEF Items
<1>7. \A c \in Items(s) : \E m \in Items(t) : m.sn = c.sn /\ m.ts = c.ts
  BY <1>1, <1>3, <1>4 DEF Items
<1>8. Rising(s) => Rising(t)
  BY <1>1, <1>3, <1>4 DEF Rising
<1> QED
  BY <1>5, <1>6, <1>7, <1>8 DEF t

(* A tick passes.                                                          *)
LEMMA PassKeeps ==
  ASSUME Resend!RetransmitAssumption, ResendInv, Resend!Pass
  PROVE  ResendInv'
<1>1. /\ idle < Period /\ kept < Period /\ idle' = idle + 1
      /\ kept' = IF acklist = << >> THEN 0 ELSE kept + 1
      /\ \A i \in DOMAIN fwd : fwd[i].age < Delay
      /\ \A i \in DOMAIN back : back[i].age < Delay
      /\ fwd' = Resend!Aged(fwd) /\ back' = Resend!Aged(back)
  BY DEF Resend!Pass
<1>2. snd_buf' = [sn \in DOMAIN snd_buf |-> [snd_buf[sn] EXCEPT !.due = @ - 1]]
      /\ waited' = [sn \in DOMAIN waited |-> waited[sn] + 1]
  BY DEF Resend!Pass
<1>3. UNCHANGED <<queued, snd_una, snd_nxt, rto, state, rcvd, acklist, lost, skips>>
  BY DEF Resend!Pass
<1>4. ResendTypes
  BY DEF ResendInv
<1>5. /\ Delay \in Nat /\ Period \in Nat /\ idle \in Nat /\ kept \in Nat /\ Resend!RoundTrip \in Nat
      /\ lost \in Nat
  BY <1>4, ResendConstants DEF ResendTypes
<1>6. fwd \in Seq(Datum) /\ acklist \in Seq(Note) /\ back \in Seq(Ack)
  BY <1>4 DEF ResendTypes
<1>7. /\ fwd' \in Seq(Datum)
      /\ \A m \in Items(fwd') : \E c \in Items(fwd) :
           m.sn = c.sn /\ m.ts = c.ts /\ m.age = c.age + 1
      /\ \A c \in Items(fwd) : \E m \in Items(fwd') : m.sn = c.sn /\ m.ts = c.ts
      /\ Rising(fwd) => Rising(fwd')
  BY <1>1, <1>5, <1>6, AgedFacts
<1>8. /\ back' \in Seq(Ack)
      /\ \A m \in Items(back') : \E c \in Items(back) :
           m.sn = c.sn /\ m.ts = c.ts /\ m.age = c.age + 1
      /\ \A c \in Items(back) : \E m \in Items(back') : m.sn = c.sn /\ m.ts = c.ts
      /\ Rising(back) => Rising(back')
  BY <1>1, <1>5, <1>6, AgedFacts
<1>9. DOMAIN snd_buf' = DOMAIN snd_buf /\ DOMAIN waited = DOMAIN snd_buf
  BY <1>2, <1>4 DEF ResendTypes
<1>10. ASSUME NEW sn \in DOMAIN snd_buf
       PROVE  /\ snd_buf'[sn] \in Resend!SegTimer
              /\ snd_buf'[sn].due = snd_buf[sn].due - 1
              /\ snd_buf'[sn].xmit = snd_buf[sn].xmit /\ snd_buf'[sn].rto = snd_buf[sn].rto
              /\ snd_buf'[sn].fastack = snd_buf[sn].fastack
              /\ waited'[sn] = waited[sn] + 1 /\ waited'[sn] \in Nat
  <2>1. snd_buf[sn] \in Resend!SegTimer /\ waited[sn] \in Nat
    BY <1>4, SegTypes
  <2>2. snd_buf'[sn] = [snd_buf[sn] EXCEPT !.due = @ - 1] /\ waited'[sn] = waited[sn] + 1
    BY <1>2, <1>9
  <2> QED
    BY <2>1, <2>2 DEF Resend!SegTimer
<1>11. \A m \in OnTheWay : \E c \in OnTheWay' : c.sn = m.sn /\ c.ts = m.ts
  BY <1>3, <1>7, <1>8 DEF OnTheWay
<1>12. \A m \in OnTheWay' : \E c \in OnTheWay : c.sn = m.sn /\ c.ts = m.ts
  BY <1>3, <1>7, <1>8 DEF OnTheWay
<1>13. ResendTypes'
  <2>1. \A m \in OnTheWay' : m.sn < snd_nxt'
    BY <1>3, <1>4, <1>12 DEF ResendTypes
  <2>2. idle' \in 0..Period /\ kept' \in 0..Period
    BY <1>1, <1>5
  <2>3. snd_buf' \in [DOMAIN snd_buf -> Resend!SegTimer] /\ waited' \in [DOMAIN snd_buf -> Nat]
    BY <1>2, <1>9, <1>10
  <2> QED
    BY <1>3, <1>4, <1>7, <1>8, <1>9, <2>1, <2>2, <2>3 DEF ResendTypes
<1>14. ASSUME NEW sn \in DOMAIN snd_buf PROVE TimerInv(sn)'
  <2> DEFINE s == snd_buf[sn]
  <2>1. TimerInv(sn)
    BY DEF ResendInv
  <2>2. s.xmit >= 1 /\ Resend!RoundTrip < s.rto /\ s.rto =< RtoOf(s.xmit)
        /\ s.due >= -idle /\ waited[sn] + s.due =< LatestSend(s.xmit) + TimerOf(s.xmit)
    BY <2>1 DEF TimerInv
  <2>3. s.due \in Int /\ waited[sn] \in Nat
    BY <1>4, SegTypes
  <2>4. s.due - 1 >= -idle' /\ (waited[sn] + 1) + (s.due - 1) = waited[sn] + s.due
    BY <1>1, <1>5, <2>2, <2>3
  <2> QED
    BY <1>10, <2>2, <2>4 DEF TimerInv
<1>15. ASSUME NEW sn \in DOMAIN snd_buf PROVE MissingInv(sn)'
  <2>1. snd_buf[sn].xmit \in Nat
    BY <1>4, SegTypes
  <2> QED
    BY <1>3, <1>5, <1>10, <1>11, <2>1, NoneLost DEF ResendInv
<1>16. ASSUME NEW sn \in DOMAIN snd_buf PROVE PaidInv(sn)'
  BY <1>3, <1>10 DEF ResendInv, PaidInv
<1>17. ASSUME NEW sn \in DOMAIN snd_buf, NEW ticks \in Nat, NEW k \in Nat,
              waited[sn] - ticks =< LatestSend(k), snd_buf[sn].due + ticks > Resend!RoundTrip
       PROVE  /\ waited'[sn] - (ticks + 1) =< LatestSend(k)
              /\ snd_buf'[sn].due + (ticks + 1) > Resend!RoundTrip
  <2>1. LatestSend(k) \in Int /\ waited[sn] \in Nat /\ snd_buf[sn].due \in Int
    BY <1>4, SegTypes, LatestSendType
  <2> QED
    BY <1>5, <1>10, <1>17, <2>1
<1>18. CopiesInv'
  <2>1. ASSUME NEW m \in Items(fwd') PROVE CopyInv(m, m.age)'
    <3>1. PICK c \in Items(fwd) : m.sn = c.sn /\ m.ts = c.ts /\ m.age = c.age + 1
      BY <1>7
    <3>2. c.ts \in Nat /\ c.age \in Nat
      BY <1>4, <1>5, WayTypes DEF OnTheWay
    <3>3. CopyInv(c, c.age)
      BY DEF ResendInv, CopiesInv
    <3> QED
      BY <1>9, <1>17, <3>1, <3>2, <3>3 DEF CopyInv
  <2>2. ASSUME NEW m \in Items(acklist) PROVE CopyInv(m, Delay + kept)'
    <3>1. m.ts \in Nat
      BY <1>4, WayTypes DEF OnTheWay
    <3>2. acklist # << >>
      BY <2>2 DEF Items
    <3>3. Delay + kept' = (Delay + kept) + 1 /\ Delay + kept \in Nat
      BY <1>1, <1>5, <3>2
    <3>4. CopyInv(m, Delay + kept)
      BY DEF ResendInv, CopiesInv
    <3> QED
      BY <1>9, <1>17, <3>1, <3>3, <3>4 DEF CopyInv
  <2>3. ASSUME NEW m \in Items(back') PROVE CopyInv(m, Delay + Period + m.age)'
    <3>1. PICK c \in Items(back) : m.sn = c.sn /\ m.ts = c.ts /\ m.age = c.age + 1
      BY <1>8
    <3>2. c.ts \in Nat /\ c.age \in Nat
      BY <1>4, <1>5, WayTypes DEF OnTheWay
    <3>3. CopyInv(c, Delay + Period + c.age)
      BY DEF ResendInv, CopiesInv
    <3>4. Delay + Period + m.age = (Delay + Period + c.age) + 1 /\ Delay + Period + c.age \in Nat
      BY <1>5, <3>1, <3>2
    <3> QED
      BY <1>9, <1>17, <3>1, <3>2, <3>3, <3>4 DEF CopyInv
  <2> QED
    BY <1>3, <2>1, <2>2, <2>3 DEF CopiesInv
<1>19. CalmInv'
  <2> SUFFICES ASSUME lost = 0
               PROVE  /\ \A sn \in DOMAIN snd_buf : snd_buf'[sn].xmit = 1
                      /\ Rising(back') /\ Rising(fwd')
                      /\ Before(Items(back'), Items(acklist)) /\ Before(Items(back'), Items(fwd'))
                      /\ Before(Items(acklist), Items(fwd'))
    BY <1>3, <1>9 DEF ResendInv, CalmInv
  <2>1. /\ Rising(back) /\ Rising(acklist) /\ Rising(fwd)
        /\ Before(Items(back), Items(acklist)) /\ Before(Items(back), Items(fwd))
        /\ Before(Items(acklist), Items(fwd))
        /\ \A sn \in DOMAIN snd_buf : snd_buf[sn].xmit = 1
    BY DEF ResendInv, CalmInv
  <2>2. /\ Rising(back') /\ Rising(fwd')
        /\ \A sn \in DOMAIN snd_buf : snd_buf'[sn].xmit = 1
    <3>1. Rising(back') /\ Rising(fwd')
      BY <1>7, <1>8, <2>1
    <3>2. \A sn \in DOMAIN snd_buf : snd_buf'[sn].xmit = 1
      BY <1>10, <2>1
    <3> QED
      BY <3>1, <3>2
  <2>3. Before(Items(back'), Items(acklist))
    BY <1>8, <2>1 DEF Before
  <2>4. Before(Items(acklist), Items(fwd'))
    BY <1>7, <2>1 DEF Before
  <2>5. Before(Items(back'), Items(fwd'))
    BY <1>7, <1>8, <2>1 DEF Before
  <2> QED
    BY <2>2, <2>3, <2>4, <2>5
<1> QED
  BY <1>9, <1>13, <1>14, <1>15, <1>16, <1>18, <1>19 DEF ResendInv

(* The least number of a set.                                              *)
LEMMA MinFacts ==
  ASSUME NEW T, T \subseteq Nat, T # {}
  PROVE  Resend!Min(T) \in T /\ \A y \in T : Resend!Min(T) =< y
<1>1. PICK x \in T : \A y \in T : x =< y
  BY LeastNat
<1> QED
  BY <1>1 DEF Resend!Min

(* Without losses a copy of every segment is on the way.                   *)
LEMMA NoneMissing ==
  ASSUME ResendInv, lost = 0, NEW sn \in DOMAIN snd_buf
  PROVE  \E m \in OnTheWay : m.sn = sn
<1>1. snd_buf[sn].xmit \in Nat /\ snd_buf[sn].xmit >= 1
  BY SegTypes DEF ResendInv, TimerInv
<1>2. Missing(sn) \in SUBSET (1..snd_buf[sn].xmit)
  BY DEF Missing
<1>3. IsFiniteSet(Missing(sn)) /\ Cardinality(Missing(sn)) \in Nat
  BY <1>1, <1>2, FewerMissing
<1>4. Cardinality(Missing(sn)) =< 0
  BY DEF ResendInv, MissingInv
<1>5. Missing(sn) = {}
  BY <1>3, <1>4, FS_EmptySet
<1>6. 1 \in 1..snd_buf[sn].xmit /\ 1 \notin Missing(sn)
  BY <1>1, <1>5
<1> QED
  BY <1>6 DEF Missing

(* An acknowledgement arrives: it removes segments, and may pass over      *)
(* others.                                                                 *)
LEMMA InputKeeps ==
  ASSUME Resend!RetransmitAssumption, ResendInv, Resend!ikcp_input
  PROVE  ResendInv'
<1>a. PICK h : h = Head(back)
  OBVIOUS
<1>b. PICK buf : buf = {sn \in DOMAIN snd_buf : sn >= h.una}
  OBVIOUS
<1>c. PICK una : una = Resend!Min(buf \cup {snd_nxt})
  OBVIOUS
<1>d. PICK left : left = buf \ (IF una =< h.sn THEN {h.sn} ELSE {})
  OBVIOUS
<1> DEFINE Over(sn) == Resend!PassedOver(sn, h.sn, una, buf)
<1>1. /\ back # << >> /\ back' = Tail(back) /\ rto' \in Rtos
      /\ snd_buf' = [sn \in left |->
                       [snd_buf[sn] EXCEPT !.fastack = IF Over(sn) THEN @ + 1 ELSE @]]
      /\ skips' = [sn \in left |-> skips[sn] + (IF Over(sn) THEN 1 ELSE 0)]
      /\ waited' = [sn \in left |-> waited[sn]]
      /\ snd_una' = Resend!Min(left \cup {snd_nxt})
  BY <1>a, <1>b, <1>c, <1>d DEF Resend!ikcp_input
<1>2. UNCHANGED <<queued, snd_nxt, state, idle, fwd, rcvd, acklist, kept, lost>>
  BY DEF Resend!ikcp_input, Resend!peer
<1>3. ResendTypes
  BY DEF ResendInv
<1>4. fwd \in Seq(Datum) /\ acklist \in Seq(Note) /\ back \in Seq(Ack)
      /\ snd_nxt \in Nat /\ lost \in Nat
  BY <1>3 DEF ResendTypes
<1>5. h \in Ack /\ back' \in Seq(Ack) /\ Items(back) = {h} \cup Items(back')
  BY <1>a, <1>1, <1>4, ItemsTail
<1>6. h.sn \in Nat /\ h.sn < snd_nxt /\ h.una \in Nat
  <2>1. h \in OnTheWay
    BY <1>5 DEF OnTheWay
  <2> QED
    BY <1>3, <1>5, <2>1 DEF ResendTypes, Ack
<1>7. left \subseteq buf /\ buf \subseteq DOMAIN snd_buf /\ DOMAIN snd_buf \subseteq Nat
  BY <1>b, <1>d, <1>3, SegTypes
<1>8. una \in buf \cup {snd_nxt} /\ una \in Nat /\ \A sn \in buf : una =< sn
  <2> DEFINE T == buf \cup {snd_nxt}
  <2>1. T \subseteq Nat /\ T # {}
    BY <1>4, <1>7
  <2> HIDE DEF T
  <2>2. Resend!Min(T) \in T /\ \A y \in T : Resend!Min(T) =< y
    BY <2>1, MinFacts
  <2> QED
    BY <1>c, <2>1, <2>2 DEF T
<1>9. h.sn \notin left
  BY <1>d, <1>8
<1>10. snd_una' \in Int
  <2> DEFINE T == left \cup {snd_nxt}
  <2>1. T \subseteq Nat /\ T # {}
    BY <1>4, <1>7
  <2> HIDE DEF T
  <2>2. Resend!Min(T) \in T
    BY <2>1, MinFacts
  <2> QED
    BY <1>1, <2>1, <2>2 DEF T
<1>11. DOMAIN snd_buf' = left
  BY <1>1
<1>12. ASSUME NEW sn \in left
       PROVE  /\ snd_buf'[sn] \in Resend!SegTimer
              /\ snd_buf'[sn].due = snd_buf[sn].due
              /\ snd_buf'[sn].xmit = snd_buf[sn].xmit /\ snd_buf'[sn].rto = snd_buf[sn].rto
              /\ snd_buf'[sn].fastack = snd_buf[sn].fastack + (IF Over(sn) THEN 1 ELSE 0)
              /\ skips'[sn] = skips[sn] + (IF Over(sn) THEN 1 ELSE 0) /\ skips'[sn] \in Nat
              /\ waited'[sn] = waited[sn] /\ waited'[sn] \in Nat
  <2>1. sn \in DOMAIN snd_buf
    BY <1>7
  <2>2. snd_buf[sn] \in Resend!SegTimer /\ waited[sn] \in Nat /\ skips[sn] \in Nat
        /\ snd_buf[sn].fastack \in Nat
    BY <1>3, <2>1, SegTypes
  <2>3. PICK one \in {0, 1} : one = IF Over(sn) THEN 1 ELSE 0
    OBVIOUS
  <2>4. /\ snd_buf'[sn] = [snd_buf[sn] EXCEPT !.fastack = IF Over(sn) THEN @ + 1 ELSE @]
        /\ skips'[sn] = skips[sn] + one /\ waited'[sn] = waited[sn]
    BY <1>1, <2>3
  <2> HIDE DEF Over
  <2>5. snd_buf'[sn] = [snd_buf[sn] EXCEPT !.fastack = @ + one]
    BY <2>2, <2>3, <2>4
  <2> QED
    BY <2>2, <2>3, <2>4, <2>5 DEF Resend!SegTimer
<1>13. \A m \in OnTheWay : m.sn \in left => m \in OnTheWay'
  BY <1>2, <1>5, <1>9 DEF OnTheWay
<1>14. OnTheWay' \subseteq OnTheWay
  BY <1>2, <1>5 DEF OnTheWay
<1>15. ResendTypes'
  <2>1. left \subseteq 0..(snd_nxt' - 1)
    BY <1>2, <1>3, <1>7 DEF ResendTypes
  <2>2. /\ snd_buf' \in [left -> Resend!SegTimer] /\ waited' \in [left -> Nat]
        /\ skips' \in [left -> Nat]
    <3> HIDE DEF Over
    <3> QED
      BY <1>1, <1>12
  <2>3. \A m \in OnTheWay' : m.sn < snd_nxt'
    BY <1>2, <1>3, <1>14 DEF ResendTypes
  <2> QED
    BY <1>1, <1>2, <1>3, <1>5, <1>10, <1>11, <2>1, <2>2, <2>3 DEF ResendTypes
<1>16. ASSUME NEW sn \in left PROVE TimerInv(sn)'
  <2>1. TimerInv(sn)
    BY <1>7 DEF ResendInv
  <2> QED
    BY <1>2, <1>12, <2>1 DEF TimerInv
<1>17. ASSUME NEW sn \in left PROVE MissingInv(sn)'
  <2>1. snd_buf[sn].xmit \in Nat /\ MissingInv(sn)
    BY <1>3, <1>7, SegTypes DEF ResendInv
  <2>2. \A m \in OnTheWay : m.sn = sn => \E c \in OnTheWay' : c.sn = sn /\ c.ts = m.ts
    BY <1>13
  <2> QED
    BY <1>2, <1>4, <1>12, <2>1, <2>2, NoneLost
<1>18. ASSUME NEW sn \in left PROVE PaidInv(sn)'
  <2>1. PaidInv(sn) /\ snd_buf[sn].fastack \in Nat /\ skips[sn] \in Nat
    BY <1>3, <1>7, SegTypes DEF ResendInv
  <2>2. PICK one \in {0, 1} : one = IF Over(sn) THEN 1 ELSE 0
    OBVIOUS
  <2> HIDE DEF Over
  <2>3. snd_buf'[sn].fastack = snd_buf[sn].fastack + one /\ skips'[sn] = skips[sn] + one
        /\ snd_buf'[sn].xmit = snd_buf[sn].xmit
    BY <1>12, <2>2
  <2>4. /\ skips'[sn] - snd_buf'[sn].fastack = skips[sn] - snd_buf[sn].fastack
        /\ snd_buf[sn].fastack =< skips[sn] => snd_buf'[sn].fastack =< skips'[sn]
    BY <2>1, <2>3
  <2> QED
    BY <1>2, <2>1, <2>3, <2>4 DEF PaidInv
<1>19. CopiesInv'
  <2>1. ASSUME NEW m, NEW ticks, CopyInv(m, ticks)
        PROVE  m.sn \in left => /\ waited'[m.sn] - ticks =< LatestSend(m.ts)
                                /\ snd_buf'[m.sn].due + ticks > Resend!RoundTrip
    BY <1>7, <1>12, <2>1 DEF CopyInv
  <2>2. \A m \in Items(fwd') : CopyInv(m, m.age)'
    BY <1>2, <1>11, <2>1 DEF ResendInv, CopiesInv, CopyInv
  <2>3. \A m \in Items(acklist') : CopyInv(m, Delay + kept)'
    BY <1>2, <1>11, <2>1 DEF ResendInv, CopiesInv, CopyInv
  <2>4. \A m \in Items(back') : CopyInv(m, Delay + Period + m.age)'
    BY <1>5, <1>11, <2>1 DEF ResendInv, CopiesInv, CopyInv
  <2> QED
    BY <2>2, <2>3, <2>4 DEF CopiesInv
<1>20. CalmInv'
  <2> SUFFICES ASSUME lost = 0
               PROVE  /\ \A sn \in left : snd_buf'[sn].xmit = 1 /\ skips'[sn] = 0
                      /\ Rising(back')
                      /\ Before(Items(back'), Items(acklist)) /\ Before(Items(back'), Items(fwd))
    BY <1>2, <1>11 DEF ResendInv, CalmInv
  <2>1. /\ Rising(back) /\ Before(Items(back), Items(acklist)) /\ Before(Items(back), Items(fwd))
        /\ \A sn \in DOMAIN snd_buf : snd_buf[sn].xmit = 1 /\ skips[sn] = 0
    BY DEF ResendInv, CalmInv
  <2>2. Rising(back') /\ \A m \in Items(back') : h.sn =< m.sn
    BY <1>a, <1>1, <1>4, <2>1, RisingTail
  <2>3. \A m \in OnTheWay : h.sn =< m.sn
    BY <1>5, <1>6, <2>1, <2>2 DEF OnTheWay, Before
  <2>4. \A sn \in DOMAIN snd_buf : h.sn =< sn
    BY <2>3, NoneMissing
  <2>5. ASSUME NEW sn \in left PROVE ~Over(sn)
    <3> SUFFICES ASSUME una =< h.sn, h.sn < snd_nxt, h.sn \in buf => sn < h.sn PROVE FALSE
      BY DEF Resend!PassedOver
    <3>1. una \in buf
      BY <1>4, <1>6, <1>8
    <3>2. h.sn =< una
      BY <1>7, <2>4, <3>1
    <3>3. una = h.sn
      BY <1>6, <1>8, <3>2
    <3>4. sn < h.sn
      BY <3>1, <3>3
    <3>5. h.sn =< sn /\ sn \in Nat
      BY <1>7, <2>4
    <3> QED
      BY <1>6, <3>4, <3>5
  <2>6. \A sn \in left : snd_buf'[sn].xmit = 1 /\ skips'[sn] = 0
    <3> HIDE DEF Over
    <3> QED
      BY <1>7, <1>12, <2>1, <2>5
  <2> QED
    BY <1>5, <2>1, <2>2, <2>6 DEF Before
<1> QED
  BY <1>11, <1>15, <1>16, <1>17, <1>18, <1>19, <1>20 DEF ResendInv

(* The timer of a copy: longer than a round trip, and not longer than it   *)
(* may be for that copy.                                                   *)
LEMMA TransmittedFacts ==
  ASSUME Resend!RetransmitAssumption, rto \in Rtos, NEW s \in Resend!SegTimer,
         Resend!NeedSend(s),
         s.xmit >= 1 => Resend!RoundTrip < s.rto /\ s.rto =< RtoOf(s.xmit)
  PROVE  LET t == Resend!Transmitted(s)
         IN /\ t \in Resend!SegTimer /\ t.xmit = s.xmit + 1
            /\ Resend!RoundTrip < t.rto /\ t.rto =< RtoOf(t.xmit)
            /\ t.rto =< t.due /\ t.due =< TimerOf(t.xmit)
            /\ t.fastack = IF Resend!Skipped(s) THEN 0 ELSE s.fastack
<1> DEFINE t == Resend!Transmitted(s)
           add == IF nodelay = 0 THEN rto ELSE rto \div 2
           spare == IF nodelay = 0 THEN rto \div 8 ELSE 0
<1>1. s.rto \in Nat /\ s.xmit \in Nat /\ s.fastack \in Nat
  BY DEF Resend!SegTimer
<1>2. /\ rto \in Nat /\ rto > Resend!RoundTrip /\ rto =< Resend!LongestRto
      /\ add \in Nat /\ add =< Grows /\ rto \div 8 \in Nat
      /\ rto \div 8 =< Resend!LongestRto \div 8
      /\ Resend!RoundTrip \in Nat /\ Resend!LongestRto \in Nat /\ Grows \in Nat
  BY ResendConstants
<1>3. \A k \in Nat \ {0} : /\ RtoOf(1) = Resend!LongestRto /\ RtoOf(k) \in Nat
                           /\ RtoOf(k + 1) = RtoOf(k) + Grows
                           /\ TimerOf(k) \in Nat /\ RtoOf(k) =< TimerOf(k)
                           /\ nodelay = 0 => TimerOf(1) = RtoOf(1) + Resend!LongestRto \div 8
  BY CopyToCopy
<1>4. PICK r, u : /\ r = CASE Resend!First(s) -> rto
                           [] Resend!TimedOut(s) -> s.rto + add
                           [] OTHER -> s.rto
                  /\ u = IF Resend!First(s) /\ nodelay = 0 THEN rto \div 8 ELSE 0
  OBVIOUS
<1>5. t = [rto |-> r, due |-> r + u, xmit |-> s.xmit + 1,
           fastack |-> IF Resend!Skipped(s) THEN 0 ELSE s.fastack]
  BY <1>4 DEF Resend!Transmitted
<1> HIDE DEF t, add, spare
<1> SUFFICES /\ r \in Nat /\ u \in Nat /\ Resend!RoundTrip < r
             /\ r =< RtoOf(s.xmit + 1) /\ r + u =< TimerOf(s.xmit + 1)
  <2> SUFFICES ASSUME /\ r \in Nat /\ u \in Nat /\ Resend!RoundTrip < r
                      /\ r =< RtoOf(s.xmit + 1) /\ r + u =< TimerOf(s.xmit + 1)
               PROVE  /\ t \in Resend!SegTimer /\ t.xmit = s.xmit + 1
                      /\ Resend!RoundTrip < t.rto /\ t.rto =< RtoOf(t.xmit)
                      /\ t.rto =< t.due /\ t.due =< TimerOf(t.xmit)
                      /\ t.fastack = IF Resend!Skipped(s) THEN 0 ELSE s.fastack
    BY DEF t
  <2>1. (IF Resend!Skipped(s) THEN 0 ELSE s.fastack) \in Nat /\ s.xmit + 1 \in Nat
        /\ r + u \in Int /\ r =< r + u
    BY <1>1
  <2> QED
    BY <1>5, <2>1 DEF Resend!SegTimer
<1>6. CASE Resend!First(s)
  <2>1. s.xmit + 1 = 1 /\ r = rto /\ u = IF nodelay = 0 THEN rto \div 8 ELSE 0
    BY <1>4, <1>6 DEF Resend!First, Resend!TimedOut
  <2>2. /\ RtoOf(1) = Resend!LongestRto /\ RtoOf(1) =< TimerOf(1) /\ TimerOf(1) \in Nat
        /\ nodelay = 0 => TimerOf(1) = RtoOf(1) + Resend!LongestRto \div 8
    BY <1>3
  <2>3. Resend!LongestRto \div 8 \in Nat
    BY <1>2
  <2> QED
    BY <1>2, <2>1, <2>2, <2>3
<1>7. CASE ~Resend!First(s)
  <2>1. s.xmit \in Nat \ {0} /\ Resend!RoundTrip < s.rto /\ s.rto =< RtoOf(s.xmit) /\ u = 0
    BY <1>1, <1>4, <1>7 DEF Resend!First
  <2>2. /\ RtoOf(s.xmit) \in Nat /\ RtoOf(s.xmit + 1) = RtoOf(s.xmit) + Grows
        /\ TimerOf(s.xmit + 1) \in Nat /\ RtoOf(s.xmit + 1) =< TimerOf(s.xmit + 1)
    <3>1. s.xmit + 1 \in Nat \ {0}
      BY <2>1
    <3> QED
      BY <1>3, <2>1, <3>1
  <2>3. r = s.rto + add \/ r = s.rto
    BY <1>4, <1>7
  <2> QED
    BY <1>1, <1>2, <2>1, <2>2, <2>3
<1> QED
  BY <1>6, <1>7

(* When the timer of a segment runs out, all its copies are lost.          *)
LEMMA TimeoutMeansLost ==
  ASSUME Resend!RetransmitAssumption, ResendInv, NEW sn \in DOMAIN snd_buf,
         snd_buf[sn].due =< 0
  PROVE  snd_buf[sn].xmit =< lost
<1>1. ResendTypes
  BY DEF ResendInv
<1>2. /\ snd_buf[sn].due \in Int /\ snd_buf[sn].xmit \in Nat /\ lost \in Nat
      /\ kept \in 0..Period
  BY <1>1, SegTypes DEF ResendTypes
<1>3. /\ Delay \in Nat /\ Period \in Nat /\ Resend!RoundTrip = 2 * Delay + Period
      /\ \A m \in Items(fwd) \cup Items(back) : m.age \in 0..Delay
  BY <1>1, ResendConstants, WayTypes
<1>4. ASSUME NEW ticks \in Nat, ticks =< 2 * Delay + Period,
             snd_buf[sn].due + ticks > Resend!RoundTrip
      PROVE  FALSE
  BY <1>2, <1>3, <1>4
<1>5. \A m \in Items(fwd) : m.sn # sn
  <2> SUFFICES ASSUME NEW m \in Items(fwd), m.sn = sn PROVE FALSE
    OBVIOUS
  <2>1. m.age \in Nat /\ m.age =< 2 * Delay + Period
    BY <1>3
  <2> QED
    BY <1>4, <2>1 DEF ResendInv, CopiesInv, CopyInv
<1>6. \A m \in Items(acklist) : m.sn # sn
  <2> SUFFICES ASSUME NEW m \in Items(acklist), m.sn = sn PROVE FALSE
    OBVIOUS
  <2>1. Delay + kept \in Nat /\ Delay + kept =< 2 * Delay + Period
    BY <1>2, <1>3
  <2> QED
    BY <1>4, <2>1 DEF ResendInv, CopiesInv, CopyInv
<1>7. \A m \in Items(back) : m.sn # sn
  <2> SUFFICES ASSUME NEW m \in Items(back), m.sn = sn PROVE FALSE
    OBVIOUS
  <2>1. Delay + Period + m.age \in Nat /\ Delay + Period + m.age =< 2 * Delay + Period
    BY <1>3
  <2> QED
    BY <1>4, <2>1 DEF ResendInv, CopiesInv, CopyInv
<1>8. Missing(sn) = 1..snd_buf[sn].xmit
  BY <1>5, <1>6, <1>7 DEF Missing, OnTheWay
<1>9. Cardinality(1..snd_buf[sn].xmit) =< lost
  BY <1>8 DEF ResendInv, MissingInv
<1>10. Cardinality(1..snd_buf[sn].xmit) = snd_buf[sn].xmit
  <2>1. 1 \in Int /\ snd_buf[sn].xmit \in Int
    BY <1>2
  <2>2. Cardinality(1..snd_buf[sn].xmit) =
          IF 1 > snd_buf[sn].xmit THEN 0 ELSE snd_buf[sn].xmit - 1 + 1
    BY <2>1, FS_Interval
  <2> QED
    BY <1>2, <2>2
<1> QED
  BY <1>9, <1>10

(* What a segment has paid for, when it is sent again.                     *)
LEMMA PaidWhenSent ==
  ASSUME Resend!RetransmitAssumption, ResendInv, NEW sn \in DOMAIN snd_buf,
         Resend!NeedSend(snd_buf[sn]),
         NEW fastack, fastack = IF Resend!Skipped(snd_buf[sn]) THEN 0 ELSE snd_buf[sn].fastack
  PROVE  /\ fastack =< skips[sn]
         /\ IF fastresend = 0 THEN snd_buf[sn].xmit =< lost
            ELSE (snd_buf[sn].xmit - lost) * fastresend =< skips[sn] - fastack
<1> DEFINE x == snd_buf[sn].xmit
           a == snd_buf[sn].fastack
           k == skips[sn]
<1>1. /\ x \in Nat /\ a \in Nat /\ k \in Nat /\ x >= 1 /\ lost \in Nat /\ fastresend \in Nat
      /\ a =< k /\ snd_buf[sn].due \in Int
  BY SegTypes, ResendConstants DEF ResendInv, ResendTypes, TimerInv, PaidInv
<1>2. CASE Resend!TimedOut(snd_buf[sn])
  <2>1. x =< lost
    BY <1>2, TimeoutMeansLost DEF Resend!TimedOut
  <2>2. fastack = a
    BY <1>2 DEF Resend!Skipped
  <2> HIDE DEF x, a, k
  <2>3. (x - lost) * fastresend =< 0
    <3>1. lost - x \in Nat
      BY <1>1, <2>1
    <3>2. (lost - x) * fastresend >= 0
      BY <1>1, <3>1
    <3>3. (x - lost) * fastresend = -((lost - x) * fastresend)
      BY <1>1
    <3> QED
      BY <1>1, <3>1, <3>2, <3>3
  <2>4. (x - lost) * fastresend \in Int
    BY <1>1
  <2> DEFINE p == (x - lost) * fastresend
  <2>5. p =< 0 /\ p \in Int
    BY <2>3, <2>4
  <2> HIDE DEF p
  <2>6. p =< k - a
    BY <1>1, <2>5
  <2> QED
    BY <1>1, <2>1, <2>2, <2>6 DEF p, x, a, k
<1>3. CASE ~Resend!TimedOut(snd_buf[sn])
  <2>1. Resend!Skipped(snd_buf[sn]) /\ fastresend > 0 /\ a >= fastresend /\ fastack = 0
    BY <1>1, <1>3 DEF Resend!NeedSend, Resend!Skipped, Resend!First
  <2>2. (x - 1 - lost) * fastresend =< k - a
    BY <1>1, <2>1 DEF ResendInv, PaidInv
  <2> HIDE DEF x, a, k
  <2> DEFINE p == (x - 1 - lost) * fastresend
             q == (x - lost) * fastresend
  <2>3. q = p + fastresend /\ p \in Int
    BY <1>1
  <2>4. p =< k - a
    BY <2>2
  <2> HIDE DEF p, q
  <2>5. q =< k - 0
    BY <1>1, <2>1, <2>3, <2>4
  <2> QED
    BY <1>1, <2>1, <2>5 DEF q, x, a, k
<1> QED
  BY <1>2, <1>3

(* Numbers below a limit.                                                  *)
LEMMA BelowLimit ==
  ASSUME NEW n \in Nat
  PROVE  /\ \A S : S \subseteq 0..(n - 1) => \A x \in S : x \in Nat /\ x < n
         /\ \A k \in Nat : k =< n => 0..(k - 1) \subseteq 0..(n - 1)
OBVIOUS

(* ikcp_flush moves segments into the buffer and sends what is due.        *)
LEMMA FlushKeeps ==
  ASSUME Resend!RetransmitAssumption, ResendInv, Resend!ikcp_flush
  PROVE  ResendInv'
<1>a. PICK moved : moved = Resend!Min({queued, Resend!Max({0, snd_una + snd_wnd - snd_nxt})})
  OBVIOUS
<1>b. PICK old : old = DOMAIN snd_buf
  OBVIOUS
<1>c. PICK all : all = old \cup (snd_nxt..(snd_nxt + moved - 1))
  OBVIOUS
<1>d. PICK buf : buf = [sn \in all |-> IF sn \in old THEN snd_buf[sn] ELSE Resend!Fresh]
  OBVIOUS
<1>e. PICK due : due = {sn \in all : Resend!NeedSend(buf[sn])}
  OBVIOUS
<1>1. /\ queued' = queued - moved /\ snd_nxt' = snd_nxt + moved /\ idle' = 0
      /\ snd_buf' = [sn \in all |-> IF sn \in due THEN Resend!Transmitted(buf[sn]) ELSE buf[sn]]
      /\ state' = IF \E sn \in due : snd_buf'[sn].xmit >= IKCP_DEADLINK THEN -1 ELSE state
      /\ fwd' = fwd \o Resend!Sent(due, snd_buf')
      /\ waited' = [sn \in all |-> IF sn \in old THEN waited[sn] ELSE 0]
      /\ skips' = [sn \in all |-> IF sn \in old THEN skips[sn] ELSE 0]
  BY <1>a, <1>b, <1>c, <1>d, <1>e DEF Resend!ikcp_flush
<1>2. UNCHANGED <<snd_una, rto, back, rcvd, acklist, kept, lost>>
  BY DEF Resend!ikcp_flush, Resend!peer
<1>3. ResendTypes
  BY DEF ResendInv
<1>4. /\ queued \in Nat /\ snd_nxt \in Nat /\ snd_una \in Int /\ snd_wnd \in Nat /\ lost \in Nat
      /\ rto \in Rtos /\ rto \in Nat /\ idle \in 0..Period /\ Period \in Nat /\ Delay \in Nat
      /\ Resend!RoundTrip \in Nat /\ snd_nxt + queued =< Count /\ Count \in Nat
      /\ IKCP_DEADLINK \in Nat /\ IKCP_DEADLINK > 1 /\ fastresend \in Nat /\ state \in Int
  BY <1>3, ResendConstants DEF ResendTypes
<1>5. fwd \in Seq(Datum) /\ acklist \in Seq(Note) /\ back \in Seq(Ack)
  BY <1>3 DEF ResendTypes
<1>6. moved \in Nat /\ moved =< queued
  <2>1. PICK room : room = Resend!Max({0, snd_una + snd_wnd - snd_nxt})
    OBVIOUS
  <2>2. room \in Nat
    <3>1. snd_una + snd_wnd - snd_nxt \in Int
      BY <1>4
    <3>2. PICK d \in Int : d = snd_una + snd_wnd - snd_nxt
      BY <3>1
    <3>3. \E x \in {0, d} : \A y \in {0, d} : x >= y
      BY <3>2
    <3> QED
      BY <2>1, <3>2, <3>3 DEF Resend!Max
  <2>3. {queued, room} \subseteq Nat /\ {queued, room} # {}
    BY <1>4, <2>2
  <2> QED
    BY <1>a, <2>1, <2>3, MinFacts
<1>7. /\ old \subseteq Nat /\ \A sn \in old : sn < snd_nxt
      /\ all \subseteq 0..(snd_nxt' - 1) /\ snd_nxt' \in Nat /\ snd_nxt =< snd_nxt'
      /\ \A sn \in all : sn \notin old => sn \in Nat /\ snd_nxt =< sn
      /\ old \subseteq all /\ due \subseteq all
  <2>1. \A sn \in old : sn \in Nat /\ sn < snd_nxt
    BY <1>b, <1>3, SegTypes
  <2> QED
    BY <1>c, <1>e, <1>1, <1>4, <1>6, <2>1
<1>8. DOMAIN snd_buf' = all
  BY <1>1
<1>9. ASSUME NEW sn \in old
      PROVE  /\ snd_buf[sn] \in Resend!SegTimer /\ buf[sn] = snd_buf[sn]
             /\ snd_buf[sn].xmit \in Nat /\ snd_buf[sn].xmit >= 1
             /\ Resend!RoundTrip < snd_buf[sn].rto /\ snd_buf[sn].rto =< RtoOf(snd_buf[sn].xmit)
             /\ waited'[sn] = waited[sn] /\ waited[sn] \in Nat
             /\ skips'[sn] = skips[sn] /\ skips[sn] \in Nat
             /\ TimerInv(sn) /\ MissingInv(sn) /\ PaidInv(sn)
  <2>1. sn \in DOMAIN snd_buf /\ sn \in all
    BY <1>b, <1>7
  <2> QED
    BY <1>d, <1>1, <1>3, <2>1, SegTypes DEF ResendInv, TimerInv
<1>10. ASSUME NEW sn \in all, sn \notin old
       PROVE  /\ buf[sn] \in Resend!SegTimer /\ buf[sn].xmit = 0 /\ buf[sn].fastack = 0
              /\ sn \in due /\ waited'[sn] = 0 /\ skips'[sn] = 0
  <2>1. buf[sn] = Resend!Fresh
    BY <1>d, <1>10
  <2> QED
    BY <1>e, <1>1, <1>4, <1>10, <2>1
       DEF Resend!Fresh, Resend!SegTimer, Resend!NeedSend, Resend!First
<1>11. ASSUME NEW sn \in due
       PROVE  LET t == snd_buf'[sn]
              IN /\ t \in Resend!SegTimer /\ t.xmit = buf[sn].xmit + 1
                 /\ Resend!RoundTrip < t.rto /\ t.rto =< RtoOf(t.xmit)
                 /\ t.rto =< t.due /\ t.due =< TimerOf(t.xmit)
                 /\ t.fastack = IF Resend!Skipped(buf[sn]) THEN 0 ELSE buf[sn].fastack
  <2>1. sn \in all /\ Resend!NeedSend(buf[sn]) /\ snd_buf'[sn] = Resend!Transmitted(buf[sn])
    BY <1>e, <1>1
  <2>2. buf[sn] \in Resend!SegTimer
        /\ (buf[sn].xmit >= 1 => Resend!RoundTrip < buf[sn].rto /\ buf[sn].rto =< RtoOf(buf[sn].xmit))
    BY <1>9, <1>10, <2>1
  <2> QED
    BY <1>4, <2>1, <2>2, TransmittedFacts
<1>12. ASSUME NEW sn \in all, sn \notin due
       PROVE  sn \in old /\ snd_buf'[sn] = snd_buf[sn] /\ ~Resend!NeedSend(snd_buf[sn])
  BY <1>e, <1>1, <1>9, <1>10, <1>12
<1>13. ASSUME NEW sn \in all
       PROVE  snd_buf'[sn] \in Resend!SegTimer /\ waited'[sn] \in Nat /\ skips'[sn] \in Nat
              /\ snd_buf'[sn].xmit \in Nat
  <2>1. snd_buf'[sn] \in Resend!SegTimer
    BY <1>9, <1>11, <1>12
  <2>2. waited'[sn] \in Nat /\ skips'[sn] \in Nat
    BY <1>9, <1>10
  <2> QED
    BY <2>1, <2>2 DEF Resend!SegTimer
<1>14. PICK new : new = Resend!Sent(due, snd_buf')
  OBVIOUS
<1>15. /\ new \in Seq(Datum)
       /\ \A m \in Items(new) : m.sn \in due /\ m.ts = snd_buf'[m.sn].xmit /\ m.age = 0
       /\ \A sn \in due : \E m \in Items(new) : m.sn = sn /\ m.ts = snd_buf'[sn].xmit
       /\ Rising(new)
  <2>1. due \subseteq 0..(snd_nxt' - 1) /\ \A sn \in due : snd_buf'[sn].xmit \in Nat
    BY <1>7, <1>13
  <2>2. PICK n, b : n = snd_nxt' /\ b = snd_buf'
    OBVIOUS
  <2>3. n \in Nat /\ due \subseteq 0..(n - 1) /\ \A sn \in due : b[sn].xmit \in Nat
    BY <1>7, <2>1, <2>2
  <2>4. /\ Resend!Sent(due, b) \in Seq(Datum)
        /\ \A m \in Items(Resend!Sent(due, b)) : m.sn \in due /\ m.ts = b[m.sn].xmit /\ m.age = 0
        /\ \A sn \in due : \E m \in Items(Resend!Sent(due, b)) : m.sn = sn /\ m.ts = b[sn].xmit
        /\ Rising(Resend!Sent(due, b))
    BY <1>4, <2>3, SentFacts
  <2> QED
    BY <1>14, <2>2, <2>4
<1>16. fwd' \in Seq(Datum) /\ Items(fwd') = Items(fwd) \cup Items(new)
  <2>1. fwd' = fwd \o new
    BY <1>1, <1>14
  <2>2. new \in Seq(Datum)
    BY <1>15
  <2> QED
    BY <1>5, <2>1, <2>2, ItemsConcat
<1>17. OnTheWay' = OnTheWay \cup Items(new)
  BY <1>2, <1>16 DEF OnTheWay
<1>18. \A m \in OnTheWay : m.sn \in Nat /\ m.ts \in Nat /\ m.sn < snd_nxt
  BY <1>3, WayTypes
<1>19. ResendTypes'
  <2>1. \A m \in OnTheWay' : m.sn < snd_nxt'
    <3>1. \A m \in Items(new) : m.sn < snd_nxt'
      <4>1. \A sn \in due : sn < snd_nxt'
        <5>1. PICK n \in Nat : n = snd_nxt' /\ due \subseteq 0..(n - 1)
          BY <1>7
        <5>2. \A sn \in due : sn < n
          BY <5>1, BelowLimit
        <5> QED
          BY <5>1, <5>2
      <4>2. \A m \in Items(new) : m.sn \in due
        BY <1>15
      <4> QED
        BY <4>1, <4>2
    <3>2. \A m \in OnTheWay : m.sn < snd_nxt'
      BY <1>4, <1>7, <1>18
    <3> QED
      BY <1>17, <3>1, <3>2
  <2>2. queued' \in Nat /\ snd_nxt' + queued' =< Count /\ idle' \in 0..Period
    BY <1>1, <1>4, <1>6
  <2>3. rcvd' \subseteq 0..(snd_nxt' - 1)
    <3>1. rcvd \subseteq 0..(snd_nxt - 1)
      BY <1>3 DEF ResendTypes
    <3>2. 0..(snd_nxt - 1) \subseteq 0..(snd_nxt' - 1)
      <4>1. PICK n \in Nat, k \in Nat : n = snd_nxt' /\ k = snd_nxt /\ k =< n
        BY <1>4, <1>7
      <4>2. 0..(k - 1) \subseteq 0..(n - 1)
        BY <4>1, BelowLimit
      <4> QED
        BY <4>1, <4>2
    <3> QED
      BY <1>2, <3>1, <3>2
  <2>4. state' \in Int
    BY <1>1, <1>4
  <2>5. snd_buf' \in [all -> Resend!SegTimer] /\ waited' \in [all -> Nat] /\ skips' \in [all -> Nat]
    BY <1>1, <1>13
  <2> QED
    BY <1>2, <1>3, <1>7, <1>8, <1>16, <2>1, <2>2, <2>3, <2>4, <2>5 DEF ResendTypes
<1>20. ASSUME NEW sn \in due PROVE waited'[sn] =< LatestSend(snd_buf'[sn].xmit)
  <2>1. CASE sn \in old
    <3> DEFINE x == snd_buf[sn].xmit
    <3>1. x \in Nat \ {0} /\ snd_buf'[sn].xmit = x + 1 /\ snd_buf[sn].due \in Int
      BY <1>b, <1>3, <1>9, <1>11, <2>1, SegTypes
    <3>2. /\ snd_buf[sn].due >= -idle
          /\ waited[sn] + snd_buf[sn].due =< LatestSend(x) + TimerOf(x)
      BY <1>9, <2>1 DEF TimerInv
    <3>3. /\ LatestSend(x) \in Int /\ TimerOf(x) \in Nat
          /\ LatestSend(x + 1) = LatestSend(x) + TimerOf(x) + Period
      BY <3>1, CopyToCopy
    <3>4. waited[sn] \in Nat /\ waited'[sn] = waited[sn]
      BY <1>9, <2>1
    <3> HIDE DEF x
    <3>5. waited[sn] =< LatestSend(x + 1)
      BY <1>4, <3>1, <3>2, <3>3, <3>4
    <3> QED
      BY <3>1, <3>4, <3>5
  <2>2. CASE sn \notin old
    <3>1. waited'[sn] = 0 /\ snd_buf'[sn].xmit = 1
      BY <1>7, <1>10, <1>11, <2>2
    <3>2. LatestSend(1) = 0
      BY CopyToCopy
    <3> QED
      BY <3>1, <3>2
  <2> QED
    BY <2>1, <2>2
<1>21. ASSUME NEW sn \in all PROVE TimerInv(sn)'
  <2>1. CASE sn \in due
    <3>1. snd_buf'[sn].xmit \in Nat \ {0}
      <4>1. buf[sn].xmit \in Nat
        BY <1>9, <1>10
      <4> QED
        BY <1>11, <2>1, <4>1
    <3> DEFINE t == snd_buf'[sn]
    <3>2. /\ t.rto \in Nat /\ t.due \in Int /\ Resend!RoundTrip < t.rto /\ t.rto =< RtoOf(t.xmit)
          /\ t.rto =< t.due /\ t.due =< TimerOf(t.xmit)
      BY <1>11, <2>1 DEF Resend!SegTimer
    <3>3. LatestSend(t.xmit) \in Int /\ TimerOf(t.xmit) \in Nat
      BY <3>1, CopyToCopy
    <3>4. waited'[sn] =< LatestSend(t.xmit) /\ waited'[sn] \in Nat
      BY <1>13, <1>20, <2>1
    <3>5. t.due >= -idle' /\ waited'[sn] + t.due =< LatestSend(t.xmit) + TimerOf(t.xmit)
      <4> HIDE DEF t
      <4>1. PICK w \in Nat, d \in Int : w = waited'[sn] /\ d = t.due
        BY <3>2, <3>4
      <4>2. PICK l \in Int, e \in Nat : l = LatestSend(t.xmit) /\ e = TimerOf(t.xmit)
        BY <3>3
      <4>3. d >= 0 /\ d =< e /\ w =< l
        BY <3>2, <3>4, <4>1, <4>2
      <4>4. w + d =< l + e
        BY <4>3
      <4>5. d >= -idle'
        BY <1>1, <1>4, <4>3
      <4> QED
        BY <4>1, <4>2, <4>4, <4>5
    <3> QED
      BY <3>1, <3>2, <3>5 DEF TimerInv
  <2>2. CASE sn \notin due
    <3>1. sn \in old /\ snd_buf'[sn] = snd_buf[sn] /\ ~Resend!NeedSend(snd_buf[sn])
      BY <1>12, <2>2
    <3>2. TimerInv(sn) /\ waited'[sn] = waited[sn] /\ snd_buf[sn].xmit >= 1 /\ snd_buf[sn].xmit \in Nat
      BY <1>9, <3>1
    <3>3. snd_buf[sn].due \in Int
      BY <1>b, <1>3, <3>1, SegTypes
    <3>4. snd_buf[sn].due >= -idle'
      BY <1>1, <3>1, <3>2, <3>3 DEF Resend!NeedSend, Resend!TimedOut, Resend!First
    <3> QED
      BY <3>1, <3>2, <3>4 DEF TimerInv
  <2> QED
    BY <2>1, <2>2
<1>22. ASSUME NEW sn \in all PROVE MissingInv(sn)'
  <2>1. ASSUME NEW x \in Nat, NEW S \in SUBSET (1..x), Cardinality(S) =< lost, Missing(sn)' \subseteq S
        PROVE  MissingInv(sn)'
    <3>1. PICK T : T = Missing(sn)'
      OBVIOUS
    <3>2. Cardinality(T) \in Nat /\ Cardinality(S) \in Nat /\ Cardinality(T) =< Cardinality(S)
      BY <2>1, <3>1, FewerMissing
    <3>3. Cardinality(T) =< lost'
      BY <1>2, <1>4, <2>1, <3>2
    <3> QED
      BY <3>1, <3>3 DEF MissingInv
  <2>2. CASE sn \in old
    <3>1. Cardinality(Missing(sn)) =< lost /\ Missing(sn) \in SUBSET (1..snd_buf[sn].xmit)
          /\ snd_buf[sn].xmit \in Nat
      BY <1>9, <2>2 DEF MissingInv, Missing
    <3>2. CASE sn \notin due
      <4>1. snd_buf'[sn].xmit = snd_buf[sn].xmit
        BY <1>12, <3>2
      <4>2. Missing(sn)' \subseteq Missing(sn)
        BY <1>17, <4>1 DEF Missing
      <4> QED
        BY <2>1, <3>1, <4>2
    <3>3. CASE sn \in due
      <4>1. snd_buf'[sn].xmit = snd_buf[sn].xmit + 1
        BY <1>9, <1>11, <2>2, <3>3
      <4>2. snd_buf'[sn].xmit \notin Missing(sn)'
        BY <1>15, <1>17, <3>3 DEF Missing
      <4>3. \A k \in Missing(sn)' : k \in 1..(snd_buf[sn].xmit + 1) /\ k # snd_buf[sn].xmit + 1
        BY <4>1, <4>2 DEF Missing
      <4>4. \A k \in Missing(sn)' : k \in 1..snd_buf[sn].xmit
        BY <3>1, <4>3
      <4>5. Missing(sn)' \subseteq Missing(sn)
        BY <1>17, <4>4 DEF Missing
      <4> QED
        BY <2>1, <3>1, <4>5
    <3> QED
      BY <3>2, <3>3
  <2>3. CASE sn \notin old
    <3>1. sn \in due /\ snd_buf'[sn].xmit = 1
      BY <1>10, <1>11, <2>3
    <3>2. 1 \notin Missing(sn)'
      BY <1>15, <1>17, <3>1 DEF Missing
    <3>3. Missing(sn)' \subseteq 1..1
      BY <3>1 DEF Missing
    <3>4. Missing(sn)' \subseteq {}
      BY <3>2, <3>3
    <3>5. Cardinality({}) = 0 /\ {} \in SUBSET (1..0)
      BY FS_EmptySet
    <3> QED
      BY <1>4, <2>1, <3>4, <3>5
  <2> QED
    BY <2>2, <2>3
<1>23. ASSUME NEW sn \in all PROVE PaidInv(sn)'
  <2>1. CASE sn \notin due
    BY <1>2, <1>9, <1>12, <2>1 DEF PaidInv
  <2>2. CASE sn \in due /\ sn \in old
    <3>1. /\ snd_buf'[sn].xmit - 1 = snd_buf[sn].xmit
          /\ snd_buf'[sn].fastack = IF Resend!Skipped(snd_buf[sn]) THEN 0 ELSE snd_buf[sn].fastack
      BY <1>9, <1>11, <2>2
    <3>2. Resend!NeedSend(snd_buf[sn]) /\ sn \in DOMAIN snd_buf
      BY <1>b, <1>e, <1>9, <2>2
    <3>3. PICK f : f = snd_buf'[sn].fastack
      OBVIOUS
    <3>4. /\ f =< skips[sn]
          /\ IF fastresend = 0 THEN snd_buf[sn].xmit =< lost
             ELSE (snd_buf[sn].xmit - lost) * fastresend =< skips[sn] - f
      BY <3>1, <3>2, <3>3, PaidWhenSent
    <3> QED
      BY <1>2, <1>9, <2>2, <3>1, <3>3, <3>4 DEF PaidInv
  <2>3. CASE sn \notin old
    <3>1. snd_buf'[sn].xmit = 1 /\ snd_buf'[sn].fastack = 0 /\ skips'[sn] = 0
      BY <1>10, <1>11, <2>3
    <3>2. (1 - 1 - lost) * fastresend =< 0
      <4>1. lost * fastresend \in Nat /\ (1 - 1 - lost) * fastresend = -(lost * fastresend)
        BY <1>4
      <4> QED
        BY <4>1
    <3> QED
      BY <1>2, <1>4, <3>1, <3>2 DEF PaidInv
  <2> QED
    BY <2>1, <2>2, <2>3
<1>24. CopiesInv'
  <2>1. ASSUME NEW m \in OnTheWay, NEW ticks \in Nat, CopyInv(m, ticks)
        PROVE  m.sn \in all => /\ waited'[m.sn] - ticks =< LatestSend(m.ts)
                               /\ snd_buf'[m.sn].due + ticks > Resend!RoundTrip
    <3> SUFFICES ASSUME m.sn \in all
                 PROVE  /\ waited'[m.sn] - ticks =< LatestSend(m.ts)
                        /\ snd_buf'[m.sn].due + ticks > Resend!RoundTrip
      OBVIOUS
    <3>1. m.sn \in old
      BY <1>4, <1>7, <1>18
    <3>2. /\ waited[m.sn] - ticks =< LatestSend(m.ts) /\ waited'[m.sn] = waited[m.sn]
          /\ snd_buf[m.sn].due + ticks > Resend!RoundTrip
      BY <1>b, <1>9, <2>1, <3>1 DEF CopyInv
    <3>3. CASE m.sn \in due
      <4>1. /\ snd_buf'[m.sn].rto \in Nat /\ snd_buf'[m.sn].due \in Int
            /\ Resend!RoundTrip < snd_buf'[m.sn].rto /\ snd_buf'[m.sn].rto =< snd_buf'[m.sn].due
        BY <1>11, <3>3 DEF Resend!SegTimer
      <4> QED
        BY <1>4, <3>2, <4>1
    <3>4. CASE m.sn \notin due
      BY <1>12, <3>2, <3>4
    <3> QED
      BY <3>3, <3>4
  <2>2. /\ \A m \in Items(fwd) \cup Items(back) : m.age \in Nat
        /\ \A m \in Items(back) : Delay + Period + m.age \in Nat
        /\ Delay + kept \in Nat /\ kept' = kept
    <3>1. \A m \in Items(fwd) \cup Items(back) : m.age \in 0..Delay
      BY <1>3, WayTypes
    <3>2. \A m \in Items(fwd) \cup Items(back) : m.age \in Nat
      BY <1>4, <3>1
    <3>3. kept \in Nat
      BY <1>3, <1>4 DEF ResendTypes
    <3> QED
      BY <1>2, <1>4, <3>2, <3>3
  <2>3. \A m \in Items(fwd) : CopyInv(m, m.age)'
    BY <1>8, <2>1, <2>2 DEF ResendInv, CopiesInv, CopyInv, OnTheWay
  <2>4. \A m \in Items(acklist') : CopyInv(m, Delay + kept)'
    BY <1>2, <1>8, <2>1, <2>2 DEF ResendInv, CopiesInv, CopyInv, OnTheWay
  <2>5. \A m \in Items(back') : CopyInv(m, Delay + Period + m.age)'
    BY <1>2, <1>8, <2>1, <2>2 DEF ResendInv, CopiesInv, CopyInv, OnTheWay
  <2>6. ASSUME NEW m \in Items(new) PROVE CopyInv(m, m.age)'
    <3>1. m.sn \in due /\ m.ts = snd_buf'[m.sn].xmit /\ m.age = 0
      BY <1>15
    <3>2. waited'[m.sn] =< LatestSend(m.ts) /\ waited'[m.sn] \in Nat
      BY <1>7, <1>13, <1>20, <3>1
    <3>3. /\ snd_buf'[m.sn].rto \in Nat /\ snd_buf'[m.sn].due \in Int
          /\ Resend!RoundTrip < snd_buf'[m.sn].rto /\ snd_buf'[m.sn].rto =< snd_buf'[m.sn].due
      BY <1>11, <3>1 DEF Resend!SegTimer
    <3>4. waited'[m.sn] - 0 =< LatestSend(m.ts) /\ snd_buf'[m.sn].due + 0 > Resend!RoundTrip
      BY <1>4, <3>2, <3>3
    <3> QED
      BY <3>1, <3>4 DEF CopyInv
  <2> QED
    BY <1>16, <2>3, <2>4, <2>5, <2>6 DEF CopiesInv
<1>25. CalmInv'
  <2> SUFFICES ASSUME lost = 0
               PROVE  /\ state' = 0
                      /\ \A sn \in all : snd_buf'[sn].xmit = 1 /\ skips'[sn] = 0
                      /\ Rising(fwd')
                      /\ Before(Items(back), Items(fwd')) /\ Before(Items(acklist), Items(fwd'))
    BY <1>2, <1>8 DEF ResendInv, CalmInv
  <2>1. /\ Rising(back) /\ Rising(acklist) /\ Rising(fwd) /\ state = 0
        /\ Before(Items(back), Items(acklist)) /\ Before(Items(back), Items(fwd))
        /\ Before(Items(acklist), Items(fwd))
        /\ \A sn \in old : snd_buf[sn].xmit = 1 /\ skips[sn] = 0
    BY <1>b DEF ResendInv, CalmInv
  <2>2. ASSUME NEW sn \in due PROVE sn \notin old
    <3> SUFFICES ASSUME sn \in old PROVE FALSE
      OBVIOUS
    <3>1. sn \in DOMAIN snd_buf /\ Resend!NeedSend(snd_buf[sn]) /\ snd_buf[sn].xmit = 1 /\ skips[sn] = 0
      BY <1>b, <1>e, <1>9, <2>1, <2>2
    <3>2. snd_buf[sn].due \in Int /\ snd_buf[sn].fastack \in Nat /\ snd_buf[sn].fastack =< 0
      BY <1>3, <1>9, <3>1, SegTypes DEF PaidInv
    <3>3. ~(snd_buf[sn].due =< 0)
      BY <3>1, TimeoutMeansLost
    <3>4. Resend!Skipped(snd_buf[sn])
      BY <3>1, <3>3 DEF Resend!NeedSend, Resend!First, Resend!TimedOut
    <3> QED
      BY <1>4, <3>2, <3>4 DEF Resend!Skipped
  <2>3. \A sn \in all : snd_buf'[sn].xmit = 1 /\ skips'[sn] = 0
    <3> TAKE sn \in all
    <3>1. CASE sn \in old
      BY <1>9, <1>12, <2>1, <2>2, <3>1
    <3>2. CASE sn \notin old
      BY <1>10, <1>11, <3>2
    <3> QED
      BY <3>1, <3>2
  <2>4. state' = 0
    BY <1>1, <1>4, <1>7, <2>1, <2>3
  <2>5. \A m \in Items(new) : m.sn \in Nat /\ snd_nxt =< m.sn
    BY <1>7, <1>15, <2>2
  <2>6. Before(OnTheWay, Items(new))
    BY <1>4, <1>18, <2>5 DEF Before
  <2>7. Before(Items(fwd), Items(new))
    BY <2>6 DEF Before, OnTheWay
  <2>8. Rising(fwd')
    BY <1>1, <1>5, <1>14, <1>15, <2>1, <2>7, RisingConcat
  <2>9. Before(Items(back), Items(fwd')) /\ Before(Items(acklist), Items(fwd'))
    BY <1>16, <2>1, <2>6 DEF Before, OnTheWay
  <2> QED
    BY <2>3, <2>4, <2>8, <2>9
<1> QED
  BY <1>8, <1>19, <1>21, <1>22, <1>23, <1>24, <1>25 DEF ResendInv

(* Every step of the sender, the peer, the path and the clock.             *)
LEMMA ResendStep ==
  ASSUME Resend!RetransmitAssumption, ResendInv, [Resend!Next]_(Resend!vars)
  PROVE  ResendInv'
<1>1. CASE UNCHANGED Resend!vars
  <2>1. UNCHANGED resendVars
    BY <1>1 DEF Resend!vars, Resend!sender, Resend!peer, resendVars
  <2> QED
    BY <2>1, ResendStands
<1>2. CASE Resend!Next
  BY <1>2, SendKeeps, FlushKeeps, InputKeeps, PeerInputKeeps, PeerFlushKeeps, LoseKeeps, PassKeeps
     DEF Resend!Next
<1> QED
  BY <1>1, <1>2

(* Of lost + 1 copies one is on the way, and its acknowledgement is near;  *)
(* if there are fewer, the timer of the last one runs out in time.         *)
LEMMA ResendInTime ==
  ASSUME Resend!RetransmitAssumption, ResendInv
  PROVE  Resend!RecoversInTime
<1>1. ResendTypes
  BY DEF ResendInv
<1>2. /\ Delay \in Nat /\ Period \in Nat /\ idle \in 0..Period /\ kept \in 0..Period
      /\ lost \in Nat /\ Resend!RoundTrip = 2 * Delay + Period
  BY <1>1, ResendConstants DEF ResendTypes
<1>3. LatestSend(lost + 1) \in Int /\ Resend!Patience(lost) = LatestSend(lost + 1) + Resend!RoundTrip
  <2>1. lost + 1 \in Nat /\ (lost + 1) - 1 = lost
    BY <1>2
  <2>2. LatestSend(lost + 1) \in Int
    BY <2>1, LatestSendType
  <2>3. LatestSend(lost + 1) = Resend!Patience(lost) - Resend!RoundTrip
    BY <2>1, Zenon DEF LatestSend
  <2>4. Resend!Patience(lost) \in Int
    <3>1. lost \in Int
      BY <1>2
    <3> QED
      BY <3>1, PatienceType
  <2> QED
    BY <1>2, <2>2, <2>3, <2>4
<1> SUFFICES ASSUME NEW sn \in DOMAIN snd_buf
             PROVE  waited[sn] =< LatestSend(lost + 1) + Resend!RoundTrip
  BY <1>3 DEF Resend!RecoversInTime
<1> DEFINE x == snd_buf[sn].xmit
<1>4. x \in Nat \ {0} /\ snd_buf[sn].due \in Int /\ waited[sn] \in Nat
      /\ snd_buf[sn].due >= -idle /\ waited[sn] + snd_buf[sn].due =< LatestSend(x) + TimerOf(x)
  BY <1>1, SegTypes DEF ResendInv, TimerInv
<1>5. CASE x =< lost
  <2>1. /\ LatestSend(x) \in Int /\ TimerOf(x) \in Nat
        /\ LatestSend(x + 1) = LatestSend(x) + TimerOf(x) + Period
    BY <1>4, CopyToCopy
  <2>2. LatestSend(x + 1) =< LatestSend(lost + 1)
    <3>1. x + 1 \in 1..(lost + 1)
      BY <1>2, <1>4, <1>5
    <3> HIDE DEF x
    <3> QED
      BY <1>2, <3>1, LaterCopies
  <2> HIDE DEF x
  <2> QED
    BY <1>2, <1>3, <1>4, <2>1, <2>2
<1>6. CASE x > lost
  <2>1. PICK k \in 1..(lost + 1) : k \notin Missing(sn)
    <3> SUFFICES ASSUME 1..(lost + 1) \subseteq Missing(sn) PROVE FALSE
      OBVIOUS
    <3>1. PICK T : T = 1..(lost + 1)
      OBVIOUS
    <3>2. PICK S : S = Missing(sn)
      OBVIOUS
    <3>3. S \in SUBSET (1..x) /\ T \in SUBSET S /\ x \in Nat
      BY <1>4, <3>1, <3>2 DEF Missing
    <3>4. Cardinality(T) =< Cardinality(S) /\ Cardinality(S) \in Nat
      BY <3>3, FewerMissing
    <3>5. Cardinality(S) =< lost
      BY <3>2 DEF ResendInv, MissingInv
    <3>6. Cardinality(T) = lost + 1
      <4>1. 1 \in Int /\ lost + 1 \in Int
        BY <1>2
      <4>2. Cardinality(1..(lost + 1)) = IF 1 > lost + 1 THEN 0 ELSE (lost + 1) - 1 + 1
        BY <4>1, FS_Interval
      <4> QED
        BY <1>2, <3>1, <4>2
    <3> QED
      BY <1>2, <3>4, <3>5, <3>6
  <2>2. k \in 1..x /\ k \in Nat
    BY <1>2, <1>4, <1>6
  <2>3. PICK m \in OnTheWay : m.sn = sn /\ m.ts = k
    BY <2>1, <2>2 DEF Missing
  <2>4. LatestSend(k) =< LatestSend(lost + 1) /\ LatestSend(k) \in Int
    BY <1>2, <2>1, <2>2, LaterCopies, LatestSendType
  <2>5. \E ticks \in Nat : ticks =< Resend!RoundTrip /\ waited[sn] - ticks =< LatestSend(k)
    <3>1. \A i \in Items(fwd) \cup Items(back) : i.age \in 0..Delay
      BY <1>1, WayTypes
    <3>2. CASE m \in Items(fwd)
      <4>1. m.age \in Nat /\ m.age =< Resend!RoundTrip
        BY <1>2, <3>1, <3>2
      <4>2. waited[sn] - m.age =< LatestSend(k)
        BY <2>3, <3>2 DEF ResendInv, CopiesInv, CopyInv
      <4> QED
        BY <4>1, <4>2
    <3>3. CASE m \in Items(acklist)
      <4>1. Delay + kept \in Nat /\ Delay + kept =< Resend!RoundTrip
        BY <1>2
      <4>2. waited[sn] - (Delay + kept) =< LatestSend(k)
        BY <2>3, <3>3 DEF ResendInv, CopiesInv, CopyInv
      <4> QED
        BY <4>1, <4>2
    <3>4. CASE m \in Items(back)
      <4>1. Delay + Period + m.age \in Nat /\ Delay + Period + m.age =< Resend!RoundTrip
        BY <1>2, <3>1, <3>4
      <4>2. waited[sn] - (Delay + Period + m.age) =< LatestSend(k)
        BY <2>3, <3>4 DEF ResendInv, CopiesInv, CopyInv
      <4> QED
        BY <4>1, <4>2
    <3> QED
      BY <2>3, <3>2, <3>3, <3>4 DEF OnTheWay
  <2>6. PICK ticks \in Nat : ticks =< Resend!RoundTrip /\ waited[sn] - ticks =< LatestSend(k)
    BY <2>5
  <2> QED
    BY <1>2, <1>3, <1>4, <2>4, <2>6
<1> QED
  BY <1>2, <1>4, <1>5, <1>6

(* The invariant counts what Paid counts, with whole divisions.            *)
LEMMA ResendPaid ==
  ASSUME Resend!RetransmitAssumption, ResendInv
  PROVE  Resend!Paid
<1>1. ASSUME NEW sn \in DOMAIN snd_buf
      PROVE  snd_buf[sn].xmit - 1 =<
               lost + (IF fastresend = 0 THEN 0 ELSE skips[sn] \div fastresend)
  <2> DEFINE x == snd_buf[sn].xmit
             a == snd_buf[sn].fastack
             k == skips[sn]
  <2>1. x \in Nat /\ a \in Nat /\ k \in Nat /\ lost \in Nat /\ fastresend \in Nat
    BY SegTypes, ResendConstants DEF ResendInv, ResendTypes
  <2>2. IF fastresend = 0 THEN x - 1 =< lost ELSE (x - 1 - lost) * fastresend =< k - a
    BY DEF ResendInv, PaidInv
  <2> HIDE DEF x, a, k
  <2>3. CASE fastresend = 0
    BY <2>1, <2>2, <2>3 DEF x
  <2>4. CASE fastresend # 0
    <3> DEFINE d == x - 1 - lost
               q == k \div fastresend
    <3>1. d \in Int /\ fastresend >= 1 /\ d * fastresend =< k - a
      BY <2>1, <2>2, <2>4
    <3>2. q \in Nat /\ k < (q + 1) * fastresend
      BY <2>1, <2>4
    <3>3. d =< q
      <4> HIDE DEF d, q
      <4> SUFFICES ASSUME d >= q + 1 PROVE FALSE
        BY <3>1, <3>2
      <4>1. d * fastresend >= (q + 1) * fastresend
        BY <2>1, <3>1, <3>2
      <4> DEFINE p == d * fastresend
                 r == (q + 1) * fastresend
      <4>2. p \in Int /\ r \in Int /\ p >= r /\ k < r /\ p =< k - a
        BY <2>1, <3>1, <3>2, <4>1
      <4> HIDE DEF p, r
      <4> QED
        BY <2>1, <4>2
    <3>4. x - 1 =< lost + q
      <4> HIDE DEF q
      <4> QED
        BY <2>1, <3>2, <3>3
    <3> QED
      BY <2>4, <3>4 DEF x, k
  <2> QED
    BY <2>3, <2>4
<1>2. lost = 0 => state = 0 /\ \A sn \in DOMAIN snd_buf : snd_buf[sn].xmit = 1
  BY DEF ResendInv, CalmInv
<1> QED
  BY <1>1, <1>2 DEF Resend!Paid

(* The retransmissions of a control block are those of KcpRetransmit.      *)
LEMMA ResendAlways ==
  ASSUME Resend!RetransmitAssumption
  PROVE  TimingSpec => []ResendInv
<1>1. TimingInit => ResendInv
  BY ResendStarts DEF TimingInit
<1>2. [TimingNext]_timing => [Resend!Next]_(Resend!vars)
  BY DEF TimingNext, timing, resendVars, Resend!vars, Resend!sender, Resend!peer
<1>3. ResendInv /\ [TimingNext]_timing => ResendInv'
  BY <1>2, ResendStep
<1> QED
  BY <1>1, <1>3, PTL DEF TimingSpec

(* ikcp_flush: a segment of which `lost' copies or acknowledgements were   *)
(* lost, at most, is acknowledged within so many timers, each longer than  *)
(* the one before, and a round trip, whatever was sent again early.        *)
THEOREM RecoversAlwaysInTime ==
  ASSUME Resend!RetransmitAssumption
  PROVE  TimingSpec => []RecoversInTime
<1>1. ResendInv => RecoversInTime
  BY ResendInTime DEF RecoversInTime
<1> QED
  BY <1>1, ResendAlways, PTL

(* ikcp_flush, ikcp_parse_ack: no segment is sent again without a loss or  *)
(* `fastresend' acknowledgements that passed it over, and without losses   *)
(* none is sent twice and the link is not given up.                        *)
THEOREM AlwaysPaid ==
  ASSUME Resend!RetransmitAssumption
  PROVE  TimingSpec => []Paid
<1>1. ResendInv => Paid
  BY ResendPaid DEF Paid
<1> QED
  BY <1>1, ResendAlways, PTL

=============================================================================
