------------------------------- MODULE KcpRtt -------------------------------
(***************************************************************************)
(* The round-trip estimate of a control block: ikcp_update_ack for every   *)
(* ACK, with the integer arithmetic of the code at a smaller width.  A     *)
(* product or sum that overflows a signed int is undefined; a build either *)
(* wraps it or has computed it in a wider register.                        *)
(*                                                                         *)
(* First come any samples, such as the huge one of an ACK that was long on *)
(* its way; then the path settles and every sample is `steady'.            *)
(***************************************************************************)
EXTENDS Integers

CONSTANTS
  IntMax,        \* greatest int: 2^31 - 1 in the code
  IKCP_RTO_NDL,  \* 30 ms
  IKCP_RTO_MIN,  \* 100 ms
  IKCP_RTO_DEF,  \* 200 ms
  IKCP_RTO_MAX,  \* 60000 ms
  Samples,       \* bound: samples of a path that has not settled
  MaxWild,       \* bound: how many of them
  Steadies       \* bound: round-trip times of a path that has

RttAssumption ==
  /\ IntMax \in Nat
  /\ {IKCP_RTO_NDL, IKCP_RTO_MIN} \subseteq 1..IKCP_RTO_DEF
  /\ IKCP_RTO_DEF =< IKCP_RTO_MAX
  /\ IKCP_RTO_MAX \in Nat /\ 8 * IKCP_RTO_MAX =< IntMax
  /\ MaxWild \in Nat
  /\ Samples \subseteq 0..IntMax /\ Steadies \subseteq 0..IKCP_RTO_MAX

VARIABLES
  rx_minrto,  \* least timeout
  rx_srtt,    \* smoothed round-trip time
  rx_rttval,  \* its mean deviation
  rx_rto,     \* the timeout new segments get
  set,        \* bound: ikcp_nodelay was called
  wild,       \* samples taken before the path settled
  steady      \* the round-trip time of the path, or -1

vars == <<rx_minrto, rx_srtt, rx_rttval, rx_rto, set, wild, steady>>

-----------------------------------------------------------------------------
(* Arithmetic.                                                             *)

UIntSize == 2 * (IntMax + 1)

Unsigned(i) == i % UIntSize

Signed(i) == IF Unsigned(i) =< IntMax THEN Unsigned(i) ELSE Unsigned(i) - UIntSize

(* What a signed expression with the true value i may yield.               *)
Computed(i) == {i, Signed(i)}

(* Division truncates towards zero.                                        *)
Quotient(i, n) == IF i >= 0 THEN i \div n ELSE -((-i) \div n)

Abs(i) == IF i < 0 THEN -i ELSE i

Max2(a, b) == IF a >= b THEN a ELSE b

Min2(a, b) == IF a =< b THEN a ELSE b

(* _ibound_ takes its arguments as unsigned numbers.                       *)
Ibound(lower, middle, upper) == Min2(Max2(lower, Unsigned(middle)), upper)

-----------------------------------------------------------------------------

(* Mutant of Deviation: a sample below the estimate counts as negative.    *)
DeviationSigned(rtt) ==
  {Signed(Quotient(x + (rtt - rx_srtt), 4)) : x \in Computed(3 * rx_rttval)}

Deviation(rtt) ==
  {Signed(Quotient(x + Abs(rtt - rx_srtt), 4)) : x \in Computed(3 * rx_rttval)}

Smoothed(rtt) ==
  {Max2(1, Signed(Quotient(x, 8))) : x \in Computed(7 * rx_srtt + rtt)}

(* rx_srtt + _imax_(1, 4 * rx_rttval), where _imax_ is unsigned.           *)
Timeout(srtt, rttval) ==
  {Ibound(rx_minrto, Signed(srtt + Max2(1, Unsigned(x))), IKCP_RTO_MAX) :
     x \in Computed(4 * rttval)}

ikcp_update_ack(rtt) ==
  /\ IF rx_srtt = 0
     THEN rx_srtt' = rtt /\ rx_rttval' = rtt \div 2
     ELSE rx_srtt' \in Smoothed(rtt) /\ rx_rttval' \in Deviation(rtt)
  /\ rx_rto' \in Timeout(rx_srtt', rx_rttval')

Init ==
  /\ rx_minrto = IKCP_RTO_MIN
  /\ rx_srtt = 0
  /\ rx_rttval = 0
  /\ rx_rto = IKCP_RTO_DEF
  /\ set = FALSE
  /\ wild = 0
  /\ steady = -1

(* The user chooses the least timeout, once and at any time; the timeout   *)
(* itself changes with the next ACK.                                       *)
ikcp_nodelay ==
  /\ ~set
  /\ set' = TRUE
  /\ \E nodelay \in BOOLEAN : rx_minrto' = IF nodelay THEN IKCP_RTO_NDL ELSE IKCP_RTO_MIN
  /\ UNCHANGED <<rx_srtt, rx_rttval, rx_rto, wild, steady>>

(* An ACK with whatever sample.                                            *)
Wild ==
  /\ steady = -1
  /\ wild < MaxWild
  /\ wild' = wild + 1
  /\ \E rtt \in Samples : ikcp_update_ack(rtt)
  /\ UNCHANGED <<rx_minrto, set, steady>>

Settle ==
  /\ steady = -1
  /\ steady' \in Steadies
  /\ wild' = 0
  /\ UNCHANGED <<rx_minrto, rx_srtt, rx_rttval, rx_rto, set>>

(* An ACK on a path that has settled.                                      *)
Sample ==
  /\ steady >= 0
  /\ ikcp_update_ack(steady)
  /\ UNCHANGED <<rx_minrto, set, wild, steady>>

Next == ikcp_nodelay \/ Wild \/ Settle \/ Sample

(* Segments go on being acknowledged.                                      *)
Spec == Init /\ [][Next]_vars /\ WF_vars(Sample)

-----------------------------------------------------------------------------
(* Properties.                                                             *)

(* Whatever was sampled before, overflow included, the timeout comes back  *)
(* to a path that has settled.  Truncation keeps the estimate up to 7 ms   *)
(* below a steady round trip, so that the timeout may stay 2 ms short of   *)
(* it (an estimate 3 ms low with no deviation) or 21 ms over.              *)
Settled ==
  LET low == Ibound(rx_minrto, Max2(0, steady - 2), IKCP_RTO_MAX)
      high == Ibound(rx_minrto, steady + 21, IKCP_RTO_MAX)
  IN rx_rto \in low..high

Recovers == (steady >= 0) ~> [](Settled)

=============================================================================
