------------------------------ MODULE KcpCwnd -------------------------------
(***************************************************************************)
(* The congestion window of a control block: its growth in ikcp_input and  *)
(* its collapse in ikcp_flush.  kcpuv turns it off (nocwnd = 1), other     *)
(* users of ikcp.c need not.  There is always something in snd_queue;      *)
(* `inflight' is snd_nxt - snd_una.                                        *)
(***************************************************************************)
EXTENDS Integers

CONSTANTS
  mss,              \* 1376 bytes in the code, 26 at least (ikcp_setmtu)
  snd_wnd,          \* segments
  RmtWnds,          \* the receive windows the peer advertises
  resent,           \* kcp->fastresend, or 0 if fast resend is off
  IKCP_THRESH_INIT,
  IKCP_THRESH_MIN

CwndAssumption ==
  /\ mss \in Nat /\ mss >= 26
  /\ snd_wnd \in Nat \ {0}
  /\ RmtWnds \subseteq Nat
  /\ resent \in Nat
  /\ IKCP_THRESH_INIT \in Nat /\ IKCP_THRESH_MIN \in Nat \ {0}

VARIABLES
  cwnd,      \* congestion window, in segments
  incr,      \* the same in bytes
  ssthresh,  \* slow start threshold, in segments
  rmt_wnd,   \* the peer's receive window
  inflight,  \* segments sent and not acknowledged
  calm       \* history: the path has stopped losing segments

vars == <<cwnd, incr, ssthresh, rmt_wnd, inflight, calm>>

Min2(a, b) == IF a =< b THEN a ELSE b

Max2(a, b) == IF a >= b THEN a ELSE b

Init ==
  /\ cwnd = 0
  /\ incr = 0
  /\ ssthresh = IKCP_THRESH_INIT
  /\ rmt_wnd \in RmtWnds
  /\ inflight = 0
  /\ calm = FALSE

-----------------------------------------------------------------------------

(* incr after one step of congestion avoidance.                            *)
Raised == LET i == Max2(incr, mss) IN i + (mss * mss) \div i + mss \div 16

(* snd_una has moved: slow start below ssthresh, congestion avoidance      *)
(* above it.  The correction that follows in the code, should cwnd have    *)
(* passed rmt_wnd, is part of it.                                          *)
Grow(wnd) ==
  LET slow == cwnd < ssthresh
      i    == IF slow THEN incr + mss ELSE Raised
      c    == IF slow \/ (cwnd + 1) * mss =< i THEN cwnd + 1 ELSE cwnd
  IN IF c > wnd THEN cwnd' = wnd /\ incr' = wnd * mss
     ELSE cwnd' = c /\ incr' = i

(* One datagram that moves snd_una by `acked' segments.  If it ends in a   *)
(* segment that ikcp_input refuses, the window is left as it is.           *)
ikcp_input ==
  /\ \E acked \in 0..inflight, wnd \in RmtWnds, whole \in BOOLEAN :
       /\ calm => wnd = rmt_wnd /\ whole
       /\ rmt_wnd' = wnd
       /\ inflight' = inflight - acked
       /\ IF whole /\ acked > 0 /\ cwnd < wnd THEN Grow(wnd) ELSE UNCHANGED <<cwnd, incr>>
  /\ UNCHANGED <<ssthresh, calm>>

(* The window a flush works with, and what is in flight after it.          *)
Usable == Min2(cwnd, Min2(snd_wnd, rmt_wnd))

Filled == Max2(inflight, Usable)

(* Mutants of Collapse: a timeout leaves incr alone; an empty window stays *)
(* empty.                                                                  *)
CollapseKeepsIncr(lost) ==
  IF lost THEN [c |-> 1, i |-> incr, s |-> Max2(Usable \div 2, IKCP_THRESH_MIN)]
  ELSE [c |-> Max2(cwnd, 1), i |-> IF cwnd < 1 THEN mss ELSE incr, s |-> ssthresh]

CollapseToZero(lost) ==
  IF lost THEN [c |-> 1, i |-> mss, s |-> Max2(Usable \div 2, IKCP_THRESH_MIN)]
  ELSE [c |-> cwnd, i |-> incr, s |-> ssthresh]

(* cwnd, incr and ssthresh after a flush without fast resends; `lost' says *)
(* that a retransmission timer had run out.                                *)
Collapse(lost) ==
  IF lost THEN [c |-> 1, i |-> mss, s |-> Max2(Usable \div 2, IKCP_THRESH_MIN)]
  ELSE [c |-> Max2(cwnd, 1), i |-> IF cwnd < 1 THEN mss ELSE incr, s |-> ssthresh]

(* The same after fast resends and no timeout.                             *)
FastRecovery ==
  LET s == Max2(Filled \div 2, IKCP_THRESH_MIN)
  IN [c |-> s + resent, i |-> (s + resent) * mss, s |-> s]

ikcp_flush ==
  /\ \E lost, change \in BOOLEAN :
       LET w == IF change /\ ~lost THEN FastRecovery ELSE Collapse(lost)
       IN /\ lost \/ change => inflight > 0 /\ ~calm
          /\ change => resent > 0
          /\ cwnd' = w.c /\ incr' = w.i /\ ssthresh' = w.s
  /\ inflight' = Filled
  /\ UNCHANGED <<rmt_wnd, calm>>

(* The path gets better: its window is open and nothing is lost any more.  *)
Calm ==
  /\ rmt_wnd > 0
  /\ calm' = TRUE
  /\ UNCHANGED <<cwnd, incr, ssthresh, rmt_wnd, inflight>>

Next == ikcp_input \/ ikcp_flush \/ Calm

(* Updates go on and segments are acknowledged.                            *)
Spec ==
  /\ Init /\ [][Next]_vars
  /\ WF_vars(ikcp_flush)
  /\ WF_vars(ikcp_input /\ inflight' < inflight)

-----------------------------------------------------------------------------
(* Properties.                                                             *)

(* Segments and bytes of the window stay together through slow start,      *)
(* congestion avoidance, timeouts and fast recovery: incr never lags cwnd  *)
(* and is less than two segments ahead.                                    *)
IncrMatches == cwnd * mss =< incr /\ incr < (cwnd + 2) * mss

(* On a path that has become calm the window opens as far as the peer      *)
(* allows, although the byte count grows by ever smaller integer steps.    *)
Opens == calm ~> (cwnd >= rmt_wnd)

-----------------------------------------------------------------------------
(* IncrMatches is inductive with the types of the window.                  *)
CwndInv ==
  /\ cwnd \in Nat /\ incr \in Nat /\ ssthresh \in Nat /\ rmt_wnd \in Nat /\ inflight \in Nat
  /\ IncrMatches

=============================================================================
