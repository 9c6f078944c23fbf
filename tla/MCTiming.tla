------------------------------ MODULE MCTiming ------------------------------
(***************************************************************************)
(* What a control block computes about time and numbers, in one run:       *)
(* flush times, retransmission timers, window probes, sequence numbers     *)
(* that wrap, round-trip estimate, congestion window.  These parts do not  *)
(* touch each other's variables, so `part' names the one that moves and    *)
(* the others stand still: the run is the sum of six, not their product.   *)
(***************************************************************************)
EXTENDS Integers

CONSTANTS
  Modulus, IKCP_INTERVAL, MinInterval, MaxInterval, Requests, SlapLimit,
  MaxRto, MaxSegs, MaxGap, Jumps,
  Count, snd_wnd, nodelay, fastresend, IKCP_DEADLINK, Rtos, Period, Delay, MaxLost,
  IKCP_PROBE_INIT, IKCP_PROBE_LIMIT, NetCap,
  SnModulus, wnd, Stale, MaxSent, MaxAcks,
  IntMax, IKCP_RTO_NDL, IKCP_RTO_MIN, IKCP_RTO_DEF, IKCP_RTO_MAX,
  Samples, MaxWild, Steadies,
  mss, RmtWnds, resent, IKCP_THRESH_INIT, IKCP_THRESH_MIN

VARIABLES
  part,
  polls, now, updated, interval, ts_flush, resendts, nap, quiet, spacing, flushes,
  queued, snd_una, snd_nxt, snd_buf, rto, state, idle, fwd, back,
  rcvd, acklist, kept, lost, waited, skips,
  known_wnd, probe_wait, ts_probe, probe_idle, asks, tells,
  nrcv_que, nrcv_buf, answer, answer_kept, probe_lost, shut,
  sent, unacked, seq_una, seq_nxt, rcv_nxt, rcv_buf, delivered, to_ack, data, acks,
  rx_minrto, rx_srtt, rx_rttval, rx_rto, set, wild, steady,
  cwnd, incr, ssthresh, rmt_wnd, inflight, calm

(* KcpTimer, KcpSeq and KcpProbe come with their theorems, for TimingProofs. *)
Timer == INSTANCE KcpTimerProofs
Resend == INSTANCE KcpRetransmit WITH rx_rto <- rto
Probe == INSTANCE KcpProbeProofs WITH
  rmt_wnd <- known_wnd, idle <- probe_idle, fwd <- asks, back <- tells,
  kept <- answer_kept, lost <- probe_lost
Wrap == INSTANCE KcpSeqProofs WITH
  Modulus <- SnModulus, snd_buf <- unacked, snd_una <- seq_una,
  snd_nxt <- seq_nxt, acklist <- to_ack
Rtt == INSTANCE KcpRtt
Cwnd == INSTANCE KcpCwnd

ASSUME /\ Timer!ModulusAssumption /\ Timer!TimerAssumption
       /\ Resend!RetransmitAssumption /\ Probe!ProbeAssumption
       /\ Wrap!ModulusAssumption /\ Wrap!SeqAssumption
       /\ Rtt!RttAssumption /\ Cwnd!CwndAssumption

timerVars == <<polls, now, updated, interval, ts_flush, resendts, nap, quiet, spacing, flushes>>
resendVars == <<queued, snd_una, snd_nxt, snd_buf, rto, state, idle, fwd, back,
                rcvd, acklist, kept, lost, waited, skips>>
probeVars == <<known_wnd, probe_wait, ts_probe, probe_idle, asks, tells,
               nrcv_que, nrcv_buf, answer, answer_kept, probe_lost, shut>>
seqVars == <<sent, unacked, seq_una, seq_nxt, rcv_nxt, rcv_buf, delivered, to_ack, data, acks>>
rttVars == <<rx_minrto, rx_srtt, rx_rttval, rx_rto, set, wild, steady>>
cwndVars == <<cwnd, incr, ssthresh, rmt_wnd, inflight, calm>>

timing == <<part, timerVars, resendVars, probeVars, seqVars, rttVars, cwndVars>>

(* A part that stands still needs only one of its initial states.          *)
TimingInit ==
  /\ part \in {"timer", "resend", "probe", "seq", "rtt", "cwnd"}
  /\ Timer!Init /\ Resend!Init /\ Probe!Init /\ Wrap!Init /\ Rtt!Init /\ Cwnd!Init
  /\ part # "timer" => polls /\ now = 0
  /\ part # "resend" => \A r \in Rtos : rto =< r
  /\ part # "cwnd" => \A w \in RmtWnds : rmt_wnd =< w

Only(p) == part = p /\ UNCHANGED part

TimingNext ==
  \/ /\ Only("timer") /\ Timer!Next
     /\ UNCHANGED <<resendVars, probeVars, seqVars, rttVars, cwndVars>>
  \/ /\ Only("resend") /\ Resend!Next
     /\ UNCHANGED <<timerVars, probeVars, seqVars, rttVars, cwndVars>>
  \/ /\ Only("probe") /\ Probe!Next
     /\ UNCHANGED <<timerVars, resendVars, seqVars, rttVars, cwndVars>>
  \/ /\ Only("seq") /\ Wrap!Next
     /\ UNCHANGED <<timerVars, resendVars, probeVars, rttVars, cwndVars>>
  \/ /\ Only("rtt") /\ Rtt!Next
     /\ UNCHANGED <<timerVars, resendVars, probeVars, seqVars, cwndVars>>
  \/ /\ Only("cwnd") /\ Cwnd!Next
     /\ UNCHANGED <<timerVars, resendVars, probeVars, seqVars, rttVars>>

(* The fairness of KcpRtt and KcpCwnd, for the part that moves.            *)
TimingSpec ==
  /\ TimingInit /\ [][TimingNext]_timing
  /\ WF_rttVars(part = "rtt" /\ Rtt!Sample)
  /\ WF_cwndVars(part = "cwnd" /\ Cwnd!ikcp_flush)
  /\ WF_cwndVars(part = "cwnd" /\ Cwnd!ikcp_input /\ inflight' < inflight)

-----------------------------------------------------------------------------
(* The properties of the parts.                                            *)

(* ikcp_update: no flush is skipped, for applications that poll or sleep,  *)
(* whatever happens to the clock and the interval.                         *)
FlushOnTime == Timer!FlushOnTime

(* ikcp_check: no call before the time it names would flush.               *)
CheckInTime == Timer!CheckInTime

(* ikcp_update: flushes are an interval apart, however often it is called. *)
FlushSpaced == Timer!FlushSpaced

(* ikcp_flush: a lost segment is acknowledged within what its losses cost. *)
RecoversInTime == Resend!RecoversInTime

(* ikcp_flush, ikcp_parse_fastack: nothing is resent without a loss or     *)
(* `fastresend' acknowledgements that passed it over.                      *)
Paid == Resend!Paid

(* ikcp_flush, ikcp_recv: WASK and WINS reopen a shut window in bounded    *)
(* time, although they are lost and probes get rarer.                      *)
ReopensInTime == Probe!ReopensInTime

(* ikcp_parse_data: the stream comes in order when numbers start again.    *)
InSequence == Wrap!InSequence

(* ikcp_parse_una, ikcp_parse_ack: an old acknowledgement does not make    *)
(* the sender forget a segment the receiver does not have.                 *)
HeldUntilReceived == Wrap!HeldUntilReceived

(* ikcp_update_ack: the timeout comes back to a path that has settled.     *)
Recovers == Rtt!Recovers

(* ikcp_input, ikcp_flush: the window in segments and in bytes agree.      *)
IncrMatches == Cwnd!IncrMatches

(* ikcp_input, ikcp_flush: the window opens fully on a calm path.          *)
Opens == Cwnd!Opens

=============================================================================
