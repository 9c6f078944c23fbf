--------------------------- MODULE KcpRetransmit ----------------------------
(***************************************************************************)
(* When ikcp_flush sends a segment again: resendts, rto, xmit and fastack  *)
(* of the segments in snd_buf, with time in it.  One end sends, the other  *)
(* acknowledges; the path keeps the order, needs at most Delay and loses   *)
(* at most MaxLost segments.  Each end flushes at least every Period.      *)
(* Ticks do not wrap here (see KcpTimer): a timer is what is left of it.   *)
(* The round-trip estimate is any of Rtos (see KcpRtt).                    *)
(***************************************************************************)
EXTENDS Integers, Sequences, SequencesExt, FiniteSetsExt

CONSTANTS
  Count,          \* bound: segments the user sends
  snd_wnd,        \* send window, not larger than the peer's
  nodelay,        \* kcp->nodelay
  fastresend,     \* kcp->fastresend, 0 if off
  IKCP_DEADLINK,
  Rtos,           \* values of rx_rto
  Period,         \* longest time between two flushes
  Delay,          \* longest time on the path
  MaxLost         \* bound: segments the path loses

(* The retransmission timer is longer than a round trip.                   *)
RoundTrip == 2 * Delay + Period

RetransmitAssumption ==
  /\ {Count, fastresend, Delay, MaxLost} \subseteq Nat
  /\ {snd_wnd, Period} \subseteq Nat \ {0}
  /\ IKCP_DEADLINK \in Nat /\ IKCP_DEADLINK > 1
  /\ nodelay \in {0, 1}
  /\ Rtos \subseteq Nat
  /\ \E longest \in Rtos : \A rto \in Rtos : rto =< longest   \* IKCP_RTO_MAX
  /\ \A rto \in Rtos : rto > RoundTrip

VARIABLES
  queued,    \* segments in snd_queue
  snd_una,
  snd_nxt,
  snd_buf,   \* sn |-> the timer fields of the segment
  rx_rto,
  state,     \* kcp->state: -1 once a segment was sent IKCP_DEADLINK times
  idle,      \* ticks since the last ikcp_flush
  fwd, back, \* the path: data, acknowledgements, which echo the ts of a copy
  rcvd,      \* the peer: numbers received
  acklist,   \* the peer: numbers to acknowledge, each with its ts
  kept,      \* the peer: ticks since acklist was empty
  lost,      \* history: segments lost so far
  waited,    \* history: sn |-> ticks since it was first sent
  skips      \* history: sn |-> acknowledgements that passed it over

sender == <<queued, snd_una, snd_nxt, snd_buf, rx_rto, state>>
peer == <<rcvd, acklist, kept>>
vars == <<sender, idle, fwd, back, peer, lost, waited, skips>>

SegTimer == [rto : Nat, due : Int, fastack : Nat, xmit : Nat]

Init ==
  /\ queued = 0
  /\ snd_una = 0
  /\ snd_nxt = 0
  /\ snd_buf = << >>
  /\ rx_rto \in Rtos
  /\ state = 0
  /\ idle = 0
  /\ fwd = << >> /\ back = << >>
  /\ rcvd = {} /\ acklist = << >> /\ kept = 0
  /\ lost = 0 /\ waited = << >> /\ skips = << >>

-----------------------------------------------------------------------------

(* ikcp_send cuts a message into segments; here one after the other.       *)
ikcp_send ==
  /\ snd_nxt + queued < Count
  /\ queued' = queued + 1
  /\ UNCHANGED <<snd_una, snd_nxt, snd_buf, rx_rto, state,
                 idle, fwd, back, peer, lost, waited, skips>>

(* The three reasons to send a segment, in the order they are tested.      *)
First(s) == s.xmit = 0

TimedOut(s) == ~First(s) /\ s.due =< 0

Skipped(s) == ~First(s) /\ ~TimedOut(s) /\ fastresend > 0 /\ s.fastack >= fastresend

NeedSend(s) == First(s) \/ TimedOut(s) \/ Skipped(s)

(* Mutants of Transmitted: a timeout doubles the segment's rto; fastack    *)
(* stays as it is after a fast resend.                                     *)
TransmittedDoubling(s) ==
  LET rto == CASE First(s)    -> rx_rto
               [] TimedOut(s) -> 2 * s.rto
               [] OTHER       -> s.rto
      spare == IF First(s) /\ nodelay = 0 THEN rx_rto \div 8 ELSE 0
  IN [rto |-> rto, due |-> rto + spare, xmit |-> s.xmit + 1,
      fastack |-> IF Skipped(s) THEN 0 ELSE s.fastack]

TransmittedStillSkipped(s) ==
  LET rto == CASE First(s)    -> rx_rto
               [] TimedOut(s) -> s.rto + (IF nodelay = 0 THEN rx_rto ELSE rx_rto \div 2)
               [] OTHER       -> s.rto
      spare == IF First(s) /\ nodelay = 0 THEN rx_rto \div 8 ELSE 0
  IN [rto |-> rto, due |-> rto + spare, xmit |-> s.xmit + 1, fastack |-> s.fastack]

(* The timer fields of a segment that is sent now.  Only a fast resend     *)
(* starts counting skips again.                                            *)
Transmitted(s) ==
  LET rto == CASE First(s)    -> rx_rto
               [] TimedOut(s) -> s.rto + (IF nodelay = 0 THEN rx_rto ELSE rx_rto \div 2)
               [] OTHER       -> s.rto
      spare == IF First(s) /\ nodelay = 0 THEN rx_rto \div 8 ELSE 0
  IN [rto |-> rto, due |-> rto + spare, xmit |-> s.xmit + 1,
      fastack |-> IF Skipped(s) THEN 0 ELSE s.fastack]

Fresh == [rto |-> rx_rto, due |-> 0, fastack |-> 0, xmit |-> 0]

(* The segments of sns as they go onto the path, lowest number first.  A   *)
(* copy is known by its ts, the time it is sent at: here, its xmit.        *)
Sent(sns, buf) ==
  LET order == CHOOSE s \in SetToSeqs(sns) : \A i, j \in DOMAIN s : i < j => s[i] < s[j]
  IN [i \in DOMAIN order |-> [sn |-> order[i], ts |-> buf[order[i]].xmit, age |-> 0]]

ikcp_flush ==
  LET moved == Min({queued, Max({0, snd_una + snd_wnd - snd_nxt})})
      old   == DOMAIN snd_buf
      all   == old \cup (snd_nxt..(snd_nxt + moved - 1))
      buf   == [sn \in all |-> IF sn \in old THEN snd_buf[sn] ELSE Fresh]
      due   == {sn \in all : NeedSend(buf[sn])}
  IN /\ queued' = queued - moved
     /\ snd_nxt' = snd_nxt + moved
     /\ snd_buf' = [sn \in all |-> IF sn \in due THEN Transmitted(buf[sn]) ELSE buf[sn]]
     /\ state' = IF \E sn \in due : snd_buf'[sn].xmit >= IKCP_DEADLINK THEN -1 ELSE state
     /\ fwd' = fwd \o Sent(due, snd_buf')
     /\ idle' = 0
     /\ waited' = [sn \in all |-> IF sn \in old THEN waited[sn] ELSE 0]
     /\ skips' = [sn \in all |-> IF sn \in old THEN skips[sn] ELSE 0]
     /\ UNCHANGED <<snd_una, rx_rto, back, peer, lost>>

-----------------------------------------------------------------------------
(* The peer, whose user takes every message at once.                       *)

rcv_nxt == Min((0..Count) \ rcvd)

PeerInput ==
  /\ fwd # << >>
  /\ fwd' = Tail(fwd)
  /\ rcvd' = rcvd \cup {Head(fwd).sn}
  /\ acklist' = Append(acklist, [sn |-> Head(fwd).sn, ts |-> Head(fwd).ts])
  /\ UNCHANGED <<sender, idle, back, kept, lost, waited, skips>>

PeerFlush ==
  /\ acklist # << >>
  /\ back' = back \o [i \in DOMAIN acklist |->
                       [sn |-> acklist[i].sn, ts |-> acklist[i].ts, una |-> rcv_nxt, age |-> 0]]
  /\ acklist' = << >>
  /\ kept' = 0
  /\ UNCHANGED <<sender, idle, fwd, rcvd, lost, waited, skips>>

-----------------------------------------------------------------------------

(* Whether ikcp_parse_ack walks over segment `sn' on its way to `ack',     *)
(* with `una' the first segment that is not acknowledged.                  *)
PassedOver(sn, ack, una, buf) ==
  /\ una =< ack /\ ack < snd_nxt
  /\ ack \in buf => sn < ack

(* An acknowledgement: ikcp_parse_una, ikcp_update_ack, ikcp_parse_ack and *)
(* ikcp_shrink_buf.  A number that is acknowledged already is not found,   *)
(* and the walk passes over every segment.                                 *)
ikcp_input ==
  /\ back # << >>
  /\ LET ack  == Head(back)
         buf  == {sn \in DOMAIN snd_buf : sn >= ack.una}
         una  == Min(buf \cup {snd_nxt})
         left == buf \ (IF una =< ack.sn THEN {ack.sn} ELSE {})
         Over(sn) == PassedOver(sn, ack.sn, una, buf)
     IN /\ snd_buf' = [sn \in left |->
                         [snd_buf[sn] EXCEPT !.fastack = IF Over(sn) THEN @ + 1 ELSE @]]
        /\ skips' = [sn \in left |-> skips[sn] + (IF Over(sn) THEN 1 ELSE 0)]
        /\ waited' = [sn \in left |-> waited[sn]]
        /\ snd_una' = Min(left \cup {snd_nxt})
  /\ rx_rto' \in Rtos
  /\ back' = Tail(back)
  /\ UNCHANGED <<queued, snd_nxt, state, idle, fwd, peer, lost>>

-----------------------------------------------------------------------------
(* The path and the clock.                                                 *)

Lose ==
  /\ lost < MaxLost
  /\ lost' = lost + 1
  /\ \/ \E i \in DOMAIN fwd : fwd' = RemoveAt(fwd, i) /\ back' = back
     \/ \E i \in DOMAIN back : back' = RemoveAt(back, i) /\ fwd' = fwd
  /\ UNCHANGED <<sender, idle, peer, waited, skips>>

Aged(path) == [i \in DOMAIN path |-> [path[i] EXCEPT !.age = @ + 1]]

(* A tick, unless a flush or an arrival must come first.                   *)
Pass ==
  /\ idle < Period
  /\ kept < Period
  /\ \A path \in {fwd, back} : \A i \in DOMAIN path : path[i].age < Delay
  /\ idle' = idle + 1
  /\ kept' = IF acklist = << >> THEN 0 ELSE kept + 1
  /\ fwd' = Aged(fwd) /\ back' = Aged(back)
  /\ snd_buf' = [sn \in DOMAIN snd_buf |-> [snd_buf[sn] EXCEPT !.due = @ - 1]]
  /\ waited' = [sn \in DOMAIN waited |-> waited[sn] + 1]
  /\ UNCHANGED <<queued, snd_una, snd_nxt, rx_rto, state, rcvd, acklist, lost, skips>>

Next ==
  \/ ikcp_send \/ ikcp_flush \/ ikcp_input
  \/ PeerInput \/ PeerFlush \/ Lose \/ Pass

Spec == Init /\ [][Next]_vars

-----------------------------------------------------------------------------
(* Properties.                                                             *)

(* What n losses can cost a segment: n timers, each longer than the one    *)
(* before, each found run out by the next flush, and the round trip.       *)
LongestRto == Max(Rtos)

Patience(n) ==
  LET grows == IF nodelay = 0 THEN LongestRto ELSE LongestRto \div 2
      spare == IF nodelay = 0 THEN LongestRto \div 8 ELSE 0
  IN n * (LongestRto + Period) + grows * ((n * (n - 1)) \div 2)
     + (IF n > 0 THEN spare ELSE 0) + RoundTrip

(* A segment is acknowledged within the time its losses cost: a timer that *)
(* a fast resend or a timeout sets again is never pushed out further.      *)
RecoversInTime == \A sn \in DOMAIN snd_buf : waited[sn] =< Patience(lost)

(* Every retransmission is paid for, by a loss or by `fastresend'          *)
(* acknowledgements that passed the segment over, and none pays twice;     *)
(* without losses nothing is sent twice and the link is not dead.          *)
Paid ==
  /\ \A sn \in DOMAIN snd_buf :
       snd_buf[sn].xmit - 1 =<
         lost + (IF fastresend = 0 THEN 0 ELSE skips[sn] \div fastresend)
  /\ lost = 0 => state = 0 /\ \A sn \in DOMAIN snd_buf : snd_buf[sn].xmit = 1

=============================================================================
