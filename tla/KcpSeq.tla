------------------------------- MODULE KcpSeq -------------------------------
(***************************************************************************)
(* Sequence numbers that wrap: sn, una, snd_una, snd_nxt and rcv_nxt are   *)
(* 32-bit numbers compared with _itimediff, over a path that reorders,     *)
(* repeats and loses, but does not keep anything longer than it takes to   *)
(* send Stale segments.  (Kcp has any path and numbers that do not wrap.)  *)
(* One end sends; the other's user takes every segment at once.            *)
(*                                                                         *)
(* A segment is known by its place in the stream, which the code does not  *)
(* see: it sees Sn of it.                                                  *)
(***************************************************************************)
EXTENDS Ticks, Sequences, FiniteSets

CONSTANTS
  wnd,      \* send and receive window: 32 in the code
  Stale,    \* how many segments a datagram can be behind
  MaxSent,  \* bound: segments sent
  MaxAcks   \* bound: acknowledgements in flight

SeqAssumption ==
  /\ {Stale, MaxSent, MaxAcks} \subseteq Nat /\ wnd \in Nat \ {0}
  /\ wnd =< Stale /\ 2 * (wnd + Stale) =< Modulus

VARIABLES
  sent,      \* history: segments numbered so far
  snd_buf,   \* segments sent and not acknowledged
  snd_una, snd_nxt,
  rcv_nxt,
  rcv_buf,   \* segments received out of order
  delivered, \* history: segments the receiver's user has got
  acklist,   \* segments to acknowledge
  data,      \* data segments in flight
  acks       \* acknowledgements in flight: [seg, una]

sender == <<sent, snd_buf, snd_una, snd_nxt>>
receiver == <<rcv_nxt, rcv_buf, delivered, acklist>>
vars == <<sender, receiver, data, acks>>

Sn(seg) == seg % Modulus

Init ==
  /\ sent = 0 /\ snd_buf = {} /\ snd_una = 0 /\ snd_nxt = 0
  /\ rcv_nxt = 0 /\ rcv_buf = {} /\ delivered = << >> /\ acklist = {}
  /\ data = {} /\ acks = {}

-----------------------------------------------------------------------------

(* What the path, and the receiver that has to acknowledge it, may still   *)
(* hold when n segments have been sent.                                    *)
Current(segs, n) == {seg \in segs : n - seg =< Stale}

(* ikcp_flush gives a segment its number and sends it; until the path      *)
(* forgets it, it may arrive any number of times.                          *)
ikcp_flush ==
  /\ sent < MaxSent
  /\ Itimediff(snd_nxt, Plus(snd_una, wnd)) < 0
  /\ sent' = sent + 1
  /\ snd_buf' = snd_buf \cup {sent}
  /\ snd_nxt' = Plus(snd_nxt, 1)
  /\ data' = Current(data \cup {sent}, sent')
  /\ acks' = {a \in acks : a.seg \in Current({a.seg}, sent')}
  /\ acklist' = Current(acklist, sent')
  /\ UNCHANGED <<snd_una, rcv_nxt, rcv_buf, delivered>>

-----------------------------------------------------------------------------

(* ikcp_input acknowledges what is not beyond the window.                  *)
Acceptable(sn) == Itimediff(sn, Plus(rcv_nxt, wnd)) < 0

(* Mutant of Fresh: a segment from before the window is kept too.          *)
FreshOrOld(sn) == TRUE

(* It keeps what is not from before the window.                            *)
Fresh(sn) == Itimediff(sn, rcv_nxt) >= 0

(* ikcp_parse_data: a number that is there already is a repetition.        *)
Inserted(seg) ==
  IF \E s \in rcv_buf : Sn(s) = Sn(seg) THEN rcv_buf ELSE rcv_buf \cup {seg}

(* The segments of buf that are next, by their numbers.                    *)
InLine(buf) ==
  LET Has(k) == \E s \in buf : Sn(s) = Plus(rcv_nxt, k)
      n == CHOOSE k \in 0..Cardinality(buf) : ~Has(k) /\ \A j \in 0..(k - 1) : Has(j)
  IN [k \in 1..n |-> CHOOSE s \in buf : Sn(s) = Plus(rcv_nxt, k - 1)]

ikcp_input_push ==
  \E seg \in data :
    /\ Acceptable(Sn(seg))
    /\ acklist' = acklist \cup {seg}
    /\ LET buf == IF Fresh(Sn(seg)) THEN Inserted(seg) ELSE rcv_buf
           up  == InLine(buf)
       IN /\ delivered' = delivered \o up
          /\ rcv_buf' = buf \ {up[k] : k \in DOMAIN up}
          /\ rcv_nxt' = Plus(rcv_nxt, Len(up))
    /\ UNCHANGED <<sender, data, acks>>

(* ikcp_flush of the receiver: an acknowledgement goes, with una.          *)
ikcp_flush_ack ==
  /\ Cardinality(acks) < MaxAcks
  /\ \E seg \in acklist :
       /\ acks' = acks \cup {[seg |-> seg, una |-> rcv_nxt]}
       /\ acklist' = acklist \ {seg}
  /\ UNCHANGED <<sender, rcv_nxt, rcv_buf, delivered, data>>

-----------------------------------------------------------------------------

(* Mutant of Below: the difference is not taken as a signed number.        *)
BelowUnsigned(sn, una) == Distance(una, sn) > 0

Below(sn, una) == Itimediff(una, sn) > 0

(* ikcp_parse_una drops from the front of snd_buf, up to the first segment *)
(* that is not below una.                                                  *)
ikcp_parse_una(una) ==
  {seg \in snd_buf : \E s \in snd_buf : s =< seg /\ ~Below(Sn(s), una)}

(* ikcp_parse_ack, within snd_una and snd_nxt.                             *)
ikcp_parse_ack(buf, una, sn) ==
  IF Itimediff(sn, una) < 0 \/ Itimediff(sn, snd_nxt) >= 0 THEN buf
  ELSE {seg \in buf : Sn(seg) # sn}

ikcp_shrink_buf(buf) ==
  IF buf = {} THEN snd_nxt ELSE Sn(CHOOSE seg \in buf : \A s \in buf : seg =< s)

ikcp_input_ack ==
  \E a \in acks :
    /\ LET buf == ikcp_parse_una(a.una)
       IN snd_buf' = ikcp_parse_ack(buf, ikcp_shrink_buf(buf), Sn(a.seg))
    /\ snd_una' = ikcp_shrink_buf(snd_buf')
    /\ UNCHANGED <<sent, snd_nxt, receiver, data, acks>>

Lose ==
  /\ \E a \in acks : acks' = acks \ {a}
  /\ UNCHANGED <<sender, receiver, data>>

Next == ikcp_flush \/ ikcp_input_push \/ ikcp_flush_ack \/ ikcp_input_ack \/ Lose

Spec == Init /\ [][Next]_vars

-----------------------------------------------------------------------------
(* Properties.                                                             *)

(* The user gets the segments in the order of the stream, each once, also  *)
(* when the numbers start again: a segment from before the window is never *)
(* taken for the one that has its number next time round.                  *)
InSequence == \A i \in DOMAIN delivered : delivered[i] = i - 1

(* Nor does an old una or ack make the sender forget a segment that the    *)
(* receiver does not have.                                                 *)
HeldUntilReceived ==
  \A seg \in 0..(sent - 1) :
    seg \in snd_buf \/ seg \in rcv_buf \/ seg < Len(delivered)

=============================================================================
