-------------------------------- MODULE Kcp --------------------------------
(***************************************************************************)
(* One KCP conversation: the two ikcpcb control blocks of kcp/ikcp.c and   *)
(* the UDP path between them, which loses, reorders and duplicates.        *)
(*                                                                         *)
(* The queues of segments sorted by sn (snd_buf, rcv_buf) are sets of      *)
(* segments; sn is unbounded.  Timers are abstracted: any flush may find   *)
(* the retransmission timer of any segment (or its fast-ack count) due,    *)
(* and any flush may find the window-probe timer due.  A datagram carries  *)
(* one segment: a batch of several is several consecutive inputs.  The     *)
(* congestion window is left out because kcpuv turns it off                *)
(* (ikcp_nodelay(kcp, 1, 10, 2, 1) sets nocwnd).                           *)
(***************************************************************************)
EXTENDS Fragments, FiniteSets

CONSTANTS
  IKCP_WND_SND,  \* send window, in segments
  IKCP_WND_RCV,  \* receive window, in segments
  MaxSent,       \* bound: fragments e's user sends, as a function of e
  NetCap         \* bound: datagrams in flight

ASSUME WindowAssumption ==
  /\ IKCP_WND_SND \in Nat \ {0}
  /\ IKCP_WND_RCV \in Nat \ {0}

ASSUME BoundsAssumption ==
  /\ MaxSent \in [Endpoints -> Nat]
  /\ NetCap \in Nat

VARIABLES
  snd_queue,   \* fragments accepted by ikcp_send, not yet numbered
  snd_buf,     \* segments numbered, sent and not acknowledged
  snd_una,     \* first unacknowledged sn
  snd_nxt,     \* next sn to give out
  rcv_buf,     \* segments received ahead of rcv_nxt, or with rcv_queue full
  rcv_queue,   \* fragments received in order, not yet taken by the user
  rcv_nxt,     \* next sn to move into rcv_queue
  acklist,     \* sns to acknowledge at the next flush
  rmt_wnd,     \* receive window the peer last told us of
  probe,       \* window commands to send at the next flush
  probe_wait,  \* TRUE iff the window-probe timer is armed
  net,         \* datagrams in flight
  sent,        \* history: every fragment ikcp_send accepted
  delivered    \* history: every fragment ikcp_recv handed out

sndVars == <<snd_queue, snd_buf, snd_una, snd_nxt>>
rcvVars == <<rcv_buf, rcv_queue, rcv_nxt, acklist>>
wndVars == <<rmt_wnd, probe, probe_wait>>
vars == <<sndVars, rcvVars, wndVars, net, sent, delivered>>

-----------------------------------------------------------------------------
(* Segments and datagrams.                                                 *)

Cmd == {"PUSH", "ACK", "WASK", "WINS"}

Segment == [sn : Nat, frag : Fragment]

NoFrag == [id |-> 0, frg |-> 0]

Datagram == [dst : Endpoints, cmd : Cmd, sn : Nat, una : Nat,
             wnd : 0..IKCP_WND_RCV, frag : Fragment]

Sns(segs) == {s.sn : s \in segs}

(* Mutant of ikcp_wnd_unused: segments in rcv_buf use up the window too.   *)
WndUnusedCountsBuf(e) ==
  IKCP_WND_RCV - Len(rcv_queue[e]) - Cardinality(rcv_buf[e])

ikcp_wnd_unused(e) ==
  IF Len(rcv_queue[e]) < IKCP_WND_RCV
  THEN IKCP_WND_RCV - Len(rcv_queue[e])
  ELSE 0

(* What ikcp_encode_seg writes: every segment carries una and wnd.         *)
ikcp_encode_seg(e, cmd, sn, frag) ==
  [dst |-> Peer(e), cmd |-> cmd, sn |-> sn, una |-> rcv_nxt[e],
   wnd |-> ikcp_wnd_unused(e), frag |-> frag]

-----------------------------------------------------------------------------

Init ==
  /\ snd_queue = [e \in Endpoints |-> <<>>]
  /\ snd_buf = [e \in Endpoints |-> {}]
  /\ snd_una = [e \in Endpoints |-> 0]
  /\ snd_nxt = [e \in Endpoints |-> 0]
  /\ rcv_buf = [e \in Endpoints |-> {}]
  /\ rcv_queue = [e \in Endpoints |-> <<>>]
  /\ rcv_nxt = [e \in Endpoints |-> 0]
  /\ acklist = [e \in Endpoints |-> {}]
  /\ rmt_wnd = [e \in Endpoints |-> IKCP_WND_RCV]
  /\ probe = [e \in Endpoints |-> {}]
  /\ probe_wait = [e \in Endpoints |-> FALSE]
  /\ net = {}
  /\ sent = [e \in Endpoints |-> <<>>]
  /\ delivered = [e \in Endpoints |-> <<>>]

-----------------------------------------------------------------------------
(* The user sends a message of `count' fragments.                          *)

ikcp_send(e) ==
  /\ \E count \in 1..MaxCount :
       LET msg == Message(Len(sent[e]), count)
       IN /\ Len(sent[e]) + count =< MaxSent[e]
          /\ snd_queue' = [snd_queue EXCEPT ![e] = @ \o msg]
          /\ sent' = [sent EXCEPT ![e] = @ \o msg]
  /\ UNCHANGED <<snd_buf, snd_una, snd_nxt, rcvVars, wndVars, net, delivered>>

-----------------------------------------------------------------------------
(* The loop "move available data from rcv_buf -> rcv_queue", shared by     *)
(* ikcp_recv and ikcp_parse_data: from the segments `buf' and the queue    *)
(* `que', it moves segments rcv_nxt, ..., nxt-1 and stops at the first     *)
(* missing one or when the queue is full.                                  *)

(* Mutant of MovesTo: the length of rcv_queue is not tested.               *)
MovesToPastWindow(e, buf, que, nxt) ==
  /\ \A sn \in rcv_nxt[e]..(nxt - 1) : sn \in Sns(buf)
  /\ nxt \notin Sns(buf)

MovesTo(e, buf, que, nxt) ==
  /\ nxt = rcv_nxt[e] \/ Len(que) + (nxt - rcv_nxt[e]) =< IKCP_WND_RCV
  /\ \A sn \in rcv_nxt[e]..(nxt - 1) : sn \in Sns(buf)
  /\ nxt \notin Sns(buf) \/ Len(que) + (nxt - rcv_nxt[e]) >= IKCP_WND_RCV

FragOf(buf, sn) == (CHOOSE s \in buf : s.sn = sn).frag

MoveReady(e, buf, que) ==
  \E nxt \in rcv_nxt[e]..(rcv_nxt[e] + IKCP_WND_RCV) :
    /\ MovesTo(e, buf, que, nxt)
    /\ rcv_nxt' = [rcv_nxt EXCEPT ![e] = nxt]
    /\ rcv_buf' = [rcv_buf EXCEPT ![e] = {s \in buf : s.sn >= nxt}]
    /\ rcv_queue' = [rcv_queue EXCEPT
         ![e] = que \o [i \in 1..(nxt - rcv_nxt[e]) |->
                          FragOf(buf, rcv_nxt[e] + i - 1)]]

(* Mutant of Peekable: the number of fragments present is not tested.      *)
PeekableIncomplete(que) == que # <<>>

(* ikcp_peeksize(kcp) >= 0: the queue starts with a whole message.         *)
Peekable(que) ==
  /\ que # <<>>
  /\ que[1].frg = 0 \/ Len(que) >= que[1].frg + 1

(* The user takes a message: the fragments up to the first with frg = 0.   *)
ikcp_recv(e) ==
  LET que == rcv_queue[e]
      recover == Len(que) >= IKCP_WND_RCV
  IN /\ Peekable(que)
     /\ \E k \in 1..Len(que) :
          LET rest == SubSeq(que, k + 1, Len(que))
          IN /\ que[k].frg = 0 \/ k = Len(que)
             /\ \A i \in 1..(k - 1) : que[i].frg # 0
             /\ delivered' = [delivered EXCEPT ![e] = @ \o SubSeq(que, 1, k)]
             /\ MoveReady(e, rcv_buf[e], rest)
             /\ probe' = [probe EXCEPT
                  ![e] = IF recover /\ Len(rcv_queue'[e]) < IKCP_WND_RCV
                         THEN @ \cup {"ASK_TELL"} ELSE @]
     /\ UNCHANGED <<sndVars, acklist, rmt_wnd, probe_wait, net, sent>>

-----------------------------------------------------------------------------
(* Input of one segment.                                                   *)

(* Mutants of Unacked: una is taken for the last sn received; the sn of    *)
(* any segment, not only of an ACK, is taken for an acknowledgement.       *)
UnackedUnaOffByOne(e, d) ==
  {s \in snd_buf[e] : s.sn > d.una /\ ~(d.cmd = "ACK" /\ s.sn = d.sn)}

UnackedAnyCmd(e, d) ==
  {s \in snd_buf[e] : s.sn >= d.una /\ s.sn # d.sn}

(* ikcp_parse_una, and ikcp_parse_ack when the segment is an ACK.          *)
Unacked(e, d) ==
  {s \in snd_buf[e] : s.sn >= d.una /\ ~(d.cmd = "ACK" /\ s.sn = d.sn)}

(* Mutant of ikcp_shrink_buf: the last segment of snd_buf is looked at.    *)
ShrinkToLast(e, left, u) ==
  IF left = {} THEN u = snd_nxt[e]
  ELSE u \in Sns(left) /\ \A s \in left : u >= s.sn

(* ikcp_shrink_buf: u becomes snd_una given what is left in snd_buf.       *)
ikcp_shrink_buf(e, left, u) ==
  IF left = {} THEN u = snd_nxt[e]
  ELSE u \in Sns(left) /\ \A s \in left : u =< s.sn

(* ikcp_parse_data: insert unless repeated, then move what is available.   *)
ikcp_parse_data(e, d) ==
  LET buf == IF d.sn \in Sns(rcv_buf[e]) THEN rcv_buf[e]
             ELSE rcv_buf[e] \cup {[sn |-> d.sn, frag |-> d.frag]}
  IN MoveReady(e, buf, rcv_queue[e])

InputPush(e, d) ==
  IF d.sn < rcv_nxt[e] + IKCP_WND_RCV
  THEN /\ acklist' = [acklist EXCEPT ![e] = @ \cup {d.sn}]
       /\ IF d.sn >= rcv_nxt[e] THEN ikcp_parse_data(e, d)
          ELSE UNCHANGED <<rcv_buf, rcv_queue, rcv_nxt>>
  ELSE UNCHANGED rcvVars

ikcp_input(e, d) ==
  /\ d.dst = e
  /\ rmt_wnd' = [rmt_wnd EXCEPT ![e] = d.wnd]
  /\ snd_buf' = [snd_buf EXCEPT ![e] = Unacked(e, d)]
  /\ \E u \in Sns(snd_buf[e]) \cup {snd_nxt[e]} :
       /\ ikcp_shrink_buf(e, Unacked(e, d), u)
       /\ snd_una' = [snd_una EXCEPT ![e] = u]
  /\ IF d.cmd = "PUSH" THEN InputPush(e, d) ELSE UNCHANGED rcvVars
  /\ probe' = [probe EXCEPT
       ![e] = IF d.cmd = "WASK" THEN @ \cup {"ASK_TELL"} ELSE @]
  /\ UNCHANGED <<snd_queue, snd_nxt, probe_wait, sent, delivered>>

(* UDP hands a datagram over and may keep a duplicate of it in flight.     *)
Receive(e, d) ==
  /\ ikcp_input(e, d)
  /\ net' = net \ {d} \/ net' = net

(* UDP loses a datagram.                                                   *)
Lose(d) ==
  /\ net' = net \ {d}
  /\ UNCHANGED <<sndVars, rcvVars, wndVars, sent, delivered>>

-----------------------------------------------------------------------------
(* Flush.                                                                  *)

(* Mutant of Probes: the peer is never asked for its window.               *)
ProbesNeverAsk(e, due) == probe[e]

(* Window commands of this flush; `due' says the probe timer has run out.  *)
Probes(e, due) ==
  probe[e] \cup
    (IF rmt_wnd[e] = 0 /\ probe_wait[e] /\ due THEN {"ASK_SEND"} ELSE {})

WindowCommands(e, due) ==
  {ikcp_encode_seg(e, "WASK", 0, NoFrag) : p \in Probes(e, due) \cap {"ASK_SEND"}}
  \cup
  {ikcp_encode_seg(e, "WINS", 0, NoFrag) : p \in Probes(e, due) \cap {"ASK_TELL"}}

(* How many fragments move from snd_queue to snd_buf: the window is what   *)
(* our send window and the peer's receive window allow past snd_una.       *)
Min2(a, b) == IF a =< b THEN a ELSE b

Room(e) ==
  LET cwnd == Min2(IKCP_WND_SND, rmt_wnd[e])
      room == snd_una[e] + cwnd - snd_nxt[e]
  IN IF room =< 0 THEN 0 ELSE Min2(room, Len(snd_queue[e]))

NewSegments(e) ==
  {[sn |-> snd_nxt[e] + i - 1, frag |-> snd_queue[e][i]] : i \in 1..Room(e)}

(* `resend' are the segments whose timer or fast-ack count is due.         *)
ikcp_flush(e, resend, due) ==
  LET acks   == {ikcp_encode_seg(e, "ACK", sn, NoFrag) : sn \in acklist[e]}
      pushes == {ikcp_encode_seg(e, "PUSH", s.sn, s.frag) :
                   s \in resend \cup NewSegments(e)}
  IN /\ net' = net \cup acks \cup WindowCommands(e, due) \cup pushes
     /\ Cardinality(net') =< NetCap
     /\ acklist' = [acklist EXCEPT ![e] = {}]
     /\ probe_wait' = [probe_wait EXCEPT ![e] = (rmt_wnd[e] = 0)]
     /\ probe' = [probe EXCEPT ![e] = {}]
     /\ snd_buf' = [snd_buf EXCEPT ![e] = @ \cup NewSegments(e)]
     /\ snd_nxt' = [snd_nxt EXCEPT ![e] = @ + Room(e)]
     /\ snd_queue' = [snd_queue EXCEPT
          ![e] = SubSeq(@, Room(e) + 1, Len(@))]
     /\ UNCHANGED <<snd_una, rcv_buf, rcv_queue, rcv_nxt, rmt_wnd,
                    sent, delivered>>

-----------------------------------------------------------------------------

Flush(e) ==
  \E resend \in SUBSET snd_buf[e], due \in BOOLEAN : ikcp_flush(e, resend, due)

Next ==
  \/ \E e \in Endpoints : ikcp_send(e) \/ ikcp_recv(e) \/ Flush(e)
  \/ \E e \in Endpoints, d \in net : Receive(e, d)
  \/ \E d \in net : Lose(d)

Spec == Init /\ [][Next]_vars

-----------------------------------------------------------------------------
(* Properties.                                                             *)

(* Every variable has its type; the queues of segments hold each sn once.  *)
TypeOK ==
  /\ snd_queue \in [Endpoints -> Seq(Fragment)]
  /\ snd_buf \in [Endpoints -> SUBSET Segment]
  /\ snd_una \in [Endpoints -> Nat]
  /\ snd_nxt \in [Endpoints -> Nat]
  /\ rcv_buf \in [Endpoints -> SUBSET Segment]
  /\ rcv_queue \in [Endpoints -> Seq(Fragment)]
  /\ rcv_nxt \in [Endpoints -> Nat]
  /\ acklist \in [Endpoints -> SUBSET Nat]
  /\ rmt_wnd \in [Endpoints -> 0..IKCP_WND_RCV]
  /\ probe \in [Endpoints -> SUBSET {"ASK_SEND", "ASK_TELL"}]
  /\ probe_wait \in [Endpoints -> BOOLEAN]
  /\ net \in SUBSET Datagram
  /\ sent \in [Endpoints -> Seq(Fragment)]
  /\ delivered \in [Endpoints -> Seq(Fragment)]

(* Whatever UDP does, the user sees the abstract pipe: whole messages, in  *)
(* order, each once.                                                       *)
Pipe == INSTANCE MsgPipe

ImplementsPipe == Pipe!PipeSpec

(* A segment leaves snd_buf (ikcp_parse_una, ikcp_parse_ack) only when the *)
(* peer holds it, so nothing that was sent can be lost for good.           *)
SentIsHeld ==
  \A e \in Endpoints : \A sn \in 0..(snd_nxt[e] - 1) :
    \/ sn \in Sns(snd_buf[e])
    \/ sn < rcv_nxt[Peer(e)]
    \/ sn \in Sns(rcv_buf[Peer(e)])

(* The windows bound the memory of a conversation although the peer's      *)
(* window is learned from reordered, duplicated and stale segments.        *)
WindowBounds ==
  \A e \in Endpoints :
    /\ Len(rcv_queue[e]) =< IKCP_WND_RCV
    /\ Sns(rcv_buf[e]) \subseteq rcv_nxt[e]..(rcv_nxt[e] + IKCP_WND_RCV - 1)
    /\ snd_nxt[e] - snd_una[e] =< IKCP_WND_SND
    /\ Sns(snd_buf[e]) \subseteq snd_una[e]..(snd_nxt[e] - 1)

(* Stale or duplicated input never moves a window edge backwards.          *)
Advance ==
  \A e \in Endpoints :
    /\ snd_una'[e] >= snd_una[e]
    /\ rcv_nxt'[e] >= rcv_nxt[e]

EdgesAdvance == [][Advance]_vars

(* A full receive queue starts with a whole message, so that ikcp_recv can *)
(* drain it and reopen the window.                                         *)
NeverWedged ==
  \A e \in Endpoints :
    Len(rcv_queue[e]) >= IKCP_WND_RCV => Peekable(rcv_queue[e])

=============================================================================
