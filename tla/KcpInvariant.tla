--------------------------- MODULE KcpInvariant ---------------------------
(***************************************************************************)
(* The inductive invariant of Kcp.  Fragment number sn of e's stream is    *)
(* sent[e][sn + 1]; the invariant says where each fragment of the stream   *)
(* is, and what a datagram still in flight, however old, may say about it. *)
(***************************************************************************)
EXTENDS Kcp

(* What was sent at offset i counts down to the last fragment of its       *)
(* message, and no message has more than MaxCount fragments.               *)
StreamInv(e) ==
  \A i \in 1..Len(sent[e]) :
    LET f == sent[e][i].frg
    IN /\ f < MaxCount
       /\ i + f =< Len(sent[e])
       /\ \A j \in 0..f : sent[e][i + j].frg = f - j

(* sent[e] is the numbered part, of length snd_nxt, and then snd_queue.    *)
SenderInv(e) ==
  /\ snd_nxt[e] + Len(snd_queue[e]) = Len(sent[e])
  /\ \A i \in 1..Len(snd_queue[e]) : snd_queue[e][i] = sent[e][snd_nxt[e] + i]
  /\ snd_una[e] =< snd_nxt[e]
  /\ snd_nxt[e] =< snd_una[e] + IKCP_WND_SND
  /\ \A s \in snd_buf[e] :
       /\ snd_una[e] =< s.sn /\ s.sn < snd_nxt[e]
       /\ s.frag = sent[e][s.sn + 1]

(* The first nxt fragments of what e's peer sent are `base' ones and then  *)
(* que, and buf holds later ones of the window.                            *)
InStream(e, base, que, buf, nxt) ==
  /\ base + Len(que) = nxt
  /\ nxt =< snd_nxt[Peer(e)]
  /\ Len(que) =< IKCP_WND_RCV
  /\ \A i \in 1..Len(que) : que[i] = sent[Peer(e)][base + i]
  /\ \A s \in buf :
       /\ nxt =< s.sn /\ s.sn < nxt + IKCP_WND_RCV
       /\ s.sn < snd_nxt[Peer(e)]
       /\ s.frag = sent[Peer(e)][s.sn + 1]

(* What e's user got, rcv_queue and rcv_buf are of the peer's stream.      *)
ReceiverInv(e) ==
  InStream(e, Len(delivered[e]), rcv_queue[e], rcv_buf[e], rcv_nxt[e])

(* e has fragment sn, delivered or not.                                    *)
Held(e, sn) == sn < rcv_nxt[e] \/ sn \in Sns(rcv_buf[e])

(* e acknowledges only what it holds.                                      *)
AckInv(e) == \A sn \in acklist[e] : Held(e, sn)

(* A datagram in flight carries a fragment of the sender's stream under    *)
(* its own number, and acknowledges only what its sender holds.            *)
DatagramInv(d) ==
  LET e == Peer(d.dst)
  IN /\ d.cmd = "PUSH" => /\ d.sn < snd_nxt[e]
                          /\ d.frag = sent[e][d.sn + 1]
     /\ d.cmd = "ACK" => Held(e, d.sn)
     /\ d.una =< rcv_nxt[e]

(* What is numbered is in snd_buf until the peer holds it.                 *)
HeldInv(e) ==
  \A sn \in 0..(snd_nxt[e] - 1) : sn \in Sns(snd_buf[e]) \/ Held(Peer(e), sn)

(* The whole: with it, every property of Kcp follows by looking at one     *)
(* state or one step.                                                      *)
IInv ==
  /\ TypeOK
  /\ \A e \in Endpoints :
       StreamInv(e) /\ SenderInv(e) /\ ReceiverInv(e) /\ AckInv(e) /\ HeldInv(e)
  /\ \A d \in net : DatagramInv(d)

=============================================================================
