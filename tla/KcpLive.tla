------------------------------ MODULE KcpLive ------------------------------
(***************************************************************************)
(* Progress of a KCP conversation over a path that stops misbehaving: UDP  *)
(* loses or duplicates at most MaxFaults datagrams and hands over all      *)
(* others, in any order.                                                   *)
(***************************************************************************)
EXTENDS Kcp

CONSTANT MaxFaults  \* bound: datagrams UDP loses or duplicates

ASSUME FaultsAssumption == MaxFaults \in Nat

VARIABLE faults     \* how many it has lost or duplicated

liveVars == <<vars, faults>>

LiveInit == Init /\ faults = 0

HandOver(e, d) ==
  /\ Receive(e, d)
  /\ d \notin net'
  /\ UNCHANGED faults

Fault(d) ==
  /\ faults < MaxFaults
  /\ faults' = faults + 1
  /\ \/ Lose(d)
     \/ \E e \in Endpoints : Receive(e, d) /\ d \in net'

LiveNext ==
  \/ \E e \in Endpoints :
       (ikcp_send(e) \/ ikcp_recv(e) \/ Flush(e)) /\ UNCHANGED faults
  \/ \E e \in Endpoints, d \in net : HandOver(e, d)
  \/ \E d \in net : Fault(d)

(* The application calls kcpuv_run for ever, so each end is flushed and    *)
(* drained again and again, every retransmission timer and the armed probe *)
(* timer run out, and every datagram UDP does not lose arrives.            *)
Fairness ==
  \A e \in Endpoints :
    LET Arrives(cmd, sn) == \E d \in net : d.cmd = cmd /\ d.sn = sn /\ HandOver(e, d)
    IN /\ WF_liveVars(ikcp_recv(e) /\ UNCHANGED faults)
       /\ WF_liveVars(/\ \E resend \in SUBSET snd_buf[e] : ikcp_flush(e, resend, TRUE)
                      /\ UNCHANGED faults)
       /\ \A sn \in 0..(MaxSent[e] - 1) :
            /\ WF_liveVars(/\ \E resend \in SUBSET snd_buf[e], due \in BOOLEAN :
                                sn \in Sns(resend) /\ ikcp_flush(e, resend, due)
                           /\ UNCHANGED faults)
            /\ WF_liveVars(Arrives("ACK", sn))
       /\ \A sn \in 0..(MaxSent[Peer(e)] - 1) : WF_liveVars(Arrives("PUSH", sn))
       /\ WF_liveVars(Arrives("WASK", 0))
       /\ WF_liveVars(Arrives("WINS", 0))

LiveSpec == LiveInit /\ [][LiveNext]_liveVars /\ Fairness

(* Every message sent is delivered, through lost data, lost ACKs, a closed *)
(* window and a lost window update.                                        *)
EverythingArrives ==
  \A e \in Endpoints : \A n \in 1..MaxSent[e] :
    (Len(sent[e]) >= n) ~> (Len(delivered[Peer(e)]) >= n)

=============================================================================
