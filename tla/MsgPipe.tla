------------------------------ MODULE MsgPipe ------------------------------
(***************************************************************************)
(* What a KCP conversation promises its user: in each direction, messages  *)
(* come out whole, in the order they went in, each once.  Nothing is said  *)
(* of windows, acknowledgements or datagrams.                              *)
(***************************************************************************)
EXTENDS Fragments

VARIABLES
  sent,       \* sent[e]: the fragments of all messages e's user has sent
  delivered   \* delivered[e]: the fragments handed to e's user so far

pipeVars == <<sent, delivered>>

PipeInit ==
  /\ sent = [e \in Endpoints |-> <<>>]
  /\ delivered = [e \in Endpoints |-> <<>>]

PipeSend(e) ==
  /\ \E count \in 1..MaxCount :
       sent' = [sent EXCEPT ![e] = @ \o Message(Len(@), count)]
  /\ UNCHANGED delivered

(***************************************************************************)
(* Deliver the next message of the peer's stream: everything up to and     *)
(* including the next fragment that ends a message.                        *)
(***************************************************************************)
PipeDeliver(e) ==
  LET stream == sent[Peer(e)]
      from   == Len(delivered[e])
  IN /\ \E to \in (from + 1)..Len(stream) :
          /\ stream[to].frg = 0
          /\ \A i \in (from + 1)..(to - 1) : stream[i].frg # 0
          /\ delivered' = [delivered EXCEPT
                             ![e] = @ \o SubSeq(stream, from + 1, to)]
     /\ UNCHANGED sent

PipeNext == \E e \in Endpoints : PipeSend(e) \/ PipeDeliver(e)

PipeSpec == PipeInit /\ [][PipeNext]_pipeVars

=============================================================================
