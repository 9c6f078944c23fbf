----------------------------- MODULE SegQueues ------------------------------
(***************************************************************************)
(* The four segment queues of a control block as sequences, with what the  *)
(* operations of ikcp.c do to them.  A segment is known by its address.    *)
(* `input' holds what the last operation was given: an implementation must *)
(* do what is right for that, not for some other input.                    *)
(***************************************************************************)
EXTENDS Integers, Sequences, SequencesExt, FiniteSetsExt

CONSTANTS
  Segs,     \* addresses of segments
  Windows,  \* bound: receive windows
  MaxFrags, \* bound: segments of a message that is sent
  MaxSnd,   \* bound: numbers given to segments that are sent
  MaxRcv    \* bound: numbers of segments that arrive

VARIABLES snd_queue, snd_buf, rcv_buf, rcv_queue, sn, snd_nxt, rcv_nxt, rcv_wnd, input

queues == <<snd_queue, snd_buf, rcv_buf, rcv_queue>>
qvars == <<queues, sn, snd_nxt, rcv_nxt, rcv_wnd, input>>

InUse == UNION {ToSet(queues[i]) : i \in DOMAIN queues}

QInit ==
  /\ queues = << << >>, << >>, << >>, << >> >>
  /\ sn = [s \in Segs |-> 0]
  /\ snd_nxt = 0 /\ rcv_nxt = 0 /\ rcv_wnd \in Windows /\ input = << >>

(* New segments at the end of snd_queue.                                   *)
QSend ==
  /\ \E n \in 1..MaxFrags :
       /\ input' = [frags |-> n]
       /\ \E ss \in [1..n -> Segs \ InUse] :
            IsInjective(ss) /\ snd_queue' = snd_queue \o ss
  /\ UNCHANGED <<snd_buf, rcv_buf, rcv_queue, sn, snd_nxt, rcv_nxt, rcv_wnd>>

(* The oldest of them get the numbers up to `end' and move to snd_buf.     *)
QMove ==
  /\ \E end \in snd_nxt..MaxSnd :
       LET n     == Min({end - snd_nxt, Len(snd_queue)})
           moved == SubSeq(snd_queue, 1, n)
       IN /\ input' = [end |-> end]
          /\ snd_queue' = SubSeq(snd_queue, n + 1, Len(snd_queue))
          /\ snd_buf' = snd_buf \o moved
          /\ snd_nxt' = snd_nxt + n
          /\ sn' = [s \in Segs |-> IF s \in ToSet(moved)
                                  THEN snd_nxt + (CHOOSE i \in 1..n : moved[i] = s) - 1
                                  ELSE sn[s]]
  /\ UNCHANGED <<rcv_buf, rcv_queue, rcv_nxt, rcv_wnd>>

QResize ==
  /\ input' = << >> /\ rcv_wnd' \in Windows
  /\ UNCHANGED <<queues, sn, snd_nxt, rcv_nxt>>

(* The segments below the received una leave, and the one acknowledged.    *)
QAck ==
  /\ \E una, n \in 0..snd_nxt :
       /\ input' = [una |-> una, ack |-> n]
       /\ snd_buf' = SelectSeq(snd_buf, LAMBDA s : sn[s] >= una /\ sn[s] # n)
  /\ UNCHANGED <<snd_queue, rcv_buf, rcv_queue, sn, snd_nxt, rcv_nxt, rcv_wnd>>

(* The segments of buf that are next in line and find room in que.         *)
Ready(buf, que, nums) ==
  Max({n \in 0..Len(buf) : Len(que) + n =< rcv_wnd \/ n = 0} \cap
      {n \in 0..Len(buf) : \A i \in 1..n : nums[buf[i]] = rcv_nxt + i - 1})

QUp(buf, que, nums) ==
  LET n == Ready(buf, que, nums)
  IN /\ rcv_buf' = SubSeq(buf, n + 1, Len(buf))
     /\ rcv_queue' = que \o SubSeq(buf, 1, n)
     /\ rcv_nxt' = rcv_nxt + n

(* A segment that is not there yet joins rcv_buf in the order of numbers.  *)
(* It may use the address of one its una acknowledged.                     *)
QData ==
  /\ \E una \in 0..snd_nxt, n \in rcv_nxt..(rcv_nxt + rcv_wnd - 1) :
       /\ n < MaxRcv
       /\ input' = [una |-> una, sn |-> n]
       /\ LET kept   == SelectSeq(snd_buf, LAMBDA s : sn[s] >= una)
              buf    == rcv_buf
              before == {i \in DOMAIN buf : sn[buf[i]] < n}
          IN /\ snd_buf' = kept
             /\ IF \E i \in DOMAIN buf : sn[buf[i]] = n
                THEN UNCHANGED sn /\ QUp(buf, rcv_queue, sn)
                ELSE \E s \in Segs \ (InUse \ (ToSet(snd_buf) \ ToSet(kept))) :
                       /\ sn' = [sn EXCEPT ![s] = n]
                       /\ QUp(InsertAt(buf, Cardinality(before) + 1, s), rcv_queue, sn')
  /\ UNCHANGED <<snd_queue, snd_nxt, rcv_wnd>>

(* The user takes a message of n segments.                                 *)
QRecv ==
  /\ \E n \in 1..Len(rcv_queue) :
       input' = [taken |-> n] /\ QUp(rcv_buf, SubSeq(rcv_queue, n + 1, Len(rcv_queue)), sn)
  /\ UNCHANGED <<snd_queue, snd_buf, sn, snd_nxt, rcv_wnd>>

QRelease ==
  /\ input' = << >> /\ queues' = << << >>, << >>, << >>, << >> >>
  /\ UNCHANGED <<sn, snd_nxt, rcv_nxt, rcv_wnd>>

QNext == QData \/ QAck \/ QMove \/ QRecv \/ QSend \/ QResize \/ QRelease

QSpec == QInit /\ [][QNext]_qvars

=============================================================================
