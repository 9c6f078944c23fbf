------------------------------ MODULE MCQueues ------------------------------
(* A small instance of KcpMemory, under the names the proofs about it use. *)
EXTENDS TLC

CONSTANTS Segs, NULL, Windows, MaxFrags, MaxSnd, MaxRcv

VARIABLES
  heap, seg_sn, seg_count, queue_nxt, snd_una, unqueue_nxt, rcv_wnd, released, input

Memory == INSTANCE KcpMemory WITH
  sn <- seg_sn, count <- seg_count, snd_nxt <- queue_nxt, rcv_nxt <- unqueue_nxt

ASSUME Memory!MemoryAssumption

(* Sound: addresses are kept and compared, nothing else tells them apart.  *)
SymmetryOfSegs == Permutations(Segs)

(* Sound: no step reads `input', and every step is checked, also one that  *)
(* leads to a known state.  Only a step that changes nothing and repeats   *)
(* the last input passes for a stutter, and a segment or acknowledgement   *)
(* that arrives twice running is right to change nothing.                  *)
AllButInput ==
  <<heap, seg_sn, seg_count, queue_nxt, snd_una, unqueue_nxt, rcv_wnd, released>>

QueuesSpec == Memory!Spec

(* The iqueue macros, ikcp_release: the queues can be walked both ways,    *)
(* their counters are right and every allocated segment is in one of them. *)
WellLinked == Memory!WellLinked

(* ikcp_parse_data, ikcp_parse_ack, ikcp_parse_una: the linked queues      *)
(* implement the sequences of SegQueues, with the same input.              *)
ImplementsQueues == Memory!ImplementsQueues

=============================================================================
