----------------------------- MODULE KcpMemory ------------------------------
(***************************************************************************)
(* The segments of a control block in memory: the doubly linked queues of  *)
(* ikcp.h (IQUEUEHEAD) with their heads in the control block, the walks of *)
(* ikcp.c over them, the counters kept beside them, and allocation.  The   *)
(* heap is a record of the next and prev fields of heads and segments and  *)
(* the set of segments that are allocated; the macros map a heap to the    *)
(* next one.  A loop is a recursive function: what it keeps after i rounds. *)
(* An allocation may return any free address; a datagram holds one segment. *)
(***************************************************************************)
EXTENDS Integers, Sequences, SequencesExt, FiniteSetsExt

CONSTANTS
  Segs,     \* addresses of segments
  NULL,
  Windows,  \* bound: receive windows
  MaxFrags, \* bound: segments of a message that is sent
  MaxSnd,   \* bound: numbers given to segments that are sent
  MaxRcv    \* bound: numbers of segments that arrive

Heads == {"snd_queue", "snd_buf", "rcv_queue", "rcv_buf"}

Nodes == Heads \cup Segs

MemoryAssumption ==
  /\ Windows \subseteq Nat \ {0} /\ {MaxFrags, MaxSnd, MaxRcv} \subseteq Nat
  /\ IsFiniteSet(Segs) /\ Heads \cap Segs = {} /\ NULL \notin Nodes

(* No loop over a queue has more rounds.                                   *)
Rounds == Cardinality(Segs)

VARIABLES
  heap,      \* [next, prev, live]
  sn,        \* seg->sn
  count,     \* nsnd_que, nsnd_buf, nrcv_que, nrcv_buf
  snd_nxt, snd_una, rcv_nxt,
  rcv_wnd,
  released,  \* ikcp_release was called
  input      \* history: what the last call was given

vars == <<heap, sn, count, snd_nxt, snd_una, rcv_nxt, rcv_wnd, released, input>>

-----------------------------------------------------------------------------
(* The macros of ikcp.h.                                                   *)

IQUEUE_INIT(h, p) == [h EXCEPT !.next = [@ EXCEPT ![p] = p], !.prev = [@ EXCEPT ![p] = p]]

(* Both put node between p and its neighbour, n.                           *)
IQUEUE_ADD(h, node, p) ==
  LET n == h.next[p]
  IN [h EXCEPT !.next = [@ EXCEPT ![node] = n, ![p] = node],
               !.prev = [@ EXCEPT ![node] = p, ![n] = node]]

(* Mutant of IQUEUE_ADD_TAIL: the last node is not told of the new one.    *)
AddTailOneWay(h, node, p) ==
  LET n == h.prev[p]
  IN [h EXCEPT !.next = [@ EXCEPT ![node] = p],
               !.prev = [@ EXCEPT ![node] = n, ![p] = node]]

IQUEUE_ADD_TAIL(h, node, p) ==
  LET n == h.prev[p]
  IN [h EXCEPT !.next = [@ EXCEPT ![node] = p, ![n] = node],
               !.prev = [@ EXCEPT ![node] = n, ![p] = node]]

IQUEUE_DEL(h, e) ==
  LET p == h.prev[e] n == h.next[e]
  IN [h EXCEPT !.next = [@ EXCEPT ![p] = n, ![e] = NULL],
               !.prev = [@ EXCEPT ![n] = p, ![e] = NULL]]

IQUEUE_IS_EMPTY(h, p) == h.next[p] = p

-----------------------------------------------------------------------------
(* Allocation.                                                             *)

(* ikcp_segment_new and iqueue_init.                                       *)
ikcp_segment_new(h, s) == IQUEUE_INIT([h EXCEPT !.live = @ \cup {s}], s)

ikcp_segment_delete(h, s) ==
  [h EXCEPT !.live = @ \ {s},
            !.next = [@ EXCEPT ![s] = NULL], !.prev = [@ EXCEPT ![s] = NULL]]

Free(h) == Segs \ h.live

(* iqueue_del and ikcp_segment_delete.                                     *)
Drop(h, s) == ikcp_segment_delete(IQUEUE_DEL(h, s), s)

-----------------------------------------------------------------------------

Init ==
  /\ heap = [next |-> [n \in Nodes |-> IF n \in Heads THEN n ELSE NULL],
             prev |-> [n \in Nodes |-> IF n \in Heads THEN n ELSE NULL],
             live |-> {}]
  /\ sn = [s \in Segs |-> 0]
  /\ count = [q \in Heads |-> 0]
  /\ snd_nxt = 0 /\ snd_una = 0 /\ rcv_nxt = 0
  /\ rcv_wnd \in Windows
  /\ released = FALSE /\ input = << >>

(* The loop of ikcp_send, for the addresses the allocations return.        *)
Queued(h, ss) ==
  LET f[i \in 0..Len(ss)] ==
        IF i = 0 THEN h
        ELSE IQUEUE_ADD_TAIL(ikcp_segment_new(f[i - 1], ss[i]), ss[i], "snd_queue")
  IN f[Len(ss)]

ikcp_send ==
  /\ ~released
  /\ \E n \in 1..MaxFrags : \E ss \in [1..n -> Free(heap)] :
       /\ IsInjective(ss)
       /\ heap' = Queued(heap, ss)
       /\ count' = [count EXCEPT !["snd_queue"] = @ + n]
       /\ input' = [frags |-> n]
  /\ UNCHANGED <<sn, snd_nxt, snd_una, rcv_nxt, rcv_wnd, released>>

(* The first segment of a queue moves to the end of another one and is the *)
(* next in number.                                                         *)
MoveFirst(m, from, to) ==
  LET s == m.h.next[from]
  IN [h     |-> IQUEUE_ADD_TAIL(IQUEUE_DEL(m.h, s), s, to),
      count |-> [m.count EXCEPT ![from] = @ - 1, ![to] = @ + 1],
      sn    |-> m.sn,
      nxt   |-> m.nxt + 1]

MoveOutStep(m) ==
  LET s == m.h.next["snd_queue"]
  IN IF IQUEUE_IS_EMPTY(m.h, "snd_queue") THEN m
     ELSE MoveFirst([m EXCEPT !.sn = [@ EXCEPT ![s] = m.nxt]], "snd_queue", "snd_buf")

(* The loop "move data from snd_queue to snd_buf", up to number `end'.     *)
MoveOut(m, end) ==
  LET f[i \in 0..(end - m.nxt)] == IF i = 0 THEN m ELSE MoveOutStep(f[i - 1])
  IN f[end - m.nxt]

(* ikcp_flush, with whatever end of the send window.                       *)
ikcp_flush ==
  /\ ~released
  /\ \E end \in snd_nxt..MaxSnd :
       LET m == MoveOut([h |-> heap, count |-> count, sn |-> sn, nxt |-> snd_nxt], end)
       IN /\ heap' = m.h /\ count' = m.count /\ sn' = m.sn /\ snd_nxt' = m.nxt
          /\ input' = [end |-> end]
  /\ UNCHANGED <<snd_una, rcv_nxt, rcv_wnd, released>>

(* The receive window may become smaller than what is there already.       *)
ikcp_wndsize ==
  /\ ~released
  /\ rcv_wnd' \in Windows /\ input' = << >>
  /\ UNCHANGED <<heap, sn, count, snd_nxt, snd_una, rcv_nxt, released>>

-----------------------------------------------------------------------------
(* Acknowledgements.                                                       *)

(* A walk from p along `link' to the first node where it stops.            *)
Reach(link, p, stop) ==
  LET f[i \in 0..Rounds] ==
        IF i = 0 THEN p ELSE IF f[i - 1] \in stop THEN f[i - 1] ELSE link[f[i - 1]]
  IN f[Rounds]

(* The walk of ikcp_parse_una keeps a heap, a node and a counter.          *)
ParseUnaStep(m, una) ==
  IF m.p = "snd_buf" \/ una =< sn[m.p] THEN m
  ELSE [h |-> Drop(m.h, m.p), p |-> m.h.next[m.p], dropped |-> m.dropped + 1]

ikcp_parse_una(h, una) ==
  LET f[i \in 0..Rounds] ==
        IF i = 0 THEN [h |-> h, p |-> h.next["snd_buf"], dropped |-> 0]
        ELSE ParseUnaStep(f[i - 1], una)
  IN f[Rounds]

(* ikcp_shrink_buf: the first number that is not acknowledged.             *)
ikcp_shrink_buf(h) ==
  IF IQUEUE_IS_EMPTY(h, "snd_buf") THEN snd_nxt ELSE sn[h.next["snd_buf"]]

(* Mutant of ikcp_parse_ack: drops the next one if n is gone already.      *)
ParseAckOrNext(m, n) ==
  LET p == Reach(m.h.next, m.h.next["snd_buf"], {"snd_buf"} \cup {s \in Segs : sn[s] >= n})
  IN IF n < ikcp_shrink_buf(m.h) \/ n >= snd_nxt \/ p = "snd_buf" THEN m
     ELSE [h |-> Drop(m.h, p), p |-> p, dropped |-> m.dropped + 1]

ikcp_parse_ack(m, n) ==
  LET p == Reach(m.h.next, m.h.next["snd_buf"], {"snd_buf"} \cup {s \in Segs : sn[s] = n})
  IN IF n < ikcp_shrink_buf(m.h) \/ n >= snd_nxt \/ p = "snd_buf" THEN m
     ELSE [h |-> Drop(m.h, p), p |-> p, dropped |-> m.dropped + 1]

(* ikcp_input with an acknowledgement of number n; any other segment that  *)
(* brings no data does what one of number snd_nxt does.                    *)
Acknowledge ==
  /\ ~released
  /\ \E una, n \in 0..snd_nxt :
       LET m == ikcp_parse_ack(ikcp_parse_una(heap, una), n)
       IN /\ input' = [una |-> una, ack |-> n]
          /\ heap' = m.h
          /\ count' = [count EXCEPT !["snd_buf"] = @ - m.dropped]
          /\ snd_una' = ikcp_shrink_buf(m.h)
  /\ UNCHANGED <<sn, snd_nxt, rcv_nxt, rcv_wnd, released>>

-----------------------------------------------------------------------------
(* Data.                                                                   *)

(* The loop "move available data from rcv_buf -> rcv_queue".               *)
MoveUpStep(m) ==
  IF /\ ~IQUEUE_IS_EMPTY(m.h, "rcv_buf")
     /\ m.sn[m.h.next["rcv_buf"]] = m.nxt /\ m.count["rcv_queue"] < rcv_wnd
  THEN MoveFirst(m, "rcv_buf", "rcv_queue")
  ELSE m

MoveUp(m) ==
  LET f[i \in 0..Rounds] == IF i = 0 THEN m ELSE MoveUpStep(f[i - 1])
  IN f[Rounds]

(* Mutant of InsertAfter: goes back once at most.                          *)
InsertAfterOneBack(h, n) ==
  LET p == h.prev["rcv_buf"]
  IN IF p = "rcv_buf" \/ sn[p] =< n THEN p ELSE h.prev[p]

(* The node of rcv_buf, walking back, after which number n belongs: its    *)
(* own if it is there already.                                             *)
InsertAfter(h, n) ==
  Reach(h.prev, h.prev["rcv_buf"], {"rcv_buf"} \cup {s \in Segs : sn[s] =< n})

(* ikcp_parse_data with a new segment s of number n: linked in or freed.   *)
ikcp_parse_data(heap1, count1, s, n) ==
  LET h      == ikcp_segment_new(heap1, s)
      p      == InsertAfter(h, n)
      repeat == p # "rcv_buf" /\ sn[p] = n
      new    == [h     |-> IQUEUE_ADD(h, s, p),
                 count |-> [count1 EXCEPT !["rcv_buf"] = @ + 1],
                 sn    |-> [sn EXCEPT ![s] = n],
                 nxt   |-> rcv_nxt]
      old    == [h |-> ikcp_segment_delete(h, s), count |-> count1, sn |-> sn, nxt |-> rcv_nxt]
      m      == MoveUp(IF repeat THEN old ELSE new)
  IN heap' = m.h /\ count' = m.count /\ rcv_nxt' = m.nxt /\ sn' = m.sn

(* ikcp_input with a data segment inside the receive window.               *)
Data ==
  /\ ~released
  /\ \E una \in 0..snd_nxt, n \in rcv_nxt..(rcv_nxt + rcv_wnd - 1) :
       LET m == ikcp_parse_una(heap, una)
       IN /\ n < MaxRcv /\ input' = [una |-> una, sn |-> n]
          /\ \E s \in Free(m.h) :
               ikcp_parse_data(m.h, [count EXCEPT !["snd_buf"] = @ - m.dropped], s, n)
          /\ snd_una' = ikcp_shrink_buf(m.h)
  /\ UNCHANGED <<snd_nxt, rcv_wnd, released>>

DropStep(h, q) == IF IQUEUE_IS_EMPTY(h, q) THEN h ELSE Drop(h, h.next[q])

(* The first n nodes of queue q, unlinked and freed.                       *)
DropFirst(h, q, n) ==
  LET f[i \in 0..n] == IF i = 0 THEN h ELSE DropStep(f[i - 1], q)
  IN f[n]

(* ikcp_recv of a message of n segments.                                   *)
ikcp_recv ==
  /\ ~released
  /\ \E n \in 1..count["rcv_queue"] :
       LET m == MoveUp([h     |-> DropFirst(heap, "rcv_queue", n),
                        count |-> [count EXCEPT !["rcv_queue"] = @ - n],
                        sn    |-> sn,
                        nxt   |-> rcv_nxt])
       IN heap' = m.h /\ count' = m.count /\ rcv_nxt' = m.nxt /\ input' = [taken |-> n]
  /\ UNCHANGED <<sn, snd_nxt, snd_una, rcv_wnd, released>>

(* Every queue emptied from its front.                                     *)
Emptied(h) ==
  DropFirst(DropFirst(DropFirst(DropFirst(h, "snd_buf", Rounds), "rcv_buf", Rounds),
                      "snd_queue", Rounds), "rcv_queue", Rounds)

ikcp_release ==
  /\ ~released
  /\ released' = TRUE /\ input' = << >>
  /\ heap' = Emptied(heap)
  /\ count' = [q \in Heads |-> 0]
  /\ UNCHANGED <<sn, snd_nxt, snd_una, rcv_nxt, rcv_wnd>>

Next ==
  \/ ikcp_send \/ ikcp_flush \/ ikcp_wndsize
  \/ Acknowledge \/ Data \/ ikcp_recv \/ ikcp_release

Spec == Init /\ [][Next]_vars

-----------------------------------------------------------------------------
(* Properties.                                                             *)

(* The nodes of a queue in the order of next, at most as many as exist.    *)
Contents(q) ==
  LET onward == [n \in Nodes \cup {NULL} |-> IF n \in {q, NULL} THEN n ELSE heap.next[n]]
      f[i \in 0..Rounds] == IF i = 0 THEN heap.next[q] ELSE onward[f[i - 1]]
  IN [i \in 1..Cardinality({j \in 0..Rounds : f[j] \notin {q, NULL}}) |-> f[i - 1]]

(* Each queue can be walked both ways, its counter (and so ikcp_waitsnd)   *)
(* is right, and the allocated segments are in one queue each: none leaks, *)
(* none is linked into two queues or after it was freed, and a released    *)
(* control block leaves none behind.                                       *)
WellLinked ==
  /\ \A q \in Heads :
       LET c == <<q>> \o Contents(q) \o <<q>>
       IN /\ \A i \in 1..(Len(c) - 1) : heap.next[c[i]] = c[i + 1] /\ heap.prev[c[i + 1]] = c[i]
          /\ count[q] = Len(Contents(q))
  /\ UNION {ToSet(Contents(q)) : q \in Heads} = heap.live

Queues == INSTANCE SegQueues WITH
  snd_queue <- Contents("snd_queue"), snd_buf <- Contents("snd_buf"),
  rcv_queue <- Contents("rcv_queue"), rcv_buf <- Contents("rcv_buf")

(* The linked queues implement the sequences the rest of this project      *)
(* takes them for, with the same input: the walk back in ikcp_parse_data   *)
(* finds the place of every segment, new or repeated, and the walks over   *)
(* snd_buf drop the segments that una and the ack are about, no other.     *)
ImplementsQueues == Queues!QSpec

=============================================================================
