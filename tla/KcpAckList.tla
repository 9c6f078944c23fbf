----------------------------- MODULE KcpAckList -----------------------------
(***************************************************************************)
(* The acknowledgements a control block owes, in an array that grows:      *)
(* ikcp_ack_push puts the number and the tick of a data segment at the     *)
(* end, ikcp_flush reads them all with ikcp_ack_get and starts again, in   *)
(* the same array.  A number and its tick are two fields of the array.     *)
(***************************************************************************)
EXTENDS Integers, Sequences

CONSTANTS
  FirstBlock,  \* entries of the first array: 8 in the code
  Sns, Tss,    \* numbers and ticks of data segments
  Junk,        \* what new memory holds
  MaxAcks      \* bound: acknowledgements between two flushes

AckAssumption ==
  FirstBlock \in Nat \ {0} /\ MaxAcks \in Nat /\ Junk \notin Sns \cup Tss

VARIABLES
  acklist,   \* the array, or NULL: the empty one
  ackblock,  \* entries it has room for
  ackcount,  \* entries in use
  answered,  \* what the last flush acknowledged
  heard,     \* history: segments received since the last flush
  asked      \* history: what the last flush should have acknowledged

vars == <<acklist, ackblock, ackcount, answered, heard, asked>>

Init ==
  /\ acklist = << >>
  /\ ackblock = 0 /\ ackcount = 0
  /\ answered = << >> /\ heard = << >> /\ asked = << >>

(* The sizes the loop tries, and the first of them that is enough.         *)
Block[k \in Nat] == IF k = 0 THEN FirstBlock ELSE 2 * Block[k - 1]

Doubled(newsize) ==
  Block[CHOOSE k \in 0..newsize :
          Block[k] >= newsize /\ \A j \in 0..(k - 1) : Block[j] < newsize]

(* Mutant of Grown: one of the two fields of an entry is copied.           *)
GrownHalf(newblock) ==
  [x \in 0..(2 * newblock - 1) |-> IF x < ackcount THEN acklist[x] ELSE Junk]

(* A larger array with the entries of the old one, which is freed.         *)
Grown(newblock) ==
  [x \in 0..(2 * newblock - 1) |-> IF x < 2 * ackcount THEN acklist[x] ELSE Junk]

ikcp_ack_push(sn, ts) ==
  LET newsize == ackcount + 1
      grow    == newsize > ackblock
      block   == IF grow THEN Doubled(newsize) ELSE ackblock
      list    == IF grow THEN Grown(block) ELSE acklist
  IN /\ acklist' = [list EXCEPT ![2 * ackcount] = sn, ![2 * ackcount + 1] = ts]
     /\ ackblock' = block
     /\ ackcount' = newsize

(* ikcp_input with a data segment.                                         *)
ikcp_input ==
  /\ Len(heard) < MaxAcks
  /\ \E sn \in Sns, ts \in Tss :
       /\ ikcp_ack_push(sn, ts)
       /\ heard' = Append(heard, <<sn, ts>>)
  /\ UNCHANGED <<answered, asked>>

ikcp_ack_get(p) == <<acklist[2 * p], acklist[2 * p + 1]>>

ikcp_flush ==
  /\ answered' = [i \in 1..ackcount |-> ikcp_ack_get(i - 1)]
  /\ ackcount' = 0
  /\ asked' = heard
  /\ heard' = << >>
  /\ UNCHANGED <<acklist, ackblock>>

Next == ikcp_input \/ ikcp_flush

Spec == Init /\ [][Next]_vars

(* A flush acknowledges exactly the segments received since the last one,  *)
(* in order and with their own ticks, before and after the array grew and  *)
(* with entries of former flushes still in it; no entry lies outside it.   *)
Acknowledges ==
  /\ answered = asked
  /\ DOMAIN acklist = 0..(2 * ackblock - 1) /\ ackcount =< ackblock

=============================================================================
