------------------------------ MODULE KcpPack -------------------------------
(***************************************************************************)
(* From a user's buffer to datagrams and back: ikcp_send cuts a message    *)
(* into segments of mss bytes, ikcp_flush packs the segments that are due  *)
(* into datagrams of at most mtu bytes, ikcp_input takes a datagram apart, *)
(* ikcp_recv joins the segments of a message.  The path loses, cuts and    *)
(* damages datagrams (Kcp has one that reorders and repeats them).  Which  *)
(* segments are due and when they are acknowledged is left free (see       *)
(* KcpRetransmit); the windows are wide open.  A byte is the message it    *)
(* belongs to and its place there.  Numbers do not wrap (see KcpSeq).      *)
(***************************************************************************)
EXTENDS Integers, Sequences, SequencesExt, FiniteSetsExt

CONSTANTS
  Byte,          \* number of values of a byte: 256 in the code
  IKCP_OVERHEAD, \* 24 in the code
  IKCP_MTU_DEF,  \* 1400 in the code
  MinMtu,        \* 50 in the code
  MaxCount,      \* 255 in the code
  Mtus,          \* arguments of ikcp_setmtu
  Lengths,       \* lengths of the user's buffers
  Rooms,         \* lengths of the buffers given to ikcp_recv
  MaxMsgs,       \* bound: messages sent
  MaxSmall,      \* bound: ACK, WASK and WINS segments of one flush
  NetCap         \* bound: datagrams in flight when a flush begins

(* The number of values of 32 bits.                                        *)
Word == Byte * Byte * Byte * Byte

PackAssumption ==
  /\ {Byte, MaxCount, IKCP_OVERHEAD} \subseteq Nat \ {0} /\ MaxCount < Byte
  /\ {MaxMsgs, MaxSmall, NetCap, IKCP_MTU_DEF, MinMtu} \subseteq Nat
  /\ IKCP_OVERHEAD < MinMtu /\ MinMtu =< IKCP_MTU_DEF /\ IKCP_MTU_DEF < Word
  /\ Mtus \subseteq Nat /\ \A size \in Mtus : size < Word
  /\ Lengths \subseteq Nat /\ Rooms \subseteq Nat
  /\ MaxMsgs * MaxCount =< Word

VARIABLES
  mtu, mss,
  snd_queue,  \* segments without a number: [frg, data]
  snd_buf,    \* sn |-> segment sent and not acknowledged
  snd_nxt,
  net,        \* datagrams in flight, each a sequence of segments
  rcv_buf,    \* sn |-> segment received out of order
  rcv_queue,  \* segments received in order
  rcv_nxt,
  sent,       \* history: messages ikcp_send accepted
  received    \* history: messages ikcp_recv returned

sndVars == <<mtu, mss, snd_queue, snd_buf, snd_nxt, sent>>
rcvVars == <<rcv_buf, rcv_queue, rcv_nxt, received>>
vars == <<sndVars, net, rcvVars>>

Init ==
  /\ mtu = IKCP_MTU_DEF
  /\ mss = IKCP_MTU_DEF - IKCP_OVERHEAD
  /\ snd_queue = << >> /\ snd_buf = << >> /\ snd_nxt = 0
  /\ net = << >>
  /\ rcv_buf = << >> /\ rcv_queue = << >> /\ rcv_nxt = 0
  /\ sent = << >> /\ received = << >>

(* ikcp_setmtu.  Its callers set the size before they send: a segment cut  *)
(* for a larger one would not fit any more.                                *)
ikcp_setmtu ==
  /\ sent = << >> /\ net = << >>
  /\ \E size \in Mtus :
       /\ size >= MinMtu /\ size >= IKCP_OVERHEAD
       /\ mtu' = size
       /\ mss' = size - IKCP_OVERHEAD
  /\ UNCHANGED <<snd_queue, snd_buf, snd_nxt, sent, net, rcvVars>>

-----------------------------------------------------------------------------
(* Cutting.                                                                *)

(* The number of segments of a buffer of `len' bytes: an empty one has one.*)
Segments(len) == IF len =< mss THEN 1 ELSE (len + mss - 1) \div mss

(* Mutant of Accepted: any number of segments.                             *)
AcceptedAny(len) == TRUE

(* The number of a segment has to fit into one byte.                       *)
Accepted(len) == Segments(len) =< MaxCount

(* The segments of a message, each with the number of those after it.      *)
Cut(msg) ==
  LET count == Segments(Len(msg))
  IN [i \in 1..count |->
        [frg |-> count - i, data |-> SubSeq(msg, (i - 1) * mss + 1,
                                            Min({i * mss, Len(msg)}))]]

ikcp_send ==
  /\ Len(sent) < MaxMsgs
  /\ \E len \in Lengths :
       LET msg == [i \in 1..len |-> <<Len(sent) + 1, i>>]
       IN /\ Accepted(len)
          /\ snd_queue' = snd_queue \o Cut(msg)
          /\ sent' = Append(sent, msg)
  /\ UNCHANGED <<mtu, mss, snd_buf, snd_nxt, net, rcvVars>>

-----------------------------------------------------------------------------
(* The wire.                                                               *)

(* Unsigned numbers as bytes, lowest byte first, and back.                *)
ikcp_encode8u(v) == <<v % Byte>>

ikcp_decode8u(bytes) == bytes[1]

ikcp_encode32u(v) ==
  <<v % Byte, (v \div Byte) % Byte, ((v \div Byte) \div Byte) % Byte,
    (((v \div Byte) \div Byte) \div Byte) % Byte>>

ikcp_decode32u(bytes) ==
  bytes[1] + Byte * (bytes[2] + Byte * (bytes[3] + Byte * bytes[4]))

(* The fields of a segment that matter here; `ok' stands for the right     *)
(* conv and a known cmd.                                                   *)
ikcp_encode_seg(sn, seg) ==
  [ok |-> TRUE, push |-> TRUE, frg |-> ikcp_encode8u(seg.frg), sn |-> ikcp_encode32u(sn),
   len |-> ikcp_encode32u(Len(seg.data)), data |-> seg.data]

(* An ACK, a WASK or a WINS.                                               *)
Small == [ok |-> TRUE, push |-> FALSE, frg |-> ikcp_encode8u(0), sn |-> ikcp_encode32u(0),
          len |-> ikcp_encode32u(0), data |-> << >>]

Need(seg) == IKCP_OVERHEAD + Len(seg.data)

Size(segs) == FoldLeft(LAMBDA n, s : n + Need(s), 0, segs)

(* Mutant of Overflows: only what is there already is measured.            *)
OverflowsLate(buffer, seg) == Size(buffer) > mtu

(* There is no room for the segment.                                       *)
Overflows(buffer, seg) == Size(buffer) + Need(seg) > mtu

(* `out' and `buffer': the datagrams a flush has sent, and the next one.   *)
(* ikcp_output does nothing with an empty buffer.                          *)
ikcp_output(b) == IF b.buffer = << >> THEN b.out ELSE Append(b.out, b.buffer)

Put(b, seg) ==
  IF Overflows(b.buffer, seg) THEN [out |-> ikcp_output(b), buffer |-> <<seg>>]
  ELSE [b EXCEPT !.buffer = Append(@, seg)]

(* The walk of a flush: `small' segments without data, then the segments   *)
(* of snd_buf up to number nxt - 1, in order, those that are due.          *)
Filled(small, due, buf, nxt) ==
  LET b[j \in 0..(small + nxt)] ==
        LET sn == j - small - 1
        IN IF j = 0 THEN [out |-> << >>, buffer |-> << >>]
           ELSE IF j =< small THEN Put(b[j - 1], Small)
           ELSE IF sn \in due THEN Put(b[j - 1], ikcp_encode_seg(sn, buf[sn]))
           ELSE b[j - 1]
  IN b[small + nxt]

(* Mutant of Flushed: what is left at the end of the flush is not sent.    *)
FlushedNoRest(small, due, buf, nxt) == Filled(small, due, buf, nxt).out

(* The datagrams of a flush.                                               *)
Flushed(small, due, buf, nxt) == ikcp_output(Filled(small, due, buf, nxt))

(* ikcp_flush: the segments that are due are those `again' and the new     *)
(* ones.                                                                   *)
Flush(small, again) ==
  LET nxt == snd_nxt + Len(snd_queue)
      new == snd_nxt..(nxt - 1)
  IN /\ snd_buf' = [sn \in DOMAIN snd_buf \cup new |->
                      IF sn \in new THEN snd_queue[sn - snd_nxt + 1] ELSE snd_buf[sn]]
     /\ snd_queue' = << >>
     /\ snd_nxt' = nxt
     /\ net' = net \o Flushed(small, again \cup new, snd_buf', nxt)
     /\ UNCHANGED <<mtu, mss, sent, rcvVars>>

ikcp_flush ==
  \E small \in 0..MaxSmall, again \in SUBSET DOMAIN snd_buf :
    Len(net) < NetCap /\ Flush(small, again)

-----------------------------------------------------------------------------
(* The path and taking apart.                                              *)

(* What the path makes of a datagram: its end is missing, up to all of it, *)
(* or one of its segments has another conv or an unknown cmd.              *)
Arrives(d) ==
  {[segs |-> d, size |-> size] : size \in 0..Size(d)}
  \cup {[segs |-> [d EXCEPT ![i].ok = FALSE], size |-> Size(d)] : i \in DOMAIN d}

(* The first k segments can be read: nothing before the end of the k-th is *)
(* missing and each has the right conv and a known cmd.                    *)
Intact(a, k) ==
  /\ a.size >= Size(SubSeq(a.segs, 1, k))
  /\ \A i \in 1..k : a.segs[i].ok

(* What the loop of ikcp_input reads, up to the first segment it returns   *)
(* -1, -2 or -3 for.                                                       *)
Readable(a) == SubSeq(a.segs, 1, Max({k \in 0..Len(a.segs) : Intact(a, k)}))

(* The data segments of those, by number: each becomes a new segment.      *)
Pushed(segs) ==
  LET push == {s \in ToSet(segs) : s.push}
  IN [sn \in {ikcp_decode32u(s.sn) : s \in push} |->
        LET seg == CHOOSE s \in push : ikcp_decode32u(s.sn) = sn
        IN [frg |-> ikcp_decode8u(seg.frg), data |-> SubSeq(seg.data, 1, ikcp_decode32u(seg.len))]]

(* ikcp_parse_data for them all: new ones join rcv_buf, then those that    *)
(* are next move to rcv_queue.                                             *)
Input(arrived) ==
  LET new == Pushed(Readable(arrived))
      buf == [sn \in DOMAIN rcv_buf \cup {n \in DOMAIN new : n >= rcv_nxt} |->
                IF sn \in DOMAIN rcv_buf THEN rcv_buf[sn] ELSE new[sn]]
      nxt == Min({sn \in rcv_nxt..(rcv_nxt + Cardinality(DOMAIN buf)) : sn \notin DOMAIN buf})
  IN /\ rcv_queue' = rcv_queue \o [i \in 1..(nxt - rcv_nxt) |-> buf[rcv_nxt + i - 1]]
     /\ rcv_buf' = [sn \in DOMAIN buf \ (rcv_nxt..(nxt - 1)) |-> buf[sn]]
     /\ rcv_nxt' = nxt
     /\ net' = Tail(net)
     /\ UNCHANGED <<sndVars, received>>

ikcp_input == net # << >> /\ \E arrived \in Arrives(Head(net)) : Input(arrived)

(* The acknowledgement of all the peer has.                                *)
Ack ==
  /\ snd_buf' = [sn \in {n \in DOMAIN snd_buf : n >= rcv_nxt /\ n \notin DOMAIN rcv_buf} |->
                   snd_buf[sn]]
  /\ UNCHANGED <<mtu, mss, snd_queue, snd_nxt, sent, net, rcvVars>>

-----------------------------------------------------------------------------
(* Joining.                                                                *)

(* The number of segments of the first message, up to the one with frg 0.  *)
FirstMessage ==
  LET ends == {i \in DOMAIN rcv_queue : rcv_queue[i].frg = 0}
  IN IF ends = {} THEN Len(rcv_queue) ELSE Min(ends)

Joined(n) == FlattenSeq([i \in 1..n |-> rcv_queue[i].data])

(* The size of the first message, -1 if it is not complete.                *)
ikcp_peeksize ==
  IF rcv_queue = << >> \/ Len(rcv_queue) < rcv_queue[1].frg + 1 THEN -1
  ELSE Len(Joined(FirstMessage))

(* With a buffer that is too small nothing happens.                        *)
ikcp_recv ==
  /\ \E room \in Rooms : ikcp_peeksize >= 0 /\ ikcp_peeksize =< room
  /\ received' = Append(received, Joined(FirstMessage))
  /\ rcv_queue' = SubSeq(rcv_queue, FirstMessage + 1, Len(rcv_queue))
  /\ UNCHANGED <<sndVars, net, rcv_buf, rcv_nxt>>

Next ==
  \/ ikcp_setmtu \/ ikcp_send \/ ikcp_flush
  \/ ikcp_input \/ Ack \/ ikcp_recv

Spec == Init /\ [][Next]_vars

-----------------------------------------------------------------------------
(* Properties.                                                             *)

(* Every datagram fits: ikcp_output is never called with more than mtu     *)
(* bytes, whatever mix of acknowledgements, probes and segments is due.    *)
Fits == \A d \in ToSet(net) : 0 < Size(d) /\ Size(d) =< mtu

(* The peer's user gets the messages that were sent, byte for byte, whole  *)
(* and in order, although datagrams are cut short or damaged and one byte  *)
(* has to hold the number of segments still to come.                       *)
Faithful == IsPrefix(received, sent)

(* The path ends with the segments that get a number, in their order, and *)
(* nothing before them claims to be one of them.                           *)
SentOnce ==
  LET path == FlattenSeq(net')
      old  == Len(path) - (snd_nxt' - snd_nxt)
  IN /\ old >= 0
     /\ \A i \in DOMAIN path :
          LET sn == ikcp_decode32u(path[i].sn)
          IN IF i > old THEN path[i].push /\ sn = snd_nxt + i - old - 1
             ELSE path[i].push => sn < snd_nxt

(* Every segment that gets a number is on the path once the flush is over, *)
(* in the order of the numbers: none stays behind in the buffer.           *)
AllSent == [][SentOnce]_vars

=============================================================================
