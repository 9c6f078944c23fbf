----------------------------- MODULE KcpuvProofs ----------------------------
(***************************************************************************)
(* The connection layer, for any clients, nonces, convs, keys and          *)
(* time-outs: HandshakeInv is inductive, and agreement, separation of      *)
(* connections and the rest follow from it.  With it EndToEndInv is        *)
(* inductive if no conv is used twice: every connection has one stream     *)
(* each way, and what is in flight or delivered is a part of it.           *)
(***************************************************************************)
EXTENDS KcpuvInvariant, ArithmeticLemmas, FiniteSetTheorems, SequenceTheorems

-----------------------------------------------------------------------------
(* Selecting from a sequence.                                              *)

(* A set of places of a sequence is finite, and so are its parts.          *)
LEMMA PlacesFinite ==
  ASSUME NEW n \in Nat, NEW I, I \subseteq 1..n
  PROVE  IsFiniteSet(I) /\ Cardinality(I) \in Nat
<1>1. IsFiniteSet(1..n)
  BY FS_Interval
<1>2. IsFiniteSet(I)
  BY <1>1, FS_Subset
<1> QED
  BY <1>2, FS_CardinalityType

(* The k-th place of I exists: it is where the count reaches k.            *)
LEMMA NthPlace ==
  ASSUME NEW n \in Nat, NEW I, I \subseteq 1..n, NEW k \in 1..Cardinality(I)
  PROVE  \E i \in I : Rank(I, i) = k
<1> DEFINE Upto(i) == {j \in I : j =< i}
           T == {i \in Nat : i =< n /\ Cardinality(Upto(i)) >= k}
<1>1. Cardinality(I) \in Nat
  BY PlacesFinite
<1>2. k \in Nat /\ k >= 1 /\ k =< Cardinality(I)
  BY <1>1
<1>3. \A j \in I : j \in Nat /\ 1 =< j /\ j =< n
  OBVIOUS
<1>4. \A i \in Nat : IsFiniteSet(Upto(i)) /\ Cardinality(Upto(i)) \in Nat
  <2> TAKE i \in Nat
  <2>1. Upto(i) \subseteq 1..n
    OBVIOUS
  <2> HIDE DEF Upto
  <2> QED
    BY <2>1, PlacesFinite
<1>5. Upto(n) = I
  BY <1>3
<1>6. Upto(0) = {}
  <2>1. \A j \in I : ~(j =< 0)
    BY <1>3
  <2> QED
    BY <2>1
<1>7. n \in T
  BY <1>2, <1>5
<1>8. PICK i \in T : \A x \in T : i =< x
  <2>1. T \subseteq Nat
    OBVIOUS
  <2> HIDE DEF T
  <2> QED
    BY <1>7, <2>1, LeastNat
<1>9. i \in Nat /\ i =< n /\ Cardinality(Upto(i)) >= k
  OBVIOUS
<1>10. i - 1 \in Nat
  <2>1. Cardinality({}) = 0
    BY FS_EmptySet
  <2>2. i # 0
    <3> HIDE DEF Upto
    <3> QED BY <1>2, <1>6, <1>9, <2>1
  <2> QED
    BY <1>9, <2>2
<1>11. Cardinality(Upto(i - 1)) < k
  <2>1. i - 1 \notin T
    <3> HIDE DEF T
    <3> QED BY <1>8, <1>9
  <2> HIDE DEF Upto
  <2> QED
    BY <1>2, <1>4, <1>9, <1>10, <2>1
<1>12. i \in I
  <2> SUFFICES ASSUME i \notin I PROVE FALSE
    OBVIOUS
  <2>1. \A j \in I : j =< i <=> j =< i - 1
    BY <1>3, <1>9
  <2>2. Upto(i) = Upto(i - 1)
    BY <2>1
  <2> HIDE DEF Upto
  <2> QED
    BY <1>2, <1>4, <1>9, <1>10, <1>11, <2>2
<1>13. Cardinality(Upto(i)) = Cardinality(Upto(i - 1)) + 1
  <2>1. \A j \in I : j =< i <=> (j =< i - 1 \/ j = i)
    BY <1>3, <1>9
  <2>2. ~(i =< i - 1)
    BY <1>9
  <2>3. Upto(i) = Upto(i - 1) \cup {i} /\ i \notin Upto(i - 1)
    BY <1>12, <2>1, <2>2
  <2> HIDE DEF Upto
  <2> QED
    BY <1>4, <1>10, <2>3, FS_AddElement
<1>14. Cardinality(Upto(i)) = k
  <2> HIDE DEF Upto
  <2> QED
    BY <1>2, <1>4, <1>9, <1>10, <1>11, <1>13
<1> QED
  BY <1>12, <1>14 DEF Rank

(* Select takes elements of q, each from its place in I.                   *)
LEMMA SelectProperties ==
  ASSUME NEW S, NEW q \in Seq(S), NEW I, I \subseteq 1..Len(q)
  PROVE  /\ Select(q, I) \in Seq(S)
         /\ Len(Select(q, I)) = Cardinality(I)
         /\ \A k \in 1..Cardinality(I) :
              \E i \in I : Select(q, I)[k] = q[i] /\ Rank(I, i) = k
<1>1. Len(q) \in Nat
  OBVIOUS
<1>2. Cardinality(I) \in Nat
  BY <1>1, PlacesFinite
<1>3. \A k \in 1..Cardinality(I) :
        \E i \in I : Select(q, I)[k] = q[i] /\ Rank(I, i) = k
  <2> TAKE k \in 1..Cardinality(I)
  <2> DEFINE At(i) == Rank(I, i) = k
             p == CHOOSE i \in I : At(i)
  <2>1. \E i \in I : Rank(I, i) = k
    BY <1>1, NthPlace
  <2>2. p \in I /\ At(p)
    <3> HIDE DEF At
    <3>1. \E i \in I : At(i)
      BY <2>1 DEF At
    <3> QED BY <3>1
  <2>3. Select(q, I)[k] = q[p]
    BY DEF Select
  <2> QED
    BY <2>2, <2>3
<1>4. \A k \in 1..Cardinality(I) : Select(q, I)[k] \in S
  <2>1. \A i \in 1..Len(q) : q[i] \in S
    BY ElementOfSeq
  <2> QED
    BY <1>3, <2>1
<1>5. Select(q, I) \in [1..Cardinality(I) -> S]
  BY <1>4 DEF Select
<1>6. Select(q, I) \in Seq(S) /\ Len(Select(q, I)) = Cardinality(I)
  BY <1>2, <1>5, IsASeq, LenProperties
<1> QED
  BY <1>3, <1>6

-----------------------------------------------------------------------------
(* The operations of a Conn: their types, and the fields they leave alone. *)

(* The constants, as the provers use them.                                 *)
LEMMA Constants ==
  /\ Server \in Hosts /\ Clients \subseteq Hosts
  /\ ReqTimes \in Nat /\ ResendInterval \in Nat
  /\ ExpireTimeout \in Nat /\ ConnectTimeout \in Nat
  /\ Empty \in Body
  /\ NewConn \in Conn /\ NoConn = NewConn
<1>1. /\ ReqTimes \in Nat /\ ResendInterval \in Nat
      /\ ExpireTimeout \in Nat /\ ConnectTimeout \in Nat
  BY KcpuvAssumption
<1>2. << >> \in Seq(KeyedMsg)
  BY EmptySeq
<1>3. NewConn \in Conn
  BY <1>2 DEF NewConn, Conn, NONE, Status, Hosts
<1> QED
  BY <1>1, <1>3 DEF Hosts, Empty, Body, NONE, NoConn

(* Two Conns that are the same connection: its names and its key.          *)
SameConn(r, s) ==
  r.conv = s.conv /\ r.key = s.key /\ r.n = s.n /\ r.status = s.status

(* send_kcp appends one message under the key of the connection.           *)
LEMMA SendKcpType ==
  ASSUME NEW s \in Conn, NEW body \in Body
  PROVE  LET r == send_kcp(s, body)
         IN /\ r \in Conn /\ SameConn(r, s) /\ r.inq = s.inq /\ r.addr = s.addr
            /\ r.rcv_nxt = s.rcv_nxt
            /\ Len(r.out) = Len(s.out) + 1
            /\ \A i \in 1..Len(s.out) : r.out[i] = s.out[i]
            /\ r.out[Len(s.out) + 1] = Msg(s.key, body)
<1>1. s.out \in Seq(KeyedMsg) /\ Msg(s.key, body) \in KeyedMsg
  BY DEF Conn, Msg, KeyedMsg
<1>2. /\ Append(s.out, Msg(s.key, body)) \in Seq(KeyedMsg)
      /\ Len(Append(s.out, Msg(s.key, body))) = Len(s.out) + 1
      /\ \A i \in 1..Len(s.out) : Append(s.out, Msg(s.key, body))[i] = s.out[i]
      /\ Append(s.out, Msg(s.key, body))[Len(s.out) + 1] = Msg(s.key, body)
  BY <1>1, AppendProperties
<1>3. send_kcp(s, body) \in Conn
  BY <1>2 DEF send_kcp, Conn
<1> QED
  BY <1>2, <1>3 DEF send_kcp, SameConn, Conn

(* alive only moves the time of expiry.                                    *)
LEMMA AliveType ==
  ASSUME NEW s \in Conn
  PROVE  /\ alive(s) \in Conn /\ SameConn(alive(s), s)
         /\ alive(s).out = s.out /\ alive(s).inq = s.inq
         /\ alive(s).addr = s.addr /\ alive(s).rcv_nxt = s.rcv_nxt
  BY Constants DEF alive, Conn, SameConn

(* The passing of a tick changes only the countdowns.                      *)
LEMMA LaterType ==
  ASSUME NEW s \in Conn
  PROVE  /\ Later(s) \in Conn /\ SameConn(Later(s), s)
         /\ Later(s).out = s.out /\ Later(s).inq = s.inq
         /\ Later(s).addr = s.addr /\ Later(s).rcv_nxt = s.rcv_nxt
<1>1. Down(s.resend) \in Nat /\ Down(s.expire) \in Nat
  BY DEF Down, Conn
<1> QED
  BY <1>1 DEF Later, Conn, SameConn

(* The message of d is the next one of the stream s receives.              *)
Takes(s, d) == d.type = "kcp" /\ d.conv = s.conv /\ d.sn = s.rcv_nxt + 1

(* on_recv_udp takes over the address and, if it is next, the message.     *)
LEMMA OnRecvUdpType ==
  ASSUME NEW s \in Conn, NEW d \in Datagram
  PROVE  LET r == on_recv_udp(s, d)
         IN /\ r \in Conn /\ SameConn(r, s) /\ r.out = s.out /\ r.addr = d.src
            /\ IF Takes(s, d)
               THEN /\ r.inq = Append(s.inq, d.msg) /\ r.rcv_nxt = s.rcv_nxt + 1
                    /\ Len(r.inq) = Len(s.inq) + 1
                    /\ \A i \in 1..Len(s.inq) : r.inq[i] = s.inq[i]
                    /\ r.inq[Len(s.inq) + 1] = d.msg
               ELSE r.inq = s.inq /\ r.rcv_nxt = s.rcv_nxt
<1>1. s.inq \in Seq(KeyedMsg) /\ d.src \in Hosts
  BY DEF Conn, Datagram, Hosts
<1>2. CASE Takes(s, d)
  <2>1. d.msg \in KeyedMsg /\ d.sn \in Nat
    BY <1>2 DEF Takes, Datagram
  <2>2. /\ Append(s.inq, d.msg) \in Seq(KeyedMsg)
        /\ Len(Append(s.inq, d.msg)) = Len(s.inq) + 1
        /\ \A i \in 1..Len(s.inq) : Append(s.inq, d.msg)[i] = s.inq[i]
        /\ Append(s.inq, d.msg)[Len(s.inq) + 1] = d.msg
    BY <1>1, <2>1, AppendProperties
  <2>3. on_recv_udp(s, d) = [s EXCEPT !.addr = d.src, !.rcv_nxt = d.sn,
                                      !.inq = Append(s.inq, d.msg)]
    BY <1>2 DEF on_recv_udp, Takes, Conn
  <2> QED
    BY <1>1, <1>2, <2>1, <2>2, <2>3 DEF SameConn, Conn, Takes
<1>3. CASE ~Takes(s, d)
  <2>1. on_recv_udp(s, d) = [s EXCEPT !.addr = d.src]
    BY <1>3 DEF on_recv_udp, Takes, Conn
  <2> QED
    BY <1>1, <1>3, <2>1 DEF SameConn, Conn
<1> QED
  BY <1>2, <1>3

(* Conn::run empties the input and appends the replies.                    *)
LEMMA RunConnType ==
  ASSUME NEW s \in Conn, NEW replies \in Nat
  PROVE  LET r == RunConn(s, replies)
         IN /\ r \in Conn /\ SameConn(r, s) /\ r.inq = << >> /\ r.addr = s.addr
            /\ r.rcv_nxt = s.rcv_nxt
            /\ Len(r.out) = Len(s.out) + replies
            /\ \A i \in 1..Len(s.out) : r.out[i] = s.out[i]
            /\ \A i \in (Len(s.out) + 1)..Len(r.out) : r.out[i] = Msg(s.key, Empty)
<1> DEFINE acks == [i \in 1..replies |-> Msg(s.key, Empty)]
           drained == [s EXCEPT !.inq = << >>, !.out = s.out \o acks]
<1>1. s.out \in Seq(KeyedMsg) /\ Msg(s.key, Empty) \in KeyedMsg /\ << >> \in Seq(KeyedMsg)
  BY Constants, EmptySeq DEF Conn, Msg, KeyedMsg
<1>2. acks \in Seq(KeyedMsg) /\ Len(acks) = replies
  BY <1>1
<1>3. /\ s.out \o acks \in Seq(KeyedMsg)
      /\ Len(s.out \o acks) = Len(s.out) + replies
      /\ \A i \in 1..Len(s.out) : (s.out \o acks)[i] = s.out[i]
      /\ \A i \in (Len(s.out) + 1)..Len(s.out \o acks) : (s.out \o acks)[i] = Msg(s.key, Empty)
  <2> HIDE DEF acks, drained
  <2>0. Len(s.out) \in Nat /\ Len(acks) \in Nat
    BY <1>1, <1>2
  <2>1. /\ s.out \o acks \in Seq(KeyedMsg)
        /\ Len(s.out \o acks) = Len(s.out) + replies
        /\ \A i \in 1..(Len(s.out) + Len(acks)) : (s.out \o acks)[i] =
             IF i =< Len(s.out) THEN s.out[i] ELSE acks[i - Len(s.out)]
    BY <1>1, <1>2, ConcatProperties
  <2>2. \A i \in (Len(s.out) + 1)..Len(s.out \o acks) : i - Len(s.out) \in 1..replies
    BY <1>2, <2>0, <2>1
  <2> QED
    BY <1>2, <2>0, <2>1, <2>2 DEF acks
<1>4. /\ drained \in Conn /\ SameConn(drained, s) /\ drained.inq = << >>
      /\ drained.out = s.out \o acks /\ drained.addr = s.addr /\ drained.rcv_nxt = s.rcv_nxt
  <2> HIDE DEF acks
  <2> QED
    BY <1>1, <1>3 DEF Conn, SameConn
<1>5. RunConn(s, replies) = drained \/ RunConn(s, replies) = alive(drained)
  BY DEF RunConn
<1>6. /\ alive(drained) \in Conn /\ SameConn(alive(drained), drained)
      /\ alive(drained).out = drained.out /\ alive(drained).inq = drained.inq
      /\ alive(drained).addr = drained.addr /\ alive(drained).rcv_nxt = drained.rcv_nxt
  <2> HIDE DEF drained
  <2> QED
    BY <1>4, AliveType
<1> HIDE DEF drained, acks
<1> QED
  BY <1>3, <1>4, <1>5, <1>6 DEF SameConn

(* What queue_msg holds.                                                   *)
Delivered == [conv : Convs, n : Nonces, body : Body]

(* Payloads are the messages of inq at their places, in order.             *)
LEMMA PayloadsProperties ==
  ASSUME NEW s \in Conn
  PROVE  /\ Payloads(s) \in Seq(KeyedMsg)
         /\ Len(Payloads(s)) = Cardinality(PayloadsAt(s))
         /\ \A i \in 1..Cardinality(PayloadsAt(s)) : \E k \in PayloadsAt(s) :
              Payloads(s)[i] = s.inq[k] /\ Rank(PayloadsAt(s), k) = i
<1>1. s.inq \in Seq(KeyedMsg) /\ PayloadsAt(s) \subseteq 1..Len(s.inq)
  BY DEF Conn, PayloadsAt
<1> QED
  BY <1>1, SelectProperties DEF Payloads

(* push_msg appends the payloads of inq, in order, for host h only.        *)
LEMMA PushMsgType ==
  ASSUME queue_msg \in [Hosts -> Seq(Delivered)],
         NEW h \in Hosts, NEW s \in Conn, s.conv \in Convs, s.n \in Nonces,
         push_msg(h, s)
  PROVE  /\ queue_msg' \in [Hosts -> Seq(Delivered)]
         /\ \A g \in Hosts \ {h} : queue_msg'[g] = queue_msg[g]
         /\ PayloadsAt(s) \subseteq 1..Len(s.inq)
         /\ Cardinality(PayloadsAt(s)) \in Nat
         /\ Len(queue_msg'[h]) = Len(queue_msg[h]) + Cardinality(PayloadsAt(s))
         /\ \A i \in 1..Len(queue_msg[h]) : queue_msg'[h][i] = queue_msg[h][i]
         /\ \A i \in 1..Cardinality(PayloadsAt(s)) :
              \E k \in PayloadsAt(s) :
                /\ queue_msg'[h][Len(queue_msg[h]) + i] =
                     [conv |-> s.conv, n |-> s.n, body |-> s.inq[k].body]
                /\ Rank(PayloadsAt(s), k) = i
<1> DEFINE P == Payloads(s)
           card == Cardinality(PayloadsAt(s))
           new == [i \in 1..Len(P) |-> [conv |-> s.conv, n |-> s.n, body |-> P[i].body]]
<1>1. s.inq \in Seq(KeyedMsg) /\ PayloadsAt(s) \subseteq 1..Len(s.inq)
  BY DEF Conn, PayloadsAt
<1>2. card \in Nat
  <2>1. Len(s.inq) \in Nat
    BY <1>1
  <2> QED
    BY <1>1, <2>1, PlacesFinite
<1>3. /\ P \in Seq(KeyedMsg) /\ Len(P) = card
      /\ \A i \in 1..card : \E k \in PayloadsAt(s) :
           P[i] = s.inq[k] /\ Rank(PayloadsAt(s), k) = i
  BY <1>1, PayloadsProperties
<1> HIDE DEF P
<1>4. new \in Seq(Delivered) /\ Len(new) = card
  <2>1. \A i \in 1..Len(P) : P[i] \in KeyedMsg
    BY <1>3, ElementOfSeq
  <2>2. \A i \in 1..Len(P) : [conv |-> s.conv, n |-> s.n, body |-> P[i].body] \in Delivered
    BY <2>1 DEF KeyedMsg, Delivered
  <2> QED
    BY <1>2, <1>3, <2>2
<1>5. \A i \in 1..card : new[i] = [conv |-> s.conv, n |-> s.n, body |-> P[i].body]
  BY <1>3
<1>6. queue_msg' = [queue_msg EXCEPT ![h] = queue_msg[h] \o new]
  BY DEF push_msg, P
<1> HIDE DEF new
<1>7. /\ queue_msg[h] \o new \in Seq(Delivered)
      /\ Len(queue_msg[h] \o new) = Len(queue_msg[h]) + card
      /\ \A i \in 1..(Len(queue_msg[h]) + card) : (queue_msg[h] \o new)[i] =
           IF i =< Len(queue_msg[h]) THEN queue_msg[h][i] ELSE new[i - Len(queue_msg[h])]
  <2>1. queue_msg[h] \in Seq(Delivered)
    OBVIOUS
  <2> QED
    BY <1>4, <2>1, ConcatProperties
<1>8. queue_msg'[h] = queue_msg[h] \o new /\ Len(queue_msg[h]) \in Nat
  BY <1>6
<1>9. \A i \in 1..Len(queue_msg[h]) : queue_msg'[h][i] = queue_msg[h][i]
  BY <1>2, <1>7, <1>8
<1>10. \A i \in 1..card : queue_msg'[h][Len(queue_msg[h]) + i] = new[i]
  BY <1>2, <1>7, <1>8
<1>11. queue_msg' \in [Hosts -> Seq(Delivered)] /\ \A g \in Hosts \ {h} : queue_msg'[g] = queue_msg[g]
  BY <1>6, <1>7
<1>12. \A i \in 1..card : \E k \in PayloadsAt(s) :
         /\ queue_msg'[h][Len(queue_msg[h]) + i] =
              [conv |-> s.conv, n |-> s.n, body |-> s.inq[k].body]
         /\ Rank(PayloadsAt(s), k) = i
  BY <1>3, <1>5, <1>10
<1> QED
  BY <1>1, <1>2, <1>7, <1>8, <1>9, <1>11, <1>12

-----------------------------------------------------------------------------
(* What every step keeps.                                                  *)

(* Datagrams stay in net, and the server's request map is never erased.    *)
Grows ==
  /\ net \subseteq net'
  /\ \A n \in DOMAIN map_req_conn :
       /\ n \in DOMAIN map_req_conn'
       /\ map_req_conn'[n] = map_req_conn[n]
       /\ issued_key'[n] = issued_key[n]

(* What was once served stays served: the request map only grows.          *)
LEMMA Persist ==
  ASSUME Grows
  PROVE  /\ \A n, conv, key : Served(n, conv, key) => Served(n, conv, key)'
         /\ \A conv, m : Genuine(conv, m) => Genuine(conv, m)'
         /\ \A conv, m : Arrived(conv, m) => Arrived(conv, m)'
         /\ \A d : DatagramInv(d) => DatagramInv(d)'
<1>1. \A n, conv, key : Served(n, conv, key) => Served(n, conv, key)'
  BY DEF Grows, Served
<1>2. \A conv, m : Genuine(conv, m) => Genuine(conv, m)'
  BY <1>1 DEF Genuine
<1>3. \A conv, m : Arrived(conv, m) => Arrived(conv, m)'
  BY DEF Grows, Arrived
<1>4. \A d : DatagramInv(d) => DatagramInv(d)'
  BY <1>1, <1>2 DEF DatagramInv
<1> QED
  BY <1>1, <1>2, <1>3, <1>4

(* What HandshakeInv says of the Conn objects, in one place.               *)
LEMMA ConnFacts ==
  ASSUME HandshakeInv
  PROVE  /\ \A conv \in DOMAIN map_conn :
              LET s == map_conn[conv]
              IN /\ conv \in Convs /\ s \in Conn /\ s.conv = conv
                 /\ s.n \in Nonces /\ s.key \in Keys
                 /\ s.n \in DOMAIN map_req_conn /\ s.n \in DOMAIN issued_key
                 /\ map_req_conn[s.n] = conv /\ issued_key[s.n] = s.key
         /\ \A c \in Clients : conn[c] \in Conn
         /\ \A c \in Clients : conn[c].status = "ESTABLISHED" =>
              LET s == conn[c]
              IN /\ s.conv \in Convs /\ s.n \in Nonces /\ s.key \in Keys
                 /\ s.n \in DOMAIN map_req_conn /\ s.n \in DOMAIN issued_key
                 /\ map_req_conn[s.n] = s.conv /\ issued_key[s.n] = s.key
<1>1. TypeOK
  BY DEF HandshakeInv
<1>2. \A conv \in DOMAIN map_conn : ServerConnInv(conv)
  BY DEF HandshakeInv
<1>3. \A c \in Clients : ClientConnInv(c)
  BY DEF HandshakeInv
<1> QED
  BY <1>1, <1>2, <1>3 DEF TypeOK, ServerConnInv, ClientConnInv, Served

(* A step keeps the invariant if whatever it changes has its invariant.    *)
LEMMA Assemble ==
  ASSUME HandshakeInv, TypeOK', Grows,
         \A conv \in DOMAIN map_conn' :
           \/ conv \in DOMAIN map_conn /\ map_conn'[conv] = map_conn[conv]
           \/ /\ ServerConnInv(conv)'
              /\ ConvReuse \/ (map_conn'[conv].status = "ESTABLISHED" => Answered(conv)'),
         \A c \in Clients : conn'[c] = conn[c] \/ ClientConnInv(c)',
         \A d \in net' : d \in net \/ DatagramInv(d)',
         \/ UNCHANGED <<map_req_conn, issued_key>>
         \/ Injective(issued_key') /\ (ConvReuse \/ Injective(map_req_conn')),
         UNCHANGED queue_msg \/ NoCrossTalk'
  PROVE  HandshakeInv'
<1>1. Injective(issued_key)' /\ (ConvReuse \/ Injective(map_req_conn)')
  BY DEF HandshakeInv
<1>2. \A conv \in DOMAIN map_conn' : ServerConnInv(conv)'
  <2> SUFFICES ASSUME NEW conv \in DOMAIN map_conn, map_conn'[conv] = map_conn[conv]
               PROVE  ServerConnInv(conv)'
    OBVIOUS
  <2>1. ServerConnInv(conv)
    BY DEF HandshakeInv
  <2> QED
    BY <2>1, Persist DEF ServerConnInv
<1>3. \A c \in Clients : ClientConnInv(c)'
  <2> SUFFICES ASSUME NEW c \in Clients, conn'[c] = conn[c]
               PROVE  ClientConnInv(c)'
    OBVIOUS
  <2>1. ClientConnInv(c)
    BY DEF HandshakeInv
  <2> QED
    BY <2>1, Persist DEF ClientConnInv
<1>4. \A d \in net' : DatagramInv(d)'
  BY Persist DEF HandshakeInv
<1>5. ConvReuse \/ EstablishedByKeyHolder'
  <2> SUFFICES ASSUME ~ConvReuse, NEW conv \in DOMAIN map_conn,
                      map_conn'[conv] = map_conn[conv],
                      map_conn[conv].status = "ESTABLISHED"
               PROVE  Answered(conv)'
    BY DEF EstablishedByKeyHolder
  <2>1. Answered(conv)
    BY DEF HandshakeInv, EstablishedByKeyHolder
  <2> QED
    BY <2>1 DEF Answered, Grows
<1>6. NoCrossTalk'
  BY DEF HandshakeInv, NoCrossTalk
<1> QED
  BY <1>1, <1>2, <1>3, <1>4, <1>5, <1>6 DEF HandshakeInv

-----------------------------------------------------------------------------
(* One lemma per action, or per group of actions that change the same.     *)

(* Steps that change neither a Conn nor the path.                          *)
LEMMA StepIdle ==
  ASSUME HandshakeInv, TypeOK',
         UNCHANGED <<conn, map_conn, map_req_conn, issued_key, queue_msg, net>>
  PROVE  HandshakeInv'
<1>1. Grows
  BY DEF Grows
<1> QED
  BY <1>1, Assemble

(* Steps that change only the Conn of one client.                          *)
LEMMA StepClient ==
  ASSUME HandshakeInv, TypeOK', NEW c \in Clients, ClientConnInv(c)',
         \A x \in Clients \ {c} : conn'[x] = conn[x],
         UNCHANGED <<map_conn, map_req_conn, issued_key, queue_msg, net>>
  PROVE  HandshakeInv'
<1>1. Grows
  BY DEF Grows
<1> QED
  BY <1>1, Assemble

(* A client without a connection.                                          *)
LEMMA NewConnInv ==
  ASSUME NEW c \in Clients, conn'[c] = NoConn
  PROVE  ClientConnInv(c)'
<1>1. NoConn.out = << >> /\ NoConn.inq = << >> /\ NoConn.status = "INVALID"
  BY DEF NoConn, NewConn
<1> QED
  BY <1>1 DEF ClientConnInv, OutInv

(* Network::connect starts with a new Conn and a nonce.                    *)
LEMMA StepConnect ==
  ASSUME HandshakeInv, NEW c \in Clients, connect(c)
  PROVE  HandshakeInv'
<1>1. PICK n \in Nonces : conn' = [conn EXCEPT ![c] = prepare_req_conn(n)]
  BY DEF connect
<1> DEFINE r == prepare_req_conn(n)
<1>2. r \in Conn /\ r.status = "REQ_CONN" /\ r.n = n /\ r.out = << >> /\ r.inq = << >>
  BY Constants DEF prepare_req_conn, NewConn, Conn, Status
<1> HIDE DEF r
<1>3. TypeOK
  BY DEF HandshakeInv
<1>4. TypeOK'
  BY <1>1, <1>2, <1>3, Constants DEF TypeOK, connect, serverVars, msgVars, r
<1>5. conn'[c] = r /\ \A x \in Clients \ {c} : conn'[x] = conn[x]
  BY <1>1, <1>3 DEF TypeOK, r
<1>6. ClientConnInv(c)'
  BY <1>2, <1>5 DEF ClientConnInv, OutInv
<1> QED
  BY <1>4, <1>5, <1>6, StepClient DEF connect, serverVars, msgVars

(* The calls that change neither a connection nor the path.                *)
LEMMA StepPc ==
  ASSUME HandshakeInv,
         \/ kcpuv_listen
         \/ \E c \in Clients : \/ connect_error(c) \/ connect_established(c)
                               \/ \E d \in net : on_recv_udp_no_conn(c, d)
         \/ \E h \in Hosts : kcpuv_recv(h)
  PROVE  HandshakeInv'
<1>1. TypeOK
  BY DEF HandshakeInv
<1>2. CASE kcpuv_listen
  <2>1. TypeOK'
    BY <1>1, <1>2, Constants DEF TypeOK, kcpuv_listen, clientVars, serverVars, msgVars
  <2> QED
    BY <1>2, <2>1, StepIdle DEF kcpuv_listen, clientVars, serverVars, msgVars
<1>3. CASE \E c \in Clients : connect_error(c) \/ connect_established(c)
  <2>1. TypeOK'
    BY <1>1, <1>3, Constants
    DEF TypeOK, connect_error, connect_established, clientVars, serverVars, msgVars
  <2> QED
    BY <1>3, <2>1, StepIdle
    DEF connect_error, connect_established, clientVars, serverVars, msgVars
<1>4. CASE \E c \in Clients : \E d \in net : on_recv_udp_no_conn(c, d)
  <2>1. PICK c \in Clients, d \in net : on_recv_udp_no_conn(c, d)
    BY <1>4
  <2>2. /\ pc' \in [Hosts -> {"created", "connecting", "running", "failed",
                             "destroyed", "crashed"}]
        /\ udp_data' \in [Clients -> {"none", "conn", "null", "freed"}]
    BY <1>1, <2>1, Constants DEF TypeOK, on_recv_udp_no_conn
  <2>3. bad_call' \in SUBSET (Clients \X {"null", "freed"})
    <3>1. <<c, udp_data[c]>> \in Clients \X {"null", "freed"}
      BY <2>1 DEF on_recv_udp_no_conn
    <3> QED
      BY <1>1, <2>1, <3>1 DEF TypeOK, on_recv_udp_no_conn
  <2>4. UNCHANGED <<conn, waiting, map_conn, map_req_conn, issued_key, queue_msg, taken, net>>
    BY <2>1 DEF on_recv_udp_no_conn, serverVars, msgVars
  <2>5. TypeOK'
    BY <1>1, <2>2, <2>3, <2>4 DEF TypeOK
  <2> QED
    BY <2>4, <2>5, StepIdle
<1>5. CASE \E h \in Hosts : kcpuv_recv(h)
  <2>1. UNCHANGED <<pc, conn, udp_data, waiting, map_conn, map_req_conn, issued_key,
                    queue_msg, net, bad_call>>
    BY <1>5 DEF kcpuv_recv, clientVars, serverVars
  <2>2. taken' \in [Hosts -> Nat]
    BY <1>1, <1>5 DEF TypeOK, kcpuv_recv
  <2>3. TypeOK'
    BY <1>1, <2>1, <2>2 DEF TypeOK
  <2> QED
    BY <2>1, <2>3, StepIdle
<1> QED
  BY <1>2, <1>3, <1>4, <1>5

(* The client's Conn is deleted.                                           *)
LEMMA StepClientGone ==
  ASSUME HandshakeInv, NEW c \in Clients,
         connect_timeout(c) \/ client_expire(c) \/ kcpuv_destroy_client(c)
  PROVE  HandshakeInv'
<1>1. TypeOK
  BY DEF HandshakeInv
<1>2. conn' = [conn EXCEPT ![c] = NoConn]
  BY DEF connect_timeout, client_expire, kcpuv_destroy_client
<1>3. UNCHANGED <<waiting, map_conn, map_req_conn, issued_key, queue_msg, taken, net, bad_call>>
  BY DEF connect_timeout, client_expire, kcpuv_destroy_client, serverVars, msgVars
<1>4. conn'[c] = NoConn /\ \A x \in Clients \ {c} : conn'[x] = conn[x]
  BY <1>1, <1>2 DEF TypeOK
<1>5. conn' \in [Clients -> Conn]
  BY <1>1, <1>2, Constants DEF TypeOK
<1>6. TypeOK'
  BY <1>1, <1>3, <1>5, Constants
  DEF TypeOK, connect_timeout, client_expire, kcpuv_destroy_client
<1> QED
  BY <1>3, <1>4, <1>6, NewConnInv, StepClient

(* The request goes out, once or again.                                    *)
LEMMA StepReqConn ==
  ASSUME HandshakeInv, NEW c \in Clients, req_conn_run(c)
  PROVE  HandshakeInv'
<1> DEFINE r == [conn[c] EXCEPT !.times = conn[c].times - 1, !.resend = ResendInterval]
<1>1. TypeOK /\ ClientConnInv(c) /\ conn[c] \in Conn
  BY ConnFacts DEF HandshakeInv
<1>2. conn' = [conn EXCEPT ![c] = r] /\ conn[c].times > 0 /\ conn[c].status = "REQ_CONN"
  BY DEF req_conn_run
<1>3. r \in Conn /\ SameConn(r, conn[c]) /\ r.out = conn[c].out /\ r.inq = conn[c].inq
  <2>1. conn[c].times \in Nat
    BY <1>1 DEF Conn
  <2>2. conn[c].times - 1 \in Nat
    BY <1>2, <2>1
  <2> QED
    BY <1>1, <2>2, Constants DEF Conn, SameConn
<1> HIDE DEF r
<1>4. conn'[c] = r /\ \A x \in Clients \ {c} : conn'[x] = conn[x]
  BY <1>1, <1>2 DEF TypeOK
<1>5. net' = net \cup {ReqConn(c, conn[c].n)} /\ ReqConn(c, conn[c].n) \in Datagram
  BY <1>1, <1>2 DEF req_conn_run, Send, ReqConn, Datagram, ClientConnInv
<1>6. UNCHANGED <<pc, udp_data, waiting, map_conn, map_req_conn, issued_key, queue_msg, taken, bad_call>>
  BY DEF req_conn_run, serverVars, msgVars
<1>7. TypeOK'
  BY <1>1, <1>2, <1>3, <1>5, <1>6 DEF TypeOK
<1>8. Grows
  BY <1>5, <1>6 DEF Grows
<1>9. ClientConnInv(c)'
  BY <1>1, <1>3, <1>4, <1>8, Persist DEF ClientConnInv, OutInv, SameConn
<1>10. \A d \in net' : d \in net \/ DatagramInv(d)'
  BY <1>5 DEF DatagramInv, ReqConn
<1> QED
  BY <1>4, <1>6, <1>7, <1>8, <1>9, <1>10, Assemble

(* What on_recv_udp_snd_conv makes of a client's Conn.                     *)
LEMMA OfferAdopted ==
  ASSUME HandshakeInv, NEW c \in Clients, NEW d \in net,
         on_recv_udp_client(c, d), conn[c].status = "REQ_CONN",
         d.type = "snd_conv", d.n = conn[c].n
  PROVE  /\ d.new_conv \in Convs /\ conn'[c] \in Conn
         /\ \A x \in Clients \ {c} : conn'[x] = conn[x]
         /\ conn'[c].conv = d.new_conv /\ conn'[c].key = d.key /\ conn'[c].n = d.n
         /\ conn'[c].status = "ESTABLISHED" /\ conn'[c].addr = conn[c].addr
         /\ conn'[c].inq = << >> /\ conn'[c].rcv_nxt = 0
         /\ Len(conn'[c].out) = 1 /\ conn'[c].out[1] = Msg(d.key, Empty)
<1> DEFINE t == [init_kcp(conn[c], d.new_conv) EXCEPT !.key = d.key, !.status = "ESTABLISHED"]
           r == alive(send_kcp(t, Empty))
<1>1. TypeOK /\ conn[c] \in Conn /\ d \in Datagram
  BY ConnFacts DEF HandshakeInv, TypeOK
<1>2. conn' = [conn EXCEPT ![c] = r]
  BY DEF on_recv_udp_client, on_recv_udp_snd_conv
<1>3. d.new_conv \in Convs /\ d.key \in Keys
  BY <1>1 DEF Datagram
<1>4. /\ t \in Conn /\ t.conv = d.new_conv /\ t.key = d.key /\ t.n = conn[c].n
      /\ t.status = "ESTABLISHED" /\ t.out = << >> /\ t.inq = << >>
      /\ t.addr = conn[c].addr /\ t.rcv_nxt = 0
  <2>1. << >> \in Seq(KeyedMsg)
    BY EmptySeq
  <2> QED
    BY <1>1, <1>3, <2>1 DEF init_kcp, Conn, Status
<1> HIDE DEF t
<1> DEFINE u == send_kcp(t, Empty)
<1>5. /\ u \in Conn /\ SameConn(u, t) /\ u.inq = t.inq /\ u.addr = t.addr
      /\ u.rcv_nxt = t.rcv_nxt /\ Len(u.out) = Len(t.out) + 1
      /\ u.out[Len(t.out) + 1] = Msg(t.key, Empty)
  BY <1>4, SendKcpType, Constants
<1> HIDE DEF u
<1>6. /\ alive(u) \in Conn /\ SameConn(alive(u), u) /\ alive(u).out = u.out
      /\ alive(u).inq = u.inq /\ alive(u).addr = u.addr /\ alive(u).rcv_nxt = u.rcv_nxt
  BY <1>5, AliveType
<1>7. r = alive(u)
  BY DEF u
<1> HIDE DEF r
<1>8. conn'[c] = r /\ \A x \in Clients \ {c} : conn'[x] = conn[x]
  BY <1>1, <1>2 DEF TypeOK
<1>9. Len(t.out) = 0
  BY <1>4
<1> QED
  BY <1>3, <1>4, <1>5, <1>6, <1>7, <1>8, <1>9 DEF SameConn

(* The client adopts the offer, which is genuine.                          *)
LEMMA StepOffer ==
  ASSUME HandshakeInv, NEW c \in Clients, NEW d \in net,
         on_recv_udp_client(c, d), conn[c].status = "REQ_CONN",
         d.type = "snd_conv", d.n = conn[c].n
  PROVE  HandshakeInv'
<1>1. TypeOK /\ DatagramInv(d)
  BY DEF HandshakeInv
<1>2. UNCHANGED <<pc, udp_data, waiting, map_conn, map_req_conn, issued_key, queue_msg, taken, net, bad_call>>
  BY DEF on_recv_udp_client, serverVars, msgVars
<1>3. /\ conn'[c] \in Conn /\ \A x \in Clients \ {c} : conn'[x] = conn[x]
      /\ conn'[c].conv = d.new_conv /\ conn'[c].key = d.key /\ conn'[c].n = d.n
      /\ conn'[c].status = "ESTABLISHED" /\ conn'[c].inq = << >>
      /\ Len(conn'[c].out) = 1 /\ conn'[c].out[1] = Msg(d.key, Empty)
  BY OfferAdopted
<1>4. TypeOK'
  <2>1. conn' \in [Clients -> Conn]
    BY <1>1, <1>3 DEF on_recv_udp_client, TypeOK
  <2> QED
    BY <1>1, <1>2, <2>1 DEF TypeOK
<1>5. OutInv(conn[c])'
  BY <1>3 DEF OutInv, Msg, BodyOf
<1>6. Served(conn[c].n, conn[c].conv, conn[c].key)'
  BY <1>1, <1>2, <1>3 DEF DatagramInv, Served
<1>7. ClientConnInv(c)'
  BY <1>3, <1>5, <1>6 DEF ClientConnInv
<1> QED
  BY <1>2, <1>3, <1>4, <1>7, StepClient

(* The client takes a segment, or drops what is not one.                   *)
LEMMA StepClientRecv ==
  ASSUME HandshakeInv, NEW c \in Clients, NEW d \in net,
         on_recv_udp_client(c, d)
  PROVE  HandshakeInv'
<1>1. TypeOK /\ ClientConnInv(c) /\ conn[c] \in Conn /\ DatagramInv(d) /\ d \in Datagram
  BY ConnFacts DEF HandshakeInv, TypeOK
<1>2. UNCHANGED <<pc, udp_data, waiting, map_conn, map_req_conn, issued_key, queue_msg, taken, net, bad_call>>
  BY DEF on_recv_udp_client, serverVars, msgVars
<1>3. CASE conn[c].status = "REQ_CONN" /\ d.type = "snd_conv" /\ d.n = conn[c].n
  BY <1>3, StepOffer
<1>4. CASE conn[c].status = "REQ_CONN" /\ ~(d.type = "snd_conv" /\ d.n = conn[c].n)
  <2>1. conn' = conn
    BY <1>1, <1>4 DEF on_recv_udp_client, on_recv_udp_snd_conv, TypeOK
  <2>2. TypeOK'
    BY <1>1, <1>2, <2>1 DEF TypeOK
  <2> QED
    BY <1>2, <2>1, <2>2, StepIdle
<1>5. CASE conn[c].status # "REQ_CONN"
  <2> DEFINE s == conn[c]
             r == on_recv_udp(s, d)
  <2>1. conn' = [conn EXCEPT ![c] = r]
    BY <1>5 DEF on_recv_udp_client
  <2>2. /\ r \in Conn /\ SameConn(r, s) /\ r.out = s.out
        /\ \/ r.inq = s.inq
           \/ /\ Takes(s, d) /\ Len(r.inq) = Len(s.inq) + 1
              /\ \A i \in 1..Len(s.inq) : r.inq[i] = s.inq[i]
              /\ r.inq[Len(s.inq) + 1] = d.msg
    BY <1>1, OnRecvUdpType
  <2> HIDE DEF r
  <2>3. conn'[c] = r /\ \A x \in Clients \ {c} : conn'[x] = conn[x]
    BY <1>1, <2>1 DEF TypeOK
  <2>4. TypeOK'
    BY <1>1, <1>2, <2>1, <2>2 DEF TypeOK
  <2>5. \A i \in 1..Len(r.inq) : Genuine(r.conv, r.inq[i])
    <3>1. \A i \in 1..Len(s.inq) : Genuine(s.conv, s.inq[i])
      BY <1>1 DEF ClientConnInv
    <3>2. Takes(s, d) => Genuine(s.conv, d.msg)
      BY <1>1 DEF DatagramInv, Takes
    <3>3. s.inq \in Seq(KeyedMsg) /\ Len(s.inq) \in Nat
      BY <1>1 DEF Conn
    <3> QED
      BY <2>2, <3>1, <3>2, <3>3 DEF SameConn
  <2>6. Grows
    BY <1>2 DEF Grows
  <2>7. ClientConnInv(c)'
    BY <1>1, <2>2, <2>3, <2>5, <2>6, Persist DEF ClientConnInv, OutInv, SameConn
  <2> QED
    BY <1>2, <2>3, <2>4, <2>7, StepClient
<1> QED
  BY <1>3, <1>4, <1>5

(* What an update sends is genuine.                                        *)
LEMMA OutputInv ==
  ASSUME NEW s \in Conn, NEW src \in Hosts, s.conv \in Convs, s.n \in Nonces,
         OutInv(s), Served(s.n, s.conv, s.key)
  PROVE  /\ Output(s, src) \subseteq Datagram
         /\ \A d \in Output(s, src) : DatagramInv(d)
<1> SUFFICES ASSUME NEW sn \in 1..Len(s.out)
             PROVE  Push(s, src, sn) \in Datagram /\ DatagramInv(Push(s, src, sn))
  BY DEF Output
<1>1. s.out[sn] \in KeyedMsg /\ sn \in Nat \ {0} /\ s.addr \in Hosts
  BY ElementOfSeq DEF Conn
<1>2. Push(s, src, sn) \in Datagram
  BY <1>1 DEF Push, Datagram
<1>3. Genuine(s.conv, s.out[sn])
  BY DEF Genuine, OutInv
<1>4. DatagramInv(Push(s, src, sn))
  BY <1>3 DEF Push, DatagramInv
<1> QED
  BY <1>2, <1>4

(* What push_msg gets has the key of the connection, so it is its own.     *)
LEMMA PushedOwn ==
  ASSUME HandshakeInv, NEW h \in Hosts, NEW s \in Conn, s.conv \in Convs, s.n \in Nonces,
         push_msg(h, s), Served(s.n, s.conv, s.key),
         \A i \in 1..Len(s.inq) : Genuine(s.conv, s.inq[i])
  PROVE  queue_msg' \in [Hosts -> Seq(Delivered)] /\ NoCrossTalk'
<1>1. queue_msg \in [Hosts -> Seq(Delivered)]
  BY DEF HandshakeInv, TypeOK, Delivered
<1>2. /\ queue_msg' \in [Hosts -> Seq(Delivered)]
      /\ \A g \in Hosts \ {h} : queue_msg'[g] = queue_msg[g]
      /\ Cardinality(PayloadsAt(s)) \in Nat
      /\ Len(queue_msg'[h]) = Len(queue_msg[h]) + Cardinality(PayloadsAt(s))
      /\ \A i \in 1..Len(queue_msg[h]) : queue_msg'[h][i] = queue_msg[h][i]
      /\ \A i \in 1..Cardinality(PayloadsAt(s)) : \E k \in PayloadsAt(s) :
           queue_msg'[h][Len(queue_msg[h]) + i] =
             [conv |-> s.conv, n |-> s.n, body |-> s.inq[k].body]
  BY <1>1, PushMsgType
<1>3. \A k \in PayloadsAt(s) : s.inq[k].body.n = s.n
  <2> TAKE k \in PayloadsAt(s)
  <2>1. k \in 1..Len(s.inq) /\ s.inq[k].key = s.key /\ s.inq[k].body # Empty
    BY DEF PayloadsAt, KeyMatches
  <2>2. PICK n \in Nonces : Served(n, s.conv, s.inq[k].key) /\ BodyOf(n, s.inq[k].body)
    BY <2>1 DEF Genuine
  <2>3. n = s.n
    <3>1. n \in DOMAIN issued_key /\ s.n \in DOMAIN issued_key
      BY <2>2 DEF Served, HandshakeInv, TypeOK
    <3> QED
      BY <2>1, <2>2, <3>1 DEF Served, HandshakeInv, Injective
  <2> QED
    BY <2>1, <2>2, <2>3 DEF BodyOf
<1>4. \A i \in 1..Len(queue_msg'[h]) : queue_msg'[h][i].body.n = queue_msg'[h][i].n
  <2> TAKE i \in 1..Len(queue_msg'[h])
  <2>1. Len(queue_msg[h]) \in Nat /\ i \in Nat
    BY <1>1, <1>2
  <2>2. CASE i =< Len(queue_msg[h])
    BY <1>2, <2>1, <2>2 DEF HandshakeInv, NoCrossTalk
  <2>3. CASE i > Len(queue_msg[h])
    <3>1. i - Len(queue_msg[h]) \in 1..Cardinality(PayloadsAt(s))
      BY <1>2, <2>1, <2>3
    <3>2. Len(queue_msg[h]) + (i - Len(queue_msg[h])) = i
      BY <2>1
    <3>3. PICK k \in PayloadsAt(s) :
            queue_msg'[h][i] = [conv |-> s.conv, n |-> s.n, body |-> s.inq[k].body]
      BY <1>2, <3>1, <3>2
    <3> QED
      BY <1>3, <3>3
  <2> QED
    BY <2>1, <2>2, <2>3
<1>5. \A g \in Hosts : \A i \in 1..Len(queue_msg'[g]) :
        queue_msg'[g][i].body.n = queue_msg'[g][i].n
  <2> TAKE g \in Hosts
  <2>1. CASE g = h
    BY <1>4, <2>1
  <2>2. CASE g # h
    BY <1>2, <2>2 DEF HandshakeInv, NoCrossTalk
  <2> QED
    BY <2>1, <2>2
<1> QED
  BY <1>2, <1>5 DEF NoCrossTalk

(* Conn::run of a client, its messages going out.                          *)
LEMMA StepClientRun ==
  ASSUME HandshakeInv, NEW c \in Clients, client_run(c)
  PROVE  HandshakeInv'
<1> DEFINE s == conn[c]
           r == RunConn(s, 0)
<1>1. TypeOK /\ ClientConnInv(c) /\ s \in Conn /\ c \in Hosts /\ s.status = "ESTABLISHED"
  BY ConnFacts, Constants DEF HandshakeInv, client_run
<1>2. s.conv \in Convs /\ s.n \in Nonces /\ Served(s.n, s.conv, s.key) /\ OutInv(s)
  BY <1>1, ConnFacts DEF ClientConnInv
<1>3. conn' = [conn EXCEPT ![c] = r] /\ net' = net \cup Output(s, c) /\ push_msg(c, s)
  BY DEF client_run, Send
<1>4. UNCHANGED <<pc, udp_data, waiting, map_conn, map_req_conn, issued_key, taken, bad_call>>
  BY DEF client_run, serverVars
<1>5. /\ r \in Conn /\ SameConn(r, s) /\ r.inq = << >>
      /\ Len(r.out) = Len(s.out) /\ \A i \in 1..Len(s.out) : r.out[i] = s.out[i]
  <2>1. Len(s.out) \in Nat
    BY <1>1 DEF Conn
  <2> QED
    BY <1>1, <2>1, RunConnType
<1> HIDE DEF r
<1>6. conn'[c] = r /\ \A x \in Clients \ {c} : conn'[x] = conn[x]
  BY <1>1, <1>3 DEF TypeOK
<1>7. queue_msg' \in [Hosts -> Seq(Delivered)] /\ NoCrossTalk'
  BY <1>1, <1>2, <1>3, PushedOwn DEF ClientConnInv
<1>8. Output(s, c) \subseteq Datagram /\ \A d \in Output(s, c) : DatagramInv(d)
  BY <1>1, <1>2, OutputInv
<1>9. TypeOK'
  BY <1>1, <1>3, <1>4, <1>5, <1>7, <1>8 DEF TypeOK, Delivered
<1>10. Grows
  BY <1>3, <1>4 DEF Grows
<1>11. OutInv(r)
  BY <1>2, <1>5 DEF OutInv, SameConn
<1>12. ClientConnInv(c)'
  BY <1>1, <1>2, <1>4, <1>5, <1>6, <1>11 DEF ClientConnInv, SameConn, Served, OutInv
<1>13. \A d \in net' : d \in net \/ DatagramInv(d)'
  BY <1>3, <1>8, <1>10, Persist
<1> QED
  BY <1>4, <1>6, <1>7, <1>9, <1>10, <1>12, <1>13, Assemble

(* A message that send_kcp appends is under the key and nonce of its       *)
(* connection.                                                             *)
LEMMA SendOutInv ==
  ASSUME NEW s \in Conn, OutInv(s), NEW body \in Bodies(s), s.n \in Nonces
  PROVE  /\ send_kcp(s, body) \in Conn /\ SameConn(send_kcp(s, body), s)
         /\ send_kcp(s, body).inq = s.inq /\ OutInv(send_kcp(s, body))
<1>1. body \in Body /\ BodyOf(s.n, body)
  <2> DEFINE K == {k \in 1..Len(s.out) : s.out[k].body # Empty}
  <2>1. Len(s.out) \in Nat /\ K \subseteq 1..Len(s.out)
    BY DEF Conn
  <2>2. Cardinality(K) \in Nat
    <3> HIDE DEF K
    <3> QED BY <2>1, PlacesFinite
  <2>3. NextBody(s) = [n |-> s.n, i |-> Cardinality(K) + 1]
    BY DEF NextBody
  <2> HIDE DEF K
  <2>4. NextBody(s) \in Body /\ NextBody(s).n = s.n
    BY <2>2, <2>3 DEF Body
  <2> QED
    BY <2>4, Constants DEF Bodies, BodyOf
<1>2. /\ send_kcp(s, body) \in Conn /\ SameConn(send_kcp(s, body), s)
      /\ send_kcp(s, body).inq = s.inq
      /\ Len(send_kcp(s, body).out) = Len(s.out) + 1
      /\ \A i \in 1..Len(s.out) : send_kcp(s, body).out[i] = s.out[i]
      /\ send_kcp(s, body).out[Len(s.out) + 1] = Msg(s.key, body)
  BY <1>1, SendKcpType
<1>3. Len(s.out) \in Nat
  BY DEF Conn
<1> QED
  BY <1>1, <1>2, <1>3 DEF OutInv, SameConn, Msg

(* kcpuv_send on a client.                                                 *)
LEMMA StepClientSend ==
  ASSUME HandshakeInv, NEW c \in Clients, kcpuv_send_client(c)
  PROVE  HandshakeInv'
<1> DEFINE s == conn[c]
<1>1. TypeOK /\ ClientConnInv(c) /\ s \in Conn /\ s.status = "ESTABLISHED" /\ s.n \in Nonces
  BY ConnFacts DEF HandshakeInv, kcpuv_send_client
<1>2. PICK body \in Bodies(s) : conn' = [conn EXCEPT ![c] = send_kcp(s, body)]
  BY DEF kcpuv_send_client
<1> DEFINE r == send_kcp(s, body)
<1>3. r \in Conn /\ SameConn(r, s) /\ r.inq = s.inq /\ OutInv(r)
  BY <1>1, SendOutInv DEF ClientConnInv
<1> HIDE DEF r
<1>4. conn'[c] = r /\ \A x \in Clients \ {c} : conn'[x] = conn[x]
  BY <1>1, <1>2 DEF TypeOK, r
<1>5. UNCHANGED <<pc, udp_data, waiting, map_conn, map_req_conn, issued_key, queue_msg, taken, net, bad_call>>
  BY DEF kcpuv_send_client, serverVars, msgVars
<1>6. TypeOK'
  BY <1>1, <1>2, <1>3, <1>5 DEF TypeOK, r
<1>7. Grows
  BY <1>5 DEF Grows
<1>8. ClientConnInv(c)'
  BY <1>1, <1>3, <1>4, <1>7, Persist DEF ClientConnInv, SameConn, OutInv
<1> QED
  BY <1>4, <1>5, <1>6, <1>8, StepClient

-----------------------------------------------------------------------------
(* The server.                                                             *)

(* A new connection has a key no other has, and a conv no live one has.    *)
LEMMA StepReqServed ==
  ASSUME HandshakeInv, NEW d \in net, proc_req_conn(d)
  PROVE  HandshakeInv'
<1>1. TypeOK /\ d \in Datagram /\ d.type = "req_conn"
  BY DEF HandshakeInv, TypeOK, proc_req_conn
<1>2. d.n \in Nonces /\ d.src \in Hosts
  BY <1>1, Constants DEF Datagram
<1>3. PICK conv \in Convs, key \in Keys :
        /\ new_conv(conv) /\ new_key(key)
        /\ map_req_conn' = Bind(map_req_conn, d.n, conv)
        /\ issued_key' = Bind(issued_key, d.n, key)
        /\ map_conn' = Bind(map_conn, conv, alive(prepare_snd_conv(d, conv, key)))
  BY DEF proc_req_conn
<1>4. d.n \notin DOMAIN map_req_conn /\ d.n \notin DOMAIN issued_key
  BY <1>1 DEF proc_req_conn, NewRequest, TypeOK
<1>5. UNCHANGED <<pc, conn, udp_data, waiting, queue_msg, taken, net, bad_call>>
  BY DEF proc_req_conn, clientVars, msgVars
<1>6. /\ DOMAIN map_req_conn' = DOMAIN map_req_conn \cup {d.n}
      /\ DOMAIN issued_key' = DOMAIN issued_key \cup {d.n}
      /\ map_req_conn'[d.n] = conv /\ issued_key'[d.n] = key
      /\ \A n \in DOMAIN map_req_conn : map_req_conn'[n] = map_req_conn[n]
      /\ \A n \in DOMAIN issued_key : issued_key'[n] = issued_key[n]
  BY <1>3, <1>4 DEF Bind
<1> DEFINE p == prepare_snd_conv(d, conv, key)
           r == alive(p)
<1>7. /\ p \in Conn /\ p.conv = conv /\ p.key = key /\ p.n = d.n /\ p.status = "SND_CONV"
      /\ p.out = << >> /\ p.inq = << >>
  <2>1. << >> \in Seq(KeyedMsg)
    BY EmptySeq
  <2> QED
    BY <1>2, <2>1, Constants DEF prepare_snd_conv, init_kcp, NewConn, Conn, Status
<1>8. /\ r \in Conn /\ r.conv = conv /\ r.key = key /\ r.n = d.n /\ r.status = "SND_CONV"
      /\ r.out = << >> /\ r.inq = << >>
  <2> HIDE DEF p
  <2> QED
    BY <1>7, AliveType DEF SameConn
<1> HIDE DEF r, p
<1>9. /\ DOMAIN map_conn' = DOMAIN map_conn \cup {conv} /\ map_conn'[conv] = r
      /\ \A x \in DOMAIN map_conn \ {conv} : map_conn'[x] = map_conn[x]
  BY <1>3 DEF Bind, r, p
<1>10. TypeOK'
  <2>1. DOMAIN map_conn' \subseteq Convs /\ \A x \in DOMAIN map_conn' : map_conn'[x] \in Conn
    BY <1>1, <1>8, <1>9 DEF TypeOK
  <2>2. /\ DOMAIN map_req_conn' \subseteq Nonces /\ DOMAIN issued_key' = DOMAIN map_req_conn'
        /\ \A n \in DOMAIN map_req_conn' : map_req_conn'[n] \in Convs
        /\ \A n \in DOMAIN issued_key' : issued_key'[n] \in Keys
    BY <1>1, <1>2, <1>6 DEF TypeOK
  <2> QED
    BY <1>1, <1>5, <2>1, <2>2 DEF TypeOK
<1>11. Grows
  BY <1>1, <1>5, <1>6 DEF Grows, TypeOK
<1>12. Injective(issued_key')
  BY <1>3, <1>6 DEF HandshakeInv, Injective, new_key
<1>13. ConvReuse \/ Injective(map_req_conn')
  BY <1>3, <1>6 DEF HandshakeInv, Injective, new_conv
<1>14. ServerConnInv(conv)' /\ map_conn'[conv].status # "ESTABLISHED"
  BY <1>6, <1>8, <1>9 DEF ServerConnInv, Served, OutInv
<1> QED
  BY <1>5, <1>9, <1>10, <1>11, <1>12, <1>13, <1>14, Assemble

(* Steps that change only one Conn of the server, as a step of its own     *)
(* connection: its names, its key and its status stay.                     *)
LEMMA StepServerConn ==
  ASSUME HandshakeInv, NEW conv \in DOMAIN map_conn, NEW r \in Conn,
         SameConn(r, map_conn[conv]), OutInv(r),
         \A i \in 1..Len(r.inq) : Arrived(conv, r.inq[i]),
         map_conn' = [map_conn EXCEPT ![conv] = r],
         UNCHANGED <<pc, conn, udp_data, waiting, map_req_conn, issued_key,
                     queue_msg, taken, net, bad_call>>
  PROVE  HandshakeInv'
<1>1. TypeOK /\ ServerConnInv(conv)
  BY DEF HandshakeInv
<1>2. /\ DOMAIN map_conn' = DOMAIN map_conn /\ map_conn'[conv] = r
      /\ \A x \in DOMAIN map_conn \ {conv} : map_conn'[x] = map_conn[x]
  OBVIOUS
<1>3. TypeOK'
  BY <1>1, <1>2 DEF TypeOK
<1>4. Grows
  BY DEF Grows
<1>5. ServerConnInv(conv)'
  BY <1>1, <1>2, <1>4, Persist DEF ServerConnInv, SameConn, OutInv, Served, Arrived
<1>6. ConvReuse \/ (map_conn'[conv].status = "ESTABLISHED" => Answered(conv)')
  BY <1>2 DEF HandshakeInv, EstablishedByKeyHolder, Answered, SameConn
<1> QED
  BY <1>2, <1>3, <1>4, <1>5, <1>6, Assemble

(* A datagram for a connection of the server.                              *)
LEMMA StepServerRecv ==
  ASSUME HandshakeInv, NEW d \in net, on_recv_udp_server(d)
  PROVE  HandshakeInv'
<1> DEFINE s == map_conn[d.conv]
           r == on_recv_udp(s, d)
<1>1. d \in Datagram /\ d.type = "kcp" /\ d.dst = Server /\ d.conv \in DOMAIN map_conn
  BY DEF HandshakeInv, TypeOK, on_recv_udp_server, get_conn_by_conv
<1>2. s \in Conn /\ ServerConnInv(d.conv)
  BY <1>1, ConnFacts DEF HandshakeInv
<1>3. /\ r \in Conn /\ SameConn(r, s) /\ r.out = s.out
      /\ \/ r.inq = s.inq
         \/ /\ Len(r.inq) = Len(s.inq) + 1
            /\ \A i \in 1..Len(s.inq) : r.inq[i] = s.inq[i]
            /\ r.inq[Len(s.inq) + 1] = d.msg
  BY <1>1, <1>2, OnRecvUdpType
<1>4. map_conn' = [map_conn EXCEPT ![d.conv] = r]
  BY DEF on_recv_udp_server
<1>5. UNCHANGED <<pc, conn, udp_data, waiting, map_req_conn, issued_key,
                  queue_msg, taken, net, bad_call>>
  BY DEF on_recv_udp_server, clientVars, msgVars
<1> HIDE DEF r
<1>6. OutInv(r)
  BY <1>2, <1>3 DEF ServerConnInv, OutInv, SameConn
<1>7. \A i \in 1..Len(r.inq) : Arrived(d.conv, r.inq[i])
  <2>1. Arrived(d.conv, d.msg)
    BY <1>1 DEF Arrived
  <2>2. \A i \in 1..Len(s.inq) : Arrived(d.conv, s.inq[i])
    BY <1>2 DEF ServerConnInv
  <2>3. Len(s.inq) \in Nat
    BY <1>2 DEF Conn
  <2> QED
    BY <1>3, <2>1, <2>2, <2>3
<1> QED
  BY <1>1, <1>3, <1>4, <1>5, <1>6, <1>7, StepServerConn

(* kcpuv_send on the server.                                               *)
LEMMA StepServerSend ==
  ASSUME HandshakeInv, NEW conv \in Convs, kcpuv_send_server(conv)
  PROVE  HandshakeInv'
<1> DEFINE s == map_conn[conv]
<1>1. conv \in DOMAIN map_conn
  BY DEF kcpuv_send_server, get_conn_by_conv
<1>2. s \in Conn /\ s.n \in Nonces /\ ServerConnInv(conv)
  BY <1>1, ConnFacts DEF HandshakeInv
<1>3. PICK body \in Bodies(s) : map_conn' = [map_conn EXCEPT ![conv] = send_kcp(s, body)]
  BY DEF kcpuv_send_server
<1> DEFINE r == send_kcp(s, body)
<1>4. r \in Conn /\ SameConn(r, s) /\ r.inq = s.inq /\ OutInv(r)
  BY <1>2, SendOutInv DEF ServerConnInv
<1>5. UNCHANGED <<pc, conn, udp_data, waiting, map_req_conn, issued_key,
                  queue_msg, taken, net, bad_call>>
  BY DEF kcpuv_send_server, clientVars, msgVars
<1>6. \A i \in 1..Len(s.inq) : Arrived(conv, s.inq[i])
  BY <1>2 DEF ServerConnInv
<1> HIDE DEF r
<1> QED
  BY <1>1, <1>3, <1>4, <1>5, <1>6, StepServerConn DEF r

(* The server's connections are deleted; the request map stays.            *)
LEMMA StepServerGone ==
  ASSUME HandshakeInv,
         kcpuv_destroy_server \/ \E conv \in Convs : server_expire(conv)
  PROVE  HandshakeInv'
<1>1. TypeOK
  BY DEF HandshakeInv
<1>2. /\ DOMAIN map_conn' \subseteq DOMAIN map_conn
      /\ \A x \in DOMAIN map_conn' : map_conn'[x] = map_conn[x]
  <2>1. CASE kcpuv_destroy_server
    <3>1. DOMAIN map_conn' = {}
      BY <2>1 DEF kcpuv_destroy_server
    <3> QED
      BY <3>1
  <2>2. CASE \E conv \in Convs : server_expire(conv)
    <3>1. PICK conv \in Convs : server_expire(conv)
      BY <2>2
    <3>2. map_conn' = [x \in DOMAIN map_conn \ {conv} |-> map_conn[x]]
      BY <3>1 DEF server_expire
    <3>3. DOMAIN map_conn' = DOMAIN map_conn \ {conv}
      BY <3>2
    <3> QED
      BY <3>2, <3>3
  <2> QED
    BY <2>1, <2>2
<1>3. UNCHANGED <<conn, udp_data, waiting, map_req_conn, issued_key, queue_msg, taken, net, bad_call>>
  BY DEF kcpuv_destroy_server, server_expire, clientVars, msgVars
<1>4. pc' \in [Hosts -> {"created", "connecting", "running", "failed", "destroyed", "crashed"}]
  BY <1>1 DEF kcpuv_destroy_server, server_expire, TypeOK
<1>5. TypeOK'
  BY <1>1, <1>2, <1>3, <1>4 DEF TypeOK
<1>6. Grows
  BY <1>3 DEF Grows
<1> QED
  BY <1>2, <1>3, <1>5, <1>6, Assemble

(* Conn::run at the server: the messages read came in datagrams, so if     *)
(* there is one the peer has answered, with the key unless convs recur.    *)
LEMMA StepServerRun ==
  ASSUME HandshakeInv, NEW conv \in Convs, server_run(conv)
  PROVE  HandshakeInv'
<1> DEFINE s == map_conn[conv]
           q == RunConn(s, Cardinality(AcksAt(s)))
           r == [q EXCEPT
                  !.status = IF q.status = "SND_CONV" /\ MsgCnt(s) > 0 THEN "ESTABLISHED" ELSE q.status,
                  !.resend = IF snd_conn_run(s) THEN ResendInterval ELSE q.resend]
           offer == IF snd_conn_run(s) THEN {SndConv(s)} ELSE {}
<1>1. TypeOK /\ conv \in DOMAIN map_conn /\ ServerConnInv(conv) /\ Server \in Hosts
  BY Constants DEF HandshakeInv, server_run
<1>2. /\ s \in Conn /\ s.conv = conv /\ s.n \in Nonces /\ s.key \in Keys
      /\ Served(s.n, s.conv, s.key) /\ OutInv(s)
  BY <1>1, ConnFacts DEF ServerConnInv
<1>3. /\ map_conn' = [map_conn EXCEPT ![conv] = r]
      /\ net' = net \cup (Output(s, Server) \cup offer)
      /\ push_msg(Server, s)
  BY DEF server_run, Send
<1>4. UNCHANGED <<pc, conn, udp_data, waiting, map_req_conn, issued_key, taken, bad_call>>
  BY DEF server_run, clientVars
<1>5. Len(s.inq) \in Nat /\ Len(s.out) \in Nat
  BY <1>2 DEF Conn
<1>6. Cardinality(AcksAt(s)) \in Nat
  <2>1. AcksAt(s) \subseteq 1..Len(s.inq)
    BY DEF AcksAt
  <2> QED
    BY <1>5, <2>1, PlacesFinite
<1>7. /\ q \in Conn /\ SameConn(q, s) /\ q.inq = << >>
      /\ Len(q.out) = Len(s.out) + Cardinality(AcksAt(s))
      /\ \A i \in 1..Len(s.out) : q.out[i] = s.out[i]
      /\ \A i \in (Len(s.out) + 1)..Len(q.out) : q.out[i] = Msg(s.key, Empty)
  BY <1>2, <1>6, RunConnType
<1> HIDE DEF q
<1>8. /\ r \in Conn /\ r.conv = q.conv /\ r.key = q.key /\ r.n = q.n
      /\ r.out = q.out /\ r.inq = q.inq
      /\ r.status = IF q.status = "SND_CONV" /\ MsgCnt(s) > 0 THEN "ESTABLISHED" ELSE q.status
  BY <1>7, Constants DEF Conn, Status
<1> HIDE DEF r
<1>9. OutInv(r)
  <2> SUFFICES ASSUME NEW i \in 1..Len(q.out)
               PROVE  q.out[i].key = s.key /\ BodyOf(s.n, q.out[i].body)
    BY <1>7, <1>8 DEF OutInv, SameConn
  <2>1. CASE i \in 1..Len(s.out)
    BY <1>2, <1>7, <2>1 DEF OutInv
  <2>2. CASE i \notin 1..Len(s.out)
    <3>1. i \in (Len(s.out) + 1)..Len(q.out)
      BY <1>5, <1>6, <1>7, <2>2
    <3> QED
      BY <1>7, <3>1 DEF Msg, BodyOf
  <2> QED
    BY <2>1, <2>2
<1>10. \A i \in 1..Len(s.inq) : Arrived(conv, s.inq[i]) /\ Genuine(s.conv, s.inq[i])
  BY <1>1, <1>2 DEF ServerConnInv, Arrived, HandshakeInv, DatagramInv
<1>11. queue_msg' \in [Hosts -> Seq(Delivered)] /\ NoCrossTalk'
  BY <1>1, <1>2, <1>3, <1>10, PushedOwn
<1>12. Output(s, Server) \subseteq Datagram /\ \A d \in Output(s, Server) : DatagramInv(d)
  BY <1>1, <1>2, OutputInv
<1>13. offer \subseteq Datagram /\ \A d \in offer : DatagramInv(d)
  BY <1>2 DEF SndConv, Datagram, DatagramInv, Conn
<1> HIDE DEF offer
<1>14. /\ DOMAIN map_conn' = DOMAIN map_conn /\ map_conn'[conv] = r
       /\ \A x \in DOMAIN map_conn \ {conv} : map_conn'[x] = map_conn[x]
  BY <1>1, <1>3
<1>15. TypeOK'
  <2>1. net' \subseteq Datagram
    BY <1>1, <1>3, <1>12, <1>13 DEF TypeOK
  <2>2. \A x \in DOMAIN map_conn' : map_conn'[x] \in Conn
    BY <1>1, <1>8, <1>14 DEF TypeOK
  <2> QED
    BY <1>1, <1>4, <1>11, <1>14, <2>1, <2>2 DEF TypeOK, Delivered
<1>16. Grows
  BY <1>3, <1>4 DEF Grows
<1>17. ServerConnInv(conv)'
  <2>1. r.conv = conv /\ r.key = s.key /\ r.n = s.n /\ r.inq = << >>
    BY <1>2, <1>7, <1>8 DEF SameConn
  <2>2. /\ r.n \in DOMAIN map_req_conn'
        /\ conv = map_req_conn'[r.n] /\ r.key = issued_key'[r.n]
    BY <1>2, <1>4, <2>1 DEF Served
  <2>3. r.status \in {"SND_CONV", "ESTABLISHED"}
    BY <1>1, <1>7, <1>8 DEF ServerConnInv, SameConn
  <2>4. Served(map_conn[conv].n, conv, map_conn[conv].key)'
    BY <1>14, <2>2 DEF Served
  <2>5. \A i \in 1..Len(map_conn'[conv].inq) : Arrived(conv, map_conn[conv].inq[i])'
    BY <1>14, <2>1
  <2>6. OutInv(map_conn[conv])'
    BY <1>9, <1>14 DEF OutInv
  <2> QED
    BY <1>14, <2>1, <2>3, <2>4, <2>5, <2>6 DEF ServerConnInv
<1>18. ConvReuse \/ (map_conn'[conv].status = "ESTABLISHED" => Answered(conv)')
  <2> SUFFICES ASSUME ~ConvReuse, r.status = "ESTABLISHED"
               PROVE  \E d \in net : /\ d.type = "kcp" /\ d.dst = Server
                                     /\ d.conv = conv /\ d.msg.key = r.key
    BY <1>14, <1>16 DEF Answered, Grows
  <2>1. CASE s.status = "ESTABLISHED"
    BY <1>1, <1>7, <1>8, <2>1 DEF HandshakeInv, EstablishedByKeyHolder, Answered, SameConn
  <2>2. CASE s.status # "ESTABLISHED"
    <3>1. Len(s.inq) > 0
      BY <1>7, <1>8, <2>2 DEF MsgCnt, SameConn
    <3>2. Arrived(conv, s.inq[1]) /\ Genuine(s.conv, s.inq[1])
      BY <1>5, <1>10, <3>1
    <3>3. PICK n \in Nonces : Served(n, conv, s.inq[1].key)
      BY <1>2, <3>2 DEF Genuine
    <3>4. n = s.n
      BY <1>2, <3>3 DEF HandshakeInv, Injective, Served
    <3>5. s.inq[1].key = r.key
      BY <1>2, <1>7, <1>8, <3>3, <3>4 DEF Served, SameConn
    <3> QED
      BY <3>2, <3>5 DEF Arrived
  <2> QED
    BY <2>1, <2>2
<1>19. \A d \in net' : d \in net \/ DatagramInv(d)'
  BY <1>3, <1>12, <1>13, <1>16, Persist
<1> QED
  BY <1>4, <1>11, <1>14, <1>15, <1>16, <1>17, <1>18, <1>19, Assemble

(* Time passes.                                                            *)
LEMMA StepTick ==
  ASSUME HandshakeInv, Tick
  PROVE  HandshakeInv'
<1>1. TypeOK
  BY DEF HandshakeInv
<1>2. UNCHANGED <<pc, udp_data, map_req_conn, issued_key, queue_msg, taken, net, bad_call>>
  BY DEF Tick, msgVars
<1>3. \A c \in Clients : /\ conn'[c] \in Conn /\ SameConn(conn'[c], conn[c])
                         /\ conn'[c].out = conn[c].out /\ conn'[c].inq = conn[c].inq
  BY <1>1, LaterType DEF Tick, TypeOK
<1>4. /\ DOMAIN map_conn' = DOMAIN map_conn
      /\ \A conv \in DOMAIN map_conn :
           /\ map_conn'[conv] \in Conn /\ SameConn(map_conn'[conv], map_conn[conv])
           /\ map_conn'[conv].out = map_conn[conv].out /\ map_conn'[conv].inq = map_conn[conv].inq
  BY <1>1, LaterType DEF Tick, TypeOK
<1>5. conn' \in [Clients -> Conn] /\ waiting' \in [Clients -> Nat]
  BY <1>1, <1>3 DEF Tick, TypeOK, Down
<1>6. TypeOK'
  BY <1>1, <1>2, <1>4, <1>5 DEF TypeOK
<1>7. Grows
  BY <1>2 DEF Grows
<1>8. \A conv \in DOMAIN map_conn' :
        /\ ServerConnInv(conv)'
        /\ ConvReuse \/ (map_conn'[conv].status = "ESTABLISHED" => Answered(conv)')
  <2> SUFFICES ASSUME NEW conv \in DOMAIN map_conn
               PROVE  /\ ServerConnInv(conv)'
                      /\ ConvReuse \/ (map_conn'[conv].status = "ESTABLISHED" => Answered(conv)')
    BY <1>4
  <2>1. ServerConnInv(conv)
    BY DEF HandshakeInv
  <2>2. ServerConnInv(conv)'
    BY <1>4, <1>7, <2>1, Persist DEF ServerConnInv, SameConn, OutInv
  <2>3. ConvReuse \/ (map_conn'[conv].status = "ESTABLISHED" => Answered(conv)')
    BY <1>2, <1>4 DEF HandshakeInv, EstablishedByKeyHolder, Answered, SameConn
  <2> QED
    BY <2>2, <2>3
<1>9. \A c \in Clients : ClientConnInv(c)'
  <2> TAKE c \in Clients
  <2>1. ClientConnInv(c)
    BY DEF HandshakeInv
  <2> QED
    BY <1>3, <1>7, <2>1, Persist DEF ClientConnInv, SameConn, OutInv
<1> QED
  BY <1>2, <1>6, <1>7, <1>8, <1>9, Assemble

-----------------------------------------------------------------------------
(* The invariant.                                                          *)

(* Nothing has been sent or made yet.                                      *)
LEMMA InitInv ==
  ASSUME Init
  PROVE  HandshakeInv
<1>1. DOMAIN map_conn = {} /\ DOMAIN map_req_conn = {} /\ DOMAIN issued_key = {}
  BY DEF Init
<1>2. \A c \in Clients : conn[c] = NoConn
  BY DEF Init
<1>3. \A h \in Hosts : queue_msg[h] = << >> /\ Len(queue_msg[h]) = 0
  BY DEF Init
<1>4. << >> \in Seq([conv : Convs, n : Nonces, body : Body])
  BY EmptySeq
<1>5. TypeOK
  BY <1>1, <1>4, Constants DEF TypeOK, Init
<1>6. \A c \in Clients : ClientConnInv(c)
  BY <1>2, Constants DEF ClientConnInv, NewConn, OutInv
<1>7. NoCrossTalk
  BY <1>3 DEF NoCrossTalk
<1>8. EstablishedByKeyHolder
  BY <1>1 DEF EstablishedByKeyHolder
<1>9. net = {}
  BY DEF Init
<1> QED
  BY <1>1, <1>5, <1>6, <1>7, <1>8, <1>9 DEF HandshakeInv, Injective

(* Every step of every host keeps it.                                      *)
LEMMA NextInv ==
  ASSUME HandshakeInv, [Next]_vars
  PROVE  HandshakeInv'
<1>1. ASSUME NEW c \in Clients, connect(c) PROVE HandshakeInv'
  BY <1>1, StepConnect
<1>2. ASSUME NEW c \in Clients, ConnectLoop(c) PROVE HandshakeInv'
  BY <1>2, StepPc, StepClientGone, StepReqConn DEF ConnectLoop
<1>3. ASSUME NEW c \in Clients, ClientRun(c) PROVE HandshakeInv'
  BY <1>3, StepClientGone, StepClientRun DEF ClientRun
<1>4. ASSUME NEW c \in Clients, kcpuv_send_client(c) PROVE HandshakeInv'
  BY <1>4, StepClientSend
<1>5. ASSUME NEW c \in Clients, connect_error(c) \/ kcpuv_destroy_client(c) PROVE HandshakeInv'
  BY <1>5, StepClientGone, StepPc
<1>6. ASSUME NEW c \in Clients, NEW d \in net,
             on_recv_udp_client(c, d) \/ on_recv_udp_no_conn(c, d)
      PROVE  HandshakeInv'
  BY <1>6, StepClientRecv, StepPc
<1>7. CASE kcpuv_listen \/ kcpuv_destroy_server
  BY <1>7, StepPc, StepServerGone
<1>8. ASSUME NEW d \in net, on_recv_udp_callback(d) PROVE HandshakeInv'
  BY <1>8, StepReqServed, StepServerRecv DEF on_recv_udp_callback
<1>9. ASSUME NEW conv \in Convs, ServerRun(conv) \/ kcpuv_send_server(conv) PROVE HandshakeInv'
  BY <1>9, StepServerGone, StepServerRun, StepServerSend DEF ServerRun
<1>10. CASE \E h \in Hosts : kcpuv_recv(h)
  BY <1>10, StepPc
<1>11. CASE Tick
  BY <1>11, StepTick
<1>12. CASE UNCHANGED vars
  <2>1. TypeOK'
    BY <1>12 DEF HandshakeInv, TypeOK, vars, clientVars, serverVars, msgVars
  <2> QED
    BY <1>12, <2>1, StepIdle DEF vars, clientVars, serverVars, msgVars
<1> QED
  BY <1>1, <1>2, <1>3, <1>4, <1>5, <1>6, <1>7, <1>8, <1>9, <1>10, <1>11, <1>12 DEF Next

(* At every moment, every key, conv and message the hosts and the path     *)
(* hold goes back to one request proc_req_conn served (network.cpp).       *)
THEOREM HandshakeInvariant == Spec => []HandshakeInv
<1>1. Init => HandshakeInv
  BY InitInv
<1>2. HandshakeInv /\ [Next]_vars => HandshakeInv'
  BY NextInv
<1> QED
  BY <1>1, <1>2, PTL DEF Spec

(* Every variable of the connection layer has its type.                    *)
THEOREM KcpuvTypeCorrect == Spec => []TypeOK
<1>1. HandshakeInv => TypeOK
  BY DEF HandshakeInv
<1> QED
  BY <1>1, HandshakeInvariant, PTL

(* A client that on_recv_udp_snd_conv lets out of the handshake has the    *)
(* conv and the key proc_req_conn made for its n, however many clients,    *)
(* losses, repetitions and late offers there are.                          *)
THEOREM AgreementHolds == Spec => []Agreement
<1>1. HandshakeInv => Agreement
  BY DEF HandshakeInv, ClientConnInv, Served, Agreement
<1> QED
  BY <1>1, HandshakeInvariant, PTL

(* The key check of recv_kcp keeps the payloads of another connection from *)
(* the application, also when rand_uint32 gives a conv out again.          *)
THEOREM NoCrossTalkHolds == Spec => []NoCrossTalk
<1>1. HandshakeInv => NoCrossTalk
  BY DEF HandshakeInv
<1> QED
  BY <1>1, HandshakeInvariant, PTL

(* If rand_uint32 never repeats a conv, Conn::run makes a connection       *)
(* ESTABLISHED only for a client that knows its key.                       *)
THEOREM EstablishedByKeyHolderHolds ==
  ASSUME ~ConvReuse
  PROVE  Spec => []EstablishedByKeyHolder
<1>1. HandshakeInv => EstablishedByKeyHolder
  BY DEF HandshakeInv
<1> QED
  BY <1>1, HandshakeInvariant, PTL

(* The request map and the Conns of the server around a step.              *)
EntriesKept ==
  \A n \in DOMAIN map_req_conn : n \in DOMAIN map_req_conn' /\ map_req_conn'[n] = map_req_conn[n]

NewOnesAreNew ==
  \A conv \in DOMAIN map_conn' \ DOMAIN map_conn : map_conn'[conv].n \notin DOMAIN map_req_conn

(* Only proc_req_conn adds to either, for an n it has never served.        *)
LEMMA ServerStepServesNew ==
  ASSUME HandshakeInv, Next
  PROVE  EntriesKept /\ NewOnesAreNew
<1>1. ASSUME NEW d \in net, proc_req_conn(d)
      PROVE  EntriesKept /\ NewOnesAreNew
  <2>1. PICK new \in Convs, key \in Keys :
          /\ map_req_conn' = Bind(map_req_conn, d.n, new)
          /\ map_conn' = Bind(map_conn, new, alive(prepare_snd_conv(d, new, key)))
    BY <1>1 DEF proc_req_conn
  <2>2. d.n \notin DOMAIN map_req_conn
    BY <1>1 DEF proc_req_conn, NewRequest
  <2>3. EntriesKept
    BY <2>1, <2>2 DEF Bind, EntriesKept
  <2>4. DOMAIN map_conn' = DOMAIN map_conn \cup {new}
        /\ map_conn'[new] = alive(prepare_snd_conv(d, new, key))
    BY <2>1 DEF Bind
  <2>5. alive(prepare_snd_conv(d, new, key)).n = d.n
    BY DEF alive, prepare_snd_conv, init_kcp, NewConn
  <2>6. NewOnesAreNew
    BY <2>2, <2>4, <2>5 DEF NewOnesAreNew
  <2> QED
    BY <2>3, <2>6
<1>2. CASE map_req_conn' = map_req_conn /\ DOMAIN map_conn' \subseteq DOMAIN map_conn
  BY <1>2 DEF EntriesKept, NewOnesAreNew
<1>3. ASSUME NEW d \in net, on_recv_udp_server(d)
      PROVE  map_req_conn' = map_req_conn /\ DOMAIN map_conn' \subseteq DOMAIN map_conn
  BY <1>3 DEF on_recv_udp_server
<1>4. ASSUME NEW x \in Convs, server_expire(x) \/ server_run(x) \/ kcpuv_send_server(x)
      PROVE  map_req_conn' = map_req_conn /\ DOMAIN map_conn' \subseteq DOMAIN map_conn
  <2>1. CASE server_expire(x)
    BY <2>1 DEF server_expire
  <2>2. CASE server_run(x)
    BY <2>2 DEF server_run
  <2>3. CASE kcpuv_send_server(x)
    BY <2>3 DEF kcpuv_send_server
  <2> QED
    BY <1>4, <2>1, <2>2, <2>3
<1>5. CASE kcpuv_destroy_server \/ Tick
  <2>1. CASE kcpuv_destroy_server
    BY <1>2, <2>1 DEF kcpuv_destroy_server
  <2>2. CASE Tick
    BY <1>2, <2>2 DEF Tick
  <2> QED
    BY <1>5, <2>1, <2>2
<1>6. (map_req_conn' = map_req_conn /\ map_conn' = map_conn)
      \/ (\E d \in net : proc_req_conn(d) \/ on_recv_udp_server(d))
      \/ (\E x \in Convs : server_expire(x) \/ server_run(x) \/ kcpuv_send_server(x))
      \/ kcpuv_destroy_server \/ Tick
  BY DEF Next, ConnectLoop, ClientRun, ServerRun, on_recv_udp_callback, serverVars,
         connect, connect_error, connect_established, connect_timeout, req_conn_run,
         client_expire, client_run, kcpuv_send_client, kcpuv_destroy_client,
         on_recv_udp_client, on_recv_udp_no_conn, kcpuv_listen, kcpuv_recv
<1> QED
  BY <1>1, <1>2, <1>3, <1>4, <1>5, <1>6

(* proc_req_conn makes one connection of a request, however often it       *)
(* arrives and whatever has become of that connection: the entries of      *)
(* _map_req_conn stay, name the conv of the live connection of their n,    *)
(* and no connection is made for an n that has one.                        *)
THEOREM OneConnPerRequestHolds == Spec => OneConnPerRequest
<1> DEFINE A ==
      /\ \A n \in DOMAIN map_req_conn :
           n \in DOMAIN map_req_conn' /\ map_req_conn'[n] = map_req_conn[n]
      /\ \A conv \in DOMAIN map_conn' :
           LET n == map_conn'[conv].n
           IN /\ n \in DOMAIN map_req_conn' /\ map_req_conn'[n] = conv
              /\ conv \notin DOMAIN map_conn => n \notin DOMAIN map_req_conn
<1>1. HandshakeInv /\ HandshakeInv' /\ [Next]_vars => [A]_vars
  <2> SUFFICES ASSUME HandshakeInv, HandshakeInv', Next PROVE A
    OBVIOUS
  <2>1. EntriesKept /\ NewOnesAreNew
    BY ServerStepServesNew
  <2>2. \A conv \in DOMAIN map_conn' :
          map_conn'[conv].n \in DOMAIN map_req_conn' /\ map_req_conn'[map_conn'[conv].n] = conv
    BY DEF HandshakeInv, ServerConnInv, Served
  <2> QED
    BY <2>1, <2>2 DEF EntriesKept, NewOnesAreNew
<1> QED
  BY <1>1, HandshakeInvariant, PTL DEF Spec, OneConnPerRequest

(* What NoTakeover says of the two Conns a conv has around a step.         *)
Keeps(s, r) ==
  r.n = s.n /\ r.key = s.key /\ (s.status = "ESTABLISHED" => r.status = "ESTABLISHED")

(* The steps that change a Conn of the server keep its peer.               *)
LEMMA ServerStepKeeps ==
  ASSUME HandshakeInv, Next, NEW conv \in DOMAIN map_conn, conv \in DOMAIN map_conn'
  PROVE  Keeps(map_conn[conv], map_conn'[conv])
<1>1. /\ TypeOK
      /\ \A x \in DOMAIN map_conn : x \in Convs /\ map_conn[x] \in Conn /\ map_conn[x].n \in Nonces
  BY ConnFacts DEF HandshakeInv
<1>2. CASE map_conn' = map_conn
  BY <1>2 DEF Keeps
<1>3. ASSUME NEW d \in net, proc_req_conn(d)
      PROVE  Keeps(map_conn[conv], map_conn'[conv])
  <2>1. PICK new \in Convs, key \in Keys :
          /\ new \notin DOMAIN map_conn
          /\ map_conn' = Bind(map_conn, new, alive(prepare_snd_conv(d, new, key)))
    BY <1>3 DEF proc_req_conn, new_conv, get_conn_by_conv
  <2> QED
    BY <2>1 DEF Bind, Keeps
<1>4. ASSUME NEW d \in net, on_recv_udp_server(d)
      PROVE  Keeps(map_conn[conv], map_conn'[conv])
  <2>1. /\ d \in Datagram /\ d.type = "kcp"
        /\ map_conn' = [map_conn EXCEPT ![d.conv] = on_recv_udp(map_conn[d.conv], d)]
    BY <1>1, <1>4 DEF on_recv_udp_server, TypeOK
  <2>2. SameConn(on_recv_udp(map_conn[conv], d), map_conn[conv])
    BY <1>1, <2>1, OnRecvUdpType
  <2> QED
    BY <2>1, <2>2 DEF SameConn, Keeps
<1>5. ASSUME NEW x \in Convs, server_expire(x)
      PROVE  Keeps(map_conn[conv], map_conn'[conv])
  <2>1. map_conn' = [y \in DOMAIN map_conn \ {x} |-> map_conn[y]]
    BY <1>5 DEF server_expire
  <2>2. map_conn'[conv] = map_conn[conv]
    BY <2>1
  <2> QED
    BY <2>2 DEF Keeps
<1>6. ASSUME NEW x \in Convs, server_run(x)
      PROVE  Keeps(map_conn[conv], map_conn'[conv])
  <2> DEFINE s == map_conn[x]
             q == RunConn(s, Cardinality(AcksAt(s)))
             r == [q EXCEPT
                    !.status = IF q.status = "SND_CONV" /\ MsgCnt(s) > 0 THEN "ESTABLISHED" ELSE q.status,
                    !.resend = IF snd_conn_run(s) THEN ResendInterval ELSE q.resend]
  <2>1. map_conn' = [map_conn EXCEPT ![x] = r] /\ s \in Conn
    BY <1>1, <1>6 DEF server_run
  <2>2. Len(s.inq) \in Nat /\ AcksAt(s) \subseteq 1..Len(s.inq)
    BY <2>1 DEF Conn, AcksAt
  <2>3. Cardinality(AcksAt(s)) \in Nat
    BY <2>2, PlacesFinite
  <2>4. q \in Conn /\ SameConn(q, s)
    BY <2>1, <2>3, RunConnType
  <2> HIDE DEF q
  <2>5. Keeps(s, r)
    BY <2>4 DEF Conn, SameConn, Keeps
  <2> HIDE DEF r
  <2> QED
    BY <2>1, <2>5 DEF Keeps
<1>7. ASSUME NEW x \in Convs, kcpuv_send_server(x)
      PROVE  Keeps(map_conn[conv], map_conn'[conv])
  <2>1. PICK body : map_conn' = [map_conn EXCEPT ![x] = send_kcp(map_conn[x], body)]
    BY <1>7 DEF kcpuv_send_server
  <2> QED
    BY <1>1, <2>1 DEF send_kcp, Keeps, Conn
<1>8. CASE kcpuv_destroy_server
  <2>1. DOMAIN map_conn' = {}
    BY <1>8 DEF kcpuv_destroy_server
  <2> QED
    BY <2>1
<1>9. CASE Tick
  <2>1. map_conn'[conv] = Later(map_conn[conv])
    BY <1>9 DEF Tick
  <2> QED
    BY <1>1, <2>1, LaterType DEF SameConn, Keeps
<1>10. map_conn' = map_conn
       \/ (\E d \in net : proc_req_conn(d) \/ on_recv_udp_server(d))
       \/ (\E x \in Convs : server_expire(x) \/ server_run(x) \/ kcpuv_send_server(x))
       \/ kcpuv_destroy_server \/ Tick
  BY DEF Next, ConnectLoop, ClientRun, ServerRun, on_recv_udp_callback, serverVars,
         connect, connect_error, connect_established, connect_timeout, req_conn_run,
         client_expire, client_run, kcpuv_send_client, kcpuv_destroy_client,
         on_recv_udp_client, on_recv_udp_no_conn, kcpuv_listen, kcpuv_recv
<1> QED
  BY <1>2, <1>3, <1>4, <1>5, <1>6, <1>7, <1>8, <1>9, <1>10

(* A conv that is live at the server is never given to another peer, and   *)
(* does not fall back from ESTABLISHED, because new_conv looks it up.      *)
THEOREM NoTakeoverHolds == Spec => NoTakeover
<1> DEFINE A == \A conv \in DOMAIN map_conn \cap DOMAIN map_conn' :
                  /\ map_conn'[conv].n = map_conn[conv].n
                  /\ map_conn'[conv].key = map_conn[conv].key
                  /\ map_conn[conv].status = "ESTABLISHED" =>
                       map_conn'[conv].status = "ESTABLISHED"
<1>1. HandshakeInv /\ [Next]_vars => [A]_vars
  BY ServerStepKeeps DEF Keeps
<1> QED
  BY <1>1, HandshakeInvariant, PTL DEF Spec, NoTakeover

-----------------------------------------------------------------------------
(* Counting.                                                               *)

(* One place more counts for one or for nothing.                           *)
LEMMA CountNext ==
  ASSUME NEW n \in Nat, NEW I, NEW J, J \subseteq 1..n,
         I = J \/ I = J \cup {n + 1}
  PROVE  /\ Cardinality(J) \in Nat
         /\ I = J => Cardinality(I) = Cardinality(J)
         /\ I # J => Cardinality(I) = Cardinality(J) + 1
<1>1. IsFiniteSet(J) /\ Cardinality(J) \in Nat
  BY PlacesFinite
<1>2. n + 1 \notin J
  OBVIOUS
<1> QED
  BY <1>1, <1>2, FS_AddElement

(* SentUpTo, place by place.                                               *)
LEMMA SentNext ==
  ASSUME NEW strm, NEW p \in Nat
  PROVE  /\ SentUpTo(strm, 0) = 0 /\ SentUpTo(strm, p) \in Nat
         /\ SentUpTo(strm, p + 1) =
              IF strm[p + 1].body # Empty THEN SentUpTo(strm, p) + 1 ELSE SentUpTo(strm, p)
<1> DEFINE At(x) == {k \in 1..x : strm[k].body # Empty}
<1>1. 1..(p + 1) = (1..p) \cup {p + 1} /\ p + 1 \notin 1..p
  OBVIOUS
<1>2. IF strm[p + 1].body # Empty THEN At(p + 1) = At(p) \cup {p + 1} /\ At(p + 1) # At(p)
      ELSE At(p + 1) = At(p)
  BY <1>1
<1>3. At(p) \subseteq 1..p /\ At(0) = {}
  OBVIOUS
<1> HIDE DEF At
<1>4. /\ Cardinality(At(p)) \in Nat
      /\ Cardinality(At(p + 1)) =
           IF strm[p + 1].body # Empty THEN Cardinality(At(p)) + 1 ELSE Cardinality(At(p))
  BY <1>2, <1>3, CountNext
<1> QED
  BY <1>3, <1>4, FS_EmptySet DEF SentUpTo, At

(* A longer stream has the same payloads as far as the shorter one goes.   *)
LEMMA SentSame ==
  ASSUME NEW strm, NEW strm2, NEW p, \A k \in 1..p : strm2[k] = strm[k]
  PROVE  SentUpTo(strm2, p) = SentUpTo(strm, p)
<1>1. {k \in 1..p : strm2[k].body # Empty} = {k \in 1..p : strm[k].body # Empty}
  OBVIOUS
<1> QED
  BY <1>1 DEF SentUpTo

(* GotUpTo, place by place.                                                *)
LEMMA GotNext ==
  ASSUME NEW q, NEW n, NEW p \in Nat
  PROVE  /\ GotUpTo(q, n, 0) = 0 /\ GotUpTo(q, n, p) \in Nat
         /\ GotUpTo(q, n, p + 1) =
              IF q[p + 1].n = n THEN GotUpTo(q, n, p) + 1 ELSE GotUpTo(q, n, p)
<1> DEFINE At(x) == {k \in 1..x : q[k].n = n}
<1>1. 1..(p + 1) = (1..p) \cup {p + 1} /\ p + 1 \notin 1..p
  OBVIOUS
<1>2. IF q[p + 1].n = n THEN At(p + 1) = At(p) \cup {p + 1} /\ At(p + 1) # At(p)
      ELSE At(p + 1) = At(p)
  BY <1>1
<1>3. At(p) \subseteq 1..p /\ At(0) = {}
  OBVIOUS
<1> HIDE DEF At
<1>4. /\ Cardinality(At(p)) \in Nat
      /\ Cardinality(At(p + 1)) =
           IF q[p + 1].n = n THEN Cardinality(At(p)) + 1 ELSE Cardinality(At(p))
  BY <1>2, <1>3, CountNext
<1> QED
  BY <1>3, <1>4, FS_EmptySet DEF GotUpTo, At

(* What was delivered later does not change the count so far.              *)
LEMMA GotSame ==
  ASSUME NEW q, NEW q2, NEW n, NEW p, \A k \in 1..p : q2[k] = q[k]
  PROVE  GotUpTo(q2, n, p) = GotUpTo(q, n, p)
<1>1. {k \in 1..p : q2[k].n = n} = {k \in 1..p : q[k].n = n}
  OBVIOUS
<1> QED
  BY <1>1 DEF GotUpTo

(* None of n so far: the count is 0.                                       *)
LEMMA GotNone ==
  ASSUME NEW q, NEW n, NEW p \in Nat, \A k \in 1..p : q[k].n # n
  PROVE  GotUpTo(q, n, p) = 0
<1>1. {k \in 1..p : q[k].n = n} = {}
  OBVIOUS
<1> QED
  BY <1>1, FS_EmptySet DEF GotUpTo

(* From here on, Rank counts as SentUpTo does.                             *)
LEMMA RankNext ==
  ASSUME NEW n \in Nat, NEW I, I \subseteq 1..n, NEW i \in Nat
  PROVE  /\ Rank(I, 0) = 0 /\ Rank(I, i) \in Nat
         /\ Rank(I, i + 1) = IF i + 1 \in I THEN Rank(I, i) + 1 ELSE Rank(I, i)
<1> DEFINE At(x) == {j \in I : j =< x}
<1>1. \A j \in I : j \in Nat /\ 1 =< j /\ j =< n
  OBVIOUS
<1>2. At(0) = {} /\ At(i) \subseteq 1..i
  <2>1. \A j \in I : ~(j =< 0) /\ (j =< i => j \in 1..i)
    BY <1>1
  <2> QED
    BY <2>1
<1>3. \A j \in I : j =< i + 1 <=> (j =< i \/ j = i + 1)
  BY <1>1
<1>4. ~(i + 1 =< i)
  OBVIOUS
<1>5. IF i + 1 \in I THEN At(i + 1) = At(i) \cup {i + 1} /\ At(i + 1) # At(i)
      ELSE At(i + 1) = At(i)
  BY <1>3, <1>4
<1> HIDE DEF At
<1>6. /\ Cardinality(At(i)) \in Nat
      /\ Cardinality(At(i + 1)) =
           IF i + 1 \in I THEN Cardinality(At(i)) + 1 ELSE Cardinality(At(i))
  BY <1>2, <1>5, CountNext
<1> QED
  BY <1>2, <1>6, FS_EmptySet DEF Rank, At

(* Which of the m messages after the first p are payloads.                 *)
PayloadsFrom(strm, p, m) == {i \in 1..m : strm[p + i].body # Empty}

(* Payloads of a part of a stream, from p on.                              *)
LEMMA SentRank ==
  ASSUME NEW strm, NEW p \in Nat, NEW m \in Nat, NEW i \in 0..m
  PROVE  SentUpTo(strm, p + i) = SentUpTo(strm, p) + Rank(PayloadsFrom(strm, p, m), i)
<1> DEFINE I == PayloadsFrom(strm, p, m)
           T == {x \in Nat : x =< m => SentUpTo(strm, p + x) = SentUpTo(strm, p) + Rank(I, x)}
<1>1. I \subseteq 1..m
  BY DEF PayloadsFrom
<1>2. \A x \in Nat : Rank(I, x) \in Nat /\ SentUpTo(strm, p) \in Nat
  BY <1>1, RankNext, SentNext
<1>3. 0 \in T
  <2>1. Rank(I, 0) = 0 /\ p + 0 = p
    BY <1>1, RankNext
  <2> QED
    BY <1>2, <2>1
<1>4. ASSUME NEW x \in Nat, x \in T PROVE x + 1 \in T
  <2> SUFFICES ASSUME x + 1 =< m
               PROVE  SentUpTo(strm, p + (x + 1)) = SentUpTo(strm, p) + Rank(I, x + 1)
    OBVIOUS
  <2>1. SentUpTo(strm, p + x) = SentUpTo(strm, p) + Rank(I, x)
    BY <1>4
  <2>2. p + x \in Nat /\ p + (x + 1) = (p + x) + 1 /\ x + 1 \in 1..m
    OBVIOUS
  <2>3. SentUpTo(strm, (p + x) + 1) =
          IF strm[(p + x) + 1].body # Empty THEN SentUpTo(strm, p + x) + 1 ELSE SentUpTo(strm, p + x)
    BY <2>2, SentNext
  <2>4. Rank(I, x + 1) = IF x + 1 \in I THEN Rank(I, x) + 1 ELSE Rank(I, x)
    BY <1>1, RankNext
  <2>5. x + 1 \in I <=> strm[(p + x) + 1].body # Empty
    BY <2>2 DEF PayloadsFrom
  <2> HIDE DEF T
  <2> QED
    BY <1>2, <2>1, <2>2, <2>3, <2>4, <2>5
<1>5. Nat \subseteq T
  <2> HIDE DEF T
  <2> QED
    BY <1>3, <1>4, SetInduction
<1> QED
  BY <1>5

(* After the first l come m deliveries of nonce n.                         *)
AllOf(q, n, l, m) == \A i \in 1..m : q[l + i].n = n

(* The i-th of them makes this count of other's deliveries.                *)
CountsOn(q, n, l, i, other) ==
  /\ other = n => GotUpTo(q, other, l + i) = GotUpTo(q, other, l) + i
  /\ other # n => GotUpTo(q, other, l + i) = GotUpTo(q, other, l)

(* The count after a number of deliveries, all of nonce n.                 *)
LEMMA GotPushed ==
  ASSUME NEW q, NEW n, NEW l \in Nat, NEW m \in Nat, AllOf(q, n, l, m),
         NEW i \in 0..m, NEW other
  PROVE  CountsOn(q, n, l, i, other)
<1> DEFINE T == {x \in Nat : x =< m =>
                  GotUpTo(q, other, l + x) = GotUpTo(q, other, l) + (IF other = n THEN x ELSE 0)}
<1>1. GotUpTo(q, other, l) \in Nat
  BY GotNext
<1>2. 0 \in T
  <2>1. l + 0 = l
    OBVIOUS
  <2> QED
    BY <1>1, <2>1
<1>3. ASSUME NEW x \in Nat, x \in T PROVE x + 1 \in T
  <2> SUFFICES ASSUME x + 1 =< m
               PROVE  GotUpTo(q, other, l + (x + 1)) =
                        GotUpTo(q, other, l) + (IF other = n THEN x + 1 ELSE 0)
    OBVIOUS
  <2>1. GotUpTo(q, other, l + x) = GotUpTo(q, other, l) + (IF other = n THEN x ELSE 0)
    BY <1>3
  <2>2. l + x \in Nat /\ l + (x + 1) = (l + x) + 1 /\ x + 1 \in 1..m
    OBVIOUS
  <2>3. GotUpTo(q, other, (l + x) + 1) =
          IF q[(l + x) + 1].n = other THEN GotUpTo(q, other, l + x) + 1 ELSE GotUpTo(q, other, l + x)
    BY <2>2, GotNext
  <2>4. q[(l + x) + 1].n = n
    BY <2>2 DEF AllOf
  <2> HIDE DEF T
  <2> QED
    BY <1>1, <2>1, <2>2, <2>3, <2>4
<1>4. Nat \subseteq T
  <2> HIDE DEF T
  <2> QED
    BY <1>2, <1>3, SetInduction
<1> QED
  BY <1>1, <1>4 DEF CountsOn

-----------------------------------------------------------------------------
(* Streams.                                                                *)

(* strm2 goes on where strm ends.                                          *)
Extends(strm2, strm) ==
  Len(strm) =< Len(strm2) /\ \A k \in 1..Len(strm) : strm2[k] = strm[k]

(* What goes on with acks, or with the next payload, is still numbered.    *)
LEMMA NumberedExtends ==
  ASSUME NEW strm \in Seq(KeyedMsg), NEW strm2 \in Seq(KeyedMsg), Numbered(strm),
         Extends(strm2, strm),
         \/ \A k \in (Len(strm) + 1)..Len(strm2) : strm2[k].body = Empty
         \/ /\ Len(strm2) = Len(strm) + 1
            /\ strm2[Len(strm2)].body.i = SentUpTo(strm, Len(strm)) + 1
  PROVE  Numbered(strm2)
<1>1. Len(strm) \in Nat /\ Len(strm2) \in Nat
  OBVIOUS
<1> SUFFICES ASSUME NEW k \in 1..Len(strm2), strm2[k].body # Empty
             PROVE  strm2[k].body.i = SentUpTo(strm2, k)
  BY DEF Numbered
<1>2. CASE k \in 1..Len(strm)
  <2>1. \A j \in 1..k : strm2[j] = strm[j]
    BY <1>1, <1>2 DEF Extends
  <2>2. SentUpTo(strm2, k) = SentUpTo(strm, k)
    BY <2>1, SentSame
  <2>3. strm2[k] = strm[k]
    BY <1>2 DEF Extends
  <2> QED
    BY <1>2, <2>2, <2>3 DEF Numbered
<1>3. CASE k \notin 1..Len(strm)
  <2>1. k \in (Len(strm) + 1)..Len(strm2)
    BY <1>1, <1>3
  <2>2. /\ Len(strm2) = Len(strm) + 1 /\ k = Len(strm) + 1
        /\ strm2[k].body.i = SentUpTo(strm, Len(strm)) + 1
    BY <1>1, <2>1
  <2>3. SentUpTo(strm2, Len(strm)) = SentUpTo(strm, Len(strm))
    BY SentSame DEF Extends
  <2>4. SentUpTo(strm2, k) = SentUpTo(strm2, Len(strm)) + 1
    BY <1>1, <2>2, SentNext
  <2> QED
    BY <2>2, <2>3, <2>4
<1> QED
  BY <1>2, <1>3

(* A reader does not notice that the stream goes on.                       *)
LEMMA ReadsExtends ==
  ASSUME NEW s \in Conn, NEW r, r.rcv_nxt = s.rcv_nxt, r.inq = s.inq, r.n = s.n,
         NEW q, NEW q2, GotUpTo(q2, s.n, Len(q2)) = GotUpTo(q, s.n, Len(q)),
         NEW strm \in Seq(KeyedMsg), NEW strm2 \in Seq(KeyedMsg),
         Extends(strm2, strm), Reads(s, q, strm)
  PROVE  Reads(r, q2, strm2)
<1> DEFINE p == s.rcv_nxt - Len(s.inq)
<1>1. /\ s.rcv_nxt \in Nat /\ Len(s.inq) \in Nat /\ Len(strm) \in Nat /\ Len(strm2) \in Nat
  BY DEF Conn
<1>2. /\ p >= 0 /\ s.rcv_nxt =< Len(strm)
      /\ \A i \in 1..Len(s.inq) : s.inq[i] = strm[p + i]
      /\ GotUpTo(q, s.n, Len(q)) = SentUpTo(strm, p)
  BY DEF Reads
<1>3. p \in Nat /\ p + Len(s.inq) = s.rcv_nxt
  BY <1>1, <1>2
<1> HIDE DEF p
<1>4. SentUpTo(strm2, p) = SentUpTo(strm, p)
  <2>1. \A k \in 1..p : strm2[k] = strm[k]
    BY <1>1, <1>2, <1>3 DEF Extends
  <2> QED
    BY <2>1, SentSame
<1>5. \A i \in 1..Len(s.inq) : strm2[p + i] = strm[p + i]
  <2>1. \A i \in 1..Len(s.inq) : p + i \in 1..Len(strm)
    BY <1>1, <1>2, <1>3
  <2> QED
    BY <2>1 DEF Extends
<1>6. s.rcv_nxt =< Len(strm2)
  BY <1>1, <1>2 DEF Extends
<1> QED
  BY <1>2, <1>4, <1>5, <1>6 DEF Reads, p

(* on_recv_udp takes the message that is next, which is the stream's.      *)
LEMMA ReadsTakes ==
  ASSUME NEW s \in Conn, NEW d \in Datagram, NEW q, NEW strm \in Seq(KeyedMsg),
         Reads(s, q, strm), Takes(s, d) => Carried(d, strm)
  PROVE  Reads(on_recv_udp(s, d), q, strm)
<1> DEFINE r == on_recv_udp(s, d)
           p == s.rcv_nxt - Len(s.inq)
<1>1. /\ r \in Conn /\ SameConn(r, s)
      /\ IF Takes(s, d)
         THEN /\ r.rcv_nxt = s.rcv_nxt + 1
              /\ Len(r.inq) = Len(s.inq) + 1
              /\ \A i \in 1..Len(s.inq) : r.inq[i] = s.inq[i]
              /\ r.inq[Len(s.inq) + 1] = d.msg
         ELSE r.inq = s.inq /\ r.rcv_nxt = s.rcv_nxt
  BY OnRecvUdpType
<1> HIDE DEF r
<1>2. /\ s.rcv_nxt \in Nat /\ Len(s.inq) \in Nat /\ Len(strm) \in Nat
  BY DEF Conn
<1>3. /\ p >= 0 /\ s.rcv_nxt =< Len(strm)
      /\ \A i \in 1..Len(s.inq) : s.inq[i] = strm[p + i]
      /\ GotUpTo(q, s.n, Len(q)) = SentUpTo(strm, p)
  BY DEF Reads
<1>4. r.n = s.n
  BY <1>1 DEF SameConn
<1>5. CASE Takes(s, d)
  <2>1. d.sn = s.rcv_nxt + 1 /\ d.sn =< Len(strm) /\ d.msg = strm[d.sn]
    BY <1>5 DEF Takes, Carried
  <2>2. r.rcv_nxt - Len(r.inq) = p /\ r.rcv_nxt =< Len(strm)
    BY <1>1, <1>2, <1>5, <2>1
  <2>3. ASSUME NEW i \in 1..Len(r.inq) PROVE r.inq[i] = strm[p + i]
    <3>1. CASE i \in 1..Len(s.inq)
      BY <1>1, <1>3, <1>5, <3>1
    <3>2. CASE i \notin 1..Len(s.inq)
      <4>1. i = Len(s.inq) + 1 /\ p + i = d.sn
        BY <1>1, <1>2, <1>5, <2>1, <3>2
      <4> QED
        BY <1>1, <1>5, <2>1, <4>1
    <3> QED
      BY <3>1, <3>2
  <2> HIDE DEF p
  <2> QED
    BY <1>3, <1>4, <2>2, <2>3 DEF Reads, r
<1>6. CASE ~Takes(s, d)
  BY <1>1, <1>3, <1>4, <1>6 DEF Reads, r
<1> QED
  BY <1>5, <1>6

(* q2 is q and then the payloads of inq, in order.                         *)
Pushes(q2, q, s) ==
  /\ Len(q2) = Len(q) + Cardinality(PayloadsAt(s))
  /\ \A i \in 1..Len(q) : q2[i] = q[i]
  /\ \A i \in 1..Cardinality(PayloadsAt(s)) : \E k \in PayloadsAt(s) :
       /\ q2[Len(q) + i] = [conv |-> s.conv, n |-> s.n, body |-> s.inq[k].body]
       /\ Rank(PayloadsAt(s), k) = i

(* All that waits in inq is under the key of the connection.               *)
OwnKeys(s) == \A i \in 1..Len(s.inq) : s.inq[i].key = s.key

(* Every place of q2 after q has the number of its delivery.               *)
NumbersOn(q2, q, n) ==
  /\ \A k \in (Len(q) + 1)..Len(q2) : q2[k].n = n /\ q2[k].body.i = GotUpTo(q2, n, k)
  /\ \A other : other # n => GotUpTo(q2, other, Len(q2)) = GotUpTo(q, other, Len(q))

(* Conn::run hands over the payloads of inq: the numbers go on in q as     *)
(* they do in the stream.                                                  *)
LEMMA ReadsDrains ==
  ASSUME NEW s \in Conn, NEW q \in Seq(Delivered), NEW q2 \in Seq(Delivered),
         NEW strm \in Seq(KeyedMsg), Reads(s, q, strm), Numbered(strm),
         OwnKeys(s), Pushes(q2, q, s),
         NEW r, r.rcv_nxt = s.rcv_nxt, r.inq = << >>, r.n = s.n
  PROVE  Reads(r, q2, strm) /\ NumbersOn(q2, q, s.n)
<1> DEFINE p == s.rcv_nxt - Len(s.inq)
           m == Len(s.inq)
           l == Len(q)
           I == PayloadsAt(s)
           card == Cardinality(I)
<1>1. /\ s.rcv_nxt \in Nat /\ m \in Nat /\ Len(strm) \in Nat /\ l \in Nat
  BY DEF Conn
<1>2. /\ p >= 0 /\ s.rcv_nxt =< Len(strm)
      /\ \A i \in 1..m : s.inq[i] = strm[p + i]
      /\ GotUpTo(q, s.n, l) = SentUpTo(strm, p)
  BY DEF Reads
<1>3. p \in Nat /\ p + m = s.rcv_nxt
  BY <1>1, <1>2
<1>4. I = PayloadsFrom(strm, p, m)
  BY <1>2 DEF PayloadsFrom, PayloadsAt, KeyMatches, OwnKeys
<1>5. card \in Nat /\ I \subseteq 1..m /\ SentUpTo(strm, p) \in Nat
  <2>1. I \subseteq 1..m
    BY DEF PayloadsAt
  <2> QED
    BY <1>1, <1>3, <2>1, PlacesFinite, SentNext
<1>6. Rank(I, m) = card
  <2>1. \A j \in I : j =< m
    BY <1>1, <1>5
  <2>2. {j \in I : j =< m} = I
    BY <2>1
  <2> QED
    BY <2>2 DEF Rank
<1>7. \A i \in 0..m : SentUpTo(strm, p + i) = SentUpTo(strm, p) + Rank(I, i)
  <2> HIDE DEF p, m, I
  <2> QED
    BY <1>1, <1>3, <1>4, SentRank
<1>8. /\ Len(q2) = l + card /\ \A i \in 1..l : q2[i] = q[i]
      /\ \A i \in 1..card : \E k \in I :
           /\ q2[l + i] = [conv |-> s.conv, n |-> s.n, body |-> s.inq[k].body]
           /\ Rank(I, k) = i
  BY DEF Pushes
<1> HIDE DEF p, m, l, I, card
<1>9. \A other : GotUpTo(q2, other, l) = GotUpTo(q, other, l)
  BY <1>8, GotSame
<1>10. \A i \in 1..card : q2[l + i].n = s.n
  <2> TAKE i \in 1..card
  <2>1. PICK k \in I : q2[l + i] = [conv |-> s.conv, n |-> s.n, body |-> s.inq[k].body]
    BY <1>8
  <2> QED
    BY <2>1
<1>11. ASSUME NEW i \in 0..card, NEW other
       PROVE  /\ other = s.n => GotUpTo(q2, other, l + i) = GotUpTo(q, other, l) + i
              /\ other # s.n => GotUpTo(q2, other, l + i) = GotUpTo(q, other, l)
  <2>1. l \in Nat /\ card \in Nat
    BY <1>1, <1>5
  <2>2. AllOf(q2, s.n, l, card)
    BY <1>10 DEF AllOf
  <2>3. CountsOn(q2, s.n, l, i, other)
    BY <2>1, <2>2, GotPushed, Zenon
  <2> QED
    BY <1>9, <2>3 DEF CountsOn
<1>12. card \in 0..card /\ m \in 0..m
  BY <1>1, <1>5
<1>13. GotUpTo(q2, s.n, Len(q2)) = SentUpTo(strm, s.rcv_nxt)
  <2>1. GotUpTo(q2, s.n, l + card) = GotUpTo(q, s.n, l) + card
    BY <1>11, <1>12
  <2>2. SentUpTo(strm, p + m) = SentUpTo(strm, p) + card
    BY <1>6, <1>7, <1>12
  <2> QED
    BY <1>2, <1>3, <1>8, <2>1, <2>2 DEF l
<1>14. Reads(r, q2, strm)
  <2>1. Len(r.inq) = 0 /\ r.rcv_nxt - 0 = s.rcv_nxt /\ 1..0 = {}
    BY <1>1
  <2>2. /\ r.rcv_nxt - Len(r.inq) = s.rcv_nxt /\ s.rcv_nxt >= 0
        /\ \A i \in 1..Len(r.inq) : r.inq[i] = strm[s.rcv_nxt + i]
    BY <1>1, <2>1
  <2> QED
    BY <1>2, <1>13, <2>2 DEF Reads
<1>15. ASSUME NEW k \in (l + 1)..Len(q2)
       PROVE  q2[k].n = s.n /\ q2[k].body.i = GotUpTo(q2, s.n, k)
  <2> DEFINE i == k - l
  <2>1. i \in 1..card /\ i \in 0..card /\ k = l + i
    BY <1>1, <1>5, <1>8
  <2> HIDE DEF i
  <2>2. PICK x \in I : /\ q2[l + i] = [conv |-> s.conv, n |-> s.n, body |-> s.inq[x].body]
                       /\ Rank(I, x) = i
    BY <1>8, <2>1
  <2>3. x \in 1..m /\ x \in 0..m /\ p + x \in 1..Len(strm) /\ strm[p + x].body # Empty
    BY <1>1, <1>2, <1>3, <1>4, <1>5 DEF PayloadsFrom
  <2>4. strm[p + x].body.i = SentUpTo(strm, p + x)
    BY <2>3 DEF Numbered
  <2>5. SentUpTo(strm, p + x) = SentUpTo(strm, p) + i
    BY <1>7, <2>2, <2>3
  <2>6. GotUpTo(q2, s.n, k) = GotUpTo(q, s.n, l) + i
    BY <1>11, <2>1
  <2>7. s.inq[x] = strm[p + x]
    BY <1>2, <2>3
  <2> QED
    BY <1>2, <2>1, <2>2, <2>4, <2>5, <2>6, <2>7
<1>16. ASSUME NEW other, other # s.n
       PROVE  GotUpTo(q2, other, Len(q2)) = GotUpTo(q, other, l)
  <2>1. GotUpTo(q2, other, l + card) = GotUpTo(q, other, l)
    BY <1>11, <1>12, <1>16
  <2>2. GotUpTo(q, other, l) \in Nat
    BY <1>1, GotNext
  <2> QED
    BY <1>8, <2>1, <2>2
<1> QED
  BY <1>14, <1>15, <1>16 DEF l, NumbersOn

-----------------------------------------------------------------------------
(* What a step may do to the streams of a conv.                            *)

(* The same place in what r and s read, and the same count in q2 and q.    *)
SameReader(r, s, q2, q) ==
  /\ r.rcv_nxt = s.rcv_nxt /\ r.inq = s.inq /\ r.n = s.n
  /\ GotUpTo(q2, s.n, Len(q2)) = GotUpTo(q, s.n, Len(q))

(* To the server: the stream goes on, or is carried, or is read on.        *)
LEMMA UpStep ==
  ASSUME HandshakeInv, NEW conv \in Convs, NEW strm \in Seq(KeyedMsg), UpStream(conv, strm),
         NEW strm2 \in Seq(KeyedMsg), Extends(strm2, strm), Numbered(strm2),
         net \subseteq net',
         \A d \in net' : Upward(d, conv) => d \in net \/ Carried(d, strm2),
         \A c \in Clients : Established(c, conv)' => conn'[c].out = strm2,
         conv \in DOMAIN map_conn' =>
           \/ /\ conv \in DOMAIN map_conn
              /\ SameReader(map_conn'[conv], map_conn[conv], queue_msg'[Server], queue_msg[Server])
           \/ /\ Reads(map_conn'[conv], queue_msg'[Server], strm2)
              /\ map_conn'[conv].rcv_nxt > 0 => \E d \in net' : Upward(d, conv)
  PROVE  StreamUp(conv)'
<1>1. \A d \in net' : Upward(d, conv) => Carried(d, strm2)
  <2> SUFFICES ASSUME NEW d \in net, Upward(d, conv) PROVE Carried(d, strm2)
    OBVIOUS
  <2>1. Carried(d, strm)
    BY DEF UpStream
  <2>2. Len(strm) \in Nat /\ Len(strm2) \in Nat
    OBVIOUS
  <2> QED
    BY <2>1, <2>2 DEF Carried, Extends
<1>2. ASSUME conv \in DOMAIN map_conn'
      PROVE  /\ Reads(map_conn'[conv], queue_msg'[Server], strm2)
             /\ map_conn'[conv].rcv_nxt > 0 => \E d \in net' : Upward(d, conv)
  <2> SUFFICES ASSUME conv \in DOMAIN map_conn,
                      SameReader(map_conn'[conv], map_conn[conv],
                                 queue_msg'[Server], queue_msg[Server])
               PROVE  /\ Reads(map_conn'[conv], queue_msg'[Server], strm2)
                      /\ map_conn'[conv].rcv_nxt > 0 => \E d \in net' : Upward(d, conv)
    BY <1>2
  <2>1. /\ Reads(map_conn[conv], queue_msg[Server], strm)
        /\ map_conn[conv].rcv_nxt > 0 => \E d \in net : Upward(d, conv)
    BY DEF UpStream
  <2>2. map_conn[conv] \in Conn
    BY ConnFacts
  <2>3. Reads(map_conn'[conv], queue_msg'[Server], strm2)
    BY <2>1, <2>2, ReadsExtends DEF SameReader
  <2> QED
    BY <2>1, <2>3 DEF SameReader
<1>3. UpStream(conv, strm2)'
  BY <1>1, <1>2 DEF UpStream, Upward
<1> QED
  BY <1>3 DEF StreamUp

(* The other way.                                                          *)
LEMMA DownStep ==
  ASSUME HandshakeInv, NEW conv \in Convs, NEW strm \in Seq(KeyedMsg), DownStream(conv, strm),
         NEW strm2 \in Seq(KeyedMsg), Extends(strm2, strm), Numbered(strm2),
         net \subseteq net',
         \A d \in net' : Downward(d, conv) => d \in net \/ Carried(d, strm2),
         conv \in DOMAIN map_conn' => map_conn'[conv].out = strm2,
         \A c \in Clients : Established(c, conv)' =>
           \/ /\ Established(c, conv)
              /\ SameReader(conn'[c], conn[c], queue_msg'[c], queue_msg[c])
           \/ Reads(conn'[c], queue_msg'[c], strm2)
  PROVE  StreamDown(conv)'
<1>1. \A d \in net' : Downward(d, conv) => Carried(d, strm2)
  <2> SUFFICES ASSUME NEW d \in net, Downward(d, conv) PROVE Carried(d, strm2)
    OBVIOUS
  <2>1. Carried(d, strm)
    BY DEF DownStream
  <2>2. Len(strm) \in Nat /\ Len(strm2) \in Nat
    OBVIOUS
  <2> QED
    BY <2>1, <2>2 DEF Carried, Extends
<1>2. ASSUME NEW c \in Clients, Established(c, conv)'
      PROVE  Reads(conn'[c], queue_msg'[c], strm2)
  <2> SUFFICES ASSUME Established(c, conv),
                      SameReader(conn'[c], conn[c], queue_msg'[c], queue_msg[c])
               PROVE  Reads(conn'[c], queue_msg'[c], strm2)
    BY <1>2
  <2>1. Reads(conn[c], queue_msg[c], strm)
    BY DEF DownStream
  <2>2. conn[c] \in Conn
    BY ConnFacts
  <2> QED
    BY <2>1, <2>2, ReadsExtends DEF SameReader
<1>3. DownStream(conv, strm2)'
  BY <1>1, <1>2 DEF DownStream, Downward
<1> QED
  BY <1>3 DEF StreamDown

(* A stream to the server that the step does not touch.                    *)
QuietUp(conv) ==
  /\ net \subseteq net'
  /\ \A d \in net' : Upward(d, conv) => d \in net
  /\ \A c \in Clients : Established(c, conv)' =>
       Established(c, conv) /\ conn'[c].out = conn[c].out
  /\ conv \in DOMAIN map_conn' =>
       /\ conv \in DOMAIN map_conn
       /\ SameReader(map_conn'[conv], map_conn[conv], queue_msg'[Server], queue_msg[Server])

(* A stream from the server that the step does not touch.                  *)
QuietDown(conv) ==
  /\ net \subseteq net'
  /\ \A d \in net' : Downward(d, conv) => d \in net
  /\ conv \in DOMAIN map_conn' =>
       conv \in DOMAIN map_conn /\ map_conn'[conv].out = map_conn[conv].out
  /\ \A c \in Clients : Established(c, conv)' =>
       /\ Established(c, conv)
       /\ SameReader(conn'[c], conn[c], queue_msg'[c], queue_msg[c])

(* Such a stream is kept.                                                  *)
LEMMA QuietKeeps ==
  ASSUME HandshakeInv, NEW conv \in Convs
  PROVE  /\ StreamUp(conv) /\ QuietUp(conv) => StreamUp(conv)'
         /\ StreamDown(conv) /\ QuietDown(conv) => StreamDown(conv)'
<1>1. ASSUME StreamUp(conv), QuietUp(conv) PROVE StreamUp(conv)'
  <2>1. PICK strm \in Seq(KeyedMsg) : UpStream(conv, strm)
    BY <1>1 DEF StreamUp
  <2>2. Extends(strm, strm) /\ Numbered(strm)
    BY <2>1 DEF Extends, UpStream
  <2>3. \A c \in Clients : Established(c, conv)' => conn'[c].out = strm
    BY <1>1, <2>1 DEF QuietUp, UpStream
  <2>4. /\ net \subseteq net' /\ \A d \in net' : Upward(d, conv) => d \in net
        /\ conv \in DOMAIN map_conn' =>
             /\ conv \in DOMAIN map_conn
             /\ SameReader(map_conn'[conv], map_conn[conv], queue_msg'[Server], queue_msg[Server])
    BY <1>1 DEF QuietUp
  <2> QED
    BY <2>1, <2>2, <2>3, <2>4, UpStep
<1>2. ASSUME StreamDown(conv), QuietDown(conv) PROVE StreamDown(conv)'
  <2>1. PICK strm \in Seq(KeyedMsg) : DownStream(conv, strm)
    BY <1>2 DEF StreamDown
  <2>2. Extends(strm, strm) /\ Numbered(strm)
    BY <2>1 DEF Extends, DownStream
  <2>3. conv \in DOMAIN map_conn' => map_conn'[conv].out = strm
    BY <1>2, <2>1 DEF QuietDown, DownStream
  <2>4. /\ net \subseteq net' /\ \A d \in net' : Downward(d, conv) => d \in net
        /\ \A c \in Clients : Established(c, conv)' =>
             /\ Established(c, conv)
             /\ SameReader(conn'[c], conn[c], queue_msg'[c], queue_msg[c])
    BY <1>2 DEF QuietDown
  <2> QED
    BY <2>1, <2>2, <2>3, <2>4, DownStep
<1> QED
  BY <1>1, <1>2

(* d names c as the client of conv.                                        *)
Names(d, c, conv) ==
  \/ d.type = "snd_conv" /\ d.new_conv = conv /\ d.dst = c
  \/ d.type = "kcp" /\ d.conv = conv /\ c \in {d.src, d.dst}

(* A conv keeps its one client if the step brings none that it had not.    *)
LEMMA AddressKept ==
  ASSUME AddressInv,
         \A d \in net' : \/ d \in net
                         \/ IF d.src = Server THEN d.dst \in Clients ELSE d.dst = Server,
         \A conv \in DOMAIN map_conn' : map_conn'[conv].addr \in Clients,
         \A c \in Clients : conn'[c].addr = Server,
         \A c \in Clients, conv \in Convs :
           /\ Established(c, conv)' => Uses(c, conv)
           /\ conv \in DOMAIN map_conn' /\ map_conn'[conv].addr = c => Uses(c, conv)
           /\ \A d \in net' : d \in net \/ (Names(d, c, conv) => Uses(c, conv))
  PROVE  AddressInv'
<1>1. ASSUME NEW c \in Clients, NEW conv \in Convs, Uses(c, conv)' PROVE Uses(c, conv)
  <2>1. \A d \in net : Names(d, c, conv) => Uses(c, conv)
    BY DEF Names, Uses
  <2> QED
    BY <1>1, <2>1 DEF Names, Uses
<1>2. \A conv \in Convs : \A c1, c2 \in Clients : Uses(c1, conv)' /\ Uses(c2, conv)' => c1 = c2
  BY <1>1 DEF AddressInv
<1> QED
  BY <1>2 DEF AddressInv

(* Clients that are fresh were fresh, and have sent and delivered nothing  *)
(* since.                                                                  *)
LEMMA FreshKept ==
  ASSUME FreshInv,
         \A c \in Clients : pc'[c] = "created" \/ conn'[c].status = "REQ_CONN" =>
           /\ pc[c] = "created" \/ conn[c].status = "REQ_CONN"
           /\ queue_msg'[c] = queue_msg[c]
           /\ \A d \in net' : d \in net \/ (d.type = "kcp" => d.src # c)
  PROVE  FreshInv'
BY DEF FreshInv

(* Two Conns that are at the same place of the same connection.            *)
SameEnd(r, s) ==
  /\ SameConn(r, s) /\ r.out = s.out /\ r.inq = s.inq /\ r.rcv_nxt = s.rcv_nxt
  /\ r.addr = s.addr

(* Steps that make, touch and carry no message.                            *)
LEMMA StepQuiet ==
  ASSUME HandshakeInv, EndToEndInv, Grows, UNCHANGED queue_msg,
         \A c \in Clients : pc'[c] = "created" \/ conn'[c].status = "REQ_CONN" =>
           pc[c] = "created" \/ conn[c].status = "REQ_CONN",
         \A c \in Clients : \/ SameEnd(conn'[c], conn[c])
                            \/ conn'[c].status # "ESTABLISHED" /\ conn'[c].addr = Server,
         \A conv \in DOMAIN map_conn' :
           conv \in DOMAIN map_conn /\ SameEnd(map_conn'[conv], map_conn[conv]),
         \A d \in net' : d \in net \/ (d.type = "req_conn" /\ d.src # Server /\ d.dst = Server)
  PROVE  EndToEndInv'
<1>1. AddressInv /\ FreshInv /\ QueueInv /\ EndToEnd
  BY DEF EndToEndInv
<1>2. ASSUME NEW c \in Clients, NEW conv \in Convs, Established(c, conv)'
      PROVE  Established(c, conv) /\ SameEnd(conn'[c], conn[c])
  BY <1>2 DEF Established, SameEnd, SameConn
<1>3. AddressInv'
  <2>1. \A c \in Clients : conn'[c].addr = Server
    BY <1>1 DEF AddressInv, SameEnd
  <2>2. \A conv \in DOMAIN map_conn' : map_conn'[conv].addr \in Clients
    BY <1>1 DEF AddressInv, SameEnd
  <2>3. ASSUME NEW c \in Clients, NEW conv \in Convs
        PROVE  /\ Established(c, conv)' => Uses(c, conv)
               /\ conv \in DOMAIN map_conn' /\ map_conn'[conv].addr = c => Uses(c, conv)
               /\ \A d \in net' : d \in net \/ (Names(d, c, conv) => Uses(c, conv))
    <3>1. Established(c, conv)' => Uses(c, conv)
      BY <1>2 DEF Uses
    <3>2. conv \in DOMAIN map_conn' /\ map_conn'[conv].addr = c => Uses(c, conv)
      BY DEF Uses, SameEnd
    <3>3. \A d \in net' : d \in net \/ ~Names(d, c, conv)
      BY DEF Names
    <3> QED
      BY <3>1, <3>2, <3>3
  <2> QED
    BY <1>1, <2>1, <2>2, <2>3, AddressKept
<1>4. FreshInv'
  <2>1. \A d \in net' : d \in net \/ d.type # "kcp"
    OBVIOUS
  <2> QED
    BY <1>1, <2>1, FreshKept
<1>5. QueueInv' /\ EndToEnd'
  BY <1>1 DEF QueueInv, EndToEnd, Grows
<1>6. ASSUME NEW conv \in Convs PROVE StreamUp(conv)' /\ StreamDown(conv)'
  <2>1. StreamUp(conv) /\ StreamDown(conv)
    BY DEF EndToEndInv
  <2>2. \A d \in net' : Upward(d, conv) \/ Downward(d, conv) => d \in net
    BY DEF Upward, Downward
  <2>3. net \subseteq net'
    BY DEF Grows
  <2>4. QuietUp(conv)
    BY <1>2, <2>2, <2>3 DEF QuietUp, SameEnd, SameConn, SameReader
  <2>5. QuietDown(conv)
    BY <1>2, <2>2, <2>3 DEF QuietDown, SameEnd, SameConn, SameReader
  <2> QED
    BY <2>1, <2>4, <2>5, QuietKeeps
<1> QED
  BY <1>3, <1>4, <1>5, <1>6 DEF EndToEndInv

(* Steps that change neither a Conn nor the path.                          *)
LEMMA QuietIdle ==
  ASSUME HandshakeInv, EndToEndInv,
         UNCHANGED <<conn, map_conn, map_req_conn, issued_key, queue_msg, net>>,
         \A c \in Clients : pc'[c] = "created" => pc[c] = "created"
  PROVE  EndToEndInv'
<1>1. Grows
  BY DEF Grows
<1>2. \A s : SameEnd(s, s)
  BY DEF SameEnd, SameConn
<1> QED
  BY <1>1, <1>2, StepQuiet

(* The calls that only move the application on.                            *)
LEMMA QuietPc ==
  ASSUME HandshakeInv, EndToEndInv,
         \/ kcpuv_listen
         \/ \E c \in Clients : \/ connect_error(c) \/ connect_established(c)
                               \/ \E d \in net : on_recv_udp_no_conn(c, d)
         \/ \E h \in Hosts : kcpuv_recv(h)
  PROVE  EndToEndInv'
<1>1. pc \in [Hosts -> {"created", "connecting", "running", "failed", "destroyed", "crashed"}]
  BY DEF HandshakeInv, TypeOK
<1>2. UNCHANGED <<conn, map_conn, map_req_conn, issued_key, queue_msg, net>>
  BY DEF kcpuv_listen, connect_error, connect_established, on_recv_udp_no_conn, kcpuv_recv,
         clientVars, serverVars, msgVars
<1>3. \A c \in Clients : pc'[c] = "created" => pc[c] = "created"
  BY <1>1, Constants
  DEF kcpuv_listen, connect_error, connect_established, on_recv_udp_no_conn, kcpuv_recv
<1> QED
  BY <1>2, <1>3, QuietIdle

(* A client has no connection any more, or not yet.                        *)
LEMMA QuietClient ==
  ASSUME HandshakeInv, EndToEndInv, NEW c \in Clients,
         connect(c) \/ connect_timeout(c) \/ client_expire(c) \/ kcpuv_destroy_client(c)
  PROVE  EndToEndInv'
<1>1. TypeOK
  BY DEF HandshakeInv
<1>2. UNCHANGED <<map_conn, map_req_conn, issued_key, queue_msg, net>>
  BY DEF connect, connect_timeout, client_expire, kcpuv_destroy_client, serverVars, msgVars
<1>3. /\ \A x \in Clients \ {c} : conn'[x] = conn[x] /\ pc'[x] = pc[x]
      /\ conn'[c].status # "ESTABLISHED" /\ conn'[c].addr = Server
      /\ pc'[c] # "created"
      /\ conn'[c].status = "REQ_CONN" => pc[c] = "created"
  <2>1. CASE connect(c)
    <3>1. PICK n \in Nonces : conn' = [conn EXCEPT ![c] = prepare_req_conn(n)]
      BY <2>1 DEF connect
    <3>2. prepare_req_conn(n).status = "REQ_CONN" /\ prepare_req_conn(n).addr = Server
      BY DEF prepare_req_conn, NewConn
    <3> QED
      BY <1>1, <2>1, <3>1, <3>2, Constants DEF connect, TypeOK
  <2>2. CASE connect_timeout(c) \/ client_expire(c) \/ kcpuv_destroy_client(c)
    <3>1. conn' = [conn EXCEPT ![c] = NoConn]
      BY <2>2 DEF connect_timeout, client_expire, kcpuv_destroy_client
    <3>2. NoConn.status = "INVALID" /\ NoConn.addr = Server
      BY DEF NoConn, NewConn
    <3>3. pc'[c] # "created" /\ \A x \in Clients \ {c} : pc'[x] = pc[x]
      BY <1>1, <2>2, Constants DEF connect_timeout, client_expire, kcpuv_destroy_client, TypeOK
    <3> QED
      BY <1>1, <3>1, <3>2, <3>3 DEF TypeOK
  <2> QED
    BY <2>1, <2>2
<1>4. Grows
  BY <1>2 DEF Grows
<1>5. \A s : SameEnd(s, s)
  BY DEF SameEnd, SameConn
<1> QED
  BY <1>2, <1>3, <1>4, <1>5, StepQuiet

(* A request goes out.                                                     *)
LEMMA QuietRequest ==
  ASSUME HandshakeInv, EndToEndInv, NEW c \in Clients, req_conn_run(c)
  PROVE  EndToEndInv'
<1>1. TypeOK /\ conn[c] \in Conn /\ c # Server
  BY ConnFacts, KcpuvAssumption DEF HandshakeInv
<1>2. UNCHANGED <<pc, map_conn, map_req_conn, issued_key, queue_msg>>
  BY DEF req_conn_run, serverVars, msgVars
<1>3. /\ \A x \in Clients \ {c} : conn'[x] = conn[x]
      /\ SameEnd(conn'[c], conn[c])
  BY <1>1 DEF req_conn_run, TypeOK, SameEnd, SameConn, Conn
<1>4. net' = net \cup {ReqConn(c, conn[c].n)}
  BY DEF req_conn_run, Send
<1>5. \A d \in net' : d \in net \/ (d.type = "req_conn" /\ d.src # Server /\ d.dst = Server)
  BY <1>1, <1>4 DEF ReqConn
<1>6. Grows
  BY <1>2, <1>4 DEF Grows
<1>7. \A s : SameEnd(s, s)
  BY DEF SameEnd, SameConn
<1>8. \A x \in Clients : pc'[x] = "created" \/ conn'[x].status = "REQ_CONN" =>
        pc[x] = "created" \/ conn[x].status = "REQ_CONN"
  BY <1>2, <1>3 DEF SameEnd, SameConn
<1>9. \A x \in Clients : SameEnd(conn'[x], conn[x])
  BY <1>3, <1>7
<1> QED
  BY <1>2, <1>5, <1>6, <1>7, <1>8, <1>9, StepQuiet

(* The server's connections are deleted.                                   *)
LEMMA QuietServerGone ==
  ASSUME HandshakeInv, EndToEndInv,
         kcpuv_destroy_server \/ \E conv \in Convs : server_expire(conv)
  PROVE  EndToEndInv'
<1>1. TypeOK
  BY DEF HandshakeInv
<1>2. \A x \in DOMAIN map_conn' : x \in DOMAIN map_conn /\ map_conn'[x] = map_conn[x]
  <2>1. CASE kcpuv_destroy_server
    <3>1. DOMAIN map_conn' = {}
      BY <2>1 DEF kcpuv_destroy_server
    <3> QED
      BY <3>1
  <2>2. CASE \E conv \in Convs : server_expire(conv)
    <3>1. PICK conv \in Convs : server_expire(conv)
      BY <2>2
    <3>2. map_conn' = [x \in DOMAIN map_conn \ {conv} |-> map_conn[x]]
      BY <3>1 DEF server_expire
    <3> QED
      BY <3>2
  <2> QED
    BY <2>1, <2>2
<1>3. UNCHANGED <<conn, map_req_conn, issued_key, queue_msg, net>>
  BY DEF kcpuv_destroy_server, server_expire, clientVars, msgVars
<1>4. \A c \in Clients : pc'[c] = pc[c]
  BY <1>1, KcpuvAssumption, Constants DEF kcpuv_destroy_server, server_expire, TypeOK
<1>5. Grows
  BY <1>3 DEF Grows
<1>6. \A s : SameEnd(s, s)
  BY DEF SameEnd, SameConn
<1> QED
  BY <1>2, <1>3, <1>4, <1>5, <1>6, StepQuiet

(* Time passes.                                                            *)
LEMMA QuietTick ==
  ASSUME HandshakeInv, EndToEndInv, Tick
  PROVE  EndToEndInv'
<1>1. UNCHANGED <<pc, map_req_conn, issued_key, queue_msg, net>>
  BY DEF Tick, msgVars
<1>2. \A c \in Clients : SameEnd(conn'[c], conn[c])
  BY ConnFacts, LaterType DEF Tick, SameEnd
<1>3. \A conv \in DOMAIN map_conn' :
        conv \in DOMAIN map_conn /\ SameEnd(map_conn'[conv], map_conn[conv])
  BY ConnFacts, LaterType DEF Tick, SameEnd
<1>4. Grows
  BY <1>1 DEF Grows
<1>5. \A c \in Clients : pc'[c] = "created" \/ conn'[c].status = "REQ_CONN" =>
        pc[c] = "created" \/ conn[c].status = "REQ_CONN"
  BY <1>1, <1>2 DEF SameEnd, SameConn
<1> QED
  BY <1>1, <1>2, <1>3, <1>4, <1>5, StepQuiet

(* The client takes a segment.                                             *)
LEMMA StreamClientTakes ==
  ASSUME HandshakeInv, EndToEndInv, NEW c \in Clients, NEW d \in net,
         on_recv_udp_client(c, d), conn[c].status # "REQ_CONN"
  PROVE  EndToEndInv'
<1> DEFINE s == conn[c]
           r == on_recv_udp(s, d)
<1>1. /\ TypeOK /\ s \in Conn /\ d \in Datagram /\ d.dst = c /\ c # Server
      /\ AddressInv /\ FreshInv /\ QueueInv /\ EndToEnd
  BY ConnFacts, KcpuvAssumption DEF HandshakeInv, EndToEndInv, TypeOK, on_recv_udp_client
<1>2. d.src = Server
  BY <1>1 DEF AddressInv
<1>3. UNCHANGED <<pc, map_conn, map_req_conn, issued_key, queue_msg, net>>
  BY DEF on_recv_udp_client, serverVars, msgVars
<1>4. conn'[c] = r /\ \A x \in Clients \ {c} : conn'[x] = conn[x]
  BY <1>1 DEF on_recv_udp_client, TypeOK
<1>5. SameConn(r, s) /\ r.out = s.out /\ r.addr = Server
  BY <1>1, <1>2, OnRecvUdpType
<1> HIDE DEF r
<1>6. \A x \in Clients, conv \in Convs :
        Established(x, conv)' => Established(x, conv) /\ conn'[x].out = conn[x].out
  BY <1>4, <1>5 DEF Established, SameConn
<1>7. AddressInv'
  <2>1. \A x \in Clients : conn'[x].addr = Server
    BY <1>1, <1>4, <1>5 DEF AddressInv
  <2>2. \A x \in Clients, conv \in Convs :
          /\ Established(x, conv)' => Uses(x, conv)
          /\ conv \in DOMAIN map_conn' /\ map_conn'[conv].addr = x => Uses(x, conv)
    BY <1>3, <1>6 DEF Uses
  <2> QED
    BY <1>1, <1>3, <2>1, <2>2, AddressKept DEF AddressInv
<1>8. FreshInv'
  BY <1>1, <1>3, <1>4, <1>5 DEF FreshInv, SameConn
<1>9. QueueInv' /\ EndToEnd'
  BY <1>1, <1>3 DEF QueueInv, EndToEnd
<1>10. ASSUME NEW conv \in Convs PROVE StreamUp(conv)' /\ StreamDown(conv)'
  <2>1. StreamUp(conv) /\ StreamDown(conv)
    BY DEF EndToEndInv
  <2>2. QuietUp(conv)
    BY <1>3, <1>6 DEF QuietUp, SameReader
  <2>3. PICK strm \in Seq(KeyedMsg) : DownStream(conv, strm)
    BY <2>1 DEF StreamDown
  <2>4. Extends(strm, strm) /\ Numbered(strm)
    BY <2>3 DEF Extends, DownStream
  <2>5. conv \in DOMAIN map_conn' => map_conn'[conv].out = strm
    BY <1>3, <2>3 DEF DownStream
  <2>6. ASSUME NEW x \in Clients, Established(x, conv)'
        PROVE  \/ /\ Established(x, conv)
                  /\ SameReader(conn'[x], conn[x], queue_msg'[x], queue_msg[x])
               \/ Reads(conn'[x], queue_msg'[x], strm)
    <3>1. Established(x, conv)
      BY <1>6, <2>6
    <3>2. CASE x # c
      BY <1>3, <1>4, <3>1, <3>2 DEF SameReader
    <3>3. CASE x = c
      <4>1. Reads(s, queue_msg[c], strm)
        BY <2>3, <3>1, <3>3 DEF DownStream
      <4>2. Takes(s, d) => Carried(d, strm)
        BY <1>1, <2>3, <3>1, <3>3 DEF Takes, Established, DownStream, Downward
      <4>3. Reads(r, queue_msg[c], strm)
        BY <1>1, <4>1, <4>2, ReadsTakes DEF r
      <4> QED
        BY <1>3, <1>4, <3>3, <4>3
    <3> QED
      BY <3>2, <3>3
  <2>7. StreamDown(conv)'
    BY <1>3, <2>3, <2>4, <2>5, <2>6, DownStep
  <2> QED
    BY <2>1, <2>2, <2>7, QuietKeeps
<1> QED
  BY <1>7, <1>8, <1>9, <1>10 DEF EndToEndInv

(* kcpuv_send appends one message to a numbered stream.                    *)
LEMMA SentNumbered ==
  ASSUME NEW s \in Conn, s.n \in Nonces, Numbered(s.out), NEW body \in Bodies(s)
  PROVE  LET r == send_kcp(s, body)
         IN /\ r.out \in Seq(KeyedMsg) /\ Extends(r.out, s.out) /\ Numbered(r.out)
            /\ SameConn(r, s) /\ r.inq = s.inq /\ r.rcv_nxt = s.rcv_nxt /\ r.addr = s.addr
<1> DEFINE r == send_kcp(s, body)
<1>1. s.out \in Seq(KeyedMsg) /\ Len(s.out) \in Nat
  BY DEF Conn
<1>2. NextBody(s) = [n |-> s.n, i |-> SentUpTo(s.out, Len(s.out)) + 1]
  BY DEF NextBody, SentUpTo
<1>3. SentUpTo(s.out, Len(s.out)) \in Nat
  BY <1>1, SentNext
<1>4. body \in Body /\ (body = Empty \/ body.i = SentUpTo(s.out, Len(s.out)) + 1)
  BY <1>2, <1>3, Constants DEF Bodies, Body
<1>5. /\ r \in Conn /\ SameConn(r, s) /\ r.inq = s.inq /\ r.addr = s.addr
      /\ r.rcv_nxt = s.rcv_nxt
      /\ Len(r.out) = Len(s.out) + 1
      /\ \A i \in 1..Len(s.out) : r.out[i] = s.out[i]
      /\ r.out[Len(s.out) + 1] = Msg(s.key, body)
  BY <1>4, SendKcpType
<1> HIDE DEF r
<1>6. r.out \in Seq(KeyedMsg) /\ Extends(r.out, s.out)
  BY <1>1, <1>5 DEF Conn, Extends
<1>7. r.out[Len(r.out)].body = body
  BY <1>5 DEF Msg
<1>8. \A k \in (Len(s.out) + 1)..Len(r.out) : k = Len(r.out)
  BY <1>1, <1>5
<1>9. Numbered(r.out)
  BY <1>1, <1>4, <1>5, <1>6, <1>7, <1>8, NumberedExtends
<1> QED
  BY <1>5, <1>6, <1>9 DEF r

(* kcpuv_send on a client: its stream goes on.                             *)
LEMMA StreamClientSend ==
  ASSUME HandshakeInv, EndToEndInv, NEW c \in Clients, kcpuv_send_client(c)
  PROVE  EndToEndInv'
<1> DEFINE s == conn[c]
<1>1. /\ TypeOK /\ s \in Conn /\ s.status = "ESTABLISHED" /\ s.n \in Nonces /\ s.conv \in Convs
      /\ AddressInv /\ FreshInv /\ QueueInv /\ EndToEnd
  BY ConnFacts DEF HandshakeInv, EndToEndInv, kcpuv_send_client
<1>2. PICK body \in Bodies(s) : conn' = [conn EXCEPT ![c] = send_kcp(s, body)]
  BY DEF kcpuv_send_client
<1> DEFINE r == send_kcp(s, body)
<1>3. PICK strm \in Seq(KeyedMsg) : UpStream(s.conv, strm)
  BY <1>1 DEF EndToEndInv, StreamUp
<1>4. s.out = strm /\ Numbered(s.out)
  BY <1>1, <1>3 DEF UpStream, Established
<1>5. /\ r.out \in Seq(KeyedMsg) /\ Extends(r.out, s.out) /\ Numbered(r.out)
      /\ SameConn(r, s) /\ r.inq = s.inq /\ r.rcv_nxt = s.rcv_nxt /\ r.addr = s.addr
  BY <1>1, <1>4, SentNumbered
<1>6. conn'[c] = r /\ \A x \in Clients \ {c} : conn'[x] = conn[x]
  BY <1>1, <1>2 DEF TypeOK
<1> HIDE DEF r
<1>7. UNCHANGED <<pc, map_conn, map_req_conn, issued_key, queue_msg, net>>
  BY DEF kcpuv_send_client, serverVars, msgVars
<1>8. ASSUME NEW x \in Clients, NEW conv \in Convs, Established(x, conv)'
      PROVE  /\ Established(x, conv)
             /\ conv # s.conv => conn'[x].out = conn[x].out
             /\ conv = s.conv => conn'[x].out = r.out
             /\ SameReader(conn'[x], conn[x], queue_msg'[x], queue_msg[x])
  <2>1. Established(x, conv)
    BY <1>5, <1>6, <1>8 DEF Established, SameConn
  <2>2. conv = s.conv => x = c
    BY <1>1, <2>1 DEF AddressInv, Uses, Established
  <2>3. x = c => conv = s.conv
    BY <2>1 DEF Established
  <2> QED
    BY <1>5, <1>6, <1>7, <2>1, <2>2, <2>3 DEF SameReader, SameConn
<1>9. AddressInv'
  <2>1. \A x \in Clients : conn'[x].addr = Server
    BY <1>1, <1>5, <1>6 DEF AddressInv
  <2>2. \A x \in Clients, conv \in Convs :
          /\ Established(x, conv)' => Uses(x, conv)
          /\ conv \in DOMAIN map_conn' /\ map_conn'[conv].addr = x => Uses(x, conv)
    BY <1>7, <1>8 DEF Uses
  <2> QED
    BY <1>1, <1>7, <2>1, <2>2, AddressKept DEF AddressInv
<1>10. FreshInv'
  BY <1>1, <1>5, <1>6, <1>7 DEF FreshInv, SameConn
<1>11. QueueInv' /\ EndToEnd'
  BY <1>1, <1>7 DEF QueueInv, EndToEnd
<1>12. ASSUME NEW conv \in Convs PROVE StreamUp(conv)' /\ StreamDown(conv)'
  <2>1. StreamUp(conv) /\ StreamDown(conv)
    BY DEF EndToEndInv
  <2>2. QuietDown(conv)
    BY <1>7, <1>8 DEF QuietDown
  <2>3. CASE conv # s.conv
    <3>1. QuietUp(conv)
      BY <1>7, <1>8, <2>3 DEF QuietUp, SameReader
    <3> QED
      BY <2>1, <2>2, <3>1, QuietKeeps
  <2>4. CASE conv = s.conv
    <3>1. \A x \in Clients : Established(x, conv)' => conn'[x].out = r.out
      BY <1>8, <2>4
    <3>2. conv \in DOMAIN map_conn' =>
            /\ conv \in DOMAIN map_conn
            /\ SameReader(map_conn'[conv], map_conn[conv], queue_msg'[Server], queue_msg[Server])
      BY <1>7 DEF SameReader
    <3>3. StreamUp(conv)'
      BY <1>3, <1>4, <1>5, <1>7, <2>4, <3>1, <3>2, UpStep
    <3> QED
      BY <2>1, <2>2, <3>3, QuietKeeps
  <2> QED
    BY <2>3, <2>4
<1> QED
  BY <1>9, <1>10, <1>11, <1>12 DEF EndToEndInv

(* The server takes a segment, and its sender's address.                   *)
LEMMA StreamServerTakes ==
  ASSUME HandshakeInv, EndToEndInv, NEW d \in net, on_recv_udp_server(d)
  PROVE  EndToEndInv'
<1> DEFINE s == map_conn[d.conv]
           r == on_recv_udp(s, d)
<1>1. /\ TypeOK /\ d \in Datagram /\ d.type = "kcp" /\ d.dst = Server
      /\ d.conv \in DOMAIN map_conn /\ d.conv \in Convs
      /\ AddressInv /\ FreshInv /\ QueueInv /\ EndToEnd
  BY DEF HandshakeInv, EndToEndInv, TypeOK, on_recv_udp_server, get_conn_by_conv
<1>2. s \in Conn /\ s.conv = d.conv
  BY <1>1, ConnFacts
<1>3. d.src \in Clients
  BY <1>1, KcpuvAssumption DEF AddressInv, Datagram, Hosts
<1>4. UNCHANGED <<pc, conn, map_req_conn, issued_key, queue_msg, net>>
  BY DEF on_recv_udp_server, clientVars, msgVars
<1>5. /\ DOMAIN map_conn' = DOMAIN map_conn /\ map_conn'[d.conv] = r
      /\ \A x \in DOMAIN map_conn \ {d.conv} : map_conn'[x] = map_conn[x]
  BY <1>1 DEF on_recv_udp_server
<1>6. SameConn(r, s) /\ r.out = s.out /\ r.addr = d.src
  BY <1>1, <1>2, OnRecvUdpType
<1> HIDE DEF r
<1>7. Uses(d.src, d.conv)
  BY <1>1 DEF Uses
<1>8. AddressInv'
  <2>1. \A x \in DOMAIN map_conn' : map_conn'[x].addr \in Clients
    BY <1>1, <1>3, <1>5, <1>6 DEF AddressInv
  <2>2. \A x \in Clients, conv \in Convs :
          /\ Established(x, conv)' => Uses(x, conv)
          /\ conv \in DOMAIN map_conn' /\ map_conn'[conv].addr = x => Uses(x, conv)
    <3> TAKE x \in Clients, conv \in Convs
    <3>1. Established(x, conv)' => Uses(x, conv)
      BY <1>4 DEF Uses, Established
    <3>2. CASE conv = d.conv
      BY <1>5, <1>6, <1>7, <3>1, <3>2
    <3>3. CASE conv # d.conv
      BY <1>5, <3>1, <3>3 DEF Uses
    <3> QED
      BY <3>2, <3>3
  <2>3. \A x \in Clients : conn'[x].addr = Server
    BY <1>1, <1>4 DEF AddressInv
  <2> QED
    BY <1>1, <1>4, <2>1, <2>2, <2>3, AddressKept
<1>9. FreshInv'
  BY <1>1, <1>4 DEF FreshInv
<1>10. QueueInv' /\ EndToEnd'
  BY <1>1, <1>4 DEF QueueInv, EndToEnd
<1>11. ASSUME NEW conv \in Convs PROVE StreamUp(conv)' /\ StreamDown(conv)'
  <2>1. StreamUp(conv) /\ StreamDown(conv)
    BY DEF EndToEndInv
  <2>2. QuietDown(conv)
    <3>1. conv \in DOMAIN map_conn' =>
            conv \in DOMAIN map_conn /\ map_conn'[conv].out = map_conn[conv].out
      BY <1>5, <1>6
    <3> QED
      BY <1>4, <3>1 DEF QuietDown, Established, SameReader
  <2>3. PICK strm \in Seq(KeyedMsg) : UpStream(conv, strm)
    BY <2>1 DEF StreamUp
  <2>4. Extends(strm, strm) /\ Numbered(strm)
    BY <2>3 DEF Extends, UpStream
  <2>5. \A c \in Clients : Established(c, conv)' => conn'[c].out = strm
    BY <1>4, <2>3 DEF UpStream, Established
  <2>6. ASSUME conv \in DOMAIN map_conn'
        PROVE  \/ /\ conv \in DOMAIN map_conn
                  /\ SameReader(map_conn'[conv], map_conn[conv], queue_msg'[Server], queue_msg[Server])
               \/ /\ Reads(map_conn'[conv], queue_msg'[Server], strm)
                  /\ map_conn'[conv].rcv_nxt > 0 => \E u \in net' : Upward(u, conv)
    <3>1. CASE conv # d.conv
      BY <1>4, <1>5, <2>6, <3>1 DEF SameReader
    <3>2. CASE conv = d.conv
      <4>1. Reads(s, queue_msg[Server], strm)
        BY <1>1, <2>3, <3>2 DEF UpStream
      <4>2. Upward(d, conv) /\ Carried(d, strm)
        BY <1>1, <2>3, <3>2 DEF UpStream, Upward
      <4>3. Reads(r, queue_msg[Server], strm)
        BY <1>1, <1>2, <4>1, <4>2, ReadsTakes DEF r
      <4> QED
        BY <1>4, <1>5, <3>2, <4>2, <4>3
    <3> QED
      BY <3>1, <3>2
  <2>7. StreamUp(conv)'
    BY <1>4, <2>3, <2>4, <2>5, <2>6, UpStep
  <2> QED
    BY <2>1, <2>2, <2>7, QuietKeeps
<1> QED
  BY <1>8, <1>9, <1>10, <1>11 DEF EndToEndInv

(* kcpuv_send on the server: that connection's stream goes on.             *)
LEMMA StreamServerSend ==
  ASSUME HandshakeInv, EndToEndInv, NEW v \in Convs, kcpuv_send_server(v)
  PROVE  EndToEndInv'
<1> DEFINE s == map_conn[v]
<1>1. /\ v \in DOMAIN map_conn /\ AddressInv /\ FreshInv /\ QueueInv /\ EndToEnd
  BY DEF EndToEndInv, kcpuv_send_server, get_conn_by_conv
<1>2. s \in Conn /\ s.n \in Nonces
  BY <1>1, ConnFacts
<1>3. PICK body \in Bodies(s) : map_conn' = [map_conn EXCEPT ![v] = send_kcp(s, body)]
  BY DEF kcpuv_send_server
<1> DEFINE r == send_kcp(s, body)
<1>4. PICK strm \in Seq(KeyedMsg) : DownStream(v, strm)
  BY DEF EndToEndInv, StreamDown
<1>5. s.out = strm /\ Numbered(s.out)
  BY <1>1, <1>4 DEF DownStream
<1>6. /\ r.out \in Seq(KeyedMsg) /\ Extends(r.out, s.out) /\ Numbered(r.out)
      /\ SameConn(r, s) /\ r.inq = s.inq /\ r.rcv_nxt = s.rcv_nxt /\ r.addr = s.addr
  BY <1>2, <1>5, SentNumbered
<1>7. /\ DOMAIN map_conn' = DOMAIN map_conn /\ map_conn'[v] = r
      /\ \A x \in DOMAIN map_conn \ {v} : map_conn'[x] = map_conn[x]
  BY <1>1, <1>3
<1> HIDE DEF r
<1>8. UNCHANGED <<pc, conn, map_req_conn, issued_key, queue_msg, net>>
  BY DEF kcpuv_send_server, clientVars, msgVars
<1>9. \A x \in DOMAIN map_conn :
        /\ map_conn'[x].addr = map_conn[x].addr
        /\ SameReader(map_conn'[x], map_conn[x], queue_msg'[Server], queue_msg[Server])
  BY <1>6, <1>7, <1>8 DEF SameReader, SameConn
<1>10. AddressInv'
  <2>1. \A x \in DOMAIN map_conn' : map_conn'[x].addr \in Clients
    BY <1>1, <1>7, <1>9 DEF AddressInv
  <2>2. \A x \in Clients, conv \in Convs :
          /\ Established(x, conv)' => Uses(x, conv)
          /\ conv \in DOMAIN map_conn' /\ map_conn'[conv].addr = x => Uses(x, conv)
    BY <1>7, <1>8, <1>9 DEF Uses, Established
  <2>3. \A x \in Clients : conn'[x].addr = Server
    BY <1>1, <1>8 DEF AddressInv
  <2> QED
    BY <1>1, <1>8, <2>1, <2>2, <2>3, AddressKept
<1>11. FreshInv'
  BY <1>1, <1>8 DEF FreshInv
<1>12. QueueInv' /\ EndToEnd'
  BY <1>1, <1>8 DEF QueueInv, EndToEnd
<1>13. ASSUME NEW conv \in Convs PROVE StreamUp(conv)' /\ StreamDown(conv)'
  <2>1. StreamUp(conv) /\ StreamDown(conv)
    BY DEF EndToEndInv
  <2>2. QuietUp(conv)
    BY <1>7, <1>8, <1>9 DEF QuietUp, Established
  <2>3. \A c \in Clients : Established(c, conv)' =>
          /\ Established(c, conv)
          /\ SameReader(conn'[c], conn[c], queue_msg'[c], queue_msg[c])
    BY <1>8 DEF Established, SameReader
  <2>4. CASE conv # v
    <3>1. QuietDown(conv)
      BY <1>7, <1>8, <2>3, <2>4 DEF QuietDown
    <3> QED
      BY <2>1, <2>2, <3>1, QuietKeeps
  <2>5. CASE conv = v
    <3>1. StreamDown(conv)'
      BY <1>4, <1>5, <1>6, <1>7, <1>8, <2>3, <2>5, DownStep
    <3> QED
      BY <2>1, <2>2, <3>1, QuietKeeps
  <2> QED
    BY <2>4, <2>5
<1> QED
  BY <1>10, <1>11, <1>12, <1>13 DEF EndToEndInv

(* The client adopts the offer: nobody has sent on that conv before, and   *)
(* its stream begins with the ack of the offer.                            *)
LEMMA StreamOffer ==
  ASSUME HandshakeInv, EndToEndInv, NEW c \in Clients, NEW d \in net,
         on_recv_udp_client(c, d), conn[c].status = "REQ_CONN",
         d.type = "snd_conv", d.n = conn[c].n
  PROVE  EndToEndInv'
<1> DEFINE v == d.new_conv
<1>0. /\ v \in Convs /\ conn'[c] \in Conn
      /\ \A x \in Clients \ {c} : conn'[x] = conn[x]
      /\ conn'[c].conv = v /\ conn'[c].status = "ESTABLISHED" /\ conn'[c].addr = conn[c].addr
      /\ conn'[c].inq = << >> /\ conn'[c].rcv_nxt = 0
      /\ Len(conn'[c].out) = 1 /\ conn'[c].out[1] = Msg(d.key, Empty)
  BY OfferAdopted
<1>1. PICK r \in Conn :
        /\ v \in Convs /\ conn'[c] = r
        /\ \A x \in Clients \ {c} : conn'[x] = conn[x]
        /\ r.conv = v /\ r.status = "ESTABLISHED" /\ r.addr = conn[c].addr
        /\ r.inq = << >> /\ r.rcv_nxt = 0
        /\ Len(r.out) = 1 /\ r.out[1].body = Empty
  BY <1>0 DEF Msg
<1>2. /\ TypeOK /\ net \subseteq Datagram
      /\ AddressInv /\ FreshInv /\ QueueInv /\ EndToEnd /\ d.dst = c /\ Server \notin Clients
  BY KcpuvAssumption DEF HandshakeInv, TypeOK, EndToEndInv, on_recv_udp_client
<1>3. UNCHANGED <<pc, map_conn, map_req_conn, issued_key, queue_msg, net>>
  BY DEF on_recv_udp_client, serverVars, msgVars
<1>4. Uses(c, v)
  BY <1>2 DEF Uses
<1>5. \A x \in Clients : Uses(x, v) => x = c
  BY <1>1, <1>2, <1>4 DEF AddressInv
<1>6. \A x \in Clients : ~Established(x, v)
  BY <1>5 DEF Uses, Established
<1>7. \A u \in net : ~Upward(u, v)
  <2> SUFFICES ASSUME NEW u \in net, Upward(u, v) PROVE FALSE
    OBVIOUS
  <2>1. u.type = "kcp" /\ u.conv = v /\ u.dst = Server /\ u.src \in Hosts
    BY <1>2 DEF Upward, Datagram, Hosts
  <2>2. u.src \in Clients
    BY <1>2, <2>1 DEF AddressInv, Hosts
  <2>3. Uses(u.src, v)
    BY <2>1 DEF Uses
  <2>4. u.src = c
    BY <1>5, <2>2, <2>3
  <2> QED
    BY <1>2, <2>1, <2>4 DEF FreshInv
<1>8. ASSUME NEW x \in Clients, NEW conv \in Convs, Established(x, conv)'
      PROVE  IF x = c THEN conv = v ELSE conv # v /\ Established(x, conv) /\ conn'[x] = conn[x]
  <2>1. CASE x = c
    BY <1>1, <1>8, <2>1 DEF Established
  <2>2. CASE x # c
    BY <1>1, <1>6, <1>8, <2>2 DEF Established
  <2> QED
    BY <2>1, <2>2
<1>9. AddressInv'
  <2>1. \A x \in Clients : conn'[x].addr = Server
    BY <1>1, <1>2 DEF AddressInv
  <2>2. \A x \in Clients, conv \in Convs : Established(x, conv)' => Uses(x, conv)
    BY <1>4, <1>8 DEF Uses
  <2>3. \A x \in Clients, conv \in Convs :
          conv \in DOMAIN map_conn' /\ map_conn'[conv].addr = x => Uses(x, conv)
    BY <1>3 DEF Uses
  <2>4. \A x \in DOMAIN map_conn' : map_conn'[x].addr \in Clients
    BY <1>2, <1>3 DEF AddressInv
  <2> QED
    BY <1>2, <1>3, <2>1, <2>2, <2>3, <2>4, AddressKept
<1>10. FreshInv'
  BY <1>1, <1>2, <1>3 DEF FreshInv
<1>11. QueueInv' /\ EndToEnd'
  BY <1>2, <1>3 DEF QueueInv, EndToEnd
<1>12. \A q, strm : SentUpTo(strm, 0) = 0 /\ GotUpTo(q, r.n, 0) = 0
  BY SentNext, GotNext
<1>13. StreamUp(v)'
  <2>1. PICK strm \in Seq(KeyedMsg) : UpStream(v, strm)
    BY <1>1 DEF EndToEndInv, StreamUp
  <2>2. r.out \in Seq(KeyedMsg)
    BY <1>1 DEF Conn
  <2>3. Numbered(r.out)
    BY <1>1 DEF Numbered
  <2>4. ASSUME v \in DOMAIN map_conn
        PROVE  /\ Reads(map_conn[v], queue_msg[Server], r.out)
               /\ ~(map_conn[v].rcv_nxt > 0)
    <3> DEFINE s == map_conn[v]
    <3>1. s \in Conn
      BY <2>4, ConnFacts
    <3>2. s.rcv_nxt \in Nat /\ Len(s.inq) \in Nat
      <4> HIDE DEF s
      <4>1. s.rcv_nxt \in Nat /\ s.inq \in Seq(KeyedMsg)
        BY <3>1 DEF Conn
      <4> QED
        BY <4>1
    <3>3. Reads(s, queue_msg[Server], strm) /\ ~(s.rcv_nxt > 0)
      BY <1>7, <2>1, <2>4 DEF UpStream
    <3>4. s.rcv_nxt = 0 /\ Len(s.inq) = 0
      BY <3>2, <3>3 DEF Reads
    <3>5. s.rcv_nxt - Len(s.inq) = 0 /\ \A i \in 1..Len(s.inq) : FALSE
      BY <3>4
    <3>6. GotUpTo(queue_msg[Server], s.n, Len(queue_msg[Server])) = 0
      BY <1>12, <3>3, <3>5 DEF Reads
    <3> QED
      BY <1>1, <1>12, <3>3, <3>4, <3>5, <3>6 DEF Reads
  <2>5. \A x \in Clients : Established(x, v)' => conn'[x].out = r.out
    BY <1>1, <1>8
  <2>6. UpStream(v, r.out)'
    BY <1>3, <1>7, <2>3, <2>4, <2>5 DEF UpStream, Upward
  <2> QED
    BY <2>2, <2>6 DEF StreamUp
<1>14. StreamDown(v)'
  <2>1. PICK strm \in Seq(KeyedMsg) : DownStream(v, strm)
    BY <1>1 DEF EndToEndInv, StreamDown
  <2>2. Extends(strm, strm) /\ Numbered(strm) /\ Len(strm) \in Nat
    BY <2>1 DEF Extends, DownStream
  <2>3. queue_msg[c] = << >> /\ Len(queue_msg[c]) = 0
    BY <1>2 DEF FreshInv
  <2>4. Len(r.inq) = 0 /\ r.rcv_nxt - Len(r.inq) = 0 /\ \A i \in 1..Len(r.inq) : FALSE
    <3>1. Len(r.inq) = 0 /\ r.rcv_nxt = 0
      BY <1>1
    <3> QED
      BY <3>1
  <2>5. GotUpTo(queue_msg[c], r.n, Len(queue_msg[c])) = SentUpTo(strm, 0)
    BY <1>12, <2>3
  <2>6. Reads(r, queue_msg[c], strm)
    BY <1>1, <2>2, <2>4, <2>5 DEF Reads
  <2>7. \A x \in Clients : Established(x, v)' => Reads(conn'[x], queue_msg'[x], strm)
    BY <1>1, <1>3, <1>8, <2>6
  <2>8. v \in DOMAIN map_conn' => map_conn'[v].out = strm
    BY <1>3, <2>1 DEF DownStream
  <2> QED
    BY <1>1, <1>3, <2>1, <2>2, <2>7, <2>8, DownStep
<1>15. ASSUME NEW conv \in Convs, conv # v PROVE StreamUp(conv)' /\ StreamDown(conv)'
  <2>1. StreamUp(conv) /\ StreamDown(conv)
    BY DEF EndToEndInv
  <2>2. \A x \in Clients : Established(x, conv)' => Established(x, conv) /\ conn'[x] = conn[x]
    BY <1>8, <1>15
  <2>3. QuietUp(conv) /\ QuietDown(conv)
    BY <1>3, <2>2 DEF QuietUp, QuietDown, SameReader
  <2> QED
    BY <2>1, <2>3, QuietKeeps
<1> QED
  BY <1>9, <1>10, <1>11, <1>13, <1>14, <1>15 DEF EndToEndInv

(* Whatever reaches a client.                                              *)
LEMMA StreamClientRecv ==
  ASSUME HandshakeInv, EndToEndInv, NEW c \in Clients, NEW d \in net, on_recv_udp_client(c, d)
  PROVE  EndToEndInv'
<1>1. CASE conn[c].status = "REQ_CONN" /\ d.type = "snd_conv" /\ d.n = conn[c].n
  BY <1>1, StreamOffer
<1>2. CASE conn[c].status = "REQ_CONN" /\ ~(d.type = "snd_conv" /\ d.n = conn[c].n)
  <2>1. conn' = conn
    BY <1>2 DEF on_recv_udp_client, on_recv_udp_snd_conv, HandshakeInv, TypeOK
  <2>2. UNCHANGED <<pc, map_conn, map_req_conn, issued_key, queue_msg, net>>
    BY DEF on_recv_udp_client, serverVars, msgVars
  <2> QED
    BY <2>1, <2>2, QuietIdle
<1>3. CASE conn[c].status # "REQ_CONN"
  BY <1>3, StreamClientTakes
<1> QED
  BY <1>1, <1>2, <1>3

(* Without a second use of conv, what is found under it has its key.       *)
LEMMA OwnKey ==
  ASSUME HandshakeInv, ~ConvReuse, NEW s, Served(s.n, s.conv, s.key),
         NEW m, Genuine(s.conv, m)
  PROVE  m.key = s.key
<1>1. PICK n \in Nonces : Served(n, s.conv, m.key)
  BY DEF Genuine
<1>2. n = s.n
  BY <1>1 DEF HandshakeInv, Injective, Served
<1> QED
  BY <1>1, <1>2 DEF Served

(* Conn::run hands over what follows in the stream.                        *)
LEMMA HandsOver ==
  ASSUME HandshakeInv, EndToEnd, ~ConvReuse, NEW h \in Hosts, NEW s \in Conn,
         s.conv \in Convs, s.n \in Nonces, push_msg(h, s), Served(s.n, s.conv, s.key),
         \A i \in 1..Len(s.inq) : Genuine(s.conv, s.inq[i]),
         NEW strm \in Seq(KeyedMsg), Reads(s, queue_msg[h], strm), Numbered(strm),
         NEW r, r.rcv_nxt = s.rcv_nxt, r.inq = << >>, r.n = s.n
  PROVE  /\ EndToEnd' /\ Reads(r, queue_msg'[h], strm)
         /\ \A g \in Hosts \ {h} : queue_msg'[g] = queue_msg[g]
         /\ \A k \in 1..Len(queue_msg'[h]) :
              \/ k \in 1..Len(queue_msg[h]) /\ queue_msg'[h][k] = queue_msg[h][k]
              \/ queue_msg'[h][k].n = s.n
         /\ \A other : other # s.n =>
              GotUpTo(queue_msg'[h], other, Len(queue_msg'[h])) =
                GotUpTo(queue_msg[h], other, Len(queue_msg[h]))
<1>1. queue_msg \in [Hosts -> Seq(Delivered)]
  BY DEF HandshakeInv, TypeOK, Delivered
<1>2. queue_msg' \in [Hosts -> Seq(Delivered)] /\ NoCrossTalk'
  BY PushedOwn
<1>3. /\ \A g \in Hosts \ {h} : queue_msg'[g] = queue_msg[g]
      /\ Len(queue_msg'[h]) = Len(queue_msg[h]) + Cardinality(PayloadsAt(s))
      /\ \A i \in 1..Len(queue_msg[h]) : queue_msg'[h][i] = queue_msg[h][i]
      /\ \A i \in 1..Cardinality(PayloadsAt(s)) : \E k \in PayloadsAt(s) :
           /\ queue_msg'[h][Len(queue_msg[h]) + i] =
                [conv |-> s.conv, n |-> s.n, body |-> s.inq[k].body]
           /\ Rank(PayloadsAt(s), k) = i
  BY <1>1, PushMsgType
<1>4. \A i \in 1..Len(s.inq) : s.inq[i].key = s.key
  BY OwnKey
<1>5. PICK q \in Seq(Delivered) : q = queue_msg[h]
  BY <1>1
<1>6. PICK q2 \in Seq(Delivered) : q2 = queue_msg'[h]
  BY <1>2
<1>7. Pushes(q2, q, s)
  BY <1>3, <1>5, <1>6 DEF Pushes
<1>8. Reads(s, q, strm)
  BY <1>5
<1>9. Reads(r, q2, strm) /\ NumbersOn(q2, q, s.n)
  BY <1>4, <1>7, <1>8, ReadsDrains DEF OwnKeys
<1>10. Len(q) \in Nat /\ Len(q2) \in Nat
  OBVIOUS
<1>11. \A k \in 1..Len(q2) : k \in 1..Len(q) \/ k \in (Len(q) + 1)..Len(q2)
  BY <1>10
<1>12. ASSUME NEW k \in 1..Len(q2)
       PROVE  q2[k].body = [n |-> q2[k].n, i |-> GotUpTo(q2, q2[k].n, k)]
  <2>1. q2[k] \in Delivered
    BY ElementOfSeq
  <2>2. q2[k].body = [n |-> q2[k].body.n, i |-> q2[k].body.i]
    BY <2>1 DEF Delivered, Body
  <2>3. q2[k].body.n = q2[k].n
    BY <1>2, <1>6 DEF NoCrossTalk
  <2>4. q2[k].body.i = GotUpTo(q2, q2[k].n, k)
    <3>1. CASE k \in 1..Len(q)
      <4>1. q[k].body.i = GotUpTo(q, q[k].n, k)
        <5>1. q[k].body = [n |-> q[k].n, i |-> GotUpTo(q, q[k].n, k)]
          BY <1>5, <3>1 DEF EndToEnd, GotUpTo
        <5> QED
          BY <5>1
      <4>2. \A j \in 1..k : q2[j] = q[j]
        BY <1>7, <1>10, <3>1 DEF Pushes
      <4>3. GotUpTo(q2, q[k].n, k) = GotUpTo(q, q[k].n, k)
        BY <4>2, GotSame
      <4> QED
        BY <1>7, <3>1, <4>1, <4>3 DEF Pushes
    <3>2. CASE k \in (Len(q) + 1)..Len(q2)
      BY <1>9, <3>2 DEF NumbersOn
    <3> QED
      BY <1>11, <3>1, <3>2
  <2> QED
    BY <2>2, <2>3, <2>4
<1>13. EndToEnd'
  <2> SUFFICES ASSUME NEW g \in Hosts, NEW k \in 1..Len(queue_msg'[g])
               PROVE  queue_msg'[g][k].body =
                        [n |-> queue_msg'[g][k].n,
                         i |-> GotUpTo(queue_msg'[g], queue_msg'[g][k].n, k)]
    BY DEF EndToEnd, GotUpTo
  <2>1. CASE g = h
    BY <1>6, <1>12, <2>1
  <2>2. CASE g # h
    <3>1. queue_msg'[g] = queue_msg[g] /\ k \in 1..Len(queue_msg[g])
      BY <1>3, <2>2
    <3>2. queue_msg[g][k].body =
            [n |-> queue_msg[g][k].n, i |-> GotUpTo(queue_msg[g], queue_msg[g][k].n, k)]
      BY <3>1, Zenon DEF EndToEnd, GotUpTo
    <3> QED
      BY <3>1, <3>2
  <2> QED
    BY <2>1, <2>2
<1>14. \A k \in 1..Len(q2) : (k \in 1..Len(q) /\ q2[k] = q[k]) \/ q2[k].n = s.n
  BY <1>7, <1>9, <1>11 DEF Pushes, NumbersOn
<1> QED
  BY <1>3, <1>5, <1>6, <1>9, <1>13, <1>14 DEF NumbersOn

(* What an update sends is carried by the stream of s.                     *)
LEMMA OutputCarried ==
  ASSUME NEW s, NEW src, NEW d \in Output(s, src)
  PROVE  /\ d.type = "kcp" /\ d.conv = s.conv /\ d.src = src /\ d.dst = s.addr
         /\ Carried(d, s.out)
BY DEF Output, Push, Carried

(* Conn::run of a client: it carries its stream and reads the server's.    *)
LEMMA StreamClientRun ==
  ASSUME HandshakeInv, EndToEndInv, ~ConvReuse, NEW c \in Clients, client_run(c)
  PROVE  EndToEndInv'
<1> DEFINE s == conn[c]
<1>1. /\ TypeOK /\ s \in Conn /\ c \in Hosts /\ s.status = "ESTABLISHED" /\ ClientConnInv(c)
      /\ AddressInv /\ FreshInv /\ QueueInv /\ EndToEnd /\ c # Server
  BY ConnFacts, Constants, KcpuvAssumption DEF HandshakeInv, EndToEndInv, client_run
<1>2. PICK v \in Convs : v = s.conv /\ s.n \in Nonces /\ Served(s.n, v, s.key)
  BY <1>1, ConnFacts DEF ClientConnInv
<1>3. conn' = [conn EXCEPT ![c] = RunConn(s, 0)] /\ net' = net \cup Output(s, c) /\ push_msg(c, s)
  BY DEF client_run, Send
<1>4. UNCHANGED <<pc, map_conn, map_req_conn, issued_key>>
  BY DEF client_run, serverVars
<1>5. PICK r \in Conn :
        /\ r = RunConn(s, 0) /\ SameConn(r, s) /\ r.inq = << >> /\ r.addr = s.addr
        /\ r.rcv_nxt = s.rcv_nxt /\ r.out = s.out
  <2>1. Len(s.out) \in Nat /\ s.out \in Seq(KeyedMsg)
    BY <1>1 DEF Conn
  <2> DEFINE t == RunConn(s, 0)
  <2>2. /\ t \in Conn /\ SameConn(t, s) /\ t.inq = << >> /\ t.addr = s.addr
        /\ t.rcv_nxt = s.rcv_nxt /\ Len(t.out) = Len(s.out) + 0
        /\ \A i \in 1..Len(s.out) : t.out[i] = s.out[i]
    BY <1>1, RunConnType
  <2> HIDE DEF t
  <2>3. t.out \in Seq(KeyedMsg) /\ Len(t.out) = Len(s.out)
    BY <2>1, <2>2 DEF Conn
  <2>4. t.out = s.out
    BY <2>1, <2>2, <2>3, SeqEqual
  <2> QED
    BY <2>2, <2>4 DEF t
<1>6. conn'[c] = r /\ \A x \in Clients \ {c} : conn'[x] = conn[x]
  BY <1>1, <1>3, <1>5 DEF TypeOK
<1>7. \A i \in 1..Len(s.inq) : Genuine(v, s.inq[i])
  BY <1>1, <1>2 DEF ClientConnInv
<1>8. s.addr = Server
  BY <1>1 DEF AddressInv
<1>9. \A d \in net' : \/ d \in net
                      \/ /\ d.type = "kcp" /\ d.conv = v /\ d.src = c /\ d.dst = Server
                         /\ Carried(d, s.out)
  BY <1>2, <1>3, <1>8, OutputCarried
<1>10. Established(c, v) /\ Uses(c, v) /\ Established(c, v)'
  BY <1>1, <1>2, <1>5, <1>6 DEF Established, Uses, SameConn
<1>11. ASSUME NEW x \in Clients, NEW conv \in Convs, Established(x, conv)'
       PROVE  /\ Established(x, conv) /\ conn'[x].out = conn[x].out
              /\ IF x = c THEN conv = v ELSE conv # v /\ conn'[x] = conn[x]
  <2>1. Established(x, conv) /\ conn'[x].out = conn[x].out
    BY <1>5, <1>6, <1>11 DEF Established, SameConn
  <2>2. conv = v => x = c
    BY <1>1, <1>10, <2>1 DEF AddressInv, Uses
  <2>3. x = c => conv = v
    BY <1>2, <2>1 DEF Established
  <2> QED
    BY <1>6, <2>1, <2>2, <2>3
<1>12. PICK down \in Seq(KeyedMsg) : DownStream(v, down)
  BY <1>2 DEF EndToEndInv, StreamDown
<1>13. Reads(s, queue_msg[c], down) /\ Numbered(down)
  BY <1>10, <1>12 DEF DownStream
<1>14. /\ EndToEnd' /\ Reads(r, queue_msg'[c], down)
       /\ \A g \in Hosts \ {c} : queue_msg'[g] = queue_msg[g]
  BY <1>1, <1>2, <1>3, <1>5, <1>7, <1>13, HandsOver DEF SameConn
<1>15. queue_msg'[Server] = queue_msg[Server] /\ \A x \in Clients \ {c} : queue_msg'[x] = queue_msg[x]
  BY <1>1, <1>14, Constants
<1>16. AddressInv'
  <2>1. \A d \in net' : \/ d \in net
                        \/ IF d.src = Server THEN d.dst \in Clients ELSE d.dst = Server
    BY <1>1, <1>9
  <2>2. \A x \in Clients : conn'[x].addr = Server
    BY <1>1, <1>5, <1>6 DEF AddressInv
  <2>3. \A x \in DOMAIN map_conn' : map_conn'[x].addr \in Clients
    BY <1>1, <1>4 DEF AddressInv
  <2>4. \A x \in Clients, conv \in Convs : Established(x, conv)' => Uses(x, conv)
    BY <1>11 DEF Uses
  <2>5. \A x \in Clients, conv \in Convs :
          conv \in DOMAIN map_conn' /\ map_conn'[conv].addr = x => Uses(x, conv)
    BY <1>4 DEF Uses
  <2>6. Server \notin Clients
    BY KcpuvAssumption
  <2>7. \A x \in Clients, conv \in Convs : \A d \in net' :
          d \in net \/ (Names(d, x, conv) => Uses(x, conv))
    BY <1>9, <1>10, <2>6 DEF Names
  <2> QED
    BY <1>1, <2>1, <2>2, <2>3, <2>4, <2>5, <2>7, AddressKept
<1>17. FreshInv'
  <2>1. conn'[c].status = "ESTABLISHED" /\ pc'[c] # "created"
    BY <1>1, <1>4, <1>5, <1>6 DEF SameConn, client_run
  <2>2. \A x \in Clients : pc'[x] = "created" \/ conn'[x].status = "REQ_CONN" =>
          /\ pc[x] = "created" \/ conn[x].status = "REQ_CONN"
          /\ queue_msg'[x] = queue_msg[x]
          /\ \A d \in net' : d \in net \/ (d.type = "kcp" => d.src # x)
    BY <1>4, <1>6, <1>9, <1>15, <2>1
  <2> QED
    BY <1>1, <2>2, FreshKept
<1>18. QueueInv'
  BY <1>1, <1>4, <1>15 DEF QueueInv
<1>19. net \subseteq net'
  BY <1>3
<1>20. StreamUp(v)'
  <2>1. PICK strm \in Seq(KeyedMsg) : UpStream(v, strm)
    BY <1>2 DEF EndToEndInv, StreamUp
  <2>2. strm = s.out /\ Extends(strm, strm) /\ Numbered(strm)
    BY <1>10, <2>1 DEF UpStream, Extends
  <2>3. \A d \in net' : Upward(d, v) => d \in net \/ Carried(d, strm)
    BY <1>9, <2>2
  <2>4. \A x \in Clients : Established(x, v)' => conn'[x].out = strm
    BY <1>2, <1>11, <2>2
  <2>5. v \in DOMAIN map_conn' =>
           /\ v \in DOMAIN map_conn
           /\ SameReader(map_conn'[v], map_conn[v], queue_msg'[Server], queue_msg[Server])
    BY <1>4, <1>15 DEF SameReader
  <2> QED
    BY <1>2, <1>19, <2>1, <2>2, <2>3, <2>4, <2>5, UpStep
<1>21. StreamDown(v)'
  <2>1. Extends(down, down)
    BY DEF Extends
  <2>2. \A d \in net' : Downward(d, v) => d \in net
    BY <1>9 DEF Downward
  <2>3. v \in DOMAIN map_conn' => map_conn'[v].out = down
    BY <1>4, <1>12 DEF DownStream
  <2>4. \A x \in Clients : Established(x, v)' => Reads(conn'[x], queue_msg'[x], down)
    BY <1>2, <1>6, <1>11, <1>14
  <2> QED
    BY <1>2, <1>12, <1>13, <1>19, <2>1, <2>2, <2>3, <2>4, DownStep
<1>22. ASSUME NEW conv \in Convs, conv # v PROVE StreamUp(conv)' /\ StreamDown(conv)'
  <2>1. StreamUp(conv) /\ StreamDown(conv)
    BY DEF EndToEndInv
  <2>2. \A x \in Clients : Established(x, conv)' =>
          Established(x, conv) /\ conn'[x] = conn[x] /\ queue_msg'[x] = queue_msg[x]
    BY <1>11, <1>15, <1>22
  <2>3. \A d \in net' : Upward(d, conv) \/ Downward(d, conv) => d \in net
    BY <1>9, <1>22 DEF Upward, Downward
  <2>4. QuietUp(conv) /\ QuietDown(conv)
    BY <1>4, <1>15, <1>19, <2>2, <2>3 DEF QuietUp, QuietDown, SameReader
  <2> QED
    BY <2>1, <2>4, QuietKeeps
<1> QED
  BY <1>14, <1>16, <1>17, <1>18, <1>20, <1>21, <1>22 DEF EndToEndInv

(* A conv that was never given out is nowhere yet.                         *)
LEMMA NeverUsed ==
  ASSUME HandshakeInv, NEW v \in Convs, \A n \in DOMAIN map_req_conn : map_req_conn[n] # v
  PROVE  /\ v \notin DOMAIN map_conn
         /\ \A c \in Clients : ~Uses(c, v)
         /\ \A d \in net : ~Upward(d, v) /\ ~Downward(d, v)
<1>1. \A n, key : ~Served(n, v, key)
  BY DEF Served
<1>2. \A m : ~Genuine(v, m)
  BY <1>1 DEF Genuine
<1>3. v \notin DOMAIN map_conn
  BY <1>1 DEF HandshakeInv, ServerConnInv
<1>4. \A c \in Clients : ~Established(c, v)
  BY <1>1 DEF HandshakeInv, ClientConnInv, Established
<1>5. \A d \in net : ~(d.type = "kcp" /\ d.conv = v) /\ ~(d.type = "snd_conv" /\ d.new_conv = v)
  BY <1>1, <1>2 DEF HandshakeInv, DatagramInv
<1> QED
  BY <1>3, <1>4, <1>5 DEF Uses, Upward, Downward

(* A new connection of the server: both streams are empty.                 *)
LEMMA StreamReqServed ==
  ASSUME HandshakeInv, EndToEndInv, ~ConvReuse, NEW d \in net, proc_req_conn(d)
  PROVE  EndToEndInv'
<1>1. /\ TypeOK /\ d \in Datagram /\ d.type = "req_conn" /\ Server \in Hosts
      /\ AddressInv /\ FreshInv /\ QueueInv /\ EndToEnd
  BY Constants DEF HandshakeInv, EndToEndInv, TypeOK, proc_req_conn
<1>2. d.n \in Nonces /\ d.src \in Clients /\ d.src \in Hosts
  BY <1>1, Constants DEF Datagram
<1>3. PICK v \in Convs, key \in Keys :
        /\ new_conv(v) /\ new_key(key)
        /\ map_req_conn' = Bind(map_req_conn, d.n, v)
        /\ map_conn' = Bind(map_conn, v, alive(prepare_snd_conv(d, v, key)))
  BY DEF proc_req_conn
<1>4. d.n \notin DOMAIN map_req_conn
  BY DEF proc_req_conn, NewRequest
<1>5. UNCHANGED <<pc, conn, queue_msg, net>>
  BY DEF proc_req_conn, clientVars, msgVars
<1> DEFINE p == prepare_snd_conv(d, v, key)
<1>6. /\ p \in Conn /\ p.n = d.n /\ p.addr = d.src
      /\ p.out = << >> /\ p.inq = << >> /\ p.rcv_nxt = 0
  <2>1. << >> \in Seq(KeyedMsg)
    BY EmptySeq
  <2> QED
    BY <1>2, <2>1, Constants DEF prepare_snd_conv, init_kcp, NewConn, Conn, Status
<1>7. PICK r \in Conn : /\ r = alive(p) /\ r.n = d.n /\ r.addr = d.src
                        /\ r.out = << >> /\ r.inq = << >> /\ r.rcv_nxt = 0
  <2> HIDE DEF p
  <2> QED
    BY <1>6, AliveType DEF SameConn
<1>8. /\ DOMAIN map_conn' = DOMAIN map_conn \cup {v} /\ map_conn'[v] = r
      /\ \A x \in DOMAIN map_conn \ {v} : map_conn'[x] = map_conn[x]
  BY <1>3, <1>7 DEF Bind
<1>9. DOMAIN map_req_conn \subseteq DOMAIN map_req_conn'
  BY <1>3 DEF Bind
<1> HIDE DEF p
<1>10. /\ v \notin DOMAIN map_conn
       /\ \A c \in Clients : ~Uses(c, v)
       /\ \A u \in net : ~Upward(u, v) /\ ~Downward(u, v)
  BY <1>3, NeverUsed DEF new_conv
<1>11. \A c \in Clients : ~Established(c, v)'
  BY <1>5, <1>10 DEF Uses, Established
<1>12. AddressInv'
  <2>1. ASSUME NEW conv \in Convs, conv # v, NEW c \in Clients, Uses(c, conv)' PROVE Uses(c, conv)
    BY <1>5, <1>8, <2>1 DEF Uses, Established
  <2>2. ASSUME NEW c \in Clients, Uses(c, v)' PROVE c = d.src
    BY <1>5, <1>7, <1>8, <1>10, <2>2 DEF Uses, Established
  <2>3. \A conv \in Convs : \A c1, c2 \in Clients : Uses(c1, conv)' /\ Uses(c2, conv)' => c1 = c2
    <3> TAKE conv \in Convs
    <3>1. CASE conv = v
      BY <2>2, <3>1
    <3>2. CASE conv # v
      BY <1>1, <2>1, <3>2 DEF AddressInv
    <3> QED
      BY <3>1, <3>2
  <2>4. \A x \in DOMAIN map_conn' : map_conn'[x].addr \in Clients
    BY <1>1, <1>2, <1>7, <1>8 DEF AddressInv
  <2>5. /\ \A u \in net' : IF u.src = Server THEN u.dst \in Clients ELSE u.dst = Server
        /\ \A c \in Clients : conn'[c].addr = Server
    BY <1>1, <1>5 DEF AddressInv
  <2> QED
    BY <2>3, <2>4, <2>5 DEF AddressInv
<1>13. FreshInv' /\ EndToEnd'
  BY <1>1, <1>5 DEF FreshInv, EndToEnd
<1>14. QueueInv'
  BY <1>1, <1>5, <1>9 DEF QueueInv
<1>15. << >> \in Seq(KeyedMsg) /\ Numbered(<< >>) /\ Len(<< >>) = 0
  BY EmptySeq DEF Numbered
<1>16. Reads(r, queue_msg[Server], << >>)
  <2>1. queue_msg[Server] \in Seq(Delivered)
    BY <1>1 DEF TypeOK, Delivered
  <2>2. Len(queue_msg[Server]) \in Nat
    BY <2>1
  <2>3. \A k \in 1..Len(queue_msg[Server]) : queue_msg[Server][k].n # r.n
    BY <1>1, <1>4, <1>7 DEF QueueInv
  <2>4. GotUpTo(queue_msg[Server], r.n, Len(queue_msg[Server])) = 0
    BY <2>2, <2>3, GotNone
  <2>5. Len(r.inq) = 0 /\ r.rcv_nxt = 0
    BY <1>7
  <2>6. r.rcv_nxt - Len(r.inq) = 0 /\ \A i \in 1..Len(r.inq) : FALSE
    BY <2>5
  <2>7. SentUpTo(<< >>, 0) = 0
    BY SentNext
  <2> QED
    BY <1>15, <2>4, <2>5, <2>6, <2>7 DEF Reads
<1>17. StreamUp(v)'
  <2>1. ~(r.rcv_nxt > 0)
    BY <1>7
  <2>2. UpStream(v, << >>)'
    BY <1>5, <1>8, <1>10, <1>11, <1>15, <1>16, <2>1 DEF UpStream, Upward
  <2> QED
    BY <1>15, <2>2 DEF StreamUp
<1>18. StreamDown(v)'
  <2>1. DownStream(v, << >>)'
    BY <1>5, <1>7, <1>8, <1>10, <1>11, <1>15 DEF DownStream, Downward
  <2> QED
    BY <1>15, <2>1 DEF StreamDown
<1>19. ASSUME NEW conv \in Convs, conv # v PROVE StreamUp(conv)' /\ StreamDown(conv)'
  <2>1. StreamUp(conv) /\ StreamDown(conv)
    BY DEF EndToEndInv
  <2>2. conv \in DOMAIN map_conn' => conv \in DOMAIN map_conn /\ map_conn'[conv] = map_conn[conv]
    BY <1>8, <1>19
  <2>3. QuietUp(conv) /\ QuietDown(conv)
    BY <1>5, <2>2 DEF QuietUp, QuietDown, SameReader, Established
  <2> QED
    BY <2>1, <2>3, QuietKeeps
<1> QED
  BY <1>12, <1>13, <1>14, <1>17, <1>18, <1>19 DEF EndToEndInv

(* Conn::run of the server: its stream goes on with the acks it owes, and  *)
(* it reads the client's.                                                  *)
LEMMA StreamServerRun ==
  ASSUME HandshakeInv, EndToEndInv, ~ConvReuse, NEW v \in Convs, server_run(v)
  PROVE  EndToEndInv'
<1> DEFINE s == map_conn[v]
           acks == Cardinality(AcksAt(s))
           q == RunConn(s, acks)
           offer == IF snd_conn_run(s) THEN {SndConv(s)} ELSE {}
<1>1. /\ TypeOK /\ v \in DOMAIN map_conn /\ ServerConnInv(v) /\ Server \in Hosts
      /\ AddressInv /\ FreshInv /\ QueueInv /\ EndToEnd /\ Server \notin Clients
  BY Constants, KcpuvAssumption DEF HandshakeInv, EndToEndInv, server_run
<1>2. /\ s \in Conn /\ s.conv = v /\ s.n \in Nonces /\ Served(s.n, s.conv, s.key)
      /\ s.n \in DOMAIN map_req_conn
  BY <1>1, ConnFacts DEF ServerConnInv
<1>3. /\ map_conn' = [map_conn EXCEPT ![v] = [q EXCEPT
           !.status = IF q.status = "SND_CONV" /\ MsgCnt(s) > 0 THEN "ESTABLISHED" ELSE q.status,
           !.resend = IF snd_conn_run(s) THEN ResendInterval ELSE q.resend]]
      /\ net' = net \cup (Output(s, Server) \cup offer)
      /\ push_msg(Server, s)
  BY DEF server_run, Send
<1>4. UNCHANGED <<pc, conn, map_req_conn>>
  BY DEF server_run, clientVars
<1>5. s.out \in Seq(KeyedMsg) /\ Len(s.out) \in Nat /\ acks \in Nat
  <2>1. AcksAt(s) \subseteq 1..Len(s.inq) /\ Len(s.inq) \in Nat
    BY <1>2 DEF AcksAt, Conn
  <2>2. acks \in Nat
    BY <2>1, PlacesFinite
  <2>3. s.out \in Seq(KeyedMsg)
    <3> HIDE DEF s
    <3> QED BY <1>2 DEF Conn
  <2> QED
    BY <2>2, <2>3
<1>6. /\ q \in Conn /\ SameConn(q, s) /\ q.inq = << >> /\ q.addr = s.addr
      /\ q.rcv_nxt = s.rcv_nxt /\ Len(q.out) = Len(s.out) + acks
      /\ \A i \in 1..Len(s.out) : q.out[i] = s.out[i]
      /\ \A i \in (Len(s.out) + 1)..Len(q.out) : q.out[i] = Msg(s.key, Empty)
  BY <1>2, <1>5, RunConnType
<1> HIDE DEF q, acks
<1>7. PICK r \in Conn :
        /\ map_conn' = [map_conn EXCEPT ![v] = r]
        /\ r.n = s.n /\ r.inq = << >> /\ r.addr = s.addr /\ r.rcv_nxt = s.rcv_nxt /\ r.out = q.out
  <2> DEFINE t == [q EXCEPT
               !.status = IF q.status = "SND_CONV" /\ MsgCnt(s) > 0 THEN "ESTABLISHED" ELSE q.status,
               !.resend = IF snd_conn_run(s) THEN ResendInterval ELSE q.resend]
  <2>1. t \in Conn /\ t.n = q.n /\ t.inq = q.inq /\ t.addr = q.addr /\ t.rcv_nxt = q.rcv_nxt /\ t.out = q.out
    BY <1>6, Constants DEF Conn, Status
  <2>2. map_conn' = [map_conn EXCEPT ![v] = t]
    BY <1>3
  <2> HIDE DEF t
  <2> QED
    BY <1>6, <2>1, <2>2 DEF SameConn
<1>8. /\ DOMAIN map_conn' = DOMAIN map_conn /\ map_conn'[v] = r
      /\ \A x \in DOMAIN map_conn \ {v} : map_conn'[x] = map_conn[x]
  BY <1>1, <1>7
<1>9. \A i \in 1..Len(s.inq) : Genuine(s.conv, s.inq[i])
  BY <1>1, <1>2 DEF ServerConnInv, Arrived, HandshakeInv, DatagramInv
<1>10. s.addr \in Clients /\ Uses(s.addr, v)
  BY <1>1 DEF AddressInv, Uses
<1>11. ASSUME NEW d \in net', d \notin net
       PROVE  /\ d.src = Server /\ d.dst = s.addr
              /\ \/ d.type = "kcp" /\ d.conv = v /\ Carried(d, s.out)
                 \/ d.type = "snd_conv" /\ d.new_conv = v
  <2>1. CASE d \in Output(s, Server)
    BY <1>2, <2>1, OutputCarried
  <2>2. CASE d \in offer
    <3>1. d = SndConv(s)
      BY <2>2
    <3> QED
      BY <1>2, <3>1 DEF SndConv
  <2> QED
    BY <1>3, <1>11, <2>1, <2>2
<1> HIDE DEF offer
<1>12. PICK up \in Seq(KeyedMsg) : UpStream(v, up)
  BY DEF EndToEndInv, StreamUp
<1>13. Reads(s, queue_msg[Server], up) /\ Numbered(up)
  BY <1>1, <1>12 DEF UpStream
<1>14. /\ EndToEnd' /\ Reads(r, queue_msg'[Server], up)
       /\ \A g \in Hosts \ {Server} : queue_msg'[g] = queue_msg[g]
       /\ \A k \in 1..Len(queue_msg'[Server]) :
            \/ k \in 1..Len(queue_msg[Server]) /\ queue_msg'[Server][k] = queue_msg[Server][k]
            \/ queue_msg'[Server][k].n = s.n
       /\ \A other : other # s.n =>
            GotUpTo(queue_msg'[Server], other, Len(queue_msg'[Server])) =
              GotUpTo(queue_msg[Server], other, Len(queue_msg[Server]))
  <2>1. PICK x \in Conn : x = s
    BY <1>2
  <2>2. /\ x.conv \in Convs /\ x.n \in Nonces /\ push_msg(Server, x)
        /\ Served(x.n, x.conv, x.key) /\ \A i \in 1..Len(x.inq) : Genuine(x.conv, x.inq[i])
        /\ Reads(x, queue_msg[Server], up)
        /\ r.rcv_nxt = x.rcv_nxt /\ r.inq = << >> /\ r.n = x.n
    BY <1>2, <1>3, <1>7, <1>9, <1>13, <2>1
  <2> HIDE DEF s
  <2> QED
    BY <1>1, <1>13, <2>1, <2>2, HandsOver
<1>15. \A c \in Clients : queue_msg'[c] = queue_msg[c]
  BY <1>1, <1>14, Constants
<1>16. AddressInv'
  <2>1. \A d \in net' : \/ d \in net
                        \/ IF d.src = Server THEN d.dst \in Clients ELSE d.dst = Server
    BY <1>10, <1>11
  <2>2. \A x \in DOMAIN map_conn' : map_conn'[x].addr \in Clients
    BY <1>1, <1>7, <1>8, <1>10 DEF AddressInv
  <2>3. \A c \in Clients : conn'[c].addr = Server
    BY <1>1, <1>4 DEF AddressInv
  <2>4. \A c \in Clients, conv \in Convs : Established(c, conv)' => Uses(c, conv)
    BY <1>4 DEF Uses, Established
  <2>5. \A c \in Clients, conv \in Convs :
          conv \in DOMAIN map_conn' /\ map_conn'[conv].addr = c => Uses(c, conv)
    BY <1>7, <1>8 DEF Uses
  <2>6. \A c \in Clients, conv \in Convs : \A d \in net' :
          d \in net \/ (Names(d, c, conv) => Uses(c, conv))
    <3> SUFFICES ASSUME NEW c \in Clients, NEW conv \in Convs, NEW d \in net', d \notin net,
                        Names(d, c, conv)
                 PROVE  c = s.addr /\ conv = v
      BY <1>10
    <3> QED
      BY <1>1, <1>11 DEF Names
  <2> QED
    BY <1>1, <2>1, <2>2, <2>3, <2>4, <2>5, <2>6, AddressKept
<1>17. FreshInv'
  <2>1. \A c \in Clients : \A d \in net' : d \in net \/ d.src # c
    BY <1>1, <1>11
  <2> QED
    BY <1>1, <1>4, <1>15, <2>1, FreshKept
<1>18. QueueInv'
  BY <1>1, <1>2, <1>4, <1>14 DEF QueueInv
<1>19. net \subseteq net'
  BY <1>3
<1>20. \A d \in net', conv \in Convs : Upward(d, conv) => d \in net
  BY <1>1, <1>10, <1>11 DEF Upward
<1>21. StreamUp(v)'
  <2>1. Extends(up, up)
    BY DEF Extends
  <2>2. \A c \in Clients : Established(c, v)' => conn'[c].out = up
    BY <1>4, <1>12 DEF UpStream, Established
  <2>3. r.rcv_nxt > 0 => \E d \in net' : Upward(d, v)
    BY <1>1, <1>7, <1>12, <1>19 DEF UpStream
  <2>4. v \in DOMAIN map_conn' => /\ Reads(map_conn'[v], queue_msg'[Server], up)
                                  /\ map_conn'[v].rcv_nxt > 0 => \E d \in net' : Upward(d, v)
    BY <1>8, <1>14, <2>3
  <2> QED
    BY <1>12, <1>13, <1>19, <1>20, <2>1, <2>2, <2>4, UpStep
<1>22. \A c \in Clients, conv \in Convs : Established(c, conv)' =>
         Established(c, conv) /\ SameReader(conn'[c], conn[c], queue_msg'[c], queue_msg[c])
  BY <1>4, <1>15 DEF Established, SameReader
<1>23. StreamDown(v)'
  <2>1. PICK strm \in Seq(KeyedMsg) : DownStream(v, strm)
    BY DEF EndToEndInv, StreamDown
  <2>2. strm = s.out /\ Numbered(strm)
    BY <1>1, <2>1 DEF DownStream
  <2>3. PICK strm2 \in Seq(KeyedMsg) : strm2 = r.out
    BY DEF Conn
  <2>4. /\ Len(strm) \in Nat /\ acks \in Nat /\ Len(strm2) = Len(strm) + acks
        /\ \A i \in 1..Len(strm) : strm2[i] = strm[i]
    BY <1>5, <1>6, <1>7, <2>2, <2>3
  <2>5. Extends(strm2, strm)
    BY <2>4 DEF Extends
  <2>6. \A k \in (Len(strm) + 1)..Len(strm2) : strm2[k].body = Empty
    <3>1. \A k \in (Len(strm) + 1)..Len(strm2) : strm2[k] = Msg(s.key, Empty)
      BY <1>6, <1>7, <2>2, <2>3
    <3> QED
      BY <3>1 DEF Msg
  <2>7. Numbered(strm2)
    BY <2>2, <2>5, <2>6, NumberedExtends
  <2>8. ASSUME NEW d \in net', d \notin net, Downward(d, v) PROVE Carried(d, strm2)
    <3>1. Carried(d, strm)
      BY <1>11, <2>2, <2>8 DEF Downward
    <3>2. Len(strm2) \in Nat
      OBVIOUS
    <3> QED
      BY <2>4, <3>1, <3>2 DEF Carried
  <2>9. \A d \in net' : Downward(d, v) => d \in net \/ Carried(d, strm2)
    BY <2>8
  <2>10. v \in DOMAIN map_conn' => map_conn'[v].out = strm2
    BY <1>8, <2>3
  <2> QED
    BY <1>19, <1>22, <2>1, <2>5, <2>7, <2>9, <2>10, DownStep
<1>24. ASSUME NEW conv \in Convs, conv # v PROVE StreamUp(conv)' /\ StreamDown(conv)'
  <2>1. StreamUp(conv) /\ StreamDown(conv)
    BY DEF EndToEndInv
  <2>2. ASSUME conv \in DOMAIN map_conn'
        PROVE  /\ conv \in DOMAIN map_conn /\ map_conn'[conv] = map_conn[conv]
               /\ map_conn[conv].n # s.n
    BY <1>1, <1>8, <1>24, <2>2, ConnFacts
  <2>3. conv \in DOMAIN map_conn' =>
          SameReader(map_conn'[conv], map_conn[conv], queue_msg'[Server], queue_msg[Server])
    BY <1>14, <2>2 DEF SameReader
  <2>4. \A d \in net' : Downward(d, conv) => d \in net
    BY <1>11, <1>24 DEF Downward
  <2>5. \A c \in Clients : Established(c, conv)' => conn'[c].out = conn[c].out
    BY <1>4
  <2>6. QuietUp(conv)
    BY <1>19, <1>20, <1>22, <2>2, <2>3, <2>5 DEF QuietUp
  <2>7. QuietDown(conv)
    BY <1>19, <1>22, <2>2, <2>4 DEF QuietDown
  <2> QED
    BY <2>1, <2>6, <2>7, QuietKeeps
<1> QED
  BY <1>14, <1>16, <1>17, <1>18, <1>21, <1>23, <1>24 DEF EndToEndInv

-----------------------------------------------------------------------------
(* The invariant.                                                          *)

(* Before anything is sent all streams are empty.                          *)
LEMMA InitStreams ==
  ASSUME Init
  PROVE  EndToEndInv
<1>1. DOMAIN map_conn = {} /\ net = {} /\ \A c \in Clients : conn[c] = NoConn
  BY DEF Init
<1>2. \A h \in Hosts : queue_msg[h] = << >> /\ Len(queue_msg[h]) = 0
  BY DEF Init
<1>3. NoConn.status = "INVALID" /\ NoConn.addr = Server
  BY DEF NoConn, NewConn
<1>4. \A c \in Clients : \A conv : ~Established(c, conv)
  BY <1>1, <1>3 DEF Established
<1>5. << >> \in Seq(KeyedMsg) /\ Numbered(<< >>)
  BY EmptySeq DEF Numbered
<1>6. \A conv \in Convs : UpStream(conv, << >>) /\ DownStream(conv, << >>)
  BY <1>1, <1>4, <1>5 DEF UpStream, DownStream
<1>7. \A conv \in Convs : StreamUp(conv) /\ StreamDown(conv)
  BY <1>5, <1>6 DEF StreamUp, StreamDown
<1>8. AddressInv
  BY <1>1, <1>3, <1>4 DEF AddressInv, Uses
<1>9. FreshInv /\ QueueInv /\ EndToEnd
  BY <1>1, <1>2, Constants DEF FreshInv, QueueInv, EndToEnd
<1> QED
  BY <1>7, <1>8, <1>9 DEF EndToEndInv

(* Every step of every host keeps the streams.                             *)
LEMMA NextStreams ==
  ASSUME ~ConvReuse, HandshakeInv, EndToEndInv, [Next]_vars
  PROVE  EndToEndInv'
<1>1. ASSUME NEW c \in Clients, connect(c) \/ connect_error(c) \/ kcpuv_destroy_client(c)
      PROVE  EndToEndInv'
  BY <1>1, QuietClient, QuietPc
<1>2. ASSUME NEW c \in Clients, ConnectLoop(c) PROVE EndToEndInv'
  BY <1>2, QuietPc, QuietClient, QuietRequest DEF ConnectLoop
<1>3. ASSUME NEW c \in Clients, ClientRun(c) PROVE EndToEndInv'
  BY <1>3, QuietClient, StreamClientRun DEF ClientRun
<1>4. ASSUME NEW c \in Clients, kcpuv_send_client(c) PROVE EndToEndInv'
  BY <1>4, StreamClientSend
<1>5. ASSUME NEW c \in Clients, NEW d \in net,
             on_recv_udp_client(c, d) \/ on_recv_udp_no_conn(c, d)
      PROVE  EndToEndInv'
  BY <1>5, StreamClientRecv, QuietPc
<1>6. CASE kcpuv_listen \/ kcpuv_destroy_server
  BY <1>6, QuietPc, QuietServerGone
<1>7. ASSUME NEW d \in net, on_recv_udp_callback(d) PROVE EndToEndInv'
  BY <1>7, StreamReqServed, StreamServerTakes DEF on_recv_udp_callback
<1>8. ASSUME NEW conv \in Convs, ServerRun(conv) \/ kcpuv_send_server(conv) PROVE EndToEndInv'
  BY <1>8, QuietServerGone, StreamServerRun, StreamServerSend DEF ServerRun
<1>9. CASE \E h \in Hosts : kcpuv_recv(h)
  BY <1>9, QuietPc
<1>10. CASE Tick
  BY <1>10, QuietTick
<1>11. CASE UNCHANGED vars
  BY <1>11, QuietIdle DEF vars, clientVars, serverVars, msgVars
<1> QED
  BY <1>1, <1>2, <1>3, <1>4, <1>5, <1>6, <1>7, <1>8, <1>9, <1>10, <1>11 DEF Next

(* If rand_uint32 never repeats a conv, the application gets on each       *)
(* connection the payloads the other end gave to kcpuv_send, in order,     *)
(* none missing in between, none twice and none of another connection,     *)
(* however many clients connect and whatever the path loses or repeats.    *)
THEOREM EndToEndHolds ==
  ASSUME ~ConvReuse
  PROVE  Spec => []EndToEnd
<1>1. Init => EndToEndInv
  BY InitStreams
<1>2. HandshakeInv /\ EndToEndInv /\ [Next]_vars => EndToEndInv'
  BY NextStreams
<1>3. EndToEndInv => EndToEnd
  BY DEF EndToEndInv
<1> QED
  BY <1>1, <1>2, <1>3, HandshakeInvariant, PTL DEF Spec

=============================================================================
