-------------------------- MODULE KcpuvInvariant ---------------------------
(***************************************************************************)
(* The inductive invariant of Kcpuv: every key, conv and message that is   *)
(* anywhere, in a Conn, in flight or delivered, goes back to one entry of  *)
(* the server's request map.                                               *)
(***************************************************************************)
EXTENDS Kcpuv

(* The server gave this conv and this key to a request with nonce n.       *)
Served(n, conv, key) ==
  n \in DOMAIN map_req_conn /\ conv = map_req_conn[n] /\ key = issued_key[n]

(* A payload says whose connection it was sent on.                         *)
BodyOf(n, body) == body # Empty => body.n = n

(* A message found under conv was sent by an end of a connection the       *)
(* server made with that conv, not always the one that has it now.         *)
Genuine(conv, m) ==
  \E n \in Nonces : Served(n, conv, m.key) /\ BodyOf(n, m.body)

(* What an end has sent carries its key and its nonce.                     *)
OutInv(s) ==
  \A i \in 1..Len(s.out) : s.out[i].key = s.key /\ BodyOf(s.n, s.out[i].body)

(* A message the server has not read yet came in a datagram.               *)
Arrived(conv, m) ==
  \E d \in net : d.type = "kcp" /\ d.dst = Server /\ d.conv = conv /\ d.msg = m

ServerConnInv(conv) ==
  LET s == map_conn[conv]
  IN /\ s.conv = conv
     /\ s.status \in {"SND_CONV", "ESTABLISHED"}
     /\ Served(s.n, conv, s.key)
     /\ OutInv(s)
     /\ \A i \in 1..Len(s.inq) : Arrived(conv, s.inq[i])

ClientConnInv(c) ==
  LET s == conn[c]
  IN /\ s.status \in {"INVALID", "REQ_CONN", "ESTABLISHED"}
     /\ s.status = "REQ_CONN" => s.n \in Nonces
     /\ IF s.status = "ESTABLISHED" THEN Served(s.n, s.conv, s.key) ELSE s.out = <<>>
     /\ OutInv(s)
     /\ \A i \in 1..Len(s.inq) : Genuine(s.conv, s.inq[i])

DatagramInv(d) ==
  /\ d.type = "snd_conv" => Served(d.n, d.new_conv, d.key)
  /\ d.type = "kcp" => Genuine(d.conv, d.msg)

Injective(f) == \A x, y \in DOMAIN f : f[x] = f[y] => x = y

(* With it, every safety property of the connection layer follows by       *)
(* looking at one state.                                                   *)
HandshakeInv ==
  /\ TypeOK
  /\ Injective(issued_key)
  /\ ConvReuse \/ Injective(map_req_conn)
  /\ \A conv \in DOMAIN map_conn : ServerConnInv(conv)
  /\ \A c \in Clients : ClientConnInv(c)
  /\ \A d \in net : DatagramInv(d)
  /\ ConvReuse \/ EstablishedByKeyHolder
  /\ NoCrossTalk

-----------------------------------------------------------------------------
(* The streams of messages behind EndToEnd, when no conv is used twice.    *)

(* Client c has conv.                                                      *)
Established(c, conv) == conn[c].status = "ESTABLISHED" /\ conn[c].conv = conv

(* Segments of conv on their way to the server, and to a client.           *)
Upward(d, conv) == d.type = "kcp" /\ d.conv = conv /\ d.dst = Server
Downward(d, conv) == d.type = "kcp" /\ d.conv = conv /\ d.dst # Server

(* The server speaks to c on conv, or c to the server, now or once.        *)
Uses(c, conv) ==
  \/ Established(c, conv)
  \/ conv \in DOMAIN map_conn /\ map_conn[conv].addr = c
  \/ \E d \in net : \/ d.type = "snd_conv" /\ d.new_conv = conv /\ d.dst = c
                    \/ d.type = "kcp" /\ d.conv = conv /\ c \in {d.src, d.dst}

(* A conv has one client: offers go where the request came from, and only  *)
(* who got an offer sends segments, from which the server takes addresses. *)
AddressInv ==
  /\ \A d \in net : IF d.src = Server THEN d.dst \in Clients ELSE d.dst = Server
  /\ \A conv \in DOMAIN map_conn : map_conn[conv].addr \in Clients
  /\ \A c \in Clients : conn[c].addr = Server
  /\ \A conv \in Convs : \A c1, c2 \in Clients : Uses(c1, conv) /\ Uses(c2, conv) => c1 = c2

(* A client that is not established yet has sent and delivered nothing.    *)
FreshInv ==
  \A c \in Clients : pc[c] = "created" \/ conn[c].status = "REQ_CONN" =>
    queue_msg[c] = << >> /\ \A d \in net : d.type = "kcp" => d.src # c

(* The server delivers on behalf of requests only.                         *)
QueueInv ==
  \A i \in 1..Len(queue_msg[Server]) : queue_msg[Server][i].n \in DOMAIN map_req_conn

(* Payloads among the first p messages of a stream, and of nonce n among   *)
(* the first k that were delivered.                                        *)
SentUpTo(strm, p) == Cardinality({k \in 1..p : strm[k].body # Empty})
GotUpTo(q, n, k) == Cardinality({j \in 1..k : q[j].n = n})

(* The payloads of a stream are numbered from 1.                           *)
Numbered(strm) ==
  \A k \in 1..Len(strm) : strm[k].body # Empty => strm[k].body.i = SentUpTo(strm, k)

Carried(d, strm) == d.sn \in 1..Len(strm) /\ d.msg = strm[d.sn]

(* What s has read of strm: the last part is in inq, the payloads of the   *)
(* rest are in q.                                                          *)
Reads(s, q, strm) ==
  LET p == s.rcv_nxt - Len(s.inq)
  IN /\ p >= 0 /\ s.rcv_nxt =< Len(strm)
     /\ \A i \in 1..Len(s.inq) : s.inq[i] = strm[p + i]
     /\ GotUpTo(q, s.n, Len(q)) = SentUpTo(strm, p)

UpStream(conv, strm) ==
  /\ Numbered(strm)
  /\ \A d \in net : Upward(d, conv) => Carried(d, strm)
  /\ \A c \in Clients : Established(c, conv) => conn[c].out = strm
  /\ conv \in DOMAIN map_conn =>
       /\ Reads(map_conn[conv], queue_msg[Server], strm)
       /\ map_conn[conv].rcv_nxt > 0 => \E d \in net : Upward(d, conv)

DownStream(conv, strm) ==
  /\ Numbered(strm)
  /\ \A d \in net : Downward(d, conv) => Carried(d, strm)
  /\ conv \in DOMAIN map_conn => map_conn[conv].out = strm
  /\ \A c \in Clients : Established(c, conv) => Reads(conn[c], queue_msg[c], strm)

StreamUp(conv) == \E strm \in Seq(KeyedMsg) : UpStream(conv, strm)
StreamDown(conv) == \E strm \in Seq(KeyedMsg) : DownStream(conv, strm)

(* The inductive invariant of EndToEnd, next to HandshakeInv.              *)
EndToEndInv ==
  /\ AddressInv /\ FreshInv /\ QueueInv
  /\ \A conv \in Convs : StreamUp(conv) /\ StreamDown(conv)
  /\ EndToEnd

=============================================================================
