------------------------------- MODULE Kcpuv -------------------------------
(***************************************************************************)
(* The connection layer of kcpuv: one Network that listens (the server)    *)
(* and several that connect (the clients), each with its event loop, over  *)
(* a UDP path that loses, reorders and duplicates datagrams.               *)
(*                                                                         *)
(* Every host is single-threaded.  Datagrams are received by callbacks     *)
(* inside uv_run, the first half of Network::run; the loop over _map_conn, *)
(* its second half, is one step per connection.                            *)
(*                                                                         *)
(* A control block of KCP is abstracted to what module Kcp shows of it:    *)
(* the messages sent so far (resent at every update), the number of those  *)
(* received (rcv_nxt) and the ones received but not yet taken.             *)
(*                                                                         *)
(* A datagram stays in net once it is sent: receiving it again is UDP      *)
(* duplicating or delaying it, never receiving it is UDP losing it.        *)
(*                                                                         *)
(* A tick T that the code compares with now is a countdown of the time    *)
(* left until now > T.                                                     *)
(***************************************************************************)
EXTENDS Integers, Sequences, FiniteSets

CONSTANTS
  Clients,        \* processes that call kcpuv_connect
  Server,         \* the process that calls kcpuv_listen
  Nonces,         \* values rand_uint32 gives to hs_req_conn_s.n
  Convs,          \* values rand_uint32 gives to new_conv
  Keys,           \* values rand_uint32 gives to new_key
  ConvReuse,      \* FALSE: rand_uint32 never gives the same conv twice
  ReqTimes,       \* _req_conn_times: requests a client sends (10)
  ResendInterval, \* pause between handshake datagrams (1000 ms)
  ExpireTimeout,  \* CONN_EXPIRED_TIMEOUT (30 * 1000 ms)
  ConnectTimeout, \* how long connect waits (10 * 1000000 ms)
  MaxOut          \* bound: MaxOut[h] messages h's user has on a connection

ASSUME KcpuvAssumption ==
  /\ Server \notin Clients
  /\ ConvReuse \in BOOLEAN
  /\ {ReqTimes, ResendInterval, ExpireTimeout, ConnectTimeout} \subseteq Nat \ {0}
  /\ MaxOut \in [Clients \cup {Server} -> Nat]
  /\ ResendInterval =< ExpireTimeout /\ ExpireTimeout =< ConnectTimeout

CONV_REQ_CONN == 1
CONV_RESERVED == 100

VARIABLES
  pc,           \* what the application of each host is doing
  conn,         \* conn[c]: the Conn of client c (its _map_conn once running)
  udp_data,     \* udp_data[c]: what _udp.data of client c points to
  waiting,      \* waiting[c]: countdown of connect's timeout
  map_conn,     \* server: conv -> Conn
  map_req_conn, \* server: n -> conv
  issued_key,   \* history: n -> key the server made for n
  queue_msg,    \* queue_msg[h]: messages push_msg was given
  taken,        \* taken[h]: how many of them kcpuv_recv has taken
  net,          \* every datagram sent so far
  bad_call      \* history: calls of a Conn that is gone

clientVars == <<conn, udp_data, waiting>>
serverVars == <<map_conn, map_req_conn, issued_key>>
msgVars == <<queue_msg, taken>>
vars == <<pc, clientVars, serverVars, msgVars, net, bad_call>>

Hosts == Clients \cup {Server}

NONE == 0  \* the value of _conv, _key, _n before they are set

-----------------------------------------------------------------------------
(* Messages on a connection and datagrams.                                 *)

(* A message is a pack header (key) and a payload; header only is an ack.  *)
Empty == [n |-> NONE, i |-> 0]
Msg(key, body) == [key |-> key, body |-> body]

ReqConn(c, n) == [type |-> "req_conn", dst |-> Server, src |-> c, n |-> n]

SndConv(s) == [type |-> "snd_conv", dst |-> s.addr, src |-> Server,
               n |-> s.n, new_conv |-> s.conv, key |-> s.key]

Push(s, src, sn) == [type |-> "kcp", dst |-> s.addr, src |-> src,
                     conv |-> s.conv, sn |-> sn, msg |-> s.out[sn]]

-----------------------------------------------------------------------------
(* Class Conn.                                                             *)

(* The constructors of Conn, ConnClient and ConnServer.                    *)
NewConn == [conv |-> NONE, key |-> NONE, n |-> NONE, status |-> "INVALID",
            addr |-> Server, times |-> 0, resend |-> 0, expire |-> 0,
            out |-> <<>>, rcv_nxt |-> 0, inq |-> <<>>]

NoConn == NewConn  \* no Conn object: status INVALID

(* A control block of its own: empty streams, which NewConn has already.   *)
init_kcp(s, conv) == [s EXCEPT !.conv = conv, !.out = <<>>, !.rcv_nxt = 0, !.inq = <<>>]

alive(s) == [s EXCEPT !.expire = ExpireTimeout]

(* Mutant of expired: only established connections expire.                 *)
ExpiredIfEstablished(s) == s.expire = 0 /\ s.status = "ESTABLISHED"

expired(s) == s.expire = 0

(* send_kcp and send_kcp_raw: ikcp_send a header with our key and a body.  *)
send_kcp(s, body) == [s EXCEPT !.out = Append(@, Msg(s.key, body))]

(* Conn::on_recv_udp: adopt the address, then ikcp_input, which refuses a  *)
(* foreign conv and takes the next message of the stream.                  *)
on_recv_udp(s, d) ==
  LET next == d.type = "kcp" /\ d.conv = s.conv /\ d.sn = s.rcv_nxt + 1
  IN [s EXCEPT !.addr = d.src,
               !.rcv_nxt = IF next THEN d.sn ELSE @,
               !.inq = IF next THEN Append(@, d.msg) ELSE @]

(* What q has at the places in I, in order.                                *)
Rank(I, i) == Cardinality({j \in I : j =< i})

Select(q, I) == [k \in 1..Cardinality(I) |-> q[CHOOSE i \in I : Rank(I, i) = k]]

(* recv_kcp returns 0 (a payload), 1 (an ack) or the length of a message   *)
(* whose key is wrong: all of these count for Conn::run, only payloads are *)
(* pushed.                                                                 *)
(* Mutants: the key is not compared; an ack is a payload; the failing call *)
(* that ends the loop of Conn::run is counted.                             *)
AnyKey(s, m) == TRUE
PayloadsAndAcks(s) == s.inq
MsgCntOffByOne(s) == Len(s.inq) + 1

KeyMatches(s, m) == m.key = s.key
PayloadsAt(s) == {i \in 1..Len(s.inq) : KeyMatches(s, s.inq[i]) /\ s.inq[i].body # Empty}
AcksAt(s) == {i \in 1..Len(s.inq) : KeyMatches(s, s.inq[i]) /\ s.inq[i].body = Empty}
Payloads(s) == Select(s.inq, PayloadsAt(s))
MsgCnt(s) == Len(s.inq)

(* ikcp_update sends every message of the stream that may be missing.      *)
Output(s, src) == {Push(s, src, sn) : sn \in 1..Len(s.out)}

(* Conn::run up to its return; a ConnServer answers each ack with an ack.  *)
RunConn(s, replies) ==
  LET drained == [s EXCEPT !.inq = <<>>,
                           !.out = @ \o [i \in 1..replies |-> Msg(s.key, Empty)]]
  IN IF MsgCnt(s) > 0 THEN alive(drained) ELSE drained

push_msg(h, s) ==
  queue_msg' = [queue_msg EXCEPT ![h] = @ \o
    [i \in 1..Len(Payloads(s)) |->
       [conv |-> s.conv, n |-> s.n, body |-> Payloads(s)[i].body]]]

-----------------------------------------------------------------------------

Init ==
  /\ pc = [h \in Hosts |-> "created"]
  /\ conn = [c \in Clients |-> NoConn]
  /\ udp_data = [c \in Clients |-> "none"]
  /\ waiting = [c \in Clients |-> 0]
  /\ map_conn = <<>>
  /\ map_req_conn = <<>>
  /\ issued_key = <<>>
  /\ queue_msg = [h \in Hosts |-> <<>>]
  /\ taken = [h \in Hosts |-> 0]
  /\ net = {}
  /\ bad_call = {}

Send(ds) == net' = net \cup ds

Bind(f, x, v) == [y \in DOMAIN f \cup {x} |-> IF y = x THEN v ELSE f[y]]

-----------------------------------------------------------------------------
(* Clients.                                                                *)

prepare_req_conn(n) ==
  [NewConn EXCEPT !.status = "REQ_CONN", !.n = n, !.times = ReqTimes]

(* kcpuv_connect up to its loop.                                           *)
connect(c) ==
  /\ pc[c] = "created"
  /\ \E n \in Nonces : conn' = [conn EXCEPT ![c] = prepare_req_conn(n)]
  /\ pc' = [pc EXCEPT ![c] = "connecting"]
  /\ udp_data' = [udp_data EXCEPT ![c] = "conn"]
  /\ waiting' = [waiting EXCEPT ![c] = ConnectTimeout]
  /\ UNCHANGED <<serverVars, msgVars, net, bad_call>>

(* A call to libuv fails before any datagram can be received.              *)
connect_error(c) ==
  /\ pc[c] = "created"
  /\ pc' = [pc EXCEPT ![c] = "failed"]
  /\ UNCHANGED <<clientVars, serverVars, msgVars, net, bad_call>>

(* Mutant of TimedOut: the time is looked at only while requests are left. *)
TimedOutWhileAsking(c) == waiting[c] = 0 /\ conn[c].times > 0

TimedOut(c) == waiting[c] = 0

(* The loop of connect, from the test after uv_run round to uv_run.        *)
connect_established(c) ==
  /\ pc[c] = "connecting"
  /\ conn[c].status = "ESTABLISHED"
  /\ pc' = [pc EXCEPT ![c] = "running"]
  /\ UNCHANGED <<clientVars, serverVars, msgVars, net, bad_call>>

connect_timeout(c) ==
  /\ pc[c] = "connecting"
  /\ conn[c].status # "ESTABLISHED"
  /\ TimedOut(c)
  /\ pc' = [pc EXCEPT ![c] = "failed"]
  /\ conn' = [conn EXCEPT ![c] = NoConn]
  /\ udp_data' = [udp_data EXCEPT ![c] = "null"]
  /\ UNCHANGED <<waiting, serverVars, msgVars, net, bad_call>>

req_conn_run(c) ==
  /\ pc[c] = "connecting"
  /\ ~TimedOut(c)
  /\ conn[c].status = "REQ_CONN"
  /\ conn[c].times > 0
  /\ conn[c].resend = 0
  /\ Send({ReqConn(c, conn[c].n)})
  /\ conn' = [conn EXCEPT ![c].times = @ - 1,
                          ![c].resend = ResendInterval]
  /\ UNCHANGED <<pc, udp_data, waiting, serverVars, msgVars, bad_call>>

(* on_recv_udp_snd_conv: adopt conv and key, queue the ack, be alive.      *)
on_recv_udp_snd_conv(s, d) ==
  IF d.type = "snd_conv" /\ d.n = s.n
  THEN alive(send_kcp([init_kcp(s, d.new_conv) EXCEPT !.key = d.key,
                                                      !.status = "ESTABLISHED"], Empty))
  ELSE s

on_recv_udp_client(c, d) ==
  /\ d.dst = c
  /\ udp_data[c] = "conn"
  /\ conn' = [conn EXCEPT ![c] = IF @.status = "REQ_CONN"
                                 THEN on_recv_udp_snd_conv(@, d)
                                 ELSE on_recv_udp(@, d)]
  /\ UNCHANGED <<pc, udp_data, waiting, serverVars, msgVars, net, bad_call>>

(* The same callback when _udp.data is NULL (connect timed out) or points  *)
(* to a deleted Conn (it expired): the process dies or carries on.         *)
on_recv_udp_no_conn(c, d) ==
  /\ d.dst = c
  /\ udp_data[c] \in {"null", "freed"}
  /\ bad_call' = bad_call \cup {<<c, udp_data[c]>>}
  /\ \/ /\ pc' = [pc EXCEPT ![c] = "crashed"]
        /\ udp_data' = [udp_data EXCEPT ![c] = "none"]
     \/ udp_data[c] = "freed" /\ UNCHANGED <<pc, udp_data>>
  /\ UNCHANGED <<conn, waiting, serverVars, msgVars, net>>

(* Network::run of a client for its connection.                            *)
client_expire(c) ==
  /\ pc[c] = "running"
  /\ conn[c].status = "ESTABLISHED"
  /\ expired(conn[c])
  /\ conn' = [conn EXCEPT ![c] = NoConn]
  /\ udp_data' = [udp_data EXCEPT ![c] = "freed"]
  /\ UNCHANGED <<pc, waiting, serverVars, msgVars, net, bad_call>>

client_run(c) ==
  /\ pc[c] = "running"
  /\ conn[c].status = "ESTABLISHED"
  /\ ~expired(conn[c])
  /\ Send(Output(conn[c], c))
  /\ push_msg(c, conn[c])
  /\ conn' = [conn EXCEPT ![c] = RunConn(@, 0)]
  /\ UNCHANGED <<pc, udp_data, waiting, serverVars, taken, bad_call>>

-----------------------------------------------------------------------------
(* The server.                                                             *)

kcpuv_listen ==
  /\ pc[Server] = "created"
  /\ pc' = [pc EXCEPT ![Server] = "running"]
  /\ UNCHANGED <<clientVars, serverVars, msgVars, net, bad_call>>

get_conn_by_conv(conv) == conv \in DOMAIN map_conn

(* Mutant of new_conv: live connections are not looked up.                 *)
NewConvUnchecked(conv) == conv \in Convs

(* new_conv: any value no live connection has.                             *)
new_conv(conv) ==
  /\ conv \in Convs /\ ~get_conn_by_conv(conv)
  /\ ConvReuse \/ \A n \in DOMAIN map_req_conn : map_req_conn[n] # conv

(* new_key: 31 random bits, taken to be different every time.              *)
new_key(key) ==
  key \in Keys /\ \A n \in DOMAIN issued_key : issued_key[n] # key

(* Mutant of prepare_snd_conv: the key is not kept.                        *)
PrepareWithoutKey(d, conv, key) ==
  init_kcp([NewConn EXCEPT !.status = "SND_CONV", !.addr = d.src, !.n = d.n], conv)

prepare_snd_conv(d, conv, key) ==
  init_kcp([NewConn EXCEPT !.status = "SND_CONV", !.addr = d.src, !.n = d.n,
                           !.key = key], conv)

(* Mutants of NewRequest: never refused; refused only while a connection   *)
(* of the same n is live.                                                  *)
NewRequestUnchecked(d) == TRUE
NewRequestUnlessLive(d) == \A conv \in DOMAIN map_conn : map_conn[conv].n # d.n

(* _map_req_conn is never erased: a request is served once.                *)
NewRequest(d) == d.n \notin DOMAIN map_req_conn

proc_req_conn(d) ==
  /\ pc[Server] = "running"
  /\ d.type = "req_conn"
  /\ NewRequest(d)
  /\ \E conv \in Convs, key \in Keys :
       /\ new_conv(conv)
       /\ new_key(key)
       /\ map_req_conn' = Bind(map_req_conn, d.n, conv)
       /\ issued_key' = Bind(issued_key, d.n, key)
       /\ map_conn' = Bind(map_conn, conv, alive(prepare_snd_conv(d, conv, key)))
  /\ UNCHANGED <<pc, clientVars, msgVars, net, bad_call>>

(* A segment goes to the connection its conv names; conv CONV_REQ_CONN is  *)
(* taken for a request, and dropped because a segment is too long for one. *)
on_recv_udp_server(d) ==
  /\ pc[Server] = "running"
  /\ d.type = "kcp" /\ d.dst = Server
  /\ d.conv # CONV_REQ_CONN
  /\ get_conn_by_conv(d.conv)
  /\ map_conn' = [map_conn EXCEPT ![d.conv] = on_recv_udp(@, d)]
  /\ UNCHANGED <<pc, clientVars, map_req_conn, issued_key, msgVars, net, bad_call>>

(* The callback of uv_udp_recv_start on the server.                        *)
on_recv_udp_callback(d) == proc_req_conn(d) \/ on_recv_udp_server(d)

(* Network::run of the server for one connection.                          *)
server_expire(conv) ==
  /\ pc[Server] = "running"
  /\ conv \in DOMAIN map_conn
  /\ expired(map_conn[conv])
  /\ map_conn' = [x \in DOMAIN map_conn \ {conv} |-> map_conn[x]]
  /\ UNCHANGED <<pc, clientVars, map_req_conn, issued_key, msgVars, net, bad_call>>

(* snd_conn_run sends the offer (again).                                   *)
snd_conn_run(s) == s.status = "SND_CONV" /\ MsgCnt(s) = 0 /\ s.resend = 0

server_run(conv) ==
  /\ pc[Server] = "running"
  /\ conv \in DOMAIN map_conn
  /\ ~expired(map_conn[conv])
  /\ LET s == map_conn[conv]
         r == RunConn(s, Cardinality(AcksAt(s)))
     IN /\ Send(Output(s, Server) \cup
                  (IF snd_conn_run(s) THEN {SndConv(s)} ELSE {}))
        /\ push_msg(Server, s)
        /\ map_conn' = [map_conn EXCEPT ![conv] = [r EXCEPT
             !.status = IF @ = "SND_CONV" /\ MsgCnt(s) > 0 THEN "ESTABLISHED" ELSE @,
             !.resend = IF snd_conn_run(s) THEN ResendInterval ELSE @]]
  /\ UNCHANGED <<pc, clientVars, map_req_conn, issued_key, taken, bad_call>>

-----------------------------------------------------------------------------
(* The application.                                                        *)

(* The body of the next payload on s, numbered; n says who it is meant for.*)
NextBody(s) ==
  [n |-> s.n, i |-> Cardinality({k \in 1..Len(s.out) : s.out[k].body # Empty}) + 1]

Bodies(s) == {Empty, NextBody(s)}

kcpuv_send_client(c) ==
  /\ pc[c] = "running"
  /\ conn[c].status = "ESTABLISHED"
  /\ Len(conn[c].out) < MaxOut[c]
  /\ \E body \in Bodies(conn[c]) :
       conn' = [conn EXCEPT ![c] = send_kcp(@, body)]
  /\ UNCHANGED <<pc, udp_data, waiting, serverVars, msgVars, net, bad_call>>

kcpuv_send_server(conv) ==
  /\ pc[Server] = "running"
  /\ get_conn_by_conv(conv)
  /\ Len(map_conn[conv].out) < MaxOut[Server]
  /\ \E body \in Bodies(map_conn[conv]) :
       map_conn' = [map_conn EXCEPT ![conv] = send_kcp(@, body)]
  /\ UNCHANGED <<pc, clientVars, map_req_conn, issued_key, msgVars, net, bad_call>>

kcpuv_recv(h) ==
  /\ pc[h] = "running"
  /\ taken[h] < Len(queue_msg[h])
  /\ taken' = [taken EXCEPT ![h] = @ + 1]
  /\ UNCHANGED <<pc, clientVars, serverVars, queue_msg, net, bad_call>>

kcpuv_destroy_client(c) ==
  /\ pc[c] \in {"running", "failed"}
  /\ pc' = [pc EXCEPT ![c] = "destroyed"]
  /\ conn' = [conn EXCEPT ![c] = NoConn]
  /\ udp_data' = [udp_data EXCEPT ![c] = "none"]
  /\ UNCHANGED <<waiting, serverVars, msgVars, net, bad_call>>

kcpuv_destroy_server ==
  /\ pc[Server] = "running"
  /\ pc' = [pc EXCEPT ![Server] = "destroyed"]
  /\ map_conn' = <<>>
  /\ UNCHANGED <<clientVars, map_req_conn, issued_key, msgVars, net, bad_call>>

-----------------------------------------------------------------------------

(* Mutant of Down: the difference of ticks goes below zero.                *)
DownBelowZero(t) == t - 1

Down(t) == IF t > 0 THEN t - 1 ELSE 0

Later(s) == [s EXCEPT !.resend = Down(@), !.expire = Down(@)]

(* get_tick_ms of every host advances.                                     *)
Tick ==
  /\ conn' = [c \in Clients |-> Later(conn[c])]
  /\ map_conn' = [conv \in DOMAIN map_conn |-> Later(map_conn[conv])]
  /\ waiting' = [c \in Clients |-> Down(waiting[c])]
  /\ UNCHANGED <<pc, udp_data, map_req_conn, issued_key, msgVars, net, bad_call>>

ClientRun(c) == client_expire(c) \/ client_run(c)

ConnectLoop(c) ==
  connect_established(c) \/ connect_timeout(c) \/ req_conn_run(c)

ServerRun(conv) == server_expire(conv) \/ server_run(conv)

Next ==
  \/ \E c \in Clients :
       \/ connect(c) \/ connect_error(c) \/ ConnectLoop(c)
       \/ ClientRun(c) \/ kcpuv_send_client(c) \/ kcpuv_destroy_client(c)
       \/ \E d \in net : on_recv_udp_client(c, d) \/ on_recv_udp_no_conn(c, d)
  \/ kcpuv_listen \/ kcpuv_destroy_server
  \/ \E d \in net : on_recv_udp_callback(d)
  \/ \E conv \in Convs : ServerRun(conv) \/ kcpuv_send_server(conv)
  \/ \E h \in Hosts : kcpuv_recv(h)
  \/ Tick

Spec == Init /\ [][Next]_vars

(* Time goes on, connect goes round its loop, and the application calls    *)
(* kcpuv_run again and again.  Nothing is assumed of the path or of what   *)
(* users send.                                                             *)
Fairness ==
  /\ WF_vars(Tick)
  /\ \A c \in Clients : WF_vars(ConnectLoop(c)) /\ WF_vars(ClientRun(c))
  /\ \A conv \in Convs : WF_vars(ServerRun(conv))

FairSpec == Spec /\ Fairness

-----------------------------------------------------------------------------
(* Properties.                                                             *)

Status == {"INVALID", "REQ_CONN", "SND_CONV", "ESTABLISHED"}

Body == [n : Nonces \cup {NONE}, i : Nat]

KeyedMsg == [key : Keys \cup {NONE}, body : Body]

Conn == [conv : Convs \cup {NONE}, key : Keys \cup {NONE},
         n : Nonces \cup {NONE}, status : Status, addr : Hosts,
         times : Nat, resend : Nat, expire : Nat,
         out : Seq(KeyedMsg), rcv_nxt : Nat, inq : Seq(KeyedMsg)]

Datagram ==
  [type : {"req_conn"}, dst : {Server}, src : Clients, n : Nonces]
  \cup [type : {"snd_conv"}, dst : Hosts, src : {Server}, n : Nonces,
        new_conv : Convs, key : Keys]
  \cup [type : {"kcp"}, dst : Hosts, src : Hosts, conv : Convs, sn : Nat \ {0},
        msg : KeyedMsg]

(* Every variable has its type.                                            *)
TypeOK ==
  /\ pc \in [Hosts -> {"created", "connecting", "running", "failed",
                       "destroyed", "crashed"}]
  /\ conn \in [Clients -> Conn]
  /\ udp_data \in [Clients -> {"none", "conn", "null", "freed"}]
  /\ waiting \in [Clients -> Nat]
  /\ DOMAIN map_conn \subseteq Convs
  /\ \A conv \in DOMAIN map_conn : map_conn[conv] \in Conn
  /\ DOMAIN map_req_conn \subseteq Nonces
  /\ \A n \in DOMAIN map_req_conn : map_req_conn[n] \in Convs
  /\ DOMAIN issued_key = DOMAIN map_req_conn
  /\ \A n \in DOMAIN issued_key : issued_key[n] \in Keys
  /\ queue_msg \in [Hosts -> Seq([conv : Convs, n : Nonces, body : Body])]
  /\ taken \in [Hosts -> Nat]
  /\ net \in SUBSET Datagram
  /\ bad_call \in SUBSET (Clients \X {"null", "freed"})

(* A client leaves the handshake (on_recv_udp_snd_conv) only with the conv *)
(* and the key the server made for its own n, whatever offers to it or to  *)
(* others are lost, repeated or late.                                      *)
Agreement ==
  \A c \in Clients : conn[c].status = "ESTABLISHED" =>
    /\ conn[c].n \in DOMAIN map_req_conn
    /\ conn[c].conv = map_req_conn[conn[c].n]
    /\ conn[c].key = issued_key[conn[c].n]

(* Some client has sent a message on conv, with the key the server has.    *)
Answered(conv) ==
  \E d \in net : /\ d.type = "kcp" /\ d.dst = Server
                 /\ d.conv = conv /\ d.msg.key = map_conn[conv].key

(* The server holds a connection ESTABLISHED only if some client answered  *)
(* its offer, with the key of that offer ("client response server to       *)
(* establish a new connection", hand_shake.h).                             *)
EstablishedByKeyHolder ==
  \A conv \in DOMAIN map_conn : map_conn[conv].status = "ESTABLISHED" => Answered(conv)

(* On each connection the application gets the payloads that were sent on  *)
(* it, in order, none missing in between and none twice, and no acks.      *)
EndToEnd ==
  \A h \in Hosts : \A k \in 1..Len(queue_msg[h]) :
    LET m == queue_msg[h][k]
    IN m.body = [n |-> m.n, i |-> Cardinality({j \in 1..k : queue_msg[h][j].n = m.n})]

(* Even when a conv is used again, the key check of recv_kcp keeps the     *)
(* payloads of its former connection from the application.                 *)
NoCrossTalk ==
  \A h \in Hosts : \A i \in 1..Len(queue_msg[h]) :
    queue_msg[h][i].body.n = queue_msg[h][i].n

(* A request makes one connection, however often it arrives, also after    *)
(* that connection has expired: an entry of _map_req_conn never changes,   *)
(* names the conv of the connection its n has, and keeps new ones from n.  *)
OneConnPerRequest ==
  [][/\ \A n \in DOMAIN map_req_conn :
          n \in DOMAIN map_req_conn' /\ map_req_conn'[n] = map_req_conn[n]
     /\ \A conv \in DOMAIN map_conn' :
          LET n == map_conn'[conv].n
          IN /\ n \in DOMAIN map_req_conn' /\ map_req_conn'[n] = conv
             /\ conv \notin DOMAIN map_conn => n \notin DOMAIN map_req_conn]_vars

(* While a conv is live at the server its peer's n and key never change    *)
(* and it never falls back from ESTABLISHED.                               *)
NoTakeover ==
  [][\A conv \in DOMAIN map_conn \cap DOMAIN map_conn' :
       /\ map_conn'[conv].n = map_conn[conv].n
       /\ map_conn'[conv].key = map_conn[conv].key
       /\ map_conn[conv].status = "ESTABLISHED" =>
            map_conn'[conv].status = "ESTABLISHED"]_vars

(* connect returns: with a connection, or with 0 after its timeout.        *)
ConnectReturns ==
  \A c \in Clients : (pc[c] = "connecting") ~> (pc[c] # "connecting")

(* A half-open connection of the server is established or given up.        *)
HalfOpen(conv) == conv \in DOMAIN map_conn /\ map_conn[conv].status = "SND_CONV"

HalfOpenEnds == \A conv \in Convs : HalfOpen(conv) ~> ~HalfOpen(conv)

(* Once every client is gone the server forgets all connections for good,  *)
(* although UDP may go on repeating their requests and data for ever.      *)
GoneClientsForgotten ==
  (\A c \in Clients : pc[c] \in {"failed", "destroyed", "crashed"})
    ~> [](DOMAIN map_conn = {})

(* No datagram reaches the Conn of a connection that has expired, although *)
(* the application may go on calling kcpuv_run, as the README's loop does. *)
ExpiredConnNotCalled == \A c \in Clients : <<c, "freed">> \notin bad_call

(* No connection has a conv the protocol reserves (hand_shake.h declares   *)
(* CONV_RESERVED and CONV_USER).                                           *)
ReservedConvsUnused == \A conv \in DOMAIN map_conn : conv \notin 0..CONV_RESERVED

=============================================================================
