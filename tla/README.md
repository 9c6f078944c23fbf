# A TLA+ development for kcpuv

kcpuv is a small message-oriented network library: KCP (a reliable transport
over UDP, `kcp/ikcp.c`), and on top of it connections with a handshake, driven
by a libuv event loop (`src/*.cpp`). This directory holds TLA+ models of both
layers and of the trees libuv brings along (`libuv/inc/tree.h`), the TLC
configurations that check them, and TLAPS proofs about the transport, the
connection layer and several parts of a control block. Paths in this document
are relative to the root of the repository.

## 1. Inventory

| Part | State | Operations |
| --- | --- | --- |
| KCP control block (`kcp/ikcp.c`) | `snd_queue`, `snd_buf`, `rcv_buf`, `rcv_queue`, `snd_una`, `snd_nxt`, `rcv_nxt`, `rmt_wnd`, `acklist`, `probe`, timers, rtt, cwnd | `ikcp_send`, `ikcp_recv`, `ikcp_input`, `ikcp_flush`, `ikcp_update`, `ikcp_check` |
| `Conn`, `ConnClient`, `ConnServer` (`src/conn*.cpp`) | `_status`, `_conv`, `_key`, `_n`, `_addr`, expiry and resend ticks, a control block | `prepare_*`, `req_conn_run`, `snd_conn_run`, `on_recv_udp*`, `run`, `recv_kcp`, `send_kcp`, `expired`, `alive` |
| `Network` and the C API (`src/network.cpp`, `inc/kcpuv.h`) | `_map_conn`, `_map_req_conn`, `_queue_msg`, `_udp` (with its `data` pointer) | `kcpuv_listen`, `kcpuv_connect`, `kcpuv_run`, `kcpuv_send`, `kcpuv_recv`, `kcpuv_destroy`; the UDP callbacks |
| Clock, random numbers, log (`src/tm.cpp`, `rand.cpp`, `log.cpp`) | seed | `get_tick_ms`, `rand_uint32` |
| libuv (external) | sockets | callbacks inside `uv_run` |
| Trees (`libuv/inc/tree.h`) | intrusive red-black and splay trees | insert, remove, find, next, min and max, ... |

How they interact. Every host has one thread. `kcpuv_run` first lets `uv_run`
call back for every datagram that has arrived; the callback feeds it to a
`Conn` (`ikcp_input`), to the handshake of a client, or to `proc_req_conn`.
Then each connection is deleted if it has expired, or run: `ikcp_update`
flushes it, and `recv_kcp` drains it into `_queue_msg`. Concurrency is that of
hosts and of the path between them: UDP loses, repeats and reorders.

The handshake. The client sends `hs_req_conn_s` with a random `n`, up to ten
times, a second apart. The server makes a connection with a new conv and key
and offers them (`hs_snd_conv_s`) every second. The client adopts them and
answers with an empty message under the key, over KCP, after which both are
ESTABLISHED.

What is hard here: stale acknowledgements and windows; a receive queue at its
limit; the window update that is lost; repeated and late handshake datagrams;
a conv that is used again; connections that expire while datagrams for them
are in flight; 32-bit ticks and sequence numbers that wrap, on a wall clock that
may be set; integer arithmetic that truncates and overflows; datagrams filled to
the last byte; lists, counters and an array that grows, kept by hand.
`PROJECT.json` lists these hazards by line, each
with the properties that would notice.

## 2. Modules

| Module | What it is |
| --- | --- |
| `Fragments` | The two ends of a conversation and the fragments of a message (`ikcp_send`'s cutting). |
| `MsgPipe` | The abstract specification: whole messages, in order, each once. |
| `Kcp` | Two control blocks and the path between them. |
| `KcpInvariant` | The inductive invariant `IInv` of `Kcp`. |
| `KcpLive` | `Kcp` over a path with finitely many faults, with fairness. |
| `Ticks` | 32-bit ticks and numbers: wrapping addition, `_itimediff`. |
| `KcpSeq` | The core of `Kcp` with sequence numbers that wrap. |
| `KcpTimer` | `ikcp_update`, `ikcp_check`, `ikcp_interval`: when a control block is flushed. |
| `KcpRetransmit` | `resendts`, `rto`, `xmit`, `fastack`, `dead_link`: when a segment is sent again. |
| `KcpProbe` | `ts_probe`, `probe_wait`, WASK and WINS: how a closed window opens again. |
| `KcpRtt` | `ikcp_update_ack`: the round-trip estimate and the timeout. |
| `KcpCwnd` | `cwnd`, `incr`, `ssthresh`: the congestion window. |
| `KcpPack` | From a user's buffer to segments to datagrams and back. |
| `SegQueues` | The abstract specification of the four segment queues: sequences. |
| `KcpMemory` | The queues as linked lists with counters and allocation. |
| `KcpAckList` | The array of acknowledgements that grows. |
| `Buffers` | `KcpPack` and `KcpAckList` side by side, for the run and the proofs. |
| `Kcpuv` | The connection layer: one server, several clients, API, handshake, expiry. |
| `OrderedSet` | The abstract specification of both trees. |
| `RbTree`, `SplayTree` | The trees of `libuv/inc/tree.h`. |
| `MCKcp`, `MCKcpLive`, `MCKcpuv` | Small instances for TLC. |
| `MCQueues` | A small instance of `KcpMemory`, under the names `BufferProofs` uses. |
| `MCTiming`, `MCStructures` | Small instances of the parts of a control block and of the trees, one part moving at a time. |
| `KcpProofs` | Theorems about `Kcp`, its refinement of `MsgPipe` included. |
| `KcpuvInvariant` | The inductive invariants of `Kcpuv`: `HandshakeInv` and `EndToEndInv`. |
| `KcpuvProofs` | Theorems about `Kcpuv`. |
| `KcpTimerProofs`, `KcpSeqProofs`, `KcpProbeProofs` | Theorems about one part of a control block each. |
| `BufferProofs` | Theorems about `KcpPack`, `KcpAckList` and `KcpMemory`. |
| `TimingProofs` | The theorems about the parts as theorems about the run `kcp_timing`; the congestion window and the retransmissions. |
| `ArithmeticLemmas` | Remainders, signed differences, induction over the naturals, quotients. |

### Kcp and the code

Variables have the names of the fields of `IKCPCB`. `snd_buf` and `rcv_buf` are
lists sorted by `sn` in the code and sets of segments here; `sent` and
`delivered` are histories.

* `ikcp_send(e)`, `ikcp_recv(e)`: the user's calls. `ikcp_recv` includes
  `ikcp_peeksize`, the move of what is now in order and the "fast recover" that
  asks for a WINS.
* `Receive(e, d)`: `ikcp_input` of one segment: window, una, ack, then data
  (`ikcp_parse_data` and the move loop) or a probe. The datagram may stay in
  flight: that is duplication. `Lose(d)` is loss; reordering is the choice of `d`.
* `Flush(e)`: `ikcp_flush`: acknowledgements, probe timer, window commands, the
  move from `snd_queue` to `snd_buf`, new segments and resent ones.

Abstractions. Which segments a flush resends (timers, fast acks) and whether the
probe timer is due is a free choice, so every setting of the timers is
included. A datagram has one segment; a real one with several is several
consecutive inputs, of which UDP could lose or repeat a part: more behaviours
than the code has, so what is shown holds for the code. `acklist` is a set: a
repeated acknowledgement is a duplicated datagram. WASK and WINS carry the
`sn` of the last ACK flushed in the code and 0 here; `ikcp_input` does not look
at it. The congestion window is left out because `Conn::init_kcp` turns it off.
Sequence numbers do not wrap (`KcpSeq` is about those that do).

### The parts of a control block that Kcp leaves free

`Kcp` holds for every choice of timers, sizes and memory layout. The modules
below look at one of these each, with the rest of the control block reduced to
what that part reads.

* `KcpSeq`. A segment is its place in the stream, and the code sees only the
  place modulo `Modulus`. All comparisons go through `Itimediff`. They are right
  as long as the path forgets a datagram before half the numbers have been
  used (`SeqAssumption`); with 32 bits that is 2^31 segments.
* `KcpTimer`. `now` is the wall clock, which wraps and which `Jump` sets to
  another time; `quiet` and `nap` count the time that really passes. An
  application either polls, like `kcpuv_run`, or sleeps until `ikcp_check`'s time.
  `ikcp_interval` may come at any moment, between `ikcp_check` and the end of
  the sleep too.
* `KcpRetransmit`, `KcpProbe`. Timers are what is left of them. `Pass` is a tick,
  which may not happen while a flush or an arrival is overdue; a loss is a step
  that is counted. The properties bound times by the number of losses. In
  `KcpRetransmit` a copy of a segment is known by its `ts`, which the peer's
  acknowledgement echoes: the model numbers the copies, the code has the time
  they were sent at. The timeouts have a longest, as `IKCP_RTO_MAX` sees to.
* `KcpRtt`. The arithmetic of `ikcp_update_ack` with `IntMax` small: truncating
  division, unsigned `_imax_` and `_ibound_`, and, where a signed expression
  overflows (undefined in C), both the wrapped and the wide result.
* `KcpCwnd`. One flush and one datagram per step; which of them resend, time out or
  acknowledge is free. A datagram that `ikcp_input` refuses half-way does not
  grow the window.
* `KcpPack`. A byte is the message it belongs to and its place there, so that a
  byte that gets lost, doubled or misplaced shows. A flush is the walk of
  `ikcp_flush` over what is due (`Filled`), which puts segment after segment into
  the buffer and calls `ikcp_output` when there is no room (`Put`). `frg`, `sn` and `len` are
  encoded and decoded; conv and cmd are one flag, and una, wnd and ts are left
  to the other modules. The path may cut a datagram anywhere or damage one segment.
  `ikcp_setmtu` is called before the first message only, with nothing in flight:
  the code does not cut again what is queued, and kcpuv never calls it.
* `KcpMemory`. The heap is the next and prev fields of heads and segments and the set of
  allocated addresses; the macros of `ikcp.h` map a heap to the next one, and an
  allocation returns any free address. A loop over a queue is a recursive function of
  the number of rounds, with as many as there are addresses (`Rounds`): a queue is no
  longer than that, and a loop that has ended stays where it is. `ikcp_wndsize` may shrink the window under
  what is queued. The fields of a segment other than `sn` do not matter here. The history
  variable `input` holds what the last call was given (una, the acknowledged number, the
  number of the segment that arrived, ...). `SegQueues` has it too, so a step must do to
  the sequences what is right for its own input: a walk that drops another segment
  than the acknowledged one matches no step.
* `KcpAckList`. New memory holds `Junk`, so that a field that is read before it is
  written shows.

### Kcpuv and the code

Actions have the names of functions; `Network::run` after `uv_run` is
`client_expire`/`client_run` and `server_expire`/`server_run`, one step per
connection, and `Network::connect` is a start (`connect`), its loop
(`ConnectLoop`) and its ways out. A control block is reduced to what
`KcpProofs` shows of it: the stream of messages sent (all are resent
at each update), the number received, those not drained. `net` keeps every datagram
for ever, which is loss, delay, reordering and duplication in one. Ticks are
countdowns. `kcpuv_conv_valid` and `kcpuv_msg_free` change nothing.
`on_recv_udp_no_conn` is the client callback when `_udp.data` is NULL or
points to a deleted `Conn`: undefined, so the process dies or carries on.

Random values. `Nonces` may collide between clients. Keys are taken to be
different from each other. `ConvReuse` says whether a conv can be drawn again
after its connection has expired: rare with 31 bits, so the runs say which
properties need that it does not happen.

### The trees

`RbTree` has one operator per macro (`RB_ROTATE` is both rotations,
`RB_MINMAX` both ends), on a record of the entries and the root. Elements are the
caller's: two may have equal keys, and `RB_REMOVE` is called only with an element
that is in the tree, as the macro demands. `SplayTree` keeps the temporary node
of `SPLAY` and takes the tree apart and puts it together as the macros do; its
`SPLAY_REMOVE` takes any element and removes the one of equal key. Nothing in the
repository uses the splay tree: it is modelled because `tree.h` offers it, and says
nothing about the rest of the program.

### Refinements

`Kcp` implements `MsgPipe`, `KcpMemory` implements `SegQueues`, `RbTree` and
`SplayTree` implement `OrderedSet`. Each is an `INSTANCE ... WITH` in the
detailed module and a property of a run; the first is proved as well.

## 3. Runs

| Run | Result | What it asks |
| --- | --- | --- |
| `kcp_twoway` | pass | Both users send: type, `SentIsHeld`, `WindowBounds`, `NeverWedged`, `EdgesAdvance`, the inductive invariant `IInv`, and `Kcp` implements `MsgPipe`. |
| `kcp_wedge` | violation | Messages with more fragments than the receive window. |
| `kcp_live` | pass | Every message sent arrives. |
| `kcp_timing` | pass | What a control block computes about time and numbers (below). |
| `structures` | pass | An array, datagrams and trees (below). |
| `queues` | pass | The linked queues: `WellLinked`, and `KcpMemory` implements `SegQueues`. |
| `kcpuv_two` | pass | Two handshakes at once: agreement on conv and key, one connection per request (`OneConnPerRequest`), and the inductive invariant `HandshakeInv`. |
| `kcpuv_reuse` | pass | A conv used again: no cross-talk, no takeover. |
| `kcpuv_live` | pass | One client: payloads end to end (`EndToEnd`); `connect` returns, half-open connections end, gone clients are forgotten. |
| `kcpuv_freed` | violation | A datagram after the client's connection expired. |
| `kcpuv_key` | violation | ESTABLISHED without the key of the offer. |
| `kcpuv_reserved` | violation | A conv from the reserved range. |

`kcp_timing` holds six parts that share no variable, `structures` five. The
variable `part` names the one that moves in a behaviour and the others stay in an
initial state, so the run is the sum of the parts and not their product. The MC
module instantiates each part's module, renaming variables where two parts use
the same name, evaluates their assumptions and restates their properties (an
invariant of `structures` only where its part moves, a refinement for the steps
of its part: elsewhere the part's variables do not change).

| Part of `kcp_timing` | Properties |
| --- | --- |
| `KcpTimer` | `FlushOnTime`, `FlushSpaced`: flushes on time and not too often; `CheckInTime`: `ikcp_check` is never late |
| `KcpRetransmit` | `RecoversInTime`: a lost segment is acknowledged in bounded time; `Paid`: nothing is resent without a reason |
| `KcpProbe` | `ReopensInTime`: a window that opened is known in bounded time |
| `KcpSeq` | `InSequence`, `HeldUntilReceived`: numbers that wrap, order and no early forgetting |
| `KcpRtt` | `Recovers`: the timeout comes back to a settled path, whatever came before |
| `KcpCwnd` | `IncrMatches`: segments and bytes of the window agree; `Opens`: it opens on a calm path |

| Part of `structures` | Properties |
| --- | --- |
| `RbTree`, every operation | `RbImplementsSet`: it implements `OrderedSet` |
| `RbTree`, larger, updates | `RedBlack`: links and balance |
| `SplayTree` | `SplayImplementsSet`, `InOrder`: it implements `OrderedSet`, nothing is misplaced |
| `KcpAckList` | `Acknowledges`: a flush acknowledges exactly what was received |
| `KcpPack` | `Fits`, `Faithful`, `AllSent`: datagrams fit, messages arrive byte for byte, nothing is left in the buffer |

Bounds. `kcp_*`: windows of two (one in `kcp_live`), up to three fragments and
two datagrams in flight (three in
`kcp_live` and `kcp_wedge`): enough for a gap, a full queue with a segment waiting
in `rcv_buf`, a closed window, and an old datagram that overtakes two
generations of acknowledgements. `kcp_wedge` has three fragments and a window of
two where the code has 48 and 32. `NetCap` and `MaxSent` bound the state space
only; the proofs hold for every value of them. `kcpuv_*`: one or two clients, up
to two requests each, time-outs of one to three ticks in the order the code has
(resend =< expire =< connect), up to two messages per host and connection.
In `kcpuv_live` there is one request, so no conv is used again although
`ConvReuse` would allow it: that is what the mutant of `NewRequest` needs.
Symmetry is used in safety runs only, over values that nothing tells apart.
Hosts may all be destroyed, and then only `Tick` goes on: deadlock is checked in
every run but `queues`, where `KcpMemory` ends with `ikcp_release`.

`KcpSeq`: ten numbers, twelve segments, so that all of them are used again.
`KcpTimer`: 18 ticks, a limit of 4 where the code has 10 000, and jumps beyond
that limit in both directions and by half the range; intervals of 2 and 3, one
asked for below the least and one above the greatest.
`KcpRetransmit`: three segments, two losses, fast resend after two skips, a dead
link after three transmissions: a fast resend, a timeout and both of one
segment. `KcpProbe`: two losses and a limit that the second probe
reaches; a flush period longer than the path, so that a probe can meet an answer
that is due already.
`KcpRtt`: ints up to 1023 and timeouts up to 100, so that a sample of 1000
overflows as one of 2^30 does in the code. `KcpCwnd`: the least mss that
`ikcp_setmtu` allows, at which the integer steps are smallest, and advertised windows
below and above the send window. `KcpPack`: a byte of four values, headers of
two bytes and datagrams of four or five, messages of no bytes and of nine: the
latter have three segments or more than a byte can number. `KcpMemory`: four addresses,
so that each is freed and used again, four numbers that are sent and five that
arrive, windows of one and four. Those in a window arrive in every order, with
repetitions: a segment goes to the middle of `rcv_buf`, or to its front after three
steps back; an acknowledgement takes one out of the middle of `snd_buf`. The run looks at states
without `input` (`VIEW`), which no step reads; every step is checked nevertheless. `KcpAckList`: a first
block of two that doubles twice. `RbTree`: six and nine elements, with equal
keys; a removal reaches every case of `RB_REMOVE_COLOR`. `SplayTree`: six.

Fairness. In `KcpLive`: the application calls `kcpuv_run` for ever (as the
loop in `README.md` and the tests does), so each end is flushed and drained,
each resend timer and an armed probe timer run out, and a datagram that is not
lost arrives; at most `MaxFaults` are lost or repeated. In `Kcpuv`: time goes
on, `connect` goes round its loop, each connection is run again and again; no
datagram need ever arrive and no user need ever send. In `KcpRtt` and
`KcpCwnd`: segments go on being acknowledged and, in the latter, updates go on;
the path has settled or stopped losing, which is the premise of both properties.
The bounds on time in `KcpTimer`, `KcpRetransmit` and `KcpProbe` are invariants and need no fairness.

### What the four violations show

* A message of more than 32 segments (over 44 032 bytes) is accepted by
  `send_kcp`, whose limit is 64 KB, and can never be received.
* A client goes on calling `kcpuv_run` after its connection expired: `_udp.data`
  still points to the deleted `Conn`.
* A message with a wrong key is not delivered, but it counts: it keeps the
  connection alive and completes the handshake.
* `new_conv` does not avoid the reserved values 0..100.

The repository's `README.md` is out of date: line 60 says that the client
chooses the conv, and lines 22-23 pass one to `kcpuv_connect`; the server
chooses it and `kcpuv_connect` takes none. No run is about this.

## 4. Proofs

All theorems hold for every value of the constants that the named assumptions
allow; TLC evaluates the assumptions on each run.

### The transport

From `EndpointsAssumption` (two ends), `WindowAssumption` (windows are
positive), `MaxCountAssumption` and `BoundsAssumption`, in `KcpProofs`:

| Theorem | States |
| --- | --- |
| `TypeCorrect` | `Spec => []TypeOK` |
| `Invariance` | `Spec => []IInv` |
| `NothingLost` | `Spec => []SentIsHeld` |
| `Bounded` | `Spec => []WindowBounds` |
| `Monotonic` | `Spec => EdgesAdvance` |
| `Drainable` | `Spec => []NeverWedged` if `MaxCount =< IKCP_WND_RCV` |
| `Refinement` | `Spec => ImplementsPipe` |

The argument. None of the properties is inductive: each depends on what
datagrams already in flight will say when they arrive. `IInv` fixes a
fragment's place by its number (fragment `sn` of a stream is `sent[e][sn + 1]`):

* `StreamInv`: fragment numbers count down to 0 within each message;
* `SenderInv`: the stream is the numbered part followed by `snd_queue`, and
  `snd_buf` holds numbered fragments between `snd_una` and `snd_nxt`;
* `ReceiverInv`: what is delivered followed by `rcv_queue` is the first
  `rcv_nxt` fragments of the peer's stream, and `rcv_buf` holds later ones;
* `AckInv`, `DatagramInv`: what is acknowledged, in `acklist` or in any
  datagram however old, is held by who acknowledges it. This stays true
  because a receiver never gives up what it holds;
* `HeldInv`: a numbered fragment is in `snd_buf` or the peer holds it.

`NextInv` has a lemma per action (`SendInv`, `RecvInv`, `ReceiveInv`, `FlushInv`,
`LoseInv`). `MoveReadyEffect` is the heart of two of them: the move loop keeps the receiver's
part of the invariant and never drops a fragment (`Grows`). For the refinement,
`MessageEnds` shows that the loop of `ikcp_recv` always stops at a fragment with
`frg = 0`, never because the queue ran out; this is also what the code asserts
(`assert(len == peeksize)`, `kcp/ikcp.c:401`).

### The connection layer

From `KcpuvAssumption` (the server is no client, time-outs are positive and
ordered as in the code), in `KcpuvProofs`, for any number of clients:

| Theorem | States |
| --- | --- |
| `HandshakeInvariant` | `Spec => []HandshakeInv` |
| `KcpuvTypeCorrect` | `Spec => []TypeOK` |
| `AgreementHolds` | `Spec => []Agreement` |
| `OneConnPerRequestHolds` | `Spec => OneConnPerRequest`, a step property: also after a connection expired |
| `NoCrossTalkHolds` | `Spec => []NoCrossTalk`, convs used again included |
| `NoTakeoverHolds` | `Spec => NoTakeover`, convs used again included |
| `EstablishedByKeyHolderHolds` | `Spec => []EstablishedByKeyHolder` if `~ConvReuse` |
| `EndToEndHolds` | `Spec => []EndToEnd` if `~ConvReuse` |

Without `~ConvReuse` the last two are false: run `kcpuv_key` shows it for the
first, and a conv used again mixes old segments into a new stream.

`HandshakeInv` leads everything that carries a key back to the server's request
map: a key and a conv in a `Conn` or an offer were issued to the nonce that goes
with them (`Served`), and a message in flight or not yet read was sent by an end
of a connection that once had its conv, under that connection's key (`Genuine`,
`Arrived`). Keys differ, so what passes the key check in `recv_kcp` is the
connection's own. A lemma per action shows that it is kept.

`EndToEnd` needs in addition that there is one stream per conv and direction.
`EndToEndInv` says:

* `AddressInv`: a conv has one client. The server overwrites `_addr` with the
  source of any datagram, so this is about every datagram ever sent: offers go
  where the request came from, and only who got an offer sends segments;
* `FreshInv`, `QueueInv`: a client delivers nothing before it is established,
  the server nothing for a nonce that has asked for nothing;
* `UpStream`, `DownStream`: there is a sequence of messages that the sender's
  `out` is, as long as it exists, that every segment in flight quotes
  (`Carried`), of which the receiver has read a first part (`Reads`), and whose
  payloads are numbered from 1 without gaps (`Numbered`).

The stream is quantified and not taken from the sender, because segments
outlive their sender. TLC cannot enumerate that quantifier, so `EndToEndInv` is
proved and not checked; `EndToEnd` itself is checked by `kcpuv_live`.

### The parts of a control block

| Theorem, in `TimingProofs` | States, with `TimingSpec` | Assumptions |
| --- | --- | --- |
| `CheckAlwaysInTime` | `[]CheckInTime` | `TimerAssumption`, `ModulusAssumption` |
| `FlushAlwaysOnTime` | `[]FlushOnTime` | the same |
| `FlushAlwaysSpaced` | `FlushSpaced` | the same |
| `AlwaysInSequence` | `[]InSequence` | `SeqAssumption`, `ModulusAssumption` |
| `AlwaysHeldUntilReceived` | `[]HeldUntilReceived` | the same |
| `RecoversAlwaysInTime` | `[]RecoversInTime` | `RetransmitAssumption` |
| `AlwaysPaid` | `[]Paid` | the same |
| `ReopensAlwaysInTime` | `[]ReopensInTime` | `ProbeAssumption` |
| `IncrAlwaysMatches` | `[]IncrMatches` | `CwndAssumption` |

| Theorem, in `BufferProofs` | States | Assumptions |
| --- | --- | --- |
| `PackInvHolds` | `Spec => []PackInv` | `PackAssumption` |
| `FitsHolds` | `Spec => []Fits` | the same |
| `FaithfulHolds` | `Spec => []Faithful` | the same |
| `AllSentHolds` | `Spec => AllSent` | the same |
| `AcknowledgesHolds` | `Acks!Spec => []Acknowledges` | `AckAssumption`: a first block of any positive size |
| `WellLinkedHolds` | `Memory!Spec => []Memory!WellLinked` | `MemoryAssumption`: finitely many addresses, different from NULL and the heads |

`TimingProofs` shows that a
behaviour of `TimingSpec` is one of each part and takes the part's theorem from
its module; for the congestion window and the retransmissions the invariant
is proved there.

* `TimerInv` (`KcpTimerProofs`). `ts_flush` is where the code means it to be,
  ahead of the clock by at most the limit, or the clock was set and
  `ikcp_update` has not looked yet. `ItimediffTrue` says that `_itimediff` is
  the true difference of ticks less than half the range apart, which the
  assumptions guarantee (`4 * SlapLimit < Modulus`: 40 s against 49 days).
* `SeqInv` (`KcpSeqProofs`). Each number stands for one place in the stream, as long
  as both ends' windows and the oldest datagram are within half the range
  (`WindowsMeet`); an acknowledgement in flight names a segment the receiver
  got, and its `una` was true of the receiver once.
* `ResendInv` (`TimingProofs`). Neither property is inductive: both count losses,
  and what was lost can only be seen from what is missing. So every copy is
  followed: over the path, through the peer's `acklist` and back (`OnTheWay`).
  The k-th copy of a segment was sent by `LatestSend(k)` (`TimerInv`), and while
  a copy or its acknowledgement is on the way the segment's timer still has
  the rest of the round trip to run (`CopiesInv`). A timer that runs out
  therefore means that all copies are `Missing`, and copies are missing
  because they were lost (`MissingInv`): the n-th timeout has n losses to
  show, and a segment that waits has a copy on the way, sent no later than its
  losses allow. `PaidInv` is the account of `fastack`: what is in it, and
  what the fast resends have used of `skips`. `CalmInv` is for a path without
  losses: acknowledgements, `acklist` and data are in order, and in
  order after each other, so that nothing is passed over.
* `ProbeInv` (`KcpProbeProofs`). What ends a wait is always there and soon
  enough: an answer that is due, one on its way, a probe on its way, or the
  probe's timer (`WaitInv`); behind news that the window is shut comes news
  that it is open, unless that was lost (`NewsInv`). A loss costs one longest
  distance of probes, a round trip and a flush of **each** end: a WASK that
  meets an answer that is already due is merged with it.
* `CwndInv` (in `KcpCwnd`). `IncrMatches` is inductive with types; the work is in
  `RaisedBounds`, what one integer step of congestion avoidance can add.
* `PackInv` (`BufferProofs`). `Fits` depends on the size of what is still to be sent, and
  `Faithful` says nothing about what is still in a queue. `PackInv` says that there is
  one `stream`, the segments of all messages in order, with the places `at` where
  messages end (`StreamInv`), and that everything is a piece of it: `snd_queue` its
  end and `snd_buf` segments of its numbered part (`SenderInv`); a data segment in
  any datagram the one its `sn` says, in the form `ikcp_encode_seg` gives it
  (`Known`), in a datagram of at most mtu bytes (`Datagram`); `rcv_queue` what follows
  the messages received, `rcv_buf` later segments (`ReceiverInv`). What is needed
  of the operators is proved first: `ikcp_decode32u` undoes `ikcp_encode32u` below
  256^4 and `ikcp_decode8u` its counterpart below 256 (`Coded32`, `Coded8`); the
  pieces of `Cut` joined are the message (`Rejoined`); `Put` keeps a buffer that
  fits (`PutKeeps`) and a whole flush lays the new segments behind the old ones
  (`FlushedDatagrams`); whatever the path cuts off or damages, what `ikcp_input` reads is
  a segment of the datagram (`ReadableKnown`); `frg` of the first segment in the
  queue is right about how many belong to it (`NextMessage`). The bound on the number of
  segments that `Accepted` enforces is used in `Pieces`: without it `frg` does not
  fit its byte. `PackAssumption` has the order of the sizes that the code's
  constants have, byte counts below 2^32, and that numbers do not wrap
  (`MaxMsgs * MaxCount =< Word`; `KcpSeq` is about numbers that do).
  The quantifier over streams is beyond TLC, so `PackInv` is in no run.
* `AckInv` (`BufferProofs`). Between flushes the array holds what was heard,
  entry by entry, and is never overfull.
* `MemInv` (`BufferProofs`). `WellLinked` walks the queues, so one wrong pointer changes
  what it talks about. `MemInv` says instead that there is a sequence of segments
  per queue (`con`) that are together all that is allocated, each in one place
  (`Apart`); that `next` and `prev` of a head and its segments close a ring in that
  order (`Ring`); and that each counter is a length (`Good`). `Linked` is the same in
  the middle of an operation, with the segments that are allocated but in no
  queue (`out`). Of the macros, `IQUEUE_ADD` and `IQUEUE_ADD_TAIL` put a segment of
  `out` into one ring and `IQUEUE_DEL` takes one out, and the three rings they do not
  touch stay (`RingInsert`, `RingRemove`, `RingKept`; `LinkedAdd`, `LinkedAddTail`,
  `LinkedDel`). Each loop has a lemma for a round and one for the loop
  (`MoveOutGood`, `MoveUpGood`, `ParseUnaGood`, `QueuedGood`, `DropFirstGood`); that a
  node which `ikcp_parse_una` is about to look at is still linked after the one before it was
  freed is `DropInWalk`. That `ikcp_release` frees everything needs that
  no queue is longer than the number of addresses (`QueueShort`), and that the walk
  of `WellLinked` meets exactly `con` is `ContentsOf`. Which order `sn` has does not matter
  to any of this; it does to `ImplementsQueues`.

`Size`, `FlattenSeq`, `Filled`, the sizes of the acknowledgement array and the loops of
`KcpMemory` are recursive functions. The proofs find their values with finite tables: that a table exists is an
induction over a set of naturals (`SetInduction`, `LeastNat` of
`ArithmeticLemmas`), and the function is its last entry.

### Only model-checked

* Liveness: `EverythingArrives`, `ConnectReturns`, `HalfOpenEnds`,
  `GoneClientsForgotten`, `Recovers`, `Opens`. Fairness is beyond the prover.
* The trees (`RedBlack`, `InOrder` and their refinements of `OrderedSet`): their
  loops are RECURSIVE operators, which the prover cannot load.
* `ImplementsQueues`, that `KcpMemory` implements `SegQueues`. It needs, beyond
  `MemInv`, that `snd_buf` and `rcv_buf` are sorted and what `SelectSeq` returns on
  them, which is a recursive definition over the data.

## 5. Not modelled

Failures of allocation (the code asserts) and `ikcp_allocator`; `ikcp_setmtu`
while segments are queued; the peek mode of `ikcp_recv`; the splice macros of
`ikcp.h`, which nothing uses; a second `kcpuv_connect` on an object whose first
one failed; `kcpuv_destroy` of an object that never opened its socket; failures
of `uv_udp_send`; addresses that change. Libuv itself is not part of the
repository: of its headers only `tree.h` has code, the others are declarations.
Logging, platform code and tests have no state of interest.

## 6. Plan

Done: everything in sections 2 and 4. Left: `ImplementsQueues` from `MemInv` and
the order of the two buffers; the trees with recursive functions in place of
RECURSIVE operators, so that they can be proved about as `KcpMemory` is.
