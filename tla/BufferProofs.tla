---------------------------- MODULE BufferProofs ----------------------------
(***************************************************************************)
(* From a user's buffer to datagrams and back, for any sizes, any messages *)
(* and any damage on the path: the proofs about KcpPack.  After them those *)
(* about KcpAckList, the array of acknowledgements, and those about        *)
(* KcpMemory, the four linked queues the segments are kept in.             *)
(*                                                                         *)
(* FoldLeft, FlattenSeq, Filled and Block are recursive functions.  Each   *)
(* has a table here, a set of its first values; that the table exists is   *)
(* an induction, and the function is the table's last entry.               *)
(***************************************************************************)
EXTENDS Buffers, MCQueues, ArithmeticLemmas, FiniteSetTheorems, SequenceTheorems

-----------------------------------------------------------------------------
(* The invariant.                                                          *)

(* A byte, a message, a segment of at most mss bytes, the form it has on   *)
(* the path.                                                               *)
Octet == Nat \X Nat

Msg == Seq(Octet)

Segment == [frg : 0..(MaxCount - 1), data : {d \in Msg : Len(d) =< mss}]

Wire == [ok : BOOLEAN, push : BOOLEAN, frg : Seq(Nat), sn : Seq(Nat), len : Seq(Nat), data : Msg]

SizeInv ==
  /\ mtu \in Nat /\ mss \in Nat \ {0} /\ mss = mtu - IKCP_OVERHEAD
  /\ mtu < Word

(* All segments of all messages: those of message m end at place at[m].    *)
StreamInv(at, stream) ==
  /\ sent \in Seq(Msg) /\ Len(sent) =< MaxMsgs
  /\ at \in [0..Len(sent) -> Nat] /\ at[0] = 0
  /\ stream \in Seq(Segment) /\ Len(stream) = at[Len(sent)]
  /\ \A m \in 1..Len(sent) :
       /\ Accepted(Len(sent[m]))
       /\ at[m] = at[m - 1] + Segments(Len(sent[m])) /\ at[m] =< m * MaxCount
       /\ \A k \in 1..Segments(Len(sent[m])) : stream[at[m - 1] + k] = Cut(sent[m])[k]

(* What has a number is in its place, what has none comes next.            *)
SenderInv(stream) ==
  /\ snd_nxt \in Nat /\ snd_queue \in Seq(Segment)
  /\ snd_nxt + Len(snd_queue) = Len(stream)
  /\ \A i \in 1..Len(snd_queue) : snd_queue[i] = stream[snd_nxt + i]
  /\ DOMAIN snd_buf \subseteq 0..(snd_nxt - 1)
  /\ \A sn \in DOMAIN snd_buf : snd_buf[sn] = stream[sn + 1]

(* What a flush puts on the path: segments of the stream up to number      *)
(* nxt - 1 and those without data, in datagrams of at most mtu bytes.      *)
Known(stream, nxt) ==
  {w \in Wire : \/ w = Small
                \/ \E sn \in 0..(nxt - 1) : w = ikcp_encode_seg(sn, stream[sn + 1])}

Datagram(stream, nxt) ==
  {d \in Seq(Known(stream, nxt)) : 0 < Size(d) /\ Size(d) =< mtu}

(* The receiver has whole messages in `received', the next segments in     *)
(* rcv_queue and rcv_buf.                                                  *)
ReceiverInv(at, stream) ==
  /\ rcv_nxt \in 0..snd_nxt /\ rcv_queue \in Seq(Segment)
  /\ DOMAIN rcv_buf \subseteq 0..(snd_nxt - 1)
  /\ \A sn \in DOMAIN rcv_buf : rcv_buf[sn] = stream[sn + 1]
  /\ received \in Seq(Msg) /\ Len(received) =< Len(sent)
  /\ at[Len(received)] + Len(rcv_queue) = rcv_nxt
  /\ \A i \in 1..Len(rcv_queue) : rcv_queue[i] = stream[at[Len(received)] + i]
  /\ \A m \in 1..Len(received) : received[m] = sent[m]

PackInv ==
  /\ SizeInv
  /\ \E at, stream :
       /\ StreamInv(at, stream) /\ SenderInv(stream)
       /\ net \in Seq(Datagram(stream, snd_nxt)) /\ ReceiverInv(at, stream)

-----------------------------------------------------------------------------
(* The size of a datagram. FoldLeft is a recursive function over sets of   *)
(* places; here it is defined, and for the sets 1..k it is the running sum.*)

SizeTable(s, k, f) ==
  f = [x \in SUBSET (1..k) |->
         IF x = {} THEN 0 ELSE f[x \ {Max(x)}] + Need(s[Max(x)])]

(* The largest of some of the numbers up to k + 1, if k + 1 is one.        *)
LEMMA TopMax ==
  ASSUME NEW k \in Nat, NEW x \in SUBSET (1..(k + 1)), k + 1 \in x
  PROVE  Max(x) = k + 1 /\ x \ {k + 1} \in SUBSET (1..k)
<1>1. \A y \in x : y \in Int /\ k + 1 >= y
  OBVIOUS
<1>2. Max(x) \in x /\ \A y \in x : Max(x) >= y
  <2>1. \E m \in x : \A y \in x : m >= y
    BY <1>1
  <2> QED
    BY <2>1 DEF Max
<1>3. Max(x) = k + 1
  <2>1. PICK m \in x : m = Max(x) /\ \A y \in x : m >= y
    BY <1>2
  <2>2. m \in Int /\ k + 1 >= m /\ m >= k + 1
    BY <1>1, <2>1
  <2> QED
    BY <2>1, <2>2
<1>4. \A y \in x \ {k + 1} : y \in 1..k
  BY <1>1
<1> QED
  BY <1>3, <1>4

(* The table exists.                                                       *)
LEMMA SizeTableExists ==
  ASSUME NEW s, NEW n \in Nat
  PROVE  \E f : SizeTable(s, n, f)
<1> DEFINE T == {k \in Nat : \E f : SizeTable(s, k, f)}
<1>1. 0 \in T
  <2> DEFINE f == [x \in SUBSET (1..0) |-> 0]
  <2>1. \A x \in SUBSET (1..0) : x = {}
    OBVIOUS
  <2>2. SizeTable(s, 0, f)
    BY <2>1 DEF SizeTable
  <2> QED
    BY <2>2
<1>2. ASSUME NEW k \in Nat, k \in T PROVE k + 1 \in T
  <2>1. PICK f : SizeTable(s, k, f)
    BY <1>2
  <2> DEFINE g == [x \in SUBSET (1..(k + 1)) |->
                     IF x \in SUBSET (1..k) THEN f[x]
                     ELSE f[x \ {k + 1}] + Need(s[k + 1])]
  <2>2. ASSUME NEW x \in SUBSET (1..(k + 1))
        PROVE  g[x] = IF x = {} THEN 0 ELSE g[x \ {Max(x)}] + Need(s[Max(x)])
    <3>1. CASE x \in SUBSET (1..k)
      <4>1. g[x] = f[x]
        BY <3>1
      <4>2. f[x] = IF x = {} THEN 0 ELSE f[x \ {Max(x)}] + Need(s[Max(x)])
        BY <2>1, <3>1 DEF SizeTable
      <4>3. x \ {Max(x)} \in SUBSET (1..k) /\ x \ {Max(x)} \in SUBSET (1..(k + 1))
        BY <3>1
      <4>4. g[x \ {Max(x)}] = f[x \ {Max(x)}]
        BY <4>3
      <4> HIDE DEF g
      <4> QED
        BY <4>1, <4>2, <4>4
    <3>2. CASE x \notin SUBSET (1..k)
      <4>1. k + 1 \in x
        BY <3>2
      <4>2. Max(x) = k + 1 /\ x \ {k + 1} \in SUBSET (1..k) /\ x # {}
        BY <4>1, TopMax
      <4>3. x \ {k + 1} \in SUBSET (1..(k + 1))
        OBVIOUS
      <4>4. g[x \ {k + 1}] = f[x \ {k + 1}]
        BY <4>2, <4>3
      <4>5. g[x] = f[x \ {k + 1}] + Need(s[k + 1])
        BY <3>2
      <4> HIDE DEF g
      <4> QED
        BY <4>2, <4>4, <4>5
    <3> QED
      BY <3>1, <3>2
  <2>3. g = [x \in SUBSET (1..(k + 1)) |->
               IF x = {} THEN 0 ELSE g[x \ {Max(x)}] + Need(s[Max(x)])]
    BY <2>2
  <2>4. SizeTable(s, k + 1, g)
    BY <2>3, Zenon DEF SizeTable
  <2> QED
    BY <2>4
<1>3. Nat \subseteq T
  <2> HIDE DEF T
  <2> QED
    BY <1>1, <1>2, SetInduction
<1> QED
  BY <1>3

(* What it holds for the first k places.                                   *)
LEMMA SizeTableStep ==
  ASSUME NEW s, NEW n \in Nat, NEW f, SizeTable(s, n, f)
  PROVE  /\ f[1..0] = 0
         /\ \A k \in 1..n : f[1..k] = f[1..(k - 1)] + Need(s[k])
<1>1. f[1..0] = 0
  <2>1. 1..0 = {} /\ {} \in SUBSET (1..n)
    OBVIOUS
  <2>2. f[{}] = 0
    BY <2>1 DEF SizeTable
  <2> QED
    BY <2>1, <2>2
<1>2. ASSUME NEW k \in 1..n PROVE f[1..k] = f[1..(k - 1)] + Need(s[k])
  <2>1. PICK j \in Nat : k = j + 1
    <3>1. k - 1 \in Nat /\ k = (k - 1) + 1
      OBVIOUS
    <3> QED
      BY <3>1
  <2>2. 1..k \in SUBSET (1..(j + 1)) /\ j + 1 \in 1..k
    BY <2>1
  <2>3. Max(1..k) = k
    BY <2>1, <2>2, TopMax
  <2>4. (1..k) \ {k} = 1..(k - 1)
    OBVIOUS
  <2>5. 1..k \in SUBSET (1..n) /\ 1..k # {}
    OBVIOUS
  <2>6. f[1..k] = f[(1..k) \ {Max(1..k)}] + Need(s[Max(1..k)])
    BY <2>5 DEF SizeTable
  <2> QED
    BY <2>3, <2>4, <2>6
<1> QED
  BY <1>1, <1>2

(* Size is the entry for all segments.                                     *)
LEMMA SizeIsTable ==
  ASSUME NEW X, NEW s \in Seq(X)
  PROVE  \E f : SizeTable(s, Len(s), f) /\ Size(s) = f[1..Len(s)]
<1> DEFINE n == Len(s)
<1>1. n \in Nat /\ DOMAIN s = 1..n
  OBVIOUS
<1> HIDE DEF n
<1> DEFINE f == CHOOSE g : g = [x \in SUBSET (1..n) |->
                                  IF x = {} THEN 0 ELSE g[x \ {Max(x)}] + Need(s[Max(x)])]
<1>2. \E g : g = [x \in SUBSET (1..n) |->
                    IF x = {} THEN 0 ELSE g[x \ {Max(x)}] + Need(s[Max(x)])]
  BY <1>1, SizeTableExists DEF SizeTable
<1>3. f = [x \in SUBSET (1..n) |->
             IF x = {} THEN 0 ELSE f[x \ {Max(x)}] + Need(s[Max(x)])]
  BY <1>2
<1>4. Size(s) = f[1..n]
  BY <1>1 DEF Size, FoldLeft, MapThenFoldSet
<1> HIDE DEF f
<1>5. SizeTable(s, n, f)
  BY <1>3 DEF SizeTable
<1> QED
  BY <1>4, <1>5 DEF n

(* The size is a sum.                                                      *)
LEMMA Sizes ==
  ASSUME NEW X, \A x \in X : Need(x) \in Nat
  PROVE  /\ Size(<< >>) = 0
         /\ \A s \in Seq(X) : Size(s) \in Nat
         /\ \A s \in Seq(X), w \in X : Size(Append(s, w)) = Size(s) + Need(w)
<1>1. Size(<< >>) = 0
  <2>1. << >> \in Seq(X) /\ Len(<< >>) = 0
    OBVIOUS
  <2>2. PICK f : SizeTable(<< >>, 0, f) /\ Size(<< >>) = f[1..0]
    BY <2>1, SizeIsTable
  <2> QED
    BY <2>2, SizeTableStep
<1>2. ASSUME NEW s \in Seq(X) PROVE Size(s) \in Nat
  <2>1. PICK n \in Nat : n = Len(s) /\ DOMAIN s = 1..n /\ \A k \in 1..n : s[k] \in X
    OBVIOUS
  <2>2. PICK f : SizeTable(s, n, f) /\ Size(s) = f[1..n]
    BY <2>1, SizeIsTable
  <2> DEFINE T == {k \in Nat : k =< n => f[1..k] \in Nat}
  <2>3. 0 \in T
    BY <2>2, SizeTableStep
  <2>4. ASSUME NEW k \in Nat, k \in T PROVE k + 1 \in T
    <3>1. CASE k + 1 =< n
      <4>1. k + 1 \in 1..n /\ (k + 1) - 1 = k /\ k =< n
        BY <3>1
      <4>2. f[1..(k + 1)] = f[1..k] + Need(s[k + 1])
        BY <2>2, <4>1, SizeTableStep
      <4>3. f[1..k] \in Nat /\ Need(s[k + 1]) \in Nat
        BY <2>1, <2>4, <4>1
      <4> QED
        BY <4>2, <4>3
    <3>2. CASE ~(k + 1 =< n)
      BY <3>2
    <3> QED
      BY <3>1, <3>2
  <2>5. Nat \subseteq T
    <3> HIDE DEF T
    <3> QED
      BY <2>3, <2>4, SetInduction
  <2> QED
    BY <2>2, <2>5
<1>3. ASSUME NEW s \in Seq(X), NEW w \in X PROVE Size(Append(s, w)) = Size(s) + Need(w)
  <2> DEFINE t == Append(s, w)
  <2>1. PICK n \in Nat : n = Len(s) /\ DOMAIN s = 1..n
    OBVIOUS
  <2>2. t \in Seq(X) /\ Len(t) = n + 1 /\ t[n + 1] = w /\ \A k \in 1..n : t[k] = s[k]
    BY <2>1
  <2> HIDE DEF t
  <2>3. PICK f : SizeTable(s, n, f) /\ Size(s) = f[1..n]
    BY <2>1, SizeIsTable
  <2>4. PICK g : SizeTable(t, n + 1, g) /\ Size(t) = g[1..(n + 1)]
    BY <2>2, SizeIsTable
  <2>5. f[1..0] = 0 /\ \A k \in 1..n : f[1..k] = f[1..(k - 1)] + Need(s[k])
    BY <2>3, SizeTableStep
  <2>6. /\ g[1..0] = 0
        /\ \A k \in 1..(n + 1) : g[1..k] = g[1..(k - 1)] + Need(t[k])
    <3>1. n + 1 \in Nat
      OBVIOUS
    <3> QED
      BY <2>4, <3>1, SizeTableStep
  <2> DEFINE T == {k \in Nat : k =< n => g[1..k] = f[1..k]}
  <2>7. 0 \in T
    BY <2>5, <2>6
  <2>8. ASSUME NEW k \in Nat, k \in T PROVE k + 1 \in T
    <3>1. CASE k + 1 =< n
      <4>1. k + 1 \in 1..n /\ k + 1 \in 1..(n + 1) /\ (k + 1) - 1 = k /\ k =< n
        BY <3>1
      <4>2. f[1..(k + 1)] = f[1..k] + Need(s[k + 1])
        BY <2>5, <4>1
      <4>3. g[1..(k + 1)] = g[1..k] + Need(s[k + 1])
        BY <2>2, <2>6, <4>1
      <4>4. g[1..k] = f[1..k]
        BY <2>8, <4>1
      <4> QED
        BY <4>2, <4>3, <4>4
    <3>2. CASE ~(k + 1 =< n)
      BY <3>2
    <3> QED
      BY <3>1, <3>2
  <2>9. Nat \subseteq T
    <3> HIDE DEF T
    <3> QED
      BY <2>7, <2>8, SetInduction
  <2>10. g[1..n] = f[1..n]
    BY <2>9
  <2>11. g[1..(n + 1)] = g[1..n] + Need(t[n + 1])
    <3>1. n + 1 \in 1..(n + 1) /\ (n + 1) - 1 = n
      OBVIOUS
    <3> QED
      BY <2>6, <3>1
  <2> QED
    BY <2>2, <2>3, <2>4, <2>10, <2>11 DEF t
<1> QED
  BY <1>1, <1>2, <1>3

-----------------------------------------------------------------------------
(* Numbers on the path.                                                    *)

(* What the proofs use of the constants.                                   *)
LEMMA PackConstants ==
  ASSUME PackAssumption
  PROVE  /\ Byte \in Nat \ {0} /\ MaxCount \in Nat \ {0} /\ MaxCount < Byte
         /\ IKCP_OVERHEAD \in Nat \ {0} /\ IKCP_MTU_DEF \in Nat /\ MinMtu \in Nat
         /\ IKCP_OVERHEAD < MinMtu /\ MinMtu =< IKCP_MTU_DEF /\ IKCP_MTU_DEF < Word
         /\ MaxMsgs \in Nat /\ MaxSmall \in Nat
         /\ Word \in Nat \ {0} /\ MaxMsgs * MaxCount =< Word
<1>1. /\ Byte \in Nat \ {0} /\ MaxCount \in Nat \ {0} /\ MaxCount < Byte
      /\ IKCP_OVERHEAD \in Nat \ {0} /\ IKCP_MTU_DEF \in Nat /\ MinMtu \in Nat
      /\ IKCP_OVERHEAD < MinMtu /\ MinMtu =< IKCP_MTU_DEF /\ IKCP_MTU_DEF < Word
      /\ MaxMsgs \in Nat /\ MaxSmall \in Nat /\ MaxMsgs * MaxCount =< Word
  BY DEF PackAssumption
<1>2. Word \in Nat \ {0}
  <2>1. ASSUME NEW a \in Nat \ {0}, NEW b \in Nat \ {0} PROVE a * b \in Nat \ {0}
    OBVIOUS
  <2>2. Byte * Byte \in Nat \ {0}
    BY <1>1, <2>1
  <2>3. Byte * Byte * Byte \in Nat \ {0}
    BY <1>1, <2>1, <2>2
  <2>4. Byte * Byte * Byte * Byte \in Nat \ {0}
    BY <1>1, <2>1, <2>3
  <2> QED
    BY <2>4 DEF Word
<1> QED
  BY <1>1, <1>2

(* A number, its lowest byte and the rest.                                 *)
LEMMA LowByte ==
  ASSUME NEW B \in Nat \ {0}, NEW v \in Nat
  PROVE  v \div B \in Nat /\ v % B \in 0..(B - 1) /\ (v % B) + B * (v \div B) = v
OBVIOUS

(* The same, with names for the two.                                       *)
LEMMA LowBytes ==
  ASSUME NEW B \in Nat \ {0}, NEW v \in Nat
  PROVE  \E q, r \in Nat : q = v \div B /\ r = v % B /\ r + B * q = v
<1>1. v \div B \in Nat /\ v % B \in Nat /\ (v % B) + B * (v \div B) = v
  BY LowByte
<1> QED
  BY <1>1

(* ikcp_decode8u reads what ikcp_encode8u wrote.                           *)
LEMMA Coded8 ==
  ASSUME PackAssumption, NEW v \in 0..(Byte - 1)
  PROVE  ikcp_encode8u(v) \in Seq(Nat) /\ ikcp_decode8u(ikcp_encode8u(v)) = v
<1>1. v % Byte = v
  BY PackConstants, RemainderSigned
<1> QED
  BY <1>1 DEF ikcp_encode8u, ikcp_decode8u

(* ikcp_decode32u reads what ikcp_encode32u wrote.                         *)
LEMMA Coded32 ==
  ASSUME PackAssumption, NEW v \in 0..(Word - 1)
  PROVE  ikcp_encode32u(v) \in Seq(Nat) /\ ikcp_decode32u(ikcp_encode32u(v)) = v
<1>1. PICK B \in Nat \ {0} : B = Byte
  BY PackConstants
<1>2. v \in Nat /\ Word = B * B * B * B
  BY <1>1, PackConstants DEF Word
<1>3. PICK q \in Nat, r \in Nat : q = v \div B /\ r = v % B /\ r + B * q = v
  BY <1>2, LowBytes
<1>4. PICK q2 \in Nat, r2 \in Nat : q2 = q \div B /\ r2 = q % B /\ r2 + B * q2 = q
  BY LowBytes
<1>5. PICK q3 \in Nat, r3 \in Nat : q3 = q2 \div B /\ r3 = q2 % B /\ r3 + B * q3 = q2
  BY LowBytes
<1>6. q3 < B
  <2> SUFFICES ASSUME B =< q3 PROVE FALSE
    OBVIOUS
  <2>1. q2 >= B * B
    <3>1. B * B =< q3 * B
      BY Products
    <3> QED
      BY <1>5, <3>1
  <2>2. B * B \in Nat
    BY Products
  <2>3. q >= (B * B) * B
    <3>1. (B * B) * B =< q2 * B
      BY <2>1, <2>2, Products
    <3> QED
      BY <1>4, <2>2, <3>1
  <2>4. (B * B) * B \in Nat
    BY <2>2, Products
  <2>5. v >= ((B * B) * B) * B
    <3>1. ((B * B) * B) * B =< q * B
      BY <2>3, <2>4, Products
    <3> QED
      BY <1>2, <1>3, <2>4, <3>1
  <2> QED
    BY <1>2, <2>5
<1>7. q3 % B = q3
  BY <1>6, RemainderSigned
<1>8. ikcp_encode32u(v) = <<r, r2, r3, q3>>
  BY <1>1, <1>3, <1>4, <1>5, <1>7 DEF ikcp_encode32u
<1>9. ikcp_decode32u(<<r, r2, r3, q3>>) = r + B * (r2 + B * (r3 + B * q3))
  BY <1>1 DEF ikcp_decode32u
<1>10. r + B * (r2 + B * (r3 + B * q3)) = v
  BY <1>3, <1>4, <1>5
<1>11. <<r, r2, r3, q3>> \in Seq(Nat)
  OBVIOUS
<1> QED
  BY <1>8, <1>9, <1>10, <1>11

-----------------------------------------------------------------------------
(* Sequences joined.                                                       *)

FlatTable(s, n, f) == f = [i \in 1..n |-> IF i = 1 THEN s[i] ELSE f[i - 1] \o s[i]]

(* The table exists.                                                       *)
LEMMA FlatTableExists ==
  ASSUME NEW s, NEW n \in Nat
  PROVE  \E f : FlatTable(s, n, f)
<1> DEFINE T == {k \in Nat : \E f : FlatTable(s, k, f)}
<1>1. 0 \in T
  <2>1. FlatTable(s, 0, [i \in 1..0 |-> 0])
    BY DEF FlatTable
  <2> QED
    BY <2>1
<1>2. ASSUME NEW k \in Nat, k \in T PROVE k + 1 \in T
  <2>1. PICK f : FlatTable(s, k, f)
    BY <1>2
  <2> DEFINE g == [i \in 1..(k + 1) |-> IF i =< k THEN f[i]
                                        ELSE IF i = 1 THEN s[i] ELSE f[i - 1] \o s[i]]
  <2>2. ASSUME NEW i \in 1..(k + 1) PROVE g[i] = IF i = 1 THEN s[i] ELSE g[i - 1] \o s[i]
    <3>1. CASE i =< k
      <4>1. i \in 1..k /\ g[i] = f[i]
        BY <3>1
      <4>2. f[i] = IF i = 1 THEN s[i] ELSE f[i - 1] \o s[i]
        BY <2>1, <4>1 DEF FlatTable
      <4>3. i # 1 => g[i - 1] = f[i - 1]
        BY <3>1
      <4> HIDE DEF g
      <4> QED
        BY <4>1, <4>2, <4>3
    <3>2. CASE i = k + 1
      <4>1. g[i] = IF i = 1 THEN s[i] ELSE f[i - 1] \o s[i]
        BY <3>2
      <4>2. i # 1 => g[i - 1] = f[i - 1]
        BY <3>2
      <4> HIDE DEF g
      <4> QED
        BY <4>1, <4>2
    <3> QED
      BY <3>1, <3>2
  <2>3. FlatTable(s, k + 1, g)
    BY <2>2 DEF FlatTable
  <2> QED
    BY <2>3
<1>3. Nat \subseteq T
  <2> HIDE DEF T
  <2> QED
    BY <1>1, <1>2, SetInduction
<1> QED
  BY <1>3

(* FlattenSeq is its last entry.                                           *)
LEMMA FlatIsTable ==
  ASSUME NEW X, NEW s \in Seq(X), s # << >>
  PROVE  \E f : FlatTable(s, Len(s), f) /\ FlattenSeq(s) = f[Len(s)]
<1> DEFINE n == Len(s)
<1>1. n \in Nat /\ n # 0
  OBVIOUS
<1> HIDE DEF n
<1> DEFINE f == CHOOSE g : g = [i \in 1..n |-> IF i = 1 THEN s[i] ELSE g[i - 1] \o s[i]]
<1>2. \E g : g = [i \in 1..n |-> IF i = 1 THEN s[i] ELSE g[i - 1] \o s[i]]
  BY <1>1, FlatTableExists, Zenon DEF FlatTable
<1>3. f = [i \in 1..n |-> IF i = 1 THEN s[i] ELSE f[i - 1] \o s[i]]
  BY <1>2, Zenon
<1>4. FlattenSeq(s) = f[n]
  BY <1>1 DEF FlattenSeq, n
<1> HIDE DEF f
<1>5. FlatTable(s, n, f)
  BY <1>3 DEF FlatTable
<1> QED
  BY <1>4, <1>5 DEF n

(* FlattenSeq puts them one after the other.                               *)
LEMMA Flattened ==
  ASSUME NEW X
  PROVE  /\ FlattenSeq(<< >>) = << >>
         /\ \A s \in Seq(Seq(X)) : FlattenSeq(s) \in Seq(X)
         /\ \A s \in Seq(Seq(X)), d \in Seq(X) :
              FlattenSeq(Append(s, d)) = FlattenSeq(s) \o d
<1>1. FlattenSeq(<< >>) = << >>
  BY DEF FlattenSeq
<1>2. ASSUME NEW s \in Seq(Seq(X)) PROVE FlattenSeq(s) \in Seq(X)
  <2>1. CASE s = << >>
    <3>1. << >> \in Seq(X)
      OBVIOUS
    <3> QED
      BY <1>1, <2>1, <3>1
  <2>2. CASE s # << >>
    <3>1. PICK n \in Nat \ {0} : n = Len(s) /\ \A k \in 1..n : s[k] \in Seq(X)
      BY <2>2
    <3>2. PICK f : FlatTable(s, n, f) /\ FlattenSeq(s) = f[n]
      BY <2>2, <3>1, FlatIsTable
    <3>3. \A i \in 1..n : f[i] = IF i = 1 THEN s[i] ELSE f[i - 1] \o s[i]
      BY <3>2 DEF FlatTable
    <3> DEFINE T == {k \in Nat : k + 1 =< n => f[k + 1] \in Seq(X)}
    <3>4. 0 \in T
      BY <3>1, <3>3
    <3>5. ASSUME NEW k \in Nat, k \in T PROVE k + 1 \in T
      <4>1. CASE (k + 1) + 1 =< n
        <5>1. /\ (k + 1) + 1 \in 1..n /\ (k + 1) + 1 # 1
              /\ ((k + 1) + 1) - 1 = k + 1 /\ k + 1 =< n
          BY <4>1
        <5>2. f[(k + 1) + 1] = f[k + 1] \o s[(k + 1) + 1]
          BY <3>3, <5>1
        <5>3. f[k + 1] \in Seq(X) /\ s[(k + 1) + 1] \in Seq(X)
          BY <3>1, <3>5, <5>1
        <5>4. f[(k + 1) + 1] \in Seq(X)
          BY <5>2, <5>3, ConcatProperties, Zenon
        <5>6. k + 1 \in Nat
          OBVIOUS
        <5> QED
          BY <5>4, <5>6, Zenon
      <4>2. CASE ~((k + 1) + 1 =< n)
        BY <4>2
      <4> QED
        BY <4>1, <4>2
    <3>6. Nat \subseteq T
      <4> HIDE DEF T
      <4> QED
        BY <3>4, <3>5, SetInduction
    <3>7. n - 1 \in Nat /\ (n - 1) + 1 = n
      OBVIOUS
    <3>8. n - 1 \in T
      BY <3>6, <3>7
    <3> QED
      BY <3>2, <3>7, <3>8
  <2> QED
    BY <2>1, <2>2
<1>3. ASSUME NEW s \in Seq(Seq(X)), NEW d \in Seq(X)
      PROVE  FlattenSeq(Append(s, d)) = FlattenSeq(s) \o d
  <2> DEFINE t == Append(s, d)
  <2>1. PICK n \in Nat : n = Len(s) /\ DOMAIN s = 1..n
    OBVIOUS
  <2>2. /\ t \in Seq(Seq(X)) /\ Len(t) = n + 1 /\ t[n + 1] = d
        /\ t # << >> /\ \A k \in 1..n : t[k] = s[k]
    BY <2>1, AppendProperties
  <2> HIDE DEF t
  <2>3. PICK g : FlatTable(t, n + 1, g) /\ FlattenSeq(t) = g[n + 1]
    BY <2>2, FlatIsTable
  <2>4. \A i \in 1..(n + 1) : g[i] = IF i = 1 THEN t[i] ELSE g[i - 1] \o t[i]
    BY <2>3 DEF FlatTable
  <2>5. CASE s = << >>
    <3>1. n = 0
      BY <2>1, <2>5
    <3>2. g[1] = d
      BY <2>2, <2>4, <3>1
    <3>3. << >> \o d = d
      OBVIOUS
    <3> QED
      BY <1>1, <2>3, <2>5, <3>1, <3>2, <3>3 DEF t
  <2>6. CASE s # << >>
    <3>1. n \in Nat \ {0}
      BY <2>1, <2>6
    <3>2. PICK f : FlatTable(s, n, f) /\ FlattenSeq(s) = f[n]
      BY <2>1, <2>6, FlatIsTable
    <3>3. \A i \in 1..n : f[i] = IF i = 1 THEN s[i] ELSE f[i - 1] \o s[i]
      BY <3>2 DEF FlatTable
    <3> DEFINE T == {k \in Nat : k + 1 =< n => g[k + 1] = f[k + 1]}
    <3>4. 0 \in T
      BY <2>2, <2>4, <3>1, <3>3
    <3>5. ASSUME NEW k \in Nat, k \in T PROVE k + 1 \in T
      <4>1. CASE (k + 1) + 1 =< n
        <5>1. /\ (k + 1) + 1 \in 1..n /\ (k + 1) + 1 \in 1..(n + 1) /\ (k + 1) + 1 # 1
              /\ ((k + 1) + 1) - 1 = k + 1 /\ k + 1 =< n
          BY <4>1
        <5>2. f[(k + 1) + 1] = f[k + 1] \o s[(k + 1) + 1]
          BY <3>3, <5>1
        <5>3. g[(k + 1) + 1] = g[k + 1] \o s[(k + 1) + 1]
          BY <2>2, <2>4, <5>1
        <5>4. g[k + 1] = f[k + 1]
          BY <3>5, <5>1
        <5>5. g[(k + 1) + 1] = f[(k + 1) + 1]
          BY <5>2, <5>3, <5>4, Zenon
        <5>6. k + 1 \in Nat
          OBVIOUS
        <5> QED
          BY <5>5, <5>6, Zenon
      <4>2. CASE ~((k + 1) + 1 =< n)
        BY <4>2
      <4> QED
        BY <4>1, <4>2
    <3>6. Nat \subseteq T
      <4> HIDE DEF T
      <4> QED
        BY <3>4, <3>5, SetInduction
    <3>7. n - 1 \in Nat /\ (n - 1) + 1 = n
      BY <3>1
    <3>8. n - 1 \in T
      BY <3>6, <3>7
    <3>9. g[n] = f[n]
      BY <3>7, <3>8
    <3>10. g[n + 1] = g[n] \o d
      <4>1. n + 1 \in 1..(n + 1) /\ n + 1 # 1 /\ (n + 1) - 1 = n
        BY <3>1
      <4> QED
        BY <2>2, <2>4, <4>1
    <3> QED
      BY <2>3, <3>2, <3>9, <3>10 DEF t
  <2> QED
    BY <2>5, <2>6
<1> QED
  BY <1>1, <1>2, <1>3

-----------------------------------------------------------------------------
(* Cutting and joining.                                                    *)

(* Two numbers, as ikcp_send compares them.                                *)
LEMMA MinOfTwo ==
  ASSUME NEW a \in Int, NEW b \in Int
  PROVE  /\ a =< b => Min({a, b}) = a
         /\ b =< a => Min({a, b}) = b
         /\ Min({a, b}) \in {a, b}
<1>1. \E x \in {a, b} : \A y \in {a, b} : x =< y
  OBVIOUS
<1>2. PICK m : m = Min({a, b}) /\ m \in {a, b} /\ \A y \in {a, b} : m =< y
  BY <1>1 DEF Min
<1> QED
  BY <1>2

(* The segments of a buffer: enough of them, and none without need.        *)
LEMMA SegmentCount ==
  ASSUME SizeInv, NEW len \in Nat
  PROVE  /\ Segments(len) \in Nat \ {0}
         /\ (Segments(len) - 1) * mss =< len /\ len =< Segments(len) * mss
<1>1. mss \in Nat \ {0}
  BY DEF SizeInv
<1>2. CASE len =< mss
  <2>1. Segments(len) = 1
    BY <1>2 DEF Segments
  <2>2. (1 - 1) * mss = 0 /\ 1 * mss = mss
    BY <1>1
  <2> QED
    BY <1>2, <2>1, <2>2
<1>3. CASE ~(len =< mss)
  <2> DEFINE a == len + mss - 1
  <2>1. PICK q \in Nat, r \in Nat : q = a \div mss /\ r < mss /\ r + mss * q = a
    <3>1. a \in Nat
      BY <1>1
    <3> HIDE DEF a
    <3>2. a \div mss \in Nat /\ a % mss \in 0..(mss - 1) /\ (a % mss) + mss * (a \div mss) = a
      BY <1>1, <3>1, LowByte
    <3> QED
      BY <1>1, <3>2
  <2>2. Segments(len) = q
    BY <1>3, <2>1 DEF Segments
  <2>3. PICK p \in Nat : p = mss * q /\ p = q * mss
    BY <1>1, Products
  <2>4. len =< p /\ p - mss =< len /\ p > 0
    BY <1>1, <1>3, <2>1, <2>3
  <2>5. q # 0
    BY <1>1, <2>3, <2>4
  <2>6. (q - 1) * mss = p - mss
    <3>1. q - 1 \in Nat
      BY <2>5
    <3>2. ((q - 1) + 1) * mss = (q - 1) * mss + mss /\ (q - 1) * mss \in Nat
      BY <1>1, <3>1, Products
    <3>3. (q - 1) + 1 = q
      OBVIOUS
    <3> QED
      BY <1>1, <2>3, <3>2, <3>3
  <2> QED
    BY <2>2, <2>3, <2>4, <2>5, <2>6
<1> QED
  BY <1>2, <1>3

(* A part of a sequence.                                                   *)
LEMMA Part ==
  ASSUME NEW X, NEW s \in Seq(X), NEW lo \in Nat, NEW hi \in Nat, lo =< hi, hi =< Len(s)
  PROVE  LET p == SubSeq(s, lo + 1, hi)
         IN /\ p \in Seq(X) /\ Len(p) = hi - lo
            /\ \A i \in 1..(hi - lo) : p[i] = s[lo + i]
<1> DEFINE p == SubSeq(s, lo + 1, hi)
<1>1. lo + 1 \in 1..(Len(s) + 1) /\ hi \in lo..Len(s)
  OBVIOUS
<1>2. p \in Seq(X) /\ Len(p) = hi - lo
  OBVIOUS
<1>3. ASSUME NEW i \in 1..(hi - lo) PROVE p[i] = s[lo + i]
  OBVIOUS
<1> QED
  BY <1>2, <1>3

(* Where the k-th piece of a buffer begins and ends.                       *)
Lo(k) == (k - 1) * mss
Hi(k, len) == Min({k * mss, len})

(* Pieces follow each other, none is longer than mss, and the last ends    *)
(* with the buffer.                                                        *)
LEMMA Bounds ==
  ASSUME SizeInv, NEW len \in Nat, NEW k \in 1..Segments(len)
  PROVE  /\ Lo(k) \in Nat /\ Hi(k, len) \in Nat
         /\ Lo(k) =< Hi(k, len) /\ Hi(k, len) =< len /\ Hi(k, len) - Lo(k) =< mss
         /\ k > 1 => Lo(k) = Hi(k - 1, len)
         /\ k = 1 => Lo(k) = 0
         /\ k = Segments(len) => Hi(k, len) = len
<1> DEFINE n == Segments(len)
<1>1. /\ n \in Nat \ {0} /\ (n - 1) * mss =< len /\ len =< n * mss /\ mss \in Nat \ {0}
      /\ k \in Nat /\ k - 1 \in Nat /\ k =< n /\ k - 1 =< n - 1 /\ n - 1 \in Nat
  BY SegmentCount DEF SizeInv
<1> HIDE DEF n
<1>2. PICK a \in Nat : a = (k - 1) * mss
  BY <1>1, Products
<1>3. k * mss = a + mss
  <2>1. ((k - 1) + 1) * mss = (k - 1) * mss + mss /\ (k - 1) + 1 = k
    BY <1>1, Products
  <2> QED
    BY <1>2, <2>1
<1>4. a =< (n - 1) * mss /\ (n - 1) * mss \in Nat
  BY <1>1, <1>2, Products
<1>5. a =< len
  BY <1>1, <1>2, <1>4
<1>6. Lo(k) = a
  BY <1>2 DEF Lo
<1>7. PICK h \in Nat : h = Hi(k, len) /\ h \in {a + mss, len} /\ h =< a + mss /\ h =< len
  <2>1. a + mss \in Int /\ len \in Int
    BY <1>1
  <2>2. Hi(k, len) = Min({a + mss, len})
    BY <1>3 DEF Hi
  <2>3. \/ Min({a + mss, len}) = a + mss /\ a + mss =< len
        \/ Min({a + mss, len}) = len /\ len =< a + mss
    BY <2>1, MinOfTwo
  <2> QED
    BY <1>1, <2>1, <2>2, <2>3
<1>8. k > 1 => Lo(k) = Hi(k - 1, len)
  <2>1. Hi(k - 1, len) = Min({a, len})
    BY <1>2 DEF Hi
  <2> QED
    BY <1>5, <1>6, <2>1, MinOfTwo
<1>9. k = 1 => a = 0
  BY <1>1, <1>2
<1>10. k = n => h = len
  BY <1>1, <1>3, <1>7
<1> QED
  BY <1>1, <1>5, <1>6, <1>7, <1>8, <1>9, <1>10 DEF n

(* The pieces ikcp_send makes of a message.                                *)
LEMMA Pieces ==
  ASSUME PackAssumption, SizeInv, NEW msg \in Msg, Accepted(Len(msg))
  PROVE  LET n == Segments(Len(msg))
         IN /\ Cut(msg) \in Seq(Segment) /\ Len(Cut(msg)) = n
            /\ \A k \in 1..n :
                 LET d == Cut(msg)[k].data
                     lo == Lo(k)
                     hi == Hi(k, Len(msg))
                 IN /\ Cut(msg)[k].frg = n - k
                    /\ d \in Msg /\ Len(d) = hi - lo
                    /\ \A i \in 1..(hi - lo) : d[i] = msg[lo + i]
<1>1. PICK len \in Nat : len = Len(msg)
  BY DEF Msg
<1>2. PICK n \in Nat \ {0} : n = Segments(len) /\ n =< MaxCount
  BY <1>1, SegmentCount DEF Accepted
<1> DEFINE Piece(k) == SubSeq(msg, (k - 1) * mss + 1, Min({k * mss, len}))
<1>3. Cut(msg) = [k \in 1..n |-> [frg |-> n - k, data |-> Piece(k)]]
  BY <1>1, <1>2 DEF Cut
<1>4. ASSUME NEW k \in 1..n
      PROVE  /\ Piece(k) \in Msg /\ Len(Piece(k)) = Hi(k, len) - Lo(k)
             /\ \A i \in 1..(Hi(k, len) - Lo(k)) : Piece(k)[i] = msg[Lo(k) + i]
             /\ Len(Piece(k)) =< mss
  <2>1. /\ Lo(k) \in Nat /\ Hi(k, len) \in Nat /\ Lo(k) =< Hi(k, len) /\ Hi(k, len) =< len
        /\ Hi(k, len) - Lo(k) =< mss
    BY <1>2, Bounds
  <2>2. Piece(k) = SubSeq(msg, Lo(k) + 1, Hi(k, len))
    BY DEF Lo, Hi
  <2> HIDE DEF Piece
  <2>3. msg \in Seq(Octet) /\ Hi(k, len) =< Len(msg)
    BY <1>1, <2>1 DEF Msg
  <2>4. /\ Piece(k) \in Seq(Octet) /\ Len(Piece(k)) = Hi(k, len) - Lo(k)
        /\ \A i \in 1..(Hi(k, len) - Lo(k)) : Piece(k)[i] = msg[Lo(k) + i]
    <3>1. PICK lo \in Nat, hi \in Nat : lo = Lo(k) /\ hi = Hi(k, len) /\ lo =< hi /\ hi =< Len(msg)
      BY <2>1, <2>3
    <3>2. PICK p : p = SubSeq(msg, lo + 1, hi) /\ p = Piece(k)
      BY <2>2, <3>1
    <3>3. p \in Seq(Octet) /\ Len(p) = hi - lo /\ \A i \in 1..(hi - lo) : p[i] = msg[lo + i]
      BY <2>3, <3>1, <3>2, Part
    <3> QED
      BY <3>1, <3>2, <3>3
  <2> QED
    BY <2>1, <2>4 DEF Msg
<1> HIDE DEF Piece
<1>5. ASSUME NEW k \in 1..n PROVE [frg |-> n - k, data |-> Piece(k)] \in Segment
  <2>1. n - k \in 0..(MaxCount - 1)
    BY <1>2, PackConstants
  <2> QED
    BY <1>4, <2>1 DEF Segment
<1>6. Cut(msg) \in Seq(Segment) /\ Len(Cut(msg)) = n
  BY <1>3, <1>5
<1>7. ASSUME NEW k \in 1..n PROVE Cut(msg)[k].frg = n - k /\ Cut(msg)[k].data = Piece(k)
  BY <1>3
<1> QED
  BY <1>1, <1>2, <1>4, <1>6, <1>7

(* ikcp_recv puts the pieces of a message together again.                  *)
LEMMA Rejoined ==
  ASSUME PackAssumption, SizeInv, NEW msg \in Msg, Accepted(Len(msg)), NEW q,
         \A k \in 1..Segments(Len(msg)) : q[k] = Cut(msg)[k]
  PROVE  FlattenSeq([k \in 1..Segments(Len(msg)) |-> q[k].data]) = msg
<1>1. PICK len \in Nat : len = Len(msg) /\ DOMAIN msg = 1..len
  BY DEF Msg
<1>2. PICK n \in Nat \ {0} : n = Segments(len)
  BY SegmentCount
<1> DEFINE d(k) == q[k].data
           Upto(j) == [k \in 1..j |-> d(k)]
<1>3. ASSUME NEW k \in 1..n
      PROVE  /\ d(k) \in Seq(Octet) /\ Len(d(k)) = Hi(k, len) - Lo(k)
             /\ \A i \in 1..(Hi(k, len) - Lo(k)) : d(k)[i] = msg[Lo(k) + i]
  <2>1. q[k] = Cut(msg)[k] /\ k \in 1..Segments(Len(msg))
    BY <1>1, <1>2
  <2> DEFINE c == Cut(msg)[k].data
  <2>2. /\ c \in Msg /\ Len(c) = Hi(k, Len(msg)) - Lo(k)
        /\ \A i \in 1..(Hi(k, Len(msg)) - Lo(k)) : c[i] = msg[Lo(k) + i]
    <3>1. k \in 1..Segments(Len(msg))
      BY <2>1
    <3> QED
      BY <3>1, Pieces, Zenon
  <2>3. d(k) = c
    BY <2>1
  <2> HIDE DEF c, d
  <2> QED
    BY <1>1, <2>2, <2>3, Zenon DEF Msg
<1> HIDE DEF d
<1> DEFINE Good(j) ==
             LET s == FlattenSeq(Upto(j))
             IN /\ s \in Seq(Octet) /\ Len(s) = Hi(j, len)
                /\ \A i \in 1..Hi(j, len) : s[i] = msg[i]
<1> DEFINE T == {j \in Nat : j + 1 =< n => Good(j + 1)}
<1>4. ASSUME NEW j \in 0..(n - 1)
      PROVE  /\ Upto(j) \in Seq(Seq(Octet)) /\ d(j + 1) \in Seq(Octet)
             /\ Upto(j + 1) = Append(Upto(j), d(j + 1))
             /\ FlattenSeq(Upto(j + 1)) = FlattenSeq(Upto(j)) \o d(j + 1)
             /\ FlattenSeq(Upto(j)) \in Seq(Octet)
  <2>1. /\ Upto(j) \in Seq(Seq(Octet)) /\ Len(Upto(j)) = j /\ d(j + 1) \in Seq(Octet)
    <3>1. j \in Nat /\ j + 1 \in 1..n
      OBVIOUS
    <3>2. ASSUME NEW k \in 1..j PROVE d(k) \in Seq(Octet)
      <4>1. k \in 1..n
        BY <3>1
      <4> QED
        BY <1>3, <4>1
    <3>3. Upto(j) \in [1..j -> Seq(Octet)]
      BY <3>2
    <3>4. d(j + 1) \in Seq(Octet)
      BY <1>3, <3>1
    <3> HIDE DEF Upto
    <3> QED
      BY <3>1, <3>3, <3>4
  <2>2. Upto(j + 1) = Append(Upto(j), d(j + 1))
    OBVIOUS
  <2> HIDE DEF Upto
  <2> QED
    BY <2>1, <2>2, Flattened
<1> HIDE DEF Upto
<1>5. 0 \in T
  <2>1. 0 \in 0..(n - 1) /\ 1 \in 1..n /\ 0 + 1 = 1
    OBVIOUS
  <2>2. Upto(0) = << >>
    BY DEF Upto
  <2>3. FlattenSeq(Upto(1)) = d(1)
    <3>1. FlattenSeq(Upto(1)) = FlattenSeq(Upto(0)) \o d(1) /\ d(1) \in Seq(Octet)
      BY <1>4, <2>1
    <3>2. FlattenSeq(Upto(0)) = << >>
      BY <2>2, Flattened
    <3> QED
      BY <3>1, <3>2, ConcatEmptySeq
  <2>4. Lo(1) = 0 /\ Hi(1, len) \in Nat
    BY <1>2, <2>1, Bounds
  <2>5. /\ d(1) \in Seq(Octet) /\ Len(d(1)) = Hi(1, len)
        /\ \A i \in 1..Hi(1, len) : d(1)[i] = msg[i]
    BY <1>3, <2>1, <2>4
  <2> QED
    BY <2>3, <2>5
<1>6. ASSUME NEW k \in Nat, k \in T PROVE k + 1 \in T
  <2> DEFINE j == k + 1
  <2>1. CASE j + 1 =< n
    <3>1. j \in 0..(n - 1) /\ j \in 1..n /\ j + 1 \in 1..n /\ j \in Nat /\ (j + 1) - 1 = j /\ j + 1 > 1
      BY <2>1
    <3> DEFINE s == FlattenSeq(Upto(j))
               t == d(j + 1)
    <3>2. Good(j)
      BY <1>6, <3>1
    <3> HIDE DEF j
    <3>3. PICK a \in Nat, b \in Nat : /\ a = Hi(j, len) /\ b = Hi(j + 1, len)
                                      /\ Lo(j + 1) = a /\ a =< b
      BY <1>2, <3>1, Bounds
    <3>4. s \in Seq(Octet) /\ Len(s) = a /\ \A i \in 1..a : s[i] = msg[i]
      BY <3>2, <3>3
    <3>5. t \in Seq(Octet) /\ Len(t) = b - a /\ \A i \in 1..(b - a) : t[i] = msg[a + i]
      BY <1>3, <3>1, <3>3
    <3>6. FlattenSeq(Upto(j + 1)) = s \o t
      BY <1>4, <3>1
    <3> HIDE DEF s, t
    <3> DEFINE u == s \o t
    <3>7. u \in Seq(Octet) /\ Len(u) = b
      <4>1. s \in Seq(Octet) /\ t \in Seq(Octet)
        BY <3>4, <3>5
      <4>2. u \in Seq(Octet) /\ Len(u) = Len(s) + Len(t)
        BY <4>1, ConcatProperties
      <4> QED
        BY <3>3, <3>4, <3>5, <4>2
    <3>8. ASSUME NEW i \in 1..b PROVE u[i] = msg[i]
      <4>1. CASE i =< a
        <5>1. i \in 1..a
          BY <4>1
        <5> QED
          BY <3>4, <3>5, <5>1
      <4>2. CASE ~(i =< a)
        <5>1. i - a \in 1..(b - a) /\ a + (i - a) = i
          BY <4>2
        <5>2. u[i] = t[i - a]
          BY <3>4, <3>5, <4>2, <5>1
        <5> QED
          BY <3>5, <5>1, <5>2
      <4> QED
        BY <4>1, <4>2
    <3> HIDE DEF u
    <3>9. Good(j + 1)
      BY <3>3, <3>6, <3>7, <3>8 DEF u
    <3> HIDE DEF Good
    <3> QED
      BY <3>1, <3>9 DEF j
  <2>2. CASE ~(j + 1 =< n)
    BY <2>2
  <2> QED
    BY <2>1, <2>2
<1>7. Nat \subseteq T
  <2> HIDE DEF T
  <2> QED
    BY <1>5, <1>6, SetInduction
<1>8. Good(n)
  <2>1. n - 1 \in Nat /\ (n - 1) + 1 = n
    OBVIOUS
  <2> HIDE DEF Good
  <2>2. n - 1 \in T
    BY <1>7, <2>1
  <2> QED
    BY <2>1, <2>2
<1>9. Hi(n, len) = len
  BY <1>2, Bounds
<1>10. FlattenSeq(Upto(n)) = msg
  <2>1. PICK s : s = FlattenSeq(Upto(n))
    OBVIOUS
  <2>2. s \in Seq(Octet) /\ Len(s) = len /\ \A i \in 1..len : s[i] = msg[i]
    BY <1>8, <1>9, <2>1
  <2>3. msg \in Seq(Octet)
    BY DEF Msg
  <2> QED
    BY <1>1, <2>1, <2>2, <2>3, SeqEqual
<1> QED
  BY <1>1, <1>2, <1>10 DEF Upto, d

-----------------------------------------------------------------------------
(* Segments on the path.                                                   *)

(* An acknowledgement or a probe fits into a datagram.                     *)
LEMMA SmallFits ==
  ASSUME PackAssumption, SizeInv
  PROVE  /\ Small \in Wire /\ ~Small.push
         /\ Need(Small) \in Nat \ {0} /\ Need(Small) =< mtu
<1>1. 0 \in 0..(Byte - 1) /\ 0 \in 0..(Word - 1)
  BY PackConstants
<1>2. ikcp_encode8u(0) \in Seq(Nat) /\ ikcp_encode32u(0) \in Seq(Nat)
  BY <1>1, Coded8, Coded32
<1>3. << >> \in Msg /\ Len(<< >>) = 0
  BY DEF Msg
<1>4. Small \in Wire /\ ~Small.push /\ Small.data = << >>
  BY <1>2, <1>3 DEF Small, Wire
<1>5. Need(Small) = IKCP_OVERHEAD
  BY <1>3, <1>4, PackConstants DEF Need
<1> QED
  BY <1>4, <1>5, PackConstants DEF SizeInv

(* A data segment too, and it can be read again.                           *)
LEMMA SegFits ==
  ASSUME PackAssumption, SizeInv, NEW sn \in 0..(Word - 1), NEW seg \in Segment
  PROVE  LET w == ikcp_encode_seg(sn, seg)
         IN /\ w \in Wire /\ w.push
            /\ Need(w) \in Nat \ {0} /\ Need(w) =< mtu
            /\ ikcp_decode32u(w.sn) = sn
            /\ [frg |-> ikcp_decode8u(w.frg),
                data |-> SubSeq(w.data, 1, ikcp_decode32u(w.len))] = seg
<1> DEFINE w == ikcp_encode_seg(sn, seg)
<1>1. /\ seg.frg \in 0..(MaxCount - 1) /\ seg.data \in Seq(Octet) /\ Len(seg.data) =< mss
      /\ Len(seg.data) \in Nat /\ seg = [frg |-> seg.frg, data |-> seg.data]
  BY DEF Segment, Msg
<1>2. seg.frg \in 0..(Byte - 1) /\ Len(seg.data) \in 0..(Word - 1)
  BY <1>1, PackConstants DEF SizeInv
<1>3. /\ ikcp_encode8u(seg.frg) \in Seq(Nat)
      /\ ikcp_decode8u(ikcp_encode8u(seg.frg)) = seg.frg
  BY <1>2, Coded8
<1>4. /\ ikcp_encode32u(sn) \in Seq(Nat) /\ ikcp_encode32u(Len(seg.data)) \in Seq(Nat)
      /\ ikcp_decode32u(ikcp_encode32u(sn)) = sn
      /\ ikcp_decode32u(ikcp_encode32u(Len(seg.data))) = Len(seg.data)
  BY <1>2, Coded32
<1>5. /\ w.frg = ikcp_encode8u(seg.frg) /\ w.sn = ikcp_encode32u(sn)
      /\ w.len = ikcp_encode32u(Len(seg.data)) /\ w.data = seg.data /\ w.push
  BY DEF ikcp_encode_seg
<1>6. w \in Wire
  BY <1>1, <1>3, <1>4 DEF Wire, ikcp_encode_seg, Msg
<1>7. Need(w) \in Nat \ {0} /\ Need(w) =< mtu
  <2>1. Need(w) = IKCP_OVERHEAD + Len(seg.data)
    BY <1>5 DEF Need
  <2>2. Len(seg.data) \in Nat /\ Len(seg.data) =< mss
    BY <1>1
  <2>3. mss = mtu - IKCP_OVERHEAD /\ mtu \in Nat /\ IKCP_OVERHEAD \in Nat \ {0}
    BY PackConstants DEF SizeInv
  <2> QED
    BY <2>1, <2>2, <2>3
<1>8. SubSeq(seg.data, 1, Len(seg.data)) = seg.data
  BY <1>1
<1> QED
  BY <1>1, <1>3, <1>4, <1>5, <1>6, <1>7, <1>8

(* Every segment on the path has its size.                                 *)
LEMMA NeedOfWire ==
  ASSUME PackAssumption, NEW w \in Wire
  PROVE  Need(w) \in Nat
<1>1. w.data \in Seq(Octet)
  BY DEF Wire, Msg
<1> QED
  BY <1>1, PackConstants DEF Need

(* So does whatever is on the path, and what is read there is the segment  *)
(* of the stream that the number says.                                     *)
LEMMA KnownFits ==
  ASSUME PackAssumption, SizeInv, NEW stream \in Seq(Segment), NEW nxt \in 0..Len(stream),
         nxt =< Word, NEW w \in Known(stream, nxt)
  PROVE  /\ w \in Wire /\ Need(w) \in Nat \ {0} /\ Need(w) =< mtu
         /\ w.push => /\ ikcp_decode32u(w.sn) \in 0..(nxt - 1)
                      /\ [frg |-> ikcp_decode8u(w.frg),
                          data |-> SubSeq(w.data, 1, ikcp_decode32u(w.len))]
                           = stream[ikcp_decode32u(w.sn) + 1]
<1>1. CASE w = Small
  BY <1>1, SmallFits
<1>2. CASE \E sn \in 0..(nxt - 1) : w = ikcp_encode_seg(sn, stream[sn + 1])
  <2>1. PICK sn \in 0..(nxt - 1) : w = ikcp_encode_seg(sn, stream[sn + 1])
    BY <1>2
  <2>2. sn \in 0..(Word - 1) /\ sn + 1 \in 1..Len(stream) /\ stream[sn + 1] \in Segment
    BY PackConstants
  <2>3. PICK seg \in Segment : seg = stream[sn + 1]
    BY <2>2
  <2> QED
    BY <2>1, <2>2, <2>3, SegFits
<1> QED
  BY <1>1, <1>2 DEF Known

-----------------------------------------------------------------------------
(* The buffer of a flush.                                                  *)

BufferInv(b, stream, nxt) ==
  /\ b \in [out : Seq(Datagram(stream, nxt)), buffer : Seq(Known(stream, nxt))]
  /\ Size(b.buffer) =< mtu
  /\ b.buffer = << >> \/ 0 < Size(b.buffer)

(* All segments that were put into it, in order.                           *)
Laid(b) == FlattenSeq(b.out) \o b.buffer

(* ikcp_output sends the datagram.                                         *)
LEMMA OutputKeeps ==
  ASSUME NEW stream, NEW nxt, NEW b, BufferInv(b, stream, nxt)
  PROVE  /\ ikcp_output(b) \in Seq(Datagram(stream, nxt))
         /\ FlattenSeq(ikcp_output(b)) = Laid(b)
         /\ Laid(b) \in Seq(Known(stream, nxt))
<1> DEFINE D == Datagram(stream, nxt)
           K == Known(stream, nxt)
<1>1. b.out \in Seq(D) /\ b.buffer \in Seq(K)
  BY DEF BufferInv
<1>2. D \subseteq Seq(K)
  BY DEF Datagram
<1>3. b.out \in Seq(Seq(K))
  <2> HIDE DEF D, K
  <2> QED
    BY <1>1, <1>2
<1>4. FlattenSeq(b.out) \in Seq(K)
  <2> HIDE DEF K
  <2> QED
    BY <1>3, Flattened
<1>5. Laid(b) \in Seq(K)
  <2> HIDE DEF K
  <2> QED
    BY <1>1, <1>4 DEF Laid
<1>6. CASE b.buffer = << >>
  <2> HIDE DEF K
  <2>1. Laid(b) = FlattenSeq(b.out)
    BY <1>4, <1>6, ConcatEmptySeq DEF Laid
  <2> QED
    BY <1>1, <1>5, <1>6, <2>1 DEF ikcp_output, K
<1>7. CASE b.buffer # << >>
  <2>1. b.buffer \in D
    BY <1>1, <1>7 DEF BufferInv, Datagram
  <2>2. ikcp_output(b) = Append(b.out, b.buffer)
    BY <1>7 DEF ikcp_output
  <2>3. ikcp_output(b) \in Seq(D)
    <3> HIDE DEF D
    <3> QED
      BY <1>1, <2>1, <2>2
  <2>4. FlattenSeq(ikcp_output(b)) = Laid(b)
    <3> HIDE DEF K
    <3> QED
      BY <1>1, <1>3, <2>2, Flattened DEF Laid
  <2> QED
    BY <1>5, <2>3, <2>4
<1> QED
  BY <1>6, <1>7

(* One segment more.                                                       *)
LEMMA PutKeeps ==
  ASSUME PackAssumption, SizeInv, NEW stream \in Seq(Segment), NEW nxt \in 0..Len(stream),
         nxt =< Word, NEW b, BufferInv(b, stream, nxt), NEW w \in Known(stream, nxt)
  PROVE  /\ BufferInv(Put(b, w), stream, nxt)
         /\ Laid(Put(b, w)) = Append(Laid(b), w)
<1> DEFINE D == Datagram(stream, nxt)
           K == Known(stream, nxt)
<1>1. /\ b.out \in Seq(D) /\ b.buffer \in Seq(K) /\ Size(b.buffer) =< mtu
      /\ b = [out |-> b.out, buffer |-> b.buffer]
  BY DEF BufferInv
<1>2. \A x \in K : Need(x) \in Nat \ {0} /\ Need(x) =< mtu
  BY KnownFits
<1> HIDE DEF D, K
<1>3. w \in K /\ Need(w) \in Nat \ {0} /\ Need(w) =< mtu
  BY <1>2 DEF K
<1>4. /\ Size(<< >>) = 0 /\ Size(b.buffer) \in Nat
      /\ Size(Append(b.buffer, w)) = Size(b.buffer) + Need(w)
      /\ Size(Append(<< >>, w)) = Size(<< >>) + Need(w)
  <2>1. \A x \in K : Need(x) \in Nat
    BY <1>2
  <2>2. << >> \in Seq(K)
    OBVIOUS
  <2> QED
    BY <1>1, <1>3, <2>1, <2>2, Sizes
<1>5. mtu \in Nat
  BY DEF SizeInv
<1>6. Laid(b) \in Seq(K) /\ ikcp_output(b) \in Seq(D) /\ FlattenSeq(ikcp_output(b)) = Laid(b)
  BY OutputKeeps DEF D, K
<1>7. CASE Overflows(b.buffer, w)
  <2>1. Put(b, w) = [out |-> ikcp_output(b), buffer |-> <<w>>]
    BY <1>7 DEF Put
  <2>2. <<w>> = Append(<< >>, w) /\ <<w>> \in Seq(K)
    BY <1>3
  <2>3. Size(<<w>>) = Need(w)
    BY <1>3, <1>4, <2>2
  <2>4. BufferInv(Put(b, w), stream, nxt)
    BY <1>3, <1>5, <1>6, <2>1, <2>2, <2>3 DEF BufferInv, D, K
  <2>5. Laid(Put(b, w)) = Laid(b) \o <<w>>
    <3>1. Put(b, w).out = ikcp_output(b) /\ Put(b, w).buffer = <<w>>
      BY <2>1
    <3>2. Laid(Put(b, w)) = FlattenSeq(Put(b, w).out) \o Put(b, w).buffer
      BY DEF Laid
    <3> QED
      BY <1>6, <3>1, <3>2
  <2> QED
    BY <1>3, <1>6, <2>4, <2>5, AppendIsConcat
<1>8. CASE ~Overflows(b.buffer, w)
  <2>1. Put(b, w) = [out |-> b.out, buffer |-> Append(b.buffer, w)]
    BY <1>1, <1>8 DEF Put
  <2>2. Append(b.buffer, w) \in Seq(K)
    BY <1>1, <1>3
  <2>3. Size(Append(b.buffer, w)) =< mtu /\ 0 < Size(Append(b.buffer, w))
    BY <1>3, <1>4, <1>5, <1>8 DEF Overflows
  <2>4. BufferInv(Put(b, w), stream, nxt)
    BY <1>1, <2>1, <2>2, <2>3 DEF BufferInv, D, K
  <2>5. FlattenSeq(b.out) \in Seq(K)
    <3>1. b.out \in Seq(Seq(K))
      <4>1. D \subseteq Seq(K)
        BY DEF D, K, Datagram
      <4> QED
        BY <1>1, <4>1
    <3> QED
      BY <3>1, Flattened
  <2>6. Laid(Put(b, w)) = Append(Laid(b), w)
    <3>1. PICK s \in Seq(K), t \in Seq(K) : s = FlattenSeq(b.out) /\ t = b.buffer
      BY <1>1, <2>5
    <3>2. s \o Append(t, w) = Append(s \o t, w)
      BY <1>3
    <3>3. Put(b, w).out = b.out /\ Put(b, w).buffer = Append(b.buffer, w)
      BY <2>1
    <3>4. Laid(Put(b, w)) = FlattenSeq(Put(b, w).out) \o Put(b, w).buffer
      BY DEF Laid
    <3>5. Laid(b) = s \o t
      BY <3>1 DEF Laid
    <3> QED
      BY <3>1, <3>2, <3>3, <3>4, <3>5
  <2> QED
    BY <2>4, <2>6
<1> QED
  BY <1>7, <1>8

-----------------------------------------------------------------------------
(* The walk of a flush.                                                    *)

Step(small, due, buf, j, b) ==
  IF j =< small THEN Put(b, Small)
  ELSE IF j - small - 1 \in due THEN Put(b, ikcp_encode_seg(j - small - 1, buf[j - small - 1]))
  ELSE b

NewBuffer == [out |-> << >>, buffer |-> << >>]

WalkTable(small, due, buf, n, f) ==
  f = [j \in 0..n |-> IF j = 0 THEN NewBuffer ELSE Step(small, due, buf, j, f[j - 1])]

(* The table exists.                                                       *)
LEMMA WalkTableExists ==
  ASSUME NEW small, NEW due, NEW buf, NEW n \in Nat
  PROVE  \E f : WalkTable(small, due, buf, n, f)
<1> DEFINE S(j, b) == Step(small, due, buf, j, b)
           Is(k, f) == f = [j \in 0..k |-> IF j = 0 THEN NewBuffer ELSE S(j, f[j - 1])]
           T == {k \in Nat : \E f : Is(k, f)}
<1> HIDE DEF S
<1>1. 0 \in T
  <2>1. Is(0, [j \in 0..0 |-> NewBuffer])
    OBVIOUS
  <2> HIDE DEF Is
  <2> QED
    BY <2>1
<1>2. ASSUME NEW k \in Nat, k \in T PROVE k + 1 \in T
  <2>1. PICK f : Is(k, f)
    BY <1>2
  <2> DEFINE g == [j \in 0..(k + 1) |-> IF j =< k THEN f[j] ELSE S(j, f[j - 1])]
  <2>2. ASSUME NEW j \in 0..(k + 1)
        PROVE  g[j] = IF j = 0 THEN NewBuffer ELSE S(j, g[j - 1])
    <3>1. CASE j =< k
      <4>1. j \in 0..k /\ g[j] = f[j]
        BY <3>1
      <4>2. f[j] = IF j = 0 THEN NewBuffer ELSE S(j, f[j - 1])
        BY <2>1, <4>1
      <4>3. j # 0 => g[j - 1] = f[j - 1]
        BY <3>1
      <4> HIDE DEF g, Is
      <4> QED
        BY <4>1, <4>2, <4>3
    <3>2. CASE j = k + 1
      <4>1. g[j] = S(j, f[j - 1]) /\ j # 0
        BY <3>2
      <4>2. g[j - 1] = f[j - 1]
        BY <3>2
      <4> HIDE DEF g, Is
      <4> QED
        BY <4>1, <4>2
    <3> QED
      BY <3>1, <3>2
  <2>3. Is(k + 1, g)
    BY <2>2
  <2> HIDE DEF Is
  <2> QED
    BY <2>3
<1>3. Nat \subseteq T
  <2> HIDE DEF T
  <2> QED
    BY <1>1, <1>2, SetInduction
<1>4. \E f : Is(n, f)
  BY <1>3
<1> QED
  BY <1>4 DEF S, WalkTable

(* Filled is its last entry.                                               *)
LEMMA FilledIsTable ==
  ASSUME NEW small \in Nat, NEW due, NEW buf, NEW nxt \in Nat
  PROVE  \E f : /\ WalkTable(small, due, buf, small + nxt, f)
                /\ Filled(small, due, buf, nxt) = f[small + nxt]
<1> DEFINE n == small + nxt
<1>1. n \in Nat
  OBVIOUS
<1> HIDE DEF n
<1> DEFINE f == CHOOSE b : b = [j \in 0..n |->
                  LET sn == j - small - 1
                  IN IF j = 0 THEN [out |-> << >>, buffer |-> << >>]
                     ELSE IF j =< small THEN Put(b[j - 1], Small)
                     ELSE IF sn \in due THEN Put(b[j - 1], ikcp_encode_seg(sn, buf[sn]))
                     ELSE b[j - 1]]
<1>2. \E b : b = [j \in 0..n |->
                  LET sn == j - small - 1
                  IN IF j = 0 THEN [out |-> << >>, buffer |-> << >>]
                     ELSE IF j =< small THEN Put(b[j - 1], Small)
                     ELSE IF sn \in due THEN Put(b[j - 1], ikcp_encode_seg(sn, buf[sn]))
                     ELSE b[j - 1]]
  <2>1. PICK g : WalkTable(small, due, buf, n, g)
    BY <1>1, WalkTableExists
  <2>2. g = [j \in 0..n |->
                  LET sn == j - small - 1
                  IN IF j = 0 THEN [out |-> << >>, buffer |-> << >>]
                     ELSE IF j =< small THEN Put(g[j - 1], Small)
                     ELSE IF sn \in due THEN Put(g[j - 1], ikcp_encode_seg(sn, buf[sn]))
                     ELSE g[j - 1]]
    BY <2>1 DEF WalkTable, Step, NewBuffer
  <2> QED
    BY <2>2
<1>3. f = [j \in 0..n |->
                  LET sn == j - small - 1
                  IN IF j = 0 THEN [out |-> << >>, buffer |-> << >>]
                     ELSE IF j =< small THEN Put(f[j - 1], Small)
                     ELSE IF sn \in due THEN Put(f[j - 1], ikcp_encode_seg(sn, buf[sn]))
                     ELSE f[j - 1]]
  BY <1>2
<1>4. Filled(small, due, buf, nxt) = f[n]
  BY DEF Filled, n
<1> HIDE DEF f
<1>5. WalkTable(small, due, buf, n, f)
  BY <1>3 DEF WalkTable, Step, NewBuffer
<1> QED
  BY <1>4, <1>5 DEF n

(* A path that ends with the segments old to new - 1, none of which is     *)
(* there before.                                                           *)
EndsWith(path, old, new) ==
  LET base == Len(path) - (new - old)
  IN /\ base >= 0
     /\ \A i \in DOMAIN path :
          LET sn == ikcp_decode32u(path[i].sn)
          IN IF i > base THEN path[i].push /\ sn = old + i - base - 1
             ELSE path[i].push => sn < old

(* It does after an old segment, if no new one has come yet; after the     *)
(* next new one; after a path of old ones.                                 *)
LEMMA EndsAfterOld ==
  ASSUME NEW X, NEW path \in Seq(X), NEW w \in X, NEW old \in Nat, EndsWith(path, old, old),
         w.push => ikcp_decode32u(w.sn) < old
  PROVE  EndsWith(Append(path, w), old, old)
<1>1. PICK n \in Nat : n = Len(path) /\ DOMAIN path = 1..n
  OBVIOUS
<1>2. \A i \in 1..n : path[i].push => ikcp_decode32u(path[i].sn) < old
  BY <1>1 DEF EndsWith
<1> DEFINE q == Append(path, w)
<1>3. /\ Len(q) = n + 1 /\ DOMAIN q = 1..(n + 1) /\ q[n + 1] = w
      /\ \A i \in 1..n : q[i] = path[i]
  BY <1>1
<1> HIDE DEF q
<1>4. ASSUME NEW i \in 1..(n + 1) PROVE q[i].push => ikcp_decode32u(q[i].sn) < old
  <2>1. CASE i = n + 1
    BY <1>3, <2>1
  <2>2. CASE i # n + 1
    <3>1. i \in 1..n
      BY <2>2
    <3> QED
      BY <1>2, <1>3, <3>1
  <2> QED
    BY <2>1, <2>2
<1>5. EndsWith(q, old, old)
  BY <1>3, <1>4 DEF EndsWith
<1> QED
  BY <1>5 DEF q

(* After the next new one.                                                 *)
LEMMA EndsAfterNew ==
  ASSUME NEW X, NEW path \in Seq(X), NEW w \in X, NEW old \in Nat, NEW new \in Nat,
         EndsWith(path, old, new), w.push, ikcp_decode32u(w.sn) = new
  PROVE  EndsWith(Append(path, w), old, new + 1)
<1>1. PICK n \in Nat : n = Len(path) /\ DOMAIN path = 1..n
  OBVIOUS
<1>2. PICK base \in Nat : base = n - (new - old)
  BY <1>1 DEF EndsWith
<1>3. \A i \in 1..n : IF i > base THEN path[i].push /\ ikcp_decode32u(path[i].sn) = old + i - base - 1
                      ELSE path[i].push => ikcp_decode32u(path[i].sn) < old
  BY <1>1, <1>2 DEF EndsWith
<1> DEFINE q == Append(path, w)
<1>4. /\ Len(q) = n + 1 /\ DOMAIN q = 1..(n + 1) /\ q[n + 1] = w
      /\ \A i \in 1..n : q[i] = path[i]
  BY <1>1
<1> HIDE DEF q
<1>5. base = (n + 1) - ((new + 1) - old)
  BY <1>2
<1>6. ASSUME NEW i \in 1..(n + 1)
      PROVE  IF i > base THEN q[i].push /\ ikcp_decode32u(q[i].sn) = old + i - base - 1
             ELSE q[i].push => ikcp_decode32u(q[i].sn) < old
  <2>1. CASE i = n + 1 /\ i > base
    <3>1. old + i - base - 1 = new
      BY <1>2, <2>1
    <3> QED
      BY <1>4, <2>1, <3>1
  <2>2. CASE i = n + 1 /\ ~(i > base)
    BY <1>2, <1>4, <2>2
  <2>3. CASE i # n + 1
    <3>1. i \in 1..n
      BY <2>3
    <3> QED
      BY <1>3, <1>4, <3>1
  <2> QED
    BY <2>1, <2>2, <2>3
<1>7. EndsWith(q, old, new + 1)
  BY <1>4, <1>5, <1>6 DEF EndsWith
<1> QED
  BY <1>7 DEF q

(* After a path of old ones.                                               *)
LEMMA EndsAfterPath ==
  ASSUME NEW X, NEW s \in Seq(X), NEW t \in Seq(X), NEW old \in Nat, NEW new \in Nat,
         EndsWith(t, old, new),
         \A i \in 1..Len(s) : s[i].push => ikcp_decode32u(s[i].sn) < old
  PROVE  EndsWith(s \o t, old, new)
<1>1. PICK n \in Nat, m \in Nat : n = Len(s) /\ m = Len(t) /\ DOMAIN t = 1..m
  OBVIOUS
<1>2. PICK base \in Nat : base = m - (new - old)
  BY <1>1 DEF EndsWith
<1>3. \A i \in 1..m : IF i > base THEN t[i].push /\ ikcp_decode32u(t[i].sn) = old + i - base - 1
                      ELSE t[i].push => ikcp_decode32u(t[i].sn) < old
  BY <1>1, <1>2 DEF EndsWith
<1> DEFINE q == s \o t
<1>4. /\ q \in Seq(X) /\ Len(q) = n + m
      /\ \A i \in 1..(n + m) : q[i] = IF i =< n THEN s[i] ELSE t[i - n]
  BY <1>1, ConcatProperties
<1> HIDE DEF q
<1>5. PICK high \in Nat : high = n + base /\ high = (n + m) - (new - old)
  BY <1>2
<1>6. ASSUME NEW i \in 1..(n + m)
      PROVE  IF i > high THEN q[i].push /\ ikcp_decode32u(q[i].sn) = old + i - high - 1
             ELSE q[i].push => ikcp_decode32u(q[i].sn) < old
  <2>1. CASE i =< n
    <3>1. q[i] = s[i] /\ ~(i > high) /\ i \in 1..n
      BY <1>4, <1>5, <2>1
    <3> QED
      BY <1>1, <3>1
  <2>2. CASE ~(i =< n)
    <3>1. PICK k \in 1..m : k = i - n
      BY <2>2
    <3>2. q[i] = t[k]
      BY <1>4, <2>2, <3>1
    <3>3. (i > high <=> k > base) /\ old + i - high - 1 = old + k - base - 1
      BY <1>5, <3>1
    <3> QED
      BY <1>3, <3>2, <3>3
  <2> QED
    BY <2>1, <2>2
<1>7. EndsWith(q, old, new)
  <2>1. DOMAIN q = 1..(n + m) /\ Len(q) = n + m
    BY <1>4
  <2> QED
    BY <1>5, <1>6, <2>1 DEF EndsWith
<1> QED
  BY <1>7 DEF q

(* Joining the datagrams of two paths.                                     *)
LEMMA FlattenConcat ==
  ASSUME NEW X, NEW s \in Seq(Seq(X)), NEW t \in Seq(Seq(X))
  PROVE  FlattenSeq(s \o t) = FlattenSeq(s) \o FlattenSeq(t)
<1>1. PICK n \in Nat : n = Len(t) /\ DOMAIN t = 1..n
  OBVIOUS
<1> DEFINE p(k) == SubSeq(t, 1, k)
           T == {k \in Nat : k =< n => FlattenSeq(s \o p(k)) = FlattenSeq(s) \o FlattenSeq(p(k))}
<1>2. ASSUME NEW k \in 0..n PROVE p(k) \in Seq(Seq(X))
  BY <1>1
<1>3. FlattenSeq(s) \in Seq(X)
  BY Flattened
<1>4. 0 \in T
  <2>1. p(0) = << >>
    OBVIOUS
  <2>2. s \o << >> = s
    OBVIOUS
  <2>3. FlattenSeq(<< >>) = << >>
    BY Flattened
  <2>4. FlattenSeq(s) \o << >> = FlattenSeq(s)
    BY <1>3
  <2> QED
    BY <2>1, <2>2, <2>3, <2>4
<1>5. ASSUME NEW k \in Nat, k \in T PROVE k + 1 \in T
  <2>1. CASE k + 1 =< n
    <3>1. k \in 0..n /\ k =< n /\ k + 1 \in 1..n
      BY <2>1
    <3>2. p(k + 1) = Append(p(k), t[k + 1]) /\ t[k + 1] \in Seq(X)
      BY <1>1, <3>1
    <3>3. PICK a \in Seq(Seq(X)), d \in Seq(X) : a = p(k) /\ d = t[k + 1]
      BY <1>2, <3>1, <3>2
    <3>4. FlattenSeq(s \o a) = FlattenSeq(s) \o FlattenSeq(a)
      BY <1>5, <3>1, <3>3
    <3>5. s \o Append(a, d) = Append(s \o a, d) /\ s \o a \in Seq(Seq(X))
      <4>1. s \o a \in Seq(Seq(X))
        BY ConcatProperties
      <4>2. s \o Append(a, d) = Append(s \o a, d)
        OBVIOUS
      <4> QED
        BY <4>1, <4>2
    <3>6. FlattenSeq(s \o Append(a, d)) = FlattenSeq(s \o a) \o d
      BY <3>5, Flattened
    <3>7. FlattenSeq(Append(a, d)) = FlattenSeq(a) \o d /\ FlattenSeq(a) \in Seq(X)
      BY Flattened
    <3>8. PICK x \in Seq(X), y \in Seq(X) : x = FlattenSeq(s) /\ y = FlattenSeq(a)
      BY <1>3, <3>7
    <3>9. (x \o y) \o d = x \o (y \o d)
      BY ConcatAssociative
    <3>10. FlattenSeq(s \o Append(a, d)) = FlattenSeq(s) \o FlattenSeq(Append(a, d))
      BY <3>4, <3>6, <3>7, <3>8, <3>9
    <3>11. k + 1 \in Nat
      OBVIOUS
    <3> HIDE DEF p
    <3>12. FlattenSeq(s \o p(k + 1)) = FlattenSeq(s) \o FlattenSeq(p(k + 1))
      BY <3>2, <3>3, <3>10, Zenon
    <3> QED
      BY <3>11, <3>12, Zenon
  <2>2. CASE ~(k + 1 =< n)
    BY <2>2
  <2> QED
    BY <2>1, <2>2
<1>6. Nat \subseteq T
  <2> HIDE DEF T
  <2> QED
    BY <1>4, <1>5, SetInduction
<1>7. p(n) = t
  BY <1>1
<1> HIDE DEF p
<1>8. FlattenSeq(s \o p(n)) = FlattenSeq(s) \o FlattenSeq(p(n))
  BY <1>6
<1> QED
  BY <1>7, <1>8

(* A flush makes datagrams that fit, of segments of the stream, and the    *)
(* new ones come last and in order.                                        *)
LEMMA FlushedDatagrams ==
  ASSUME PackAssumption, SizeInv, NEW stream \in Seq(Segment), NEW nxt \in 0..Len(stream),
         nxt =< Word, NEW small \in Nat, NEW old \in 0..nxt, NEW again \in SUBSET (0..(old - 1)),
         NEW buf, \A sn \in again \cup (old..(nxt - 1)) : buf[sn] = stream[sn + 1]
  PROVE  LET out == Flushed(small, again \cup (old..(nxt - 1)), buf, nxt)
         IN /\ out \in Seq(Datagram(stream, nxt))
            /\ EndsWith(FlattenSeq(out), old, nxt)
<1> DEFINE due == again \cup (old..(nxt - 1))
           K == Known(stream, nxt)
           n == small + nxt
           End(j) == IF j =< small + old THEN old ELSE j - small
<1>1. n \in Nat /\ nxt \in Nat /\ old \in Nat
  OBVIOUS
<1>2. PICK f : WalkTable(small, due, buf, n, f) /\ Filled(small, due, buf, nxt) = f[n]
  BY <1>1, FilledIsTable
<1>3. /\ f[0] = NewBuffer
      /\ \A j \in 1..n : f[j] = Step(small, due, buf, j, f[j - 1])
  <2> HIDE DEF n, due
  <2>1. f = [j \in 0..n |-> IF j = 0 THEN NewBuffer ELSE Step(small, due, buf, j, f[j - 1])]
    BY <1>2, Zenon DEF WalkTable
  <2>2. 0 \in 0..n /\ \A j \in 1..n : j \in 0..n /\ j # 0
    BY <1>1
  <2> QED
    BY <2>1, <2>2, Zenon
<1> DEFINE Good(j) == BufferInv(f[j], stream, nxt) /\ EndsWith(Laid(f[j]), old, End(j))
           T == {j \in Nat : j =< n => Good(j)}
<1>4. 0 \in T
  <2>1. End(0) = old
    BY <1>1
  <2>2. NewBuffer.out = << >> /\ NewBuffer.buffer = << >>
    BY DEF NewBuffer
  <2>3. Laid(NewBuffer) = << >>
    <3>1. FlattenSeq(<< >>) = << >>
      BY Flattened
    <3>2. Laid(NewBuffer) = << >> \o << >>
      BY <2>2, <3>1 DEF Laid
    <3>3. << >> \o << >> = << >>
      OBVIOUS
    <3> QED
      BY <3>2, <3>3
  <2>4. EndsWith(<< >>, old, old)
    BY <1>1 DEF EndsWith
  <2>5. BufferInv(NewBuffer, stream, nxt)
    <3>1. Size(<< >>) = 0
      <4>1. \A x \in K : Need(x) \in Nat
        BY KnownFits
      <4> QED
        BY <4>1, Sizes
    <3>2. << >> \in Seq(Datagram(stream, nxt)) /\ << >> \in Seq(K)
      OBVIOUS
    <3>3. NewBuffer \in [out : Seq(Datagram(stream, nxt)), buffer : Seq(K)]
      BY <3>2 DEF NewBuffer
    <3> QED
      BY <2>2, <3>1, <3>3 DEF BufferInv, SizeInv
  <2> QED
    BY <1>3, <2>1, <2>3, <2>4, <2>5
<1>5. ASSUME NEW i \in Nat, i \in T PROVE i + 1 \in T
  <2> DEFINE j == i + 1
  <2> SUFFICES ASSUME j =< n PROVE Good(j)
    OBVIOUS
  <2>1. j \in 1..n /\ j - 1 = i /\ j \in Nat
    BY <1>1
  <2>2. Good(i)
    BY <1>5, <2>1
  <2>3. f[j] = Step(small, due, buf, j, f[i])
    BY <1>3, <2>1
  <2> HIDE DEF j
  <2>4. BufferInv(f[i], stream, nxt) /\ EndsWith(Laid(f[i]), old, End(i))
    BY <2>2
  <2>5. PICK b : b = f[i] /\ BufferInv(b, stream, nxt) /\ EndsWith(Laid(b), old, End(i))
    BY <2>4
  <2>6. Laid(b) \in Seq(K)
    BY <2>5, OutputKeeps
  <2>7. CASE j =< small
    <3>1. f[j] = Put(b, Small)
      BY <2>3, <2>5, <2>7 DEF Step
    <3>2. Small \in K /\ ~Small.push
      BY SmallFits DEF Known
    <3>3. End(i) = old /\ End(j) = old
      BY <2>1, <2>7
    <3>4. BufferInv(f[j], stream, nxt) /\ Laid(f[j]) = Append(Laid(b), Small)
      BY <2>5, <3>1, <3>2, PutKeeps
    <3>5. EndsWith(Append(Laid(b), Small), old, old)
      <4> HIDE DEF K
      <4> QED
        BY <1>1, <2>5, <2>6, <3>2, <3>3, EndsAfterOld
    <3> QED
      BY <3>3, <3>4, <3>5
  <2>8. CASE ~(j =< small) /\ j - small - 1 \in due
    <3> DEFINE sn == j - small - 1
               w == ikcp_encode_seg(sn, stream[sn + 1])
    <3>1. sn \in 0..(nxt - 1) /\ sn \in 0..(Word - 1) /\ sn + 1 \in 1..Len(stream)
      BY <2>1, <2>8, PackConstants
    <3>2. f[j] = Put(b, w)
      BY <2>3, <2>5, <2>8 DEF Step
    <3>3. w \in Wire /\ w.push /\ ikcp_decode32u(w.sn) = sn
      <4>1. stream[sn + 1] \in Segment
        BY <3>1
      <4> QED
        BY <3>1, <4>1, SegFits
    <3>4. w \in K
      BY <3>1, <3>3 DEF Known
    <3> HIDE DEF w
    <3>5. BufferInv(f[j], stream, nxt) /\ Laid(f[j]) = Append(Laid(b), w)
      BY <2>5, <3>2, <3>4, PutKeeps
    <3>6. CASE sn < old
      <4>1. End(i) = old /\ End(j) = old
        BY <2>1, <3>6
      <4>2. EndsWith(Append(Laid(b), w), old, old)
        <5> HIDE DEF K, sn
        <5> QED
          BY <1>1, <2>5, <2>6, <3>3, <3>4, <3>6, <4>1, EndsAfterOld
      <4> QED
        BY <3>5, <4>1, <4>2
    <3>7. CASE ~(sn < old)
      <4>1. End(i) = sn /\ End(j) = sn + 1 /\ sn \in Nat
        BY <2>1, <2>8, <3>1, <3>7
      <4>2. EndsWith(Append(Laid(b), w), old, sn + 1)
        <5> HIDE DEF K, sn
        <5> QED
          BY <1>1, <2>5, <2>6, <3>3, <3>4, <4>1, EndsAfterNew
      <4> QED
        BY <3>5, <4>1, <4>2
    <3> QED
      BY <3>6, <3>7
  <2>9. CASE ~(j =< small) /\ j - small - 1 \notin due
    <3>1. f[j] = b
      BY <2>3, <2>5, <2>9 DEF Step
    <3>2. j - small - 1 < old
      BY <2>1, <2>9
    <3>3. End(i) = old /\ End(j) = old
      BY <2>1, <3>2
    <3> QED
      BY <2>5, <3>1, <3>3
  <2> QED
    BY <2>7, <2>8, <2>9
<1>6. Nat \subseteq T
  <2> HIDE DEF T
  <2> QED
    BY <1>4, <1>5, SetInduction
<1>7. Good(n) /\ End(n) = nxt
  <2>1. n \in T
    BY <1>1, <1>6
  <2>2. End(n) = nxt
    BY <1>1
  <2> QED
    BY <1>1, <2>1, <2>2
<1>8. Flushed(small, due, buf, nxt) = ikcp_output(f[n])
  BY <1>2 DEF Flushed
<1> HIDE DEF n
<1>9. PICK b : b = f[n] /\ BufferInv(b, stream, nxt) /\ EndsWith(Laid(b), old, nxt)
  BY <1>7
<1> QED
  BY <1>8, <1>9, OutputKeeps

-----------------------------------------------------------------------------
(* The steps.                                                              *)

(* Numbers fit into 32 bits.                                               *)
LEMMA StreamBound ==
  ASSUME PackAssumption, NEW at, NEW stream, StreamInv(at, stream)
  PROVE  Len(stream) \in Nat /\ Len(stream) =< Word
<1>1. /\ stream \in Seq(Segment) /\ Len(stream) = at[Len(sent)] /\ at[0] = 0
      /\ Len(sent) \in Nat /\ Len(sent) =< MaxMsgs
      /\ \A m \in 1..Len(sent) : at[m] =< m * MaxCount
  BY DEF StreamInv
<1>2. PICK n \in Nat : n = Len(sent)
  BY <1>1
<1>3. at[n] =< n * MaxCount
  <2>1. CASE n = 0
    <3>1. 0 * MaxCount = 0
      BY PackConstants
    <3> QED
      BY <1>1, <2>1, <3>1
  <2>2. CASE n # 0
    BY <1>1, <1>2, <2>2
  <2> QED
    BY <2>1, <2>2
<1>4. n * MaxCount =< MaxMsgs * MaxCount /\ n * MaxCount \in Nat /\ MaxMsgs * MaxCount \in Nat
  BY <1>1, <1>2, PackConstants, Products
<1>5. Len(stream) \in Nat /\ Len(stream) = at[n]
  BY <1>1, <1>2
<1> QED
  BY <1>3, <1>4, <1>5, PackConstants

(* What depends on the sizes only.                                         *)
LEMMA SameSizes ==
  ASSUME UNCHANGED <<mtu, mss>>
  PROVE  /\ SizeInv' <=> SizeInv
         /\ Segment' = Segment
         /\ \A len : Segments(len)' = Segments(len) /\ (Accepted(len)' <=> Accepted(len))
         /\ \A msg : Cut(msg)' = Cut(msg)
         /\ \A stream, nxt : Datagram(stream, nxt)' = Datagram(stream, nxt)
<1>1. SizeInv' <=> SizeInv
  BY DEF SizeInv
<1>2. Segment' = Segment
  BY DEF Segment
<1>3. \A len : Segments(len)' = Segments(len) /\ (Accepted(len)' <=> Accepted(len))
  BY DEF Segments, Accepted
<1>4. \A msg : Cut(msg)' = Cut(msg)
  BY DEF Cut, Segments
<1>5. \A stream, nxt : Datagram(stream, nxt)' = Datagram(stream, nxt)
  BY DEF Datagram
<1> QED
  BY <1>1, <1>2, <1>3, <1>4, <1>5

(* So is the stream, as long as nothing is sent.                           *)
LEMMA SameStream ==
  ASSUME UNCHANGED <<mtu, mss, sent>>, NEW at, NEW stream, StreamInv(at, stream)
  PROVE  StreamInv(at, stream)'
<1>1. /\ Segment' = Segment
      /\ \A len : Segments(len)' = Segments(len) /\ (Accepted(len)' <=> Accepted(len))
      /\ \A msg : Cut(msg)' = Cut(msg)
  BY SameSizes
<1> QED
  BY <1>1 DEF StreamInv

(* What is on the path stays known when the stream grows.                  *)
LEMMA KnownGrows ==
  ASSUME NEW stream, NEW nxt \in Nat, NEW more, NEW new \in Nat, nxt =< new,
         \A i \in 1..nxt : more[i] = stream[i]
  PROVE  /\ Known(stream, nxt) \subseteq Known(more, new)
         /\ Seq(Datagram(stream, nxt)) \subseteq Seq(Datagram(more, new))
<1>1. Known(stream, nxt) \subseteq Known(more, new)
  <2> SUFFICES ASSUME NEW w \in Known(stream, nxt) PROVE w \in Known(more, new)
    OBVIOUS
  <2>1. CASE w = Small
    BY <2>1 DEF Known
  <2>2. CASE \E sn \in 0..(nxt - 1) : w = ikcp_encode_seg(sn, stream[sn + 1])
    <3>1. PICK sn \in 0..(nxt - 1) : w = ikcp_encode_seg(sn, stream[sn + 1])
      BY <2>2
    <3>2. sn \in 0..(new - 1) /\ sn + 1 \in 1..nxt
      OBVIOUS
    <3>3. more[sn + 1] = stream[sn + 1]
      BY <3>2
    <3> QED
      BY <3>1, <3>2, <3>3 DEF Known
  <2> QED
    BY <2>1, <2>2 DEF Known
<1>2. Datagram(stream, nxt) \subseteq Datagram(more, new)
  <2> SUFFICES ASSUME NEW d \in Datagram(stream, nxt) PROVE d \in Datagram(more, new)
    OBVIOUS
  <2>1. PICK A, B : A = Known(stream, nxt) /\ B = Known(more, new) /\ A \subseteq B
    BY <1>1
  <2>2. d \in Seq(A) /\ 0 < Size(d) /\ Size(d) =< mtu
    BY <2>1 DEF Datagram
  <2>3. d \in Seq(B)
    BY <2>1, <2>2
  <2> QED
    BY <2>1, <2>2, <2>3 DEF Datagram
<1>3. ASSUME NEW A, NEW B, A \subseteq B PROVE Seq(A) \subseteq Seq(B)
  BY <1>3
<1> QED
  BY <1>1, <1>2, <1>3

(* A control block without messages.                                       *)
LEMMA PackInit ==
  ASSUME PackAssumption, Init
  PROVE  PackInv
<1>1. SizeInv
  BY PackConstants DEF Init, SizeInv
<1> DEFINE at == [m \in 0..0 |-> 0]
           stream == << >>
<1>2. StreamInv(at, stream)
  <2>1. sent = << >> /\ sent \in Seq(Msg) /\ Len(sent) = 0 /\ MaxMsgs >= 0
    BY PackConstants DEF Init
  <2>2. stream \in Seq(Segment) /\ Len(stream) = 0
    OBVIOUS
  <2> QED
    BY <2>1, <2>2 DEF StreamInv
<1>3. SenderInv(stream)
  BY DEF Init, SenderInv
<1>4. net \in Seq(Datagram(stream, snd_nxt))
  BY DEF Init
<1>5. ReceiverInv(at, stream)
  BY DEF Init, ReceiverInv
<1> HIDE DEF at, stream
<1> QED
  BY <1>1, <1>2, <1>3, <1>4, <1>5 DEF PackInv

(* ikcp_setmtu, before anything was sent.                                  *)
LEMMA SetmtuKeeps ==
  ASSUME PackAssumption, PackInv, ikcp_setmtu
  PROVE  PackInv'
<1>1. PICK at, stream : /\ StreamInv(at, stream) /\ SenderInv(stream)
                        /\ ReceiverInv(at, stream)
  BY DEF PackInv
<1>2. PICK size \in Mtus : /\ size >= MinMtu /\ mtu' = size /\ mss' = size - IKCP_OVERHEAD
                           /\ sent = << >> /\ net = << >>
                           /\ UNCHANGED <<snd_queue, snd_buf, snd_nxt, sent, net, rcvVars>>
  BY DEF ikcp_setmtu
<1>3. SizeInv'
  <2>1. size \in Nat /\ size < Word
    BY DEF PackAssumption
  <2> QED
    BY <1>2, <2>1, PackConstants DEF SizeInv
<1>4. Len(sent) = 0 /\ at[0] = 0 /\ Len(stream) = 0 /\ stream \in Seq(Segment)
  BY <1>1, <1>2 DEF StreamInv
<1>5. stream = << >>
  BY <1>4
<1>6. /\ snd_nxt = 0 /\ snd_queue = << >> /\ DOMAIN snd_buf = {}
  <2>1. /\ snd_nxt \in Nat /\ snd_queue \in Seq(Segment) /\ snd_nxt + Len(snd_queue) = 0
        /\ DOMAIN snd_buf \subseteq 0..(snd_nxt - 1)
    BY <1>1, <1>4 DEF SenderInv
  <2>2. Len(snd_queue) \in Nat
    BY <2>1
  <2>3. snd_nxt = 0 /\ Len(snd_queue) = 0
    BY <2>1, <2>2
  <2>4. snd_queue = << >>
    BY <2>1, <2>3, EmptySeq
  <2>5. 0..(snd_nxt - 1) = {}
    BY <2>3
  <2> QED
    BY <2>1, <2>3, <2>4, <2>5
<1>7. /\ rcv_nxt = 0 /\ rcv_queue = << >> /\ DOMAIN rcv_buf = {} /\ received = << >>
  <2>1. /\ rcv_nxt \in 0..0 /\ DOMAIN rcv_buf \subseteq 0..(0 - 1)
        /\ received \in Seq(Msg) /\ Len(received) =< 0
    BY <1>1, <1>4, <1>6 DEF ReceiverInv
  <2>2. rcv_queue \in Seq(Segment) /\ at[Len(received)] + Len(rcv_queue) = rcv_nxt
    BY <1>1 DEF ReceiverInv
  <2>3. Len(received) = 0 /\ received = << >>
    BY <2>1
  <2>4. Len(rcv_queue) = 0
    BY <1>4, <2>1, <2>2, <2>3
  <2> QED
    BY <2>1, <2>2, <2>3, <2>4
<1>8. << >> \in Seq(Segment') /\ << >> \in Seq(Msg)
  OBVIOUS
<1>9. StreamInv(at, stream)'
  BY <1>1, <1>2, <1>4, <1>5, <1>8 DEF StreamInv
<1>10. SenderInv(stream)'
  BY <1>2, <1>4, <1>6, <1>8 DEF SenderInv
<1>11. ReceiverInv(at, stream)'
  BY <1>2, <1>4, <1>6, <1>7, <1>8 DEF ReceiverInv, rcvVars
<1>12. net' \in Seq(Datagram(stream, snd_nxt)')
  BY <1>2
<1> QED
  BY <1>3, <1>9, <1>10, <1>11, <1>12 DEF PackInv

(* ikcp_send: a message more, and its segments at the end of the stream.   *)
LEMMA SendKeeps ==
  ASSUME PackAssumption, PackInv, ikcp_send
  PROVE  PackInv'
<1>1. PICK at, stream : /\ StreamInv(at, stream) /\ SenderInv(stream)
                        /\ net \in Seq(Datagram(stream, snd_nxt)) /\ ReceiverInv(at, stream)
  BY DEF PackInv
<1>2. PICK len \in Lengths :
        /\ Accepted(len)
        /\ snd_queue' = snd_queue \o Cut([i \in 1..len |-> <<Len(sent) + 1, i>>])
        /\ sent' = Append(sent, [i \in 1..len |-> <<Len(sent) + 1, i>>])
  BY DEF ikcp_send
<1>3. Len(sent) < MaxMsgs /\ UNCHANGED <<mtu, mss, snd_buf, snd_nxt, net, rcvVars>>
  BY DEF ikcp_send
<1>4. PICK n \in Nat : n = Len(sent) /\ DOMAIN sent = 1..n /\ sent \in Seq(Msg)
  BY <1>1 DEF StreamInv
<1>5. PICK msg \in Msg : msg = [i \in 1..len |-> <<Len(sent) + 1, i>>] /\ Len(msg) = len
  <2>1. len \in Nat
    BY DEF PackAssumption
  <2>2. \A i \in 1..len : <<n + 1, i>> \in Octet
    BY DEF Octet
  <2> DEFINE bytes == [i \in 1..len |-> <<n + 1, i>>]
  <2>3. bytes \in Seq(Octet) /\ Len(bytes) = len
    BY <2>1, <2>2
  <2>4. bytes = [i \in 1..len |-> <<Len(sent) + 1, i>>]
    BY <1>4
  <2> HIDE DEF bytes
  <2> QED
    BY <2>3, <2>4 DEF Msg
<1>6. SizeInv
  BY DEF PackInv
<1>7. PICK k \in Nat \ {0} : k = Segments(len) /\ k =< MaxCount
  <2>1. len \in Nat
    BY DEF PackAssumption
  <2> QED
    BY <1>2, <1>6, <2>1, SegmentCount DEF Accepted
<1>8. PICK cut \in Seq(Segment) : cut = Cut(msg) /\ Len(cut) = k
  BY <1>2, <1>5, <1>6, <1>7, Pieces
<1>9. snd_queue' = snd_queue \o cut /\ sent' = Append(sent, msg)
  BY <1>2, <1>5, <1>8
<1>10. PICK l \in Nat : l = Len(stream) /\ l = at[n] /\ stream \in Seq(Segment)
  BY <1>1, <1>4 DEF StreamInv
<1> DEFINE more == stream \o cut
           to == [m \in 0..(n + 1) |-> IF m =< n THEN at[m] ELSE l + k]
<1>11. /\ more \in Seq(Segment) /\ Len(more) = l + k
       /\ \A i \in 1..l : more[i] = stream[i]
       /\ \A i \in 1..k : more[l + i] = cut[i]
  <2>1. /\ more \in Seq(Segment) /\ Len(more) = l + k
        /\ \A i \in 1..(l + k) : more[i] = IF i =< l THEN stream[i] ELSE cut[i - l]
    <3>1. PICK q \in Seq(Segment) : q = stream /\ Len(q) = l
      BY <1>10
    <3>2. /\ q \o cut \in Seq(Segment) /\ Len(q \o cut) = l + k
          /\ \A i \in 1..(l + k) : (q \o cut)[i] = IF i =< l THEN q[i] ELSE cut[i - l]
      <4>1. Len(cut) = k /\ Len(q) = l
        BY <1>8, <3>1
      <4> QED
        BY <4>1, ConcatProperties
    <3> QED
      BY <3>1, <3>2
  <2>2. ASSUME NEW i \in 1..k PROVE more[l + i] = cut[i]
    <3> HIDE DEF more
    <3>1. l + i \in 1..(l + k) /\ ~(l + i =< l) /\ (l + i) - l = i
      OBVIOUS
    <3> QED
      BY <2>1, <3>1
  <2>3. ASSUME NEW i \in 1..l PROVE more[i] = stream[i]
    <3> HIDE DEF more
    <3>1. i \in 1..(l + k) /\ i =< l
      OBVIOUS
    <3> QED
      BY <2>1, <3>1
  <2> QED
    BY <2>1, <2>2, <2>3
<1> HIDE DEF more
<1>12. /\ sent' \in Seq(Msg) /\ Len(sent') = n + 1 /\ sent'[n + 1] = msg
       /\ \A m \in 1..n : sent'[m] = sent[m]
  BY <1>4, <1>9
<1>13. /\ at \in [0..n -> Nat] /\ at[0] = 0
       /\ \A m \in 1..n :
            /\ Accepted(Len(sent[m]))
            /\ at[m] = at[m - 1] + Segments(Len(sent[m])) /\ at[m] =< m * MaxCount
            /\ \A i \in 1..Segments(Len(sent[m])) : stream[at[m - 1] + i] = Cut(sent[m])[i]
  BY <1>1, <1>4 DEF StreamInv
<1>14. /\ to \in [0..(n + 1) -> Nat] /\ to[0] = 0 /\ to[n + 1] = l + k
       /\ \A m \in 0..n : to[m] = at[m]
  BY <1>7, <1>10, <1>13
<1> HIDE DEF to
<1>15. \A m \in 0..n : at[m] \in Nat /\ at[m] =< l
  <2> DEFINE T == {i \in Nat : i =< n => at[n - i] =< l}
  <2>1. 0 \in T
    BY <1>10, <1>13
  <2>2. ASSUME NEW i \in Nat, i \in T PROVE i + 1 \in T
    <3>1. CASE i + 1 =< n
      <4>1. PICK m \in 1..n : m = n - i /\ m - 1 = n - (i + 1) /\ i =< n
        BY <3>1
      <4>2. at[m] =< l /\ at[m] \in Nat /\ at[m - 1] \in Nat
        BY <1>13, <2>2, <4>1
      <4>3. at[m] = at[m - 1] + Segments(Len(sent[m]))
        BY <1>13
      <4>4. Segments(Len(sent[m])) \in Nat
        <5>1. Len(sent[m]) \in Nat
          BY <1>4 DEF Msg
        <5> QED
          BY <1>6, <5>1, SegmentCount
      <4>5. at[m - 1] =< l
        BY <4>2, <4>3, <4>4
      <4> QED
        BY <4>1, <4>5
    <3>2. CASE ~(i + 1 =< n)
      BY <3>2
    <3> QED
      BY <3>1, <3>2
  <2>3. Nat \subseteq T
    <3> HIDE DEF T
    <3> QED
      BY <2>1, <2>2, SetInduction
  <2>4. ASSUME NEW m \in 0..n PROVE at[m] =< l
    <3>1. n - m \in Nat /\ n - (n - m) = m /\ n - m =< n
      OBVIOUS
    <3>2. n - m \in T
      BY <2>3, <3>1
    <3> QED
      BY <3>1, <3>2
  <2> QED
    BY <1>13, <2>4
<1>16. /\ SizeInv' /\ Segment' = Segment
       /\ \A x : Segments(x)' = Segments(x) /\ (Accepted(x)' <=> Accepted(x))
       /\ \A x : Cut(x)' = Cut(x)
       /\ \A x, y : Datagram(x, y)' = Datagram(x, y)
  BY <1>3, <1>6, SameSizes
<1>17. StreamInv(to, more)'
  <2>1. ASSUME NEW m \in 1..(n + 1)
        PROVE  /\ Accepted(Len(sent'[m]))
               /\ to[m] = to[m - 1] + Segments(Len(sent'[m])) /\ to[m] =< m * MaxCount
               /\ \A i \in 1..Segments(Len(sent'[m])) : more[to[m - 1] + i] = Cut(sent'[m])[i]
    <3>1. CASE m = n + 1
      <4>1. to[m - 1] = l /\ to[m] = l + k /\ sent'[m] = msg
        <5>1. m - 1 = n /\ n \in 0..(n + 1) /\ n =< n
          BY <3>1
        <5>2. to[n] = at[n]
          BY <1>14
        <5>3. to[n + 1] = l + k /\ at[n] = l /\ sent'[n + 1] = msg
          BY <1>10, <1>12, <1>14
        <5> QED
          BY <3>1, <5>1, <5>2, <5>3
      <4>2. l + k =< m * MaxCount
        <5>1. l =< n * MaxCount /\ n * MaxCount \in Nat
          <6>1. CASE n = 0
            BY <1>10, <1>13, <6>1, PackConstants
          <6>2. CASE n # 0
            <7>1. n \in 1..n
              BY <6>2
            <7> QED
              BY <1>10, <1>13, <7>1, PackConstants, Products
          <6> QED
            BY <6>1, <6>2
        <5>2. (n + 1) * MaxCount = n * MaxCount + MaxCount
          BY PackConstants, Products
        <5>3. PICK p \in Nat : p = n * MaxCount /\ l =< p
          BY <5>1
        <5>4. k =< MaxCount /\ MaxCount \in Nat
          BY <1>7, PackConstants
        <5>5. l + k =< p + MaxCount
          BY <5>3, <5>4
        <5> QED
          BY <3>1, <5>2, <5>3, <5>5
      <4> QED
        BY <1>2, <1>5, <1>7, <1>8, <1>11, <4>1, <4>2
    <3>2. CASE m # n + 1
      <4>1. m \in 1..n /\ m \in 0..n /\ m - 1 \in 0..n /\ m - 1 \in Nat
        BY <3>2
      <4>2. to[m] = at[m] /\ to[m - 1] = at[m - 1] /\ sent'[m] = sent[m]
        BY <1>12, <1>14, <4>1
      <4>3. PICK c \in Nat : c = Segments(Len(sent[m]))
        <5>1. Len(sent[m]) \in Nat
          BY <1>4, <4>1 DEF Msg
        <5> QED
          BY <1>6, <5>1, SegmentCount
      <4>4. ASSUME NEW i \in 1..c PROVE more[at[m - 1] + i] = stream[at[m - 1] + i]
        <5>1. at[m - 1] \in Nat /\ at[m] =< l /\ at[m] = at[m - 1] + c
          BY <1>13, <1>15, <4>1, <4>3
        <5>2. at[m - 1] + i \in 1..l
          BY <5>1
        <5> QED
          BY <1>11, <5>2
      <4>5. /\ Accepted(Len(sent[m]))
            /\ at[m] = at[m - 1] + c /\ at[m] =< m * MaxCount
            /\ \A i \in 1..c : stream[at[m - 1] + i] = Cut(sent[m])[i]
        BY <1>13, <4>1, <4>3
      <4>6. \A i \in 1..c : more[at[m - 1] + i] = Cut(sent[m])[i]
        BY <4>4, <4>5
      <4> QED
        BY <4>2, <4>3, <4>5, <4>6, Zenon
    <3> QED
      BY <3>1, <3>2
  <2>2. n + 1 =< MaxMsgs
    BY <1>3, <1>4, PackConstants
  <2>3. /\ sent' \in Seq(Msg) /\ Len(sent') =< MaxMsgs
        /\ to \in [0..Len(sent') -> Nat] /\ to[0] = 0
        /\ more \in Seq(Segment) /\ Len(more) = to[Len(sent')]
    BY <1>11, <1>12, <1>14, <2>2
  <2> QED
    BY <1>12, <1>16, <2>1, <2>3 DEF StreamInv
<1>18. SenderInv(more)'
  <2>1. PICK nxt \in Nat, ql \in Nat :
          /\ nxt = snd_nxt /\ ql = Len(snd_queue) /\ nxt + ql = l /\ snd_queue \in Seq(Segment)
          /\ \A i \in 1..ql : snd_queue[i] = stream[nxt + i]
          /\ DOMAIN snd_buf \subseteq 0..(nxt - 1)
          /\ \A sn \in DOMAIN snd_buf : snd_buf[sn] = stream[sn + 1]
    <3>1. /\ snd_nxt \in Nat /\ snd_queue \in Seq(Segment)
          /\ snd_nxt + Len(snd_queue) = Len(stream)
          /\ \A i \in 1..Len(snd_queue) : snd_queue[i] = stream[snd_nxt + i]
          /\ DOMAIN snd_buf \subseteq 0..(snd_nxt - 1)
          /\ \A sn \in DOMAIN snd_buf : snd_buf[sn] = stream[sn + 1]
      BY <1>1 DEF SenderInv
    <3>2. Len(snd_queue) \in Nat
      BY <3>1
    <3> QED
      BY <1>10, <3>1, <3>2
  <2>2. /\ snd_queue' \in Seq(Segment) /\ Len(snd_queue') = ql + k
        /\ \A i \in 1..(ql + k) : snd_queue'[i] = IF i =< ql THEN snd_queue[i] ELSE cut[i - ql]
    <3>1. PICK q \in Seq(Segment) : q = snd_queue /\ Len(q) = ql
      BY <2>1
    <3>2. /\ q \o cut \in Seq(Segment) /\ Len(q \o cut) = ql + k
          /\ \A i \in 1..(ql + k) : (q \o cut)[i] = IF i =< ql THEN q[i] ELSE cut[i - ql]
      <4>1. Len(cut) = k /\ Len(q) = ql
        BY <1>8, <3>1
      <4> QED
        BY <4>1, ConcatProperties
    <3>3. snd_queue' = q \o cut
      BY <1>9, <3>1
    <3> QED
      BY <3>1, <3>2, <3>3
  <2>3. ASSUME NEW i \in 1..(ql + k) PROVE snd_queue'[i] = more[nxt + i]
    <3>1. CASE i =< ql
      <4>1. i \in 1..ql /\ nxt + i \in 1..l
        BY <2>1, <3>1
      <4> QED
        BY <1>11, <2>1, <2>2, <3>1, <4>1
    <3>2. CASE ~(i =< ql)
      <4>1. i - ql \in 1..k /\ nxt + i = l + (i - ql)
        <5>1. nxt + ql = l
          BY <2>1
        <5> QED
          BY <3>2, <5>1
      <4>2. more[l + (i - ql)] = cut[i - ql]
        BY <1>11, <4>1
      <4> QED
        BY <2>2, <3>2, <4>1, <4>2
    <3> QED
      BY <3>1, <3>2
  <2>4. ASSUME NEW sn \in DOMAIN snd_buf PROVE snd_buf[sn] = more[sn + 1]
    <3>1. sn + 1 \in 1..l
      BY <2>1
    <3> QED
      BY <1>11, <2>1, <3>1
  <2>5. snd_nxt' = nxt /\ snd_buf' = snd_buf
    BY <1>3, <2>1
  <2>6. nxt + Len(snd_queue') = Len(more)
    <3>1. nxt + ql = l /\ Len(snd_queue') = ql + k /\ Len(more) = l + k
      BY <1>11, <2>1, <2>2
    <3> QED
      BY <3>1
  <2> QED
    BY <1>16, <2>1, <2>2, <2>3, <2>4, <2>5, <2>6 DEF SenderInv
<1>19. snd_nxt \in 0..l
  BY <1>1, <1>10 DEF SenderInv
<1>20. net' \in Seq(Datagram(more, snd_nxt))'
  <2>1. snd_nxt \in Nat /\ \A i \in 1..snd_nxt : more[i] = stream[i]
    <3>1. snd_nxt \in Nat /\ l \in Nat /\ snd_nxt =< l
      BY <1>19
    <3>2. \A i \in 1..snd_nxt : i \in 1..l
      BY <3>1
    <3> QED
      BY <1>11, <3>1, <3>2
  <2>2. net \in Seq(Datagram(more, snd_nxt))
    BY <1>1, <2>1, KnownGrows
  <2> QED
    BY <1>3, <1>16, <2>2
<1>21. ReceiverInv(to, more)'
  <2>1. /\ rcv_nxt \in 0..snd_nxt /\ rcv_queue \in Seq(Segment)
        /\ DOMAIN rcv_buf \subseteq 0..(snd_nxt - 1)
        /\ \A sn \in DOMAIN rcv_buf : rcv_buf[sn] = stream[sn + 1]
        /\ received \in Seq(Msg) /\ Len(received) =< n
        /\ at[Len(received)] + Len(rcv_queue) = rcv_nxt
        /\ \A i \in 1..Len(rcv_queue) : rcv_queue[i] = stream[at[Len(received)] + i]
        /\ \A m \in 1..Len(received) : received[m] = sent[m]
    BY <1>1, <1>4 DEF ReceiverInv
  <2>2. PICK c \in 0..n, a \in Nat : c = Len(received) /\ a = at[c] /\ to[c] = a
    <3>1. Len(received) \in 0..n
      BY <2>1
    <3> QED
      BY <1>13, <1>14, <3>1
  <2>3. ASSUME NEW i \in 1..Len(rcv_queue) PROVE rcv_queue[i] = more[a + i]
    <3>1. a + i \in 1..l
      BY <1>19, <2>1, <2>2
    <3> QED
      BY <1>11, <2>1, <2>2, <3>1
  <2>4. ASSUME NEW sn \in DOMAIN rcv_buf PROVE rcv_buf[sn] = more[sn + 1]
    <3>1. sn + 1 \in 1..l
      BY <1>19, <2>1
    <3> QED
      BY <1>11, <2>1, <3>1
  <2>5. ASSUME NEW m \in 1..Len(received) PROVE received[m] = sent'[m]
    BY <1>12, <2>1, <2>2
  <2>6. UNCHANGED <<rcv_nxt, rcv_queue, rcv_buf, received, snd_nxt>>
    BY <1>3 DEF rcvVars
  <2>7. Len(received) =< Len(sent')
    BY <1>12, <2>1, <2>2
  <2>8. to[Len(received)] + Len(rcv_queue) = rcv_nxt
    BY <2>1, <2>2
  <2> QED
    BY <1>16, <2>1, <2>2, <2>3, <2>4, <2>5, <2>6, <2>7, <2>8 DEF ReceiverInv
<1> QED
  BY <1>16, <1>17, <1>18, <1>20, <1>21 DEF PackInv


(* ikcp_flush: everything that waits gets its number and leaves, once and  *)
(* in order, behind what was on the path before.                           *)
LEMMA FlushKeeps ==
  ASSUME PackAssumption, PackInv, ikcp_flush
  PROVE  PackInv' /\ EndsWith(FlattenSeq(net'), snd_nxt, snd_nxt')
<1>1. PICK at, stream : /\ StreamInv(at, stream) /\ SenderInv(stream)
                        /\ net \in Seq(Datagram(stream, snd_nxt)) /\ ReceiverInv(at, stream)
  BY DEF PackInv
<1>2. SizeInv
  BY DEF PackInv
<1>3. PICK small \in 0..MaxSmall, again \in SUBSET DOMAIN snd_buf : Flush(small, again)
  BY DEF ikcp_flush
<1>4. small \in Nat
  BY PackConstants
<1>5. /\ snd_nxt \in Nat /\ snd_queue \in Seq(Segment)
      /\ snd_nxt + Len(snd_queue) = Len(stream)
      /\ \A i \in 1..Len(snd_queue) : snd_queue[i] = stream[snd_nxt + i]
      /\ DOMAIN snd_buf \subseteq 0..(snd_nxt - 1)
      /\ \A sn \in DOMAIN snd_buf : snd_buf[sn] = stream[sn + 1]
  BY <1>1 DEF SenderInv
<1>6. Len(stream) \in Nat /\ Len(stream) =< Word /\ stream \in Seq(Segment)
  BY <1>1, StreamBound DEF StreamInv
<1>7. PICK old \in Nat, nxt \in Nat : old = snd_nxt /\ nxt = Len(stream) /\ old =< nxt
  <2>1. snd_nxt \in Nat /\ Len(snd_queue) \in Nat /\ snd_nxt + Len(snd_queue) = Len(stream)
    BY <1>5
  <2>2. snd_nxt =< Len(stream) /\ Len(stream) \in Nat
    BY <2>1
  <2> QED
    BY <2>1, <2>2
<1>8. /\ snd_buf' = [sn \in DOMAIN snd_buf \cup (old..(nxt - 1)) |->
                       IF sn \in old..(nxt - 1) THEN snd_queue[sn - old + 1] ELSE snd_buf[sn]]
      /\ snd_queue' = << >> /\ snd_nxt' = nxt
      /\ net' = net \o Flushed(small, again \cup (old..(nxt - 1)), snd_buf', nxt)
      /\ UNCHANGED <<mtu, mss, sent>> /\ UNCHANGED rcvVars
  BY <1>3, <1>5, <1>7 DEF Flush
<1>9. ASSUME NEW sn \in DOMAIN snd_buf \cup (old..(nxt - 1))
      PROVE  sn \in 0..(nxt - 1) /\ snd_buf'[sn] = stream[sn + 1]
  <2>1. CASE sn \in old..(nxt - 1)
    <3>1. sn - old + 1 \in 1..Len(snd_queue) /\ old + (sn - old + 1) = sn + 1
      BY <1>5, <1>7, <2>1
    <3>2. snd_queue[sn - old + 1] = stream[sn + 1]
      BY <1>5, <1>7, <3>1
    <3> QED
      BY <1>8, <2>1, <3>2
  <2>2. CASE sn \notin old..(nxt - 1)
    <3>1. sn \in DOMAIN snd_buf
      BY <2>2
    <3> QED
      BY <1>5, <1>7, <1>8, <2>2, <3>1
  <2> QED
    BY <2>1, <2>2
<1>10. PICK buf : buf = snd_buf'
  OBVIOUS
<1>11. again \in SUBSET (0..(old - 1)) /\ nxt \in 0..Len(stream) /\ old \in 0..nxt
  BY <1>5, <1>6, <1>7
<1>12. \A sn \in again \cup (old..(nxt - 1)) : buf[sn] = stream[sn + 1]
  BY <1>9, <1>10
<1>13. PICK out : /\ out = Flushed(small, again \cup (old..(nxt - 1)), buf, nxt)
                  /\ out \in Seq(Datagram(stream, nxt))
                  /\ EndsWith(FlattenSeq(out), old, nxt)
  BY <1>2, <1>4, <1>6, <1>7, <1>11, <1>12, FlushedDatagrams
<1>14. net' = net \o out
  BY <1>8, <1>10, <1>13
<1>15. net \in Seq(Datagram(stream, nxt))
  BY <1>1, <1>7, KnownGrows
<1>16. net' \in Seq(Datagram(stream, nxt))
  BY <1>13, <1>14, <1>15
<1>17. PackInv'
  <2>1. SizeInv' /\ Segment' = Segment /\ Datagram(stream, nxt)' = Datagram(stream, nxt)
    BY <1>2, <1>8, SameSizes
  <2>2. StreamInv(at, stream)'
    BY <1>1, <1>8, SameStream
  <2>3. SenderInv(stream)'
    <3>1. << >> \in Seq(Segment) /\ Len(<< >>) = 0
      OBVIOUS
    <3>2. DOMAIN snd_buf' = DOMAIN snd_buf \cup (old..(nxt - 1))
      BY <1>8
    <3>3. \A sn \in DOMAIN snd_buf' : sn \in 0..(nxt - 1) /\ snd_buf'[sn] = stream[sn + 1]
      BY <1>9, <3>2
    <3>4. snd_queue' = << >> /\ snd_nxt' = nxt
      BY <1>8
    <3> HIDE <1>8
    <3>5. snd_nxt' + Len(snd_queue') = Len(stream)
      BY <1>7, <3>1, <3>4
    <3> QED
      BY <2>1, <3>1, <3>3, <3>4, <3>5 DEF SenderInv
  <2>4. net' \in Seq(Datagram(stream, snd_nxt))'
    BY <1>8, <1>16, <2>1
  <2>5. ReceiverInv(at, stream)'
    <3>1. UNCHANGED <<rcv_nxt, rcv_queue, rcv_buf, received, sent>>
      BY <1>8 DEF rcvVars
    <3>2. 0..snd_nxt \subseteq 0..nxt /\ 0..(snd_nxt - 1) \subseteq 0..(nxt - 1)
      BY <1>7
    <3>3. snd_nxt' = nxt
      BY <1>8
    <3> QED
      BY <1>1, <2>1, <3>1, <3>2, <3>3 DEF ReceiverInv
  <2> QED
    BY <2>1, <2>2, <2>3, <2>4, <2>5 DEF PackInv
<1>18. EndsWith(FlattenSeq(net'), snd_nxt, snd_nxt')
  <2> DEFINE K == Known(stream, nxt)
             O == Known(stream, old)
  <2>1. net \in Seq(Seq(O)) /\ net \in Seq(Seq(K)) /\ out \in Seq(Seq(K))
    <3>1. Datagram(stream, nxt) \subseteq Seq(K) /\ Datagram(stream, old) \subseteq Seq(O)
      BY DEF Datagram
    <3>2. net \in Seq(Datagram(stream, old))
      BY <1>1, <1>7
    <3> HIDE DEF K, O
    <3> QED
      BY <1>13, <1>15, <3>1, <3>2
  <2>2. old \in 0..Len(stream) /\ old =< Word
    BY <1>6, <1>7, PackConstants
  <2>3. \A w \in O : w.push => ikcp_decode32u(w.sn) < old
    <3> SUFFICES ASSUME NEW w \in O, w.push PROVE ikcp_decode32u(w.sn) < old
      OBVIOUS
    <3>1. ikcp_decode32u(w.sn) \in 0..(old - 1)
      BY <1>2, <1>6, <2>2, KnownFits
    <3> QED
      BY <3>1
  <2> HIDE DEF K, O
  <2>4. FlattenSeq(net) \in Seq(O) /\ FlattenSeq(net) \in Seq(K) /\ FlattenSeq(out) \in Seq(K)
    BY <2>1, Flattened
  <2>5. PICK s, t : s = FlattenSeq(net) /\ t = FlattenSeq(out)
    OBVIOUS
  <2>6. \A i \in 1..Len(s) : s[i].push => ikcp_decode32u(s[i].sn) < old
    BY <2>3, <2>4, <2>5
  <2>7. EndsWith(s \o t, old, nxt)
    BY <1>13, <2>4, <2>5, <2>6, EndsAfterPath
  <2>8. FlattenSeq(net') = s \o t
    BY <1>14, <2>1, <2>5, FlattenConcat
  <2> QED
    BY <1>7, <1>8, <2>7, <2>8
<1> QED
  BY <1>17, <1>18

(* The acknowledgement drops segments of snd_buf.                          *)
LEMMA AckKeeps ==
  ASSUME PackAssumption, PackInv, Ack
  PROVE  PackInv'
<1>1. PICK at, stream : /\ StreamInv(at, stream) /\ SenderInv(stream)
                        /\ net \in Seq(Datagram(stream, snd_nxt)) /\ ReceiverInv(at, stream)
  BY DEF PackInv
<1>2. /\ UNCHANGED <<mtu, mss, sent>> /\ UNCHANGED <<snd_queue, snd_nxt, net>>
      /\ UNCHANGED <<rcv_nxt, rcv_queue, rcv_buf, received>>
  BY DEF Ack, rcvVars
<1>3. /\ SizeInv' /\ Segment' = Segment
      /\ Datagram(stream, snd_nxt') = Datagram(stream, snd_nxt)
      /\ Datagram(stream, snd_nxt)' = Datagram(stream, snd_nxt')
  <2>1. SizeInv
    BY DEF PackInv
  <2> QED
    BY <1>2, <2>1, SameSizes DEF Datagram
<1>4. StreamInv(at, stream)'
  BY <1>1, <1>2, SameStream
<1>5. SenderInv(stream)'
  <2>1. /\ DOMAIN snd_buf' \subseteq DOMAIN snd_buf
        /\ \A sn \in DOMAIN snd_buf' : snd_buf'[sn] = snd_buf[sn]
    BY DEF Ack
  <2> QED
    BY <1>1, <1>2, <1>3, <2>1 DEF SenderInv
<1>6. ReceiverInv(at, stream)'
  BY <1>1, <1>2, <1>3 DEF ReceiverInv
<1>7. net' \in Seq(Datagram(stream, snd_nxt))'
  BY <1>1, <1>2, <1>3
<1> QED
  BY <1>3, <1>4, <1>5, <1>6, <1>7 DEF PackInv

-----------------------------------------------------------------------------
(* Reading a datagram.                                                     *)

(* A set of numbers up to n has a greatest one.                            *)
LEMMA Greatest ==
  ASSUME NEW n \in Nat, NEW S \in SUBSET (0..n), S # {}
  PROVE  Max(S) \in S
<1> DEFINE T == {n - k : k \in S}
<1>1. T \subseteq Nat /\ T # {}
  OBVIOUS
<1>2. PICK x \in T : \A y \in T : x =< y
  BY <1>1, LeastNat
<1>3. PICK k \in S : x = n - k
  OBVIOUS
<1>4. ASSUME NEW j \in S PROVE k >= j
  <2>1. n - j \in T
    OBVIOUS
  <2>2. n - k =< n - j
    BY <1>2, <1>3, <2>1
  <2>3. k \in 0..n /\ j \in 0..n
    OBVIOUS
  <2> QED
    BY <2>2, <2>3
<1>5. \E m \in S : \A j \in S : m >= j
  BY <1>4
<1> QED
  BY <1>5 DEF Max

(* What the path makes of a segment: only its conv and cmd may differ.     *)
Alike(v, w) ==
  v.push = w.push /\ v.frg = w.frg /\ v.sn = w.sn /\ v.len = w.len /\ v.data = w.data

(* Whatever is missing or damaged, the segments ikcp_input reads are       *)
(* segments of the datagram.                                               *)
LEMMA ReadableKnown ==
  ASSUME PackAssumption, NEW K, K \subseteq Wire, NEW d \in Seq(K), NEW a \in Arrives(d),
         NEW v \in ToSet(Readable(a))
  PROVE  \E w \in K : Alike(v, w)
<1>1. PICK n \in Nat : n = Len(d) /\ DOMAIN d = 1..n /\ \A i \in 1..n : d[i] \in K
  OBVIOUS
<1>2. /\ Size(<< >>) = 0 /\ Size(d) \in Nat
  BY NeedOfWire, Sizes
<1>3. /\ a.size \in Nat /\ a.segs \in Seq(Wire) /\ Len(a.segs) = n
      /\ \A i \in 1..n : Alike(a.segs[i], d[i])
  <2>1. d \in Seq(Wire)
    OBVIOUS
  <2>2. CASE a \in {[segs |-> d, size |-> size] : size \in 0..Size(d)}
    BY <1>1, <1>2, <2>1, <2>2 DEF Alike
  <2>3. CASE a \in {[segs |-> [d EXCEPT ![i].ok = FALSE], size |-> Size(d)] : i \in DOMAIN d}
    <3>1. PICK i \in 1..n : a = [segs |-> [d EXCEPT ![i].ok = FALSE], size |-> Size(d)]
      BY <1>1, <2>3
    <3>2. PICK e : e = [d[i] EXCEPT !.ok = FALSE]
      OBVIOUS
    <3>3. d[i] \in Wire
      BY <1>1
    <3>4. e \in Wire /\ Alike(e, d[i])
      BY <3>2, <3>3 DEF Wire, Alike
    <3>5. a.segs = [d EXCEPT ![i] = e] /\ a.size = Size(d)
      BY <3>1, <3>2
    <3>6. /\ [d EXCEPT ![i] = e] \in Seq(Wire) /\ Len([d EXCEPT ![i] = e]) = n
          /\ \A j \in 1..n : [d EXCEPT ![i] = e][j] = IF j = i THEN e ELSE d[j]
      BY <1>1, <2>1, <3>4, ExceptSeq
    <3>7. \A j \in 1..n : Alike(d[j], d[j])
      BY DEF Alike
    <3> QED
      BY <1>2, <3>4, <3>5, <3>6, <3>7
  <2> QED
    BY <2>2, <2>3 DEF Arrives
<1>4. PICK m \in 0..n : Readable(a) = SubSeq(a.segs, 1, m)
  <2> DEFINE S == {k \in 0..Len(a.segs) : Intact(a, k)}
  <2>1. SubSeq(a.segs, 1, 0) = << >>
    BY <1>3
  <2>2. Intact(a, 0)
    <3>1. a.size >= Size(SubSeq(a.segs, 1, 0))
      <4>1. Size(SubSeq(a.segs, 1, 0)) = 0
        BY <1>2, <2>1
      <4>2. a.size \in Nat
        BY <1>3
      <4> QED
        BY <4>1, <4>2
    <3>2. 1..0 = {}
      OBVIOUS
    <3> QED
      BY <3>1, <3>2 DEF Intact
  <2>3. S \in SUBSET (0..n) /\ S # {}
    BY <1>3, <2>2
  <2>4. Max(S) \in 0..n
    BY <2>3, Greatest
  <2> QED
    BY <2>4 DEF Readable
<1>5. PICK i \in 1..m : v = a.segs[i]
  <2>1. /\ SubSeq(a.segs, 1, m) \in Seq(Wire) /\ Len(SubSeq(a.segs, 1, m)) = m
        /\ \A i \in 1..m : SubSeq(a.segs, 1, m)[i] = a.segs[i]
    BY <1>3
  <2>2. DOMAIN SubSeq(a.segs, 1, m) = 1..m
    BY <2>1
  <2> QED
    BY <1>4, <2>1, <2>2 DEF ToSet
<1>6. i \in 1..n
  OBVIOUS
<1> QED
  BY <1>1, <1>3, <1>5, <1>6

(* And every data segment among them is the one of the stream that its     *)
(* number says.                                                            *)
LEMMA PushedKnown ==
  ASSUME PackAssumption, SizeInv, NEW stream \in Seq(Segment), NEW nxt \in 0..Len(stream),
         nxt =< Word, NEW d \in Datagram(stream, nxt), NEW a \in Arrives(d),
         NEW sn \in DOMAIN Pushed(Readable(a))
  PROVE  sn \in 0..(nxt - 1) /\ Pushed(Readable(a))[sn] = stream[sn + 1]
<1> DEFINE K == Known(stream, nxt)
           push == {s \in ToSet(Readable(a)) : s.push}
           Read(s) == [frg |-> ikcp_decode8u(s.frg),
                       data |-> SubSeq(s.data, 1, ikcp_decode32u(s.len))]
<1>1. d \in Seq(K) /\ K \subseteq Wire
  BY DEF Datagram, Known
<1>2. ASSUME NEW s \in push
      PROVE  /\ ikcp_decode32u(s.sn) \in 0..(nxt - 1)
             /\ Read(s) = stream[ikcp_decode32u(s.sn) + 1]
  <2>1. PICK w \in K : Alike(s, w)
    BY <1>1, ReadableKnown
  <2>2. w.push /\ w.sn = s.sn /\ w.frg = s.frg /\ w.data = s.data /\ w.len = s.len
    BY <2>1 DEF Alike
  <2>3. /\ ikcp_decode32u(w.sn) \in 0..(nxt - 1)
        /\ [frg |-> ikcp_decode8u(w.frg),
            data |-> SubSeq(w.data, 1, ikcp_decode32u(w.len))] = stream[ikcp_decode32u(w.sn) + 1]
    BY <2>2, KnownFits
  <2> QED
    BY <2>2, <2>3
<1> HIDE DEF push, Read
<1>3. Pushed(Readable(a)) =
        [x \in {ikcp_decode32u(s.sn) : s \in push} |->
           Read(CHOOSE s \in push : ikcp_decode32u(s.sn) = x)]
  BY DEF Pushed, push, Read
<1>4. PICK c : c = CHOOSE s \in push : ikcp_decode32u(s.sn) = sn
  OBVIOUS
<1>5. \E s \in push : ikcp_decode32u(s.sn) = sn
  BY <1>3
<1>6. c \in push /\ ikcp_decode32u(c.sn) = sn
  BY <1>4, <1>5
<1>7. Pushed(Readable(a))[sn] = Read(c)
  BY <1>3, <1>4
<1> QED
  BY <1>2, <1>6, <1>7

(* A number that is not in a finite set, among one more than it has.       *)
LEMMA NextMissing ==
  ASSUME NEW first \in Nat, NEW high \in Nat, first =< high, NEW D \in SUBSET (0..(high - 1))
  PROVE  LET nxt == Min({sn \in first..(first + Cardinality(D)) : sn \notin D})
         IN /\ nxt \in first..high
            /\ \A sn \in first..(nxt - 1) : sn \in D
<1>1. IsFiniteSet(D) /\ Cardinality(D) \in Nat
  <2>1. IsFiniteSet(0..(high - 1))
    BY FS_Interval
  <2> QED
    BY <2>1, FS_Subset, FS_CardinalityType
<1>2. PICK c \in Nat : c = Cardinality(D)
  BY <1>1
<1> DEFINE S == {sn \in first..(first + c) : sn \notin D}
<1>3. S # {}
  <2> SUFFICES ASSUME first..(first + c) \subseteq D PROVE FALSE
    OBVIOUS
  <2>1. Cardinality(first..(first + c)) =< c
    BY <1>1, <1>2, FS_Subset
  <2>2. Cardinality(first..(first + c)) = c + 1
    <3>1. Cardinality(first..(first + c)) =
            IF first > first + c THEN 0 ELSE (first + c) - first + 1
      BY FS_Interval
    <3> QED
      BY <3>1
  <2> QED
    BY <2>1, <2>2
<1>4. S \subseteq Nat
  OBVIOUS
<1>5. PICK x \in S : \A y \in S : x =< y
  BY <1>3, <1>4, LeastNat
<1>6. PICK m : m = Min(S) /\ m \in S /\ \A y \in S : m =< y
  BY <1>5 DEF Min
<1>7. m \in first..(first + c) /\ m \notin D
  BY <1>6
<1>8. ASSUME NEW sn \in first..(m - 1) PROVE sn \in D
  <2>1. sn \in first..(first + c) /\ ~(m =< sn)
    BY <1>7
  <2> QED
    BY <1>6, <2>1
<1>9. m =< high
  <2>1. CASE m = first
    BY <2>1
  <2>2. CASE m # first
    <3>1. m - 1 \in first..(m - 1)
      BY <1>7, <2>2
    <3>2. m - 1 \in D
      BY <1>8, <3>1
    <3> QED
      BY <1>7, <3>2
  <2> QED
    BY <2>1, <2>2
<1> QED
  BY <1>2, <1>6, <1>7, <1>8, <1>9

(* ikcp_input: the segments of the datagram join those that are there, the *)
(* next ones move to the queue.                                            *)
LEMMA InputKeeps ==
  ASSUME PackAssumption, PackInv, ikcp_input
  PROVE  PackInv' /\ net' = Tail(net) /\ snd_nxt' = snd_nxt
<1>1. PICK at, stream : /\ StreamInv(at, stream) /\ SenderInv(stream)
                        /\ net \in Seq(Datagram(stream, snd_nxt)) /\ ReceiverInv(at, stream)
  BY DEF PackInv
<1>2. SizeInv
  BY DEF PackInv
<1>3. net # << >>
  BY DEF ikcp_input
<1>4. PICK arrived \in Arrives(Head(net)) : Input(arrived)
  BY DEF ikcp_input
<1>5. PICK high \in Nat : /\ high = snd_nxt /\ high \in 0..Len(stream) /\ high =< Word
                          /\ stream \in Seq(Segment)
  <2>1. Len(stream) \in Nat /\ Len(stream) =< Word /\ stream \in Seq(Segment)
    BY <1>1, StreamBound DEF StreamInv
  <2>2. snd_nxt \in Nat /\ snd_queue \in Seq(Segment) /\ snd_nxt + Len(snd_queue) = Len(stream)
    BY <1>1 DEF SenderInv
  <2>3. Len(snd_queue) \in Nat
    BY <2>2
  <2>4. snd_nxt =< Len(stream)
    BY <2>2, <2>3
  <2>5. snd_nxt \in 0..Len(stream) /\ snd_nxt =< Word
    BY <2>1, <2>2, <2>4, PackConstants
  <2> QED
    BY <2>1, <2>2, <2>5
<1>6. Head(net) \in Datagram(stream, high) /\ Tail(net) \in Seq(Datagram(stream, high))
  BY <1>1, <1>3, <1>5
<1>7. PICK first \in Nat, ql \in Nat, from \in Nat :
        /\ first = rcv_nxt /\ ql = Len(rcv_queue) /\ from = at[Len(received)]
        /\ first =< high /\ from + ql = first /\ rcv_queue \in Seq(Segment)
        /\ DOMAIN rcv_buf \subseteq 0..(high - 1)
        /\ \A sn \in DOMAIN rcv_buf : rcv_buf[sn] = stream[sn + 1]
        /\ \A i \in 1..ql : rcv_queue[i] = stream[from + i]
  <2>1. /\ rcv_nxt \in 0..snd_nxt /\ rcv_queue \in Seq(Segment)
        /\ DOMAIN rcv_buf \subseteq 0..(snd_nxt - 1)
        /\ \A sn \in DOMAIN rcv_buf : rcv_buf[sn] = stream[sn + 1]
        /\ at[Len(received)] + Len(rcv_queue) = rcv_nxt
        /\ \A i \in 1..Len(rcv_queue) : rcv_queue[i] = stream[at[Len(received)] + i]
    BY <1>1 DEF ReceiverInv
  <2>2. at[Len(received)] \in Nat
    <3>1. received \in Seq(Msg) /\ Len(received) =< Len(sent)
      BY <1>1 DEF ReceiverInv
    <3>2. sent \in Seq(Msg) /\ at \in [0..Len(sent) -> Nat]
      BY <1>1 DEF StreamInv
    <3>3. Len(received) \in 0..Len(sent)
      BY <3>1, <3>2
    <3> QED
      BY <3>2, <3>3
  <2>3. Len(rcv_queue) \in Nat /\ rcv_nxt \in Nat /\ rcv_nxt =< high
    BY <1>5, <2>1
  <2> QED
    BY <1>5, <2>1, <2>2, <2>3
<1> DEFINE new == Pushed(Readable(arrived))
           D == DOMAIN rcv_buf \cup {n \in DOMAIN new : n >= rcv_nxt}
           buf == [sn \in D |-> IF sn \in DOMAIN rcv_buf THEN rcv_buf[sn] ELSE new[sn]]
           nxt == Min({sn \in rcv_nxt..(rcv_nxt + Cardinality(DOMAIN buf)) : sn \notin DOMAIN buf})
<1>8. /\ rcv_queue' = rcv_queue \o [i \in 1..(nxt - rcv_nxt) |-> buf[rcv_nxt + i - 1]]
      /\ rcv_buf' = [sn \in DOMAIN buf \ (rcv_nxt..(nxt - 1)) |-> buf[sn]]
      /\ rcv_nxt' = nxt
      /\ net' = Tail(net)
      /\ UNCHANGED sndVars /\ UNCHANGED received
  BY <1>4 DEF Input
<1>9. \A sn \in DOMAIN new : sn \in 0..(high - 1) /\ new[sn] = stream[sn + 1]
  BY <1>2, <1>5, <1>6, PushedKnown
<1> HIDE DEF new
<1>10. /\ DOMAIN buf = D /\ D \in SUBSET (0..(high - 1))
       /\ \A sn \in D : buf[sn] = stream[sn + 1]
  BY <1>7, <1>9
<1> HIDE DEF D, buf
<1>11. nxt \in first..high /\ \A sn \in first..(nxt - 1) : sn \in D
  <2>1. first =< high
    BY <1>7
  <2>2. nxt = Min({sn \in first..(first + Cardinality(D)) : sn \notin D})
    BY <1>7, <1>10
  <2> HIDE DEF nxt
  <2> QED
    BY <1>10, <2>1, <2>2, NextMissing
<1> HIDE DEF nxt
<1>12. /\ rcv_queue' = rcv_queue \o [i \in 1..(nxt - first) |-> buf[first + i - 1]]
       /\ rcv_buf' = [sn \in D \ (first..(nxt - 1)) |-> buf[sn]]
       /\ rcv_nxt' = nxt
       /\ net' = Tail(net)
       /\ UNCHANGED sndVars /\ UNCHANGED received
  BY <1>7, <1>8, <1>10
<1>13. UNCHANGED <<mtu, mss, sent>> /\ UNCHANGED <<snd_queue, snd_buf, snd_nxt>>
  BY <1>12 DEF sndVars
<1>14. PICK k \in Nat : k = nxt - first /\ ql + k + from = nxt
  <2>1. from + ql = first
    BY <1>7
  <2> QED
    BY <1>11, <2>1
<1>15. PICK got \in Seq(Segment) : /\ got = [i \in 1..k |-> buf[first + i - 1]] /\ Len(got) = k
                                   /\ \A i \in 1..k : got[i] = stream[first + i]
  <2>1. ASSUME NEW i \in 1..k
        PROVE  buf[first + i - 1] = stream[first + i] /\ stream[first + i] \in Segment
    <3>1. first + i - 1 \in first..(nxt - 1) /\ (first + i - 1) + 1 = first + i
      BY <1>14
    <3>2. buf[first + i - 1] = stream[first + i]
      BY <1>10, <1>11, <3>1
    <3>3. first + i \in 1..Len(stream)
      BY <1>5, <1>11, <1>14
    <3> QED
      BY <1>5, <3>2, <3>3
  <2> DEFINE g == [i \in 1..k |-> buf[first + i - 1]]
  <2>2. g \in Seq(Segment) /\ Len(g) = k
    <3>1. \A i \in 1..k : buf[first + i - 1] \in Segment
      BY <2>1
    <3> QED
      BY <3>1
  <2>3. \A i \in 1..k : g[i] = stream[first + i]
    BY <2>1
  <2> HIDE DEF g
  <2> QED
    BY <2>2, <2>3 DEF g
<1>16. /\ rcv_queue' \in Seq(Segment) /\ Len(rcv_queue') = ql + k
       /\ \A i \in 1..(ql + k) : rcv_queue'[i] = stream[from + i]
  <2>1. PICK q \in Seq(Segment) : q = rcv_queue /\ Len(q) = ql
    BY <1>7
  <2>2. /\ q \o got \in Seq(Segment) /\ Len(q \o got) = ql + k
        /\ \A i \in 1..(ql + k) : (q \o got)[i] = IF i =< ql THEN q[i] ELSE got[i - ql]
    <3>1. Len(got) = k /\ Len(q) = ql
      BY <1>15, <2>1
    <3> QED
      BY <3>1, ConcatProperties
  <2>3. rcv_queue' = q \o got
    BY <1>12, <1>14, <1>15, <2>1
  <2>4. ASSUME NEW i \in 1..(ql + k) PROVE rcv_queue'[i] = stream[from + i]
    <3>1. CASE i =< ql
      <4>1. i \in 1..ql
        BY <3>1
      <4> QED
        BY <1>7, <2>1, <2>2, <2>3, <3>1, <4>1
    <3>2. CASE ~(i =< ql)
      <4>1. i - ql \in 1..k /\ first + (i - ql) = from + i
        <5>1. from + ql = first
          BY <1>7
        <5> QED
          BY <3>2, <5>1
      <4>2. got[i - ql] = stream[from + i]
        BY <1>15, <4>1
      <4> QED
        BY <2>2, <2>3, <3>2, <4>2
    <3> QED
      BY <3>1, <3>2
  <2> QED
    BY <2>2, <2>3, <2>4
<1>17. /\ SizeInv' /\ Segment' = Segment
       /\ \A x, y : Datagram(x, y)' = Datagram(x, y)
  BY <1>2, <1>13, SameSizes
<1>18. StreamInv(at, stream)'
  BY <1>1, <1>13, SameStream
<1>19. SenderInv(stream)'
  BY <1>1, <1>13, <1>17 DEF SenderInv
<1>20. net' \in Seq(Datagram(stream, snd_nxt))'
  BY <1>5, <1>6, <1>12, <1>13, <1>17
<1>21. ReceiverInv(at, stream)'
  <2>1. /\ received' \in Seq(Msg) /\ Len(received') =< Len(sent')
        /\ \A m \in 1..Len(received') : received'[m] = sent'[m]
        /\ at[Len(received')] = from
    BY <1>1, <1>7, <1>12, <1>13 DEF ReceiverInv
  <2>2. rcv_nxt' = nxt /\ nxt \in 0..high /\ snd_nxt' = high
    BY <1>5, <1>11, <1>12, <1>13
  <2>3. /\ DOMAIN rcv_buf' \subseteq 0..(high - 1)
        /\ \A sn \in DOMAIN rcv_buf' : rcv_buf'[sn] = stream[sn + 1]
    BY <1>10, <1>12
  <2>4. from + Len(rcv_queue') = nxt
    <3>1. Len(rcv_queue') = ql + k /\ ql + k + from = nxt
      BY <1>14, <1>16
    <3> QED
      BY <3>1
  <2>5. rcv_queue' \in Seq(Segment)'
    BY <1>16, <1>17
  <2>6. \A i \in 1..Len(rcv_queue') : rcv_queue'[i] = stream[at[Len(received')] + i]
    BY <1>16, <2>1
  <2> QED
    BY <2>1, <2>2, <2>3, <2>4, <2>5, <2>6 DEF ReceiverInv
<1>22. PackInv'
  BY <1>17, <1>18, <1>19, <1>20, <1>21 DEF PackInv
<1> QED
  BY <1>12, <1>13, <1>22

-----------------------------------------------------------------------------
(* Joining a message.                                                      *)

(* The segments of the next message are the first of the queue, as many as *)
(* frg of the first one says.                                              *)
LEMMA NextMessage ==
  ASSUME PackAssumption, SizeInv, NEW at, NEW stream, StreamInv(at, stream),
         SenderInv(stream), ReceiverInv(at, stream),
         rcv_queue # << >>, Len(rcv_queue) >= rcv_queue[1].frg + 1
  PROVE  LET c == Len(received)
             k == Segments(Len(sent[c + 1]))
         IN /\ c + 1 \in 1..Len(sent) /\ k \in Nat /\ k =< Len(rcv_queue)
            /\ at[c + 1] = at[c] + k
            /\ FirstMessage = k /\ Joined(k) = sent[c + 1]
<1>1. PICK n \in Nat : n = Len(sent) /\ DOMAIN sent = 1..n /\ sent \in Seq(Msg)
  BY DEF StreamInv
<1>2. PICK c \in 0..n, ql \in Nat \ {0} : c = Len(received) /\ ql = Len(rcv_queue)
  <2>1. received \in Seq(Msg) /\ Len(received) =< Len(sent) /\ rcv_queue \in Seq(Segment)
    BY DEF ReceiverInv
  <2>2. Len(received) \in 0..n
    BY <1>1, <2>1
  <2>3. Len(rcv_queue) \in Nat \ {0}
    BY <2>1
  <2> QED
    BY <2>2, <2>3
<1>3. at \in [0..n -> Nat] /\ Len(stream) = at[n] /\ stream \in Seq(Segment)
  BY <1>1 DEF StreamInv
<1>4. at[c] \in Nat /\ at[c] + ql =< Len(stream) /\ at[c] < at[n]
  <2>1. at[c] + ql = rcv_nxt /\ rcv_nxt \in 0..snd_nxt
    BY <1>2 DEF ReceiverInv
  <2>2. snd_nxt \in Nat /\ Len(snd_queue) \in Nat /\ snd_nxt + Len(snd_queue) = Len(stream)
    BY DEF SenderInv
  <2>3. at[c] \in Nat
    BY <1>3
  <2> QED
    BY <1>3, <2>1, <2>2, <2>3
<1>5. PICK m \in 1..n : m = c + 1 /\ m - 1 = c
  <2>1. c # n
    BY <1>3, <1>4
  <2> QED
    BY <2>1
<1>6. PICK msg \in Msg : msg = sent[m]
  BY <1>1
<1>7. Accepted(Len(msg))
  BY <1>1, <1>6 DEF StreamInv
<1>8. PICK k \in Nat \ {0} : k = Segments(Len(msg))
  <2>1. Len(msg) \in Nat
    BY DEF Msg
  <2> QED
    BY <2>1, SegmentCount
<1>9. at[m] = at[c] + k /\ \A i \in 1..k : stream[at[c] + i] = Cut(msg)[i]
  BY <1>1, <1>5, <1>6, <1>8 DEF StreamInv
<1>10. \A i \in 1..k : Cut(msg)[i].frg = k - i
  BY <1>7, <1>8, Pieces
<1>11. \A i \in 1..ql : rcv_queue[i] = stream[at[c] + i]
  BY <1>2 DEF ReceiverInv
<1>12. k =< ql
  <2>1. 1 \in 1..ql /\ 1 \in 1..k
    OBVIOUS
  <2>2. rcv_queue[1] = Cut(msg)[1]
    BY <1>9, <1>11, <2>1
  <2>3. rcv_queue[1].frg = k - 1
    BY <1>10, <2>1, <2>2
  <2> QED
    BY <1>2, <2>3
<1>13. \A i \in 1..k : rcv_queue[i] = Cut(msg)[i]
  <2> SUFFICES ASSUME NEW i \in 1..k PROVE rcv_queue[i] = Cut(msg)[i]
    OBVIOUS
  <2>1. i \in 1..ql
    BY <1>12
  <2> QED
    BY <1>9, <1>11, <2>1
<1>14. FirstMessage = k
  <2> DEFINE ends == {i \in DOMAIN rcv_queue : rcv_queue[i].frg = 0}
  <2>1. DOMAIN rcv_queue = 1..ql
    BY <1>2 DEF ReceiverInv
  <2>2. \A i \in 1..k : rcv_queue[i].frg = k - i
    BY <1>10, <1>13
  <2>3. k \in ends
    <3>1. k \in 1..k /\ k \in 1..ql
      BY <1>12
    <3>2. rcv_queue[k].frg = k - k
      BY <2>2, <3>1
    <3> QED
      BY <2>1, <3>1, <3>2
  <2>4. ASSUME NEW i \in ends PROVE k =< i
    <3>1. i \in 1..ql /\ rcv_queue[i].frg = 0
      BY <2>1
    <3>2. CASE i \in 1..k
      <4>1. k - i = 0
        BY <2>2, <3>1, <3>2
      <4> QED
        BY <3>2, <4>1
    <3>3. CASE i \notin 1..k
      BY <3>1, <3>3
    <3> QED
      BY <3>2, <3>3
  <2>5. ends \subseteq Int
    BY <2>1
  <2>6. FirstMessage = Min(ends)
    BY <2>3 DEF FirstMessage
  <2> HIDE DEF ends
  <2>7. PICK x : x = Min(ends) /\ x \in ends /\ \A y \in ends : x =< y
    BY <2>3, <2>4 DEF Min
  <2>8. x \in Int /\ k \in Int
    BY <2>3, <2>5, <2>7
  <2>9. x =< k /\ k =< x
    BY <2>3, <2>4, <2>7
  <2>10. x = k
    BY <2>8, <2>9
  <2> QED
    BY <2>6, <2>7, <2>10
<1>15. Joined(k) = msg
  BY <1>7, <1>8, <1>13, Rejoined DEF Joined
<1> QED
  BY <1>1, <1>2, <1>5, <1>6, <1>8, <1>9, <1>12, <1>14, <1>15

(* ikcp_recv: the next message is whole.                                   *)
LEMMA RecvKeeps ==
  ASSUME PackAssumption, PackInv, ikcp_recv
  PROVE  PackInv'
<1>1. PICK at, stream : /\ StreamInv(at, stream) /\ SenderInv(stream)
                        /\ net \in Seq(Datagram(stream, snd_nxt)) /\ ReceiverInv(at, stream)
  BY DEF PackInv
<1>2. SizeInv
  BY DEF PackInv
<1>3. /\ received' = Append(received, Joined(FirstMessage))
      /\ rcv_queue' = SubSeq(rcv_queue, FirstMessage + 1, Len(rcv_queue))
      /\ UNCHANGED sndVars /\ UNCHANGED <<net, rcv_buf, rcv_nxt>>
  BY DEF ikcp_recv
<1>4. rcv_queue # << >> /\ Len(rcv_queue) >= rcv_queue[1].frg + 1
  <2>1. ikcp_peeksize # -1
    BY DEF ikcp_recv
  <2>2. rcv_queue # << >> /\ ~(Len(rcv_queue) < rcv_queue[1].frg + 1)
    BY <2>1 DEF ikcp_peeksize
  <2>3. rcv_queue \in Seq(Segment)
    BY <1>1 DEF ReceiverInv
  <2>4. Len(rcv_queue) \in Nat /\ rcv_queue[1] \in Segment
    BY <2>2, <2>3
  <2>5. rcv_queue[1].frg \in Int
    BY <2>4, PackConstants DEF Segment
  <2> QED
    BY <2>2, <2>4, <2>5
<1>5. PICK c, k \in Nat : /\ c = Len(received) /\ c + 1 \in 1..Len(sent)
                          /\ k =< Len(rcv_queue) /\ at[c + 1] = at[c] + k
                          /\ FirstMessage = k /\ Joined(k) = sent[c + 1]
  BY <1>1, <1>2, <1>4, NextMessage
<1>6. UNCHANGED <<mtu, mss, sent>> /\ UNCHANGED <<snd_queue, snd_buf, snd_nxt>>
  BY <1>3 DEF sndVars
<1>7. /\ SizeInv' /\ Segment' = Segment
      /\ \A x, y : Datagram(x, y)' = Datagram(x, y)
  BY <1>2, <1>6, SameSizes
<1>8. StreamInv(at, stream)'
  BY <1>1, <1>6, SameStream
<1>9. SenderInv(stream)'
  BY <1>1, <1>6, <1>7 DEF SenderInv
<1>10. net' \in Seq(Datagram(stream, snd_nxt))'
  BY <1>1, <1>3, <1>6, <1>7
<1>11. ReceiverInv(at, stream)'
  <2>1. /\ rcv_nxt \in 0..snd_nxt /\ rcv_queue \in Seq(Segment)
        /\ DOMAIN rcv_buf \subseteq 0..(snd_nxt - 1)
        /\ \A sn \in DOMAIN rcv_buf : rcv_buf[sn] = stream[sn + 1]
        /\ received \in Seq(Msg)
        /\ at[c] + Len(rcv_queue) = rcv_nxt
        /\ \A i \in 1..Len(rcv_queue) : rcv_queue[i] = stream[at[c] + i]
        /\ \A m \in 1..Len(received) : received[m] = sent[m]
    BY <1>1, <1>5 DEF ReceiverInv
  <2>2. PICK ql \in Nat, from \in Nat, nxt \in Nat :
          ql = Len(rcv_queue) /\ from = at[c] /\ nxt = rcv_nxt /\ from + ql = nxt
    <3>1. c \in 0..Len(sent) /\ at \in [0..Len(sent) -> Nat]
      BY <1>1, <1>5 DEF StreamInv
    <3>2. snd_nxt \in Nat
      BY <1>1 DEF SenderInv
    <3>3. Len(rcv_queue) \in Nat /\ at[c] \in Nat /\ rcv_nxt \in Nat
      BY <2>1, <3>1, <3>2
    <3> QED
      BY <2>1, <3>3
  <2>3. PICK msg \in Msg : msg = sent[c + 1]
    BY <1>1, <1>5 DEF StreamInv
  <2>4. received' = Append(received, msg)
    BY <1>3, <1>5, <2>3
  <2>5. /\ received' \in Seq(Msg) /\ Len(received') = c + 1 /\ received'[c + 1] = msg
        /\ \A m \in 1..c : received'[m] = received[m]
    BY <1>5, <2>1, <2>4
  <2>6. ASSUME NEW m \in 1..Len(received') PROVE received'[m] = sent'[m]
    <3>1. CASE m = c + 1
      BY <1>6, <2>3, <2>5, <3>1
    <3>2. CASE m # c + 1
      <4>1. m \in 1..c
        BY <2>5, <3>2
      <4> QED
        BY <1>5, <1>6, <2>1, <2>5, <4>1
    <3> QED
      BY <3>1, <3>2
  <2>7. PICK q \in Seq(Segment) : /\ q = rcv_queue' /\ Len(q) = ql - k
                                  /\ \A i \in 1..(ql - k) : q[i] = rcv_queue[k + i]
    <3>1. PICK r \in Seq(Segment) : r = rcv_queue /\ Len(r) = ql /\ k =< ql
      BY <1>5, <2>1, <2>2
    <3>2. rcv_queue' = SubSeq(r, k + 1, ql)
      BY <1>3, <1>5, <3>1
    <3>3. /\ SubSeq(r, k + 1, ql) \in Seq(Segment) /\ Len(SubSeq(r, k + 1, ql)) = ql - k
          /\ \A i \in 1..(ql - k) : SubSeq(r, k + 1, ql)[i] = r[k + i]
      BY <3>1, Part
    <3> QED
      BY <3>1, <3>2, <3>3
  <2>8. at[c + 1] = from + k /\ k =< ql
    BY <1>5, <2>2
  <2>9. ASSUME NEW i \in 1..(ql - k) PROVE q[i] = stream[(from + k) + i]
    <3>1. k + i \in 1..ql /\ from + (k + i) = (from + k) + i
      OBVIOUS
    <3>2. rcv_queue[k + i] = stream[from + (k + i)]
      BY <2>1, <2>2, <3>1
    <3> QED
      BY <2>7, <3>1, <3>2
  <2>10. (from + k) + Len(q) = nxt
    <3>1. from + ql = nxt /\ Len(q) = ql - k
      BY <2>2, <2>7
    <3> QED
      BY <3>1
  <2>11. c + 1 =< Len(sent)
    BY <1>1, <1>5 DEF StreamInv
  <2>12. /\ rcv_queue' \in Seq(Segment)' /\ at[Len(received')] + Len(rcv_queue') = rcv_nxt'
         /\ \A i \in 1..Len(rcv_queue') : rcv_queue'[i] = stream[at[Len(received')] + i]
    <3>1. rcv_queue' = q /\ q \in Seq(Segment)' /\ rcv_nxt' = nxt
      BY <1>3, <1>7, <2>2, <2>7
    <3>2. at[Len(received')] = from + k
      BY <2>5, <2>8
    <3>3. \A i \in 1..Len(q) : q[i] = stream[(from + k) + i]
      BY <2>7, <2>9
    <3> QED
      BY <2>10, <3>1, <3>2, <3>3
  <2>13. /\ rcv_nxt' \in 0..snd_nxt' /\ DOMAIN rcv_buf' \subseteq 0..(snd_nxt' - 1)
         /\ \A sn \in DOMAIN rcv_buf' : rcv_buf'[sn] = stream[sn + 1]
    BY <1>3, <1>6, <2>1
  <2>14. Len(received') =< Len(sent')
    BY <1>6, <2>5, <2>11
  <2> QED
    BY <2>5, <2>6, <2>12, <2>13, <2>14 DEF ReceiverInv
<1> QED
  BY <1>7, <1>8, <1>9, <1>10, <1>11 DEF PackInv

-----------------------------------------------------------------------------
(* The theorems.                                                           *)

(* Nothing on the path claims to be a segment without a number.            *)
LEMMA QuietPath ==
  ASSUME PackAssumption, PackInv, NEW path, path = net \/ (net # << >> /\ path = Tail(net))
  PROVE  EndsWith(FlattenSeq(path), snd_nxt, snd_nxt)
<1>1. PICK at, stream : /\ StreamInv(at, stream) /\ SenderInv(stream)
                        /\ net \in Seq(Datagram(stream, snd_nxt))
  BY DEF PackInv
<1>2. SizeInv
  BY DEF PackInv
<1>3. /\ stream \in Seq(Segment) /\ snd_nxt \in 0..Len(stream) /\ snd_nxt =< Word
      /\ snd_nxt \in Nat
  <2>1. Len(stream) \in Nat /\ Len(stream) =< Word /\ stream \in Seq(Segment)
    BY <1>1, StreamBound DEF StreamInv
  <2>2. snd_nxt \in Nat /\ Len(snd_queue) \in Nat /\ snd_nxt + Len(snd_queue) = Len(stream)
    BY <1>1 DEF SenderInv
  <2>3. snd_nxt =< Len(stream)
    BY <2>2
  <2> QED
    BY <2>1, <2>2, <2>3, PackConstants
<1> DEFINE K == Known(stream, snd_nxt)
<1>4. path \in Seq(Seq(K))
  <2>1. Datagram(stream, snd_nxt) \subseteq Seq(K)
    BY DEF Datagram
  <2>2. path \in Seq(Datagram(stream, snd_nxt))
    BY <1>1
  <2> HIDE DEF K
  <2> QED
    BY <2>1, <2>2
<1>5. \A w \in K : w.push => ikcp_decode32u(w.sn) < snd_nxt
  <2> SUFFICES ASSUME NEW w \in K, w.push PROVE ikcp_decode32u(w.sn) < snd_nxt
    OBVIOUS
  <2>1. ikcp_decode32u(w.sn) \in 0..(snd_nxt - 1)
    BY <1>2, <1>3, KnownFits
  <2> QED
    BY <1>3, <2>1
<1> HIDE DEF K
<1>6. PICK s \in Seq(K) : s = FlattenSeq(path)
  BY <1>4, Flattened
<1>7. \A i \in 1..Len(s) : s[i].push => ikcp_decode32u(s[i].sn) < snd_nxt
  BY <1>5
<1>8. EndsWith(s, snd_nxt, snd_nxt)
  <2>1. PICK n \in Nat : n = Len(s) /\ DOMAIN s = 1..n
    OBVIOUS
  <2>2. Len(s) - (snd_nxt - snd_nxt) = n
    BY <1>3, <2>1
  <2>3. \A i \in 1..n : ~(i > n)
    OBVIOUS
  <2> QED
    BY <1>7, <2>1, <2>2, <2>3 DEF EndsWith
<1> QED
  BY <1>6, <1>8

(* Every step keeps the invariant and sends what gets a number.            *)
LEMMA PackNext ==
  ASSUME PackAssumption, PackInv, Next
  PROVE  PackInv' /\ SentOnce
<1>1. ASSUME EndsWith(FlattenSeq(net'), snd_nxt, snd_nxt') PROVE SentOnce
  BY <1>1 DEF EndsWith, SentOnce
<1>2. ASSUME net' = net \/ (net # << >> /\ net' = Tail(net)), snd_nxt' = snd_nxt PROVE SentOnce
  <2>1. PICK path : path = net'
    OBVIOUS
  <2>2. EndsWith(FlattenSeq(path), snd_nxt, snd_nxt)
    BY <1>2, <2>1, QuietPath
  <2> QED
    BY <1>1, <1>2, <2>1, <2>2
<1>3. CASE ikcp_setmtu
  BY <1>2, <1>3, SetmtuKeeps DEF ikcp_setmtu
<1>4. CASE ikcp_send
  BY <1>2, <1>4, SendKeeps DEF ikcp_send
<1>5. CASE ikcp_flush
  BY <1>1, <1>5, FlushKeeps
<1>6. CASE ikcp_input
  <2>1. net # << >>
    BY <1>6 DEF ikcp_input
  <2> QED
    BY <1>2, <1>6, <2>1, InputKeeps
<1>7. CASE Ack
  BY <1>2, <1>7, AckKeeps DEF Ack
<1>8. CASE ikcp_recv
  BY <1>2, <1>8, RecvKeeps DEF ikcp_recv, sndVars
<1> QED
  BY <1>3, <1>4, <1>5, <1>6, <1>7, <1>8 DEF Next

(* The invariant depends on the variables only.                            *)
LEMMA PackStutter ==
  ASSUME PackInv, UNCHANGED vars
  PROVE  PackInv'
<1>1. /\ UNCHANGED <<mtu, mss, sent>> /\ UNCHANGED <<snd_queue, snd_buf, snd_nxt, net>>
      /\ UNCHANGED <<rcv_nxt, rcv_queue, rcv_buf, received>>
  BY DEF vars, sndVars, rcvVars
<1>2. PICK at, stream : /\ StreamInv(at, stream) /\ SenderInv(stream)
                        /\ net \in Seq(Datagram(stream, snd_nxt)) /\ ReceiverInv(at, stream)
  BY DEF PackInv
<1>3. /\ SizeInv' /\ Segment' = Segment
      /\ \A x, y : Datagram(x, y)' = Datagram(x, y)
  <2>1. SizeInv
    BY DEF PackInv
  <2> QED
    BY <1>1, <2>1, SameSizes
<1>4. StreamInv(at, stream)'
  BY <1>1, <1>2, SameStream
<1>5. SenderInv(stream)'
  BY <1>1, <1>2, <1>3 DEF SenderInv
<1>6. ReceiverInv(at, stream)'
  BY <1>1, <1>2, <1>3 DEF ReceiverInv
<1>7. net' \in Seq(Datagram(stream, snd_nxt))'
  BY <1>1, <1>2, <1>3
<1> QED
  BY <1>3, <1>4, <1>5, <1>6, <1>7 DEF PackInv

(* Every queue, buffer and datagram holds segments of one stream, each in  *)
(* its place.                                                              *)
THEOREM PackInvHolds ==
  ASSUME PackAssumption
  PROVE  Spec => []PackInv
<1>1. Init => PackInv
  BY PackInit
<1>2. PackInv /\ [Next]_vars => PackInv'
  BY PackNext, PackStutter
<1> QED
  BY <1>1, <1>2, PTL DEF Spec

(* ikcp_output never gets more than mtu bytes and never an empty datagram. *)
THEOREM FitsHolds ==
  ASSUME PackAssumption
  PROVE  Spec => []Fits
<1>1. PackInv => Fits
  <2> SUFFICES ASSUME PackInv, NEW d \in ToSet(net) PROVE 0 < Size(d) /\ Size(d) =< mtu
    BY DEF Fits
  <2>1. PICK stream : net \in Seq(Datagram(stream, snd_nxt))
    BY DEF PackInv
  <2>2. PICK D : D = Datagram(stream, snd_nxt) /\ net \in Seq(D)
    BY <2>1
  <2>3. d \in D
    BY <2>2 DEF ToSet
  <2> QED
    BY <2>2, <2>3 DEF Datagram
<1> QED
  BY <1>1, PackInvHolds, PTL

(* ikcp_recv returns the messages that were sent, whole and in order.      *)
THEOREM FaithfulHolds ==
  ASSUME PackAssumption
  PROVE  Spec => []Faithful
<1>1. PackInv => Faithful
  <2> SUFFICES ASSUME PackInv PROVE Faithful
    OBVIOUS
  <2>1. PICK at, stream : StreamInv(at, stream) /\ ReceiverInv(at, stream)
    BY DEF PackInv
  <2>2. PICK n \in Nat, c \in Nat :
          /\ n = Len(sent) /\ c = Len(received) /\ c =< n
          /\ \A m \in 1..c : received[m] = sent[m]
    <3>1. sent \in Seq(Msg) /\ received \in Seq(Msg) /\ Len(received) =< Len(sent)
      BY <2>1 DEF StreamInv, ReceiverInv
    <3>2. Len(sent) \in Nat /\ Len(received) \in 0..Len(sent)
      BY <3>1
    <3> QED
      BY <2>1, <3>2 DEF ReceiverInv
  <2>3. sent \in Seq(Msg) /\ received \in Seq(Msg)
    BY <2>1 DEF StreamInv, ReceiverInv
  <2>4. SubSeq(received, 1, c) = SubSeq(sent, 1, c)
    <3>1. /\ SubSeq(received, 1, c) = [m \in 1..c |-> received[m]]
          /\ SubSeq(sent, 1, c) = [m \in 1..c |-> sent[m]]
      BY <2>2, <2>3
    <3> QED
      BY <2>2, <3>1
  <2> QED
    BY <2>2, <2>4 DEF Faithful, IsPrefix
<1> QED
  BY <1>1, PackInvHolds, PTL

(* Every segment that gets a number leaves with the flush that gives it.   *)
THEOREM AllSentHolds ==
  ASSUME PackAssumption
  PROVE  Spec => AllSent
<1>1. PackInv /\ [Next]_vars => [SentOnce]_vars
  BY PackNext
<1> QED
  BY <1>1, PackInvHolds, PTL DEF Spec, AllSent

-----------------------------------------------------------------------------
(* The array of acknowledgements.                                          *)

(* The first n + 1 sizes, as a finite table.                               *)
Tables(n) ==
  {g \in [0..n -> Nat] : g[0] = FirstBlock /\ \A k \in 1..n : g[k] = 2 * g[k - 1]}

(* There is such a table for every n, and only one.                        *)
LEMMA TableExists ==
  ASSUME FirstBlock \in Nat, NEW n \in Nat
  PROVE  \E g : g \in Tables(n)
<1> DEFINE S == {i \in Nat : \E g : g \in Tables(i)}
<1>1. 0 \in S
  <2>1. [i \in 0..0 |-> FirstBlock] \in Tables(0)
    BY DEF Tables
  <2> QED
    BY <2>1
<1>2. ASSUME NEW i \in S PROVE i + 1 \in S
  <2>1. PICK g : g \in Tables(i)
    OBVIOUS
  <2> DEFINE h == [k \in 0..(i + 1) |-> IF k =< i THEN g[k] ELSE 2 * g[i]]
  <2>2. g \in [0..i -> Nat] /\ g[0] = FirstBlock /\ \A k \in 1..i : g[k] = 2 * g[k - 1]
    BY <2>1 DEF Tables
  <2>3. h \in [0..(i + 1) -> Nat]
    BY <2>2
  <2>4. h[0] = FirstBlock
    BY <2>2
  <2>5. ASSUME NEW k \in 1..(i + 1) PROVE h[k] = 2 * h[k - 1]
    <3>1. CASE k =< i
      <4>1. k \in 1..i /\ k - 1 \in 0..(i + 1) /\ k - 1 =< i
        BY <3>1
      <4> QED
        BY <2>2, <3>1, <4>1
    <3>2. CASE k = i + 1
      BY <3>2
    <3> QED
      BY <3>1, <3>2
  <2>6. h \in Tables(i + 1)
    BY <2>3, <2>4, <2>5 DEF Tables
  <2> QED
    BY <2>6
<1> HIDE DEF S
<1>3. Nat \subseteq S
  BY <1>1, <1>2, SetInduction
<1> QED
  BY <1>3 DEF S

(* Tables agree as far as both go.                                         *)
LEMMA TablesAgree ==
  ASSUME FirstBlock \in Nat, NEW m \in Nat, NEW n \in Nat,
         NEW g \in Tables(m), NEW h \in Tables(n),
         NEW k \in Nat, k =< m, k =< n
  PROVE  g[k] = h[k]
<1> DEFINE S == {i \in Nat : i =< m /\ i =< n => g[i] = h[i]}
<1>1. 0 \in S
  BY DEF Tables
<1>2. ASSUME NEW i \in S PROVE i + 1 \in S
  <2> SUFFICES ASSUME i + 1 =< m, i + 1 =< n PROVE g[i + 1] = h[i + 1]
    OBVIOUS
  <2>1. g[i] = h[i]
    OBVIOUS
  <2>2. i + 1 \in 1..m /\ i + 1 \in 1..n /\ (i + 1) - 1 = i
    OBVIOUS
  <2> QED
    BY <2>1, <2>2 DEF Tables
<1> HIDE DEF S
<1>3. Nat \subseteq S
  BY <1>1, <1>2, SetInduction
<1> QED
  BY <1>3 DEF S

(* Block is what its definition says: each size doubles the one before.    *)
LEMMA BlockDoubles ==
  ASSUME FirstBlock \in Nat
  PROVE  Acks!Block = [k \in Nat |-> IF k = 0 THEN FirstBlock ELSE 2 * Acks!Block[k - 1]]
<1> DEFINE T(n) == CHOOSE g : g \in Tables(n)
           f == [k \in Nat |-> T(k)[k]]
<1>1. \A n \in Nat : T(n) \in Tables(n)
  BY TableExists
<1> HIDE DEF T
<1>2. ASSUME NEW k \in Nat PROVE f[k] = IF k = 0 THEN FirstBlock ELSE 2 * f[k - 1]
  <2>1. CASE k = 0
    BY <1>1, <2>1 DEF Tables
  <2>2. CASE k # 0
    <3>1. k - 1 \in Nat /\ k \in 1..k /\ k - 1 =< k
      BY <2>2
    <3>2. T(k)[k] = 2 * T(k)[k - 1]
      BY <1>1, <3>1 DEF Tables
    <3>3. T(k)[k - 1] = T(k - 1)[k - 1]
      BY <1>1, <3>1, TablesAgree
    <3> QED
      BY <2>2, <3>1, <3>2, <3>3
  <2> QED
    BY <2>1, <2>2
<1> HIDE DEF f
<1>3. f = [k \in Nat |-> IF k = 0 THEN FirstBlock ELSE 2 * f[k - 1]]
  <2>1. f = [k \in Nat |-> f[k]]
    BY DEF f
  <2> QED
    BY <1>2, <2>1
<1> QED
  BY <1>3 DEF Acks!Block

(* So sizes are positive numbers that pass every bound.                    *)
LEMMA BlockGrows ==
  ASSUME FirstBlock \in Nat \ {0}, NEW k \in Nat
  PROVE  Acks!Block[k] \in Nat /\ Acks!Block[k] > k
<1> DEFINE S == {i \in Nat : Acks!Block[i] \in Nat /\ Acks!Block[i] > i}
<1>1. Acks!Block[0] = FirstBlock /\ \A i \in Nat : Acks!Block[i + 1] = 2 * Acks!Block[i]
  <2>1. Acks!Block[0] = FirstBlock
    BY BlockDoubles
  <2>2. \A i \in Nat : i + 1 \in Nat /\ i + 1 # 0 /\ (i + 1) - 1 = i
    OBVIOUS
  <2> QED
    BY <2>1, <2>2, BlockDoubles
<1>2. 0 \in S
  BY <1>1
<1>3. ASSUME NEW i \in S PROVE i + 1 \in S
  BY <1>1
<1> HIDE DEF S
<1>4. Nat \subseteq S
  BY <1>2, <1>3, SetInduction
<1> QED
  BY <1>4 DEF S

(* The loop of ikcp_ack_push ends, with room for what is asked.            *)
LEMMA DoubledEnough ==
  ASSUME FirstBlock \in Nat \ {0}, NEW newsize \in Nat
  PROVE  Acks!Doubled(newsize) \in Nat /\ Acks!Doubled(newsize) >= newsize
<1> DEFINE S == {k \in Nat : Acks!Block[k] >= newsize}
           Ends(k) == Acks!Block[k] >= newsize /\ \A j \in 0..(k - 1) : Acks!Block[j] < newsize
<1>1. newsize \in S
  BY BlockGrows
<1>2. PICK k \in S : \A j \in S : k =< j
  <2>1. S \subseteq Nat /\ S # {}
    BY <1>1
  <2> HIDE DEF S
  <2> QED
    BY <2>1, LeastNat
<1>3. k \in 0..newsize
  BY <1>1, <1>2
<1>4. Ends(k)
  <2>1. ASSUME NEW j \in 0..(k - 1) PROVE Acks!Block[j] < newsize
    <3>1. j \in Nat /\ ~(k =< j)
      BY <1>2
    <3>2. Acks!Block[j] \in Nat /\ j \notin S
      BY <1>2, <3>1, BlockGrows
    <3> QED
      BY <3>1, <3>2
  <2> QED
    BY <1>2, <2>1
<1>5. PICK l \in 0..newsize : Ends(l) /\ Acks!Doubled(newsize) = Acks!Block[l]
  <2> HIDE DEF Ends
  <2>1. (CHOOSE i \in 0..newsize : Ends(i)) \in 0..newsize /\ Ends(CHOOSE i \in 0..newsize : Ends(i))
    BY <1>3, <1>4
  <2>2. Acks!Doubled(newsize) = Acks!Block[CHOOSE i \in 0..newsize : Ends(i)]
    BY DEF Acks!Doubled, Ends
  <2> QED
    BY <2>1, <2>2
<1> QED
  BY <1>5, BlockGrows

-----------------------------------------------------------------------------
(* The invariant: between two flushes the array holds, entry by entry,     *)
(* what was heard.                                                         *)
AckInv ==
  /\ ackblock \in Nat /\ ackcount \in Nat /\ ackcount =< ackblock
  /\ acklist \in [0..(2 * ackblock - 1) -> Sns \cup Tss \cup {Junk}]
  /\ heard \in Seq(Sns \X Tss) /\ Len(heard) = ackcount
  /\ \A i \in 1..ackcount : heard[i] = Acks!ikcp_ack_get(i - 1)
  /\ answered = asked

(* Before the first acknowledgement there is no array.                     *)
LEMMA AckInit ==
  ASSUME Acks!AckAssumption, Acks!Init
  PROVE  AckInv
<1>1. 0..(2 * ackblock - 1) = {}
  BY DEF Acks!Init
<1>2. acklist \in [0..(2 * ackblock - 1) -> Sns \cup Tss \cup {Junk}]
  BY <1>1 DEF Acks!Init
<1>3. heard \in Seq(Sns \X Tss) /\ Len(heard) = 0
  BY EmptySeq DEF Acks!Init
<1> QED
  BY <1>2, <1>3 DEF AckInv, Acks!Init

(* The array after ikcp_ack_push has made room for one entry more.         *)
LEMMA RoomMade ==
  ASSUME Acks!AckAssumption, AckInv,
         NEW block, block = IF ackcount + 1 > ackblock THEN Acks!Doubled(ackcount + 1) ELSE ackblock,
         NEW list, list = IF ackcount + 1 > ackblock THEN Acks!Grown(block) ELSE acklist
  PROVE  /\ block \in Nat /\ ackcount + 1 =< block
         /\ list \in [0..(2 * block - 1) -> Sns \cup Tss \cup {Junk}]
         /\ \A x \in 0..(2 * ackcount - 1) : list[x] = acklist[x]
<1>1. CASE ackcount + 1 > ackblock
  <2>1. block \in Nat /\ ackcount + 1 =< block
    BY <1>1, DoubledEnough DEF AckInv, Acks!AckAssumption
  <2>2. list = [x \in 0..(2 * block - 1) |-> IF x < 2 * ackcount THEN acklist[x] ELSE Junk]
    BY <1>1 DEF Acks!Grown
  <2>3. \A x \in 0..(2 * ackcount - 1) : /\ x \in 0..(2 * ackblock - 1) /\ x \in 0..(2 * block - 1)
                                         /\ x < 2 * ackcount
    BY <2>1 DEF AckInv
  <2>4. ASSUME NEW x \in 0..(2 * block - 1) PROVE list[x] \in Sns \cup Tss \cup {Junk}
    <3>1. CASE x < 2 * ackcount
      <4>1. x \in 0..(2 * ackblock - 1)
        BY <2>1, <3>1 DEF AckInv
      <4> QED
        BY <2>2, <3>1, <4>1 DEF AckInv
    <3>2. CASE ~(x < 2 * ackcount)
      BY <2>2, <3>2
    <3> QED
      BY <3>1, <3>2
  <2> QED
    BY <2>1, <2>2, <2>3, <2>4
<1>2. CASE ~(ackcount + 1 > ackblock)
  BY <1>2 DEF AckInv
<1> QED
  BY <1>1, <1>2

(* ikcp_ack_push and ikcp_flush keep the invariant.                        *)
LEMMA AckNext ==
  ASSUME Acks!AckAssumption, AckInv, [Acks!Next]_Acks!vars
  PROVE  AckInv'
<1>1. CASE Acks!ikcp_input
  <2>1. PICK sn \in Sns, ts \in Tss : Acks!ikcp_ack_push(sn, ts) /\ heard' = Append(heard, <<sn, ts>>)
    BY <1>1 DEF Acks!ikcp_input
  <2> DEFINE block == IF ackcount + 1 > ackblock THEN Acks!Doubled(ackcount + 1) ELSE ackblock
             list == IF ackcount + 1 > ackblock THEN Acks!Grown(block) ELSE acklist
  <2>2. /\ acklist' = [list EXCEPT ![2 * ackcount] = sn, ![2 * ackcount + 1] = ts]
        /\ ackblock' = block /\ ackcount' = ackcount + 1
    BY <2>1 DEF Acks!ikcp_ack_push
  <2>3. /\ block \in Nat /\ ackcount + 1 =< block
        /\ list \in [0..(2 * block - 1) -> Sns \cup Tss \cup {Junk}]
        /\ \A x \in 0..(2 * ackcount - 1) : list[x] = acklist[x]
    BY RoomMade
  <2> HIDE DEF block, list
  <2>4. /\ ackcount \in Nat /\ 2 * ackcount \in 0..(2 * block - 1)
        /\ 2 * ackcount + 1 \in 0..(2 * block - 1)
    BY <2>3 DEF AckInv
  <2>5. /\ acklist' \in [0..(2 * block - 1) -> Sns \cup Tss \cup {Junk}]
        /\ acklist'[2 * ackcount] = sn /\ acklist'[2 * ackcount + 1] = ts
        /\ \A x \in 0..(2 * ackcount - 1) : acklist'[x] = list[x]
    BY <2>2, <2>3, <2>4
  <2>6. /\ heard' \in Seq(Sns \X Tss) /\ Len(heard') = ackcount + 1
        /\ \A i \in 1..ackcount : heard'[i] = heard[i]
        /\ heard'[ackcount + 1] = <<sn, ts>>
    BY <2>1, AppendProperties DEF AckInv
  <2>7. ASSUME NEW i \in 1..(ackcount + 1)
        PROVE  heard'[i] = <<acklist'[2 * (i - 1)], acklist'[2 * (i - 1) + 1]>>
    <3>1. CASE i = ackcount + 1
      BY <2>4, <2>5, <2>6, <3>1
    <3>2. CASE i # ackcount + 1
      <4>1. /\ i \in 1..ackcount /\ 2 * (i - 1) \in 0..(2 * ackcount - 1)
            /\ 2 * (i - 1) + 1 \in 0..(2 * ackcount - 1)
        BY <2>4, <3>2
      <4>2. heard[i] = <<acklist[2 * (i - 1)], acklist[2 * (i - 1) + 1]>>
        BY <4>1 DEF AckInv, Acks!ikcp_ack_get
      <4> QED
        BY <2>3, <2>5, <2>6, <4>1, <4>2
    <3> QED
      BY <3>1, <3>2
  <2>8. answered' = asked'
    BY <1>1 DEF Acks!ikcp_input, AckInv
  <2>9. \A i \in 1..ackcount' : heard'[i] = Acks!ikcp_ack_get(i - 1)'
    BY <2>2, <2>7 DEF Acks!ikcp_ack_get
  <2>10. /\ ackblock' \in Nat /\ ackcount' \in Nat /\ ackcount' =< ackblock'
         /\ acklist' \in [0..(2 * ackblock' - 1) -> Sns \cup Tss \cup {Junk}]
         /\ heard' \in Seq(Sns \X Tss) /\ Len(heard') = ackcount'
    <3>1. ackblock' = block /\ ackcount' = ackcount + 1
      BY <2>2
    <3>2. ackblock' \in Nat /\ ackcount' \in Nat /\ ackcount' =< ackblock'
      BY <2>3, <2>4, <3>1
    <3>3. acklist' \in [0..(2 * ackblock' - 1) -> Sns \cup Tss \cup {Junk}]
      BY <2>5, <3>1
    <3> QED
      BY <2>6, <3>1, <3>2, <3>3
  <2> QED
    BY <2>8, <2>9, <2>10 DEF AckInv
<1>2. CASE Acks!ikcp_flush
  <2>1. heard = [i \in 1..ackcount |-> heard[i]]
    BY DEF AckInv
  <2>2. answered' = heard
    BY <1>2, <2>1 DEF Acks!ikcp_flush, AckInv
  <2>3. heard' \in Seq(Sns \X Tss) /\ Len(heard') = 0 /\ ackcount' = 0
    BY <1>2, EmptySeq DEF Acks!ikcp_flush
  <2> QED
    BY <1>2, <2>2, <2>3 DEF AckInv, Acks!ikcp_flush
<1>3. CASE UNCHANGED Acks!vars
  BY <1>3 DEF AckInv, Acks!vars, Acks!ikcp_ack_get
<1> QED
  BY <1>1, <1>2, <1>3 DEF Acks!Next

(* ikcp_flush acknowledges exactly the segments heard since the last one,  *)
(* in order and with their ticks, however often ikcp_ack_push has grown    *)
(* the array, and no entry lies outside it.                                *)
THEOREM AcknowledgesHolds ==
  ASSUME Acks!AckAssumption
  PROVE  Acks!Spec => []Acknowledges
<1>1. Acks!Init => AckInv
  BY AckInit
<1>2. AckInv /\ [Acks!Next]_Acks!vars => AckInv'
  BY AckNext
<1>3. AckInv => Acknowledges
  BY DEF AckInv, Acknowledges, Acks!Acknowledges
<1> QED
  BY <1>1, <1>2, <1>3, PTL DEF Acks!Spec

-----------------------------------------------------------------------------
(* The linked queues.                                                      *)

(* A queue is a ring through its head q and the nodes of a sequence c.     *)

(* The node at place i of the ring, where q is at 0 and after the last.    *)
At(q, c, i) == IF i \in 1..Len(c) THEN c[i] ELSE q

Ring(nx, pv, q, c) ==
  \A i \in 0..Len(c) : nx[At(q, c, i)] = At(q, c, i + 1) /\ pv[At(q, c, i + 1)] = At(q, c, i)

Distinct(c) == \A i, j \in 1..Len(c) : c[i] = c[j] => i = j

(* Sequence c with x put after place k, and without place k.               *)
Spliced(c, k, x) ==
  [i \in 1..(Len(c) + 1) |-> IF i =< k THEN c[i] ELSE IF i = k + 1 THEN x ELSE c[i - 1]]

Cutout(c, k) == [i \in 1..(Len(c) - 1) |-> IF i < k THEN c[i] ELSE c[i + 1]]

(* A segment more.                                                         *)
LEMMA SplicedProperties ==
  ASSUME NEW S, NEW c \in Seq(S), NEW k \in 0..Len(c), NEW x \in S
  PROVE  /\ Spliced(c, k, x) \in Seq(S) /\ Len(Spliced(c, k, x)) = Len(c) + 1
         /\ \A i \in 1..(Len(c) + 1) :
              Spliced(c, k, x)[i] = IF i =< k THEN c[i] ELSE IF i = k + 1 THEN x ELSE c[i - 1]
<1>1. Len(c) \in Nat /\ \A i \in 1..Len(c) : c[i] \in S
  OBVIOUS
<1>2. ASSUME NEW i \in 1..(Len(c) + 1)
      PROVE  (IF i =< k THEN c[i] ELSE IF i = k + 1 THEN x ELSE c[i - 1]) \in S
  BY <1>1
<1>3. Spliced(c, k, x) \in [1..(Len(c) + 1) -> S]
  BY <1>2 DEF Spliced
<1>4. Spliced(c, k, x) \in Seq(S) /\ Len(Spliced(c, k, x)) = Len(c) + 1
  BY <1>1, <1>3
<1> QED
  BY <1>4 DEF Spliced

(* A segment less.                                                         *)
LEMMA CutoutProperties ==
  ASSUME NEW S, NEW c \in Seq(S), NEW k \in 1..Len(c)
  PROVE  /\ Cutout(c, k) \in Seq(S) /\ Len(Cutout(c, k)) = Len(c) - 1
         /\ \A i \in 1..(Len(c) - 1) : Cutout(c, k)[i] = IF i < k THEN c[i] ELSE c[i + 1]
<1>1. Len(c) \in Nat /\ Len(c) - 1 \in Nat /\ \A i \in 1..Len(c) : c[i] \in S
  OBVIOUS
<1>2. ASSUME NEW i \in 1..(Len(c) - 1) PROVE (IF i < k THEN c[i] ELSE c[i + 1]) \in S
  BY <1>1
<1>3. Cutout(c, k) \in [1..(Len(c) - 1) -> S]
  BY <1>2 DEF Cutout
<1>4. Cutout(c, k) \in Seq(S) /\ Len(Cutout(c, k)) = Len(c) - 1
  BY <1>1, <1>3
<1> QED
  BY <1>4 DEF Cutout

(* The places of a ring are different nodes, up to its end.                *)
LEMMA RingPlaces ==
  ASSUME NEW S, NEW q, q \notin S, NEW c \in Seq(S), Distinct(c)
  PROVE  /\ \A i, j \in 0..Len(c) : At(q, c, i) = At(q, c, j) => i = j
         /\ \A i, j \in 1..(Len(c) + 1) : At(q, c, i) = At(q, c, j) => i = j
         /\ \A i \in 1..Len(c) : At(q, c, i) = c[i] /\ c[i] \in S
         /\ At(q, c, 0) = q /\ At(q, c, Len(c) + 1) = q
<1>1. Len(c) \in Nat /\ \A i \in 1..Len(c) : c[i] \in S
  OBVIOUS
<1>2. \A i \in 1..Len(c) : At(q, c, i) = c[i]
  BY DEF At
<1>3. At(q, c, 0) = q /\ At(q, c, Len(c) + 1) = q
  BY <1>1 DEF At
<1>4. ASSUME NEW i \in 0..Len(c), NEW j \in 0..Len(c), At(q, c, i) = At(q, c, j) PROVE i = j
  BY <1>1, <1>2, <1>3, <1>4 DEF Distinct
<1>5. ASSUME NEW i \in 1..(Len(c) + 1), NEW j \in 1..(Len(c) + 1), At(q, c, i) = At(q, c, j)
      PROVE  i = j
  BY <1>1, <1>2, <1>3, <1>5 DEF Distinct
<1> QED
  BY <1>1, <1>2, <1>3, <1>4, <1>5

(* A node put between place k and the next one.                            *)
LEMMA RingInsert ==
  ASSUME NEW D, NEW S, S \subseteq D, NEW q \in D, q \notin S,
         NEW nx, DOMAIN nx = D, NEW pv, DOMAIN pv = D,
         NEW c \in Seq(S), Distinct(c), Ring(nx, pv, q, c),
         NEW k \in 0..Len(c), NEW x \in S, \A i \in 1..Len(c) : c[i] # x,
         NEW p, p = At(q, c, k), NEW n, n = nx[p]
  PROVE  Ring([[nx EXCEPT ![x] = n] EXCEPT ![p] = x], [[pv EXCEPT ![x] = p] EXCEPT ![n] = x],
              q, Spliced(c, k, x))
<1> DEFINE d == Spliced(c, k, x)
           nx2 == [[nx EXCEPT ![x] = n] EXCEPT ![p] = x]
           pv2 == [[pv EXCEPT ![x] = p] EXCEPT ![n] = x]
<1>1. Len(c) \in Nat /\ k \in Nat /\ k =< Len(c)
  OBVIOUS
<1>2. n = At(q, c, k + 1)
  BY DEF Ring
<1>3. /\ \A i, j \in 0..Len(c) : At(q, c, i) = At(q, c, j) => i = j
      /\ \A i, j \in 1..(Len(c) + 1) : At(q, c, i) = At(q, c, j) => i = j
      /\ \A i \in 1..Len(c) : At(q, c, i) = c[i] /\ c[i] \in S
      /\ At(q, c, 0) = q /\ At(q, c, Len(c) + 1) = q
  BY RingPlaces
<1>4. \A i \in 0..(Len(c) + 1) : At(q, c, i) \in D /\ At(q, c, i) # x
  BY <1>1, <1>3
<1>5. Len(d) = Len(c) + 1
  BY SplicedProperties
<1>6. /\ \A i \in 0..k : At(q, d, i) = At(q, c, i)
      /\ At(q, d, k + 1) = x
      /\ \A i \in (k + 2)..(Len(c) + 2) : At(q, d, i) = At(q, c, i - 1)
  <2>1. \A i \in 1..(Len(c) + 1) :
          At(q, d, i) = IF i =< k THEN c[i] ELSE IF i = k + 1 THEN x ELSE c[i - 1]
    <3>1. \A i \in 1..(Len(c) + 1) :
            d[i] = IF i =< k THEN c[i] ELSE IF i = k + 1 THEN x ELSE c[i - 1]
      BY SplicedProperties
    <3> HIDE DEF d
    <3>2. \A i \in 1..(Len(c) + 1) : At(q, d, i) = d[i]
      BY <1>5 DEF At
    <3> QED
      BY <3>1, <3>2
  <2>2. At(q, d, 0) = q /\ At(q, d, Len(c) + 2) = q
    BY <1>1, <1>5 DEF At
  <2> HIDE DEF d
  <2>3. ASSUME NEW i \in 0..k PROVE At(q, d, i) = At(q, c, i)
    BY <1>1, <1>3, <2>1, <2>2
  <2>4. At(q, d, k + 1) = x
    BY <1>1, <2>1
  <2>5. ASSUME NEW i \in (k + 2)..(Len(c) + 2) PROVE At(q, d, i) = At(q, c, i - 1)
    <3>1. CASE i = Len(c) + 2
      <4>1. i - 1 = Len(c) + 1
        BY <1>1, <3>1
      <4> QED
        BY <1>3, <2>2, <3>1, <4>1
    <3>2. CASE i # Len(c) + 2
      <4>1. i \in 1..(Len(c) + 1) /\ ~(i =< k) /\ i # k + 1 /\ i - 1 \in 1..Len(c)
        BY <1>1, <3>2
      <4> QED
        BY <1>3, <2>1, <4>1
    <3> QED
      BY <3>1, <3>2
  <2> QED
    BY <2>3, <2>4, <2>5
<1>7. /\ nx2[p] = x /\ nx2[x] = n /\ \A y \in D : y # p /\ y # x => nx2[y] = nx[y]
      /\ pv2[n] = x /\ pv2[x] = p /\ \A y \in D : y # n /\ y # x => pv2[y] = pv[y]
  <2>1. p \in D /\ n \in D /\ p # x /\ n # x /\ x \in D
    BY <1>1, <1>2, <1>4
  <2> QED
    BY <2>1
<1> HIDE DEF d, nx2, pv2
<1>8. ASSUME NEW i \in 0..Len(d)
      PROVE  nx2[At(q, d, i)] = At(q, d, i + 1) /\ pv2[At(q, d, i + 1)] = At(q, d, i)
  <2>1. CASE i < k
    <3>1. i \in 0..Len(c) /\ i + 1 \in 0..k /\ i + 1 \in 1..(Len(c) + 1) /\ i \in 0..k
      BY <1>1, <2>1
    <3>2. At(q, c, i) # p /\ At(q, c, i + 1) # n
      BY <1>1, <1>2, <1>3, <2>1, <3>1
    <3>3. nx[At(q, c, i)] = At(q, c, i + 1) /\ pv[At(q, c, i + 1)] = At(q, c, i)
      BY <3>1 DEF Ring
    <3> QED
      BY <1>1, <1>4, <1>6, <1>7, <3>1, <3>2, <3>3
  <2>2. CASE i = k
    BY <1>1, <1>6, <1>7, <2>2
  <2>3. CASE i = k + 1
    <3>1. i + 1 \in (k + 2)..(Len(c) + 2) /\ (i + 1) - 1 = k + 1
      BY <1>1, <2>3
    <3>2. At(q, d, i + 1) = n
      BY <1>2, <1>6, <3>1
    <3> QED
      BY <1>1, <1>6, <1>7, <2>3, <3>2
  <2>4. CASE i > k + 1
    <3>1. /\ i \in (k + 2)..(Len(c) + 2) /\ i + 1 \in (k + 2)..(Len(c) + 2) /\ (i + 1) - 1 = i
          /\ i - 1 \in 0..Len(c) /\ (i - 1) + 1 = i /\ i \in 1..(Len(c) + 1)
      BY <1>1, <1>5, <2>4
    <3>2. At(q, c, i - 1) # p /\ At(q, c, i) # n
      BY <1>1, <1>2, <1>3, <2>4, <3>1
    <3>3. nx[At(q, c, i - 1)] = At(q, c, i) /\ pv[At(q, c, i)] = At(q, c, i - 1)
      BY <3>1 DEF Ring
    <3>4. At(q, d, i) = At(q, c, i - 1) /\ At(q, d, i + 1) = At(q, c, i)
      BY <1>6, <3>1
    <3> QED
      BY <1>4, <1>7, <3>1, <3>2, <3>3, <3>4
  <2> QED
    BY <1>1, <1>5, <2>1, <2>2, <2>3, <2>4
<1> QED
  BY <1>8 DEF Ring, d, nx2, pv2

(* The node at place k taken out.                                          *)
LEMMA RingRemove ==
  ASSUME NEW D, NEW S, S \subseteq D, NEW q \in D, q \notin S,
         NEW nx, DOMAIN nx = D, NEW pv, DOMAIN pv = D, NEW null,
         NEW c \in Seq(S), Distinct(c), Ring(nx, pv, q, c),
         NEW k \in 1..Len(c), NEW x, x = c[k],
         NEW p, p = pv[x], NEW n, n = nx[x]
  PROVE  Ring([[nx EXCEPT ![p] = n] EXCEPT ![x] = null], [[pv EXCEPT ![n] = p] EXCEPT ![x] = null],
              q, Cutout(c, k))
<1> DEFINE d == Cutout(c, k)
           nx2 == [[nx EXCEPT ![p] = n] EXCEPT ![x] = null]
           pv2 == [[pv EXCEPT ![n] = p] EXCEPT ![x] = null]
<1>1. Len(c) \in Nat /\ k \in Nat /\ k =< Len(c) /\ k > 0
  OBVIOUS
<1>2. /\ \A i, j \in 0..Len(c) : At(q, c, i) = At(q, c, j) => i = j
      /\ \A i, j \in 1..(Len(c) + 1) : At(q, c, i) = At(q, c, j) => i = j
      /\ \A i \in 1..Len(c) : At(q, c, i) = c[i] /\ c[i] \in S
      /\ At(q, c, 0) = q /\ At(q, c, Len(c) + 1) = q
  BY RingPlaces
<1>3. x = At(q, c, k) /\ p = At(q, c, k - 1) /\ n = At(q, c, k + 1)
  <2>1. x = At(q, c, k)
    BY <1>2
  <2>2. k - 1 \in 0..Len(c) /\ k \in 0..Len(c) /\ (k - 1) + 1 = k
    BY <1>1
  <2> QED
    BY <2>1, <2>2 DEF Ring
<1>4. \A i \in 0..(Len(c) + 1) : At(q, c, i) \in D
  BY <1>1, <1>2
<1>5. Len(d) = Len(c) - 1
  BY CutoutProperties
<1>6. /\ \A i \in 0..(k - 1) : At(q, d, i) = At(q, c, i)
      /\ \A i \in k..Len(c) : At(q, d, i) = At(q, c, i + 1)
  <2>1. \A i \in 1..(Len(c) - 1) : At(q, d, i) = IF i < k THEN c[i] ELSE c[i + 1]
    BY <1>5, CutoutProperties DEF At
  <2>2. At(q, d, 0) = q /\ At(q, d, Len(c)) = q
    BY <1>1, <1>5 DEF At
  <2> HIDE DEF d
  <2>3. ASSUME NEW i \in 0..(k - 1) PROVE At(q, d, i) = At(q, c, i)
    BY <1>1, <1>2, <2>1, <2>2
  <2>4. ASSUME NEW i \in k..Len(c) PROVE At(q, d, i) = At(q, c, i + 1)
    <3>1. CASE i = Len(c)
      BY <1>2, <2>2, <3>1
    <3>2. CASE i # Len(c)
      <4>1. i \in 1..(Len(c) - 1) /\ ~(i < k) /\ i + 1 \in 1..Len(c)
        BY <1>1, <3>2
      <4> QED
        BY <1>2, <2>1, <4>1
    <3> QED
      BY <3>1, <3>2
  <2> QED
    BY <2>3, <2>4
<1>7. p # x /\ n # x /\ p \in D /\ n \in D /\ x \in D
  <2>1. k - 1 \in 0..Len(c) /\ k \in 0..Len(c) /\ k \in 1..(Len(c) + 1) /\ k + 1 \in 1..(Len(c) + 1)
        /\ k # k - 1 /\ k # k + 1 /\ k + 1 \in 0..(Len(c) + 1) /\ k - 1 \in 0..(Len(c) + 1)
    BY <1>1
  <2> QED
    BY <1>2, <1>3, <1>4, <2>1
<1>8. /\ nx2[p] = n /\ \A y \in D : y # p /\ y # x => nx2[y] = nx[y]
      /\ pv2[n] = p /\ \A y \in D : y # n /\ y # x => pv2[y] = pv[y]
  BY <1>7
<1> HIDE DEF d, nx2, pv2
<1>9. ASSUME NEW i \in 0..Len(d)
      PROVE  nx2[At(q, d, i)] = At(q, d, i + 1) /\ pv2[At(q, d, i + 1)] = At(q, d, i)
  <2>1. CASE i < k - 1
    <3>1. /\ i \in 0..Len(c) /\ i + 1 \in 0..(k - 1) /\ i + 1 \in 1..(Len(c) + 1) /\ i \in 0..(k - 1)
          /\ k - 1 \in 0..Len(c) /\ k \in 0..Len(c) /\ k + 1 \in 1..(Len(c) + 1)
          /\ k \in 1..(Len(c) + 1) /\ i # k - 1 /\ i # k /\ i + 1 # k /\ i + 1 # k + 1
      BY <1>1, <2>1
    <3>2. At(q, c, i) # p /\ At(q, c, i + 1) # n /\ At(q, c, i) # x /\ At(q, c, i + 1) # x
      BY <1>2, <1>3, <3>1
    <3>3. nx[At(q, c, i)] = At(q, c, i + 1) /\ pv[At(q, c, i + 1)] = At(q, c, i)
      BY <3>1 DEF Ring
    <3>4. At(q, c, i) \in D /\ At(q, c, i + 1) \in D
      BY <1>4, <3>1
    <3> QED
      BY <1>6, <1>8, <3>1, <3>2, <3>3, <3>4
  <2>2. CASE i = k - 1
    <3>1. i \in 0..(k - 1) /\ i + 1 = k /\ k \in k..Len(c)
      BY <1>1, <2>2
    <3>2. At(q, d, i) = p /\ At(q, d, i + 1) = n
      BY <1>3, <1>6, <2>2, <3>1
    <3> QED
      BY <1>8, <3>2
  <2>3. CASE i > k - 1
    <3>1. /\ i \in k..Len(c) /\ i + 1 \in k..Len(c)
          /\ i + 1 \in 0..Len(c) /\ i + 1 \in 1..(Len(c) + 1) /\ (i + 1) + 1 \in 1..(Len(c) + 1)
          /\ k - 1 \in 0..Len(c) /\ k \in 0..Len(c) /\ k + 1 \in 1..(Len(c) + 1)
          /\ k \in 1..(Len(c) + 1) /\ i + 1 # k - 1 /\ i + 1 # k /\ (i + 1) + 1 # k /\ (i + 1) + 1 # k + 1
      BY <1>1, <1>5, <2>3
    <3>2. At(q, c, i + 1) # p /\ At(q, c, (i + 1) + 1) # n
          /\ At(q, c, i + 1) # x /\ At(q, c, (i + 1) + 1) # x
      BY <1>2, <1>3, <3>1
    <3>3. nx[At(q, c, i + 1)] = At(q, c, (i + 1) + 1) /\ pv[At(q, c, (i + 1) + 1)] = At(q, c, i + 1)
      BY <3>1 DEF Ring
    <3>4. At(q, d, i) = At(q, c, i + 1) /\ At(q, d, i + 1) = At(q, c, (i + 1) + 1)
      BY <1>6, <3>1
    <3>5. At(q, c, i + 1) \in D /\ At(q, c, (i + 1) + 1) \in D
      BY <1>1, <1>4, <3>1
    <3> QED
      BY <1>8, <3>2, <3>3, <3>4, <3>5
  <2> QED
    BY <1>1, <1>5, <2>1, <2>2, <2>3
<1> QED
  BY <1>9 DEF Ring, d, nx2, pv2

(* A ring is not disturbed by what happens to other nodes.                 *)
LEMMA RingKept ==
  ASSUME NEW q, NEW S, NEW c \in Seq(S), NEW nx, NEW pv, Ring(nx, pv, q, c), NEW nx2, NEW pv2,
         nx2[q] = nx[q], pv2[q] = pv[q],
         \A i \in 1..Len(c) : nx2[c[i]] = nx[c[i]] /\ pv2[c[i]] = pv[c[i]]
  PROVE  Ring(nx2, pv2, q, c)
<1>1. \A i : nx2[At(q, c, i)] = nx[At(q, c, i)] /\ pv2[At(q, c, i)] = pv[At(q, c, i)]
  BY DEF At
<1> QED
  BY <1>1 DEF Ring

-----------------------------------------------------------------------------
(* A heap whose queues hold con, with the allocated segments `out' in none *)
(* of them.                                                                *)

Links == [Memory!Nodes -> Memory!Nodes \cup {NULL}]

Heap == [next : Links, prev : Links, live : SUBSET Segs]

Apart(con) ==
  \A q, r \in Memory!Heads : \A i \in 1..Len(con[q]), j \in 1..Len(con[r]) :
    con[q][i] = con[r][j] => q = r /\ i = j

Members(con) == {s \in Segs : \E q \in Memory!Heads : \E i \in 1..Len(con[q]) : con[q][i] = s}

Linked(h, con, out) ==
  /\ h \in Heap
  /\ con \in [Memory!Heads -> Seq(Segs)] /\ Apart(con)
  /\ \A q \in Memory!Heads : Ring(h.next, h.prev, q, con[q])
  /\ out \subseteq Segs /\ h.live = Members(con) \cup out /\ Members(con) \cap out = {}

(* What is known of one queue.                                             *)
LEMMA QueueOf ==
  ASSUME Memory!MemoryAssumption, NEW h, NEW con, NEW out, Linked(h, con, out),
         NEW q \in Memory!Heads
  PROVE  /\ q \in Memory!Nodes /\ q \notin Segs /\ Segs \subseteq Memory!Nodes
         /\ DOMAIN h.next = Memory!Nodes /\ DOMAIN h.prev = Memory!Nodes
         /\ con[q] \in Seq(Segs) /\ Distinct(con[q]) /\ Ring(h.next, h.prev, q, con[q])
         /\ \A i \in 1..Len(con[q]) : con[q][i] \in Members(con) /\ con[q][i] \in Segs
<1>1. q \in Memory!Nodes /\ q \notin Segs /\ Segs \subseteq Memory!Nodes
  BY DEF Memory!MemoryAssumption, Memory!Nodes
<1>2. DOMAIN h.next = Memory!Nodes /\ DOMAIN h.prev = Memory!Nodes
  BY DEF Linked, Heap, Links
<1>3. con[q] \in Seq(Segs) /\ Ring(h.next, h.prev, q, con[q])
  BY DEF Linked
<1>4. Distinct(con[q])
  BY DEF Linked, Apart, Distinct
<1>5. \A i \in 1..Len(con[q]) : con[q][i] \in Segs
  BY <1>3
<1>6. \A i \in 1..Len(con[q]) : con[q][i] \in Members(con)
  BY <1>5 DEF Members
<1> QED
  BY <1>1, <1>2, <1>3, <1>4, <1>5, <1>6

(* The first and the last node of a queue.                                 *)
LEMMA QueueEnds ==
  ASSUME Memory!MemoryAssumption, NEW h, NEW con, NEW out, Linked(h, con, out),
         NEW q \in Memory!Heads
  PROVE  /\ h.next[q] = At(q, con[q], 1) /\ h.prev[q] = At(q, con[q], Len(con[q]))
         /\ Len(con[q]) \in Nat
         /\ Memory!IQUEUE_IS_EMPTY(h, q) <=> Len(con[q]) = 0
<1>1. con[q] \in Seq(Segs) /\ Ring(h.next, h.prev, q, con[q]) /\ q \notin Segs
  BY QueueOf
<1>2. Len(con[q]) \in Nat
  BY <1>1
<1>3. At(q, con[q], 0) = q /\ At(q, con[q], Len(con[q]) + 1) = q
  BY <1>2 DEF At
<1>4. h.next[q] = At(q, con[q], 1)
  BY <1>1, <1>2, <1>3 DEF Ring
<1>5. h.prev[q] = At(q, con[q], Len(con[q]))
  BY <1>1, <1>2, <1>3 DEF Ring
<1>6. Memory!IQUEUE_IS_EMPTY(h, q) <=> h.next[q] = q
  BY DEF Memory!IQUEUE_IS_EMPTY
<1>7. CASE Len(con[q]) = 0
  BY <1>2, <1>4, <1>5, <1>6, <1>7 DEF At
<1>8. CASE Len(con[q]) # 0
  <2>1. 1 \in 1..Len(con[q])
    BY <1>2, <1>8
  <2>2. At(q, con[q], 1) = con[q][1] /\ con[q][1] \in Segs
    BY <1>1, <2>1 DEF At
  <2> QED
    BY <1>1, <1>2, <1>4, <1>5, <1>6, <1>8, <2>2
<1> QED
  BY <1>7, <1>8

(* ikcp_segment_new.                                                       *)
LEMMA LinkedNew ==
  ASSUME Memory!MemoryAssumption, NEW h, NEW con, Linked(h, con, {}),
         NEW s \in Memory!Free(h)
  PROVE  /\ Linked(Memory!ikcp_segment_new(h, s), con, {s})
         /\ Memory!ikcp_segment_new(h, s).live = h.live \cup {s}
<1> DEFINE h2 == Memory!ikcp_segment_new(h, s)
<1>1. /\ h \in Heap /\ con \in [Memory!Heads -> Seq(Segs)] /\ Apart(con)
      /\ h.live = Members(con) /\ s \in Segs /\ s \notin Members(con)
  BY DEF Linked, Memory!Free
<1>2. s \in Memory!Nodes
  BY <1>1 DEF Memory!Nodes
<1>3. h2 \in Heap /\ h2.live = h.live \cup {s}
      /\ h2.next = [h.next EXCEPT ![s] = s] /\ h2.prev = [h.prev EXCEPT ![s] = s]
  <2> DEFINE l == h.live \cup {s}
             a == [h.next EXCEPT ![s] = s]
             b == [h.prev EXCEPT ![s] = s]
             h1 == [h EXCEPT !.live = l]
  <2>1. h.next \in Links /\ h.prev \in Links /\ l \in SUBSET Segs
    BY <1>1 DEF Heap
  <2>2. a \in Links /\ b \in Links
    BY <1>2, <2>1 DEF Links
  <2>3. h2 = [h1 EXCEPT !.next = [h1.next EXCEPT ![s] = s], !.prev = [h1.prev EXCEPT ![s] = s]]
    BY DEF Memory!ikcp_segment_new, Memory!IQUEUE_INIT
  <2> HIDE DEF l
  <2>4. h1 \in Heap /\ h1.next = h.next /\ h1.prev = h.prev /\ h1.live = l
    BY <1>1, <2>1 DEF Heap
  <2> HIDE DEF h1, h2
  <2>5. h2 = [h1 EXCEPT !.next = a, !.prev = b]
    BY <2>3, <2>4
  <2> HIDE DEF a, b
  <2>6. h2 \in Heap /\ h2.live = l /\ h2.next = a /\ h2.prev = b
    BY <2>2, <2>4, <2>5 DEF Heap
  <2> QED
    BY <2>6 DEF a, b, l
<1>5. \A y : y # s => h2.next[y] = h.next[y] /\ h2.prev[y] = h.prev[y]
  <2>1. h.next \in Links /\ h.prev \in Links
    BY <1>1 DEF Heap
  <2> QED
    BY <1>3, <2>1 DEF Links
<1> HIDE DEF h2
<1>6. ASSUME NEW q \in Memory!Heads PROVE Ring(h2.next, h2.prev, q, con[q])
  <2>1. /\ con[q] \in Seq(Segs) /\ Ring(h.next, h.prev, q, con[q]) /\ q \notin Segs
        /\ \A i \in 1..Len(con[q]) : con[q][i] \in Members(con)
    BY QueueOf
  <2>2. q # s /\ \A i \in 1..Len(con[q]) : con[q][i] # s
    BY <1>1, <2>1
  <2> QED
    BY <1>5, <2>1, <2>2, RingKept
<1> QED
  BY <1>1, <1>3, <1>6 DEF Linked, h2

(* ikcp_segment_delete.                                                    *)
LEMMA LinkedDelete ==
  ASSUME Memory!MemoryAssumption, NEW h, NEW con, NEW s, Linked(h, con, {s})
  PROVE  Linked(Memory!ikcp_segment_delete(h, s), con, {})
<1> DEFINE h2 == Memory!ikcp_segment_delete(h, s)
<1>1. /\ h \in Heap /\ con \in [Memory!Heads -> Seq(Segs)] /\ Apart(con)
      /\ h.live = Members(con) \cup {s} /\ s \in Segs /\ s \notin Members(con)
  BY DEF Linked
<1>2. s \in Memory!Nodes
  BY <1>1 DEF Memory!Nodes
<1>3. h2 \in Heap /\ h2.live = h.live \ {s}
      /\ h2.next = [h.next EXCEPT ![s] = NULL] /\ h2.prev = [h.prev EXCEPT ![s] = NULL]
  <2> DEFINE l == h.live \ {s}
             a == [h.next EXCEPT ![s] = NULL]
             b == [h.prev EXCEPT ![s] = NULL]
  <2>1. h.next \in Links /\ h.prev \in Links /\ l \in SUBSET Segs
    BY <1>1 DEF Heap
  <2>2. a \in Links /\ b \in Links
    BY <1>2, <2>1 DEF Links
  <2>3. h2 = [h EXCEPT !.live = l, !.next = a, !.prev = b]
    BY DEF Memory!ikcp_segment_delete
  <2> HIDE DEF a, b, l, h2
  <2>4. h2 \in Heap /\ h2.live = l /\ h2.next = a /\ h2.prev = b
    BY <1>1, <2>1, <2>2, <2>3 DEF Heap
  <2> QED
    BY <2>4 DEF a, b, l
<1>4. h2.live = Members(con)
  <2>1. (Members(con) \cup {s}) \ {s} = Members(con)
    BY <1>1
  <2> QED
    BY <1>1, <1>3, <2>1
<1>5. \A y : y # s => h2.next[y] = h.next[y] /\ h2.prev[y] = h.prev[y]
  <2>1. h.next \in Links /\ h.prev \in Links
    BY <1>1 DEF Heap
  <2> QED
    BY <1>3, <2>1 DEF Links
<1> HIDE DEF h2
<1>6. ASSUME NEW q \in Memory!Heads PROVE Ring(h2.next, h2.prev, q, con[q])
  <2>1. /\ con[q] \in Seq(Segs) /\ Ring(h.next, h.prev, q, con[q]) /\ q \notin Segs
        /\ \A i \in 1..Len(con[q]) : con[q][i] \in Members(con)
    BY QueueOf
  <2>2. q # s /\ \A i \in 1..Len(con[q]) : con[q][i] # s
    BY <1>1, <2>1
  <2> QED
    BY <1>5, <2>1, <2>2, RingKept
<1> QED
  BY <1>1, <1>3, <1>4, <1>6 DEF Linked, h2

(* The queues with one of them replaced.                                   *)
Replaced(con, q, c) == [con EXCEPT ![q] = c]

(* A segment more.                                                         *)
LEMMA ConSpliced ==
  ASSUME NEW con \in [Memory!Heads -> Seq(Segs)], Apart(con), NEW q \in Memory!Heads,
         NEW k \in 0..Len(con[q]), NEW s \in Segs, s \notin Members(con),
         NEW con2, con2 = Replaced(con, q, Spliced(con[q], k, s))
  PROVE  con2 \in [Memory!Heads -> Seq(Segs)] /\ Apart(con2) /\ Members(con2) = Members(con) \cup {s}
<1> DEFINE d == Spliced(con[q], k, s)
<1>1. /\ d \in Seq(Segs) /\ Len(d) = Len(con[q]) + 1
      /\ \A i \in 1..(Len(con[q]) + 1) :
           d[i] = IF i =< k THEN con[q][i] ELSE IF i = k + 1 THEN s ELSE con[q][i - 1]
  <2> DEFINE c == con[q]
  <2>1. c \in Seq(Segs) /\ k \in 0..Len(c)
    OBVIOUS
  <2> HIDE DEF c
  <2>2. /\ Spliced(c, k, s) \in Seq(Segs) /\ Len(Spliced(c, k, s)) = Len(c) + 1
        /\ \A i \in 1..(Len(c) + 1) :
             Spliced(c, k, s)[i] = IF i =< k THEN c[i] ELSE IF i = k + 1 THEN s ELSE c[i - 1]
    BY <2>1, SplicedProperties
  <2> QED
    BY <2>2 DEF c
<1> HIDE DEF d
<1>2. con2 \in [Memory!Heads -> Seq(Segs)] /\ con2[q] = d /\ \A r \in Memory!Heads : r # q => con2[r] = con[r]
  BY <1>1 DEF d, Replaced
<1>3. Len(con[q]) \in Nat /\ k \in Nat /\ k =< Len(con[q])
  OBVIOUS
<1>4. \A r \in Memory!Heads : \A i \in 1..Len(con[r]) : con[r][i] \in Segs /\ con[r][i] # s
  <2>1. \A r \in Memory!Heads : \A i \in 1..Len(con[r]) : con[r][i] \in Segs
    OBVIOUS
  <2> QED
    BY <2>1 DEF Members
<1> DEFINE Old(r, i) == IF r = q /\ i > k THEN i - 1 ELSE i
<1>5. ASSUME NEW r \in Memory!Heads, NEW i \in 1..Len(con2[r])
      PROVE  \/ r = q /\ i = k + 1 /\ con2[r][i] = s
             \/ ~(r = q /\ i = k + 1) /\ Old(r, i) \in 1..Len(con[r]) /\ con2[r][i] = con[r][Old(r, i)]
  <2>1. CASE r # q
    BY <1>2, <2>1
  <2>2. CASE r = q
    <3>1. i \in 1..(Len(con[q]) + 1)
      BY <1>1, <1>2, <2>2
    <3>2. CASE i =< k
      BY <1>1, <1>2, <1>3, <2>2, <3>1, <3>2
    <3>3. CASE i = k + 1
      BY <1>1, <1>2, <1>3, <2>2, <3>1, <3>3
    <3>4. CASE i > k + 1
      BY <1>1, <1>2, <1>3, <2>2, <3>1, <3>4
    <3> QED
      BY <1>3, <3>1, <3>2, <3>3, <3>4
  <2> QED
    BY <2>1, <2>2
<1>6. Apart(con2)
  <2> SUFFICES ASSUME NEW r \in Memory!Heads, NEW t \in Memory!Heads,
                      NEW i \in 1..Len(con2[r]), NEW j \in 1..Len(con2[t]), con2[r][i] = con2[t][j]
               PROVE  r = t /\ i = j
    BY DEF Apart
  <2>1. CASE r = q /\ i = k + 1
    <3>1. con2[t][j] = s
      BY <1>1, <1>2, <1>3, <2>1
    <3>2. CASE t = q /\ j = k + 1
      BY <2>1, <3>2
    <3>3. CASE ~(t = q /\ j = k + 1)
      <4>1. Old(t, j) \in 1..Len(con[t]) /\ con[t][Old(t, j)] = s
        BY <1>5, <3>1, <3>3
      <4> HIDE DEF Old
      <4> QED
        BY <1>4, <4>1
    <3> QED
      BY <3>2, <3>3
  <2>2. CASE t = q /\ j = k + 1
    BY <1>4, <1>5, <2>2
  <2>3. CASE ~(r = q /\ i = k + 1) /\ ~(t = q /\ j = k + 1)
    <3>1. Old(r, i) \in 1..Len(con[r]) /\ Old(t, j) \in 1..Len(con[t]) /\ con[r][Old(r, i)] = con[t][Old(t, j)]
      BY <1>5, <2>3
    <3>2. r = t /\ Old(r, i) = Old(t, j)
      BY <3>1 DEF Apart
    <3>3. i \in Int /\ j \in Int
      BY <1>2
    <3> QED
      BY <1>3, <2>3, <3>2, <3>3
  <2> QED
    BY <2>1, <2>2, <2>3
<1>7. ASSUME NEW y \in Members(con2) PROVE y \in Members(con) \cup {s}
  <2>0. PICK r \in Memory!Heads : \E i \in 1..Len(con2[r]) : con2[r][i] = y
    BY DEF Members
  <2>1. PICK i \in 1..Len(con2[r]) : con2[r][i] = y
    BY <2>0
  <2>2. y \in Segs
    BY DEF Members
  <2>3. CASE r = q /\ i = k + 1
    BY <1>5, <2>1, <2>3
  <2>4. CASE ~(r = q /\ i = k + 1)
    <3>1. Old(r, i) \in 1..Len(con[r]) /\ con[r][Old(r, i)] = y
      BY <1>5, <2>1, <2>4
    <3> HIDE DEF Old
    <3> QED
      BY <2>2, <3>1 DEF Members
  <2> QED
    BY <2>3, <2>4
<1>8. s \in Members(con2)
  <2>1. k + 1 \in 1..Len(con2[q]) /\ con2[q][k + 1] = s
    BY <1>1, <1>2, <1>3
  <2> QED
    BY <2>1 DEF Members
<1>9. ASSUME NEW y \in Members(con) PROVE y \in Members(con2)
  <2>0. PICK r \in Memory!Heads : \E i \in 1..Len(con[r]) : con[r][i] = y
    BY DEF Members
  <2>1. PICK i \in 1..Len(con[r]) : con[r][i] = y
    BY <2>0
  <2>2. y \in Segs
    BY DEF Members
  <2>3. CASE r # q
    BY <1>2, <2>1, <2>2, <2>3 DEF Members
  <2>4. CASE r = q
    <3>1. CASE i =< k
      <4>1. i \in 1..Len(con2[q]) /\ con2[q][i] = y
        BY <1>1, <1>2, <1>3, <2>1, <2>4, <3>1
      <4> QED
        BY <2>2, <4>1 DEF Members
    <3>2. CASE i > k
      <4>1. i + 1 \in 1..(Len(con[q]) + 1) /\ ~(i + 1 =< k) /\ i + 1 # k + 1 /\ (i + 1) - 1 = i
        BY <1>3, <2>4, <3>2
      <4>2. i + 1 \in 1..Len(con2[q]) /\ con2[q][i + 1] = y
        BY <1>1, <1>2, <2>1, <2>4, <4>1
      <4> QED
        BY <2>2, <4>2 DEF Members
    <3> QED
      BY <1>3, <3>1, <3>2
  <2> QED
    BY <2>3, <2>4
<1> QED
  BY <1>2, <1>6, <1>7, <1>8, <1>9

(* A segment less.                                                         *)
LEMMA ConCutout ==
  ASSUME NEW con \in [Memory!Heads -> Seq(Segs)], Apart(con), NEW q \in Memory!Heads,
         NEW k \in 1..Len(con[q]), NEW s, s = con[q][k],
         NEW con2, con2 = Replaced(con, q, Cutout(con[q], k))
  PROVE  /\ con2 \in [Memory!Heads -> Seq(Segs)] /\ Apart(con2)
         /\ s \in Segs /\ s \notin Members(con2) /\ Members(con2) \cup {s} = Members(con)
<1> DEFINE d == Cutout(con[q], k)
<1>1. /\ d \in Seq(Segs) /\ Len(d) = Len(con[q]) - 1
      /\ \A i \in 1..(Len(con[q]) - 1) : d[i] = IF i < k THEN con[q][i] ELSE con[q][i + 1]
  BY CutoutProperties
<1> HIDE DEF d
<1>2. con2 \in [Memory!Heads -> Seq(Segs)] /\ con2[q] = d /\ \A r \in Memory!Heads : r # q => con2[r] = con[r]
  BY <1>1 DEF d, Replaced
<1>3. Len(con[q]) \in Nat /\ k \in Nat /\ k =< Len(con[q]) /\ k > 0
  OBVIOUS
<1>4. \A r \in Memory!Heads : \A i \in 1..Len(con[r]) : con[r][i] \in Segs
  OBVIOUS
<1> DEFINE Old(r, i) == IF r = q /\ i >= k THEN i + 1 ELSE i
<1>5. ASSUME NEW r \in Memory!Heads, NEW i \in 1..Len(con2[r])
      PROVE  /\ Old(r, i) \in 1..Len(con[r]) /\ con2[r][i] = con[r][Old(r, i)]
             /\ i \in Int /\ ~(r = q /\ Old(r, i) = k)
  <2>1. CASE r # q
    BY <1>2, <2>1
  <2>2. CASE r = q
    <3>1. i \in 1..(Len(con[q]) - 1)
      BY <1>1, <1>2, <2>2
    <3>2. CASE i < k
      BY <1>1, <1>2, <1>3, <2>2, <3>1, <3>2
    <3>3. CASE ~(i < k)
      BY <1>1, <1>2, <1>3, <2>2, <3>1, <3>3
    <3> QED
      BY <3>2, <3>3
  <2> QED
    BY <2>1, <2>2
<1>6. Apart(con2)
  <2> SUFFICES ASSUME NEW r \in Memory!Heads, NEW t \in Memory!Heads,
                      NEW i \in 1..Len(con2[r]), NEW j \in 1..Len(con2[t]), con2[r][i] = con2[t][j]
               PROVE  r = t /\ i = j
    BY DEF Apart
  <2>1. Old(r, i) \in 1..Len(con[r]) /\ Old(t, j) \in 1..Len(con[t]) /\ con[r][Old(r, i)] = con[t][Old(t, j)]
    BY <1>5
  <2>2. r = t /\ Old(r, i) = Old(t, j)
    BY <2>1 DEF Apart
  <2>3. i \in Int /\ j \in Int
    BY <1>5
  <2> QED
    BY <1>3, <2>2, <2>3
<1>7. ASSUME NEW y \in Members(con2) PROVE y \in Members(con) /\ y # s
  <2>0. PICK r \in Memory!Heads : \E i \in 1..Len(con2[r]) : con2[r][i] = y
    BY DEF Members
  <2>1. PICK i \in 1..Len(con2[r]) : con2[r][i] = y
    BY <2>0
  <2>2. y \in Segs /\ Old(r, i) \in 1..Len(con[r]) /\ con[r][Old(r, i)] = y /\ ~(r = q /\ Old(r, i) = k)
    BY <1>5, <2>1 DEF Members
  <2> HIDE DEF Old
  <2>3. y # s
    BY <2>2 DEF Apart
  <2> QED
    BY <2>2, <2>3 DEF Members
<1>8. s \in Segs /\ s \in Members(con)
  BY <1>4 DEF Members
<1>9. ASSUME NEW y \in Members(con), y # s PROVE y \in Members(con2)
  <2>0. PICK r \in Memory!Heads : \E i \in 1..Len(con[r]) : con[r][i] = y
    BY DEF Members
  <2>1. PICK i \in 1..Len(con[r]) : con[r][i] = y
    BY <2>0
  <2>2. y \in Segs
    BY DEF Members
  <2>3. CASE r # q
    BY <1>2, <2>1, <2>2, <2>3 DEF Members
  <2>4. CASE r = q
    <3>1. CASE i < k
      <4>1. i \in 1..Len(con2[q]) /\ con2[q][i] = y
        BY <1>1, <1>2, <1>3, <2>1, <2>4, <3>1
      <4> QED
        BY <2>2, <4>1 DEF Members
    <3>2. CASE i > k
      <4>1. i - 1 \in 1..(Len(con[q]) - 1) /\ ~(i - 1 < k) /\ (i - 1) + 1 = i
        BY <1>3, <2>4, <3>2
      <4>2. i - 1 \in 1..Len(con2[q]) /\ con2[q][i - 1] = y
        BY <1>1, <1>2, <2>1, <2>4, <4>1
      <4> QED
        BY <2>2, <4>2 DEF Members
    <3> QED
      BY <1>3, <1>9, <2>1, <2>4, <3>1, <3>2
  <2> QED
    BY <2>3, <2>4
<1> QED
  BY <1>2, <1>6, <1>7, <1>8, <1>9

(* IQUEUE_ADD after place k of a queue.                                    *)
LEMMA LinkedAdd ==
  ASSUME Memory!MemoryAssumption, NEW h, NEW con, NEW s, Linked(h, con, {s}),
         NEW q \in Memory!Heads, NEW k \in 0..Len(con[q]), NEW p, p = At(q, con[q], k),
         NEW con2, con2 = Replaced(con, q, Spliced(con[q], k, s))
  PROVE  /\ Linked(Memory!IQUEUE_ADD(h, s, p), con2, {})
         /\ Memory!IQUEUE_ADD(h, s, p).live = h.live
<1> DEFINE h2 == Memory!IQUEUE_ADD(h, s, p)
           n == h.next[p]
           a == [[h.next EXCEPT ![s] = n] EXCEPT ![p] = s]
           b == [[h.prev EXCEPT ![s] = p] EXCEPT ![n] = s]
<1>1. /\ h \in Heap /\ con \in [Memory!Heads -> Seq(Segs)] /\ Apart(con)
      /\ h.live = Members(con) \cup {s} /\ s \in Segs /\ s \notin Members(con)
      /\ h.next \in Links /\ h.prev \in Links
  BY DEF Linked, Heap
<1>2. con2 \in [Memory!Heads -> Seq(Segs)] /\ Apart(con2) /\ Members(con2) = Members(con) \cup {s}
  BY <1>1, ConSpliced
<1>3. /\ con[q] \in Seq(Segs) /\ Ring(h.next, h.prev, q, con[q]) /\ Distinct(con[q])
      /\ q \in Memory!Nodes /\ q \notin Segs /\ Segs \subseteq Memory!Nodes
      /\ DOMAIN h.next = Memory!Nodes /\ DOMAIN h.prev = Memory!Nodes
      /\ \A i \in 1..Len(con[q]) : con[q][i] \in Members(con) /\ con[q][i] \in Segs
  BY QueueOf
<1>4. s \in Memory!Nodes
  BY <1>1, <1>3
<1>5. n = At(q, con[q], k + 1)
  BY <1>3 DEF Ring
<1>6. /\ p \in Memory!Nodes /\ n \in Memory!Nodes
      /\ p = q \/ \E i \in 1..Len(con[q]) : p = con[q][i]
      /\ n = q \/ \E i \in 1..Len(con[q]) : n = con[q][i]
  BY <1>3, <1>5 DEF At
<1> HIDE DEF n
<1>7. a \in Links /\ b \in Links
  BY <1>1, <1>4, <1>6 DEF Links
<1>8. h2 \in Heap /\ h2.next = a /\ h2.prev = b /\ h2.live = h.live
  <2>1. h2 = [h EXCEPT !.next = a, !.prev = b]
    BY DEF Memory!IQUEUE_ADD, n
  <2> HIDE DEF a, b, h2
  <2> QED
    BY <1>1, <1>7, <2>1 DEF Heap
<1>9. \A y \in Memory!Nodes : y # s /\ y # p /\ y # n => a[y] = h.next[y] /\ b[y] = h.prev[y]
  BY <1>1 DEF Links
<1>10. Ring(a, b, q, Spliced(con[q], k, s))
  <2> DEFINE c == con[q]
             D == Memory!Nodes
  <2>1. /\ Segs \subseteq D /\ q \in D /\ q \notin Segs /\ DOMAIN h.next = D /\ DOMAIN h.prev = D
        /\ c \in Seq(Segs) /\ Distinct(c) /\ Ring(h.next, h.prev, q, c) /\ k \in 0..Len(c)
        /\ s \in Segs /\ p = At(q, c, k) /\ n = h.next[p] /\ \A i \in 1..Len(c) : c[i] # s
    BY <1>1, <1>3 DEF n
  <2> HIDE DEF c, D
  <2>2. Ring(a, b, q, Spliced(c, k, s))
    BY <2>1, RingInsert
  <2> QED
    BY <2>2 DEF c
<1> HIDE DEF a, b, h2
<1>11. ASSUME NEW r \in Memory!Heads PROVE Ring(a, b, r, con2[r])
  <2>1. CASE r = q
    BY <1>1, <1>10, <2>1 DEF Replaced
  <2>2. CASE r # q
    <3>1. con2[r] = con[r]
      BY <1>1, <2>2 DEF Replaced
    <3>2. /\ con[r] \in Seq(Segs) /\ Ring(h.next, h.prev, r, con[r])
          /\ r \notin Segs /\ r \in Memory!Nodes
          /\ \A i \in 1..Len(con[r]) : con[r][i] \in Members(con) /\ con[r][i] \in Segs
      BY QueueOf
    <3>3. r \in Memory!Nodes /\ r # s /\ r # p /\ r # n
      BY <1>1, <1>3, <1>6, <2>2, <3>2
    <3>4. ASSUME NEW i \in 1..Len(con[r]) PROVE con[r][i] \in Memory!Nodes /\ con[r][i] # s /\ con[r][i] # p /\ con[r][i] # n
      <4>1. \A j \in 1..Len(con[q]) : con[r][i] # con[q][j]
        BY <1>1, <2>2 DEF Apart
      <4> QED
        BY <1>1, <1>3, <1>6, <3>2, <4>1
    <3>5. Ring(a, b, r, con[r])
      BY <1>9, <3>2, <3>3, <3>4, RingKept
    <3> QED
      BY <3>1, <3>5
  <2> QED
    BY <2>1, <2>2
<1>12. Linked(h2, con2, {})
  BY <1>1, <1>2, <1>8, <1>11 DEF Linked
<1> QED
  BY <1>8, <1>12 DEF h2

(* IQUEUE_ADD_TAIL is IQUEUE_ADD after the last place.                     *)
LEMMA LinkedAddTail ==
  ASSUME Memory!MemoryAssumption, NEW h, NEW con, NEW s, Linked(h, con, {s}),
         NEW q \in Memory!Heads,
         NEW con2, con2 = Replaced(con, q, Spliced(con[q], Len(con[q]), s))
  PROVE  /\ Linked(Memory!IQUEUE_ADD_TAIL(h, s, q), con2, {})
         /\ Memory!IQUEUE_ADD_TAIL(h, s, q).live = h.live
<1> DEFINE p == h.prev[q]
<1>1. p = At(q, con[q], Len(con[q])) /\ Len(con[q]) \in Nat
  BY QueueEnds
<1>2. h.next[p] = q
  <2>1. Ring(h.next, h.prev, q, con[q])
    BY QueueOf
  <2>2. At(q, con[q], Len(con[q]) + 1) = q
    BY <1>1 DEF At
  <2> QED
    BY <1>1, <2>1, <2>2 DEF Ring
<1>3. Memory!IQUEUE_ADD_TAIL(h, s, q) = Memory!IQUEUE_ADD(h, s, p)
  BY <1>2 DEF Memory!IQUEUE_ADD_TAIL, Memory!IQUEUE_ADD
<1> DEFINE k == Len(con[q])
<1>4. k \in 0..Len(con[q]) /\ p = At(q, con[q], k) /\ con2 = Replaced(con, q, Spliced(con[q], k, s))
  BY <1>1
<1> HIDE DEF p, k
<1>5. Linked(Memory!IQUEUE_ADD(h, s, p), con2, {}) /\ Memory!IQUEUE_ADD(h, s, p).live = h.live
  BY <1>4, LinkedAdd
<1> QED
  BY <1>3, <1>5

(* IQUEUE_DEL of place k.                                                  *)
LEMMA LinkedDel ==
  ASSUME Memory!MemoryAssumption, NEW h, NEW con, Linked(h, con, {}),
         NEW q \in Memory!Heads, NEW k \in 1..Len(con[q]), NEW s, s = con[q][k],
         NEW con2, con2 = Replaced(con, q, Cutout(con[q], k))
  PROVE  /\ Linked(Memory!IQUEUE_DEL(h, s), con2, {s})
         /\ Memory!IQUEUE_DEL(h, s).live = h.live
<1> DEFINE h2 == Memory!IQUEUE_DEL(h, s)
           p == h.prev[s]
           n == h.next[s]
           a == [[h.next EXCEPT ![p] = n] EXCEPT ![s] = NULL]
           b == [[h.prev EXCEPT ![n] = p] EXCEPT ![s] = NULL]
<1>1. /\ h \in Heap /\ con \in [Memory!Heads -> Seq(Segs)] /\ Apart(con)
      /\ h.live = Members(con) /\ h.next \in Links /\ h.prev \in Links
  BY DEF Linked, Heap
<1>2. /\ con2 \in [Memory!Heads -> Seq(Segs)] /\ Apart(con2)
      /\ s \in Segs /\ s \notin Members(con2) /\ Members(con2) \cup {s} = Members(con)
  BY <1>1, ConCutout
<1>3. /\ con[q] \in Seq(Segs) /\ Ring(h.next, h.prev, q, con[q]) /\ Distinct(con[q])
      /\ q \in Memory!Nodes /\ q \notin Segs /\ Segs \subseteq Memory!Nodes
      /\ DOMAIN h.next = Memory!Nodes /\ DOMAIN h.prev = Memory!Nodes
      /\ \A i \in 1..Len(con[q]) : con[q][i] \in Members(con) /\ con[q][i] \in Segs
  BY QueueOf
<1>4. s \in Memory!Nodes
  BY <1>2, <1>3
<1>5. p = At(q, con[q], k - 1) /\ n = At(q, con[q], k + 1)
  <2>1. s = At(q, con[q], k)
    BY DEF At
  <2>2. k - 1 \in 0..Len(con[q]) /\ k \in 0..Len(con[q]) /\ (k - 1) + 1 = k
    BY <1>3
  <2> QED
    BY <1>3, <2>1, <2>2 DEF Ring
<1>6. /\ p \in Memory!Nodes /\ n \in Memory!Nodes
      /\ p = q \/ \E i \in 1..Len(con[q]) : p = con[q][i]
      /\ n = q \/ \E i \in 1..Len(con[q]) : n = con[q][i]
  BY <1>3, <1>5 DEF At
<1> HIDE DEF n, p
<1>7. a \in Links /\ b \in Links
  BY <1>1, <1>4, <1>6 DEF Links
<1>8. h2 \in Heap /\ h2.next = a /\ h2.prev = b /\ h2.live = h.live
  <2>1. h2 = [h EXCEPT !.next = a, !.prev = b]
    BY DEF Memory!IQUEUE_DEL, n, p
  <2> HIDE DEF a, b, h2
  <2> QED
    BY <1>1, <1>7, <2>1 DEF Heap
<1>9. \A y \in Memory!Nodes : y # s /\ y # p /\ y # n => a[y] = h.next[y] /\ b[y] = h.prev[y]
  BY <1>1 DEF Links
<1>10. Ring(a, b, q, Cutout(con[q], k))
  <2> DEFINE c == con[q]
             D == Memory!Nodes
  <2>1. /\ Segs \subseteq D /\ q \in D /\ q \notin Segs /\ DOMAIN h.next = D /\ DOMAIN h.prev = D
        /\ c \in Seq(Segs) /\ Distinct(c) /\ Ring(h.next, h.prev, q, c) /\ k \in 1..Len(c)
        /\ s = c[k] /\ p = h.prev[s] /\ n = h.next[s]
    BY <1>3 DEF n, p
  <2> HIDE DEF c, D
  <2>2. Ring(a, b, q, Cutout(c, k))
    BY <2>1, RingRemove
  <2> QED
    BY <2>2 DEF c
<1> HIDE DEF a, b, h2
<1>11. ASSUME NEW r \in Memory!Heads PROVE Ring(a, b, r, con2[r])
  <2>1. CASE r = q
    BY <1>1, <1>10, <2>1 DEF Replaced
  <2>2. CASE r # q
    <3>1. con2[r] = con[r]
      BY <1>1, <2>2 DEF Replaced
    <3>2. /\ con[r] \in Seq(Segs) /\ Ring(h.next, h.prev, r, con[r])
          /\ r \notin Segs /\ r \in Memory!Nodes
          /\ \A i \in 1..Len(con[r]) : con[r][i] \in Members(con) /\ con[r][i] \in Segs
      BY QueueOf
    <3>3. r \in Memory!Nodes /\ r # s /\ r # p /\ r # n
      BY <1>2, <1>3, <1>6, <2>2, <3>2
    <3>4. ASSUME NEW i \in 1..Len(con[r]) PROVE con[r][i] \in Memory!Nodes /\ con[r][i] # s /\ con[r][i] # p /\ con[r][i] # n
      <4>1. \A j \in 1..Len(con[q]) : con[r][i] # con[q][j]
        BY <1>1, <2>2 DEF Apart
      <4> QED
        BY <1>3, <1>6, <3>2, <4>1
    <3>5. Ring(a, b, r, con[r])
      BY <1>9, <3>2, <3>3, <3>4, RingKept
    <3> QED
      BY <3>1, <3>5
  <2> QED
    BY <2>1, <2>2
<1>12. Linked(h2, con2, {s})
  BY <1>1, <1>2, <1>8, <1>11 DEF Linked
<1> QED
  BY <1>8, <1>12 DEF h2

(* iqueue_del and ikcp_segment_delete of place k.                          *)
LEMMA LinkedDrop ==
  ASSUME Memory!MemoryAssumption, NEW h, NEW con, Linked(h, con, {}),
         NEW q \in Memory!Heads, NEW k \in 1..Len(con[q]), NEW s, s = con[q][k],
         NEW con2, con2 = Replaced(con, q, Cutout(con[q], k))
  PROVE  Linked(Memory!Drop(h, s), con2, {})
<1>1. Linked(Memory!IQUEUE_DEL(h, s), con2, {s})
  BY LinkedDel
<1> QED
  BY <1>1, LinkedDelete DEF Memory!Drop

(* The lengths of the queues after a change.                               *)
LEMMA ReplacedLengths ==
  ASSUME NEW con \in [Memory!Heads -> Seq(Segs)], NEW q \in Memory!Heads, NEW s \in Segs
  PROVE  /\ \A k \in 1..Len(con[q]) : LET con2 == Replaced(con, q, Cutout(con[q], k)) IN
              Len(con2[q]) = Len(con[q]) - 1 /\ \A r \in Memory!Heads : r # q => con2[r] = con[r]
         /\ \A k \in 0..Len(con[q]) : LET con2 == Replaced(con, q, Spliced(con[q], k, s)) IN
              Len(con2[q]) = Len(con[q]) + 1 /\ \A r \in Memory!Heads : r # q => con2[r] = con[r]
<1> DEFINE c == con[q]
<1>1. c \in Seq(Segs)
  OBVIOUS
<1>2. \A d : Replaced(con, q, d)[q] = d /\ \A r \in Memory!Heads : r # q => Replaced(con, q, d)[r] = con[r]
  BY DEF Replaced
<1> HIDE DEF c
<1>3. \A k \in 1..Len(c) : Len(Cutout(c, k)) = Len(c) - 1
  BY <1>1, CutoutProperties
<1>4. \A k \in 0..Len(c) : Len(Spliced(c, k, s)) = Len(c) + 1
  BY <1>1, SplicedProperties
<1> QED
  BY <1>2, <1>3, <1>4 DEF c

-----------------------------------------------------------------------------
(* Loops.                                                                  *)

(* Induction up to n.                                                      *)
LEMMA UpTo ==
  ASSUME NEW n \in Nat, NEW T, 0 \in T, \A i \in 1..n : i - 1 \in T => i \in T
  PROVE  \A i \in 0..n : i \in T
<1> DEFINE U == {i \in Nat : i =< n => i \in T}
<1>1. 0 \in U
  OBVIOUS
<1>2. ASSUME NEW i \in U PROVE i + 1 \in U
  <2> SUFFICES ASSUME i + 1 =< n PROVE i + 1 \in T
    OBVIOUS
  <2>1. i \in Nat /\ i =< n /\ i + 1 \in 1..n /\ (i + 1) - 1 = i
    OBVIOUS
  <2>2. i \in T
    BY <2>1
  <2> QED
    BY <2>1, <2>2
<1> HIDE DEF U
<1>3. Nat \subseteq U
  BY <1>1, <1>2, SetInduction
<1> QED
  BY <1>3 DEF U

(* A loop of n rounds, of which round i, g[i], leads from the set S[i - 1] *)
(* to S[i]: it has a table of what it keeps.                               *)
IsLoop(n, S, m, g) ==
  m \in S[0] /\ \A i \in 1..n : \A x \in S[i - 1] : g[i][x] \in S[i]

IsTable(n, S, m, g, f) ==
  /\ f = [i \in 0..n |-> f[i]] /\ f[0] = m
  /\ \A i \in 0..n : f[i] \in S[i]
  /\ \A i \in 1..n : f[i] = g[i][f[i - 1]]

(* There is such a table.                                                  *)
LEMMA Iterated ==
  ASSUME NEW n \in Nat, NEW S, NEW m, NEW g, IsLoop(n, S, m, g)
  PROVE  \E f : IsTable(n, S, m, g, f)
<1> DEFINE T == {k \in 0..n : \E f : IsTable(k, S, m, g, f)}
<1>1. 0 \in T
  <2> DEFINE f == [i \in 0..0 |-> m]
  <2>1. f = [i \in 0..0 |-> f[i]] /\ f[0] = m /\ \A i \in 0..0 : f[i] \in S[i]
    BY DEF IsLoop
  <2> HIDE DEF f
  <2>2. IsTable(0, S, m, g, f)
    BY <2>1 DEF IsTable
  <2> QED
    BY <2>2
<1>2. ASSUME NEW k \in 1..n, k - 1 \in T PROVE k \in T
  <2>1. PICK f : IsTable(k - 1, S, m, g, f)
    BY <1>2
  <2>2. /\ f[0] = m /\ \A i \in 0..(k - 1) : f[i] \in S[i]
        /\ \A i \in 1..(k - 1) : f[i] = g[i][f[i - 1]]
    BY <2>1 DEF IsTable
  <2>3. k - 1 \in 0..(k - 1) /\ k \in Nat
    OBVIOUS
  <2>4. g[k][f[k - 1]] \in S[k]
    BY <2>2, <2>3 DEF IsLoop
  <2> DEFINE e == [i \in 0..k |-> IF i = k THEN g[k][f[k - 1]] ELSE f[i]]
  <2>5. ASSUME NEW i \in 0..k PROVE e[i] \in S[i]
    <3>1. CASE i = k
      BY <2>4, <3>1
    <3>2. CASE i # k
      <4>1. i \in 0..(k - 1)
        BY <3>2
      <4> QED
        BY <2>2, <3>2, <4>1
    <3> QED
      BY <3>1, <3>2
  <2>6. ASSUME NEW i \in 1..k PROVE e[i] = g[i][e[i - 1]]
    <3>1. i - 1 \in 0..k /\ i - 1 # k /\ i \in 0..k
      BY <2>3
    <3>2. e[i - 1] = f[i - 1]
      BY <3>1
    <3>3. CASE i = k
      BY <3>1, <3>2, <3>3
    <3>4. CASE i # k
      <4>1. i \in 1..(k - 1)
        BY <2>3, <3>4
      <4> QED
        BY <2>2, <3>1, <3>2, <3>4, <4>1
    <3> QED
      BY <3>3, <3>4
  <2>7. e[0] = m /\ e = [i \in 0..k |-> e[i]]
    BY <2>2, <2>3
  <2> HIDE DEF e
  <2>8. IsTable(k, S, m, g, e)
    BY <2>5, <2>6, <2>7 DEF IsTable
  <2> QED
    BY <2>8
<1> HIDE DEF T
<1>3. \A i \in 1..n : i - 1 \in T => i \in T
  BY <1>2
<1>4. \A i \in 0..n : i \in T
  BY <1>1, <1>3, UpTo
<1>5. n \in T
  BY <1>4
<1> QED
  BY <1>5 DEF T

(* Whatever follows the rounds of a loop keeps what the loop keeps.        *)
LEMMA Follows ==
  ASSUME NEW n \in Nat, NEW S, NEW m, NEW g, IsLoop(n, S, m, g), NEW f, f[0] = m,
         \A i \in 1..n : f[i - 1] \in S[i - 1] => f[i] = g[i][f[i - 1]]
  PROVE  \A i \in 0..n : f[i] \in S[i]
<1> DEFINE T == {i \in 0..n : f[i] \in S[i]}
<1>1. 0 \in T
  BY DEF IsLoop
<1>2. \A i \in 1..n : i - 1 \in T => i \in T
  BY DEF IsLoop
<1> HIDE DEF T
<1>3. \A i \in 0..n : i \in T
  BY <1>1, <1>2, UpTo
<1> QED
  BY <1>3 DEF T

(* The bound of the loops is a number.                                     *)
LEMMA RoundsNat ==
  ASSUME Memory!MemoryAssumption
  PROVE  IsFiniteSet(Segs) /\ Memory!Rounds = Cardinality(Segs) /\ Memory!Rounds \in Nat
<1>1. IsFiniteSet(Segs)
  BY DEF Memory!MemoryAssumption, Memory!IsFiniteSet, IsFiniteSet
<1>2. Memory!Rounds = Cardinality(Segs)
  BY DEF Memory!Rounds, Memory!Cardinality, Cardinality
<1> QED
  BY <1>1, <1>2, FS_CardinalityType

(* A walk that can only lead to nodes of Z ends in one.                    *)
LEMMA ReachStays ==
  ASSUME Memory!MemoryAssumption, NEW link, NEW p, NEW stop, NEW Z, p \in Z,
         \A y \in Z : y \in stop \/ link[y] \in Z
  PROVE  Memory!Reach(link, p, stop) \in Z
<1> DEFINE n == Memory!Rounds
           S == [i \in 0..n |-> Z]
           Round(i, x) == IF x \in stop THEN x ELSE link[x]
           g == [i \in 1..n |-> [x \in S[i - 1] |-> Round(i, x)]]
           Loop(f) == [i \in 0..n |-> IF i = 0 THEN p ELSE Round(i, f[i - 1])]
           F == CHOOSE f : f = Loop(f)
<1>1. n \in Nat
  BY RoundsNat
<1> HIDE DEF n
<1>2. p \in S[0]
  BY <1>1
<1>3. ASSUME NEW i \in 1..n, NEW x \in S[i - 1] PROVE Round(i, x) \in S[i]
  BY <1>1
<1> HIDE DEF S, Round
<1>4. \A i \in 1..n : \A x \in S[i - 1] : g[i][x] = Round(i, x)
  OBVIOUS
<1>5. IsLoop(n, S, p, g)
  BY <1>2, <1>3, <1>4 DEF IsLoop
<1> HIDE DEF g
<1>6. PICK f : IsTable(n, S, p, g, f)
  BY <1>1, <1>5, Iterated
<1>7. f = Loop(f)
  <2>1. ASSUME NEW i \in 0..n PROVE f[i] = IF i = 0 THEN p ELSE Round(i, f[i - 1])
    <3>1. CASE i = 0
      BY <1>6, <3>1 DEF IsTable
    <3>2. CASE i # 0
      <4>1. i \in 1..n /\ i - 1 \in 0..n
        BY <1>1, <3>2
      <4> QED
        BY <1>4, <1>6, <3>2, <4>1 DEF IsTable
    <3> QED
      BY <3>1, <3>2
  <2>2. f = [i \in 0..n |-> f[i]]
    BY <1>6 DEF IsTable
  <2> QED
    BY <2>1, <2>2
<1>8. F = Loop(F)
  <2> HIDE DEF Loop
  <2> QED
    BY <1>7
<1>9. Memory!Reach(link, p, stop) = F[n]
  BY DEF Memory!Reach, Round, n
<1> HIDE DEF F
<1>10. F[0] = p /\ \A i \in 1..n : F[i] = Round(i, F[i - 1])
  <2>1. \A i \in 0..n : F[i] = IF i = 0 THEN p ELSE Round(i, F[i - 1])
    BY <1>8
  <2>2. 0 \in 0..n /\ \A i \in 1..n : i \in 0..n /\ i # 0
    BY <1>1
  <2> QED
    BY <2>1, <2>2
<1> HIDE DEF Loop
<1>11. \A i \in 0..n : F[i] \in S[i]
  BY <1>1, <1>4, <1>5, <1>10, Follows
<1>12. F[n] \in S[n] /\ n \in 0..n
  BY <1>1, <1>11
<1> QED
  BY <1>9, <1>12 DEF S

(* The queues are linked and their counters are right.                     *)
Good(h, count) ==
  \E con : Linked(h, con, {}) /\ \A q \in Memory!Heads : count[q] = Len(con[q])

Moves == {m \in [h : Heap, count : [Memory!Heads -> Nat], sn : [Segs -> Int], nxt : Int] :
            Good(m.h, m.count)}

(* A segment moves from the front of a queue to the end of another one.    *)
LEMMA MoveFirstGood ==
  ASSUME Memory!MemoryAssumption, NEW m \in Moves, NEW from \in Memory!Heads, NEW to \in Memory!Heads,
         from # to, ~Memory!IQUEUE_IS_EMPTY(m.h, from)
  PROVE  m.h.next[from] \in Segs /\ Memory!MoveFirst(m, from, to) \in Moves
<1> DEFINE s == m.h.next[from]
           h1 == Memory!IQUEUE_DEL(m.h, s)
           h2 == Memory!IQUEUE_ADD_TAIL(h1, s, to)
           count2 == [[m.count EXCEPT ![from] = @ - 1] EXCEPT ![to] = @ + 1]
<1>1. /\ m \in [h : Heap, count : [Memory!Heads -> Nat], sn : [Segs -> Int], nxt : Int]
      /\ m.count \in [Memory!Heads -> Nat]
  BY DEF Moves
<1>2. PICK con : Linked(m.h, con, {}) /\ \A q \in Memory!Heads : m.count[q] = Len(con[q])
  BY DEF Moves, Good
<1>3. con \in [Memory!Heads -> Seq(Segs)]
  BY <1>2 DEF Linked
<1>4. 1 \in 1..Len(con[from]) /\ s = con[from][1]
  <2>1. /\ m.h.next[from] = At(from, con[from], 1) /\ Len(con[from]) \in Nat
        /\ Memory!IQUEUE_IS_EMPTY(m.h, from) <=> Len(con[from]) = 0
    BY <1>2, QueueEnds
  <2>2. 1 \in 1..Len(con[from])
    BY <2>1
  <2> QED
    BY <2>1, <2>2 DEF At
<1>5. s \in Segs
  BY <1>3, <1>4
<1> DEFINE con1 == Replaced(con, from, Cutout(con[from], 1))
           con2 == Replaced(con1, to, Spliced(con1[to], Len(con1[to]), s))
<1> HIDE DEF s
<1>6. Linked(h1, con1, {s})
  BY <1>2, <1>4, LinkedDel
<1>7. con1 \in [Memory!Heads -> Seq(Segs)]
  BY <1>6 DEF Linked
<1>8. Len(con1[from]) = Len(con[from]) - 1 /\ \A r \in Memory!Heads : r # from => con1[r] = con[r]
  BY <1>3, <1>4, <1>5, ReplacedLengths
<1> HIDE DEF con1, h1
<1>9. Linked(h2, con2, {})
  BY <1>6, LinkedAddTail
<1>10. Len(con2[to]) = Len(con1[to]) + 1 /\ \A r \in Memory!Heads : r # to => con2[r] = con1[r]
  <2> DEFINE k == Len(con1[to])
  <2>1. k \in 0..Len(con1[to])
    BY <1>7
  <2> HIDE DEF k
  <2>2. LET con3 == Replaced(con1, to, Spliced(con1[to], k, s)) IN
          Len(con3[to]) = Len(con1[to]) + 1 /\ \A r \in Memory!Heads : r # to => con3[r] = con1[r]
    BY <1>5, <1>7, <2>1, ReplacedLengths
  <2> QED
    BY <2>2 DEF k
<1> HIDE DEF con2, h2
<1>11. count2 \in [Memory!Heads -> Nat] /\ \A q \in Memory!Heads : count2[q] = Len(con2[q])
  <2>1. Len(con[from]) \in Nat /\ Len(con[from]) > 0 /\ Len(con[to]) \in Nat
    BY <1>3, <1>4
  <2>2. count2 = [q \in Memory!Heads |-> IF q = from THEN m.count[from] - 1
                                         ELSE IF q = to THEN m.count[to] + 1 ELSE m.count[q]]
    BY <1>1
  <2> HIDE DEF count2
  <2>3. ASSUME NEW q \in Memory!Heads PROVE count2[q] \in Nat /\ count2[q] = Len(con2[q])
    <3>1. CASE q = from
      BY <1>2, <1>8, <1>10, <2>1, <2>2, <3>1
    <3>2. CASE q = to
      BY <1>2, <1>8, <1>10, <2>1, <2>2, <3>2
    <3>3. CASE q # from /\ q # to
      BY <1>1, <1>2, <1>8, <1>10, <2>2, <3>3
    <3> QED
      BY <3>1, <3>2, <3>3
  <2> QED
    BY <2>2, <2>3
<1>12. Memory!MoveFirst(m, from, to) = [h |-> h2, count |-> count2, sn |-> m.sn, nxt |-> m.nxt + 1]
  BY DEF Memory!MoveFirst, h2, h1, s
<1> HIDE DEF count2
<1>13. h2 \in Heap /\ Good(h2, count2)
  BY <1>9, <1>11 DEF Good, Linked
<1>14. [h |-> h2, count |-> count2, sn |-> m.sn, nxt |-> m.nxt + 1] \in Moves
  BY <1>1, <1>11, <1>13 DEF Moves
<1> QED
  BY <1>5, <1>12, <1>14 DEF s

(* The loop of ikcp_flush.                                                 *)
LEMMA MoveOutStepGood ==
  ASSUME Memory!MemoryAssumption, NEW m \in Moves
  PROVE  Memory!MoveOutStep(m) \in Moves
<1> DEFINE s == m.h.next["snd_queue"]
           m1 == [m EXCEPT !.sn = [m.sn EXCEPT ![s] = m.nxt]]
<1>1. "snd_queue" \in Memory!Heads /\ "snd_buf" \in Memory!Heads /\ "snd_queue" # "snd_buf"
  BY DEF Memory!Heads
<1>2. CASE Memory!IQUEUE_IS_EMPTY(m.h, "snd_queue")
  BY <1>2 DEF Memory!MoveOutStep
<1>3. CASE ~Memory!IQUEUE_IS_EMPTY(m.h, "snd_queue")
  <2>1. s \in Segs
    BY <1>1, <1>3, MoveFirstGood
  <2>2. m1 \in Moves /\ m1.h = m.h
    <3> DEFINE e == [m.sn EXCEPT ![s] = m.nxt]
    <3>1. /\ m \in [h : Heap, count : [Memory!Heads -> Nat], sn : [Segs -> Int], nxt : Int]
          /\ Good(m.h, m.count)
      BY DEF Moves
    <3>2. e \in [Segs -> Int]
      BY <2>1, <3>1
    <3>3. m1 = [m EXCEPT !.sn = e]
      OBVIOUS
    <3> HIDE DEF e, m1
    <3>4. /\ m1 \in [h : Heap, count : [Memory!Heads -> Nat], sn : [Segs -> Int], nxt : Int]
          /\ m1.h = m.h /\ m1.count = m.count
      BY <3>1, <3>2, <3>3
    <3> QED
      BY <3>1, <3>4 DEF Moves
  <2>3. Memory!MoveOutStep(m) = Memory!MoveFirst(m1, "snd_queue", "snd_buf")
    BY <1>3 DEF Memory!MoveOutStep
  <2> HIDE DEF m1
  <2>4. Memory!MoveFirst(m1, "snd_queue", "snd_buf") \in Moves
    BY <1>1, <1>3, <2>2, MoveFirstGood
  <2> QED
    BY <2>3, <2>4
<1> QED
  BY <1>2, <1>3

(* The loop of ikcp_flush.                                                 *)
LEMMA MoveOutGood ==
  ASSUME Memory!MemoryAssumption, NEW m \in Moves, NEW end \in Int, end >= m.nxt
  PROVE  Memory!MoveOut(m, end) \in Moves
<1> DEFINE n == end - m.nxt
           S == [i \in 0..n |-> Moves]
           Round(i, x) == Memory!MoveOutStep(x)
           g == [i \in 1..n |-> [x \in S[i - 1] |-> Round(i, x)]]
           Loop(f) == [i \in 0..n |-> IF i = 0 THEN m ELSE Round(i, f[i - 1])]
           F == CHOOSE f : f = Loop(f)
<1>1. n \in Nat
  BY DEF Moves
<1> HIDE DEF n
<1>2. m \in S[0]
  BY <1>1
<1>3. ASSUME NEW i \in 1..n, NEW x \in S[i - 1] PROVE Round(i, x) \in S[i]
  BY <1>1, MoveOutStepGood
<1> HIDE DEF S, Round
<1>4. \A i \in 1..n : \A x \in S[i - 1] : g[i][x] = Round(i, x)
  OBVIOUS
<1>5. IsLoop(n, S, m, g)
  BY <1>2, <1>3, <1>4 DEF IsLoop
<1> HIDE DEF g
<1>6. PICK f : IsTable(n, S, m, g, f)
  BY <1>1, <1>5, Iterated
<1>7. f = Loop(f)
  <2>1. ASSUME NEW i \in 0..n PROVE f[i] = IF i = 0 THEN m ELSE Round(i, f[i - 1])
    <3>1. CASE i = 0
      BY <1>6, <3>1 DEF IsTable
    <3>2. CASE i # 0
      <4>1. i \in 1..n /\ i - 1 \in 0..n
        BY <1>1, <3>2
      <4> QED
        BY <1>4, <1>6, <3>2, <4>1 DEF IsTable
    <3> QED
      BY <3>1, <3>2
  <2>2. f = [i \in 0..n |-> f[i]]
    BY <1>6 DEF IsTable
  <2> QED
    BY <2>1, <2>2
<1>8. F = Loop(F)
  <2> HIDE DEF Loop
  <2> QED
    BY <1>7
<1>9. Memory!MoveOut(m, end) = F[n]
  BY DEF Memory!MoveOut, Round, n
<1> HIDE DEF F
<1>10. F[0] = m /\ \A i \in 1..n : F[i] = Round(i, F[i - 1])
  <2>1. \A i \in 0..n : F[i] = IF i = 0 THEN m ELSE Round(i, F[i - 1])
    BY <1>8
  <2>2. 0 \in 0..n /\ \A i \in 1..n : i \in 0..n /\ i # 0
    BY <1>1
  <2> QED
    BY <2>1, <2>2
<1> HIDE DEF Loop
<1>11. \A i \in 0..n : F[i] \in S[i]
  <2>1. \A i \in 1..n : F[i - 1] \in S[i - 1] => F[i] = g[i][F[i - 1]]
    BY <1>4, <1>10
  <2>2. F[0] = m
    BY <1>10
  <2> HIDE DEF S, Round, n
  <2> QED
    BY <1>1, <1>5, <2>1, <2>2, Follows
<1>12. F[n] \in S[n] /\ n \in 0..n
  BY <1>1, <1>11
<1> QED
  BY <1>9, <1>12 DEF S

(* The loop at the end of ikcp_recv and ikcp_parse_data.                   *)
LEMMA MoveUpStepGood ==
  ASSUME Memory!MemoryAssumption, NEW m \in Moves
  PROVE  Memory!MoveUpStep(m) \in Moves
<1>1. "rcv_buf" \in Memory!Heads /\ "rcv_queue" \in Memory!Heads /\ "rcv_buf" # "rcv_queue"
  BY DEF Memory!Heads
<1> QED
  BY <1>1, MoveFirstGood DEF Memory!MoveUpStep

(* The whole loop.                                                         *)
LEMMA MoveUpGood ==
  ASSUME Memory!MemoryAssumption, NEW m \in Moves
  PROVE  Memory!MoveUp(m) \in Moves
<1> DEFINE n == Memory!Rounds
           S == [i \in 0..n |-> Moves]
           Round(i, x) == Memory!MoveUpStep(x)
           g == [i \in 1..n |-> [x \in S[i - 1] |-> Round(i, x)]]
           Loop(f) == [i \in 0..n |-> IF i = 0 THEN m ELSE Round(i, f[i - 1])]
           F == CHOOSE f : f = Loop(f)
<1>1. n \in Nat
  BY RoundsNat
<1> HIDE DEF n
<1>2. m \in S[0]
  BY <1>1
<1>3. ASSUME NEW i \in 1..n, NEW x \in S[i - 1] PROVE Round(i, x) \in S[i]
  BY <1>1, MoveUpStepGood
<1> HIDE DEF S, Round
<1>4. \A i \in 1..n : \A x \in S[i - 1] : g[i][x] = Round(i, x)
  OBVIOUS
<1>5. IsLoop(n, S, m, g)
  BY <1>2, <1>3, <1>4 DEF IsLoop
<1> HIDE DEF g
<1>6. PICK f : IsTable(n, S, m, g, f)
  BY <1>1, <1>5, Iterated
<1>7. f = Loop(f)
  <2>1. ASSUME NEW i \in 0..n PROVE f[i] = IF i = 0 THEN m ELSE Round(i, f[i - 1])
    <3>1. CASE i = 0
      BY <1>6, <3>1 DEF IsTable
    <3>2. CASE i # 0
      <4>1. i \in 1..n /\ i - 1 \in 0..n
        BY <1>1, <3>2
      <4> QED
        BY <1>4, <1>6, <3>2, <4>1 DEF IsTable
    <3> QED
      BY <3>1, <3>2
  <2>2. f = [i \in 0..n |-> f[i]]
    BY <1>6 DEF IsTable
  <2> QED
    BY <2>1, <2>2
<1>8. F = Loop(F)
  <2> HIDE DEF Loop
  <2> QED
    BY <1>7
<1>9. Memory!MoveUp(m) = F[n]
  BY DEF Memory!MoveUp, Round, n
<1> HIDE DEF F
<1>10. F[0] = m /\ \A i \in 1..n : F[i] = Round(i, F[i - 1])
  <2>1. \A i \in 0..n : F[i] = IF i = 0 THEN m ELSE Round(i, F[i - 1])
    BY <1>8
  <2>2. 0 \in 0..n /\ \A i \in 1..n : i \in 0..n /\ i # 0
    BY <1>1
  <2> QED
    BY <2>1, <2>2
<1> HIDE DEF Loop
<1>11. \A i \in 0..n : F[i] \in S[i]
  BY <1>1, <1>4, <1>5, <1>10, Follows
<1>12. F[n] \in S[n] /\ n \in 0..n
  BY <1>1, <1>11
<1> QED
  BY <1>9, <1>12 DEF S

(* The walk of ikcp_parse_una: it is in the queue, and what it has dropped *)
(* is what the counter is too high.                                        *)
Walks(count) ==
  {m \in [h : Heap, p : Memory!Nodes, dropped : Nat] :
     \E con : /\ Linked(m.h, con, {})
              /\ \E k \in 0..Len(con["snd_buf"]) : m.p = At("snd_buf", con["snd_buf"], k)
              /\ count["snd_buf"] - m.dropped = Len(con["snd_buf"])
              /\ \A q \in Memory!Heads : q # "snd_buf" => count[q] = Len(con[q])}

(* A heap from which d segments of snd_buf are gone that are still counted. *)
Ahead(h, count, d) ==
  \E con : /\ Linked(h, con, {}) /\ count["snd_buf"] - d = Len(con["snd_buf"])
           /\ \A q \in Memory!Heads : q # "snd_buf" => count[q] = Len(con[q])

(* The walk drops the node where it is.                                    *)
LEMMA DropInWalk ==
  ASSUME Memory!MemoryAssumption, NEW count \in [Memory!Heads -> Nat], NEW m \in Walks(count),
         m.p # "snd_buf"
  PROVE  /\ Ahead(Memory!Drop(m.h, m.p), count, m.dropped + 1)
         /\ [h |-> Memory!Drop(m.h, m.p), p |-> m.h.next[m.p], dropped |-> m.dropped + 1] \in Walks(count)
<1>1. m \in [h : Heap, p : Memory!Nodes, dropped : Nat] /\ m.dropped \in Nat
  BY DEF Walks
<1>2. PICK con : /\ Linked(m.h, con, {})
                 /\ \E k \in 0..Len(con["snd_buf"]) : m.p = At("snd_buf", con["snd_buf"], k)
                 /\ count["snd_buf"] - m.dropped = Len(con["snd_buf"])
                 /\ \A q \in Memory!Heads : q # "snd_buf" => count[q] = Len(con[q])
  BY DEF Walks
<1> DEFINE c == con["snd_buf"]
<1>3. PICK k \in 0..Len(c) : m.p = At("snd_buf", c, k)
  BY <1>2
<1>4. "snd_buf" \in Memory!Heads
  BY DEF Memory!Heads
<1>5. /\ c \in Seq(Segs) /\ Ring(m.h.next, m.h.prev, "snd_buf", c)
      /\ "snd_buf" \in Memory!Nodes /\ Segs \subseteq Memory!Nodes
      /\ con \in [Memory!Heads -> Seq(Segs)]
  BY <1>2, <1>4, QueueOf DEF Linked
<1>6. k \in 1..Len(c) /\ m.p = c[k] /\ Len(c) \in Nat
  BY <1>3, <1>5 DEF At
<1>7. m.h.next[m.p] = At("snd_buf", c, k + 1)
  BY <1>3, <1>5 DEF Ring
<1> DEFINE con2 == Replaced(con, "snd_buf", Cutout(con["snd_buf"], k))
           h2 == Memory!Drop(m.h, m.p)
<1>8. Linked(h2, con2, {})
  BY <1>2, <1>4, <1>6, LinkedDrop
<1>9. /\ Len(con2["snd_buf"]) = Len(c) - 1
      /\ \A r \in Memory!Heads : r # "snd_buf" => con2[r] = con[r]
  <2>1. c[k] \in Segs
    BY <1>5, <1>6
  <2> QED
    BY <1>4, <1>5, <1>6, <2>1, ReplacedLengths
<1>10. con2["snd_buf"] = Cutout(c, k)
  BY <1>4, <1>5 DEF Replaced
<1> HIDE DEF c
<1>11. \E j \in 0..Len(con2["snd_buf"]) : At("snd_buf", c, k + 1) = At("snd_buf", con2["snd_buf"], j)
  <2>1. CASE k = Len(c)
    <3>1. At("snd_buf", c, k + 1) = "snd_buf"
      BY <1>6, <2>1 DEF At
    <3>2. At("snd_buf", con2["snd_buf"], 0) = "snd_buf" /\ 0 \in 0..Len(con2["snd_buf"])
      BY <1>6, <1>9 DEF At
    <3> QED
      BY <3>1, <3>2
  <2>2. CASE k # Len(c)
    <3>1. k \in 1..(Len(c) - 1) /\ k \in 1..Len(con2["snd_buf"]) /\ k + 1 \in 1..Len(c) /\ ~(k < k)
          /\ k \in 0..Len(con2["snd_buf"])
      BY <1>6, <1>9, <2>2
    <3>2. con2["snd_buf"][k] = c[k + 1]
      BY <1>5, <1>6, <1>10, <3>1, CutoutProperties
    <3> HIDE DEF con2
    <3>3. At("snd_buf", c, k + 1) = At("snd_buf", con2["snd_buf"], k)
      BY <3>1, <3>2 DEF At
    <3> QED
      BY <3>1, <3>3
  <2> QED
    BY <2>1, <2>2
<1>12. m.h.next[m.p] \in Memory!Nodes
  BY <1>5, <1>7 DEF At
<1> HIDE DEF con2, h2
<1>13. /\ count["snd_buf"] - (m.dropped + 1) = Len(con2["snd_buf"])
       /\ \A q \in Memory!Heads : q # "snd_buf" => count[q] = Len(con2[q])
  <2>1. count["snd_buf"] \in Nat /\ count["snd_buf"] - m.dropped = Len(c)
    BY <1>2, <1>4 DEF c
  <2>2. count["snd_buf"] - (m.dropped + 1) = Len(c) - 1
    BY <1>1, <2>1
  <2> QED
    BY <1>2, <1>9, <2>2
<1>14. h2 \in Heap
  BY <1>8 DEF Linked
<1> DEFINE m2 == [h |-> h2, p |-> m.h.next[m.p], dropped |-> m.dropped + 1]
<1>15. m2 \in [h : Heap, p : Memory!Nodes, dropped : Nat] /\ m2.h = h2 /\ m2.p = m.h.next[m.p]
       /\ m2.dropped = m.dropped + 1
  BY <1>1, <1>12, <1>14
<1> HIDE DEF m2
<1>16. m2 \in Walks(count)
  BY <1>7, <1>8, <1>11, <1>13, <1>15 DEF Walks
<1> QED
  BY <1>8, <1>13, <1>16 DEF h2, m2, Ahead

(* A round of ikcp_parse_una.                                              *)
LEMMA ParseUnaStepGood ==
  ASSUME Memory!MemoryAssumption, NEW count \in [Memory!Heads -> Nat], NEW m \in Walks(count), NEW una
  PROVE  Memory!ParseUnaStep(m, una) \in Walks(count)
BY DropInWalk DEF Memory!ParseUnaStep

(* ikcp_parse_una.                                                         *)
LEMMA ParseUnaGood ==
  ASSUME Memory!MemoryAssumption, NEW h, NEW count \in [Memory!Heads -> Nat], Good(h, count), NEW una
  PROVE  Memory!ikcp_parse_una(h, una) \in Walks(count)
<1> DEFINE n == Memory!Rounds
           m == [h |-> h, p |-> h.next["snd_buf"], dropped |-> 0]
           S == [i \in 0..n |-> Walks(count)]
           Round(i, x) == Memory!ParseUnaStep(x, una)
           g == [i \in 1..n |-> [x \in S[i - 1] |-> Round(i, x)]]
           Loop(f) == [i \in 0..n |-> IF i = 0 THEN m ELSE Round(i, f[i - 1])]
           F == CHOOSE f : f = Loop(f)
<1>1. n \in Nat
  BY RoundsNat
<1> HIDE DEF n
<1>2. m \in S[0]
  <2>1. PICK con : Linked(h, con, {}) /\ \A q \in Memory!Heads : count[q] = Len(con[q])
    BY DEF Good
  <2>2. "snd_buf" \in Memory!Heads
    BY DEF Memory!Heads
  <2>3. h.next["snd_buf"] = At("snd_buf", con["snd_buf"], 1) /\ Len(con["snd_buf"]) \in Nat
    BY <2>1, <2>2, QueueEnds
  <2>4. \E k \in 0..Len(con["snd_buf"]) : h.next["snd_buf"] = At("snd_buf", con["snd_buf"], k)
    <3>1. CASE Len(con["snd_buf"]) = 0
      <4>1. At("snd_buf", con["snd_buf"], 1) = At("snd_buf", con["snd_buf"], 0)
        BY <3>1 DEF At
      <4> QED
        BY <2>3, <4>1
    <3>2. CASE Len(con["snd_buf"]) # 0
      BY <2>3, <3>2
    <3> QED
      BY <3>1, <3>2
  <2>5. h.next["snd_buf"] \in Memory!Nodes
    <3>1. con["snd_buf"] \in Seq(Segs) /\ "snd_buf" \in Memory!Nodes /\ Segs \subseteq Memory!Nodes
      BY <2>1, <2>2, QueueOf
    <3> QED
      BY <2>3, <3>1 DEF At
  <2>6. h \in Heap
    BY <2>1 DEF Linked
  <2>7. m \in [h : Heap, p : Memory!Nodes, dropped : Nat] /\ m.h = h /\ m.p = h.next["snd_buf"] /\ m.dropped = 0
    BY <2>5, <2>6
  <2>8. m \in Walks(count)
    <3> HIDE DEF m
    <3>1. count["snd_buf"] - m.dropped = Len(con["snd_buf"])
      BY <2>1, <2>2, <2>3, <2>7
    <3> QED
      BY <2>1, <2>4, <2>7, <3>1 DEF Walks
  <2> QED
    BY <1>1, <2>8
<1>3. ASSUME NEW i \in 1..n, NEW x \in S[i - 1] PROVE Round(i, x) \in S[i]
  BY <1>1, ParseUnaStepGood
<1> HIDE DEF S, Round
<1>4. \A i \in 1..n : \A x \in S[i - 1] : g[i][x] = Round(i, x)
  OBVIOUS
<1>5. IsLoop(n, S, m, g)
  BY <1>2, <1>3, <1>4 DEF IsLoop
<1> HIDE DEF g
<1>6. PICK f : IsTable(n, S, m, g, f)
  BY <1>1, <1>5, Iterated
<1>7. f = Loop(f)
  <2>1. ASSUME NEW i \in 0..n PROVE f[i] = IF i = 0 THEN m ELSE Round(i, f[i - 1])
    <3>1. CASE i = 0
      BY <1>6, <3>1 DEF IsTable
    <3>2. CASE i # 0
      <4>1. i \in 1..n /\ i - 1 \in 0..n
        BY <1>1, <3>2
      <4> QED
        BY <1>4, <1>6, <3>2, <4>1 DEF IsTable
    <3> QED
      BY <3>1, <3>2
  <2>2. f = [i \in 0..n |-> f[i]]
    BY <1>6 DEF IsTable
  <2> QED
    BY <2>1, <2>2
<1>8. F = Loop(F)
  <2> HIDE DEF Loop
  <2> QED
    BY <1>7
<1>9. Memory!ikcp_parse_una(h, una) = F[n]
  BY DEF Memory!ikcp_parse_una, Round, n
<1> HIDE DEF F
<1>10. F[0] = m /\ \A i \in 1..n : F[i] = Round(i, F[i - 1])
  <2>1. \A i \in 0..n : F[i] = IF i = 0 THEN m ELSE Round(i, F[i - 1])
    BY <1>8
  <2>2. 0 \in 0..n /\ \A i \in 1..n : i \in 0..n /\ i # 0
    BY <1>1
  <2> QED
    BY <2>1, <2>2
<1> HIDE DEF Loop
<1>11. \A i \in 0..n : F[i] \in S[i]
  BY <1>1, <1>4, <1>5, <1>10, Follows
<1>12. F[n] \in S[n] /\ n \in 0..n
  BY <1>1, <1>11
<1> QED
  BY <1>9, <1>12 DEF S

(* The loop of ikcp_send after i rounds.                                   *)
SentUpTo(h, con, ss, i) ==
  {x \in Heap :
     /\ x.live = h.live \cup {ss[j] : j \in 1..i}
     /\ \E con2 : /\ Linked(x, con2, {})
                  /\ Len(con2["snd_queue"]) = Len(con["snd_queue"]) + i
                  /\ \A q \in Memory!Heads : q # "snd_queue" => con2[q] = con[q]}

(* A round of the loop of ikcp_send.                                       *)
LEMMA QueuedStep ==
  ASSUME Memory!MemoryAssumption, NEW h, NEW con, Linked(h, con, {}),
         NEW n \in Nat, NEW ss \in [1..n -> Memory!Free(h)], \A j, k \in 1..n : ss[j] = ss[k] => j = k,
         NEW i \in 1..n, NEW x \in SentUpTo(h, con, ss, i - 1)
  PROVE  Memory!IQUEUE_ADD_TAIL(Memory!ikcp_segment_new(x, ss[i]), ss[i], "snd_queue")
           \in SentUpTo(h, con, ss, i)
<1> DEFINE s == ss[i]
           h1 == Memory!ikcp_segment_new(x, s)
           h2 == Memory!IQUEUE_ADD_TAIL(h1, s, "snd_queue")
<1>1. x \in Heap /\ x.live = h.live \cup {ss[j] : j \in 1..(i - 1)}
  BY DEF SentUpTo
<1>2. PICK con1 : /\ Linked(x, con1, {})
                  /\ Len(con1["snd_queue"]) = Len(con["snd_queue"]) + (i - 1)
                  /\ \A q \in Memory!Heads : q # "snd_queue" => con1[q] = con[q]
  BY DEF SentUpTo
<1>3. s \in Memory!Free(x) /\ s \in Segs
  <2>1. s \in Segs /\ s \notin h.live
    BY DEF Memory!Free
  <2>2. \A j \in 1..(i - 1) : j \in 1..n /\ j # i
    OBVIOUS
  <2>3. \A j \in 1..(i - 1) : ss[j] # s
    BY <2>2
  <2> QED
    BY <1>1, <2>1, <2>3 DEF Memory!Free
<1> DEFINE con2 == Replaced(con1, "snd_queue", Spliced(con1["snd_queue"], Len(con1["snd_queue"]), s))
<1>4. "snd_queue" \in Memory!Heads
  BY DEF Memory!Heads
<1> HIDE DEF s
<1>5. Linked(h1, con1, {s}) /\ h1.live = x.live \cup {s}
  BY <1>2, <1>3, LinkedNew
<1> HIDE DEF h1
<1>6. Linked(h2, con2, {}) /\ h2.live = h1.live
  BY <1>4, <1>5, LinkedAddTail
<1>7. Len(con2["snd_queue"]) = Len(con1["snd_queue"]) + 1
      /\ \A r \in Memory!Heads : r # "snd_queue" => con2[r] = con1[r]
  <2> DEFINE k == Len(con1["snd_queue"])
  <2>1. con1 \in [Memory!Heads -> Seq(Segs)]
    BY <1>2 DEF Linked
  <2>2. k \in 0..Len(con1["snd_queue"])
    BY <1>4, <2>1
  <2> HIDE DEF k
  <2>3. LET con3 == Replaced(con1, "snd_queue", Spliced(con1["snd_queue"], k, s)) IN
          /\ Len(con3["snd_queue"]) = Len(con1["snd_queue"]) + 1
          /\ \A r \in Memory!Heads : r # "snd_queue" => con3[r] = con1[r]
    BY <1>3, <1>4, <2>1, <2>2, ReplacedLengths
  <2> QED
    BY <2>3 DEF k
<1> HIDE DEF con2, h2
<1>8. h2 \in Heap
  BY <1>6 DEF Linked
<1>9. h2.live = h.live \cup {ss[j] : j \in 1..i}
  <2>1. \A j \in 1..i : j \in 1..(i - 1) \/ j = i
    OBVIOUS
  <2>2. \A j \in 1..(i - 1) : j \in 1..i
    OBVIOUS
  <2>3. i \in 1..i
    OBVIOUS
  <2>4. {ss[j] : j \in 1..(i - 1)} \cup {s} = {ss[j] : j \in 1..i}
    BY <2>1, <2>2, <2>3 DEF s
  <2> QED
    BY <1>1, <1>5, <1>6, <2>4
<1>10. Len(con2["snd_queue"]) = Len(con["snd_queue"]) + i
  <2>1. Len(con["snd_queue"]) \in Nat
    BY <1>4, QueueEnds
  <2> QED
    BY <1>2, <1>7, <2>1
<1>11. \A q \in Memory!Heads : q # "snd_queue" => con2[q] = con[q]
  BY <1>2, <1>7
<1>12. h2 \in SentUpTo(h, con, ss, i)
  BY <1>6, <1>8, <1>9, <1>10, <1>11 DEF SentUpTo
<1> QED
  BY <1>12 DEF h2, h1, s

(* The whole loop.                                                         *)
LEMMA QueuedGood ==
  ASSUME Memory!MemoryAssumption, NEW h, NEW con, Linked(h, con, {}),
         NEW k \in Nat, NEW ss \in [1..k -> Memory!Free(h)], \A i, j \in 1..k : ss[i] = ss[j] => i = j
  PROVE  Memory!Queued(h, ss) \in SentUpTo(h, con, ss, k)
<1> DEFINE n == Len(ss)
           S == [i \in 0..n |-> SentUpTo(h, con, ss, i)]
           Round(i, x) == Memory!IQUEUE_ADD_TAIL(Memory!ikcp_segment_new(x, ss[i]), ss[i], "snd_queue")
           g == [i \in 1..n |-> [x \in S[i - 1] |-> Round(i, x)]]
           Loop(f) == [i \in 0..n |-> IF i = 0 THEN h ELSE Round(i, f[i - 1])]
           F == CHOOSE f : f = Loop(f)
<1>1. n \in Nat
  OBVIOUS
<1> HIDE DEF n
<1>2. h \in S[0]
  <2>1. h \in Heap /\ {ss[j] : j \in 1..0} = {}
    BY DEF Linked
  <2>2. Len(con["snd_queue"]) = Len(con["snd_queue"]) + 0
    <3>1. "snd_queue" \in Memory!Heads
      BY DEF Memory!Heads
    <3>2. Len(con["snd_queue"]) \in Nat
      BY <3>1, QueueEnds
    <3> QED
      BY <3>2
  <2>3. h.live = h.live \cup {ss[j] : j \in 1..0}
    BY <2>1
  <2>4. h \in SentUpTo(h, con, ss, 0)
    BY <2>1, <2>2, <2>3 DEF SentUpTo
  <2> QED
    BY <1>1, <2>4
<1>3. ASSUME NEW i \in 1..n, NEW x \in S[i - 1] PROVE Round(i, x) \in S[i]
  <2>1. n = k
    BY DEF n
  <2>2. i \in 1..k /\ x \in SentUpTo(h, con, ss, i - 1)
    BY <1>1, <2>1
  <2>3. Round(i, x) \in SentUpTo(h, con, ss, i)
    BY <2>2, QueuedStep
  <2> QED
    BY <1>1, <2>3
<1> HIDE DEF S, Round
<1>4. \A i \in 1..n : \A x \in S[i - 1] : g[i][x] = Round(i, x)
  OBVIOUS
<1>5. IsLoop(n, S, h, g)
  BY <1>2, <1>3, <1>4 DEF IsLoop
<1> HIDE DEF g
<1>6. PICK f : IsTable(n, S, h, g, f)
  BY <1>1, <1>5, Iterated
<1>7. f = Loop(f)
  <2>1. ASSUME NEW i \in 0..n PROVE f[i] = IF i = 0 THEN h ELSE Round(i, f[i - 1])
    <3>1. CASE i = 0
      BY <1>6, <3>1 DEF IsTable
    <3>2. CASE i # 0
      <4>1. i \in 1..n /\ i - 1 \in 0..n
        BY <1>1, <3>2
      <4> QED
        BY <1>4, <1>6, <3>2, <4>1 DEF IsTable
    <3> QED
      BY <3>1, <3>2
  <2>2. f = [i \in 0..n |-> f[i]]
    BY <1>6 DEF IsTable
  <2> QED
    BY <2>1, <2>2
<1>8. F = Loop(F)
  <2> HIDE DEF Loop
  <2> QED
    BY <1>7
<1>9. Memory!Queued(h, ss) = F[n]
  BY DEF Memory!Queued, Round, n
<1> HIDE DEF F
<1>10. F[0] = h /\ \A i \in 1..n : F[i] = Round(i, F[i - 1])
  <2>1. \A i \in 0..n : F[i] = IF i = 0 THEN h ELSE Round(i, F[i - 1])
    BY <1>8
  <2>2. 0 \in 0..n /\ \A i \in 1..n : i \in 0..n /\ i # 0
    BY <1>1
  <2> QED
    BY <2>1, <2>2
<1> HIDE DEF Loop
<1>11. \A i \in 0..n : F[i] \in S[i]
  BY <1>1, <1>4, <1>5, <1>10, Follows
<1>12. F[n] \in S[n] /\ n \in 0..n
  BY <1>1, <1>11
<1> QED
  <2>1. n = k
    BY DEF n
  <2> QED
    BY <1>9, <1>12, <2>1 DEF S

(* Queue q after i rounds of DropFirst.                                    *)
LeftAfter(con, q, i) ==
  {x \in Heap : \E con2 : /\ Linked(x, con2, {})
                          /\ Len(con2[q]) = IF i =< Len(con[q]) THEN Len(con[q]) - i ELSE 0
                          /\ \A r \in Memory!Heads : r # q => con2[r] = con[r]}

(* A round of DropFirst.                                                   *)
LEMMA DropStepGood ==
  ASSUME Memory!MemoryAssumption, NEW con \in [Memory!Heads -> Seq(Segs)], NEW q \in Memory!Heads,
         NEW i \in Nat \ {0}, NEW x \in LeftAfter(con, q, i - 1)
  PROVE  Memory!DropStep(x, q) \in LeftAfter(con, q, i)
<1>1. PICK con1 : /\ Linked(x, con1, {})
                  /\ Len(con1[q]) = IF i - 1 =< Len(con[q]) THEN Len(con[q]) - (i - 1) ELSE 0
                  /\ \A r \in Memory!Heads : r # q => con1[r] = con[r]
  BY DEF LeftAfter
<1>2. /\ x.next[q] = At(q, con1[q], 1) /\ Len(con1[q]) \in Nat
      /\ Memory!IQUEUE_IS_EMPTY(x, q) <=> Len(con1[q]) = 0
  BY <1>1, QueueEnds
<1>3. Len(con[q]) \in Nat /\ x \in Heap /\ con1 \in [Memory!Heads -> Seq(Segs)]
  BY <1>1 DEF Linked
<1>4. CASE Memory!IQUEUE_IS_EMPTY(x, q)
  <2>1. Memory!DropStep(x, q) = x
    BY <1>4 DEF Memory!DropStep
  <2>2. Len(con1[q]) = IF i =< Len(con[q]) THEN Len(con[q]) - i ELSE 0
    <3>1. ~(i =< Len(con[q]))
      BY <1>1, <1>2, <1>3, <1>4
    <3> QED
      BY <1>2, <1>4, <3>1
  <2> QED
    BY <1>1, <1>3, <2>1, <2>2 DEF LeftAfter
<1>5. CASE ~Memory!IQUEUE_IS_EMPTY(x, q)
  <2> DEFINE con2 == Replaced(con1, q, Cutout(con1[q], 1))
             h2 == Memory!Drop(x, x.next[q])
  <2>1. 1 \in 1..Len(con1[q])
    BY <1>2, <1>5
  <2>2. x.next[q] = con1[q][1] /\ con1[q][1] \in Segs
    BY <1>2, <1>3, <2>1 DEF At
  <2>3. Linked(h2, con2, {})
    BY <1>1, <2>1, <2>2, LinkedDrop
  <2>4. Len(con2[q]) = Len(con1[q]) - 1 /\ \A r \in Memory!Heads : r # q => con2[r] = con1[r]
    BY <1>3, <2>1, <2>2, ReplacedLengths
  <2>5. Memory!DropStep(x, q) = h2
    BY <1>5 DEF Memory!DropStep
  <2> HIDE DEF con2, h2
  <2>6. Len(con2[q]) = IF i =< Len(con[q]) THEN Len(con[q]) - i ELSE 0
    BY <1>1, <1>2, <1>3, <1>5, <2>4
  <2>7. \A r \in Memory!Heads : r # q => con2[r] = con[r]
    BY <1>1, <2>4
  <2>8. h2 \in Heap
    BY <2>3 DEF Linked
  <2> QED
    BY <2>3, <2>5, <2>6, <2>7, <2>8 DEF LeftAfter
<1> QED
  BY <1>4, <1>5

(* The whole loop.                                                         *)
LEMMA DropFirstGood ==
  ASSUME Memory!MemoryAssumption, NEW h, NEW con, Linked(h, con, {}), NEW q \in Memory!Heads,
         NEW k \in Nat
  PROVE  Memory!DropFirst(h, q, k) \in LeftAfter(con, q, k)
<1> DEFINE n == k
           S == [i \in 0..n |-> LeftAfter(con, q, i)]
           Round(i, x) == Memory!DropStep(x, q)
           g == [i \in 1..n |-> [x \in S[i - 1] |-> Round(i, x)]]
           Loop(f) == [i \in 0..n |-> IF i = 0 THEN h ELSE Round(i, f[i - 1])]
           F == CHOOSE f : f = Loop(f)
<1>1. n \in Nat
  OBVIOUS
<1> HIDE DEF n
<1>2. h \in S[0]
  <2>1. h \in Heap /\ Len(con[q]) \in Nat
    BY QueueEnds DEF Linked
  <2>2. Len(con[q]) = IF 0 =< Len(con[q]) THEN Len(con[q]) - 0 ELSE 0
    BY <2>1
  <2>3. h \in LeftAfter(con, q, 0)
    BY <2>1, <2>2 DEF LeftAfter
  <2> QED
    BY <1>1, <2>3
<1>3. ASSUME NEW i \in 1..n, NEW x \in S[i - 1] PROVE Round(i, x) \in S[i]
  <2>1. con \in [Memory!Heads -> Seq(Segs)] /\ i \in Nat \ {0} /\ x \in LeftAfter(con, q, i - 1)
    BY <1>1 DEF Linked
  <2>2. Round(i, x) \in LeftAfter(con, q, i)
    BY <2>1, DropStepGood
  <2> QED
    BY <1>1, <2>2
<1> HIDE DEF S, Round
<1>4. \A i \in 1..n : \A x \in S[i - 1] : g[i][x] = Round(i, x)
  OBVIOUS
<1>5. IsLoop(n, S, h, g)
  BY <1>2, <1>3, <1>4 DEF IsLoop
<1> HIDE DEF g
<1>6. PICK f : IsTable(n, S, h, g, f)
  BY <1>1, <1>5, Iterated
<1>7. f = Loop(f)
  <2>1. ASSUME NEW i \in 0..n PROVE f[i] = IF i = 0 THEN h ELSE Round(i, f[i - 1])
    <3>1. CASE i = 0
      BY <1>6, <3>1 DEF IsTable
    <3>2. CASE i # 0
      <4>1. i \in 1..n /\ i - 1 \in 0..n
        BY <1>1, <3>2
      <4> QED
        BY <1>4, <1>6, <3>2, <4>1 DEF IsTable
    <3> QED
      BY <3>1, <3>2
  <2>2. f = [i \in 0..n |-> f[i]]
    BY <1>6 DEF IsTable
  <2> QED
    BY <2>1, <2>2
<1>8. F = Loop(F)
  <2> HIDE DEF Loop
  <2> QED
    BY <1>7
<1>9. Memory!DropFirst(h, q, k) = F[n]
  BY DEF Memory!DropFirst, Round, n
<1> HIDE DEF F
<1>10. F[0] = h /\ \A i \in 1..n : F[i] = Round(i, F[i - 1])
  <2>1. \A i \in 0..n : F[i] = IF i = 0 THEN h ELSE Round(i, F[i - 1])
    BY <1>8
  <2>2. 0 \in 0..n /\ \A i \in 1..n : i \in 0..n /\ i # 0
    BY <1>1
  <2> QED
    BY <2>1, <2>2
<1> HIDE DEF Loop
<1>11. \A i \in 0..n : F[i] \in S[i]
  BY <1>1, <1>4, <1>5, <1>10, Follows
<1>12. F[n] \in S[n] /\ n \in 0..n
  BY <1>1, <1>11
<1> QED
  BY <1>9, <1>12 DEF S, n

(* No queue has more nodes than there are segments.                        *)
LEMMA QueueShort ==
  ASSUME Memory!MemoryAssumption, NEW h, NEW con, Linked(h, con, {}), NEW q \in Memory!Heads
  PROVE  Len(con[q]) =< Memory!Rounds
<1> DEFINE c == con[q]
           n == Len(c)
<1>1. c \in Seq(Segs) /\ Distinct(c)
  BY QueueOf
<1>2. n \in Nat /\ c \in [1..n -> Segs]
  BY <1>1
<1>3. IsFiniteSet(1..n) /\ Cardinality(1..n) = n
  <2> HIDE DEF n
  <2>1. IsFiniteSet(1..n) /\ Cardinality(1..n) = IF 1 > n THEN 0 ELSE n - 1 + 1
    BY <1>2, FS_Interval
  <2> QED
    BY <1>2, <2>1
<1>4. IsFiniteSet(Segs) /\ Memory!Rounds = Cardinality(Segs) /\ Memory!Rounds \in Nat
  BY RoundsNat
<1>5. ~(Cardinality(Segs) < Cardinality(1..n))
  <2>1. ~\E i, j \in 1..n : i # j /\ c[i] = c[j]
    BY <1>1 DEF Distinct
  <2> HIDE DEF c, n
  <2> QED
    BY <1>2, <1>3, <1>4, <2>1, FS_PigeonHole
<1> QED
  BY <1>2, <1>3, <1>4, <1>5

-----------------------------------------------------------------------------
(* The operations.                                                         *)

(* The counter catches up.                                                 *)
LEMMA AheadGood ==
  ASSUME NEW h, NEW count \in [Memory!Heads -> Nat], NEW d \in Nat, Ahead(h, count, d),
         NEW count2, count2 = [count EXCEPT !["snd_buf"] = @ - d]
  PROVE  count2 \in [Memory!Heads -> Nat] /\ Good(h, count2)
<1>1. PICK con : /\ Linked(h, con, {}) /\ count["snd_buf"] - d = Len(con["snd_buf"])
                 /\ \A q \in Memory!Heads : q # "snd_buf" => count[q] = Len(con[q])
  BY DEF Ahead
<1>2. con \in [Memory!Heads -> Seq(Segs)] /\ "snd_buf" \in Memory!Heads
  BY <1>1 DEF Linked, Memory!Heads
<1>3. Len(con["snd_buf"]) \in Nat
  BY <1>2
<1>4. count2 \in [Memory!Heads -> Nat] /\ \A q \in Memory!Heads : count2[q] = Len(con[q])
  BY <1>1, <1>2, <1>3
<1> QED
  BY <1>1, <1>4 DEF Good

(* What ikcp_parse_una leaves.                                             *)
LEMMA WalkAhead ==
  ASSUME NEW count \in [Memory!Heads -> Nat], NEW m \in Walks(count)
  PROVE  m.dropped \in Nat /\ Ahead(m.h, count, m.dropped)
BY DEF Walks, Ahead

(* ikcp_parse_ack.                                                         *)
LEMMA ParseAckGood ==
  ASSUME Memory!MemoryAssumption, NEW count \in [Memory!Heads -> Nat], NEW m \in Walks(count), NEW n,
         NEW m2, m2 = Memory!ikcp_parse_ack(m, n),
         NEW count2, count2 = [count EXCEPT !["snd_buf"] = @ - m2.dropped]
  PROVE  count2 \in [Memory!Heads -> Nat] /\ Good(m2.h, count2)
<1>0. SUFFICES m2.dropped \in Nat /\ Ahead(m2.h, count, m2.dropped)
  <2> DEFINE d == m2.dropped
             h2 == m2.h
  <2>1. count2 = [count EXCEPT !["snd_buf"] = @ - d]
    OBVIOUS
  <2> HIDE DEF d, h2
  <2>2. d \in Nat /\ Ahead(h2, count, d) => count2 \in [Memory!Heads -> Nat] /\ Good(h2, count2)
    BY <2>1, AheadGood
  <2> QED
    BY <2>2 DEF d, h2
<1> DEFINE stop == {"snd_buf"} \cup {s \in Segs : seg_sn[s] = n}
           p == Memory!Reach(m.h.next, m.h.next["snd_buf"], stop)
<1>1. m \in [h : Heap, p : Memory!Nodes, dropped : Nat] /\ m.dropped \in Nat
  BY DEF Walks
<1>2. PICK con : /\ Linked(m.h, con, {})
                 /\ count["snd_buf"] - m.dropped = Len(con["snd_buf"])
                 /\ \A q \in Memory!Heads : q # "snd_buf" => count[q] = Len(con[q])
  BY DEF Walks
<1> DEFINE c == con["snd_buf"]
           Z == {At("snd_buf", c, k) : k \in 0..Len(c)}
<1>3. "snd_buf" \in Memory!Heads
  BY DEF Memory!Heads
<1>4. /\ c \in Seq(Segs) /\ Ring(m.h.next, m.h.prev, "snd_buf", c) /\ Len(c) \in Nat
      /\ "snd_buf" \in Memory!Nodes /\ Segs \subseteq Memory!Nodes
  BY <1>2, <1>3, QueueOf, QueueEnds
<1>5. At("snd_buf", c, 0) = "snd_buf" /\ At("snd_buf", c, Len(c) + 1) = "snd_buf"
  BY <1>4 DEF At
<1>6. ASSUME NEW y \in Z PROVE m.h.next[y] \in Z
  <2>1. PICK k \in 0..Len(c) : y = At("snd_buf", c, k)
    OBVIOUS
  <2>2. m.h.next[y] = At("snd_buf", c, k + 1)
    BY <1>4, <2>1 DEF Ring
  <2>3. CASE k = Len(c)
    <3>1. m.h.next[y] = At("snd_buf", c, 0) /\ 0 \in 0..Len(c)
      BY <1>4, <1>5, <2>2, <2>3
    <3> QED
      BY <3>1
  <2>4. CASE k # Len(c)
    <3>1. k + 1 \in 0..Len(c)
      BY <1>4, <2>4
    <3> QED
      BY <2>2, <3>1
  <2> QED
    BY <2>3, <2>4
<1>7. "snd_buf" \in Z
  BY <1>4, <1>5
<1> HIDE DEF Z
<1>8. p \in Z
  <2>1. m.h.next["snd_buf"] \in Z /\ \A y \in Z : y \in stop \/ m.h.next[y] \in Z
    BY <1>6, <1>7
  <2> HIDE DEF stop
  <2> QED
    BY <2>1, ReachStays
<1>9. m2 = IF n < Memory!ikcp_shrink_buf(m.h) \/ n >= queue_nxt \/ p = "snd_buf" THEN m
           ELSE [h |-> Memory!Drop(m.h, p), p |-> p, dropped |-> m.dropped + 1]
  BY DEF Memory!ikcp_parse_ack
<1> HIDE DEF p
<1>10. CASE m2 = m
  BY <1>10, WalkAhead
<1>11. CASE p # "snd_buf" /\ m2 = [h |-> Memory!Drop(m.h, p), p |-> p, dropped |-> m.dropped + 1]
  <2> DEFINE m1 == [h |-> m.h, p |-> p, dropped |-> m.dropped]
  <2>1. p \in Memory!Nodes /\ \E k \in 0..Len(c) : p = At("snd_buf", c, k)
    BY <1>4, <1>8 DEF Z, At
  <2>2. m1 \in [h : Heap, p : Memory!Nodes, dropped : Nat] /\ m1.h = m.h /\ m1.p = p /\ m1.dropped = m.dropped
    BY <1>1, <2>1
  <2> HIDE DEF m1
  <2>3. m1 \in Walks(count)
    BY <1>2, <2>1, <2>2 DEF Walks
  <2>4. m1.p # "snd_buf"
    BY <1>11, <2>2
  <2>5. Ahead(Memory!Drop(m1.h, m1.p), count, m1.dropped + 1)
    BY <2>3, <2>4, DropInWalk
  <2>6. m2.h = Memory!Drop(m1.h, m1.p) /\ m2.dropped = m1.dropped + 1 /\ m2.dropped \in Nat
    BY <1>1, <1>11, <2>2
  <2> QED
    BY <2>5, <2>6
<1> QED
  BY <1>9, <1>10, <1>11

(* Where ikcp_parse_data links a segment in.                               *)
LEMMA InsertAfterPlace ==
  ASSUME Memory!MemoryAssumption, NEW h, NEW con, NEW out, Linked(h, con, out), NEW n
  PROVE  \E k \in 0..Len(con["rcv_buf"]) : Memory!InsertAfter(h, n) = At("rcv_buf", con["rcv_buf"], k)
<1> DEFINE c == con["rcv_buf"]
           Z == {At("rcv_buf", c, k) : k \in 0..Len(c)}
           stop == {"rcv_buf"} \cup {s \in Segs : seg_sn[s] =< n}
<1>1. "rcv_buf" \in Memory!Heads
  BY DEF Memory!Heads
<1>2. /\ c \in Seq(Segs) /\ Ring(h.next, h.prev, "rcv_buf", c) /\ Len(c) \in Nat
      /\ h.prev["rcv_buf"] = At("rcv_buf", c, Len(c))
  BY <1>1, QueueOf, QueueEnds
<1>3. At("rcv_buf", c, 0) = "rcv_buf"
  BY <1>2 DEF At
<1>4. ASSUME NEW y \in Z PROVE y \in stop \/ h.prev[y] \in Z
  <2>1. PICK k \in 0..Len(c) : y = At("rcv_buf", c, k)
    OBVIOUS
  <2>2. CASE k = 0
    BY <1>3, <2>1, <2>2
  <2>3. CASE k # 0
    <3>1. k - 1 \in 0..Len(c) /\ (k - 1) + 1 = k
      BY <1>2, <2>3
    <3>2. h.prev[y] = At("rcv_buf", c, k - 1)
      BY <1>2, <2>1, <3>1 DEF Ring
    <3> QED
      BY <3>1, <3>2
  <2> QED
    BY <2>2, <2>3
<1>5. h.prev["rcv_buf"] \in Z
  BY <1>2
<1>6. Memory!InsertAfter(h, n) = Memory!Reach(h.prev, h.prev["rcv_buf"], stop)
  BY DEF Memory!InsertAfter
<1> HIDE DEF Z, stop
<1>7. Memory!Reach(h.prev, h.prev["rcv_buf"], stop) \in Z
  BY <1>4, <1>5, ReachStays
<1> QED
  BY <1>6, <1>7 DEF Z

(* The invariant.                                                          *)
MemInv ==
  /\ seg_count \in [Memory!Heads -> Nat] /\ seg_sn \in [Segs -> Int]
  /\ queue_nxt \in Int /\ unqueue_nxt \in Int /\ rcv_wnd \in Int
  /\ Good(heap, seg_count)

(* A new control block has four empty queues.                              *)
LEMMA MemInit ==
  ASSUME Memory!MemoryAssumption, Memory!Init
  PROVE  MemInv
<1> DEFINE con == [q \in Memory!Heads |-> << >>]
           link == [n \in Memory!Nodes |-> IF n \in Memory!Heads THEN n ELSE NULL]
<1>1. con \in [Memory!Heads -> Seq(Segs)] /\ \A q \in Memory!Heads : con[q] = << >> /\ Len(con[q]) = 0
  OBVIOUS
<1>2. Apart(con) /\ Members(con) = {}
  BY <1>1 DEF Apart, Members
<1>3. link \in Links /\ \A q \in Memory!Heads : link[q] = q
  BY DEF Links, Memory!Nodes
<1>4. heap = [next |-> link, prev |-> link, live |-> {}]
  BY DEF Memory!Init
<1> HIDE DEF con, link
<1>5. heap \in Heap /\ heap.next = link /\ heap.prev = link /\ heap.live = {}
  BY <1>3, <1>4 DEF Heap
<1>6. ASSUME NEW q \in Memory!Heads PROVE Ring(heap.next, heap.prev, q, con[q])
  <2>1. \A i : At(q, con[q], i) = q
    BY <1>1 DEF At
  <2> QED
    BY <1>3, <1>5, <2>1 DEF Ring
<1>7. Linked(heap, con, {})
  BY <1>1, <1>2, <1>5, <1>6 DEF Linked
<1>8. seg_count = [q \in Memory!Heads |-> 0] /\ seg_sn = [s \in Segs |-> 0]
      /\ queue_nxt = 0 /\ unqueue_nxt = 0 /\ rcv_wnd \in Windows
  BY DEF Memory!Init
<1>9. rcv_wnd \in Int
  BY <1>8 DEF Memory!MemoryAssumption
<1>10. Good(heap, seg_count)
  BY <1>1, <1>7, <1>8 DEF Good
<1> QED
  BY <1>8, <1>9, <1>10 DEF MemInv

(* ikcp_send keeps the invariant.                                          *)
LEMMA SendGood ==
  ASSUME Memory!MemoryAssumption, MemInv, Memory!ikcp_send
  PROVE  MemInv'
<1>1. PICK n \in 1..MaxFrags : \E ss \in [1..n -> Memory!Free(heap)] :
             /\ Memory!IsInjective(ss)
             /\ heap' = Memory!Queued(heap, ss)
             /\ seg_count' = [seg_count EXCEPT !["snd_queue"] = @ + n]
  BY DEF Memory!ikcp_send
<1>2. PICK ss \in [1..n -> Memory!Free(heap)] :
             /\ Memory!IsInjective(ss)
             /\ heap' = Memory!Queued(heap, ss)
             /\ seg_count' = [seg_count EXCEPT !["snd_queue"] = @ + n]
  BY <1>1
<1>3. n \in Nat
  BY DEF Memory!MemoryAssumption
<1>4. \A i, j \in 1..n : ss[i] = ss[j] => i = j
  BY <1>2 DEF Memory!IsInjective
<1>5. PICK con : Linked(heap, con, {}) /\ \A q \in Memory!Heads : seg_count[q] = Len(con[q])
  BY DEF MemInv, Good
<1>6. heap' \in SentUpTo(heap, con, ss, n)
  BY <1>2, <1>3, <1>4, <1>5, QueuedGood
<1>7. PICK con2 : /\ Linked(heap', con2, {})
                  /\ Len(con2["snd_queue"]) = Len(con["snd_queue"]) + n
                  /\ \A q \in Memory!Heads : q # "snd_queue" => con2[q] = con[q]
  BY <1>6 DEF SentUpTo
<1>8. "snd_queue" \in Memory!Heads /\ seg_count \in [Memory!Heads -> Nat]
  BY DEF Memory!Heads, MemInv
<1>9. seg_count' \in [Memory!Heads -> Nat] /\ \A q \in Memory!Heads : seg_count'[q] = Len(con2[q])
  BY <1>2, <1>3, <1>5, <1>7, <1>8
<1>10. Good(heap', seg_count')
  BY <1>7, <1>9 DEF Good
<1> QED
  BY <1>9, <1>10 DEF MemInv, Memory!ikcp_send

(* What a move leaves for the variables.                                   *)
LEMMA MovedGood ==
  ASSUME NEW m \in Moves
  PROVE  /\ m.count \in [Memory!Heads -> Nat] /\ m.sn \in [Segs -> Int] /\ m.nxt \in Int
         /\ Good(m.h, m.count)
BY DEF Moves

(* What a move starts from.                                                *)
LEMMA MovesOf ==
  ASSUME NEW h, NEW count \in [Memory!Heads -> Nat], NEW nums \in [Segs -> Int], NEW nxt \in Int,
         Good(h, count), NEW m, m = [h |-> h, count |-> count, sn |-> nums, nxt |-> nxt]
  PROVE  m \in Moves
<1>1. h \in Heap
  BY DEF Good, Linked
<1>2. m \in [h : Heap, count : [Memory!Heads -> Nat], sn : [Segs -> Int], nxt : Int]
      /\ m.h = h /\ m.count = count
  BY <1>1
<1> QED
  BY <1>2 DEF Moves

(* ikcp_flush keeps the invariant.                                         *)
LEMMA FlushGood ==
  ASSUME Memory!MemoryAssumption, MemInv, Memory!ikcp_flush
  PROVE  MemInv'
<1> DEFINE m0 == [h |-> heap, count |-> seg_count, sn |-> seg_sn, nxt |-> queue_nxt]
<1>1. PICK end \in queue_nxt..MaxSnd :
        LET m == Memory!MoveOut(m0, end)
        IN heap' = m.h /\ seg_count' = m.count /\ seg_sn' = m.sn /\ queue_nxt' = m.nxt
  BY DEF Memory!ikcp_flush
<1>2. m0 \in Moves /\ m0.nxt = queue_nxt
  BY MovesOf DEF MemInv
<1>3. end \in Int /\ end >= m0.nxt
  BY <1>2 DEF MemInv, Memory!MemoryAssumption
<1> HIDE DEF m0
<1>4. Memory!MoveOut(m0, end) \in Moves
  BY <1>2, <1>3, MoveOutGood
<1>5. seg_count' \in [Memory!Heads -> Nat] /\ seg_sn' \in [Segs -> Int] /\ queue_nxt' \in Int
      /\ Good(heap', seg_count')
  BY <1>1, <1>4, MovedGood
<1> QED
  BY <1>5 DEF MemInv, Memory!ikcp_flush

(* ikcp_input with an acknowledgement keeps the invariant.                 *)
LEMMA AcknowledgeGood ==
  ASSUME Memory!MemoryAssumption, MemInv, Memory!Acknowledge
  PROVE  MemInv'
<1>1. PICK una \in 0..queue_nxt, n \in 0..queue_nxt :
        LET m == Memory!ikcp_parse_ack(Memory!ikcp_parse_una(heap, una), n)
        IN heap' = m.h /\ seg_count' = [seg_count EXCEPT !["snd_buf"] = @ - m.dropped]
  BY DEF Memory!Acknowledge
<1> DEFINE m1 == Memory!ikcp_parse_una(heap, una)
           m2 == Memory!ikcp_parse_ack(m1, n)
<1>2. heap' = m2.h /\ seg_count' = [seg_count EXCEPT !["snd_buf"] = @ - m2.dropped]
  BY <1>1
<1>3. m1 \in Walks(seg_count)
  BY ParseUnaGood DEF MemInv
<1> HIDE DEF m1
<1>4. m2 = Memory!ikcp_parse_ack(m1, n) /\ seg_count \in [Memory!Heads -> Nat]
  BY DEF MemInv
<1> HIDE DEF m2
<1>5. seg_count' \in [Memory!Heads -> Nat] /\ Good(m2.h, seg_count')
  BY <1>2, <1>3, <1>4, ParseAckGood
<1> QED
  BY <1>2, <1>5 DEF MemInv, Memory!Acknowledge

(* ikcp_parse_data: the segment is linked in or freed.                     *)
LEMMA ParseDataGood ==
  ASSUME Memory!MemoryAssumption, MemInv, NEW h1, NEW count1 \in [Memory!Heads -> Nat], Good(h1, count1),
         NEW s \in Memory!Free(h1), NEW n \in Int, Memory!ikcp_parse_data(h1, count1, s, n)
  PROVE  /\ seg_count' \in [Memory!Heads -> Nat] /\ seg_sn' \in [Segs -> Int] /\ unqueue_nxt' \in Int
         /\ Good(heap', seg_count')
<1> DEFINE h == Memory!ikcp_segment_new(h1, s)
           p == Memory!InsertAfter(h, n)
           h2 == Memory!IQUEUE_ADD(h, s, p)
           count2 == [count1 EXCEPT !["rcv_buf"] = @ + 1]
           sn2 == [seg_sn EXCEPT ![s] = n]
           h3 == Memory!ikcp_segment_delete(h, s)
           new == [h |-> h2, count |-> count2, sn |-> sn2, nxt |-> unqueue_nxt]
           old == [h |-> h3, count |-> count1, sn |-> seg_sn, nxt |-> unqueue_nxt]
           m0 == IF p # "rcv_buf" /\ seg_sn[p] = n THEN old ELSE new
           m == Memory!MoveUp(m0)
<1>1. heap' = m.h /\ seg_count' = m.count /\ unqueue_nxt' = m.nxt /\ seg_sn' = m.sn
  BY DEF Memory!ikcp_parse_data
<1>2. PICK con : Linked(h1, con, {}) /\ \A q \in Memory!Heads : count1[q] = Len(con[q])
  BY DEF Good
<1>3. s \in Segs /\ "rcv_buf" \in Memory!Heads /\ con \in [Memory!Heads -> Seq(Segs)]
  BY <1>2 DEF Memory!Free, Memory!Heads, Linked
<1>4. Linked(h, con, {s})
  BY <1>2, LinkedNew
<1> HIDE DEF h
<1>5. PICK k \in 0..Len(con["rcv_buf"]) : p = At("rcv_buf", con["rcv_buf"], k)
  BY <1>4, InsertAfterPlace
<1> DEFINE con2 == Replaced(con, "rcv_buf", Spliced(con["rcv_buf"], k, s))
<1> HIDE DEF p
<1>6. Linked(h2, con2, {})
  BY <1>3, <1>4, <1>5, LinkedAdd
<1>7. Len(con2["rcv_buf"]) = Len(con["rcv_buf"]) + 1
      /\ \A r \in Memory!Heads : r # "rcv_buf" => con2[r] = con[r]
  BY <1>3, ReplacedLengths
<1>8. Linked(h3, con, {})
  BY <1>4, LinkedDelete
<1> HIDE DEF h2, h3, con2
<1>9. count2 \in [Memory!Heads -> Nat] /\ \A q \in Memory!Heads : count2[q] = Len(con2[q])
  BY <1>2, <1>3, <1>7
<1>10. sn2 \in [Segs -> Int] /\ seg_sn \in [Segs -> Int] /\ unqueue_nxt \in Int
  BY <1>3 DEF MemInv
<1>11. Good(h2, count2) /\ Good(h3, count1)
  BY <1>2, <1>6, <1>8, <1>9 DEF Good
<1> HIDE DEF count2, sn2
<1>12. new \in Moves /\ old \in Moves
  BY <1>9, <1>10, <1>11, MovesOf
<1> HIDE DEF new, old
<1>13. m0 \in Moves
  BY <1>12
<1> HIDE DEF m0
<1>14. m \in Moves
  BY <1>13, MoveUpGood
<1> QED
  BY <1>1, <1>14, MovedGood

(* ikcp_input with data keeps the invariant.                               *)
LEMMA DataGood ==
  ASSUME Memory!MemoryAssumption, MemInv, Memory!Data
  PROVE  MemInv'
<1>1. PICK una \in 0..queue_nxt, n \in unqueue_nxt..(unqueue_nxt + rcv_wnd - 1) :
        LET m == Memory!ikcp_parse_una(heap, una)
        IN \E s \in Memory!Free(m.h) :
             Memory!ikcp_parse_data(m.h, [seg_count EXCEPT !["snd_buf"] = @ - m.dropped], s, n)
  BY DEF Memory!Data
<1> DEFINE m == Memory!ikcp_parse_una(heap, una)
           h1 == m.h
           count1 == [seg_count EXCEPT !["snd_buf"] = @ - m.dropped]
<1>2. PICK s \in Memory!Free(h1) : Memory!ikcp_parse_data(h1, count1, s, n)
  BY <1>1
<1>3. m \in Walks(seg_count) /\ seg_count \in [Memory!Heads -> Nat]
  BY ParseUnaGood DEF MemInv
<1> HIDE DEF m
<1>4. m.dropped \in Nat /\ Ahead(h1, seg_count, m.dropped)
  BY <1>3, WalkAhead
<1> HIDE DEF h1
<1>5. count1 \in [Memory!Heads -> Nat] /\ Good(h1, count1)
  BY <1>3, <1>4, AheadGood
<1>6. n \in Int
  BY DEF MemInv
<1> HIDE DEF count1
<1>7. /\ seg_count' \in [Memory!Heads -> Nat] /\ seg_sn' \in [Segs -> Int] /\ unqueue_nxt' \in Int
      /\ Good(heap', seg_count')
  BY <1>2, <1>5, <1>6, ParseDataGood
<1> QED
  BY <1>7 DEF MemInv, Memory!Data

(* ikcp_recv keeps the invariant.                                          *)
LEMMA RecvGood ==
  ASSUME Memory!MemoryAssumption, MemInv, Memory!ikcp_recv
  PROVE  MemInv'
<1>1. PICK n \in 1..seg_count["rcv_queue"] :
        LET m == Memory!MoveUp([h     |-> Memory!DropFirst(heap, "rcv_queue", n),
                                count |-> [seg_count EXCEPT !["rcv_queue"] = @ - n],
                                sn    |-> seg_sn,
                                nxt   |-> unqueue_nxt])
        IN heap' = m.h /\ seg_count' = m.count /\ unqueue_nxt' = m.nxt
  BY DEF Memory!ikcp_recv
<1> DEFINE h1 == Memory!DropFirst(heap, "rcv_queue", n)
           count1 == [seg_count EXCEPT !["rcv_queue"] = @ - n]
           m0 == [h |-> h1, count |-> count1, sn |-> seg_sn, nxt |-> unqueue_nxt]
           m == Memory!MoveUp(m0)
<1>2. heap' = m.h /\ seg_count' = m.count /\ unqueue_nxt' = m.nxt
  BY <1>1
<1>3. PICK con : Linked(heap, con, {}) /\ \A q \in Memory!Heads : seg_count[q] = Len(con[q])
  BY DEF MemInv, Good
<1>4. "rcv_queue" \in Memory!Heads /\ seg_count \in [Memory!Heads -> Nat]
  BY DEF Memory!Heads, MemInv
<1>5. n \in Nat /\ n =< Len(con["rcv_queue"])
  BY <1>3, <1>4
<1>6. h1 \in LeftAfter(con, "rcv_queue", n)
  BY <1>3, <1>4, <1>5, DropFirstGood
<1> HIDE DEF h1
<1>7. PICK con2 : /\ Linked(h1, con2, {}) /\ Len(con2["rcv_queue"]) = Len(con["rcv_queue"]) - n
                  /\ \A r \in Memory!Heads : r # "rcv_queue" => con2[r] = con[r]
  BY <1>5, <1>6 DEF LeftAfter
<1>8. count1 \in [Memory!Heads -> Nat] /\ \A q \in Memory!Heads : count1[q] = Len(con2[q])
  BY <1>3, <1>4, <1>5, <1>7
<1> HIDE DEF count1
<1>9. Good(h1, count1) /\ seg_sn \in [Segs -> Int] /\ unqueue_nxt \in Int
  BY <1>7, <1>8 DEF Good, MemInv
<1>10. m0 \in Moves
  BY <1>8, <1>9, MovesOf
<1> HIDE DEF m0
<1>11. m \in Moves
  BY <1>10, MoveUpGood
<1>12. seg_count' \in [Memory!Heads -> Nat] /\ unqueue_nxt' \in Int /\ Good(heap', seg_count')
  BY <1>2, <1>11, MovedGood
<1> QED
  BY <1>12 DEF MemInv, Memory!ikcp_recv

(* A loop of ikcp_release empties its queue.                               *)
LEMMA EmptiedOne ==
  ASSUME Memory!MemoryAssumption, NEW h, NEW con, Linked(h, con, {}), NEW q \in Memory!Heads
  PROVE  \E con2 : /\ Linked(Memory!DropFirst(h, q, Memory!Rounds), con2, {}) /\ Len(con2[q]) = 0
                   /\ \A r \in Memory!Heads : r # q => con2[r] = con[r]
<1>1. Len(con[q]) =< Memory!Rounds /\ Memory!Rounds \in Nat /\ Len(con[q]) \in Nat
  BY QueueShort, RoundsNat, QueueEnds
<1>2. Memory!DropFirst(h, q, Memory!Rounds) \in LeftAfter(con, q, Memory!Rounds)
  BY <1>1, DropFirstGood
<1>3. (IF Memory!Rounds =< Len(con[q]) THEN Len(con[q]) - Memory!Rounds ELSE 0) = 0
  BY <1>1
<1> QED
  BY <1>2, <1>3 DEF LeftAfter

(* ikcp_release keeps the invariant: nothing is left.                      *)
LEMMA ReleaseGood ==
  ASSUME Memory!MemoryAssumption, MemInv, Memory!ikcp_release
  PROVE  MemInv'
<1>1. PICK con : Linked(heap, con, {})
  BY DEF MemInv, Good
<1> DEFINE h1 == Memory!DropFirst(heap, "snd_buf", Memory!Rounds)
           h2 == Memory!DropFirst(h1, "rcv_buf", Memory!Rounds)
           h3 == Memory!DropFirst(h2, "snd_queue", Memory!Rounds)
           h4 == Memory!DropFirst(h3, "rcv_queue", Memory!Rounds)
<1>2. heap' = h4
  BY DEF Memory!ikcp_release, Memory!Emptied
<1>3. /\ "snd_buf" \in Memory!Heads /\ "rcv_buf" \in Memory!Heads
      /\ "snd_queue" \in Memory!Heads /\ "rcv_queue" \in Memory!Heads
      /\ \A q \in Memory!Heads : q \in {"snd_buf", "rcv_buf", "snd_queue", "rcv_queue"}
  BY DEF Memory!Heads
<1>4. PICK con1 : /\ Linked(h1, con1, {}) /\ Len(con1["snd_buf"]) = 0
  BY <1>1, <1>3, EmptiedOne
<1> HIDE DEF h1
<1>5. PICK con2 : /\ Linked(h2, con2, {}) /\ Len(con2["rcv_buf"]) = 0
                  /\ \A r \in Memory!Heads : r # "rcv_buf" => con2[r] = con1[r]
  BY <1>3, <1>4, EmptiedOne
<1> HIDE DEF h2
<1>6. PICK con3 : /\ Linked(h3, con3, {}) /\ Len(con3["snd_queue"]) = 0
                  /\ \A r \in Memory!Heads : r # "snd_queue" => con3[r] = con2[r]
  BY <1>3, <1>5, EmptiedOne
<1> HIDE DEF h3
<1>7. PICK con4 : /\ Linked(h4, con4, {}) /\ Len(con4["rcv_queue"]) = 0
                  /\ \A r \in Memory!Heads : r # "rcv_queue" => con4[r] = con3[r]
  BY <1>3, <1>6, EmptiedOne
<1> HIDE DEF h4
<1>8. \A q \in Memory!Heads : Len(con4[q]) = 0
  BY <1>3, <1>4, <1>5, <1>6, <1>7
<1>9. seg_count' = [q \in Memory!Heads |-> 0]
  BY DEF Memory!ikcp_release
<1>10. Good(heap', seg_count')
  BY <1>2, <1>7, <1>8, <1>9 DEF Good
<1> QED
  BY <1>9, <1>10 DEF MemInv, Memory!ikcp_release

(* Every step keeps the invariant.                                         *)
LEMMA MemNext ==
  ASSUME Memory!MemoryAssumption, MemInv, [Memory!Next]_Memory!vars
  PROVE  MemInv'
<1>1. CASE Memory!ikcp_wndsize
  <2>1. rcv_wnd' \in Int
    BY <1>1 DEF Memory!ikcp_wndsize, Memory!MemoryAssumption
  <2> QED
    BY <1>1, <2>1 DEF Memory!ikcp_wndsize, MemInv
<1>2. CASE UNCHANGED Memory!vars
  BY <1>2 DEF Memory!vars, MemInv
<1> QED
  BY <1>1, <1>2, SendGood, FlushGood, AcknowledgeGood, DataGood, RecvGood, ReleaseGood DEF Memory!Next

(* What a walk along next finds.                                           *)
LEMMA ContentsOf ==
  ASSUME Memory!MemoryAssumption, NEW con, Linked(heap, con, {}), NEW q \in Memory!Heads
  PROVE  Memory!Contents(q) = con[q]
<1> DEFINE n == Memory!Rounds
           c == con[q]
           S == [i \in 0..n |-> {At(q, c, i + 1)}]
           onward == [x \in Memory!Nodes \cup {NULL} |-> IF x \in {q, NULL} THEN x ELSE heap.next[x]]
           Round(i, x) == onward[x]
           g == [i \in 1..n |-> [x \in S[i - 1] |-> Round(i, x)]]
           Loop(f) == [i \in 0..n |-> IF i = 0 THEN heap.next[q] ELSE Round(i, f[i - 1])]
           F == CHOOSE f : f = Loop(f)
<1>1. n \in Nat
  BY RoundsNat
<1> HIDE DEF n
<1>2. heap.next[q] \in S[0]
  <2>1. heap.next[q] = At(q, c, 0 + 1)
    BY QueueEnds
  <2> QED
    BY <1>1, <2>1
<1>3. ASSUME NEW i \in 1..n, NEW x \in S[i - 1] PROVE Round(i, x) \in S[i]
  <2>0. x \in Memory!Nodes /\ Round(i, x) = IF x \in {q, NULL} THEN x ELSE heap.next[x]
    <3>1. x \in {At(q, c, (i - 1) + 1)} /\ \A j \in 1..Len(c) : c[j] \in Memory!Nodes
      BY <1>1, QueueOf
    <3>2. x \in Memory!Nodes
      BY <3>1, QueueOf DEF At
    <3> QED
      BY <3>2
  <2> HIDE DEF Round
  <2>1. x = At(q, c, i) /\ i \in Nat
    <3>1. (i - 1) + 1 = i /\ i - 1 \in 0..n /\ i \in Nat
      BY <1>1
    <3> QED
      BY <3>1
  <2>2. /\ c \in Seq(Segs) /\ Ring(heap.next, heap.prev, q, c) /\ q \notin Segs
        /\ \A j \in 1..Len(c) : c[j] \in Segs
    BY QueueOf
  <2>3. NULL \notin Segs /\ NULL # q
    BY DEF Memory!MemoryAssumption, Memory!Nodes
  <2> HIDE DEF c
  <2>4. CASE i \in 1..Len(c)
    <3>1. x \notin {q, NULL}
      BY <2>1, <2>2, <2>3, <2>4 DEF At
    <3>2. heap.next[x] = At(q, c, i + 1)
      BY <2>1, <2>2, <2>4 DEF Ring
    <3> QED
      BY <1>1, <2>0, <3>1, <3>2
  <2>5. CASE i \notin 1..Len(c)
    <3>1. i + 1 \notin 1..Len(c)
      BY <1>1, <2>1, <2>2, <2>5
    <3>2. x = q /\ At(q, c, i + 1) = q
      BY <2>1, <2>5, <3>1 DEF At
    <3> QED
      BY <1>1, <2>0, <3>2
  <2> QED
    BY <2>4, <2>5
<1> HIDE DEF S, Round, onward
<1>4. \A i \in 1..n : \A x \in S[i - 1] : g[i][x] = Round(i, x)
  OBVIOUS
<1>5. IsLoop(n, S, heap.next[q], g)
  BY <1>2, <1>3, <1>4 DEF IsLoop
<1> HIDE DEF g
<1>6. PICK f : IsTable(n, S, heap.next[q], g, f)
  BY <1>1, <1>5, Iterated
<1>7. f = Loop(f)
  <2>1. ASSUME NEW i \in 0..n PROVE f[i] = IF i = 0 THEN heap.next[q] ELSE Round(i, f[i - 1])
    <3>1. CASE i = 0
      BY <1>6, <3>1 DEF IsTable
    <3>2. CASE i # 0
      <4>1. i \in 1..n /\ i - 1 \in 0..n
        BY <1>1, <3>2
      <4> QED
        BY <1>4, <1>6, <3>2, <4>1 DEF IsTable
    <3> QED
      BY <3>1, <3>2
  <2>2. f = [i \in 0..n |-> f[i]]
    BY <1>6 DEF IsTable
  <2> QED
    BY <2>1, <2>2
<1>8. F = Loop(F)
  <2> HIDE DEF Loop
  <2> QED
    BY <1>7
<1>9. Memory!Contents(q) = [i \in 1..Memory!Cardinality({j \in 0..n : F[j] \notin {q, NULL}}) |-> F[i - 1]]
  BY DEF Memory!Contents, Round, onward, n
<1> HIDE DEF F
<1>10. F[0] = heap.next[q] /\ \A i \in 1..n : F[i] = Round(i, F[i - 1])
  <2>1. \A i \in 0..n : F[i] = IF i = 0 THEN heap.next[q] ELSE Round(i, F[i - 1])
    BY <1>8
  <2>2. 0 \in 0..n /\ \A i \in 1..n : i \in 0..n /\ i # 0
    BY <1>1
  <2> QED
    BY <2>1, <2>2
<1> HIDE DEF Loop
<1>11. \A i \in 0..n : F[i] \in S[i]
  BY <1>1, <1>4, <1>5, <1>10, Follows
<1>12. \A i \in 0..n : F[i] = At(q, c, i + 1)
  BY <1>11 DEF S
<1>13. /\ c \in Seq(Segs) /\ q \notin Segs /\ \A j \in 1..Len(c) : c[j] \in Segs
       /\ NULL \notin Segs /\ Len(c) \in Nat /\ Len(c) =< n
  BY QueueOf, QueueEnds, QueueShort DEF Memory!MemoryAssumption, Memory!Nodes, n
<1> HIDE DEF c
<1> DEFINE X == {j \in 0..n : F[j] \notin {q, NULL}}
           L == Len(c)
<1>14. X = 0..(L - 1)
  <2>1. ASSUME NEW j \in 0..n PROVE F[j] \notin {q, NULL} <=> j \in 0..(L - 1)
    <3>1. CASE j + 1 \in 1..L
      <4>1. F[j] = c[j + 1] /\ c[j + 1] \in Segs /\ j \in 0..(L - 1)
        BY <1>12, <1>13, <3>1 DEF At
      <4> QED
        BY <1>13, <4>1
    <3>2. CASE j + 1 \notin 1..L
      <4>1. F[j] = q /\ j \notin 0..(L - 1)
        BY <1>12, <1>13, <3>2 DEF At
      <4> QED
        BY <4>1
    <3> QED
      BY <3>1, <3>2
  <2>2. \A j \in 0..(L - 1) : j \in 0..n
    BY <1>1, <1>13
  <2> QED
    BY <2>1, <2>2
<1>15. Memory!Cardinality(X) = L
  <2> HIDE DEF X, L
  <2>1. Memory!Cardinality(X) = Cardinality(X)
    BY DEF Memory!Cardinality, Cardinality
  <2>2. L \in Nat
    BY <1>13 DEF L
  <2>3. Cardinality(0..(L - 1)) = IF 0 > L - 1 THEN 0 ELSE (L - 1) - 0 + 1
    BY <2>2, FS_Interval
  <2> QED
    BY <1>14, <2>1, <2>2, <2>3
<1>16. Memory!Contents(q) = [i \in 1..L |-> F[i - 1]]
  BY <1>9, <1>15
<1>17. ASSUME NEW i \in 1..L PROVE F[i - 1] = c[i]
  <2>1. i - 1 \in 0..n /\ (i - 1) + 1 = i
    BY <1>1, <1>13
  <2> QED
    BY <1>12, <2>1 DEF At
<1>18. c = [i \in 1..L |-> c[i]]
  BY <1>13
<1>19. Memory!Contents(q) = c
  BY <1>16, <1>17, <1>18
<1> QED
  BY <1>19 DEF c

(* The invariant says what is meant.                                       *)
LEMMA MemInvLinked ==
  ASSUME Memory!MemoryAssumption, MemInv
  PROVE  Memory!WellLinked
<1>1. PICK con : Linked(heap, con, {}) /\ \A q \in Memory!Heads : seg_count[q] = Len(con[q])
  BY DEF MemInv, Good
<1>2. \A q \in Memory!Heads : Memory!Contents(q) = con[q]
  BY <1>1, ContentsOf
<1>3. ASSUME NEW q \in Memory!Heads
      PROVE  LET c == <<q>> \o Memory!Contents(q) \o <<q>>
             IN /\ \A i \in 1..(Len(c) - 1) : heap.next[c[i]] = c[i + 1] /\ heap.prev[c[i + 1]] = c[i]
                /\ seg_count[q] = Len(Memory!Contents(q))
  <2> DEFINE d == con[q]
             c == <<q>> \o d \o <<q>>
  <2>1. d \in Seq(Segs) /\ Ring(heap.next, heap.prev, q, d) /\ Len(d) \in Nat
    BY <1>1, QueueOf, QueueEnds
  <2> HIDE DEF d
  <2>2. Len(c) = Len(d) + 2 /\ \A i \in 1..(Len(d) + 2) : c[i] = At(q, d, i - 1)
    BY <2>1 DEF At
  <2> HIDE DEF c
  <2>3. ASSUME NEW i \in 1..(Len(c) - 1) PROVE heap.next[c[i]] = c[i + 1] /\ heap.prev[c[i + 1]] = c[i]
    <3>1. /\ i - 1 \in 0..Len(d) /\ (i - 1) + 1 = i /\ (i + 1) - 1 = i
          /\ i \in 1..(Len(d) + 2) /\ i + 1 \in 1..(Len(d) + 2)
      BY <2>1, <2>2
    <3>2. c[i] = At(q, d, i - 1) /\ c[i + 1] = At(q, d, i)
      BY <2>2, <3>1
    <3> QED
      BY <2>1, <3>1, <3>2 DEF Ring
  <2> QED
    BY <1>1, <1>2, <2>3 DEF c, d
<1>4. UNION {Memory!ToSet(Memory!Contents(q)) : q \in Memory!Heads} = heap.live
  <2>1. \A q \in Memory!Heads : Memory!ToSet(Memory!Contents(q)) = {con[q][i] : i \in 1..Len(con[q])}
    <3>1. ASSUME NEW q \in Memory!Heads
          PROVE  Memory!ToSet(Memory!Contents(q)) = {con[q][i] : i \in 1..Len(con[q])}
      <4>1. con[q] \in Seq(Segs)
        BY <1>1, QueueOf
      <4>2. DOMAIN con[q] = 1..Len(con[q])
        BY <4>1
      <4> QED
        BY <1>2, <4>2 DEF Memory!ToSet
    <3> QED
      BY <3>1
  <2>2. UNION {{con[q][i] : i \in 1..Len(con[q])} : q \in Memory!Heads} = Members(con)
    <3>1. \A q \in Memory!Heads : \A i \in 1..Len(con[q]) : con[q][i] \in Segs
      BY <1>1, QueueOf
    <3> QED
      BY <3>1 DEF Members
  <2>3. heap.live = Members(con)
    BY <1>1 DEF Linked
  <2> QED
    BY <2>1, <2>2, <2>3
<1> QED
  BY <1>3, <1>4 DEF Memory!WellLinked

(* Whatever is sent, received, acknowledged in any order, refused or       *)
(* released: the queues of a control block can be walked both ways, their  *)
(* counters are right, and a segment that is allocated is in exactly one   *)
(* of them.  For any number of segments, windows and sequence numbers.     *)
THEOREM WellLinkedHolds ==
  ASSUME Memory!MemoryAssumption
  PROVE  Memory!Spec => []WellLinked
<1>1. Memory!Init => MemInv
  BY MemInit
<1>2. MemInv /\ [Memory!Next]_Memory!vars => MemInv'
  BY MemNext
<1>3. MemInv => WellLinked
  BY MemInvLinked DEF WellLinked
<1> QED
  BY <1>1, <1>2, <1>3, PTL DEF Memory!Spec

=============================================================================
