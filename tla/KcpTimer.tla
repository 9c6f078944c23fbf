------------------------------ MODULE KcpTimer ------------------------------
(***************************************************************************)
(* ikcp_update and ikcp_check: when a control block is flushed.  Ticks     *)
(* wrap, and the clock (get_tick_ms is gettimeofday) may be set to another *)
(* time.  The application either polls, calling ikcp_update at least every *)
(* MaxGap ms (kcpuv_run), or sleeps until the time ikcp_check named.       *)
(*                                                                         *)
(* Time is counted twice: `now' is what the clock shows, `quiet' and       *)
(* `nap' count the milliseconds that really pass.                          *)
(***************************************************************************)
EXTENDS Ticks, FiniteSets

CONSTANTS
  IKCP_INTERVAL,             \* 100 ms in the code
  MinInterval, MaxInterval,  \* 10 and 5000 ms in the code
  Requests,   \* bound: arguments of ikcp_interval
  SlapLimit,  \* 10000 ms in the code
  MaxRto,     \* bound: ms until a segment is to be resent
  MaxSegs,    \* bound: segments in snd_buf
  MaxGap,     \* bound: ms between two calls of ikcp_update when polling
  Jumps       \* bound: by how much the clock may be set, modulo Modulus

TimerAssumption ==
  /\ {MinInterval, MaxInterval, IKCP_INTERVAL} \subseteq 1..SlapLimit
  /\ MinInterval =< IKCP_INTERVAL /\ IKCP_INTERVAL =< MaxInterval /\ Requests \subseteq Int
  /\ SlapLimit \in Nat /\ 4 * SlapLimit < Modulus
  /\ MaxRto \in Nat /\ 2 * MaxRto < Modulus
  /\ MaxGap \in Nat \ {0} /\ 2 * MaxGap =< Modulus /\ MaxSegs \in Nat
  /\ Jumps \subseteq Tick

VARIABLES
  polls,     \* whether the application polls
  now,       \* what get_tick_ms returns
  updated,   \* kcp->updated
  interval,  \* kcp->interval
  ts_flush,  \* kcp->ts_flush
  resendts,  \* the resendts of the segments in snd_buf
  nap,       \* ms until the application must call ikcp_update
  quiet,     \* ms since the last flush or the last jump
  spacing,   \* history: the interval the last flush counted with
  flushes    \* flushes since the last jump, counted up to 2

vars == <<polls, now, updated, interval, ts_flush, resendts, nap, quiet, spacing, flushes>>

-----------------------------------------------------------------------------

(* The tick is too far from ts_flush to make sense: start again from it.   *)
Slapped(t, ts) ==
  Itimediff(t, ts) >= SlapLimit \/ Itimediff(t, ts) < -SlapLimit

(* ts_flush as ikcp_update and ikcp_check correct it at time t.            *)
Corrected(t) == IF ~updated \/ Slapped(t, ts_flush) THEN t ELSE ts_flush

(* Mutant of FlushDue: the flush waits until ts_flush has passed.          *)
FlushDueAfter(t) == Itimediff(t, Corrected(t)) > 0

FlushDue(t) == Itimediff(t, Corrected(t)) >= 0

(* ts_flush after a flush at time t.                                       *)
NextFlush(t) ==
  LET ts == Plus(Corrected(t), interval)
  IN IF Itimediff(t, ts) >= 0 THEN Plus(t, interval) ELSE ts

(* Mutant of Soonest: the flush itself is forgotten.                       *)
SoonestPacket(tm_flush, tm_packet) ==
  IF \E d \in tm_packet : d < interval
  THEN CHOOSE d \in tm_packet : \A x \in tm_packet : d =< x
  ELSE interval

(* The least of the flush, the resends and the interval.                   *)
Soonest(tm_flush, tm_packet) ==
  CHOOSE d \in {tm_flush, interval} \cup tm_packet :
    \A x \in {tm_flush, interval} \cup tm_packet : d =< x

(* How far ahead of t lies the time that ikcp_check(kcp, t) names.         *)
ikcp_check(t) ==
  LET tm_packet == {Itimediff(ts, t) : ts \in resendts}
  IN IF ~updated \/ FlushDue(t) \/ \E d \in tm_packet : d =< 0 THEN 0
     ELSE Soonest(Itimediff(Corrected(t), t), tm_packet)

-----------------------------------------------------------------------------

Init ==
  /\ polls \in BOOLEAN
  /\ now \in Tick
  /\ updated = FALSE
  /\ interval = IKCP_INTERVAL
  /\ ts_flush = IKCP_INTERVAL
  /\ resendts = {}
  /\ nap = 0
  /\ quiet = 0
  /\ spacing = interval
  /\ flushes = 0

Clamped(i) ==
  CASE i > MaxInterval -> MaxInterval
    [] i < MinInterval -> MinInterval
    [] OTHER           -> i

(* The user changes the interval, also by ikcp_nodelay; ts_flush stays.    *)
ikcp_interval ==
  /\ \E i \in Requests : interval' = Clamped(i)
  /\ UNCHANGED <<polls, now, updated, ts_flush, resendts, nap, quiet, spacing, flushes>>

(* When the application calls next.  If ikcp_check says "now" it calls     *)
(* again at once, that is within the same millisecond.                     *)
Schedule ==
  nap' = IF polls THEN MaxGap
         ELSE IF ikcp_check(now)' = 0 THEN 1 ELSE ikcp_check(now)'

(* A flush resends the segments that are due and may send others or resend *)
(* some early (fast acks): their resendts lie ahead, the others stay.      *)
ikcp_update ==
  /\ polls \/ nap = 0
  /\ updated' = TRUE
  /\ IF FlushDue(now)
     THEN /\ ts_flush' = NextFlush(now)
          /\ \E kept \in SUBSET {ts \in resendts : Itimediff(ts, now) > 0},
                ahead \in {{}} \cup {{Plus(now, d)} : d \in 1..MaxRto} :
               /\ ahead = {} => kept = resendts
               /\ resendts' = kept \cup ahead
               /\ Cardinality(resendts') =< MaxSegs
          /\ quiet' = 0
          /\ spacing' = interval
          /\ flushes' = IF flushes < 2 THEN flushes + 1 ELSE 2
     ELSE UNCHANGED <<ts_flush, resendts, quiet, spacing, flushes>>
  /\ UNCHANGED <<polls, now, interval>>
  /\ Schedule

(* ikcp_input: acknowledged segments leave snd_buf.                        *)
Acked ==
  /\ \E ts \in resendts : resendts' = resendts \ {ts}
  /\ UNCHANGED <<polls, now, updated, interval, ts_flush, nap, quiet, spacing, flushes>>

(* A millisecond passes; the application is not late.                      *)
Pass ==
  /\ nap > 0
  /\ now' = Plus(now, 1)
  /\ nap' = nap - 1
  /\ quiet' = quiet + 1
  /\ UNCHANGED <<polls, updated, interval, ts_flush, resendts, spacing, flushes>>

(* Somebody sets the clock.                                                *)
Jump ==
  /\ updated
  /\ \E j \in Jumps : now' = Plus(now, j)
  /\ quiet' = 0
  /\ flushes' = 0
  /\ UNCHANGED <<polls, updated, interval, ts_flush, resendts, nap, spacing>>

Next == ikcp_update \/ ikcp_interval \/ Acked \/ Pass \/ Jump

Spec == Init /\ [][Next]_vars

-----------------------------------------------------------------------------
(* Properties.                                                             *)

(* No flush is skipped: whether the application polls or sleeps as long as *)
(* ikcp_check says, although ticks wrap and the interval is changed, a     *)
(* control block is flushed once per interval (and the gap between two     *)
(* polls); after the clock was set, by whatever amount, SlapLimit bounds   *)
(* the first wait.                                                         *)
FlushOnTime ==
  IF flushes > 0 THEN quiet < spacing + (IF polls THEN MaxGap ELSE 1)
  ELSE quiet < SlapLimit + (IF polls THEN 2 * MaxGap ELSE MaxInterval + 1)

(* No flood either, however often the application calls: once a jump of    *)
(* the clock has been absorbed by a flush, flushes are an interval apart,  *)
(* less what the one before was late.                                      *)
FlushSpaced ==
  [][(flushes = 2 /\ ts_flush' # ts_flush) =>
        quiet > spacing - (IF polls THEN MaxGap ELSE 1)]_vars

(* ikcp_check's comment: ikcp_update need not be called before the time it *)
(* names, because no call until then would flush.                          *)
CheckInTime ==
  /\ ikcp_check(now) \in 0..interval
  /\ updated => \A d \in 0..(ikcp_check(now) - 1) : ~FlushDue(Plus(now, d))

=============================================================================
