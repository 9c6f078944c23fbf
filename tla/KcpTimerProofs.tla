--------------------------- MODULE KcpTimerProofs ---------------------------
(***************************************************************************)
(* When a control block is flushed, for any width of the clock, any        *)
(* intervals and either kind of application, with a clock that may be set  *)
(* at any moment.                                                          *)
(***************************************************************************)
EXTENDS KcpTimer, ArithmeticLemmas

-----------------------------------------------------------------------------
(* Ticks that are close together, wherever the wrap lies.                  *)

(* _itimediff gives the true difference of times that are less than half   *)
(* the range apart, also when the tick has wrapped between them.           *)
LEMMA ItimediffTrue ==
  ASSUME ModulusAssumption, NEW a \in Int, NEW b \in Int,
         -Modulus =< 2 * (a - b), 2 * (a - b) < Modulus
  PROVE  Itimediff(a % Modulus, b % Modulus) = a - b
<1>1. Modulus \in Nat \ {0}
  BY DEF ModulusAssumption
<1> QED
  BY <1>1, SignedDifference DEF Itimediff

(* The time e away from t, and what _itimediff says of the two.            *)
LEMMA Away ==
  ASSUME ModulusAssumption, NEW t \in Tick, NEW e \in Int
  PROVE  /\ Plus(t, e) \in Tick
         /\ \A d \in Int : /\ Plus(Plus(t, d), e) = Plus(t, d + e)
                           /\ -Modulus =< 2 * (d - e) /\ 2 * (d - e) < Modulus =>
                                Itimediff(Plus(t, d), Plus(t, e)) = d - e
         /\ -Modulus =< -2 * e /\ -2 * e < Modulus => Itimediff(t, Plus(t, e)) = -e
         /\ -Modulus =< 2 * e /\ 2 * e < Modulus => Itimediff(Plus(t, e), t) = e
<1>1. Modulus \in Nat \ {0} /\ t \in Int /\ t \in 0..(Modulus - 1)
  BY DEF ModulusAssumption, Tick
<1>2. Plus(t, e) \in Tick
  BY <1>1, Remainder DEF Plus, Tick
<1>3. ASSUME NEW d \in Int PROVE Plus(Plus(t, d), e) = Plus(t, d + e)
  <2>1. t + d \in Int /\ (t + d) + e = t + (d + e)
    BY <1>1
  <2>2. (((t + d) % Modulus) + e) % Modulus = ((t + d) + e) % Modulus
    BY <1>1, <2>1, RemainderOfSum
  <2> QED
    BY <2>1, <2>2 DEF Plus
<1>4. ASSUME NEW d \in Int, -Modulus =< 2 * (d - e), 2 * (d - e) < Modulus
      PROVE  Itimediff(Plus(t, d), Plus(t, e)) = d - e
  <2>1. t + d \in Int /\ t + e \in Int /\ (t + d) - (t + e) = d - e
    BY <1>1
  <2> QED
    BY <1>4, <2>1, ItimediffTrue DEF Plus
<1>5. Plus(t, 0) = t
  BY <1>1, RemainderSigned DEF Plus
<1>6. -Modulus =< -2 * e /\ -2 * e < Modulus => Itimediff(t, Plus(t, e)) = -e
  <2>1. 2 * (0 - e) = -2 * e /\ 0 - e = -e
    OBVIOUS
  <2> QED
    BY <1>4, <1>5, <2>1
<1>7. -Modulus =< 2 * e /\ 2 * e < Modulus => Itimediff(Plus(t, e), t) = e
  <2>1. t + e \in Int /\ (t + e) - t = e /\ t % Modulus = t
    BY <1>1, RemainderSigned
  <2> QED
    BY <1>1, <2>1, ItimediffTrue DEF Plus
<1> QED
  BY <1>2, <1>3, <1>4, <1>6, <1>7

(* Any two ticks are some signed difference apart.                         *)
LEMMA Apart ==
  ASSUME ModulusAssumption, NEW t \in Tick, NEW s \in Tick
  PROVE  /\ Itimediff(s, t) \in Int
         /\ -Modulus =< 2 * Itimediff(s, t) /\ 2 * Itimediff(s, t) < Modulus
         /\ s = Plus(t, Itimediff(s, t))
<1>1. Modulus \in Nat \ {0} /\ t \in Int /\ s \in Int /\ s \in 0..(Modulus - 1) /\ Modulus % 2 = 0
  BY DEF ModulusAssumption, Tick
<1> DEFINE d == (s - t) % Modulus
<1>2. d \in 0..(Modulus - 1) /\ \E q \in Int : s - t = q * Modulus + d
  <2>1. s - t \in Int
    BY <1>1
  <2> QED
    BY <1>1, <2>1, Remainder
<1>3. Itimediff(s, t) = IF 2 * d < Modulus THEN d ELSE d - Modulus
  BY DEF Itimediff
<1> HIDE DEF d
<1>4. PICK q \in Int : s - t = q * Modulus + d
  BY <1>2
<1>5. (t + d) % Modulus = s
  <2>1. t + d = (-q) * Modulus + s
    BY <1>1, <1>2, <1>4
  <2>2. -q \in Int
    OBVIOUS
  <2> QED
    BY <1>1, <2>1, <2>2, RemainderUnique
<1>6. (t + (d - Modulus)) % Modulus = s
  <2>1. t + (d - Modulus) = (-q - 1) * Modulus + s
    BY <1>1, <1>2, <1>4
  <2> QED
    BY <1>1, <2>1, RemainderUnique
<1> QED
  BY <1>1, <1>2, <1>3, <1>5, <1>6 DEF Plus

-----------------------------------------------------------------------------
(* The constants, as the provers use them.                                 *)
LEMMA TimerConstants ==
  ASSUME ModulusAssumption, TimerAssumption
  PROVE  /\ Modulus \in Nat \ {0} /\ SlapLimit \in Nat \ {0} /\ 4 * SlapLimit < Modulus
         /\ MinInterval \in 1..SlapLimit /\ MaxInterval \in 1..SlapLimit
         /\ IKCP_INTERVAL \in MinInterval..MaxInterval /\ IKCP_INTERVAL \in Tick
         /\ MaxRto \in Nat /\ 2 * MaxRto < Modulus
         /\ MaxGap \in Nat \ {0} /\ 2 * MaxGap =< Modulus
BY DEF ModulusAssumption, TimerAssumption, Tick

(* How late ikcp_update may come: the gap between two polls, or not at all *)
(* for an application that sleeps as long as ikcp_check says.              *)
Slack == IF polls THEN MaxGap - 1 ELSE 0

Gap == IF polls THEN MaxGap ELSE MaxInterval

(* When the flush after this one has to come, counted like quiet.          *)
Due == IF flushes = 0 THEN Gap + SlapLimit ELSE spacing

ClockType ==
  /\ polls \in BOOLEAN /\ updated \in BOOLEAN
  /\ now \in Tick /\ ts_flush \in Tick /\ resendts \subseteq Tick
  /\ interval \in MinInterval..MaxInterval /\ spacing \in MinInterval..MaxInterval
  /\ quiet \in Nat /\ flushes \in 0..2

(* ts_flush is e ahead of the clock: near enough for the application to    *)
(* come in time, and as far as the last flush put it.                      *)
OnSchedule(e) ==
  /\ ts_flush = Plus(now, e)
  /\ nap - Slack =< e /\ e =< SlapLimit
  /\ e + quiet =< Due
  /\ flushes = 2 => e + quiet >= spacing - Slack

(* The inductive invariant.  ts_flush may be anywhere after the clock was  *)
(* set, until ikcp_update has looked at it.                                *)
TimerInv ==
  /\ ClockType /\ nap \in Nat /\ nap =< Gap
  /\ ~updated => nap = 0 /\ quiet = 0 /\ flushes = 0
  /\ \/ flushes = 0 /\ quiet + nap =< Gap
     \/ updated /\ \E e \in Int : OnSchedule(e)

-----------------------------------------------------------------------------
(* ikcp_check.                                                             *)

(* Not due: ts_flush lies ahead, by no more than SlapLimit.                *)
LEMMA NotDue ==
  ASSUME ModulusAssumption, TimerAssumption, ClockType, NEW t \in Tick, ~FlushDue(t)
  PROVE  /\ updated /\ Corrected(t) = ts_flush
         /\ Itimediff(ts_flush, t) \in 1..SlapLimit
         /\ ts_flush = Plus(t, Itimediff(ts_flush, t))
<1>1. Itimediff(t, t) = 0
  BY TimerConstants, RemainderSigned DEF Itimediff, Tick
<1>2. Corrected(t) # t
  BY <1>1 DEF FlushDue
<1>3. updated /\ ~Slapped(t, ts_flush) /\ Corrected(t) = ts_flush
  BY <1>2 DEF Corrected
<1> DEFINE d == Itimediff(t, ts_flush)
<1>4. d \in Int /\ t = Plus(ts_flush, d) /\ -SlapLimit =< d /\ d < 0
  <2>1. d \in Int /\ t = Plus(ts_flush, d)
    BY Apart DEF ClockType
  <2>2. ~(d >= 0) /\ ~(d < -SlapLimit)
    BY <1>3 DEF FlushDue, Slapped
  <2> HIDE DEF d
  <2> QED
    BY <2>1, <2>2, TimerConstants
<1> HIDE DEF d
<1>5. Itimediff(ts_flush, t) = -d
  <2>1. -Modulus =< -2 * d /\ -2 * d < Modulus
    BY <1>4, TimerConstants
  <2> QED
    BY <1>4, <2>1, Away DEF ClockType
<1>6. -d \in 1..SlapLimit
  BY <1>4, TimerConstants
<1>7. ts_flush = Plus(t, Itimediff(ts_flush, t))
  BY Apart DEF ClockType
<1> QED
  BY <1>3, <1>5, <1>6, <1>7

(* The time ikcp_check names: now, or no later than the flush, the resends *)
(* and the interval allow.                                                 *)
LEMMA CheckBounds ==
  ASSUME ModulusAssumption, TimerAssumption, ClockType, NEW t \in Tick
  PROVE  /\ ikcp_check(t) \in 0..interval
         /\ ikcp_check(t) # 0 => ~FlushDue(t) /\ ikcp_check(t) =< Itimediff(ts_flush, t)
<1> DEFINE tm_packet == {Itimediff(ts, t) : ts \in resendts}
           S == {Itimediff(Corrected(t), t), interval} \cup tm_packet
<1>1. interval \in Nat \ {0}
  BY TimerConstants DEF ClockType
<1>2. CASE ~updated \/ FlushDue(t) \/ \E d \in tm_packet : d =< 0
  BY <1>1, <1>2 DEF ikcp_check
<1>3. CASE ~(~updated \/ FlushDue(t) \/ \E d \in tm_packet : d =< 0)
  <2>1. ikcp_check(t) = CHOOSE d \in S : \A x \in S : d =< x
    BY <1>3 DEF ikcp_check, Soonest
  <2>2. Corrected(t) = ts_flush /\ Itimediff(ts_flush, t) \in 1..SlapLimit
    BY <1>3, NotDue
  <2>3. \A d \in tm_packet : d \in Int /\ ~(d =< 0)
    <3>1. \A ts \in resendts : Itimediff(ts, t) \in Int
      BY Apart DEF ClockType
    <3> QED
      BY <1>3, <3>1
  <2>4. S \subseteq Nat /\ S # {} /\ interval \in S /\ Itimediff(ts_flush, t) \in S
    <3> HIDE DEF tm_packet
    <3> QED
      BY <1>1, <2>2, <2>3, TimerConstants
  <2> HIDE DEF S
  <2>5. \E d \in S : \A x \in S : d =< x
    BY <2>4, LeastNat
  <2>6. ikcp_check(t) \in S /\ \A x \in S : ikcp_check(t) =< x
    BY <2>1, <2>5
  <2> DEFINE c == ikcp_check(t)
             i == Itimediff(ts_flush, t)
  <2>7. c \in 0..interval /\ c =< i
    <3>1. c \in Nat /\ c =< interval /\ c =< i
      BY <2>4, <2>6
    <3> HIDE DEF c, i
    <3> QED
      BY <1>1, <3>1
  <2>8. ~FlushDue(t)
    BY <1>3
  <2> QED
    BY <2>7, <2>8
<1> QED
  BY <1>2, <1>3

(* The type invariant is enough for CheckInTime.                           *)
LEMMA CheckInTimeTyped ==
  ASSUME ModulusAssumption, TimerAssumption, ClockType
  PROVE  CheckInTime
<1>1. now \in Tick
  BY DEF ClockType
<1>2. ikcp_check(now) \in 0..interval
  BY <1>1, CheckBounds
<1>3. ASSUME NEW d \in 0..(ikcp_check(now) - 1) PROVE ~FlushDue(Plus(now, d))
  <2> DEFINE e == Itimediff(ts_flush, now)
  <2>1. ikcp_check(now) # 0 /\ d < ikcp_check(now) /\ d \in Nat /\ ikcp_check(now) \in Nat
    BY <1>2, TimerConstants DEF ClockType
  <2>2. ~FlushDue(now) /\ ikcp_check(now) =< e
    BY <1>1, <2>1, CheckBounds
  <2>3. updated /\ e \in 1..SlapLimit /\ ts_flush = Plus(now, e)
    BY <1>1, <2>2, NotDue
  <2> HIDE DEF e
  <2>4. -SlapLimit =< d - e /\ d - e < 0
    BY <2>1, <2>2, <2>3, TimerConstants
  <2>5. Itimediff(Plus(now, d), ts_flush) = d - e
    <3>1. -Modulus =< 2 * (d - e) /\ 2 * (d - e) < Modulus /\ d \in Int /\ e \in Int
      BY <2>1, <2>3, <2>4, TimerConstants
    <3> QED
      BY <1>1, <2>3, <3>1, Away
  <2>6. ~Slapped(Plus(now, d), ts_flush)
    BY <2>1, <2>3, <2>4, <2>5, TimerConstants DEF Slapped
  <2>7. Corrected(Plus(now, d)) = ts_flush
    BY <2>3, <2>6 DEF Corrected
  <2> QED
    BY <2>1, <2>3, <2>4, <2>5, <2>7 DEF FlushDue
<1> QED
  BY <1>2, <1>3 DEF CheckInTime

-----------------------------------------------------------------------------
(* The invariant is kept.                                                  *)

(* Before the first ikcp_update nothing is due.                            *)
LEMMA TimerInit ==
  ASSUME ModulusAssumption, TimerAssumption, Init
  PROVE  TimerInv
<1>1. Gap \in Nat
  BY TimerConstants DEF Gap
<1>2. polls \in BOOLEAN /\ updated \in BOOLEAN /\ now \in Tick /\ resendts \subseteq Tick
  BY DEF Init
<1>3. /\ ts_flush \in Tick /\ nap \in Nat /\ nap =< Gap /\ quiet \in Nat /\ flushes \in 0..2
      /\ interval \in MinInterval..MaxInterval /\ spacing \in MinInterval..MaxInterval
  BY <1>1, TimerConstants DEF Init
<1> QED
  BY <1>1, <1>2, <1>3 DEF Init, TimerInv, ClockType

(* A flush at the right time puts ts_flush ahead by what is left of the    *)
(* interval, or by all of it if more than that was lost.                   *)
LEMMA FlushAhead ==
  ASSUME ModulusAssumption, TimerAssumption, ClockType, FlushDue(now)
  PROVE  \E late \in 0..(SlapLimit - 1) :
           /\ NextFlush(now) = Plus(now, IF late < interval THEN interval - late ELSE interval)
           /\ late = 0 \/ (updated /\ ts_flush = Plus(now, -late))
<1> DEFINE late == Itimediff(now, Corrected(now))
<1>1. now \in Tick /\ now \in Int /\ ts_flush \in Tick /\ interval \in 1..SlapLimit
  BY TimerConstants DEF ClockType, Tick
<1>2. Itimediff(now, now) = 0
  BY TimerConstants, RemainderSigned DEF Itimediff, ClockType, Tick
<1>3. /\ late \in 0..(SlapLimit - 1) /\ Corrected(now) = Plus(now, -late)
      /\ late = 0 \/ (updated /\ Corrected(now) = ts_flush)
  <2>1. CASE Corrected(now) = now
    <3>1. Plus(now, 0) = now
      BY TimerConstants, RemainderSigned DEF Plus, ClockType, Tick
    <3>2. late = 0
      BY <1>2, <2>1
    <3> HIDE DEF late
    <3> QED
      BY <2>1, <3>1, <3>2, TimerConstants
  <2>2. CASE Corrected(now) # now
    <3>1. updated /\ Corrected(now) = ts_flush /\ ~Slapped(now, ts_flush)
      BY <2>2 DEF Corrected
    <3>2. late \in Int /\ now = Plus(ts_flush, late)
      BY <1>1, <3>1, Apart
    <3>3. late >= 0 /\ late < SlapLimit
      BY <3>1, <3>2, TimerConstants DEF FlushDue, Slapped
    <3> HIDE DEF late
    <3>4. Plus(now, -late) = ts_flush
      <4>1. Plus(Plus(ts_flush, late), -late) = Plus(ts_flush, late + (-late))
        <5>1. -late \in Int
          BY <3>2
        <5> QED
          BY <1>1, <3>2, <5>1, Away
      <4>2. late + (-late) = 0
        BY <3>2
      <4>3. Plus(ts_flush, 0) = ts_flush
        BY TimerConstants, RemainderSigned DEF Plus, ClockType, Tick
      <4> QED
        BY <3>2, <4>1, <4>2, <4>3
    <3> QED
      BY <3>1, <3>2, <3>3, <3>4, TimerConstants
  <2> QED
    BY <2>1, <2>2
<1> HIDE DEF late
<1>4. Plus(Corrected(now), interval) = Plus(now, interval - late)
  <2>1. -late \in Int /\ interval \in Int /\ (-late) + interval = interval - late
    BY <1>1, <1>3, TimerConstants
  <2> QED
    BY <1>1, <1>3, <2>1, Away
<1>5. Itimediff(now, Plus(now, interval - late)) = late - interval
  <2>1. interval - late \in Int /\ -(interval - late) = late - interval
    BY <1>1, <1>3, TimerConstants
  <2>2. -Modulus =< -2 * (interval - late) /\ -2 * (interval - late) < Modulus
    BY <1>1, <1>3, TimerConstants
  <2> QED
    BY <1>1, <2>1, <2>2, Away
<1>6. NextFlush(now) = Plus(now, IF late < interval THEN interval - late ELSE interval)
  <2>1. NextFlush(now) = IF late - interval >= 0 THEN Plus(now, interval) ELSE Plus(now, interval - late)
    BY <1>4, <1>5 DEF NextFlush
  <2>2. (late - interval >= 0) <=> ~(late < interval)
    BY <1>1, <1>3, TimerConstants
  <2> QED
    BY <2>1, <2>2
<1> QED
  BY <1>3, <1>6

(* When the next flush lies ahead ikcp_check does not look past it.        *)
NapAhead ==
  \A e \in 1..SlapLimit : ts_flush = Plus(now, e) =>
    ikcp_check(now) \in Nat /\ ikcp_check(now) =< e /\ ikcp_check(now) =< interval

(* NapAhead in one state, for use in the next one.                         *)
LEMMA NapAheadTyped ==
  ModulusAssumption /\ TimerAssumption /\ ClockType => NapAhead
<1> SUFFICES ASSUME ModulusAssumption, TimerAssumption, ClockType,
                    NEW e \in 1..SlapLimit, ts_flush = Plus(now, e)
             PROVE  ikcp_check(now) \in Nat /\ ikcp_check(now) =< e /\ ikcp_check(now) =< interval
  BY DEF NapAhead
<1>1. now \in Tick
  BY DEF ClockType
<1>2. Itimediff(ts_flush, now) = e
  <2>1. e \in Int /\ -Modulus =< 2 * e /\ 2 * e < Modulus
    BY TimerConstants
  <2> QED
    BY <1>1, <2>1, Away
<1>3. interval \in Nat
  BY TimerConstants DEF ClockType
<1>4. /\ ikcp_check(now) \in 0..interval
      /\ ikcp_check(now) # 0 => ikcp_check(now) =< e
  BY <1>1, <1>2, CheckBounds
<1> DEFINE c == ikcp_check(now)
<1> HIDE DEF c
<1>5. c \in 0..interval /\ (c # 0 => c =< e)
  BY <1>4 DEF c
<1>6. c \in Nat /\ c =< e /\ c =< interval
  BY <1>3, <1>5, TimerConstants
<1> QED
  BY <1>6 DEF c

(* The same of the state a step leads to.                                  *)
LEMMA NapAheadNext ==
  ASSUME ModulusAssumption, TimerAssumption
  PROVE  ClockType' => NapAhead'
<1>1. ClockType => NapAhead
  BY NapAheadTyped
<1> QED
  BY <1>1, PTL

(* ts_flush tells how far ahead it is, within the range it is kept in.     *)
LEMMA AheadUnique ==
  ASSUME ModulusAssumption, TimerAssumption, NEW t \in Tick,
         NEW e \in Int, NEW f \in Int, Plus(t, e) = Plus(t, f),
         -MaxGap < e, e =< SlapLimit, -SlapLimit < f \/ -MaxGap < f, f =< SlapLimit
  PROVE  e = f
<1>1. -Modulus =< -2 * e /\ -2 * e < Modulus /\ -Modulus =< -2 * f /\ -2 * f < Modulus
  BY TimerConstants
<1>2. Itimediff(t, Plus(t, e)) = -e /\ Itimediff(t, Plus(t, f)) = -f
  BY <1>1, Away
<1> QED
  BY <1>2

(* The two kinds of application: one that polls and one that sleeps.       *)
LEMMA SlackBounds ==
  ASSUME ModulusAssumption, TimerAssumption
  PROVE  /\ Slack \in Nat /\ Slack < MaxGap /\ Gap \in Nat \ {0}
         /\ polls => Slack = MaxGap - 1 /\ Gap = MaxGap
         /\ ~polls => Slack = 0 /\ Gap = MaxInterval
<1>1. CASE polls
  BY <1>1, TimerConstants DEF Slack, Gap
<1>2. CASE ~polls
  BY <1>2, TimerConstants DEF Slack, Gap
<1> QED
  BY <1>1, <1>2

(* After ikcp_update the application comes back in time for the flush that *)
(* lies e ahead.                                                           *)
LEMMA ScheduleBound ==
  ASSUME ModulusAssumption, TimerAssumption, ClockType', Schedule, UNCHANGED polls,
         NEW e \in 1..SlapLimit, ts_flush' = Plus(now', e)
  PROVE  nap' \in Nat /\ nap' =< Gap' /\ nap' - Slack' =< e
<1>1. CASE polls
  <2>1. nap' = MaxGap /\ Gap' = MaxGap /\ Slack' = MaxGap - 1
    BY <1>1 DEF Schedule, Gap, Slack
  <2> QED
    BY <2>1, TimerConstants
<1>2. CASE ~polls
  <2> DEFINE c == ikcp_check(now)'
  <2>1. NapAhead'
    BY NapAheadNext
  <2>2. c \in Nat /\ c =< e /\ c =< interval'
    BY <2>1 DEF NapAhead
  <2>3. nap' = (IF c = 0 THEN 1 ELSE c) /\ Gap' = MaxInterval /\ Slack' = 0
    BY <1>2 DEF Schedule, Gap, Slack
  <2>4. interval' \in MinInterval..MaxInterval
    BY DEF ClockType
  <2> HIDE DEF c
  <2> QED
    BY <2>2, <2>3, <2>4, TimerConstants
<1> QED
  BY <1>1, <1>2

(* ikcp_update before the flush is due.                                    *)
LEMMA UpdateWaits ==
  ASSUME ModulusAssumption, TimerAssumption, TimerInv, ikcp_update, ~FlushDue(now)
  PROVE  TimerInv'
<1>1. /\ UNCHANGED <<polls, now, interval, ts_flush, resendts, quiet, spacing, flushes>>
      /\ updated' = TRUE /\ Schedule
  BY DEF ikcp_update
<1>2. ClockType'
  BY <1>1 DEF TimerInv, ClockType
<1>3. PICK e \in 1..SlapLimit : updated /\ ts_flush = Plus(now, e) /\ now \in Tick
  BY NotDue DEF TimerInv, ClockType
<1>4. nap' \in Nat /\ nap' =< Gap' /\ nap' - Slack' =< e
  BY <1>1, <1>2, <1>3, ScheduleBound
<1>5. e + quiet =< Due /\ (flushes = 2 => e + quiet >= spacing - Slack)
  <2>1. quiet \in Nat /\ nap \in Nat /\ spacing \in Int
    BY TimerConstants DEF TimerInv, ClockType
  <2>2. CASE flushes = 0 /\ quiet + nap =< Gap
    <3>1. quiet =< Gap /\ Due = Gap + SlapLimit
      BY <2>1, <2>2, SlackBounds DEF Due
    <3> QED
      BY <1>3, <2>1, <2>2, <3>1, SlackBounds, TimerConstants
  <2>3. CASE \E f \in Int : OnSchedule(f)
    <3>1. PICK f \in Int : OnSchedule(f)
      BY <2>3
    <3>2. ts_flush = Plus(now, f) /\ nap - Slack =< f /\ f =< SlapLimit
      BY <3>1 DEF OnSchedule
    <3>3. -MaxGap < f /\ e \in Int /\ -MaxGap < e /\ e =< SlapLimit
      BY <1>3, <2>1, <3>2, SlackBounds, TimerConstants
    <3>4. e = f
      BY <1>3, <3>2, <3>3, AheadUnique
    <3> QED
      BY <3>1, <3>4 DEF OnSchedule
  <2> QED
    BY <2>2, <2>3 DEF TimerInv
<1>6. OnSchedule(e)'
  <2>1. ts_flush' = Plus(now', e) /\ e =< SlapLimit
    BY <1>1, <1>3, TimerConstants
  <2>2. Due' = Due /\ Slack' = Slack
    BY <1>1 DEF Due, Slack, Gap
  <2>3. e + quiet' =< Due' /\ (flushes' = 2 => e + quiet' >= spacing' - Slack')
    BY <1>1, <1>5, <2>2
  <2> QED
    BY <1>4, <2>1, <2>3 DEF OnSchedule
<1>7. e \in Int
  BY TimerConstants
<1> QED
  BY <1>1, <1>2, <1>4, <1>6, <1>7 DEF TimerInv

(* A flush is due only when ts_flush has come.                             *)
LEMMA DueReached ==
  ASSUME ModulusAssumption, TimerAssumption, TimerInv, FlushDue(now),
         NEW e \in Int, OnSchedule(e), updated
  PROVE  e =< 0
<1> SUFFICES ASSUME e >= 1 PROVE FALSE
  OBVIOUS
<1>1. now \in Tick /\ ts_flush = Plus(now, e) /\ e =< SlapLimit
  BY DEF TimerInv, ClockType, OnSchedule
<1>2. Itimediff(now, ts_flush) = -e
  <2>1. -Modulus =< -2 * e /\ -2 * e < Modulus
    BY <1>1, TimerConstants
  <2> QED
    BY <1>1, <2>1, Away
<1>3. -e < 0 /\ ~(-e >= SlapLimit) /\ ~(-e < -SlapLimit)
  BY <1>1, TimerConstants
<1>4. Corrected(now) = ts_flush
  BY <1>2, <1>3 DEF Corrected, Slapped
<1> QED
  BY <1>2, <1>3, <1>4 DEF FlushDue

(* ikcp_update that flushes, and what FlushSpaced says of it.              *)
LEMMA UpdateFlushes ==
  ASSUME ModulusAssumption, TimerAssumption, TimerInv, ikcp_update, FlushDue(now)
  PROVE  /\ TimerInv'
         /\ flushes = 2 => quiet > spacing - (IF polls THEN MaxGap ELSE 1)
<1>1. /\ UNCHANGED <<polls, now, interval>> /\ updated' = TRUE /\ Schedule
      /\ ts_flush' = NextFlush(now) /\ quiet' = 0 /\ spacing' = interval
      /\ flushes' = IF flushes < 2 THEN flushes + 1 ELSE 2
  BY DEF ikcp_update
<1>2. /\ now \in Tick /\ interval \in MinInterval..MaxInterval /\ interval \in 1..SlapLimit
      /\ flushes \in 0..2 /\ quiet \in Nat /\ nap \in Nat /\ spacing \in 1..SlapLimit
      /\ polls \in BOOLEAN /\ resendts \subseteq Tick
  BY TimerConstants DEF TimerInv, ClockType
<1>3. PICK late \in 0..(SlapLimit - 1) :
        /\ NextFlush(now) = Plus(now, IF late < interval THEN interval - late ELSE interval)
        /\ late = 0 \/ (updated /\ ts_flush = Plus(now, -late))
  BY FlushAhead DEF TimerInv
<1>4. PICK e \in 1..SlapLimit :
        /\ e = IF late < interval THEN interval - late ELSE interval
        /\ e =< interval
  <2>1. (IF late < interval THEN interval - late ELSE interval) \in 1..SlapLimit
    BY <1>2, TimerConstants
  <2>2. (IF late < interval THEN interval - late ELSE interval) =< interval
    BY <1>2, TimerConstants
  <2> QED
    BY <2>1, <2>2
<1>5. ts_flush' = Plus(now', e) /\ Plus(now, e) \in Tick
  <2>1. e \in Int
    BY TimerConstants
  <2> QED
    BY <1>1, <1>2, <1>3, <1>4, <2>1, Away
<1>6. resendts' \subseteq Tick
  <2>1. PICK kept \in SUBSET {ts \in resendts : Itimediff(ts, now) > 0},
             ahead \in {{}} \cup {{Plus(now, d)} : d \in 1..MaxRto} :
               resendts' = kept \cup ahead
    BY DEF ikcp_update
  <2>2. \A d \in 1..MaxRto : Plus(now, d) \in Tick
    BY <1>2, Away, TimerConstants
  <2>3. ahead \subseteq Tick
    BY <2>1, <2>2
  <2> QED
    BY <1>2, <2>1, <2>3
<1>7. ClockType'
  <2>1. flushes' \in 0..2
    BY <1>1, <1>2
  <2>2. quiet' \in Nat /\ interval' \in MinInterval..MaxInterval /\ spacing' \in MinInterval..MaxInterval
    BY <1>1, <1>2
  <2>3. polls' \in BOOLEAN /\ updated' \in BOOLEAN /\ now' \in Tick /\ ts_flush' \in Tick
    BY <1>1, <1>2, <1>5
  <2> QED
    BY <1>6, <2>1, <2>2, <2>3 DEF ClockType
<1>8. nap' \in Nat /\ nap' =< Gap' /\ nap' - Slack' =< e
  BY <1>1, <1>5, <1>7, ScheduleBound
<1>9. flushes >= 1 => \E f \in Int : OnSchedule(f) /\ updated
  BY <1>2 DEF TimerInv
<1>10. flushes >= 1 => late =< Slack
  <2> SUFFICES ASSUME flushes >= 1, late # 0 PROVE late =< Slack
    BY <1>3, SlackBounds
  <2>1. PICK f \in Int : OnSchedule(f)
    BY <1>9
  <2>2. ts_flush = Plus(now, f) /\ nap - Slack =< f /\ f =< SlapLimit
    BY <2>1 DEF OnSchedule
  <2>3. /\ -MaxGap < f /\ -late \in Int /\ -SlapLimit < -late /\ -late =< SlapLimit
    BY <1>2, <2>2, SlackBounds, TimerConstants
  <2>4. ts_flush = Plus(now, -late)
    BY <1>3
  <2>5. f = -late
    BY <1>2, <2>2, <2>3, <2>4, AheadUnique
  <2> QED
    BY <1>2, <2>2, <2>5, SlackBounds, TimerConstants
<1>11. OnSchedule(e)'
  <2>1. Slack' = Slack /\ flushes' # 0 /\ Due' = interval
    BY <1>1, <1>2 DEF Slack, Due
  <2>2. flushes' = 2 => flushes >= 1
    BY <1>1, <1>2
  <2>3. flushes >= 1 => e >= interval - Slack
    BY <1>2, <1>4, <1>10, SlackBounds, TimerConstants
  <2>4. e + quiet' = e /\ e =< SlapLimit
    BY <1>1, TimerConstants
  <2> QED
    BY <1>1, <1>4, <1>5, <1>8, <2>1, <2>2, <2>3, <2>4 DEF OnSchedule
<1>12. TimerInv'
  <2>1. e \in Int
    BY TimerConstants
  <2> QED
    BY <1>1, <1>7, <1>8, <1>11, <2>1 DEF TimerInv
<1>13. flushes = 2 => quiet > spacing - (IF polls THEN MaxGap ELSE 1)
  <2> SUFFICES ASSUME flushes = 2 PROVE quiet > spacing - (IF polls THEN MaxGap ELSE 1)
    OBVIOUS
  <2>1. PICK f \in Int : OnSchedule(f) /\ updated
    BY <1>9
  <2>2. f =< 0
    BY <2>1, DueReached
  <2>3. f + quiet >= spacing - Slack
    BY <2>1 DEF OnSchedule
  <2>4. quiet >= spacing - Slack
    BY <1>2, <2>2, <2>3, SlackBounds, TimerConstants
  <2>5. CASE polls
    BY <1>2, <2>4, <2>5, SlackBounds, TimerConstants
  <2>6. CASE ~polls
    BY <1>2, <2>4, <2>6, SlackBounds, TimerConstants
  <2> QED
    BY <2>5, <2>6
<1> QED
  BY <1>12, <1>13

(* The other steps.                                                        *)
LEMMA PassKeeps ==
  ASSUME ModulusAssumption, TimerAssumption, TimerInv, Pass
  PROVE  TimerInv'
<1>1. /\ UNCHANGED <<polls, updated, interval, ts_flush, resendts, spacing, flushes>>
      /\ nap > 0 /\ now' = Plus(now, 1) /\ nap' = nap - 1 /\ quiet' = quiet + 1
  BY DEF Pass
<1>2. now \in Tick /\ quiet \in Nat /\ nap \in Nat /\ nap =< Gap /\ updated
  BY <1>1 DEF TimerInv, ClockType
<1>3. Gap' = Gap /\ Slack' = Slack /\ Due' = Due /\ Gap \in Nat /\ Slack \in Nat
  BY <1>1, SlackBounds DEF Gap, Slack, Due
<1>4. now' \in Tick
  BY <1>1, <1>2, Away
<1>5. quiet' \in Nat /\ nap' \in Nat /\ nap' =< Gap'
  BY <1>1, <1>2, <1>3
<1>6. ClockType'
  BY <1>1, <1>4, <1>5 DEF TimerInv, ClockType
<1>7. CASE flushes = 0 /\ quiet + nap =< Gap
  <2>1. quiet' + nap' =< Gap'
    BY <1>1, <1>2, <1>3, <1>7
  <2> QED
    BY <1>1, <1>2, <1>5, <1>6, <1>7, <2>1 DEF TimerInv
<1>8. CASE \E e \in Int : OnSchedule(e)
  <2>1. PICK e \in Int : OnSchedule(e)
    BY <1>8
  <2>2. e - 1 \in Int /\ 1 + (e - 1) = e
    OBVIOUS
  <2>3. ts_flush' = Plus(now', e - 1)
    <3>1. Plus(Plus(now, 1), e - 1) = Plus(now, 1 + (e - 1))
      BY <1>2, <2>2, Away
    <3> QED
      BY <1>1, <2>1, <2>2, <3>1 DEF OnSchedule
  <2>4. /\ nap - Slack =< e /\ e =< SlapLimit /\ e + quiet =< Due
        /\ flushes = 2 => e + quiet >= spacing - Slack
    BY <2>1 DEF OnSchedule
  <2>5. (e - 1) + quiet' = e + quiet
    BY <1>1, <1>2
  <2>6. nap' - Slack' =< e - 1 /\ e - 1 =< SlapLimit
    BY <1>1, <1>2, <1>3, <2>4, TimerConstants
  <2>7. OnSchedule(e - 1)'
    BY <1>1, <1>3, <2>3, <2>4, <2>5, <2>6 DEF OnSchedule
  <2> QED
    BY <1>1, <1>2, <1>5, <1>6, <2>2, <2>7 DEF TimerInv
<1> QED
  BY <1>7, <1>8 DEF TimerInv

(* A new interval, an acknowledgement or a clock that is set: the schedule *)
(* is kept, or is looked at afresh by the next ikcp_update.                *)
LEMMA OtherKeeps ==
  ASSUME ModulusAssumption, TimerAssumption, TimerInv,
         ikcp_interval \/ Acked \/ Jump \/ UNCHANGED vars
  PROVE  TimerInv'
<1>1. CASE Jump
  <2>1. /\ UNCHANGED <<polls, updated, interval, ts_flush, resendts, nap, spacing>>
        /\ updated /\ quiet' = 0 /\ flushes' = 0 /\ \E j \in Jumps : now' = Plus(now, j)
    BY <1>1 DEF Jump
  <2>2. now' \in Tick
    BY <2>1, Away DEF TimerInv, ClockType, TimerAssumption, Tick
  <2>3. ClockType'
    BY <2>1, <2>2 DEF TimerInv, ClockType
  <2>4. nap' \in Nat /\ nap' =< Gap' /\ quiet' + nap' =< Gap'
    BY <2>1 DEF TimerInv, Gap
  <2> QED
    BY <2>1, <2>3, <2>4 DEF TimerInv
<1>2. CASE ikcp_interval \/ Acked \/ UNCHANGED vars
  <2>1. UNCHANGED <<polls, now, updated, ts_flush, nap, quiet, spacing, flushes>>
    BY <1>2 DEF ikcp_interval, Acked, vars
  <2>2. interval' \in MinInterval..MaxInterval /\ resendts' \subseteq Tick
    <3>1. \A i \in Requests : Clamped(i) \in MinInterval..MaxInterval
      BY TimerConstants DEF TimerAssumption, Clamped
    <3> QED
      BY <1>2, <3>1 DEF ikcp_interval, Acked, vars, TimerInv, ClockType
  <2>3. ClockType'
    BY <2>1, <2>2 DEF TimerInv, ClockType
  <2>4. Gap' = Gap /\ Slack' = Slack /\ Due' = Due
    BY <2>1 DEF Gap, Slack, Due
  <2>5. \A e \in Int : OnSchedule(e) => OnSchedule(e)'
    BY <2>1, <2>4 DEF OnSchedule
  <2> QED
    BY <2>1, <2>3, <2>4, <2>5 DEF TimerInv
<1> QED
  BY <1>1, <1>2

(* Every step keeps the invariant.                                         *)
LEMMA TimerNext ==
  ASSUME ModulusAssumption, TimerAssumption, TimerInv, [Next]_vars
  PROVE  TimerInv'
BY UpdateWaits, UpdateFlushes, PassKeeps, OtherKeeps DEF Next

-----------------------------------------------------------------------------
(* The theorems.                                                           *)

(* ts_flush stays where the application will find it in time, whatever the *)
(* interval, the clock, its wrap and its jumps (ikcp_update, ikcp_check).  *)
THEOREM TimerInvariance ==
  ASSUME ModulusAssumption, TimerAssumption
  PROVE  Spec => []TimerInv
<1>1. Init => TimerInv
  BY TimerInit
<1>2. TimerInv /\ [Next]_vars => TimerInv'
  BY TimerNext
<1> QED
  BY <1>1, <1>2, PTL DEF Spec

(* No call of ikcp_update before the time ikcp_check names would flush,    *)
(* for every width of the tick and every interval.                         *)
THEOREM CheckInTimeHolds ==
  ASSUME ModulusAssumption, TimerAssumption
  PROVE  Spec => []CheckInTime
<1>1. TimerInv => CheckInTime
  BY CheckInTimeTyped DEF TimerInv
<1> QED
  BY <1>1, TimerInvariance, PTL

(* ikcp_update flushes once per interval and once SlapLimit has passed     *)
(* after the clock was set, for applications that poll and that sleep.     *)
THEOREM FlushOnTimeHolds ==
  ASSUME ModulusAssumption, TimerAssumption
  PROVE  Spec => []FlushOnTime
<1>1. TimerInv => FlushOnTime
  <2> SUFFICES ASSUME TimerInv PROVE FlushOnTime
    OBVIOUS
  <2>1. quiet \in Nat /\ nap \in Nat /\ spacing \in Nat /\ flushes \in 0..2
    BY TimerConstants DEF TimerInv, ClockType
  <2>2. flushes = 0 => quiet =< Gap + SlapLimit + Slack
    <3> SUFFICES ASSUME flushes = 0 PROVE quiet =< Gap + SlapLimit + Slack
      OBVIOUS
    <3>1. CASE quiet + nap =< Gap
      BY <2>1, <3>1, SlackBounds, TimerConstants
    <3>2. CASE \E e \in Int : OnSchedule(e)
      BY <2>1, <3>2, SlackBounds, TimerConstants DEF OnSchedule, Due
    <3> QED
      BY <3>1, <3>2 DEF TimerInv
  <2>3. flushes # 0 => quiet =< spacing + Slack
    BY <2>1, SlackBounds, TimerConstants DEF TimerInv, OnSchedule, Due
  <2>4. CASE polls
    BY <2>1, <2>2, <2>3, <2>4, SlackBounds, TimerConstants DEF FlushOnTime
  <2>5. CASE ~polls
    BY <2>1, <2>2, <2>3, <2>5, SlackBounds, TimerConstants DEF FlushOnTime
  <2> QED
    BY <2>4, <2>5
<1> QED
  BY <1>1, TimerInvariance, PTL

(* ikcp_update flushes no more often than once per interval, less what the *)
(* flush before was late, however often it is called.                      *)
THEOREM FlushSpacedHolds ==
  ASSUME ModulusAssumption, TimerAssumption
  PROVE  Spec => FlushSpaced
<1> DEFINE A == (flushes = 2 /\ ts_flush' # ts_flush) =>
                   quiet > spacing - (IF polls THEN MaxGap ELSE 1)
<1>1. TimerInv /\ [Next]_vars => [A]_vars
  <2> SUFFICES ASSUME TimerInv, Next, flushes = 2, ts_flush' # ts_flush
               PROVE  quiet > spacing - (IF polls THEN MaxGap ELSE 1)
    OBVIOUS
  <2>1. ikcp_update
    BY DEF Next, ikcp_interval, Acked, Pass, Jump
  <2>2. FlushDue(now)
    BY <2>1 DEF ikcp_update
  <2> QED
    BY <2>1, <2>2, UpdateFlushes
<1> QED
  BY <1>1, TimerInvariance, PTL DEF Spec, FlushSpaced

=============================================================================
