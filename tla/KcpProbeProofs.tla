--------------------------- MODULE KcpProbeProofs ---------------------------
(***************************************************************************)
(* Window probes, for any back-off, flush period, delay and number of      *)
(* losses: an open window is known to be open in bounded time.  ProbeInv   *)
(* says what ends the wait, and each action keeps it.                      *)
(***************************************************************************)
EXTENDS KcpProbe, TLAPS

(* A loss pays for more than a wait between two probes and two flushes,    *)
(* and what losses pay for adds up.                                        *)
LEMMA Losses ==
  ASSUME ProbeAssumption, NEW n \in Nat
  PROVE  /\ LossCost \in Nat /\ n * LossCost \in Nat
         /\ (n + 1) * LossCost = n * LossCost + LossCost
         /\ n > 0 => n * LossCost >= LossCost
         /\ LossCost = IKCP_PROBE_LIMIT + 2 * Period + 2 * Delay
<1>1. /\ IKCP_PROBE_LIMIT \in Nat /\ Period \in Nat /\ Delay \in Nat
      /\ LossCost = IKCP_PROBE_LIMIT + 2 * Period + 2 * Delay
  BY DEF ProbeAssumption, LossCost
<1>2. LossCost \in Nat
  BY <1>1
<1> HIDE DEF LossCost
<1>3. n * LossCost \in Nat /\ (n + 1) * LossCost = n * LossCost + LossCost
  BY <1>2
<1>4. n > 0 => n * LossCost >= LossCost
  <2> SUFFICES ASSUME n > 0 PROVE n * LossCost >= LossCost
    OBVIOUS
  <2>1. PICK m \in Nat : n = m + 1
    <3>1. n - 1 \in Nat /\ n = (n - 1) + 1
      OBVIOUS
    <3> QED
      BY <3>1
  <2>2. n * LossCost = m * LossCost + LossCost /\ m * LossCost \in Nat
    BY <1>2, <2>1
  <2> QED
    BY <1>2, <2>2
<1> QED
  BY <1>1, <1>2, <1>3, <1>4

(* The wait between two probes stays within its limits.                    *)
LEMMA BackoffBounds ==
  ASSUME ProbeAssumption, NEW w \in 1 .. IKCP_PROBE_LIMIT
  PROVE  Backoff(w) \in 1 .. IKCP_PROBE_LIMIT
<1>1. w \div 2 \in Nat
  BY DEF ProbeAssumption
<1> QED
  BY <1>1 DEF ProbeAssumption, Backoff, Min2

(* A path that lost a segment has the others.                              *)
LEMMA RemoveAtType ==
  ASSUME NEW S, NEW s \in Seq(S), NEW i \in DOMAIN s
  PROVE  RemoveAt(s, i) \in Seq(S)
<1>1. SubSeq(s, 1, i - 1) \in Seq(S) /\ SubSeq(s, i + 1, Len(s)) \in Seq(S)
  OBVIOUS
<1> QED
  BY <1>1 DEF RemoveAt

(* What a path carries stays in its place when a segment is sent.          *)
LEMMA Appended ==
  ASSUME NEW S, NEW s \in Seq(S), NEW x, NEW i \in DOMAIN s
  PROVE  i \in DOMAIN Append(s, x) /\ Append(s, x)[i] = s[i]
OBVIOUS

(* A tick makes every segment of a path older, and none too old.           *)
LEMMA AgedPath ==
  ASSUME Delay \in Nat, NEW C, NEW p \in Seq(C \X (0 .. Delay)), Young(p)
  PROVE  /\ Aged(p) \in Seq(C \X (0 .. Delay))
         /\ DOMAIN Aged(p) = DOMAIN p /\ Len(Aged(p)) = Len(p)
         /\ \A i \in DOMAIN p : /\ Aged(p)[i][1] = p[i][1] /\ Aged(p)[i][2] = p[i][2] + 1
                                /\ Aged(p)[i][2] \in 0 .. Delay
<1>1. \A i \in DOMAIN p : p[i] \in C \X (0 .. Delay) /\ p[i][2] < Delay
  BY DEF Young
<1>2. \A i \in DOMAIN p : p[i][1] \in C /\ p[i][2] + 1 \in 0 .. Delay
  BY <1>1
<1>3. \A i \in DOMAIN p : <<p[i][1], p[i][2] + 1>> \in C \X (0 .. Delay)
  BY <1>2
<1>4. DOMAIN p = 1 .. Len(p) /\ Len(p) \in Nat
  OBVIOUS
<1>5. Aged(p) \in [1 .. Len(p) -> C \X (0 .. Delay)]
  BY <1>3, <1>4 DEF Aged
<1>6. Aged(p) \in Seq(C \X (0 .. Delay)) /\ Len(Aged(p)) = Len(p)
  BY <1>4, <1>5
<1>7. \A i \in DOMAIN p : Aged(p)[i] = <<p[i][1], p[i][2] + 1>>
  BY DEF Aged
<1> QED
  BY <1>2, <1>4, <1>5, <1>6, <1>7

(* The invariant holds at the start.                                       *)
LEMMA ProbeInit == ASSUME ProbeAssumption PROVE Init => ProbeInv
<1> SUFFICES ASSUME Init PROVE ProbeInv
  OBVIOUS
<1>1. lost * LossCost = 0 /\ LossCost \in Nat
  BY Losses DEF Init
<1>2. TypeOK /\ TimerInv /\ ShutInv /\ NewsInv
  <2>1. Period \in Nat /\ IKCP_PROBE_LIMIT \in Nat
    BY DEF ProbeAssumption
  <2>2. TypeOK
    <3>1. \A S : << >> \in Seq(S)
      OBVIOUS
    <3>2. /\ {rmt_wnd, nrcv_que, nrcv_buf} \subseteq 0 .. 1 /\ answer \in BOOLEAN
          /\ {idle, kept} \subseteq 0 .. Period /\ {lost, shut} \subseteq Nat
      <4>1. 0 \in 0 .. 1 /\ 1 \in 0 .. 1 /\ 0 \in 0 .. Period /\ 0 \in Nat
        BY <2>1
      <4> QED
        BY <4>1, Zenon DEF Init
    <3> QED
      BY <3>1, <3>2, Zenon DEF Init, TypeOK
  <2>3. TimerInv /\ ShutInv
    BY <2>1 DEF Init, TimerInv, ShutInv
  <2>4. NewsInv
    BY DEF Init, NewsInv
  <2> QED
    BY <2>2, <2>3, <2>4
<1>3. WaitInv /\ ReopensInTime
  BY <1>1 DEF Init, WaitInv, ReopensInTime, ProbeAssumption
<1> QED
  BY <1>2, <1>3 DEF ProbeInv

(* The facts about numbers every step needs.                               *)
LEMMA ProbeFacts ==
  ASSUME ProbeAssumption, ProbeInv
  PROVE  /\ {IKCP_PROBE_INIT, IKCP_PROBE_LIMIT, Period} \subseteq Nat \ {0}
         /\ IKCP_PROBE_INIT =< IKCP_PROBE_LIMIT /\ Delay \in Nat
         /\ lost \in Nat /\ shut \in Nat
         /\ LossCost = IKCP_PROBE_LIMIT + 2 * Period + 2 * Delay /\ LossCost \in Nat
         /\ lost * LossCost \in Nat
         /\ (lost + 1) * LossCost = lost * LossCost + LossCost
         /\ lost > 0 => lost * LossCost >= LossCost
<1>1. lost \in Nat /\ shut \in Nat
  BY DEF ProbeInv, TypeOK
<1> QED
  BY <1>1, Losses DEF ProbeAssumption

(* ikcp_flush: a probe that is due goes out before its timer runs again.   *)
LEMMA FlushStep == ASSUME ProbeAssumption, ProbeInv, ikcp_flush PROVE ProbeInv'
<1> USE DEF ProbeInv
<1> DEFINE paid == lost * LossCost
<1>1. /\ {IKCP_PROBE_INIT, IKCP_PROBE_LIMIT, Period} \subseteq Nat \ {0}
      /\ IKCP_PROBE_INIT =< IKCP_PROBE_LIMIT /\ Delay \in Nat
      /\ LossCost = IKCP_PROBE_LIMIT + 2 * Period + 2 * Delay
      /\ paid \in Nat /\ (lost > 0 => paid >= LossCost)
  BY ProbeFacts
<1>2. PICK ask \in BOOLEAN, dat \in BOOLEAN :
        /\ ProbeTimer(probe_wait', ts_probe', ask)
        /\ dat => rmt_wnd > 0
        /\ fwd' = fwd \o (IF ask THEN << <<"WASK", 0>> >> ELSE << >>)
                      \o (IF dat THEN << <<"PUSH", 0>> >> ELSE << >>)
  BY DEF ikcp_flush
<1>3. /\ idle' = 0 /\ rmt_wnd' = rmt_wnd /\ back' = back /\ nrcv_que' = nrcv_que
      /\ nrcv_buf' = nrcv_buf /\ answer' = answer /\ kept' = kept /\ lost' = lost
      /\ shut' = shut /\ paid' = paid
  BY DEF ikcp_flush, receiver
<1>4. /\ fwd' \in Seq({"WASK", "PUSH"} \X (0 .. Delay))
      /\ ~ask /\ ~dat => fwd' = fwd
      /\ ask /\ ~dat => fwd' = Append(fwd, <<"WASK", 0>>)
  <2> DEFINE Seg == {"WASK", "PUSH"} \X (0 .. Delay)
  <2>1. <<"WASK", 0>> \in Seg /\ <<"PUSH", 0>> \in Seg
    BY <1>1
  <2>2. fwd \in Seq(Seg)
    BY DEF TypeOK
  <2> HIDE DEF Seg
  <2>3. PICK x \in Seg, y \in Seg : x = <<"WASK", 0>> /\ y = <<"PUSH", 0>>
    BY <2>1, Zenon
  <2>4. PICK t : t = fwd'
    OBVIOUS
  <2>5. PICK a, b : /\ a = IF ask THEN <<x>> ELSE << >>
                    /\ b = IF dat THEN <<y>> ELSE << >>
    OBVIOUS
  <2>6. t = fwd \o a \o b
    BY <1>2, <2>3, <2>4, <2>5
  <2>7. /\ a \in {<<x>>, << >>} /\ b \in {<<y>>, << >>}
        /\ (ask => a = <<x>>) /\ (~ask => a = << >>) /\ (~dat => b = << >>)
    BY <2>5
  <2>8. t \in Seq(Seg) /\ (~ask /\ ~dat => t = fwd) /\ (ask /\ ~dat => t = Append(fwd, x))
    <3>1. /\ fwd \o << >> = fwd /\ fwd \o <<x>> = Append(fwd, x)
          /\ Append(fwd, x) \in Seq(Seg) /\ Append(fwd, x) \o << >> = Append(fwd, x)
      BY <2>2
    <3>2. fwd \o <<y>> \in Seq(Seg) /\ Append(fwd, x) \o <<y>> \in Seq(Seg)
      BY <2>2
    <3>4. CASE ~ask /\ ~dat
      BY <3>4, <3>1, <2>2, <2>6, <2>7
    <3>5. CASE ask /\ ~dat
      BY <3>5, <3>1, <2>6, <2>7
    <3>6. CASE ~ask /\ dat
      BY <3>6, <3>1, <3>2, <2>5, <2>6
    <3>7. CASE ask /\ dat
      BY <3>7, <3>1, <3>2, <2>5, <2>6
    <3> QED
      BY <3>4, <3>5, <3>6, <3>7
  <2> QED
    BY <2>3, <2>4, <2>8, Zenon DEF Seg
<1>5. TypeOK'
  BY <1>1, <1>3, <1>4 DEF TypeOK
<1>6. \/ rmt_wnd = 1 /\ probe_wait' = 0 /\ ts_probe' = 0
      \/ /\ rmt_wnd = 0 /\ ~ask /\ ~dat /\ probe_wait = 0
         /\ probe_wait' = IKCP_PROBE_INIT /\ ts_probe' = IKCP_PROBE_INIT
      \/ /\ rmt_wnd = 0 /\ ~ask /\ ~dat /\ probe_wait > 0 /\ ts_probe > 0
         /\ probe_wait' = probe_wait /\ ts_probe' = ts_probe
      \/ /\ rmt_wnd = 0 /\ ask /\ ~dat /\ probe_wait > 0 /\ ts_probe =< 0
         /\ probe_wait' \in 1 .. IKCP_PROBE_LIMIT /\ ts_probe' = probe_wait'
  <2>1. /\ rmt_wnd \in 0 .. 1 /\ probe_wait \in 0 .. IKCP_PROBE_LIMIT /\ ts_probe \in Int
        /\ ask \in BOOLEAN /\ dat \in BOOLEAN
    BY DEF TypeOK, TimerInv
  <2>2. probe_wait > 0 => Backoff(probe_wait) \in 1 .. IKCP_PROBE_LIMIT
    BY <2>1, <1>1, BackoffBounds
  <2>3. CASE rmt_wnd = 1
    BY <2>3, <1>2 DEF ProbeTimer
  <2>4. CASE rmt_wnd = 0 /\ probe_wait = 0
    BY <2>4, <1>2 DEF ProbeTimer
  <2>5. CASE rmt_wnd = 0 /\ probe_wait > 0 /\ ts_probe > 0
    BY <2>5, <2>1, <1>2 DEF ProbeTimer
  <2>6. CASE rmt_wnd = 0 /\ probe_wait > 0 /\ ts_probe =< 0
    <3>1. probe_wait' = Backoff(probe_wait) /\ ts_probe' = probe_wait' /\ ask /\ ~dat
      BY <2>6, <2>1, <1>1, <1>2 DEF ProbeTimer
    <3> QED
      BY <3>1, <2>2, <2>6
  <2> QED
    BY <2>1, <2>3, <2>4, <2>5, <2>6, <1>1
<1>7. TimerInv'
  BY <1>1, <1>3, <1>6 DEF TimerInv
<1>8. ShutInv'
  BY <1>1, <1>3, <1>6 DEF ShutInv
<1>9. NewsInv'
  BY <1>3 DEF NewsInv
<1>10. ReopensInTime'
  BY <1>3 DEF ReopensInTime
<1>11. WaitInv'
  <2> SUFFICES ASSUME rmt_wnd = 0, nrcv_que = 0
               PROVE  /\ probe_wait' > 0 =>
                           shut + ts_probe' =< IKCP_PROBE_LIMIT + Period + Delay + paid
                      /\ (AnswerDue \/ AnswerComes \/ ProbeComes \/ TimerRuns)'
    BY <1>3 DEF WaitInv
  <2>1. /\ probe_wait > 0 => shut + ts_probe =< IKCP_PROBE_LIMIT + Period + Delay + paid
        /\ AnswerDue \/ AnswerComes \/ ProbeComes \/ TimerRuns
    BY DEF WaitInv
  <2>2. shut =< Period + Delay + paid /\ idle \in 0 .. Period /\ shut \in Nat
        /\ ts_probe \in Int /\ (probe_wait > 0 => ts_probe >= -idle)
        /\ (probe_wait = 0 => shut =< idle)
    BY DEF ReopensInTime, TypeOK, TimerInv, ShutInv
  <2>3. probe_wait' > 0 => shut + ts_probe' =< IKCP_PROBE_LIMIT + Period + Delay + paid
    BY <1>1, <1>6, <2>1, <2>2
  <2>4. CASE AnswerDue \/ AnswerComes
    BY <2>4, <1>3, <2>3 DEF AnswerDue, AnswerComes
  <2>5. CASE ProbeComes
    <3>1. PICK i \in DOMAIN fwd : lost > 0 /\ shut =< fwd[i][2] - Delay + paid
      BY <2>5 DEF ProbeComes
    <3>2. i \in DOMAIN fwd' /\ fwd'[i] = fwd[i]
      <4>1. fwd' = fwd \/ fwd' = Append(fwd, <<"WASK", 0>>)
        BY <1>4, <1>6
      <4>2. fwd \in Seq({"WASK", "PUSH"} \X (0 .. Delay))
        BY DEF TypeOK
      <4>3. PICK x, t : x = <<"WASK", 0>> /\ t = fwd'
        OBVIOUS
      <4>4. t = fwd \/ t = Append(fwd, x)
        BY <4>1, <4>3
      <4>5. i \in DOMAIN t /\ t[i] = fwd[i]
        BY <4>2, <4>4, Appended
      <4> QED
        BY <4>3, <4>5
    <3>3. ProbeComes'
      BY <3>1, <3>2, <1>3 DEF ProbeComes
    <3> QED
      BY <3>3, <2>3
  <2>6. CASE TimerRuns /\ ~ask
    <3>1. lost > 0 /\ (probe_wait > 0 => shut + ts_probe + Period + Delay =< paid)
      BY <2>6 DEF TimerRuns
    <3>2. probe_wait' > 0 => shut + ts_probe' + Period + Delay =< paid
      BY <1>1, <1>6, <2>2, <2>6, <3>1
    <3>3. TimerRuns'
      BY <3>1, <3>2, <1>3 DEF TimerRuns
    <3> QED
      BY <3>3, <2>3
  <2>7. CASE TimerRuns /\ ask
    <3>1. lost > 0 /\ (probe_wait > 0 => shut + ts_probe + Period + Delay =< paid)
      BY <2>7 DEF TimerRuns
    <3>2. shut =< 0 - Delay + paid
      BY <1>1, <1>6, <2>2, <2>7, <3>1
    <3>3. fwd' = Append(fwd, <<"WASK", 0>>)
      BY <1>4, <1>6, <2>7
    <3>4. Len(fwd) + 1 \in DOMAIN fwd' /\ fwd'[Len(fwd) + 1][2] = 0
      BY <3>3 DEF TypeOK
    <3>5. ProbeComes'
      BY <3>1, <3>2, <3>4, <1>3 DEF ProbeComes
    <3> QED
      BY <3>5, <2>3
  <2> QED
    BY <2>1, <2>4, <2>5, <2>6, <2>7
<1> QED
  BY <1>5, <1>7, <1>8, <1>9, <1>10, <1>11

(* ikcp_input at the sender: news is taken in order, so what is still to   *)
(* come ends the wait that shut news begins.                               *)
LEMMA InputStep == ASSUME ProbeAssumption, ProbeInv, ikcp_input PROVE ProbeInv'
<1> USE DEF ProbeInv
<1> DEFINE paid == lost * LossCost
<1>1. /\ {IKCP_PROBE_INIT, IKCP_PROBE_LIMIT, Period} \subseteq Nat \ {0}
      /\ Delay \in Nat /\ LossCost = IKCP_PROBE_LIMIT + 2 * Period + 2 * Delay
      /\ paid \in Nat /\ (lost > 0 => paid >= LossCost)
  BY ProbeFacts
<1>2. /\ probe_wait' = probe_wait /\ ts_probe' = ts_probe /\ idle' = idle /\ fwd' = fwd
      /\ nrcv_que' = nrcv_que /\ nrcv_buf' = nrcv_buf /\ answer' = answer /\ kept' = kept
      /\ lost' = lost /\ paid' = paid
  BY DEF ikcp_input, receiver
<1>3. PICK n, t : /\ n \in Nat /\ n = Len(back) /\ t = back' /\ n > 0
                  /\ t \in Seq((0 .. 1) \X (0 .. Delay)) /\ Len(t) = n - 1
                  /\ DOMAIN t = 1 .. n - 1 /\ DOMAIN back = 1 .. n
                  /\ \A j \in 1 .. n - 1 : t[j] = back[j + 1]
  <2>1. back \in Seq((0 .. 1) \X (0 .. Delay)) /\ back # << >> /\ back' = Tail(back)
    BY DEF TypeOK, ikcp_input
  <2> DEFINE Seg == (0 .. 1) \X (0 .. Delay)
  <2>2. back \in Seq(Seg)
    BY <2>1
  <2> HIDE DEF Seg
  <2>3. /\ Len(back) \in Nat /\ Len(back) > 0 /\ Tail(back) \in Seq(Seg)
        /\ Len(Tail(back)) = Len(back) - 1 /\ DOMAIN Tail(back) = 1 .. Len(back) - 1
        /\ DOMAIN back = 1 .. Len(back)
        /\ \A j \in 1 .. Len(back) - 1 : Tail(back)[j] = back[j + 1]
    BY <2>1, <2>2
  <2> QED
    BY <2>1, <2>3, Zenon DEF Seg
<1>4. rmt_wnd' = back[1][1] /\ rmt_wnd' \in 0 .. 1
  <2>1. Head(back) = back[1] /\ 1 \in DOMAIN back
    BY <1>3
  <2>2. back[1] \in (0 .. 1) \X (0 .. Delay)
    BY <2>1 DEF TypeOK
  <2> QED
    BY <2>1, <2>2 DEF ikcp_input
<1>5. /\ shut' \in Nat /\ shut' =< shut /\ (rmt_wnd' = 1 => shut' = 0)
      /\ (rmt_wnd' = 0 => shut' = shut)
  BY <1>4 DEF ikcp_input, TypeOK
<1>6. TypeOK'
  BY <1>2, <1>3, <1>4, <1>5 DEF TypeOK
<1>7. TimerInv'
  BY <1>2 DEF TimerInv
<1>8. ShutInv'
  BY <1>2, <1>4, <1>5 DEF ShutInv, TypeOK
<1>9. NewsInv'
  <2> SUFFICES ASSUME nrcv_que = 0, NEW i \in 1 .. n - 1, t[i][1] = 0
               PROVE  answer \/ lost > 0 \/ t[n - 1][1] = 1
    BY <1>2, <1>3 DEF NewsInv
  <2>1. i + 1 \in 1 .. n /\ back[i + 1][1] = 0
    BY <1>3
  <2>2. answer \/ lost > 0 \/ back[n][1] = 1
    BY <1>3, <2>1 DEF NewsInv
  <2>3. n - 1 \in 1 .. n - 1 /\ (n - 1) + 1 = n
    BY <1>3
  <2> QED
    BY <2>2, <2>3, <1>3
<1>10. ReopensInTime'
  <2>1. shut =< Period + Delay + paid /\ shut \in Nat
    BY DEF ReopensInTime, TypeOK
  <2>2. shut' =< Period + Delay + paid
    BY <1>1, <1>5, <2>1
  <2> QED
    BY <1>2, <2>2 DEF ReopensInTime
<1>11. WaitInv'
  <2> SUFFICES ASSUME rmt_wnd' = 0, nrcv_que = 0
               PROVE  /\ probe_wait > 0 =>
                           shut + ts_probe =< IKCP_PROBE_LIMIT + Period + Delay + paid
                      /\ (AnswerDue \/ AnswerComes \/ ProbeComes \/ TimerRuns)'
    BY <1>2, <1>5 DEF WaitInv
  <2>1. rmt_wnd \in 0 .. 1 /\ shut \in Nat /\ kept \in Nat /\ ts_probe \in Int
        /\ shut' = shut /\ (probe_wait > 0 => ts_probe =< IKCP_PROBE_LIMIT)
    BY <1>5, <1>1 DEF TypeOK, TimerInv
  <2>2. CASE rmt_wnd = 0
    <3>1. /\ probe_wait > 0 => shut + ts_probe =< IKCP_PROBE_LIMIT + Period + Delay + paid
          /\ AnswerDue \/ AnswerComes \/ ProbeComes \/ TimerRuns
      BY <2>2 DEF WaitInv
    <3>2. CASE AnswerDue \/ ProbeComes \/ TimerRuns
      BY <3>1, <3>2, <1>2, <2>1 DEF AnswerDue, ProbeComes, TimerRuns
    <3>3. CASE AnswerComes
      <4>1. PICK i \in 1 .. n : back[i][1] = 1 /\ shut =< Period + back[i][2] + paid
        BY <3>3, <1>3 DEF AnswerComes
      <4>2. i # 1
        BY <4>1, <1>4
      <4>3. i - 1 \in 1 .. n - 1 /\ (i - 1) + 1 = i
        BY <4>2, <1>3
      <4>4. t[i - 1] = back[i]
        BY <4>3, <1>3
      <4>5. AnswerComes'
        BY <4>1, <4>3, <4>4, <1>2, <1>3, <2>1 DEF AnswerComes
      <4> QED
        BY <3>1, <4>5
    <3> QED
      BY <3>1, <3>2, <3>3
  <2>3. CASE rmt_wnd = 1
    <3>1. shut = 0
      BY <2>3 DEF ShutInv
    <3>2. probe_wait > 0 => shut + ts_probe =< IKCP_PROBE_LIMIT + Period + Delay + paid
      BY <3>1, <2>1, <1>1
    <3>3. answer \/ lost > 0 \/ back[n][1] = 1
      BY <1>3, <1>4 DEF NewsInv
    <3>4. CASE answer
      BY <3>1, <3>2, <3>4, <1>1, <1>2, <2>1 DEF AnswerDue
    <3>5. CASE lost > 0
      BY <3>1, <3>2, <3>5, <1>1, <1>2, <2>1 DEF TimerRuns
    <3>6. CASE back[n][1] = 1
      <4>1. n - 1 \in 1 .. n - 1 /\ (n - 1) + 1 = n
        BY <3>6, <1>3, <1>4
      <4>2. t[n - 1][1] = 1 /\ t[n - 1][2] \in 0 .. Delay
        BY <4>1, <3>6, <1>3
      <4>3. shut' =< Period + t[n - 1][2] + paid
        BY <4>2, <3>1, <2>1, <1>1
      <4>4. AnswerComes'
        BY <4>1, <4>2, <4>3, <1>2, <1>3 DEF AnswerComes
      <4> QED
        BY <4>4, <3>2
    <3> QED
      BY <3>3, <3>4, <3>5, <3>6
  <2> QED
    BY <2>1, <2>2, <2>3
<1> QED
  BY <1>6, <1>7, <1>8, <1>9, <1>10, <1>11

(* ikcp_input at the receiver: a probe or a segment makes an answer due.   *)
LEMMA PeerInputStep == ASSUME ProbeAssumption, ProbeInv, PeerInput PROVE ProbeInv'
<1> USE DEF ProbeInv
<1> DEFINE paid == lost * LossCost
<1>1. /\ {IKCP_PROBE_INIT, IKCP_PROBE_LIMIT, Period} \subseteq Nat \ {0}
      /\ Delay \in Nat /\ paid \in Nat
  BY ProbeFacts
<1>2. /\ probe_wait' = probe_wait /\ ts_probe' = ts_probe /\ idle' = idle
      /\ rmt_wnd' = rmt_wnd /\ back' = back /\ answer' = TRUE /\ kept' = kept
      /\ lost' = lost /\ paid' = paid
  BY DEF PeerInput, sender
<1>3. /\ nrcv_que' \in 0 .. 1 /\ nrcv_buf' \in 0 .. 1
      /\ nrcv_que' = 1 \/ nrcv_que' = nrcv_que
      /\ shut' = IF nrcv_que' = 1 THEN 0 ELSE shut
  BY DEF PeerInput, TypeOK
<1>4. shut' \in Nat /\ shut' =< shut /\ (nrcv_que' = 0 => shut' = shut /\ nrcv_que = 0)
  BY <1>3 DEF TypeOK
<1>5. PICK n, t : /\ n \in Nat /\ n = Len(fwd) /\ t = fwd' /\ n > 0
                  /\ t \in Seq({"WASK", "PUSH"} \X (0 .. Delay))
                  /\ DOMAIN t = 1 .. n - 1 /\ DOMAIN fwd = 1 .. n
                  /\ \A j \in 1 .. n - 1 : t[j] = fwd[j + 1]
  <2>1. fwd \in Seq({"WASK", "PUSH"} \X (0 .. Delay)) /\ fwd # << >> /\ fwd' = Tail(fwd)
    BY DEF TypeOK, PeerInput
  <2> DEFINE Seg == {"WASK", "PUSH"} \X (0 .. Delay)
  <2>2. fwd \in Seq(Seg)
    BY <2>1
  <2> HIDE DEF Seg
  <2>3. /\ Len(fwd) \in Nat /\ Len(fwd) > 0 /\ Tail(fwd) \in Seq(Seg)
        /\ DOMAIN Tail(fwd) = 1 .. Len(fwd) - 1 /\ DOMAIN fwd = 1 .. Len(fwd)
        /\ \A j \in 1 .. Len(fwd) - 1 : Tail(fwd)[j] = fwd[j + 1]
    BY <2>1, <2>2
  <2> QED
    BY <2>1, <2>3, Zenon DEF Seg
<1>6. TypeOK'
  BY <1>2, <1>3, <1>4, <1>5 DEF TypeOK
<1>7. TimerInv'
  BY <1>2 DEF TimerInv
<1>8. ShutInv'
  BY <1>2, <1>3, <1>4 DEF ShutInv, TypeOK
<1>9. NewsInv'
  BY <1>2 DEF NewsInv
<1>10. ReopensInTime'
  BY <1>1, <1>2, <1>4 DEF ReopensInTime, TypeOK
<1>11. WaitInv'
  <2> SUFFICES ASSUME rmt_wnd = 0, nrcv_que' = 0
               PROVE  /\ probe_wait > 0 =>
                           shut + ts_probe =< IKCP_PROBE_LIMIT + Period + Delay + paid
                      /\ (AnswerDue \/ AnswerComes \/ ProbeComes \/ TimerRuns)'
    BY <1>2, <1>4 DEF WaitInv
  <2>1. /\ probe_wait > 0 => shut + ts_probe =< IKCP_PROBE_LIMIT + Period + Delay + paid
        /\ AnswerDue \/ AnswerComes \/ ProbeComes \/ TimerRuns
        /\ shut' = shut
    BY <1>4 DEF WaitInv
  <2>2. CASE AnswerDue \/ AnswerComes \/ TimerRuns
    BY <2>1, <2>2, <1>2 DEF AnswerDue, AnswerComes, TimerRuns
  <2>3. CASE ProbeComes
    <3>1. PICK i \in 1 .. n : lost > 0 /\ shut =< fwd[i][2] - Delay + paid
      BY <2>3, <1>5 DEF ProbeComes
    <3>2. CASE i = 1
      <4>1. fwd[1][2] \in 0 .. Delay /\ kept \in Nat /\ shut \in Nat
        BY <1>5, <1>1 DEF TypeOK
      <4>2. shut =< kept + paid
        BY <3>1, <3>2, <4>1, <1>1
      <4> QED
        BY <4>2, <2>1, <1>2 DEF AnswerDue
    <3>3. CASE i # 1
      <4>1. i - 1 \in 1 .. n - 1 /\ (i - 1) + 1 = i
        BY <3>3, <1>5
      <4>2. t[i - 1] = fwd[i]
        BY <4>1, <1>5
      <4>3. ProbeComes'
        BY <3>1, <4>1, <4>2, <1>2, <1>5, <2>1 DEF ProbeComes
      <4> QED
        BY <4>3, <2>1
    <3> QED
      BY <3>2, <3>3
  <2> QED
    BY <2>1, <2>2, <2>3
<1> QED
  BY <1>6, <1>7, <1>8, <1>9, <1>10, <1>11

(* ikcp_recv: the receiver that makes room owes an answer at once.         *)
LEMMA PeerRecvStep == ASSUME ProbeAssumption, ProbeInv, PeerRecv PROVE ProbeInv'
<1> USE DEF ProbeInv
<1> DEFINE paid == lost * LossCost
<1>1. /\ {IKCP_PROBE_INIT, IKCP_PROBE_LIMIT, Period} \subseteq Nat \ {0}
      /\ Delay \in Nat /\ paid \in Nat
  BY ProbeFacts
<1>2. /\ probe_wait' = probe_wait /\ ts_probe' = ts_probe /\ idle' = idle
      /\ rmt_wnd' = rmt_wnd /\ back' = back /\ fwd' = fwd /\ kept' = kept
      /\ lost' = lost /\ shut' = shut /\ paid' = paid /\ shut = 0
  BY DEF PeerRecv, sender, ShutInv
<1>3. /\ nrcv_que' = nrcv_buf /\ nrcv_buf' = 0 /\ answer' \in BOOLEAN
      /\ nrcv_que' = 0 => answer'
  BY DEF PeerRecv, TypeOK
<1>4. TypeOK'
  BY <1>2, <1>3 DEF TypeOK
<1>5. TimerInv' /\ ShutInv' /\ ReopensInTime'
  BY <1>2 DEF TimerInv, ShutInv, ReopensInTime
<1>6. NewsInv'
  BY <1>2, <1>3 DEF NewsInv
<1>7. WaitInv'
  BY <1>1, <1>2, <1>3 DEF WaitInv, TimerInv, AnswerDue, TypeOK
<1> QED
  BY <1>4, <1>5, <1>6, <1>7

(* ikcp_flush at the receiver: the answer is the last news on the path.    *)
LEMMA PeerFlushStep == ASSUME ProbeAssumption, ProbeInv, PeerFlush PROVE ProbeInv'
<1> USE DEF ProbeInv
<1> DEFINE paid == lost * LossCost
<1>1. Period \in Nat /\ Delay \in Nat /\ paid \in Nat
  BY ProbeFacts
<1>2. /\ probe_wait' = probe_wait /\ ts_probe' = ts_probe /\ idle' = idle
      /\ rmt_wnd' = rmt_wnd /\ fwd' = fwd /\ kept' = 0 /\ answer' = FALSE
      /\ nrcv_que' = nrcv_que /\ nrcv_buf' = nrcv_buf
      /\ lost' = lost /\ shut' = shut /\ paid' = paid
  BY DEF PeerFlush, sender
<1>3. PICK n, t : /\ n \in Nat /\ n = Len(back) /\ t = back' /\ Len(t) = n + 1
                  /\ t \in Seq((0 .. 1) \X (0 .. Delay))
                  /\ DOMAIN t = 1 .. n + 1 /\ DOMAIN back = 1 .. n
                  /\ \A j \in 1 .. n : t[j] = back[j]
                  /\ t[n + 1] = <<1 - nrcv_que, 0>>
  <2> DEFINE Seg == (0 .. 1) \X (0 .. Delay)
  <2>1. PICK x \in Seg : x = <<1 - nrcv_que, 0>>
    <3>1. 1 - nrcv_que \in 0 .. 1 /\ 0 \in 0 .. Delay
      BY <1>1 DEF TypeOK
    <3> QED
      BY <3>1
  <2>2. back \in Seq(Seg) /\ back' = Append(back, x)
    BY <2>1 DEF TypeOK, PeerFlush
  <2> HIDE DEF Seg
  <2>3. /\ Len(back) \in Nat /\ Append(back, x) \in Seq(Seg)
        /\ Len(Append(back, x)) = Len(back) + 1
        /\ DOMAIN Append(back, x) = 1 .. Len(back) + 1 /\ DOMAIN back = 1 .. Len(back)
        /\ \A j \in 1 .. Len(back) : Append(back, x)[j] = back[j]
        /\ Append(back, x)[Len(back) + 1] = x
    BY <2>2
  <2> QED
    BY <2>1, <2>2, <2>3, Zenon DEF Seg
<1>4. TypeOK'
  <2>1. kept' \in 0 .. Period
    BY <1>1, <1>2
  <2> QED
    BY <1>2, <1>3, <2>1, Zenon DEF TypeOK
<1>5. TimerInv' /\ ShutInv' /\ ReopensInTime'
  BY <1>2 DEF TimerInv, ShutInv, ReopensInTime
<1>6. NewsInv'
  BY <1>2, <1>3 DEF NewsInv
<1>7. WaitInv'
  <2> SUFFICES ASSUME rmt_wnd = 0, nrcv_que = 0
               PROVE  /\ probe_wait > 0 =>
                           shut + ts_probe =< IKCP_PROBE_LIMIT + Period + Delay + paid
                      /\ (AnswerDue \/ AnswerComes \/ ProbeComes \/ TimerRuns)'
    BY <1>2 DEF WaitInv
  <2>1. /\ probe_wait > 0 => shut + ts_probe =< IKCP_PROBE_LIMIT + Period + Delay + paid
        /\ AnswerDue \/ AnswerComes \/ ProbeComes \/ TimerRuns
    BY DEF WaitInv
  <2>2. CASE ProbeComes \/ TimerRuns
    BY <2>1, <2>2, <1>2 DEF ProbeComes, TimerRuns
  <2>3. CASE AnswerComes
    <3>1. PICK i \in 1 .. n : back[i][1] = 1 /\ shut =< Period + back[i][2] + paid
      BY <2>3, <1>3 DEF AnswerComes
    <3>2. i \in 1 .. n + 1 /\ t[i] = back[i]
      BY <1>3
    <3>3. AnswerComes'
      BY <3>1, <3>2, <1>2, <1>3 DEF AnswerComes
    <3> QED
      BY <3>3, <2>1
  <2>4. CASE AnswerDue
    <3>1. shut =< Period + 0 + paid
      BY <2>4, <1>1 DEF AnswerDue, TypeOK
    <3>2. n + 1 \in 1 .. n + 1 /\ t[n + 1][1] = 1 /\ t[n + 1][2] = 0
      BY <1>3
    <3>3. AnswerComes'
      BY <3>1, <3>2, <1>2, <1>3 DEF AnswerComes
    <3> QED
      BY <3>3, <2>1
  <2> QED
    BY <2>1, <2>2, <2>3, <2>4
<1> QED
  BY <1>4, <1>5, <1>6, <1>7

(* A loss is paid for by a whole round of the probe's timer.               *)
LEMMA LoseStep == ASSUME ProbeAssumption, ProbeInv, Lose PROVE ProbeInv'
<1> USE DEF ProbeInv
<1>1. /\ {IKCP_PROBE_INIT, IKCP_PROBE_LIMIT, Period} \subseteq Nat \ {0} /\ Delay \in Nat
      /\ LossCost = IKCP_PROBE_LIMIT + 2 * Period + 2 * Delay /\ LossCost \in Nat
      /\ lost * LossCost \in Nat
      /\ lost' * LossCost = lost * LossCost + LossCost
  BY ProbeFacts DEF Lose
<1>2. /\ probe_wait' = probe_wait /\ ts_probe' = ts_probe /\ idle' = idle
      /\ rmt_wnd' = rmt_wnd /\ kept' = kept /\ answer' = answer
      /\ nrcv_que' = nrcv_que /\ nrcv_buf' = nrcv_buf
      /\ lost' = lost + 1 /\ shut' = shut
  BY DEF Lose, sender, receiver
<1>3. lost' \in Nat /\ lost' > 0
  BY <1>2 DEF TypeOK
<1>4. /\ fwd' \in Seq({"WASK", "PUSH"} \X (0 .. Delay))
      /\ back' \in Seq((0 .. 1) \X (0 .. Delay))
  <2> DEFINE Ask == {"WASK", "PUSH"} \X (0 .. Delay)
             Tell == (0 .. 1) \X (0 .. Delay)
  <2>1. fwd \in Seq(Ask) /\ back \in Seq(Tell)
    BY DEF TypeOK
  <2> HIDE DEF Ask, Tell
  <2>2. \A i \in DOMAIN fwd : RemoveAt(fwd, i) \in Seq(Ask)
    BY <2>1, RemoveAtType
  <2>3. \A i \in DOMAIN back : RemoveAt(back, i) \in Seq(Tell)
    BY <2>1, RemoveAtType
  <2>4. fwd' \in Seq(Ask) /\ back' \in Seq(Tell)
    BY <2>1, <2>2, <2>3 DEF Lose
  <2> QED
    BY <2>4 DEF Ask, Tell
<1>5. TypeOK'
  BY <1>2, <1>3, <1>4 DEF TypeOK
<1>6. TimerInv' /\ ShutInv'
  BY <1>2 DEF TimerInv, ShutInv
<1>7. NewsInv'
  BY <1>3 DEF NewsInv
<1>8. ReopensInTime'
  <2>1. shut =< Period + Delay + lost * LossCost /\ shut \in Nat
    BY DEF ReopensInTime, TypeOK
  <2>2. shut =< Period + Delay + lost' * LossCost
    BY <1>1, <2>1
  <2> QED
    BY <1>2, <2>2 DEF ReopensInTime
<1>9. WaitInv'
  <2> SUFFICES ASSUME rmt_wnd = 0, nrcv_que = 0
               PROVE  /\ probe_wait > 0 =>
                           shut + ts_probe =< IKCP_PROBE_LIMIT + Period + Delay + lost' * LossCost
                      /\ TimerRuns'
    BY <1>2 DEF WaitInv
  <2>1. probe_wait > 0 =>
          shut + ts_probe =< IKCP_PROBE_LIMIT + Period + Delay + lost * LossCost
    BY DEF WaitInv
  <2>2. shut \in Nat /\ ts_probe \in Int
    BY DEF TypeOK, TimerInv
  <2>3. probe_wait > 0 => shut + ts_probe + Period + Delay =< lost' * LossCost
    BY <1>1, <2>1, <2>2
  <2>4. probe_wait > 0 =>
          shut + ts_probe =< IKCP_PROBE_LIMIT + Period + Delay + lost' * LossCost
    BY <1>1, <2>1, <2>2
  <2> QED
    BY <2>3, <2>4, <1>2, <1>3 DEF TimerRuns
<1> QED
  BY <1>5, <1>6, <1>7, <1>8, <1>9

(* A tick brings what ends the wait as much nearer as the wait gets longer. *)
LEMMA PassStep == ASSUME ProbeAssumption, ProbeInv, Pass PROVE ProbeInv'
<1> USE DEF ProbeInv
<1> DEFINE paid == lost * LossCost
<1>1. /\ {IKCP_PROBE_INIT, IKCP_PROBE_LIMIT, Period} \subseteq Nat \ {0}
      /\ Delay \in Nat /\ paid \in Nat
  BY ProbeFacts
<1>2. /\ rmt_wnd' = rmt_wnd /\ probe_wait' = probe_wait /\ nrcv_que' = nrcv_que
      /\ nrcv_buf' = nrcv_buf /\ answer' = answer /\ lost' = lost /\ paid' = paid
      /\ idle' = idle + 1 /\ idle < Period /\ kept < Period
      /\ kept' = IF answer THEN kept + 1 ELSE 0
      /\ ts_probe' = IF probe_wait = 0 THEN 0 ELSE ts_probe - 1
      /\ shut' = IF rmt_wnd = 0 /\ nrcv_que = 0 THEN shut + 1 ELSE 0
  BY DEF Pass
<1>3. /\ fwd' \in Seq({"WASK", "PUSH"} \X (0 .. Delay))
      /\ DOMAIN fwd' = DOMAIN fwd
      /\ \A i \in DOMAIN fwd : fwd'[i][2] = fwd[i][2] + 1 /\ fwd'[i][2] \in 0 .. Delay
  BY <1>1, AgedPath DEF TypeOK, Pass
<1>4. /\ back' \in Seq((0 .. 1) \X (0 .. Delay))
      /\ DOMAIN back' = DOMAIN back /\ Len(back') = Len(back)
      /\ \A i \in DOMAIN back : /\ back'[i][1] = back[i][1] /\ back'[i][2] = back[i][2] + 1
                                /\ back'[i][2] \in 0 .. Delay
  BY <1>1, AgedPath DEF TypeOK, Pass
<1>5. idle \in 0 .. Period /\ kept \in 0 .. Period /\ shut \in Nat /\ ts_probe \in Int
  BY DEF TypeOK, TimerInv
<1>6. shut' \in Nat /\ idle' \in 0 .. Period /\ kept' \in 0 .. Period
  BY <1>1, <1>2, <1>5
<1>7. TypeOK'
  BY <1>2, <1>3, <1>4, <1>6 DEF TypeOK
<1>8. TimerInv'
  BY <1>1, <1>2, <1>5 DEF TimerInv
<1>9. ShutInv'
  BY <1>2, <1>5 DEF ShutInv
<1>10. NewsInv'
  <2> SUFFICES ASSUME nrcv_que = 0, NEW i \in DOMAIN back, back'[i][1] = 0
               PROVE  answer \/ lost > 0 \/ back'[Len(back)][1] = 1
    BY <1>2, <1>4 DEF NewsInv
  <2>1. answer \/ lost > 0 \/ back[Len(back)][1] = 1
    BY <1>4 DEF NewsInv
  <2>2. Len(back) \in DOMAIN back
    BY DEF TypeOK
  <2> QED
    BY <2>1, <2>2, <1>4
<1>11. CASE rmt_wnd = 0 /\ nrcv_que = 0
  <2>1. /\ probe_wait > 0 => shut + ts_probe =< IKCP_PROBE_LIMIT + Period + Delay + paid
        /\ AnswerDue \/ AnswerComes \/ ProbeComes \/ TimerRuns
    BY <1>11 DEF WaitInv
  <2>2. shut' = shut + 1 /\ (probe_wait > 0 => ts_probe' = ts_probe - 1)
    BY <1>1, <1>2, <1>11 DEF TimerInv
  <2>3. probe_wait' > 0 =>
          shut' + ts_probe' =< IKCP_PROBE_LIMIT + Period + Delay + paid
    BY <2>1, <2>2, <1>1, <1>2, <1>5
  <2>4. CASE AnswerDue
    <3>1. AnswerDue' /\ shut' =< Period + paid
      BY <2>4, <2>2, <1>1, <1>2, <1>5 DEF AnswerDue
    <3> QED
      BY <3>1, <2>3, <1>1, <1>2, <1>6, <1>7, <1>8, <1>9, <1>10 DEF WaitInv, ReopensInTime
  <2>5. CASE AnswerComes
    <3>1. PICK i \in DOMAIN back : back[i][1] = 1 /\ shut =< Period + back[i][2] + paid
      BY <2>5 DEF AnswerComes
    <3>2. back'[i][2] \in 0 .. Delay /\ back[i][2] \in Int /\ back'[i][2] = back[i][2] + 1
      BY <1>4 DEF TypeOK
    <3>3. shut' =< Period + back'[i][2] + paid /\ shut' =< Period + Delay + paid
      BY <3>1, <3>2, <2>2, <1>1, <1>5
    <3>4. AnswerComes'
      BY <3>1, <3>3, <1>2, <1>4 DEF AnswerComes
    <3> QED
      BY <3>3, <3>4, <2>3, <1>2, <1>7, <1>8, <1>9, <1>10 DEF WaitInv, ReopensInTime
  <2>6. CASE ProbeComes
    <3>1. PICK i \in DOMAIN fwd : lost > 0 /\ shut =< fwd[i][2] - Delay + paid
      BY <2>6 DEF ProbeComes
    <3>2. fwd'[i][2] \in 0 .. Delay /\ fwd[i][2] \in Int /\ fwd'[i][2] = fwd[i][2] + 1
      BY <1>3 DEF TypeOK
    <3>3. shut' =< fwd'[i][2] - Delay + paid /\ shut' =< Period + Delay + paid
      BY <3>1, <3>2, <2>2, <1>1, <1>5
    <3>4. ProbeComes'
      BY <3>1, <3>3, <1>2, <1>3 DEF ProbeComes
    <3> QED
      BY <3>3, <3>4, <2>3, <1>2, <1>7, <1>8, <1>9, <1>10 DEF WaitInv, ReopensInTime
  <2>7. CASE TimerRuns
    <3>1. lost > 0 /\ (probe_wait > 0 => shut + ts_probe + Period + Delay =< paid)
      BY <2>7 DEF TimerRuns
    <3>2. TimerRuns'
      BY <3>1, <2>2, <1>1, <1>2, <1>5 DEF TimerRuns
    <3>3. probe_wait = 0 => shut' =< idle'
      BY <1>9, <1>2, <1>11 DEF ShutInv
    <3>4. probe_wait > 0 => ts_probe' >= -idle'
      BY <1>8, <1>2 DEF TimerInv
    <3>5. probe_wait = 0 \/ probe_wait > 0
      BY <1>1 DEF TimerInv
    <3>6. shut' =< Period + Delay + paid
      BY <3>1, <3>3, <3>4, <3>5, <2>2, <1>1, <1>5, <1>6
    <3> QED
      BY <3>2, <3>6, <2>3, <1>2, <1>7, <1>8, <1>9, <1>10 DEF WaitInv, ReopensInTime
  <2> QED
    BY <2>1, <2>4, <2>5, <2>6, <2>7
<1>12. CASE ~(rmt_wnd = 0 /\ nrcv_que = 0)
  <2>1. shut' = 0 /\ WaitInv'
    BY <1>2, <1>12 DEF WaitInv
  <2>2. ReopensInTime'
    BY <2>1, <1>1, <1>2 DEF ReopensInTime
  <2> QED
    BY <2>1, <2>2, <1>7, <1>8, <1>9, <1>10
<1> QED
  BY <1>11, <1>12

(* The invariant is inductive.                                             *)
LEMMA ProbeNext == ASSUME ProbeAssumption PROVE ProbeInv /\ [Next]_vars => ProbeInv'
<1>1. CASE UNCHANGED vars
  BY <1>1 DEF vars, sender, receiver, ProbeInv, TypeOK, TimerInv, ShutInv, NewsInv, WaitInv,
              AnswerDue, AnswerComes, ProbeComes, TimerRuns, ReopensInTime
<1> QED
  BY <1>1, FlushStep, InputStep, PeerInputStep, PeerRecvStep, PeerFlushStep, LoseStep,
     PassStep DEF Next

=============================================================================
