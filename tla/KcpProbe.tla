------------------------------ MODULE KcpProbe ------------------------------
(***************************************************************************)
(* How a sender finds out that a closed receive window is open again: the  *)
(* WINS the receiver sends of itself when its user makes room, and the     *)
(* WASK the sender sends ever less often, with time in it.  The window is  *)
(* one segment; the path keeps the order, needs at most Delay and loses at *)
(* most MaxLost segments; each end flushes at least every Period.  A timer *)
(* is what is left of it.                                                  *)
(***************************************************************************)
EXTENDS Integers, Sequences, SequencesExt

CONSTANTS
  IKCP_PROBE_INIT,   \* 7 s in the code
  IKCP_PROBE_LIMIT,  \* 120 s in the code
  Period, Delay, MaxLost,
  NetCap             \* bound: segments in flight when data is sent

ProbeAssumption ==
  /\ {Delay, MaxLost, NetCap} \subseteq Nat
  /\ {IKCP_PROBE_INIT, IKCP_PROBE_LIMIT, Period} \subseteq Nat \ {0}
  /\ IKCP_PROBE_INIT =< IKCP_PROBE_LIMIT

VARIABLES
  rmt_wnd,     \* the sender: the window it was told of, 0 or 1
  probe_wait,  \* the sender: current distance of probes, 0 if not armed
  ts_probe,    \* the sender: ticks left to the next probe
  idle,        \* the sender: ticks since its last flush
  fwd, back,   \* the path: <<command, age>> and <<wnd, age>>
  nrcv_que,    \* the receiver: segments its user has not taken, 0 or 1
  nrcv_buf,    \* the receiver: segments that wait for room, 0 or 1
  answer,      \* the receiver: an ACK or a WINS is due (acklist, probe)
  kept,        \* the receiver: ticks since `answer'
  lost,        \* history: segments lost
  shut         \* history: ticks the sender has thought an open window shut

sender == <<rmt_wnd, probe_wait, ts_probe, idle>>
receiver == <<nrcv_que, nrcv_buf, answer, kept>>
vars == <<sender, fwd, back, receiver, lost, shut>>

Init ==
  /\ rmt_wnd = 1 /\ probe_wait = 0 /\ ts_probe = 0 /\ idle = 0
  /\ fwd = << >> /\ back = << >>
  /\ nrcv_que = 0 /\ nrcv_buf = 0 /\ answer = FALSE /\ kept = 0
  /\ lost = 0 /\ shut = 0

-----------------------------------------------------------------------------
(* The sender.                                                             *)

Min2(a, b) == IF a =< b THEN a ELSE b

(* Mutant of Backoff: probes get rarer without end.                        *)
BackoffUnlimited(wait) == wait + wait \div 2

Backoff(wait) == Min2(wait + wait \div 2, IKCP_PROBE_LIMIT)

(* The timer of the window probe in ikcp_flush: armed by the first flush   *)
(* that finds the window shut, disarmed by the first that finds it open.   *)
ProbeTimer(wait, left, ask) ==
  IF rmt_wnd > 0 THEN wait = 0 /\ left = 0 /\ ~ask
  ELSE IF probe_wait = 0
       THEN wait = IKCP_PROBE_INIT /\ left = wait /\ ~ask
  ELSE IF ts_probe > 0
       THEN wait = probe_wait /\ left = ts_probe /\ ~ask
  ELSE wait = Backoff(probe_wait) /\ left = wait /\ ask

(* ikcp_flush: a probe if it is due, and data while the window is open.    *)
ikcp_flush ==
  /\ \E ask, data \in BOOLEAN :
       /\ ProbeTimer(probe_wait', ts_probe', ask)
       /\ data => rmt_wnd > 0 /\ Len(fwd) + Len(back) < NetCap
       /\ fwd' = fwd \o (IF ask THEN << <<"WASK", 0>> >> ELSE << >>)
                     \o (IF data THEN << <<"PUSH", 0>> >> ELSE << >>)
  /\ idle' = 0
  /\ UNCHANGED <<rmt_wnd, back, receiver, lost, shut>>

(* ikcp_input: every segment carries the receiver's window.                *)
ikcp_input ==
  /\ back # << >>
  /\ rmt_wnd' = Head(back)[1]
  /\ back' = Tail(back)
  /\ shut' = IF rmt_wnd' > 0 THEN 0 ELSE shut
  /\ UNCHANGED <<probe_wait, ts_probe, idle, fwd, receiver, lost>>

-----------------------------------------------------------------------------
(* The receiver.                                                           *)

(* ikcp_input: a probe asks for a WINS.  A data segment is acknowledged    *)
(* whether it is a new one, which fills rcv_queue or waits in rcv_buf, or  *)
(* a repeated one, which is dropped.                                       *)
PeerInput ==
  /\ fwd # << >>
  /\ fwd' = Tail(fwd)
  /\ answer' = TRUE
  /\ \/ UNCHANGED <<nrcv_que, nrcv_buf>>
     \/ /\ Head(fwd)[1] = "PUSH"
        /\ nrcv_que' = 1
        /\ nrcv_buf' = IF nrcv_que = 1 THEN 1 ELSE nrcv_buf
  /\ shut' = IF nrcv_que' = 1 THEN 0 ELSE shut
  /\ UNCHANGED <<sender, back, kept, lost>>

(* Mutant of PeerRecv: the receiver does not tell of the room it has.      *)
PeerRecvSilent ==
  /\ nrcv_que = 1
  /\ nrcv_que' = nrcv_buf
  /\ nrcv_buf' = 0
  /\ UNCHANGED <<sender, fwd, back, answer, kept, lost, shut>>

(* ikcp_recv: takes the message, moves the next one up, and tells the      *)
(* sender if a full queue now has room.                                    *)
PeerRecv ==
  /\ nrcv_que = 1
  /\ nrcv_que' = nrcv_buf
  /\ nrcv_buf' = 0
  /\ answer' = (answer \/ nrcv_buf = 0)
  /\ UNCHANGED <<sender, fwd, back, kept, lost, shut>>

PeerFlush ==
  /\ answer
  /\ back' = Append(back, <<1 - nrcv_que, 0>>)
  /\ answer' = FALSE
  /\ kept' = 0
  /\ UNCHANGED <<sender, fwd, nrcv_que, nrcv_buf, lost, shut>>

-----------------------------------------------------------------------------
(* The path and the clock.                                                 *)

Lose ==
  /\ lost < MaxLost
  /\ lost' = lost + 1
  /\ \/ \E i \in DOMAIN fwd : fwd' = RemoveAt(fwd, i) /\ back' = back
     \/ \E i \in DOMAIN back : back' = RemoveAt(back, i) /\ fwd' = fwd
  /\ UNCHANGED <<sender, receiver, shut>>

Aged(path) == [i \in DOMAIN path |-> <<path[i][1], path[i][2] + 1>>]

Young(path) == \A i \in DOMAIN path : path[i][2] < Delay

(* A tick, unless a flush or an arrival must come first.                   *)
Pass ==
  /\ idle < Period
  /\ kept < Period
  /\ Young(fwd) /\ Young(back)
  /\ idle' = idle + 1
  /\ kept' = IF answer THEN kept + 1 ELSE 0
  /\ fwd' = Aged(fwd) /\ back' = Aged(back)
  /\ ts_probe' = IF probe_wait = 0 THEN 0 ELSE ts_probe - 1
  /\ shut' = IF rmt_wnd = 0 /\ nrcv_que = 0 THEN shut + 1 ELSE 0
  /\ UNCHANGED <<rmt_wnd, probe_wait, nrcv_que, nrcv_buf, answer, lost>>

Next ==
  \/ ikcp_flush \/ ikcp_input
  \/ PeerInput \/ PeerRecv \/ PeerFlush \/ Lose \/ Pass

Spec == Init /\ [][Next]_vars

-----------------------------------------------------------------------------
(* Properties.                                                             *)

(* The longest distance of two probes, a flush of each end and a round     *)
(* trip.  The flushes are two, not one: a WASK that comes while an answer  *)
(* is due is answered by that one, and its WINS can be lost.               *)
LossCost == IKCP_PROBE_LIMIT + 2 * Period + 2 * Delay

(* Once the receiver has room its sender knows after one flush and one way *)
(* of the path; every segment lost on the way, a WASK or a WINS, costs at  *)
(* most LossCost.                                                          *)
ReopensInTime == shut =< Period + Delay + lost * LossCost

-----------------------------------------------------------------------------
(* The inductive invariant behind ReopensInTime.                           *)

TypeOK ==
  /\ {rmt_wnd, nrcv_que, nrcv_buf} \subseteq 0 .. 1
  /\ answer \in BOOLEAN
  /\ {idle, kept} \subseteq 0 .. Period
  /\ {lost, shut} \subseteq Nat
  /\ fwd \in Seq({"WASK", "PUSH"} \X (0 .. Delay))
  /\ back \in Seq((0 .. 1) \X (0 .. Delay))

(* The timer is less than Period late, since flushes are frequent.         *)
TimerInv ==
  /\ probe_wait \in 0 .. IKCP_PROBE_LIMIT
  /\ ts_probe \in Int
  /\ probe_wait > 0 => -idle =< ts_probe /\ ts_probe =< IKCP_PROBE_LIMIT

(* An end that knows better is not waiting; one that waits without a timer *)
(* has not flushed since.                                                  *)
ShutInv ==
  /\ rmt_wnd = 1 \/ nrcv_que = 1 => shut = 0
  /\ rmt_wnd = 0 /\ probe_wait = 0 => shut =< idle

(* Behind the news that the window was shut, the news that it is open is   *)
(* due or on its way, unless it was lost.                                  *)
NewsInv ==
  nrcv_que = 0 /\ (\E i \in DOMAIN back : back[i][1] = 0) =>
    answer \/ lost > 0 \/ back[Len(back)][1] = 1

(* What ends the wait: an answer due, one on its way, a probe on its way,  *)
(* or the timer.                                                           *)
AnswerDue == answer /\ shut =< kept + lost * LossCost

AnswerComes ==
  \E i \in DOMAIN back : back[i][1] = 1 /\ shut =< Period + back[i][2] + lost * LossCost

ProbeComes ==
  lost > 0 /\ \E i \in DOMAIN fwd : shut =< fwd[i][2] - Delay + lost * LossCost

TimerRuns ==
  lost > 0 /\ (probe_wait > 0 => shut + ts_probe + Period + Delay =< lost * LossCost)

WaitInv ==
  rmt_wnd = 0 /\ nrcv_que = 0 =>
    /\ probe_wait > 0 =>
         shut + ts_probe =< IKCP_PROBE_LIMIT + Period + Delay + lost * LossCost
    /\ AnswerDue \/ AnswerComes \/ ProbeComes \/ TimerRuns

ProbeInv == TypeOK /\ TimerInv /\ ShutInv /\ NewsInv /\ WaitInv /\ ReopensInTime

=============================================================================
