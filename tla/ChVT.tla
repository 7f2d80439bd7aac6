-------------------------------- MODULE ChVT --------------------------------
(***************************************************************************)
(* Virtual timers in tick-less mode, CH_CFG_ST_TIMEDELTA > 0               *)
(* (os/rt/src/chvt.c): a delta list served by one alarm of a free running  *)
(* counter (os/hal/src/hal_st.c on the STM32 TIMv1 port).                  *)
(*                                                                         *)
(* Times are only used as differences modulo the width of systime_t, so    *)
(* the model keeps two of them: the ticks since lasttime and the ticks to  *)
(* the alarm.  A critical section takes no time; what takes time is the    *)
(* way from the alarm to the end of its handler, at most latency ticks.    *)
(***************************************************************************)
EXTENDS Integers, Sequences, SequencesExt

CONSTANTS
  Timers,
  Configs   \* configurations of the kernel, and what they meet; a record of
            \*   timedelta  CH_CFG_ST_TIMEDELTA
            \*   timemod    2 ^ CH_CFG_ST_RESOLUTION, of systime_t
            \*   deltamod   2 ^ CH_CFG_INTERVALS_SIZE, of sysinterval_t
            \*   delays     the delays that are asked for
            \*   horizon    the most that a deadline is asked to be from lasttime
            \*   latency    ticks from the alarm to the end of its handler
            \*   preempts   may another interrupt preempt that handler?

ASSUME VTAssumption ==
  \A c \in Configs :
    /\ c.timedelta \in Nat \ {0} /\ c.timemod \in Nat \ {0}
    /\ c.deltamod \in Nat /\ c.deltamod >= c.timemod
    /\ c.delays \subseteq 1 .. c.deltamod - 1
    /\ c.horizon \in Nat /\ c.latency \in Nat /\ c.preempts \in BOOLEAN

VARIABLES
  vt,      \* ch.vtlist and the alarm
  h,       \* chVTDoTickI: where it is, its local nowdelta, and, as an auxiliary
           \* value, the ticks to the deadline of the timer that it called
  late,    \* ticks since the alarm, until its handler ends
  left,    \* auxiliary: ticks to the deadline of each armed timer
  conf     \* the member of Configs that holds

vtvars == <<vt, h, late, left, conf>>

TIMEDELTA == conf.timedelta
TimeMod == conf.timemod
DeltaMod == conf.deltamod
TIME_MAX_SYSTIME == TimeMod - 1

\* The alarm register as ticks from now, in 1 .. TimeMod; 0 when stopped.
In(n) == ((n - 1) % TimeMod) + 1

-----------------------------------------------------------------------------
(* The delta list *)

\* The sum of the deltas of the first n timers.
Sum(v, n) ==
  LET sum[i \in 0 .. n] == IF i = 0 THEN 0 ELSE sum[i - 1] + v.delta[v.list[i]]
  IN  sum[n]

\* The delta of the first element: the header's is (sysinterval_t)-1.
NextDelta(v) == IF v.list = <<>> THEN DeltaMod - 1 ELSE v.delta[Head(v.list)]

\* Mutant: the following timer keeps its delta.
Insert_keeps(v, t, x) ==
  LET n == CHOOSE i \in 0 .. Len(v.list) :
             /\ i < Len(v.list) => Sum(v, i + 1) >= x
             /\ \A j \in 1 .. i : Sum(v, j) < x
  IN  [v EXCEPT !.list = InsertAt(@, n + 1, t), !.delta[t] = x - Sum(v, n)]

\* The end of chVTDoSetI: t goes behind the timers that expire before x, ticks
\* from lasttime, and its delta is taken from the timer that follows.
Insert(v, t, x) ==
  LET n == CHOOSE i \in 0 .. Len(v.list) :
             /\ i < Len(v.list) => Sum(v, i + 1) >= x
             /\ \A j \in 1 .. i : Sum(v, j) < x
      d == x - Sum(v, n)
      w == [v EXCEPT !.list = InsertAt(@, n + 1, t), !.delta[t] = d]
  IN  IF n = Len(v.list) THEN w ELSE [w EXCEPT !.delta[v.list[n + 1]] = @ - d]

\* The timers that have expired get delta zero, and lasttime moves on by what
\* is left of the time since it.
vt_list_compress(v) ==
  LET n    == CHOOSE i \in 0 .. Len(v.list) :
                /\ i < Len(v.list) => Sum(v, i + 1) >= v.since
                /\ \A j \in 1 .. i : Sum(v, j) < v.since
      rest == v.since - Sum(v, n)
  IN  [v EXCEPT !.since = @ - rest,
                !.delta = [t \in Timers |->
                             CASE \E j \in 1 .. n : v.list[j] = t -> 0
                               [] n < Len(v.list) /\ v.list[n + 1] = t -> v.delta[t] - rest
                               [] OTHER -> v.delta[t]]]

\* port_timer_start_alarm, port_timer_set_alarm and port_timer_stop_alarm; the
\* first also drops a pending interrupt, the last masks it.
Start(v, n) == [v EXCEPT !.alarm = In(n), !.pending = FALSE]
SetAlarm(v, n) == [v EXCEPT !.alarm = In(n)]
Stop(v) == [v EXCEPT !.alarm = 0, !.pending = FALSE]

chVTDoSetI(v, t, delay) ==
  LET d == Max({delay, TIMEDELTA})
      x == (v.since + d) % DeltaMod
  IN  CASE v.list = <<>> ->
             Start([v EXCEPT !.since = 0, !.list = <<t>>, !.delta[t] = d],
                   Min({d, TIME_MAX_SYSTIME}))
        [] v.list # <<>> /\ x < v.since -> Insert(vt_list_compress(v), t, d)
        [] v.list # <<>> /\ x >= v.since /\ x < NextDelta(v) ->
             SetAlarm(Insert(v, t, x), Min({x, TIME_MAX_SYSTIME}) - v.since)
        [] OTHER -> Insert(v, t, x)

\* t leaves the list, its delta goes to the timer that follows.
Unlink(v, t) ==
  LET n == CHOOSE i \in DOMAIN v.list : v.list[i] = t
      w == [v EXCEPT !.list = RemoveAt(@, n)]
  IN  IF n = Len(v.list) THEN w ELSE [w EXCEPT !.delta[v.list[n + 1]] = @ + v.delta[t]]

\* Mutant: the delta is counted from now, not from lasttime.
Rearm_from_now(v) ==
  IF v.since >= NextDelta(v) THEN v
  ELSE SetAlarm(v, Max({TIMEDELTA, Min({NextDelta(v), TIME_MAX_SYSTIME})}))

\* The alarm for a new first timer, unless it is due.
Rearm(v) ==
  CASE v.since >= NextDelta(v) -> v
    [] v.since < NextDelta(v) /\ NextDelta(v) - v.since < TIMEDELTA -> SetAlarm(v, TIMEDELTA)
    [] OTHER -> SetAlarm(v, Min({NextDelta(v), TIME_MAX_SYSTIME}) - v.since)

chVTDoResetI(v, t) ==
  LET w == Unlink(v, t)
  IN  CASE t # Head(v.list) -> w
        [] t = Head(v.list) /\ w.list = <<>> -> Stop(w)
        [] OTHER -> Rearm(w)

-----------------------------------------------------------------------------
(* Calls, from threads and callbacks, and from interrupt handlers that      *)
(* preempt the alarm's                                                     *)

\* Not between the entry of the alarm's handler and its critical section,
\* unless another handler preempts it.
Unlocked == h.at = "enter" => conf.preempts

Armed(t) == t \in Range(vt.list)

chVTSetI(t, delay) ==
  /\ Unlocked
  /\ vt.since + Max({delay, TIMEDELTA}) <= conf.horizon
  /\ vt' = chVTDoSetI(IF Armed(t) THEN chVTDoResetI(vt, t) ELSE vt, t, delay)
  /\ left' = [left EXCEPT ![t] = Max({delay, TIMEDELTA})]
  /\ UNCHANGED <<h, late, conf>>

chVTResetI(t) ==
  /\ Unlocked
  /\ Armed(t)
  /\ vt' = chVTDoResetI(vt, t)
  /\ left' = [left EXCEPT ![t] = 0]
  /\ UNCHANGED <<h, late, conf>>

-----------------------------------------------------------------------------
(* The alarm's handler *)

\* st_lld_serve_interrupt, up to the critical section.
Enter ==
  /\ vt.pending /\ h.at = "none"
  /\ vt' = [vt EXCEPT !.pending = FALSE]
  /\ h' = [h EXCEPT !.at = "enter"]
  /\ UNCHANGED <<late, left, conf>>

\* Mutant: lasttime stays where it was.
Expire_stays(v) ==
  LET w == [v EXCEPT !.list = Tail(@)]
  IN  IF w.list = <<>> THEN Stop(w) ELSE w

\* One timer is taken out of the list, its deadline becomes lasttime.
Expire(v) ==
  LET w == [v EXCEPT !.since = (@ - NextDelta(v)) % TimeMod, !.list = Tail(@)]
  IN  IF w.list = <<>> THEN Stop(w) ELSE w

\* The first timer is called, the kernel unlocked.
Callback(nowdelta) ==
  LET t == Head(vt.list)
  IN  /\ vt' = Expire(vt)
      /\ h' = [at |-> "callback", nowdelta |-> nowdelta - NextDelta(vt), left |-> left[t]]
      /\ left' = [left EXCEPT ![t] = 0]
      /\ UNCHANGED <<late, conf>>

\* The distance of the next alarm.
NextAlarm(v) == Max({TIMEDELTA, Min({v.delta[Head(v.list)], TIME_MAX_SYSTIME})})

\* The end of chVTDoTickI: lasttime becomes now, and the next alarm is set.
Finish ==
  LET w == [vt EXCEPT !.since = 0, !.delta[Head(vt.list)] = @ - vt.since]
  IN  /\ vt' = IF vt.list = <<>> THEN vt ELSE SetAlarm(w, NextAlarm(w))
      /\ h' = [at |-> "none", nowdelta |-> 0, left |-> 0]
      /\ late' = 0
      /\ UNCHANGED <<left, conf>>

\* chVTDoTickI up to the first callback, or to its end.
chVTDoTickI ==
  /\ h.at = "enter"
  /\ IF vt.since >= NextDelta(vt) THEN Callback(vt.since) ELSE Finish

\* It goes on after a callback: the inner loop, the outer loop, or the end.
CallbackReturns ==
  /\ h.at = "callback"
  /\ CASE NextDelta(vt) <= h.nowdelta -> Callback(h.nowdelta)
       [] NextDelta(vt) > h.nowdelta /\ vt.since >= NextDelta(vt) -> Callback(vt.since)
       [] OTHER -> Finish

\* The counter counts.
Tick ==
  /\ vt.pending \/ h.at # "none" => late < conf.latency
  /\ late' = IF vt.pending \/ h.at # "none" THEN late + 1 ELSE 0
  /\ vt' = [vt EXCEPT !.since = (@ + 1) % TimeMod,
                      !.alarm = IF @ = 0 THEN 0 ELSE In(@ - 1),
                      !.pending = @ \/ vt.alarm = 1]
  /\ left' = [t \in Timers |-> IF Armed(t) THEN left[t] - 1 ELSE 0]
  /\ UNCHANGED <<h, conf>>

-----------------------------------------------------------------------------

VTInit ==
  /\ vt = [list |-> <<>>, delta |-> [t \in Timers |-> 0], since |-> 0,
           alarm |-> 0, pending |-> FALSE]
  /\ h = [at |-> "none", nowdelta |-> 0, left |-> 0]
  /\ late = 0
  /\ left = [t \in Timers |-> 0]
  /\ conf \in Configs

VTNext ==
  \/ \E t \in Timers : chVTResetI(t) \/ \E d \in conf.delays : chVTSetI(t, d)
  \/ Enter \/ chVTDoTickI \/ CallbackReturns \/ Tick

VTSpec == VTInit /\ [][VTNext]_vtvars

-----------------------------------------------------------------------------
(* Properties *)

\* The delta list is exact: the deltas up to a timer add up to its deadline,
\* through any sequence of sets and resets, of wrapping times, compressions
\* and expirations, and also while a callback runs.
DeltasExact ==
  \A n \in DOMAIN vt.list : Sum(vt, n) = vt.since + left[vt.list[n]]

\* "Programmed to trigger after the delay specified as parameter": no timer is
\* called before its delay has passed.
NeverEarly == h.at = "callback" => h.left <= 0

\* An armed timer is called no later than TIMEDELTA - 1 ticks, which the next
\* alarm may have been put off, and the latency of the handler after its
\* deadline: no alarm is lost, whoever sets and removes timers before it.
NeverLate ==
  \A t \in Range(vt.list) : left[t] + TIMEDELTA - 1 + conf.latency >= 0

=============================================================================
