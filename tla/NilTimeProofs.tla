--------------------------- MODULE NilTimeProofs ---------------------------
(***************************************************************************)
(* The timed waits of the NIL kernel for any number of threads, any width  *)
(* of its time and any timeouts: each ends at its time, in the tickless    *)
(* mode and in the mode with a tick.                                       *)
(***************************************************************************)
EXTENDS NilProofs

-----------------------------------------------------------------------------
(* The arithmetic of times *)

\* Sums and differences of times wrap at most once.
LEMMA Wraps ==
  ASSUME NEW x \in Int
  PROVE  /\ 0 <= x /\ x < W => x % W = x
         /\ W <= x /\ x < 2 * W => x % W = x - W
         /\ -W <= x /\ x < 0 => x % W = x + W
         /\ x % W \in Int /\ 0 <= x % W /\ x % W < W
<1> USE NilAssumption
<1>1. 0 <= x /\ x < W => x % W = x
  OBVIOUS
<1>2. W <= x /\ x < 2 * W => x % W = x - W
  OBVIOUS
<1>3. -W <= x /\ x < 0 => x % W = x + W
  OBVIOUS
<1>4. x % W \in Int /\ 0 <= x % W /\ x % W < W
  OBVIOUS
<1> QED
  BY <1>1, <1>2, <1>3, <1>4, Zenon

\* Timeouts of a periodic tick: before the tick, in it, and after a thread was
\* visited.
LEMMA TickSums ==
  ASSUME NEW now \in Times, NEW to \in Times, to > 0
  PROVE  /\ (((now + 1) % W) - 1 + to) % W = (now + to) % W
         /\ (to - 1) % W = to - 1
         /\ (now + to) % W # now
<1> DEFINE n == (now + 1) % W
<1>0. W \in Nat /\ now \in Nat /\ to \in Nat /\ now < W /\ to < W
  BY NilAssumption DEF Times
<1>1. (now + 1 < W => n = now + 1) /\ (now + 1 = W => n = 0)
  BY <1>0, Wraps
<1>2. n - 1 = now \/ (n - 1 = -1 /\ now = W - 1)
  BY <1>0, <1>1
<1> HIDE DEF n
<1>3. n \in Int
  BY <1>0, <1>2, <1>1
<1>4. (n - 1 + to) % W = (now + to) % W
  <2>1. CASE n - 1 = now
    BY <2>1
  <2>2. CASE n - 1 = -1 /\ now = W - 1
    <3>1. (n - 1 + to) % W = to - 1 
      BY <1>0, <1>3, <2>2, Wraps
    <3>2. (now + to) % W = to - 1
      BY <1>0, <2>2, Wraps
    <3> QED
      BY <3>1, <3>2
  <2> QED
    BY <1>2, <2>1, <2>2
<1>5. (to - 1) % W = to - 1
  BY <1>0, Wraps
<1>6. (now + to) % W # now
  <2>1. now + to < W => (now + to) % W = now + to
    BY <1>0, Wraps
  <2>2. now + to >= W => (now + to) % W = now + to - W
    BY <1>0, Wraps
  <2> QED
    BY <1>0, <2>1, <2>2
<1> QED
  BY <1>4, <1>5, <1>6 DEF n

\* Differences to a base time.
LEMMA Differences ==
  ASSUME NEW last \in Times, NEW x \in Times
  PROVE  /\ (x - last) % W = IF last <= x THEN x - last ELSE x - last + W
         /\ (x - last) % W \in Times
         /\ (last + ((x - last) % W)) % W = x
<1>0. W \in Nat /\ last \in Nat /\ x \in Nat /\ last < W /\ x < W
  BY NilAssumption DEF Times
<1> DEFINE d == (x - last) % W
<1>1. d = IF last <= x THEN x - last ELSE x - last + W
  <2>1. last <= x => d = x - last
    BY <1>0, Wraps
  <2>2. last > x => d = x - last + W
    BY <1>0, Wraps
  <2> HIDE DEF d
  <2> QED
    BY <1>0, <2>1, <2>2
<1> HIDE DEF d
<1>2. d \in Times
  BY <1>0, <1>1 DEF Times
<1>3. (last + d) % W = x
  <2>1. CASE last <= x
    <3>1. last + d = x
      BY <1>0, <1>1, <2>1
    <3> QED
      BY <1>0, <3>1, Wraps
  <2>2. CASE last > x
    <3>1. last + d = x + W
      BY <1>0, <1>1, <2>2
    <3> QED
      BY <1>0, <3>1, Wraps
  <2> QED
    BY <1>0, <2>1, <2>2
<1> QED
  BY <1>1, <1>2, <1>3, Zenon DEF d

\* Sums with a base time.
LEMMA Sums ==
  ASSUME NEW last \in Times, NEW y \in Times
  PROVE  /\ (last + y) % W = IF last + y < W THEN last + y ELSE last + y - W
         /\ (last + y) % W \in Times
         /\ (((last + y) % W) - last) % W = y
<1>0. W \in Nat /\ last \in Nat /\ y \in Nat /\ last < W /\ y < W
  BY NilAssumption DEF Times
<1> DEFINE s == (last + y) % W
<1>1. s = IF last + y < W THEN last + y ELSE last + y - W
  <2>1. last + y < W => s = last + y
    BY <1>0, Wraps
  <2>2. last + y >= W => s = last + y - W
    BY <1>0, Wraps
  <2> HIDE DEF s
  <2> QED
    BY <1>0, <2>1, <2>2
<1> HIDE DEF s
<1>2. s \in Times
  BY <1>0, <1>1 DEF Times
<1>3. (s - last) % W = IF last <= s THEN s - last ELSE s - last + W
  BY <1>2, Differences
<1>4. (s - last) % W = y
  BY <1>0, <1>1, <1>2, <1>3
<1> QED
  BY <1>1, <1>2, <1>4 DEF s

\* One base time after another: a timeout from last, and what is left of it at next.
LEMMA Rebase ==
  ASSUME NEW last \in Times, NEW next \in Times, NEW to \in Times, (next - last) % W <= to
  PROVE  /\ (to - ((next - last) % W)) % W = to - ((next - last) % W)
         /\ (next + (to - ((next - last) % W))) % W = (last + to) % W
<1> DEFINE d == (next - last) % W
           left == to - d
<1>0. W \in Nat /\ last \in Nat /\ next \in Nat /\ to \in Nat /\ last < W /\ next < W /\ to < W
  BY NilAssumption DEF Times
<1>1. d = (IF last <= next THEN next - last ELSE next - last + W) /\ d \in Times /\ d <= to
  BY Differences
<1> HIDE DEF d
<1>2. left \in Times
  BY <1>0, <1>1 DEF Times
<1>3. left % W = left
  BY <1>0, <1>2, Wraps DEF Times
<1>4. (next + left) % W = IF next + left < W THEN next + left ELSE next + left - W
  BY <1>2, Sums, Zenon
<1>5. (last + to) % W = IF last + to < W THEN last + to ELSE last + to - W
  BY Sums, Zenon
<1>6. next + left = last + to \/ next + left = last + to + W \/ next + left = last + to - W
  BY <1>0, <1>1
<1>7. (next + left) % W = (last + to) % W
  <2>1. left \in Nat /\ next + left < 2 * W /\ last + to < 2 * W /\ next + left >= 0
    BY <1>0, <1>2 DEF Times
  <2> HIDE DEF left
  <2> QED
    BY <1>0, <1>4, <1>5, <1>6, <2>1
<1> QED
  BY <1>3, <1>7, Zenon DEF d

\* The counter of the time moves on, not beyond the next alarm.
LEMMA MovesOn ==
  ASSUME NEW last \in Times, NEW next \in Times, NEW now \in Times, now # next,
         (now - last) % W <= (next - last) % W
  PROVE  (((now + 1) % W) - last) % W <= (next - last) % W
<1> DEFINE d == (next - last) % W
           e == (now - last) % W
           n == (now + 1) % W
           f == (n - last) % W
<1>0. W \in Nat /\ last \in Nat /\ next \in Nat /\ now \in Nat /\ last < W /\ next < W /\ now < W
  BY NilAssumption DEF Times
<1>1. d = (IF last <= next THEN next - last ELSE next - last + W)
  BY Differences
<1>2. e = (IF last <= now THEN now - last ELSE now - last + W)
  BY Differences
<1>3. (now + 1 < W => n = now + 1) /\ (now + 1 = W => n = 0)
  BY <1>0, Wraps
<1>4. e <= d
  OBVIOUS
<1> HIDE DEF d, e, n
<1>5. n \in Times
  BY <1>0, <1>3 DEF Times
<1>6. f = IF last <= n THEN n - last ELSE n - last + W
  BY <1>5, Differences
<1> HIDE DEF f
<1>7. f <= d
  BY <1>0, <1>1, <1>2, <1>3, <1>4, <1>6
<1> QED
  BY <1>7 DEF f, d, n

\* A wait that begins at now and ends less than W ticks after the base time.
LEMMA Begins ==
  ASSUME NEW last \in Times, NEW now \in Times, NEW ticks \in Times, ((now - last) % W) + ticks < W
  PROVE  /\ (now + ticks) % W \in Times
         /\ (((now + ticks) % W) - last) % W = ((now - last) % W) + ticks
<1> DEFINE e == (now - last) % W
           a == (now + ticks) % W
           f == (a - last) % W
<1>0. W \in Nat /\ last \in Nat /\ ticks \in Nat /\ now \in Nat /\ last < W /\ ticks < W /\ now < W
  BY NilAssumption DEF Times
<1>1. e = (IF last <= now THEN now - last ELSE now - last + W) /\ e + ticks < W
  BY Differences
<1>2. a = (IF now + ticks < W THEN now + ticks ELSE now + ticks - W) /\ a \in Times
  BY Sums, Zenon
<1> HIDE DEF e, a
<1>3. f = IF last <= a THEN a - last ELSE a - last + W
  BY <1>2, Differences, Zenon
<1> HIDE DEF f
<1>4. f = e + ticks
  BY <1>0, <1>1, <1>2, <1>3
<1> QED
  BY <1>2, <1>4 DEF e, a, f

-----------------------------------------------------------------------------
(* The invariant of timed waits *)

\* The time from nil.lasttime to nil.nexttime.
Span == chTimeDiffX(clock.lasttime, clock.nexttime)

Visited(t) == isr = "tick" /\ t < scan.tp

\* What the timeout of t counts from, with a periodic tick.
TickBase(t) == IF isr = "tick" /\ ~Visited(t) THEN clock.now - 1 ELSE clock.now

\* The wait of t for to more ticks ends at d, and the alarm is not later.
Counted(t, to, d) ==
  /\ to < W
  /\ delta = 0 => d = (TickBase(t) + to) % W
  /\ delta > 0 /\ Visited(t) => d = (clock.nexttime + to) % W /\ 1 <= scan.next /\ scan.next <= to
  /\ delta > 0 /\ ~Visited(t) => d = (clock.lasttime + to) % W /\ 0 < Span /\ Span <= to

AllCounted == \A t \in Thds : nil.timeout[t] > 0 => Counted(t, nil.timeout[t], nil.due[t])

\* The alarm is set when nil.nexttime is another time than nil.lasttime, and was
\* not missed.
AlarmOK ==
  delta > 0 => /\ clock.alarm <=> 0 < Span
               /\ 0 < Span => Elapsed <= Span
               /\ isr = "tick" => clock.now = clock.nexttime /\ clock.alarm

TimeInv == AllCounted /\ AlarmOK

\* In r no timeout runs that is not the one of now.
Lapses(r) ==
  \A t \in Thds : r.timeout[t] = 0 \/ (r.timeout[t] = nil.timeout[t] /\ r.due[t] = nil.due[t])

\* The step is none of time.
LEMMA QuietStep ==
  ASSUME TimeInv, Lapses(nil'), scan' = scan, clock' = clock, delta' = delta, isr' = "tick" <=> isr = "tick"
  PROVE  TimeInv'
<1>1. Span' = Span /\ Elapsed' = Elapsed
  BY Zenon DEF Span, Elapsed
<1>2. AlarmOK'
  BY <1>1, Zenon DEF TimeInv, AlarmOK
<1>3. ASSUME NEW t \in Thds, nil'.timeout[t] > 0 PROVE Counted(t, nil.timeout[t], nil.due[t])'
  <2>1. nil'.timeout[t] = nil.timeout[t] /\ nil'.due[t] = nil.due[t]
    <3>1. nil'.timeout[t] # 0
      BY <1>3
    <3> QED
      BY <3>1, Zenon DEF Lapses
  <2>2. Counted(t, nil.timeout[t], nil.due[t])
    BY <1>3, <2>1, Zenon DEF TimeInv, AllCounted
  <2>3. Visited(t)' <=> Visited(t)
    BY Zenon DEF Visited
  <2>4. TickBase(t)' = TickBase(t)
    BY <2>3, Zenon DEF TickBase
  <2> QED
    BY <1>1, <2>1, <2>2, <2>3, <2>4, Zenon DEF Counted
<1> QED
  BY <1>2, <1>3, Zenon DEF TimeInv, AllCounted

\* chSchReadyI and nil_ready_all end timeouts, and begin none.
LEMMA ReadyLapses ==
  ASSUME NilTypeOK, NEW w, NEW m, NEW o, NEW c
  PROVE  /\ Lapses(chSchReadyI(nil, w, m)) /\ Lapses(Reschedule(chSchReadyI(nil, w, m)))
         /\ Lapses(nil_ready_all(nil, o, c, m)) /\ Lapses(Reschedule(nil_ready_all(nil, o, c, m)))
         /\ Lapses(nil) /\ Lapses(Reschedule(nil))
<1>1. nil \in NilRecords /\ nil.timeout \in [All -> Nat] /\ nil.due \in [All -> Nat]
  BY TypeParts, Parts, Zenon
<1>2. Lapses(chSchReadyI(nil, w, m)) /\ Lapses(Reschedule(chSchReadyI(nil, w, m)))
  <2> DEFINE r == chSchReadyI(nil, w, m)
             q == Reschedule(r)
  <2>1. r.timeout = [nil.timeout EXCEPT ![w] = 0] /\ r.due = [nil.due EXCEPT ![w] = 0]
    BY <1>1 DEF chSchReadyI, NilRecords
  <2>2. q.timeout = [nil.timeout EXCEPT ![w] = 0] /\ q.due = [nil.due EXCEPT ![w] = 0]
    BY <1>1 DEF chSchReadyI, Reschedule, NilRecords
  <2> HIDE DEF r, q
  <2>3. \A t \in All : r.timeout[t] = 0 \/ (r.timeout[t] = nil.timeout[t] /\ r.due[t] = nil.due[t])
    BY <1>1, <2>1
  <2>4. Lapses(r)
    BY <2>3, Numbers, Zenon DEF Lapses
  <2>5. Lapses(q)
    <3>1. q.timeout = r.timeout /\ q.due = r.due
      BY <2>1, <2>2, Zenon
    <3> QED
      BY <2>4, <3>1, Zenon DEF Lapses
  <2> QED
    BY <2>4, <2>5, Zenon DEF r, q
<1>3. Lapses(nil_ready_all(nil, o, c, m)) /\ Lapses(Reschedule(nil_ready_all(nil, o, c, m)))
  <2> DEFINE r == nil_ready_all(nil, o, c, m)
             q == Reschedule(r)
             all == Waiters(nil, "WTQUEUE", o)
             ws == {t \in all : Cardinality({x \in all : x < t}) < -c}
             u2 == [t \in 1 .. idle |-> IF t \in ws THEN Kept(t, m) ELSE nil.u1[t]]
             st2 == [t \in 1 .. idle |-> IF t \in ws THEN "READY" ELSE nil.state[t]]
             to2 == [t \in 1 .. idle |-> IF t \in ws THEN 0 ELSE nil.timeout[t]]
             due2 == [t \in 1 .. idle |-> IF t \in ws THEN 0 ELSE nil.due[t]]
             nx == Min(ws \cup {nil.next})
  <2>1. r = [nil EXCEPT !.u1 = u2, !.state = st2, !.timeout = to2, !.due = due2, !.next = nx]
    BY Zenon DEF nil_ready_all
  <2>2. \A t \in All : to2[t] = 0 \/ (to2[t] = nil.timeout[t] /\ due2[t] = nil.due[t])
    BY Zenon DEF All
  <2>3. q = [r EXCEPT !.current = r.next]
    BY Zenon DEF Reschedule
  <2> HIDE DEF r, q, u2, st2, to2, due2, nx
  <2>4. r.timeout = to2 /\ r.due = due2
    BY <1>1, <2>1 DEF NilRecords
  <2>5. q.timeout = to2 /\ q.due = due2
    BY <1>1, <2>1, <2>3 DEF NilRecords
  <2>6. Lapses(r) /\ Lapses(q)
    BY <2>2, <2>4, <2>5, Numbers, Zenon DEF Lapses
  <2> QED
    BY <2>6, Zenon DEF r, q
<1>4. Lapses(nil) /\ Lapses(Reschedule(nil))
  <2>1. Reschedule(nil).timeout = nil.timeout /\ Reschedule(nil).due = nil.due
    BY <1>1 DEF Reschedule, NilRecords
  <2> QED
    BY <2>1, Zenon DEF Lapses
<1> QED
  BY <1>2, <1>3, <1>4, Zenon

\* A call that ends with a reschedule or in a handler.
LEMMA NotifyTime ==
  ASSUME TimeInv, NEW r, Lapses(r), Lapses(Reschedule(r)), Notify(r), UNCHANGED timevars
  PROVE  TimeInv'
<1>1. scan' = scan /\ clock' = clock /\ delta' = delta
  BY Zenon DEF timevars
<1>2. isr' = "tick" <=> isr = "tick"
  BY DEF Notify
<1>4. Lapses(nil')
  BY Zenon DEF Notify
<1> QED
  BY <1>1, <1>2, <1>4, QuietStep, Zenon

\* Times in the differences of the model.
LEMMA Spans ==
  ASSUME NilInv
  PROVE  /\ Span \in Times /\ Elapsed \in Times
         /\ Span = (clock.nexttime - clock.lasttime) % W
         /\ Elapsed = (clock.now - clock.lasttime) % W
         /\ Times \subseteq Nat /\ W \in Nat
<1>1. clock.now \in Times /\ clock.lasttime \in Times /\ clock.nexttime \in Times
  BY TimeParts, Zenon
<1>2. Span = (clock.nexttime - clock.lasttime) % W /\ Elapsed = (clock.now - clock.lasttime) % W
  BY Zenon DEF Span, Elapsed, chTimeDiffX
<1>3. Span \in Times /\ Elapsed \in Times
  BY <1>1, <1>2, Differences, Zenon
<1> QED
  BY <1>2, <1>3, Numbers, Zenon

\* The ticks that a wait lasts at least, and the time at which it is to end.
Ticks(timeout) == IF timeout < delta THEN delta ELSE timeout
Abstime(timeout) == chTimeAddX(clock.now, Ticks(timeout))

\* The timeout, the deadline and the alarm when the current thread has gone to
\* sleep, from n.
SleptFor(n, timeout) ==
  /\ \A t \in All : t # cur => nil'.timeout[t] = n.timeout[t] /\ nil'.due[t] = n.due[t]
  /\ timeout = 0 => nil'.timeout[cur] = 0 /\ clock' = clock
  /\ delta = 0 => clock' = clock
  /\ timeout # 0 /\ delta = 0 => nil'.timeout[cur] = timeout
  /\ timeout # 0 /\ delta > 0 =>
       /\ Elapsed + Ticks(timeout) < W
       /\ nil'.timeout[cur] = (Abstime(timeout) - clock.lasttime) % W
       /\ clock' = IF Earlier(Abstime(timeout))
                   THEN [clock EXCEPT !.nexttime = Abstime(timeout), !.alarm = TRUE]
                   ELSE clock
  /\ timeout # 0 => nil'.due[cur] = Abstime(timeout)
  /\ isr' = isr /\ scan' = scan /\ delta' = delta

\* That is what chSchGoSleepTimeoutS does.
LEMMA SleepTimes ==
  ASSUME NilInv, Sleeps, NEW n \in NilRecords, NEW s, NEW timeout \in 0 .. MaxSleep, NEW then,
         GoSleep(n, s, timeout, then), ~OverLasttime, n.timeout[cur] = 0
  PROVE  SleptFor(n, timeout)
<1> DEFINE ticks == Ticks(timeout)
           abstime == Abstime(timeout)
<1> DEFINE timed   == timeout # TIME_INFINITE
           field   == CASE ~timed -> n.timeout[cur]
                        [] timed /\ delta = 0 -> timeout
                        [] OTHER -> (abstime - clock.lasttime) % W
           d       == IF timed THEN abstime ELSE 0
           st2     == [n.state EXCEPT ![cur] = s]
           to2     == [n.timeout EXCEPT ![cur] = field]
           due2    == [n.due EXCEPT ![cur] = d]
           slept   == [n EXCEPT !.state = st2, !.timeout = to2, !.due = due2]
           ntp     == Min(ReadyOnes(slept))
<1>1. /\ timed /\ delta > 0 => OverLasttime \/ Elapsed + ticks < W
      /\ nil' = [slept EXCEPT !.current = ntp, !.next = ntp]
      /\ clock' = IF timed /\ delta > 0 /\ Earlier(abstime)
                  THEN [clock EXCEPT !.nexttime = abstime, !.alarm = TRUE]
                  ELSE clock
      /\ isr' = isr /\ scan' = scan /\ delta' = delta
  BY DEF GoSleep, Ticks, Abstime
<1> HIDE DEF ticks, abstime
<1>2. timed <=> timeout # 0
  BY DEF TIME_INFINITE
<1>3. /\ timeout = 0 => field = 0
      /\ timeout # 0 /\ delta = 0 => field = timeout
      /\ timeout # 0 /\ delta > 0 => field = (abstime - clock.lasttime) % W
      /\ timeout # 0 => d = abstime
  <2>1. ASSUME timeout = 0 PROVE field = 0
    BY <1>2, <2>1, Zenon
  <2>2. ASSUME timeout # 0, delta = 0 PROVE field = timeout
    BY <1>2, <2>2, Zenon
  <2>3. ASSUME timeout # 0, delta > 0 PROVE field = (abstime - clock.lasttime) % W
    <3>1. delta # 0
      BY <2>3
    <3> QED
      BY <1>2, <2>3, <3>1, Zenon
  <2>4. ASSUME timeout # 0 PROVE d = abstime
    BY <1>2, <2>4, Zenon
  <2> QED
    BY <2>1, <2>2, <2>3, <2>4, Zenon
<1>4. /\ cur \in All /\ n.timeout \in [All -> Nat] /\ n.due \in [All -> Nat]
  BY CurrentIs, Numbers, Parts, Zenon
<1>5. (delta = 0 => ~(delta > 0)) /\ clock' = IF timed /\ delta > 0 /\ Earlier(abstime)
                  THEN [clock EXCEPT !.nexttime = abstime, !.alarm = TRUE]
                  ELSE clock
  BY <1>1
<1> HIDE DEF field, d
<1>6. /\ to2[cur] = field /\ due2[cur] = d
      /\ \A t \in All : t # cur => to2[t] = n.timeout[t] /\ due2[t] = n.due[t]
  BY <1>4
<1> HIDE DEF st2, to2, due2, ntp
<1>7. nil'.timeout = to2 /\ nil'.due = due2
  BY <1>1 DEF NilRecords
<1> HIDE DEF timed, slept
<1>8. /\ timeout = 0 => clock' = clock
      /\ delta = 0 => clock' = clock
      /\ timeout # 0 /\ delta > 0 =>
           /\ Elapsed + ticks < W
           /\ clock' = IF Earlier(abstime) THEN [clock EXCEPT !.nexttime = abstime, !.alarm = TRUE] ELSE clock
  BY <1>1, <1>2, <1>5, Zenon
<1>9. /\ \A t \in All : t # cur => nil'.timeout[t] = n.timeout[t] /\ nil'.due[t] = n.due[t]
      /\ nil'.timeout[cur] = field /\ nil'.due[cur] = d
  BY <1>6, <1>7, Zenon
<1> QED
  BY <1>1, <1>3, <1>8, <1>9, Zenon DEF SleptFor, ticks, abstime

\* A wait that begins leaves timeouts counted, and the alarm on time.
LEMMA SleepTime ==
  ASSUME NilInv, TimeInv, Sleeps, ~OverLasttime, NEW n \in NilRecords, Lapses(n),
         NEW s, NEW timeout \in 0 .. MaxSleep, NEW then, GoSleep(n, s, timeout, then)
  PROVE  TimeInv'
<1> DEFINE ticks == Ticks(timeout)
           abstime == Abstime(timeout)
           F == (abstime - clock.lasttime) % W
<1>1. isr = "none" /\ cur \in Thds /\ n.timeout[cur] = 0 /\ Thds \subseteq All
  BY CurrentIs, Numbers, Zenon DEF Lapses
<1>2. /\ clock.now \in Times /\ clock.lasttime \in Times /\ clock.nexttime \in Times /\ delta \in Nat
      /\ clock \in ClockRecords
  BY TimeParts, Zenon DEF TimeOK
<1>3. timeout \in Times /\ delta \in Times /\ ticks \in Times /\ ticks >= timeout /\ (delta = 0 => ticks = timeout)
  <2>1. delta \in Deltas
    BY TimeParts, Zenon DEF TimeOK
  <2>2. timeout \in Times /\ delta \in Times
    BY <2>1, NilAssumption DEF Times
  <2> QED
    BY <2>2 DEF Times, Ticks
<1>4. /\ \A t \in All : t # cur => nil'.timeout[t] = n.timeout[t] /\ nil'.due[t] = n.due[t]
      /\ timeout = 0 => nil'.timeout[cur] = 0 /\ clock' = clock
      /\ delta = 0 => clock' = clock
      /\ timeout # 0 /\ delta = 0 => nil'.timeout[cur] = timeout
      /\ timeout # 0 /\ delta > 0 =>
           /\ Elapsed + ticks < W /\ nil'.timeout[cur] = F
           /\ clock' = IF Earlier(abstime) THEN [clock EXCEPT !.nexttime = abstime, !.alarm = TRUE]
                                           ELSE clock
      /\ timeout # 0 => nil'.due[cur] = abstime
      /\ isr' = isr /\ scan' = scan /\ delta' = delta
  <2>1. SleptFor(n, timeout)
    BY <1>1, SleepTimes, Zenon
  <2> QED
    BY <2>1, Zenon DEF SleptFor
<1>5. abstime = (clock.now + ticks) % W /\ (Earlier(abstime) <=> clock.lasttime = clock.nexttime \/ F < Span)
  BY Zenon DEF Earlier, chTimeIsInRangeX, chTimeAddX, chTimeDiffX, Span, Abstime
<1> HIDE DEF ticks, abstime, F
<1>6. ASSUME NEW t \in Thds, t # cur, nil'.timeout[t] > 0
      PROVE  Counted(t, nil'.timeout[t], nil'.due[t])
  <2>1. nil'.timeout[t] = nil.timeout[t] /\ nil'.due[t] = nil.due[t]
    <3>1. nil'.timeout[t] # 0 /\ nil'.timeout[t] = n.timeout[t] /\ nil'.due[t] = n.due[t]
      BY <1>1, <1>4, <1>6
    <3> QED
      BY <3>1, Zenon DEF Lapses
  <2> QED
    BY <1>6, <2>1, Zenon DEF TimeInv, AllCounted
<1>7. \A t : ~Visited(t) /\ ~Visited(t)' /\ TickBase(t) = clock.now /\ TickBase(t)' = clock'.now
  BY <1>1, <1>4 DEF Visited, TickBase
<1>8. CASE timeout = 0
  <2>1. Lapses(nil')
    <3>1. ASSUME NEW t \in Thds
          PROVE  nil'.timeout[t] = 0 \/ (nil'.timeout[t] = nil.timeout[t] /\ nil'.due[t] = nil.due[t])
      BY <1>1, <1>4, <1>8, Zenon DEF Lapses
    <3> QED
      BY <3>1, Zenon DEF Lapses
  <2> QED
    BY <1>4, <1>8, <2>1, QuietStep, Zenon
<1>9. CASE timeout # 0 /\ delta = 0
  <2>1. clock' = clock /\ delta' = 0 /\ nil'.timeout[cur] = timeout /\ nil'.due[cur] = (clock.now + timeout) % W
    BY <1>3, <1>4, <1>5, <1>9, Zenon
  <2>2. AlarmOK'
    BY <2>1 DEF AlarmOK
  <2>3. ASSUME NEW t \in Thds, nil'.timeout[t] > 0 PROVE Counted(t, nil.timeout[t], nil.due[t])'
    <3>1. CASE t = cur
      <4>1. timeout < W
        BY <1>3, NilAssumption DEF Times
      <4> QED
        BY <1>7, <2>1, <3>1, <4>1 DEF Counted
    <3>2. CASE t # cur
      <4>1. Counted(t, nil'.timeout[t], nil'.due[t])
        BY <1>6, <2>3, <3>2, Zenon
      <4> QED
        BY <1>7, <1>9, <2>1, <4>1 DEF Counted
    <3> QED
      BY <3>1, <3>2, Zenon
  <2> QED
    BY <2>2, <2>3, Zenon DEF TimeInv, AllCounted
<1>10. CASE timeout # 0 /\ delta > 0
  <2>1. /\ Elapsed + ticks < W /\ nil'.timeout[cur] = F /\ nil'.due[cur] = abstime
        /\ clock' = IF Earlier(abstime) THEN [clock EXCEPT !.nexttime = abstime, !.alarm = TRUE] ELSE clock
    BY <1>4, <1>10, Zenon
  <2>2. /\ Span \in Times /\ Elapsed \in Times
        /\ Span = (clock.nexttime - clock.lasttime) % W
        /\ Elapsed = (clock.now - clock.lasttime) % W
        /\ Times \subseteq Nat /\ W \in Nat
    BY Spans, Zenon
  <2>3. abstime \in Times /\ F = Elapsed + ticks
    <3>1. ((clock.now - clock.lasttime) % W) + ticks < W
      BY <2>1, <2>2, Zenon
    <3>2. /\ (clock.now + ticks) % W \in Times
          /\ (((clock.now + ticks) % W) - clock.lasttime) % W = ((clock.now - clock.lasttime) % W) + ticks
      BY <1>2, <1>3, <3>1, Begins, Zenon
    <3> QED
      BY <1>5, <2>2, <3>2, Zenon DEF F
  <2>4. F \in Times /\ abstime = (clock.lasttime + F) % W
    BY <1>2, <2>3, Differences, Zenon DEF F
  <2>5. F \in Nat /\ F < W /\ 0 < F /\ Elapsed <= F
    BY <1>3, <1>10, <2>1, <2>2, <2>3, <2>4, NilAssumption DEF Times
  <2>6. Span = 0 <=> clock.lasttime = clock.nexttime
    <3>1. (clock.nexttime - clock.lasttime) % W
          = IF clock.lasttime <= clock.nexttime THEN clock.nexttime - clock.lasttime
                                                ELSE clock.nexttime - clock.lasttime + W
      BY <1>2, Differences, Zenon
    <3> DEFINE a == clock.lasttime
               b == clock.nexttime
    <3>2. a \in Times /\ b \in Times /\ Span = IF a <= b THEN b - a ELSE b - a + W
      BY <1>2, <2>2, <3>1, Zenon
    <3> HIDE DEF a, b
    <3>3. Span = 0 <=> a = b
      BY <3>2, NilAssumption DEF Times
    <3> QED
      BY <3>3 DEF a, b
  <2>7. AlarmOK /\ delta' > 0 /\ isr' # "tick"
    BY <1>1, <1>4, <1>10 DEF TimeInv
  <2>8. CASE Earlier(abstime)
    <3>1. clock' = [clock EXCEPT !.nexttime = abstime, !.alarm = TRUE]
      BY <2>1, <2>8, Zenon
    <3>2. clock'.nexttime = abstime /\ clock'.alarm = TRUE /\ clock'.now = clock.now /\ clock'.lasttime = clock.lasttime
      BY <1>2, <3>1 DEF ClockRecords
    <3>3. Span' = F /\ Elapsed' = Elapsed
      BY <3>2, Zenon DEF Span, Elapsed, chTimeDiffX, F
    <3>4. AlarmOK'
      BY <2>5, <2>7, <3>2, <3>3 DEF AlarmOK
    <3>5. ASSUME NEW t \in Thds, nil'.timeout[t] > 0 PROVE Counted(t, nil.timeout[t], nil.due[t])'
      <4>1. CASE t = cur
        <5>1. F < W /\ 0 < F /\ F <= F
          BY <2>5
        <5>2. delta' # 0
          BY <2>7
        <5> QED
          BY <1>7, <2>1, <2>4, <3>2, <3>3, <4>1, <5>1, <5>2, Zenon DEF Counted
      <4>2. CASE t # cur
        <5>1. Counted(t, nil'.timeout[t], nil'.due[t])
          BY <1>6, <3>5, <4>2, Zenon
        <5> DEFINE to == nil'.timeout[t]
                   dd == nil'.due[t]
        <5>2. to < W /\ dd = (clock.lasttime + to) % W /\ 0 < Span /\ Span <= to
          BY <1>7, <1>10, <5>1, Zenon DEF Counted
        <5>3. F < Span
          BY <1>5, <2>2, <2>6, <2>8, <5>2
        <5>4. to \in Nat
          <6>1. to = nil'.timeout[t]
            OBVIOUS
          <6>2. nil'.timeout[t] = n.timeout[t] /\ n.timeout \in [All -> Nat]
            BY <1>1, <1>4, <4>2, Parts
          <6> QED
            BY <1>1, <6>1, <6>2
        <5> HIDE DEF to, dd
        <5>5. 0 < F /\ F <= to
          BY <2>2, <2>5, <5>2, <5>3, <5>4
        <5>6. delta' # 0
          BY <2>7
        <5> QED
          BY <1>7, <3>2, <3>3, <5>2, <5>5, <5>6, Zenon DEF Counted, to, dd
      <4> QED
        BY <4>1, <4>2, Zenon
    <3> QED
      BY <3>4, <3>5, Zenon DEF TimeInv, AllCounted
  <2>9. CASE ~Earlier(abstime)
    <3>1. clock' = clock
      BY <2>1, <2>9, Zenon
    <3>2. Span' = Span /\ Elapsed' = Elapsed
      BY <3>1, Zenon DEF Span, Elapsed
    <3>3. 0 < Span /\ Span <= F
      BY <1>5, <2>2, <2>5, <2>6, <2>9
    <3>4. AlarmOK'
      BY <1>4, <1>10, <2>7, <3>1, <3>2, Zenon DEF AlarmOK
    <3>5. ASSUME NEW t \in Thds, nil'.timeout[t] > 0 PROVE Counted(t, nil.timeout[t], nil.due[t])'
      <4>1. CASE t = cur
        <5>1. delta' # 0
          BY <2>7
        <5> QED
          BY <1>7, <2>1, <2>4, <2>5, <3>1, <3>2, <3>3, <4>1, <5>1, Zenon DEF Counted
      <4>2. CASE t # cur
        <5>1. Counted(t, nil'.timeout[t], nil'.due[t])
          BY <1>6, <3>5, <4>2, Zenon
        <5> QED
          BY <1>4, <1>7, <1>10, <3>1, <3>2, <5>1, Zenon DEF Counted
      <4> QED
        BY <4>1, <4>2, Zenon
    <3> QED
      BY <3>4, <3>5, Zenon DEF TimeInv, AllCounted
  <2> QED
    BY <2>8, <2>9, Zenon
<1>11. delta = 0 \/ delta > 0
  BY <1>2
<1> QED
  BY <1>8, <1>9, <1>10, <1>11, Zenon

\* The calls in which the current thread may sleep.
LEMMA WaitTime ==
  ASSUME NilInv, TimeInv, ~OverLasttime, NEW timeout \in 0 .. MaxSleep, NEW t \in Thds,
         \/ chSemWaitTimeout(timeout) \/ chThdEnqueueTimeoutS(timeout) \/ chThdSuspendTimeoutS(timeout)
         \/ chThdSleep(timeout) \/ chMsgWaitTimeout(timeout) \/ chThdWait(t) \/ chMsgSend(t) \/ chThdExit
  PROVE  TimeInv'
<1>1. /\ nil \in NilRecords /\ NilTypeOK /\ cur \in All /\ t \in All /\ FirstReady(nil.state, nil.next)
      /\ "sem" \in Words /\ "tq" \in Words /\ "ref" \in Words /\ t \in Words /\ 0 \in 0 .. MaxSleep
  <2>1. t \in Words /\ t \in All /\ 0 \in 0 .. MaxSleep
    BY Numbers, NilAssumption DEF Words
  <2> QED
    BY <2>1, TypeParts, Zenon DEF NilInv, SchedOK, Words
<1>2. Lapses(nil)
  BY Zenon DEF Lapses
<1>3. ASSUME Sleeps, NEW w \in Words PROVE Worded(w) \in NilRecords /\ Lapses(Worded(w))
  <2>1. Worded(w) \in NilRecords
    BY <1>3, WordIs, Zenon
  <2>2. Worded(w).timeout = nil.timeout /\ Worded(w).due = nil.due
    BY <1>1 DEF Worded, NilRecords
  <2> QED
    BY <2>1, <2>2, Zenon DEF Lapses
<1>4. ASSUME Sleeps, NEW w \in Words, NEW s, NEW k \in 0 .. MaxSleep,
             GoSleep([nil EXCEPT !.u1[cur] = w], s, k, "none")
      PROVE  TimeInv'
  <2>1. GoSleep(Worded(w), s, k, "none")
    BY <1>4, Zenon DEF Worded
  <2>2. Worded(w) \in NilRecords /\ Lapses(Worded(w))
    BY <1>3, <1>4, Zenon
  <2> DEFINE n == Worded(w)
  <2> HIDE DEF n
  <2>3. n \in NilRecords /\ Lapses(n) /\ GoSleep(n, s, k, "none")
    BY <2>1, <2>2, Zenon DEF n
  <2> QED
    BY <1>4, <2>3, SleepTime, Zenon
<1>5. ASSUME UNCHANGED <<nil, isr, timevars>> PROVE TimeInv'
  <2>1. nil' = nil /\ isr' = isr /\ scan' = scan /\ clock' = clock /\ delta' = delta
    BY <1>5 DEF timevars
  <2>2. Lapses(nil')
    BY <2>1, Zenon DEF Lapses
  <2> QED
    BY <2>1, <2>2, QuietStep, Zenon
<1>6. CASE chSemWaitTimeout(timeout)
  <2>1. /\ Sleeps
        /\ IF counter["sem"] <= 0
           THEN GoSleep([nil EXCEPT !.u1[cur] = "sem"], "WTQUEUE", timeout, "none")
           ELSE UNCHANGED <<nil, cont, isr, timevars>>
    BY <1>6, Zenon DEF chSemWaitTimeout
  <2>2. CASE counter["sem"] <= 0
    BY <1>1, <1>4, <2>1, <2>2, Zenon
  <2>3. CASE ~(counter["sem"] <= 0)
    <3>1. UNCHANGED <<nil, isr, timevars>>
      BY <2>1, <2>3
    <3> QED
      BY <1>5, <3>1, Zenon
  <2> QED
    BY <2>2, <2>3, Zenon
<1>7. CASE chThdEnqueueTimeoutS(timeout)
  BY <1>1, <1>4, <1>7, Zenon DEF chThdEnqueueTimeoutS
<1>8. CASE chThdSuspendTimeoutS(timeout)
  BY <1>1, <1>4, <1>8, Zenon DEF chThdSuspendTimeoutS
<1>9. CASE chThdSleep(timeout)
  <2>1. Sleeps /\ GoSleep(nil, "SLEEPING", timeout, "none")
    BY <1>9, Zenon DEF chThdSleep
  <2> QED
    BY <1>1, <1>2, <2>1, SleepTime, Zenon
<1>10. CASE chMsgWaitTimeout(timeout)
  <2>1. Sleeps /\ (UNCHANGED <<nil, isr, timevars>> \/ GoSleep(nil, "WTMSG", timeout, "msg"))
    BY <1>10 DEF chMsgWaitTimeout
  <2>2. CASE GoSleep(nil, "WTMSG", timeout, "msg")
    BY <1>1, <1>2, <2>1, <2>2, SleepTime, Zenon
  <2> QED
    BY <1>5, <2>1, <2>2, Zenon
<1>11. CASE chThdWait(t)
  <2>1. Sleeps /\ GoSleep([nil EXCEPT !.u1[cur] = t], "WTEXIT", 0, "none")
    BY <1>11, Zenon DEF chThdWait, TIME_INFINITE
  <2> QED
    BY <1>1, <1>4, <2>1, Zenon
<1>12. CASE chMsgSend(t)
  <2>1. /\ Sleeps
        /\ GoSleep(IF nil.state[t] = "WTMSG" THEN chSchReadyI(Worded(t), t, cur) ELSE Worded(t),
                   "SNDMSGQ", 0, "none")
    BY <1>12 DEF chMsgSend, Worded, TIME_INFINITE
  <2>2. CASE nil.state[t] # "WTMSG"
    <3>1. GoSleep([nil EXCEPT !.u1[cur] = t], "SNDMSGQ", 0, "none")
      BY <2>1, <2>2, Zenon DEF Worded
    <3> QED
      BY <1>1, <1>4, <2>1, <3>1, Zenon
  <2>3. CASE nil.state[t] = "WTMSG"
    <3> DEFINE n == Worded(t)
               r == chSchReadyI(n, t, cur)
    <3>1. n \in NilRecords /\ n.state = nil.state /\ n.next = nil.next /\ Lapses(n)
      BY <1>1, <1>3, <2>1, WordIs, Zenon
    <3>2. cur \in Words
      BY <1>1, Numbers DEF Words
    <3>3. GoSleep(r, "SNDMSGQ", 0, "none")
      BY <2>1, <2>3, Zenon
    <3> HIDE DEF n
    <3>4. MadeReady(n, t, Kept(t, cur), r)
      BY <1>1, <3>1, <3>2, ReadyIs, Zenon
    <3> HIDE DEF r
    <3>5. /\ r \in NilRecords /\ r.timeout = [n.timeout EXCEPT ![t] = 0] /\ r.due = [n.due EXCEPT ![t] = 0]
          /\ n.timeout \in [All -> Nat] /\ n.due \in [All -> Nat]
      BY <3>1, <3>4, Parts, Zenon DEF MadeReady
    <3>6. \A x \in All : r.timeout[x] = 0 \/ (r.timeout[x] = n.timeout[x] /\ r.due[x] = n.due[x])
      BY <3>5
    <3>7. Lapses(r)
      BY <3>1, <3>6, Numbers, Zenon DEF Lapses
    <3> QED
      BY <1>1, <2>1, <3>3, <3>5, <3>7, SleepTime, Zenon
  <2> QED
    BY <2>2, <2>3, Zenon
<1>13. CASE chThdExit
  <2> DEFINE ws == Waiters(nil, "WTEXIT", cur)
             st2 == [x \in All |-> IF x \in ws THEN "READY" ELSE nil.state[x]]
             u3 == [x \in All |-> IF x \in ws \cup {cur} THEN MSG_OK ELSE nil.u1[x]]
             n == [nil EXCEPT !.state = st2, !.u1 = u3]
  <2>1. Sleeps /\ GoSleep(n, "FINAL", 0, "none")
    BY <1>13 DEF chThdExit, All, TIME_INFINITE
  <2>2. st2 \in [All -> States] /\ u3 \in [All -> Words]
    <3>1. "READY" \in States /\ MSG_OK \in Words
      BY DEF States, MSG_OK, Words
    <3>2. nil.state \in [All -> States] /\ nil.u1 \in [All -> Words]
      BY <1>1, Parts, Zenon
    <3> QED
      BY <3>1, <3>2, Zenon
  <2> HIDE DEF ws, st2, u3
  <2>3. n \in NilRecords /\ n.timeout = nil.timeout /\ n.due = nil.due
    BY <1>1, <2>2, Zenon DEF NilRecords
  <2> HIDE DEF n
  <2>4. Lapses(n)
    BY <2>3, Zenon DEF Lapses
  <2> QED
    BY <1>1, <2>1, <2>3, <2>4, SleepTime, Zenon
<1> QED
  BY <1>6, <1>7, <1>8, <1>9, <1>10, <1>11, <1>12, <1>13, Zenon

\* The other calls, and the end of one.
LEMMA NotifyTimes ==
  ASSUME NilInv, TimeInv, NilNotify \/ WakeUp \/ EndOfInterrupt
  PROVE  TimeInv'
<1>1. NilTypeOK
  BY Zenon DEF NilInv
<1>2. ASSUME NEW r, Notify(r), UNCHANGED timevars,
             r = nil \/ (\E w, m : r = chSchReadyI(nil, w, m)) \/ \E o, c, m : r = nil_ready_all(nil, o, c, m)
      PROVE  TimeInv'
  <2>1. Lapses(r) /\ Lapses(Reschedule(r))
    <3>1. CASE r = nil
      BY <1>1, <3>1, ReadyLapses, Zenon
    <3>2. CASE \E w, m : r = chSchReadyI(nil, w, m)
      <4>1. PICK w, m : r = chSchReadyI(nil, w, m)
        BY <3>2, Zenon
      <4> QED
        BY <1>1, <4>1, ReadyLapses, Zenon
    <3>3. CASE \E o, c, m : r = nil_ready_all(nil, o, c, m)
      <4>1. PICK o, c, m : r = nil_ready_all(nil, o, c, m)
        BY <3>3, Zenon
      <4> QED
        BY <1>1, <4>1, ReadyLapses, Zenon
    <3> QED
      BY <1>2, <3>1, <3>2, <3>3, Zenon
  <2> QED
    BY <1>2, <2>1, NotifyTime, Zenon
<1>3. CASE chSemSignal
  <2>1. /\ UNCHANGED timevars
        /\ Notify(IF counter["sem"] < 0
                  THEN chSchReadyI(nil, Min(Waiters(nil, "WTQUEUE", "sem")), MSG_OK) ELSE nil)
    BY <1>3, Zenon DEF chSemSignal
  <2>2. CASE counter["sem"] < 0
    <3>1. Notify(chSchReadyI(nil, Min(Waiters(nil, "WTQUEUE", "sem")), MSG_OK))
      BY <2>1, <2>2, Zenon
    <3> QED
      BY <1>2, <2>1, <3>1, Zenon
  <2>3. CASE ~(counter["sem"] < 0)
    <3>1. Notify(nil)
      BY <2>1, <2>3, Zenon
    <3> QED
      BY <1>2, <2>1, <3>1, Zenon
  <2> QED
    BY <2>2, <2>3, Zenon
<1>4. CASE chThdDequeueNextI
  BY <1>2, <1>4, Zenon DEF chThdDequeueNextI
<1>5. CASE chThdDequeueAllI
  BY <1>2, <1>5, Zenon DEF chThdDequeueAllI
<1>6. CASE chThdResume
  BY <1>2, <1>6, Zenon DEF chThdResume
<1>7. ASSUME NEW k, chSemResetWithMessage(k) PROVE TimeInv'
  BY <1>2, <1>7, Zenon DEF chSemResetWithMessage
<1>8. ASSUME NEW t, chThdCreate(t) PROVE TimeInv'
  BY <1>2, <1>8, Zenon DEF chThdCreate
<1>9. ASSUME NEW t, chMsgRelease(t) PROVE TimeInv'
  <2>1. Notify(chSchReadyI(nil, t, MSG_OK)) /\ UNCHANGED timevars
    BY <1>9 DEF chMsgRelease, Notify
  <2> QED
    BY <1>2, <2>1, Zenon
<1>10. CASE WakeUp
  <2>1. nil' = nil /\ isr' = isr /\ scan' = scan /\ clock' = clock /\ delta' = delta
    BY <1>10 DEF WakeUp, timevars
  <2>2. Lapses(nil')
    BY <2>1, Zenon DEF Lapses
  <2> QED
    BY <2>1, <2>2, QuietStep, Zenon
<1>11. CASE EndOfInterrupt
  <2>1. nil' = Reschedule(nil) /\ scan' = scan /\ clock' = clock /\ delta' = delta /\ isr # "tick" /\ isr' # "tick"
    BY <1>11 DEF EndOfInterrupt, timevars
  <2>2. Lapses(nil')
    BY <1>1, <2>1, ReadyLapses, Zenon
  <2> QED
    BY <2>1, <2>2, QuietStep, Zenon
<1> QED
  BY <1>3, <1>4, <1>5, <1>6, <1>7, <1>8, <1>9, <1>10, <1>11, Zenon DEF NilNotify

\* One turn of the loop of chSysTimerHandlerI: the base of the thread's timeout moves
\* to the present tick, and the first of the next deadlines is kept.
LEMMA VisitTime ==
  ASSUME NilInv, TimeInv, VisitThread, NEW t, t = scan.tp
  PROVE  TimeInv'
<1> DEFINE to     == nil.timeout[t]
           nx     == scan.next
           passed == IF delta = 0 THEN 1 ELSE chTimeDiffX(clock.lasttime, clock.nexttime)
           left   == (to - passed) % W
           timed  == to > 0
           first  == delta > 0 /\ timed /\ left > 0 /\ left <= (nx - 1) % W
           nx2    == IF first THEN left ELSE nx
<1>1. /\ isr = "tick" /\ t <= NT /\ scan' = [tp |-> t + 1, next |-> nx2]
      /\ IF timed /\ left = 0
         THEN Expired(t) /\ nil' = chSchReadyI(nil, t, MSG_TIMEOUT)
         ELSE /\ nil' = IF timed THEN [nil EXCEPT !.timeout[t] = left] ELSE nil
              /\ UNCHANGED <<counter, reference>>
      /\ isr' = isr /\ clock' = clock /\ delta' = delta
  BY Zenon DEF VisitThread
<1>2. /\ t \in Thds /\ t \in All /\ nil \in NilRecords /\ nil.timeout \in [All -> Nat] /\ nil.due \in [All -> Nat]
      /\ to \in Nat /\ nx \in Times /\ delta \in Nat
      /\ clock.now \in Times /\ clock.lasttime \in Times /\ clock.nexttime \in Times
  <2>1. t \in 0 .. idle /\ t >= 1
    BY <1>1, TimeParts, Zenon DEF TimeOK
  <2>2. t \in Thds
    BY <1>1, <2>1, NilAssumption DEF Thds
  <2> QED
    BY <2>2, TimeParts, Parts, Numbers, Zenon
<1>3. /\ Span \in Times /\ Span = (clock.nexttime - clock.lasttime) % W /\ Times \subseteq Nat /\ W \in Nat /\ W > 0
      /\ passed = IF delta = 0 THEN 1 ELSE Span
  BY Spans, Numbers, Zenon DEF Span
<1>4. scan'.tp = t + 1 /\ scan'.next = nx2
  BY <1>1
<1>5. Span' = Span /\ Elapsed' = Elapsed
  BY <1>1, Zenon DEF Span, Elapsed
<1>6. AlarmOK'
  BY <1>1, <1>5, Zenon DEF TimeInv, AlarmOK
<1>8. /\ \A x \in Thds : x # t => nil'.timeout[x] = nil.timeout[x] /\ nil'.due[x] = nil.due[x]
      /\ nil'.timeout[t] = 0 \/ (timed /\ left # 0 /\ nil'.timeout[t] = left /\ nil'.due[t] = nil.due[t])
  <2>1. CASE timed /\ left = 0
    <3>1. nil' = chSchReadyI(nil, t, MSG_TIMEOUT)
      BY <1>1, <2>1, Zenon
    <3>2. nil'.timeout = [nil.timeout EXCEPT ![t] = 0] /\ nil'.due = [nil.due EXCEPT ![t] = 0]
      BY <1>2, <3>1 DEF chSchReadyI, NilRecords
    <3> QED
      BY <1>2, <3>2, Numbers
  <2>2. CASE timed /\ left # 0
    <3>1. nil' = [nil EXCEPT !.timeout[t] = left]
      BY <1>1, <2>2, Zenon
    <3> HIDE DEF left
    <3>2. nil'.timeout = [nil.timeout EXCEPT ![t] = left] /\ nil'.due = nil.due
      BY <1>2, <3>1 DEF NilRecords
    <3>3. nil'.timeout[t] = left /\ \A x \in Thds : x # t => nil'.timeout[x] = nil.timeout[x]
      BY <1>2, <3>2, Numbers
    <3> QED
      BY <2>2, <3>2, <3>3, Zenon
  <2>3. CASE ~timed
    <3>1. nil' = nil
      BY <1>1, <2>3, Zenon
    <3>2. to = 0
      BY <1>2, <2>3
    <3> QED
      BY <3>1, <3>2, Zenon
  <2> QED
    BY <2>1, <2>2, <2>3, Zenon
<1>9. \A x \in Thds : x # t => (Visited(x)' <=> Visited(x))
  <2>1. \A x \in Thds : x # t => (x < t + 1 <=> x < t)
    BY <1>2, Numbers
  <2> QED
    BY <1>1, <1>4, <2>1, Zenon DEF Visited
<1>10. ~Visited(t) /\ Visited(t)'
  BY <1>1, <1>2, <1>4, Numbers DEF Visited
<1>11. left \in Times
  <2>1. to - passed \in Int
    BY <1>2, <1>3
  <2> HIDE DEF to, passed
  <2> QED
    BY <2>1, Remainder, Zenon
<1>12. nx >= 1 => nx2 >= 1 /\ nx2 <= nx
  <2>1. nx >= 1 => (nx - 1) % W = nx - 1
    <3> HIDE DEF nx
    <3>1. nx \in Nat /\ nx < W
      BY <1>2, <1>3 DEF Times
    <3> QED
      BY <1>3, <3>1, Wraps
  <2>2. left \in Nat /\ nx \in Nat
    BY <1>2, <1>3, <1>11, Zenon
  <2> HIDE DEF left, nx
  <2> QED
    BY <2>1, <2>2
<1>13. ASSUME NEW x \in Thds, x # t, nil'.timeout[x] > 0 PROVE Counted(x, nil.timeout[x], nil.due[x])'
  <2> DEFINE a == nil.timeout[x]
             b == nil.due[x]
  <2>1. nil'.timeout[x] = a /\ nil'.due[x] = b
    BY <1>8, <1>13, Zenon
  <2>2. Counted(x, a, b) /\ (Visited(x)' <=> Visited(x))
    BY <1>9, <1>13, <2>1, Zenon DEF TimeInv, AllCounted
  <2>3. TickBase(x)' = TickBase(x)
    BY <1>1, <2>2, Zenon DEF TickBase
  <2>4. a \in Nat
    BY <1>2, Numbers
  <2> HIDE DEF a, b
  <2>5. delta > 0 /\ Visited(x) => 1 <= nx2 /\ nx2 <= a
    <3>1. delta > 0 /\ Visited(x) => 1 <= nx /\ nx <= a
      BY <2>2, Zenon DEF Counted
    <3>2. nx \in Nat /\ nx2 \in Nat
      BY <1>2, <1>3, <1>11, Zenon
    <3> HIDE DEF nx, nx2
    <3> QED
      BY <1>12, <2>4, <3>1, <3>2
  <2> HIDE DEF nx2
  <2> QED
    BY <1>1, <1>4, <1>5, <2>1, <2>2, <2>3, <2>5, Zenon DEF Counted
<1>14. ASSUME nil'.timeout[t] > 0 PROVE Counted(t, nil.timeout[t], nil.due[t])'
  <2> DEFINE b == nil.due[t]
  <2>1. timed /\ left # 0 /\ nil'.timeout[t] = left /\ nil'.due[t] = b
    BY <1>8, <1>14
  <2>2. Counted(t, to, b)
    BY <2>1, <1>2, Zenon DEF TimeInv, AllCounted
  <2>3. to < W /\ to \in Times /\ to > 0
    <3>1. to < W
      BY <2>2, Zenon DEF Counted
    <3> QED
      BY <1>2, <1>3, <2>1, <3>1 DEF Times
  <2>4. left < W /\ left > 0 /\ left \in Nat
    BY <1>3, <1>11, <2>1 DEF Times
  <2>5. delta = 0 => b = (clock.now + left) % W
    <3>1. ASSUME delta = 0 PROVE b = (clock.now + left) % W
      <4>1. b = (clock.now - 1 + to) % W
        BY <1>1, <1>10, <2>2, <3>1, Zenon DEF Counted, TickBase
      <4>2. left = to - 1
        <5>1. left = (to - 1) % W
          BY <3>1
        <5> HIDE DEF to
        <5> QED
          BY <1>2, <2>3, <5>1, TickSums
      <4> HIDE DEF left, to, b
      <4>3. clock.now - 1 + to = clock.now + left
        <5>1. clock.now \in Nat /\ to \in Nat
          BY <1>2, <1>3, Zenon
        <5> QED
          BY <4>2, <5>1
      <4> QED
        BY <4>1, <4>3
    <3> QED
      BY <3>1
  <2>6. delta > 0 => b = (clock.nexttime + left) % W
    <3>1. ASSUME delta > 0 PROVE b = (clock.nexttime + left) % W
      <4>1. b = (clock.lasttime + to) % W /\ Span <= to
        BY <1>10, <2>2, <3>1, Zenon DEF Counted
      <4>2. left = (to - Span) % W
        BY <1>3, <3>1
      <4> DEFINE D == (clock.nexttime - clock.lasttime) % W
      <4>3. D <= to /\ left = (to - D) % W
        BY <1>3, <4>1, <4>2, Zenon
      <4> HIDE DEF left, to, b
      <4>4. (to - D) % W = to - D /\ (clock.nexttime + (to - D)) % W = (clock.lasttime + to) % W
        BY <1>2, <2>3, <4>3, Rebase, Zenon
      <4> QED
        BY <4>1, <4>3, <4>4, Zenon
    <3> QED
      BY <3>1
  <2>7. delta > 0 => 1 <= nx2 /\ nx2 <= left
    <3>1. (nx >= 1 => (nx - 1) % W = nx - 1) /\ (nx = 0 => (nx - 1) % W = W - 1) /\ nx \in Nat
      <4> HIDE DEF nx
      <4>1. nx \in Nat /\ nx < W
        BY <1>2, <1>3 DEF Times
      <4> QED
        BY <1>3, <4>1, Wraps
    <3>2. timed
      BY <2>1
    <3> HIDE DEF left, nx, timed
    <3> QED
      BY <1>2, <1>3, <2>4, <3>1, <3>2
  <2>8. TickBase(t)' = clock.now
    <3>1. Visited(t)' /\ clock' = clock
      BY <1>1, <1>10
    <3> QED
      BY <3>1, Zenon DEF TickBase
  <2> HIDE DEF left, nx2, b, to
  <2> QED
    BY <1>1, <1>4, <1>10, <2>1, <2>4, <2>5, <2>6, <2>7, <2>8, Zenon DEF Counted
<1> QED
  BY <1>2, <1>6, <1>13, <1>14, Zenon DEF TimeInv, AllCounted

\* The counter of the time moves on, or the tick comes in, or its handler ends.
LEMMA ClockTimes ==
  ASSUME NilInv, TimeInv, TimePasses \/ TimerInterrupt \/ EndOfScan
  PROVE  TimeInv'
<1>1. /\ clock.now \in Times /\ clock.lasttime \in Times /\ clock.nexttime \in Times /\ scan.next \in Times
      /\ delta \in Nat /\ clock \in ClockRecords
      /\ AlarmOK /\ AllCounted /\ nil \in NilRecords
  BY TimeParts, Zenon DEF TimeOK, TimeInv
<1>2. /\ Span \in Times /\ Elapsed \in Times
      /\ Span = (clock.nexttime - clock.lasttime) % W
      /\ Elapsed = (clock.now - clock.lasttime) % W
      /\ Times \subseteq Nat /\ W \in Nat
  BY Spans, Zenon
<1>3. CASE TimePasses
  <2> DEFINE now2 == (clock.now + 1) % W
  <2>1. /\ delta > 0 /\ isr = "none" /\ isr' = isr /\ ~AlarmRings /\ nil' = nil /\ scan' = scan /\ delta' = delta
        /\ clock' = [clock EXCEPT !.now = now2]
    BY <1>3 DEF TimePasses, chTimeAddX
  <2>2. /\ clock'.now = now2 /\ clock'.lasttime = clock.lasttime /\ clock'.nexttime = clock.nexttime
        /\ clock'.alarm = clock.alarm
    BY <1>1, <2>1 DEF ClockRecords
  <2>3. Span' = Span /\ Elapsed' = (now2 - clock.lasttime) % W
    BY <2>2, Zenon DEF Span, Elapsed, chTimeDiffX
  <2>4. 0 < Span => Elapsed' <= Span
    <3>1. ASSUME 0 < Span PROVE Elapsed' <= Span
      <4>1. Elapsed <= Span /\ clock.now # clock.nexttime
        BY <1>1, <2>1, <3>1, Zenon DEF AlarmOK, AlarmRings
      <4>2. (clock.now - clock.lasttime) % W <= (clock.nexttime - clock.lasttime) % W
        BY <1>2, <4>1, Zenon
      <4>3. (((clock.now + 1) % W) - clock.lasttime) % W <= (clock.nexttime - clock.lasttime) % W
        BY <1>1, <4>1, <4>2, MovesOn, Zenon
      <4> QED
        BY <1>2, <2>3, <4>3, Zenon
    <3> QED
      BY <3>1
  <2>5. AlarmOK'
    <3>1. isr' # "tick"
      BY <2>1
    <3> QED
      BY <1>1, <2>1, <2>2, <2>3, <2>4, <3>1, Zenon DEF AlarmOK
  <2>6. ASSUME NEW t \in Thds, nil'.timeout[t] > 0 PROVE Counted(t, nil.timeout[t], nil.due[t])'
    <3>1. Counted(t, nil.timeout[t], nil.due[t])
      BY <1>1, <2>1, <2>6, Zenon DEF AllCounted
    <3>2. ~Visited(t) /\ ~Visited(t)' /\ delta # 0 /\ delta' # 0
      BY <2>1 DEF Visited
    <3> QED
      BY <2>1, <2>2, <2>3, <3>1, <3>2, Zenon DEF Counted
  <2> QED
    BY <2>5, <2>6, Zenon DEF TimeInv, AllCounted
<1>4. CASE TimerInterrupt
  <2>1. /\ isr = "none" /\ isr' = "tick" /\ scan' = [tp |-> 1, next |-> 0] /\ nil' = nil /\ delta' = delta
        /\ \/ delta = 0 /\ clock' = [clock EXCEPT !.now = (clock.now + 1) % W]
           \/ delta > 0 /\ AlarmRings /\ clock' = clock
    BY <1>4 DEF TimerInterrupt, Runs, chTimeAddX
  <2>2. \A t \in Thds : ~Visited(t) /\ ~Visited(t)'
    <3>1. scan'.tp = 1 /\ isr # "tick"
      BY <2>1
    <3>2. \A t \in Thds : ~(t < 1)
      BY DEF Thds
    <3> QED
      BY <3>1, <3>2, Zenon DEF Visited
  <2>3. CASE delta = 0 /\ clock' = [clock EXCEPT !.now = (clock.now + 1) % W]
    <3>1. clock'.now = (clock.now + 1) % W
      BY <1>1, <2>3 DEF ClockRecords
    <3>2. AlarmOK'
      BY <2>1, <2>3 DEF AlarmOK
    <3>3. ASSUME NEW t \in Thds, nil'.timeout[t] > 0 PROVE Counted(t, nil.timeout[t], nil.due[t])'
      <4> DEFINE to == nil.timeout[t]
                 d == nil.due[t]
      <4>1. nil'.timeout[t] = to /\ nil'.due[t] = d
        BY <2>1, Zenon
      <4>2. Counted(t, to, d) /\ isr # "tick"
        BY <1>1, <2>1, <3>3, <4>1 DEF AllCounted
      <4>3. to < W /\ d = (clock.now + to) % W
        BY <2>3, <4>2, Zenon DEF Counted, TickBase
      <4>4. to \in Times /\ to > 0
        <5>1. to \in Nat
          BY <1>1, Parts, Numbers
        <5> QED
          BY <1>2, <3>3, <4>1, <4>3, <5>1 DEF Times
      <4>5. TickBase(t)' = ((clock.now + 1) % W) - 1
        BY <2>1, <2>2, <3>1, Zenon DEF TickBase
      <4> HIDE DEF to, d
      <4>6. (((clock.now + 1) % W) - 1 + to) % W = (clock.now + to) % W
        BY <1>1, <4>4, TickSums, Zenon
      <4>7. ~(delta' > 0)
        BY <2>1, <2>3
      <4> QED
        BY <4>1, <4>3, <4>5, <4>6, <4>7, Zenon DEF Counted
    <3> QED
      BY <3>2, <3>3, Zenon DEF TimeInv, AllCounted
  <2>4. CASE delta > 0 /\ AlarmRings /\ clock' = clock
    <3>1. Span' = Span /\ Elapsed' = Elapsed
      BY <2>4, Zenon DEF Span, Elapsed
    <3>2. AlarmOK'
      BY <1>1, <2>1, <2>4, <3>1, Zenon DEF AlarmOK, AlarmRings
    <3>3. ASSUME NEW t \in Thds, nil'.timeout[t] > 0 PROVE Counted(t, nil.timeout[t], nil.due[t])'
      <4>1. Counted(t, nil.timeout[t], nil.due[t])
        BY <1>1, <2>1, <3>3, Zenon DEF AllCounted
      <4>2. delta # 0
        BY <2>4
      <4> QED
        BY <2>1, <2>2, <2>4, <3>1, <4>1, <4>2, Zenon DEF Counted
    <3> QED
      BY <3>2, <3>3, Zenon DEF TimeInv, AllCounted
  <2> QED
    BY <2>1, <2>3, <2>4, Zenon
<1>5. CASE EndOfScan
  <2>1. /\ isr = "tick" /\ scan.tp = idle /\ isr' = "handler" /\ nil' = nil /\ delta' = delta
        /\ clock' = IF delta = 0 THEN clock
                    ELSE [clock EXCEPT !.lasttime = clock.nexttime,
                                       !.nexttime = (clock.nexttime + scan.next) % W, !.alarm = scan.next > 0]
    BY <1>5 DEF EndOfScan, chTimeAddX
  <2>2. \A t \in Thds : Visited(t) /\ ~Visited(t)'
    <3>1. isr' # "tick"
      BY <2>1
    <3>2. \A t \in Thds : t < idle
      BY NilAssumption DEF Thds, idle
    <3> QED
      BY <2>1, <3>1, <3>2, Zenon DEF Visited
  <2>3. CASE delta = 0
    <3>1. clock' = clock /\ ~(delta' > 0)
      BY <2>1, <2>3
    <3>2. AlarmOK'
      BY <3>1, Zenon DEF AlarmOK
    <3>3. ASSUME NEW t \in Thds, nil'.timeout[t] > 0 PROVE Counted(t, nil.timeout[t], nil.due[t])'
      <4>1. Counted(t, nil.timeout[t], nil.due[t])
        BY <1>1, <2>1, <3>3, Zenon DEF AllCounted
      <4>2. TickBase(t) = clock.now /\ TickBase(t)' = clock.now
        BY <2>1, <2>2, <3>1 DEF TickBase
      <4> QED
        BY <2>1, <2>3, <3>1, <4>1, <4>2, Zenon DEF Counted
    <3> QED
      BY <3>2, <3>3, Zenon DEF TimeInv, AllCounted
  <2>4. CASE delta # 0
    <3> DEFINE nx2 == (clock.nexttime + scan.next) % W
               al2 == scan.next > 0
    <3>1. clock' = [clock EXCEPT !.lasttime = clock.nexttime, !.nexttime = nx2, !.alarm = al2]
      BY <2>1, <2>4, Zenon
    <3>2. al2 \in BOOLEAN
      BY <1>1, <1>2
    <3> HIDE DEF nx2, al2
    <3>3. clock'.now = clock.now /\ clock'.lasttime = clock.nexttime /\ clock'.nexttime = nx2 /\ clock'.alarm = al2
      BY <1>1, <3>1 DEF ClockRecords
    <3>4. Span' = scan.next
      <4>1. (nx2 - clock.nexttime) % W = scan.next
        BY <1>1, Sums, Zenon DEF nx2
      <4> QED
        BY <3>3, <4>1, Zenon DEF Span, chTimeDiffX
    <3>5. delta > 0 /\ delta' > 0 /\ delta' # 0 /\ clock.now = clock.nexttime
      <4>1. delta > 0
        BY <1>1, <2>4
      <4> QED
        BY <1>1, <2>1, <2>4, <4>1, Zenon DEF AlarmOK
    <3>6. Elapsed' = 0
      <4>1. Elapsed' = (clock.nexttime - clock.nexttime) % W
        BY <3>3, <3>5, Zenon DEF Elapsed, chTimeDiffX
      <4> DEFINE a == clock.nexttime
      <4>2. a \in Times
        BY <1>1
      <4> HIDE DEF a
      <4>3. (a - a) % W = 0
        BY <1>2, <4>2, Differences
      <4> QED
        BY <4>1, <4>3, Zenon DEF a
    <3>7. AlarmOK'
      <4>1. isr' # "tick" /\ 0 <= scan.next /\ (al2 <=> 0 < scan.next)
        BY <1>1, <1>2, <2>1 DEF al2
      <4> QED
        BY <3>2, <3>3, <3>4, <3>6, <4>1 DEF AlarmOK
    <3>8. ASSUME NEW t \in Thds, nil'.timeout[t] > 0 PROVE Counted(t, nil.timeout[t], nil.due[t])'
      <4> DEFINE to == nil.timeout[t]
                 d == nil.due[t]
      <4>1. nil'.timeout[t] = to /\ nil'.due[t] = d
        BY <2>1, Zenon
      <4>2. Counted(t, to, d)
        BY <1>1, <3>8, <4>1, Zenon DEF AllCounted
      <4>3. to < W /\ d = (clock.nexttime + to) % W /\ 1 <= scan.next /\ scan.next <= to
        BY <2>2, <3>5, <4>2, Zenon DEF Counted
      <4>4. 0 < scan.next
        <5>1. 1 <= scan.next
          BY <4>3, Zenon
        <5>2. scan.next \in Nat
          BY <1>1, <1>2, Zenon
        <5> HIDE DEF to, d
        <5> QED
          BY ONLY <5>1, <5>2
      <4> HIDE DEF to, d
      <4> QED
        BY <2>2, <3>3, <3>4, <3>5, <4>1, <4>3, <4>4, Zenon DEF Counted
    <3> QED
      BY <3>7, <3>8, Zenon DEF TimeInv, AllCounted
  <2> QED
    BY <2>3, <2>4, Zenon
<1> QED
  BY <1>3, <1>4, <1>5, Zenon

\* No timeout runs at first.
LEMMA TimeInit == NilInit => TimeInv
<1> SUFFICES ASSUME NilInit PROVE TimeInv
  OBVIOUS
<1>1. /\ \A t \in Thds : nil.timeout[t] = 0
      /\ clock = [now |-> 0, lasttime |-> 0, nexttime |-> 0, alarm |-> FALSE] /\ isr = "none"
  <2>1. nil.timeout = [t \in All |-> 0]
    BY DEF NilInit, All
  <2> QED
    BY <2>1, Numbers DEF NilInit
<1>2. Span = 0
  <2>1. clock.lasttime = 0 /\ clock.nexttime = 0
    BY <1>1
  <2>2. 0 \in Times
    BY NilAssumption DEF Times
  <2>3. (0 - 0) % W = 0
    BY <2>2, Differences
  <2> QED
    BY <2>1, <2>3, Zenon DEF Span, chTimeDiffX
<1>3. AlarmOK
  <2>1. ~clock.alarm /\ ~(0 < Span) /\ isr # "tick"
    BY <1>1, <1>2
  <2> QED
    BY <2>1, Zenon DEF AlarmOK
<1>4. AllCounted
  BY <1>1 DEF AllCounted
<1> QED
  BY <1>3, <1>4, Zenon DEF TimeInv

\* Every step of the kernel, where no wait ends W or more ticks after nil.lasttime.
LEMMA TimeStep ==
  ASSUME NilInv, TimeInv, ~OverLasttime, [NilNext]_nilvars
  PROVE  TimeInv'
<1>0. {TIME_INFINITE} \cup 1 .. MaxSleep \subseteq 0 .. MaxSleep /\ 0 \in 0 .. MaxSleep
  BY NilAssumption DEF TIME_INFINITE
<1>1. CASE NilWait
  <2>1. Sleeps
    BY <1>1, Zenon DEF NilWait, chSemWaitTimeout, chThdEnqueueTimeoutS, chThdSuspendTimeoutS, chThdSleep,
                chMsgWaitTimeout, chThdWait, chMsgSend, chThdExit
  <2>2. cur \in Thds
    BY <2>1, CurrentIs, Zenon
  <2>3. ASSUME NEW timeout \in {TIME_INFINITE} \cup 1 .. MaxSleep,
               \/ chSemWaitTimeout(timeout) \/ chThdEnqueueTimeoutS(timeout)
               \/ chThdSuspendTimeoutS(timeout) \/ chThdSleep(timeout) \/ chMsgWaitTimeout(timeout)
        PROVE  TimeInv'
    <3>1. timeout \in 0 .. MaxSleep
      BY <1>0, Zenon
    <3> QED
      BY <2>2, <2>3, <3>1, WaitTime, Zenon
  <2>4. ASSUME NEW t \in Thds, chThdWait(t) \/ chMsgSend(t) PROVE TimeInv'
    BY <1>0, <2>4, WaitTime, Zenon
  <2>5. CASE chThdExit
    BY <1>0, <2>2, <2>5, WaitTime, Zenon
  <2> QED
    BY <1>1, <2>3, <2>4, <2>5, Zenon DEF NilWait
<1>2. CASE NilNotify \/ WakeUp
  BY <1>2, NotifyTimes, Zenon
<1>3. CASE NilTime
  <2>1. CASE VisitThread
    <3>1. PICK t : t = scan.tp
      BY Zenon
    <3> QED
      BY <2>1, <3>1, VisitTime, Zenon
  <2> QED
    BY <1>3, <2>1, ClockTimes, NotifyTimes, Zenon DEF NilTime
<1>4. CASE UNCHANGED nilvars
  <2>1. nil' = nil /\ isr' = isr /\ scan' = scan /\ clock' = clock /\ delta' = delta
    BY <1>4 DEF nilvars
  <2>2. Lapses(nil')
    BY <2>1, Zenon DEF Lapses
  <2> QED
    BY <2>1, <2>2, QuietStep, Zenon
<1> QED
  BY <1>1, <1>2, <1>3, <1>4, Zenon DEF NilNext

\* The invariant of the times says that waits end in time.
LEMMA TimeInvOnTime == NilInv /\ TimeInv => NilOnTime
<1> SUFFICES ASSUME NilInv, TimeInv, NEW t \in Thds, nil.timeout[t] > 0
             PROVE  LET base == CASE delta = 0 -> IF isr = "tick" /\ ~Visited(t) THEN clock.now - 1 ELSE clock.now
                                  [] delta > 0 /\ Visited(t) -> clock.nexttime
                                  [] OTHER -> clock.lasttime
                    IN  /\ nil.due[t] = (base + nil.timeout[t]) % W
                        /\ clock.now = nil.due[t] => (isr = "tick" /\ ~Visited(t)) \/ (delta > 0 /\ AlarmRings)
  BY Zenon DEF NilOnTime, Visited
<1> DEFINE to == nil.timeout[t]
           d == nil.due[t]
           base == CASE delta = 0 -> IF isr = "tick" /\ ~Visited(t) THEN clock.now - 1 ELSE clock.now
                     [] delta > 0 /\ Visited(t) -> clock.nexttime
                     [] OTHER -> clock.lasttime
<1>1. /\ clock.now \in Times /\ clock.lasttime \in Times /\ clock.nexttime \in Times /\ delta \in Nat
      /\ AlarmOK /\ Counted(t, to, d) /\ nil \in NilRecords
  BY TimeParts, Zenon DEF TimeInv, AllCounted
<1>2. /\ Span \in Times /\ Elapsed \in Times
      /\ Span = (clock.nexttime - clock.lasttime) % W
      /\ Elapsed = (clock.now - clock.lasttime) % W
      /\ Times \subseteq Nat /\ W \in Nat
  BY Spans, Zenon
<1>3. to \in Times /\ to > 0
  <2>1. to \in Nat
    BY <1>1, Parts, Numbers
  <2>2. to < W
    BY <1>1, Zenon DEF Counted
  <2> QED
    BY <1>2, <2>1, <2>2 DEF Times
<1>4. CASE delta = 0
  <2>1. base = TickBase(t) /\ ~(delta > 0)
    BY <1>4 DEF TickBase
  <2>2. d = (base + to) % W
    BY <1>1, <1>4, <2>1, Zenon DEF Counted
  <2>3. ASSUME ~(isr = "tick" /\ ~Visited(t)) PROVE clock.now # d
    <3>1. base = clock.now
      BY <2>1, <2>3, Zenon DEF TickBase
    <3> HIDE DEF base, to, d
    <3> QED
      BY <1>1, <1>3, <2>2, <3>1, TickSums, Zenon
  <2> HIDE DEF base
  <2> QED
    BY <2>2, <2>3, Zenon DEF base
<1>5. CASE delta > 0 /\ Visited(t)
  <2>1. base = clock.nexttime
    BY <1>5
  <2>2. d = (clock.nexttime + to) % W
    BY <1>1, <1>5, Zenon DEF Counted
  <2>3. AlarmRings
    BY <1>1, <1>5, Zenon DEF AlarmOK, AlarmRings, Visited
  <2> HIDE DEF base
  <2> QED
    BY <1>5, <2>1, <2>2, <2>3, Zenon DEF base
<1>6. CASE delta > 0 /\ ~Visited(t)
  <2>1. base = clock.lasttime
    BY <1>6
  <2>2. d = (clock.lasttime + to) % W /\ 0 < Span /\ Span <= to
    BY <1>1, <1>6, Zenon DEF Counted
  <2>3. ASSUME clock.now = d PROVE AlarmRings
    <3> HIDE DEF to, d, base
    <3>1. (clock.now - clock.lasttime) % W = to
      <4>1. (((clock.lasttime + to) % W) - clock.lasttime) % W = to
        BY <1>1, <1>3, Sums, Zenon
      <4>2. clock.now = (clock.lasttime + to) % W
        BY <2>2, <2>3, Zenon
      <4> QED
        BY <4>1, <4>2, Zenon
    <3>2. Elapsed = to /\ Elapsed <= Span /\ clock.alarm
      BY <1>1, <1>2, <1>6, <2>2, <3>1, Zenon DEF AlarmOK
    <3>3. Elapsed = Span
      <4>1. Elapsed <= Span /\ Span <= Elapsed
        BY <2>2, <3>2, Zenon
      <4>2. Span \in Nat /\ Elapsed \in Nat
        BY <1>2, Zenon
      <4> QED
        BY ONLY <4>1, <4>2
    <3>4. (clock.now - clock.lasttime) % W = (clock.nexttime - clock.lasttime) % W
      BY <1>2, <3>3, Zenon
    <3>5. clock.now = clock.nexttime
      <4>1. (clock.lasttime + ((clock.now - clock.lasttime) % W)) % W = clock.now
        BY <1>1, Differences, Zenon
      <4>2. (clock.lasttime + ((clock.nexttime - clock.lasttime) % W)) % W = clock.nexttime
        BY <1>1, Differences, Zenon
      <4> QED
        BY <3>4, <4>1, <4>2, Zenon
    <3> QED
      BY <3>2, <3>5, Zenon DEF AlarmRings
  <2> HIDE DEF base
  <2> QED
    BY <1>6, <2>1, <2>2, <2>3, Zenon DEF base
<1>7. delta = 0 \/ delta > 0
  BY <1>1
<1> QED
  BY <1>4, <1>5, <1>6, <1>7, Zenon

\* Timed waits of the NIL kernel end in time, with a periodic tick or without,
\* whatever the threads, their priorities and their timeouts, as long as no wait
\* ends a whole turn of the counter, or more, after nil.lasttime.
THEOREM NilWaitsEndOnTime == ~OverLasttime => (NilSpec => []NilOnTime)
<1> SUFFICES ASSUME ~OverLasttime PROVE NilSpec => []NilOnTime
  OBVIOUS
<1>1. NilInit => NilInv /\ TimeInv
  BY InitOK, TimeInit, Zenon
<1>2. NilInv /\ TimeInv /\ [NilNext]_nilvars => NilInv' /\ TimeInv'
  BY NilStep, TimeStep, Zenon
<1>3. NilInv /\ TimeInv => NilOnTime
  BY TimeInvOnTime, Zenon
<1> QED
  BY <1>1, <1>2, <1>3, PTL DEF NilSpec

=============================================================================
