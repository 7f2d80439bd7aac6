----------------------------- MODULE NilKernel -----------------------------
(***************************************************************************)
(* The NIL kernel (os/nil/src: ch.c, chsem.c, chmsg.c): a fixed array of   *)
(* threads in the order of their priorities, no lists at all.  A wait is a *)
(* state and an object in the thread's u1, a wakeup scans the array.       *)
(*                                                                         *)
(* A thread is its index, 1 for &nil.threads[0], and NT + 1 the idle       *)
(* thread.  An action of a thread is one stretch between two context       *)
(* switches with the kernel locked.  The tick handler opens the lock after *)
(* each thread it visits; other handlers run there.  With delta = 0, which *)
(* is CH_CFG_ST_TIMEDELTA, time is counted by a periodic tick, else by a   *)
(* free running counter of values 0 .. W - 1 with an alarm, which is       *)
(* served before the counter moves on.                                     *)
(***************************************************************************)
EXTENDS Integers, FiniteSets, FiniteSetsExt

CONSTANTS
  NT,           \* CH_CFG_MAX_THREADS
  W,            \* 2 to the power CH_CFG_ST_RESOLUTION
  Deltas,       \* the values of CH_CFG_ST_TIMEDELTA
  MaxSleep,     \* bound: ticks of a timeout
  MaxCnt,       \* bound: units of the semaphore
  OverLasttime  \* waits may end W or more ticks after nil.lasttime

\* Times, timeouts and CH_CFG_ST_TIMEDELTA are values of systime_t.
ASSUME NilAssumption ==
  /\ NT \in Nat /\ W \in Nat \ {0} /\ MaxSleep \in 0 .. W - 1 /\ MaxCnt \in Nat
  /\ Deltas \subseteq 0 .. W - 1 /\ OverLasttime \in BOOLEAN

Thds == 1 .. NT
idle == NT + 1

MSG_OK == 0
MSG_TIMEOUT == -1
MSG_RESET == -2
TIME_INFINITE == 0
NoRef == 0

VARIABLES
  nil,       \* nil_system_t: current, next and, of the threads, state, u1, timeout;
             \* and due, a history: the time at which a timed wait is to end
  counter,       \* the counters of a semaphore, sem, and of a threads queue, tq
  reference,       \* a thread_reference_t
  cont,      \* what is left to do in the call that a thread sleeps in
  got,       \* senders whose message was received and not released
  isr,       \* "none", "handler", or "tick" inside chSysTimerHandlerI
  scan,      \* its variables tp and next
  clock,     \* the system time, nil.lasttime, nil.nexttime, and the alarm
  delta      \* CH_CFG_ST_TIMEDELTA

nilvars == <<nil, counter, reference, cont, got, isr, scan, clock, delta>>

cur == nil.current
NoScan == [tp |-> 0, next |-> 0]

ReadyOnes(n) == {t \in 1 .. idle : n.state[t] = "READY"}

NilInit ==
  /\ \E A \in SUBSET Thds :
       LET first == Min(A \cup {idle})
       IN  nil = [current |-> first, next |-> first,
                  state   |-> [t \in 1 .. idle |-> IF t \in A \cup {idle} THEN "READY" ELSE "WTSTART"],
                  u1      |-> [t \in 1 .. idle |-> MSG_OK],
                  timeout |-> [t \in 1 .. idle |-> 0],
                  due     |-> [t \in 1 .. idle |-> 0]]
  /\ counter = [o \in {"sem", "tq"} |-> 0]
  /\ reference = NoRef
  /\ cont = [t \in 1 .. idle |-> "none"]
  /\ got = {}
  /\ isr = "none" /\ scan = NoScan
  /\ clock = [now |-> 0, lasttime |-> 0, nexttime |-> 0, alarm |-> FALSE]
  /\ delta \in Deltas

-----------------------------------------------------------------------------
(* Scheduling *)

\* The message of a wake-up, where the rest of the call reads it; the others go
\* to the application.
Kept(t, msg) == IF cont[t] = "none" THEN MSG_OK ELSE msg

chSchReadyI(n, t, msg) ==
  [n EXCEPT !.u1[t] = Kept(t, msg), !.state[t] = "READY", !.timeout[t] = 0, !.due[t] = 0,
            !.next = IF t < @ THEN t ELSE @]

\* chSchRescheduleS, and the end of an interrupt.
Reschedule(n) == [n EXCEPT !.current = n.next]

chTimeAddX(time, interval) == (time + interval) % W
chTimeDiffX(start, end) == (end - start) % W
chTimeIsInRangeX(time, start, end) == chTimeDiffX(start, time) < chTimeDiffX(start, end)

Elapsed == chTimeDiffX(clock.lasttime, clock.now)

\* Whether the alarm is set: for the first timeout and for an earlier one.
Earlier(abstime) ==
  \/ clock.lasttime = clock.nexttime
  \/ chTimeIsInRangeX(abstime, clock.lasttime, clock.nexttime)

\* chSchGoSleepTimeoutS, from the state n, and what the thread has to do when
\* it wakes up.
GoSleep(n, newstate, timeout, then) ==
  LET timed   == timeout # TIME_INFINITE
      ticks   == IF timeout < delta THEN delta ELSE timeout
      abstime == chTimeAddX(clock.now, ticks)
      field   == CASE ~timed -> n.timeout[cur]
                   [] timed /\ delta = 0 -> timeout
                   [] OTHER -> (abstime - clock.lasttime) % W
      slept   == [n EXCEPT !.state[cur] = newstate, !.timeout[cur] = field,
                            !.due[cur] = IF timed THEN abstime ELSE 0]
      ntp     == Min(ReadyOnes(slept))
  IN  /\ timed /\ delta > 0 => OverLasttime \/ Elapsed + ticks < W
      /\ nil' = [slept EXCEPT !.current = ntp, !.next = ntp]
      /\ cont' = [cont EXCEPT ![cur] = then]
      /\ clock' = IF timed /\ delta > 0 /\ Earlier(abstime)
                  THEN [clock EXCEPT !.nexttime = abstime, !.alarm = TRUE]
                  ELSE clock
      /\ UNCHANGED <<isr, scan, delta>>

\* The threads in a state and with an object in u1; nil_find_thread has the first
\* of them.
Waiters(n, state, p) == {t \in Thds : n.state[t] = state /\ n.u1[t] = p}

nil_ready_all(n, p, c, msg) ==
  LET all == Waiters(n, "WTQUEUE", p)
      ws  == {t \in all : Cardinality({w \in all : w < t}) < -c}
  IN  [n EXCEPT !.u1 = [t \in 1 .. idle |-> IF t \in ws THEN Kept(t, msg) ELSE @[t]],
                !.state = [t \in 1 .. idle |-> IF t \in ws THEN "READY" ELSE @[t]],
                !.timeout = [t \in 1 .. idle |-> IF t \in ws THEN 0 ELSE @[t]],
                !.due = [t \in 1 .. idle |-> IF t \in ws THEN 0 ELSE @[t]],
                !.next = Min(ws \cup {@})]

\* The threads' code runs, and does not wake up inside of a call.
Runs == isr = "none" /\ cont[cur] = "none"

\* A call that a thread ends with a reschedule, or that a handler makes.
Notify(n) ==
  \/ Runs /\ nil' = Reschedule(n) /\ UNCHANGED isr
  \/ /\ Runs \/ isr # "none"
     /\ nil' = n
     /\ isr' = IF isr = "none" THEN "handler" ELSE isr

Sleeps == Runs /\ cur # idle

timevars == <<scan, clock, delta>>

-----------------------------------------------------------------------------
(* Semaphores, threads queues, references *)

chSemWaitTimeout(timeout) ==
  /\ Sleeps
  /\ counter' = [counter EXCEPT !["sem"] = @ - 1]
  /\ IF counter["sem"] <= 0
     THEN GoSleep([nil EXCEPT !.u1[cur] = "sem"], "WTQUEUE", timeout, "none")
     ELSE UNCHANGED <<nil, cont, isr, timevars>>
  /\ UNCHANGED <<reference, got>>

chSemSignal ==
  /\ counter["sem"] < MaxCnt
  /\ counter' = [counter EXCEPT !["sem"] = @ + 1]
  /\ Notify(IF counter["sem"] < 0
            THEN chSchReadyI(nil, Min(Waiters(nil, "WTQUEUE", "sem")), MSG_OK)
            ELSE nil)
  /\ UNCHANGED <<reference, cont, got, timevars>>

chSemResetWithMessage(n) ==
  /\ counter' = [counter EXCEPT !["sem"] = n]
  /\ Notify(nil_ready_all(nil, "sem", counter["sem"], MSG_RESET))
  /\ UNCHANGED <<reference, cont, got, timevars>>

chThdEnqueueTimeoutS(timeout) ==
  /\ Sleeps
  /\ counter' = [counter EXCEPT !["tq"] = @ - 1]
  /\ GoSleep([nil EXCEPT !.u1[cur] = "tq"], "WTQUEUE", timeout, "none")
  /\ UNCHANGED <<reference, got>>

chThdDequeueNextI ==
  /\ counter["tq"] < 0
  /\ counter' = [counter EXCEPT !["tq"] = @ + 1]
  /\ Notify(chSchReadyI(nil, Min(Waiters(nil, "WTQUEUE", "tq")), MSG_OK))
  /\ UNCHANGED <<reference, cont, got, timevars>>

chThdDequeueAllI ==
  /\ counter["tq"] < 0
  /\ counter' = [counter EXCEPT !["tq"] = 0]
  /\ Notify(nil_ready_all(nil, "tq", counter["tq"], MSG_RESET))
  /\ UNCHANGED <<reference, cont, got, timevars>>

\* The caller makes sure that nobody is suspended on the reference.
chThdSuspendTimeoutS(timeout) ==
  /\ Sleeps
  /\ reference = NoRef
  /\ reference' = cur
  /\ GoSleep([nil EXCEPT !.u1[cur] = "ref"], "SUSPENDED", timeout, "none")
  /\ UNCHANGED <<counter, got>>

chThdResume ==
  /\ reference # NoRef
  /\ reference' = NoRef
  /\ Notify(chSchReadyI(nil, reference, MSG_OK))
  /\ UNCHANGED <<counter, cont, got, timevars>>

-----------------------------------------------------------------------------
(* Threads *)

chThdCreate(t) ==
  /\ nil.state[t] \in {"WTSTART", "FINAL"}
  /\ Notify(chSchReadyI(nil, t, MSG_OK))
  /\ UNCHANGED <<counter, reference, cont, got, timevars>>

chThdSleep(timeout) ==
  /\ Sleeps
  /\ timeout # TIME_INFINITE
  /\ GoSleep(nil, "SLEEPING", timeout, "none")
  /\ UNCHANGED <<counter, reference, got>>

\* The threads that wait for the current one are made ready, and it is gone.
chThdExit ==
  /\ Sleeps
  /\ LET ws == Waiters(nil, "WTEXIT", cur)
         n  == [nil EXCEPT !.state = [t \in 1 .. idle |-> IF t \in ws THEN "READY" ELSE @[t]],
                           !.u1 = [t \in 1 .. idle |-> IF t \in ws \cup {cur} THEN MSG_OK ELSE @[t]]]
     IN  GoSleep(n, "FINAL", TIME_INFINITE, "none")
  /\ UNCHANGED <<counter, reference, got>>

chThdWait(t) ==
  /\ Sleeps
  /\ t # cur /\ nil.state[t] # "FINAL"
  /\ GoSleep([nil EXCEPT !.u1[cur] = t], "WTEXIT", TIME_INFINITE, "none")
  /\ UNCHANGED <<counter, reference, got>>

-----------------------------------------------------------------------------
(* Messages *)

chMsgSend(t) ==
  /\ Sleeps
  /\ t # cur
  /\ LET n == [nil EXCEPT !.u1[cur] = t]
     IN  GoSleep(IF nil.state[t] = "WTMSG" THEN chSchReadyI(n, t, cur) ELSE n,
                 "SNDMSGQ", TIME_INFINITE, "none")
  /\ UNCHANGED <<counter, reference, got>>

chMsgWaitTimeout(timeout) ==
  /\ Sleeps
  /\ LET senders == Waiters(nil, "SNDMSGQ", cur)
     IN  IF senders # {}
         THEN /\ got' = got \cup {Min(senders)}
              /\ UNCHANGED <<nil, cont, isr, timevars>>
         ELSE /\ GoSleep(nil, "WTMSG", timeout, "msg")
              /\ UNCHANGED got
  /\ UNCHANGED <<counter, reference>>

\* The caller releases a message that it has received.
chMsgRelease(t) ==
  /\ Runs
  /\ t \in got /\ nil.u1[t] = cur
  /\ got' = got \ {t}
  /\ nil' = Reschedule(chSchReadyI(nil, t, MSG_OK))
  /\ UNCHANGED <<counter, reference, cont, isr, timevars>>

-----------------------------------------------------------------------------
(* The end of a call in which a thread slept; the kernel is still locked *)

WakeUp ==
  /\ isr = "none"
  /\ cont[cur] = "msg"
  /\ got' = IF nil.u1[cur] # MSG_TIMEOUT THEN got \cup {nil.u1[cur]} ELSE got
  /\ cont' = [cont EXCEPT ![cur] = "none"]
  /\ UNCHANGED <<nil, counter, reference, isr, timevars>>

-----------------------------------------------------------------------------
(* Time and interrupts *)

AlarmRings == clock.alarm /\ clock.now = clock.nexttime

\* The free running counter.
TimePasses ==
  /\ delta > 0 /\ isr = "none" /\ ~AlarmRings
  /\ clock' = [clock EXCEPT !.now = chTimeAddX(@, 1)]
  /\ UNCHANGED <<nil, counter, reference, cont, got, isr, scan, delta>>

\* chSysTimerHandlerI up to its loop.
TimerInterrupt ==
  /\ Runs
  /\ \/ delta = 0 /\ clock' = [clock EXCEPT !.now = chTimeAddX(@, 1)]
     \/ delta > 0 /\ AlarmRings /\ UNCHANGED clock
  /\ isr' = "tick"
  /\ scan' = [tp |-> 1, next |-> 0]
  /\ UNCHANGED <<nil, counter, reference, cont, got, delta>>

\* Mutant: a timeout on a threads queue leaves its counter alone.
Expired_uncounted(t) ==
  /\ counter' = counter
  /\ reference' = IF nil.state[t] = "SUSPENDED" THEN NoRef ELSE reference

\* What the objects lose with a thread that times out.
Expired(t) ==
  /\ counter' = IF nil.state[t] = "WTQUEUE" THEN [counter EXCEPT ![nil.u1[t]] = @ + 1] ELSE counter
  /\ reference' = IF nil.state[t] = "SUSPENDED" THEN NoRef ELSE reference

\* One turn of the loop, to where it opens the lock.
VisitThread ==
  LET t      == scan.tp
      passed == IF delta = 0 THEN 1 ELSE chTimeDiffX(clock.lasttime, clock.nexttime)
      left   == (nil.timeout[t] - passed) % W
      timed  == nil.timeout[t] > 0
      first  == delta > 0 /\ timed /\ left > 0 /\ left <= (scan.next - 1) % W
  IN  /\ isr = "tick" /\ t <= NT
      /\ scan' = [tp |-> t + 1, next |-> IF first THEN left ELSE scan.next]
      /\ IF timed /\ left = 0
         THEN Expired(t) /\ nil' = chSchReadyI(nil, t, MSG_TIMEOUT)
         ELSE /\ nil' = IF timed THEN [nil EXCEPT !.timeout[t] = left] ELSE nil
              /\ UNCHANGED <<counter, reference>>
      /\ UNCHANGED <<cont, got, isr, clock, delta>>

\* Mutant: the base time of the timeouts is not moved.
EndOfScan_keepsbase ==
  /\ isr = "tick" /\ scan.tp = idle
  /\ clock' = IF delta = 0 THEN clock
              ELSE [clock EXCEPT !.nexttime = chTimeAddX(@, scan.next), !.alarm = scan.next > 0]
  /\ isr' = "handler"
  /\ scan' = NoScan
  /\ UNCHANGED <<nil, counter, reference, cont, got, delta>>

\* After the loop: the next alarm, or none.
EndOfScan ==
  /\ isr = "tick" /\ scan.tp = idle
  /\ clock' = IF delta = 0 THEN clock
              ELSE [clock EXCEPT !.lasttime = clock.nexttime,
                                 !.nexttime = chTimeAddX(@, scan.next), !.alarm = scan.next > 0]
  /\ isr' = "handler"
  /\ scan' = NoScan
  /\ UNCHANGED <<nil, counter, reference, cont, got, delta>>

EndOfInterrupt ==
  /\ isr = "handler"
  /\ isr' = "none"
  /\ nil' = Reschedule(nil)
  /\ UNCHANGED <<counter, reference, cont, got, timevars>>

-----------------------------------------------------------------------------

NilWait ==
  \/ \E timeout \in {TIME_INFINITE} \cup 1 .. MaxSleep :
       \/ chSemWaitTimeout(timeout)
       \/ chThdEnqueueTimeoutS(timeout)
       \/ chThdSuspendTimeoutS(timeout)
       \/ chThdSleep(timeout)
       \/ chMsgWaitTimeout(timeout)
  \/ \E t \in Thds : chThdWait(t) \/ chMsgSend(t)
  \/ chThdExit

NilNotify ==
  \/ chSemSignal \/ chThdDequeueNextI \/ chThdDequeueAllI \/ chThdResume
  \/ \E n \in 0 .. MaxCnt : chSemResetWithMessage(n)
  \/ \E t \in Thds : chThdCreate(t) \/ chMsgRelease(t)

NilTime == TimePasses \/ TimerInterrupt \/ VisitThread \/ EndOfScan \/ EndOfInterrupt

NilNext == NilWait \/ NilNotify \/ WakeUp \/ NilTime

NilSpec == NilInit /\ [][NilNext]_nilvars

-----------------------------------------------------------------------------
(* Properties *)

\* nil.next is the highest thread that is ready, and the processor is its own
\* outside of handlers; no thread waits for what is there already: the counter
\* of a semaphore or queue is the number of its waiters, a reference names the
\* thread suspended on it, a thread waits neither for messages that were sent
\* nor for the end of a thread that ended; and
\* no thread that is ready has a timeout (the assertion of the tick handler).
NilConsistent ==
  /\ nil.next = Min(ReadyOnes(nil))
  /\ isr = "none" => cur = nil.next
  /\ \A o \in {"sem", "tq"} :
       Cardinality(Waiters(nil, "WTQUEUE", o)) = IF counter[o] < 0 THEN -counter[o] ELSE 0
  /\ {t \in Thds : nil.state[t] = "SUSPENDED"} = {reference} \ {NoRef}
  /\ \A t \in Thds :
       /\ nil.state[t] = "WTMSG" => Waiters(nil, "SNDMSGQ", t) = {}
       /\ nil.state[t] = "WTEXIT" => nil.state[nil.u1[t]] # "FINAL"
       /\ nil.state[t] = "READY" => nil.timeout[t] = 0
       /\ t \in got => nil.state[t] = "SNDMSGQ"
       /\ cont[t] = "msg" /\ nil.state[t] = "READY" /\ nil.u1[t] > 0 =>
            nil.state[nil.u1[t]] = "SNDMSGQ" /\ nil.u1[nil.u1[t]] = t

\* A timed wait ends with its time.  The timeout of a thread counts from
\* nil.lasttime, or the present tick, to its deadline, threads that the tick
\* handler has visited or not; and when the deadline is there the interrupt is
\* pending or on its way to the thread.
NilOnTime ==
  \A t \in Thds :
    LET visited == isr = "tick" /\ t < scan.tp
        base == CASE delta = 0 -> IF isr = "tick" /\ ~visited THEN clock.now - 1 ELSE clock.now
                  [] delta > 0 /\ visited -> clock.nexttime
                  [] OTHER -> clock.lasttime
    IN  nil.timeout[t] > 0 =>
          /\ nil.due[t] = (base + nil.timeout[t]) % W
          /\ clock.now = nil.due[t] => (isr = "tick" /\ ~visited) \/ (delta > 0 /\ AlarmRings)

=============================================================================
