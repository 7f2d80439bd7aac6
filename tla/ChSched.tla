------------------------------ MODULE ChSched ------------------------------
(***************************************************************************)
(* The scheduler of ChibiOS/RT (os/rt/src/chschd.c, os/rt/include/chschd.h)*)
(* as operators on the scheduler state s, a record of the fields of        *)
(* ch.rlist and of the thread_t fields that the scheduler reads or writes: *)
(*   current  ch.rlist.current                                             *)
(*   queue    ch.rlist.queue, the ready list, first element first          *)
(*   state, prio, ticks, u   the thread_t fields, per thread               *)
(* thread_t.u is a C union: rdymsg, exitcode, sentmsg and the pointers to  *)
(* the awaited object share one cell, so u[t] is one value.                *)
(* Each operator is one C function, run inside the kernel lock; a module   *)
(* that owns the kernel state composes them into its actions.              *)
(***************************************************************************)
EXTENDS Integers, Sequences, FiniteSetsExt

CONSTANTS
  Threads,        \* every thread, the idle thread included
  idle,           \* the thread of chSysInit that only runs port_wait_for_interrupt
  HIGHPRIO,       \* the largest priority
  TIME_QUANTUM,   \* CH_CFG_TIME_QUANTUM; 0 disables round robin
  Objects         \* what a thread can wait on: mutexes, condition variables...

IDLEPRIO == 1
NOPRIO == 0       \* priority of the ready list header, below every thread

ASSUME SchedAssumption ==
  /\ idle \in Threads
  /\ HIGHPRIO \in Nat /\ HIGHPRIO > IDLEPRIO
  /\ TIME_QUANTUM \in Nat

MSG_OK == "MSG_OK"
MSG_TIMEOUT == "MSG_TIMEOUT"
MSG_RESET == "MSG_RESET"
Messages == {MSG_OK, MSG_TIMEOUT, MSG_RESET}

States == {"READY", "CURRENT", "WTSTART", "SUSPENDED", "QUEUED", "WTSEM",
           "WTMTX", "WTCOND", "SLEEPING", "WTEXIT", "WTOREVT", "WTANDEVT",
           "SNDMSGQ", "SNDMSG", "WTMSG", "FINAL"}

Priorities == IDLEPRIO .. HIGHPRIO

SchedState ==
  [current : Threads,
   queue   : Seq(Threads),
   state   : [Threads -> States],
   prio    : [Threads -> Priorities],
   ticks   : [Threads -> 0 .. TIME_QUANTUM],
   u       : [Threads -> Objects \cup Messages]]

-----------------------------------------------------------------------------
(* Thread queues *)

\* Index of the first element that Test holds of, 0 if there is none.
FirstIndex(q, Test(_)) ==
  LET I == {i \in 1 .. Len(q) : Test(q[i])}
  IN  IF I # {} THEN Min(I) ELSE 0

\* q with t as its i-th element.
PutAt(q, i, t) ==
  [j \in 1 .. Len(q) + 1 |-> IF j < i THEN q[j] ELSE IF j = i THEN t ELSE q[j-1]]

\* q without its i-th element.
DropAt(q, i) == [j \in 1 .. Len(q) - 1 |-> IF j < i THEN q[j] ELSE q[j+1]]

Push(t, q) == PutAt(q, 1, t)

\* The state s after step(s, t) for every t of q, from the first to the last.
ForEach(step(_, _), s, q) ==
  MapThenFoldSet(LAMBDA t, x : step(x, t), s, LAMBDA i : q[i], Max, DOMAIN q)

\* From the last to the first.
ForEachBackwards(step(_, _), s, q) ==
  MapThenFoldSet(LAMBDA t, x : step(x, t), s, LAMBDA i : q[i], Min, DOMAIN q)

\* Insertion of t before the first element that Before holds of, at the end
\* when there is none.
InsertBefore(q, t, Before(_)) ==
  LET i == FirstIndex(q, Before)
  IN  PutAt(q, IF i = 0 THEN Len(q) + 1 ELSE i, t)

\* Behind the threads of the same priority.
queue_prio_insert(q, t, prio) ==
  InsertBefore(q, t, LAMBDA x : prio[x] < prio[t])

\* The scan of chSchReadyAheadI: ahead of the threads of the same priority.
queue_ahead_insert(q, t, prio) ==
  InsertBefore(q, t, LAMBDA x : prio[x] <= prio[t])

queue_insert(q, t) == Append(q, t)

queue_dequeue(q, t) ==
  IF t \in Range(q) THEN DropAt(q, FirstIndex(q, LAMBDA x : x = t)) ELSE q

-----------------------------------------------------------------------------
(* Scheduler primitives *)

\* Priority of the first ready thread; an empty list shows its header.
firstprio(s) == IF s.queue = <<>> THEN NOPRIO ELSE s.prio[Head(s.queue)]

chSchReadyI(s, t) ==
  [s EXCEPT !.state[t] = "READY",
            !.queue = queue_prio_insert(s.queue, t, s.prio)]

chSchReadyAheadI(s, t) ==
  [s EXCEPT !.state[t] = "READY",
            !.queue = queue_ahead_insert(s.queue, t, s.prio)]

\* The ready list's first thread becomes current; the old one is left alone.
TakeNext(s) ==
  [s EXCEPT !.current = Head(s.queue),
            !.queue = Tail(s.queue),
            !.state[Head(s.queue)] = "CURRENT"]

chSchGoSleepS(s, newstate) ==
  TakeNext([s EXCEPT !.state[s.current] = newstate,
                     !.ticks[s.current] = TIME_QUANTUM])

chSchWakeupS(s, ntp, msg) ==
  LET m == [s EXCEPT !.u[ntp] = msg]
  IN  IF s.prio[ntp] <= s.prio[s.current]
      THEN chSchReadyI(m, ntp)
      ELSE [chSchReadyAheadI(m, s.current) EXCEPT !.current = ntp,
                                                  !.state[ntp] = "CURRENT"]

chSchIsRescRequiredI(s) == firstprio(s) > s.prio[s.current]

chSchDoRescheduleAhead(s) == chSchReadyAheadI(TakeNext(s), s.current)

chSchDoRescheduleBehind(s) ==
  chSchReadyI([TakeNext(s) EXCEPT !.ticks[s.current] = TIME_QUANTUM], s.current)

\* Mutant: nobody is preempted.
chSchRescheduleS_never(s) == s

chSchRescheduleS(s) ==
  IF chSchIsRescRequiredI(s) THEN chSchDoRescheduleAhead(s) ELSE s

chSchDoYieldS(s) ==
  IF firstprio(s) >= s.prio[s.current] THEN chSchDoRescheduleBehind(s) ELSE s

\* Mutant: the end of a time slice makes no difference.
chSchIsPreemptionRequired_not(s) == firstprio(s) > s.prio[s.current]

chSchIsPreemptionRequired(s) ==
  IF TIME_QUANTUM = 0 \/ s.ticks[s.current] > 0
  THEN firstprio(s) > s.prio[s.current]
  ELSE firstprio(s) >= s.prio[s.current]

chSchDoReschedule(s) ==
  IF TIME_QUANTUM > 0 /\ s.ticks[s.current] = 0
  THEN chSchDoRescheduleBehind(s)
  ELSE chSchDoRescheduleAhead(s)

\* What the last nested interrupt handler runs before it returns.
IrqEpilogue(s) ==
  IF chSchIsPreemptionRequired(s) THEN chSchDoReschedule(s) ELSE s

\* The part of the tick handler that concerns the running thread.
chSysTimerHandlerI(s) ==
  IF s.ticks[s.current] > 0 THEN [s EXCEPT !.ticks[s.current] = @ - 1] ELSE s

-----------------------------------------------------------------------------
(* The timeout callback of chSchGoSleepTimeoutS, in its two effects.  A thread *)
(* already made ready is left alone, message included.                        *)

\* Mutant: the case of a thread that is ready by now is missing.
wakeup_always(s, t) == chSchReadyI([s EXCEPT !.u[t] = MSG_TIMEOUT], t)

wakeup(s, t) ==
  IF s.state[t] = "READY" THEN s
  ELSE chSchReadyI([s EXCEPT !.u[t] = MSG_TIMEOUT], t)

\* Mutant: a thread that timed out stays in its wait queue.
wakeup_dequeue_none(s, wq, t) == wq

\* The links of t tell the list it is in.
wakeup_dequeue(s, wq, t) ==
  IF s.state[t] \in {"WTSEM", "QUEUED", "WTCOND"}
  THEN [o \in Objects |-> queue_dequeue(wq[o], t)]
  ELSE wq

-----------------------------------------------------------------------------
(* Predicates on the scheduler state that its users' invariants share *)

Sorted(q, prio) == \A i, j \in DOMAIN q : i < j => prio[q[i]] >= prio[q[j]]

\* The assertion of chSysUnlock(): nobody ready outranks the running thread.
PriorityOrder(s) == firstprio(s) <= s.prio[s.current]

=============================================================================
