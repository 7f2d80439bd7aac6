------------------------------- MODULE ChSem -------------------------------
(***************************************************************************)
(* Counting semaphores (os/rt/src/chsem.c) and the binary semaphores built *)
(* on them (os/oslib/include/chbsem.h), with timeouts, next to mutexes and *)
(* condition variables.                                                    *)
(***************************************************************************)
EXTENDS ChCond

CONSTANTS
  Sems,          \* the counting semaphores
  BSems,         \* the binary ones
  SemPrio,       \* CH_CFG_USE_SEMAPHORES_PRIORITY
  MaxCnt,        \* bound: semaphores are not signalled beyond it
  ResetValues    \* values that counters are initialised and reset to

AllSems == Sems \cup BSems

ASSUME SemAssumption ==
  /\ AllSems \subseteq Objects \ (Mutexes \cup Conds)
  /\ Sems \cap BSems = {}
  /\ SemPrio \in BOOLEAN /\ (SemPrio <=> "WTSEM" \in RequeueStates)
  /\ MaxCnt \in Nat \ {0} /\ ResetValues \subseteq 0 .. MaxCnt

VARIABLE semcnt  \* semaphore_t.cnt

semvars == <<mtxvars, condvars, semcnt>>

\* chSemObjectInit and chBSemObjectInit.
SemInit ==
  /\ CondInit
  /\ semcnt \in [AllSems -> ResetValues]
  /\ \A b \in BSems : semcnt[b] <= 1

-----------------------------------------------------------------------------
(* The I-class operations, on the part k of the kernel state that they change *)

K == [sch |-> sch, wq |-> wq, cnt |-> semcnt]

\* Mutant: a waiter is released only when the counter becomes positive.
chSemSignalI_late(k, s) ==
  LET t == Head(k.wq[s])
  IN  IF k.cnt[s] + 1 < 0
      THEN [sch |-> chSchReadyI([k.sch EXCEPT !.u[t] = MSG_OK], t),
            wq  |-> [k.wq EXCEPT ![s] = Tail(@)],
            cnt |-> [k.cnt EXCEPT ![s] = @ + 1]]
      ELSE [k EXCEPT !.cnt[s] = @ + 1]

chSemSignalI(k, s) ==
  LET t == Head(k.wq[s])
  IN  IF k.cnt[s] + 1 <= 0
      THEN [sch |-> chSchReadyI([k.sch EXCEPT !.u[t] = MSG_OK], t),
            wq  |-> [k.wq EXCEPT ![s] = Tail(@)],
            cnt |-> [k.cnt EXCEPT ![s] = @ + 1]]
      ELSE [k EXCEPT !.cnt[s] = @ + 1]

chSemAddCounterI(k, s, n) ==
  ForEach(LAMBDA x, i : chSemSignalI(x, s), k, [i \in 1 .. n |-> i])

\* The waiters are taken from the end of the queue.
chSemResetWithMessageI(k, s, n) ==
  [sch |-> ForEachBackwards(LAMBDA x, t : chSchReadyI([x EXCEPT !.u[t] = MSG_RESET], t),
                            k.sch, k.wq[s]),
   wq  |-> [k.wq EXCEPT ![s] = <<>>],
   cnt |-> [k.cnt EXCEPT ![s] = n]]

\* Mutant: a binary semaphore is signalled like a counting one.
chBSemSignalI_counts(k, b) == chSemSignalI(k, b)

chBSemSignalI(k, b) == IF k.cnt[b] < 1 THEN chSemSignalI(k, b) ELSE k

\* The whole of an I-class call from an interrupt handler.
IsrDo(k) ==
  /\ IsrMode
  /\ sch' = k.sch /\ wq' = k.wq /\ semcnt' = k.cnt
  /\ isr' = TRUE
  /\ UNCHANGED <<realprio, mtxlist, owner, cnt, pc, mp, tp, condvars>>

\* The whole of a call from a thread that ends with chSchRescheduleS.
ThreadDo(k) ==
  /\ ThreadMode
  /\ sch' = chSchRescheduleS(k.sch) /\ wq' = k.wq /\ semcnt' = k.cnt
  /\ UNCHANGED <<realprio, mtxlist, owner, cnt, pc, mp, tp, isr, condvars>>

-----------------------------------------------------------------------------
(* The thread calls *)

sem_insert(q, t, prio) ==
  IF SemPrio THEN queue_prio_insert(q, t, prio) ELSE queue_insert(q, t)

\* The end of the wait functions: queued on s, the counter already decremented.
SemSleep(k, s) ==
  /\ wq' = [k.wq EXCEPT ![s] = sem_insert(@, ctp, sch.prio)]
  /\ sch' = chSchGoSleepS([k.sch EXCEPT !.u[ctp] = s], "WTSEM")
  /\ semcnt' = [k.cnt EXCEPT ![s] = @ - 1]

chSemWait(s) ==
  /\ ThreadMode
  /\ \/ /\ semcnt[s] - 1 >= 0
        /\ semcnt' = [semcnt EXCEPT ![s] = @ - 1]
        /\ UNCHANGED <<sch, wq>>
     \/ /\ semcnt[s] - 1 < 0
        /\ SemSleep(K, s)
  /\ UNCHANGED <<realprio, mtxlist, owner, cnt, pc, mp, tp, isr, condvars>>

\* When the wait does not stop, or the timeout is TIME_IMMEDIATE, this is
\* chSemWait or no change at all: what is left is the timed sleep.
chSemWaitTimeout(s) ==
  /\ ThreadMode
  /\ semcnt[s] - 1 < 0
  /\ SemSleep(K, s)
  /\ Arm(FALSE)
  /\ pc' = [pc EXCEPT ![ctp] = "timed"]
  /\ UNCHANGED <<realprio, mtxlist, owner, cnt, mp, tp, isr, fired>>

chSemSignal(s) ==
  /\ ThreadMode
  /\ semcnt[s] < MaxCnt
  /\ \/ /\ semcnt[s] + 1 <= 0
        /\ sch' = chSchWakeupS(sch, Head(wq[s]), MSG_OK)
        /\ wq' = [wq EXCEPT ![s] = Tail(@)]
     \/ /\ semcnt[s] + 1 > 0
        /\ UNCHANGED <<sch, wq>>
  /\ semcnt' = [semcnt EXCEPT ![s] = @ + 1]
  /\ UNCHANGED <<realprio, mtxlist, owner, cnt, pc, mp, tp, isr, condvars>>

chSemSignalWait(sps, spw) ==
  LET k == chSemSignalI(K, sps)
  IN  /\ ThreadMode
      /\ semcnt[sps] < MaxCnt
      /\ \/ /\ k.cnt[spw] - 1 < 0
            /\ SemSleep(k, spw)
         \/ /\ k.cnt[spw] - 1 >= 0
            /\ sch' = chSchRescheduleS(k.sch)
            /\ wq' = k.wq
            /\ semcnt' = [k.cnt EXCEPT ![spw] = @ - 1]
      /\ UNCHANGED <<realprio, mtxlist, owner, cnt, pc, mp, tp, isr, condvars>>

\* Mutant: a timed out waiter leaves the counter as it is.
SemTimerCallback_nocount == TimerCallback /\ UNCHANGED semcnt

\* wakeup() gives back the unit a timed out waiter had taken.
SemTimerCallback ==
  /\ TimerCallback
  /\ semcnt' = IF sch.state[fired] = "WTSEM"
               THEN [semcnt EXCEPT ![sch.u[fired]] = @ + 1]
               ELSE semcnt

-----------------------------------------------------------------------------

SemCall ==
  \/ CondCall /\ UNCHANGED semcnt
  \/ \E s \in AllSems : chSemWait(s) \/ chSemWaitTimeout(s)
  \/ \E s \in Sems : \/ chSemSignal(s)
                     \/ \E n \in ResetValues : ThreadDo(chSemResetWithMessageI(K, s, n))
                     \/ \E w \in Sems : chSemSignalWait(s, w)
  \/ \E b \in BSems : \/ ThreadDo(chBSemSignalI(K, b))
                      \/ \E n \in 0 .. 1 : ThreadDo(chSemResetWithMessageI(K, b, n))

SemIsr ==
  \/ CondIsr /\ UNCHANGED semcnt
  \/ \E s \in Sems : \/ semcnt[s] < MaxCnt /\ IsrDo(chSemSignalI(K, s))
                     \/ \E n \in 1 .. MaxCnt - semcnt[s] : IsrDo(chSemAddCounterI(K, s, n))
                     \/ \E n \in ResetValues : IsrDo(chSemResetWithMessageI(K, s, n))
  \/ \E b \in BSems : \/ IsrDo(chBSemSignalI(K, b))
                      \/ \E n \in 0 .. 1 : IsrDo(chSemResetWithMessageI(K, b, n))

SemNext ==
  \/ SemCall \/ SemIsr \/ SemTimerCallback
  \/ (CondKernel \/ CondReturn) /\ UNCHANGED semcnt

SemSpec == SemInit /\ [][SemNext]_semvars

-----------------------------------------------------------------------------
(* Properties *)

\* The assertion of every semaphore function, in its exact form: a negative
\* counter is the number of waiters, whatever mix of signals, resets and
\* timeouts removed them.
SemConsistent ==
  \A s \in AllSems : Len(wq[s]) = IF semcnt[s] < 0 THEN -semcnt[s] ELSE 0

\* A binary semaphore never holds more than one unit.
BinaryStaysBinary == \A b \in BSems : semcnt[b] <= 1

\* The abstract semaphore that s stands for.
Abs(s) == INSTANCE CountingSem WITH
            value   <- IF semcnt[s] > 0 THEN semcnt[s] ELSE 0,
            waiting <- Range(wq[s]),
            MaxPost <- MaxCnt + Cardinality(Threads)

\* A step of the kernel is a step of CountingSem or leaves s alone, and a call
\* on s is the step that its name promises.
SemStep(s) ==
  /\ [Abs(s)!Next]_(Abs(s)!vars)
  /\ chSemWait(s) => Abs(s)!Take \/ Abs(s)!Block(ctp)
  /\ chSemWaitTimeout(s) => Abs(s)!Block(ctp)
  /\ chSemSignal(s) \/ IsrDo(chSemSignalI(K, s)) => Abs(s)!Post(1)
  /\ \A n \in 1 .. MaxCnt - semcnt[s] : IsrDo(chSemAddCounterI(K, s, n)) => Abs(s)!Post(n)
  /\ TimerCallback => IF sch.state[fired] = "WTSEM" /\ sch.u[fired] = s
                      THEN Abs(s)!Expire(fired)
                      ELSE UNCHANGED Abs(s)!vars

\* Every semaphore implements CountingSem, call by call: a signal is never lost
\* and never wakes two threads, and a timeout takes the waiter away and leaves
\* the units as they are, whatever negative counts and queues stand for them.
SemsCount ==
  /\ \A s \in AllSems : Abs(s)!Init
  /\ [][\A s \in AllSems : SemStep(s)]_semvars

=============================================================================
