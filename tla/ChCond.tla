------------------------------- MODULE ChCond -------------------------------
(***************************************************************************)
(* Condition variables (os/rt/src/chcond.c) and timed waits                *)
(* (chSchGoSleepTimeoutS and its wakeup callback, os/rt/src/chschd.c) on   *)
(* top of the mutexes.                                                     *)
(*                                                                         *)
(* A timed wait arms a virtual_timer_t on the waiting thread's own stack.  *)
(* chVTDoTickI unlinks an expired timer, releases the kernel lock, and     *)
(* only then calls wakeup(), which takes the lock again: other interrupt   *)
(* handlers may run in between.  When a timer expires is left open.        *)
(***************************************************************************)
EXTENDS ChMtx

CONSTANTS
  Conds

ASSUME CondAssumption ==
  /\ Conds \subseteq Objects \ Mutexes
  /\ Conds # {} => "WTCOND" \in RequeueStates

VARIABLES
  vt,      \* the threads whose stack holds an armed timer
  fired    \* the thread of the expired timer whose callback has yet to run

condvars == <<vt, fired>>

CondInit == MtxInit /\ vt = {} /\ fired = NULL

-----------------------------------------------------------------------------
(* Timed waits *)

\* chVTDoSetI in chSchGoSleepTimeoutS, unless the timeout is TIME_INFINITE.
Arm(infinite) == vt' = IF infinite THEN vt ELSE vt \cup {ctp}

\* Mutant: the timer stays armed when the wait ends before it.
Disarm_forgotten == vt' = vt

\* The end of chSchGoSleepTimeoutS, in the thread that runs again.
Disarm == vt' = vt \ {ctp}

chThdSleep ==
  /\ ThreadMode /\ ctp \in Sleepers
  /\ Arm(FALSE)
  /\ sch' = chSchGoSleepS(sch, "SLEEPING")
  /\ pc' = [pc EXCEPT ![ctp] = "timed"]
  /\ UNCHANGED <<wq, realprio, mtxlist, owner, cnt, mp, tp, isr, fired>>

chThdSuspendTimeoutS ==
  /\ ThreadMode /\ ctp \in Sleepers
  /\ Arm(FALSE)
  /\ sch' = chSchGoSleepS(sch, "SUSPENDED")
  /\ pc' = [pc EXCEPT ![ctp] = "timed"]
  /\ UNCHANGED <<wq, realprio, mtxlist, owner, cnt, mp, tp, isr, fired>>

TimedReturn ==
  /\ pc[ctp] = "timed"
  /\ Disarm
  /\ pc' = [pc EXCEPT ![ctp] = "run"]
  /\ UNCHANGED <<sch, wq, realprio, mtxlist, owner, cnt, mp, tp, isr, fired>>

\* chVTDoTickI up to the call of the timer's function.
TimerExpires(t) ==
  /\ IsrMode
  /\ fired = NULL /\ t \in vt
  /\ vt' = vt \ {t} /\ fired' = t
  /\ isr' = TRUE
  /\ UNCHANGED <<sch, restvars>>

TimerCallback ==
  /\ fired # NULL
  /\ sch' = wakeup(sch, fired)
  /\ wq' = wakeup_dequeue(sch, wq, fired)
  /\ fired' = NULL
  /\ UNCHANGED <<realprio, mtxlist, owner, cnt, pc, mp, tp, isr, vt>>

-----------------------------------------------------------------------------
(* Condition variables *)

\* Waiting locks the top mutex again: the application's lock order applies.
MayRelock ==
  \A n \in Range(Tail(mtxlist[ctp])) : <<n, Head(mtxlist[ctp])>> \in LockOrder

\* chMtxUnlockS of the top mutex, queueing on c, and the sleep: one stretch of
\* code.  A nested recursive mutex is only unnested.
CondSleep(c, where) ==
  LET m  == Head(mtxlist[ctp])
      s  == IF LastUnlock(m) THEN AfterUnlockS(m) ELSE sch
      ws == IF LastUnlock(m) THEN WqAfterUnlock(m) ELSE wq
  IN  /\ ThreadMode
      /\ mtxlist[ctp] # <<>>
      /\ MayRelock
      /\ \/ LastUnlock(m) /\ HandOver(m)
         \/ ~LastUnlock(m) /\ cnt' = [cnt EXCEPT ![m] = @ - 1]
            /\ UNCHANGED <<mtxlist, owner>>
      /\ wq' = [ws EXCEPT ![c] = queue_prio_insert(@, ctp, s.prio)]
      /\ sch' = chSchGoSleepS([s EXCEPT !.u[ctp] = c], "WTCOND")
      /\ pc' = [pc EXCEPT ![ctp] = where]
      /\ mp' = [mp EXCEPT ![ctp] = m]
      /\ UNCHANGED <<realprio, tp, isr, fired>>

chCondWait(c) == CondSleep(c, "condwait") /\ UNCHANGED vt

chCondWaitTimeout(c, infinite) == CondSleep(c, "condwaitT") /\ Arm(infinite)

CondWaitReturn ==
  /\ pc[ctp] = "condwait"
  /\ chMtxLockS(mp[ctp])
  /\ UNCHANGED condvars

\* After a timeout the mutex is not taken again.
CondWaitTimeoutReturn ==
  /\ pc[ctp] = "condwaitT"
  /\ \/ /\ sch.u[ctp] # MSG_TIMEOUT
        /\ chMtxLockS(mp[ctp])
     \/ /\ sch.u[ctp] = MSG_TIMEOUT
        /\ pc' = [pc EXCEPT ![ctp] = "run"]
        /\ mp' = [mp EXCEPT ![ctp] = NULL]
        /\ UNCHANGED <<sch, wq, realprio, mtxlist, owner, cnt, tp, isr>>
  /\ Disarm
  /\ UNCHANGED fired

chCondSignal(c) ==
  /\ ThreadMode
  /\ wq[c] # <<>>
  /\ sch' = chSchWakeupS(sch, Head(wq[c]), MSG_OK)
  /\ wq' = [wq EXCEPT ![c] = Tail(@)]
  /\ UNCHANGED <<realprio, mtxlist, owner, cnt, pc, mp, tp, isr, condvars>>

\* chCondSignalI in an interrupt handler.
IsrCondSignal(c) ==
  /\ IsrMode
  /\ wq[c] # <<>>
  /\ sch' = chSchReadyI([sch EXCEPT !.u[Head(wq[c])] = MSG_OK], Head(wq[c]))
  /\ wq' = [wq EXCEPT ![c] = Tail(@)]
  /\ isr' = TRUE
  /\ UNCHANGED <<realprio, mtxlist, owner, cnt, pc, mp, tp, condvars>>

\* The scheduler state after the loop of chCondBroadcastI.
chCondBroadcastI(c) ==
  ForEach(LAMBDA s, t : chSchReadyI([s EXCEPT !.u[t] = MSG_RESET], t), sch, wq[c])

chCondBroadcast(c) ==
  /\ ThreadMode
  /\ sch' = chSchRescheduleS(chCondBroadcastI(c))
  /\ wq' = [wq EXCEPT ![c] = <<>>]
  /\ UNCHANGED <<realprio, mtxlist, owner, cnt, pc, mp, tp, isr, condvars>>

IsrCondBroadcast(c) ==
  /\ IsrMode
  /\ wq[c] # <<>>
  /\ sch' = chCondBroadcastI(c)
  /\ wq' = [wq EXCEPT ![c] = <<>>]
  /\ isr' = TRUE
  /\ UNCHANGED <<realprio, mtxlist, owner, cnt, pc, mp, tp, condvars>>

-----------------------------------------------------------------------------

CondCall ==
  \/ MtxCall /\ UNCHANGED condvars
  \/ chThdSleep \/ chThdSuspendTimeoutS
  \/ \E c \in Conds : \/ chCondWait(c)
                      \/ \E infinite \in BOOLEAN : chCondWaitTimeout(c, infinite)
                      \/ chCondSignal(c)
                      \/ chCondBroadcast(c)

CondKernel ==
  \/ MtxKernel /\ UNCHANGED condvars
  \/ TimedReturn \/ CondWaitReturn \/ CondWaitTimeoutReturn

CondIsr ==
  \/ MtxIsr /\ UNCHANGED condvars
  \/ \E t \in Threads : TimerExpires(t)
  \/ \E c \in Conds : IsrCondSignal(c) \/ IsrCondBroadcast(c)

CondReturn == fired = NULL /\ IsrReturn /\ UNCHANGED condvars

CondNext == CondCall \/ CondKernel \/ CondIsr \/ TimerCallback \/ CondReturn

CondSpec == CondInit /\ [][CondNext]_<<mtxvars, condvars>>

\* Kernel code runs on, and an armed timer expires if it is not disarmed before.
\* The application's part: a thread that keeps being scheduled leaves its
\* critical sections, and what a suspended thread waits for happens.  Nothing is
\* asked of a thread that owns no mutex: it may keep the processor as long as
\* the scheduler lets it.
CondFairness ==
  /\ WF_<<mtxvars, condvars>>(CondKernel \/ TimerCallback \/ CondReturn)
  /\ \A t \in Threads \ {idle} :
       /\ []<>(ctp = t) => []<>(mtxlist[t] = <<>>)
       /\ []<>(sch.state[t] # "SUSPENDED")
       /\ []<>(t \notin vt)

CondLiveSpec == CondSpec /\ CondFairness

-----------------------------------------------------------------------------
(* Properties *)

\* The timers of timed waits live on stacks: one that is armed, or whose
\* callback is pending, belongs to a thread that has not returned from
\* chSchGoSleepTimeoutS; and a thread whose callback is pending cannot run.
NoDanglingTimer ==
  /\ \A t \in vt \cup ({fired} \ {NULL}) : pc[t] \in {"condwaitT", "timed"}
  /\ fired # NULL => fired # ctp

\* A thread made ready by a signal, a broadcast, a resume or a timeout reads
\* that message when it runs: no later event, above all not a timer that
\* expires meanwhile, changes it.
ReadyKeepsMessage ==
  [][\A t \in Threads :
       sch.state[t] = "READY" /\ sch'.state[t] = "READY" => sch'.u[t] = sch.u[t]]_sch

\* A timed wait on a condition variable of a thread above all others returns:
\* its timer or a signal wakes it, and then the mutex it must have back is not
\* kept from it by threads of lower priority.
TimedWaitReturns ==
  \A t \in {h \in Threads : \A x \in Threads \ {h} : BasePrio[x] < BasePrio[h]} :
    pc[t] = "condwaitT" /\ t \in vt ~> pc[t] = "run"

=============================================================================
