------------------------------- MODULE ChMtx -------------------------------
(***************************************************************************)
(* Mutexes with priority inheritance (os/rt/src/chmtx.c) on top of the     *)
(* scheduler.  The running thread calls any function of the mutex API; the *)
(* interrupt handlers resume suspended threads and run the system tick     *)
(* whenever the kernel is not locked.                                      *)
(*                                                                         *)
(* One action is one stretch of code inside the kernel lock.  A function   *)
(* that loops or sleeps is several actions: pc[t] says where thread t is   *)
(* in it, and while pc[current] # "run" the kernel is locked, so only the  *)
(* running thread's next piece of the same function can happen.            *)
(***************************************************************************)
EXTENDS ChSched

CONSTANTS
  Mutexes,
  NULL,
  main,            \* the thread that runs when chSysInit returns
  BasePrio,        \* priority every thread is created with
  RequeueStates,   \* waiting states, WTMTX apart, with priority-ordered queues
  RecursiveMode,   \* CH_CFG_USE_MUTEXES_RECURSIVE
  MaxNest,         \* bound: nesting of one recursive mutex
  NewPrios,        \* priorities that chThdSetPriority is called with
  Sleepers,        \* threads that suspend themselves or sleep, outside of waits
  SetPrioOwning,   \* chThdSetPriority is also called while owning a mutex
  LockOrder        \* set of pairs <<m, n>>: n may be locked while holding m

ASSUME MtxAssumption ==
  /\ Mutexes \subseteq Objects
  /\ NULL \notin Mutexes \cup Threads
  /\ main \in Threads \ {idle}
  /\ BasePrio \in [Threads -> Priorities] /\ BasePrio[idle] = IDLEPRIO
  /\ RequeueStates \subseteq {"WTCOND", "WTSEM", "SNDMSGQ"}
  /\ RecursiveMode \in BOOLEAN /\ SetPrioOwning \in BOOLEAN
  /\ MaxNest \in Nat
  /\ Sleepers \subseteq Threads
  /\ NewPrios \subseteq Priorities
  /\ LockOrder \subseteq Mutexes \X Mutexes

VARIABLES
  sch,        \* scheduler state
  wq,         \* object -> queue of the threads waiting on it (its first field)
  realprio,   \* thread_t.realprio
  mtxlist,    \* thread_t.mtxlist, the stack of owned mutexes, top first
  owner,      \* mutex_t.owner
  cnt,        \* mutex_t.cnt, unused unless RecursiveMode
  pc,         \* where each thread is
  mp,         \* the mp local of the function each thread is in
  tp,         \* the tp local of the inheritance loop of chMtxLockS
  isr         \* interrupt handlers are running

mtxvars == <<sch, wq, realprio, mtxlist, owner, cnt, pc, mp, tp, isr>>

Pcs == {"run",        \* in thread code, kernel unlocked when current
        "boost",      \* chMtxLockS, inheritance loop
        "mtxwait",    \* chMtxLockS, after chSchGoSleepS
        "unlockall",  \* chMtxUnlockAllS, loop
        "condwait",   \* chCondWaitS, after chSchGoSleepS
        "condwaitT",  \* chCondWaitTimeoutS, in chSchGoSleepTimeoutS
        "timed"}      \* another caller, in chSchGoSleepTimeoutS

MtxTypeOK ==
  /\ sch \in SchedState
  /\ wq \in [Objects -> Seq(Threads)]
  /\ realprio \in [Threads -> Priorities]
  /\ mtxlist \in [Threads -> Seq(Mutexes)]
  /\ owner \in [Mutexes -> Threads \cup {NULL}]
  /\ cnt \in [Mutexes -> Nat]
  /\ pc \in [Threads -> Pcs]
  /\ mp \in [Threads -> Mutexes \cup {NULL}]
  /\ tp \in Threads \cup {NULL}
  /\ isr \in BOOLEAN

ctp == sch.current

\* The running thread is in its own code and may call the kernel.
ThreadMode == pc[ctp] = "run" /\ ~isr /\ ctp # idle

\* An interrupt handler is accepted, or runs on: the kernel is not locked.
IsrMode == pc[ctp] = "run"

\* After chSysInit, with the application's threads created suspended.
MtxInit ==
  /\ sch = [current |-> main,
            queue   |-> <<idle>>,
            state   |-> [t \in Threads |-> CASE t = main -> "CURRENT"
                                             [] t = idle -> "READY"
                                             [] OTHER    -> "WTSTART"],
            prio    |-> BasePrio,
            ticks   |-> [t \in Threads |-> TIME_QUANTUM],
            u       |-> [t \in Threads |-> MSG_OK]]
  /\ wq = [o \in Objects |-> <<>>]
  /\ realprio = BasePrio
  /\ mtxlist = [t \in Threads |-> <<>>]
  /\ owner = [m \in Mutexes |-> NULL]
  /\ cnt = [m \in Mutexes |-> 0]
  /\ pc = [t \in Threads |-> "run"]
  /\ mp = [t \in Threads |-> NULL]
  /\ tp = NULL
  /\ isr = FALSE

-----------------------------------------------------------------------------
(* Lock *)

\* The free mutex m is pushed on the running thread's stack.
TakeMutex(m) ==
  /\ owner' = [owner EXCEPT ![m] = ctp]
  /\ mtxlist' = [mtxlist EXCEPT ![ctp] = Push(m, @)]
  /\ cnt' = IF RecursiveMode THEN [cnt EXCEPT ![m] = @ + 1] ELSE cnt
  /\ UNCHANGED <<sch, wq, realprio, tp, isr>>

LockAgain(m) ==
  /\ RecursiveMode
  /\ cnt' = [cnt EXCEPT ![m] = @ + 1]
  /\ UNCHANGED <<sch, wq, realprio, mtxlist, owner, tp, isr>>

\* chMtxLockS on m up to its return, or to the first test of its loop.
chMtxLockS(m) ==
  \/ /\ owner[m] = NULL
     /\ TakeMutex(m)
     /\ pc' = [pc EXCEPT ![ctp] = "run"] /\ mp' = [mp EXCEPT ![ctp] = NULL]
  \/ /\ owner[m] = ctp
     /\ LockAgain(m)
     /\ pc' = [pc EXCEPT ![ctp] = "run"] /\ mp' = [mp EXCEPT ![ctp] = NULL]
  \/ /\ owner[m] \notin {NULL, ctp}
     /\ tp' = owner[m]
     /\ pc' = [pc EXCEPT ![ctp] = "boost"] /\ mp' = [mp EXCEPT ![ctp] = m]
     /\ UNCHANGED <<sch, wq, realprio, mtxlist, owner, cnt, isr>>

\* What the application may lock next: never, without recursion, a mutex it
\* has; and only upwards in LockOrder.
MayLock(m) ==
  IF owner[m] = ctp THEN RecursiveMode /\ cnt[m] < MaxNest
  ELSE \A n \in Mutexes : owner[n] = ctp => <<n, m>> \in LockOrder

chMtxLock(m) == ThreadMode /\ MayLock(m) /\ chMtxLockS(m)

\* Mutant: a boosted waiter keeps its place.
Requeue_stays(s, t) == wq

\* t leaves its wait queue and enters it again at the place of its priority.
Requeue(s, t) ==
  [wq EXCEPT ![s.u[t]] = queue_prio_insert(queue_dequeue(@, t), t, s.prio)]

\* The same for the ready list.
ReadyAgain(s, t) == chSchReadyI([s EXCEPT !.queue = queue_dequeue(@, t)], t)

\* Mutant: no priority is inherited.
BoostNeeded_never == FALSE

\* The test of the inheritance loop: tp's priority is below the locker's.
BoostNeeded == tp # NULL /\ sch.prio[tp] < sch.prio[ctp]

\* Only a thread that itself waits for a mutex passes the boost on.
NextToBoost == IF sch.state[tp] = "WTMTX" THEN owner[sch.u[tp]] ELSE NULL

\* One iteration of the loop that raises the owner, then the owner of the
\* mutex the owner waits for, and so on.
Boost ==
  LET s == [sch EXCEPT !.prio[tp] = sch.prio[ctp]]
  IN  /\ pc[ctp] = "boost"
      /\ BoostNeeded
      /\ \/ /\ s.state[tp] \in {"WTMTX"} \cup RequeueStates
            /\ sch' = s
            /\ wq' = Requeue(s, tp)
         \/ /\ s.state[tp] = "READY"
            /\ sch' = ReadyAgain(s, tp)
            /\ UNCHANGED wq
         \/ /\ s.state[tp] \notin {"WTMTX", "READY"} \cup RequeueStates
            /\ sch' = s
            /\ UNCHANGED wq
      /\ tp' = NextToBoost
      /\ UNCHANGED <<realprio, mtxlist, owner, cnt, pc, mp, isr>>

\* After the loop: queue on the mutex and sleep.
SleepOnMutex ==
  LET m == mp[ctp]
  IN  /\ pc[ctp] = "boost"
      /\ ~BoostNeeded
      /\ wq' = [wq EXCEPT ![m] = queue_prio_insert(@, ctp, sch.prio)]
      /\ sch' = chSchGoSleepS([sch EXCEPT !.u[ctp] = m], "WTMTX")
      /\ pc' = [pc EXCEPT ![ctp] = "mtxwait"]
      /\ tp' = NULL
      /\ UNCHANGED <<realprio, mtxlist, owner, cnt, mp, isr>>

\* The thread runs again: the unlocking thread made it the owner.
LockReturn ==
  /\ pc[ctp] = "mtxwait"
  /\ pc' = [pc EXCEPT ![ctp] = "run"]
  /\ mp' = [mp EXCEPT ![ctp] = NULL]
  /\ UNCHANGED <<sch, wq, realprio, mtxlist, owner, cnt, tp, isr>>

\* Mutant: a busy mutex makes the caller wait.
chMtxTryLock_waits(m) == ThreadMode /\ owner[m] # ctp /\ chMtxLockS(m)

chMtxTryLock(m) ==
  /\ ThreadMode
  /\ \/ owner[m] = NULL /\ TakeMutex(m)
     \/ owner[m] = ctp /\ cnt[m] < MaxNest /\ LockAgain(m)
     \/ owner[m] # NULL /\ ~(RecursiveMode /\ owner[m] = ctp)
        /\ UNCHANGED <<sch, wq, realprio, mtxlist, owner, cnt, tp, isr>>
  /\ UNCHANGED <<pc, mp>>

-----------------------------------------------------------------------------
(* Unlock *)

\* Mutant: the waiters of the other owned mutexes are forgotten.
PrioWithoutTop_real == realprio[ctp]

\* Mutant: the inherited priority is kept.
PrioWithoutTop_kept == sch.prio[ctp]

\* The priority ctp keeps without the top of its stack: its own, or that of
\* the first waiter of another mutex it owns.
PrioWithoutTop ==
  Max({realprio[ctp]} \cup
      {sch.prio[Head(wq[n])] : n \in {x \in Range(Tail(mtxlist[ctp])) : wq[x] # <<>>}})

NewOwner(m) == IF wq[m] = <<>> THEN NULL ELSE Head(wq[m])

\* Mutant: the new owner does not get the mutex on its stack.
HandOver_nostack(m) ==
  /\ owner' = [owner EXCEPT ![m] = NewOwner(m)]
  /\ mtxlist' = [mtxlist EXCEPT ![ctp] = Tail(@)]
  /\ cnt' = [cnt EXCEPT ![m] = IF RecursiveMode /\ wq[m] # <<>> THEN 1 ELSE 0]

\* Mutant: the new owner's count does not start at one.
HandOver_count(m) ==
  /\ owner' = [owner EXCEPT ![m] = NewOwner(m)]
  /\ mtxlist' = [t \in Threads |-> CASE t = ctp         -> Tail(mtxlist[t])
                                     [] t = NewOwner(m) -> Push(m, mtxlist[t])
                                     [] OTHER           -> mtxlist[t]]
  /\ cnt' = [cnt EXCEPT ![m] = 0]

\* m leaves ctp's stack and goes to its first waiter, if it has one.
HandOver(m) ==
  /\ owner' = [owner EXCEPT ![m] = NewOwner(m)]
  /\ mtxlist' = [t \in Threads |-> CASE t = ctp         -> Tail(mtxlist[t])
                                     [] t = NewOwner(m) -> Push(m, mtxlist[t])
                                     [] OTHER           -> mtxlist[t]]
  /\ cnt' = [cnt EXCEPT ![m] = IF RecursiveMode /\ wq[m] # <<>> THEN 1 ELSE 0]

\* The wait queues without the thread that gets m.
WqAfterUnlock(m) == [wq EXCEPT ![m] = IF @ = <<>> THEN @ ELSE Tail(@)]

\* The scheduler state after chMtxUnlockS, which does not reschedule.
AfterUnlockS(m) ==
  IF wq[m] = <<>>
  THEN sch
  ELSE chSchReadyI([sch EXCEPT !.prio[ctp] = PrioWithoutTop], Head(wq[m]))

\* The mutex is really released, and not only unnested.
LastUnlock(m) == RecursiveMode => cnt[m] = 1

chMtxUnlock(m) ==
  /\ ThreadMode
  /\ owner[m] = ctp
  /\ \/ /\ LastUnlock(m)
        /\ m = Head(mtxlist[ctp])
        /\ HandOver(m)
        /\ wq' = WqAfterUnlock(m)
        /\ sch' = chSchRescheduleS(AfterUnlockS(m))
     \/ /\ ~LastUnlock(m)
        /\ cnt' = [cnt EXCEPT ![m] = @ - 1]
        /\ UNCHANGED <<sch, wq, mtxlist, owner>>
  /\ UNCHANGED <<realprio, pc, mp, tp, isr>>

chMtxUnlockAll ==
  /\ ThreadMode
  /\ mtxlist[ctp] # <<>>
  /\ pc' = [pc EXCEPT ![ctp] = "unlockall"]
  /\ UNCHANGED <<sch, wq, realprio, mtxlist, owner, cnt, mp, tp, isr>>

\* One iteration of the loop of chMtxUnlockAllS; the last one drops the
\* priority and reschedules.
UnlockAllStep ==
  LET m == Head(mtxlist[ctp])
      s == IF wq[m] = <<>> THEN sch ELSE chSchReadyI(sch, Head(wq[m]))
  IN  /\ pc[ctp] = "unlockall"
      /\ HandOver(m)
      /\ wq' = WqAfterUnlock(m)
      /\ \/ /\ Len(mtxlist[ctp]) > 1
            /\ sch' = s
            /\ UNCHANGED pc
         \/ /\ Len(mtxlist[ctp]) = 1
            /\ sch' = chSchRescheduleS([s EXCEPT !.prio[ctp] = realprio[ctp]])
            /\ pc' = [pc EXCEPT ![ctp] = "run"]
      /\ UNCHANGED <<realprio, mp, tp, isr>>

-----------------------------------------------------------------------------
(* The thread functions that move threads and priorities *)

restvars == <<wq, realprio, mtxlist, owner, cnt, pc, mp, tp>>

chThdStart(t) ==
  /\ ThreadMode
  /\ sch.state[t] = "WTSTART"
  /\ sch' = chSchWakeupS(sch, t, MSG_OK)
  /\ UNCHANGED <<restvars, isr>>

chThdYield ==
  /\ ThreadMode
  /\ sch' = chSchDoYieldS(sch)
  /\ UNCHANGED <<restvars, isr>>

chThdSetPriority(newprio) ==
  LET keep == sch.prio[ctp] # realprio[ctp] /\ newprio <= sch.prio[ctp]
  IN  /\ ThreadMode
      /\ mtxlist[ctp] = <<>> \/ SetPrioOwning
      /\ sch' = chSchRescheduleS(IF keep THEN sch
                                 ELSE [sch EXCEPT !.prio[ctp] = newprio])
      /\ realprio' = [realprio EXCEPT ![ctp] = newprio]
      /\ UNCHANGED <<wq, mtxlist, owner, cnt, pc, mp, tp, isr>>

\* Every thread has a reference of its own to suspend on: the reference holds
\* the thread exactly while the thread is in CH_STATE_SUSPENDED.
chThdSuspendS ==
  /\ ThreadMode /\ ctp \in Sleepers
  /\ sch' = chSchGoSleepS(sch, "SUSPENDED")
  /\ UNCHANGED <<restvars, isr>>

\* chThdResumeI in an interrupt handler.
IsrResume(t) ==
  /\ IsrMode
  /\ sch.state[t] = "SUSPENDED"
  /\ sch' = chSchReadyI([sch EXCEPT !.u[t] = MSG_OK], t)
  /\ isr' = TRUE
  /\ UNCHANGED restvars

IsrTick ==
  /\ IsrMode
  /\ TIME_QUANTUM > 0
  /\ sch' = chSysTimerHandlerI(sch)
  /\ isr' = TRUE
  /\ UNCHANGED restvars

\* The last nested handler returns.
IsrReturn ==
  /\ isr
  /\ sch' = IrqEpilogue(sch)
  /\ isr' = FALSE
  /\ UNCHANGED restvars

-----------------------------------------------------------------------------

MtxCall ==
  \/ \E m \in Mutexes : chMtxLock(m) \/ chMtxTryLock(m) \/ chMtxUnlock(m)
  \/ chMtxUnlockAll
  \/ chThdYield \/ chThdSuspendS
  \/ \E t \in Threads : chThdStart(t)
  \/ \E p \in NewPrios : chThdSetPriority(p)

MtxKernel == Boost \/ SleepOnMutex \/ LockReturn \/ UnlockAllStep

MtxIsr == IsrTick \/ \E t \in Threads : IsrResume(t)

MtxNext == MtxCall \/ MtxKernel \/ MtxIsr \/ IsrReturn

MtxSpec == MtxInit /\ [][MtxNext]_mtxvars

\* Nothing at all is asked of the application, but the tick interrupt keeps
\* coming: one that meets a locked kernel is accepted when it is unlocked.
MtxTickSpec ==
  MtxSpec /\ WF_mtxvars(MtxKernel \/ IsrReturn) /\ SF_mtxvars(IsrTick)

-----------------------------------------------------------------------------
(* Properties *)

\* The running thread is in its own code.
Unlocked == pc[ctp] = "run" /\ ~isr

Waiting(t) == sch.state[t] \in {"WTMTX", "WTCOND", "WTSEM"}

\* A thread is linked in exactly the list its state names, once: the ready
\* list when READY, the queue of the object u points to when it waits on one,
\* none when CURRENT.  (The queue links are one field of thread_t; timeouts,
\* boosts and unlocks move threads between lists.)
QueuesMatchStates ==
  /\ IsInjective(sch.queue)
  /\ \A o \in Objects : IsInjective(wq[o])
  /\ \A t \in Threads :
       /\ sch.state[t] = "READY" <=> t \in Range(sch.queue)
       /\ sch.state[t] = "CURRENT" <=> t = ctp
       /\ \A o \in Objects : Waiting(t) /\ sch.u[t] = o <=> t \in Range(wq[o])

\* Every priority queue is in the order of the priorities its threads have
\* now, whatever boost they received after they were queued.
QueuesSorted ==
  /\ Sorted(sch.queue, sch.prio)
  /\ \A o \in Objects :
       (\A t \in Range(wq[o]) : sch.state[t] \in {"WTMTX"} \cup RequeueStates)
         => Sorted(wq[o], sch.prio)

\* The owned-mutexes stacks, the owner fields and the nesting counters say the
\* same, and only an owned mutex has waiters.
OwnersMatchStacks ==
  /\ \A t \in Threads :
       /\ IsInjective(mtxlist[t])
       /\ \A m \in Mutexes : m \in Range(mtxlist[t]) <=> owner[m] = t
  /\ \A m \in Mutexes : /\ wq[m] # <<>> => owner[m] # NULL
                        /\ RecursiveMode => (cnt[m] = 0 <=> owner[m] = NULL)

\* chMtxLockS's inheritance: when the kernel is unlocked a thread's priority is
\* the largest of its own and of those of the threads waiting for its mutexes.
\* Nothing less (no inversion), and nothing more (no boost outlives its cause).
ExactInheritance ==
  Unlocked =>
    \A t \in Threads :
      sch.prio[t] = Max({realprio[t]} \cup
                        {sch.prio[w] : w \in UNION {Range(wq[m]) : m \in Range(mtxlist[t])}})

\* The half of ExactInheritance that survives chThdSetPriority on an owner: no
\* boost outlives the waiter that caused it.
NoStaleBoost ==
  Unlocked =>
    \A t \in Threads :
      \/ sch.prio[t] <= realprio[t]
      \/ \E m \in Range(mtxlist[t]) :
           \E w \in Range(wq[m]) : sch.prio[w] = sch.prio[t]

\* The other half, which chMtxLockS's documentation promises: the owner of a
\* mutex runs at no less than the priority of any thread queued on it.
WaitersInherit ==
  Unlocked =>
    \A m \in Mutexes : \A w \in Range(wq[m]) : sch.prio[owner[m]] >= sch.prio[w]

\* The assertion of chSysUnlock: no ready thread outranks the running one when
\* the kernel is unlocked, after any chain of boosts, hand-overs and drops.
RunningIsHighest == Unlocked => PriorityOrder(sch)

\* The assertions at the end of chMtxLockS: a thread that slept for a mutex
\* runs again only as its owner, with the mutex on top of its stack.
GrantedOnResume ==
  pc[ctp] = "mtxwait" =>
    /\ owner[mp[ctp]] = ctp
    /\ mtxlist[ctp] # <<>> /\ Head(mtxlist[ctp]) = mp[ctp]
    /\ RecursiveMode => cnt[mp[ctp]] = 1

\* No set of threads whose members all wait for mutexes owned by members.
NoDeadlock ==
  ~ \E D \in (SUBSET Threads) \ {{}} :
      \A t \in D : sch.state[t] = "WTMTX" /\ owner[sch.u[t]] \in D

\* The point of priority inheritance: a thread created above all others that
\* waits for a mutex gets it, although threads of middle priority may use the
\* processor for ever.  (Where no thread calls chThdSetPriority.)
HighestGetsMutex ==
  \A t \in {h \in Threads : \A x \in Threads \ {h} : BasePrio[x] < BasePrio[h]} :
    sch.state[t] = "WTMTX" ~> sch.state[t] = "CURRENT"

\* Round robin, CH_CFG_TIME_QUANTUM > 0: a ready thread of the highest priority
\* runs, whatever its peers do with the processor.
PeersTakeTurns ==
  \A t \in {h \in Threads : \A x \in Threads : BasePrio[x] <= BasePrio[h]} :
    sch.state[t] = "READY" ~> sch.state[t] = "CURRENT"

-----------------------------------------------------------------------------
(* The inductive invariant of MtxSpec that the proofs of the above rest on: *)
(* LockInv is inductive by itself, the other two parts are with it.         *)

\* Where each thread can be, and what it knows there.
PcInv ==
  /\ pc[idle] = "run" /\ sch.state[idle] \in {"READY", "CURRENT"}
  /\ isr => pc[ctp] = "run"
  /\ tp # NULL => pc[ctp] = "boost"
  /\ \A t \in Threads :
       /\ sch.state[t] \in {"READY", "CURRENT", "WTSTART", "SUSPENDED", "WTMTX"}
       /\ pc[t] \in {"run", "boost", "mtxwait", "unlockall"}
       /\ t # ctp => pc[t] \in {"run", "mtxwait"}
       /\ sch.state[t] = "WTMTX" => pc[t] = "mtxwait" /\ sch.u[t] = mp[t]
       /\ pc[t] \in {"boost", "mtxwait"} => mp[t] \in Mutexes
       /\ pc[t] = "boost" => owner[mp[t]] \notin {NULL, t}
       /\ pc[t] = "mtxwait" /\ sch.state[t] # "WTMTX" =>
            /\ sch.state[t] \in {"READY", "CURRENT"}
            /\ owner[mp[t]] = t
            /\ mtxlist[t] # <<>> /\ Head(mtxlist[t]) = mp[t]
            /\ RecursiveMode => cnt[mp[t]] = 1
       /\ pc[t] = "unlockall" => mtxlist[t] # <<>>

\* The order of the queues; and that of the running thread and the ready
\* list, except where a reschedule is still to come.
OrderInv ==
  /\ Sorted(sch.queue, sch.prio)
  /\ \A o \in Objects : Sorted(wq[o], sch.prio)
  /\ pc[ctp] # "unlockall" /\ ~isr => PriorityOrder(sch)

\* Nobody waits for a thread of lower priority, except for the one that the
\* inheritance loop has arrived at.
InheritInv ==
  /\ \A m \in Mutexes : \A w \in Range(wq[m]) :
       \/ sch.prio[w] <= sch.prio[owner[m]]
       \/ owner[m] = tp /\ sch.prio[w] <= sch.prio[ctp]
  /\ pc[ctp] = "boost" => \/ sch.prio[ctp] <= sch.prio[owner[mp[ctp]]]
                          \/ tp = owner[mp[ctp]]

\* Lists, owners, places in the code and orders agree.
LockInv ==
  /\ MtxTypeOK
  /\ QueuesMatchStates
  /\ OwnersMatchStacks
  /\ PcInv
  /\ OrderInv
  /\ ~SetPrioOwning => InheritInv

\* t owns a mutex that a thread of priority p waits for.
WaitedFor(t, p) ==
  \E m \in Mutexes : owner[m] = t /\ \E w \in Range(wq[m]) : sch.prio[w] = p

\* A priority above a thread's own is that of a thread waiting for one of its
\* mutexes, except where chMtxUnlockAllS has still to drop it, where the waiter
\* was just raised and the inheritance loop comes next to t, and where the
\* locker has raised the owner and not queued itself yet.  The loop comes from
\* the mutex that is being locked or from a waiter that it has raised.
BoostInv ==
  /\ \A t \in Threads :
       /\ realprio[t] <= sch.prio[t]
       /\ \/ sch.prio[t] = realprio[t]
          \/ WaitedFor(t, sch.prio[t])
          \/ t = ctp /\ pc[t] = "unlockall"
          \/ t = tp /\ sch.prio[t] < sch.prio[ctp]
          \/ pc[ctp] = "boost" /\ t = owner[mp[ctp]] /\ sch.prio[t] = sch.prio[ctp]
  /\ tp # NULL => tp = owner[mp[ctp]] \/ WaitedFor(tp, sch.prio[ctp])

\* A thread waits, or is about to, for a mutex that LockOrder has after all the
\* mutexes it owns.
AskedInv ==
  \A t \in Threads :
    pc[t] = "boost" \/ sch.state[t] = "WTMTX" =>
      /\ owner[mp[t]] # t
      /\ \A n \in Mutexes : owner[n] = t => <<n, mp[t]>> \in LockOrder

\* The invariant behind all of them, in the middle of chMtxLockS's loop and of
\* chMtxUnlockAllS too.
MtxInv == LockInv /\ BoostInv /\ AskedInv

=============================================================================
