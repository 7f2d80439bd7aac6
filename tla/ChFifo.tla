------------------------------- MODULE ChFifo -------------------------------
(***************************************************************************)
(* Objects FIFOs (os/oslib/include/chobjfifos.h): a guarded memory pool of *)
(* free objects (chmempools.c, chmempools.h) and a mailbox of sent ones,   *)
(* with a slot for each object.  The messages of the mailbox are the       *)
(* objects.                                                                *)
(***************************************************************************)
EXTENDS ChMBox

VARIABLES
  free,      \* the list of the pool, a stack
  semcnt,    \* the counter of its semaphore
  semq,      \* the queue of its semaphore, CH_CFG_USE_SEMAPHORES_PRIORITY off
  held       \* the objects that the application has

poolvars == <<free, semcnt, semq, held>>
fifovars == <<mboxvars, poolvars>>

Objects == Messages

\* chFifoObjectInitAligned gives the mailbox a slot for each object.
ASSUME FifoAssumption ==
  IsFiniteSet(Objects) /\ Cardinality(Objects) <= N

-----------------------------------------------------------------------------
(* The guarded pool *)

\* chPoolAllocI for the application, with ths the threads after the call.
PoolAlloc(ths) ==
  /\ free' = QTail(free)
  /\ held' = IF free = <<>> THEN held ELSE held \cup {Head(free)}
  /\ th' = ths
  /\ UNCHANGED <<ringvars, qw, qr>>

\* Mutant: the counter is decremented only for a thread that waits.
chFifoTakeObjectTimeout_late(t) ==
  /\ th[t].at = "out"
  /\ IF semcnt <= 0
     THEN /\ semcnt' = semcnt - 1
          /\ semq' = Append(semq, t)
          /\ th' = [th EXCEPT ![t] = Queued("take", NoMsg)]
          /\ UNCHANGED <<free, held, ringvars, qw, qr>>
     ELSE PoolAlloc(th) /\ UNCHANGED <<semcnt, semq>>

\* chFifoTakeObjectTimeoutS, chGuardedPoolAllocTimeoutS: chSemWaitTimeoutS and
\* then the object, if the thread does not have to wait.
chFifoTakeObjectTimeout(t) ==
  /\ th[t].at = "out"
  /\ semcnt' = semcnt - 1
  /\ IF semcnt <= 0
     THEN /\ semq' = Append(semq, t)
          /\ th' = [th EXCEPT ![t] = Queued("take", NoMsg)]
          /\ UNCHANGED <<free, held, ringvars, qw, qr>>
     ELSE PoolAlloc(th) /\ UNCHANGED semq

\* The thread runs again: the object, or NULL after a timeout.
ContinueTake(t) ==
  /\ th[t].at = "ready" /\ th[t].op = "take"
  /\ IF th[t].rdymsg = "MSG_OK" THEN PoolAlloc([th EXCEPT ![t] = Out])
     ELSE th' = [th EXCEPT ![t] = Out] /\ UNCHANGED <<free, held, ringvars, qw, qr>>
  /\ UNCHANGED <<semcnt, semq>>

\* The timeout of its wait: wakeup of chschd.c, in state CH_STATE_WTSEM.
TimeoutTake(t) ==
  /\ th[t].at = "queued" /\ th[t].op = "take"
  /\ th' = [th EXCEPT ![t].at = "ready", ![t].rdymsg = "MSG_TIMEOUT"]
  /\ semcnt' = semcnt + 1
  /\ semq' = Without(semq, t)
  /\ UNCHANGED <<free, held, ringvars, qw, qr>>

\* chFifoTakeObjectI, chGuardedPoolAllocI, where its assertion "semaphore out
\* of sync" holds: the code takes whatever the pool has, also the object that a
\* waiter has been made ready for.
chFifoTakeObjectI ==
  /\ semcnt > 0
  /\ PoolAlloc(th)
  /\ semcnt' = semcnt - 1
  /\ UNCHANGED semq

\* chFifoReturnObjectI, chGuardedPoolFreeI: chPoolFreeI and chSemSignalI.
chFifoReturnObjectI(obj) ==
  /\ obj \in held
  /\ held' = held \ {obj}
  /\ free' = <<obj>> \o free
  /\ semcnt' = semcnt + 1
  /\ th' = IF semcnt < 0 THEN ReadyNext(th, semq) ELSE th
  /\ semq' = IF semcnt < 0 THEN QTail(semq) ELSE semq
  /\ UNCHANGED <<ringvars, qw, qr>>

-----------------------------------------------------------------------------
(* The mailbox *)

\* chFifoSendObjectI and chFifoSendObjectAheadI, which do not wait, also in the
\* versions for threads.  A post that fails would lose the object.
chFifoSendObject(obj, op) ==
  /\ obj \in held
  /\ held' = held \ {obj}
  /\ IF ~reset /\ Possible(op) THEN CallI(op, obj) ELSE UNCHANGED mboxvars
  /\ UNCHANGED <<free, semcnt, semq>>

\* A received object belongs to the application.
Received == held' = IF cnt' < cnt THEN held \cup {buffer[rdptr]} ELSE held

\* chFifoReceiveObjectTimeout, chMBFetchTimeout; its wait; chFifoReceiveObjectI.
chFifoReceiveObject ==
  /\ \/ CallI("fetch", NoMsg)
     \/ \E t \in Threads : \/ Call(t, "fetch", NoMsg)
                           \/ th[t].op = "fetch" /\ (Continue(t) \/ Timeout(t))
  /\ Received
  /\ UNCHANGED <<free, semcnt, semq>>

-----------------------------------------------------------------------------

\* chFifoObjectInitAligned, with every object in the pool.
FifoInit ==
  /\ MBoxInit
  /\ free = CHOOSE s \in [1 .. Cardinality(Objects) -> Objects] :
               \A obj \in Objects : InQueue(s, obj)
  /\ semcnt = Cardinality(Objects)
  /\ semq = <<>> /\ held = {}

FifoNext ==
  \/ \E t \in Threads : chFifoTakeObjectTimeout(t) \/ ContinueTake(t) \/ TimeoutTake(t)
  \/ \E obj \in Objects : \/ chFifoReturnObjectI(obj)
                          \/ \E op \in {"post", "ahead"} : chFifoSendObject(obj, op)
  \/ chFifoReceiveObject \/ chFifoTakeObjectI

FifoSpec == FifoInit /\ [][FifoNext]_fifovars

-----------------------------------------------------------------------------
(* Properties *)

\* Every object is in exactly one place: the pool, the mailbox or the hands of
\* the application.  So no post of an object fails, the assertion "post
\* failed", since an object that is held leaves a slot free.
ObjectsConserved ==
  LET content == [i \in 1 .. cnt |-> buffer[At(i - 1)]]
      places  == free \o content
  IN  /\ \A obj \in Objects : (obj \in held) # InQueue(places, obj)
      /\ \A i, j \in DOMAIN places : places[i] = places[j] => i = j

\* The semaphore of the pool counts its objects: those not promised to threads
\* made ready, less the threads that wait.  So a wait that succeeds gives an
\* object and not NULL, however late the thread runs.
PoolInSync ==
  /\ semcnt = Len(free) - Cardinality(Served({"take"})) - Len(semq)
  /\ Cardinality(Served({"take"})) <= Len(free)

=============================================================================
