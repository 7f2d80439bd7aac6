----------------------------- MODULE ChMtxProofs ------------------------------
(***************************************************************************)
(* MtxInv is an inductive invariant of MtxSpec, for any number of threads, *)
(* mutexes and priorities, any lock order and every setting of the         *)
(* options; the safety properties of ChMtx follow from it.  The sleep of   *)
(* chMtxLockS puts a thread among the waiters of a mutex, the hand-over of *)
(* chMtxUnlock takes one out.  LockInv is proved first; what a step does   *)
(* to priorities and owners (Moved, Raised, Queued, Kept, Dropped) then    *)
(* gives the other two parts, BoostInv and AskedInv.                       *)
(***************************************************************************)
EXTENDS ChMtxStepProofs

-----------------------------------------------------------------------------
(* Sleep and hand-over *)

\* What the sleep does to priorities and queues.
Queued ==
  /\ pc[ctp] = "boost" /\ ~BoostNeeded /\ mp[ctp] \in Mutexes
  /\ tp' = NULL /\ UNCHANGED <<realprio, owner, mp>>
  /\ sch'.prio = sch.prio /\ sch'.current # ctp
  /\ pc'[ctp] = "mtxwait" /\ \A t \in Threads \ {ctp} : pc'[t] = pc[t]
  /\ \A t \in Threads \ {ctp} : sch'.state[t] = "WTMTX" => sch.state[t] = "WTMTX"
  /\ ctp \in Range(wq'[mp[ctp]])
  /\ \A o \in Objects : Range(wq[o]) \subseteq Range(wq'[o])

\* The end of the inheritance loop: the thread queues itself and sleeps.
LEMMA SleepStep ==
  ASSUME LockInv, SleepOnMutex
  PROVE  LockInv' /\ Queued
<1> DEFINE m == mp[ctp]
           s == [sch EXCEPT !.u[ctp] = m]
<1>1. /\ SchedOK(sch) /\ sch \in SchedState /\ ctp \in Threads /\ sch.state[ctp] = "CURRENT"
      /\ sch.prio \in [Threads -> Nat]
      /\ sch.state \in [Threads -> States] /\ sch.u \in [Threads -> Objects \cup Messages]
      /\ (ctp # idle => sch.queue # <<>>)
      /\ \A o \in Objects : ctp \notin Range(wq[o])
      /\ \A t \in Threads, o \in Objects :
              sch.state[t] = "WTMTX" /\ sch.u[t] = o <=> t \in Range(wq[o])
  BY InvFacts, Zenon
<1>2. /\ MtxTypeOK /\ PcInv /\ OwnersMatchStacks /\ OrderInv /\ QueuesMatchStates
      /\ (~SetPrioOwning => InheritInv)
  BY Zenon DEF LockInv
<1>3. /\ pc[ctp] = "boost" /\ ~BoostNeeded
      /\ wq' = [wq EXCEPT ![m] = queue_prio_insert(@, ctp, sch.prio)]
      /\ sch' = chSchGoSleepS(s, "WTMTX")
      /\ pc' = [pc EXCEPT ![ctp] = "mtxwait"]
      /\ tp' = NULL
      /\ UNCHANGED <<realprio, mtxlist, owner, cnt, mp, isr>>
  BY Zenon DEF SleepOnMutex
<1>4. /\ m \in Mutexes /\ m \in Objects /\ owner[m] \in Threads \ {ctp} /\ ctp # idle /\ ~isr
      /\ sch.queue # <<>>
  <2>1. m \in Mutexes /\ owner[m] \notin {NULL, ctp} /\ ctp # idle /\ ~isr
    BY <1>1, <1>2, <1>3, Zenon DEF PcInv
  <2>2. owner[m] \in Threads \cup {NULL}
    BY <1>2, <2>1, Zenon DEF MtxTypeOK
  <2> QED BY <1>1, <2>1, <2>2, MtxAssumption, Zenon
<1>5. /\ wq \in [Objects -> Seq(Threads)] /\ pc \in [Threads -> Pcs]
      /\ tp \in Threads \cup {NULL}
  BY <1>2, Zenon DEF MtxTypeOK
\* The scheduler.
<1>6. SchedOK(s) /\ s.queue # <<>> /\ s.prio = sch.prio /\ s.state = sch.state /\ s.current = ctp
      /\ s.u = [sch.u EXCEPT ![ctp] = m]
  <2>1. ListOK(s)
    BY <1>1, <1>4, FieldFacts, Zenon DEF SchedOK
  <2>2. s.queue = sch.queue /\ s.prio = sch.prio /\ s.state = sch.state /\ s.current = ctp
        /\ s.u = [sch.u EXCEPT ![ctp] = m]
    BY <1>1, Zenon DEF SchedState, ctp
  <2> HIDE DEF s
  <2> QED BY <1>1, <1>4, <2>1, <2>2, SMTT(60) DEF SchedOK, ctp
<1> HIDE DEF s
<1>7. "WTMTX" \in States \ {"READY", "CURRENT"}
  BY Zenon DEF States
<1>8. SchedOK(sch') /\ PriorityOrder(sch')
  BY <1>3, <1>6, <1>7, GoSleepFacts, Zenon
<1>9. sch'.prio = sch.prio /\ sch'.u = [sch.u EXCEPT ![ctp] = m]
  BY <1>3, <1>6, <1>7, GoSleepFacts, SMTT(60)
<1>10. sch'.current # ctp /\ sch'.state[ctp] = "WTMTX"
  BY <1>3, <1>6, <1>7, GoSleepFacts, SMTT(60)
<1>11. \A t \in Threads \ {ctp} :
         \/ sch'.state[t] = sch.state[t]
         \/ sch'.state[t] = "CURRENT" /\ sch.state[t] = "READY"
  <2>1. sch.state[sch'.current] = "READY"
    BY <1>3, <1>6, <1>7, GoSleepFacts, SMTT(60)
  <2>2. \A t \in Threads \ {ctp} :
           IF t = sch'.current THEN sch'.state[t] = "CURRENT" ELSE sch'.state[t] = sch.state[t]
    BY <1>3, <1>6, <1>7, GoSleepFacts, SMTT(60)
  <2> QED BY <2>1, <2>2, Zenon
<1>12. sch' \in SchedState /\ sch'.current \in Threads
  BY <1>8, Zenon DEF SchedOK, ListOK, SchedState
\* The queue of the mutex.
<1>13. /\ wq'[m] \in Seq(Threads) /\ Range(wq'[m]) = Range(wq[m]) \cup {ctp}
       /\ IsInjective(wq'[m]) /\ Sorted(wq'[m], sch.prio)
       /\ \A o \in Objects \ {m} : wq'[o] = wq[o]
  <2> DEFINE q == queue_prio_insert(wq[m], ctp, sch.prio)
  <2>1. wq[m] \in Seq(Threads) /\ IsInjective(wq[m]) /\ Sorted(wq[m], sch.prio) /\ ctp \notin Range(wq[m])
    BY <1>1, <1>2, <1>4, <1>5 DEF QueuesMatchStates, OrderInv
  <2>2. ctp \in Threads /\ sch.prio \in [Threads -> Nat]
    BY <1>1, Zenon
  <2>3. q \in Seq(Threads) /\ Range(q) = Range(wq[m]) \cup {ctp}
    BY <2>1, <2>2, PrioInsert, Zenon
  <2>4. IsInjective(q) /\ Sorted(q, sch.prio)
    BY <2>1, <2>2, PrioInsert, Zenon
  <2>5. wq'[m] = q /\ \A o \in Objects \ {m} : wq'[o] = wq[o]
    BY <1>3, <1>4, <1>5, Zenon
  <2> HIDE DEF q, m
  <2> QED BY <2>3, <2>4, <2>5, Zenon
<1> HIDE DEF m
<1>14. MtxTypeOK'
  <2>1. pc' \in [Threads -> Pcs]
    BY <1>3, <1>5, Zenon DEF Pcs
  <2>2. wq' \in [Objects -> Seq(Threads)]
    BY <1>3, <1>4, <1>5, <1>13, Zenon
  <2> QED BY <1>2, <1>3, <1>12, <2>1, <2>2, Zenon DEF MtxTypeOK
<1>15. QueuesMatchStates'
  <2>1. \A t \in Threads : Waiting(t)' <=> sch'.state[t] = "WTMTX"
    BY <1>2, <1>10, <1>11, Zenon DEF PcInv, Waiting
  <2>2. /\ IsInjective(sch'.queue)
        /\ \A t \in Threads : /\ sch'.state[t] = "READY" <=> t \in Range(sch'.queue)
                              /\ sch'.state[t] = "CURRENT" <=> t = sch'.current
    BY <1>8, Zenon DEF SchedOK, ListOK
  <2>3. ASSUME NEW t \in Threads, NEW o \in Objects
        PROVE  Waiting(t)' /\ sch'.u[t] = o <=> t \in Range(wq'[o])
    <3>1. CASE t = ctp
      <4>1. sch'.u[t] = m /\ Waiting(t)'
        BY <1>1, <1>9, <1>10, <2>1, <3>1, SMTT(30)
      <4> QED BY <1>1, <1>13, <3>1, <4>1, Zenon
    <3>2. CASE t # ctp
      <4>1. sch'.u[t] = sch.u[t] /\ (sch'.state[t] = "WTMTX" <=> sch.state[t] = "WTMTX")
        BY <1>1, <1>9, <1>11, <3>2, SMTT(60)
      <4>2. t \in Range(wq'[o]) <=> t \in Range(wq[o])
        BY <1>13, <3>2, Zenon
      <4> QED BY <1>1, <2>1, <4>1, <4>2, SMTT(60)
    <3> QED BY <3>1, <3>2, Zenon
  <2>4. \A o \in Objects : IsInjective(wq'[o])
    BY <1>2, <1>13, Zenon DEF QueuesMatchStates
  <2> QED BY <2>2, <2>3, <2>4, Zenon DEF QueuesMatchStates, ctp
<1>16. OwnersMatchStacks'
  <2>1. owner[m] # NULL /\ \A n \in Mutexes \ {m} : wq'[n] = wq[n]
    BY <1>4, <1>13, MtxAssumption, ZenonT(30)
  <2> QED BY <1>2, <1>3, <2>1, Zenon DEF OwnersMatchStacks
<1>17. PcInv'
  <2>1. pc'[ctp] = "mtxwait" /\ \A t \in Threads \ {ctp} : pc'[t] = pc[t] /\ pc[t] \in {"run", "mtxwait"}
    BY <1>1, <1>2, <1>3, <1>5, SMTT(60) DEF PcInv
  <2>2. pc'[idle] = "run" /\ sch'.state[idle] \in {"READY", "CURRENT"}
    BY <1>2, <1>4, <1>11, <2>1, SchedAssumption, ZenonT(30) DEF PcInv
  <2>3. ASSUME NEW t \in Threads
        PROVE  /\ sch'.state[t] \in {"READY", "CURRENT", "WTSTART", "SUSPENDED", "WTMTX"}
               /\ pc'[t] \in {"run", "mtxwait"}
               /\ sch'.state[t] = "WTMTX" => pc'[t] = "mtxwait" /\ sch'.u[t] = mp'[t]
               /\ pc'[t] = "mtxwait" => mp'[t] \in Mutexes
               /\ pc'[t] = "mtxwait" /\ sch'.state[t] # "WTMTX" =>
                    /\ sch'.state[t] \in {"READY", "CURRENT"}
                    /\ owner'[mp'[t]] = t
                    /\ mtxlist'[t] # <<>> /\ Head(mtxlist'[t]) = mp'[t]
                    /\ RecursiveMode => cnt'[mp'[t]] = 1
    <3>1. CASE t = ctp
      <4>1. sch'.u[t] = m
        BY <1>1, <1>9, <3>1, SMTT(30)
      <4> QED BY <1>3, <1>4, <1>10, <2>1, <3>1, <4>1, ZenonT(30) DEF m
    <3>2. CASE t # ctp
      <4>1. sch'.u[t] = sch.u[t]
        BY <1>1, <1>9, <3>2
      <4> QED BY <1>2, <1>3, <1>11, <2>1, <3>2, <4>1, SMTT(30) DEF PcInv
    <3> QED BY <3>1, <3>2, Zenon
  <2> QED BY <1>3, <1>4, <2>2, <2>3, SMTT(30) DEF PcInv, ctp
<1>18. OrderInv'
  <2>1. Sorted(sch'.queue, sch'.prio)
    BY <1>8, Zenon DEF SchedOK, ListOK
  <2>2. \A o \in Objects : Sorted(wq'[o], sch'.prio)
    BY <1>2, <1>9, <1>13, Zenon DEF OrderInv
  <2> QED BY <1>8, <2>1, <2>2, Zenon DEF OrderInv
<1>19. ASSUME ~SetPrioOwning PROVE InheritInv'
  <2>1. InheritInv
    BY <1>2, <1>19, Zenon
  <2>2. tp \in Threads => sch.prio[ctp] <= sch.prio[tp]
    BY <1>1, <1>3, MtxAssumption DEF BoostNeeded
  <2>3. sch.prio[ctp] <= sch.prio[owner[m]]
    BY <1>3, <1>4, <2>1, <2>2, Zenon DEF InheritInv, m
  <2>4. ASSUME NEW n \in Mutexes, NEW w \in Range(wq'[n])
        PROVE  sch.prio[w] <= sch.prio[owner[n]]
    <3>1. CASE w = ctp
      <4>1. n = m
        BY <1>1, <1>13, <2>4, <3>1, MtxAssumption, Zenon
      <4> QED BY <2>3, <3>1, <4>1, Zenon
    <3>2. CASE w # ctp
      <4>1. w \in Range(wq[n]) /\ wq[n] \in Seq(Threads)
        BY <1>5, <1>13, <2>4, <3>2, MtxAssumption, Zenon
      <4>2. w \in Threads /\ wq[n] # <<>>
        BY <4>1 DEF Range
      <4>3. owner[n] \in Threads
        BY <1>2, <4>2 DEF OwnersMatchStacks, MtxTypeOK
      <4>4. CASE sch.prio[w] <= sch.prio[owner[n]]
        BY <4>4, Zenon
      <4>5. CASE owner[n] = tp /\ sch.prio[w] <= sch.prio[ctp]
        BY <1>1, <2>2, <4>2, <4>3, <4>5, SMTT(60)
      <4> QED BY <2>1, <4>1, <4>4, <4>5, Zenon DEF InheritInv
    <3> QED BY <3>1, <3>2, Zenon
  <2>5. pc'[sch'.current] # "boost"
    BY <1>2, <1>3, <1>5, <1>10, <1>12, Zenon DEF PcInv
  <2> QED BY <1>3, <1>9, <2>4, <2>5, Zenon DEF InheritInv, ctp
<1>20. LockInv'
  BY <1>14, <1>15, <1>16, <1>17, <1>18, <1>19, Zenon DEF LockInv
<1>21. Queued
  <2>1. pc'[ctp] = "mtxwait" /\ \A t \in Threads \ {ctp} : pc'[t] = pc[t]
    BY <1>1, <1>3, <1>5, SMTT(20)
  <2>2. \A o \in Objects : Range(wq[o]) \subseteq Range(wq'[o])
    BY <1>13, Zenon
  <2>3. ctp \in Range(wq'[mp[ctp]]) /\ mp[ctp] \in Mutexes
    BY <1>4, <1>13, Zenon DEF m
  <2>4. \A t \in Threads \ {ctp} : sch'.state[t] = "WTMTX" => sch.state[t] = "WTMTX"
    BY <1>11, Zenon
  <2> QED BY <1>3, <1>9, <1>10, <2>1, <2>2, <2>3, <2>4, Zenon DEF Queued
<1> QED BY <1>20, <1>21, Zenon

\* The stack of owned mutexes: pushing one, and what is left without the top.
LEMMA StackFacts ==
  \A q \in Seq(Mutexes) :
    /\ Len(q) > 1 => Tail(q) # <<>>
    /\ \A m \in Mutexes : /\ Range(Push(m, q)) = Range(q) \cup {m}
                          /\ Push(m, q) # <<>> /\ Head(Push(m, q)) = m
<1> TAKE q \in Seq(Mutexes)
<1>1. ASSUME Len(q) > 1 PROVE Tail(q) # <<>>
  <2>1. Len(q) \in Nat /\ Len(Tail(q)) = Len(q) - 1
    BY <1>1
  <2>2. Len(Tail(q)) > 0
    BY <1>1, <2>1
  <2>3. ~(Len(<<>>) > 0)
    OBVIOUS
  <2> QED BY <2>2, <2>3, Zenon
<1>2. ASSUME NEW m \in Mutexes
      PROVE  /\ Range(Push(m, q)) = Range(q) \cup {m}
             /\ Push(m, q) # <<>> /\ Head(Push(m, q)) = m
  <2>1. Range(Push(m, q)) = Range(q) \cup {m}
    BY PushFacts
  <2>2. Push(m, q) # <<>> /\ Head(Push(m, q)) = m
    BY PushFacts
  <2> QED BY <2>1, <2>2, Zenon
<1> QED BY <1>1, <1>2, Zenon

\* What giving mutex m, the top of ctp's stack, to h (NULL: to nobody) does, in
\* both unlock functions; p is the priority that ctp is left with.
Given(m, h, p) ==
  /\ ctp # idle /\ pc[ctp] \in {"run", "unlockall"}
  /\ m \in Mutexes /\ owner[m] = ctp
  /\ h \in Threads \cup {NULL} /\ h # ctp /\ (h = NULL <=> wq[m] = <<>>)
  /\ h # NULL => pc[h] = "mtxwait" /\ mp[h] = m /\ h \in Range(wq[m])
  /\ wq' \in [Objects -> Seq(Threads)] /\ (wq[m] = <<>> => wq'[m] = <<>>)
  /\ \A o \in Objects \ {m} : wq'[o] = wq[o]
  /\ IsInjective(wq'[m]) /\ Sorted(wq'[m], sch.prio) /\ Range(wq'[m]) = Range(wq[m]) \ {h}
  /\ \A w \in Range(wq'[m]) : h \in Threads /\ sch.prio[h] >= sch.prio[w]
  /\ mtxlist' \in [Threads -> Seq(Mutexes)]
  /\ mtxlist'[ctp] = Tail(mtxlist[ctp])
  /\ IsInjective(mtxlist'[ctp]) /\ Range(mtxlist'[ctp]) = Range(mtxlist[ctp]) \ {m}
  /\ h \in Threads => /\ IsInjective(mtxlist'[h]) /\ Range(mtxlist'[h]) = Range(mtxlist[h]) \cup {m}
                      /\ mtxlist'[h] # <<>> /\ Head(mtxlist'[h]) = m
  /\ \A t \in Threads \ {ctp, h} : mtxlist'[t] = mtxlist[t]
  /\ owner' \in [Mutexes -> Threads \cup {NULL}] /\ cnt' \in [Mutexes -> Nat]
  /\ owner'[m] = h /\ \A n \in Mutexes \ {m} : owner'[n] = owner[n] /\ cnt'[n] = cnt[n]
  /\ RecursiveMode => cnt'[m] = IF h = NULL THEN 0 ELSE 1
  /\ UNCHANGED <<realprio, mp, tp, isr>> /\ ~isr /\ tp = NULL
  /\ pc' \in [Threads -> Pcs] /\ \A t \in Threads \ {ctp} : pc'[t] = pc[t]
  /\ pc'[ctp] \in {"run", "unlockall"}
  /\ pc'[ctp] = "unlockall" => sch'.current = ctp /\ mtxlist'[ctp] # <<>>
  /\ pc'[ctp] # "unlockall" => PriorityOrder(sch')
  /\ SchedOK(sch') /\ sch'.u = sch.u
  /\ sch'.prio[ctp] = p /\ \A x \in Threads \ {ctp} : sch'.prio[x] = sch.prio[x]
  /\ \A t \in Threads : IF sch.state[t] \in {"READY", "CURRENT"} \/ t = h
                        THEN sch'.state[t] \in {"READY", "CURRENT"}
                        ELSE sch'.state[t] = sch.state[t]
  /\ ~SetPrioOwning => \A n \in Range(mtxlist'[ctp]) : \A w \in Range(wq[n]) : sch.prio[w] <= p

\* What BoostInv says where neither the inheritance loop nor the one of
\* chMtxUnlockAllS is running.
LEMMA Settled ==
  ASSUME LockInv, BoostInv, pc[ctp] \in {"run", "mtxwait"}
  PROVE  /\ tp = NULL
         /\ \A t \in Threads : /\ realprio[t] <= sch.prio[t]
                               /\ sch.prio[t] = realprio[t] \/ WaitedFor(t, sch.prio[t])
<1>1. tp = NULL
  BY Zenon DEF LockInv, PcInv
<1>2. ASSUME NEW t \in Threads
      PROVE  /\ realprio[t] <= sch.prio[t]
             /\ sch.prio[t] = realprio[t] \/ WaitedFor(t, sch.prio[t])
  <2>1. t # tp
    BY <1>1, MtxAssumption, Zenon
  <2> QED BY <2>1, Zenon DEF BoostInv
<1> QED BY <1>1, <1>2, Zenon

\* The priority p that the thread giving m is left with is its own or that of a
\* thread waiting for another mutex it owns, or it is still to be dropped.
PrioLeft(m, p) ==
  /\ realprio[ctp] <= p
  /\ \/ pc'[ctp] = "unlockall"
     \/ p = realprio[ctp]
     \/ \E n \in Mutexes \ {m} : owner[n] = ctp /\ \E w \in Range(wq[n]) : sch.prio[w] = p

Dropped(m) == \E h, p : Given(m, h, p) /\ (BoostInv => PrioLeft(m, p))

\* A step that leaves the scheduler and the queues alone: at most a free mutex is
\* taken, or the lock of another one begins.
Kept ==
  /\ pc[ctp] \in {"run", "mtxwait"} /\ UNCHANGED <<sch, wq, realprio>>
  /\ \A n \in Mutexes : owner'[n] = owner[n] \/ (owner[n] = NULL /\ owner'[n] = ctp)
  /\ \A t \in Threads \ {ctp} : pc'[t] = pc[t] /\ mp'[t] = mp[t]
  /\ \/ pc'[ctp] # "boost" /\ tp' = tp
     \/ /\ pc'[ctp] = "boost" /\ tp' = owner[mp'[ctp]] /\ owner' = owner
        /\ owner[mp'[ctp]] # ctp
        /\ \A n \in Mutexes : owner[n] = ctp => <<n, mp'[ctp]>> \in LockOrder

\* The types of the fields after a hand-over.
LEMMA GivenTypes ==
  ASSUME LockInv, NEW m, NEW h, NEW p, Given(m, h, p)
  PROVE  MtxTypeOK'
<1>1. SchedOK(sch') /\ pc' \in [Threads -> Pcs] /\ UNCHANGED <<realprio, mp, tp, isr>>
  BY Zenon DEF Given
<1>2. /\ wq' \in [Objects -> Seq(Threads)] /\ mtxlist' \in [Threads -> Seq(Mutexes)]
      /\ owner' \in [Mutexes -> Threads \cup {NULL}] /\ cnt' \in [Mutexes -> Nat]
  BY Zenon DEF Given
<1>3. sch' \in SchedState
  BY <1>1, Zenon DEF SchedOK, ListOK
<1> QED BY <1>1, <1>2, <1>3, Zenon DEF LockInv, MtxTypeOK

\* The lists and the states after a hand-over.
LEMMA GivenQueues ==
  ASSUME LockInv, NEW m, NEW h, NEW p, Given(m, h, p)
  PROVE  QueuesMatchStates'
<1>1. /\ m \in Mutexes /\ m \in Objects /\ SchedOK(sch') /\ sch'.u = sch.u
      /\ \A o \in Objects \ {m} : wq'[o] = wq[o]
      /\ IsInjective(wq'[m]) /\ Range(wq'[m]) = Range(wq[m]) \ {h}
  BY MtxAssumption, Zenon DEF Given
<1>2. /\ h # NULL => h \in Threads /\ h \in Range(wq[m])
      /\ \A t \in Threads : IF sch.state[t] \in {"READY", "CURRENT"} \/ t = h
                            THEN sch'.state[t] \in {"READY", "CURRENT"}
                            ELSE sch'.state[t] = sch.state[t]
  BY Zenon DEF Given
<1>3. /\ \A t \in Threads, o \in Objects :
              sch.state[t] = "WTMTX" /\ sch.u[t] = o <=> t \in Range(wq[o])
  BY InvFacts, Zenon
<1>4. QueuesMatchStates /\ PcInv
  BY Zenon DEF LockInv
<1>5. \A t \in Threads : Waiting(t)' <=> sch'.state[t] = "WTMTX"
  BY <1>2, <1>4 DEF PcInv, Waiting
<1>6. /\ IsInjective(sch'.queue)
      /\ \A t \in Threads : /\ sch'.state[t] = "READY" <=> t \in Range(sch'.queue)
                            /\ sch'.state[t] = "CURRENT" <=> t = sch'.current
  BY <1>1, Zenon DEF SchedOK, ListOK
<1>7. ASSUME NEW t \in Threads, NEW o \in Objects
      PROVE  Waiting(t)' /\ sch'.u[t] = o <=> t \in Range(wq'[o])
  <2>1. CASE t = h
    <3>1. ~Waiting(t)'
      BY <1>2, <1>5, <2>1, Zenon
    <3>2. t \in Range(wq[m])
      BY <1>2, <2>1, MtxAssumption, Zenon
    <3>3. t \notin Range(wq'[o])
      BY <1>1, <1>3, <2>1, <3>2, SMTT(60)
    <3> QED BY <3>1, <3>3, Zenon
  <2>2. CASE t # h
    <3>1. sch'.state[t] = "WTMTX" <=> sch.state[t] = "WTMTX"
      BY <1>2, <2>2, Zenon
    <3>2. t \in Range(wq'[o]) <=> t \in Range(wq[o])
      BY <1>1, <2>2, Zenon
    <3> QED BY <1>1, <1>3, <1>5, <3>1, <3>2, SMTT(60)
  <2> QED BY <2>1, <2>2, Zenon
<1>8. \A o \in Objects : IsInjective(wq'[o])
  BY <1>1, <1>4, Zenon DEF QueuesMatchStates
<1> QED BY <1>6, <1>7, <1>8, Zenon DEF QueuesMatchStates, ctp

\* Owners, stacks and counters after a hand-over.
LEMMA GivenOwners ==
  ASSUME LockInv, NEW m, NEW h, NEW p, Given(m, h, p)
  PROVE  OwnersMatchStacks'
<1>1. /\ m \in Mutexes /\ owner[m] = ctp /\ h # ctp /\ (h = NULL <=> wq[m] = <<>>)
      /\ wq[m] = <<>> => wq'[m] = <<>>
      /\ \A o \in Objects \ {m} : wq'[o] = wq[o]
      /\ owner'[m] = h /\ \A n \in Mutexes \ {m} : owner'[n] = owner[n] /\ cnt'[n] = cnt[n]
      /\ RecursiveMode => cnt'[m] = IF h = NULL THEN 0 ELSE 1
  BY Zenon DEF Given
<1>2. /\ IsInjective(mtxlist'[ctp]) /\ Range(mtxlist'[ctp]) = Range(mtxlist[ctp]) \ {m}
      /\ h \in Threads => IsInjective(mtxlist'[h]) /\ Range(mtxlist'[h]) = Range(mtxlist[h]) \cup {m}
      /\ \A t \in Threads \ {ctp, h} : mtxlist'[t] = mtxlist[t]
  BY Zenon DEF Given
<1>3. OwnersMatchStacks
  BY Zenon DEF LockInv
<1>4. ASSUME NEW t \in Threads
      PROVE  /\ IsInjective(mtxlist'[t])
             /\ \A n \in Mutexes : n \in Range(mtxlist'[t]) <=> owner'[n] = t
  <2>1. /\ IsInjective(mtxlist[t])
        /\ \A n \in Mutexes : n \in Range(mtxlist[t]) <=> owner[n] = t
    BY <1>3, Zenon DEF OwnersMatchStacks
  <2>2. CASE t = ctp
    BY <1>1, <1>2, <2>1, <2>2, Zenon
  <2>3. CASE t = h
    BY <1>1, <1>2, <2>1, <2>3, Zenon
  <2>4. CASE t \notin {ctp, h}
    BY <1>1, <1>2, <2>1, <2>4, ZenonT(60)
  <2> QED BY <2>2, <2>3, <2>4, Zenon
<1>5. ASSUME NEW n \in Mutexes
      PROVE  /\ wq'[n] # <<>> => owner'[n] # NULL
             /\ RecursiveMode => (cnt'[n] = 0 <=> owner'[n] = NULL)
  <2>1. CASE n = m
    BY <1>1, <2>1
  <2>2. CASE n # m
    <3>1. wq'[n] = wq[n] /\ owner'[n] = owner[n] /\ cnt'[n] = cnt[n]
      BY <1>1, <2>2, MtxAssumption, Zenon
    <3> QED BY <1>3, <3>1, Zenon DEF OwnersMatchStacks
  <2> QED BY <2>1, <2>2, Zenon
<1> QED BY <1>4, <1>5, Zenon DEF OwnersMatchStacks

\* Where the threads are after a hand-over.
LEMMA GivenPc ==
  ASSUME LockInv, NEW m, NEW h, NEW p, Given(m, h, p)
  PROVE  PcInv'
<1>1. /\ m \in Mutexes /\ owner[m] = ctp /\ h # ctp /\ ctp # idle
      /\ h # NULL => pc[h] = "mtxwait" /\ mp[h] = m
      /\ h \in Threads => mtxlist'[h] # <<>> /\ Head(mtxlist'[h]) = m
      /\ \A t \in Threads \ {ctp, h} : mtxlist'[t] = mtxlist[t]
      /\ owner'[m] = h /\ \A n \in Mutexes \ {m} : owner'[n] = owner[n] /\ cnt'[n] = cnt[n]
      /\ RecursiveMode => cnt'[m] = IF h = NULL THEN 0 ELSE 1
  BY Zenon DEF Given
<1>2. /\ mp' = mp /\ tp' = NULL /\ ~isr' /\ sch'.u = sch.u
      /\ \A t \in Threads \ {ctp} : pc'[t] = pc[t]
      /\ pc'[ctp] \in {"run", "unlockall"}
      /\ pc'[ctp] = "unlockall" => sch'.current = ctp /\ mtxlist'[ctp] # <<>>
  BY Zenon DEF Given
<1>3. \A t \in Threads : IF sch.state[t] \in {"READY", "CURRENT"} \/ t = h
                         THEN sch'.state[t] \in {"READY", "CURRENT"}
                         ELSE sch'.state[t] = sch.state[t]
  BY Zenon DEF Given
<1>4. PcInv /\ ctp \in Threads /\ sch.state[ctp] = "CURRENT"
  BY InvFacts, ZenonT(30) DEF LockInv
<1>5. pc'[idle] = "run" /\ sch'.state[idle] \in {"READY", "CURRENT"}
  BY <1>1, <1>2, <1>3, <1>4, SchedAssumption, ZenonT(60) DEF PcInv
<1>6. ASSUME NEW t \in Threads
      PROVE  /\ sch'.state[t] \in {"READY", "CURRENT", "WTSTART", "SUSPENDED", "WTMTX"}
             /\ t # ctp => pc'[t] \in {"run", "mtxwait"}
             /\ pc'[t] \in {"run", "mtxwait", "unlockall"}
             /\ sch'.state[t] = "WTMTX" => pc'[t] = "mtxwait" /\ sch'.u[t] = mp'[t]
             /\ pc'[t] = "mtxwait" => mp'[t] \in Mutexes
             /\ pc'[t] = "mtxwait" /\ sch'.state[t] # "WTMTX" =>
                  /\ sch'.state[t] \in {"READY", "CURRENT"}
                  /\ owner'[mp'[t]] = t
                  /\ mtxlist'[t] # <<>> /\ Head(mtxlist'[t]) = mp'[t]
                  /\ RecursiveMode => cnt'[mp'[t]] = 1
             /\ pc'[t] = "unlockall" => t = sch'.current /\ mtxlist'[t] # <<>>
  <2>1. CASE t = h
    <3>1. h # NULL /\ sch'.state[t] \in {"READY", "CURRENT"}
      BY <1>3, <2>1, MtxAssumption, Zenon
    <3> QED BY <1>1, <1>2, <2>1, <3>1, ZenonT(60)
  <2>2. CASE t = ctp
    <3>1. sch'.state[t] \in {"READY", "CURRENT"}
      BY <1>3, <1>4, <2>2, ZenonT(30)
    <3> QED BY <1>2, <2>2, <3>1, Zenon
  <2>3. CASE t \notin {h, ctp}
    <3>1. /\ sch'.state[t] = "WTMTX" <=> sch.state[t] = "WTMTX"
          /\ sch'.state[t] \in {"READY", "CURRENT"} <=> sch.state[t] \in {"READY", "CURRENT"}
          /\ sch'.state[t] \in {"READY", "CURRENT", "WTSTART", "SUSPENDED", "WTMTX"}
      BY <1>3, <1>4, <2>3, ZenonT(30) DEF PcInv
    <3>2. mtxlist'[t] = mtxlist[t] /\ pc'[t] = pc[t] /\ pc[t] \in {"run", "mtxwait"}
      BY <1>1, <1>2, <1>4, <2>3, ZenonT(60) DEF PcInv
    <3>3. mp[t] \in Mutexes /\ owner[mp[t]] = t => owner'[mp[t]] = t /\ cnt'[mp[t]] = cnt[mp[t]]
      BY <1>1, <2>3, Zenon
    <3>4. /\ sch.state[t] = "WTMTX" => pc[t] = "mtxwait" /\ sch.u[t] = mp[t]
          /\ pc[t] \in {"boost", "mtxwait"} => mp[t] \in Mutexes
          /\ pc[t] = "mtxwait" /\ sch.state[t] # "WTMTX" =>
               /\ sch.state[t] \in {"READY", "CURRENT"}
               /\ owner[mp[t]] = t
               /\ mtxlist[t] # <<>> /\ Head(mtxlist[t]) = mp[t]
               /\ RecursiveMode => cnt[mp[t]] = 1
      BY <1>4, PcFacts, Zenon
    <3> QED BY <1>2, <3>1, <3>2, <3>3, <3>4, ZenonT(60)
  <2> QED BY <2>1, <2>2, <2>3, Zenon
<1> QED BY <1>2, <1>5, <1>6, Zenon DEF PcInv, ctp

\* The order of the queues after a hand-over.
LEMMA GivenOrder ==
  ASSUME LockInv, NEW m, NEW h, NEW p, Given(m, h, p)
  PROVE  OrderInv'
<1>1. /\ SchedOK(sch') /\ wq' \in [Objects -> Seq(Threads)]
      /\ \A o \in Objects \ {m} : wq'[o] = wq[o]
      /\ Sorted(wq'[m], sch.prio) /\ Range(wq'[m]) = Range(wq[m]) \ {h} /\ m \in Mutexes
      /\ \A x \in Threads \ {ctp} : sch'.prio[x] = sch.prio[x]
  BY Zenon DEF Given
<1>2. /\ pc'[ctp] = "unlockall" => sch'.current = ctp
      /\ pc'[ctp] # "unlockall" => PriorityOrder(sch')
  BY Zenon DEF Given
<1>3. /\ ctp \in Threads /\ sch.prio \in [Threads -> Nat]
      /\ \A o \in Objects : ctp \notin Range(wq[o])
  BY InvFacts, Zenon
<1>4. Sorted(sch'.queue, sch'.prio)
  BY <1>1, Zenon DEF SchedOK, ListOK
<1>5. sch'.prio \in [Threads -> Nat]
  <2>1. Priorities \subseteq Nat
    BY SchedAssumption DEF Priorities, IDLEPRIO
  <2> QED BY <1>1, <2>1, Zenon DEF SchedOK, ListOK, SchedState
<1>6. ASSUME NEW o \in Objects PROVE Sorted(wq'[o], sch'.prio)
  <2>1. wq'[o] \in Seq(Threads) /\ Sorted(wq'[o], sch.prio)
    BY <1>1, Zenon DEF LockInv, OrderInv
  <2>2. ctp \notin Range(wq'[o])
    BY <1>1, <1>3, Zenon
  <2> QED BY <1>1, <1>3, <1>5, <2>1, <2>2, SortedElsewhere, ZenonT(30)
<1>7. pc'[sch'.current] # "unlockall" => PriorityOrder(sch')
  BY <1>2, Zenon
<1> QED BY <1>4, <1>6, <1>7, Zenon DEF OrderInv, ctp

\* Nobody waits for a lower thread after a hand-over.
LEMMA GivenInherit ==
  ASSUME LockInv, ~SetPrioOwning, NEW m, NEW h, NEW p, Given(m, h, p)
  PROVE  InheritInv'
<1>1. /\ m \in Mutexes /\ h # ctp /\ wq' \in [Objects -> Seq(Threads)]
      /\ \A o \in Objects \ {m} : wq'[o] = wq[o]
      /\ Range(wq'[m]) = Range(wq[m]) \ {h}
      /\ \A w \in Range(wq'[m]) : h \in Threads /\ sch.prio[h] >= sch.prio[w]
      /\ owner'[m] = h /\ \A n \in Mutexes \ {m} : owner'[n] = owner[n]
  BY Zenon DEF Given
<1>2. /\ sch'.prio[ctp] = p /\ \A x \in Threads \ {ctp} : sch'.prio[x] = sch.prio[x]
      /\ \A n \in Range(mtxlist'[ctp]) : \A w \in Range(wq[n]) : sch.prio[w] <= p
      /\ Range(mtxlist'[ctp]) = Range(mtxlist[ctp]) \ {m}
  BY Zenon DEF Given
<1>3. InheritInv /\ tp = NULL /\ OwnersMatchStacks
  BY Zenon DEF LockInv, Given
<1>4. /\ ctp \in Threads /\ sch.prio \in [Threads -> Nat] /\ wq \in [Objects -> Seq(Threads)]
      /\ owner \in [Mutexes -> Threads \cup {NULL}]
      /\ \A o \in Objects : ctp \notin Range(wq[o])
  BY InvFacts, Zenon DEF LockInv, MtxTypeOK
<1>5. ASSUME NEW n \in Mutexes, NEW w \in Range(wq'[n])
      PROVE  sch'.prio[w] <= sch'.prio[owner'[n]]
  <2>1. w \in Range(wq[n]) /\ n \in Objects
    BY <1>1, <1>5, MtxAssumption, Zenon
  <2>2. w \in Threads /\ wq[n] # <<>>
    BY <1>4, <2>1 DEF Range
  <2>3. w # ctp /\ sch'.prio[w] = sch.prio[w]
    BY <1>2, <1>4, <2>1, <2>2, Zenon
  <2>4. CASE n = m
    <3>1. h \in Threads /\ sch.prio[h] >= sch.prio[w] /\ owner'[n] = h /\ sch'.prio[h] = sch.prio[h]
      BY <1>1, <1>2, <1>5, <2>4, Zenon
    <3>2. sch.prio[h] \in Nat /\ sch.prio[w] \in Nat
      BY <1>4, <2>2, <3>1, Zenon
    <3> QED BY <2>3, <3>1, <3>2, Zenon
  <2>5. CASE n # m /\ owner[n] = ctp
    <3>1. n \in Range(mtxlist[ctp])
      BY <1>3, <1>4, <2>5, Zenon DEF OwnersMatchStacks
    <3>2. sch.prio[w] <= p
      BY <1>2, <2>1, <2>5, <3>1, ZenonT(30)
    <3> QED BY <1>1, <1>2, <2>3, <2>5, <3>2, ZenonT(30)
  <2>6. CASE n # m /\ owner[n] # ctp
    <3>1. owner[n] \in Threads \ {ctp}
      BY <1>3, <1>4, <2>2, <2>6, SMTT(60) DEF OwnersMatchStacks
    <3>2. sch.prio[w] <= sch.prio[owner[n]]
      BY <1>3, <2>1, <3>1, MtxAssumption, ZenonT(30) DEF InheritInv
    <3> QED BY <1>1, <1>2, <2>3, <2>6, <3>1, <3>2, SMTT(30)
  <2> QED BY <2>4, <2>5, <2>6, Zenon
<1>6. pc'[sch'.current] # "boost"
  <2>1. SchedOK(sch') /\ pc'[ctp] # "boost" /\ \A t \in Threads \ {ctp} : pc'[t] = pc[t]
    BY Zenon DEF Given
  <2>2. sch'.current \in Threads
    BY <2>1, Zenon DEF SchedOK, ListOK, SchedState
  <2> QED BY <2>1, <2>2, ZenonT(30) DEF LockInv, PcInv
<1> QED BY <1>5, <1>6, Zenon DEF InheritInv, ctp

\* Giving the mutex on top of the stack to its first waiter, in both unlock
\* functions; p is the priority that the running thread is left with.
LEMMA HandOverStep ==
  ASSUME LockInv, pc[ctp] \in {"run", "unlockall"}, ctp # idle,
         mtxlist[ctp] # <<>>, NEW m, m = Head(mtxlist[ctp]),
         HandOver(m), wq' = WqAfterUnlock(m),
         UNCHANGED <<realprio, mp, tp, isr>>, ~isr,
         pc' \in [Threads -> Pcs], \A t \in Threads \ {ctp} : pc'[t] = pc[t],
         pc'[ctp] \in {"run", "unlockall"},
         pc'[ctp] = "unlockall" => sch'.current = ctp /\ Len(mtxlist[ctp]) > 1,
         pc'[ctp] # "unlockall" => PriorityOrder(sch'),
         SchedOK(sch'), sch'.u = sch.u,
         NEW p \in Priorities, sch'.prio = [sch.prio EXCEPT ![ctp] = p],
         \A t \in Threads : IF sch.state[t] \in {"READY", "CURRENT"} \/ t = NewOwner(m)
                            THEN sch'.state[t] \in {"READY", "CURRENT"}
                            ELSE sch'.state[t] = sch.state[t],
         ~SetPrioOwning => \A n \in Range(Tail(mtxlist[ctp])) : \A w \in Range(wq[n]) : sch.prio[w] <= p
  PROVE  LockInv' /\ Given(m, NewOwner(m), p)
<1> DEFINE h == NewOwner(m)
<1>1. /\ SchedOK(sch) /\ sch \in SchedState /\ ctp \in Threads /\ sch.state[ctp] = "CURRENT"
      /\ sch.prio \in [Threads -> Nat]
      /\ \A o \in Objects : ctp \notin Range(wq[o])
      /\ \A t \in Threads, o \in Objects :
              sch.state[t] = "WTMTX" /\ sch.u[t] = o <=> t \in Range(wq[o])
  BY InvFacts, Zenon
<1>2. /\ MtxTypeOK /\ PcInv /\ OwnersMatchStacks /\ OrderInv /\ QueuesMatchStates
      /\ (~SetPrioOwning => InheritInv)
  BY Zenon DEF LockInv
<1>3. /\ wq \in [Objects -> Seq(Threads)] /\ mtxlist \in [Threads -> Seq(Mutexes)]
      /\ owner \in [Mutexes -> Threads \cup {NULL}] /\ cnt \in [Mutexes -> Nat]
  BY <1>2, Zenon DEF MtxTypeOK
<1>4. /\ mtxlist[ctp] \in Seq(Mutexes) /\ IsInjective(mtxlist[ctp])
      /\ m \in Mutexes /\ m \in Objects /\ owner[m] = ctp
      /\ Tail(mtxlist[ctp]) \in Seq(Mutexes) /\ IsInjective(Tail(mtxlist[ctp]))
      /\ Range(Tail(mtxlist[ctp])) = Range(mtxlist[ctp]) \ {m}
  <2>1. mtxlist[ctp] \in Seq(Mutexes) /\ IsInjective(mtxlist[ctp])
    BY <1>1, <1>2, <1>3, OwnerFacts, Zenon
  <2>2. m \in Mutexes /\ m \in Range(mtxlist[ctp])
    BY <2>1, HeadTail, Zenon
  <2>3. /\ Tail(mtxlist[ctp]) \in Seq(Mutexes) /\ IsInjective(Tail(mtxlist[ctp]))
        /\ Range(Tail(mtxlist[ctp])) = Range(mtxlist[ctp]) \ {m}
    BY <2>1, HeadTail, ZenonT(30)
  <2>4. owner[m] = ctp
    <3>1. \A n \in Mutexes : n \in Range(mtxlist[ctp]) <=> owner[n] = ctp
      BY <1>1, <1>2, OwnerFacts, Zenon
    <3> QED BY <2>2, <3>1, SMTT(30)
  <2> QED BY <2>1, <2>2, <2>3, <2>4, MtxAssumption, ZenonT(30)
\* The wait queue of the mutex.
<1>5. wq[m] \in Seq(Threads) /\ IsInjective(wq[m]) /\ Sorted(wq[m], sch.prio)
  BY <1>2, <1>3, <1>4, ZenonT(60) DEF QueuesMatchStates, OrderInv
<1>6. /\ wq'[m] = IF wq[m] = <<>> THEN <<>> ELSE Tail(wq[m])
      /\ \A o \in Objects \ {m} : wq'[o] = wq[o]
      /\ wq' = [o \in Objects |-> wq'[o]]
  BY <1>3, <1>4, Zenon DEF WqAfterUnlock
<1>7. /\ wq'[m] \in Seq(Threads) /\ IsInjective(wq'[m]) /\ Sorted(wq'[m], sch.prio)
      /\ Range(wq'[m]) = Range(wq[m]) \ {h}
      /\ \A w \in Range(wq'[m]) : h \in Threads /\ sch.prio[h] >= sch.prio[w]
  <2>1. CASE wq[m] = <<>>
    <3>1. Range(wq[m]) = {}
      BY <2>1 DEF Range
    <3>2. wq'[m] = wq[m]
      BY <1>6, <2>1, Zenon
    <3> QED BY <1>5, <3>1, <3>2, ZenonT(30)
  <2>2. CASE wq[m] # <<>>
    <3>1. wq'[m] = Tail(wq[m]) /\ h = Head(wq[m])
      BY <1>6, <2>2, Zenon DEF NewOwner
    <3>2. Tail(wq[m]) \in Seq(Threads) /\ IsInjective(Tail(wq[m])) /\ Sorted(Tail(wq[m]), sch.prio)
      BY <1>5, <2>2, HeadTail, Zenon
    <3>3. Range(Tail(wq[m])) = Range(wq[m]) \ {Head(wq[m])} /\ Head(wq[m]) \in Threads
      BY <1>5, <2>2, HeadTail, Zenon
    <3>4. \A w \in Range(Tail(wq[m])) : sch.prio[Head(wq[m])] >= sch.prio[w]
      BY <1>5, <2>2, HeadTail, Zenon
    <3> HIDE DEF h
    <3> QED BY <3>1, <3>2, <3>3, <3>4, ZenonT(30)
  <2> QED BY <2>1, <2>2, Zenon
<1>8. /\ h \in Threads \cup {NULL} /\ h # ctp
      /\ h # NULL => h \in Range(wq[m]) /\ sch.state[h] = "WTMTX" /\ sch.u[h] = m /\ pc[h] = "mtxwait" /\ mp[h] = m
      /\ h = NULL <=> wq[m] = <<>>
  <2>1. CASE wq[m] = <<>>
    <3>1. h = NULL
      BY <2>1, Zenon DEF NewOwner
    <3> HIDE DEF h
    <3> QED BY <1>1, <2>1, <3>1, MtxAssumption, ZenonT(60)
  <2>2. CASE wq[m] # <<>>
    <3>1. h = Head(wq[m])
      BY <2>2, Zenon DEF NewOwner
    <3> HIDE DEF h
    <3>2. h \in Threads /\ h \in Range(wq[m])
      BY <1>5, <2>2, <3>1, HeadTail, ZenonT(30)
    <3>3. sch.state[h] = "WTMTX" /\ sch.u[h] = m /\ h # ctp
      <4>1. \A t \in Threads, o \in Objects :
              sch.state[t] = "WTMTX" /\ sch.u[t] = o <=> t \in Range(wq[o])
        BY <1>1, Zenon
      <4>2. h # ctp
        BY <1>1, <1>4, <3>2, Zenon
      <4> QED BY <1>4, <3>2, <4>1, <4>2, Zenon
    <3>4. pc[h] = "mtxwait" /\ mp[h] = m
      BY <1>2, <3>2, <3>3, Zenon DEF PcInv
    <3>5. h # NULL
      BY <3>2, MtxAssumption, Zenon
    <3> QED BY <2>2, <3>2, <3>3, <3>4, <3>5, ZenonT(30)
  <2> QED BY <2>1, <2>2, ZenonT(30)
\* The owner fields and the stacks.
<1>9. /\ owner' = [owner EXCEPT ![m] = h]
      /\ mtxlist' = [t \in Threads |-> CASE t = ctp  -> Tail(mtxlist[t])
                                         [] t = h    -> Push(m, mtxlist[t])
                                         [] OTHER    -> mtxlist[t]]
      /\ cnt' = [cnt EXCEPT ![m] = IF RecursiveMode /\ wq[m] # <<>> THEN 1 ELSE 0]
  BY Zenon DEF HandOver
<1> HIDE DEF h
<1>10. /\ mtxlist'[ctp] = Tail(mtxlist[ctp])
       /\ h \in Threads => mtxlist'[h] = Push(m, mtxlist[h])
       /\ \A t \in Threads \ {ctp, h} : mtxlist'[t] = mtxlist[t]
  BY <1>1, <1>8, <1>9, Zenon
<1>11. h \in Threads => /\ Push(m, mtxlist[h]) \in Seq(Mutexes) /\ IsInjective(Push(m, mtxlist[h]))
                        /\ Range(Push(m, mtxlist[h])) = Range(mtxlist[h]) \cup {m}
                        /\ Push(m, mtxlist[h]) # <<>> /\ Head(Push(m, mtxlist[h])) = m
  <2> HAVE h \in Threads
  <2>1. mtxlist[h] \in Seq(Mutexes) /\ IsInjective(mtxlist[h]) /\ m \notin Range(mtxlist[h])
    BY <1>2, <1>3, <1>4, <1>8, ZenonT(60) DEF OwnersMatchStacks
  <2>2. Push(m, mtxlist[h]) \in Seq(Mutexes) /\ IsInjective(Push(m, mtxlist[h]))
    BY <1>4, <2>1, PushFacts, Zenon
  <2>5. \A q \in Seq(Mutexes) :
           /\ Range(Push(m, q)) = Range(q) \cup {m}
           /\ Push(m, q) # <<>> /\ Head(Push(m, q)) = m
    BY <1>4, StackFacts, ZenonT(30)
  <2>3. Range(Push(m, mtxlist[h])) = Range(mtxlist[h]) \cup {m}
    BY <2>1, <2>5, Zenon
  <2>4. Push(m, mtxlist[h]) # <<>> /\ Head(Push(m, mtxlist[h])) = m
    BY <2>1, <2>5, Zenon
  <2> QED BY <2>2, <2>3, <2>4, ZenonT(30)
<1>12. /\ owner'[m] = h /\ \A n \in Mutexes \ {m} : owner'[n] = owner[n] /\ cnt'[n] = cnt[n]
       /\ RecursiveMode => cnt'[m] = IF h = NULL THEN 0 ELSE 1
       /\ owner' \in [Mutexes -> Threads \cup {NULL}] /\ cnt' \in [Mutexes -> Nat]
  BY <1>3, <1>4, <1>8, <1>9, ZenonT(30)
<1>13. mtxlist' \in [Threads -> Seq(Mutexes)]
  <2>1. \A t \in Threads : mtxlist'[t] \in Seq(Mutexes)
    BY <1>3, <1>4, <1>10, <1>11, ZenonT(30)
  <2>2. mtxlist' = [t \in Threads |-> mtxlist'[t]]
    BY <1>9
  <2> QED BY <2>1, <2>2, ZenonT(30)
<1>14. pc'[ctp] = "unlockall" => mtxlist'[ctp] # <<>>
  BY <1>4, <1>10, StackFacts, Zenon
<1>15. wq' \in [Objects -> Seq(Threads)]
  BY <1>3, <1>6, <1>7, ZenonT(30)
<1>16. sch'.prio[ctp] = p /\ \A x \in Threads \ {ctp} : sch'.prio[x] = sch.prio[x]
  <2>1. sch.prio \in [Threads -> Nat] /\ ctp \in Threads
    BY <1>1, Zenon
  <2> QED BY <2>1, SMTT(30)
<1>17. tp = NULL
  BY <1>2, Zenon DEF PcInv
<1>18. Given(m, h, p)
  <2>1. \A t \in Threads : IF sch.state[t] \in {"READY", "CURRENT"} \/ t = h
                           THEN sch'.state[t] \in {"READY", "CURRENT"}
                           ELSE sch'.state[t] = sch.state[t]
    BY Zenon DEF h
  <2> QED BY <1>4, <1>6, <1>7, <1>8, <1>10, <1>11, <1>12, <1>13, <1>14, <1>15, <1>16, <1>17, <2>1, ZenonT(60) DEF Given
<1>19. LockInv'
  BY <1>18, GivenTypes, GivenQueues, GivenOwners, GivenPc, GivenOrder, GivenInherit, ZenonT(30) DEF LockInv
<1> QED BY <1>18, <1>19, Zenon DEF h

-----------------------------------------------------------------------------
(* Unlocking *)

\* The first waiter of a mutex, if any, becomes ready.
LEMMA GrantFacts ==
  ASSUME LockInv, NEW m \in Mutexes, NEW s, SchedOK(s), s.state = sch.state, s.current = ctp,
         NEW r, r = IF wq[m] = <<>> THEN s ELSE chSchReadyI(s, Head(wq[m]))
  PROVE  /\ SchedOK(r) /\ r.prio = s.prio /\ r.u = s.u /\ r.current = ctp
         /\ \A t \in Threads : IF t = NewOwner(m) THEN r.state[t] = "READY"
                               ELSE r.state[t] = sch.state[t]
<1>1. CASE wq[m] = <<>>
  <2>1. r = s /\ NewOwner(m) = NULL
    BY <1>1, Zenon DEF NewOwner
  <2> QED BY <2>1, MtxAssumption, ZenonT(60)
<1>2. CASE wq[m] # <<>>
  <2> DEFINE h == Head(wq[m])
  <2>1. m \in Objects /\ wq[m] \in Seq(Threads) /\ IsInjective(wq[m])
    BY MtxAssumption, ZenonT(60) DEF LockInv, MtxTypeOK, QueuesMatchStates
  <2>2. h \in Threads /\ h \in Range(wq[m])
    BY <1>2, <2>1, HeadTail, Zenon
  <2>3. r = chSchReadyI(s, h) /\ NewOwner(m) = h
    BY <1>2, Zenon DEF NewOwner
  <2> HIDE DEF h
  <2>4. s.state[h] # "READY" /\ s.state[h] # "CURRENT"
    <3>1. sch.state[h] = "WTMTX"
      BY <2>1, <2>2, InvFacts, Zenon
    <3> QED BY <3>1, Zenon
  <2>5. ListOK(s) /\ s.state \in [Threads -> States]
    BY Zenon DEF SchedOK, ListOK, SchedState
  <2> DEFINE c == chSchReadyI(s, h)
  <2>6. ListOK(c)
    BY <2>2, <2>4, <2>5, ReadyFacts, ZenonT(60)
  <2>11. c.prio = s.prio /\ c.u = s.u /\ c.current = s.current
    BY <2>2, <2>4, <2>5, ReadyFacts, ZenonT(60)
  <2>12. c.state = [s.state EXCEPT ![h] = "READY"]
    BY <2>2, <2>4, <2>5, ReadyFacts, ZenonT(60)
  <2>13. r = c
    BY <2>3, Zenon
  <2> HIDE DEF c
  <2>7. r.prio = s.prio /\ r.u = s.u /\ r.current = ctp
    BY <2>11, <2>13, Zenon
  <2>8. r.state = [s.state EXCEPT ![h] = "READY"]
    BY <2>12, <2>13, Zenon
  <2>9. \A t \in Threads : IF t = h THEN r.state[t] = "READY" ELSE r.state[t] = s.state[t]
    BY <2>5, <2>8, Zenon
  <2>10. SchedOK(r)
    <3>1. \A t \in Threads : r.state[t] = "CURRENT" <=> t = r.current
      BY <2>4, <2>7, <2>9, SMTT(60) DEF SchedOK
    <3> QED BY <2>6, <2>13, <3>1, ZenonT(30) DEF SchedOK
  <2> QED BY <2>3, <2>7, <2>9, <2>10, ZenonT(30)
<1> QED BY <1>1, <1>2, Zenon

\* The priority that an owner keeps covers all the waiters it keeps.
LEMMA PrioWithoutTopFacts ==
  ASSUME LockInv, mtxlist[ctp] # <<>>
  PROVE  /\ PrioWithoutTop \in Priorities
         /\ \A n \in Range(Tail(mtxlist[ctp])) : \A w \in Range(wq[n]) :
              sch.prio[w] <= PrioWithoutTop
         /\ realprio[ctp] <= PrioWithoutTop
         /\ \/ PrioWithoutTop = realprio[ctp]
            \/ \E n \in Range(Tail(mtxlist[ctp])) : \E w \in Range(wq[n]) : sch.prio[w] = PrioWithoutTop
<1> DEFINE N == {x \in Range(Tail(mtxlist[ctp])) : wq[x] # <<>>}
           S == {realprio[ctp]} \cup {sch.prio[Head(wq[n])] : n \in N}
<1>1. /\ ctp \in Threads /\ sch.prio \in [Threads -> Priorities] /\ sch.prio \in [Threads -> Nat]
  BY InvFacts, Zenon
<1>2. Range(Tail(mtxlist[ctp])) \subseteq Mutexes
  <2>1. mtxlist[ctp] \in Seq(Mutexes)
    BY <1>1, ZenonT(30) DEF LockInv, MtxTypeOK
  <2>2. IsInjective(mtxlist[ctp])
    BY <1>1, Zenon DEF LockInv, OwnersMatchStacks
  <2>3. Tail(mtxlist[ctp]) \in Seq(Mutexes)
    BY <2>1, <2>2, HeadTail, ZenonT(60)
  <2> QED BY <2>3, SMTT(60) DEF Range
<1>3. ASSUME NEW n \in Mutexes, wq[n] # <<>>
      PROVE  /\ Head(wq[n]) \in Threads
             /\ \A w \in Range(wq[n]) : sch.prio[w] <= sch.prio[Head(wq[n])]
  <2> DEFINE q == wq[n]
  <2>1. q \in Seq(Threads) /\ IsInjective(q) /\ Sorted(q, sch.prio) /\ q # <<>>
    BY <1>3, MtxAssumption, ZenonT(30) DEF LockInv, MtxTypeOK, QueuesMatchStates, OrderInv
  <2> HIDE DEF q
  <2>2. Head(q) \in Threads /\ Range(Tail(q)) = Range(q) \ {Head(q)}
    BY <2>1, HeadTail, Zenon
  <2>3. \A x \in Range(Tail(q)) : sch.prio[Head(q)] >= sch.prio[x]
    BY <2>1, HeadTail, ZenonT(60)
  <2>4. ASSUME NEW w \in Range(q) PROVE sch.prio[w] <= sch.prio[Head(q)]
    <3>1. w \in Threads
      BY <2>1 DEF Range
    <3>2. sch.prio[w] \in Nat /\ sch.prio[Head(q)] \in Nat
      BY <1>1, <2>2, <3>1, ZenonT(60)
    <3>3. w = Head(q) \/ w \in Range(Tail(q))
      BY <2>2, Zenon
    <3> QED BY <2>3, <3>2, <3>3, SMTT(60)
  <2> QED BY <2>2, <2>4, ZenonT(60) DEF q
<1>4. S \subseteq Priorities
  <2>1. realprio[ctp] \in Priorities
    BY <1>1, ZenonT(30) DEF LockInv, MtxTypeOK
  <2>2. \A n \in N : sch.prio[Head(wq[n])] \in Priorities
    BY <1>1, <1>2, <1>3, ZenonT(60)
  <2> QED BY <2>1, <2>2, ZenonT(60)
<1>5. Max(S) \in S /\ \A y \in S : y <= Max(S)
  <2>2. S # {} /\ HIGHPRIO \in Nat
    BY SchedAssumption, Zenon
  <2> HIDE DEF S
  <2>1. S \in SUBSET Nat /\ \A y \in S : y <= HIGHPRIO
    BY <1>4, SchedAssumption, SMTT(60) DEF Priorities, IDLEPRIO
  <2> QED BY <2>1, <2>2, MaxNat, ZenonT(60)
<1>6. ASSUME NEW n \in Range(Tail(mtxlist[ctp])), NEW w \in Range(wq[n])
      PROVE  sch.prio[w] <= Max(S)
  <2>1. wq[n] # <<>> /\ n \in Mutexes
    BY <1>2, <1>6, SMTT(60) DEF Range
  <2>2. Head(wq[n]) \in Threads /\ sch.prio[w] <= sch.prio[Head(wq[n])]
    BY <1>3, <2>1, Zenon
  <2>3. sch.prio[Head(wq[n])] \in S
    BY <2>1, Zenon
  <2>4. w \in Threads
    <3>1. wq[n] \in Seq(Threads)
      BY <2>1, MtxAssumption, SMTT(30) DEF LockInv, MtxTypeOK
    <3> QED BY <3>1, SMTT(60) DEF Range
  <2>5. sch.prio[w] \in Nat /\ sch.prio[Head(wq[n])] \in Nat /\ Max(S) \in Nat
    <3>1. Priorities \subseteq Nat
      BY SchedAssumption, SMT DEF Priorities, IDLEPRIO
    <3> QED BY <1>1, <1>4, <1>5, <2>2, <2>4, <3>1, ZenonT(30)
  <2>6. sch.prio[Head(wq[n])] <= Max(S)
    BY <1>5, <2>3, Zenon
  <2> HIDE DEF S
  <2> QED BY <2>2, <2>5, <2>6, SMTT(60)
<1>7. PrioWithoutTop = Max(S)
  BY Zenon DEF PrioWithoutTop
<1>8. realprio[ctp] <= Max(S)
  BY <1>5, Zenon
<1>9. \/ Max(S) = realprio[ctp]
      \/ \E n \in Range(Tail(mtxlist[ctp])) : \E w \in Range(wq[n]) : sch.prio[w] = Max(S)
  <2>1. Max(S) = realprio[ctp] \/ \E n \in N : Max(S) = sch.prio[Head(wq[n])]
    BY <1>5, Zenon
  <2>2. ASSUME NEW n \in N PROVE Head(wq[n]) \in Range(wq[n])
    <3>1. n \in Mutexes /\ wq[n] # <<>>
      BY <1>2, <2>2, Zenon
    <3>2. wq[n] \in Seq(Threads) /\ IsInjective(wq[n])
      BY <3>1, MtxAssumption, ZenonT(30) DEF LockInv, MtxTypeOK, QueuesMatchStates
    <3> QED BY <3>1, <3>2, HeadTail, Zenon
  <2> QED BY <2>1, <2>2, Zenon
<1> HIDE DEF S
<1> QED BY <1>4, <1>5, <1>6, <1>7, <1>8, <1>9, ZenonT(30)

\* Where the priority is left alone it covers them too.
LEMMA PrioKeptFacts ==
  ASSUME LockInv, ~SetPrioOwning, pc[ctp] # "boost", mtxlist[ctp] # <<>>
  PROVE  \A n \in Range(Tail(mtxlist[ctp])) : \A w \in Range(wq[n]) : sch.prio[w] <= sch.prio[ctp]
<1>1. ctp \in Threads
  BY InvFacts, Zenon
<1>2. mtxlist[ctp] \in Seq(Mutexes) /\ IsInjective(mtxlist[ctp])
  BY <1>1, Zenon DEF LockInv, MtxTypeOK, OwnersMatchStacks
<1>3. Range(Tail(mtxlist[ctp])) \subseteq Range(mtxlist[ctp])
  BY <1>2, HeadTail, ZenonT(30)
<1>4. Range(mtxlist[ctp]) \subseteq Mutexes
  BY <1>2, SMTT(60) DEF Range
<1>5. \A n \in Range(mtxlist[ctp]) : owner[n] = ctp
  BY <1>1, <1>4, ZenonT(30) DEF LockInv, OwnersMatchStacks
<1>6. tp = NULL /\ ctp # NULL
  BY <1>1, MtxAssumption, SMTT(60) DEF LockInv, PcInv
<1> QED BY <1>3, <1>4, <1>5, <1>6, ZenonT(30) DEF LockInv, InheritInv

\* chMtxUnlock.
LEMMA UnlockStep ==
  ASSUME LockInv, NEW m \in Mutexes, chMtxUnlock(m)
  PROVE  LockInv' /\ (Kept \/ Dropped(m))
<1>1. /\ pc[ctp] = "run" /\ ~isr /\ ctp # idle /\ owner[m] = ctp
      /\ UNCHANGED <<realprio, pc, mp, tp, isr>>
  BY Zenon DEF chMtxUnlock, ThreadMode
<1>2. /\ SchedOK(sch) /\ sch \in SchedState /\ ctp \in Threads /\ sch.state[ctp] = "CURRENT"
      /\ sch.prio \in [Threads -> Priorities]
  BY InvFacts, Zenon
<1>3. MtxTypeOK /\ OwnersMatchStacks
  BY SMTT(30) DEF LockInv
<1>4. CASE /\ LastUnlock(m) /\ m = Head(mtxlist[ctp]) /\ HandOver(m)
           /\ wq' = WqAfterUnlock(m) /\ sch' = chSchRescheduleS(AfterUnlockS(m))
  <2> DEFINE s == IF wq[m] = <<>> THEN sch ELSE [sch EXCEPT !.prio[ctp] = PrioWithoutTop]
             p == IF wq[m] = <<>> THEN sch.prio[ctp] ELSE PrioWithoutTop
             r == AfterUnlockS(m)
  <2>1. mtxlist[ctp] # <<>>
    <3>1. m \in Range(mtxlist[ctp])
      BY <1>1, <1>2, <1>3, Zenon DEF OwnersMatchStacks
    <3> QED BY <3>1 DEF Range
  <2>2. p \in Priorities
    BY <1>2, <2>1, PrioWithoutTopFacts, ZenonT(60)
  <2>3. /\ SchedOK(s) /\ s.state = sch.state /\ s.current = ctp /\ s.u = sch.u
        /\ s.prio = [sch.prio EXCEPT ![ctp] = p]
    <3>1. CASE wq[m] = <<>>
      BY <1>2, <3>1, Zenon DEF ctp
    <3>2. CASE wq[m] # <<>>
      <4> DEFINE x == [sch EXCEPT !.prio[ctp] = PrioWithoutTop]
      <4>1. ListOK(x)
        BY <1>2, <2>1, PrioWithoutTopFacts, FieldFacts, ZenonT(30) DEF SchedOK
      <4>2. /\ x.state = sch.state /\ x.current = ctp /\ x.u = sch.u
            /\ x.prio = [sch.prio EXCEPT ![ctp] = PrioWithoutTop]
        BY <1>2, Zenon DEF SchedState, ctp
      <4>3. s = x /\ p = PrioWithoutTop
        BY <3>2, Zenon
      <4> HIDE DEF x, s, p
      <4>4. SchedOK(x)
        BY <1>2, <4>1, <4>2, Zenon DEF SchedOK, ctp
      <4> QED BY <4>2, <4>3, <4>4, Zenon
    <3> QED BY <3>1, <3>2, Zenon
  <2>4. r = IF wq[m] = <<>> THEN s ELSE chSchReadyI(s, Head(wq[m]))
    BY Zenon DEF AfterUnlockS
  <2>5. ~SetPrioOwning => \A n \in Range(Tail(mtxlist[ctp])) : \A w \in Range(wq[n]) : sch.prio[w] <= p
    <3>1. CASE wq[m] = <<>>
      BY <1>1, <2>1, <3>1, PrioKeptFacts, Zenon
    <3>2. CASE wq[m] # <<>>
      BY <2>1, <3>2, PrioWithoutTopFacts, Zenon
    <3> QED BY <3>1, <3>2, Zenon
  <2>6. sch' = chSchRescheduleS(r)
    BY <1>4, ZenonT(60)
  <2> HIDE DEF s, p, r
  <2>7. /\ SchedOK(r) /\ r.prio = s.prio /\ r.u = s.u /\ r.current = ctp
        /\ \A t \in Threads : IF t = NewOwner(m) THEN r.state[t] = "READY"
                              ELSE r.state[t] = sch.state[t]
    BY <2>3, <2>4, GrantFacts, SMTT(60)
  <2>8. SchedOK(sch') /\ PriorityOrder(sch') /\ Switched(r, sch')
    BY <2>6, <2>7, SwitchFacts, Zenon
  <2>9. sch'.u = sch.u /\ sch'.prio = [sch.prio EXCEPT ![ctp] = p]
    BY <2>3, <2>7, <2>8, Zenon DEF Switched
  <2>10. \A t \in Threads : IF sch.state[t] \in {"READY", "CURRENT"} \/ t = NewOwner(m)
                            THEN sch'.state[t] \in {"READY", "CURRENT"}
                            ELSE sch'.state[t] = sch.state[t]
    BY <2>7, <2>8, Zenon DEF Switched
  <2>11. pc' \in [Threads -> Pcs] /\ \A t \in Threads : pc'[t] = pc[t]
    BY <1>1, <1>3, Zenon DEF MtxTypeOK
  <2>12. pc'[ctp] = "run"
    BY <1>1, Zenon
  <2>13. LockInv' /\ Given(m, NewOwner(m), p)
    BY <1>1, <1>4, <2>1, <2>2, <2>5, <2>8, <2>9, <2>10, <2>11, <2>12, HandOverStep, ZenonT(30)
  <2>14. ASSUME BoostInv PROVE PrioLeft(m, p)
    <3>1. CASE wq[m] = <<>>
      <4>1. p = sch.prio[ctp]
        BY <3>1, Zenon DEF p
      <4>2. /\ realprio[ctp] <= sch.prio[ctp]
            /\ sch.prio[ctp] = realprio[ctp] \/ WaitedFor(ctp, sch.prio[ctp])
        BY <1>1, <1>2, <2>14, Settled, Zenon
      <4>3. Range(wq[m]) = {}
        BY <3>1 DEF Range
      <4> QED BY <4>1, <4>2, <4>3, Zenon DEF PrioLeft, WaitedFor
    <3>2. CASE wq[m] # <<>>
      <4>1. p = PrioWithoutTop
        BY <3>2, Zenon DEF p
      <4>2. /\ realprio[ctp] <= PrioWithoutTop
            /\ \/ PrioWithoutTop = realprio[ctp]
               \/ \E n \in Range(Tail(mtxlist[ctp])) : \E w \in Range(wq[n]) : sch.prio[w] = PrioWithoutTop
        BY <2>1, PrioWithoutTopFacts, Zenon
      <4>3. Range(Tail(mtxlist[ctp])) = Range(mtxlist[ctp]) \ {m}
        BY <2>13, Zenon DEF Given
      <4>4. Range(mtxlist[ctp]) \subseteq Mutexes
        <5>1. mtxlist[ctp] \in Seq(Mutexes)
          BY <1>2, <1>3, Zenon DEF MtxTypeOK
        <5> QED BY <5>1 DEF Range
      <4>5. \A n \in Range(Tail(mtxlist[ctp])) : n \in Mutexes \ {m} /\ owner[n] = ctp
        BY <1>2, <1>3, <4>3, <4>4, Zenon DEF OwnersMatchStacks
      <4> QED BY <4>1, <4>2, <4>5, Zenon DEF PrioLeft
    <3> QED BY <3>1, <3>2, Zenon
  <2> QED BY <2>13, <2>14, Zenon DEF Dropped
<1>5. CASE /\ ~LastUnlock(m) /\ cnt' = [cnt EXCEPT ![m] = @ - 1]
           /\ UNCHANGED <<sch, wq, mtxlist, owner>>
  <2>1. cnt \in [Mutexes -> Nat] /\ RecursiveMode /\ cnt[m] # 1 /\ cnt[m] # 0
    <3>1. RecursiveMode /\ cnt[m] # 1
      BY <1>5, Zenon DEF LastUnlock
    <3>2. owner[m] # NULL
      BY <1>1, <1>2, MtxAssumption, Zenon
    <3> QED BY <1>3, <3>1, <3>2, Zenon DEF MtxTypeOK, OwnersMatchStacks
  <2>2. cnt'[m] # 0 /\ cnt' \in [Mutexes -> Nat] /\ \A n \in Mutexes \ {m} : cnt'[n] = cnt[n]
    BY <1>5, <2>1
  <2>3. \A n \in Mutexes : owner[n] # ctp => cnt'[n] = cnt[n]
    BY <1>1, <2>2, Zenon
  <2>4. \A n \in Mutexes : owner[n] = ctp => cnt'[n] # 0
    <3>1. \A n \in Mutexes : owner[n] = ctp => cnt[n] # 0
      BY <1>2, <1>3, <2>1, MtxAssumption, SMTT(60) DEF OwnersMatchStacks
    <3> QED BY <2>2, <3>1, Zenon
  <2>5. mp' \in [Threads -> Mutexes \cup {NULL}] /\ \A t \in Threads : mp'[t] = mp[t]
    BY <1>1, <1>3, SMTT(30) DEF MtxTypeOK
  <2>6. LockInv'
    BY <1>1, <1>5, <2>2, <2>3, <2>4, <2>5, CountStep, ZenonT(30)
  <2>7. Kept
    BY <1>1, <1>5, Zenon DEF Kept
  <2> QED BY <2>6, <2>7, Zenon
<1> QED BY <1>4, <1>5, Zenon DEF chMtxUnlock

\* One iteration of chMtxUnlockAll.
LEMMA UnlockAllIteration ==
  ASSUME LockInv, UnlockAllStep
  PROVE  LockInv' /\ \E m : Dropped(m)
<1> DEFINE m == Head(mtxlist[ctp])
           s == IF wq[m] = <<>> THEN sch ELSE chSchReadyI(sch, Head(wq[m]))
<1>1. /\ pc[ctp] = "unlockall" /\ HandOver(m) /\ wq' = WqAfterUnlock(m)
      /\ UNCHANGED <<realprio, mp, tp, isr>>
  BY Zenon DEF UnlockAllStep
<1>2. /\ SchedOK(sch) /\ ctp \in Threads /\ sch.state[ctp] = "CURRENT"
      /\ sch.prio \in [Threads -> Priorities]
  BY InvFacts, Zenon
<1>3. MtxTypeOK /\ OwnersMatchStacks /\ PcInv
  BY Zenon DEF LockInv
<1>4. ~isr /\ ctp # idle /\ mtxlist[ctp] # <<>> /\ mtxlist[ctp] \in Seq(Mutexes)
      /\ realprio[ctp] \in Priorities /\ pc \in [Threads -> Pcs]
  BY <1>1, <1>2, <1>3, Zenon DEF PcInv, MtxTypeOK
<1>5. m \in Mutexes
  BY <1>4, SMTT(60)
<1>6. /\ SchedOK(s) /\ s.prio = sch.prio /\ s.u = sch.u /\ s.current = ctp
      /\ \A t \in Threads : IF t = NewOwner(m) THEN s.state[t] = "READY"
                            ELSE s.state[t] = sch.state[t]
  <2> HIDE DEF m
  <2>1. sch.current = ctp
    BY ZenonT(60) DEF ctp
  <2>2. s = IF wq[m] = <<>> THEN sch ELSE chSchReadyI(sch, Head(wq[m]))
    OBVIOUS
  <2> HIDE DEF s
  <2> QED BY <1>2, <1>5, <2>1, <2>2, GrantFacts, SMTT(60)
<1>7. CASE Len(mtxlist[ctp]) > 1 /\ sch' = s /\ UNCHANGED pc
  <2>1. sch'.prio = [sch.prio EXCEPT ![ctp] = sch.prio[ctp]] /\ sch.prio[ctp] \in Priorities
    BY <1>2, <1>6, <1>7, Zenon
  <2>2. \A t \in Threads : IF sch.state[t] \in {"READY", "CURRENT"} \/ t = NewOwner(m)
                           THEN sch'.state[t] \in {"READY", "CURRENT"}
                           ELSE sch'.state[t] = sch.state[t]
    BY <1>6, <1>7, ZenonT(60)
  <2>3. ~SetPrioOwning => \A n \in Range(Tail(mtxlist[ctp])) : \A w \in Range(wq[n]) :
                             sch.prio[w] <= sch.prio[ctp]
    BY <1>1, <1>4, PrioKeptFacts, SMTT(30)
  <2>4. SchedOK(sch') /\ sch'.u = sch.u /\ sch'.current = ctp
    BY <1>6, <1>7, Zenon
  <2>5. pc' \in [Threads -> Pcs] /\ (\A t \in Threads : pc'[t] = pc[t]) /\ pc'[ctp] = "unlockall"
    BY <1>1, <1>4, <1>7, SMTT(30)
  <2> HIDE DEF s
  <2>6. LockInv' /\ Given(m, NewOwner(m), sch.prio[ctp])
    BY <1>1, <1>4, <1>7, <2>1, <2>2, <2>3, <2>4, <2>5, HandOverStep, ZenonT(60)
  <2>7. ASSUME BoostInv PROVE PrioLeft(m, sch.prio[ctp])
    BY <1>2, <2>5, <2>7, Zenon DEF PrioLeft, BoostInv
  <2> QED BY <2>6, <2>7, Zenon DEF Dropped
<1>8. CASE /\ Len(mtxlist[ctp]) = 1 /\ pc' = [pc EXCEPT ![ctp] = "run"]
           /\ sch' = chSchRescheduleS([s EXCEPT !.prio[ctp] = realprio[ctp]])
  <2> HIDE DEF s, m
  <2> DEFINE r == [s EXCEPT !.prio[ctp] = realprio[ctp]]
  <2>1. s.state[ctp] = "CURRENT" /\ s \in SchedState /\ ListOK(s)
    BY <1>2, <1>6, Zenon DEF SchedOK, ListOK
  <2>2. ListOK(r)
    BY <1>2, <1>4, <2>1, FieldFacts, ZenonT(30)
  <2>3. r.state = s.state /\ r.current = ctp /\ r.u = sch.u
        /\ r.prio = [sch.prio EXCEPT ![ctp] = realprio[ctp]]
    BY <1>6, <2>1, ZenonT(60) DEF SchedState
  <2> HIDE DEF r
  <2>4. SchedOK(r)
    BY <1>6, <2>2, <2>3, SMTT(60) DEF SchedOK
  <2>5. SchedOK(sch') /\ PriorityOrder(sch') /\ Switched(r, sch')
    BY <1>8, <2>4, SwitchFacts, Zenon DEF r
  <2>6. sch'.u = sch.u /\ sch'.prio = [sch.prio EXCEPT ![ctp] = realprio[ctp]]
    BY <2>3, <2>5, ZenonT(30) DEF Switched
  <2>7. \A t \in Threads : IF sch.state[t] \in {"READY", "CURRENT"} \/ t = NewOwner(m)
                            THEN sch'.state[t] \in {"READY", "CURRENT"}
                            ELSE sch'.state[t] = sch.state[t]
    BY <1>6, <2>3, <2>5, SMTT(60) DEF Switched
  <2>8. Range(Tail(mtxlist[ctp])) = {}
    <3>1. Len(Tail(mtxlist[ctp])) = 0
      BY <1>4, <1>8, SMTT(60)
    <3> QED BY <1>4, <3>1, SMTT(60) DEF Range
  <2>9. pc' \in [Threads -> Pcs] /\ pc'[ctp] = "run" /\ \A t \in Threads \ {ctp} : pc'[t] = pc[t]
    BY <1>2, <1>4, <1>8, Zenon DEF Pcs
  <2>10. LockInv' /\ Given(m, NewOwner(m), realprio[ctp])
    BY <1>1, <1>4, <2>5, <2>6, <2>7, <2>8, <2>9, HandOverStep, ZenonT(60) DEF m
  <2>11. realprio[ctp] <= realprio[ctp]
    BY <1>4, SchedAssumption DEF Priorities, IDLEPRIO
  <2>12. PrioLeft(m, realprio[ctp])
    BY <2>11, Zenon DEF PrioLeft
  <2> QED BY <2>10, <2>12, Zenon DEF Dropped
<1> QED BY <1>7, <1>8, ZenonT(30) DEF UnlockAllStep

-----------------------------------------------------------------------------
(* Boosts and lock orders *)

\* The moves and chThdSetPriority leave no boost without its cause.
LEMMA MovedBoost ==
  ASSUME LockInv, LockInv', BoostInv, Moved
  PROVE  BoostInv'
<1>1. /\ ctp \in Threads /\ \A o \in Objects : ctp \notin Range(wq[o])
      /\ wq \in [Objects -> Seq(Threads)] /\ realprio' \in [Threads -> Priorities]
  BY InvFacts, Zenon DEF LockInv, MtxTypeOK
<1>2. /\ pc[ctp] = "run" /\ UNCHANGED <<wq, owner, pc, mp, tp>>
      /\ \A t \in Threads \ {ctp} : sch'.prio[t] = sch.prio[t] /\ realprio'[t] = realprio[t]
      /\ \/ sch'.prio[ctp] = sch.prio[ctp] /\ realprio'[ctp] = realprio[ctp]
         \/ sch'.prio[ctp] = sch.prio[ctp] /\ sch.prio[ctp] # realprio[ctp] /\ realprio'[ctp] <= sch.prio[ctp]
         \/ sch'.prio[ctp] = realprio'[ctp]
  BY Zenon DEF Moved
<1>3. /\ tp = NULL
      /\ \A t \in Threads : /\ realprio[t] <= sch.prio[t]
                            /\ sch.prio[t] = realprio[t] \/ WaitedFor(t, sch.prio[t])
  BY <1>2, Settled, Zenon
<1>4. \A m \in Mutexes : \A w \in Range(wq[m]) : w \in Threads \ {ctp} /\ sch'.prio[w] = sch.prio[w]
  <2> TAKE m \in Mutexes
  <2> TAKE w \in Range(wq[m])
  <2>1. m \in Objects /\ wq[m] \in Seq(Threads)
    BY <1>1, MtxAssumption, Zenon
  <2>2. w \in Threads
    BY <2>1 DEF Range
  <2> QED BY <1>1, <1>2, <2>1, <2>2, Zenon
<1>5. realprio'[ctp] <= realprio'[ctp]
  BY <1>1, SchedAssumption DEF Priorities, IDLEPRIO
<1>6. ASSUME NEW t \in Threads
      PROVE  /\ realprio'[t] <= sch'.prio[t]
             /\ \/ sch'.prio[t] = realprio'[t]
                \/ \E m \in Mutexes : owner[m] = t /\ \E w \in Range(wq[m]) : sch'.prio[w] = sch'.prio[t]
  <2>1. CASE sch'.prio[t] = sch.prio[t] /\ (sch.prio[t] # realprio[t] \/ realprio'[t] = realprio[t])
             /\ realprio'[t] <= sch.prio[t]
    BY <1>3, <1>4, <2>1, SMTT(20) DEF WaitedFor
  <2>2. CASE sch'.prio[t] = realprio'[t] /\ t = ctp
    BY <1>5, <2>2, Zenon
  <2> QED BY <1>2, <1>3, <2>1, <2>2, Zenon
<1> QED BY <1>2, <1>3, <1>6, Zenon DEF BoostInv, WaitedFor

\* A step that only takes a free mutex or begins a lock.
LEMMA KeptBoost ==
  ASSUME LockInv, BoostInv, Kept
  PROVE  BoostInv'
<1>1. /\ pc[ctp] \in {"run", "mtxwait"} /\ UNCHANGED <<sch, wq, realprio>>
      /\ \A n \in Mutexes : owner'[n] = owner[n] \/ (owner[n] = NULL /\ owner'[n] = ctp)
      /\ tp' = tp \/ tp' = owner'[mp'[ctp]]
  BY Zenon DEF Kept
<1>2. /\ tp = NULL
      /\ \A t \in Threads : /\ realprio[t] <= sch.prio[t]
                            /\ sch.prio[t] = realprio[t] \/ WaitedFor(t, sch.prio[t])
  BY <1>1, Settled, Zenon
<1>3. ASSUME NEW t \in Threads
      PROVE  \/ sch.prio[t] = realprio[t]
             \/ \E m \in Mutexes : owner'[m] = t /\ \E w \in Range(wq[m]) : sch.prio[w] = sch.prio[t]
  <2>1. t # NULL
    BY MtxAssumption, Zenon
  <2> QED BY <1>1, <1>2, <2>1, SMTT(20) DEF WaitedFor
<1> QED BY <1>1, <1>2, <1>3, SMTT(20) DEF BoostInv, WaitedFor, ctp

\* One iteration of the inheritance loop.
LEMMA RaisedBoost ==
  ASSUME LockInv, BoostInv, Raised
  PROVE  BoostInv'
<1>1. /\ pc[ctp] = "boost" /\ tp \in Threads \ {ctp} /\ sch.prio[tp] < sch.prio[ctp]
      /\ tp' = NextToBoost /\ sch'.current = ctp
      /\ UNCHANGED <<realprio, owner, pc, mp>>
      /\ \A o \in Objects : Range(wq'[o]) = Range(wq[o])
  BY Zenon DEF Raised
<1>2. sch'.prio[tp] = sch.prio[ctp] /\ \A x \in Threads \ {tp} : sch'.prio[x] = sch.prio[x]
  BY Zenon DEF Raised
<1>3. /\ ctp \in Threads /\ sch.prio \in [Threads -> Nat] /\ wq \in [Objects -> Seq(Threads)]
      /\ realprio \in [Threads -> Priorities] /\ Priorities \subseteq Nat
      /\ \A t \in Threads, o \in Objects :
              sch.state[t] = "WTMTX" /\ sch.u[t] = o <=> t \in Range(wq[o])
  <2>1. Priorities \subseteq Nat
    BY SchedAssumption DEF Priorities, IDLEPRIO
  <2> QED BY <2>1, InvFacts, Zenon DEF LockInv, MtxTypeOK
<1>4. \A m \in Mutexes : m \in Objects /\ Range(wq'[m]) = Range(wq[m]) /\ Range(wq[m]) \subseteq Threads
  <2> TAKE m \in Mutexes
  <2>1. m \in Objects /\ wq[m] \in Seq(Threads)
    BY <1>3, MtxAssumption, Zenon
  <2>2. Range(wq[m]) \subseteq Threads
    BY <2>1 DEF Range
  <2> QED BY <1>1, <2>1, <2>2, Zenon
<1>5. sch.prio[tp] # sch.prio[ctp] /\ sch'.prio[ctp] = sch.prio[ctp]
  <2>1. sch.prio[tp] \in Nat /\ sch.prio[ctp] \in Nat
    BY <1>1, <1>3, Zenon
  <2>2. sch.prio[tp] # sch.prio[ctp]
    BY <1>1, <2>1
  <2> QED BY <1>1, <1>2, <1>3, <2>2, Zenon
<1>6. ASSUME NEW t \in Threads PROVE realprio[t] <= sch'.prio[t]
  <2>1. realprio[t] <= sch.prio[t] /\ realprio[t] \in Nat /\ sch.prio[t] \in Nat /\ sch.prio[ctp] \in Nat
    BY <1>3, Zenon DEF BoostInv
  <2>2. CASE t = tp
    BY <1>1, <1>2, <2>1, <2>2
  <2>3. CASE t # tp
    BY <1>2, <2>1, <2>3, Zenon
  <2> QED BY <2>2, <2>3, Zenon
\* The raised thread's cause: the mutex being locked, or a waiter raised before.
<1>7. tp = owner[mp[ctp]] \/ WaitedFor(tp, sch.prio[ctp])
  BY <1>1, MtxAssumption, Zenon DEF BoostInv
<1>8. \/ tp = owner[mp[ctp]]
      \/ \E m \in Mutexes : owner[m] = tp /\ \E w \in Range(wq'[m]) : sch'.prio[w] = sch'.prio[tp]
  BY <1>2, <1>4, <1>5, <1>7, Zenon DEF WaitedFor
\* The next thread's cause is the thread that was just raised.
<1>9. ASSUME tp' # NULL
      PROVE  \E m \in Mutexes : owner[m] = tp' /\ \E w \in Range(wq'[m]) : sch'.prio[w] = sch'.prio[ctp]
  <2>1. sch.state[tp] = "WTMTX" /\ tp' = owner[sch.u[tp]]
    BY <1>1, <1>9, Zenon DEF NextToBoost
  <2>2. sch.u[tp] \in Mutexes
    BY <1>1, <2>1, PcFacts, Zenon DEF LockInv
  <2>3. tp \in Range(wq'[sch.u[tp]])
    BY <1>1, <1>3, <1>4, <2>1, <2>2, SMTT(20)
  <2> QED BY <1>2, <1>5, <2>1, <2>2, <2>3, Zenon
<1>10. ASSUME NEW t \in Threads
       PROVE  \/ sch'.prio[t] = realprio[t]
              \/ \E m \in Mutexes : owner[m] = t /\ \E w \in Range(wq'[m]) : sch'.prio[w] = sch'.prio[t]
              \/ t = tp' /\ sch'.prio[t] < sch'.prio[ctp]
              \/ t = owner[mp[ctp]] /\ sch'.prio[t] = sch'.prio[ctp]
  <2>1. CASE t = tp
    BY <1>2, <1>5, <1>8, <2>1, Zenon
  <2>2. CASE t # tp
    <3>1. sch'.prio[t] = sch.prio[t]
      BY <1>2, <2>2, Zenon
    <3>2. \/ sch.prio[t] = realprio[t]
          \/ WaitedFor(t, sch.prio[t])
          \/ t = owner[mp[ctp]] /\ sch.prio[t] = sch.prio[ctp]
      BY <1>1, <2>2, Zenon DEF BoostInv
    <3>3. CASE WaitedFor(t, sch.prio[t])
      <4>1. PICK m \in Mutexes : owner[m] = t /\ \E w \in Range(wq[m]) : sch.prio[w] = sch.prio[t]
        BY <3>3, Zenon DEF WaitedFor
      <4>2. PICK w \in Range(wq[m]) : sch.prio[w] = sch.prio[t]
        BY <4>1, Zenon
      <4>3. CASE w # tp
        BY <1>2, <1>4, <3>1, <4>1, <4>2, <4>3, SMTT(20)
      <4>4. CASE w = tp
        <5>1. sch.state[tp] = "WTMTX" /\ sch.u[tp] = m
          BY <1>1, <1>3, <1>4, <4>2, <4>4, Zenon
        <5>2. t = tp'
          BY <1>1, <4>1, <5>1, Zenon DEF NextToBoost
        <5>3. sch'.prio[t] < sch'.prio[ctp]
          BY <1>1, <1>5, <3>1, <4>2, <4>4, Zenon
        <5> QED BY <5>2, <5>3, Zenon
      <4> QED BY <4>3, <4>4, Zenon
    <3> QED BY <1>5, <3>1, <3>2, <3>3, Zenon
  <2> QED BY <2>1, <2>2, Zenon
<1> QED BY <1>1, <1>6, <1>9, <1>10, SMTT(20) DEF BoostInv, WaitedFor, ctp

\* The locker queues itself and becomes the cause of the owner's priority.
LEMMA QueuedBoost ==
  ASSUME LockInv, BoostInv, Queued
  PROVE  BoostInv'
<1>1. /\ pc[ctp] = "boost" /\ ~BoostNeeded /\ mp[ctp] \in Mutexes
      /\ tp' = NULL /\ UNCHANGED <<realprio, owner, mp>> /\ sch'.prio = sch.prio
      /\ ctp \in Range(wq'[mp[ctp]]) /\ \A o \in Objects : Range(wq[o]) \subseteq Range(wq'[o])
  BY Zenon DEF Queued
<1>2. ASSUME NEW t \in Threads
      PROVE  /\ realprio[t] <= sch.prio[t]
             /\ \/ sch.prio[t] = realprio[t]
                \/ \E m \in Mutexes : owner[m] = t /\ \E w \in Range(wq'[m]) : sch.prio[w] = sch.prio[t]
  <2>1. /\ realprio[t] <= sch.prio[t]
        /\ \/ sch.prio[t] = realprio[t]
           \/ WaitedFor(t, sch.prio[t])
           \/ t = tp /\ sch.prio[t] < sch.prio[ctp]
           \/ t = owner[mp[ctp]] /\ sch.prio[t] = sch.prio[ctp]
    BY <1>1, Zenon DEF BoostInv
  <2>2. ~(t = tp /\ sch.prio[t] < sch.prio[ctp])
    BY <1>1, MtxAssumption, Zenon DEF BoostNeeded
  <2>3. CASE WaitedFor(t, sch.prio[t])
    BY <1>1, <2>1, <2>3, MtxAssumption, Zenon DEF WaitedFor
  <2>4. CASE t = owner[mp[ctp]] /\ sch.prio[t] = sch.prio[ctp]
    BY <1>1, <2>1, <2>4, Zenon
  <2> QED BY <2>1, <2>2, <2>3, <2>4, Zenon
<1> QED BY <1>1, <1>2, SMTT(20) DEF BoostInv, WaitedFor

\* A hand-over takes the first waiter's boost from the thread that gives.
LEMMA GivenBoost ==
  ASSUME LockInv, BoostInv, NEW m, NEW h, NEW p, Given(m, h, p), PrioLeft(m, p)
  PROVE  BoostInv'
<1>1. /\ m \in Mutexes /\ owner[m] = ctp /\ UNCHANGED realprio /\ tp = NULL /\ tp' = NULL
      /\ \A o \in Objects \ {m} : wq'[o] = wq[o]
      /\ \A n \in Mutexes \ {m} : owner'[n] = owner[n]
      /\ sch'.prio[ctp] = p /\ \A x \in Threads \ {ctp} : sch'.prio[x] = sch.prio[x]
      /\ pc[ctp] \in {"run", "unlockall"}
      /\ pc'[ctp] = "unlockall" => sch'.current = ctp
  BY Zenon DEF Given
<1>2. /\ ctp \in Threads /\ \A o \in Objects : ctp \notin Range(wq[o])
      /\ wq \in [Objects -> Seq(Threads)]
  BY InvFacts, Zenon DEF LockInv, MtxTypeOK
<1>3. \A n \in Mutexes \ {m} : wq'[n] = wq[n] /\ \A w \in Range(wq[n]) : sch'.prio[w] = sch.prio[w]
  <2> TAKE n \in Mutexes \ {m}
  <2>1. n \in Objects /\ wq[n] \in Seq(Threads)
    BY <1>2, MtxAssumption, Zenon
  <2>2. Range(wq[n]) \subseteq Threads
    BY <2>1 DEF Range
  <2> QED BY <1>1, <1>2, <2>1, <2>2, Zenon
<1>4. ASSUME NEW t \in Threads
      PROVE  /\ realprio[t] <= sch'.prio[t]
             /\ \/ sch'.prio[t] = realprio[t]
                \/ \E n \in Mutexes : owner'[n] = t /\ \E w \in Range(wq'[n]) : sch'.prio[w] = sch'.prio[t]
                \/ t = sch'.current /\ pc'[t] = "unlockall"
  <2>1. CASE t = ctp
    BY <1>1, <1>3, <2>1, Zenon DEF PrioLeft
  <2>2. CASE t # ctp
    <3>1. t # tp
      BY <1>1, MtxAssumption, Zenon
    <3>2. /\ realprio[t] <= sch.prio[t]
          /\ sch.prio[t] = realprio[t] \/ WaitedFor(t, sch.prio[t])
      BY <1>1, <2>2, <3>1, Zenon DEF BoostInv
    <3>3. sch'.prio[t] = sch.prio[t]
      BY <1>1, <2>2, Zenon
    <3>4. CASE WaitedFor(t, sch.prio[t])
      <4>1. PICK n \in Mutexes : owner[n] = t /\ \E w \in Range(wq[n]) : sch.prio[w] = sch.prio[t]
        BY <3>4, Zenon DEF WaitedFor
      <4>2. n # m
        BY <1>1, <2>2, <4>1, Zenon
      <4> QED BY <1>1, <1>3, <3>2, <3>3, <4>1, <4>2, Zenon
    <3> QED BY <3>2, <3>3, <3>4, Zenon
  <2> QED BY <2>1, <2>2, Zenon
<1> QED BY <1>1, <1>4, Zenon DEF BoostInv, WaitedFor, ctp

\* Who waits in the order keeps doing so when it gets no mutex.
LEMMA StillAsked ==
  ASSUME LockInv, AskedInv, NEW t \in Threads,
         pc[t] = "boost" \/ sch.state[t] = "WTMTX", mp'[t] = mp[t],
         \A n \in Mutexes : owner'[n] = t => owner[n] = t
  PROVE  /\ owner'[mp'[t]] # t
         /\ \A n \in Mutexes : owner'[n] = t => <<n, mp'[t]>> \in LockOrder
<1>1. mp[t] \in Mutexes
  BY PcFacts, Zenon DEF LockInv
<1> QED BY <1>1, Zenon DEF AskedInv

\* The lock order through the moves of threads, the loop, the sleep and the
\* hand-overs.
LEMMA AskedStep ==
  ASSUME LockInv, AskedInv, Moved \/ Raised \/ Queued \/ (\E m : Dropped(m))
  PROVE  AskedInv'
<1> SUFFICES ASSUME NEW t \in Threads, pc'[t] = "boost" \/ sch'.state[t] = "WTMTX"
             PROVE  /\ owner'[mp'[t]] # t
                    /\ \A n \in Mutexes : owner'[n] = t => <<n, mp'[t]>> \in LockOrder
  BY Zenon DEF AskedInv
<1>1. CASE Moved
  BY <1>1, StillAsked, Zenon DEF Moved
<1>2. CASE Raised
  BY <1>2, StillAsked, Zenon DEF Raised
<1>3. CASE Queued
  BY <1>3, StillAsked, Zenon DEF Queued
<1>4. ASSUME NEW m, NEW h, NEW p, Given(m, h, p)
      PROVE  /\ owner'[mp'[t]] # t
             /\ \A n \in Mutexes : owner'[n] = t => <<n, mp'[t]>> \in LockOrder
  <2>1. /\ mp' = mp /\ owner'[m] = h /\ \A n \in Mutexes \ {m} : owner'[n] = owner[n]
        /\ \A x \in Threads \ {ctp} : pc'[x] = pc[x]
        /\ pc'[ctp] \in {"run", "unlockall"} /\ h # ctp /\ (h # NULL => pc[h] = "mtxwait")
        /\ \A x \in Threads : IF sch.state[x] \in {"READY", "CURRENT"} \/ x = h
                              THEN sch'.state[x] \in {"READY", "CURRENT"}
                              ELSE sch'.state[x] = sch.state[x]
    BY <1>4, Zenon DEF Given
  <2>2. t # h
    BY <2>1, MtxAssumption, SMTT(20)
  <2>3. pc[t] = "boost" \/ sch.state[t] = "WTMTX"
    BY <2>1, <2>2, Zenon
  <2> QED BY <2>1, <2>2, <2>3, StillAsked, Zenon
<1> QED BY <1>1, <1>2, <1>3, <1>4, Zenon DEF Dropped

\* A mutex is asked for in the order of MayLock.
LEMMA KeptAsked ==
  ASSUME LockInv, AskedInv, Kept
  PROVE  AskedInv'
<1>1. ctp \in Threads /\ sch.state[ctp] = "CURRENT"
  BY InvFacts, Zenon
<1>2. ASSUME NEW t \in Threads \ {ctp}, pc'[t] = "boost" \/ sch'.state[t] = "WTMTX"
      PROVE  /\ owner'[mp'[t]] # t
             /\ \A n \in Mutexes : owner'[n] = t => <<n, mp'[t]>> \in LockOrder
  <2>1. pc[t] = "boost" \/ sch.state[t] = "WTMTX"
    BY <1>2, Zenon DEF Kept
  <2>2. mp'[t] = mp[t] /\ \A n \in Mutexes : owner'[n] = t => owner[n] = t
    BY Zenon DEF Kept
  <2> QED BY <2>1, <2>2, StillAsked, Zenon
<1>3. ASSUME pc'[ctp] = "boost" \/ sch'.state[ctp] = "WTMTX"
      PROVE  /\ owner'[mp'[ctp]] # ctp
             /\ \A n \in Mutexes : owner'[n] = ctp => <<n, mp'[ctp]>> \in LockOrder
  <2>1. pc'[ctp] = "boost"
    BY <1>1, <1>3, Zenon DEF Kept
  <2> QED BY <2>1, Zenon DEF Kept
<1> QED BY <1>1, <1>2, <1>3, Zenon DEF AskedInv

\* The calls that leave the scheduler and the queues alone.
LEMMA KeptActions ==
  ASSUME LockInv, \/ \E m \in Mutexes : chMtxLock(m) \/ chMtxTryLock(m)
                  \/ LockReturn
                  \/ chMtxUnlockAll
  PROVE  Kept
<1>1. /\ ctp \in Threads /\ ctp # NULL /\ pc \in [Threads -> Pcs]
      /\ mp \in [Threads -> Mutexes \cup {NULL}] /\ owner \in [Mutexes -> Threads \cup {NULL}]
  BY InvFacts, MtxAssumption, SMTT(20) DEF LockInv, MtxTypeOK
<1>2. \A v : /\ [pc EXCEPT ![ctp] = v][ctp] = v /\ [mp EXCEPT ![ctp] = v][ctp] = v
             /\ \A t \in Threads \ {ctp} : /\ [pc EXCEPT ![ctp] = v][t] = pc[t]
                                           /\ [mp EXCEPT ![ctp] = v][t] = mp[t]
  BY <1>1, Zenon
<1>3. ASSUME NEW m \in Mutexes, owner[m] = NULL, TakeMutex(m), pc[ctp] = "run", pc'[ctp] = "run",
             \A t \in Threads \ {ctp} : pc'[t] = pc[t] /\ mp'[t] = mp[t]
      PROVE  Kept
  <2>1. \A n \in Mutexes : owner'[n] = owner[n] \/ (owner[n] = NULL /\ owner'[n] = ctp)
    BY <1>1, <1>3, Zenon DEF TakeMutex
  <2> QED BY <1>3, <2>1, Zenon DEF Kept, TakeMutex
<1>4. ASSUME NEW m \in Mutexes, chMtxLock(m) PROVE Kept
  <2>1. pc[ctp] = "run" /\ chMtxLockS(m) /\ MayLock(m)
    BY <1>4, Zenon DEF chMtxLock, ThreadMode
  <2>2. CASE owner[m] = NULL
    <3>1. TakeMutex(m) /\ pc' = [pc EXCEPT ![ctp] = "run"] /\ mp' = [mp EXCEPT ![ctp] = NULL]
      BY <1>1, <2>1, <2>2, Zenon DEF chMtxLockS
    <3> QED BY <1>2, <1>3, <2>1, <2>2, <3>1, SMTT(20)
  <2>3. CASE owner[m] = ctp
    <3>1. LockAgain(m) /\ pc' = [pc EXCEPT ![ctp] = "run"] /\ mp' = [mp EXCEPT ![ctp] = NULL]
      BY <1>1, <2>1, <2>3, Zenon DEF chMtxLockS
    <3>2. UNCHANGED <<sch, wq, realprio, owner, tp>>
      BY <3>1, Zenon DEF LockAgain
    <3> QED BY <1>2, <2>1, <3>1, <3>2, Zenon DEF Kept
  <2>4. CASE owner[m] \notin {NULL, ctp}
    <3>1. /\ tp' = owner[m] /\ pc' = [pc EXCEPT ![ctp] = "boost"] /\ mp' = [mp EXCEPT ![ctp] = m]
          /\ UNCHANGED <<sch, wq, realprio, owner>>
      BY <2>1, <2>4, Zenon DEF chMtxLockS
    <3>2. \A n \in Mutexes : owner[n] = ctp => <<n, m>> \in LockOrder
      BY <2>1, <2>4, Zenon DEF MayLock
    <3>3. pc'[ctp] = "boost" /\ mp'[ctp] = m /\ \A t \in Threads \ {ctp} : pc'[t] = pc[t] /\ mp'[t] = mp[t]
      BY <1>2, <3>1, Zenon
    <3> QED BY <2>1, <2>4, <3>1, <3>2, <3>3, Zenon DEF Kept
  <2> QED BY <2>2, <2>3, <2>4, Zenon
<1>5. ASSUME NEW m \in Mutexes, chMtxTryLock(m) PROVE Kept
  <2>1. pc[ctp] = "run" /\ UNCHANGED <<pc, mp>>
    BY <1>5, Zenon DEF chMtxTryLock, ThreadMode
  <2>2. CASE owner[m] = NULL /\ TakeMutex(m)
    BY <1>3, <2>1, <2>2, Zenon
  <2>3. CASE UNCHANGED <<sch, wq, realprio, owner, tp>>
    BY <2>1, <2>3, Zenon DEF Kept
  <2> QED BY <1>5, <2>2, <2>3, Zenon DEF chMtxTryLock, LockAgain
<1>6. CASE LockReturn
  <2>1. /\ pc[ctp] = "mtxwait" /\ pc' = [pc EXCEPT ![ctp] = "run"] /\ mp' = [mp EXCEPT ![ctp] = NULL]
        /\ UNCHANGED <<sch, wq, realprio, owner, tp>>
    BY <1>6, Zenon DEF LockReturn
  <2> QED BY <1>2, <2>1, Zenon DEF Kept
<1>7. CASE chMtxUnlockAll
  <2>1. /\ pc[ctp] = "run" /\ pc' = [pc EXCEPT ![ctp] = "unlockall"]
        /\ UNCHANGED <<sch, wq, realprio, owner, mp, tp>>
    BY <1>7, Zenon DEF chMtxUnlockAll, ThreadMode
  <2> QED BY <1>2, <2>1, Zenon DEF Kept
<1> QED BY <1>4, <1>5, <1>6, <1>7, Zenon

-----------------------------------------------------------------------------
(* The theorems *)

\* Every step of the kernel keeps the invariant: the reschedules, boosts and
\* hand-overs of chmtx.c, chthreads.c and the interrupt epilogue together.
LEMMA StepInv ==
  ASSUME MtxInv, [MtxNext]_mtxvars
  PROVE  MtxInv'
<1>1. LockInv /\ BoostInv /\ AskedInv
  BY Zenon DEF MtxInv
<1>2. ASSUME LockInv', Kept PROVE MtxInv'
  BY <1>1, <1>2, KeptBoost, KeptAsked, Zenon DEF MtxInv
<1>3. ASSUME LockInv', NEW m, Dropped(m) PROVE MtxInv'
  <2>1. BoostInv'
    BY <1>1, <1>3, GivenBoost, Zenon DEF Dropped
  <2> QED BY <1>1, <1>3, <2>1, AskedStep, Zenon DEF MtxInv
<1>4. ASSUME NEW m \in Mutexes, chMtxLock(m) \/ chMtxTryLock(m) PROVE MtxInv'
  <2>1. LockInv'
    BY <1>1, <1>4, LockActions, Zenon
  <2>2. Kept
    BY <1>1, <1>4, KeptActions, Zenon
  <2> QED BY <1>2, <2>1, <2>2, Zenon
<1>5. ASSUME NEW m \in Mutexes, chMtxUnlock(m) PROVE MtxInv'
  BY <1>1, <1>2, <1>3, <1>5, UnlockStep, Zenon
<1>6. CASE chMtxUnlockAll
  BY <1>1, <1>2, <1>6, UnlockAllBegins, KeptActions, Zenon
<1>7. CASE chThdYield \/ chThdSuspendS \/ (\E t \in Threads : chThdStart(t))
           \/ (\E p \in NewPrios : chThdSetPriority(p)) \/ MtxIsr \/ IsrReturn
  <2>1. LockInv' /\ Moved
    BY <1>1, <1>7, MoveActions, Zenon DEF MtxIsr
  <2> QED BY <1>1, <2>1, MovedBoost, AskedStep, Zenon DEF MtxInv
<1>8. CASE Boost
  <2>1. LockInv' /\ Raised
    BY <1>1, <1>8, BoostStep, Zenon
  <2> QED BY <1>1, <2>1, RaisedBoost, AskedStep, Zenon DEF MtxInv
<1>9. CASE SleepOnMutex
  <2>1. LockInv' /\ Queued
    BY <1>1, <1>9, SleepStep, Zenon
  <2> QED BY <1>1, <2>1, QueuedBoost, AskedStep, Zenon DEF MtxInv
<1>10. CASE LockReturn
  BY <1>1, <1>2, <1>10, ReturnStep, KeptActions, Zenon
<1>11. CASE UnlockAllStep
  BY <1>1, <1>3, <1>11, UnlockAllIteration, Zenon
<1>12. CASE UNCHANGED mtxvars
  <2>1. UNCHANGED <<sch, wq, realprio, mtxlist, owner, cnt, pc, mp, tp, isr>>
    BY <1>12, ZenonT(30) DEF mtxvars
  <2>2. MtxTypeOK' /\ OwnersMatchStacks'
    BY <1>1, <2>1, ZenonT(60) DEF LockInv, MtxTypeOK, OwnersMatchStacks
  <2>3. QueuesMatchStates'
    BY <1>1, <2>1, ZenonT(60) DEF LockInv, QueuesMatchStates, Waiting, ctp
  <2>4. PcInv'
    BY <1>1, <2>1, ZenonT(60) DEF LockInv, PcInv, ctp
  <2>5. OrderInv' /\ (~SetPrioOwning => InheritInv')
    BY <1>1, <2>1, ZenonT(30) DEF LockInv, OrderInv, InheritInv, ctp
  <2>6. BoostInv'
    BY <1>1, <2>1, ZenonT(30) DEF BoostInv, WaitedFor, ctp
  <2>7. AskedInv'
    BY <1>1, <2>1, Zenon DEF AskedInv
  <2> QED BY <2>2, <2>3, <2>4, <2>5, <2>6, <2>7, ZenonT(30) DEF MtxInv, LockInv
<1> QED BY <1>4, <1>5, <1>6, <1>7, <1>8, <1>9, <1>10, <1>11, <1>12, ZenonT(30) DEF MtxNext, MtxCall, MtxKernel

\* The first state: nobody waits, and nobody is raised.
LEMMA InitBoost ==
  ASSUME MtxInit
  PROVE  BoostInv /\ AskedInv
<1>1. /\ sch.prio = BasePrio /\ realprio = BasePrio /\ tp = NULL
      /\ BasePrio \in [Threads -> Priorities]
  BY MtxAssumption, Zenon DEF MtxInit
<1>2. \A t \in Threads : BasePrio[t] <= BasePrio[t]
  BY <1>1, SchedAssumption DEF Priorities, IDLEPRIO
<1>3. \A t \in Threads : pc[t] # "boost" /\ sch.state[t] # "WTMTX"
  <2>1. /\ \A t \in Threads : pc[t] = "run"
        /\ sch.state = [t \in Threads |-> CASE t = main -> "CURRENT"
                                            [] t = idle -> "READY"
                                            [] OTHER    -> "WTSTART"]
    BY Zenon DEF MtxInit
  <2>2. \A t \in Threads : sch.state[t] \in {"CURRENT", "READY", "WTSTART"}
    BY <2>1
  <2> QED BY <2>1, <2>2, Zenon
<1>4. BoostInv
  BY <1>1, <1>2, Zenon DEF BoostInv
<1>5. AskedInv
  BY <1>3, Zenon DEF AskedInv
<1> QED BY <1>4, <1>5, Zenon

\* MtxInv is inductive.
THEOREM MtxInvariant == MtxSpec => []MtxInv
<1>1. MtxInit => MtxInv
  BY InitInv, InitBoost, Zenon DEF MtxInv
<1>2. MtxInv /\ [MtxNext]_mtxvars => MtxInv'
  BY StepInv, Zenon
<1> QED BY <1>1, <1>2, PTL DEF MtxSpec

\* Its first part, which most of the theorems need.
LEMMA LockInvariant == MtxSpec => []LockInv
<1>1. MtxInv => LockInv
  BY Zenon DEF MtxInv
<1> QED BY <1>1, MtxInvariant, PTL


\* The kernel's fields keep their types under every interleaving of threads
\* and interrupt handlers.
THEOREM TypeCorrectness == MtxSpec => []MtxTypeOK
<1>1. LockInv => MtxTypeOK
  BY Zenon DEF LockInv
<1> QED BY <1>1, LockInvariant, PTL

\* A thread is in exactly the list that its state and its u field name, as the
\* dequeue operations of chschd.c rely on.
THEOREM QueueConsistency == MtxSpec => []QueuesMatchStates
<1>1. LockInv => QueuesMatchStates
  BY ZenonT(60) DEF LockInv
<1> QED BY <1>1, LockInvariant, PTL

\* The ready list and the mutex queues stay in priority order through the
\* requeueing of the inheritance loop of chMtxLockS.
THEOREM QueueOrder == MtxSpec => []QueuesSorted
<1>1. LockInv => QueuesSorted
  BY ZenonT(60) DEF LockInv, OrderInv, QueuesSorted
<1> QED BY <1>1, LockInvariant, PTL

\* Stacks, owner fields and nesting counters agree through the hand-overs of
\* the unlock functions.
THEOREM OwnerConsistency == MtxSpec => []OwnersMatchStacks
<1>1. LockInv => OwnersMatchStacks
  BY ZenonT(60) DEF LockInv
<1> QED BY <1>1, LockInvariant, PTL

\* The assertion of chSysUnlock never fails.
THEOREM HighestPriorityRuns == MtxSpec => []RunningIsHighest
<1>1. LockInv => RunningIsHighest
  BY Zenon DEF LockInv, OrderInv, RunningIsHighest, Unlocked
<1> QED BY <1>1, LockInvariant, PTL

\* The assertions at the end of chMtxLockS never fail.
THEOREM SleepersAreGranted == MtxSpec => []GrantedOnResume
<1>1. ASSUME LockInv PROVE GrantedOnResume
  <2>1. ctp \in Threads /\ sch.state[ctp] = "CURRENT"
    BY <1>1, InvFacts, Zenon
  <2> QED BY <1>1, <2>1, ZenonT(30) DEF LockInv, PcInv, GrantedOnResume
<1> QED BY <1>1, LockInvariant, PTL

\* An owner's priority covers its waiters' outside of the inheritance loop.
LEMMA OwnersCover ==
  ASSUME ~SetPrioOwning, LockInv
  PROVE  WaitersInherit
<1> SUFFICES ASSUME Unlocked, NEW m \in Mutexes, NEW w \in Range(wq[m])
             PROVE  sch.prio[owner[m]] >= sch.prio[w]
  BY ZenonT(30) DEF WaitersInherit
<1>1. tp = NULL /\ InheritInv
  BY ZenonT(60) DEF LockInv, PcInv, Unlocked
<1>2. wq[m] \in Seq(Threads) /\ wq[m] # <<>>
  <2>1. wq[m] # <<>>
    BY DEF Range
  <2> QED BY <2>1, MtxAssumption, ZenonT(30) DEF LockInv, MtxTypeOK
<1>3. w \in Threads
  BY <1>2, SMTT(60) DEF Range
<1>4. owner[m] \in Threads
  BY <1>2, SMTT(30) DEF LockInv, MtxTypeOK, OwnersMatchStacks
<1>5. sch.prio[w] <= sch.prio[owner[m]]
  BY <1>1, <1>4, MtxAssumption, ZenonT(60) DEF InheritInv
<1>6. sch.prio \in [Threads -> Nat]
  BY InvFacts, Zenon
<1> QED BY <1>3, <1>4, <1>5, <1>6, ZenonT(30)

\* chmtx.c's promise, where no owner of a mutex lowers its own priority with
\* chThdSetPriority: an owner runs at no less than its waiters' priorities.
THEOREM Inheritance ==
  ASSUME ~SetPrioOwning
  PROVE  MtxSpec => []WaitersInherit
<1>1. LockInv => WaitersInherit
  BY OwnersCover, Zenon
<1> QED BY <1>1, LockInvariant, PTL

\* No boost of chMtxLockS outlives the waiter that caused it, whatever
\* chThdSetPriority does: a priority above a thread's own is that of a thread
\* queued on one of its mutexes.
THEOREM BoostsEnd == MtxSpec => []NoStaleBoost
<1>1. ASSUME MtxInv PROVE NoStaleBoost
  <2> SUFFICES ASSUME Unlocked, NEW t \in Threads
               PROVE  \/ sch.prio[t] <= realprio[t]
                      \/ \E m \in Range(mtxlist[t]) :
                           \E w \in Range(wq[m]) : sch.prio[w] = sch.prio[t]
    BY Zenon DEF NoStaleBoost
  <2>1. realprio[t] <= sch.prio[t] /\ (sch.prio[t] = realprio[t] \/ WaitedFor(t, sch.prio[t]))
    BY <1>1, Settled, Zenon DEF MtxInv, Unlocked
  <2>2. CASE sch.prio[t] = realprio[t]
    BY <2>1, <2>2, Zenon
  <2>3. CASE WaitedFor(t, sch.prio[t])
    BY <1>1, <2>3, Zenon DEF MtxInv, LockInv, OwnersMatchStacks, WaitedFor
  <2> QED BY <2>1, <2>2, <2>3, Zenon
<1> QED BY <1>1, MtxInvariant, PTL

\* Where no owner of a mutex calls chThdSetPriority, a thread's priority is the
\* largest of its own and of those of the threads queued on its mutexes: the
\* loop of chMtxLockS gives enough, the unlock functions take all of it back.
THEOREM InheritanceIsExact ==
  ASSUME ~SetPrioOwning
  PROVE  MtxSpec => []ExactInheritance
<1>1. ASSUME MtxInv PROVE ExactInheritance
  <2> SUFFICES ASSUME Unlocked, NEW t \in Threads
               PROVE  sch.prio[t] = Max({realprio[t]} \cup
                        {sch.prio[w] : w \in UNION {Range(wq[m]) : m \in Range(mtxlist[t])}})
    BY Zenon DEF ExactInheritance
  <2> DEFINE O == UNION {Range(wq[m]) : m \in Range(mtxlist[t])}
             S == {realprio[t]} \cup {sch.prio[w] : w \in O}
  <2>1. LockInv /\ WaitersInherit
    BY <1>1, OwnersCover, Zenon DEF MtxInv
  <2>2. realprio[t] <= sch.prio[t] /\ (sch.prio[t] = realprio[t] \/ WaitedFor(t, sch.prio[t]))
    BY <1>1, Settled, Zenon DEF MtxInv, Unlocked
  <2>3. /\ realprio[t] \in Nat /\ sch.prio \in [Threads -> Nat] /\ HIGHPRIO \in Nat
        /\ realprio[t] <= HIGHPRIO /\ \A x \in Threads : sch.prio[x] <= HIGHPRIO
    <3>1. realprio[t] \in Priorities /\ sch.prio \in [Threads -> Priorities] /\ sch.prio \in [Threads -> Nat]
      BY <2>1, InvFacts, Zenon DEF LockInv, MtxTypeOK
    <3>2. HIGHPRIO \in Nat /\ \A x \in Priorities : x \in Nat /\ x <= HIGHPRIO
      BY SchedAssumption DEF Priorities, IDLEPRIO
    <3> QED BY <3>1, <3>2, Zenon
  <2>4. ASSUME NEW m \in Range(mtxlist[t])
        PROVE  m \in Mutexes /\ owner[m] = t /\ Range(wq[m]) \subseteq Threads
    <3>1. mtxlist[t] \in Seq(Mutexes)
      BY <2>1, Zenon DEF LockInv, MtxTypeOK
    <3>2. m \in Mutexes
      BY <3>1 DEF Range
    <3>3. wq[m] \in Seq(Threads)
      BY <2>1, <3>2, MtxAssumption, Zenon DEF LockInv, MtxTypeOK
    <3>4. Range(wq[m]) \subseteq Threads
      BY <3>3 DEF Range
    <3> QED BY <2>1, <3>2, <3>4, Zenon DEF LockInv, OwnersMatchStacks
  <2>5. O \subseteq Threads
    BY <2>4, Zenon
  <2>6. ASSUME NEW w \in O PROVE sch.prio[w] <= sch.prio[t]
    <3>1. PICK m \in Range(mtxlist[t]) : w \in Range(wq[m])
      BY Zenon
    <3>2. sch.prio[t] >= sch.prio[w]
      BY <2>1, <2>4, <3>1, Zenon DEF WaitersInherit
    <3>3. sch.prio[t] \in Nat /\ sch.prio[w] \in Nat
      BY <2>3, <2>5, Zenon
    <3> QED BY <3>2, <3>3, Zenon
  <2>7. sch.prio[t] \in S
    <3>1. WaitedFor(t, sch.prio[t]) => \E w \in O : sch.prio[w] = sch.prio[t]
      BY <2>1, SMTT(20) DEF WaitedFor, LockInv, OwnersMatchStacks
    <3> QED BY <2>2, <3>1, Zenon
  <2>8. \A y \in S : y <= sch.prio[t]
    BY <2>2, <2>6, Zenon
  <2>9. S \in SUBSET Nat /\ S # {} /\ \A y \in S : y <= HIGHPRIO
    BY <2>3, <2>5, Zenon
  <2> HIDE DEF S
  <2>10. Max(S) \in S /\ \A y \in S : y <= Max(S)
    BY <2>3, <2>9, MaxNat, Zenon
  <2>11. sch.prio[t] <= Max(S) /\ Max(S) <= sch.prio[t] /\ Max(S) \in Nat /\ sch.prio[t] \in Nat
    BY <2>3, <2>7, <2>8, <2>9, <2>10, Zenon
  <2>12. sch.prio[t] = Max(S)
    BY ONLY <2>11
  <2> QED BY <2>12, Zenon DEF S
<1> QED BY <1>1, MtxInvariant, PTL

\* With chMtxLock called upwards in an order of the mutexes there is no deadlock:
\* no threads all wait for mutexes that they own among themselves.  That LockOrder
\* has no cycle is shown by numbers that fall along it.
THEOREM OrderedLocksAreSafe ==
  ASSUME NEW rank \in [Mutexes -> Nat],
         \A m, n \in Mutexes : <<m, n>> \in LockOrder => rank[n] < rank[m]
  PROVE  MtxSpec => []NoDeadlock
<1>1. ASSUME MtxInv PROVE NoDeadlock
  <2> SUFFICES ASSUME NEW D \in (SUBSET Threads) \ {{}},
                      \A t \in D : sch.state[t] = "WTMTX" /\ owner[sch.u[t]] \in D
               PROVE  FALSE
    BY Zenon DEF NoDeadlock
  <2> DEFINE S == {rank[mp[t]] : t \in D}
  <2>1. \A t \in D : t \in Threads /\ mp[t] \in Mutexes /\ owner[mp[t]] \in D /\ rank[mp[t]] \in Nat
    <3> TAKE t \in D
    <3>1. t \in Threads /\ sch.state[t] = "WTMTX" /\ owner[sch.u[t]] \in D
      BY Zenon
    <3>2. mp[t] \in Mutexes /\ sch.u[t] = mp[t]
      BY <1>1, <3>1, PcFacts, Zenon DEF MtxInv, LockInv
    <3> QED BY <3>1, <3>2, Zenon
  <2>2. S \in SUBSET Nat /\ S # {}
    BY <2>1, Zenon
  <2>3. Min(S) \in S /\ \A y \in S : Min(S) <= y
    BY <2>2, MinNat, Zenon
  <2>4. PICK t \in D : Min(S) = rank[mp[t]]
    BY <2>3, Zenon
  \* The owner of what t waits for waits for a mutex further down.
  <2> DEFINE o == owner[mp[t]]
  <2>5. o \in D /\ o \in Threads /\ sch.state[o] = "WTMTX" /\ mp[t] \in Mutexes /\ mp[o] \in Mutexes
    BY <2>1, Zenon
  <2>6. <<mp[t], mp[o]>> \in LockOrder
    BY <1>1, <2>5, Zenon DEF MtxInv, AskedInv
  <2>7. rank[mp[o]] < rank[mp[t]] /\ rank[mp[o]] \in S
    BY <2>5, <2>6, Zenon
  <2>8. rank[mp[t]] <= rank[mp[o]] /\ rank[mp[t]] \in Nat /\ rank[mp[o]] \in Nat
    BY <2>1, <2>3, <2>4, <2>5, <2>7, Zenon
  <2> QED BY ONLY <2>7, <2>8
<1> QED BY <1>1, MtxInvariant, PTL

=============================================================================
