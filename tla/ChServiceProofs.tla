-------------------------- MODULE ChServiceProofs --------------------------
(***************************************************************************)
(* Events, the life of threads and pipes: the invariants of ChEvt, ChThd   *)
(* and ChPipe for any number of threads, events, listeners, working areas  *)
(* and users, and any size of a pipe's buffer.                             *)
(***************************************************************************)
EXTENDS ChEvt, ChThd, ChPipe, FiniteSetTheorems, WellFoundedInduction, TLAPS

\* A non-empty set of naturals has a least element.
LEMMA LeastElement ==
  ASSUME NEW S \in SUBSET Nat, S # {}
  PROVE  \E x \in S : \A y \in S : x <= y
<1> DEFINE R == OpToRel(<, Nat)
<1>1. IsWellFoundedOn(R, Nat)
  BY NatLessThanWellFounded, Zenon
<1>2. \A x, y \in Nat : y < x => <<y, x>> \in R
  BY DEF OpToRel
<1> HIDE DEF R
<1>3. PICK x \in S : \A y \in S : ~ (<<y, x>> \in R)
  BY <1>1, WFMin, Zenon
<1>4. ASSUME NEW y \in S PROVE x <= y
  <2>1. x \in Nat /\ y \in Nat
    OBVIOUS
  <2>2. ~(y < x)
    BY <2>1, <1>2, <1>3, Zenon
  <2> QED
    BY <2>1, <2>2
<1> QED
  BY <1>4

\* What unlinking an element leaves of a list without repetitions.
LEMMA WithoutFacts ==
  ASSUME NEW S, NEW q \in Seq(S), NEW t \in Range(q)
  PROVE  /\ Without(q, t) \in Seq(S)
         /\ Range(Without(q, t)) \subseteq Range(q)
         /\ IsInjective(q) => /\ IsInjective(Without(q, t))
                              /\ Range(Without(q, t)) = Range(q) \ {t}
<1> DEFINE n == CHOOSE i \in DOMAIN q : q[i] = t
           w == Without(q, t)
           at(i) == IF i < n THEN i ELSE i + 1
<1>1. n \in 1 .. Len(q) /\ q[n] = t /\ DOMAIN q = 1 .. Len(q)
  BY DEF Range
<1>2. w = [i \in 1 .. Len(q) - 1 |-> IF i < n THEN q[i] ELSE q[i + 1]]
  BY DEF Without
<1> HIDE DEF n, w
<1>3. Len(q) \in Nat /\ Len(q) - 1 \in Nat
  BY <1>1
<1>4. /\ \A i \in 1 .. Len(q) - 1 : at(i) \in 1 .. Len(q) /\ at(i) # n /\ w[i] = q[at(i)]
      /\ \A i, j \in 1 .. Len(q) - 1 : at(i) = at(j) => i = j
      /\ \A k \in 1 .. Len(q) : k # n => \E i \in 1 .. Len(q) - 1 : at(i) = k
  <2>1. \A i \in 1 .. Len(q) - 1 : at(i) \in 1 .. Len(q) /\ at(i) # n
    BY <1>1, <1>3
  <2>2. \A i \in 1 .. Len(q) - 1 : w[i] = q[at(i)]
    BY <1>2
  <2>3. \A i, j \in 1 .. Len(q) - 1 : at(i) = at(j) => i = j
    BY <1>1, <1>3
  <2>4. ASSUME NEW k \in 1 .. Len(q), k # n PROVE \E i \in 1 .. Len(q) - 1 : at(i) = k
    <3>1. CASE k < n
      BY <1>1, <1>3, <3>1
    <3>2. CASE k > n
      <4>1. k - 1 \in 1 .. Len(q) - 1 /\ at(k - 1) = k
        BY <1>1, <1>3, <3>2
      <4> QED
        BY <4>1
    <3> QED
      BY <1>1, <2>4, <3>1, <3>2
  <2> QED
    BY <2>1, <2>2, <2>3, <2>4
<1> HIDE DEF at
<1>5. w \in Seq(S) /\ Len(w) = Len(q) - 1 /\ DOMAIN w = 1 .. Len(q) - 1
  <2>1. \A i \in 1 .. Len(q) - 1 : w[i] \in S
    BY <1>4
  <2> QED
    BY <1>2, <1>3, <2>1
<1>6. Range(w) \subseteq Range(q)
  <2>1. \A i \in 1 .. Len(q) - 1 : \E k \in 1 .. Len(q) : w[i] = q[k]
    BY <1>4
  <2>2. ASSUME NEW x \in Range(w) PROVE x \in Range(q)
    <3>1. PICK i \in 1 .. Len(q) - 1 : x = w[i]
      BY <1>5, <2>2 DEF Range
    <3>2. PICK k \in 1 .. Len(q) : w[i] = q[k]
      BY <2>1
    <3> QED
      BY <1>1, <3>1, <3>2 DEF Range
  <2> QED
    BY <2>2
<1>7. ASSUME IsInjective(q)
      PROVE  IsInjective(w) /\ Range(w) = Range(q) \ {t}
  <2>1. \A i, j \in 1 .. Len(q) : q[i] = q[j] => i = j
    BY <1>1, <1>7 DEF IsInjective
  <2>2. \A i, j \in 1 .. Len(q) - 1 : w[i] = w[j] => i = j
    BY <1>4, <2>1, Zenon
  <2>3. IsInjective(w)
    BY <1>5, <2>2 DEF IsInjective
  <2>4. t \notin Range(w)
    <3>1. ASSUME NEW i \in 1 .. Len(q) - 1 PROVE w[i] # t
      BY <1>1, <1>4, <2>1
    <3> QED
      BY <1>5, <3>1 DEF Range
  <2>5. ASSUME NEW x \in Range(q), x # t PROVE x \in Range(w)
    <3>1. PICK k \in 1 .. Len(q) : q[k] = x
      BY <1>1, <2>5 DEF Range
    <3>2. PICK i \in 1 .. Len(q) - 1 : at(i) = k
      BY <1>1, <1>4, <2>5, <3>1
    <3> QED
      BY <1>4, <1>5, <3>1, <3>2, Zenon DEF Range
  <2> QED
    BY <1>6, <2>3, <2>4, <2>5
<1> QED
  BY <1>5, <1>6, <1>7 DEF w

-----------------------------------------------------------------------------
(* Events *)

WaitRecords == [at : {"out", "asleep", "ready"}, op : {"one", "any", "all"},
                mask : SUBSET Events, rdymsg : {"MSG_OK", "MSG_TIMEOUT"}]
ListenerRecords == [listener : Waiters, events : SUBSET Events,
                    flags : SUBSET Flags, wflags : SUBSET Flags]

EvtTypeOK ==
  /\ epending \in [Waiters -> SUBSET Events]
  /\ wait \in [Waiters -> WaitRecords]
  /\ source \in Seq(Listeners)
  /\ listener \in [Listeners -> ListenerRecords]

\* Inductive: who waits waits for something.
EvtInv ==
  /\ EvtTypeOK
  /\ \A t \in Waiters : wait[t].at # "out" => wait[t].mask # {}
  /\ NoEventMissed

\* What it says of one thread.
WaitOK(w, pending) ==
  /\ w.at # "out" => w.mask # {}
  /\ w.at = "asleep" => ~Satisfied(w.op, w.mask, pending)
  /\ w.at = "ready" /\ w.rdymsg = "MSG_OK" => Satisfied(w.op, w.mask, pending)

\* A wait that is satisfied takes something: chEvtWaitOne has a lowest event.
LEMMA SomethingTaken ==
  ASSUME NEW op \in {"one", "any", "all"}, NEW mask \in SUBSET Events, mask # {},
         NEW pending \in SUBSET Events, Satisfied(op, mask, pending)
  PROVE  Taken(op, mask, pending) # {}
<1>1. CASE op = "all"
  BY <1>1 DEF Taken
<1>2. CASE op = "any"
  BY <1>2 DEF Taken, Satisfied
<1>3. CASE op = "one"
  <2>1. mask \cap pending # {} /\ mask \cap pending \subseteq Nat
    BY <1>3, EvtAssumption DEF Satisfied
  <2>2. PICK e \in mask \cap pending : \A f \in mask \cap pending : e <= f
    BY <2>1, LeastElement, Zenon
  <2>3. Taken(op, mask, pending) = {x \in mask \cap pending : \A f \in mask \cap pending : x <= f}
    BY <1>3, Zenon DEF Taken
  <2> QED
    BY <2>2, <2>3
<1> QED
  BY <1>1, <1>2, <1>3

\* The invariant, thread by thread.
LEMMA EvtInvIs ==
  ASSUME EvtTypeOK
  PROVE  EvtInv <=> \A t \in Waiters : WaitOK(wait[t], epending[t])
<1>1. ASSUME NEW t \in Waiters, WaitOK(wait[t], epending[t]), wait[t].at = "ready"
      PROVE  wait[t].rdymsg = "MSG_OK" => Taken(wait[t].op, wait[t].mask, epending[t]) # {}
  BY <1>1, SomethingTaken, ZenonT(60) DEF EvtTypeOK, WaitRecords, WaitOK
<1> QED
  BY <1>1 DEF EvtInv, NoEventMissed, WaitOK

\* What holds of the waits after a step that keeps them right.
Kept ==
  /\ epending' \in [Waiters -> SUBSET Events] /\ wait' \in [Waiters -> WaitRecords]
  /\ \A t \in Waiters : WaitOK(wait'[t], epending'[t])

\* Such a step keeps the invariant.
LEMMA KeptIsInv ==
  ASSUME Kept, listener' \in [Listeners -> ListenerRecords], source' \in Seq(Listeners)
  PROVE  EvtInv'
<1>1. EvtTypeOK'
  BY DEF Kept, EvtTypeOK
<1>2. ASSUME NEW t \in Waiters, wait'[t].at = "ready", wait'[t].rdymsg = "MSG_OK"
      PROVE  Taken(wait'[t].op, wait'[t].mask, epending'[t]) # {}
  BY <1>1, <1>2, SomethingTaken, SMTT(60) DEF EvtTypeOK, WaitRecords, Kept, WaitOK
<1> QED
  BY <1>1, <1>2, Zenon DEF EvtInv, NoEventMissed, WaitOK, Kept

\* Signals wake the threads that have what they wait for, and no other; what a
\* thread has been woken for stays.
LEMMA SignalledKeeps ==
  ASSUME EvtInv, NEW events \in [Waiters -> SUBSET Events], Signalled(events)
  PROVE  Kept
<1>1. EvtTypeOK /\ \A t \in Waiters : WaitOK(wait[t], epending[t])
  BY EvtInvIs DEF EvtInv
<1>2. epending' = [t \in Waiters |-> epending[t] \cup events[t]]
  BY Zenon DEF Signalled
<1>3. epending' \in [Waiters -> SUBSET Events]
  BY <1>1, <1>2 DEF EvtTypeOK
<1>4. ASSUME NEW t \in Waiters
      PROVE  wait'[t] \in WaitRecords /\ WaitOK(wait'[t], epending'[t])
  <2>1. wait'[t] = IF /\ wait[t].at = "asleep" /\ events[t] # {}
                      /\ Satisfied(wait[t].op, wait[t].mask, epending'[t])
                   THEN [wait[t] EXCEPT !.at = "ready", !.rdymsg = "MSG_OK"]
                   ELSE wait[t]
    BY Zenon DEF Signalled
  <2>2. wait[t] \in WaitRecords /\ WaitOK(wait[t], epending[t])
    BY <1>1 DEF EvtTypeOK
  <2>3. epending'[t] = epending[t] \cup events[t]
    BY <1>2
  <2>4. CASE /\ wait[t].at = "asleep" /\ events[t] # {}
             /\ Satisfied(wait[t].op, wait[t].mask, epending'[t])
    <3>1. /\ wait'[t] = [wait[t] EXCEPT !.at = "ready", !.rdymsg = "MSG_OK"]
      BY <2>1, <2>4
    <3>2. /\ wait'[t] \in WaitRecords /\ wait'[t].at = "ready"
          /\ wait'[t].op = wait[t].op /\ wait'[t].mask = wait[t].mask
      BY <2>2, <3>1, Zenon DEF WaitRecords
    <3> QED
      BY <2>2, <2>4, <3>2 DEF WaitOK
  <2>5. CASE ~(/\ wait[t].at = "asleep" /\ events[t] # {}
               /\ Satisfied(wait[t].op, wait[t].mask, epending'[t]))
    <3>1. wait'[t] = wait[t]
      BY <2>1, <2>5
    <3>2. events[t] = {} => epending'[t] = epending[t]
      BY <2>3
    <3>3. Satisfied(wait[t].op, wait[t].mask, epending[t])
            => Satisfied(wait[t].op, wait[t].mask, epending'[t])
      BY <2>3 DEF Satisfied
    <3> QED
      BY <2>2, <2>5, <3>1, <3>2, <3>3 DEF WaitOK
  <2> QED
    BY <2>4, <2>5
<1>5. wait' \in [Waiters -> WaitRecords]
  BY <1>4, Zenon DEF Signalled
<1> QED
  BY <1>3, <1>4, <1>5 DEF Kept

\* A step of the thread t alone, outside or back outside of its wait, or into it.
LEMMA OwnStepKeeps ==
  ASSUME EvtInv, NEW t \in Waiters, NEW w \in WaitRecords, NEW pending \in SUBSET Events,
         WaitOK(w, pending), wait' = [wait EXCEPT ![t] = w],
         epending' = [epending EXCEPT ![t] = pending]
  PROVE  Kept
<1>1. EvtTypeOK /\ \A x \in Waiters : WaitOK(wait[x], epending[x])
  BY EvtInvIs DEF EvtInv
<1>2. epending' \in [Waiters -> SUBSET Events] /\ wait' \in [Waiters -> WaitRecords]
  BY <1>1 DEF EvtTypeOK
<1>3. ASSUME NEW x \in Waiters PROVE WaitOK(wait'[x], epending'[x])
  <2>1. CASE x = t
    BY <1>1, <2>1, Zenon DEF EvtTypeOK
  <2>2. CASE x # t
    BY <1>1, <2>2, Zenon DEF EvtTypeOK
  <2> QED
    BY <2>1, <2>2
<1> QED
  BY <1>2, <1>3 DEF Kept

\* A step that leaves flags and waits alone.
LEMMA QuietKeeps ==
  ASSUME EvtInv, epending' = epending, wait' = wait
  PROVE  Kept
BY EvtInvIs, Zenon DEF EvtInv, EvtTypeOK, Kept

\* The steps of the threads that wait.
LEMMA WaitStep ==
  ASSUME EvtInv, NEW t \in Waiters,
         \/ WaitReturns(t) \/ EvtTimeout(t)
         \/ \E mask \in Masks : \/ chEvtGetAndClearEvents(t, mask) \/ chEvtAddEvents(t, mask)
                                \/ \E op \in {"one", "any", "all"} : Wait(t, op, mask)
  PROVE  Kept /\ UNCHANGED <<source, listener>>
<1>1. EvtTypeOK /\ WaitOK(wait[t], epending[t])
  BY EvtInvIs DEF EvtInv
<1>2. /\ wait \in [Waiters -> WaitRecords] /\ wait[t] \in WaitRecords
      /\ epending \in [Waiters -> SUBSET Events] /\ epending[t] \in SUBSET Events
      /\ wait = [wait EXCEPT ![t] = wait[t]] /\ epending = [epending EXCEPT ![t] = epending[t]]
  BY <1>1 DEF EvtTypeOK
<1>3. NotWaiting \in WaitRecords /\ \A pending \in SUBSET Events : WaitOK(NotWaiting, pending)
  BY DEF NotWaiting, WaitRecords, WaitOK
<1>4. \A pending \in SUBSET Events : wait[t].at = "out" => WaitOK(wait[t], pending)
  BY DEF WaitOK
<1>5. CASE WaitReturns(t)
  <2>1. PICK pending \in SUBSET Events : epending' = [epending EXCEPT ![t] = pending]
    <3>1. CASE wait[t].rdymsg = "MSG_OK"
      <4>1. epending' = [epending EXCEPT ![t] = epending[t] \ Taken(wait[t].op, wait[t].mask, epending[t])]
        BY <1>2, <1>5, <3>1, Zenon DEF WaitReturns
      <4> QED
        BY <1>2, <4>1, Zenon
    <3>2. CASE wait[t].rdymsg # "MSG_OK"
      BY <1>2, <1>5, <3>2, Zenon DEF WaitReturns
    <3> QED
      BY <3>1, <3>2
  <2> QED
    BY <1>3, <1>5, <2>1, OwnStepKeeps, Zenon DEF WaitReturns
<1>6. CASE EvtTimeout(t)
  <2> DEFINE w == [wait[t] EXCEPT !.at = "ready", !.rdymsg = "MSG_TIMEOUT"]
  <2>1. /\ w \in WaitRecords /\ w.rdymsg = "MSG_TIMEOUT" /\ w.at = "ready" /\ w.mask = wait[t].mask
    BY <1>2, Zenon DEF WaitRecords
  <2>2. wait' = [wait EXCEPT ![t] = w]
    BY <1>2, <1>6, Zenon DEF EvtTimeout
  <2> HIDE DEF w
  <2>3. WaitOK(w, epending[t])
    BY <1>1, <1>6, <2>1 DEF WaitOK, EvtTimeout
  <2> QED
    BY <1>2, <1>6, <2>1, <2>2, <2>3, OwnStepKeeps, Zenon DEF EvtTimeout
<1>7. ASSUME NEW mask \in Masks, chEvtGetAndClearEvents(t, mask) PROVE Kept /\ UNCHANGED <<source, listener>>
  <2>1. wait' = [wait EXCEPT ![t] = wait[t]] /\ epending' = [epending EXCEPT ![t] = epending[t] \ mask]
        /\ wait[t].at = "out" /\ UNCHANGED <<source, listener>>
    BY <1>2, <1>7, Zenon DEF chEvtGetAndClearEvents
  <2>2. epending[t] \ mask \in SUBSET Events
    BY <1>2
  <2> QED
    BY <1>2, <1>4, <2>1, <2>2, OwnStepKeeps, Zenon
<1>8. ASSUME NEW mask \in Masks, chEvtAddEvents(t, mask) PROVE Kept /\ UNCHANGED <<source, listener>>
  <2>1. wait' = [wait EXCEPT ![t] = wait[t]] /\ epending' = [epending EXCEPT ![t] = epending[t] \cup mask]
        /\ wait[t].at = "out" /\ UNCHANGED <<source, listener>>
    BY <1>2, <1>8, Zenon DEF chEvtAddEvents
  <2>2. epending[t] \cup mask \in SUBSET Events
    BY <1>2 DEF Masks
  <2> QED
    BY <1>2, <1>4, <2>1, <2>2, OwnStepKeeps, Zenon
<1>9. ASSUME NEW mask \in Masks, NEW op \in {"one", "any", "all"}, Wait(t, op, mask)
      PROVE  Kept /\ UNCHANGED <<source, listener>>
  <2>1. wait[t].at = "out" /\ UNCHANGED <<source, listener>>
    BY <1>9, Zenon DEF Wait
  <2>2. CASE Satisfied(op, mask, epending[t])
    <3>1. epending' = [epending EXCEPT ![t] = epending[t] \ Taken(op, mask, epending[t])] /\ wait' = wait
      BY <1>2, <1>9, <2>2, Zenon DEF Wait
    <3>2. epending[t] \ Taken(op, mask, epending[t]) \in SUBSET Events
      BY <1>2
    <3> QED
      BY <1>2, <1>4, <2>1, <3>1, <3>2, OwnStepKeeps, ZenonT(60)
  <2>3. CASE ~Satisfied(op, mask, epending[t])
    <3> DEFINE w == [NotWaiting EXCEPT !.at = "asleep", !.op = op, !.mask = mask]
    <3>1. wait' = [wait EXCEPT ![t] = w] /\ epending' = epending
      BY <1>9, <2>3, Zenon DEF Wait
    <3>2. w \in WaitRecords /\ w.at = "asleep" /\ w.op = op /\ w.mask = mask
      BY <1>3, Zenon DEF WaitRecords, Masks
    <3> HIDE DEF w
    <3>3. WaitOK(w, epending[t])
      <4>1. mask # {}
        BY Zenon DEF Masks
      <4>2. ~Satisfied(w.op, w.mask, epending[t])
        BY <2>3, <3>2, Zenon
      <4> QED
        BY <3>2, <4>1, <4>2 DEF WaitOK
    <3> QED
      BY <1>2, <2>1, <3>1, <3>2, <3>3, OwnStepKeeps, Zenon
  <2> QED
    BY <2>2, <2>3
<1> QED
  BY <1>5, <1>6, <1>7, <1>8, <1>9, Zenon DEF WaitReturns, EvtTimeout

\* Every step.
LEMMA EvtStep ==
  ASSUME EvtInv, [EvtNext]_evtvars
  PROVE  EvtInv'
<1>1. /\ listener \in [Listeners -> ListenerRecords] /\ Unregistered \in ListenerRecords
      /\ source \in Seq(Listeners)
  BY EvtAssumption DEF EvtInv, EvtTypeOK, Unregistered, ListenerRecords
<1>2. ASSUME NEW t \in Waiters, NEW mask \in Masks, chEvtSignalI(t, mask) PROVE EvtInv'
  <2> DEFINE events == [x \in Waiters |-> IF x = t THEN mask ELSE {}]
  <2>1. events \in [Waiters -> SUBSET Events]
    BY DEF Masks
  <2>2. Signalled(events) /\ UNCHANGED <<source, listener>>
    BY <1>2 DEF chEvtSignalI
  <2> HIDE DEF events
  <2> QED
    BY <1>1, <2>1, <2>2, SignalledKeeps, KeptIsInv
<1>3. ASSUME NEW t \in Waiters,
             \/ WaitReturns(t) \/ EvtTimeout(t)
             \/ \E mask \in Masks : \/ chEvtGetAndClearEvents(t, mask) \/ chEvtAddEvents(t, mask)
                                    \/ \E op \in {"one", "any", "all"} : Wait(t, op, mask)
      PROVE  EvtInv'
  BY <1>1, <1>3, WaitStep, KeptIsInv, Zenon
<1>4. ASSUME NEW t \in Waiters, NEW mask \in Masks, NEW l \in Listeners, NEW wflags \in SUBSET Flags,
             chEvtRegisterMaskWithFlags(t, l, mask, wflags)
      PROVE  EvtInv'
  <2> DEFINE r == [listener |-> t, events |-> mask, flags |-> {}, wflags |-> wflags]
  <2>1. r \in ListenerRecords
    BY DEF ListenerRecords, Masks
  <2>2. listener' = [listener EXCEPT ![l] = r] /\ epending' = epending /\ wait' = wait
    BY <1>4, Zenon DEF chEvtRegisterMaskWithFlags
  <2> HIDE DEF r
  <2>3. listener' \in [Listeners -> ListenerRecords]
    BY <1>1, <2>1, <2>2
  <2>4. source' \in Seq(Listeners)
    BY <1>1, <1>4 DEF chEvtRegisterMaskWithFlags
  <2> QED
    BY <2>2, <2>3, <2>4, QuietKeeps, KeptIsInv, Zenon
<1>5. ASSUME NEW flags \in SUBSET Flags, chEvtBroadcastFlagsI(flags) PROVE EvtInv'
  <2> DEFINE told == {l \in Range(source) : flags = {} \/ flags \cap listener[l].wflags # {}}
             sets(t) == {listener[l].events : l \in {x \in told : listener[x].listener = t}}
             events == [t \in Waiters |-> UNION sets(t)]
  <2>1. Signalled(events) /\ source' = source
    BY <1>5, Zenon DEF chEvtBroadcastFlagsI
  <2>2. listener' = [l \in Listeners |->
                        IF l \in Range(source) THEN [listener[l] EXCEPT !.flags = @ \cup flags]
                                               ELSE listener[l]]
    BY <1>5, Zenon DEF chEvtBroadcastFlagsI
  <2>3. \A t \in Waiters : \A e \in sets(t) : e \in SUBSET Events
    <3>1. told \subseteq Listeners
      BY <1>1 DEF Range
    <3>2. \A l \in told : listener[l].events \in SUBSET Events
      BY <1>1, <3>1 DEF ListenerRecords
    <3> QED
      BY <3>2
  <2> HIDE DEF sets
  <2>4. events \in [Waiters -> SUBSET Events]
    BY <2>3
  <2> HIDE DEF events
  <2>5. \A l \in Listeners : [listener[l] EXCEPT !.flags = @ \cup flags] \in ListenerRecords
    BY <1>1, SMTT(60) DEF ListenerRecords
  <2>6. listener' \in [Listeners -> ListenerRecords]
    BY <1>1, <2>2, <2>5
  <2> QED
    BY <1>1, <2>1, <2>4, <2>6, SignalledKeeps, KeptIsInv
<1>6. ASSUME NEW l \in Listeners, chEvtUnregister(l) PROVE EvtInv'
  <2>1. listener' \in [Listeners -> ListenerRecords] /\ epending' = epending /\ wait' = wait
    BY <1>1, <1>6 DEF chEvtUnregister
  <2>2. source' \in Seq(Listeners)
    BY <1>1, <1>6, WithoutFacts DEF chEvtUnregister
  <2> QED
    BY <2>1, <2>2, QuietKeeps, KeptIsInv, Zenon
<1>7. ASSUME NEW l \in Listeners, chEvtGetAndClearFlags(l) PROVE EvtInv'
  <2>1. [listener[l] EXCEPT !.flags = {}] \in ListenerRecords
    BY <1>1 DEF ListenerRecords
  <2>2. listener' \in [Listeners -> ListenerRecords] /\ epending' = epending /\ wait' = wait
        /\ source' \in Seq(Listeners)
    BY <1>1, <1>7, <2>1, Zenon DEF chEvtGetAndClearFlags
  <2> QED
    BY <2>2, QuietKeeps, KeptIsInv, Zenon
<1>8. CASE UNCHANGED evtvars
  BY <1>1, <1>8, QuietKeeps, KeptIsInv, Zenon DEF evtvars
<1> QED
  BY <1>2, <1>3, <1>4, <1>5, <1>6, <1>7, <1>8, Zenon DEF EvtNext

\* No event is missed and none is imagined: a thread in chEvtWaitOne, chEvtWaitAny
\* or chEvtWaitAll sleeps only as long as its events are not there, and finds
\* them when it runs, for any number of threads, events and listeners.
THEOREM EventsReach == EvtSpec => []NoEventMissed
<1>1. EvtInit => EvtInv
  <2> SUFFICES ASSUME EvtInit PROVE EvtInv
    OBVIOUS
  <2>1. NotWaiting \in WaitRecords /\ NotWaiting.at = "out"
    BY DEF NotWaiting, WaitRecords
  <2>2. Unregistered \in ListenerRecords
    BY EvtAssumption DEF Unregistered, ListenerRecords
  <2> QED
    BY <2>1, <2>2 DEF EvtInit, EvtInv, EvtTypeOK, NoEventMissed
<1>2. EvtInv /\ [EvtNext]_evtvars => EvtInv'
  BY EvtStep
<1>3. EvtInv => NoEventMissed
  BY DEF EvtInv
<1> QED
  BY <1>1, <1>2, <1>3, PTL DEF EvtSpec

-----------------------------------------------------------------------------
(* The life of threads *)

Counts == [Users -> [Areas -> 0 .. MaxRefs + 1]]
UserRecords == [at : {"idle", "wait", "release"}, tp : Areas \cup {NULL}, ntp : Areas \cup {NULL}]

ThdTypeOK ==
  /\ life \in [Areas -> {"none", "alive", "final"}]
  /\ refs \in [Areas -> Nat]
  /\ registry \in Seq(Areas)
  /\ waiting \in [Areas -> SUBSET Users]
  /\ has \in Counts
  /\ user \in [Users -> UserRecords]

\* What a function in progress works on: it has a thread and maybe the next one.
UserOK(u) ==
  /\ user[u].at = "idle" => user[u] = Idle
  /\ user[u].at # "idle" => user[u].tp \in Areas
  /\ user[u].at = "wait" => user[u].ntp = NULL
  /\ \A t \in Areas : user[u].ntp = t => has[u][t] <= MaxRefs
  /\ \A t \in Areas : u \in waiting[t] <=> user[u].at = "wait" /\ user[u].tp = t

\* Inductive.
ThdInv ==
  /\ ThdTypeOK
  /\ life[main] = "alive"
  /\ \A u \in Users : UserOK(u)
  /\ LifeAccounted

\* The three sets that References counts, for given values of the variables.
HeldIn(h, t) == {r \in Users \X (1 .. MaxRefs + 1) : r[2] <= h[r[1]][t]}
TpIn(us, t) == {u \in Users : us[u].tp = t}
NtpIn(us, t) == {u \in Users : us[u].ntp = t}

\* References counts these three sets.
LEMMA ReferencesAre ==
  ASSUME NEW t
  PROVE  References(t) = Cardinality(HeldIn(has, t)) + Cardinality(TpIn(user, t))
                           + Cardinality(NtpIn(user, t))
BY DEF References, HeldIn, TpIn, NtpIn

\* The same after a step.
LEMMA ReferencesNext ==
  ASSUME NEW t
  PROVE  References(t)' = Cardinality(HeldIn(has', t)) + Cardinality(TpIn(user', t))
                            + Cardinality(NtpIn(user', t))
BY DEF References, HeldIn, TpIn, NtpIn

\* They are finite.
LEMMA SetsFinite ==
  ASSUME NEW h, NEW us, NEW t
  PROVE  /\ IsFiniteSet(HeldIn(h, t)) /\ Cardinality(HeldIn(h, t)) \in Nat
         /\ IsFiniteSet(TpIn(us, t)) /\ Cardinality(TpIn(us, t)) \in Nat
         /\ IsFiniteSet(NtpIn(us, t)) /\ Cardinality(NtpIn(us, t)) \in Nat
<1>1. IsFiniteSet(Users) /\ MaxRefs \in Nat
  BY ThdAssumption
<1>2. IsFiniteSet(1 .. MaxRefs + 1)
  BY <1>1, FS_Interval
<1>3. IsFiniteSet(Users \X (1 .. MaxRefs + 1))
  BY <1>1, <1>2, FS_Product
<1>4. HeldIn(h, t) \subseteq Users \X (1 .. MaxRefs + 1)
  BY DEF HeldIn
<1>5. TpIn(us, t) \subseteq Users /\ NtpIn(us, t) \subseteq Users
  BY DEF TpIn, NtpIn
<1> QED
  BY <1>1, <1>3, <1>4, <1>5, FS_Subset, FS_CardinalityType

\* A finite set with, and without, an element.
LEMMA GainLose ==
  ASSUME NEW S, IsFiniteSet(S), NEW x
  PROVE  /\ Cardinality(S \cup {x}) = Cardinality(S) - (IF x \in S THEN 1 ELSE 0) + 1
         /\ Cardinality(S \ {x}) = Cardinality(S) - (IF x \in S THEN 1 ELSE 0)
         /\ Cardinality(S) \in Nat
<1>0. Cardinality(S) \in Nat
  BY FS_CardinalityType
<1>1. CASE x \in S
  <2>1. S \cup {x} = S /\ Cardinality(S \ {x}) = Cardinality(S) - 1 /\ (IF x \in S THEN 1 ELSE 0) = 1
    BY <1>1, FS_RemoveElement
  <2>2. Cardinality(S \cup {x}) = Cardinality(S)
    BY <2>1
  <2> QED
    BY <1>0, <2>1, <2>2
<1>2. CASE x \notin S
  <2>1. S \ {x} = S /\ Cardinality(S \cup {x}) = Cardinality(S) + 1 /\ (IF x \in S THEN 1 ELSE 0) = 0
    BY <1>2, FS_AddElement
  <2> QED
    BY <1>0, <2>1
<1> QED
  BY <1>1, <1>2

\* In g, u has one reference to a more than in h.
OneMoreIn(g, h, u, a) ==
  \A v \in Users, t \in Areas : g[v][t] = IF v = u /\ t = a THEN h[v][t] + 1 ELSE h[v][t]

\* A user gets one reference more.
LEMMA OneMoreCounts ==
  ASSUME NEW h \in Counts, NEW g \in Counts, NEW u \in Users, NEW a \in Areas,
         OneMoreIn(g, h, u, a)
  PROVE  \A t \in Areas : Cardinality(HeldIn(g, t)) = Cardinality(HeldIn(h, t)) + (IF t = a THEN 1 ELSE 0)
<1>1. MaxRefs \in Nat /\ \A v \in Users, t \in Areas : /\ h[v][t] \in 0 .. MaxRefs + 1
                                                       /\ g[v][t] \in 0 .. MaxRefs + 1
  BY ThdAssumption DEF Counts
<1>2. ASSUME NEW t \in Areas, t # a PROVE HeldIn(g, t) = HeldIn(h, t)
  BY <1>2 DEF HeldIn, OneMoreIn
<1>3. Cardinality(HeldIn(g, a)) = Cardinality(HeldIn(h, a)) + 1
  <2> DEFINE x == <<u, h[u][a] + 1>>
  <2>1. x \in Users \X (1 .. MaxRefs + 1) /\ x \notin HeldIn(h, a)
    BY <1>1 DEF HeldIn, OneMoreIn
  <2>2. HeldIn(g, a) = HeldIn(h, a) \cup {x}
    <3>1. ASSUME NEW r \in Users \X (1 .. MaxRefs + 1)
          PROVE  r[2] <= g[r[1]][a] <=> r[2] <= h[r[1]][a] \/ r = x
      <4>1. r = <<r[1], r[2]>> /\ r[1] \in Users /\ r[2] \in 1 .. MaxRefs + 1
        OBVIOUS
      <4>2. g[r[1]][a] = IF r[1] = u THEN h[r[1]][a] + 1 ELSE h[r[1]][a]
        BY <4>1 DEF OneMoreIn
      <4>3. r = x <=> r[1] = u /\ r[2] = h[u][a] + 1
        BY <4>1
      <4> QED
        BY <1>1, <4>1, <4>2, <4>3
    <3> QED
      BY <2>1, <3>1 DEF HeldIn
  <2> QED
    BY <2>1, <2>2, SetsFinite, FS_AddElement, SMTT(60)
<1>4. ASSUME NEW t \in Areas PROVE Cardinality(HeldIn(g, t)) = Cardinality(HeldIn(h, t)) + (IF t = a THEN 1 ELSE 0)
  <2>1. CASE t = a
    BY <1>3, <2>1
  <2>2. CASE t # a
    <3>1. (IF t = a THEN 1 ELSE 0) = 0 /\ HeldIn(g, t) = HeldIn(h, t) /\ Cardinality(HeldIn(h, t)) \in Nat
      BY <1>2, <2>2, SetsFinite
    <3> QED
      BY <3>1
  <2> QED
    BY <2>1, <2>2
<1> QED
  BY <1>4

\* The counts with one more, or less.
More(h, u, a) == [h EXCEPT ![u][a] = @ + 1]
Less(h, u, a) == [h EXCEPT ![u][a] = @ - 1]

\* One count more: one reference more to its thread, and none to another.
LEMMA OneMore ==
  ASSUME NEW h \in Counts, NEW u \in Users, NEW a \in Areas, h[u][a] <= MaxRefs,
         NEW g, g = More(h, u, a)
  PROVE  /\ g \in Counts
         /\ \A t \in Areas : Cardinality(HeldIn(g, t)) = Cardinality(HeldIn(h, t)) + (IF t = a THEN 1 ELSE 0)
         /\ \A v \in Users, t \in Areas : g[v][t] = IF v = u /\ t = a THEN h[v][t] + 1 ELSE h[v][t]
<1>1. MaxRefs \in Nat /\ h[u] \in [Areas -> 0 .. MaxRefs + 1] /\ h[u][a] \in 0 .. MaxRefs
  BY ThdAssumption DEF Counts
<1>2. g = [h EXCEPT ![u] = [h[u] EXCEPT ![a] = h[u][a] + 1]]
  BY DEF Counts, More
<1>3. \A v \in Users, t \in Areas : g[v][t] = IF v = u /\ t = a THEN h[v][t] + 1 ELSE h[v][t]
  BY <1>1, <1>2 DEF Counts
<1>4. [h[u] EXCEPT ![a] = h[u][a] + 1] \in [Areas -> 0 .. MaxRefs + 1]
  BY <1>1
<1>5. g \in Counts
  BY <1>2, <1>4, Zenon DEF Counts
<1>6. \A t \in Areas : Cardinality(HeldIn(g, t)) = Cardinality(HeldIn(h, t)) + (IF t = a THEN 1 ELSE 0)
  <2>1. OneMoreIn(g, h, u, a)
    BY <1>3 DEF OneMoreIn
  <2> QED
    BY <1>5, <2>1, OneMoreCounts, SMT
<1> QED
  BY <1>3, <1>5, <1>6

\* A user loses one reference.
LEMMA OneLess ==
  ASSUME NEW h \in Counts, NEW u \in Users, NEW a \in Areas, h[u][a] > 0,
         NEW g, g = Less(h, u, a)
  PROVE  /\ g \in Counts
         /\ \A t \in Areas : Cardinality(HeldIn(h, t)) = Cardinality(HeldIn(g, t)) + (IF t = a THEN 1 ELSE 0)
         /\ \A v \in Users, t \in Areas : g[v][t] = IF v = u /\ t = a THEN h[v][t] - 1 ELSE h[v][t]
<1>1. MaxRefs \in Nat /\ h[u] \in [Areas -> 0 .. MaxRefs + 1] /\ h[u][a] \in 1 .. MaxRefs + 1
      /\ \A v \in Users, t \in Areas : h[v][t] \in 0 .. MaxRefs + 1
  BY ThdAssumption DEF Counts
<1>2. g = [h EXCEPT ![u] = [h[u] EXCEPT ![a] = h[u][a] - 1]]
  BY DEF Counts, Less
<1>3. \A v \in Users, t \in Areas : g[v][t] = IF v = u /\ t = a THEN h[v][t] - 1 ELSE h[v][t]
  BY <1>1, <1>2 DEF Counts
<1>4. [h[u] EXCEPT ![a] = h[u][a] - 1] \in [Areas -> 0 .. MaxRefs + 1]
  BY <1>1
<1>5. g \in Counts
  BY <1>2, <1>4, Zenon DEF Counts
<1>6. \A v \in Users, t \in Areas : h[v][t] = IF v = u /\ t = a THEN g[v][t] + 1 ELSE g[v][t]
  BY <1>1, <1>3, SMTT(60)
<1>7. \A t \in Areas : Cardinality(HeldIn(h, t)) = Cardinality(HeldIn(g, t)) + (IF t = a THEN 1 ELSE 0)
  <2>1. OneMoreIn(h, g, u, a)
    BY <1>6, SMTT(60) DEF OneMoreIn
  <2> QED
    BY <1>5, <2>1, OneMoreCounts, SMTT(60)
<1> QED
  BY <1>3, <1>5, <1>7

MovedTo(us, u, w) == [us EXCEPT ![u] = w]

\* The threads that a user works on change.
LEMMA UserMoves ==
  ASSUME NEW us \in [Users -> UserRecords], NEW u \in Users, NEW w \in UserRecords,
         NEW new, new = MovedTo(us, u, w), NEW t
  PROVE  /\ Cardinality(TpIn(new, t)) = Cardinality(TpIn(us, t)) - (IF us[u].tp = t THEN 1 ELSE 0) + (IF w.tp = t THEN 1 ELSE 0)
         /\ Cardinality(NtpIn(new, t)) = Cardinality(NtpIn(us, t)) - (IF us[u].ntp = t THEN 1 ELSE 0) + (IF w.ntp = t THEN 1 ELSE 0)
<1>1. new[u] = w /\ \A v \in Users : v # u => new[v] = us[v]
  BY DEF MovedTo
<1>2. TpIn(new, t) = IF w.tp = t THEN TpIn(us, t) \cup {u} ELSE TpIn(us, t) \ {u}
  BY <1>1 DEF TpIn
<1>3. NtpIn(new, t) = IF w.ntp = t THEN NtpIn(us, t) \cup {u} ELSE NtpIn(us, t) \ {u}
  BY <1>1 DEF NtpIn
<1>4. (u \in TpIn(us, t) <=> us[u].tp = t) /\ (u \in NtpIn(us, t) <=> us[u].ntp = t)
  BY DEF TpIn, NtpIn
<1>5. Cardinality(TpIn(new, t)) = Cardinality(TpIn(us, t)) - (IF us[u].tp = t THEN 1 ELSE 0) + (IF w.tp = t THEN 1 ELSE 0)
  <2>1. (IF u \in TpIn(us, t) THEN 1 ELSE 0) = (IF us[u].tp = t THEN 1 ELSE 0) /\ (IF us[u].tp = t THEN 1 ELSE 0) \in Nat
    BY <1>4
  <2>2. CASE w.tp = t
    <3>1. (IF w.tp = t THEN 1 ELSE 0) = 1 /\ TpIn(new, t) = TpIn(us, t) \cup {u}
      BY <1>2, <2>2
    <3>2. Cardinality(TpIn(us, t) \cup {u}) = Cardinality(TpIn(us, t)) - (IF u \in TpIn(us, t) THEN 1 ELSE 0) + 1
      BY SetsFinite, GainLose, Zenon
    <3> QED
      BY <2>1, <3>1, <3>2
  <2>3. CASE w.tp # t
    <3>1. (IF w.tp = t THEN 1 ELSE 0) = 0 /\ TpIn(new, t) = TpIn(us, t) \ {u}
      BY <1>2, <2>3
    <3>2. Cardinality(TpIn(us, t) \ {u}) = Cardinality(TpIn(us, t)) - (IF u \in TpIn(us, t) THEN 1 ELSE 0)
          /\ Cardinality(TpIn(us, t)) \in Nat
      BY SetsFinite, GainLose, Zenon
    <3>3. Cardinality(TpIn(new, t)) = Cardinality(TpIn(us, t)) - (IF us[u].tp = t THEN 1 ELSE 0)
      BY <2>1, <3>1, <3>2, Zenon
    <3> QED
      BY <2>1, <3>1, <3>2, <3>3
  <2> QED
    BY <2>2, <2>3, SMTT(60)
<1>6. Cardinality(NtpIn(new, t)) = Cardinality(NtpIn(us, t)) - (IF us[u].ntp = t THEN 1 ELSE 0) + (IF w.ntp = t THEN 1 ELSE 0)
  <2>1. (IF u \in NtpIn(us, t) THEN 1 ELSE 0) = (IF us[u].ntp = t THEN 1 ELSE 0) /\ (IF us[u].ntp = t THEN 1 ELSE 0) \in Nat
    BY <1>4
  <2>2. CASE w.ntp = t
    <3>1. (IF w.ntp = t THEN 1 ELSE 0) = 1 /\ NtpIn(new, t) = NtpIn(us, t) \cup {u}
      BY <1>3, <2>2
    <3>2. Cardinality(NtpIn(us, t) \cup {u}) = Cardinality(NtpIn(us, t)) - (IF u \in NtpIn(us, t) THEN 1 ELSE 0) + 1
      BY SetsFinite, GainLose, Zenon
    <3> QED
      BY <2>1, <3>1, <3>2, SMTT(60)
  <2>3. CASE w.ntp # t
    <3>1. (IF w.ntp = t THEN 1 ELSE 0) = 0 /\ NtpIn(new, t) = NtpIn(us, t) \ {u}
      BY <1>3, <2>3
    <3>2. Cardinality(NtpIn(us, t) \ {u}) = Cardinality(NtpIn(us, t)) - (IF u \in NtpIn(us, t) THEN 1 ELSE 0)
          /\ Cardinality(NtpIn(us, t)) \in Nat
      BY SetsFinite, GainLose, Zenon
    <3>3. Cardinality(NtpIn(new, t)) = Cardinality(NtpIn(us, t)) - (IF us[u].ntp = t THEN 1 ELSE 0)
      BY <2>1, <3>1, <3>2, Zenon
    <3> QED
      BY <2>1, <3>1, <3>2, <3>3, SMTT(60)
  <2> QED
    BY <2>2, <2>3, SMTT(60)
<1> QED
  BY <1>5, <1>6

\* The number of references that lead to t, in these terms.
Led(h, us, t) == Cardinality(HeldIn(h, t)) + Cardinality(TpIn(us, t)) + Cardinality(NtpIn(us, t))
                   + (IF t = main THEN 1 ELSE 0)

\* What the invariant gives to every step.
LEMMA ThdFacts ==
  ASSUME ThdInv
  PROVE  /\ ThdTypeOK /\ life[main] = "alive" /\ \A u \in Users : UserOK(u)
         /\ \A t \in Areas : refs[t] = Led(has, user, t)
         /\ \A t \in Areas : refs[t] > 0 => life[t] # "none"
         /\ Range(registry) = {t \in Areas : life[t] # "none"}
         /\ IsInjective(registry)
<1>1. ASSUME NEW t \in Areas PROVE refs[t] = Led(has, user, t)
  BY ReferencesAre DEF ThdInv, LifeAccounted, Led, One
<1> QED
  BY <1>1, Zenon DEF ThdInv, LifeAccounted

\* The invariant after a step, in these terms.
LEMMA ThdNextInv ==
  ASSUME ThdTypeOK', life'[main] = "alive", \A u \in Users : UserOK(u)',
         \A t \in Areas : refs'[t] = Led(has', user', t),
         \A t \in Areas : refs'[t] > 0 => life'[t] # "none",
         Range(registry') = {t \in Areas : life'[t] # "none"},
         IsInjective(registry')
  PROVE  ThdInv'
<1>1. ASSUME NEW t \in Areas PROVE refs'[t] = References(t)' + One(t = main)
  BY ReferencesNext DEF Led, One
<1>2. LifeAccounted'
  BY <1>1, ZenonT(60) DEF LifeAccounted, One
<1> QED
  BY <1>2, Zenon DEF ThdInv

\* A reference counts.
LEMMA ReferencesCount ==
  ASSUME NEW h \in Counts, NEW us, NEW u \in Users, NEW t \in Areas
  PROVE  /\ Led(h, us, t) \in Nat
         /\ h[u][t] > 0 => Led(h, us, t) > 0
         /\ us[u].tp = t => Led(h, us, t) > 0
         /\ us[u].ntp = t => Led(h, us, t) > 0
<1>1. /\ Cardinality(HeldIn(h, t)) \in Nat /\ Cardinality(TpIn(us, t)) \in Nat
      /\ Cardinality(NtpIn(us, t)) \in Nat
      /\ IsFiniteSet(HeldIn(h, t)) /\ IsFiniteSet(TpIn(us, t)) /\ IsFiniteSet(NtpIn(us, t))
  BY SetsFinite
<1>2. \A S : IsFiniteSet(S) /\ S # {} => Cardinality(S) # 0
  BY FS_EmptySet, SMTT(60)
<1>3. ASSUME h[u][t] > 0 PROVE Cardinality(HeldIn(h, t)) # 0
  <2>1. <<u, 1>> \in HeldIn(h, t)
    BY <1>3, ThdAssumption DEF HeldIn, Counts
  <2> QED
    BY <1>1, <1>2, <2>1
<1>4. us[u].tp = t => Cardinality(TpIn(us, t)) # 0
  BY <1>1, <1>2 DEF TpIn
<1>5. us[u].ntp = t => Cardinality(NtpIn(us, t)) # 0
  BY <1>1, <1>2, SMTT(60) DEF NtpIn
<1> QED
  BY <1>1, <1>3, <1>4, <1>5, SMTT(60) DEF Led

\* The body of chThdRelease.
LEMMA ReleaseFacts ==
  ASSUME ThdInv, NEW t \in Areas, refs[t] > 0, Release(t)
  PROVE  /\ refs' \in [Areas -> Nat] /\ life' \in [Areas -> {"none", "alive", "final"}]
         /\ registry' \in Seq(Areas) /\ life'[main] = "alive"
         /\ \A x \in Areas : refs'[x] = IF x = t THEN refs[x] - 1 ELSE refs[x]
         /\ \A x \in Areas : refs'[x] > 0 => life'[x] # "none"
         /\ \A x \in Areas : life'[x] = life[x] \/ (life'[x] = "none" /\ life[x] = "final")
         /\ Range(registry') = {x \in Areas : life'[x] # "none"}
         /\ IsInjective(registry')
<1>1. /\ refs \in [Areas -> Nat] /\ life \in [Areas -> {"none", "alive", "final"}]
      /\ registry \in Seq(Areas) /\ life[main] = "alive"
      /\ \A x \in Areas : refs[x] > 0 => life[x] # "none"
      /\ Range(registry) = {x \in Areas : life[x] # "none"}
      /\ IsInjective(registry)
  BY ThdFacts, Zenon DEF ThdTypeOK
<1>2. refs' = [refs EXCEPT ![t] = refs[t] - 1]
  BY DEF Release
<1>3. refs' \in [Areas -> Nat] /\ \A x \in Areas : refs'[x] = IF x = t THEN refs[x] - 1 ELSE refs[x]
  BY <1>1, <1>2
<1>4. CASE refs[t] = 1 /\ life[t] = "final"
  <2>1. registry' = Without(registry, t) /\ life' = [life EXCEPT ![t] = "none"]
    BY <1>4 DEF Release
  <2>2. t \in Range(registry) /\ t # main
    BY <1>1, <1>4, SMTT(60)
  <2>3. registry' \in Seq(Areas) /\ IsInjective(registry') /\ Range(registry') = Range(registry) \ {t}
    BY <1>1, <2>1, <2>2, WithoutFacts, SMTT(60)
  <2>4. /\ life' \in [Areas -> {"none", "alive", "final"}] /\ life'[main] = "alive"
        /\ life'[t] = "none" /\ \A x \in Areas : x # t => life'[x] = life[x]
    BY <1>1, <2>1, <2>2, ThdAssumption, SMTT(60)
  <2>5. Range(registry') = {x \in Areas : life'[x] # "none"}
    BY <1>1, <2>3, <2>4, SMTT(60)
  <2>6. \A x \in Areas : refs'[x] > 0 => life'[x] # "none"
    BY <1>1, <1>3, <1>4, <2>4
  <2>7. \A x \in Areas : life'[x] = life[x] \/ (life'[x] = "none" /\ life[x] = "final")
    BY <1>4, <2>4, Zenon
  <2> QED
    BY <1>3, <2>3, <2>4, <2>5, <2>6, <2>7, Zenon
<1>5. CASE ~(refs[t] = 1 /\ life[t] = "final")
  <2>1. registry' = registry /\ life' = life
    BY <1>5 DEF Release
  <2>2. \A x \in Areas : refs'[x] > 0 => refs[x] > 0
    BY <1>1, <1>3, Zenon
  <2>3. \A x \in Areas : refs'[x] > 0 => life'[x] # "none"
    BY <1>1, <2>1, <2>2, Zenon
  <2>4. \A x \in Areas : life'[x] = life[x]
    BY <2>1
  <2>5. life' \in [Areas -> {"none", "alive", "final"}] /\ life'[main] = "alive"
        /\ Range(registry') = {x \in Areas : life'[x] # "none"}
    BY <1>1, <2>1
  <2> QED
    BY <1>1, <1>3, <2>1, <2>3, <2>4, <2>5, Zenon
<1> QED
  BY <1>4, <1>5

\* A new element at the end of a list.
LEMMA AppendFacts ==
  ASSUME NEW S, NEW q \in Seq(S), NEW x \in S
  PROVE  /\ Append(q, x) \in Seq(S)
         /\ Range(Append(q, x)) = Range(q) \cup {x}
         /\ IsInjective(q) /\ x \notin Range(q) => IsInjective(Append(q, x))
<1> DEFINE a == Append(q, x)
<1>1. /\ a \in Seq(S) /\ DOMAIN a = 1 .. Len(q) + 1 /\ DOMAIN q = 1 .. Len(q) /\ Len(q) \in Nat
      /\ \A i \in 1 .. Len(q) : a[i] = q[i]
      /\ a[Len(q) + 1] = x
  OBVIOUS
<1> HIDE DEF a
<1>2. \A y : y \in Range(a) <=> \E i \in 1 .. Len(q) + 1 : a[i] = y
  BY <1>1 DEF Range
<1>3. \A y : y \in Range(q) <=> \E i \in 1 .. Len(q) : q[i] = y
  BY <1>1 DEF Range
<1>4. ASSUME NEW y PROVE y \in Range(a) <=> y \in Range(q) \/ y = x
  <2>1. y \in Range(a) => y \in Range(q) \/ y = x
    BY <1>1, <1>2, <1>3, SMTT(60)
  <2>2. y \in Range(q) => y \in Range(a)
    BY <1>1, <1>2, <1>3, SMTT(60)
  <2>3. x \in Range(a)
    BY <1>1, <1>2, SMTT(60)
  <2> QED
    BY <2>1, <2>2, <2>3, SMTT(60)
<1>5. ASSUME IsInjective(q), x \notin Range(q) PROVE IsInjective(a)
  BY <1>1, <1>3, <1>5 DEF IsInjective
<1> QED
  BY <1>1, <1>4, <1>5 DEF a

\* Creation: nothing leads to the working area before, one reference after.
LEMMA CreateStep ==
  ASSUME ThdInv, NEW u \in Users, NEW t \in Areas, Create(u, t)
  PROVE  ThdInv'
<1>1. /\ life \in [Areas -> {"none", "alive", "final"}] /\ refs \in [Areas -> Nat]
      /\ registry \in Seq(Areas) /\ waiting \in [Areas -> SUBSET Users]
      /\ has \in Counts /\ user \in [Users -> UserRecords] /\ life[main] = "alive"
      /\ \A v \in Users : UserOK(v)
      /\ \A x \in Areas : refs[x] = Led(has, user, x)
      /\ \A x \in Areas : refs[x] > 0 => life[x] # "none"
      /\ Range(registry) = {x \in Areas : life[x] # "none"} /\ IsInjective(registry)
  BY ThdFacts, Zenon DEF ThdTypeOK
<1>2. /\ life[t] = "none" /\ t \notin Range(registry)
      /\ life' = [life EXCEPT ![t] = "alive"] /\ refs' = [refs EXCEPT ![t] = 1]
      /\ registry' = Append(registry, t) /\ waiting' = [waiting EXCEPT ![t] = {}]
      /\ has' = [has EXCEPT ![u][t] = @ + 1] /\ user' = user
  BY DEF Create
<1>3. t # main /\ Led(has, user, t) = 0
  BY <1>1, <1>2, ReferencesCount, SMTT(60)
<1>4. \A v \in Users : has[v][t] = 0 /\ user[v].tp # t /\ user[v].ntp # t
  <2>1. \A v \in Users : has[v][t] \in Nat
    BY <1>1, ThdAssumption, SMTT(60) DEF Counts
  <2> QED
    BY <1>1, <1>3, <2>1, ReferencesCount, SMTT(60)
<1>5. /\ has' \in Counts
      /\ \A x \in Areas : Cardinality(HeldIn(has', x)) = Cardinality(HeldIn(has, x)) + (IF x = t THEN 1 ELSE 0)
      /\ \A v \in Users, x \in Areas : has'[v][x] = IF v = u /\ x = t THEN has[v][x] + 1 ELSE has[v][x]
  <2>1. has[u][t] <= MaxRefs
    BY <1>4, ThdAssumption
  <2>2. has' = More(has, u, t) /\ has \in Counts
    BY <1>1, <1>2, Zenon DEF More
  <2> QED
    BY <2>1, <2>2, OneMore, SMTT(60)
<1>6. ASSUME NEW x \in Areas PROVE refs'[x] = Led(has', user', x)
  <2>1. /\ Cardinality(HeldIn(has, x)) \in Nat /\ Cardinality(TpIn(user, x)) \in Nat
        /\ Cardinality(NtpIn(user, x)) \in Nat
    BY SetsFinite, SMTT(60)
  <2>2. /\ Cardinality(HeldIn(has', x)) = Cardinality(HeldIn(has, x)) + (IF x = t THEN 1 ELSE 0)
        /\ user' = user
    BY <1>2, <1>5, Zenon
  <2>3. Led(has', user', x) = Led(has, user, x) + (IF x = t THEN 1 ELSE 0)
    BY <2>1, <2>2 DEF Led
  <2>4. refs'[x] = IF x = t THEN 1 ELSE refs[x]
    BY <1>1, <1>2
  <2>5. refs[x] = Led(has, user, x) /\ refs[x] \in Nat
    BY <1>1
  <2> QED
    BY <1>3, <2>3, <2>4, <2>5, SMTT(60)
<1>7. ASSUME NEW v \in Users PROVE UserOK(v)'
  <2>1. \A x \in Areas : v \in waiting'[x] <=> user[v].at = "wait" /\ user[v].tp = x
    BY <1>1, <1>2, <1>4, SMTT(60) DEF UserOK
  <2>2. \A x \in Areas : user[v].ntp = x => has'[v][x] <= MaxRefs
    <3> TAKE x \in Areas
    <3>1. user[v].ntp = x => x # t /\ has[v][x] <= MaxRefs
      BY <1>1, <1>4, Zenon DEF UserOK
    <3> QED
      BY <1>5, <3>1, SMTT(60)
  <2> QED
    BY <1>1, <1>2, <2>1, <2>2, Zenon DEF UserOK
<1>8. /\ registry' \in Seq(Areas) /\ IsInjective(registry')
      /\ Range(registry') = Range(registry) \cup {t}
  BY <1>1, <1>2, AppendFacts, SMTT(60)
<1>9. /\ life' \in [Areas -> {"none", "alive", "final"}] /\ life'[main] = "alive" /\ life'[t] = "alive"
      /\ \A x \in Areas : x # t => life'[x] = life[x] /\ refs'[x] = refs[x]
      /\ refs' \in [Areas -> Nat] /\ waiting' \in [Areas -> SUBSET Users]
  BY <1>1, <1>2, <1>3, ThdAssumption, SMTT(60)
<1>10. Range(registry') = {x \in Areas : life'[x] # "none"}
  BY <1>1, <1>8, <1>9, SMTT(60)
<1>11. \A x \in Areas : refs'[x] > 0 => life'[x] # "none"
  BY <1>1, <1>9
<1>12. ThdTypeOK'
  BY <1>1, <1>2, <1>5, <1>8, <1>9, Zenon DEF ThdTypeOK
<1> QED
  BY <1>6, <1>7, <1>8, <1>9, <1>10, <1>11, <1>12, ThdNextInv, ZenonT(60)

\* A thread that exists gets a reference and a user its count.
LEMMA GrantStep ==
  ASSUME ThdInv, NEW v \in Users, NEW t \in Areas, life[t] # "none", has[v][t] < MaxRefs,
         refs' = [refs EXCEPT ![t] = @ + 1], has' = More(has, v, t),
         UNCHANGED <<life, registry, waiting, user>>
  PROVE  ThdInv'
<1>1. /\ life \in [Areas -> {"none", "alive", "final"}] /\ refs \in [Areas -> Nat]
      /\ registry \in Seq(Areas) /\ waiting \in [Areas -> SUBSET Users]
      /\ has \in Counts /\ user \in [Users -> UserRecords] /\ life[main] = "alive"
      /\ \A y \in Users : UserOK(y)
      /\ \A x \in Areas : refs[x] = Led(has, user, x)
      /\ \A x \in Areas : refs[x] > 0 => life[x] # "none"
      /\ Range(registry) = {x \in Areas : life[x] # "none"} /\ IsInjective(registry)
  BY ThdFacts, ZenonT(60) DEF ThdTypeOK
<1>2. /\ has' \in Counts
      /\ \A x \in Areas : Cardinality(HeldIn(has', x)) = Cardinality(HeldIn(has, x)) + (IF x = t THEN 1 ELSE 0)
      /\ \A w \in Users, x \in Areas : has'[w][x] = IF w = v /\ x = t THEN has[w][x] + 1 ELSE has[w][x]
  <2>1. has \in Counts
    BY <1>1, Zenon
  <2>2. has[v][t] <= MaxRefs
    BY <2>1, ThdAssumption, SMTT(60) DEF Counts
  <2>3. has' = More(has, v, t)
    OBVIOUS
  <2> QED
    BY <2>1, <2>2, <2>3, OneMore, SMTT(60)
<1>3. ASSUME NEW x \in Areas
      PROVE  refs'[x] = Led(has', user', x) /\ refs'[x] \in Nat /\ (refs'[x] > 0 => life'[x] # "none")
  <2>1. /\ Cardinality(HeldIn(has, x)) \in Nat /\ Cardinality(TpIn(user, x)) \in Nat
        /\ Cardinality(NtpIn(user, x)) \in Nat
    BY SetsFinite, Zenon
  <2>2. /\ Cardinality(HeldIn(has', x)) = Cardinality(HeldIn(has, x)) + (IF x = t THEN 1 ELSE 0)
        /\ user' = user
    BY <1>2, SMTT(60)
  <2>3. Led(has', user', x) = Led(has, user, x) + (IF x = t THEN 1 ELSE 0)
    BY <2>1, <2>2, SMTT(60) DEF Led
  <2>4. refs'[x] = (IF x = t THEN refs[x] + 1 ELSE refs[x]) /\ life' = life
    BY <1>1, SMTT(60)
  <2>5. refs[x] = Led(has, user, x) /\ refs[x] \in Nat /\ (refs[x] > 0 => life[x] # "none")
    BY <1>1
  <2> QED
    BY <2>3, <2>4, <2>5, SMTT(60)
<1>4. ASSUME NEW w \in Users PROVE UserOK(w)'
  <2>1. ASSUME NEW x \in Areas, user[w].ntp = x PROVE has'[w][x] <= MaxRefs
    <3>1. has[w][x] \in Nat /\ has[v][t] \in Nat /\ MaxRefs \in Nat
      BY <1>1, ThdAssumption DEF Counts
    <3>2. has[w][x] <= MaxRefs
      BY <1>1, <2>1, ZenonT(60) DEF UserOK
    <3> QED
      BY <1>2, <3>1, <3>2, SMTT(60)
  <2> QED
    BY <1>1, <2>1, ZenonT(60) DEF UserOK
<1>5. refs' \in [Areas -> Nat]
  BY <1>1
<1>6. ThdTypeOK'
  BY <1>1, <1>2, <1>5, ZenonT(60) DEF ThdTypeOK
<1>7. life'[main] = "alive" /\ Range(registry') = {x \in Areas : life'[x] # "none"} /\ IsInjective(registry')
  BY <1>1, SMTT(60)
<1> QED
  BY <1>3, <1>4, <1>6, <1>7, ThdNextInv, Zenon

\* A user that holds a reference to t finds it in the registry.
LEMMA HolderFacts ==
  ASSUME ThdInv, NEW u \in Users, NEW t \in Areas, has[u][t] > 0
  PROVE  refs[t] > 0 /\ life[t] # "none" /\ t \in Range(registry)
<1>1. has \in Counts /\ refs[t] = Led(has, user, t)
      /\ (refs[t] > 0 => life[t] # "none") /\ Range(registry) = {x \in Areas : life[x] # "none"}
  BY ThdFacts, Zenon DEF ThdTypeOK
<1>2. Led(has, user, t) > 0
  BY <1>1, ReferencesCount
<1> QED
  BY <1>1, <1>2

\* chThdAddRef: the reference of another user is a copy of one that exists.
LEMMA AddRefStep ==
  ASSUME ThdInv, NEW u \in Users, NEW v \in Users, NEW t \in Areas, chThdAddRef(u, v, t)
  PROVE  ThdInv'
<1>1. /\ has[u][t] > 0 /\ has[v][t] < MaxRefs /\ refs' = [refs EXCEPT ![t] = @ + 1]
      /\ has' = More(has, v, t) /\ UNCHANGED <<life, registry, waiting, user>>
  BY SMTT(60) DEF chThdAddRef, More
<1>2. life[t] # "none"
  BY <1>1, HolderFacts
<1> QED
  BY <1>1, <1>2, GrantStep, Zenon

\* chRegFirstThread gives a reference to the oldest thread, which is alive.
LEMMA RegFirstStep ==
  ASSUME ThdInv, NEW u \in Users, chRegFirstThread(u)
  PROVE  ThdInv'
<1> DEFINE t == Head(registry)
<1>1. /\ has[u][t] < MaxRefs /\ refs' = [refs EXCEPT ![t] = @ + 1]
      /\ has' = More(has, u, t) /\ UNCHANGED <<life, registry, waiting, user>>
  BY DEF chRegFirstThread, More
<1>2. registry \in Seq(Areas) /\ life[main] = "alive" /\ Range(registry) = {x \in Areas : life[x] # "none"}
  BY ThdFacts, Zenon DEF ThdTypeOK
<1>3. main \in Range(registry)
  BY <1>2, ThdAssumption
<1>4. t \in Range(registry)
  <2>1. PICK i \in DOMAIN registry : registry[i] = main
    BY <1>3 DEF Range
  <2>2. registry # <<>>
    BY <1>2, <2>1
  <2>3. 1 \in DOMAIN registry /\ t = registry[1]
    BY <1>2, <2>2
  <2> QED
    BY <2>3 DEF Range
<1>5. t \in Areas /\ life[t] # "none"
  BY <1>2, <1>4
<1> HIDE DEF t
<1> QED
  BY <1>1, <1>5, GrantStep, Zenon

\* A user gives a reference back.
LEMMA ReleaseStep ==
  ASSUME ThdInv, NEW u \in Users, NEW t \in Areas, chThdRelease(u, t)
  PROVE  ThdInv'
<1>1. /\ life \in [Areas -> {"none", "alive", "final"}] /\ refs \in [Areas -> Nat]
      /\ registry \in Seq(Areas) /\ waiting \in [Areas -> SUBSET Users]
      /\ has \in Counts /\ user \in [Users -> UserRecords] /\ life[main] = "alive"
      /\ \A v \in Users : UserOK(v)
      /\ \A x \in Areas : refs[x] = Led(has, user, x)
      /\ \A x \in Areas : refs[x] > 0 => life[x] # "none"
      /\ Range(registry) = {x \in Areas : life[x] # "none"} /\ IsInjective(registry)
  BY ThdFacts, Zenon DEF ThdTypeOK
<1>2. /\ has[u][t] > 0 /\ Release(t) /\ has' = Less(has, u, t)
      /\ waiting' = waiting /\ user' = user
  BY SMTT(60) DEF chThdRelease, Less
<1>3. /\ has' \in Counts
      /\ \A x \in Areas : Cardinality(HeldIn(has, x)) = Cardinality(HeldIn(has', x)) + (IF x = t THEN 1 ELSE 0)
      /\ \A w \in Users, x \in Areas : has'[w][x] = IF w = u /\ x = t THEN has[w][x] - 1 ELSE has[w][x]
  <2>1. has \in Counts /\ has[u][t] > 0 /\ has' = Less(has, u, t)
    BY <1>1, <1>2, Zenon
  <2> QED
    BY <2>1, OneLess, SMTT(60)
<1>4. /\ refs' \in [Areas -> Nat] /\ life' \in [Areas -> {"none", "alive", "final"}]
      /\ registry' \in Seq(Areas) /\ life'[main] = "alive"
      /\ \A x \in Areas : refs'[x] = IF x = t THEN refs[x] - 1 ELSE refs[x]
      /\ \A x \in Areas : refs'[x] > 0 => life'[x] # "none"
      /\ Range(registry') = {x \in Areas : life'[x] # "none"}
      /\ IsInjective(registry')
  BY <1>2, HolderFacts, ReleaseFacts, SMTT(60)
<1>5. ASSUME NEW x \in Areas PROVE refs'[x] = Led(has', user', x)
  <2>1. /\ Cardinality(HeldIn(has, x)) \in Nat /\ Cardinality(HeldIn(has', x)) \in Nat
        /\ Cardinality(TpIn(user, x)) \in Nat /\ Cardinality(NtpIn(user, x)) \in Nat
    BY SetsFinite, SMTT(60)
  <2>2. Led(has, user, x) = Led(has', user', x) + (IF x = t THEN 1 ELSE 0)
    <3>1. /\ Cardinality(HeldIn(has, x)) = Cardinality(HeldIn(has', x)) + (IF x = t THEN 1 ELSE 0)
          /\ user' = user
      BY <1>2, <1>3, Zenon
    <3> QED
      BY <2>1, <3>1, SMTT(60) DEF Led
  <2>3. Led(has', user', x) \in Nat
    BY <1>3, ReferencesCount, ZenonT(60)
  <2>4. refs'[x] = (IF x = t THEN refs[x] - 1 ELSE refs[x]) /\ refs[x] = Led(has, user, x)
    BY <1>1, <1>4
  <2> QED
    BY <2>2, <2>3, <2>4, SMTT(60)
<1>6. ASSUME NEW w \in Users PROVE UserOK(w)'
  <2>1. ASSUME NEW x \in Areas, user[w].ntp = x PROVE has'[w][x] <= MaxRefs
    <3>1. has[w][x] \in Nat /\ MaxRefs \in Nat
      BY <1>1, ThdAssumption DEF Counts
    <3>2. has[w][x] <= MaxRefs
      BY <1>1, <2>1, Zenon DEF UserOK
    <3> QED
      BY <1>3, <3>1, <3>2
  <2> QED
    BY <1>1, <1>2, <2>1, Zenon DEF UserOK
<1>7. ThdTypeOK'
  BY <1>1, <1>2, <1>3, <1>4, Zenon DEF ThdTypeOK
<1> QED
  BY <1>4, <1>5, <1>6, <1>7, ThdNextInv, ZenonT(60)

\* The wait for the exit: the caller's reference is the function's now.
LEMMA ThdWaitStep ==
  ASSUME ThdInv, NEW u \in Users, NEW t \in Areas, chThdWait(u, t)
  PROVE  ThdInv'
<1> DEFINE w == [at |-> IF life[t] = "final" THEN "release" ELSE "wait", tp |-> t, ntp |-> NULL]
<1>1. /\ life \in [Areas -> {"none", "alive", "final"}] /\ refs \in [Areas -> Nat]
      /\ registry \in Seq(Areas) /\ waiting \in [Areas -> SUBSET Users]
      /\ has \in Counts /\ user \in [Users -> UserRecords] /\ life[main] = "alive"
      /\ \A v \in Users : UserOK(v)
      /\ \A x \in Areas : refs[x] = Led(has, user, x)
      /\ \A x \in Areas : refs[x] > 0 => life[x] # "none"
      /\ Range(registry) = {x \in Areas : life[x] # "none"} /\ IsInjective(registry)
  BY ThdFacts, Zenon DEF ThdTypeOK
<1>2. /\ user[u] = Idle /\ has[u][t] > 0 /\ has' = Less(has, u, t)
      /\ user' = MovedTo(user, u, w)
      /\ waiting' = (IF life[t] = "final" THEN waiting ELSE [waiting EXCEPT ![t] = @ \cup {u}])
      /\ life' = life /\ refs' = refs /\ registry' = registry
  BY SMTT(60) DEF chThdWait, Less, MovedTo
<1>3. /\ has' \in Counts
      /\ \A x \in Areas : Cardinality(HeldIn(has, x)) = Cardinality(HeldIn(has', x)) + (IF x = t THEN 1 ELSE 0)
      /\ \A y \in Users, x \in Areas : has'[y][x] = IF y = u /\ x = t THEN has[y][x] - 1 ELSE has[y][x]
  <2>1. has \in Counts /\ has[u][t] > 0 /\ has' = Less(has, u, t)
    BY <1>1, <1>2, Zenon
  <2> QED
    BY <2>1, OneLess, SMTT(60)
<1>4. /\ w \in UserRecords /\ w.tp = t /\ w.ntp = NULL /\ w.at # "idle" /\ (w.at = "wait" <=> life[t] # "final")
      /\ user[u].tp = NULL /\ user[u].ntp = NULL /\ user[u].at = "idle" /\ NULL \notin Areas
  <2>1. user[u] = Idle
    BY <1>2, Zenon
  <2> QED
    BY <2>1, ThdAssumption, SMTT(60) DEF UserRecords, Idle
<1> HIDE DEF w
<1>5. user' \in [Users -> UserRecords] /\ user'[u] = w /\ \A v \in Users : v # u => user'[v] = user[v]
  <2>1. user \in [Users -> UserRecords] /\ w \in UserRecords /\ user' = MovedTo(user, u, w)
    BY <1>1, <1>2, <1>4, Zenon
  <2> QED
    BY <2>1, SMTT(60) DEF MovedTo
<1>6. ASSUME NEW x \in Areas PROVE refs'[x] = Led(has', user', x)
  <2>1. /\ Cardinality(HeldIn(has, x)) \in Nat /\ Cardinality(HeldIn(has', x)) \in Nat
        /\ Cardinality(TpIn(user, x)) \in Nat /\ Cardinality(NtpIn(user, x)) \in Nat
    BY SetsFinite
  <2>2. /\ Cardinality(TpIn(user', x)) = Cardinality(TpIn(user, x)) - (IF user[u].tp = x THEN 1 ELSE 0) + (IF w.tp = x THEN 1 ELSE 0)
        /\ Cardinality(NtpIn(user', x)) = Cardinality(NtpIn(user, x)) - (IF user[u].ntp = x THEN 1 ELSE 0) + (IF w.ntp = x THEN 1 ELSE 0)
    <3>1. user \in [Users -> UserRecords] /\ w \in UserRecords /\ user' = MovedTo(user, u, w)
      BY <1>1, <1>2, <1>4, Zenon
    <3> QED
      BY <3>1, UserMoves, SMTT(60)
  <2>3. user[u].tp # x /\ user[u].ntp # x /\ w.ntp # x /\ (w.tp = x <=> x = t)
    BY <1>4, SMTT(60)
  <2>4. Cardinality(HeldIn(has, x)) = Cardinality(HeldIn(has', x)) + (IF x = t THEN 1 ELSE 0)
    BY <1>3, SMTT(60)
  <2>5. Led(has', user', x) = Led(has, user, x)
    <3> DEFINE a == user[u].tp
               b == user[u].ntp
               c == w.tp
               d == w.ntp
    <3>1. a # x /\ b # x /\ d # x /\ (c = x <=> x = t)
      BY <2>3, Zenon
    <3>2. /\ Cardinality(TpIn(user', x)) = Cardinality(TpIn(user, x)) - (IF a = x THEN 1 ELSE 0) + (IF c = x THEN 1 ELSE 0)
          /\ Cardinality(NtpIn(user', x)) = Cardinality(NtpIn(user, x)) - (IF b = x THEN 1 ELSE 0) + (IF d = x THEN 1 ELSE 0)
      BY <2>2, Zenon
    <3> HIDE DEF a, b, c, d
    <3> QED
      BY <2>1, <2>4, <3>1, <3>2, SMTT(60) DEF Led
  <2> QED
    BY <1>1, <1>2, <2>5, Zenon
<1>7. waiting' \in [Areas -> SUBSET Users]
      /\ \A v \in Users, x \in Areas : v \in waiting'[x] <=> v \in waiting[x] \/ (v = u /\ x = t /\ life[t] # "final")
  BY <1>1, <1>2
<1>8. ASSUME NEW v \in Users PROVE UserOK(v)'
  <2>1. ASSUME NEW x \in Areas, user'[v].ntp = x PROVE has'[v][x] <= MaxRefs
    <3>1. has[v][x] \in Nat /\ MaxRefs \in Nat /\ v # u
      <4>1. v # u
        BY <1>4, <1>5, <2>1, Zenon
      <4>2. has \in Counts
        BY <1>1, Zenon
      <4> QED
        BY <4>1, <4>2, ThdAssumption, SMTT(60) DEF Counts
    <3>2. has[v][x] <= MaxRefs
      BY <1>1, <1>5, <2>1, <3>1, Zenon DEF UserOK
    <3> QED
      BY <1>3, <3>1, <3>2, SMTT(60)
  <2>2. ASSUME NEW x \in Areas PROVE v \in waiting'[x] <=> user'[v].at = "wait" /\ user'[v].tp = x
    <3>1. v \in waiting[x] <=> user[v].at = "wait" /\ user[v].tp = x
      BY <1>1, Zenon DEF UserOK
    <3>2. v \in waiting'[x] <=> v \in waiting[x] \/ (v = u /\ x = t /\ life[t] # "final")
      BY <1>7, SMTT(60)
    <3>3. CASE v = u
      <4>1. user'[v] = w
        BY <1>5, <3>3, Zenon
      <4> QED
        BY <1>4, <3>1, <3>2, <3>3, <4>1, Zenon
    <3>4. CASE v # u
      BY <1>5, <3>1, <3>2, <3>4
    <3> QED
      BY <3>3, <3>4
  <2>3. (user'[v].at = "idle" => user'[v] = Idle) /\ (user'[v].at # "idle" => user'[v].tp \in Areas)
        /\ (user'[v].at = "wait" => user'[v].ntp = NULL)
    BY <1>1, <1>4, <1>5, ZenonT(60) DEF UserOK
  <2> QED
    BY <2>1, <2>2, <2>3, ZenonT(60) DEF UserOK
<1>9. ThdTypeOK'
  BY <1>1, <1>2, <1>3, <1>5, <1>7, Zenon DEF ThdTypeOK
<1>10. /\ life'[main] = "alive" /\ Range(registry') = {x \in Areas : life'[x] # "none"} /\ IsInjective(registry')
       /\ \A x \in Areas : refs'[x] > 0 => life'[x] # "none"
  BY <1>1, <1>2
<1> QED
  BY <1>6, <1>8, <1>9, <1>10, ThdNextInv, Zenon

\* The first half of chRegNextThread: the current thread's reference is the
\* function's now, and the next thread has one more.
LEMMA RegNextStep ==
  ASSUME ThdInv, NEW u \in Users, NEW t \in Areas, chRegNextThread(u, t)
  PROVE  ThdInv'
<1> DEFINE i == CHOOSE m \in DOMAIN registry : registry[m] = t
           n == IF i = Len(registry) THEN NULL ELSE registry[i + 1]
           w == [at |-> "release", tp |-> t, ntp |-> n]
<1>1. /\ life \in [Areas -> {"none", "alive", "final"}] /\ refs \in [Areas -> Nat]
      /\ registry \in Seq(Areas) /\ waiting \in [Areas -> SUBSET Users]
      /\ has \in Counts /\ user \in [Users -> UserRecords] /\ life[main] = "alive"
      /\ \A v \in Users : UserOK(v)
      /\ \A x \in Areas : refs[x] = Led(has, user, x)
      /\ \A x \in Areas : refs[x] > 0 => life[x] # "none"
      /\ Range(registry) = {x \in Areas : life[x] # "none"} /\ IsInjective(registry)
  BY ThdFacts, Zenon DEF ThdTypeOK
<1>2. /\ user[u] = Idle /\ has[u][t] > 0 /\ has' = Less(has, u, t)
      /\ user' = MovedTo(user, u, w) /\ waiting' = waiting /\ life' = life /\ registry' = registry
      /\ (n # NULL => has[u][n] < MaxRefs)
      /\ refs' = IF n = NULL THEN refs ELSE [refs EXCEPT ![n] = @ + 1]
  BY SMTT(60) DEF chRegNextThread, Less, MovedTo
<1>3. /\ has' \in Counts
      /\ \A x \in Areas : Cardinality(HeldIn(has, x)) = Cardinality(HeldIn(has', x)) + (IF x = t THEN 1 ELSE 0)
      /\ \A y \in Users, x \in Areas : has'[y][x] = IF y = u /\ x = t THEN has[y][x] - 1 ELSE has[y][x]
  <2>1. has \in Counts /\ has[u][t] > 0 /\ has' = Less(has, u, t)
    BY <1>1, <1>2, Zenon
  <2> QED
    BY <2>1, OneLess, SMTT(60)
<1>4. n = NULL \/ (n \in Areas /\ n \in Range(registry))
  <2>1. t \in Range(registry)
    BY <1>2, HolderFacts, Zenon
  <2>2. \E m \in DOMAIN registry : registry[m] = t
    BY <2>1 DEF Range
  <2>3. i \in DOMAIN registry /\ registry[i] = t
    BY <2>2, Zenon
  <2> HIDE DEF i
  <2>4. CASE i = Len(registry)
    BY <2>4
  <2>5. CASE i # Len(registry)
    <3>1. i + 1 \in DOMAIN registry
      BY <1>1, <2>3, <2>5, SMTT(60)
    <3>2. n = registry[i + 1]
      BY <2>5, SMTT(60)
    <3> QED
      BY <1>1, <3>1, <3>2, SMTT(60) DEF Range
  <2> QED
    BY <2>4, <2>5
<1> HIDE DEF n, i
<1>5. /\ w \in UserRecords /\ w.tp = t /\ w.ntp = n /\ w.at = "release"
      /\ user[u].tp = NULL /\ user[u].ntp = NULL /\ user[u].at = "idle" /\ NULL \notin Areas
  <2>1. user[u] = Idle
    BY <1>2, Zenon
  <2>2. w \in UserRecords /\ w.tp = t /\ w.ntp = n /\ w.at = "release"
    BY <1>4 DEF UserRecords
  <2> HIDE DEF w
  <2>3. user[u].tp = NULL /\ user[u].ntp = NULL /\ user[u].at = "idle"
    BY <2>1 DEF Idle
  <2> QED
    BY <2>2, <2>3, ThdAssumption, Zenon
<1> HIDE DEF w
<1>6. user' \in [Users -> UserRecords] /\ user'[u] = w /\ \A v \in Users : v # u => user'[v] = user[v]
  <2>1. user \in [Users -> UserRecords] /\ w \in UserRecords /\ user' = MovedTo(user, u, w)
    BY <1>1, <1>2, <1>5, Zenon
  <2> QED
    BY <2>1, SMTT(60) DEF MovedTo
<1>7. refs' \in [Areas -> Nat] /\ \A x \in Areas : refs'[x] = refs[x] + (IF x = n THEN 1 ELSE 0)
  <2>1. CASE n = NULL
    <3>1. refs' = refs /\ \A x \in Areas : x # n
      BY <1>2, <1>5, <2>1, Zenon
    <3> QED
      BY <1>1, <3>1, SMTT(60)
  <2>2. CASE n # NULL
    <3>1. n \in Areas /\ refs' = [refs EXCEPT ![n] = @ + 1]
      BY <1>2, <1>4, <2>2, SMTT(60)
    <3> QED
      BY <1>1, <3>1, SMTT(60)
  <2> QED
    BY <2>1, <2>2, SMTT(60)
<1>8. ASSUME NEW x \in Areas PROVE refs'[x] = Led(has', user', x)
  <2>1. /\ Cardinality(HeldIn(has, x)) \in Nat /\ Cardinality(HeldIn(has', x)) \in Nat
        /\ Cardinality(TpIn(user, x)) \in Nat /\ Cardinality(NtpIn(user, x)) \in Nat
    BY SetsFinite
  <2>2. /\ Cardinality(TpIn(user', x)) = Cardinality(TpIn(user, x)) - (IF user[u].tp = x THEN 1 ELSE 0) + (IF w.tp = x THEN 1 ELSE 0)
        /\ Cardinality(NtpIn(user', x)) = Cardinality(NtpIn(user, x)) - (IF user[u].ntp = x THEN 1 ELSE 0) + (IF w.ntp = x THEN 1 ELSE 0)
    <3>1. user \in [Users -> UserRecords] /\ w \in UserRecords /\ user' = MovedTo(user, u, w)
      BY <1>1, <1>2, <1>5, Zenon
    <3> QED
      BY <3>1, UserMoves
  <2>3. user[u].tp # x /\ user[u].ntp # x /\ (w.ntp = x <=> x = n) /\ (w.tp = x <=> x = t)
    BY <1>5, SMTT(60)
  <2>4. Cardinality(HeldIn(has, x)) = Cardinality(HeldIn(has', x)) + (IF x = t THEN 1 ELSE 0)
    BY <1>3
  <2>5. Led(has', user', x) = Led(has, user, x) + (IF x = n THEN 1 ELSE 0)
    <3> DEFINE a == user[u].tp
               b == user[u].ntp
               c == w.tp
               d == w.ntp
    <3>1. a # x /\ b # x /\ (d = x <=> x = n) /\ (c = x <=> x = t)
      BY <2>3, Zenon
    <3>2. /\ Cardinality(TpIn(user', x)) = Cardinality(TpIn(user, x)) - (IF a = x THEN 1 ELSE 0) + (IF c = x THEN 1 ELSE 0)
          /\ Cardinality(NtpIn(user', x)) = Cardinality(NtpIn(user, x)) - (IF b = x THEN 1 ELSE 0) + (IF d = x THEN 1 ELSE 0)
      BY <2>2, Zenon
    <3> HIDE DEF a, b, c, d
    <3> QED
      BY <2>1, <2>4, <3>1, <3>2, SMTT(60) DEF Led
  <2> QED
    BY <1>1, <1>7, <2>5, SMTT(60)
<1>9. ASSUME NEW x \in Areas, refs'[x] > 0 PROVE life'[x] # "none"
  <2>1. CASE x = n
    <3>1. x \in Range(registry) /\ Range(registry) = {y \in Areas : life[y] # "none"} /\ life' = life
      BY <1>1, <1>2, <1>4, <1>5, <2>1, Zenon
    <3> QED
      BY <3>1
  <2>2. CASE x # n
    <3>1. x \in Areas /\ refs[x] > 0 /\ life' = life /\ \A y \in Areas : refs[y] > 0 => life[y] # "none"
      <4>1. refs'[x] = refs[x] + (IF x = n THEN 1 ELSE 0) /\ refs[x] \in Nat
        BY <1>1, <1>7, Zenon
      <4>2. refs[x] > 0
        BY <1>9, <2>2, <4>1
      <4> QED
        BY <1>1, <1>2, <4>2, Zenon
    <3> QED
      BY <3>1, Zenon
  <2> QED
    BY <2>1, <2>2, SMTT(60)
<1>10. ASSUME NEW v \in Users PROVE UserOK(v)'
  <2>1. ASSUME NEW x \in Areas, user'[v].ntp = x PROVE has'[v][x] <= MaxRefs
    <3>1. has[v][x] \in Nat /\ MaxRefs \in Nat
      BY <1>1, ThdAssumption DEF Counts
    <3>2. has[v][x] <= MaxRefs
      <4>1. CASE v = u
        <5>1. x = n /\ has[u][n] < MaxRefs
          BY <1>2, <1>5, <1>6, <2>1, <4>1, SMTT(60)
        <5> QED
          BY <3>1, <4>1, <5>1, SMTT(60)
      <4>2. CASE v # u
        BY <1>1, <1>6, <2>1, <4>2, ZenonT(60) DEF UserOK
      <4> QED
        BY <4>1, <4>2, SMTT(60)
    <3> QED
      BY <1>3, <3>1, <3>2
  <2>2. ASSUME NEW x \in Areas PROVE v \in waiting'[x] <=> user'[v].at = "wait" /\ user'[v].tp = x
    <3>1. v \in waiting[x] <=> user[v].at = "wait" /\ user[v].tp = x
      BY <1>1, Zenon DEF UserOK
    <3>2. CASE v = u
      BY <1>2, <1>5, <1>6, <3>1, <3>2, SMTT(60)
    <3>3. CASE v # u
      BY <1>2, <1>6, <3>1, <3>3, SMTT(60)
    <3> QED
      BY <3>2, <3>3
  <2>3. (user'[v].at = "idle" => user'[v] = Idle) /\ (user'[v].at # "idle" => user'[v].tp \in Areas)
        /\ (user'[v].at = "wait" => user'[v].ntp = NULL)
    <3>1. CASE v = u
      BY <1>5, <1>6, <3>1
    <3>2. CASE v # u
      BY <1>1, <1>6, <3>2, ZenonT(60) DEF UserOK
    <3> QED
      BY <3>1, <3>2, SMTT(60)
  <2> QED
    BY <2>1, <2>2, <2>3, Zenon DEF UserOK
<1>11. ThdTypeOK'
  BY <1>1, <1>2, <1>3, <1>6, <1>7, Zenon DEF ThdTypeOK
<1>12. life'[main] = "alive" /\ Range(registry') = {x \in Areas : life'[x] # "none"} /\ IsInjective(registry')
  BY <1>1, <1>2
<1> QED
  BY <1>8, <1>9, <1>10, <1>11, <1>12, ThdNextInv, ZenonT(60)

\* The last chThdRelease of chThdWait and chRegNextThread: the function's
\* reference goes, and the next thread's is its caller's.
LEMMA ReleaseLastStep ==
  ASSUME ThdInv, NEW u \in Users, ReleaseLast(u)
  PROVE  ThdInv'
<1> DEFINE t == user[u].tp
           n == user[u].ntp
           w == Idle
<1>1. /\ life \in [Areas -> {"none", "alive", "final"}] /\ refs \in [Areas -> Nat]
      /\ registry \in Seq(Areas) /\ waiting \in [Areas -> SUBSET Users]
      /\ has \in Counts /\ user \in [Users -> UserRecords] /\ life[main] = "alive"
      /\ \A v \in Users : UserOK(v)
      /\ \A x \in Areas : refs[x] = Led(has, user, x)
      /\ \A x \in Areas : refs[x] > 0 => life[x] # "none"
      /\ Range(registry) = {x \in Areas : life[x] # "none"} /\ IsInjective(registry)
  BY ThdFacts, Zenon DEF ThdTypeOK
<1>2. /\ user[u].at = "release" /\ Release(t)
      /\ user' = MovedTo(user, u, w) /\ waiting' = waiting
      /\ has' = IF n = NULL THEN has ELSE More(has, u, n)
  BY SMTT(60) DEF ReleaseLast, More, MovedTo
<1>3. t \in Areas /\ (n = NULL \/ n \in Areas) /\ NULL \notin Areas /\ (n \in Areas => has[u][n] <= MaxRefs)
  <2>1. user[u] \in UserRecords
    BY <1>1
  <2>2. UserOK(u) /\ user[u].at = "release"
    BY <1>1, <1>2, Zenon
  <2>3. t \in Areas /\ \A x \in Areas : n = x => has[u][x] <= MaxRefs
    BY <2>2, Zenon DEF UserOK
  <2>4. n \in Areas \cup {NULL}
    BY <2>1 DEF UserRecords
  <2> HIDE DEF t, n
  <2> QED
    BY <2>3, <2>4, ThdAssumption
<1>4. w \in UserRecords /\ w.tp = NULL /\ w.ntp = NULL /\ w.at = "idle"
  BY DEF UserRecords, Idle
<1>5. user' \in [Users -> UserRecords] /\ user'[u] = w /\ \A v \in Users : v # u => user'[v] = user[v]
  <2>1. user \in [Users -> UserRecords] /\ w \in UserRecords /\ user' = MovedTo(user, u, w)
    BY <1>1, <1>2, <1>4, Zenon
  <2> HIDE DEF w
  <2> QED
    BY <2>1, SMTT(60) DEF MovedTo
<1>6. refs[t] > 0
  <2>1. refs[t] = Led(has, user, t) /\ has \in Counts /\ user[u].tp = t /\ t \in Areas
    BY <1>1, <1>3, Zenon
  <2> HIDE DEF t
  <2> QED
    BY <2>1, ReferencesCount, Zenon
<1>7. /\ refs' \in [Areas -> Nat] /\ life' \in [Areas -> {"none", "alive", "final"}]
      /\ registry' \in Seq(Areas) /\ life'[main] = "alive"
      /\ \A x \in Areas : refs'[x] = IF x = t THEN refs[x] - 1 ELSE refs[x]
      /\ \A x \in Areas : refs'[x] > 0 => life'[x] # "none"
      /\ Range(registry') = {x \in Areas : life'[x] # "none"}
      /\ IsInjective(registry')
  <2>1. Release(t)
    BY <1>2, Zenon
  <2> HIDE DEF t
  <2> QED
    BY <1>3, <1>6, <2>1, ReleaseFacts, Zenon
<1>8. /\ has' \in Counts
      /\ \A x \in Areas : Cardinality(HeldIn(has', x)) = Cardinality(HeldIn(has, x)) + (IF x = n THEN 1 ELSE 0)
      /\ \A v \in Users, x \in Areas : has'[v][x] = IF v = u /\ x = n THEN has[v][x] + 1 ELSE has[v][x]
  <2>1. CASE n = NULL
    <3>1. has' = has /\ \A x \in Areas : x # n
      BY <1>2, <1>3, <2>1
    <3>2. has \in Counts
      BY <1>1, Zenon
    <3>3. \A x \in Areas : Cardinality(HeldIn(has, x)) \in Nat
      BY SetsFinite
    <3> HIDE DEF n
    <3> QED
      BY <3>1, <3>2, <3>3, SMTT(60)
  <2>2. CASE n # NULL
    <3>1. has' = More(has, u, n) /\ n \in Areas /\ has[u][n] <= MaxRefs
      BY <1>2, <1>3, <2>2, Zenon
    <3>2. has \in Counts
      BY <1>1, Zenon
    <3> HIDE DEF n
    <3> QED
      BY <3>1, <3>2, OneMore, SMTT(60)
  <2> QED
    BY <2>1, <2>2
<1>9. ASSUME NEW x \in Areas PROVE refs'[x] = Led(has', user', x)
  <2>1. /\ Cardinality(HeldIn(has, x)) \in Nat /\ Cardinality(HeldIn(has', x)) \in Nat
        /\ Cardinality(TpIn(user, x)) \in Nat /\ Cardinality(NtpIn(user, x)) \in Nat
    BY SetsFinite, SMTT(60)
  <2>2. /\ Cardinality(TpIn(user', x)) = Cardinality(TpIn(user, x)) - (IF user[u].tp = x THEN 1 ELSE 0) + (IF w.tp = x THEN 1 ELSE 0)
        /\ Cardinality(NtpIn(user', x)) = Cardinality(NtpIn(user, x)) - (IF user[u].ntp = x THEN 1 ELSE 0) + (IF w.ntp = x THEN 1 ELSE 0)
    <3>1. user \in [Users -> UserRecords] /\ w \in UserRecords /\ user' = MovedTo(user, u, w)
      BY <1>1, <1>2, <1>4, Zenon
    <3> HIDE DEF w
    <3>2. Cardinality(TpIn(user', x)) = Cardinality(TpIn(user, x)) - (IF user[u].tp = x THEN 1 ELSE 0) + (IF w.tp = x THEN 1 ELSE 0)
      BY <3>1, UserMoves, SMTT(60)
    <3>3. Cardinality(NtpIn(user', x)) = Cardinality(NtpIn(user, x)) - (IF user[u].ntp = x THEN 1 ELSE 0) + (IF w.ntp = x THEN 1 ELSE 0)
      BY <3>1, UserMoves, SMTT(60)
    <3> QED
      BY <3>2, <3>3, Zenon
  <2>3. w.ntp # x /\ w.tp # x
    BY <1>3, <1>4, SMTT(60)
  <2>4. Cardinality(HeldIn(has', x)) = Cardinality(HeldIn(has, x)) + (IF x = n THEN 1 ELSE 0)
    BY <1>8, SMTT(60)
  <2>5. Led(has', user', x) = Led(has, user, x) - (IF x = t THEN 1 ELSE 0)
    <3> HIDE DEF w, n
    <3>1. user[u].tp = t /\ user[u].ntp = n
      BY Zenon DEF t, n
    <3> HIDE DEF t
    <3> QED
      <4> DEFINE a == user[u].tp
                 b == user[u].ntp
                 c == w.tp
                 d == w.ntp
      <4>1. a = t /\ b = n /\ d # x /\ c # x
        BY <2>3, <3>1, Zenon
      <4>2. /\ Cardinality(TpIn(user', x)) = Cardinality(TpIn(user, x)) - (IF a = x THEN 1 ELSE 0) + (IF c = x THEN 1 ELSE 0)
            /\ Cardinality(NtpIn(user', x)) = Cardinality(NtpIn(user, x)) - (IF b = x THEN 1 ELSE 0) + (IF d = x THEN 1 ELSE 0)
        BY <2>2, Zenon
      <4> HIDE DEF a, b, c, d
      <4> QED
        BY <2>1, <2>4, <4>1, <4>2, SMTT(60) DEF Led
  <2> QED
    BY <1>1, <1>7, <2>5, SMTT(60)
<1>10. ASSUME NEW v \in Users PROVE UserOK(v)'
  <2>1. ASSUME NEW x \in Areas, user'[v].ntp = x PROVE has'[v][x] <= MaxRefs
    <3>1. v # u
      BY <1>3, <1>4, <1>5, <2>1, SMTT(60)
    <3>2. has[v][x] <= MaxRefs
      BY <1>1, <1>5, <2>1, <3>1, ZenonT(60) DEF UserOK
    <3> QED
      <4>1. has'[v][x] = has[v][x]
        BY <1>8, <3>1, Zenon
      <4> QED
        BY <3>2, <4>1, Zenon
  <2>2. ASSUME NEW x \in Areas PROVE v \in waiting'[x] <=> user'[v].at = "wait" /\ user'[v].tp = x
    <3>1. v \in waiting[x] <=> user[v].at = "wait" /\ user[v].tp = x
      BY <1>1, ZenonT(60) DEF UserOK
    <3>2. CASE v = u
      BY <1>2, <1>4, <1>5, <3>1, <3>2, SMTT(60)
    <3>3. CASE v # u
      BY <1>2, <1>5, <3>1, <3>3, SMTT(60)
    <3> QED
      BY <3>2, <3>3
  <2>3. (user'[v].at = "idle" => user'[v] = Idle) /\ (user'[v].at # "idle" => user'[v].tp \in Areas)
        /\ (user'[v].at = "wait" => user'[v].ntp = NULL)
    <3>1. CASE v = u
      BY <1>4, <1>5, <3>1, SMTT(60)
    <3>2. CASE v # u
      BY <1>1, <1>5, <3>2, ZenonT(60) DEF UserOK
    <3> QED
      BY <3>1, <3>2, SMTT(60)
  <2> QED
    BY <2>1, <2>2, <2>3, ZenonT(60) DEF UserOK
<1>11. ThdTypeOK'
  BY <1>1, <1>2, <1>5, <1>7, <1>8, Zenon DEF ThdTypeOK
<1> QED
  BY <1>7, <1>9, <1>10, <1>11, ThdNextInv, Zenon

\* The exit: those that wait go on, with their references.
LEMMA ThdExitStep ==
  ASSUME ThdInv, NEW t \in Areas, chThdExit(t)
  PROVE  ThdInv'
<1>1. /\ life \in [Areas -> {"none", "alive", "final"}] /\ refs \in [Areas -> Nat]
      /\ registry \in Seq(Areas) /\ waiting \in [Areas -> SUBSET Users]
      /\ has \in Counts /\ user \in [Users -> UserRecords] /\ life[main] = "alive"
      /\ \A v \in Users : UserOK(v)
      /\ \A x \in Areas : refs[x] = Led(has, user, x)
      /\ \A x \in Areas : refs[x] > 0 => life[x] # "none"
      /\ Range(registry) = {x \in Areas : life[x] # "none"} /\ IsInjective(registry)
  BY ThdFacts, Zenon DEF ThdTypeOK
<1>2. /\ life[t] = "alive" /\ t # main /\ waiting' = [waiting EXCEPT ![t] = {}]
      /\ user' = [u \in Users |-> IF u \in waiting[t] THEN [user[u] EXCEPT !.at = "release"]
                                                      ELSE user[u]]
      /\ refs' = refs /\ has' = has
  BY DEF chThdExit
<1>3. ASSUME NEW v \in Users
      PROVE  /\ user'[v] \in UserRecords
             /\ user'[v].tp = user[v].tp /\ user'[v].ntp = user[v].ntp
             /\ user'[v].at = IF v \in waiting[t] THEN "release" ELSE user[v].at
             /\ v \notin waiting[t] => user'[v] = user[v]
  <2>1. user[v] \in UserRecords
    BY <1>1
  <2> QED
    BY <1>2, <2>1, SMTT(60) DEF UserRecords
<1>4. user' \in [Users -> UserRecords]
  <2>1. user' = [v \in Users |-> user'[v]]
    BY <1>2
  <2> HIDE <1>2
  <2> QED
    BY <1>3, <2>1
<1>5. ASSUME NEW x \in Areas PROVE refs'[x] = Led(has', user', x)
  <2>1. TpIn(user', x) = TpIn(user, x) /\ NtpIn(user', x) = NtpIn(user, x)
    BY <1>3 DEF TpIn, NtpIn
  <2> QED
    BY <1>1, <1>2, <2>1, Zenon DEF Led
<1>6. waiting' \in [Areas -> SUBSET Users] /\ waiting'[t] = {} /\ \A x \in Areas : x # t => waiting'[x] = waiting[x]
  BY <1>1, <1>2
<1>7. ASSUME NEW v \in Users PROVE UserOK(v)'
  <2>1. \A x \in Areas : v \in waiting[x] <=> user[v].at = "wait" /\ user[v].tp = x
    BY <1>1, Zenon DEF UserOK
  <2>2. \A x \in Areas : v \in waiting'[x] <=> user'[v].at = "wait" /\ user'[v].tp = x
    BY <1>3, <1>6, <2>1
  <2>3. \A x \in Areas : user'[v].ntp = x => has'[v][x] <= MaxRefs
    <3>1. (\A x \in Areas : user[v].ntp = x => has[v][x] <= MaxRefs) /\ user'[v].ntp = user[v].ntp /\ has' = has
      BY <1>1, <1>2, <1>3, SMTT(60) DEF UserOK
    <3> QED
      BY <3>1, Zenon
  <2>4. (user'[v].at = "idle" => user'[v] = Idle) /\ (user'[v].at # "idle" => user'[v].tp \in Areas)
        /\ (user'[v].at = "wait" => user'[v].ntp = NULL)
    <3>1. CASE v \in waiting[t]
      <4>1. UserOK(v) /\ user'[v].at = "release" /\ user'[v].tp = user[v].tp /\ user'[v].ntp = user[v].ntp
            /\ user[v].at = "wait"
        BY <1>1, <1>3, <2>1, <3>1, ZenonT(60)
      <4> QED
        BY <4>1, ZenonT(60) DEF UserOK
    <3>2. CASE v \notin waiting[t]
      <4>1. user'[v] = user[v] /\ UserOK(v)
        BY <1>1, <1>3, <3>2, Zenon
      <4> QED
        BY <4>1, ZenonT(60) DEF UserOK
    <3> QED
      BY <3>1, <3>2, SMTT(60)
  <2> QED
    BY <2>2, <2>3, <2>4, Zenon DEF UserOK
<1>8. /\ life' \in [Areas -> {"none", "alive", "final"}] /\ life'[main] = "alive" /\ registry' \in Seq(Areas)
      /\ Range(registry') = {x \in Areas : life'[x] # "none"} /\ IsInjective(registry')
      /\ \A x \in Areas : refs[x] > 0 => life'[x] # "none"
  <2>1. t \in Range(registry)
    BY <1>1, <1>2, SMTT(60)
  <2>2. CASE refs[t] = 0 /\ t \notin Dynamic
    <3>1. registry' = Without(registry, t) /\ life' = [life EXCEPT ![t] = "none"]
      BY <2>2, SMTT(60) DEF chThdExit
    <3>2. registry' \in Seq(Areas) /\ IsInjective(registry') /\ Range(registry') = Range(registry) \ {t}
      BY <1>1, <2>1, <3>1, WithoutFacts, SMTT(60)
    <3>3. /\ life' \in [Areas -> {"none", "alive", "final"}] /\ life'[t] = "none" /\ life'[main] = "alive"
          /\ \A x \in Areas : x # t => life'[x] = life[x]
      BY <1>1, <1>2, <3>1, ThdAssumption, SMTT(60)
    <3>4. Range(registry') = {x \in Areas : life'[x] # "none"}
      BY <1>1, <3>2, <3>3, SMTT(60)
    <3>5. \A x \in Areas : refs[x] > 0 => x # t /\ life[x] # "none"
      BY <1>1, <2>2, SMTT(60)
    <3> QED
      BY <3>2, <3>3, <3>4, <3>5, SMTT(60)
  <2>3. CASE ~(refs[t] = 0 /\ t \notin Dynamic)
    <3>1. registry' = registry /\ life' = [life EXCEPT ![t] = "final"]
      BY <2>3 DEF chThdExit
    <3>2. /\ life' \in [Areas -> {"none", "alive", "final"}] /\ life'[t] = "final" /\ life'[main] = "alive"
          /\ \A x \in Areas : x # t => life'[x] = life[x]
      BY <1>1, <1>2, <3>1, ThdAssumption, SMTT(60)
    <3>3. Range(registry') = {x \in Areas : life'[x] # "none"}
      BY <1>1, <1>2, <3>1, <3>2, SMTT(60)
    <3> QED
      BY <1>1, <3>1, <3>2, <3>3, SMTT(60)
  <2> QED
    BY <2>2, <2>3
<1>9. ThdTypeOK'
  BY <1>1, <1>2, <1>4, <1>6, <1>8, ZenonT(60) DEF ThdTypeOK
<1>10. \A x \in Areas : refs'[x] > 0 => life'[x] # "none"
  BY <1>2, <1>8, Zenon
<1> QED
  BY <1>5, <1>7, <1>8, <1>9, <1>10, ThdNextInv, Zenon

\* The main thread alone, with the reference of its own life.
LEMMA ThdStart == ThdInit => ThdInv
<1> SUFFICES ASSUME ThdInit PROVE ThdInv
  OBVIOUS
<1>1. /\ main \in Areas /\ MaxRefs \in Nat /\ NULL \notin Areas
      /\ life = [t \in Areas |-> IF t = main THEN "alive" ELSE "none"]
      /\ refs = [t \in Areas |-> IF t = main THEN 1 ELSE 0] /\ registry = <<main>>
      /\ waiting = [t \in Areas |-> {}] /\ has = [u \in Users |-> [t \in Areas |-> 0]]
      /\ user = [u \in Users |-> Idle]
  BY ThdAssumption DEF ThdInit
<1>2. has \in Counts
  BY <1>1, SMTT(60) DEF Counts
<1>3. user \in [Users -> UserRecords]
  BY <1>1 DEF UserRecords, Idle
<1>4. ThdTypeOK
  <2>1. life \in [Areas -> {"none", "alive", "final"}] /\ refs \in [Areas -> Nat] /\ registry \in Seq(Areas)
        /\ waiting \in [Areas -> SUBSET Users]
    BY <1>1, SMTT(60)
  <2> QED
    BY <1>2, <1>3, <2>1, Zenon DEF ThdTypeOK
<1>5. \A u \in Users : UserOK(u)
  BY <1>1, SMTT(60) DEF UserOK, Idle
<1>6. Range(registry) = {t \in Areas : life[t] # "none"} /\ IsInjective(registry)
  <2>1. DOMAIN registry = {1} /\ registry[1] = main
    BY <1>1, SMTT(60)
  <2>2. Range(registry) = {main}
    BY <2>1, SMTT(60) DEF Range
  <2> QED
    BY <1>1, <2>1, <2>2, SMTT(60) DEF IsInjective
<1>7. ASSUME NEW t \in Areas
      PROVE  refs[t] = References(t) + One(t = main) /\ (refs[t] > 0 => life[t] # "none")
  <2>1. HeldIn(has, t) = {} /\ TpIn(user, t) = {} /\ NtpIn(user, t) = {}
    BY <1>1 DEF HeldIn, TpIn, NtpIn, Idle
  <2>2. References(t) = 0
    BY <2>1, ReferencesAre, FS_EmptySet
  <2>3. refs[t] = One(t = main)
    BY <1>1, Zenon DEF One
  <2>4. One(t = main) \in Nat
    BY Zenon DEF One
  <2>5. refs[t] > 0 => life[t] # "none"
    BY <1>1
  <2> QED
    BY <2>2, <2>3, <2>4, <2>5, SMTT(60)
<1>8. life[main] = "alive"
  BY <1>1
<1> QED
  BY <1>4, <1>5, <1>6, <1>7, <1>8, ZenonT(60) DEF ThdInv, LifeAccounted

\* Every step of ThdNext keeps the invariant.
LEMMA ThdStep ==
  ASSUME ThdInv, [ThdNext]_thdvars
  PROVE  ThdInv'
<1>1. ASSUME NEW u \in Users, NEW t \in Areas,
             Create(u, t) \/ chThdRelease(u, t) \/ chThdWait(u, t) \/ chRegNextThread(u, t)
      PROVE  ThdInv'
  BY <1>1, CreateStep, ReleaseStep, ThdWaitStep, RegNextStep, Zenon
<1>2. ASSUME NEW u \in Users, NEW v \in Users, NEW t \in Areas, chThdAddRef(u, v, t) PROVE ThdInv'
  BY <1>2, AddRefStep, Zenon
<1>3. ASSUME NEW u \in Users, ReleaseLast(u) \/ chRegFirstThread(u) PROVE ThdInv'
  BY <1>3, ReleaseLastStep, RegFirstStep, Zenon
<1>4. ASSUME NEW t \in Areas, chThdExit(t) PROVE ThdInv'
  BY <1>4, ThdExitStep, Zenon
<1>5. CASE UNCHANGED thdvars
  <2>1. life' = life /\ refs' = refs /\ registry' = registry /\ waiting' = waiting /\ has' = has /\ user' = user
    BY <1>5 DEF thdvars
  <2>2. \A t : References(t)' = References(t)
    BY <2>1, Zenon DEF References
  <2>3. LifeAccounted'
    BY <2>1, <2>2, Zenon DEF ThdInv, LifeAccounted
  <2>4. ThdTypeOK' /\ \A u \in Users : UserOK(u)'
    BY <2>1, Zenon DEF ThdInv, ThdTypeOK, UserOK
  <2> QED
    BY <2>1, <2>3, <2>4, Zenon DEF ThdInv
<1> QED
  BY <1>1, <1>2, <1>3, <1>4, <1>5, Zenon DEF ThdNext

\* The counter of a thread is the number of references that lead to it, no
\* reference leads to memory that was given back, and the registry lists the
\* threads whose memory is in use once each, whatever the order in which its
\* users create, add, release, wait and scan and in which it exits.
THEOREM LifeIsAccounted == ThdSpec => []LifeAccounted
<1>1. ThdInit => ThdInv
  BY ThdStart
<1>2. ThdInv /\ [ThdNext]_thdvars => ThdInv'
  BY ThdStep
<1>3. ThdInv => LifeAccounted
  BY DEF ThdInv
<1> QED
  BY <1>1, <1>2, <1>3, PTL DEF ThdSpec

-----------------------------------------------------------------------------
(* Pipes: the parts of the invariant *)

PipeThreads == Writers \cup Readers
ByteSet == Writers \X Nat
CallRecords == [at : {"none", "lock", "loop", "suspend", "asleep", "woken", "resume"},
                n : Nat, of : Nat, msg : {"MSG_OK", "MSG_TIMEOUT", "MSG_RESET"}]

PipeRecords == [buffer : [0 .. Size - 1 -> ByteSet \cup {None}], rd : 0 .. Size - 1,
                wr : 0 .. Size - 1, used : 0 .. Size, reset : BOOLEAN, resetting : BOOLEAN]

PipeTypeOK ==
  /\ pipe \in PipeRecords
  /\ own \in [{"write", "read"} -> PipeThreads \cup {None}]
  /\ ref \in [{"write", "read"} -> PipeThreads \cup {None}]
  /\ io \in [PipeThreads -> CallRecords]
  /\ sent \in Seq(ByteSet)

\* The place of the byte i bytes behind p.
Place(p, i) == IF p + i < Size THEN p + i ELSE p + i - Size

\* A ring with c bytes q from the place r on, and w the place behind them.
RingIs(b, r, w, c, q) ==
  /\ Len(q) = c
  /\ \A i \in 1 .. c : q[i] = b[Place(r, i - 1)]
  /\ w = Place(r, c)

RingOK == RingIs(pipe.buffer, pipe.rd, pipe.wr, pipe.used, sent)

\* A thread inside of a function has the mutex of its side, and one that has not
\* entered has transferred nothing.
InsideOK ==
  \A t \in PipeThreads :
    /\ io[t].at \in {"none", "lock"} => io[t].n = io[t].of
    /\ io[t].at \notin {"none", "lock"} => own[Side(t)] = t
    /\ io[t].n <= io[t].of

\* A reference leads to a thread of its side, that sleeps.
RefOK ==
  \A side \in {"write", "read"} :
    ref[side] # None => Side(ref[side]) = side /\ io[ref[side]].at = "asleep"

\* The bytes of a call are together.
TogetherOK ==
  \A t \in Writers : io[t].n < io[t].of /\ sent # <<>> => sent[Len(sent)] = <<t, io[t].n>>

\* Inductive.
PipeInv == PipeTypeOK /\ RingOK /\ InsideOK /\ RefOK /\ TogetherOK

\* Remainders of sums that are less than twice the size.
LEMMA Remainder ==
  ASSUME NEW n \in Nat, n > 0, NEW a \in Nat, a < 2 * n
  PROVE  a % n = IF a < n THEN a ELSE a - n
<1>1. CASE a < n
  BY <1>1
<1>2. CASE a >= n
  BY <1>2
<1> QED
  BY <1>1, <1>2

\* The pointer behind k bytes is where the place k bytes behind is.
LEMMA PlaceFacts ==
  ASSUME NEW p \in 0 .. Size - 1, NEW k \in 0 .. Size
  PROVE  /\ Place(p, k) \in 0 .. Size - 1
         /\ (p + k) % Size = Place(p, k)
         /\ Advance(p, k) = Place(p, k)
<1>1. Size \in Nat /\ Size > 0 /\ p \in Nat /\ p < Size /\ k \in Nat /\ k <= Size
  BY PipeAssumption
<1>2. Place(p, k) \in 0 .. Size - 1
  BY <1>1 DEF Place
<1>3. (p + k) % Size = Place(p, k)
  BY <1>1, Remainder DEF Place
<1>4. Advance(p, k) = Place(p, k)
  <2>1. CASE k < Size - p
    <3>1. Advance(p, k) = p + k
      <4>1. ~(k > Size - p) /\ ~(k = Size - p)
        BY <1>1, <2>1
      <4> QED
        BY <2>1, <4>1, Zenon DEF Advance
    <3> QED
      BY <1>1, <2>1, <3>1 DEF Place
  <2>2. CASE k > Size - p
    <3>1. Advance(p, k) = k - (Size - p)
      <4>1. ~(k < Size - p) /\ ~(k = Size - p)
        BY <1>1, <2>2
      <4> QED
        BY <2>2, <4>1, Zenon DEF Advance
    <3> QED
      BY <1>1, <2>2, <3>1 DEF Place
  <2>3. CASE k = Size - p
    <3>1. Advance(p, k) = 0
      <4>1. ~(k < Size - p) /\ ~(k > Size - p)
        BY <1>1, <2>3
      <4> QED
        BY <2>3, <4>1, Zenon DEF Advance
    <3> QED
      BY <1>1, <2>3, <3>1 DEF Place
  <2> QED
    BY <1>1, <2>1, <2>2, <2>3
<1> QED
  BY <1>2, <1>3, <1>4

\* Places behind places.
LEMMA PlaceSum ==
  ASSUME NEW p \in 0 .. Size - 1, NEW a \in 0 .. Size, NEW b \in 0 .. Size
  PROVE  /\ a + b <= Size => Place(Place(p, a), b) = Place(p, a + b)
         /\ a + b >= Size => Place(Place(p, a), b) = Place(p, a + b - Size)
<1>1. Size \in Nat /\ Size > 0
  BY PipeAssumption
<1> QED
  BY <1>1 DEF Place

\* One sequence after another, and the end of a sequence.
LEMMA Joined ==
  ASSUME NEW S, NEW q \in Seq(S), NEW s \in Seq(S)
  PROVE  /\ q \o s \in Seq(S) /\ Len(q \o s) = Len(q) + Len(s)
         /\ \A i \in 1 .. Len(q) : (q \o s)[i] = q[i]
         /\ \A i \in Len(q) + 1 .. Len(q) + Len(s) : (q \o s)[i] = s[i - Len(q)]
  OBVIOUS

\* The end of a sequence, without its first k elements.
LEMMA EndOf ==
  ASSUME NEW S, NEW q \in Seq(S), NEW k \in 0 .. Len(q)
  PROVE  /\ SubSeq(q, k + 1, Len(q)) \in Seq(S) /\ Len(SubSeq(q, k + 1, Len(q))) = Len(q) - k
         /\ \A i \in 1 .. Len(q) - k : SubSeq(q, k + 1, Len(q))[i] = q[k + i]
  OBVIOUS

\* The smaller of two numbers.
LEMMA MinOfTwo ==
  ASSUME NEW a \in Nat, NEW b \in Nat
  PROVE  Min({a, b}) \in Nat /\ Min({a, b}) <= a /\ Min({a, b}) <= b
<1>1. \E x \in {a, b} : \A y \in {a, b} : x =< y
  BY SMT
<1>2. Min({a, b}) \in {a, b} /\ \A y \in {a, b} : Min({a, b}) =< y
  BY <1>1, Zenon DEF Min
<1> QED
  BY <1>2

\* The two memcpy of pipe_write: the bytes follow each other from the place p,
\* and the rest of the buffer is as it was.
LEMMA StoredFacts ==
  ASSUME NEW p \in 0 .. Size - 1, NEW s \in Seq(ByteSet), Len(s) <= Size,
         pipe.buffer \in [0 .. Size - 1 -> ByteSet \cup {None}]
  PROVE  /\ Stored(p, s) \in [0 .. Size - 1 -> ByteSet \cup {None}]
         /\ \A j \in 0 .. Size - 1 :
              Stored(p, s)[Place(p, j)] = IF j < Len(s) THEN s[j + 1] ELSE pipe.buffer[Place(p, j)]
<1> DEFINE I(q) == IF q >= p THEN q - p ELSE q + (Size - p)
<1>1. Size \in Nat /\ Size > 0 /\ p \in Nat /\ p < Size /\ Len(s) \in Nat
  BY PipeAssumption
<1>2. Stored(p, s) = [q \in 0 .. Size - 1 |-> IF I(q) < Len(s) THEN s[I(q) + 1] ELSE pipe.buffer[q]]
  BY DEF Stored
<1>3. \A q \in 0 .. Size - 1 : I(q) \in 0 .. Size - 1
  BY <1>1
<1>4. \A q \in 0 .. Size - 1 : I(q) < Len(s) => s[I(q) + 1] \in ByteSet
  <2> TAKE q \in 0 .. Size - 1
  <2>1. I(q) \in 0 .. Size - 1
    BY <1>3
  <2> HIDE DEF I
  <2> QED
    BY <1>1, <2>1
<1>5. ASSUME NEW j \in 0 .. Size - 1 PROVE Place(p, j) \in 0 .. Size - 1 /\ I(Place(p, j)) = j
  BY <1>1 DEF Place
<1> HIDE DEF I
<1>6. Stored(p, s) \in [0 .. Size - 1 -> ByteSet \cup {None}]
  BY <1>2, <1>4, Zenon
<1>7. ASSUME NEW j \in 0 .. Size - 1
      PROVE  Stored(p, s)[Place(p, j)] = IF j < Len(s) THEN s[j + 1] ELSE pipe.buffer[Place(p, j)]
  BY <1>2, <1>5, SMTT(60)
<1> QED
  BY <1>6, <1>7

\* The bytes that a call writes.
LEMMA BytesFacts ==
  ASSUME NEW t \in Writers, io[t].n \in Nat, NEW k \in 0 .. io[t].n
  PROVE  /\ Bytes(t, k) \in Seq(ByteSet) /\ Len(Bytes(t, k)) = k
         /\ \A i \in 1 .. k : Bytes(t, k)[i] = <<t, io[t].n - i>>
<1>1. k \in Nat /\ \A i \in 1 .. k : <<t, io[t].n - i>> \in ByteSet
  BY DEF ByteSet
<1> QED
  BY <1>1 DEF Bytes

\* A ring in which the bytes s have been put behind the others.
LEMMA RingGrows ==
  ASSUME NEW b, NEW r \in 0 .. Size - 1, NEW w, NEW c \in 0 .. Size, NEW q \in Seq(ByteSet),
         RingIs(b, r, w, c, q), NEW s \in Seq(ByteSet), Len(s) <= Size - c, NEW b2,
         \A j \in 0 .. Size - 1 : b2[Place(w, j)] = IF j < Len(s) THEN s[j + 1] ELSE b[Place(w, j)]
  PROVE  RingIs(b2, r, Place(w, Len(s)), c + Len(s), q \o s)
<1> DEFINE k == Len(s)
<1>1. /\ Size \in Nat /\ Size > 0 /\ k \in Nat /\ k \in 0 .. Size /\ c + k \in 0 .. Size
      /\ c \in Nat /\ c <= Size /\ c + k <= Size
  BY PipeAssumption
<1>2. Len(q) = c /\ (\A i \in 1 .. c : q[i] = b[Place(r, i - 1)]) /\ w = Place(r, c)
  BY DEF RingIs
<1>3. /\ Len(q \o s) = c + k
      /\ \A i \in 1 .. c : (q \o s)[i] = q[i]
      /\ \A i \in c + 1 .. c + k : (q \o s)[i] = s[i - c]
  <2>1. /\ Len(q \o s) = Len(q) + Len(s)
        /\ \A i \in 1 .. Len(q) : (q \o s)[i] = q[i]
        /\ \A i \in Len(q) + 1 .. Len(q) + Len(s) : (q \o s)[i] = s[i - Len(q)]
    BY Joined, Zenon
  <2> QED
    BY <1>2, <2>1, Zenon
<1> HIDE DEF k
<1>4. Place(w, k) = Place(r, c + k)
  BY <1>1, <1>2, PlaceSum
<1>5. ASSUME NEW i \in 1 .. c + k PROVE (q \o s)[i] = b2[Place(r, i - 1)]
  <2>0. i \in Nat /\ i >= 1 /\ i <= c + k
    BY <1>1
  <2>1. CASE i <= c
    <3> DEFINE j == i - 1 + Size - c
    <3>1. (q \o s)[i] = b[Place(r, i - 1)]
      BY <1>1, <1>2, <1>3, <2>0, <2>1, SMTT(60)
    <3>2. j \in 0 .. Size - 1 /\ j \in 0 .. Size /\ ~(j < k) /\ c + j >= Size /\ c + j - Size = i - 1
      BY <1>1, <2>0, <2>1
    <3> HIDE DEF j
    <3>3. Place(w, j) = Place(r, i - 1)
      <4>1. Place(Place(r, c), j) = Place(r, c + j - Size)
        BY <3>2, PlaceSum, Zenon
      <4> QED
        BY <1>2, <3>2, <4>1, Zenon
    <3> QED
      BY <3>1, <3>2, <3>3 DEF k
  <2>2. CASE i > c
    <3> DEFINE j == i - 1 - c
    <3>1. i \in c + 1 .. c + k
      BY <1>1, <2>0, <2>2
    <3>2. j \in 0 .. Size - 1 /\ j \in 0 .. Size /\ j < k /\ c + j <= Size /\ c + j = i - 1 /\ j + 1 = i - c
      BY <1>1, <2>0, <2>2
    <3> HIDE DEF j
    <3>3. Place(w, j) = Place(r, i - 1)
      <4>1. Place(Place(r, c), j) = Place(r, c + j)
        BY <3>2, PlaceSum, Zenon
      <4> QED
        BY <1>2, <3>2, <4>1, Zenon
    <3> QED
      BY <1>3, <3>1, <3>2, <3>3, SMTT(60) DEF k
  <2>3. i <= c \/ i > c
    BY <1>1, <2>0
  <2> QED
    BY <2>1, <2>2, <2>3, Zenon
<1> QED
  BY <1>3, <1>4, <1>5 DEF RingIs, k

\* A ring from which the first k bytes have been taken.
Rest(q, k) == SubSeq(q, k + 1, Len(q))

\* Taking k bytes moves the start of the ring behind them.
LEMMA RingShrinks ==
  ASSUME NEW b, NEW r \in 0 .. Size - 1, NEW w, NEW c \in 0 .. Size, NEW q \in Seq(ByteSet),
         RingIs(b, r, w, c, q), NEW k \in 0 .. c
  PROVE  /\ RingIs(b, Place(r, k), w, c - k, Rest(q, k))
         /\ Rest(q, k) \in Seq(ByteSet)
<1> DEFINE u == Rest(q, k)
<1>1. Size \in Nat /\ Size > 0 /\ k \in Nat /\ k <= c /\ c \in Nat /\ c <= Size /\ k \in 0 .. Size /\ c - k \in 0 .. Size
  BY PipeAssumption
<1>2. Len(q) = c /\ (\A i \in 1 .. c : q[i] = b[Place(r, i - 1)]) /\ w = Place(r, c)
  BY DEF RingIs
<1>3. u \in Seq(ByteSet) /\ Len(u) = c - k /\ \A i \in 1 .. c - k : u[i] = q[k + i]
  BY <1>2, EndOf, Zenon DEF Rest
<1> HIDE DEF u
<1>4. w = Place(Place(r, k), c - k)
  <2>1. k + (c - k) = c /\ k + (c - k) <= Size
    BY <1>1
  <2>2. Place(Place(r, k), c - k) = Place(r, k + (c - k))
    BY <1>1, <2>1, PlaceSum, Zenon
  <2> QED
    BY <1>2, <2>1, <2>2, Zenon
<1>5. ASSUME NEW i \in 1 .. c - k PROVE u[i] = b[Place(Place(r, k), i - 1)]
  <2>1. /\ k + i \in 1 .. c /\ i - 1 \in 0 .. Size /\ k + (i - 1) <= Size /\ k + (i - 1) = (k + i) - 1
    BY <1>1
  <2>2. Place(Place(r, k), i - 1) = Place(r, (k + i) - 1)
    BY <1>1, <2>1, PlaceSum
  <2> QED
    BY <1>2, <1>3, <2>1, <2>2, SMTT(60)
<1> QED
  BY <1>3, <1>4, <1>5 DEF RingIs, u

\* What is left of a sequence has the same last element.
LEMMA LastKept ==
  ASSUME NEW q \in Seq(ByteSet), NEW k \in 0 .. Len(q), Rest(q, k) # <<>>
  PROVE  q # <<>> /\ Rest(q, k)[Len(Rest(q, k))] = q[Len(q)]
<1> DEFINE u == Rest(q, k)
           n == Len(q)
<1>1. u \in Seq(ByteSet) /\ Len(u) = n - k /\ \A i \in 1 .. n - k : u[i] = q[k + i]
  BY EndOf DEF Rest
<1>2. u # <<>> /\ n \in Nat /\ k \in Nat /\ k <= n
  OBVIOUS
<1> HIDE DEF u, n
<1>3. Len(u) # 0
  BY <1>1, <1>2
<1>4. n - k \in 1 .. n - k /\ k + (n - k) = n /\ n # 0
  BY <1>1, <1>2, <1>3
<1> QED
  BY <1>1, <1>4, SMTT(60) DEF u, n

\* A step of t inside of its function: other threads keep what they have, and at
\* most one that sleeps is woken; t keeps or leaves the mutex of its side, or it
\* gets it when nobody has it.
TurnOf(t) ==
  /\ \A x \in PipeThreads \ {t} :
       /\ io'[x].n = io[x].n /\ io'[x].of = io[x].of
       /\ io'[x].at = io[x].at \/ (io[x].at = "asleep" /\ io'[x].at = "woken")
  /\ \A side \in {"write", "read"} : side # Side(t) => own'[side] = own[side]
  /\ own[Side(t)] = own'[Side(t)] \/ own[Side(t)] \in {None, t}

\* A thread is on one side, the reader opposite the writer.
LEMMA SideIs ==
  /\ "write" # "read"
  /\ \A t \in PipeThreads : Side(t) \in {"write", "read"} /\ Other(t) \in {"write", "read"} /\ Side(t) # Other(t)
BY DEF Side, Other

\* Such a step keeps the mutexes right if it is right about t.
LEMMA TurnInside ==
  ASSUME InsideOK, NEW t \in PipeThreads, TurnOf(t),
         None \notin PipeThreads,
         io'[t].at \in {"none", "lock"} => io'[t].n = io'[t].of,
         io'[t].at \notin {"none", "lock"} => own'[Side(t)] = t,
         io'[t].n <= io'[t].of
  PROVE  InsideOK'
<1>1. ASSUME NEW x \in PipeThreads
      PROVE  /\ io'[x].at \in {"none", "lock"} => io'[x].n = io'[x].of
             /\ io'[x].at \notin {"none", "lock"} => own'[Side(x)] = x
             /\ io'[x].n <= io'[x].of
  <2>1. CASE x = t
    BY <2>1
  <2>2. CASE x # t
    <3>1. /\ io'[x].n = io[x].n /\ io'[x].of = io[x].of
          /\ io'[x].at = io[x].at \/ (io[x].at = "asleep" /\ io'[x].at = "woken")
      BY <2>2 DEF TurnOf
    <3>2. /\ io[x].at \in {"none", "lock"} => io[x].n = io[x].of
          /\ io[x].at \notin {"none", "lock"} => own[Side(x)] = x
          /\ io[x].n <= io[x].of
      BY DEF InsideOK
    <3>3. ASSUME own[Side(x)] = x PROVE own'[Side(x)] = x
      <4>1. CASE Side(x) = Side(t)
        BY <2>2, <3>3, <4>1 DEF TurnOf
      <4>2. CASE Side(x) # Side(t)
        BY <3>3, <4>2, SideIs DEF TurnOf
      <4> QED
        BY <4>1, <4>2
    <3> QED
      BY <3>1, <3>2, <3>3
  <2> QED
    BY <2>1, <2>2
<1> QED
  BY <1>1, Zenon DEF InsideOK, Side

\* A step that leaves the bytes alone, or takes the first ones, keeps the bytes
\* of a call together.
LEMMA TurnTogether ==
  ASSUME TogetherOK, NEW t \in PipeThreads, TurnOf(t),
         t \in Writers /\ io'[t].n < io'[t].of => io[t].n < io[t].of /\ io'[t].n = io[t].n,
         sent' # <<>> => sent # <<>> /\ sent'[Len(sent')] = sent[Len(sent)]
  PROVE  TogetherOK'
<1>1. ASSUME NEW x \in Writers, io'[x].n < io'[x].of, sent' # <<>>
      PROVE  sent'[Len(sent')] = <<x, io'[x].n>>
  <2>1. x \in PipeThreads
    BY DEF PipeThreads
  <2>2. io'[x].n = io[x].n /\ io[x].n < io[x].of
    <3>1. CASE x = t
      BY <1>1, <3>1
    <3>2. CASE x # t
      BY <1>1, <2>1, <3>2 DEF TurnOf
    <3> QED
      BY <3>1, <3>2
  <2>3. sent[Len(sent)] = <<x, io[x].n>>
    BY <1>1, <2>2, Zenon DEF TogetherOK
  <2> QED
    BY <1>1, <2>2, <2>3
<1> QED
  BY <1>1, Zenon DEF TogetherOK

\* The ring and what was sent are as they were.
LEMMA RingKept ==
  ASSUME RingOK, sent' = sent, pipe'.buffer = pipe.buffer, pipe'.rd = pipe.rd,
         pipe'.wr = pipe.wr, pipe'.used = pipe.used
  PROVE  RingOK'
BY DEF RingOK, RingIs, Place

\* The test of the reset state, before the mutex.
LEMMA BeginStep ==
  ASSUME PipeInv, NEW t \in PipeThreads, NEW n \in 1 .. MaxBytes, Begin(t, n)
  PROVE  PipeInv'
<1> DEFINE c == [at |-> "lock", n |-> n, of |-> n, msg |-> "MSG_OK"]
<1>1. /\ pipe \in PipeRecords
      /\ own \in [{"write", "read"} -> PipeThreads \cup {None}]
      /\ ref \in [{"write", "read"} -> PipeThreads \cup {None}]
      /\ io \in [PipeThreads -> CallRecords] /\ sent \in Seq(ByteSet)
      /\ RingOK /\ InsideOK /\ RefOK /\ TogetherOK /\ None \notin PipeThreads
  BY PipeAssumption, Zenon DEF PipeInv, PipeTypeOK, PipeThreads
<1>2. /\ io[t] \in CallRecords /\ io[t].n \in Nat /\ io[t].of \in Nat
      /\ Side(t) \in {"write", "read"} /\ Other(t) \in {"write", "read"} /\ Side(t) # Other(t)
  BY <1>1, SideIs, SMTT(60) DEF CallRecords
<1>3. /\ io[t].at = "none" /\ io' = [io EXCEPT ![t] = c]
      /\ pipe' = pipe /\ own' = own /\ ref' = ref /\ sent' = sent
  BY DEF Begin
<1>4. n \in Nat /\ c \in CallRecords /\ c.at = "lock" /\ c.n = n /\ c.of = n
  BY PipeAssumption DEF CallRecords
<1> HIDE DEF c
<1>5. io' \in [PipeThreads -> CallRecords] /\ io'[t] = c /\ \A x \in PipeThreads : x # t => io'[x] = io[x]
  BY <1>1, <1>3, <1>4
<1>6. TurnOf(t)
  BY <1>3, <1>5 DEF TurnOf
<1>7. InsideOK'
  BY <1>1, <1>4, <1>5, <1>6, TurnInside
<1>8. TogetherOK'
  BY <1>1, <1>3, <1>4, <1>5, <1>6, TurnTogether
<1>9. RefOK'
  BY <1>1, <1>3, <1>5 DEF RefOK, Side
<1>10. RingOK'
  BY <1>1, <1>3, RingKept
<1>11. PipeTypeOK'
  BY <1>1, <1>3, <1>5, Zenon DEF PipeTypeOK
<1> QED
  BY <1>7, <1>8, <1>9, <1>10, <1>11, Zenon DEF PipeInv

\* PW_LOCK and PR_LOCK: the mutex of the side was free.
LEMMA LockStep ==
  ASSUME PipeInv, NEW t \in PipeThreads, Lock(t)
  PROVE  PipeInv'
<1>1. /\ pipe \in PipeRecords
      /\ own \in [{"write", "read"} -> PipeThreads \cup {None}]
      /\ ref \in [{"write", "read"} -> PipeThreads \cup {None}]
      /\ io \in [PipeThreads -> CallRecords] /\ sent \in Seq(ByteSet)
      /\ RingOK /\ InsideOK /\ RefOK /\ TogetherOK /\ None \notin PipeThreads
  BY PipeAssumption, Zenon DEF PipeInv, PipeTypeOK, PipeThreads
<1>2. /\ io[t] \in CallRecords /\ io[t].n \in Nat /\ io[t].of \in Nat
      /\ Side(t) \in {"write", "read"} /\ Other(t) \in {"write", "read"} /\ Side(t) # Other(t)
  BY <1>1, SideIs, SMTT(60) DEF CallRecords
<1>3. /\ io[t].at = "lock" /\ own[Side(t)] = None /\ own' = [own EXCEPT ![Side(t)] = t]
      /\ io' = [io EXCEPT ![t].at = "loop"]
      /\ pipe' = pipe /\ ref' = ref /\ sent' = sent
  BY DEF Lock
<1>4. /\ io'[t] \in CallRecords /\ io'[t].at = "loop" /\ io'[t].n = io[t].n /\ io'[t].of = io[t].of
      /\ io' \in [PipeThreads -> CallRecords] /\ \A x \in PipeThreads : x # t => io'[x] = io[x]
  BY <1>1, <1>2, <1>3, Zenon DEF CallRecords
<1>5. /\ own' \in [{"write", "read"} -> PipeThreads \cup {None}] /\ own'[Side(t)] = t
      /\ \A side \in {"write", "read"} : side # Side(t) => own'[side] = own[side]
  BY <1>1, <1>2, <1>3
<1>6. TurnOf(t)
  BY <1>3, <1>4, <1>5 DEF TurnOf
<1>7. InsideOK'
  <2>1. io[t].n <= io[t].of
    BY <1>1 DEF InsideOK
  <2> QED
    BY <1>1, <1>4, <1>5, <1>6, <2>1, TurnInside
<1>8. TogetherOK'
  BY <1>1, <1>3, <1>4, <1>6, TurnTogether
<1>9. RefOK'
  BY <1>1, <1>3, <1>4 DEF RefOK, Side
<1>10. RingOK'
  BY <1>1, <1>3, RingKept
<1>11. PipeTypeOK'
  BY <1>1, <1>3, <1>4, <1>5, Zenon DEF PipeTypeOK
<1> QED
  BY <1>7, <1>8, <1>9, <1>10, <1>11, Zenon DEF PipeInv

\* What pipe_write and pipe_read do to the call of t.
LEMMA TransferCall ==
  ASSUME PipeInv, NEW t \in PipeThreads, io[t].at = "loop", NEW k \in 0 .. io[t].n, own' = own, ref' = ref,
         io' = [io EXCEPT ![t].at = IF k = 0 THEN "suspend" ELSE "resume", ![t].n = @ - k]
  PROVE  /\ io' \in [PipeThreads -> CallRecords] /\ io'[t].n = io[t].n - k /\ io'[t].of = io[t].of
         /\ \A x \in PipeThreads : x # t => io'[x] = io[x]
         /\ TurnOf(t) /\ InsideOK' /\ RefOK'
<1>1. /\ pipe \in PipeRecords
      /\ own \in [{"write", "read"} -> PipeThreads \cup {None}]
      /\ ref \in [{"write", "read"} -> PipeThreads \cup {None}]
      /\ io \in [PipeThreads -> CallRecords] /\ sent \in Seq(ByteSet)
      /\ RingOK /\ InsideOK /\ RefOK /\ TogetherOK /\ None \notin PipeThreads
  BY PipeAssumption, Zenon DEF PipeInv, PipeTypeOK, PipeThreads
<1>2. /\ io[t] \in CallRecords /\ io[t].n \in Nat /\ io[t].of \in Nat
      /\ Side(t) \in {"write", "read"} /\ Other(t) \in {"write", "read"} /\ Side(t) # Other(t)
  BY <1>1, SideIs, SMTT(60) DEF CallRecords
<1>3. /\ io'[t] \in CallRecords /\ io'[t].at \in {"suspend", "resume"} /\ io'[t].n = io[t].n - k /\ io'[t].of = io[t].of
      /\ io' \in [PipeThreads -> CallRecords] /\ \A x \in PipeThreads : x # t => io'[x] = io[x]
  <2> DEFINE c == [io[t] EXCEPT !.at = IF k = 0 THEN "suspend" ELSE "resume", !.n = @ - k]
  <2>1. io' = [io EXCEPT ![t] = c]
    BY <1>1, Zenon
  <2>2. c \in CallRecords /\ c.at \in {"suspend", "resume"} /\ c.n = io[t].n - k /\ c.of = io[t].of
    <3>1. io[t].n - k \in Nat
      BY <1>2
    <3> QED
      BY <1>2, <3>1, Zenon DEF CallRecords
  <2> HIDE DEF c
  <2>3. io'[t] = c /\ io' \in [PipeThreads -> CallRecords] /\ \A x \in PipeThreads : x # t => io'[x] = io[x]
    BY <1>1, <2>1, <2>2, ZenonT(60)
  <2> QED
    BY <2>2, <2>3
<1>4. TurnOf(t)
  BY <1>3 DEF TurnOf
<1>5. io[t].n <= io[t].of /\ own[Side(t)] = t
  BY <1>1 DEF InsideOK
<1>6. InsideOK'
  <2>1. io'[t].n <= io'[t].of /\ own'[Side(t)] = t /\ io'[t].at \notin {"none", "lock"}
    BY <1>2, <1>3, <1>5
  <2> QED
    BY <1>1, <1>4, <2>1, TurnInside, Zenon
<1>7. RefOK'
  BY <1>1, <1>3, SMTT(60) DEF RefOK, Side
<1> QED
  BY <1>3, <1>4, <1>6, <1>7

\* pipe_write: the ring grows by what is written, and the writer wrote last.
LEMMA WriteStep ==
  ASSUME PipeInv, NEW t \in PipeThreads, pipe_write(t)
  PROVE  PipeInv'
<1> DEFINE k == Min({io[t].n, Size - pipe.used})
           s == Bytes(t, k)
<1>1. /\ pipe \in PipeRecords
      /\ own \in [{"write", "read"} -> PipeThreads \cup {None}]
      /\ ref \in [{"write", "read"} -> PipeThreads \cup {None}]
      /\ io \in [PipeThreads -> CallRecords] /\ sent \in Seq(ByteSet)
      /\ RingOK /\ InsideOK /\ RefOK /\ TogetherOK /\ None \notin PipeThreads
  BY PipeAssumption, Zenon DEF PipeInv, PipeTypeOK, PipeThreads
<1>2. /\ io[t] \in CallRecords /\ io[t].n \in Nat /\ io[t].of \in Nat
      /\ Side(t) \in {"write", "read"} /\ Other(t) \in {"write", "read"} /\ Side(t) # Other(t)
  BY <1>1, SideIs DEF CallRecords
<1>3. /\ Size \in Nat /\ pipe.used \in 0 .. Size /\ pipe.rd \in 0 .. Size - 1 /\ pipe.wr \in 0 .. Size - 1
      /\ pipe.buffer \in [0 .. Size - 1 -> ByteSet \cup {None}]
  BY <1>1, PipeAssumption DEF PipeRecords
<1>4. /\ io[t].at = "loop" /\ t \in Writers
      /\ pipe' = [pipe EXCEPT !.buffer = Stored(pipe.wr, s), !.wr = Advance(@, k), !.used = @ + k]
      /\ sent' = sent \o s
      /\ io' = [io EXCEPT ![t].at = IF k = 0 THEN "suspend" ELSE "resume", ![t].n = @ - k]
      /\ own' = own /\ ref' = ref
  BY DEF pipe_write
<1>5. k \in Nat /\ k <= io[t].n /\ k <= Size - pipe.used
  <2>1. Size - pipe.used \in Nat
    BY <1>3
  <2> QED
    BY <1>2, <2>1, MinOfTwo
<1> HIDE DEF k
<1>6. /\ k \in 0 .. io[t].n /\ k \in 0 .. Size /\ pipe.used + k \in 0 .. Size
  BY <1>2, <1>3, <1>5, SMTT(60)
<1>7. s \in Seq(ByteSet) /\ Len(s) = k /\ \A i \in 1 .. k : s[i] = <<t, io[t].n - i>>
  BY <1>2, <1>4, <1>6, BytesFacts, SMTT(60)
<1> HIDE DEF s
<1>8. /\ io' \in [PipeThreads -> CallRecords] /\ io'[t].n = io[t].n - k /\ io'[t].of = io[t].of
      /\ \A x \in PipeThreads : x # t => io'[x] = io[x]
      /\ TurnOf(t) /\ InsideOK' /\ RefOK'
  BY <1>4, <1>6, TransferCall, Zenon
<1>9. /\ Stored(pipe.wr, s) \in [0 .. Size - 1 -> ByteSet \cup {None}]
      /\ \A j \in 0 .. Size - 1 : Stored(pipe.wr, s)[Place(pipe.wr, j)]
                                   = IF j < Len(s) THEN s[j + 1] ELSE pipe.buffer[Place(pipe.wr, j)]
  <2>1. Len(s) <= Size
    BY <1>6, <1>7
  <2> QED
    BY <1>3, <1>7, <2>1, StoredFacts, Zenon
<1>10. Advance(pipe.wr, k) = Place(pipe.wr, k) /\ Place(pipe.wr, k) \in 0 .. Size - 1
  BY <1>3, <1>6, PlaceFacts, Zenon
<1>11. /\ pipe'.buffer = Stored(pipe.wr, s) /\ pipe'.wr = Place(pipe.wr, k) /\ pipe'.used = pipe.used + k
       /\ pipe'.rd = pipe.rd /\ pipe' \in PipeRecords
  BY <1>1, <1>3, <1>4, <1>6, <1>9, <1>10, Zenon DEF PipeRecords
<1>12. RingOK'
  <2>1. RingIs(pipe.buffer, pipe.rd, pipe.wr, pipe.used, sent) /\ Len(s) <= Size - pipe.used
    BY <1>1, <1>5, <1>7 DEF RingOK
  <2>2. RingIs(Stored(pipe.wr, s), pipe.rd, Place(pipe.wr, Len(s)), pipe.used + Len(s), sent \o s)
    BY <1>1, <1>3, <1>7, <1>9, <2>1, RingGrows, Zenon
  <2>3. RingIs(pipe'.buffer, pipe'.rd, pipe'.wr, pipe'.used, sent')
    BY <1>4, <1>7, <1>11, <2>2, Zenon
  <2> QED
    BY <2>3, Zenon DEF RingOK, RingIs, Place
<1>13. sent' \in Seq(ByteSet) /\ Len(sent') = Len(sent) + k
       /\ (k > 0 => sent'[Len(sent')] = <<t, io[t].n - k>>) /\ (k = 0 => sent' = sent)
  <2>1. /\ sent' \in Seq(ByteSet) /\ Len(sent') = Len(sent) + Len(s)
        /\ \A i \in Len(sent) + 1 .. Len(sent) + Len(s) : sent'[i] = s[i - Len(sent)]
    <3> DEFINE j == sent \o s
    <3>1. /\ j \in Seq(ByteSet) /\ Len(j) = Len(sent) + Len(s)
          /\ \A i \in Len(sent) + 1 .. Len(sent) + Len(s) : j[i] = s[i - Len(sent)]
      BY <1>1, <1>7, Joined, ZenonT(60)
    <3> HIDE DEF j
    <3>2. sent' = j
      BY <1>4 DEF j
    <3> QED
      BY <3>1, <3>2, Zenon
  <2>2. Len(sent) \in Nat
    BY <1>1
  <2>3. ASSUME k > 0 PROVE sent'[Len(sent')] = <<t, io[t].n - k>>
    <3>1. /\ Len(sent) + k \in Len(sent) + 1 .. Len(sent) + Len(s) /\ (Len(sent) + k) - Len(sent) = k
          /\ k \in 1 .. k
      BY <1>5, <1>7, <2>2, <2>3
    <3> QED
      BY <1>7, <2>1, <3>1
  <2>4. ASSUME k = 0 PROVE sent' = sent
    <3>1. s = <<>>
      BY <1>7, <2>4
    <3> QED
      BY <1>1, <1>4, <3>1
  <2> QED
    BY <1>7, <2>1, <2>3, <2>4
<1>14. TogetherOK'
  <2>1. CASE k = 0
    <3>1. sent' = sent /\ io'[t].n = io[t].n /\ io'[t].of = io[t].of
      BY <1>2, <1>8, <1>13, <2>1
    <3> QED
      BY <1>1, <1>8, <3>1, TurnTogether
  <2>2. CASE k > 0
    <3>1. ASSUME NEW x \in Writers, io'[x].n < io'[x].of PROVE sent'[Len(sent')] = <<x, io'[x].n>>
      <4>1. CASE x = t
        BY <1>8, <1>13, <2>2, <4>1
      <4>2. CASE x # t
        <5>1. x \in PipeThreads /\ io'[x] = io[x] /\ Side(x) = Side(t)
          BY <1>4, <1>8, <4>2 DEF PipeThreads, Side
        <5>2. own[Side(t)] = t
          BY <1>1, <1>4 DEF InsideOK
        <5>3. io[x].at \in {"none", "lock"}
          BY <1>1, <4>2, <5>1, <5>2 DEF InsideOK
        <5>4. io[x].n = io[x].of /\ io[x].n \in Nat
          BY <1>1, <5>1, <5>3 DEF InsideOK, CallRecords
        <5> QED
          BY <3>1, <5>1, <5>4
      <4> QED
        BY <4>1, <4>2
    <3> QED
      BY <3>1, Zenon DEF TogetherOK
  <2> QED
    BY <1>5, <2>1, <2>2
<1>15. PipeTypeOK'
  BY <1>1, <1>4, <1>8, <1>11, <1>13, Zenon DEF PipeTypeOK
<1> QED
  BY <1>8, <1>12, <1>14, <1>15, Zenon DEF PipeInv

\* pipe_read: the ring loses what is read.
LEMMA ReadStep ==
  ASSUME PipeInv, NEW t \in PipeThreads, pipe_read(t)
  PROVE  PipeInv'
<1> DEFINE k == Min({io[t].n, pipe.used})
<1>1. /\ pipe \in PipeRecords
      /\ own \in [{"write", "read"} -> PipeThreads \cup {None}]
      /\ ref \in [{"write", "read"} -> PipeThreads \cup {None}]
      /\ io \in [PipeThreads -> CallRecords] /\ sent \in Seq(ByteSet)
      /\ RingOK /\ InsideOK /\ RefOK /\ TogetherOK /\ None \notin PipeThreads
  BY PipeAssumption, Zenon DEF PipeInv, PipeTypeOK, PipeThreads
<1>2. /\ io[t] \in CallRecords /\ io[t].n \in Nat /\ io[t].of \in Nat
      /\ Side(t) \in {"write", "read"} /\ Other(t) \in {"write", "read"} /\ Side(t) # Other(t)
  BY <1>1, SideIs DEF CallRecords
<1>3. /\ Size \in Nat /\ pipe.used \in 0 .. Size /\ pipe.rd \in 0 .. Size - 1 /\ pipe.wr \in 0 .. Size - 1
      /\ pipe.buffer \in [0 .. Size - 1 -> ByteSet \cup {None}]
  BY <1>1, PipeAssumption DEF PipeRecords
<1>4. /\ io[t].at = "loop" /\ t \in Readers
      /\ pipe' = [pipe EXCEPT !.rd = Advance(@, k), !.used = @ - k]
      /\ sent' = SubSeq(sent, k + 1, Len(sent))
      /\ io' = [io EXCEPT ![t].at = IF k = 0 THEN "suspend" ELSE "resume", ![t].n = @ - k]
      /\ own' = own /\ ref' = ref
  BY DEF pipe_read
<1>5. k \in Nat /\ k <= io[t].n /\ k <= pipe.used
  <2>1. pipe.used \in Nat
    BY <1>3
  <2> QED
    BY <1>2, <2>1, MinOfTwo
<1> HIDE DEF k
<1>6. /\ k \in 0 .. io[t].n /\ k \in 0 .. Size /\ k \in 0 .. pipe.used /\ pipe.used - k \in 0 .. Size
  BY <1>2, <1>3, <1>5
<1>7. /\ io' \in [PipeThreads -> CallRecords] /\ TurnOf(t) /\ InsideOK' /\ RefOK'
  BY <1>4, <1>6, TransferCall, Zenon
<1>8. Advance(pipe.rd, k) = Place(pipe.rd, k) /\ Place(pipe.rd, k) \in 0 .. Size - 1
  BY <1>3, <1>6, PlaceFacts, Zenon
<1>9. /\ pipe'.buffer = pipe.buffer /\ pipe'.wr = pipe.wr /\ pipe'.used = pipe.used - k
      /\ pipe'.rd = Place(pipe.rd, k) /\ pipe' \in PipeRecords
  BY <1>1, <1>3, <1>4, <1>6, <1>8, Zenon DEF PipeRecords
<1>10. /\ RingIs(pipe.buffer, Place(pipe.rd, k), pipe.wr, pipe.used - k, sent')
       /\ sent' \in Seq(ByteSet) /\ sent' = Rest(sent, k)
  <2>1. RingIs(pipe.buffer, pipe.rd, pipe.wr, pipe.used, sent)
    BY <1>1 DEF RingOK
  <2>2. /\ sent \in Seq(ByteSet) /\ pipe.rd \in 0 .. Size - 1 /\ pipe.used \in 0 .. Size /\ k \in 0 .. pipe.used
    BY <1>1, <1>3, <1>6
  <2>3. /\ RingIs(pipe.buffer, Place(pipe.rd, k), pipe.wr, pipe.used - k, Rest(sent, k))
        /\ Rest(sent, k) \in Seq(ByteSet)
    BY <2>1, <2>2, RingShrinks, Zenon
  <2>4. sent' = Rest(sent, k)
    BY <1>4 DEF Rest
  <2> QED
    BY <2>3, <2>4, Zenon
<1>11. RingOK'
  <2>1. RingIs(pipe'.buffer, pipe'.rd, pipe'.wr, pipe'.used, sent')
    BY <1>9, <1>10, Zenon
  <2> QED
    BY <2>1, Zenon DEF RingOK, RingIs, Place
<1>12. sent' # <<>> => sent # <<>> /\ sent'[Len(sent')] = sent[Len(sent)]
  <2>1. Len(sent) = pipe.used
    BY <1>1 DEF RingOK, RingIs
  <2>2. k \in 0 .. Len(sent)
    BY <1>6, <2>1
  <2>3. Rest(sent, k) # <<>> => sent # <<>> /\ Rest(sent, k)[Len(Rest(sent, k))] = sent[Len(sent)]
    BY <1>1, <2>2, LastKept, Zenon
  <2> QED
    BY <1>10, <2>3, Zenon
<1>13. TogetherOK'
  <2>1. t \notin Writers
    BY <1>4, PipeAssumption
  <2> QED
    BY <1>1, <1>7, <1>12, <2>1, TurnTogether
<1>14. PipeTypeOK'
  BY <1>1, <1>4, <1>7, <1>9, <1>10, Zenon DEF PipeTypeOK
<1> QED
  BY <1>7, <1>11, <1>13, <1>14, Zenon DEF PipeInv

\* The record of a thread outside of pipe calls.
LEMMA NoCallIs ==
  NoCall \in CallRecords /\ NoCall.at = "none" /\ NoCall.n = 0 /\ NoCall.of = 0 /\ ~(NoCall.n < NoCall.of)
<1>1. NoCall.at = "none" /\ NoCall.n = 0 /\ NoCall.of = 0
  BY ONLY DEF NoCall
<1>2. ~(0 < 0)
  BY ONLY TRUE
<1>3. NoCall \in CallRecords
  BY PipeAssumption DEF NoCall, CallRecords
<1> QED
  BY <1>1, <1>2, <1>3, Zenon

\* A step of t inside of its function that does not touch the ring.
LEMMA TurnStep ==
  ASSUME PipeInv, NEW t \in PipeThreads, TurnOf(t), pipe' = pipe, sent' = sent,
         io' \in [PipeThreads -> CallRecords],
         own' \in [{"write", "read"} -> PipeThreads \cup {None}],
         ref' \in [{"write", "read"} -> PipeThreads \cup {None}],
         io[t].at \notin {"none", "lock"},
         \/ io'[t] = NoCall
         \/ /\ io'[t].at \notin {"none", "lock"} /\ own'[Side(t)] = own[Side(t)]
            /\ io'[t].n = io[t].n /\ io'[t].of = io[t].of,
         RefOK'
  PROVE  PipeInv'
<1>1. /\ pipe \in PipeRecords
      /\ own \in [{"write", "read"} -> PipeThreads \cup {None}]
      /\ ref \in [{"write", "read"} -> PipeThreads \cup {None}]
      /\ io \in [PipeThreads -> CallRecords] /\ sent \in Seq(ByteSet)
      /\ RingOK /\ InsideOK /\ RefOK /\ TogetherOK /\ None \notin PipeThreads
  BY PipeAssumption, Zenon DEF PipeInv, PipeTypeOK, PipeThreads
<1>2. /\ io[t] \in CallRecords /\ io[t].n \in Nat /\ io[t].of \in Nat
      /\ Side(t) \in {"write", "read"} /\ Other(t) \in {"write", "read"} /\ Side(t) # Other(t)
  BY <1>1, SideIs, Zenon DEF CallRecords
<1>3. io[t].n <= io[t].of /\ own[Side(t)] = t
  BY <1>1 DEF InsideOK
<1>4. InsideOK'
  <2>1. CASE io'[t] = NoCall
    <3>1. io'[t].at = "none" /\ io'[t].n = 0 /\ io'[t].of = 0
      BY <2>1, NoCallIs, Zenon
    <3> QED
      BY <1>1, <3>1, TurnInside
  <2>2. CASE /\ io'[t].at \notin {"none", "lock"} /\ own'[Side(t)] = own[Side(t)]
             /\ io'[t].n = io[t].n /\ io'[t].of = io[t].of
    BY <1>1, <1>3, <2>2, TurnInside
  <2> QED
    BY <2>1, <2>2
<1>5. TogetherOK'
  <2>1. io'[t].n < io'[t].of => io[t].n < io[t].of /\ io'[t].n = io[t].n
    <3>1. CASE io'[t] = NoCall
      BY <3>1, NoCallIs, Zenon
    <3>2. CASE io'[t].n = io[t].n /\ io'[t].of = io[t].of
      BY <3>2, Zenon
    <3> QED
      BY <3>1, <3>2, Zenon
  <2> QED
    BY <1>1, <2>1, TurnTogether
<1>6. RingOK'
  BY <1>1, RingKept
<1>7. PipeTypeOK'
  BY <1>1, Zenon DEF PipeTypeOK
<1> QED
  BY <1>4, <1>5, <1>6, <1>7, Zenon DEF PipeInv

\* The call of t ends.
LEMMA LeaveTurn ==
  ASSUME PipeInv, NEW t \in PipeThreads, io[t].at \notin {"none", "lock"}, Leave(t)
  PROVE  /\ TurnOf(t) /\ io' \in [PipeThreads -> CallRecords] /\ io'[t] = NoCall
         /\ \A x \in PipeThreads : x # t => io'[x] = io[x]
         /\ own' \in [{"write", "read"} -> PipeThreads \cup {None}]
<1>1. /\ pipe \in PipeRecords
      /\ own \in [{"write", "read"} -> PipeThreads \cup {None}]
      /\ ref \in [{"write", "read"} -> PipeThreads \cup {None}]
      /\ io \in [PipeThreads -> CallRecords] /\ sent \in Seq(ByteSet)
      /\ RingOK /\ InsideOK /\ RefOK /\ TogetherOK /\ None \notin PipeThreads
  BY PipeAssumption, Zenon DEF PipeInv, PipeTypeOK, PipeThreads
<1>2. /\ io[t] \in CallRecords /\ io[t].n \in Nat /\ io[t].of \in Nat
      /\ Side(t) \in {"write", "read"} /\ Other(t) \in {"write", "read"} /\ Side(t) # Other(t)
  BY <1>1, SideIs, SMTT(60) DEF CallRecords
<1>3. own[Side(t)] = t /\ NoCall \in CallRecords
  BY <1>1, NoCallIs, Zenon DEF InsideOK
<1>4. io' \in [PipeThreads -> CallRecords] /\ io'[t] = NoCall /\ \A x \in PipeThreads : x # t => io'[x] = io[x]
  BY <1>1, <1>3 DEF Leave
<1>5. /\ own' \in [{"write", "read"} -> PipeThreads \cup {None}]
      /\ \A side \in {"write", "read"} : side # Side(t) => own'[side] = own[side]
  BY <1>1, Zenon DEF Leave
<1> QED
  BY <1>3, <1>4, <1>5 DEF TurnOf

\* chThdSuspendTimeoutS, or the return with TIME_IMMEDIATE.
LEMMA SuspendStep ==
  ASSUME PipeInv, NEW t \in PipeThreads, Suspend(t)
  PROVE  PipeInv'
<1>1. /\ pipe \in PipeRecords
      /\ own \in [{"write", "read"} -> PipeThreads \cup {None}]
      /\ ref \in [{"write", "read"} -> PipeThreads \cup {None}]
      /\ io \in [PipeThreads -> CallRecords] /\ sent \in Seq(ByteSet)
      /\ RingOK /\ InsideOK /\ RefOK /\ TogetherOK /\ None \notin PipeThreads
  BY PipeAssumption, Zenon DEF PipeInv, PipeTypeOK, PipeThreads
<1>2. /\ io[t] \in CallRecords /\ io[t].n \in Nat /\ io[t].of \in Nat
      /\ Side(t) \in {"write", "read"} /\ Other(t) \in {"write", "read"} /\ Side(t) # Other(t)
  BY <1>1, SideIs DEF CallRecords
<1>3. io[t].at = "suspend" /\ pipe' = pipe /\ sent' = sent
  BY DEF Suspend
<1>4. CASE ref' = [ref EXCEPT ![Side(t)] = t] /\ io' = [io EXCEPT ![t].at = "asleep"] /\ own' = own
  <2>1. /\ io'[t] \in CallRecords /\ io'[t].at = "asleep" /\ io'[t].n = io[t].n /\ io'[t].of = io[t].of
        /\ io' \in [PipeThreads -> CallRecords] /\ \A x \in PipeThreads : x # t => io'[x] = io[x]
    BY <1>1, <1>2, <1>4, Zenon DEF CallRecords
  <2>2. /\ ref' \in [{"write", "read"} -> PipeThreads \cup {None}] /\ ref'[Side(t)] = t
        /\ \A side \in {"write", "read"} : side # Side(t) => ref'[side] = ref[side]
    BY <1>1, <1>2, <1>4
  <2>3. ASSUME NEW side \in {"write", "read"}, ref'[side] # None
        PROVE  Side(ref'[side]) = side /\ io'[ref'[side]].at = "asleep"
    <3>1. CASE side = Side(t)
      BY <2>1, <2>2, <3>1
    <3>2. CASE side # Side(t)
      <4>1. ref'[side] = ref[side] /\ ref[side] \in PipeThreads
        BY <1>1, <2>2, <2>3, <3>2
      <4>2. Side(ref[side]) = side /\ io[ref[side]].at = "asleep"
        BY <1>1, <2>3, <4>1 DEF RefOK
      <4> QED
        BY <1>3, <2>1, <4>1, <4>2
    <3> QED
      BY <3>1, <3>2
  <2>4. RefOK'
    BY <2>3, Zenon DEF RefOK, Side
  <2>5. TurnOf(t)
    BY <1>4, <2>1 DEF TurnOf
  <2> QED
    BY <1>1, <1>3, <1>4, <2>1, <2>2, <2>4, <2>5, TurnStep
<1>5. CASE Leave(t) /\ ref' = ref
  <2>1. /\ TurnOf(t) /\ io' \in [PipeThreads -> CallRecords] /\ io'[t] = NoCall
        /\ \A x \in PipeThreads : x # t => io'[x] = io[x]
        /\ own' \in [{"write", "read"} -> PipeThreads \cup {None}]
    BY <1>3, <1>5, LeaveTurn
  <2>2. RefOK'
    BY <1>1, <1>3, <1>5, <2>1 DEF RefOK, Side
  <2> QED
    BY <1>1, <1>3, <1>5, <2>1, <2>2, TurnStep
<1> QED
  BY <1>4, <1>5 DEF Suspend

\* The timeout of a wait clears the reference of its side.
LEMMA PipeTimeoutStep ==
  ASSUME PipeInv, NEW t \in PipeThreads, PipeTimeout(t)
  PROVE  PipeInv'
<1>1. /\ pipe \in PipeRecords
      /\ own \in [{"write", "read"} -> PipeThreads \cup {None}]
      /\ ref \in [{"write", "read"} -> PipeThreads \cup {None}]
      /\ io \in [PipeThreads -> CallRecords] /\ sent \in Seq(ByteSet)
      /\ RingOK /\ InsideOK /\ RefOK /\ TogetherOK /\ None \notin PipeThreads
  BY PipeAssumption, Zenon DEF PipeInv, PipeTypeOK, PipeThreads
<1>2. /\ io[t] \in CallRecords /\ io[t].n \in Nat /\ io[t].of \in Nat
      /\ Side(t) \in {"write", "read"} /\ Other(t) \in {"write", "read"} /\ Side(t) # Other(t)
  BY <1>1, SideIs DEF CallRecords
<1>3. /\ io[t].at = "asleep" /\ pipe' = pipe /\ sent' = sent /\ own' = own
      /\ ref' = [ref EXCEPT ![Side(t)] = None]
      /\ io' = [io EXCEPT ![t].at = "woken", ![t].msg = "MSG_TIMEOUT"]
  BY DEF PipeTimeout
<1>4. /\ io'[t] \in CallRecords /\ io'[t].at = "woken" /\ io'[t].n = io[t].n /\ io'[t].of = io[t].of
      /\ io' \in [PipeThreads -> CallRecords] /\ \A x \in PipeThreads : x # t => io'[x] = io[x]
  BY <1>1, <1>2, <1>3, Zenon DEF CallRecords
<1>5. /\ ref' \in [{"write", "read"} -> PipeThreads \cup {None}] /\ ref'[Side(t)] = None
      /\ \A side \in {"write", "read"} : side # Side(t) => ref'[side] = ref[side]
  BY <1>1, <1>2, <1>3
<1>6. RefOK'
  <2>1. ASSUME NEW side \in {"write", "read"}, ref'[side] # None
        PROVE  Side(ref'[side]) = side /\ io'[ref'[side]].at = "asleep"
    <3>1. side # Side(t) /\ ref'[side] = ref[side] /\ ref[side] \in PipeThreads
      BY <1>1, <1>5, <2>1
    <3>2. Side(ref[side]) = side /\ io[ref[side]].at = "asleep"
      BY <1>1, <2>1, <3>1 DEF RefOK
    <3> QED
      BY <1>4, <3>1, <3>2
  <2> QED
    BY <2>1, Zenon DEF RefOK, Side
<1>7. TurnOf(t)
  BY <1>3, <1>4 DEF TurnOf
<1> QED
  BY <1>1, <1>3, <1>4, <1>5, <1>6, <1>7, TurnStep

\* A thread runs again after its wait.
LEMMA WokenStep ==
  ASSUME PipeInv, NEW t \in PipeThreads, Woken(t)
  PROVE  PipeInv'
<1>1. /\ pipe \in PipeRecords
      /\ own \in [{"write", "read"} -> PipeThreads \cup {None}]
      /\ ref \in [{"write", "read"} -> PipeThreads \cup {None}]
      /\ io \in [PipeThreads -> CallRecords] /\ sent \in Seq(ByteSet)
      /\ RingOK /\ InsideOK /\ RefOK /\ TogetherOK /\ None \notin PipeThreads
  BY PipeAssumption, Zenon DEF PipeInv, PipeTypeOK, PipeThreads
<1>2. /\ io[t] \in CallRecords /\ io[t].n \in Nat /\ io[t].of \in Nat
      /\ Side(t) \in {"write", "read"} /\ Other(t) \in {"write", "read"} /\ Side(t) # Other(t)
  BY <1>1, SideIs DEF CallRecords
<1>3. io[t].at = "woken" /\ pipe' = pipe /\ sent' = sent /\ ref' = ref
  BY DEF Woken
<1>4. CASE io' = [io EXCEPT ![t].at = "loop"] /\ own' = own
  <2>1. /\ io'[t] \in CallRecords /\ io'[t].at = "loop" /\ io'[t].n = io[t].n /\ io'[t].of = io[t].of
        /\ io' \in [PipeThreads -> CallRecords] /\ \A x \in PipeThreads : x # t => io'[x] = io[x]
    BY <1>1, <1>2, <1>4, Zenon DEF CallRecords
  <2>2. RefOK'
    BY <1>1, <1>3, <2>1 DEF RefOK, Side
  <2>3. TurnOf(t)
    BY <1>4, <2>1 DEF TurnOf
  <2> QED
    BY <1>1, <1>3, <1>4, <2>1, <2>2, <2>3, TurnStep
<1>5. CASE Leave(t)
  <2>1. /\ TurnOf(t) /\ io' \in [PipeThreads -> CallRecords] /\ io'[t] = NoCall
        /\ \A x \in PipeThreads : x # t => io'[x] = io[x]
        /\ own' \in [{"write", "read"} -> PipeThreads \cup {None}]
    BY <1>3, <1>5, LeaveTurn
  <2>2. RefOK'
    BY <1>1, <1>3, <2>1 DEF RefOK, Side
  <2> QED
    BY <1>1, <1>3, <2>1, <2>2, TurnStep
<1> QED
  BY <1>4, <1>5 DEF Woken

\* chThdResumeI: the thread of the reference, if any, is woken.
LEMMA ResumedFacts ==
  ASSUME NEW ths \in [PipeThreads -> CallRecords], NEW side \in {"write", "read"},
         NEW msg \in {"MSG_OK", "MSG_RESET"}, ref[side] \in PipeThreads \cup {None}, None \notin PipeThreads
  PROVE  /\ Resumed(ths, side, msg) \in [PipeThreads -> CallRecords]
         /\ \A x \in PipeThreads :
              /\ Resumed(ths, side, msg)[x].n = ths[x].n /\ Resumed(ths, side, msg)[x].of = ths[x].of
              /\ x = ref[side] => Resumed(ths, side, msg)[x].at = "woken"
              /\ x # ref[side] => Resumed(ths, side, msg)[x] = ths[x]
<1> DEFINE R == Resumed(ths, side, msg)
           r == ref[side]
<1>1. CASE r = None
  <2>1. R = ths /\ \A x \in PipeThreads : x # r
    BY <1>1 DEF Resumed
  <2> QED
    BY <2>1
<1>2. CASE r # None
  <2>1. r \in PipeThreads /\ R = [ths EXCEPT ![r].at = "woken", ![r].msg = msg]
    BY <1>2 DEF Resumed
  <2> HIDE DEF R, r
  <2> DEFINE c == [ths[r] EXCEPT !.at = "woken", !.msg = msg]
  <2>2. ths[r] \in CallRecords /\ R = [ths EXCEPT ![r] = c]
    BY <2>1, Zenon
  <2>3. c \in CallRecords /\ c.at = "woken" /\ c.n = ths[r].n /\ c.of = ths[r].of
    BY <2>2, Zenon DEF CallRecords
  <2> HIDE DEF c
  <2>4. R \in [PipeThreads -> CallRecords] /\ R[r] = c /\ \A x \in PipeThreads : x # r => R[x] = ths[x]
    BY <2>1, <2>2, <2>3, ZenonT(60)
  <2>5. \A x \in PipeThreads : /\ R[x].n = ths[x].n /\ R[x].of = ths[x].of
                               /\ x = r => R[x].at = "woken"
                               /\ x # r => R[x] = ths[x]
    BY <2>3, <2>4
  <2> QED
    BY <2>4, <2>5 DEF R, r
<1> QED
  BY <1>1, <1>2

\* chThdResume of the other side after a transfer.
LEMMA ResumeStep ==
  ASSUME PipeInv, NEW t \in PipeThreads, Resume(t)
  PROVE  PipeInv'
<1> DEFINE ths == Resumed(io, Other(t), "MSG_OK")
           r == ref[Other(t)]
<1>1. /\ pipe \in PipeRecords
      /\ own \in [{"write", "read"} -> PipeThreads \cup {None}]
      /\ ref \in [{"write", "read"} -> PipeThreads \cup {None}]
      /\ io \in [PipeThreads -> CallRecords] /\ sent \in Seq(ByteSet)
      /\ RingOK /\ InsideOK /\ RefOK /\ TogetherOK /\ None \notin PipeThreads
  BY PipeAssumption, Zenon DEF PipeInv, PipeTypeOK, PipeThreads
<1>2. /\ io[t] \in CallRecords /\ io[t].n \in Nat /\ io[t].of \in Nat
      /\ Side(t) \in {"write", "read"} /\ Other(t) \in {"write", "read"} /\ Side(t) # Other(t)
  BY <1>1, SideIs DEF CallRecords
<1>3. /\ io[t].at = "resume" /\ ref' = [ref EXCEPT ![Other(t)] = None] /\ pipe' = pipe /\ sent' = sent
      /\ IF io[t].n > 0 THEN io' = [ths EXCEPT ![t].at = "loop"] /\ own' = own
         ELSE io' = [ths EXCEPT ![t] = NoCall] /\ own' = [own EXCEPT ![Side(t)] = None]
  BY DEF Resume
<1>4. /\ ths \in [PipeThreads -> CallRecords]
      /\ \A x \in PipeThreads : /\ ths[x].n = io[x].n /\ ths[x].of = io[x].of
                                /\ x = r => ths[x].at = "woken"
                                /\ x # r => ths[x] = io[x]
  BY <1>1, <1>2, ResumedFacts
<1> HIDE DEF ths
<1>5. r # t /\ \A x \in PipeThreads : x = r => io[x].at = "asleep"
  BY <1>1, <1>2, <1>3 DEF RefOK
<1>6. NoCall \in CallRecords /\ own[Side(t)] = t
  BY <1>1, <1>3, NoCallIs, Zenon DEF InsideOK
<1>7. /\ io' \in [PipeThreads -> CallRecords] /\ own' \in [{"write", "read"} -> PipeThreads \cup {None}]
      /\ \A x \in PipeThreads : x # t => io'[x] = ths[x]
      /\ \A side \in {"write", "read"} : side # Side(t) => own'[side] = own[side]
      /\ \/ io'[t] = NoCall
         \/ /\ io'[t].at \notin {"none", "lock"} /\ own'[Side(t)] = own[Side(t)]
            /\ io'[t].n = io[t].n /\ io'[t].of = io[t].of
  <2>1. CASE io[t].n > 0
    <3>1. io' = [ths EXCEPT ![t].at = "loop"] /\ own' = own /\ ths[t] \in CallRecords
      BY <1>3, <1>4, <2>1
    <3>2. /\ io'[t] \in CallRecords /\ io'[t].at = "loop" /\ io'[t].n = ths[t].n /\ io'[t].of = ths[t].of
          /\ io' \in [PipeThreads -> CallRecords] /\ \A x \in PipeThreads : x # t => io'[x] = ths[x]
      BY <1>4, <3>1 DEF CallRecords
    <3> QED
      BY <1>1, <1>4, <3>1, <3>2
  <2>2. CASE ~(io[t].n > 0)
    <3>1. io' = [ths EXCEPT ![t] = NoCall] /\ own' = [own EXCEPT ![Side(t)] = None]
      BY <1>3, <2>2
    <3>2. io' \in [PipeThreads -> CallRecords] /\ io'[t] = NoCall /\ \A x \in PipeThreads : x # t => io'[x] = ths[x]
      BY <1>4, <1>6, <3>1
    <3>3. /\ own' \in [{"write", "read"} -> PipeThreads \cup {None}]
          /\ \A side \in {"write", "read"} : side # Side(t) => own'[side] = own[side]
      BY <1>1, <1>2, <3>1, SMTT(60)
    <3> QED
      BY <3>2, <3>3
  <2> QED
    BY <2>1, <2>2
<1>8. TurnOf(t)
  <2>1. ASSUME NEW x \in PipeThreads \ {t}
        PROVE  /\ io'[x].n = io[x].n /\ io'[x].of = io[x].of
               /\ io'[x].at = io[x].at \/ (io[x].at = "asleep" /\ io'[x].at = "woken")
    <3>1. io'[x] = ths[x]
      BY <1>7
    <3> QED
      BY <1>4, <1>5, <3>1
  <2> QED
    BY <1>6, <1>7, <2>1 DEF TurnOf
<1>9. /\ ref' \in [{"write", "read"} -> PipeThreads \cup {None}] /\ ref'[Other(t)] = None
      /\ ref'[Side(t)] = ref[Side(t)]
  BY <1>1, <1>2, <1>3, SMTT(60)
<1>10. RefOK'
  <2>1. ASSUME NEW side \in {"write", "read"}, ref'[side] # None
        PROVE  Side(ref'[side]) = side /\ io'[ref'[side]].at = "asleep"
    <3>1. side = Side(t) /\ ref'[side] = ref[side] /\ ref[side] \in PipeThreads
      BY <1>1, <1>2, <1>9, <2>1
    <3>2. Side(ref[side]) = side /\ io[ref[side]].at = "asleep"
      BY <1>1, <2>1, <3>1 DEF RefOK
    <3>3. ref[side] # t /\ ref[side] # r
      <4>1. ref[side] # t
        BY <1>3, <3>2
      <4>2. ASSUME r = ref[side] PROVE FALSE
        <5>1. r # None /\ Side(r) = Other(t)
          BY <1>1, <1>2, <3>1, <4>2 DEF RefOK
        <5> QED
          BY <1>2, <3>1, <3>2, <4>2, <5>1
      <4> QED
        BY <4>1, <4>2
    <3> QED
      BY <1>4, <1>7, <3>1, <3>2, <3>3
  <2> QED
    BY <2>1, Zenon DEF RefOK, Side
<1> QED
  BY <1>1, <1>3, <1>7, <1>8, <1>9, <1>10, TurnStep

\* chPipeReset empties the ring.
LEMMA ResetRingStep ==
  ASSUME PipeInv, ResetRing
  PROVE  PipeInv'
<1>1. /\ pipe \in PipeRecords
      /\ own \in [{"write", "read"} -> PipeThreads \cup {None}]
      /\ ref \in [{"write", "read"} -> PipeThreads \cup {None}]
      /\ io \in [PipeThreads -> CallRecords] /\ sent \in Seq(ByteSet)
      /\ RingOK /\ InsideOK /\ RefOK /\ TogetherOK /\ None \notin PipeThreads
  BY PipeAssumption, Zenon DEF PipeInv, PipeTypeOK, PipeThreads
<1>2. /\ pipe' = [pipe EXCEPT !.wr = 0, !.rd = 0, !.used = 0, !.reset = TRUE, !.resetting = TRUE]
      /\ sent' = <<>> /\ own' = own /\ ref' = ref /\ io' = io
  BY DEF ResetRing
<1>3. Size \in Nat /\ Size > 0
  BY PipeAssumption
<1>4. pipe' \in PipeRecords /\ pipe'.wr = 0 /\ pipe'.rd = 0 /\ pipe'.used = 0
  <2>1. pipe' = [buffer |-> pipe.buffer, rd |-> 0, wr |-> 0, used |-> 0, reset |-> TRUE, resetting |-> TRUE]
    BY <1>1, <1>2, Zenon DEF PipeRecords
  <2>2. pipe.buffer \in [0 .. Size - 1 -> ByteSet \cup {None}]
    BY <1>1 DEF PipeRecords
  <2>3. 0 \in 0 .. Size - 1 /\ 0 \in 0 .. Size
    BY <1>3
  <2> QED
    BY <2>1, <2>2, <2>3 DEF PipeRecords
<1>5. RingOK'
  <2>1. RingIs(pipe'.buffer, pipe'.rd, pipe'.wr, pipe'.used, sent')
    BY <1>2, <1>3, <1>4 DEF RingIs, Place
  <2> QED
    BY <2>1, Zenon DEF RingOK, RingIs, Place
<1>6. InsideOK' /\ RefOK' /\ TogetherOK'
  BY <1>1, <1>2, Zenon DEF InsideOK, RefOK, TogetherOK, Side
<1>7. PipeTypeOK'
  BY <1>1, <1>2, <1>4 DEF PipeTypeOK
<1> QED
  BY <1>5, <1>6, <1>7, Zenon DEF PipeInv

\* chPipeReset wakes those that sleep.
LEMMA ResetThreadsStep ==
  ASSUME PipeInv, ResetThreads
  PROVE  PipeInv'
<1> DEFINE a == Resumed(io, "write", "MSG_RESET")
           b == Resumed(a, "read", "MSG_RESET")
<1>1. /\ pipe \in PipeRecords
      /\ own \in [{"write", "read"} -> PipeThreads \cup {None}]
      /\ ref \in [{"write", "read"} -> PipeThreads \cup {None}]
      /\ io \in [PipeThreads -> CallRecords] /\ sent \in Seq(ByteSet)
      /\ RingOK /\ InsideOK /\ RefOK /\ TogetherOK /\ None \notin PipeThreads
  BY PipeAssumption, Zenon DEF PipeInv, PipeTypeOK, PipeThreads
<1>2. /\ pipe' = [pipe EXCEPT !.resetting = FALSE] /\ io' = b
      /\ ref' = [side \in {"write", "read"} |-> None] /\ own' = own /\ sent' = sent
  BY DEF ResetThreads
<1>3. /\ a \in [PipeThreads -> CallRecords]
      /\ \A x \in PipeThreads : /\ a[x].n = io[x].n /\ a[x].of = io[x].of
                                /\ x = ref["write"] => a[x].at = "woken"
                                /\ x # ref["write"] => a[x] = io[x]
  BY <1>1, ResumedFacts
<1> HIDE DEF a
<1>4. /\ b \in [PipeThreads -> CallRecords]
      /\ \A x \in PipeThreads : /\ b[x].n = a[x].n /\ b[x].of = a[x].of
                                /\ x = ref["read"] => b[x].at = "woken"
                                /\ x # ref["read"] => b[x] = a[x]
  BY <1>1, <1>3, ResumedFacts
<1> HIDE DEF b
<1>5. ASSUME NEW x \in PipeThreads
      PROVE  /\ b[x].n = io[x].n /\ b[x].of = io[x].of
             /\ b[x].at = io[x].at \/ (io[x].at = "asleep" /\ b[x].at = "woken")
  <2>1. x \in {ref["write"], ref["read"]} => io[x].at = "asleep"
    BY <1>1 DEF RefOK
  <2> QED
    BY <1>3, <1>4, <2>1
<1>6. InsideOK'
  <2>1. ASSUME NEW x \in PipeThreads
        PROVE  /\ io'[x].at \in {"none", "lock"} => io'[x].n = io'[x].of
               /\ io'[x].at \notin {"none", "lock"} => own'[Side(x)] = x
               /\ io'[x].n <= io'[x].of
    BY <1>1, <1>2, <1>5, SMTT(60) DEF InsideOK
  <2> QED
    BY <2>1, Zenon DEF InsideOK, Side
<1>7. TogetherOK'
  <2>1. ASSUME NEW x \in Writers PROVE io'[x].n = io[x].n /\ io'[x].of = io[x].of
    BY <1>2, <1>5 DEF PipeThreads
  <2> QED
    BY <1>1, <1>2, <2>1 DEF TogetherOK
<1>8. RefOK' /\ ref' \in [{"write", "read"} -> PipeThreads \cup {None}]
  BY <1>2 DEF RefOK
<1>9. /\ pipe' \in PipeRecords /\ pipe'.buffer = pipe.buffer /\ pipe'.rd = pipe.rd /\ pipe'.wr = pipe.wr
      /\ pipe'.used = pipe.used
  BY <1>1, <1>2, Zenon DEF PipeRecords
<1>10. RingOK'
  BY <1>1, <1>2, <1>9, RingKept
<1>11. PipeTypeOK'
  BY <1>1, <1>2, <1>4, <1>8, <1>9, Zenon DEF PipeTypeOK
<1> QED
  BY <1>6, <1>7, <1>8, <1>10, <1>11, Zenon DEF PipeInv

\* chPipeResume leaves all but the reset state.
LEMMA PipeResumeStep ==
  ASSUME PipeInv, chPipeResume
  PROVE  PipeInv'
<1>1. /\ pipe \in PipeRecords
      /\ own \in [{"write", "read"} -> PipeThreads \cup {None}]
      /\ ref \in [{"write", "read"} -> PipeThreads \cup {None}]
      /\ io \in [PipeThreads -> CallRecords] /\ sent \in Seq(ByteSet)
      /\ RingOK /\ InsideOK /\ RefOK /\ TogetherOK /\ None \notin PipeThreads
  BY PipeAssumption, Zenon DEF PipeInv, PipeTypeOK, PipeThreads
<1>2. pipe' = [pipe EXCEPT !.reset = FALSE] /\ own' = own /\ ref' = ref /\ io' = io /\ sent' = sent
  BY DEF chPipeResume
<1>3. /\ pipe' \in PipeRecords /\ pipe'.buffer = pipe.buffer /\ pipe'.rd = pipe.rd /\ pipe'.wr = pipe.wr
      /\ pipe'.used = pipe.used
  BY <1>1, <1>2, Zenon DEF PipeRecords
<1>4. RingOK'
  BY <1>1, <1>2, <1>3, RingKept
<1>5. InsideOK' /\ RefOK' /\ TogetherOK'
  BY <1>1, <1>2, Zenon DEF InsideOK, RefOK, TogetherOK, Side
<1>6. PipeTypeOK'
  BY <1>1, <1>2, <1>3, Zenon DEF PipeTypeOK
<1> QED
  BY <1>4, <1>5, <1>6, Zenon DEF PipeInv

\* An empty ring and no thread inside.
LEMMA PipeStart == PipeInit => PipeInv
<1> SUFFICES ASSUME PipeInit PROVE PipeInv
  OBVIOUS
<1>1. /\ pipe = [buffer |-> [q \in 0 .. Size - 1 |-> None], rd |-> 0, wr |-> 0, used |-> 0,
                 reset |-> FALSE, resetting |-> FALSE]
      /\ own = [side \in {"write", "read"} |-> None] /\ ref = [side \in {"write", "read"} |-> None]
      /\ io = [t \in PipeThreads |-> NoCall] /\ sent = <<>>
  BY DEF PipeInit, PipeThreads
<1>2. Size \in Nat /\ Size > 0
  BY PipeAssumption
<1>3. pipe \in PipeRecords /\ sent \in Seq(ByteSet)
  BY <1>1, <1>2 DEF PipeRecords
<1>4. NoCall \in CallRecords /\ NoCall.at = "none" /\ NoCall.n = 0 /\ NoCall.of = 0
  BY NoCallIs, Zenon
<1>5. io \in [PipeThreads -> CallRecords] /\ \A t \in PipeThreads : io[t] = NoCall
  BY <1>1, <1>4
<1>6. InsideOK /\ RefOK /\ TogetherOK
  BY <1>1, <1>4, <1>5 DEF InsideOK, RefOK, TogetherOK, PipeThreads
<1>7. RingOK
  BY <1>1, <1>2 DEF RingOK, RingIs, Place
<1>8. PipeTypeOK
  BY <1>1, <1>3, <1>5 DEF PipeTypeOK
<1> QED
  BY <1>6, <1>7, <1>8, Zenon DEF PipeInv

\* Every step of PipeNext keeps the invariant.
LEMMA PipeStep ==
  ASSUME PipeInv, [PipeNext]_pipevars
  PROVE  PipeInv'
<1>1. ASSUME NEW t \in PipeThreads, NEW n \in 1 .. MaxBytes, Begin(t, n) PROVE PipeInv'
  BY <1>1, BeginStep, Zenon
<1>2. ASSUME NEW t \in PipeThreads,
             \/ Lock(t) \/ pipe_write(t) \/ pipe_read(t)
             \/ Suspend(t) \/ Resume(t) \/ PipeTimeout(t) \/ Woken(t)
      PROVE  PipeInv'
  BY <1>2, LockStep, WriteStep, ReadStep, SuspendStep, ResumeStep, PipeTimeoutStep, WokenStep, Zenon
<1>3. CASE ResetRing \/ ResetThreads \/ chPipeResume
  BY <1>3, ResetRingStep, ResetThreadsStep, PipeResumeStep, Zenon
<1>4. CASE UNCHANGED pipevars
  <2>1. pipe' = pipe /\ own' = own /\ ref' = ref /\ io' = io /\ sent' = sent
    BY <1>4 DEF pipevars
  <2> QED
    BY <2>1, Zenon DEF PipeInv, PipeTypeOK, RingOK, RingIs, Place, InsideOK, RefOK, TogetherOK, Side
<1> QED
  BY <1>1, <1>2, <1>3, <1>4, Zenon DEF PipeNext, PipeThreads

\* In terms of the ring that the code has.
LEMMA PipeStream == PipeInv => StreamIntact
<1> SUFFICES ASSUME PipeInv PROVE StreamIntact
  OBVIOUS
<1>1. /\ pipe \in PipeRecords /\ sent \in Seq(ByteSet) /\ RingOK /\ TogetherOK
  BY Zenon DEF PipeInv, PipeTypeOK
<1>2. /\ Size \in Nat /\ Size > 0 /\ pipe.used \in 0 .. Size /\ pipe.rd \in 0 .. Size - 1
      /\ Len(sent) = pipe.used /\ \A i \in 1 .. pipe.used : sent[i] = pipe.buffer[Place(pipe.rd, i - 1)]
  BY <1>1, PipeAssumption DEF PipeRecords, RingOK, RingIs
<1>3. ASSUME NEW i \in 1 .. pipe.used PROVE (pipe.rd + i - 1) % Size = Place(pipe.rd, i - 1)
  <2>1. i - 1 \in 0 .. Size /\ pipe.rd + i - 1 = pipe.rd + (i - 1)
    BY <1>2
  <2>2. (pipe.rd + (i - 1)) % Size = Place(pipe.rd, i - 1)
    BY <1>2, <2>1, PlaceFacts, Zenon
  <2> QED
    BY <2>1, <2>2
<1>4. Ring = sent
  <2>1. Ring = [i \in 1 .. pipe.used |-> pipe.buffer[Place(pipe.rd, i - 1)]]
    BY <1>3 DEF Ring
  <2>2. sent = [i \in 1 .. pipe.used |-> sent[i]]
    BY <1>1, <1>2
  <2> QED
    BY <1>2, <2>1, <2>2, Zenon
<1> QED
  BY <1>1, <1>4, Zenon DEF StreamIntact, TogetherOK

\* The ring of a pipe holds the bytes written and not yet read, in their order,
\* however transfers wrap around, threads sleep between the parts of a transfer
\* and resets happen, and the bytes of one call are together.
THEOREM StreamStaysIntact == PipeSpec => []StreamIntact
<1>1. PipeInit => PipeInv
  BY PipeStart
<1>2. PipeInv /\ [PipeNext]_pipevars => PipeInv'
  BY PipeStep
<1>3. PipeInv => StreamIntact
  BY PipeStream
<1> QED
  BY <1>1, <1>2, <1>3, PTL DEF PipeSpec

=============================================================================
