----------------------------- MODULE NilProofs -----------------------------
(***************************************************************************)
(* The NIL kernel for any number of threads, any width of its time and any *)
(* timeouts: threads, objects and the scheduler agree after every step.    *)
(***************************************************************************)
EXTENDS NilKernel, FiniteSetTheorems, WellFoundedInduction, TLAPS

-----------------------------------------------------------------------------
(* The parts of the invariant *)

All == 1 .. idle
States == {"READY", "WTSTART", "WTQUEUE", "SUSPENDED", "SLEEPING", "WTMSG", "SNDMSGQ", "WTEXIT", "FINAL"}
Objects == {"sem", "tq"}
Words == Int \cup {"sem", "tq", "ref"}
Times == 0 .. W - 1

NilRecords == [current : All, next : All, state : [All -> States], u1 : [All -> Words],
               timeout : [All -> Nat], due : [All -> Nat]]
ClockRecords == [now : Times, lasttime : Times, nexttime : Times, alarm : BOOLEAN]

NilTypeOK ==
  /\ nil \in NilRecords /\ counter \in [Objects -> Int] /\ reference \in 0 .. NT
  /\ cont \in [All -> {"none", "msg"}] /\ got \in SUBSET Thds
  /\ isr \in {"none", "handler", "tick"} /\ scan \in [tp : 0 .. idle, next : Times]
  /\ clock \in ClockRecords /\ delta \in Deltas

\* k is the first ready thread.
FirstReady(st, k) == k \in All /\ st[k] = "READY" /\ \A t \in All : st[t] = "READY" => k <= t

\* The threads that wait in the queue of o.
WaitsFor(st, u, o) == {t \in Thds : st[t] = "WTQUEUE" /\ u[t] = o}

\* The counters count the waiters.
CountOK(st, u, cnt) ==
  /\ \A o \in Objects : Cardinality(WaitsFor(st, u, o)) = IF cnt[o] < 0 THEN -cnt[o] ELSE 0
  /\ cnt["tq"] <= 0

\* The reference is the thread that waits for it.
RefOK(st, ref) == \A t \in Thds : st[t] = "SUSPENDED" <=> ref = t

\* The states in which a thread may have a timeout.
TimedStates == {"WTQUEUE", "SUSPENDED", "SLEEPING", "WTMSG"}

\* What the state of a thread says about it and about others: nobody waits for
\* what is there, and the thread that wakes up in chMsgWaitTimeoutS has a sender
\* or MSG_TIMEOUT.
ThreadOK(t, st, u, to, co, go) ==
  /\ st[t] = "WTQUEUE" => u[t] \in Objects
  /\ st[t] = "WTMSG" => co[t] = "msg" /\ \A s \in Thds : st[s] = "SNDMSGQ" => u[s] # t
  /\ st[t] = "WTEXIT" => u[t] \in Thds /\ st[u[t]] # "FINAL"
  /\ st[t] \notin TimedStates => to[t] = 0
  /\ t \in go => st[t] = "SNDMSGQ"
  /\ co[t] = "msg" /\ st[t] # "WTMSG" =>
       /\ st[t] = "READY"
       /\ u[t] = MSG_TIMEOUT \/ (u[t] \in Thds /\ st[u[t]] = "SNDMSGQ" /\ u[u[t]] = t)

ThreadsOK(st, u, to, co, go) ==
  /\ st[idle] = "READY" /\ co[idle] = "none"
  /\ \A t \in Thds : ThreadOK(t, st, u, to, co, go)

SchedOK ==
  /\ FirstReady(nil.state, nil.next)
  /\ isr = "none" => nil.current = nil.next
  /\ isr = "tick" => scan.tp >= 1

NilInv ==
  /\ NilTypeOK /\ SchedOK
  /\ CountOK(nil.state, nil.u1, counter) /\ RefOK(nil.state, reference)
  /\ ThreadsOK(nil.state, nil.u1, nil.timeout, cont, got)

-----------------------------------------------------------------------------
(* Least elements, and the first ready thread *)

\* A non-empty set of naturals has a least element, and Min is it.
LEMMA MinNat ==
  ASSUME NEW S \in SUBSET Nat, S # {}
  PROVE  Min(S) \in S /\ \A y \in S : Min(S) <= y
<1> DEFINE R == OpToRel(<, Nat)
<1>1. IsWellFoundedOn(R, Nat)
  BY NatLessThanWellFounded, Zenon
<1>2. \A x, y \in Nat : y < x => <<y, x>> \in R
  BY DEF OpToRel
<1> HIDE DEF R
<1>3. PICK x \in S : \A y \in S : ~ (<<y, x>> \in R)
  BY <1>1, WFMin, Zenon
<1>4. ASSUME NEW y \in S PROVE x <= y
  <2>1. x \in Nat /\ y \in Nat
    OBVIOUS
  <2>2. ~(y < x)
    BY <2>1, <1>2, <1>3, Zenon
  <2> QED
    BY <2>1, <2>2
<1>5. \E z \in S : \A y \in S : z <= y
  BY <1>4
<1> QED
  BY <1>5, Zenon DEF Min

\* Threads have numbers.
LEMMA Numbers ==
  /\ NT \in Nat /\ idle = NT + 1 /\ idle \in All /\ Thds \subseteq All /\ idle \notin Thds
  /\ All = Thds \cup {idle} /\ All \subseteq Nat /\ Thds \subseteq Nat \ {0}
  /\ W \in Nat /\ W > 0 /\ Times \subseteq Nat
BY NilAssumption DEF idle, All, Thds, Times

\* Min(ReadyOnes) is the first ready thread.
LEMMA FirstIsMin ==
  ASSUME NEW n, n.state[idle] = "READY"
  PROVE  /\ FirstReady(n.state, Min(ReadyOnes(n)))
         /\ \A k : FirstReady(n.state, k) => k = Min(ReadyOnes(n))
<1> DEFINE S == ReadyOnes(n)
<1>1. S \in SUBSET Nat /\ S # {} /\ \A t : t \in S <=> t \in All /\ n.state[t] = "READY"
  BY Numbers DEF ReadyOnes, All
<1> HIDE DEF S
<1>2. Min(S) \in S /\ \A y \in S : Min(S) <= y
  BY <1>1, MinNat
<1>3. FirstReady(n.state, Min(S))
  BY <1>1, <1>2, Zenon DEF FirstReady
<1>4. ASSUME NEW k, FirstReady(n.state, k) PROVE k = Min(S)
  <2>1. k \in S /\ k <= Min(S)
    BY <1>1, <1>2, <1>4 DEF FirstReady
  <2>2. Min(S) <= k /\ k \in Nat /\ Min(S) \in Nat
    BY <1>1, <1>2, <2>1, Zenon
  <2> QED
    BY <2>1, <2>2
<1> QED
  BY <1>3, <1>4 DEF S

-----------------------------------------------------------------------------
(* What becomes of the objects *)

\* The waiters of an object are finitely many.
LEMMA WaitersFinite ==
  ASSUME NEW st, NEW u, NEW o
  PROVE  IsFiniteSet(WaitsFor(st, u, o)) /\ Cardinality(WaitsFor(st, u, o)) \in Nat
<1>1. IsFiniteSet(Thds)
  BY NilAssumption, FS_Interval DEF Thds
<1>2. WaitsFor(st, u, o) \subseteq Thds
  BY DEF WaitsFor
<1> QED
  BY <1>1, <1>2, FS_Subset, FS_CardinalityType

\* The threads that wait are the same ones.
SameQueues(st, u, st2, u2) ==
  \A t \in Thds : /\ st2[t] = "WTQUEUE" <=> st[t] = "WTQUEUE"
                  /\ st2[t] = "WTQUEUE" => u2[t] = u[t]

\* The counters count them.
LEMMA SameWaiters ==
  ASSUME NEW st, NEW u, NEW st2, NEW u2, NEW cnt, CountOK(st, u, cnt), SameQueues(st, u, st2, u2)
  PROVE  CountOK(st2, u2, cnt)
<1> USE DEF SameQueues
<1>1. \A o : WaitsFor(st2, u2, o) = WaitsFor(st, u, o)
  BY Zenon DEF WaitsFor
<1> QED
  BY <1>1, Zenon DEF CountOK

\* One of the waiters of o, w, is none any more.
Leaves(w, o, st, u, cnt, st2, u2, cnt2) ==
  /\ o \in Objects /\ w \in Thds /\ st[w] = "WTQUEUE" /\ u[w] = o /\ st2[w] # "WTQUEUE"
  /\ \A t \in Thds \ {w} : st2[t] = st[t] /\ u2[t] = u[t]
  /\ cnt2[o] = cnt[o] + 1 /\ \A p \in Objects : p # o => cnt2[p] = cnt[p]

\* The counter follows.
LEMMA OneWaiterLess ==
  ASSUME NEW st, NEW u, NEW st2, NEW u2, NEW cnt \in [Objects -> Int], NEW cnt2 \in [Objects -> Int],
         CountOK(st, u, cnt), NEW o, NEW w, Leaves(w, o, st, u, cnt, st2, u2, cnt2)
  PROVE  CountOK(st2, u2, cnt2)
<1> USE DEF Leaves
<1> DEFINE S(p) == WaitsFor(st, u, p)
<1> DEFINE T(p) == WaitsFor(st2, u2, p)
<1>1. w \in S(o) /\ T(o) = S(o) \ {w} /\ \A p \in Objects : p # o => T(p) = S(p)
  BY Zenon DEF WaitsFor
<1>2. IsFiniteSet(S(o)) /\ Cardinality(S(o)) \in Nat
  BY WaitersFinite, Zenon
<1>3. /\ \A p \in Objects : Cardinality(S(p)) = IF cnt[p] < 0 THEN -cnt[p] ELSE 0
      /\ cnt["tq"] <= 0
  BY Zenon DEF CountOK
<1> HIDE DEF S, T
<1>4. Cardinality(T(o)) = Cardinality(S(o)) - 1 /\ Cardinality(S(o)) # 0
  BY <1>1, <1>2, FS_RemoveElement, FS_EmptySet
<1>5. Cardinality(T(o)) = (IF cnt2[o] < 0 THEN -cnt2[o] ELSE 0) /\ cnt2[o] <= 0
  BY <1>2, <1>3, <1>4
<1>6. \A p \in Objects : Cardinality(T(p)) = IF cnt2[p] < 0 THEN -cnt2[p] ELSE 0
  BY <1>1, <1>3, <1>5, Zenon
<1>7. cnt2["tq"] <= 0
  BY <1>3, <1>5 DEF Objects
<1> QED
  BY <1>6, <1>7, Zenon DEF CountOK, T

\* The thread c is a new waiter of o, of which there is none left.
Enters(c, o, st, u, cnt, st2, u2, cnt2) ==
  /\ o \in Objects /\ c \in Thds /\ st[c] # "WTQUEUE" /\ st2[c] = "WTQUEUE" /\ u2[c] = o
  /\ \A t \in Thds \ {c} : st2[t] = st[t] /\ u2[t] = u[t]
  /\ cnt[o] <= 0 /\ cnt2[o] = cnt[o] - 1 /\ \A p \in Objects : p # o => cnt2[p] = cnt[p]

\* The counter follows.
LEMMA OneWaiterMore ==
  ASSUME NEW st, NEW u, NEW st2, NEW u2, NEW cnt \in [Objects -> Int], NEW cnt2 \in [Objects -> Int],
         CountOK(st, u, cnt), NEW o, NEW c, Enters(c, o, st, u, cnt, st2, u2, cnt2)
  PROVE  CountOK(st2, u2, cnt2)
<1> USE DEF Enters
<1> DEFINE S(p) == WaitsFor(st, u, p)
<1> DEFINE T(p) == WaitsFor(st2, u2, p)
<1>1. c \notin S(o) /\ T(o) = S(o) \cup {c} /\ \A p \in Objects : p # o => T(p) = S(p)
  BY Zenon DEF WaitsFor
<1>2. IsFiniteSet(S(o)) /\ Cardinality(S(o)) \in Nat
  BY WaitersFinite, Zenon
<1>3. /\ \A p \in Objects : Cardinality(S(p)) = IF cnt[p] < 0 THEN -cnt[p] ELSE 0
      /\ cnt["tq"] <= 0
  BY Zenon DEF CountOK
<1> HIDE DEF S, T
<1>4. Cardinality(T(o)) = Cardinality(S(o)) + 1
  <2>1. Cardinality(S(o) \cup {c}) = Cardinality(S(o)) + 1
    <3> DEFINE A == S(o)
    <3> HIDE DEF A
    <3>1. IsFiniteSet(A) /\ c \notin A
      BY <1>1, <1>2, Zenon DEF A
    <3>2. Cardinality(A \cup {c}) = Cardinality(A) + 1
      BY <3>1, FS_AddElement, Zenon
    <3> QED
      BY <3>2, Zenon DEF A
  <2> QED
    BY <1>1, <2>1, Zenon
<1>5. Cardinality(T(o)) = (IF cnt2[o] < 0 THEN -cnt2[o] ELSE 0) /\ cnt2[o] <= 0
  BY <1>2, <1>3, <1>4
<1>6. \A p \in Objects : Cardinality(T(p)) = IF cnt2[p] < 0 THEN -cnt2[p] ELSE 0
  BY <1>1, <1>3, <1>5, Zenon
<1>7. cnt2["tq"] <= 0
  BY <1>3, <1>5 DEF Objects
<1> QED
  BY <1>6, <1>7, Zenon DEF CountOK, T

\* Nobody waits for o any more.
AllLeave(o, st, u, cnt, st2, u2, cnt2) ==
  /\ o \in Objects /\ WaitsFor(st2, u2, o) = {}
  /\ \A p \in Objects : p # o => WaitsFor(st2, u2, p) = WaitsFor(st, u, p)
  /\ cnt2[o] >= 0 /\ (o = "tq" => cnt2[o] = 0) /\ \A p \in Objects : p # o => cnt2[p] = cnt[p]

\* The counter is none of waiters.
LEMMA NoWaiters ==
  ASSUME NEW st, NEW u, NEW st2, NEW u2, NEW cnt \in [Objects -> Int], NEW cnt2 \in [Objects -> Int],
         CountOK(st, u, cnt), NEW o, AllLeave(o, st, u, cnt, st2, u2, cnt2)
  PROVE  CountOK(st2, u2, cnt2)
<1> USE DEF AllLeave
<1>1. Cardinality(WaitsFor(st2, u2, o)) = 0
  BY FS_EmptySet
<1>2. /\ \A p \in Objects : Cardinality(WaitsFor(st, u, p)) = IF cnt[p] < 0 THEN -cnt[p] ELSE 0
      /\ cnt["tq"] <= 0
  BY Zenon DEF CountOK
<1>3. ~(cnt2[o] < 0)
  OBVIOUS
<1>4. ASSUME NEW p \in Objects
      PROVE  Cardinality(WaitsFor(st2, u2, p)) = IF cnt2[p] < 0 THEN -cnt2[p] ELSE 0
  <2>1. CASE p = o
    BY <1>1, <1>3, <2>1
  <2>2. CASE p # o
    BY <1>2, <2>2, Zenon
  <2> QED
    BY <2>1, <2>2, Zenon
<1>5. cnt2["tq"] <= 0
  BY <1>2 DEF Objects
<1> QED
  BY <1>4, <1>5, Zenon DEF CountOK

-----------------------------------------------------------------------------
(* What becomes of the threads *)

\* From st, u, to to st2, u2, to2 the threads ws are made ready.
Wakes(ws, st, u, to, st2, u2, to2) ==
  \A t \in All : IF t \in ws THEN st2[t] = "READY" /\ to2[t] = 0
                 ELSE st2[t] = st[t] /\ u2[t] = u[t] /\ to2[t] = to[t]

\* None of the threads ws gets a message, and no receiver is about to take the
\* message of one of them.
MayWake(ws, st, u, u2, co) ==
  /\ ws \in SUBSET Thds
  /\ \A w \in ws : co[w] = "msg" => u2[w] = MSG_TIMEOUT
  /\ \A w \in ws : st[w] = "SNDMSGQ" =>
       \A r \in Thds : ~(co[r] = "msg" /\ st[r] = "READY" /\ u[r] = w)

\* What holds of the threads holds when such ones are made ready.
LEMMA WakeThreads ==
  ASSUME NEW st, NEW u, NEW to, NEW st2, NEW u2, NEW to2, NEW co, NEW go, NEW ws,
         ThreadsOK(st, u, to, co, go), Wakes(ws, st, u, to, st2, u2, to2), MayWake(ws, st, u, u2, co)
  PROVE  ThreadsOK(st2, u2, to2, co, go \ ws)
<1> USE DEF MayWake
<1>1. /\ Thds \subseteq All /\ idle \in All /\ idle \notin Thds
  BY Numbers, Zenon
<1>2. /\ \A t \in ws : st2[t] = "READY" /\ to2[t] = 0
      /\ \A t \in All : t \notin ws => st2[t] = st[t] /\ u2[t] = u[t] /\ to2[t] = to[t]
  BY <1>1, Zenon DEF Wakes
<1>3. /\ st[idle] = "READY" /\ co[idle] = "none"
      /\ \A t \in Thds : ThreadOK(t, st, u, to, co, go)
  BY Zenon DEF ThreadsOK
<1>4. st2[idle] = "READY"
  BY <1>1, <1>2, <1>3, Zenon
<1>5. ASSUME NEW t \in Thds PROVE ThreadOK(t, st2, u2, to2, co, go \ ws)
  <2>1. CASE t \in ws
    <3>1. st2[t] = "READY" /\ to2[t] = 0 /\ (co[t] = "msg" => u2[t] = MSG_TIMEOUT) /\ t \notin go \ ws
      BY <1>2, <2>1, Zenon
    <3> QED
      BY <3>1 DEF ThreadOK
  <2>2. CASE t \notin ws
    <3>1. st2[t] = st[t] /\ u2[t] = u[t] /\ to2[t] = to[t]
      BY <1>1, <1>2, <2>2, Zenon
    <3>2. ThreadOK(t, st, u, to, co, go)
      BY <1>3, Zenon
    <3>3. ASSUME st2[t] = "WTMSG", NEW s \in Thds, st2[s] = "SNDMSGQ" PROVE u2[s] # t
      <4>1. s \notin ws
        BY <1>2, <3>3
      <4>2. st2[s] = st[s] /\ u2[s] = u[s]
        BY <1>1, <1>2, <4>1, Zenon
      <4> QED
        BY <3>1, <3>2, <3>3, <4>2, Zenon DEF ThreadOK
    <3>4. ASSUME st2[t] = "WTEXIT" PROVE u2[t] \in Thds /\ st2[u2[t]] # "FINAL"
      <4>1. u2[t] \in Thds /\ st[u2[t]] # "FINAL"
        BY <3>1, <3>2, <3>4, Zenon DEF ThreadOK
      <4>2. u2[t] \in ws => st2[u2[t]] = "READY"
        BY <1>2, Zenon
      <4>3. u2[t] \notin ws => st2[u2[t]] = st[u2[t]]
        BY <1>1, <1>2, <4>1, Zenon
      <4> QED
        BY <4>1, <4>2, <4>3
    <3>5. ASSUME co[t] = "msg", st2[t] # "WTMSG"
          PROVE  /\ st2[t] = "READY"
                 /\ u2[t] = MSG_TIMEOUT \/ (u2[t] \in Thds /\ st2[u2[t]] = "SNDMSGQ" /\ u2[u2[t]] = t)
      <4>1. /\ st[t] = "READY"
            /\ u[t] = MSG_TIMEOUT \/ (u[t] \in Thds /\ st[u[t]] = "SNDMSGQ" /\ u[u[t]] = t)
        BY <3>1, <3>2, <3>5, Zenon DEF ThreadOK
      <4>2. CASE u[t] = MSG_TIMEOUT
        BY <3>1, <4>1, <4>2, Zenon
      <4>3. CASE u[t] \in Thds /\ st[u[t]] = "SNDMSGQ" /\ u[u[t]] = t
        <5>1. u[t] \notin ws
          BY <3>5, <4>1, <4>3, Zenon
        <5>2. st2[u[t]] = st[u[t]] /\ u2[u[t]] = u[u[t]]
          BY <1>1, <1>2, <4>3, <5>1, Zenon
        <5> QED
          BY <3>1, <4>1, <4>3, <5>2, Zenon
      <4> QED
        BY <4>1, <4>2, <4>3, Zenon
    <3> QED
      BY <3>1, <3>2, <3>3, <3>4, <3>5, Zenon DEF ThreadOK
  <2> QED
    BY <2>1, <2>2, Zenon
<1> QED
  BY <1>3, <1>4, <1>5, Zenon DEF ThreadsOK

\* The thread c, which ran, goes to sleep in the state s: nothing that it waits
\* for is there already, and nobody waits for what it does.
FallsAsleep(c, s, st, u, to, co, st2, u2, to2, co2) ==
  /\ st[c] = "READY" /\ co[c] = "none"
  /\ \A t \in All : t # c => st2[t] = st[t] /\ u2[t] = u[t] /\ to2[t] = to[t] /\ co2[t] = co[t]
  /\ st2[c] = s /\ s # "READY" /\ co2[c] = (IF s = "WTMSG" THEN "msg" ELSE "none")
  /\ s = "WTQUEUE" => u2[c] \in Objects
  /\ s = "WTMSG" => \A x \in Thds : st[x] = "SNDMSGQ" => u[x] # c
  /\ s = "WTEXIT" => u2[c] \in Thds /\ u2[c] # c /\ st[u2[c]] # "FINAL"
  /\ s \notin TimedStates => to2[c] = 0
  /\ s = "FINAL" => \A t \in Thds : st[t] = "WTEXIT" => u[t] # c
  /\ s = "SNDMSGQ" => \A t \in Thds : st[t] = "WTMSG" => u2[c] # t

\* What holds of the threads holds when one falls asleep.
LEMMA SleepThreads ==
  ASSUME NEW st, NEW u, NEW to, NEW co, NEW st2, NEW u2, NEW to2, NEW co2, NEW go, NEW c \in Thds, NEW s,
         ThreadsOK(st, u, to, co, go), FallsAsleep(c, s, st, u, to, co, st2, u2, to2, co2)
  PROVE  ThreadsOK(st2, u2, to2, co2, go)
<1> USE DEF FallsAsleep
<1>1. /\ Thds \subseteq All /\ idle \in All /\ idle \notin Thds
  BY Numbers, Zenon
<1>2. /\ st[idle] = "READY" /\ co[idle] = "none"
      /\ \A t \in Thds : ThreadOK(t, st, u, to, co, go)
  BY Zenon DEF ThreadsOK
<1>3. st2[idle] = "READY" /\ co2[idle] = "none"
  BY <1>1, <1>2, Zenon
<1>4. c \notin go
  <2>1. ThreadOK(c, st, u, to, co, go)
    BY <1>2, Zenon
  <2> QED
    BY <2>1 DEF ThreadOK
<1>5. ThreadOK(c, st2, u2, to2, co2, go)
  <2>1. ASSUME s = "WTMSG", NEW x \in Thds, st2[x] = "SNDMSGQ" PROVE u2[x] # c
    <3>1. x # c
      BY <2>1
    <3>2. st2[x] = st[x] /\ u2[x] = u[x]
      BY <1>1, <3>1, Zenon
    <3> QED
      BY <2>1, <3>2, Zenon
  <2>2. ASSUME s = "WTEXIT" PROVE u2[c] \in Thds /\ st2[u2[c]] # "FINAL"
    BY <1>1, <2>2, Zenon
  <2>3. s # "WTMSG" => co2[c] # "msg"
    OBVIOUS
  <2>4. s = "WTMSG" => co2[c] = "msg"
    OBVIOUS
  <2> QED
    BY <1>4, <2>1, <2>2, <2>3, <2>4, Zenon DEF ThreadOK
<1>6. ASSUME NEW t \in Thds, t # c PROVE ThreadOK(t, st2, u2, to2, co2, go)
  <2>1. st2[t] = st[t] /\ u2[t] = u[t] /\ to2[t] = to[t] /\ co2[t] = co[t]
    BY <1>1, <1>6, Zenon
  <2>2. ThreadOK(t, st, u, to, co, go)
    BY <1>2, Zenon
  <2>3. ASSUME st2[t] = "WTMSG", NEW x \in Thds, st2[x] = "SNDMSGQ" PROVE u2[x] # t
    <3>1. CASE x = c
      BY <2>1, <2>3, <3>1, Zenon
    <3>2. CASE x # c
      <4>1. st2[x] = st[x] /\ u2[x] = u[x]
        BY <1>1, <3>2, Zenon
      <4> QED
        BY <2>1, <2>2, <2>3, <4>1, Zenon DEF ThreadOK
    <3> QED
      BY <3>1, <3>2, Zenon
  <2>4. ASSUME st2[t] = "WTEXIT" PROVE u2[t] \in Thds /\ st2[u2[t]] # "FINAL"
    <3>1. u2[t] \in Thds /\ st[u2[t]] # "FINAL" /\ u2[t] = u[t]
      BY <2>1, <2>2, <2>4, Zenon DEF ThreadOK
    <3>2. u2[t] = c => s # "FINAL"
      BY <2>1, <2>4, <3>1, Zenon
    <3>3. u2[t] # c => st2[u2[t]] = st[u2[t]]
      BY <1>1, <3>1, Zenon
    <3> QED
      BY <3>1, <3>2, <3>3, Zenon
  <2>5. ASSUME co2[t] = "msg", st2[t] # "WTMSG"
        PROVE  /\ st2[t] = "READY"
               /\ u2[t] = MSG_TIMEOUT \/ (u2[t] \in Thds /\ st2[u2[t]] = "SNDMSGQ" /\ u2[u2[t]] = t)
    <3>1. /\ st[t] = "READY"
          /\ u[t] = MSG_TIMEOUT \/ (u[t] \in Thds /\ st[u[t]] = "SNDMSGQ" /\ u[u[t]] = t)
      BY <2>1, <2>2, <2>5, Zenon DEF ThreadOK
    <3>2. CASE u[t] = MSG_TIMEOUT
      BY <2>1, <3>1, <3>2, Zenon
    <3>3. CASE u[t] \in Thds /\ st[u[t]] = "SNDMSGQ" /\ u[u[t]] = t
      <4>1. u[t] # c
        BY <3>3
      <4>2. st2[u[t]] = st[u[t]] /\ u2[u[t]] = u[u[t]]
        BY <1>1, <3>3, <4>1, Zenon
      <4> QED
        BY <2>1, <3>1, <3>3, <4>2, Zenon
    <3> QED
      BY <3>1, <3>2, <3>3, Zenon
  <2> QED
    BY <2>1, <2>2, <2>3, <2>4, <2>5, Zenon DEF ThreadOK
<1> QED
  BY <1>2, <1>3, <1>5, <1>6, Zenon DEF ThreadsOK

\* A thread r that waits for messages has its sender c.
Hands(c, r, st, u, to, co, st2, u2, to2, co2) ==
  /\ c \in Thds /\ r \in Thds /\ r # c /\ st[c] = "READY" /\ co[c] = "none" /\ st[r] = "WTMSG"
  /\ \A t \in All : t # c /\ t # r => st2[t] = st[t] /\ u2[t] = u[t] /\ to2[t] = to[t]
  /\ st2[c] = "SNDMSGQ" /\ u2[c] = r /\ to2[c] = 0
  /\ st2[r] = "READY" /\ u2[r] = c /\ to2[r] = 0
  /\ \A t \in All : co2[t] = co[t]

\* What holds of the threads holds after chMsgSend to such a thread.
LEMMA SendThreads ==
  ASSUME NEW st, NEW u, NEW to, NEW co, NEW st2, NEW u2, NEW to2, NEW co2, NEW go, NEW c, NEW r,
         ThreadsOK(st, u, to, co, go), Hands(c, r, st, u, to, co, st2, u2, to2, co2)
  PROVE  ThreadsOK(st2, u2, to2, co2, go)
<1> USE DEF Hands
<1>1. /\ Thds \subseteq All /\ idle \in All /\ idle \notin Thds
  BY Numbers, Zenon
<1>2. /\ st[idle] = "READY" /\ co[idle] = "none"
      /\ \A t \in Thds : ThreadOK(t, st, u, to, co, go)
  BY Zenon DEF ThreadsOK
<1>3. st2[idle] = "READY" /\ co2[idle] = "none" /\ co2[c] = "none"
  BY <1>1, <1>2, Zenon
<1>4. c \notin go /\ r \notin go
  <2>1. ThreadOK(c, st, u, to, co, go) /\ ThreadOK(r, st, u, to, co, go)
    BY <1>2, Zenon
  <2> QED
    BY <2>1 DEF ThreadOK
<1>5. ThreadOK(c, st2, u2, to2, co2, go) /\ ThreadOK(r, st2, u2, to2, co2, go)
  <2>1. ThreadOK(c, st2, u2, to2, co2, go)
    BY <1>3, <1>4 DEF ThreadOK
  <2>2. ThreadOK(r, st2, u2, to2, co2, go)
    BY <1>4 DEF ThreadOK
  <2> QED
    BY <2>1, <2>2, Zenon
<1>6. ASSUME NEW t \in Thds, t # c, t # r PROVE ThreadOK(t, st2, u2, to2, co2, go)
  <2>1. st2[t] = st[t] /\ u2[t] = u[t] /\ to2[t] = to[t] /\ co2[t] = co[t]
    BY <1>1, <1>6, Zenon
  <2>2. ThreadOK(t, st, u, to, co, go)
    BY <1>2, Zenon
  <2>3. ASSUME st2[t] = "WTMSG", NEW x \in Thds, st2[x] = "SNDMSGQ" PROVE u2[x] # t
    <3>1. x # r
      BY <2>3
    <3>2. CASE x = c
      BY <1>6, <3>2, Zenon
    <3>3. CASE x # c
      <4>1. st2[x] = st[x] /\ u2[x] = u[x]
        BY <1>1, <3>1, <3>3, Zenon
      <4> QED
        BY <2>1, <2>2, <2>3, <4>1, Zenon DEF ThreadOK
    <3> QED
      BY <3>2, <3>3, Zenon
  <2>4. ASSUME st2[t] = "WTEXIT" PROVE u2[t] \in Thds /\ st2[u2[t]] # "FINAL"
    <3>1. u2[t] \in Thds /\ st[u2[t]] # "FINAL"
      BY <2>1, <2>2, <2>4, Zenon DEF ThreadOK
    <3>2. u2[t] # c /\ u2[t] # r => st2[u2[t]] = st[u2[t]]
      BY <1>1, <3>1, Zenon
    <3> QED
      BY <3>1, <3>2
  <2>5. ASSUME co2[t] = "msg", st2[t] # "WTMSG"
        PROVE  /\ st2[t] = "READY"
               /\ u2[t] = MSG_TIMEOUT \/ (u2[t] \in Thds /\ st2[u2[t]] = "SNDMSGQ" /\ u2[u2[t]] = t)
    <3>1. /\ st[t] = "READY"
          /\ u[t] = MSG_TIMEOUT \/ (u[t] \in Thds /\ st[u[t]] = "SNDMSGQ" /\ u[u[t]] = t)
      BY <2>1, <2>2, <2>5, Zenon DEF ThreadOK
    <3>2. CASE u[t] = MSG_TIMEOUT
      BY <2>1, <3>1, <3>2, Zenon
    <3>3. CASE u[t] \in Thds /\ st[u[t]] = "SNDMSGQ" /\ u[u[t]] = t
      <4>1. u[t] # c /\ u[t] # r
        BY <3>3
      <4>2. st2[u[t]] = st[u[t]] /\ u2[u[t]] = u[u[t]]
        BY <1>1, <3>3, <4>1, Zenon
      <4> QED
        BY <2>1, <3>1, <3>3, <4>2, Zenon
    <3> QED
      BY <3>1, <3>2, <3>3, Zenon
  <2> QED
    BY <2>1, <2>2, <2>3, <2>4, <2>5, Zenon DEF ThreadOK
<1> QED
  BY <1>2, <1>3, <1>5, <1>6, Zenon DEF ThreadsOK

-----------------------------------------------------------------------------
(* The steps of the scheduler *)

\* The parts of a record of the kernel.
LEMMA Parts ==
  ASSUME NEW n \in NilRecords
  PROVE  /\ n.current \in All /\ n.next \in All /\ n.state \in [All -> States]
         /\ n.u1 \in [All -> Words] /\ n.timeout \in [All -> Nat] /\ n.due \in [All -> Nat]
BY DEF NilRecords

\* The parts of the type invariant.
LEMMA TypeParts ==
  ASSUME NilTypeOK
  PROVE  /\ nil \in NilRecords /\ cur \in All
         /\ counter \in [Objects -> Int] /\ reference \in 0 .. NT
         /\ cont \in [All -> {"none", "msg"}] /\ got \in SUBSET Thds
BY Parts DEF NilTypeOK, cur

\* From n to r, t is made ready with the word k, and nil.next is still the first
\* ready thread.
MadeReady(n, t, k, r) ==
  /\ r \in NilRecords /\ FirstReady(r.state, r.next) /\ r.current = n.current
  /\ r.state = [n.state EXCEPT ![t] = "READY"] /\ r.u1 = [n.u1 EXCEPT ![t] = k]
  /\ r.timeout = [n.timeout EXCEPT ![t] = 0] /\ r.due = [n.due EXCEPT ![t] = 0]
  /\ Wakes({t}, n.state, n.u1, n.timeout, r.state, r.u1, r.timeout) /\ r.u1[t] = k

\* That is what chSchReadyI does.
LEMMA ReadyIs ==
  ASSUME NEW n \in NilRecords, NEW t \in Thds, NEW m \in Words, FirstReady(n.state, n.next)
  PROVE  MadeReady(n, t, Kept(t, m), chSchReadyI(n, t, m))
<1> DEFINE r == chSchReadyI(n, t, m)
<1> DEFINE k == Kept(t, m)
           st2 == [n.state EXCEPT ![t] = "READY"]
           u2 == [n.u1 EXCEPT ![t] = k]
           to2 == [n.timeout EXCEPT ![t] = 0]
           due2 == [n.due EXCEPT ![t] = 0]
           nx == IF t < n.next THEN t ELSE n.next
<1>1. t \in All /\ n.next \in All /\ All \subseteq Nat
  BY Numbers, Parts, Zenon
<1>2. k \in Words
  BY DEF Kept, MSG_OK, Words
<1>3. r = [n EXCEPT !.u1 = u2, !.state = st2, !.timeout = to2, !.due = due2, !.next = nx]
  BY DEF chSchReadyI
<1> HIDE DEF k, r
<1>4. /\ st2 \in [All -> States] /\ u2 \in [All -> Words] /\ to2 \in [All -> Nat] /\ due2 \in [All -> Nat]
      /\ nx \in All
  <2>1. "READY" \in States /\ 0 \in Nat
    BY DEF States
  <2> QED
    BY <1>1, <1>2, <2>1, Parts
<1>5. Wakes({t}, n.state, n.u1, n.timeout, st2, u2, to2) /\ u2[t] = k
  BY <1>1, Parts DEF Wakes
<1>6. FirstReady(st2, nx)
  <2>1. n.state \in [All -> States] /\ n.state[n.next] = "READY"
        /\ \A x \in All : n.state[x] = "READY" => n.next <= x
    BY Parts DEF FirstReady
  <2>2. st2[t] = "READY" /\ \A x \in All : x # t => st2[x] = n.state[x]
    BY <1>1, <2>1
  <2> HIDE DEF st2
  <2>3. st2[nx] = "READY"
    BY <1>1, <2>1, <2>2
  <2>4. ASSUME NEW x \in All, st2[x] = "READY" PROVE nx <= x
    <3>1. x \in Nat /\ t \in Nat /\ n.next \in Nat
      BY <1>1, Zenon
    <3>2. x = t \/ n.next <= x
      BY <2>1, <2>2, <2>4
    <3> QED
      BY <3>1, <3>2
  <2> QED
    BY <1>4, <2>3, <2>4, Zenon DEF FirstReady
<1> HIDE DEF st2, u2, to2, due2, nx
<1>7. /\ r.state = st2 /\ r.u1 = u2 /\ r.timeout = to2 /\ r.due = due2 /\ r.next = nx
      /\ r.current = n.current /\ r \in NilRecords
  BY <1>3, <1>4, Zenon DEF NilRecords
<1> QED
  BY <1>5, <1>6, <1>7, Zenon DEF st2, u2, to2, due2, k, r, MadeReady

\* From n to r, the threads of a set are made ready.
MadeAllReady(n, all, r) ==
  /\ r \in NilRecords /\ FirstReady(r.state, r.next) /\ r.current = n.current
  /\ Wakes(all, n.state, n.u1, n.timeout, r.state, r.u1, r.timeout)
  /\ \A t \in All : t \notin all => r.due[t] = n.due[t]

\* nil_ready_all: the counter is the number of the waiters, so it is all of them.
LEMMA ReadyAllIs ==
  ASSUME NEW n \in NilRecords, NEW o, NEW c \in Int, NEW m \in Words, FirstReady(n.state, n.next),
         Cardinality(WaitsFor(n.state, n.u1, o)) = (IF c < 0 THEN -c ELSE 0)
  PROVE  MadeAllReady(n, WaitsFor(n.state, n.u1, o), nil_ready_all(n, o, c, m))
<1> DEFINE all == WaitsFor(n.state, n.u1, o)
           r == nil_ready_all(n, o, c, m)
<1> DEFINE ws == {t \in all : Cardinality({w \in all : w < t}) < -c}
           st2 == [t \in All |-> IF t \in all THEN "READY" ELSE n.state[t]]
           u2 == [t \in All |-> IF t \in all THEN Kept(t, m) ELSE n.u1[t]]
           to2 == [t \in All |-> IF t \in all THEN 0 ELSE n.timeout[t]]
           due2 == [t \in All |-> IF t \in all THEN 0 ELSE n.due[t]]
           nx == Min(all \cup {n.next})
<1>1. all = Waiters(n, "WTQUEUE", o) /\ all \subseteq Thds /\ IsFiniteSet(all) /\ Cardinality(all) \in Nat
  <2>1. all = Waiters(n, "WTQUEUE", o) /\ all \subseteq Thds
    BY Zenon DEF Waiters, WaitsFor
  <2>2. IsFiniteSet(all) /\ Cardinality(all) \in Nat
    BY WaitersFinite, Zenon
  <2> QED
    BY <2>1, <2>2, Zenon
<1>a. Cardinality(all) = (IF c < 0 THEN -c ELSE 0) /\ r = nil_ready_all(n, o, c, m)
  OBVIOUS
<1> HIDE DEF all, r
<1>2. ws = all
  <2>1. ASSUME NEW t \in all PROVE Cardinality({w \in all : w < t}) < -c
    <3> DEFINE S == {w \in all : w < t}
    <3>1. t \in Nat
      BY <1>1, Numbers
    <3>2. S \subseteq all \ {t}
      BY <3>1
    <3>3. IsFiniteSet(all \ {t}) /\ Cardinality(all \ {t}) = Cardinality(all) - 1
      BY <1>1, FS_RemoveElement
    <3>4. Cardinality(S) <= Cardinality(all) - 1 /\ Cardinality(S) \in Nat
      BY <3>2, <3>3, FS_Subset, FS_CardinalityType
    <3> HIDE DEF S
    <3>5. Cardinality(S) < -c
      BY <1>1, <1>a, <3>4
    <3> QED
      BY <3>5 DEF S
  <2> QED
    BY <2>1
<1> HIDE DEF ws
<1>3. /\ n.current \in All /\ n.next \in All /\ n.state \in [All -> States]
      /\ n.u1 \in [All -> Words] /\ n.timeout \in [All -> Nat] /\ n.due \in [All -> Nat]
  BY Parts
<1>4. r = [n EXCEPT !.u1 = u2, !.state = st2, !.timeout = to2, !.due = due2, !.next = nx]
  <2>1. r = [n EXCEPT !.u1 = [t \in 1 .. idle |-> IF t \in ws THEN Kept(t, m) ELSE n.u1[t]],
                      !.state = [t \in 1 .. idle |-> IF t \in ws THEN "READY" ELSE n.state[t]],
                      !.timeout = [t \in 1 .. idle |-> IF t \in ws THEN 0 ELSE n.timeout[t]],
                      !.due = [t \in 1 .. idle |-> IF t \in ws THEN 0 ELSE n.due[t]],
                      !.next = Min(ws \cup {n.next})]
    BY <1>1, <1>a, Zenon DEF nil_ready_all, ws
  <2> QED
    BY <1>2, <2>1, Zenon DEF All
<1>5. all \subseteq All /\ All \subseteq Nat
  BY <1>1, Numbers
<1>6. st2 \in [All -> States] /\ u2 \in [All -> Words] /\ to2 \in [All -> Nat] /\ due2 \in [All -> Nat]
  <2>1. "READY" \in States /\ 0 \in Nat /\ \A t : Kept(t, m) \in Words
    BY DEF States, Kept, MSG_OK, Words
  <2> QED
    BY <1>3, <2>1, Zenon
<1>7. nx \in all \cup {n.next} /\ nx \in All /\ \A y \in all \cup {n.next} : nx <= y
  <2>1. (all \cup {n.next}) \in SUBSET Nat /\ (all \cup {n.next}) # {}
    BY <1>3, <1>5, Zenon
  <2>2. nx \in all \cup {n.next} /\ \A y \in all \cup {n.next} : nx <= y
    BY <2>1, MinNat, Zenon
  <2> QED
    BY <1>3, <1>5, <2>2, Zenon
<1>8. Wakes(all, n.state, n.u1, n.timeout, st2, u2, to2)
  BY Zenon DEF Wakes
<1>9. FirstReady(st2, nx)
  <2>1. n.state[n.next] = "READY" /\ \A x \in All : n.state[x] = "READY" => n.next <= x
    BY DEF FirstReady
  <2>2. \A x \in All : st2[x] = IF x \in all THEN "READY" ELSE n.state[x]
    BY Zenon
  <2> HIDE DEF st2, nx
  <2>3. st2[nx] = "READY"
    BY <1>7, <2>1, <2>2
  <2>4. ASSUME NEW x \in All, st2[x] = "READY" PROVE nx <= x
    <3>1. x \in Nat /\ nx \in Nat /\ n.next \in Nat /\ nx <= n.next
      BY <1>3, <1>5, <1>7, Zenon
    <3>2. x \in all \/ n.next <= x
      BY <2>1, <2>2, <2>4, Zenon
    <3> QED
      BY <1>7, <3>1, <3>2
  <2> QED
    BY <1>7, <2>3, <2>4, Zenon DEF FirstReady
<1>10. \A t \in All : t \notin all => due2[t] = n.due[t]
  BY <1>5, Zenon
<1> HIDE DEF st2, u2, to2, due2, nx
<1>11. /\ r.state = st2 /\ r.u1 = u2 /\ r.timeout = to2 /\ r.due = due2 /\ r.next = nx
       /\ r.current = n.current /\ r \in NilRecords
  BY <1>3, <1>4, <1>6, <1>7, Zenon DEF NilRecords
<1> QED
  BY <1>8, <1>9, <1>10, <1>11, Zenon DEF all, r, MadeAllReady

\* The objects afterwards, with the states st and the words u.
ObjectsNext(st, u) ==
  /\ CountOK(st, u, counter') /\ RefOK(st, reference')
  /\ counter' \in [Objects -> Int] /\ reference' \in 0 .. NT

\* The variables of the time.
TimeOK ==
  /\ scan \in [tp : 0 .. idle, next : Times] /\ clock \in ClockRecords /\ delta \in Deltas
  /\ isr = "tick" => scan.tp >= 1

\* What is left to show of a call that ends with a reschedule or in a handler.
LEMMA Notified ==
  ASSUME NilInv, NEW n \in NilRecords, Notify(n), TimeOK',
         FirstReady(n.state, n.next), ObjectsNext(n.state, n.u1),
         ThreadsOK(n.state, n.u1, n.timeout, cont', got'),
         cont' \in [All -> {"none", "msg"}], got' \in SUBSET Thds
  PROVE  NilInv'
<1>1. isr \in {"none", "handler", "tick"}
  BY DEF NilInv, NilTypeOK
<1>2. /\ nil' \in NilRecords /\ nil'.state = n.state /\ nil'.u1 = n.u1 /\ nil'.timeout = n.timeout
      /\ nil'.next = n.next /\ isr' \in {"none", "handler", "tick"}
      /\ isr' = "none" => nil'.current = nil'.next
  <2>1. CASE nil' = Reschedule(n) /\ isr' = isr
    <3>1. nil' = [n EXCEPT !.current = n.next] /\ n.next \in All
      BY <2>1, Parts DEF Reschedule
    <3>2. /\ nil' \in NilRecords /\ nil'.state = n.state /\ nil'.u1 = n.u1 /\ nil'.timeout = n.timeout
          /\ nil'.next = n.next /\ nil'.current = n.next
      BY <3>1 DEF NilRecords
    <3> QED
      BY <1>1, <2>1, <3>2, Zenon
  <2>2. CASE nil' = n /\ isr' = IF isr = "none" THEN "handler" ELSE isr
    <3>1. isr' \in {"none", "handler", "tick"} /\ isr' # "none"
      BY <1>1, <2>2
    <3> QED
      BY <2>2, <3>1, Zenon
  <2> QED
    BY <2>1, <2>2, Zenon DEF Notify
<1>3. NilTypeOK'
  BY <1>2, Zenon DEF NilTypeOK, TimeOK, ObjectsNext
<1>4. SchedOK'
  BY <1>2, Zenon DEF SchedOK, TimeOK
<1>5. CountOK(nil'.state, nil'.u1, counter') /\ RefOK(nil'.state, reference')
  BY <1>2, Zenon DEF ObjectsNext
<1>6. ThreadsOK(nil'.state, nil'.u1, nil'.timeout, cont', got')
  BY <1>2, Zenon
<1> QED
  BY <1>3, <1>4, <1>5, <1>6, Zenon DEF NilInv

\* Calls leave the time alone.
LEMMA TimeStays ==
  ASSUME NilInv, NEW n, Notify(n), UNCHANGED timevars
  PROVE  TimeOK'
<1>1. TimeOK
  BY Zenon DEF NilInv, NilTypeOK, SchedOK, TimeOK
<1>2. scan' = scan /\ clock' = clock /\ delta' = delta
  BY Zenon DEF timevars
<1>3. isr' = "tick" => isr = "tick"
  BY DEF Notify
<1> QED
  BY <1>1, <1>2, <1>3, Zenon DEF TimeOK

\* Remainders are times.
LEMMA Remainder ==
  ASSUME NEW x \in Int
  PROVE  x % W \in Times
BY NilAssumption DEF Times

\* The current thread sleeps, from n, and the first of the ready ones runs.
Asleep(n, s, timeout, then) ==
  /\ nil' \in NilRecords /\ nil'.state = [n.state EXCEPT ![cur] = s] /\ nil'.u1 = n.u1
  /\ FirstReady(nil'.state, nil'.next) /\ nil'.current = nil'.next
  /\ \A t \in All : t # cur => nil'.timeout[t] = n.timeout[t]
  /\ timeout = 0 => nil'.timeout[cur] = n.timeout[cur]
  /\ cont' = [cont EXCEPT ![cur] = then]
  /\ isr' = isr /\ scan' = scan /\ delta' = delta /\ clock' \in ClockRecords

\* That is what chSchGoSleepTimeoutS does.
LEMMA SleepIs ==
  ASSUME NilTypeOK, NEW n \in NilRecords, NEW s \in States, s # "READY", NEW timeout \in 0 .. MaxSleep,
         NEW then \in {"none", "msg"}, cur \in Thds, n.state[idle] = "READY",
         GoSleep(n, s, timeout, then)
  PROVE  Asleep(n, s, timeout, then)
<1> DEFINE timed   == timeout # TIME_INFINITE
           ticks   == IF timeout < delta THEN delta ELSE timeout
           abstime == chTimeAddX(clock.now, ticks)
           field   == CASE ~timed -> n.timeout[cur]
                        [] timed /\ delta = 0 -> timeout
                        [] OTHER -> (abstime - clock.lasttime) % W
           d       == IF timed THEN abstime ELSE 0
           st2     == [n.state EXCEPT ![cur] = s]
           to2     == [n.timeout EXCEPT ![cur] = field]
           due2    == [n.due EXCEPT ![cur] = d]
           slept   == [n EXCEPT !.state = st2, !.timeout = to2, !.due = due2]
           ntp     == Min(ReadyOnes(slept))
<1>1. /\ nil' = [slept EXCEPT !.current = ntp, !.next = ntp]
      /\ cont' = [cont EXCEPT ![cur] = then]
      /\ clock' = IF timed /\ delta > 0 /\ Earlier(abstime)
                  THEN [clock EXCEPT !.nexttime = abstime, !.alarm = TRUE]
                  ELSE clock
      /\ isr' = isr /\ scan' = scan /\ delta' = delta
  BY DEF GoSleep
<1>2. /\ n.state \in [All -> States] /\ n.timeout \in [All -> Nat] /\ n.due \in [All -> Nat]
      /\ cur \in All /\ idle \in All /\ idle # cur /\ timeout \in Nat
  <2>1. timeout \in Nat
    BY NilAssumption
  <2> QED
    BY <2>1, Parts, Numbers, Zenon
<1>3. delta \in Nat /\ clock \in ClockRecords /\ clock.now \in Nat /\ clock.lasttime \in Nat
  <2>1. delta \in Deltas /\ clock \in ClockRecords
    BY Zenon DEF NilTypeOK
  <2>2. delta \in Nat
    BY <2>1, NilAssumption
  <2>3. clock.now \in Times /\ clock.lasttime \in Times
    BY <2>1 DEF ClockRecords
  <2> QED
    BY <2>1, <2>2, <2>3, Numbers, Zenon
<1>4. abstime \in Times
  <2>1. ticks \in Nat
    BY <1>2, <1>3
  <2> QED
    BY <1>3, <2>1, Remainder DEF chTimeAddX
<1> HIDE DEF ticks, abstime
<1>5. field \in Nat /\ d \in Nat /\ (~timed => field = n.timeout[cur])
  <2>1. abstime \in Nat /\ (abstime - clock.lasttime) % W \in Nat
    BY <1>3, <1>4, Numbers, Remainder
  <2>2. n.timeout[cur] \in Nat
    BY <1>2
  <2>3. ASSUME ~timed PROVE field \in Nat /\ field = n.timeout[cur]
    BY <2>1, <2>2, <2>3, Zenon
  <2>4. ASSUME timed /\ delta = 0 PROVE field \in Nat
    BY <1>2, <2>1, <2>4, Zenon
  <2>5. ASSUME timed /\ delta # 0 PROVE field \in Nat
    BY <2>1, <2>5, Zenon
  <2>6. d \in Nat
    BY <2>1
  <2> QED
    BY <2>3, <2>4, <2>5, <2>6, Zenon
<1>6. clock' \in ClockRecords
  BY <1>1, <1>3, <1>4, Zenon DEF ClockRecords
<1> HIDE DEF field, d
<1>7. /\ st2 \in [All -> States] /\ to2 \in [All -> Nat] /\ due2 \in [All -> Nat] /\ st2[idle] = "READY"
      /\ to2[cur] = field /\ \A t \in All : t # cur => to2[t] = n.timeout[t]
  BY <1>2, <1>5
<1> HIDE DEF st2, to2, due2
<1>8. slept.state = st2 /\ slept.u1 = n.u1 /\ slept.timeout = to2 /\ slept.due = due2 /\ slept \in NilRecords
  BY <1>7, Zenon DEF NilRecords
<1> HIDE DEF slept
<1>9. FirstReady(st2, ntp)
  BY <1>7, <1>8, FirstIsMin, Zenon
<1>10. ntp \in All
  BY <1>9, Zenon DEF FirstReady
<1> HIDE DEF ntp
<1>11. /\ nil' \in NilRecords /\ nil'.state = st2 /\ nil'.u1 = n.u1 /\ nil'.timeout = to2
       /\ nil'.next = ntp /\ nil'.current = ntp
  BY <1>1, <1>8, <1>10, Zenon DEF NilRecords
<1>12. timeout = 0 => nil'.timeout[cur] = n.timeout[cur]
  BY <1>5, <1>7, <1>11 DEF TIME_INFINITE
<1> QED
  BY <1>1, <1>6, <1>7, <1>9, <1>11, <1>12, Zenon DEF st2, Asleep

-----------------------------------------------------------------------------
(* The actions *)

\* A thread that calls is ready, has no timeout, and runs outside of handlers.
LEMMA CurrentIs ==
  ASSUME NilInv, Sleeps
  PROVE  /\ isr = "none" /\ cur \in Thds /\ nil.state[cur] = "READY" /\ cont[cur] = "none"
         /\ nil.timeout[cur] = 0
<1>1. isr = "none" /\ cont[cur] = "none" /\ cur # idle
  BY DEF Sleeps, Runs
<1>2. cur \in Thds
  BY <1>1, TypeParts, Numbers DEF NilInv
<1>3. nil.state[cur] = "READY"
  BY <1>1, Zenon DEF NilInv, SchedOK, FirstReady, cur
<1>4. ThreadOK(cur, nil.state, nil.u1, nil.timeout, cont, got)
  BY <1>2, Zenon DEF NilInv, ThreadsOK
<1> QED
  BY <1>1, <1>2, <1>3, <1>4 DEF ThreadOK, TimedStates

\* The current thread may sleep in the state s, from n.
MaySleep(n, s, timeout) ==
  /\ n \in NilRecords /\ n.state = nil.state /\ n.timeout = nil.timeout
  /\ \A t \in All : t # cur => n.u1[t] = nil.u1[t]
  /\ s \in States /\ s # "READY" /\ timeout \in 0 .. MaxSleep
  /\ s = "WTQUEUE" => n.u1[cur] \in Objects
  /\ s = "WTMSG" => \A x \in Thds : nil.state[x] = "SNDMSGQ" => nil.u1[x] # cur
  /\ s = "WTEXIT" => n.u1[cur] \in Thds /\ n.u1[cur] # cur /\ nil.state[n.u1[cur]] # "FINAL"
  /\ s \notin TimedStates => timeout = 0
  /\ s = "FINAL" => \A t \in Thds : nil.state[t] = "WTEXIT" => nil.u1[t] # cur
  /\ s = "SNDMSGQ" => \A t \in Thds : nil.state[t] = "WTMSG" => n.u1[cur] # t

\* What is left to show of a call in which the current thread sleeps.
LEMMA Slept ==
  ASSUME NilInv, Sleeps, NEW n, NEW s, NEW timeout, NEW then,
         then = (IF s = "WTMSG" THEN "msg" ELSE "none"),
         MaySleep(n, s, timeout), GoSleep(n, s, timeout, then), got' = got,
         ObjectsNext([nil.state EXCEPT ![cur] = s], n.u1)
  PROVE  NilInv'
<1> DEFINE st2 == [nil.state EXCEPT ![cur] = s]
<1>1. /\ isr = "none" /\ cur \in Thds /\ nil.state[cur] = "READY" /\ cont[cur] = "none"
      /\ nil.timeout[cur] = 0 /\ cur \in All
  BY CurrentIs, Numbers
<1>2. /\ NilTypeOK /\ ThreadsOK(nil.state, nil.u1, nil.timeout, cont, got)
      /\ nil.state \in [All -> States] /\ cont \in [All -> {"none", "msg"}] /\ got \in SUBSET Thds
  BY TypeParts, Parts, Zenon DEF NilInv
<1>3. /\ n \in NilRecords /\ n.state = nil.state /\ s \in States /\ s # "READY"
      /\ timeout \in 0 .. MaxSleep
  BY Zenon DEF MaySleep
<1>4. /\ n.state[idle] = "READY" /\ then \in {"none", "msg"}
  BY <1>2, <1>3 DEF ThreadsOK
<1>5. Asleep(n, s, timeout, then)
  BY <1>1, <1>2, <1>3, <1>4, SleepIs, Zenon
<1>6. /\ cont' \in [All -> {"none", "msg"}] /\ cont'[cur] = then
      /\ \A t \in All : t # cur => cont'[t] = cont[t]
  <2>1. cont' = [cont EXCEPT ![cur] = then]
    BY <1>5, Zenon DEF Asleep
  <2> QED
    BY <1>1, <1>2, <1>4, <2>1
<1>7. /\ nil'.state = st2 /\ nil'.u1 = n.u1 /\ nil'.state[cur] = s
      /\ \A t \in All : t # cur => nil'.state[t] = nil.state[t]
  <2>1. nil'.state = st2 /\ nil'.u1 = n.u1
    BY <1>3, <1>5, Zenon DEF Asleep
  <2>2. st2[cur] = s /\ \A t \in All : t # cur => st2[t] = nil.state[t]
    BY <1>1, <1>2, Zenon
  <2> QED
    BY <2>1, <2>2, Zenon
<1> HIDE DEF st2
<1>8. ThreadsOK(nil'.state, nil'.u1, nil'.timeout, cont', got)
  <2>1. \A t \in All : t # cur => nil'.u1[t] = nil.u1[t] /\ nil'.timeout[t] = nil.timeout[t]
    BY <1>5, <1>7, Zenon DEF MaySleep, Asleep
  <2>2. s \notin TimedStates => nil'.timeout[cur] = 0
    BY <1>1, <1>5, Zenon DEF MaySleep, Asleep
  <2>3. /\ s = "WTQUEUE" => nil'.u1[cur] \in Objects
        /\ s = "WTMSG" => \A x \in Thds : nil.state[x] = "SNDMSGQ" => nil.u1[x] # cur
        /\ s = "WTEXIT" => nil'.u1[cur] \in Thds /\ nil'.u1[cur] # cur /\ nil.state[nil'.u1[cur]] # "FINAL"
        /\ s = "FINAL" => \A t \in Thds : nil.state[t] = "WTEXIT" => nil.u1[t] # cur
        /\ s = "SNDMSGQ" => \A t \in Thds : nil.state[t] = "WTMSG" => nil'.u1[cur] # t
    BY <1>7, Zenon DEF MaySleep
  <2>4. FallsAsleep(cur, s, nil.state, nil.u1, nil.timeout, cont, nil'.state, nil'.u1, nil'.timeout, cont')
    BY <1>1, <1>3, <1>6, <1>7, <2>1, <2>2, <2>3, Zenon DEF FallsAsleep
  <2> QED
    BY <1>1, <1>2, <2>4, SleepThreads, Zenon
<1>9. /\ isr \in {"none", "handler", "tick"} /\ scan \in [tp : 0 .. idle, next : Times] /\ delta \in Deltas
  BY <1>2, Zenon DEF NilTypeOK
<1>10. NilTypeOK'
  BY <1>2, <1>5, <1>6, <1>9, Zenon DEF NilTypeOK, Asleep, ObjectsNext
<1>11. SchedOK'
  BY <1>1, <1>5, Zenon DEF SchedOK, Asleep
<1>12. CountOK(nil'.state, nil'.u1, counter') /\ RefOK(nil'.state, reference')
  BY <1>7, Zenon DEF ObjectsNext, st2
<1> QED
  BY <1>8, <1>10, <1>11, <1>12, Zenon DEF NilInv

\* The current thread writes in its u1 what it waits for.
Worded(w) == [nil EXCEPT !.u1[cur] = w]

\* That changes nothing else.
LEMMA WordIs ==
  ASSUME NilInv, Sleeps, NEW w \in Words
  PROVE  /\ Worded(w) \in NilRecords /\ Worded(w).state = nil.state
         /\ Worded(w).timeout = nil.timeout /\ Worded(w).next = nil.next
         /\ Worded(w).u1[cur] = w /\ \A t \in All : t # cur => Worded(w).u1[t] = nil.u1[t]
<1> DEFINE n == Worded(w)
<1>1. nil \in NilRecords /\ cur \in All
  BY TypeParts, Zenon DEF NilInv
<1> DEFINE c == cur
           u2 == [nil.u1 EXCEPT ![c] = w]
<1>2. n = [nil EXCEPT !.u1 = u2]
  BY DEF Worded
<1>3. c \in All
  BY <1>1
<1> HIDE DEF c
<1>4. u2 \in [All -> Words] /\ u2[c] = w /\ \A t \in All : t # c => u2[t] = nil.u1[t]
  BY <1>1, <1>3, Parts
<1> HIDE DEF u2
<1>5. n \in NilRecords /\ n.state = nil.state /\ n.timeout = nil.timeout /\ n.next = nil.next /\ n.u1 = u2
  BY <1>1, <1>2, <1>4 DEF NilRecords
<1> QED
  BY <1>4, <1>5, Zenon DEF c

\* The threads suspended are the same ones.
LEMMA SameSuspended ==
  ASSUME NEW st, NEW st2, NEW ref, RefOK(st, ref),
         \A t \in Thds : st2[t] = "SUSPENDED" <=> st[t] = "SUSPENDED"
  PROVE  RefOK(st2, ref)
BY Zenon DEF RefOK

\* chSemWaitTimeout and chThdEnqueueTimeoutS: one more waiter.
LEMMA WaitStep ==
  ASSUME NilInv, Sleeps, NEW o \in Objects, counter[o] <= 0, counter' = [counter EXCEPT ![o] = @ - 1],
         reference' = reference, got' = got, NEW timeout \in 0 .. MaxSleep,
         GoSleep([nil EXCEPT !.u1[cur] = o], "WTQUEUE", timeout, "none")
  PROVE  NilInv'
<1> DEFINE n == Worded(o)
           st2 == [nil.state EXCEPT ![cur] = "WTQUEUE"]
<1>1. cur \in Thds /\ cur \in All /\ nil.state[cur] = "READY"
  BY CurrentIs, Numbers, Zenon
<1>2. /\ n \in NilRecords /\ n.state = nil.state /\ n.timeout = nil.timeout
      /\ n.u1[cur] = o /\ \A t \in All : t # cur => n.u1[t] = nil.u1[t]
  <2>1. o \in Words
    BY DEF Objects, Words
  <2> QED
    BY <2>1, WordIs, Zenon
<1> HIDE DEF n
<1>3. MaySleep(n, "WTQUEUE", timeout)
  <2>1. "WTQUEUE" \in States /\ "WTQUEUE" \in TimedStates
    BY DEF States, TimedStates
  <2> QED
    BY <1>2, <2>1 DEF MaySleep
<1>4. /\ counter \in [Objects -> Int] /\ reference \in 0 .. NT /\ nil.state \in [All -> States]
      /\ CountOK(nil.state, nil.u1, counter) /\ RefOK(nil.state, reference)
  BY TypeParts, Parts, Zenon DEF NilInv
<1>5. /\ counter' \in [Objects -> Int] /\ counter'[o] = counter[o] - 1
      /\ \A p \in Objects : p # o => counter'[p] = counter[p]
  BY <1>4
<1>6. st2[cur] = "WTQUEUE" /\ \A t \in All : t # cur => st2[t] = nil.state[t]
  BY <1>1, <1>4
<1> HIDE DEF st2
<1>7. /\ nil.state[cur] # "WTQUEUE" /\ Thds \subseteq All
      /\ \A t \in Thds \ {cur} : st2[t] = nil.state[t] /\ n.u1[t] = nil.u1[t]
  BY <1>1, <1>2, <1>6, Numbers
<1>8. CountOK(st2, n.u1, counter')
  <2>1. Enters(cur, o, nil.state, nil.u1, counter, st2, n.u1, counter')
    BY <1>1, <1>2, <1>5, <1>6, <1>7, Zenon DEF Enters
  <2> QED
    BY <1>4, <1>5, <2>1, OneWaiterMore, Zenon
<1>9. RefOK(st2, reference')
  <2>1. \A t \in Thds : st2[t] = "SUSPENDED" <=> nil.state[t] = "SUSPENDED"
    BY <1>1, <1>6, <1>7
  <2> QED
    BY <1>4, <2>1, SameSuspended, Zenon
<1>10. ObjectsNext(st2, n.u1)
  BY <1>4, <1>5, <1>8, <1>9, Zenon DEF ObjectsNext
<1>11. "none" = (IF "WTQUEUE" = "WTMSG" THEN "msg" ELSE "none")
  OBVIOUS
<1>12. GoSleep(n, "WTQUEUE", timeout, "none")
  BY Zenon DEF n, Worded
<1> QED
  BY <1>3, <1>10, <1>11, <1>12, Slept, Zenon DEF st2

\* After a sleeper w was made ready in r.
Woken(w, r) ==
  /\ r \in NilRecords /\ FirstReady(r.state, r.next)
  /\ ThreadsOK(r.state, r.u1, r.timeout, cont, got \ {w})
  /\ r.state[w] = "READY"
  /\ \A t \in Thds \ {w} : r.state[t] = nil.state[t] /\ r.u1[t] = nil.u1[t]

\* A sleeper that is made ready by chSchReadyI, with no message, nor while its
\* receiver is about to take its own.
LEMMA WokenOne ==
  ASSUME NilInv, NEW w, NEW m \in Words,
         MayWake({w}, nil.state, nil.u1, [nil.u1 EXCEPT ![w] = Kept(w, m)], cont)
  PROVE  Woken(w, chSchReadyI(nil, w, m))
<1> DEFINE r == chSchReadyI(nil, w, m)
           u2 == [nil.u1 EXCEPT ![w] = Kept(w, m)]
<1>1. w \in Thds
  BY Zenon DEF MayWake
<1>2. /\ nil \in NilRecords /\ FirstReady(nil.state, nil.next) /\ w \in All
      /\ ThreadsOK(nil.state, nil.u1, nil.timeout, cont, got)
  BY <1>1, TypeParts, Numbers, Zenon DEF NilInv, SchedOK
<1>3. MadeReady(nil, w, Kept(w, m), r)
  BY <1>1, <1>2, ReadyIs, Zenon
<1> HIDE DEF r, u2
<1>4. /\ r \in NilRecords /\ FirstReady(r.state, r.next) /\ r.u1 = u2
      /\ Wakes({w}, nil.state, nil.u1, nil.timeout, r.state, r.u1, r.timeout)
  BY <1>3, Zenon DEF MadeReady, u2
<1>5. MayWake({w}, nil.state, nil.u1, r.u1, cont)
  BY <1>4, Zenon DEF u2
<1>6. ThreadsOK(r.state, r.u1, r.timeout, cont, got \ {w})
  BY <1>2, <1>4, <1>5, WakeThreads, Zenon
<1>7. r.state[w] = "READY" /\ \A t \in Thds \ {w} : r.state[t] = nil.state[t] /\ r.u1[t] = nil.u1[t]
  BY <1>2, <1>4, Numbers, Zenon DEF Wakes
<1>8. Woken(w, r)
  BY <1>4, <1>6, <1>7, Zenon DEF Woken
<1> QED
  BY <1>8, Zenon DEF r

\* In particular one that waits for no message and sends none.
LEMMA WokenWaiter ==
  ASSUME NilInv, NEW w \in Thds, NEW m \in Words, nil.state[w] \notin {"READY", "WTMSG", "SNDMSGQ"}
  PROVE  Woken(w, chSchReadyI(nil, w, m)) /\ got \ {w} = got
<1>1. ThreadOK(w, nil.state, nil.u1, nil.timeout, cont, got)
  BY Zenon DEF NilInv, ThreadsOK
<1>2. cont[w] # "msg" /\ w \notin got /\ nil.state[w] # "SNDMSGQ"
  BY <1>1 DEF ThreadOK
<1>3. MayWake({w}, nil.state, nil.u1, [nil.u1 EXCEPT ![w] = Kept(w, m)], cont)
  BY <1>2, Zenon DEF MayWake
<1> QED
  BY <1>2, <1>3, WokenOne, Zenon

\* chSemSignal and chThdDequeueNextI: the first waiter is made ready.
LEMMA SignalStep ==
  ASSUME NilInv, NEW o \in Objects, counter[o] < 0, counter' = [counter EXCEPT ![o] = @ + 1],
         Notify(chSchReadyI(nil, Min(Waiters(nil, "WTQUEUE", o)), MSG_OK)),
         UNCHANGED <<reference, cont, got, timevars>>
  PROVE  NilInv'
<1> DEFINE S == WaitsFor(nil.state, nil.u1, o)
           w == Min(S)
           r == chSchReadyI(nil, w, MSG_OK)
<1>1. /\ nil \in NilRecords /\ counter \in [Objects -> Int] /\ reference \in 0 .. NT
      /\ cont \in [All -> {"none", "msg"}] /\ got \in SUBSET Thds
      /\ CountOK(nil.state, nil.u1, counter) /\ RefOK(nil.state, reference)
  BY TypeParts, Zenon DEF NilInv
<1>2. reference' = reference /\ cont' = cont /\ got' = got /\ UNCHANGED timevars
  OBVIOUS
<1>3. w \in S
  <2>1. Cardinality(S) = IF counter[o] < 0 THEN -counter[o] ELSE 0
    BY <1>1, Zenon DEF CountOK
  <2> HIDE DEF S
  <2>2. Cardinality(S) # 0
    BY <1>1, <2>1
  <2>3. S # {}
    BY <2>2, FS_EmptySet
  <2>4. S \in SUBSET Nat
    BY Numbers, Zenon DEF S, WaitsFor
  <2> QED
    BY <2>3, <2>4, MinNat, Zenon
<1>4. w \in Thds /\ nil.state[w] = "WTQUEUE" /\ nil.u1[w] = o
  BY <1>3, Zenon DEF WaitsFor
<1>5. Notify(r)
  BY Zenon DEF Waiters, WaitsFor
<1> HIDE DEF w, S
<1>6. MSG_OK \in Words /\ nil.state[w] \notin {"READY", "WTMSG", "SNDMSGQ"}
  BY <1>4 DEF MSG_OK, Words
<1>7. Woken(w, r) /\ got \ {w} = got
  BY <1>4, <1>6, WokenWaiter, Zenon
<1>8. /\ r \in NilRecords /\ FirstReady(r.state, r.next)
      /\ ThreadsOK(r.state, r.u1, r.timeout, cont, got)
      /\ r.state[w] = "READY"
      /\ \A t \in Thds \ {w} : r.state[t] = nil.state[t] /\ r.u1[t] = nil.u1[t]
  BY <1>7, Zenon DEF Woken
<1> HIDE DEF r
<1>9. /\ counter' \in [Objects -> Int] /\ counter'[o] = counter[o] + 1
      /\ \A p \in Objects : p # o => counter'[p] = counter[p]
  BY <1>1
<1>10. CountOK(r.state, r.u1, counter')
  <2>1. r.state[w] # "WTQUEUE"
    BY <1>8
  <2>2. Leaves(w, o, nil.state, nil.u1, counter, r.state, r.u1, counter')
    BY <1>4, <1>8, <1>9, <2>1, Zenon DEF Leaves
  <2> QED
    BY <1>1, <1>9, <2>2, OneWaiterLess, Zenon
<1>11. RefOK(r.state, reference')
  <2>1. \A t \in Thds : r.state[t] = "SUSPENDED" <=> nil.state[t] = "SUSPENDED"
    BY <1>4, <1>8
  <2>2. RefOK(r.state, reference)
    BY <1>1, <2>1, SameSuspended, Zenon
  <2> QED
    BY <1>2, <2>2, Zenon
<1>12. ObjectsNext(r.state, r.u1)
  BY <1>1, <1>2, <1>9, <1>10, <1>11, Zenon DEF ObjectsNext
<1>13. TimeOK'
  BY <1>2, <1>5, TimeStays, Zenon
<1>14. ThreadsOK(r.state, r.u1, r.timeout, cont', got')
  BY <1>2, <1>8, Zenon
<1> QED
  BY <1>1, <1>2, <1>5, <1>8, <1>12, <1>13, <1>14, Notified, Zenon

\* chSemSignal with no waiter: one unit more.
LEMMA UnitStep ==
  ASSUME NilInv, counter["sem"] >= 0, counter' = [counter EXCEPT !["sem"] = @ + 1],
         Notify(nil), UNCHANGED <<reference, cont, got, timevars>>
  PROVE  NilInv'
<1>1. /\ nil \in NilRecords /\ counter \in [Objects -> Int] /\ reference \in 0 .. NT
      /\ cont \in [All -> {"none", "msg"}] /\ got \in SUBSET Thds
      /\ CountOK(nil.state, nil.u1, counter) /\ RefOK(nil.state, reference)
      /\ ThreadsOK(nil.state, nil.u1, nil.timeout, cont, got) /\ FirstReady(nil.state, nil.next)
  BY TypeParts, Zenon DEF NilInv, SchedOK
<1>2. reference' = reference /\ cont' = cont /\ got' = got /\ UNCHANGED timevars
  OBVIOUS
<1>3. /\ counter' \in [Objects -> Int] /\ ~(counter'["sem"] < 0) /\ ~(counter["sem"] < 0)
      /\ counter'["tq"] = counter["tq"]
  BY <1>1 DEF Objects
<1>4. CountOK(nil.state, nil.u1, counter')
  BY <1>1, <1>3 DEF CountOK, Objects
<1>5. ObjectsNext(nil.state, nil.u1)
  BY <1>1, <1>2, <1>3, <1>4, Zenon DEF ObjectsNext
<1>6. TimeOK'
  BY <1>2, TimeStays, Zenon
<1> QED
  BY <1>1, <1>2, <1>5, <1>6, Notified, Zenon

\* chSemResetWithMessage and chThdDequeueAllI: all waiters are made ready.
LEMMA ReadyAllStep ==
  ASSUME NilInv, NEW o \in Objects, NEW k \in Nat, o = "tq" => k = 0,
         counter' = [counter EXCEPT ![o] = k],
         Notify(nil_ready_all(nil, o, counter[o], MSG_RESET)), UNCHANGED <<reference, cont, got, timevars>>
  PROVE  NilInv'
<1> DEFINE all == WaitsFor(nil.state, nil.u1, o)
           r == nil_ready_all(nil, o, counter[o], MSG_RESET)
<1>1. /\ nil \in NilRecords /\ counter \in [Objects -> Int] /\ reference \in 0 .. NT
      /\ cont \in [All -> {"none", "msg"}] /\ got \in SUBSET Thds
      /\ CountOK(nil.state, nil.u1, counter) /\ RefOK(nil.state, reference)
      /\ ThreadsOK(nil.state, nil.u1, nil.timeout, cont, got) /\ FirstReady(nil.state, nil.next)
  BY TypeParts, Zenon DEF NilInv, SchedOK
<1>2. reference' = reference /\ cont' = cont /\ got' = got /\ UNCHANGED timevars /\ Notify(r)
  OBVIOUS
<1>3. MadeAllReady(nil, all, r)
  <2>1. Cardinality(all) = (IF counter[o] < 0 THEN -counter[o] ELSE 0)
    BY <1>1, Zenon DEF CountOK
  <2>2. counter[o] \in Int /\ MSG_RESET \in Words
    BY <1>1 DEF MSG_RESET, Words
  <2> QED
    BY <1>1, <2>1, <2>2, ReadyAllIs, Zenon
<1>4. \A t : t \in all <=> t \in Thds /\ nil.state[t] = "WTQUEUE" /\ nil.u1[t] = o
  BY Zenon DEF WaitsFor
<1> HIDE DEF all, r
<1>5. /\ r \in NilRecords /\ FirstReady(r.state, r.next)
      /\ Wakes(all, nil.state, nil.u1, nil.timeout, r.state, r.u1, r.timeout)
  BY <1>3, Zenon DEF MadeAllReady
<1>6. all \in SUBSET Thds /\ \A t \in all : cont[t] # "msg" /\ t \notin got /\ nil.state[t] # "SNDMSGQ"
  <2>1. ASSUME NEW t \in all PROVE cont[t] # "msg" /\ t \notin got /\ nil.state[t] # "SNDMSGQ"
    <3>1. t \in Thds /\ nil.state[t] = "WTQUEUE"
      BY <1>4, Zenon
    <3>2. ThreadOK(t, nil.state, nil.u1, nil.timeout, cont, got)
      BY <1>1, <3>1, Zenon DEF ThreadsOK
    <3> QED
      BY <3>1, <3>2 DEF ThreadOK
  <2> QED
    BY <1>4, <2>1, Zenon
<1>7. MayWake(all, nil.state, nil.u1, r.u1, cont) /\ got \ all = got
  BY <1>6, Zenon DEF MayWake
<1>8. ThreadsOK(r.state, r.u1, r.timeout, cont, got)
  <2>1. ThreadsOK(r.state, r.u1, r.timeout, cont, got \ all)
    BY <1>1, <1>5, <1>7, WakeThreads, Zenon
  <2> QED
    BY <1>7, <2>1, Zenon
<1>9. /\ \A t \in all : r.state[t] = "READY"
      /\ \A t \in Thds : t \notin all => r.state[t] = nil.state[t] /\ r.u1[t] = nil.u1[t]
  BY <1>5, <1>6, Numbers, Zenon DEF Wakes
<1>10. CountOK(r.state, r.u1, counter')
  <2>1. \A t \in all : r.state[t] # "WTQUEUE" /\ r.state[t] # "SUSPENDED" /\ nil.state[t] = "WTQUEUE"
    BY <1>4, <1>9
  <2>2. WaitsFor(r.state, r.u1, o) = {}
    BY <1>4, <1>9, <2>1, Zenon DEF WaitsFor
  <2>3. \A p \in Objects : p # o => WaitsFor(r.state, r.u1, p) = WaitsFor(nil.state, nil.u1, p)
    BY <1>4, <1>9, <2>1, Zenon DEF WaitsFor
  <2>4. /\ counter' \in [Objects -> Int] /\ counter'[o] >= 0 /\ (o = "tq" => counter'[o] = 0)
        /\ \A p \in Objects : p # o => counter'[p] = counter[p]
    BY <1>1
  <2> QED
    <3>1. AllLeave(o, nil.state, nil.u1, counter, r.state, r.u1, counter')
      BY <2>2, <2>3, <2>4, Zenon DEF AllLeave
    <3> QED
      BY <1>1, <2>4, <3>1, NoWaiters, Zenon
<1>11. RefOK(r.state, reference')
  <2>1. \A t \in Thds : r.state[t] = "SUSPENDED" <=> nil.state[t] = "SUSPENDED"
    BY <1>4, <1>9
  <2>2. RefOK(r.state, reference)
    BY <1>1, <2>1, SameSuspended, Zenon
  <2> QED
    BY <1>2, <2>2, Zenon
<1>12. counter' \in [Objects -> Int]
  BY <1>1
<1>13. ObjectsNext(r.state, r.u1)
  BY <1>1, <1>2, <1>10, <1>11, <1>12, Zenon DEF ObjectsNext
<1>14. TimeOK'
  BY <1>2, TimeStays, Zenon
<1> QED
  BY <1>1, <1>2, <1>5, <1>8, <1>13, <1>14, Notified, Zenon

\* What is left to show of a call that makes ready one sleeper, which waits for no
\* message and sends none, and is in no queue.
LEMMA WokenStep ==
  ASSUME NilInv, NEW w \in Thds, nil.state[w] \in {"WTSTART", "FINAL", "SUSPENDED"},
         reference' = (IF nil.state[w] = "SUSPENDED" THEN NoRef ELSE reference),
         Notify(chSchReadyI(nil, w, MSG_OK)), UNCHANGED <<counter, cont, got, timevars>>
  PROVE  NilInv'
<1> DEFINE r == chSchReadyI(nil, w, MSG_OK)
<1>1. /\ nil \in NilRecords /\ counter \in [Objects -> Int] /\ reference \in 0 .. NT
      /\ cont \in [All -> {"none", "msg"}] /\ got \in SUBSET Thds
      /\ CountOK(nil.state, nil.u1, counter) /\ RefOK(nil.state, reference)
  BY TypeParts, Zenon DEF NilInv
<1>2. counter' = counter /\ cont' = cont /\ got' = got /\ UNCHANGED timevars /\ Notify(r)
  OBVIOUS
<1>3. MSG_OK \in Words /\ nil.state[w] \notin {"READY", "WTMSG", "SNDMSGQ"} /\ nil.state[w] # "WTQUEUE"
  BY DEF MSG_OK, Words
<1>4. Woken(w, r) /\ got \ {w} = got
  BY <1>3, WokenWaiter, Zenon
<1> HIDE DEF r
<1>5. /\ r \in NilRecords /\ FirstReady(r.state, r.next)
      /\ ThreadsOK(r.state, r.u1, r.timeout, cont, got)
      /\ r.state[w] = "READY"
      /\ \A t \in Thds \ {w} : r.state[t] = nil.state[t] /\ r.u1[t] = nil.u1[t]
  BY <1>4, Zenon DEF Woken
<1>6. CountOK(r.state, r.u1, counter)
  <2>1. r.state[w] # "WTQUEUE"
    BY <1>5
  <2>2. SameQueues(nil.state, nil.u1, r.state, r.u1)
    BY <1>3, <1>5, <2>1, Zenon DEF SameQueues
  <2> QED
    BY <1>1, <2>2, SameWaiters, Zenon
<1>7. RefOK(r.state, reference') /\ reference' \in 0 .. NT
  <2>1. r.state[w] # "SUSPENDED" /\ NoRef \in 0 .. NT /\ NoRef \notin Thds
    BY <1>5, Numbers DEF NoRef
  <2>2. \A t \in Thds : nil.state[t] = "SUSPENDED" <=> reference = t
    BY <1>1, Zenon DEF RefOK
  <2>3. \A t \in Thds : r.state[t] = "SUSPENDED" <=> reference' = t
    <3>1. CASE nil.state[w] = "SUSPENDED"
      <4>1. reference = w /\ reference' = NoRef
        BY <2>2, <3>1, Zenon
      <4> QED
        BY <1>5, <2>1, <2>2, <4>1, Zenon
    <3>2. CASE nil.state[w] # "SUSPENDED"
      BY <1>5, <2>1, <2>2, <3>2, Zenon
    <3> QED
      BY <3>1, <3>2, Zenon
  <2> QED
    BY <1>1, <2>1, <2>3, Zenon DEF RefOK
<1>8. ObjectsNext(r.state, r.u1)
  BY <1>1, <1>2, <1>6, <1>7, Zenon DEF ObjectsNext
<1>9. TimeOK'
  BY <1>2, TimeStays, Zenon
<1> QED
  BY <1>1, <1>2, <1>5, <1>8, <1>9, Notified, Zenon

\* What is left to show of a call in which the current thread sleeps, in no queue.
LEMMA SleepStep ==
  ASSUME NilInv, Sleeps, NEW s, s # "WTQUEUE", NEW n, NEW timeout, NEW then,
         then = (IF s = "WTMSG" THEN "msg" ELSE "none"),
         MaySleep(n, s, timeout), GoSleep(n, s, timeout, then), got' = got, counter' = counter,
         s = "SUSPENDED" => reference = NoRef,
         reference' = (IF s = "SUSPENDED" THEN cur ELSE reference)
  PROVE  NilInv'
<1> DEFINE st2 == [nil.state EXCEPT ![cur] = s]
<1>1. cur \in Thds /\ cur \in All /\ nil.state[cur] = "READY"
  BY CurrentIs, Numbers, Zenon
<1>2. /\ counter \in [Objects -> Int] /\ reference \in 0 .. NT /\ nil.state \in [All -> States]
      /\ CountOK(nil.state, nil.u1, counter) /\ RefOK(nil.state, reference)
  BY TypeParts, Parts, Zenon DEF NilInv
<1>3. st2[cur] = s /\ \A t \in All : t # cur => st2[t] = nil.state[t]
  BY <1>1, <1>2
<1> HIDE DEF st2
<1>4. /\ nil.state[cur] # "WTQUEUE" /\ nil.state[cur] # "SUSPENDED" /\ Thds \subseteq All
      /\ \A t \in Thds \ {cur} : st2[t] = nil.state[t] /\ n.u1[t] = nil.u1[t]
  <2>1. \A t \in All : t # cur => n.u1[t] = nil.u1[t]
    BY Zenon DEF MaySleep
  <2> QED
    BY <1>1, <1>3, <2>1, Numbers
<1>5. CountOK(st2, n.u1, counter)
  <2>1. SameQueues(nil.state, nil.u1, st2, n.u1)
    BY <1>3, <1>4, Zenon DEF SameQueues
  <2> QED
    BY <1>2, <2>1, SameWaiters, Zenon
<1>6. RefOK(st2, reference') /\ reference' \in 0 .. NT
  <2>1. \A t \in Thds : nil.state[t] = "SUSPENDED" <=> reference = t
    BY <1>2, Zenon DEF RefOK
  <2>2. NoRef \notin Thds /\ cur \in 0 .. NT
    BY <1>1 DEF NoRef, Thds
  <2>3. \A t \in Thds : st2[t] = "SUSPENDED" <=> reference' = t
    <3>1. CASE s = "SUSPENDED"
      BY <1>3, <1>4, <2>1, <2>2, <3>1, Zenon
    <3>2. CASE s # "SUSPENDED"
      BY <1>3, <1>4, <2>1, <3>2, Zenon
    <3> QED
      BY <3>1, <3>2, Zenon
  <2> QED
    BY <1>2, <2>2, <2>3, Zenon DEF RefOK
<1>7. ObjectsNext(st2, n.u1)
  BY <1>2, <1>5, <1>6, Zenon DEF ObjectsNext
<1> QED
  BY <1>7, Slept, Zenon DEF st2

\* chSemWaitTimeout, whether there is a unit or not.
LEMMA SemWaitStep ==
  ASSUME NilInv, NEW timeout \in 0 .. MaxSleep, chSemWaitTimeout(timeout)
  PROVE  NilInv'
<1>1. /\ Sleeps /\ counter' = [counter EXCEPT !["sem"] = @ - 1] /\ reference' = reference /\ got' = got
      /\ IF counter["sem"] <= 0
         THEN GoSleep([nil EXCEPT !.u1[cur] = "sem"], "WTQUEUE", timeout, "none")
         ELSE UNCHANGED <<nil, cont, isr, timevars>>
      /\ "sem" \in Objects
  BY DEF chSemWaitTimeout, Objects
<1>2. CASE counter["sem"] <= 0
  BY <1>1, <1>2, WaitStep, Zenon
<1>3. CASE ~(counter["sem"] <= 0)
  <2>1. /\ counter \in [Objects -> Int] /\ CountOK(nil.state, nil.u1, counter) /\ NilTypeOK
        /\ RefOK(nil.state, reference) /\ SchedOK
        /\ ThreadsOK(nil.state, nil.u1, nil.timeout, cont, got)
    BY TypeParts, Zenon DEF NilInv
  <2>2. /\ counter' \in [Objects -> Int] /\ ~(counter'["sem"] < 0) /\ ~(counter["sem"] < 0)
        /\ counter'["tq"] = counter["tq"]
    BY <1>1, <1>3, <2>1 DEF Objects
  <2>3. nil' = nil /\ cont' = cont /\ isr' = isr /\ scan' = scan /\ clock' = clock /\ delta' = delta
    BY <1>1, <1>3, Zenon DEF timevars
  <2>4. CountOK(nil.state, nil.u1, counter')
    BY <2>1, <2>2 DEF CountOK, Objects
  <2>5. CountOK(nil.state, nil.u1, counter)'
    BY <2>3, <2>4, Zenon
  <2>6. NilTypeOK' /\ SchedOK'
    BY <1>1, <2>1, <2>2, <2>3, Zenon DEF NilTypeOK, SchedOK
  <2>7. RefOK(nil.state, reference)' /\ ThreadsOK(nil.state, nil.u1, nil.timeout, cont, got)'
    BY <1>1, <2>1, <2>3, Zenon
  <2> QED
    BY <2>5, <2>6, <2>7, Zenon DEF NilInv
<1> QED
  BY <1>2, <1>3, Zenon

\* The calls on semaphores, threads queues and references.
LEMMA ObjectSteps ==
  ASSUME NilInv, NEW timeout \in 0 .. MaxSleep, NEW k \in 0 .. MaxCnt,
         \/ chSemWaitTimeout(timeout) \/ chThdEnqueueTimeoutS(timeout) \/ chThdSuspendTimeoutS(timeout)
         \/ chSemSignal \/ chThdDequeueNextI \/ chThdDequeueAllI \/ chSemResetWithMessage(k) \/ chThdResume
  PROVE  NilInv'
<1>0. "sem" \in Objects /\ "tq" \in Objects /\ counter \in [Objects -> Int] /\ reference \in 0 .. NT
  BY TypeParts, Zenon DEF Objects, NilInv
<1>1. CASE chSemWaitTimeout(timeout)
  BY <1>1, SemWaitStep, Zenon
<1>2. CASE chThdEnqueueTimeoutS(timeout)
  <2>1. counter["tq"] <= 0
    BY Zenon DEF NilInv, CountOK
  <2>2. /\ Sleeps /\ counter' = [counter EXCEPT !["tq"] = @ - 1] /\ reference' = reference /\ got' = got
        /\ GoSleep([nil EXCEPT !.u1[cur] = "tq"], "WTQUEUE", timeout, "none")
    BY <1>2 DEF chThdEnqueueTimeoutS
  <2> QED
    BY <1>0, <2>1, <2>2, WaitStep, Zenon
<1>3. CASE chThdSuspendTimeoutS(timeout)
  <2>1. /\ Sleeps /\ counter' = counter /\ reference = NoRef /\ reference' = cur /\ got' = got
        /\ GoSleep(Worded("ref"), "SUSPENDED", timeout, "none")
    BY <1>3 DEF chThdSuspendTimeoutS, Worded
  <2>2. "ref" \in Words /\ "SUSPENDED" \in States /\ "SUSPENDED" \in TimedStates
    BY DEF Words, States, TimedStates
  <2>3. /\ Worded("ref") \in NilRecords /\ Worded("ref").state = nil.state
        /\ Worded("ref").timeout = nil.timeout
        /\ \A t \in All : t # cur => Worded("ref").u1[t] = nil.u1[t]
    BY <2>1, <2>2, WordIs, Zenon
  <2>4. MaySleep(Worded("ref"), "SUSPENDED", timeout)
    BY <2>2, <2>3 DEF MaySleep
  <2> QED
    BY <2>1, <2>4, SleepStep
<1>4. CASE chSemSignal
  <2>1. /\ counter' = [counter EXCEPT !["sem"] = @ + 1] /\ UNCHANGED <<reference, cont, got, timevars>>
        /\ Notify(IF counter["sem"] < 0
                  THEN chSchReadyI(nil, Min(Waiters(nil, "WTQUEUE", "sem")), MSG_OK) ELSE nil)
    BY <1>4, Zenon DEF chSemSignal
  <2>2. CASE counter["sem"] < 0
    BY <1>0, <2>1, <2>2, SignalStep, Zenon
  <2>3. CASE ~(counter["sem"] < 0)
    <3>1. counter["sem"] >= 0
      BY <1>0, <2>3
    <3> QED
      BY <2>1, <2>3, <3>1, UnitStep, Zenon
  <2> QED
    BY <2>2, <2>3, Zenon
<1>5. CASE chThdDequeueNextI
  BY <1>0, <1>5, SignalStep, Zenon DEF chThdDequeueNextI
<1>6. CASE chThdDequeueAllI
  <2>1. 0 \in Nat
    OBVIOUS
  <2> QED
    BY <1>0, <1>6, <2>1, ReadyAllStep, Zenon DEF chThdDequeueAllI
<1>7. CASE chSemResetWithMessage(k)
  <2>1. k \in Nat /\ "sem" # "tq"
    BY NilAssumption
  <2> QED
    BY <1>0, <1>7, <2>1, ReadyAllStep, Zenon DEF chSemResetWithMessage
<1>8. CASE chThdResume
  <2>1. /\ reference # NoRef /\ reference' = NoRef /\ Notify(chSchReadyI(nil, reference, MSG_OK))
        /\ UNCHANGED <<counter, cont, got, timevars>>
    BY <1>8, Zenon DEF chThdResume
  <2>2. reference \in Thds
    BY <1>0, <2>1, NilAssumption DEF NoRef, Thds
  <2>3. nil.state[reference] = "SUSPENDED"
    BY <2>2, Zenon DEF NilInv, RefOK
  <2> QED
    BY <2>1, <2>2, <2>3, WokenStep
<1> QED
  BY <1>1, <1>2, <1>3, <1>4, <1>5, <1>6, <1>7, <1>8, Zenon

\* What is left to show when the current thread has fallen asleep from another
\* state than the present one.
LEMMA FellAsleep ==
  ASSUME NilInv, Sleeps, NEW n, NEW s, NEW timeout, Asleep(n, s, timeout, "none"),
         got' = got, ObjectsNext(nil'.state, nil'.u1),
         ThreadsOK(nil'.state, nil'.u1, nil'.timeout, cont', got)
  PROVE  NilInv'
<1>1. /\ isr = "none" /\ cont \in [All -> {"none", "msg"}] /\ got \in SUBSET Thds /\ cur \in All
      /\ isr \in {"none", "handler", "tick"} /\ scan \in [tp : 0 .. idle, next : Times] /\ delta \in Deltas
  BY CurrentIs, TypeParts, Zenon DEF NilInv, NilTypeOK
<1>2. cont' \in [All -> {"none", "msg"}]
  <2>1. cont' = [cont EXCEPT ![cur] = "none"]
    BY Zenon DEF Asleep
  <2> QED
    BY <1>1, <2>1
<1>3. NilTypeOK'
  BY <1>1, <1>2, Zenon DEF NilTypeOK, Asleep, ObjectsNext
<1>4. SchedOK'
  BY <1>1, Zenon DEF SchedOK, Asleep
<1> QED
  BY <1>3, <1>4, Zenon DEF NilInv, ObjectsNext

\* chThdExit: the threads that wait for the current one are made ready, and it is
\* gone.
LEMMA ExitStep ==
  ASSUME NilInv, chThdExit
  PROVE  NilInv'
<1> DEFINE ws == Waiters(nil, "WTEXIT", cur)
           st2 == [t \in All |-> IF t \in ws THEN "READY" ELSE nil.state[t]]
           u2 == [t \in All |-> IF t \in ws THEN MSG_OK ELSE nil.u1[t]]
           u3 == [t \in All |-> IF t \in ws \cup {cur} THEN MSG_OK ELSE nil.u1[t]]
           n == [nil EXCEPT !.state = st2, !.u1 = u3]
<1>1. Sleeps /\ GoSleep(n, "FINAL", 0, "none") /\ counter' = counter /\ reference' = reference /\ got' = got
  BY DEF chThdExit, All, TIME_INFINITE
<1>2. /\ cur \in Thds /\ cur \in All /\ nil.state[cur] = "READY" /\ cont[cur] = "none"
      /\ nil.timeout[cur] = 0
  BY <1>1, CurrentIs, Numbers
<1>3. /\ nil \in NilRecords /\ NilTypeOK
      /\ counter \in [Objects -> Int] /\ reference \in 0 .. NT /\ cont \in [All -> {"none", "msg"}]
      /\ CountOK(nil.state, nil.u1, counter) /\ RefOK(nil.state, reference)
      /\ ThreadsOK(nil.state, nil.u1, nil.timeout, cont, got)
  BY TypeParts, Zenon DEF NilInv
<1>4. /\ nil.state \in [All -> States] /\ nil.u1 \in [All -> Words] /\ nil.state[idle] = "READY"
  BY <1>3, Parts, Zenon DEF ThreadsOK
<1>5. \A t : t \in ws <=> t \in Thds /\ nil.state[t] = "WTEXIT" /\ nil.u1[t] = cur
  BY Zenon DEF Waiters
<1>6. \A t \in ws : nil.timeout[t] = 0 /\ t \notin got /\ cont[t] # "msg" /\ nil.state[t] # "SNDMSGQ"
  <2>1. ASSUME NEW t \in ws
        PROVE  nil.timeout[t] = 0 /\ t \notin got /\ cont[t] # "msg" /\ nil.state[t] # "SNDMSGQ"
    <3>1. t \in Thds /\ nil.state[t] = "WTEXIT"
      BY <1>5, Zenon
    <3>2. ThreadOK(t, nil.state, nil.u1, nil.timeout, cont, got)
      BY <1>3, <3>1, Zenon DEF ThreadsOK
    <3> QED
      BY <3>1, <3>2 DEF ThreadOK, TimedStates
  <2> QED
    BY <2>1, Zenon
<1>7. st2 \in [All -> States] /\ u3 \in [All -> Words]
  <2>1. "READY" \in States /\ MSG_OK \in Words
    BY DEF States, MSG_OK, Words
  <2> QED
    BY <1>4, <2>1, Zenon
<1>8. /\ \A t \in All : t \in ws => st2[t] = "READY"
      /\ \A t \in All : t \notin ws => st2[t] = nil.state[t] /\ u2[t] = nil.u1[t]
      /\ \A t \in All : t # cur => u3[t] = u2[t]
  BY Zenon
<1> HIDE DEF ws, st2, u2, u3
<1>9. n \in NilRecords /\ n.state = st2 /\ n.u1 = u3 /\ n.timeout = nil.timeout
  BY <1>3, <1>7, Zenon DEF NilRecords
<1> HIDE DEF n
<1>10. idle \in All /\ idle \notin ws /\ cur \notin ws /\ ws \in SUBSET Thds /\ Thds \subseteq All
  BY <1>2, <1>5, Numbers
<1>11. Asleep(n, "FINAL", 0, "none")
  <2>1. n.state[idle] = "READY" /\ "FINAL" \in States /\ "FINAL" # "READY" /\ 0 \in 0 .. MaxSleep
        /\ "none" \in {"none", "msg"}
    BY <1>4, <1>8, <1>9, <1>10, NilAssumption DEF States
  <2> QED
    BY <1>1, <1>2, <1>3, <1>9, <2>1, SleepIs, Zenon
<1>12. ThreadsOK(st2, u2, nil.timeout, cont, got)
  <2>1. Wakes(ws, nil.state, nil.u1, nil.timeout, st2, u2, nil.timeout)
    BY <1>6, <1>8, Zenon DEF Wakes
  <2>2. MayWake(ws, nil.state, nil.u1, u2, cont) /\ got \ ws = got
    BY <1>6, <1>10, Zenon DEF MayWake
  <2>3. ThreadsOK(st2, u2, nil.timeout, cont, got \ ws)
    BY <1>3, <2>1, <2>2, WakeThreads, Zenon
  <2> QED
    BY <2>2, <2>3, Zenon
<1>13. /\ nil'.state = [st2 EXCEPT ![cur] = "FINAL"] /\ nil'.u1 = u3
       /\ cont' = [cont EXCEPT ![cur] = "none"]
       /\ nil'.timeout[cur] = 0 /\ \A t \in All : t # cur => nil'.timeout[t] = nil.timeout[t]
  BY <1>2, <1>9, <1>11, Zenon DEF Asleep
<1>14. /\ nil'.state[cur] = "FINAL" /\ cont'[cur] = "none"
       /\ \A t \in All : t # cur => nil'.state[t] = st2[t] /\ cont'[t] = cont[t]
  BY <1>2, <1>3, <1>7, <1>13
<1>15. ThreadsOK(nil'.state, nil'.u1, nil'.timeout, cont', got)
  <2>1. \A t \in Thds : st2[t] = "WTEXIT" => u2[t] # cur
    <3>1. ASSUME NEW t \in Thds, st2[t] = "WTEXIT" PROVE u2[t] # cur
      <4>1. t \notin ws
        BY <1>8, <1>10, <3>1
      <4> QED
        BY <1>5, <1>8, <1>10, <3>1, <4>1, Zenon
    <3> QED
      BY <3>1, Zenon
  <2>2. st2[cur] = "READY"
    BY <1>2, <1>8, <1>10, Zenon
  <2>3. FallsAsleep(cur, "FINAL", st2, u2, nil.timeout, cont, nil'.state, nil'.u1, nil'.timeout, cont')
    BY <1>2, <1>8, <1>13, <1>14, <2>1, <2>2 DEF FallsAsleep, TimedStates
  <2> QED
    BY <1>2, <1>12, <2>3, SleepThreads, Zenon
<1>16. /\ \A t \in Thds : t # cur /\ t \notin ws => nil'.state[t] = nil.state[t] /\ nil'.u1[t] = nil.u1[t]
       /\ \A t \in Thds : t \in ws => nil'.state[t] = "READY" /\ nil.state[t] = "WTEXIT"
  BY <1>5, <1>8, <1>10, <1>13, <1>14, Zenon
<1>17. SameQueues(nil.state, nil.u1, nil'.state, nil'.u1)
  BY <1>2, <1>14, <1>16 DEF SameQueues
<1>18. \A t \in Thds : nil'.state[t] = "SUSPENDED" <=> nil.state[t] = "SUSPENDED"
  BY <1>2, <1>14, <1>16
<1>19. CountOK(nil'.state, nil'.u1, counter) /\ RefOK(nil'.state, reference)
  <2>1. CountOK(nil'.state, nil'.u1, counter)
    BY <1>3, <1>17, SameWaiters, Zenon
  <2>2. RefOK(nil'.state, reference)
    BY <1>3, <1>18, SameSuspended, Zenon
  <2> QED
    BY <2>1, <2>2, Zenon
<1>20. ObjectsNext(nil'.state, nil'.u1)
  BY <1>1, <1>3, <1>19, Zenon DEF ObjectsNext
<1> QED
  BY <1>1, <1>11, <1>15, <1>20, FellAsleep, Zenon

\* chMsgSend to a thread that waits for messages.
LEMMA HandStep ==
  ASSUME NilInv, Sleeps, NEW t \in Thds, t # cur, nil.state[t] = "WTMSG",
         GoSleep(chSchReadyI(Worded(t), t, cur), "SNDMSGQ", 0, "none"),
         counter' = counter, reference' = reference, got' = got
  PROVE  NilInv'
<1> DEFINE n == Worded(t)
           r == chSchReadyI(n, t, cur)
<1>1. /\ cur \in Thds /\ cur \in All /\ nil.state[cur] = "READY" /\ cont[cur] = "none"
      /\ nil.timeout[cur] = 0 /\ t \in All /\ t \in Words /\ cur \in Words
  <2>1. Thds \subseteq Words
    BY Numbers DEF Words
  <2> QED
    BY <2>1, CurrentIs, Numbers, Zenon
<1>2. /\ nil \in NilRecords /\ NilTypeOK /\ FirstReady(nil.state, nil.next)
      /\ counter \in [Objects -> Int] /\ reference \in 0 .. NT /\ cont \in [All -> {"none", "msg"}]
      /\ CountOK(nil.state, nil.u1, counter) /\ RefOK(nil.state, reference)
      /\ ThreadsOK(nil.state, nil.u1, nil.timeout, cont, got)
  BY TypeParts, Zenon DEF NilInv, SchedOK
<1>3. /\ n \in NilRecords /\ n.state = nil.state /\ n.timeout = nil.timeout /\ n.next = nil.next
      /\ n.u1[cur] = t /\ \A x \in All : x # cur => n.u1[x] = nil.u1[x]
  BY <1>1, WordIs, Zenon
<1> HIDE DEF n
<1>4. MadeReady(n, t, Kept(t, cur), r)
  BY <1>1, <1>2, <1>3, ReadyIs, Zenon
<1>5. Kept(t, cur) = cur
  <2>1. ThreadOK(t, nil.state, nil.u1, nil.timeout, cont, got)
    BY <1>2, Zenon DEF ThreadsOK
  <2>2. cont[t] = "msg"
    BY <2>1, Zenon DEF ThreadOK
  <2> QED
    BY <2>2 DEF Kept
<1>6. GoSleep(r, "SNDMSGQ", 0, "none")
  BY DEF n
<1> HIDE DEF r
<1>7. /\ r \in NilRecords /\ Wakes({t}, n.state, n.u1, n.timeout, r.state, r.u1, r.timeout) /\ r.u1[t] = cur
  BY <1>4, <1>5, Zenon DEF MadeReady
<1>8. /\ r.state[t] = "READY" /\ r.timeout[t] = 0
      /\ \A x \in All : x # t => r.state[x] = nil.state[x] /\ r.u1[x] = n.u1[x] /\ r.timeout[x] = nil.timeout[x]
  BY <1>1, <1>3, <1>7, Zenon DEF Wakes
<1>9. idle \in All /\ idle # t /\ nil.state[idle] = "READY" /\ Thds \subseteq All /\ r.state \in [All -> States]
  BY <1>2, <1>7, Numbers, Parts, Zenon DEF ThreadsOK
<1>10. Asleep(r, "SNDMSGQ", 0, "none")
  <2>1. r.state[idle] = "READY" /\ "SNDMSGQ" \in States /\ "SNDMSGQ" # "READY" /\ 0 \in 0 .. MaxSleep
        /\ "none" \in {"none", "msg"}
    BY <1>8, <1>9, NilAssumption DEF States
  <2> QED
    BY <1>1, <1>2, <1>6, <1>7, <2>1, SleepIs, Zenon
<1>11. /\ nil'.state = [r.state EXCEPT ![cur] = "SNDMSGQ"] /\ nil'.u1 = r.u1
       /\ cont' = [cont EXCEPT ![cur] = "none"]
       /\ nil'.timeout[cur] = 0 /\ \A x \in All : x # cur => nil'.timeout[x] = r.timeout[x]
  BY <1>1, <1>8, <1>10, Zenon DEF Asleep
<1>12. /\ nil'.state[cur] = "SNDMSGQ" /\ \A x \in All : x # cur => nil'.state[x] = r.state[x]
       /\ \A x \in All : cont'[x] = cont[x]
  BY <1>1, <1>2, <1>9, <1>11
<1>13. Hands(cur, t, nil.state, nil.u1, nil.timeout, cont, nil'.state, nil'.u1, nil'.timeout, cont')
  <2>1. \A x \in All : x # cur /\ x # t =>
          nil'.state[x] = nil.state[x] /\ nil'.u1[x] = nil.u1[x] /\ nil'.timeout[x] = nil.timeout[x]
    BY <1>3, <1>8, <1>11, <1>12, Zenon
  <2>2. nil'.u1[cur] = t /\ nil'.state[t] = "READY" /\ nil'.u1[t] = cur /\ nil'.timeout[t] = 0
    BY <1>1, <1>3, <1>7, <1>8, <1>11, <1>12, Zenon
  <2> QED
    BY <1>1, <1>11, <1>12, <2>1, <2>2, Zenon DEF Hands
<1>14. ThreadsOK(nil'.state, nil'.u1, nil'.timeout, cont', got)
  BY <1>2, <1>13, SendThreads, Zenon
<1>15. SameQueues(nil.state, nil.u1, nil'.state, nil'.u1)
  BY <1>9, <1>13 DEF SameQueues, Hands
<1>16. \A x \in Thds : nil'.state[x] = "SUSPENDED" <=> nil.state[x] = "SUSPENDED"
  BY <1>9, <1>13 DEF Hands
<1>17. CountOK(nil'.state, nil'.u1, counter) /\ RefOK(nil'.state, reference)
  <2>1. CountOK(nil'.state, nil'.u1, counter)
    BY <1>2, <1>15, SameWaiters, Zenon
  <2>2. RefOK(nil'.state, reference)
    BY <1>2, <1>16, Zenon DEF RefOK
  <2> QED
    BY <2>1, <2>2, Zenon
<1>18. ObjectsNext(nil'.state, nil'.u1)
  BY <1>2, <1>17, Zenon DEF ObjectsNext
<1> QED
  BY <1>10, <1>14, <1>18, FellAsleep, Zenon

\* The calls of the current thread on threads and messages in which it sleeps.
LEMMA ThreadSteps ==
  ASSUME NilInv, NEW timeout \in 0 .. MaxSleep, NEW t \in Thds,
         \/ chThdSleep(timeout) \/ chThdWait(t) \/ chMsgSend(t) \/ chThdCreate(t)
  PROVE  NilInv'
<1>1. CASE chThdSleep(timeout)
  <2>1. Sleeps /\ GoSleep(nil, "SLEEPING", timeout, "none") /\ counter' = counter /\ reference' = reference /\ got' = got
    BY <1>1 DEF chThdSleep
  <2>2. nil \in NilRecords
    BY TypeParts, Zenon DEF NilInv
  <2>3. MaySleep(nil, "SLEEPING", timeout)
    BY <2>2 DEF MaySleep, States, TimedStates
  <2> QED
    BY <2>1, <2>3, SleepStep
<1>2. ASSUME NEW s \in {"WTEXIT", "SNDMSGQ"}, Sleeps, t # cur, GoSleep(Worded(t), s, 0, "none"),
             s = "WTEXIT" => nil.state[t] # "FINAL", s = "SNDMSGQ" => nil.state[t] # "WTMSG",
             counter' = counter, reference' = reference, got' = got
      PROVE  NilInv'
  <2>1. t \in Words /\ s \in States /\ 0 \in 0 .. MaxSleep /\ s \notin {"READY", "WTQUEUE", "WTMSG", "FINAL", "SUSPENDED"}
    BY Numbers, NilAssumption DEF Words, States
  <2>2. /\ Worded(t) \in NilRecords /\ Worded(t).state = nil.state /\ Worded(t).u1[cur] = t
        /\ Worded(t).timeout = nil.timeout
        /\ \A x \in All : x # cur => Worded(t).u1[x] = nil.u1[x]
    BY <1>2, <2>1, WordIs, Zenon
  <2>3. MaySleep(Worded(t), s, 0)
    BY <1>2, <2>1, <2>2 DEF MaySleep
  <2>4. s # "WTQUEUE" /\ s # "SUSPENDED" /\ "none" = (IF s = "WTMSG" THEN "msg" ELSE "none")
    BY <2>1
  <2> QED
    BY <1>2, <2>3, <2>4, SleepStep, Zenon
<1>3. CASE chThdWait(t)
  BY <1>2, <1>3 DEF chThdWait, Worded, TIME_INFINITE
<1>4. CASE chMsgSend(t)
  <2>1. /\ Sleeps /\ t # cur /\ counter' = counter /\ reference' = reference /\ got' = got
        /\ GoSleep(IF nil.state[t] = "WTMSG" THEN chSchReadyI(Worded(t), t, cur) ELSE Worded(t),
                   "SNDMSGQ", 0, "none")
    BY <1>4 DEF chMsgSend, Worded, TIME_INFINITE
  <2>2. CASE nil.state[t] = "WTMSG"
    BY <2>1, <2>2, HandStep, Zenon
  <2>3. CASE nil.state[t] # "WTMSG"
    <3>1. GoSleep(Worded(t), "SNDMSGQ", 0, "none")
      BY <2>1, <2>3, Zenon
    <3> QED
      BY <1>2, <2>1, <2>3, <3>1
  <2> QED
    BY <2>2, <2>3, Zenon
<1>5. CASE chThdCreate(t)
  <2>1. /\ nil.state[t] \in {"WTSTART", "FINAL"} /\ Notify(chSchReadyI(nil, t, MSG_OK))
        /\ UNCHANGED <<counter, cont, got, timevars>> /\ reference' = reference
    BY <1>5 DEF chThdCreate
  <2>2. nil.state[t] \in {"WTSTART", "FINAL", "SUSPENDED"} /\ nil.state[t] # "SUSPENDED"
    BY <2>1
  <2> QED
    BY <2>1, <2>2, WokenStep, Zenon
<1> QED
  BY <1>1, <1>3, <1>4, <1>5, Zenon

\* The message of a sender is received.
LEMMA OneGot ==
  ASSUME NEW st, NEW u, NEW to, NEW co, NEW go, NEW x, ThreadsOK(st, u, to, co, go), st[x] = "SNDMSGQ"
  PROVE  ThreadsOK(st, u, to, co, go \cup {x})
BY Zenon DEF ThreadsOK, ThreadOK

\* What is left to show when only the senders whose messages were received, and what
\* threads have left to do, are others.
LEMMA GotStep ==
  ASSUME NilInv, UNCHANGED <<nil, counter, reference, isr, timevars>>,
         cont' \in [All -> {"none", "msg"}], got' \in SUBSET Thds,
         ThreadsOK(nil.state, nil.u1, nil.timeout, cont', got')
  PROVE  NilInv'
<1>1. /\ nil' = nil /\ counter' = counter /\ reference' = reference /\ isr' = isr
      /\ scan' = scan /\ clock' = clock /\ delta' = delta
  BY Zenon DEF timevars
<1>2. NilTypeOK' /\ SchedOK'
  BY <1>1, Zenon DEF NilInv, NilTypeOK, SchedOK
<1>3. /\ CountOK(nil.state, nil.u1, counter)' /\ RefOK(nil.state, reference)'
      /\ ThreadsOK(nil.state, nil.u1, nil.timeout, cont, got)'
  BY <1>1, Zenon DEF NilInv
<1> QED
  BY <1>2, <1>3, Zenon DEF NilInv

\* chMsgWaitTimeout: there is a sender, or the current thread waits for one.
LEMMA MsgWaitStep ==
  ASSUME NilInv, NEW timeout \in 0 .. MaxSleep, chMsgWaitTimeout(timeout)
  PROVE  NilInv'
<1> DEFINE senders == Waiters(nil, "SNDMSGQ", cur)
<1>1. /\ Sleeps /\ counter' = counter /\ reference' = reference
      /\ IF senders # {}
         THEN got' = got \cup {Min(senders)} /\ UNCHANGED <<nil, cont, isr, timevars>>
         ELSE GoSleep(nil, "WTMSG", timeout, "msg") /\ got' = got
  BY DEF chMsgWaitTimeout
<1>2. \A x : x \in senders <=> x \in Thds /\ nil.state[x] = "SNDMSGQ" /\ nil.u1[x] = cur
  BY Zenon DEF Waiters
<1>3. /\ nil \in NilRecords /\ got \in SUBSET Thds /\ cont \in [All -> {"none", "msg"}]
      /\ ThreadsOK(nil.state, nil.u1, nil.timeout, cont, got)
  BY TypeParts, Zenon DEF NilInv
<1> HIDE DEF senders
<1>4. CASE senders # {}
  <2> DEFINE x == Min(senders)
  <2>1. senders \in SUBSET Nat
    BY <1>2, Numbers, Zenon
  <2>2. x \in senders
    BY <1>4, <2>1, MinNat, Zenon
  <2>3. x \in Thds /\ nil.state[x] = "SNDMSGQ"
    BY <1>2, <2>2, Zenon
  <2>4. got' = got \cup {x} /\ cont' = cont /\ UNCHANGED <<nil, counter, reference, isr, timevars>>
    BY <1>1, <1>4
  <2> HIDE DEF x
  <2>5. ThreadsOK(nil.state, nil.u1, nil.timeout, cont, got \cup {x})
    BY <1>3, <2>3, OneGot, Zenon
  <2>6. got' \in SUBSET Thds
    BY <1>3, <2>3, <2>4, Zenon
  <2>7. ThreadsOK(nil.state, nil.u1, nil.timeout, cont', got') /\ cont' \in [All -> {"none", "msg"}]
    BY <1>3, <2>4, <2>5, Zenon
  <2> QED
    BY <2>4, <2>6, <2>7, GotStep, Zenon
<1>5. CASE senders = {}
  <2>1. \A x \in Thds : nil.state[x] = "SNDMSGQ" => nil.u1[x] # cur
    BY <1>2, <1>5, Zenon
  <2>2. MaySleep(nil, "WTMSG", timeout)
    BY <1>3, <2>1 DEF MaySleep, States, TimedStates
  <2> QED
    BY <1>1, <1>5, <2>2, SleepStep
<1> QED
  BY <1>4, <1>5, Zenon

\* The end of chMsgWaitTimeout in which the current thread slept.
LEMMA WakeUpStep ==
  ASSUME NilInv, WakeUp
  PROVE  NilInv'
<1> DEFINE x == nil.u1[cur]
<1>1. /\ isr = "none" /\ cont[cur] = "msg" /\ cont' = [cont EXCEPT ![cur] = "none"]
      /\ got' = (IF x # MSG_TIMEOUT THEN got \cup {x} ELSE got)
      /\ UNCHANGED <<nil, counter, reference, isr, timevars>>
  BY Zenon DEF WakeUp
<1>2. /\ nil \in NilRecords /\ got \in SUBSET Thds /\ cont \in [All -> {"none", "msg"}] /\ cur \in All
      /\ ThreadsOK(nil.state, nil.u1, nil.timeout, cont, got)
  BY TypeParts, Zenon DEF NilInv
<1>3. cur \in Thds
  <2>1. cont[idle] = "none"
    BY <1>2, Zenon DEF ThreadsOK
  <2>2. cur # idle
    BY <1>1, <2>1
  <2> QED
    BY <1>2, <2>2, Numbers, Zenon
<1>4. nil.state[cur] = "READY"
  BY <1>1, Zenon DEF NilInv, SchedOK, FirstReady, cur
<1>5. x = MSG_TIMEOUT \/ (x \in Thds /\ nil.state[x] = "SNDMSGQ")
  <2>1. ThreadOK(cur, nil.state, nil.u1, nil.timeout, cont, got)
    BY <1>2, <1>3, Zenon DEF ThreadsOK
  <2> QED
    BY <1>1, <1>4, <2>1 DEF ThreadOK
<1> HIDE DEF x
<1>6. ThreadsOK(nil.state, nil.u1, nil.timeout, cont, got') /\ got' \in SUBSET Thds
  <2>1. CASE x = MSG_TIMEOUT
    BY <1>1, <1>2, <2>1, Zenon
  <2>2. CASE x # MSG_TIMEOUT
    BY <1>1, <1>2, <1>5, <2>2, OneGot, Zenon
  <2> QED
    BY <2>1, <2>2, Zenon
<1>7. /\ cont' \in [All -> {"none", "msg"}] /\ cont'[cur] = "none"
      /\ \A t \in All : t # cur => cont'[t] = cont[t]
  BY <1>1, <1>2
<1>8. ThreadsOK(nil.state, nil.u1, nil.timeout, cont', got')
  <2>1. /\ nil.state[idle] = "READY" /\ cont[idle] = "none"
        /\ \A t \in Thds : ThreadOK(t, nil.state, nil.u1, nil.timeout, cont, got')
    BY <1>6, Zenon DEF ThreadsOK
  <2>2. ThreadOK(cur, nil.state, nil.u1, nil.timeout, cont', got')
    <3>1. ThreadOK(cur, nil.state, nil.u1, nil.timeout, cont, got')
      BY <1>3, <2>1, Zenon
    <3> QED
      BY <1>4, <1>7, <3>1 DEF ThreadOK
  <2>3. ASSUME NEW t \in Thds, t # cur PROVE ThreadOK(t, nil.state, nil.u1, nil.timeout, cont', got')
    <3>1. ThreadOK(t, nil.state, nil.u1, nil.timeout, cont, got') /\ cont'[t] = cont[t]
      BY <1>7, <2>1, <2>3, Numbers, Zenon
    <3> QED
      BY <3>1, Zenon DEF ThreadOK
  <2>4. cont'[idle] = "none"
    BY <1>7, <2>1, Numbers, Zenon
  <2> QED
    BY <2>1, <2>2, <2>3, <2>4, Zenon DEF ThreadsOK
<1> QED
  BY <1>1, <1>6, <1>7, <1>8, GotStep, Zenon

\* chMsgRelease: the sender goes on; its receiver is the current thread, which has
\* its message already.
LEMMA ReleaseStep ==
  ASSUME NilInv, NEW t \in Thds, chMsgRelease(t)
  PROVE  NilInv'
<1> DEFINE r == chSchReadyI(nil, t, MSG_OK)
<1>1. /\ Runs /\ t \in got /\ nil.u1[t] = cur /\ got' = got \ {t} /\ nil' = Reschedule(r)
      /\ counter' = counter /\ reference' = reference /\ cont' = cont /\ isr' = isr /\ UNCHANGED timevars
  BY Zenon DEF chMsgRelease
<1>2. /\ nil \in NilRecords /\ counter \in [Objects -> Int] /\ reference \in 0 .. NT
      /\ cont \in [All -> {"none", "msg"}] /\ got \in SUBSET Thds
      /\ CountOK(nil.state, nil.u1, counter) /\ RefOK(nil.state, reference)
      /\ ThreadsOK(nil.state, nil.u1, nil.timeout, cont, got)
  BY TypeParts, Zenon DEF NilInv
<1>3. nil.state[t] = "SNDMSGQ" /\ cont[t] # "msg"
  <2>1. ThreadOK(t, nil.state, nil.u1, nil.timeout, cont, got)
    BY <1>2, Zenon DEF ThreadsOK
  <2> QED
    BY <1>1, <2>1 DEF ThreadOK
<1>4. ASSUME NEW x \in Thds, cont[x] = "msg", nil.state[x] = "READY", nil.u1[x] = t PROVE FALSE
  <2>1. ThreadOK(x, nil.state, nil.u1, nil.timeout, cont, got)
    BY <1>2, Zenon DEF ThreadsOK
  <2>2. nil.state[x] # "WTMSG" /\ t # MSG_TIMEOUT /\ cont[cur] # "msg"
    BY <1>1, <1>4, Numbers DEF MSG_TIMEOUT, Runs
  <2>3. nil.u1[t] = x
    BY <1>4, <2>1, <2>2, Zenon DEF ThreadOK
  <2> QED
    BY <1>1, <1>4, <2>2, <2>3, Zenon
<1>5. MayWake({t}, nil.state, nil.u1, [nil.u1 EXCEPT ![t] = Kept(t, MSG_OK)], cont)
  BY <1>3, <1>4, Zenon DEF MayWake
<1>6. MSG_OK \in Words
  BY DEF MSG_OK, Words
<1>7. Woken(t, r)
  BY <1>5, <1>6, WokenOne, Zenon
<1>8. Notify(r)
  BY <1>1 DEF Notify
<1> HIDE DEF r
<1>9. /\ r \in NilRecords /\ FirstReady(r.state, r.next)
      /\ ThreadsOK(r.state, r.u1, r.timeout, cont', got')
      /\ r.state[t] = "READY"
      /\ \A x \in Thds \ {t} : r.state[x] = nil.state[x] /\ r.u1[x] = nil.u1[x]
  BY <1>1, <1>7, Zenon DEF Woken
<1>10. CountOK(r.state, r.u1, counter) /\ RefOK(r.state, reference)
  <2>1. SameQueues(nil.state, nil.u1, r.state, r.u1)
    BY <1>3, <1>9 DEF SameQueues
  <2>2. \A x \in Thds : r.state[x] = "SUSPENDED" <=> nil.state[x] = "SUSPENDED"
    BY <1>3, <1>9
  <2>3. CountOK(r.state, r.u1, counter)
    BY <1>2, <2>1, SameWaiters, Zenon
  <2>4. RefOK(r.state, reference)
    BY <1>2, <2>2, SameSuspended, Zenon
  <2> QED
    BY <2>3, <2>4, Zenon
<1>11. ObjectsNext(r.state, r.u1)
  BY <1>1, <1>2, <1>10, Zenon DEF ObjectsNext
<1>12. TimeOK'
  BY <1>1, <1>8, TimeStays, Zenon
<1>13. cont' \in [All -> {"none", "msg"}] /\ got' \in SUBSET Thds
  BY <1>1, <1>2, Zenon
<1> QED
  BY <1>8, <1>9, <1>11, <1>12, <1>13, Notified, Zenon

\* A thread whose time is over, in the tick handler: the object that it waited for
\* loses it.
LEMMA ExpireStep ==
  ASSUME NilInv, NEW t \in Thds, isr = "tick", isr' = isr, nil.timeout[t] > 0, Expired(t), TimeOK',
         nil' = chSchReadyI(nil, t, MSG_TIMEOUT), cont' = cont, got' = got
  PROVE  NilInv'
<1> DEFINE r == chSchReadyI(nil, t, MSG_TIMEOUT)
<1>1. /\ nil \in NilRecords /\ counter \in [Objects -> Int] /\ reference \in 0 .. NT
      /\ cont \in [All -> {"none", "msg"}] /\ got \in SUBSET Thds
      /\ CountOK(nil.state, nil.u1, counter) /\ RefOK(nil.state, reference)
      /\ ThreadOK(t, nil.state, nil.u1, nil.timeout, cont, got)
  BY TypeParts, Zenon DEF NilInv, ThreadsOK
<1>2. nil.state[t] \in TimedStates
  <2>1. nil.timeout[t] # 0
    OBVIOUS
  <2> QED
    BY <1>1, <2>1, Zenon DEF ThreadOK
<1>3. nil.state[t] # "SNDMSGQ" /\ t \notin got
  BY <1>1, <1>2 DEF ThreadOK, TimedStates
<1>4. t \in All /\ nil.u1 \in [All -> Words] /\ MSG_TIMEOUT \in Words
  BY <1>1, Numbers, Parts DEF MSG_TIMEOUT, Words
<1>5. MayWake({t}, nil.state, nil.u1, [nil.u1 EXCEPT ![t] = Kept(t, MSG_TIMEOUT)], cont)
  <2>1. cont[t] = "msg" => [nil.u1 EXCEPT ![t] = Kept(t, MSG_TIMEOUT)][t] = MSG_TIMEOUT
    BY <1>4 DEF Kept
  <2> QED
    BY <1>3, <2>1, Zenon DEF MayWake
<1>6. Woken(t, r)
  BY <1>4, <1>5, WokenOne, Zenon
<1>7. Notify(r)
  BY DEF Notify
<1> HIDE DEF r
<1>8. /\ r \in NilRecords /\ FirstReady(r.state, r.next)
      /\ ThreadsOK(r.state, r.u1, r.timeout, cont, got \ {t})
      /\ r.state[t] = "READY"
      /\ \A x \in Thds \ {t} : r.state[x] = nil.state[x] /\ r.u1[x] = nil.u1[x]
  BY <1>6, Zenon DEF Woken
<1>9. got \ {t} = got
  BY <1>3, Zenon
<1>10. ThreadsOK(r.state, r.u1, r.timeout, cont', got')
  BY <1>8, <1>9, Zenon
<1>11. r.state[t] # "WTQUEUE" /\ r.state[t] # "SUSPENDED"
  BY <1>8
<1>12. CountOK(r.state, r.u1, counter') /\ counter' \in [Objects -> Int]
  <2>1. CASE nil.state[t] = "WTQUEUE"
    <3> DEFINE o == nil.u1[t]
    <3>1. o \in Objects
      BY <1>1, <2>1, Zenon DEF ThreadOK
    <3>2. counter' = [counter EXCEPT ![o] = @ + 1]
      BY <2>1, Zenon DEF Expired
    <3> HIDE DEF o
    <3>3. /\ counter' \in [Objects -> Int] /\ counter'[o] = counter[o] + 1
          /\ \A p \in Objects : p # o => counter'[p] = counter[p]
      BY <1>1, <3>1, <3>2
    <3>4. Leaves(t, o, nil.state, nil.u1, counter, r.state, r.u1, counter')
      BY <1>8, <1>11, <2>1, <3>1, <3>3, Zenon DEF Leaves, o
    <3> QED
      BY <1>1, <3>3, <3>4, OneWaiterLess, Zenon
  <2>2. CASE nil.state[t] # "WTQUEUE"
    <3>1. counter' = counter
      BY <2>2, Zenon DEF Expired
    <3>2. SameQueues(nil.state, nil.u1, r.state, r.u1)
      BY <1>8, <1>11, <2>2, Zenon DEF SameQueues
    <3>3. CountOK(r.state, r.u1, counter)
      BY <1>1, <3>2, SameWaiters, Zenon
    <3> QED
      BY <1>1, <3>1, <3>3, Zenon
  <2> QED
    BY <2>1, <2>2, Zenon
<1>13. RefOK(r.state, reference') /\ reference' \in 0 .. NT
  <2>1. NoRef \in 0 .. NT /\ NoRef \notin Thds
    BY Numbers DEF NoRef
  <2>2. \A x \in Thds : nil.state[x] = "SUSPENDED" <=> reference = x
    BY <1>1, Zenon DEF RefOK
  <2>3. reference' = (IF nil.state[t] = "SUSPENDED" THEN NoRef ELSE reference)
    BY Zenon DEF Expired
  <2>4. \A x \in Thds : r.state[x] = "SUSPENDED" <=> reference' = x
    <3>1. CASE nil.state[t] = "SUSPENDED"
      <4>1. reference = t /\ reference' = NoRef
        BY <2>2, <2>3, <3>1, Zenon
      <4> QED
        BY <1>8, <1>11, <2>1, <2>2, <4>1, Zenon
    <3>2. CASE nil.state[t] # "SUSPENDED"
      BY <1>8, <1>11, <2>2, <2>3, <3>2, Zenon
    <3> QED
      BY <3>1, <3>2, Zenon
  <2> QED
    BY <1>1, <2>1, <2>3, <2>4, Zenon DEF RefOK
<1>14. ObjectsNext(r.state, r.u1)
  BY <1>12, <1>13, Zenon DEF ObjectsNext
<1>15. cont' \in [All -> {"none", "msg"}] /\ got' \in SUBSET Thds
  BY <1>1, Zenon
<1> QED
  BY <1>7, <1>8, <1>10, <1>14, <1>15, Notified, Zenon

\* Where only a timeout that runs on is another, and the variables of time.
LEMMA CountedStep ==
  ASSUME NilInv, NEW n \in NilRecords, n.state = nil.state, n.u1 = nil.u1, n.next = nil.next,
         \A t \in Thds : n.timeout[t] = nil.timeout[t] \/ nil.timeout[t] # 0,
         nil' = n, isr' \in {"none", "handler", "tick"}, isr' = "none" => n.current = n.next,
         TimeOK', UNCHANGED <<counter, reference, cont, got>>
  PROVE  NilInv'
<1>1. /\ NilTypeOK /\ SchedOK /\ counter' = counter /\ reference' = reference /\ cont' = cont /\ got' = got
      /\ CountOK(nil.state, nil.u1, counter) /\ RefOK(nil.state, reference)
      /\ ThreadsOK(nil.state, nil.u1, nil.timeout, cont, got)
  BY Zenon DEF NilInv
<1>2. ThreadsOK(n.state, n.u1, n.timeout, cont, got)
  <2>1. ASSUME NEW t \in Thds PROVE ThreadOK(t, n.state, n.u1, n.timeout, cont, got)
    <3>1. ThreadOK(t, nil.state, nil.u1, nil.timeout, cont, got)
      BY <1>1, Zenon DEF ThreadsOK
    <3>2. n.timeout[t] = nil.timeout[t] \/ nil.timeout[t] # 0
      OBVIOUS
    <3> QED
      BY <3>1, <3>2, Zenon DEF ThreadOK
  <2> QED
    BY <1>1, <2>1, Zenon DEF ThreadsOK
<1>3. NilTypeOK'
  BY <1>1, Zenon DEF NilTypeOK, TimeOK
<1>4. SchedOK'
  BY <1>1, Zenon DEF SchedOK, TimeOK
<1>5. /\ CountOK(nil.state, nil.u1, counter)' /\ RefOK(nil.state, reference)'
      /\ ThreadsOK(nil.state, nil.u1, nil.timeout, cont, got)'
  BY <1>1, <1>2, Zenon
<1> QED
  BY <1>3, <1>4, <1>5, Zenon DEF NilInv

\* The parts of the time.
LEMMA TimeParts ==
  ASSUME NilInv
  PROVE  /\ TimeOK /\ nil \in NilRecords /\ scan.tp \in 0 .. idle /\ scan.next \in Times
         /\ clock.now \in Times /\ clock.lasttime \in Times /\ clock.nexttime \in Times
         /\ clock.alarm \in BOOLEAN /\ delta \in Nat /\ isr \in {"none", "handler", "tick"}
<1>1. TimeOK /\ isr \in {"none", "handler", "tick"} /\ nil \in NilRecords
  BY Zenon DEF NilInv, NilTypeOK, SchedOK, TimeOK
<1>2. scan.tp \in 0 .. idle /\ scan.next \in Times
  BY <1>1 DEF TimeOK
<1>3. clock.now \in Times /\ clock.lasttime \in Times /\ clock.nexttime \in Times /\ clock.alarm \in BOOLEAN
  <2>1. clock \in ClockRecords
    BY <1>1, Zenon DEF TimeOK
  <2> QED
    BY <2>1 DEF ClockRecords
<1>4. delta \in Nat
  <2>1. delta \in Deltas
    BY <1>1, Zenon DEF TimeOK
  <2> QED
    BY <2>1, NilAssumption
<1> QED
  BY <1>1, <1>2, <1>3, <1>4, Zenon

\* The records of the clock and of the scan that the steps of time write.
LEMMA TimeRecords ==
  ASSUME NilInv, NEW x \in Times, NEW y \in Times, NEW b \in BOOLEAN, NEW k \in 0 .. idle
  PROVE  /\ [clock EXCEPT !.now = x] \in ClockRecords
         /\ [clock EXCEPT !.lasttime = x, !.nexttime = y, !.alarm = b] \in ClockRecords
         /\ [tp |-> k, next |-> x] \in [tp : 0 .. idle, next : Times]
<1>1. clock \in ClockRecords
  BY TimeParts, Zenon DEF TimeOK
<1> QED
  BY <1>1, Zenon DEF ClockRecords

\* One turn of the loop of chSysTimerHandlerI.
LEMMA VisitStep ==
  ASSUME NilInv, VisitThread
  PROVE  NilInv'
<1> DEFINE t      == scan.tp
           passed == IF delta = 0 THEN 1 ELSE chTimeDiffX(clock.lasttime, clock.nexttime)
           left   == (nil.timeout[t] - passed) % W
           timed  == nil.timeout[t] > 0
           first  == delta > 0 /\ timed /\ left > 0 /\ left <= (scan.next - 1) % W
           nx     == IF first THEN left ELSE scan.next
<1>1. /\ isr = "tick" /\ t <= NT /\ scan' = [tp |-> t + 1, next |-> nx]
      /\ IF timed /\ left = 0
         THEN Expired(t) /\ nil' = chSchReadyI(nil, t, MSG_TIMEOUT)
         ELSE /\ nil' = IF timed THEN [nil EXCEPT !.timeout[t] = left] ELSE nil
              /\ UNCHANGED <<counter, reference>>
      /\ cont' = cont /\ got' = got /\ isr' = isr /\ clock' = clock /\ delta' = delta
  BY DEF VisitThread
<1>2. t \in Thds /\ t + 1 \in 0 .. idle /\ t + 1 >= 1 /\ t \in All
  <2>1. t \in 0 .. idle /\ t >= 1
    BY <1>1, TimeParts, Zenon DEF TimeOK
  <2> QED
    BY <1>1, <2>1, NilAssumption DEF Thds, All, idle
<1>3. nil \in NilRecords /\ nil.timeout \in [All -> Nat] /\ nil.timeout[t] \in Nat
  BY <1>2, TimeParts, Parts
<1>4. left \in Times
  <2>1. passed \in Int
    BY TimeParts, Numbers, Remainder DEF chTimeDiffX, Times
  <2> HIDE DEF passed, t
  <2>2. nil.timeout[t] - passed \in Int
    BY <1>3, <2>1
  <2> QED
    BY <2>2, Remainder, Zenon
<1>5. nx \in Times
  BY <1>4, TimeParts, Zenon
<1> HIDE DEF left, nx, t
<1>6. TimeOK'
  <2>1. TimeOK
    BY TimeParts, Zenon
  <2>2. scan' \in [tp : 0 .. idle, next : Times] /\ scan'.tp >= 1
    BY <1>1, <1>2, <1>5
  <2> QED
    BY <1>1, <2>1, <2>2, Zenon DEF TimeOK
<1>7. CASE timed /\ left = 0
  BY <1>1, <1>2, <1>6, <1>7, ExpireStep, Zenon
<1>8. CASE ~(timed /\ left = 0)
  <2>1. /\ nil' = (IF timed THEN [nil EXCEPT !.timeout[t] = left] ELSE nil)
        /\ counter' = counter /\ reference' = reference
    BY <1>1, <1>8, Zenon
  <2>2. /\ nil' \in NilRecords /\ nil'.state = nil.state /\ nil'.u1 = nil.u1 /\ nil'.next = nil.next
        /\ \A x \in Thds : nil'.timeout[x] = nil.timeout[x] \/ nil.timeout[x] # 0
    <3>1. CASE timed
      <4> DEFINE to2 == [nil.timeout EXCEPT ![t] = left]
      <4>1. nil' = [nil EXCEPT !.timeout = to2]
        BY <2>1, <3>1
      <4>2. left \in Nat /\ nil.timeout[t] # 0
        BY <1>3, <1>4, <3>1, Numbers
      <4>3. to2 \in [All -> Nat] /\ \A x \in All : x # t => to2[x] = nil.timeout[x]
        BY <1>2, <1>3, <4>2
      <4> HIDE DEF to2
      <4>4. /\ nil' \in NilRecords /\ nil'.state = nil.state /\ nil'.u1 = nil.u1 /\ nil'.next = nil.next
            /\ nil'.timeout = to2
        BY <1>3, <4>1, <4>3 DEF NilRecords
      <4> QED
        BY <4>2, <4>3, <4>4, Numbers, Zenon
    <3>2. CASE ~timed
      BY <1>3, <2>1, <3>2, Zenon
    <3> QED
      BY <3>1, <3>2, Zenon
  <2>3. isr' # "none" /\ isr' \in {"none", "handler", "tick"}
    BY <1>1
  <2> DEFINE n == nil'
  <2>4. /\ n \in NilRecords /\ n.state = nil.state /\ n.u1 = nil.u1 /\ n.next = nil.next
        /\ \A x \in Thds : n.timeout[x] = nil.timeout[x] \/ nil.timeout[x] # 0
        /\ isr' = "none" => n.current = n.next
    BY <2>2, <2>3, Zenon
  <2>5. nil' = n /\ UNCHANGED <<counter, reference, cont, got>>
    BY <1>1, <2>1
  <2> HIDE DEF n
  <2> QED
    BY <1>6, <2>3, <2>4, <2>5, CountedStep, Zenon
<1> QED
  BY <1>7, <1>8, Zenon

\* The other steps of time and of interrupts.
LEMMA ClockSteps ==
  ASSUME NilInv, TimePasses \/ TimerInterrupt \/ EndOfScan \/ EndOfInterrupt
  PROVE  NilInv'
<1>1. /\ TimeOK /\ nil \in NilRecords /\ scan.tp \in 0 .. idle /\ scan.next \in Times
      /\ clock.now \in Times /\ clock.lasttime \in Times /\ clock.nexttime \in Times
      /\ clock.alarm \in BOOLEAN /\ delta \in Nat /\ isr \in {"none", "handler", "tick"}
  BY TimeParts, Zenon
<1>2. \A x, y \in Times : chTimeAddX(x, y) \in Times
  BY Numbers, Remainder DEF Times, chTimeAddX
<1>4. \A x \in Times : chTimeAddX(x, 1) \in Times
  BY Numbers, Remainder DEF Times, chTimeAddX
<1>5. 0 \in Times /\ 0 \in 0 .. idle /\ 1 \in 0 .. idle
  BY NilAssumption DEF Times, idle
<1>6. isr = "none" => nil.current = nil.next
  BY Zenon DEF NilInv, SchedOK
<1>7. ASSUME nil' = nil, isr' \in {"none", "handler", "tick"}, isr' = "none" => isr = "none",
             TimeOK', UNCHANGED <<counter, reference, cont, got>>
      PROVE  NilInv'
  BY <1>1, <1>6, <1>7, CountedStep, Zenon
<1>8. CASE TimePasses
  <2>1. /\ isr = "none" /\ isr' = isr /\ clock' = [clock EXCEPT !.now = chTimeAddX(clock.now, 1)] /\ nil' = nil
        /\ UNCHANGED <<counter, reference, cont, got>> /\ scan' = scan /\ delta' = delta
    BY <1>8 DEF TimePasses
  <2>2. clock' \in ClockRecords
    BY <1>1, <1>4, <1>5, <2>1, TimeRecords
  <2>3. TimeOK' /\ isr' \in {"none", "handler", "tick"}
    BY <1>1, <2>1, <2>2, Zenon DEF TimeOK
  <2> QED
    BY <1>7, <2>1, <2>3, Zenon
<1>9. CASE TimerInterrupt
  <2>1. /\ clock' = clock \/ clock' = [clock EXCEPT !.now = chTimeAddX(clock.now, 1)]
        /\ isr' = "tick" /\ scan' = [tp |-> 1, next |-> 0] /\ nil' = nil
        /\ UNCHANGED <<counter, reference, cont, got>> /\ delta' = delta
    BY <1>9 DEF TimerInterrupt
  <2>2. clock' \in ClockRecords
    <3>1. clock \in ClockRecords
      BY <1>1, Zenon DEF TimeOK
    <3>2. [clock EXCEPT !.now = chTimeAddX(clock.now, 1)] \in ClockRecords
      BY <1>1, <1>4, <1>5, TimeRecords
    <3> QED
      BY <2>1, <3>1, <3>2, Zenon
  <2>3. scan' \in [tp : 0 .. idle, next : Times] /\ scan'.tp >= 1
    BY <1>5, <2>1
  <2>4. TimeOK' /\ isr' \in {"none", "handler", "tick"} /\ isr' # "none"
    BY <1>1, <2>1, <2>2, <2>3 DEF TimeOK
  <2> QED
    BY <1>7, <2>1, <2>4, Zenon
<1>10. CASE EndOfScan
  <2>1. /\ clock' = clock \/ clock' = [clock EXCEPT !.lasttime = clock.nexttime,
                                        !.nexttime = chTimeAddX(clock.nexttime, scan.next), !.alarm = scan.next > 0]
        /\ isr' = "handler" /\ scan' = [tp |-> 0, next |-> 0] /\ nil' = nil
        /\ UNCHANGED <<counter, reference, cont, got>> /\ delta' = delta
    BY <1>10 DEF EndOfScan, NoScan
  <2>2. clock' \in ClockRecords
    <3>1. chTimeAddX(clock.nexttime, scan.next) \in Times /\ (scan.next > 0) \in BOOLEAN
      BY <1>1, <1>2
    <3>2. [clock EXCEPT !.lasttime = clock.nexttime, !.nexttime = chTimeAddX(clock.nexttime, scan.next),
                        !.alarm = scan.next > 0] \in ClockRecords
      BY <1>1, <1>5, <3>1, TimeRecords
    <3> QED
      BY <1>1, <2>1, <3>2, Zenon DEF TimeOK
  <2>3. scan' \in [tp : 0 .. idle, next : Times]
    BY <1>5, <2>1
  <2>4. TimeOK' /\ isr' \in {"none", "handler", "tick"} /\ isr' # "none"
    BY <1>1, <2>1, <2>2, <2>3 DEF TimeOK
  <2> QED
    BY <1>7, <2>1, <2>4, Zenon
<1>11. CASE EndOfInterrupt
  <2>1. /\ isr' = "none" /\ nil' = [nil EXCEPT !.current = nil.next]
        /\ UNCHANGED <<counter, reference, cont, got>> /\ scan' = scan /\ clock' = clock /\ delta' = delta
    BY <1>11 DEF EndOfInterrupt, Reschedule, timevars
  <2> DEFINE n == [nil EXCEPT !.current = nil.next]
  <2>2. /\ n \in NilRecords /\ n.state = nil.state /\ n.u1 = nil.u1 /\ n.next = nil.next /\ n.current = n.next
        /\ n.timeout = nil.timeout
    BY <1>1 DEF NilRecords
  <2>3. TimeOK' /\ isr' \in {"none", "handler", "tick"}
    BY <1>1, <2>1 DEF TimeOK
  <2>4. nil' = n
    BY <2>1
  <2> HIDE DEF n
  <2> QED
    BY <2>1, <2>2, <2>3, <2>4, CountedStep, Zenon
<1> QED
  BY <1>8, <1>9, <1>10, <1>11, Zenon

-----------------------------------------------------------------------------
(* The theorem about the threads and the objects *)

\* What the first threads are ready for.
LEMMA InitOK == NilInit => NilInv
<1> SUFFICES ASSUME NilInit PROVE NilInv
  OBVIOUS
<1>1. PICK A \in SUBSET Thds :
        LET first == Min(A \cup {idle})
        IN  nil = [current |-> first, next |-> first,
                   state   |-> [t \in 1 .. idle |-> IF t \in A \cup {idle} THEN "READY" ELSE "WTSTART"],
                   u1      |-> [t \in 1 .. idle |-> MSG_OK],
                   timeout |-> [t \in 1 .. idle |-> 0],
                   due     |-> [t \in 1 .. idle |-> 0]]
  BY Zenon DEF NilInit
<1> DEFINE S == A \cup {idle}
           k == Min(S)
           st == [t \in All |-> IF t \in S THEN "READY" ELSE "WTSTART"]
           u == [t \in All |-> MSG_OK]
           to == [t \in All |-> 0]
<1>2. nil = [current |-> k, next |-> k, state |-> st, u1 |-> u, timeout |-> to, due |-> to]
  BY <1>1, Zenon DEF All
<1>3. k \in S /\ S \subseteq All /\ \A y \in S : k <= y
  <2>1. S \in SUBSET Nat /\ S # {} /\ S \subseteq All
    BY Numbers
  <2> HIDE DEF S
  <2> QED
    BY <2>1, MinNat, Zenon
<1>4. idle \in S /\ idle \in All /\ Thds \subseteq All /\ NT \in Nat
  BY Numbers
<1>5. /\ st \in [All -> States] /\ u \in [All -> Words] /\ to \in [All -> Nat]
      /\ \A t \in All : st[t] = IF t \in S THEN "READY" ELSE "WTSTART"
      /\ \A t \in All : to[t] = 0
  BY DEF States, Words, MSG_OK
<1> HIDE DEF S, k, st, u, to
<1>6. nil \in NilRecords /\ nil.state = st /\ nil.u1 = u /\ nil.timeout = to /\ nil.next = k /\ nil.current = k
  BY <1>2, <1>3, <1>5 DEF NilRecords
<1>7. /\ counter = [o \in Objects |-> 0] /\ reference = 0 /\ cont = [t \in All |-> "none"] /\ got = {}
      /\ isr = "none" /\ scan = [tp |-> 0, next |-> 0] /\ delta \in Deltas
      /\ clock = [now |-> 0, lasttime |-> 0, nexttime |-> 0, alarm |-> FALSE]
  BY DEF NilInit, Objects, All, NoRef, NoScan
<1>8. NilTypeOK
  <2>1. 0 \in Times /\ 0 \in 0 .. idle /\ 0 \in 0 .. NT
    BY NilAssumption DEF Times, idle
  <2>2. counter \in [Objects -> Int] /\ reference \in 0 .. NT /\ cont \in [All -> {"none", "msg"}]
    BY <1>7, <2>1
  <2>3. scan \in [tp : 0 .. idle, next : Times] /\ clock \in ClockRecords
    BY <1>7, <2>1 DEF ClockRecords
  <2>4. got \in SUBSET Thds /\ isr \in {"none", "handler", "tick"}
    BY <1>7
  <2> QED
    BY <1>6, <1>7, <2>2, <2>3, <2>4, Zenon DEF NilTypeOK
<1>9. \A t \in All : st[t] \in {"READY", "WTSTART"}
  BY <1>5
<1>10. FirstReady(st, k)
  BY <1>3, <1>5 DEF FirstReady
<1>11. CountOK(st, u, counter)
  <2>1. \A o : WaitsFor(st, u, o) = {}
    BY <1>4, <1>9 DEF WaitsFor
  <2>2. \A o : Cardinality(WaitsFor(st, u, o)) = 0
    BY <2>1, FS_EmptySet
  <2> QED
    BY <1>7, <2>2 DEF CountOK, Objects
<1>12. RefOK(st, reference)
  BY <1>4, <1>7, <1>9 DEF RefOK, Thds
<1>13. ThreadsOK(st, u, to, cont, got)
  <2>1. st[idle] = "READY" /\ cont[idle] = "none"
    BY <1>4, <1>5, <1>7
  <2>2. ASSUME NEW t \in Thds PROVE ThreadOK(t, st, u, to, cont, got)
    <3>1. st[t] \in {"READY", "WTSTART"} /\ to[t] = 0 /\ cont[t] = "none" /\ t \notin got
      BY <1>4, <1>5, <1>7, <1>9
    <3> QED
      BY <3>1 DEF ThreadOK
  <2> QED
    BY <2>1, <2>2, Zenon DEF ThreadsOK
<1>14. SchedOK
  <2>1. isr # "tick"
    BY <1>7
  <2> QED
    BY <1>6, <1>10, <2>1, Zenon DEF SchedOK
<1> QED
  BY <1>6, <1>8, <1>11, <1>12, <1>13, <1>14, Zenon DEF NilInv

\* Every step of the kernel.
LEMMA NilStep ==
  ASSUME NilInv, [NilNext]_nilvars
  PROVE  NilInv'
<1>0. {TIME_INFINITE} \cup 1 .. MaxSleep \subseteq 0 .. MaxSleep /\ 0 \in 0 .. MaxSleep /\ 0 \in 0 .. MaxCnt
  BY NilAssumption DEF TIME_INFINITE
<1>1. CASE NilWait
  <2>1. ASSUME NEW timeout \in {TIME_INFINITE} \cup 1 .. MaxSleep,
               \/ chSemWaitTimeout(timeout) \/ chThdEnqueueTimeoutS(timeout)
               \/ chThdSuspendTimeoutS(timeout) \/ chThdSleep(timeout) \/ chMsgWaitTimeout(timeout)
        PROVE  NilInv'
    <3>1. timeout \in 0 .. MaxSleep
      BY <1>0, Zenon
    <3>2. CASE chThdSleep(timeout)
      <4>1. cur \in Thds
        BY <3>2, CurrentIs, Zenon DEF chThdSleep
      <4> QED
        BY <3>1, <3>2, <4>1, ThreadSteps, Zenon
    <3> QED
      BY <1>0, <2>1, <3>1, <3>2, ObjectSteps, MsgWaitStep, Zenon
  <2>2. ASSUME NEW t \in Thds, chThdWait(t) \/ chMsgSend(t) PROVE NilInv'
    BY <1>0, <2>2, ThreadSteps, Zenon
  <2> QED
    BY <1>1, <2>1, <2>2, ExitStep, Zenon DEF NilWait
<1>2. CASE NilNotify
  <2>1. ASSUME NEW n \in 0 .. MaxCnt, chSemResetWithMessage(n) PROVE NilInv'
    BY <1>0, <2>1, ObjectSteps, Zenon
  <2>2. ASSUME NEW t \in Thds, chThdCreate(t) \/ chMsgRelease(t) PROVE NilInv'
    BY <1>0, <2>2, ThreadSteps, ReleaseStep, Zenon
  <2>3. ASSUME chSemSignal \/ chThdDequeueNextI \/ chThdDequeueAllI \/ chThdResume PROVE NilInv'
    BY <1>0, <2>3, ObjectSteps, Zenon
  <2> QED
    BY <1>2, <2>1, <2>2, <2>3, Zenon DEF NilNotify
<1>3. CASE WakeUp
  BY <1>3, WakeUpStep, Zenon
<1>4. CASE NilTime
  BY <1>4, VisitStep, ClockSteps, Zenon DEF NilTime
<1>5. CASE UNCHANGED nilvars
  BY <1>5 DEF nilvars, NilInv, NilTypeOK, SchedOK
<1> QED
  BY <1>1, <1>2, <1>3, <1>4, <1>5, Zenon DEF NilNext

\* What the invariant says of the threads.
LEMMA NilInvConsistent == NilInv => NilConsistent
<1> SUFFICES ASSUME NilInv PROVE NilConsistent
  OBVIOUS
<1>1. /\ nil.state[idle] = "READY" /\ FirstReady(nil.state, nil.next) /\ reference \in 0 .. NT
      /\ CountOK(nil.state, nil.u1, counter) /\ RefOK(nil.state, reference)
      /\ \A t \in Thds : ThreadOK(t, nil.state, nil.u1, nil.timeout, cont, got)
      /\ (isr = "none" => cur = nil.next)
  BY TypeParts, Zenon DEF NilInv, ThreadsOK, SchedOK, cur
<1>2. nil.next = Min(ReadyOnes(nil))
  BY <1>1, FirstIsMin, Zenon
<1>3. \A o \in {"sem", "tq"} :
        Cardinality(Waiters(nil, "WTQUEUE", o)) = IF counter[o] < 0 THEN -counter[o] ELSE 0
  <2>1. \A o : Waiters(nil, "WTQUEUE", o) = WaitsFor(nil.state, nil.u1, o)
    BY Zenon DEF Waiters, WaitsFor
  <2> QED
    BY <1>1, <2>1, Zenon DEF CountOK, Objects
<1>4. {t \in Thds : nil.state[t] = "SUSPENDED"} = {reference} \ {NoRef}
  <2>1. reference # NoRef => reference \in Thds
    BY <1>1, NilAssumption DEF NoRef, Thds
  <2>2. NoRef \notin Thds
    BY DEF NoRef, Thds
  <2>3. \A t \in Thds : nil.state[t] = "SUSPENDED" <=> reference = t
    BY <1>1, Zenon DEF RefOK
  <2> QED
    BY <2>1, <2>2, <2>3, Zenon
<1>5. ASSUME NEW t \in Thds
      PROVE  /\ nil.state[t] = "WTMSG" => Waiters(nil, "SNDMSGQ", t) = {}
             /\ nil.state[t] = "WTEXIT" => nil.state[nil.u1[t]] # "FINAL"
             /\ nil.state[t] = "READY" => nil.timeout[t] = 0
             /\ t \in got => nil.state[t] = "SNDMSGQ"
             /\ cont[t] = "msg" /\ nil.state[t] = "READY" /\ nil.u1[t] > 0 =>
                  nil.state[nil.u1[t]] = "SNDMSGQ" /\ nil.u1[nil.u1[t]] = t
  <2>1. ThreadOK(t, nil.state, nil.u1, nil.timeout, cont, got)
    BY <1>1, Zenon
  <2>2. nil.state[t] = "WTMSG" => Waiters(nil, "SNDMSGQ", t) = {}
    BY <2>1, Zenon DEF ThreadOK, Waiters
  <2>3. nil.state[t] = "READY" => nil.state[t] \notin TimedStates /\ nil.state[t] # "WTMSG"
    BY DEF TimedStates
  <2>4. nil.u1[t] > 0 => nil.u1[t] # MSG_TIMEOUT
    BY DEF MSG_TIMEOUT
  <2> QED
    BY <2>1, <2>2, <2>3, <2>4, Zenon DEF ThreadOK
<1> QED
  BY <1>1, <1>2, <1>3, <1>4, <1>5, Zenon DEF NilConsistent

\* Whatever the threads call and whenever ticks and other interrupts come in, the
\* NIL kernel runs the first ready thread, its counters are the numbers of the
\* waiters, its reference the thread suspended, and no thread waits for what is
\* there.
THEOREM NilStaysConsistent == NilSpec => []NilConsistent
<1>1. NilInit => NilInv
  BY InitOK
<1>2. NilInv /\ [NilNext]_nilvars => NilInv'
  BY NilStep, Zenon
<1>3. NilInv => NilConsistent
  BY NilInvConsistent
<1> QED
  BY <1>1, <1>2, <1>3, PTL DEF NilSpec

=============================================================================
