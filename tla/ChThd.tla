------------------------------- MODULE ChThd -------------------------------
(***************************************************************************)
(* The life of threads: creation, references, exit, wait for exit and the  *)
(* registry (os/rt/src/chthreads.c, chdynamic.c, chregistry.c), with       *)
(* CH_CFG_USE_REGISTRY, CH_CFG_USE_WAITEXIT and CH_CFG_USE_DYNAMIC.        *)
(*                                                                         *)
(* A thread is known by its working area.  Its users are other threads     *)
(* that have a pointer to it; any of them runs at any moment outside of    *)
(* the critical sections.                                                  *)
(***************************************************************************)
EXTENDS Integers, Sequences, FiniteSets, Functions, ChLists

CONSTANTS
  Areas,      \* working areas
  Dynamic,    \* those that come from a heap or a memory pool
  main,       \* the thread of main(), which does not exit
  Users,
  MaxRefs,    \* bound: references held by one user
  NULL

ASSUME ThdAssumption ==
  /\ Dynamic \subseteq Areas \ {main} /\ main \in Areas
  /\ MaxRefs \in Nat \ {0} /\ NULL \notin Areas /\ IsFiniteSet(Users)

VARIABLES
  life,       \* "none" (no thread, memory free), "alive" or "final"
  refs,       \* thread_t.refs
  registry,   \* the list that starts at ch.rlist.newer
  waiting,    \* thread_t.waiting: the users in chThdWait on it
  has,        \* the references that a user holds
  user        \* where a user is, and the threads its function works on

thdvars == <<life, refs, registry, waiting, has, user>>

\* 1 if p.
One(p) == IF p THEN 1 ELSE 0

Idle == [at |-> "idle", tp |-> NULL, ntp |-> NULL]

\* The references to t that users hold, or that their functions still have to
\* give back or to hand out; ReleaseLast may hand out one above MaxRefs.
References(t) ==
  Cardinality({r \in Users \X (1 .. MaxRefs + 1) : r[2] <= has[r[1]][t]})
    + Cardinality({u \in Users : user[u].tp = t}) + Cardinality({u \in Users : user[u].ntp = t})

-----------------------------------------------------------------------------

\* chThdCreateStatic, chThdCreateFromHeap, chThdCreateFromMemoryPool: the thread
\* starts with one reference, its creator's.
Create(u, t) ==
  /\ user[u] = Idle /\ life[t] = "none"
  /\ t \notin Range(registry)
  /\ life' = [life EXCEPT ![t] = "alive"]
  /\ refs' = [refs EXCEPT ![t] = 1]
  /\ registry' = Append(registry, t)
  /\ waiting' = [waiting EXCEPT ![t] = {}]
  /\ has' = [has EXCEPT ![u][t] = @ + 1]
  /\ UNCHANGED user

\* chThdAddRef, by a user that holds one already, for another.
chThdAddRef(u, v, t) ==
  /\ user[u] = Idle /\ has[u][t] > 0 /\ has[v][t] < MaxRefs
  /\ refs' = [refs EXCEPT ![t] = @ + 1]
  /\ has' = [has EXCEPT ![v][t] = @ + 1]
  /\ UNCHANGED <<life, registry, waiting, user>>

\* The body of chThdRelease.  The memory goes back to its allocator after the
\* critical section, when nothing leads to the thread any more.
Release(t) ==
  /\ refs' = [refs EXCEPT ![t] = @ - 1]
  /\ IF refs[t] = 1 /\ life[t] = "final"
     THEN /\ registry' = Without(registry, t)
          /\ life' = [life EXCEPT ![t] = "none"]
     ELSE UNCHANGED <<registry, life>>

chThdRelease(u, t) ==
  /\ user[u] = Idle /\ has[u][t] > 0
  /\ Release(t)
  /\ has' = [has EXCEPT ![u][t] = @ - 1]
  /\ UNCHANGED <<waiting, user>>

\* Mutant: every static thread leaves the registry.
chThdExit_static(t) ==
  /\ life[t] = "alive" /\ t # main
  /\ waiting' = [waiting EXCEPT ![t] = {}]
  /\ user' = [u \in Users |-> IF u \in waiting[t] THEN [user[u] EXCEPT !.at = "release"]
                                                  ELSE user[u]]
  /\ IF t \notin Dynamic
     THEN /\ registry' = Without(registry, t)
          /\ life' = [life EXCEPT ![t] = "none"]
     ELSE /\ life' = [life EXCEPT ![t] = "final"]
          /\ UNCHANGED registry
  /\ UNCHANGED <<refs, has>>

\* chThdExitS.  A static thread without references leaves the registry at once;
\* a dynamic one stays, and its memory with it.
chThdExit(t) ==
  /\ life[t] = "alive" /\ t # main
  /\ waiting' = [waiting EXCEPT ![t] = {}]
  /\ user' = [u \in Users |-> IF u \in waiting[t] THEN [user[u] EXCEPT !.at = "release"]
                                                  ELSE user[u]]
  /\ IF refs[t] = 0 /\ t \notin Dynamic
     THEN /\ registry' = Without(registry, t)
          /\ life' = [life EXCEPT ![t] = "none"]
     ELSE /\ life' = [life EXCEPT ![t] = "final"]
          /\ UNCHANGED registry
  /\ UNCHANGED <<refs, has>>

\* chThdWait, up to the sleep or to chThdRelease.
chThdWait(u, t) ==
  /\ user[u] = Idle /\ has[u][t] > 0 /\ t # main
  /\ has' = [has EXCEPT ![u][t] = @ - 1]
  /\ user' = [user EXCEPT ![u] = [at  |-> IF life[t] = "final" THEN "release" ELSE "wait",
                                  tp  |-> t, ntp |-> NULL]]
  /\ waiting' = IF life[t] = "final" THEN waiting
                ELSE [waiting EXCEPT ![t] = @ \cup {u}]
  /\ UNCHANGED <<life, refs, registry>>

\* chThdRelease at the end of chThdWait and of chRegNextThread.
ReleaseLast(u) ==
  /\ user[u].at = "release"
  /\ Release(user[u].tp)
  /\ user' = [user EXCEPT ![u] = Idle]
  /\ has' = IF user[u].ntp = NULL THEN has ELSE [has EXCEPT ![u][user[u].ntp] = @ + 1]
  /\ UNCHANGED waiting

-----------------------------------------------------------------------------
(* The registry *)

chRegFirstThread(u) ==
  LET t == Head(registry)
  IN  /\ user[u] = Idle /\ has[u][t] < MaxRefs
      /\ refs' = [refs EXCEPT ![t] = @ + 1]
      /\ has' = [has EXCEPT ![u][t] = @ + 1]
      /\ UNCHANGED <<life, registry, waiting, user>>

\* The first critical section of chRegNextThread: the next thread, or NULL, gets
\* a reference before the current one loses its own.
chRegNextThread(u, t) ==
  LET i == CHOOSE n \in DOMAIN registry : registry[n] = t
      n == IF i = Len(registry) THEN NULL ELSE registry[i + 1]
  IN  /\ user[u] = Idle /\ has[u][t] > 0
      /\ n # NULL => has[u][n] < MaxRefs
      /\ refs' = IF n = NULL THEN refs ELSE [refs EXCEPT ![n] = @ + 1]
      /\ has' = [has EXCEPT ![u][t] = @ - 1]
      /\ user' = [user EXCEPT ![u] = [at |-> "release", tp |-> t, ntp |-> n]]
      /\ UNCHANGED <<life, registry, waiting>>

-----------------------------------------------------------------------------

ThdInit ==
  /\ life = [t \in Areas |-> IF t = main THEN "alive" ELSE "none"]
  /\ refs = [t \in Areas |-> IF t = main THEN 1 ELSE 0]
  /\ registry = <<main>>
  /\ waiting = [t \in Areas |-> {}]
  /\ has = [u \in Users |-> [t \in Areas |-> 0]]
  /\ user = [u \in Users |-> Idle]

ThdNext ==
  \/ \E u \in Users, t \in Areas :
       \/ Create(u, t) \/ chThdRelease(u, t) \/ chThdWait(u, t) \/ chRegNextThread(u, t)
       \/ \E v \in Users : chThdAddRef(u, v, t)
  \/ \E u \in Users : ReleaseLast(u) \/ chRegFirstThread(u)
  \/ \E t \in Areas : chThdExit(t)

ThdSpec == ThdInit /\ [][ThdNext]_thdvars

-----------------------------------------------------------------------------
(* Properties *)

\* The life of a thread is accounted for, whatever the order of its exit, the
\* waits for it, the releases and the scans of the registry that pass over it.
\* Its counter is the number of references; no reference leads to memory that
\* has been given back; the registry lists each thread whose memory is in use
\* once, and no other.
LifeAccounted ==
  /\ \A t \in Areas : refs[t] = References(t) + One(t = main)
  /\ \A t \in Areas : refs[t] > 0 => life[t] # "none"
  /\ Range(registry) = {t \in Areas : life[t] # "none"}
  /\ IsInjective(registry)

=============================================================================
