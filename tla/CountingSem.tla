---------------------------- MODULE CountingSem ----------------------------
(***************************************************************************)
(* What a semaphore of ChibiOS/RT promises, without queues, counters that  *)
(* go negative, priorities or interrupt handlers: units that are there or  *)
(* are not, and the threads that wait for one.                             *)
(***************************************************************************)
EXTENDS Integers, FiniteSets

CONSTANTS
  Threads,
  MaxPost      \* bound: units that one operation makes available

VARIABLES
  value,       \* units that are available
  waiting      \* threads that wait for a unit

vars == <<value, waiting>>

Init == value \in 0 .. MaxPost /\ waiting = {}

Take == value > 0 /\ value' = value - 1 /\ UNCHANGED waiting

Block(t) ==
  /\ value = 0 /\ t \notin waiting
  /\ waiting' = waiting \cup {t} /\ UNCHANGED value

\* n new units: every waiter that can get one gets one, the rest is available.
Post(n) ==
  \E S \in SUBSET waiting :
    /\ Cardinality(S) = IF n < Cardinality(waiting) THEN n ELSE Cardinality(waiting)
    /\ waiting' = waiting \ S
    /\ value' = value + n - Cardinality(S)

\* A thread stops waiting without a unit.
Expire(t) == t \in waiting /\ waiting' = waiting \ {t} /\ UNCHANGED value

\* Every waiter leaves without a unit.
Reset(n) == waiting' = {} /\ value' = n

\* One new unit goes to a waiter and the thread that provided it waits.
Swap(t) ==
  \E x \in waiting :
    t \notin waiting /\ waiting' = (waiting \ {x}) \cup {t} /\ UNCHANGED value

Next ==
  \/ Take
  \/ \E t \in Threads : Block(t) \/ Expire(t) \/ Swap(t)
  \/ \E n \in 1 .. MaxPost : Post(n)
  \/ \E n \in 0 .. MaxPost : Reset(n)

Spec == Init /\ [][Next]_vars

=============================================================================
