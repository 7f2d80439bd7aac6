---------------------------- MODULE AtomicStore ----------------------------
(***************************************************************************)
(* What the managed flash storage promises: a store of records that a call *)
(* changes as a whole or, when power is lost during the call, not at all.  *)
(***************************************************************************)
CONSTANTS
  Ids,       \* the record identifiers
  Values,
  NoVal,     \* the value of a record that does not exist
  NoCall

VARIABLES
  store,     \* the records that a restart would find
  goal       \* what the call in progress makes of them, or NoCall

vars == <<store, goal>>

Stores == [Ids -> Values \cup {NoVal}]

Init == store = [i \in Ids |-> NoVal] /\ goal = NoCall

Call == goal = NoCall /\ goal' \in Stores /\ UNCHANGED store

Commit == goal # NoCall /\ store' = goal /\ UNCHANGED goal

\* A call that is over has done its work.
Return == goal # NoCall /\ store = goal /\ goal' = NoCall /\ UNCHANGED store

\* Power loss, or a failure of the flash memory, ends the call.
Abort == goal # NoCall /\ goal' = NoCall /\ store' \in {store, goal}

Next == Call \/ Commit \/ Return \/ Abort

Spec == Init /\ [][Next]_vars

=============================================================================
