------------------------------ MODULE ChLists ------------------------------
(***************************************************************************)
(* The linked lists of the kernel and of the drivers, as sequences.        *)
(***************************************************************************)
EXTENDS Integers, Sequences

\* An element unlinked from the list that it is in: queue_dequeue, and the
\* same two assignments in REG_REMOVE and in chEvtUnregister.
Without(q, t) ==
  LET n == CHOOSE i \in DOMAIN q : q[i] = t
  IN  [i \in 1 .. Len(q) - 1 |-> IF i < n THEN q[i] ELSE q[i + 1]]

=============================================================================
