------------------------------- MODULE MCCond -------------------------------
(* Instances of ChCond for TLC. *)
EXTENDS ChCond

CONSTANTS hi, mid, lo, A, B, C

ThreeThreads == {hi, mid, lo, idle}
OneMutex == {A}
TwoMutexes == {A, B}
OneMutexObjects == {A, C}
TwoMutexesObjects == {A, B, C}
MCBasePrio == [t \in Threads |-> CASE t = hi   -> 4
                                   [] t = mid  -> 3
                                   [] t = lo   -> 2
                                   [] t = idle -> 1]
NoOrder == {}
AscendingOrder == {<<A, B>>}

=============================================================================
