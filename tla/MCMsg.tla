------------------------------- MODULE MCMsg -------------------------------
(* Instances of ChMsg for TLC. *)
EXTENDS ChMsg

CONSTANTS hi, mid, lo, A, S

ThreeThreads == {hi, mid, lo, idle}
DistinctPrio == [t \in Threads |-> CASE t = hi   -> 4
                                     [] t = mid  -> 3
                                     [] t = lo   -> 2
                                     [] t = idle -> 1]
SemAndMutex == {A, S}

\* Upwards, so that no two threads wait for each other's answers.
Upwards == {<<lo, mid>>, <<lo, hi>>, <<mid, hi>>}

=============================================================================
