------------------------------- MODULE MCSem -------------------------------
(* Instances of ChSem for TLC. *)
EXTENDS ChSem

CONSTANTS hi, mid, lo, S, T

ThreeThreads == {hi, mid, lo, idle}
\* mid and lo are peers.
PeersPrio == [t \in Threads |-> CASE t = hi         -> 3
                                  [] t \in {mid, lo} -> 2
                                  [] t = idle       -> 1]
SemsOnly == {S, T}

=============================================================================
