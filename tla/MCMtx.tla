------------------------------- MODULE MCMtx -------------------------------
(* Instances of ChMtx for TLC. *)
EXTENDS ChMtx, TLC

CONSTANTS hi, mid, lo, low, A, B

MCThreads == {hi, mid, lo, idle}
FourThreads == {hi, mid, lo, low, idle}
MCMutexes == {A, B}
MCBasePrio == (hi :> 4) @@ (mid :> 3) @@ (lo :> 2) @@ (idle :> 1)
FourPrio == (hi :> 5) @@ (mid :> 4) @@ (lo :> 3) @@ (low :> 2) @@ (idle :> 1)
\* hi and mid are peers.
PeersPrio == (hi :> 3) @@ (mid :> 3) @@ (lo :> 2) @@ (idle :> 1)
AscendingOrder == {<<A, B>>}

=============================================================================
