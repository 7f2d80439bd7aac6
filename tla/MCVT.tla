-------------------------------- MODULE MCVT --------------------------------
(* Instances of the tick-less virtual timers for TLC. *)
EXTENDS ChVT

\* Handlers that are late, where the latest deadline leaves room for that;
\* delays of the whole range of sysinterval_t with handlers that are not; and a
\* counter of fewer bits than sysinterval_t.
Late == [timedelta |-> 2, timemod |-> 16, deltamod |-> 16, delays |-> {3, 4},
         horizon |-> 6, latency |-> 1, preempts |-> TRUE]
Long == [timedelta |-> 1, timemod |-> 8, deltamod |-> 8, delays |-> {1, 3, 7},
         horizon |-> 14, latency |-> 0, preempts |-> FALSE]
Narrow == [timedelta |-> 1, timemod |-> 4, deltamod |-> 8, delays |-> {2, 5},
           horizon |-> 7, latency |-> 0, preempts |-> TRUE]
CoreConfigs == {Late, Long, Narrow}

=============================================================================
