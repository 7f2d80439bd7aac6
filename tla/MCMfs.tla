------------------------------- MODULE MCMfs -------------------------------
(* Instances of the managed flash storage for TLC. *)
EXTENDS Mfs

CONSTANTS small, large

\* One record data is as long as a header, the other three times as long.
TwoSizes == small :> 1 @@ large :> 3

=============================================================================
