------------------------- MODULE MCComputeScheduler -------------------------
(* Model of ComputeScheduler: the constants are given in the .cfg files. *)
EXTENDS ComputeScheduler
=============================================================================
