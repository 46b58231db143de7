---------------------------- MODULE MCGovernance ----------------------------
(* Model of Governance: the constants are given in MCGovernance.cfg. *)
EXTENDS Governance
=============================================================================
