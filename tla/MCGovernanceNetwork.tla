------------------------ MODULE MCGovernanceNetwork ------------------------
(* Model of GovernanceNetwork: the constants are in MCGovernanceNetwork.cfg. *)
EXTENDS GovernanceNetwork
=============================================================================
