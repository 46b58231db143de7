-------------------------- MODULE MCGovernanceNode --------------------------
(* Model of GovernanceNode.  The supernodes other than the local node and the *)
(* proposal ids are interchangeable.                                          *)
EXTENDS GovernanceNode, TLC

Symmetry == Permutations(Voters \ {Local}) \cup Permutations(Ids)
=============================================================================
