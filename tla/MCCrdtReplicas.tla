--------------------------- MODULE MCCrdtReplicas ---------------------------
(* Model of CrdtReplicas: the constants are given in the .cfg files. *)
EXTENDS CrdtReplicas
=============================================================================
