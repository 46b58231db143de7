------------------------------ MODULE MCGhost ------------------------------
(* Model of Ghost: the other constants are given in MCGhost.cfg. *)
EXTENDS Ghost

\* A decision to sleep may lag behind what is decided later, to wake among it.
MCMaxSpawned == [p \in Program |-> IF p = "Sleep" THEN 1 ELSE 0]
=============================================================================
