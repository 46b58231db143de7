---------------------------- MODULE PeerReputation ----------------------------
(***************************************************************************)
(* The reputation a NetworkController keeps of a peer, scores in hundredths*)
(* (src/network_controller.rs, PeerReputation and its updates).  Latency   *)
(* and the number of successful operations are kept but never read.        *)
(***************************************************************************)
EXTENDS Integers

Reputation == [score : 0..100, quarantined : BOOLEAN]

DefaultReputation == [score |-> 50, quarantined |-> FALSE]

UpdatePeerSuccess(r) ==
    [r EXCEPT !.score = IF @ + 1 > 100 THEN 100 ELSE @ + 1]

UpdatePeerFailure(r) ==
    LET score == IF r.score < 10 THEN 0 ELSE r.score - 10
    IN  [score |-> score, quarantined |-> r.quarantined \/ score < 10]

SetPeerQuarantine(r) == [score |-> 5, quarantined |-> TRUE]
=============================================================================
