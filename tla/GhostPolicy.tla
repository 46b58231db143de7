----------------------------- MODULE GhostPolicy -----------------------------
(***************************************************************************)
(* What the ghost runtime decides: the health score of src/ghost_health.rs *)
(* and the policy of src/ghost_policy.rs, with the default policy.  A      *)
(* health snapshot has the fields the score reads.                         *)
(***************************************************************************)
EXTENDS Integers

CONSTANTS
    ThrottlePeers,  \* throttle_connected_peer_threshold, 64
    DegradePeers    \* degrade_peer_threshold, 128

ASSUME PolicyAssumption == ThrottlePeers \in Nat /\ DegradePeers \in Nat

Role == {"supernode", "relay", "client"}
Snapshot == [role : Role, connected : Nat, trusted : Nat, bootstrap : BOOLEAN,
             gateway : BOOLEAN, web : BOOLEAN, config : BOOLEAN,
             tamper : BOOLEAN, disconnect : BOOLEAN]

HasTrustedPath(s) == s.bootstrap \/ s.gateway \/ s.web \/ s.trusted > 0
IsNetworkReachable(s) == s.connected > 0 \/ HasTrustedPath(s)
IsOperational(s) == s.config /\ IsNetworkReachable(s) /\ ~s.tamper

If(b, n) == IF b THEN n ELSE 0

HealthScore(s) ==
    IF s.tamper THEN 0
    ELSE 40 + If(IsOperational(s), 30)
            + If(s.role = "supernode" /\ s.gateway, 10)
            + If(s.role = "relay" /\ s.bootstrap, 10)
            + If(s.connected >= 2, 10)
            - If(s.disconnect, 10)

Level(s) ==
    IF HealthScore(s) >= 85 THEN "Healthy"
    ELSE IF HealthScore(s) >= 45 THEN "Degraded"
    ELSE "Critical"

\* assess: the level and what it recommends to an engine in state current.
AssessHealth(s, current) ==
    [level |-> Level(s),
     recommendation |->
        CASE Level(s) = "Critical" -> "Panic"
          [] Level(s) = "Degraded" -> "Beacon"
          [] Level(s) = "Healthy" ->
               IF s.connected > 0 THEN "StayAwake"
               ELSE IF current = "Sleep" THEN "Wake" ELSE "Sleep"]

DecideHealth(current, a) ==
    CASE a.level = "Critical" -> "Panic"
      [] a.level = "Degraded" ->
           IF a.recommendation \in {"Beacon", "Wake"} THEN a.recommendation
           ELSE "Noop"
      [] a.level = "Healthy" ->
           IF a.recommendation = "Sleep" THEN "Sleep"
           ELSE IF current = "Sleep" THEN "Wake"
           ELSE "Noop"

\* A latency event is the two cases the policy tells apart.
EvaluateEvent(kind) ==
    CASE kind = "AuthorityViolation" -> "IsolatePeer"
      [] kind = "SecurityReject" -> "Retry"
      [] kind = "VeryHighLatency" -> "Throttle"
      [] kind = "RoutePressure" -> "Reroute"
      [] kind = "AnomalyDetected" -> "Sync"
      [] OTHER -> "Noop"

\* Scores in hundredths.
EvaluateReputation(score) ==
    IF score < 10 THEN "IsolatePeer"
    ELSE IF score < 20 THEN "Reroute"
    ELSE "Noop"

EvaluateLoad(connected) ==
    IF connected >= DegradePeers THEN "Degrade"
    ELSE IF connected >= ThrottlePeers THEN "Sync"
    ELSE "Noop"
=============================================================================
