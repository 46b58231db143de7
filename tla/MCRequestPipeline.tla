------------------------- MODULE MCRequestPipeline -------------------------
(* A small instance of RequestPipeline for TLC. *)
EXTENDS RequestPipeline

CONSTANTS local, p1, p2, n1, n2, n3

MCPeer == {local, p1, p2}

MCRoles(ra, rb) == [p \in MCPeer |-> CASE p = p1 -> ra [] p = p2 -> rb [] OTHER -> NoRole]

\* A list of supernodes with p1 and p2 that many times.
Times(k1, k2) == [p \in MCPeer |-> CASE p = p1 -> k1 [] p = p2 -> k2 [] OTHER -> 0]

List(version, supernodes, ra, rb, pending, signature) ==
    [version |-> version, supernodes |-> supernodes, allowed |-> MCRoles(ra, rb),
     pending |-> pending, policies |-> Switches \ {"unknown_peers"}, signature |-> signature]

\* Second names p2 twice, and stages p1 which has a role; Edited is a list whose
\* supernodes were changed by hand.
First == List(1, Times(0, 0), "Gateway", NoRole, {}, NoSignature)
Second == List(2, Times(0, 2), "Gateway", NoRole, {p1}, <<2, Times(0, 2)>>)
Edited == List(3, Times(1, 1), "Client", "Client", {}, <<2, Times(0, 2)>>)

MCFiles == {First, Second, Edited, NoFile}

MCPolicyFile == [peers |-> {}, actions |-> {"Connect", "GatewayAccess", "WebTraffic"}]

GatewayRequests(p, nonces) ==
    {Signed(Plain("gateway_request", p, local, 0, TRUE), n) : n \in nonces}

Onboarding(p, n, ok) == Signed(Plain("onboard_request", p, local, 0, ok), n)

Scenario(mail, f, n) == [mail |-> mail, file |-> f, budget |-> n]

MCScenarios ==
    {Scenario(GatewayRequests(p1, {n1, n2, n3}), First, 0),
     Scenario({Onboarding(p1, n1, TRUE), Onboarding(p1, n2, FALSE), Onboarding(p2, n3, TRUE)},
              First, 0),
     Scenario({BuildRequestBytes(p1, local, n1, n2, 1), BuildResponseOk(p1, local, n3, 0)},
              Edited, 1),
     Scenario({[BuildResponseOk(p1, local, n1, 0) EXCEPT !.inner = n2]}, First, 2),
     Scenario({BuildConfigRequest(p1, local, n1, 0), BuildConfigResponseOk(p1, local, n2, 1),
               BuildConfigResponseError(p2, local, n3, 0)}, First, 0),
     Scenario({BuildGatewayResponseOk(p1, local, n1, 0), BuildWebResponseOk(p1, p2, n2, 0),
               Signed(Plain("web_request", p1, local, 1, TRUE), n3)}, First, 0),
     Scenario({BuildRequest(p1, local, n1, 0), Plain("direct_response", p2, local, 0, TRUE),
               [BuildRequest(p2, local, n3, 0) EXCEPT !.signature = Garbled]}, NoFile, 0)}
=============================================================================
