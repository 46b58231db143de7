-------------------------- MODULE SecurityRuntime --------------------------
(***************************************************************************)
(* src/security_runtime.rs: how messages between nodes are built and       *)
(* verified, and the policy that is checked beside the authority.  A       *)
(* verification is a record: whether it returns Ok, and the replay state   *)
(* it leaves behind either way.  No caller tells the errors apart.         *)
(***************************************************************************)
EXTENDS RequestGuards

CONSTANTS
    Local,          \* this node
    Garbled         \* a signature that is not base64

ASSUME RuntimeAssumption ==
    /\ Local \in Peer
    /\ NoSignature \notin Peer /\ Garbled \notin Peer \cup {NoSignature}

Kinds == {"direct_request", "direct_response", "config_request", "config_response",
          "gateway_request", "gateway_response", "web_request", "web_response",
          "onboard_request"}

\* A message.  A signature is modelled by its signer and is over the content;
\* inner is the nonce of the ConfigRequest or ConfigResponse in the body of a
\* direct message, NoNonce if there is none; ok is the ok flag of a response, of
\* a web request whether its namespace is supported, and of an onboarding
\* request whether its public key is the bare 32 bytes.
Messages ==
    [kind : Kinds, from : Peer, to : Peer, nonce : Nonces, inner : Nonces, ts : Nat,
     ok : BOOLEAN, signature : Peer \cup {NoSignature, Garbled}]

-----------------------------------------------------------------------------
(* Builders: plain_*, then a random nonce, the time and a signature *)

\* DirectRequest::plain and the other plain constructors.
Plain(kind, from, to, ts, ok) ==
    [kind |-> kind, from |-> from, to |-> to, nonce |-> NoNonce, inner |-> NoNonce,
     ts |-> ts, ok |-> ok, signature |-> NoSignature]

\* sign_data over the message with its nonce
Signed(m, nonce) == [m EXCEPT !.nonce = nonce, !.signature = m.from]

BuildRequest(from, to, nonce, ts) ==
    Signed(Plain("direct_request", from, to, ts, TRUE), nonce)

\* The body is the serialized ConfigRequest that send_config_sync built.
BuildRequestBytes(from, to, nonce, inner, ts) ==
    Signed([Plain("direct_request", from, to, ts, TRUE) EXCEPT !.inner = inner], nonce)

BuildResponseOk(from, to, nonce, ts) ==
    Signed(Plain("direct_response", from, to, ts, TRUE), nonce)

BuildResponseError(from, to, nonce, ts) ==
    Signed(Plain("direct_response", from, to, ts, FALSE), nonce)

BuildConfigRequest(from, to, nonce, ts) ==
    Signed(Plain("config_request", from, to, ts, TRUE), nonce)

BuildConfigResponseOk(from, to, nonce, ts) ==
    Signed(Plain("config_response", from, to, ts, TRUE), nonce)

BuildConfigResponseError(from, to, nonce, ts) ==
    Signed(Plain("config_response", from, to, ts, FALSE), nonce)

BuildGatewayResponseOk(from, to, nonce, ts) ==
    Signed(Plain("gateway_response", from, to, ts, TRUE), nonce)

BuildGatewayResponseError(from, to, nonce, ts) ==
    Signed(Plain("gateway_response", from, to, ts, FALSE), nonce)

BuildWebResponseOk(from, to, nonce, ts) ==
    Signed(Plain("web_response", from, to, ts, TRUE), nonce)

BuildWebResponseError(from, to, nonce, ts) ==
    Signed(Plain("web_response", from, to, ts, FALSE), nonce)

-----------------------------------------------------------------------------
(* Verifiers *)

\* verify_signature_format
WellFormed(m) == m.signature # Garbled

\* The key of p is registered, the signature decodes and is p's.
KeyVerifies(keys, p, m) == p \in keys /\ m.signature = p

ForUs(p, m) == m.to = Local /\ m.from = p

Verified(r, p, m, t, checks) ==
    [ok     |-> Admits(r, p, m.nonce, m.ts, t) /\ checks,
     replay |-> CheckCommon(r, p, m.nonce, m.ts, t)]

VerifyRequest(r, keys, p, m, t) ==
    Verified(r, p, m, t, KeyVerifies(keys, p, m) /\ ForUs(p, m))

VerifyResponseBytes(r, keys, p, m, t) ==
    Verified(r, p, m, t, KeyVerifies(keys, p, m) /\ ForUs(p, m))

VerifyConfigRequest(r, keys, p, m, t) ==
    Verified(r, p, m, t, ForUs(p, m) /\ KeyVerifies(keys, p, m))

\* An error response is an Err for the caller.
VerifyConfigResponse(r, keys, p, m, t) ==
    Verified(r, p, m, t, ForUs(p, m) /\ KeyVerifies(keys, p, m) /\ m.ok)

\* Neither of the two looks at the names of sender and receiver.
VerifyGatewayRequest(r, keys, p, m, t) == Verified(r, p, m, t, KeyVerifies(keys, p, m))

VerifyWebRequest(r, keys, p, m, t) == Verified(r, p, m, t, KeyVerifies(keys, p, m))

VerifyGatewayResponse(r, keys, p, m, t) ==
    Verified(r, p, m, t, ForUs(p, m) /\ KeyVerifies(keys, p, m))

VerifyWebResponse(r, keys, p, m, t) ==
    Verified(r, p, m, t, ForUs(p, m) /\ KeyVerifies(keys, p, m))

\* The serialized message in the body of the direct message m.
Embedded(m, kind) == [m EXCEPT !.kind = kind, !.nonce = m.inner, !.inner = NoNonce]

-----------------------------------------------------------------------------
(* Policy *)

\* allowed_peers and allowed_actions of PolicyConfig
Policies == [peers : SUBSET Peer, actions : SUBSET Actions]

\* apply_config_bundle
ApplyBundle(policy, bundle) == [policy EXCEPT !.peers = @ \cup bundle]

VerifyAccess(policy, action) == action \in policy.actions

VerifyPeer(policy, a, p) == p \in policy.peers \/ EvaluateAction(a, p, "Connect")

\* NetworkController::enforce; the runtime and the controller hold the same
\* authority.
Enforce(quarantined, policy, a, p, action) ==
    /\ p \notin quarantined
    /\ VerifyAccess(policy, action)
    /\ EvaluateAction(a, p, action)

\* enforce_peer
EnforcePeer(quarantined, policy, a, p) ==
    Enforce(quarantined, policy, a, p, "Connect") /\ VerifyPeer(policy, a, p)

\* enforce_gateway_peer: validate_gateway_access, validate_gateway_route, enforce
EnforceGatewayPeer(quarantined, policy, a, p) ==
    /\ EvaluateAction(a, p, "GatewayAccess")
    /\ EvaluateAction(a, p, "Route") /\ GetRole(a, p) # NoRole
    /\ Enforce(quarantined, policy, a, p, "GatewayAccess")
=============================================================================
