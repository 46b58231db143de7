----------------------------- MODULE Authority -----------------------------
(***************************************************************************)
(* src/authority.rs: the signed list of supernodes, the roles of peers and *)
(* what a role may do.  An authority state is a value; every method of     *)
(* AuthorityManager holds the lock for as long as it reads or writes it.   *)
(***************************************************************************)
EXTENDS Naturals

CONSTANTS
    Peer,           \* the peer ids a list can name
    NoRole,         \* get_role = None
    NoSignature,    \* an empty signature
    NoFile,         \* data/authority.bin is missing
    Required        \* required_confirmations

ASSUME AuthorityAssumption ==
    /\ Required \in Nat

Roles == {"Blocked", "Observer", "Client", "Standard", "Gateway", "Validator", "Supernode"}

\* The derived order of NodeRole.
Rank == [Blocked |-> 0, Observer |-> 1, Client |-> 2, Standard |-> 3,
         Gateway |-> 4, Validator |-> 5, Supernode |-> 6]

Actions == {"Connect", "Route", "GatewayAccess", "GatewayEgress", "WebTraffic",
            "AdminUpdate", "ComputeSubmit"}

\* The fields of PermissionPolicy that decide something.
Switches == {"unknown_peers", "gateway_traffic", "route_transit", "web_traffic"}

\* The supernodes field is a Vec that may repeat a peer: how often it names each.
\* The order is left out, since compute_hash sorts and everything else searches.
Lists == [Peer -> Nat]

\* What sort and dedup leave of a list.
Canonical(list) == [p \in Peer |-> IF list[p] > 0 THEN 1 ELSE 0]

\* compute_hash covers the version, the issuer, which nothing changes, and the
\* supernodes, every repeat included; a signature is modelled by the hash that
\* was signed.
Digests == Nat \X Lists

AuthorityStates ==
    [version : Nat, supernodes : Lists, allowed : [Peer -> Roles \cup {NoRole}],
     pending : SUBSET Peer, policies : SUBSET Switches,
     signature : Digests \cup {NoSignature}]

ComputeHash(a) == <<a.version, a.supernodes>>

\* AuthorityState::verify with the root key.
SignatureVerifies(a) == a.signature # NoSignature /\ a.signature = ComputeHash(a)

\* default_authority
DefaultAuthority ==
    [version |-> 1, supernodes |-> [p \in Peer |-> 0],
     allowed |-> [p \in Peer |-> NoRole], pending |-> {},
     policies |-> Switches \ {"unknown_peers"}, signature |-> NoSignature]

\* The supernodes a list names.
Named(a) == {p \in Peer : a.supernodes[p] > 0}

GetRole(a, p) == IF p \in Named(a) THEN "Supernode" ELSE a.allowed[p]

AtLeast(role, bound) == Rank[role] >= Rank[bound]

CheckRolePermission(a, role, action) ==
    CASE action = "Connect"       -> Rank[role] > Rank["Blocked"]
      [] action = "Route"         -> "route_transit" \in a.policies /\ AtLeast(role, "Gateway")
      [] action \in {"GatewayAccess", "GatewayEgress"} ->
             "gateway_traffic" \in a.policies /\ AtLeast(role, "Gateway")
      [] action = "AdminUpdate"   -> AtLeast(role, "Validator")
      [] action = "WebTraffic"    -> "web_traffic" \in a.policies
      [] action = "ComputeSubmit" -> AtLeast(role, "Client")

EvaluateAction(a, p, action) ==
    LET role == GetRole(a, p)
    IN  CASE role = "Blocked"   -> FALSE
          [] role = "Supernode" -> TRUE
          [] role = NoRole      -> "unknown_peers" \in a.policies
          [] OTHER              -> CheckRolePermission(a, role, action)

\* Mutant: the signature of the new state is not looked at.
UpdateStateUnverified(a, new) == IF new.version > a.version THEN new ELSE a

UpdateState(a, new) ==
    IF SignatureVerifies(new) /\ new.version > a.version THEN new ELSE a

\* Mutant: any state that verifies is taken, an older one too.
RefreshAnyVersion(a, file) ==
    IF file # NoFile /\ SignatureVerifies(file) THEN file ELSE a

\* refresh_from_file: a missing file, an old version and a bad signature all
\* leave the state as it is.
RefreshFromFile(a, file) == IF file = NoFile THEN a ELSE UpdateState(a, file)

\* apply_config_bundle stages the peers that have no role of their own.
ApplyConfigBundle(a, peers) ==
    [a EXCEPT !.pending = @ \cup {p \in peers : a.allowed[p] = NoRole}]

\* confirm_pending_peers counts the confirmations it is given, and does not ask
\* whether the peer has a role.  canonicalize dedups the supernodes, whether or
\* not the signature was over the list with its repeats; the hash it stores is
\* never read.
ConfirmPendingPeers(a, p, confirmations) ==
    IF confirmations >= Required /\ p \in a.pending
    THEN [a EXCEPT !.pending = @ \ {p}, !.allowed[p] = "Client",
                   !.supernodes = Canonical(@)]
    ELSE a

\* bootstrap_authority and what bootstrap_runtime does with its result: a
\* missing file is written with the default state, any other is loaded without
\* a look at its signature.  The branch that would take AUTHORITY_SUPERNODES
\* asks whether the file is missing after it has been written, so it is dead.
BootAuthority(file) == IF file = NoFile THEN DefaultAuthority ELSE file
=============================================================================
