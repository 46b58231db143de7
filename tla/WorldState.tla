----------------------------- MODULE WorldState -----------------------------
(***************************************************************************)
(* The peer registry of src/world_state.rs.  The registry maps every peer  *)
(* to a record; known says whether the BTreeMap has an entry, and the      *)
(* record of an unknown peer is the one or_insert_with would create.  The  *)
(* event loop only ever adds the route of a peer via that peer, so routed  *)
(* stands for routes.  Time stamps, the revision, violations and the       *)
(* activation certificate (GovernanceNode) are left out.                   *)
(***************************************************************************)
CONSTANT Keep       \* None: an argument that leaves a field as it is

PeerRoles == {"none", "peer", "supernode", "client"}

PeerStates == [known : BOOLEAN, role : PeerRoles, connected : BOOLEAN,
               trusted : BOOLEAN, routed : BOOLEAN]

Unknown == [known |-> FALSE, role |-> "none", connected |-> FALSE,
            trusted |-> FALSE, routed |-> FALSE]

Given(x, old) == IF x = Keep THEN old ELSE x

UpsertPeerState(reg, p, role, connected, trusted) ==
    [reg EXCEPT ![p] = [known     |-> TRUE,
                        role      |-> Given(role, @.role),
                        connected |-> connected,
                        trusted   |-> Given(trusted, @.trusted),
                        routed    |-> @.routed]]

SetPeerConnected(reg, p, connected) ==
    UpsertPeerState(reg, p, reg[p].role, connected, reg[p].trusted)

SetPeerTrusted(reg, p, trusted) ==
    UpsertPeerState(reg, p, reg[p].role, reg[p].connected, trusted)

AddRoute(reg, p) == IF reg[p].known THEN [reg EXCEPT ![p].routed = TRUE] ELSE reg

RemoveRoute(reg, p) == IF reg[p].known THEN [reg EXCEPT ![p].routed = FALSE] ELSE reg
=============================================================================
