--------------------------- MODULE GovernanceNode ---------------------------
(***************************************************************************)
(* Peer activation by vote on one node: the onboarding and the governance  *)
(* handlers of src/network/runtime/events.rs and governance.rs, the engine *)
(* they drive and the part of WorldState they write.  One task runs the    *)
(* event loop and awaits each handler, so a handler is one action; it may  *)
(* take time (every awaited send gives up after 10 s), so the clock at its *)
(* end is any value.  Votes and announcements arrive in any order, any     *)
(* number of times, or never.                                              *)
(***************************************************************************)
EXTENDS GovernanceEngine

CONSTANTS
    Local,          \* this node's peer id
    VoteTimeout,    \* 600: the timeout the handlers pass to check_quorum
    MaxTime,        \* bound on the clock
    NoCert          \* activation_cert = None

ASSUME NodeAssumption ==
    /\ Local \in Voters
    /\ VoteTimeout \in Nat /\ MaxTime \in Nat
    /\ \A S \in SUBSET Voters : S # NoCert

VARIABLES
    authority,  \* supernodes of the authority state, read from its file
    eng,        \* controller.governance_engine
    registry,   \* peers with an entry in WorldState.peer_registry
    flags,      \* WorldState.activated_peers
    file,       \* data/activated_peers.json
    cert,       \* the signers in each peer's activation_cert
    now         \* now_secs()

vars == <<authority, eng, registry, flags, file, cert, now>>
world == <<registry, flags, file, cert>>

NodeTypeOK ==
    /\ authority \in SUBSET Voters
    /\ eng \in Engine
    /\ registry \in SUBSET Targets
    /\ flags \in SUBSET Targets
    /\ file \in SUBSET Targets
    /\ cert \in [Targets -> (SUBSET Voters) \cup {NoCert}]
    /\ now \in Nat

\* run_with_dashboard_and_authority: a new engine with the authority's list;
\* no hmac key is set on it, so none of its methods saves anything.
Boot(list, time) == New(list, time)

Init ==
    /\ authority \in SUBSET Voters
    /\ now \in 0..MaxTime
    /\ eng = Boot(authority, now)
    /\ registry = {} /\ flags = {} /\ file = {}
    /\ cert = [p \in Targets |-> NoCert]

-----------------------------------------------------------------------------
(* WorldState *)

IsPeerActivated(p) == p \in flags /\ p \in registry /\ cert[p] # NoCert

\* mark_peer_activated; the error of a write that fails is dropped, and a file
\* that was cut short is read as one without flags.
MarkPeerActivated(p) ==
    /\ flags' = flags \cup {p}
    /\ file' \in {flags \cup {p}, file, {}}

\* The certificate is only kept for a peer that has a registry entry.
StoreCert(p, signers) ==
    cert' = IF p \in registry THEN [cert EXCEPT ![p] = signers] ELSE cert

-----------------------------------------------------------------------------
(* Handlers *)

\* Mutant: only an approval marks the proposal executed.
SettleApprovals(e, id, time) ==
    IF Verdict(e.proposals[id], VoteTimeout, time) = "approve"
    THEN MarkExecuted(e, id, time) ELSE e

\* What both vote-taking handlers do with the engine e after a vote on id.
Settle(e, id, time) ==
    IF Verdict(e.proposals[id], VoteTimeout, time) = "none"
    THEN e ELSE MarkExecuted(e, id, time)

Approved(e, id, time) == Verdict(e.proposals[id], VoteTimeout, time) = "approve"

\* An onboarding request of p whose identity verified: mark p, open a proposal,
\* announce it, vote for it, send the vote, check the quorum.  Announcements and
\* votes are awaited, so the clock is read anew for the vote and for the check.
Onboard(p, id, voted, later) ==
    LET e == RecordVote(CreateProposal(eng, id, p, now), id, Local, "yes", voted)
    IN  /\ ~Known(eng, id)
        /\ eng' = Settle(e, id, later)
        /\ MarkPeerActivated(p)
        /\ IF Approved(e, id, later)
           THEN StoreCert(p, Yes(e.proposals[id])) ELSE UNCHANGED cert
        /\ now' = later
        /\ UNCHANGED <<authority, registry>>

\* A governance.vote request with a valid signature.
VoteRequest(id, voter, ballot) ==
    LET b == EvaluateBootstrap(eng, now)
        e == RecordVote(eng, id, voter, ballot, now)
        target == e.proposals[id].target
    IN  /\ voter \in authority
        /\ UNCHANGED <<authority, registry, now>>
        /\ IF AcceptsVote(b, id, voter)
           THEN /\ eng' = Settle(e, id, now)
                /\ IF Approved(e, id, now)
                   THEN MarkPeerActivated(target) /\ StoreCert(target, Yes(e.proposals[id]))
                   ELSE UNCHANGED <<flags, file, cert>>
           ELSE eng' = e /\ UNCHANGED <<flags, file, cert>>

\* A governance.announce request: a proposal under an id of this node's own.
AnnounceRequest(announced, id, target) ==
    /\ announced # id
    /\ ~Known(eng, announced) /\ ~Known(eng, id)
    /\ eng' = CreateProposal(eng, id, target, now)
    /\ UNCHANGED <<authority, world, now>>

\* A governance.activation_notify request; set_peer_role makes a registry entry.
ActivationNotify(target) ==
    /\ MarkPeerActivated(target)
    /\ registry' = registry \cup {target}
    /\ UNCHANGED <<authority, eng, cert, now>>

-----------------------------------------------------------------------------
(* Environment *)

\* Mutant: the entry of a known peer is replaced by a new one.
PeerSeenAnew(p) ==
    /\ registry' = registry \cup {p}
    /\ cert' = [cert EXCEPT ![p] = NoCert]
    /\ UNCHANGED <<authority, eng, flags, file, now>>

\* A connection or Identify event enters the peer in the registry.
PeerSeen(p) ==
    /\ registry' = registry \cup {p}
    /\ UNCHANGED <<authority, eng, flags, file, cert, now>>

\* refresh_from_file installs another list; the engine keeps the old one.
AuthorityChanges(list) ==
    /\ authority' = list
    /\ UNCHANGED <<eng, world, now>>

ClockChanges ==
    /\ now' \in 0..MaxTime
    /\ UNCHANGED <<authority, eng, world>>

\* The process stops and starts again: the registry, and the certificates in
\* it, are not part of any snapshot; the flags are read back.
Restart ==
    /\ eng' = Boot(authority, now)
    /\ registry' = {}
    /\ flags' = file
    /\ cert' = [p \in Targets |-> NoCert]
    /\ UNCHANGED <<authority, file, now>>

Next ==
    \/ \E p \in Targets, id \in Ids, voted, later \in 0..MaxTime : Onboard(p, id, voted, later)
    \/ \E id \in Ids, voter \in Voters, ballot \in Ballot : VoteRequest(id, voter, ballot)
    \/ \E announced, id \in Ids, p \in Targets : AnnounceRequest(announced, id, p)
    \/ \E p \in Targets : ActivationNotify(p)
    \/ \E p \in Targets : PeerSeen(p)
    \/ \E list \in SUBSET Voters : AuthorityChanges(list)
    \/ ClockChanges
    \/ Restart

Spec == Init /\ [][Next]_vars

-----------------------------------------------------------------------------
(* Properties *)

ApprovedBy(p) == ReachesQuorum(Yes(p), p.supernode_count)
RejectedBy(p) == ReachesQuorum(No(p), p.supernode_count)

\* check_quorum is never ambiguous: no proposal has a quorum of yes and a quorum
\* of no votes, so the order of its two tests decides nothing.  It rests on the
\* engine taking votes of the supernodes it was counted with, and no others.
QuorumsExclude ==
    \A id \in Ids : Known(eng, id) /\ eng.proposals[id].supernode_count > 0 =>
        ~(ApprovedBy(eng.proposals[id]) /\ RejectedBy(eng.proposals[id]))

\* The handlers miss no decision: whatever the order of requests, a proposal
\* that is still open has no quorum either way (a proposal opened while no
\* supernode was known is the exception: only a vote would close it, and nobody
\* may vote).
NoMissedQuorum ==
    \A id \in Ids : /\ Known(eng, id)
                    /\ eng.proposals[id].supernode_count > 0
                    /\ ~eng.proposals[id].executed
        => ~ApprovedBy(eng.proposals[id]) /\ ~RejectedBy(eng.proposals[id])

\* A certificate names supernodes of the running engine only, and a quorum of
\* all of them, unless there are just two (where one vote and a timeout do).
CertificateBackedByQuorum ==
    \A p \in Targets : cert[p] # NoCert =>
        /\ cert[p] \subseteq eng.supernodes
        /\ \/ ReachesQuorum(cert[p], Cardinality(eng.supernodes))
           \/ Cardinality(eng.supernodes) = 2

\* is_peer_activated, once true, stays true until the process stops: no later
\* proposal, vote, announcement or notification takes an activation back.
ActivationIsStable ==
    [][Restart \/ \A p \in Targets : IsPeerActivated(p) => IsPeerActivated(p)']_vars

\* README, Voting Flow, step 4: in bootstrap mode "a single vote is sufficient".
\* A sole supernode in bootstrap mode that onboards a peer it is connected to,
\* and votes for it, has activated it.
BootstrapVoteActivates ==
    [][\A p \in Targets, id \in Ids, voted, later \in 0..MaxTime :
          /\ Onboard(p, id, voted, later)
          /\ InBootstrap(EvaluateBootstrap(eng, now))
          /\ eng.supernodes = {Local} /\ p \in registry
          => IsPeerActivated(p)']_vars
=============================================================================
