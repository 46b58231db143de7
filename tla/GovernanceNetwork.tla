------------------------- MODULE GovernanceNetwork -------------------------
(***************************************************************************)
(* The supernodes of one authority list and the direct requests between    *)
(* them: what the onboarding handler sends, how send_direct_message wraps  *)
(* it, and how handle_direct_request of the receiver dispatches on the     *)
(* wrapper.  The network is kind: every request is delivered, once, by a   *)
(* fair scheduler; the clock stands still, after the bootstrap period.     *)
(***************************************************************************)
EXTENDS GovernanceEngine

CONSTANT
    OnboardIds      \* the uuids the onboarding handlers draw, which bounds the
                    \* onboardings; the announce handlers draw the others

VARIABLES
    engs,       \* the engine of each supernode
    requests    \* direct requests that were sent and not yet handled

vars == <<engs, requests>>

Nodes == Voters
Now == BootstrapSecs + 1
VoteTimeout == 600

Kinds == {"message", "governance.announce", "governance.vote"}

\* A direct request on the wire: the kind of the outer DirectRequest, and the
\* kind and the content of the serialized DirectRequest that is its body.
Request == [from : Nodes, to : Nodes, kind : Kinds, inner : Kinds,
            id : Ids, target : Targets]

Init ==
    /\ engs = [n \in Nodes |-> New(Nodes, 0)]
    /\ requests = {}

\* send_direct_message: build_request_bytes makes a new request of kind
\* "message" around the bytes of the one the caller made.
Wrap(from, to, kind, id, target) ==
    [from |-> from, to |-> to, kind |-> "message", inner |-> kind,
     id |-> id, target |-> target]

SendToOthers(n, id, target) ==
    requests' = requests \cup
        {Wrap(n, m, kind, id, target) :
            m \in Nodes \ {n}, kind \in {"governance.announce", "governance.vote"}}

Settle(e, id) ==
    IF Verdict(e.proposals[id], VoteTimeout, Now) = "none"
    THEN e ELSE MarkExecuted(e, id, Now)

\* No two nodes ever draw the same uuid.
FreshId(id) == \A n \in Nodes : ~Known(engs[n], id)

Onboard(n, p, id) ==
    /\ id \in OnboardIds /\ FreshId(id)
    /\ LET e == RecordVote(CreateProposal(engs[n], id, p, Now), id, n, "yes", Now)
       IN  engs' = [engs EXCEPT ![n] = Settle(e, id)]
    /\ SendToOthers(n, id, p)

\* handle_direct_request on the outer kind; an announced proposal gets an id of
\* the receiver's own, and a request of any other kind is answered "ack".
Handle(r) ==
    /\ r \in requests
    /\ requests' = requests \ {r}
    /\ \/ /\ r.kind = "governance.announce"
          /\ IF Known(engs[r.to], r.id)
             THEN UNCHANGED engs
             ELSE \E id \in Ids \ OnboardIds :
                     /\ FreshId(id)
                     /\ engs' = [engs EXCEPT ![r.to] =
                                    CreateProposal(engs[r.to], id, r.target, Now)]
       \/ /\ r.kind = "governance.vote"
          /\ LET e == RecordVote(engs[r.to], r.id, r.from, "yes", Now)
             IN  engs' = [engs EXCEPT ![r.to] =
                             IF AcceptsVote(engs[r.to], r.id, r.from)
                             THEN Settle(e, r.id) ELSE e]
       \/ r.kind = "message" /\ UNCHANGED engs

Next ==
    \/ \E n \in Nodes, p \in Targets, id \in Ids : Onboard(n, p, id)
    \/ \E r \in requests : Handle(r)

\* Every request that was sent is handled: the network loses none, and the event
\* loop of the receiver takes the next event when a handler returns.
Fairness == \A r \in Request : WF_vars(Handle(r))

Spec == Init /\ [][Next]_vars /\ Fairness

-----------------------------------------------------------------------------
(* Properties *)

Has(n, p) == \E id \in Ids : Known(engs[n], id) /\ engs[n].proposals[id].target = p

\* README, Voting Flow, step 1: "A supernode creates a proposal -> broadcasts to
\* all supernodes".  A proposal about a peer that one supernode opened is, in
\* the end, a proposal at every supernode.
ProposalsReachSupernodes ==
    \A n, m \in Nodes, p \in Targets : Has(n, p) ~> Has(m, p)
=============================================================================
