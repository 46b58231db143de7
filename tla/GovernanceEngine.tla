-------------------------- MODULE GovernanceEngine --------------------------
(***************************************************************************)
(* The voting engine of src/governance/engine.rs as operators on a value:  *)
(* an engine is a record, every method that takes &mut self is an operator *)
(* that returns the new record.  Module Governance runs it together with   *)
(* the file of src/governance/store.rs, module GovernanceNode runs it under*)
(* the handlers of the network event loop.                                 *)
(***************************************************************************)
EXTENDS Integers, FiniteSets

CONSTANTS
    Voters,         \* every peer id that may be on a supernode list
    Targets,        \* the peers proposals are about
    Ids,            \* proposal ids (a type, a target and a fresh uuid)
    NoProposal,     \* the entry of an id that is not in the proposals map
    QuorumNum,      \* quorum_ratio = QuorumNum / QuorumDen, 0.66 in the code
    QuorumDen,
    BootstrapSecs,  \* 3600: the length of the bootstrap period
    U64             \* the modulus of the clock arithmetic, 2^64 in the code

\* The ratio is a majority: two opposite quorums share a voter.
ASSUME QuorumAssumption ==
    /\ QuorumNum \in Nat /\ QuorumDen \in Nat
    /\ QuorumNum <= QuorumDen /\ QuorumDen < 2 * QuorumNum

ASSUME SizesAssumption ==
    /\ IsFiniteSet(Voters)
    /\ BootstrapSecs \in Nat
    /\ U64 \in Nat \ {0}

-----------------------------------------------------------------------------
(* Proposals *)

\* A voter's entry of the votes map: true, false, or absent.
Ballot == {"yes", "no"}
NoBallot == "none"

Proposal == [target : Targets, created_at : Nat, supernode_count : Nat,
             votes : [Voters -> Ballot \cup {NoBallot}], executed : BOOLEAN]

ASSUME NoProposalAssumption == NoProposal \notin Proposal

NewProposal(target, now, count, executed) ==
    [target |-> target, created_at |-> now, supernode_count |-> count,
     votes |-> [v \in Voters |-> NoBallot], executed |-> executed]

\* votes.insert(voter, approve): a voter's later vote replaces the earlier one.
WithVote(p, voter, ballot) == [p EXCEPT !.votes[voter] = ballot]

AsExecuted(p) == [p EXCEPT !.executed = TRUE]

Yes(p) == {v \in Voters : p.votes[v] = "yes"}
No(p)  == {v \in Voters : p.votes[v] = "no"}

\* votes / total >= quorum_ratio, for a total that is not zero.
ReachesQuorum(votes, total) == Cardinality(votes) * QuorumDen >= QuorumNum * total

\* now_secs() - created_at on u64: a clock that was set back wraps around.
Elapsed(p, now) == (now - p.created_at) % U64

\* Mutant: the timeout applies whatever the number of supernodes.
LoneVoteExpiredAnyCount(p, timeout, now) ==
    /\ Cardinality(Yes(p) \cup No(p)) = 1
    /\ Elapsed(p, now) > timeout

\* With two supernodes and one vote, silence of the other approves.
LoneVoteExpired(p, timeout, now) ==
    /\ p.supernode_count = 2
    /\ Cardinality(Yes(p) \cup No(p)) = 1
    /\ Elapsed(p, now) > timeout

\* None, Some(true) or Some(false) of check_quorum for a proposal that exists.
Verdict(p, timeout, now) ==
    IF p.executed THEN "none"
    ELSE IF p.supernode_count = 0 THEN "reject"
    ELSE IF ReachesQuorum(Yes(p), p.supernode_count) THEN "approve"
    ELSE IF ReachesQuorum(No(p), p.supernode_count) THEN "reject"
    ELSE IF LoneVoteExpired(p, timeout, now) THEN "approve"
    ELSE "none"

-----------------------------------------------------------------------------
(* The engine *)

Proposals == [Ids -> Proposal \cup {NoProposal}]

Snapshot == [proposals : Proposals, exited : BOOLEAN]

Engine == [proposals : Proposals, supernodes : SUBSET Voters,
           mode : BOOLEAN, exited : BOOLEAN, deadline : Nat, keyed : BOOLEAN]

\* Mutant: the deadline lies before the start.
NewAlreadyOver(supernodes, now) ==
    [proposals |-> [i \in Ids |-> NoProposal], supernodes |-> supernodes,
     mode |-> Cardinality(supernodes) < 2, exited |-> FALSE,
     deadline |-> now - BootstrapSecs, keyed |-> FALSE]

New(supernodes, now) ==
    [proposals |-> [i \in Ids |-> NoProposal], supernodes |-> supernodes,
     mode |-> Cardinality(supernodes) < 2, exited |-> FALSE,
     deadline |-> now + BootstrapSecs, keyed |-> FALSE]

\* proposals.get(id) is Some.
Known(e, id) == e.proposals[id] # NoProposal

\* Mutant: the deadline is never looked at.
EvaluateBootstrapNever(e, now) == e

EvaluateBootstrap(e, now) ==
    IF e.mode /\ now > e.deadline
    THEN [e EXCEPT !.mode = FALSE, !.exited = TRUE]
    ELSE e

InBootstrap(e) == e.mode /\ ~e.exited

\* Mutant: the count leaves out one supernode.
CreateProposalCountsOthers(e, id, target, now) ==
    LET b == EvaluateBootstrap(e, now)
        count == Cardinality(b.supernodes) - 1
    IN  [b EXCEPT !.proposals[id] = NewProposal(target, now, count, InBootstrap(b))]

CreateProposal(e, id, target, now) ==
    LET b == EvaluateBootstrap(e, now)
        count == IF InBootstrap(b) THEN 1 ELSE Cardinality(b.supernodes)
    IN  [b EXCEPT !.proposals[id] = NewProposal(target, now, count, InBootstrap(b))]

\* Mutants: a vote on an executed proposal is taken; a vote of anybody is.
AcceptsLateVote(e, id, voter) == Known(e, id) /\ voter \in e.supernodes
AcceptsEveryVote(e, id, voter) == Known(e, id)

\* record_vote returns Ok.
AcceptsVote(e, id, voter) ==
    /\ Known(e, id)
    /\ ~e.proposals[id].executed
    /\ voter \in e.supernodes

RecordVote(e, id, voter, ballot, now) ==
    LET b == EvaluateBootstrap(e, now)
    IN  IF AcceptsVote(b, id, voter)
        THEN [b EXCEPT !.proposals[id] = WithVote(b.proposals[id], voter, ballot)]
        ELSE b

MarkExecuted(e, id, now) ==
    LET b == EvaluateBootstrap(e, now)
    IN  IF Known(b, id)
        THEN [b EXCEPT !.proposals[id] = AsExecuted(b.proposals[id])]
        ELSE b

\* Mutant: the bootstrap mode is not recomputed.
UpdateSupernodesKeepsMode(e, list, now) ==
    LET b == EvaluateBootstrap(e, now)
        leaves == Cardinality(list) >= 2 /\ Cardinality(b.supernodes) < 2
    IN  [b EXCEPT !.supernodes = list, !.exited = b.exited \/ leaves]

UpdateSupernodes(e, list, now) ==
    LET b == EvaluateBootstrap(e, now)
        count == Cardinality(list)
        leaves == count >= 2 /\ Cardinality(b.supernodes) < 2
    IN  [b EXCEPT !.supernodes = list,
                  !.exited = b.exited \/ leaves,
                  !.mode = count < 2 /\ ~b.exited]

TakeSnapshot(e) == [proposals |-> e.proposals, exited |-> e.exited]

\* Mutant: the exit from bootstrap mode is not restored.
RestoreForgetsExit(snapshot, now) ==
    [New({}, now) EXCEPT !.proposals = snapshot.proposals]

\* restore_from_snapshot on the engine load_governance creates: no supernodes,
\* no key, a new deadline; the bootstrap mode of the saved engine is not kept.
Restore(snapshot, now) ==
    [New({}, now) EXCEPT !.proposals = snapshot.proposals,
                         !.exited = snapshot.exited]
=============================================================================
