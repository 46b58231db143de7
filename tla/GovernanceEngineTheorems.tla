---------------------- MODULE GovernanceEngineTheorems ----------------------
(***************************************************************************)
(* Facts about the operators of GovernanceEngine, for every engine and     *)
(* every value of the constants: what each method returns, and what it     *)
(* leaves alone.                                                           *)
(***************************************************************************)
EXTENDS GovernanceEngine, FiniteSetTheorems, TLAPS

\* A supernode list, a set of ballots: every set of voters has a size.
LEMMA VotersCount ==
    ASSUME NEW S \in SUBSET Voters
    PROVE  IsFiniteSet(S) /\ Cardinality(S) \in Nat
BY SizesAssumption, FS_Subset, FS_CardinalityType

\* A proposal as create_proposal makes it is well typed and has no votes.
LEMMA NewProposalType ==
    ASSUME NEW t \in Targets, NEW n \in Nat, NEW c \in Nat, NEW x \in BOOLEAN
    PROVE  /\ NewProposal(t, n, c, x) \in Proposal
           /\ Yes(NewProposal(t, n, c, x)) = {} /\ No(NewProposal(t, n, c, x)) = {}
BY DEF NewProposal, Proposal, NoBallot, Yes, No

\* GovernanceEngine::new.
LEMMA NewType ==
    ASSUME NEW S \in SUBSET Voters, NEW n \in Nat
    PROVE  New(S, n) \in Engine
BY VotersCount, SizesAssumption DEF New, Engine, Proposals

\* evaluate_bootstrap only ever switches bootstrap mode off.
LEMMA EvaluateBootstrapType ==
    ASSUME NEW e \in Engine, NEW n \in Nat
    PROVE  /\ EvaluateBootstrap(e, n) \in Engine
           /\ EvaluateBootstrap(e, n).proposals = e.proposals
           /\ EvaluateBootstrap(e, n).supernodes = e.supernodes
           /\ e.exited => EvaluateBootstrap(e, n).exited
           /\ EvaluateBootstrap(e, n).mode => e.mode /\ n <= e.deadline
<1>1. CASE e.mode /\ n > e.deadline
  BY <1>1 DEF EvaluateBootstrap, Engine
<1>2. CASE ~(e.mode /\ n > e.deadline)
  <2>1. EvaluateBootstrap(e, n) = e
    BY <1>2 DEF EvaluateBootstrap
  <2>2. e.mode => n <= e.deadline
    BY <1>2 DEF Engine
  <2>3. QED
    BY <2>1, <2>2
<1>3. QED
  BY <1>1, <1>2

\* What create_proposal inserts.
Created(e, t, n) ==
    LET b == EvaluateBootstrap(e, n)
    IN  NewProposal(t, n, IF InBootstrap(b) THEN 1 ELSE Cardinality(b.supernodes),
                    InBootstrap(b))

\* The engine create_proposal leaves is an engine.
LEMMA CreatedType ==
    ASSUME NEW e \in Engine, NEW t \in Targets, NEW n \in Nat
    PROVE  Created(e, t, n) \in Proposal
<1> DEFINE b == EvaluateBootstrap(e, n)
           count == IF InBootstrap(b) THEN 1 ELSE Cardinality(b.supernodes)
<1>1. b \in Engine
  BY EvaluateBootstrapType
<1>2. count \in Nat /\ InBootstrap(b) \in BOOLEAN
  BY <1>1, VotersCount DEF Engine, InBootstrap
<1>3. QED
  BY <1>2, NewProposalType DEF Created

\* create_proposal keeps the list and adds one proposal, touching no other.
LEMMA CreateProposalFrame ==
    ASSUME NEW e \in Engine, NEW id \in Ids, NEW t \in Targets, NEW n \in Nat
    PROVE  /\ CreateProposal(e, id, t, n) \in Engine
           /\ CreateProposal(e, id, t, n).supernodes = e.supernodes
           /\ CreateProposal(e, id, t, n).mode = EvaluateBootstrap(e, n).mode
           /\ CreateProposal(e, id, t, n).exited = EvaluateBootstrap(e, n).exited
<1> DEFINE b == EvaluateBootstrap(e, n)
           p == Created(e, t, n)
<1>1. b \in Engine /\ b.supernodes = e.supernodes
  BY EvaluateBootstrapType
<1>2. p \in Proposal
  BY CreatedType
<1>3. CreateProposal(e, id, t, n) = [b EXCEPT !.proposals[id] = p]
  BY DEF CreateProposal, Created
<1> HIDE DEF b, p
<1>4. [b EXCEPT !.proposals[id] = p] \in Engine
  BY <1>1, <1>2 DEF Engine, Proposals
<1>5. QED
  BY <1>1, <1>3, <1>4 DEF b, Engine

\* create_proposal adds its proposal and touches no other.
LEMMA CreateProposalAdds ==
    ASSUME NEW e \in Engine, NEW id \in Ids, NEW t \in Targets, NEW n \in Nat
    PROVE  CreateProposal(e, id, t, n).proposals =
               [e.proposals EXCEPT ![id] = Created(e, t, n)]
<1> DEFINE b == EvaluateBootstrap(e, n)
           p == Created(e, t, n)
<1>1. b \in Engine /\ b.proposals = e.proposals
  BY EvaluateBootstrapType
<1>2. CreateProposal(e, id, t, n) = [b EXCEPT !.proposals[id] = p]
  BY DEF CreateProposal, Created
<1> HIDE DEF b, p
<1>3. [b EXCEPT !.proposals[id] = p].proposals = [b.proposals EXCEPT ![id] = p]
  BY <1>1 DEF Engine
<1>4. QED
  BY <1>1, <1>2, <1>3 DEF p

\* A vote changes one ballot of one proposal.
LEMMA BallotType ==
    ASSUME NEW p \in Proposal, NEW v \in Voters, NEW a \in Ballot
    PROVE  LET q == WithVote(p, v, a)
           IN  /\ q \in Proposal
               /\ q.target = p.target /\ q.created_at = p.created_at
               /\ q.supernode_count = p.supernode_count /\ q.executed = p.executed
               /\ Yes(q) \cup No(q) = Yes(p) \cup No(p) \cup {v}
BY DEF WithVote, Proposal, Ballot, NoBallot, Yes, No

\* Whether a vote is accepted does not depend on the bootstrap deadline.
LEMMA AcceptsVoteAnyTime ==
    ASSUME NEW e \in Engine, NEW id \in Ids, NEW v \in Voters, NEW n \in Nat
    PROVE  AcceptsVote(EvaluateBootstrap(e, n), id, v) <=> AcceptsVote(e, id, v)
BY EvaluateBootstrapType DEF AcceptsVote, Known

\* record_vote changes the proposal it accepts a vote on ...
LEMMA RecordVoteAccepted ==
    ASSUME NEW e \in Engine, NEW id \in Ids, NEW v \in Voters, NEW a \in Ballot,
           NEW n \in Nat, AcceptsVote(e, id, v)
    PROVE  /\ e.proposals[id] \in Proposal
           /\ WithVote(e.proposals[id], v, a) \in Proposal
           /\ RecordVote(e, id, v, a, n).proposals =
                  [e.proposals EXCEPT ![id] = WithVote(e.proposals[id], v, a)]
<1> DEFINE b == EvaluateBootstrap(e, n)
           q == WithVote(e.proposals[id], v, a)
<1>1. b \in Engine /\ b.proposals = e.proposals
  BY EvaluateBootstrapType
<1>2. RecordVote(e, id, v, a, n) = [b EXCEPT !.proposals[id] = q]
  BY <1>1, AcceptsVoteAnyTime DEF RecordVote
<1>3. e.proposals[id] \in Proposal
  BY DEF AcceptsVote, Known, Engine, Proposals
<1>4. q \in Proposal
  BY <1>3, BallotType
<1> HIDE DEF b, q
<1>5. [b EXCEPT !.proposals[id] = q].proposals = [e.proposals EXCEPT ![id] = q]
  BY <1>1 DEF Engine
<1>6. QED
  BY <1>2, <1>3, <1>4, <1>5 DEF q

\* ... and leaves all proposals alone when it refuses the vote.
LEMMA RecordVoteRefused ==
    ASSUME NEW e \in Engine, NEW id \in Ids, NEW v \in Voters, NEW a \in Ballot,
           NEW n \in Nat, ~AcceptsVote(e, id, v)
    PROVE  RecordVote(e, id, v, a, n) = EvaluateBootstrap(e, n)
BY AcceptsVoteAnyTime DEF RecordVote

\* Either way it keeps the list, and bootstrap is what evaluate_bootstrap made it.
LEMMA RecordVoteFrame ==
    ASSUME NEW e \in Engine, NEW id \in Ids, NEW v \in Voters, NEW a \in Ballot,
           NEW n \in Nat
    PROVE  /\ RecordVote(e, id, v, a, n) \in Engine
           /\ RecordVote(e, id, v, a, n).supernodes = e.supernodes
           /\ RecordVote(e, id, v, a, n).mode = EvaluateBootstrap(e, n).mode
           /\ RecordVote(e, id, v, a, n).exited = EvaluateBootstrap(e, n).exited
<1> DEFINE b == EvaluateBootstrap(e, n)
           q == WithVote(e.proposals[id], v, a)
<1>1. b \in Engine /\ b.proposals = e.proposals /\ b.supernodes = e.supernodes
  BY EvaluateBootstrapType
<1>2. CASE AcceptsVote(e, id, v)
  <2>1. RecordVote(e, id, v, a, n) = [b EXCEPT !.proposals[id] = q]
    BY <1>1, <1>2, AcceptsVoteAnyTime DEF RecordVote
  <2>2. q \in Proposal
    BY <1>2, RecordVoteAccepted
  <2> HIDE DEF b, q
  <2>3. [b EXCEPT !.proposals[id] = q] \in Engine
    BY <1>1, <2>2 DEF Engine, Proposals
  <2>4. QED
    BY <1>1, <2>1, <2>3 DEF b, Engine
<1>3. CASE ~AcceptsVote(e, id, v)
  BY <1>1, <1>3, RecordVoteRefused
<1>4. QED
  BY <1>2, <1>3

\* mark_executed: the flag of one proposal, nothing else.
LEMMA MarkExecutedType ==
    ASSUME NEW e \in Engine, NEW id \in Ids, NEW n \in Nat
    PROVE  LET b == EvaluateBootstrap(e, n)
               f == MarkExecuted(e, id, n)
               q == AsExecuted(e.proposals[id])
           IN  /\ f \in Engine
               /\ f.supernodes = e.supernodes
               /\ f.mode = b.mode /\ f.exited = b.exited
               /\ Known(e, id) => /\ e.proposals[id] \in Proposal /\ q \in Proposal
                                  /\ f.proposals = [e.proposals EXCEPT ![id] = q]
               /\ ~Known(e, id) => f.proposals = e.proposals
<1> DEFINE b == EvaluateBootstrap(e, n)
           q == AsExecuted(e.proposals[id])
<1>1. b \in Engine /\ b.proposals = e.proposals /\ b.supernodes = e.supernodes
  BY EvaluateBootstrapType
<1>2. MarkExecuted(e, id, n) =
          IF Known(e, id) THEN [b EXCEPT !.proposals[id] = q] ELSE b
  BY <1>1 DEF MarkExecuted, Known
<1> HIDE DEF b, q
<1>3. CASE Known(e, id)
  <2>1. e.proposals[id] \in Proposal
    BY <1>3 DEF Known, Engine, Proposals
  <2>2. q \in Proposal
    BY <2>1 DEF q, AsExecuted, Proposal
  <2>3. [b EXCEPT !.proposals[id] = q] \in Engine
    BY <1>1, <2>2 DEF Engine, Proposals
  <2>4. [b EXCEPT !.proposals[id] = q].proposals = [e.proposals EXCEPT ![id] = q]
    BY <1>1 DEF Engine
  <2>5. QED
    BY <1>1, <1>2, <1>3, <2>1, <2>2, <2>3, <2>4 DEF b, q, Engine
<1>4. CASE ~Known(e, id)
  BY <1>1, <1>2, <1>4 DEF b
<1>5. QED
  BY <1>3, <1>4

\* update_supernodes: bootstrap mode is on afterwards only with a short list.
LEMMA UpdateSupernodesType ==
    ASSUME NEW e \in Engine, NEW S \in SUBSET Voters, NEW n \in Nat
    PROVE  LET f == UpdateSupernodes(e, S, n)
           IN  /\ f \in Engine
               /\ f.proposals = e.proposals /\ f.supernodes = S
               /\ f.mode => Cardinality(S) < 2
               /\ e.exited => f.exited
<1> DEFINE b == EvaluateBootstrap(e, n)
           x == b.exited \/ (Cardinality(S) >= 2 /\ Cardinality(b.supernodes) < 2)
           m == Cardinality(S) < 2 /\ ~b.exited
<1>1. /\ b \in Engine /\ b.proposals = e.proposals
      /\ e.exited => b.exited
  BY EvaluateBootstrapType
<1>2. UpdateSupernodes(e, S, n) = [b EXCEPT !.supernodes = S, !.exited = x, !.mode = m]
  BY DEF UpdateSupernodes
<1>3. x \in BOOLEAN /\ m \in BOOLEAN
  BY <1>1 DEF Engine
<1>4. (m => Cardinality(S) < 2) /\ (b.exited => x)
  OBVIOUS
<1> HIDE DEF b, x, m
<1>5. [b EXCEPT !.supernodes = S, !.exited = x, !.mode = m] \in Engine
  BY <1>1, <1>3 DEF Engine
<1>6. QED
  BY <1>1, <1>2, <1>4, <1>5 DEF Engine

\* restore_from_snapshot on a new engine: the saved proposals and no supernodes.
LEMMA RestoreType ==
    ASSUME NEW s \in Snapshot, NEW n \in Nat
    PROVE  /\ Restore(s, n) \in Engine
           /\ Restore(s, n).proposals = s.proposals
           /\ Restore(s, n).exited = s.exited
           /\ Restore(s, n).supernodes = {}
<1>1. New({}, n) \in Engine /\ New({}, n).supernodes = {}
  BY NewType DEF New
<1>2. QED
  BY <1>1 DEF Restore, Engine, Snapshot
=============================================================================
