------------------------ MODULE GovernanceNodeProofs ------------------------
(***************************************************************************)
(* The properties of GovernanceNode for every set of supernodes, peers and *)
(* ids.  Neither of the two quorum properties is inductive: they need that *)
(* only supernodes of the running engine have voted, and that the count a  *)
(* proposal was opened with is their number (VotesCounted).                *)
(***************************************************************************)
EXTENDS GovernanceNode, GovernanceEngineTheorems

\* The votes of q are votes of S, and q was counted with S unless it was born
\* executed, in which case it has no votes.
Counted(S, q) ==
    /\ Yes(q) \cup No(q) \subseteq S
    /\ ~q.executed \/ Yes(q) \cup No(q) # {} => q.supernode_count = Cardinality(S)

Undecided(q) ==
    q.supernode_count > 0 /\ ~q.executed => ~ApprovedBy(q) /\ ~RejectedBy(q)

VotesCounted(e) ==
    \A id \in Ids : Known(e, id) => Counted(e.supernodes, e.proposals[id])

IInv ==
    /\ NodeTypeOK
    /\ VotesCounted(eng)
    /\ NoMissedQuorum
    /\ CertificateBackedByQuorum

-----------------------------------------------------------------------------
(* Arithmetic of quorums *)

\* Arithmetic: a product grows with its factor.
LEMMA MonotoneProduct ==
    ASSUME NEW a \in Nat, NEW b \in Nat, NEW k \in Nat, a <= b
    PROVE  a * k <= b * k
<1>1. PICK d \in Nat : b = a + d
  BY b - a \in Nat
<1>2. b * k = a * k + d * k
  BY <1>1
<1>3. d * k \in Nat /\ a * k \in Nat
  OBVIOUS
<1>4. QED
  BY <1>2, <1>3

\* Two disjoint groups among c > 0 voters cannot both be a quorum of them.
LEMMA NoTwoQuorums ==
    ASSUME NEW y \in Nat, NEW n \in Nat, NEW c \in Nat, c > 0, y + n <= c
    PROVE  ~(y * QuorumDen >= QuorumNum * c /\ n * QuorumDen >= QuorumNum * c)
<1>1. QuorumNum \in Nat /\ QuorumDen \in Nat /\ QuorumDen + 1 <= 2 * QuorumNum
  BY QuorumAssumption
<1>2. (y + n) * QuorumDen <= c * QuorumDen
  BY <1>1, MonotoneProduct
<1>3. (y + n) * QuorumDen = y * QuorumDen + n * QuorumDen
  BY <1>1
<1>4. (QuorumDen + 1) * c <= (2 * QuorumNum) * c
  BY <1>1, MonotoneProduct
<1>5. (QuorumDen + 1) * c = c * QuorumDen + c /\ (2 * QuorumNum) * c = 2 * (QuorumNum * c)
  BY <1>1
<1>6. /\ y * QuorumDen \in Nat /\ n * QuorumDen \in Nat /\ c * QuorumDen \in Nat
      /\ QuorumNum * c \in Nat
  BY <1>1
<1>7. QED
  BY <1>2, <1>3, <1>4, <1>5, <1>6

\* Nobody is not a quorum.
LEMMA EmptyNoQuorum ==
    ASSUME NEW c \in Nat, c > 0
    PROVE  ~ReachesQuorum({}, c)
<1>1. Cardinality({}) = 0
  BY FS_EmptySet
<1>2. QuorumNum \in Nat /\ QuorumDen \in Nat /\ 1 <= QuorumNum
  BY QuorumAssumption
<1>3. 1 * c <= QuorumNum * c
  BY <1>2, MonotoneProduct
<1>4. QED
  BY <1>1, <1>2, <1>3 DEF ReachesQuorum

\* Yes and no votes are votes of different supernodes.
LEMMA BallotsDisjoint ==
    ASSUME NEW q \in Proposal, NEW S \in SUBSET Voters, Yes(q) \cup No(q) \subseteq S
    PROVE  Cardinality(Yes(q)) + Cardinality(No(q)) <= Cardinality(S)
<1>1. Yes(q) \cap No(q) = {}
  BY DEF Yes, No
<1>2. /\ IsFiniteSet(S) /\ IsFiniteSet(Yes(q)) /\ IsFiniteSet(No(q))
      /\ Cardinality(Yes(q)) \in Nat /\ Cardinality(No(q)) \in Nat /\ Cardinality(S) \in Nat
  BY VotersCount DEF Yes, No
<1>3. Cardinality(Yes(q) \cup No(q)) = Cardinality(Yes(q)) + Cardinality(No(q))
  <2>1. Cardinality(Yes(q) \cap No(q)) = 0
    BY <1>1, FS_EmptySet
  <2>2. Cardinality(Yes(q) \cup No(q)) =
            Cardinality(Yes(q)) + Cardinality(No(q)) - Cardinality(Yes(q) \cap No(q))
    BY <1>2, FS_Union
  <2>3. QED
    BY <1>2, <2>1, <2>2
<1>4. Cardinality(Yes(q) \cup No(q)) <= Cardinality(S)
  BY <1>2, FS_Subset
<1>5. QED
  BY <1>3, <1>4

\* The two verdicts exclude each other on a proposal counted with its voters.
LEMMA CountedExcludes ==
    ASSUME NEW q \in Proposal, NEW S \in SUBSET Voters, Counted(S, q),
           q.supernode_count > 0
    PROVE  ~(ApprovedBy(q) /\ RejectedBy(q))
<1>1. q.supernode_count \in Nat
  BY DEF Proposal
<1>2. CASE Yes(q) \cup No(q) = {}
  <2>1. Yes(q) = {}
    BY <1>2
  <2>2. QED
    BY <1>1, <2>1, EmptyNoQuorum DEF ApprovedBy
<1>3. CASE Yes(q) \cup No(q) # {}
  <2>1. q.supernode_count = Cardinality(S) /\ Yes(q) \cup No(q) \subseteq S
    BY <1>3 DEF Counted
  <2>2. Cardinality(Yes(q)) + Cardinality(No(q)) <= q.supernode_count
    BY <2>1, BallotsDisjoint
  <2>3. Cardinality(Yes(q)) \in Nat /\ Cardinality(No(q)) \in Nat
    BY VotersCount DEF Yes, No
  <2>4. QED
    BY <1>1, <2>2, <2>3, NoTwoQuorums DEF ApprovedBy, RejectedBy, ReachesQuorum
<1>4. QED
  BY <1>2, <1>3

-----------------------------------------------------------------------------
(* What the engine's methods do to VotesCounted and to open proposals *)

OthersUndecided(e, id) ==
    \A i \in Ids \ {id} : Known(e, i) => Undecided(e.proposals[i])

AllUndecided(e) == \A i \in Ids : Known(e, i) => Undecided(e.proposals[i])

\* An engine that differs from e in the proposal q under id.
LEMMA OneChange ==
    ASSUME NEW e \in Engine, NEW f \in Engine, NEW id \in Ids, NEW q \in Proposal,
           f.proposals = [e.proposals EXCEPT ![id] = q]
    PROVE  /\ f.proposals[id] = q /\ Known(f, id)
           /\ \A i \in Ids \ {id} : /\ f.proposals[i] = e.proposals[i]
                                    /\ Known(f, i) <=> Known(e, i)
<1>1. f.proposals[id] = q
  BY DEF Engine, Proposals
<1>2. q # NoProposal
  BY NoProposalAssumption
<1>3. \A i \in Ids \ {id} : f.proposals[i] = e.proposals[i]
  BY DEF Engine, Proposals
<1>4. QED
  BY <1>1, <1>2, <1>3 DEF Known

\* An engine that changes in one proposal keeps its votes counted if that one does.
LEMMA OneChangeCounted ==
    ASSUME NEW e \in Engine, NEW f \in Engine, NEW id \in Ids, NEW q \in Proposal,
           f.proposals = [e.proposals EXCEPT ![id] = q],
           f.supernodes = e.supernodes,
           VotesCounted(e), Counted(e.supernodes, q)
    PROVE  VotesCounted(f)
<1>1. SUFFICES ASSUME NEW i \in Ids, Known(f, i)
               PROVE  Counted(f.supernodes, f.proposals[i])
  BY DEF VotesCounted
<1>2. CASE i = id
  <2>1. f.proposals[id] = q
    BY DEF Engine, Proposals
  <2>2. QED
    BY <1>2, <2>1
<1>3. CASE i # id
  <2>1. f.proposals[i] = e.proposals[i] /\ Known(e, i)
    BY <1>1, <1>3, OneChange
  <2>2. QED
    BY <2>1 DEF VotesCounted
<1>4. QED
  BY <1>2, <1>3

\* An engine that changes in one proposal misses no quorum if that one does not.
LEMMA OneChangeUndecided ==
    ASSUME NEW e \in Engine, NEW f \in Engine, NEW id \in Ids, NEW q \in Proposal,
           f.proposals = [e.proposals EXCEPT ![id] = q],
           OthersUndecided(e, id)
    PROVE  OthersUndecided(f, id) /\ (Undecided(q) => AllUndecided(f))
<1>1. OthersUndecided(f, id)
  <2>1. SUFFICES ASSUME NEW i \in Ids \ {id}, Known(f, i)
                 PROVE  Undecided(f.proposals[i])
    BY DEF OthersUndecided
  <2>2. f.proposals[i] = e.proposals[i] /\ Known(e, i)
    BY <2>1, OneChange
  <2>3. QED
    BY <2>2 DEF OthersUndecided
<1>2. f.proposals[id] = q
  BY DEF Engine, Proposals
<1>3. QED
  BY <1>1, <1>2 DEF OthersUndecided, AllUndecided

\* A new proposal has no votes, is counted and is not decided by them.
LEMMA CreateGood ==
    ASSUME NEW e \in Engine, NEW id \in Ids, NEW t \in Targets, NEW n \in Nat,
           VotesCounted(e), AllUndecided(e)
    PROVE  /\ VotesCounted(CreateProposal(e, id, t, n))
           /\ AllUndecided(CreateProposal(e, id, t, n))
           /\ Known(CreateProposal(e, id, t, n), id)
<1> DEFINE f == CreateProposal(e, id, t, n)
           b == EvaluateBootstrap(e, n)
           q == Created(e, t, n)
<1>1. f \in Engine /\ f.supernodes = e.supernodes
  BY CreateProposalFrame
<1>2. f.proposals = [e.proposals EXCEPT ![id] = q] /\ q \in Proposal
  BY CreateProposalAdds, CreatedType
<1>3. b \in Engine /\ b.supernodes = e.supernodes
  BY EvaluateBootstrapType
<1>4. Yes(q) = {} /\ No(q) = {}
  BY DEF Created, NewProposal, NoBallot, Yes, No
<1>5. ~q.executed => q.supernode_count = Cardinality(e.supernodes)
  BY <1>3 DEF Created, NewProposal
<1> HIDE DEF q, f
<1>6. Counted(e.supernodes, q)
  BY <1>4, <1>5 DEF Counted
<1>7. Undecided(q)
  <2>1. q.supernode_count \in Nat
    BY <1>2 DEF Proposal
  <2>2. QED
    BY <1>4, <2>1, EmptyNoQuorum DEF Undecided, ApprovedBy, RejectedBy
<1>8. OthersUndecided(e, id)
  BY DEF OthersUndecided, AllUndecided
<1>9. VotesCounted(f) /\ AllUndecided(f) /\ Known(f, id)
  BY <1>1, <1>2, <1>6, <1>7, <1>8, OneChange, OneChangeCounted, OneChangeUndecided
<1>10. QED
  BY <1>9 DEF f

\* An accepted vote is the vote of a supernode the proposal was counted with.
LEMMA VoteGood ==
    ASSUME NEW e \in Engine, NEW id \in Ids, NEW v \in Voters, NEW a \in Ballot,
           NEW n \in Nat, VotesCounted(e), AllUndecided(e)
    PROVE  /\ VotesCounted(RecordVote(e, id, v, a, n))
           /\ OthersUndecided(RecordVote(e, id, v, a, n), id)
           /\ Known(e, id) => Known(RecordVote(e, id, v, a, n), id)
           /\ ~AcceptsVote(e, id, v) => AllUndecided(RecordVote(e, id, v, a, n))
<1> DEFINE f == RecordVote(e, id, v, a, n)
           p == e.proposals[id]
           q == WithVote(p, v, a)
<1>1. f \in Engine /\ f.supernodes = e.supernodes
  BY RecordVoteFrame
<1>2. CASE AcceptsVote(e, id, v)
  <2>1. p \in Proposal /\ q \in Proposal /\ f.proposals = [e.proposals EXCEPT ![id] = q]
    BY <1>2, RecordVoteAccepted
  <2>2. ~p.executed /\ v \in e.supernodes /\ Known(e, id)
    BY <1>2 DEF AcceptsVote
  <2>3. Counted(e.supernodes, p)
    BY <2>2 DEF VotesCounted
  <2> HIDE DEF f
  <2>4. Counted(e.supernodes, q)
    <3>1. /\ q.supernode_count = p.supernode_count
          /\ Yes(q) \cup No(q) = Yes(p) \cup No(p) \cup {v}
      BY <2>1, BallotType
    <3> HIDE DEF p, q
    <3>2. QED
      BY <2>2, <2>3, <3>1 DEF Counted
  <2>5. OthersUndecided(e, id)
    BY DEF OthersUndecided, AllUndecided
  <2> HIDE DEF q
  <2>6. VotesCounted(f) /\ OthersUndecided(f, id) /\ Known(f, id)
    BY <1>1, <2>1, <2>4, <2>5, OneChange, OneChangeCounted, OneChangeUndecided
  <2>7. QED
    BY <1>2, <2>6 DEF f
<1>3. CASE ~AcceptsVote(e, id, v)
  <2>1. f.proposals = e.proposals
    BY <1>3, RecordVoteRefused, EvaluateBootstrapType
  <2> HIDE DEF f
  <2>2. /\ VotesCounted(f) /\ OthersUndecided(f, id) /\ AllUndecided(f)
        /\ Known(e, id) => Known(f, id)
    BY <1>1, <2>1 DEF VotesCounted, OthersUndecided, AllUndecided, Known
  <2>3. QED
    BY <2>2 DEF f
<1>4. QED
  BY <1>2, <1>3

\* Marking a proposal executed keeps its votes and its count.
LEMMA ExecuteGood ==
    ASSUME NEW e \in Engine, NEW id \in Ids, NEW n \in Nat,
           VotesCounted(e), OthersUndecided(e, id), Known(e, id)
    PROVE  /\ VotesCounted(MarkExecuted(e, id, n))
           /\ AllUndecided(MarkExecuted(e, id, n))
<1> DEFINE f == MarkExecuted(e, id, n)
           p == e.proposals[id]
           q == AsExecuted(p)
<1>1. f \in Engine /\ f.supernodes = e.supernodes
  BY MarkExecutedType
<1>2. p \in Proposal /\ q \in Proposal /\ f.proposals = [e.proposals EXCEPT ![id] = q]
  BY MarkExecutedType
<1>3. Counted(e.supernodes, p)
  BY DEF VotesCounted
<1> HIDE DEF f, p
<1>4. /\ q.executed /\ q.supernode_count = p.supernode_count
      /\ Yes(q) = Yes(p) /\ No(q) = No(p)
  BY <1>2 DEF AsExecuted, Proposal, Yes, No
<1> HIDE DEF q
<1>5. Counted(e.supernodes, q) /\ Undecided(q)
  BY <1>3, <1>4 DEF Counted, Undecided
<1>6. VotesCounted(f) /\ AllUndecided(f)
  BY <1>1, <1>2, <1>5, OneChangeCounted, OneChangeUndecided
<1>7. QED
  BY <1>6 DEF f

\* A proposal check_quorum says nothing about is undecided.
LEMMA NoVerdict ==
    ASSUME NEW q \in Proposal, NEW t, NEW n, Verdict(q, t, n) = "none"
    PROVE  Undecided(q)
<1>1. CASE q.executed
  BY <1>1 DEF Undecided
<1>2. CASE ~q.executed
  BY <1>2 DEF Verdict, Undecided, ApprovedBy, RejectedBy
<1>3. QED
  BY <1>1, <1>2

\* The quorum check after a vote on id leaves no decision behind.
LEMMA SettleGood ==
    ASSUME NEW e \in Engine, NEW id \in Ids, NEW n \in Nat,
           VotesCounted(e), OthersUndecided(e, id), Known(e, id)
    PROVE  /\ Settle(e, id, n) \in Engine
           /\ Settle(e, id, n).supernodes = e.supernodes
           /\ VotesCounted(Settle(e, id, n))
           /\ AllUndecided(Settle(e, id, n))
<1>1. CASE Verdict(e.proposals[id], VoteTimeout, n) = "none"
  <2>1. Settle(e, id, n) = e
    BY <1>1 DEF Settle
  <2>2. e.proposals[id] \in Proposal
    BY DEF Known, Engine, Proposals
  <2>3. Undecided(e.proposals[id])
    BY <1>1, <2>2, NoVerdict
  <2>4. AllUndecided(e)
    BY <2>3 DEF AllUndecided, OthersUndecided
  <2>5. QED
    BY <2>1, <2>4
<1>2. CASE Verdict(e.proposals[id], VoteTimeout, n) # "none"
  <2>1. Settle(e, id, n) = MarkExecuted(e, id, n)
    BY <1>2 DEF Settle
  <2>2. MarkExecuted(e, id, n) \in Engine
    BY MarkExecutedType
  <2>3. MarkExecuted(e, id, n).supernodes = e.supernodes
    BY MarkExecutedType
  <2>4. QED
    BY <2>1, <2>2, <2>3, ExecuteGood
<1>3. QED
  BY <1>1, <1>2

\* A set of signers a certificate may name, for the supernodes S.
Backs(signers, S) ==
    signers \subseteq S /\ (ReachesQuorum(signers, Cardinality(S)) \/ Cardinality(S) = 2)

\* An approved proposal was approved by such a set.
LEMMA ApprovalBacked ==
    ASSUME NEW e \in Engine, NEW id \in Ids, NEW n \in Nat,
           VotesCounted(e), Known(e, id), Approved(e, id, n)
    PROVE  Backs(Yes(e.proposals[id]), e.supernodes)
<1> DEFINE p == e.proposals[id]
<1>1. Counted(e.supernodes, p)
  BY DEF VotesCounted
<1>2. Verdict(p, VoteTimeout, n) = "approve"
  BY DEF Approved
<1> HIDE DEF p
<1>3. /\ ~p.executed
      /\ ReachesQuorum(Yes(p), p.supernode_count) \/ LoneVoteExpired(p, VoteTimeout, n)
  BY <1>2 DEF Verdict
<1>4. p.supernode_count = Cardinality(e.supernodes) /\ Yes(p) \subseteq e.supernodes
  BY <1>1, <1>3 DEF Counted
<1>5. Backs(Yes(p), e.supernodes)
  BY <1>3, <1>4 DEF LoneVoteExpired, Backs
<1>6. QED
  BY <1>5 DEF p

-----------------------------------------------------------------------------
(* The handlers *)

Stable == \A p \in Targets : IsPeerActivated(p) => IsPeerActivated(p)'

\* The parts of the invariant, for the steps below.
LEMMA InvariantParts ==
    ASSUME IInv
    PROVE  /\ authority \in SUBSET Voters /\ eng \in Engine /\ now \in Nat
           /\ registry \in SUBSET Targets /\ flags \in SUBSET Targets
           /\ file \in SUBSET Targets
           /\ cert \in [Targets -> (SUBSET Voters) \cup {NoCert}]
           /\ VotesCounted(eng) /\ AllUndecided(eng)
           /\ \A p \in Targets : cert[p] # NoCert => Backs(cert[p], eng.supernodes)
<1>1. AllUndecided(eng)
  BY DEF IInv, NoMissedQuorum, AllUndecided, Undecided
<1>2. \A p \in Targets : cert[p] # NoCert => Backs(cert[p], eng.supernodes)
  BY DEF IInv, CertificateBackedByQuorum, Backs
<1>3. QED
  BY <1>1, <1>2 DEF IInv, NodeTypeOK

\* The invariant after a step, from its parts.
LEMMA InvariantAfter ==
    ASSUME authority' \in SUBSET Voters, eng' \in Engine, now' \in Nat,
           registry' \in SUBSET Targets, flags' \in SUBSET Targets,
           file' \in SUBSET Targets,
           cert' \in [Targets -> (SUBSET Voters) \cup {NoCert}],
           VotesCounted(eng'), AllUndecided(eng'),
           \A p \in Targets : cert'[p] # NoCert => Backs(cert'[p], eng'.supernodes)
    PROVE  IInv'
<1>1. NoMissedQuorum'
  BY DEF NoMissedQuorum, AllUndecided, Undecided
<1>2. CertificateBackedByQuorum'
  BY DEF CertificateBackedByQuorum, Backs
<1>3. QED
  BY <1>1, <1>2 DEF IInv, NodeTypeOK

\* What the certificates look like after StoreCert, or after no StoreCert.
CertGrows(S) ==
    \/ cert' = cert
    \/ \E p \in Targets, signers \in SUBSET Voters :
          Backs(signers, S) /\ cert' = [cert EXCEPT ![p] = signers]

\* A handler that leaves a good engine with the same supernodes, takes nothing
\* out of the registry and the flags, and stores at most a backed certificate.
LEMMA HandlerPreserves ==
    ASSUME IInv, authority' \in SUBSET Voters, now' \in Nat,
           eng' \in Engine, eng'.supernodes = eng.supernodes,
           VotesCounted(eng'), AllUndecided(eng'),
           registry' \in SUBSET Targets, registry \subseteq registry',
           flags' \in SUBSET Targets, flags \subseteq flags',
           file' \in SUBSET Targets, CertGrows(eng.supernodes)
    PROVE  IInv' /\ Stable
<1>1. CASE cert' = cert
  <2>1. IInv'
    BY <1>1, InvariantParts, InvariantAfter
  <2>2. QED
    BY <1>1, <2>1 DEF Stable, IsPeerActivated
<1>2. ASSUME NEW p \in Targets, NEW signers \in SUBSET Voters,
             Backs(signers, eng.supernodes), cert' = [cert EXCEPT ![p] = signers]
      PROVE  IInv' /\ Stable
  <2>1. cert \in [Targets -> (SUBSET Voters) \cup {NoCert}]
    BY InvariantParts
  <2>2. cert' \in [Targets -> (SUBSET Voters) \cup {NoCert}]
    BY <1>2, <2>1
  <2>3. cert'[p] = signers /\ \A r \in Targets \ {p} : cert'[r] = cert[r]
    BY <1>2, <2>1
  <2>4. \A r \in Targets : cert'[r] # NoCert => Backs(cert'[r], eng'.supernodes)
    BY <1>2, <2>3, InvariantParts
  <2>5. IInv'
    BY <2>2, <2>4, InvariantAfter
  <2>6. signers # NoCert
    BY NodeAssumption
  <2>7. QED
    BY <2>3, <2>5, <2>6 DEF Stable, IsPeerActivated
<1>3. QED
  BY <1>1, <1>2 DEF CertGrows

\* A stored certificate replaces, and never removes, a certificate.
LEMMA StoreCertGrows ==
    ASSUME NEW p \in Targets, NEW signers \in SUBSET Voters, NEW S,
           Backs(signers, S), StoreCert(p, signers)
    PROVE  CertGrows(S)
<1>1. CASE p \in registry
  BY <1>1 DEF StoreCert, CertGrows
<1>2. CASE p \notin registry
  BY <1>2 DEF StoreCert, CertGrows
<1>3. QED
  BY <1>1, <1>2

\* mark_peer_activated only adds to the flags.
LEMMA MarkGrows ==
    ASSUME IInv, NEW p \in Targets, MarkPeerActivated(p)
    PROVE  /\ flags' \in SUBSET Targets /\ flags \subseteq flags'
           /\ file' \in SUBSET Targets
<1>1. flags \in SUBSET Targets /\ file \in SUBSET Targets
  BY InvariantParts
<1>2. QED
  BY <1>1 DEF MarkPeerActivated

\* The signers of a certificate are voters.
LEMMA YesType == \A q : Yes(q) \in SUBSET Voters
BY DEF Yes

\* The onboarding handler keeps the invariant.
LEMMA OnboardStep ==
    ASSUME IInv, NEW p \in Targets, NEW id \in Ids, NEW voted \in 0..MaxTime,
           NEW later \in 0..MaxTime, Onboard(p, id, voted, later)
    PROVE  IInv' /\ Stable
<1> DEFINE c == CreateProposal(eng, id, p, now)
           e == RecordVote(c, id, Local, "yes", voted)
<1>1. /\ eng \in Engine /\ now \in Nat /\ VotesCounted(eng) /\ AllUndecided(eng)
      /\ authority \in SUBSET Voters /\ registry \in SUBSET Targets
  BY InvariantParts
<1>2. voted \in Nat /\ later \in Nat /\ Local \in Voters /\ "yes" \in Ballot
  BY NodeAssumption DEF Ballot
<1>3. c \in Engine /\ c.supernodes = eng.supernodes
  BY <1>1, CreateProposalFrame
<1>4. VotesCounted(c) /\ AllUndecided(c) /\ Known(c, id)
  BY <1>1, CreateGood
<1>5. e \in Engine /\ e.supernodes = c.supernodes
  BY <1>2, <1>3, RecordVoteFrame
<1>6. VotesCounted(e) /\ OthersUndecided(e, id) /\ Known(e, id)
  BY <1>2, <1>3, <1>4, VoteGood
<1>7. /\ eng' = Settle(e, id, later) /\ MarkPeerActivated(p)
      /\ IF Approved(e, id, later)
         THEN StoreCert(p, Yes(e.proposals[id])) ELSE UNCHANGED cert
      /\ now' = later /\ authority' = authority /\ registry' = registry
  BY DEF Onboard
<1> HIDE DEF c, e
<1>8. /\ eng' \in Engine /\ eng'.supernodes = eng.supernodes
      /\ VotesCounted(eng') /\ AllUndecided(eng')
  BY <1>2, <1>3, <1>5, <1>6, <1>7, SettleGood
<1>9. CertGrows(eng.supernodes)
  <2>1. CASE Approved(e, id, later)
    <3>1. Backs(Yes(e.proposals[id]), eng.supernodes)
      BY <1>2, <1>3, <1>5, <1>6, <2>1, ApprovalBacked
    <3>2. QED
      BY <1>7, <2>1, <3>1, YesType, StoreCertGrows
  <2>2. CASE ~Approved(e, id, later)
    BY <1>7, <2>2 DEF CertGrows
  <2>3. QED
    BY <2>1, <2>2
<1>10. QED
  BY <1>1, <1>2, <1>7, <1>8, <1>9, MarkGrows, HandlerPreserves

\* The governance.vote handler keeps the invariant.
LEMMA VoteRequestStep ==
    ASSUME IInv, NEW id \in Ids, NEW v \in Voters, NEW a \in Ballot,
           VoteRequest(id, v, a)
    PROVE  IInv' /\ Stable
<1> DEFINE e == RecordVote(eng, id, v, a, now)
           target == e.proposals[id].target
<1>1. /\ eng \in Engine /\ now \in Nat /\ VotesCounted(eng) /\ AllUndecided(eng)
      /\ authority \in SUBSET Voters /\ registry \in SUBSET Targets
      /\ flags \in SUBSET Targets /\ file \in SUBSET Targets
  BY InvariantParts
<1>2. e \in Engine /\ e.supernodes = eng.supernodes
  BY <1>1, RecordVoteFrame
<1>3. /\ VotesCounted(e) /\ OthersUndecided(e, id)
      /\ Known(eng, id) => Known(e, id)
      /\ ~AcceptsVote(eng, id, v) => AllUndecided(e)
  BY <1>1, VoteGood
<1>4. authority' = authority /\ registry' = registry /\ now' = now
  BY DEF VoteRequest
<1>5. CASE AcceptsVote(eng, id, v)
  <2>1. Known(e, id)
    BY <1>3, <1>5 DEF AcceptsVote
  <2>2. AcceptsVote(EvaluateBootstrap(eng, now), id, v)
    BY <1>1, <1>5, AcceptsVoteAnyTime
  <2>3. /\ eng' = Settle(e, id, now)
        /\ IF Approved(e, id, now)
           THEN MarkPeerActivated(target) /\ StoreCert(target, Yes(e.proposals[id]))
           ELSE UNCHANGED <<flags, file, cert>>
    BY <2>2 DEF VoteRequest
  <2> HIDE DEF e
  <2>4. e.proposals[id] \in Proposal
    BY <1>2, <2>1 DEF Known, Engine, Proposals
  <2>5. target \in Targets
    BY <2>4 DEF Proposal
  <2>6. /\ eng' \in Engine /\ eng'.supernodes = eng.supernodes
        /\ VotesCounted(eng') /\ AllUndecided(eng')
    BY <1>1, <1>2, <1>3, <2>1, <2>3, SettleGood
  <2> HIDE DEF target
  <2>7. CASE Approved(e, id, now)
    <3>1. Backs(Yes(e.proposals[id]), eng.supernodes)
      BY <1>1, <1>2, <1>3, <2>1, <2>7, ApprovalBacked
    <3>2. CertGrows(eng.supernodes)
      BY <2>3, <2>5, <2>7, <3>1, YesType, StoreCertGrows
    <3>3. QED
      BY <1>1, <1>4, <2>3, <2>5, <2>6, <2>7, <3>2, MarkGrows, HandlerPreserves
  <2>8. CASE ~Approved(e, id, now)
    <3>1. flags' = flags /\ file' = file /\ cert' = cert
      BY <2>3, <2>8
    <3>2. QED
      BY <1>1, <1>4, <2>6, <3>1, HandlerPreserves DEF CertGrows
  <2>9. QED
    BY <2>7, <2>8
<1>6. CASE ~AcceptsVote(eng, id, v)
  <2>1. ~AcceptsVote(EvaluateBootstrap(eng, now), id, v)
    BY <1>1, <1>6, AcceptsVoteAnyTime
  <2>2. eng' = e /\ flags' = flags /\ file' = file /\ cert' = cert
    BY <2>1 DEF VoteRequest
  <2> HIDE DEF e
  <2>3. QED
    BY <1>1, <1>2, <1>3, <1>4, <1>6, <2>2, HandlerPreserves DEF CertGrows
<1>7. QED
  BY <1>5, <1>6

\* The governance.announce handler keeps the invariant.
LEMMA AnnounceStep ==
    ASSUME IInv, NEW announced \in Ids, NEW id \in Ids, NEW p \in Targets,
           AnnounceRequest(announced, id, p)
    PROVE  IInv' /\ Stable
<1>1. /\ eng \in Engine /\ now \in Nat /\ VotesCounted(eng) /\ AllUndecided(eng)
      /\ authority \in SUBSET Voters /\ registry \in SUBSET Targets
      /\ flags \in SUBSET Targets /\ file \in SUBSET Targets
  BY InvariantParts
<1>2. /\ eng' = CreateProposal(eng, id, p, now)
      /\ authority' = authority /\ registry' = registry /\ flags' = flags
      /\ file' = file /\ cert' = cert /\ now' = now
  BY DEF AnnounceRequest, world
<1>3. eng' \in Engine /\ eng'.supernodes = eng.supernodes
  BY <1>1, <1>2, CreateProposalFrame
<1>4. VotesCounted(eng') /\ AllUndecided(eng')
  BY <1>1, <1>2, CreateGood
<1>5. QED
  BY <1>1, <1>2, <1>3, <1>4, HandlerPreserves DEF CertGrows

\* A step that leaves the engine and the certificates alone.
LEMMA SameEngineStep ==
    ASSUME IInv, eng' = eng, cert' = cert, authority' \in SUBSET Voters, now' \in Nat,
           registry' \in SUBSET Targets, registry \subseteq registry',
           flags' \in SUBSET Targets, flags \subseteq flags', file' \in SUBSET Targets
    PROVE  IInv' /\ Stable
BY InvariantParts, HandlerPreserves DEF CertGrows

\* A new engine has no proposals, a new registry no certificates.
LEMMA RestartStep ==
    ASSUME IInv, Restart
    PROVE  IInv'
<1>1. authority \in SUBSET Voters /\ now \in Nat /\ file \in SUBSET Targets
  BY InvariantParts
<1>2. /\ eng' = New(authority, now) /\ registry' = {} /\ flags' = file
      /\ cert' = [p \in Targets |-> NoCert]
      /\ authority' = authority /\ file' = file /\ now' = now
  BY DEF Restart, Boot
<1>3. eng' \in Engine
  BY <1>1, <1>2, NewType
<1>4. VotesCounted(eng') /\ AllUndecided(eng')
  BY <1>2 DEF New, Known, VotesCounted, AllUndecided
<1>5. QED
  BY <1>1, <1>2, <1>3, <1>4, InvariantAfter

\* The node a boot creates satisfies the invariant.
LEMMA InitInvariant == Init => IInv
<1> SUFFICES ASSUME Init PROVE IInv
  OBVIOUS
<1>1. /\ authority \in SUBSET Voters /\ now \in Nat /\ eng = New(authority, now)
      /\ registry = {} /\ flags = {} /\ file = {}
      /\ cert = [p \in Targets |-> NoCert]
  BY NodeAssumption DEF Init, Boot
<1>2. eng \in Engine
  BY <1>1, NewType
<1>3. \A id \in Ids : ~Known(eng, id)
  BY <1>1 DEF New, Known
<1>4. QED
  BY <1>1, <1>2, <1>3
     DEF IInv, NodeTypeOK, VotesCounted, NoMissedQuorum, CertificateBackedByQuorum

\* Every step of the node keeps the invariant: one case per action.
LEMMA NextStep ==
    ASSUME IInv, [Next]_vars
    PROVE  IInv' /\ (Restart \/ Stable)
<1>0. /\ authority \in SUBSET Voters /\ now \in Nat /\ registry \in SUBSET Targets
      /\ flags \in SUBSET Targets /\ file \in SUBSET Targets
  BY InvariantParts
<1>1. CASE \E p \in Targets, id \in Ids, voted, later \in 0..MaxTime :
              Onboard(p, id, voted, later)
  BY <1>1, OnboardStep
<1>2. CASE \E id \in Ids, voter \in Voters, ballot \in Ballot :
              VoteRequest(id, voter, ballot)
  BY <1>2, VoteRequestStep
<1>3. CASE \E announced, id \in Ids, p \in Targets : AnnounceRequest(announced, id, p)
  BY <1>3, AnnounceStep
<1>4. ASSUME NEW p \in Targets, ActivationNotify(p)
      PROVE  IInv' /\ Stable
  <2>1. /\ eng' = eng /\ cert' = cert /\ authority' = authority /\ now' = now
        /\ registry' = registry \cup {p} /\ MarkPeerActivated(p)
    BY <1>4 DEF ActivationNotify
  <2>2. QED
    BY <1>0, <2>1, MarkGrows, SameEngineStep
<1>5. ASSUME NEW p \in Targets, PeerSeen(p)
      PROVE  IInv' /\ Stable
  BY <1>0, <1>5, SameEngineStep DEF PeerSeen
<1>6. ASSUME NEW list \in SUBSET Voters, AuthorityChanges(list)
      PROVE  IInv' /\ Stable
  BY <1>0, <1>6, SameEngineStep DEF AuthorityChanges, world
<1>7. CASE ClockChanges
  BY <1>0, <1>7, NodeAssumption, SameEngineStep DEF ClockChanges, world
<1>8. CASE Restart
  BY <1>8, RestartStep
<1>9. CASE UNCHANGED vars
  BY <1>0, <1>9, SameEngineStep DEF vars
<1>10. QED
  BY <1>1, <1>2, <1>3, <1>4, <1>5, <1>6, <1>7, <1>8, <1>9 DEF Next

\* The inductive invariant of the governance handlers.
THEOREM Invariance == Spec => []IInv
<1>1. IInv /\ [Next]_vars => IInv'
  BY NextStep
<1>2. QED
  BY <1>1, InitInvariant, PTL DEF Spec

-----------------------------------------------------------------------------
(* The theorems *)

\* Every handler keeps the engine and the world state well typed.
THEOREM NodeTypeCorrect == Spec => []NodeTypeOK
<1>1. IInv => NodeTypeOK
  BY DEF IInv
<1>2. QED
  BY <1>1, Invariance, PTL

\* No proposal is ever both approved and rejected by a quorum.
THEOREM QuorumsAreExclusive == Spec => []QuorumsExclude
<1>1. IInv => QuorumsExclude
  <2> SUFFICES ASSUME IInv, NEW id \in Ids, Known(eng, id),
                      eng.proposals[id].supernode_count > 0
               PROVE  ~(ApprovedBy(eng.proposals[id]) /\ RejectedBy(eng.proposals[id]))
    BY DEF QuorumsExclude
  <2>1. eng \in Engine /\ VotesCounted(eng)
    BY InvariantParts
  <2>2. eng.proposals[id] \in Proposal /\ eng.supernodes \in SUBSET Voters
    BY <2>1 DEF Known, Engine, Proposals
  <2>3. Counted(eng.supernodes, eng.proposals[id])
    BY <2>1 DEF VotesCounted
  <2>4. QED
    BY <2>2, <2>3, CountedExcludes
<1>2. QED
  BY <1>1, Invariance, PTL

\* No open proposal has a quorum the handlers did not act on.
THEOREM NoQuorumMissed == Spec => []NoMissedQuorum
<1>1. IInv => NoMissedQuorum
  BY DEF IInv
<1>2. QED
  BY <1>1, Invariance, PTL

\* Every activation certificate is signed by a quorum of the engine's supernodes,
\* or there are exactly two of these.
THEOREM CertificatesBacked == Spec => []CertificateBackedByQuorum
<1>1. IInv => CertificateBackedByQuorum
  BY DEF IInv
<1>2. QED
  BY <1>1, Invariance, PTL

\* Until the process stops no handler takes an activation back.
THEOREM ActivationStable == Spec => ActivationIsStable
<1>1. IInv /\ [Next]_vars =>
        [Restart \/ \A p \in Targets : IsPeerActivated(p) => IsPeerActivated(p)']_vars
  BY NextStep DEF Stable
<1>2. QED
  BY <1>1, Invariance, PTL DEF Spec, ActivationIsStable
=============================================================================
