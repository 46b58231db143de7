-------------------------- MODULE GovernanceProofs --------------------------
(***************************************************************************)
(* The properties of Governance for every set of voters, targets and ids   *)
(* and every clock bound.  The inductive invariant is the type invariant,  *)
(* BootstrapMeansFewSupernodes and FileBehindEngine; the two action        *)
(* properties follow from it.                                              *)
(***************************************************************************)
EXTENDS Governance, GovernanceEngineTheorems

\* A proposal evolves into itself, and evolution composes.
LEMMA EvolvesReflexive == \A p : Evolves(p, p)
BY DEF Evolves

\* A later stage of a later stage is a later stage.
LEMMA EvolvesTransitive ==
    \A p, q, r : Evolves(p, q) /\ Evolves(q, r) => Evolves(p, r)
BY DEF Evolves

\* So does progress between engines (or a snapshot and an engine).
LEMMA ProgressSame ==
    ASSUME NEW e, NEW f, f.proposals = e.proposals, e.exited => f.exited
    PROVE  Progress(e, f)
BY EvolvesReflexive DEF Progress, Known

\* Progress of an engine, step after step, is progress.
LEMMA ProgressTransitive ==
    ASSUME NEW d, NEW e, NEW f, Progress(d, e), Progress(e, f)
    PROVE  Progress(d, f)
BY EvolvesTransitive DEF Progress

\* Changing one proposal is progress when that proposal is new or evolves.
LEMMA ProgressOne ==
    ASSUME NEW e \in Engine, NEW f, NEW id \in Ids, NEW q \in Proposal,
           f.proposals = [e.proposals EXCEPT ![id] = q],
           Known(e, id) => Evolves(e.proposals[id], q),
           e.exited => f.exited
    PROVE  Progress(e, f)
<1>1. ASSUME NEW i \in Ids, Known(e, i)
      PROVE  Known(f, i) /\ Evolves(e.proposals[i], f.proposals[i])
  <2>1. CASE i = id
    <3>1. f.proposals[i] = q /\ q # NoProposal
      BY <2>1, NoProposalAssumption DEF Engine, Proposals
    <3>2. QED
      BY <1>1, <2>1, <3>1 DEF Known
  <2>2. CASE i # id
    <3>1. f.proposals[i] = e.proposals[i]
      BY <2>2 DEF Engine, Proposals
    <3>2. QED
      BY <1>1, <3>1, EvolvesReflexive DEF Known
  <2>3. QED
    BY <2>1, <2>2
<1>2. QED
  BY <1>1 DEF Progress

-----------------------------------------------------------------------------
(* What each method does to the proposals is progress. *)

\* create_proposal under a fresh id is progress.
LEMMA CreateProgress ==
    ASSUME NEW e \in Engine, NEW id \in Ids, NEW t \in Targets, NEW n \in Nat,
           ~Known(e, id)
    PROVE  Progress(e, CreateProposal(e, id, t, n))
<1> DEFINE f == CreateProposal(e, id, t, n)
           q == Created(e, t, n)
<1>1. f.proposals = [e.proposals EXCEPT ![id] = q]
  BY CreateProposalAdds
<1>2. e.exited => f.exited
  BY CreateProposalFrame, EvaluateBootstrapType
<1>3. q \in Proposal
  BY CreatedType
<1> HIDE DEF f, q
<1>4. Progress(e, f)
  BY <1>1, <1>2, <1>3, ProgressOne
<1>5. QED
  BY <1>4 DEF f

\* record_vote is progress: it refuses an executed proposal.
LEMMA VoteProgress ==
    ASSUME NEW e \in Engine, NEW id \in Ids, NEW v \in Voters, NEW a \in Ballot,
           NEW n \in Nat
    PROVE  Progress(e, RecordVote(e, id, v, a, n))
<1> DEFINE f == RecordVote(e, id, v, a, n)
           q == WithVote(e.proposals[id], v, a)
<1>1. (e.exited => f.exited) /\ EvaluateBootstrap(e, n).proposals = e.proposals
  BY RecordVoteFrame, EvaluateBootstrapType
<1>2. CASE AcceptsVote(e, id, v)
  <2>1. /\ e.proposals[id] \in Proposal /\ q \in Proposal
        /\ f.proposals = [e.proposals EXCEPT ![id] = q]
    BY <1>2, RecordVoteAccepted
  <2>2. Evolves(e.proposals[id], q)
    <3>1. ~e.proposals[id].executed
      BY <1>2 DEF AcceptsVote
    <3>2. QED
      BY <2>1, <3>1, BallotType DEF Evolves
  <2> HIDE DEF f, q
  <2>3. Progress(e, f)
    BY <1>1, <2>1, <2>2, ProgressOne
  <2>4. QED
    BY <2>3 DEF f
<1>3. CASE ~AcceptsVote(e, id, v)
  <2>1. f = EvaluateBootstrap(e, n)
    BY <1>3, RecordVoteRefused
  <2>2. QED
    BY <1>1, <2>1, ProgressSame
<1>4. QED
  BY <1>2, <1>3

\* mark_executed is progress: an executed proposal stays as it is.
LEMMA ExecuteProgress ==
    ASSUME NEW e \in Engine, NEW id \in Ids, NEW n \in Nat
    PROVE  Progress(e, MarkExecuted(e, id, n))
<1> DEFINE b == EvaluateBootstrap(e, n)
           f == MarkExecuted(e, id, n)
           q == AsExecuted(e.proposals[id])
<1>1. b \in Engine /\ (e.exited => b.exited) /\ f.exited = b.exited
  BY EvaluateBootstrapType, MarkExecutedType
<1>2. CASE Known(e, id)
  <2>1. /\ e.proposals[id] \in Proposal /\ q \in Proposal
        /\ f.proposals = [e.proposals EXCEPT ![id] = q]
    BY <1>2, MarkExecutedType
  <2>2. Evolves(e.proposals[id], q)
    BY <2>1 DEF AsExecuted, Evolves, Proposal, Yes, No
  <2> HIDE DEF f, q, b
  <2>3. Progress(e, f)
    BY <1>1, <2>1, <2>2, ProgressOne
  <2>4. QED
    BY <2>3 DEF f
<1>3. CASE ~Known(e, id)
  <2>1. f.proposals = e.proposals
    BY <1>3, MarkExecutedType
  <2> HIDE DEF f, b
  <2>2. Progress(e, f)
    BY <1>1, <2>1, ProgressSame
  <2>3. QED
    BY <2>2 DEF f
<1>4. QED
  BY <1>2, <1>3

-----------------------------------------------------------------------------
(* The inductive invariant *)

IInv == TypeOK /\ BootstrapMeansFewSupernodes /\ FileBehindEngine

\* What the calls of one engine preserve, whichever of them it is: they keep the
\* supernodes, never switch bootstrap mode on, make progress, and the file is
\* what it was, the new snapshot, or torn.
LEMMA CallPreserves ==
    ASSUME IInv, eng' \in Engine, now' \in Nat,
           eng'.mode => Cardinality(eng'.supernodes) < 2,
           Progress(eng, eng'),
           disk' = disk \/ disk' = TakeSnapshot(eng') \/ disk' = Torn
    PROVE  IInv'
<1>1. TypeOK'
  BY DEF IInv, TypeOK, TakeSnapshot, Engine, Snapshot
<1>2. BootstrapMeansFewSupernodes'
  BY DEF BootstrapMeansFewSupernodes
<1>3. FileBehindEngine'
  <2>1. CASE disk' = disk
    BY <2>1, ProgressTransitive DEF IInv, FileBehindEngine
  <2>2. CASE disk' = TakeSnapshot(eng')
    <3>1. Progress(TakeSnapshot(eng'), eng')
      BY ProgressSame DEF TakeSnapshot
    <3>2. QED
      BY <2>2, <3>1 DEF FileBehindEngine
  <2>3. CASE disk' = Torn
    BY <2>3 DEF FileBehindEngine
  <2>4. QED
    BY <2>1, <2>2, <2>3
<1>4. QED
  BY <1>1, <1>2, <1>3 DEF IInv

\* After save_if_possible the file is the new snapshot, the old file, or torn.
LEMMA SaveOutcome ==
    ASSUME SaveIfPossible(eng')
    PROVE  disk' = disk \/ disk' = TakeSnapshot(eng') \/ disk' = Torn
BY DEF SaveIfPossible

\* evaluate_bootstrap, with which every call starts, keeps the mode invariant.
LEMMA ModeAfterEvaluate ==
    ASSUME IInv
    PROVE  EvaluateBootstrap(eng, now).mode => Cardinality(eng.supernodes) < 2
BY EvaluateBootstrapType DEF IInv, TypeOK, BootstrapMeansFewSupernodes

\* A new engine with no file satisfies the invariant.
LEMMA InitInvariant == Init => IInv
<1> SUFFICES ASSUME Init PROVE IInv
  OBVIOUS
<1>1. PICK list \in SUBSET Voters : eng = New(list, now)
  BY DEF Init
<1>2. now \in Nat /\ disk = NoFile
  BY TimeAssumption DEF Init
<1>3. eng \in Engine
  BY <1>1, <1>2, NewType
<1>4. BootstrapMeansFewSupernodes
  BY <1>1 DEF New, BootstrapMeansFewSupernodes
<1>5. QED
  BY <1>2, <1>3, <1>4 DEF IInv, TypeOK, FileBehindEngine

\* create_proposal, with its save, keeps the invariant.
LEMMA CreateStep ==
    ASSUME IInv, NEW id \in Ids, NEW t \in Targets, Create(id, t)
    PROVE  IInv' /\ Progress(eng, eng')
<1>1. eng \in Engine /\ now \in Nat
  BY DEF IInv, TypeOK
<1>2. eng' = CreateProposal(eng, id, t, now) /\ now' = now /\ ~Known(eng, id)
  BY DEF Create
<1>3. /\ eng' \in Engine
      /\ eng'.supernodes = eng.supernodes
      /\ eng'.mode = EvaluateBootstrap(eng, now).mode
  BY <1>1, <1>2, CreateProposalFrame
<1>4. Progress(eng, eng')
  BY <1>1, <1>2, CreateProgress
<1>5. disk' = disk \/ disk' = TakeSnapshot(eng') \/ disk' = Torn
  BY SaveOutcome DEF Create
<1>6. QED
  BY <1>1, <1>2, <1>3, <1>4, <1>5, ModeAfterEvaluate, CallPreserves

\* record_vote, with its save, keeps the invariant.
LEMMA VoteStep ==
    ASSUME IInv, NEW id \in Ids, NEW v \in Voters, NEW a \in Ballot, Vote(id, v, a)
    PROVE  IInv' /\ Progress(eng, eng')
<1>1. eng \in Engine /\ now \in Nat
  BY DEF IInv, TypeOK
<1>2. eng' = RecordVote(eng, id, v, a, now) /\ now' = now
  BY DEF Vote
<1>3. /\ eng' \in Engine
      /\ eng'.supernodes = eng.supernodes
      /\ eng'.mode = EvaluateBootstrap(eng, now).mode
  BY <1>1, <1>2, RecordVoteFrame
<1>4. Progress(eng, eng')
  BY <1>1, <1>2, VoteProgress
<1>5. disk' = disk \/ disk' = TakeSnapshot(eng') \/ disk' = Torn
  BY SaveOutcome DEF Vote
<1>6. QED
  BY <1>1, <1>2, <1>3, <1>4, <1>5, ModeAfterEvaluate, CallPreserves

\* mark_executed, with its save, keeps the invariant.
LEMMA ExecuteStep ==
    ASSUME IInv, NEW id \in Ids, Execute(id)
    PROVE  IInv' /\ Progress(eng, eng')
<1>1. eng \in Engine /\ now \in Nat
  BY DEF IInv, TypeOK
<1>2. eng' = MarkExecuted(eng, id, now) /\ now' = now
  BY DEF Execute
<1>3. /\ eng' \in Engine
      /\ eng'.supernodes = eng.supernodes
      /\ eng'.mode = EvaluateBootstrap(eng, now).mode
  BY <1>1, <1>2, MarkExecutedType
<1>4. Progress(eng, eng')
  BY <1>1, <1>2, ExecuteProgress
<1>5. disk' = disk \/ disk' = TakeSnapshot(eng') \/ disk' = Torn
  BY SaveOutcome DEF Execute
<1>6. QED
  BY <1>1, <1>2, <1>3, <1>4, <1>5, ModeAfterEvaluate, CallPreserves

\* update_supernodes, which does not save, keeps the invariant.
LEMMA ChangeStep ==
    ASSUME IInv, NEW S \in SUBSET Voters, ChangeSupernodes(S)
    PROVE  IInv' /\ Progress(eng, eng')
<1>1. eng \in Engine /\ now \in Nat
  BY DEF IInv, TypeOK
<1>2. eng' = UpdateSupernodes(eng, S, now) /\ now' = now /\ disk' = disk
  BY DEF ChangeSupernodes
<1>3. /\ eng' \in Engine /\ eng'.proposals = eng.proposals /\ eng'.supernodes = S
      /\ (eng'.mode => Cardinality(S) < 2) /\ (eng.exited => eng'.exited)
  BY <1>1, <1>2, UpdateSupernodesType
<1>4. Progress(eng, eng')
  BY <1>3, ProgressSame
<1>5. QED
  BY <1>1, <1>2, <1>3, <1>4, CallPreserves

\* set_hmac_key changes neither the proposals nor the file.
LEMMA KeyStep ==
    ASSUME IInv, SetHmacKey
    PROVE  IInv' /\ Progress(eng, eng')
<1>1. eng \in Engine /\ now \in Nat /\ (eng.mode => Cardinality(eng.supernodes) < 2)
  BY DEF IInv, TypeOK, BootstrapMeansFewSupernodes
<1>2. eng' = [eng EXCEPT !.keyed = TRUE] /\ now' = now /\ disk' = disk
  BY DEF SetHmacKey
<1>3. /\ eng' \in Engine /\ eng'.proposals = eng.proposals
      /\ eng'.supernodes = eng.supernodes
      /\ eng'.mode = eng.mode /\ eng'.exited = eng.exited
  BY <1>1, <1>2 DEF Engine
<1>4. Progress(eng, eng')
  BY <1>3, ProgressSame
<1>5. QED
  BY <1>1, <1>2, <1>3, <1>4, CallPreserves

\* The engine load_governance returns is as far as the file.
LEMMA RestartStep ==
    ASSUME IInv, Restart
    PROVE  IInv'
<1>1. now \in Nat /\ disk \in Snapshot \cup {NoFile, Torn}
  BY DEF IInv, TypeOK
<1>2. now' = now /\ disk' = disk
  BY DEF Restart
<1>3. Cardinality({}) < 2
  BY FS_EmptySet
<1>4. CASE disk \in {NoFile, Torn}
  <2>1. eng' = New({}, now)
    BY <1>4 DEF Restart
  <2>2. eng' \in Engine /\ eng'.supernodes = {}
    BY <1>1, <2>1, NewType DEF New
  <2>3. QED
    BY <1>1, <1>2, <1>3, <1>4, <2>2
       DEF IInv, TypeOK, BootstrapMeansFewSupernodes, FileBehindEngine
<1>5. CASE disk \notin {NoFile, Torn}
  <2>1. eng' = Restore(disk, now) /\ disk \in Snapshot
    BY <1>1, <1>5 DEF Restart
  <2>2. /\ eng' \in Engine /\ eng'.supernodes = {}
        /\ eng'.proposals = disk.proposals /\ eng'.exited = disk.exited
    BY <1>1, <2>1, RestoreType
  <2>3. Progress(disk, eng')
    BY <2>2, ProgressSame
  <2>4. QED
    BY <1>1, <1>2, <1>3, <2>2, <2>3
       DEF IInv, TypeOK, BootstrapMeansFewSupernodes, FileBehindEngine
<1>6. QED
  BY <1>4, <1>5

\* One step of the specification: the invariant is kept, and every step that is
\* not a restart is progress.
LEMMA NextStep ==
    ASSUME IInv, [Next]_vars
    PROVE  IInv' /\ (Restart \/ Progress(eng, eng'))
<1>1. CASE SetHmacKey
  BY <1>1, KeyStep
<1>2. CASE \E id \in Ids, target \in Targets : Create(id, target)
  BY <1>2, CreateStep
<1>3. CASE \E id \in Ids, voter \in Voters, ballot \in Ballot : Vote(id, voter, ballot)
  BY <1>3, VoteStep
<1>4. CASE \E id \in Ids : Execute(id)
  BY <1>4, ExecuteStep
<1>5. CASE \E list \in SUBSET Voters : ChangeSupernodes(list)
  BY <1>5, ChangeStep
<1>6. CASE ClockChanges
  <2>1. eng' = eng /\ disk' = disk /\ now' \in Nat
    BY <1>6, TimeAssumption DEF ClockChanges
  <2>2. Progress(eng, eng')
    BY <2>1, ProgressSame
  <2>3. QED
    BY <2>1, <2>2
       DEF IInv, TypeOK, BootstrapMeansFewSupernodes, FileBehindEngine
<1>7. CASE Restart
  BY <1>7, RestartStep
<1>8. CASE UNCHANGED vars
  <2>1. eng' = eng /\ disk' = disk /\ now' = now
    BY <1>8 DEF vars
  <2>2. Progress(eng, eng')
    BY <2>1, ProgressSame
  <2>3. QED
    BY <2>1, <2>2
       DEF IInv, TypeOK, BootstrapMeansFewSupernodes, FileBehindEngine
<1>9. QED
  BY <1>1, <1>2, <1>3, <1>4, <1>5, <1>6, <1>7, <1>8 DEF Next

\* The inductive invariant holds of the engine and its file at all times.
THEOREM Invariance == Spec => []IInv
<1>1. Init => IInv
  BY InitInvariant
<1>2. IInv /\ [Next]_vars => IInv'
  BY NextStep
<1>3. QED
  BY <1>1, <1>2, PTL DEF Spec

-----------------------------------------------------------------------------
(* The theorems *)

\* Every call of the engine, and every load of its file, keeps engine, file and
\* clock well typed.
THEOREM TypeCorrect == Spec => []TypeOK
<1>1. IInv => TypeOK
  BY DEF IInv
<1>2. QED
  BY <1>1, Invariance, PTL

\* Bootstrap mode is never on beside two listed supernodes, for every list that
\* update_supernodes may be given and every clock.
THEOREM BootstrapSafe == Spec => []BootstrapMeansFewSupernodes
<1>1. IInv => BootstrapMeansFewSupernodes
  BY DEF IInv
<1>2. QED
  BY <1>1, Invariance, PTL

\* What data/governance.json holds is an earlier stage of the engine.
THEOREM FileBehind == Spec => []FileBehindEngine
<1>1. IInv => FileBehindEngine
  BY DEF IInv
<1>2. QED
  BY <1>1, Invariance, PTL

\* Between restarts proposals are never removed or rewritten, and bootstrap mode
\* is left at most once.
THEOREM DecisionsFinal == Spec => DecisionsAreFinal
<1>1. IInv /\ [Next]_vars => [Restart \/ Progress(eng, eng')]_vars
  BY NextStep
<1>2. QED
  BY <1>1, Invariance, PTL DEF Spec, DecisionsAreFinal

-----------------------------------------------------------------------------
(* Where executed proposals come from *)

Fresh(i) == ~Known(eng, i) /\ Known(eng', i) /\ eng'.proposals[i].executed

\* Only create_proposal makes an id known.
LEMMA KnownBefore ==
    ASSUME NEW e \in Engine, NEW f, NEW id \in Ids, NEW q, NEW i \in Ids,
           f.proposals = e.proposals \/ (/\ Known(e, id)
                                         /\ f.proposals = [e.proposals EXCEPT ![id] = q]),
           Known(f, i)
    PROVE  Known(e, i)
<1>1. CASE i = id
  BY <1>1 DEF Known
<1>2. CASE i # id
  BY <1>2 DEF Known, Engine, Proposals
<1>3. QED
  BY <1>1, <1>2

\* Only the proposal under the new id is new after create_proposal.
LEMMA CreateFresh ==
    ASSUME IInv, NEW id \in Ids, NEW t \in Targets, Create(id, t),
           NEW i \in Ids, Fresh(i)
    PROVE  Cardinality(eng.supernodes) < 2 /\ ~eng.exited /\ now <= eng.deadline
<1> DEFINE b == EvaluateBootstrap(eng, now)
           q == Created(eng, t, now)
<1>1. eng \in Engine /\ now \in Nat
  BY DEF IInv, TypeOK
<1>2. eng'.proposals = [eng.proposals EXCEPT ![id] = q]
  BY <1>1, CreateProposalAdds DEF Create
<1> HIDE DEF q
<1>3. i = id
  BY <1>1, <1>2 DEF Fresh, Known, Engine, Proposals
<1>4. eng'.proposals[i] = q
  BY <1>1, <1>2, <1>3 DEF Engine, Proposals
<1>5. q.executed
  BY <1>4 DEF Fresh
<1>6. InBootstrap(b)
  BY <1>5 DEF q, Created, NewProposal
<1>7. b.mode /\ ~b.exited
  BY <1>6 DEF InBootstrap
<1>8. QED
  BY <1>1, <1>7, EvaluateBootstrapType, ModeAfterEvaluate

\* A proposal appears executed only in a step of create_proposal in bootstrap.
LEMMA FreshStep ==
    ASSUME IInv, [Next]_vars, NEW i \in Ids, Fresh(i)
    PROVE  Cardinality(eng.supernodes) < 2 /\ ~eng.exited /\ now <= eng.deadline
<1>1. eng \in Engine /\ now \in Nat /\ ~Known(eng, i) /\ Known(eng', i)
  BY DEF IInv, TypeOK, Fresh
<1>2. eng'.proposals # eng.proposals
  BY <1>1 DEF Known
<1>3. CASE \E id \in Ids, target \in Targets : Create(id, target)
  BY <1>3, CreateFresh
<1>4. ASSUME NEW id \in Ids, NEW v \in Voters, NEW a \in Ballot, Vote(id, v, a)
      PROVE  FALSE
  <2> DEFINE q == WithVote(eng.proposals[id], v, a)
  <2>1. eng' = RecordVote(eng, id, v, a, now)
    BY <1>4 DEF Vote
  <2>2. CASE AcceptsVote(eng, id, v)
    <3>1. eng'.proposals = [eng.proposals EXCEPT ![id] = q]
      BY <1>1, <2>1, <2>2, RecordVoteAccepted
    <3>2. Known(eng, id)
      BY <2>2 DEF AcceptsVote
    <3> HIDE DEF q
    <3>3. QED
      BY <1>1, <3>1, <3>2, KnownBefore
  <2>3. CASE ~AcceptsVote(eng, id, v)
    BY <1>1, <1>2, <2>1, <2>3, RecordVoteRefused, EvaluateBootstrapType
  <2>4. QED
    BY <2>2, <2>3
<1>5. ASSUME NEW id \in Ids, Execute(id)
      PROVE  FALSE
  <2> DEFINE q == AsExecuted(eng.proposals[id])
  <2>1. eng' = MarkExecuted(eng, id, now)
    BY <1>5 DEF Execute
  <2>2. CASE Known(eng, id)
    <3>1. eng'.proposals = [eng.proposals EXCEPT ![id] = q]
      BY <1>1, <2>1, <2>2, MarkExecutedType
    <3> HIDE DEF q
    <3>2. QED
      BY <1>1, <2>2, <3>1, KnownBefore
  <2>3. CASE ~Known(eng, id)
    BY <1>1, <1>2, <2>1, <2>3, MarkExecutedType
  <2>4. QED
    BY <2>2, <2>3
<1>6. ASSUME NEW S \in SUBSET Voters, ChangeSupernodes(S)
      PROVE  FALSE
  BY <1>1, <1>2, <1>6, UpdateSupernodesType DEF ChangeSupernodes
<1>7. CASE SetHmacKey
  BY <1>1, <1>2, <1>7 DEF SetHmacKey, Engine
<1>8. CASE ClockChanges \/ UNCHANGED vars
  BY <1>2, <1>8 DEF ClockChanges, vars
<1>9. CASE Restart
  <2>1. CASE disk \in {NoFile, Torn}
    <3>1. eng' = New({}, now)
      BY <1>9, <2>1 DEF Restart
    <3>2. QED
      BY <1>1, <3>1 DEF New, Known
  <2>2. CASE disk \notin {NoFile, Torn}
    <3>1. disk \in Snapshot /\ Progress(disk, eng)
      BY <2>2 DEF IInv, TypeOK, FileBehindEngine
    <3>2. eng'.proposals = disk.proposals
      BY <1>1, <1>9, <2>2, <3>1, RestoreType DEF Restart
    <3>3. Known(disk, i)
      BY <1>1, <3>2 DEF Known
    <3>4. QED
      BY <1>1, <3>1, <3>3 DEF Progress
  <2>3. QED
    BY <2>1, <2>2
<1>10. QED
  BY <1>3, <1>4, <1>5, <1>6, <1>7, <1>8, <1>9 DEF Next

\* A proposal that comes into being executed was created with fewer than two
\* supernodes listed, before bootstrap was left and before its deadline; a
\* restart brings back none that the engine did not have.
THEOREM AutoExecution == Spec => AutoExecutionOnlyInBootstrap
<1>1. IInv /\ [Next]_vars =>
        [\A id \in Ids :
            ~Known(eng, id) /\ Known(eng', id) /\ eng'.proposals[id].executed =>
                /\ Cardinality(eng.supernodes) < 2
                /\ ~eng.exited /\ now <= eng.deadline]_vars
  BY FreshStep DEF Fresh
<1>2. QED
  BY <1>1, Invariance, PTL DEF Spec, AutoExecutionOnlyInBootstrap
=============================================================================
