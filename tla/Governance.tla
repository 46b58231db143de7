----------------------------- MODULE Governance -----------------------------
(***************************************************************************)
(* One voting engine and the file it is saved to: src/governance/engine.rs *)
(* and src/governance/store.rs.  An action is a call of a public method,   *)
(* with the save it ends with, or a restart that loads the file.  The file *)
(* is written in place, so a write that fails or is cut short leaves either*)
(* the old content or a file whose HMAC does not verify.                   *)
(***************************************************************************)
EXTENDS GovernanceEngine

CONSTANTS
    MaxTime,    \* bound on the clock
    NoFile,     \* data/governance.json does not exist
    Torn        \* it exists and load_governance rejects it

ASSUME TimeAssumption == MaxTime \in Nat

VARIABLES
    eng,    \* the engine
    disk,   \* the content of data/governance.json
    now     \* now_secs(), which may be set back

vars == <<eng, disk, now>>

TypeOK ==
    /\ eng \in Engine
    /\ disk \in Snapshot \cup {NoFile, Torn}
    /\ now \in Nat

Init ==
    /\ now \in 0..MaxTime
    /\ disk = NoFile
    /\ \E list \in SUBSET Voters : eng = New(list, now)

\* save_if_possible: nothing without a key; errors are only logged.
SaveIfPossible(e) ==
    IF e.keyed THEN disk' \in {TakeSnapshot(e), disk, Torn}
               ELSE UNCHANGED disk

SetHmacKey ==
    /\ eng' = [eng EXCEPT !.keyed = TRUE]
    /\ UNCHANGED <<disk, now>>

Create(id, target) ==
    /\ ~Known(eng, id)
    /\ eng' = CreateProposal(eng, id, target, now)
    /\ SaveIfPossible(eng')
    /\ UNCHANGED now

Vote(id, voter, ballot) ==
    LET b == EvaluateBootstrap(eng, now)
    IN  /\ eng' = RecordVote(eng, id, voter, ballot, now)
        /\ IF AcceptsVote(b, id, voter) THEN SaveIfPossible(eng') ELSE UNCHANGED disk
        /\ UNCHANGED now

Execute(id) ==
    /\ eng' = MarkExecuted(eng, id, now)
    /\ IF Known(eng, id) THEN SaveIfPossible(eng') ELSE UNCHANGED disk
    /\ UNCHANGED now

\* update_supernodes ends without a save.
ChangeSupernodes(list) ==
    /\ eng' = UpdateSupernodes(eng, list, now)
    /\ UNCHANGED <<disk, now>>

ClockChanges ==
    /\ now' \in 0..MaxTime
    /\ UNCHANGED <<eng, disk>>

\* The process stops at any point and starts again.
Restart ==
    /\ eng' = IF disk \in {NoFile, Torn} THEN New({}, now) ELSE Restore(disk, now)
    /\ UNCHANGED <<disk, now>>

Next ==
    \/ SetHmacKey
    \/ \E id \in Ids, target \in Targets : Create(id, target)
    \/ \E id \in Ids, voter \in Voters, ballot \in Ballot : Vote(id, voter, ballot)
    \/ \E id \in Ids : Execute(id)
    \/ \E list \in SUBSET Voters : ChangeSupernodes(list)
    \/ ClockChanges
    \/ Restart

Spec == Init /\ [][Next]_vars

-----------------------------------------------------------------------------
(* Properties *)

\* Bootstrap mode, in which a proposal is executed without a vote, is only on
\* while fewer than two supernodes are listed: no order of new, load,
\* update_supernodes and an expired deadline leaves it on beside two of them.
BootstrapMeansFewSupernodes == eng.mode => Cardinality(eng.supernodes) < 2

\* q is p at some later moment: an executed proposal is the same for ever, an
\* open one may gain votes, never lose a voter, and may be executed.
Evolves(p, q) ==
    /\ q.target = p.target /\ q.created_at = p.created_at
    /\ q.supernode_count = p.supernode_count
    /\ p.executed => q = p
    /\ Yes(p) \cup No(p) \subseteq Yes(q) \cup No(q)

\* f holds every proposal e holds, at the same or a later stage.
Progress(e, f) ==
    /\ \A id \in Ids :
          Known(e, id) => Known(f, id) /\ Evolves(e.proposals[id], f.proposals[id])
    /\ e.exited => f.exited

\* The file never runs ahead of the engine: what a restart would load is an
\* earlier stage of every proposal it holds, and it has not left bootstrap
\* unless the engine has.  So a restart invents no proposal, vote or decision.
FileBehindEngine == disk \notin {NoFile, Torn} => Progress(disk, eng)

\* Between restarts no call removes or rewrites a proposal: record_vote refuses
\* an executed one and changes nothing but the vote, mark_executed is one-way,
\* and bootstrap mode, once left, is never entered again.
DecisionsAreFinal == [][Restart \/ Progress(eng, eng')]_vars

\* create_proposal executes a proposal on the spot only while fewer than two
\* supernodes are listed, bootstrap was not left and its deadline has not
\* passed.
AutoExecutionOnlyInBootstrap ==
    [][\A id \in Ids :
          ~Known(eng, id) /\ Known(eng', id) /\ eng'.proposals[id].executed =>
              /\ Cardinality(eng.supernodes) < 2
              /\ ~eng.exited /\ now <= eng.deadline]_vars
=============================================================================
