---------------------------- MODULE CrdtReplicas ----------------------------
(***************************************************************************)
(* Nodes that update a replicated state and send it to each other: the     *)
(* updates and the merge of src/crdt_state.rs, the sync tick of            *)
(* src/control_loop.rs, the crdt_sync handler of                           *)
(* src/network/runtime/events.rs and the load of src/main.rs.  A state that*)
(* was sent may arrive late, more than once, or never.  Every node has a   *)
(* clock of its own, so an update has any time.                            *)
(***************************************************************************)
EXTENDS Crdt

CONSTANTS
    MaxTime,        \* bound on the clocks
    MaxUpdates,     \* bound on the updates, the boots included
    MaxSyncs,       \* bound on the states sent
    MaxRestarts     \* bound on the restarts

ASSUME BoundsAssumption ==
    /\ MaxTime \in Nat \ {0}
    /\ MaxUpdates \in Nat /\ MaxSyncs \in Nat /\ MaxRestarts \in Nat

VARIABLES
    state,      \* CrdtWorldState of each node
    seen,       \* history: the updates each node has made or merged
    sent,       \* the states that were sent, each with what it has seen
    count,      \* updates so far, which numbers them
    syncs,      \* states sent so far
    restarts    \* restarts so far

vars == <<state, seen, sent, count, syncs, restarts>>

Times == 1..MaxTime

\* An update: its number, kind, node, time, subject, and for a removal the
\* additions the node had seen.
Kinds == {"boot", "peer", "status", "count", "add", "remove"}
Update == [id : Nat \ {0}, kind : Kinds, node : Replicas, ts : Times,
           about : Peers \cup Assets \cup Replicas, observed : SUBSET Nat]

CrdtTypeOK ==
    /\ state \in [Replicas -> WorldState]
    /\ seen \in [Replicas -> SUBSET Update]
    /\ sent \subseteq [from : Replicas, state : WorldState, seen : SUBSET Update]
    /\ count \in Nat /\ syncs \in Nat /\ restarts \in Nat

NewUpdate(id, kind, r, ts, about) ==
    [id |-> id, kind |-> kind, node |-> r, ts |-> ts, about |-> about, observed |-> {}]

Boot(r, id, ts) == NewUpdate(id, "boot", r, ts, r)

\* main: the state is new at every start, because the file the handler writes is
\* JSON and it is read as bincode; one tick follows.
Start(r, id, ts) == Tick(NewState(r, id, ts), r)

Init ==
    /\ \E ts \in [Replicas -> Times] :
          /\ state = [r \in Replicas |-> Start(r, r, ts[r])]
          /\ seen = [r \in Replicas |-> {Boot(r, r, ts[r])}]
    /\ sent = {}
    /\ count = N /\ syncs = 0 /\ restarts = 0

-----------------------------------------------------------------------------
(* Updates *)

\* The updates of one kind about one subject.
About(S, kind, x) == {u \in S : u.kind = kind /\ u.about = x}

Updates(r, u, s) ==
    /\ count < MaxUpdates
    /\ count' = count + 1
    /\ state' = [state EXCEPT ![r] = s]
    /\ seen' = [seen EXCEPT ![r] = @ \cup {u}]
    /\ UNCHANGED <<sent, syncs, restarts>>

Id == count + 1

\* update_peer
SeePeer(r, p, ts) ==
    Updates(r, NewUpdate(Id, "peer", r, ts, p), UpdatePeer(state[r], r, p, Id, ts))

\* LwwRegister::set, whatever the time of the value it replaces.
SetStatus(r, ts) ==
    Updates(r, NewUpdate(Id, "status", r, ts, r),
            [state[r] EXCEPT !.status = [value |-> Id, ts |-> ts, node |-> r]])

\* GCounter::increment
Count(r) ==
    Updates(r, NewUpdate(Id, "count", r, 1, r),
            [state[r] EXCEPT !.counter = Increment(@, r, 1)])

\* ORSet::add, with a tag nobody else draws
Add(r, a) ==
    Updates(r, NewUpdate(Id, "add", r, 1, a),
            [state[r] EXCEPT !.assets = AddAsset(@, a, Id)])

\* ORSet::remove
Remove(r, a) ==
    Updates(r, [NewUpdate(Id, "remove", r, 1, a) EXCEPT
                    !.observed = {u.id : u \in About(seen[r], "add", a)}],
            [state[r] EXCEPT !.assets = RemoveAsset(@, a)])

-----------------------------------------------------------------------------
(* Synchronisation *)

\* on_crdt_sync_tick
SyncTick(r) ==
    /\ syncs < MaxSyncs
    /\ syncs' = syncs + 1
    /\ sent' = sent \cup {[from |-> r, state |-> state[r], seen |-> seen[r]]}
    /\ UNCHANGED <<state, seen, count, restarts>>

\* The crdt_sync branch of handle_direct_request.
ReceiveSync(r, m) ==
    /\ m.from # r
    /\ state' = [state EXCEPT ![r] = Merge(@, m.state)]
    /\ seen' = [seen EXCEPT ![r] = @ \cup m.seen]
    /\ UNCHANGED <<sent, count, syncs, restarts>>

Restart(r, ts) ==
    /\ restarts < MaxRestarts /\ count < MaxUpdates
    /\ restarts' = restarts + 1
    /\ count' = count + 1
    /\ state' = [state EXCEPT ![r] = Start(r, Id, ts)]
    /\ seen' = [seen EXCEPT ![r] = {Boot(r, Id, ts)}]
    /\ UNCHANGED <<sent, syncs>>

Next ==
    \/ \E r \in Replicas, p \in Peers, ts \in Times : SeePeer(r, p, ts)
    \/ \E r \in Replicas, ts \in Times : SetStatus(r, ts)
    \/ \E r \in Replicas : Count(r)
    \/ \E r \in Replicas, a \in Assets : Add(r, a)
    \/ \E r \in Replicas, a \in Assets : Remove(r, a)
    \/ \E r \in Replicas : SyncTick(r)
    \/ \E r \in Replicas, m \in sent : ReceiveSync(r, m)
    \/ \E r \in Replicas, ts \in Times : Restart(r, ts)

Spec == Init /\ [][Next]_vars

-----------------------------------------------------------------------------
(* Properties *)

KnownPeers(s) == {p \in Peers : s.known[p] # 0}

\* Strong eventual consistency of the clocks, the counter and the two sets: nodes
\* that have seen the same updates, in whatever order and however often, agree.
Convergence ==
    \A a, b \in Replicas : seen[a] = seen[b] =>
        /\ state[a].clock = state[b].clock
        /\ state[a].counter = state[b].counter
        /\ KnownPeers(state[a]) = KnownPeers(state[b])
        /\ Elements(state[a].assets) = Elements(state[b].assets)

HoldsNewest(e, S) ==
    IF S = {} THEN e = NoEntry
    ELSE \E u \in S : /\ e = [entry |-> u.id, ts |-> u.ts]
                      /\ \A v \in S : v.ts <= u.ts

\* The registry holds one of the newest updates its node has seen of a peer: no
\* merge brings an older entry back.  With distinct times it is the newest.
NewestEntryWins ==
    \A r \in Replicas, p \in Peers :
        HoldsNewest(state[r].peers[p], About(seen[r], "peer", p))

\* The register holds what one of the writes among the updates S wrote.
IsWrite(reg, S) ==
    \E u \in S : /\ u.kind \in {"boot", "status"}
                /\ reg = [value |-> u.id, ts |-> u.ts, node |-> u.node]

\* A register is never torn: its value, its time and its node, which merge takes
\* over one by one and later merges compare, are those of one write, at a start or
\* by set, that the node has made or merged.
RegistersAreWrites ==
    \A r \in Replicas : IsWrite(state[r].status, seen[r])

\* The additions that a removal among the updates S had observed.
Gone(S) == UNION {u.observed : u \in S}

\* What the observed-remove set promises, stated on the updates: an asset is in
\* the set exactly if some addition was seen that no seen removal had observed.
AssetsAreObservedRemove ==
    \A r \in Replicas, a \in Assets :
        /\ Contains(state[r].assets, a)
              <=> \E u \in About(seen[r], "add", a) : u.id \notin Gone(seen[r])
        /\ a \in Elements(state[r].assets) <=> Contains(state[r].assets, a)

\* A total counts every increment its node has seen once, until a node starts
\* anew and forgets its own.
CountsAreComplete ==
    restarts = 0 =>
        \A r, n \in Replicas :
            state[r].counter[n] = Cardinality({u \in seen[r] : u.kind = "count" /\ u.node = n})

\* Nothing a node knows shrinks but by a restart: merges go up.
KnowledgeGrows ==
    [][restarts' # restarts \/ \A r \in Replicas :
          /\ \A n \in Replicas : /\ state[r].clock[n] <= state'[r].clock[n]
                                 /\ state[r].counter[n] <= state'[r].counter[n]
          /\ KnownPeers(state[r]) \subseteq KnownPeers(state'[r])
          /\ state[r].assets.removed \subseteq state'[r].assets.removed
          /\ \A p \in Peers : state[r].peers[p].ts <= state'[r].peers[p].ts]_vars

\* The head of crdt_state.rs: "semua node yang menerima set update yang sama akan
\* converge ke state yang sama" (all nodes that receive the same set of updates
\* converge to the same state), for the registry of peers.
RegistriesConverge ==
    \A a, b \in Replicas : seen[a] = seen[b] => state[a].peers = state[b].peers
=============================================================================
