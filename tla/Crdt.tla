-------------------------------- MODULE Crdt --------------------------------
(***************************************************************************)
(* The replicated types of src/crdt_state.rs and the state a node makes of *)
(* them, as values: every method that takes &mut self is an operator that  *)
(* returns the new value.  Module CrdtReplicas runs them on several nodes. *)
(* What an entry or a value says is abstracted to the update that wrote it.*)
(***************************************************************************)
EXTENDS Integers, FiniteSets

CONSTANTS
    N,          \* the number of nodes
    Peers,      \* the peers of the registry
    Assets      \* the elements of the observed-remove set

ASSUME CrdtAssumption == N \in Nat \ {0}

\* The nodes are numbers, since registers compare node ids.
Replicas == 1..N

\* The greater of two numbers, u64::max.
Greater(a, b) == IF a >= b THEN a ELSE b

-----------------------------------------------------------------------------
(* A register: the last write, by time and then by node id. *)

Register == [value : Nat, ts : Nat, node : Replicas]

Newer(a, b) == a.ts > b.ts \/ (a.ts = b.ts /\ a.node > b.node)

\* Mutant: the value and the time are taken over, the node id is not.
MergeRegisterKeepsNode(a, b) == IF Newer(b, a) THEN [b EXCEPT !.node = a.node] ELSE a

MergeRegister(a, b) == IF Newer(b, a) THEN b ELSE a

-----------------------------------------------------------------------------
(* A set that only grows, with the time each element was first seen; 0 is    *)
(* the time of an element that is not in it.                                 *)

InsertItem(g, item, ts) == [g EXCEPT ![item] = IF @ = 0 THEN ts ELSE @]

MergeGSet(g, h) == [item \in Peers |-> IF g[item] = 0 THEN h[item] ELSE g[item]]

-----------------------------------------------------------------------------
(* Counts per replica: the counter and the vector clock. *)

Increment(c, r, delta) == [c EXCEPT ![r] = @ + delta]

\* Mutants: merge by addition; merge by assignment.
MergeCountsAdds(c, d) == [r \in Replicas |-> c[r] + d[r]]
MergeCountsAssigns(c, d) == d

MergeCounts(c, d) == [r \in Replicas |-> Greater(c[r], d[r])]

-----------------------------------------------------------------------------
(* The observed-remove set: pairs of an element and the tag of its addition, *)
(* and the tags that were removed.                                           *)

AssetSet == [entries : SUBSET (Assets \X Nat), removed : SUBSET Nat]

AddAsset(s, item, tag) == [s EXCEPT !.entries = @ \cup {<<item, tag>>}]

TagsOf(s, item) == {e[2] : e \in {f \in s.entries : f[1] = item}}

\* Mutant: the tags of a removed element are not remembered.
RemoveAssetForgets(s, item) == [s EXCEPT !.entries = {e \in @ : e[1] # item}]

RemoveAsset(s, item) ==
    [entries |-> {e \in s.entries : e[1] # item},
     removed |-> s.removed \cup TagsOf(s, item)]

Contains(s, item) == \E tag \in TagsOf(s, item) : tag \notin s.removed

Elements(s) == {e[1] : e \in s.entries}

\* Mutant: the other node's removals are not taken over.
MergeAssetsKeepsRemoved(s, t) ==
    LET both == [entries |-> s.entries \cup t.entries, removed |-> s.removed]
    IN  [both EXCEPT !.entries = {e \in both.entries : Contains(both, e[1])}]

\* retain: an element stays, with all its tags, while one of them is alive.
MergeAssets(s, t) ==
    LET both == [entries |-> s.entries \cup t.entries, removed |-> s.removed \cup t.removed]
    IN  [both EXCEPT !.entries = {e \in both.entries : Contains(both, e[1])}]

-----------------------------------------------------------------------------
(* The registry: per peer, an entry and its time; 0 is the time of no entry. *)

Entry == [entry : Nat, ts : Nat]
NoEntry == [entry |-> 0, ts |-> 0]

\* Mutant: the times are not compared.
KeepsUnlessGiven(own, other) == other = NoEntry

\* Upsert and merge alike keep what they have unless the other is newer.
Keeps(own, other) == other = NoEntry \/ (own # NoEntry /\ own.ts >= other.ts)
Pick(own, other) == IF Keeps(own, other) THEN own ELSE other

Upsert(m, p, entry, ts) == [m EXCEPT ![p] = Pick(@, [entry |-> entry, ts |-> ts])]

MergeRegistry(m, n) == [p \in Peers |-> Pick(m[p], n[p])]

-----------------------------------------------------------------------------
(* The state of a node; ghost_state is a second register like network_status. *)

WorldState ==
    [clock : [Replicas -> Nat], peers : [Peers -> Entry],
     known : [Peers -> Nat], status : Register, counter : [Replicas -> Nat],
     assets : AssetSet]

NewState(r, value, ts) ==
    [clock   |-> [n \in Replicas |-> 0],
     peers   |-> [p \in Peers |-> NoEntry],
     known   |-> [p \in Peers |-> 0],
     status  |-> [value |-> value, ts |-> ts, node |-> r],
     counter |-> [n \in Replicas |-> 0],
     assets  |-> [entries |-> {}, removed |-> {}]]

Tick(s, r) == [s EXCEPT !.clock = Increment(@, r, 1)]

UpdatePeer(s, r, p, entry, ts) ==
    [Tick(s, r) EXCEPT !.known = InsertItem(@, p, ts),
                       !.peers = Upsert(@, p, entry, ts)]

Merge(s, t) ==
    [clock   |-> MergeCounts(s.clock, t.clock),
     peers   |-> MergeRegistry(s.peers, t.peers),
     known   |-> MergeGSet(s.known, t.known),
     status  |-> MergeRegister(s.status, t.status),
     counter |-> MergeCounts(s.counter, t.counter),
     assets  |-> MergeAssets(s.assets, t.assets)]
=============================================================================
