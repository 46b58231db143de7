----------------------------- MODULE CrdtProofs -----------------------------
(***************************************************************************)
(* Theorems about CrdtReplicas, for any number of nodes, peers and assets: *)
(* types, the newest entry wins, the observed-remove set is what its       *)
(* updates say, knowledge only grows, nodes that have seen the same        *)
(* updates agree, and counts are complete.  The invariants say of every    *)
(* state, held or sent, how it follows from the updates it has seen.  The  *)
(* laws of the merge itself are at the end.                                *)
(***************************************************************************)
EXTENDS CrdtReplicas, FiniteSetTheorems, TLAPS

-----------------------------------------------------------------------------
(* The operations keep the type of their component *)

\* GCounter::increment and the tick of the vector clock.
LEMMA IncrementType ==
    ASSUME NEW c \in [Replicas -> Nat], NEW r \in Replicas, NEW d \in Nat
    PROVE  Increment(c, r, d) \in [Replicas -> Nat]
  BY DEF Increment

\* The merge of counts, which takes the greater one.
LEMMA MergeCountsType ==
    ASSUME NEW c \in [Replicas -> Nat], NEW d \in [Replicas -> Nat]
    PROVE  /\ MergeCounts(c, d) \in [Replicas -> Nat]
           /\ \A r \in Replicas : c[r] <= MergeCounts(c, d)[r] /\ d[r] <= MergeCounts(c, d)[r]
  BY DEF MergeCounts, Greater

\* LwwRegister::merge.
LEMMA MergeRegisterType ==
    ASSUME NEW a \in Register, NEW b \in Register
    PROVE  MergeRegister(a, b) \in Register
  BY Zenon DEF MergeRegister

\* GSet::insert and GSet::merge.
LEMMA GSetType ==
    ASSUME NEW g \in [Peers -> Nat], NEW h \in [Peers -> Nat], NEW p \in Peers, NEW ts \in Nat
    PROVE  /\ InsertItem(g, p, ts) \in [Peers -> Nat]
           /\ MergeGSet(g, h) \in [Peers -> Nat]
  BY Zenon DEF InsertItem, MergeGSet

\* The choice between two registry entries.
LEMMA PickType ==
    ASSUME NEW e \in Entry, NEW f \in Entry
    PROVE  /\ Pick(e, f) \in Entry
           /\ e.ts <= Pick(e, f).ts
  BY DEF Pick, Keeps, Entry, NoEntry

\* PeerRegistry::upsert: only the entry of the peer changes.
LEMMA UpsertType ==
    ASSUME NEW m \in [Peers -> Entry], NEW p \in Peers, NEW n \in Nat, NEW ts \in Nat
    PROVE  /\ Upsert(m, p, n, ts) \in [Peers -> Entry]
           /\ Upsert(m, p, n, ts)[p] = Pick(m[p], [entry |-> n, ts |-> ts])
           /\ \A q \in Peers \ {p} : Upsert(m, p, n, ts)[q] = m[q]
<1>1. [entry |-> n, ts |-> ts] \in Entry
  BY Zenon DEF Entry
<1>2. Pick(m[p], [entry |-> n, ts |-> ts]) \in Entry
  BY Zenon, <1>1, PickType
<1>3. QED
  BY Zenon, <1>2 DEF Upsert

\* PeerRegistry::merge.
LEMMA MergeRegistryType ==
    ASSUME NEW m \in [Peers -> Entry], NEW n \in [Peers -> Entry]
    PROVE  /\ MergeRegistry(m, n) \in [Peers -> Entry]
           /\ \A p \in Peers : MergeRegistry(m, n)[p] = Pick(m[p], n[p])
<1>1. \A p \in Peers : Pick(m[p], n[p]) \in Entry
  BY Zenon, PickType
<1>2. QED
  BY Zenon, <1>1 DEF MergeRegistry

\* ORSet::add.
LEMMA AddAssetType ==
    ASSUME NEW s \in AssetSet, NEW a \in Assets, NEW tag \in Nat
    PROVE  /\ AddAsset(s, a, tag) \in AssetSet
           /\ AddAsset(s, a, tag).entries = s.entries \cup {<<a, tag>>}
           /\ AddAsset(s, a, tag).removed = s.removed
  BY DEF AddAsset, AssetSet

\* The tags of an element.
LEMMA TagsOfMember ==
    ASSUME NEW s \in AssetSet, NEW a \in Assets, NEW tag
    PROVE  tag \in TagsOf(s, a) <=> <<a, tag>> \in s.entries
  BY DEF TagsOf, AssetSet

\* ORSet::remove.
LEMMA RemoveAssetType ==
    ASSUME NEW s \in AssetSet, NEW a \in Assets
    PROVE  /\ RemoveAsset(s, a) \in AssetSet
           /\ RemoveAsset(s, a).entries = {e \in s.entries : e[1] # a}
           /\ RemoveAsset(s, a).removed = s.removed \cup TagsOf(s, a)
<1>1. TagsOf(s, a) \subseteq Nat
  BY Zenon DEF TagsOf, AssetSet
<1>2. QED
  BY Zenon, <1>1 DEF RemoveAsset, AssetSet

\* ORSet::merge: both sides, without the elements that have no tag alive.
LEMMA MergeAssetsType ==
    ASSUME NEW s \in AssetSet, NEW t \in AssetSet
    PROVE  LET u == MergeAssets(s, t)
               gone == s.removed \cup t.removed
           IN  /\ u \in AssetSet
               /\ u.removed = gone
               /\ u.entries \subseteq s.entries \cup t.entries
               /\ \A a \in Assets, tag \in Nat :
                     /\ <<a, tag>> \in s.entries \cup t.entries
                     /\ tag \notin gone
                     => <<a, tag>> \in u.entries
               /\ \A e \in u.entries : \E tag \in Nat :
                     <<e[1], tag>> \in u.entries /\ tag \notin gone
<1> DEFINE both == [entries |-> s.entries \cup t.entries, removed |-> s.removed \cup t.removed]
           u == MergeAssets(s, t)
           gone == s.removed \cup t.removed
<1>1. both \in AssetSet /\ both.entries = s.entries \cup t.entries /\ both.removed = gone
  BY Zenon DEF AssetSet
<1>2. /\ u.entries = {e \in both.entries : Contains(both, e[1])}
      /\ u.removed = gone /\ u \in AssetSet
  BY Zenon, <1>1 DEF MergeAssets, AssetSet
<1> HIDE DEF both, u
<1>3. \A a \in Assets : Contains(both, a) <=>
          \E tag \in Nat : <<a, tag>> \in both.entries /\ tag \notin gone
  <2>1. SUFFICES ASSUME NEW a \in Assets
                 PROVE  Contains(both, a) <=>
                            \E tag \in Nat : <<a, tag>> \in both.entries /\ tag \notin gone
    BY Zenon
  <2>2. \A tag : tag \in TagsOf(both, a) <=> <<a, tag>> \in both.entries
    BY Zenon, <1>1, TagsOfMember
  <2>3. \A tag : <<a, tag>> \in both.entries => tag \in Nat
    BY Zenon, <1>1 DEF AssetSet
  <2>4. QED
    BY Zenon, <1>1, <2>2, <2>3 DEF Contains
<1>4. \A e \in both.entries : e[1] \in Assets /\ e[2] \in Nat /\ e = <<e[1], e[2]>>
  BY <1>1 DEF AssetSet
<1>5. u.entries \subseteq s.entries \cup t.entries
  BY Zenon, <1>1, <1>2
<1>6. ASSUME NEW a \in Assets, NEW tag \in Nat,
             <<a, tag>> \in s.entries \cup t.entries, tag \notin gone
      PROVE  <<a, tag>> \in u.entries
  BY Zenon, <1>1, <1>2, <1>3, <1>6
<1>7. ASSUME NEW e \in u.entries
      PROVE  \E tag \in Nat : <<e[1], tag>> \in u.entries /\ tag \notin gone
  <2>1. e \in both.entries /\ e[1] \in Assets /\ Contains(both, e[1])
    BY Zenon, <1>2, <1>4, <1>7
  <2>2. PICK tag \in Nat : <<e[1], tag>> \in both.entries /\ tag \notin gone
    BY Zenon, <1>3, <2>1
  <2>3. <<e[1], tag>> \in u.entries
    BY Zenon, <1>1, <1>6, <2>1, <2>2
  <2>4. QED
    BY Zenon, <2>2, <2>3
<1>8. QED
  BY Zenon, <1>2, <1>5, <1>6, <1>7 DEF u

-----------------------------------------------------------------------------
(* A registry entry and the updates of its peer *)

\* PeerRegistry::upsert with one more update.
LEMMA NewestAfterUpdate ==
    ASSUME NEW S \in SUBSET Update, NEW e \in Entry, HoldsNewest(e, S), NEW u \in Update
    PROVE  HoldsNewest(Pick(e, [entry |-> u.id, ts |-> u.ts]), S \cup {u})
<1> DEFINE f == [entry |-> u.id, ts |-> u.ts]
<1>0. u.id \in Nat \ {0} /\ u.ts \in Nat \ {0} /\ \A v \in S : v.ts \in Nat /\ v.id \in Nat \ {0}
  BY BoundsAssumption DEF Update, Times
<1>1. f # NoEntry
  BY Zenon, <1>0 DEF NoEntry
<1>2. CASE S = {}
  <2>1. e = NoEntry
    BY Zenon, <1>2 DEF HoldsNewest
  <2>2. Pick(e, f) = f
    BY Zenon, <1>1, <2>1 DEF Pick, Keeps
  <2>3. QED
    BY <1>0, <1>2, <2>2 DEF HoldsNewest
<1>3. CASE S # {}
  <2>1. PICK v \in S : e = [entry |-> v.id, ts |-> v.ts] /\ \A w \in S : w.ts <= v.ts
    BY Zenon, <1>3 DEF HoldsNewest
  <2>2. e # NoEntry
    BY Zenon, <1>0, <2>1 DEF NoEntry
  <2>3. CASE v.ts >= u.ts
    <3>1. Pick(e, f) = e
      BY Zenon, <2>1, <2>2, <2>3 DEF Pick, Keeps
    <3>2. QED
      BY Zenon, <1>0, <2>1, <2>3, <3>1 DEF HoldsNewest
  <2>4. CASE v.ts < u.ts
    <3>1. Pick(e, f) = f
      BY <1>0, <1>1, <2>1, <2>2, <2>4 DEF Pick, Keeps
    <3>2. \A w \in S \cup {u} : w.ts <= u.ts
      BY <1>0, <2>1, <2>4
    <3>3. QED
      BY Zenon, <3>1, <3>2 DEF HoldsNewest
  <2>5. QED
    BY <1>0, <2>3, <2>4
<1>4. QED
  BY Zenon, <1>2, <1>3

\* PeerRegistry::merge with the updates of both sides.
LEMMA NewestAfterMerge ==
    ASSUME NEW S \in SUBSET Update, NEW T \in SUBSET Update,
           NEW e \in Entry, NEW f \in Entry, HoldsNewest(e, S), HoldsNewest(f, T)
    PROVE  HoldsNewest(Pick(e, f), S \cup T)
<1>0. \A v \in S \cup T : v.ts \in Nat /\ v.id \in Nat \ {0}
  BY BoundsAssumption DEF Update, Times
<1>1. CASE T = {}
  <2>1. Pick(e, f) = e /\ S \cup T = S
    BY Zenon, <1>1 DEF HoldsNewest, Pick, Keeps
  <2>2. QED
    BY Zenon, <2>1
<1>2. CASE T # {} /\ S = {}
  <2>1. PICK w \in T : f = [entry |-> w.id, ts |-> w.ts] /\ \A x \in T : x.ts <= w.ts
    BY Zenon, <1>2 DEF HoldsNewest
  <2>2. e = NoEntry /\ f # NoEntry
    BY Zenon, <1>0, <1>2, <2>1 DEF HoldsNewest, NoEntry
  <2>3. Pick(e, f) = f /\ S \cup T = T
    BY Zenon, <1>2, <2>2 DEF Pick, Keeps
  <2>4. QED
    BY Zenon, <2>3
<1>3. CASE T # {} /\ S # {}
  <2>1. PICK v \in S : e = [entry |-> v.id, ts |-> v.ts] /\ \A x \in S : x.ts <= v.ts
    BY Zenon, <1>3 DEF HoldsNewest
  <2>2. PICK w \in T : f = [entry |-> w.id, ts |-> w.ts] /\ \A x \in T : x.ts <= w.ts
    BY Zenon, <1>3 DEF HoldsNewest
  <2>3. e # NoEntry /\ f # NoEntry /\ e.ts = v.ts /\ f.ts = w.ts
    BY Zenon, <1>0, <2>1, <2>2 DEF NoEntry
  <2>4. CASE v.ts >= w.ts
    <3>1. Pick(e, f) = e
      BY Zenon, <2>3, <2>4 DEF Pick, Keeps
    <3>2. \A x \in S \cup T : x.ts <= v.ts
      BY <1>0, <2>1, <2>2, <2>4
    <3>3. QED
      BY Zenon, <2>1, <3>1, <3>2 DEF HoldsNewest
  <2>5. CASE v.ts < w.ts
    <3>1. Pick(e, f) = f
      BY <1>0, <2>3, <2>5 DEF Pick, Keeps
    <3>2. \A x \in S \cup T : x.ts <= w.ts
      BY <1>0, <2>1, <2>2, <2>5
    <3>3. QED
      BY Zenon, <2>2, <3>1, <3>2 DEF HoldsNewest
  <2>6. QED
    BY <1>0, <2>4, <2>5
<1>4. QED
  BY Zenon, <1>1, <1>2, <1>3

-----------------------------------------------------------------------------
(* An observed-remove set and the updates it has seen *)

Distinct(S) == \A u, v \in S : u.id = v.id => u = v

\* What is in the set was added; what was added is in it or removed; what was
\* removed is what the removals had observed; and an element that is in it has a
\* tag that is alive.
AssetsAgree(s, S) ==
    /\ \A a \in Assets, tag \in Nat : <<a, tag>> \in s.entries =>
          \E u \in S : u.kind = "add" /\ u.about = a /\ u.id = tag
    /\ \A u \in S : u.kind = "add" =>
          u.about \in Assets /\ (<<u.about, u.id>> \in s.entries \/ u.id \in s.removed)
    /\ s.removed = Gone(S)
    /\ \A a \in Assets, tag \in Nat : <<a, tag>> \in s.entries =>
          \E live \in Nat : <<a, live>> \in s.entries /\ live \notin s.removed

\* An update of another kind, which observes nothing, leaves the agreement alone.
LEMMA AgreeAfterOther ==
    ASSUME NEW S \in SUBSET Update, NEW s \in AssetSet, AssetsAgree(s, S),
           NEW u \in Update, u.kind # "add", u.observed = {}
    PROVE  AssetsAgree(s, S \cup {u})
<1>1. Gone(S \cup {u}) = Gone(S)
  BY Zenon DEF Gone
<1>2. QED
  BY <1>1 DEF AssetsAgree

\* ORSet::add with a tag that no removal has observed.
LEMMA AgreeAfterAdd ==
    ASSUME NEW S \in SUBSET Update, NEW s \in AssetSet, AssetsAgree(s, S),
           NEW a \in Assets, NEW u \in Update,
           u.kind = "add", u.about = a, u.observed = {}, u.id \notin Gone(S)
    PROVE  AssetsAgree(AddAsset(s, a, u.id), S \cup {u})
<1> DEFINE t == AddAsset(s, a, u.id)
<1>1. /\ t.removed = s.removed
      /\ \A b, tag : <<b, tag>> \in t.entries <=>
              <<b, tag>> \in s.entries \/ (b = a /\ tag = u.id)
  BY Zenon DEF AddAsset, AssetSet
<1>2. Gone(S \cup {u}) = Gone(S)
  BY Zenon DEF Gone
<1>3. u.id \in Nat
  BY Zenon DEF Update
<1> HIDE DEF t
<1>4. QED
  BY <1>1, <1>2, <1>3 DEF AssetsAgree, t

\* ORSet::remove, which observes every addition seen of the element.
LEMMA AgreeAfterRemove ==
    ASSUME NEW S \in SUBSET Update, Distinct(S), NEW s \in AssetSet, AssetsAgree(s, S),
           NEW a \in Assets, NEW u \in Update, u.kind = "remove",
           u.observed = {v.id : v \in About(S, "add", a)}
    PROVE  AssetsAgree(RemoveAsset(s, a), S \cup {u})
<1> DEFINE t == RemoveAsset(s, a)
<1>0. \A v \in S : v.id \in Nat
  BY Zenon DEF Update
<1>1. /\ t.removed = s.removed \cup TagsOf(s, a)
      /\ \A b, tag : <<b, tag>> \in t.entries <=> <<b, tag>> \in s.entries /\ b # a
  BY Zenon DEF RemoveAsset, AssetSet
<1>2. \A tag : tag \in TagsOf(s, a) <=> <<a, tag>> \in s.entries
  BY Zenon, TagsOfMember
<1>3. \A tag : tag \in u.observed <=> \E v \in S : v.kind = "add" /\ v.about = a /\ v.id = tag
  BY Zenon DEF About
<1>4. \A tag : tag \in Gone(S \cup {u}) <=> tag \in Gone(S) \/ tag \in u.observed
  BY Zenon DEF Gone
<1>5. \A tag : <<a, tag>> \in s.entries => tag \in Nat
  BY Zenon DEF AssetSet
<1> HIDE DEF t
<1>6. t.removed = Gone(S \cup {u})
  <2>1. s.removed = Gone(S)
    BY Zenon DEF AssetsAgree
  <2>2. ASSUME NEW tag, tag \in TagsOf(s, a)
        PROVE  tag \in u.observed
    <3>1. tag \in Nat /\ <<a, tag>> \in s.entries
      BY Zenon, <1>2, <1>5, <2>2
    <3>2. \E v \in S : v.kind = "add" /\ v.about = a /\ v.id = tag
      BY <3>1 DEF AssetsAgree
    <3>3. QED
      BY ONLY Zenon, <1>3, <3>2
  <2>3. ASSUME NEW tag, tag \in u.observed
        PROVE  tag \in s.removed \cup TagsOf(s, a)
    <3>1. PICK v \in S : v.kind = "add" /\ v.about = a /\ v.id = tag
      BY Zenon, <1>3, <2>3
    <3>2. <<a, tag>> \in s.entries \/ tag \in s.removed
      BY Zenon, <3>1 DEF AssetsAgree
    <3>3. QED
      BY Zenon, <1>2, <3>2
  <2>4. \A tag : tag \in t.removed <=> tag \in Gone(S \cup {u})
    BY ONLY Zenon, <1>1, <1>4, <2>1, <2>2, <2>3
  <2>5. QED
    BY ONLY Zenon, <1>1, <1>4, <2>4 DEF Gone
<1>7. \A b \in Assets, tag \in Nat : <<b, tag>> \in t.entries =>
          \E v \in S \cup {u} : v.kind = "add" /\ v.about = b /\ v.id = tag
  BY <1>1 DEF AssetsAgree
<1>8. \A v \in S \cup {u} : v.kind = "add" =>
          v.about \in Assets /\ (<<v.about, v.id>> \in t.entries \/ v.id \in t.removed)
  BY Zenon, <1>1, <1>2 DEF AssetsAgree
<1>9. ASSUME NEW b \in Assets, NEW tag \in Nat, <<b, tag>> \in t.entries
      PROVE  \E live \in Nat : <<b, live>> \in t.entries /\ live \notin t.removed
  <2>1. <<b, tag>> \in s.entries /\ b # a
    BY Zenon, <1>1, <1>9
  <2>2. PICK live \in Nat : <<b, live>> \in s.entries /\ live \notin s.removed
    BY Zenon, <2>1 DEF AssetsAgree
  <2>3. PICK v \in S : v.kind = "add" /\ v.about = b /\ v.id = live
    BY <2>2 DEF AssetsAgree
  <2>4. <<a, live>> \notin s.entries
    <3>1. SUFFICES ASSUME <<a, live>> \in s.entries PROVE FALSE
      BY Zenon
    <3>2. PICK w \in S : w.kind = "add" /\ w.about = a /\ w.id = live
      BY <3>1 DEF AssetsAgree
    <3>3. v = w
      BY Zenon, <2>3, <3>2 DEF Distinct
    <3>4. QED
      BY Zenon, <2>1, <2>3, <3>2, <3>3
  <2>5. QED
    BY Zenon, <1>1, <1>2, <2>1, <2>2, <2>4
<1>10. QED
  BY Zenon, <1>6, <1>7, <1>8, <1>9 DEF AssetsAgree, t

\* ORSet::merge.
LEMMA AgreeAfterMerge ==
    ASSUME NEW S \in SUBSET Update, NEW T \in SUBSET Update,
           NEW s \in AssetSet, NEW t \in AssetSet, AssetsAgree(s, S), AssetsAgree(t, T)
    PROVE  AssetsAgree(MergeAssets(s, t), S \cup T)
<1> DEFINE m == MergeAssets(s, t)
<1>0. \A v \in S \cup T : v.id \in Nat
  BY Zenon DEF Update
<1>1. /\ m.removed = s.removed \cup t.removed
      /\ m.entries \subseteq s.entries \cup t.entries
      /\ \A a \in Assets, tag \in Nat :
            /\ <<a, tag>> \in s.entries \cup t.entries
            /\ tag \notin m.removed
            => <<a, tag>> \in m.entries
      /\ \A e \in m.entries : \E tag \in Nat :
            <<e[1], tag>> \in m.entries /\ tag \notin m.removed
  <2> DEFINE gone == s.removed \cup t.removed
  <2>1. /\ m.removed = gone
        /\ m.entries \subseteq s.entries \cup t.entries
        /\ \A a \in Assets, tag \in Nat :
              /\ <<a, tag>> \in s.entries \cup t.entries
              /\ tag \notin gone
              => <<a, tag>> \in m.entries
        /\ \A e \in m.entries : \E tag \in Nat :
              <<e[1], tag>> \in m.entries /\ tag \notin gone
    BY Zenon, MergeAssetsType
  <2> HIDE DEF m, gone
  <2>2. QED
    BY Zenon, <2>1 DEF gone
<1> HIDE DEF m
<1>2. Gone(S \cup T) = Gone(S) \cup Gone(T)
  BY Zenon DEF Gone
<1>3. m.removed = Gone(S \cup T)
  BY Zenon, <1>1, <1>2 DEF AssetsAgree
<1>4. \A a \in Assets, tag \in Nat : <<a, tag>> \in m.entries =>
          \E v \in S \cup T : v.kind = "add" /\ v.about = a /\ v.id = tag
  BY <1>1 DEF AssetsAgree
<1>5. \A v \in S \cup T : v.kind = "add" =>
          v.about \in Assets /\ (<<v.about, v.id>> \in m.entries \/ v.id \in m.removed)
  BY Zenon, <1>0, <1>1 DEF AssetsAgree
<1>6. ASSUME NEW a \in Assets, NEW tag \in Nat, <<a, tag>> \in m.entries
      PROVE  \E live \in Nat : <<a, live>> \in m.entries /\ live \notin m.removed
  <2>1. <<a, tag>>[1] = a
    BY Zenon
  <2>2. QED
    BY Zenon, <1>1, <1>6, <2>1
<1>7. QED
  BY Zenon, <1>3, <1>4, <1>5, <1>6 DEF AssetsAgree, m

-----------------------------------------------------------------------------
(* The inductive invariant *)

\* The updates that some node or some state on its way knows of.
Made == (UNION {seen[r] : r \in Replicas}) \cup (UNION {m.seen : m \in sent})

Numbered(S, n) == /\ Distinct(S)
                  /\ \A u \in S : u.id <= n /\ \A i \in u.observed : i <= n

Agrees(s, S) == /\ \A p \in Peers : HoldsNewest(s.peers[p], About(S, "peer", p))
                /\ AssetsAgree(s.assets, S)

IInv == /\ CrdtTypeOK
        /\ Numbered(Made, count)
        /\ \A r \in Replicas : Agrees(state[r], seen[r])
        /\ \A m \in sent : Agrees(m.state, m.seen)

\* The fields of a state have their types.
LEMMA StateFields ==
    ASSUME NEW s \in WorldState
    PROVE  /\ s.clock \in [Replicas -> Nat] /\ s.peers \in [Peers -> Entry]
           /\ s.known \in [Peers -> Nat] /\ s.status \in Register
           /\ s.counter \in [Replicas -> Nat] /\ s.assets \in AssetSet
  BY Zenon DEF WorldState

\* A state that starts has seen only its boot.
LEMMA StartAgrees ==
    ASSUME NEW r \in Replicas, NEW id \in Nat \ {0}, NEW ts \in Times
    PROVE  /\ Start(r, id, ts) \in WorldState
           /\ Boot(r, id, ts) \in Update
           /\ Agrees(Start(r, id, ts), {Boot(r, id, ts)})
<1> DEFINE new == NewState(r, id, ts)
           s == Start(r, id, ts)
           u == Boot(r, id, ts)
<1>0. ts \in Nat /\ 0 \in Nat
  BY BoundsAssumption DEF Times
<1>1. NoEntry \in Entry
  BY Zenon DEF NoEntry, Entry
<1>2. new \in WorldState
  <2>1. [value |-> id, ts |-> ts, node |-> r] \in Register
    BY Zenon, <1>0 DEF Register
  <2>2. [entries |-> {}, removed |-> {}] \in AssetSet
    BY Zenon DEF AssetSet
  <2>3. QED
    BY Zenon, <1>0, <1>1, <2>1, <2>2 DEF NewState, WorldState
<1>3. Increment(new.clock, r, 1) \in [Replicas -> Nat]
  BY Zenon, <1>2, StateFields, IncrementType
<1>4. s = [new EXCEPT !.clock = Increment(new.clock, r, 1)]
  BY Zenon DEF Start, Tick
<1>5. s \in WorldState /\ s.peers = new.peers /\ s.assets = new.assets
  BY Zenon, <1>2, <1>3, <1>4 DEF WorldState
<1>6. u \in Update /\ u.kind = "boot" /\ u.observed = {}
  BY Zenon DEF Boot, NewUpdate, Update, Kinds
<1>7. \A p \in Peers : s.peers[p] = NoEntry
  BY Zenon, <1>5 DEF NewState
<1>8. s.assets.entries = {} /\ s.assets.removed = {}
  BY <1>5 DEF NewState
<1> HIDE DEF s, u
<1>9. \A p \in Peers : HoldsNewest(s.peers[p], About({u}, "peer", p))
  BY Zenon, <1>6, <1>7 DEF HoldsNewest, About
<1>10. Gone({u}) = {}
  BY Zenon, <1>6 DEF Gone
<1>11. AssetsAgree(s.assets, {u})
  BY Zenon, <1>6, <1>8, <1>10 DEF AssetsAgree
<1>12. QED
  BY Zenon, <1>5, <1>6, <1>9, <1>11 DEF Agrees, s, u

\* A step that makes one update keeps the numbers distinct.
LEMMA NumberedAfterUpdate ==
    ASSUME NEW S \in SUBSET Update, NEW T, NEW n \in Nat, Numbered(S, n), NEW u \in Update,
           u.id = n + 1, \A i \in u.observed : i <= n, T \subseteq S \cup {u}
    PROVE  Numbered(T, n + 1)
<1>1. \A v \in S : v.id \in Nat /\ v.observed \subseteq Nat
  BY Zenon DEF Update
<1>2. u.observed \subseteq Nat
  BY Zenon DEF Update
<1>3. \A v \in T : v \in S \/ v = u
  BY Zenon
<1>4. Distinct(T)
  BY <1>1, <1>3 DEF Distinct, Numbered
<1>5. \A v \in T : v.id <= n + 1 /\ \A i \in v.observed : i <= n + 1
  BY <1>1, <1>2, <1>3 DEF Numbered
<1>6. QED
  BY Zenon, <1>4, <1>5 DEF Numbered

\* What is made is made of updates.
LEMMA MadeType ==
    ASSUME CrdtTypeOK
    PROVE  /\ Made \in SUBSET Update
           /\ \A r \in Replicas : seen[r] \subseteq Made
           /\ \A m \in sent : m.seen \subseteq Made
<1>1. \A r \in Replicas : seen[r] \subseteq Update
  BY Zenon DEF CrdtTypeOK
<1>2. \A m \in sent : m.seen \subseteq Update
  BY Zenon DEF CrdtTypeOK
<1>3. \A u : u \in Made <=> (\E r \in Replicas : u \in seen[r]) \/ (\E m \in sent : u \in m.seen)
  BY Zenon DEF Made
<1>4. \A u \in Made : u \in Update
  BY Zenon, <1>1, <1>2, <1>3
<1>5. QED
  BY Zenon, <1>3, <1>4

\* The invariant after an update u of node r that makes its state s.
LEMMA UpdateStep ==
    ASSUME IInv, NEW r \in Replicas, NEW u \in Update, u.id = Id,
           \A i \in u.observed : i <= count,
           NEW s \in WorldState, Agrees(s, seen[r] \cup {u}), Updates(r, u, s)
    PROVE  IInv'
<1>0. CrdtTypeOK /\ count \in Nat
  BY Zenon DEF IInv, CrdtTypeOK
<1>1. /\ state' = [state EXCEPT ![r] = s] /\ seen' = [seen EXCEPT ![r] = @ \cup {u}]
      /\ count' = count + 1 /\ sent' = sent /\ syncs' = syncs /\ restarts' = restarts
  BY Zenon DEF Updates
<1>2. CrdtTypeOK'
  BY <1>0, <1>1 DEF CrdtTypeOK
<1>3. /\ \A q \in Replicas : state'[q] = IF q = r THEN s ELSE state[q]
      /\ \A q \in Replicas : seen'[q] = IF q = r THEN seen[r] \cup {u} ELSE seen[q]
  BY Zenon, <1>0, <1>1 DEF CrdtTypeOK
<1>4. Made' \subseteq Made \cup {u}
  BY <1>1, <1>3 DEF Made
<1>5. Numbered(Made, count)' 
  <2>1. Numbered(Made', count + 1)
    BY Zenon, <1>0, <1>4, MadeType, NumberedAfterUpdate DEF IInv, Id
  <2>2. QED
    BY Zenon, <1>1, <2>1 DEF Numbered, Distinct
<1>6. \A q \in Replicas : Agrees(state'[q], seen'[q])
  BY Zenon, <1>3 DEF IInv
<1>7. \A m \in sent' : Agrees(m.state, m.seen)
  BY Zenon, <1>1 DEF IInv
<1>8. QED
  BY Zenon, <1>2, <1>5, <1>6, <1>7 DEF IInv, Agrees, AssetsAgree, HoldsNewest, About, Gone

\* An update that is about no peer and no asset keeps the agreement of a state
\* whose registry and assets it leaves alone.
LEMMA OtherUpdateAgrees ==
    ASSUME NEW S \in SUBSET Update, NEW s \in WorldState, NEW t \in WorldState,
           Agrees(s, S), t.peers = s.peers, t.assets = s.assets, NEW u \in Update,
           u.kind \notin {"peer", "add"}, u.observed = {}
    PROVE  Agrees(t, S \cup {u})
<1>1. \A p : About(S \cup {u}, "peer", p) = About(S, "peer", p)
  BY Zenon DEF About
<1>2. s.assets \in AssetSet
  BY Zenon, StateFields
<1>3. AssetsAgree(s.assets, S \cup {u})
  BY Zenon, <1>2, AgreeAfterOther DEF Agrees
<1>4. QED
  BY Zenon, <1>1, <1>3 DEF Agrees

\* Updates have their type.
LEMMA NewUpdateType ==
    ASSUME NEW id \in Nat \ {0}, NEW kind \in Kinds, NEW r \in Replicas, NEW ts \in Times,
           NEW x \in Peers \cup Assets \cup Replicas
    PROVE  LET u == NewUpdate(id, kind, r, ts, x)
           IN  /\ u \in Update /\ u.id = id /\ u.kind = kind /\ u.ts = ts
               /\ u.about = x /\ u.observed = {}
  BY Zenon DEF NewUpdate, Update

-----------------------------------------------------------------------------
(* The actions keep the invariant *)

\* The facts every update action starts from.
LEMMA UpdateFacts ==
    ASSUME IInv, NEW r \in Replicas
    PROVE  /\ state[r] \in WorldState /\ seen[r] \in SUBSET Update
           /\ Agrees(state[r], seen[r]) /\ Id \in Nat \ {0} /\ count \in Nat
           /\ Distinct(seen[r]) /\ Id \notin Gone(seen[r])
           /\ \A u \in seen[r] : u.id <= count
           /\ 1 \in Times /\ Times \subseteq Nat
<1>1. CrdtTypeOK /\ Numbered(Made, count)
  BY Zenon DEF IInv
<1>2. /\ state[r] \in WorldState /\ seen[r] \in SUBSET Update /\ count \in Nat
      /\ Agrees(state[r], seen[r])
  BY Zenon, <1>1 DEF CrdtTypeOK, IInv
<1>3. seen[r] \subseteq Made
  BY Zenon, <1>1, MadeType
<1>4. Distinct(seen[r])
  BY Zenon, <1>1, <1>3 DEF Numbered, Distinct
<1>5. \A u \in seen[r] : u.id <= count /\ \A i \in u.observed : i <= count
  BY Zenon, <1>1, <1>3 DEF Numbered
<1>6. \A i : i \in Gone(seen[r]) => \E u \in seen[r] : i \in u.observed
  BY Zenon DEF Gone
<1>7. ~(count + 1 <= count)
  BY <1>2
<1>8. Id \notin Gone(seen[r])
  BY Zenon, <1>5, <1>6, <1>7 DEF Id
<1>9. 1 \in Times /\ Times \subseteq Nat /\ Id \in Nat \ {0}
  BY <1>2, BoundsAssumption DEF Times, Id
<1>10. QED
  BY Zenon, <1>2, <1>4, <1>5, <1>8, <1>9

\* update_peer.
LEMMA SeePeerStep ==
    ASSUME IInv, NEW r \in Replicas, NEW p \in Peers, NEW ts \in Times, SeePeer(r, p, ts)
    PROVE  IInv'
<1> DEFINE s == state[r]
           u == NewUpdate(Id, "peer", r, ts, p)
           t == UpdatePeer(s, r, p, Id, ts)
           new == [entry |-> Id, ts |-> ts]
<1>0. /\ s \in WorldState /\ seen[r] \in SUBSET Update /\ Agrees(s, seen[r])
      /\ Id \in Nat \ {0} /\ ts \in Nat
  BY Zenon, UpdateFacts
<1>1. u \in Update /\ u.id = Id /\ u.kind = "peer" /\ u.ts = ts /\ u.about = p /\ u.observed = {}
  BY <1>0, NewUpdateType DEF Kinds
<1>2. /\ Increment(s.clock, r, 1) \in [Replicas -> Nat]
      /\ InsertItem(s.known, p, ts) \in [Peers -> Nat]
      /\ Upsert(s.peers, p, Id, ts) \in [Peers -> Entry]
  BY Zenon, <1>0, StateFields, IncrementType, GSetType, UpsertType
<1>3. /\ t \in WorldState /\ t.assets = s.assets /\ t.peers = Upsert(s.peers, p, Id, ts)
  BY Zenon, <1>0, <1>2 DEF UpdatePeer, Tick, WorldState
<1>4. /\ t.peers[p] = Pick(s.peers[p], new)
      /\ \A q \in Peers \ {p} : t.peers[q] = s.peers[q]
  <2>1. s.peers \in [Peers -> Entry]
    BY Zenon, <1>0, StateFields
  <2> HIDE DEF s, t
  <2>2. QED
    BY <1>0, <1>3, <2>1, UpsertType
<1> HIDE DEF u, t, s
<1>5. Updates(r, u, t)
  BY Zenon DEF SeePeer, u, t, s
<1>6. \A q \in Peers : HoldsNewest(t.peers[q], About(seen[r] \cup {u}, "peer", q))
  <2>1. SUFFICES ASSUME NEW q \in Peers
                 PROVE  HoldsNewest(t.peers[q], About(seen[r] \cup {u}, "peer", q))
    BY Zenon
  <2>2. CASE q = p
    <3>1. About(seen[r] \cup {u}, "peer", p) = About(seen[r], "peer", p) \cup {u}
      BY Zenon, <1>1 DEF About
    <3>2. s.peers[p] \in Entry /\ HoldsNewest(s.peers[p], About(seen[r], "peer", p))
      BY Zenon, <1>0, StateFields DEF Agrees
    <3>3. About(seen[r], "peer", p) \in SUBSET Update
      BY Zenon, <1>0 DEF About
    <3>4. HoldsNewest(Pick(s.peers[p], [entry |-> u.id, ts |-> u.ts]),
                      About(seen[r], "peer", p) \cup {u})
      BY Zenon, <1>1, <3>2, <3>3, NewestAfterUpdate
    <3>5. QED
      BY Zenon, <1>1, <1>4, <2>2, <3>1, <3>4
  <2>3. CASE q # p
    <3>1. About(seen[r] \cup {u}, "peer", q) = About(seen[r], "peer", q)
      BY Zenon, <1>1, <2>3 DEF About
    <3>2. QED
      BY Zenon, <1>0, <1>4, <2>3, <3>1 DEF Agrees
  <2>4. QED
    BY Zenon, <2>2, <2>3
<1>7. AssetsAgree(t.assets, seen[r] \cup {u})
  BY Zenon, <1>0, <1>1, <1>3, StateFields, AgreeAfterOther DEF Agrees
<1>8. QED
  BY Zenon, <1>1, <1>3, <1>5, <1>6, <1>7, UpdateStep DEF Agrees

\* LwwRegister::set and GCounter::increment, which touch no peer and no asset.
LEMMA PlainStep ==
    ASSUME IInv, NEW r \in Replicas, NEW ts \in Times, SetStatus(r, ts) \/ Count(r)
    PROVE  IInv'
<1>0. /\ state[r] \in WorldState /\ seen[r] \in SUBSET Update /\ Agrees(state[r], seen[r])
      /\ Id \in Nat \ {0} /\ ts \in Nat /\ 1 \in Times
  BY Zenon, UpdateFacts
<1>1. CASE SetStatus(r, ts)
  <2> DEFINE u == NewUpdate(Id, "status", r, ts, r)
             value == [value |-> Id, ts |-> ts, node |-> r]
             t == [state[r] EXCEPT !.status = value]
  <2>1. u \in Update /\ u.id = Id /\ u.kind = "status" /\ u.observed = {}
    BY <1>0, NewUpdateType DEF Kinds
  <2>2. value \in Register
    BY Zenon, <1>0 DEF Register
  <2>3. t \in WorldState /\ t.peers = state[r].peers /\ t.assets = state[r].assets
    BY Zenon, <1>0, <2>2 DEF WorldState
  <2>4. Updates(r, u, t)
    BY Zenon, <1>1 DEF SetStatus
  <2> HIDE DEF u, t
  <2>5. Agrees(t, seen[r] \cup {u})
    BY Zenon, <1>0, <2>1, <2>3, OtherUpdateAgrees
  <2>6. QED
    BY Zenon, <2>1, <2>3, <2>4, <2>5, UpdateStep
<1>2. CASE Count(r)
  <2> DEFINE u == NewUpdate(Id, "count", r, 1, r)
             t == [state[r] EXCEPT !.counter = Increment(state[r].counter, r, 1)]
  <2>1. u \in Update /\ u.id = Id /\ u.kind = "count" /\ u.observed = {}
    BY <1>0, NewUpdateType DEF Kinds
  <2>2. Increment(state[r].counter, r, 1) \in [Replicas -> Nat]
    BY Zenon, <1>0, StateFields, IncrementType
  <2>3. t \in WorldState /\ t.peers = state[r].peers /\ t.assets = state[r].assets
    BY Zenon, <1>0, <2>2 DEF WorldState
  <2>4. Updates(r, u, t)
    BY Zenon, <1>2 DEF Count
  <2> HIDE DEF u, t
  <2>5. Agrees(t, seen[r] \cup {u})
    BY Zenon, <1>0, <2>1, <2>3, OtherUpdateAgrees
  <2>6. QED
    BY Zenon, <2>1, <2>3, <2>4, <2>5, UpdateStep
<1>3. QED
  BY Zenon, <1>1, <1>2

\* ORSet::add and ORSet::remove.
LEMMA AssetStep ==
    ASSUME IInv, NEW r \in Replicas, NEW a \in Assets, Add(r, a) \/ Remove(r, a)
    PROVE  IInv'
<1> DEFINE S == seen[r]
           s == state[r].assets
<1>0. /\ state[r] \in WorldState /\ S \in SUBSET Update /\ Agrees(state[r], S)
      /\ Id \in Nat \ {0} /\ 1 \in Times /\ Distinct(S) /\ Id \notin Gone(S)
      /\ \A u \in S : u.id <= count
  BY Zenon, UpdateFacts
<1>1. s \in AssetSet /\ AssetsAgree(s, S)
  BY Zenon, <1>0, StateFields DEF Agrees
<1>2. CASE Add(r, a)
  <2> DEFINE u == NewUpdate(Id, "add", r, 1, a)
             t == [state[r] EXCEPT !.assets = AddAsset(s, a, Id)]
  <2>1. u \in Update /\ u.id = Id /\ u.kind = "add" /\ u.about = a /\ u.observed = {}
    BY <1>0, NewUpdateType DEF Kinds
  <2>2. AddAsset(s, a, Id) \in AssetSet
    BY Zenon, <1>0, <1>1, AddAssetType
  <2>3. t \in WorldState /\ t.peers = state[r].peers /\ t.assets = AddAsset(s, a, Id)
    BY Zenon, <1>0, <2>2 DEF WorldState
  <2>4. Updates(r, u, t)
    BY Zenon, <1>2 DEF Add
  <2> HIDE DEF u, t, s, S
  <2>5. \A p : About(S \cup {u}, "peer", p) = About(S, "peer", p)
    BY Zenon, <2>1 DEF About
  <2>6. AssetsAgree(t.assets, S \cup {u})
    BY <1>0, <1>1, <2>1, <2>3, AgreeAfterAdd
  <2>7. Agrees(t, S \cup {u})
    BY Zenon, <1>0, <2>3, <2>5, <2>6 DEF Agrees
  <2>8. QED
    BY Zenon, <2>1, <2>3, <2>4, <2>7, UpdateStep DEF S
<1>3. CASE Remove(r, a)
  <2> DEFINE ids == {v.id : v \in About(S, "add", a)}
             u == [NewUpdate(Id, "remove", r, 1, a) EXCEPT !.observed = ids]
             t == [state[r] EXCEPT !.assets = RemoveAsset(s, a)]
  <2>0. ids \subseteq Nat /\ \A i \in ids : i <= count
    BY Zenon, <1>0 DEF About, Update
  <2>1. u \in Update /\ u.id = Id /\ u.kind = "remove" /\ u.observed = ids
    BY Zenon, <1>0, <2>0 DEF NewUpdate, Update, Kinds
  <2>2. RemoveAsset(s, a) \in AssetSet
    BY Zenon, <1>0, <1>1, RemoveAssetType
  <2>3. t \in WorldState /\ t.peers = state[r].peers /\ t.assets = RemoveAsset(s, a)
    BY Zenon, <1>0, <2>2 DEF WorldState
  <2>4. Updates(r, u, t)
    BY Zenon, <1>3 DEF Remove
  <2> HIDE DEF u, t, s, S
  <2>5. \A p : About(S \cup {u}, "peer", p) = About(S, "peer", p)
    BY Zenon, <2>1 DEF About
  <2>6. AssetsAgree(t.assets, S \cup {u})
    BY <1>0, <1>1, <2>1, <2>3, AgreeAfterRemove
  <2>7. Agrees(t, S \cup {u})
    BY Zenon, <1>0, <2>3, <2>5, <2>6 DEF Agrees
  <2>8. QED
    BY Zenon, <2>0, <2>1, <2>3, <2>4, <2>7, UpdateStep DEF S
<1>4. QED
  BY Zenon, <1>2, <1>3

\* on_crdt_sync_tick.
LEMMA SyncTickStep ==
    ASSUME IInv, NEW r \in Replicas, SyncTick(r)
    PROVE  IInv'
<1> DEFINE m == [from |-> r, state |-> state[r], seen |-> seen[r]]
<1>0. CrdtTypeOK /\ Numbered(Made, count)
  BY Zenon DEF IInv
<1>1. /\ sent' = sent \cup {m} /\ syncs' = syncs + 1
      /\ state' = state /\ seen' = seen /\ count' = count /\ restarts' = restarts
  BY Zenon DEF SyncTick
<1>2. CrdtTypeOK'
  BY <1>0, <1>1 DEF CrdtTypeOK
<1>3. Made' \subseteq Made
  BY <1>1 DEF Made
<1>4. Numbered(Made, count)'
  BY Zenon, <1>0, <1>1, <1>3 DEF Numbered, Distinct
<1>5. Agrees(m.state, m.seen)
  BY Zenon DEF IInv
<1>6. \A n \in sent' : Agrees(n.state, n.seen)
  BY Zenon, <1>1, <1>5 DEF IInv
<1>7. \A q \in Replicas : Agrees(state'[q], seen'[q])
  BY Zenon, <1>1 DEF IInv
<1>8. QED
  BY Zenon, <1>2, <1>4, <1>6, <1>7 DEF IInv, Agrees, AssetsAgree, HoldsNewest, About, Gone

\* CrdtWorldState::merge: the result is a state that agrees with the updates of
\* both sides.
LEMMA MergeAgrees ==
    ASSUME NEW S \in SUBSET Update, NEW T \in SUBSET Update,
           NEW s \in WorldState, NEW t \in WorldState, Agrees(s, S), Agrees(t, T)
    PROVE  Merge(s, t) \in WorldState /\ Agrees(Merge(s, t), S \cup T)
<1> DEFINE m == Merge(s, t)
<1>1. /\ s.clock \in [Replicas -> Nat] /\ s.peers \in [Peers -> Entry]
      /\ s.known \in [Peers -> Nat] /\ s.status \in Register
      /\ s.counter \in [Replicas -> Nat] /\ s.assets \in AssetSet
  BY Zenon, StateFields
<1>2. /\ t.clock \in [Replicas -> Nat] /\ t.peers \in [Peers -> Entry]
      /\ t.known \in [Peers -> Nat] /\ t.status \in Register
      /\ t.counter \in [Replicas -> Nat] /\ t.assets \in AssetSet
  BY Zenon, StateFields
<1>3. /\ MergeCounts(s.clock, t.clock) \in [Replicas -> Nat]
      /\ MergeCounts(s.counter, t.counter) \in [Replicas -> Nat]
  BY Zenon, <1>1, <1>2, MergeCountsType
<1>4. MergeRegistry(s.peers, t.peers) \in [Peers -> Entry]
  BY Zenon, <1>1, <1>2, MergeRegistryType
<1>5. MergeRegister(s.status, t.status) \in Register
  BY Zenon, <1>1, <1>2, MergeRegisterType
<1>6. MergeAssets(s.assets, t.assets) \in AssetSet
  BY Zenon, <1>1, <1>2, MergeAssetsType
<1>7. MergeGSet(s.known, t.known) \in [Peers -> Nat]
  BY Zenon, <1>1, <1>2 DEF MergeGSet
<1>8. m \in WorldState
  BY Zenon, <1>3, <1>4, <1>5, <1>6, <1>7 DEF Merge, WorldState
<1>9. m.peers = MergeRegistry(s.peers, t.peers) /\ m.assets = MergeAssets(s.assets, t.assets)
  BY Zenon DEF Merge
<1> HIDE DEF m
<1>10. ASSUME NEW p \in Peers
       PROVE  HoldsNewest(m.peers[p], About(S \cup T, "peer", p))
  <2>1. m.peers[p] = Pick(s.peers[p], t.peers[p])
    BY Zenon, <1>9 DEF MergeRegistry
  <2>2. About(S \cup T, "peer", p) = About(S, "peer", p) \cup About(T, "peer", p)
    BY Zenon DEF About
  <2>3. About(S, "peer", p) \in SUBSET Update /\ About(T, "peer", p) \in SUBSET Update
    BY Zenon DEF About
  <2>4. /\ s.peers[p] \in Entry /\ HoldsNewest(s.peers[p], About(S, "peer", p))
        /\ t.peers[p] \in Entry /\ HoldsNewest(t.peers[p], About(T, "peer", p))
    BY Zenon, <1>1, <1>2 DEF Agrees
  <2>5. HoldsNewest(Pick(s.peers[p], t.peers[p]), About(S, "peer", p) \cup About(T, "peer", p))
    BY ONLY Zenon, <2>3, <2>4, NewestAfterMerge
  <2>6. QED
    BY ONLY Zenon, <2>1, <2>2, <2>5
<1>11. AssetsAgree(m.assets, S \cup T)
  BY Zenon, <1>1, <1>2, <1>9, AgreeAfterMerge DEF Agrees
<1>12. QED
  BY Zenon, <1>8, <1>10, <1>11 DEF Agrees, m

\* The crdt_sync branch of handle_direct_request.
LEMMA ReceiveSyncStep ==
    ASSUME IInv, NEW r \in Replicas, NEW m \in sent, ReceiveSync(r, m)
    PROVE  IInv'
<1> DEFINE t == Merge(state[r], m.state)
<1>0. /\ CrdtTypeOK /\ Numbered(Made, count) /\ Agrees(state[r], seen[r])
      /\ Agrees(m.state, m.seen)
  BY Zenon DEF IInv
<1>1. /\ state[r] \in WorldState /\ seen[r] \in SUBSET Update
      /\ m.state \in WorldState /\ m.seen \in SUBSET Update
  BY Zenon, <1>0 DEF CrdtTypeOK
<1>2. t \in WorldState /\ Agrees(t, seen[r] \cup m.seen)
  BY Zenon, <1>0, <1>1, MergeAgrees
<1>3. /\ state' = [state EXCEPT ![r] = t] /\ seen' = [seen EXCEPT ![r] = @ \cup m.seen]
      /\ sent' = sent /\ count' = count /\ syncs' = syncs /\ restarts' = restarts
  BY Zenon DEF ReceiveSync
<1> HIDE DEF t
<1>4. CrdtTypeOK'
  BY Zenon, <1>0, <1>1, <1>2, <1>3 DEF CrdtTypeOK
<1>5. /\ \A q \in Replicas : state'[q] = IF q = r THEN t ELSE state[q]
      /\ \A q \in Replicas : seen'[q] = IF q = r THEN seen[r] \cup m.seen ELSE seen[q]
  BY Zenon, <1>0, <1>3 DEF CrdtTypeOK
<1>6. Made' \subseteq Made
  BY <1>3, <1>5 DEF Made
<1>7. Numbered(Made, count)'
  BY Zenon, <1>0, <1>3, <1>6 DEF Numbered, Distinct
<1>8. \A q \in Replicas : Agrees(state'[q], seen'[q])
  BY Zenon, <1>2, <1>5 DEF IInv
<1>9. \A n \in sent' : Agrees(n.state, n.seen)
  BY Zenon, <1>3 DEF IInv
<1>10. QED
  BY Zenon, <1>4, <1>7, <1>8, <1>9 DEF IInv, Agrees, AssetsAgree, HoldsNewest, About, Gone

\* A start, which begins with a new state and a new register value.
LEMMA RestartStep ==
    ASSUME IInv, NEW r \in Replicas, NEW ts \in Times, Restart(r, ts)
    PROVE  IInv'
<1> DEFINE u == Boot(r, Id, ts)
           t == Start(r, Id, ts)
<1>0. CrdtTypeOK /\ Numbered(Made, count) /\ count \in Nat /\ Id \in Nat \ {0}
  BY Zenon, UpdateFacts DEF IInv
<1>1. t \in WorldState /\ u \in Update /\ Agrees(t, {u})
  BY Zenon, <1>0, StartAgrees
<1>2. u.id = count + 1 /\ u.observed = {}
  BY Zenon DEF Boot, NewUpdate, Id
<1>3. /\ state' = [state EXCEPT ![r] = t] /\ seen' = [seen EXCEPT ![r] = {u}]
      /\ count' = count + 1 /\ restarts' = restarts + 1 /\ sent' = sent /\ syncs' = syncs
  BY Zenon DEF Restart
<1> HIDE DEF t, u
<1>4. CrdtTypeOK'
  BY <1>0, <1>1, <1>3 DEF CrdtTypeOK
<1>5. /\ \A q \in Replicas : state'[q] = IF q = r THEN t ELSE state[q]
      /\ \A q \in Replicas : seen'[q] = IF q = r THEN {u} ELSE seen[q]
  BY Zenon, <1>0, <1>3 DEF CrdtTypeOK
<1>6. Made' \subseteq Made \cup {u}
  BY <1>3, <1>5 DEF Made
<1>7. Numbered(Made', count + 1)
  BY Zenon, <1>0, <1>1, <1>2, <1>6, MadeType, NumberedAfterUpdate
<1>8. Numbered(Made, count)'
  BY Zenon, <1>3, <1>7 DEF Numbered, Distinct
<1>9. \A q \in Replicas : Agrees(state'[q], seen'[q])
  BY Zenon, <1>1, <1>5 DEF IInv
<1>10. \A n \in sent' : Agrees(n.state, n.seen)
  BY Zenon, <1>3 DEF IInv
<1>11. QED
  BY Zenon, <1>4, <1>8, <1>9, <1>10 DEF IInv, Agrees, AssetsAgree, HoldsNewest, About, Gone

\* The states that the nodes start from.
LEMMA InitStep ==
    ASSUME Init
    PROVE  IInv
<1>1. PICK ts \in [Replicas -> Times] :
          /\ state = [r \in Replicas |-> Start(r, r, ts[r])]
          /\ seen = [r \in Replicas |-> {Boot(r, r, ts[r])}]
  BY Zenon DEF Init
<1>2. sent = {} /\ count = N /\ syncs = 0 /\ restarts = 0
  BY Zenon DEF Init
<1>3. \A r \in Replicas : r \in Nat \ {0} /\ r <= N /\ ts[r] \in Times
  BY CrdtAssumption DEF Replicas
<1>4. \A r \in Replicas : /\ state[r] \in WorldState /\ seen[r] \in SUBSET Update
                          /\ Agrees(state[r], seen[r])
  BY Zenon, <1>1, <1>3, StartAgrees
<1>5. CrdtTypeOK
  BY Zenon, <1>1, <1>2, <1>4, CrdtAssumption DEF CrdtTypeOK
<1>6. \A u \in Made : \E r \in Replicas : u = Boot(r, r, ts[r])
  BY Zenon, <1>1, <1>2 DEF Made
<1>7. \A r \in Replicas : Boot(r, r, ts[r]).id = r /\ Boot(r, r, ts[r]).observed = {}
  BY Zenon DEF Boot, NewUpdate
<1>8. Numbered(Made, count)
  BY <1>2, <1>3, <1>6, <1>7 DEF Numbered, Distinct
<1>9. QED
  BY Zenon, <1>2, <1>4, <1>5, <1>8 DEF IInv

-----------------------------------------------------------------------------
(* The theorems *)

\* Every state, held or sent, agrees with the updates it has seen, whatever the
\* nodes do and however the states travel.
THEOREM Invariance == Spec => []IInv
<1>1. Init => IInv
  BY Zenon, InitStep
<1>2. IInv /\ [Next]_vars => IInv'
  <2>1. SUFFICES ASSUME IInv, [Next]_vars PROVE IInv'
    BY Zenon
  <2>2. CASE UNCHANGED vars
    <3>1. /\ state' = state /\ seen' = seen /\ sent' = sent /\ count' = count
          /\ syncs' = syncs /\ restarts' = restarts
      BY Zenon, <2>2 DEF vars
    <3>2. CrdtTypeOK' /\ Made' = Made
      BY Zenon, <2>1, <3>1 DEF IInv, CrdtTypeOK, Made
    <3>3. Numbered(Made, count)'
      BY Zenon, <2>1, <3>1, <3>2 DEF IInv, Numbered, Distinct
    <3>4. /\ \A r \in Replicas : Agrees(state'[r], seen'[r])
          /\ \A m \in sent' : Agrees(m.state, m.seen)
      BY Zenon, <2>1, <3>1 DEF IInv
    <3>5. QED
      BY Zenon, <3>2, <3>3, <3>4 DEF IInv, Agrees, AssetsAgree, HoldsNewest, About, Gone
  <2>3. CASE Next
    <3>1. ASSUME NEW r \in Replicas, NEW p \in Peers, NEW ts \in Times, SeePeer(r, p, ts)
          PROVE  IInv'
      BY Zenon, <2>1, <3>1, SeePeerStep
    <3>2. ASSUME NEW r \in Replicas, NEW ts \in Times, SetStatus(r, ts)
          PROVE  IInv'
      BY Zenon, <2>1, <3>2, PlainStep
    <3>3. ASSUME NEW r \in Replicas, Count(r)
          PROVE  IInv'
      <4>1. 1 \in Times
        BY BoundsAssumption DEF Times
      <4>2. QED
        BY Zenon, <2>1, <3>3, <4>1, PlainStep
    <3>4. ASSUME NEW r \in Replicas, NEW a \in Assets, Add(r, a) \/ Remove(r, a)
          PROVE  IInv'
      BY Zenon, <2>1, <3>4, AssetStep
    <3>5. ASSUME NEW r \in Replicas, SyncTick(r)
          PROVE  IInv'
      BY Zenon, <2>1, <3>5, SyncTickStep
    <3>6. ASSUME NEW r \in Replicas, NEW m \in sent, ReceiveSync(r, m)
          PROVE  IInv'
      BY Zenon, <2>1, <3>6, ReceiveSyncStep
    <3>7. ASSUME NEW r \in Replicas, NEW ts \in Times, Restart(r, ts)
          PROVE  IInv'
      BY Zenon, <2>1, <3>7, RestartStep
    <3>8. QED
      BY Zenon, <2>3, <3>1, <3>2, <3>3, <3>4, <3>5, <3>6, <3>7 DEF Next
  <2>4. QED
    BY Zenon, <2>1, <2>2, <2>3
<1>3. QED
  BY <1>1, <1>2, PTL DEF Spec

\* The states of the nodes, and the states on their way, keep their types.
THEOREM CrdtTypeCorrect == Spec => []CrdtTypeOK
<1>1. IInv => CrdtTypeOK
  BY Zenon DEF IInv
<1>2. QED
  BY <1>1, Invariance, PTL

\* PeerRegistry: no merge, however late the state it merges, brings back an entry
\* that is older than one the node has seen.
THEOREM NewestEntries == Spec => []NewestEntryWins
<1>1. IInv => NewestEntryWins
  BY Zenon DEF IInv, NewestEntryWins, Agrees
<1>2. QED
  BY <1>1, Invariance, PTL

\* ORSet: an asset is in the set of a node exactly if the node has seen an
\* addition of it that no removal it has seen had observed.
THEOREM AssetsObservedRemove == Spec => []AssetsAreObservedRemove
<1>1. IInv => AssetsAreObservedRemove
  <2>1. SUFFICES ASSUME IInv, NEW r \in Replicas, NEW a \in Assets
                 PROVE  /\ Contains(state[r].assets, a)
                              <=> \E u \in About(seen[r], "add", a) : u.id \notin Gone(seen[r])
                        /\ a \in Elements(state[r].assets) <=> Contains(state[r].assets, a)
    BY Zenon DEF AssetsAreObservedRemove
  <2> DEFINE s == state[r].assets
             S == seen[r]
  <2>2. s \in AssetSet /\ AssetsAgree(s, S) /\ S \in SUBSET Update
    BY Zenon, <2>1, UpdateFacts, StateFields DEF Agrees
  <2> HIDE DEF s, S
  <2>3. \A tag : tag \in TagsOf(s, a) <=> <<a, tag>> \in s.entries
    BY Zenon, <2>2, TagsOfMember
  <2>4. \A tag : <<a, tag>> \in s.entries => tag \in Nat
    BY Zenon, <2>2 DEF AssetSet
  <2>5. \A u \in S : u.id \in Nat
    BY Zenon, <2>2 DEF Update
  <2>6. Contains(s, a) <=> \E tag \in Nat : <<a, tag>> \in s.entries /\ tag \notin s.removed
    BY Zenon, <2>3, <2>4 DEF Contains
  <2>7. ASSUME NEW tag \in Nat, <<a, tag>> \in s.entries, tag \notin s.removed
        PROVE  \E u \in About(S, "add", a) : u.id \notin Gone(S)
    BY <2>2, <2>7 DEF AssetsAgree, About
  <2>8. ASSUME NEW u \in About(S, "add", a), u.id \notin Gone(S)
        PROVE  \E tag \in Nat : <<a, tag>> \in s.entries /\ tag \notin s.removed
    <3>1. u \in S /\ u.kind = "add" /\ u.about = a
      BY Zenon, <2>8 DEF About
    <3>2. <<a, u.id>> \in s.entries /\ u.id \notin s.removed
      BY Zenon, <2>2, <2>8, <3>1 DEF AssetsAgree
    <3>3. QED
      BY Zenon, <2>5, <3>1, <3>2
  <2>9. a \in Elements(s) <=> \E tag \in Nat : <<a, tag>> \in s.entries
    <3>1. \A e \in s.entries : e[2] \in Nat /\ e = <<e[1], e[2]>>
      BY <2>2 DEF AssetSet
    <3>2. ASSUME a \in Elements(s)
          PROVE  \E tag \in Nat : <<a, tag>> \in s.entries
      <4>1. PICK e \in s.entries : e[1] = a
        BY Zenon, <3>2 DEF Elements
      <4>2. QED
        BY Zenon, <3>1, <4>1
    <3>3. ASSUME NEW tag \in Nat, <<a, tag>> \in s.entries
          PROVE  a \in Elements(s)
      <4>1. <<a, tag>>[1] = a
        BY Zenon
      <4>2. QED
        BY Zenon, <3>3, <4>1 DEF Elements
    <3>4. QED
      BY Zenon, <3>2, <3>3
  <2>10. (\E tag \in Nat : <<a, tag>> \in s.entries) <=>
            \E tag \in Nat : <<a, tag>> \in s.entries /\ tag \notin s.removed
    BY Zenon, <2>2 DEF AssetsAgree
  <2>11. QED
    BY Zenon, <2>6, <2>7, <2>8, <2>9, <2>10 DEF s, S
<1>2. QED
  BY <1>1, Invariance, PTL

-----------------------------------------------------------------------------
(* Knowledge grows *)

Grows(s, t) ==
    /\ \A n \in Replicas : s.clock[n] <= t.clock[n] /\ s.counter[n] <= t.counter[n]
    /\ KnownPeers(s) \subseteq KnownPeers(t)
    /\ s.assets.removed \subseteq t.assets.removed
    /\ \A p \in Peers : s.peers[p].ts <= t.peers[p].ts

\* A state knows no less than itself.
LEMMA GrowsReflexive ==
    ASSUME NEW s \in WorldState
    PROVE  Grows(s, s)
<1>1. /\ s.clock \in [Replicas -> Nat] /\ s.counter \in [Replicas -> Nat]
      /\ s.peers \in [Peers -> Entry]
  BY Zenon, StateFields
<1>2. QED
  BY <1>1 DEF Grows, Entry

\* update_peer raises the clock and a registry entry.
LEMMA UpdatePeerGrows ==
    ASSUME NEW s \in WorldState, NEW r \in Replicas, NEW p \in Peers, NEW id \in Nat,
           NEW ts \in Nat \ {0}
    PROVE  Grows(s, UpdatePeer(s, r, p, id, ts))
<1> DEFINE t == UpdatePeer(s, r, p, id, ts)
<1>1. /\ s.clock \in [Replicas -> Nat] /\ s.counter \in [Replicas -> Nat]
      /\ s.peers \in [Peers -> Entry] /\ s.known \in [Peers -> Nat]
  BY Zenon, StateFields
<1>2. /\ t.clock = Increment(s.clock, r, 1) /\ t.counter = s.counter
      /\ t.known = InsertItem(s.known, p, ts) /\ t.peers = Upsert(s.peers, p, id, ts)
      /\ t.assets = s.assets
  BY Zenon DEF UpdatePeer, Tick, WorldState
<1> HIDE DEF t
<1>3. \A n \in Replicas : s.clock[n] <= t.clock[n] /\ s.counter[n] <= t.counter[n]
  BY <1>1, <1>2 DEF Increment
<1>4. KnownPeers(s) \subseteq KnownPeers(t)
  BY Zenon, <1>1, <1>2 DEF KnownPeers, InsertItem
<1>5. [entry |-> id, ts |-> ts] \in Entry
  BY Zenon DEF Entry
<1>6. s.peers[p].ts <= t.peers[p].ts
  BY <1>1, <1>2, <1>5, UpsertType, PickType
<1>7. \A q \in Peers \ {p} : s.peers[q].ts <= t.peers[q].ts
  <2>1. \A q \in Peers \ {p} : t.peers[q] = s.peers[q]
    BY Zenon, <1>1, <1>2 DEF Upsert
  <2>2. \A q \in Peers : s.peers[q].ts \in Nat
    BY Zenon, <1>1 DEF Entry
  <2>3. QED
    BY <2>1, <2>2
<1>8. QED
  BY Zenon, <1>2, <1>3, <1>4, <1>6, <1>7 DEF Grows, t

\* merge loses nothing of its own side.
LEMMA MergeGrows ==
    ASSUME NEW s \in WorldState, NEW t \in WorldState
    PROVE  Grows(s, Merge(s, t))
<1> DEFINE m == Merge(s, t)
<1>1. /\ s.clock \in [Replicas -> Nat] /\ s.counter \in [Replicas -> Nat]
      /\ s.peers \in [Peers -> Entry] /\ s.known \in [Peers -> Nat] /\ s.assets \in AssetSet
  BY Zenon, StateFields
<1>2. /\ t.clock \in [Replicas -> Nat] /\ t.counter \in [Replicas -> Nat]
      /\ t.peers \in [Peers -> Entry] /\ t.known \in [Peers -> Nat] /\ t.assets \in AssetSet
  BY Zenon, StateFields
<1>3. /\ m.clock = MergeCounts(s.clock, t.clock) /\ m.counter = MergeCounts(s.counter, t.counter)
      /\ m.peers = MergeRegistry(s.peers, t.peers) /\ m.known = MergeGSet(s.known, t.known)
      /\ m.assets = MergeAssets(s.assets, t.assets)
  BY Zenon DEF Merge
<1> HIDE DEF m
<1>4. \A n \in Replicas : s.clock[n] <= m.clock[n] /\ s.counter[n] <= m.counter[n]
  BY Zenon, <1>1, <1>2, <1>3, MergeCountsType
<1>5. KnownPeers(s) \subseteq KnownPeers(m)
  BY Zenon, <1>1, <1>2, <1>3 DEF KnownPeers, MergeGSet
<1>6. s.assets.removed \subseteq m.assets.removed
  BY <1>1, <1>2, <1>3, MergeAssetsType
<1>7. \A p \in Peers : s.peers[p].ts <= m.peers[p].ts
  BY <1>1, <1>2, <1>3, PickType DEF MergeRegistry
<1>8. QED
  BY Zenon, <1>4, <1>5, <1>6, <1>7 DEF Grows, m

\* Between restarts no clock, count, removal or registry time of a node goes back
\* and no peer is forgotten: updates and merges only add.
THEOREM KnowledgeOnlyGrows == Spec => KnowledgeGrows
<1>1. IInv /\ [Next]_vars =>
          (restarts' # restarts \/ \A r \in Replicas : Grows(state[r], state'[r]))
  <2>1. SUFFICES ASSUME IInv, [Next]_vars, restarts' = restarts, NEW q \in Replicas
                 PROVE  Grows(state[q], state'[q])
    BY Zenon
  <2>2. CrdtTypeOK /\ state[q] \in WorldState
    BY Zenon, <2>1 DEF IInv, CrdtTypeOK
  <2>3. Grows(state[q], state[q])
    BY Zenon, <2>2, GrowsReflexive
  <2>4. CASE state' = state
    BY Zenon, <2>3, <2>4
  <2>5. ASSUME NEW r \in Replicas, NEW u, NEW s, Updates(r, u, s), Grows(state[r], s)
        PROVE  Grows(state[q], state'[q])
    <3>1. state'[q] = IF q = r THEN s ELSE state[q]
      BY Zenon, <2>2, <2>5 DEF Updates, CrdtTypeOK
    <3>2. QED
      BY Zenon, <2>3, <2>5, <3>1
  <2>6. ASSUME NEW r \in Replicas, NEW p \in Peers, NEW ts \in Times, SeePeer(r, p, ts)
        PROVE  Grows(state[q], state'[q])
    <3>1. state[r] \in WorldState /\ Id \in Nat /\ ts \in Nat \ {0}
      BY <2>2, BoundsAssumption DEF CrdtTypeOK, Id, Times
    <3>2. Grows(state[r], UpdatePeer(state[r], r, p, Id, ts))
      BY Zenon, <3>1, UpdatePeerGrows
    <3>3. QED
      BY Zenon, <2>5, <2>6, <3>2 DEF SeePeer
  <2>7. ASSUME NEW r \in Replicas, NEW ts \in Times, SetStatus(r, ts)
        PROVE  Grows(state[q], state'[q])
    <3> DEFINE s == [state[r] EXCEPT !.status = [value |-> Id, ts |-> ts, node |-> r]]
    <3>1. Grows(state[r], state[r]) /\ state[r] \in WorldState
      BY Zenon, <2>2, GrowsReflexive DEF CrdtTypeOK
    <3>2. /\ s.clock = state[r].clock /\ s.counter = state[r].counter /\ s.peers = state[r].peers
          /\ s.known = state[r].known /\ s.assets = state[r].assets
      BY Zenon, <3>1 DEF WorldState
    <3>3. Grows(state[r], s)
      BY Zenon, <3>1, <3>2 DEF Grows, KnownPeers
    <3>4. QED
      BY Zenon, <2>5, <2>7, <3>3 DEF SetStatus
  <2>8. ASSUME NEW r \in Replicas, Count(r)
        PROVE  Grows(state[q], state'[q])
    <3> DEFINE s == [state[r] EXCEPT !.counter = Increment(state[r].counter, r, 1)]
    <3>1. /\ Grows(state[r], state[r]) /\ state[r] \in WorldState
          /\ state[r].counter \in [Replicas -> Nat]
      BY Zenon, <2>2, GrowsReflexive, StateFields DEF CrdtTypeOK
    <3>2. /\ s.clock = state[r].clock /\ s.counter = Increment(state[r].counter, r, 1)
          /\ s.peers = state[r].peers /\ s.known = state[r].known /\ s.assets = state[r].assets
      BY Zenon, <3>1 DEF WorldState
    <3> HIDE DEF s
    <3>3. \A n \in Replicas : state[r].counter[n] <= s.counter[n]
      BY <3>1, <3>2 DEF Increment
    <3>4. Grows(state[r], s)
      BY Zenon, <3>1, <3>2, <3>3 DEF Grows, KnownPeers
    <3>5. QED
      BY Zenon, <2>5, <2>8, <3>4 DEF Count, s
  <2>9. ASSUME NEW r \in Replicas, NEW a \in Assets, Add(r, a)
        PROVE  Grows(state[q], state'[q])
    <3> DEFINE s == [state[r] EXCEPT !.assets = AddAsset(state[r].assets, a, Id)]
    <3>1. Grows(state[r], state[r]) /\ state[r] \in WorldState
      BY Zenon, <2>2, GrowsReflexive DEF CrdtTypeOK
    <3>2. /\ s.clock = state[r].clock /\ s.counter = state[r].counter /\ s.peers = state[r].peers
          /\ s.known = state[r].known /\ s.assets = AddAsset(state[r].assets, a, Id)
      BY Zenon, <3>1 DEF WorldState
    <3>3. AddAsset(state[r].assets, a, Id).removed = state[r].assets.removed
      BY Zenon, <3>1 DEF AddAsset, WorldState, AssetSet
    <3> HIDE DEF s
    <3>4. Grows(state[r], s)
      BY Zenon, <3>1, <3>2, <3>3 DEF Grows, KnownPeers
    <3>5. QED
      BY Zenon, <2>5, <2>9, <3>4 DEF Add, s
  <2>10. ASSUME NEW r \in Replicas, NEW a \in Assets, Remove(r, a)
         PROVE  Grows(state[q], state'[q])
    <3> DEFINE s == [state[r] EXCEPT !.assets = RemoveAsset(state[r].assets, a)]
    <3>1. Grows(state[r], state[r]) /\ state[r] \in WorldState
      BY Zenon, <2>2, GrowsReflexive DEF CrdtTypeOK
    <3>2. /\ s.clock = state[r].clock /\ s.counter = state[r].counter /\ s.peers = state[r].peers
          /\ s.known = state[r].known /\ s.assets = RemoveAsset(state[r].assets, a)
      BY Zenon, <3>1 DEF WorldState
    <3>3. state[r].assets.removed \subseteq RemoveAsset(state[r].assets, a).removed
      BY Zenon DEF RemoveAsset
    <3> HIDE DEF s
    <3>4. Grows(state[r], s)
      BY Zenon, <3>1, <3>2, <3>3 DEF Grows, KnownPeers
    <3>5. QED
      BY Zenon, <2>5, <2>10, <3>4 DEF Remove, s
  <2>11. ASSUME NEW r \in Replicas, NEW m \in sent, ReceiveSync(r, m)
         PROVE  Grows(state[q], state'[q])
    <3>1. state[r] \in WorldState /\ m.state \in WorldState
      BY Zenon, <2>2 DEF CrdtTypeOK
    <3>2. Grows(state[r], Merge(state[r], m.state))
      BY Zenon, <3>1, MergeGrows
    <3>3. state'[q] = IF q = r THEN Merge(state[r], m.state) ELSE state[q]
      BY Zenon, <2>2, <2>11 DEF ReceiveSync, CrdtTypeOK
    <3>4. QED
      BY Zenon, <2>3, <3>2, <3>3
  <2>12. ASSUME NEW r \in Replicas, NEW ts \in Times, Restart(r, ts)
         PROVE  FALSE
    BY <2>1, <2>2, <2>12 DEF Restart, CrdtTypeOK
  <2>13. ASSUME NEW r \in Replicas, SyncTick(r)
         PROVE  state' = state
    BY Zenon, <2>13 DEF SyncTick
  <2>14. QED
    BY Zenon, <2>1, <2>4, <2>6, <2>7, <2>8, <2>9, <2>10, <2>11, <2>12, <2>13 DEF Next, vars
<1>2. (restarts' # restarts \/ \A r \in Replicas : Grows(state[r], state'[r])) <=>
      (restarts' # restarts \/ \A r \in Replicas :
          /\ \A n \in Replicas : /\ state[r].clock[n] <= state'[r].clock[n]
                                 /\ state[r].counter[n] <= state'[r].counter[n]
          /\ KnownPeers(state[r]) \subseteq KnownPeers(state'[r])
          /\ state[r].assets.removed \subseteq state'[r].assets.removed
          /\ \A p \in Peers : state[r].peers[p].ts <= state'[r].peers[p].ts)
  BY Zenon DEF Grows
<1>3. QED
  BY <1>1, <1>2, Invariance, PTL DEF Spec, KnowledgeGrows

-----------------------------------------------------------------------------
(* Convergence: a clock or a count is the greatest value that a seen update  *)
(* wrote.                                                                     *)

\* The updates of node n that raise its clock, and those that raise its count.
Ticks(S, n) == {u \in S : u.kind \in {"boot", "peer"} /\ u.node = n}
Increments(S, n) == {u \in S : u.kind = "count" /\ u.node = n}

\* With val[i] the value that update i wrote, c is the greatest written in S.
HoldsGreatest(c, val, S) == /\ \A u \in S : val[u.id] <= c
                            /\ c = 0 \/ \E u \in S : c = val[u.id]

Valued(s, S, val) ==
    /\ \A n \in Replicas : /\ HoldsGreatest(s.clock[n], val, Ticks(S, n))
                           /\ HoldsGreatest(s.counter[n], val, Increments(S, n))
    /\ \A p \in Peers : s.known[p] # 0 <=> About(S, "peer", p) # {}

\* The updates wrote some values of which every state, held or sent, has the
\* greatest that it has seen.
VInv ==
    \E val \in [Nat -> Nat] : /\ \A r \in Replicas : Valued(state[r], seen[r], val)
                              /\ \A m \in sent : Valued(m.state, m.seen, val)

\* The greatest value of a set is unique.
LEMMA GreatestUnique ==
    ASSUME NEW val \in [Nat -> Nat], NEW S \in SUBSET Update, NEW c \in Nat, NEW d \in Nat,
           HoldsGreatest(c, val, S), HoldsGreatest(d, val, S)
    PROVE  c = d
<1>1. \A u \in S : val[u.id] \in Nat
  BY Zenon DEF Update
<1>2. QED
  BY <1>1 DEF HoldsGreatest

\* The greater of two greatest values is the greatest of both sets.
LEMMA GreatestAfterMerge ==
    ASSUME NEW val \in [Nat -> Nat], NEW S \in SUBSET Update, NEW T \in SUBSET Update,
           NEW c \in Nat, NEW d \in Nat, HoldsGreatest(c, val, S), HoldsGreatest(d, val, T)
    PROVE  HoldsGreatest(Greater(c, d), val, S \cup T)
<1>1. \A u \in S \cup T : val[u.id] \in Nat
  BY Zenon DEF Update
<1>2. QED
  BY <1>1 DEF HoldsGreatest, Greater

\* A value written by a later update changes nothing for the updates before.
LEMMA GreatestBefore ==
    ASSUME NEW val \in [Nat -> Nat], NEW S \in SUBSET Update, NEW c \in Nat, NEW i \in Nat,
           NEW x \in Nat, \A u \in S : u.id # i, HoldsGreatest(c, val, S)
    PROVE  HoldsGreatest(c, [val EXCEPT ![i] = x], S)
<1>1. \A u \in S : [val EXCEPT ![i] = x][u.id] = val[u.id]
  BY Zenon DEF Update
<1>2. QED
  BY Zenon, <1>1 DEF HoldsGreatest

\* An update that writes one more than the greatest value writes the greatest.
LEMMA GreatestAfterUpdate ==
    ASSUME NEW val \in [Nat -> Nat], NEW S \in SUBSET Update, NEW c \in Nat, NEW v \in Update,
           \A u \in S : u.id # v.id, HoldsGreatest(c, val, S)
    PROVE  HoldsGreatest(c + 1, [val EXCEPT ![v.id] = c + 1], S \cup {v})
<1> DEFINE w == [val EXCEPT ![v.id] = c + 1]
<1>1. v.id \in Nat /\ \A u \in S : u.id \in Nat /\ val[u.id] \in Nat
  BY Zenon DEF Update
<1>2. w[v.id] = c + 1 /\ \A u \in S : w[u.id] = val[u.id]
  BY Zenon, <1>1
<1> HIDE DEF w
<1>3. \A u \in S \cup {v} : w[u.id] <= c + 1
  BY <1>1, <1>2 DEF HoldsGreatest
<1>4. \E u \in S \cup {v} : c + 1 = w[u.id]
  BY Zenon, <1>2
<1>5. QED
  BY Zenon, <1>3, <1>4 DEF HoldsGreatest, w

\* A state that has not seen an update does not depend on what it wrote.
LEMMA ValuedBefore ==
    ASSUME NEW val \in [Nat -> Nat], NEW S \in SUBSET Update, NEW s \in WorldState,
           NEW i \in Nat, NEW x \in Nat, \A u \in S : u.id # i, Valued(s, S, val)
    PROVE  Valued(s, S, [val EXCEPT ![i] = x])
<1> DEFINE w == [val EXCEPT ![i] = x]
<1>1. s.clock \in [Replicas -> Nat] /\ s.counter \in [Replicas -> Nat]
  BY Zenon, StateFields
<1>2. ASSUME NEW n \in Replicas
      PROVE  HoldsGreatest(s.clock[n], w, Ticks(S, n)) /\ HoldsGreatest(s.counter[n], w, Increments(S, n))
  <2>1. /\ Ticks(S, n) \in SUBSET Update /\ Increments(S, n) \in SUBSET Update
        /\ \A u \in Ticks(S, n) : u.id # i
        /\ \A u \in Increments(S, n) : u.id # i
    BY Zenon DEF Ticks, Increments
  <2>2. s.clock[n] \in Nat /\ s.counter[n] \in Nat
    BY Zenon, <1>1
  <2>3. /\ HoldsGreatest(s.clock[n], val, Ticks(S, n))
        /\ HoldsGreatest(s.counter[n], val, Increments(S, n))
    BY Zenon DEF Valued
  <2>4. QED
    BY ONLY Zenon, <2>1, <2>2, <2>3, GreatestBefore, val \in [Nat -> Nat], i \in Nat, x \in Nat
<1> HIDE DEF w
<1>3. QED
  BY Zenon, <1>2 DEF Valued, w

\* A merge of states has seen the updates of both.
LEMMA ValuedAfterMerge ==
    ASSUME NEW val \in [Nat -> Nat], NEW S \in SUBSET Update, NEW T \in SUBSET Update,
           NEW s \in WorldState, NEW t \in WorldState, Valued(s, S, val), Valued(t, T, val)
    PROVE  Valued(Merge(s, t), S \cup T, val)
<1> DEFINE m == Merge(s, t)
<1>1. /\ m.clock = MergeCounts(s.clock, t.clock) /\ m.counter = MergeCounts(s.counter, t.counter)
      /\ m.known = MergeGSet(s.known, t.known)
  BY Zenon DEF Merge
<1> HIDE DEF m
<1>2. /\ s.clock \in [Replicas -> Nat] /\ s.counter \in [Replicas -> Nat]
      /\ t.clock \in [Replicas -> Nat] /\ t.counter \in [Replicas -> Nat]
      /\ s.known \in [Peers -> Nat] /\ t.known \in [Peers -> Nat]
  BY Zenon, StateFields
<1>3. ASSUME NEW n \in Replicas
      PROVE  /\ HoldsGreatest(m.clock[n], val, Ticks(S \cup T, n))
             /\ HoldsGreatest(m.counter[n], val, Increments(S \cup T, n))
  <2>1. m.clock[n] = Greater(s.clock[n], t.clock[n]) /\ m.counter[n] = Greater(s.counter[n], t.counter[n])
    BY Zenon, <1>1 DEF MergeCounts
  <2>2. /\ s.clock[n] \in Nat /\ s.counter[n] \in Nat /\ t.clock[n] \in Nat /\ t.counter[n] \in Nat
    BY Zenon, <1>2
  <2>3. /\ Ticks(S, n) \in SUBSET Update /\ Increments(S, n) \in SUBSET Update
        /\ Ticks(T, n) \in SUBSET Update /\ Increments(T, n) \in SUBSET Update
    BY Zenon DEF Ticks, Increments
  <2>4. /\ HoldsGreatest(s.clock[n], val, Ticks(S, n))
        /\ HoldsGreatest(s.counter[n], val, Increments(S, n))
        /\ HoldsGreatest(t.clock[n], val, Ticks(T, n))
        /\ HoldsGreatest(t.counter[n], val, Increments(T, n))
    BY Zenon DEF Valued
  <2>5. /\ HoldsGreatest(Greater(s.clock[n], t.clock[n]), val, Ticks(S, n) \cup Ticks(T, n))
        /\ HoldsGreatest(Greater(s.counter[n], t.counter[n]), val, Increments(S, n) \cup Increments(T, n))
    BY ONLY Zenon, <2>2, <2>3, <2>4, GreatestAfterMerge, val \in [Nat -> Nat]
  <2>6. /\ Ticks(S \cup T, n) = Ticks(S, n) \cup Ticks(T, n)
        /\ Increments(S \cup T, n) = Increments(S, n) \cup Increments(T, n)
    BY ONLY Zenon DEF Ticks, Increments
  <2>7. QED
    BY ONLY Zenon, <2>1, <2>5, <2>6
<1>4. ASSUME NEW p \in Peers
      PROVE  m.known[p] # 0 <=> About(S \cup T, "peer", p) # {}
  <2>1. m.known[p] # 0 <=> s.known[p] # 0 \/ t.known[p] # 0
    BY Zenon, <1>1, <1>2 DEF MergeGSet
  <2>2. About(S \cup T, "peer", p) = About(S, "peer", p) \cup About(T, "peer", p)
    BY ONLY Zenon DEF About
  <2>3. /\ s.known[p] # 0 <=> About(S, "peer", p) # {}
        /\ t.known[p] # 0 <=> About(T, "peer", p) # {}
    BY Zenon DEF Valued
  <2>4. QED
    BY ONLY Zenon, <2>1, <2>2, <2>3
<1>5. QED
  BY Zenon, <1>3, <1>4 DEF Valued, m

\* An update that ticks the clock of its node and is about at most one peer.
LEMMA ValuedAfterTick ==
    ASSUME NEW val \in [Nat -> Nat], NEW S \in SUBSET Update, NEW s \in WorldState,
           NEW t \in WorldState, NEW u \in Update, \A v \in S : v.id # u.id, Valued(s, S, val),
           u.kind \in {"boot", "peer"}, t.clock = Increment(s.clock, u.node, 1),
           t.counter = s.counter,
           \A p \in Peers : t.known[p] # 0 <=> s.known[p] # 0 \/ (u.kind = "peer" /\ u.about = p)
    PROVE  Valued(t, S \cup {u}, [val EXCEPT ![u.id] = s.clock[u.node] + 1])
<1> DEFINE c == s.clock[u.node]
           w == [val EXCEPT ![u.id] = c + 1]
<1>1. u.id \in Nat /\ u.node \in Replicas
  BY Zenon DEF Update
<1>2. s.clock \in [Replicas -> Nat]
  BY Zenon, StateFields
<1>3. c \in Nat /\ c + 1 \in Nat
  BY <1>1, <1>2
<1>4. Valued(s, S, w)
  BY ONLY Zenon, <1>1, <1>3, ValuedBefore, val \in [Nat -> Nat], S \in SUBSET Update,
          s \in WorldState, \A v \in S : v.id # u.id, Valued(s, S, val)
<1>5. /\ t.clock[u.node] = c + 1
      /\ \A n \in Replicas \ {u.node} : t.clock[n] = s.clock[n]
  BY Zenon, <1>1, <1>2 DEF Increment
<1>6. HoldsGreatest(c + 1, w, Ticks(S, u.node) \cup {u})
  <2>1. Ticks(S, u.node) \in SUBSET Update /\ \A v \in Ticks(S, u.node) : v.id # u.id
    BY Zenon DEF Ticks
  <2>2. HoldsGreatest(c, val, Ticks(S, u.node))
    BY Zenon, <1>1 DEF Valued
  <2>3. QED
    BY ONLY Zenon, <1>3, <2>1, <2>2, GreatestAfterUpdate, val \in [Nat -> Nat], u \in Update
<1> HIDE DEF w, c
<1>7. /\ Ticks(S \cup {u}, u.node) = Ticks(S, u.node) \cup {u}
      /\ \A n \in Replicas \ {u.node} : Ticks(S \cup {u}, n) = Ticks(S, n)
      /\ \A n \in Replicas : Increments(S \cup {u}, n) = Increments(S, n)
  BY Zenon DEF Ticks, Increments
<1>8. ASSUME NEW n \in Replicas
      PROVE  /\ HoldsGreatest(t.clock[n], w, Ticks(S \cup {u}, n))
             /\ HoldsGreatest(t.counter[n], w, Increments(S \cup {u}, n))
  <2>1. /\ HoldsGreatest(s.clock[n], w, Ticks(S, n))
        /\ HoldsGreatest(s.counter[n], w, Increments(S, n))
    BY Zenon, <1>4 DEF Valued
  <2>2. CASE n = u.node
    BY Zenon, <1>5, <1>6, <1>7, <2>1, <2>2
  <2>3. CASE n # u.node
    BY Zenon, <1>5, <1>7, <2>1, <2>3
  <2>4. QED
    BY Zenon, <2>2, <2>3
<1>9. ASSUME NEW p \in Peers
      PROVE  t.known[p] # 0 <=> About(S \cup {u}, "peer", p) # {}
  <2>1. s.known[p] # 0 <=> About(S, "peer", p) # {}
    BY Zenon DEF Valued
  <2>2. About(S \cup {u}, "peer", p) # {} <=>
            About(S, "peer", p) # {} \/ (u.kind = "peer" /\ u.about = p)
    BY Zenon DEF About
  <2>3. QED
    BY Zenon, <2>1, <2>2
<1>10. QED
  BY Zenon, <1>8, <1>9 DEF Valued, w, c

\* GCounter::increment.
LEMMA ValuedAfterCount ==
    ASSUME NEW val \in [Nat -> Nat], NEW S \in SUBSET Update, NEW s \in WorldState,
           NEW t \in WorldState, NEW u \in Update, \A v \in S : v.id # u.id, Valued(s, S, val),
           u.kind = "count", t.counter = Increment(s.counter, u.node, 1),
           t.clock = s.clock, t.known = s.known
    PROVE  Valued(t, S \cup {u}, [val EXCEPT ![u.id] = s.counter[u.node] + 1])
<1> DEFINE c == s.counter[u.node]
           w == [val EXCEPT ![u.id] = c + 1]
<1>1. u.id \in Nat /\ u.node \in Replicas
  BY Zenon DEF Update
<1>2. s.counter \in [Replicas -> Nat]
  BY Zenon, StateFields
<1>3. c \in Nat /\ c + 1 \in Nat
  BY <1>1, <1>2
<1>4. Valued(s, S, w)
  BY ONLY Zenon, <1>1, <1>3, ValuedBefore, val \in [Nat -> Nat], S \in SUBSET Update,
          s \in WorldState, \A v \in S : v.id # u.id, Valued(s, S, val)
<1>5. /\ t.counter[u.node] = c + 1
      /\ \A n \in Replicas \ {u.node} : t.counter[n] = s.counter[n]
  BY Zenon, <1>1, <1>2 DEF Increment
<1>6. HoldsGreatest(c + 1, w, Increments(S, u.node) \cup {u})
  <2>1. Increments(S, u.node) \in SUBSET Update /\ \A v \in Increments(S, u.node) : v.id # u.id
    BY Zenon DEF Increments
  <2>2. HoldsGreatest(c, val, Increments(S, u.node))
    BY Zenon, <1>1 DEF Valued
  <2>3. QED
    BY ONLY Zenon, <1>3, <2>1, <2>2, GreatestAfterUpdate, val \in [Nat -> Nat], u \in Update
<1> HIDE DEF w, c
<1>7. /\ Increments(S \cup {u}, u.node) = Increments(S, u.node) \cup {u}
      /\ \A n \in Replicas \ {u.node} : Increments(S \cup {u}, n) = Increments(S, n)
      /\ \A n \in Replicas : Ticks(S \cup {u}, n) = Ticks(S, n)
      /\ \A p \in Peers : About(S \cup {u}, "peer", p) = About(S, "peer", p)
  BY Zenon DEF Ticks, Increments, About
<1>8. ASSUME NEW n \in Replicas
      PROVE  /\ HoldsGreatest(t.clock[n], w, Ticks(S \cup {u}, n))
             /\ HoldsGreatest(t.counter[n], w, Increments(S \cup {u}, n))
  <2>1. /\ HoldsGreatest(s.clock[n], w, Ticks(S, n))
        /\ HoldsGreatest(s.counter[n], w, Increments(S, n))
    BY Zenon, <1>4 DEF Valued
  <2>2. CASE n = u.node
    BY Zenon, <1>5, <1>6, <1>7, <2>1, <2>2
  <2>3. CASE n # u.node
    BY Zenon, <1>5, <1>7, <2>1, <2>3
  <2>4. QED
    BY Zenon, <2>2, <2>3
<1>9. \A p \in Peers : t.known[p] # 0 <=> About(S \cup {u}, "peer", p) # {}
  BY Zenon, <1>7 DEF Valued
<1>10. QED
  BY Zenon, <1>8, <1>9 DEF Valued, w, c

\* An update of the status or the assets.
LEMMA ValuedAfterOther ==
    ASSUME NEW val \in [Nat -> Nat], NEW S \in SUBSET Update, NEW s \in WorldState,
           NEW t \in WorldState, NEW u \in Update, Valued(s, S, val),
           u.kind \notin {"boot", "peer", "count"}, t.counter = s.counter,
           t.clock = s.clock, t.known = s.known
    PROVE  Valued(t, S \cup {u}, val)
<1>1. /\ \A n \in Replicas : /\ Increments(S \cup {u}, n) = Increments(S, n)
                             /\ Ticks(S \cup {u}, n) = Ticks(S, n)
      /\ \A p \in Peers : About(S \cup {u}, "peer", p) = About(S, "peer", p)
  BY Zenon DEF Ticks, Increments, About
<1>2. QED
  BY Zenon, <1>1 DEF Valued

\* Every state has the greatest of the values val.
AllValued(val) == /\ \A r \in Replicas : Valued(state[r], seen[r], val)
                  /\ \A m \in sent : Valued(m.state, m.seen, val)

\* No state has seen the update that comes next.
LEMMA NextIsNew ==
    ASSUME IInv
    PROVE  /\ \A r \in Replicas : \A u \in seen[r] : u.id # Id
           /\ \A m \in sent : \A u \in m.seen : u.id # Id
<1>1. CrdtTypeOK /\ Numbered(Made, count) /\ count \in Nat
  BY Zenon DEF IInv, CrdtTypeOK
<1>2. \A u \in Made : u.id \in Nat /\ u.id <= count
  BY Zenon, <1>1, MadeType DEF Numbered, Update
<1>3. \A u \in Made : u.id # Id
  BY <1>1, <1>2 DEF Id
<1>4. QED
  BY Zenon, <1>1, <1>3, MadeType

\* A step that gives node r the state t of the updates T, and writes x.
LEMMA ValuedStep ==
    ASSUME IInv, NEW val \in [Nat -> Nat], AllValued(val), NEW x \in Nat, NEW r \in Replicas,
           NEW t, NEW T, Valued(t, T, [val EXCEPT ![Id] = x]),
           state' = [state EXCEPT ![r] = t], seen' = [seen EXCEPT ![r] = T], sent' = sent
    PROVE  VInv'
<1> DEFINE w == [val EXCEPT ![Id] = x]
<1>1. CrdtTypeOK /\ Id \in Nat
  BY DEF IInv, CrdtTypeOK, Id
<1>2. w \in [Nat -> Nat]
  BY Zenon, <1>1
<1>3. /\ \A q \in Replicas : state'[q] = IF q = r THEN t ELSE state[q]
      /\ \A q \in Replicas : seen'[q] = IF q = r THEN T ELSE seen[q]
  BY Zenon, <1>1 DEF CrdtTypeOK
<1>4. ASSUME NEW q \in Replicas
      PROVE  Valued(state[q], seen[q], w)
  <2>1. state[q] \in WorldState /\ seen[q] \in SUBSET Update /\ Valued(state[q], seen[q], val)
    BY Zenon, <1>1 DEF CrdtTypeOK, AllValued
  <2>2. \A u \in seen[q] : u.id # Id
    BY Zenon, NextIsNew
  <2>3. QED
    BY ONLY Zenon, <1>1, <2>1, <2>2, ValuedBefore, val \in [Nat -> Nat], x \in Nat
<1>5. ASSUME NEW m \in sent
      PROVE  Valued(m.state, m.seen, w)
  <2>1. m.state \in WorldState /\ m.seen \in SUBSET Update /\ Valued(m.state, m.seen, val)
    BY Zenon, <1>1 DEF CrdtTypeOK, AllValued
  <2>2. \A u \in m.seen : u.id # Id
    BY Zenon, NextIsNew
  <2>3. QED
    BY ONLY Zenon, <1>1, <2>1, <2>2, ValuedBefore, val \in [Nat -> Nat], x \in Nat
<1>6. Valued(t, T, w)
  BY Zenon
<1> HIDE DEF w
<1>7. \A q \in Replicas : Valued(state'[q], seen'[q], w)
  BY Zenon, <1>3, <1>4, <1>6
<1>8. \A m \in sent' : Valued(m.state, m.seen, w)
  BY Zenon, <1>5
<1>9. QED
  BY Zenon, <1>2, <1>7, <1>8 DEF VInv

\* update_peer.
LEMMA SeePeerValued ==
    ASSUME IInv, VInv, NEW r \in Replicas, NEW p \in Peers, NEW ts \in Times, SeePeer(r, p, ts)
    PROVE  VInv'
<1> DEFINE s == state[r]
           u == NewUpdate(Id, "peer", r, ts, p)
           t == UpdatePeer(s, r, p, Id, ts)
<1>0. PICK val \in [Nat -> Nat] : AllValued(val)
  BY Zenon DEF VInv, AllValued
<1>1. s \in WorldState /\ seen[r] \in SUBSET Update /\ Id \in Nat \ {0} /\ ts \in Nat \ {0}
  BY UpdateFacts, BoundsAssumption DEF Times
<1>2. /\ u \in Update /\ u.id = Id /\ u.kind = "peer" /\ u.about = p /\ u.node = r
  BY Zenon, <1>1, NewUpdateType DEF Kinds, NewUpdate
<1>3. /\ s.clock \in [Replicas -> Nat] /\ s.known \in [Peers -> Nat] /\ s.peers \in [Peers -> Entry]
  BY Zenon, <1>1, StateFields
<1>4. /\ Increment(s.clock, r, 1) \in [Replicas -> Nat]
      /\ InsertItem(s.known, p, ts) \in [Peers -> Nat]
      /\ Upsert(s.peers, p, Id, ts) \in [Peers -> Entry]
  BY Zenon, <1>1, <1>3, IncrementType, GSetType, UpsertType
<1>5. /\ t \in WorldState /\ t.clock = Increment(s.clock, r, 1) /\ t.counter = s.counter
      /\ t.known = InsertItem(s.known, p, ts)
  BY Zenon, <1>1, <1>4 DEF UpdatePeer, Tick, WorldState
<1>6. \A q \in Peers : t.known[q] # 0 <=> s.known[q] # 0 \/ (u.kind = "peer" /\ u.about = q)
  <2> HIDE DEF t, u
  <2>1. \A q \in Peers : InsertItem(s.known, p, ts)[q] # 0 <=> s.known[q] # 0 \/ q = p
    BY Zenon, <1>1, <1>3 DEF InsertItem
  <2>2. QED
    BY Zenon, <1>2, <1>5, <2>1
<1>7. Updates(r, u, t)
  BY Zenon DEF SeePeer
<1> HIDE DEF u, t, s
<1>8. Valued(s, seen[r], val) /\ \A v \in seen[r] : v.id # u.id
  BY Zenon, <1>0, <1>2, NextIsNew DEF AllValued, s
<1>9. Valued(t, seen[r] \cup {u}, [val EXCEPT ![Id] = s.clock[r] + 1])
  BY ONLY Zenon, <1>1, <1>2, <1>5, <1>6, <1>8, ValuedAfterTick, val \in [Nat -> Nat]
<1>10. /\ state' = [state EXCEPT ![r] = t] /\ seen' = [seen EXCEPT ![r] = seen[r] \cup {u}]
       /\ sent' = sent
  BY Zenon, <1>7 DEF Updates
<1>11. s.clock[r] + 1 \in Nat
  BY <1>3
<1>12. QED
  BY ONLY Zenon, IInv, <1>0, <1>9, <1>10, <1>11, ValuedStep, r \in Replicas

\* GCounter::increment.
LEMMA CountValued ==
    ASSUME IInv, VInv, NEW r \in Replicas, Count(r)
    PROVE  VInv'
<1> DEFINE s == state[r]
           u == NewUpdate(Id, "count", r, 1, r)
           t == [s EXCEPT !.counter = Increment(s.counter, r, 1)]
<1>0. PICK val \in [Nat -> Nat] : AllValued(val)
  BY Zenon DEF VInv, AllValued
<1>1. s \in WorldState /\ seen[r] \in SUBSET Update /\ Id \in Nat \ {0} /\ 1 \in Times
  BY Zenon, UpdateFacts
<1>2. u \in Update /\ u.id = Id /\ u.kind = "count" /\ u.node = r
  BY <1>1, NewUpdateType DEF Kinds, NewUpdate
<1>3. s.counter \in [Replicas -> Nat]
  BY Zenon, <1>1, StateFields
<1>4. Increment(s.counter, r, 1) \in [Replicas -> Nat]
  BY Zenon, <1>3, IncrementType
<1>5. /\ t \in WorldState /\ t.clock = s.clock /\ t.counter = Increment(s.counter, r, 1)
      /\ t.known = s.known
  BY Zenon, <1>1, <1>4 DEF WorldState
<1>6. Updates(r, u, t)
  BY Zenon DEF Count
<1> HIDE DEF u, t, s
<1>7. Valued(s, seen[r], val) /\ \A v \in seen[r] : v.id # u.id
  BY Zenon, <1>0, <1>2, NextIsNew DEF AllValued, s
<1>8. Valued(t, seen[r] \cup {u}, [val EXCEPT ![Id] = s.counter[r] + 1])
  BY ONLY Zenon, <1>1, <1>2, <1>5, <1>7, ValuedAfterCount, val \in [Nat -> Nat]
<1>9. /\ state' = [state EXCEPT ![r] = t] /\ seen' = [seen EXCEPT ![r] = seen[r] \cup {u}]
      /\ sent' = sent
  BY Zenon, <1>6 DEF Updates
<1>10. s.counter[r] + 1 \in Nat
  BY <1>3
<1>11. QED
  BY ONLY Zenon, IInv, <1>0, <1>8, <1>9, <1>10, ValuedStep, r \in Replicas

\* LwwRegister::set, ORSet::add and ORSet::remove.
LEMMA OtherValued ==
    ASSUME IInv, VInv, NEW r \in Replicas, NEW u \in Update, u.id = Id,
           u.kind \notin {"boot", "peer", "count"}, NEW t \in WorldState,
           t.clock = state[r].clock, t.counter = state[r].counter, t.known = state[r].known,
           Updates(r, u, t)
    PROVE  VInv'
<1>0. PICK val \in [Nat -> Nat] : AllValued(val)
  BY Zenon DEF VInv, AllValued
<1>1. state[r] \in WorldState /\ seen[r] \in SUBSET Update /\ Id \in Nat
  BY Zenon, UpdateFacts
<1>2. Valued(state[r], seen[r], val)
  BY Zenon, <1>0 DEF AllValued
<1>3. Valued(t, seen[r] \cup {u}, val)
  BY Zenon, <1>1, <1>2, ValuedAfterOther
<1>4. Valued(t, seen[r] \cup {u}, [val EXCEPT ![Id] = val[Id]]) /\ val[Id] \in Nat
  <2>1. val = [val EXCEPT ![Id] = val[Id]] /\ val[Id] \in Nat
    BY Zenon, <1>1
  <2>2. QED
    BY Zenon, <1>3, <2>1
<1>5. /\ state' = [state EXCEPT ![r] = t] /\ seen' = [seen EXCEPT ![r] = seen[r] \cup {u}]
      /\ sent' = sent
  BY Zenon DEF Updates
<1>6. QED
  BY ONLY Zenon, IInv, <1>0, <1>4, <1>5, ValuedStep, r \in Replicas

\* The crdt_sync branch of handle_direct_request.
LEMMA ReceiveSyncValued ==
    ASSUME IInv, VInv, NEW r \in Replicas, NEW m \in sent, ReceiveSync(r, m)
    PROVE  VInv'
<1> DEFINE t == Merge(state[r], m.state)
<1>0. PICK val \in [Nat -> Nat] : AllValued(val)
  BY Zenon DEF VInv, AllValued
<1>1. CrdtTypeOK /\ Id \in Nat
  BY Zenon, UpdateFacts DEF IInv
<1>2. /\ state[r] \in WorldState /\ seen[r] \in SUBSET Update
      /\ m.state \in WorldState /\ m.seen \in SUBSET Update
  BY Zenon, <1>1 DEF CrdtTypeOK
<1>3. Valued(state[r], seen[r], val) /\ Valued(m.state, m.seen, val)
  BY Zenon, <1>0 DEF AllValued
<1>4. Valued(t, seen[r] \cup m.seen, val)
  BY ONLY Zenon, <1>2, <1>3, ValuedAfterMerge, val \in [Nat -> Nat]
<1> HIDE DEF t
<1>5. Valued(t, seen[r] \cup m.seen, [val EXCEPT ![Id] = val[Id]]) /\ val[Id] \in Nat
  <2>1. val = [val EXCEPT ![Id] = val[Id]] /\ val[Id] \in Nat
    BY Zenon, <1>1
  <2>2. QED
    BY Zenon, <1>4, <2>1
<1>6. /\ state' = [state EXCEPT ![r] = t] /\ seen' = [seen EXCEPT ![r] = seen[r] \cup m.seen]
      /\ sent' = sent
  BY Zenon DEF ReceiveSync, t
<1>7. QED
  BY ONLY Zenon, IInv, <1>0, <1>5, <1>6, ValuedStep, r \in Replicas

\* on_crdt_sync_tick.
LEMMA SyncTickValued ==
    ASSUME VInv, NEW r \in Replicas, SyncTick(r)
    PROVE  VInv'
<1> DEFINE m == [from |-> r, state |-> state[r], seen |-> seen[r]]
<1>0. PICK val \in [Nat -> Nat] : AllValued(val)
  BY Zenon DEF VInv, AllValued
<1>1. sent' = sent \cup {m} /\ state' = state /\ seen' = seen
  BY Zenon DEF SyncTick
<1>2. Valued(m.state, m.seen, val)
  BY Zenon, <1>0 DEF AllValued
<1> HIDE DEF m
<1>3. /\ \A q \in Replicas : Valued(state'[q], seen'[q], val)
      /\ \A n \in sent' : Valued(n.state, n.seen, val)
  BY Zenon, <1>0, <1>1, <1>2 DEF AllValued
<1>4. QED
  BY Zenon, <1>3 DEF VInv, Valued, HoldsGreatest, Ticks, Increments, About

\* A new state after its first tick has seen its boot.
LEMMA StartValued ==
    ASSUME NEW r \in Replicas, NEW id \in Nat \ {0}, NEW ts \in Times, NEW val \in [Nat -> Nat]
    PROVE  Valued(Start(r, id, ts), {Boot(r, id, ts)}, [val EXCEPT ![id] = 1])
<1> DEFINE s == NewState(r, id, ts)
           t == Start(r, id, ts)
           u == Boot(r, id, ts)
<1>1. ts \in Nat /\ NoEntry \in Entry
  BY BoundsAssumption DEF Times, NoEntry, Entry
<1>2. s \in WorldState
  BY Zenon, <1>1 DEF NewState, WorldState, Register, AssetSet
<1>3. t \in WorldState /\ u \in Update
  BY Zenon, StartAgrees
<1>4. /\ u.id = id /\ u.kind = "boot" /\ u.node = r
  BY Zenon DEF Boot, NewUpdate
<1>5. /\ t.clock = Increment(s.clock, r, 1) /\ t.counter = s.counter /\ t.known = s.known
  BY Zenon, <1>2 DEF Start, Tick, WorldState
<1>6. /\ \A n \in Replicas : s.clock[n] = 0 /\ s.counter[n] = 0
      /\ \A p \in Peers : s.known[p] = 0
  BY Zenon DEF NewState
<1> HIDE DEF s, t, u
<1>7. Valued(s, {}, val)
  BY Zenon, <1>6 DEF Valued, HoldsGreatest, Ticks, Increments, About
<1>8. /\ \A v \in {} : v.id # u.id
      /\ \A p \in Peers : t.known[p] # 0 <=> s.known[p] # 0 \/ (u.kind = "peer" /\ u.about = p)
  BY Zenon, <1>4, <1>5
<1>9. Valued(t, {} \cup {u}, [val EXCEPT ![id] = s.clock[r] + 1])
  <2>1. {} \in SUBSET Update
    BY Zenon
  <2>2. QED
    BY ONLY Zenon, <1>2, <1>3, <1>4, <1>5, <1>7, <1>8, <2>1, ValuedAfterTick, val \in [Nat -> Nat]
<1>10. s.clock[r] + 1 = 1 /\ {} \cup {u} = {u}
  BY <1>6
<1>11. QED
  BY ONLY Zenon, <1>9, <1>10 DEF t, u

\* A start.
LEMMA RestartValued ==
    ASSUME IInv, VInv, NEW r \in Replicas, NEW ts \in Times, Restart(r, ts)
    PROVE  VInv'
<1>0. PICK val \in [Nat -> Nat] : AllValued(val)
  BY Zenon DEF VInv, AllValued
<1>1. Id \in Nat \ {0} /\ 1 \in Nat
  BY Zenon, UpdateFacts
<1>2. Valued(Start(r, Id, ts), {Boot(r, Id, ts)}, [val EXCEPT ![Id] = 1])
  BY Zenon, <1>1, StartValued
<1>3. /\ state' = [state EXCEPT ![r] = Start(r, Id, ts)]
      /\ seen' = [seen EXCEPT ![r] = {Boot(r, Id, ts)}] /\ sent' = sent
  BY Zenon DEF Restart
<1>4. QED
  BY ONLY Zenon, IInv, <1>0, <1>1, <1>2, <1>3, ValuedStep, r \in Replicas

\* The first starts all write 1.
LEMMA InitValued ==
    ASSUME Init
    PROVE  VInv
<1> DEFINE val == [i \in Nat |-> 1]
<1>1. PICK ts \in [Replicas -> Times] :
          /\ state = [r \in Replicas |-> Start(r, r, ts[r])]
          /\ seen = [r \in Replicas |-> {Boot(r, r, ts[r])}]
  BY Zenon DEF Init
<1>2. val \in [Nat -> Nat]
  BY Zenon
<1>3. ASSUME NEW r \in Replicas
      PROVE  Valued(state[r], seen[r], val)
  <2>1. r \in Nat \ {0} /\ ts[r] \in Times
    BY CrdtAssumption DEF Replicas
  <2>2. [val EXCEPT ![r] = 1] = val
    BY Zenon, <2>1
  <2> HIDE DEF val
  <2>3. Valued(Start(r, r, ts[r]), {Boot(r, r, ts[r])}, [val EXCEPT ![r] = 1])
    BY Zenon, <1>2, <2>1, StartValued
  <2>4. QED
    BY Zenon, <1>1, <2>2, <2>3
<1>4. sent = {}
  BY Zenon DEF Init
<1> HIDE DEF val
<1>5. QED
  BY Zenon, <1>2, <1>3, <1>4 DEF VInv

\* Every state, held or sent, has the greatest values its updates wrote.
THEOREM ValuesInvariance == Spec => []VInv
<1>1. Init => VInv
  BY Zenon, InitValued
<1>2. IInv /\ VInv /\ [Next]_vars => VInv'
  <2>1. SUFFICES ASSUME IInv, VInv, [Next]_vars PROVE VInv'
    BY Zenon
  <2>2. CASE UNCHANGED vars
    <3>1. state' = state /\ seen' = seen /\ sent' = sent
      BY Zenon, <2>2 DEF vars
    <3>2. QED
      BY Zenon, <2>1, <3>1 DEF VInv
  <2>3. ASSUME NEW r \in Replicas, NEW ts \in Times, SetStatus(r, ts)
        PROVE  VInv'
    <3> DEFINE u == NewUpdate(Id, "status", r, ts, r)
               value == [value |-> Id, ts |-> ts, node |-> r]
               t == [state[r] EXCEPT !.status = value]
    <3>1. state[r] \in WorldState /\ Id \in Nat \ {0} /\ ts \in Nat
      BY Zenon, <2>1, UpdateFacts
    <3>2. u \in Update /\ u.id = Id /\ u.kind = "status"
      BY <3>1, NewUpdateType DEF Kinds
    <3>3. value \in Register
      BY Zenon, <3>1 DEF Register
    <3>4. /\ t \in WorldState /\ t.clock = state[r].clock /\ t.counter = state[r].counter
          /\ t.known = state[r].known
      BY Zenon, <3>1, <3>3 DEF WorldState
    <3>5. Updates(r, u, t)
      BY Zenon, <2>3 DEF SetStatus
    <3>6. u.kind \notin {"boot", "peer", "count"}
      BY Zenon, <3>2
    <3> HIDE DEF u, t
    <3>7. QED
      BY Zenon, <2>1, <3>2, <3>4, <3>5, <3>6, OtherValued
  <2>4. ASSUME NEW r \in Replicas, NEW a \in Assets, Add(r, a)
        PROVE  VInv'
    <3> DEFINE u == NewUpdate(Id, "add", r, 1, a)
               s == AddAsset(state[r].assets, a, Id)
               t == [state[r] EXCEPT !.assets = s]
    <3>1. state[r] \in WorldState /\ Id \in Nat \ {0} /\ 1 \in Times
      BY Zenon, <2>1, UpdateFacts
    <3>2. u \in Update /\ u.id = Id /\ u.kind = "add"
      BY <3>1, NewUpdateType DEF Kinds
    <3>3. s \in AssetSet
      BY Zenon, <3>1, StateFields, AddAssetType
    <3>4. /\ t \in WorldState /\ t.clock = state[r].clock /\ t.counter = state[r].counter
          /\ t.known = state[r].known
      BY Zenon, <3>1, <3>3 DEF WorldState
    <3>5. Updates(r, u, t)
      BY Zenon, <2>4 DEF Add
    <3>6. u.kind \notin {"boot", "peer", "count"}
      BY Zenon, <3>2
    <3> HIDE DEF u, t
    <3>7. QED
      BY Zenon, <2>1, <3>2, <3>4, <3>5, <3>6, OtherValued
  <2>5. ASSUME NEW r \in Replicas, NEW a \in Assets, Remove(r, a)
        PROVE  VInv'
    <3> DEFINE ids == {v.id : v \in About(seen[r], "add", a)}
               u == [NewUpdate(Id, "remove", r, 1, a) EXCEPT !.observed = ids]
               s == RemoveAsset(state[r].assets, a)
               t == [state[r] EXCEPT !.assets = s]
    <3>1. /\ state[r] \in WorldState /\ Id \in Nat \ {0} /\ 1 \in Times
          /\ seen[r] \in SUBSET Update
      BY Zenon, <2>1, UpdateFacts
    <3>2. ids \subseteq Nat
      BY Zenon, <3>1 DEF About, Update
    <3>3. u \in Update /\ u.id = Id /\ u.kind = "remove"
      BY Zenon, <3>1, <3>2 DEF NewUpdate, Update, Kinds
    <3>4. s \in AssetSet
      BY Zenon, <3>1, StateFields, RemoveAssetType
    <3>5. /\ t \in WorldState /\ t.clock = state[r].clock /\ t.counter = state[r].counter
          /\ t.known = state[r].known
      BY Zenon, <3>1, <3>4 DEF WorldState
    <3>6. Updates(r, u, t)
      BY Zenon, <2>5 DEF Remove
    <3>7. u.kind \notin {"boot", "peer", "count"}
      BY Zenon, <3>3
    <3> HIDE DEF u, t
    <3>8. QED
      BY Zenon, <2>1, <3>3, <3>5, <3>6, <3>7, OtherValued
  <2>6. QED
    BY Zenon, <2>1, <2>2, <2>3, <2>4, <2>5, SeePeerValued, CountValued, SyncTickValued,
       ReceiveSyncValued, RestartValued DEF Next
<1>3. QED
  BY <1>1, <1>2, Invariance, PTL DEF Spec

\* Strong eventual consistency: two nodes that have seen the same updates have
\* the same clock, the same counter, the same known peers and the same assets,
\* in whatever order, how often and with whatever restarts the states travelled.
THEOREM NodesConverge == Spec => []Convergence
<1>1. IInv /\ VInv /\ AssetsAreObservedRemove => Convergence
  <2>1. SUFFICES ASSUME IInv, VInv, AssetsAreObservedRemove, NEW a \in Replicas,
                        NEW b \in Replicas, seen[a] = seen[b]
                 PROVE  /\ state[a].clock = state[b].clock
                        /\ state[a].counter = state[b].counter
                        /\ KnownPeers(state[a]) = KnownPeers(state[b])
                        /\ Elements(state[a].assets) = Elements(state[b].assets)
    BY Zenon DEF Convergence
  <2>2. PICK val \in [Nat -> Nat] : AllValued(val)
    BY Zenon, <2>1 DEF VInv, AllValued
  <2> DEFINE s == state[a]
             t == state[b]
             S == seen[a]
  <2>3. s \in WorldState /\ t \in WorldState /\ S \in SUBSET Update
    BY Zenon, <2>1, UpdateFacts
  <2>4. /\ s.clock \in [Replicas -> Nat] /\ t.clock \in [Replicas -> Nat]
        /\ s.counter \in [Replicas -> Nat] /\ t.counter \in [Replicas -> Nat]
        /\ s.assets \in AssetSet /\ t.assets \in AssetSet
    BY Zenon, <2>3, StateFields
  <2>5. Valued(s, S, val) /\ Valued(t, S, val)
    BY Zenon, <2>1, <2>2 DEF AllValued
  <2>6. \A x \in Assets : x \in Elements(s.assets) <=> x \in Elements(t.assets)
    BY Zenon, <2>1 DEF AssetsAreObservedRemove
  <2> HIDE DEF s, t, S
  <2>7. ASSUME NEW n \in Replicas
        PROVE  s.clock[n] = t.clock[n] /\ s.counter[n] = t.counter[n]
    <3>1. Ticks(S, n) \in SUBSET Update /\ Increments(S, n) \in SUBSET Update
      BY Zenon, <2>3 DEF Ticks, Increments
    <3>2. /\ s.clock[n] \in Nat /\ t.clock[n] \in Nat
          /\ s.counter[n] \in Nat /\ t.counter[n] \in Nat
      BY Zenon, <2>4
    <3>3. /\ HoldsGreatest(s.clock[n], val, Ticks(S, n)) /\ HoldsGreatest(t.clock[n], val, Ticks(S, n))
          /\ HoldsGreatest(s.counter[n], val, Increments(S, n))
          /\ HoldsGreatest(t.counter[n], val, Increments(S, n))
      BY Zenon, <2>5 DEF Valued
    <3>4. QED
      BY ONLY Zenon, <3>1, <3>2, <3>3, GreatestUnique, val \in [Nat -> Nat]
  <2>8. s.clock = t.clock /\ s.counter = t.counter
    BY <2>4, <2>7
  <2>9. KnownPeers(s) = KnownPeers(t)
    BY Zenon, <2>5 DEF KnownPeers, Valued
  <2>10. Elements(s.assets) \subseteq Assets /\ Elements(t.assets) \subseteq Assets
    BY Zenon, <2>4 DEF Elements, AssetSet
  <2>11. Elements(s.assets) = Elements(t.assets)
    BY Zenon, <2>6, <2>10
  <2>12. QED
    BY Zenon, <2>8, <2>9, <2>11 DEF s, t
<1>2. QED
  BY <1>1, Invariance, ValuesInvariance, AssetsObservedRemove, PTL

-----------------------------------------------------------------------------
(* Counts: the increments of a node that a state has seen are the first ones *)
(* the node made, so that of two states one has seen all that the other has. *)

Prefix(A, P) == A \subseteq P /\ \A u \in A, v \in P : v.id <= u.id => v \in A

\* With held[n] the updates of node n itself.
Counted(s, S, held) ==
    \A n \in Replicas : /\ Prefix(Increments(S, n), Increments(held[n], n))
                        /\ IsFiniteSet(Increments(S, n))
                        /\ s.counter[n] = Cardinality(Increments(S, n))

CInv == restarts = 0 => /\ \A r \in Replicas : Counted(state[r], seen[r], seen)
                        /\ \A m \in sent : Counted(m.state, m.seen, seen)

\* Of two prefixes one has all of the other, so the greater number is that of
\* both together.
LEMMA PrefixesMerge ==
    ASSUME NEW P \in SUBSET Update, NEW A, NEW B, Prefix(A, P), Prefix(B, P),
           IsFiniteSet(A), IsFiniteSet(B)
    PROVE  /\ Prefix(A \cup B, P) /\ IsFiniteSet(A \cup B)
           /\ Greater(Cardinality(A), Cardinality(B)) = Cardinality(A \cup B)
<1>1. A \subseteq B \/ B \subseteq A
  <2>1. SUFFICES ASSUME NEW a \in A, a \notin B, NEW b \in B PROVE b \in A
    BY Zenon
  <2>2. a \in P /\ b \in P /\ a.id \in Nat /\ b.id \in Nat
    BY Zenon DEF Prefix, Update
  <2>3. ~(a.id <= b.id)
    BY Zenon, <2>1, <2>2 DEF Prefix
  <2>4. b.id <= a.id
    BY <2>2, <2>3
  <2>5. QED
    BY Zenon, <2>2, <2>4 DEF Prefix
<1>2. Cardinality(A) \in Nat /\ Cardinality(B) \in Nat
  BY Zenon, FS_CardinalityType
<1>3. CASE A \subseteq B
  <2>1. A \cup B = B /\ A \in SUBSET B
    BY Zenon, <1>3
  <2>2. Cardinality(A) <= Cardinality(B)
    BY Zenon, <2>1, FS_Subset
  <2>3. Greater(Cardinality(A), Cardinality(B)) = Cardinality(B)
    BY <1>2, <2>2 DEF Greater
  <2>4. QED
    BY Zenon, <2>1, <2>3
<1>4. CASE B \subseteq A
  <2>1. A \cup B = A /\ B \in SUBSET A
    BY Zenon, <1>4
  <2>2. Cardinality(B) <= Cardinality(A)
    BY Zenon, <2>1, FS_Subset
  <2>3. Greater(Cardinality(A), Cardinality(B)) = Cardinality(A)
    BY Zenon, <1>2, <2>2 DEF Greater
  <2>4. QED
    BY Zenon, <2>1, <2>3
<1>5. QED
  BY Zenon, <1>1, <1>3, <1>4

\* A step after which every node has the same increments of its own as before,
\* and node r a state t of updates T that are counted.
LEMMA CountedStep ==
    ASSUME CrdtTypeOK, CInv, restarts = 0, NEW r \in Replicas, NEW t, NEW T,
           Counted(t, T, seen), Increments(T, r) = Increments(seen[r], r),
           state' = [state EXCEPT ![r] = t], seen' = [seen EXCEPT ![r] = T], sent' = sent
    PROVE  CInv'
<1>1. /\ \A q \in Replicas : state'[q] = IF q = r THEN t ELSE state[q]
      /\ \A q \in Replicas : seen'[q] = IF q = r THEN T ELSE seen[q]
  BY Zenon DEF CrdtTypeOK
<1>2. \A n \in Replicas : Increments(seen'[n], n) = Increments(seen[n], n)
  BY Zenon, <1>1
<1>3. \A s, S : Counted(s, S, seen) => Counted(s, S, seen')
  BY Zenon, <1>2 DEF Counted
<1>4. \A q \in Replicas : Counted(state'[q], seen'[q], seen')
  <2> SUFFICES ASSUME NEW q \in Replicas PROVE Counted(state'[q], seen'[q], seen')
    BY Zenon
  <2>1. CASE q = r
    <3>1. state'[q] = t /\ seen'[q] = T
      BY Zenon, <1>1, <2>1
    <3>2. Counted(t, T, seen')
      BY Zenon, <1>3
    <3>3. QED
      BY Zenon, <3>1, <3>2
  <2>2. CASE q # r
    <3>1. state'[q] = state[q] /\ seen'[q] = seen[q]
      BY Zenon, <1>1, <2>2
    <3>2. Counted(state[q], seen[q], seen')
      BY Zenon, <1>3 DEF CInv
    <3>3. QED
      BY Zenon, <3>1, <3>2
  <2>3. QED
    BY Zenon, <2>1, <2>2
<1>5. \A m \in sent' : Counted(m.state, m.seen, seen')
  BY Zenon, <1>3 DEF CInv
<1>6. QED
  BY Zenon, <1>4, <1>5 DEF CInv, Counted, Prefix, Increments

\* An update that counts nothing.
LEMMA OtherCounted ==
    ASSUME CrdtTypeOK, CInv, restarts = 0, NEW r \in Replicas, NEW u, u.kind # "count",
           NEW t, t.counter = state[r].counter, Updates(r, u, t)
    PROVE  CInv'
<1>1. Counted(state[r], seen[r], seen)
  BY Zenon DEF CInv
<1>2. \A n : Increments(seen[r] \cup {u}, n) = Increments(seen[r], n)
  BY Zenon DEF Increments
<1>3. Counted(t, seen[r] \cup {u}, seen)
  BY Zenon, <1>1, <1>2 DEF Counted
<1>4. /\ state' = [state EXCEPT ![r] = t] /\ seen' = [seen EXCEPT ![r] = seen[r] \cup {u}]
      /\ sent' = sent
  BY Zenon DEF Updates
<1>5. QED
  BY Zenon, <1>2, <1>3, <1>4, CountedStep

\* The crdt_sync branch of handle_direct_request.
LEMMA ReceiveSyncCounted ==
    ASSUME CrdtTypeOK, CInv, restarts = 0, NEW r \in Replicas, NEW m \in sent, ReceiveSync(r, m)
    PROVE  CInv'
<1> DEFINE t == Merge(state[r], m.state)
           T == seen[r] \cup m.seen
<1>1. Counted(state[r], seen[r], seen) /\ Counted(m.state, m.seen, seen)
  BY Zenon DEF CInv
<1>2. \A n : Increments(T, n) = Increments(seen[r], n) \cup Increments(m.seen, n)
  BY Zenon DEF Increments
<1>3. t.counter = [n \in Replicas |-> Greater(state[r].counter[n], m.state.counter[n])]
  BY Zenon DEF Merge, MergeCounts
<1>4. ASSUME NEW n \in Replicas
      PROVE  /\ Prefix(Increments(T, n), Increments(seen[n], n))
             /\ IsFiniteSet(Increments(T, n))
             /\ t.counter[n] = Cardinality(Increments(T, n))
  <2> DEFINE A == Increments(seen[r], n)
             B == Increments(m.seen, n)
             P == Increments(seen[n], n)
  <2>1. /\ Prefix(A, P) /\ Prefix(B, P) /\ IsFiniteSet(A) /\ IsFiniteSet(B)
        /\ state[r].counter[n] = Cardinality(A) /\ m.state.counter[n] = Cardinality(B)
    BY Zenon, <1>1 DEF Counted
  <2>2. P \in SUBSET Update
    BY Zenon DEF Increments, CrdtTypeOK
  <2>3. t.counter[n] = Greater(Cardinality(A), Cardinality(B))
    BY Zenon, <1>3, <2>1
  <2> HIDE DEF A, B, P, t
  <2>4. /\ Prefix(A \cup B, P) /\ IsFiniteSet(A \cup B)
        /\ Greater(Cardinality(A), Cardinality(B)) = Cardinality(A \cup B)
    BY ONLY Zenon, <2>1, <2>2, PrefixesMerge
  <2>5. Increments(T, n) = A \cup B
    BY Zenon, <1>2 DEF A, B
  <2>6. QED
    BY Zenon, <2>3, <2>4, <2>5 DEF P
<1>5. Counted(t, T, seen)
  BY Zenon, <1>4 DEF Counted
<1>6. Increments(T, r) = Increments(seen[r], r)
  <2>1. Increments(m.seen, r) \subseteq Increments(seen[r], r)
    BY Zenon, <1>1 DEF Counted, Prefix
  <2>2. QED
    BY Zenon, <1>2, <2>1
<1>7. /\ state' = [state EXCEPT ![r] = t] /\ seen' = [seen EXCEPT ![r] = T] /\ sent' = sent
  BY Zenon DEF ReceiveSync
<1> HIDE DEF t, T
<1>8. QED
  BY Zenon, <1>5, <1>6, <1>7, CountedStep

\* GCounter::increment: the node's own increments are one more, the last.
LEMMA CountCounted ==
    ASSUME IInv, CInv, restarts = 0, NEW r \in Replicas, Count(r)
    PROVE  CInv'
<1> DEFINE u == NewUpdate(Id, "count", r, 1, r)
           S == seen[r]
           t == [state[r] EXCEPT !.counter = Increment(state[r].counter, r, 1)]
           P == Increments(S, r)
<1>1. /\ state[r] \in WorldState /\ S \in SUBSET Update /\ Id = count + 1 /\ count \in Nat
      /\ CrdtTypeOK
  BY Zenon, UpdateFacts DEF IInv, Id
<1>2. u.id = Id /\ u.kind = "count" /\ u.node = r
  BY Zenon DEF NewUpdate
<1>3. /\ state[r].counter \in [Replicas -> Nat]
      /\ t.counter = Increment(state[r].counter, r, 1)
  BY Zenon, <1>1, StateFields DEF WorldState
<1>4. /\ state' = [state EXCEPT ![r] = t] /\ seen' = [seen EXCEPT ![r] = S \cup {u}]
      /\ sent' = sent
  BY Zenon DEF Count, Updates
<1> HIDE DEF u, t
<1>5. /\ \A q \in Replicas : state'[q] = IF q = r THEN t ELSE state[q]
      /\ \A q \in Replicas : seen'[q] = IF q = r THEN S \cup {u} ELSE seen[q]
  BY Zenon, <1>1, <1>4 DEF CrdtTypeOK
<1>6. /\ Increments(S \cup {u}, r) = P \cup {u}
      /\ \A n \in Replicas \ {r} : Increments(S \cup {u}, n) = Increments(S, n)
  BY Zenon, <1>2 DEF Increments
<1>7. /\ Increments(seen'[r], r) = P \cup {u}
      /\ \A n \in Replicas \ {r} : Increments(seen'[n], n) = Increments(seen[n], n)
  BY Zenon, <1>5, <1>6
<1>8. /\ \A q \in Replicas : \A v \in seen[q] : v.id \in Nat /\ ~(Id <= v.id)
      /\ \A m \in sent : \A v \in m.seen : v.id \in Nat /\ ~(Id <= v.id)
  <2>1. \A v \in Made : v.id \in Nat /\ v.id <= count
    BY Zenon, <1>1, MadeType DEF IInv, Numbered, Update
  <2>2. \A v \in Made : v.id \in Nat /\ ~(Id <= v.id)
    BY <1>1, <2>1
  <2>3. QED
    BY Zenon, <1>1, <2>2, MadeType
<1>9. ASSUME NEW s, NEW A, Counted(s, A, seen), \A v \in A : ~(Id <= v.id)
      PROVE  Counted(s, A, seen')
  <2>1. ASSUME NEW n \in Replicas
        PROVE  Prefix(Increments(A, n), Increments(seen'[n], n))
    <3>1. Prefix(Increments(A, n), Increments(seen[n], n))
      BY Zenon, <1>9 DEF Counted
    <3>2. CASE n # r
      BY Zenon, <1>7, <3>1, <3>2
    <3>3. CASE n = r
      <4>1. \A v \in Increments(A, n) : ~(u.id <= v.id)
        BY Zenon, <1>2, <1>9 DEF Increments
      <4>2. QED
        BY Zenon, <1>7, <3>1, <3>3, <4>1 DEF Prefix
    <3>4. QED
      BY Zenon, <3>2, <3>3
  <2>2. QED
    BY Zenon, <1>9, <2>1 DEF Counted
<1>10. Counted(t, S \cup {u}, seen')
  <2>1. Counted(state[r], S, seen) /\ Counted(state[r], S, seen')
    BY Zenon, <1>8, <1>9 DEF CInv
  <2>2. ASSUME NEW n \in Replicas
        PROVE  /\ Prefix(Increments(S \cup {u}, n), Increments(seen'[n], n))
               /\ IsFiniteSet(Increments(S \cup {u}, n))
               /\ t.counter[n] = Cardinality(Increments(S \cup {u}, n))
    <3>1. CASE n # r
      <4>1. t.counter[n] = state[r].counter[n]
        BY Zenon, <1>3, <3>1 DEF Increment
      <4>2. QED
        BY Zenon, <1>6, <2>1, <3>1, <4>1 DEF Counted
    <3>2. CASE n = r
      <4>1. IsFiniteSet(P) /\ state[r].counter[r] = Cardinality(P)
        BY Zenon, <2>1 DEF Counted
      <4>2. u \notin P
        BY Zenon, <1>1, <1>2, NextIsNew DEF Increments
      <4> HIDE DEF P
      <4>3. IsFiniteSet(P \cup {u}) /\ Cardinality(P \cup {u}) = Cardinality(P) + 1
        BY Zenon, <4>1, <4>2, FS_AddElement
      <4>4. t.counter[r] = state[r].counter[r] + 1
        BY Zenon, <1>3 DEF Increment
      <4>5. Prefix(P \cup {u}, P \cup {u})
        BY Zenon DEF Prefix
      <4>6. QED
        BY Zenon, <1>6, <1>7, <3>2, <4>1, <4>3, <4>4, <4>5
    <3>3. QED
      BY Zenon, <3>1, <3>2
  <2>3. QED
    BY Zenon, <2>2 DEF Counted
<1>11. \A q \in Replicas : Counted(state'[q], seen'[q], seen')
  <2>1. \A q \in Replicas : Counted(state[q], seen[q], seen')
    BY Zenon, <1>8, <1>9 DEF CInv
  <2>2. QED
    BY Zenon, <1>5, <1>10, <2>1
<1>12. \A m \in sent' : Counted(m.state, m.seen, seen')
  BY Zenon, <1>4, <1>8, <1>9 DEF CInv
<1>13. QED
  BY Zenon, <1>11, <1>12 DEF CInv, Counted, Prefix, Increments

\* on_crdt_sync_tick.
LEMMA SyncTickCounted ==
    ASSUME CInv, restarts = 0, NEW r \in Replicas, SyncTick(r)
    PROVE  CInv'
<1> DEFINE m == [from |-> r, state |-> state[r], seen |-> seen[r]]
<1>1. sent' = sent \cup {m} /\ state' = state /\ seen' = seen
  BY Zenon DEF SyncTick
<1>2. m.state = state[r] /\ m.seen = seen[r]
  BY Zenon
<1> HIDE DEF m
<1>3. /\ \A q \in Replicas : Counted(state'[q], seen'[q], seen')
      /\ \A n \in sent' : Counted(n.state, n.seen, seen')
  BY Zenon, <1>1, <1>2 DEF CInv
<1>4. QED
  BY Zenon, <1>3 DEF CInv, Counted, Prefix, Increments

\* At the start nobody has counted.
LEMMA InitCounted ==
    ASSUME Init
    PROVE  CInv
<1>1. PICK ts \in [Replicas -> Times] :
          /\ state = [r \in Replicas |-> Start(r, r, ts[r])]
          /\ seen = [r \in Replicas |-> {Boot(r, r, ts[r])}]
  BY Zenon DEF Init
<1>2. \A r \in Replicas : seen[r] = {Boot(r, r, ts[r])} /\ Boot(r, r, ts[r]).kind = "boot"
  BY Zenon, <1>1 DEF Boot, NewUpdate
<1>3. \A r, n \in Replicas : Increments(seen[r], n) = {}
  BY Zenon, <1>2 DEF Increments
<1>4. \A r, n \in Replicas : state[r].counter[n] = 0
  BY Zenon, <1>1 DEF Start, Tick, NewState
<1>5. IsFiniteSet({}) /\ Cardinality({}) = 0
  BY Zenon, FS_EmptySet
<1>6. Prefix({}, {})
  BY Zenon DEF Prefix
<1>7. \A r \in Replicas : Counted(state[r], seen[r], seen)
  BY Zenon, <1>3, <1>4, <1>5, <1>6 DEF Counted
<1>8. sent = {}
  BY Zenon DEF Init
<1>9. QED
  BY Zenon, <1>7, <1>8 DEF CInv

\* Until a node starts anew, the increments of a node that a state has seen are
\* the first ones the node made, and the state's count is their number.
THEOREM CountsInvariance == Spec => []CInv
<1>1. Init => CInv
  BY Zenon, InitCounted
<1>2. IInv /\ CInv /\ [Next]_vars => CInv'
  <2>1. SUFFICES ASSUME IInv, CInv, [Next]_vars, restarts' = 0 PROVE CInv'
    BY Zenon DEF CInv
  <2>2. CrdtTypeOK /\ restarts \in Nat
    BY Zenon, <2>1 DEF IInv, CrdtTypeOK
  <2>3. restarts = 0
    BY <2>1, <2>2 DEF Next, vars, SeePeer, SetStatus, Count, Add, Remove, Updates, SyncTick,
                      ReceiveSync, Restart
  <2>4. CASE UNCHANGED vars
    <3>1. state' = state /\ seen' = seen /\ sent' = sent
      BY Zenon, <2>4 DEF vars
    <3>2. /\ \A q \in Replicas : Counted(state'[q], seen'[q], seen')
          /\ \A m \in sent' : Counted(m.state, m.seen, seen')
      BY Zenon, <2>1, <2>3, <3>1 DEF CInv
    <3>3. QED
      BY Zenon, <3>2 DEF CInv, Counted, Prefix, Increments
  <2>5. ASSUME NEW r \in Replicas, NEW p \in Peers, NEW ts \in Times, SeePeer(r, p, ts)
        PROVE  CInv'
    <3> DEFINE u == NewUpdate(Id, "peer", r, ts, p)
               t == UpdatePeer(state[r], r, p, Id, ts)
    <3>1. u.kind # "count"
      BY Zenon DEF NewUpdate
    <3>2. state[r] \in WorldState
      BY Zenon, <2>2 DEF CrdtTypeOK
    <3>3. t.counter = state[r].counter
      BY Zenon, <3>2 DEF UpdatePeer, Tick, WorldState
    <3>4. Updates(r, u, t)
      BY Zenon, <2>5 DEF SeePeer
    <3> HIDE DEF u, t
    <3>5. QED
      BY Zenon, <2>1, <2>2, <2>3, <3>1, <3>3, <3>4, OtherCounted
  <2>6. ASSUME NEW r \in Replicas, NEW ts \in Times, SetStatus(r, ts)
        PROVE  CInv'
    <3> DEFINE u == NewUpdate(Id, "status", r, ts, r)
               t == [state[r] EXCEPT !.status = [value |-> Id, ts |-> ts, node |-> r]]
    <3>1. u.kind # "count"
      BY Zenon DEF NewUpdate
    <3>2. state[r] \in WorldState
      BY Zenon, <2>2 DEF CrdtTypeOK
    <3>3. t.counter = state[r].counter
      BY Zenon, <3>2 DEF WorldState
    <3>4. Updates(r, u, t)
      BY Zenon, <2>6 DEF SetStatus
    <3> HIDE DEF u, t
    <3>5. QED
      BY Zenon, <2>1, <2>2, <2>3, <3>1, <3>3, <3>4, OtherCounted
  <2>7. ASSUME NEW r \in Replicas, NEW a \in Assets, Add(r, a)
        PROVE  CInv'
    <3> DEFINE u == NewUpdate(Id, "add", r, 1, a)
               t == [state[r] EXCEPT !.assets = AddAsset(state[r].assets, a, Id)]
    <3>1. u.kind # "count"
      BY Zenon DEF NewUpdate
    <3>2. state[r] \in WorldState
      BY Zenon, <2>2 DEF CrdtTypeOK
    <3>3. t.counter = state[r].counter
      BY Zenon, <3>2 DEF WorldState
    <3>4. Updates(r, u, t)
      BY Zenon, <2>7 DEF Add
    <3> HIDE DEF u, t
    <3>5. QED
      BY Zenon, <2>1, <2>2, <2>3, <3>1, <3>3, <3>4, OtherCounted
  <2>8. ASSUME NEW r \in Replicas, NEW a \in Assets, Remove(r, a)
        PROVE  CInv'
    <3> DEFINE u == [NewUpdate(Id, "remove", r, 1, a) EXCEPT
                         !.observed = {v.id : v \in About(seen[r], "add", a)}]
               t == [state[r] EXCEPT !.assets = RemoveAsset(state[r].assets, a)]
    <3>1. u.kind # "count"
      BY Zenon DEF NewUpdate
    <3>2. state[r] \in WorldState
      BY Zenon, <2>2 DEF CrdtTypeOK
    <3>3. t.counter = state[r].counter
      BY Zenon, <3>2 DEF WorldState
    <3>4. Updates(r, u, t)
      BY Zenon, <2>8 DEF Remove
    <3> HIDE DEF u, t
    <3>5. QED
      BY Zenon, <2>1, <2>2, <2>3, <3>1, <3>3, <3>4, OtherCounted
  <2>9. ASSUME NEW r \in Replicas, NEW ts \in Times, Restart(r, ts)
        PROVE  CInv'
    BY <2>1, <2>2, <2>9 DEF Restart
  <2>10. QED
    BY Zenon, <2>1, <2>2, <2>3, <2>4, <2>5, <2>6, <2>7, <2>8, <2>9, CountCounted, SyncTickCounted,
       ReceiveSyncCounted DEF Next
<1>3. QED
  BY <1>1, <1>2, Invariance, PTL DEF Spec

\* GCounter: no merge counts an increment twice or loses one, however often and
\* in whatever order states arrive: a total is the number of increments seen.
THEOREM CountsComplete == Spec => []CountsAreComplete
<1>1. CInv => CountsAreComplete
  BY Zenon DEF CInv, Counted, Increments, CountsAreComplete
<1>2. QED
  BY <1>1, CountsInvariance, PTL

-----------------------------------------------------------------------------
(* The laws of CrdtWorldState::merge *)

\* Neither the order nor a repetition matters to the counts of clocks and counters.
LEMMA CountsLaws ==
    ASSUME NEW c \in [Replicas -> Nat], NEW d \in [Replicas -> Nat]
    PROVE  MergeCounts(c, d) = MergeCounts(d, c) /\ MergeCounts(c, c) = c
BY DEF MergeCounts, Greater

\* Nor does the grouping of three of them.
LEMMA CountsAssociate ==
    ASSUME NEW c \in [Replicas -> Nat], NEW d \in [Replicas -> Nat], NEW e \in [Replicas -> Nat]
    PROVE  MergeCounts(MergeCounts(c, d), e) = MergeCounts(c, MergeCounts(d, e))
BY DEF MergeCounts, Greater

\* The first times in a set may depend on the order, its elements do not.
LEMMA GSetLaws ==
    ASSUME NEW g \in [Peers -> Nat], NEW h \in [Peers -> Nat]
    PROVE  /\ \A p \in Peers : MergeGSet(g, h)[p] # 0 <=> MergeGSet(h, g)[p] # 0
           /\ MergeGSet(g, g) = g
BY DEF MergeGSet

\* The grouping matters neither to the elements nor to their first times.
LEMMA GSetAssociates ==
    ASSUME NEW g \in [Peers -> Nat], NEW h \in [Peers -> Nat], NEW i \in [Peers -> Nat]
    PROVE  MergeGSet(MergeGSet(g, h), i) = MergeGSet(g, MergeGSet(h, i))
BY DEF MergeGSet

\* The newer of two values wins, by time and then by node, whichever comes first.
LEMMA RegisterLaws ==
    ASSUME NEW a \in Register, NEW b \in Register
    PROVE  /\ a.ts # b.ts \/ a.node # b.node => MergeRegister(a, b) = MergeRegister(b, a)
           /\ MergeRegister(a, a) = a
BY DEF MergeRegister, Newer, Register, Replicas

\* The newest of three values wins, however they are grouped.
LEMMA RegisterAssociates ==
    ASSUME NEW a \in Register, NEW b \in Register, NEW c \in Register
    PROVE  MergeRegister(MergeRegister(a, b), c) = MergeRegister(a, MergeRegister(b, c))
BY DEF MergeRegister, Newer, Register, Replicas

\* The registry keeps the newest entry and, of equally new ones, its own.
LEMMA RegistryLaws ==
    ASSUME NEW m \in [Peers -> Entry], NEW n \in [Peers -> Entry]
    PROVE  /\ \A p \in Peers : m[p].ts # n[p].ts => MergeRegistry(m, n)[p] = MergeRegistry(n, m)[p]
           /\ MergeRegistry(m, m) = m
<1>1. \A a, b \in Entry : (a.ts # b.ts => Pick(a, b) = Pick(b, a)) /\ Pick(a, a) = a
  BY DEF Pick, Keeps, Entry, NoEntry
<1>2. \A p \in Peers : m[p] \in Entry /\ n[p] \in Entry
  BY Zenon
<1>3. m = [p \in Peers |-> m[p]]
  BY Zenon
<1>4. QED
  BY <1>1, <1>2, <1>3 DEF MergeRegistry

\* Entries keep that choice however three registries are grouped.
LEMMA RegistryAssociates ==
    ASSUME NEW m \in [Peers -> Entry], NEW n \in [Peers -> Entry], NEW o \in [Peers -> Entry]
    PROVE  MergeRegistry(MergeRegistry(m, n), o) = MergeRegistry(m, MergeRegistry(n, o))
<1>1. \A a, b, c \in Entry : Pick(Pick(a, b), c) = Pick(a, Pick(b, c))
  BY DEF Pick, Keeps, Entry, NoEntry
<1>2. \A p \in Peers : m[p] \in Entry /\ n[p] \in Entry /\ o[p] \in Entry
  BY Zenon
<1>3. QED
  BY <1>1, <1>2 DEF MergeRegistry

\* After a merge, an element is there if one of its tags in either set was removed in
\* neither.
LEMMA MergedElements ==
    ASSUME NEW s \in AssetSet, NEW t \in AssetSet, NEW a \in Assets
    PROVE  a \in Elements(MergeAssets(s, t)) <=>
               \E tag \in Nat : /\ <<a, tag>> \in s.entries \cup t.entries
                                /\ tag \notin s.removed \cup t.removed
<1> DEFINE m == MergeAssets(s, t)
           gone == s.removed \cup t.removed
<1>1. /\ m \in AssetSet
      /\ m.entries \subseteq s.entries \cup t.entries
      /\ \A b \in Assets, tag \in Nat :
            /\ <<b, tag>> \in s.entries \cup t.entries
            /\ tag \notin gone
            => <<b, tag>> \in m.entries
      /\ \A e \in m.entries : \E tag \in Nat :
            <<e[1], tag>> \in m.entries /\ tag \notin gone
  BY Zenon, MergeAssetsType
<1> HIDE DEF m, gone
<1>2. ASSUME a \in Elements(m)
      PROVE  \E tag \in Nat : <<a, tag>> \in s.entries \cup t.entries /\ tag \notin gone
  BY Zenon, <1>1, <1>2 DEF Elements
<1>3. ASSUME NEW tag \in Nat, <<a, tag>> \in s.entries \cup t.entries, tag \notin gone
      PROVE  a \in Elements(m)
  <2>1. <<a, tag>> \in m.entries /\ <<a, tag>>[1] = a
    BY <1>1, <1>3
  <2>2. QED
    BY Zenon, <2>1 DEF Elements
<1>4. QED
  BY Zenon, <1>2, <1>3 DEF m, gone

\* The order of two sets of assets does not matter, and a set that holds no element
\* without a live tag is not changed by a merge with itself.
LEMMA AssetsLaws ==
    ASSUME NEW s \in AssetSet, NEW t \in AssetSet
    PROVE  /\ MergeAssets(s, t) = MergeAssets(t, s)
           /\ (\A a \in Elements(s) : Contains(s, a)) => MergeAssets(s, s) = s
<1>1. MergeAssets(s, t) = MergeAssets(t, s)
  <2>1. s.entries \cup t.entries = t.entries \cup s.entries
        /\ s.removed \cup t.removed = t.removed \cup s.removed
    OBVIOUS
  <2>2. QED
    BY Zenon, <2>1 DEF MergeAssets
<1>2. ASSUME \A a \in Elements(s) : Contains(s, a)
      PROVE  MergeAssets(s, s) = s
  <2> DEFINE both == [entries |-> s.entries, removed |-> s.removed]
  <2>1. both = s
    BY DEF AssetSet
  <2>2. {e \in s.entries : Contains(s, e[1])} = s.entries
    BY Zenon, <1>2 DEF Elements
  <2>3. s.entries \cup s.entries = s.entries /\ s.removed \cup s.removed = s.removed
    OBVIOUS
  <2>4. MergeAssets(s, s) = [both EXCEPT !.entries = {e \in both.entries : Contains(both, e[1])}]
    BY Zenon, <2>3 DEF MergeAssets
  <2>5. MergeAssets(s, s) = [s EXCEPT !.entries = s.entries]
    BY Zenon, <2>1, <2>2, <2>4
  <2>6. QED
    BY <2>5 DEF AssetSet
<1>3. QED
  BY Zenon, <1>1, <1>2

\* However three sets are merged, the same elements are left.
LEMMA AssetsAssociate ==
    ASSUME NEW s \in AssetSet, NEW t \in AssetSet, NEW u \in AssetSet
    PROVE  Elements(MergeAssets(MergeAssets(s, t), u)) = Elements(MergeAssets(s, MergeAssets(t, u)))
<1> DEFINE m == MergeAssets(s, t)
           n == MergeAssets(t, u)
           live(a, tag) == /\ <<a, tag>> \in s.entries \cup t.entries \cup u.entries
                           /\ tag \notin s.removed \cup t.removed \cup u.removed
<1>1. /\ m \in AssetSet /\ m.removed = s.removed \cup t.removed
      /\ m.entries \subseteq s.entries \cup t.entries
      /\ \A a \in Assets, tag \in Nat :
            <<a, tag>> \in s.entries \cup t.entries /\ tag \notin m.removed =>
                <<a, tag>> \in m.entries
  <2>1. m.removed = s.removed \cup t.removed
    BY Zenon, MergeAssetsType
  <2>2. QED
    BY Zenon, <2>1, MergeAssetsType
<1>2. /\ n \in AssetSet /\ n.removed = t.removed \cup u.removed
      /\ n.entries \subseteq t.entries \cup u.entries
      /\ \A a \in Assets, tag \in Nat :
            <<a, tag>> \in t.entries \cup u.entries /\ tag \notin n.removed =>
                <<a, tag>> \in n.entries
  <2>1. n.removed = t.removed \cup u.removed
    BY Zenon, MergeAssetsType
  <2>2. QED
    BY Zenon, <2>1, MergeAssetsType
<1> HIDE DEF m, n
<1>3. ASSUME NEW a \in Assets
      PROVE  a \in Elements(MergeAssets(m, u)) <=> \E tag \in Nat : live(a, tag)
  <2>1. \A tag \in Nat : (/\ <<a, tag>> \in m.entries \cup u.entries
                          /\ tag \notin m.removed \cup u.removed) <=> live(a, tag)
    BY Zenon, <1>1
  <2>2. QED
    BY Zenon, <1>1, <2>1, MergedElements
<1>4. ASSUME NEW a \in Assets
      PROVE  a \in Elements(MergeAssets(s, n)) <=> \E tag \in Nat : live(a, tag)
  <2>1. \A tag \in Nat : (/\ <<a, tag>> \in s.entries \cup n.entries
                          /\ tag \notin s.removed \cup n.removed) <=> live(a, tag)
    BY Zenon, <1>2
  <2>2. QED
    BY Zenon, <1>2, <2>1, MergedElements
<1> HIDE DEF live
<1>5. \A x \in AssetSet : Elements(x) \subseteq Assets
  BY DEF Elements, AssetSet
<1>6. MergeAssets(m, u) \in AssetSet /\ MergeAssets(s, n) \in AssetSet
  BY Zenon, <1>1, <1>2, MergeAssetsType
<1>7. Elements(MergeAssets(m, u)) \subseteq Assets /\ Elements(MergeAssets(s, n)) \subseteq Assets
  BY Zenon, <1>5, <1>6
<1>8. QED
  BY Zenon, <1>3, <1>4, <1>7 DEF m, n

\* CrdtWorldState::merge, of whatever states: the order of two states matters only
\* to the first times in the set of peers and to values and entries written at
\* the same time.
THEOREM MergeCommutes ==
    ASSUME NEW s \in WorldState, NEW t \in WorldState
    PROVE  LET m == Merge(s, t)
               n == Merge(t, s)
           IN  /\ m.clock = n.clock /\ m.counter = n.counter /\ m.assets = n.assets
               /\ KnownPeers(m) = KnownPeers(n)
               /\ s.status.ts # t.status.ts \/ s.status.node # t.status.node =>
                      m.status = n.status
               /\ \A p \in Peers : s.peers[p].ts # t.peers[p].ts => m.peers[p] = n.peers[p]
<1>1. /\ s.clock \in [Replicas -> Nat] /\ t.clock \in [Replicas -> Nat]
      /\ s.counter \in [Replicas -> Nat] /\ t.counter \in [Replicas -> Nat]
      /\ s.known \in [Peers -> Nat] /\ t.known \in [Peers -> Nat]
      /\ s.status \in Register /\ t.status \in Register
      /\ s.assets \in AssetSet /\ t.assets \in AssetSet
      /\ s.peers \in [Peers -> Entry] /\ t.peers \in [Peers -> Entry]
  BY Zenon, StateFields
<1> DEFINE m == Merge(s, t)
           n == Merge(t, s)
<1>2. /\ m.clock = MergeCounts(s.clock, t.clock) /\ n.clock = MergeCounts(t.clock, s.clock)
      /\ m.counter = MergeCounts(s.counter, t.counter)
      /\ n.counter = MergeCounts(t.counter, s.counter)
      /\ m.assets = MergeAssets(s.assets, t.assets) /\ n.assets = MergeAssets(t.assets, s.assets)
      /\ m.known = MergeGSet(s.known, t.known) /\ n.known = MergeGSet(t.known, s.known)
      /\ m.status = MergeRegister(s.status, t.status)
      /\ n.status = MergeRegister(t.status, s.status)
      /\ m.peers = MergeRegistry(s.peers, t.peers) /\ n.peers = MergeRegistry(t.peers, s.peers)
  BY Zenon DEF Merge
<1> HIDE DEF m, n
<1>3. m.clock = n.clock /\ m.counter = n.counter
  BY Zenon, <1>1, <1>2, CountsLaws
<1>4. m.assets = n.assets
  BY Zenon, <1>1, <1>2, AssetsLaws
<1>5. KnownPeers(m) = KnownPeers(n)
  <2>1. \A p \in Peers : MergeGSet(s.known, t.known)[p] # 0 <=> MergeGSet(t.known, s.known)[p] # 0
    BY Zenon, <1>1, GSetLaws
  <2>2. \A p \in Peers : m.known[p] # 0 <=> n.known[p] # 0
    BY Zenon, <1>2, <2>1
  <2>3. QED
    BY Zenon, <2>2 DEF KnownPeers
<1>6. s.status.ts # t.status.ts \/ s.status.node # t.status.node => m.status = n.status
  BY Zenon, <1>1, <1>2, RegisterLaws
<1>7. \A p \in Peers : s.peers[p].ts # t.peers[p].ts => m.peers[p] = n.peers[p]
  <2>1. \A p \in Peers : s.peers[p].ts # t.peers[p].ts =>
            MergeRegistry(s.peers, t.peers)[p] = MergeRegistry(t.peers, s.peers)[p]
    BY Zenon, <1>1, RegistryLaws
  <2>2. QED
    BY Zenon, <1>2, <2>1
<1>8. QED
  BY Zenon, <1>3, <1>4, <1>5, <1>6, <1>7 DEF m, n

\* Nor does it matter how three states are grouped, so it is of no consequence
\* which node passes an update on to which.
THEOREM MergeAssociates ==
    ASSUME NEW s \in WorldState, NEW t \in WorldState, NEW u \in WorldState
    PROVE  LET m == Merge(Merge(s, t), u)
               n == Merge(s, Merge(t, u))
           IN  /\ m.clock = n.clock /\ m.counter = n.counter /\ m.known = n.known
               /\ m.status = n.status /\ m.peers = n.peers
               /\ Elements(m.assets) = Elements(n.assets)
<1> DEFINE a == Merge(s, t)
           b == Merge(t, u)
           m == Merge(a, u)
           n == Merge(s, b)
<1>1. /\ a.clock = MergeCounts(s.clock, t.clock) /\ a.counter = MergeCounts(s.counter, t.counter)
      /\ a.known = MergeGSet(s.known, t.known) /\ a.status = MergeRegister(s.status, t.status)
      /\ a.peers = MergeRegistry(s.peers, t.peers) /\ a.assets = MergeAssets(s.assets, t.assets)
  BY Zenon DEF Merge
<1>2. /\ b.clock = MergeCounts(t.clock, u.clock) /\ b.counter = MergeCounts(t.counter, u.counter)
      /\ b.known = MergeGSet(t.known, u.known) /\ b.status = MergeRegister(t.status, u.status)
      /\ b.peers = MergeRegistry(t.peers, u.peers) /\ b.assets = MergeAssets(t.assets, u.assets)
  BY Zenon DEF Merge
<1> HIDE DEF a, b
<1>3. /\ m.clock = MergeCounts(a.clock, u.clock) /\ m.counter = MergeCounts(a.counter, u.counter)
      /\ m.known = MergeGSet(a.known, u.known) /\ m.status = MergeRegister(a.status, u.status)
      /\ m.peers = MergeRegistry(a.peers, u.peers) /\ m.assets = MergeAssets(a.assets, u.assets)
  BY Zenon DEF Merge
<1>4. /\ n.clock = MergeCounts(s.clock, b.clock) /\ n.counter = MergeCounts(s.counter, b.counter)
      /\ n.known = MergeGSet(s.known, b.known) /\ n.status = MergeRegister(s.status, b.status)
      /\ n.peers = MergeRegistry(s.peers, b.peers) /\ n.assets = MergeAssets(s.assets, b.assets)
  BY Zenon DEF Merge
<1> HIDE DEF m, n
<1>5. m.clock = n.clock
  <2>1. s.clock \in [Replicas -> Nat] /\ t.clock \in [Replicas -> Nat] /\ u.clock \in [Replicas -> Nat]
    BY Zenon, StateFields
  <2>2. MergeCounts(MergeCounts(s.clock, t.clock), u.clock)
            = MergeCounts(s.clock, MergeCounts(t.clock, u.clock))
    BY Zenon, <2>1, CountsAssociate
  <2>3. m.clock = MergeCounts(MergeCounts(s.clock, t.clock), u.clock)
    BY Zenon, <1>1, <1>3
  <2>4. n.clock = MergeCounts(s.clock, MergeCounts(t.clock, u.clock))
    BY Zenon, <1>2, <1>4
  <2>5. QED
    BY Zenon, <2>2, <2>3, <2>4
<1>6. m.counter = n.counter
  <2>1. /\ s.counter \in [Replicas -> Nat] /\ t.counter \in [Replicas -> Nat]
        /\ u.counter \in [Replicas -> Nat]
    BY Zenon, StateFields
  <2>2. MergeCounts(MergeCounts(s.counter, t.counter), u.counter)
            = MergeCounts(s.counter, MergeCounts(t.counter, u.counter))
    BY Zenon, <2>1, CountsAssociate
  <2>3. m.counter = MergeCounts(MergeCounts(s.counter, t.counter), u.counter)
    BY Zenon, <1>1, <1>3
  <2>4. n.counter = MergeCounts(s.counter, MergeCounts(t.counter, u.counter))
    BY Zenon, <1>2, <1>4
  <2>5. QED
    BY Zenon, <2>2, <2>3, <2>4
<1>7. m.known = n.known
  <2>1. s.known \in [Peers -> Nat] /\ t.known \in [Peers -> Nat] /\ u.known \in [Peers -> Nat]
    BY Zenon, StateFields
  <2>2. MergeGSet(MergeGSet(s.known, t.known), u.known)
            = MergeGSet(s.known, MergeGSet(t.known, u.known))
    BY Zenon, <2>1, GSetAssociates
  <2>3. m.known = MergeGSet(MergeGSet(s.known, t.known), u.known)
    BY Zenon, <1>1, <1>3
  <2>4. n.known = MergeGSet(s.known, MergeGSet(t.known, u.known))
    BY Zenon, <1>2, <1>4
  <2>5. QED
    BY Zenon, <2>2, <2>3, <2>4
<1>8. m.status = n.status
  <2>1. s.status \in Register /\ t.status \in Register /\ u.status \in Register
    BY Zenon, StateFields
  <2>2. MergeRegister(MergeRegister(s.status, t.status), u.status)
            = MergeRegister(s.status, MergeRegister(t.status, u.status))
    BY Zenon, <2>1, RegisterAssociates
  <2>3. m.status = MergeRegister(MergeRegister(s.status, t.status), u.status)
    BY Zenon, <1>1, <1>3
  <2>4. n.status = MergeRegister(s.status, MergeRegister(t.status, u.status))
    BY Zenon, <1>2, <1>4
  <2>5. QED
    BY Zenon, <2>2, <2>3, <2>4
<1>9. m.peers = n.peers
  <2>1. s.peers \in [Peers -> Entry] /\ t.peers \in [Peers -> Entry] /\ u.peers \in [Peers -> Entry]
    BY Zenon, StateFields
  <2>2. MergeRegistry(MergeRegistry(s.peers, t.peers), u.peers)
            = MergeRegistry(s.peers, MergeRegistry(t.peers, u.peers))
    BY Zenon, <2>1, RegistryAssociates
  <2>3. m.peers = MergeRegistry(MergeRegistry(s.peers, t.peers), u.peers)
    BY Zenon, <1>1, <1>3
  <2>4. n.peers = MergeRegistry(s.peers, MergeRegistry(t.peers, u.peers))
    BY Zenon, <1>2, <1>4
  <2>5. QED
    BY Zenon, <2>2, <2>3, <2>4
<1>10. Elements(m.assets) = Elements(n.assets)
  <2>1. s.assets \in AssetSet /\ t.assets \in AssetSet /\ u.assets \in AssetSet
    BY Zenon, StateFields
  <2>2. Elements(MergeAssets(MergeAssets(s.assets, t.assets), u.assets))
            = Elements(MergeAssets(s.assets, MergeAssets(t.assets, u.assets)))
    BY Zenon, <2>1, AssetsAssociate
  <2>3. m.assets = MergeAssets(MergeAssets(s.assets, t.assets), u.assets)
    BY Zenon, <1>1, <1>3
  <2>4. n.assets = MergeAssets(s.assets, MergeAssets(t.assets, u.assets))
    BY Zenon, <1>2, <1>4
  <2>5. QED
    BY Zenon, <2>2, <2>3, <2>4
<1>11. QED
  BY Zenon, <1>5, <1>6, <1>7, <1>8, <1>9, <1>10 DEF m, n, a, b

\* A node that merges its own state, as when its message comes back to it, changes
\* nothing. The hypothesis is the last clause of
\* AssetsAreObservedRemove, which holds in every reachable state.
THEOREM MergeIdempotent ==
    ASSUME NEW s \in WorldState, \A a \in Elements(s.assets) : Contains(s.assets, a)
    PROVE  Merge(s, s) = s
<1>1. MergeCounts(s.clock, s.clock) = s.clock /\ MergeCounts(s.counter, s.counter) = s.counter
  BY Zenon, StateFields, CountsLaws
<1>2. MergeGSet(s.known, s.known) = s.known /\ MergeRegister(s.status, s.status) = s.status
  BY Zenon, StateFields, GSetLaws, RegisterLaws
<1>3. MergeRegistry(s.peers, s.peers) = s.peers
  BY Zenon, StateFields, RegistryLaws
<1>4. MergeAssets(s.assets, s.assets) = s.assets
  BY Zenon, StateFields, AssetsLaws
<1>5. s = [clock |-> s.clock, peers |-> s.peers, known |-> s.known, status |-> s.status,
           counter |-> s.counter, assets |-> s.assets]
  BY DEF WorldState
<1>6. QED
  BY Zenon, <1>1, <1>2, <1>3, <1>4, <1>5 DEF Merge

-----------------------------------------------------------------------------
(* Registers are whole *)

RInv == /\ \A r \in Replicas : IsWrite(state[r].status, seen[r])
        /\ \A m \in sent : IsWrite(m.state.status, m.seen)

\* LwwRegister::merge keeps one of the two registers.
LEMMA WriteAfterMerge ==
    ASSUME NEW a, NEW b, NEW S, NEW T, IsWrite(a, S), IsWrite(b, T)
    PROVE  IsWrite(MergeRegister(a, b), S \cup T)
<1>1. IsWrite(a, S \cup T) /\ IsWrite(b, S \cup T)
  BY Zenon DEF IsWrite
<1>2. MergeRegister(a, b) = a \/ MergeRegister(a, b) = b
  BY Zenon DEF MergeRegister
<1>3. QED
  BY Zenon, <1>1, <1>2

\* A start writes its register.
LEMMA StartWrites ==
    ASSUME NEW r \in Replicas, NEW id \in Nat \ {0}, NEW ts \in Times
    PROVE  IsWrite(Start(r, id, ts).status, {Boot(r, id, ts)})
<1>1. Start(r, id, ts).status = [value |-> id, ts |-> ts, node |-> r]
  BY Zenon DEF Start, Tick, NewState
<1>2. /\ Boot(r, id, ts).kind = "boot" /\ Boot(r, id, ts).id = id
      /\ Boot(r, id, ts).ts = ts /\ Boot(r, id, ts).node = r
  BY Zenon DEF Boot, NewUpdate
<1>3. QED
  BY Zenon, <1>1, <1>2 DEF IsWrite

\* A step that gives node r the state t of the updates T.
LEMMA WriteStep ==
    ASSUME CrdtTypeOK, RInv, NEW r \in Replicas, NEW t, NEW T, IsWrite(t.status, T),
           state' = [state EXCEPT ![r] = t], seen' = [seen EXCEPT ![r] = T], sent' = sent
    PROVE  RInv'
<1>1. /\ \A q \in Replicas : state'[q] = IF q = r THEN t ELSE state[q]
      /\ \A q \in Replicas : seen'[q] = IF q = r THEN T ELSE seen[q]
  BY Zenon DEF CrdtTypeOK
<1>2. ASSUME NEW q \in Replicas PROVE IsWrite(state'[q].status, seen'[q])
  <2>1. CASE q = r
    BY Zenon, <1>1, <2>1
  <2>2. CASE q # r
    BY Zenon, <1>1, <2>2 DEF RInv
  <2>3. QED
    BY Zenon, <2>1, <2>2
<1>3. \A m \in sent' : IsWrite(m.state.status, m.seen)
  BY Zenon DEF RInv
<1>4. QED
  BY Zenon, <1>2, <1>3 DEF RInv, IsWrite

\* An update that leaves the register alone, or writes it.
LEMMA UpdateWrites ==
    ASSUME CrdtTypeOK, RInv, NEW r \in Replicas, NEW u, NEW t, Updates(r, u, t),
           t.status = state[r].status \/ IsWrite(t.status, {u})
    PROVE  RInv'
<1>1. IsWrite(t.status, seen[r] \cup {u})
  BY Zenon DEF RInv, IsWrite
<1>2. /\ state' = [state EXCEPT ![r] = t] /\ seen' = [seen EXCEPT ![r] = seen[r] \cup {u}]
      /\ sent' = sent
  BY Zenon DEF Updates
<1>3. QED
  BY ONLY Zenon, CrdtTypeOK, RInv, r \in Replicas, <1>1, <1>2, WriteStep

\* LwwRegister: whatever the nodes do and however their states travel, a register
\* holds the value, the time and the node of one and the same write.
THEOREM RegistersWhole == Spec => []RegistersAreWrites
<1>1. Init => RInv
  <2>1. SUFFICES ASSUME Init PROVE RInv
    BY Zenon
  <2>2. PICK ts \in [Replicas -> Times] :
            /\ state = [r \in Replicas |-> Start(r, r, ts[r])]
            /\ seen = [r \in Replicas |-> {Boot(r, r, ts[r])}]
    BY Zenon, <2>1 DEF Init
  <2>3. \A r \in Replicas : r \in Nat \ {0} /\ ts[r] \in Times
    BY CrdtAssumption DEF Replicas
  <2>4. \A r \in Replicas : IsWrite(state[r].status, seen[r])
    BY Zenon, <2>2, <2>3, StartWrites
  <2>5. QED
    BY Zenon, <2>1, <2>4 DEF RInv, Init
<1>2. IInv /\ RInv /\ [Next]_vars => RInv'
  <2>1. SUFFICES ASSUME IInv, RInv, [Next]_vars PROVE RInv'
    BY Zenon
  <2>2. CrdtTypeOK /\ Id \in Nat \ {0} /\ \A r \in Replicas : state[r] \in WorldState
    BY <2>1 DEF IInv, CrdtTypeOK, Id
  <2>3. CASE UNCHANGED vars
    BY Zenon, <2>1, <2>3 DEF vars, RInv, IsWrite
  <2>4. ASSUME NEW r \in Replicas, NEW p \in Peers, NEW ts \in Times, SeePeer(r, p, ts)
        PROVE  RInv'
    <3>1. UpdatePeer(state[r], r, p, Id, ts).status = state[r].status
      BY Zenon, <2>2 DEF UpdatePeer, Tick, WorldState
    <3>2. QED
      BY Zenon, <2>1, <2>2, <2>4, <3>1, UpdateWrites DEF SeePeer
  <2>5. ASSUME NEW r \in Replicas, NEW ts \in Times, SetStatus(r, ts)
        PROVE  RInv'
    <3> DEFINE u == NewUpdate(Id, "status", r, ts, r)
               t == [state[r] EXCEPT !.status = [value |-> Id, ts |-> ts, node |-> r]]
    <3>1. t.status = [value |-> Id, ts |-> ts, node |-> r]
      BY Zenon, <2>2 DEF WorldState
    <3>2. u.kind = "status" /\ u.id = Id /\ u.ts = ts /\ u.node = r
      BY Zenon DEF NewUpdate
    <3>3. Updates(r, u, t)
      BY Zenon, <2>5 DEF SetStatus
    <3> HIDE DEF u, t
    <3>4. IsWrite(t.status, {u})
      BY Zenon, <3>1, <3>2 DEF IsWrite
    <3>5. QED
      BY Zenon, <2>1, <2>2, <3>3, <3>4, UpdateWrites
  <2>6. ASSUME NEW r \in Replicas, Count(r)
        PROVE  RInv'
    <3>1. [state[r] EXCEPT !.counter = Increment(@, r, 1)].status = state[r].status
      BY Zenon, <2>2 DEF WorldState
    <3>2. QED
      BY Zenon, <2>1, <2>2, <2>6, <3>1, UpdateWrites DEF Count
  <2>7. ASSUME NEW r \in Replicas, NEW a \in Assets, Add(r, a)
        PROVE  RInv'
    <3>1. [state[r] EXCEPT !.assets = AddAsset(@, a, Id)].status = state[r].status
      BY Zenon, <2>2 DEF WorldState
    <3>2. QED
      BY Zenon, <2>1, <2>2, <2>7, <3>1, UpdateWrites DEF Add
  <2>8. ASSUME NEW r \in Replicas, NEW a \in Assets, Remove(r, a)
        PROVE  RInv'
    <3>1. [state[r] EXCEPT !.assets = RemoveAsset(@, a)].status = state[r].status
      BY Zenon, <2>2 DEF WorldState
    <3>2. QED
      BY Zenon, <2>1, <2>2, <2>8, <3>1, UpdateWrites DEF Remove
  <2>9. ASSUME NEW r \in Replicas, SyncTick(r)
        PROVE  RInv'
    <3> DEFINE m == [from |-> r, state |-> state[r], seen |-> seen[r]]
    <3>1. sent' = sent \cup {m} /\ state' = state /\ seen' = seen
      BY Zenon, <2>9 DEF SyncTick
    <3>2. IsWrite(m.state.status, m.seen)
      BY Zenon, <2>1 DEF RInv
    <3> HIDE DEF m
    <3>3. /\ \A q \in Replicas : IsWrite(state'[q].status, seen'[q])
          /\ \A n \in sent' : IsWrite(n.state.status, n.seen)
      BY Zenon, <2>1, <3>1, <3>2 DEF RInv
    <3>4. QED
      BY Zenon, <3>3 DEF RInv, IsWrite
  <2>10. ASSUME NEW r \in Replicas, NEW m \in sent, ReceiveSync(r, m)
         PROVE  RInv'
    <3> DEFINE t == Merge(state[r], m.state)
    <3>1. t.status = MergeRegister(state[r].status, m.state.status)
      BY Zenon DEF Merge
    <3>2. /\ state' = [state EXCEPT ![r] = t] /\ sent' = sent
          /\ seen' = [seen EXCEPT ![r] = seen[r] \cup m.seen]
      BY Zenon, <2>10 DEF ReceiveSync
    <3> HIDE DEF t
    <3>3. IsWrite(t.status, seen[r] \cup m.seen)
      <4>1. IsWrite(state[r].status, seen[r]) /\ IsWrite(m.state.status, m.seen)
        BY Zenon, <2>1 DEF RInv
      <4>2. IsWrite(MergeRegister(state[r].status, m.state.status), seen[r] \cup m.seen)
        BY ONLY Zenon, <4>1, WriteAfterMerge
      <4>3. QED
        BY Zenon, <3>1, <4>2
    <3>4. QED
      BY ONLY Zenon, <2>1, <2>2, r \in Replicas, <3>2, <3>3, WriteStep
  <2>11. ASSUME NEW r \in Replicas, NEW ts \in Times, Restart(r, ts)
         PROVE  RInv'
    <3>1. IsWrite(Start(r, Id, ts).status, {Boot(r, Id, ts)})
      BY Zenon, <2>2, StartWrites
    <3>2. /\ state' = [state EXCEPT ![r] = Start(r, Id, ts)] /\ sent' = sent
          /\ seen' = [seen EXCEPT ![r] = {Boot(r, Id, ts)}]
      BY Zenon, <2>11 DEF Restart
    <3>3. QED
      BY ONLY Zenon, <2>1, <2>2, r \in Replicas, <3>1, <3>2, WriteStep
  <2>12. QED
    BY Zenon, <2>1, <2>3, <2>4, <2>5, <2>6, <2>7, <2>8, <2>9, <2>10, <2>11 DEF Next
<1>3. RInv => RegistersAreWrites
  BY Zenon DEF RInv, RegistersAreWrites
<1>4. QED
  BY <1>1, <1>2, <1>3, Invariance, PTL DEF Spec
=============================================================================
