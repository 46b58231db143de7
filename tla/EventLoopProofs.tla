-------------------------- MODULE EventLoopProofs --------------------------
(***************************************************************************)
(* Proofs about the event loop for every set of peers, supernodes,         *)
(* addresses and objects, every capacity, number of tries and number of    *)
(* tasks, and every scenario.                                              *)
(***************************************************************************)
EXTENDS EventLoop, FiniteSetTheorems, WellFoundedInduction, TLAPS

-----------------------------------------------------------------------------
(* The object store. *)

\* The steps of the loop itself leave the objects alone.
LEMMA LoopStepFrame ==
    LoopStep => UNCHANGED <<objects, settings, budget, live, verdict>>
<1>1. Take => UNCHANGED <<objects, settings, budget, live, verdict>>
  BY Zenon DEF Take, objects, settings, books
<1>2. Established => UNCHANGED <<objects, settings, budget, live, verdict>>
  BY Zenon DEF Established, objects, settings, books
<1>3. Denied \/ Closed \/ Emit => UNCHANGED <<objects, settings, budget, live, verdict>>
  BY Zenon DEF Denied, Closed, Emit, objects, settings, books
<1>4. RegisterPeerAddr \/ AddrsDone => UNCHANGED <<objects, settings, budget, live, verdict>>
  BY Zenon DEF RegisterPeerAddr, AddrsDone, objects, settings, books
<1>5. Call \/ CallFails \/ CallTimesOut => UNCHANGED <<objects, settings, budget, live, verdict>>
  BY Zenon DEF Call, CallFails, CallTimesOut, objects, settings, books
<1>6. \A approved \in BOOLEAN : Decide(approved) => UNCHANGED <<objects, settings, budget, live, verdict>>
  BY Zenon DEF Decide, objects, settings, books
<1> QED BY Zenon, <1>1, <1>2, <1>3, <1>4, <1>5, <1>6 DEF LoopStep

\* The steps of the tasks change nothing but the tasks and the calls.
LEMMA TaskStepFrame ==
    ASSUME NEW t \in Task, TaskStep(t)
    PROVE  UNCHANGED <<loop, books, verdict, channels, addresses, objects, settings, budget>>
BY Zenon DEF TaskStep, NoProfile, WaitForSwarm, Send, Register, TimesOut, GoesOn,
       PublishVerifiedPeer, OnlyTask

\* The next process starts, with the file as it is or torn.
Restart == \E f \in {file, Torn}, kept \in SUBSET Object : StartsWith(f, kept)

\* A crash and the panic of a relay do that.
LEMMA CrashRestarts ==
    /\ \A f \in {file} \cup (IF InWrite THEN {Torn} ELSE {}), kept \in SUBSET Object :
           Crash(f, kept) => Restart
    /\ \A kept \in SUBSET Object : RelayPanics(kept) => Restart
<1>1. {file} \cup (IF InWrite THEN {Torn} ELSE {}) \subseteq {file, Torn}
  BY Zenon
<1> QED BY Zenon, <1>1 DEF Crash, RelayPanics, Restart

\* The objects change in a put and in a restart.
LEMMA ObjectsFrame ==
    ASSUME [Next]_vars
    PROVE  \/ UNCHANGED objects
           \/ \E o \in Object, d \in Data : \E stage \in Stages(d) : StoragePut(o, d, stage)
           \/ Restart
<1>1. CASE LoopStep
  BY Zenon, <1>1, LoopStepFrame
<1>2. CASE \E p \in Peer : \/ ConnectionEstablished(p) \/ ConnectionClosed(p)
                           \/ \E addrs \in AddrLists : Identify(p, addrs)
                           \/ \E v \in Verdicts : SetVerdict(p, v)
  BY Zenon, <1>2 DEF ConnectionEstablished, ConnectionClosed, Identify, SetVerdict
<1>3. CASE \/ \E n \in 0..2 : Request(n)
           \/ OnboardRequest \/ VoteRequest
           \/ \E forwards \in BOOLEAN : OnionRelay(forwards)
  BY Zenon, <1>3 DEF Request, OnboardRequest, VoteRequest, OnionRelay
<1>4. CASE (\E id \in out : Answer(id)) \/ (\E o \in Object : StorageGet(o)) \/ PushGhostSync
  BY Zenon, <1>4 DEF Answer, StorageGet, PushGhostSync
<1>5. CASE \E left \in {file, Torn} : SaveFails(left)
  BY Zenon, <1>5 DEF SaveFails
<1>6. CASE \E t \in Task : TaskStep(t)
  BY Zenon, <1>6, TaskStepFrame
<1>7. CASE UNCHANGED vars
  BY Zenon, <1>7 DEF vars
<1> QED BY Zenon, <1>1, <1>2, <1>3, <1>4, <1>5, <1>6, <1>7, CrashRestarts DEF Next

\* The metadata is that of the put the history names, and a put that succeeded
\* in this process has all its pieces in the cache.
ObjectsInv ==
    /\ store \in Stores
    /\ tried = store.meta
    /\ stored \in [Object -> Data \cup {NoData}]
    /\ \A o \in Object : stored[o] # NoData =>
           /\ store.meta[o] = stored[o]
           /\ \A i \in Indices(stored[o]) : store.cache[o][i] = PieceOf(stored[o], i)

\* A put keeps the store a store.
LEMMA PutType ==
    ASSUME NEW s \in Stores, NEW o \in Object, NEW d \in Data, NEW stage \in Stages(d)
    PROVE  PutObject(s, o, d, stage) \in Stores
<1>1. SaveMetadata(s.meta, o, d, stage) \in [Object -> Data \cup {NoData}]
  BY Zenon DEF SaveMetadata, Stores
<1>2. StoreChunks(s.cache, o, d, stage) \in [Object -> [Index -> Piece \cup {NoPiece}]]
  <2>1. \A i \in Indices(d) : PieceOf(d, i) \in Piece
    BY Zenon DEF Indices, PieceOf, Piece
  <2>2. s.cache \in [Object -> [Index -> Piece \cup {NoPiece}]]
    BY Zenon DEF Stores
  <2> QED BY Zenon, <2>1, <2>2 DEF StoreChunks
<1>3. Flushed(s, SaveMetadata(s.meta, o, d, stage), stage) \in [Object -> Data \cup {NoData}]
  BY Zenon, <1>1 DEF Flushed, Stores
<1> QED BY Zenon, <1>1, <1>2, <1>3 DEF PutObject, Stores

\* A put keeps the invariant.
LEMMA PutKeepsObjects ==
    ASSUME ObjectsInv, NEW o \in Object, NEW d \in Data, NEW stage \in Stages(d),
           StoragePut(o, d, stage)
    PROVE  ObjectsInv'
<1>1. CASE ~(attached /\ d \notin TooLarge /\ stage # -2)
  <2>1. store' = store
    <3>1. CASE ~attached \/ d \in TooLarge
      BY Zenon, <3>1 DEF StoragePut, PutObject
    <3>2. CASE attached /\ d \notin TooLarge /\ stage = -2
      <4>1. store' = [meta |-> store.meta, disk |-> store.disk, cache |-> StoreChunks(store.cache, o, d, stage)]
        BY <3>2 DEF StoragePut, PutObject, SaveMetadata, Flushed
      <4>2. StoreChunks(store.cache, o, d, stage) = store.cache
        <5>1. \A i \in Index : ~(i <= stage)
          BY <3>2, StoreAssumption DEF Index
        <5>2. store.cache \in [Object -> [Index -> Piece \cup {NoPiece}]]
          BY Zenon DEF ObjectsInv, Stores
        <5> QED BY Zenon, <5>1, <5>2 DEF StoreChunks
      <4> QED BY Zenon, <4>1, <4>2 DEF ObjectsInv, Stores
    <3> QED BY Zenon, <1>1, <3>1, <3>2
  <2>2. UNCHANGED <<tried, stored>>
    BY Zenon, <1>1 DEF StoragePut
  <2> QED BY Zenon, <2>1, <2>2 DEF ObjectsInv
<1>2. CASE attached /\ d \notin TooLarge /\ stage # -2
  <2>1. /\ store' = PutObject(store, o, d, stage)
        /\ tried' = [tried EXCEPT ![o] = d]
        /\ stored' = [stored EXCEPT ![o] = IF PutSucceeds(d, stage) THEN d ELSE NoData]
    BY Zenon, <1>2 DEF StoragePut
  <2>2. store' \in Stores
    BY Zenon, <2>1, PutType DEF ObjectsInv
  <2>3. store'.meta = [store.meta EXCEPT ![o] = d] /\ store'.cache = StoreChunks(store.cache, o, d, stage)
    BY Zenon, <1>2, <2>1 DEF PutObject, SaveMetadata
  <2>4. tried' = store'.meta /\ stored' \in [Object -> Data \cup {NoData}]
    BY Zenon, <2>1, <2>3 DEF ObjectsInv
  <2>5. ASSUME NEW x \in Object, stored'[x] # NoData
        PROVE  /\ store'.meta[x] = stored'[x]
               /\ \A i \in Indices(stored'[x]) : store'.cache[x][i] = PieceOf(stored'[x], i)
    <3>0. store.cache \in [Object -> [Index -> Piece \cup {NoPiece}]] /\ store.meta \in [Object -> Data \cup {NoData}]
      BY Zenon DEF ObjectsInv, Stores
    <3>1. CASE x = o
      <4>1. PutSucceeds(d, stage) /\ stored'[x] = d
        BY Zenon, <2>1, <2>5, <3>1 DEF ObjectsInv
      <4>2. store'.cache[x] = [i \in Index |-> IF i \in Indices(d) /\ i <= stage THEN PieceOf(d, i) ELSE store.cache[o][i]]
        BY Zenon, <2>3, <3>0, <3>1 DEF StoreChunks
      <4>3. \A i \in Indices(d) : i \in Index /\ i <= stage
        BY <4>1, StoreAssumption DEF PutSucceeds, Indices, Index
      <4> QED BY Zenon, <2>3, <3>0, <3>1, <4>1, <4>2, <4>3
    <3>2. CASE x # o
      <4>1. stored'[x] = stored[x] /\ store'.meta[x] = store.meta[x] /\ store'.cache[x] = store.cache[x]
        BY Zenon, <2>1, <2>3, <3>0, <3>2 DEF StoreChunks, ObjectsInv
      <4> QED BY Zenon, <2>5, <4>1 DEF ObjectsInv
    <3> QED BY Zenon, <3>1, <3>2
  <2> QED BY Zenon, <2>2, <2>4, <2>5 DEF ObjectsInv
<1> QED BY Zenon, <1>1, <1>2

\* So does a restart.
LEMMA RestartKeepsObjects ==
    ASSUME ObjectsInv, NEW f, NEW kept \in SUBSET Object, StartsWith(f, kept)
    PROVE  ObjectsInv'
<1> DEFINE found == [o \in Object |-> IF o \in kept THEN store.meta[o] ELSE store.disk[o]]
<1>1. store' = [meta |-> found, disk |-> found, cache |-> NoPieces]
  BY Zenon DEF StartsWith, Reopened
<1>2. tried' = found
  BY Zenon DEF StartsWith, ObjectsInv
<1>3. found \in [Object -> Data \cup {NoData}]
  BY Zenon DEF ObjectsInv, Stores
<1>4. NoPieces \in [Object -> [Index -> Piece \cup {NoPiece}]]
  BY Zenon DEF NoPieces
<1>5. stored' = NoObjects
  BY Zenon DEF StartsWith
<1> HIDE DEF found
<1> QED BY Zenon, <1>1, <1>2, <1>3, <1>4, <1>5 DEF ObjectsInv, Stores, NoObjects

\* The invariant of the objects.
LEMMA ObjectsInvariant == Spec => []ObjectsInv
<1>1. Init => ObjectsInv
  BY DEF Init, ObjectsInv, Stores, EmptyStore, NoObjects, NoPieces
<1>2. ObjectsInv /\ [Next]_vars => ObjectsInv'
  <2> SUFFICES ASSUME ObjectsInv, [Next]_vars PROVE ObjectsInv'
    BY Zenon
  <2>1. CASE UNCHANGED objects
    BY Zenon, <2>1 DEF ObjectsInv, objects
  <2> QED BY Zenon, <2>1, ObjectsFrame, PutKeepsObjects, RestartKeepsObjects DEF Restart
<1> QED BY <1>1, <1>2, PTL DEF Spec

\* ReadsSeeTheLastPut for all objects, data and sizes: a put that succeeded is
\* read back whole, and no read mixes two puts (put_object, get_object).
THEOREM ReadsAreWhole == Spec => []ReadsSeeTheLastPut
<1>1. ObjectsInv => ReadsSeeTheLastPut
  <2> SUFFICES ASSUME ObjectsInv, NEW o \in Object
               PROVE  /\ stored[o] # NoData => GetObject(store, o) = [ok |-> TRUE, data |-> Whole(stored[o])]
                      /\ GetObject(store, o).ok => GetObject(store, o).data = Whole(tried[o])
    BY Zenon DEF ReadsSeeTheLastPut
  <2>1. ASSUME stored[o] # NoData
        PROVE  GetObject(store, o) = [ok |-> TRUE, data |-> Whole(stored[o])]
    <3>1. store.meta[o] = stored[o]
      BY Zenon, <2>1 DEF ObjectsInv
    <3>2. Assembled(store, o) = Whole(stored[o])
      BY Zenon, <2>1, <3>1 DEF ObjectsInv, Assembled, Whole
    <3>3. \A i \in Indices(stored[o]) : PieceOf(stored[o], i) # NoPiece
      BY <2>1, NoPieceIsNone DEF ObjectsInv, PieceOf, Piece, Indices
    <3>4. ~NeedsDht(store, o)
      BY Zenon, <2>1, <3>1, <3>3 DEF ObjectsInv, NeedsDht, Missing
    <3> QED BY Zenon, <2>1, <3>1, <3>2, <3>4 DEF GetObject
  <2>2. ASSUME GetObject(store, o).ok
        PROVE  GetObject(store, o).data = Whole(tried[o])
    BY Zenon, <2>2 DEF GetObject, ObjectsInv
  <2> QED BY Zenon, <2>1, <2>2
<1> QED BY <1>1, ObjectsInvariant, PTL

-----------------------------------------------------------------------------
(* The file of addresses. *)

\* The addresses change in register_peer_addr, with and without a failure of
\* the write, and in a restart.
LEMMA AddressesFrame ==
    ASSUME [Next]_vars
    PROVE  \/ UNCHANGED addresses
           \/ RegisterPeerAddr
           \/ \E left \in {file, Torn} : SaveFails(left)
           \/ Restart
<1>1. CASE LoopStep
  <2>1. Take \/ Denied \/ Closed \/ Emit => UNCHANGED addresses
    BY Zenon DEF Take, Denied, Closed, Emit
  <2>2. Established \/ AddrsDone => UNCHANGED addresses
    BY Zenon DEF Established, AddrsDone
  <2>3. Call \/ CallFails \/ CallTimesOut => UNCHANGED addresses
    BY Zenon DEF Call, CallFails, CallTimesOut
  <2>4. \A approved \in BOOLEAN : Decide(approved) => UNCHANGED addresses
    BY Zenon DEF Decide
  <2> QED BY Zenon, <1>1, <2>1, <2>2, <2>3, <2>4 DEF LoopStep
<1>2. CASE \E p \in Peer : \/ ConnectionEstablished(p) \/ ConnectionClosed(p)
                           \/ \E addrs \in AddrLists : Identify(p, addrs)
                           \/ \E v \in Verdicts : SetVerdict(p, v)
  BY Zenon, <1>2 DEF ConnectionEstablished, ConnectionClosed, Identify, SetVerdict
<1>3. CASE \/ \E n \in 0..2 : Request(n)
           \/ OnboardRequest \/ VoteRequest
           \/ \E forwards \in BOOLEAN : OnionRelay(forwards)
  BY Zenon, <1>3 DEF Request, OnboardRequest, VoteRequest, OnionRelay
<1>4. CASE (\E id \in out : Answer(id)) \/ PushGhostSync
  BY Zenon, <1>4 DEF Answer, PushGhostSync
<1>5. CASE \E o \in Object : StorageGet(o) \/ \E d \in Data : \E stage \in Stages(d) : StoragePut(o, d, stage)
  BY Zenon, <1>5 DEF StorageGet, StoragePut
<1>6. CASE \E t \in Task : TaskStep(t)
  BY Zenon, <1>6, TaskStepFrame
<1>7. CASE UNCHANGED vars
  BY Zenon, <1>7 DEF vars
<1> QED BY Zenon, <1>1, <1>2, <1>3, <1>4, <1>5, <1>6, <1>7, CrashRestarts DEF Next

\* Of a set of peers that is not empty one has the least rank.
LEMMA LeastRank ==
    ASSUME NEW S \in SUBSET Peer, S # {}
    PROVE  \E p \in S : \A q \in S : ~(Rank[q] < Rank[p])
<1> DEFINE R == {ss \in Nat \X Nat : ss[1] < ss[2]}
           T == {Rank[p] : p \in S}
<1>1. IsWellFoundedOn(R, Nat)
  BY Zenon, NatLessThanWellFounded DEF OpToRel
<1>2. T \subseteq Nat /\ T # {}
  BY Zenon, CacheAssumption
<1>3. \E x \in T : \A y \in T : ~(<<y, x>> \in R)
  <2> HIDE DEF R, T
  <2> QED BY Zenon, <1>1, <1>2, WFMin
<1> QED BY Zenon, <1>2, <1>3

\* The peers before a peer are a finite set.
LEMMA BeforeIsFinite ==
    ASSUME NEW r \in Records, NEW p \in Peer
    PROVE  IsFiniteSet(Before(r, p)) /\ Cardinality(Before(r, p)) \in Nat
BY Zenon, LoopAssumption, FS_Subset, FS_CardinalityType DEF Before, Recorded

\* write_cache_records drops a record only for MaxRecords records before it,
\* all of which it keeps.
LEMMA WriteDropsForOthers ==
    ASSUME NEW r \in Records, r = NormalizeRecords(r), NEW q \in Peer,
           Cardinality(Before(r, q)) >= MaxRecords
    PROVE  Cardinality(Before(WriteRecords(r), q)) >= MaxRecords
<1> DEFINE w == WriteRecords(r)
           dropped == {p \in Recorded(r) : Rank[p] < Rank[q] /\ ~(Cardinality(Before(r, p)) < MaxRecords)}
<1>0. /\ w \in Records
      /\ \A p \in Peer : w[p] = IF Cardinality(Before(r, p)) < MaxRecords THEN r[p] ELSE NoAddr
  BY Zenon DEF WriteRecords, Records
<1>1. ASSUME NEW p \in Peer, ~(Rank[q] < Rank[p]), Cardinality(Before(r, p)) >= MaxRecords,
             \A x \in Before(r, p) : Cardinality(Before(r, x)) < MaxRecords
      PROVE  Cardinality(Before(w, q)) >= MaxRecords
  <2>1. Before(r, p) \subseteq Before(w, q)
    <3> SUFFICES ASSUME NEW x \in Before(r, p) PROVE x \in Before(w, q)
      BY Zenon
    <3>1. x \in Peer /\ r[x] # NoAddr /\ Rank[x] < Rank[p]
      BY Zenon DEF Before, Recorded
    <3>2. w[x] = r[x]
      BY Zenon, <1>0, <1>1, <3>1
    <3>3. Rank[x] < Rank[q]
      BY <1>1, <3>1, CacheAssumption
    <3> HIDE DEF w
    <3> QED BY Zenon, <3>1, <3>2, <3>3 DEF Before, Recorded
  <2>2. Cardinality(Before(r, p)) <= Cardinality(Before(w, q))
    <3> HIDE DEF w
    <3> QED BY Zenon, <1>0, <2>1, BeforeIsFinite, FS_Subset
  <2>3. Cardinality(Before(w, q)) \in Nat /\ Cardinality(Before(r, p)) \in Nat
    <3> HIDE DEF w
    <3> QED BY Zenon, <1>0, BeforeIsFinite
  <2> HIDE DEF w
  <2> QED BY <1>1, <2>2, <2>3, CacheAssumption
<1>2. CASE dropped = {}
  <2>1. \A x \in Before(r, q) : Cardinality(Before(r, x)) < MaxRecords
    BY Zenon, <1>2 DEF Before
  <2>2. ~(Rank[q] < Rank[q])
    BY CacheAssumption
  <2> QED BY Zenon, <1>1, <2>1, <2>2
<1>3. CASE dropped # {}
  <2>1. dropped \subseteq Peer
    BY Zenon DEF Recorded
  <2>2. PICK p \in dropped : \A x \in dropped : ~(Rank[x] < Rank[p])
    <3> HIDE DEF dropped
    <3> QED BY Zenon, <1>3, <2>1, LeastRank
  <2>3. /\ p \in Peer /\ Rank[p] < Rank[q] /\ p \in Recorded(r)
        /\ Cardinality(Before(r, p)) \in Nat /\ ~(Cardinality(Before(r, p)) < MaxRecords)
    BY Zenon, <2>1, BeforeIsFinite
  <2>4. \A x \in Before(r, p) : Cardinality(Before(r, x)) < MaxRecords
    <3> SUFFICES ASSUME NEW x \in Before(r, p), ~(Cardinality(Before(r, x)) < MaxRecords) PROVE FALSE
      BY Zenon
    <3>1. x \in Recorded(r) /\ Rank[x] < Rank[p] /\ x \in Peer
      BY Zenon DEF Before, Recorded
    <3>2. Rank[x] < Rank[q]
      BY <2>3, <3>1, CacheAssumption
    <3> QED BY Zenon, <2>2, <3>1, <3>2
  <2>5. ~(Rank[q] < Rank[p]) /\ Cardinality(Before(r, p)) >= MaxRecords
    BY <2>3, CacheAssumption
  <2> QED BY Zenon, <1>1, <2>3, <2>4, <2>5
<1> QED BY Zenon, <1>2, <1>3

\* A file f has the addresses l, but for those that MaxRecords others come before.
KeepsAll(f, l) ==
    \A p \in Peer : l[p] # NoAddr =>
        \/ f[p] = l[p]
        \/ f[p] = NoAddr /\ Cardinality(Before(f, p)) >= MaxRecords

\* Records are normal when every address is public.
LEMMA NormalRecords ==
    ASSUME NEW r \in Records
    PROVE  /\ NormalizeRecords(r) \in Records
           /\ NormalizeRecords(NormalizeRecords(r)) = NormalizeRecords(r)
           /\ (\A p \in Peer : r[p] \in Public \cup {NoAddr}) <=> r = NormalizeRecords(r)
<1>1. NoAddr \notin Public
  BY Zenon, CacheAssumption
<1> QED BY Zenon, <1>1 DEF NormalizeRecords, Records

\* What write_cache_records writes.
LEMMA WriteType ==
    ASSUME NEW r \in Records
    PROVE  WriteRecords(r) \in Records /\ WriteRecords(r) = NormalizeRecords(WriteRecords(r))
<1> DEFINE n == NormalizeRecords(r)
           w == WriteRecords(r)
<1>1. n \in Records /\ \A p \in Peer : n[p] \in Public \cup {NoAddr}
  BY Zenon, NormalRecords DEF NormalizeRecords, Records
<1>2. w = [p \in Peer |-> IF Cardinality(Before(n, p)) < MaxRecords THEN n[p] ELSE NoAddr]
  BY Zenon DEF WriteRecords
<1>3. w \in Records /\ \A p \in Peer : w[p] \in Public \cup {NoAddr}
  <2> HIDE DEF w, n
  <2> QED BY Zenon, <1>1, <1>2 DEF Records
<1> QED BY Zenon, <1>3, NormalRecords

\* Writing keeps what is kept.
LEMMA WriteKeeps ==
    ASSUME NEW r \in Records, r = NormalizeRecords(r), NEW l \in Records, KeepsAll(r, l)
    PROVE  KeepsAll(WriteRecords(r), l)
<1> SUFFICES ASSUME NEW p \in Peer, l[p] # NoAddr
             PROVE  \/ WriteRecords(r)[p] = l[p]
                    \/ WriteRecords(r)[p] = NoAddr /\ Cardinality(Before(WriteRecords(r), p)) >= MaxRecords
  BY Zenon DEF KeepsAll
<1>1. WriteRecords(r)[p] = IF Cardinality(Before(r, p)) < MaxRecords THEN r[p] ELSE NoAddr
  BY Zenon DEF WriteRecords
<1>2. CASE Cardinality(Before(r, p)) < MaxRecords
  <2>1. ~(Cardinality(Before(r, p)) >= MaxRecords)
    BY <1>2, BeforeIsFinite, CacheAssumption
  <2> QED BY Zenon, <1>1, <1>2, <2>1 DEF KeepsAll
<1>3. CASE ~(Cardinality(Before(r, p)) < MaxRecords)
  <2>1. Cardinality(Before(r, p)) >= MaxRecords
    BY <1>3, BeforeIsFinite, CacheAssumption
  <2> QED BY Zenon, <1>1, <1>3, <2>1, WriteDropsForOthers
<1> QED BY Zenon, <1>2, <1>3

\* Recording one more address keeps what is kept.
LEMMA RecordKeeps ==
    ASSUME NEW f \in Records, NEW l \in Records, KeepsAll(f, l), NEW p \in Peer, NEW a \in Addr
    PROVE  KeepsAll([f EXCEPT ![p] = a], [l EXCEPT ![p] = a])
<1> DEFINE g == [f EXCEPT ![p] = a]
<1>1. g \in Records /\ g[p] = a /\ \A q \in Peer \ {p} : g[q] = f[q]
  BY Zenon DEF Records
<1>2. a # NoAddr
  BY Zenon, CacheAssumption
<1>3. ASSUME NEW q \in Peer, q # p, l[q] # NoAddr
      PROVE  g[q] = l[q] \/ (g[q] = NoAddr /\ Cardinality(Before(g, q)) >= MaxRecords)
  <2>1. CASE f[q] = l[q]
    BY Zenon, <1>1, <1>3, <2>1
  <2>2. CASE f[q] = NoAddr /\ Cardinality(Before(f, q)) >= MaxRecords
    <3>1. Before(f, q) \subseteq Before(g, q)
      <4> HIDE DEF g
      <4> QED BY Zenon, <1>1, <1>2 DEF Before, Recorded
    <3>2. Cardinality(Before(f, q)) <= Cardinality(Before(g, q))
      <4> HIDE DEF g
      <4> QED BY Zenon, <1>1, <3>1, BeforeIsFinite, FS_Subset
    <3>3. Cardinality(Before(f, q)) \in Nat /\ Cardinality(Before(g, q)) \in Nat
      <4> HIDE DEF g
      <4> QED BY Zenon, <1>1, BeforeIsFinite
    <3>4. Cardinality(Before(g, q)) >= MaxRecords
      <4> HIDE DEF g
      <4> QED BY <2>2, <3>2, <3>3, CacheAssumption
    <3> QED BY Zenon, <1>1, <1>3, <2>2, <3>4
  <2> QED BY Zenon, <1>3, <2>1, <2>2 DEF KeepsAll
<1>4. [l EXCEPT ![p] = a][p] = a /\ \A q \in Peer \ {p} : [l EXCEPT ![p] = a][q] = l[q]
  BY Zenon DEF Records
<1> QED BY Zenon, <1>1, <1>3, <1>4 DEF KeepsAll

\* save_bootstrap_peer_addr keeps what is kept, and a torn file starts anew.
LEMMA SaveKeeps ==
    ASSUME NEW f \in Records \cup {Torn}, f # Torn => f = NormalizeRecords(f),
           NEW l \in Records, f = Torn => l = NoRecords, f # Torn => KeepsAll(f, l),
           NEW p \in Peer, NEW a \in Public
    PROVE  LET g == SaveBootstrapPeerAddr(f, p, a)
           IN  g \in Records /\ g = NormalizeRecords(g) /\ KeepsAll(g, [l EXCEPT ![p] = a])
<1> DEFINE old == ReadRecords(f)
           r == [old EXCEPT ![p] = a]
<1>1. old \in Records /\ old = NormalizeRecords(old) /\ KeepsAll(old, l)
  <2>1. CASE f = Torn
    BY Zenon, <2>1, CacheAssumption DEF ReadRecords, NoRecords, Records, NormalizeRecords, KeepsAll
  <2>2. CASE f # Torn
    BY Zenon, <2>2 DEF ReadRecords
  <2> QED BY Zenon, <2>1, <2>2
<1>2. a \in Addr /\ SaveBootstrapPeerAddr(f, p, a) = WriteRecords(r)
  BY Zenon, CacheAssumption DEF SaveBootstrapPeerAddr
<1>3. r \in Records /\ r = NormalizeRecords(r)
  <2>1. \A q \in Peer : old[q] \in Public \cup {NoAddr}
    <3> HIDE DEF old
    <3> QED BY Zenon, <1>1, NormalRecords
  <2>2. r \in Records /\ \A q \in Peer : r[q] \in Public \cup {NoAddr}
    <3> HIDE DEF old
    <3> QED BY Zenon, <1>1, <1>2, <2>1 DEF Records
  <2> HIDE DEF r
  <2> QED BY Zenon, <2>2, NormalRecords
<1>4. KeepsAll(r, [l EXCEPT ![p] = a]) /\ [l EXCEPT ![p] = a] \in Records
  <2> HIDE DEF old
  <2> QED BY Zenon, <1>1, <1>2, RecordKeeps DEF Records
<1> HIDE DEF r
<1> QED BY Zenon, <1>2, <1>3, <1>4, WriteType, WriteKeeps

-----------------------------------------------------------------------------
(* The state of the loop. *)

\* A step that is about a peer has one, and a step that counts has some left.
SoundLoop(l) ==
    /\ l \in LoopStates
    /\ l.pc \in {"established", "denied", "closed", "addrs"} => l.peer \in Peer
    /\ l.pc \in {"emit", "call", "wait"} => l.left > 0

LoopInv == SoundLoop(loop) /\ nextId \in Nat

\* The states that a handler goes to.
LEMMA SoundLoops ==
    /\ SoundLoop(AtTake) /\ SoundLoop([AtTake EXCEPT !.pc = "poll"])
    /\ \A p \in Peer, pc \in {"established", "denied", "closed"} : SoundLoop(At(pc, p))
    /\ \A p \in Peer, addrs \in AddrLists : SoundLoop([At("addrs", p) EXCEPT !.addrs = addrs])
    /\ \A n \in Nat : SoundLoop(AtEmit(n))
    /\ \A n \in Nat, then \in {"take", "decide"} : SoundLoop(AtCalls(n, then))
<1>0. <<>> \in Seq(Addr) /\ AddrLists \subseteq Seq(Addr)
  BY LoopAssumption
<1>1. SoundLoop(AtTake) /\ SoundLoop([AtTake EXCEPT !.pc = "poll"])
  BY Zenon, <1>0 DEF SoundLoop, LoopStates, AtTake, Steps, Waits
<1>2. \A p \in Peer, pc \in {"established", "denied", "closed"} : SoundLoop(At(pc, p))
  BY Zenon, <1>0 DEF SoundLoop, LoopStates, AtTake, At, Steps, Waits
<1>3. \A p \in Peer, addrs \in AddrLists : SoundLoop([At("addrs", p) EXCEPT !.addrs = addrs])
  BY Zenon, <1>0 DEF SoundLoop, LoopStates, AtTake, At, Steps, Waits
<1>4. ASSUME NEW n \in Nat PROVE SoundLoop(AtEmit(n))
  <2>1. CASE n = 0
    BY Zenon, <1>1, <2>1 DEF AtEmit
  <2>2. CASE n > 0
    <3>1. AtEmit(n) = [pc |-> "emit", peer |-> NoPeer, left |-> n, id |-> 0, addrs |-> <<>>, then |-> "take"]
      <4>1. AtEmit(n) = [AtTake EXCEPT !.pc = "emit", !.left = n]
        BY <2>2 DEF AtEmit
      <4> QED BY Zenon, <4>1 DEF AtTake
    <3> QED BY <1>0, <2>2, <3>1 DEF SoundLoop, LoopStates, Steps, Waits
  <2> QED BY <2>1, <2>2
<1>5. ASSUME NEW n \in Nat, NEW then \in {"take", "decide"} PROVE SoundLoop(AtCalls(n, then))
  <2>1. CASE n = 0
    <3>1. AtCalls(n, then) = [pc |-> then, peer |-> NoPeer, left |-> 0, id |-> 0, addrs |-> <<>>, then |-> "take"]
      BY Zenon, <2>1 DEF AtCalls, AtTake
    <3> QED BY <1>0, <3>1 DEF SoundLoop, LoopStates, Steps, Waits
  <2>2. CASE n > 0
    <3>1. AtCalls(n, then) = [pc |-> "call", peer |-> NoPeer, left |-> n, id |-> 0, addrs |-> <<>>, then |-> then]
      <4>1. AtCalls(n, then) = [AtTake EXCEPT !.pc = "call", !.left = n, !.then = then]
        BY <2>2 DEF AtCalls
      <4> QED BY Zenon, <4>1 DEF AtTake
    <3> QED BY <1>0, <2>2, <3>1 DEF SoundLoop, LoopStates, Steps, Waits
  <2> QED BY <2>1, <2>2
<1> QED BY Zenon, <1>1, <1>2, <1>3, <1>4, <1>5

\* The next address.
LEMMA SoundNextAddr ==
    ASSUME NEW l, SoundLoop(l), l.pc = "addrs", l.addrs # <<>>
    PROVE  SoundLoop([l EXCEPT !.addrs = Tail(@)])
<1> DEFINE k == [l EXCEPT !.addrs = Tail(@)]
<1>1. Tail(l.addrs) \in Seq(Addr)
  BY DEF SoundLoop, LoopStates
<1>2. k \in LoopStates /\ k.pc = l.pc /\ k.peer = l.peer /\ k.left = l.left
  BY Zenon, <1>1 DEF SoundLoop, LoopStates
<1>3. SoundLoop(k)
  <2> HIDE DEF k
  <2> QED BY Zenon, <1>2 DEF SoundLoop
<1> QED BY Zenon, <1>3

\* The wait for the answer to a call.
LEMMA SoundWait ==
    ASSUME NEW l, SoundLoop(l), l.pc = "call", NEW i \in Nat
    PROVE  SoundLoop([l EXCEPT !.pc = "wait", !.id = i])
<1> DEFINE k == [l EXCEPT !.pc = "wait", !.id = i]
<1>1. k \in LoopStates /\ k.pc = "wait" /\ k.left = l.left
  BY Zenon DEF SoundLoop, LoopStates, Steps
<1>2. SoundLoop(k)
  <2> HIDE DEF k
  <2> QED BY Zenon, <1>1 DEF SoundLoop
<1> QED BY Zenon, <1>2

\* The steps of the handlers.
LEMMA LoopStepKeepsLoop == LoopInv /\ LoopStep => LoopInv'
<1> SUFFICES ASSUME LoopInv, LoopStep PROVE LoopInv'
  BY Zenon
<1> USE DEF LoopInv
<1>1. CASE Take
  BY Zenon, <1>1, SoundLoops DEF Take, calls
<1>2. CASE Established
  <2>1. loop.peer \in Peer /\ nextId' = nextId /\ (loop' = AtTake \/ loop' = At("denied", loop.peer))
    BY Zenon, <1>2 DEF Established, SoundLoop, TurnsAway
  <2> QED BY Zenon, <2>1, SoundLoops
<1>3. CASE Denied \/ Closed
  BY Zenon, <1>3, SoundLoops DEF Denied, Closed, TurnsAway, calls
<1>4. CASE Emit
  <2>1. loop.left - 1 \in Nat
    BY <1>4 DEF Emit, SoundLoop, LoopStates
  <2> QED BY Zenon, <1>4, <2>1, SoundLoops DEF Emit, calls
<1>5. CASE RegisterPeerAddr
  BY Zenon, <1>5, SoundNextAddr DEF RegisterPeerAddr, NextAddr, calls
<1>6. CASE AddrsDone
  BY Zenon, <1>6, SoundLoops DEF AddrsDone, calls
<1>7. CASE Call
  <2>1. loop.pc = "call" /\ loop' = [loop EXCEPT !.pc = "wait", !.id = nextId] /\ nextId' = nextId + 1
    BY Zenon, <1>7 DEF Call
  <2>2. SoundLoop([loop EXCEPT !.pc = "wait", !.id = nextId])
    BY <2>1, SoundWait, Zenon
  <2>3. SoundLoop(loop')
    BY <2>1, <2>2, Zenon
  <2> QED BY <2>1, <2>3
<1>8. CASE CallTimesOut
  <2>1. loop.left - 1 \in Nat /\ loop.then \in {"take", "decide"}
    BY <1>8 DEF CallTimesOut, SoundLoop, LoopStates
  <2> QED BY Zenon, <1>8, <2>1, SoundLoops DEF CallTimesOut
<1>9. CASE \E approved \in BOOLEAN : Decide(approved)
  BY Zenon, <1>9, SoundLoops DEF Decide
<1>10. CASE CallFails
  <2>1. loop.left - 1 \in Nat /\ loop.then \in {"take", "decide"}
    BY <1>10 DEF CallFails, SoundLoop, LoopStates
  <2> QED BY Zenon, <1>10, <2>1, SoundLoops DEF CallFails, calls
<1> QED BY Zenon, <1>1, <1>2, <1>3, <1>4, <1>5, <1>6, <1>7, <1>8, <1>9, <1>10 DEF LoopStep

\* Every other step.
LEMMA NextKeepsLoop == LoopInv /\ [Next]_vars => LoopInv'
<1> SUFFICES ASSUME LoopInv, [Next]_vars PROVE LoopInv'
  BY Zenon
<1> USE DEF LoopInv
<1>1. CASE LoopStep
  BY Zenon, <1>1, LoopStepKeepsLoop
<1>2. ASSUME NEW p \in Peer,
             \/ ConnectionEstablished(p) \/ ConnectionClosed(p)
             \/ \E addrs \in AddrLists : Identify(p, addrs)
             \/ \E v \in Verdicts : SetVerdict(p, v)
      PROVE  LoopInv'
  BY Zenon, <1>2, SoundLoops DEF ConnectionEstablished, ConnectionClosed, Identify, SetVerdict, calls
<1>3. CASE (\E n \in 0..2 : Request(n)) \/ OnboardRequest \/ VoteRequest
  <2>1. 2 * Cardinality(Supernodes) \in Nat
    BY LoopAssumption, FS_Subset, FS_CardinalityType
  <2> QED BY <1>3, <2>1, SoundLoops DEF Request, OnboardRequest, VoteRequest, calls
<1>4. CASE \E forwards \in BOOLEAN : OnionRelay(forwards)
  BY <1>4, SoundLoops DEF OnionRelay
<1>5. CASE (\E id \in out : Answer(id)) \/ PushGhostSync
  BY Zenon, <1>5, SoundLoops DEF Answer, PushGhostSync, calls
<1>6. CASE \E o \in Object : StorageGet(o) \/ \E d \in Data : \E stage \in Stages(d) : StoragePut(o, d, stage)
  BY Zenon, <1>6, SoundLoops DEF StorageGet, StoragePut, calls
<1>7. CASE \E left \in {file, Torn} : SaveFails(left)
  BY <1>7, SoundNextAddr DEF SaveFails, NextAddr, calls
<1>8. CASE \E t \in Task : TaskStep(t)
  BY <1>8 DEF TaskStep, NoProfile, WaitForSwarm, Send, Register, TimesOut, GoesOn,
              PublishVerifiedPeer, OnlyTask
<1>9. CASE Restart
  BY <1>9, SoundLoops DEF Restart, StartsWith
<1>10. CASE UNCHANGED vars
  BY Zenon, <1>10 DEF vars, calls
<1> QED BY Zenon, <1>1, <1>2, <1>3, <1>4, <1>5, <1>6, <1>7, <1>8, <1>9, <1>10, CrashRestarts DEF Next

\* The invariant of the loop.
LEMMA LoopInvariant == Spec => []LoopInv
<1>1. Init => LoopInv
  BY SoundLoops DEF Init, LoopInv
<1> QED BY <1>1, NextKeepsLoop, PTL DEF Spec

-----------------------------------------------------------------------------
(* The file of addresses, again: its invariant. *)

\* The newest addresses that no failed write has lost.
Expected == [p \in Peer |-> IF lost[p] = "kept" THEN last[p] ELSE NoAddr]

\* A file that parses is normal and has the addresses expected; of a torn file
\* none is.  What an earlier process lost is not in seen_addrs.
CacheInv ==
    /\ file \in Records \cup {Torn}
    /\ last \in Records
    /\ lost \in [Peer -> {"kept", "here", "earlier"}]
    /\ seen \in [Peer -> SUBSET Public]
    /\ file = Torn => Expected = NoRecords
    /\ file # Torn => file = NormalizeRecords(file) /\ KeepsAll(file, Expected)
    /\ \A p \in Peer : lost[p] = "earlier" => seen[p] = {}

\* Reading the file rewrites it in normal form, if at all.
LEMMA AfterReadType ==
    ASSUME NEW f \in Records \cup {Torn}
    PROVE  /\ f = Torn => AfterRead(f) = Torn
           /\ f # Torn => AfterRead(f) \in Records /\ AfterRead(f) = NormalizeRecords(AfterRead(f))
           /\ f # Torn /\ f = NormalizeRecords(f) => AfterRead(f) = f
BY Zenon, WriteType DEF AfterRead

\* An address that is not lost is kept.
LEMMA KeptAreExpected ==
    CacheInv => \A p \in Peer : lost[p] = "kept" => Kept(file, last, p)
<1> SUFFICES ASSUME CacheInv, NEW p \in Peer, lost[p] = "kept", last[p] # NoAddr
             PROVE  Kept(file, last, p)
  BY Zenon DEF Kept
<1>1. Expected[p] = last[p] /\ Expected[p] # NoAddr
  BY Zenon DEF Expected
<1>2. file # Torn
  BY Zenon, <1>1 DEF CacheInv, NoRecords
<1> QED BY Zenon, <1>1, <1>2 DEF CacheInv, KeepsAll, Kept

\* And the other way round, in the next state.
LEMMA ExpectedAreKeptNext ==
    ASSUME last' \in Records, file' \in Records \cup {Torn},
           \A p \in Peer : lost'[p] = "kept" => Kept(file', last', p)
    PROVE  /\ file' = Torn => Expected' = NoRecords
           /\ file' # Torn => KeepsAll(file', Expected')
<1>1. Expected' = [p \in Peer |-> IF lost'[p] = "kept" THEN last'[p] ELSE NoAddr]
  BY Zenon DEF Expected
<1>2. Expected' \in Records
  BY Zenon, <1>1 DEF Records
<1>3. \A p \in Peer : Expected'[p] # NoAddr => lost'[p] = "kept" /\ Expected'[p] = last'[p]
  BY Zenon, <1>1
<1>4. ASSUME file' = Torn PROVE Expected' = NoRecords
  <2>1. \A p \in Peer : Expected'[p] = NoAddr
    BY Zenon, <1>3, <1>4 DEF Kept
  <2> QED BY Zenon, <1>2, <2>1 DEF Records, NoRecords
<1>5. ASSUME file' # Torn PROVE KeepsAll(file', Expected')
  BY Zenon, <1>3, <1>5 DEF KeepsAll, Kept
<1> QED BY Zenon, <1>4, <1>5

\* Initially what is in the file is the newest there is.
LEMMA CacheInitially == Init => CacheInv
<1> SUFFICES ASSUME Init PROVE CacheInv
  BY Zenon
<1>1. PICK s \in Scenarios : file = AfterRead(s.file) /\ last = ReadRecords(AfterRead(s.file))
  BY Zenon DEF Init
<1>2. s.file \in Records \cup {Torn}
  BY Zenon, LoopAssumption
<1>3. lost = [p \in Peer |-> "kept"] /\ seen = [p \in Peer |-> {}]
  BY Zenon DEF Init
<1>4. /\ lost \in [Peer -> {"kept", "here", "earlier"}] /\ seen \in [Peer -> SUBSET Public]
      /\ \A p \in Peer : lost[p] = "kept" /\ seen[p] = {}
  BY Zenon, <1>3
<1>5. CASE s.file = Torn
  <2>1. file = Torn /\ last = NoRecords
    BY Zenon, <1>1, <1>2, <1>5, AfterReadType DEF ReadRecords
  <2>2. Expected = NoRecords
    BY Zenon, <1>4, <2>1 DEF Expected, NoRecords
  <2> QED BY Zenon, <1>4, <2>1, <2>2 DEF CacheInv, NoRecords, Records
<1>6. CASE s.file # Torn
  <2>1. file \in Records /\ file = NormalizeRecords(file) /\ file # Torn
    BY Zenon, <1>1, <1>2, <1>6, AfterReadType, TornIsNoRecords
  <2>2. last = file
    BY Zenon, <1>1, <2>1 DEF ReadRecords
  <2>3. KeepsAll(file, Expected)
    BY Zenon, <1>4, <2>2 DEF KeepsAll, Expected
  <2> QED BY Zenon, <1>4, <2>1, <2>2, <2>3 DEF CacheInv
<1> QED BY Zenon, <1>5, <1>6

\* A save makes the address of its peer one that is expected, and keeps the rest.
LEMMA RegisterKeepsCache == CacheInv /\ LoopInv /\ RegisterPeerAddr => CacheInv'
<1> SUFFICES ASSUME CacheInv, LoopInv, RegisterPeerAddr PROVE CacheInv'
  BY Zenon
<1> DEFINE p == loop.peer
           a == Head(loop.addrs)
<1>1. CASE ~IsNew(p, a)
  BY Zenon, <1>1 DEF RegisterPeerAddr, addresses, CacheInv, Expected
<1>2. CASE IsNew(p, a)
  <2>1. p \in Peer
    BY Zenon DEF RegisterPeerAddr, LoopInv, SoundLoop
  <2>2. a \in Public /\ a \in Addr
    BY Zenon, <1>2, CacheAssumption DEF IsNew
  <2>3. /\ file' = SaveBootstrapPeerAddr(file, p, a) /\ last' = [last EXCEPT ![p] = a]
        /\ lost' = [lost EXCEPT ![p] = "kept"] /\ seen' = [seen EXCEPT ![p] = @ \cup {a}]
    BY Zenon, <1>2 DEF RegisterPeerAddr
  <2> HIDE DEF p, a
  <2>4. last \in Records /\ last' \in Records /\ Expected \in Records
    BY Zenon, <2>1, <2>2, <2>3 DEF CacheInv, Records, Expected
  <2>5. lost \in [Peer -> {"kept", "here", "earlier"}] /\ seen \in [Peer -> SUBSET Public]
    BY Zenon DEF CacheInv
  <2>6. /\ lost' \in [Peer -> {"kept", "here", "earlier"}] /\ seen' \in [Peer -> SUBSET Public]
        /\ lost'[p] = "kept" /\ \A q \in Peer \ {p} : lost'[q] = lost[q] /\ seen'[q] = seen[q]
    BY Zenon, <2>1, <2>2, <2>3, <2>5
  <2>7. Expected' = [Expected EXCEPT ![p] = a]
    <3>1. \A q \in Peer : Expected'[q] = IF q = p THEN a ELSE Expected[q]
      <4>1. last'[p] = a /\ \A q \in Peer \ {p} : last'[q] = last[q]
        BY Zenon, <2>1, <2>3, <2>4 DEF Records
      <4> QED BY Zenon, <2>1, <2>6, <4>1 DEF Expected
    <3>2. Expected' = [q \in Peer |-> Expected'[q]] /\ Expected = [q \in Peer |-> Expected[q]]
      BY Zenon DEF Expected
    <3> QED BY Zenon, <3>1, <3>2, <2>4 DEF Records
  <2>8. /\ file' \in Records /\ file' = NormalizeRecords(file')
        /\ KeepsAll(file', [Expected EXCEPT ![p] = a])
    BY Zenon, <2>1, <2>2, <2>3, <2>4, SaveKeeps DEF CacheInv
  <2>9. file' # Torn
    BY Zenon, <2>8, TornIsNoRecords
  <2>10. \A q \in Peer : lost'[q] = "earlier" => seen'[q] = {}
    BY Zenon, <2>6 DEF CacheInv
  <2> QED BY Zenon, <2>4, <2>6, <2>7, <2>8, <2>9, <2>10 DEF CacheInv
<1> QED BY Zenon, <1>1, <1>2

\* A save that fails leaves the file or tears it.
LEMMA FailureKeepsCache ==
    ASSUME CacheInv, LoopInv, NEW left \in {file, Torn}, SaveFails(left) PROVE CacheInv'
<1> DEFINE p == loop.peer
           a == Head(loop.addrs)
<1>1. /\ p \in Peer /\ a \in Public /\ a \in Addr
      /\ file' = left /\ last' = [last EXCEPT ![p] = a] /\ seen' = [seen EXCEPT ![p] = @ \cup {a}]
      /\ lost' = [q \in Peer |-> IF Kept(left, last', q) THEN "kept"
                                 ELSE IF q = p \/ lost[q] = "kept" THEN "here" ELSE lost[q]]
  BY Zenon, CacheAssumption DEF SaveFails, IsNew, LoopInv, SoundLoop
<1> HIDE DEF p, a
<1>2. last' \in Records
  BY Zenon, <1>1 DEF CacheInv, Records
<1>3. \A q \in Peer : lost'[q] = "kept" => Kept(left, last', q)
  BY Zenon, <1>1
<1>4. file' \in Records \cup {Torn} /\ (file' # Torn => file' = NormalizeRecords(file'))
  BY Zenon, <1>1 DEF CacheInv
<1>5. /\ file' = Torn => Expected' = NoRecords
      /\ file' # Torn => KeepsAll(file', Expected')
  BY Zenon, <1>1, <1>2, <1>3, <1>4, ExpectedAreKeptNext
<1>6. lost' \in [Peer -> {"kept", "here", "earlier"}] /\ seen' \in [Peer -> SUBSET Public]
  BY Zenon, <1>1 DEF CacheInv
<1>7. ASSUME NEW q \in Peer, lost'[q] = "earlier" PROVE seen'[q] = {}
  <2>1. q # p /\ lost[q] = "earlier"
    BY Zenon, <1>1, <1>7
  <2> QED BY Zenon, <1>1, <2>1 DEF CacheInv
<1> QED BY Zenon, <1>2, <1>4, <1>5, <1>6, <1>7 DEF CacheInv

\* A restart leaves it or has torn it.
LEMMA RestartKeepsCache ==
    ASSUME CacheInv, NEW f \in {file, Torn}, NEW kept, StartsWith(f, kept) PROVE CacheInv'
<1>1. /\ file' = AfterRead(f) /\ last' = last /\ seen' = [p \in Peer |-> {}]
      /\ lost' = [p \in Peer |-> IF lost[p] = "here" \/ ~Kept(f, last, p) THEN "earlier" ELSE lost[p]]
  BY Zenon DEF StartsWith
<1>2. /\ f \in Records \cup {Torn} /\ (f # Torn => f = NormalizeRecords(f)) /\ AfterRead(f) = f
  BY Zenon, AfterReadType DEF CacheInv
<1>3. last' \in Records /\ file' = f
  BY Zenon, <1>1, <1>2 DEF CacheInv
<1>4. \A p \in Peer : lost'[p] = "kept" => Kept(file', last', p)
  BY Zenon, <1>1, <1>3
<1>5. /\ file' = Torn => Expected' = NoRecords
      /\ file' # Torn => KeepsAll(file', Expected')
  BY Zenon, <1>2, <1>3, <1>4, ExpectedAreKeptNext
<1>6. /\ lost' \in [Peer -> {"kept", "here", "earlier"}] /\ seen' \in [Peer -> SUBSET Public]
      /\ \A p \in Peer : seen'[p] = {}
  BY Zenon, <1>1 DEF CacheInv
<1> QED BY Zenon, <1>2, <1>3, <1>5, <1>6 DEF CacheInv

\* AddressesKept for all peers, orders of their ids and sizes of the file, and any
\* number of failed writes, torn files and restarts: the newest address a peer ever
\* gave is in the file, or MaxRecords others come first, unless a write lost it; and
\* no process that starts after the loss refuses to save it again
\* (save_bootstrap_peer_addr, write_cache_records, register_peer_addr).
THEOREM AddressesAreKept == Spec => []AddressesKept
<1>1. CacheInv /\ LoopInv /\ [Next]_vars => CacheInv'
  <2> SUFFICES ASSUME CacheInv, LoopInv, [Next]_vars PROVE CacheInv'
    BY Zenon
  <2>1. CASE UNCHANGED addresses
    BY Zenon, <2>1 DEF CacheInv, addresses, Expected
  <2> QED BY Zenon, <2>1, AddressesFrame, RegisterKeepsCache, FailureKeepsCache, RestartKeepsCache DEF Restart
<1>2. CacheInv => AddressesKept
  BY Zenon, KeptAreExpected DEF CacheInv, AddressesKept
<1> QED BY <1>1, <1>2, CacheInitially, LoopInvariant, PTL DEF Spec

-----------------------------------------------------------------------------
(* The connections. *)

\* The books agree with the connections, and a connection that is being
\* established is there.
BooksInv ==
    /\ live \in [Peer -> Nat] /\ counts \in [Peer -> Nat]
    /\ registry \in [Peer -> PeerStates]
    /\ loop.pc \in {"established", "denied"} => live[loop.peer] > 0
    /\ ConnectionsRecorded

\* What an operation of the registry on peer p may change.
ChangesOnly(reg, r, p) ==
    r \in [Peer -> PeerStates] /\ \A q \in Peer \ {p} : r[q] = reg[q]

\* A new entry for a peer.
LEMMA EntryFields ==
    ASSUME NEW reg \in [Peer -> PeerStates], NEW p \in Peer, NEW e \in PeerStates,
           NEW r, r = [reg EXCEPT ![p] = e]
    PROVE  ChangesOnly(reg, r, p) /\ r[p] = e
BY Zenon DEF ChangesOnly

\* upsert_peer_state, for a peer that is connected and for one that is not
LEMMA UpsertFields ==
    ASSUME NEW reg \in [Peer -> PeerStates], NEW p \in Peer, NEW role \in PeerRoles,
           NEW trusted \in BOOLEAN \cup {Keep}
    PROVE  /\ \A r : r = UpsertPeerState(reg, p, role, TRUE, trusted) =>
                  ChangesOnly(reg, r, p) /\ r[p].known
           /\ \A r : r = UpsertPeerState(reg, p, role, FALSE, trusted) =>
                  ChangesOnly(reg, r, p) /\ r[p].known /\ ~r[p].connected
<1>1. reg[p] \in PeerStates
  BY Zenon
<1>2. Given(role, reg[p].role) \in PeerRoles /\ Given(trusted, reg[p].trusted) \in BOOLEAN /\ reg[p].routed \in BOOLEAN
  BY Zenon, <1>1 DEF Given, PeerStates
<1>3. ASSUME NEW connected \in BOOLEAN, NEW r,
             r = [reg EXCEPT ![p] = [known |-> TRUE, role |-> Given(role, reg[p].role), connected |-> connected,
                                     trusted |-> Given(trusted, reg[p].trusted), routed |-> reg[p].routed]]
      PROVE  ChangesOnly(reg, r, p) /\ r[p].known /\ r[p].connected = connected
  <2> DEFINE e == [known |-> TRUE, role |-> Given(role, reg[p].role), connected |-> connected,
                   trusted |-> Given(trusted, reg[p].trusted), routed |-> reg[p].routed]
  <2>1. e \in PeerStates
    BY Zenon, <1>2 DEF PeerStates
  <2>2. e.known /\ e.connected = connected
    BY Zenon
  <2>3. r = [reg EXCEPT ![p] = e]
    BY Zenon, <1>3
  <2> HIDE DEF e
  <2> QED BY Zenon, <2>1, <2>2, <2>3, EntryFields
<1>4. ASSUME NEW r, r = UpsertPeerState(reg, p, role, TRUE, trusted) PROVE ChangesOnly(reg, r, p) /\ r[p].known
  BY Zenon, <1>3, <1>4 DEF UpsertPeerState
<1>5. ASSUME NEW r, r = UpsertPeerState(reg, p, role, FALSE, trusted)
      PROVE  ChangesOnly(reg, r, p) /\ r[p].known /\ ~r[p].connected
  BY Zenon, <1>3, <1>5 DEF UpsertPeerState
<1> QED BY Zenon, <1>4, <1>5

\* set_peer_connected and set_peer_trusted, of a peer whose connection is gone
LEMMA SetFields ==
    ASSUME NEW reg \in [Peer -> PeerStates], NEW p \in Peer
    PROVE  /\ \A r : r = SetPeerConnected(reg, p, FALSE) =>
                  ChangesOnly(reg, r, p) /\ ~r[p].connected
           /\ \A r : r = SetPeerTrusted(reg, p, FALSE) /\ ~reg[p].connected =>
                  ChangesOnly(reg, r, p) /\ r[p].known /\ ~r[p].connected
<1>1. reg[p] \in PeerStates
  BY Zenon
<1>2. /\ reg[p].role \in PeerRoles /\ reg[p].connected \in BOOLEAN
      /\ reg[p].trusted \in BOOLEAN \cup {Keep}
  BY Zenon, <1>1 DEF PeerStates
<1>3. ASSUME NEW r, r = SetPeerConnected(reg, p, FALSE) PROVE ChangesOnly(reg, r, p) /\ ~r[p].connected
  <2>1. r = UpsertPeerState(reg, p, reg[p].role, FALSE, reg[p].trusted)
    BY Zenon, <1>3 DEF SetPeerConnected
  <2> QED BY Zenon, <1>2, <2>1, UpsertFields
<1>4. ASSUME NEW r, r = SetPeerTrusted(reg, p, FALSE), ~reg[p].connected
      PROVE  ChangesOnly(reg, r, p) /\ r[p].known /\ ~r[p].connected
  <2>1. r = UpsertPeerState(reg, p, reg[p].role, FALSE, FALSE)
    BY <1>2, <1>4, reg[p].connected = FALSE, Zenon DEF SetPeerTrusted
  <2>2. FALSE \in BOOLEAN \cup {Keep}
    BY Zenon
  <2> QED BY Zenon, <1>2, <2>1, <2>2, UpsertFields
<1> QED BY Zenon, <1>3, <1>4

\* add_route and remove_route
LEMMA RouteFields ==
    ASSUME NEW reg \in [Peer -> PeerStates], NEW p \in Peer, reg[p].known
    PROVE  /\ \A r : r = AddRoute(reg, p) => ChangesOnly(reg, r, p)
           /\ \A r : r = RemoveRoute(reg, p) =>
                  ChangesOnly(reg, r, p) /\ ~r[p].routed /\ r[p].connected = reg[p].connected
<1>1. AddRoute(reg, p) = [reg EXCEPT ![p] = [reg[p] EXCEPT !.routed = TRUE]]
  BY Zenon DEF AddRoute
<1>2. RemoveRoute(reg, p) = [reg EXCEPT ![p] = [reg[p] EXCEPT !.routed = FALSE]]
  BY Zenon DEF RemoveRoute
<1>3. reg[p] \in PeerStates
  BY Zenon
<1>4. [reg[p] EXCEPT !.routed = TRUE] \in PeerStates
  BY Zenon, <1>3 DEF PeerStates
<1>5. \A e : e = [reg[p] EXCEPT !.routed = FALSE] =>
         e \in PeerStates /\ ~e.routed /\ e.connected = reg[p].connected
  BY Zenon, <1>3 DEF PeerStates
<1>6. \A r : r = AddRoute(reg, p) => ChangesOnly(reg, r, p)
  BY Zenon, <1>1, <1>4 DEF ChangesOnly
<1>7. ASSUME NEW r, r = RemoveRoute(reg, p)
      PROVE  ChangesOnly(reg, r, p) /\ ~r[p].routed /\ r[p].connected = reg[p].connected
  <2> DEFINE e == [reg[p] EXCEPT !.routed = FALSE]
  <2>1. e \in PeerStates /\ ~e.routed /\ e.connected = reg[p].connected
    BY Zenon, <1>5
  <2>2. r = [reg EXCEPT ![p] = e]
    BY Zenon, <1>2, <1>7
  <2> HIDE DEF e
  <2>3. r[p] = e
    BY Zenon, <2>2
  <2> QED BY Zenon, <2>1, <2>2, <2>3 DEF ChangesOnly
<1> QED BY Zenon, <1>6, <1>7

\* Where the handlers go that are not about a connection.
LEMMA OtherSteps ==
    /\ AtTake.pc = "take"
    /\ \A p \in Peer, pc \in Steps : At(pc, p).pc = pc /\ At(pc, p).peer = p
    /\ \A n \in Nat : AtEmit(n).pc \in {"take", "emit"}
    /\ \A n \in Nat, then \in {"take", "decide"} : AtCalls(n, then).pc \in {"take", "decide", "call"}
<1>1. AtTake.pc = "take" /\ \A p \in Peer, pc \in Steps : At(pc, p).pc = pc /\ At(pc, p).peer = p
  BY Zenon DEF At, AtTake
<1>2. ASSUME NEW n \in Nat PROVE AtEmit(n).pc \in {"take", "emit"}
  <2>1. AtEmit(n) = AtTake \/ AtEmit(n) = [AtTake EXCEPT !.pc = "emit", !.left = n]
    BY Zenon DEF AtEmit
  <2>2. [AtTake EXCEPT !.pc = "emit", !.left = n].pc = "emit"
    BY Zenon DEF AtTake
  <2> QED BY <1>1, <2>1, <2>2, Zenon
<1>3. ASSUME NEW n \in Nat, NEW then \in {"take", "decide"}
      PROVE  AtCalls(n, then).pc \in {"take", "decide", "call"}
  <2>1. \/ AtCalls(n, then) = [AtTake EXCEPT !.pc = then]
        \/ AtCalls(n, then) = [AtTake EXCEPT !.pc = "call", !.left = n, !.then = then]
    BY Zenon DEF AtCalls
  <2>2. [AtTake EXCEPT !.pc = then].pc = then
    BY Zenon DEF AtTake
  <2>3. [AtTake EXCEPT !.pc = "call", !.left = n, !.then = then].pc = "call"
    BY Zenon DEF AtTake
  <2> QED BY <2>1, <2>2, <2>3, Zenon
<1> QED BY Zenon, <1>1, <1>2, <1>3

\* A step that is not about a connection.
ElsewhereStep ==
    /\ UNCHANGED books
    /\ \/ loop' = loop
       \/ loop.pc # "closed" /\ loop'.pc \notin {"established", "denied"}

\* The next address leaves the loop at its step.
LEMMA NextAddrPc ==
    ASSUME LoopInv PROVE NextAddr.pc = loop.pc /\ [loop EXCEPT !.pc = "wait", !.id = nextId].pc = "wait"
BY Zenon DEF LoopInv, SoundLoop, LoopStates, NextAddr

\* The steps of the handlers of connections, and all others.
LEMMA LoopStepBooks ==
    LoopInv /\ LoopStep => ElsewhereStep \/ Established \/ Denied \/ Closed
<1> SUFFICES ASSUME LoopInv, LoopStep, ~Established, ~Denied, ~Closed PROVE ElsewhereStep
  BY Zenon
<1> USE DEF ElsewhereStep
<1>1. CASE Take
  BY Zenon, <1>1 DEF Take, AtTake
<1>2. CASE Emit
  <2>1. loop.left - 1 \in Nat
    BY <1>2 DEF Emit, LoopInv, SoundLoop, LoopStates
  <2>2. UNCHANGED books /\ loop.pc = "emit" /\ loop' = AtEmit(loop.left - 1)
    BY Zenon, <1>2 DEF Emit
  <2> QED BY Zenon, <2>1, <2>2, OtherSteps
<1>3. CASE RegisterPeerAddr
  BY Zenon, <1>3, NextAddrPc DEF RegisterPeerAddr
<1>4. CASE AddrsDone
  <2>1. UNCHANGED books /\ loop.pc = "addrs" /\ loop' = AtCalls(1, "take")
    BY Zenon, <1>4 DEF AddrsDone
  <2> QED BY Zenon, <2>1, OtherSteps
<1>5. CASE Call
  <2>1. UNCHANGED books /\ loop.pc = "call" /\ loop'.pc = "wait"
    BY <1>5, NextAddrPc, Zenon DEF Call
  <2> QED BY Zenon, <2>1
<1>6. CASE CallTimesOut
  <2>1. loop.left - 1 \in Nat /\ loop.then \in {"take", "decide"}
    BY <1>6 DEF CallTimesOut, LoopInv, SoundLoop, LoopStates
  <2>2. UNCHANGED books /\ loop.pc = "wait" /\ loop' = AtCalls(loop.left - 1, loop.then)
    BY Zenon, <1>6 DEF CallTimesOut
  <2> QED BY Zenon, <2>1, <2>2, OtherSteps
<1>7. CASE \E approved \in BOOLEAN : Decide(approved)
  BY Zenon, <1>7, OtherSteps DEF Decide
<1>8. CASE CallFails
  <2>1. loop.left - 1 \in Nat /\ loop.then \in {"take", "decide"}
    BY <1>8 DEF CallFails, LoopInv, SoundLoop, LoopStates
  <2>2. UNCHANGED books /\ loop.pc = "call" /\ loop' = AtCalls(loop.left - 1, loop.then)
    BY Zenon, <1>8 DEF CallFails
  <2> QED BY Zenon, <2>1, <2>2, OtherSteps
<1> QED BY Zenon, <1>1, <1>2, <1>3, <1>4, <1>5, <1>6, <1>7, <1>8 DEF LoopStep

\* The books change with the connections, with Identify and in a restart.
LEMMA BooksFrame ==
    ASSUME LoopInv, [Next]_vars
    PROVE  \/ ElsewhereStep \/ Established \/ Denied \/ Closed
           \/ \E p \in Peer : \/ ConnectionEstablished(p) \/ ConnectionClosed(p)
                              \/ \E addrs \in AddrLists : Identify(p, addrs)
           \/ Restart
<1>1. CASE LoopStep
  BY Zenon, <1>1, LoopStepBooks
<1>2. CASE \E p \in Peer : \E v \in Verdicts : SetVerdict(p, v)
  BY Zenon, <1>2 DEF SetVerdict, ElsewhereStep
<1>3. CASE (\E n \in 0..2 : Request(n)) \/ OnboardRequest \/ VoteRequest
  <2>1. 2 * Cardinality(Supernodes) \in Nat
    BY LoopAssumption, FS_Subset, FS_CardinalityType
  <2>2. CASE \E n \in 0..2 : Request(n)
    <3>1. PICK n \in Nat : UNCHANGED books /\ loop.pc = "poll" /\ loop' = AtEmit(n)
      BY <2>2 DEF Request
    <3> QED BY Zenon, <3>1, OtherSteps DEF ElsewhereStep
  <2>3. CASE OnboardRequest
    <3>1. UNCHANGED books /\ loop.pc = "poll" /\ loop' = AtCalls(2 * Cardinality(Supernodes), "decide")
      BY Zenon, <2>3 DEF OnboardRequest
    <3> QED BY Zenon, <2>1, <3>1, OtherSteps DEF ElsewhereStep
  <2>4. CASE VoteRequest
    <3>1. UNCHANGED books /\ loop.pc = "poll" /\ loop' = AtCalls(0, "decide")
      BY Zenon, <2>4 DEF VoteRequest
    <3> QED BY Zenon, <3>1, OtherSteps DEF ElsewhereStep
  <2> QED BY Zenon, <1>3, <2>2, <2>3, <2>4
<1>4. CASE (\E forwards \in BOOLEAN : OnionRelay(forwards)) \/ (\E id \in out : Answer(id)) \/ PushGhostSync
  BY Zenon, <1>4, OtherSteps DEF OnionRelay, Answer, PushGhostSync, ElsewhereStep
<1>5. CASE \E o \in Object : StorageGet(o)
  <2>1. UNCHANGED books /\ loop.pc = "poll" /\ (loop' = AtCalls(1, "take") \/ loop' = AtTake)
    BY Zenon, <1>5 DEF StorageGet
  <2> QED BY Zenon, <2>1, OtherSteps DEF ElsewhereStep
<1>6. CASE \E o \in Object, d \in Data : \E stage \in Stages(d) : StoragePut(o, d, stage)
  BY Zenon, <1>6, OtherSteps DEF StoragePut, ElsewhereStep
<1>7. CASE \E left \in {file, Torn} : SaveFails(left)
  BY Zenon, <1>7, NextAddrPc DEF SaveFails, ElsewhereStep
<1>8. CASE \E t \in Task : TaskStep(t)
  BY Zenon, <1>8, TaskStepFrame DEF ElsewhereStep
<1>9. CASE UNCHANGED vars
  BY Zenon, <1>9 DEF vars, ElsewhereStep
<1> QED BY Zenon, <1>1, <1>2, <1>3, <1>4, <1>5, <1>6, <1>7, <1>8, <1>9, CrashRestarts DEF Next

\* The role of a peer that connects.
LEMMA RoleIsRole == \A p : RoleOf(p) \in PeerRoles
BY Zenon DEF RoleOf, PeerRoles

\* A connection opens, or one closes.
LEMMA OpenCloseKeepBooks ==
    ASSUME BooksInv, NEW p \in Peer, ConnectionEstablished(p) \/ ConnectionClosed(p)
    PROVE  BooksInv'
<1>1. CASE ConnectionEstablished(p)
  <2>1. /\ live' = [live EXCEPT ![p] = @ + 1] /\ counts' = [counts EXCEPT ![p] = @ + 1]
        /\ registry' = registry /\ denied' = denied
        /\ loop.pc = "poll" /\ loop'.pc = "established" /\ loop'.peer = p
    BY Zenon, <1>1, OtherSteps DEF ConnectionEstablished, IncConnectionCount, Steps, Waits
  <2> QED BY <2>1 DEF BooksInv, ConnectionsRecorded
<1>2. CASE ConnectionClosed(p)
  <2>1. /\ live[p] > 0 /\ live' = [live EXCEPT ![p] = @ - 1]
        /\ counts' = [counts EXCEPT ![p] = IF @ > 1 THEN @ - 1 ELSE 0]
        /\ registry' = registry /\ denied' = denied
        /\ loop.pc = "poll" /\ loop'.pc = "closed" /\ loop'.peer = p
    BY Zenon, <1>2, OtherSteps DEF ConnectionClosed, DecConnectionCount, Steps, Waits
  <2>2. live' \in [Peer -> Nat] /\ counts' \in [Peer -> Nat]
    BY <2>1 DEF BooksInv
  <2>3. ASSUME NEW q \in Peer
        PROVE  /\ counts'[q] <= live'[q] /\ (q \notin denied => counts'[q] = live'[q])
               /\ registry[q].connected \/ registry[q].routed => live'[q] > 0 \/ p = q
    <3>1. CASE q = p
      BY <2>1, <3>1 DEF BooksInv, ConnectionsRecorded
    <3>2. CASE q # p
      BY Zenon, <2>1, <3>2 DEF BooksInv, ConnectionsRecorded
    <3> QED BY Zenon, <3>1, <3>2
  <2> QED BY Zenon, <2>1, <2>2, <2>3 DEF BooksInv, ConnectionsRecorded
<1> QED BY Zenon, <1>1, <1>2

\* An Identify event.
LEMMA IdentifyKeepsBooks ==
    ASSUME BooksInv, NEW p \in Peer, NEW addrs \in AddrLists, Identify(p, addrs)
    PROVE  BooksInv'
<1>1. /\ live[p] > 0 /\ registry' = UpsertPeerState(registry, p, RoleOf(p), TRUE, Keep)
      /\ live' = live /\ counts' = counts /\ denied' = denied
      /\ loop.pc = "poll" /\ loop' = [At("addrs", p) EXCEPT !.addrs = addrs]
  BY Zenon DEF Identify
<1>2. loop'.pc = "addrs"
  <2>1. At("addrs", p).pc = "addrs"
    BY Zenon, OtherSteps DEF Steps
  <2>2. \A x : [x EXCEPT !.addrs = addrs].pc = x.pc
    OBVIOUS
  <2> QED BY Zenon, <1>1, <2>1, <2>2
<1>3. ChangesOnly(registry, registry', p)
  <2>1. registry \in [Peer -> PeerStates] /\ TRUE \in BOOLEAN /\ Keep \in BOOLEAN \cup {Keep}
    BY Zenon DEF BooksInv
  <2> QED BY Zenon, <1>1, <2>1, RoleIsRole, UpsertFields
<1> QED BY Zenon, <1>1, <1>2, <1>3 DEF BooksInv, ConnectionsRecorded, ChangesOnly

\* enforce_peer turns the connection of a handler away.
LEMMA TurningAwayKeepsBooks ==
    ASSUME BooksInv, NEW p \in Peer, live[p] > 0, NEW reg,
           ChangesOnly(registry, reg, p), TurnsAway(p, reg), live' = live,
           loop.pc # "closed"
    PROVE  BooksInv'
<1>1. /\ counts' = [counts EXCEPT ![p] = IF @ > 1 THEN @ - 1 ELSE 0]
      /\ denied' = denied \cup {p}
      /\ registry' = SetPeerConnected(reg, p, FALSE) /\ loop'.pc = "take"
  BY Zenon, OtherSteps DEF TurnsAway, DecConnectionCount
<1>2. ChangesOnly(reg, registry', p)
  <2>1. reg \in [Peer -> PeerStates]
    BY Zenon DEF ChangesOnly
  <2> QED BY Zenon, <1>1, <2>1, SetFields
<1>3. counts' \in [Peer -> Nat]
  BY <1>1 DEF BooksInv
<1>4. ASSUME NEW q \in Peer PROVE counts'[q] <= live[q] /\ (q \notin denied' => counts'[q] = live[q])
  <2>1. CASE q = p
    BY <1>1, <2>1 DEF BooksInv, ConnectionsRecorded
  <2>2. CASE q # p
    BY Zenon, <1>1, <2>2 DEF BooksInv, ConnectionsRecorded
  <2> QED BY Zenon, <2>1, <2>2
<1>5. ASSUME NEW q \in Peer, registry'[q].connected \/ registry'[q].routed PROVE live[q] > 0
  BY Zenon, <1>2, <1>5 DEF BooksInv, ConnectionsRecorded, ChangesOnly
<1>6. registry' \in [Peer -> PeerStates]
  BY Zenon, <1>2 DEF ChangesOnly
<1> QED BY Zenon, <1>1, <1>3, <1>4, <1>5, <1>6 DEF BooksInv, ConnectionsRecorded

\* The rest of the handler of ConnectionEstablished.
LEMMA EstablishedKeepsBooks ==
    ASSUME BooksInv, LoopInv, Established \/ Denied PROVE BooksInv'
<1> DEFINE p == loop.peer
           reg == UpsertPeerState(registry, p, RoleOf(p), TRUE, registry[p].trusted)
<1>1. p \in Peer /\ live[p] > 0 /\ loop.pc # "closed" /\ live' = live
  BY Zenon DEF LoopInv, SoundLoop, Established, Denied, BooksInv
<1>2. registry \in [Peer -> PeerStates] /\ registry[p] \in PeerStates
  BY Zenon, <1>1 DEF BooksInv
<1>3. registry[p].trusted \in BOOLEAN \cup {Keep} /\ TRUE \in BOOLEAN
  BY Zenon, <1>2 DEF PeerStates
<1>4. ChangesOnly(registry, reg, p) /\ reg[p].known
  <2>1. reg = UpsertPeerState(registry, p, RoleOf(p), TRUE, registry[p].trusted)
    BY Zenon
  <2> HIDE DEF reg, p
  <2> QED BY Zenon, <1>1, <1>2, <1>3, <2>1, RoleIsRole, UpsertFields
<1>5. ChangesOnly(registry, registry, p)
  BY Zenon, <1>2 DEF ChangesOnly
<1>6. CASE Denied
  <2>1. TurnsAway(p, registry)
    BY Zenon, <1>6 DEF Denied
  <2> QED BY Zenon, <1>1, <1>5, <2>1, TurningAwayKeepsBooks
<1>7. CASE Established
  <2>1. \/ registry' = AddRoute(reg, p) /\ loop' = AtTake /\ UNCHANGED <<counts, denied>>
        \/ TurnsAway(p, reg)
        \/ registry' = reg /\ loop' = At("denied", p) /\ UNCHANGED <<counts, denied>>
    BY Zenon, <1>7 DEF Established
  <2> HIDE DEF p, reg
  <2>2. CASE registry' = AddRoute(reg, p) /\ loop' = AtTake /\ UNCHANGED <<counts, denied>>
    <3>1. ChangesOnly(reg, registry', p)
      BY <1>1, <1>4, <2>2, RouteFields DEF ChangesOnly
    <3>2. ChangesOnly(registry, registry', p)
      BY Zenon, <1>4, <3>1 DEF ChangesOnly
    <3>3. loop'.pc = "take"
      BY Zenon, <2>2, OtherSteps
    <3> QED BY Zenon, <1>1, <2>2, <3>2, <3>3 DEF BooksInv, ConnectionsRecorded, ChangesOnly
  <2>3. CASE TurnsAway(p, reg)
    BY Zenon, <1>1, <1>4, <2>3, TurningAwayKeepsBooks
  <2>4. CASE registry' = reg /\ loop' = At("denied", p) /\ UNCHANGED <<counts, denied>>
    <3>1. loop'.pc = "denied" /\ loop'.peer = p
      BY Zenon, <1>1, <2>4, OtherSteps DEF Steps, Waits
    <3> QED BY Zenon, <1>1, <1>4, <2>4, <3>1 DEF BooksInv, ConnectionsRecorded, ChangesOnly
  <2> QED BY Zenon, <2>1, <2>2, <2>3, <2>4
<1> QED BY Zenon, <1>6, <1>7

\* The rest of the handler of ConnectionClosed.
LEMMA ClosedKeepsBooks ==
    ASSUME BooksInv, LoopInv, Closed PROVE BooksInv'
<1> DEFINE p == loop.peer
           reg1 == SetPeerConnected(registry, p, FALSE)
           reg2 == SetPeerTrusted(reg1, p, FALSE)
<1>1. /\ p \in Peer /\ loop.pc = "closed" /\ loop' = AtTake /\ UNCHANGED <<live, counts, denied>>
      /\ registry' = RemoveRoute(reg2, p)
  BY Zenon DEF LoopInv, SoundLoop, Closed
<1>2. registry \in [Peer -> PeerStates]
  BY Zenon DEF BooksInv
<1>3. ChangesOnly(registry, reg1, p) /\ ~reg1[p].connected
  <2>1. reg1 = SetPeerConnected(registry, p, FALSE)
    BY Zenon
  <2> HIDE DEF reg1, p
  <2> QED BY Zenon, <1>1, <1>2, <2>1, SetFields
<1>4. ChangesOnly(reg1, reg2, p) /\ reg2[p].known /\ ~reg2[p].connected
  <2>1. reg1 \in [Peer -> PeerStates]
    BY Zenon, <1>3 DEF ChangesOnly
  <2>2. reg2 = SetPeerTrusted(reg1, p, FALSE)
    BY Zenon
  <2> HIDE DEF reg1, reg2, p
  <2> QED BY Zenon, <1>1, <1>3, <2>1, <2>2, SetFields
<1> HIDE DEF reg1, reg2
<1>5. /\ ChangesOnly(reg2, registry', p) /\ ~registry'[p].routed
      /\ registry'[p].connected = reg2[p].connected
  BY <1>1, <1>4, RouteFields DEF ChangesOnly
<1>6. ~registry'[p].connected /\ ~registry'[p].routed
  BY Zenon, <1>4, <1>5
<1>7. ChangesOnly(registry, registry', p)
  BY Zenon, <1>3, <1>4, <1>5 DEF ChangesOnly
<1>8. loop'.pc = "take"
  BY Zenon, <1>1, OtherSteps
<1> QED BY Zenon, <1>1, <1>6, <1>7, <1>8 DEF BooksInv, ConnectionsRecorded, ChangesOnly

\* ConnectionsRecorded for all peers and any number of connections: no peer
\* without a connection stays connected or routed in the registry, and the count
\* of its connections is exact until one of them is turned away, and never above
\* them (ConnectionEstablished, ConnectionClosed, Identify).
THEOREM ConnectionsAreRecorded == Spec => []ConnectionsRecorded
<1>1. Init => BooksInv
  BY OtherSteps DEF Init, BooksInv, ConnectionsRecorded, Unknown, PeerStates, PeerRoles
<1>2. BooksInv /\ LoopInv /\ [Next]_vars => BooksInv'
  <2> SUFFICES ASSUME BooksInv, LoopInv, [Next]_vars PROVE BooksInv'
    BY Zenon
  <2>1. CASE ElsewhereStep
    BY Zenon, <2>1 DEF ElsewhereStep, BooksInv, ConnectionsRecorded, books
  <2>2. ASSUME NEW f, NEW kept, StartsWith(f, kept) PROVE BooksInv'
    <3>1. /\ live' = [p \in Peer |-> 0] /\ counts' = [p \in Peer |-> 0]
          /\ denied' = {} /\ registry' = [p \in Peer |-> Unknown]
          /\ loop' = AtTake
      BY Zenon, <2>2 DEF StartsWith
    <3>2. loop'.pc = "take"
      BY Zenon, <3>1, OtherSteps
    <3>3. Unknown \in PeerStates /\ ~Unknown.connected /\ ~Unknown.routed
      BY DEF Unknown, PeerStates, PeerRoles
    <3> QED BY ONLY <3>1, <3>2, <3>3 DEF BooksInv, ConnectionsRecorded
  <2> QED BY Zenon, <2>1, <2>2, BooksFrame, OpenCloseKeepBooks, IdentifyKeepsBooks,
             EstablishedKeepsBooks, ClosedKeepsBooks DEF Restart
<1>3. BooksInv => ConnectionsRecorded
  BY Zenon DEF BooksInv
<1> QED BY <1>1, <1>2, <1>3, LoopInvariant, PTL DEF Spec

-----------------------------------------------------------------------------
(* The callers. *)

\* A task that is not idle has a call to make.
SoundTask(r) == r \in TaskStates /\ (r.st # "idle" => r.prog # <<>>)

\* A task that has sent a request and has not been answered.
Asks(r) == r.st \in {"sent", "wait"}

\* Every request that a task or the handler asks for is a request of its own, and
\* is in the table once the caller has registered it.
CallsInv ==
    /\ env \subseteq Peer
    /\ DOMAIN task = Task /\ \A t \in Task : SoundTask(task[t])
    /\ \A id \in pending : id \in Nat /\ id < nextId
    /\ \A t \in Task : Asks(task[t]) => task[t].id < nextId
    /\ \A t \in Task : task[t].st = "sent" => task[t].id \notin pending
    /\ \A t, u \in Task : Asks(task[t]) /\ Asks(task[u]) /\ task[t].id = task[u].id => t = u
    /\ loop.pc = "wait" => loop.id < nextId /\ \A t \in Task : Asks(task[t]) => task[t].id # loop.id
    /\ PendingMatchesCallers

\* A task starts.
LEMMA StartingIsSound ==
    ASSUME NEW prog \in Seq(CallKinds), NEW r, r = Starting(prog)
    PROVE  SoundTask(r) /\ ~Asks(r)
<1>1. CASE prog = <<>>
  BY Zenon, <1>1 DEF Starting, IdleTask, SoundTask, TaskStates, Asks
<1>2. CASE prog # <<>>
  <2>1. PICK st \in {"ready", "seek"} : r = [st |-> st, prog |-> prog, tries |-> Tries, id |-> 0]
    BY Zenon, <1>2 DEF Starting
  <2> QED BY <1>2, <2>1, LoopAssumption DEF SoundTask, TaskStates, Asks
<1> QED BY Zenon, <1>1, <1>2

\* A task goes on with its next call.
LEMMA NextCallIsSound ==
    ASSUME NEW r, SoundTask(r), r.st # "idle"
    PROVE  SoundTask(Starting(Tail(r.prog))) /\ ~Asks(Starting(Tail(r.prog)))
<1>1. Tail(r.prog) \in Seq(CallKinds)
  BY DEF SoundTask, TaskStates
<1> QED BY Zenon, <1>1, StartingIsSound

\* A call of a task has failed.
LEMMA FailureIsSound ==
    ASSUME NEW r, SoundTask(r), r.st # "idle"
    PROVE  SoundTask(AfterFailure(r)) /\ ~Asks(AfterFailure(r))
<1>1. CASE Head(r.prog) = "onboard" /\ r.tries > 1
  <2> DEFINE k == [r EXCEPT !.st = "seek", !.tries = @ - 1, !.id = 0]
  <2>1. r.tries - 1 \in Nat
    BY <1>1 DEF SoundTask, TaskStates
  <2>2. k \in TaskStates /\ k.st = "seek" /\ k.prog = r.prog
    BY Zenon, <2>1 DEF SoundTask, TaskStates
  <2>3. AfterFailure(r) = k
    BY Zenon, <1>1 DEF AfterFailure
  <2> HIDE DEF k
  <2> QED BY Zenon, <2>2, <2>3 DEF SoundTask, Asks
<1>2. CASE ~(Head(r.prog) = "onboard" /\ r.tries > 1)
  <2>1. AfterFailure(r) = Starting(Tail(r.prog))
    BY Zenon, <1>2 DEF AfterFailure
  <2> QED BY Zenon, <2>1, NextCallIsSound
<1> QED BY Zenon, <1>1, <1>2

\* The task of a new process.
LEMMA BootTasksAreSound ==
    ASSUME NEW peers, peers \subseteq Peer, NEW boot, boot = BootTasks(peers)
    PROVE  DOMAIN boot = Task /\ \A t \in Task : SoundTask(boot[t]) /\ ~Asks(boot[t])
<1>1. Cardinality(peers) \in Nat
  BY Zenon, LoopAssumption, FS_Subset, FS_CardinalityType
<1>2. BootProgram(Cardinality(peers)) \in Seq(CallKinds)
  BY <1>1 DEF BootProgram, CallKinds
<1>3. <<>> \in Seq(CallKinds) /\ Starting(<<>>) = IdleTask
  BY DEF Starting
<1>4. SoundTask(IdleTask) /\ ~Asks(IdleTask)
  BY Zenon, <1>3, StartingIsSound
<1>5. \A r : r = Starting(BootProgram(Cardinality(peers))) => SoundTask(r) /\ ~Asks(r)
  BY Zenon, <1>2, StartingIsSound
<1> QED BY Zenon, <1>4, <1>5 DEF BootTasks

\* What the requests that are waited for are.
LEMMA WaitedForIs ==
    \A id : id \in WaitedFor <=> \/ \E t \in Task : task[t].st = "wait" /\ task[t].id = id
                                 \/ loop.pc = "wait" /\ loop.id = id
BY Zenon DEF WaitedFor, Waiting

\* The same after a step.
LEMMA WaitedForIsNext ==
    (\A id : id \in WaitedFor <=> \/ \E t \in Task : task[t].st = "wait" /\ task[t].id = id
                                  \/ loop.pc = "wait" /\ loop.id = id)'
BY Zenon DEF WaitedFor, Waiting

\* The handler does not begin or end a wait.
LoopKeeps == loop' = loop \/ (loop.pc # "wait" /\ loop'.pc # "wait")

\* PendingMatchesCallers by its elements.
LEMMA PendingIs ==
    PendingMatchesCallers <=>
        \A id : /\ id \in pending <=> id \in WaitedFor \/ id \in abandoned
                /\ ~(id \in WaitedFor /\ id \in abandoned)
BY Zenon DEF PendingMatchesCallers

\* The same after a step.
LEMMA PendingIsNext ==
    PendingMatchesCallers' <=>
        \A id : /\ id \in pending' <=> id \in WaitedFor' \/ id \in abandoned'
                /\ ~(id \in WaitedFor' /\ id \in abandoned')
BY Zenon DEF PendingMatchesCallers

\* A task goes to a state in which it asks for nothing; if it waited, it gives up.
LEMMA MovingOnKeepsCalls ==
    ASSUME CallsInv, LoopInv, NEW t \in Task, NEW r, SoundTask(r), ~Asks(r),
           task' = [task EXCEPT ![t] = r], LoopKeeps, UNCHANGED <<pending, nextId, env>>,
           task[t].st = "wait" => abandoned' = abandoned \cup {task[t].id},
           task[t].st # "wait" => abandoned' = abandoned
    PROVE  CallsInv'
<1>1. DOMAIN task' = Task /\ task'[t] = r /\ \A u \in Task \ {t} : task'[u] = task[u]
  BY Zenon DEF CallsInv
<1>2. \A u \in Task : SoundTask(task'[u]) /\ (Asks(task'[u]) => u # t)
  BY Zenon, <1>1 DEF CallsInv
<1>3. \A id : id \in WaitedFor' <=> id \in WaitedFor /\ ~(task[t].st = "wait" /\ task[t].id = id)
  <2>1. \A id : (\E u \in Task : task'[u].st = "wait" /\ task'[u].id = id)
                <=> \E u \in Task \ {t} : task[u].st = "wait" /\ task[u].id = id
    BY Zenon, <1>1 DEF Asks
  <2>2. \A id : loop'.pc = "wait" /\ loop'.id = id <=> loop.pc = "wait" /\ loop.id = id
    BY Zenon DEF LoopKeeps
  <2>3. \A u \in Task \ {t} : task[u].st = "wait" /\ task[t].st = "wait" => task[u].id # task[t].id
    BY Zenon DEF CallsInv, Asks
  <2>4. loop.pc = "wait" /\ task[t].st = "wait" => task[t].id # loop.id
    BY Zenon DEF CallsInv, Asks
  <2> SUFFICES ASSUME NEW id
               PROVE  id \in WaitedFor' <=> id \in WaitedFor /\ ~(task[t].st = "wait" /\ task[t].id = id)
    BY Zenon
  <2>5. id \in WaitedFor' <=> \/ \E u \in Task \ {t} : task[u].st = "wait" /\ task[u].id = id
                              \/ loop.pc = "wait" /\ loop.id = id
    BY Zenon, <2>1, <2>2, WaitedForIsNext
  <2>6. id \in WaitedFor <=> \/ \E u \in Task \ {t} : task[u].st = "wait" /\ task[u].id = id
                             \/ task[t].st = "wait" /\ task[t].id = id
                             \/ loop.pc = "wait" /\ loop.id = id
    BY Zenon, WaitedForIs
  <2> QED BY Zenon, <2>3, <2>4, <2>5, <2>6
<1>4. PendingMatchesCallers'
  <2>1. task[t].st = "wait" => task[t].id \in WaitedFor
    BY Zenon, WaitedForIs
  <2>2. PendingMatchesCallers
    BY Zenon DEF CallsInv
  <2> QED BY Zenon, <1>3, <2>1, <2>2, PendingIs, PendingIsNext
<1>5. /\ \A id \in pending' : id \in Nat /\ id < nextId'
      /\ \A u \in Task : Asks(task'[u]) => task'[u].id < nextId'
      /\ \A u \in Task : task'[u].st = "sent" => task'[u].id \notin pending'
  BY Zenon, <1>1, <1>2 DEF CallsInv, Asks
<1>6. \A u, v \in Task : Asks(task'[u]) /\ Asks(task'[v]) /\ task'[u].id = task'[v].id => u = v
  BY Zenon, <1>1, <1>2 DEF CallsInv
<1>7. loop'.pc = "wait" => loop'.id < nextId' /\ \A u \in Task : Asks(task'[u]) => task'[u].id # loop'.id
  BY Zenon, <1>1, <1>2 DEF CallsInv, LoopKeeps
<1> QED BY Zenon, <1>1, <1>2, <1>4, <1>5, <1>6, <1>7 DEF CallsInv

\* A task sends a request: it asks for an id that nobody else has.
LEMMA SendingKeepsCalls ==
    ASSUME CallsInv, LoopInv, NEW t \in Task, NEW r, SoundTask(r), r.st = "sent", r.id = nextId,
           task' = [task EXCEPT ![t] = r], task[t].st = "ready",
           nextId' = nextId + 1, UNCHANGED <<loop, pending, abandoned, env>>
    PROVE  CallsInv'
<1>1. DOMAIN task' = Task /\ task'[t] = r /\ \A u \in Task \ {t} : task'[u] = task[u]
  BY Zenon DEF CallsInv
<1>2. nextId \in Nat /\ \A i \in Nat : i < nextId => i < nextId + 1 /\ i # nextId
  BY DEF LoopInv
<1>3. \A u \in Task : SoundTask(task'[u]) /\ task[u].id \in Nat
  BY Zenon, <1>1 DEF CallsInv, SoundTask, TaskStates
<1>4. PendingMatchesCallers'
  <2>1. \A id : id \in WaitedFor' <=> id \in WaitedFor
    <3>1. \A u \in Task : /\ task'[u].st = "wait" <=> task[u].st = "wait"
                          /\ task'[u].st = "wait" => task'[u].id = task[u].id
      BY Zenon, <1>1
    <3> QED BY <3>1, WaitedForIs, WaitedForIsNext
  <2>2. PendingMatchesCallers
    BY Zenon DEF CallsInv
  <2> QED BY Zenon, <2>1, <2>2, PendingIs, PendingIsNext
<1>5. \A id \in pending' : id \in Nat /\ id < nextId' /\ id # nextId
  BY Zenon, <1>2 DEF CallsInv
<1>6. \A u \in Task \ {t} : Asks(task'[u]) => task'[u].id < nextId' /\ task'[u].id # nextId
  BY Zenon, <1>1, <1>2, <1>3 DEF CallsInv
<1>7. Asks(task'[t]) /\ task'[t].id = nextId /\ nextId < nextId'
  BY <1>1, <1>2 DEF Asks
<1>8. \A u \in Task : task'[u].st = "sent" => task'[u].id \notin pending'
  BY Zenon, <1>1, <1>5, <1>7 DEF CallsInv
<1>9. \A u, v \in Task : Asks(task'[u]) /\ Asks(task'[v]) /\ task'[u].id = task'[v].id => u = v
  BY <1>1, <1>6, <1>7 DEF CallsInv
<1>10. loop.pc = "wait" => loop.id < nextId' /\ \A u \in Task : Asks(task'[u]) => task'[u].id # loop.id
  <2>1. loop.id \in Nat
    BY Zenon DEF LoopInv, SoundLoop, LoopStates
  <2> QED BY Zenon, <1>1, <1>2, <1>7, <2>1 DEF CallsInv
<1>11. \A u \in Task : Asks(task'[u]) => task'[u].id < nextId'
  BY Zenon, <1>6, <1>7
<1> QED BY Zenon, <1>1, <1>3, <1>4, <1>5, <1>8, <1>9, <1>10, <1>11 DEF CallsInv

\* A task that has sent its request enters it in the table.
LEMMA RegisteringKeepsCalls ==
    ASSUME CallsInv, LoopInv, NEW t \in Task, Register(t) PROVE CallsInv'
<1> DEFINE r == [task[t] EXCEPT !.st = "wait"]
<1>1. /\ task[t].st = "sent" /\ task' = [task EXCEPT ![t].st = "wait"]
      /\ pending' = pending \cup {task[t].id}
      /\ UNCHANGED <<out, nextId, abandoned, loop, env>>
  BY Zenon DEF Register, OnlyTask, settings
<1>2. SoundTask(r) /\ r.st = "wait" /\ r.id = task[t].id
  BY Zenon, <1>1 DEF CallsInv, SoundTask, TaskStates
<1>3. task' = [task EXCEPT ![t] = r]
  BY Zenon, <1>1
<1> HIDE DEF r
<1>4. DOMAIN task' = Task /\ task'[t] = r /\ \A u \in Task \ {t} : task'[u] = task[u]
  BY Zenon, <1>3 DEF CallsInv
<1>5. \A u \in Task : /\ SoundTask(task'[u]) /\ task'[u].id = task[u].id
                      /\ Asks(task'[u]) <=> Asks(task[u])
  BY Zenon, <1>1, <1>2, <1>4 DEF CallsInv, Asks
<1>6. PendingMatchesCallers'
  <2>1. \A id : id \in WaitedFor' <=> id \in WaitedFor \/ id = task[t].id
    <3>1. \A u \in Task : task'[u].st = "wait" <=> task[u].st = "wait" \/ u = t
      BY Zenon, <1>2, <1>4
    <3> QED BY <1>1, <1>5, <3>1, WaitedForIs, WaitedForIsNext
  <2>2. PendingMatchesCallers /\ task[t].id \notin pending
    BY Zenon, <1>1 DEF CallsInv
  <2> QED BY Zenon, <1>1, <2>1, <2>2, PendingIs, PendingIsNext
<1>7. \A id \in pending' : id \in Nat /\ id < nextId'
  <2>1. task[t].id \in Nat /\ task[t].id < nextId
    BY Zenon, <1>1 DEF CallsInv, Asks, SoundTask, TaskStates
  <2> QED BY Zenon, <1>1, <2>1 DEF CallsInv
<1>8. \A u \in Task : task'[u].st = "sent" => task'[u].id \notin pending'
  <2> SUFFICES ASSUME NEW u \in Task, task'[u].st = "sent" PROVE task'[u].id \notin pending'
    BY Zenon
  <2>1. u # t /\ task[u].st = "sent"
    BY Zenon, <1>2, <1>4
  <2> QED BY Zenon, <1>1, <1>4, <2>1 DEF CallsInv, Asks
<1>9. \A u, v \in Task : Asks(task'[u]) /\ Asks(task'[v]) /\ task'[u].id = task'[v].id => u = v
  BY Zenon, <1>5 DEF CallsInv
<1>10. \A u \in Task : Asks(task'[u]) => task'[u].id < nextId'
  BY <1>1, <1>5 DEF CallsInv
<1>11. loop'.pc = "wait" => loop'.id < nextId' /\ \A u \in Task : Asks(task'[u]) => task'[u].id # loop'.id
  BY <1>1, <1>5 DEF CallsInv
<1> QED BY Zenon, <1>1, <1>4, <1>5, <1>6, <1>7, <1>8, <1>9, <1>10, <1>11 DEF CallsInv

\* The steps of the tasks.
LEMMA TaskStepKeepsCalls ==
    ASSUME CallsInv, LoopInv, NEW t \in Task, TaskStep(t) PROVE CallsInv'
<1>1. UNCHANGED <<loop, env>> /\ LoopKeeps
  BY Zenon, TaskStepFrame DEF settings, LoopKeeps
<1>2. SoundTask(task[t])
  BY Zenon DEF CallsInv
<1>3. CASE NoProfile(t) \/ PublishVerifiedPeer(t) \/ \E applied \in BOOLEAN : GoesOn(t, applied)
  <2>1. /\ task[t].st \in {"seek", "ready", "answered"} /\ UNCHANGED <<pending, nextId, abandoned>>
        /\ \/ task' = [task EXCEPT ![t] = Starting(Tail(task[t].prog))]
           \/ task' = [task EXCEPT ![t] = IdleTask]
    BY Zenon, <1>3 DEF NoProfile, PublishVerifiedPeer, GoesOn
  <2>2. SoundTask(IdleTask) /\ ~Asks(IdleTask)
    BY DEF IdleTask, SoundTask, TaskStates, Asks
  <2>3. PICK r : SoundTask(r) /\ ~Asks(r) /\ task' = [task EXCEPT ![t] = r]
    BY Zenon, <1>2, <2>1, <2>2, NextCallIsSound
  <2> QED BY Zenon, <1>1, <2>1, <2>3, MovingOnKeepsCalls
<1>4. CASE WaitForSwarm(t)
  <2>1. /\ task[t].st = "seek" /\ UNCHANGED <<pending, nextId, abandoned>>
        /\ \/ task' = [task EXCEPT ![t] = [task[t] EXCEPT !.st = "ready"]]
           \/ task' = [task EXCEPT ![t] = AfterFailure(task[t])]
    BY Zenon, <1>4 DEF WaitForSwarm
  <2>2. \A r : r = [task[t] EXCEPT !.st = "ready"] => SoundTask(r) /\ ~Asks(r)
    BY Zenon, <1>2, <2>1 DEF SoundTask, TaskStates, Asks
  <2>3. SoundTask(AfterFailure(task[t])) /\ ~Asks(AfterFailure(task[t]))
    BY Zenon, <1>2, <2>1, FailureIsSound
  <2>4. PICK r : SoundTask(r) /\ ~Asks(r) /\ task' = [task EXCEPT ![t] = r]
    BY Zenon, <2>1, <2>2, <2>3
  <2> QED BY Zenon, <1>1, <2>1, <2>4, MovingOnKeepsCalls
<1>5. CASE InSlot /\ Send(t, TRUE)
  <2> DEFINE r == [task[t] EXCEPT !.st = "sent", !.id = nextId]
  <2>1. /\ task[t].st = "ready" /\ task' = [task EXCEPT ![t].st = "sent", ![t].id = nextId]
        /\ nextId' = nextId + 1 /\ UNCHANGED <<pending, abandoned>>
    BY Zenon, <1>5 DEF Send
  <2>2. SoundTask(r) /\ r.st = "sent" /\ r.id = nextId
    <3>1. nextId \in Nat /\ task[t].prog # <<>> /\ task[t] \in TaskStates
      BY Zenon, <1>2, <2>1 DEF LoopInv, SoundTask
    <3>2. r \in TaskStates /\ r.st = "sent" /\ r.id = nextId /\ r.prog = task[t].prog
      BY Zenon, <3>1 DEF TaskStates
    <3> HIDE DEF r
    <3> QED BY Zenon, <3>1, <3>2 DEF SoundTask
  <2>3. task' = [task EXCEPT ![t] = r]
    BY Zenon, <2>1, <1>2 DEF CallsInv, SoundTask, TaskStates
  <2> HIDE DEF r
  <2> QED BY Zenon, <1>1, <2>1, <2>2, <2>3, SendingKeepsCalls
<1>6. CASE \E built \in BOOLEAN : Send(t, built) /\ ~(InSlot /\ built)
  <2>1. /\ task[t].st = "ready" /\ task' = [task EXCEPT ![t] = AfterFailure(task[t])]
        /\ UNCHANGED <<pending, nextId, abandoned>>
    BY Zenon, <1>6 DEF Send
  <2>2. PICK r : SoundTask(r) /\ ~Asks(r) /\ task' = [task EXCEPT ![t] = r]
    BY Zenon, <1>2, <2>1, FailureIsSound
  <2> QED BY Zenon, <1>1, <2>1, <2>2, MovingOnKeepsCalls
<1>7. CASE TimesOut(t)
  <2>1. /\ task[t].st = "wait" /\ task' = [task EXCEPT ![t] = AfterFailure(task[t])]
        /\ abandoned' = abandoned \cup {task[t].id} /\ UNCHANGED <<pending, nextId>>
    BY Zenon, <1>7 DEF TimesOut, Waiting
  <2>2. PICK r : SoundTask(r) /\ ~Asks(r) /\ task' = [task EXCEPT ![t] = r]
    BY Zenon, <1>2, <2>1, FailureIsSound
  <2> QED BY Zenon, <1>1, <2>1, <2>2, MovingOnKeepsCalls
<1>8. (\E built \in BOOLEAN : Send(t, built)) =>
          (InSlot /\ Send(t, TRUE)) \/ \E built \in BOOLEAN : Send(t, built) /\ ~(InSlot /\ built)
  BY Zenon
<1> QED BY Zenon, <1>3, <1>4, <1>5, <1>6, <1>7, <1>8, RegisteringKeepsCalls DEF TaskStep

\* tokio::spawn in a handler.
LEMMA SpawningKeepsCalls ==
    ASSUME CallsInv, LoopInv, NEW prog \in Seq(CallKinds), Spawn(prog) \/ task' = task,
           LoopKeeps, UNCHANGED <<pending, nextId, abandoned, env>>
    PROVE  CallsInv'
<1>1. CASE Spawn(prog)
  <2>1. PICK t \in Task : task[t].st = "idle" /\ task' = [task EXCEPT ![t] = Starting(prog)]
    BY Zenon, <1>1 DEF Spawn, IsIdle
  <2>2. PICK r : SoundTask(r) /\ ~Asks(r) /\ task' = [task EXCEPT ![t] = r]
    BY Zenon, <2>1, StartingIsSound
  <2> QED BY Zenon, <2>1, <2>2, MovingOnKeepsCalls
<1>2. CASE task' = task
  <2>1. \A id : id \in WaitedFor' <=> id \in WaitedFor
    BY Zenon, <1>2, WaitedForIs, WaitedForIsNext DEF LoopKeeps
  <2>2. PendingMatchesCallers'
    <3>1. PendingMatchesCallers
      BY Zenon DEF CallsInv
    <3> QED BY Zenon, <2>1, <3>1, PendingIs, PendingIsNext
  <2> QED BY Zenon, <1>2, <2>2 DEF CallsInv, LoopKeeps
<1> QED BY Zenon, <1>1, <1>2

\* The answer to a request.
LEMMA AnswerKeepsCalls ==
    ASSUME CallsInv, LoopInv, NEW id, Answer(id) PROVE CallsInv'
<1>1. /\ loop.pc = "poll" /\ loop'.pc = "take" /\ pending' = pending \ {id} /\ abandoned' = abandoned \ {id}
      /\ task' = IF id \in pending THEN [t \in Task |-> Woken(t, id)] ELSE task
      /\ UNCHANGED <<nextId, env>>
  BY Zenon, OtherSteps DEF Answer, settings
<1>2. /\ DOMAIN task' = Task
      /\ \A t \in Task : \/ task'[t] = task[t] /\ ~(task[t].st = "wait" /\ task[t].id = id)
                         \/ task[t].st = "wait" /\ task[t].id = id /\ task'[t] = [task[t] EXCEPT !.st = "answered"]
  <2>1. CASE id \in pending
    BY Zenon, <1>1, <2>1 DEF Woken, Waiting
  <2>2. CASE id \notin pending
    <3>1. id \notin WaitedFor
      BY Zenon, <2>2, PendingIs DEF CallsInv
    <3> QED BY Zenon, <1>1, <2>2, <3>1, WaitedForIs DEF CallsInv
  <2> QED BY Zenon, <2>1, <2>2
<1>3. \A t \in Task : /\ SoundTask(task'[t]) /\ task'[t].id = task[t].id
                      /\ Asks(task'[t]) => Asks(task[t])
                      /\ task'[t].st = "wait" <=> task[t].st = "wait" /\ task[t].id # id
                      /\ task'[t].st = "sent" <=> task[t].st = "sent"
  <2> SUFFICES ASSUME NEW t \in Task
               PROVE  /\ SoundTask(task'[t]) /\ task'[t].id = task[t].id
                      /\ Asks(task'[t]) => Asks(task[t])
                      /\ task'[t].st = "wait" <=> task[t].st = "wait" /\ task[t].id # id
                      /\ task'[t].st = "sent" <=> task[t].st = "sent"
    BY Zenon
  <2>1. SoundTask(task[t])
    BY Zenon DEF CallsInv
  <2>2. CASE task'[t] = task[t] /\ ~(task[t].st = "wait" /\ task[t].id = id)
    BY Zenon, <2>1, <2>2
  <2>3. CASE task[t].st = "wait" /\ task[t].id = id /\ task'[t] = [task[t] EXCEPT !.st = "answered"]
    BY Zenon, <2>1, <2>3 DEF SoundTask, TaskStates, Asks
  <2> QED BY Zenon, <1>2, <2>2, <2>3
<1>4. PendingMatchesCallers'
  <2>1. \A i : i \in WaitedFor' <=> i \in WaitedFor /\ i # id
    BY <1>1, <1>3, WaitedForIs, WaitedForIsNext
  <2>2. PendingMatchesCallers
    BY Zenon DEF CallsInv
  <2> QED BY Zenon, <1>1, <2>1, <2>2, PendingIs, PendingIsNext
<1> QED BY <1>1, <1>2, <1>3, <1>4 DEF CallsInv

\* A handler makes a call.
LEMMA CallKeepsCalls ==
    ASSUME CallsInv, LoopInv, Call PROVE CallsInv'
<1>1. /\ loop.pc = "call" /\ pending' = pending \cup {nextId} /\ nextId' = nextId + 1
      /\ UNCHANGED <<task, abandoned, env>>
  BY Zenon DEF Call, settings
<1>2. loop'.pc = "wait" /\ loop'.id = nextId
  <2>1. loop' = [loop EXCEPT !.pc = "wait", !.id = nextId]
    BY Zenon DEF Call
  <2>2. /\ [loop EXCEPT !.pc = "wait", !.id = nextId].pc = "wait"
        /\ [loop EXCEPT !.pc = "wait", !.id = nextId].id = nextId
    BY Zenon DEF LoopInv, SoundLoop, LoopStates
  <2> QED BY <2>1, <2>2, Zenon
<1>3. nextId \in Nat /\ \A i \in Nat : i < nextId => i < nextId + 1 /\ i # nextId
  BY DEF LoopInv
<1>4. \A t \in Task : task[t].id \in Nat
  BY Zenon DEF CallsInv, SoundTask, TaskStates
<1>5. PendingMatchesCallers'
  <2>1. \A id : id \in WaitedFor' <=> id \in WaitedFor \/ id = nextId
    BY Zenon, <1>1, <1>2, WaitedForIs, WaitedForIsNext
  <2>2. PendingMatchesCallers /\ nextId \notin pending
    BY Zenon, <1>3 DEF CallsInv
  <2> QED BY Zenon, <1>1, <2>1, <2>2, PendingIs, PendingIsNext
<1>6. \A id \in pending' : id \in Nat /\ id < nextId'
  BY <1>1, <1>3 DEF CallsInv
<1>7. \A t \in Task : Asks(task'[t]) => task'[t].id < nextId' /\ task'[t].id # nextId
  BY Zenon, <1>1, <1>3, <1>4 DEF CallsInv
<1>8. \A t \in Task : task'[t].st = "sent" => task'[t].id \notin pending'
  BY Zenon, <1>1, <1>3, <1>4 DEF CallsInv, Asks
<1> QED BY Zenon, <1>1, <1>2, <1>3, <1>5, <1>6, <1>7, <1>8 DEF CallsInv

\* A handler gives up its call.
LEMMA GivingUpKeepsCalls ==
    ASSUME CallsInv, LoopInv, CallTimesOut PROVE CallsInv'
<1>1. /\ loop.pc = "wait" /\ abandoned' = abandoned \cup {loop.id}
      /\ UNCHANGED <<task, pending, nextId, env>>
  BY Zenon DEF CallTimesOut, settings
<1>2. loop'.pc # "wait"
  <2>1. loop.left - 1 \in Nat /\ loop.then \in {"take", "decide"}
    BY <1>1 DEF LoopInv, SoundLoop, LoopStates
  <2>2. loop' = AtCalls(loop.left - 1, loop.then)
    BY Zenon DEF CallTimesOut
  <2> QED BY Zenon, <2>1, <2>2, OtherSteps
<1>3. PendingMatchesCallers'
  <2>1. \A id : id \in WaitedFor <=> id \in WaitedFor' \/ id = loop.id
    BY Zenon, <1>1, <1>2, WaitedForIs, WaitedForIsNext
  <2>2. loop.id \notin WaitedFor'
    BY <1>1, <1>2, WaitedForIsNext DEF CallsInv, Asks
  <2>3. PendingMatchesCallers
    BY Zenon DEF CallsInv
  <2> QED BY Zenon, <1>1, <2>1, <2>2, <2>3, PendingIs, PendingIsNext
<1> QED BY Zenon, <1>1, <1>2, <1>3 DEF CallsInv

\* A request that no caller waits for takes an id.
LEMMA RelayKeepsCalls ==
    ASSUME CallsInv, LoopInv, NEW forwards \in BOOLEAN, OnionRelay(forwards) PROVE CallsInv'
<1>1. /\ loop.pc = "poll" /\ loop'.pc = "take" /\ UNCHANGED <<task, pending, abandoned, env>>
      /\ nextId' = nextId \/ nextId' = nextId + 1
  BY Zenon, OtherSteps DEF OnionRelay, settings
<1>2. \A i \in Nat : i < nextId => i < nextId'
  BY <1>1 DEF LoopInv
<1>3. \A t \in Task : task[t].id \in Nat
  BY Zenon DEF CallsInv, SoundTask, TaskStates
<1>4. PendingMatchesCallers'
  <2>1. \A id : id \in WaitedFor' <=> id \in WaitedFor
    BY <1>1, WaitedForIs, WaitedForIsNext
  <2>2. PendingMatchesCallers
    BY Zenon DEF CallsInv
  <2> QED BY Zenon, <1>1, <2>1, <2>2, PendingIs, PendingIsNext
<1> QED BY Zenon, <1>1, <1>2, <1>3, <1>4 DEF CallsInv

\* A new process.
LEMMA BootHasNoCalls ==
    ASSUME NEW peers, peers \subseteq Peer, env \subseteq Peer, task = BootTasks(peers),
           pending = {}, abandoned = {}, loop.pc = "take"
    PROVE  CallsInv
<1>1. DOMAIN task = Task /\ \A t \in Task : SoundTask(task[t]) /\ ~Asks(task[t])
  BY Zenon, BootTasksAreSound
<1>2. \A id : id \notin WaitedFor
  BY Zenon, <1>1, WaitedForIs DEF Asks
<1>3. PendingMatchesCallers
  BY Zenon, <1>2, PendingIs
<1> QED BY Zenon, <1>1, <1>3 DEF CallsInv, Asks

\* The peers a node dials when it starts.
LEMMA DialledArePeers ==
    \A e, f : e \subseteq Peer => LoadBootstrapAddrs(e, f) \subseteq Peer
BY Zenon DEF LoadBootstrapAddrs, Recorded

\* The first state.
LEMMA CallsInitially == Init => CallsInv
<1> SUFFICES ASSUME Init PROVE CallsInv
  BY Zenon
<1>1. PICK s \in Scenarios : env = s.env /\ task = BootTasks(LoadBootstrapAddrs(s.env, s.file))
  BY Zenon DEF Init
<1>2. s.env \subseteq Peer
  BY Zenon, LoopAssumption
<1>3. pending = {} /\ abandoned = {} /\ loop.pc = "take"
  BY Zenon, OtherSteps DEF Init
<1> QED BY Zenon, <1>1, <1>2, <1>3, BootHasNoCalls, DialledArePeers

\* A process that has just started.
Boots ==
    \E peers : /\ peers \subseteq Peer /\ env \subseteq Peer /\ task = BootTasks(peers)
               /\ pending = {} /\ abandoned = {} /\ loop.pc = "take"

\* It has no calls, after a step too.
LEMMA BootsHaveNoCalls == Boots' => CallsInv'
<1>1. Boots => CallsInv
  BY Zenon, BootHasNoCalls DEF Boots
<1> QED BY <1>1, PTL

\* A restart.
LEMMA RestartKeepsCalls ==
    ASSUME CallsInv, NEW f, NEW kept, StartsWith(f, kept) PROVE CallsInv'
<1>1. Boots'
  <2>1. /\ env' = env /\ task' = BootTasks(LoadBootstrapAddrs(env, f))
        /\ pending' = {} /\ abandoned' = {} /\ loop'.pc = "take"
    BY Zenon, OtherSteps DEF StartsWith, settings
  <2>2. env \subseteq Peer
    BY Zenon DEF CallsInv
  <2>3. LoadBootstrapAddrs(env, f) \subseteq Peer
    BY Zenon, <2>2, DialledArePeers
  <2> QED BY Zenon, <2>1, <2>2, <2>3 DEF Boots
<1> QED BY Zenon, <1>1, BootsHaveNoCalls

\* The steps of the handlers.
LEMMA LoopStepKeepsCalls ==
    ASSUME CallsInv, LoopInv, LoopStep PROVE CallsInv'
<1>0. <<"onboard">> \in Seq(CallKinds) /\ <<"notify", "publish">> \in Seq(CallKinds)
  BY DEF CallKinds
<1>1. CASE Take
  <2>1. LoopKeeps /\ UNCHANGED <<task, pending, nextId, abandoned, env>>
    BY Zenon, <1>1 DEF Take, LoopKeeps, calls, settings, AtTake
  <2> QED BY Zenon, <1>0, <2>1, SpawningKeepsCalls
<1>2. CASE Established
  <2>1. /\ Spawn(<<"onboard">>) \/ task' = task
        /\ UNCHANGED <<pending, nextId, abandoned, env>>
        /\ loop.pc = "established" /\ loop.peer \in Peer /\ (loop' = AtTake \/ loop' = At("denied", loop.peer))
    BY Zenon, <1>2 DEF Established, TurnsAway, settings, LoopInv, SoundLoop
  <2>2. LoopKeeps
    BY <2>1, OtherSteps DEF LoopKeeps, Steps, Waits
  <2> QED BY Zenon, <1>0, <2>1, <2>2, SpawningKeepsCalls
<1>3. CASE Denied \/ Closed
  <2>1. LoopKeeps /\ UNCHANGED <<task, pending, nextId, abandoned, env>>
    BY Zenon, <1>3, OtherSteps DEF Denied, Closed, TurnsAway, LoopKeeps, calls, settings
  <2> QED BY Zenon, <1>0, <2>1, SpawningKeepsCalls
<1>4. CASE Emit
  <2>1. loop.left - 1 \in Nat /\ loop.pc = "emit" /\ loop' = AtEmit(loop.left - 1)
    BY <1>4 DEF Emit, LoopInv, SoundLoop, LoopStates
  <2>2. LoopKeeps /\ UNCHANGED <<task, pending, nextId, abandoned, env>>
    BY Zenon, <1>4, <2>1, OtherSteps DEF Emit, LoopKeeps, calls, settings
  <2> QED BY Zenon, <1>0, <2>2, SpawningKeepsCalls
<1>5. CASE RegisterPeerAddr
  <2>1. LoopKeeps /\ UNCHANGED <<task, pending, nextId, abandoned, env>>
    BY Zenon, <1>5, NextAddrPc DEF RegisterPeerAddr, LoopKeeps, calls, settings
  <2> QED BY Zenon, <1>0, <2>1, SpawningKeepsCalls
<1>6. CASE AddrsDone
  <2>1. LoopKeeps /\ UNCHANGED <<task, pending, nextId, abandoned, env>>
    BY Zenon, <1>6, OtherSteps DEF AddrsDone, LoopKeeps, calls, settings
  <2> QED BY Zenon, <1>0, <2>1, SpawningKeepsCalls
<1>7. CASE \E approved \in BOOLEAN : Decide(approved)
  <2>1. /\ LoopKeeps /\ UNCHANGED <<pending, nextId, abandoned, env>>
        /\ Spawn(<<"notify", "publish">>) \/ task' = task
    BY Zenon, <1>7, OtherSteps DEF Decide, LoopKeeps, settings
  <2> QED BY Zenon, <1>0, <2>1, SpawningKeepsCalls
<1>8. CASE CallFails
  <2>1. loop.left - 1 \in Nat /\ loop.then \in {"take", "decide"}
    BY <1>8 DEF CallFails, LoopInv, SoundLoop, LoopStates
  <2>2. LoopKeeps /\ UNCHANGED <<task, pending, nextId, abandoned, env>>
    BY Zenon, <1>8, <2>1, OtherSteps DEF CallFails, LoopKeeps, calls, settings
  <2> QED BY Zenon, <1>0, <2>2, SpawningKeepsCalls
<1> QED BY <1>1, <1>2, <1>3, <1>4, <1>5, <1>6, <1>7, <1>8, CallKeepsCalls, GivingUpKeepsCalls DEF LoopStep

\* Every step.
LEMMA NextKeepsCalls == CallsInv /\ LoopInv /\ [Next]_vars => CallsInv'
<1> SUFFICES ASSUME CallsInv, LoopInv, [Next]_vars PROVE CallsInv'
  BY Zenon
<1>0. <<"onboard">> \in Seq(CallKinds)
  BY DEF CallKinds
<1>1. LoopKeeps /\ UNCHANGED <<task, pending, nextId, abandoned, env>> => CallsInv'
  BY Zenon, <1>0, SpawningKeepsCalls
<1> USE DEF LoopKeeps, calls, settings
<1>2. ASSUME NEW p \in Peer,
             \/ ConnectionEstablished(p) \/ ConnectionClosed(p)
             \/ \E v \in Verdicts : SetVerdict(p, v)
      PROVE  CallsInv'
  <2>1. LoopKeeps /\ UNCHANGED <<task, pending, nextId, abandoned, env>>
    <3>1. "established" \in Steps /\ "closed" \in Steps
      BY Zenon DEF Steps, Waits
    <3>2. CASE ConnectionEstablished(p)
      BY Zenon, <3>1, <3>2, OtherSteps DEF ConnectionEstablished
    <3>3. CASE ConnectionClosed(p)
      BY Zenon, <3>1, <3>3, OtherSteps DEF ConnectionClosed
    <3>4. CASE \E v \in Verdicts : SetVerdict(p, v)
      BY Zenon, <3>4 DEF SetVerdict
    <3> QED BY Zenon, <1>2, <3>2, <3>3, <3>4
  <2> QED BY Zenon, <1>1, <2>1
<1>3. ASSUME NEW p \in Peer, NEW addrs \in AddrLists, Identify(p, addrs) PROVE CallsInv'
  <2>1. \A x : [x EXCEPT !.addrs = addrs].pc = x.pc
    OBVIOUS
  <2>2. loop.pc = "poll" /\ loop' = [At("addrs", p) EXCEPT !.addrs = addrs] /\ At("addrs", p).pc = "addrs"
    BY Zenon, <1>3, OtherSteps DEF Identify, Steps
  <2>3. UNCHANGED <<task, pending, nextId, abandoned, env>>
    BY Zenon, <1>3 DEF Identify
  <2> QED BY Zenon, <1>1, <2>1, <2>2, <2>3
<1>4. CASE (\E n \in 0..2 : Request(n)) \/ OnboardRequest \/ VoteRequest
  <2>1. 2 * Cardinality(Supernodes) \in Nat
    BY LoopAssumption, FS_Subset, FS_CardinalityType
  <2>2. UNCHANGED <<task, pending, nextId, abandoned, env>> /\ loop.pc = "poll"
    BY Zenon, <1>4 DEF Request, OnboardRequest, VoteRequest
  <2>3. (\E n \in Nat : loop' = AtEmit(n)) \/ (\E n \in Nat : loop' = AtCalls(n, "decide"))
    BY <1>4, <2>1 DEF Request, OnboardRequest, VoteRequest
  <2> QED BY Zenon, <1>1, <2>2, <2>3, OtherSteps
<1>5. CASE \E o \in Object : StorageGet(o) \/ \E d \in Data : \E stage \in Stages(d) : StoragePut(o, d, stage)
  <2>1. /\ UNCHANGED <<task, pending, nextId, abandoned, env>> /\ loop.pc = "poll"
        /\ loop' = AtTake \/ loop' = AtCalls(1, "take")
    BY Zenon, <1>5 DEF StorageGet, StoragePut
  <2> QED BY Zenon, <1>1, <2>1, OtherSteps
<1>6. CASE \E left \in {file, Torn} : SaveFails(left)
  <2>1. LoopKeeps /\ UNCHANGED <<task, pending, nextId, abandoned, env>>
    BY Zenon, <1>6, NextAddrPc DEF SaveFails
  <2> QED BY Zenon, <1>1, <2>1
<1>7. CASE PushGhostSync \/ UNCHANGED vars
  <2>1. LoopKeeps /\ UNCHANGED <<task, pending, nextId, abandoned, env>>
    BY Zenon, <1>7 DEF PushGhostSync, vars
  <2> QED BY Zenon, <1>1, <2>1
<1>8. CASE Restart
  BY Zenon, <1>8, RestartKeepsCalls DEF Restart
<1>9. CASE (\E id \in out : Answer(id)) \/ \E forwards \in BOOLEAN : OnionRelay(forwards)
  BY Zenon, <1>9, AnswerKeepsCalls, RelayKeepsCalls
<1> QED BY <1>2, <1>3, <1>4, <1>5, <1>6, <1>7, <1>8, <1>9,
           CrashRestarts, LoopStepKeepsCalls, TaskStepKeepsCalls DEF Next

\* The invariant of the callers.
LEMMA CallsInvariant == Spec => []CallsInv
BY CallsInitially, NextKeepsCalls, LoopInvariant, PTL DEF Spec

\* PendingMatchesCallers for any number of tasks, tries and supernodes: an
\* answer finds the caller that waits for it, and only a timeout leaves an entry
\* behind (send_direct_message, send_onboard_request, get_chunk_from_dht).
THEOREM EntriesMatchCallers == Spec => []PendingMatchesCallers
<1>1. CallsInv => PendingMatchesCallers
  BY Zenon DEF CallsInv
<1> QED BY <1>1, CallsInvariant, PTL

\* A call that a handler makes is never answered: as long as the handler waits
\* its entry is in the table, so that every send_config_sync of an Identify
\* event, every proposal and vote of an onboarding request and every read of a
\* missing chunk takes the whole of its timeout (run_event_loop).
THEOREM HandlersAreNeverAnswered == Spec => [](loop.pc = "wait" => loop.id \in pending)
<1>1. PendingMatchesCallers /\ loop.pc = "wait" => loop.id \in pending
  BY Zenon DEF PendingMatchesCallers, WaitedFor
<1> QED BY <1>1, EntriesMatchCallers, PTL
=============================================================================
