---------------------------- MODULE ObjectStore ----------------------------
(***************************************************************************)
(* The objects of src/storage_layer.  The layer keeps the metadata of an   *)
(* object on disk and its chunks, here pieces, in a local cache and in the *)
(* DHT.  Data is a model value cut into Pieces[d] pieces; the hash in the  *)
(* metadata tells data apart, so the metadata is the data itself.  A piece *)
(* in the cache decrypts to what was encrypted.  main.rs never turns       *)
(* erasure coding on, so that path is left out, like the statistics.       *)
(***************************************************************************)
EXTENDS Integers

CONSTANTS
    Object,
    Data, TooLarge,     \* what may be put, and what exceeds max_object_size
    Pieces, MaxPieces,  \* the number of chunks of a datum, and a bound on it
    NoData, NoPiece

ASSUME StoreAssumption ==
    /\ TooLarge \subseteq Data /\ NoData \notin Data
    /\ MaxPieces \in Nat /\ Pieces \in [Data -> 0..MaxPieces]

Index == 0..(MaxPieces - 1)

Piece == [of : Data, index : Index]

ASSUME NoPieceIsNone == NoPiece \notin Piece

PieceOf(d, i) == [of |-> d, index |-> i]

Indices(d) == {i \in Index : i < Pieces[d]}

\* data.chunks(chunk_size), each encrypted
Whole(d) == [i \in Indices(d) |-> PieceOf(d, i)]

\* MetadataStore.objects, what of it is sure to be on the disk, and
\* DhtStore.local_cache, in memory
Stores == [meta  : [Object -> Data \cup {NoData}],
           disk  : [Object -> Data \cup {NoData}],
           cache : [Object -> [Index -> Piece \cup {NoPiece}]]]

NoPieces == [o \in Object |-> [i \in Index |-> NoPiece]]

NoObjects == [o \in Object |-> NoData]

EmptyStore == [meta |-> NoObjects, disk |-> NoObjects, cache |-> NoPieces]

\* The store after a restart, which keeps some of what was never flushed.
Reopened(s, kept) ==
    LET found == [o \in Object |-> IF o \in kept THEN s.meta[o] ELSE s.disk[o]]
    IN  [meta |-> found, disk |-> found, cache |-> NoPieces]

\* How far a put gets: the insert of the metadata fails (-2), its flush fails
\* (-1), the publication of a piece fails, or all of it succeeds.
Stages(d) == -2..Pieces[d]

\* save_metadata.  A flush that fails leaves the insert in place; one that
\* succeeds writes all there is.
SaveMetadata(meta, o, d, stage) == IF stage = -2 THEN meta ELSE [meta EXCEPT ![o] = d]

Flushed(s, meta, stage) == IF stage >= 0 THEN meta ELSE s.disk

\* store_chunks: put_chunk caches a piece before it asks the swarm to publish
\* it, so the piece whose publication fails is in the cache too.
StoreChunks(cache, o, d, stage) ==
    [cache EXCEPT ![o] = [i \in Index |->
        IF i \in Indices(d) /\ i <= stage THEN PieceOf(d, i) ELSE @[i]]]

PutObject(s, o, d, stage) ==
    IF d \in TooLarge THEN s
    ELSE LET meta == SaveMetadata(s.meta, o, d, stage)
         IN  [meta |-> meta, disk |-> Flushed(s, meta, stage), cache |-> StoreChunks(s.cache, o, d, stage)]

\* The answer to a put is Success.
PutSucceeds(d, stage) == d \notin TooLarge /\ stage = Pieces[d]

\* get_chunk finds the piece in the cache, or asks the DHT for it.
Missing(s, o) == {i \in Indices(s.meta[o]) : s.cache[o][i] = NoPiece}

NeedsDht(s, o) == s.meta[o] # NoData /\ Missing(s, o) # {}

Assembled(s, o) == [i \in Indices(s.meta[o]) |-> s.cache[o][i]]

\* Mutant: the hash of what was assembled is not compared.
GetUnchecked(s, o) ==
    IF s.meta[o] = NoData \/ NeedsDht(s, o)
    THEN [ok |-> FALSE] ELSE [ok |-> TRUE, data |-> Assembled(s, o)]

\* get_object when no piece comes from the DHT: the data it answers, or an error
GetObject(s, o) ==
    IF s.meta[o] = NoData \/ NeedsDht(s, o) \/ Assembled(s, o) # Whole(s.meta[o])
    THEN [ok |-> FALSE] ELSE [ok |-> TRUE, data |-> Assembled(s, o)]
=============================================================================
