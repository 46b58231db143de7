--------------------------- MODULE BootstrapCache ---------------------------
(***************************************************************************)
(* The file of peer addresses a node dials when it starts                  *)
(* (src/bootstrap_cache.rs).  A file holds one address for each peer it    *)
(* has a record of; Torn is a file that no longer parses.  An address is   *)
(* its canonical form, which ends in the peer's id.                        *)
(***************************************************************************)
EXTENDS Naturals, FiniteSets

CONSTANTS
    Peer,
    Addr, Public,       \* the addresses, and those is_public_addr accepts
    NoAddr,
    Torn,
    Rank,               \* the order of the peers' ids, that of the BTreeMap
    MaxRecords          \* MAX_BOOTSTRAP_PEERS

ASSUME CacheAssumption ==
    /\ Public \subseteq Addr /\ NoAddr \notin Addr
    /\ Rank \in [Peer -> Nat]
    /\ MaxRecords \in Nat \ {0}

Records == [Peer -> Addr \cup {NoAddr}]

ASSUME TornIsNoRecords == Torn \notin Records

NoRecords == [p \in Peer |-> NoAddr]

Recorded(records) == {p \in Peer : records[p] # NoAddr}

NormalizeRecords(records) ==
    [p \in Peer |-> IF records[p] \in Public THEN records[p] ELSE NoAddr]

\* read_cache_records, after unwrap_or_default
ReadRecords(file) == IF file = Torn THEN NoRecords ELSE NormalizeRecords(file)

\* write_cache_records: the first MaxRecords peers stay
Before(records, p) == {q \in Recorded(records) : Rank[q] < Rank[p]}

WriteRecords(records) ==
    LET normal == NormalizeRecords(records)
    IN  [p \in Peer |-> IF Cardinality(Before(normal, p)) < MaxRecords THEN normal[p] ELSE NoAddr]

\* Mutant: a save gives up when the file does not parse.
SaveNeedsFile(file, p, a) ==
    IF a \in Public /\ file # Torn
    THEN WriteRecords([ReadRecords(file) EXCEPT ![p] = a]) ELSE file

SaveBootstrapPeerAddr(file, p, a) ==
    IF a \in Public THEN WriteRecords([ReadRecords(file) EXCEPT ![p] = a]) ELSE file

\* What reading leaves in the file: records that were not normal are rewritten.
AfterRead(file) ==
    IF file = Torn \/ file = NormalizeRecords(file) THEN file ELSE WriteRecords(file)

\* load_bootstrap_addrs: the peers of BOOTSTRAP_P2P_MULTIADDRS and of the file
LoadBootstrapAddrs(env, file) == env \cup Recorded(ReadRecords(file))
=============================================================================
