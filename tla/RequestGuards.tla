--------------------------- MODULE RequestGuards ---------------------------
(***************************************************************************)
(* What the node remembers about requests, and forgets again as time       *)
(* passes: the replay buckets of PolicyInner, the nonce cache and the      *)
(* serial-number limiter of SecurityRuntime (src/security_runtime.rs) and  *)
(* the token buckets of GatewayRateLimiter (src/gateway.rs).  Each is a    *)
(* value that an operator maps to the next one.  Time is in seconds, the   *)
(* peers are those of Authority.                                           *)
(***************************************************************************)
EXTENDS Authority, Integers, FiniteSets, Sequences

CONSTANTS
    Nonce,              \* the nonces they draw
    NoNonce,            \* the empty nonce of an unsigned message
    ReplayWindow,       \* replay_window_secs, 300
    MaxNoncesPerPeer,   \* MAX_NONCES_PER_PEER, 1000
    MaxTrackedPeers,    \* MAX_TRACKED_PEERS, 10000
    NonceTtl,           \* NONCE_TTL_SECS, and the bound on an onboarding timestamp, 900
    MaxCacheSize,       \* MAX_CACHE_SIZE, 10000
    MaxAttempts,        \* attempts per serial number, 5 ...
    AttemptWindow,      \* ... in this many seconds, 60
    Burst,              \* tokens of a full gateway bucket, 30
    RefillRate          \* tokens per second, 120 / 60

ASSUME GuardsAssumption ==
    /\ NoNonce \notin Nonce
    /\ {ReplayWindow, MaxNoncesPerPeer, MaxTrackedPeers, NonceTtl, MaxCacheSize,
        MaxAttempts, AttemptWindow, Burst, RefillRate} \subseteq Nat
    /\ MaxCacheSize # 0

Nonces == Nonce \cup {NoNonce}

AbsDiff(a, b) == IF a >= b THEN a - b ELSE b - a

-----------------------------------------------------------------------------
(* check_common: replay_seen maps a tracked peer to the nonces seen from it *)

Sightings == [nonce : Nonces, at : Nat]

ReplayStates == [tracked : SUBSET Peer, seen : [Peer -> SUBSET Sightings]]

NothingSeen == [tracked |-> {}, seen |-> [p \in Peer |-> {}]]

InWindow(ts, t) == AbsDiff(t, ts) <= ReplayWindow

Live(bucket, t) == {e \in bucket : AbsDiff(t, e.at) <= ReplayWindow}

\* The cleanup of the whole map, only once it has grown too large.
Swept(r, t) ==
    IF Cardinality(r.tracked) > MaxTrackedPeers
    THEN [tracked |-> {q \in r.tracked : Live(r.seen[q], t) # {}},
          seen    |-> [q \in Peer |-> Live(r.seen[q], t)]]
    ELSE r

\* The bucket of p without its expired nonces.
Bucket(r, p, t) == Live(Swept(r, t).seen[p], t)

\* Mutant: a nonce that was seen before is let through.
AdmitsUnseen(r, p, nonce, ts, t) ==
    /\ InWindow(ts, t)
    /\ Cardinality(Bucket(r, p, t)) < MaxNoncesPerPeer

\* check_common returns Ok.
Admits(r, p, nonce, ts, t) ==
    /\ InWindow(ts, t)
    /\ \A e \in Bucket(r, p, t) : e.nonce # nonce
    /\ Cardinality(Bucket(r, p, t)) < MaxNoncesPerPeer

\* Mutant: a full bucket makes room by dropping what it remembers.
CheckCommonMakesRoom(r, p, nonce, ts, t) ==
    LET s == Swept(r, t)
        full == Cardinality(Bucket(r, p, t)) >= MaxNoncesPerPeer
        b == IF full THEN {} ELSE Bucket(r, p, t)
    IN  IF ~InWindow(ts, t) THEN r
        ELSE [tracked |-> s.tracked \cup {p},
              seen    |-> [s.seen EXCEPT ![p] =
                  IF Admits(r, p, nonce, ts, t)
                  THEN b \cup {[nonce |-> nonce, at |-> t]} ELSE b]]

\* replay_seen after check_common, whether it returns Ok or not.
CheckCommon(r, p, nonce, ts, t) ==
    LET s == Swept(r, t)
        b == Bucket(r, p, t)
    IN  IF ~InWindow(ts, t) THEN r
        ELSE [tracked |-> s.tracked \cup {p},
              seen    |-> [s.seen EXCEPT ![p] =
                  IF Admits(r, p, nonce, ts, t)
                  THEN b \cup {[nonce |-> nonce, at |-> t]} ELSE b]]

-----------------------------------------------------------------------------
(* NonceCache.  An instant is a second and a number k: instants differ, and *)
(* k tells their order within a second too.                                 *)

Recordings == [nonce : Nonces, at : Nat, k : Nat]

Unexpired(cache, t) == {e \in cache : t - e.at < NonceTtl}

Oldest(cache) == {e \in cache : \A f \in cache : e.k <= f.k}

Records(cache, nonce, t) == \A e \in Unexpired(cache, t) : e.nonce # nonce

\* Mutant: a full cache drops its newest entry.
RecordDropsNewest(cache, nonce, t, k) ==
    LET c == Unexpired(cache, t)
        newest == {e \in c : \A f \in c : f.k <= e.k}
        room == IF Cardinality(c) >= MaxCacheSize THEN c \ newest ELSE c
    IN  IF Records(cache, nonce, t) THEN room \cup {[nonce |-> nonce, at |-> t, k |-> k]} ELSE c

\* NonceCache::record at instant k of second t: a full cache drops its oldest
\* entry.
Record(cache, nonce, t, k) ==
    LET c == Unexpired(cache, t)
        room == IF Cardinality(c) >= MaxCacheSize THEN c \ Oldest(c) ELSE c
    IN  IF Records(cache, nonce, t) THEN room \cup {[nonce |-> nonce, at |-> t, k |-> k]} ELSE c

-----------------------------------------------------------------------------
(* RateLimiter: the instants of the attempts that were let through *)

Instants == [at : Nat, k : Nat]

Recent(attempts, t) == {e \in attempts : t - e.at < AttemptWindow}

\* Mutant: one attempt too many.
CheckOffByOne(attempts, t) == Cardinality(Recent(attempts, t)) <= MaxAttempts

\* RateLimiter::check returns true.
Check(attempts, t) == Cardinality(Recent(attempts, t)) < MaxAttempts

\* The attempts it keeps.
Checked(attempts, t, k) ==
    Recent(attempts, t) \cup (IF Check(attempts, t) THEN {[at |-> t, k |-> k]} ELSE {})

-----------------------------------------------------------------------------
(* GatewayRateLimiter: allow(peer, 1).  Refills are whole tokens: now_secs *)
(* counts seconds and the rate is a whole number.                          *)

TokenBuckets == [tokens : Nat, last : Nat]

\* The entry made for a peer that has none.
NewBucket(t) == [tokens |-> Burst, last |-> t]

Lesser(a, b) == IF a <= b THEN a ELSE b

\* Mutant: an idle peer saves up tokens without limit.
RefilledUncapped(b, t) ==
    [tokens |-> b.tokens + (IF t >= b.last THEN t - b.last ELSE 0) * RefillRate, last |-> t]

\* saturating_sub keeps the elapsed time at zero or more.
Refilled(b, t) ==
    [tokens |-> Lesser(b.tokens + (IF t >= b.last THEN t - b.last ELSE 0) * RefillRate, Burst),
     last   |-> t]

Allows(b, t) == Refilled(b, t).tokens >= 1

Allow(b, t) ==
    IF Allows(b, t) THEN [Refilled(b, t) EXCEPT !.tokens = @ - 1] ELSE Refilled(b, t)
=============================================================================
