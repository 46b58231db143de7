-------------------------- MODULE RequestPipeline --------------------------
(***************************************************************************)
(* The requests and responses one node receives, from the handler of each  *)
(* kind in src/network/runtime/events.rs to the guards, the policy and the *)
(* authority behind them.  One task runs the handlers one after the other, *)
(* so a handler is one action.  A message that was sent stays in the       *)
(* network: it may arrive late, more than once, or never.  The answers of  *)
(* the handlers are left out, since nothing the node keeps depends on them; *)
(* EventLoop models the channel their events go to, Ghost the peers' scores. *)
(***************************************************************************)
EXTENDS SecurityRuntime

CONSTANTS
    Scenarios,      \* bounds: the messages peers send (ts is the lead of the
                    \* sender's clock over this node's), the first authority
                    \* file, and how many changes operators, ghost and crashes make
    ValidSerials,   \* the peers whose serial number has a good checksum
    Bundle,         \* allowed_peers of the config bundles that peers send
    PolicyFile,     \* the policy in data/policy_inner.toml
    Files,          \* what data/authority.bin may hold
    Relays,         \* bound: the peers that pass on messages of others
    MaxTime         \* bound on the clock

ASSUME PipelineAssumption ==
    /\ Scenarios \subseteq [mail : SUBSET Messages, file : Files, budget : Nat]
    /\ {ValidSerials, Bundle, Relays} \subseteq SUBSET Peer
    /\ PolicyFile \in Policies
    /\ Files \subseteq AuthorityStates \cup {NoFile}
    /\ NoFile \notin AuthorityStates
    /\ MaxTime \in Nat

VARIABLES
    now,            \* now_secs()
    todo,           \* messages peers have yet to send
    net,            \* messages that were sent
    woken,          \* config responses handed to tasks that have yet to run on
    replay,         \* PolicyInner.replay_seen
    keys,           \* the peers in PolicyInner.peer_public_keys
    policy,         \* PolicyInner.policy_config
    quarantined,    \* peers whose reputation entry is quarantined
    auth,           \* the state in AuthorityManager
    file,           \* data/authority.bin
    gate,           \* gateway_limiter: the bucket of each peer that has one
    cache,          \* SecurityRuntime.nonce_cache
    attempts,       \* SecurityRuntime.sn_rate_limiter
    budget,         \* the changes that are still to come
    \* history
    booted,         \* the authority state this process started with
    loaded,         \* the list in force as it was when it was read
    log,            \* the messages this process accepted
    granted,        \* the gateway requests of each peer the limiter allowed
    passed,         \* the onboarding attempts of each peer the limiter let through
    records         \* the onboarding nonces recorded, in order

security == <<replay, keys, policy, cache, attempts>>
history == <<booted, loaded, log, granted, passed, records>>
vars == <<now, todo, net, woken, security, quarantined, auth, file, gate, budget, history>>

Remote == Peer \ {Local}
Time == 0..MaxTime
NoBucket == [tokens |-> Burst, last |-> -1]

\* History: how often something has happened to a peer, and had happened before
\* each second that has begun.
Tallies == [total : Nat, before : [Time -> Nat]]
NoTally == [p \in Peer |-> [total |-> 0, before |-> [t \in Time |-> 0]]]
CountOne(tally, p) == [tally EXCEPT ![p].total = @ + 1]
NextSecond(tally) == [p \in Peer |-> [tally[p] EXCEPT !.before[now + 1] = tally[p].total]]
Since(tally, p, t) == tally[p].total - tally[p].before[t]

Entry(m) == [from |-> m.from, nonce |-> m.nonce, ts |-> m.ts, at |-> now]
Accepted(v, p, m) == IF v.ok THEN {[Entry(m) EXCEPT !.from = p]} ELSE {}

PipelineTypeOK ==
    /\ now \in Nat
    /\ {todo, net, woken} \subseteq SUBSET Messages
    /\ replay \in ReplayStates
    /\ keys \in SUBSET Peer
    /\ policy \in Policies
    /\ quarantined \in SUBSET Peer
    /\ {auth, booted, loaded} \subseteq AuthorityStates
    /\ file \in AuthorityStates \cup {NoFile}
    /\ gate \in [Peer -> TokenBuckets \cup {NoBucket}]
    /\ \A p \in Peer : gate[p].tokens <= Burst
    /\ cache \in SUBSET Recordings /\ Cardinality(cache) <= MaxCacheSize
    /\ attempts \in [Peer -> SUBSET Instants]
    /\ \A p \in Peer : Cardinality(attempts[p]) <= MaxAttempts
    /\ budget \in Nat
    /\ granted \in [Peer -> Tallies] /\ passed \in [Peer -> Tallies]

\* bootstrap_runtime, SecurityRuntime::new and load_policy_from_file
Init ==
    /\ \E s \in Scenarios :
          todo = s.mail /\ file = BootAuthority(s.file) /\ budget = s.budget
    /\ now = 0 /\ net = {} /\ woken = {}
    /\ replay = NothingSeen /\ keys = {} /\ policy = PolicyFile
    /\ cache = {} /\ attempts = [p \in Peer |-> {}]
    /\ quarantined = {}
    /\ gate = [p \in Peer |-> NoBucket]
    /\ auth = file /\ booted = file /\ loaded = file
    /\ log = {} /\ granted = NoTally /\ passed = NoTally /\ records = <<>>

-----------------------------------------------------------------------------
(* Handlers.  p is the peer at the other end of the connection. *)

Allowed(p, action) == Enforce(quarantined, policy, auth, p, action)

\* A message may also reach the node through a peer that did not make it.
Arrives(p, m, kind) == m \in net /\ m.kind = kind /\ p \in {m.from} \cup Relays

\* The bucket the limiter looks at; a peer without one gets a full one.
BucketOf(p) == IF gate[p] = NoBucket THEN NewBucket(now) ELSE gate[p]

GatewayRequest(p, m) ==
    LET v == VerifyGatewayRequest(replay, keys, p, m, now)
        b == BucketOf(p)
    IN  /\ Arrives(p, m, "gateway_request")
        /\ WellFormed(m) /\ Allowed(p, "GatewayAccess")
        /\ replay' = v.replay
        /\ log' = log \cup Accepted(v, p, m)
        /\ gate' = IF v.ok THEN [gate EXCEPT ![p] = Allow(b, now)] ELSE gate
        /\ granted' = IF v.ok /\ Allows(b, now)
                      THEN CountOne(granted, p) ELSE granted
        /\ UNCHANGED <<now, todo, net, woken, keys, policy, cache, attempts, quarantined,
                       auth, file, budget, booted, loaded, passed, records>>

\* What is left as it is by a handler that only verifies its message.
RestUnchanged == UNCHANGED <<now, todo, net, keys, cache, attempts, quarantined, file,
                             gate, budget, booted, loaded, granted, passed, records>>

OnlyVerifies(v, p, m) ==
    /\ replay' = v.replay
    /\ log' = log \cup Accepted(v, p, m)
    /\ UNCHANGED <<woken, policy, auth>> /\ RestUnchanged

GatewayResponse(p, m) ==
    /\ Arrives(p, m, "gateway_response")
    /\ OnlyVerifies(VerifyGatewayResponse(replay, keys, p, m, now), p, m)

\* A request for an unsupported namespace is refused before it is verified; the
\* others are verified before WebTraffic is enforced.
WebRequest(p, m) ==
    /\ Arrives(p, m, "web_request") /\ WellFormed(m) /\ m.ok
    /\ OnlyVerifies(VerifyWebRequest(replay, keys, p, m, now), p, m)

WebResponse(p, m) ==
    /\ Arrives(p, m, "web_response")
    /\ OnlyVerifies(VerifyWebResponse(replay, keys, p, m, now), p, m)

ConfigRequest(p, m) ==
    /\ Arrives(p, m, "config_request") /\ WellFormed(m) /\ Allowed(p, "Connect")
    /\ OnlyVerifies(VerifyConfigRequest(replay, keys, p, m, now), p, m)

ConfigResponse(p, m) ==
    LET v == VerifyConfigResponse(replay, keys, p, m, now)
    IN  /\ Arrives(p, m, "config_response")
        /\ replay' = v.replay
        /\ log' = log \cup Accepted(v, p, m)
        /\ policy' = IF v.ok THEN ApplyBundle(policy, Bundle) ELSE policy
        /\ UNCHANGED <<woken, auth>> /\ RestUnchanged

\* handle_direct_request for a kind without a branch of its own: the message,
\* then the ConfigRequest in its body.  A request wrapped in an EssRequest goes
\* there at once, any other after a look at its signature's format and enforce.
\* The kinds with a branch of their own return before the verifier and touch none
\* of this state: they are the handlers of GovernanceNode, CrdtReplicas and
\* ComputeScheduler.
DirectRequest(p, m, wrapped) ==
    LET v == VerifyRequest(replay, keys, p, m, now)
        c == Embedded(m, "config_request")
        w == VerifyConfigRequest(v.replay, keys, p, c, now)
        embeds == v.ok /\ m.inner # NoNonce
    IN  /\ Arrives(p, m, "direct_request")
        /\ wrapped \/ (WellFormed(m) /\ Allowed(p, "Connect"))
        /\ replay' = IF embeds THEN w.replay ELSE v.replay
        /\ log' = log \cup Accepted(v, p, m) \cup (IF embeds THEN Accepted(w, p, c) ELSE {})
        /\ UNCHANGED <<woken, policy, auth>> /\ RestUnchanged

\* complete_pending_direct_request wakes up the task that sent the request.
DirectResponse(p, m) ==
    LET v == VerifyResponseBytes(replay, keys, p, m, now)
    IN  /\ Arrives(p, m, "direct_response")
        /\ replay' = v.replay
        /\ log' = log \cup Accepted(v, p, m)
        /\ woken' = IF v.ok /\ m.inner # NoNonce
                    THEN woken \cup {Embedded(m, "config_response")} ELSE woken
        /\ UNCHANGED <<policy, auth>> /\ RestUnchanged

\* That task, later: sync_policy_with_supernode takes the ConfigResponse and its
\* bundle, and stages the peers of the bundle.  (send_config_sync never gets this
\* far: it waits inside the loop that would deliver its answer, see EventLoop.)
PolicySynced(p, c) ==
    LET v == VerifyConfigResponse(replay, keys, p, c, now)
    IN  /\ c \in woken /\ p = c.from
        /\ woken' = woken \ {c}
        /\ replay' = v.replay
        /\ log' = log \cup Accepted(v, p, c)
        /\ policy' = IF v.ok THEN ApplyBundle(policy, Bundle) ELSE policy
        /\ auth' = IF v.ok THEN ApplyConfigBundle(auth, Bundle) ELSE auth
        /\ RestUnchanged

\* handle_peer_identified: verify_remote_identity, then register_peer_key.  The
\* limiter comes first and the nonce is recorded before the checksum, the key
\* and the signature are looked at.  The serial number is that of the peer which
\* made the request; what it signed names it.  The history numbers the instants.
OnboardRequest(p, m) ==
    LET sn == m.from
        checked == Check(attempts[sn], now)
        fresh == checked /\ AbsDiff(now, m.ts) <= NonceTtl
        new == fresh /\ Records(cache, m.nonce, now)
    IN  /\ Arrives(p, m, "onboard_request")
        /\ attempts' = [attempts EXCEPT ![sn] = Checked(@, now, passed[sn].total + 1)]
        /\ passed' = IF checked THEN CountOne(passed, sn) ELSE passed
        /\ cache' = IF fresh THEN Record(cache, m.nonce, now, Len(records) + 1) ELSE cache
        /\ records' = IF new THEN Append(records, [nonce |-> m.nonce, at |-> now]) ELSE records
        /\ keys' = IF new /\ sn \in ValidSerials /\ m.ok /\ m.signature = p
                   THEN keys \cup {p} ELSE keys
        /\ UNCHANGED <<now, todo, net, woken, replay, policy, quarantined, auth, file, gate,
                       budget, booted, loaded, log, granted>>

-----------------------------------------------------------------------------
(* The other tasks and the world around the node *)

Send(m) ==
    /\ m \in todo
    /\ todo' = todo \ {m}
    /\ net' = net \cup {[m EXCEPT !.ts = now + @]}
    /\ UNCHANGED <<now, woken, security, quarantined, auth, file, gate, budget, history>>

Tick ==
    /\ now < MaxTime
    /\ now' = now + 1
    /\ granted' = NextSecond(granted) /\ passed' = NextSecond(passed)
    /\ UNCHANGED <<todo, net, woken, security, quarantined, auth, file, gate, budget,
                   booted, loaded, log, records>>

\* register_peer_on_discovery, on an Identify event; peers without messages in
\* the scenario are left out.
RegisterPeer(p) ==
    /\ \E m \in todo \cup net : m.from = p
    /\ keys' = keys \cup {p}
    /\ UNCHANGED <<now, todo, net, woken, replay, policy, cache, attempts, quarantined, auth,
                   file, gate, budget, history>>

Change == budget > 0 /\ budget' = budget - 1

\* GhostActionSink::quarantine_peer
QuarantinePeer(p) ==
    /\ Change
    /\ quarantined' = quarantined \cup {p}
    /\ UNCHANGED <<now, todo, net, woken, security, auth, file, gate, history>>

\* reload_policy from the dashboard or the control loop: the peers that bundles
\* added are gone.
ReloadPolicy ==
    /\ Change
    /\ policy' = PolicyFile
    /\ UNCHANGED <<now, todo, net, woken, replay, keys, cache, attempts, quarantined, auth,
                   file, gate, history>>

\* An operator puts another authority.bin in place.
InstallFile(f) ==
    /\ Change
    /\ file' = f
    /\ UNCHANGED <<now, todo, net, woken, security, quarantined, auth, gate, history>>

\* reconcile_governance_once
Reconcile ==
    /\ auth' = RefreshFromFile(auth, file)
    /\ loaded' = IF auth' = auth THEN loaded ELSE auth'
    /\ UNCHANGED <<now, todo, net, woken, security, quarantined, file, gate, budget, booted,
                   log, granted, passed, records>>

\* confirm_pending_peers, which no other part of the program calls yet
ConfirmPeer(p, confirmations) ==
    /\ Change
    /\ auth' = ConfirmPendingPeers(auth, p, confirmations)
    /\ UNCHANGED <<now, todo, net, woken, security, quarantined, file, gate, history>>

\* The process stops and starts again; none of what it remembers is on disk.
Restart ==
    /\ Change
    /\ file' = BootAuthority(file)
    /\ replay' = NothingSeen /\ keys' = {} /\ policy' = PolicyFile
    /\ cache' = {} /\ attempts' = [p \in Peer |-> {}]
    /\ quarantined' = {}
    /\ gate' = [p \in Peer |-> NoBucket]
    /\ auth' = file' /\ booted' = file' /\ loaded' = file'
    /\ log' = {} /\ granted' = NoTally /\ passed' = NoTally /\ records' = <<>>
    /\ woken' = {}
    /\ UNCHANGED <<now, todo, net>>

Handle(p, m) ==
    \/ GatewayRequest(p, m) \/ GatewayResponse(p, m)
    \/ WebRequest(p, m) \/ WebResponse(p, m)
    \/ ConfigRequest(p, m) \/ ConfigResponse(p, m)
    \/ \E wrapped \in BOOLEAN : DirectRequest(p, m, wrapped)
    \/ DirectResponse(p, m) \/ OnboardRequest(p, m)

Next ==
    \/ \E p \in Remote, m \in net : Handle(p, m)
    \/ \E p \in Remote, c \in woken : PolicySynced(p, c)
    \/ \E m \in todo : Send(m)
    \/ Tick
    \/ \E p \in Remote : RegisterPeer(p) \/ QuarantinePeer(p)
    \/ ReloadPolicy
    \/ \E f \in Files : InstallFile(f)
    \/ Reconcile
    \/ \E p \in Peer : ConfirmPeer(p, Required)
    \/ Restart

Spec == Init /\ [][Next]_vars

-----------------------------------------------------------------------------
(* Properties *)

AO == INSTANCE AcceptOnce WITH Window <- ReplayWindow

\* The handlers with their buckets, caps, sweeps, keys and policies implement
\* the promise of AcceptOnce: check_common never lets a message that the node
\* has accepted through again before replay_window_secs have passed.
AcceptsOnce == AO!Spec

\* While a process runs, a message of a peer whose clock is not ahead of this
\* node's is accepted at most once, however often and late it is delivered.
AcceptedAtMostOnce == AO!AtMostOnce

\* A running process only moves to a newer authority list.  Within a version the
\* supernodes stay the same peers, and a peer that has a role keeps it: bundles
\* stage only peers without a role.  The one exception is a peer that the list
\* had both staged and with a role when it was read, which load_authority does
\* not refuse; a confirmation makes it a Client.
AuthorityAdvances ==
    [][ \/ Restart
       \/ auth'.version > auth.version
       \/ /\ auth'.version = auth.version
          /\ Named(auth') = Named(auth)
          /\ \A p \in Peer :
                \/ GetRole(auth, p) \in {NoRole, GetRole(auth', p)}
                \/ p \in loaded.pending \ auth'.pending /\ GetRole(auth', p) = "Client"
      ]_vars

\* The list in force is the one the process started with or one the root key has
\* signed, as it was read: since then bundles and confirmations have left its
\* version and its supernodes alone, except that a confirmation drops repeats.
SignedInForce ==
    /\ loaded = booted \/ SignatureVerifies(loaded)
    /\ auth.version = loaded.version
    /\ auth.supernodes \in {loaded.supernodes, Canonical(loaded.supernodes)}

\* Token bucket: from any second on, the limiter has allowed a peer at most a
\* burst and what the rate gives for the time since.
GatewayRateBounded ==
    \A p \in Peer, t \in 0..now :
        Since(granted, p, t) <= Burst + RefillRate * (now - t)

\* Sliding window: in any AttemptWindow seconds, at most MaxAttempts onboarding
\* attempts with one serial number get past the limiter.
OnboardRateBounded ==
    \A p \in Peer, t \in 0..now :
        now - t < AttemptWindow => Since(passed, p, t) <= MaxAttempts

\* An onboarding nonce is recorded a second time only when it has expired, or
\* after MaxCacheSize other nonces have pushed it out of the cache.
NonceRepeatsNeedPressure ==
    \A i, j \in 1..Len(records) :
        i < j /\ records[i].nonce = records[j].nonce =>
            \/ records[j].at - records[i].at >= NonceTtl
            \/ j - i > MaxCacheSize
=============================================================================
