# TLA+ models of ess-p2p-rs

This directory models the parts of the node that decide something (who is
admitted, which message counts, which job runs, what a replica knows, what a
handler leaves behind), checks them with TLC on small
instances, and proves the most important properties with TLAPS for every value
of the constants. Every definition is translated from the Rust code under
`src/src`; `PROJECT.json` maps each one to its lines.

## 1. The system

A node is one process. It runs

* a **swarm event loop** (`network/runtime/`): one task that takes libp2p events
  one at a time and awaits the handler of each;
* a **control loop** and a **ghost runtime** (`control_loop.rs`, `ghost*.rs`):
  periodic tasks that watch the node's health and change its policy;
* a **compute scheduler** (`compute/`): a loop and one task per WebAssembly job,
  with a queue and results in sled;
* **shared state** behind locks: the world state, the governance engine, the
  replicated (CRDT) state, the authority, the security runtime;
* files: `data/governance.json`, `data/activated_peers.json`,
  `data/crdt_state.json`, the authority file, the ghost store, the caches.

Nodes talk by direct requests, which are signed, wrapped, sent, answered and
dispatched on a *kind*.

Two `NetworkController`s exist in one process. `main.rs` makes one for the
control loop, the dashboard, the compute and the storage layer; `runner.rs` makes
another for the event loop. Only the runner's has a swarm; only main's has a
storage layer. They share the world state, the replicated state and the security
runtime. The event channel of the runner's controller has a receiver that nobody
reads. The modules keep the two apart: `EventLoop` is about the runner's,
`Ghost` has the scores that each of them keeps.

### Inventory

| Part | Source | State | Operations that change it | Modelled |
|---|---|---|---|---|
| Governance engine, store | `governance/` | proposals, votes, supernodes, bootstrap flags, hmac key; the file | `create_proposal`, `record_vote`, `mark_executed`, `update_supernodes`, `set_hmac_key`, save, load | `GovernanceEngine`, `Governance` |
| Onboarding and governance handlers | `network/runtime/events.rs` 633-845, 1016-1111 | engine, activation flags and file, certificates, peer registry | onboard, vote, announce, activation notify, peer seen, authority refresh | `GovernanceNode` |
| Traffic between supernodes | `network_controller.rs` 680-724, `security_runtime.rs` 302-314 | requests on the wire | wrap, send, dispatch | `GovernanceNetwork` |
| Compute scheduler | `compute/scheduler.rs`, `store.rs`, `executor.rs` | channels, queue, results, permits, running table, tasks | submit, cancel, poll, start, finish, save, collect, flush, crash | `ComputeScheduler` |
| CRDT state | `crdt_state.rs`, sync in `control_loop.rs` and `events.rs` | five replicated types per node | updates, merge, sync tick, sync request, load | `Crdt`, `CrdtReplicas` |
| Event loop, pending requests | `network/runtime/`, `network/util.rs`, `network_controller.rs`, `onboarding.rs` 310-405 | the swarm's slot, connection counts, registry, event channel, tables of callers, tasks | connection, denial, closure, Identify, request, send, answer, timeout, retry | `EventLoop`, `WorldState` |
| Bootstrap cache | `bootstrap_cache.rs` | the address file, seen addresses | load, normalise, save, torn write | `BootstrapCache` |
| Storage layer | `storage_layer/` | metadata, cached chunks, DHT | put, get, restart | `ObjectStore` |
| Ghost runtime, control loop | `ghost*.rs`, `control_loop.rs` | engine state, command channel, policy state, spawned senders, peer scores | commands, ticks, events, decisions, panic, zeroize | `GhostEngine`, `GhostPolicy`, `PeerReputation`, `Ghost` |
| Authority | `authority.rs`, `config.rs` | versioned list, roles, confirmations | refresh, bundle, confirm, save | `Authority` |
| Security runtime, gateway limiter | `security_runtime.rs`, `gateway.rs` | replay buckets, nonce cache, limiters, policy, keys | verify, check, record, allow, reload | `RequestGuards`, `SecurityRuntime` |
| Request handlers | `network/runtime/events.rs` 383-875, `governance.rs` | all of the above | one per kind of message | `RequestPipeline` |
| World state | `world_state.rs` | registry, activation, health, event log | upserts, snapshots | registry, activation, health |
| Startup and shutdown | `main.rs` | what is loaded and saved | boot, shutdown save | the loads only |
| Merkle DAG, DHT records, id rotation | `merkle_dag.rs`, `kad_store.rs`, `id_rotation.rs` | hash chain, records, seed | append, save, rotate | no |
| Secret sharing, onion, keys | `sss.rs`, `onion.rs`, `pqc.rs` | none (pure) | split, reconstruct, wrap | the relay's step only |
| Identity, keystore | `identity.rs`, `keystore.rs` | key files | create, load | no |
| Dashboard, web, codec | `dashboard/`, `web.rs`, `codec.rs` | views, registries | read-mostly | no |

### What is hard to test here

`PROJECT.json` lists the hazards at their lines. They fall into five groups.

* **Order and repetition of requests.** Votes after a decision, votes that
  change, announcements of known proposals, states merged late or twice, signed
  messages delivered again, decisions to sleep and to wake that overtake.
* **Two copies of one fact.** The engine's supernodes are those of startup while
  the authority's list is refreshed; `running_jobs` and the semaphore both count
  jobs; a peer is activated only if three places agree; counts, registry and
  connections of a peer are written by four different events.
* **Crashes and files.** Files are written in place and write errors are logged;
  a job leaves the queue before it runs; one file is written as JSON and read as
  bincode; an object's metadata is on disk before its chunks are stored.
* **Waiting.** The scheduler awaits a permit inside a `select!` branch; handlers
  await answers that only their own event loop delivers, and room in a channel
  that nobody empties; a request is on its way before its caller is in the table.
* **Numbers at the edge.** Quorums are float ratios of a frozen count; times are
  u64 differences of a clock that can be set back; equal timestamps; caches,
  buckets and limiters at their caps.

## 2. Modules

| Module | Models | Kind |
|---|---|---|
| `GovernanceEngine` | `GovernanceEngine`'s methods as operators from an engine to an engine | values |
| `Governance` | one engine and its file | state machine |
| `GovernanceNode` | the handlers of a node around the engine | state machine |
| `GovernanceNetwork` | several engines and the requests between them | composition |
| `ComputeScheduler` | handle, loop, tasks, sled | state machine |
| `Crdt` | the replicated types as operators | values |
| `CrdtReplicas` | nodes that update and merge | composition |
| `GhostEngine`, `GhostPolicy`, `PeerReputation` | the ghost's engine, its health score and policy, a peer's score, as operators | values |
| `Ghost` | the engine's task, the runtime, the control loop and the spawned senders | composition |
| `Authority`, `RequestGuards`, `SecurityRuntime` | the signed list, what is remembered of requests, the verifiers and the policy, as operators | values |
| `AcceptOnce` | what the replay check promises | abstract specification |
| `RequestPipeline` | the handler of every kind of signed message | state machine, implements `AcceptOnce` |
| `WorldState`, `BootstrapCache`, `ObjectStore` | the peer registry, the address file, the objects, as operators | values |
| `EventLoop` | the loop, its handlers' waits, the tasks it shares the swarm with | composition |
| `MC*` | instances for TLC | |
| `GovernanceEngineTheorems`, `GovernanceProofs`, `GovernanceNodeProofs`, `ComputeSchedulerProofs`, `CrdtProofs`, `GhostProofs`, `RequestPipelineProofs`, `EventLoopProofs` | theorems | |

### Governance

`GovernanceEngine` has an `Engine` record with the fields of the Rust struct and
one operator per method. The internal call of `evaluate_bootstrap` at the start
of `create_proposal` and `record_vote` is part of the operator, including when
the vote is then refused. `Elapsed` is a subtraction modulo `U64`, because the
release build wraps. The quorum test `count / total >= ratio` becomes
`count * QuorumDen >= total * QuorumNum`.

`Governance` adds the file. `SaveIfPossible` leaves the new snapshot, the old
content, or a torn file whose HMAC fails; without a key it does nothing.
`Restart` loads the file. `ClockChanges` moves the clock either way.

`GovernanceNode` has one action per handler. One task awaits each handler, so a
handler is atomic; the sends it awaits take time, so `Onboard` reads the clock
three times (`now`, `voted`, `later`). Signatures that do not verify lead to an
early return that changes nothing and are left out. The engine of the running
node has no hmac key (`runner.rs` makes it without one), so the handlers never
save.

`GovernanceNetwork` is a kind network: each request arrives, once. It exists to
show what the wrapper does to the kind of a request.

### Compute

The loop of `spawn_scheduler` is `ReceiveSubmit`, `ReceiveCancel`, `Poll` and
`StartJob`; between `Poll` and `StartJob` it holds a job and no other branch
runs, as in the code. A task is `FinishExecution` (the entry of `running_jobs`
goes) and then `SaveResult` (store, collect, event, permit), or
`ExecutionError`. Sled is modelled by how the code uses it: operations take
effect in memory, `Flush` writes a prefix of them, `Crash` returns to what was
flushed. The variables `settled`, `cancelled` and `pending` are history.

### Replicated state

`Crdt` holds the types, `CrdtReplicas` the nodes. Each update has a number;
`seen[r]` is the set of updates node r has made or merged, which is what the
properties are stated against. A state that was sent stays in `sent`, so it can
arrive late, repeatedly or never. The code sends it to the connected peers of
the registry; the model lets any other node receive it, which includes those.
Times are arbitrary, since each node has its own clock. A start always begins
with a new state: `events.rs` 989-991 writes JSON and `main.rs` 394 reads
bincode, which fails on it. `ghost_state` is a second register like
`network_status` and has no variable of its own. The setters of the registers,
the counter and the asset set have no caller in the program yet; they are
modelled as the public operations they are. Sync requests go through the same
wrapper as governance requests (see the finding below), so `ReceiveSync` is the
handler as it is written for the kind `crdt_sync`.

### Ghost

`GhostEngine` has the engine record and one operator per command; each ends in
the transition that writes the health level, as the code does. `GhostPolicy` is
the health score and the policy's decision, `PeerReputation` the score and the
quarantine of a peer. In `Ghost` four actors meet in one bounded channel: the
engine's own loop (`Boot`, `EngineTick`, `EngineCommand`), the runtime's
scheduler, the control loop, and the tasks that the scheduler spawns to send a
decision. A handler of the runtime or the control loop is a list of steps; each
step that sends waits for room, so any other actor can come between two of them.
The spawned senders of one program are counted, not named: they are alike.
`MaxSpawned` bounds, per program, how many of them the scheduler may have under
way when it ticks again. `main` and the runner each have a controller and with it a score of
the peer; the events change the one the code changes. As wired, no `SystemEvent`
is sent to the control loop yet; its handlers are modelled as the interface they
are. The label `ghost.state` is left out: nothing reads it.

### Requests

`RequestPipeline` has one action per kind of message: each checks the policy, the
signature and the replay bucket in the order of the code, and returns early
where the code does. A message is a record of sender, kind, nonce, time and what
its signature covers; a signature verifies or not, which is a fact of the
message. The environment holds every message that was sent and delivers it as
often as it likes, over the sender's connection or that of a peer in `Relays`
that passes it on. A list of supernodes counts how often it names each peer,
since the signature covers the list as it was written and a confirmation sorts
it and drops repeats. `loaded` remembers the list in force as it was read. The instants that the nonce cache and the limiter keep are
records of a second and a number, so that they differ and have an order as
Rust's `Instant`s do; the cache is assumed to have room for one nonce
(`MAX_CACHE_SIZE` is 10,000). `Tick` advances the clock, `Restart` starts a new process,
which loads the file and remembers no request. `AcceptOnce` states the promise
of the replay check without buckets, caps or sweeps: a message that was accepted
is not accepted again before the window has passed.

### Event loop

`EventLoop` has a program counter for the loop. `Take` lends the swarm to the
slot, a handler runs its steps, and the next poll takes the swarm back; that is
why `drop_peer` and `dial_peer_addr` do something only while a handler runs. A
handler that calls another node sends, inserts its entry and waits; the loop
that would deliver the answer is the one that waits. A task does the same but
waits for the slot first. The tables for direct requests, onboarding and DHT
queries are one variable, `pending`, since they are used alike. The address
file is written in place: `SaveFails` and `Crash` leave the old content, the new
or a torn one. A relayed layer that does not deserialize makes `expect` panic on
main's task, so `RelayPanics` is a crash. A call of a handler may also fail
before anything is sent (`CallFails`). The vote of another supernode
(`VoteRequest`) reaches the decision without a call. `ObjectStore` has `put_object` cut off after any of its stages.
Two things come from libp2p and are assumed: connections are reported opened
before closed, and an Identify result before the closure of its connection.

## 3. Runs

Passing runs:

| Run | Shows |
|---|---|
| `governance` | `BootstrapMeansFewSupernodes`, `FileBehindEngine`, `DecisionsAreFinal`, `AutoExecutionOnlyInBootstrap` over every order of calls, save outcomes, restarts and clock changes |
| `governance_node` | `QuorumsExclude`, `NoMissedQuorum`, `CertificateBackedByQuorum`, `ActivationIsStable` over every order of requests with up to three supernodes |
| `compute` | `AtMostMaxTasks`, `NoStaleEntries`, `PendingJobsAccounted`, and that every queued job gets its event (`QueuedJobsSettle`) |
| `crdt` | `Convergence`, `NewestEntryWins`, `AssetsAreObservedRemove`, `CountsAreComplete`, `RegistersAreWrites`, `KnowledgeGrows` over every delivery, late or repeated, and restarts |
| `ghost` | `ErasedStaysErased`, `HealthMirrorsEngine`, `ZeroizedIsFinal`, and that a violation isolates the node (`ViolationIsolates`) and the engine comes to know its peers, and to sleep exactly if it has none (`EngineFollowsPeers`), over every order of commands, ticks and events |
| `request_pipeline` | that the handlers implement `AcceptOnce` (`AcceptsOnce`, `AcceptedAtMostOnce`), that the authority only advances and its list is the one that was read (`AuthorityAdvances`, `SignedInForce`), and the limits (`GatewayRateBounded`, `OnboardRateBounded`, `NonceRepeatsNeedPressure`) |
| `event_loop` | `ConnectionsRecorded`, `PendingMatchesCallers`, `AddressesKept`, `ReadsSeeTheLastPut`, and that every call returns (`CallsReturn`) |

Each but `crdt` and `event_loop` also checks its type invariant; these two have
theirs proved (`CrdtTypeCorrect`, and the invariants of `EventLoopProofs`).

Runs in which the code disagrees with what the repository says of it:

| Run | Said | Done |
|---|---|---|
| `bootstrap_vote` | README 571: in bootstrap mode "a single vote is sufficient" | the proposal is born executed, so the vote on it is refused and no certificate is stored |
| `proposals_reach_supernodes` | README 568: a proposal "broadcasts to all supernodes" | the request is wrapped as kind `message` and the receiver only acknowledges it |
| `jobs_survive_restarts` | README 472: "compute tasks survive node restarts" | a job is taken from the disk queue before it runs |
| `cancelled_jobs_stop` | `scheduler.rs` 92: cancels a running or queued job | a queued job stays queued, a running one never sees the token |
| `registries_converge` | `crdt_state.rs` 10: same updates, same state | equal times have no tie-break in `PeerRegistry::merge` |

### Bounds

* `governance`: two supernodes, one target, one proposal, times 0..2 with a
  bootstrap period of 1, u64 as 16 values. Two supernodes are the threshold of
  bootstrap mode; the clock passes the deadline and can be set back. Methods
  touch one proposal at a time, so one suffices.
* `governance_node`: three supernodes, because that is the first number with a
  quorum strictly between one and all (66%); two proposal ids, so that an
  announced and a local proposal of one target coexist; times 0..1 with timeout
  0 and u64 as 8 values, so that a lone vote expires, and wraps. The supernodes
  other than the local one, and the ids, are symmetric: no property tells them
  apart.
* `compute`: two jobs, two permits, three submissions (so one job is submitted
  twice), one cancellation, one crash. A result limit of one makes collection
  happen.
* `crdt`: two nodes, one peer, one asset, five updates of which two are the
  boots, two states sent, one restart, times 1..2. Three further updates are an
  add, a concurrent add and a remove, or two sightings of a peer and one more.
  1,505,955 states.
* `ghost`: peer counts 0 and 1 (no peers and some, all that sleeping depends on),
  a channel of one command so that every sender waits, one idle cycle, two
  events. When the scheduler ticks again, one sender of a decision to sleep may be
  under way and none of the other programs: so a decision to sleep can reach the
  engine after a later one to wake, the order that matters to
  `EngineFollowsPeers`. 126,878 states.
* `request_pipeline`: three peers (one local), three nonces, two per bucket, one
  tracked peer, two cached nonces, two attempts, a burst of one, times 0..3 with
  a window of one. Every cap is below what can arrive, so each is hit and swept.
  One peer passes on messages of others. The authority files are an unsigned
  first list; a signed one that names a peer twice and stages a peer that has a
  role; one edited after it was signed; and none.
  Seven scenarios fix which messages may be sent and which changes happen, so
  that each kind of message meets each guard; their union is the initial
  states. 422,734 states.
* `event_loop`: two peers, two tasks, two attempts (three in the code), one
  record per file, an event channel of six (2048 in the code), which is enough
  to handle a few events and small enough to fill. Eleven scenarios: connections
  with verdicts; addresses with failed writes; addresses with a crash; a file to
  normalise; a torn file with an environment address and a relay; a torn file
  with Identify; onboarding and requests; two votes; a node not activated; storage attached
  with three puts, reads and a crash; storage not attached. 321,336 states.

Counters are bounded in the guards (`MaxSubmits`, `MaxCancels`, `MaxCrashes`,
`MaxUpdates`, `MaxSyncs`, `MaxRestarts`); the runs with such bounds may stop and
do not check deadlock. `governance`, `governance_node` and `ghost` do check it.
`event_loop` does not: once the event channel is full, the loop waits for room
for ever, and that is what the code does.

### Fairness

Safety runs assume none. `compute` assumes weak fairness of the loop's branches
(the ticker fires every half second and `select!` chooses at random among ready
branches) and of the tasks (an execution returns by its timeout). Calls,
cancellations, flushes and crashes are not fair. `ghost` assumes weak fairness
of the engine's loop and strong fairness of the senders: the runtime runs every
ready task, and a tokio channel serves waiting senders in the order they came,
so one that finds room again and again gets it. Ticks of the engine, events and
peer changes are not fair. `event_loop` assumes weak fairness of the loop and of
each task: a task that is not blocked runs, and a timeout expires. Answers,
connections and writes are not fair. `request_pipeline` assumes none and that
the clock does not go back. `proposals_reach_supernodes`
assumes that each request is handled, the most favourable network there is.

## 4. Proofs

`tlapm` checks all theorems; the assumptions are the named `ASSUME`s of the
modules (positive ratio with numerator above one half, positive limits, values
like `NoProposal` outside the sets they mark).

* **Governance** (`GovernanceProofs`, on lemmas of `GovernanceEngineTheorems`):
  the inductive invariant is `TypeOK`, `BootstrapMeansFewSupernodes` and
  `FileBehindEngine`. Each method makes `Progress`, `Progress` is transitive, so
  a file that was behind stays behind. `DecisionsAreFinal` is the same fact read
  as an action property.
* **Handlers** (`GovernanceNodeProofs`): the invariant adds `VotesCounted`: a
  proposal's voters are supernodes of the engine and its frozen count is their
  number. Without it nothing bounds yes plus no by the count. Then two opposite
  quorums would need more than all votes, for any ratio above one half. A new
  vote is followed by `Settle`, so no quorum stays open; a certificate is the
  yes votes of a proposal that was approved.
* **Scheduler** (`ComputeSchedulerProofs`): the invariant adds `PermitsBalance`
  (free permits plus tasks are `MaxConcurrent`) and distinct task numbers, from
  which the bound on tasks follows; `NoStaleEntries` and `PendingJobsAccounted`
  are inductive beside them.
* **Replicas** (`CrdtProofs`): the invariant says of every state, held or sent,
  that it `Agrees` with the updates it has seen, and that update numbers are
  distinct. For the registry, a merge of two newest entries is a newest entry of
  the union. For the asset set, entries are added tags, removed tags are exactly
  those that seen removals had observed, and every element has a live tag. The
  distinct numbers are needed for a removal: two elements never share a tag.
  `KnowledgeGrows` follows action by action.
  Convergence needs more: that clock and counter are a *function* of the updates
  seen. `VInv` says that some map from update numbers to values exists such that
  every clock and every count, held or sent, is the greatest value written by
  the updates seen, and the known peers are those with a sighting. The map is
  extended by one value at an update, and a merge of two greatest values is the
  greatest of the union; two states with the same updates then have the same
  greatest values (`NodesConverge`). It holds across restarts too, when a node
  counts from zero again. `CInv` says, while no node has started anew, that the
  increments of a node that any state has seen are its first k ones, and the
  count is their number; two such prefixes are comparable, so a merge takes the
  longer one (`CountsComplete`). `RInv` says of every state, held or sent, that
  its register is one of the writes seen; a merge keeps one of two registers
  whole (`RegistersWhole`).
  Three theorems are about `Merge` itself, for any well-typed states.
  `MergeCommutes`: the order of two states matters only to the first times in
  the set of known peers and to writes with the same time (and, for the status,
  the same node). `MergeAssociates`: three states give the same result
  however they are grouped, and of the asset set the same elements (tags that
  were removed may stay listed under one grouping and not the other).
  `MergeIdempotent`: a merge of
  a state with itself changes nothing, if every listed asset has a live tag,
  which `AssetsAreObservedRemove` says of every reachable state.
* **Ghost** (`GhostProofs`): the invariant is `GhostTypeOK`, `ErasedStaysErased`
  and `HealthMirrorsEngine`. One lemma per command says that the engine after it
  has the health level of its new state and, if it was erased, is erased still.
  `ZeroizedIsFinal` follows from the same lemmas.
* **Requests** (`RequestPipelineProofs`): five invariants, one per guard.
  `ReplayInv` says that every message accepted within the window is still in its
  sender's bucket: sweeps and pruning remove only older ones, a full bucket
  refuses instead of forgetting, and a full table only starts a sweep. From it every step is a step of
  `AcceptOnce` or a stutter (`NodeImplementsAcceptOnce`), and the abstract
  invariant that equal messages lie a window apart gives
  `MessagesAcceptedOnce`. `GateInv` says that what was granted plus the tokens
  left is paid for by the burst and the time since. `OnboardInv` says that each
  attempt let through since a second of the window is among the remembered
  instants; the numbers of the attempts are an injection into a set that the
  limiter keeps below its cap, so there are at most `MaxAttempts`
  (`OnboardRateIsBounded`). `CacheInv` says that each of the last `MaxCacheSize`
  recordings is in the nonce cache until it expires: if the oldest entry of a full
  cache were one of them, the numbers of all entries would lie between it and the
  last, fewer than the cache holds (`NonceRepeatsAreRare`). That a full cache has
  an oldest entry is the least-element principle of the natural numbers.
  `PipelineTypes` combines the invariants: types, and every cap. `AuthInv` adds to
  `SignedInForce` that a staged peer has no role unless the list had it staged
  when it was read. That is the exception in `AuthorityAdvances`: nothing stops
  a file from staging a peer that has a role, and a confirmation then makes it a
  Client.
  `BundlePeersDecideNothing` is about the operators: the peers of a config
  bundle never change a decision of `enforce_peer`.
* **Event loop** (`EventLoopProofs`): `LoopInv` types the loop's program counter
  (a step about a peer has one). `ObjectsInv` ties metadata and cached pieces to
  the put they came from; `CacheInv` says that a file that parses is normal and
  keeps every newest address that no failed write has lost, from a lemma that
  the truncating write drops a peer only for those before it, and that a peer
  whose address an earlier process lost has not been seen by this one, so that
  its next Identify writes it again; `BooksInv` adds to `ConnectionsRecorded`
  that a connection being established or turned away is there; `CallsInv` adds to
  `PendingMatchesCallers` that request numbers are below the counter and no two
  callers share one. `HandlersAreNeverAnswered` follows: while a handler waits,
  its entry stays in the table, since only its own loop would remove it.

The proofs name the prover `Zenon` in steps without arithmetic, where it is the
quicker one. Every safety property that a passing run checks has a theorem.

Only model-checked: liveness (`QueuedJobsSettle`, `ViolationIsolates`,
`EngineFollowsPeers`, `CallsReturn`), since the prover reaches neither fairness
nor `ENABLED`; and the five disagreements, which are counterexamples.

## 5. What modelling showed of the code as wired

Facts a reader of the models needs; each is how the actions are, not a run of
its own.

* A handler that sends a request and awaits the answer (config sync in Identify,
  announce and vote in onboarding, DHT reads) always waits its whole timeout: the
  loop that would complete it is waiting. `HandlersAreNeverAnswered` proves it.
* A request is sent before its caller is in the table; an answer in between is
  dropped. `OutboundFailure` completes nobody, so a failed send also waits.
* Nobody reads the event channel of the runner's controller. After 2048 events
  the loop waits for room for ever (`Stalled`).
* A peer that is turned away is not disconnected, although README 450 says it is
  dropped: nothing reads `drop_on_policy_denial`. The denial lowers the peer's
  count and the closure lowers it again. Nothing reads the counts either;
  `ConnectionsRecorded` asks for exact counts of the peers never turned away.
* A relayed onion layer that does not deserialize ends the process
  (`RelayPanics`).
* An address that a failed or torn write lost stays lost while the process runs,
  since `seen_addrs` has it; the first Identify of the peer in a later process
  makes it good, even if the file was torn (`AddressesKept`).
* `trusted` of a registry entry is never set. The registry starts empty after a
  restart: the snapshot restores labels and counters, not peers.
* The storage layer is attached to main's controller, requests arrive at the
  runner's: as wired they are not answered. The scenario with storage attached
  is the layer as it would be used.
* Config requests inside a direct message are answered without a signature, so
  the sync over direct messages does not complete. The node's own onboarding key
  has 36 bytes where 32 are required, so it is refused.
* At boot the authority file is loaded unverified, and promotions of peers are
  not saved; `SignedInForce` therefore speaks of what the process started with or
  of a signed list. A confirmation sorts the supernodes and drops repeats, so a
  signed list with a repeat no longer verifies after it; nothing verifies the
  list in memory again, and `SignedInForce` speaks of the list as it was read.
  The environment list `AUTHORITY_SUPERNODES` is not reached,
  because a default file is written first.
* The replay buckets live in memory: the promise of `AcceptOnce` is one of a
  process, and its `Restart` forgets.
* `enforce_peer` is `enforce` for the action Connect; `reload_policy` parses
  `policy_inner.toml` as JSON and drops the peers of a bundle.
* The shutdown save needs a signal that is not wired, so a stop is a crash.

## 6. Not modelled

* **Cryptography, encodings, wire formats**: signatures, hashes, onion layers and
  frames are values that match or do not; there is no control in them.
* **Secret sharing**: a pure algorithm over GF(256). TLC cannot enumerate it, and
  over a smaller field it would be another algorithm.
* **DHT record persistence** (`kad_store.rs`): Kademlia is built with its default
  store, so the branch that saves a record is not reached.
* **Merkle DAG, id rotation, event log, snapshots**: each is written by one task
  and read by none that decides on it; what a rotation sends to the engine is an
  action of `Ghost`.
* **Compute requests over the network**: the handlers validate and call the
  handle, whose calls `ComputeScheduler` has.
* **Dashboard, web registry**: read-only views, a map, and an HTTP server.
* **Startup, key files, legacy address file, erasure coding**: sequential code
  that runs once, or that `main.rs` never enables. What a start loads is the
  `Init` or the restart of the modules above.
* Five hazards of `PROJECT.json` have no property; their notes say why.
