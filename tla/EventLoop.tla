----------------------------- MODULE EventLoop -----------------------------
(***************************************************************************)
(* The event loop of one node (src/network/runtime/events.rs) and the      *)
(* tasks it shares the swarm with.  The loop takes the swarm out of the    *)
(* controller, waits for the next event, puts the swarm back and runs the  *)
(* handler of the event to its end before it takes the swarm again.  Other *)
(* tasks find the swarm only while a handler runs, and answers to requests *)
(* reach their callers only through the loop: a handler that waits for an  *)
(* answer waits for something that only its own loop could deliver.        *)
(*                                                                         *)
(* A handler is cut into steps where it may wait: for room in the channel  *)
(* of the controller that runner.rs makes, whose receiver nobody reads, or *)
(* for the answer to a request.  What the handlers of requests verify and  *)
(* decide is the matter of RequestPipeline and GovernanceNode.             *)
(***************************************************************************)
EXTENDS WorldState, BootstrapCache, ObjectStore, Sequences

CONSTANTS
    NoPeer,
    Supernodes,     \* the other supernodes of the authority list
    AddrLists,      \* the listen addresses an Identify event may carry
    Capacity,       \* the capacity of the event channel, 2048
    Tries,          \* max_retries of send_onboarding_request, 3
    Task,           \* bound: the background tasks that run at a time
    Scenarios       \* bounds: what may happen, and what a node starts from

\* What a scenario gives a number of: events of the swarm, and changes.
Kinds == {"open", "identify", "request", "onboard", "vote", "relay", "put", "get",
          "verdict", "fault", "crash"}

ASSUME LoopAssumption ==
    /\ Supernodes \subseteq Peer
    /\ NoPeer \notin Peer
    /\ IsFiniteSet(Peer)
    /\ AddrLists \subseteq Seq(Addr)
    /\ Capacity \in Nat \ {0} /\ Tries \in Nat \ {0}
    /\ Task # {}
    /\ Scenarios \subseteq [budget : [Kinds -> Nat], env : SUBSET Peer,
                            file : Records \cup {Torn}, attached : BOOLEAN,
                            activated : SUBSET Peer]

VARIABLES
    loop,           \* where the loop is: its step and what the step needs
    live,           \* the connections to each peer the loop has been told of
    counts,         \* RuntimeState.connected_counts, 0 without an entry
    registry,       \* WorldState.peer_registry
    verdict,        \* what enforce_peer says of each peer
    channel,        \* the number of events in the controller's channel
    spawned,        \* the tasks of push_ghost_sync that have yet to send
    task,           \* the other tasks
    out,            \* requests and queries whose answer has not been handled
    pending,        \* pending_direct, pending_onboard and kad_pending
    nextId,         \* the id of the next request
    seen,           \* RuntimeState.seen_addrs
    file,           \* the bootstrap cache
    store,          \* the storage layer
    env,            \* the peers of BOOTSTRAP_P2P_MULTIADDRS
    attached,       \* the controller has a storage layer
    activated,      \* the peers is_peer_activated holds for
    budget,         \* what is left of the scenario's events and changes
    \* history
    denied,         \* the peers of which this process turned a connection away
    abandoned,      \* requests whose caller timed out and whose entry is still there
    last,           \* the newest address to be saved for each peer, by any process
    lost,           \* whether a write that failed or was cut off has lost it: in
                    \* this process, in an earlier one, or not ("kept")
    tried,          \* the data of the last put of each object that left its metadata
    stored          \* the same, if that put succeeded in this process

books == <<live, counts, registry, denied>>
channels == <<channel, spawned>>
calls == <<task, out, pending, nextId, abandoned>>
addresses == <<seen, file, last, lost>>
objects == <<store, tried, stored>>
settings == <<env, attached, activated>>
vars == <<loop, books, verdict, channels, calls, addresses, objects, settings, budget>>

Verdicts == {"allow", "silent", "reported"}   \* reported: as an AuthorityViolation

-----------------------------------------------------------------------------
(* The loop's own state *)

Waits == {"established", "denied", "closed", "emit"}    \* steps that need room

Steps == Waits \cup {"take", "poll", "addrs", "call", "wait", "decide"}

\* The step, the peer it is about, how many events or calls are left, the
\* request it waits for, the addresses to register, and what follows the calls.
LoopStates == [pc : Steps, peer : Peer \cup {NoPeer}, left : Nat, id : Nat,
               addrs : Seq(Addr), then : {"take", "decide"}]

AtTake == [pc |-> "take", peer |-> NoPeer, left |-> 0, id |-> 0, addrs |-> <<>>, then |-> "take"]
At(pc, p) == [AtTake EXCEPT !.pc = pc, !.peer = p]
AtEmit(n) == IF n = 0 THEN AtTake ELSE [AtTake EXCEPT !.pc = "emit", !.left = n]

\* A handler that makes n more calls, waits for each, and then goes on.
AtCalls(n, then) ==
    IF n = 0 THEN [AtTake EXCEPT !.pc = then]
    ELSE [AtTake EXCEPT !.pc = "call", !.left = n, !.then = then]

InHandler == loop.pc \notin {"take", "poll"}

\* The controller's slot holds the swarm.
InSlot == loop.pc # "poll"

Full == channel = Capacity

\* The handler waits for room in a channel that nobody empties.
Stalled == loop.pc \in Waits /\ Full

\* consume_event
ConsumeEvent == ~Full /\ channel' = channel + 1

IncConnectionCount(c, p) == [c EXCEPT ![p] = @ + 1]

DecConnectionCount(c, p) == [c EXCEPT ![p] = IF @ > 1 THEN @ - 1 ELSE 0]

RoleOf(p) == IF p \in Supernodes THEN "supernode" ELSE "peer"

-----------------------------------------------------------------------------
(* The tasks *)

\* A task makes its calls one after the other.
CallKinds == {"onboard", "policy", "notify", "publish"}

TaskStates == [st : {"idle", "seek", "ready", "sent", "wait", "answered"},
               prog : Seq(CallKinds), tries : Nat, id : Nat]

IdleTask == [st |-> "idle", prog |-> <<>>, tries |-> 0, id |-> 0]

Starting(prog) ==
    IF prog = <<>> THEN IdleTask
    ELSE [st   |-> IF Head(prog) = "publish" THEN "ready" ELSE "seek",
          prog |-> prog, tries |-> Tries, id |-> 0]

\* What a task does after a call that failed: another attempt, or the next call.
AfterFailure(r) ==
    IF Head(r.prog) = "onboard" /\ r.tries > 1
    THEN [r EXCEPT !.st = "seek", !.tries = @ - 1, !.id = 0]
    ELSE Starting(Tail(r.prog))

IsIdle(t) == task[t].st = "idle"

\* tokio::spawn
Spawn(prog) == \E t \in Task : IsIdle(t) /\ task' = [task EXCEPT ![t] = Starting(prog)]

\* The background task of runner.rs: onboarding at each bootstrap peer, then
\* sync_policy_with_supernode.
BootProgram(n) == [i \in 1..(2 * n) |-> IF i <= n THEN "onboard" ELSE "policy"]

BootTasks(peers) ==
    LET t == CHOOSE t \in Task : TRUE
    IN  [u \in Task |-> IF u = t THEN Starting(BootProgram(Cardinality(peers))) ELSE IdleTask]

Waiting(t) == task[t].st = "wait"

\* The requests whose caller still waits.
WaitedFor == {task[t].id : t \in {t \in Task : Waiting(t)}}
                \cup (IF loop.pc = "wait" THEN {loop.id} ELSE {})

-----------------------------------------------------------------------------
(* Start *)

\* History: a file has the newest address of a peer, if it has one, or else as
\* many peers before it as the file may hold.
Kept(f, newest, p) ==
    \/ newest[p] = NoAddr
    \/ /\ f # Torn
       /\ \/ f[p] = newest[p]
          \/ f[p] = NoAddr /\ Cardinality(Before(f, p)) >= MaxRecords

\* bootstrap_runtime and runner.rs up to run_event_loop, in a new process:
\* push_ghost_signal and push_ghost_sync have begun to fill the channel.
StartsWith(f, kept) ==
    /\ loop' = AtTake
    /\ live' = [p \in Peer |-> 0] /\ counts' = [p \in Peer |-> 0]
    /\ registry' = [p \in Peer |-> Unknown]
    /\ channel' = 1 /\ spawned' = 1
    /\ task' = BootTasks(LoadBootstrapAddrs(env, f))
    /\ out' = {} /\ pending' = {} /\ nextId' = 1
    /\ seen' = [p \in Peer |-> {}]
    /\ file' = AfterRead(f)
    /\ store' = Reopened(store, kept)
    /\ denied' = {} /\ abandoned' = {}
    /\ last' = last
    /\ lost' = [p \in Peer |-> IF lost[p] = "here" \/ ~Kept(f, last, p) THEN "earlier" ELSE lost[p]]
    /\ tried' = [o \in Object |-> IF o \in kept THEN tried[o] ELSE store.disk[o]]
    /\ stored' = NoObjects
    /\ UNCHANGED <<verdict, settings>>

Init ==
    \E s \in Scenarios :
        /\ loop = AtTake
        /\ live = [p \in Peer |-> 0] /\ counts = [p \in Peer |-> 0]
        /\ registry = [p \in Peer |-> Unknown]
        /\ verdict = [p \in Peer |-> "allow"]
        /\ channel = 1 /\ spawned = 1
        /\ task = BootTasks(LoadBootstrapAddrs(s.env, s.file))
        /\ out = {} /\ pending = {} /\ nextId = 1
        /\ seen = [p \in Peer |-> {}]
        /\ file = AfterRead(s.file)
        /\ store = EmptyStore
        /\ env = s.env /\ attached = s.attached /\ activated = s.activated
        /\ budget = s.budget
        /\ denied = {} /\ abandoned = {}
        /\ last = ReadRecords(AfterRead(s.file))
        /\ lost = [p \in Peer |-> "kept"]
        /\ tried = NoObjects /\ stored = NoObjects

Spends(kind) == budget[kind] > 0 /\ budget' = [budget EXCEPT ![kind] = @ - 1]

-----------------------------------------------------------------------------
(* The events of the swarm, and the first step of their handlers *)

Take ==
    /\ loop.pc = "take"
    /\ loop' = [AtTake EXCEPT !.pc = "poll"]
    /\ UNCHANGED <<books, verdict, channels, calls, addresses, objects, settings, budget>>

\* A task has to be free for the handlers that spawn one.
Room == \E t \in Task : IsIdle(t)

ConnectionEstablished(p) ==
    /\ loop.pc = "poll" /\ Spends("open") /\ Room
    /\ live' = [live EXCEPT ![p] = @ + 1]
    /\ counts' = IncConnectionCount(counts, p)
    /\ loop' = At("established", p)
    /\ UNCHANGED <<registry, denied, verdict, channels, calls, addresses, objects, settings>>

ConnectionClosed(p) ==
    /\ loop.pc = "poll" /\ live[p] > 0
    /\ live' = [live EXCEPT ![p] = @ - 1]
    /\ counts' = DecConnectionCount(counts, p)
    /\ loop' = At("closed", p)
    /\ UNCHANGED <<registry, denied, verdict, channels, calls, addresses, objects, settings, budget>>

\* identify::Event::Received comes over a connection that is open.
Identify(p, addrs) ==
    /\ loop.pc = "poll" /\ Spends("identify") /\ live[p] > 0
    /\ registry' = UpsertPeerState(registry, p, RoleOf(p), TRUE, Keep)
    /\ loop' = [At("addrs", p) EXCEPT !.addrs = addrs]
    /\ UNCHANGED <<live, counts, denied, verdict, channels, calls, addresses, objects, settings>>

\* A gateway, web, config, direct or storage request whose handler reports n
\* events, of AuthorityViolation and GatewayAudit, and waits for nothing else.
Request(n) ==
    /\ loop.pc = "poll" /\ Spends("request")
    /\ loop' = AtEmit(n)
    /\ UNCHANGED <<books, verdict, channels, calls, addresses, objects, settings>>

\* An onboarding request that is verified: the proposal goes to every other
\* supernode, then this node's vote does.
OnboardRequest ==
    /\ loop.pc = "poll" /\ Spends("onboard") /\ Room
    /\ loop' = AtCalls(2 * Cardinality(Supernodes), "decide")
    /\ UNCHANGED <<books, verdict, channels, calls, addresses, objects, settings>>

\* The vote of another supernode; its handler waits for nothing.
VoteRequest ==
    /\ loop.pc = "poll" /\ Spends("vote") /\ Room
    /\ loop' = AtCalls(0, "decide")
    /\ UNCHANGED <<books, verdict, channels, calls, addresses, objects, settings>>

\* handle_onion_relay answers first and then passes the inner layer on, in a
\* request that no caller waits for.
OnionRelay(forwards) ==
    /\ loop.pc = "poll" /\ Spends("relay")
    /\ loop' = AtTake
    /\ out' = IF forwards THEN out \cup {nextId} ELSE out
    /\ nextId' = IF forwards THEN nextId + 1 ELSE nextId
    /\ UNCHANGED <<books, verdict, channels, task, pending, abandoned, addresses, objects, settings>>

\* The same when the inner layer does not deserialize: expect panics, on the task
\* of main, and the process is started again.
RelayPanics(kept) ==
    /\ loop.pc = "poll" /\ Spends("relay")
    /\ StartsWith(file, kept)

\* The answer to a request or query: complete_pending_direct_request,
\* complete_onboard_response or complete_kad_get_query.  An answer whose entry
\* is not there is dropped.
Woken(t, id) ==
    IF Waiting(t) /\ task[t].id = id THEN [task[t] EXCEPT !.st = "answered"] ELSE task[t]

\* Mutant: the caller is woken and its entry stays.
AnswerKeepsEntry(id) ==
    /\ loop.pc = "poll"
    /\ out' = out \ {id}
    /\ task' = IF id \in pending THEN [t \in Task |-> Woken(t, id)] ELSE task
    /\ loop' = AtTake
    /\ UNCHANGED <<books, verdict, channels, pending, abandoned, nextId, addresses, objects, settings, budget>>

Answer(id) ==
    /\ loop.pc = "poll"
    /\ out' = out \ {id}
    /\ pending' = pending \ {id}
    /\ abandoned' = abandoned \ {id}
    /\ task' = IF id \in pending THEN [t \in Task |-> Woken(t, id)] ELSE task
    /\ loop' = AtTake
    /\ UNCHANGED <<books, verdict, channels, nextId, addresses, objects, settings, budget>>

\* StorageLayer::handle_request of a peer that enforce lets through.  Without a
\* storage layer the request is left unanswered.
StoragePut(o, d, stage) ==
    /\ loop.pc = "poll" /\ Spends("put") /\ stage \in Stages(d)
    /\ loop' = AtTake
    /\ store' = IF attached THEN PutObject(store, o, d, stage) ELSE store
    /\ IF attached /\ d \notin TooLarge /\ stage # -2
       THEN /\ tried' = [tried EXCEPT ![o] = d]
            /\ stored' = [stored EXCEPT ![o] = IF PutSucceeds(d, stage) THEN d ELSE NoData]
       ELSE UNCHANGED <<tried, stored>>
    /\ UNCHANGED <<books, verdict, channels, calls, addresses, settings>>

StorageGet(o) ==
    /\ loop.pc = "poll" /\ Spends("get")
    /\ loop' = IF attached /\ NeedsDht(store, o) THEN AtCalls(1, "take") ELSE AtTake
    /\ UNCHANGED <<books, verdict, channels, calls, addresses, objects, settings>>

-----------------------------------------------------------------------------
(* The further steps of the handlers *)

\* sync_with_world ends in push_ghost_sync.
SyncWithWorld == spawned' = spawned + 1

TurnsAway(p, reg) ==
    /\ counts' = DecConnectionCount(counts, p)
    /\ denied' = denied \cup {p}
    /\ registry' = SetPeerConnected(reg, p, FALSE)
    /\ loop' = AtTake

\* ConnectionEstablished, once PeerConnected is in the channel.  A connection
\* that enforce_peer refuses is not closed.
Established ==
    LET p == loop.peer
        reg == UpsertPeerState(registry, p, RoleOf(p), TRUE, registry[p].trusted)
    IN  /\ loop.pc = "established" /\ ConsumeEvent
        /\ \/ /\ verdict[p] = "allow"
              /\ registry' = AddRoute(reg, p)
              /\ SyncWithWorld
              /\ IF p \in activated THEN UNCHANGED task ELSE Spawn(<<"onboard">>)
              /\ loop' = AtTake
              /\ UNCHANGED <<counts, denied>>
           \/ /\ verdict[p] = "silent"
              /\ TurnsAway(p, reg)
              /\ UNCHANGED <<spawned, task>>
           \/ /\ verdict[p] = "reported"
              /\ registry' = reg
              /\ loop' = At("denied", p)
              /\ UNCHANGED <<counts, denied, spawned, task>>
        /\ UNCHANGED <<live, verdict, out, pending, nextId, abandoned, addresses, objects, settings, budget>>

\* The rest of it, once AuthorityViolation is in the channel.
Denied ==
    /\ loop.pc = "denied" /\ ConsumeEvent
    /\ TurnsAway(loop.peer, registry)
    /\ UNCHANGED <<live, verdict, spawned, calls, addresses, objects, settings, budget>>

\* Mutant: the route of a peer that has gone stays.
ClosedKeepsRoute ==
    /\ loop.pc = "closed" /\ ConsumeEvent
    /\ registry' = SetPeerTrusted(SetPeerConnected(registry, loop.peer, FALSE), loop.peer, FALSE)
    /\ SyncWithWorld
    /\ loop' = AtTake
    /\ UNCHANGED <<live, counts, denied, verdict, calls, addresses, objects, settings, budget>>

\* ConnectionClosed, once PeerDisconnected is in the channel.
Closed ==
    LET p == loop.peer
        reg == SetPeerTrusted(SetPeerConnected(registry, p, FALSE), p, FALSE)
    IN  /\ loop.pc = "closed" /\ ConsumeEvent
        /\ registry' = RemoveRoute(reg, p)
        /\ SyncWithWorld
        /\ loop' = AtTake
        /\ UNCHANGED <<live, counts, denied, verdict, calls, addresses, objects, settings, budget>>

Emit ==
    /\ loop.pc = "emit" /\ ConsumeEvent
    /\ loop' = AtEmit(loop.left - 1)
    /\ UNCHANGED <<books, verdict, spawned, calls, addresses, objects, settings, budget>>

\* register_peer_addr for the next address of an Identify event.  An address
\* that was seen before is not saved again; an error of the save is ignored.
IsNew(p, a) == a \in Public /\ a \notin seen[p]

NextAddr == [loop EXCEPT !.addrs = Tail(@)]

RegisterPeerAddr ==
    LET p == loop.peer
        a == Head(loop.addrs)
    IN  /\ loop.pc = "addrs" /\ loop.addrs # <<>>
        /\ loop' = NextAddr
        /\ IF IsNew(p, a)
           THEN /\ seen' = [seen EXCEPT ![p] = @ \cup {a}]
                /\ file' = SaveBootstrapPeerAddr(file, p, a)
                /\ last' = [last EXCEPT ![p] = a]
                /\ lost' = [lost EXCEPT ![p] = "kept"]
           ELSE UNCHANGED addresses
        /\ UNCHANGED <<books, verdict, channels, calls, objects, settings, budget>>

\* The same, when the write fails, before or after it has truncated the file.
SaveFails(left) ==
    LET p == loop.peer
        a == Head(loop.addrs)
    IN  /\ loop.pc = "addrs" /\ loop.addrs # <<>> /\ IsNew(p, a) /\ Spends("fault")
        /\ loop' = NextAddr
        /\ seen' = [seen EXCEPT ![p] = @ \cup {a}]
        /\ file' = left
        /\ last' = [last EXCEPT ![p] = a]
        /\ lost' = [q \in Peer |-> IF Kept(left, last', q) THEN "kept"
                                  ELSE IF q = p \/ lost[q] = "kept" THEN "here" ELSE lost[q]]
        /\ UNCHANGED <<books, verdict, channels, calls, objects, settings>>

\* Identify ends in send_config_sync.
AddrsDone ==
    /\ loop.pc = "addrs" /\ loop.addrs = <<>>
    /\ loop' = AtCalls(1, "take")
    /\ UNCHANGED <<books, verdict, channels, calls, addresses, objects, settings, budget>>

\* A call of a handler: send_direct_message or get_chunk_from_dht.  The swarm is
\* in the slot, and nobody takes it before the entry is in the table.
Call ==
    /\ loop.pc = "call"
    /\ loop' = [loop EXCEPT !.pc = "wait", !.id = nextId]
    /\ out' = out \cup {nextId}
    /\ pending' = pending \cup {nextId}
    /\ nextId' = nextId + 1
    /\ UNCHANGED <<books, verdict, channels, task, abandoned, addresses, objects, settings, budget>>

\* Its request cannot be built.
CallFails ==
    /\ loop.pc = "call"
    /\ loop' = AtCalls(loop.left - 1, loop.then)
    /\ UNCHANGED <<books, verdict, channels, calls, addresses, objects, settings, budget>>

\* Mutant: the handler waits for the answer without a timeout.
CallEndsWhenAnswered ==
    /\ loop.pc = "wait" /\ loop.id \notin pending
    /\ loop' = AtCalls(loop.left - 1, loop.then)
    /\ UNCHANGED <<books, verdict, channels, calls, addresses, objects, settings, budget>>

\* Its timeout, of ten or five seconds.  The entry stays in the table.
CallTimesOut ==
    /\ loop.pc = "wait"
    /\ loop' = AtCalls(loop.left - 1, loop.then)
    /\ abandoned' = abandoned \cup {loop.id}
    /\ UNCHANGED <<books, verdict, channels, task, out, pending, nextId, addresses, objects, settings, budget>>

\* The end of an onboarding request or a vote: when the quorum is there a task
\* sends the certificate to the peer and publishes it.
Decide(approved) ==
    /\ loop.pc = "decide"
    /\ loop' = AtTake
    /\ IF approved THEN Spawn(<<"notify", "publish">>) ELSE UNCHANGED task
    /\ UNCHANGED <<books, verdict, channels, out, pending, nextId, abandoned, addresses, objects, settings, budget>>

LoopStep ==
    \/ Take \/ Established \/ Denied \/ Closed \/ Emit
    \/ RegisterPeerAddr \/ AddrsDone \/ Call \/ CallFails \/ CallTimesOut
    \/ \E approved \in BOOLEAN : Decide(approved)

-----------------------------------------------------------------------------
(* The steps of the tasks *)

\* What a step of task t that only changes the task leaves as it is.
OnlyTask ==
    UNCHANGED <<loop, books, verdict, channels, addresses, objects, settings, budget>>

\* send_onboarding_request finds no profile or no key pair, or cannot sign an
\* attempt, and gives up.
NoProfile(t) ==
    /\ task[t].st = "seek" /\ Head(task[t].prog) = "onboard"
    /\ task' = [task EXCEPT ![t] = Starting(Tail(@.prog))]
    /\ UNCHANGED <<out, pending, nextId, abandoned>> /\ OnlyTask

\* wait_for_swarm_ready finds the swarm, or gives up after ten seconds.
WaitForSwarm(t) ==
    /\ task[t].st = "seek"
    /\ task' = [task EXCEPT ![t] = IF InSlot THEN [@ EXCEPT !.st = "ready"] ELSE AfterFailure(@)]
    /\ UNCHANGED <<out, pending, nextId, abandoned>> /\ OnlyTask

\* send_direct_message and send_onboard_request hand the request to the swarm,
\* if it could be built and the loop has not taken the swarm since.
Send(t, built) ==
    /\ task[t].st = "ready" /\ Head(task[t].prog) # "publish"
    /\ IF InSlot /\ built
       THEN /\ task' = [task EXCEPT ![t].st = "sent", ![t].id = nextId]
            /\ out' = out \cup {nextId}
            /\ nextId' = nextId + 1
       ELSE /\ task' = [task EXCEPT ![t] = AfterFailure(@)]
            /\ UNCHANGED <<out, nextId>>
    /\ UNCHANGED <<pending, abandoned>> /\ OnlyTask

\* Only then do they enter it in the table of callers.
Register(t) ==
    /\ task[t].st = "sent"
    /\ task' = [task EXCEPT ![t].st = "wait"]
    /\ pending' = pending \cup {task[t].id}
    /\ UNCHANGED <<out, nextId, abandoned>> /\ OnlyTask

\* The caller's timeout.  The entry stays in the table.
TimesOut(t) ==
    /\ Waiting(t)
    /\ task' = [task EXCEPT ![t] = AfterFailure(@)]
    /\ abandoned' = abandoned \cup {task[t].id}
    /\ UNCHANGED <<out, pending, nextId>> /\ OnlyTask

\* The caller goes on with the answer.  sync_policy_with_supernode stops at the
\* first answer it can apply.
GoesOn(t, applied) ==
    LET prog == task[t].prog
    IN  /\ task[t].st = "answered"
        /\ task' = [task EXCEPT ![t] = IF Head(prog) = "policy" /\ applied
                                       THEN IdleTask ELSE Starting(Tail(prog))]
        /\ UNCHANGED <<out, pending, nextId, abandoned>> /\ OnlyTask

\* publish_verified_peer publishes if the swarm is there, and does not wait.
PublishVerifiedPeer(t) ==
    /\ task[t].st = "ready" /\ Head(task[t].prog) = "publish"
    /\ task' = [task EXCEPT ![t] = Starting(Tail(@.prog))]
    /\ UNCHANGED <<out, pending, nextId, abandoned>> /\ OnlyTask

TaskStep(t) ==
    \/ NoProfile(t) \/ WaitForSwarm(t) \/ Register(t) \/ TimesOut(t)
    \/ \E built \in BOOLEAN : Send(t, built)
    \/ PublishVerifiedPeer(t)
    \/ \E applied \in BOOLEAN : GoesOn(t, applied)

\* A task of push_ghost_sync puts its event into the channel.
PushGhostSync ==
    /\ spawned > 0 /\ ConsumeEvent
    /\ spawned' = spawned - 1
    /\ UNCHANGED <<loop, books, verdict, calls, addresses, objects, settings, budget>>

-----------------------------------------------------------------------------
(* Changes from outside *)

\* The authority list, the policy or quarantine_peer changes what enforce_peer
\* says of a peer.
SetVerdict(p, v) ==
    /\ Spends("verdict")
    /\ verdict' = [verdict EXCEPT ![p] = v]
    /\ UNCHANGED <<loop, books, channels, calls, addresses, objects, settings>>

\* The process ends, in the middle of a write of the cache or not, and starts again.
Crash(f, kept) ==
    /\ Spends("crash")
    /\ StartsWith(f, kept)

InWrite == loop.pc = "addrs" /\ loop.addrs # <<>> /\ IsNew(loop.peer, Head(loop.addrs))

Next ==
    \/ LoopStep
    \/ \E p \in Peer :
        \/ ConnectionEstablished(p) \/ ConnectionClosed(p)
        \/ \E addrs \in AddrLists : Identify(p, addrs)
        \/ \E v \in Verdicts : SetVerdict(p, v)
    \/ \E n \in 0..2 : Request(n)
    \/ OnboardRequest \/ VoteRequest
    \/ \E forwards \in BOOLEAN : OnionRelay(forwards)
    \/ \E kept \in SUBSET Object : RelayPanics(kept)
    \/ \E id \in out : Answer(id)
    \/ \E o \in Object : StorageGet(o) \/ \E d \in Data : \E stage \in Stages(d) : StoragePut(o, d, stage)
    \/ \E left \in {file, Torn} : SaveFails(left)
    \/ \E t \in Task : TaskStep(t)
    \/ PushGhostSync
    \/ \E f \in {file} \cup (IF InWrite THEN {Torn} ELSE {}), kept \in SUBSET Object : Crash(f, kept)

\* tokio runs every task that is not blocked; a timeout always expires.
Fairness == WF_vars(LoopStep) /\ \A t \in Task : WF_vars(TaskStep(t))

Spec == Init /\ [][Next]_vars /\ Fairness

-----------------------------------------------------------------------------
(* Properties *)

\* Between handlers a peer is connected or routed in the registry only while it
\* has a connection, whichever of several connections opened, closed or was
\* turned away, and whatever its Identify events wrote.  The count of a peer's
\* connections is exact until one of them is turned away; from then on it may
\* fall short, but never exceeds them (ConnectionEstablished, ConnectionClosed,
\* Identify).
ConnectionsRecorded ==
    \A p \in Peer :
        /\ registry[p].connected \/ registry[p].routed =>
               live[p] > 0 \/ (loop.pc = "closed" /\ loop.peer = p)
        /\ counts[p] <= live[p]
        /\ p \notin denied => counts[p] = live[p]

\* The tables of callers hold exactly the requests whose caller waits and those
\* whose caller gave up: an answer finds the caller that waits for it, and what
\* nobody waits for is left behind only by a timeout (send_direct_message,
\* send_onboard_request, get_chunk_from_dht and the functions that complete them).
PendingMatchesCallers ==
    /\ pending = WaitedFor \cup abandoned
    /\ WaitedFor \cap abandoned = {}

\* The file has the newest address a peer ever gave, or else as many peers
\* before it as the file may hold, unless a write that failed or was cut off has
\* lost it.  What was lost stays lost while that process runs, since seen_addrs
\* has the address; but it is made good as soon as the peer identifies itself to
\* a later process, whatever is left of the file (save_bootstrap_peer_addr,
\* register_peer_addr).
AddressesKept ==
    \A p \in Peer :
        /\ lost[p] = "kept" => Kept(file, last, p)
        /\ lost[p] = "earlier" => seen[p] = {}

\* An object whose last put was answered with Success is read back whole, and
\* whatever a read returns is the data of one put, the last whose metadata was
\* kept: never pieces of two (put_object and get_object).
ReadsSeeTheLastPut ==
    \A o \in Object :
        /\ stored[o] # NoData => GetObject(store, o) = [ok |-> TRUE, data |-> Whole(stored[o])]
        /\ GetObject(store, o).ok => GetObject(store, o).data = Whole(tried[o])

\* A handler comes to its end, unless it waits for room in the full channel, and
\* a task that was spawned comes to its end whatever the loop does: no call
\* waits longer than its timeout (run_event_loop, send_onboarding_request,
\* sync_policy_with_supernode).
CallsReturn ==
    /\ InHandler ~> (~InHandler \/ Stalled)
    /\ \A t \in Task : ~IsIdle(t) ~> IsIdle(t)
=============================================================================
