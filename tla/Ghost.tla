-------------------------------- MODULE Ghost --------------------------------
(***************************************************************************)
(* The ghost of a node: the engine's task with its command channel         *)
(* (src/ghost.rs), the runtime handle whose decisions are sent by spawned  *)
(* tasks (src/ghost_runtime.rs), the bridge (src/ghost_bridge.rs) and the  *)
(* control loop (src/control_loop.rs), which share the world state.        *)
(*                                                                         *)
(* Two tasks run the scheduler's tick: the runtime's own and the control   *)
(* loop.  A handler of theirs is a list of sends to the engine, each with  *)
(* what the task does between that send and the next one.  A handler of    *)
(* the engine is one step: what it writes to the world state in between it *)
(* overwrites at its end.  Of the world state the health level is kept;    *)
(* the label ghost.state, which the engine and the runtime both overwrite, *)
(* is not read by any of them.                                             *)
(***************************************************************************)
EXTENDS GhostEngine, GhostPolicy, PeerReputation, Sequences

\* The events the control loop tells apart (SystemEvent and control commands).
EventKind == {"PeerConnected", "PeerDisconnected", "SecurityReject",
              "AuthorityViolation", "VeryHighLatency", "RoutePressure",
              "AnomalyDetected", "sleep_ghost", "wake_ghost", "tamper_on",
              "tamper_off", "policy_update", "Other"}

\* What a spawned task has to send; a reroute sends an item and then a beacon.
Program == {"Wake", "Sleep", "TriggerBeacon", "TriggerSync", "TriggerPanic",
            "EnqueueSync", "Reroute", "BootMetrics"}

CONSTANTS
    NodeRole,       \* the node's role
    PeerCounts,     \* the numbers of connected peers the registry may show
    CmdCapacity,    \* capacity of the command channel, 256
    SyncEvery,      \* sync_every_ticks, 6
    SleepAfter,     \* sleep_after_idle_ticks, 6
    Events,         \* the kinds of system events that occur
    MaxSpawned,     \* bound: tasks of each kind still to send when more are spawned
    MaxEvents       \* bound on the events handled

ASSUME GhostAssumption ==
    /\ NodeRole \in Role
    /\ PeerCounts \subseteq Nat /\ 0 \in PeerCounts
    /\ CmdCapacity \in Nat \ {0}
    /\ SyncEvery \in Nat \ {0} /\ SleepAfter \in Nat \ {0}
    /\ MaxSpawned \in [Program -> Nat] /\ MaxEvents \in Nat
    /\ Events \subseteq EventKind

VARIABLES
    engine,     \* the fields of GhostEngine
    loop,       \* the engine's loop: "boot", "running" or "ended"
    cmds,       \* the command channel
    spawned,    \* how many spawned tasks still have to send each command
    health,     \* ghost.health_level of the world state
    registry,   \* connected peers in the peer registry
    sched,      \* GhostSchedulerState: ticks, idle ticks, last assessment
    tasks,      \* the tasks of the runtime and of the control loop
    rep,        \* a peer's reputation with the controllers of main and runner
    events      \* events handled so far

vars == <<engine, loop, cmds, spawned, health, registry, sched, tasks, rep,
          events>>

-----------------------------------------------------------------------------
(* Decisions: the tasks they spawn and what they do to a peer. *)

Decision == {"Noop", "Wake", "Sleep", "Beacon", "Sync", "Panic", "Degrade",
             "Throttle", "IsolatePeer", "Retry", "Reroute"}

ProgramOf(decision) ==
    CASE decision = "Beacon" -> "TriggerBeacon"
      [] decision = "Sync" -> "TriggerSync"
      [] decision = "Panic" -> "TriggerPanic"
      [] decision = "Retry" -> "EnqueueSync"
      [] OTHER -> decision

Spawn(sp, decision) ==
    IF decision \in {"Wake", "Sleep", "Beacon", "Sync", "Panic", "Retry",
                     "Reroute"}
    THEN [sp EXCEPT ![ProgramOf(decision)] = @ + 1]
    ELSE sp

\* The sink is the controller of the runner, attached before the first event.
SinkAction(r, decision) ==
    CASE decision = "IsolatePeer" -> [r EXCEPT !.runner = SetPeerQuarantine(@)]
      [] decision = "Throttle" -> [r EXCEPT !.runner = UpdatePeerFailure(@)]
      [] OTHER -> r

-----------------------------------------------------------------------------
(* The runtime's work between two sends, on the record of what it touches: *)
(* the scheduler's state, the spawned tasks, the reputations, and the      *)
(* task's own count of peers and health assessment.                        *)

Assessment == [level : {"Healthy", "Degraded", "Critical"},
               recommendation : {"StayAwake", "Wake", "Beacon", "Sleep",
                                 "Panic"}]
\* Without an assessment the runtime decides nothing, as with this one.
NoAssessment == [level |-> "Healthy", recommendation |-> "StayAwake"]

ApplyDecision(w, decision) ==
    [w EXCEPT !.spawned = Spawn(@, decision), !.rep = SinkAction(@, decision)]

\* build_real_snapshot.  No peer of the registry is ever trusted: the flag is only
\* set to false.  Whether the last signal of the event log speaks of a
\* disconnection is left open.
BuildRealSnapshot(n, disconnect) ==
    [role |-> NodeRole, connected |-> n, trusted |-> 0, bootstrap |-> FALSE,
     gateway |-> TRUE, web |-> TRUE, config |-> TRUE, tamper |-> FALSE,
     disconnect |-> disconnect]

\* The assessments that n connected peers may get.
Verdicts(n) ==
    {AssessHealth(BuildRealSnapshot(n, d), "Idle") : d \in BOOLEAN}

\* assess up to its send.  The scores in the peer registry are never written,
\* so that every peer has the default one.
AssessPeers(w, verdict) ==
    [ApplyDecision(w, EvaluateReputation(DefaultReputation.score))
        EXCEPT !.verdict = verdict]

Store(w) == [w EXCEPT !.sched.assessment = w.verdict, !.verdict = NoAssessment]

RuntimeDecide(w) == DecideHealth("Idle", w.sched.assessment)

RuntimeAct(w) == ApplyDecision(w, RuntimeDecide(w))

\* scheduler_tick up to its call of assess: the counters (the number of ticks
\* matters modulo sync_every_ticks), the periodic sync, the sleep of an idle
\* node, the load decision and the decision of the last assessment.
SchedulerTick(w, n) ==
    LET ticks == (w.sched.ticks + 1) % SyncEvery
        idle == IF n > 0 THEN 0
                ELSE IF w.sched.idle < SleepAfter THEN w.sched.idle + 1
                ELSE SleepAfter
        counted == [w EXCEPT !.sched.ticks = ticks, !.sched.idle = idle,
                             !.conn = n]
        synced == ApplyDecision(counted, IF ticks = 0 THEN "Sync" ELSE "Noop")
        slept == ApplyDecision(synced,
                               IF idle = SleepAfter THEN "Sleep" ELSE "Noop")
        loaded == ApplyDecision(slept, EvaluateLoad(n))
    IN  ApplyDecision(loaded, RuntimeDecide(w))

Effect == {"none", "assess", "store", "storeRetry", "storeTick", "storeAct",
           "beaconAssess"} \cup Decision

\* n: the connected peers of the registry now, verdict: their assessment.
Perform(effect, w, n, verdict) ==
    CASE effect = "none" -> w
      [] effect = "assess" -> AssessPeers(w, verdict)
      [] effect = "store" -> Store(w)
      [] effect = "storeRetry" -> ApplyDecision(Store(w), "Retry")
      [] effect = "storeTick" ->
           AssessPeers(SchedulerTick(Store(w), n), verdict)
      [] effect = "storeAct" -> RuntimeAct(Store(w))
      [] effect = "beaconAssess" ->
           AssessPeers(ApplyDecision(w, "Beacon"), verdict)
      [] effect \in Decision -> ApplyDecision(w, effect)

-----------------------------------------------------------------------------
(* The handlers: what they do before their first send, and their sends with*)
(* what follows each.                                                      *)

Send(name, effect) == [send |-> name, effect |-> effect]
Step == [send : Simple \cup {"metrics", "bridgeMetrics"}, effect : Effect]

\* scheduler_tick after its first part, which StartRuntimeTick does.
SchedulerTickSteps ==
    <<Send("ObserveSignal", "storeAct"), Send("metrics", "none")>>

OnTickerTickSteps ==
    <<Send("ObserveSignal", "storeTick")>> \o SchedulerTickSteps
        \o <<Send("ObserveSignal", "none"), Send("bridgeMetrics", "none")>>

\* The three sends of the bridge's observe_ functions.
ObserveAndSync(effect) ==
    <<Send("ObserveSignal", "none"), Send("EnqueueSync", "none"),
      Send("TriggerSync", effect)>>

\* What the control loop does for an event before its first send.
EventPrelude(kind) ==
    CASE kind = "sleep_ghost" -> "Sleep"
      [] kind = "wake_ghost" -> "Wake"
      [] kind = "policy_update" -> "assess"
      [] kind \in {"VeryHighLatency", "RoutePressure", "AnomalyDetected"} ->
           EvaluateEvent(kind)
      [] OTHER -> "none"

\* The engine is erased, but the policy does not see the event.
EventStepsNoPolicy(kind) ==
    IF kind = "AuthorityViolation"
    THEN <<Send("TriggerPanic", "none"), Send("Zeroize", "none")>>
    ELSE <<>>

\* The sends for an event: the branch of handle_system_event, then
\* publish_event, whose last act is the signal.
EventSteps(kind) ==
    CASE kind = "PeerConnected" -> ObserveAndSync("Wake")
      [] kind = "PeerDisconnected" -> ObserveAndSync("Beacon")
      [] kind = "SecurityReject" ->
           ObserveAndSync("assess") \o <<Send("ObserveSignal", "storeRetry")>>
      [] kind = "AuthorityViolation" ->
           <<Send("TriggerPanic", "none"),
             Send("Zeroize", EvaluateEvent(kind))>>
      [] kind = "tamper_on" -> <<Send("TamperOn", "none")>>
      [] kind = "tamper_off" -> <<Send("TamperOff", "none")>>
      [] kind = "policy_update" -> <<Send("ObserveSignal", "store")>>
      [] OTHER -> <<>>

PublishSteps == <<Send("ObserveSignal", "none")>>

ControllerReputation(r, kind) ==
    CASE kind = "PeerConnected" -> [r EXCEPT !.main = UpdatePeerSuccess(@)]
      [] kind \in {"SecurityReject", "AuthorityViolation"} ->
           [r EXCEPT !.main = UpdatePeerFailure(@)]
      [] OTHER -> r

-----------------------------------------------------------------------------
(* The engine's loop. *)

Boot ==
    /\ loop = "boot"
    /\ loop' = "running"
    /\ engine' = Transition(engine, "Sleep")
    /\ health' = HealthLabel(engine'.state)
    /\ UNCHANGED <<cmds, spawned, registry, sched, tasks, rep, events>>

EngineTick(trigger) ==
    /\ loop = "running"
    /\ engine' = OnTick(engine, trigger)
    /\ health' = HealthLabel(engine'.state)
    /\ UNCHANGED <<loop, cmds, spawned, registry, sched, tasks, rep, events>>

EngineCommand ==
    /\ loop = "running" /\ cmds # <<>>
    /\ engine' = Handle(engine, Head(cmds))
    /\ health' = IF Syncs(engine, Head(cmds)) THEN HealthLabel(engine'.state)
                 ELSE health
    /\ IF Head(cmds).op = "Zeroize"
       THEN loop' = "ended" /\ cmds' = <<>>
       ELSE loop' = loop /\ cmds' = Tail(cmds)
    /\ UNCHANGED <<spawned, registry, sched, tasks, rep, events>>

\* Sending waits for room in the channel; without a receiver it fails at once.
SendCmd(c) ==
    IF loop = "ended" THEN UNCHANGED cmds
    ELSE Len(cmds) < CmdCapacity /\ cmds' = Append(cmds, c)

ProgramCmd(p) ==
    CASE p = "Reroute" -> Cmd("EnqueueSync")
      [] p = "BootMetrics" -> UpdateMetrics(0)
      [] OTHER -> Cmd(p)

SpawnedSend(p) ==
    /\ spawned[p] > 0
    /\ SendCmd(ProgramCmd(p))
    /\ spawned' = IF p = "Reroute"
                  THEN [spawned EXCEPT ![p] = @ - 1, !["TriggerBeacon"] = @ + 1]
                  ELSE [spawned EXCEPT ![p] = @ - 1]
    /\ UNCHANGED <<engine, loop, health, registry, sched, tasks, rep, events>>

-----------------------------------------------------------------------------
(* The two tasks. *)

Idle(t) == tasks[t].todo = <<>>

Work(t) == [sched |-> sched, spawned |-> spawned, rep |-> rep,
            conn |-> tasks[t].conn, verdict |-> tasks[t].verdict]

\* The task has done work w and is at the sends in steps.
Proceed(t, w, steps, seen) ==
    /\ w.spawned = spawned \/ \A p \in Program : spawned[p] <= MaxSpawned[p]
    /\ sched' = w.sched /\ spawned' = w.spawned /\ rep' = w.rep
    /\ tasks' = [tasks EXCEPT ![t] = [todo |-> steps, conn |-> w.conn,
                                      seen |-> seen, verdict |-> w.verdict]]

StepCmd(task) ==
    CASE task.todo[1].send = "metrics" -> UpdateMetrics(task.conn)
      [] task.todo[1].send = "bridgeMetrics" -> UpdateMetrics(task.seen)
      [] OTHER -> Cmd(task.todo[1].send)

TaskStep(t) ==
    /\ ~Idle(t)
    /\ SendCmd(StepCmd(tasks[t]))
    /\ \E w \in {Perform(tasks[t].todo[1].effect, Work(t), registry, verdict) :
                     verdict \in Verdicts(registry)} :
         Proceed(t, IF Tail(tasks[t].todo) = <<>> THEN [w EXCEPT !.conn = 0] ELSE w,
                 Tail(tasks[t].todo),
                 IF Tail(tasks[t].todo) = <<>> THEN 0 ELSE tasks[t].seen)
    /\ UNCHANGED <<engine, loop, health, registry, events>>

StartRuntimeTick ==
    /\ Idle("runtime")
    /\ \E w \in {AssessPeers(SchedulerTick(Work("runtime"), registry), verdict) :
                     verdict \in Verdicts(registry)} :
         Proceed("runtime", w, SchedulerTickSteps, 0)
    /\ UNCHANGED <<engine, loop, cmds, health, registry, events>>

OnTickerTick ==
    /\ Idle("control")
    /\ \E w \in {AssessPeers(Work("control"), verdict) : verdict \in Verdicts(registry)} :
         Proceed("control", w, OnTickerTickSteps, registry)
    /\ UNCHANGED <<engine, loop, cmds, health, registry, events>>

Handles(effect, r, steps) ==
    /\ Idle("control") /\ events < MaxEvents
    /\ events' = events + 1
    /\ \E w \in {Perform(effect, [Work("control") EXCEPT !.rep = r], registry, verdict) :
                     verdict \in Verdicts(registry)} :
         Proceed("control", w, steps, 0)
    /\ UNCHANGED <<engine, loop, cmds, health, registry>>

HandleSystemEvent(kind) ==
    Handles(EventPrelude(kind), ControllerReputation(rep, kind),
            EventSteps(kind) \o PublishSteps)

\* A failed job; the other compute events do not reach the ghost.
HandleComputeEvent == Handles("none", rep, PublishSteps)

\* The check finds a new epoch (id_rotation::should_rotate).
OnRotationCheckTick ==
    Handles("beaconAssess", rep, <<Send("ObserveSignal", "store")>>)

\* The network changes the peer registry.
PeersChange ==
    /\ registry' \in PeerCounts \ {registry}
    /\ UNCHANGED <<engine, loop, cmds, spawned, health, sched, tasks, rep,
                   events>>

-----------------------------------------------------------------------------
NewTask == [todo |-> <<>>, conn |-> 0, seen |-> 0, verdict |-> NoAssessment]

Init ==
    /\ engine = NewEngine /\ loop = "boot" /\ cmds = <<>>
    /\ spawned = [p \in Program |-> IF p = "BootMetrics" THEN 1 ELSE 0]
    /\ health = ""
    /\ registry = 0
    /\ sched = [ticks |-> 0, idle |-> 0, assessment |-> NoAssessment]
    /\ tasks = [t \in {"runtime", "control"} |-> NewTask]
    /\ rep = [main |-> DefaultReputation, runner |-> DefaultReputation]
    /\ events = 0

Next ==
    \/ Boot \/ EngineTick("Pulse") \/ EngineTick("SyncTick") \/ EngineCommand
    \/ \E p \in Program : SpawnedSend(p)
    \/ \E t \in {"runtime", "control"} : TaskStep(t)
    \/ StartRuntimeTick \/ OnTickerTick
    \/ \E kind \in Events : HandleSystemEvent(kind)
    \/ HandleComputeEvent \/ OnRotationCheckTick \/ PeersChange

\* The engine, the scheduler and the spawned tasks are tasks of one runtime
\* that runs every ready task; a channel with room serves its waiting senders
\* in turn, so that a sender that finds room again and again gets it.
Fairness ==
    /\ WF_vars(Boot \/ EngineCommand)
    /\ SF_vars(StartRuntimeTick \/ TaskStep("runtime"))
    /\ SF_vars(TaskStep("control"))
    /\ SF_vars(\E p \in Program : SpawnedSend(p))

Spec == Init /\ [][Next]_vars /\ Fairness

-----------------------------------------------------------------------------
(* Properties. *)

Task == [todo : Seq(Step), conn : PeerCounts, seen : PeerCounts,
         verdict : Assessment]

\* The types of the fields.
GhostTypeOK ==
    /\ engine \in Engine /\ loop \in {"boot", "running", "ended"}
    /\ cmds \in Seq(Command)
    /\ spawned \in [Program -> Nat]
    /\ health \in {"", "offline", "active", "sleeping", "ready"}
    /\ registry \in PeerCounts
    /\ sched \in [ticks : Nat, idle : Nat, assessment : Assessment]
    /\ tasks \in [{"runtime", "control"} -> Task]
    /\ rep \in [main : Reputation, runner : Reputation]
    /\ events \in Nat

\* Once Zeroized, the engine holds no sync items and no wake cycles, although
\* after a panic its loop goes on handling commands and ticks.
ErasedStaysErased ==
    engine.state = "Zeroized" => engine.pending = 0 /\ engine.cycles = 0

\* The health level shown to the node is the one of the engine's state: no
\* handler changes the state and leaves the world state behind, and the
\* runtime's decisions do not touch it.
HealthMirrorsEngine == loop # "boot" => health = HealthLabel(engine.state)

\* No handler, late command or tick brings the engine back from Zeroized, and
\* its loop never starts again.
ZeroizedIsFinal ==
    [][/\ engine.state = "Zeroized" => engine'.state = "Zeroized"
       /\ loop = "ended" => loop' = "ended"]_vars

\* An authority violation ends with the engine erased, its loop over, and the
\* peer quarantined: the handler goes through although the engine it talks to
\* stops in the middle of it.
HandlesViolation == \E i \in DOMAIN tasks["control"].todo :
                        tasks["control"].todo[i].send = "Zeroize"
ViolationIsolates ==
    HandlesViolation ~> /\ engine.state = "Zeroized" /\ loop = "ended"
                        /\ rep.runner.quarantined

\* When the number of connected peers stays what it is, the engine comes to
\* know it, however old the numbers still on their way are; and a node without
\* peers falls asleep for good while one with peers stays awake, although
\* decisions to sleep and to wake reach the engine in any order.
EngineFollowsPeers ==
    \A n \in PeerCounts :
        <>[](registry = n) =>
            <>[](\/ loop = "ended"
                 \/ /\ engine.connected = n
                    /\ \/ engine.state = "Zeroized"
                       \/ (engine.state = "Sleep") <=> (n = 0))
=============================================================================
