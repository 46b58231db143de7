----------------------------- MODULE GhostProofs -----------------------------
(***************************************************************************)
(* Proofs about the ghost for every configuration, queue capacity, number  *)
(* of peers, set of events and bound: types, an erased engine stays erased,*)
(* Zeroized is final, and the health level mirrors the engine's state.     *)
(***************************************************************************)
EXTENDS Ghost, TLAPS

\* What holds of the engine between two handlers.
Sound(g) ==
    g \in Engine /\ (g.state = "Zeroized" => g.pending = 0 /\ g.cycles = 0)

\* h is a sound engine, and Zeroized if g is.
Follows(g, h) == Sound(h) /\ (g.state = "Zeroized" => h.state = "Zeroized")

-----------------------------------------------------------------------------
(* The engine's operators. *)

\* The transition keeps the fields and never leaves Zeroized.
LEMMA TransitionFollows ==
    ASSUME NEW g, Sound(g), NEW to \in GhostState \ {"Zeroized"}
    PROVE  Follows(g, Transition(g, to))
BY DEF Sound, Follows, Transition, Engine, GhostState

\* The beacon of a cycle.
LEMMA BeaconFollows ==
    ASSUME NEW g, Sound(g) PROVE Follows(g, PerformBeacon(g))
BY TransitionFollows DEF PerformBeacon, GhostState

\* The sync of a cycle takes no more items than there are.
LEMMA SyncFollows ==
    ASSUME NEW g, Sound(g), NEW force \in BOOLEAN
    PROVE  Follows(g, PerformSync(g, force))
<1>1. CASE g.state = "Zeroized"
  BY <1>1 DEF PerformSync, Follows
<1>2. CASE g.state # "Zeroized"
  <2> DEFINE t == Transition(g, "Sync")
             taken == [t EXCEPT !.pending =
                          IF @ > SyncBatchLimit THEN @ - SyncBatchLimit ELSE 0]
  <2>1. t \in Engine /\ t.state # "Zeroized"
    BY <1>2, TransitionFollows DEF Transition, Sound, Follows, Engine, GhostState
  <2>2. taken \in Engine /\ taken.state = t.state
    <3> HIDE DEF t
    <3> QED BY <2>1, EngineAssumption DEF Engine
  <2>3. Sound(Transition(taken, "Idle"))
    <3>1. Sound(taken)
      BY <2>1, <2>2 DEF Sound
    <3> HIDE DEF taken
    <3> QED BY <3>1, TransitionFollows DEF Follows, GhostState
  <2> QED BY <1>2, <2>3 DEF PerformSync, Follows
<1> QED BY <1>1, <1>2

\* Zeroization ends Zeroized, with the queue and the cycles erased.
LEMMA ZeroizeErases ==
    ASSUME NEW g, Sound(g)
    PROVE  Follows(g, PerformZeroize(g)) /\ PerformZeroize(g).state = "Zeroized"
BY DEF PerformZeroize, Transition, Sound, Follows, Engine, GhostState

\* A panic.
LEMMA PanicFollows ==
    ASSUME NEW g, Sound(g) PROVE Follows(g, PerformPanic(g))
<1>1. CASE g.state = "Zeroized"
  BY <1>1 DEF PerformPanic, Follows
<1>2. CASE g.state # "Zeroized"
  <2>1. Sound(Transition(g, "Panic"))
    BY TransitionFollows DEF Follows, GhostState
  <2>2. Sound(PerformZeroize(Transition(g, "Panic")))
    BY <2>1, ZeroizeErases DEF Follows
  <2> QED BY <1>2, <2>1, <2>2 DEF PerformPanic, Follows
<1> QED BY <1>1, <1>2

\* The decisions of an engine that is not Zeroized.
LEMMA DecideType ==
    ASSUME NEW g \in Engine, NEW trigger \in Trigger
    PROVE  Decide(g, trigger) \in
               {"Beacon", "Sync", "SyncForced", "Panic", "Sleep", "Idle"}
BY DEF Decide, Trigger

\* What a decision does.
LEMMA ActFollows ==
    ASSUME NEW g, Sound(g),
           NEW d \in {"Beacon", "Sync", "SyncForced", "Panic", "Sleep", "Idle"}
    PROVE  Follows(g, Act(g, d))
<1>1. Follows(g, g)
  BY DEF Follows
<1>2. Follows(g, Transition(g, "Sleep")) /\ Follows(g, Transition(g, "Idle"))
  BY TransitionFollows DEF GhostState
<1> QED BY <1>1, <1>2, BeaconFollows, SyncFollows, PanicFollows DEF Act

\* What follows an active pulse.
LEMMA PulseFollows ==
    ASSUME NEW g, Sound(g) PROVE Follows(g, AfterActivePulse(g))
<1>1. CASE g.state \in {"Zeroized", "Panic"}
  BY <1>1 DEF AfterActivePulse, Follows
<1>2. CASE g.state \notin {"Zeroized", "Panic"}
  <2>1. CASE g.connected > 0
    <3> DEFINE awake == [g EXCEPT !.cycles = IdleCycles]
    <3>1. Sound(awake)
      BY <1>2, EngineAssumption DEF Sound, Engine
    <3>2. Sound(Transition(awake, "Idle"))
      <4> HIDE DEF awake
      <4> QED BY <3>1, TransitionFollows DEF Follows, GhostState
    <3> HIDE DEF awake
    <3>3. AfterActivePulse(g) \in {awake, Transition(awake, "Idle")}
      BY <1>2, <2>1 DEF AfterActivePulse, awake
    <3> QED BY <1>2, <3>1, <3>2, <3>3 DEF Follows
  <2>2. CASE ~(g.connected > 0)
    <3> DEFINE left == IF g.cycles > 0 THEN g.cycles - 1 ELSE 0
               tired == [g EXCEPT !.cycles = left]
               done == [g EXCEPT !.cycles = 0]
    <3>1. Sound(tired) /\ Sound(done)
      BY <1>2 DEF Sound, Engine
    <3>2. Sound(Transition(done, "Sleep"))
      <4> HIDE DEF done
      <4> QED BY <3>1, TransitionFollows DEF Follows, GhostState
    <3> HIDE DEF done, tired
    <3>3. AfterActivePulse(g) \in {tired, Transition(done, "Sleep")}
      BY <1>2, <2>2 DEF AfterActivePulse, done, tired
    <3> QED BY <1>2, <3>1, <3>2, <3>3 DEF Follows
  <2> QED BY <2>1, <2>2
<1> QED BY <1>1, <1>2

\* A cycle.
LEMMA CycleFollows ==
    ASSUME NEW g, Sound(g), NEW trigger \in Trigger
    PROVE  Follows(g, RunCycle(g, trigger))
<1>1. Follows(g, Act(g, Decide(g, trigger)))
  BY DecideType, ActFollows DEF Sound
<1>2. Follows(g, AfterActivePulse(Act(g, Decide(g, trigger))))
  BY <1>1, PulseFollows DEF Follows
<1> QED BY <1>2 DEF RunCycle, Follows

\* The ticks of the engine.
LEMMA TickFollows ==
    ASSUME NEW g, Sound(g), NEW trigger \in Trigger
    PROVE  Follows(g, OnTick(g, trigger))
BY CycleFollows DEF OnTick, Follows

-----------------------------------------------------------------------------
(* The commands. *)

\* Wake.
LEMMA WakeFollows ==
    ASSUME NEW g, Sound(g) PROVE Follows(g, OnWake(g))
<1> DEFINE fresh == [g EXCEPT !.cycles = IdleCycles]
<1>1. CASE g.state \in {"Zeroized", "Panic"}
  BY <1>1 DEF OnWake, Follows
<1>2. CASE g.state \notin {"Zeroized", "Panic"}
  <2>1. Sound(fresh)
    BY <1>2, EngineAssumption DEF Sound, Engine
  <2> HIDE DEF fresh
  <2>2. Sound(Transition(fresh, "Wake"))
    BY <2>1, TransitionFollows DEF Follows, GhostState
  <2>3. Sound(RunCycle(Transition(fresh, "Wake"), "Wake"))
    BY <2>2, CycleFollows DEF Follows, Trigger
  <2> QED BY <1>2, <2>3 DEF OnWake, Follows, fresh
<1> QED BY <1>1, <1>2

\* Sleep.
LEMMA SleepFollows ==
    ASSUME NEW g, Sound(g) PROVE Follows(g, OnSleep(g))
<1> DEFINE done == [g EXCEPT !.cycles = 0]
<1>1. Sound(done) /\ done.state = g.state
  BY DEF Sound, Engine
<1> HIDE DEF done
<1>2. Follows(done, Transition(done, "Sleep"))
  BY <1>1, TransitionFollows DEF GhostState
<1> QED BY <1>1, <1>2 DEF OnSleep, Follows, done

\* A new sync item.
LEMMA EnqueueFollows ==
    ASSUME NEW g, Sound(g) PROVE Follows(g, OnEnqueueSync(g))
<1> DEFINE queued == [g EXCEPT !.pending = @ + 1]
<1>1. CASE g.state = "Zeroized"
  BY <1>1 DEF OnEnqueueSync, Follows
<1>2. CASE g.state # "Zeroized"
  <2>1. Sound(queued)
    BY <1>2 DEF Sound, Engine
  <2> HIDE DEF queued
  <2>2. Sound(RunCycle(queued, "Manual"))
    BY <2>1, CycleFollows DEF Follows, Trigger
  <2> QED BY <1>2, <2>2 DEF OnEnqueueSync, Follows, queued
<1> QED BY <1>1, <1>2

\* New metrics, which an erased engine takes too.
LEMMA MetricsFollows ==
    ASSUME NEW g, Sound(g), NEW n \in Nat PROVE Follows(g, OnUpdateMetrics(g, n))
<1> DEFINE told == [g EXCEPT !.connected = n]
<1>1. Sound(told) /\ told.state = g.state
  BY DEF Sound, Engine
<1> HIDE DEF told
<1>2. Follows(told, RunCycle(told, "Manual"))
  BY <1>1, CycleFollows DEF Trigger
<1> QED BY <1>1, <1>2 DEF OnUpdateMetrics, Follows, told

\* The tamper flag.
LEMMA TamperFollows ==
    ASSUME NEW g, Sound(g), NEW tamper \in BOOLEAN
    PROVE  Follows(g, OnSetTamper(g, tamper))
<1> DEFINE set == [g EXCEPT !.tamper = tamper]
<1>1. Sound(set) /\ set.state = g.state
  BY DEF Sound, Engine
<1> HIDE DEF set
<1>2. Follows(set, RunCycle(set, "Panic")) /\ Follows(set, set)
  BY <1>1, CycleFollows DEF Trigger, Follows
<1>3. OnSetTamper(g, tamper) \in {set, RunCycle(set, "Panic")}
  BY DEF OnSetTamper, set
<1> QED BY <1>1, <1>2, <1>3 DEF Follows

\* Every command leaves a sound engine, and an erased one erased.
LEMMA HandleFollows ==
    ASSUME NEW g, Sound(g), NEW c \in Command
    PROVE  Follows(g, Handle(g, c))
<1>1. c.op \in Simple \cup {"UpdateMetrics"} /\ c.connected \in Nat
  BY DEF Command
<1>2. \A t \in {"ForceSync", "ForceBeacon", "Panic", "Manual"} :
          Follows(g, RunCycle(g, t))
  BY CycleFollows DEF Trigger
<1>3. Follows(g, OnUpdateMetrics(g, c.connected))
  BY <1>1, MetricsFollows
<1>4. Follows(g, OnSetTamper(g, TRUE)) /\ Follows(g, OnSetTamper(g, FALSE))
  BY TamperFollows
<1>5. Follows(g, PerformZeroize(g))
  BY ZeroizeErases
<1>6. Follows(g, OnWake(g)) /\ Follows(g, OnSleep(g)) /\ Follows(g, OnEnqueueSync(g))
  BY WakeFollows, SleepFollows, EnqueueFollows
<1> QED BY <1>1, <1>2, <1>3, <1>4, <1>5, <1>6 DEF Handle, Simple

\* A command that does not write the world state does not change the state.
LEMMA SilentKeepsState ==
    ASSUME NEW g, Sound(g), NEW c \in Command, ~Syncs(g, c)
    PROVE  Handle(g, c).state = g.state
<1>1. CASE g.state = "Zeroized"
  BY <1>1, HandleFollows DEF Follows
<1>2. CASE g.state # "Zeroized"
  BY <1>2 DEF Syncs, Handle, OnWake
<1> QED BY <1>1, <1>2

-----------------------------------------------------------------------------
(* The work of the tasks: types. *)

Sched == [ticks : Nat, idle : Nat, assessment : Assessment]
Reps == [main : Reputation, runner : Reputation]
WorkRecord == [sched : Sched, spawned : [Program -> Nat], rep : Reps,
               conn : PeerCounts, verdict : Assessment]

\* The updates of a reputation keep its type.
LEMMA ReputationType ==
    ASSUME NEW r \in Reputation
    PROVE  /\ UpdatePeerSuccess(r) \in Reputation
           /\ UpdatePeerFailure(r) \in Reputation
           /\ SetPeerQuarantine(r) \in Reputation
BY DEF Reputation, UpdatePeerSuccess, UpdatePeerFailure, SetPeerQuarantine

\* A decision adds at most one spawned task.
LEMMA SpawnType ==
    ASSUME NEW sp \in [Program -> Nat], NEW d
    PROVE  Spawn(sp, d) \in [Program -> Nat]
BY DEF Spawn, ProgramOf, Program

\* The sink changes a reputation.
LEMMA SinkType ==
    ASSUME NEW r \in Reps, NEW d PROVE SinkAction(r, d) \in Reps
BY ReputationType DEF SinkAction, Reps

\* A decision changes the spawned tasks and the reputations only.
LEMMA DecisionType ==
    ASSUME NEW w \in WorkRecord, NEW d
    PROVE  ApplyDecision(w, d) \in WorkRecord
<1>1. Spawn(w.spawned, d) \in [Program -> Nat] /\ SinkAction(w.rep, d) \in Reps
  BY SpawnType, SinkType DEF WorkRecord
<1> QED BY <1>1 DEF ApplyDecision, WorkRecord

\* Every assessment has its type.
LEMMA VerdictType ==
    ASSUME NEW n \in PeerCounts, NEW v \in Verdicts(n) PROVE v \in Assessment
<1>1. PICK d \in BOOLEAN : v = AssessHealth(BuildRealSnapshot(n, d), "Idle")
  BY DEF Verdicts
<1>2. \A x : AssessHealth(x, "Idle") \in Assessment
  BY DEF AssessHealth, Assessment, Level
<1> QED BY <1>1, <1>2

\* The work of an assessment.
LEMMA AssessType ==
    ASSUME NEW w \in WorkRecord, NEW v \in Assessment
    PROVE  AssessPeers(w, v) \in WorkRecord
<1> DEFINE d == ApplyDecision(w, EvaluateReputation(DefaultReputation.score))
<1>1. d \in WorkRecord
  BY DecisionType
<1> HIDE DEF d
<1> QED BY <1>1 DEF AssessPeers, WorkRecord, d

\* The work of storing an assessment.
LEMMA StoreType ==
    ASSUME NEW w \in WorkRecord PROVE Store(w) \in WorkRecord
<1>1. NoAssessment \in Assessment
  BY DEF NoAssessment, Assessment
<1>2. [w.sched EXCEPT !.assessment = w.verdict] \in Sched
  BY DEF WorkRecord, Sched
<1> QED BY <1>1, <1>2 DEF Store, WorkRecord

\* The work of a scheduler tick.
LEMMA SchedulerTickType ==
    ASSUME NEW w \in WorkRecord, NEW n \in PeerCounts
    PROVE  SchedulerTick(w, n) \in WorkRecord
<1> DEFINE ticks == (w.sched.ticks + 1) % SyncEvery
           idle == IF n > 0 THEN 0
                   ELSE IF w.sched.idle < SleepAfter THEN w.sched.idle + 1
                   ELSE SleepAfter
           counted == [w EXCEPT !.sched.ticks = ticks, !.sched.idle = idle,
                                !.conn = n]
           synced == ApplyDecision(counted, IF ticks = 0 THEN "Sync" ELSE "Noop")
           slept == ApplyDecision(synced,
                                  IF idle = SleepAfter THEN "Sleep" ELSE "Noop")
           loaded == ApplyDecision(slept, EvaluateLoad(n))
<1>1. w.sched.ticks \in Nat /\ w.sched.idle \in Nat /\ w.sched \in Sched
  BY DEF WorkRecord, Sched
<1>2. ticks \in Nat /\ idle \in Nat
  BY <1>1, GhostAssumption
<1>3. counted \in WorkRecord
  <2> HIDE DEF ticks, idle
  <2>1. [w.sched EXCEPT !.ticks = ticks, !.idle = idle] \in Sched
    BY <1>1, <1>2 DEF Sched
  <2>2. counted = [w EXCEPT !.sched = [w.sched EXCEPT !.ticks = ticks, !.idle = idle],
                            !.conn = n]
    BY DEF WorkRecord, Sched
  <2> QED BY <2>1, <2>2 DEF WorkRecord
<1>4. synced \in WorkRecord
  <2> HIDE DEF counted
  <2> QED BY <1>3, DecisionType
<1>5. slept \in WorkRecord
  <2> HIDE DEF synced
  <2> QED BY <1>4, DecisionType
<1>6. loaded \in WorkRecord
  <2> HIDE DEF slept
  <2> QED BY <1>5, DecisionType
<1>7. ApplyDecision(loaded, RuntimeDecide(w)) \in WorkRecord
  <2> HIDE DEF loaded
  <2> QED BY <1>6, DecisionType
<1> QED BY <1>7 DEF SchedulerTick

\* Whatever a task does between two sends.
LEMMA PerformType ==
    ASSUME NEW e \in Effect, NEW w \in WorkRecord, NEW n \in PeerCounts,
           NEW v \in Assessment
    PROVE  Perform(e, w, n, v) \in WorkRecord
<1>1. AssessPeers(w, v) \in WorkRecord /\ Store(w) \in WorkRecord
  BY AssessType, StoreType
<1>2. ApplyDecision(Store(w), "Retry") \in WorkRecord
  BY <1>1, DecisionType
<1>3. AssessPeers(SchedulerTick(Store(w), n), v) \in WorkRecord
  BY <1>1, SchedulerTickType, AssessType
<1>4. RuntimeAct(Store(w)) \in WorkRecord
  BY <1>1, DecisionType DEF RuntimeAct
<1>5. AssessPeers(ApplyDecision(w, "Beacon"), v) \in WorkRecord
  BY DecisionType, AssessType
<1>6. ApplyDecision(w, e) \in WorkRecord
  BY DecisionType
<1> QED BY <1>1, <1>2, <1>3, <1>4, <1>5, <1>6 DEF Perform, Effect, Decision

-----------------------------------------------------------------------------
(* The steps. *)

IInv == GhostTypeOK /\ ErasedStaysErased /\ HealthMirrorsEngine

\* The engine's part of the invariant is that it is sound.
LEMMA EngineSound ==
    IInv => Sound(engine)
BY DEF IInv, GhostTypeOK, ErasedStaysErased, Sound

\* The labels of the states.
LEMMA LabelType ==
    ASSUME NEW x \in GhostState
    PROVE  HealthLabel(x) \in {"", "offline", "active", "sleeping", "ready"}
BY DEF HealthLabel, GhostState

\* An empty channel.
LEMMA EmptyType == <<>> \in Seq(Command)
OBVIOUS

\* The initial state.
LEMMA InitialState == Init => IInv
<1>1. SUFFICES ASSUME Init PROVE IInv
  OBVIOUS
<1>2. NoAssessment \in Assessment
  BY DEF NoAssessment, Assessment
<1>3. engine \in Engine /\ engine.state # "Zeroized"
  BY <1>1, EngineAssumption DEF Init, NewEngine, Engine, GhostState
<1>4. NewTask \in Task
  BY <1>2, GhostAssumption DEF NewTask, Task
<1>5. tasks \in [{"runtime", "control"} -> Task]
  BY <1>1, <1>4 DEF Init
<1>6. rep \in [main : Reputation, runner : Reputation]
  <2>1. DefaultReputation \in Reputation
    BY DEF Reputation, DefaultReputation
  <2> QED BY <1>1, <2>1 DEF Init
<1>7. sched \in [ticks : Nat, idle : Nat, assessment : Assessment]
  BY <1>1, <1>2 DEF Init
<1>8. spawned \in [Program -> Nat]
  BY <1>1 DEF Init
<1>9. /\ loop \in {"boot", "running", "ended"} /\ cmds \in Seq(Command)
      /\ health \in {"", "offline", "active", "sleeping", "ready"}
      /\ registry \in PeerCounts /\ events \in Nat
  BY <1>1, EmptyType, GhostAssumption DEF Init
<1>10. GhostTypeOK
  BY <1>3, <1>5, <1>6, <1>7, <1>8, <1>9 DEF GhostTypeOK
<1> QED BY <1>1, <1>3, <1>10 DEF IInv, Init, ErasedStaysErased, HealthMirrorsEngine

\* A handler of the engine that mirrors its new state.
LEMMA EngineStep ==
    ASSUME IInv, loop' \in {"running", "ended"}, cmds' \in Seq(Command),
           Follows(engine, engine'), health' = HealthLabel(engine'.state),
           UNCHANGED <<spawned, registry, sched, tasks, rep, events>>
    PROVE  IInv'
<1>1. engine' \in Engine
  BY DEF Follows, Sound
<1>2. health' \in {"", "offline", "active", "sleeping", "ready"}
  BY <1>1, LabelType DEF Engine
<1>3. GhostTypeOK'
  BY <1>1, <1>2 DEF IInv, GhostTypeOK
<1>4. ErasedStaysErased'
  BY DEF Follows, Sound, ErasedStaysErased
<1>5. HealthMirrorsEngine'
  BY DEF HealthMirrorsEngine
<1> QED BY <1>3, <1>4, <1>5 DEF IInv

\* The engine's loop starts.
LEMMA BootStep == IInv /\ Boot => IInv'
<1>1. SUFFICES ASSUME IInv, Boot PROVE IInv'
  OBVIOUS
<1>2. Follows(engine, engine')
  BY <1>1, EngineSound, TransitionFollows DEF Boot, GhostState
<1> QED BY <1>1, <1>2, EngineStep DEF Boot, IInv, GhostTypeOK

\* A tick of the engine.
LEMMA TickStep ==
    ASSUME IInv, NEW trigger \in Trigger, EngineTick(trigger)
    PROVE  IInv' /\ Follows(engine, engine')
<1>1. Follows(engine, engine')
  BY EngineSound, TickFollows DEF EngineTick
<1> QED BY <1>1, EngineStep DEF EngineTick, IInv, GhostTypeOK

\* A command.
LEMMA CommandStep ==
    ASSUME IInv, EngineCommand
    PROVE  IInv' /\ Follows(engine, engine')
<1>1. Head(cmds) \in Command /\ cmds' \in Seq(Command)
  <2>1. cmds \in Seq(Command) /\ cmds # <<>>
    BY DEF EngineCommand, IInv, GhostTypeOK
  <2>2. Head(cmds) \in Command /\ Tail(cmds) \in Seq(Command)
    BY <2>1
  <2> QED BY <2>2, EmptyType DEF EngineCommand
<1>2. Follows(engine, engine')
  BY <1>1, EngineSound, HandleFollows DEF EngineCommand
<1>3. health' = HealthLabel(engine'.state)
  <2>1. CASE Syncs(engine, Head(cmds))
    BY <2>1 DEF EngineCommand
  <2>2. CASE ~Syncs(engine, Head(cmds))
    <3>1. engine'.state = engine.state
      BY <1>1, <2>2, EngineSound, SilentKeepsState DEF EngineCommand
    <3> QED BY <2>2, <3>1 DEF EngineCommand, IInv, HealthMirrorsEngine
  <2> QED BY <2>1, <2>2
<1>4. loop' \in {"running", "ended"}
  BY DEF EngineCommand
<1> QED BY <1>1, <1>2, <1>3, <1>4, EngineStep DEF EngineCommand

\* A step of another task: it leaves the engine and the health level alone.
LEMMA OtherStep ==
    ASSUME IInv, UNCHANGED <<engine, loop, health>>, cmds' \in Seq(Command),
           spawned' \in [Program -> Nat], registry' \in PeerCounts,
           sched' \in Sched, tasks' \in [{"runtime", "control"} -> Task],
           rep' \in Reps, events' \in Nat
    PROVE  IInv'
<1>1. GhostTypeOK'
  BY DEF IInv, GhostTypeOK, Sched, Reps
<1>2. ErasedStaysErased' /\ HealthMirrorsEngine'
  BY DEF IInv, ErasedStaysErased, HealthMirrorsEngine
<1> QED BY <1>1, <1>2 DEF IInv

\* A send leaves a channel of commands.
LEMMA SendType ==
    ASSUME cmds \in Seq(Command), NEW c \in Command, SendCmd(c)
    PROVE  cmds' \in Seq(Command)
BY DEF SendCmd

\* A spawned task sends.
LEMMA SpawnedStep ==
    ASSUME IInv, NEW p \in Program, SpawnedSend(p) PROVE IInv'
<1>1. ProgramCmd(p) \in Command
  BY DEF ProgramCmd, Program, Cmd, UpdateMetrics, Command, Simple
<1>2. cmds' \in Seq(Command)
  BY <1>1, SendType DEF SpawnedSend, IInv, GhostTypeOK
<1>3. spawned' \in [Program -> Nat]
  <2>1. spawned \in [Program -> Nat] /\ spawned[p] > 0
    BY DEF SpawnedSend, IInv, GhostTypeOK
  <2>2. spawned[p] - 1 \in Nat /\ "TriggerBeacon" \in Program
        /\ spawned["TriggerBeacon"] + 1 \in Nat
    BY <2>1 DEF Program
  <2> QED BY <2>1, <2>2 DEF SpawnedSend
<1> QED BY <1>2, <1>3, OtherStep DEF SpawnedSend, IInv, GhostTypeOK, Sched, Reps

\* The work of a task, as it stands in the state, has its type.
LEMMA WorkType ==
    ASSUME IInv, NEW t \in {"runtime", "control"} PROVE Work(t) \in WorkRecord
<1>1. tasks[t] \in Task
  BY DEF IInv, GhostTypeOK
<1> QED BY <1>1 DEF IInv, GhostTypeOK, Work, WorkRecord, Task, Sched, Reps

\* A task that has done its work is still a task.
LEMMA ProceedType ==
    ASSUME IInv, NEW t \in {"runtime", "control"}, NEW w \in WorkRecord,
           NEW steps \in Seq(Step), NEW seen \in PeerCounts,
           Proceed(t, w, steps, seen)
    PROVE  /\ sched' \in Sched /\ spawned' \in [Program -> Nat] /\ rep' \in Reps
           /\ tasks' \in [{"runtime", "control"} -> Task]
<1>1. w.sched \in Sched /\ w.spawned \in [Program -> Nat] /\ w.rep \in Reps
      /\ w.conn \in PeerCounts /\ w.verdict \in Assessment
  BY DEF WorkRecord
<1>2. [todo |-> steps, conn |-> w.conn, seen |-> seen, verdict |-> w.verdict]
          \in Task
  BY <1>1 DEF Task
<1>3. tasks' \in [{"runtime", "control"} -> Task]
  BY <1>2 DEF Proceed, IInv, GhostTypeOK
<1> QED BY <1>1, <1>3 DEF Proceed

\* The next send of a task.
LEMMA StepCmdType ==
    ASSUME NEW task \in Task, task.todo # <<>>
    PROVE  StepCmd(task) \in Command
<1>1. task.todo[1] \in Step /\ task.conn \in Nat /\ task.seen \in Nat
  <2>1. task.todo \in Seq(Step) /\ task.conn \in PeerCounts /\ task.seen \in PeerCounts
    BY DEF Task
  <2>2. task.todo[1] \in Step
    BY <2>1
  <2> QED BY <2>1, <2>2, GhostAssumption
<1>2. task.todo[1].send \in Simple \cup {"metrics", "bridgeMetrics"}
  BY <1>1 DEF Step
<1>3. UpdateMetrics(task.conn) \in Command /\ UpdateMetrics(task.seen) \in Command
  BY <1>1 DEF UpdateMetrics, Command
<1>4. \A x \in Simple : Cmd(x) \in Command
  BY DEF Cmd, Command
<1> QED BY <1>2, <1>3, <1>4 DEF StepCmd

\* A task sends and works on.
LEMMA TaskStepStep ==
    ASSUME IInv, NEW t \in {"runtime", "control"}, TaskStep(t) PROVE IInv'
<1>1. tasks[t] \in Task /\ tasks[t].todo # <<>> /\ tasks[t].todo \in Seq(Step)
  BY DEF IInv, GhostTypeOK, TaskStep, Idle, Task
<1>2. cmds' \in Seq(Command)
  BY <1>1, StepCmdType, SendType DEF TaskStep, IInv, GhostTypeOK
<1>3. tasks[t].todo[1] \in Step /\ Tail(tasks[t].todo) \in Seq(Step)
  BY <1>1
<1>4. tasks[t].todo[1].effect \in Effect
  BY <1>3 DEF Step
<1> DEFINE steps == Tail(tasks[t].todo)
           seen == IF steps = <<>> THEN 0 ELSE tasks[t].seen
<1>5. PICK v \in Verdicts(registry) :
          LET w == Perform(tasks[t].todo[1].effect, Work(t), registry, v)
          IN  Proceed(t, IF steps = <<>> THEN [w EXCEPT !.conn = 0] ELSE w,
                      steps, seen)
  BY DEF TaskStep
<1> DEFINE w == Perform(tasks[t].todo[1].effect, Work(t), registry, v)
           x == IF steps = <<>> THEN [w EXCEPT !.conn = 0] ELSE w
<1>6. registry \in PeerCounts /\ v \in Assessment
  BY VerdictType DEF IInv, GhostTypeOK
<1>7. w \in WorkRecord
  BY <1>4, <1>6, WorkType, PerformType
<1>8. x \in WorkRecord
  <2> HIDE DEF w, steps
  <2> QED BY <1>7, GhostAssumption DEF WorkRecord
<1>9. seen \in PeerCounts
  BY <1>1, GhostAssumption DEF Task
<1>10. Proceed(t, x, steps, seen)
  BY <1>5
<1> HIDE DEF x, steps, seen
<1>11. steps \in Seq(Step)
  BY <1>3 DEF steps
<1>12. /\ sched' \in Sched /\ spawned' \in [Program -> Nat] /\ rep' \in Reps
       /\ tasks' \in [{"runtime", "control"} -> Task]
  BY <1>8, <1>9, <1>10, <1>11, ProceedType
<1> QED BY <1>2, <1>12, <1>6, OtherStep DEF TaskStep, IInv, GhostTypeOK

\* The sends of every handler are steps.
LEMMA HandlerSteps ==
    /\ SchedulerTickSteps \in Seq(Step)
    /\ OnTickerTickSteps \in Seq(Step)
    /\ PublishSteps \in Seq(Step)
    /\ <<Send("ObserveSignal", "store")>> \in Seq(Step)
    /\ \A kind \in EventKind : EventSteps(kind) \in Seq(Step)
<1>1. /\ \A x \in Simple \cup {"metrics", "bridgeMetrics"}, e \in Effect :
            Send(x, e) \in Step
  BY DEF Send, Step
<1>2. /\ Send("ObserveSignal", "storeAct") \in Step
      /\ Send("metrics", "none") \in Step
      /\ Send("bridgeMetrics", "none") \in Step
      /\ Send("ObserveSignal", "none") \in Step
      /\ Send("ObserveSignal", "storeTick") \in Step
      /\ Send("ObserveSignal", "storeRetry") \in Step
      /\ Send("ObserveSignal", "store") \in Step
      /\ Send("EnqueueSync", "none") \in Step
      /\ Send("TriggerPanic", "none") \in Step
      /\ Send("TamperOn", "none") \in Step /\ Send("TamperOff", "none") \in Step
  BY <1>1 DEF Effect, Simple
<1>3. /\ \A e \in {"Wake", "Beacon", "assess"} : Send("TriggerSync", e) \in Step
      /\ Send("Zeroize", EvaluateEvent("AuthorityViolation")) \in Step
  BY <1>1 DEF Effect, Simple, Decision, EvaluateEvent
<1> HIDE DEF Step
<1>4. SchedulerTickSteps \in Seq(Step) /\ PublishSteps \in Seq(Step)
      /\ <<Send("ObserveSignal", "store")>> \in Seq(Step)
  BY <1>2 DEF SchedulerTickSteps, PublishSteps
<1>5. OnTickerTickSteps \in Seq(Step)
  <2>1. <<Send("ObserveSignal", "storeTick")>> \in Seq(Step)
        /\ <<Send("ObserveSignal", "none"), Send("bridgeMetrics", "none")>> \in Seq(Step)
    BY <1>2
  <2> QED BY <1>4, <2>1 DEF OnTickerTickSteps
<1>6. \A e \in {"Wake", "Beacon", "assess"} : ObserveAndSync(e) \in Seq(Step)
  BY <1>2, <1>3 DEF ObserveAndSync
<1>7. /\ <<Send("ObserveSignal", "storeRetry")>> \in Seq(Step)
      /\ <<Send("TriggerPanic", "none"),
           Send("Zeroize", EvaluateEvent("AuthorityViolation"))>> \in Seq(Step)
      /\ <<Send("TamperOn", "none")>> \in Seq(Step)
      /\ <<Send("TamperOff", "none")>> \in Seq(Step)
      /\ <<>> \in Seq(Step)
  BY <1>2, <1>3
<1>8. ObserveAndSync("assess") \o <<Send("ObserveSignal", "storeRetry")>> \in Seq(Step)
  BY <1>6, <1>7
<1>9. \A kind \in EventKind : EventSteps(kind) \in Seq(Step)
  BY <1>4, <1>6, <1>7, <1>8 DEF EventSteps
<1> QED BY <1>4, <1>5, <1>9

\* The effect of an event before its first send.
LEMMA PreludeType ==
    ASSUME NEW kind \in EventKind PROVE EventPrelude(kind) \in Effect
BY DEF EventPrelude, EventKind, EvaluateEvent, Effect, Decision

\* The runtime's own tick starts.
LEMMA RuntimeTickStep == ASSUME IInv, StartRuntimeTick PROVE IInv'
<1>1. PICK v \in Verdicts(registry) :
          Proceed("runtime",
                  AssessPeers(SchedulerTick(Work("runtime"), registry), v),
                  SchedulerTickSteps, 0)
  BY DEF StartRuntimeTick
<1>2. registry \in PeerCounts /\ v \in Assessment
  BY VerdictType DEF IInv, GhostTypeOK
<1>3. AssessPeers(SchedulerTick(Work("runtime"), registry), v) \in WorkRecord
  BY <1>2, WorkType, SchedulerTickType, AssessType
<1>4. /\ sched' \in Sched /\ spawned' \in [Program -> Nat] /\ rep' \in Reps
      /\ tasks' \in [{"runtime", "control"} -> Task]
  BY <1>1, <1>3, HandlerSteps, ProceedType, GhostAssumption
<1> QED BY <1>2, <1>4, OtherStep DEF StartRuntimeTick, IInv, GhostTypeOK

\* The control loop's tick starts.
LEMMA TickerTickStep == ASSUME IInv, OnTickerTick PROVE IInv'
<1>1. PICK v \in Verdicts(registry) :
          Proceed("control", AssessPeers(Work("control"), v),
                  OnTickerTickSteps, registry)
  BY DEF OnTickerTick
<1>2. registry \in PeerCounts /\ v \in Assessment
  BY VerdictType DEF IInv, GhostTypeOK
<1>3. AssessPeers(Work("control"), v) \in WorkRecord
  BY <1>2, WorkType, AssessType
<1>4. /\ sched' \in Sched /\ spawned' \in [Program -> Nat] /\ rep' \in Reps
      /\ tasks' \in [{"runtime", "control"} -> Task]
  BY <1>1, <1>2, <1>3, HandlerSteps, ProceedType
<1> QED BY <1>2, <1>4, OtherStep DEF OnTickerTick, IInv, GhostTypeOK

\* The control loop starts on an event.
LEMMA HandlesStep ==
    ASSUME IInv, NEW e \in Effect, NEW r \in Reps, NEW steps \in Seq(Step),
           Handles(e, r, steps)
    PROVE  IInv'
<1> DEFINE w == [Work("control") EXCEPT !.rep = r]
<1>1. PICK v \in Verdicts(registry) :
          Proceed("control", Perform(e, w, registry, v), steps, 0)
  BY DEF Handles
<1>2. registry \in PeerCounts /\ v \in Assessment
  BY VerdictType DEF IInv, GhostTypeOK
<1>3. w \in WorkRecord
  BY WorkType DEF WorkRecord
<1> HIDE DEF w
<1>4. Perform(e, w, registry, v) \in WorkRecord
  BY <1>2, <1>3, PerformType
<1>5. /\ sched' \in Sched /\ spawned' \in [Program -> Nat] /\ rep' \in Reps
      /\ tasks' \in [{"runtime", "control"} -> Task]
  BY <1>1, <1>4, ProceedType, GhostAssumption
<1>6. UNCHANGED <<engine, loop, cmds, health, registry>> /\ events' = events + 1
  BY DEF Handles
<1>7. cmds' \in Seq(Command) /\ events' \in Nat
  <2>1. cmds' = cmds /\ events' = events + 1
    BY <1>6
  <2>2. cmds \in Seq(Command) /\ events \in Nat
    BY DEF IInv, GhostTypeOK
  <2>3. events + 1 \in Nat
    BY <2>2
  <2> QED BY <2>1, <2>2, <2>3
<1>8. UNCHANGED <<engine, loop, health>> /\ registry' \in PeerCounts
  BY <1>2, <1>6
<1> QED BY <1>5, <1>7, <1>8, OtherStep

\* A system event.
LEMMA SystemEventStep ==
    ASSUME IInv, NEW kind \in Events, HandleSystemEvent(kind) PROVE IInv'
<1>1. kind \in EventKind
  BY GhostAssumption
<1>2. EventSteps(kind) \o PublishSteps \in Seq(Step)
  BY <1>1, HandlerSteps
<1>3. ControllerReputation(rep, kind) \in Reps
  BY ReputationType DEF ControllerReputation, IInv, GhostTypeOK, Reps
<1>4. EventPrelude(kind) \in Effect
  BY <1>1, PreludeType
<1> DEFINE steps == EventSteps(kind) \o PublishSteps
           r == ControllerReputation(rep, kind)
<1>5. Handles(EventPrelude(kind), r, steps)
  BY DEF HandleSystemEvent
<1>6. steps \in Seq(Step) /\ r \in Reps
  BY <1>2, <1>3
<1> HIDE DEF steps, r
<1> QED BY <1>4, <1>5, <1>6, HandlesStep

\* The other two events.
LEMMA OtherEventStep ==
    ASSUME IInv, HandleComputeEvent \/ OnRotationCheckTick PROVE IInv'
<1>1. rep \in Reps /\ "none" \in Effect /\ "beaconAssess" \in Effect
  BY DEF IInv, GhostTypeOK, Reps, Effect
<1>2. CASE HandleComputeEvent
  BY <1>1, <1>2, HandlerSteps, HandlesStep DEF HandleComputeEvent
<1>3. CASE OnRotationCheckTick
  BY <1>1, <1>3, HandlerSteps, HandlesStep DEF OnRotationCheckTick
<1> QED BY <1>2, <1>3

\* The registry changes.
LEMMA PeersChangeStep == ASSUME IInv, PeersChange PROVE IInv'
BY OtherStep DEF PeersChange, IInv, GhostTypeOK, Sched, Reps

\* Every step keeps the invariant.
LEMMA InvariantStep == IInv /\ [Next]_vars => IInv'
<1>1. SUFFICES ASSUME IInv, [Next]_vars PROVE IInv'
  OBVIOUS
<1>2. CASE UNCHANGED vars
  BY <1>1, <1>2 DEF vars, IInv, GhostTypeOK, ErasedStaysErased, HealthMirrorsEngine
<1>3. CASE Boot \/ EngineTick("Pulse") \/ EngineTick("SyncTick") \/ EngineCommand
  BY <1>1, <1>3, BootStep, TickStep, CommandStep DEF Trigger
<1>4. CASE \E p \in Program : SpawnedSend(p)
  BY <1>1, <1>4, SpawnedStep
<1>5. CASE \E t \in {"runtime", "control"} : TaskStep(t)
  BY <1>1, <1>5, TaskStepStep
<1>6. CASE StartRuntimeTick \/ OnTickerTick
  BY <1>1, <1>6, RuntimeTickStep, TickerTickStep
<1>7. CASE \E kind \in Events : HandleSystemEvent(kind)
  BY <1>1, <1>7, SystemEventStep
<1>8. CASE HandleComputeEvent \/ OnRotationCheckTick \/ PeersChange
  BY <1>1, <1>8, OtherEventStep, PeersChangeStep
<1> QED BY <1>1, <1>2, <1>3, <1>4, <1>5, <1>6, <1>7, <1>8 DEF Next

-----------------------------------------------------------------------------
(* The theorems. *)

\* The invariant of the ghost.
THEOREM GhostInvariant == Spec => []IInv
BY InitialState, InvariantStep, PTL DEF Spec

\* The types of the engine, the tasks and what they share.
THEOREM GhostTypes == Spec => []GhostTypeOK
<1>1. IInv => GhostTypeOK
  BY DEF IInv
<1> QED BY <1>1, GhostInvariant, PTL

\* A zeroized engine holds no sync items and no wake cycles, whatever commands
\* and ticks its loop still handles (src/ghost.rs, perform_zeroize).
THEOREM ErasureLasts == Spec => []ErasedStaysErased
<1>1. IInv => ErasedStaysErased
  BY DEF IInv
<1> QED BY <1>1, GhostInvariant, PTL

\* The health level of the world state is that of the engine's state after
\* every handler (src/ghost.rs, sync_world_state).
THEOREM HealthIsMirrored == Spec => []HealthMirrorsEngine
<1>1. IInv => HealthMirrorsEngine
  BY DEF IInv
<1> QED BY <1>1, GhostInvariant, PTL

\* No step of any task brings a zeroized engine or an ended loop back.
THEOREM ZeroizationIsFinal == Spec => ZeroizedIsFinal
<1> DEFINE Final == /\ engine.state = "Zeroized" => engine'.state = "Zeroized"
                    /\ loop = "ended" => loop' = "ended"
<1>1. IInv /\ [Next]_vars => [Final]_vars
  <2>1. SUFFICES ASSUME IInv, Next PROVE Final
    BY DEF vars
  <2>2. CASE Boot
    <3>1. Follows(engine, engine')
      BY <2>1, <2>2, EngineSound, TransitionFollows DEF Boot, GhostState
    <3> QED BY <2>2, <3>1 DEF Boot, Follows
  <2>3. CASE EngineTick("Pulse") \/ EngineTick("SyncTick")
    <3>1. Follows(engine, engine')
      BY <2>1, <2>3, TickStep DEF Trigger
    <3> QED BY <2>3, <3>1 DEF EngineTick, Follows
  <2>4. CASE EngineCommand
    BY <2>1, <2>4, CommandStep DEF EngineCommand, Follows
  <2>5. CASE UNCHANGED <<engine, loop>>
    BY <2>5
  <2>6. CASE \E p \in Program : SpawnedSend(p)
    BY <2>5, <2>6 DEF SpawnedSend
  <2>7. CASE \E t \in {"runtime", "control"} : TaskStep(t)
    BY <2>5, <2>7 DEF TaskStep
  <2>8. CASE StartRuntimeTick \/ OnTickerTick \/ PeersChange
    BY <2>5, <2>8 DEF StartRuntimeTick, OnTickerTick, PeersChange
  <2>9. CASE HandleComputeEvent \/ OnRotationCheckTick
             \/ \E kind \in Events : HandleSystemEvent(kind)
    BY <2>5, <2>9
       DEF HandleComputeEvent, OnRotationCheckTick, HandleSystemEvent, Handles
  <2> HIDE DEF Final
  <2> QED BY <2>1, <2>2, <2>3, <2>4, <2>6, <2>7, <2>8, <2>9 DEF Next
<1> QED BY <1>1, GhostInvariant, PTL DEF Spec, ZeroizedIsFinal
=============================================================================
