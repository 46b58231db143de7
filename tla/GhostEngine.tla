----------------------------- MODULE GhostEngine -----------------------------
(***************************************************************************)
(* The ghost engine of src/ghost.rs as operators on the engine's fields.   *)
(* The queue pending_sync is the number of its items.  The time stamps,    *)
(* fingerprints and messages of the events only feed logs and are left out;*)
(* of the metrics the engine's decisions read connected_peers alone.       *)
(***************************************************************************)
EXTENDS Naturals

CONSTANTS
    IdleCycles,         \* idle_to_sleep_after_cycles, 10
    SyncBatchLimit,     \* sync_batch_limit, 32
    ZeroizeOnPanic,     \* zeroize_on_panic, true
    AutoSleepWhenIdle   \* auto_sleep_when_idle, true

ASSUME EngineAssumption ==
    /\ IdleCycles \in Nat
    /\ SyncBatchLimit \in Nat \ {0}
    /\ ZeroizeOnPanic \in BOOLEAN /\ AutoSleepWhenIdle \in BOOLEAN

GhostState == {"Init", "Sleep", "Wake", "Beacon", "Sync", "Idle", "Panic",
               "Zeroized"}
Engine == [state : GhostState, connected : Nat, pending : Nat, cycles : Nat,
           tamper : BOOLEAN]

\* The commands of the handle; only the metrics carry data the engine uses.
Simple == {"Wake", "Sleep", "EnqueueSync", "TriggerSync", "TriggerBeacon",
           "TriggerPanic", "Zeroize", "ObserveSignal", "TamperOn", "TamperOff"}
Cmd(name) == [op |-> name, connected |-> 0]
UpdateMetrics(n) == [op |-> "UpdateMetrics", connected |-> n]
Command == [op : Simple \cup {"UpdateMetrics"}, connected : Nat]

NewEngine ==
    [state |-> "Init", connected |-> 0, pending |-> 0, cycles |-> IdleCycles,
     tamper |-> FALSE]

-----------------------------------------------------------------------------
(* Transitions and the four things a cycle can do. *)

Transition(g, to) ==
    IF g.state = "Zeroized" \/ (g.state = "Panic" /\ to = "Beacon")
    THEN g
    ELSE [g EXCEPT !.state = to]

PerformBeacon(g) == Transition(g, "Beacon")

\* A full batch is taken even when fewer items wait.
PerformSyncUnderflow(g, force) ==
    IF g.state \in {"Zeroized", "Panic"} \/ (g.pending = 0 /\ ~force)
    THEN g
    ELSE Transition([Transition(g, "Sync") EXCEPT !.pending =
                        @ - SyncBatchLimit],
                    "Idle")

PerformSync(g, force) ==
    IF g.state \in {"Zeroized", "Panic"} \/ (g.pending = 0 /\ ~force)
    THEN g
    ELSE Transition([Transition(g, "Sync") EXCEPT !.pending =
                        IF @ > SyncBatchLimit THEN @ - SyncBatchLimit ELSE 0],
                    "Idle")

PerformZeroize(g) ==
    Transition([g EXCEPT !.connected = 0, !.pending = 0, !.cycles = 0,
                         !.tamper = FALSE],
               "Zeroized")

PerformPanic(g) ==
    IF g.state = "Zeroized" THEN g
    ELSE IF ZeroizeOnPanic THEN PerformZeroize(Transition(g, "Panic"))
    ELSE Transition(g, "Panic")

-----------------------------------------------------------------------------
(* A cycle: assess, decide, act, and what follows an active pulse. *)

Assess(g) ==
    IF g.state = "Zeroized" THEN "Offline"
    ELSE IF g.state = "Init" THEN "Init"
    ELSE IF g.state = "Panic" \/ g.tamper THEN "Critical"
    ELSE IF g.connected = 0 /\ AutoSleepWhenIdle THEN "Degraded"
    ELSE IF g.pending = 0 /\ g.state = "Sleep" THEN "Ready"
    ELSE "Active"

Trigger == {"Pulse", "SyncTick", "Wake", "ForceSync", "ForceBeacon", "Panic",
            "Manual"}

\* decide for an engine that is not Zeroized (run_cycle returns before).
Decide(g, trigger) ==
    CASE trigger = "Panic" -> "Panic"
      [] trigger \in {"ForceBeacon", "Wake"} -> "Beacon"
      [] trigger = "ForceSync" -> "SyncForced"
      [] trigger \in {"Manual", "Pulse", "SyncTick"} ->
           IF g.tamper \/ Assess(g) = "Critical" THEN "Panic"
           ELSE IF g.state = "Sleep" THEN "Sleep"
           ELSE IF g.pending > 0 THEN "SyncForced"
           ELSE IF trigger = "SyncTick" THEN "Sync"
           ELSE IF trigger = "Pulse" THEN "Beacon"
           ELSE IF AutoSleepWhenIdle /\ g.cycles = 0 /\ g.connected = 0
                THEN "Sleep"
           ELSE "Idle"

Act(g, decision) ==
    CASE decision = "Beacon" -> PerformBeacon(g)
      [] decision = "Sync" -> PerformSync(g, FALSE)
      [] decision = "SyncForced" -> PerformSync(g, TRUE)
      [] decision = "Panic" -> PerformPanic(g)
      [] decision = "Sleep" -> Transition(g, "Sleep")
      [] decision = "Idle" -> IF g.state = "Sleep" THEN g
                              ELSE Transition(g, "Idle")

AfterActivePulse(g) ==
    LET left == IF g.cycles > 0 THEN g.cycles - 1 ELSE 0
    IN  IF g.state \in {"Zeroized", "Panic"} THEN g
        ELSE IF g.connected > 0
        THEN LET awake == [g EXCEPT !.cycles = IdleCycles]
             IN  IF g.state \in {"Idle", "Beacon"} THEN awake
                 ELSE Transition(awake, "Idle")
        ELSE IF left = 0 /\ AutoSleepWhenIdle
        THEN Transition([g EXCEPT !.cycles = 0], "Sleep")
        ELSE [g EXCEPT !.cycles = left]

RunCycle(g, trigger) ==
    IF g.state = "Zeroized" THEN g
    ELSE AfterActivePulse(Act(g, Decide(g, trigger)))

-----------------------------------------------------------------------------
(* The branches of the engine's loop. *)

HealthLabel(s) ==
    CASE s = "Zeroized" -> "offline"
      [] s \in {"Panic", "Wake", "Beacon", "Sync"} -> "active"
      [] s = "Sleep" -> "sleeping"
      [] s \in {"Init", "Idle"} -> "ready"

OnTick(g, trigger) ==
    IF g.state = "Sleep" THEN g ELSE RunCycle(g, trigger)

OnWake(g) ==
    IF g.state \in {"Zeroized", "Panic"} THEN g
    ELSE RunCycle(Transition([g EXCEPT !.cycles = IdleCycles], "Wake"), "Wake")

\* The state is assigned directly, past the guard of the transition.
OnSleepDirect(g) == [g EXCEPT !.cycles = 0, !.state = "Sleep"]

OnSleep(g) ==
    IF g.state = "Zeroized" THEN g
    ELSE Transition([g EXCEPT !.cycles = 0], "Sleep")

\* The check for Zeroized is forgotten: an erased engine queues items again.
OnEnqueueSyncUnguarded(g) == RunCycle([g EXCEPT !.pending = @ + 1], "Manual")

OnEnqueueSync(g) ==
    IF g.state = "Zeroized" THEN g
    ELSE RunCycle([g EXCEPT !.pending = @ + 1], "Manual")

\* An engine that sleeps does not look at the metrics.
OnUpdateMetricsAwake(g, n) ==
    IF g.state = "Sleep" THEN g ELSE RunCycle([g EXCEPT !.connected = n], "Manual")

OnUpdateMetrics(g, n) == RunCycle([g EXCEPT !.connected = n], "Manual")

OnSetTamper(g, tamper) ==
    LET set == [g EXCEPT !.tamper = tamper]
    IN  IF tamper THEN RunCycle(set, "Panic") ELSE set

Handle(g, c) ==
    CASE c.op = "Wake" -> OnWake(g)
      [] c.op = "Sleep" -> OnSleep(g)
      [] c.op = "EnqueueSync" -> OnEnqueueSync(g)
      [] c.op = "TriggerSync" -> RunCycle(g, "ForceSync")
      [] c.op = "TriggerBeacon" -> RunCycle(g, "ForceBeacon")
      [] c.op = "TriggerPanic" -> RunCycle(g, "Panic")
      [] c.op = "Zeroize" -> PerformZeroize(g)
      [] c.op = "UpdateMetrics" -> OnUpdateMetrics(g, c.connected)
      [] c.op = "TamperOn" -> OnSetTamper(g, TRUE)
      [] c.op = "TamperOff" -> OnSetTamper(g, FALSE)
      [] c.op = "ObserveSignal" -> RunCycle(g, "Manual")

\* Only the cycles write it: falling asleep on command is forgotten.
SyncsOfCycles(g, c) ==
    g.state # "Zeroized" /\ c.op \notin {"Sleep", "Zeroize"}

\* Whether a command writes the engine's state into the world state: a cycle
\* and every published message do, except the two messages that say they do not.
Syncs(g, c) ==
    \/ g.state # "Zeroized" /\ ~(c.op = "Wake" /\ g.state = "Panic")
    \/ c.op \in {"Zeroize", "TamperOn", "TamperOff"}
=============================================================================
