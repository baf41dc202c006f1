--------------------------- MODULE SupervisorLoop ---------------------------
(***************************************************************************)
(* What run_supervisor is in both services (rx/src/main.rs and             *)
(* tx/src/main.rs): one endless loop that resolves the multicast           *)
(* interface, builds and starts a GStreamer pipeline, waits for media,     *)
(* watches every stage, and restarts the pipeline when one fails.          *)
(*                                                                         *)
(* An operator here is the part of a step the two services share; the      *)
(* modules RxSupervisor and TxSupervisor make it an action by saying what  *)
(* the step does to the service's own variables.                           *)
(***************************************************************************)
EXTENDS MediaProbes

CONSTANTS
    Interface,  \* names of network interfaces
    Down,       \* resolve_interface_name_for_rtp returns Err
    Unsteady,   \* stages that may fall silent before the environment settles
    Faults      \* what the environment of a run may do

FaultKind == {"peer", "route", "construct", "start", "terminal", "signal"}

ASSUME LoopAssumption == Down \notin Interface /\ Faults \subseteq FaultKind

VARIABLES
    pc,            \* where run_supervisor is
    interface,     \* interface_name of this cycle
    ready,         \* output stages whose <stage>_ready is set by a buffer
    serviceReady,  \* service_ready
    reason,        \* restart_reason, while the cycle is being ended
    health,        \* HealthSnapshot::state; ok exactly when "running"
    armed,         \* the shutdown future was polled: SIGTERM is caught
    signalled,     \* environment: a SIGTERM was delivered and caught
    terminal,      \* environment: the terminal event in its watch channel
    route,         \* environment: what resolving the interface returns
    settled,       \* environment: from now on nothing fails any more
    calm           \* history: the environment had settled, with the interface of
                   \* this cycle, before it ran

cycleVars == <<ready, serviceReady, reason>>
signalVars == <<armed, signalled>>
envVars == <<route, settled>>
loopVars == <<pc, interface, cycleVars, health, signalVars, terminal, envVars, calm>>

Phase == {"resolve", "construct", "start", "running", "ending", "backoff",
          "exited", "killed"}
Waiting == {"running", "backoff"}
Over == {"exited", "killed"}
HealthState == {"starting", "starting_pipeline", "waiting", "running", "failed", "stopping"}

Healthy == health = "running"

\* Mutant: <stage>_ready outlives the cycle.
MutantDropCycle ==
    /\ pending' = [s \in DOMAIN pending |-> Never]
    /\ first' = [s \in DOMAIN first |-> Never]
    /\ last' = [s \in DOMAIN last |-> 0]
    /\ serviceReady' = FALSE
    /\ terminal' = Never
    /\ UNCHANGED ready

\* The channels and locals of a cycle end with it; the next one has its own.
DropCycle ==
    /\ pending' = [s \in DOMAIN pending |-> Never]
    /\ first' = [s \in DOMAIN first |-> Never]
    /\ last' = [s \in DOMAIN last |-> 0]
    /\ ready' = {}
    /\ serviceReady' = FALSE
    /\ terminal' = Never

SameCycle == UNCHANGED <<pending, first, last, ready, serviceReady, terminal>>

LoopInit(stage, inputStage) ==
    /\ pc = "resolve"
    /\ interface = Down
    /\ pending = [s \in stage |-> Never]
    /\ first = [s \in inputStage |-> Never]
    /\ last = [s \in stage |-> 0]
    /\ timer = 0
    /\ ready = {}
    /\ serviceReady = FALSE
    /\ reason = Never
    /\ health = "starting"
    /\ armed = FALSE
    /\ signalled = FALSE
    /\ terminal = Never
    /\ route \in Interface \union {Down}
    /\ settled = FALSE
    /\ calm = FALSE

-----------------------------------------------------------------------------
\* Start of a cycle

\* bump_pipeline_restarts, mark_failed, then the select on the backoff sleep.
FailAndBackOff ==
    /\ pc' = "backoff"
    /\ timer' = 0
    /\ health' = "failed"

Resolve ==
    /\ pc = "resolve"
    /\ route # Down
    /\ interface' = route
    /\ pc' = "construct"
    /\ SameCycle
    /\ UNCHANGED <<timer, reason, health, signalVars, envVars, calm>>

ResolveError ==
    /\ pc = "resolve"
    /\ route = Down
    /\ interface' = Down
    /\ FailAndBackOff
    /\ SameCycle
    /\ UNCHANGED <<reason, signalVars, envVars, calm>>

\* The pipeline is built, then mark_waiting("starting_pipeline").
Construct ==
    /\ pc = "construct"
    /\ health' = "starting_pipeline"
    /\ pc' = "start"
    /\ SameCycle
    /\ UNCHANGED <<timer, interface, reason, signalVars, envVars, calm>>

ConstructError ==
    /\ "construct" \in Faults
    /\ pc = "construct"
    /\ ~settled

\* The one retry that neither backs off nor looks at the shutdown future.
RetryAtOnce ==
    /\ ConstructError
    /\ health' = "failed"
    /\ pc' = "resolve"
    /\ SameCycle
    /\ UNCHANGED <<timer, interface, reason, signalVars, envVars, calm>>

RetryLater ==
    /\ ConstructError
    /\ FailAndBackOff
    /\ SameCycle
    /\ UNCHANGED <<interface, reason, signalVars, envVars, calm>>

\* start succeeds, mark_waiting, and the declarations before the loop: every
\* last_<stage> is `started`.  The first tick of tokio::time::interval is due
\* at once.
Start ==
    /\ pc = "start"
    /\ health' = "waiting"
    /\ timer' = MonitorInterval
    /\ pc' = "running"
    /\ calm' = (settled /\ interface = route)
    /\ last' = [s \in DOMAIN last |-> 0]
    /\ UNCHANGED <<pending, first, ready, serviceReady, terminal, interface, reason,
                   signalVars, envVars>>

\* start fails, the half-started pipeline is stopped.
StartError ==
    /\ "start" \in Faults
    /\ pc = "start"
    /\ FailAndBackOff
    /\ SameCycle
    /\ UNCHANGED <<interface, reason, signalVars, envVars, calm>>

-----------------------------------------------------------------------------
\* The select loop

\* mark_ready, once per cycle.
MarkReadyOnce(allReady) ==
    IF ~serviceReady /\ allReady
    THEN serviceReady' = TRUE /\ health' = "running"
    ELSE UNCHANGED <<serviceReady, health>>

\* What handling a heartbeat leaves alone.
HearUnchanged == UNCHANGED <<timer, pc, interface, reason, signalVars, terminal, envVars, calm>>

\* Mutant: only an unavailable interface is noticed.
MutantInterfaceChanged == route = Down

InterfaceChanged == route # interface

\* Mutant: a period of the watchdog too late.
MutantStalledLate(s) == s \in ready /\ last[s] > MediaTimeout + MonitorInterval

Stalled(s) == s \in ready /\ last[s] > MediaTimeout

WatchdogDue == pc = "running" /\ timer = MonitorInterval

WatchdogRearms ==
    /\ timer' = 0
    /\ SameCycle
    /\ UNCHANGED <<pc, interface, reason, health, signalVars, envVars, calm>>

\* break: health still says what it said, until the pipeline has been stopped.
BreakLoop(why) ==
    /\ pc = "running"
    /\ reason' = why
    /\ pc' = "ending"
    /\ SameCycle
    /\ UNCHANGED <<timer, interface, health, signalVars, envVars, calm>>

\* After the loop: stop the pipeline, report, back off.
EndCycle ==
    /\ pc = "ending"
    /\ FailAndBackOff
    /\ DropCycle
    /\ reason' = Never
    /\ calm' = FALSE
    /\ UNCHANGED <<interface, signalVars, envVars>>

BackoffOver ==
    /\ pc = "backoff"
    /\ timer = RestartBackoff
    /\ pc' = "resolve"
    /\ SameCycle
    /\ UNCHANGED <<timer, interface, reason, health, signalVars, envVars, calm>>

\* Mutant: the backoff sleep does not listen to the shutdown future.
MutantStop ==
    /\ pc = "running"
    /\ signalled
    /\ health' = "stopping"
    /\ pc' = "exited"
    /\ DropCycle
    /\ UNCHANGED <<timer, interface, reason, signalVars, envVars, calm>>

\* The shutdown branch of either select: mark_stopping, stop, return Ok.
Stop ==
    /\ pc \in Waiting
    /\ signalled
    /\ health' = "stopping"
    /\ pc' = "exited"
    /\ DropCycle
    /\ UNCHANGED <<timer, interface, reason, signalVars, envVars, calm>>

-----------------------------------------------------------------------------
\* Environment

\* The select polls the shutdown future, which installs the signal handlers.
PollShutdownFuture ==
    /\ pc \in Waiting
    /\ ~armed
    /\ armed' = TRUE
    /\ UNCHANGED <<probeVars, pc, interface, cycleVars, health, signalled, terminal,
                   envVars, calm>>

\* SIGTERM: latched by tokio's handler, fatal before there is one.
Sigterm ==
    /\ "signal" \in Faults
    /\ pc \notin Over
    /\ ~signalled
    /\ signalled' = armed
    /\ pc' = IF armed THEN pc ELSE "killed"
    /\ UNCHANGED <<probeVars, interface, cycleVars, health, armed, terminal, envVars, calm>>

\* The bus thread puts the first terminal event, and only it, in its channel.
PostEvent(why) ==
    /\ "terminal" \in Faults
    /\ pc = "running"
    /\ terminal = Never
    /\ terminal' = why
    /\ UNCHANGED <<probeVars, pc, interface, cycleVars, health, signalVars, envVars, calm>>

ChangeRoute ==
    /\ "route" \in Faults
    /\ pc \notin Over
    /\ ~settled
    /\ route' \in (Interface \union {Down}) \ {route}
    /\ UNCHANGED <<probeVars, pc, interface, cycleVars, health, signalVars, terminal,
                   settled, calm>>

\* From now on the interface stays, and nothing but a component that never
\* worked fails.
SettleDown ==
    /\ pc \notin Over
    /\ ~settled
    /\ route # Down
    /\ settled' = TRUE
    /\ UNCHANGED <<probeVars, pc, interface, cycleVars, health, signalVars, terminal,
                   route, calm>>

\* A buffer passes the monitor of a stage.
PassBuffer(s) ==
    /\ pc = "running"
    /\ Notify(s)
    /\ UNCHANGED <<first, last, timer, loopVars>>

\* A tick passes in a select: the executor has run every due timer, and left
\* no notification unread for longer than Lag.
PassTick ==
    /\ pc \in Waiting
    /\ timer < (IF pc = "running" THEN MonitorInterval ELSE RestartBackoff)
    /\ ReadInTime
    /\ AgeAll
    /\ UNCHANGED loopVars
=============================================================================
