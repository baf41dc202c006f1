# fastIPAV in TLA+

fastIPAV sends video and audio from a capture card over RTP multicast
(`avoverip-tx`) and plays it on a display (`avoverip-rx`).  GStreamer moves the
media; what this repository writes itself is the code that keeps the two
pipelines alive without anybody watching them: it resolves the network
interface, builds a pipeline, watches every stage of it, restarts it, gives up
hardware that does not work, and tells `/healthz` the truth meanwhile; and an
installer that replaces one release by the next as a whole or not at all.  This
directory models that code, model-checks it with TLC on small instances, and
proves with TLAPS, for all instances, almost every safety property of it.

1. [The system](#1-the-system)
2. [The modules](#2-the-modules)
3. [How the model corresponds to the code](#3-how-the-model-corresponds-to-the-code)
4. [The runs](#4-the-runs), with bounds and fairness
5. [Where code and documentation disagree](#5-where-code-and-documentation-disagree)
6. [The proofs](#6-the-proofs)
7. [What is not modelled](#7-what-is-not-modelled)
8. [Plan](#8-plan)

## 1. The system

### Components, state, operations

| Component | State it keeps | Operations | What makes it correct |
| --- | --- | --- | --- |
| Supervisors, `run_supervisor` (rx/src/main.rs:134, tx/src/main.rs:115) | fallback flags for the life of the process (`force_software_decoder`; `force_software_encoder`, `force_capture_auto`, `force_video_conversion`); per cycle the `first_*`/`last_*` Instants, the `*_ready` flags, `service_ready`, the channels of the pipeline | resolve, construct, start, one `select!` over heartbeats, watchdog, terminal event, bus events and the shutdown future; end of cycle with fallback and backoff | no false restart; every stall noticed in time; health never stale; recovers from everything but a broken configuration; gives up only, and all, hardware that is broken; a SIGTERM ends it |
| Pipeline wrapper, `GstServicePipeline` (backends/gst/src/lib.rs:148) | `stop_flag`, the bus thread, a bounded channel of events, watch channels for the terminal event, QoS and each heartbeat | `for_rx`/`for_tx`, `start`, `stop`, `Drop`, the loop of the bus thread, the buffer probes | the first terminal message and only it ends the cycle, whatever else floods the bus; no channel closes under the supervisor; `stop` returns; nothing runs after it |
| Heartbeat probes, `HeartbeatNotifier` (lib.rs:24) | last notification in ms, per probe | `should_notify`, compare-and-swap on a coalescing interval of 25 ms | a stage that delivers is heard at least once per timeout |
| Pipeline descriptions, codec choice (lib.rs:510-930) | none | elements, caps and monitors as text; choice of encoder, decoder, renderer | the monitors stand where the watchdog thinks they do; what validation accepted suits what is chosen on the host; the fallback's pipeline is one the choice could have made |
| Service state (common/src/metrics.rs) | `HealthSnapshot` and `StatsSnapshot`, each under its own `RwLock`; a ring of notes | `mark_*`, `bump_*`, `add_note`, snapshots | `ok` means ready; no page takes back what a client has been shown; a failure has its reason; `/stats` names the pipeline there is |
| Observability server (common/src/observability.rs), process mains | none | `GET /healthz`, `GET /stats`; `main` selects over server and supervisor | readers see a state that was |
| Interface resolution (common/src/net.rs) | none | `resolve_interface_name_for_rtp`, `choose_auto_interface` | the configured name if it is up; automatic: the only candidate, or an error, and never silently another one |
| Configuration (common/src/config.rs) | none | parse, defaults, `validate` | what is accepted can run, on whichever host |
| Installer (scripts/install.sh, install-transaction.sh) | staged files, backups, `ACTIVATION_STARTED`, former service states | stage, check, activate, restart; `cleanup` rolls back on failure or signal | all of the new release or all of the old one |
| Packaging, CI, smoke test, units, sample configurations | none of their own | | |

### How they interact

One tokio task per process runs the supervisor; the HTTP server is a second
future of the same process and only reads the two snapshots.  The supervisor
calls `start` and `stop` of the pipeline wrapper synchronously.  GStreamer's
streaming threads call the buffer probes, which write watch channels: a newer
heartbeat overwrites an unread one.  The wrapper's own thread pops the
pipeline's bus and writes the terminal watch channel and the bounded event
channel.  All of these meet in the supervisor's `select!`, whose branches are
polled in random order, together with the watchdog's `tokio::time::interval`
and the shutdown future.  The stages of a pipeline depend on each other:
receiver ingress → decoder → renderer, transmitter source → encoder (or audio
conversion) → packetizer, and the watchdog reads from the ages of neighbouring
stages which of them is to blame.

### What is hard

`PROJECT.json` lists each hazard at its line.  In short:

* *heartbeats against watchdog*: `select!` may take the watchdog's tick before
  heartbeats that are already in their channels, and any two heartbeats in
  either order;
* *blame*: the text of a restart's reason decides whether hardware is given up
  for the life of the process; a wrong text either gives up working hardware or
  restarts forever on broken hardware;
* *waiting*: a receiver may start before its transmitter, so missing input must
  not restart the pipeline and missing output must;
* *staleness*: `/healthz` keeps an `ok` until the cycle has ended; the interface
  is resolved once and checked again on every tick;
* *two loops on one flag*: `stop` raises a flag, flushes and joins, between any
  two steps of the bus thread;
* *a full channel*: the bus channel drops events when it is full;
* *a retry that does not wait* and a *shutdown future that is polled in five
  places and not between them*;
* *two locks*: a mark is written to health, then to stats, a failure in three or
  more writes, and clients read between any two;
* *decided twice*: validation foresees, from the configuration alone, what the
  selection will take on the host, and the supervisors name what the selection
  would take without hardware;
* *an upgrade that stops anywhere*: at a failed command, a half-written file, a
  signal, a second signal in the rollback, while systemd restarts services from
  whatever is in place.

## 2. The modules

| Module | Models | Composes |
| --- | --- | --- |
| `MediaProbes` | time, buffer probes, watch channels, the `first_*`/`last_*` Instants | |
| `SupervisorLoop` | the part of `run_supervisor` both services share, as operators: cycle, health, backoff, interface, terminal event, shutdown future, and the environment | `MediaProbes` |
| `RxSupervisor` | the receiver: its stages, watchdog, decoder fallback; specification and properties | `SupervisorLoop` |
| `TxSupervisor` | the transmitter: its stages, watchdog, three fallbacks | `SupervisorLoop` |
| `MCRxSupervisor`, `MCTxSupervisor` | what TLC checks: the supervisors plus the statements of the documentation that need not follow | `RxSupervisor`, `TxSupervisor` |
| `TerminalLatch` | abstract: what a pipeline promises its supervisor about failures | |
| `Pipeline` | `GstServicePipeline`: start, bus thread, channels, stop, drop | implements `TerminalLatch` |
| `NetInterfaces` | the choice of the interface from what `/sys/class/net` says | |
| `Config` | defaults, `auto`, and every check of `validate` | `NetInterfaces` |
| `Descriptions` | which elements make up a pipeline, for a configuration, an interface, what has been given up, and a host | `Config` |
| `PipelineText` | quoting a value into a description, the shape of one in `/stats` | |
| `HeartbeatNotifier` | the coalescing of one probe, in milliseconds | |
| `Service` | a process from its options to its end: `main`, `--check-config`, what the supervisor writes under the two locks, the HTTP pages | `Descriptions`, `PipelineText`, `HeartbeatNotifier` |
| `MCService` | the files, options, hosts and interfaces TLC gives it | `Service` |
| `AtomicInstall` | abstract: what an upgrade promises of the files it replaces | |
| `InstallTransaction` | `install.sh` from staging to its end, `cleanup`, `install-transaction.sh`, and systemd next to it | implements `AtomicInstall` |
| `LoopProofs` | lemmas on the operators of `SupervisorLoop`, for either supervisor | `SupervisorLoop` |
| `RxSupervisorProofs`, `TxSupervisorProofs` | theorems | `LoopProofs` and the module they are named after |
| `PipelineProofs`, `HeartbeatProofs`, `InstallProofs` | theorems | the modules they are named after (`InstallTransaction`) |
| `ServiceProofs`, `StatsProofs` | theorems: what a process chooses and answers; what /stats says | `Service` |

The supervisors are modelled over the latch, not over the bus: their
`PostEvent` is `Post` of `TerminalLatch` and their `HearTerminal` is `See`.
`Pipeline` shows that the bus thread, with its flag and two channels, provides
that latch, so that the two levels need not be multiplied.  `Service` looks at
the same `run_supervisor` from the side of the data: its cycles end whenever
they like, its pipelines, interfaces and messages are real.

Mutants are definitions named `Mutant...`, placed before the definition they
vary: each changes it as a plausible bug would, and each property is violated
when one of them takes the place of the original.

## 3. How the model corresponds to the code

**Time.**  A tick is any duration of at least 25 ms, the coalescing interval of
the probes, so a probe notifies at most once a tick.  `MediaTimeout`,
`MonitorInterval` and `RestartBackoff` are the fields of `RecoveryConfig` in
ticks; `RecoveryAssumption` is what `RecoveryConfig::validate` demands of them.
An `Instant` is kept as its age and stops ageing at `Horizon`, beyond every
comparison the code makes.  A `first_*` that is `None` is `Never`.

**Watch channels.**  `pending[s]` is what the channel of stage `s` holds unread:
the age of `observed_at`, and how long it has held something unread.  `Notify`
overwrites it as `send_replace` does, `Read` is `changed` with
`borrow_and_update`.  The executor reads a notification within `Lag` ticks;
with `Lag = 0` it may still be read before or after the watchdog's tick of the
same instant, in any order with the others.

**The loop.**  `pc` says where `run_supervisor` is; one action per outcome of
each phase.  `ready` is the set of `*_ready` flags, `health` the state of the
`HealthSnapshot` (`ok` exactly when it is "running").  The watchdog is one
action, as in the code: `WatchdogOrder` lists its checks in source order,
`Fails` gives the condition of each, and the first that fails ends the cycle.
A reason is the name of a check, or the class of a terminal event according to
what the fallback tests look for in its text (`DecoderBlamed`,
`IsCaptureIoFailure`, `IsNegotiationFailure`, `EncoderBlamed`); no text is
modelled.  The declarations after `start` are part of `Start` (every `last_*`
is `started`), stopping, reporting and backing off are all part of `Restart`.

**Environment.**  `Faults` names what it may do in a run: the peer (transmitter
or capture signal) may come and go, the interface may change or vanish,
construction and start may fail, terminal events may be posted, a SIGTERM may
arrive.  Stages in `Unsteady` may fall silent and resume; the others hand on in
every tick what they are given in it.  At `Settle` all of that ends, except for
hardware that never worked: `Hardware` (codec), `SupportsMmap`, `EmitsI420`.
A hung codec stays hung for the rest of the cycle.  A "silent" encoder takes
frames and returns none, a "blocking" one may stop taking them.  Frames of a
JPEG subsampling that the direct path cannot negotiate are reported on the bus
with the first frame.  The software codec is assumed to be installed.  A codec
that hangs and resumes within a tick of the watchdog while the source pauses at
the same time can be misjudged; nothing is claimed about that.

**Pipeline.**  One action per step of the bus thread that another thread can
see: the test of the flag, the pop, and the handling of a message, which is a
single send.  `SetPlaying` and `StartReturns`/`StartFails` are separate because
messages arrive between them, `RaiseStopFlag`, `FlushBus` and `StopReturns`
because the bus thread runs between them.  The message kinds are the ones the
code tells apart.  An event is dropped when the bounded channel is full; it
cannot be closed, because the supervisor drops its receiver only after `stop`
has joined the thread, so that branch has no action.  `recalculate_latency` is
part of handling a latency message and is assumed to return.  Every message has
a number, so that "the first" can be stated.

**Configuration and selection.**  A TOML file is one flat record of the fields
anything depends on.  A text is blank or one of the values the program tells
apart; numbers keep their unit.  `TxValid` and `RxValid` are `validate`, check by
check; the last one, on the difference of the two jitter latencies
(config.rs:634), follows from those on each of them and has no conjunct.  A host
is its model, the displays it has and the elements GStreamer has installed.
`BuildTxDescriptions` and `BuildRxDescriptions` choose the elements; `Parses` says
whether the parser then finds them all.

**A process.**  `Load`, `Override`, `CheckConfig`, `Announce` and `Bind` are `main` up
to its select: the file is validated before the options are applied and again
after.  The supervisor's actions have the names of their place in the loop; each
leaves in `writes` the calls it makes to the shared state, in source order, and
goes on when they are done: a `Write` is one acquisition of one lock, so that
`Healthz` and `Stats` come between any two.  Messages are numbered; `answered` is
the newest a client has been shown.  What a failure is blamed on is any subset of
what the tests on the pipeline's text allow (`Blamable`): the texts of the reasons
are the supervisors' modules' business.

**The installer.**  One action is one command.  A file is the release its content
comes from, or "partial".  Every command may fail; those that write a file may
leave half of it.  `Cut` is SIGKILL anywhere, or a second signal in `cleanup`,
whose EXIT trap is gone.  systemd knows what each service was started from
(`image`), which unit it has read (`loaded`), and restarts what crashes
(`Restart=on-failure`, the units in systemd/) until it gives up (its limit of
starts, which the units leave at the default).  `Crashing` are the services whose
process may fail, when it is started or at any later time.  Each loop of the
script goes through its files or services in the script's order (`Place`).

**History.**  `calm` (the environment had settled before the cycle started to
run, on the interface that resolution gives), `offlineRestarts` and `posted`
exist for properties only, and so do `links`, `answered` and `said` in `Service`,
`before` and `former` in `InstallTransaction`.

## 4. The runs

All of them finish; the number of states is for orientation.

| Run | What is asked | Instance | States |
| --- | --- | --- | --- |
| `RxVideo` | `TypeOK`, `HealthIsFresh`, `OfflineRestartsOnce`, `CalmCycleKeepsRunning`, `HotRetryOnce` | video; peer, construction and start faults, every stage unsteady, working hardware, `Lag = 1` | 1.1 M |
| `RxAudio` | `HealthIsFresh` with two media, the audio branch unsteady | audio; construction, start and terminal faults | 888 k |
| `RxLive` | `Recovers`, `RouteIsFollowed`, `SignalEndsService` | faulty decoder, two interfaces; route and start faults, SIGTERM | 91 k |
| `RxBurst` | violated, see section 5 | peer faults | |
| `TxVideo` | `TypeOK`, `HealthIsFresh`, `NoSilentWait`, `CalmCycleKeepsRunning` | video, all faults but the signal, every stage unsteady | 1.4 M |
| `TxAudio` | `HealthIsFresh`, `NoSilentWait` with two media | audio branch unsteady | 944 k |
| `TxDefects` | `SettledRestartLearns`, `Recovers`, `SignalEndsService` | silent encoder, no mmap, JPEG that is not 4:2:0, all at once; start and terminal faults, SIGTERM | 104 k |
| `TxMmap`, `TxBlocked` | violated, see section 5 | | |
| `Service` | `TypeOK`, `EncoderLimitsMatch`, `RendererHonoursWindow`, `FallbacksAreTakenOnce`, `HeartbeatsOutpaceWatchdog`, `FallbackIsTheSoftwareChoice`, `NoSilentSwitch`, `ShapeHidesDevice`, `NoAnswerIsTakenBack`, `FailedExplainsItself`, `StatsNameThePipeline` | see below | 926 k |
| `Install` | `TypeOK`, `NothingLost`, `ServicesMatch`, `ImplementsAtomic` | three former installations, with and without systemd and `--enable-service tx`, rx may crash | 3.4 M |
| `PipelineBus` | `TypeOK`, `TerminalIsFirst`, `NoSpuriousClose`, `QuietAfterStop`, `ImplementsLatch`, `StopEnds`, `TerminalEndsCycle` | channel of 2, up to 5 messages per cycle, any number of cycles | 162 k |

What they show, property by property:

* `HealthIsFresh`: while the pipeline runs, `ok` means that every output stage
  delivered in this cycle, the last time at most `MediaTimeout +
  MonitorInterval` ago; the bound is what one period of the watchdog costs.
* `CalmCycleKeepsRunning`: a cycle in which every stage delivers is never ended,
  for all orders in which heartbeats and watchdog ticks are taken, and for a lag
  of none (`TxVideo`) or one tick (`RxVideo`).  Its mutants are an early
  comparison and a missing condition on the first input.
* `OfflineRestartsOnce`: an offline transmitter costs one restart, then the
  receiver waits.
* `NoSilentWait`: the transmitter, whose source is local, never waits longer
  than the timeout and a period for any stage's first output.
* `HotRetryOnce`: the retry without backoff happens once.
* `Recovers`: from every settled state the service becomes, and stays, healthy,
  also with broken hardware where the configuration lets it choose other.
* `SettledRestartLearns`: with several defects that hide each other, each
  restart switches one of them off.  A terminal event that has been posted but
  not read when the watchdog ends the cycle is excepted: the next cycle reads
  it again.
* `RouteIsFollowed`, `SignalEndsService`: a changed interface, or a caught
  signal, is acted upon from every phase.
* `TerminalIsFirst`, `NoSpuriousClose`, `QuietAfterStop`, `StopEnds`,
  `TerminalEndsCycle`: the wrapper's side of it; `ImplementsLatch` puts them
  together.
* `EncoderLimitsMatch`, `RendererHonoursWindow`: on every host, after every
  fallback, what validation let pass suits what the selection takes.
* `FallbacksAreTakenOnce`, `FallbackIsTheSoftwareChoice`: a fallback takes its own
  cause away, in any order of fallbacks (a JPEG path in a source of the user's own
  is excepted, see section 5), and builds what the selection would build without
  the hardware; on a receiver without `avdec_h264` the second says that it builds
  nothing, which is what the code comes to.
* `HeartbeatsOutpaceWatchdog`: with a `media_timeout` of one frame and 25 ms or
  more, coalescing never looks like a stall.  Validation accepts less: 18 ms at
  60 fps is accepted, and a steady stream is then restarted for ever.
* `NoSilentSwitch`: no change of a single interface moves the stream to another.
* `ShapeHidesDevice`: no device name can look like an element in `/stats`.
* `NoAnswerIsTakenBack`, `FailedExplainsItself`, `StatsNameThePipeline`: what the
  two pages say, between any two writes.
* `NothingLost`: until the upgrade is done every former file is in its place or
  where it was saved, even after SIGKILL.  `ServicesMatch`: at a clean end exactly
  the units are enabled that were or were asked for, and of the services that do
  not fail exactly those are up that were or were asked for: a rollback stops what
  the upgrade newly started.  Whatever runs is what is installed, but for an active
  service that `--enable-service` does not name.  Of a service that fails it does
  not say whether it is up: section 5 says why.  `ImplementsAtomic`: all new, all
  as before, or an end that says neither.

### Bounds

`MonitorInterval = RestartBackoff = 1` and `MediaTimeout = 2` is the smallest
instance `validate` accepts; it has a tick at, before and after each boundary,
which is all the comparisons tell apart.  `Horizon` lies one beyond the largest
age a property or a check distinguishes.  One interface that can vanish and
return is enough for everything but a change from one to another, for which
`RxLive` has two.  `BusEventCapacity = 2` stands for 64: empty, neither, and
full are all met, and five messages fill the channel and leave three more, two
of which may be terminal.  Cycles are unbounded everywhere: a new one starts
from the states the last one left.  Deadlock is checked in every run; the
supervisors end by `Terminated`, a process and the installer by `Ended`.

`Service` has two kinds of processes.  Those started with `--check-config` cover
the configuration: every file that changes one or two fields of the defaults to
a boundary of a check, or to a value that selects something else, on 42 hosts for
the receiver and six for the transmitter (three models, displays, missing
elements); every file that changes one, under
each option; watchdogs of little more than a frame; every device name of up to
three of the characters that matter.  Checks relate at most two fields, except
the keyframe interval's three, two of which vary.  They end after three steps.
Four services are followed through their cycles: mmap capture on a Raspberry Pi
on a fixed interface, direct MJPEG with audio on a PC, a receiver on automatic
everything, and one with its own decoder and audio.  `MaxSaid = 9` messages allow
two or three cycles, with notes that overrun a ring of `NoteCap = 3` (32 in
the code).  `IntMax` and `LatenessMax` stand for limits TLC's integers have no room
for; the theorems hold for any.  Interfaces are two cards and a bridge, each
absent, up, down, without multicast or with an MTU one too small.

`Install` starts from a first installation, a receiver alone, and a complete
one, with `--enable-service tx` or without.  rx may crash at any time; tx does
not, and is the one that is named, up or down and enabled or not before.  That is
enough: the two roles go through the same code, each property speaks of one role
at a time, and the theorem holds for any `Crashing` and any `Request`.

### Fairness

Only `RxLive`, `TxDefects` and `PipelineBus` use it.  Weak
fairness of the supervisor's straight-line steps: a tokio task that can run is
run.  Weak fairness of `Tick`: time passes, and `PassTick` does not let it pass
over a due timer or beyond `Lag`.  Strong fairness of the `select!` branches:
`tokio::select!` without `biased` polls its branches in random order, so a
branch that is ready again and again is taken, though others may be taken first
or end the cycle.  Weak fairness of `Owes(s) /\ Buffer(s)`: a stage that works
hands on what it is given.  In `Pipeline`: the operating system runs the bus
thread, `timed_pop` returns within its poll interval, `stop` is straight-line.
Nothing is assumed about faults, the peer, or terminal events, and nothing says
that the environment ever settles: `Recovers` is conditional on it.

## 5. Where code and documentation disagree

Each is a run with one property that TLC violates.

* `RxBurst` / `ShortBurstIsNoDecoderStall`.  The comment at rx/src/main.rs:582
  says that a short burst followed by an offline transmitter is no decoder
  stall.  The test behind it asks for a first input older, and a last input not
  older, than the timeout, and a burst of length d meets that for the time d
  after the timeout has passed.  The cycle ends as "decoder produced no
  frames", and an automatic hardware decoder is given up for good.
* `TxMmap` / `WorkingMmapIsKept`.  The comment at tx/src/main.rs:123 gives a card
  without mmap as the case for retrying with automatic I/O.  The test looks for
  "video source", which the watchdog's encoder reasons contain as well, so an
  encoder failure takes mmap away from a card that supports it.
* `TxBlocked` / `SilentHardwareIsGivenUp`.  README.md:125 promises the software
  encoder when the hardware cannot produce the first video.  An encoder that
  stops taking frames also silences the ingress monitor in front of it
  (lib.rs:527, no queue between); the watchdog then blames the source and the
  same encoder is used again.

Four more were met without a run of their own.

* README.md:104 says that an upgrade restarts the services that are active.
  install.sh:729 does so only without `--enable-service`; with it the named
  services are restarted, and another one that is active goes on with the old
  binary until something else restarts it.  `ServicesMatch` therefore asks what
  is installed of the named ones only, when some are named.
* README.md:104 says that a rollback returns newly started services to their
  former state, and docs/hardware-validation.md:42 and
  scripts/test-install-transaction.sh:141 say the same.
  install-transaction.sh:101 stops such a service only if it is active.  One that
  was down before, that `--enable-service` starts and that fails is in its restart
  pause instead (`RestartFails`): the rollback does not stop it (`Undo`), ends as a
  complete one (`Exit`), and systemd then starts the former version (`Resume`).
  `ServicesMatch` therefore asks which services are up only of those that do not
  fail; that none of the others runs anything but what is installed, it asks of
  all.
* A source of the user's own that ends in `jpegdec` makes the description contain
  the text by which tx/src/main.rs:209 knows the direct MJPEG path.  It is then
  suspected in every cycle; `FallbacksAreTakenOnce` excepts such a source.
* A receiver without `avdec_h264`, for which the selection takes `openh264dec`,
  is given `avdec_h264` by the fallback (rx/src/main.rs:143) and never starts
  again.  `FallbackIsTheSoftwareChoice` says so of that host.

## 6. The proofs

| Theorem | States, for all values of the constants that meet the assumptions |
| --- | --- |
| `RxSupervisorProofs!TypeCorrect` | `Spec => []TypeOK` |
| `RxSupervisorProofs!HealthFresh` | `Spec => []HealthIsFresh` |
| `RxSupervisorProofs!OfflineOnce` | `Spec => []OfflineRestartsOnce` |
| `RxSupervisorProofs!HotRetry` | `Spec => HotRetryOnce` |
| `RxSupervisorProofs!NoFalseAlarm` | `Spec => []CalmCycleKeepsRunning` |
| `TxSupervisorProofs!TypeCorrect` | `Spec => []TypeOK` |
| `TxSupervisorProofs!HealthFresh` | `Spec => []HealthIsFresh` |
| `TxSupervisorProofs!NoWaitIsSilent` | `Spec => []NoSilentWait` |
| `TxSupervisorProofs!NoFalseAlarm` | `Spec => []CalmCycleKeepsRunning` |
| `PipelineProofs!SendersOutliveLoop` | `Spec => []NoSpuriousClose` |
| `PipelineProofs!NothingAfterStop` | `Spec => []QuietAfterStop` |
| `PipelineProofs!TypeCorrect` | `Spec => []TypeOK` |
| `PipelineProofs!FirstTerminal` | `Spec => []TerminalIsFirst` |
| `PipelineProofs!Implementation` | `Spec => ImplementsLatch` |
| `HeartbeatProofs!NotificationsKeepUp` | `Spec => []Coalesced` |
| `ServiceProofs!EncoderLimits` | `Spec => []EncoderLimitsMatch` |
| `ServiceProofs!RendererMatches` | `Spec => []RendererHonoursWindow` |
| `ServiceProofs!FallbacksOnce` | `Spec => []FallbacksAreTakenOnce` |
| `ServiceProofs!Fallback` | `Spec => []FallbackIsTheSoftwareChoice` |
| `ServiceProofs!InterfaceNeverSwitches` | `Spec => []NoSilentSwitch` |
| `ServiceProofs!AnswersStand` | `Spec => []NoAnswerIsTakenBack` |
| `ServiceProofs!HeartbeatsHeard` | `Spec => []HeartbeatsOutpaceWatchdog` |
| `StatsProofs!ServiceTypes` | `Spec => []TypeOK` |
| `StatsProofs!FailuresExplained` | `Spec => []FailedExplainsItself` |
| `StatsProofs!StatsTrue` | `Spec => []StatsNameThePipeline` |
| `StatsProofs!DeviceHidden` | `Spec => []ShapeHidesDevice` |
| `InstallProofs!TypeCorrect` | `Spec => []TypeOK` |
| `InstallProofs!NoFileLost` | `Spec => []NothingLost` |
| `InstallProofs!InstallIsAtomic` | `Spec => ImplementsAtomic` |
| `InstallProofs!ServicesAgree` | `Spec => []ServicesMatch` |

*Assumptions*: `RecoveryAssumption` (what `validate` checks),
`HorizonAssumption`, `LagAssumption` (the executor is faster than the timeout),
`NeverAssumption`, `LoopAssumption`, `RxAssumption` and `TxAssumption` (what hardware
and which medium there may be), `PipelineAssumption` (a capacity of at least
one), `InstallAssumption` (former installations and requests are sets of its
files and services), `ConfigAssumption` and `ServiceAssumption` (the
limits are numbers, the ring keeps a note), `ProcessAssumption` (what clap and serde
guarantee of the fields' types, a device being a sequence of characters),
`SituationAssumption` (finitely many interfaces).  TLC evaluates each in the runs of
its module.

*Health.*  `HealthIsFresh` is not inductive: it says nothing of a service that
is not yet healthy, and nothing relates an age to the time of the next tick.
`LoopInv`, proved in `LoopProofs` for any set of watched stages and used by both
supervisors, adds that nothing of a cycle is left when the next begins
(`CleanInv`), that health says "running" only with every output stage ready
(`ReadyInv`, `HealthyInv`), and that the age of a ready stage exceeds
`MediaTimeout` by no more than the watchdog's timer has run since its last tick
(`AgeInv`, `TimerInv`).  The one step with substance is the tick of the watchdog
that does not break: it re-arms the timer, and `NoStallAtTick` says that every
stage was then within the timeout.

*No false alarm.*  `CalmProbes` bounds, in a calm cycle, what the watchdog knows of
a stage by what the executor has not read yet: a notification that is unread for
at most `Lag` ticks, and an Instant one tick older than that; a stage never heard
of has an input no older either.  As `Lag < MediaTimeout` no check can fail
(`CalmBound`, then `CalmChecks` for each supervisor's own list).  The step with
substance is the tick of the clock, which needs that every stage has handed on
what it was given before time passes (`CalmTickDelivers`), and for that `CalmPhase`:
the environment settled before the cycle began, so the peer sends, the card
captures, and no terminal event is posted.

*Silent waits of the transmitter.*  `NoSilentWait` asks for a bound on the age of a
first input while an output is missing, but the checks of the watchdog compare
different stages with one another.  `WaitInv` follows them: while an encoder is
not ready, the start of the cycle, or once the source was heard its first frame,
is at most `MediaTimeout + timer` ago (`SourceWait`), and so is the first frame of
an encoder whose packetizer is missing (`PacketWait`).  A tick that does not break
re-establishes both, from the checks it has passed (`WaitRearm`).

*Offline restarts.*  After the first restart with the transmitter offline the
new cycle is `Quiet`: nothing was ever heard, so no check but the interface's
can fail (`QuietPasses`), and nothing can be delivered (`QuietStays`).

*The pipeline.*  `PipelineInv` says when the bus thread exists (`ThreadLife`:
from the return of `start` to the drop; it ends only when the flag is up, and
the flag goes up only after the loop was left), and that `terminal_sent` tells
whether the channel was written (`SentOnce`).  With it, every step maps to a
step of the latch or to a stutter under `phase <- Phase, latched <- terminal`
(`LatchInit`, `LatchNext`).

*The first terminal message.*  `TerminalIsFirst` relates the channel to all that
was ever posted in the cycle.  `StreamInv` follows the messages in between: the
bus holds the latest ones in order (`OnTheBus`), the thread's message is the one
popped last (`InHand`), no terminal message has been passed over before one was
sent (`PassedNone`), and the message in the thread's hands, if it is to be
sent, is the first (`FirstInHand`).  The last is stated apart because it must
outlive the flush, after which the bus says nothing of its past any more.

*Heartbeats.*  `HeartbeatProofs` gives a probe buffers at most `Gap` ms apart, in
any rhythm.  `CoalescedInv`: what is stored is what was last sent, and the last
buffer came less than 25 ms after it; so the next notification comes less than
`25 + Gap` ms after the last.  `HeartbeatsHeard` is about the steady stream whose
frame times are rounded to milliseconds, as validation sees it, and about
`LongestSilence`, a function that is recursive in the frame.  The library's
induction theorems cannot be used (below), so what holds after every frame is
shown by its least counterexample: a set of naturals that is not empty has a
least member (`LeastNatural`, from `WFMin`), which is neither the first frame
(`FirstFrame`) nor one that follows a good one (`NextFrame`).  That the recursion has
a value at all is shown in the same way (`FramesExist`).

*Configuration and selection.*  `ChoiceInv` says where a pipeline comes from: it
is `Descriptions` of the configuration, the interface and a set of fallbacks,
the configuration has its types and has been validated since the options were
applied, and the codec is given up only where its choice was automatic
(`GivenUp`).  None of the four properties is inductive without that link.  The
rest is about the operators, for every host: `ManagedIsValidated` (an encoder that
is told bitrate and GOP is one `validate` looked at), `CeilDivBound` (the rounded
keyframe interval bounds the real one), `RendererOfValid`, `TxFallback` and
`RxFallback` (given up, and not installed, come to the same selection).

*Interfaces.*  `LinksInv`: the interface is the resolution of the interfaces that
were read.  `AutoDoesNotSwitch`: with one candidate only, adding, removing or
changing any one interface leaves it, none or two.

*Answers.*  `MarksInv` follows the writes that are queued: a mark's number in the
health write is at least health's (`Queued`), each stats write of a mark follows
the health write of the same mark, so `stats.mark` never exceeds `health.mark`.
`answered` is one of the two.

*What /stats says.*  The mutual order of the supervisor's writes matters only where
a mark is involved, so `StatsInv` takes those still to come as a set, `Pending`.
`ShapeInv` bounds what one of them may set, and the notes; `PlaceInv` says that
the state in stats is that of the supervisor's place in its loop or that a mark is
on its way, and which marks may be; `FailureInv`, that once a failure is marked
nothing on its way touches last_error or the notes but the next mark; `NamesInv`,
that the fields of the pipeline are right or have a right write on its way, and
that none is on its way once the mark of the new cycle is made.

*Names in descriptions.*  The device's name is any sequence of characters.  What
quoting and splitting compute for it is recursive in its length, and shown by the
least counterexample too: each has a value (`EscapesExist`, `ReadsExist`), and the
reader that stands before a quoted value stands behind it with the value read,
inside the same segment (`ValueIsRead`, `SourceIsRead`).  So the description of a
source has two segments, whose leading words are the element and the media type
(`SourceShape`).

*The installer.*  `PhaseInv` says what the place in the script tells of its notes.
`CopyInv`: before activation nothing is touched, and every file that was there is
copied by the time the script believes it.  `PutInv`: what was put in place is new.
`RollbackInv`: what the rollback has passed is as before, or it is noted that it
is not and the copy still exists.  `EndInv` closes the argument for an end with
the directory of copies removed.  `NothingLost` follows, and with it each command
maps to a step of `AtomicInstall` or to a stutter.  For the services the same
invariants are carried on by `UntouchedInv` (what runs is what was installed),
`UpgradedInv` (what was restarted is new) and `RevertedInv` (what the rollback of the
services has passed is as the script noted it, if nothing failed).  `NotesInv` and
`FormerInv` join the two ends: the notes are those of the services before the
upgrade, because nothing but a restart that was asked for changes which are enabled,
or up among those that do not fail.  systemd's own step, a restart of what crashed or
its end, must keep them all at any time (`SystemdRuns`); `PauseInv`, that only a
service that fails is in a restart pause, keeps it off the others.

*Model-checked only*: liveness (`Recovers`, `SignalEndsService`, `RouteIsFollowed`,
`StopEnds`, `TerminalEndsCycle`), which rests on fairness and ENABLED, and those the
prover does not handle; and `SettledRestartLearns`, an action property whose argument
follows hidden hardware defects through a whole cycle.  The library's induction theorems take an
operator as a parameter, which the installed provers cannot instantiate; where
induction is needed it goes by the least counterexample.  No module proved about
reaches a RECURSIVE operator.

## 7. What is not modelled

* The counters of frames, chunks, QoS and underruns, and the latency figures of
  `/stats`: nothing reads them back.  `set_state` (metrics.rs:157) is never called.
* Caps and element properties that no decision depends on: GStreamer's language.
* TOML and command-line syntax: serde and clap, external; a file may fail to load.
  Tracing.
* The installer before its transaction: download, checksum, options, the service
  user, templates of configurations.  `enabled-runtime` and masked units (the model
  knows enabled and not enabled; a rollback makes the former permanent,
  install-transaction.sh:40).
* A service in its restart pause is not active.  Before the upgrade it is noted as
  down, in a rollback it is not stopped; whether it is up in the end is left to
  systemd, and `ServicesMatch` does not say.
* Packaging, CI, smoke test: straight-line scripts and data.  Of the units only
  `Restart` and `RestartSec` are used.

## 8. Plan

Done: supervisors with the pipeline's stages and health; the pipeline wrapper
and its latch; heartbeats in milliseconds; configuration, selection, interface
choice, service state and HTTP pages; the installer's transaction; and the proofs
of all their invariants, of both refinements and of the receiver's action
property.  Left is `SettledRestartLearns`: the strengthening follows, in a settled
cycle of the transmitter, which defect is in use and which stage it silences,
along `CalmInv`.
