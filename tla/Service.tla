-------------------------------- MODULE Service --------------------------------
(***************************************************************************)
(* One process, tx or rx, from its command line to its end: configuration, *)
(* the check or the service, the pipelines its supervisor builds, what it  *)
(* writes for /healthz and /stats under two locks, and the HTTP server     *)
(* that reads them.                                                        *)
(*                                                                         *)
(* The supervisors' timing is TxSupervisor's and RxSupervisor's; here a    *)
(* cycle ends whenever it likes, and every write is a step of its own, for *)
(* each of them awaits a lock.                                             *)
(***************************************************************************)
EXTENDS Descriptions, PipelineText, HeartbeatNotifier

CONSTANTS
    Rehearsal,          \* processes started with --check-config: role, file, cli, hosts
    Start,              \* processes started without
    Situation,          \* what resolution may find in /sys/class/net
    NoteCap,            \* the notes that are kept (32)
    MaxSaid             \* bound: no new cycle or event after that many messages

ASSUME ServiceAssumption == NoteCap \in Nat \ {0} /\ MaxSaid \in Nat

DefaultOf(r) == IF r = "tx" THEN TxDefault ELSE RxDefault

\* clap and serde give every field its type; there is no limit to the hosts.
ASSUME ProcessAssumption ==
    \A p \in Rehearsal \union Start :
        /\ p.role \in {"tx", "rx"}
        /\ DOMAIN p.file = DOMAIN DefaultOf(p.role)
        /\ IF p.role = "tx" THEN TxTyped(p.file) ELSE RxTyped(p.file)
        /\ DOMAIN p.cli \subseteq {"interface", "device", "audio_device", "audio_enabled",
                                   "bind_addr", "port", "fullscreen"}
        /\ \A f \in {"fullscreen", "audio_enabled"} \intersect DOMAIN p.cli :
              p.cli[f] \in BOOLEAN
        /\ "device" \in DOMAIN p.cli => p.cli.device \in Seq(STRING)
        /\ \A h \in p.hosts : h = [model |-> h.model, displays |-> h.displays,
                                   installed |-> h.installed]

\* A host has finitely many interfaces.
ASSUME SituationAssumption == \A l \in Situation : IsFiniteSet(DOMAIN l)

None == "null"
NoPipeline == [renderer |-> None]
NoError == 0
Reason == -1            \* last_error as set_last_error leaves it, until mark_failed

VARIABLES
    role, host, cli,    \* given
    check,              \* --check-config
    phase,              \* of main
    config,             \* the configuration
    sup,                \* where the supervisor is
    writes,             \* the writes it has yet to do before it goes on
    interface,          \* interface_name
    links,              \* what it was resolved from, until the pipeline is built
    given_up,           \* force_software_*, force_capture_auto, force_video_conversion
    pipeline,           \* the descriptions of the pipeline it has
    said,               \* the messages so far: they are numbered
    health, stats,      \* HealthSnapshot, StatsSnapshot
    answered,           \* the newest state an HTTP client has been shown
    exit                \* the status of the process

startVars == <<role, host, cli, check>>
supVars == <<sup, links, interface, given_up, pipeline>>
snapshots == <<health, stats>>
vars == <<startVars, phase, config, supVars, writes, said, snapshots, answered, exit>>

Valid(c) == IF role = "tx" THEN TxValid(c) ELSE RxValid(c, host)

Given(p) == role = p.role /\ host \in p.hosts /\ cli = p.cli /\ config = p.file

Init ==
    /\ \/ check = TRUE /\ \E p \in Rehearsal : Given(p)
       \/ check = FALSE /\ \E p \in Start : Given(p)
    /\ phase = "load" /\ exit = None
    /\ sup = "resolve" /\ writes = <<>> /\ links = <<>> /\ interface = None
    /\ given_up = {} /\ pipeline = NoPipeline
    /\ said = 0 /\ answered = 0
    /\ health = [ok |-> FALSE, state |-> "starting", mark |-> 0]
    /\ stats = [state |-> "starting", mark |-> 0, last_error |-> NoError, notes |-> <<>>,
                restarts |-> 0, interface |-> None, pipeline |-> NoPipeline,
                renderer |-> None, audio |-> FALSE]

-----------------------------------------------------------------------------
\* main

Exits(status) == phase' = "ended" /\ exit' = status

\* The file is read, and validated before the command line is looked at; it may
\* also be missing, no TOML, or hold an unknown key.
Load ==
    /\ phase = "load"
    /\ \/ Valid(config) /\ phase' = "override" /\ UNCHANGED exit
       \/ Exits("error")
    /\ UNCHANGED <<startVars, config, supVars, writes, said, snapshots, answered>>

\* cli: the options that set a field, and --audio-device enables audio too.
Overridden(c) ==
    [f \in DOMAIN c |->
        IF f \in DOMAIN cli THEN cli[f]
        ELSE IF f = "audio_enabled" /\ "audio_device" \in DOMAIN cli THEN TRUE
        ELSE c[f]]

Override ==
    /\ phase = "override"
    /\ config' = Overridden(config)
    /\ IF Valid(Overridden(config))
       THEN phase' = (IF check THEN "check" ELSE "announce") /\ UNCHANGED exit
       ELSE Exits("error")
    /\ UNCHANGED <<startVars, supVars, writes, said, snapshots, answered>>

\* Mutant: libavcodec with its default threads.
MutantSoftwareOnly(c) ==
    IF role = "tx" THEN [c EXCEPT !.encoder_element = ZeroLatencyX264]
    ELSE [c EXCEPT !.decoder_element = "avdec_h264"]

\* What a cycle's configuration says once the hardware codec is given up.
SoftwareOnly(c) ==
    IF role = "tx" THEN [c EXCEPT !.encoder_element = ZeroLatencyX264]
    ELSE [c EXCEPT !.decoder_element = LowLatencyAvdecH264]

\* Mutant: the capture mode is given up, and used again.
MutantCycleConfig(c, gone) == IF "codec" \in gone THEN SoftwareOnly(c) ELSE c

CycleConfig(c, gone) ==
    LET codec == IF "codec" \in gone THEN SoftwareOnly(c) ELSE c
    IN IF "capture" \in gone THEN [codec EXCEPT !.capture_io_mode = "auto"] ELSE codec

Descriptions(c, name, gone, h) ==
    IF role = "tx" THEN BuildTxDescriptions(CycleConfig(c, gone), name, "jpeg" \in gone, h)
    ELSE BuildRxDescriptions(CycleConfig(c, gone), name, h)

\* --check-config builds the pipeline, for no interface in particular.
CheckConfig ==
    /\ phase = "check"
    /\ LET d == Descriptions(config, None, {}, host)
       IN IF Parses(role, d, host) THEN pipeline' = d /\ Exits("ok")
          ELSE UNCHANGED pipeline /\ Exits("error")
    /\ UNCHANGED <<startVars, config, sup, links, interface, given_up, writes, said,
                   snapshots, answered>>

-----------------------------------------------------------------------------
\* SharedServiceState.  A mark is written to health, and then to stats.

\* Mutant: nothing is cut off.
MutantKeepNotes(notes, n) == Append(notes, n)

\* The notes that are kept.
Newest(notes) ==
    IF Len(notes) > NoteCap THEN SubSeq(notes, Len(notes) - NoteCap + 1, Len(notes)) ELSE notes

PushNote(notes, n) == Newest(Append(notes, n))

SetHealth(state, n) ==
    [lock |-> "health", set |-> [ok |-> state = "running", state |-> state, mark |-> n]]

\* One write of stats, with or without a note.
SetStats(fields) == [lock |-> "stats", set |-> fields, note |-> 0]
AddNote(n) == [lock |-> "stats", set |-> <<>>, note |-> n]

\* Mutant: a failure leaves last_error to set_last_error.
MutantMarkFields(state, n) ==
    IF state = "running" THEN [state |-> state, mark |-> n, last_error |-> NoError]
    ELSE [state |-> state, mark |-> n]

\* What a mark sets in stats: of the four two touch last_error.
MarkFields(state, n) ==
    IF state = "running" THEN [state |-> state, mark |-> n, last_error |-> NoError]
    ELSE IF state = "failed" THEN [state |-> state, mark |-> n, last_error |-> n]
    ELSE [state |-> state, mark |-> n]

\* Mutant: stats first.
MutantMark(state, n) ==
    <<[lock |-> "stats", set |-> MarkFields(state, n), note |-> n], SetHealth(state, n)>>

\* mark_ready, mark_waiting, mark_failed, mark_stopping, with the n-th message.
Mark(state, n) ==
    <<SetHealth(state, n), [lock |-> "stats", set |-> MarkFields(state, n), note |-> n]>>

SetError == SetStats([last_error |-> Reason])
Bump == SetStats([restarts |-> stats.restarts + 1])

\* The supervisor has writes to do, with k messages among them.
Writes(ws, k) == writes' = ws /\ said' = said + k

\* stats with the fields that a write sets.
Updated(fields) ==
    [f \in DOMAIN stats |-> IF f \in DOMAIN fields THEN fields[f] ELSE stats[f]]

Write ==
    /\ phase = "serve" /\ writes # <<>>
    /\ LET w == Head(writes)
       IN IF w.lock = "health" THEN health' = w.set /\ UNCHANGED stats
          ELSE /\ stats' = IF w.note = 0 THEN Updated(w.set)
                           ELSE [Updated(w.set) EXCEPT !.notes = PushNote(stats.notes, w.note)]
               /\ UNCHANGED health
    /\ writes' = Tail(writes)
    /\ UNCHANGED <<startVars, phase, config, supVars, said, answered, exit>>

\* Nobody reads yet: the facts and the first notes.
FirstNotes ==
    IF role = "tx" THEN 2
    ELSE IF ~config.audio_enabled THEN 3
    ELSE LET offset == config.audio_jitter_latency_ms - config.jitter_latency_ms
         IN IF offset > config.sync_tolerance_ms \/ -offset > config.sync_tolerance_ms
            THEN 5 ELSE 4

Announce ==
    /\ phase = "announce"
    /\ stats' = [stats EXCEPT
          !.audio = config.audio_enabled,
          !.renderer = IF role = "tx" THEN "not_applicable" ELSE config.renderer,
          !.notes = Newest([i \in 1..FirstNotes |-> i])]
    /\ said' = FirstNotes
    /\ phase' = "bind"
    /\ UNCHANGED <<startVars, config, supVars, writes, health, answered, exit>>

\* spawn_http_server; the address may be taken.
Bind ==
    /\ phase = "bind"
    /\ (phase' = "serve" /\ UNCHANGED exit) \/ Exits("error")
    /\ UNCHANGED <<startVars, config, supVars, writes, said, snapshots, answered>>

-----------------------------------------------------------------------------
\* run_supervisor

At(place) == phase = "serve" /\ sup = place /\ writes = <<>>

Unserved == UNCHANGED <<startVars, phase, config, snapshots, answered, exit>>

\* A cycle has failed: counted first, then said.
Fails(before, after, notes) ==
    Writes(before \o <<Bump>> \o after \o Mark("failed", said + notes + 1), notes + 1)

Resolve ==
    /\ At("resolve")
    /\ \E found \in Situation :
         /\ interface' = ResolveInterfaceNameForRtp(
                            InterfaceOverride(config), config.rtp_mtu, found)
         /\ IF interface' = NoInterface
            THEN /\ Fails(<<SetStats([interface |-> None])>>, <<>>, 0)
                 /\ sup' = "backoff" /\ UNCHANGED links
            ELSE /\ Writes(<<SetStats([interface |-> interface'])>>, 0)
                 /\ sup' = "build" /\ links' = found
    /\ UNCHANGED <<given_up, pipeline>>
    /\ Unserved

AutoCodec == (IF role = "tx" THEN config.encoder_element ELSE config.decoder_element)
                 \in {"", "auto"}

\* set_pipeline_descriptions, and of a receiver set_renderer.
Announced(d) ==
    <<SetStats([pipeline |-> d])>>
    \o (IF role = "rx" THEN <<SetStats([renderer |-> d.renderer])>> ELSE <<>>)

\* Mutant: of a pipeline in software the descriptions are not written.
MutantBuild ==
    /\ At("build")
    /\ LET d == Descriptions(config, interface, given_up, host)
       IN Parses(role, d, host) /\ pipeline' = d
          /\ Writes((IF "codec" \in given_up THEN <<>> ELSE Announced(d))
                    \o Mark("starting_pipeline", said + 1), 1)
    /\ sup' = "start" /\ links' = <<>>
    /\ UNCHANGED <<interface, given_up>>
    /\ Unserved

Build ==
    /\ At("build")
    /\ LET d == Descriptions(config, interface, given_up, host)
       IN Parses(role, d, host) /\ pipeline' = d
          /\ Writes(Announced(d) \o Mark("starting_pipeline", said + 1), 1)
    /\ sup' = "start" /\ links' = <<>>
    /\ UNCHANGED <<interface, given_up>>
    /\ Unserved

\* The first time, at once again with the software codec.
BuildFails ==
    /\ At("build")
    /\ Fails(<<>>, <<>>, 0)
    /\ IF AutoCodec /\ "codec" \notin given_up
       THEN sup' = "resolve" /\ given_up' = given_up \union {"codec"}
       ELSE sup' = "backoff" /\ UNCHANGED given_up
    /\ links' = <<>> /\ pipeline' = NoPipeline
    /\ UNCHANGED interface
    /\ Unserved

\* What a failure of a pipeline may be blamed on.  The direct MJPEG path is read
\* off the text "! jpegdec ! video/x-raw", which a source may end in, too.
Blamable(p) ==
    IF role = "tx"
    THEN {b \in {"codec", "capture", "jpeg"} :
            CASE b = "codec" -> AutoCodec /\ p.encoder.element = "v4l2h264enc"
              [] b = "capture" -> config.source_element = "" /\ p.source[3] = "mmap"
              [] b = "jpeg" -> \/ p.decoder = "jpegdec" /\ ~p.convert
                               \/ config.source_element = "custom ! jpegdec" /\ config.source_caps = ""}
    ELSE IF AutoCodec /\ p.decoder = "v4l2h264dec" THEN {"codec"} ELSE {}

\* A note for each; before and after it what else becomes last_error.
GivesUp(before, after) ==
    \E blamed \in SUBSET Blamable(pipeline) :
        LET n == Cardinality(blamed)
        IN /\ given_up' = given_up \union blamed
           /\ Fails(before \o [i \in 1..n |-> AddNote(said + i)], after, n)

StartFails ==
    /\ At("start")
    /\ GivesUp(<<>>, <<>>)
    /\ sup' = "backoff"
    /\ UNCHANGED <<links, interface, pipeline>>
    /\ Unserved

Started ==
    /\ At("start")
    /\ Writes(Mark(IF config.audio_enabled THEN "waiting_for_media" ELSE "waiting_for_video",
                   said + 1), 1)
    /\ sup' = "wait"
    /\ UNCHANGED <<links, interface, given_up, pipeline>>
    /\ Unserved

\* Every output has delivered.
Ready ==
    /\ At("wait")
    /\ Writes(Mark("running", said + 1), 1)
    /\ sup' = "media"
    /\ UNCHANGED <<links, interface, given_up, pipeline>>
    /\ Unserved

\* handle_tx_event, handle_rx_event.
Event ==
    /\ At("wait") \/ At("media")
    /\ said < MaxSaid
    /\ Writes(<<AddNote(said + 1)>>, 1)
    /\ UNCHANGED supVars
    /\ Unserved

\* break: an error event has left its text in last_error, anything else has not.
Restart ==
    /\ At("wait") \/ At("media")
    /\ GivesUp(<<>>, <<SetError>>) \/ GivesUp(<<SetError>>, <<SetError>>)
    /\ sup' = "backoff"
    /\ UNCHANGED <<links, interface, pipeline>>
    /\ Unserved

BackoffOver ==
    /\ At("backoff")
    /\ said < MaxSaid
    /\ sup' = "resolve"
    /\ UNCHANGED <<links, interface, given_up, pipeline, writes, said>>
    /\ Unserved

Shutdown ==
    /\ At("backoff") \/ At("wait") \/ At("media")
    /\ Writes(Mark("stopping", said + 1), 1)
    /\ sup' = "returned"
    /\ UNCHANGED <<links, interface, given_up, pipeline>>
    /\ Unserved

-----------------------------------------------------------------------------
\* The select of main, and the HTTP server

SupervisorReturned ==
    /\ At("returned")
    /\ Exits("ok")
    /\ UNCHANGED <<startVars, config, supVars, writes, said, snapshots, answered>>

ServerEnded ==
    /\ phase = "serve"
    /\ Exits("error")
    /\ UNCHANGED <<startVars, config, supVars, writes, said, snapshots, answered>>

Shown(mark) == answered' = IF mark > answered THEN mark ELSE answered

Healthz ==
    /\ phase = "serve"
    /\ Shown(health.mark)
    /\ UNCHANGED <<startVars, phase, config, supVars, writes, said, snapshots, exit>>

Stats ==
    /\ phase = "serve"
    /\ Shown(stats.mark)
    /\ UNCHANGED <<startVars, phase, config, supVars, writes, said, snapshots, exit>>

Ended == phase = "ended" /\ UNCHANGED vars

Next ==
    \/ Load \/ Override \/ CheckConfig \/ Announce \/ Bind
    \/ Write
    \/ Resolve \/ Build \/ BuildFails \/ StartFails \/ Started
    \/ Ready \/ Event \/ Restart \/ BackoffOver \/ Shutdown
    \/ SupervisorReturned \/ ServerEnded \/ Healthz \/ Stats
    \/ Ended

Spec == Init /\ [][Next]_vars

-----------------------------------------------------------------------------
\* Properties

\* Every variable has its type (HealthSnapshot and StatsSnapshot,
\* metrics.rs:6-52); stats holds at most NoteCap notes.
TypeOK ==
    /\ role \in {"tx", "rx"} /\ check \in BOOLEAN
    /\ phase \in {"load", "override", "check", "announce", "bind", "serve", "ended"}
    /\ exit \in {None, "ok", "error"} /\ (phase = "ended" <=> exit # None)
    /\ DOMAIN config = DOMAIN DefaultOf(role)
    /\ sup \in {"resolve", "build", "start", "wait", "media", "backoff", "returned"}
    /\ \A i \in DOMAIN writes : writes[i].lock \in {"health", "stats"}
    /\ given_up \subseteq {"codec", "capture", "jpeg"}
    /\ said \in Nat /\ answered \in 0..said
    /\ health.ok \in BOOLEAN /\ health.mark \in 0..said
    /\ stats.mark \in 0..said /\ stats.last_error \in {Reason} \union 0..said
    /\ stats.restarts \in Nat
    /\ Len(stats.notes) <= NoteCap

Built == pipeline # NoPipeline

\* The limits config.rs checks for an encoder it takes to be managed are those
\* of the encoders lib.rs then selects and sets bitrate and GOP of: 4:2:0
\* needs even sizes, V4L2 controls are signed 32-bit, and after a lost packet
\* the next keyframe comes before the watchdog gives the stream up
\* (config.rs:479-518, lib.rs:555-605).
EncoderLimitsMatch ==
    Built /\ role = "tx" /\ Managed(pipeline.encoder) =>
        /\ config.width % 2 = 0 /\ config.height % 2 = 0
        /\ config.bitrate_kbps > 0 /\ config.bitrate_kbps <= IntMax \div 1000
        /\ config.gop > 0
        /\ config.gop * 1000 < config.media_timeout_ms * config.fps

\* On every host a renderer that is chosen for the receiver shows what was
\* asked for, a window or the whole screen: config.rs refuses a window where
\* lib.rs would take kmssink, and lib.rs takes ximagesink for windows only
\* (config.rs:589-597, lib.rs:826-860, 984-1005).
RendererHonoursWindow ==
    Built /\ role = "rx" /\ config.sink_element = "" =>
        pipeline.sink.fullscreen = config.fullscreen

\* A fallback is taken once: whatever has been given up, in whichever order, the
\* pipeline built without it gives the tests of the supervisor nothing more to
\* blame for it (tx/src/main.rs:206-213, lib.rs:484-520).  With a source of the
\* user's own the direct MJPEG path may be suspected where there is none.
FallbacksAreTakenOnce ==
    LET fallbacks == IF role = "rx" THEN {"codec"}
                     ELSE IF config.source_element # "" THEN {"codec", "capture"}
                     ELSE {"codec", "capture", "jpeg"}
    IN Built =>
         \A gone \in SUBSET fallbacks :
             Blamable(Descriptions(config, interface, gone, host)) \intersect gone = {}

\* Notifications that are coalesced still outpace the watchdog: a stream with
\* the configured frame rate is never silent for media_timeout, if that leaves
\* room for one interval of the notifier beside that of the frames; validation
\* asks for the latter only (lib.rs:19-47, config.rs:673-683).
HeartbeatsOutpaceWatchdog ==
    LET interval == CeilDiv(1000, config.fps)
    IN check /\ Built
         /\ config.media_timeout_ms >= HeartbeatNotifyIntervalMs + interval
       => LongestSilence(1 + (4 * HeartbeatNotifyIntervalMs) \div interval, config.fps)
            < config.media_timeout_ms

WithoutHardware(h) == [h EXCEPT !.installed = @ \ {"v4l2h264enc", "v4l2h264dec"}]

\* Giving up the hardware codec gives the very pipeline that would be chosen on
\* the same host without that codec: the texts in tx/src/main.rs:130 and
\* rx/src/main.rs:143 agree with the selection in lib.rs, and so do the stages
\* that depend on them.  On a receiver without avdec_h264 it gives no pipeline
\* at all, although one is selected and runs there until then.
FallbackIsTheSoftwareChoice ==
    Built /\ AutoCodec =>
        LET taken == Descriptions(config, interface, {"codec"}, host)
        IN IF role = "rx" /\ "avdec_h264" \notin host.installed
           THEN ~Parses(role, taken, host)
           ELSE taken = Descriptions(config, interface, {}, WithoutHardware(host))

Resolved(l) == ResolveInterfaceNameForRtp(InterfaceOverride(config), config.rtp_mtu, l)

\* l differs from what was read in one interface, there or not.
OneApart(l) ==
    \E name \in DOMAIN links \union DOMAIN l :
        /\ (DOMAIN links \union {name}) = (DOMAIN l \union {name})
        /\ \A other \in DOMAIN l \ {name} : l[other] = links[other]

\* The change of one interface never moves a service to another one: it stays,
\* or resolution fails and says so (README.md:207, "to avoid sending to the
\* wrong one").
NoSilentSwitch ==
    interface # NoInterface /\ links # <<>> =>
        \A l \in Situation : OneApart(l) => Resolved(l) \in {interface, NoInterface}

\* A value in a description stays one value: whatever characters the name of
\* the device holds, /stats shows the elements of the source and nothing of
\* the name (lib.rs quoted, metrics.rs:244-300).
ShapeHidesDevice ==
    Built /\ role = "tx" /\ config.source_element = "" =>
        PipelineShape(<<"v4l2src", " ", "device=">> \o Quoted(config.device)
                      \o <<" ", "io-mode", " ", "!", " ", "video", "/", "x-raw", ",", "width">>)
            = <<<<"v4l2src">>, <<"video", "/", "x-raw">>>>

\* A client of the HTTP server that has been shown a state, by either page, is
\* never shown an older one by /healthz: health is written first.
NoAnswerIsTakenBack == answered <= health.mark

\* /stats that says failed says why, in last_error and in the newest note, at
\* any instant between the writes of one failure and those of the next.
FailedExplainsItself ==
    stats.state = "failed" =>
        /\ stats.last_error = stats.mark
        /\ stats.notes[Len(stats.notes)] = stats.mark

\* What /stats says of interface, pipeline, renderer and audio while a pipeline
\* starts, waits or runs is true of the one there is, over fallbacks and
\* changes of the interface.
StatsNameThePipeline ==
    stats.state \notin {"starting", "failed", "stopping"} =>
        /\ stats.interface = interface
        /\ stats.pipeline = pipeline
        /\ role = "rx" => stats.renderer = pipeline.renderer
        /\ stats.audio = (pipeline.audio # <<>>)
=============================================================================
