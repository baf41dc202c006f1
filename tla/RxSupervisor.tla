---------------------------- MODULE RxSupervisor ----------------------------
(***************************************************************************)
(* The receiver's supervisor (rx/src/main.rs): SupervisorLoop with the     *)
(* receiver's stages, its watchdog, and its fallback from the hardware to  *)
(* the software H.264 decoder.  The environment is the transmitter, the    *)
(* network interface, the pipeline's elements and the operator's SIGTERM.  *)
(***************************************************************************)
EXTENDS SupervisorLoop

CONSTANTS
    AudioEnabled,    \* config.audio.enabled
    DecoderElement,  \* config.video.decoder_element, trimmed
    Hardware         \* v4l2h264dec on this host: "absent", "working" or "faulty"

ASSUME RxAssumption ==
    /\ AudioEnabled \in BOOLEAN
    /\ DecoderElement \in {"auto", "v4l2h264dec", "avdec_h264"}
    /\ Hardware \in {"absent", "working", "faulty"}

VARIABLES
    forceSoftwareDecoder,  \* force_software_decoder, lives as long as the process
    usesV4l2Decoder,       \* uses_v4l2_decoder of this cycle
    online,                \* environment: the transmitter is sending
    offlineRestarts        \* history: media restarts since the transmitter went offline

codecVars == <<forceSoftwareDecoder, usesV4l2Decoder>>
rxVars == <<codecVars, online, offlineRestarts>>
vars == <<probeVars, loopVars, rxVars>>

-----------------------------------------------------------------------------
\* Stages of the pipeline and their monitors

VideoStage == {"video_ingress", "video_codec", "video"}
AudioStage == IF AudioEnabled THEN {"audio_ingress", "audio"} ELSE {}
Stage == VideoStage \union AudioStage

IngressStage == {"video_ingress", "audio_ingress"} \intersect Stage
InputStage == {"video_ingress", "video_codec", "audio_ingress"} \intersect Stage
OutputStage == {"video_codec", "video", "audio"} \intersect Stage
RenderStage == {"video", "audio"} \intersect Stage

\* A stage hands on only what the stage before it has been given.
Upstream == [s \in Stage \ IngressStage |->
               CASE s = "video_codec" -> "video_ingress"
                 [] s = "video" -> "video_codec"
                 [] s = "audio" -> "audio_ingress"]

\* Reasons to end a cycle: the watchdog's, in the order it checks them, and
\* the classes of terminal event ("decoder_error": one that names
\* v4l2h264dec or a failed negotiation).
WatchdogOrder ==
    <<"interface_changed", "decoder_silent", "render_silent", "audio_silent",
      "decoder_stalled", "video_stream_stalled", "render_stalled", "audio_stalled">>
WatchdogReason == {WatchdogOrder[i] : i \in 1..8}
MediaReason == WatchdogReason \ {"interface_changed"}
TerminalReason == {"decoder_error", "other_error"}
Reason == WatchdogReason \union TerminalReason

\* Mutant: a decoder that never produced a frame is not blamed.
MutantDecoderBlamed == {"decoder_stalled", "decoder_error"}

\* Reasons whose text blames the hardware decoder.
DecoderBlamed == {"decoder_silent", "decoder_stalled", "decoder_error"}

AutoDecoder == DecoderElement = "auto"

Init ==
    /\ LoopInit(Stage, InputStage)
    /\ forceSoftwareDecoder = FALSE
    /\ usesV4l2Decoder = FALSE
    /\ online \in BOOLEAN
    /\ offlineRestarts = 0

-----------------------------------------------------------------------------
\* Start of a cycle

ResolveInterface == Resolve /\ UNCHANGED rxVars

ResolveFails == ResolveError /\ UNCHANGED rxVars

\* select_h264_decoder on the cycle's own copy of the configuration.
SelectsV4l2 ==
    \/ DecoderElement = "v4l2h264dec"
    \/ AutoDecoder /\ ~forceSoftwareDecoder /\ Hardware # "absent"

ConstructPipeline ==
    /\ Construct
    /\ usesV4l2Decoder' = SelectsV4l2
    /\ UNCHANGED <<forceSoftwareDecoder, online, offlineRestarts>>

\* Mutant: without the test of force_software_decoder.
MutantConstructRetries ==
    /\ RetryAtOnce
    /\ AutoDecoder
    /\ forceSoftwareDecoder' = TRUE
    /\ UNCHANGED <<usesV4l2Decoder, online, offlineRestarts>>

ConstructRetriesInSoftware ==
    /\ RetryAtOnce
    /\ AutoDecoder
    /\ ~forceSoftwareDecoder
    /\ forceSoftwareDecoder' = TRUE
    /\ UNCHANGED <<usesV4l2Decoder, online, offlineRestarts>>

ConstructFails ==
    /\ RetryLater
    /\ ~(AutoDecoder /\ ~forceSoftwareDecoder)
    /\ UNCHANGED rxVars

StartPipeline == Start /\ UNCHANGED rxVars

FaultyDecoderInUse == usesV4l2Decoder /\ Hardware = "faulty"

\* Once everything else has settled only a faulty decoder still fails.
MayFail(why) == settled => FaultyDecoderInUse /\ why = "decoder_error"

GiveUpHardwareIf(blamed) ==
    forceSoftwareDecoder' =
        (forceSoftwareDecoder \/ (AutoDecoder /\ usesV4l2Decoder /\ blamed))

\* start fails for a reason that does, or does not, blame the decoder.
StartFails(why) ==
    /\ StartError
    /\ MayFail(why)
    /\ GiveUpHardwareIf(why = "decoder_error")
    /\ UNCHANGED <<usesV4l2Decoder, online, offlineRestarts>>

-----------------------------------------------------------------------------
\* The select loop: heartbeats

\* record_input_heartbeat: input that resumes after more than a timeout counts
\* as a first input again.
RecordInputHeartbeat(s) ==
    first' = [first EXCEPT ![s] =
                IF first[s] = Never \/ last[s] > MediaTimeout + pending[s].observed
                THEN pending[s].observed
                ELSE first[s]]

\* events.video_ingress, events.audio_ingress
HearIngress(s) ==
    /\ pc = "running"
    /\ Read(s)
    /\ RecordInputHeartbeat(s)
    /\ HearUnchanged
    /\ UNCHANGED <<ready, serviceReady, health, rxVars>>

\* events.video_codec
HearCodec ==
    /\ pc = "running"
    /\ Read("video_codec")
    /\ RecordInputHeartbeat("video_codec")
    /\ ready' = ready \union {"video_codec"}
    /\ HearUnchanged
    /\ UNCHANGED <<serviceReady, health, rxVars>>

\* Mutant: ready as soon as one of the render stages is.
MutantHearRender(s) ==
    /\ pc = "running"
    /\ Read(s)
    /\ ready' = ready \union {s}
    /\ MarkReadyOnce(RenderStage \intersect ready' # {})
    /\ HearUnchanged
    /\ UNCHANGED <<first, rxVars>>

\* events.video, events.audio
HearRender(s) ==
    /\ pc = "running"
    /\ Read(s)
    /\ ready' = ready \union {s}
    /\ MarkReadyOnce(RenderStage \subseteq ready')
    /\ HearUnchanged
    /\ UNCHANGED <<first, rxVars>>

-----------------------------------------------------------------------------
\* The select loop: the watchdog

\* Mutant: the first input need not be a timeout ago.
MutantMissingOutput(s) == first[s] # Never /\ last[s] <= MediaTimeout

\* missing_output_while_input_active
MissingOutputWhileInputActive(s) ==
    /\ first[s] # Never
    /\ first[s] > MediaTimeout
    /\ last[s] <= MediaTimeout

\* The condition of each of the watchdog's checks.
Fails(check) ==
    CASE check = "interface_changed" -> InterfaceChanged
      [] check = "decoder_silent" ->
           "video_codec" \notin ready /\ MissingOutputWhileInputActive("video_ingress")
      [] check = "render_silent" ->
           /\ "video_codec" \in ready
           /\ "video" \notin ready
           /\ MissingOutputWhileInputActive("video_codec")
      [] check = "audio_silent" ->
           AudioEnabled /\ "audio" \notin ready /\ MissingOutputWhileInputActive("audio_ingress")
      [] check = "decoder_stalled" ->
           Stalled("video_codec") /\ last["video_ingress"] <= MediaTimeout
      [] check = "video_stream_stalled" -> Stalled("video_codec")
      [] check = "render_stalled" -> Stalled("video")
      [] check = "audio_stalled" -> AudioEnabled /\ Stalled("audio")

\* The i-th check breaks the loop: it fails and none before it does.
BreaksAt(i) ==
    /\ Fails(WatchdogOrder[i])
    /\ \A j \in 1..8 : j < i => ~Fails(WatchdogOrder[j])

WatchdogTick ==
    /\ WatchdogDue
    /\ \A i \in 1..8 : ~Fails(WatchdogOrder[i])
    /\ WatchdogRearms
    /\ UNCHANGED rxVars

WatchdogBreak(i) ==
    /\ WatchdogDue
    /\ BreaksAt(i)
    /\ BreakLoop(WatchdogOrder[i])
    /\ offlineRestarts' = IF ~online /\ WatchdogOrder[i] \in MediaReason
                          THEN offlineRestarts + 1
                          ELSE offlineRestarts
    /\ UNCHANGED <<codecVars, online>>

\* Mutant: an empty notification is taken for an event.
MutantHearTerminal == BreakLoop(terminal) /\ UNCHANGED rxVars

\* events.terminal: an empty notification is passed over.
HearTerminal ==
    /\ terminal # Never
    /\ BreakLoop(terminal)
    /\ UNCHANGED rxVars

\* After the loop: choose the fallback, stop the pipeline, report, back off.
Restart ==
    /\ EndCycle
    /\ GiveUpHardwareIf(reason \in DecoderBlamed)
    /\ UNCHANGED <<usesV4l2Decoder, online, offlineRestarts>>

BackoffElapsed == BackoffOver /\ UNCHANGED rxVars

Shutdown == Stop /\ UNCHANGED rxVars

PollShutdown == PollShutdownFuture /\ UNCHANGED rxVars

-----------------------------------------------------------------------------
\* Environment

Terminate == Sigterm /\ UNCHANGED rxVars

HeardBefore(s) == (s \in InputStage /\ first[s] # Never) \/ s \in ready

Reached(s) == pending[s] # Never \/ HeardBefore(s)

\* A faulty decoder may hang, at once or later; hung, it stays so for the cycle.
Hung(s) == s = "video_codec" /\ FaultyDecoderInUse /\ HeardBefore(s) /\ last[s] > 1

CanDeliver(s) ==
    IF s \in IngressStage THEN online ELSE Reached(Upstream[s]) /\ ~Hung(s)

Delivered(s) == DeliveredNow(s, HeardBefore(s))

\* The first buffer of this tick passes the monitor of stage s.
Buffer(s) ==
    /\ CanDeliver(s)
    /\ ~Delivered(s)
    /\ PassBuffer(s)
    /\ UNCHANGED rxVars

PostTerminal(why) ==
    /\ PostEvent(why)
    /\ MayFail(why)
    /\ UNCHANGED rxVars

RouteChanges == ChangeRoute /\ UNCHANGED rxVars

TransmitterToggles ==
    /\ "peer" \in Faults
    /\ pc \notin Over
    /\ ~settled
    /\ online' = ~online
    /\ offlineRestarts' = 0
    /\ UNCHANGED <<probeVars, loopVars, codecVars>>

\* From now on the transmitter sends, and everything but a faulty hardware
\* decoder works.
Settle == online /\ SettleDown /\ UNCHANGED rxVars

\* The stages that hand on, in every tick, what they are given in it.
SteadyStage ==
    (IF settled THEN Stage ELSE Stage \ Unsteady)
        \ (IF FaultyDecoderInUse THEN {"video_codec"} ELSE {})

\* A steady stage has not yet delivered in this tick, and could.
Owes(s) ==
    /\ s \in SteadyStage
    /\ CanDeliver(s)
    /\ ~Delivered(s)
    /\ s \notin IngressStage => Delivered(Upstream[s])

Tick ==
    /\ PassTick
    /\ pc = "running" => \A s \in Stage : ~Owes(s)
    /\ UNCHANGED rxVars

-----------------------------------------------------------------------------
\* Specification

Starting == ResolveInterface \/ ResolveFails \/ ConstructPipeline
            \/ ConstructRetriesInSoftware \/ ConstructFails \/ StartPipeline
            \/ \E why \in TerminalReason : StartFails(why)

Hear ==
    \/ \E s \in IngressStage : HearIngress(s)
    \/ HearCodec
    \/ \E s \in RenderStage : HearRender(s)

Watchdog == WatchdogTick \/ \E i \in 1..8 : WatchdogBreak(i)

Environment ==
    \/ \E s \in Stage : Buffer(s)
    \/ \E why \in TerminalReason : PostTerminal(why)
    \/ TransmitterToggles \/ RouteChanges \/ Settle
    \/ Terminate

Terminated == pc \in Over /\ UNCHANGED vars

Next ==
    \/ Starting \/ Hear \/ Watchdog \/ HearTerminal \/ Restart
    \/ BackoffElapsed \/ PollShutdown \/ Shutdown \/ Tick
    \/ Environment
    \/ Terminated

Spec == Init /\ [][Next]_vars

\* The executor runs every ready task and time passes.  tokio::select! polls
\* its branches in a random order, so a branch that is ready again and again
\* is taken: strong fairness for the branches others may disable.  A steady
\* stage delivers.
Fairness ==
    /\ WF_vars(Starting)
    /\ WF_vars(Watchdog)
    /\ SF_vars(HearTerminal)
    /\ \A s \in IngressStage : SF_vars(HearIngress(s))
    /\ SF_vars(HearCodec)
    /\ \A s \in RenderStage : SF_vars(HearRender(s))
    /\ WF_vars(Restart)
    /\ WF_vars(BackoffElapsed)
    /\ SF_vars(PollShutdown)
    /\ SF_vars(Shutdown)
    /\ WF_vars(Tick)
    /\ \A s \in Stage : WF_vars(Owes(s) /\ Buffer(s))

FairSpec == Spec /\ Fairness

-----------------------------------------------------------------------------
\* Properties

\* Every variable has its type, and a cycle that is being ended has a reason
\* (the locals and channels of run_supervisor).
TypeOK ==
    /\ pc \in Phase
    /\ interface \in Interface \union {Down}
    /\ pending \in [Stage -> Beat \union {Never}]
    /\ first \in [InputStage -> Age \union {Never}]
    /\ last \in [Stage -> Age]
    /\ timer \in Age
    /\ ready \subseteq OutputStage
    /\ serviceReady \in BOOLEAN
    /\ reason \in Reason \union {Never}
    /\ pc = "ending" => reason \in Reason
    /\ health \in HealthState
    /\ armed \in BOOLEAN
    /\ signalled \in BOOLEAN
    /\ terminal \in TerminalReason \union {Never}
    /\ route \in Interface \union {Down}
    /\ settled \in BOOLEAN
    /\ calm \in BOOLEAN
    /\ forceSoftwareDecoder \in BOOLEAN
    /\ usesV4l2Decoder \in BOOLEAN
    /\ online \in BOOLEAN
    /\ offlineRestarts \in Nat

\* GET /healthz says 200 while the pipeline runs only if every enabled render
\* stage delivered in this cycle, the last time no longer ago than the timeout
\* and one period of the watchdog: a stall never hides behind an old "ok".
HealthIsFresh ==
    pc = "running" /\ Healthy =>
        \A s \in RenderStage : s \in ready /\ last[s] <= MediaTimeout + MonitorInterval

\* "A receiver may start before its transmitter": however long the transmitter
\* stays offline, the watchdog ends at most one cycle for missing media.
OfflineRestartsOnce == offlineRestarts <= 1

\* No false alarm: a cycle in which every stage delivers in every tick, and
\* nothing else fails, is never ended, whatever the order in which the select
\* loop reads heartbeats and runs its watchdog.
CalmCycleKeepsRunning == calm /\ ~FaultyDecoderInUse => pc # "ending"

\* The retry that skips the backoff happens once in the process's life: it
\* needs the hardware choice to be open, closes it, and nothing reopens it.
HotRetryOnce ==
    [][ /\ forceSoftwareDecoder => forceSoftwareDecoder'
        /\ pc = "construct" /\ pc' = "resolve" =>
             ~forceSoftwareDecoder /\ forceSoftwareDecoder' ]_vars

\* Once the transmitter sends and nothing but the hardware decoder is broken,
\* the service becomes healthy and stays so: the supervisor leaves every
\* earlier failure behind, and the decoder with it where it may choose one.
Recovers == <>[](settled /\ ~signalled /\ pc # "killed") => <>[]Healthy

\* A SIGTERM that was caught ends run_supervisor, whatever it was doing.
SignalEndsService == signalled ~> pc = "exited"

\* A running cycle does not stay on an interface that is not, or no longer,
\* the one resolution gives.
RouteIsFollowed == (pc = "running" /\ interface # route) ~> (pc # "running" \/ interface = route)
=============================================================================
