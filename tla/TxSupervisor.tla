---------------------------- MODULE TxSupervisor ----------------------------
(***************************************************************************)
(* The transmitter's supervisor (tx/src/main.rs): SupervisorLoop with the  *)
(* transmitter's stages, its watchdog, and its three fallbacks: from the   *)
(* hardware to the software H.264 encoder, from mmap capture to capture    *)
(* with io-mode=auto, and from the direct MJPEG path to one that converts. *)
(* The environment is the capture card, the network interface, the         *)
(* pipeline's elements and the operator's SIGTERM.                         *)
(***************************************************************************)
EXTENDS SupervisorLoop

CONSTANTS
    AudioEnabled,    \* config.audio.enabled
    EncoderElement,  \* config.video.encoder_element, trimmed
    Hardware,        \* v4l2h264enc on this host; a "silent" one takes frames and may
                     \* return none, a "blocking" one may not even take them
    ConfiguresMmap,  \* capture_io_mode is mmap and there is no source_element
    SupportsMmap,    \* the capture card streams with mmap
    ConfiguresMjpeg, \* the source is image/jpeg, decoded by jpegdec
    EmitsI420        \* the capture card's JPEG is 4:2:0

ASSUME TxAssumption ==
    /\ AudioEnabled \in BOOLEAN
    /\ EncoderElement \in {"auto", "v4l2h264enc", "x264enc"}
    /\ Hardware \in {"absent", "working", "silent", "blocking"}
    /\ {ConfiguresMmap, SupportsMmap, ConfiguresMjpeg, EmitsI420} \subseteq BOOLEAN

VARIABLES
    forceSoftwareEncoder,  \* force_software_encoder, lives as long as the process
    forceCaptureAuto,      \* force_capture_auto, likewise
    forceVideoConversion,  \* force_video_conversion, likewise
    usesV4l2Encoder,       \* uses_v4l2_encoder of this cycle
    usesMmapCapture,       \* uses_mmap_capture of this cycle
    usesDirectMjpeg,       \* uses_direct_mjpeg of this cycle
    capturing              \* environment: the capture card has a signal

fallbacks == <<forceSoftwareEncoder, forceCaptureAuto, forceVideoConversion>>
usage == <<usesV4l2Encoder, usesMmapCapture, usesDirectMjpeg>>
txVars == <<fallbacks, usage, capturing>>
vars == <<probeVars, loopVars, txVars>>

-----------------------------------------------------------------------------
\* Stages of the pipeline and their monitors

\* A medium's middle stage, the encoder or the audio conversion, is named
\* after the medium: its heartbeats are events.video and events.audio.
Medium == IF AudioEnabled THEN {"video", "audio"} ELSE {"video"}
Ingress == [m \in Medium |-> IF m = "video" THEN "video_ingress" ELSE "audio_ingress"]
Egress == [m \in Medium |-> IF m = "video" THEN "video_egress" ELSE "audio_egress"]

IngressStage == {Ingress[m] : m \in Medium}
EgressStage == {Egress[m] : m \in Medium}
Stage == IngressStage \union Medium \union EgressStage
InputStage == IngressStage \union Medium
OutputStage == Medium \union EgressStage

\* A stage hands on only what the stage before it has been given.
Upstream == [s \in OutputStage |->
               CASE s = "video" -> "video_ingress"
                 [] s = "video_egress" -> "video"
                 [] s = "audio" -> "audio_ingress"
                 [] s = "audio_egress" -> "audio"]

\* The watchdog's checks in their order, each with the medium it is about.
WatchdogOrder ==
    << <<"interface_changed", "network">>,
       <<"processing_silent", "video">>, <<"source_stopped", "video">>,
       <<"source_absent", "video">>, <<"packetizer_silent", "video">>,
       <<"processing_silent", "audio">>, <<"source_stopped", "audio">>,
       <<"source_absent", "audio">>, <<"packetizer_silent", "audio">>,
       <<"processing_stalled", "video">>, <<"stream_stalled", "video">>,
       <<"egress_stalled", "video">>,
       <<"processing_stalled", "audio">>, <<"stream_stalled", "audio">>,
       <<"egress_stalled", "audio">> >>
WatchdogReason == {WatchdogOrder[i] : i \in 1..15}

\* The classes of terminal event and start error: what the text names.
CaptureError == <<"capture_error", "pipeline">>          \* v4l2src, video_src, buffer pool
EncoderError == <<"encoder_error", "pipeline">>          \* v4l2h264enc
NegotiationError == <<"negotiation_error", "pipeline">>  \* not-negotiated
OtherError == <<"other_error", "pipeline">>
TerminalReason == {CaptureError, EncoderError, NegotiationError, OtherError}

Reason == WatchdogReason \union TerminalReason

\* Mutant: the watchdog's own words for a source that never came are not
\* recognised.
MutantIsCaptureIoFailure ==
    {<<check, "video">> : check \in {"processing_silent", "processing_stalled"}}
        \union {CaptureError, EncoderError, NegotiationError}

\* is_capture_io_failure: every text that says "video source", "v4l2", ...
IsCaptureIoFailure ==
    {<<check, "video">> : check \in {"processing_silent", "source_stopped", "source_absent",
                                     "processing_stalled", "stream_stalled"}}
        \union {CaptureError, EncoderError, NegotiationError}

IsNegotiationFailure == {NegotiationError}

\* Mutant: an encoder that stalls is not blamed.
MutantEncoderBlamed == {<<"processing_silent", "video">>, EncoderError}

\* "encoder produced no h264", "encoder stalled", "v4l2h264enc"
EncoderBlamed ==
    {<<"processing_silent", "video">>, <<"processing_stalled", "video">>, EncoderError}

AutoEncoder == EncoderElement = "auto"

Init ==
    /\ LoopInit(Stage, InputStage)
    /\ forceSoftwareEncoder = FALSE
    /\ forceCaptureAuto = FALSE
    /\ forceVideoConversion = FALSE
    /\ usesV4l2Encoder = FALSE
    /\ usesMmapCapture = FALSE
    /\ usesDirectMjpeg = FALSE
    /\ capturing \in BOOLEAN

-----------------------------------------------------------------------------
\* Start of a cycle

ResolveInterface == Resolve /\ UNCHANGED txVars

ResolveFails == ResolveError /\ UNCHANGED txVars

\* select_h264_encoder on the cycle's own copy of the configuration.
SelectsV4l2 ==
    \/ EncoderElement = "v4l2h264enc"
    \/ AutoEncoder /\ ~forceSoftwareEncoder /\ Hardware # "absent"

\* Only x264enc takes the I420 frames that jpegdec may hand it directly.
ConstructPipeline ==
    /\ Construct
    /\ usesV4l2Encoder' = SelectsV4l2
    /\ usesMmapCapture' = (ConfiguresMmap /\ ~forceCaptureAuto)
    /\ usesDirectMjpeg' = (ConfiguresMjpeg /\ ~forceVideoConversion /\ ~SelectsV4l2)
    /\ UNCHANGED <<fallbacks, capturing>>

ConstructRetriesInSoftware ==
    /\ RetryAtOnce
    /\ AutoEncoder
    /\ ~forceSoftwareEncoder
    /\ forceSoftwareEncoder' = TRUE
    /\ UNCHANGED <<forceCaptureAuto, forceVideoConversion, usage, capturing>>

ConstructFails ==
    /\ RetryLater
    /\ ~(AutoEncoder /\ ~forceSoftwareEncoder)
    /\ UNCHANGED txVars

StartPipeline == Start /\ UNCHANGED txVars

FaultyEncoderInUse == usesV4l2Encoder /\ Hardware \in {"silent", "blocking"}
MmapBrokenInUse == usesMmapCapture /\ ~SupportsMmap
JpegOddInUse == usesDirectMjpeg /\ ~EmitsI420

\* Once everything else has settled, only what never worked still fails.
MayFail(why) ==
    settled => \/ why = EncoderError /\ FaultyEncoderInUse
               \/ why = CaptureError /\ MmapBrokenInUse
               \/ why = NegotiationError /\ JpegOddInUse

\* What the text of a failure makes the next cycles do without.
FallBackAfter(why) ==
    /\ forceCaptureAuto' =
           (forceCaptureAuto \/ (usesMmapCapture /\ why \in IsCaptureIoFailure))
    /\ forceVideoConversion' =
           (forceVideoConversion \/ (usesDirectMjpeg /\ why \in IsNegotiationFailure))
    /\ forceSoftwareEncoder' =
           (forceSoftwareEncoder \/ (AutoEncoder /\ usesV4l2Encoder /\ why \in EncoderBlamed))

StartFails(why) ==
    /\ StartError
    /\ MayFail(why)
    /\ FallBackAfter(why)
    /\ UNCHANGED <<usage, capturing>>

-----------------------------------------------------------------------------
\* The select loop: heartbeats

RememberFirst(s) ==
    first' = [first EXCEPT ![s] = IF first[s] = Never THEN pending[s].observed ELSE first[s]]

\* events.video_ingress, events.audio_ingress
HearIngress(m) ==
    /\ pc = "running"
    /\ Read(Ingress[m])
    /\ RememberFirst(Ingress[m])
    /\ HearUnchanged
    /\ UNCHANGED <<ready, serviceReady, health, txVars>>

\* Mutant: ready without the other medium's egress.
MutantAllReady == Medium \subseteq ready' /\ "video_egress" \in ready'

AllReady == OutputStage \subseteq ready'

\* events.video, events.audio
HearProcessed(m) ==
    /\ pc = "running"
    /\ Read(m)
    /\ RememberFirst(m)
    /\ ready' = ready \union {m}
    /\ MarkReadyOnce(AllReady)
    /\ HearUnchanged
    /\ UNCHANGED txVars

\* events.video_egress, events.audio_egress
HearEgress(m) ==
    /\ pc = "running"
    /\ Read(Egress[m])
    /\ ready' = ready \union {Egress[m]}
    /\ MarkReadyOnce(AllReady)
    /\ HearUnchanged
    /\ UNCHANGED <<first, txVars>>

-----------------------------------------------------------------------------
\* The select loop: the watchdog

\* Mutant: measured from the latest buffer instead of the first.
MutantWaitedOn(s) == first[s] # Never /\ last[s] > MediaTimeout

\* The first buffer of an input was seen longer than a timeout ago.
WaitedOn(s) == first[s] # Never /\ first[s] > MediaTimeout

\* Mutant: a source that never delivered is waited for.
MutantSourceAbsent(m) == FALSE

\* Mutant: a source is absent until it delivers.
MutantSourceAbsentAtOnce(m) == m \notin ready /\ first[Ingress[m]] = Never

\* No first buffer from the source: last_<stage> still is `started`.
SourceAbsent(m) ==
    m \notin ready /\ first[Ingress[m]] = Never /\ last[Ingress[m]] > MediaTimeout

\* The condition of a check about an enabled medium.
MediumFails(check, m) ==
    CASE check = "processing_silent" ->
           m \notin ready /\ WaitedOn(Ingress[m]) /\ last[Ingress[m]] <= MediaTimeout
      [] check = "source_stopped" -> m \notin ready /\ WaitedOn(Ingress[m])
      [] check = "source_absent" -> SourceAbsent(m)
      [] check = "packetizer_silent" -> m \in ready /\ Egress[m] \notin ready /\ WaitedOn(m)
      [] check = "processing_stalled" -> Stalled(m) /\ last[Ingress[m]] <= MediaTimeout
      [] check = "stream_stalled" -> Stalled(m)
      [] check = "egress_stalled" -> Stalled(Egress[m])

Fails(why) ==
    IF why[1] = "interface_changed" THEN InterfaceChanged
    ELSE why[2] \in Medium /\ MediumFails(why[1], why[2])

\* The i-th check breaks the loop: it fails and none before it does.
BreaksAt(i) ==
    /\ Fails(WatchdogOrder[i])
    /\ \A j \in 1..15 : j < i => ~Fails(WatchdogOrder[j])

WatchdogTick ==
    /\ WatchdogDue
    /\ \A i \in 1..15 : ~Fails(WatchdogOrder[i])
    /\ WatchdogRearms
    /\ UNCHANGED txVars

WatchdogBreak(i) ==
    /\ WatchdogDue
    /\ BreaksAt(i)
    /\ BreakLoop(WatchdogOrder[i])
    /\ UNCHANGED txVars

\* Mutant: an empty notification is taken for an event.
MutantHearTerminal == BreakLoop(terminal) /\ UNCHANGED txVars

\* events.terminal: an empty notification is passed over.
HearTerminal ==
    /\ terminal # Never
    /\ BreakLoop(terminal)
    /\ UNCHANGED txVars

\* After the loop: choose the fallbacks, stop the pipeline, report, back off.
Restart ==
    /\ EndCycle
    /\ FallBackAfter(reason)
    /\ UNCHANGED <<usage, capturing>>

BackoffElapsed == BackoffOver /\ UNCHANGED txVars

Shutdown == Stop /\ UNCHANGED txVars

PollShutdown == PollShutdownFuture /\ UNCHANGED txVars

-----------------------------------------------------------------------------
\* Environment

Terminate == Sigterm /\ UNCHANGED txVars

HeardBefore(s) == (s \in InputStage /\ first[s] # Never) \/ s \in ready

Reached(s) == pending[s] # Never \/ HeardBefore(s)

\* The stages a faulty encoder may silence: the monitor of the source's
\* frames sits behind no queue of its own and is blocked with the encoder.
MayHang ==
    CASE ~FaultyEncoderInUse -> {}
      [] FaultyEncoderInUse /\ Hardware = "silent" -> {"video"}
      [] FaultyEncoderInUse /\ Hardware = "blocking" -> {"video_ingress", "video"}

\* What hangs stays hung for the cycle.
Hung(s) == s \in MayHang /\ HeardBefore(s) /\ last[s] > 1

CanDeliver(s) ==
    /\ ~Hung(s)
    /\ IF s \in IngressStage
       THEN capturing /\ ~(s = "video_ingress" /\ (MmapBrokenInUse \/ JpegOddInUse))
       ELSE Reached(Upstream[s])

Delivered(s) == DeliveredNow(s, HeardBefore(s))

\* The first buffer of this tick passes the monitor of stage s.
Buffer(s) ==
    /\ CanDeliver(s)
    /\ ~Delivered(s)
    /\ PassBuffer(s)
    /\ UNCHANGED txVars

PostTerminal(why) ==
    /\ PostEvent(why)
    /\ MayFail(why)
    /\ UNCHANGED txVars

RouteChanges == ChangeRoute /\ UNCHANGED txVars

SourceToggles ==
    /\ "peer" \in Faults
    /\ pc \notin Over
    /\ ~settled
    /\ capturing' = ~capturing
    /\ UNCHANGED <<probeVars, loopVars, fallbacks, usage>>

\* From now on the capture card has a signal, and only what never worked fails.
Settle == capturing /\ SettleDown /\ UNCHANGED txVars

\* The stages that hand on, in every tick, what they are given in it.
SteadyStage == (IF settled THEN Stage ELSE Stage \ Unsteady) \ MayHang

\* A steady stage has not yet delivered in this tick, and could.
Owes(s) ==
    /\ s \in SteadyStage
    /\ CanDeliver(s)
    /\ ~Delivered(s)
    /\ s \notin IngressStage => Delivered(Upstream[s])

\* Caps that cannot be negotiated are an error on the bus with the first frame.
OwesNegotiationError ==
    pc = "running" /\ JpegOddInUse /\ capturing /\ ~MmapBrokenInUse /\ terminal = Never

Tick ==
    /\ PassTick
    /\ pc = "running" => \A s \in Stage : ~Owes(s)
    /\ ~OwesNegotiationError
    /\ UNCHANGED txVars

-----------------------------------------------------------------------------
\* Specification

Starting == ResolveInterface \/ ResolveFails \/ ConstructPipeline
            \/ ConstructRetriesInSoftware \/ ConstructFails \/ StartPipeline
            \/ \E why \in TerminalReason : StartFails(why)

Hear == \E m \in Medium : HearIngress(m) \/ HearProcessed(m) \/ HearEgress(m)

Watchdog == WatchdogTick \/ \E i \in 1..15 : WatchdogBreak(i)

Environment ==
    \/ \E s \in Stage : Buffer(s)
    \/ \E why \in TerminalReason : PostTerminal(why)
    \/ SourceToggles \/ RouteChanges \/ Settle
    \/ Terminate

Terminated == pc \in Over /\ UNCHANGED vars

Next ==
    \/ Starting \/ Hear \/ Watchdog \/ HearTerminal \/ Restart
    \/ BackoffElapsed \/ PollShutdown \/ Shutdown \/ Tick
    \/ Environment
    \/ Terminated

Spec == Init /\ [][Next]_vars

\* The executor runs every ready task and time passes; tokio::select! polls
\* its branches in a random order, so a branch that is ready again and again
\* is taken.  A steady stage delivers, and a failed negotiation is reported.
Fairness ==
    /\ WF_vars(Starting)
    /\ WF_vars(Watchdog)
    /\ SF_vars(HearTerminal)
    /\ \A m \in Medium : SF_vars(HearIngress(m)) /\ SF_vars(HearProcessed(m))
                         /\ SF_vars(HearEgress(m))
    /\ WF_vars(Restart)
    /\ WF_vars(BackoffElapsed)
    /\ SF_vars(PollShutdown)
    /\ SF_vars(Shutdown)
    /\ WF_vars(Tick)
    /\ \A s \in Stage : WF_vars(Owes(s) /\ Buffer(s))
    /\ WF_vars(OwesNegotiationError /\ PostTerminal(NegotiationError))

FairSpec == Spec /\ Fairness

-----------------------------------------------------------------------------
\* Properties

\* Every variable has its type, and a cycle that is being ended has a reason
\* (the locals and channels of run_supervisor).
TypeOK ==
    /\ pc \in Phase
    /\ interface \in Interface \union {Down}
    /\ pending \in [Stage -> Beat \union {Never}]
    /\ first \in [InputStage -> Age \union {Never}]
    /\ last \in [Stage -> Age]
    /\ timer \in Age
    /\ ready \subseteq OutputStage
    /\ serviceReady \in BOOLEAN
    /\ reason \in Reason \union {Never}
    /\ pc = "ending" => reason \in Reason
    /\ health \in HealthState
    /\ {armed, signalled, settled, calm, capturing} \subseteq BOOLEAN
    /\ terminal \in TerminalReason \union {Never}
    /\ route \in Interface \union {Down}
    /\ fallbacks \in BOOLEAN \X BOOLEAN \X BOOLEAN
    /\ usage \in BOOLEAN \X BOOLEAN \X BOOLEAN

\* GET /healthz says 200 while the pipeline runs only if every enabled medium
\* was encoded and packetized in this cycle, the last time no longer ago than
\* the timeout and one period of the watchdog.
HealthIsFresh ==
    pc = "running" /\ Healthy =>
        \A s \in OutputStage : s \in ready /\ last[s] <= MediaTimeout + MonitorInterval

\* A cycle never waits for a stage longer than the timeout and one period of
\* the watchdog: not for the source's first frame, not for the first encoded
\* frame after it, not for the first packet after that.
NoSilentWait ==
    pc = "running" =>
        \A m \in Medium :
            LET limit == MediaTimeout + MonitorInterval
                waited(s) == first[s] # Never /\ first[s] > limit
            IN  IF m \notin ready
                THEN ~waited(Ingress[m])
                     /\ (first[Ingress[m]] = Never => last[Ingress[m]] <= limit)
                ELSE Egress[m] \notin ready => ~waited(m)

\* No false alarm: a cycle in which every stage delivers in every tick, and
\* nothing else fails, is never ended, whatever the order in which the select
\* loop reads heartbeats and runs its watchdog.
CalmCycleKeepsRunning ==
    calm /\ ~FaultyEncoderInUse /\ ~MmapBrokenInUse /\ ~JpegOddInUse => pc # "ending"

\* Each restart teaches: when only things that never worked are broken, the
\* end of a cycle switches at least one of them off, for what it read.
SettledRestartLearns ==
    [][ Restart /\ calm /\ (reason \in TerminalReason \/ terminal = Never)
          => fallbacks' # fallbacks ]_vars

\* Once the capture card has a signal and only the hardware encoder, mmap
\* capture or the direct MJPEG path are broken, in any combination, the
\* service becomes healthy and stays so.
Recovers == <>[](settled /\ ~signalled /\ pc # "killed") => <>[]Healthy

\* A SIGTERM that was caught ends run_supervisor, whatever it was doing.
SignalEndsService == signalled ~> pc = "exited"
=============================================================================
