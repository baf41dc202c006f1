----------------------------- MODULE ServiceProofs -----------------------------
(***************************************************************************)
(* Theorems about the service for every configuration that its validation  *)
(* accepts, every host and every set of network interfaces.                *)
(***************************************************************************)
EXTENDS Service, FiniteSetTheorems, SequenceTheorems, TLAPS

-----------------------------------------------------------------------------
\* Validation and selection

\* A quotient rounded up that is below a bound leaves the dividend below it.
LEMMA CeilDivBound ==
  ASSUME NEW a \in Nat, NEW b \in Nat \ {0}, NEW t \in Nat, CeilDiv(a, b) < t
  PROVE  a < t * b
<1> DEFINE q == CeilDiv(a, b)
<1>1. q \in Nat /\ b * q <= a + b - 1 /\ a + b - 1 < b * q + b
  BY SMT DEF CeilDiv
<1>2. a <= b * q
  BY <1>1
<1>3. q + 1 <= t
  BY <1>1
<1>4. b * (q + 1) <= b * t
  BY <1>1, <1>3, SMT
<1>5. b * q < b * t
  BY <1>1, <1>4, SMT
<1>6. QED
  BY <1>1, <1>2, <1>5, SMT

\* What is given up leaves a configuration what it was but for the codec and the
\* capture mode.
LEMMA TxCycleConfig ==
  ASSUME NEW c, TxTyped(c), role = "tx", NEW gone
  PROVE  LET d == CycleConfig(c, gone)
         IN /\ TxTyped(d)
            /\ \A f \in DOMAIN c \ {"encoder_element", "capture_io_mode"} : d[f] = c[f]
            /\ d.encoder_element
                 = IF "codec" \in gone THEN ZeroLatencyX264 ELSE c.encoder_element
  BY DEF CycleConfig, SoftwareOnly, TxTyped, Typed

LEMMA RxCycleConfig ==
  ASSUME NEW c, RxTyped(c), role = "rx", NEW gone, "capture" \notin gone
  PROVE  LET d == CycleConfig(c, gone)
         IN /\ RxTyped(d)
            /\ \A f \in DOMAIN c \ {"decoder_element"} : d[f] = c[f]
            /\ d.decoder_element
                 = IF "codec" \in gone THEN LowLatencyAvdecH264 ELSE c.decoder_element
  BY DEF CycleConfig, SoftwareOnly, RxTyped, Typed

GivenUp(c, gone) ==
    /\ "codec" \in gone =>
         (IF role = "tx" THEN c.encoder_element ELSE c.decoder_element) \in {"", "auto"}
    /\ role = "rx" => "capture" \notin gone

\* The encoder where it is not the hardware's.
LEMMA OtherEncoders ==
  ASSUME NEW d, NEW h, ~UsesV4l2Encoder(d, h)
  PROVE  /\ ~ManagedEncoder(d) => SelectH264Encoder(d, h) = <<[element |-> d.encoder_element], "any">>
         /\ d.encoder_element = ZeroLatencyX264 \/ d.encoder_element \in {"", "auto"} =>
              SelectH264Encoder(d, h) = <<[element |-> "x264enc", with |-> ZeroLatencyX264], "I420">>
<1> DEFINE hardware == <<[element |-> "v4l2h264enc",
                          level |-> IF d.bitrate_kbps > 10000 THEN "4.1" ELSE "4"], "NV12">>
           with == IF PlainX264(d.encoder_element) THEN d.encoder_element ELSE ZeroLatencyX264
           x264 == <<[element |-> "x264enc", with |-> with], "I420">>
           custom == <<[element |-> d.encoder_element], "any">>
           zero == <<[element |-> "x264enc", with |-> ZeroLatencyX264], "I420">>
           select == SelectH264Encoder(d, h)
<1>1. select = IF UsesV4l2Encoder(d, h) THEN hardware ELSE IF ManagedEncoder(d) THEN x264 ELSE custom
  BY DEF SelectH264Encoder, ManagedEncoder
<1>2. d.encoder_element = ZeroLatencyX264 \/ d.encoder_element \in {"", "auto"} =>
        ManagedEncoder(d) /\ x264 = zero
  <2>1. PlainX264(ZeroLatencyX264) /\ ~PlainX264("") /\ ~PlainX264("auto")
    BY DEF ZeroLatencyX264, PlainX264
  <2>2. d.encoder_element = ZeroLatencyX264 \/ d.encoder_element \in {"", "auto"} =>
          ManagedEncoder(d) /\ with = ZeroLatencyX264
    BY <2>1 DEF ManagedEncoder
  <2> HIDE DEF with
  <2>3. QED
    BY <2>2
<1> HIDE DEF hardware, x264, custom, zero, select
<1>3. select = IF ManagedEncoder(d) THEN x264 ELSE custom
  BY <1>1, Zenon
<1>4. /\ ~ManagedEncoder(d) => select = custom
      /\ d.encoder_element = ZeroLatencyX264 \/ d.encoder_element \in {"", "auto"} => select = zero
  BY <1>2, <1>3, Zenon
<1>5. QED
  BY <1>4 DEF select, custom, zero

\* A custom encoder is told neither bitrate nor GOP.
LEMMA CustomIsUnmanaged ==
  ASSUME NEW d, NEW h, ~ManagedEncoder(d)
  PROVE  ~Managed(SelectH264Encoder(d, h)[1])
<1>1. ~UsesV4l2Encoder(d, h)
  BY DEF UsesV4l2Encoder, ManagedEncoder
<1>2. SelectH264Encoder(d, h) = <<[element |-> d.encoder_element], "any">>
  BY <1>1, OtherEncoders
<1>3. QED
  BY <1>2 DEF Managed

\* An encoder that is told bitrate and GOP is one that validation looked at.
LEMMA ManagedIsValidated ==
  ASSUME NEW c, TxTyped(c), role = "tx", NEW gone, GivenUp(c, gone), NEW h,
         Managed(SelectH264Encoder(CycleConfig(c, gone), h)[1])
  PROVE  ManagedEncoder(c)
<1>1. CASE "codec" \in gone
  BY <1>1 DEF GivenUp, ManagedEncoder
<1>2. CASE "codec" \notin gone
  <2>1. CycleConfig(c, gone).encoder_element = c.encoder_element
    BY <1>2, TxCycleConfig
  <2>2. ManagedEncoder(CycleConfig(c, gone))
    BY CustomIsUnmanaged
  <2>3. QED
    BY <2>1, <2>2 DEF ManagedEncoder
<1>3. QED
  BY <1>1, <1>2

LEMMA FullscreenOfSink ==
  ASSUME NEW e, NEW b, NEW sink, sink = [element |-> e, fullscreen |-> b]
  PROVE  sink.fullscreen = b
  BY SMT

LEMMA FullscreenOfLinuxSink ==
  ASSUME NEW b, NEW e, NEW sink, sink = [element |-> e, fullscreen |-> e # "ximagesink" /\ b]
  PROVE  sink.fullscreen = (e # "ximagesink" /\ b)
  BY Zenon

\* With the renderer that is chosen comes the window or the screen asked for.
LEMMA RendererOfValid ==
  ASSUME NEW c, RxTyped(c), NEW h, WindowValid(c, h), c.sink_element = "",
         NEW d, d.renderer = c.renderer, d.profile = c.profile, d.fullscreen = c.fullscreen
  PROVE  RenderSink(d, h).fullscreen = c.fullscreen
<1>1. c.renderer \in {"auto", "sdl", "kms_drm"} /\ c.fullscreen \in BOOLEAN
  BY DEF RxTyped
<1>2. CASE ResolvedRenderer(c, h) = "kms_drm"
  <2>1. c.fullscreen = TRUE
    BY <1>1, <1>2 DEF WindowValid
  <2>2. RenderSink(d, h) = [element |-> "kmssink", fullscreen |-> TRUE]
    BY <1>1, <1>2 DEF RenderSink, ResolvedRenderer, ResolvedProfile
  <2>3. QED
    <3>1. RenderSink(d, h).fullscreen = TRUE
      BY <2>2, FullscreenOfSink
    <3>2. QED
      BY <2>1, <3>1
<1>3. CASE ResolvedRenderer(c, h) # "kms_drm"
  <2> DEFINE linux(sink) == [element |-> sink, fullscreen |-> sink # "ximagesink" /\ d.fullscreen]
  <2>1. CASE c.renderer = "sdl"
    <3>1. RenderSink(d, h) = linux("sdlvideosink")
      BY <2>1 DEF RenderSink
    <3>2. RenderSink(d, h).fullscreen = ("sdlvideosink" # "ximagesink" /\ d.fullscreen)
      BY <3>1, FullscreenOfLinuxSink
    <3>3. QED
      BY <1>1, <3>2
  <2>2. CASE c.renderer = "auto"
    <3>1. RenderSink(d, h) = linux(PreferredLinuxSink(d.fullscreen, h))
      BY <1>3, <2>2 DEF RenderSink, ResolvedRenderer, ResolvedProfile
    <3>2. d.fullscreen => PreferredLinuxSink(d.fullscreen, h) # "ximagesink"
      BY DEF PreferredLinuxSink
    <3>3. RenderSink(d, h).fullscreen
            = (PreferredLinuxSink(d.fullscreen, h) # "ximagesink" /\ d.fullscreen)
      BY <3>1, FullscreenOfLinuxSink
    <3>4. QED
      BY <1>1, <3>2, <3>3
  <2>3. QED
    BY <1>1, <1>3, <2>1, <2>2 DEF ResolvedRenderer
<1>4. QED
  BY <1>2, <1>3

IsHost(h) == h = [model |-> h.model, displays |-> h.displays, installed |-> h.installed]

\* Without the hardware codecs a host is the same in all else.
LEMMA HostWithoutHardware ==
  ASSUME NEW h, IsHost(h)
  PROVE  /\ WithoutHardware(h).model = h.model
         /\ WithoutHardware(h).displays = h.displays
         /\ WithoutHardware(h).installed = h.installed \ {"v4l2h264enc", "v4l2h264dec"}
  BY DEF IsHost, WithoutHardware

LEMMA SoftwareEncoder ==
  ASSUME NEW d, d.encoder_element = ZeroLatencyX264, NEW h
  PROVE  SelectH264Encoder(d, h)
           = <<[element |-> "x264enc", with |-> ZeroLatencyX264], "I420">>
<1>1. ZeroLatencyX264 \notin {"", "auto"}
  BY DEF ZeroLatencyX264
<1>2. ~UsesV4l2Encoder(d, h)
  BY <1>1 DEF UsesV4l2Encoder
<1>3. QED
  BY <1>2, OtherEncoders

\* The transmitter's software encoder by name is the one that is selected.
LEMMA TxFallback ==
  ASSUME NEW c, TxTyped(c), role = "tx", c.encoder_element \in {"", "auto"},
         NEW h, IsHost(h), NEW name
  PROVE  Descriptions(c, name, {"codec"}, h) = Descriptions(c, name, {}, WithoutHardware(h))
<1> DEFINE s == CycleConfig(c, {"codec"})
           x == <<[element |-> "x264enc", with |-> ZeroLatencyX264], "I420">>
<1>1. CycleConfig(c, {}) = c /\ s = [c EXCEPT !.encoder_element = ZeroLatencyX264]
  BY DEF CycleConfig, SoftwareOnly
<1> HIDE DEF s
<1>2. SelectH264Encoder(s, h) = x
  <2>1. s.encoder_element = ZeroLatencyX264
    BY <1>1 DEF TxTyped
  <2>2. QED
    BY <2>1, SoftwareEncoder
<1>3. SelectH264Encoder(c, WithoutHardware(h)) = x
  <2>1. ~UsesV4l2Encoder(c, WithoutHardware(h))
    BY HostWithoutHardware DEF UsesV4l2Encoder
  <2>2. QED
    BY <2>1, OtherEncoders
<1>4. /\ s.source_element = c.source_element /\ s.device = c.device
      /\ s.capture_io_mode = c.capture_io_mode
      /\ s.source_decoder_element = c.source_decoder_element
      /\ s.source_caps = c.source_caps
      /\ AudioBranch(s) = AudioBranch(c)
  BY <1>1 DEF AudioBranch, TxTyped, Typed
<1>5. ASSUME NEW f, NEW g, f <=> g
      PROVE  BuildTxDescriptions(s, name, f, h)
               = BuildTxDescriptions(c, name, g, WithoutHardware(h))
  BY <1>2, <1>3, <1>4, <1>5, Zenon DEF BuildTxDescriptions, DirectMjpegI420
<1>6. ("jpeg" \in {"codec"}) <=> ("jpeg" \in {})
  OBVIOUS
<1>7. Descriptions(c, name, {"codec"}, h) = BuildTxDescriptions(s, name, "jpeg" \in {"codec"}, h)
  BY Zenon DEF Descriptions, s
<1>8. Descriptions(c, name, {}, WithoutHardware(h))
        = BuildTxDescriptions(c, name, "jpeg" \in {}, WithoutHardware(h))
  BY <1>1, Zenon DEF Descriptions
<1>9. QED
  BY <1>5, <1>6, <1>7, <1>8, Zenon

\* The receiver's, where it is installed.
LEMMA RxFallback ==
  ASSUME NEW c, RxTyped(c), role = "rx", c.decoder_element \in {"", "auto"},
         NEW h, IsHost(h), "avdec_h264" \in h.installed, NEW name
  PROVE  Descriptions(c, name, {"codec"}, h) = Descriptions(c, name, {}, WithoutHardware(h))
<1> DEFINE s == CycleConfig(c, {"codec"})
           w == WithoutHardware(h)
<1>1. CycleConfig(c, {}) = c /\ s = [c EXCEPT !.decoder_element = LowLatencyAvdecH264]
  BY DEF CycleConfig, SoftwareOnly
<1>2. SelectH264Decoder(s, h) = LowLatencyAvdecH264
  BY RxCycleConfig DEF SelectH264Decoder, LowLatencyAvdecH264
<1>3. SelectH264Decoder(c, w) = LowLatencyAvdecH264
  BY HostWithoutHardware DEF SelectH264Decoder, PreferredH264Decoder
<1>4. /\ s.sink_element = c.sink_element /\ s.renderer = c.renderer
      /\ s.profile = c.profile /\ s.fullscreen = c.fullscreen
      /\ AudioBranch(s) = AudioBranch(c)
  BY <1>1 DEF AudioBranch, RxTyped, Typed
<1>5. ResolvedProfile(s, h) = ResolvedProfile(c, w)
  BY <1>4, HostWithoutHardware DEF ResolvedProfile
<1>6. \A f : PreferredLinuxSink(f, h) = PreferredLinuxSink(f, w)
  BY HostWithoutHardware DEF PreferredLinuxSink
<1>7. RenderSink(s, h) = RenderSink(c, w)
  BY <1>4, <1>5, <1>6 DEF RenderSink
<1>8. BuildRxDescriptions(s, name, h) = BuildRxDescriptions(c, name, w)
  BY <1>2, <1>3, <1>4, <1>7 DEF BuildRxDescriptions
<1>9. QED
  BY <1>1, <1>8 DEF Descriptions

\* Where it is not, nothing that needs it is built.
LEMMA RxNoFallback ==
  ASSUME NEW c, RxTyped(c), role = "rx", NEW h, "avdec_h264" \notin h.installed, NEW name
  PROVE  ~Parses(role, Descriptions(c, name, {"codec"}, h), h)
<1> DEFINE s == CycleConfig(c, {"codec"})
           p == Descriptions(c, name, {"codec"}, h)
<1>1. s.decoder_element = LowLatencyAvdecH264
  BY RxCycleConfig
<1>2. p = BuildRxDescriptions(s, name, h)
  BY DEF Descriptions
<1> HIDE DEF s, p
<1>3. p.decoder = LowLatencyAvdecH264
  BY <1>1, <1>2 DEF BuildRxDescriptions, SelectH264Decoder, LowLatencyAvdecH264
<1>4. "avdec_h264" \in Elements(role, p)
  BY <1>3, Zenon DEF Elements, ElementOf
<1>5. QED
  BY <1>4 DEF Parses, p

-----------------------------------------------------------------------------
\* What is built comes from a configuration that has been accepted

ConfigTyped == IF role = "tx" THEN TxTyped(config) ELSE RxTyped(config)

CliTyped ==
    /\ DOMAIN cli \subseteq {"interface", "device", "audio_device", "audio_enabled",
                             "bind_addr", "port", "fullscreen"}
    /\ \A f \in {"fullscreen", "audio_enabled"} \intersect DOMAIN cli : cli[f] \in BOOLEAN
    /\ "device" \in DOMAIN cli => cli.device \in Seq(STRING)

FromConfig ==
    Built => /\ Valid(config)
             /\ \E name, gone : /\ GivenUp(config, gone)
                                /\ pipeline = Descriptions(config, name, gone, host)

ChoiceInv ==
    /\ role \in {"tx", "rx"} /\ IsHost(host) /\ ConfigTyped /\ CliTyped
    /\ phase \in {"check", "announce", "bind", "serve"} => Valid(config)
    /\ phase \notin {"serve", "ended"} => pipeline = NoPipeline /\ given_up = {}
    /\ GivenUp(config, given_up)
    /\ FromConfig

LEMMA InitChoice == Init => ChoiceInv
<1> SUFFICES ASSUME Init PROVE ChoiceInv
  OBVIOUS
<1>1. PICK p \in Rehearsal \union Start : Given(p)
  BY DEF Init
<1>2. /\ role \in {"tx", "rx"} /\ IsHost(host) /\ ConfigTyped /\ CliTyped
  BY <1>1, ProcessAssumption DEF Given, IsHost, ConfigTyped, CliTyped
<1>3. phase = "load" /\ pipeline = NoPipeline /\ given_up = {}
  BY DEF Init
<1>4. QED
  BY <1>2, <1>3 DEF ChoiceInv, GivenUp, FromConfig, Built

\* The command line leaves a configuration its types.
LEMMA OverriddenTyped ==
  ASSUME ConfigTyped, CliTyped, role \in {"tx", "rx"}
  PROVE  IF role = "tx" THEN TxTyped(Overridden(config)) ELSE RxTyped(Overridden(config))
<1> DEFINE o == Overridden(config)
<1>1. /\ o = [f \in DOMAIN config |-> o[f]]
      /\ DOMAIN o = DOMAIN config
      /\ \A f \in DOMAIN config \ {"interface", "device", "audio_device", "audio_enabled",
                                   "bind_addr", "port", "fullscreen"} : o[f] = config[f]
  BY DEF Overridden, CliTyped
<1>2. \A f \in {"fullscreen", "audio_enabled"} \intersect DOMAIN config :
        config[f] \in BOOLEAN => o[f] \in BOOLEAN
  BY DEF Overridden, CliTyped
<1>3. "device" \in DOMAIN config /\ config.device \in Seq(STRING) => o.device \in Seq(STRING)
  BY DEF Overridden, CliTyped
<1> HIDE DEF o
<1>4. CASE role = "tx"
  BY <1>1, <1>2, <1>3, <1>4 DEF ConfigTyped, TxTyped, Typed, o
<1>5. CASE role = "rx"
  BY <1>1, <1>2, <1>5 DEF ConfigTyped, RxTyped, Typed, o
<1>6. QED
  BY <1>4, <1>5

\* A step that leaves configuration, pipeline and what is given up alone.
LEMMA ChoiceFrame ==
  ASSUME ChoiceInv, UNCHANGED <<startVars, config, given_up, pipeline>>,
         \/ phase' = phase
         \/ phase' = "ended"
         \/ phase = "announce" /\ phase' = "bind"
         \/ phase = "bind" /\ phase' = "serve"
         \/ phase = "load" /\ phase' = "override"
  PROVE  ChoiceInv'
<1>1. /\ role' = role /\ host' = host /\ cli' = cli /\ config' = config
      /\ given_up' = given_up /\ pipeline' = pipeline
  BY DEF startVars
<1>2. (role \in {"tx", "rx"} /\ IsHost(host) /\ ConfigTyped /\ CliTyped)'
  BY <1>1 DEF ChoiceInv, ConfigTyped, CliTyped, IsHost
<1>3. GivenUp(config, given_up)' /\ (Valid(config))' = Valid(config)
  BY <1>1 DEF ChoiceInv, GivenUp, Valid
<1>4. FromConfig'
  BY <1>1 DEF ChoiceInv, FromConfig, Built, NoPipeline, GivenUp, Valid, Descriptions,
              CycleConfig, SoftwareOnly
<1>5. QED
  BY <1>1, <1>2, <1>3, <1>4 DEF ChoiceInv

\* A step of the supervisor that gives up codecs or capture modes, or gets or
\* loses a pipeline.
LEMMA ChoiceServe ==
  ASSUME ChoiceInv, phase = "serve", UNCHANGED <<startVars, phase, config>>,
         GivenUp(config, given_up'),
         \/ pipeline' = pipeline
         \/ pipeline' = NoPipeline
         \/ \E name : pipeline' = Descriptions(config, name, given_up, host)
  PROVE  ChoiceInv'
<1>1. role' = role /\ host' = host /\ cli' = cli /\ config' = config /\ phase' = phase
  BY DEF startVars
<1>2. (role \in {"tx", "rx"} /\ IsHost(host) /\ ConfigTyped /\ CliTyped)'
  BY <1>1 DEF ChoiceInv, ConfigTyped, CliTyped, IsHost
<1>3. GivenUp(config, given_up)' /\ (Valid(config))' = Valid(config) /\ Valid(config)
  BY <1>1 DEF ChoiceInv, GivenUp, Valid
<1>4. \A name, gone : GivenUp(config, gone)' = GivenUp(config, gone)
                      /\ (Descriptions(config, name, gone, host))' = Descriptions(config, name, gone, host)
  BY <1>1 DEF GivenUp, Descriptions, CycleConfig, SoftwareOnly
<1>5. FromConfig'
  BY <1>1, <1>3, <1>4 DEF ChoiceInv, FromConfig, Built, NoPipeline
<1>6. QED
  BY <1>1, <1>2, <1>3, <1>5 DEF ChoiceInv

\* Only the hardware codec that was chosen automatically is blamed for it, and
\* a receiver has no capture.
LEMMA GivesUpSafe ==
  ASSUME NEW before, NEW after, ChoiceInv, GivesUp(before, after)
  PROVE  GivenUp(config, given_up')
<1>1. PICK blamed \in SUBSET Blamable(pipeline) : given_up' = given_up \union blamed
  BY DEF GivesUp
<1>2. "codec" \in Blamable(pipeline) => AutoCodec
  BY DEF Blamable
<1>3. role = "rx" => "capture" \notin Blamable(pipeline)
  BY DEF Blamable
<1>4. QED
  BY <1>1, <1>2, <1>3 DEF ChoiceInv, GivenUp, AutoCodec

LEMMA NextChoice == ChoiceInv /\ [Next]_vars => ChoiceInv'
<1> SUFFICES ASSUME ChoiceInv, [Next]_vars PROVE ChoiceInv'
  OBVIOUS
<1>1. CASE Load
  BY <1>1, ChoiceFrame DEF Load, Exits, supVars
<1>2. CASE Override
  <2> DEFINE o == Overridden(config)
  <2>1. /\ role' = role /\ host' = host /\ cli' = cli /\ config' = o
        /\ given_up' = given_up /\ pipeline' = pipeline
        /\ phase = "override" /\ phase' \in {"check", "announce", "ended"}
        /\ phase' # "ended" => Valid(o)
    BY <1>2 DEF Override, Exits, startVars, supVars
  <2>2. pipeline = NoPipeline /\ given_up = {}
    BY <2>1 DEF ChoiceInv
  <2>3. IF role = "tx" THEN TxTyped(o) ELSE RxTyped(o)
    BY OverriddenTyped DEF ChoiceInv
  <2> HIDE DEF o
  <2>4. (role \in {"tx", "rx"} /\ IsHost(host) /\ ConfigTyped /\ CliTyped)'
    BY <2>1, <2>3 DEF ChoiceInv, ConfigTyped, CliTyped, IsHost
  <2>5. (Valid(config))' = Valid(o)
    BY <2>1 DEF Valid
  <2>6. GivenUp(config, given_up)' /\ FromConfig'
    BY <2>1, <2>2 DEF GivenUp, FromConfig, Built, NoPipeline
  <2>7. QED
    BY <2>1, <2>2, <2>4, <2>5, <2>6 DEF ChoiceInv, NoPipeline
<1>3. CASE CheckConfig
  <2>1. /\ role' = role /\ host' = host /\ cli' = cli /\ config' = config
        /\ given_up' = given_up /\ phase = "check" /\ phase' = "ended"
        /\ pipeline' = pipeline \/ pipeline' = Descriptions(config, None, {}, host)
    BY <1>3 DEF CheckConfig, Exits, startVars
  <2>2. pipeline = NoPipeline /\ Valid(config) /\ given_up = {}
    BY <2>1 DEF ChoiceInv
  <2>3. (role \in {"tx", "rx"} /\ IsHost(host) /\ ConfigTyped /\ CliTyped)'
    BY <2>1 DEF ChoiceInv, ConfigTyped, CliTyped, IsHost
  <2>4. GivenUp(config, {})' /\ GivenUp(config, given_up)'
        /\ (Valid(config))' = Valid(config)
    BY <2>1, <2>2 DEF ChoiceInv, GivenUp, Valid
  <2>5. \A gone : (Descriptions(config, None, gone, host))' = Descriptions(config, None, gone, host)
    BY <2>1 DEF Descriptions, CycleConfig, SoftwareOnly
  <2>6. FromConfig'
    BY <2>1, <2>2, <2>4, <2>5 DEF FromConfig, Built, NoPipeline
  <2>7. QED
    BY <2>1, <2>2, <2>3, <2>4, <2>6 DEF ChoiceInv
<1>4. CASE Announce
  BY <1>4, ChoiceFrame DEF Announce, supVars
<1>5. CASE Bind
  BY <1>5, ChoiceFrame DEF Bind, Exits, supVars
<1>6. CASE Write
  BY <1>6, ChoiceFrame DEF Write, supVars
<1>7. CASE Build
  <2>1. phase = "serve" /\ UNCHANGED <<startVars, phase, config, given_up>>
        /\ pipeline' = Descriptions(config, interface, given_up, host)
    BY <1>7 DEF Build, At, Unserved
  <2>2. GivenUp(config, given_up')
    BY <2>1 DEF ChoiceInv
  <2>3. QED
    BY <2>1, <2>2, ChoiceServe
<1>8. CASE BuildFails
  <2>1. /\ phase = "serve" /\ UNCHANGED <<startVars, phase, config>>
        /\ pipeline' = NoPipeline
        /\ \/ given_up' = given_up
           \/ AutoCodec /\ given_up' = given_up \union {"codec"}
    BY <1>8 DEF BuildFails, At, Unserved
  <2>2. GivenUp(config, given_up')
    BY <2>1 DEF ChoiceInv, GivenUp, AutoCodec
  <2>3. QED
    BY <2>1, <2>2, ChoiceServe
<1>9. CASE StartFails
  BY <1>9, GivesUpSafe, ChoiceServe DEF StartFails, At, Unserved
<1>10. CASE Restart
  BY <1>10, GivesUpSafe, ChoiceServe DEF Restart, At, Unserved
<1>11. CASE Resolve
  BY <1>11, ChoiceFrame DEF Resolve, Unserved
<1>12. CASE Started \/ Ready \/ Event \/ BackoffOver \/ Shutdown
  BY <1>12, ChoiceFrame DEF Started, Ready, Event, BackoffOver, Shutdown, Unserved, supVars
<1>13. CASE SupervisorReturned \/ ServerEnded \/ Healthz \/ Stats
  BY <1>13, ChoiceFrame DEF SupervisorReturned, ServerEnded, Healthz, Stats, Exits, supVars
<1>14. CASE Ended \/ UNCHANGED vars
  BY <1>14, ChoiceFrame DEF Ended, vars, supVars
<1>15. QED
  BY <1>1, <1>2, <1>3, <1>4, <1>5, <1>6, <1>7, <1>8, <1>9, <1>10, <1>11, <1>12, <1>13, <1>14
     DEF Next

LEMMA Choice == Spec => []ChoiceInv
<1>1. QED
  BY InitChoice, NextChoice, PTL DEF Spec

\* Whatever configuration is accepted and whichever fallbacks are in force, an
\* encoder whose bitrate and GOP the program sets keeps to the limits of such
\* encoders (config.rs:479-518, lib.rs:555-605).
THEOREM EncoderLimits == Spec => []EncoderLimitsMatch
<1>1. ChoiceInv => EncoderLimitsMatch
  <2> SUFFICES ASSUME ChoiceInv, Built, role = "tx", Managed(pipeline.encoder)
               PROVE  /\ config.width % 2 = 0 /\ config.height % 2 = 0
                      /\ config.bitrate_kbps > 0 /\ config.bitrate_kbps <= IntMax \div 1000
                      /\ config.gop > 0
                      /\ config.gop * 1000 < config.media_timeout_ms * config.fps
    BY DEF EncoderLimitsMatch
  <2>1. TxTyped(config) /\ TxValid(config)
    BY DEF ChoiceInv, ConfigTyped, FromConfig, Valid
  <2>2. PICK name, gone : GivenUp(config, gone)
                          /\ pipeline = Descriptions(config, name, gone, host)
    BY DEF ChoiceInv, FromConfig
  <2>3. pipeline.encoder = SelectH264Encoder(CycleConfig(config, gone), host)[1]
    BY <2>2 DEF Descriptions, BuildTxDescriptions
  <2>4. EncoderValid(config) /\ VideoDimensionsValid(config)
    BY <2>1, <2>2, <2>3, ManagedIsValidated DEF TxValid, CommonValid
  <2>5. /\ config.gop \in Nat /\ config.fps \in Nat \ {0} /\ config.media_timeout_ms \in Nat
        /\ config.bitrate_kbps \in Nat
    BY <2>1, <2>4, ConfigAssumption DEF TxTyped, Typed, VideoDimensionsValid
  <2>6. config.gop * 1000 < config.media_timeout_ms * config.fps
    BY <2>4, <2>5, CeilDivBound DEF EncoderValid, KeyframeInterval
  <2>7. QED
    BY <2>4, <2>5, <2>6, ConfigAssumption DEF EncoderValid
<1>2. QED
  BY <1>1, Choice, PTL

\* On every host a receiver's chosen renderer shows the window or the full
\* screen that the configuration asks for (config.rs:589-597, lib.rs:826-860).
THEOREM RendererMatches == Spec => []RendererHonoursWindow
<1>1. ChoiceInv => RendererHonoursWindow
  <2> SUFFICES ASSUME ChoiceInv, Built, role = "rx", config.sink_element = ""
               PROVE  pipeline.sink.fullscreen = config.fullscreen
    BY DEF RendererHonoursWindow
  <2>1. RxTyped(config) /\ WindowValid(config, host)
    BY DEF ChoiceInv, ConfigTyped, FromConfig, Valid, RxValid
  <2>2. PICK name, gone : GivenUp(config, gone)
                          /\ pipeline = Descriptions(config, name, gone, host)
    BY DEF ChoiceInv, FromConfig
  <2> DEFINE d == CycleConfig(config, gone)
  <2>3. \A f \in DOMAIN config \ {"decoder_element"} : d[f] = config[f]
    BY <2>1, <2>2, RxCycleConfig DEF GivenUp
  <2>4. {"renderer", "profile", "fullscreen", "sink_element"}
          \subseteq DOMAIN config \ {"decoder_element"}
    BY <2>1 DEF RxTyped, Typed
  <2>5. /\ d.renderer = config.renderer /\ d.profile = config.profile
        /\ d.fullscreen = config.fullscreen /\ d.sink_element = ""
    BY <2>3, <2>4
  <2> HIDE DEF d
  <2>6. pipeline = BuildRxDescriptions(d, name, host)
    BY <2>2 DEF Descriptions, d
  <2>7. pipeline.sink = RenderSink(d, host)
    BY <2>5, <2>6 DEF BuildRxDescriptions
  <2>8. RenderSink(d, host).fullscreen = config.fullscreen
    BY <2>1, <2>5, RendererOfValid
  <2>9. QED
    BY <2>7, <2>8
<1>2. QED
  BY <1>1, Choice, PTL

LEMMA FirstOfPair ==
  ASSUME NEW t, NEW a, NEW b, t = <<a, b>>
  PROVE  t[1] = a
  OBVIOUS

LEMMA ThirdOfTriple ==
  ASSUME NEW t, NEW a, NEW b, NEW e, t = <<a, b, e>>
  PROVE  t[3] = e
  OBVIOUS

\* For every accepted configuration and host: no fallback is suspected again once
\* it has been taken; of the direct MJPEG path this is said only where the source
\* is the camera, and not one of the user's own (tx/src/main.rs:206-213,
\* rx/src/main.rs:211).
THEOREM FallbacksOnce == Spec => []FallbacksAreTakenOnce
<1>1. ChoiceInv => FallbacksAreTakenOnce
  <2> SUFFICES ASSUME ChoiceInv, Built,
                      NEW gone \in SUBSET (IF role = "rx" THEN {"codec"}
                                           ELSE IF config.source_element # "" THEN {"codec", "capture"}
                                           ELSE {"codec", "capture", "jpeg"})
               PROVE  Blamable(Descriptions(config, interface, gone, host)) \intersect gone = {}
    BY DEF FallbacksAreTakenOnce
  <2> DEFINE d == CycleConfig(config, gone)
             p == Descriptions(config, interface, gone, host)
  <2>1. CASE role = "tx"
    <3>1. TxTyped(config)
      BY <2>1 DEF ChoiceInv, ConfigTyped
    <3>2. /\ d.source_element = config.source_element
          /\ "codec" \in gone => d.encoder_element = ZeroLatencyX264
          /\ "capture" \in gone => d.capture_io_mode = "auto"
      BY <2>1, <3>1 DEF CycleConfig, SoftwareOnly, TxTyped
    <3>3. p = BuildTxDescriptions(d, interface, "jpeg" \in gone, host)
      BY <2>1 DEF Descriptions
    <3> HIDE DEF d, p
    <3>4. "codec" \notin Blamable(p) \intersect gone
      <4> SUFFICES ASSUME "codec" \in gone PROVE p.encoder.element # "v4l2h264enc"
        BY <2>1 DEF Blamable
      <4>1. SelectH264Encoder(d, host)
              = <<[element |-> "x264enc", with |-> ZeroLatencyX264], "I420">>
        BY <3>2, SoftwareEncoder
      <4>2. p.encoder = SelectH264Encoder(d, host)[1]
        BY <3>3 DEF BuildTxDescriptions
      <4> DEFINE x == [element |-> "x264enc", with |-> ZeroLatencyX264]
      <4>3. x.element # "v4l2h264enc"
        OBVIOUS
      <4> HIDE DEF x
      <4>4. p.encoder = x
        BY <4>1, <4>2, FirstOfPair, Zenon DEF x
      <4>5. QED
        BY <4>3, <4>4
    <3>5. "capture" \notin Blamable(p) \intersect gone
      <4> SUFFICES ASSUME "capture" \in gone, config.source_element = "" PROVE p.source[3] # "mmap"
        BY <2>1 DEF Blamable
      <4>1. p.source = <<"v4l2src", d.device, "auto">>
        BY <3>2, <3>3 DEF BuildTxDescriptions
      <4> DEFINE x == d.device
      <4>2. p.source[3] = "auto"
        <5>1. p.source = <<"v4l2src", x, "auto">>
          BY <4>1
        <5> HIDE DEF x
        <5>2. QED
          BY <5>1, ThirdOfTriple
      <4>3. QED
        BY <4>2
    <3>6. "jpeg" \notin Blamable(p) \intersect gone
      <4> SUFFICES ASSUME "jpeg" \in gone
                   PROVE  p.convert /\ config.source_element # "custom ! jpegdec"
        BY <2>1 DEF Blamable
      <4>1. config.source_element = ""
        BY <2>1
      <4>2. p.convert
        BY <3>3, Zenon DEF BuildTxDescriptions, DirectMjpegI420
      <4>3. QED
        BY <4>1, <4>2
    <3>7. QED
      BY <2>1, <3>4, <3>5, <3>6 DEF Blamable, p
  <2>2. CASE role = "rx"
    <3>1. RxTyped(config)
      BY <2>2 DEF ChoiceInv, ConfigTyped
    <3> SUFFICES ASSUME "codec" \in gone PROVE "codec" \notin Blamable(p)
      BY <2>2
    <3>2. d.decoder_element = LowLatencyAvdecH264
      BY <2>2, <3>1, RxCycleConfig
    <3>3. p = BuildRxDescriptions(d, interface, host)
      BY <2>2 DEF Descriptions
    <3> HIDE DEF d, p
    <3>4. p.decoder = LowLatencyAvdecH264
      BY <3>2, <3>3 DEF BuildRxDescriptions, SelectH264Decoder, LowLatencyAvdecH264
    <3>5. QED
      BY <2>2, <3>4 DEF Blamable, LowLatencyAvdecH264
  <2>3. QED
    BY <2>1, <2>2 DEF ChoiceInv
<1>2. QED
  BY <1>1, Choice, PTL

\* On every host that can build the software codec's pipeline, the hardware codec
\* given up leaves the pipeline that the same host would get without that codec;
\* a receiver without avdec_h264 can build none (tx/src/main.rs:130,
\* rx/src/main.rs:143).
THEOREM Fallback == Spec => []FallbackIsTheSoftwareChoice
<1>1. ChoiceInv => FallbackIsTheSoftwareChoice
  <2> SUFFICES ASSUME ChoiceInv, AutoCodec PROVE FallbackIsTheSoftwareChoice
    BY DEF FallbackIsTheSoftwareChoice
  <2> DEFINE taken == Descriptions(config, interface, {"codec"}, host)
             software == Descriptions(config, interface, {}, WithoutHardware(host))
  <2>1. role \in {"tx", "rx"} /\ IsHost(host) /\ ConfigTyped
    BY DEF ChoiceInv
  <2>2. CASE role = "tx"
    <3>1. taken = software
      BY <2>1, <2>2, TxFallback DEF ConfigTyped, AutoCodec
    <3>2. QED
      BY <2>2, <3>1 DEF FallbackIsTheSoftwareChoice
  <2>3. CASE role = "rx" /\ "avdec_h264" \in host.installed
    <3>1. taken = software
      BY <2>1, <2>3, RxFallback DEF ConfigTyped, AutoCodec
    <3>2. QED
      BY <2>3, <3>1 DEF FallbackIsTheSoftwareChoice
  <2>4. CASE role = "rx" /\ "avdec_h264" \notin host.installed
    <3>1. ~Parses(role, taken, host)
      BY <2>1, <2>4, RxNoFallback DEF ConfigTyped
    <3>2. QED
      BY <2>4, <3>1 DEF FallbackIsTheSoftwareChoice
  <2>5. QED
    BY <2>1, <2>2, <2>3, <2>4
<1>2. QED
  BY <1>1, Choice, PTL

-----------------------------------------------------------------------------
\* The interface

\* Until the pipeline is built the interface is what was read resolves to.
LinksInv ==
    /\ phase \notin {"serve", "ended"} => links = <<>>
    /\ phase = "serve" /\ links # <<>> => sup = "build"
    /\ links # <<>> => links \in Situation /\ interface = Resolved(links)

LEMMA LinksFrame ==
  ASSUME LinksInv, UNCHANGED <<config, links, interface>>,
         \/ UNCHANGED <<phase, sup>>
         \/ phase' = "ended"
         \/ phase \notin {"serve", "ended"}
  PROVE  LinksInv'
  BY DEF LinksInv, Resolved

LEMMA NextLinks == LinksInv /\ [Next]_vars => LinksInv'
<1> SUFFICES ASSUME LinksInv, [Next]_vars PROVE LinksInv'
  OBVIOUS
<1>1. CASE Load \/ CheckConfig \/ Announce \/ Bind \/ ServerEnded \/ SupervisorReturned
  BY <1>1, LinksFrame
     DEF Load, CheckConfig, Announce, Bind, ServerEnded, SupervisorReturned, Exits, supVars
<1>2. CASE Override
  <2>1. links = <<>> /\ links' = links
    BY <1>2 DEF Override, LinksInv, supVars
  <2>2. QED
    BY <2>1 DEF LinksInv
<1>3. CASE Resolve
  <2>1. phase = "serve" /\ links = <<>> /\ phase' = phase /\ config' = config
    BY <1>3 DEF Resolve, At, Unserved, LinksInv
  <2>2. PICK found \in Situation :
          /\ interface' = ResolveInterfaceNameForRtp(
                             InterfaceOverride(config), config.rtp_mtu, found)
          /\ \/ links' = links
             \/ sup' = "build" /\ links' = found
    BY <1>3 DEF Resolve
  <2>3. links' # <<>> => interface' = (Resolved(links))'
    BY <2>1, <2>2 DEF Resolved
  <2>4. QED
    BY <2>1, <2>2, <2>3 DEF LinksInv
<1>4. CASE Build \/ BuildFails
  <2>1. links' = <<>>
    BY <1>4 DEF Build, BuildFails
  <2>2. QED
    BY <2>1 DEF LinksInv
<1>5. CASE StartFails \/ Started \/ Ready \/ Restart \/ BackoffOver \/ Shutdown
  <2>1. links = <<>> /\ links' = links
    BY <1>5 DEF StartFails, Started, Ready, Restart, BackoffOver, Shutdown, At, LinksInv
  <2>2. QED
    BY <2>1 DEF LinksInv
<1>6. CASE Write \/ Event \/ Healthz \/ Stats \/ Ended \/ UNCHANGED vars
  BY <1>6, LinksFrame DEF Write, Event, Healthz, Stats, Ended, Unserved, supVars, vars
<1>7. QED
  BY <1>1, <1>2, <1>3, <1>4, <1>5, <1>6 DEF Next

\* Of two situations that differ in one interface, auto that succeeds in both
\* finds the same one.
LEMMA AutoDoesNotSwitch ==
  ASSUME NEW here, NEW l, IsFiniteSet(DOMAIN here), IsFiniteSet(DOMAIN l), NEW name,
         (DOMAIN here \union {name}) = (DOMAIN l \union {name}),
         \A other \in DOMAIN l \ {name} : l[other] = here[other],
         ChooseAutoInterface(Candidates(here)) # NoInterface,
         ChooseAutoInterface(Candidates(l)) # NoInterface
  PROVE  ChooseAutoInterface(Candidates(l)) = ChooseAutoInterface(Candidates(here))
<1>1. \A S : IsFiniteSet(S) /\ ChooseAutoInterface(S) # NoInterface
               => S = {ChooseAutoInterface(S)}
  <2> SUFFICES ASSUME NEW S, IsFiniteSet(S), Cardinality(S) = 1
               PROVE  S = {CHOOSE x \in S : TRUE}
    BY DEF ChooseAutoInterface
  <2>1. PICK x : S = {x}
    BY FS_Singleton
  <2>2. QED
    BY <2>1
<1>2. \A k : IsFiniteSet(DOMAIN k) => IsFiniteSet(Candidates(k))
  BY FS_Subset DEF Candidates
<1>3. PICK a, b : Candidates(here) = {a} /\ Candidates(l) = {b}
                  /\ ChooseAutoInterface(Candidates(here)) = a
                  /\ ChooseAutoInterface(Candidates(l)) = b
  BY <1>1, <1>2
<1>4. \A x : x # name => (x \in Candidates(here) <=> x \in Candidates(l))
  BY DEF Candidates, Usable
<1>5. QED
  BY <1>3, <1>4

\* For any number of interfaces: the change of one of them leaves a service with
\* the interface it has or with none (net.rs:9-43, README.md:207).
THEOREM InterfaceNeverSwitches == Spec => []NoSilentSwitch
<1>1. Init => LinksInv
  BY DEF Init, LinksInv
<1>2. LinksInv => NoSilentSwitch
  <2> SUFFICES ASSUME LinksInv, interface # NoInterface, links # <<>>,
                      NEW l \in Situation, OneApart(l)
               PROVE  Resolved(l) \in {interface, NoInterface}
    BY DEF NoSilentSwitch
  <2> DEFINE selection == InterfaceOverride(config)
  <2>1. links \in Situation /\ interface = Resolved(links)
    BY DEF LinksInv
  <2>2. interface = ResolveInterfaceName(selection, links)
    BY <2>1 DEF Resolved, ResolveInterfaceNameForRtp
  <2>3. Resolved(l) \in {ResolveInterfaceName(selection, l), NoInterface}
    BY DEF Resolved, ResolveInterfaceNameForRtp
  <2>4. CASE selection # "auto"
    BY <2>2, <2>3, <2>4 DEF ResolveInterfaceName
  <2>5. CASE selection = "auto"
    <3>1. /\ interface = ChooseAutoInterface(Candidates(links))
          /\ ResolveInterfaceName(selection, l) = ChooseAutoInterface(Candidates(l))
      BY <2>2, <2>5 DEF ResolveInterfaceName
    <3>2. IsFiniteSet(DOMAIN links) /\ IsFiniteSet(DOMAIN l)
      BY <2>1, SituationAssumption
    <3>3. PICK name : /\ (DOMAIN links \union {name}) = (DOMAIN l \union {name})
                      /\ \A other \in DOMAIN l \ {name} : l[other] = links[other]
      BY DEF OneApart
    <3>4. QED
      BY <2>3, <3>1, <3>2, <3>3, AutoDoesNotSwitch
  <2>6. QED
    BY <2>4, <2>5
<1>3. QED
  BY <1>1, <1>2, NextLinks, PTL DEF Spec

-----------------------------------------------------------------------------
\* The two locks

\* Writes of stats that carry no mark.
IsPlain(w) == w.lock = "stats" /\ "mark" \notin DOMAIN w.set

Plain(ws) == \E S : ws \in Seq(S) /\ \A w \in S : IsPlain(w)

\* A mark's two writes are the last of the queue, health before stats, and what
\* is marked is no older than health and no newer than the last message.
Queued(ws, low, high) ==
    /\ \E S : ws \in Seq(S)
    /\ \A i \in 1..Len(ws) :
         \/ IsPlain(ws[i])
         \/ /\ i = Len(ws) - 1
            /\ ws[i].lock = "health" /\ ws[i].set.mark \in low..high
            /\ ws[i + 1].lock = "stats" /\ ws[i + 1].set.mark = ws[i].set.mark
         \/ /\ i = Len(ws) /\ ws[i].lock = "stats" /\ ws[i].set.mark \in Nat
            /\ \/ ws[i].set.mark <= low
               \/ /\ i > 1 /\ ws[i - 1].lock = "health"
                  /\ ws[i - 1].set.mark = ws[i].set.mark

LEMMA PlainOver ==
  ASSUME NEW S, NEW ws \in Seq(S), \A x \in S : IsPlain(x)
  PROVE  Plain(ws)
  BY DEF Plain

LEMMA PlainQueue ==
  ASSUME NEW ws, Plain(ws), NEW low, NEW high
  PROVE  Queued(ws, low, high)
  BY DEF Plain, Queued

LEMMA PlainConcat ==
  ASSUME NEW v, NEW w, Plain(v), Plain(w)
  PROVE  Plain(v \o w)
<1>1. PICK S : v \in Seq(S) /\ \A x \in S : IsPlain(x)
  BY DEF Plain
<1>2. PICK T : w \in Seq(T) /\ \A x \in T : IsPlain(x)
  BY DEF Plain
<1>3. v \in Seq(S \union T) /\ w \in Seq(S \union T)
  BY <1>1, <1>2
<1>4. v \o w \in Seq(S \union T)
  BY <1>3
<1>5. QED
  BY <1>1, <1>2, <1>4 DEF Plain

\* SetStats without a mark, AddNote and Bump.
LEMMA PlainWrites ==
  /\ Plain(<<>>)
  /\ \A w : IsPlain(w) => Plain(<<w>>)
  /\ \A n : IsPlain(AddNote(n))
  /\ \A fields : "mark" \notin DOMAIN fields => IsPlain(SetStats(fields))
<1>1. Plain(<<>>)
  <2> DEFINE S == {}
  <2>1. <<>> \in Seq(S) /\ \A x \in S : IsPlain(x)
    OBVIOUS
  <2> HIDE DEF S
  <2>2. QED
    BY <2>1, PlainOver
<1>2. \A w : IsPlain(w) => Plain(<<w>>)
  <2> SUFFICES ASSUME NEW w, IsPlain(w) PROVE Plain(<<w>>)
    OBVIOUS
  <2> DEFINE S == {w}
  <2>1. <<w>> \in Seq(S) /\ \A x \in S : IsPlain(x)
    OBVIOUS
  <2> HIDE DEF S
  <2>2. QED
    BY <2>1, PlainOver
<1>3. \A n : IsPlain(AddNote(n))
  BY DEF AddNote, IsPlain
<1>4. \A fields : "mark" \notin DOMAIN fields => IsPlain(SetStats(fields))
  BY DEF SetStats, IsPlain
<1>5. QED
  BY <1>1, <1>2, <1>3, <1>4

LEMMA MarkQueue ==
  ASSUME NEW ws, Plain(ws), NEW low \in Nat, NEW high \in Nat, NEW state,
         NEW n \in low..high
  PROVE  Queued(ws \o Mark(state, n), low, high)
<1> DEFINE m == Mark(state, n)
           q == ws \o m
<1>1. PICK S : ws \in Seq(S) /\ \A x \in S : IsPlain(x)
  BY DEF Plain
<1>2. /\ m \in Seq({m[1], m[2]}) /\ Len(m) = 2
      /\ m[1].lock = "health" /\ m[1].set.mark = n
      /\ m[2].lock = "stats" /\ m[2].set.mark = n
  BY DEF Mark, SetHealth, MarkFields
<1> HIDE DEF m
<1> DEFINE U == S \union {m[1], m[2]}
<1>3. ws \in Seq(U) /\ m \in Seq(U)
  BY <1>1, <1>2
<1> HIDE DEF U
<1>4. /\ q \in Seq(U) /\ Len(q) = Len(ws) + Len(m)
      /\ \A i \in 1..Len(ws) + Len(m) : q[i] = IF i <= Len(ws) THEN ws[i] ELSE m[i - Len(ws)]
  BY <1>3, ConcatProperties
<1> HIDE DEF q
<1>5. Len(ws) \in Nat
  BY <1>3
<1>6. /\ q \in Seq(U) /\ Len(q) = Len(ws) + 2
      /\ \A i \in 1..Len(ws) : q[i] = ws[i]
      /\ q[Len(ws) + 1] = m[1] /\ q[Len(ws) + 2] = m[2]
  <2>1. Len(ws) + 1 - Len(ws) = 1 /\ Len(ws) + 2 - Len(ws) = 2
    BY <1>5
  <2>2. Len(q) = Len(ws) + 2 /\ \A i \in 1..Len(ws) + 2 : q[i] = IF i <= Len(ws) THEN ws[i] ELSE m[i - Len(ws)]
    BY <1>2, <1>4
  <2>3. \A i \in 1..Len(ws) : i \in 1..Len(ws) + 2 /\ i <= Len(ws)
    BY <1>5
  <2>4. /\ Len(ws) + 1 \in 1..Len(ws) + 2 /\ ~(Len(ws) + 1 <= Len(ws))
        /\ Len(ws) + 2 \in 1..Len(ws) + 2 /\ ~(Len(ws) + 2 <= Len(ws))
    BY <1>5
  <2>5. q[Len(ws) + 1] = m[1] /\ q[Len(ws) + 2] = m[2]
    <3>1. /\ q[Len(ws) + 1] = m[Len(ws) + 1 - Len(ws)]
          /\ q[Len(ws) + 2] = m[Len(ws) + 2 - Len(ws)]
      BY <2>2, <2>4
    <3>2. QED
      BY <2>1, <3>1, Zenon
  <2>6. QED
    BY <1>4, <2>2, <2>3, <2>5
<1>7. Len(ws) \in Nat /\ \A i \in 1..Len(ws) : IsPlain(ws[i])
  BY <1>1
<1>8. \A i \in 1..Len(q) : i \in 1..Len(ws) \/ i = Len(ws) + 1 \/ i = Len(ws) + 2
  BY <1>6, <1>7
<1>9. /\ Len(ws) + 1 = Len(q) - 1 /\ Len(ws) + 2 = Len(q) /\ Len(ws) + 2 > 1
      /\ Len(ws) + 2 - 1 = Len(ws) + 1 /\ Len(ws) + 1 + 1 = Len(ws) + 2
  BY <1>5, <1>6
<1>10. Queued(q, low, high)
  <2>1. \A i \in 1..Len(ws) : IsPlain(q[i])
    BY <1>6, <1>7
  <2>2. q[Len(ws) + 1].lock = "health" /\ q[Len(ws) + 1].set.mark \in low..high
    BY <1>2, <1>6
  <2>3. q[Len(ws) + 2].lock = "stats" /\ q[Len(ws) + 2].set.mark = q[Len(ws) + 1].set.mark
    BY <1>2, <1>6
  <2>4. q[Len(ws) + 2].set.mark \in Nat
    BY <1>2, <1>6
  <2>5. QED
    BY <1>6, <1>8, <1>9, <2>1, <2>2, <2>3, <2>4 DEF Queued
<1>11. QED
  BY <1>10 DEF q, m

MarksInv ==
    /\ said \in Nat /\ health.mark \in Nat /\ stats.mark \in Nat /\ answered \in Nat
    /\ health.mark <= said /\ stats.mark <= health.mark /\ answered <= health.mark
    /\ "mark" \in DOMAIN stats
    /\ Queued(writes, health.mark, said)
    /\ phase \notin {"serve", "ended"} => health.mark = 0 /\ writes = <<>>

\* What the supervisor asks for next.
LEMMA MarksQueued ==
  ASSUME MarksInv, phase = "serve", UNCHANGED <<phase, health, stats, answered>>,
         said' \in Nat, said' >= said, Queued(writes', health.mark, said')
  PROVE  MarksInv'
  BY DEF MarksInv

LEMMA SaysMark ==
  ASSUME MarksInv, NEW ws, Plain(ws), NEW k \in Nat, NEW state,
         writes' = ws \o Mark(state, said + k), said' = said + k
  PROVE  said' \in Nat /\ said' >= said /\ Queued(writes', health.mark, said')
<1>1. said + k \in health.mark..said + k /\ health.mark \in Nat /\ said + k \in Nat
  BY DEF MarksInv
<1>2. QED
  BY <1>1, MarkQueue DEF MarksInv

LEMMA SaysPlain ==
  ASSUME MarksInv, NEW k \in Nat, Plain(writes'), said' = said + k
  PROVE  said' \in Nat /\ said' >= said /\ Queued(writes', health.mark, said')
  BY PlainQueue DEF MarksInv

\* A mark on its own.
LEMMA MarkAlone ==
  ASSUME NEW state, NEW n
  PROVE  Mark(state, n) = <<>> \o Mark(state, n)
  BY DEF Mark

LEMMA FailsQueue ==
  ASSUME MarksInv, NEW before, NEW after, Plain(before), Plain(after), NEW notes \in Nat,
         Fails(before, after, notes)
  PROVE  said' \in Nat /\ said' >= said /\ Queued(writes', health.mark, said')
<1>1. Plain(<<Bump>>)
  BY PlainWrites DEF Bump
<1>2. Plain(before \o <<Bump>> \o after)
  BY <1>1, PlainConcat
<1>3. /\ writes' = before \o <<Bump>> \o after \o Mark("failed", said + notes + 1)
      /\ said' = said + (notes + 1)
  BY Zenon DEF Fails, Writes
<1>4. said \in Nat /\ notes + 1 \in Nat /\ said + notes + 1 = said + (notes + 1)
  BY SMT DEF MarksInv
<1>5. writes' = (before \o <<Bump>> \o after) \o Mark("failed", said + (notes + 1))
  BY <1>3, <1>4, Zenon
<1>6. QED
  BY <1>2, <1>3, <1>4, <1>5, SaysMark

LEMMA GivesUpQueue ==
  ASSUME MarksInv, NEW before, NEW after, Plain(before), Plain(after), GivesUp(before, after)
  PROVE  said' \in Nat /\ said' >= said /\ Queued(writes', health.mark, said')
<1>1. PICK blamed \in SUBSET Blamable(pipeline) :
        Fails(before \o [i \in 1..Cardinality(blamed) |-> AddNote(said + i)], after,
              Cardinality(blamed))
  BY DEF GivesUp
<1> DEFINE n == Cardinality(blamed)
           notes == [i \in 1..n |-> AddNote(said + i)]
<1>2. n \in Nat
  <2>1. IsFiniteSet({"codec"} \union {"capture"} \union {"jpeg"})
    BY FS_Singleton, FS_Union
  <2>2. blamed \subseteq {"codec"} \union {"capture"} \union {"jpeg"}
    BY DEF Blamable
  <2>3. QED
    BY <2>1, <2>2, FS_Subset, FS_CardinalityType
<1> HIDE DEF n
<1>3. Plain(notes)
  <2> DEFINE S == {AddNote(said + i) : i \in 1..n}
  <2>1. notes \in Seq(S) /\ \A x \in S : IsPlain(x)
    BY <1>2, PlainWrites
  <2> HIDE DEF S
  <2>2. QED
    BY <2>1, PlainOver
<1>4. Fails(before \o notes, after, n)
  BY <1>1 DEF n
<1> HIDE DEF notes
<1>5. QED
  BY <1>2, <1>3, <1>4, PlainConcat, FailsQueue

LEMMA WriteMarks == MarksInv /\ Write => MarksInv'
<1> SUFFICES ASSUME MarksInv, Write PROVE MarksInv'
  OBVIOUS
<1> DEFINE w == Head(writes)
<1>1. PICK S : writes \in Seq(S)
  BY DEF MarksInv, Queued
<1>2. /\ Len(writes) \in Nat /\ Len(writes) >= 1 /\ w = writes[1]
      /\ writes' \in Seq(S) /\ Len(writes') = Len(writes) - 1
      /\ \A i \in 1..Len(writes') : i + 1 \in 1..Len(writes) /\ writes'[i] = writes[i + 1]
  BY <1>1 DEF Write
<1>3. said' = said /\ answered' = answered /\ phase' = phase /\ phase = "serve"
  BY DEF Write
<1>4. CASE w.lock = "health"
  <2>1. health' = w.set /\ stats' = stats
    BY <1>4 DEF Write
  <2>2. /\ Len(writes) = 2 /\ w.set.mark \in health.mark..said
        /\ writes[2].lock = "stats" /\ writes[2].set.mark = w.set.mark
    BY <1>2, <1>4 DEF MarksInv, Queued, IsPlain
  <2>3. Queued(writes', w.set.mark, said)
    BY <1>1, <1>2, <2>2 DEF Queued, MarksInv
  <2>4. QED
    BY <1>3, <2>1, <2>2, <2>3 DEF MarksInv
<1>5. CASE w.lock # "health"
  <2>1. /\ health' = health
        /\ stats' = IF w.note = 0 THEN Updated(w.set)
                    ELSE [Updated(w.set) EXCEPT !.notes = PushNote(stats.notes, w.note)]
    BY <1>5 DEF Write
  <2>2. /\ "mark" \in DOMAIN stats'
        /\ stats'.mark = IF "mark" \in DOMAIN w.set THEN w.set.mark ELSE stats.mark
    BY <2>1 DEF Updated, MarksInv
  <2>3. \/ "mark" \notin DOMAIN w.set
        \/ w.set.mark \in Nat /\ w.set.mark <= health.mark
    BY <1>2, <1>5 DEF MarksInv, Queued, IsPlain
  <2>4. Queued(writes', health.mark, said)
    <3> SUFFICES ASSUME NEW i \in 1..Len(writes')
                 PROVE  \/ IsPlain(writes'[i])
                        \/ /\ i = Len(writes') - 1
                           /\ writes'[i].lock = "health"
                           /\ writes'[i].set.mark \in health.mark..said
                           /\ writes'[i + 1].lock = "stats"
                           /\ writes'[i + 1].set.mark = writes'[i].set.mark
                        \/ /\ i = Len(writes') /\ writes'[i].lock = "stats"
                           /\ writes'[i].set.mark \in Nat
                           /\ \/ writes'[i].set.mark <= health.mark
                              \/ /\ i > 1 /\ writes'[i - 1].lock = "health"
                                 /\ writes'[i - 1].set.mark = writes'[i].set.mark
      BY <1>2 DEF Queued
    <3>1. i + 1 \in 1..Len(writes) /\ writes'[i] = writes[i + 1]
      BY <1>2
    <3>2. CASE IsPlain(writes[i + 1])
      BY <3>1, <3>2
    <3>3. CASE /\ i + 1 = Len(writes) - 1
               /\ writes[i + 1].lock = "health"
               /\ writes[i + 1].set.mark \in health.mark..said
               /\ writes[i + 2].lock = "stats"
               /\ writes[i + 2].set.mark = writes[i + 1].set.mark
      <4>1. writes'[i + 1] = writes[i + 2] /\ i = Len(writes') - 1
        BY <1>2, <3>3
      <4>2. QED
        BY <3>1, <3>3, <4>1
    <3>4. CASE /\ i + 1 = Len(writes) /\ writes[i + 1].lock = "stats"
               /\ writes[i + 1].set.mark \in Nat
               /\ \/ writes[i + 1].set.mark <= health.mark
                  \/ /\ i + 1 > 1 /\ writes[i].lock = "health"
                     /\ writes[i].set.mark = writes[i + 1].set.mark
      <4>1. CASE i = 1
        <5>1. writes[i].lock # "health"
          BY <1>2, <1>5, <4>1
        <5>2. writes[i + 1].set.mark <= health.mark /\ i = Len(writes')
          BY <1>2, <3>4, <5>1
        <5>3. QED
          BY <3>1, <3>4, <5>2
      <4>2. CASE i > 1
        <5>1. writes'[i - 1] = writes[i] /\ i = Len(writes')
          BY <1>2, <3>4, <4>2
        <5>2. i + 1 # 1 /\ i \in Nat
          BY <1>2, <4>2
        <5>3. QED
          BY <3>1, <3>4, <4>2, <5>1, <5>2
      <4>3. QED
        BY <4>1, <4>2
    <3>5. \/ IsPlain(writes[i + 1])
          \/ /\ i + 1 = Len(writes) - 1
             /\ writes[i + 1].lock = "health"
             /\ writes[i + 1].set.mark \in health.mark..said
             /\ writes[i + 1 + 1].lock = "stats"
             /\ writes[i + 1 + 1].set.mark = writes[i + 1].set.mark
          \/ /\ i + 1 = Len(writes) /\ writes[i + 1].lock = "stats"
             /\ writes[i + 1].set.mark \in Nat
             /\ \/ writes[i + 1].set.mark <= health.mark
                \/ /\ i + 1 > 1 /\ writes[i + 1 - 1].lock = "health"
                   /\ writes[i + 1 - 1].set.mark = writes[i + 1].set.mark
      <4> DEFINE j == i + 1
      <4>1. j \in 1..Len(writes) /\ Queued(writes, health.mark, said)
        BY <3>1 DEF MarksInv
      <4> HIDE DEF j
      <4>2. \/ IsPlain(writes[j])
            \/ /\ j = Len(writes) - 1
               /\ writes[j].lock = "health"
               /\ writes[j].set.mark \in health.mark..said
               /\ writes[j + 1].lock = "stats"
               /\ writes[j + 1].set.mark = writes[j].set.mark
            \/ /\ j = Len(writes) /\ writes[j].lock = "stats"
               /\ writes[j].set.mark \in Nat
               /\ \/ writes[j].set.mark <= health.mark
                  \/ /\ j > 1 /\ writes[j - 1].lock = "health"
                     /\ writes[j - 1].set.mark = writes[j].set.mark
        BY <4>1, Zenon DEF Queued
      <4>3. QED
        BY <4>2 DEF j
    <3>6. i + 1 + 1 = i + 2 /\ i + 1 - 1 = i
      BY <3>1
    <3>7. QED
      BY <3>2, <3>3, <3>4, <3>5, <3>6
  <2>5. QED
    BY <1>3, <2>1, <2>2, <2>3, <2>4 DEF MarksInv
<1>6. QED
  BY <1>4, <1>5

LEMMA InitMarks == Init => MarksInv
<1> SUFFICES ASSUME Init PROVE MarksInv
  OBVIOUS
<1>1. writes = <<>> /\ said = 0 /\ answered = 0 /\ health.mark = 0 /\ phase = "load"
      /\ stats.mark = 0 /\ "mark" \in DOMAIN stats
  BY DEF Init
<1>2. Queued(writes, 0, 0)
  BY <1>1, PlainWrites, PlainQueue
<1>3. QED
  BY <1>1, <1>2 DEF MarksInv

\* Steps of the supervisor that ask for writes.
LEMMA SupervisorMarks ==
  ASSUME MarksInv,
         Resolve \/ Build \/ BuildFails \/ StartFails \/ Started \/ Ready \/ Event \/ Restart
           \/ Shutdown
  PROVE  MarksInv'
<1> USE PlainWrites
<1>1. phase = "serve" /\ UNCHANGED <<phase, health, stats, answered>>
  BY DEF At, Resolve, Build, BuildFails, StartFails, Started, Ready, Event, Restart, Shutdown,
         Unserved, snapshots
<1> SUFFICES said' \in Nat /\ said' >= said /\ Queued(writes', health.mark, said')
  BY <1>1, MarksQueued
<1>2. \A x : /\ Plain(<<SetStats([interface |-> x])>>)
             /\ Plain(<<SetStats([pipeline |-> x])>>)
             /\ Plain(<<SetStats([renderer |-> x])>>)
  OBVIOUS
<1>3. Plain(<<SetError>>)
  BY DEF SetError
<1>4. CASE Resolve
  <2>1. \/ Fails(<<SetStats([interface |-> None])>>, <<>>, 0)
        \/ Writes(<<SetStats([interface |-> interface'])>>, 0)
    BY <1>4 DEF Resolve
  <2>2. QED
    BY <1>2, <2>1, FailsQueue, SaysPlain DEF Writes
<1>5. CASE Build
  <2>1. PICK d : Writes(Announced(d) \o Mark("starting_pipeline", said + 1), 1)
    BY <1>5 DEF Build
  <2>2. Plain(Announced(d))
    BY <1>2, PlainConcat DEF Announced
  <2>3. QED
    BY <2>1, <2>2, SaysMark DEF Writes
<1>6. CASE BuildFails
  BY <1>6, FailsQueue DEF BuildFails
<1>7. CASE StartFails
  BY <1>7, GivesUpQueue DEF StartFails
<1>8. CASE Restart
  BY <1>3, <1>8, GivesUpQueue DEF Restart
<1>9. CASE Started \/ Ready \/ Shutdown
  <2>1. PICK state : Writes(Mark(state, said + 1), 1)
    BY <1>9 DEF Started, Ready, Shutdown
  <2>2. writes' = <<>> \o Mark(state, said + 1) /\ said' = said + 1
    BY <2>1, MarkAlone DEF Writes
  <2>3. QED
    BY <2>2, SaysMark
<1>10. CASE Event
  BY <1>10, SaysPlain DEF Event, Writes
<1>11. QED
  BY <1>4, <1>5, <1>6, <1>7, <1>8, <1>9, <1>10

LEMMA NextMarks == MarksInv /\ [Next]_vars => MarksInv'
<1> SUFFICES ASSUME MarksInv, [Next]_vars PROVE MarksInv'
  OBVIOUS
<1>1. CASE Resolve \/ Build \/ BuildFails \/ StartFails \/ Started \/ Ready \/ Event \/ Restart
             \/ Shutdown
  BY <1>1, SupervisorMarks
<1>2. CASE Write
  BY <1>2, WriteMarks
<1>3. CASE Announce
  <2>1. said' \in Nat /\ health' = health /\ health.mark = 0 /\ answered' = answered
        /\ writes' = writes /\ phase' = "bind"
        /\ stats'.mark = stats.mark /\ "mark" \in DOMAIN stats'
    BY <1>3 DEF Announce, MarksInv, FirstNotes, supVars
  <2>2. Queued(writes', health.mark, said')
    BY <1>3, <2>1, PlainWrites, PlainQueue DEF Announce, MarksInv
  <2>3. QED
    BY <1>3, <2>1, <2>2 DEF MarksInv, Announce
<1>4. CASE Healthz \/ Stats
  <2>1. answered' \in {answered, health.mark, stats.mark}
        /\ UNCHANGED <<phase, writes, said, health, stats>>
    BY <1>4 DEF Healthz, Stats, Shown, snapshots, MarksInv
  <2>2. QED
    BY <2>1 DEF MarksInv
<1>5. CASE Load \/ Override \/ CheckConfig \/ Bind \/ BackoffOver \/ SupervisorReturned
             \/ ServerEnded \/ Ended \/ UNCHANGED vars
  <2>1. UNCHANGED <<writes, said, health, stats, answered>>
        /\ (phase' \notin {"serve", "ended"} => phase \notin {"serve", "ended"})
    BY <1>5 DEF Load, Override, CheckConfig, Bind, BackoffOver, SupervisorReturned,
                ServerEnded, Ended, Exits, Unserved, At, snapshots, vars
  <2>2. QED
    BY <2>1 DEF MarksInv
<1>6. QED
  BY <1>1, <1>2, <1>3, <1>4, <1>5 DEF Next

\* Over any number of cycles, events and failures, and at any instant between
\* the two writes of a mark, /healthz is at least as new as what a client has
\* seen of either page (metrics.rs:106-176).
THEOREM AnswersStand == Spec => []NoAnswerIsTakenBack
<1>1. MarksInv => NoAnswerIsTakenBack
  BY DEF MarksInv, NoAnswerIsTakenBack
<1>2. QED
  BY <1>1, InitMarks, NextMarks, PTL DEF Spec

-----------------------------------------------------------------------------
\* Heartbeats of a steady stream

\* Induction, without an operator for what is shown: a set of naturals has a least
\* member, and so has that of the counterexamples.
LEMMA LeastNatural ==
  ASSUME NEW T, T \subseteq Nat, T # {}
  PROVE  \E m \in T : \A k \in T : m <= k
<1>1. \E x \in T : \A y \in T : ~ (<<y, x>> \in OpToRel(<, Nat))
  BY WFMin, NatLessThanWellFounded
<1>2. PICK x \in T : \A y \in T : ~ (<<y, x>> \in OpToRel(<, Nat))
  BY <1>1
<1>3. ASSUME NEW y \in T PROVE x <= y
  <2>1. x \in Nat /\ y \in Nat
    BY <1>2
  <2>2. <<y, x>> \in OpToRel(<, Nat) <=> y < x
    BY <2>1 DEF OpToRel
  <2>3. ~ (y < x)
    BY <1>2, <2>2, Zenon
  <2>4. QED
    BY <2>1, <2>3
<1>4. QED
  BY <1>2, <1>3

\* g is what the frames 0..n of a steady stream leave.
Follows(g, n, fps) ==
    g = [k \in 0..n |-> PassFrame(k, IF k = 0 THEN NeverHeard ELSE g[k - 1], fps)]

\* The recursion has a solution.
LEMMA FramesExist ==
  ASSUME NEW fps, NEW n \in Nat
  PROVE  \E g : Follows(g, n, fps)
<1> DEFINE T == {m \in Nat : ~ \E g : Follows(g, m, fps)}
<1>1. SUFFICES ASSUME T # {} PROVE FALSE
  OBVIOUS
<1>2. PICK m \in T : \A k \in T : m <= k
  BY <1>1, LeastNatural
<1>3. CASE m = 0
  <2> DEFINE g == [k \in 0..0 |-> PassFrame(0, NeverHeard, fps)]
  <2>1. Follows(g, 0, fps)
    BY DEF Follows
  <2>2. QED
    BY <1>2, <1>3, <2>1
<1>4. CASE m # 0
  <2>1. m - 1 \in Nat /\ m - 1 \notin T
    BY <1>2, <1>4
  <2>2. PICK g : Follows(g, m - 1, fps)
    BY <2>1
  <2> DEFINE h == [k \in 0..m |-> PassFrame(k, IF k = 0 THEN NeverHeard ELSE g[k - 1], fps)]
  <2>3. \A k \in 0..(m - 1) : h[k] = g[k]
    BY <2>1, <2>2 DEF Follows
  <2>4. \A k \in 0..m : k # 0 => k - 1 \in 0..(m - 1)
    BY <2>1
  <2>5. \A k \in 0..m : (IF k = 0 THEN NeverHeard ELSE g[k - 1]) = (IF k = 0 THEN NeverHeard ELSE h[k - 1])
    BY <2>3, <2>4
  <2>6. Follows(h, m, fps)
    BY <2>5 DEF Follows
  <2>7. QED
    BY <1>2, <2>6
<1>5. QED
  BY <1>3, <1>4

LEMMA SilenceIsThatOfFrames ==
  ASSUME NEW fps, NEW n \in Nat
  PROVE \E g : Follows(g, n, fps) /\ LongestSilence(n, fps) = g[n].longest
<1> DEFINE a == CHOOSE g : Follows(g, n, fps)
<1>1. Follows(a, n, fps)
  BY FramesExist, Zenon
<1>2. LongestSilence(n, fps) = a[n].longest
  BY Zenon DEF LongestSilence, Follows
<1>3. QED
  BY <1>1, <1>2

LEMMA QuotientBounds ==
  ASSUME NEW a \in Nat, NEW b \in Nat \ {0}
  PROVE  a \div b \in Nat /\ b * (a \div b) <= a /\ a < b * (a \div b) + b
  OBVIOUS

LEMMA FactorLess ==
  ASSUME NEW b \in Nat \ {0}, NEW x \in Int, NEW y \in Int, b * x < b * y
  PROVE  x < y
<1>1. SUFFICES ASSUME y <= x PROVE FALSE
  OBVIOUS
<1>2. b * y <= b * x
  BY <1>1, SMT
<1>3. QED
  BY <1>2

\* Frames come at most a frame interval, rounded up, apart.
LEMMA FrameApart ==
  ASSUME NEW fps \in Nat \ {0}, NEW k \in Nat
  PROVE  LET t == FrameTime(k, fps)
             u == FrameTime(k + 1, fps)
         IN t \in Nat /\ u \in Nat /\ t <= u /\ u - t <= CeilDiv(1000, fps)
<1> DEFINE a == k * 1000
           t == a \div fps
           u == (a + 1000) \div fps
           c == (1000 + fps - 1) \div fps
<1>1. FrameTime(k, fps) = t /\ FrameTime(k + 1, fps) = u /\ CeilDiv(1000, fps) = c
  <2>1. (k + 1) * 1000 = a + 1000
    OBVIOUS
  <2>2. QED
    BY <2>1 DEF FrameTime, CeilDiv
<1>2. a \in Nat /\ a + 1000 \in Nat /\ 1000 + fps - 1 \in Nat
  OBVIOUS
<1> HIDE DEF a
<1>3. t \in Nat /\ fps * t <= a /\ a < fps * t + fps
  BY <1>2, QuotientBounds
<1>4. u \in Nat /\ fps * u <= a + 1000 /\ a + 1000 < fps * u + fps
  BY <1>2, QuotientBounds
<1>5. c \in Nat /\ 1000 + fps - 1 < fps * c + fps
  BY <1>2, QuotientBounds
<1> HIDE DEF t, u, c
<1>6. fps * u < fps * (t + 1 + c)
  <2>1. fps * (t + 1 + c) = fps * t + fps + fps * c
    BY <1>3, <1>5, SMT
  <2>2. fps * t \in Int /\ fps * c \in Int /\ fps * u \in Int
    BY <1>3, <1>4, <1>5, SMT
  <2>3. QED
    BY <1>2, <1>3, <1>4, <1>5, <2>1, <2>2
<1>7. fps * t < fps * (u + 1)
  <2>1. fps * (u + 1) = fps * u + fps
    BY <1>4, SMT
  <2>2. fps * t \in Int /\ fps * u \in Int
    BY <1>3, <1>4, SMT
  <2>3. QED
    BY <1>2, <1>3, <1>4, <2>1, <2>2
<1>8. u < t + 1 + c /\ t < u + 1
  BY <1>3, <1>4, <1>5, <1>6, <1>7, FactorLess
<1>9. QED
  BY <1>1, <1>3, <1>4, <1>5, <1>8

\* What is stored is what was heard, less than an interval of the notifier ago.
Steady(s, t, gap) ==
    /\ s.previous = s.heard /\ s.heard \in Nat /\ s.heard <= t
    /\ t - s.heard < HeartbeatNotifyIntervalMs
    /\ s.longest \in Nat /\ s.longest < HeartbeatNotifyIntervalMs + gap

LEMMA FirstFrame ==
  ASSUME NEW fps \in Nat \ {0}, NEW gap \in Nat
  PROVE  Steady(PassFrame(0, NeverHeard, fps), FrameTime(0, fps), gap)
<1>1. FrameTime(0, fps) = 0
  BY QuotientBounds, SMT DEF FrameTime
<1>2. QED
  BY <1>1 DEF Steady, PassFrame, NeverHeard, ShouldNotify, Reported, Unreported,
              HeartbeatNotifyIntervalMs

LEMMA NextFrame ==
  ASSUME NEW fps \in Nat \ {0}, NEW k \in Nat, NEW s,
         Steady(s, FrameTime(k, fps), CeilDiv(1000, fps))
  PROVE  Steady(PassFrame(k + 1, s, fps), FrameTime(k + 1, fps), CeilDiv(1000, fps))
<1> DEFINE t == FrameTime(k, fps)
           u == FrameTime(k + 1, fps)
           c == CeilDiv(1000, fps)
           f == PassFrame(k + 1, s, fps)
<1>1. t \in Nat /\ u \in Nat /\ t <= u /\ u - t <= c
  BY FrameApart
<1>2. c \in Nat
  BY QuotientBounds DEF CeilDiv
<1>3. /\ f.previous = Reported(s.previous, u)
      /\ f.heard = IF ShouldNotify(s.previous, u) THEN u ELSE s.heard
      /\ f.longest = IF u - s.heard > s.longest THEN u - s.heard ELSE s.longest
  BY DEF PassFrame
<1> HIDE DEF t, u, c, f
<1>4. Steady(s, t, c)
  BY DEF t, c
<1>5. Steady(f, u, c)
  BY <1>1, <1>2, <1>3, <1>4
     DEF Steady, ShouldNotify, Reported, Unreported, HeartbeatNotifyIntervalMs
<1>6. QED
  BY <1>5 DEF f, u, c

LEMMA SilenceBound ==
  ASSUME NEW fps \in Nat \ {0}, NEW n \in Nat
  PROVE  /\ LongestSilence(n, fps) \in Nat
         /\ LongestSilence(n, fps) < HeartbeatNotifyIntervalMs + CeilDiv(1000, fps)
<1> DEFINE c == CeilDiv(1000, fps)
<1>1. PICK g : Follows(g, n, fps) /\ LongestSilence(n, fps) = g[n].longest
  BY SilenceIsThatOfFrames
<1>2. c \in Nat
  BY QuotientBounds DEF CeilDiv
<1> DEFINE T == {k \in 0..n : ~Steady(g[k], FrameTime(k, fps), c)}
<1>3. T = {}
  <2> SUFFICES ASSUME T # {} PROVE FALSE
    OBVIOUS
  <2>1. PICK m \in T : \A k \in T : m <= k
    <3>1. T \subseteq Nat
      OBVIOUS
    <3> HIDE DEF T
    <3>2. QED
      BY <3>1, LeastNatural
  <2>2. m \in 0..n /\ g[m] = PassFrame(m, IF m = 0 THEN NeverHeard ELSE g[m - 1], fps)
    <3>1. m \in 0..n
      BY <2>1
    <3> HIDE DEF T
    <3>2. g = [k \in 0..n |-> PassFrame(k, IF k = 0 THEN NeverHeard ELSE g[k - 1], fps)]
      BY <1>1, Zenon DEF Follows
    <3>3. QED
      BY <3>1, <3>2, Zenon
  <2>3. CASE m = 0
    BY <1>2, <2>1, <2>2, <2>3, FirstFrame
  <2>4. CASE m # 0
    <3>1. m - 1 \in 0..n /\ m - 1 \in Nat /\ m - 1 + 1 = m /\ m - 1 \notin T
      BY <2>1, <2>2, <2>4
    <3>2. Steady(g[m - 1], FrameTime(m - 1, fps), c)
      BY <3>1
    <3>3. g[m] = PassFrame(m, g[m - 1], fps)
      BY <2>2, <2>4
    <3>4. Steady(PassFrame(m - 1 + 1, g[m - 1], fps), FrameTime(m - 1 + 1, fps), c)
      BY <3>1, <3>2, NextFrame
    <3>5. QED
      BY <2>1, <3>1, <3>3, <3>4
  <2>5. QED
    BY <2>3, <2>4
<1>4. Steady(g[n], FrameTime(n, fps), c)
  BY <1>3
<1>5. QED
  BY <1>1, <1>4 DEF Steady

\* For every accepted configuration: who hears only the notifications of a steady
\* stream never waits for media_timeout, if that leaves room for an interval of
\* the notifier beside that of the frames (lib.rs:19-47, config.rs:673-683).
\* SilenceBound says so for any length of the stream.
THEOREM HeartbeatsHeard == Spec => []HeartbeatsOutpaceWatchdog
<1>1. ChoiceInv => HeartbeatsOutpaceWatchdog
  <2> DEFINE fps == config.fps
             interval == CeilDiv(1000, fps)
             n == 1 + (4 * HeartbeatNotifyIntervalMs) \div interval
  <2> SUFFICES ASSUME ChoiceInv, Built,
                      config.media_timeout_ms >= HeartbeatNotifyIntervalMs + interval
               PROVE  LongestSilence(n, fps) < config.media_timeout_ms
    BY DEF HeartbeatsOutpaceWatchdog
  <2>1. CommonValid(config) /\ Typed(config)
    BY DEF ChoiceInv, ConfigTyped, FromConfig, Valid, TxValid, RxValid, TxTyped, RxTyped
  <2>2. fps \in Nat \ {0} /\ config.media_timeout_ms \in Nat
    <3>1. config.fps \in 1..IntMax /\ IntMax \in Nat
      BY <2>1, ConfigAssumption DEF CommonValid, VideoDimensionsValid
    <3>2. config.media_timeout_ms \in Nat
      BY <2>1 DEF Typed
    <3>3. QED
      BY <3>1, <3>2
  <2> HIDE DEF fps
  <2>3. interval \in Nat \ {0}
    <3>1. 1000 + fps - 1 \in Nat
      BY <2>2
    <3>2. interval \in Nat /\ 1000 + fps - 1 < fps * interval + fps
      BY <2>2, <3>1, QuotientBounds DEF CeilDiv
    <3> HIDE DEF interval
    <3>3. interval # 0
      BY <2>2, <3>2, SMT
    <3>4. QED
      BY <3>2, <3>3
  <2> HIDE DEF interval
  <2>4. n \in Nat
    <3>1. 4 * HeartbeatNotifyIntervalMs \in Nat
      BY DEF HeartbeatNotifyIntervalMs
    <3>2. QED
      BY <2>3, <3>1, QuotientBounds
  <2> HIDE DEF n
  <2>5. LongestSilence(n, fps) < HeartbeatNotifyIntervalMs + interval
    BY <2>2, <2>4, SilenceBound DEF interval
  <2>6. LongestSilence(n, fps) \in Nat
    BY <2>2, <2>4, SilenceBound
  <2>7. QED
    BY <2>2, <2>3, <2>5, <2>6 DEF HeartbeatNotifyIntervalMs
<1>2. QED
  BY <1>1, Choice, PTL
=============================================================================
