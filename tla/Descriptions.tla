----------------------------- MODULE Descriptions -----------------------------
(***************************************************************************)
(* What backends/gst/src/lib.rs builds from a configuration on a host: the *)
(* elements of the pipeline and those of their properties that depend on   *)
(* each other.  A host has a model (pc, pi, pi5), the GStreamer elements   *)
(* that are installed, and the displays of the session.                    *)
(***************************************************************************)
EXTENDS Config

LowLatencyAvdecH264 == "avdec_h264 thread-type=slice"
ZeroLatencyX264 == "x264enc tune=zerolatency speed-preset=ultrafast"

-----------------------------------------------------------------------------
\* The transmitter

\* 8192 macroblocks a frame, 245760 a second, 20 Mbit/s.
PiV4l2H264Fits(c) ==
    LET frame == CeilDiv(c.width, 16) * CeilDiv(c.height, 16)
    IN frame <= 8192 /\ frame * c.fps <= 245760 /\ c.bitrate_kbps <= 20000

UsesV4l2Encoder(c, host) ==
    /\ c.encoder_element \in {"", "auto"}
    /\ ResolvedProfile(c, host) = "raspberry_pi" /\ host.model # "pi5"
    /\ c.bitrate_kbps >= 25 /\ c.bitrate_kbps % 25 = 0
    /\ c.gop >= 2
    /\ "v4l2h264enc" \in host.installed
    /\ PiV4l2H264Fits(c)

\* The encoder, and the raw format its input is converted to.
SelectH264Encoder(c, host) ==
    IF UsesV4l2Encoder(c, host)
    THEN <<[element |-> "v4l2h264enc", level |-> IF c.bitrate_kbps > 10000 THEN "4.1" ELSE "4"],
           "NV12">>
    ELSE IF c.encoder_element \in {"", "auto"} \/ PlainX264(c.encoder_element)
    THEN <<[element |-> "x264enc", with |-> IF PlainX264(c.encoder_element)
                                            THEN c.encoder_element ELSE ZeroLatencyX264],
           "I420">>
    ELSE <<[element |-> c.encoder_element], "any">>

\* Bitrate and GOP are set here, not in a custom fragment.
Managed(encoder) == DOMAIN encoder # {"element"}

DirectX264Rtp(encoder) == encoder.element = "x264enc"

DirectMjpegI420(c, format, force_video_conversion) ==
    /\ ~force_video_conversion
    /\ c.source_decoder_element = "jpegdec"
    /\ c.source_caps = "image/jpeg"
    /\ format = "I420"

\* SPS and PPS at each IDR, where h264parse is left out.
PayConfigInterval(encoder) == IF DirectX264Rtp(encoder) THEN -1 ELSE 1

\* The audio branches: a custom element or the ALSA device, and the caps.
AudioBranch(c) ==
    IF c.audio_enabled
    THEN <<c.audio_element, c.audio_device, c.sample_rate, c.channels>> ELSE <<>>

BuildTxDescriptions(c, interface, force_video_conversion, host) ==
    LET choice == SelectH264Encoder(c, host)
        encoder == choice[1]
    IN [source |-> IF c.source_element # "" THEN <<c.source_element>>
                   ELSE <<"v4l2src", c.device, c.capture_io_mode>>,
        decoder |-> c.source_decoder_element,
        convert |-> ~DirectMjpegI420(c, choice[2], force_video_conversion),
        format |-> choice[2],
        encoder |-> encoder,
        parser |-> ~DirectX264Rtp(encoder),     \* with config-interval=-1
        pay_config_interval |-> PayConfigInterval(encoder),
        interface |-> interface,
        audio |-> AudioBranch(c)]

-----------------------------------------------------------------------------
\* The receiver

\* The first of the candidates that is installed; decodebin takes anything.
PreferredH264Decoder(c, host) ==
    LET has(element) == element \in host.installed
        pi == ResolvedProfile(c, host) = "raspberry_pi"
    IN IF pi /\ host.model # "pi5" /\ has("v4l2h264dec") THEN "v4l2h264dec"
       ELSE IF has("avdec_h264") THEN LowLatencyAvdecH264
       ELSE IF has("openh264dec") THEN "openh264dec"
       ELSE IF ~pi /\ has("vah264dec") THEN "vah264dec"
       ELSE IF ~pi /\ has("vaapih264dec") THEN "vaapih264dec"
       ELSE "decodebin"

SelectH264Decoder(c, host) ==
    IF c.decoder_element \in {"", "auto"} THEN PreferredH264Decoder(c, host)
    ELSE c.decoder_element

PreferredLinuxSink(fullscreen, host) ==
    LET has(element) == element \in host.installed
        wayland == "wayland" \in host.displays
        x11 == "x11" \in host.displays
    IN IF wayland /\ has("waylandsink") THEN "waylandsink"
       ELSE IF (wayland \/ x11) /\ has("sdlvideosink") THEN "sdlvideosink"
       ELSE IF ~fullscreen /\ x11 /\ has("ximagesink") THEN "ximagesink"
       ELSE IF has("sdlvideosink") THEN "sdlvideosink"
       ELSE IF has("waylandsink") THEN "waylandsink"
       ELSE IF ~fullscreen /\ has("ximagesink") THEN "ximagesink"
       ELSE "sdlvideosink"

\* The sink, and whether it is told to fill the screen (ximagesink cannot be,
\* kmssink always does).
RenderSink(c, host) ==
    LET linux(sink) == [element |-> sink, fullscreen |-> sink # "ximagesink" /\ c.fullscreen]
        kms == [element |-> "kmssink", fullscreen |-> TRUE]
    IN IF c.renderer = "kms_drm" THEN kms
       ELSE IF c.renderer = "sdl" THEN linux("sdlvideosink")
       ELSE IF ResolvedProfile(c, host) = "raspberry_pi" THEN kms
       ELSE linux(PreferredLinuxSink(c.fullscreen, host))

BuildRxDescriptions(c, interface, host) ==
    LET decoder == SelectH264Decoder(c, host)
        sink == IF c.sink_element # "" THEN [element |-> c.sink_element]
                ELSE RenderSink(c, host)
        direct_kms == decoder = "v4l2h264dec" /\ sink.element = "kmssink" /\ c.sink_element = ""
    IN [decoder |-> decoder,
        convert |-> ~direct_kms,                \* after the decoder, else caps before it
        sink |-> sink,
        interface |-> interface,
        audio |-> AudioBranch(c),
        renderer |-> sink.element]

-----------------------------------------------------------------------------
\* gst::parse: every element it is asked for has to be installed.

ElementOf(decoder) == IF decoder = LowLatencyAvdecH264 THEN "avdec_h264" ELSE decoder

Elements(role, d) ==
    IF role = "tx" THEN {d.encoder.element} ELSE {ElementOf(d.decoder), d.sink.element}

Parses(role, d, host) == Elements(role, d) \subseteq host.installed
=============================================================================
