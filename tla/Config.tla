-------------------------------- MODULE Config --------------------------------
(***************************************************************************)
(* The configuration of the two services and its validation                *)
(* (common/src/config.rs).  The tables of a TOML file are one flat record: *)
(* a text is blank (""), or one of the few values the program tells apart; *)
(* numbers keep their unit.                                                *)
(***************************************************************************)
EXTENDS NetInterfaces, Sequences, TLC

CONSTANTS
    IntMax,             \* i32::MAX
    LatenessMax         \* i64::MAX / 1000000: its nanoseconds fit in an i64

Default == [
    node_name |-> "node", profile |-> "auto",
    multicast_group |-> "multicast", video_port |-> 5004, audio_port |-> 5006,
    interface |-> "auto", ttl |-> 1, video_payload_type |-> 96, audio_payload_type |-> 97,
    rtp_mtu |-> 1200, receive_buffer_size |-> 0, bind_addr |-> "ip",
    restart_backoff_ms |-> 1000, monitor_interval_ms |-> 250, media_timeout_ms |-> 5000,
    width |-> 1920, height |-> 1080, fps |-> 30,
    audio_enabled |-> FALSE, audio_element |-> "", audio_device |-> "default",
    sample_rate |-> 48000, channels |-> 2, buffer_time_us |-> 20000, latency_time_us |-> 5000]

TxDefault == Default @@ [
    port |-> 8081, source_element |-> "", source_caps |-> "", source_decoder_element |-> "",
    device |-> <<"/dev/video0">>, capture_io_mode |-> "auto",
    bitrate_kbps |-> 8000, gop |-> 30, encoder_element |-> "auto"]

RxDefault == Default @@ [
    port |-> 8082, jitter_latency_ms |-> 10, decoder_element |-> "auto", sink_element |-> "",
    renderer |-> "auto", fullscreen |-> TRUE, max_lateness_ms |-> -1,
    audio_jitter_latency_ms |-> 30, late_threshold_ms |-> 60, sync_tolerance_ms |-> 40]

ASSUME ConfigAssumption == IntMax \in Nat /\ LatenessMax \in Nat

\* serde gives every field a value of its type; of those the ones that matter
\* to the rest.
Typed(c) ==
    /\ c = [f \in DOMAIN c |-> c[f]]
    /\ {"profile", "width", "height", "fps", "media_timeout_ms", "interface", "rtp_mtu",
         "audio_enabled", "audio_element", "audio_device", "sample_rate", "channels"}
         \subseteq DOMAIN c
    /\ c.profile \in {"auto", "linux_pc", "raspberry_pi"}
    /\ {c.width, c.height, c.fps, c.media_timeout_ms} \subseteq Nat
    /\ c.audio_enabled \in BOOLEAN

TxTyped(c) ==
    /\ Typed(c)
    /\ {"encoder_element", "capture_io_mode", "gop", "bitrate_kbps", "source_element",
         "source_caps", "source_decoder_element", "device"} \subseteq DOMAIN c
    /\ {c.gop, c.bitrate_kbps} \subseteq Nat
    /\ c.device \in Seq(STRING)

RxTyped(c) ==
    /\ Typed(c)
    /\ {"decoder_element", "renderer", "sink_element", "fullscreen"} \subseteq DOMAIN c
    /\ c.renderer \in {"auto", "sdl", "kms_drm"}
    /\ c.fullscreen \in BOOLEAN

-----------------------------------------------------------------------------
\* What auto stands for on a host

ResolvedProfile(c, host) ==
    IF c.profile # "auto" THEN c.profile
    ELSE IF host.model = "pc" THEN "linux_pc" ELSE "raspberry_pi"

ResolvedRenderer(c, host) ==
    IF c.renderer # "auto" THEN c.renderer
    ELSE IF ResolvedProfile(c, host) = "raspberry_pi" THEN "kms_drm" ELSE "sdl"

\* None is "auto".
InterfaceOverride(c) == IF c.interface = "" THEN "auto" ELSE c.interface

-----------------------------------------------------------------------------
\* Validation

CeilDiv(a, b) == (a + b - 1) \div b

NetworkValid(c) ==
    /\ c.multicast_group = "multicast"
    /\ InterfaceOverride(c) \in LegalName \union {"auto"}
    /\ c.video_port > 0
    /\ c.audio_enabled =>
         /\ c.audio_port > 0 /\ c.audio_port # c.video_port
         /\ c.audio_payload_type \in 96..127
    /\ c.video_payload_type \in 96..127
    /\ c.ttl \in 1..255
    /\ c.rtp_mtu \in 28..65507
    /\ c.receive_buffer_size = 0 \/ c.receive_buffer_size \in c.rtp_mtu..IntMax

HttpValid(c) == c.port > 0 /\ c.bind_addr = "ip"

RecoveryValid(c) ==
    /\ c.restart_backoff_ms >= 250
    /\ c.monitor_interval_ms > 0
    /\ c.media_timeout_ms > c.monitor_interval_ms

VideoDimensionsValid(c) == {c.width, c.height, c.fps} \subseteq 1..IntMax

MediaTimeoutValid(c) == c.media_timeout_ms > CeilDiv(1000, c.fps)

CommonValid(c) ==
    /\ c.node_name # ""
    /\ NetworkValid(c) /\ HttpValid(c) /\ RecoveryValid(c)
    /\ VideoDimensionsValid(c) /\ MediaTimeoutValid(c)

AudioValid(c) ==
    /\ c.sample_rate \in 1..IntMax /\ c.channels \in 1..IntMax
    /\ c.latency_time_us > 0 /\ c.buffer_time_us >= c.latency_time_us
    /\ c.audio_element # "" \/ c.audio_device # ""

\* x264enc with properties and nothing after it.
PlainX264(element) ==
    element \in {"x264enc", "x264enc tune=zerolatency speed-preset=ultrafast"}

\* Mutant: only the automatic choice is looked at.
MutantManagedEncoder(c) == c.encoder_element \in {"", "auto"}

ManagedEncoder(c) == c.encoder_element \in {"", "auto"} \/ PlainX264(c.encoder_element)

KeyframeInterval(c) == CeilDiv(c.gop * 1000, c.fps)

EncoderValid(c) ==
    /\ c.width % 2 = 0 /\ c.height % 2 = 0
    /\ c.bitrate_kbps \in 1..(IntMax \div 1000)
    /\ c.gop \in 1..IntMax
    /\ KeyframeInterval(c) < c.media_timeout_ms

TxValid(c) ==
    /\ CommonValid(c)
    /\ ManagedEncoder(c) => EncoderValid(c)
    /\ c.source_element # "" \/ \E i \in DOMAIN c.device : c.device[i] # " "
    /\ c.audio_enabled => AudioValid(c)

\* Mutant: the renderer is compared before auto is resolved.
MutantWindowValid(c, host) == c.sink_element # "" \/ c.renderer # "kms_drm" \/ c.fullscreen

WindowValid(c, host) ==
    c.sink_element # "" \/ ResolvedRenderer(c, host) # "kms_drm" \/ c.fullscreen

\* The last check, on the difference of the two latencies, follows from those on
\* each of them.
RxValid(c, host) ==
    /\ CommonValid(c)
    /\ c.jitter_latency_ms < c.media_timeout_ms
    /\ WindowValid(c, host)
    /\ c.max_lateness_ms \in -1..LatenessMax
    /\ c.audio_enabled =>
         /\ AudioValid(c)
         /\ c.audio_jitter_latency_ms < c.media_timeout_ms
         /\ c.late_threshold_ms > 0 /\ c.sync_tolerance_ms > 0
=============================================================================
