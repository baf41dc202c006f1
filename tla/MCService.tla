------------------------------- MODULE MCService -------------------------------
(***************************************************************************)
(* Service as TLC checks it: which files, command lines, hosts and network *)
(* interfaces there are.                                                   *)
(***************************************************************************)
EXTENDS Service

NoOptions == [option \in {} |-> option]

\* The values a field may be given beside its default: the boundaries of its
\* check, and those that select something else.
CommonAlternatives == [
    node_name |-> {""}, profile |-> {"linux_pc", "raspberry_pi"},
    multicast_group |-> {"unicast", "no address"}, video_port |-> {0, 5006},
    audio_port |-> {0}, interface |-> {"", "eth0", "lo", "eth0/1"}, ttl |-> {0, 255, 256},
    video_payload_type |-> {95, 127, 128}, audio_payload_type |-> {95},
    rtp_mtu |-> {27, 65507, 65508}, receive_buffer_size |-> {1199, IntMax, IntMax + 1},
    bind_addr |-> {"no address"}, port |-> {0}, restart_backoff_ms |-> {249, 250},
    monitor_interval_ms |-> {0, 5000}, media_timeout_ms |-> {0, 34, 1000},
    width |-> {0, 1279, 1280, 3840, IntMax + 1}, height |-> {0, 719}, fps |-> {0, 1, 60, IntMax + 1},
    audio_enabled |-> {TRUE}, audio_device |-> {""}, audio_element |-> {"custom"},
    sample_rate |-> {0}, channels |-> {IntMax + 1}, latency_time_us |-> {0, 20001}]

TxAlternatives == CommonAlternatives @@ [
    source_element |-> {"custom", "custom ! jpegdec"}, source_caps |-> {"image/jpeg"},
    source_decoder_element |-> {"jpegdec"}, device |-> {<<" ">>}, capture_io_mode |-> {"mmap"},
    bitrate_kbps |-> {0, 24, 10025, 20025, 8001, IntMax \div 1000 + 1},
    gop |-> {0, 1, 149, 150},
    encoder_element |-> {"", "x264enc", "x264enc ! custom", "v4l2h264enc", "custom"}]

RxAlternatives == CommonAlternatives @@ [
    jitter_latency_ms |-> {4999, 5000}, decoder_element |-> {"", "v4l2h264dec", "custom"},
    sink_element |-> {"custom"}, renderer |-> {"sdl", "kms_drm"}, fullscreen |-> {FALSE},
    max_lateness_ms |-> {-2, LatenessMax + 1}, audio_jitter_latency_ms |-> {5000},
    late_threshold_ms |-> {0}, sync_tolerance_ms |-> {0}]

Changes(alternatives) ==
    UNION {{field} \X alternatives[field] : field \in DOMAIN alternatives}

\* Files that change at most two fields of the default.
Files(default, alternatives) ==
    {[default EXCEPT ![a[1]] = a[2], ![b[1]] = b[2]] :
        <<a, b>> \in Changes(alternatives) \X Changes(alternatives)}

\* The options of the command lines, one at a time; the files of these are the
\* default and those that change one field.
Options == {
    NoOptions, [interface |-> "eth0/1"], [interface |-> "lo"], [audio_device |-> "hw:1"],
    [audio_device |-> ""], [audio_enabled |-> TRUE], [bind_addr |-> "no address"], [port |-> 0]}
TxOptions == Options \union {[device |-> <<" ">>]}
RxOptions == Options \union {[fullscreen |-> FALSE]}

\* Watchdogs with little more than the interval of a frame.
Impatient(default) ==
    {[default EXCEPT !.monitor_interval_ms = 10, !.media_timeout_ms = t, !.fps = f] :
        t \in {17, 18, 34, 35, 42, 58, 59}, f \in {30, 60, 100}}

\* Names of devices, of up to three of the characters that matter.
Names == UNION {[1..n -> {"a", " ", "!", "\"", "'", "\\"}] : n \in 0..3}

Codecs == {"v4l2h264enc", "v4l2h264dec", "avdec_h264", "openh264dec", "vah264dec", "vaapih264dec"}
Sinks == {"waylandsink", "sdlvideosink", "ximagesink"}
Always == {"x264enc", "x264enc ! custom", "custom", "decodebin", "kmssink"}

Host(model, displays, missing) ==
    [model |-> model, displays |-> displays, installed |-> (Codecs \union Sinks \union Always) \ missing]

Hosts ==
    {Host(m, d, x) : m \in {"pc", "pi", "pi5"}, d \in {{}, {"x11"}, {"wayland"}},
                     x \in {{}, {"waylandsink"}, {"waylandsink", "sdlvideosink"}}}
    \union {Host(m, {"x11"}, x) : m \in {"pc", "pi", "pi5"},
                     x \in {{"avdec_h264"}, {"v4l2h264enc", "v4l2h264dec"}, {"avdec_h264", "openh264dec"}, Codecs, Sinks}}
TxHosts == {Host(m, {}, x) : m \in {"pc", "pi", "pi5"}, x \in {{}, {"v4l2h264enc"}}}

Process(r, f, o, hs) == [role |-> r, file |-> f, cli |-> o, hosts |-> hs]

Singles(default, alternatives) ==
    {[default EXCEPT ![a[1]] = a[2]] : a \in Changes(alternatives)}

Pc == Host("pc", {"x11"}, {})
Pi == Host("pi", {}, {})

MCRehearsal ==
    {Process("tx", f, NoOptions, TxHosts) : f \in Files(TxDefault, TxAlternatives)}
    \union {Process("rx", f, NoOptions, Hosts) : f \in Files(RxDefault, RxAlternatives)}
    \union {Process("tx", f, o, {Pc}) : f \in Singles(TxDefault, TxAlternatives), o \in TxOptions}
    \union {Process("rx", f, o, {Pc, Pi}) : f \in Singles(RxDefault, RxAlternatives), o \in RxOptions}
    \union {Process("tx", f, NoOptions, {Pc}) : f \in Impatient([TxDefault EXCEPT !.gop = 1])}
    \union {Process("rx", f, NoOptions, {Pc}) : f \in Impatient(RxDefault)}
    \union {Process("tx", [TxDefault EXCEPT !.device = n], NoOptions, {Pc}) : n \in Names}

\* The services that are followed.
MCStart == {
    Process("tx", [TxDefault EXCEPT !.capture_io_mode = "mmap", !.interface = "eth0"],
            NoOptions, {Pi}),
    Process("tx", [TxDefault EXCEPT !.source_caps = "image/jpeg", !.source_decoder_element = "jpegdec"],
            [audio_enabled |-> TRUE], {Pc}),
    Process("rx", RxDefault, NoOptions, {Pi}),
    Process("rx", [RxDefault EXCEPT !.decoder_element = "v4l2h264dec", !.sync_tolerance_ms = 10],
            [audio_device |-> "hw:1"], {Pi})}

Up == [operational |-> TRUE, multicast |-> TRUE, mtu |-> 1228]
Absent == [operational |-> FALSE, multicast |-> FALSE, mtu |-> 0]
LinkStates == {Absent, Up, [Up EXCEPT !.operational = FALSE], [Up EXCEPT !.multicast = FALSE],
               [Up EXCEPT !.mtu = 1227]}

\* Two cards and a bridge.
MCSituation ==
    {LET all == [eth0 |-> a, eth1 |-> b, br0 |-> c, lo |-> [Up EXCEPT !.multicast = FALSE]]
     IN [name \in {n \in DOMAIN all : all[n] # Absent} |-> all[name]] :
        a \in LinkStates, b \in LinkStates, c \in {Absent, Up}}
=============================================================================
