--------------------------- MODULE HeartbeatNotifier ---------------------------
(***************************************************************************)
(* The coalescing of buffer probes (backends/gst/src/lib.rs), in           *)
(* milliseconds since the probe was registered.  One streaming thread      *)
(* calls a probe, so its compare-and-swap always succeeds.                 *)
(***************************************************************************)
EXTENDS Integers

HeartbeatNotifyIntervalMs == 25

Unreported == -1        \* u64::MAX

ShouldNotify(previous, elapsed) ==
    previous = Unreported \/ elapsed - previous >= HeartbeatNotifyIntervalMs

\* Mutant: every call leaves its time.
MutantReported(previous, elapsed) == elapsed

\* last_reported_ms after a call.
Reported(previous, elapsed) == IF ShouldNotify(previous, elapsed) THEN elapsed ELSE previous

\* The buffers of a steady stream, and the longest that one who only hears the
\* notifications has had to wait when the next one of the first n came.
FrameTime(k, fps) == (k * 1000) \div fps

\* One frame: s is what has been reported, heard and waited before it.
PassFrame(k, s, fps) ==
    LET elapsed == FrameTime(k, fps)
        waited == elapsed - s.heard
    IN [previous |-> Reported(s.previous, elapsed),
        heard |-> IF ShouldNotify(s.previous, elapsed) THEN elapsed ELSE s.heard,
        longest |-> IF waited > s.longest THEN waited ELSE s.longest]

NeverHeard == [previous |-> Unreported, heard |-> 0, longest |-> 0]

LongestSilence(n, fps) ==
    LET after[k \in 0..n] ==
            PassFrame(k, IF k = 0 THEN NeverHeard ELSE after[k - 1], fps)
    IN after[n].longest
=============================================================================
