---------------------------- MODULE MCTxSupervisor ----------------------------
(***************************************************************************)
(* TxSupervisor as TLC checks it.  The properties are the supervisor's own *)
(* (TxSupervisor); here are the ones the documentation claims and the code *)
(* does not keep.                                                          *)
(***************************************************************************)
EXTENDS TxSupervisor

\* "Some V4L2 capture devices do not implement streaming mmap.  In that case
\* retry via GStreamer's driver-specific I/O auto-selection"
\* (tx/src/main.rs:123): a card that does implement it keeps mmap capture
\* when the watchdog ends a cycle in which its frames are flowing.
WorkingMmapIsKept ==
    [][ Restart /\ SupportsMmap /\ reason \in {<<"processing_silent", "video">>,
                                               <<"processing_stalled", "video">>}
          => forceCaptureAuto' = forceCaptureAuto ]_vars

\* "If the V4L2 hardware codec cannot start, or cannot produce the first
\* video, fall back to the software codec" (README.md:125): a cycle in which
\* the hardware encoder was given frames and produced nothing, while nothing
\* else failed, is the last one with that encoder.
SilentHardwareIsGivenUp ==
    [][ Restart /\ calm /\ AutoEncoder /\ usesV4l2Encoder
        /\ "video" \notin ready /\ first["video_ingress"] # Never
          => forceSoftwareEncoder' ]_vars
=============================================================================
