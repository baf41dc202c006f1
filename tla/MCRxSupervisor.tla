--------------------------- MODULE MCRxSupervisor ---------------------------
(***************************************************************************)
(* RxSupervisor as TLC checks it.  The properties are the supervisor's own *)
(* (RxSupervisor); here are the ones about what may not follow from the    *)
(* documentation.                                                          *)
(***************************************************************************)
EXTENDS RxSupervisor

\* "A short RTP burst followed by an offline transmitter is not a decoder
\* stall" (rx/src/main.rs:582): a cycle is not ended as "decoder produced no
\* frames" when the transmitter is offline and all it had sent lasted less
\* than media_timeout.
ShortBurstIsNoDecoderStall ==
    [][ (pc = "running" /\ pc' = "ending" /\ reason' = "decoder_silent" /\ ~online)
          => first["video_ingress"] >= last["video_ingress"] + MediaTimeout ]_vars
=============================================================================
