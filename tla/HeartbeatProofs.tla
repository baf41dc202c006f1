---------------------------- MODULE HeartbeatProofs ----------------------------
(***************************************************************************)
(* For every stream, steady or not: how long one who hears only the        *)
(* notifications of a probe may have to wait.  The probe is given buffers  *)
(* at most Gap milliseconds apart.                                         *)
(***************************************************************************)
EXTENDS HeartbeatNotifier, TLAPS

CONSTANT Gap

VARIABLES
    elapsed,            \* since the probe was registered
    buffered,           \* the last buffer
    previous,           \* last_reported_ms
    heard               \* the last notification

vars == <<elapsed, buffered, previous, heard>>

\* The first buffer is always reported.
Init ==
    /\ elapsed \in Nat
    /\ buffered = elapsed
    /\ ShouldNotify(Unreported, elapsed)
    /\ previous = Reported(Unreported, elapsed)
    /\ heard = elapsed

Buffer ==
    /\ buffered' = elapsed
    /\ previous' = Reported(previous, elapsed)
    /\ heard' = IF ShouldNotify(previous, elapsed) THEN elapsed ELSE heard
    /\ UNCHANGED elapsed

Pass ==
    /\ elapsed - buffered < Gap
    /\ elapsed' = elapsed + 1
    /\ UNCHANGED <<buffered, previous, heard>>

Next == Buffer \/ Pass

Spec == Init /\ [][Next]_vars

-----------------------------------------------------------------------------
Coalesced == elapsed - heard < HeartbeatNotifyIntervalMs + Gap

\* What is stored is what was sent, and no buffer is left unreported for an
\* interval.
CoalescedInv ==
    /\ elapsed \in Nat /\ buffered \in Nat /\ heard \in Nat
    /\ previous = heard
    /\ buffered - heard < HeartbeatNotifyIntervalMs
    /\ elapsed - buffered <= Gap

\* A supervisor never waits for the notification of a stream longer than one
\* interval of the notifier beside the longest gap of the stream itself
\* (lib.rs:19-47): a media_timeout of at least that never mistakes it for a
\* stall.
THEOREM NotificationsKeepUp ==
  ASSUME Gap \in Nat
  PROVE  Spec => []Coalesced
<1>1. Init => CoalescedInv
  BY DEF Init, CoalescedInv, ShouldNotify, Reported, Unreported, HeartbeatNotifyIntervalMs
<1>2. CoalescedInv /\ [Next]_vars => CoalescedInv'
  <2> SUFFICES ASSUME CoalescedInv, [Next]_vars
               PROVE  CoalescedInv'
    OBVIOUS
  <2>1. CASE Buffer
    BY <2>1 DEF Buffer, CoalescedInv, ShouldNotify, Reported, Unreported,
                HeartbeatNotifyIntervalMs
  <2>2. CASE Pass
    BY <2>2 DEF Pass, CoalescedInv
  <2>3. CASE UNCHANGED vars
    BY <2>3 DEF vars, CoalescedInv
  <2>4. QED
    BY <2>1, <2>2, <2>3 DEF Next
<1>3. CoalescedInv => Coalesced
  BY DEF CoalescedInv, Coalesced, HeartbeatNotifyIntervalMs
<1>4. QED
  BY <1>1, <1>2, <1>3, PTL DEF Spec
=============================================================================
