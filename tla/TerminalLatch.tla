---------------------------- MODULE TerminalLatch ----------------------------
(***************************************************************************)
(* What a pipeline promises its supervisor about failure: in each cycle at *)
(* most one terminal event, the first, appears in a channel that nothing   *)
(* overwrites, and it ends the cycle.  SupervisorLoop's PostEvent, and the *)
(* supervisors' HearTerminal, are Post and See of this specification.      *)
(***************************************************************************)
CONSTANTS
    Event,  \* terminal events
    None    \* the channel's initial value

VARIABLES
    phase,   \* "down", "running", or "ending": left but not yet torn down
    latched  \* what the terminal channel holds

latchVars == <<phase, latched>>

Init == phase = "down" /\ latched = None

Begin == phase = "down" /\ phase' = "running" /\ latched' = None

Post(e) ==
    /\ phase \in {"running", "ending"}
    /\ latched = None
    /\ latched' = e
    /\ UNCHANGED phase

See == phase = "running" /\ latched # None /\ phase' = "ending" /\ UNCHANGED latched

\* The watchdog, a changed interface or a signal.
Leave == phase = "running" /\ phase' = "ending" /\ UNCHANGED latched

TearDown == phase = "ending" /\ phase' = "down" /\ latched' = None

Next == Begin \/ (\E e \in Event : Post(e)) \/ See \/ Leave \/ TearDown

Spec == Init /\ [][Next]_latchVars
=============================================================================
