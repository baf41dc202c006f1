----------------------------- MODULE MediaProbes -----------------------------
(***************************************************************************)
(* The buffer probes of a running GStreamer pipeline, the watch channels   *)
(* they feed, and what a supervisor remembers of each probe: shared by the *)
(* receiver's and the transmitter's supervisors.                           *)
(*                                                                         *)
(* Time passes in ticks.  A tick is at least HEARTBEAT_NOTIFY_INTERVAL_MS, *)
(* so a probe notifies at most once per tick.  An Instant of the code is   *)
(* kept as its age, Instant::elapsed() in ticks, which stops growing at    *)
(* Horizon: the code only compares ages with media_timeout.                *)
(***************************************************************************)
EXTENDS Naturals

CONSTANTS
    MediaTimeout,     \* recovery.media_timeout_ms, in ticks
    MonitorInterval,  \* recovery.monitor_interval_ms, in ticks
    RestartBackoff,   \* recovery.restart_backoff_ms, in ticks
    Lag,              \* ticks the executor may leave a notification unread
    Horizon,          \* the age at which an Instant stops ageing
    Never             \* Option::None for an Instant or a message

\* RecoveryConfig::validate: a timeout is longer than the watchdog's period.
ASSUME RecoveryAssumption ==
    /\ MonitorInterval \in Nat \ {0}
    /\ RestartBackoff \in Nat \ {0}
    /\ MediaTimeout \in Nat
    /\ MediaTimeout > MonitorInterval

\* Ages stay exact as far as any comparison with MediaTimeout looks.
ASSUME HorizonAssumption ==
    /\ Lag \in Nat
    /\ Horizon \in Nat
    /\ Horizon > MediaTimeout + MonitorInterval + Lag
    /\ Horizon >= RestartBackoff

\* The executor is prompt enough for the timeout it was configured with.
ASSUME LagAssumption == Lag < MediaTimeout

ASSUME NeverAssumption == Never \notin Nat /\ Never \notin [observed : Nat, since : Nat]

VARIABLES
    pending,  \* per stage: the watch channel's unread MediaHeartbeat, or Never
    first,    \* per input stage: age of first_<stage>, or Never
    last,     \* per stage: age of last_<stage>
    timer     \* age of the timer being awaited: watchdog tick or backoff sleep

probeVars == <<pending, first, last, timer>>

Age == 0..Horizon

\* An unread heartbeat: age of observed_at, and for how long the channel has
\* held something the supervisor has not read.
Beat == {b \in [observed : 0..Lag, since : 0..Lag] : b.observed <= b.since}

-----------------------------------------------------------------------------
\* Ageing

Older(age) == IF age < Horizon THEN age + 1 ELSE Horizon

OlderBeat(b) == [observed |-> b.observed + 1, since |-> b.since + 1]

Aged(i) == IF i = Never THEN Never ELSE Older(i)

\* No notification has been unread for Lag ticks: time may go on.
ReadInTime == \A s \in DOMAIN pending : pending[s] # Never => pending[s].since < Lag

\* One tick while the select loop is waiting.
AgeAll ==
    /\ pending' = [s \in DOMAIN pending |->
                     IF pending[s] = Never THEN Never ELSE OlderBeat(pending[s])]
    /\ first' = [s \in DOMAIN first |-> Aged(first[s])]
    /\ last' = [s \in DOMAIN last |-> Older(last[s])]
    /\ timer' = Older(timer)

-----------------------------------------------------------------------------
\* Probes

\* The latest buffer of stage s was seen in the current tick.
DeliveredNow(s, heard) ==
    \/ pending[s] # Never /\ pending[s].observed = 0
    \/ heard /\ pending[s] = Never /\ last[s] = 0

\* watch::Sender::send_replace: a newer heartbeat overwrites an unread one.
Notify(s) ==
    pending' = [pending EXCEPT ![s] =
                  [observed |-> 0,
                   since    |-> IF pending[s] = Never THEN 0 ELSE pending[s].since]]

\* borrow_and_update: the heartbeat is read and last_<stage> becomes its
\* observed_at.
Read(s) ==
    /\ pending[s] # Never
    /\ pending' = [pending EXCEPT ![s] = Never]
    /\ last' = [last EXCEPT ![s] = pending[s].observed]
=============================================================================
