------------------------------ MODULE LoopProofs ------------------------------
(***************************************************************************)
(* What every step of SupervisorLoop keeps, whatever the service: lemmas   *)
(* the proofs about the receiver's and the transmitter's supervisors rest  *)
(* on.  S are the stages of a service, I its input stages, O its output    *)
(* stages, R its reasons to end a cycle and T its terminal events.         *)
(***************************************************************************)
EXTENDS SupervisorLoop, TLAPS

Constants == RecoveryAssumption /\ HorizonAssumption /\ LagAssumption /\ NeverAssumption
             /\ LoopAssumption

\* The assumptions of the two modules, as one fact.
LEMMA ConstantsOK == Constants
  BY RecoveryAssumption, HorizonAssumption, LagAssumption, NeverAssumption, LoopAssumption
     DEF Constants

-----------------------------------------------------------------------------
\* Ageing and heartbeats keep their types

\* A tick keeps an age an age, lets it grow by at most one, and by exactly one
\* below the horizon.
LEMMA OlderType ==
  ASSUME NEW a \in Age
  PROVE  Older(a) \in Age /\ Older(a) <= a + 1 /\ (a < Horizon => Older(a) = a + 1)
  BY ConstantsOK DEF Constants, HorizonAssumption, Older, Age

\* A heartbeat that may still stay unread stays a heartbeat when it ages.
LEMMA OlderBeatType ==
  ASSUME NEW b \in Beat, b.since < Lag
  PROVE  OlderBeat(b) \in Beat
  BY ConstantsOK DEF Constants, HorizonAssumption, OlderBeat, Beat

\* No heartbeat is the absent heartbeat, and no age the absent Instant.
LEMMA NeverIsNothing == Never \notin Beat /\ Never \notin Age
  BY ConstantsOK DEF Constants, NeverAssumption, Beat, Age, HorizonAssumption

\* What an unread heartbeat reports is recent, and so an age.
LEMMA BeatObserved ==
  ASSUME NEW b \in Beat
  PROVE  b.observed \in Age /\ b.observed <= Lag /\ b.since \in Nat /\ b.since <= Lag
  BY ConstantsOK DEF Constants, HorizonAssumption, Beat, Age

\* A timer that has just been armed, or that is due at once, is an age.
LEMMA TimerValues == 0 \in Age /\ MonitorInterval \in Age
  BY ConstantsOK DEF Constants, HorizonAssumption, RecoveryAssumption, Age

ProbesType(S, I) ==
    /\ pending \in [S -> Beat \union {Never}]
    /\ first \in [I -> Age \union {Never}]
    /\ last \in [S -> Age]
    /\ timer \in Age

\* A tick keeps the types of the probes' variables.
LEMMA AgeAllType ==
  ASSUME NEW S, NEW I, ProbesType(S, I), ReadInTime, AgeAll
  PROVE  ProbesType(S, I)'
<1>1. pending' \in [S -> Beat \union {Never}]
  <2>1. ASSUME NEW s \in S
        PROVE  (IF pending[s] = Never THEN Never ELSE OlderBeat(pending[s]))
                  \in Beat \union {Never}
    <3>1. CASE pending[s] = Never
      BY <3>1
    <3>2. CASE pending[s] # Never
      <4>1. pending[s] \in Beat /\ pending[s].since < Lag
        BY <3>2 DEF ProbesType, ReadInTime
      <4> QED
        BY <3>2, <4>1, OlderBeatType
    <3> QED
      BY <3>1, <3>2
  <2> QED
    BY <2>1 DEF ProbesType, AgeAll
<1>2. first' \in [I -> Age \union {Never}]
  <2>1. ASSUME NEW s \in I
        PROVE  Aged(first[s]) \in Age \union {Never}
    BY OlderType DEF ProbesType, Aged
  <2> QED
    BY <2>1 DEF ProbesType, AgeAll
<1>3. last' \in [S -> Age]
  BY OlderType DEF ProbesType, AgeAll
<1>4. timer' \in Age
  BY OlderType DEF ProbesType, AgeAll
<1> QED
  BY <1>1, <1>2, <1>3, <1>4 DEF ProbesType

\* Reading a heartbeat keeps the types of pending and last, and leaves the
\* stage's last buffer no older than the lag.
LEMMA ReadType ==
  ASSUME NEW S, NEW I, ProbesType(S, I), NEW s \in S, Read(s)
  PROVE  /\ pending[s] \in Beat
         /\ pending' \in [S -> Beat \union {Never}]
         /\ last' \in [S -> Age]
         /\ last'[s] = pending[s].observed
         /\ last'[s] <= Lag
         /\ \A t \in S \ {s} : last'[t] = last[t] /\ pending'[t] = pending[t]
         /\ pending'[s] = Never
<1>1. pending[s] \in Beat
  BY DEF ProbesType, Read
<1>2. pending[s].observed \in Age /\ pending[s].observed <= Lag
  BY <1>1, BeatObserved
<1> QED
  BY <1>1, <1>2 DEF ProbesType, Read

\* A new cycle's locals and channels.
LEMMA FreshType ==
  ASSUME NEW S, NEW I, ProbesType(S, I), DropCycle, timer' \in Age
  PROVE  ProbesType(S, I)'
<1>1. 0 \in Age
  BY TimerValues
<1>2. DOMAIN pending = S /\ DOMAIN first = I /\ DOMAIN last = S
  BY DEF ProbesType
<1> QED
  BY <1>1, <1>2 DEF DropCycle, ProbesType

-----------------------------------------------------------------------------
\* The type of the loop's variables

LoopType(S, I, O, R, T) ==
    /\ pc \in Phase
    /\ interface \in Interface \union {Down}
    /\ ProbesType(S, I)
    /\ ready \subseteq O
    /\ serviceReady \in BOOLEAN
    /\ reason \in R \union {Never}
    /\ pc = "ending" => reason \in R
    /\ health \in HealthState
    /\ armed \in BOOLEAN
    /\ signalled \in BOOLEAN
    /\ terminal \in T \union {Never}
    /\ route \in Interface \union {Down}
    /\ settled \in BOOLEAN
    /\ calm \in BOOLEAN

LEMMA InitType ==
  ASSUME NEW S, NEW I, NEW O, NEW R, NEW T, LoopInit(S, I)
  PROVE  LoopType(S, I, O, R, T)
<1>1. ProbesType(S, I)
  BY TimerValues DEF LoopInit, ProbesType
<1> QED
  BY <1>1 DEF LoopInit, LoopType, Phase, HealthState

\* Steps outside the select loop.
Outside ==
    \/ Resolve \/ ResolveError \/ Construct \/ RetryAtOnce \/ RetryLater \/ Start \/ StartError
    \/ EndCycle \/ BackoffOver \/ Stop

LEMMA OutsideType ==
  ASSUME NEW S, NEW I, NEW O, NEW R, NEW T, LoopType(S, I, O, R, T), Outside
  PROVE  LoopType(S, I, O, R, T)'
<1> USE DEF LoopType, SameCycle, signalVars, envVars, FailAndBackOff, Phase, HealthState
<1>1. CASE Resolve
  BY <1>1 DEF Resolve, ProbesType
<1>2. CASE ResolveError
  BY <1>2, TimerValues DEF ResolveError, ProbesType
<1>3. CASE Construct
  BY <1>3 DEF Construct, ProbesType
<1>4. CASE RetryAtOnce
  BY <1>4 DEF RetryAtOnce, ConstructError, ProbesType
<1>5. CASE RetryLater
  BY <1>5, TimerValues DEF RetryLater, ConstructError, ProbesType
<1>6. CASE Start
  BY <1>6, TimerValues DEF Start, ProbesType
<1>7. CASE StartError
  BY <1>7, TimerValues DEF StartError, ProbesType
<1>8. CASE EndCycle
  <2>1. ProbesType(S, I)'
    BY <1>8, TimerValues, FreshType DEF EndCycle
  <2> QED
    BY <1>8, <2>1 DEF EndCycle, DropCycle
<1>9. CASE BackoffOver
  BY <1>9 DEF BackoffOver, ProbesType
<1>10. CASE Stop
  <2>1. ProbesType(S, I)'
    <3>1. timer' \in Age
      BY <1>10 DEF Stop, ProbesType
    <3> QED
      BY <1>10, <3>1, FreshType DEF Stop
  <2> QED
    BY <1>10, <2>1 DEF Stop, DropCycle
<1> QED
  BY <1>1, <1>2, <1>3, <1>4, <1>5, <1>6, <1>7, <1>8, <1>9, <1>10 DEF Outside

\* A handler that reads a heartbeat, remembers something of it, and perhaps
\* marks the service ready.
LEMMA HearType ==
  ASSUME NEW S, NEW I, NEW O, NEW R, NEW T, LoopType(S, I, O, R, T), NEW s \in S, Read(s),
         HearUnchanged,
         first' \in [I -> Age \union {Never}], ready' \subseteq O,
         serviceReady' \in BOOLEAN, health' \in HealthState
  PROVE  LoopType(S, I, O, R, T)'
<1>1. ProbesType(S, I)
  BY DEF LoopType
<1>2. pending' \in [S -> Beat \union {Never}] /\ last' \in [S -> Age]
  BY <1>1, ReadType
<1> QED
  BY <1>1, <1>2 DEF LoopType, ProbesType, HearUnchanged, signalVars, envVars

LEMMA ReadyType ==
  ASSUME NEW b, MarkReadyOnce(b), serviceReady \in BOOLEAN, health \in HealthState
  PROVE  serviceReady' \in BOOLEAN /\ health' \in HealthState
BY DEF MarkReadyOnce, HealthState

LEMMA BreakType ==
  ASSUME NEW S, NEW I, NEW O, NEW R, NEW T, LoopType(S, I, O, R, T), NEW why \in R, BreakLoop(why)
  PROVE  LoopType(S, I, O, R, T)'
BY DEF LoopType, ProbesType, BreakLoop, SameCycle, signalVars, envVars, Phase

LEMMA RearmType ==
  ASSUME NEW S, NEW I, NEW O, NEW R, NEW T, LoopType(S, I, O, R, T), WatchdogRearms
  PROVE  LoopType(S, I, O, R, T)'
BY TimerValues DEF LoopType, ProbesType, WatchdogRearms, SameCycle, signalVars, envVars

\* Polling for the signal, time, and what the environment does.
Around(S, T) ==
    \/ PollShutdownFuture \/ Sigterm \/ ChangeRoute \/ SettleDown \/ PassTick
    \/ \E s \in S : PassBuffer(s)
    \/ \E why \in T : PostEvent(why)

LEMMA AroundType ==
  ASSUME NEW S, NEW I, NEW O, NEW R, NEW T, LoopType(S, I, O, R, T), Around(S, T)
  PROVE  LoopType(S, I, O, R, T)'
<1> USE DEF LoopType, probeVars, cycleVars, signalVars, envVars, Phase
<1>1. CASE PollShutdownFuture
  BY <1>1 DEF PollShutdownFuture, Waiting, ProbesType
<1>2. CASE Sigterm
  BY <1>2 DEF Sigterm, ProbesType
<1>3. CASE ChangeRoute
  BY <1>3 DEF ChangeRoute, ProbesType
<1>4. CASE SettleDown
  BY <1>4 DEF SettleDown, ProbesType
<1>5. CASE PassTick
  <2>1. ProbesType(S, I)'
    BY <1>5, AgeAllType DEF PassTick
  <2> QED
    BY <1>5, <2>1 DEF PassTick, loopVars
<1>6. ASSUME NEW s \in S, PassBuffer(s)
      PROVE  LoopType(S, I, O, R, T)'
  <2>1. pending' \in [S -> Beat \union {Never}]
    BY <1>6, ConstantsOK
       DEF PassBuffer, Notify, ProbesType, Beat, Constants, HorizonAssumption
  <2> QED
    BY <1>6, <2>1 DEF PassBuffer, ProbesType, loopVars
<1>7. ASSUME NEW why \in T, PostEvent(why)
      PROVE  LoopType(S, I, O, R, T)'
  BY <1>7 DEF PostEvent, ProbesType
<1> QED
  BY <1>1, <1>2, <1>3, <1>4, <1>5, <1>6, <1>7 DEF Around

LEMMA StutterType ==
  ASSUME NEW S, NEW I, NEW O, NEW R, NEW T, LoopType(S, I, O, R, T), UNCHANGED <<probeVars,
         loopVars>>
  PROVE  LoopType(S, I, O, R, T)'
BY DEF LoopType, ProbesType, probeVars, loopVars, cycleVars, signalVars, envVars

-----------------------------------------------------------------------------
\* What a cycle starts from, and how long a stall goes unseen

\* Between cycles nothing of the last one is left: no heartbeat, no remembered
\* Instant, no ready stage, no terminal event.
CleanInv(S, I) ==
    pc \in {"resolve", "construct", "start", "backoff"} =>
        /\ ready = {} /\ ~serviceReady /\ terminal = Never
        /\ \A s \in S : pending[s] = Never
        /\ \A i \in I : first[i] = Never

TimerInv == pc = "running" => timer <= MonitorInterval
HealthyInv == pc = "running" /\ Healthy => serviceReady

\* W are the stages whose stalls the watchdog looks for and whose buffers make
\* the service ready.  The watchdog's timer bounds how long a stall goes
\* unseen: a stage that delivered is at most a timeout older than the last
\* tick of the watchdog.
ReadyInv(W) == serviceReady => W \subseteq ready
AgeInv(W) == pc = "running" => \A s \in W \intersect ready : last[s] <= MediaTimeout + timer

LoopInv(S, I, W) ==
    CleanInv(S, I) /\ TimerInv /\ HealthyInv /\ ReadyInv(W) /\ AgeInv(W)

LEMMA InvInit ==
  ASSUME NEW S, NEW I, NEW W, LoopInit(S, I)
  PROVE  LoopInv(S, I, W)
BY DEF LoopInit, LoopInv, CleanInv, TimerInv, HealthyInv, ReadyInv, AgeInv, Healthy

\* Steps outside the select loop start from, or leave, a clean cycle.
LEMMA InvOutside ==
  ASSUME NEW S, NEW I, NEW W, W \subseteq S, ProbesType(S, I), LoopInv(S, I, W), Outside
  PROVE  LoopInv(S, I, W)'
<1> USE DEF LoopInv, CleanInv, TimerInv, HealthyInv, ReadyInv, AgeInv, Healthy, SameCycle,
            FailAndBackOff
<1>1. CASE Resolve
  BY <1>1 DEF Resolve
<1>2. CASE ResolveError
  BY <1>2 DEF ResolveError
<1>3. CASE Construct
  BY <1>3 DEF Construct
<1>4. CASE RetryAtOnce
  BY <1>4 DEF RetryAtOnce, ConstructError
<1>5. CASE RetryLater
  BY <1>5 DEF RetryLater, ConstructError
<1>6. CASE Start
  BY <1>6, ConstantsOK DEF Start, Constants, RecoveryAssumption
<1>7. CASE StartError
  BY <1>7 DEF StartError
<1>8. CASE EndCycle
  <2>1. (\A s \in S : pending'[s] = Never) /\ \A i \in I : first'[i] = Never
    BY <1>8 DEF EndCycle, DropCycle, ProbesType
  <2> QED
    BY <1>8, <2>1 DEF EndCycle, DropCycle
<1>9. CASE BackoffOver
  BY <1>9 DEF BackoffOver
<1>10. CASE Stop
  BY <1>10 DEF Stop, DropCycle
<1> QED
  BY <1>1, <1>2, <1>3, <1>4, <1>5, <1>6, <1>7, <1>8, <1>9, <1>10 DEF Outside

\* Reading a heartbeat makes a stage younger; only a handler that finds every
\* watched stage ready may mark the service ready.
LEMMA InvHear ==
  ASSUME NEW S, NEW I, NEW W, W \subseteq S, ProbesType(S, I), LoopInv(S, I, W),
         pc = "running", NEW s \in S, Read(s), HearUnchanged,
         ready' \in {ready, ready \union {s}},
         \/ UNCHANGED <<serviceReady, health>>
         \/ serviceReady' /\ W \subseteq ready'
  PROVE  LoopInv(S, I, W)'
<1>1. pc' = "running" /\ timer' = timer
  BY DEF HearUnchanged
<1>2. /\ last'[s] <= Lag /\ last'[s] \in Nat
      /\ \A t \in S \ {s} : last'[t] = last[t]
  BY ReadType, ConstantsOK DEF ProbesType, Age, Constants, HorizonAssumption
<1>3. timer \in Nat /\ MediaTimeout \in Nat /\ Lag \in Nat /\ Lag < MediaTimeout
  BY ConstantsOK
     DEF ProbesType, Age, Constants, HorizonAssumption, RecoveryAssumption, LagAssumption
<1>4. AgeInv(W)'
  BY <1>1, <1>2, <1>3 DEF LoopInv, AgeInv
<1>5. ReadyInv(W)' /\ HealthyInv'
  BY <1>1 DEF LoopInv, ReadyInv, HealthyInv, Healthy
<1> QED
  BY <1>1, <1>4, <1>5 DEF LoopInv, CleanInv, TimerInv

\* The handler's last step, when the service is ready once W is.
LEMMA ReadyOnce ==
  ASSUME NEW W, MarkReadyOnce(W \subseteq ready')
  PROVE  UNCHANGED <<serviceReady, health>> \/ (serviceReady' /\ W \subseteq ready')
BY DEF MarkReadyOnce

LEMMA InvBreak ==
  ASSUME NEW S, NEW I, NEW W, LoopInv(S, I, W), NEW why, BreakLoop(why)
  PROVE  LoopInv(S, I, W)'
BY DEF BreakLoop, SameCycle, LoopInv, CleanInv, TimerInv, HealthyInv, ReadyInv, AgeInv, Healthy

\* The watchdog restarts its timer when no watched stage is a timeout old.
LEMMA InvRearm ==
  ASSUME NEW S, NEW I, NEW W, W \subseteq S, ProbesType(S, I), LoopInv(S, I, W),
         WatchdogDue, WatchdogRearms, \A s \in W : ~Stalled(s)
  PROVE  LoopInv(S, I, W)'
<1>1. \A s \in W \intersect ready : last[s] <= MediaTimeout
  BY ConstantsOK
     DEF Stalled, ProbesType, Age, Constants, RecoveryAssumption, HorizonAssumption
<1> QED
  BY <1>1, ConstantsOK
     DEF WatchdogDue, WatchdogRearms, SameCycle, LoopInv, CleanInv, TimerInv, HealthyInv,
         ReadyInv, AgeInv, Healthy, Constants, RecoveryAssumption

\* Below its bound the watchdog's timer grows by exactly one.
LEMMA TimerTicks ==
  ASSUME NEW S, NEW I, ProbesType(S, I), PassTick, pc = "running"
  PROVE  timer' = timer + 1 /\ timer' <= MonitorInterval /\ timer \in Nat
<1>1. timer \in Age /\ timer < Horizon /\ timer + 1 <= MonitorInterval
  BY ConstantsOK
     DEF PassTick, ProbesType, Constants, HorizonAssumption, RecoveryAssumption, Age
<1> QED
  BY <1>1, OlderType, ConstantsOK
     DEF PassTick, AgeAll, Age, Constants, HorizonAssumption

\* Time ages the timer with the stages.
LEMMA InvTick ==
  ASSUME NEW S, NEW I, NEW W, W \subseteq S, ProbesType(S, I), LoopInv(S, I, W), PassTick
  PROVE  LoopInv(S, I, W)'
<1>1. AgeInv(W)'
  <2> SUFFICES ASSUME pc = "running", NEW s \in W \intersect ready
               PROVE  last'[s] <= MediaTimeout + timer'
    BY DEF PassTick, loopVars, cycleVars, AgeInv
  <2>1. last'[s] \in Age /\ last'[s] <= last[s] + 1 /\ last[s] \in Age
    BY OlderType DEF PassTick, AgeAll, ProbesType
  <2>2. last[s] <= MediaTimeout + timer
    BY DEF LoopInv, AgeInv
  <2>3. last[s] \in Nat /\ last'[s] \in Nat /\ MediaTimeout \in Nat
    BY <2>1, ConstantsOK DEF Age, Constants, HorizonAssumption, RecoveryAssumption
  <2> QED
    BY <2>1, <2>2, <2>3, TimerTicks
<1>2. CleanInv(S, I)'
  BY DEF PassTick, AgeAll, Aged, loopVars, cycleVars, ProbesType, LoopInv, CleanInv
<1> QED
  BY <1>1, <1>2, TimerTicks
     DEF PassTick, loopVars, cycleVars, LoopInv, TimerInv, HealthyInv, ReadyInv, Healthy

LEMMA InvAround ==
  ASSUME NEW S, NEW I, NEW W, NEW T, W \subseteq S, ProbesType(S, I), LoopInv(S, I, W),
         Around(S, T)
  PROVE  LoopInv(S, I, W)'
<1> USE DEF LoopInv, CleanInv, TimerInv, HealthyInv, ReadyInv, AgeInv, Healthy, probeVars,
            loopVars, cycleVars
<1>1. CASE PollShutdownFuture
  BY <1>1 DEF PollShutdownFuture
<1>2. CASE Sigterm
  BY <1>2 DEF Sigterm
<1>3. CASE ChangeRoute
  BY <1>3 DEF ChangeRoute
<1>4. CASE SettleDown
  BY <1>4 DEF SettleDown
<1>5. CASE PassTick
  BY <1>5, InvTick
<1>6. ASSUME NEW s \in S, PassBuffer(s)
      PROVE  LoopInv(S, I, W)'
  BY <1>6 DEF PassBuffer
<1>7. ASSUME NEW why \in T, PostEvent(why)
      PROVE  LoopInv(S, I, W)'
  BY <1>7 DEF PostEvent
<1> QED
  BY <1>1, <1>2, <1>3, <1>4, <1>5, <1>6, <1>7 DEF Around

LEMMA InvStutter ==
  ASSUME NEW S, NEW I, NEW W, LoopInv(S, I, W), UNCHANGED <<probeVars, loopVars>>
  PROVE  LoopInv(S, I, W)'
BY DEF LoopInv, CleanInv, TimerInv, HealthyInv, ReadyInv, AgeInv, Healthy, probeVars, loopVars,
       cycleVars

\* What the invariant says of a healthy service.
LEMMA HealthBound ==
  ASSUME NEW S, NEW I, NEW W, W \subseteq S, ProbesType(S, I), LoopInv(S, I, W),
         pc = "running", Healthy, NEW s \in W
  PROVE  s \in ready /\ last[s] <= MediaTimeout + MonitorInterval
<1>1. s \in ready
  BY DEF LoopInv, ReadyInv, HealthyInv
<1>2. last[s] \in Nat /\ timer \in Nat
  BY ConstantsOK DEF ProbesType, Age, Constants, HorizonAssumption
<1> QED
  BY <1>1, <1>2, ConstantsOK DEF LoopInv, AgeInv, TimerInv, Constants, RecoveryAssumption

-----------------------------------------------------------------------------
\* A cycle in which every stage delivers in every tick

\* HeardBefore of the services: the supervisor has read a buffer of stage s.
Heard(I, s) == (s \in I /\ first[s] # Never) \/ s \in ready

\* For how long the channel of a stage has held something unread.
Unread(s) == IF pending[s] = Never THEN 0 ELSE pending[s].since

\* What the supervisor has read is a tick older than what it has left unread,
\* at most; and what it has read of an input, a tick older than what every
\* stage it never heard of has left unread.
CalmStage(I, s) ==
    /\ pending[s] # Never => pending[s].observed <= 1
    /\ last[s] <= Unread(s) + 1
    /\ ~Heard(I, s) => \A i \in I : first[i] # Never => first[i] <= Unread(s) + 1

CalmProbes(S, I) == \A s \in S : CalmStage(I, s)

\* A stage with an input and an output of its own is ready once it was heard.
FirstInv(I, O) == \A s \in I \intersect O : first[s] # Never => s \in ready

LEMMA UnreadType ==
  ASSUME NEW S, NEW I, ProbesType(S, I), NEW s \in S
  PROVE  Unread(s) \in Nat /\ Unread(s) <= Lag
<1>1. CASE pending[s] = Never
  BY <1>1, ConstantsOK DEF Unread, Constants, HorizonAssumption
<1>2. CASE pending[s] # Never
  <2>1. pending[s] \in Beat
    BY <1>2 DEF ProbesType
  <2> QED
    BY <1>2, <2>1, BeatObserved DEF Unread
<1> QED
  BY <1>1, <1>2

\* The lag is shorter than the timeout, so in such a cycle no stage is stalled
\* and no stage waits for a first buffer.
LEMMA CalmBound ==
  ASSUME NEW S, NEW I, ProbesType(S, I), CalmProbes(S, I), NEW s \in S
  PROVE  /\ last[s] <= MediaTimeout
         /\ ~Stalled(s)
         /\ ~Heard(I, s) => \A i \in I : first[i] # Never => ~(first[i] > MediaTimeout)
<1>1. Unread(s) \in Nat /\ Unread(s) + 1 <= MediaTimeout /\ MediaTimeout \in Nat
  BY UnreadType, ConstantsOK DEF Constants, RecoveryAssumption, HorizonAssumption, LagAssumption
<1>2. last[s] \in Nat /\ \A i \in I : first[i] # Never => first[i] \in Nat
  BY ConstantsOK DEF ProbesType, Age, Constants, HorizonAssumption
<1> QED
  BY <1>1, <1>2 DEF CalmProbes, CalmStage, Stalled

\* A cycle starts calm.
LEMMA CalmStart ==
  ASSUME NEW S, NEW I, ProbesType(S, I), CleanInv(S, I), Start
  PROVE  CalmProbes(S, I)'
BY DEF ProbesType, CleanInv, Start, CalmProbes, CalmStage, Unread

\* A heartbeat that is read becomes last_<stage>, and perhaps first_<stage>.
LEMMA CalmRead ==
  ASSUME NEW S, NEW I, ProbesType(S, I), CalmProbes(S, I), NEW s \in S, Read(s),
         ready' = ready \/ ready' = ready \union {s},
         first' \in [I -> Age \union {Never}],
         \A i \in I : first'[i] = first[i] \/ (i = s /\ first'[i] = pending[s].observed),
         Heard(I, s)'
  PROVE  CalmProbes(S, I)'
<1>1. /\ pending[s].observed \in Nat /\ pending[s].observed <= 1
      /\ last'[s] = pending[s].observed /\ pending'[s] = Never
      /\ \A t \in S \ {s} : last'[t] = last[t] /\ pending'[t] = pending[t]
  <2>1. pending[s] \in Beat /\ pending[s] # Never /\ pending[s].observed <= 1
    BY ReadType DEF CalmProbes, CalmStage, Read
  <2>2. pending[s].observed \in Nat
    BY <2>1, BeatObserved, ConstantsOK DEF Age, Constants, HorizonAssumption
  <2> QED
    BY <2>1, <2>2, ReadType
<1>2. CalmStage(I, s)'
  BY <1>1 DEF CalmStage, Unread
<1>3. ASSUME NEW t \in S \ {s}
      PROVE  CalmStage(I, t)'
  <2>1. Unread(t)' = Unread(t) /\ Unread(t) \in Nat
    BY <1>1, UnreadType DEF Unread
  <2>2. CalmStage(I, t)
    BY DEF CalmProbes
  <2>3. Heard(I, t) => Heard(I, t)'
    BY <1>3 DEF Heard
  <2>4. ASSUME ~Heard(I, t), NEW i \in I, first'[i] # Never
        PROVE  first'[i] <= Unread(t) + 1
    <3>1. CASE first'[i] = first[i]
      BY <2>2, <2>4, <3>1 DEF CalmStage
    <3>2. CASE first'[i] = pending[s].observed
      BY <1>1, <2>1, <3>2
    <3> QED
      BY <3>1, <3>2
  <2> QED
    BY <1>1, <2>1, <2>2, <2>3, <2>4 DEF CalmStage
<1> QED
  BY <1>2, <1>3 DEF CalmProbes

\* A buffer makes an unread heartbeat new, but not the time it has been unread.
LEMMA CalmBuffer ==
  ASSUME NEW S, NEW I, ProbesType(S, I), CalmProbes(S, I), NEW s \in S, PassBuffer(s)
  PROVE  CalmProbes(S, I)'
<1>1. UNCHANGED <<first, last, ready>>
  BY DEF PassBuffer, loopVars, cycleVars
<1>2. /\ pending'[s] = [observed |-> 0, since |-> Unread(s)]
      /\ \A t \in S \ {s} : pending'[t] = pending[t]
  BY DEF PassBuffer, Notify, Unread, ProbesType
<1>3. Unread(s)' = Unread(s) /\ \A t \in S \ {s} : Unread(t)' = Unread(t)
  <2>1. Unread(s) \in Nat /\ Unread(s) <= Lag
    BY UnreadType
  <2>2. pending'[s] \in [observed : Nat, since : Nat]
    BY <1>2, <2>1
  <2>3. pending'[s] # Never
    BY <2>2, ConstantsOK DEF Constants, NeverAssumption
  <2>4. pending'[s].since = Unread(s)
    BY <1>2
  <2> QED
    BY <1>2, <2>3, <2>4 DEF Unread
<1>4. \A t \in S : pending'[t] # Never => pending'[t].observed <= 1
  BY <1>2 DEF CalmProbes, CalmStage
<1> QED
  BY <1>1, <1>3, <1>4 DEF CalmProbes, CalmStage, Heard

\* A tick in which every stage has delivered.
LEMMA CalmTick ==
  ASSUME NEW S, NEW I, ProbesType(S, I), CalmProbes(S, I), PassTick,
         \A s \in S : DeliveredNow(s, Heard(I, s))
  PROVE  CalmProbes(S, I)'
<1> SUFFICES ASSUME NEW s \in S
             PROVE  CalmStage(I, s)'
  BY DEF CalmProbes
<1>1. CalmStage(I, s) /\ Unread(s) \in Nat /\ last[s] \in Nat
  BY UnreadType, ConstantsOK DEF CalmProbes, ProbesType, Age, Constants, HorizonAssumption
<1>2. last'[s] <= last[s] + 1 /\ last'[s] \in Nat
  BY OlderType, ConstantsOK
     DEF PassTick, AgeAll, ProbesType, Age, Constants, HorizonAssumption
<1>3. \A i \in I : /\ first'[i] # Never <=> first[i] # Never
                   /\ first[i] # Never => first[i] \in Nat /\ first'[i] \in Nat
                                          /\ first'[i] <= first[i] + 1
  <2> SUFFICES ASSUME NEW i \in I
               PROVE  /\ first'[i] # Never <=> first[i] # Never
                      /\ first[i] # Never => first[i] \in Nat /\ first'[i] \in Nat
                                             /\ first'[i] <= first[i] + 1
    OBVIOUS
  <2>1. first'[i] = Aged(first[i]) /\ first[i] \in Age \union {Never}
    BY DEF PassTick, AgeAll, ProbesType
  <2>2. Age \subseteq Nat
    BY ConstantsOK DEF Age, Constants, HorizonAssumption
  <2> QED
    BY <2>1, <2>2, OlderType, NeverIsNothing DEF Aged
<1>4. Heard(I, s)' <=> Heard(I, s)
  BY <1>3 DEF Heard, PassTick, loopVars, cycleVars
<1>5. CASE pending[s] # Never
  <2>1. pending'[s] = OlderBeat(pending[s]) /\ pending[s].observed = 0 /\ pending[s] \in Beat
    BY <1>5 DEF DeliveredNow, PassTick, AgeAll, ProbesType
  <2>2. pending[s].since < Lag
    BY <1>5 DEF PassTick, ReadInTime, ProbesType
  <2>3. pending'[s] # Never
    BY <2>1, <2>2, OlderBeatType, NeverIsNothing
  <2>4. pending'[s].observed = 1 /\ Unread(s)' = Unread(s) + 1
    BY <1>5, <2>1, <2>3, BeatObserved DEF OlderBeat, Unread
  <2> QED
    BY <1>1, <1>2, <1>3, <1>4, <2>4 DEF CalmStage
<1>6. CASE pending[s] = Never
  <2>1. pending'[s] = Never /\ Heard(I, s) /\ last[s] = 0
    BY <1>6 DEF DeliveredNow, PassTick, AgeAll, ProbesType
  <2>2. Unread(s)' = 0 /\ last'[s] <= 1
    BY <1>2, <2>1 DEF Unread
  <2> QED
    BY <1>4, <2>1, <2>2 DEF CalmStage
<1> QED
  BY <1>5, <1>6

\* CalmProbes reads only the probes and the ready stages.
LEMMA CalmStutter ==
  ASSUME NEW S, NEW I, CalmProbes(S, I), UNCHANGED <<probeVars, ready>>
  PROVE  CalmProbes(S, I)'
BY DEF CalmProbes, CalmStage, Heard, Unread, probeVars

-----------------------------------------------------------------------------
\* Settled cycles

\* Only a pipeline that ran, and was not restarted since, was calm; while it
\* runs, its interface is the current one.
CalmPhase ==
    calm => /\ pc \in {"running", "ending"} \union Over
            /\ settled
            /\ interface = route

LEMMA PhaseOutside ==
  ASSUME CalmPhase, Outside
  PROVE  CalmPhase'
<1> USE DEF CalmPhase, Over
<1>1. CASE Resolve \/ ResolveError \/ Construct \/ RetryAtOnce \/ RetryLater
  BY <1>1 DEF Resolve, ResolveError, Construct, RetryAtOnce, RetryLater, ConstructError,
              FailAndBackOff
<1>2. CASE Start \/ StartError \/ EndCycle \/ BackoffOver \/ Stop
  BY <1>2 DEF Start, StartError, EndCycle, BackoffOver, Stop, FailAndBackOff, Waiting, envVars
<1> QED
  BY <1>1, <1>2 DEF Outside

LEMMA PhaseWithin ==
  ASSUME NEW S, NEW T, CalmPhase,
         \/ HearUnchanged \/ WatchdogRearms \/ Around(S, T)
         \/ \E why : BreakLoop(why)
         \/ UNCHANGED loopVars
  PROVE  CalmPhase'
<1> USE DEF CalmPhase, Over, envVars
<1>1. CASE HearUnchanged \/ WatchdogRearms
  BY <1>1 DEF HearUnchanged, WatchdogRearms
<1>2. CASE Around(S, T)
  BY <1>2 DEF Around, PollShutdownFuture, Sigterm, ChangeRoute, SettleDown, PassTick, PassBuffer,
              PostEvent, loopVars
<1>3. ASSUME NEW why, BreakLoop(why)
      PROVE  CalmPhase'
  BY <1>3 DEF BreakLoop
<1>4. CASE UNCHANGED loopVars
  BY <1>4 DEF loopVars
<1> QED
  BY <1>1, <1>2, <1>3, <1>4
=============================================================================
