------------------------- MODULE TxSupervisorProofs -------------------------
(***************************************************************************)
(* Theorems about the transmitter's supervisor for every timeout, backoff, *)
(* lag, set of interfaces, capture card and choice of encoder.             *)
(***************************************************************************)
EXTENDS TxSupervisor, LoopProofs

\* The names of the stages of a medium.
LEMMA MediumNames ==
  /\ \A m \in Medium : m = "video" \/ (m = "audio" /\ AudioEnabled)
  /\ "video" \in Medium /\ (AudioEnabled => "audio" \in Medium)
  /\ Ingress["video"] = "video_ingress" /\ Egress["video"] = "video_egress"
  /\ AudioEnabled => Ingress["audio"] = "audio_ingress" /\ Egress["audio"] = "audio_egress"
  BY DEF Medium, Ingress, Egress

\* How the stages are divided.
LEMMA StageFacts ==
  /\ IngressStage \subseteq Stage /\ InputStage \subseteq Stage /\ OutputStage \subseteq Stage
  /\ \A m \in Medium :
       /\ m \in InputStage /\ m \in OutputStage /\ m \notin IngressStage
       /\ Ingress[m] \in IngressStage /\ Ingress[m] \in InputStage
       /\ Ingress[m] \notin OutputStage
       /\ Egress[m] \in OutputStage /\ Egress[m] \notin InputStage
       /\ Egress[m] \notin IngressStage
       /\ \A n \in Medium : m # Ingress[n] /\ m # Egress[n] /\ Ingress[m] # Egress[n]
       /\ \A n \in Medium : n # m => Ingress[m] # Ingress[n] /\ Egress[m] # Egress[n]
  /\ \A s \in InputStage \intersect OutputStage : s \in Medium
  /\ \A s \in Stage : s \in Medium \/ \E m \in Medium : s = Ingress[m] \/ s = Egress[m]
  /\ \A s \in OutputStage : s \in Medium \/ \E m \in Medium : s = Egress[m]
<1>1. \A m \in Medium : /\ Ingress[m] \in IngressStage /\ Egress[m] \in EgressStage
  BY DEF IngressStage, EgressStage
<1>2. \A s \in IngressStage : \E m \in Medium : s = Ingress[m]
  BY DEF IngressStage
<1>3. \A s \in EgressStage : \E m \in Medium : s = Egress[m]
  BY DEF EgressStage
<1>4. \A m, n \in Medium :
        /\ m # Ingress[n] /\ m # Egress[n] /\ Ingress[m] # Egress[n]
        /\ n # m => Ingress[m] # Ingress[n] /\ Egress[m] # Egress[n]
  BY MediumNames
<1> QED
  BY <1>1, <1>2, <1>3, <1>4 DEF Stage, InputStage, OutputStage

\* What a stage waits for.
LEMMA UpstreamFacts ==
  ASSUME NEW m \in Medium
  PROVE  Upstream[m] = Ingress[m] /\ Upstream[Egress[m]] = m
BY StageFacts, MediumNames DEF Upstream

-----------------------------------------------------------------------------
\* The steps of the transmitter as steps of the loop

LoopOK == LoopType(Stage, InputStage, OutputStage, Reason, TerminalReason)

TxOK ==
    /\ forceSoftwareEncoder \in BOOLEAN
    /\ forceCaptureAuto \in BOOLEAN
    /\ forceVideoConversion \in BOOLEAN
    /\ usesV4l2Encoder \in BOOLEAN
    /\ usesMmapCapture \in BOOLEAN
    /\ usesDirectMjpeg \in BOOLEAN
    /\ capturing \in BOOLEAN

\* The type invariant is the loop's and that of the transmitter's own variables.
LEMMA TypeSplit == (TypeOK <=> LoopOK /\ TxOK) /\ (TypeOK' <=> LoopOK' /\ TxOK')
  BY DEF TypeOK, LoopOK, TxOK, LoopType, ProbesType, fallbacks, usage

LEMMA ProbesOK == TypeOK => ProbesType(Stage, InputStage)
  BY DEF TypeOK, ProbesType

\* The actions that start or end a cycle are steps outside the select loop.
LEMMA OutsideSteps == Starting \/ Restart \/ BackoffElapsed \/ Shutdown => Outside
  BY DEF Starting, ResolveInterface, ResolveFails, ConstructPipeline,
         ConstructRetriesInSoftware, ConstructFails, StartPipeline, StartFails, Restart,
         BackoffElapsed, Shutdown, Outside

\* The actions that are neither the code's handlers nor the end of a cycle.
LEMMA AroundSteps ==
  ASSUME PollShutdown \/ Tick \/ Environment
  PROVE  Around(Stage, TerminalReason) \/ (SourceToggles /\ UNCHANGED <<probeVars, loopVars>>)
BY DEF PollShutdown, Tick, Environment, Buffer, PostTerminal, SourceToggles, RouteChanges,
       Settle, Terminate, Around

\* The watchdog's checks and the terminal events that break the loop.
LEMMA BreakSteps ==
  ASSUME TypeOK, HearTerminal \/ \E i \in 1..15 : WatchdogBreak(i)
  PROVE  \E why \in Reason : BreakLoop(why)
<1>1. CASE HearTerminal
  BY <1>1 DEF HearTerminal, TypeOK, Reason
<1>2. ASSUME NEW i \in 1..15, WatchdogBreak(i)
      PROVE  \E why \in Reason : BreakLoop(why)
  <2>1. WatchdogOrder[i] \in Reason
    BY DEF Reason, WatchdogReason
  <2> QED
    BY <1>2, <2>1 DEF WatchdogBreak
<1> QED
  BY <1>1, <1>2

\* The first Instant of an input is remembered once.
LEMMA RememberType ==
  ASSUME ProbesType(Stage, InputStage), NEW s \in InputStage, pending[s] # Never,
         RememberFirst(s)
  PROVE  /\ first' \in [InputStage -> Age \union {Never}]
         /\ \A i \in InputStage : \/ first'[i] = first[i]
                                  \/ i = s /\ first[i] = Never /\ first'[i] = pending[s].observed
         /\ first'[s] # Never
<1>1. pending[s].observed \in Age
  BY BeatObserved, StageFacts DEF ProbesType
<1> QED
  BY <1>1, NeverIsNothing DEF ProbesType, RememberFirst

\* What every heartbeat handler does.
HearsStage(s) ==
    /\ pc = "running"
    /\ Read(s)
    /\ HearUnchanged
    /\ UNCHANGED txVars
    /\ ready' = (IF s \in OutputStage THEN ready \union {s} ELSE ready)
    /\ first' \in [InputStage -> Age \union {Never}]
    /\ \A i \in InputStage : \/ first'[i] = first[i]
                             \/ i = s /\ first[i] = Never /\ first'[i] = pending[s].observed
    /\ s \in InputStage => first'[s] # Never
    /\ UNCHANGED <<serviceReady, health>> \/ MarkReadyOnce(OutputStage \subseteq ready')

LEMMA HearSteps ==
  ASSUME TypeOK, Hear
  PROVE  \E s \in Stage : HearsStage(s)
<1>0. ProbesType(Stage, InputStage)
  BY ProbesOK
<1>1. ASSUME NEW m \in Medium, HearIngress(m)
      PROVE  Ingress[m] \in Stage /\ HearsStage(Ingress[m])
  <2>1. Ingress[m] \in InputStage /\ Ingress[m] \notin OutputStage /\ Ingress[m] \in Stage
    BY StageFacts
  <2> QED
    BY <1>0, <1>1, <2>1, RememberType DEF HearIngress, HearsStage, Read
<1>2. ASSUME NEW m \in Medium, HearProcessed(m)
      PROVE  m \in Stage /\ HearsStage(m)
  <2>1. m \in InputStage /\ m \in OutputStage /\ m \in Stage
    BY StageFacts
  <2> QED
    BY <1>0, <1>2, <2>1, RememberType DEF HearProcessed, HearsStage, Read, AllReady
<1>3. ASSUME NEW m \in Medium, HearEgress(m)
      PROVE  Egress[m] \in Stage /\ HearsStage(Egress[m])
  <2>1. Egress[m] \notin InputStage /\ Egress[m] \in OutputStage /\ Egress[m] \in Stage
    BY StageFacts
  <2> QED
    BY <1>0, <1>3, <2>1 DEF HearEgress, HearsStage, AllReady, ProbesType
<1> QED
  BY <1>1, <1>2, <1>3 DEF Hear

-----------------------------------------------------------------------------
\* Type correctness

\* Every step keeps the types of the transmitter's own variables.
LEMMA TxTypes ==
  ASSUME TypeOK, Next
  PROVE  TxOK'
<1>0. TxOK
  BY TypeSplit
<1> USE DEF TxOK, fallbacks, usage, txVars
<1>1. CASE Starting
  <2>1. SelectsV4l2 \in BOOLEAN /\ AutoEncoder \in BOOLEAN
        /\ ConfiguresMmap \in BOOLEAN /\ ConfiguresMjpeg \in BOOLEAN
    BY TxAssumption DEF SelectsV4l2, AutoEncoder
  <2>2. CASE ConstructPipeline
    BY <1>0, <2>1, <2>2 DEF ConstructPipeline
  <2>3. ASSUME NEW why \in TerminalReason, StartFails(why)
        PROVE  TxOK'
    BY <1>0, <2>1, <2>3 DEF StartFails, FallBackAfter
  <2>4. CASE ResolveInterface \/ ResolveFails \/ ConstructRetriesInSoftware \/ ConstructFails
             \/ StartPipeline
    BY <1>0, <2>4 DEF ResolveInterface, ResolveFails, ConstructRetriesInSoftware,
                      ConstructFails, StartPipeline
  <2> QED
    BY <1>1, <2>2, <2>3, <2>4 DEF Starting
<1>2. CASE Hear
  BY <1>0, <1>2 DEF Hear, HearIngress, HearProcessed, HearEgress
<1>3. CASE Watchdog \/ HearTerminal \/ BackoffElapsed
  BY <1>0, <1>3 DEF Watchdog, WatchdogTick, WatchdogBreak, HearTerminal, BackoffElapsed
<1>4. CASE Restart
  BY <1>0, <1>4 DEF Restart, FallBackAfter, AutoEncoder
<1>5. CASE PollShutdown \/ Shutdown \/ Tick \/ Terminated
  BY <1>0, <1>5 DEF PollShutdown, Shutdown, Tick, Terminated, vars
<1>6. CASE Environment /\ ~SourceToggles
  BY <1>0, <1>6 DEF Environment, Buffer, PostTerminal, RouteChanges, Settle, Terminate
<1>7. CASE SourceToggles
  <2>1. capturing' \in BOOLEAN
    BY <1>7 DEF SourceToggles
  <2> QED
    BY <1>0, <1>7, <2>1 DEF SourceToggles
<1> QED
  BY <1>1, <1>2, <1>3, <1>4, <1>5, <1>6, <1>7 DEF Next

\* Every step keeps the types of the loop's variables.
LEMMA LoopTypes ==
  ASSUME TypeOK, [Next]_vars
  PROVE  LoopOK'
<1>0. LoopOK
  BY TypeSplit
<1>1. CASE Starting \/ Restart \/ BackoffElapsed \/ Shutdown
  BY <1>0, <1>1, OutsideSteps, OutsideType DEF LoopOK
<1>2. CASE Hear
  <2>1. PICK s \in Stage : HearsStage(s)
    BY <1>2, HearSteps
  <2>2. ready' \subseteq OutputStage /\ serviceReady' \in BOOLEAN /\ health' \in HealthState
    BY <1>0, <2>1, ReadyType DEF HearsStage, LoopOK, LoopType
  <2> QED
    BY <1>0, <2>1, <2>2, HearType DEF HearsStage, LoopOK
<1>3. CASE WatchdogTick
  BY <1>0, <1>3, RearmType DEF WatchdogTick, LoopOK
<1>4. CASE HearTerminal \/ \E i \in 1..15 : WatchdogBreak(i)
  BY <1>0, <1>4, BreakSteps, BreakType DEF LoopOK
<1>5. CASE PollShutdown \/ Tick \/ Environment
  BY <1>0, <1>5, AroundSteps, AroundType, StutterType DEF LoopOK
<1>6. CASE UNCHANGED vars
  BY <1>0, <1>6, StutterType DEF vars, LoopOK
<1> QED
  BY <1>1, <1>2, <1>3, <1>4, <1>5, <1>6 DEF Next, Watchdog, Terminated

\* Every reachable state of the supervisor is well typed.
THEOREM TypeCorrect == Spec => []TypeOK
<1>1. Init => TypeOK
  <2> SUFFICES ASSUME Init PROVE LoopOK /\ TxOK
    BY TypeSplit
  <2>1. LoopOK
    BY InitType DEF Init, LoopOK
  <2> QED
    BY <2>1 DEF Init, TxOK
<1>2. TypeOK /\ [Next]_vars => TypeOK'
  <2> SUFFICES ASSUME TypeOK, [Next]_vars
               PROVE  TypeOK'
    OBVIOUS
  <2>1. TxOK'
    <3>1. CASE UNCHANGED vars
      BY <3>1, TypeSplit DEF vars, txVars, fallbacks, usage, TxOK
    <3> QED
      BY <3>1, TxTypes
  <2> QED
    BY <2>1, LoopTypes, TypeSplit
<1> QED
  BY <1>1, <1>2, PTL DEF Spec

-----------------------------------------------------------------------------
\* The watchdog's checks

\* What each check is, by its place in the watchdog's order.
LEMMA OrderFacts ==
  /\ WatchdogOrder[1] = <<"interface_changed", "network">>
  /\ WatchdogOrder[2] = <<"processing_silent", "video">>
  /\ WatchdogOrder[3] = <<"source_stopped", "video">>
  /\ WatchdogOrder[4] = <<"source_absent", "video">>
  /\ WatchdogOrder[5] = <<"packetizer_silent", "video">>
  /\ WatchdogOrder[6] = <<"processing_silent", "audio">>
  /\ WatchdogOrder[7] = <<"source_stopped", "audio">>
  /\ WatchdogOrder[8] = <<"source_absent", "audio">>
  /\ WatchdogOrder[9] = <<"packetizer_silent", "audio">>
  /\ WatchdogOrder[10] = <<"processing_stalled", "video">>
  /\ WatchdogOrder[11] = <<"stream_stalled", "video">>
  /\ WatchdogOrder[12] = <<"egress_stalled", "video">>
  /\ WatchdogOrder[13] = <<"processing_stalled", "audio">>
  /\ WatchdogOrder[14] = <<"stream_stalled", "audio">>
  /\ WatchdogOrder[15] = <<"egress_stalled", "audio">>
  BY DEF WatchdogOrder

\* A watchdog tick that breaks nothing has made every check of every medium.
LEMMA ChecksPassed ==
  ASSUME WatchdogTick, NEW m \in Medium
  PROVE  /\ ~MediumFails("source_stopped", m)
         /\ ~MediumFails("source_absent", m)
         /\ ~MediumFails("packetizer_silent", m)
         /\ ~MediumFails("stream_stalled", m)
         /\ ~MediumFails("egress_stalled", m)
<1>1. \A i \in 1..15 : ~Fails(WatchdogOrder[i])
  BY DEF WatchdogTick
<1>2. CASE m = "video"
  <2>1. /\ ~Fails(WatchdogOrder[3]) /\ ~Fails(WatchdogOrder[4]) /\ ~Fails(WatchdogOrder[5])
        /\ ~Fails(WatchdogOrder[11]) /\ ~Fails(WatchdogOrder[12])
    BY <1>1
  <2>2. /\ ~Fails(<<"source_stopped", "video">>) /\ ~Fails(<<"source_absent", "video">>)
        /\ ~Fails(<<"packetizer_silent", "video">>) /\ ~Fails(<<"stream_stalled", "video">>)
        /\ ~Fails(<<"egress_stalled", "video">>)
    BY <2>1, OrderFacts, Zenon
  <2> QED
    BY <1>2, <2>2 DEF Fails
<1>3. CASE m = "audio"
  <2>1. /\ ~Fails(WatchdogOrder[7]) /\ ~Fails(WatchdogOrder[8]) /\ ~Fails(WatchdogOrder[9])
        /\ ~Fails(WatchdogOrder[14]) /\ ~Fails(WatchdogOrder[15])
    BY <1>1
  <2>2. /\ ~Fails(<<"source_stopped", "audio">>) /\ ~Fails(<<"source_absent", "audio">>)
        /\ ~Fails(<<"packetizer_silent", "audio">>) /\ ~Fails(<<"stream_stalled", "audio">>)
        /\ ~Fails(<<"egress_stalled", "audio">>)
    BY <2>1, OrderFacts, Zenon
  <2> QED
    BY <1>3, <2>2 DEF Fails
<1> QED
  BY <1>2, <1>3, MediumNames

-----------------------------------------------------------------------------
\* Fresh health

\* The strengthening of HealthIsFresh: the loop's invariant for every output
\* stage, each of which must be ready and is watched for a stall.
HealthInv == LoopInv(Stage, InputStage, OutputStage)

\* A watchdog tick that breaks nothing has seen no stalled output stage.
LEMMA NoStallAtTick ==
  ASSUME WatchdogTick
  PROVE  \A s \in OutputStage : ~Stalled(s)
<1>1. \A m \in Medium : ~Stalled(m) /\ ~Stalled(Egress[m])
  BY ChecksPassed DEF MediumFails
<1> QED
  BY <1>1, StageFacts

\* Every step keeps the loop's invariant.
LEMMA HealthStep ==
  ASSUME TypeOK, HealthInv, [Next]_vars
  PROVE  HealthInv'
<1>0. ProbesType(Stage, InputStage) /\ OutputStage \subseteq Stage
  BY ProbesOK, StageFacts
<1>1. CASE Starting \/ Restart \/ BackoffElapsed \/ Shutdown
  BY <1>0, <1>1, OutsideSteps, InvOutside DEF HealthInv
<1>2. CASE Hear
  <2>1. PICK s \in Stage : HearsStage(s)
    BY <1>2, HearSteps
  <2>2. \/ UNCHANGED <<serviceReady, health>>
        \/ serviceReady' /\ OutputStage \subseteq ready'
    BY <2>1, ReadyOnce DEF HearsStage
  <2> QED
    BY <1>0, <2>1, <2>2, InvHear DEF HearsStage, HealthInv
<1>3. CASE WatchdogTick
  BY <1>0, <1>3, NoStallAtTick, InvRearm DEF WatchdogTick, HealthInv
<1>4. CASE HearTerminal \/ \E i \in 1..15 : WatchdogBreak(i)
  BY <1>4, BreakSteps, InvBreak DEF HealthInv
<1>5. CASE PollShutdown \/ Tick \/ Environment
  BY <1>0, <1>5, AroundSteps, InvAround, InvStutter DEF HealthInv
<1>6. CASE UNCHANGED vars
  BY <1>6, InvStutter DEF vars, HealthInv
<1> QED
  BY <1>1, <1>2, <1>3, <1>4, <1>5, <1>6 DEF Next, Watchdog, Terminated

\* The loop's invariant holds in every reachable state.
LEMMA HealthHolds == Spec => []HealthInv
<1>1. Init => HealthInv
  BY InvInit DEF Init, HealthInv
<1>2. TypeOK /\ HealthInv /\ [Next]_vars => HealthInv'
  BY HealthStep
<1> QED
  BY <1>1, <1>2, TypeCorrect, PTL DEF Spec

\* A health of "ok" is never older than one timeout and one watchdog period, of
\* every encoder and packetizer.
THEOREM HealthFresh == Spec => []HealthIsFresh
<1>1. TypeOK /\ HealthInv => HealthIsFresh
  BY ProbesOK, StageFacts, HealthBound DEF HealthInv, HealthIsFresh
<1> QED
  BY <1>1, TypeCorrect, HealthHolds, PTL

-----------------------------------------------------------------------------
\* What a cycle may wait for

\* The strengthening of NoSilentWait: what a medium still waits for is at most
\* a timeout older than the last tick of the watchdog, and a middle stage that
\* was heard of is ready.
SourceWait(m) ==
    m \notin ready =>
        IF first[Ingress[m]] = Never
        THEN last[Ingress[m]] <= MediaTimeout + timer
        ELSE first[Ingress[m]] <= MediaTimeout + timer

PacketWait(m) ==
    m \in ready /\ Egress[m] \notin ready /\ first[m] # Never => first[m] <= MediaTimeout + timer

WaitInv ==
    pc = "running" => /\ FirstInv(InputStage, OutputStage)
                      /\ \A m \in Medium : SourceWait(m) /\ PacketWait(m)

\* The ages of the inputs and of a medium's stages are numbers.
LEMMA AgesAreNumbers ==
  ASSUME TypeOK
  PROVE  /\ timer \in Nat /\ MediaTimeout \in Nat /\ MonitorInterval \in Nat
         /\ \A s \in Stage : last[s] \in Nat
         /\ \A s \in InputStage : first[s] # Never => first[s] \in Nat
BY ConstantsOK DEF TypeOK, Age, Constants, HorizonAssumption, RecoveryAssumption

\* A first buffer that has just been heard of is younger than the timeout.
LEMMA WaitHear ==
  ASSUME TypeOK, WaitInv, Hear
  PROVE  WaitInv'
<1>0. ProbesType(Stage, InputStage) /\ Lag \in Nat /\ Lag < MediaTimeout
  BY ProbesOK, ConstantsOK DEF Constants, HorizonAssumption, LagAssumption
<1>1. PICK s \in Stage : HearsStage(s)
  BY HearSteps
<1>2. /\ pending[s].observed \in Nat /\ pending[s].observed <= Lag
      /\ \A t \in Stage \ {s} : last'[t] = last[t]
  <2>1. pending[s] \in Beat
    BY <1>0, <1>1, ReadType DEF HearsStage
  <2>2. pending[s].observed \in Age
    BY <2>1, BeatObserved
  <2> QED
    BY <1>0, <1>1, <2>1, <2>2, BeatObserved, ReadType, ConstantsOK
       DEF HearsStage, Age, Constants, HorizonAssumption
<1>3. pc = "running" /\ timer' = timer /\ timer \in Nat /\ MediaTimeout \in Nat
  BY <1>1, AgesAreNumbers DEF HearsStage, HearUnchanged
<1>4. \A i \in InputStage : \/ first'[i] = first[i]
                            \/ i = s /\ first[i] = Never /\ first'[i] <= MediaTimeout + timer'
  BY <1>0, <1>1, <1>2, <1>3 DEF HearsStage
<1>5. FirstInv(InputStage, OutputStage)'
  BY <1>1, <1>3 DEF HearsStage, WaitInv, FirstInv
<1>6. ASSUME NEW m \in Medium
      PROVE  SourceWait(m)' /\ PacketWait(m)'
  <2>1. SourceWait(m) /\ PacketWait(m) /\ (first[m] # Never => m \in ready)
    BY <1>3, StageFacts DEF WaitInv, FirstInv
  <2>2. Ingress[m] \in InputStage /\ Ingress[m] \in Stage /\ m \in InputStage
    BY StageFacts
  <2>3. ready \subseteq ready'
    BY <1>1 DEF HearsStage
  <2>4. SourceWait(m)'
    <3>1. CASE s = Ingress[m]
      <4>1. first'[Ingress[m]] # Never
        BY <1>1, <2>2, <3>1 DEF HearsStage
      <4> QED
        BY <1>3, <1>4, <2>1, <2>2, <2>3, <4>1 DEF SourceWait
    <3>2. CASE s # Ingress[m]
      <4>1. first'[Ingress[m]] = first[Ingress[m]] /\ last'[Ingress[m]] = last[Ingress[m]]
        BY <1>2, <1>4, <2>2, <3>2
      <4> QED
        BY <1>3, <2>1, <2>3, <4>1 DEF SourceWait
    <3> QED
      BY <3>1, <3>2
  <2>5. PacketWait(m)'
    <3>1. CASE first'[m] = first[m]
      BY <1>3, <2>1, <2>3, <3>1 DEF PacketWait
    <3>2. CASE first'[m] # first[m]
      BY <1>4, <2>2, <3>2 DEF PacketWait
    <3> QED
      BY <3>1, <3>2
  <2> QED
    BY <2>4, <2>5
<1> QED
  BY <1>5, <1>6 DEF WaitInv

\* A watchdog tick that breaks nothing has found no wait longer than a timeout.
LEMMA WaitRearm ==
  ASSUME TypeOK, WaitInv, WatchdogTick
  PROVE  WaitInv'
<1>1. UNCHANGED <<pc, first, last, ready>> /\ timer' = 0 /\ pc = "running"
  BY DEF WatchdogTick, WatchdogRearms, WatchdogDue, SameCycle
<1>2. ASSUME NEW m \in Medium
      PROVE  SourceWait(m)' /\ PacketWait(m)'
  <2>1. /\ m \notin ready => ~WaitedOn(Ingress[m])
        /\ ~SourceAbsent(m)
        /\ m \in ready /\ Egress[m] \notin ready => ~WaitedOn(m)
    BY ChecksPassed DEF MediumFails
  <2>2. m \in InputStage /\ Ingress[m] \in InputStage /\ Ingress[m] \in Stage
    BY StageFacts
  <2> QED
    BY <1>1, <2>1, <2>2, AgesAreNumbers DEF SourceWait, PacketWait, WaitedOn, SourceAbsent
<1> QED
  BY <1>1, <1>2 DEF WaitInv, FirstInv

\* Time ages the timer with what is waited for.
LEMMA WaitTick ==
  ASSUME TypeOK, WaitInv, Tick
  PROVE  WaitInv'
<1> SUFFICES ASSUME pc = "running"
             PROVE  /\ FirstInv(InputStage, OutputStage)'
                    /\ \A m \in Medium : SourceWait(m)' /\ PacketWait(m)'
  BY DEF Tick, PassTick, loopVars, WaitInv
<1>0. ProbesType(Stage, InputStage) /\ PassTick /\ ready' = ready
  BY ProbesOK DEF Tick, PassTick, loopVars, cycleVars
<1>1. timer' = timer + 1
  BY <1>0, TimerTicks
<1>2. \A s \in Stage : last'[s] \in Nat /\ last'[s] <= last[s] + 1
  BY <1>0, OlderType, ConstantsOK
     DEF PassTick, AgeAll, ProbesType, Age, Constants, HorizonAssumption
<1>3. \A s \in InputStage : /\ first[s] = Never => first'[s] = Never
                            /\ first[s] # Never => first'[s] \in Nat /\ first'[s] # Never
                                                   /\ first'[s] <= first[s] + 1
  <2> SUFFICES ASSUME NEW s \in InputStage
               PROVE  /\ first[s] = Never => first'[s] = Never
                      /\ first[s] # Never => first'[s] \in Nat /\ first'[s] # Never
                                             /\ first'[s] <= first[s] + 1
    OBVIOUS
  <2>1. first'[s] = Aged(first[s]) /\ first[s] \in Age \union {Never} /\ Age \subseteq Nat
    BY <1>0, ConstantsOK DEF PassTick, AgeAll, ProbesType, Age, Constants, HorizonAssumption
  <2> QED
    BY <2>1, OlderType, NeverIsNothing DEF Aged
<1>4. FirstInv(InputStage, OutputStage)'
  BY <1>0, <1>3 DEF WaitInv, FirstInv
<1>5. ASSUME NEW m \in Medium
      PROVE  SourceWait(m)' /\ PacketWait(m)'
  <2>1. m \in InputStage /\ Ingress[m] \in InputStage /\ Ingress[m] \in Stage
    BY StageFacts
  <2>2. SourceWait(m) /\ PacketWait(m)
    BY DEF WaitInv
  <2> QED
    BY <1>0, <1>1, <1>2, <1>3, <2>1, <2>2, AgesAreNumbers DEF SourceWait, PacketWait
<1> QED
  BY <1>4, <1>5

\* Every other step starts, leaves or does not touch the wait.
LEMMA WaitElsewhere ==
  ASSUME TypeOK, HealthInv, WaitInv,
         \/ Starting \/ Restart \/ BackoffElapsed \/ Shutdown \/ HearTerminal
         \/ \E i \in 1..15 : WatchdogBreak(i)
         \/ PollShutdown \/ Environment \/ UNCHANGED vars
  PROVE  WaitInv'
<1>1. CASE StartPipeline
  <2>1. /\ \A s \in InputStage : first'[s] = Never
        /\ \A s \in Stage : last'[s] = 0
        /\ timer' = MonitorInterval
    BY <1>1 DEF StartPipeline, Start, HealthInv, LoopInv, CleanInv, TypeOK
  <2>2. ASSUME NEW m \in Medium
        PROVE  SourceWait(m)' /\ PacketWait(m)'
    <3>1. m \in InputStage /\ Ingress[m] \in InputStage /\ Ingress[m] \in Stage
      BY StageFacts
    <3> QED
      BY <2>1, <3>1, AgesAreNumbers DEF SourceWait, PacketWait
  <2> QED
    BY <2>1, <2>2 DEF WaitInv, FirstInv
<1>2. CASE \/ (Starting /\ ~StartPipeline) \/ Restart \/ BackoffElapsed \/ Shutdown
           \/ HearTerminal \/ \E i \in 1..15 : WatchdogBreak(i)
  <2>1. pc' # "running"
    BY <1>2
       DEF Starting, ResolveInterface, Resolve, ResolveFails, ResolveError, ConstructPipeline,
           Construct, ConstructRetriesInSoftware, RetryAtOnce, ConstructFails, RetryLater,
           StartFails, StartError, Restart, EndCycle, BackoffElapsed, BackoffOver, Shutdown,
           Stop, FailAndBackOff, HearTerminal, WatchdogBreak, BreakLoop
  <2> QED
    BY <2>1 DEF WaitInv
<1>3. CASE PollShutdown \/ Environment \/ UNCHANGED vars
  <2>1. UNCHANGED <<first, last, timer, ready>> /\ pc' \in {pc, "killed"}
    BY <1>3
       DEF PollShutdown, PollShutdownFuture, Environment, Buffer, PassBuffer, PostTerminal,
           PostEvent, SourceToggles, RouteChanges, ChangeRoute, Settle, SettleDown, Terminate,
           Sigterm, vars, loopVars, cycleVars, probeVars
  <2> QED
    BY <2>1 DEF WaitInv, FirstInv, SourceWait, PacketWait
<1> QED
  BY <1>1, <1>2, <1>3

LEMMA WaitHolds == Spec => []WaitInv
<1>1. Init => WaitInv
  BY DEF Init, LoopInit, WaitInv
<1>2. TypeOK /\ HealthInv /\ WaitInv /\ [Next]_vars => WaitInv'
  BY WaitHear, WaitRearm, WaitTick, WaitElsewhere DEF Next, Watchdog, Terminated
<1> QED
  BY <1>1, <1>2, TypeCorrect, HealthHolds, PTL DEF Spec

\* A cycle never waits for the source's first frame, the first encoded frame or
\* the first packet longer than one timeout and one watchdog period.
THEOREM NoWaitIsSilent == Spec => []NoSilentWait
<1>1. TypeOK /\ HealthInv /\ WaitInv => NoSilentWait
  <2> SUFFICES ASSUME TypeOK, HealthInv, WaitInv, pc = "running", NEW m \in Medium
               PROVE  LET limit == MediaTimeout + MonitorInterval
                          waited(s) == first[s] # Never /\ first[s] > limit
                      IN  IF m \notin ready
                          THEN ~waited(Ingress[m])
                               /\ (first[Ingress[m]] = Never => last[Ingress[m]] <= limit)
                          ELSE Egress[m] \notin ready => ~waited(m)
    BY DEF NoSilentWait
  <2>1. timer <= MonitorInterval /\ SourceWait(m) /\ PacketWait(m)
    BY DEF HealthInv, LoopInv, TimerInv, WaitInv
  <2>2. m \in InputStage /\ Ingress[m] \in InputStage /\ Ingress[m] \in Stage
    BY StageFacts
  <2> QED
    BY <2>1, <2>2, AgesAreNumbers DEF SourceWait, PacketWait
<1> QED
  BY <1>1, TypeCorrect, HealthHolds, WaitHolds, PTL

-----------------------------------------------------------------------------
\* No false alarm

\* The strengthening of CalmCycleKeepsRunning.  The environment of a calm cycle
\* is settled, and every stage has delivered in every tick: what the supervisor
\* has not read is younger than the lag, so no check of the watchdog fails.
CalmCycle == calm /\ ~FaultyEncoderInUse /\ ~MmapBrokenInUse /\ ~JpegOddInUse

CalmInv ==
    /\ CalmPhase
    /\ settled => capturing
    /\ CalmCycle => pc # "ending"
    /\ CalmCycle /\ pc = "running" => terminal = Never /\ CalmProbes(Stage, InputStage)
    /\ pc = "running" => FirstInv(InputStage, OutputStage)

\* The two definitions of having heard of a stage are the same.
LEMMA HeardMeans == \A s : HeardBefore(s) <=> Heard(InputStage, s)
  BY DEF HeardBefore, Heard

\* In a calm cycle every stage owes a buffer in every tick, so when time goes
\* on all have delivered: the stages of a medium, one after the other.
LEMMA CalmTickDelivers ==
  ASSUME TypeOK, settled, capturing, CalmCycle, pc = "running", Tick
  PROVE  \A s \in Stage : DeliveredNow(s, Heard(InputStage, s))
<1>1. \A s \in Stage : ~Owes(s)
  BY DEF Tick
<1>2. SteadyStage = Stage /\ \A s \in Stage : ~Hung(s)
  BY DEF SteadyStage, Hung, MayHang, CalmCycle
<1>3. \A s \in IngressStage : Delivered(s)
  BY <1>1, <1>2, StageFacts DEF Owes, CanDeliver, CalmCycle
<1>4. ASSUME NEW s \in Stage \ IngressStage, Delivered(Upstream[s])
      PROVE  Delivered(s)
  <2>1. Reached(Upstream[s])
    BY <1>4 DEF Delivered, DeliveredNow, Reached
  <2> QED
    BY <1>1, <1>2, <1>4, <2>1 DEF Owes, CanDeliver
<1>5. ASSUME NEW m \in Medium
      PROVE  Delivered(Ingress[m]) /\ Delivered(m) /\ Delivered(Egress[m])
  <2>1. Delivered(Ingress[m])
    BY <1>3, StageFacts
  <2>2. Delivered(m)
    BY <1>4, <2>1, StageFacts, UpstreamFacts
  <2>3. Delivered(Egress[m])
    BY <1>4, <2>2, StageFacts, UpstreamFacts
  <2> QED
    BY <2>1, <2>2, <2>3
<1>6. \A s \in Stage : Delivered(s)
  BY <1>5, StageFacts
<1> QED
  BY <1>6, HeardMeans DEF Delivered

\* In a calm cycle no check of the watchdog fails.
LEMMA CalmChecks ==
  ASSUME TypeOK, CalmInv, CalmCycle, pc = "running", NEW i \in 1..15
  PROVE  ~Fails(WatchdogOrder[i])
<1>0. ProbesType(Stage, InputStage) /\ CalmProbes(Stage, InputStage) /\ ~InterfaceChanged
  BY ProbesOK DEF CalmCycle, CalmInv, CalmPhase, InterfaceChanged
<1>1. \A s \in Stage : ~Stalled(s) /\ ~(last[s] > MediaTimeout)
  BY <1>0, CalmBound, AgesAreNumbers
<1>2. \A s \in OutputStage \ ready : \A j \in InputStage : ~WaitedOn(j)
  <2> SUFFICES ASSUME NEW s \in OutputStage \ ready, NEW j \in InputStage, first[j] # Never
               PROVE  ~(first[j] > MediaTimeout)
    BY DEF WaitedOn
  <2>1. ~Heard(InputStage, s)
    BY DEF Heard, CalmInv, FirstInv
  <2> QED
    BY <1>0, <2>1, CalmBound, StageFacts
<1>3. ASSUME NEW m \in Medium
      PROVE  /\ ~MediumFails("processing_silent", m) /\ ~MediumFails("source_stopped", m)
             /\ ~MediumFails("source_absent", m) /\ ~MediumFails("packetizer_silent", m)
             /\ ~MediumFails("processing_stalled", m) /\ ~MediumFails("stream_stalled", m)
             /\ ~MediumFails("egress_stalled", m)
  <2>1. /\ m \in InputStage /\ m \in OutputStage /\ Egress[m] \in OutputStage
        /\ Ingress[m] \in InputStage /\ Ingress[m] \in Stage
        /\ m \in Stage /\ Egress[m] \in Stage
    BY StageFacts
  <2> QED
    BY <1>1, <1>2, <2>1 DEF MediumFails, SourceAbsent
<1>4. ASSUME NEW check \in {"processing_silent", "source_stopped", "source_absent",
                            "packetizer_silent", "processing_stalled", "stream_stalled",
                            "egress_stalled"}, NEW m
      PROVE  ~Fails(<<check, m>>)
  BY <1>3, <1>4 DEF Fails
<1>5. ~Fails(<<"interface_changed", "network">>)
  BY <1>0 DEF Fails
<1>6. \/ i = 1 \/ i = 2 \/ i = 3 \/ i = 4 \/ i = 5 \/ i = 6 \/ i = 7 \/ i = 8
      \/ i = 9 \/ i = 10 \/ i = 11 \/ i = 12 \/ i = 13 \/ i = 14 \/ i = 15
  OBVIOUS
<1>7. /\ ~Fails(WatchdogOrder[1]) /\ ~Fails(WatchdogOrder[2]) /\ ~Fails(WatchdogOrder[3])
      /\ ~Fails(WatchdogOrder[4]) /\ ~Fails(WatchdogOrder[5]) /\ ~Fails(WatchdogOrder[6])
      /\ ~Fails(WatchdogOrder[7]) /\ ~Fails(WatchdogOrder[8]) /\ ~Fails(WatchdogOrder[9])
  BY <1>4, <1>5, OrderFacts, Zenon
<1>8. /\ ~Fails(WatchdogOrder[10]) /\ ~Fails(WatchdogOrder[11]) /\ ~Fails(WatchdogOrder[12])
      /\ ~Fails(WatchdogOrder[13]) /\ ~Fails(WatchdogOrder[14]) /\ ~Fails(WatchdogOrder[15])
  BY <1>4, OrderFacts, Zenon
<1> QED
  BY <1>6, <1>7, <1>8, Zenon

\* Steps outside the select loop; a pipeline starts calm.
LEMMA CalmOutside ==
  ASSUME TypeOK, HealthInv, CalmInv, Starting \/ Restart \/ BackoffElapsed \/ Shutdown
  PROVE  CalmInv'
<1>0. ProbesType(Stage, InputStage) /\ CleanInv(Stage, InputStage)
  BY ProbesOK DEF HealthInv, LoopInv
<1>1. CalmPhase'
  BY OutsideSteps, PhaseOutside DEF CalmInv
<1>2. (settled' <=> settled) /\ (capturing' <=> capturing)
  BY DEF Starting, ResolveInterface, Resolve, ResolveFails, ResolveError, ConstructPipeline,
         Construct, ConstructRetriesInSoftware, RetryAtOnce, ConstructFails, RetryLater,
         StartPipeline, Start, StartFails, StartError, Restart, EndCycle, BackoffElapsed,
         BackoffOver, Shutdown, Stop, envVars, txVars, usage, fallbacks
<1>3. CASE StartPipeline
  <2>1. CalmProbes(Stage, InputStage)' /\ pc' = "running" /\ terminal' = Never
    BY <1>0, <1>3, CalmStart DEF StartPipeline, Start, CleanInv
  <2>2. FirstInv(InputStage, OutputStage)'
    BY <1>0, <1>3 DEF StartPipeline, Start, CleanInv, FirstInv
  <2> QED
    BY <1>1, <1>2, <2>1, <2>2 DEF CalmInv
<1>4. CASE ~StartPipeline
  <2>1. pc' \notin {"running", "ending"}
    BY <1>4
       DEF Starting, ResolveInterface, Resolve, ResolveFails, ResolveError, ConstructPipeline,
           Construct, ConstructRetriesInSoftware, RetryAtOnce, ConstructFails, RetryLater,
           StartFails, StartError, Restart, EndCycle, BackoffElapsed, BackoffOver, Shutdown,
           Stop, FailAndBackOff
  <2> QED
    BY <1>1, <1>2, <2>1 DEF CalmInv
<1> QED
  BY <1>3, <1>4

\* A heartbeat is read.
LEMMA CalmHear ==
  ASSUME TypeOK, CalmInv, Hear
  PROVE  CalmInv'
<1>0. ProbesType(Stage, InputStage)
  BY ProbesOK
<1>1. PICK s \in Stage : HearsStage(s)
  BY HearSteps
<1>2. CalmPhase'
  BY <1>1, PhaseWithin DEF HearsStage, CalmInv
<1>3. UNCHANGED <<pc, calm, terminal, settled, capturing, usage>>
  BY <1>1 DEF HearsStage, HearUnchanged, envVars, txVars, usage, fallbacks
<1>4. FirstInv(InputStage, OutputStage)'
  BY <1>1 DEF HearsStage, CalmInv, FirstInv
<1>5. Heard(InputStage, s)'
  BY <1>1, StageFacts DEF HearsStage, Heard, Stage, InputStage, OutputStage
<1>6. CalmProbes(Stage, InputStage) => CalmProbes(Stage, InputStage)'
  BY <1>0, <1>1, <1>5, CalmRead DEF HearsStage
<1> QED
  BY <1>2, <1>3, <1>4, <1>6 DEF CalmInv, CalmCycle, usage, FaultyEncoderInUse, MmapBrokenInUse,
                                JpegOddInUse

\* The watchdog and the terminal events do not break a calm cycle.
LEMMA CalmWatchdog ==
  ASSUME TypeOK, CalmInv, Watchdog \/ HearTerminal
  PROVE  CalmInv'
<1>1. UNCHANGED <<pending, first, last, ready, terminal, settled, capturing, usage, calm>>
  BY DEF Watchdog, WatchdogTick, WatchdogBreak, WatchdogRearms, HearTerminal, BreakLoop,
         SameCycle, envVars, txVars, usage, fallbacks
<1>2. CalmPhase'
  <2>1. WatchdogRearms \/ \E why : BreakLoop(why)
    BY DEF Watchdog, WatchdogTick, WatchdogBreak, HearTerminal
  <2> QED
    BY <2>1, PhaseWithin DEF CalmInv
<1>3. CASE WatchdogTick
  <2>1. pc' = pc
    BY <1>3 DEF WatchdogTick, WatchdogRearms
  <2>2. CalmProbes(Stage, InputStage) => CalmProbes(Stage, InputStage)'
    BY <1>1 DEF CalmProbes, CalmStage, Heard, Unread
  <2> QED
    BY <1>1, <1>2, <2>1, <2>2 DEF CalmInv, CalmCycle, usage, FaultyEncoderInUse,
                                  MmapBrokenInUse, JpegOddInUse, FirstInv
<1>4. CASE HearTerminal \/ \E i \in 1..15 : WatchdogBreak(i)
  <2>1. ~CalmCycle
    BY <1>4, CalmChecks DEF HearTerminal, WatchdogBreak, BreaksAt, BreakLoop, CalmInv
  <2>2. ~CalmCycle' /\ pc' = "ending"
    BY <1>1, <1>4, <2>1 DEF CalmCycle, usage, FaultyEncoderInUse, MmapBrokenInUse,
                            JpegOddInUse, HearTerminal, WatchdogBreak, BreakLoop
  <2> QED
    BY <1>1, <1>2, <2>2 DEF CalmInv
<1> QED
  BY <1>3, <1>4 DEF Watchdog

\* Time, polling for the signal, and the environment.
LEMMA CalmAround ==
  ASSUME TypeOK, CalmInv, PollShutdown \/ Tick \/ Environment
  PROVE  CalmInv'
<1>0. ProbesType(Stage, InputStage)
  BY ProbesOK
<1>1. CalmPhase'
  BY AroundSteps, PhaseWithin DEF CalmInv
<1>2. UNCHANGED <<calm, ready, usage>> /\ pc' \in {pc, "killed"}
  BY DEF PollShutdown, PollShutdownFuture, Tick, PassTick, Environment, Buffer, PassBuffer,
         PostTerminal, PostEvent, SourceToggles, RouteChanges, ChangeRoute, Settle,
         SettleDown, Terminate, Sigterm, loopVars, cycleVars, txVars, usage, fallbacks
<1>3. settled' => capturing'
  BY DEF CalmInv, PollShutdown, PollShutdownFuture, Tick, PassTick, Environment, Buffer,
         PassBuffer, PostTerminal, PostEvent, SourceToggles, RouteChanges, ChangeRoute,
         Settle, SettleDown, Terminate, Sigterm, loopVars, envVars, txVars
<1>4. pc' = "running" => FirstInv(InputStage, OutputStage)'
  <2>1. CASE Tick
    BY <1>0, <1>2, <2>1 DEF CalmInv, FirstInv, Tick, PassTick, AgeAll, Aged, ProbesType
  <2>2. CASE ~Tick
    BY <1>2, <2>2
       DEF CalmInv, FirstInv, PollShutdown, PollShutdownFuture, Environment, Buffer, PassBuffer,
           PostTerminal, PostEvent, SourceToggles, RouteChanges, ChangeRoute, Settle,
           SettleDown, Terminate, Sigterm, loopVars, cycleVars, probeVars
  <2> QED
    BY <2>1, <2>2
<1>5. ASSUME CalmCycle, pc = "running"
      PROVE  terminal' = Never
  <2>1. settled
    BY <1>5 DEF CalmCycle, CalmInv, CalmPhase
  <2>2. ASSUME NEW why \in TerminalReason, PostTerminal(why)
        PROVE  FALSE
    BY <1>5, <2>1, <2>2 DEF PostTerminal, MayFail, CalmCycle
  <2>3. terminal' = terminal
    BY <2>2
       DEF PollShutdown, PollShutdownFuture, Tick, PassTick, Environment, Buffer, PassBuffer,
           SourceToggles, RouteChanges, ChangeRoute, Settle, SettleDown, Terminate,
           Sigterm, loopVars
  <2> QED
    BY <1>5, <2>3 DEF CalmInv
<1>6. ASSUME CalmCycle, pc = "running"
      PROVE  CalmProbes(Stage, InputStage)'
  <2>0. CalmProbes(Stage, InputStage)
    BY <1>6 DEF CalmInv
  <2>1. CASE Tick
    <3>1. settled /\ capturing
      BY <1>6 DEF CalmCycle, CalmInv, CalmPhase
    <3> QED
      BY <1>0, <1>6, <2>0, <2>1, <3>1, CalmTickDelivers, CalmTick DEF Tick, CalmCycle
  <2>2. ASSUME NEW s \in Stage, Buffer(s)
        PROVE  CalmProbes(Stage, InputStage)'
    BY <1>0, <2>0, <2>2, CalmBuffer DEF Buffer
  <2>3. CASE PollShutdown \/ SourceToggles \/ RouteChanges \/ Settle \/ Terminate
             \/ \E why \in TerminalReason : PostTerminal(why)
    <3>1. UNCHANGED <<probeVars, ready>>
      BY <2>3
         DEF PollShutdown, PollShutdownFuture, SourceToggles, RouteChanges, ChangeRoute,
             Settle, SettleDown, Terminate, Sigterm, PostTerminal, PostEvent, loopVars, cycleVars
    <3> QED
      BY <2>0, <3>1, CalmStutter
  <2> QED
    BY <2>1, <2>2, <2>3 DEF Environment
<1>7. (CalmCycle' <=> CalmCycle)
  BY <1>2 DEF CalmCycle, usage, FaultyEncoderInUse, MmapBrokenInUse, JpegOddInUse
<1> QED
  BY <1>1, <1>2, <1>3, <1>4, <1>5, <1>6, <1>7 DEF CalmInv

\* A cycle in which every stage delivers in every tick, and nothing else fails,
\* is never ended, for every lag shorter than the media timeout.
THEOREM NoFalseAlarm == Spec => []CalmCycleKeepsRunning
<1>1. Init => CalmInv
  BY DEF Init, LoopInit, CalmInv, CalmPhase, CalmCycle
<1>2. TypeOK /\ HealthInv /\ CalmInv /\ [Next]_vars => CalmInv'
  <2> SUFFICES ASSUME TypeOK, HealthInv, CalmInv, [Next]_vars
               PROVE  CalmInv'
    OBVIOUS
  <2>1. CASE UNCHANGED vars
    BY <2>1
       DEF vars, probeVars, loopVars, cycleVars, envVars, txVars, usage, fallbacks, CalmInv,
           CalmPhase,
           CalmCycle, usage, FaultyEncoderInUse, MmapBrokenInUse, JpegOddInUse, CalmProbes,
           CalmStage, Heard, Unread, FirstInv
  <2> QED
    BY <2>1, CalmOutside, CalmHear, CalmWatchdog, CalmAround DEF Next, Terminated
<1>3. CalmInv => CalmCycleKeepsRunning
  BY DEF CalmInv, CalmCycle, CalmCycleKeepsRunning
<1> QED
  BY <1>1, <1>2, <1>3, TypeCorrect, HealthHolds, PTL DEF Spec
=============================================================================
