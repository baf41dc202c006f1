------------------------- MODULE RxSupervisorProofs -------------------------
(***************************************************************************)
(* Theorems about the receiver's supervisor for every timeout, backoff,    *)
(* lag, set of interfaces and choice of decoder.                           *)
(***************************************************************************)
EXTENDS RxSupervisor, LoopProofs

\* How the stages are divided.
LEMMA StageFacts ==
  /\ IngressStage \subseteq Stage /\ InputStage \subseteq Stage
  /\ RenderStage \subseteq OutputStage /\ OutputStage \subseteq Stage
  /\ "video_codec" \in OutputStage /\ "video_codec" \in InputStage
  /\ "video_ingress" \in IngressStage /\ "video_ingress" \in InputStage
  /\ IngressStage \subseteq InputStage
  /\ \A s \in OutputStage : s = "video_codec" \/ s \in RenderStage
  /\ \A s \in Stage \ IngressStage : Upstream[s] \in InputStage
  /\ \A s \in RenderStage : s = "video" \/ (s = "audio" /\ AudioEnabled)
  /\ "video" \in RenderStage
  /\ AudioEnabled => "audio_ingress" \in IngressStage /\ "audio" \in RenderStage
  /\ InputStage \intersect OutputStage = {"video_codec"}
  /\ IngressStage \intersect OutputStage = {}
  /\ InputStage = IngressStage \union {"video_codec"}
  /\ "video_codec" \notin RenderStage /\ "video_codec" \notin IngressStage
  BY DEF IngressStage, InputStage, RenderStage, OutputStage, Stage, VideoStage, AudioStage,
         Upstream

-----------------------------------------------------------------------------
\* The steps of the receiver as steps of the loop

LoopOK == LoopType(Stage, InputStage, OutputStage, Reason, TerminalReason)

RxOK ==
    /\ forceSoftwareDecoder \in BOOLEAN
    /\ usesV4l2Decoder \in BOOLEAN
    /\ online \in BOOLEAN
    /\ offlineRestarts \in Nat

\* The type invariant is the loop's and that of the receiver's own variables.
LEMMA TypeSplit == (TypeOK <=> LoopOK /\ RxOK) /\ (TypeOK' <=> LoopOK' /\ RxOK')
  BY DEF TypeOK, LoopOK, RxOK, LoopType, ProbesType

LEMMA ProbesOK == TypeOK => ProbesType(Stage, InputStage)
  BY DEF TypeOK, ProbesType

\* The actions that start or end a cycle are steps outside the select loop.
LEMMA OutsideSteps == Starting \/ Restart \/ BackoffElapsed \/ Shutdown => Outside
  BY DEF Starting, ResolveInterface, ResolveFails, ConstructPipeline,
         ConstructRetriesInSoftware, ConstructFails, StartPipeline, StartFails, Restart,
         BackoffElapsed, Shutdown, Outside

\* The actions that are neither the code's handlers nor the end of a cycle.
LEMMA AroundSteps ==
  ASSUME PollShutdown \/ Tick \/ Environment
  PROVE  Around(Stage, TerminalReason) \/ (TransmitterToggles /\ UNCHANGED <<probeVars, loopVars>>)
BY DEF PollShutdown, Tick, Environment, Buffer, PostTerminal, TransmitterToggles, RouteChanges,
       Settle, Terminate, Around

\* The watchdog's checks and the terminal events that break the loop.
LEMMA BreakSteps ==
  ASSUME TypeOK, HearTerminal \/ \E i \in 1..8 : WatchdogBreak(i)
  PROVE  \E why \in Reason : BreakLoop(why)
<1>1. CASE HearTerminal
  BY <1>1 DEF HearTerminal, TypeOK, Reason
<1>2. ASSUME NEW i \in 1..8, WatchdogBreak(i)
      PROVE  \E why \in Reason : BreakLoop(why)
  BY <1>2 DEF WatchdogBreak, Reason, WatchdogReason
<1> QED
  BY <1>1, <1>2

\* record_input_heartbeat keeps the type of the first inputs.
LEMMA RecordType ==
  ASSUME ProbesType(Stage, InputStage), NEW s \in InputStage, pending[s] # Never,
         RecordInputHeartbeat(s)
  PROVE  /\ first' \in [InputStage -> Age \union {Never}]
         /\ \A i \in InputStage : first'[i] = first[i] \/ (i = s /\ first'[i] = pending[s].observed)
         /\ first'[s] # Never
<1>1. pending[s].observed \in Age
  BY BeatObserved, StageFacts DEF ProbesType
<1> QED
  BY <1>1, NeverIsNothing DEF ProbesType, RecordInputHeartbeat

\* What every heartbeat handler does.
HearsStage(s) ==
    /\ pc = "running"
    /\ Read(s)
    /\ HearUnchanged
    /\ UNCHANGED rxVars
    /\ ready' = (IF s \in OutputStage THEN ready \union {s} ELSE ready)
    /\ first' \in [InputStage -> Age \union {Never}]
    /\ \A i \in InputStage : first'[i] = first[i] \/ (i = s /\ first'[i] = pending[s].observed)
    /\ s \in InputStage => first'[s] # Never
    /\ UNCHANGED <<serviceReady, health>> \/ MarkReadyOnce(RenderStage \subseteq ready')

LEMMA HearSteps ==
  ASSUME TypeOK, Hear
  PROVE  \E s \in Stage : HearsStage(s)
<1>0. ProbesType(Stage, InputStage)
  BY ProbesOK
<1>1. ASSUME NEW s \in IngressStage, HearIngress(s)
      PROVE  HearsStage(s)
  BY <1>0, <1>1, StageFacts, RecordType DEF HearIngress, HearsStage, Read
<1>2. CASE HearCodec
  <2>1. HearsStage("video_codec")
    BY <1>0, <1>2, StageFacts, RecordType DEF HearCodec, HearsStage, Read
  <2> QED
    BY <2>1, StageFacts
<1>3. ASSUME NEW s \in RenderStage, HearRender(s)
      PROVE  HearsStage(s)
  <2>1. s \notin InputStage /\ s \in OutputStage
    BY StageFacts
  <2> QED
    BY <1>0, <1>3, <2>1 DEF HearRender, HearsStage, ProbesType
<1> QED
  BY <1>1, <1>2, <1>3, StageFacts DEF Hear

-----------------------------------------------------------------------------
\* Type correctness

\* Every step keeps the types of the receiver's own variables.
LEMMA RxTypes ==
  ASSUME TypeOK, Next
  PROVE  RxOK'
<1> USE DEF TypeOK, RxOK, codecVars, rxVars
<1>1. CASE Starting
  <2>1. SelectsV4l2 \in BOOLEAN
    BY RxAssumption DEF SelectsV4l2, AutoDecoder
  <2> QED
    BY <1>1, <2>1
       DEF Starting, ResolveInterface, ResolveFails, ConstructPipeline,
           ConstructRetriesInSoftware, ConstructFails, StartPipeline, StartFails,
           GiveUpHardwareIf, AutoDecoder
<1>2. CASE Hear
  BY <1>2 DEF Hear, HearIngress, HearCodec, HearRender
<1>3. CASE Watchdog \/ HearTerminal \/ Restart \/ BackoffElapsed
  BY <1>3 DEF Watchdog, WatchdogTick, WatchdogBreak, HearTerminal, Restart, GiveUpHardwareIf,
              AutoDecoder, BackoffElapsed
<1>4. CASE PollShutdown \/ Shutdown \/ Tick \/ Terminated
  BY <1>4 DEF PollShutdown, Shutdown, Tick, Terminated, vars
<1>5. CASE Environment /\ ~TransmitterToggles
  BY <1>5 DEF Environment, Buffer, PostTerminal, RouteChanges, Settle, Terminate
<1>6. CASE TransmitterToggles
  <2>1. online' \in BOOLEAN
    BY <1>6 DEF TransmitterToggles
  <2> QED
    BY <1>6, <2>1 DEF TransmitterToggles
<1> QED
  BY <1>1, <1>2, <1>3, <1>4, <1>5, <1>6 DEF Next

\* Every step keeps the types of the loop's variables.
LEMMA LoopTypes ==
  ASSUME TypeOK, [Next]_vars
  PROVE  LoopOK'
<1>0. LoopOK
  BY TypeSplit
<1>1. CASE Starting \/ Restart \/ BackoffElapsed \/ Shutdown
  BY <1>0, <1>1, OutsideSteps, OutsideType DEF LoopOK
<1>2. CASE Hear
  <2>1. PICK s \in Stage : HearsStage(s)
    BY <1>2, HearSteps
  <2>2. ready' \subseteq OutputStage /\ serviceReady' \in BOOLEAN /\ health' \in HealthState
    BY <2>1, ReadyType DEF HearsStage, TypeOK
  <2> QED
    BY <1>0, <2>1, <2>2, HearType DEF HearsStage, LoopOK
<1>3. CASE WatchdogTick
  BY <1>0, <1>3, RearmType DEF WatchdogTick, LoopOK
<1>4. CASE HearTerminal \/ \E i \in 1..8 : WatchdogBreak(i)
  BY <1>0, <1>4, BreakSteps, BreakType DEF LoopOK
<1>5. CASE PollShutdown \/ Tick \/ Environment
  BY <1>0, <1>5, AroundSteps, AroundType, StutterType DEF LoopOK
<1>6. CASE UNCHANGED vars
  BY <1>0, <1>6, StutterType DEF vars, LoopOK
<1> QED
  BY <1>1, <1>2, <1>3, <1>4, <1>5, <1>6 DEF Next, Watchdog, Terminated

\* Every reachable state of the supervisor is well typed.
THEOREM TypeCorrect == Spec => []TypeOK
<1>1. Init => TypeOK
  <2> SUFFICES ASSUME Init PROVE LoopOK /\ RxOK
    BY TypeSplit
  <2>1. LoopOK
    BY InitType DEF Init, LoopOK
  <2> QED
    BY <2>1 DEF Init, RxOK
<1>2. TypeOK /\ [Next]_vars => TypeOK'
  <2> SUFFICES ASSUME TypeOK, [Next]_vars
               PROVE  TypeOK'
    OBVIOUS
  <2>1. RxOK'
    <3>1. CASE UNCHANGED vars
      BY <3>1 DEF vars, rxVars, codecVars, TypeOK, RxOK
    <3> QED
      BY <3>1, RxTypes
  <2> QED
    BY <2>1, LoopTypes, TypeSplit
<1> QED
  BY <1>1, <1>2, PTL DEF Spec

-----------------------------------------------------------------------------
\* Fresh health

\* The strengthening of HealthIsFresh: the loop's invariant for the render
\* stages, which the watchdog checks last.
HealthInv == LoopInv(Stage, InputStage, RenderStage)

\* What a watchdog tick that breaks nothing has found in order.
LEMMA ChecksPassed ==
  ASSUME WatchdogTick
  PROVE  ~Fails("render_stalled") /\ ~Fails("audio_stalled")
<1>1. ~Fails(WatchdogOrder[7]) /\ ~Fails(WatchdogOrder[8])
  BY DEF WatchdogTick, WatchdogRearms
<1> QED
  BY <1>1 DEF WatchdogOrder

\* A watchdog tick that breaks nothing has seen no stalled render stage.
LEMMA NoStallAtTick ==
  ASSUME WatchdogTick
  PROVE  \A s \in RenderStage : ~Stalled(s)
<1>1. ~Stalled("video") /\ ~(AudioEnabled /\ Stalled("audio"))
  BY ChecksPassed DEF Fails
<1> QED
  BY <1>1, StageFacts

\* Every step keeps the loop's invariant.
LEMMA HealthStep ==
  ASSUME TypeOK, HealthInv, [Next]_vars
  PROVE  HealthInv'
<1>0. ProbesType(Stage, InputStage) /\ RenderStage \subseteq Stage
  BY ProbesOK, StageFacts
<1>1. CASE Starting \/ Restart \/ BackoffElapsed \/ Shutdown
  BY <1>0, <1>1, OutsideSteps, InvOutside DEF HealthInv
<1>2. CASE Hear
  <2>1. PICK s \in Stage : HearsStage(s)
    BY <1>2, HearSteps
  <2>2. \/ UNCHANGED <<serviceReady, health>>
        \/ serviceReady' /\ RenderStage \subseteq ready'
    BY <2>1, ReadyOnce DEF HearsStage
  <2> QED
    BY <1>0, <2>1, <2>2, InvHear DEF HearsStage, HealthInv
<1>3. CASE WatchdogTick
  BY <1>0, <1>3, NoStallAtTick, InvRearm DEF WatchdogTick, HealthInv
<1>4. CASE HearTerminal \/ \E i \in 1..8 : WatchdogBreak(i)
  BY <1>4, BreakSteps, InvBreak DEF HealthInv
<1>5. CASE PollShutdown \/ Tick \/ Environment
  BY <1>0, <1>5, AroundSteps, InvAround, InvStutter DEF HealthInv
<1>6. CASE UNCHANGED vars
  BY <1>6, InvStutter DEF vars, HealthInv
<1> QED
  BY <1>1, <1>2, <1>3, <1>4, <1>5, <1>6 DEF Next, Watchdog, Terminated

\* The loop's invariant holds in every reachable state.
LEMMA HealthHolds == Spec => []HealthInv
<1>1. Init => HealthInv
  BY InvInit DEF Init, HealthInv
<1>2. TypeOK /\ HealthInv /\ [Next]_vars => HealthInv'
  BY HealthStep
<1> QED
  BY <1>1, <1>2, TypeCorrect, PTL DEF Spec

\* A health of "ok" is never older than one timeout and one watchdog period.
THEOREM HealthFresh == Spec => []HealthIsFresh
<1>1. TypeOK /\ HealthInv => HealthIsFresh
  BY ProbesOK, StageFacts, HealthBound DEF HealthInv, HealthIsFresh
<1> QED
  BY <1>1, TypeCorrect, HealthHolds, PTL

-----------------------------------------------------------------------------
\* No false alarm

\* The strengthening of CalmCycleKeepsRunning.  The environment of a calm cycle
\* is settled, and every stage has delivered in every tick: what the supervisor
\* has not read is younger than the lag, so no check of the watchdog fails.
CalmCycle == calm /\ ~FaultyDecoderInUse

CalmInv ==
    /\ CalmPhase
    /\ settled => online
    /\ CalmCycle => pc # "ending"
    /\ CalmCycle /\ pc = "running" => terminal = Never /\ CalmProbes(Stage, InputStage)
    /\ pc = "running" => FirstInv(InputStage, OutputStage)

\* The two definitions of having heard of a stage are the same.
LEMMA HeardMeans == \A s : HeardBefore(s) <=> Heard(InputStage, s)
  BY DEF HeardBefore, Heard

\* In a calm cycle every stage owes a buffer in every tick, so when time goes
\* on all have delivered: the stages of a chain, one after the other.
LEMMA CalmTickDelivers ==
  ASSUME TypeOK, settled, online, ~FaultyDecoderInUse, pc = "running", Tick
  PROVE  \A s \in Stage : DeliveredNow(s, Heard(InputStage, s))
<1>1. \A s \in Stage : ~Owes(s)
  BY DEF Tick
<1>2. SteadyStage = Stage
  BY DEF SteadyStage
<1>3. \A s \in Stage : ~Hung(s)
  BY DEF Hung
<1>4. \A s \in IngressStage : Delivered(s)
  BY <1>1, <1>2, StageFacts DEF Owes, CanDeliver
<1>5. ASSUME NEW s \in Stage \ IngressStage, Delivered(Upstream[s])
      PROVE  Delivered(s)
  <2>1. Reached(Upstream[s])
    BY <1>5 DEF Delivered, DeliveredNow, Reached
  <2> QED
    BY <1>1, <1>2, <1>3, <1>5, <2>1 DEF Owes, CanDeliver
<1>6. Delivered("video_codec")
  <2>1. "video_codec" \in Stage \ IngressStage /\ Upstream["video_codec"] = "video_ingress"
    BY StageFacts DEF Upstream
  <2> QED
    BY <1>4, <1>5, <2>1, StageFacts
<1>7. Delivered("video")
  <2>1. "video" \in Stage \ IngressStage /\ Upstream["video"] = "video_codec"
    BY DEF Upstream, Stage, VideoStage, IngressStage
  <2> QED
    BY <1>5, <1>6, <2>1
<1>8. CASE AudioEnabled
  <2>1. /\ "audio" \in Stage \ IngressStage /\ Upstream["audio"] = "audio_ingress"
        /\ "audio_ingress" \in IngressStage
    BY <1>8 DEF Upstream, Stage, VideoStage, AudioStage, IngressStage
  <2>2. Delivered("audio")
    BY <1>4, <1>5, <2>1
  <2> QED
    BY <1>4, <1>6, <1>7, <1>8, <2>2, HeardMeans
       DEF Stage, VideoStage, AudioStage, IngressStage, Delivered
<1>9. CASE ~AudioEnabled
  BY <1>4, <1>6, <1>7, <1>9, HeardMeans
     DEF Stage, VideoStage, AudioStage, IngressStage, Delivered
<1> QED
  BY <1>8, <1>9

\* In a calm cycle no check of the watchdog fails.
LEMMA CalmChecks ==
  ASSUME TypeOK, CalmInv, CalmCycle, pc = "running", NEW i \in 1..8
  PROVE  ~Fails(WatchdogOrder[i])
<1>0. ProbesType(Stage, InputStage) /\ CalmProbes(Stage, InputStage) /\ ~InterfaceChanged
  BY ProbesOK DEF CalmCycle, CalmInv, CalmPhase, InterfaceChanged
<1>1. \A s \in Stage : ~Stalled(s)
  BY <1>0, CalmBound
<1>2. \A s \in OutputStage \ ready : \A j \in InputStage : ~MissingOutputWhileInputActive(j)
  <2> SUFFICES ASSUME NEW s \in OutputStage \ ready, NEW j \in InputStage, first[j] # Never
               PROVE  ~(first[j] > MediaTimeout)
    BY DEF MissingOutputWhileInputActive
  <2>1. ~Heard(InputStage, s)
    BY DEF Heard, CalmInv, FirstInv
  <2> QED
    BY <1>0, <2>1, CalmBound, StageFacts
<1>3. /\ ~Fails("interface_changed") /\ ~Fails("decoder_silent") /\ ~Fails("render_silent")
      /\ ~Fails("audio_silent") /\ ~Fails("decoder_stalled") /\ ~Fails("video_stream_stalled")
      /\ ~Fails("render_stalled") /\ ~Fails("audio_stalled")
  BY <1>0, <1>1, <1>2, StageFacts DEF Fails
<1>4. i = 1 \/ i = 2 \/ i = 3 \/ i = 4 \/ i = 5 \/ i = 6 \/ i = 7 \/ i = 8
  OBVIOUS
<1> QED
  BY <1>3, <1>4 DEF WatchdogOrder


\* Steps outside the select loop; a pipeline starts calm.
LEMMA CalmOutside ==
  ASSUME TypeOK, HealthInv, CalmInv, Starting \/ Restart \/ BackoffElapsed \/ Shutdown
  PROVE  CalmInv'
<1>0. ProbesType(Stage, InputStage) /\ CleanInv(Stage, InputStage)
  BY ProbesOK DEF HealthInv, LoopInv
<1>1. CalmPhase'
  BY OutsideSteps, PhaseOutside DEF CalmInv
<1>2. (settled' <=> settled) /\ (online' <=> online)
  BY DEF Starting, ResolveInterface, Resolve, ResolveFails, ResolveError, ConstructPipeline,
         Construct, ConstructRetriesInSoftware, RetryAtOnce, ConstructFails, RetryLater,
         StartPipeline, Start, StartFails, StartError, Restart, EndCycle, BackoffElapsed,
         BackoffOver, Shutdown, Stop, envVars, rxVars, codecVars
<1>3. CASE StartPipeline
  <2>1. CalmProbes(Stage, InputStage)' /\ pc' = "running" /\ terminal' = Never
    BY <1>0, <1>3, CalmStart DEF StartPipeline, Start, CleanInv
  <2>2. FirstInv(InputStage, OutputStage)'
    BY <1>0, <1>3 DEF StartPipeline, Start, CleanInv, FirstInv
  <2> QED
    BY <1>1, <1>2, <2>1, <2>2 DEF CalmInv
<1>4. CASE ~StartPipeline
  <2>1. pc' \notin {"running", "ending"}
    BY <1>4
       DEF Starting, ResolveInterface, Resolve, ResolveFails, ResolveError, ConstructPipeline,
           Construct, ConstructRetriesInSoftware, RetryAtOnce, ConstructFails, RetryLater,
           StartFails, StartError, Restart, EndCycle, BackoffElapsed, BackoffOver, Shutdown,
           Stop, FailAndBackOff
  <2> QED
    BY <1>1, <1>2, <2>1 DEF CalmInv
<1> QED
  BY <1>3, <1>4

\* A heartbeat is read.
LEMMA CalmHear ==
  ASSUME TypeOK, CalmInv, Hear
  PROVE  CalmInv'
<1>0. ProbesType(Stage, InputStage)
  BY ProbesOK
<1>1. PICK s \in Stage : HearsStage(s)
  BY HearSteps
<1>2. CalmPhase'
  BY <1>1, PhaseWithin DEF HearsStage, CalmInv
<1>3. UNCHANGED <<pc, calm, terminal, settled, online, usesV4l2Decoder>>
  BY <1>1 DEF HearsStage, HearUnchanged, envVars, rxVars, codecVars
<1>4. FirstInv(InputStage, OutputStage)'
  BY <1>1 DEF HearsStage, CalmInv, FirstInv
<1>5. Heard(InputStage, s)'
  BY <1>1, StageFacts DEF HearsStage, Heard, Stage, VideoStage, AudioStage, InputStage,
                          OutputStage
<1>6. CalmProbes(Stage, InputStage) => CalmProbes(Stage, InputStage)'
  BY <1>0, <1>1, <1>5, CalmRead DEF HearsStage
<1> QED
  BY <1>2, <1>3, <1>4, <1>6 DEF CalmInv, CalmCycle, FaultyDecoderInUse

\* The watchdog and the terminal events do not break a calm cycle.
LEMMA CalmWatchdog ==
  ASSUME TypeOK, CalmInv, Watchdog \/ HearTerminal
  PROVE  CalmInv'
<1>1. UNCHANGED <<pending, first, last, ready, terminal, settled, online, usesV4l2Decoder, calm>>
  BY DEF Watchdog, WatchdogTick, WatchdogBreak, WatchdogRearms, HearTerminal, BreakLoop,
         SameCycle, envVars, rxVars, codecVars
<1>2. CalmPhase'
  <2>1. WatchdogRearms \/ \E why : BreakLoop(why)
    BY DEF Watchdog, WatchdogTick, WatchdogBreak, HearTerminal
  <2> QED
    BY <2>1, PhaseWithin DEF CalmInv
<1>3. CASE WatchdogTick
  <2>1. pc' = pc
    BY <1>3 DEF WatchdogTick, WatchdogRearms
  <2>2. CalmProbes(Stage, InputStage) => CalmProbes(Stage, InputStage)'
    BY <1>1 DEF CalmProbes, CalmStage, Heard, Unread
  <2> QED
    BY <1>1, <1>2, <2>1, <2>2 DEF CalmInv, CalmCycle, FaultyDecoderInUse, FirstInv
<1>4. CASE HearTerminal \/ \E i \in 1..8 : WatchdogBreak(i)
  <2>1. ~CalmCycle
    BY <1>4, CalmChecks DEF HearTerminal, WatchdogBreak, BreaksAt, BreakLoop, CalmInv
  <2>2. ~CalmCycle' /\ pc' = "ending"
    BY <1>1, <1>4, <2>1 DEF CalmCycle, FaultyDecoderInUse, HearTerminal, WatchdogBreak, BreakLoop
  <2> QED
    BY <1>1, <1>2, <2>2 DEF CalmInv
<1> QED
  BY <1>3, <1>4 DEF Watchdog

\* Time, polling for the signal, and the environment.
LEMMA CalmAround ==
  ASSUME TypeOK, CalmInv, PollShutdown \/ Tick \/ Environment
  PROVE  CalmInv'
<1>0. ProbesType(Stage, InputStage)
  BY ProbesOK
<1>1. CalmPhase'
  BY AroundSteps, PhaseWithin DEF CalmInv
<1>2. UNCHANGED <<calm, ready, usesV4l2Decoder>> /\ pc' \in {pc, "killed"}
  BY DEF PollShutdown, PollShutdownFuture, Tick, PassTick, Environment, Buffer, PassBuffer,
         PostTerminal, PostEvent, TransmitterToggles, RouteChanges, ChangeRoute, Settle,
         SettleDown, Terminate, Sigterm, loopVars, cycleVars, rxVars, codecVars
<1>3. settled' => online'
  BY DEF CalmInv, PollShutdown, PollShutdownFuture, Tick, PassTick, Environment, Buffer,
         PassBuffer, PostTerminal, PostEvent, TransmitterToggles, RouteChanges, ChangeRoute,
         Settle, SettleDown, Terminate, Sigterm, loopVars, envVars, rxVars
<1>4. pc' = "running" => FirstInv(InputStage, OutputStage)'
  <2>1. CASE Tick
    BY <1>0, <1>2, <2>1 DEF CalmInv, FirstInv, Tick, PassTick, AgeAll, Aged, ProbesType
  <2>2. CASE ~Tick
    BY <1>2, <2>2
       DEF CalmInv, FirstInv, PollShutdown, PollShutdownFuture, Environment, Buffer, PassBuffer,
           PostTerminal, PostEvent, TransmitterToggles, RouteChanges, ChangeRoute, Settle,
           SettleDown, Terminate, Sigterm, loopVars, cycleVars, probeVars
  <2> QED
    BY <2>1, <2>2
<1>5. ASSUME CalmCycle, pc = "running"
      PROVE  terminal' = Never
  <2>1. settled
    BY <1>5 DEF CalmCycle, CalmInv, CalmPhase
  <2>2. ASSUME NEW why \in TerminalReason, PostTerminal(why)
        PROVE  FALSE
    BY <1>5, <2>1, <2>2 DEF PostTerminal, MayFail, CalmCycle
  <2>3. terminal' = terminal
    BY <2>2
       DEF PollShutdown, PollShutdownFuture, Tick, PassTick, Environment, Buffer, PassBuffer,
           TransmitterToggles, RouteChanges, ChangeRoute, Settle, SettleDown, Terminate,
           Sigterm, loopVars
  <2> QED
    BY <1>5, <2>3 DEF CalmInv
<1>6. ASSUME CalmCycle, pc = "running"
      PROVE  CalmProbes(Stage, InputStage)'
  <2>0. CalmProbes(Stage, InputStage)
    BY <1>6 DEF CalmInv
  <2>1. CASE Tick
    <3>1. settled /\ online
      BY <1>6 DEF CalmCycle, CalmInv, CalmPhase
    <3> QED
      BY <1>0, <1>6, <2>0, <2>1, <3>1, CalmTickDelivers, CalmTick DEF Tick, CalmCycle
  <2>2. ASSUME NEW s \in Stage, Buffer(s)
        PROVE  CalmProbes(Stage, InputStage)'
    BY <1>0, <2>0, <2>2, CalmBuffer DEF Buffer
  <2>3. CASE PollShutdown \/ TransmitterToggles \/ RouteChanges \/ Settle \/ Terminate
             \/ \E why \in TerminalReason : PostTerminal(why)
    <3>1. UNCHANGED <<probeVars, ready>>
      BY <2>3
         DEF PollShutdown, PollShutdownFuture, TransmitterToggles, RouteChanges, ChangeRoute,
             Settle, SettleDown, Terminate, Sigterm, PostTerminal, PostEvent, loopVars, cycleVars
    <3> QED
      BY <2>0, <3>1, CalmStutter
  <2> QED
    BY <2>1, <2>2, <2>3 DEF Environment
<1>7. (CalmCycle' <=> CalmCycle)
  BY <1>2 DEF CalmCycle, FaultyDecoderInUse
<1> QED
  BY <1>1, <1>2, <1>3, <1>4, <1>5, <1>6, <1>7 DEF CalmInv

\* A cycle in which every stage delivers in every tick, and nothing else fails,
\* is never ended, for every lag shorter than the media timeout.
THEOREM NoFalseAlarm == Spec => []CalmCycleKeepsRunning
<1>1. Init => CalmInv
  BY DEF Init, LoopInit, CalmInv, CalmPhase, CalmCycle
<1>2. TypeOK /\ HealthInv /\ CalmInv /\ [Next]_vars => CalmInv'
  <2> SUFFICES ASSUME TypeOK, HealthInv, CalmInv, [Next]_vars
               PROVE  CalmInv'
    OBVIOUS
  <2>1. CASE UNCHANGED vars
    BY <2>1
       DEF vars, probeVars, loopVars, cycleVars, envVars, rxVars, codecVars, CalmInv, CalmPhase,
           CalmCycle, FaultyDecoderInUse, CalmProbes, CalmStage, Heard, Unread, FirstInv
  <2> QED
    BY <2>1, CalmOutside, CalmHear, CalmWatchdog, CalmAround DEF Next, Terminated
<1>3. CalmInv => CalmCycleKeepsRunning
  BY DEF CalmInv, CalmCycle, CalmCycleKeepsRunning
<1> QED
  BY <1>1, <1>2, <1>3, TypeCorrect, HealthHolds, PTL DEF Spec

-----------------------------------------------------------------------------
\* At most one restart for an absent transmitter

\* Nothing has arrived in this cycle, and nothing is on its way.
Quiet ==
    /\ \A s \in Stage : pending[s] = Never
    /\ \A s \in InputStage : first[s] = Never
    /\ ready = {}

\* The strengthening of OfflineRestartsOnce: after the one restart the cycle is
\* quiet, and stays so until the transmitter is back.
OfflineInv ==
    /\ offlineRestarts > 0 => ~online
    /\ offlineRestarts <= 1
    /\ offlineRestarts > 0 /\ pc \notin {"ending", "killed"} => Quiet

\* In a quiet cycle the watchdog finds nothing missing: it treats media that
\* never came as a transmitter that has not started.
LEMMA QuietPasses ==
  ASSUME Quiet, NEW i \in 1..8, WatchdogOrder[i] \in MediaReason
  PROVE  ~Fails(WatchdogOrder[i])
<1>1. /\ WatchdogOrder[1] = "interface_changed" /\ WatchdogOrder[2] = "decoder_silent"
      /\ WatchdogOrder[3] = "render_silent" /\ WatchdogOrder[4] = "audio_silent"
      /\ WatchdogOrder[5] = "decoder_stalled" /\ WatchdogOrder[6] = "video_stream_stalled"
      /\ WatchdogOrder[7] = "render_stalled" /\ WatchdogOrder[8] = "audio_stalled"
  BY DEF WatchdogOrder
<1>2. ~MissingOutputWhileInputActive("video_ingress")
  BY StageFacts DEF Quiet, MissingOutputWhileInputActive
<1>3. ~(AudioEnabled /\ MissingOutputWhileInputActive("audio_ingress"))
  BY StageFacts DEF Quiet, MissingOutputWhileInputActive
<1>4. ~Fails("decoder_silent") /\ ~Fails("render_silent") /\ ~Fails("audio_silent")
  BY <1>2, <1>3 DEF Fails, Quiet
<1>5. /\ ~Fails("decoder_stalled") /\ ~Fails("video_stream_stalled")
      /\ ~Fails("render_stalled") /\ ~Fails("audio_stalled")
  BY DEF Fails, Quiet, Stalled
<1>6. i # 1
  BY <1>1 DEF MediaReason
<1>7. i = 2 \/ i = 3 \/ i = 4 \/ i = 5 \/ i = 6 \/ i = 7 \/ i = 8
  BY <1>6
<1> QED
  BY <1>1, <1>4, <1>5, <1>7

\* The transmitter offline, no stage of a quiet cycle can deliver.
LEMMA QuietStays ==
  ASSUME Quiet, ~online, NEW s \in Stage
  PROVE  ~Buffer(s)
<1>1. CASE s \in IngressStage
  BY <1>1 DEF Buffer, CanDeliver
<1>2. CASE s \notin IngressStage
  <2>1. Upstream[s] \in InputStage /\ Upstream[s] \in Stage
    BY <1>2, StageFacts
  <2>2. ~Reached(Upstream[s])
    BY <2>1 DEF Quiet, Reached, HeardBefore
  <2> QED
    BY <1>2, <2>2 DEF Buffer, CanDeliver
<1> QED
  BY <1>1, <1>2

\* Ends of cycles: the one media restart is counted, and Restart leaves the
\* next cycle quiet.
LEMMA OfflineOutside ==
  ASSUME TypeOK, OfflineInv,
         Starting \/ Watchdog \/ Restart \/ BackoffElapsed \/ HearTerminal \/ Shutdown
  PROVE  OfflineInv'
<1> USE DEF OfflineInv, Quiet, SameCycle, FailAndBackOff, codecVars, rxVars
<1>0. DOMAIN pending = Stage /\ DOMAIN first = InputStage
  BY DEF TypeOK
<1>1. CASE ResolveInterface
  BY <1>1 DEF ResolveInterface, Resolve
<1>2. CASE ResolveFails
  BY <1>2 DEF ResolveFails, ResolveError
<1>3. CASE ConstructPipeline
  BY <1>3 DEF ConstructPipeline, Construct
<1>4. CASE ConstructRetriesInSoftware
  BY <1>4 DEF ConstructRetriesInSoftware, RetryAtOnce, ConstructError
<1>5. CASE ConstructFails
  BY <1>5 DEF ConstructFails, RetryLater, ConstructError
<1>6. CASE StartPipeline
  BY <1>6 DEF StartPipeline, Start
<1>7. ASSUME NEW why \in TerminalReason, StartFails(why)
      PROVE  OfflineInv'
  BY <1>7 DEF StartFails, StartError
<1>8. CASE Restart
  BY <1>0, <1>8, StageFacts DEF Restart, EndCycle, DropCycle
<1>9. CASE BackoffElapsed
  BY <1>9 DEF BackoffElapsed, BackoffOver
<1>10. CASE HearTerminal
  BY <1>10 DEF HearTerminal, BreakLoop
<1>11. CASE Shutdown
  BY <1>0, <1>11, StageFacts DEF Shutdown, Stop, DropCycle
<1>12. ASSUME NEW i \in 1..8, WatchdogBreak(i)
       PROVE  OfflineInv'
  <2>1. CASE offlineRestarts > 0
    <3>1. WatchdogOrder[i] \notin MediaReason
      BY <1>12, <2>1, QuietPasses DEF WatchdogBreak, BreakLoop, BreaksAt
    <3> QED
      BY <1>12, <3>1 DEF WatchdogBreak, BreakLoop
  <2>2. CASE offlineRestarts = 0
    BY <1>12, <2>2 DEF WatchdogBreak, BreakLoop
  <2> QED
    BY <2>1, <2>2 DEF TypeOK
<1>13. CASE WatchdogTick
  BY <1>13 DEF WatchdogTick, WatchdogRearms
<1> QED
  BY <1>1, <1>2, <1>3, <1>4, <1>5, <1>6, <1>7, <1>8, <1>9, <1>10, <1>11, <1>12, <1>13
     DEF Starting, Watchdog

\* Within a cycle: a quiet one has nothing to read and nothing to age.
LEMMA OfflineWithin ==
  ASSUME TypeOK, OfflineInv, Hear \/ PollShutdown \/ Tick \/ Environment
  PROVE  OfflineInv'
<1> USE DEF OfflineInv, HearUnchanged, SameCycle, probeVars, envVars, loopVars, cycleVars,
            rxVars
<1>1. CASE Hear
  <2>1. offlineRestarts' = offlineRestarts /\ online' = online /\ pc' = pc /\ pc = "running"
    BY <1>1 DEF Hear, HearIngress, HearCodec, HearRender
  <2>2. ~Quiet
    BY <1>1, StageFacts DEF Hear, HearIngress, HearCodec, HearRender, Read, Quiet
  <2> QED
    BY <2>1, <2>2
<1>2. CASE PollShutdown
  BY <1>2 DEF PollShutdown, PollShutdownFuture, Quiet
<1>3. CASE Tick
  <2>1. Quiet => Quiet'
    BY <1>3, StageFacts DEF Tick, PassTick, AgeAll, Aged, Quiet, TypeOK
  <2> QED
    BY <1>3, <2>1 DEF Tick, PassTick
<1>4. ASSUME NEW s \in Stage, Buffer(s)
      PROVE  OfflineInv'
  BY <1>4, QuietStays DEF Buffer, PassBuffer
<1>5. ASSUME NEW why \in TerminalReason, PostTerminal(why)
      PROVE  OfflineInv'
  BY <1>5 DEF PostTerminal, PostEvent, Quiet
<1>6. CASE TransmitterToggles
  BY <1>6 DEF TransmitterToggles
<1>7. CASE RouteChanges
  BY <1>7 DEF RouteChanges, ChangeRoute, Quiet
<1>8. CASE Settle
  BY <1>8 DEF Settle, SettleDown, Quiet
<1>9. CASE Terminate
  <2>1. CASE armed
    BY <1>9, <2>1 DEF Terminate, Sigterm, Quiet
  <2>2. CASE ~armed
    BY <1>9, <2>2 DEF Terminate, Sigterm
  <2> QED
    BY <2>1, <2>2
<1> QED
  BY <1>1, <1>2, <1>3, <1>4, <1>5, <1>6, <1>7, <1>8, <1>9 DEF Environment

\* However long the transmitter is away, the watchdog restarts the receiver at
\* most once for it: the restart loop the code's comment rules out.
THEOREM OfflineOnce == Spec => []OfflineRestartsOnce
<1>1. Init => OfflineInv
  BY DEF Init, LoopInit, OfflineInv
<1>2. TypeOK /\ OfflineInv /\ [Next]_vars => OfflineInv'
  <2> SUFFICES ASSUME TypeOK, OfflineInv, [Next]_vars
               PROVE  OfflineInv'
    OBVIOUS
  <2>1. CASE UNCHANGED vars
    BY <2>1 DEF vars, probeVars, loopVars, cycleVars, signalVars, envVars, codecVars, rxVars,
                OfflineInv, Quiet
  <2> QED
    BY <2>1, OfflineOutside, OfflineWithin DEF Next, Terminated
<1>3. OfflineInv => OfflineRestartsOnce
  BY DEF OfflineInv, OfflineRestartsOnce
<1> QED
  BY <1>1, <1>2, <1>3, TypeCorrect, PTL DEF Spec

-----------------------------------------------------------------------------
\* One retry without backoff

\* The retry that skips the backoff uses up the choice of decoder for good.
THEOREM HotRetry == Spec => HotRetryOnce
<1>1. TypeOK /\ [Next]_vars =>
        [/\ forceSoftwareDecoder => forceSoftwareDecoder'
         /\ pc = "construct" /\ pc' = "resolve" =>
              ~forceSoftwareDecoder /\ forceSoftwareDecoder']_vars
  <2> SUFFICES ASSUME TypeOK, Next
               PROVE  /\ forceSoftwareDecoder => forceSoftwareDecoder'
                      /\ pc = "construct" /\ pc' = "resolve" =>
                           ~forceSoftwareDecoder /\ forceSoftwareDecoder'
    OBVIOUS
  <2>1. CASE Starting
    <3>1. CASE ResolveInterface \/ ResolveFails \/ ConstructPipeline \/ ConstructFails
               \/ StartPipeline
      BY <3>1 DEF ResolveInterface, Resolve, ResolveFails, ResolveError, ConstructPipeline,
                  Construct, ConstructFails, RetryLater, StartPipeline, Start,
                  FailAndBackOff, rxVars, codecVars
    <3>2. CASE ConstructRetriesInSoftware
      BY <3>2 DEF ConstructRetriesInSoftware
    <3>3. ASSUME NEW why \in TerminalReason, StartFails(why)
          PROVE  (forceSoftwareDecoder => forceSoftwareDecoder') /\ pc = "start"
      BY <3>3, Zenon DEF StartFails, StartError, GiveUpHardwareIf
    <3> QED
      BY <2>1, <3>1, <3>2, <3>3 DEF Starting
  <2>2. CASE Restart
    <3>1. (forceSoftwareDecoder => forceSoftwareDecoder') /\ pc = "ending"
      BY <2>2, Zenon DEF Restart, EndCycle, GiveUpHardwareIf
    <3> QED
      BY <3>1
  <2>3. CASE Hear \/ Watchdog \/ HearTerminal
    BY <2>3 DEF Hear, HearIngress, HearCodec, HearRender, Watchdog, WatchdogTick,
                WatchdogDue, WatchdogBreak, BreakLoop, HearTerminal, rxVars, codecVars
  <2>4. CASE BackoffElapsed \/ PollShutdown \/ Shutdown \/ Tick \/ Environment \/ Terminated
    BY <2>4 DEF BackoffElapsed, BackoffOver, PollShutdown, PollShutdownFuture, Shutdown, Stop,
                Tick, PassTick, Environment, Buffer, PassBuffer, PostTerminal, PostEvent,
                TransmitterToggles, RouteChanges, ChangeRoute, Settle, SettleDown, Terminate,
                Sigterm, Over, Terminated, vars, loopVars, rxVars, codecVars
  <2> QED
    BY <2>1, <2>2, <2>3, <2>4 DEF Next
<1> QED
  BY <1>1, TypeCorrect, PTL DEF Spec, HotRetryOnce
=============================================================================
