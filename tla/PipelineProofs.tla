--------------------------- MODULE PipelineProofs ---------------------------
(***************************************************************************)
(* The pipeline wrapper implements the terminal latch, for every capacity  *)
(* of its channel and every number and kind of messages.                   *)
(***************************************************************************)
EXTENDS Pipeline, SequenceTheorems, TLAPS

-----------------------------------------------------------------------------
\* The inductive invariant

\* The thread exists from the return of start to the drop of the pipeline, and
\* ends only when stop has raised its flag.
ThreadLife ==
    /\ supervisor \in {"idle", "starting"} => thread = "absent" /\ ~stopFlag
    /\ supervisor = "running" => thread # "absent"
    /\ stopFlag => supervisor \in {"stopping", "joining", "stopped"}
    /\ thread = "exited" => stopFlag
    /\ supervisor = "stopped" => thread \in {"absent", "exited"}

\* terminal_sent tells whether the channel has been written.
SentOnce ==
    /\ thread = "absent" => ~terminalSent
    /\ ~terminalSent => terminal = None

PipelineInv == TypeOK /\ ThreadLife /\ SentOnce

\* An empty bus is a bus.
LEMMA NothingIsTyped == <<>> \in Seq(Message) /\ Len(<<>>) <= BusEventCapacity
  BY PipelineAssumption

\* No message is the absent message.
LEMMA NoneIsNoMessage == None \notin Message
  BY PipelineAssumption DEF Message

\* Nothing has been built yet.
LEMMA InitInv == Init => PipelineInv
<1> SUFFICES ASSUME Init PROVE PipelineInv
  OBVIOUS
<1>1. TypeOK
  BY NothingIsTyped DEF Init, TypeOK, SupervisorState, ThreadState
<1> QED BY <1>1 DEF Init, PipelineInv, ThreadLife, SentOnce

\* What start leaves on the bus is part of what was there.
LEMMA PopToFirstErrorType ==
  ASSUME bus \in Seq(Message), PopToFirstError
  PROVE  bus' \in Seq(Message)
<1>1. CASE bus' = <<>>
  BY <1>1, NothingIsTyped
<1>2. CASE \E i \in DOMAIN bus : bus' = SubSeq(bus, i + 1, Len(bus))
  <2>1. PICK i \in DOMAIN bus : bus' = SubSeq(bus, i + 1, Len(bus))
    BY <1>2
  <2>2. i + 1 \in Int /\ Len(bus) \in Int /\ i >= 1
    OBVIOUS
  <2>3. \A k \in (i + 1)..Len(bus) : bus[k] \in Message
    BY <2>2
  <2>4. SubSeq(bus, i + 1, Len(bus)) \in Seq(Message)
    BY <2>2, <2>3, SubSeqProperties
  <2> QED BY <2>1, <2>4
<1> QED BY <1>1, <1>2 DEF PopToFirstError

\* Every step of the three actors keeps the invariant.
LEMMA NextInv == PipelineInv /\ [Next]_vars => PipelineInv'
<1> SUFFICES ASSUME PipelineInv, [Next]_vars
             PROVE  PipelineInv'
  OBVIOUS
<1> USE DEF PipelineInv, TypeOK, ThreadLife, SentOnce, SupervisorState, ThreadState,
            supervisorVars, busVars, threadVars, channelVars
<1>1. CASE BusThread
  <2>1. CASE ExitOnFlag \/ EnterPop \/ PopTimesOut
    BY <2>1 DEF ExitOnFlag, EnterPop, PopTimesOut
  <2>2. CASE Pop
    <3>1. Head(bus) \in Message /\ Tail(bus) \in Seq(Message)
      BY <2>2 DEF Pop
    <3> QED BY <2>2, <3>1, NoneIsNoMessage DEF Pop
  <2>3. CASE SkipTerminal \/ DropNotice \/ HandleSilent
    BY <2>3 DEF SkipTerminal, DropNotice, HandleSilent, Handled
  <2>4. CASE SendTerminal
    BY <2>4 DEF SendTerminal, Handled
  <2>5. CASE SendNotice
    <3>1. message \in Message
      BY <2>5 DEF SendNotice
    <3>2. busEvents' \in Seq(Message) /\ Len(busEvents') <= BusEventCapacity
      BY <2>5, <3>1, PipelineAssumption DEF SendNotice
    <3> QED BY <2>5, <3>2 DEF SendNotice, Handled
  <2> QED BY <1>1, <2>1, <2>2, <2>3, <2>4, <2>5 DEF BusThread
<1>2. CASE Supervisor
  <2>0. CASE SetPlaying
    BY <2>0 DEF SetPlaying
  <2>1. CASE StartReturns
    BY <2>1 DEF StartReturns
  <2>2. CASE StartFails
    BY <2>2, PopToFirstErrorType DEF StartFails
  <2>3. CASE SeeTerminal \/ Leave
    BY <2>3 DEF SeeTerminal, Leave
  <2>4. CASE RaiseStopFlag
    BY <2>4 DEF RaiseStopFlag
  <2>5. CASE FlushBus
    BY <2>5, NothingIsTyped DEF FlushBus
  <2>6. CASE StopReturns
    BY <2>6 DEF StopReturns, ThreadJoined
  <2>7. CASE DropPipeline
    BY <2>7, NothingIsTyped DEF DropPipeline
  <2>8. CASE ReceiveNotice
    <3>1. busEvents' \in Seq(Message) /\ Len(busEvents') <= BusEventCapacity
      BY <2>8, PipelineAssumption DEF ReceiveNotice
    <3> QED BY <2>8, <3>1 DEF ReceiveNotice
  <2> QED BY <1>2, <2>0, <2>1, <2>2, <2>3, <2>4, <2>5, <2>6, <2>7, <2>8 DEF Supervisor
<1>3. CASE \E kind \in Kinds : PostMessage(kind)
  <2>1. PICK kind \in Kinds : PostMessage(kind)
    BY <1>3
  <2> DEFINE m == [kind |-> kind, number |-> Len(posted) + 1]
  <2>2. m \in Message
    BY <2>1, PipelineAssumption DEF PostMessage, Message
  <2>3. bus' \in Seq(Message) /\ posted' \in Seq(Message)
    BY <2>1, <2>2 DEF PostMessage
  <2> QED BY <2>1, <2>3 DEF PostMessage
<1>4. CASE UNCHANGED vars
  BY <1>4 DEF vars
<1> QED BY <1>1, <1>2, <1>3, <1>4 DEF Next

\* The invariant holds throughout.
THEOREM Invariant == Spec => []PipelineInv
<1> QED BY InitInv, NextInv, PTL DEF Spec

-----------------------------------------------------------------------------
\* What follows from it

\* Every variable of the wrapper keeps its type, and the channel its bound.
THEOREM TypeCorrect == Spec => []TypeOK
<1>1. PipelineInv => TypeOK
  BY DEF PipelineInv
<1> QED BY <1>1, Invariant, PTL

\* The senders outlive the select loop: no branch of it finds its channel closed.
THEOREM SendersOutliveLoop == Spec => []NoSpuriousClose
<1>1. PipelineInv => NoSpuriousClose
  BY DEF PipelineInv, ThreadLife, NoSpuriousClose
<1> QED BY <1>1, Invariant, PTL

\* After stop nothing of the cycle runs any more.
THEOREM NothingAfterStop == Spec => []QuietAfterStop
<1>1. PipelineInv => QuietAfterStop
  BY DEF PipelineInv, ThreadLife, QuietAfterStop
<1> QED BY <1>1, Invariant, PTL

-----------------------------------------------------------------------------
\* The first terminal message

\* How many messages have left the bus; meaningful while it is Streaming: not
\* flushed, and not drained by a start that failed.
Popped == Len(posted) - Len(bus)
Streaming == ~flushing /\ (supervisor \in {"idle", "starting"} \/ thread # "absent")

\* The bus holds the latest messages posted, in their order.
OnTheBus ==
    /\ flushing => bus = <<>>
    /\ Streaming =>
         Len(bus) <= Len(posted) /\ \A i \in 1..Len(bus) : bus[i] = posted[Popped + i]

\* The thread handles the message it popped last.
InHand == Streaming /\ thread = "handling" => Popped >= 1 /\ message = posted[Popped]

\* Until the thread has sent one, every terminal message popped is in its hands.
PassedNone ==
    Streaming /\ ~terminalSent =>
        \A j \in 1..Popped : IsTerminal(posted[j]) => thread = "handling" /\ j = Popped

\* No terminal message was posted before m.
FirstUpTo(m) ==
    \E i \in DOMAIN posted : posted[i] = m /\ \A j \in 1..(i - 1) : ~IsTerminal(posted[j])

\* What the thread might send is the first.  This outlives a flush.
FirstInHand == thread = "handling" /\ ~terminalSent => FirstUpTo(message)

StreamInv == OnTheBus /\ InHand /\ PassedNone /\ FirstInHand /\ TerminalIsFirst

\* Nothing has been posted yet.
LEMMA StreamInit == Init => StreamInv
  BY DEF Init, StreamInv, OnTheBus, InHand, PassedNone, FirstInHand, TerminalIsFirst, Popped

\* Later messages change nothing about which came first.
LEMMA FirstStays ==
  ASSUME NEW m, NEW n, posted \in Seq(Message), posted' = Append(posted, n), FirstUpTo(m)
  PROVE  FirstUpTo(m)'
<1>1. PICK i \in DOMAIN posted :
        posted[i] = m /\ \A j \in 1..(i - 1) : ~IsTerminal(posted[j])
  BY DEF FirstUpTo
<1>2. /\ DOMAIN posted \subseteq DOMAIN posted'
      /\ \A j \in DOMAIN posted : posted'[j] = posted[j]
  OBVIOUS
<1>3. \A j \in 1..(i - 1) : j \in DOMAIN posted
  OBVIOUS
<1> QED BY <1>1, <1>2, <1>3 DEF FirstUpTo, IsTerminal

\* A step that neither posts, pops, nor sends keeps the invariant: at most it
\* ends the stream.
LEMMA StreamKept ==
  ASSUME StreamInv,
         UNCHANGED <<posted, terminalSent, terminal>>,
         flushing' => bus' = <<>>,
         Streaming' => Streaming /\ bus' = bus,
         thread' = "handling" <=> thread = "handling",
         message' = message
  PROVE  StreamInv'
<1> USE DEF StreamInv
<1>1. CASE Streaming'
  <2>1. Streaming /\ bus' = bus /\ Popped' = Popped
    BY <1>1 DEF Popped
  <2>2. OnTheBus'
    BY <2>1 DEF OnTheBus
  <2>3. InHand'
    BY <2>1 DEF InHand
  <2>4. PassedNone'
    BY <2>1 DEF PassedNone, IsTerminal
  <2> QED BY <2>2, <2>3, <2>4 DEF FirstInHand, FirstUpTo, TerminalIsFirst, IsTerminal
<1>2. CASE ~Streaming'
  BY <1>2 DEF OnTheBus, InHand, PassedNone, FirstInHand, FirstUpTo, TerminalIsFirst, IsTerminal
<1> QED BY <1>1, <1>2

\* The bus thread takes the messages in the order they were posted.
LEMMA StreamThread ==
  ASSUME PipelineInv, StreamInv, BusThread
  PROVE  StreamInv'
<1> USE DEF PipelineInv, TypeOK, StreamInv, Popped, Streaming, supervisorVars, busVars,
            threadVars, channelVars
<1>1. CASE ExitOnFlag \/ EnterPop \/ PopTimesOut
  <2>1. flushing' => bus' = <<>>
    BY <1>1 DEF ExitOnFlag, EnterPop, PopTimesOut, OnTheBus
  <2> QED BY <1>1, <2>1, StreamKept DEF ExitOnFlag, EnterPop, PopTimesOut
<1>2. CASE Pop
  <2>1. /\ Len(bus') = Len(bus) - 1
        /\ \A i \in 1..Len(bus') : bus'[i] = bus[i + 1]
        /\ message' = bus[1]
        /\ posted' = posted /\ UNCHANGED <<flushing, supervisor, terminalSent, terminal>>
        /\ thread = "popping" /\ thread' = "handling" /\ Len(bus) \in Nat \ {0}
    BY <1>2 DEF Pop
  <2>2. Streaming
    BY <1>2 DEF Pop, OnTheBus
  <2>3. Popped \in Nat /\ Popped' = Popped + 1 /\ Popped' \in DOMAIN posted
    BY <2>1, <2>2 DEF OnTheBus
  <2>4. message' = posted[Popped']
    BY <2>1, <2>2 DEF OnTheBus
  <2>5. OnTheBus' /\ InHand'
    <3>1. OnTheBus'
      BY <2>1, <2>2 DEF OnTheBus
    <3> QED BY <3>1, <2>1, <2>3, <2>4 DEF InHand
  <2> HIDE DEF Popped
  <2>6. ~terminalSent => \A j \in 1..Popped : ~IsTerminal(posted[j])
    BY <2>1, <2>2 DEF PassedNone
  <2>7. PassedNone'
    BY <2>1, <2>3, <2>6 DEF PassedNone, IsTerminal
  <2>8. FirstInHand'
    BY <2>1, <2>3, <2>4, <2>6 DEF FirstInHand, FirstUpTo, IsTerminal
  <2>9. TerminalIsFirst'
    BY <2>1 DEF TerminalIsFirst, IsTerminal
  <2> QED BY <2>5, <2>7, <2>8, <2>9
<1>3. CASE SkipTerminal \/ SendNotice \/ DropNotice \/ HandleSilent
  <2>1. /\ thread = "handling" /\ thread' = "looping"
        /\ UNCHANGED <<bus, posted, flushing, supervisor, terminalSent, terminal>>
        /\ terminalSent \/ ~IsTerminal(message)
    BY <1>3 DEF SkipTerminal, SendNotice, DropNotice, HandleSilent, Handled, IsTerminal,
                IsNotice, TerminalKind, NoticeKind, SilentKind
  <2>2. OnTheBus' /\ InHand' /\ FirstInHand' /\ TerminalIsFirst'
    BY <2>1 DEF OnTheBus, InHand, FirstInHand, TerminalIsFirst, IsTerminal
  <2>3. PassedNone'
    BY <2>1 DEF PassedNone, InHand, IsTerminal
  <2> QED BY <2>2, <2>3
<1>4. CASE SendTerminal
  <2>1. /\ thread = "handling" /\ thread' = "looping"
        /\ UNCHANGED <<bus, posted, flushing, supervisor>>
        /\ ~terminalSent /\ terminalSent' /\ terminal' = message
    BY <1>4 DEF SendTerminal, Handled
  <2>2. OnTheBus' /\ InHand' /\ PassedNone' /\ FirstInHand'
    BY <2>1 DEF OnTheBus, InHand, PassedNone, FirstInHand
  <2>3. TerminalIsFirst'
    BY <2>1 DEF FirstInHand, FirstUpTo, TerminalIsFirst, IsTerminal
  <2> QED BY <2>2, <2>3
<1> QED BY <1>1, <1>2, <1>3, <1>4 DEF BusThread

\* The supervisor only ends the stream, or begins a new one.
LEMMA StreamSupervisor ==
  ASSUME PipelineInv, StreamInv, Supervisor
  PROVE  StreamInv'
<1> USE DEF PipelineInv, TypeOK, ThreadLife, Streaming, supervisorVars, busVars, threadVars,
            channelVars
<1>0. flushing => bus = <<>>
  BY DEF StreamInv, OnTheBus
<1>1. CASE SetPlaying \/ StartReturns
  BY <1>0, <1>1, StreamKept DEF SetPlaying, StartReturns
<1>2. CASE StartFails
  <2>1. PopToFirstError /\ flushing => bus' = <<>>
    BY <1>0 DEF PopToFirstError
  <2> QED BY <2>1, <1>2, StreamKept DEF StartFails
<1>3. CASE SeeTerminal \/ ReceiveNotice \/ Leave
  BY <1>0, <1>3, StreamKept DEF SeeTerminal, ReceiveNotice, Leave
<1>4. CASE RaiseStopFlag \/ StopReturns
  BY <1>0, <1>4, StreamKept DEF RaiseStopFlag, StopReturns
<1>5. CASE FlushBus
  BY <1>5, StreamKept DEF FlushBus
<1>6. CASE DropPipeline
  BY <1>6 DEF DropPipeline, StreamInv, OnTheBus, InHand, PassedNone, FirstInHand,
              TerminalIsFirst, Popped
<1> QED BY <1>1, <1>2, <1>3, <1>4, <1>5, <1>6 DEF Supervisor

\* A message that is posted comes after all others.
LEMMA StreamPost ==
  ASSUME PipelineInv, StreamInv, NEW kind \in Kinds, PostMessage(kind)
  PROVE  StreamInv'
<1> DEFINE m == [kind |-> kind, number |-> Len(posted) + 1]
<1> USE DEF PipelineInv, TypeOK, StreamInv, Popped, Streaming, supervisorVars, threadVars,
            channelVars
<1>1. /\ bus' = Append(bus, m) /\ posted' = Append(posted, m)
      /\ UNCHANGED <<flushing, supervisor, thread, message, terminalSent, terminal>>
  BY DEF PostMessage
<1> HIDE DEF m
<1>2. /\ Len(bus') = Len(bus) + 1 /\ Len(posted') = Len(posted) + 1
      /\ bus'[Len(bus) + 1] = m /\ posted'[Len(posted) + 1] = m
      /\ \A i \in 1..Len(bus) : bus'[i] = bus[i]
      /\ \A i \in 1..Len(posted) : posted'[i] = posted[i]
      /\ Len(bus) \in Nat /\ Len(posted) \in Nat
  BY <1>1
<1>3. OnTheBus' /\ InHand' /\ PassedNone'
  <2>1. ~flushing /\ Popped' = Popped
    BY <1>2 DEF PostMessage
  <2>2. CASE ~Streaming
    BY <1>1, <2>1, <2>2 DEF OnTheBus, InHand, PassedNone
  <2>3. CASE Streaming
    <3>1. Popped \in Nat /\ Popped <= Len(posted)
      BY <1>2, <2>3 DEF OnTheBus
    <3>2. OnTheBus'
      <4>1. Len(bus') <= Len(posted') /\ ~flushing'
        BY <1>1, <1>2, <2>1, <2>3 DEF OnTheBus
      <4>2. ASSUME NEW i \in 1..Len(bus') PROVE bus'[i] = posted'[Popped' + i]
        <5>1. CASE i = Len(bus) + 1
          BY <5>1, <1>2, <2>1
        <5>2. CASE i \in 1..Len(bus)
          <6>1. bus[i] = posted[Popped + i] /\ Popped + i \in 1..Len(posted)
            BY <5>2, <1>2, <2>3 DEF OnTheBus
          <6> QED BY <6>1, <5>2, <1>2, <2>1
        <5> QED BY <5>1, <5>2, <1>2
      <4> QED BY <4>1, <4>2 DEF OnTheBus
    <3> HIDE DEF Popped
    <3>3. \A j \in 1..Popped : posted'[j] = posted[j]
      BY <1>2, <3>1
    <3> QED BY <1>1, <2>1, <2>3, <3>1, <3>2, <3>3 DEF InHand, PassedNone, IsTerminal
  <2> QED BY <2>2, <2>3
<1>4. FirstInHand'
  BY <1>1, FirstStays DEF FirstInHand
<1>5. TerminalIsFirst'
  BY <1>1, FirstStays DEF TerminalIsFirst, FirstUpTo
<1> QED BY <1>3, <1>4, <1>5

\* The event that ends a cycle is the first terminal message of the cycle.
THEOREM FirstTerminal == Spec => []TerminalIsFirst
<1>1. PipelineInv /\ StreamInv /\ [Next]_vars => StreamInv'
  <2> SUFFICES ASSUME PipelineInv, StreamInv, [Next]_vars
               PROVE  StreamInv'
    OBVIOUS
  <2>1. CASE UNCHANGED vars
    BY <2>1 DEF vars, supervisorVars, busVars, threadVars, channelVars, StreamInv, OnTheBus,
                InHand, PassedNone, FirstInHand, FirstUpTo, TerminalIsFirst, IsTerminal,
                Popped, Streaming
  <2> QED BY <2>1, StreamThread, StreamSupervisor, StreamPost DEF Next
<1>2. StreamInv => TerminalIsFirst
  BY DEF StreamInv
<1> QED BY StreamInit, <1>1, <1>2, Invariant, PTL DEF Spec

-----------------------------------------------------------------------------
\* Refinement

\* The initial states of the pipeline are initial states of the latch.
LEMMA LatchInit == Init => Latch!Init
  BY DEF Init, Latch!Init, Phase

\* Every step of the pipeline is a step of the latch, or none.
LEMMA LatchNext == PipelineInv /\ [Next]_vars => [Latch!Next]_(Latch!latchVars)
<1> SUFFICES ASSUME PipelineInv, [Next]_vars
             PROVE  [Latch!Next]_(Latch!latchVars)
  OBVIOUS
<1> USE DEF PipelineInv, TypeOK, ThreadLife, SentOnce, SupervisorState, ThreadState,
            supervisorVars, busVars, threadVars, channelVars,
            Phase, Latch!latchVars, Latch!Next
<1>1. CASE BusThread
  <2>1. CASE SendTerminal
    <3>1. Latch!Post(message)
      BY <2>1 DEF SendTerminal, Handled, Latch!Post
    <3> QED BY <3>1, <2>1 DEF SendTerminal
  <2>2. CASE ExitOnFlag \/ EnterPop \/ Pop \/ PopTimesOut
    BY <2>2 DEF ExitOnFlag, EnterPop, Pop, PopTimesOut
  <2>3. CASE SkipTerminal \/ SendNotice \/ DropNotice \/ HandleSilent
    BY <2>3 DEF SkipTerminal, SendNotice, DropNotice, HandleSilent, Handled
  <2> QED BY <1>1, <2>1, <2>2, <2>3 DEF BusThread
<1>2. CASE Supervisor
  <2>1. CASE StartReturns
    BY <2>1 DEF StartReturns, Latch!Begin
  <2>2. CASE SeeTerminal
    BY <2>2 DEF SeeTerminal, Latch!See
  <2>3. CASE Leave
    BY <2>3 DEF Leave, Latch!Leave
  <2>4. CASE DropPipeline
    BY <2>4 DEF DropPipeline, Latch!TearDown
  <2>5. CASE SetPlaying \/ StartFails \/ ReceiveNotice
    BY <2>5 DEF SetPlaying, StartFails, ReceiveNotice
  <2>6. CASE RaiseStopFlag \/ FlushBus \/ StopReturns
    BY <2>6 DEF RaiseStopFlag, FlushBus, StopReturns
  <2> QED BY <1>2, <2>1, <2>2, <2>3, <2>4, <2>5, <2>6 DEF Supervisor
<1>3. CASE \E kind \in Kinds : PostMessage(kind)
  BY <1>3 DEF PostMessage
<1>4. CASE UNCHANGED vars
  BY <1>4 DEF vars
<1> QED BY <1>1, <1>2, <1>3, <1>4 DEF Next

\* The bus thread with its flag and its two channels implements the latch the
\* supervisors are modelled over.
THEOREM Implementation == Spec => ImplementsLatch
<1> QED BY LatchInit, LatchNext, Invariant, PTL DEF Spec, ImplementsLatch, Latch!Spec
=============================================================================
