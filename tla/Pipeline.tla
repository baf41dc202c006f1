------------------------------ MODULE Pipeline ------------------------------
(***************************************************************************)
(* GstServicePipeline (backends/gst/src/lib.rs) over the cycles of a       *)
(* supervisor: start, the bus thread it spawns, the channels that thread   *)
(* feeds, and stop.  Actors: the supervisor's task, the bus thread, and    *)
(* GStreamer, which posts messages on the pipeline's bus.                  *)
(***************************************************************************)
EXTENDS Naturals, Sequences

CONSTANTS
    BusEventCapacity,  \* BUS_EVENT_CAPACITY, 64 in the code
    MaxMessages,       \* bound: messages GStreamer posts in a cycle
    Kinds,             \* kinds of message it may post
    None               \* no message

TerminalKind == {"error", "eos", "clock_lost"}           \* requires_restart
NoticeKind == {"warning", "latency", "audio_underrun"}
SilentKind == {"qos", "tag"}                             \* no PipelineEvent

ASSUME PipelineAssumption ==
    /\ BusEventCapacity \in Nat \ {0}
    /\ MaxMessages \in Nat
    /\ Kinds \subseteq TerminalKind \union NoticeKind \union SilentKind
    /\ None \notin [kind : Kinds, number : Nat]

VARIABLES
    supervisor,    \* where the supervisor's task is in the pipeline's life
    playing,       \* the pipeline is in, or on its way to, the state Playing
    bus,           \* the bus: messages not popped yet
    flushing,      \* bus.set_flushing(true) was called
    stopFlag,      \* stop_flag
    thread,        \* where the bus thread is
    message,       \* the message the bus thread has popped
    terminalSent,  \* terminal_sent of the bus thread
    terminal,      \* the terminal watch channel's value
    busEvents,     \* the bounded mpsc channel of other events
    posted         \* history: the messages posted on the bus in this cycle

supervisorVars == <<supervisor, playing>>
busVars == <<bus, flushing, posted>>
threadVars == <<thread, message, terminalSent>>
channelVars == <<terminal, busEvents>>
vars == <<supervisorVars, busVars, stopFlag, threadVars, channelVars>>

Message == [kind : Kinds, number : 1..MaxMessages]

IsTerminal(m) == m.kind \in TerminalKind
IsNotice(m) == m.kind \in NoticeKind

Init ==
    /\ supervisor = "idle"
    /\ playing = FALSE
    /\ bus = <<>>
    /\ flushing = FALSE
    /\ stopFlag = FALSE
    /\ thread = "absent"
    /\ message = None
    /\ terminalSent = FALSE
    /\ terminal = None
    /\ busEvents = <<>>
    /\ posted = <<>>

-----------------------------------------------------------------------------
\* The supervisor's task

\* for_rx or for_tx, and start up to set_state(Playing).
SetPlaying ==
    /\ supervisor = "idle"
    /\ supervisor' = "starting"
    /\ playing' = TRUE
    /\ UNCHANGED <<busVars, stopFlag, threadVars, channelVars>>

\* set_state succeeded: the bus thread is spawned and the channels returned.
StartReturns ==
    /\ supervisor = "starting"
    /\ supervisor' = "running"
    /\ thread' = "looping"
    /\ UNCHANGED <<playing, busVars, stopFlag, message, terminalSent, channelVars>>

\* The bus is popped up to and including the first Error, or until it is empty.
PopToFirstError ==
    \/ /\ \A i \in DOMAIN bus : bus[i].kind # "error"
       /\ bus' = <<>>
    \/ \E i \in DOMAIN bus :
         /\ bus[i].kind = "error"
         /\ \A j \in 1..(i - 1) : bus[j].kind # "error"
         /\ bus' = SubSeq(bus, i + 1, Len(bus))

\* set_state failed: the reason is read off the bus, no thread is spawned.
StartFails ==
    /\ supervisor = "starting"
    /\ supervisor' = "leaving"
    /\ PopToFirstError
    /\ UNCHANGED <<playing, flushing, posted, stopFlag, threadVars, channelVars>>

\* events.terminal: the event ends the cycle.
SeeTerminal ==
    /\ supervisor = "running"
    /\ terminal # None
    /\ supervisor' = "leaving"
    /\ UNCHANGED <<playing, busVars, stopFlag, threadVars, channelVars>>

\* events.bus: a notice is counted, the cycle goes on.
ReceiveNotice ==
    /\ supervisor = "running"
    /\ busEvents # <<>>
    /\ busEvents' = Tail(busEvents)
    /\ UNCHANGED <<supervisorVars, busVars, stopFlag, threadVars, terminal>>

\* A closed channel, the watchdog, or the shutdown future.
Leave ==
    /\ supervisor = "running"
    /\ supervisor' = "leaving"
    /\ UNCHANGED <<playing, busVars, stopFlag, threadVars, channelVars>>

\* Mutant: the flag is never raised.
MutantRaiseStopFlag ==
    /\ supervisor = "leaving"
    /\ supervisor' = "stopping"
    /\ UNCHANGED <<playing, busVars, stopFlag, threadVars, channelVars>>

\* stop: first the flag,
RaiseStopFlag ==
    /\ supervisor = "leaving"
    /\ supervisor' = "stopping"
    /\ stopFlag' = TRUE
    /\ UNCHANGED <<playing, busVars, threadVars, channelVars>>

\* then the bus is flushed of what it holds and of what comes.
FlushBus ==
    /\ supervisor = "stopping"
    /\ supervisor' = "joining"
    /\ flushing' = TRUE
    /\ bus' = <<>>
    /\ UNCHANGED <<playing, posted, stopFlag, threadVars, channelVars>>

\* Mutant: stop does not wait for the thread.
MutantThreadJoined == TRUE

ThreadJoined == thread \in {"absent", "exited"}

\* bus_thread.join() returned, set_state(Null).
StopReturns ==
    /\ supervisor = "joining"
    /\ ThreadJoined
    /\ supervisor' = "stopped"
    /\ playing' = FALSE
    /\ UNCHANGED <<busVars, stopFlag, threadVars, channelVars>>

\* The pipeline and its channels are dropped; the next cycle builds new ones.
DropPipeline ==
    /\ supervisor = "stopped"
    /\ supervisor' = "idle"
    /\ flushing' = FALSE
    /\ stopFlag' = FALSE
    /\ bus' = <<>>
    /\ posted' = <<>>
    /\ thread' = "absent"
    /\ message' = None
    /\ terminalSent' = FALSE
    /\ terminal' = None
    /\ busEvents' = <<>>
    /\ UNCHANGED playing

-----------------------------------------------------------------------------
\* The bus thread

\* The loop's condition, and the return of the thread.
ExitOnFlag ==
    /\ thread = "looping"
    /\ stopFlag
    /\ thread' = "exited"
    /\ UNCHANGED <<supervisorVars, busVars, stopFlag, message, terminalSent, channelVars>>

EnterPop ==
    /\ thread = "looping"
    /\ ~stopFlag
    /\ thread' = "popping"
    /\ UNCHANGED <<supervisorVars, busVars, stopFlag, message, terminalSent, channelVars>>

\* timed_pop returns a message, or nothing after the poll interval.
Pop ==
    /\ thread = "popping"
    /\ bus # <<>>
    /\ message' = Head(bus)
    /\ bus' = Tail(bus)
    /\ thread' = "handling"
    /\ UNCHANGED <<supervisorVars, flushing, posted, stopFlag, terminalSent, channelVars>>

PopTimesOut ==
    /\ thread = "popping"
    /\ bus = <<>>
    /\ thread' = "looping"
    /\ UNCHANGED <<supervisorVars, busVars, stopFlag, message, terminalSent, channelVars>>

Handled ==
    /\ thread' = "looping"
    /\ message' = None
    /\ UNCHANGED <<supervisorVars, busVars, stopFlag>>

\* A terminal event after the first is passed over.
SkipTerminal ==
    /\ thread = "handling"
    /\ IsTerminal(message)
    /\ terminalSent
    /\ Handled
    /\ UNCHANGED <<terminalSent, channelVars>>

\* Mutant: without terminal_sent.
MutantSendTerminal ==
    /\ thread = "handling"
    /\ IsTerminal(message)
    /\ terminal' = message
    /\ terminalSent' = TRUE
    /\ Handled
    /\ UNCHANGED busEvents

\* Mutant: only if the bounded channel has room.
MutantTrySendTerminal ==
    /\ thread = "handling"
    /\ IsTerminal(message)
    /\ ~terminalSent
    /\ terminalSent' = TRUE
    /\ terminal' = IF Len(busEvents) < BusEventCapacity THEN message ELSE terminal
    /\ Handled
    /\ UNCHANGED busEvents

\* The first terminal event goes to its own channel.
SendTerminal ==
    /\ thread = "handling"
    /\ IsTerminal(message)
    /\ ~terminalSent
    /\ terminal' = message
    /\ terminalSent' = TRUE
    /\ Handled
    /\ UNCHANGED busEvents

\* Mutant: an unbounded channel.
MutantSendNotice ==
    /\ thread = "handling"
    /\ IsNotice(message)
    /\ busEvents' = Append(busEvents, message)
    /\ Handled
    /\ UNCHANGED <<terminalSent, terminal>>

\* Any other event is sent if there is room: try_send, Full is ignored.
SendNotice ==
    /\ thread = "handling"
    /\ IsNotice(message)
    /\ Len(busEvents) < BusEventCapacity
    /\ busEvents' = Append(busEvents, message)
    /\ Handled
    /\ UNCHANGED <<terminalSent, terminal>>

\* Mutant: every error of try_send ends the thread.
MutantDropNotice ==
    /\ thread = "handling"
    /\ IsNotice(message)
    /\ Len(busEvents) = BusEventCapacity
    /\ thread' = "exited"
    /\ message' = None
    /\ UNCHANGED <<supervisorVars, busVars, stopFlag, terminalSent, channelVars>>

DropNotice ==
    /\ thread = "handling"
    /\ IsNotice(message)
    /\ Len(busEvents) = BusEventCapacity
    /\ Handled
    /\ UNCHANGED <<terminalSent, channelVars>>

\* QoS is counted in a watch channel; a message that is no event is dropped.
HandleSilent ==
    /\ thread = "handling"
    /\ message.kind \in SilentKind
    /\ Handled
    /\ UNCHANGED <<terminalSent, channelVars>>

-----------------------------------------------------------------------------
\* GStreamer

\* A flushing bus drops what is posted.
PostMessage(kind) ==
    /\ playing
    /\ ~flushing
    /\ Len(posted) < MaxMessages
    /\ LET m == [kind |-> kind, number |-> Len(posted) + 1]
       IN  bus' = Append(bus, m) /\ posted' = Append(posted, m)
    /\ UNCHANGED <<supervisorVars, flushing, stopFlag, threadVars, channelVars>>

-----------------------------------------------------------------------------
\* Specification

BusThread ==
    \/ ExitOnFlag \/ EnterPop \/ Pop \/ PopTimesOut
    \/ SkipTerminal \/ SendTerminal \/ SendNotice \/ DropNotice \/ HandleSilent

Supervisor ==
    \/ SetPlaying \/ StartReturns \/ StartFails
    \/ SeeTerminal \/ ReceiveNotice \/ Leave
    \/ RaiseStopFlag \/ FlushBus \/ StopReturns \/ DropPipeline

Next == BusThread \/ Supervisor \/ \E kind \in Kinds : PostMessage(kind)

Spec == Init /\ [][Next]_vars

\* The bus thread runs; a branch of the select that stays ready is taken; stop
\* runs to its end once nothing blocks it.
Fairness ==
    /\ WF_vars(BusThread)
    /\ WF_vars(SeeTerminal)
    /\ WF_vars(RaiseStopFlag \/ FlushBus)
    /\ WF_vars(StopReturns)

FairSpec == Spec /\ Fairness

-----------------------------------------------------------------------------
\* Properties

SupervisorState == {"idle", "starting", "running", "leaving", "stopping", "joining",
                    "stopped"}
ThreadState == {"absent", "looping", "popping", "handling", "exited"}

\* Every variable has its type, and the bus thread holds a message exactly
\* while it handles one (GstServicePipeline and the locals of its bus thread).
TypeOK ==
    /\ supervisor \in SupervisorState
    /\ playing \in BOOLEAN
    /\ bus \in Seq(Message)
    /\ flushing \in BOOLEAN
    /\ stopFlag \in BOOLEAN
    /\ thread \in ThreadState
    /\ message \in Message \union {None}
    /\ thread = "handling" <=> message # None
    /\ terminalSent \in BOOLEAN
    /\ terminal \in Message \union {None}
    /\ busEvents \in Seq(Message)
    /\ Len(busEvents) <= BusEventCapacity
    /\ posted \in Seq(Message)

\* The event that ends a cycle is the first terminal message GStreamer posted
\* in it, however many followed and whatever else filled the channels.
TerminalIsFirst ==
    terminal # None =>
        \E i \in DOMAIN posted :
            posted[i] = terminal /\ \A j \in 1..(i - 1) : ~IsTerminal(posted[j])

\* No cycle ends because a channel was closed: as long as the supervisor
\* selects, the thread that holds the senders lives.
NoSpuriousClose == supervisor = "running" => thread \notin {"absent", "exited"}

\* Once stop has returned, the thread has ended: nothing of this cycle touches
\* the channels, or calls recalculate_latency, after set_state(Null).
QuietAfterStop == supervisor \in {"stopped", "idle"} => thread \in {"absent", "exited"}

\* stop returns, whatever the thread was doing when it was called.
StopEnds == supervisor = "leaving" ~> supervisor = "stopped"

\* A terminal message on the bus ends the cycle, also when the channel of the
\* other events is full and nobody reads it.
TerminalEndsCycle ==
    (supervisor = "running" /\ \E i \in DOMAIN bus : IsTerminal(bus[i]))
        ~> supervisor # "running"

\* The promise the supervisors are built on.
Phase ==
    IF thread = "absent" THEN "down"
    ELSE IF supervisor = "running" THEN "running" ELSE "ending"

Latch == INSTANCE TerminalLatch WITH Event <- Message, phase <- Phase, latched <- terminal

\* The bus thread's channel, flag and loop implement the latch: one terminal
\* event per cycle, never overwritten, gone with the cycle.
ImplementsLatch == Latch!Spec
=============================================================================
