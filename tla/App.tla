--------------------------------- MODULE App ---------------------------------
(***************************************************************************)
(* The life of the process: run of cmd/exoclaw/main.go, Exoclaw.Run of     *)
(* app/app.go, the channel manager and the channels, which are terminals.  *)
(*                                                                         *)
(* Goroutines: main; the agent loop and the turns it spawns; StartAll; the *)
(* dispatcher of replies; a reader for each channel; the cron timer.  They *)
(* share the two bounded queues of the bus, the loop's processing lock and *)
(* the lock of the cron service, which a due job holds while it is         *)
(* published.  One context tells them all to end.                          *)
(*                                                                         *)
(* AgentLoop and TurnEngine say what a turn is; here it may need the cron  *)
(* service, and ends with a reply unless it is cancelled.  /stop, which Run *)
(* answers itself, is AgentLoop's.                                         *)
(***************************************************************************)
EXTENDS Naturals, Sequences, FiniteSets

CONSTANTS Channels,     \* the names registered with the channel manager
          Elsewhere,    \* a name that is not
          None,         \* no channel, no message
          InboundCap,   \* capacity of the inbound queue (1024)
          OutboundCap,  \* capacity of the outbound queue (1024)
          MaxLines,     \* bound: lines typed at each terminal
          MaxJobs       \* bound: jobs that come due

\* A message, by where its reply goes and what it is about.
Message == [to : Channels \cup {Elsewhere}, line : 0..MaxLines, job : 0..MaxJobs]

ASSUME AppConstants ==
    /\ Elsewhere \notin Channels /\ None \notin Channels /\ None \notin Message
    /\ InboundCap \in Nat \ {0} /\ OutboundCap \in Nat \ {0}
    /\ MaxLines \in Nat /\ MaxJobs \in Nat

VARIABLES
    signalled,   \* the context of signal.NotifyContext is cancelled
    main,        \* where run of main.go stands
    stopping,    \* the channel StopAll is stopping
    stopped,     \* the channels it has stopped
    loop,        \* AgentLoop.Run
    waiting,     \* turns that wait for the processing lock
    turn,        \* the message of the turn that holds it
    wantsCron,   \* that turn has called the cron tool
    starter,     \* StartAll
    dispatcher,  \* dispatchOutbound
    reply,       \* the message it is sending
    reader,      \* readLoop of each channel
    typed, read, \* lines typed at each terminal, lines read there
    eof,         \* the terminals that were closed
    cron,        \* the cron service: its lock is free, held by a due job, or stopped
    jobs,        \* how many jobs came due
    inbound, outbound

terminal == <<typed, eof>>
turns    == <<waiting, turn, wantsCron>>
queues   == <<inbound, outbound>>
manager  == <<starter, dispatcher, reply>>
mainVars == <<main, stopping, stopped>>
vars == <<signalled, mainVars, loop, turns, manager, reader, read, terminal,
          cron, jobs, queues>>

Init ==
    /\ signalled = FALSE
    /\ main = "run" /\ stopping = None /\ stopped = {}
    /\ loop = "top" /\ waiting = {} /\ turn = None /\ wantsCron = FALSE
    /\ starter = "begin" /\ dispatcher = "off" /\ reply = None
    /\ reader = [c \in Channels |-> "off"]
    /\ typed = [c \in Channels |-> 0] /\ read = [c \in Channels |-> 0] /\ eof = {}
    /\ cron = "armed" /\ jobs = 0
    /\ inbound = <<>> /\ outbound = <<>>

-----------------------------------------------------------------------------
(* The bus: a select between room, or a message, and the context.          *)

\* Defect: the bound of the queue is forgotten.
PublishInboundAtOnce(m) == inbound' = Append(inbound, m) /\ UNCHANGED outbound

PublishInbound(m) == /\ Len(inbound) < InboundCap
                     /\ inbound' = Append(inbound, m)
                     /\ UNCHANGED outbound

ConsumeInbound(m) == /\ inbound # <<>> /\ m = Head(inbound)
                     /\ inbound' = Tail(inbound)
                     /\ UNCHANGED outbound

PublishOutbound(m) == /\ Len(outbound) < OutboundCap
                      /\ outbound' = Append(outbound, m)
                      /\ UNCHANGED inbound

ConsumeOutbound(m) == /\ outbound # <<>> /\ m = Head(outbound)
                      /\ outbound' = Tail(outbound)
                      /\ UNCHANGED inbound

-----------------------------------------------------------------------------
(* The world: a user at each terminal, a signal, the clock.                *)

Type(c) ==
    /\ c \notin eof /\ typed[c] < MaxLines
    /\ typed' = [typed EXCEPT ![c] = @ + 1]
    /\ UNCHANGED <<signalled, mainVars, loop, turns, manager, reader, read, eof,
                   cron, jobs, queues>>

CtrlD(c) ==
    /\ c \notin eof
    /\ eof' = eof \cup {c}
    /\ UNCHANGED <<signalled, mainVars, loop, turns, manager, reader, read, typed,
                   cron, jobs, queues>>

Signal ==
    /\ ~signalled
    /\ signalled' = TRUE
    /\ UNCHANGED <<mainVars, loop, turns, manager, reader, read, terminal, cron,
                   jobs, queues>>

-----------------------------------------------------------------------------
(* AgentLoop.Run and its turns.                                            *)

LoopEntry ==
    /\ loop = "top"
    /\ loop' = IF signalled THEN "returned" ELSE "polling"
    /\ UNCHANGED <<signalled, mainVars, turns, manager, reader, read, terminal,
                   cron, jobs, queues>>

\* Defect: the turn runs on Run's own goroutine.
LoopTakesInline ==
    /\ loop = "polling" /\ waiting = {} /\ turn = None
    /\ \E m \in Message : ConsumeInbound(m) /\ waiting' = waiting \cup {m}
    /\ loop' = "top"
    /\ UNCHANGED <<signalled, mainVars, turn, wantsCron, manager, reader, read,
                   terminal, cron, jobs>>

\* dispatch runs on a goroutine of its own.
LoopTakes ==
    /\ loop = "polling"
    /\ \E m \in Message : ConsumeInbound(m) /\ waiting' = waiting \cup {m}
    /\ loop' = "top"
    /\ UNCHANGED <<signalled, mainVars, turn, wantsCron, manager, reader, read,
                   terminal, cron, jobs>>

LoopReturns ==
    /\ loop = "polling" /\ signalled
    /\ loop' = "returned"
    /\ UNCHANGED <<signalled, mainVars, turns, manager, reader, read, terminal,
                   cron, jobs, queues>>

TurnBegins ==
    /\ turn = None
    /\ \E m \in waiting : turn' = m /\ waiting' = waiting \ {m}
    /\ UNCHANGED <<signalled, mainVars, loop, wantsCron, manager, reader, read,
                   terminal, cron, jobs, queues>>

TurnCallsCron ==
    /\ turn # None /\ ~wantsCron
    /\ wantsCron' = TRUE
    /\ UNCHANGED <<signalled, mainVars, loop, waiting, turn, manager, reader,
                   read, terminal, cron, jobs, queues>>

\* The cron tool needs the service's lock.  The reply is published under the
\* lock of the loop, or dropped if the context is done.
TurnEnds ==
    /\ turn # None
    /\ wantsCron => cron # "firing"
    /\ PublishOutbound(turn) \/ (signalled /\ UNCHANGED queues)
    /\ turn' = None /\ wantsCron' = FALSE
    /\ UNCHANGED <<signalled, mainVars, loop, waiting, manager, reader, read,
                   terminal, cron, jobs>>

-----------------------------------------------------------------------------
(* ChannelManager.StartAll and the dispatcher.                             *)

\* Without a channel StartAll returns and there is no dispatcher.
StartDispatcher ==
    /\ starter = "begin"
    /\ IF Channels = {} THEN starter' = "returned" /\ UNCHANGED dispatcher
                        ELSE starter' = "starting" /\ dispatcher' = "polling"
    /\ UNCHANGED <<signalled, mainVars, loop, turns, reply, reader, read,
                   terminal, cron, jobs, queues>>

\* A goroutine for each channel; Start spawns the reader and returns.
StartChannel(c) ==
    /\ starter = "starting" /\ reader[c] = "off"
    /\ reader' = [reader EXCEPT ![c] = "scanning"]
    /\ UNCHANGED <<signalled, mainVars, loop, turns, manager, read, terminal,
                   cron, jobs, queues>>

StartAllReturns ==
    /\ starter = "starting" /\ \A c \in Channels : reader[c] # "off"
    /\ starter' = "returned"
    /\ UNCHANGED <<signalled, mainVars, loop, turns, dispatcher, reply, reader,
                   read, terminal, cron, jobs, queues>>

\* A reply to an unknown channel is logged and gone.
DispatcherTakes ==
    /\ dispatcher = "polling"
    /\ \E m \in Message :
          /\ ConsumeOutbound(m)
          /\ IF m.to \in Channels THEN dispatcher' = "sending" /\ reply' = m
                                  ELSE UNCHANGED <<dispatcher, reply>>
    /\ UNCHANGED <<signalled, mainVars, loop, turns, starter, reader, read,
                   terminal, cron, jobs>>

\* An error of Send is logged.
Send ==
    /\ dispatcher = "sending"
    /\ dispatcher' = "polling" /\ reply' = None
    /\ UNCHANGED <<signalled, mainVars, loop, turns, starter, reader, read,
                   terminal, cron, jobs, queues>>

\* A poll that times out is repeated, one whose context is done ends it.
DispatcherReturns ==
    /\ dispatcher = "polling" /\ signalled
    /\ dispatcher' = "returned"
    /\ UNCHANGED <<signalled, mainVars, loop, turns, starter, reply, reader,
                   read, terminal, cron, jobs, queues>>

-----------------------------------------------------------------------------
(* readLoop of a terminal.                                                 *)

Reads(c, from, to) == /\ reader[c] = from
                      /\ reader' = [reader EXCEPT ![c] = to]

\* Scan returns with a line.  It is blank, or it is to be published.
ScanLine(c) ==
    /\ read[c] < typed[c]
    /\ read' = [read EXCEPT ![c] = @ + 1]
    /\ \/ signalled  /\ Reads(c, "scanning", "gone")
       \/ ~signalled /\ \E next \in {"scanning", "publishing"} : Reads(c, "scanning", next)
    /\ UNCHANGED <<signalled, mainVars, loop, turns, manager, terminal, cron,
                   jobs, queues>>

\* Scan returns false at the end of the input.
ScanEnds(c) ==
    /\ c \in eof /\ read[c] = typed[c]
    /\ Reads(c, "scanning", "gone")
    /\ UNCHANGED <<signalled, mainVars, loop, turns, manager, read, terminal,
                   cron, jobs, queues>>

\* Defect: the publish does not look at the context.
PublishLineAlways(c) ==
    /\ Reads(c, "publishing", "scanning")
    /\ PublishInbound([to |-> c, line |-> read[c], job |-> 0])
    /\ UNCHANGED <<signalled, mainVars, loop, turns, manager, read, terminal,
                   cron, jobs>>

PublishLine(c) ==
    /\ \/ /\ Reads(c, "publishing", "scanning")
          /\ PublishInbound([to |-> c, line |-> read[c], job |-> 0])
       \/ /\ signalled /\ Reads(c, "publishing", "gone")
          /\ UNCHANGED queues
    /\ UNCHANGED <<signalled, mainVars, loop, turns, manager, read, terminal,
                   cron, jobs>>

-----------------------------------------------------------------------------
(* The cron timer: due jobs are published one after the other under the    *)
(* service's lock, with a context that is never done.                      *)

JobDue ==
    /\ cron = "armed" /\ jobs < MaxJobs
    /\ cron' = "firing" /\ jobs' = jobs + 1
    /\ UNCHANGED <<signalled, mainVars, loop, turns, manager, reader, read,
                   terminal, queues>>

PublishJob ==
    /\ cron = "firing"
    /\ \E to \in Channels \cup {Elsewhere} :
          PublishInbound([to |-> to, line |-> 0, job |-> jobs])
    /\ \/ cron' = "armed" /\ UNCHANGED jobs
       \/ jobs < MaxJobs /\ jobs' = jobs + 1 /\ UNCHANGED cron
    /\ UNCHANGED <<signalled, mainVars, loop, turns, manager, reader, read,
                   terminal>>

-----------------------------------------------------------------------------
(* The main goroutine: wg.Wait, then what Run and run deferred.            *)

goroutines == <<loop, turns, manager, reader, read, jobs, queues>>

\* Defect: nobody waits for the channels to be started.
RunEndsEarly ==
    /\ main = "run" /\ loop = "returned"
    /\ main' = "awaitDispatcher"
    /\ UNCHANGED <<signalled, stopping, stopped, goroutines, terminal, cron>>

\* Both have returned; loop.Stop, and StopAll cancels the dispatcher.
RunEnds ==
    /\ main = "run" /\ loop = "returned" /\ starter = "returned"
    /\ main' = "awaitDispatcher"
    /\ UNCHANGED <<signalled, stopping, stopped, goroutines, terminal, cron>>

DispatcherDone ==
    /\ main = "awaitDispatcher" /\ dispatcher \in {"off", "returned"}
    /\ main' = "stopChannels"
    /\ UNCHANGED <<signalled, stopping, stopped, goroutines, terminal, cron>>

\* Stop cancels the reader and waits until it is gone.
StopChannel(c) ==
    /\ main = "stopChannels" /\ stopping = None /\ c \notin stopped
    /\ stopping' = c
    /\ UNCHANGED <<signalled, main, stopped, goroutines, terminal, cron>>

ChannelStopped ==
    /\ stopping # None /\ reader[stopping] = "gone"
    /\ stopped' = stopped \cup {stopping} /\ stopping' = None
    /\ UNCHANGED <<signalled, main, goroutines, terminal, cron>>

StopAllReturns ==
    /\ main = "stopChannels" /\ stopped = Channels
    /\ main' = "stopCron"
    /\ UNCHANGED <<signalled, stopping, stopped, goroutines, terminal, cron>>

\* Service.Stop takes the lock.
StopCron ==
    /\ main = "stopCron" /\ cron = "armed"
    /\ cron' = "stopped" /\ main' = "exited"
    /\ UNCHANGED <<signalled, stopping, stopped, goroutines, terminal>>

-----------------------------------------------------------------------------
Loop       == LoopEntry \/ LoopTakes \/ LoopReturns
Turn       == TurnBegins \/ TurnEnds
StartAll   == StartDispatcher \/ (\E c \in Channels : StartChannel(c)) \/ StartAllReturns
Dispatcher == DispatcherTakes \/ Send \/ DispatcherReturns
Reader(c)  == ScanLine(c) \/ ScanEnds(c) \/ PublishLine(c)
Main       == \/ RunEnds \/ DispatcherDone \/ (\E c \in Channels : StopChannel(c))
              \/ ChannelStopped \/ StopAllReturns \/ StopCron
World      == Signal \/ JobDue \/ \E c \in Channels : Type(c) \/ CtrlD(c)

Next == /\ main # "exited"
        /\ \/ Loop \/ Turn \/ TurnCallsCron \/ StartAll \/ Dispatcher
           \/ (\E c \in Channels : Reader(c)) \/ PublishJob \/ Main \/ World

Spec == Init /\ [][Next]_vars

\* Goroutines run; a turn ends (AgentLoop, TurnEngine), and a terminal takes
\* what is written to it.  Nothing is asked of the world.
FairSpec == /\ Spec
            /\ WF_vars(main # "exited" /\ Loop) /\ WF_vars(main # "exited" /\ Turn)
            /\ WF_vars(main # "exited" /\ StartAll) /\ WF_vars(main # "exited" /\ Dispatcher)
            /\ \A c \in Channels : WF_vars(main # "exited" /\ Reader(c))
            /\ WF_vars(main # "exited" /\ PublishJob) /\ WF_vars(Main)

-----------------------------------------------------------------------------
(* Properties.                                                             *)

TypeOK ==
    /\ signalled \in BOOLEAN
    /\ main \in {"run", "awaitDispatcher", "stopChannels", "stopCron", "exited"}
    /\ stopping \in Channels \cup {None} /\ stopped \subseteq Channels
    /\ loop \in {"top", "polling", "returned"}
    /\ waiting \subseteq Message /\ turn \in Message \cup {None} /\ wantsCron \in BOOLEAN
    /\ starter \in {"begin", "starting", "returned"}
    /\ dispatcher \in {"off", "polling", "sending", "returned"}
    /\ reply \in Message \cup {None} /\ (reply # None <=> dispatcher = "sending")
    /\ reader \in [Channels -> {"off", "scanning", "publishing", "gone"}]
    /\ typed \in [Channels -> 0..MaxLines] /\ read \in [Channels -> 0..MaxLines]
    /\ eof \subseteq Channels
    /\ cron \in {"armed", "firing", "stopped"} /\ jobs \in 0..MaxJobs
    /\ inbound \in Seq(Message) /\ Len(inbound) <= InboundCap
    /\ outbound \in Seq(Message) /\ Len(outbound) <= OutboundCap

\* Once StopAll begins with the channels, none of them is sent a reply, whatever
\* turns and jobs still publish: Send never meets a channel that is stopped.  And
\* run returns only when every goroutine it waits for has ended and no due job is
\* half-way: a reader, a dispatcher or a job under the lock is never cut off.  (A
\* turn may be: nothing waits for it.)
ShutdownIsOrderly ==
    /\ main \notin {"run", "awaitDispatcher"} => dispatcher # "sending"
    /\ main = "exited" => /\ loop = "returned" /\ dispatcher \in {"off", "returned"}
                          /\ \A c \in Channels : reader[c] = "gone"
                          /\ cron = "stopped"

Idle == /\ inbound = <<>> /\ outbound = <<>>
        /\ waiting = {} /\ turn = None /\ dispatcher # "sending"
        /\ \A c \in Channels : reader[c] # "publishing"
        /\ cron # "firing"

\* Until the signal, no ring of waiting forms between the job that holds the
\* cron lock and wants room, the turn that holds the processing lock and wants
\* the cron lock, Run that makes room, and the dispatcher: all work is finished.
WorkIsFinished == []<>(signalled \/ Idle)

\* What Stop waits for and nothing brings about.
AwaitsInput == /\ stopping # None /\ reader[stopping] = "scanning"
               /\ stopping \notin eof /\ read[stopping] = typed[stopping]
AwaitsRoom == main = "stopCron" /\ cron = "firing" /\ Len(inbound) = InboundCap

\* After the signal the process exits, or it waits for ever in one of two places:
\* for the user to press Enter, or for a due job to find room in a full queue.
ShutdownCompletes == signalled ~> (main = "exited" \/ []AwaitsInput \/ []AwaitsRoom)
===============================================================================
