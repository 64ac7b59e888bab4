------------------------------ MODULE AppProofs ------------------------------
(***************************************************************************)
(* Theorems of App, for any set of channels, any capacities of the queues  *)
(* and any number of lines and jobs.                                       *)
(***************************************************************************)
EXTENDS App, TLAPS

USE AppConstants

\* The groups of Next, taken apart once for all the proofs below.
LEMMA NextCases ==
    ASSUME Next
    PROVE  \/ LoopEntry \/ LoopTakes \/ LoopReturns
           \/ TurnBegins \/ TurnEnds \/ TurnCallsCron
           \/ StartDispatcher \/ StartAllReturns
           \/ DispatcherTakes \/ Send \/ DispatcherReturns
           \/ PublishJob \/ RunEnds \/ DispatcherDone \/ ChannelStopped
           \/ StopAllReturns \/ StopCron \/ Signal \/ JobDue
           \/ \E c \in Channels : \/ StartChannel(c) \/ ScanLine(c) \/ ScanEnds(c)
                                  \/ PublishLine(c) \/ StopChannel(c)
                                  \/ Type(c) \/ CtrlD(c)
  BY DEF Next, Loop, Turn, StartAll, Dispatcher, Reader, Main, World

QueuesTyped == /\ inbound \in Seq(Message) /\ Len(inbound) <= InboundCap
               /\ outbound \in Seq(Message) /\ Len(outbound) <= OutboundCap

\* A publish keeps the queues typed and within their capacities.
LEMMA PublishTyped ==
    ASSUME QueuesTyped, NEW m \in Message, PublishInbound(m) \/ PublishOutbound(m)
    PROVE  QueuesTyped'
<1>1. CASE PublishInbound(m)
  BY <1>1 DEF QueuesTyped, PublishInbound
<1>2. CASE PublishOutbound(m)
  BY <1>2 DEF QueuesTyped, PublishOutbound
<1>3. QED
  BY <1>1, <1>2

\* So does a receive.
LEMMA ConsumeTyped ==
    ASSUME QueuesTyped, NEW m \in Message, ConsumeInbound(m) \/ ConsumeOutbound(m)
    PROVE  QueuesTyped'
<1>1. CASE ConsumeInbound(m)
  BY <1>1 DEF QueuesTyped, ConsumeInbound
<1>2. CASE ConsumeOutbound(m)
  BY <1>2 DEF QueuesTyped, ConsumeOutbound
<1>3. QED
  BY <1>1, <1>2

\* What is not a queue; and there is no dispatcher before StartAll made one.
RestTyped ==
    /\ signalled \in BOOLEAN
    /\ main \in {"run", "awaitDispatcher", "stopChannels", "stopCron", "exited"}
    /\ stopping \in Channels \cup {None} /\ stopped \subseteq Channels
    /\ loop \in {"top", "polling", "returned"}
    /\ waiting \subseteq Message /\ turn \in Message \cup {None} /\ wantsCron \in BOOLEAN
    /\ starter \in {"begin", "starting", "returned"}
    /\ dispatcher \in {"off", "polling", "sending", "returned"}
    /\ reply \in Message \cup {None} /\ (reply # None <=> dispatcher = "sending")
    /\ reader \in [Channels -> {"off", "scanning", "publishing", "gone"}]
    /\ typed \in [Channels -> 0..MaxLines] /\ read \in [Channels -> 0..MaxLines]
    /\ eof \subseteq Channels
    /\ cron \in {"armed", "firing", "stopped"} /\ jobs \in 0..MaxJobs
    /\ starter = "begin" => dispatcher = "off"

Typed == QueuesTyped /\ RestTyped

\* The two halves are the type invariant.
LEMMA TypedTypeOK == Typed => TypeOK
  BY DEF TypeOK, Typed, QueuesTyped, RestTyped

\* Every step keeps the types.
LEMMA NextTyped == Typed /\ [Next]_vars => Typed'
<1> SUFFICES ASSUME QueuesTyped, RestTyped, [Next]_vars PROVE QueuesTyped' /\ RestTyped'
  BY DEF Typed
<1>1. CASE LoopEntry
  BY <1>1 DEF LoopEntry, RestTyped, QueuesTyped, mainVars, turns, manager,
            terminal, queues
<1>2. CASE LoopReturns
  BY <1>2 DEF LoopReturns, RestTyped, QueuesTyped, mainVars, turns, manager,
            terminal, queues
<1>3. CASE TurnBegins
  BY <1>3 DEF TurnBegins, RestTyped, QueuesTyped, mainVars, manager, terminal,
            queues
<1>4. CASE TurnCallsCron
  BY <1>4 DEF TurnCallsCron, RestTyped, QueuesTyped, mainVars, manager,
            terminal, queues
<1>5. CASE StartDispatcher
  BY <1>5 DEF StartDispatcher, RestTyped, QueuesTyped, mainVars, turns,
            terminal, queues
<1>6. CASE StartAllReturns
  BY <1>6 DEF StartAllReturns, RestTyped, QueuesTyped, mainVars, turns,
            terminal, queues
<1>7. CASE Send
  BY <1>7 DEF Send, RestTyped, QueuesTyped, mainVars, turns, terminal, queues
<1>8. CASE DispatcherReturns
  BY <1>8 DEF DispatcherReturns, RestTyped, QueuesTyped, mainVars, turns,
            terminal, queues
<1>9. CASE RunEnds
  BY <1>9 DEF RunEnds, RestTyped, QueuesTyped, terminal, goroutines, turns,
            manager, queues
<1>10. CASE DispatcherDone
  BY <1>10 DEF DispatcherDone, RestTyped, QueuesTyped, terminal, goroutines,
            turns, manager, queues
<1>11. CASE ChannelStopped
  BY <1>11 DEF ChannelStopped, RestTyped, QueuesTyped, terminal, goroutines,
            turns, manager, queues
<1>12. CASE StopAllReturns
  BY <1>12 DEF StopAllReturns, RestTyped, QueuesTyped, terminal, goroutines,
            turns, manager, queues
<1>13. CASE StopCron
  BY <1>13 DEF StopCron, RestTyped, QueuesTyped, terminal, goroutines, turns,
            manager, queues
<1>14. CASE Signal
  BY <1>14 DEF Signal, RestTyped, QueuesTyped, mainVars, turns, manager,
            terminal, queues
<1>15. CASE JobDue
  BY <1>15 DEF JobDue, RestTyped, QueuesTyped, mainVars, turns, manager,
            terminal, queues
<1>16. CASE LoopTakes
  <2>1. PICK m \in Message : ConsumeInbound(m) /\ waiting' = waiting \cup {m}
    BY <1>16 DEF LoopTakes
  <2>2. QueuesTyped'
    BY <2>1, ConsumeTyped
  <2>3. RestTyped'
    BY <1>16, <2>1 DEF LoopTakes, RestTyped, mainVars, manager, terminal
  <2>4. QED
    BY <2>2, <2>3
<1>17. CASE TurnEnds
  <2>1. turn \in Message
    BY <1>17 DEF TurnEnds, RestTyped
  <2>2. QueuesTyped'
    <3>1. CASE PublishOutbound(turn)
      BY <2>1, <3>1, PublishTyped
    <3>2. CASE UNCHANGED queues
      BY <3>2 DEF queues, QueuesTyped
    <3>3. QED
      BY <1>17, <3>1, <3>2 DEF TurnEnds
  <2>3. RestTyped'
    BY <1>17 DEF TurnEnds, RestTyped, mainVars, manager, terminal
  <2>4. QED
    BY <2>2, <2>3
<1>18. CASE DispatcherTakes
  <2>1. PICK m \in Message :
          /\ ConsumeOutbound(m)
          /\ IF m.to \in Channels THEN dispatcher' = "sending" /\ reply' = m
                                  ELSE UNCHANGED <<dispatcher, reply>>
    BY <1>18 DEF DispatcherTakes
  <2>2. QueuesTyped'
    BY <2>1, ConsumeTyped
  <2>3. RestTyped'
    BY <1>18, <2>1 DEF DispatcherTakes, RestTyped, mainVars, turns, terminal
  <2>4. QED
    BY <2>2, <2>3
<1>19. CASE PublishJob
  <2>1. PICK to \in Channels \cup {Elsewhere} :
          PublishInbound([to |-> to, line |-> 0, job |-> jobs])
    BY <1>19 DEF PublishJob
  <2>2. [to |-> to, line |-> 0, job |-> jobs] \in Message
    BY DEF Message, RestTyped
  <2>3. QueuesTyped'
    BY <2>1, <2>2, PublishTyped
  <2>4. RestTyped'
    BY <1>19 DEF PublishJob, RestTyped, mainVars, turns, manager, terminal
  <2>5. QED
    BY <2>3, <2>4
<1>20. ASSUME NEW c \in Channels, StartChannel(c) PROVE QueuesTyped' /\ RestTyped'
  BY <1>20 DEF StartChannel, RestTyped, QueuesTyped, mainVars, turns, manager,
            terminal, queues
<1>21. ASSUME NEW c \in Channels, ScanLine(c) PROVE QueuesTyped' /\ RestTyped'
  <2>1. read' \in [Channels -> 0..MaxLines]
    <3>1. read \in [Channels -> 0..MaxLines] /\ typed[c] \in 0..MaxLines
      BY DEF RestTyped
    <3>2. read[c] \in 0..MaxLines /\ read[c] < typed[c]
      BY <1>21, <3>1 DEF ScanLine
    <3>3. read[c] + 1 \in 0..MaxLines
      BY <3>1, <3>2
    <3>4. QED
      BY <1>21, <3>1, <3>3 DEF ScanLine
  <2>2. reader' \in [Channels -> {"off", "scanning", "publishing", "gone"}]
    BY <1>21 DEF ScanLine, Reads, RestTyped
  <2>3. QED
    BY <1>21, <2>1, <2>2 DEF ScanLine, RestTyped, QueuesTyped, mainVars, turns,
            manager, terminal, queues
<1>22. ASSUME NEW c \in Channels, ScanEnds(c) PROVE QueuesTyped' /\ RestTyped'
  BY <1>22 DEF ScanEnds, Reads, RestTyped, QueuesTyped, mainVars, turns,
            manager, terminal, queues
<1>23. ASSUME NEW c \in Channels, StopChannel(c) PROVE QueuesTyped' /\ RestTyped'
  BY <1>23 DEF StopChannel, RestTyped, QueuesTyped, terminal, goroutines, turns,
            manager, queues
<1>24. ASSUME NEW c \in Channels, Type(c) PROVE QueuesTyped' /\ RestTyped'
  BY <1>24 DEF Type, RestTyped, QueuesTyped, mainVars, turns, manager, queues
<1>25. ASSUME NEW c \in Channels, CtrlD(c) PROVE QueuesTyped' /\ RestTyped'
  BY <1>25 DEF CtrlD, RestTyped, QueuesTyped, mainVars, turns, manager, queues
<1>26. ASSUME NEW c \in Channels, PublishLine(c) PROVE QueuesTyped' /\ RestTyped'
  <2>1. [to |-> c, line |-> read[c], job |-> 0] \in Message
    BY DEF Message, RestTyped
  <2>2. QueuesTyped'
    <3>1. CASE PublishInbound([to |-> c, line |-> read[c], job |-> 0])
      BY <2>1, <3>1, PublishTyped
    <3>2. CASE UNCHANGED queues
      BY <3>2 DEF queues, QueuesTyped
    <3>3. QED
      BY <1>26, <3>1, <3>2 DEF PublishLine
  <2>3. RestTyped'
    BY <1>26 DEF PublishLine, Reads, RestTyped, mainVars, turns, manager,
            terminal
  <2>4. QED
    BY <2>2, <2>3
<1>27. CASE UNCHANGED vars
  BY <1>27 DEF vars, RestTyped, QueuesTyped, mainVars, turns, manager, terminal, queues
<1>28. QED
  BY <1>1, <1>2, <1>3, <1>4, <1>5, <1>6, <1>7, <1>8, <1>9, <1>10, <1>11, <1>12,
     <1>13, <1>14, <1>15, <1>16, <1>17, <1>18, <1>19, <1>20, <1>21, <1>22,
     <1>23, <1>24, <1>25, <1>26, <1>27, NextCases

\* The process begins well typed.
LEMMA InitTyped == Init => Typed
<1> SUFFICES ASSUME Init PROVE Typed
  OBVIOUS
<1>1. QueuesTyped
  BY DEF Init, QueuesTyped
<1>2. /\ typed \in [Channels -> 0..MaxLines] /\ read \in [Channels -> 0..MaxLines]
      /\ reader \in [Channels -> {"off", "scanning", "publishing", "gone"}]
      /\ jobs \in 0..MaxJobs
  BY DEF Init
<1>3. RestTyped
  BY <1>2 DEF Init, RestTyped
<1>4. QED
  BY <1>1, <1>3 DEF Typed

\* Every reachable state of the process is well typed; in particular neither queue
\* exceeds its capacity, and the dispatcher has a reply in hand exactly while it
\* sends it.
THEOREM TypeCorrect == Spec => []TypeOK
<1>1. Spec => []Typed
  BY InitTyped, NextTyped, PTL DEF Spec
<1>2. QED
  BY <1>1, TypedTypeOK, PTL

-----------------------------------------------------------------------------
\* How far main is says what has ended: the loop and StartAll before it leaves
\* wg.Wait, then the dispatcher, then the reader of each channel, then the cron
\* service.  None of them begins again.
Ended ==
    /\ main # "run" => loop = "returned" /\ starter = "returned"
    /\ main \notin {"run", "awaitDispatcher"} => dispatcher \in {"off", "returned"}
    /\ \A c \in stopped : reader[c] = "gone"
    /\ main \in {"stopCron", "exited"} => stopped = Channels
    /\ main = "exited" => cron = "stopped"

\* What is over stays in the invariant as the property has it.
LEMMA EndedSuffices == Typed /\ Ended => ShutdownIsOrderly
  BY DEF Typed, RestTyped, Ended, ShutdownIsOrderly

\* No step undoes what has ended.
LEMMA NextEnded == Typed /\ Ended /\ [Next]_vars => Ended'
<1> SUFFICES ASSUME RestTyped, Ended, [Next]_vars PROVE Ended'
  BY DEF Typed
<1>1. CASE LoopEntry
  BY <1>1 DEF LoopEntry, Ended, mainVars, manager
<1>2. CASE LoopTakes
  BY <1>2 DEF LoopTakes, Ended, mainVars, manager
<1>3. CASE LoopReturns
  BY <1>3 DEF LoopReturns, Ended, mainVars, manager
<1>4. CASE TurnBegins
  BY <1>4 DEF TurnBegins, Ended, mainVars, manager
<1>5. CASE TurnCallsCron
  BY <1>5 DEF TurnCallsCron, Ended, mainVars, manager
<1>6. CASE TurnEnds
  BY <1>6 DEF TurnEnds, Ended, mainVars, manager
<1>7. CASE StartDispatcher
  BY <1>7 DEF StartDispatcher, Ended, mainVars
<1>8. CASE StartAllReturns
  BY <1>8 DEF StartAllReturns, Ended, mainVars
<1>9. CASE DispatcherTakes
  BY <1>9 DEF DispatcherTakes, Ended, mainVars
<1>10. CASE Send
  BY <1>10 DEF Send, Ended, mainVars
<1>11. CASE DispatcherReturns
  BY <1>11 DEF DispatcherReturns, Ended, mainVars
<1>12. CASE JobDue
  BY <1>12 DEF JobDue, Ended, mainVars, manager
<1>13. CASE PublishJob
  BY <1>13 DEF PublishJob, Ended, mainVars, manager
<1>14. CASE RunEnds
  BY <1>14 DEF RunEnds, Ended, goroutines, manager
<1>15. CASE DispatcherDone
  BY <1>15 DEF DispatcherDone, Ended, goroutines, manager
<1>16. CASE ChannelStopped
  BY <1>16 DEF ChannelStopped, RestTyped, Ended, goroutines, manager
<1>17. CASE StopAllReturns
  BY <1>17 DEF StopAllReturns, Ended, goroutines, manager
<1>18. CASE StopCron
  BY <1>18 DEF StopCron, Ended, goroutines, manager
<1>19. CASE Signal
  BY <1>19 DEF Signal, Ended, mainVars, manager
<1>20. ASSUME NEW c \in Channels, StartChannel(c) PROVE Ended'
  BY <1>20 DEF StartChannel, Ended, mainVars, manager
<1>21. ASSUME NEW c \in Channels, ScanLine(c) PROVE Ended'
  BY <1>21 DEF ScanLine, Reads, RestTyped, Ended, mainVars, manager
<1>22. ASSUME NEW c \in Channels, ScanEnds(c) PROVE Ended'
  BY <1>22 DEF ScanEnds, Reads, RestTyped, Ended, mainVars, manager
<1>23. ASSUME NEW c \in Channels, PublishLine(c) PROVE Ended'
  BY <1>23 DEF PublishLine, Reads, RestTyped, Ended, mainVars, manager
<1>24. ASSUME NEW c \in Channels, StopChannel(c) PROVE Ended'
  BY <1>24 DEF StopChannel, Ended, goroutines, manager
<1>25. ASSUME NEW c \in Channels, Type(c) PROVE Ended'
  BY <1>25 DEF Type, Ended, mainVars, manager
<1>26. ASSUME NEW c \in Channels, CtrlD(c) PROVE Ended'
  BY <1>26 DEF CtrlD, Ended, mainVars, manager
<1>27. CASE UNCHANGED vars
  BY <1>27 DEF vars, Ended, mainVars, turns, manager, terminal, queues
<1>28. QED
  BY <1>1, <1>2, <1>3, <1>4, <1>5, <1>6, <1>7, <1>8, <1>9, <1>10, <1>11, <1>12,
     <1>13, <1>14, <1>15, <1>16, <1>17, <1>18, <1>19, <1>20, <1>21, <1>22,
     <1>23, <1>24, <1>25, <1>26, <1>27, NextCases

\* Whatever turns and jobs are still under way: the channels are stopped only when
\* no reply is being sent any more, and run returns only when every goroutine it
\* waits for has ended.
THEOREM OrderlyShutdown == Spec => []ShutdownIsOrderly
<1>1. Init => Ended
  BY DEF Init, Ended
<1>2. Spec => [](Typed /\ Ended)
  BY <1>1, InitTyped, NextTyped, NextEnded, PTL DEF Spec
<1>3. QED
  BY <1>2, EndedSuffices, PTL
=============================================================================
