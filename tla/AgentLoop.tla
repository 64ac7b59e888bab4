------------------------------ MODULE AgentLoop ------------------------------
(***************************************************************************)
(* The message dispatcher: AgentLoop.Run, handleStop, dispatch, the parts  *)
(* of processMessage and ProcessDirect that touch shared state, the bus    *)
(* between it and the channels, and the outbound dispatcher that drains    *)
(* the bus (exoclaw/agent/loop.go, exoclaw/bus/queue.go,                   *)
(* exoclaw/channels/manager.go).                                           *)
(*                                                                         *)
(* Run is one goroutine.  Every message it takes, "/stop" apart, becomes   *)
(* a goroutine of its own; these contend for processingMu, so one turn     *)
(* runs at a time.  ProcessDirect runs a turn on its caller's goroutine    *)
(* and does not take processingMu.  What a turn does inside (model, tools, *)
(* session log) is left to other modules: here it may emit progress, end   *)
(* well, end badly, or notice that its context was cancelled.              *)
(***************************************************************************)
EXTENDS Naturals, Sequences, FiniteSets

CONSTANTS Msg,          \* the inbound messages
          Direct,       \* the calls of ProcessDirect
          NoRunner,     \* nobody
          Key,          \* session keys
          NoKey,        \* no session key
          KeyOf,        \* InboundMessage.SessionKey() of every message and call
          KindOf,       \* "chat", "hook", "system", "command" or "stop"
          Quiet,        \* messages, not from "cli", whose turn sends its own response
          InboundCap,   \* capacity of MessageBus.inbound
          OutboundCap   \* capacity of MessageBus.outbound

Runner == Msg \cup Direct     \* whoever may be running a turn
Hooks  == {m \in Msg : KindOf[m] = "hook"}
Stops  == {m \in Msg : KindOf[m] = "stop"}

ASSUME ConstantsOK ==
    /\ Msg \cap Direct = {}
    /\ NoRunner \notin Runner
    /\ NoKey \notin Key
    /\ KeyOf \in [Runner -> Key]
    /\ KindOf \in [Runner -> {"chat", "hook", "system", "command", "stop"}]
    /\ \A d \in Direct : KindOf[d] = "chat"
    /\ Quiet \subseteq {m \in Msg : KindOf[m] \in {"chat", "hook"}}
    /\ InboundCap \in Nat \ {0}
    /\ OutboundCap \in Nat \ {0}

VARIABLES
    inbound,      \* MessageBus.inbound
    outbound,     \* how many messages MessageBus.outbound holds
    running,      \* AgentLoop.running
    ctxDone,      \* the context given to App.Run is cancelled
    loop,         \* where Run is: "top", "consume", "stopping" or "exited"
    activeTasks,  \* AgentLoop.activeTasks: the cancel handles, by session key
    cancelled,    \* the messages whose cancel handle was called
    task,         \* where each message's (or direct call's) goroutine is
    processing,   \* the holder of processingMu
    tctx,         \* the session key of AgentLoop.currentTCtx
    hookTurn,     \* DefaultConversation.turnChannel = "hook"
    dispatching,  \* ChannelManager.dispatchOutbound is running
    answers       \* history: final replies put on the bus for each message

busVars  == <<inbound, outbound>>
loopVars == <<running, ctxDone, loop, activeTasks, cancelled>>
turnVars == <<processing, tctx, hookTurn>>
vars     == <<busVars, loopVars, task, turnVars, dispatching, answers>>

TaskState == {"unsent", "queued", "handling", "waiting", "entered",
              "prompting", "turn", "posting", "reply", "done"}

\* The goroutine (or, for "/stop", Run itself) is still working on the message.
Working == {"waiting", "entered", "prompting", "turn", "posting", "reply"}
Live(m) == task[m] \in Working

\* The context a turn runs under: the task's own, derived from Run's.
Cancelled(r) == ctxDone \/ r \in cancelled

Goto(r, state) == task' = [task EXCEPT ![r] = state]

\* Defect: a queue nobody bounds.
InboundUnbounded == TRUE

InboundHasRoom  == Len(inbound) < InboundCap
OutboundHasRoom == outbound < OutboundCap

\* Defects: a publish that drops the reply when the queue is full, and one
\* that does not watch its context.
AnswerOrDrop(m) ==
    IF OutboundHasRoom
    THEN outbound' = outbound + 1 /\ answers' = [answers EXCEPT ![m] = @ + 1]
    ELSE UNCHANGED <<outbound, answers>>
AnswerUncancellably(m) ==
    /\ OutboundHasRoom
    /\ outbound' = outbound + 1
    /\ answers' = [answers EXCEPT ![m] = @ + 1]

\* MessageBus.PublishOutbound of the final reply to a message: the select
\* waits for room or for the context, and takes either when both are ready.
Answer(m) ==
    \/ /\ OutboundHasRoom
       /\ outbound' = outbound + 1
       /\ answers' = [answers EXCEPT ![m] = @ + 1]
    \/ /\ Cancelled(m)
       /\ UNCHANGED <<outbound, answers>>

Init ==
    /\ inbound = <<>>
    /\ outbound = 0
    /\ running = TRUE
    /\ ctxDone = FALSE
    /\ loop = "top"
    /\ activeTasks = [k \in Key |-> {}]
    /\ cancelled = {}
    /\ task = [r \in Runner |-> "unsent"]
    /\ processing = NoRunner
    /\ tctx = NoKey
    /\ hookTurn = FALSE
    /\ dispatching = TRUE
    /\ answers = [m \in Msg |-> 0]

(***************************************************************************)
(* The world around the loop.                                              *)
(***************************************************************************)

\* MessageBus.PublishInbound by a channel or the cron callback.  A publisher
\* facing a full queue waits; one that gives up is one that never published.
PublishInbound(m) ==
    /\ task[m] = "unsent"
    /\ m \notin Hooks
    /\ InboundHasRoom
    /\ inbound' = Append(inbound, m)
    /\ Goto(m, "queued")
    /\ UNCHANGED <<outbound, loopVars, turnVars, dispatching, answers>>

\* The signal context of App.Run is cancelled.
Cancel ==
    /\ ~ctxDone
    /\ ctxDone' = TRUE
    /\ UNCHANGED <<busVars, running, loop, activeTasks, cancelled, task,
                   turnVars, dispatching, answers>>

\* AgentLoop.Stop.
Stop ==
    /\ running
    /\ running' = FALSE
    /\ UNCHANGED <<busVars, ctxDone, loop, activeTasks, cancelled, task,
                   turnVars, dispatching, answers>>

\* ChannelManager.dispatchOutbound takes a message and hands it to its
\* channel, or drops it (tool hint, unknown channel, failing Send).
DeliverOutbound ==
    /\ dispatching
    /\ outbound > 0
    /\ outbound' = outbound - 1
    /\ UNCHANGED <<inbound, loopVars, task, turnVars, dispatching, answers>>

\* ... and returns once its context, a child of App.Run's, is cancelled:
\* whatever is still queued stays undelivered.
DispatcherReturns ==
    /\ dispatching
    /\ ctxDone
    /\ dispatching' = FALSE
    /\ UNCHANGED <<busVars, loopVars, task, turnVars, answers>>

(***************************************************************************)
(* AgentLoop.Run                                                           *)
(***************************************************************************)

\* The deferred clean-up of Run: every handle still registered is called.
Exit ==
    /\ loop' = "exited"
    /\ cancelled' = cancelled \cup UNION {activeTasks[k] : k \in Key}
    /\ activeTasks' = [k \in Key |-> {}]
    /\ UNCHANGED <<busVars, running, ctxDone, task, turnVars, dispatching, answers>>

RunExits ==
    \/ loop = "top" /\ (~running \/ ctxDone) /\ Exit
    \/ loop = "consume" /\ ctxDone /\ Exit

RunConsumes ==
    /\ loop = "top"
    /\ running
    /\ ~ctxDone
    /\ loop' = "consume"
    /\ UNCHANGED <<busVars, running, ctxDone, activeTasks, cancelled, task,
                   turnVars, dispatching, answers>>

\* The one-second poll expires: ConsumeInbound may report that even when a
\* message has just come in, which then waits for the next round.
PollExpires ==
    /\ loop = "consume"
    /\ loop' = "top"
    /\ UNCHANGED <<busVars, running, ctxDone, activeTasks, cancelled, task,
                   turnVars, dispatching, answers>>

\* Defect: the handle replaces those of the session's other tasks.
RegisterAlone(m) == activeTasks' = [activeTasks EXCEPT ![KeyOf[m]] = {m}]

Register(m) == activeTasks' = [activeTasks EXCEPT ![KeyOf[m]] = @ \cup {m}]

\* A message that is not "/stop": register its cancel handle, start its task.
SpawnTask ==
    /\ loop = "consume"
    /\ inbound # <<>>
    /\ LET m == Head(inbound) IN
        /\ m \notin Stops
        /\ Register(m)
        /\ Goto(m, "waiting")
    /\ inbound' = Tail(inbound)
    /\ loop' = "top"
    /\ UNCHANGED <<outbound, running, ctxDone, cancelled, turnVars, dispatching, answers>>

\* Defect: every session's tasks are stopped.
StopEverySession(m) == UNION {activeTasks[k] : k \in Key}

\* The tasks "/stop" stops, and the number its reply reports.
StopTargets(m)  == activeTasks[KeyOf[m]]
StoppedCount(m) == Cardinality(StopTargets(m))

\* handleStop up to its reply: take the handles of the key and call each.
HandleStop ==
    /\ loop = "consume"
    /\ inbound # <<>>
    /\ LET m == Head(inbound) IN
        /\ m \in Stops
        /\ cancelled' = cancelled \cup StopTargets(m)
        /\ activeTasks' = [activeTasks EXCEPT ![KeyOf[m]] = {}]
        /\ Goto(m, "handling")
    /\ inbound' = Tail(inbound)
    /\ loop' = "stopping"
    /\ UNCHANGED <<outbound, running, ctxDone, turnVars, dispatching, answers>>

\* handleStop's reply, published by Run itself: while the outbound queue is
\* full the whole loop waits here, unless its context is cancelled.
ReplyToStop(m) ==
    /\ loop = "stopping"
    /\ task[m] = "handling"
    /\ Answer(m)
    /\ Goto(m, "done")
    /\ loop' = "top"
    /\ UNCHANGED <<inbound, running, ctxDone, activeTasks, cancelled, turnVars, dispatching>>

(***************************************************************************)
(* dispatch and processMessage, on the task's goroutine                    *)
(***************************************************************************)

\* Defect: nobody waits for the lock.
LockIgnored == TRUE

LockFree == processing = NoRunner

\* processingMu.Lock(): not interruptible by the task's context.
Acquire(m) ==
    /\ task[m] = "waiting"
    /\ LockFree
    /\ processing' = m
    /\ Goto(m, "entered")
    /\ UNCHANGED <<busVars, loopVars, tctx, hookTurn, dispatching, answers>>

\* "/new" and "/help" are answered without a turn.
RunCommand(m) ==
    /\ task[m] = "entered"
    /\ KindOf[m] = "command"
    /\ Goto(m, "reply")
    /\ UNCHANGED <<busVars, loopVars, turnVars, dispatching, answers>>

\* ProcessDirect: processMessage on the caller's goroutine, without the lock.
ProcessDirect(d) ==
    /\ task[d] = "unsent"
    /\ ~ctxDone
    /\ Goto(d, "entered")
    /\ UNCHANGED <<busVars, loopVars, turnVars, dispatching, answers>>

\* processMessage publishes the tool context of the turn; a system message
\* goes straight to its turn and leaves the previous one in place.
SetToolContext(r) ==
    /\ task[r] = "entered"
    /\ KindOf[r] \in {"chat", "hook", "system"}
    /\ tctx' = IF KindOf[r] = "system" THEN tctx ELSE KeyOf[r]
    /\ Goto(r, "prompting")
    /\ UNCHANGED <<busVars, loopVars, processing, hookTurn, dispatching, answers>>

\* processTurnInline builds the prompt; the conversation remembers for whom.
BuildPrompt(r) ==
    /\ task[r] = "prompting"
    /\ hookTurn' = (KindOf[r] = "hook")
    /\ Goto(r, "turn")
    /\ UNCHANGED <<busVars, loopVars, processing, tctx, dispatching, answers>>

\* A progress update or tool hint; the error of a failed publish is dropped.
EmitProgress(r) ==
    /\ task[r] = "turn"
    /\ KindOf[r] # "system"
    /\ OutboundHasRoom
    /\ outbound' = outbound + 1
    /\ UNCHANGED <<inbound, loopVars, task, turnVars, dispatching, answers>>

\* Defect: a path out of dispatch that keeps the lock.
KeepLock(r) == UNCHANGED processing

Unlock(r) == processing' = IF processing = r THEN NoRunner ELSE processing

\* Leaving dispatch unlocks processingMu.  The goroutine then looks for its
\* own handle in activeTasks by comparing the addresses of two variables,
\* which never match: the handle stays.
Leave(r) ==
    /\ Unlock(r)
    /\ Goto(r, "done")

\* What a turn that ended well leads to: its response, unless the turn sent
\* one itself or the caller of ProcessDirect gets it as a return value.
Conclude(r) ==
    IF r \in Msg \ Quiet
    THEN Goto(r, "reply") /\ UNCHANGED processing
    ELSE Leave(r)

\* The turn ends well.  PostTurn fires the agent_end hook (one is configured),
\* unless the conversation's turnChannel says the turn was a hook itself.
TurnEnds(r) ==
    /\ task[r] = "turn"
    /\ IF ~hookTurn /\ \E h \in Hooks : task[h] = "unsent"
       THEN Goto(r, "posting") /\ UNCHANGED processing
       ELSE Conclude(r)
    /\ UNCHANGED <<busVars, loopVars, tctx, hookTurn, dispatching, answers>>

\* fireAgentHooks: PublishInbound from inside the turn, under the turn's
\* context; a publish that fails is logged and forgotten.
FireHook(r) ==
    /\ task[r] = "posting"
    /\ \E h \in Hooks :
        /\ task[h] = "unsent"
        /\ InboundHasRoom
        /\ inbound' = Append(inbound, h)
        /\ IF r \in Msg \ Quiet
           THEN /\ task' = [task EXCEPT ![h] = "queued", ![r] = "reply"]
                /\ UNCHANGED processing
           ELSE /\ task' = [task EXCEPT ![h] = "queued",
                                        ![r] = "done"]
                /\ Unlock(r)
    /\ UNCHANGED <<outbound, loopVars, tctx, hookTurn, dispatching, answers>>

HookNotFired(r) ==
    /\ task[r] = "posting"
    /\ Cancelled(r) \/ \A h \in Hooks : task[h] # "unsent"
    /\ Conclude(r)
    /\ UNCHANGED <<busVars, loopVars, tctx, hookTurn, dispatching, answers>>

\* The turn returns an error or panics: the "Sorry" reply, or an error
\* returned to the caller of ProcessDirect.  "/new" can fail as well.
TurnFails(r) ==
    /\ \/ task[r] \in {"prompting", "turn"}
       \/ task[r] = "entered" /\ r \in Msg
    /\ IF r \in Msg
       THEN Goto(r, "reply") /\ UNCHANGED processing
       ELSE Leave(r)
    /\ UNCHANGED <<busVars, loopVars, tctx, hookTurn, dispatching, answers>>

\* The turn returns context.Canceled: dispatch leaves without a reply.
TurnCancelled(r) ==
    /\ task[r] \in {"prompting", "turn"}
    /\ Cancelled(r)
    /\ Leave(r)
    /\ UNCHANGED <<busVars, loopVars, tctx, hookTurn, dispatching, answers>>

\* dispatch publishes the reply under the task's context: it waits for room,
\* and once cancelled may lose the reply even if there is room.
PublishReply(m) ==
    /\ task[m] = "reply"
    /\ Answer(m)
    /\ Leave(m)
    /\ UNCHANGED <<inbound, loopVars, tctx, hookTurn, dispatching>>

(***************************************************************************)
(* The specification                                                       *)
(***************************************************************************)
Run == \/ RunExits
       \/ RunConsumes
       \/ PollExpires
       \/ SpawnTask
       \/ HandleStop
       \/ \E m \in Stops : ReplyToStop(m)

Turn(r) == \/ SetToolContext(r)
           \/ BuildPrompt(r)
           \/ TurnEnds(r)
           \/ FireHook(r)
           \/ HookNotFired(r)
           \/ TurnFails(r)
           \/ TurnCancelled(r)

Dispatch(m) == \/ RunCommand(m)
               \/ Turn(m)
               \/ PublishReply(m)

\* Run is gone and so is everything it started: nothing is left to do.
Terminated ==
    /\ loop = "exited"
    /\ ctxDone
    /\ \A r \in Runner : task[r] \in {"unsent", "queued", "done"}
    /\ UNCHANGED vars

Next == \/ Cancel
        \/ Stop
        \/ DeliverOutbound
        \/ DispatcherReturns
        \/ Run
        \/ \E m \in Msg : PublishInbound(m) \/ Acquire(m) \/ Dispatch(m)
        \/ \E d \in Direct : ProcessDirect(d) \/ Turn(d)
        \/ \E r \in Runner : EmitProgress(r)
        \/ Terminated

Spec == Init /\ [][Next]_vars

\* Goroutines are scheduled; a turn comes to an end (the iteration limit and
\* the clients' timeouts); a mutex and a channel's send queue serve waiters
\* in turn, so what is enabled again and again happens; and a message that
\* is there when a poll of one second begins loses to its timer only rarely.
Fairness ==
    /\ WF_vars(Run) /\ SF_vars(SpawnTask \/ HandleStop)
    /\ SF_vars(\E m \in Stops : ReplyToStop(m))
    /\ WF_vars(DeliverOutbound)
    /\ WF_vars(DispatcherReturns)
    /\ \A m \in Msg : SF_vars(Acquire(m)) /\ SF_vars(Dispatch(m))
    /\ \A d \in Direct : SF_vars(Turn(d))

FairSpec == Spec /\ Fairness

-----------------------------------------------------------------------------
(***************************************************************************)
(* Properties                                                              *)
(***************************************************************************)
TypeOK ==
    /\ inbound \in Seq(Msg) /\ Len(inbound) <= InboundCap
    /\ outbound \in 0..OutboundCap
    /\ running \in BOOLEAN
    /\ ctxDone \in BOOLEAN
    /\ loop \in {"top", "consume", "stopping", "exited"}
    /\ activeTasks \in [Key -> SUBSET Msg]
    /\ cancelled \in SUBSET Msg
    /\ task \in [Runner -> TaskState]
    /\ processing \in Msg \cup {NoRunner}
    /\ tctx \in Key \cup {NoKey}
    /\ hookTurn \in BOOLEAN
    /\ dispatching \in BOOLEAN
    /\ answers \in [Msg -> Nat]

\* A task that works on a message and was not cancelled can still be reached
\* by "/stop" and by Run's clean-up: its handle is registered under its key,
\* and Run has not returned (Run, handleStop and the task's epilogue all
\* rewrite activeTasks).
LiveTasksStoppable ==
    \A m \in Msg : Live(m) /\ m \notin cancelled
        => m \in activeTasks[KeyOf[m]] /\ loop # "exited"

\* The tools of a dispatched user or hook turn are given the session of that
\* very message: no other task of the loop replaces currentTCtx during it.
\* Only ProcessDirect, which takes no lock, can.
ToolContextIsOwn ==
    \A m \in Msg : task[m] = "turn" /\ KindOf[m] # "system"
        => \/ tctx = KeyOf[m]
           \/ \E d \in Direct : task[d] # "unsent" /\ tctx = KeyOf[d]

\* "/stop" leaves no earlier message of its session running uncancelled,
\* whatever stage it has reached, and none of another session is touched.
StopIsExact ==
    \A x \in Stops : task[x] = "queued" /\ task'[x] = "handling" =>
        /\ \A m \in Msg : Live(m) /\ KeyOf[m] = KeyOf[x] => m \in cancelled'
        /\ \A m \in cancelled' \ cancelled : KeyOf[m] = KeyOf[x]

StopHitsItsSessionOnly == [][StopIsExact]_vars

\* The reply to "/stop" counts tasks it really stopped.
StopCountsLiveTasks ==
    [][\A x \in Stops : task[x] = "queued" /\ task'[x] = "handling" =>
         StoppedCount(x) = Cardinality({m \in activeTasks[KeyOf[x]] : Live(m)})]_vars

\* The loop keeps what MessageService promises: every message taken is
\* settled once, and without a reply only if it was quiet or withdrawn.
StatusOf(m) ==
    CASE task[m] \in {"unsent", "queued"} -> "new"
      [] task[m] \in Working \cup {"handling"} ->
            IF Cancelled(m) THEN "withdrawn" ELSE "pending"
      [] OTHER -> IF answers[m] > 0 THEN "answered"
                  ELSE IF m \in Quiet THEN "silent" ELSE "abandoned"

Service == INSTANCE MessageService
             WITH status <- [m \in Msg |-> StatusOf(m)],
                  down   <- ctxDone \/ loop = "exited"

ImplementsService == Service!Spec

\* Every message Run takes is settled: no schedule of publishers, turns,
\* stops, a full bus or a shutdown leaves one hanging.
EveryMessageSettled ==
    \A m \in Msg : (task[m] \in {"waiting", "handling"}) ~> (task[m] = "done")

\* Once the context is cancelled Run returns, the dispatcher returns, and no
\* goroutine of the loop remains.
ShutdownCompletes ==
    ctxDone ~> /\ loop = "exited"
               /\ ~dispatching
               /\ \A r \in Runner : task[r] \in {"unsent", "queued", "done"}
=============================================================================
