--------------------------- MODULE AgentLoopProofs ---------------------------
(***************************************************************************)
(* Theorems of AgentLoop, for any set of messages, direct calls and keys   *)
(* and any capacities of the bus.                                          *)
(***************************************************************************)
EXTENDS AgentLoop, TLAPS

\* One pass over the actions, shared by the proofs below: what follows has a
\* step for each of these cases.
LEMMA NextCases ==
    ASSUME Next
    PROVE  \/ Cancel \/ Stop \/ DeliverOutbound \/ DispatcherReturns
           \/ RunExits \/ RunConsumes \/ PollExpires \/ SpawnTask \/ HandleStop
           \/ \E m \in Stops : ReplyToStop(m)
           \/ \E m \in Msg : \/ PublishInbound(m) \/ Acquire(m)
                             \/ RunCommand(m) \/ PublishReply(m)
           \/ \E d \in Direct : ProcessDirect(d)
           \/ \E r \in Runner : \/ SetToolContext(r) \/ BuildPrompt(r)
                                \/ TurnEnds(r) \/ FireHook(r) \/ HookNotFired(r)
                                \/ TurnFails(r) \/ TurnCancelled(r)
                                \/ EmitProgress(r)
           \/ UNCHANGED vars
  BY DEF Next, Run, Dispatch, Turn, Runner, Terminated

\* Publishing a final reply keeps the outbound queue within its capacity.
LEMMA AnswerTyped ==
    ASSUME TypeOK, NEW m \in Msg, Answer(m)
    PROVE  outbound' \in 0..OutboundCap /\ answers' \in [Msg -> Nat]
<1>1. OutboundCap \in Nat
  BY ConstantsOK DEF ConstantsOK
<1>2. outbound \in 0..OutboundCap /\ answers \in [Msg -> Nat]
  BY DEF TypeOK
<1>3. CASE UNCHANGED <<outbound, answers>>
  BY <1>2, <1>3
<1>4. CASE /\ OutboundHasRoom
           /\ outbound' = outbound + 1
           /\ answers' = [answers EXCEPT ![m] = @ + 1]
  <2>1. outbound' \in 0..OutboundCap
    BY <1>1, <1>2, <1>4 DEF OutboundHasRoom
  <2>2. answers' \in [Msg -> Nat]
    BY <1>2, <1>4
  <2>3. QED
    BY <2>1, <2>2
<1>5. QED
  BY <1>3, <1>4 DEF Answer

\* The inbound queue keeps its type and capacity when one message is added.
LEMMA InboundTyped ==
    ASSUME TypeOK, NEW m \in Msg, InboundHasRoom, inbound' = Append(inbound, m)
    PROVE  inbound' \in Seq(Msg) /\ Len(inbound') <= InboundCap
<1>1. inbound \in Seq(Msg) /\ Len(inbound) < InboundCap /\ InboundCap \in Nat
  BY ConstantsOK DEF TypeOK, InboundHasRoom, ConstantsOK
<1>2. inbound' \in Seq(Msg) /\ Len(inbound') = Len(inbound) + 1
  BY <1>1
<1>3. Len(inbound) \in Nat
  BY <1>1
<1>4. QED
  BY <1>1, <1>2, <1>3

\* Initially every variable has its type.
LEMMA InitTyped == Init => TypeOK
<1> SUFFICES ASSUME Init PROVE TypeOK
  OBVIOUS
<1>1. inbound \in Seq(Msg) /\ Len(inbound) <= InboundCap /\ outbound \in 0..OutboundCap
  BY ConstantsOK DEF ConstantsOK, Init
<1>2. /\ running \in BOOLEAN /\ ctxDone \in BOOLEAN
      /\ hookTurn \in BOOLEAN /\ dispatching \in BOOLEAN
  BY DEF Init
<1>3. /\ loop \in {"top", "consume", "stopping", "exited"}
      /\ activeTasks \in [Key -> SUBSET Msg]
      /\ cancelled \in SUBSET Msg
      /\ task \in [Runner -> TaskState]
  BY DEF Init, TaskState
<1>4. /\ processing \in Msg \cup {NoRunner}
      /\ tctx \in Key \cup {NoKey}
      /\ answers \in [Msg -> Nat]
  BY DEF Init
<1>5. QED
  BY <1>1, <1>2, <1>3, <1>4 DEF TypeOK

\* Every step keeps every variable in its type.
LEMMA TypePreserved == TypeOK /\ [Next]_vars => TypeOK'
<1> SUFFICES ASSUME TypeOK, [Next]_vars PROVE TypeOK'
  OBVIOUS
<1> USE ConstantsOK DEF ConstantsOK, TypeOK, TaskState, Goto, busVars, loopVars, turnVars
<1>1. CASE Cancel \/ Stop \/ DispatcherReturns \/ RunConsumes \/ PollExpires
  BY <1>1 DEF Cancel, Stop, DispatcherReturns, RunConsumes, PollExpires
<1>2. CASE DeliverOutbound
  BY <1>2 DEF DeliverOutbound
<1>3. CASE RunExits
  BY <1>3 DEF RunExits, Exit
<1>4. CASE SpawnTask
  BY <1>4 DEF SpawnTask, Register, Runner
<1>5. CASE HandleStop
  BY <1>5 DEF HandleStop, StopTargets, Runner
<1>6. ASSUME NEW m \in Stops, ReplyToStop(m) PROVE TypeOK'
  <2>1. m \in Msg
    BY DEF Stops
  <2>2. outbound' \in 0..OutboundCap /\ answers' \in [Msg -> Nat]
    BY <1>6, <2>1, AnswerTyped DEF ReplyToStop
  <2>3. QED
    BY <1>6, <2>1, <2>2 DEF ReplyToStop, Runner
<1>7. ASSUME NEW m \in Msg, PublishInbound(m) PROVE TypeOK'
  <2>1. inbound' \in Seq(Msg) /\ Len(inbound') <= InboundCap
    BY <1>7, InboundTyped DEF PublishInbound
  <2>2. QED
    BY <1>7, <2>1 DEF PublishInbound, Runner
<1>8. ASSUME NEW m \in Msg, Acquire(m) PROVE TypeOK'
  BY <1>8 DEF Acquire, Runner
<1>9. ASSUME NEW m \in Msg, RunCommand(m) PROVE TypeOK'
  BY <1>9 DEF RunCommand, Runner
<1>10. ASSUME NEW m \in Msg, PublishReply(m) PROVE TypeOK'
  <2>1. outbound' \in 0..OutboundCap /\ answers' \in [Msg -> Nat]
    BY <1>10, AnswerTyped DEF PublishReply
  <2>2. QED
    BY <1>10, <2>1 DEF PublishReply, Leave, Unlock, Runner
<1>11. ASSUME NEW d \in Direct, ProcessDirect(d) PROVE TypeOK'
  BY <1>11 DEF ProcessDirect, Runner
<1>12. ASSUME NEW r \in Runner, SetToolContext(r) \/ BuildPrompt(r) PROVE TypeOK'
  <2>1. CASE SetToolContext(r)
    BY <2>1 DEF SetToolContext
  <2>2. CASE BuildPrompt(r)
    <3>1. hookTurn' \in BOOLEAN
      BY <2>2 DEF BuildPrompt
    <3>2. QED
      BY <2>2, <3>1 DEF BuildPrompt
  <2>3. QED
    BY <1>12, <2>1, <2>2
<1>13. ASSUME NEW r \in Runner, TurnEnds(r) \/ HookNotFired(r) PROVE TypeOK'
  BY <1>13 DEF TurnEnds, HookNotFired, Conclude, Leave, Unlock
<1>14. ASSUME NEW r \in Runner, FireHook(r) PROVE TypeOK'
  <2>1. PICK h \in Hooks : /\ InboundHasRoom
                           /\ inbound' = Append(inbound, h)
                           /\ IF r \in Msg \ Quiet
                              THEN /\ task' = [task EXCEPT ![h] = "queued", ![r] = "reply"]
                                   /\ UNCHANGED processing
                              ELSE /\ task' = [task EXCEPT ![h] = "queued", ![r] = "done"]
                                   /\ Unlock(r)
    BY <1>14 DEF FireHook
  <2>2. h \in Msg
    BY DEF Hooks
  <2>3. inbound' \in Seq(Msg) /\ Len(inbound') <= InboundCap
    BY <2>1, <2>2, InboundTyped
  <2>4. task' \in [Runner -> TaskState] /\ processing' \in Msg \cup {NoRunner}
    BY <2>1, <2>2 DEF Unlock, Runner
  <2>5. QED
    BY <1>14, <2>3, <2>4 DEF FireHook
<1>15. ASSUME NEW r \in Runner, TurnFails(r) \/ TurnCancelled(r) PROVE TypeOK'
  BY <1>15 DEF TurnFails, TurnCancelled, Leave, Unlock
<1>16. ASSUME NEW r \in Runner, EmitProgress(r) PROVE TypeOK'
  BY <1>16 DEF EmitProgress, OutboundHasRoom
<1>17. CASE UNCHANGED vars
  BY <1>17 DEF vars
<1>18. QED
  BY <1>1, <1>2, <1>3, <1>4, <1>5, <1>6, <1>7, <1>8, <1>9, <1>10, <1>11,
     <1>12, <1>13, <1>14, <1>15, <1>16, <1>17, NextCases

\* Every variable keeps its type: in particular neither queue outgrows its
\* capacity, whoever publishes.
THEOREM TypeCorrect == Spec => []TypeOK
  BY InitTyped, TypePreserved, PTL DEF Spec

-----------------------------------------------------------------------------
(***************************************************************************)
(* Cancellation.  A handle is filed under the key of its message, and a    *)
(* live, uncancelled task has its handle on file: Run files it before the  *)
(* task exists, and the two places that take handles off call all of them. *)
(***************************************************************************)
HandlesFiledByKey == \A k \in Key : \A m \in activeTasks[k] : KeyOf[m] = k

StoppableInv == TypeOK /\ HandlesFiledByKey /\ LiveTasksStoppable

\* Every step keeps the handles filed and the live tasks within reach.
LEMMA StoppableInductive == StoppableInv /\ [Next]_vars => StoppableInv'
<1> SUFFICES ASSUME StoppableInv, [Next]_vars, TypeOK'
             PROVE  HandlesFiledByKey' /\ LiveTasksStoppable'
  BY TypePreserved DEF StoppableInv
<1> USE DEF StoppableInv, HandlesFiledByKey, LiveTasksStoppable, Live, Working,
            Goto, busVars, loopVars, turnVars
<1>0. \A m \in Msg : m \in Runner /\ KeyOf[m] \in Key
  BY ConstantsOK DEF ConstantsOK, Runner
<1>1. CASE Cancel \/ Stop \/ DispatcherReturns \/ RunConsumes \/ PollExpires
           \/ DeliverOutbound
  BY <1>1 DEF Cancel, Stop, DispatcherReturns, RunConsumes, PollExpires, DeliverOutbound
<1>2. CASE RunExits
  BY <1>2, <1>0 DEF RunExits, Exit, TypeOK
<1>3. CASE SpawnTask
  BY <1>3, <1>0 DEF SpawnTask, Register, TypeOK
<1>4. CASE HandleStop
  BY <1>4, <1>0 DEF HandleStop, StopTargets, TypeOK
<1>5. ASSUME NEW m \in Stops, ReplyToStop(m)
      PROVE  HandlesFiledByKey' /\ LiveTasksStoppable'
  BY <1>5, <1>0 DEF ReplyToStop, Stops, TypeOK
<1>6. ASSUME NEW m \in Msg, PublishInbound(m) \/ Acquire(m) \/ RunCommand(m)
      PROVE  HandlesFiledByKey' /\ LiveTasksStoppable'
  BY <1>6, <1>0 DEF PublishInbound, Acquire, RunCommand, TypeOK
<1>7. ASSUME NEW m \in Msg, PublishReply(m)
      PROVE  HandlesFiledByKey' /\ LiveTasksStoppable'
  BY <1>7, <1>0 DEF PublishReply, Leave, TypeOK
<1>8. ASSUME NEW d \in Direct, ProcessDirect(d)
      PROVE  HandlesFiledByKey' /\ LiveTasksStoppable'
  BY <1>8, <1>0, ConstantsOK DEF ConstantsOK, ProcessDirect, TypeOK
<1>9. ASSUME NEW r \in Runner, SetToolContext(r) \/ BuildPrompt(r) \/ EmitProgress(r)
      PROVE  HandlesFiledByKey' /\ LiveTasksStoppable'
  BY <1>9, <1>0 DEF SetToolContext, BuildPrompt, EmitProgress, TypeOK
<1>10. ASSUME NEW r \in Runner, TurnEnds(r) \/ HookNotFired(r)
       PROVE  HandlesFiledByKey' /\ LiveTasksStoppable'
  BY <1>10, <1>0 DEF TurnEnds, HookNotFired, Conclude, Leave, TypeOK
<1>11. ASSUME NEW r \in Runner, FireHook(r)
       PROVE  HandlesFiledByKey' /\ LiveTasksStoppable'
  BY <1>11, <1>0 DEF FireHook, Hooks, TypeOK
<1>12. ASSUME NEW r \in Runner, TurnFails(r) \/ TurnCancelled(r)
       PROVE  HandlesFiledByKey' /\ LiveTasksStoppable'
  BY <1>12, <1>0 DEF TurnFails, TurnCancelled, Leave, TypeOK
<1>13. CASE UNCHANGED vars
  BY <1>13 DEF vars
<1>14. QED
  BY <1>1, <1>2, <1>3, <1>4, <1>5, <1>6, <1>7, <1>8, <1>9, <1>10, <1>11,
     <1>12, <1>13, NextCases

\* Hence they are so in every reachable state.
LEMMA StoppableAlways == Spec => []StoppableInv
<1>1. Init => StoppableInv
  BY InitTyped DEF StoppableInv, HandlesFiledByKey, LiveTasksStoppable, Live,
                   Working, Init, Runner
<1>2. QED
  BY <1>1, StoppableInductive, PTL DEF Spec

\* "/stop" and the clean-up of Run reach every live task that was not
\* cancelled before: no order of spawning, stopping and finishing loses one.
THEOREM LiveTasksStayStoppable == Spec => []LiveTasksStoppable
  BY StoppableAlways, PTL DEF StoppableInv

\* Only HandleStop starts the handling of a "/stop", and of the one at the
\* head of the queue.
LEMMA HandlingStarts ==
    ASSUME TypeOK, [Next]_vars,
           NEW x \in Stops, task[x] = "queued", task'[x] = "handling"
    PROVE  HandleStop /\ x = Head(inbound)
<1> USE DEF TypeOK, Goto
<1>0. x \in Runner
  BY DEF Stops, Runner
<1>1. CASE SpawnTask
  BY <1>1, <1>0 DEF SpawnTask, Runner
<1>2. CASE HandleStop
  BY <1>2, <1>0 DEF HandleStop
<1>3. CASE Cancel \/ Stop \/ DeliverOutbound \/ DispatcherReturns \/ RunExits
           \/ RunConsumes \/ PollExpires \/ UNCHANGED vars
  BY <1>3 DEF Cancel, Stop, DeliverOutbound, DispatcherReturns, RunExits, Exit,
              RunConsumes, PollExpires, vars
<1>4. ASSUME NEW m \in Stops, ReplyToStop(m) PROVE FALSE
  BY <1>4, <1>0 DEF ReplyToStop
<1>5. ASSUME NEW m \in Msg, PublishInbound(m) \/ Acquire(m) \/ RunCommand(m)
      PROVE  FALSE
  BY <1>5, <1>0 DEF PublishInbound, Acquire, RunCommand
<1>6. ASSUME NEW m \in Msg, PublishReply(m) PROVE FALSE
  BY <1>6, <1>0 DEF PublishReply, Leave
<1>7. ASSUME NEW d \in Direct, ProcessDirect(d) PROVE FALSE
  BY <1>7, <1>0 DEF ProcessDirect
<1>8. ASSUME NEW r \in Runner, \/ SetToolContext(r) \/ BuildPrompt(r)
                               \/ EmitProgress(r) \/ TurnFails(r) \/ TurnCancelled(r)
      PROVE  FALSE
  BY <1>8, <1>0 DEF SetToolContext, BuildPrompt, EmitProgress, TurnFails,
                    TurnCancelled, Leave
<1>9. ASSUME NEW r \in Runner, TurnEnds(r) \/ HookNotFired(r) PROVE FALSE
  BY <1>9, <1>0 DEF TurnEnds, HookNotFired, Conclude, Leave
<1>10. ASSUME NEW r \in Runner, FireHook(r) PROVE FALSE
  BY <1>10, <1>0 DEF FireHook
<1>11. QED
  BY <1>1, <1>2, <1>3, <1>4, <1>5, <1>6, <1>7, <1>8, <1>9, <1>10, NextCases

\* A "/stop" cancels every live task of its session key and no other task.
THEOREM StopCorrect == Spec => StopHitsItsSessionOnly
<1>1. StoppableInv /\ [Next]_vars => [StopIsExact]_vars
  <2> SUFFICES ASSUME StoppableInv, [Next]_vars,
                      NEW x \in Stops, task[x] = "queued", task'[x] = "handling"
               PROVE  /\ \A m \in Msg : Live(m) /\ KeyOf[m] = KeyOf[x] => m \in cancelled'
                      /\ \A m \in cancelled' \ cancelled : KeyOf[m] = KeyOf[x]
    BY DEF StopIsExact
  <2>1. x \in Runner /\ KeyOf[x] \in Key
    BY ConstantsOK DEF ConstantsOK, Runner, Stops
  <2>2. HandleStop /\ x = Head(inbound)
    BY HandlingStarts DEF StoppableInv
  <2>3. cancelled' = cancelled \cup activeTasks[KeyOf[x]]
    BY <2>2 DEF HandleStop, StopTargets
  <2>4. QED
    BY <2>1, <2>3 DEF StoppableInv, LiveTasksStoppable, HandlesFiledByKey
<1>2. QED
  BY <1>1, StoppableAlways, PTL DEF StopHitsItsSessionOnly, Spec

-----------------------------------------------------------------------------
(***************************************************************************)
(* Mutual exclusion.  A dispatched turn holds processingMu from Acquire to *)
(* Leave, so the tool context it published can only be replaced by a call  *)
(* of ProcessDirect, which takes no lock.                                  *)
(***************************************************************************)
LockHeld ==
    \A m \in Msg : task[m] \in {"entered", "prompting", "turn", "posting", "reply"}
        => processing = m

ContextPublished ==
    \A m \in Msg : task[m] \in {"prompting", "turn"} /\ KindOf[m] # "system"
        => \/ tctx = KeyOf[m]
           \/ \E d \in Direct : task[d] # "unsent" /\ tctx = KeyOf[d]

ExclusionInv == TypeOK /\ LockHeld /\ ContextPublished

\* A step that moves a task past Acquire had the lock free, and only the
\* holder's own Leave releases it.
LEMMA LockInductive == TypeOK /\ LockHeld /\ [Next]_vars => LockHeld'
<1> SUFFICES ASSUME TypeOK, LockHeld, [Next]_vars PROVE LockHeld'
  OBVIOUS
<1> USE DEF LockHeld, TypeOK, Goto, busVars, loopVars, turnVars
<1>0. NoRunner \notin Runner /\ Msg \subseteq Runner /\ Msg \cap Direct = {}
  BY ConstantsOK DEF ConstantsOK, Runner
<1>1. CASE \/ Cancel \/ Stop \/ DispatcherReturns \/ RunExits \/ RunConsumes
           \/ PollExpires \/ DeliverOutbound \/ UNCHANGED vars
  BY <1>1 DEF Cancel, Stop, DispatcherReturns, RunExits, Exit, RunConsumes,
              PollExpires, DeliverOutbound, vars
<1>2. CASE SpawnTask
  BY <1>2, <1>0 DEF SpawnTask
<1>3. CASE HandleStop
  BY <1>3, <1>0 DEF HandleStop
<1>4. ASSUME NEW m \in Stops, ReplyToStop(m) PROVE LockHeld'
  BY <1>4, <1>0 DEF ReplyToStop, Stops
<1>5. ASSUME NEW m \in Msg, PublishInbound(m) \/ RunCommand(m) PROVE LockHeld'
  BY <1>5, <1>0 DEF PublishInbound, RunCommand
<1>6. ASSUME NEW m \in Msg, Acquire(m) PROVE LockHeld'
  BY <1>6, <1>0 DEF Acquire, LockFree
<1>7. ASSUME NEW m \in Msg, PublishReply(m) PROVE LockHeld'
  BY <1>7, <1>0 DEF PublishReply, Leave, Unlock
<1>8. ASSUME NEW d \in Direct, ProcessDirect(d) PROVE LockHeld'
  BY <1>8, <1>0 DEF ProcessDirect, Runner
<1>9. ASSUME NEW r \in Runner, SetToolContext(r) \/ BuildPrompt(r) \/ EmitProgress(r)
      PROVE  LockHeld'
  BY <1>9, <1>0 DEF SetToolContext, BuildPrompt, EmitProgress
<1>10. ASSUME NEW r \in Runner, TurnEnds(r) \/ HookNotFired(r) PROVE LockHeld'
  BY <1>10, <1>0 DEF TurnEnds, HookNotFired, Conclude, Leave, Unlock, Runner
<1>11. ASSUME NEW r \in Runner, FireHook(r) PROVE LockHeld'
  BY <1>11, <1>0 DEF FireHook, Unlock, Hooks, Runner
<1>12. ASSUME NEW r \in Runner, TurnFails(r) \/ TurnCancelled(r) PROVE LockHeld'
  BY <1>12, <1>0 DEF TurnFails, TurnCancelled, Leave, Unlock, Runner
<1>13. QED
  BY <1>1, <1>2, <1>3, <1>4, <1>5, <1>6, <1>7, <1>8, <1>9, <1>10, <1>11,
     <1>12, NextCases

\* Only the lock's holder, or a direct call, replaces the tool context.
LEMMA ContextInductive ==
    TypeOK /\ LockHeld /\ ContextPublished /\ [Next]_vars => ContextPublished'
<1> SUFFICES ASSUME TypeOK, LockHeld, ContextPublished, [Next]_vars
             PROVE  ContextPublished'
  OBVIOUS
<1> USE DEF ContextPublished, TypeOK, Goto, busVars, loopVars, turnVars
<1>0. Direct \subseteq Runner /\ Msg \subseteq Runner /\ Msg \cap Direct = {}
  BY ConstantsOK DEF ConstantsOK, Runner
<1>1. CASE \/ Cancel \/ Stop \/ DispatcherReturns \/ RunExits \/ RunConsumes
           \/ PollExpires \/ DeliverOutbound \/ UNCHANGED vars
  BY <1>1 DEF Cancel, Stop, DispatcherReturns, RunExits, Exit, RunConsumes,
              PollExpires, DeliverOutbound, vars
<1>2. CASE SpawnTask
  BY <1>2, <1>0 DEF SpawnTask
<1>3. CASE HandleStop
  BY <1>3, <1>0 DEF HandleStop
<1>4. ASSUME NEW m \in Stops, ReplyToStop(m) PROVE ContextPublished'
  BY <1>4, <1>0 DEF ReplyToStop, Stops
<1>5. ASSUME NEW m \in Msg, PublishInbound(m) \/ RunCommand(m) \/ Acquire(m)
      PROVE  ContextPublished'
  BY <1>5, <1>0 DEF PublishInbound, RunCommand, Acquire
<1>6. ASSUME NEW m \in Msg, PublishReply(m) PROVE ContextPublished'
  BY <1>6, <1>0 DEF PublishReply, Leave
<1>7. ASSUME NEW d \in Direct, ProcessDirect(d) PROVE ContextPublished'
  BY <1>7, <1>0 DEF ProcessDirect
<1>8. ASSUME NEW r \in Runner, SetToolContext(r) PROVE ContextPublished'
  <2>1. CASE r \in Direct
    <3>1. task'[r] # "unsent" /\ KindOf[r] # "system" /\ tctx' = KeyOf[r]
      BY <1>8, <2>1, <1>0, ConstantsOK DEF SetToolContext, ConstantsOK
    <3>2. QED
      BY <2>1, <3>1
  <2>2. CASE r \in Msg
    <3>1. \A m \in Msg \ {r} : task[m] \notin {"prompting", "turn"}
      BY <1>8, <2>2 DEF SetToolContext, LockHeld
    <3>2. \A m \in Msg \ {r} : task'[m] = task[m]
      BY <1>8, <1>0 DEF SetToolContext
    <3>3. KindOf[r] # "system" => tctx' = KeyOf[r]
      BY <1>8 DEF SetToolContext
    <3>4. QED
      BY <3>1, <3>2, <3>3
  <2>3. QED
    BY <2>1, <2>2 DEF Runner
<1>9. ASSUME NEW r \in Runner, BuildPrompt(r) \/ EmitProgress(r)
      PROVE  ContextPublished'
  BY <1>9, <1>0 DEF BuildPrompt, EmitProgress
<1>10. ASSUME NEW r \in Runner, TurnEnds(r) \/ HookNotFired(r) PROVE ContextPublished'
  BY <1>10, <1>0 DEF TurnEnds, HookNotFired, Conclude, Leave
<1>11. ASSUME NEW r \in Runner, FireHook(r) PROVE ContextPublished'
  BY <1>11, <1>0 DEF FireHook, Hooks
<1>12. ASSUME NEW r \in Runner, TurnFails(r) \/ TurnCancelled(r) PROVE ContextPublished'
  BY <1>12, <1>0 DEF TurnFails, TurnCancelled, Leave
<1>13. QED
  BY <1>1, <1>2, <1>3, <1>4, <1>5, <1>6, <1>7, <1>8, <1>9, <1>10, <1>11,
     <1>12, NextCases

\* Both hold in every reachable state.
LEMMA ExclusionAlways == Spec => []ExclusionInv
<1>1. Init => ExclusionInv
  BY InitTyped DEF ExclusionInv, LockHeld, ContextPublished, Init, Runner
<1>2. ExclusionInv /\ [Next]_vars => ExclusionInv'
  BY TypePreserved, LockInductive, ContextInductive DEF ExclusionInv
<1>3. QED
  BY <1>1, <1>2, PTL DEF Spec

TurnsSerialised ==
    \A m, n \in Msg :
        /\ task[m] \in {"entered", "prompting", "turn", "posting", "reply"}
        /\ task[n] \in {"entered", "prompting", "turn", "posting", "reply"}
        => m = n

\* One dispatched message at a time is between taking processingMu and
\* leaving dispatch, however many tasks, sessions and direct calls there are.
THEOREM OneTurnAtATime == Spec => []TurnsSerialised
<1>1. ExclusionInv => TurnsSerialised
  BY DEF ExclusionInv, LockHeld, TurnsSerialised
<1>2. QED
  BY <1>1, ExclusionAlways, PTL

\* The tools of a dispatched user or hook turn run under the session of its
\* own message, or of a concurrent ProcessDirect call, never of another task.
THEOREM ToolContextCorrect == Spec => []ToolContextIsOwn
<1>1. ExclusionInv => ToolContextIsOwn
  BY DEF ExclusionInv, ContextPublished, ToolContextIsOwn
<1>2. QED
  BY <1>1, ExclusionAlways, PTL

-----------------------------------------------------------------------------
(***************************************************************************)
(* The loop implements MessageService.  The mapping reads the status of a  *)
(* message off the stage of its task; that a step maps to one step of the  *)
(* service needs to know that nothing is settled, cancelled or answered    *)
(* before it was taken, and that Run handles one "/stop" at a time.        *)
(***************************************************************************)

\* The queue holds messages nobody has taken yet, each of them once.
QueueIsFresh ==
    /\ \A i \in 1..Len(inbound) : task[inbound[i]] = "queued"
    /\ \A i, j \in 1..Len(inbound) : inbound[i] = inbound[j] => i = j

\* A message that was not taken has no cancel handle, called or not.
UntakenUntouched ==
    \A m \in Msg : task[m] \in {"unsent", "queued"}
        => m \notin cancelled /\ \A k \in Key : m \notin activeTasks[k]

\* Run handles one "/stop" at a time, and nothing else meanwhile.
OneStopHandled ==
    /\ \A m \in Msg : task[m] = "handling" => loop = "stopping" /\ m \in Stops
    /\ \A m, n \in Msg : task[m] = "handling" /\ task[n] = "handling" => m = n

\* The reply is the last thing a task does.
UnansweredUntilDone == \A m \in Msg : task[m] # "done" => answers[m] = 0

ServiceInv == /\ StoppableInv
              /\ QueueIsFresh
              /\ UntakenUntouched
              /\ OneStopHandled
              /\ UnansweredUntilDone

\* Only a publish lengthens the queue, with a message not yet sent; only Run
\* shortens it, and moves the message it takes on.
LEMMA QueueInductive == TypeOK /\ QueueIsFresh /\ [Next]_vars => QueueIsFresh'
<1> SUFFICES ASSUME TypeOK, QueueIsFresh, [Next]_vars PROVE QueueIsFresh'
  OBVIOUS
<1>0. /\ inbound \in Seq(Msg)
      /\ task \in [Runner -> TaskState]
      /\ Msg \subseteq Runner
  BY DEF TypeOK, Runner
\* A message joins the queue as its task leaves "unsent", others moving only
\* past the queue.
<1>a. ASSUME NEW h \in Msg, task[h] = "unsent", inbound' = Append(inbound, h),
             task'[h] = "queued",
             \A m \in Msg \ {h} : task[m] = "queued" => task'[m] = "queued"
      PROVE  QueueIsFresh'
  <2>1. /\ Len(inbound') = Len(inbound) + 1
        /\ inbound'[Len(inbound) + 1] = h
        /\ \A i \in 1..Len(inbound) : inbound'[i] = inbound[i] /\ inbound[i] \in Msg
        /\ Len(inbound) \in Nat
    BY <1>0, <1>a
  <2>2. \A i \in 1..Len(inbound) : inbound[i] # h
    BY <1>a DEF QueueIsFresh
  <2>3. QED
    BY <1>a, <2>1, <2>2 DEF QueueIsFresh
\* The head leaves the queue.
<1>b. ASSUME inbound # <<>>, inbound' = Tail(inbound),
             \A m \in Msg \ {Head(inbound)} : task'[m] = task[m]
      PROVE  QueueIsFresh'
  <2>1. /\ Len(inbound') = Len(inbound) - 1
        /\ \A i \in 1..Len(inbound') : inbound'[i] = inbound[i + 1]
        /\ Len(inbound) \in Nat \ {0}
        /\ Head(inbound) = inbound[1]
        /\ \A i \in 1..Len(inbound) : inbound[i] \in Msg
    BY <1>0, <1>b
  <2>2. \A i \in 1..Len(inbound') : inbound[i + 1] # inbound[1]
    BY <2>1 DEF QueueIsFresh
  <2>3. QED
    BY <1>b, <2>1, <2>2 DEF QueueIsFresh
\* Nothing leaves or joins it.
<1>c. ASSUME inbound' = inbound,
             \A m \in Msg : task[m] = "queued" => task'[m] = "queued"
      PROVE  QueueIsFresh'
  BY <1>0, <1>c DEF QueueIsFresh
<1> USE <1>0 DEF Goto, busVars, loopVars, turnVars
<1>1. CASE \/ Cancel \/ Stop \/ DispatcherReturns \/ RunExits \/ RunConsumes
           \/ PollExpires \/ DeliverOutbound \/ UNCHANGED vars
  BY <1>1, <1>c DEF Cancel, Stop, DispatcherReturns, RunExits, Exit, RunConsumes,
                    PollExpires, DeliverOutbound, vars
<1>2. CASE SpawnTask
  BY <1>2, <1>b DEF SpawnTask
<1>3. CASE HandleStop
  BY <1>3, <1>b DEF HandleStop
<1>4. ASSUME NEW m \in Stops, ReplyToStop(m) PROVE QueueIsFresh'
  BY <1>4, <1>c DEF ReplyToStop, Stops
<1>5. ASSUME NEW m \in Msg, PublishInbound(m) PROVE QueueIsFresh'
  BY <1>5, <1>a DEF PublishInbound
<1>6. ASSUME NEW m \in Msg, RunCommand(m) \/ Acquire(m) \/ PublishReply(m)
      PROVE  QueueIsFresh'
  BY <1>6, <1>c DEF RunCommand, Acquire, PublishReply, Leave
<1>7. ASSUME NEW d \in Direct, ProcessDirect(d) PROVE QueueIsFresh'
  BY <1>7, <1>c DEF ProcessDirect, Runner
<1>8. ASSUME NEW r \in Runner, \/ SetToolContext(r) \/ BuildPrompt(r)
                               \/ EmitProgress(r) \/ TurnFails(r) \/ TurnCancelled(r)
      PROVE  QueueIsFresh'
  BY <1>8, <1>c DEF SetToolContext, BuildPrompt, EmitProgress, TurnFails,
                    TurnCancelled, Leave
<1>9. ASSUME NEW r \in Runner, TurnEnds(r) \/ HookNotFired(r) PROVE QueueIsFresh'
  BY <1>9, <1>c DEF TurnEnds, HookNotFired, Conclude, Leave
<1>10. ASSUME NEW r \in Runner, FireHook(r) PROVE QueueIsFresh'
  <2>1. PICK h \in Hooks : /\ task[h] = "unsent"
                           /\ inbound' = Append(inbound, h)
                           /\ \/ task' = [task EXCEPT ![h] = "queued", ![r] = "reply"]
                              \/ task' = [task EXCEPT ![h] = "queued", ![r] = "done"]
    BY <1>10 DEF FireHook
  <2>2. h \in Msg /\ task[r] = "posting"
    BY <1>10 DEF Hooks, FireHook
  <2>3. QED
    BY <2>1, <2>2, <1>a
<1>11. QED
  BY <1>1, <1>2, <1>3, <1>4, <1>5, <1>6, <1>7, <1>8, <1>9, <1>10, NextCases

\* The message Run takes was waiting in the queue.
LEMMA HeadIsQueued ==
    ASSUME TypeOK, QueueIsFresh, inbound # <<>>
    PROVE  Head(inbound) \in Msg /\ task[Head(inbound)] = "queued"
<1>1. inbound \in Seq(Msg)
  BY DEF TypeOK
<1>2. 1 \in 1..Len(inbound) /\ Head(inbound) = inbound[1] /\ inbound[1] \in Msg
  BY <1>1
<1>3. QED
  BY <1>2 DEF QueueIsFresh

\* A cancel handle comes to be when its message is taken, and is called only
\* if it is on file.
LEMMA UntakenInductive ==
    TypeOK /\ QueueIsFresh /\ UntakenUntouched /\ [Next]_vars => UntakenUntouched'
<1> SUFFICES ASSUME TypeOK, QueueIsFresh, UntakenUntouched, [Next]_vars
             PROVE  UntakenUntouched'
  OBVIOUS
<1>0. /\ task \in [Runner -> TaskState]
      /\ activeTasks \in [Key -> SUBSET Msg]
      /\ Msg \subseteq Runner
      /\ \A m \in Msg : KeyOf[m] \in Key
      /\ inbound # <<>> => Head(inbound) \in Msg
  BY ConstantsOK DEF TypeOK, Runner, ConstantsOK
\* Handles and calls stay, and no task goes back to the queue.
<1>a. ASSUME UNCHANGED <<activeTasks, cancelled>>,
             \A m \in Msg : task'[m] \in {"unsent", "queued"}
                 => task[m] \in {"unsent", "queued"}
      PROVE  UntakenUntouched'
  BY <1>a DEF UntakenUntouched
<1> USE <1>0 DEF Goto, busVars, loopVars, turnVars
<1>1. CASE \/ Cancel \/ Stop \/ DispatcherReturns \/ RunConsumes
           \/ PollExpires \/ DeliverOutbound \/ UNCHANGED vars
  BY <1>1, <1>a DEF Cancel, Stop, DispatcherReturns, RunConsumes, PollExpires,
                    DeliverOutbound, vars
<1>2. CASE RunExits
  BY <1>2 DEF RunExits, Exit, UntakenUntouched
<1>3. CASE SpawnTask
  BY <1>3 DEF SpawnTask, Register, UntakenUntouched
<1>4. CASE HandleStop
  BY <1>4 DEF HandleStop, StopTargets, UntakenUntouched
<1>5. ASSUME NEW m \in Stops, ReplyToStop(m) PROVE UntakenUntouched'
  BY <1>5, <1>a DEF ReplyToStop, Stops
<1>6. ASSUME NEW m \in Msg, \/ PublishInbound(m) \/ RunCommand(m)
                            \/ Acquire(m) \/ PublishReply(m)
      PROVE  UntakenUntouched'
  BY <1>6, <1>a DEF PublishInbound, RunCommand, Acquire, PublishReply, Leave
<1>7. ASSUME NEW d \in Direct, ProcessDirect(d) PROVE UntakenUntouched'
  BY <1>7, <1>a DEF ProcessDirect, Runner
<1>8. ASSUME NEW r \in Runner, \/ SetToolContext(r) \/ BuildPrompt(r)
                               \/ EmitProgress(r) \/ TurnFails(r) \/ TurnCancelled(r)
      PROVE  UntakenUntouched'
  BY <1>8, <1>a DEF SetToolContext, BuildPrompt, EmitProgress, TurnFails,
                    TurnCancelled, Leave
<1>9. ASSUME NEW r \in Runner, TurnEnds(r) \/ HookNotFired(r) \/ FireHook(r)
      PROVE  UntakenUntouched'
  BY <1>9, <1>a DEF TurnEnds, HookNotFired, FireHook, Conclude, Leave, Hooks
<1>10. QED
  BY <1>1, <1>2, <1>3, <1>4, <1>5, <1>6, <1>7, <1>8, <1>9, NextCases

\* Run takes a "/stop" only between two others.
LEMMA OneStopInductive ==
    TypeOK /\ OneStopHandled /\ [Next]_vars => OneStopHandled'
<1> SUFFICES ASSUME TypeOK, OneStopHandled, [Next]_vars PROVE OneStopHandled'
  OBVIOUS
<1>0. /\ task \in [Runner -> TaskState]
      /\ Msg \subseteq Runner
      /\ inbound # <<>> => Head(inbound) \in Msg
  BY DEF TypeOK, Runner
\* A step outside handleStop starts the handling of none.
<1>a. ASSUME loop # "stopping" \/ loop' = loop,
             \A m \in Msg : task'[m] = "handling" => task[m] = "handling"
      PROVE  OneStopHandled'
  BY <1>a DEF OneStopHandled
<1> USE <1>0 DEF Goto, busVars, loopVars, turnVars
<1>1. CASE \/ Cancel \/ Stop \/ DispatcherReturns \/ RunConsumes \/ RunExits
           \/ PollExpires \/ DeliverOutbound \/ UNCHANGED vars
  BY <1>1, <1>a DEF Cancel, Stop, DispatcherReturns, RunConsumes, RunExits, Exit,
                    PollExpires, DeliverOutbound, vars
<1>2. CASE SpawnTask
  BY <1>2, <1>a DEF SpawnTask
<1>3. CASE HandleStop
  BY <1>3 DEF HandleStop, OneStopHandled
<1>4. ASSUME NEW m \in Stops, ReplyToStop(m) PROVE OneStopHandled'
  BY <1>4 DEF ReplyToStop, Stops, OneStopHandled
<1>5. ASSUME NEW m \in Msg, \/ PublishInbound(m) \/ RunCommand(m)
                            \/ Acquire(m) \/ PublishReply(m)
      PROVE  OneStopHandled'
  BY <1>5, <1>a DEF PublishInbound, RunCommand, Acquire, PublishReply, Leave
<1>6. ASSUME NEW d \in Direct, ProcessDirect(d) PROVE OneStopHandled'
  BY <1>6, <1>a DEF ProcessDirect, Runner
<1>7. ASSUME NEW r \in Runner, \/ SetToolContext(r) \/ BuildPrompt(r)
                               \/ EmitProgress(r) \/ TurnFails(r) \/ TurnCancelled(r)
      PROVE  OneStopHandled'
  BY <1>7, <1>a DEF SetToolContext, BuildPrompt, EmitProgress, TurnFails,
                    TurnCancelled, Leave
<1>8. ASSUME NEW r \in Runner, TurnEnds(r) \/ HookNotFired(r) \/ FireHook(r)
      PROVE  OneStopHandled'
  BY <1>8, <1>a DEF TurnEnds, HookNotFired, FireHook, Conclude, Leave, Hooks
<1>9. QED
  BY <1>1, <1>2, <1>3, <1>4, <1>5, <1>6, <1>7, <1>8, NextCases

\* A task that publishes its reply is done in the same step.
LEMMA UnansweredInductive ==
    TypeOK /\ QueueIsFresh /\ UnansweredUntilDone /\ [Next]_vars
        => UnansweredUntilDone'
<1> SUFFICES ASSUME TypeOK, QueueIsFresh, UnansweredUntilDone, [Next]_vars
             PROVE  UnansweredUntilDone'
  OBVIOUS
<1>0. /\ task \in [Runner -> TaskState]
      /\ answers \in [Msg -> Nat]
      /\ Msg \subseteq Runner
      /\ inbound # <<>> => Head(inbound) \in Msg
  BY DEF TypeOK, Runner
\* No reply, and no task that was done is again at work.
<1>a. ASSUME answers' = answers,
             \A m \in Msg : task'[m] # "done" => task[m] # "done"
      PROVE  UnansweredUntilDone'
  BY <1>a DEF UnansweredUntilDone
\* The final reply to a message, and its task is done.
<1>b. ASSUME NEW x \in Msg, Answer(x), task' = [task EXCEPT ![x] = "done"]
      PROVE  UnansweredUntilDone'
  BY <1>0, <1>b DEF Answer, UnansweredUntilDone
<1> USE <1>0 DEF Goto, busVars, loopVars, turnVars
<1>1. CASE \/ Cancel \/ Stop \/ DispatcherReturns \/ RunConsumes \/ RunExits
           \/ PollExpires \/ DeliverOutbound \/ UNCHANGED vars
  BY <1>1, <1>a DEF Cancel, Stop, DispatcherReturns, RunConsumes, RunExits, Exit,
                    PollExpires, DeliverOutbound, vars
<1>2. CASE SpawnTask \/ HandleStop
  BY <1>2, <1>a, HeadIsQueued DEF SpawnTask, HandleStop
<1>3. ASSUME NEW m \in Stops, ReplyToStop(m) PROVE UnansweredUntilDone'
  BY <1>3, <1>b DEF ReplyToStop, Stops
<1>4. ASSUME NEW m \in Msg, PublishReply(m) PROVE UnansweredUntilDone'
  BY <1>4, <1>b DEF PublishReply, Leave
<1>5. ASSUME NEW m \in Msg, PublishInbound(m) \/ RunCommand(m) \/ Acquire(m)
      PROVE  UnansweredUntilDone'
  BY <1>5, <1>a DEF PublishInbound, RunCommand, Acquire
<1>6. ASSUME NEW d \in Direct, ProcessDirect(d) PROVE UnansweredUntilDone'
  BY <1>6, <1>a DEF ProcessDirect, Runner
<1>7. ASSUME NEW r \in Runner, \/ SetToolContext(r) \/ BuildPrompt(r)
                               \/ EmitProgress(r) \/ TurnFails(r) \/ TurnCancelled(r)
      PROVE  UnansweredUntilDone'
  BY <1>7, <1>a DEF SetToolContext, BuildPrompt, EmitProgress, TurnFails,
                    TurnCancelled, Leave
<1>8. ASSUME NEW r \in Runner, TurnEnds(r) \/ HookNotFired(r) \/ FireHook(r)
      PROVE  UnansweredUntilDone'
  BY <1>8, <1>a DEF TurnEnds, HookNotFired, FireHook, Conclude, Leave, Hooks
<1>9. QED
  BY <1>1, <1>2, <1>3, <1>4, <1>5, <1>6, <1>7, <1>8, NextCases

\* All of it holds in every reachable state.
LEMMA ServiceInvAlways == Spec => []ServiceInv
<1>1. Init => ServiceInv
  <2> SUFFICES ASSUME Init PROVE ServiceInv
    OBVIOUS
  <2>1. StoppableInv
    BY InitTyped DEF StoppableInv, HandlesFiledByKey, LiveTasksStoppable, Live,
                     Working, Init, Runner
  <2>2. Len(inbound) = 0
    BY DEF Init
  <2>3. QueueIsFresh
    BY <2>2 DEF QueueIsFresh
  <2>4. UntakenUntouched /\ OneStopHandled /\ UnansweredUntilDone
    BY DEF UntakenUntouched, OneStopHandled, UnansweredUntilDone, Init, Runner
  <2>5. QED
    BY <2>1, <2>3, <2>4 DEF ServiceInv
<1>2. ServiceInv /\ [Next]_vars => ServiceInv'
  BY StoppableInductive, QueueInductive, UntakenInductive, OneStopInductive,
     UnansweredInductive DEF ServiceInv, StoppableInv
<1>3. QED
  BY <1>1, <1>2, PTL DEF Spec

-----------------------------------------------------------------------------
(***************************************************************************)
(* The steps of the refinement.  Status is what the mapping of Service     *)
(* substitutes for its variable of that name, and Down for "down".         *)
(***************************************************************************)
Status == [m \in Msg |-> StatusOf(m)]
Down   == ctxDone \/ loop = "exited"

Untaken == {"unsent", "queued"}
AtWork  == Working \cup {"handling"}

\* A stutter of the service: every message keeps its status.
LEMMA Stutters ==
    ASSUME answers' = answers, Down' = Down,
           \A m \in Msg : StatusOf(m)' = StatusOf(m)
    PROVE  UNCHANGED Service!vars
  BY DEF Service!vars, Down

\* A message settles: one status changes and the loop does not go down.
LEMMA Settles ==
    ASSUME NEW x \in Msg, NEW s, UNCHANGED Down,
           \A m \in Msg \ {x} : StatusOf(m)' = StatusOf(m),
           StatusOf(x)' = s
    PROVE  Status' = [Status EXCEPT ![x] = s]
  BY DEF Status

\* The status of a message depends on where its task stands, on whether it
\* is cancelled, and on its replies.
LEMMA SameStatus ==
    ASSUME NEW m \in Msg,
           \/ task'[m] = task[m]
           \/ task[m] \in Untaken /\ task'[m] \in Untaken
           \/ task[m] \in AtWork /\ task'[m] \in AtWork,
           Cancelled(m)' = Cancelled(m), answers'[m] = answers[m]
    PROVE  StatusOf(m)' = StatusOf(m)
  BY DEF StatusOf, Untaken, AtWork, Working

\* A task that works on leaves its message open; one that is done without a
\* reply settles a message that was quiet or withdrawn.
LEMMA TurnStep ==
    ASSUME ServiceInv, NEW r \in Runner,
           UNCHANGED <<ctxDone, cancelled, loop, answers>>,
           \A m \in Msg \ {r} : \/ task'[m] = task[m]
                                \/ task[m] \in Untaken /\ task'[m] \in Untaken,
           r \in Msg => /\ task[r] \in AtWork
                        /\ \/ task'[r] \in AtWork
                           \/ task'[r] = "done" /\ (r \in Quiet \/ Cancelled(r))
    PROVE  [Service!Next]_(Service!vars)
<1>1. \A m \in Msg : Cancelled(m)' = Cancelled(m)
  BY DEF Cancelled
<1>2. \A m \in Msg \ {r} : StatusOf(m)' = StatusOf(m)
  BY <1>1, SameStatus
<1>3. Down' = Down
  BY DEF Down
<1>4. CASE r \notin Msg \/ task'[r] \in AtWork
  <2>1. \A m \in Msg : StatusOf(m)' = StatusOf(m)
    BY <1>1, <1>2, <1>4, SameStatus
  <2>2. QED
    BY <1>3, <2>1, Stutters
<1>5. CASE r \in Msg /\ task'[r] = "done" /\ (r \in Quiet \/ Cancelled(r))
  <2>1. answers'[r] = 0
    BY <1>5 DEF ServiceInv, UnansweredUntilDone, AtWork, Working
  <2>2. StatusOf(r)' = IF r \in Quiet THEN "silent" ELSE "abandoned"
    BY <1>5, <2>1 DEF StatusOf, Working
  <2>3. StatusOf(r) = IF Cancelled(r) THEN "withdrawn" ELSE "pending"
    BY <1>5 DEF StatusOf, AtWork, Working
  <2>4. CASE r \in Quiet
    <3>1. Status' = [Status EXCEPT ![r] = "silent"]
      BY <1>2, <1>3, <1>5, <2>2, <2>4, Settles
    <3>2. Service!SettleSilently(r)
      BY <1>3, <1>5, <2>3, <2>4, <3>1
         DEF Service!SettleSilently, Service!Open, Status, Down
    <3>3. QED
      BY <1>5, <3>2 DEF Service!Next
  <2>5. CASE r \notin Quiet
    <3>1. Status' = [Status EXCEPT ![r] = "abandoned"]
      BY <1>2, <1>3, <1>5, <2>2, <2>5, Settles
    <3>2. Service!Abandon(r)
      BY <1>3, <1>5, <2>3, <2>5, <3>1 DEF Service!Abandon, Status, Down
    <3>3. QED
      BY <1>5, <3>2 DEF Service!Next
  <2>6. QED
    BY <2>4, <2>5
<1>6. QED
  BY <1>4, <1>5

\* The last publish of a task, or of handleStop: an answer, or, the message
\* being cancelled, none.
LEMMA ReplyStep ==
    ASSUME ServiceInv, NEW x \in Msg, task[x] \in AtWork, Answer(x),
           task' = [task EXCEPT ![x] = "done"],
           UNCHANGED <<ctxDone, cancelled>>, Down' = Down
    PROVE  [Service!Next]_(Service!vars)
<1>0. /\ task \in [Runner -> TaskState] /\ Msg \subseteq Runner
      /\ answers \in [Msg -> Nat] /\ answers[x] = 0
  BY DEF ServiceInv, StoppableInv, TypeOK, Runner, UnansweredUntilDone, AtWork, Working
<1>1. \A m \in Msg : Cancelled(m)' = Cancelled(m)
  BY DEF Cancelled
<1>2. \A m \in Msg \ {x} : task'[m] = task[m] /\ answers'[m] = answers[m]
  BY <1>0 DEF Answer
<1>3. \A m \in Msg \ {x} : StatusOf(m)' = StatusOf(m)
  BY <1>1, <1>2, SameStatus
<1>4. task'[x] = "done"
  BY <1>0
<1>5. StatusOf(x) = IF Cancelled(x) THEN "withdrawn" ELSE "pending"
  BY DEF StatusOf, AtWork, Working
<1>6. CASE answers' = [answers EXCEPT ![x] = @ + 1]
  <2>1. answers'[x] = 1
    BY <1>0, <1>6
  <2>2. StatusOf(x)' = "answered"
    BY <1>4, <2>1 DEF StatusOf, Working
  <2>3. Status' = [Status EXCEPT ![x] = "answered"]
    BY <1>3, <2>2, Settles
  <2>4. Service!Answer(x)
    BY <1>5, <1>6, <2>3 DEF Service!Answer, Service!Open, Status, Down
  <2>5. QED
    BY <2>4 DEF Service!Next
<1>7. CASE Cancelled(x) /\ answers' = answers
  <2>1. CASE x \in Quiet
    <3>1. StatusOf(x)' = "silent"
      BY <1>0, <1>4, <1>7, <2>1 DEF StatusOf, Working
    <3>2. Status' = [Status EXCEPT ![x] = "silent"]
      BY <1>3, <3>1, Settles
    <3>3. Service!SettleSilently(x)
      BY <1>5, <1>7, <2>1, <3>2
         DEF Service!SettleSilently, Service!Open, Status, Down
    <3>4. QED
      BY <3>3 DEF Service!Next
  <2>2. CASE x \notin Quiet
    <3>1. StatusOf(x)' = "abandoned"
      BY <1>0, <1>4, <1>7, <2>2 DEF StatusOf, Working
    <3>2. Status' = [Status EXCEPT ![x] = "abandoned"]
      BY <1>3, <3>1, Settles
    <3>3. Service!Abandon(x)
      BY <1>5, <1>7, <3>2 DEF Service!Abandon, Status, Down
    <3>4. QED
      BY <3>3 DEF Service!Next
  <2>3. QED
    BY <2>1, <2>2
<1>8. QED
  BY <1>6, <1>7 DEF Answer

\* Everything the loop has taken and nobody withdrew has a handle on file.
LEMMA PendingOnFile ==
    ASSUME ServiceInv, NEW m \in Msg, StatusOf(m) = "pending", loop # "stopping"
    PROVE  /\ m \notin cancelled /\ ~ctxDone /\ loop # "exited"
           /\ m \in activeTasks[KeyOf[m]]
<1>1. task[m] \in AtWork /\ ~Cancelled(m)
  BY DEF StatusOf, AtWork
<1>2. task[m] # "handling"
  BY DEF ServiceInv, OneStopHandled
<1>3. QED
  BY <1>1, <1>2 DEF Cancelled, AtWork, ServiceInv, StoppableInv,
                    LiveTasksStoppable, Live


\* Run takes a message: its task is pending, or withdrawn from the start
\* when the shutdown has begun.
LEMMA SpawnStep == ServiceInv /\ SpawnTask => [Service!Next]_(Service!vars)
<1> SUFFICES ASSUME ServiceInv, SpawnTask PROVE [Service!Next]_(Service!vars)
  OBVIOUS
<1>p. PICK x \in Msg : x = Head(inbound) /\ task[x] = "queued"
  BY HeadIsQueued DEF SpawnTask, HandleStop, ServiceInv, StoppableInv
<1>0. /\ task \in [Runner -> TaskState] /\ Msg \subseteq Runner
      /\ x \in Msg /\ task[x] = "queued" /\ x \notin Stops
      /\ UNCHANGED <<ctxDone, cancelled, answers>>
      /\ task' = [task EXCEPT ![x] = "waiting"]
      /\ ctxDone \in BOOLEAN /\ loop = "consume" /\ loop' = "top"
  BY <1>p
     DEF SpawnTask, Goto, ServiceInv, StoppableInv, TypeOK, Runner, turnVars
<1>1. Down' = Down /\ Down = ctxDone
  BY <1>0 DEF Down
<1>2. \A m \in Msg \ {x} : StatusOf(m)' = StatusOf(m)
  BY <1>0, SameStatus DEF Cancelled
<1>3. StatusOf(x) = "new"
  BY <1>0 DEF StatusOf, Working
<1>4. x \notin cancelled
  BY <1>0 DEF ServiceInv, UntakenUntouched
<1>5. StatusOf(x)' = IF ctxDone THEN "withdrawn" ELSE "pending"
  BY <1>0, <1>4 DEF StatusOf, Cancelled, Working
<1>6. Status' = [Status EXCEPT ![x] = IF Down THEN "withdrawn" ELSE "pending"]
  BY <1>0, <1>1, <1>2, <1>5, Settles
<1>7. Service!Accept(x)
  BY <1>0, <1>1, <1>3, <1>6 DEF Service!Accept, Service!Taken, Status, Down
<1>8. QED
  BY <1>0, <1>7 DEF Service!Next

\* Run takes a "/stop": what its key has pending is withdrawn, and nothing
\* else.
LEMMA StopStep == ServiceInv /\ HandleStop => [Service!Next]_(Service!vars)
<1> SUFFICES ASSUME ServiceInv, HandleStop PROVE [Service!Next]_(Service!vars)
  OBVIOUS
<1>p. PICK x \in Msg : x = Head(inbound) /\ task[x] = "queued"
  BY HeadIsQueued DEF SpawnTask, HandleStop, ServiceInv, StoppableInv
<1>0. /\ task \in [Runner -> TaskState] /\ Msg \subseteq Runner
      /\ x \in Msg /\ task[x] = "queued" /\ x \in Stops
      /\ UNCHANGED <<ctxDone, answers>>
      /\ task' = [task EXCEPT ![x] = "handling"]
      /\ cancelled' = cancelled \cup activeTasks[KeyOf[x]]
      /\ ctxDone \in BOOLEAN /\ loop = "consume" /\ loop' = "stopping"
  BY <1>p
     DEF HandleStop, StopTargets, Goto, ServiceInv, StoppableInv, TypeOK, Runner, turnVars
<1>k. \A m \in Msg : KeyOf[m] \in Key
  BY ConstantsOK DEF ConstantsOK, Runner
<1>1. Down' = Down /\ Down = ctxDone
  BY <1>0 DEF Down
<1>2. StatusOf(x) = "new"
  BY <1>0 DEF StatusOf, Working
<1>3. x \notin cancelled'
  BY <1>0, <1>k DEF ServiceInv, UntakenUntouched
<1>4. StatusOf(x)' = IF ctxDone THEN "withdrawn" ELSE "pending"
  BY <1>0, <1>3 DEF StatusOf, Cancelled, Working
<1>5. ASSUME NEW m \in Msg \ {x}
      PROVE  StatusOf(m)' = IF StatusOf(m) = "pending" /\ KeyOf[m] = KeyOf[x]
                            THEN "withdrawn" ELSE StatusOf(m)
  <2>1. task'[m] = task[m] /\ answers'[m] = answers[m]
    BY <1>0
  <2>2. CASE StatusOf(m) = "pending" /\ KeyOf[m] = KeyOf[x]
    <3>1. m \in cancelled'
      BY <1>0, <2>2, PendingOnFile
    <3>2. QED
      BY <2>1, <2>2, <3>1 DEF StatusOf, Cancelled
  <2>3. CASE StatusOf(m) = "pending" /\ KeyOf[m] # KeyOf[x]
    <3>1. m \notin activeTasks[KeyOf[x]]
      BY <1>0, <1>k, <2>3 DEF ServiceInv, StoppableInv, HandlesFiledByKey
    <3>2. Cancelled(m)' = Cancelled(m)
      BY <1>0, <3>1 DEF Cancelled
    <3>3. QED
      BY <2>1, <2>3, <3>2, SameStatus
  <2>4. CASE StatusOf(m) # "pending"
    <3>1. Cancelled(m) => Cancelled(m)'
      BY <1>0 DEF Cancelled
    <3>2. QED
      BY <2>1, <2>4, <3>1 DEF StatusOf
  <2>5. QED
    BY <2>2, <2>3, <2>4
<1>6. Status' = [n \in Msg |->
                   IF n = x THEN IF Down THEN "withdrawn" ELSE "pending"
                   ELSE IF Status[n] = "pending" /\ KeyOf[n] = KeyOf[x]
                        THEN "withdrawn" ELSE Status[n]]
  BY <1>0, <1>1, <1>4, <1>5 DEF Status
<1>7. Service!AcceptStop(x)
  BY <1>0, <1>1, <1>2, <1>6 DEF Service!AcceptStop, Service!Taken, Status, Down
<1>8. QED
  BY <1>0, <1>7 DEF Service!Next

\* The shutdown of the service: the context is cancelled, or Run returns,
\* calling every handle on file; the second of them changes nothing.
LEMMA DownStep ==
    ASSUME ServiceInv, UNCHANGED <<task, answers>>, Down', cancelled \subseteq cancelled',
           ctxDone => ctxDone',
           \A m \in Msg : StatusOf(m) = "pending" => Cancelled(m)'
    PROVE  [Service!Next]_(Service!vars)
<1>1. ASSUME NEW m \in Msg
      PROVE  StatusOf(m)' = IF StatusOf(m) = "pending" THEN "withdrawn" ELSE StatusOf(m)
  <2>1. Cancelled(m) => Cancelled(m)'
    BY DEF Cancelled
  <2>2. CASE StatusOf(m) = "pending"
    BY <2>2 DEF StatusOf
  <2>3. CASE StatusOf(m) # "pending"
    BY <2>1, <2>3 DEF StatusOf
  <2>4. QED
    BY <2>2, <2>3
<1>2. CASE Down
  <2>1. \A m \in Msg : StatusOf(m) # "pending"
    <3> SUFFICES ASSUME NEW m \in Msg, StatusOf(m) = "pending" PROVE FALSE
      OBVIOUS
    <3>1. ~ctxDone /\ m \notin cancelled /\ task[m] \in AtWork
      BY DEF StatusOf, Cancelled, AtWork
    <3>2. loop = "exited"
      BY <1>2, <3>1 DEF Down
    <3>3. QED
      BY <3>2, PendingOnFile
  <2>2. \A m \in Msg : StatusOf(m)' = StatusOf(m)
    BY <1>1, <2>1
  <2>3. Down' = Down
    BY <1>2 DEF Down
  <2>4. QED
    BY <2>2, <2>3, Stutters
<1>3. CASE ~Down
  <2>1. Status' = [m \in Msg |-> IF Status[m] = "pending" THEN "withdrawn" ELSE Status[m]]
    BY <1>1 DEF Status
  <2>2. Service!Shutdown
    BY <1>3, <2>1 DEF Service!Shutdown, Status, Down
  <2>3. QED
    BY <2>2 DEF Service!Next
<1>4. QED
  BY <1>2, <1>3

\* Every step of the loop is a step of the service, or none.
LEMMA StepSimulated ==
    ServiceInv /\ [Next]_vars => [Service!Next]_(Service!vars)
<1> SUFFICES ASSUME ServiceInv, [Next]_vars PROVE [Service!Next]_(Service!vars)
  OBVIOUS
<1>0. task \in [Runner -> TaskState] /\ Msg \subseteq Runner /\ Msg \cap Direct = {}
  BY ConstantsOK DEF ServiceInv, StoppableInv, TypeOK, Runner, ConstantsOK
<1> USE DEF Goto, busVars, loopVars, turnVars
<1>1. CASE Cancel
  BY <1>1, DownStep DEF Cancel, Down, Cancelled
<1>2. CASE RunExits
  <2>1. /\ UNCHANGED <<task, answers, ctxDone>> /\ loop' = "exited"
        /\ loop \in {"top", "consume"}
        /\ cancelled' = cancelled \cup UNION {activeTasks[k] : k \in Key}
    BY <1>2 DEF RunExits, Exit
  <2>2. \A m \in Msg : StatusOf(m) = "pending" => m \in cancelled'
    BY <2>1, PendingOnFile, ConstantsOK DEF ConstantsOK, Runner
  <2>3. QED
    BY <2>1, <2>2, DownStep DEF Down, Cancelled
<1>3. CASE Stop \/ DeliverOutbound \/ DispatcherReturns \/ UNCHANGED vars
  <2>1. UNCHANGED <<ctxDone, loop, cancelled, task, answers>>
    BY <1>3 DEF Stop, DeliverOutbound, DispatcherReturns, vars
  <2>2. QED
    BY <2>1, SameStatus, Stutters DEF Down, Cancelled
<1>4. CASE RunConsumes \/ PollExpires
  <2>1. UNCHANGED <<ctxDone, cancelled, task, answers>> /\ Down' = Down
    BY <1>4 DEF RunConsumes, PollExpires, Down
  <2>2. QED
    BY <2>1, SameStatus, Stutters DEF Cancelled
<1>5. CASE SpawnTask
  BY <1>5, SpawnStep
<1>6. CASE HandleStop
  BY <1>6, StopStep
<1>7. ASSUME NEW x \in Stops, ReplyToStop(x) PROVE [Service!Next]_(Service!vars)
  BY <1>7, ReplyStep DEF ReplyToStop, Stops, AtWork, Down
<1>8. ASSUME NEW x \in Msg, PublishReply(x) PROVE [Service!Next]_(Service!vars)
  BY <1>8, ReplyStep DEF PublishReply, Leave, AtWork, Working, Down
<1>9. ASSUME NEW x \in Msg, PublishInbound(x) PROVE [Service!Next]_(Service!vars)
  <2>1. /\ UNCHANGED <<ctxDone, loop, cancelled, answers>>
        /\ task[x] = "unsent" /\ task' = [task EXCEPT ![x] = "queued"]
    BY <1>9 DEF PublishInbound
  <2>2. \A m \in Msg : StatusOf(m)' = StatusOf(m)
    BY <1>0, <2>1, SameStatus DEF Untaken, Cancelled
  <2>3. QED
    BY <2>1, <2>2, Stutters DEF Down
<1>10. ASSUME NEW x \in Msg, RunCommand(x) \/ Acquire(x)
       PROVE  [Service!Next]_(Service!vars)
  BY <1>0, <1>10, TurnStep DEF RunCommand, Acquire, AtWork, Working
<1>11. ASSUME NEW d \in Direct, ProcessDirect(d) PROVE [Service!Next]_(Service!vars)
  BY <1>0, <1>11, TurnStep DEF ProcessDirect, Runner
<1>12. ASSUME NEW r \in Runner, SetToolContext(r) \/ BuildPrompt(r) \/ EmitProgress(r)
       PROVE  [Service!Next]_(Service!vars)
  BY <1>0, <1>12, TurnStep DEF SetToolContext, BuildPrompt, EmitProgress, AtWork, Working
<1>13. ASSUME NEW r \in Runner, TurnEnds(r) \/ HookNotFired(r)
       PROVE  [Service!Next]_(Service!vars)
  BY <1>0, <1>13, TurnStep
     DEF TurnEnds, HookNotFired, Conclude, Leave, AtWork, Working
<1>14. ASSUME NEW r \in Runner, TurnFails(r) \/ TurnCancelled(r)
       PROVE  [Service!Next]_(Service!vars)
  BY <1>0, <1>14, TurnStep DEF TurnFails, TurnCancelled, Leave, AtWork, Working
<1>15. ASSUME NEW r \in Runner, FireHook(r) PROVE [Service!Next]_(Service!vars)
  <2>1. PICK h \in Hooks : /\ task[h] = "unsent"
                           /\ IF r \in Msg \ Quiet
                              THEN task' = [task EXCEPT ![h] = "queued", ![r] = "reply"]
                              ELSE task' = [task EXCEPT ![h] = "queued", ![r] = "done"]
    BY <1>15 DEF FireHook
  <2>2. UNCHANGED <<ctxDone, loop, cancelled, answers>> /\ task[r] = "posting"
    BY <1>15 DEF FireHook
  <2>3. h \in Msg /\ h # r
    BY <2>1, <2>2 DEF Hooks
  <2>4. \A m \in Msg \ {r} : \/ task'[m] = task[m]
                             \/ task[m] \in Untaken /\ task'[m] \in Untaken
    BY <1>0, <2>1, <2>3 DEF Untaken
  <2>5. r \in Msg => /\ task[r] \in AtWork
                     /\ \/ task'[r] \in AtWork
                        \/ task'[r] = "done" /\ (r \in Quiet \/ Cancelled(r))
    BY <1>0, <2>1, <2>2, <2>3 DEF AtWork, Working
  <2>6. QED
    BY <2>2, <2>4, <2>5, TurnStep
<1>16. QED
  BY <1>1, <1>2, <1>3, <1>4, <1>5, <1>6, <1>7, <1>8, <1>9, <1>10, <1>11, <1>12,
     <1>13, <1>14, <1>15, NextCases

\* Whatever the publishers, turns, stops, full queues and the shutdown do to
\* the loop, it keeps the promise of MessageService: every message it takes is
\* settled once, and left without a reply only if quiet or withdrawn.
THEOREM LoopImplementsService == Spec => ImplementsService
<1>1. Init => Service!Init
  BY DEF Init, Service!Init, StatusOf, Working, Runner
<1>2. QED
  BY <1>1, StepSimulated, ServiceInvAlways, PTL DEF Spec, ImplementsService, Service!Spec
=============================================================================
