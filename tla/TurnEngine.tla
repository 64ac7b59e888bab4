------------------------------ MODULE TurnEngine ------------------------------
(***************************************************************************)
(* One turn of the agent: processTurnInline and runAgentLoop               *)
(* (exoclaw/agent/loop.go), the message buffer of DirectExecutor           *)
(* (exoclaw/executor/direct.go), and what reaches the session log on the   *)
(* way (conversation-file/conversation.go, session/manager.go).            *)
(*                                                                         *)
(* A turn builds its prompt, then alternates between the model and the     *)
(* tools until the model stops, the iterations run out, or something       *)
(* fails.  Every message goes to the executor's buffer, which the next     *)
(* request is loaded from, and to the session's log.                       *)
(*                                                                         *)
(* The executor keeps a buffer per turn context, which BuildPrompt fills,  *)
(* and one of its own for callers without a context: LoadMessages,         *)
(* AppendMessages and SetMessages, which the loop calls, use the latter.   *)
(***************************************************************************)
EXTENDS History

CONSTANTS Turn,                \* the turns that may run
          Direct,              \* those of ProcessDirect, which takes no lock
          Session,             \* session ids
          SessionOf,           \* the session of each turn
          CallsOf,             \* bound: tool calls in one response, for each turn
          MaxIterations,       \* AgentLoop.MaxIterations
          MaxRecoveryAttempts  \* AgentLoop.MaxRecoveryAttempts

ASSUME TurnConstants ==
    /\ Direct \subseteq Turn
    /\ SessionOf \in [Turn -> Session]
    /\ CallsOf \in [Turn -> Nat]
    /\ MaxIterations \in Nat \ {0}
    /\ MaxRecoveryAttempts \in Nat

VARIABLES
    pc,          \* where each turn is
    iteration,   \* runAgentLoop's iteration
    recoveries,  \* runAgentLoop's recoveryAttempts
    todo,        \* the tool calls of the last response still to be handled
    request,     \* the messages of the turn's last request to the model
    outcome,     \* how the turn is going to end
    prompt,      \* the buffer bound to the turn's context
    prior,       \* stateFallback.prior
    delta,       \* stateFallback.delta
    files,       \* the scratch files of streamed results
    log          \* the session logs

turnState == <<pc, iteration, recoveries, todo, request, outcome, prompt>>
buffer    == <<prior, delta>>
vars      == <<turnState, buffer, files, log>>

(***************************************************************************)
(* Messages                                                                *)
(***************************************************************************)

\* An id names a tool call: the turn, the iteration and the place of the call
\* in the response.  An "empty" message is an answer without text.
Place   == UNION {1..CallsOf[t] : t \in Turn}
Kind    == {"user", "calls", "bare", "result", "file", "excerpt", "final",
            "empty", "nudge", "text"}
CallId  == Turn \X Nat \X Place
Message == [turn : Turn, kind : Kind, iter : Nat, calls : SUBSET CallId]

Id(t, c) == <<t, iteration[t], c>>
Says(t, kind, places) == [turn |-> t, kind |-> kind, iter |-> iteration[t],
                          calls |-> {Id(t, c) : c \in places}]

\* The log does not have the text of a result but an excerpt: prepareTurn cuts
\* an inline result after 500 bytes, and of a streamed one the loop passes on
\* the preview, 256 bytes at most, without the path of the file.
Logged(m) == IF IsResult(m) THEN [m EXCEPT !.kind = "excerpt"] ELSE m

\* prepareTurn drops an assistant message without text even if it has calls,
\* which it looks for under another type.
Prepared(m) == IF m.kind \in {"bare", "empty"} THEN <<>> ELSE <<Logged(m)>>

\* A turn that has begun and has not returned; one that is about to has
\* nothing left to do.
Running(t) == pc[t] \notin {"idle", "over"}
Active(t)  == Running(t) /\ pc[t] # "return"

Goto(t, place) == pc' = [pc EXCEPT ![t] = place]

End(t, how, place) ==
    /\ outcome' = [outcome EXCEPT ![t] = how]
    /\ Goto(t, place)

Init ==
    /\ pc = [t \in Turn |-> "idle"]
    /\ iteration = [t \in Turn |-> 0]
    /\ recoveries = [t \in Turn |-> 0]
    /\ todo = [t \in Turn |-> {}]
    /\ request = [t \in Turn |-> <<>>]
    /\ outcome = [t \in Turn |-> "none"]
    /\ prompt = [t \in Turn |-> <<>>]
    /\ prior = <<>> /\ delta = <<>>
    /\ files = {}
    /\ log = [s \in Session |-> <<>>]

(***************************************************************************)
(* The buffer and the log                                                  *)
(***************************************************************************)

\* AppendMessages of the executor, then AppendMessage of the conversation.
\* When the log cannot be written the turn ends with the error, and the
\* buffer has the message all the same.
FlushTo(t, m) == log' = [log EXCEPT ![SessionOf[t]] = @ \o Prepared(m)]

\* Defect: a failed write is passed over.
EmitCarelessly(t, m, next) ==
    /\ delta' = Append(delta, m)
    /\ FlushTo(t, m) \/ UNCHANGED log
    /\ Goto(t, next)
    /\ UNCHANGED outcome

Emit(t, m, next) ==
    /\ delta' = Append(delta, m)
    /\ \/ /\ FlushTo(t, m)
          /\ Goto(t, next)
          /\ UNCHANGED outcome
       \/ /\ Prepared(m) # <<>>
          /\ End(t, "failed", "return")
          /\ UNCHANGED log

\* LoadMessages
Loaded == prior \o delta

(***************************************************************************)
(* processTurnInline, up to the loop                                       *)
(***************************************************************************)

\* Dispatched turns run one at a time, those of ProcessDirect at any time.
StartTurn(t) ==
    /\ pc[t] = "idle"
    /\ t \in Direct \/ \A u \in Turn \ Direct : ~Running(u)
    /\ Goto(t, "prompt")
    /\ UNCHANGED <<iteration, recoveries, todo, request, outcome, prompt,
                   buffer, files, log>>

\* BuildPrompt: the session's history and the user's message, kept in the
\* buffer of the turn's context.
BuildPrompt(t) ==
    /\ pc[t] = "prompt"
    /\ prompt' = [prompt EXCEPT ![t] =
                    Append(Repaired(log[SessionOf[t]]), Says(t, "user", {}))]
    /\ Goto(t, "user")
    /\ UNCHANGED <<iteration, recoveries, todo, request, outcome, buffer,
                   files, log>>

PersistUser(t) ==
    /\ pc[t] = "user"
    /\ FlushTo(t, Says(t, "user", {}))
    /\ Goto(t, "iterate")
    /\ UNCHANGED <<iteration, recoveries, todo, request, outcome, prompt,
                   buffer, files>>

\* Any call that returns an error ends the turn with it: minting an id, the
\* prompt, the first write, the model (a cancelled context too), a callback.
TurnFails(t) ==
    /\ pc[t] \in {"prompt", "user", "chat", "finish", "post"}
    /\ End(t, "failed", "return")
    /\ UNCHANGED <<iteration, recoveries, todo, request, prompt, buffer,
                   files, log>>

(***************************************************************************)
(* runAgentLoop                                                            *)
(***************************************************************************)

\* Defect: a limit checked after the iteration it should have prevented.
OneMore(t) == iteration[t] <= MaxIterations

\* shouldContinue, without an iteration policy
ShouldContinue(t) == iteration[t] < MaxIterations

\* Defect: every iteration cleans up after the one before.
IterateAndClean(t) ==
    /\ pc[t] = "iterate"
    /\ ShouldContinue(t)
    /\ iteration' = [iteration EXCEPT ![t] = @ + 1]
    /\ request' = [request EXCEPT ![t] = Loaded]
    /\ files' = {f \in files : f[1] # t}
    /\ Goto(t, "chat")
    /\ UNCHANGED <<recoveries, todo, outcome, prompt, buffer, log>>

Iterate(t) ==
    /\ pc[t] = "iterate"
    /\ ShouldContinue(t)
    /\ iteration' = [iteration EXCEPT ![t] = @ + 1]
    /\ request' = [request EXCEPT ![t] = Loaded]
    /\ Goto(t, "chat")
    /\ UNCHANGED <<recoveries, todo, outcome, prompt, buffer, files, log>>

\* The limit's message is the turn's reply, and nothing is logged.
LimitReached(t) ==
    /\ pc[t] = "iterate"
    /\ ~ShouldContinue(t)
    /\ End(t, "limit", "post")
    /\ UNCHANGED <<iteration, recoveries, todo, request, prompt, buffer,
                   files, log>>

\* The request exceeds the context window.  The conversation may return a
\* shorter history, a later part of the log, which SetMessages makes the
\* executor's prior; the next round begins with it.
Recover(t) ==
    /\ pc[t] = "chat"
    /\ recoveries[t] < MaxRecoveryAttempts
    /\ recoveries' = [recoveries EXCEPT ![t] = @ + 1]
    /\ LET history == log[SessionOf[t]] IN
        \E from \in 2..(Len(history) + 1) :
            prior' = Repaired(SubSeq(history, from, Len(history)))
    /\ delta' = <<>>
    /\ Goto(t, "iterate")
    /\ UNCHANGED <<iteration, todo, request, outcome, prompt, files, log>>

\* No attempt left, or nothing to shorten.
GiveUp(t) ==
    /\ pc[t] = "chat"
    /\ recoveries' = [recoveries EXCEPT ![t] =
                        IF @ < MaxRecoveryAttempts THEN @ + 1 ELSE @]
    /\ End(t, "overflow", "post")
    /\ UNCHANGED <<iteration, todo, request, prompt, buffer, files, log>>

\* A response with tool calls, malformed ones already dropped.
CallTools(t, calls, kind) ==
    /\ pc[t] = "chat"
    /\ Emit(t, Says(t, kind, calls), "tools")
    /\ todo' = [todo EXCEPT ![t] = calls]
    /\ UNCHANGED <<iteration, recoveries, request, prompt, prior, files>>

\* What becomes of one call, in the order of the response: its result is
\* appended, whatever it is.
Answered(t, c, kind) ==
    /\ pc[t] = "tools"
    /\ c \in todo[t] /\ \A d \in todo[t] : c <= d
    /\ Emit(t, Says(t, kind, {c}), IF todo[t] = {c} THEN "iterate" ELSE "tools")
    /\ todo' = [todo EXCEPT ![t] = @ \ {c}]
    /\ UNCHANGED <<iteration, recoveries, request, prompt, prior>>

\* A rejection by OnPreTool or the before_tool decider, an unknown tool or
\* invalid arguments: the text is the result, the tool does not run.
RejectCall(t, c) ==
    /\ Answered(t, c, "result")
    /\ UNCHANGED files

\* invokeTool.  A tool that returns an error, or a scratch file that cannot be
\* written, makes it execute the tool a second time: one result all the same.
RunCall(t, c) ==
    /\ Answered(t, c, "result")
    /\ UNCHANGED files

\* A streaming tool: the text is in a scratch file, the message has a preview.
StreamCall(t, c) ==
    /\ Answered(t, c, "file")
    /\ files' = files \cup {Id(t, c)}

\* A response without calls is the answer, unless the model reports an error.
ModelStops(t, kind) ==
    /\ pc[t] = "chat"
    /\ Emit(t, Says(t, kind, {}), "finish")
    /\ UNCHANGED <<iteration, recoveries, todo, request, prompt, prior, files>>

ModelErrs(t) ==
    /\ pc[t] = "chat"
    /\ End(t, "error", "post")
    /\ UNCHANGED <<iteration, recoveries, todo, request, prompt, buffer,
                   files, log>>

\* OnBeforeFinish or the before_finish decider sends the model back to work.
Nudge(t) ==
    /\ pc[t] = "finish"
    /\ Emit(t, Says(t, "nudge", {}), "iterate")
    /\ UNCHANGED <<iteration, recoveries, todo, request, prompt, prior, files>>

Finish(t) ==
    /\ pc[t] = "finish"
    /\ End(t, "answered", "post")
    /\ UNCHANGED <<iteration, recoveries, todo, request, prompt, buffer,
                   files, log>>

(***************************************************************************)
(* The end of the turn                                                     *)
(***************************************************************************)

\* Defect: nobody removes the scratch files.
KeptFiles(t) == files

RemainingFiles(t) == {f \in files : f[1] # t}

\* PostTurn; maintenance and hooks are the conversation's.
PostTurn(t) ==
    /\ pc[t] = "post"
    /\ files' = RemainingFiles(t)
    /\ Goto(t, "return")
    /\ UNCHANGED <<iteration, recoveries, todo, request, outcome, prompt,
                   buffer, log>>

\* processTurnInline returns: its locals and the buffer of its context go.
Return(t) ==
    /\ pc[t] = "return"
    /\ Goto(t, "over")
    /\ iteration' = [iteration EXCEPT ![t] = 0]
    /\ recoveries' = [recoveries EXCEPT ![t] = 0]
    /\ todo' = [todo EXCEPT ![t] = {}]
    /\ request' = [request EXCEPT ![t] = <<>>]
    /\ prompt' = [prompt EXCEPT ![t] = <<>>]
    /\ outcome' = [outcome EXCEPT ![t] = "none"]
    /\ UNCHANGED <<buffer, files, log>>

(***************************************************************************)
(* The specification                                                       *)
(***************************************************************************)
HandleCall(t, c) == RejectCall(t, c) \/ RunCall(t, c) \/ StreamCall(t, c)

\* The model's answer to a request, in all the ways it may come.
Chat(t) == \/ \E n \in 1..CallsOf[t], kind \in {"calls", "bare"} : CallTools(t, 1..n, kind)
           \/ \E kind \in {"final", "empty"} : ModelStops(t, kind)
           \/ ModelErrs(t)
           \/ Recover(t)
           \/ GiveUp(t)

Step(t) == \/ BuildPrompt(t)
           \/ PersistUser(t)
           \/ Iterate(t)
           \/ LimitReached(t)
           \/ Chat(t)
           \/ \E c \in Place : HandleCall(t, c)
           \/ Nudge(t)
           \/ Finish(t)
           \/ PostTurn(t)
           \/ Return(t)
           \/ TurnFails(t)

AllOver == (\A t \in Turn : pc[t] = "over") /\ UNCHANGED vars

Next == (\E t \in Turn : StartTurn(t) \/ Step(t)) \/ AllOver

Spec == Init /\ [][Next]_vars

-----------------------------------------------------------------------------
(***************************************************************************)
(* Properties                                                              *)
(***************************************************************************)
TypeOK ==
    /\ pc \in [Turn -> {"idle", "prompt", "user", "iterate", "chat", "tools",
                        "finish", "post", "return", "over"}]
    /\ iteration \in [Turn -> 0..MaxIterations]
    /\ recoveries \in [Turn -> 0..MaxRecoveryAttempts]
    /\ todo \in [Turn -> SUBSET Place]
    /\ request \in [Turn -> Seq(Message)]
    /\ outcome \in [Turn -> {"none", "answered", "limit", "overflow", "error", "failed"}]
    /\ prompt \in [Turn -> Seq(Message)]
    /\ prior \in Seq(Message)
    /\ delta \in Seq(Message)
    /\ files \subseteq CallId
    /\ log \in [Session -> Seq(Message)]

\* The messages of the turn among msgs, each at its place.
Own(t, msgs) == Restrict(msgs, {i \in DOMAIN msgs : msgs[i].turn = t})

\* What a provider demands of a request, and no path through rejections,
\* errors, nudges and compactions may break: the turn's own tool calls and
\* results match.
EveryCallAnswered ==
    \A t \in Turn : pc[t] = "chat" => WellFormed(Own(t, request[t]))

\* Wherever earlier turns of the session broke off, the prompt of the next
\* one is a history the provider accepts.
PromptIsWellFormed == \A t \in Turn : WellFormed(prompt[t])

\* A turn goes on only from messages that are on record: of whatever it
\* buffered its session's log has an entry, for the same calls, except of
\* responses without text.  The entry of a tool result is an excerpt.  What a
\* crash may take is the step in progress, those responses, and the text of
\* results beyond their excerpts, of which the log has no other copy.
BufferIsDurable ==
    \A t \in Turn : Active(t) =>
        \A m \in Range(delta) : m.turn = t /\ m.kind \notin {"bare", "empty"} =>
            \E entry \in Range(log[SessionOf[t]]) :
                /\ entry.turn = t /\ entry.iter = m.iter /\ entry.calls = m.calls
                /\ entry.kind = IF m.kind \in {"result", "file"} THEN "excerpt"
                                                               ELSE m.kind

\* The same for every response, as the protocol has it: the loop flushes each
\* assistant response and tool result as it is produced.
NoMidTurnWorkLost ==
    \A t \in Turn : Active(t) =>
        \A m \in Range(delta) : m.turn = t => Logged(m) \in Range(log[SessionOf[t]])

\* A streamed result sent to the model can still be read in full: PostTurn of
\* whatever turn takes no file of a turn that goes on.  Without the file the
\* provider would send the preview and say nothing.
ScratchReadable ==
    \A t \in Turn : pc[t] = "chat" =>
        \A m \in Range(request[t]) : m.turn = t /\ m.kind = "file" =>
            m.calls \subseteq files

\* A turn that ends without an error leaves no scratch file behind.
ScratchRemoved ==
    \A t \in Turn : pc[t] = "return" /\ outcome[t] # "failed" =>
        \A f \in files : f[1] # t

\* Each turn sees its own buffer: the request holds the user's message (or a
\* compacted history) and nothing of another session.
TurnsSeeTheirOwnBuffer ==
    \A t \in Turn : pc[t] = "chat" =>
        /\ \A m \in Range(request[t]) : SessionOf[m.turn] = SessionOf[t]
        /\ recoveries[t] = 0 => \E m \in Range(request[t]) : m.turn = t /\ m.kind = "user"
=============================================================================
