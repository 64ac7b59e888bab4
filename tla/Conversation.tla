----------------------------- MODULE Conversation -----------------------------
(***************************************************************************)
(* One session of DefaultConversation (conversation-file/conversation.go): *)
(* its log and the cached Session of session/manager.go, the policy of     *)
(* summarizing_policy.go, and the sidecar of consolidation_state.go.       *)
(*                                                                         *)
(* Turns append to the log.  After a turn a goroutine may fold the oldest  *)
(* messages into the summary; a turn whose request overflows does the same *)
(* itself.  Both load the sidecar, ask the model for a summary and save    *)
(* what they loaded, advanced by one chunk.  Clear empties the log and     *)
(* then removes the sidecar.                                               *)
(*                                                                         *)
(* Positions in the log count from 0 in the code and from 1 here; a        *)
(* boundary b stands between positions b and b + 1.                        *)
(***************************************************************************)
EXTENDS History, Integers

CONSTANTS Worker,        \* bound: background goroutines at a time
          Recovery,      \* the turn's own consolidation, on overflow
          MemoryWindow,  \* messages in a chunk
          MaxCalls,      \* bound: tool calls in a response
          MaxMessages,   \* bound: messages ever appended
          MaxClears,     \* bound: clears
          MaxCrashes     \* bound: restarts of the process

ASSUME ConversationConstants ==
    /\ Recovery \notin Worker
    /\ MemoryWindow \in Nat \ {0}
    /\ MaxCalls \in Nat \ {0}
    /\ {MaxMessages, MaxClears, MaxCrashes} \subseteq Nat

VARIABLES
    log,            \* the session's file: its messages
    cached,         \* Session.totalMessages in the manager's cache, if there
    sidecar,        \* ConsolidationState on disk
    consolidating,  \* whether the session is in DefaultConversation.consolidating
    job,            \* the state of each consolidation
    turn,           \* whether a turn runs, or has only its end before it
    open,           \* the tool calls of the turn that have no result yet
    clearing,       \* between Clear's two steps
    turnFrom,       \* history: the length of the log when the turn began
    disturbed,      \* history: a Clear that was not clean, see ClearLog
    messages, clears, crashes  \* counts, for the bounds

files   == <<log, sidecar>>
counts  == <<messages, clears, crashes>>
vars    == <<files, cached, consolidating, job, turn, open, clearing, turnFrom,
             disturbed, counts>>

Process  == Worker \cup {Recovery}
CallId   == (1..MaxMessages) \X (1..MaxCalls)
Message  == [id : 1..MaxMessages, kind : {"user", "calls", "result", "text"},
             calls : SUBSET CallId]

\* ConsolidationState; the summary is the set of messages folded into it.
State == [through : 0..MaxMessages, summary : SUBSET (1..MaxMessages)]
Fresh == [through |-> 0, summary |-> {}]

\* A consolidation: what it loaded, the total it was told, and its chunk.
Job   == [stage : {"idle", "scheduled", "loaded", "summarizing"}, state : State,
          total : 0..MaxMessages, chunk : SUBSET (1..MaxMessages)]
NoJob == [stage |-> "idle", state |-> Fresh, total |-> 0, chunk |-> {}]

NotCached == -1

Ids(from, to) == {log[i].id : i \in (from + 1)..to}

Init ==
    /\ log = <<>>
    /\ cached = NotCached
    /\ sidecar = Fresh
    /\ consolidating = FALSE
    /\ job = [p \in Process |-> NoJob]
    /\ turn = "none"
    /\ open = {}
    /\ clearing = FALSE
    /\ turnFrom = 0
    /\ disturbed = FALSE
    /\ messages = 0 /\ clears = 0 /\ crashes = 0

(***************************************************************************)
(* The session manager                                                     *)
(***************************************************************************)

\* Counting the messages of the file, for a session that is not cached.
TotalOfFile == Len(log)

\* GetOrCreate
Loaded == IF cached = NotCached THEN TotalOfFile ELSE cached

\* JSONLSessionReader.Count: the cached total, which no append updates.
Count == Loaded

\* Defect: SaveAppend keeps the total of the cached session up to date, and so
\* lets a turn's own messages be folded away while it runs.
AppendCounted(kind, calls) ==
    /\ messages < MaxMessages
    /\ messages' = messages + 1
    /\ log' = Append(log, [id |-> messages', kind |-> kind, calls |-> calls])
    /\ cached' = Loaded + 1

\* Append of the conversation, SaveAppend of the manager
AppendMessage(kind, calls) ==
    /\ messages < MaxMessages
    /\ messages' = messages + 1
    /\ log' = Append(log, [id |-> messages', kind |-> kind, calls |-> calls])
    /\ cached' = Loaded

(***************************************************************************)
(* A turn                                                                  *)
(***************************************************************************)
Working == turn = "running" /\ job[Recovery].stage = "idle"

\* The turn's first write: the user's message.
StartTurn ==
    /\ turn = "none" /\ ~clearing
    /\ turn' = "running"
    /\ turnFrom' = Len(log)
    /\ AppendMessage("user", {})
    /\ UNCHANGED <<sidecar, consolidating, job, open, clearing, disturbed, clears,
                   crashes>>

\* A response with n calls.  One without text is not written.
Respond(n) ==
    /\ Working /\ open = {}
    /\ open' = {<<messages + 1, c>> : c \in 1..n}
    /\ \/ AppendMessage("calls", open')
       \/ /\ messages < MaxMessages
          /\ messages' = messages + 1
          /\ cached' = Loaded
          /\ UNCHANGED log
    /\ UNCHANGED <<sidecar, consolidating, job, turn, clearing, turnFrom, disturbed,
                   clears, crashes>>

AnswerCall(call) ==
    /\ Working
    /\ call \in open /\ \A other \in open : call[2] <= other[2]
    /\ open' = open \ {call}
    /\ AppendMessage("result", {call})
    /\ UNCHANGED <<sidecar, consolidating, job, turn, clearing, turnFrom, disturbed,
                   clears, crashes>>

\* A response without calls, or the nudge that follows one.
Say(kind) ==
    /\ Working /\ open = {}
    /\ AppendMessage(kind, {})
    /\ UNCHANGED <<sidecar, consolidating, job, turn, open, clearing, turnFrom,
                   disturbed, clears, crashes>>

\* A write fails, or anything else that ends the turn with an error.
TurnFails ==
    /\ turn # "none" /\ job[Recovery].stage = "idle"
    /\ turn' = "none"
    /\ open' = {}
    /\ cached' = Loaded
    /\ UNCHANGED <<files, consolidating, job, clearing, turnFrom, disturbed, counts>>

\* PostTurn: scheduleMaintenance spawns a goroutine unless the session is being
\* consolidated; a hook turn skips it.
EndTurn ==
    /\ turn # "none" /\ job[Recovery].stage = "idle" /\ open = {}
    /\ turn' = "none"
    /\ \/ UNCHANGED job
       \/ \E w \in Worker :
            /\ ~consolidating
            /\ job[w].stage = "idle"
            /\ job' = [job EXCEPT ![w] = [NoJob EXCEPT !.stage = "scheduled"]]
    /\ UNCHANGED <<files, cached, consolidating, open, clearing, turnFrom, disturbed,
                   counts>>

(***************************************************************************)
(* Consolidation                                                           *)
(***************************************************************************)
LoadState(p) ==
    job' = [job EXCEPT ![p] = [NoJob EXCEPT !.stage = "loaded", !.state = sidecar]]

\* The end of a consolidation, and of runMaintenance.  A turn that could not
\* be shortened gives up.
Conclude(p, advanced) ==
    /\ job' = [job EXCEPT ![p] = NoJob]
    /\ consolidating' = IF p = Recovery THEN consolidating ELSE FALSE
    /\ turn' = IF p = Recovery /\ ~advanced THEN "ending" ELSE turn
    /\ UNCHANGED <<log, cached, open, clearing, turnFrom, disturbed, counts>>

\* Defect: runMaintenance relies on the look scheduleMaintenance took.
BeginUnchecked(w) ==
    /\ job[w].stage = "scheduled"
    /\ consolidating' = TRUE
    /\ LoadState(w)
    /\ UNCHANGED <<files, cached, turn, open, clearing, turnFrom, disturbed, counts>>

\* runMaintenance looks again, takes the session and loads the sidecar.
Begin(w) ==
    /\ job[w].stage = "scheduled"
    /\ \/ /\ ~consolidating
          /\ consolidating' = TRUE
          /\ LoadState(w)
       \/ /\ consolidating
          /\ job' = [job EXCEPT ![w] = NoJob]
          /\ UNCHANGED consolidating
    /\ UNCHANGED <<files, cached, turn, open, clearing, turnFrom, disturbed, counts>>

\* The request overflows: RecoverFromOverflow, in the turn's own goroutine.
StartRecovery ==
    /\ Working /\ open = {}
    /\ LoadState(Recovery)
    /\ UNCHANGED <<files, cached, consolidating, turn, open, clearing, turnFrom,
                   disturbed, counts>>

\* chunkEndTarget
Target(j) == IF j.state.through + MemoryWindow > j.total
                THEN j.total ELSE j.state.through + MemoryWindow

\* What a consolidation finds to do: for maintenance at least a full window,
\* for recovery any message at all.
HasChunk(p, j) ==
    /\ p \in Worker => j.total - j.state.through >= MemoryWindow
    /\ Target(j) > j.state.through
    /\ Len(log) > j.state.through

\* The count and the chunk are read, and the model is called.
ReadChunk(p) ==
    /\ job[p].stage = "loaded"
    /\ LET j == [job[p] EXCEPT !.total = Count] IN
        /\ HasChunk(p, j)
        /\ job' = [job EXCEPT ![p] =
                    [j EXCEPT !.stage = "summarizing",
                              !.chunk = Ids(j.state.through,
                                            IF Target(j) <= Len(log) THEN Target(j) ELSE Len(log))]]
    /\ UNCHANGED <<files, cached, consolidating, turn, open, clearing, turnFrom,
                   disturbed, counts>>

\* There is nothing to do, or the log cannot be read.
NoChunk(p) ==
    /\ job[p].stage = "loaded"
    /\ Conclude(p, FALSE)
    /\ UNCHANGED sidecar

\* Defect: a chunk ends where the window does.
PlainBoundary(j) == Target(j)

\* repairBoundary: the boundary moves past results, and past the message after
\* a response with calls, as far as the count went.
PassesOver(b) == \/ IsResult(log[b + 1])
                 \/ b > 0 /\ IsCalls(log[b])
SafeBoundary(j) ==
    CHOOSE b \in Target(j)..j.total :
        /\ b >= j.total \/ b >= Len(log) \/ ~PassesOver(b)
        /\ \A c \in Target(j)..(b - 1) : c < Len(log) /\ PassesOver(c)

\* The model answers, and the loaded state, advanced, is saved.
Advance(p) ==
    /\ job[p].stage = "summarizing"
    /\ sidecar' = [through |-> SafeBoundary(job[p]),
                   summary |-> job[p].state.summary \cup job[p].chunk]
    /\ Conclude(p, TRUE)

\* The model fails or has nothing to say, or the sidecar cannot be saved.
SummarizeFails(p) ==
    /\ job[p].stage = "summarizing"
    /\ Conclude(p, FALSE)
    /\ UNCHANGED sidecar

(***************************************************************************)
(* Clear, and the end of the process                                       *)
(***************************************************************************)

\* A summary is being written for messages that are about to go.
InTheAir == \E p \in Process : job[p].stage = "summarizing"

\* Defect: Session.Clear forgets the messages and keeps their number.
TotalKept == Loaded

\* Session.Clear
TotalCleared == 0

\* Session.Clear and Save.  A clear is clean when nothing is in the air, both
\* steps succeed, and the process does not end in between.
ClearLog ==
    /\ turn = "none" /\ ~clearing
    /\ clears < MaxClears
    /\ clears' = clears + 1
    /\ cached' = TotalCleared
    /\ \/ /\ log' = <<>>
          /\ clearing' = TRUE
          /\ disturbed' = (disturbed \/ InTheAir)
       \/ /\ log' \in {log, <<>>}  \* Save fails, before or after truncating
          /\ disturbed' = TRUE
          /\ UNCHANGED clearing
    /\ UNCHANGED <<sidecar, consolidating, job, turn, open, turnFrom, messages, crashes>>

\* Defect: the sidecar outlives the log it describes.
KeepSidecar ==
    /\ clearing
    /\ clearing' = FALSE
    /\ cached' = NotCached
    /\ UNCHANGED <<files, consolidating, job, turn, open, turnFrom, disturbed, counts>>

\* Invalidate and DeleteState, whose failure is only logged
DropSidecar ==
    /\ clearing
    /\ clearing' = FALSE
    /\ cached' = NotCached
    /\ \/ sidecar' = Fresh /\ UNCHANGED disturbed
       \/ disturbed' = TRUE /\ UNCHANGED sidecar
    /\ UNCHANGED <<log, consolidating, job, turn, open, turnFrom, counts>>

\* The process ends, by a crash or not, and starts again: files remain.
Restart ==
    /\ crashes < MaxCrashes
    /\ crashes' = crashes + 1
    /\ cached' = NotCached
    /\ consolidating' = FALSE
    /\ job' = [p \in Process |-> NoJob]
    /\ turn' = "none"
    /\ open' = {}
    /\ clearing' = FALSE
    /\ disturbed' = (disturbed \/ clearing)
    /\ UNCHANGED <<files, turnFrom, messages, clears>>

(***************************************************************************)
(* The specification                                                       *)
(***************************************************************************)
Turn == \/ StartTurn
        \/ \E n \in 1..MaxCalls : Respond(n)
        \/ \E call \in open : AnswerCall(call)
        \/ \E kind \in {"text", "user"} : Say(kind)
        \/ StartRecovery
        \/ EndTurn
        \/ TurnFails

Consolidate(p) == \/ p \in Worker /\ Begin(p)
                  \/ ReadChunk(p)
                  \/ NoChunk(p)
                  \/ Advance(p)
                  \/ SummarizeFails(p)

Next == Turn \/ (\E p \in Process : Consolidate(p)) \/ ClearLog \/ DropSidecar \/ Restart

Spec == Init /\ [][Next]_vars

-----------------------------------------------------------------------------
(***************************************************************************)
(* Properties                                                              *)
(***************************************************************************)
TypeOK ==
    /\ log \in Seq(Message) /\ Len(log) <= messages
    /\ cached \in {NotCached} \cup 0..Len(log)
    /\ sidecar \in State
    /\ consolidating \in BOOLEAN
    /\ job \in [Process -> Job]
    /\ turn \in {"none", "running", "ending"}
    /\ open \subseteq CallId
    /\ clearing \in BOOLEAN /\ disturbed \in BOOLEAN
    /\ turnFrom \in 0..MaxMessages
    /\ messages \in 0..MaxMessages /\ clears \in 0..MaxClears /\ crashes \in 0..MaxCrashes

\* At most one goroutine consolidates the session in the background, and the
\* conversation knows: the check is made twice, the second time with the mark.
OneConsolidation ==
    LET busy == {w \in Worker : job[w].stage \in {"loaded", "summarizing"}}
    IN  Cardinality(busy) = IF consolidating THEN 1 ELSE 0

Settled == ~clearing /\ ~disturbed

\* Whatever maintenance, recoveries and restarts overlap, the sidecar is about
\* this log: the boundary is within it, and what has been summarised is before
\* the boundary, not shown a second time.
SidecarMatchesLog ==
    Settled => /\ sidecar.through <= Len(log)
               /\ sidecar.summary \subseteq Ids(0, sidecar.through)

\* No tool call is summarised whose result is still to be shown.
NoPairSplit ==
    Settled =>
        \A i \in 1..sidecar.through, k \in (sidecar.through + 1)..Len(log) :
            IsCalls(log[i]) /\ IsResult(log[k]) => log[i].calls \cap log[k].calls = {}

\* The messages of the turn in progress are in its view, also after a recovery,
\* which relies on it: it adds no user message of its own.
InFlightTurnShown == Settled /\ turn # "none" => sidecar.through <= turnFrom

\* What Transform emits and BuildPrompt repairs.
View == Kept(SubSeq(log, sidecar.through + 1, Len(log)))

\* Wherever turns broke off and boundaries came to lie, the view is one the
\* provider accepts.
ViewIsWellFormed == WellFormed(View)

\* Every message is either in the view or in the summary, as the state's
\* documentation has it: through is the index up to which messages have been
\* folded into the summary.
NothingForgotten == ~clearing => Ids(0, IF sidecar.through <= Len(log) THEN sidecar.through ELSE Len(log))
                                    \subseteq sidecar.summary
=============================================================================
