-------------------------------- MODULE Prompt --------------------------------
(***************************************************************************)
(* The prompt of a turn and the tools offered with it: ContextBuilder of   *)
(* conversation-file/context.go, the skills of skills.go, GetDefinitions   *)
(* of agent/tools/registry.go and the calls runAgentLoop makes.            *)
(*                                                                         *)
(* One ContextBuilder serves all turns.  Dispatched turns exclude each     *)
(* other, ask for no skills and share a session here.  A direct turn is a  *)
(* caller's ProcessTurn: it takes no lock, may ask for skills, and has a   *)
(* session of its own, whose messages are left out.                        *)
(*                                                                         *)
(* A message is its role and its size.  Isolated turns, the wording of the *)
(* prompt and what a skill's text adds to its size are left out, and so is *)
(* the repair of a history that lost one side of a tool call.              *)
(***************************************************************************)
EXTENDS Integers, Sequences, FiniteSets, SequencesExt

CONSTANTS Skill,         \* the skills on disk
          Allowed,       \* AllowedNames; all of Skill if there is no list
          Ready,         \* those whose requirements are met
          Always,        \* those marked always
          ToolsOf,       \* the tools each one names
          Basic,         \* registered tools that are not optional
          Optional,      \* registered tools that are
          Budget,        \* contextWindow * headroom
          Large,         \* the size of a long tool result; other messages count 1,
          Marker,        \*   and the text that replaces it this much
          SystemSize,    \* sizes of a system prompt
          Dispatched,    \* turns that run under the processing lock
          Direct,        \* turns that do not
          MaxMessages    \* bound: messages of the session

ASSUME PromptConstants ==
    /\ Allowed \subseteq Skill /\ Ready \subseteq Skill /\ Always \subseteq Skill
    /\ ToolsOf \in [Skill -> SUBSET (Basic \cup Optional)]
    /\ Basic \cap Optional = {} /\ Dispatched \cap Direct = {}
    /\ {Budget, Large, Marker, MaxMessages} \subseteq Nat /\ SystemSize \subseteq Nat
    /\ Marker < Large

Turn == Dispatched \cup Direct

VARIABLES
    log,        \* the session as the policy last showed it, and the turn's messages
    last,       \* how many of its messages the last BuildMessages had
    compacted,  \* which of them it replaced
    system,     \* the size of the system prompt
    active,     \* activeOptionalTools
    running,    \* the turns under way
    own,        \* history: the optional tools each turn's own system prompt activated
    offered,    \* the tools each turn's last request had
    others      \* history: what the system prompts built since each turn's own activated

session == <<log, last, compacted, system>>
vars == <<session, active, running, own, offered, others>>

-----------------------------------------------------------------------------
(* SkillsLoader and ToolRegistry.                                          *)

\* What is not allowed has no metadata and is not listed.
GetSkillMetadata(names) == names \cap Allowed

ListSkills == Allowed \cap Ready

GetToolsForSkills(names) == UNION {ToolsOf[s] : s \in GetSkillMetadata(names)}

GetAlwaysSkills == GetSkillMetadata(ListSkills) \cap Always

\* BuildSystemPrompt, as far as it changes the builder.
ActiveTools(names) == GetToolsForSkills(GetAlwaysSkills \cup names)

GetDefinitions(include) == Basic \cup (Optional \cap include)

-----------------------------------------------------------------------------
(* CompactToolResults.                                                     *)

\* The text of messages, of which those in S are replaced: each unit with the
\* message it is in.
Text(messages, S) ==
    UNION {{i} \X (1..(IF i \in S THEN Marker ELSE messages[i].size)) : i \in DOMAIN messages}

\* estimateTokens of a system prompt and messages.
Size(messages, sys, S) == sys + Cardinality(Text(messages, S))

\* Tool results worth replacing that are not among the last four messages.
Eligible(messages) ==
    {i \in DOMAIN messages :
        /\ messages[i].role = "tool" /\ messages[i].size = Large
        /\ Cardinality({j \in i..Len(messages) : messages[j].role # "system"}) > 4}

\* Defect: the budget is looked at once, before the first result.
CompactAll(messages, sys) ==
    IF Size(messages, sys, {}) <= Budget THEN {} ELSE Eligible(messages)

\* Defect: the newest results first.
CompactNewest(messages, sys) ==
    LET old == Eligible(messages)
    IN  {i \in old : \A j \in {k \in old : k >= i} :
                        Size(messages, sys, {k \in old : k > j}) > Budget}

\* The oldest first, until the prompt fits: a result goes if it was still too large
\* when this one's turn came and at each turn before.
CompactToolResults(messages, sys) ==
    LET old == Eligible(messages)
    IN  {i \in old : \A j \in {k \in old : k <= i} :
                        Size(messages, sys, {k \in old : k < j}) > Budget}

-----------------------------------------------------------------------------
Message(role, size) == [role |-> role, size |-> size]

\* What the policy shows once it has summarised more: a summary, and a rest that
\* does not begin with a tool's result.
Shortened(messages) ==
    {<<Message("system", 1)>> \o SubSeq(messages, k, Len(messages)) :
        k \in {k \in 2..Len(messages) : messages[k].role # "tool"}}

Init ==
    /\ log = <<>> /\ last = 0 /\ compacted = {} /\ system = 0
    /\ active = {}
    /\ running = {}
    /\ own = [t \in Turn |-> {}]
    /\ offered = [t \in Turn |-> {}]
    /\ others = [t \in Turn |-> {}]

\* Defect: the skills' tools are added to those that were active.
BuildOnTop(t, names) ==
    /\ active' = active \cup ActiveTools(names)
    /\ others' = [u \in Turn |-> IF u \in running THEN others[u] \cup {ActiveTools(names)}
                                 ELSE IF u = t THEN {} ELSE others[u]]

\* A system prompt built for turn t with these skills.
BuildSystemPrompt(t, names) ==
    /\ active' = ActiveTools(names)
    /\ others' = [u \in Turn |-> IF u \in running THEN others[u] \cup {ActiveTools(names)}
                                 ELSE IF u = t THEN {} ELSE others[u]]

\* BuildMessages, then the append of the user's message to the log.  The policy may
\* have summarised more since the session's last turn.
BuildMessages ==
    \E view \in {log} \cup Shortened(log), sys \in SystemSize :
        LET messages == Append(view, Message("user", 1))
        IN  /\ log' = messages
            /\ last' = Len(messages)
            /\ compacted' = CompactToolResults(messages, sys)
            /\ system' = sys

Begin(t) ==
    /\ t \notin running
    /\ \E names \in IF t \in Dispatched THEN {{}} ELSE SUBSET Skill :
           /\ BuildSystemPrompt(t, names)
           /\ own' = [own EXCEPT ![t] = ActiveTools(names)]
    /\ IF t \in Dispatched
       THEN running \cap Dispatched = {} /\ Len(log) < MaxMessages /\ BuildMessages
       ELSE UNCHANGED session
    /\ offered' = [offered EXCEPT ![t] = {}]
    /\ running' = running \cup {t}

\* The messages of a reply, in the turn's session.
Reply(t, messages) ==
    IF t \in Dispatched
    THEN /\ Len(log) + Len(messages) <= MaxMessages
         /\ log' = log \o messages
         /\ UNCHANGED <<last, compacted, system>>
    ELSE UNCHANGED session

\* A request answered with a tool call.
CallTool(t) ==
    /\ t \in running
    /\ offered' = [offered EXCEPT ![t] = GetDefinitions(active)]
    /\ \E size \in {1, Large} :
           Reply(t, <<Message("assistant", 1), Message("tool", size)>>)
    /\ UNCHANGED <<active, running, own, others>>

\* A request answered with text, or with an error that ends the turn.
EndTurn(t) ==
    /\ t \in running
    /\ offered' = [offered EXCEPT ![t] = GetDefinitions(active)]
    /\ \E messages \in {<<>>, <<Message("assistant", 1)>>} : Reply(t, messages)
    /\ running' = running \ {t}
    /\ UNCHANGED <<active, own, others>>

\* A request that overflowed.  RecoverFromOverflow passes no skills to the new
\* system prompt and replaces no tool result.
RecoverFromOverflow(t) ==
    /\ t \in running
    /\ offered' = [offered EXCEPT ![t] = GetDefinitions(active)]
    /\ BuildSystemPrompt(t, {})
    /\ IF t \in Dispatched
       THEN /\ log' \in Shortened(log)
            /\ last' = 0 /\ compacted' = {}
            /\ system' \in SystemSize
       ELSE UNCHANGED session
    /\ UNCHANGED <<running, own>>

Next ==
    \E t \in Turn : Begin(t) \/ CallTool(t) \/ EndTurn(t) \/ RecoverFromOverflow(t)

Spec == Init /\ [][Next]_vars

-----------------------------------------------------------------------------
(* What the builder promises.                                              *)

\* A prompt is compacted no further than it must be: only old tool results go, the
\* oldest first, and the newest of them only if the prompt was still too large.  A
\* prompt that is too large after that has none left.
CompactionIsExact ==
    LET messages == SubSeq(log, 1, last)
        old      == Eligible(messages)
    IN  /\ compacted \subseteq old
        /\ \A i \in old, j \in compacted : i < j => i \in compacted
        /\ Size(messages, system, compacted) <= Budget \/ compacted = old
        /\ \A j \in compacted :
               (\A i \in compacted : i <= j)
                   => Size(messages, system, compacted \ {j}) > Budget

\* A tool result that was replaced in one prompt stays replaced in those that
\* continue it, unless the system prompt became shorter: the model never gets back
\* text it was told is gone, and what the server cached of the prompt stays valid.
\* (A prompt that RecoverFromOverflow builds is no such prompt: it shows all in full.)
CompactedStaysCompacted ==
    [][(IsPrefix(log, log') /\ last' > 0 /\ system' >= system)
           => compacted \subseteq compacted']_session

\* An optional tool is offered to a turn only for a skill that is always on, that it
\* asked for, or that a turn asked for which built its prompt during this one; and
\* a turn that nothing came between is offered all its skills' tools.
OfferedToolsAreOwn ==
    \A t \in Turn : offered[t] # {} =>
        /\ offered[t] \subseteq GetDefinitions(own[t] \cup UNION others[t])
        /\ others[t] = {} => offered[t] = GetDefinitions(own[t])

===============================================================================
