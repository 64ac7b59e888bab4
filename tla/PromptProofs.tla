----------------------------- MODULE PromptProofs -----------------------------
(***************************************************************************)
(* Theorems of Prompt, for any skills and tools and any number of turns,   *)
(* dispatched or direct.                                                   *)
(***************************************************************************)
EXTENDS Prompt, FiniteSetTheorems, WellFoundedInduction, TLAPS

Tools == Basic \cup Optional

\* Offering more tools to choose from offers no fewer of them.
LEMMA DefinitionsGrow ==
    ASSUME NEW S, NEW T, S \subseteq T
    PROVE  GetDefinitions(S) \subseteq GetDefinitions(T)
  BY DEF GetDefinitions

\* Definitions are tools.
LEMMA DefinitionsTyped ==
    ASSUME NEW S
    PROVE  GetDefinitions(S) \in SUBSET Tools
  BY DEF GetDefinitions, Tools

\* Skills name tools only.
LEMMA ActiveTyped ==
    ASSUME NEW names
    PROVE  ActiveTools(names) \in SUBSET Tools
<1>1. \A s \in GetSkillMetadata(GetAlwaysSkills \cup names) : ToolsOf[s] \subseteq Tools
  BY PromptConstants DEF PromptConstants, GetSkillMetadata, Tools
<1>2. QED
  BY <1>1 DEF ActiveTools, GetToolsForSkills

\* The builder's tools are those of the last system prompt built: a running turn's
\* own, or one that was built during it.
Builder ==
    /\ active \in SUBSET Tools /\ running \subseteq Turn
    /\ own \in [Turn -> SUBSET Tools]
    /\ offered \in [Turn -> SUBSET Tools]
    /\ others \in [Turn -> SUBSET SUBSET Tools]
    /\ \A t \in running : IF others[t] = {} THEN active = own[t] ELSE active \in others[t]

\* What a running turn is offered next is its own and the others'.
LEMMA OfferIsOwn ==
    ASSUME Builder, NEW t \in running
    PROVE  /\ GetDefinitions(active) \subseteq GetDefinitions(own[t] \cup UNION others[t])
           /\ others[t] = {} => GetDefinitions(active) = GetDefinitions(own[t])
<1>1. active \subseteq own[t] \cup UNION others[t]
  BY DEF Builder
<1>2. QED
  BY <1>1, DefinitionsGrow DEF Builder

\* A system prompt built for a turn that begins, or for one that recovers.
LEMMA BuildKeeps ==
    ASSUME Builder, NEW t \in Turn, NEW names, BuildSystemPrompt(t, names)
    PROVE  /\ active' = ActiveTools(names) /\ active' \in SUBSET Tools
           /\ others' \in [Turn -> SUBSET SUBSET Tools]
           /\ \A u \in running : others'[u] = others[u] \cup {active'}
           /\ t \notin running => others'[t] = {}
           /\ \A u \in Turn : u \notin running /\ u # t => others'[u] = others[u]
<1>1. ActiveTools(names) \in SUBSET Tools
  BY ActiveTyped
<1>2. QED
  BY <1>1 DEF BuildSystemPrompt, Builder

Inv == Builder /\ OfferedToolsAreOwn

\* What was offered stays covered when more prompts are built during the turn.
LEMMA OfferStaysOwn ==
    ASSUME Inv, NEW t \in Turn, offered'[t] = offered[t], own'[t] = own[t],
           others[t] \subseteq others'[t]
    PROVE  offered'[t] # {} =>
              /\ offered'[t] \subseteq GetDefinitions(own'[t] \cup UNION others'[t])
              /\ others'[t] = {} => offered'[t] = GetDefinitions(own'[t])
<1>1. own[t] \cup UNION others[t] \subseteq own'[t] \cup UNION others'[t]
  OBVIOUS
<1>2. GetDefinitions(own[t] \cup UNION others[t])
        \subseteq GetDefinitions(own'[t] \cup UNION others'[t])
  BY <1>1, DefinitionsGrow
<1>3. QED
  BY <1>2 DEF Inv, OfferedToolsAreOwn

\* A turn that begins replaces the active tools by those of its skills.
LEMMA BeginKeeps == ASSUME Inv, NEW t \in Turn, Begin(t) PROVE Inv'
<1>1. PICK names : /\ BuildSystemPrompt(t, names)
                   /\ own' = [own EXCEPT ![t] = ActiveTools(names)]
  BY DEF Begin
<1>2. /\ t \notin running /\ running' = running \cup {t}
      /\ offered' = [offered EXCEPT ![t] = {}]
  BY DEF Begin
<1>3. /\ active' = ActiveTools(names) /\ active' \in SUBSET Tools
      /\ others' \in [Turn -> SUBSET SUBSET Tools]
      /\ \A u \in running : others'[u] = others[u] \cup {active'}
      /\ others'[t] = {}
      /\ \A u \in Turn : u \notin running /\ u # t => others'[u] = others[u]
  BY <1>1, <1>2, BuildKeeps DEF Inv
<1>4. Builder'
  BY <1>1, <1>2, <1>3 DEF Inv, Builder
<1>5. offered'[t] = {}
  BY <1>2 DEF Inv, Builder
<1>6. ASSUME NEW u \in Turn, u # t
      PROVE  offered'[u] = offered[u] /\ own'[u] = own[u] /\ others[u] \subseteq others'[u]
  BY <1>1, <1>2, <1>3, <1>6 DEF Inv, Builder
<1>7. OfferedToolsAreOwn'
  BY <1>5, <1>6, OfferStaysOwn DEF OfferedToolsAreOwn
<1>8. QED
  BY <1>4, <1>7 DEF Inv

\* A request offers what is active.
LEMMA RequestKeeps ==
    ASSUME Inv, NEW t \in running, offered' = [offered EXCEPT ![t] = GetDefinitions(active)],
           running' \subseteq running, UNCHANGED <<active, own, others>>
    PROVE  Inv'
<1>1. Builder'
  BY DefinitionsTyped DEF Inv, Builder
<1>2. t \in Turn /\ offered'[t] = GetDefinitions(active)
  BY DEF Inv, Builder
<1>3. \A u \in Turn : u # t => offered'[u] = offered[u]
  BY DEF Inv, Builder
<1>4. OfferedToolsAreOwn'
  BY <1>2, <1>3, OfferIsOwn, OfferStaysOwn DEF Inv, OfferedToolsAreOwn
<1>5. QED
  BY <1>1, <1>4 DEF Inv

\* A recovery builds the prompt anew, with the skills that are always on.
LEMMA RecoverKeeps == ASSUME Inv, NEW t \in Turn, RecoverFromOverflow(t) PROVE Inv'
<1>1. /\ t \in running /\ running' = running /\ own' = own
      /\ offered' = [offered EXCEPT ![t] = GetDefinitions(active)]
      /\ BuildSystemPrompt(t, {})
  BY DEF RecoverFromOverflow
<1>2. /\ active' \in SUBSET Tools
      /\ others' \in [Turn -> SUBSET SUBSET Tools]
      /\ \A u \in running : others'[u] = others[u] \cup {active'}
      /\ \A u \in Turn : u \notin running /\ u # t => others'[u] = others[u]
  BY <1>1, BuildKeeps DEF Inv
<1>3. Builder'
  BY <1>1, <1>2, DefinitionsTyped DEF Inv, Builder
<1>4. \A u \in Turn : others[u] \subseteq others'[u]
  BY <1>1, <1>2
<1>5. /\ offered'[t] = GetDefinitions(active) /\ others'[t] # {}
      /\ \A u \in Turn : u # t => offered'[u] = offered[u]
  BY <1>1, <1>2 DEF Inv, Builder
<1>6. GetDefinitions(active) \subseteq GetDefinitions(own'[t] \cup UNION others'[t])
  <2>1. GetDefinitions(active) \subseteq GetDefinitions(own[t] \cup UNION others[t])
    BY <1>1, OfferIsOwn DEF Inv
  <2>2. own[t] \cup UNION others[t] \subseteq own'[t] \cup UNION others'[t]
    BY <1>1, <1>4
  <2>3. QED
    BY <2>1, <2>2, DefinitionsGrow
<1>7. OfferedToolsAreOwn'
  BY <1>1, <1>4, <1>5, <1>6, OfferStaysOwn DEF OfferedToolsAreOwn
<1>8. QED
  BY <1>3, <1>7 DEF Inv

\* Every step keeps the invariant.
LEMMA NextKeeps == Inv /\ [Next]_vars => Inv'
<1> SUFFICES ASSUME Inv, [Next]_vars PROVE Inv'
  OBVIOUS
<1>1. ASSUME NEW t \in Turn, Begin(t) PROVE Inv'
  BY <1>1, BeginKeeps
<1>2. ASSUME NEW t \in Turn, CallTool(t) PROVE Inv'
  BY <1>2, RequestKeeps DEF CallTool
<1>3. ASSUME NEW t \in Turn, EndTurn(t) PROVE Inv'
  BY <1>3, RequestKeeps DEF EndTurn
<1>4. ASSUME NEW t \in Turn, RecoverFromOverflow(t) PROVE Inv'
  BY <1>4, RecoverKeeps
<1>5. CASE UNCHANGED vars
  BY <1>5 DEF vars, Inv, Builder, OfferedToolsAreOwn
<1>6. QED
  BY <1>1, <1>2, <1>3, <1>4, <1>5 DEF Next

\* However many turns share the builder, a turn is offered an optional tool only
\* for its own skills or those of a turn that built its prompt meanwhile, and all
\* its own if none did.
THEOREM OfferedTools == Spec => []OfferedToolsAreOwn
<1>1. Init => Inv
  BY DEF Init, Inv, Builder, OfferedToolsAreOwn
<1>2. Inv => OfferedToolsAreOwn
  BY DEF Inv
<1>3. QED
  BY <1>1, <1>2, NextKeeps, PTL DEF Spec

-----------------------------------------------------------------------------
(***************************************************************************)
(* Compaction                                                              *)
(***************************************************************************)
Messages == [role : {"system", "user", "assistant", "tool"}, size : 1..Large]

\* The eligible results before the place i.
Older(messages, i) == {k \in Eligible(messages) : k < i}

\* CompactToolResults looks at the results one by one.
LEMMA Compacts ==
    ASSUME NEW messages, NEW sys
    PROVE  CompactToolResults(messages, sys) =
              {i \in Eligible(messages) : \A j \in Eligible(messages) :
                    j <= i => Size(messages, sys, Older(messages, j)) > Budget}
  BY DEF CompactToolResults, Older

\* A text has a length.
LEMMA TextFinite ==
    ASSUME NEW messages \in Seq(Messages), NEW S
    PROVE  IsFiniteSet(Text(messages, S)) /\ Cardinality(Text(messages, S)) \in Nat
<1> DEFINE places == 1..Len(messages)
           units == 1..Large
<1>1. Len(messages) \in Nat /\ Large \in Nat /\ Marker \in Nat /\ Marker < Large
  BY PromptConstants DEF PromptConstants
<1>2. IsFiniteSet(places) /\ IsFiniteSet(units)
  BY <1>1, FS_Interval
<1>3. IsFiniteSet(places \X units)
  <2> HIDE DEF places, units
  <2>1. QED
    BY <1>2, FS_Product
<1>4. Text(messages, S) \in SUBSET (places \X units)
  <2>1. \A i \in DOMAIN messages : messages[i].size \in 1..Large /\ i \in places
    <3>1. \A i \in DOMAIN messages : messages[i] \in Messages /\ i \in places
      OBVIOUS
    <3>2. QED
      BY <3>1 DEF Messages
  <2>2. \A i \in DOMAIN messages :
            {i} \X (1..(IF i \in S THEN Marker ELSE messages[i].size)) \subseteq places \X units
    BY <1>1, <2>1
  <2>3. QED
    BY <2>2 DEF Text
<1>5. IsFiniteSet(Text(messages, S))
  <2> HIDE DEF places, units
  <2>1. QED
    BY <1>3, <1>4, FS_Subset
<1>6. QED
  BY <1>5, FS_CardinalityType

\* A longer history with the same replacements is no shorter a text.
LEMMA SizeGrows ==
    ASSUME NEW old \in Seq(Messages), NEW new \in Seq(Messages), NEW S,
           Len(old) <= Len(new), \A i \in 1..Len(old) : new[i] = old[i],
           NEW sys1 \in Nat, NEW sys2 \in Nat, sys1 <= sys2
    PROVE  Size(old, sys1, S) <= Size(new, sys2, S)
<1>1. Text(old, S) \in SUBSET Text(new, S)
  <2>1. \A i \in DOMAIN old : i \in DOMAIN new /\ new[i] = old[i]
    OBVIOUS
  <2>2. QED
    BY <2>1 DEF Text
<1>2. Cardinality(Text(old, S)) <= Cardinality(Text(new, S))
  BY <1>1, TextFinite, FS_Subset
<1>3. /\ Cardinality(Text(old, S)) \in Nat /\ Cardinality(Text(new, S)) \in Nat
  BY TextFinite
<1>4. QED
  BY <1>2, <1>3 DEF Size

\* What is eligible stays so when the history grows; what is older than it, too.
LEMMA EligibleGrows ==
    ASSUME NEW old \in Seq(Messages), NEW new \in Seq(Messages),
           Len(old) <= Len(new), \A i \in 1..Len(old) : new[i] = old[i]
    PROVE  /\ Eligible(old) \subseteq Eligible(new)
           /\ \A i \in Eligible(old), j \in Eligible(new) : j <= i => j \in Eligible(old)
<1> DEFINE After(m, i) == {j \in i..Len(m) : m[j].role # "system"}
<1>1. /\ Len(old) \in Nat /\ Len(new) \in Nat
      /\ DOMAIN old = 1..Len(old) /\ DOMAIN new = 1..Len(new)
  OBVIOUS
<1>2. ASSUME NEW m \in Seq(Messages), NEW i \in Nat
      PROVE  IsFiniteSet(After(m, i)) /\ Cardinality(After(m, i)) \in Nat
  <2>1. Len(m) \in Nat
    OBVIOUS
  <2>2. IsFiniteSet(i..Len(m))
    BY <2>1, FS_Interval
  <2>3. After(m, i) \in SUBSET (i..Len(m))
    OBVIOUS
  <2>4. IsFiniteSet(After(m, i))
    BY <2>2, <2>3, FS_Subset
  <2>5. QED
    BY <2>4, FS_CardinalityType
<1>3. ASSUME NEW i \in Eligible(old)
      PROVE  i \in Eligible(new)
  <2>1. /\ i \in 1..Len(old) /\ old[i].role = "tool" /\ old[i].size = Large
        /\ Cardinality(After(old, i)) > 4
    BY <1>1, <1>3 DEF Eligible
  <2>2. After(old, i) \in SUBSET After(new, i)
    BY <1>1, <2>1
  <2>3. Cardinality(After(old, i)) <= Cardinality(After(new, i))
    <3> HIDE DEF After
    <3>1. i \in Nat
      BY <2>1
    <3>2. IsFiniteSet(After(new, i))
      BY <1>2, <3>1
    <3>3. QED
      BY <2>2, <3>2, FS_Subset
  <2>4. Cardinality(After(new, i)) > 4
    <3> HIDE DEF After
    <3>1. i \in Nat
      BY <2>1
    <3>2. Cardinality(After(old, i)) \in Nat /\ Cardinality(After(new, i)) \in Nat
      BY <1>2, <3>1
    <3>3. QED
      BY <2>1, <2>3, <3>2
  <2>5. QED
    BY <1>1, <2>1, <2>4 DEF Eligible
<1>4. ASSUME NEW i \in Eligible(old), NEW j \in Eligible(new), j <= i
      PROVE  j \in Eligible(old)
  <2>1. i \in 1..Len(old) /\ Cardinality(After(old, i)) > 4
    BY <1>1 DEF Eligible
  <2>2. /\ j \in 1..Len(old) /\ new[j].role = "tool" /\ new[j].size = Large
    BY <1>1, <1>4, <2>1 DEF Eligible
  <2>3. After(old, i) \in SUBSET After(old, j)
    BY <1>1, <1>4, <2>1, <2>2
  <2>4. Cardinality(After(old, i)) <= Cardinality(After(old, j))
    BY <1>2, <2>2, <2>3, FS_Subset
  <2>5. Cardinality(After(old, j)) > 4
    <3> HIDE DEF After
    <3>1. i \in Nat /\ j \in Nat
      BY <2>1, <2>2
    <3>2. Cardinality(After(old, i)) \in Nat /\ Cardinality(After(old, j)) \in Nat
      BY <1>2, <3>1
    <3>3. QED
      BY <2>1, <2>4, <3>2
  <2>6. QED
    BY <1>1, <2>2, <2>5 DEF Eligible
<1>5. QED
  BY <1>3, <1>4

\* A prompt that continues another replaces what that one replaced.
LEMMA CompactionGrows ==
    ASSUME NEW old \in Seq(Messages), NEW new \in Seq(Messages),
           Len(old) <= Len(new), \A i \in 1..Len(old) : new[i] = old[i],
           NEW sys1 \in Nat, NEW sys2 \in Nat, sys1 <= sys2
    PROVE  CompactToolResults(old, sys1) \subseteq CompactToolResults(new, sys2)
<1>1. /\ Eligible(old) \subseteq Eligible(new)
      /\ \A i \in Eligible(old), j \in Eligible(new) : j <= i => j \in Eligible(old)
  BY EligibleGrows
<1>2. ASSUME NEW i \in CompactToolResults(old, sys1), NEW j \in Eligible(new), j <= i
      PROVE  Size(new, sys2, Older(new, j)) > Budget
  <2>1. i \in Eligible(old) /\ j \in Eligible(old)
    BY <1>1, <1>2, Compacts
  <2>2. Older(new, j) = Older(old, j)
    <3>1. \A k \in Eligible(new) : k < j => k <= j
      BY DEF Eligible
    <3>2. QED
      BY <1>1, <2>1, <3>1 DEF Older
  <2>3. Size(old, sys1, Older(old, j)) > Budget
    BY <1>2, <2>1, Compacts
  <2>4. Size(old, sys1, Older(old, j)) <= Size(new, sys2, Older(old, j))
    BY SizeGrows
  <2>5. /\ Size(old, sys1, Older(old, j)) \in Nat /\ Size(new, sys2, Older(old, j)) \in Nat
        /\ Budget \in Nat
    <3>1. /\ Cardinality(Text(old, Older(old, j))) \in Nat
          /\ Cardinality(Text(new, Older(old, j))) \in Nat
      BY TextFinite
    <3>2. QED
      BY <3>1, PromptConstants DEF PromptConstants, Size
  <2>6. QED
    BY <2>2, <2>3, <2>4, <2>5
<1>3. CompactToolResults(old, sys1) \subseteq Eligible(new)
  BY <1>1, Compacts
<1>4. QED
  BY <1>2, <1>3, Compacts

\* The session is typed, and what was replaced is what CompactToolResults had to
\* replace in the messages of the last prompt.
SessionInv ==
    /\ log \in Seq(Messages) /\ last \in 0..Len(log) /\ system \in Nat
    /\ compacted = CompactToolResults(SubSeq(log, 1, last), system)

\* The messages of the last prompt.
LEMMA LastPrompt ==
    ASSUME SessionInv
    PROVE  /\ SubSeq(log, 1, last) \in Seq(Messages)
           /\ Len(SubSeq(log, 1, last)) = last /\ last <= Len(log)
           /\ \A i \in 1..last : SubSeq(log, 1, last)[i] = log[i]
  BY DEF SessionInv

\* Of nothing nothing is replaced.
LEMMA NothingCompacted ==
    ASSUME NEW sys
    PROVE  CompactToolResults(<<>>, sys) = {}
<1>1. Eligible(<<>>) = {}
  BY DEF Eligible
<1>2. QED
  BY <1>1, Compacts

\* What the policy shows of a session is one again.
LEMMA ShortenedTyped ==
    ASSUME NEW messages \in Seq(Messages), NEW view \in Shortened(messages)
    PROVE  view \in Seq(Messages)
<1>1. PICK k \in 2..Len(messages) :
        view = <<Message("system", 1)>> \o SubSeq(messages, k, Len(messages))
  BY DEF Shortened
<1>2. SubSeq(messages, k, Len(messages)) \in Seq(Messages)
  OBVIOUS
<1>3. Message("system", 1) \in Messages
  BY PromptConstants DEF PromptConstants, Message, Messages
<1>4. <<Message("system", 1)>> \in Seq(Messages)
  BY <1>3
<1>5. QED
  BY <1>1, <1>2, <1>4

\* A prompt for the session, for whatever it shows.
LEMMA BuiltSession ==
    ASSUME SessionInv, BuildMessages
    PROVE  /\ SessionInv'
           /\ compacted' = CompactToolResults(log', system') /\ last' = Len(log')
<1>1. PICK view \in {log} \cup Shortened(log), sys \in SystemSize :
        /\ log' = Append(view, Message("user", 1))
        /\ last' = Len(Append(view, Message("user", 1)))
        /\ compacted' = CompactToolResults(Append(view, Message("user", 1)), sys)
        /\ system' = sys
  BY DEF BuildMessages
<1>2. view \in Seq(Messages)
  BY ShortenedTyped DEF SessionInv
<1>3. Message("user", 1) \in Messages
  BY PromptConstants DEF PromptConstants, Message, Messages
<1>4. log' \in Seq(Messages) /\ last' = Len(log') /\ compacted' = CompactToolResults(log', system')
  BY <1>1, <1>2, <1>3
<1>5. system' \in Nat
  BY <1>1, PromptConstants DEF PromptConstants
<1>6. last' \in 0..Len(log') /\ SubSeq(log', 1, last') = log'
  BY <1>4
<1>7. QED
  BY <1>4, <1>5, <1>6 DEF SessionInv

\* Each step keeps the session so.
LEMMA SessionKept ==
    ASSUME SessionInv, [Next]_vars
    PROVE  SessionInv'
<1>1. CASE UNCHANGED session
  BY <1>1 DEF session, SessionInv
<1>2. ASSUME NEW messages \in Seq(Messages), log' = log \o messages,
             UNCHANGED <<last, compacted, system>>
      PROVE  SessionInv'
  <2>1. /\ log' \in Seq(Messages) /\ last' \in 0..Len(log')
        /\ SubSeq(log', 1, last) = SubSeq(log, 1, last)
    BY <1>2 DEF SessionInv
  <2>2. QED
    BY <1>2, <2>1 DEF SessionInv
<1>3. \A size \in {1, Large} : /\ Message("assistant", 1) \in Messages
                               /\ Message("tool", size) \in Messages
  BY PromptConstants DEF PromptConstants, Message, Messages
<1>4. ASSUME NEW t \in Turn, Begin(t) PROVE SessionInv'
  BY <1>1, <1>4, BuiltSession DEF Begin
<1>5. ASSUME NEW t \in Turn, CallTool(t) PROVE SessionInv'
  <2>1. PICK size \in {1, Large} : Reply(t, <<Message("assistant", 1), Message("tool", size)>>)
    BY <1>5 DEF CallTool
  <2>2. <<Message("assistant", 1), Message("tool", size)>> \in Seq(Messages)
    BY <1>3
  <2>3. QED
    BY <1>1, <1>2, <2>1, <2>2 DEF Reply
<1>6. ASSUME NEW t \in Turn, EndTurn(t) PROVE SessionInv'
  <2>1. PICK messages \in {<<>>, <<Message("assistant", 1)>>} : Reply(t, messages)
    BY <1>6 DEF EndTurn
  <2>2. messages \in Seq(Messages)
    <3>1. <<>> \in Seq(Messages)
      OBVIOUS
    <3>2. <<Message("assistant", 1)>> \in Seq(Messages)
      BY <1>3
    <3>3. QED
      BY <3>1, <3>2
  <2>3. QED
    BY <1>1, <1>2, <2>1, <2>2 DEF Reply
<1>7. ASSUME NEW t \in Turn, RecoverFromOverflow(t) PROVE SessionInv'
  <2>1. CASE t \in Dispatched
    <3>1. log' \in Shortened(log) /\ last' = 0 /\ compacted' = {} /\ system' \in Nat
      BY <1>7, <2>1, PromptConstants DEF PromptConstants, RecoverFromOverflow
    <3>2. log' \in Seq(Messages)
      BY <3>1, ShortenedTyped DEF SessionInv
    <3>3. SubSeq(log', 1, 0) = <<>> /\ last' \in 0..Len(log')
      BY <3>1, <3>2
    <3>4. QED
      BY <3>1, <3>2, <3>3, NothingCompacted DEF SessionInv
  <2>2. QED
    BY <1>1, <1>7, <2>1 DEF RecoverFromOverflow
<1>8. QED
  BY <1>1, <1>4, <1>5, <1>6, <1>7 DEF Next, vars

\* At the start there is no prompt.
LEMMA InitSession == Init => SessionInv
<1> SUFFICES ASSUME Init PROVE SessionInv
  OBVIOUS
<1>1. log = <<>> /\ last = 0 /\ compacted = {} /\ system = 0
  BY DEF Init
<1>2. SubSeq(log, 1, 0) = <<>> /\ log \in Seq(Messages) /\ last \in 0..Len(log)
  BY <1>1
<1>3. compacted = CompactToolResults(SubSeq(log, 1, last), system)
  BY <1>1, <1>2, NothingCompacted
<1>4. QED
  BY <1>1, <1>2, <1>3 DEF SessionInv

\* A set of places has a first one.
LEMMA FirstExists ==
    ASSUME NEW T, T \subseteq Nat, T # {}
    PROVE  \E n \in T : \A m \in T : n <= m
<1> DEFINE Less == OpToRel(<, Nat)
<1>1. Less = {ss \in Nat \X Nat : ss[1] < ss[2]}
  BY DEF OpToRel
<1>2. IsWellFoundedOn(Less, Nat)
  BY NatLessThanWellFounded
<1> HIDE DEF Less
<1>3. PICK n \in T : \A m \in T : <<m, n>> \notin Less
  BY <1>2, WFMin
<1>4. \A m \in T : n <= m
  <2>1. SUFFICES ASSUME NEW m \in T PROVE n <= m
    OBVIOUS
  <2>2. n \in Nat /\ m \in Nat /\ <<m, n>> \notin Less
    BY <1>3
  <2>3. ~(m < n)
    BY <1>1, <2>2
  <2>4. QED
    BY <2>2, <2>3
<1>5. QED
  BY <1>4

\* In any session, for any budget and sizes, a prompt is compacted as far as needed
\* and no further: the oldest results go, until it fits or none is left.
THEOREM CompactedAsNeeded == Spec => []CompactionIsExact
<1>1. ASSUME SessionInv PROVE CompactionIsExact
  <2> DEFINE messages == SubSeq(log, 1, last)
             old == Eligible(messages)
  <2>1. messages \in Seq(Messages) /\ system \in Nat /\ Budget \in Nat
    BY <1>1, LastPrompt, PromptConstants DEF SessionInv, PromptConstants
  <2>2. old \subseteq Nat
    <3>1. DOMAIN messages = 1..Len(messages)
      BY <2>1
    <3>2. QED
      BY <3>1 DEF Eligible
  <2> HIDE DEF messages
  <2>3. compacted = {i \in old : \A j \in old :
                        j <= i => Size(messages, system, Older(messages, j)) > Budget}
    BY <1>1, Compacts DEF SessionInv, messages
  <2>4. \A S : Size(messages, system, S) \in Nat
    <3>1. \A S : Cardinality(Text(messages, S)) \in Nat
      BY <2>1, TextFinite
    <3>2. QED
      BY <2>1, <3>1 DEF Size
  <2>o. \A i : Older(messages, i) = {k \in old : k < i}
    BY DEF Older
  <2> HIDE DEF old
  <2>5. compacted \subseteq old
    BY <2>3
  <2>6. \A i \in old, j \in compacted : i < j => i \in compacted
    <3>1. SUFFICES ASSUME NEW i \in old, NEW j \in compacted, i < j,
                          NEW k \in old, k <= i
                   PROVE  Size(messages, system, Older(messages, k)) > Budget
      BY <2>3
    <3>2. k <= j
      BY <2>2, <2>5, <3>1
    <3>3. QED
      BY <2>3, <3>1, <3>2
  <2>7. Size(messages, system, compacted) <= Budget \/ compacted = old
    <3>1. SUFFICES ASSUME compacted # old PROVE Size(messages, system, compacted) <= Budget
      OBVIOUS
    <3>2. PICK e \in old \ compacted : \A m \in old \ compacted : e <= m
      <4>1. old \ compacted # {} /\ old \ compacted \subseteq Nat
        BY <2>2, <2>5, <3>1
      <4>2. QED
        BY <4>1, FirstExists
    <3>3. Older(messages, e) = compacted
      <4>1. \A k \in old : k < e => k \in compacted
        BY <2>2, <3>2
      <4>2. \A k \in compacted : k < e
        BY <2>2, <2>5, <2>6, <3>2
      <4>3. QED
        BY <2>5, <2>o, <4>1, <4>2
    <3>4. PICK j \in old : j <= e /\ ~(Size(messages, system, Older(messages, j)) > Budget)
      BY <2>3, <3>2
    <3>5. j = e
      <4>1. j \notin compacted
        BY <2>2, <2>3, <3>4
      <4>2. QED
        BY <2>2, <3>2, <3>4, <4>1
    <3>6. QED
      BY <2>1, <2>4, <3>3, <3>4, <3>5
  <2>8. \A j \in compacted : (\A i \in compacted : i <= j)
                => Size(messages, system, compacted \ {j}) > Budget
    <3>1. SUFFICES ASSUME NEW j \in compacted, \A i \in compacted : i <= j
                   PROVE  Size(messages, system, compacted \ {j}) > Budget
      OBVIOUS
    <3>2. compacted \ {j} = Older(messages, j)
      <4>1. \A k \in compacted \ {j} : k \in old /\ k < j
        BY <2>2, <2>5, <3>1
      <4>2. \A k \in old : k < j => k \in compacted \ {j}
        BY <2>2, <2>5, <2>6
      <4>3. QED
        BY <2>o, <4>1, <4>2
    <3>3. j \in old /\ j <= j
      BY <2>2, <2>5
    <3>4. QED
      BY <2>3, <3>2, <3>3
  <2>9. QED
    BY <2>5, <2>6, <2>7, <2>8 DEF CompactionIsExact, messages, old
<1>2. QED
  BY InitSession, SessionKept, <1>1, PTL DEF Spec

\* In any session, what a prompt replaced stays replaced in the prompts that
\* continue it, as long as the system prompt does not become shorter.
THEOREM CompactedStays == Spec => CompactedStaysCompacted
<1> DEFINE Stays == IsPrefix(log, log') /\ last' > 0 /\ system' >= system
                        => compacted \subseteq compacted'
<1>1. ASSUME SessionInv, BuildMessages, IsPrefix(log, log'), system' >= system
      PROVE  compacted \subseteq compacted'
  <2> DEFINE messages == SubSeq(log, 1, last)
  <2>1. /\ log' \in Seq(Messages) /\ log \in Seq(Messages) /\ system \in Nat /\ system' \in Nat
        /\ compacted' = CompactToolResults(log', system')
        /\ compacted = CompactToolResults(messages, system)
    BY <1>1, BuiltSession DEF SessionInv
  <2>2. Len(log) <= Len(log') /\ \A i \in 1..Len(log) : log'[i] = log[i]
    <3>1. /\ Len(log) \in Nat /\ Len(log) <= Len(log')
          /\ SubSeq(log, 1, Len(log)) = SubSeq(log', 1, Len(log))
      BY <1>1, <2>1 DEF IsPrefix
    <3>2. \A i \in 1..Len(log) : /\ SubSeq(log, 1, Len(log))[i] = log[i]
                                 /\ SubSeq(log', 1, Len(log))[i] = log'[i]
      BY <2>1, <3>1
    <3>3. QED
      BY <3>1, <3>2
  <2>3. /\ messages \in Seq(Messages) /\ Len(messages) <= Len(log')
        /\ \A i \in 1..Len(messages) : log'[i] = messages[i]
    <3>1. /\ messages \in Seq(Messages) /\ Len(messages) = last /\ last <= Len(log)
          /\ last \in Nat /\ \A i \in 1..last : messages[i] = log[i]
      BY <1>1, LastPrompt DEF SessionInv
    <3>2. Len(log) \in Nat /\ Len(log') \in Nat
      BY <2>1
    <3> HIDE DEF messages
    <3>3. QED
      BY <2>2, <3>1, <3>2
  <2> HIDE DEF messages
  <2>4. system <= system'
    BY <1>1, <2>1
  <2>5. QED
    BY <2>1, <2>3, <2>4, CompactionGrows
<1>2. ASSUME SessionInv, [Next]_vars PROVE [Stays]_session
  <2>1. ASSUME NEW t \in Turn, Begin(t) PROVE Stays \/ UNCHANGED session
    BY <1>1, <1>2, <2>1 DEF Begin
  <2>2. ASSUME NEW t \in Turn, NEW messages, Reply(t, messages) PROVE Stays \/ UNCHANGED session
    BY <2>2 DEF Reply
  <2>3. ASSUME NEW t \in Turn, CallTool(t) \/ EndTurn(t) PROVE Stays \/ UNCHANGED session
    BY <2>2, <2>3 DEF CallTool, EndTurn
  <2>4. ASSUME NEW t \in Turn, RecoverFromOverflow(t) PROVE Stays \/ UNCHANGED session
    BY <2>4 DEF RecoverFromOverflow
  <2>5. CASE UNCHANGED vars
    BY <2>5 DEF vars
  <2>6. QED
    BY <1>2, <2>1, <2>3, <2>4, <2>5 DEF Next
<1>3. QED
  BY InitSession, SessionKept, <1>2, PTL DEF Spec, CompactedStaysCompacted
=============================================================================
