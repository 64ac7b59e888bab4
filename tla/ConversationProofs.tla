-------------------------- MODULE ConversationProofs --------------------------
(***************************************************************************)
(* Theorems of Conversation, for any number of goroutines, any window and  *)
(* any numbers of messages, clears and restarts.                           *)
(***************************************************************************)
EXTENDS Conversation, FiniteSetTheorems, WellFoundedInduction, TLAPS

\* The cases of a step; those that append a message and nothing else of
\* interest are under one name.
Speak == \/ \E n \in 1..MaxCalls : Respond(n)
         \/ \E call \in open : AnswerCall(call)
         \/ \E kind \in {"text", "user"} : Say(kind)

\* Every step is one of these.
LEMMA NextCases ==
    ASSUME [Next]_vars
    PROVE  \/ StartTurn \/ Speak \/ StartRecovery \/ EndTurn \/ TurnFails
           \/ \E w \in Worker : Begin(w)
           \/ \E p \in Process : ReadChunk(p) \/ NoChunk(p) \/ Advance(p) \/ SummarizeFails(p)
           \/ ClearLog \/ DropSidecar \/ Restart
           \/ UNCHANGED vars
  BY DEF Next, Turn, Speak, Consolidate

-----------------------------------------------------------------------------
(***************************************************************************)
(* The boundary                                                            *)
(***************************************************************************)

\* A set of candidates for the boundary has a least one.
LEMMA LeastExists ==
    ASSUME NEW T, T \subseteq Nat, T # {}
    PROVE  \E n \in T : \A m \in T : n <= m
<1> DEFINE Less == OpToRel(<, Nat)
<1>1. Less = {ss \in Nat \X Nat : ss[1] < ss[2]}
  BY DEF OpToRel
<1>2. IsWellFoundedOn(Less, Nat)
  BY NatLessThanWellFounded
<1> HIDE DEF Less
<1>3. PICK n \in T : \A m \in T : <<m, n>> \notin Less
  BY <1>2, WFMin
<1>4. \A m \in T : n <= m
  <2>1. SUFFICES ASSUME NEW m \in T PROVE n <= m
    OBVIOUS
  <2>2. n \in Nat /\ m \in Nat /\ <<m, n>> \notin Less
    BY <1>3
  <2>3. ~(m < n)
    BY <1>1, <2>2
  <2>4. QED
    BY <2>2, <2>3
<1>5. QED
  BY <1>4

\* The end of the chunk is within the count.
LEMMA TargetTyped ==
    ASSUME NEW j \in Job
    PROVE  Target(j) \in Nat /\ Target(j) <= j.total
<1>1. /\ j.total \in Nat /\ j.state.through \in Nat
      /\ MemoryWindow \in Nat
  BY ConversationConstants DEF ConversationConstants, Job, State
<1>2. QED
  BY <1>1 DEF Target

\* repairBoundary finds a boundary, between the end of the chunk and the count,
\* and stops before either only where it may.
LEMMA BoundaryWithinCount ==
    ASSUME NEW j \in Job
    PROVE  /\ SafeBoundary(j) \in Target(j)..j.total
           /\ \/ SafeBoundary(j) >= j.total \/ SafeBoundary(j) >= Len(log)
              \/ ~PassesOver(SafeBoundary(j))
<1>1. Target(j) \in Nat /\ j.total \in Nat /\ Target(j) <= j.total
  BY TargetTyped, ConversationConstants DEF ConversationConstants, Job
<1> DEFINE Stops(b) == b >= j.total \/ b >= Len(log) \/ ~PassesOver(b)
           T == {b \in Target(j)..j.total : Stops(b)}
<1>2. j.total \in T
  BY <1>1
<1>3. PICK n \in T : \A m \in T : n <= m
  <2>1. T \subseteq Nat /\ T # {}
    BY <1>1, <1>2
  <2> HIDE DEF T
  <2>2. QED
    BY <2>1, LeastExists
<1>4. \A c \in Target(j)..(n - 1) : ~Stops(c)
  <2>1. SUFFICES ASSUME NEW c \in Target(j)..(n - 1), Stops(c) PROVE FALSE
    OBVIOUS
  <2>2. c \in T
    BY <1>1, <1>3, <2>1
  <2>3. QED
    BY <1>1, <1>3, <2>1, <2>2
<1>5. \A c \in Target(j)..(n - 1) : c < Len(log) /\ PassesOver(c)
  <2>1. SUFFICES ASSUME NEW c \in Target(j)..(n - 1), ~Stops(c) PROVE c < Len(log) /\ PassesOver(c)
    BY <1>4
  <2>2. ~(c >= Len(log)) /\ PassesOver(c)
    BY <2>1
  <2>3. QED
    BY <1>1, <1>3, <2>1, <2>2
<1>6. \E b \in Target(j)..j.total :
        /\ b >= j.total \/ b >= Len(log) \/ ~PassesOver(b)
        /\ \A c \in Target(j)..(b - 1) : c < Len(log) /\ PassesOver(c)
  BY <1>3, <1>5
<1>7. QED
  BY <1>6 DEF SafeBoundary

-----------------------------------------------------------------------------
(***************************************************************************)
(* Types                                                                   *)
(***************************************************************************)
LEMMA Bounds ==
    ASSUME TypeOK
    PROVE  /\ Len(log) \in Nat /\ Len(log) <= MaxMessages /\ messages \in Nat
           /\ MaxMessages \in Nat /\ MaxClears \in Nat /\ MaxCrashes \in Nat
           /\ cached # NotCached => cached \in Nat /\ cached <= Len(log)
           /\ Loaded \in 0..Len(log)
           /\ TotalOfFile = Len(log) /\ Count = Loaded
<1>1. /\ Len(log) \in Nat /\ Len(log) <= messages /\ messages \in 0..MaxMessages
      /\ MaxMessages \in Nat /\ MaxClears \in Nat /\ MaxCrashes \in Nat
  BY ConversationConstants DEF ConversationConstants, TypeOK
<1>2. cached # NotCached => cached \in 0..Len(log)
  BY DEF TypeOK
<1>3. QED
  BY <1>1, <1>2 DEF Loaded, Count, TotalOfFile

\* Identifiers in the log, and how they change when a message is added.
LEMMA IdsTyped ==
    ASSUME TypeOK, NEW from \in Nat, NEW to \in Nat, to <= Len(log)
    PROVE  Ids(from, to) \subseteq 1..MaxMessages
<1>1. \A i \in (from + 1)..to : i \in 1..Len(log)
  BY Bounds
<1>2. \A i \in 1..Len(log) : log[i] \in Message
  BY DEF TypeOK
<1>3. \A i \in 1..Len(log) : log[i].id \in 1..MaxMessages
  BY <1>2 DEF Message
<1>4. QED
  BY <1>1, <1>3 DEF Ids

\* An append adds one message at the end; the cached total stays behind.
LEMMA AppendTyped ==
    ASSUME TypeOK, NEW kind \in {"user", "calls", "result", "text"},
           NEW calls \in SUBSET CallId, AppendMessage(kind, calls)
    PROVE  /\ log' \in Seq(Message) /\ Len(log') = Len(log) + 1
           /\ \A i \in 1..Len(log) : log'[i] = log[i]
           /\ messages' \in 0..MaxMessages /\ Len(log') <= messages'
           /\ cached' = Loaded /\ cached' \in {NotCached} \cup 0..Len(log')
<1> DEFINE m == [id |-> messages', kind |-> kind, calls |-> calls]
<1>1. messages' \in 1..MaxMessages /\ messages' = messages + 1
  BY Bounds DEF AppendMessage, TypeOK
<1>2. m \in Message
  BY <1>1 DEF Message
<1>3. log \in Seq(Message) /\ log' = Append(log, m)
  BY DEF TypeOK, AppendMessage
<1> HIDE DEF m
<1>4. /\ log' \in Seq(Message) /\ Len(log') = Len(log) + 1
      /\ \A i \in 1..Len(log) : log'[i] = log[i]
  BY <1>2, <1>3
<1>5. messages' \in 0..MaxMessages /\ Len(log') <= messages'
  BY <1>1, <1>4, Bounds DEF TypeOK
<1>6. cached' = Loaded /\ cached' \in {NotCached} \cup 0..Len(log')
  BY <1>4, Bounds DEF AppendMessage
<1>7. QED
  BY <1>4, <1>5, <1>6

\* A session begins empty, with a fresh sidecar.
LEMMA InitTyped == Init => TypeOK
<1> SUFFICES ASSUME Init PROVE TypeOK
  OBVIOUS
<1>1. MaxMessages \in Nat /\ MaxClears \in Nat /\ MaxCrashes \in Nat
  BY ConversationConstants DEF ConversationConstants
<1>2. Fresh \in State /\ NoJob \in Job
  BY <1>1 DEF Fresh, State, NoJob, Job
<1>3. log \in Seq(Message) /\ Len(log) = 0
  BY DEF Init
<1>4. cached \in {NotCached} \cup 0..Len(log)
  BY DEF Init
<1>5. job \in [Process -> Job] /\ sidecar \in State
  BY <1>2 DEF Init
<1>6. turnFrom \in 0..MaxMessages /\ messages \in 0..MaxMessages
      /\ clears \in 0..MaxClears /\ crashes \in 0..MaxCrashes
  BY <1>1 DEF Init
<1>7. Len(log) <= messages
  BY <1>3 DEF Init
<1>8. open \subseteq CallId /\ turn \in {"none", "running", "ending"}
      /\ consolidating \in BOOLEAN /\ clearing \in BOOLEAN /\ disturbed \in BOOLEAN
  BY DEF Init
<1>9. QED
  BY <1>3, <1>4, <1>5, <1>6, <1>7, <1>8 DEF TypeOK

\* What the turn does with the log.
Spoken == /\ turn = "running" /\ log' \in Seq(Message)
          /\ Len(log') \in {Len(log), Len(log) + 1}
          /\ \A i \in 1..Len(log) : log'[i] = log[i]
          /\ messages' \in 0..MaxMessages /\ Len(log') <= messages'
          /\ cached' = Loaded
          /\ open' \subseteq CallId
          /\ UNCHANGED <<sidecar, consolidating, job, turn, clearing, turnFrom,
                         disturbed, clears, crashes>>

\* Responding, answering a call and talking only add to the log.
LEMMA SpeakCases ==
    ASSUME TypeOK, Speak
    PROVE  Spoken
<1>0. /\ Len(log) \in Nat /\ messages \in Nat /\ MaxMessages \in Nat
      /\ log \in Seq(Message) /\ messages \in 0..MaxMessages /\ Len(log) <= messages
      /\ open \subseteq CallId
  BY Bounds DEF TypeOK
<1>1. ASSUME NEW n \in 1..MaxCalls, Respond(n) PROVE Spoken
  <2>1. messages < MaxMessages /\ messages' = messages + 1
    BY <1>1 DEF Respond, AppendMessage
  <2>2. open' \subseteq CallId
    <3>1. \A c \in 1..n : <<messages + 1, c>> \in CallId
      BY <1>0, <2>1, ConversationConstants DEF ConversationConstants, CallId
    <3>2. QED
      BY <1>1, <3>1 DEF Respond
  <2>3. CASE AppendMessage("calls", open')
    BY <1>1, <2>2, <2>3, AppendTyped DEF Respond, Working, Spoken
  <2>4. CASE cached' = Loaded /\ UNCHANGED log
    BY <1>0, <1>1, <2>1, <2>2, <2>4 DEF Respond, Working, Spoken
  <2>5. QED
    BY <1>1, <2>3, <2>4 DEF Respond
<1>2. ASSUME NEW call \in open, AnswerCall(call) PROVE Spoken
  <2>1. AppendMessage("result", {call}) /\ {call} \in SUBSET CallId
    BY <1>0, <1>2 DEF AnswerCall
  <2>2. QED
    BY <1>0, <1>2, <2>1, AppendTyped DEF AnswerCall, Working, Spoken
<1>3. ASSUME NEW kind \in {"text", "user"}, Say(kind) PROVE Spoken
  <2>1. AppendMessage(kind, {})
    BY <1>3 DEF Say
  <2>2. QED
    BY <1>0, <1>3, <2>1, AppendTyped DEF Say, Working, Spoken
<1>4. QED
  BY <1>1, <1>2, <1>3 DEF Speak

\* Every step keeps the types.
LEMMA TypePreserved ==
    ASSUME TypeOK, [Next]_vars
    PROVE  TypeOK'
<1> USE DEF files, counts
<1>0. /\ Len(log) \in Nat /\ Len(log) <= MaxMessages /\ MaxMessages \in Nat
      /\ Loaded \in 0..Len(log) /\ Count = Loaded
      /\ Fresh \in State /\ NoJob \in Job
  BY Bounds DEF Fresh, State, NoJob, Job
<1>1. CASE StartTurn
  <2>1. AppendMessage("user", {})
    BY <1>1 DEF StartTurn
  <2>2. turnFrom' \in 0..MaxMessages
    BY <1>0, <1>1 DEF StartTurn
  <2>3. QED
    BY <1>1, <2>1, <2>2, AppendTyped DEF StartTurn, TypeOK
<1>2. CASE Speak
  <2>1. Spoken
    BY <1>2, SpeakCases
  <2>2. cached' \in 0..Len(log')
    BY <1>0, <2>1 DEF Spoken
  <2>3. QED
    BY <2>1, <2>2 DEF Spoken, TypeOK
<1>3. ASSUME NEW p \in Process, LoadState(p) PROVE job' \in [Process -> Job]
  <2>1. [NoJob EXCEPT !.stage = "loaded", !.state = sidecar] \in Job
    BY <1>0 DEF TypeOK, NoJob, Job
  <2>2. QED
    BY <1>3, <2>1 DEF LoadState, TypeOK
<1>4. CASE StartRecovery
  BY <1>3, <1>4 DEF StartRecovery, TypeOK, Process
<1>5. CASE EndTurn
  <2>1. [NoJob EXCEPT !.stage = "scheduled"] \in Job
    BY <1>0 DEF NoJob, Job
  <2>2. job' \in [Process -> Job]
    BY <1>5, <2>1 DEF EndTurn, TypeOK, Process
  <2>3. QED
    BY <1>5, <2>2 DEF EndTurn, TypeOK
<1>6. CASE TurnFails
  BY <1>0, <1>6 DEF TurnFails, TypeOK
<1>7. ASSUME NEW w \in Worker, Begin(w) PROVE TypeOK'
  <2>1. job' \in [Process -> Job] /\ consolidating' \in BOOLEAN
    BY <1>0, <1>3, <1>7 DEF Begin, TypeOK, Process
  <2>2. QED
    BY <1>7, <2>1 DEF Begin, TypeOK
<1>8. ASSUME NEW p \in Process, ReadChunk(p) PROVE TypeOK'
  <2> DEFINE j == [job[p] EXCEPT !.total = Count]
             to == IF Target(j) <= Len(log) THEN Target(j) ELSE Len(log)
             k == [j EXCEPT !.stage = "summarizing", !.chunk = Ids(j.state.through, to)]
  <2>1. j \in Job
    <3>1. job[p] \in Job /\ Count \in 0..MaxMessages
      BY <1>0 DEF TypeOK
    <3>2. QED
      BY <3>1 DEF Job
  <2>2. Target(j) \in Nat /\ j.state.through \in Nat
    BY <1>0, <2>1, TargetTyped DEF Job, State
  <2>3. to \in Nat /\ to <= Len(log)
    BY <1>0, <2>2
  <2>4. Ids(j.state.through, to) \subseteq 1..MaxMessages
    BY <2>2, <2>3, IdsTyped
  <2>5. k \in Job
    BY <2>1, <2>4 DEF Job
  <2>6. job' = [job EXCEPT ![p] = k]
    BY <1>8 DEF ReadChunk
  <2>7. job' \in [Process -> Job]
    BY <2>5, <2>6 DEF TypeOK
  <2>8. QED
    BY <1>8, <2>7 DEF ReadChunk, TypeOK
<1>9. ASSUME NEW p \in Process, NEW advanced \in BOOLEAN, Conclude(p, advanced),
             sidecar' \in State
      PROVE  TypeOK'
  BY <1>0, <1>9 DEF Conclude, TypeOK
<1>10. ASSUME NEW p \in Process, NoChunk(p) \/ SummarizeFails(p) PROVE TypeOK'
  BY <1>9, <1>10 DEF NoChunk, SummarizeFails, TypeOK
<1>11. ASSUME NEW p \in Process, Advance(p) PROVE TypeOK'
  <2>1. job[p] \in Job
    BY DEF TypeOK
  <2>2. SafeBoundary(job[p]) \in 0..MaxMessages
    BY <1>0, <2>1, BoundaryWithinCount, TargetTyped DEF Job
  <2>3. sidecar' \in State
    BY <1>11, <2>1, <2>2 DEF Advance, State, Job
  <2>4. QED
    BY <1>9, <1>11, <2>3 DEF Advance
<1>12. CASE ClearLog
  <2>1. log' \in Seq(Message) /\ Len(log') \in Nat /\ Len(log') <= messages
    <3>1. log' = log \/ log' = <<>>
      BY <1>12 DEF ClearLog
    <3>2. CASE log' = log
      BY <1>0, <3>2 DEF TypeOK
    <3>3. CASE log' = <<>>
      <4>1. messages \in Nat
        BY Bounds
      <4>2. QED
        BY <3>3, <4>1
    <3>4. QED
      BY <3>1, <3>2, <3>3
  <2>2. clears' \in 0..MaxClears /\ disturbed' \in BOOLEAN /\ clearing' \in BOOLEAN
    <3>1. clears' \in 0..MaxClears
      BY <1>12, Bounds DEF ClearLog, TypeOK
    <3>2. disturbed' \in BOOLEAN
      BY <1>12 DEF ClearLog, TypeOK, InTheAir
    <3>3. clearing' \in BOOLEAN
      BY <1>12 DEF ClearLog, TypeOK
    <3>4. QED
      BY <3>1, <3>2, <3>3
  <2>3. cached' \in 0..Len(log')
    BY <1>12, <2>1 DEF ClearLog, TotalCleared
  <2>4. QED
    BY <1>12, <2>1, <2>2, <2>3 DEF ClearLog, TypeOK
<1>13. CASE DropSidecar
  BY <1>0, <1>13 DEF DropSidecar, TypeOK
<1>14. CASE Restart
  <2>1. crashes' \in 0..MaxCrashes /\ disturbed' \in BOOLEAN
    BY <1>14, Bounds DEF Restart, TypeOK
  <2>2. QED
    BY <1>0, <1>14, <2>1 DEF Restart, TypeOK
<1>15. CASE UNCHANGED vars
  BY <1>15 DEF vars, TypeOK
<1>16. QED
  BY <1>1, <1>2, <1>4, <1>5, <1>6, <1>7, <1>8, <1>10, <1>11, <1>12, <1>13, <1>14,
     <1>15, NextCases

\* Every variable keeps its type: in particular the boundary that
\* repairBoundary looks for exists, and a cached total is never ahead of the log.
THEOREM TypeCorrect == Spec => []TypeOK
  BY InitTyped, TypePreserved, PTL DEF Spec

-----------------------------------------------------------------------------
(***************************************************************************)
(* One consolidation in the background at a time                           *)
(***************************************************************************)
Busy(w) == job[w].stage \in {"loaded", "summarizing"}

BusyInv == /\ \A w \in Worker : Busy(w) => consolidating
           /\ \A v, w \in Worker : Busy(v) /\ Busy(w) => v = w
           /\ consolidating => \E w \in Worker : Busy(w)

\* The mark and the goroutines at work change together.
LEMMA BusyPreserved ==
    ASSUME TypeOK, BusyInv, [Next]_vars
    PROVE  BusyInv'
<1> USE DEF files, counts
<1>0. /\ job \in [Process -> Job] /\ Recovery \notin Worker
      /\ Worker \subseteq Process /\ Recovery \in Process
      /\ NoJob.stage = "idle"
  BY ConversationConstants DEF ConversationConstants, TypeOK, Process, NoJob
<1>1. ASSUME UNCHANGED <<job, consolidating>> PROVE BusyInv'
  BY <1>1 DEF BusyInv, Busy
<1>2. ASSUME NEW p \in Process, NEW k, job' = [job EXCEPT ![p] = k],
             UNCHANGED consolidating,
             p \in Worker => (Busy(p) <=> k.stage \in {"loaded", "summarizing"})
      PROVE  BusyInv'
  <2>1. \A w \in Worker : Busy(w)' <=> Busy(w)
    BY <1>0, <1>2 DEF Busy
  <2>2. QED
    BY <1>2, <2>1 DEF BusyInv
<1>3. CASE StartTurn
  BY <1>1, <1>3 DEF StartTurn
<1>4. CASE Speak
  BY <1>1, <1>4, SpeakCases DEF Spoken
<1>5. CASE StartRecovery
  BY <1>0, <1>2, <1>5 DEF StartRecovery, LoadState
<1>6. CASE EndTurn
  <2>1. CASE UNCHANGED job
    BY <1>1, <1>6, <2>1 DEF EndTurn
  <2>2. ASSUME NEW w \in Worker, job[w].stage = "idle",
               job' = [job EXCEPT ![w] = [NoJob EXCEPT !.stage = "scheduled"]]
        PROVE  BusyInv'
    <3>1. [NoJob EXCEPT !.stage = "scheduled"].stage = "scheduled"
      BY DEF NoJob
    <3>2. QED
      BY <1>0, <1>2, <1>6, <2>2, <3>1 DEF EndTurn, Busy
  <2>3. QED
    BY <1>6, <2>1, <2>2 DEF EndTurn
<1>7. CASE TurnFails
  BY <1>1, <1>7 DEF TurnFails
<1>8. ASSUME NEW w \in Worker, Begin(w) PROVE BusyInv'
  <2>1. CASE consolidating /\ job' = [job EXCEPT ![w] = NoJob] /\ UNCHANGED consolidating
    BY <1>0, <1>2, <1>8, <2>1 DEF Begin, Busy
  <2>2. CASE ~consolidating /\ consolidating' = TRUE /\ LoadState(w)
    <3>1. [NoJob EXCEPT !.stage = "loaded", !.state = sidecar].stage = "loaded"
      BY DEF NoJob
    <3>2. /\ Busy(w)'
          /\ \A v \in Worker : v # w => Busy(v)' = Busy(v)
      BY <1>0, <2>2, <3>1 DEF LoadState, Busy
    <3>3. QED
      BY <2>2, <3>2 DEF BusyInv
  <2>3. QED
    BY <1>8, <2>1, <2>2 DEF Begin
<1>9. ASSUME NEW p \in Process, ReadChunk(p) PROVE BusyInv'
  <2> DEFINE j == [job[p] EXCEPT !.total = Count]
             k == [j EXCEPT !.stage = "summarizing",
                            !.chunk = Ids(j.state.through,
                                          IF Target(j) <= Len(log) THEN Target(j) ELSE Len(log))]
  <2>1. job[p] \in Job
    BY <1>0
  <2>2. k.stage = "summarizing"
    BY <2>1 DEF Job
  <2>3. job' = [job EXCEPT ![p] = k] /\ job[p].stage = "loaded" /\ UNCHANGED consolidating
    BY <1>9 DEF ReadChunk
  <2> HIDE DEF k
  <2>4. QED
    BY <1>2, <2>2, <2>3 DEF Busy
<1>10. ASSUME NEW p \in Process, NEW advanced \in BOOLEAN, Conclude(p, advanced),
              job[p].stage \in {"loaded", "summarizing"}
       PROVE  BusyInv'
  <2>1. CASE p = Recovery
    BY <1>0, <1>2, <1>10, <2>1 DEF Conclude
  <2>2. CASE p \in Worker
    <3>1. /\ ~Busy(p)' /\ ~consolidating'
          /\ \A v \in Worker : v # p => Busy(v)' = Busy(v)
      BY <1>0, <1>10, <2>2 DEF Conclude, Busy
    <3>2. \A v \in Worker : ~Busy(v)'
      BY <1>10, <2>2, <3>1 DEF BusyInv, Busy
    <3>3. QED
      BY <3>1, <3>2 DEF BusyInv
  <2>3. QED
    BY <2>1, <2>2 DEF Process
<1>11. ASSUME NEW p \in Process, NoChunk(p) \/ Advance(p) \/ SummarizeFails(p)
       PROVE  BusyInv'
  BY <1>10, <1>11 DEF NoChunk, Advance, SummarizeFails
<1>12. CASE ClearLog
  BY <1>1, <1>12 DEF ClearLog
<1>13. CASE DropSidecar
  BY <1>1, <1>13 DEF DropSidecar
<1>14. CASE Restart
  BY <1>0, <1>14 DEF Restart, BusyInv, Busy
<1>15. CASE UNCHANGED vars
  BY <1>1, <1>15 DEF vars
<1>16. QED
  BY <1>3, <1>4, <1>5, <1>6, <1>7, <1>8, <1>9, <1>11, <1>12, <1>13, <1>14, <1>15, NextCases

\* At most one goroutine consolidates, and exactly when the session is marked:
\* scheduleMaintenance may spawn many, runMaintenance looks again.
THEOREM OneAtATime == Spec => []OneConsolidation
<1>1. Init => BusyInv
  BY ConversationConstants DEF ConversationConstants, Init, BusyInv, Busy, NoJob, Process
<1>2. TypeOK /\ BusyInv /\ [Next]_vars => BusyInv'
  BY BusyPreserved
<1>3. BusyInv => OneConsolidation
  <2> SUFFICES ASSUME BusyInv PROVE OneConsolidation
    OBVIOUS
  <2> DEFINE busy == {w \in Worker : job[w].stage \in {"loaded", "summarizing"}}
  <2>1. CASE consolidating
    <3>1. PICK w \in Worker : Busy(w)
      BY <2>1 DEF BusyInv
    <3>2. busy = {w}
      BY <3>1 DEF BusyInv, Busy
    <3>3. Cardinality(busy) = 1
      BY <3>2, FS_Singleton
    <3>4. QED
      BY <2>1, <3>3 DEF OneConsolidation
  <2>2. CASE ~consolidating
    <3>1. busy = {}
      BY <2>2 DEF BusyInv, Busy
    <3>2. Cardinality(busy) = 0
      BY <3>1, FS_EmptySet
    <3>3. QED
      BY <2>2, <3>2 DEF OneConsolidation
  <2>3. QED
    BY <2>1, <2>2
<1>4. QED
  BY TypeCorrect, <1>1, <1>2, <1>3, PTL DEF Spec

-----------------------------------------------------------------------------
(***************************************************************************)
(* The sidecar.  As long as every clear was clean, what a consolidation    *)
(* loaded is about the log, or the count says that there is nothing to do: *)
(* a clear leaves a count of zero, and the process never corrects it.      *)
(* What is being summarised lies within the count, and the count does not  *)
(* reach beyond the turn in progress, which it was taken before.           *)
(***************************************************************************)
About(state) == /\ state.through <= Len(log)
                /\ state.summary \subseteq Ids(0, state.through)

\* A turn and a clear exclude each other; a recovery belongs to a turn.
Exclusive == /\ clearing => turn = "none"
             /\ job[Recovery].stage # "idle" => turn = "running"

ClearingInv == clearing => log = <<>> /\ Count = 0

LoadedInv == \A p \in Process : job[p].stage = "loaded" => About(job[p].state) \/ Count = 0

SummarizingInv ==
    \A p \in Process : job[p].stage = "summarizing" =>
        /\ ~clearing
        /\ About(job[p].state)
        /\ job[p].state.through <= Target(job[p])
        /\ job[p].total <= Len(log)
        /\ job[p].chunk \subseteq Ids(job[p].state.through, Target(job[p]))

TurnInv ==
    turn # "none" =>
        /\ turnFrom <= Len(log)
        /\ cached # NotCached /\ cached <= turnFrom
        /\ sidecar.through <= turnFrom
        /\ \A p \in Process : job[p].stage = "summarizing" => job[p].total <= turnFrom

SidecarInv == /\ ~clearing => About(sidecar)
              /\ ClearingInv
              /\ LoadedInv
              /\ SummarizingInv
              /\ TurnInv

CleanInv == ~disturbed => SidecarInv


\* What is said of positions already in the log stays true when it grows.
LEMMA IdsKept ==
    ASSUME TypeOK, Len(log) <= Len(log'), \A i \in 1..Len(log) : log'[i] = log[i],
           NEW from \in Nat, NEW to \in Nat, to <= Len(log)
    PROVE  {log'[i].id : i \in (from + 1)..to} = Ids(from, to)
<1>1. \A i \in (from + 1)..to : log'[i] = log[i]
  BY Bounds
<1>2. QED
  BY <1>1 DEF Ids

\* A chunk is the piece of the log between two boundaries.
LEMMA IdsSplit ==
    ASSUME NEW from \in Nat, NEW to \in Nat, from <= to
    PROVE  Ids(0, from) \cup Ids(from, to) \subseteq Ids(0, to)
  BY DEF Ids

\* A nearer boundary has fewer messages before it.
LEMMA IdsWider ==
    ASSUME NEW from \in Nat, NEW to \in Nat, NEW further \in Nat, to <= further
    PROVE  Ids(from, to) \subseteq Ids(from, further)
  BY DEF Ids

\* The log grows, or stays.
Grows == /\ Len(log') \in Nat /\ Len(log) <= Len(log')
         /\ \A i \in 1..Len(log) : log'[i] = log[i]

\* A state that is about the log stays so when the log grows.
LEMMA AboutKept ==
    ASSUME TypeOK, Grows, NEW s \in State, About(s)
    PROVE  s.through <= Len(log') /\ s.summary \subseteq {log'[i].id : i \in (0 + 1)..s.through}
<1>1. s.through \in Nat /\ s.through <= Len(log) /\ Len(log) \in Nat
  BY Bounds DEF State, About
<1>2. {log'[i].id : i \in (0 + 1)..s.through} = Ids(0, s.through)
  BY <1>1, IdsKept DEF Grows
<1>3. QED
  BY <1>1, <1>2 DEF About, Grows

\* A job is left alone, or is over, or has loaded the sidecar.
JobsKept == \A p \in Process :
                \/ job'[p] = job[p]
                \/ job'[p].stage \in {"idle", "scheduled"}
                \/ job'[p].stage = "loaded" /\ job'[p].state = sidecar

\* Steps that neither read the count nor write the sidecar keep what is said
\* of them.
LEMMA SidecarKept ==
    ASSUME TypeOK, SidecarInv, Grows, JobsKept, Count' = Count,
           UNCHANGED <<sidecar, clearing>>, clearing => UNCHANGED log
    PROVE  (~clearing => About(sidecar))' /\ ClearingInv' /\ LoadedInv' /\ SummarizingInv'
<1>0. /\ sidecar \in State /\ Len(log) \in Nat /\ Len(log') \in Nat /\ Len(log) <= Len(log')
      /\ \A p \in Process : job[p] \in Job /\ job[p].state \in State
  BY Bounds DEF TypeOK, Job, Grows
<1>1. (~clearing => About(sidecar))'
  BY <1>0, AboutKept DEF SidecarInv, About, Ids
<1>2. ClearingInv'
  BY DEF SidecarInv, ClearingInv
<1>3. ASSUME NEW p \in Process, job'[p].stage = "loaded"
      PROVE  About(job[p].state)' \/ Count' = 0
  <2>1. CASE job'[p] = job[p]
    <3>1. About(job[p].state) \/ Count = 0
      BY <1>3, <2>1 DEF SidecarInv, LoadedInv
    <3>2. QED
      BY <1>0, <2>1, <3>1, AboutKept DEF About, Ids
  <2>2. CASE job'[p].state = sidecar
    BY <1>0, <2>2, AboutKept DEF SidecarInv, ClearingInv, About, Ids
  <2>3. QED
    BY <1>3, <2>1, <2>2 DEF JobsKept
<1>4. ASSUME NEW p \in Process, job'[p].stage = "summarizing"
      PROVE  /\ ~clearing'
             /\ About(job[p].state)'
             /\ job'[p].state.through <= Target(job'[p])
             /\ job'[p].total <= Len(log')
             /\ job'[p].chunk \subseteq Ids(job[p].state.through, Target(job[p]))'
  <2>1. job'[p] = job[p]
    BY <1>4 DEF JobsKept
  <2>2. /\ ~clearing /\ About(job[p].state)
        /\ job[p].state.through <= Target(job[p])
        /\ job[p].total <= Len(log)
        /\ job[p].chunk \subseteq Ids(job[p].state.through, Target(job[p]))
    BY <1>4, <2>1 DEF SidecarInv, SummarizingInv
  <2>3. /\ Target(job[p]) \in Nat /\ Target(job[p]) <= Len(log)
        /\ job[p].state.through \in Nat /\ job[p].total \in Nat
    BY <1>0, <2>2, TargetTyped DEF Job, State
  <2>4. {log'[i].id : i \in (job[p].state.through + 1)..Target(job[p])}
            = Ids(job[p].state.through, Target(job[p]))
    BY <2>3, IdsKept DEF Grows
  <2>5. About(job[p].state)'
    BY <1>0, <2>1, <2>2, AboutKept DEF About, Ids
  <2>6. job'[p].chunk \subseteq Ids(job[p].state.through, Target(job[p]))'
    BY <2>1, <2>2, <2>4 DEF Ids, Target
  <2>7. job'[p].total <= Len(log')
    BY <1>0, <2>1, <2>2, <2>3
  <2>8. QED
    BY <2>1, <2>2, <2>5, <2>6, <2>7
<1>5. QED
  BY <1>1, <1>2, <1>3, <1>4 DEF LoadedInv, SummarizingInv

\* The turn in progress has what it had when it began.
LEMMA TurnKept ==
    ASSUME TypeOK, SidecarInv, Grows, JobsKept, turn' # "none" => turn # "none",
           cached' \in {cached, Loaded}, UNCHANGED <<sidecar, turnFrom>>
    PROVE  TurnInv'
<1> SUFFICES ASSUME turn' # "none" PROVE TurnInv'
  BY DEF TurnInv
<1>1. TurnInv /\ turn # "none" /\ Len(log) \in Nat /\ turnFrom \in Nat
  BY Bounds DEF SidecarInv, TypeOK
<1>2. cached' = cached /\ cached # NotCached
  BY <1>1 DEF TurnInv, Loaded
<1>3. turnFrom' <= Len(log')
  BY <1>1 DEF TurnInv, Grows
<1>4. ASSUME NEW p \in Process, job'[p].stage = "summarizing"
      PROVE  job'[p].total <= turnFrom'
  BY <1>1, <1>4 DEF JobsKept, TurnInv
<1>5. QED
  BY <1>1, <1>2, <1>3, <1>4 DEF TurnInv, NotCached

\* A turn and a clear exclude each other, and only a turn recovers.
LEMMA ExclusivePreserved ==
    ASSUME TypeOK, Exclusive, [Next]_vars
    PROVE  Exclusive'
<1> USE DEF files, counts
<1>0. /\ job \in [Process -> Job] /\ Recovery \notin Worker
      /\ Worker \subseteq Process /\ Recovery \in Process
      /\ NoJob.stage = "idle"
  BY ConversationConstants DEF ConversationConstants, TypeOK, Process, NoJob
<1>1. CASE StartTurn
  BY <1>1 DEF StartTurn, Exclusive
<1>2. CASE Speak
  BY <1>2, SpeakCases DEF Spoken, Exclusive
<1>3. CASE StartRecovery
  BY <1>3 DEF StartRecovery, Working, Exclusive
<1>4. CASE EndTurn
  <2>1. job'[Recovery] = job[Recovery]
    BY <1>0, <1>4 DEF EndTurn
  <2>2. QED
    BY <1>4, <2>1 DEF EndTurn, Exclusive
<1>5. CASE TurnFails
  BY <1>5 DEF TurnFails, Exclusive
<1>6. ASSUME NEW w \in Worker, Begin(w) PROVE Exclusive'
  <2>1. job'[Recovery] = job[Recovery]
    BY <1>0, <1>6 DEF Begin, LoadState
  <2>2. QED
    BY <1>6, <2>1 DEF Begin, Exclusive
<1>7. ASSUME NEW p \in Process, ReadChunk(p) PROVE Exclusive'
  <2>1. job'[Recovery].stage # "idle" => job[Recovery].stage # "idle"
    BY <1>0, <1>7 DEF ReadChunk
  <2>2. QED
    BY <1>7, <2>1 DEF ReadChunk, Exclusive
<1>8. ASSUME NEW p \in Process, NoChunk(p) \/ Advance(p) \/ SummarizeFails(p)
      PROVE  Exclusive'
  <2>1. PICK advanced \in BOOLEAN : Conclude(p, advanced)
    BY <1>8 DEF NoChunk, Advance, SummarizeFails
  <2>2. job[p].stage # "idle"
    BY <1>8 DEF NoChunk, Advance, SummarizeFails
  <2>3. CASE p = Recovery
    BY <1>0, <2>1, <2>2, <2>3 DEF Conclude, Exclusive
  <2>4. CASE p # Recovery
    BY <1>0, <2>1, <2>4 DEF Conclude, Exclusive
  <2>5. QED
    BY <2>3, <2>4
<1>9. CASE ClearLog
  BY <1>9 DEF ClearLog, Exclusive
<1>10. CASE DropSidecar
  BY <1>10 DEF DropSidecar, Exclusive
<1>11. CASE Restart
  BY <1>0, <1>11 DEF Restart, Exclusive
<1>12. CASE UNCHANGED vars
  BY <1>12 DEF vars, Exclusive
<1>13. QED
  BY <1>1, <1>2, <1>3, <1>4, <1>5, <1>6, <1>7, <1>8, <1>9, <1>10, <1>11, <1>12, NextCases

\* What is being summarised becomes part of a sidecar that is about the log.
LEMMA AdvanceClean ==
    ASSUME TypeOK, Exclusive, SidecarInv, NEW p \in Process, Advance(p)
    PROVE  SidecarInv'
<1> USE DEF counts
<1> DEFINE j == job[p]
           b == SafeBoundary(j)
<1>1. /\ j \in Job /\ j.state \in State
      /\ j.state.through \in Nat /\ j.total \in Nat /\ Len(log) \in Nat
      /\ job \in [Process -> Job] /\ NoJob.stage = "idle"
  BY Bounds DEF TypeOK, Job, State, NoJob
<1>2. /\ ~clearing /\ About(j.state)
      /\ j.state.through <= Target(j) /\ j.total <= Len(log)
      /\ j.chunk \subseteq Ids(j.state.through, Target(j))
  BY DEF Advance, SidecarInv, SummarizingInv
<1>3. /\ Target(j) \in Nat /\ Target(j) <= j.total
      /\ b \in Nat /\ Target(j) <= b /\ b <= j.total
  BY <1>1, TargetTyped, BoundaryWithinCount
<1>4. sidecar' = [through |-> b, summary |-> j.state.summary \cup j.chunk]
  BY DEF Advance
<1> HIDE DEF b
<1>5. j.state.summary \cup j.chunk \subseteq Ids(0, b)
  <2>1. j.state.summary \cup j.chunk \subseteq Ids(0, Target(j))
    BY <1>1, <1>2, <1>3, IdsSplit DEF About
  <2>2. Ids(0, Target(j)) \subseteq Ids(0, b)
    BY <1>3, IdsWider
  <2>3. QED
    BY <2>1, <2>2
<1>6. /\ log' = log /\ cached' = cached /\ clearing' = clearing /\ turnFrom' = turnFrom
      /\ job' = [job EXCEPT ![p] = NoJob]
      /\ turn' # "none" => turn # "none"
  BY DEF Advance, Conclude, Exclusive
<1>7. /\ job'[p].stage = "idle"
      /\ \A q \in Process : q # p => job'[q] = job[q]
  BY <1>1, <1>6
<1>8. (~clearing => About(sidecar))'
  BY <1>1, <1>2, <1>3, <1>4, <1>5, <1>6 DEF About, Ids
<1>9. ClearingInv'
  BY <1>2, <1>6 DEF ClearingInv
<1>10. LoadedInv'
  <2>1. ASSUME NEW q \in Process, job'[q].stage = "loaded"
        PROVE  About(job[q].state)' \/ Count' = 0
    <3>1. job'[q] = job[q]
      BY <1>7, <2>1
    <3>2. About(job[q].state) \/ Count = 0
      BY <2>1, <3>1 DEF SidecarInv, LoadedInv
    <3>3. QED
      BY <1>6, <3>1, <3>2 DEF About, Ids, Count, Loaded, TotalOfFile
  <2>2. QED
    BY <2>1 DEF LoadedInv
<1>11. SummarizingInv'
  <2>1. \A q \in Process : job'[q].stage = "summarizing" => job'[q] = job[q]
    BY <1>7
  <2>2. QED
    BY <1>6, <2>1 DEF SidecarInv, SummarizingInv, About, Ids, Target
<1>12. TurnInv'
  <2>1. SUFFICES ASSUME turn' # "none" PROVE TurnInv'
    BY DEF TurnInv
  <2>2. TurnInv /\ turn # "none"
    BY <1>6, <2>1 DEF SidecarInv
  <2>3. j.total <= turnFrom /\ turnFrom \in Nat
    BY <2>2 DEF TurnInv, Advance, TypeOK
  <2>4. sidecar'.through <= turnFrom'
    BY <1>1, <1>3, <1>4, <1>6, <2>3
  <2>5. \A q \in Process : job'[q].stage = "summarizing" => job'[q] = job[q]
    BY <1>7
  <2>6. QED
    BY <1>6, <2>2, <2>4, <2>5 DEF TurnInv
<1>13. QED
  BY <1>8, <1>9, <1>10, <1>11, <1>12 DEF SidecarInv

\* What a consolidation reads is within the count, and so within the log.
LEMMA ReadChunkClean ==
    ASSUME TypeOK, SidecarInv, NEW p \in Process, ReadChunk(p)
    PROVE  SidecarInv'
<1> USE DEF files, counts
<1> DEFINE j == [job[p] EXCEPT !.total = Count]
           to == IF Target(j) <= Len(log) THEN Target(j) ELSE Len(log)
           k == [j EXCEPT !.stage = "summarizing", !.chunk = Ids(j.state.through, to)]
<1>1. /\ job \in [Process -> Job] /\ job[p] \in Job
      /\ Len(log) \in Nat /\ Len(log) <= MaxMessages /\ MaxMessages \in Nat
      /\ Loaded \in 0..Len(log) /\ Count = Loaded
  BY Bounds DEF TypeOK
<1>2. /\ j \in Job /\ j.total = Count /\ j.state = job[p].state
      /\ j.state \in State /\ j.state.through \in Nat
  BY <1>1 DEF Job, State
<1>3. /\ job[p].stage = "loaded" /\ HasChunk(p, j) /\ job' = [job EXCEPT ![p] = k]
      /\ UNCHANGED <<log, sidecar, cached, turn, clearing, turnFrom>>
  BY DEF ReadChunk
<1>4. /\ k.stage = "summarizing" /\ k.state = j.state /\ k.total = Count
      /\ k.chunk = Ids(j.state.through, to)
  BY <1>2 DEF Job
<1> HIDE DEF k
<1>5. /\ Target(j) \in Nat /\ Target(j) <= Count /\ Count \in Nat /\ Count <= Len(log)
      /\ j.state.through < Target(j)
  <2>1. Target(j) > j.state.through
    BY <1>3 DEF HasChunk
  <2>2. Target(j) \in Nat /\ Target(j) <= j.total
    BY <1>2, TargetTyped
  <2> HIDE DEF j
  <2>3. QED
    BY <1>1, <1>2, <2>1, <2>2
<1>6. Target(k) = Target(j) /\ to = Target(j)
  BY <1>1, <1>2, <1>4, <1>5 DEF Target
<1> HIDE DEF j, to
<1>7. About(k.state) /\ ~clearing
  BY <1>1, <1>2, <1>3, <1>4, <1>5 DEF SidecarInv, LoadedInv, ClearingInv
<1>8. /\ job'[p] = k
      /\ \A q \in Process : q # p => job'[q] = job[q]
  BY <1>1, <1>3
<1>9. Count' = Count
  BY <1>3 DEF Count, Loaded, TotalOfFile
<1>10. (~clearing => About(sidecar))' /\ ClearingInv'
  BY <1>3, <1>9 DEF SidecarInv, ClearingInv, About, Ids
<1>11. LoadedInv'
  <2>1. \A q \in Process : job'[q].stage = "loaded" => job'[q] = job[q]
    BY <1>4, <1>8
  <2>2. QED
    BY <1>3, <1>9, <2>1 DEF SidecarInv, LoadedInv, About, Ids
<1>12. SummarizingInv'
  <2>1. /\ ~clearing /\ About(k.state)
        /\ k.state.through <= Target(k)
        /\ k.total <= Len(log)
        /\ k.chunk \subseteq Ids(k.state.through, Target(k))
    BY <1>2, <1>4, <1>5, <1>6, <1>7
  <2>2. \A q \in Process : job'[q].stage = "summarizing" =>
            /\ ~clearing /\ About(job'[q].state)
            /\ job'[q].state.through <= Target(job'[q])
            /\ job'[q].total <= Len(log)
            /\ job'[q].chunk \subseteq Ids(job'[q].state.through, Target(job'[q]))
    BY <1>8, <2>1 DEF SidecarInv, SummarizingInv
  <2>3. QED
    BY <1>3, <2>2 DEF SummarizingInv, About, Ids, Target
<1>13. TurnInv'
  <2>1. turn # "none" => Count <= turnFrom
    BY DEF SidecarInv, TurnInv, Count, Loaded
  <2>2. QED
    BY <1>3, <1>4, <1>8, <2>1 DEF SidecarInv, TurnInv
<1>14. QED
  BY <1>10, <1>11, <1>12, <1>13 DEF SidecarInv

\* A new session meets the invariant.
LEMMA InitClean == Init => Exclusive /\ CleanInv
<1> SUFFICES ASSUME Init PROVE Exclusive /\ CleanInv
  OBVIOUS
<1>1. /\ turn = "none" /\ ~clearing /\ log = <<>>
      /\ sidecar.through = 0 /\ sidecar.summary = {}
      /\ \A p \in Process : job[p].stage = "idle"
  BY DEF Init, Fresh, NoJob
<1>2. Len(log) = 0
  BY <1>1
<1>3. Exclusive
  BY <1>1 DEF Exclusive, Process
<1>4. About(sidecar)
  BY <1>1, <1>2 DEF About
<1>5. QED
  BY <1>1, <1>3, <1>4 DEF CleanInv, SidecarInv, ClearingInv, LoadedInv, SummarizingInv, TurnInv

\* As long as every clear was clean, the sidecar is about the log.
LEMMA CleanPreserved ==
    ASSUME TypeOK, Exclusive, CleanInv, [Next]_vars
    PROVE  CleanInv'
<1> USE DEF files, counts
<1> SUFFICES ASSUME ~disturbed', disturbed => disturbed' PROVE SidecarInv'
  <2>1. disturbed => disturbed'
    <3>1. CASE Speak
      BY <3>1, SpeakCases DEF Spoken
    <3>2. CASE ~Speak
      BY <3>2, NextCases DEF StartTurn, StartRecovery, EndTurn, TurnFails, Begin, ReadChunk,
         NoChunk, Advance, SummarizeFails, Conclude, ClearLog, DropSidecar, Restart, vars
    <3>3. QED
      BY <3>1, <3>2
  <2>2. QED
    BY <2>1 DEF CleanInv
<1>0. /\ SidecarInv
      /\ job \in [Process -> Job] /\ Recovery \in Process /\ Worker \subseteq Process
      /\ Len(log) \in Nat /\ Loaded \in 0..Len(log) /\ Count = Loaded /\ TotalOfFile = Len(log)
      /\ NoJob.stage = "idle"
  BY Bounds DEF CleanInv, TypeOK, Process, NoJob
<1>1. ASSUME Grows, JobsKept, UNCHANGED <<sidecar, clearing, turnFrom>>,
             cached' = Loaded \/ (cached' = cached /\ log' = log),
             turn' # "none" => turn # "none", clearing => UNCHANGED log
      PROVE  SidecarInv'
  <2>1. Count' = Count
    BY <1>0, <1>1 DEF Count, Loaded, TotalOfFile, NotCached
  <2>2. cached' \in {cached, Loaded}
    BY <1>1
  <2>3. QED
    BY <1>0, <1>1, <2>1, <2>2, SidecarKept, TurnKept DEF SidecarInv
<1>2. ASSUME UNCHANGED log PROVE Grows
  BY <1>0, <1>2 DEF Grows
<1>3. ASSUME UNCHANGED job PROVE JobsKept
  BY <1>3 DEF JobsKept
<1>4. ASSUME NEW p \in Process, NEW k, job' = [job EXCEPT ![p] = k],
             \/ k.stage \in {"idle", "scheduled"}
             \/ k.stage = "loaded" /\ k.state = sidecar
      PROVE  JobsKept
  BY <1>0, <1>4 DEF JobsKept
<1>5. [NoJob EXCEPT !.stage = "loaded", !.state = sidecar].stage = "loaded"
      /\ [NoJob EXCEPT !.stage = "loaded", !.state = sidecar].state = sidecar
      /\ [NoJob EXCEPT !.stage = "scheduled"].stage = "scheduled"
  BY DEF NoJob
<1>6. CASE StartTurn
  <2>1. AppendMessage("user", {})
    BY <1>6 DEF StartTurn
  <2>2. Grows /\ cached' = Loaded
    BY <1>0, <2>1, AppendTyped DEF Grows
  <2>3. JobsKept /\ UNCHANGED <<sidecar, clearing>> /\ ~clearing
    BY <1>6 DEF StartTurn, JobsKept
  <2>4. Count' = Count
    BY <1>0, <2>2 DEF Count, Loaded, TotalOfFile, NotCached
  <2>5. TurnInv'
    <3>1. turnFrom' = Len(log) /\ Len(log) <= Len(log') /\ cached' \in 0..Len(log)
      BY <1>0, <1>6, <2>2 DEF StartTurn, Grows
    <3>2. sidecar'.through <= Len(log)
      BY <1>0, <2>3 DEF SidecarInv, About
    <3>3. \A p \in Process : job'[p].stage = "summarizing" => job'[p].total <= Len(log)
      BY <1>0, <1>6 DEF StartTurn, SidecarInv, SummarizingInv
    <3>4. QED
      BY <1>0, <3>1, <3>2, <3>3 DEF TurnInv, NotCached
  <2>6. QED
    BY <1>0, <2>2, <2>3, <2>4, <2>5, SidecarKept DEF SidecarInv
<1>7. CASE Speak
  <2>1. Spoken
    BY <1>7, SpeakCases
  <2>2. Grows
    BY <1>0, <2>1 DEF Spoken, Grows
  <2>3. ~clearing
    BY <2>1 DEF Spoken, Exclusive
  <2>4. QED
    BY <1>1, <1>3, <2>1, <2>2, <2>3 DEF Spoken
<1>8. CASE StartRecovery
  <2>1. JobsKept
    BY <1>0, <1>4, <1>5, <1>8 DEF StartRecovery, LoadState
  <2>2. QED
    BY <1>1, <1>2, <1>8, <2>1 DEF StartRecovery
<1>9. CASE EndTurn
  <2>1. JobsKept
    <3>1. CASE UNCHANGED job
      BY <1>3, <3>1
    <3>2. ASSUME NEW w \in Worker,
                 job' = [job EXCEPT ![w] = [NoJob EXCEPT !.stage = "scheduled"]]
          PROVE  JobsKept
      <4>1. w \in Process
        BY <1>0
      <4>2. QED
        BY <1>4, <1>5, <3>2, <4>1
    <3>3. QED
      BY <1>9, <3>1, <3>2 DEF EndTurn
  <2>2. QED
    BY <1>1, <1>2, <1>9, <2>1 DEF EndTurn
<1>10. CASE TurnFails
  BY <1>1, <1>2, <1>3, <1>10 DEF TurnFails
<1>11. ASSUME NEW w \in Worker, Begin(w) PROVE SidecarInv'
  <2>1. JobsKept
    BY <1>0, <1>4, <1>5, <1>11 DEF Begin, LoadState
  <2>2. QED
    BY <1>1, <1>2, <1>11, <2>1 DEF Begin
<1>12. ASSUME NEW p \in Process, NoChunk(p) \/ SummarizeFails(p) PROVE SidecarInv'
  <2>1. Conclude(p, FALSE) /\ UNCHANGED sidecar /\ job[p].stage # "idle"
    BY <1>12 DEF NoChunk, SummarizeFails
  <2>2. turn' # "none" => turn # "none"
    BY <2>1 DEF Conclude, Exclusive
  <2>3. JobsKept
    BY <1>0, <1>4, <2>1 DEF Conclude
  <2>4. QED
    BY <1>1, <1>2, <2>1, <2>2, <2>3 DEF Conclude
<1>13. CASE ClearLog
  <2>1. /\ log' = <<>> /\ clearing' /\ turn' = "none" /\ cached' = 0
        /\ UNCHANGED job /\ \A p \in Process : job[p].stage # "summarizing"
    BY <1>13 DEF ClearLog, InTheAir, TotalCleared
  <2>2. Count' = 0
    BY <2>1 DEF Count, Loaded, NotCached
  <2>3. QED
    BY <2>1, <2>2 DEF SidecarInv, ClearingInv, LoadedInv, SummarizingInv, TurnInv
<1>14. CASE DropSidecar
  <2>1. /\ clearing /\ ~clearing' /\ cached' = NotCached /\ sidecar' = Fresh
        /\ UNCHANGED <<log, job, turn>>
    BY <1>14 DEF DropSidecar
  <2>2. turn' = "none" /\ log' = <<>>
    BY <1>0, <2>1 DEF Exclusive, SidecarInv, ClearingInv
  <2>3. Len(log') = 0 /\ Count' = 0
    BY <2>1, <2>2 DEF Count, Loaded, TotalOfFile
  <2>4. About(sidecar)'
    BY <2>1, <2>3 DEF About, Fresh
  <2>5. \A p \in Process : job[p].stage # "summarizing"
    BY <1>0, <2>1 DEF SidecarInv, SummarizingInv
  <2>6. QED
    BY <2>1, <2>2, <2>3, <2>4, <2>5
       DEF SidecarInv, ClearingInv, LoadedInv, SummarizingInv, TurnInv
<1>15. CASE Restart
  <2>1. /\ ~clearing /\ ~clearing' /\ turn' = "none" /\ UNCHANGED <<log, sidecar>>
        /\ \A p \in Process : job'[p].stage = "idle"
    BY <1>0, <1>15 DEF Restart
  <2>2. About(sidecar)'
    BY <1>0, <2>1 DEF SidecarInv, About, Ids
  <2>3. QED
    BY <2>1, <2>2 DEF SidecarInv, ClearingInv, LoadedInv, SummarizingInv, TurnInv
<1>16. CASE UNCHANGED vars
  BY <1>1, <1>2, <1>3, <1>16 DEF vars
<1>17. QED
  BY <1>0, <1>6, <1>7, <1>8, <1>9, <1>10, <1>11, <1>12, <1>13, <1>14, <1>15, <1>16,
     AdvanceClean, ReadChunkClean, NextCases

\* Whatever consolidations, recoveries and restarts overlap, the sidecar that
\* consolidation_state.go keeps is about this log, unless a Clear was disturbed.
THEOREM SidecarAboutLog == Spec => []SidecarMatchesLog
<1>1. TypeOK /\ Exclusive /\ CleanInv /\ [Next]_vars => Exclusive' /\ CleanInv'
  BY ExclusivePreserved, CleanPreserved
<1>2. CleanInv => SidecarMatchesLog
  BY DEF CleanInv, SidecarInv, SidecarMatchesLog, Settled, About
<1>3. QED
  BY TypeCorrect, InitClean, <1>1, <1>2, PTL DEF Spec

\* A consolidation never reaches into the turn in progress: the count it works
\* with is the one from before the turn.
THEOREM TurnStaysInView == Spec => []InFlightTurnShown
<1>1. TypeOK /\ Exclusive /\ CleanInv /\ [Next]_vars => Exclusive' /\ CleanInv'
  BY ExclusivePreserved, CleanPreserved
<1>2. CleanInv => InFlightTurnShown
  BY DEF CleanInv, SidecarInv, TurnInv, InFlightTurnShown, Settled
<1>3. QED
  BY TypeCorrect, InitClean, <1>1, <1>2, PTL DEF Spec

-----------------------------------------------------------------------------
(***************************************************************************)
(* Calls and their results.  Results follow their calls without a gap, so  *)
(* a boundary with no result right behind it divides no pair; the count    *)
(* does not either, as it was taken between two turns.                     *)
(***************************************************************************)
Paired(i, k) == /\ IsCalls(log[i]) /\ IsResult(log[k])
                /\ log[i].calls \cap log[k].calls # {}

\* Calls are numbered by the message they come with.
CallsKnown == /\ \A c \in open : c[1] <= messages
              /\ \A i \in 1..Len(log) : \A c \in log[i].calls : c[1] <= messages

\* While calls wait for their results, nothing but results is written.
OpenLast == /\ turn = "none" => open = {}
            /\ turn # "none" => turnFrom <= Len(log)
            /\ \A i \in 1..Len(log) : IsCalls(log[i]) /\ log[i].calls \cap open # {} =>
                  /\ turnFrom < i
                  /\ \A m \in (i + 1)..Len(log) : IsResult(log[m])

ResultsFollow == \A i, k \in 1..Len(log) : Paired(i, k) =>
                    i < k /\ \A m \in (i + 1)..k : IsResult(log[m])

PairInv == CallsKnown /\ OpenLast /\ ResultsFollow

\* No call before the boundary has a result behind it.
Unsplit(b) == \A i \in 1..b, k \in (b + 1)..Len(log) : ~Paired(i, k)

CutInv == ~disturbed =>
            /\ Unsplit(sidecar.through)
            /\ cached # NotCached => Unsplit(cached)
            /\ \A p \in Process : job[p].stage = "summarizing" => Unsplit(job[p].total)

\* What is written at the end of the log: results of open calls, or something
\* after which no call is open but those it makes.
Written(m) ==
    /\ m \in Message /\ log' = Append(log, m)
    /\ IsResult(m) => m.calls \subseteq open /\ open' \subseteq open /\ turnFrom' = turnFrom
    /\ ~IsResult(m) => \A c \in open' \cup m.calls : c[1] > messages

\* A turn writes one message at a time, or none when a response has no text.
LEMMA TurnWrites ==
    ASSUME TypeOK, PairInv, StartTurn \/ Speak
    PROVE  /\ messages' = messages + 1
           /\ turn' = "running" /\ turnFrom' \in 0..Len(log) /\ cached' = Loaded
           /\ \A c \in open' : c[1] <= messages'
           /\ \/ \E m \in Message : Written(m) /\ \A c \in m.calls : c[1] <= messages'
              \/ UNCHANGED <<log, turnFrom>> /\ \A c \in open' : c[1] > messages
           /\ StartTurn => \E m \in Message : log' = Append(log, m) /\ ~IsResult(m)
<1>0. /\ Len(log) \in Nat /\ messages \in Nat /\ MaxMessages \in Nat
      /\ log \in Seq(Message) /\ open \subseteq CallId
      /\ \A c \in CallId : c[1] \in Nat
  BY Bounds DEF TypeOK, CallId
<1>1. ASSUME NEW kind \in {"user", "calls", "result", "text"}, NEW calls \in SUBSET CallId,
             AppendMessage(kind, calls)
      PROVE  /\ messages' = messages + 1 /\ cached' = Loaded
             /\ \E m \in Message : /\ m.kind = kind /\ m.calls = calls
                                   /\ log' = Append(log, m)
                                   /\ IsResult(m) <=> kind = "result"
  <2>1. messages' = messages + 1 /\ messages' \in 1..MaxMessages
    BY <1>0, <1>1 DEF AppendMessage
  <2>2. [id |-> messages', kind |-> kind, calls |-> calls] \in Message
    BY <2>1 DEF Message
  <2>3. QED
    BY <1>1, <2>1, <2>2 DEF AppendMessage, IsResult
<1>2. CASE StartTurn
  <2>1. AppendMessage("user", {}) /\ open' = {} /\ turnFrom' = Len(log) /\ turn' = "running"
    BY <1>2 DEF StartTurn, PairInv, OpenLast
  <2>2. PICK m \in Message : m.calls = {} /\ log' = Append(log, m) /\ ~IsResult(m)
    BY <1>1, <2>1
  <2>3. Written(m) /\ messages' = messages + 1 /\ cached' = Loaded
    BY <1>1, <2>1, <2>2 DEF Written
  <2>4. QED
    BY <1>0, <2>1, <2>2, <2>3
<1>3. ASSUME Speak
      PROVE  turn' = "running" /\ UNCHANGED turnFrom /\ turnFrom' \in 0..Len(log) /\ ~StartTurn
  BY <1>0, <1>3, SpeakCases DEF Spoken, StartTurn, PairInv, OpenLast, TypeOK
<1>4. ASSUME NEW n \in 1..MaxCalls, Respond(n)
      PROVE  /\ messages' = messages + 1 /\ cached' = Loaded
             /\ \A c \in open' : c[1] = messages + 1
             /\ UNCHANGED log \/ \E m \in Message : Written(m) /\ m.calls = open'
  <2>1. open' = {<<messages + 1, c>> : c \in 1..n} /\ open' \subseteq CallId
    <3>1. Spoken
      BY <1>4, SpeakCases DEF Speak
    <3>2. QED
      BY <1>4, <3>1 DEF Respond, Spoken
  <2>2. \A c \in open' : c[1] = messages + 1
    BY <2>1
  <2>3. CASE AppendMessage("calls", open')
    <3>1. PICK m \in Message : m.calls = open' /\ log' = Append(log, m) /\ ~IsResult(m)
      BY <1>1, <2>1, <2>3
    <3>2. Written(m)
      BY <1>0, <2>2, <3>1 DEF Written
    <3>3. QED
      BY <1>1, <2>1, <2>2, <2>3, <3>1, <3>2
  <2>4. CASE messages' = messages + 1 /\ cached' = Loaded /\ UNCHANGED log
    BY <2>2, <2>4
  <2>5. QED
    BY <1>4, <2>3, <2>4 DEF Respond
<1>5. ASSUME NEW call \in open, AnswerCall(call)
      PROVE  /\ messages' = messages + 1 /\ cached' = Loaded
             /\ open' \subseteq open
             /\ \E m \in Message : Written(m) /\ m.calls = {call}
  <2>1. /\ AppendMessage("result", {call}) /\ {call} \in SUBSET CallId
        /\ open' = open \ {call} /\ turnFrom' = turnFrom
    BY <1>0, <1>5 DEF AnswerCall
  <2>2. PICK m \in Message : m.calls = {call} /\ log' = Append(log, m) /\ IsResult(m)
    BY <1>1, <2>1
  <2>3. Written(m)
    BY <2>1, <2>2 DEF Written
  <2>4. QED
    BY <1>1, <2>1, <2>2, <2>3
<1>6. ASSUME NEW kind \in {"text", "user"}, Say(kind)
      PROVE  /\ messages' = messages + 1 /\ cached' = Loaded /\ open' = {}
             /\ \E m \in Message : Written(m) /\ m.calls = {}
  <2>1. AppendMessage(kind, {}) /\ open' = {}
    BY <1>6 DEF Say
  <2>2. PICK m \in Message : m.calls = {} /\ log' = Append(log, m) /\ ~IsResult(m)
    BY <1>1, <2>1
  <2>3. Written(m)
    BY <2>1, <2>2 DEF Written
  <2>4. QED
    BY <1>1, <2>1, <2>2, <2>3
<1>7. CASE Speak
  <2>1. \A c \in open : c[1] <= messages /\ c[1] <= messages + 1
    BY <1>0 DEF PairInv, CallsKnown
  <2>2. ASSUME NEW n \in 1..MaxCalls, Respond(n)
        PROVE  /\ messages' = messages + 1 /\ cached' = Loaded
               /\ \A c \in open' : c[1] <= messages'
               /\ \/ \E m \in Message : Written(m) /\ \A c \in m.calls : c[1] <= messages'
                  \/ UNCHANGED log /\ \A c \in open' : c[1] > messages
    BY <1>0, <1>4, <2>2
  <2>3. ASSUME NEW call \in open, AnswerCall(call)
        PROVE  /\ messages' = messages + 1 /\ cached' = Loaded
               /\ \A c \in open' : c[1] <= messages'
               /\ \E m \in Message : Written(m) /\ \A c \in m.calls : c[1] <= messages'
    BY <1>5, <2>1, <2>3
  <2>4. ASSUME NEW kind \in {"text", "user"}, Say(kind)
        PROVE  /\ messages' = messages + 1 /\ cached' = Loaded
               /\ \A c \in open' : c[1] <= messages'
               /\ \E m \in Message : Written(m) /\ \A c \in m.calls : c[1] <= messages'
    BY <1>6, <2>4
  <2>5. QED
    BY <1>3, <1>7, <2>2, <2>3, <2>4 DEF Speak
<1>8. QED
  BY <1>2, <1>7

\* A message written at the end leaves the pairs before it as they were, and
\* is in no pair but with calls that were open.
LEMMA PairsWritten ==
    ASSUME TypeOK, PairInv, NEW m \in Message, Written(m), messages' = messages + 1,
           \A c \in open' : c[1] <= messages', \A c \in m.calls : c[1] <= messages',
           turnFrom' \in 0..Len(log), turn' = "running"
    PROVE  PairInv'
<1>0. PICK n \in Nat : n = Len(log)
  BY Bounds
<1>1. /\ Len(log') = n + 1 /\ log'[n + 1] = m
      /\ \A i \in 1..n : log'[i] = log[i] /\ log[i] \in Message
  BY <1>0 DEF TypeOK, Written
<1>2. /\ \A i \in 1..n : log[i].calls \subseteq CallId /\ \A c \in log[i].calls : c[1] <= messages
      /\ m.calls \subseteq CallId /\ messages \in Nat /\ turnFrom \in Nat
      /\ \A c \in CallId : c[1] \in Nat
      /\ ~(IsCalls(m) /\ IsResult(m))
  <2>1. /\ \A i \in 1..n : log[i].calls \subseteq CallId
        /\ m.calls \subseteq CallId /\ \A c \in CallId : c[1] \in Nat
    BY <1>1 DEF Message, CallId
  <2>2. messages \in Nat /\ turnFrom \in Nat
    BY Bounds DEF TypeOK
  <2>3. \A i \in 1..n : \A c \in log[i].calls : c[1] <= messages
    BY <1>0 DEF PairInv, CallsKnown
  <2>4. ~(IsCalls(m) /\ IsResult(m))
    BY DEF IsCalls, IsResult
  <2>5. QED
    BY <2>1, <2>2, <2>3, <2>4
<1>3. CallsKnown'
  <2>1. ASSUME NEW i \in 1..(n + 1), NEW c \in log'[i].calls PROVE c[1] <= messages'
    <3>1. CASE i = n + 1
      BY <1>1, <3>1
    <3>2. CASE i \in 1..n
      <4>1. c \in log[i].calls
        BY <1>1, <3>2
      <4>2. c[1] \in Nat /\ c[1] <= messages
        BY <1>2, <3>2, <4>1
      <4>3. QED
        BY <1>2, <4>2
    <3>3. QED
      BY <3>1, <3>2
  <2>2. QED
    BY <1>1, <2>1 DEF CallsKnown
<1>4. ASSUME ~IsResult(m), NEW i \in 1..n, NEW c \in log[i].calls
      PROVE  c \notin open' /\ c \notin m.calls
  <2>1. c[1] \in Nat /\ c[1] <= messages
    BY <1>2, <1>4
  <2>2. ~(c[1] > messages)
    BY <1>2, <2>1
  <2>3. QED
    BY <1>4, <2>2 DEF Written
<1>5. ASSUME NEW i \in 1..(n + 1), IsCalls(log'[i]), log'[i].calls \cap open' # {}
      PROVE  turnFrom' < i /\ \A k \in (i + 1)..(n + 1) : IsResult(log'[k])
  <2>1. CASE i = n + 1
    <3>1. turnFrom' \in Nat
      OBVIOUS
    <3>2. QED
      BY <1>0, <2>1, <3>1
  <2>2. CASE i \in 1..n /\ IsResult(m)
    <3>1. IsCalls(log[i]) /\ log[i].calls \cap open # {} /\ turnFrom' = turnFrom
      BY <1>1, <1>5, <2>2 DEF Written
    <3>2. turnFrom < i /\ \A k \in (i + 1)..n : IsResult(log[k])
      BY <1>0, <2>2, <3>1 DEF PairInv, OpenLast
    <3>3. QED
      BY <1>1, <2>2, <3>1, <3>2
  <2>3. CASE i \in 1..n /\ ~IsResult(m)
    BY <1>1, <1>4, <1>5, <2>3
  <2>4. QED
    BY <2>1, <2>2, <2>3
<1>6. OpenLast'
  BY <1>0, <1>1, <1>5 DEF OpenLast
<1>7. ASSUME NEW i \in 1..(n + 1), NEW k \in 1..(n + 1), IsCalls(log'[i]), IsResult(log'[k]),
             log'[i].calls \cap log'[k].calls # {}
      PROVE  i < k /\ \A l \in (i + 1)..k : IsResult(log'[l])
  <2>1. CASE i \in 1..n /\ k \in 1..n
    <3>1. Paired(i, k)
      BY <1>1, <1>7, <2>1 DEF Paired
    <3>2. i < k /\ \A l \in (i + 1)..k : IsResult(log[l])
      BY <1>0, <2>1, <3>1 DEF PairInv, ResultsFollow
    <3>3. QED
      BY <1>1, <2>1, <3>2
  <2>2. CASE i \in 1..n /\ k = n + 1
    <3>1. IsResult(m) /\ IsCalls(log[i]) /\ log[i].calls \cap open # {}
      BY <1>1, <1>7, <2>2 DEF Written
    <3>2. \A l \in (i + 1)..n : IsResult(log[l])
      BY <1>0, <2>2, <3>1 DEF PairInv, OpenLast
    <3>3. QED
      BY <1>1, <2>2, <3>1, <3>2
  <2>3. CASE i = n + 1 /\ k \in 1..n
    <3>1. IsCalls(m) /\ ~IsResult(m)
      BY <1>1, <1>2, <1>7, <2>3
    <3>2. QED
      BY <1>1, <1>4, <1>7, <2>3, <3>1
  <2>4. CASE i = n + 1 /\ k = n + 1
    BY <1>1, <1>2, <1>7, <2>4
  <2>5. QED
    BY <2>1, <2>2, <2>3, <2>4
<1>8. ResultsFollow'
  BY <1>1, <1>7 DEF ResultsFollow, Paired
<1>9. QED
  BY <1>3, <1>6, <1>8 DEF PairInv

\* Steps that do not write to the log, or empty it, open no call.
LEMMA PairsKept ==
    ASSUME TypeOK, PairInv, UNCHANGED log \/ (log' = <<>> /\ turn' = "none"),
           messages' \in Nat, messages <= messages',
           \/ open' \subseteq open
           \/ \A c \in open' : c[1] > messages /\ c[1] <= messages',
           turn' = "none" => open' = {},
           turn' # "none" => turn # "none", UNCHANGED turnFrom
    PROVE  PairInv'
<1>1. CASE log' = <<>> /\ turn' = "none"
  <2>1. Len(log') = 0 /\ open' = {}
    BY <1>1
  <2>2. QED
    BY <1>1, <2>1 DEF PairInv, CallsKnown, OpenLast, ResultsFollow
<1>2. CASE UNCHANGED log
  <2>0. /\ \A i \in 1..Len(log) : log[i] \in Message
        /\ messages \in Nat /\ open \subseteq CallId
        /\ \A c \in CallId : c[1] \in Nat
    BY Bounds DEF TypeOK, CallId
  <2>1. \A i \in 1..Len(log) : log[i].calls \subseteq CallId
    BY <2>0 DEF Message
  <2>2. \A i \in 1..Len(log) : \A c \in log[i].calls : c[1] \in Nat /\ c[1] <= messages
    BY <2>0, <2>1 DEF PairInv, CallsKnown
  <2>3. CallsKnown'
    <3>1. \A c \in open' : c[1] <= messages'
      BY <2>0 DEF PairInv, CallsKnown
    <3>2. \A i \in 1..Len(log) : \A c \in log[i].calls : c[1] <= messages'
      BY <2>0, <2>2
    <3>3. QED
      BY <1>2, <3>1, <3>2 DEF CallsKnown
  <2>4. \A i \in 1..Len(log) : log[i].calls \cap open' \subseteq open
    BY <2>0, <2>2
  <2>5. OpenLast'
    BY <1>2, <2>4 DEF PairInv, OpenLast
  <2>6. ResultsFollow'
    BY <1>2 DEF PairInv, ResultsFollow, Paired
  <2>7. QED
    BY <2>3, <2>5, <2>6 DEF PairInv
<1>3. QED
  BY <1>1, <1>2

\* Results follow their calls without a gap, whatever turns and clears do.
LEMMA PairInvPreserved ==
    ASSUME TypeOK, Exclusive, PairInv, [Next]_vars
    PROVE  PairInv'
<1> USE DEF files, counts
<1>0. messages \in Nat /\ (turn = "none" => open = {})
  BY Bounds DEF PairInv, OpenLast
<1>1. CASE StartTurn \/ Speak
  <2>1. /\ messages' = messages + 1 /\ messages' \in Nat
        /\ turn' = "running" /\ turnFrom' \in 0..Len(log)
        /\ \A c \in open' : c[1] <= messages'
    BY <1>0, <1>1, TurnWrites
  <2>2. CASE \E m \in Message : Written(m) /\ \A c \in m.calls : c[1] <= messages'
    BY <2>1, <2>2, PairsWritten
  <2>3. CASE UNCHANGED <<log, turnFrom>> /\ \A c \in open' : c[1] > messages
    <3>1. turn # "none"
      BY <1>1, <2>3, SpeakCases, TurnWrites, Bounds DEF Spoken, TypeOK
    <3>2. QED
      BY <1>0, <2>1, <2>3, <3>1, PairsKept
  <2>4. QED
    BY <1>1, <2>2, <2>3, TurnWrites
<1>2. ASSUME UNCHANGED log \/ (log' = <<>> /\ turn' = "none"), UNCHANGED <<messages, turnFrom>>,
             open' \in {open, {}}, turn' = "none" => open' = {}, turn' # "none" => turn # "none"
      PROVE  PairInv'
  BY <1>0, <1>2, PairsKept
<1>3. CASE StartRecovery \/ EndTurn \/ TurnFails
  BY <1>0, <1>2, <1>3 DEF StartRecovery, EndTurn, TurnFails
<1>4. ASSUME NEW w \in Worker, Begin(w) PROVE PairInv'
  BY <1>0, <1>2, <1>4 DEF Begin
<1>5. ASSUME NEW p \in Process, ReadChunk(p) PROVE PairInv'
  BY <1>0, <1>2, <1>5 DEF ReadChunk
<1>6. ASSUME NEW p \in Process, NoChunk(p) \/ Advance(p) \/ SummarizeFails(p) PROVE PairInv'
  <2>1. PICK advanced \in BOOLEAN : Conclude(p, advanced)
    BY <1>6 DEF NoChunk, Advance, SummarizeFails
  <2>2. job[p].stage # "idle"
    BY <1>6 DEF NoChunk, Advance, SummarizeFails
  <2>3. turn' # "none" <=> turn # "none"
    BY <2>1, <2>2 DEF Conclude, Exclusive
  <2>4. QED
    BY <1>0, <1>2, <2>1, <2>3 DEF Conclude
<1>7. CASE ClearLog \/ DropSidecar \/ Restart
  BY <1>0, <1>2, <1>7 DEF ClearLog, DropSidecar, Restart
<1>8. CASE UNCHANGED vars
  BY <1>0, <1>2, <1>8 DEF vars
<1>9. QED
  BY <1>1, <1>3, <1>4, <1>5, <1>6, <1>7, <1>8, NextCases

\* The boundary a consolidation saves divides no pair, as the count it was
\* told does not.
LEMMA BoundaryUnsplit ==
    ASSUME TypeOK, PairInv, NEW j \in Job, Unsplit(j.total), j.total <= Len(log)
    PROVE  Unsplit(SafeBoundary(j))
<1>1. PICK b \in Nat : b = SafeBoundary(j)
  BY TargetTyped, BoundaryWithinCount, ConversationConstants DEF ConversationConstants, Job
<1>2. /\ Len(log) \in Nat /\ j.total \in Nat /\ b <= j.total
      /\ b >= j.total \/ b >= Len(log) \/ ~PassesOver(b)
  BY <1>1, Bounds, TargetTyped, BoundaryWithinCount, ConversationConstants
     DEF ConversationConstants, Job
<1>3. CASE b >= j.total
  BY <1>1, <1>2, <1>3, b = j.total
<1>4. CASE b >= Len(log)
  BY <1>1, <1>2, <1>4 DEF Unsplit
<1>5. CASE b < Len(log) /\ ~PassesOver(b)
  <2>1. ASSUME NEW i \in 1..b, NEW k \in (b + 1)..Len(log), Paired(i, k) PROVE FALSE
    <3>1. i \in 1..Len(log) /\ k \in 1..Len(log) /\ b + 1 \in (i + 1)..k
      BY <1>2, <1>5
    <3>2. IsResult(log[b + 1])
      BY <2>1, <3>1 DEF PairInv, ResultsFollow
    <3>3. QED
      BY <1>5, <3>2 DEF PassesOver
  <2>2. Unsplit(b)
    BY <2>1 DEF Unsplit
  <2>3. QED
    BY <1>1, <2>2
<1>6. QED
  BY <1>2, <1>3, <1>4, <1>5

\* A boundary from before the turn divides no pair the turn completes.
LEMMA UnsplitKept ==
    ASSUME TypeOK, PairInv, NEW b \in Nat, b <= Len(log), Unsplit(b),
           \/ UNCHANGED log
           \/ \E m \in Message : /\ log' = Append(log, m)
                                 /\ IsResult(m) => m.calls \subseteq open /\ b <= turnFrom
    PROVE  Unsplit(b)'
<1>0. PICK n \in Nat : n = Len(log)
  BY Bounds
<1>1. CASE UNCHANGED log
  BY <1>1 DEF Unsplit, Paired
<1>2. ASSUME NEW m \in Message, log' = Append(log, m),
             IsResult(m) => m.calls \subseteq open /\ b <= turnFrom
      PROVE  Unsplit(b)'
  <2>1. /\ Len(log') = n + 1 /\ log'[n + 1] = m /\ \A i \in 1..n : log'[i] = log[i]
        /\ turnFrom \in Nat
    BY <1>0, <1>2 DEF TypeOK
  <2>2. ASSUME NEW i \in 1..b, NEW k \in (b + 1)..(n + 1),
               IsCalls(log'[i]), IsResult(log'[k]), log'[i].calls \cap log'[k].calls # {}
        PROVE  FALSE
    <3>1. i \in 1..n /\ log'[i] = log[i]
      BY <1>0, <2>1
    <3>2. CASE k = n + 1
      <4>1. log[i].calls \cap open # {} /\ b <= turnFrom
        BY <1>2, <2>1, <2>2, <3>1, <3>2
      <4>2. turnFrom < i
        BY <1>0, <2>2, <3>1, <4>1 DEF PairInv, OpenLast
      <4>3. QED
        BY <2>1, <4>1, <4>2
    <3>3. CASE k # n + 1
      <4>1. k \in (b + 1)..n /\ log'[k] = log[k]
        BY <2>1, <3>3
      <4>2. QED
        BY <1>0, <2>2, <3>1, <4>1 DEF Unsplit, Paired
    <3>4. QED
      BY <3>2, <3>3
  <2>3. QED
    BY <2>1, <2>2 DEF Unsplit, Paired
<1>3. QED
  BY <1>1, <1>2

\* Nothing is behind the end of the log, and nothing in an empty one.
LEMMA UnsplitAtEnd == TypeOK => Unsplit(Len(log)) /\ Unsplit(0)
  BY Bounds DEF Unsplit

\* As long as every clear was clean, no boundary in use divides a pair.
LEMMA CutPreserved ==
    ASSUME TypeOK, Exclusive, CleanInv, PairInv, CutInv, [Next]_vars, ~disturbed'
    PROVE  /\ Unsplit(sidecar.through)'
           /\ cached' # NotCached => Unsplit(cached)'
           /\ \A p \in Process : job'[p].stage = "summarizing" => Unsplit(job[p].total)'
<1> USE DEF files, counts
<1> DEFINE Goal == /\ Unsplit(sidecar.through)'
                   /\ cached' # NotCached => Unsplit(cached)'
                   /\ \A p \in Process : job'[p].stage = "summarizing" => Unsplit(job[p].total)'
<1>0. ~disturbed
  <2>1. CASE Speak
    BY <2>1, SpeakCases DEF Spoken
  <2>2. CASE ~Speak
    BY <2>2, NextCases DEF StartTurn, StartRecovery, EndTurn, TurnFails, Begin, ReadChunk,
       NoChunk, Advance, SummarizeFails, Conclude, ClearLog, DropSidecar, Restart, vars
  <2>3. QED
    BY <2>1, <2>2
<1>1. /\ SidecarInv /\ Unsplit(sidecar.through) /\ (cached # NotCached => Unsplit(cached))
      /\ \A p \in Process : job[p].stage = "summarizing" =>
            /\ ~clearing /\ Unsplit(job[p].total) /\ job[p].total \in Nat /\ job[p].total <= Len(log)
      /\ job \in [Process -> Job] /\ Recovery \in Process /\ Worker \subseteq Process
      /\ NoJob.stage = "idle" /\ Len(log) \in Nat /\ sidecar.through \in Nat
      /\ turnFrom \in Nat
  <2>1. /\ job \in [Process -> Job] /\ \A p \in Process : job[p].total \in Nat
        /\ NoJob.stage = "idle" /\ Len(log) \in Nat /\ sidecar.through \in Nat
        /\ turnFrom \in Nat /\ Recovery \in Process /\ Worker \subseteq Process
    BY Bounds DEF TypeOK, Job, State, NoJob, Process
  <2>2. SidecarInv
    BY <1>0 DEF CleanInv
  <2>3. QED
    BY <1>0, <2>1, <2>2 DEF SidecarInv, SummarizingInv, CutInv
<1>2. Loaded \in 0..Len(log) /\ Count = Loaded /\ Unsplit(Loaded)
      /\ (cached # NotCached => cached = Loaded)
  BY <1>1, Bounds, UnsplitAtEnd DEF Loaded, TotalOfFile
<1>3. CASE StartTurn
  <2>1. PICK m \in Message : log' = Append(log, m) /\ ~IsResult(m)
    BY <1>3, TurnWrites
  <2>2. \A b \in Nat : b <= Len(log) /\ Unsplit(b) => Unsplit(b)'
    BY <2>1, UnsplitKept
  <2>3. cached' = Loaded /\ UNCHANGED <<sidecar, job>> /\ ~clearing
    BY <1>3, TurnWrites DEF StartTurn
  <2>4. sidecar.through <= Len(log)
    BY <1>1, <2>3 DEF SidecarInv, About
  <2>5. Unsplit(sidecar.through)'
    BY <1>1, <2>2, <2>3, <2>4 DEF Unsplit, Paired
  <2>6. Unsplit(cached)'
    BY <1>1, <1>2, <2>2, <2>3 DEF Unsplit, Paired
  <2>7. ASSUME NEW p \in Process, job'[p].stage = "summarizing" PROVE Unsplit(job[p].total)'
    <3>1. job'[p] = job[p] /\ job[p].total \in Nat /\ job[p].total <= Len(log)
          /\ Unsplit(job[p].total)
      BY <1>1, <2>3, <2>7
    <3>2. QED
      BY <2>2, <3>1 DEF Unsplit, Paired
  <2>8. QED
    BY <2>5, <2>6, <2>7
<1>4. CASE Speak
  <2>1. Spoken
    BY <1>4, SpeakCases
  <2>2. turn # "none" /\ cached' = Loaded /\ UNCHANGED <<sidecar, job>>
    BY <2>1 DEF Spoken
  <2>3. \A b \in Nat : b <= turnFrom /\ b <= Len(log) /\ Unsplit(b) => Unsplit(b)'
    BY <1>1, <1>4, TurnWrites, UnsplitKept DEF Written
  <2>4. /\ turnFrom <= Len(log) /\ cached # NotCached /\ cached <= turnFrom
        /\ sidecar.through <= turnFrom
        /\ \A p \in Process : job[p].stage = "summarizing" => job[p].total <= turnFrom
    BY <1>1, <2>2 DEF SidecarInv, TurnInv
  <2>5. sidecar.through <= Len(log)
    BY <1>1, <2>4
  <2>6. Unsplit(sidecar.through)'
    BY <1>1, <2>2, <2>3, <2>4, <2>5 DEF Unsplit, Paired
  <2>7. Unsplit(cached)'
    <3>1. PICK b \in Nat : b = Loaded /\ b <= Len(log) /\ b <= turnFrom /\ cached = b
      BY <1>1, <1>2, <2>4
    <3>2. Unsplit(b)
      BY <1>2, <3>1
    <3>3. Unsplit(b)' /\ cached' = b
      BY <2>2, <2>3, <3>1, <3>2
    <3>4. QED
      BY <3>3 DEF Unsplit, Paired
  <2>8. ASSUME NEW p \in Process, job'[p].stage = "summarizing" PROVE Unsplit(job[p].total)'
    <3>1. /\ job'[p] = job[p] /\ job[p].total \in Nat /\ job[p].total <= Len(log)
          /\ Unsplit(job[p].total) /\ job[p].total <= turnFrom
      BY <1>1, <2>2, <2>4, <2>8
    <3>2. QED
      BY <2>3, <3>1 DEF Unsplit, Paired
  <2>9. QED
    BY <2>6, <2>7, <2>8
<1>5. ASSUME UNCHANGED <<log, sidecar>>, cached' \in {cached, Loaded, NotCached},
             \A p \in Process : job'[p].stage = "summarizing" =>
                job'[p] = job[p] \/ job'[p].total = Loaded
      PROVE  Goal
  <2>1. \A b : Unsplit(b) => Unsplit(b)'
    BY <1>5 DEF Unsplit, Paired
  <2>2. Unsplit(sidecar.through)'
    BY <1>1, <1>5 DEF Unsplit, Paired
  <2>3. cached' # NotCached => Unsplit(cached)'
    BY <1>1, <1>2, <1>5 DEF Unsplit, Paired
  <2>4. ASSUME NEW p \in Process, job'[p].stage = "summarizing" PROVE Unsplit(job[p].total)'
    BY <1>1, <1>2, <1>5, <2>4 DEF Unsplit, Paired
  <2>5. QED
    BY <2>2, <2>3, <2>4
<1>6. CASE StartRecovery \/ TurnFails \/ UNCHANGED vars
  <2>1. \A p \in Process : job'[p].stage = "summarizing" => job'[p] = job[p]
    BY <1>1, <1>6 DEF StartRecovery, LoadState, TurnFails, vars, NoJob
  <2>2. QED
    BY <1>5, <1>6, <2>1 DEF StartRecovery, TurnFails, vars
<1>7. CASE EndTurn
  <2>1. \A p \in Process : job'[p].stage = "summarizing" => job'[p] = job[p]
    BY <1>1, <1>7 DEF EndTurn, NoJob
  <2>2. QED
    BY <1>5, <1>7, <2>1 DEF EndTurn
<1>8. ASSUME NEW w \in Worker, Begin(w) PROVE Goal
  <2>1. \A p \in Process : job'[p].stage = "summarizing" => job'[p] = job[p]
    BY <1>1, <1>8 DEF Begin, LoadState, NoJob
  <2>2. QED
    BY <1>5, <1>8, <2>1 DEF Begin
<1>9. ASSUME NEW p \in Process, ReadChunk(p) PROVE Goal
  <2>1. \A q \in Process : job'[q] = job[q] \/ job'[q].total = Loaded
    BY <1>1, <1>2, <1>9 DEF ReadChunk, Job
  <2>2. QED
    BY <1>5, <1>9, <2>1 DEF ReadChunk
<1>10. ASSUME NEW p \in Process, NoChunk(p) \/ SummarizeFails(p) PROVE Goal
  <2>1. Conclude(p, FALSE) /\ UNCHANGED sidecar
    BY <1>10 DEF NoChunk, SummarizeFails
  <2>2. \A q \in Process : job'[q].stage = "summarizing" => job'[q] = job[q]
    BY <1>1, <2>1 DEF Conclude
  <2>3. QED
    BY <1>5, <2>1, <2>2 DEF Conclude
<1>11. ASSUME NEW p \in Process, Advance(p) PROVE Goal
  <2>1. /\ Conclude(p, TRUE) /\ job[p].stage = "summarizing"
        /\ sidecar'.through = SafeBoundary(job[p])
    BY <1>11 DEF Advance
  <2>2. /\ UNCHANGED <<log, cached>>
        /\ \A q \in Process : job'[q].stage = "summarizing" => job'[q] = job[q]
    BY <1>1, <2>1 DEF Conclude
  <2>3. Unsplit(SafeBoundary(job[p]))
    BY <1>1, <2>1, BoundaryUnsplit
  <2>4. Unsplit(sidecar.through)'
    BY <2>1, <2>2, <2>3 DEF Unsplit, Paired
  <2>5. cached' # NotCached => Unsplit(cached)'
    BY <1>1, <2>2 DEF Unsplit, Paired
  <2>6. \A q \in Process : job'[q].stage = "summarizing" => Unsplit(job[q].total)'
    BY <1>1, <2>2 DEF Unsplit, Paired
  <2>7. QED
    BY <2>4, <2>5, <2>6
<1>12. ASSUME log' = <<>>, sidecar'.through \in Nat, cached' \in {NotCached, 0},
              \A p \in Process : job'[p].stage # "summarizing"
       PROVE  Goal
  <2>1. Len(log') = 0
    BY <1>12
  <2>2. \A b \in Nat : (b + 1)..Len(log') = {}
    BY <2>1
  <2>3. QED
    BY <1>12, <2>2 DEF Unsplit
<1>13. CASE ClearLog
  <2>1. /\ log' = <<>> /\ cached' = 0 /\ UNCHANGED <<job, sidecar>>
        /\ \A p \in Process : job[p].stage # "summarizing"
    BY <1>13 DEF ClearLog, InTheAir, TotalCleared
  <2>2. QED
    BY <1>1, <1>12, <2>1
<1>14. CASE DropSidecar
  <2>1. clearing /\ cached' = NotCached /\ sidecar' = Fresh /\ UNCHANGED <<log, job>>
    BY <1>14 DEF DropSidecar
  <2>2. log' = <<>> /\ \A p \in Process : job'[p].stage # "summarizing"
    BY <1>1, <2>1 DEF SidecarInv, ClearingInv
  <2>3. QED
    BY <1>12, <2>1, <2>2 DEF Fresh
<1>15. CASE Restart
  <2>1. UNCHANGED <<log, sidecar>> /\ cached' = NotCached
        /\ \A p \in Process : job'[p].stage # "summarizing"
    BY <1>1, <1>15 DEF Restart
  <2>2. QED
    BY <1>5, <2>1
<1>16. QED
  BY <1>3, <1>4, <1>6, <1>7, <1>8, <1>9, <1>10, <1>11, <1>13, <1>14, <1>15, NextCases

\* No tool call is summarised whose result is still shown: repairBoundary and
\* the count from before the turn see to it, unless a Clear was disturbed.
THEOREM PairsStayTogether == Spec => []NoPairSplit
<1>1. Init => PairInv /\ CutInv
  <2> SUFFICES ASSUME Init PROVE PairInv /\ CutInv
    OBVIOUS
  <2>1. /\ Len(log) = 0 /\ open = {} /\ turn = "none" /\ sidecar.through = 0
        /\ cached = NotCached /\ \A p \in Process : job[p].stage = "idle"
    BY DEF Init, Fresh, NoJob
  <2>2. PairInv
    BY <2>1 DEF PairInv, CallsKnown, OpenLast, ResultsFollow
  <2>3. Unsplit(sidecar.through)
    BY <2>1 DEF Unsplit
  <2>4. QED
    BY <2>1, <2>2, <2>3 DEF CutInv
<1>2. TypeOK /\ Exclusive /\ CleanInv /\ PairInv /\ CutInv /\ [Next]_vars
        => Exclusive' /\ CleanInv' /\ PairInv' /\ CutInv'
  BY ExclusivePreserved, CleanPreserved, PairInvPreserved, CutPreserved DEF CutInv
<1>3. CutInv => NoPairSplit
  <2> SUFFICES ASSUME Unsplit(sidecar.through) PROVE NoPairSplit
    BY DEF CutInv, NoPairSplit, Settled
  <2>1. QED
    BY DEF Unsplit, Paired, NoPairSplit
<1>4. QED
  BY TypeCorrect, InitClean, <1>1, <1>2, <1>3, PTL DEF Spec

-----------------------------------------------------------------------------
(***************************************************************************)
(* The view.  A log in which every id is called once and answered once is  *)
(* sound; so is what any boundary leaves of it, and RepairAndProject makes *)
(* of a sound history one that the provider accepts.  The lemmas on sound  *)
(* histories are those of TurnEngineProofs.                                *)
(***************************************************************************)

\* In a history in which every id is called once and answered once, after the call.
Shared(history, i, j) == history[i].calls \cap history[j].calls # {}

CalledOnce(history) ==
    \A i, j \in DOMAIN history :
        IsCalls(history[i]) /\ IsCalls(history[j]) /\ Shared(history, i, j) => i = j

AnsweredOnce(history) ==
    \A i, j \in DOMAIN history :
        IsResult(history[i]) /\ IsResult(history[j]) /\ Shared(history, i, j) => i = j

AnswersFollow(history) ==
    \A i, j \in DOMAIN history :
        IsCalls(history[i]) /\ IsResult(history[j]) /\ Shared(history, i, j) => i < j

OneAnswerEach(history) ==
    \A j \in DOMAIN history :
        IsResult(history[j]) => \E id \in history[j].calls : history[j].calls = {id}

Sound(history) == /\ CalledOnce(history)
                  /\ AnsweredOnce(history)
                  /\ AnswersFollow(history)
                  /\ OneAnswerEach(history)

\* An id is called, or answered, by some message.
LEMMA WhoDeclared ==
    ASSUME NEW history
    PROVE  /\ \A id : id \in Declared(history) <=>
                \E i \in DOMAIN history : IsCalls(history[i]) /\ id \in history[i].calls
           /\ \A id : id \in Responded(history) <=>
                \E i \in DOMAIN history : IsResult(history[i]) /\ id \in history[i].calls
  BY DEF Declared, Responded, Range

\* A sound history in which no call is open is one a provider accepts.
LEMMA SoundIsWellFormed ==
    ASSUME NEW history, Sound(history), Declared(history) = Responded(history)
    PROVE  WellFormed(history)
<1>1. SUFFICES ASSUME NEW id \in Declared(history)
               PROVE  \E i, j \in DOMAIN history :
                /\ i < j
                /\ {k \in DOMAIN history : IsCalls(history[k]) /\ id \in history[k].calls} = {i}
                /\ {k \in DOMAIN history : IsResult(history[k]) /\ id \in history[k].calls} = {j}
  BY DEF WellFormed
<1>2. PICK i \in DOMAIN history : IsCalls(history[i]) /\ id \in history[i].calls
  BY WhoDeclared
<1>3. PICK j \in DOMAIN history : IsResult(history[j]) /\ id \in history[j].calls
  BY WhoDeclared
<1>4. i < j
  BY <1>2, <1>3 DEF Sound, AnswersFollow, Shared
<1>5. {k \in DOMAIN history : IsCalls(history[k]) /\ id \in history[k].calls} = {i}
  BY <1>2 DEF Sound, CalledOnce, Shared
<1>6. {k \in DOMAIN history : IsResult(history[k]) /\ id \in history[k].calls} = {j}
  BY <1>3 DEF Sound, AnsweredOnce, Shared
<1>7. QED
  BY <1>4, <1>5, <1>6

\* RepairAndProject leaves a sound history in which no call is open.
LEMMA KeptIsSound ==
    ASSUME NEW msgs, Sound(msgs),
           \A i \in DOMAIN msgs : {"kind", "calls"} \subseteq DOMAIN msgs[i]
    PROVE  /\ Sound(Kept(msgs))
           /\ Declared(Kept(msgs)) = Responded(Kept(msgs))
           /\ \A i \in DOMAIN Kept(msgs) : Kept(msgs)[i].calls \subseteq msgs[i].calls
<1> DEFINE valid == Declared(msgs) \cap Responded(msgs)
           kept == Kept(msgs)
<1>1. DOMAIN kept = {i \in DOMAIN msgs : IsResult(msgs[i]) => msgs[i].calls \subseteq valid}
  BY DEF Kept
<1>2. ASSUME NEW i \in DOMAIN kept
      PROVE  /\ i \in DOMAIN msgs
             /\ kept[i].calls = msgs[i].calls \cap valid
             /\ kept[i].kind = IF IsCalls(msgs[i]) /\ msgs[i].calls \cap valid = {}
                               THEN "text" ELSE msgs[i].kind
  <2>1. i \in DOMAIN msgs /\ {"kind", "calls"} \subseteq DOMAIN msgs[i]
    BY <1>1
  <2>2. kept[i] = [msgs[i] EXCEPT !.calls = @ \cap valid,
                                  !.kind = IF IsCalls(msgs[i]) /\ msgs[i].calls \cap valid = {}
                                           THEN "text" ELSE @]
    BY <1>1 DEF Kept
  <2>3. QED
    BY <2>1, <2>2
<1>3. ASSUME NEW i \in DOMAIN kept
      PROVE  /\ IsCalls(kept[i]) <=> IsCalls(msgs[i]) /\ msgs[i].calls \cap valid # {}
             /\ IsResult(kept[i]) <=> IsResult(msgs[i])
             /\ kept[i].calls \subseteq msgs[i].calls
  BY <1>2 DEF IsCalls, IsResult
<1>4. Sound(kept)
  <2>1. CalledOnce(kept) /\ AnsweredOnce(kept) /\ AnswersFollow(kept)
    BY <1>2, <1>3 DEF Sound, CalledOnce, AnsweredOnce, AnswersFollow, Shared
  <2>2. OneAnswerEach(kept)
    <3>1. SUFFICES ASSUME NEW j \in DOMAIN kept, IsResult(kept[j])
                   PROVE  kept[j].calls = msgs[j].calls
      BY <1>2, <1>3 DEF Sound, OneAnswerEach
    <3>2. QED
      BY <1>1, <1>2, <1>3, <3>1
  <2>3. QED
    BY <2>1, <2>2 DEF Sound
<1>5. Declared(kept) = valid
  <2>1. ASSUME NEW id \in Declared(kept) PROVE id \in valid
    BY <1>2, <2>1, WhoDeclared
  <2>2. ASSUME NEW id \in valid PROVE id \in Declared(kept)
    <3>1. PICK i \in DOMAIN msgs : IsCalls(msgs[i]) /\ id \in msgs[i].calls
      BY WhoDeclared
    <3>2. i \in DOMAIN kept
      BY <1>1, <3>1 DEF IsCalls, IsResult
    <3>3. QED
      BY <1>2, <1>3, <3>1, <3>2, WhoDeclared
  <2>3. QED
    BY <2>1, <2>2
<1>6. Responded(kept) = valid
  <2>1. ASSUME NEW id \in Responded(kept) PROVE id \in valid
    BY <1>2, <2>1, WhoDeclared
  <2>2. ASSUME NEW id \in valid PROVE id \in Responded(kept)
    <3>1. PICK i \in DOMAIN msgs : IsResult(msgs[i]) /\ id \in msgs[i].calls
      BY WhoDeclared
    <3>2. msgs[i].calls = {id}
      BY <3>1 DEF Sound, OneAnswerEach
    <3>3. i \in DOMAIN kept
      BY <1>1, <3>2
    <3>4. QED
      BY <1>2, <1>3, <3>1, <3>3, WhoDeclared
  <2>3. QED
    BY <2>1, <2>2
<1>7. QED
  BY <1>3, <1>4, <1>5, <1>6

\* The end of a sound history is sound.
LEMMA SuffixIsSound ==
    ASSUME NEW S, NEW msgs \in Seq(S), Sound(msgs), NEW from \in Nat, from >= 1
    PROVE  /\ Sound(SubSeq(msgs, from, Len(msgs)))
           /\ Range(SubSeq(msgs, from, Len(msgs))) \subseteq Range(msgs)
           /\ SubSeq(msgs, from, Len(msgs)) \in Seq(S)
<1> DEFINE suffix == SubSeq(msgs, from, Len(msgs))
<1>1. /\ DOMAIN msgs = 1..Len(msgs) /\ Len(msgs) \in Nat
      /\ \A k \in DOMAIN suffix : /\ k \in Nat /\ k + from - 1 \in DOMAIN msgs
                                  /\ suffix[k] = msgs[k + from - 1]
  OBVIOUS
<1>2. suffix \in Seq(S)
  OBVIOUS
<1> HIDE DEF suffix
<1>3. \A j, k \in DOMAIN suffix : /\ j + from - 1 = k + from - 1 => j = k
                                  /\ j + from - 1 < k + from - 1 => j < k
  BY <1>1
<1>4. CalledOnce(suffix) /\ AnsweredOnce(suffix)
  BY <1>1, <1>3 DEF Sound, CalledOnce, AnsweredOnce, Shared
<1>5. AnswersFollow(suffix) /\ OneAnswerEach(suffix)
  <2>1. SUFFICES ASSUME NEW j \in DOMAIN suffix, NEW k \in DOMAIN suffix,
                        IsCalls(suffix[j]), IsResult(suffix[k]), Shared(suffix, j, k)
                 PROVE  j < k
    BY <1>1 DEF Sound, AnswersFollow, OneAnswerEach
  <2>2. j + from - 1 < k + from - 1
    BY <1>1, <2>1 DEF Sound, AnswersFollow, Shared
  <2>3. QED
    BY <1>3, <2>2
<1>6. Range(suffix) \subseteq Range(msgs)
  BY <1>1 DEF Range
<1>7. QED
  BY <1>2, <1>4, <1>5, <1>6 DEF Sound, suffix

\* A message that makes new calls, or answers a call that was made and not
\* answered, leaves a history sound.
LEMMA AppendIsSound ==
    ASSUME NEW S, NEW msgs \in Seq(S), NEW m \in S, Sound(msgs),
           ~(IsCalls(m) /\ IsResult(m)),
           IsCalls(m) => \A x \in Range(msgs) : x.calls \cap m.calls = {},
           IsResult(m) => /\ \E id \in m.calls : m.calls = {id}
                          /\ \A x \in Range(msgs) : IsResult(x) => x.calls \cap m.calls = {}
    PROVE  Sound(Append(msgs, m))
<1> DEFINE longer == Append(msgs, m)
<1>1. PICK n \in Nat : n = Len(msgs)
  OBVIOUS
<1>2. /\ DOMAIN msgs = 1..n /\ DOMAIN longer = 1..(n + 1)
      /\ longer[n + 1] = m
      /\ \A i \in 1..n : longer[i] = msgs[i] /\ msgs[i] \in Range(msgs)
  BY <1>1 DEF Range
<1>3. \A i \in 1..(n + 1) : i \in 1..n \/ i = n + 1
  OBVIOUS
<1>4. \A i \in 1..n : i # n + 1 /\ i < n + 1
  OBVIOUS
<1> HIDE DEF longer
<1>5. CalledOnce(longer)
  <2>1. SUFFICES ASSUME NEW i \in 1..(n + 1), NEW j \in 1..(n + 1),
                        IsCalls(longer[i]), IsCalls(longer[j]), Shared(longer, i, j)
                 PROVE  i = j
    BY <1>2 DEF CalledOnce
  <2>2. QED
    BY <1>2, <1>3, <2>1 DEF Sound, CalledOnce, Shared
<1>6. AnsweredOnce(longer)
  <2>1. SUFFICES ASSUME NEW i \in 1..(n + 1), NEW j \in 1..(n + 1),
                        IsResult(longer[i]), IsResult(longer[j]), Shared(longer, i, j)
                 PROVE  i = j
    BY <1>2 DEF AnsweredOnce
  <2>2. QED
    BY <1>2, <1>3, <2>1 DEF Sound, AnsweredOnce, Shared
<1>7. AnswersFollow(longer)
  <2>1. SUFFICES ASSUME NEW i \in 1..(n + 1), NEW j \in 1..(n + 1),
                        IsCalls(longer[i]), IsResult(longer[j]), Shared(longer, i, j)
                 PROVE  i < j
    BY <1>2 DEF AnswersFollow
  <2>2. QED
    BY <1>2, <1>3, <1>4, <2>1 DEF Sound, AnswersFollow, Shared
<1>8. OneAnswerEach(longer)
  BY <1>2, <1>3 DEF Sound, OneAnswerEach
<1>9. QED
  BY <1>5, <1>6, <1>7, <1>8 DEF Sound, longer

\* An append adds the element.
LEMMA RangeOfAppend ==
    ASSUME NEW S, NEW s \in Seq(S), NEW e
    PROVE  Range(Append(s, e)) = Range(s) \cup {e}
<1>1. /\ DOMAIN Append(s, e) = 1..(Len(s) + 1)
      /\ Append(s, e)[Len(s) + 1] = e
      /\ \A i \in 1..Len(s) : Append(s, e)[i] = s[i]
  OBVIOUS
<1>2. DOMAIN s = 1..Len(s) /\ Len(s) \in Nat
  OBVIOUS
<1>3. \A x \in Range(Append(s, e)) : x \in Range(s) \cup {e}
  BY <1>1, <1>2 DEF Range
<1>4. \A x \in Range(s) \cup {e} : x \in Range(Append(s, e))
  BY <1>1, <1>2 DEF Range
<1>5. QED
  BY <1>3, <1>4

\* The log is sound, and the open calls have no result yet.
LogInv == /\ Sound(log)
          /\ \A x \in Range(log) : IsResult(x) => x.calls \cap open = {}

\* Each step keeps it.
LEMMA LogInvPreserved ==
    ASSUME TypeOK, PairInv, LogInv, [Next]_vars
    PROVE  LogInv'
<1> USE DEF files, counts
<1>0. /\ log \in Seq(Message) /\ messages \in Nat
      /\ \A x \in Range(log) : x.calls \subseteq CallId /\ \A c \in x.calls : c[1] <= messages
      /\ \A c \in CallId : c[1] \in Nat
      /\ open \subseteq CallId
  <2>1. log \in Seq(Message) /\ messages \in Nat /\ open \subseteq CallId
    BY Bounds DEF TypeOK
  <2>2. \A x \in Range(log) : x.calls \subseteq CallId /\ \A c \in x.calls : c[1] <= messages
    <3>1. TAKE x \in Range(log)
    <3>2. PICK i \in 1..Len(log) : x = log[i]
      BY <2>1 DEF Range
    <3>3. x \in Message
      BY <2>1, <3>2
    <3>4. QED
      BY <3>2, <3>3 DEF Message, PairInv, CallsKnown
  <2>3. \A c \in CallId : c[1] \in Nat
    BY Bounds DEF CallId
  <2>4. QED
    BY <2>1, <2>2, <2>3
<1>1. ASSUME NEW kind \in {"user", "calls", "result", "text"}, NEW calls \in SUBSET CallId,
             AppendMessage(kind, calls),
             kind = "calls" => \A x \in Range(log) : x.calls \cap calls = {},
             kind = "result" => \E call \in open : calls = {call}
      PROVE  /\ Sound(log')
             /\ \E m : /\ Range(log') = Range(log) \cup {m}
                       /\ IsResult(m) <=> kind = "result"
                       /\ m.calls = calls
  <2> DEFINE m == [id |-> messages', kind |-> kind, calls |-> calls]
  <2>1. log' = Append(log, m)
    BY <1>1 DEF AppendMessage
  <2>2. m \in Message
    <3>1. messages' \in 1..MaxMessages
      BY <1>0, <1>1, Bounds DEF AppendMessage
    <3>2. QED
      BY <3>1 DEF Message
  <2>3. m.kind = kind /\ m.calls = calls
    OBVIOUS
  <2> HIDE DEF m
  <2>4. (IsResult(m) <=> kind = "result") /\ (IsCalls(m) <=> kind = "calls")
    BY <2>3 DEF IsResult, IsCalls
  <2>5. IsResult(m) => /\ \E id \in m.calls : m.calls = {id}
                       /\ \A x \in Range(log) : IsResult(x) => x.calls \cap m.calls = {}
    BY <1>1, <2>3, <2>4 DEF LogInv
  <2>6. Sound(Append(log, m))
    <3>1. IsCalls(m) => \A x \in Range(log) : x.calls \cap m.calls = {}
      BY <1>1, <2>3, <2>4
    <3>2. Sound(log) /\ ~(IsCalls(m) /\ IsResult(m))
      BY <2>4 DEF LogInv
    <3>3. QED
      BY <1>0, <2>2, <2>5, <3>1, <3>2, AppendIsSound
  <2>7. Range(Append(log, m)) = Range(log) \cup {m}
    BY <1>0, RangeOfAppend
  <2>8. QED
    BY <2>1, <2>3, <2>4, <2>6, <2>7
<1>2. CASE StartTurn
  <2>1. AppendMessage("user", {}) /\ open' = open
    BY <1>2 DEF StartTurn
  <2>2. QED
    BY <1>1, <2>1 DEF LogInv
<1>3. ASSUME NEW n \in 1..MaxCalls, Respond(n) PROVE LogInv'
  <2>1. open' = {<<messages + 1, c>> : c \in 1..n}
    BY <1>3 DEF Respond
  <2>2. open' \in SUBSET CallId
    BY <1>3, SpeakCases DEF Speak, Spoken
  <2>3. \A x \in Range(log) : x.calls \cap open' = {}
    <3>1. ASSUME NEW x \in Range(log), NEW c \in x.calls, c \in open' PROVE FALSE
      <4>1. c[1] = messages + 1
        BY <2>1, <3>1
      <4>2. c[1] \in Nat /\ c[1] <= messages
        BY <1>0, <3>1
      <4>3. QED
        BY <1>0, <4>1, <4>2
    <3>2. QED
      BY <3>1
  <2>4. CASE AppendMessage("calls", open')
    <3>1. PICK m : Range(log') = Range(log) \cup {m} /\ ~IsResult(m)
      BY <1>1, <2>2, <2>3, <2>4
    <3>2. Sound(log')
      BY <1>1, <2>2, <2>3, <2>4
    <3>3. QED
      BY <2>3, <3>1, <3>2 DEF LogInv
  <2>5. CASE UNCHANGED log
    BY <2>3, <2>5 DEF LogInv
  <2>6. QED
    BY <1>3, <2>4, <2>5 DEF Respond
<1>4. ASSUME NEW call \in open, AnswerCall(call) PROVE LogInv'
  <2>1. /\ AppendMessage("result", {call}) /\ {call} \in SUBSET CallId
        /\ open' = open \ {call}
    BY <1>0, <1>4 DEF AnswerCall
  <2>2. PICK m : Range(log') = Range(log) \cup {m} /\ m.calls = {call}
    BY <1>1, <2>1
  <2>3. Sound(log')
    BY <1>1, <2>1
  <2>4. QED
    BY <2>1, <2>2, <2>3 DEF LogInv
<1>5. ASSUME NEW kind \in {"text", "user"}, Say(kind) PROVE LogInv'
  <2>1. AppendMessage(kind, {}) /\ open' = open
    BY <1>5 DEF Say
  <2>2. QED
    BY <1>1, <2>1 DEF LogInv
<1>6. CASE Speak
  BY <1>3, <1>4, <1>5, <1>6 DEF Speak
<1>7. ASSUME UNCHANGED log \/ log' = <<>>, open' \in {open, {}}
      PROVE  LogInv'
  <2>1. CASE UNCHANGED log
    BY <1>7, <2>1 DEF LogInv
  <2>2. CASE log' = <<>>
    <3>1. DOMAIN log' = {} /\ Range(log') = {}
      BY <2>2 DEF Range
    <3>2. QED
      BY <3>1 DEF LogInv, Sound, CalledOnce, AnsweredOnce, AnswersFollow, OneAnswerEach
  <2>3. QED
    BY <1>7, <2>1, <2>2
<1>8. ASSUME NEW p \in Process, NoChunk(p) \/ Advance(p) \/ SummarizeFails(p)
      PROVE  LogInv'
  BY <1>7, <1>8 DEF NoChunk, Advance, SummarizeFails, Conclude
<1>9. CASE StartRecovery \/ EndTurn \/ TurnFails
  BY <1>7, <1>9 DEF StartRecovery, EndTurn, TurnFails
<1>10. ASSUME NEW p \in Process, (p \in Worker /\ Begin(p)) \/ ReadChunk(p)
       PROVE  LogInv'
  BY <1>7, <1>10 DEF Begin, ReadChunk
<1>11. CASE ClearLog \/ DropSidecar \/ Restart
  BY <1>7, <1>11 DEF ClearLog, DropSidecar, Restart
<1>12. CASE UNCHANGED vars
  BY <1>7, <1>12 DEF vars
<1>13. QED
  BY <1>2, <1>6, <1>8, <1>9, <1>10, <1>11, <1>12, NextCases DEF Process

\* The view of the session is a history the provider accepts, wherever turns broke
\* off and wherever a consolidation, a recovery or a disturbed Clear left the
\* boundary.
THEOREM ViewIsAccepted == Spec => []ViewIsWellFormed
<1>1. ASSUME Init PROVE PairInv /\ LogInv
  <2>1. Len(log) = 0 /\ open = {} /\ turn = "none" /\ DOMAIN log = {} /\ Range(log) = {}
    BY <1>1 DEF Init, Range
  <2>2. PairInv
    BY <2>1 DEF PairInv, CallsKnown, OpenLast, ResultsFollow
  <2>3. QED
    BY <2>1, <2>2 DEF LogInv, Sound, CalledOnce, AnsweredOnce, AnswersFollow, OneAnswerEach
<1>2. TypeOK /\ Exclusive /\ CleanInv /\ PairInv /\ LogInv /\ [Next]_vars
        => Exclusive' /\ CleanInv' /\ PairInv' /\ LogInv'
  BY ExclusivePreserved, CleanPreserved, PairInvPreserved, LogInvPreserved
<1>3. ASSUME TypeOK, LogInv PROVE ViewIsWellFormed
  <2> DEFINE from == sidecar.through + 1
             shown == SubSeq(log, from, Len(log))
  <2>1. from \in Nat /\ from >= 1 /\ log \in Seq(Message)
    BY <1>3, Bounds DEF TypeOK, State
  <2>2. shown \in Seq(Message) /\ Sound(shown)
    <3> HIDE DEF from
    <3>1. QED
      BY <1>3, <2>1, SuffixIsSound DEF LogInv
  <2>3. \A i \in DOMAIN shown : {"kind", "calls"} \subseteq DOMAIN shown[i]
    <3>1. \A i \in DOMAIN shown : shown[i] \in Message
      BY <2>2
    <3>2. QED
      BY <3>1 DEF Message
  <2>4. Sound(Kept(shown)) /\ Declared(Kept(shown)) = Responded(Kept(shown))
    <3> HIDE DEF shown
    <3>1. QED
      BY <2>2, <2>3, KeptIsSound
  <2>5. WellFormed(Kept(shown))
    BY <2>4, SoundIsWellFormed
  <2>6. QED
    BY <2>5 DEF ViewIsWellFormed, View
<1>4. QED
  BY TypeCorrect, InitClean, <1>1, <1>2, <1>3, PTL DEF Spec
=============================================================================
