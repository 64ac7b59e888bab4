---------------------------- MODULE ProviderProofs ----------------------------
(***************************************************************************)
(* Theorems of Provider, for a fallback chain of any length, any indexes   *)
(* of tool calls and answers of any length.                                *)
(***************************************************************************)
EXTENDS Provider, SequenceTheorems, TLAPS

States == {"off", "scanning", "sending", "done"}

\* Where the attempts stand.  No goroutine was begun for an attempt that has not
\* got an answer; those of attempts that are over have ended, or gave up on their
\* first line; an error channel is filled by a goroutine that ends.
Attempts ==
    /\ attempt \in Attempt /\ producer \in [Attempt -> States]
    /\ \A k \in Attempt : k > attempt => producer[k] = "off"
    /\ phase \in {"next", "connecting"} => producer[attempt] = "off"
    /\ \A k \in Attempt : Over(k) => producer[k] \in {"off", "done"} \/ k \in overBudget
    /\ errCh \in {"empty", "ok", "broken", "cancelled"}
    /\ errCh # "empty" => producer[attempt] = "done"

\* The invariant says of the ended attempts what the property says.
LEMMA AttemptsSuffice == Attempts => ProducerEnds
  BY DEF Attempts, ProducerEnds

\* An attempt ends: the next one begins without a goroutine, or the call returns.
LEMMA GiveUpKeeps ==
    ASSUME Attempts, NEW class, GiveUp(class),
           producer' \in [Attempt -> States],
           \A k \in Attempt : k # attempt => producer'[k] = producer[k],
           producer'[attempt] \in {"off", "done"} \/ attempt \in overBudget',
           errCh # "empty" => producer'[attempt] = "done",
           overBudget \subseteq overBudget'
    PROVE  Attempts'
<1>1. attempt \in Nat /\ Fallbacks \in Nat
  BY ProviderConstants DEF Attempts, Attempt, ProviderConstants
<1>2. CASE class = "retry" /\ op = "chat" /\ attempt <= Fallbacks
  <2>1. attempt' = attempt + 1 /\ phase' = "next" /\ errCh' = "empty"
    BY <1>2 DEF GiveUp
  <2>2. attempt + 1 \in Attempt
    BY <1>1, <1>2 DEF Attempt
  <2>3. producer'[attempt + 1] = "off"
    BY <1>1, <2>2 DEF Attempts
  <2>4. \A k \in Attempt : k < attempt + 1 => k = attempt \/ k < attempt
    BY <1>1 DEF Attempt
  <2>5. \A k \in Attempt : k > attempt + 1 => k > attempt /\ k # attempt
    BY <1>1 DEF Attempt
  <2>6. QED
    BY <1>1, <2>1, <2>2, <2>3, <2>4, <2>5 DEF Attempts, Over, Attempt
<1>3. CASE ~(class = "retry" /\ op = "chat" /\ attempt <= Fallbacks)
  <2>1. attempt' = attempt /\ phase' = "returned" /\ errCh' = errCh
    BY <1>3 DEF GiveUp, Return, connection
  <2>2. \A k \in Attempt : k > attempt => k # attempt
    BY <1>1 DEF Attempt
  <2>3. \A k \in Attempt : k = attempt \/ k < attempt \/ k > attempt
    BY <1>1 DEF Attempt
  <2>4. QED
    BY <2>1, <2>2, <2>3 DEF Attempts, Over
<1>4. QED
  BY <1>2, <1>3

\* The same where the attempt's goroutine is left as it is.
LEMMA GiveUpPlain ==
    ASSUME Attempts, NEW class, GiveUp(class), UNCHANGED <<producer, overBudget>>,
           producer[attempt] \in {"off", "done"}
    PROVE  Attempts'
  BY GiveUpKeeps DEF Attempts

\* Every step keeps the attempts in order.
LEMMA NextKeeps == Attempts /\ [Next]_vars => Attempts'
<1> SUFFICES ASSUME Attempts, [Next]_vars PROVE Attempts'
  OBVIOUS
<1>a. \A k \in Attempt : \/ k < attempt /\ k # attempt
                         \/ k = attempt /\ ~(k < attempt) /\ ~(k > attempt)
                         \/ k > attempt /\ k # attempt
  <2>1. attempt \in Int /\ Attempt \subseteq Int
    BY ProviderConstants DEF Attempts, Attempt, ProviderConstants
  <2>2. \A j, k \in Int : \/ k < j /\ k # j
                          \/ k = j /\ ~(k < j) /\ ~(k > j)
                          \/ k > j /\ k # j
    OBVIOUS
  <2>3. QED
    BY <2>1, <2>2
<1>1. CASE Request
  <2>1. /\ phase = "next" /\ phase' \in {"connecting", "returned"}
        /\ UNCHANGED <<attempt, producer, overBudget, errCh>>
    BY <1>1 DEF Request, Return, connection
  <2>2. QED
    BY <1>a, <2>1 DEF Attempts, Over
<1>2. CASE ConnectFails
  BY <1>2, GiveUpPlain DEF ConnectFails, Attempts
<1>3. CASE BadStatus
  BY <1>3, GiveUpPlain DEF BadStatus, Attempts
<1>4. CASE NotEvents
  BY <1>4, GiveUpPlain DEF NotEvents, Attempts
<1>5. CASE StreamBegins
  <2>1. /\ phase = "connecting" /\ phase' = "first"
        /\ producer' = [producer EXCEPT ![attempt] = "scanning"]
        /\ UNCHANGED <<attempt, overBudget, errCh>>
    BY <1>5 DEF StreamBegins, connection
  <2>2. QED
    BY <1>a, <2>1 DEF Attempts, Over, States
<1>6. CASE ConsumeOneShot
  BY <1>6, GiveUpPlain DEF ConsumeOneShot, Attempts
<1>7. CASE NothingSent
  BY <1>7, GiveUpPlain DEF NothingSent, Attempts
<1>8. CASE StreamOver
  BY <1>8, GiveUpPlain DEF StreamOver, Attempts
<1>9. CASE FirstLineLate
  <2>1. PICK state \in States :
          producer' = [producer EXCEPT ![attempt] = state]
    BY <1>9 DEF FirstLineLate, Attempts, States
  <2>2. errCh # "empty" => producer'[attempt] = "done"
    BY <1>9 DEF FirstLineLate, Attempts
  <2>3. attempt \in overBudget' /\ overBudget \subseteq overBudget'
    BY <1>9 DEF FirstLineLate
  <2>4. GiveUp("retry")
    BY <1>9 DEF FirstLineLate
  <2>5. /\ producer' \in [Attempt -> States]
        /\ \A k \in Attempt : k # attempt => producer'[k] = producer[k]
    BY <2>1 DEF Attempts
  <2>6. QED
    BY <2>2, <2>3, <2>4, <2>5, GiveUpKeeps
<1>10. CASE FirstLine \/ NextLine
  BY <1>10 DEF FirstLine, NextLine, Take, Producer, Streaming, Attempts, Over, States
<1>11. CASE ScanLine
  BY <1>11 DEF ScanLine, Producer, Streaming, Attempts, Over, States
<1>12. CASE ScanEnds
  BY <1>12 DEF ScanEnds, Producer, Streaming, Attempts, Over, States
<1>13. CASE Drain
  BY <1>13 DEF Drain, Producer, Streaming, Attempts, Over, States, connection
<1>14. CASE ServerSends \/ ServerEnds \/ BudgetRunsOut \/ RequestTimesOut
  BY <1>14 DEF ServerSends, ServerEnds, BudgetRunsOut, RequestTimesOut, Attempts, Over
<1>15. CASE Cancel
  BY <1>15 DEF Cancel, Attempts, Over, connection
<1>16. CASE UNCHANGED vars
  BY <1>16 DEF vars, Attempts, Over, connection
<1>17. QED
  BY <1>1, <1>2, <1>3, <1>4, <1>5, <1>6, <1>7, <1>8, <1>9, <1>10, <1>11, <1>12,
     <1>13, <1>14, <1>15, <1>16 DEF Next, Caller, Scanner, Environment

\* Before the first attempt there is no goroutine.
LEMMA InitKeeps == Init => Attempts
<1> SUFFICES ASSUME Init PROVE Attempts
  OBVIOUS
<1>1. 1 \in Attempt /\ \A k \in Attempt : ~(k < 1)
  BY ProviderConstants DEF Attempt, ProviderConstants
<1>2. QED
  BY <1>1 DEF Init, Closed, Attempts, Over, States

\* Whatever server and clock do, a producer goroutine of an attempt that is over has
\* ended, unless the attempt was given up while it waited for its first line.
THEOREM ProducersEnd == Spec => []ProducerEnds
<1>1. Spec => []Attempts
  BY InitKeeps, NextKeeps, PTL DEF Spec
<1>2. QED
  BY <1>1, AttemptsSuffice, PTL

-----------------------------------------------------------------------------
\* Before the first line is taken nothing of an answer is kept.
NothingYet == phase \in {"next", "connecting", "first"} => text = <<>> /\ slots = <<>>

\* Giving up an attempt throws away what it had, and only a retry begins another.
LEMMA GiveUpEmpties ==
    ASSUME NEW class, GiveUp(class)
    PROVE  /\ NothingYet'
           /\ attempt' # attempt => class = "retry"
  BY DEF GiveUp, Return, NothingYet, connection

\* Until the first line of an answer arrives nothing is kept of it.
LEMMA NextNothing ==
    NothingYet /\ Attempts /\ [Next]_vars =>
        /\ NothingYet'
        /\ attempt' # attempt => text = <<>> /\ slots = <<>>
<1> SUFFICES ASSUME NothingYet, Attempts, [Next]_vars
             PROVE  /\ NothingYet'
                    /\ attempt' # attempt => text = <<>> /\ slots = <<>>
  OBVIOUS
<1>1. CASE Request
  BY <1>1 DEF Request, Return, NothingYet, connection
<1>2. CASE ConnectFails
  BY <1>2, GiveUpEmpties DEF ConnectFails, NothingYet
<1>3. CASE BadStatus
  BY <1>3, GiveUpEmpties DEF BadStatus, NothingYet
<1>4. CASE NotEvents
  BY <1>4, GiveUpEmpties DEF NotEvents, NothingYet
<1>5. CASE StreamBegins
  BY <1>5 DEF StreamBegins, NothingYet, connection
<1>6. CASE ConsumeOneShot
  BY <1>6, GiveUpEmpties DEF ConsumeOneShot, NothingYet
<1>7. CASE NothingSent
  BY <1>7, GiveUpEmpties DEF NothingSent, NothingYet
<1>8. CASE FirstLineLate
  BY <1>8, GiveUpEmpties DEF FirstLineLate, NothingYet
<1>9. CASE StreamOver
  <2>1. (IF errCh = "broken" THEN "error" ELSE errCh) # "retry"
    BY DEF Attempts
  <2>2. QED
    BY <1>9, <2>1, GiveUpEmpties DEF StreamOver
<1>10. CASE FirstLine \/ NextLine
  BY <1>10 DEF FirstLine, NextLine, Take, NothingYet
<1>11. CASE ScanLine \/ ScanEnds
  BY <1>11 DEF ScanLine, ScanEnds, NothingYet
<1>12. CASE Drain
  BY <1>12 DEF Drain, NothingYet, connection
<1>13. CASE ServerSends \/ ServerEnds \/ BudgetRunsOut \/ RequestTimesOut
  BY <1>13 DEF ServerSends, ServerEnds, BudgetRunsOut, RequestTimesOut, NothingYet
<1>14. CASE Cancel
  BY <1>14 DEF Cancel, NothingYet, connection
<1>15. CASE UNCHANGED vars
  BY <1>15 DEF vars, NothingYet, connection
<1>16. QED
  BY <1>1, <1>2, <1>3, <1>4, <1>5, <1>6, <1>7, <1>8, <1>9, <1>10, <1>11, <1>12,
     <1>13, <1>14, <1>15 DEF Next, Caller, Scanner, Environment

\* No model of the chain is asked once a part of another one's answer was read.
THEOREM OutputIsFinal == Spec => NoRetryAfterOutput
<1>1. Init => NothingYet
  BY DEF Init, Closed, NothingYet
<1>2. Attempts /\ NothingYet /\ [Next]_vars =>
        [attempt' # attempt => text = <<>> /\ slots = <<>>]_vars
  BY NextNothing
<1>3. QED
  BY <1>1, <1>2, InitKeeps, NextKeeps, NextNothing, PTL DEF Spec, NoRetryAfterOutput

-----------------------------------------------------------------------------
(***************************************************************************)
(* Types.  What the caller keeps are numbers of lines of the answer, as it *)
(* only takes lines that were scanned.                                     *)
(***************************************************************************)
Class == {"ok", "retry", "overflow", "error", "cancelled"}

\* The types, in parts.
CallTyped ==
    /\ op \in {"chat", "send"} /\ stream \in BOOLEAN /\ cancelled \in BOOLEAN
    /\ phase \in {"next", "connecting", "first", "reading", "draining", "returned"}
    /\ outcome \in {"none", "ok", "retry", "overflow", "error", "cancelled"}

ChainTyped == attempt \in Attempt /\ producer \in [Attempt -> States] /\ overBudget \subseteq Attempt

BodyTyped ==
    /\ tail \in {"open", "eof", "broken"}
    /\ errCh \in {"empty", "ok", "broken", "cancelled"}
    /\ drainer \in BOOLEAN /\ budget \in BOOLEAN /\ timeout \in BOOLEAN

AnswerTyped ==
    /\ wire \in Seq(Line) /\ seen \in 0..Len(wire)
    /\ text \in Seq(1..Len(wire))
    /\ DOMAIN slots \subseteq Slot

\* The type invariant, by the variables that change together.
LEMMA TypeParts == TypeOK <=> CallTyped /\ ChainTyped /\ BodyTyped /\ AnswerTyped
  BY DEF TypeOK, CallTyped, ChainTyped, BodyTyped, AnswerTyped, States

\* The same after a step.
LEMMA TypePartsNext == (CallTyped /\ ChainTyped /\ BodyTyped /\ AnswerTyped)' => TypeOK'
  BY DEF TypeOK, CallTyped, ChainTyped, BodyTyped, AnswerTyped, States

\* Parts no variable of which changes.
LEMMA PartsKept ==
    ASSUME TypeOK
    PROVE  /\ UNCHANGED <<op, stream, cancelled, phase, outcome>> => CallTyped'
           /\ UNCHANGED <<attempt, producer, overBudget>> => ChainTyped'
           /\ UNCHANGED <<tail, errCh, drainer, budget, timeout>> => BodyTyped'
           /\ UNCHANGED <<wire, seen, text, slots>> => AnswerTyped'
<1> USE TypeParts
<1>1. UNCHANGED <<op, stream, cancelled, phase, outcome>> => CallTyped'
  BY DEF CallTyped
<1>2. UNCHANGED <<attempt, producer, overBudget>> => ChainTyped'
  BY DEF ChainTyped
<1>3. UNCHANGED <<tail, errCh, drainer, budget, timeout>> => BodyTyped'
  BY DEF BodyTyped
<1>4. UNCHANGED <<wire, seen, text, slots>> => AnswerTyped'
  BY DEF AnswerTyped
<1>5. QED
  BY <1>1, <1>2, <1>3, <1>4

\* A goroutine that holds a line has scanned it, and one that ended while its
\* lines were being read has left its error.
Scanned == Streaming => /\ producer[attempt] = "sending" => seen > 0
                        /\ producer[attempt] = "done" => errCh # "empty"

\* Giving up keeps the types.
LEMMA GiveUpTyped ==
    ASSUME TypeOK, NEW class \in Class, GiveUp(class), UNCHANGED calling,
           producer' \in [Attempt -> States], overBudget' \subseteq Attempt
    PROVE  TypeOK' /\ Scanned'
<1>1. CASE class = "retry" /\ op = "chat" /\ attempt <= Fallbacks
  <2>1. /\ attempt' = attempt + 1 /\ phase' = "next" /\ outcome' = outcome
        /\ wire' = <<>> /\ tail' = "open" /\ seen' = 0
        /\ errCh' = "empty" /\ drainer' = FALSE
        /\ budget' = TRUE /\ timeout' = FALSE
        /\ text' = <<>> /\ slots' = <<>>
    BY <1>1 DEF GiveUp
  <2>2. attempt' \in Attempt
    BY <1>1, <2>1, ProviderConstants DEF TypeOK, Attempt, ProviderConstants
  <2>3. /\ wire' \in Seq(Line) /\ Len(wire') = 0 /\ DOMAIN slots' = {}
        /\ text' \in Seq(1..Len(wire'))
    BY <2>1
  <2>4. seen' \in 0..Len(wire')
    BY <2>1, <2>3
  <2>5. /\ op' \in {"chat", "send"} /\ stream' \in BOOLEAN /\ cancelled' \in BOOLEAN
        /\ outcome' \in {"none", "ok", "retry", "overflow", "error", "cancelled"}
    BY <2>1 DEF TypeOK, calling
  <2>6. TypeOK'
    BY <2>1, <2>2, <2>3, <2>4, <2>5 DEF TypeOK, States
  <2>7. QED
    BY <2>1, <2>6 DEF Scanned, Streaming
<1>2. CASE ~(class = "retry" /\ op = "chat" /\ attempt <= Fallbacks)
  <2>1. /\ phase' = "returned" /\ outcome' = class /\ UNCHANGED <<attempt, connection>>
    BY <1>2 DEF GiveUp, Return
  <2>2. QED
    BY <2>1 DEF connection, calling, TypeOK, Class, States, Scanned, Streaming
<1>3. QED
  BY <1>1, <1>2

\* What processLine keeps of a line is its number.
LEMMA ParsedTyped ==
    ASSUME TypeOK, NEW n \in 1..Len(wire), Parsed(n)
    PROVE  text' \in Seq(1..Len(wire)) /\ DOMAIN slots' \subseteq Slot
<1>1. wire[n] \in Line /\ text \in Seq(1..Len(wire)) /\ DOMAIN slots \subseteq Slot
  BY DEF TypeOK
<1>2. CASE wire[n].kind = "text"
  BY <1>1, <1>2 DEF Parsed
<1>3. CASE wire[n].kind = "call"
  <2>1. wire[n].slot \in Slot
    BY <1>1, <1>3 DEF Line
  <2>2. text' = text /\ DOMAIN slots' = DOMAIN slots \cup {wire[n].slot}
    BY <1>3 DEF Parsed
  <2>3. QED
    BY <1>1, <2>1, <2>2
<1>4. CASE wire[n].kind # "text" /\ wire[n].kind # "call"
  BY <1>1, <1>4 DEF Parsed
<1>5. QED
  BY <1>2, <1>3, <1>4

\* Every step keeps the types.
LEMMA NextTyped == TypeOK /\ Scanned /\ Attempts /\ [Next]_vars => TypeOK' /\ Scanned'
<1> SUFFICES ASSUME TypeOK, Scanned, Attempts, [Next]_vars PROVE TypeOK' /\ Scanned'
  OBVIOUS
<1>0. /\ Len(wire) \in Nat /\ seen \in Nat /\ seen <= Len(wire)
      /\ attempt \in Attempt /\ producer \in [Attempt -> States]
      /\ overBudget \subseteq Attempt
  BY DEF TypeOK, States
<1>1. CASE Request
  BY <1>1 DEF Request, Return, connection, calling, TypeOK, Scanned, Streaming
<1>2. ASSUME NEW class \in Class, GiveUp(class), UNCHANGED <<calling, producer, overBudget>>
      PROVE  TypeOK' /\ Scanned'
  BY <1>0, <1>2, GiveUpTyped
<1>3. CASE ConnectFails \/ BadStatus \/ NotEvents
  BY <1>2, <1>3 DEF ConnectFails, BadStatus, NotEvents, Class
<1>4. CASE ConsumeOneShot \/ NothingSent
  BY <1>2, <1>4 DEF ConsumeOneShot, NothingSent, Class
<1>5. CASE StreamOver
  <2>1. PICK class : GiveUp(class) /\ class = IF errCh = "broken" THEN "error" ELSE errCh
    BY <1>5 DEF StreamOver
  <2>2. class \in Class
    BY <1>5, <2>1 DEF StreamOver, Attempts, Scanned, Streaming, Class
  <2>3. QED
    BY <1>2, <1>5, <2>1, <2>2 DEF StreamOver
<1>6. CASE StreamBegins
  BY <1>0, <1>6 DEF StreamBegins, connection, calling, TypeOK, Scanned, Streaming
<1>7. CASE FirstLineLate
  <2>1. producer' \in [Attempt -> States]
    BY <1>0, <1>7 DEF FirstLineLate, States
  <2>2. overBudget' \subseteq Attempt /\ GiveUp("retry") /\ UNCHANGED calling
    BY <1>0, <1>7 DEF FirstLineLate
  <2>3. QED
    BY <2>1, <2>2, GiveUpTyped DEF Class
<1>8. CASE FirstLine \/ NextLine
  <2>1. Take /\ producer[attempt] = "sending" /\ Streaming
    BY <1>8 DEF FirstLine, NextLine, Take, Producer
  <2>2. seen \in 1..Len(wire)
    BY <1>0, <2>1 DEF Scanned
  <2>3. text' \in Seq(1..Len(wire)) /\ DOMAIN slots' \subseteq Slot
    BY <2>1, <2>2, ParsedTyped DEF Take, TypeOK
  <2>4. /\ producer' = [producer EXCEPT ![attempt] = "scanning"]
        /\ phase' \in {"reading", "draining"} /\ drainer' \in {drainer, TRUE}
        /\ UNCHANGED <<calling, attempt, wire, tail, seen, errCh, budget, timeout,
                       outcome, overBudget>>
    BY <2>1 DEF Take, Producer
  <2>5. Scanned'
    BY <1>0, <2>4 DEF Scanned
  <2>6. CallTyped'
    BY <2>4, TypeParts DEF CallTyped, calling
  <2>7. ChainTyped'
    BY <1>0, <2>4 DEF ChainTyped, States
  <2>8. BodyTyped'
    BY <2>4, TypeParts DEF BodyTyped
  <2>9. AnswerTyped'
    BY <2>3, <2>4, TypeParts DEF AnswerTyped
  <2>10. QED
    BY <2>5, <2>6, <2>7, <2>8, <2>9, TypePartsNext
<1>9. CASE ServerSends
  <2>1. PICK line \in Line : wire' = Append(wire, line)
    BY <1>9 DEF ServerSends
  <2>2. wire' \in Seq(Line) /\ Len(wire') = Len(wire) + 1
    BY <2>1 DEF TypeOK
  <2>3. text' \in Seq(1..Len(wire'))
    <3>1. text' = text /\ text \in Seq(1..Len(wire))
      BY <1>9 DEF ServerSends, TypeOK
    <3>2. 1..Len(wire) \subseteq 1..Len(wire')
      BY <1>0, <2>2
    <3>3. QED
      BY <3>1, <3>2, SeqMonotonic
  <2>4. seen' \in 0..Len(wire')
    BY <1>0, <1>9, <2>2 DEF ServerSends
  <2>5. QED
    BY <1>9, <2>2, <2>3, <2>4 DEF ServerSends, TypeOK, Scanned, Streaming, calling
<1>10. CASE ScanLine
  <2>1. /\ producer' = [producer EXCEPT ![attempt] = "sending"]
        /\ seen < Len(wire) /\ seen' = seen + 1
        /\ UNCHANGED <<calling, attempt, phase, wire, tail, errCh, drainer, budget,
                       timeout, text, slots, outcome, overBudget>>
    BY <1>10 DEF ScanLine, Producer
  <2>2. seen' \in 0..Len(wire') /\ seen' > 0
    BY <1>0, <2>1
  <2>3. TypeOK'
    BY <1>0, <2>1, <2>2 DEF TypeOK, calling, States
  <2>4. QED
    BY <1>0, <2>1, <2>2, <2>3 DEF Scanned
<1>11. CASE ScanEnds
  <2>1. /\ producer' = [producer EXCEPT ![attempt] = "done"]
        /\ errCh' \in {"ok", "broken", "cancelled"}
        /\ UNCHANGED <<calling, attempt, phase, wire, tail, seen, drainer, budget,
                       timeout, text, slots, outcome, overBudget>>
    BY <1>11 DEF ScanEnds, Producer
  <2>2. TypeOK'
    BY <1>0, <2>1 DEF TypeOK, calling, States
  <2>3. Scanned'
    BY <1>0, <2>1 DEF Scanned
  <2>4. QED
    BY <2>2, <2>3
<1>12. CASE Drain
  <2>1. /\ producer' = [producer EXCEPT ![attempt] = "scanning"]
        /\ UNCHANGED <<calling, attempt, phase, connection, outcome, overBudget>>
    BY <1>12 DEF Drain, Producer
  <2>2. ChainTyped'
    BY <1>0, <2>1 DEF ChainTyped, States
  <2>3. Scanned'
    BY <1>0, <2>1 DEF Scanned
  <2>4. QED
    BY <2>1, <2>2, <2>3, PartsKept, TypePartsNext DEF calling, connection
<1>13. CASE ServerEnds \/ BudgetRunsOut \/ RequestTimesOut
  <2>1. /\ UNCHANGED <<calling, attempt, phase, wire, seen, text, slots, producer, outcome,
                       overBudget>>
        /\ tail' \in {tail, "eof", "broken"} /\ errCh' = errCh /\ drainer' = drainer
        /\ budget' \in {budget, FALSE} /\ timeout' \in {timeout, TRUE}
    BY <1>13 DEF ServerEnds, BudgetRunsOut, RequestTimesOut
  <2>2. BodyTyped'
    BY <2>1, TypeParts DEF BodyTyped
  <2>3. Scanned'
    BY <2>1 DEF Scanned, Streaming
  <2>4. QED
    BY <2>1, <2>2, <2>3, PartsKept, TypePartsNext DEF calling
<1>14. CASE Cancel \/ UNCHANGED vars
  <2>1. /\ UNCHANGED <<op, stream, attempt, phase, connection, producer, outcome, overBudget>>
        /\ cancelled' \in {cancelled, TRUE}
    BY <1>14 DEF Cancel, vars
  <2>2. CallTyped'
    BY <2>1, TypeParts DEF CallTyped
  <2>3. Scanned'
    BY <2>1 DEF Scanned, Streaming, connection
  <2>4. QED
    BY <2>1, <2>2, <2>3, PartsKept, TypePartsNext DEF connection
<1>15. QED
  BY <1>1, <1>3, <1>4, <1>5, <1>6, <1>7, <1>8, <1>9, <1>10, <1>11, <1>12, <1>13, <1>14
     DEF Next, Caller, Scanner, Environment

\* A request begins well typed.
LEMMA InitTyped == Init => TypeOK /\ Scanned
<1> SUFFICES ASSUME Init PROVE TypeOK /\ Scanned
  OBVIOUS
<1>1. attempt \in Attempt /\ producer \in [Attempt -> States]
  BY ProviderConstants DEF Init, Attempt, ProviderConstants, States
<1>2. /\ wire \in Seq(Line) /\ Len(wire) = 0 /\ text \in Seq(1..Len(wire)) /\ DOMAIN slots = {}
      /\ seen = 0
  BY DEF Init, Closed
<1>3. CallTyped
  BY DEF Init, CallTyped
<1>4. ChainTyped
  BY <1>1 DEF Init, ChainTyped
<1>5. BodyTyped
  BY DEF Init, Closed, BodyTyped
<1>6. AnswerTyped
  BY <1>2 DEF AnswerTyped
<1>7. QED
  BY <1>3, <1>4, <1>5, <1>6, TypeParts DEF Init, Scanned, Streaming

\* Every variable of a request has its type: in particular the fallback chain is
\* not left at either end, and all that is kept of an answer are its lines.
THEOREM TypeCorrect == Spec => []TypeOK
<1>1. Spec => [](TypeOK /\ Scanned /\ Attempts)
  BY InitTyped, InitKeeps, NextTyped, NextKeeps, PTL DEF Spec
<1>2. QED
  BY <1>1, PTL

-----------------------------------------------------------------------------
(***************************************************************************)
(* The answer.  Of the lines scanned the caller has taken all but the one  *)
(* the goroutine still holds, and has kept what stood before [DONE].       *)
(***************************************************************************)
Taken == IF producer[attempt] = "sending" THEN seen - 1 ELSE seen

Taking == {n \in 1..Taken : \A m \in 1..n : wire[m].kind # "done"}

TextTaken     == {n \in Taking : wire[n].kind = "text"}
CallsTaken(s) == {n \in Taking : wire[n].kind = "call" /\ wire[n].slot = s}

TextKept == InOrder(text, TextTaken)

SlotsKept ==
    /\ DOMAIN slots = {s \in Slot : CallsTaken(s) # {}}
    /\ \A s \in DOMAIN slots :
          /\ slots[s].args \in Seq(Nat) /\ InOrder(slots[s].args, CallsTaken(s))
          /\ slots[s].named <=> \E n \in CallsTaken(s) : wire[n].named

\* Where a request stands: an attempt begins with nothing sent, and only a
\* stream whose every line was scanned ends well.
Stands ==
    /\ phase \in {"next", "connecting"} => wire = <<>> /\ seen = 0
    /\ phase \in {"next", "connecting", "first", "reading"} => ~drainer
    /\ Streaming => /\ stream
                    /\ producer[attempt] \in {"scanning", "sending", "done"}
                    /\ errCh = "ok" => tail # "open" /\ seen = Len(wire)
    /\ outcome # "none" => phase = "returned"

\* [DONE] is what the caller stops at.
DoneTaken ==
    /\ phase \in {"first", "reading"} => \A n \in 1..Taken : wire[n].kind # "done"
    /\ phase = "draining" => \E n \in 1..Taken : wire[n].kind = "done"

AnswerInv == /\ Stands /\ DoneTaken
             /\ Streaming => TextKept /\ SlotsKept
             /\ ResponseIsTheStream

\* A number beyond all others goes at the end.
LEMMA AppendInOrder ==
    ASSUME NEW q \in Seq(Nat), NEW S, InOrder(q, S), NEW n \in Nat, \A k \in S : k < n
    PROVE  Append(q, n) \in Seq(Nat) /\ InOrder(Append(q, n), S \cup {n})
<1> DEFINE r == Append(q, n)
<1>1. PICK l \in Nat : l = Len(q)
  OBVIOUS
<1>2. /\ r \in Seq(Nat) /\ DOMAIN r = 1..(l + 1) /\ r[l + 1] = n
      /\ DOMAIN q = 1..l /\ \A i \in 1..l : r[i] = q[i] /\ q[i] \in Nat
  BY <1>1
<1> HIDE DEF r
<1>3. \A i \in 1..l : q[i] \in S /\ q[i] < n
  BY <1>2 DEF InOrder
<1>4. {r[i] : i \in 1..(l + 1)} = S \cup {n}
  <2>1. {q[i] : i \in 1..l} = S
    BY <1>2 DEF InOrder
  <2>2. \A i \in 1..(l + 1) : i \in 1..l \/ i = l + 1
    OBVIOUS
  <2>3. l + 1 \in 1..(l + 1) /\ 1..l \subseteq 1..(l + 1)
    OBVIOUS
  <2>4. QED
    BY <1>2, <2>1, <2>2, <2>3
<1>5. ASSUME NEW i \in 1..(l + 1), NEW j \in 1..(l + 1), i < j PROVE r[i] < r[j]
  <2>1. i \in 1..l
    BY <1>5
  <2>2. CASE j = l + 1
    BY <1>2, <1>3, <2>1, <2>2
  <2>3. CASE j \in 1..l
    BY <1>2, <1>5, <2>1, <2>3 DEF InOrder
  <2>4. QED
    BY <2>2, <2>3
<1>6. QED
  BY <1>2, <1>4, <1>5 DEF InOrder, r

\* Nothing is in any order.
LEMMA NoneInOrder == InOrder(<<>>, {})
  BY DEF InOrder

\* The numbers at hand.
LEMMA TakenTyped ==
    ASSUME TypeOK, Scanned, Streaming
    PROVE  /\ Taken \in Nat /\ seen \in Nat /\ Len(wire) \in Nat
           /\ Taken <= seen /\ seen <= Len(wire)
           /\ \A n \in Taking : n \in 1..Len(wire) /\ n \in Nat
  BY DEF TypeOK, Scanned, Taken, Taking

\* Nothing is taken, and what was taken stays on the wire.
LEMMA KeptStays ==
    ASSUME Taking' = Taking, \A n \in Taking : wire'[n] = wire[n],
           UNCHANGED <<text, slots>>, TextKept, SlotsKept
    PROVE  TextKept' /\ SlotsKept'
<1>1. TextTaken' = TextTaken /\ \A s : CallsTaken(s)' = CallsTaken(s)
  BY DEF TextTaken, CallsTaken
<1>2. TextKept'
  BY <1>1 DEF TextKept, InOrder
<1>3. \A s : (\E n \in CallsTaken(s)' : wire'[n].named) <=> \E n \in CallsTaken(s) : wire[n].named
  BY <1>1 DEF CallsTaken
<1>4. SlotsKept'
  BY <1>1, <1>3 DEF SlotsKept, InOrder
<1>5. QED
  BY <1>2, <1>4

\* processLine adds the line that was taken, and it comes after all others.
LEMMA ParsedKept ==
    ASSUME TypeOK, TextKept, SlotsKept, UNCHANGED wire, NEW n \in 1..Len(wire), Parsed(n),
           Taking' = Taking \cup {n}, \A k \in Taking : k \in Nat /\ k < n
    PROVE  TextKept' /\ SlotsKept'
<1>1. /\ wire[n] \in Line /\ text \in Seq(Nat) /\ n \in Nat
      /\ n \notin Taking
  <2>1. wire[n] \in Line /\ n \in Nat /\ text \in Seq(1..Len(wire)) /\ 1..Len(wire) \subseteq Nat
    BY DEF TypeOK
  <2>2. text \in Seq(Nat)
    BY <2>1, SeqMonotonic
  <2>3. QED
    BY <2>1, <2>2
<1>2. /\ wire[n].kind \in {"text", "call", "noise", "done"}
      /\ wire[n].kind = "call" => wire[n].slot \in Slot
  BY <1>1 DEF Line
<1>3. /\ TextTaken' = IF wire[n].kind = "text" THEN TextTaken \cup {n} ELSE TextTaken
      /\ \A s : CallsTaken(s)' = IF wire[n].kind = "call" /\ wire[n].slot = s
                                  THEN CallsTaken(s) \cup {n} ELSE CallsTaken(s)
  BY DEF TextTaken, CallsTaken
<1>4. CASE wire[n].kind # "call"
  <2>1. \A s : CallsTaken(s)' = CallsTaken(s)
    BY <1>3, <1>4
  <2>2. slots' = slots
    BY <1>4 DEF Parsed
  <2>3. SlotsKept'
    BY <2>1, <2>2 DEF SlotsKept, InOrder
  <2>4. CASE wire[n].kind = "text"
    <3>1. text' = Append(text, n) /\ TextTaken' = TextTaken \cup {n}
      BY <1>3, <2>4 DEF Parsed
    <3>2. \A k \in TextTaken : k < n
      BY DEF TextTaken
    <3>3. InOrder(Append(text, n), TextTaken \cup {n})
      BY <1>1, <3>2, AppendInOrder DEF TextKept
    <3>4. QED
      BY <2>3, <3>1, <3>3 DEF TextKept, InOrder
  <2>5. CASE wire[n].kind # "text"
    <3>1. text' = text /\ TextTaken' = TextTaken
      BY <1>3, <1>4, <2>5 DEF Parsed
    <3>2. QED
      BY <2>3, <3>1 DEF TextKept, InOrder
  <2>6. QED
    BY <2>4, <2>5
<1>5. CASE wire[n].kind = "call"
  <2>1. text' = text /\ TextTaken' = TextTaken
    BY <1>3, <1>5 DEF Parsed
  <2>2. TextKept'
    BY <2>1 DEF TextKept, InOrder
  <2>3. PICK t \in Slot : t = wire[n].slot
    BY <1>2, <1>5
  <2>4. PICK old : old = IF t \in DOMAIN slots THEN slots[t] ELSE [named |-> FALSE, args |-> <<>>]
    OBVIOUS
  <2>5. slots' = [s \in DOMAIN slots \cup {t} |->
                     IF s # t THEN slots[s]
                     ELSE [named |-> old.named \/ wire[n].named, args |-> Append(old.args, n)]]
    BY <1>5, <2>3, <2>4 DEF Parsed
  <2>6. /\ CallsTaken(t)' = CallsTaken(t) \cup {n}
        /\ \A s : s # t => CallsTaken(s)' = CallsTaken(s)
    BY <1>3, <1>5, <2>3
  <2>7. /\ old.args \in Seq(Nat) /\ InOrder(old.args, CallsTaken(t))
        /\ old.named <=> \E k \in CallsTaken(t) : wire[k].named
    <3>1. CASE t \in DOMAIN slots
      BY <2>4, <3>1 DEF SlotsKept
    <3>2. CASE t \notin DOMAIN slots
      <4>1. CallsTaken(t) = {}
        BY <3>2 DEF SlotsKept
      <4>2. old.args = <<>> /\ old.named = FALSE
        BY <2>4, <3>2
      <4>3. QED
        BY <4>1, <4>2, NoneInOrder
    <3>3. QED
      BY <3>1, <3>2
  <2>8. Append(old.args, n) \in Seq(Nat) /\ InOrder(Append(old.args, n), CallsTaken(t) \cup {n})
    <3>1. \A k \in CallsTaken(t) : k < n
      BY DEF CallsTaken
    <3>2. QED
      BY <1>1, <2>7, <3>1, AppendInOrder
  <2>9. DOMAIN slots' = DOMAIN slots \cup {t}
    BY <2>5
  <2>10. DOMAIN slots' = {s \in Slot : CallsTaken(s)' # {}}
    BY <2>6, <2>9 DEF SlotsKept
  <2>11. ASSUME NEW s \in DOMAIN slots'
         PROVE  /\ slots'[s].args \in Seq(Nat) /\ InOrder(slots'[s].args, CallsTaken(s)')
                /\ slots'[s].named <=> \E k \in CallsTaken(s)' : wire'[k].named
    <3>1. CASE s = t
      <4>1. /\ slots'[s].args = Append(old.args, n)
            /\ slots'[s].named <=> old.named \/ wire[n].named
        BY <2>5, <2>9, <3>1
      <4>2. (\E k \in CallsTaken(s)' : wire'[k].named)
                <=> wire[n].named \/ \E k \in CallsTaken(t) : wire[k].named
        BY <2>6, <3>1
      <4>3. QED
        BY <2>6, <2>7, <2>8, <3>1, <4>1, <4>2
    <3>2. CASE s # t
      <4>1. s \in DOMAIN slots /\ slots'[s] = slots[s] /\ CallsTaken(s)' = CallsTaken(s)
        BY <2>5, <2>6, <2>9, <3>2
      <4>2. QED
        BY <4>1 DEF SlotsKept
    <3>3. QED
      BY <3>1, <3>2
  <2>12. SlotsKept'
    BY <2>10, <2>11 DEF SlotsKept, InOrder
  <2>13. QED
    BY <2>2, <2>12
<1>6. QED
  BY <1>4, <1>5

\* All that was sent before [DONE] was taken: what is kept is the answer.
LEMMA AnswerWhole ==
    ASSUME Taking = BeforeDone, TextKept, SlotsKept
    PROVE  /\ InOrder(Response.text, TextLines)
           /\ DOMAIN Response.calls = {s \in Slot : \E n \in CallLines(s) : wire[n].named}
           /\ \A s \in DOMAIN Response.calls : InOrder(Response.calls[s], CallLines(s))
<1>1. TextTaken = TextLines /\ \A s : CallsTaken(s) = CallLines(s)
  BY DEF TextTaken, CallsTaken, TextLines, CallLines
<1>2. /\ Response.text = text
      /\ DOMAIN Response.calls = {t \in DOMAIN slots : slots[t].named}
      /\ \A s \in DOMAIN Response.calls : s \in DOMAIN slots /\ Response.calls[s] = slots[s].args
  BY DEF Response
<1>3. DOMAIN Response.calls = {s \in Slot : \E n \in CallLines(s) : wire[n].named}
  BY <1>1, <1>2 DEF SlotsKept
<1>4. QED
  BY <1>1, <1>2, <1>3 DEF TextKept, SlotsKept

\* An attempt that fails leaves nothing behind for the next.
LEMMA GiveUpAnswer ==
    ASSUME AnswerInv, phase # "returned", NEW class, GiveUp(class), UNCHANGED stream,
           class # "ok" \/ ~stream
    PROVE  AnswerInv'
<1>1. outcome = "none"
  BY DEF AnswerInv, Stands
<1>2. CASE class = "retry" /\ op = "chat" /\ attempt <= Fallbacks
  <2>1. phase' = "next" /\ wire' = <<>> /\ seen' = 0 /\ outcome' = "none" /\ ~drainer'
    BY <1>1, <1>2 DEF GiveUp
  <2>2. QED
    BY <2>1 DEF AnswerInv, Stands, DoneTaken, Streaming, ResponseIsTheStream
<1>3. CASE ~(class = "retry" /\ op = "chat" /\ attempt <= Fallbacks)
  <2>1. phase' = "returned" /\ outcome' = class /\ stream' = stream
    BY <1>3 DEF GiveUp, Return
  <2>2. QED
    BY <2>1 DEF AnswerInv, Stands, DoneTaken, Streaming, ResponseIsTheStream
<1>4. QED
  BY <1>2, <1>3

\* The response that is returned for a stream is made of all its lines.
LEMMA StreamOverAnswer ==
    ASSUME TypeOK, Scanned, Attempts, AnswerInv, StreamOver
    PROVE  AnswerInv'
<1>0. phase \in {"reading", "draining"} /\ Streaming /\ UNCHANGED <<stream, producer>>
  BY DEF StreamOver, Streaming, calling
<1>1. CASE errCh # "ok"
  <2>1. PICK class : GiveUp(class) /\ class # "ok"
    BY <1>1 DEF StreamOver
  <2>2. QED
    BY <1>0, <2>1, GiveUpAnswer
<1>2. CASE errCh = "ok"
  <2>1. GiveUp("ok")
    BY <1>2 DEF StreamOver
  <2>2. phase' = "returned" /\ outcome' = "ok" /\ UNCHANGED <<attempt, connection>>
    BY <2>1 DEF GiveUp, Return
  <2>3. seen = Len(wire) /\ producer[attempt] = "done"
    BY <1>0, <1>2 DEF AnswerInv, Stands, Attempts
  <2>4. Taken = Len(wire) /\ Len(wire) \in Nat /\ DOMAIN wire = 1..Len(wire)
    BY <2>3 DEF Taken, TypeOK
  <2>5. Taking = BeforeDone
    BY <2>4 DEF Taking, BeforeDone
  <2>6. /\ InOrder(Response.text, TextLines)
        /\ DOMAIN Response.calls = {s \in Slot : \E n \in CallLines(s) : wire[n].named}
        /\ \A s \in DOMAIN Response.calls : InOrder(Response.calls[s], CallLines(s))
    BY <1>0, <2>5, AnswerWhole DEF AnswerInv
  <2>7. UNCHANGED <<wire, text, slots>>
    BY <2>2 DEF connection
  <2>8. Response' = Response /\ TextLines' = TextLines /\ \A s : CallLines(s)' = CallLines(s)
    BY <2>7 DEF Response, TextLines, CallLines, BeforeDone
  <2>9. ResponseIsTheStream'
    BY <2>6, <2>7, <2>8 DEF ResponseIsTheStream
  <2>10. QED
    BY <2>2, <2>9 DEF AnswerInv, Stands, DoneTaken, Streaming
<1>3. QED
  BY <1>1, <1>2

\* While the answer is read nothing is returned.
LEMMA NotReturned ==
    ASSUME AnswerInv, phase # "returned", outcome' = outcome
    PROVE  outcome' = "none" /\ ResponseIsTheStream'
  BY DEF AnswerInv, Stands, ResponseIsTheStream

\* The caller takes the line the goroutine holds.
LEMMA TakeAnswer ==
    ASSUME TypeOK, Scanned, AnswerInv, FirstLine \/ NextLine
    PROVE  AnswerInv'
<1>0. /\ Take /\ producer[attempt] = "sending" /\ Streaming /\ phase \in {"first", "reading"}
      /\ UNCHANGED <<stream, attempt, wire, tail, seen, errCh, outcome>>
      /\ producer' = [producer EXCEPT ![attempt] = "scanning"]
      /\ phase' \in {"reading", "draining"}
  BY DEF FirstLine, NextLine, Take, Producer, calling
<1>1. /\ seen \in 1..Len(wire) /\ Taken = seen - 1
      /\ Taken' = seen /\ producer'[attempt'] = "scanning"
  <2>1. attempt \in DOMAIN producer
    BY DEF TypeOK
  <2>2. producer'[attempt'] = "scanning"
    BY <1>0, <2>1
  <2>3. seen \in Nat /\ seen <= Len(wire) /\ Len(wire) \in Nat /\ seen > 0
    BY <1>0 DEF TypeOK, Scanned
  <2>4. QED
    BY <1>0, <2>2, <2>3 DEF Taken
<1>2. \A n \in 1..(seen - 1) : wire[n].kind # "done"
  BY <1>0, <1>1 DEF AnswerInv, DoneTaken
<1>3. Taking = 1..(seen - 1)
  BY <1>1, <1>2 DEF Taking
<1>4. Taking' = {n \in 1..seen : \A m \in 1..n : wire[m].kind # "done"}
  BY <1>0, <1>1 DEF Taking
<1>5. Stands' /\ ResponseIsTheStream'
  <2>1. outcome' = "none" /\ ResponseIsTheStream'
    BY <1>0, NotReturned
  <2>2. QED
    BY <1>0, <1>1, <2>1 DEF AnswerInv, Stands, Streaming, Take
<1>6. CASE wire[seen].kind = "done"
  <2>1. phase' = "draining" /\ UNCHANGED <<text, slots>>
    BY <1>0, <1>6 DEF Take
  <2>2. Taking' = Taking
    BY <1>1, <1>2, <1>3, <1>4, <1>6
  <2>3. TextKept' /\ SlotsKept'
    BY <1>0, <2>1, <2>2, KeptStays DEF AnswerInv
  <2>4. DoneTaken'
    BY <1>0, <1>1, <1>6, <2>1 DEF DoneTaken
  <2>5. QED
    BY <1>5, <2>3, <2>4 DEF AnswerInv
<1>7. CASE wire[seen].kind # "done"
  <2>1. phase' = "reading" /\ Parsed(seen)
    BY <1>0, <1>7 DEF Take
  <2>2. \A n \in 1..seen : wire[n].kind # "done"
    BY <1>1, <1>2, <1>7
  <2>3. Taking' = Taking \cup {seen}
    BY <1>1, <1>3, <1>4, <2>2
  <2>4. \A k \in Taking : k \in Nat /\ k < seen
    BY <1>1, <1>3
  <2>5. TextKept' /\ SlotsKept'
    BY <1>0, <1>1, <2>1, <2>3, <2>4, ParsedKept DEF AnswerInv
  <2>6. DoneTaken'
    BY <1>0, <1>1, <2>1, <2>2 DEF DoneTaken
  <2>7. QED
    BY <1>5, <2>5, <2>6 DEF AnswerInv
<1>8. QED
  BY <1>6, <1>7

\* Steps that take nothing, while the goroutine or the server goes on.
LEMMA ReadOnAnswer ==
    ASSUME AnswerInv, Streaming, UNCHANGED <<stream, attempt, phase, text, slots, outcome, drainer>>,
           producer'[attempt] \in {"scanning", "sending", "done"},
           errCh' = "ok" => tail' # "open" /\ seen' = Len(wire'),
           Taking' = Taking, \A n \in 1..Taken : wire'[n] = wire[n],
           IF phase = "draining" THEN 1..Taken \subseteq 1..Taken' ELSE Taken' = Taken
    PROVE  AnswerInv'
<1>1. phase # "returned"
  BY DEF Streaming
<1>2. TextKept' /\ SlotsKept'
  BY KeptStays DEF AnswerInv, Taking
<1>3. outcome' = "none" /\ ResponseIsTheStream'
  BY <1>1, NotReturned
<1>4. Stands'
  BY <1>3 DEF AnswerInv, Stands, Streaming
<1>5. DoneTaken'
  <2>1. CASE phase = "draining"
    <3>1. PICK n \in 1..Taken : wire[n].kind = "done"
      BY <2>1 DEF AnswerInv, DoneTaken
    <3>2. n \in 1..Taken' /\ wire'[n].kind = "done"
      BY <2>1, <3>1
    <3>3. QED
      BY <2>1, <3>2 DEF DoneTaken
  <2>2. CASE phase # "draining"
    BY <2>2 DEF AnswerInv, DoneTaken
  <2>3. QED
    BY <2>1, <2>2
<1>6. QED
  BY <1>2, <1>3, <1>4, <1>5 DEF AnswerInv

\* Every step keeps the answer what was read of the stream.
LEMMA NextAnswer ==
    ASSUME TypeOK, Scanned, Attempts, NothingYet, AnswerInv, [Next]_vars
    PROVE  AnswerInv'
<1>0. attempt \in DOMAIN producer /\ DOMAIN producer = Attempt
  BY DEF TypeOK
<1>1. CASE Request
  <2>1. CASE phase' = "connecting" /\ UNCHANGED <<attempt, connection, outcome>>
    BY <1>1, <2>1, NotReturned
       DEF Request, connection, calling, AnswerInv, Stands, DoneTaken, Streaming
  <2>2. CASE phase' = "returned" /\ outcome' = "error"
    BY <2>2 DEF AnswerInv, Stands, DoneTaken, Streaming, ResponseIsTheStream
  <2>3. QED
    BY <1>1, <2>1, <2>2 DEF Request, Return
<1>2. CASE ConnectFails \/ BadStatus \/ NotEvents \/ ConsumeOneShot \/ NothingSent \/ FirstLineLate
  <2>1. /\ phase # "returned" /\ UNCHANGED stream
        /\ \E class : GiveUp(class) /\ (class # "ok" \/ ~stream)
    BY <1>2 DEF ConnectFails, BadStatus, NotEvents, ConsumeOneShot, NothingSent, FirstLineLate,
                calling
  <2>2. QED
    BY <2>1, GiveUpAnswer
<1>3. CASE StreamBegins
  <2>1. /\ phase = "connecting" /\ phase' = "first" /\ stream /\ wire = <<>> /\ seen = 0
        /\ text = <<>> /\ slots = <<>> /\ producer[attempt] = "off" /\ ~drainer
        /\ producer' = [producer EXCEPT ![attempt] = "scanning"]
        /\ UNCHANGED <<stream, attempt, connection, outcome>>
    BY <1>3 DEF StreamBegins, calling, AnswerInv, Stands, NothingYet, Attempts
  <2>2. errCh = "empty"
    BY <2>1 DEF Attempts
  <2>3. producer'[attempt'] = "scanning"
    BY <1>0, <2>1
  <2>4. Taken' = 0 /\ 1..Taken' = {}
    BY <2>1, <2>3 DEF Taken, connection
  <2>5. Taking' = {}
    BY <2>4 DEF Taking
  <2>6. TextTaken' = {} /\ \A s : CallsTaken(s)' = {}
    BY <2>5 DEF TextTaken, CallsTaken
  <2>7. TextKept'
    BY <2>1, <2>6, NoneInOrder DEF TextKept, connection
  <2>8. SlotsKept'
    BY <2>1, <2>6 DEF SlotsKept, connection
  <2>9. outcome' = "none" /\ ResponseIsTheStream'
    BY <2>1, NotReturned
  <2>10. Stands'
    BY <2>1, <2>2, <2>3, <2>9 DEF Stands, Streaming, connection
  <2>11. DoneTaken'
    BY <2>1, <2>4 DEF DoneTaken
  <2>12. QED
    BY <2>7, <2>8, <2>9, <2>10, <2>11 DEF AnswerInv
<1>4. CASE FirstLine \/ NextLine
  BY <1>4, TakeAnswer
<1>5. CASE StreamOver
  BY <1>5, StreamOverAnswer
<1>6. CASE ScanLine
  <2>1. /\ Streaming /\ producer[attempt] = "scanning" /\ producer'[attempt] = "sending"
        /\ seen' = seen + 1
        /\ UNCHANGED <<stream, attempt, phase, wire, text, slots, outcome, drainer, errCh>>
    BY <1>0, <1>6 DEF ScanLine, Producer, calling
  <2>2. Taken' = Taken /\ errCh # "ok"
    BY <2>1, TakenTyped DEF Taken, Attempts
  <2>3. Taking' = Taking
    BY <2>1, <2>2 DEF Taking
  <2>4. QED
    BY <2>1, <2>2, <2>3, ReadOnAnswer
<1>7. CASE ScanEnds
  <2>1. /\ Streaming /\ producer[attempt] = "scanning" /\ producer'[attempt] = "done"
        /\ errCh' = "ok" => tail # "open" /\ seen = Len(wire)
        /\ UNCHANGED <<stream, attempt, phase, wire, tail, seen, text, slots, outcome, drainer>>
    BY <1>0, <1>7 DEF ScanEnds, Producer, calling
  <2>2. Taken' = Taken
    BY <2>1 DEF Taken
  <2>3. Taking' = Taking
    BY <2>1, <2>2 DEF Taking
  <2>4. QED
    BY <2>1, <2>2, <2>3, ReadOnAnswer
<1>8. CASE Drain
  <2>1. /\ Streaming /\ drainer /\ producer[attempt] = "sending" /\ producer'[attempt] = "scanning"
        /\ UNCHANGED <<stream, attempt, phase, wire, tail, seen, errCh, text, slots, outcome, drainer>>
    BY <1>0, <1>8 DEF Drain, Producer, calling, connection
  <2>2. phase = "draining" /\ errCh # "ok"
    BY <2>1 DEF AnswerInv, Stands, Streaming, Attempts
  <2>3. Taken \in Nat /\ Taken' = Taken + 1
    BY <2>1, TakenTyped DEF Taken
  <2>4. PICK d \in 1..Taken : wire[d].kind = "done"
    BY <2>2 DEF AnswerInv, DoneTaken
  <2>5. Taking' = {n \in 1..(Taken + 1) : \A m \in 1..n : wire[m].kind # "done"}
    BY <2>1, <2>3 DEF Taking
  <2>6. ASSUME NEW n \in 1..(Taken + 1), \A m \in 1..n : wire[m].kind # "done"
        PROVE  n \in 1..Taken
    BY <2>3, <2>4, <2>6
  <2>7. Taking' = Taking
    BY <2>3, <2>5, <2>6 DEF Taking
  <2>8. 1..Taken \subseteq 1..Taken'
    BY <2>3
  <2>9. QED
    BY <2>1, <2>2, <2>7, <2>8, ReadOnAnswer
<1>9. CASE ServerSends
  <2>1. /\ Streaming /\ tail = "open" /\ \E line \in Line : wire' = Append(wire, line)
        /\ UNCHANGED <<stream, attempt, phase, tail, seen, errCh, text, slots, outcome, drainer,
                       producer>>
    BY <1>9 DEF ServerSends, calling
  <2>2. errCh # "ok" /\ producer[attempt] \in {"scanning", "sending", "done"}
    BY <2>1 DEF AnswerInv, Stands
  <2>3. Taken' = Taken /\ \A n \in 1..Taken : wire'[n] = wire[n]
    <3>1. \A n \in 1..Len(wire) : wire'[n] = wire[n]
      BY <2>1 DEF TypeOK
    <3>2. QED
      BY <2>1, <3>1, TakenTyped DEF Taken
  <2>4. Taking' = Taking
    BY <2>1, <2>3, TakenTyped DEF Taking
  <2>5. QED
    BY <2>1, <2>2, <2>3, <2>4, ReadOnAnswer
<1>10. CASE ServerEnds
  <2>1. /\ Streaming /\ tail = "open"
        /\ UNCHANGED <<stream, attempt, phase, wire, seen, errCh, text, slots, outcome, drainer,
                       producer>>
    BY <1>10 DEF ServerEnds, calling
  <2>2. errCh # "ok" /\ producer[attempt] \in {"scanning", "sending", "done"}
    BY <2>1 DEF AnswerInv, Stands
  <2>3. Taken' = Taken
    BY <2>1 DEF Taken
  <2>4. Taking' = Taking
    BY <2>1, <2>3 DEF Taking
  <2>5. QED
    BY <2>1, <2>2, <2>3, <2>4, ReadOnAnswer
<1>11. CASE BudgetRunsOut \/ RequestTimesOut \/ Cancel \/ UNCHANGED vars
  <2>1. UNCHANGED <<stream, attempt, phase, wire, tail, seen, errCh, drainer, text, slots,
                    producer, outcome>>
    BY <1>11 DEF BudgetRunsOut, RequestTimesOut, Cancel, vars, connection, calling
  <2>2. Taken' = Taken
    BY <2>1 DEF Taken
  <2>3. Taking' = Taking /\ DoneTaken' = DoneTaken
    BY <2>1, <2>2 DEF Taking, DoneTaken
  <2>4. Stands' = Stands
    BY <2>1 DEF Stands, Streaming
  <2>5. Streaming => TextKept' /\ SlotsKept'
    BY <2>1, <2>3, KeptStays DEF AnswerInv
  <2>6. Response' = Response /\ TextLines' = TextLines /\ \A s : CallLines(s)' = CallLines(s)
    BY <2>1 DEF Response, TextLines, CallLines, BeforeDone
  <2>7. ResponseIsTheStream'
    BY <2>1, <2>6 DEF AnswerInv, ResponseIsTheStream
  <2>8. QED
    BY <2>1, <2>3, <2>4, <2>5, <2>7 DEF AnswerInv, Streaming
<1>12. QED
  BY <1>1, <1>2, <1>3, <1>4, <1>5, <1>6, <1>7, <1>8, <1>9, <1>10, <1>11
     DEF Next, Caller, Scanner, Environment

\* What a streaming request returns is what the server sent before [DONE], all
\* of it and in order, however the fragments of tool calls are interleaved: for
\* any chain, any indexes and answers of any length.
THEOREM ResponseWhole == Spec => []ResponseIsTheStream
<1>1. Init => NothingYet /\ AnswerInv
  BY DEF Init, Closed, NothingYet, AnswerInv, Stands, DoneTaken, Streaming, ResponseIsTheStream
<1>2. TypeOK /\ Scanned /\ Attempts /\ NothingYet /\ AnswerInv /\ [Next]_vars
        => (TypeOK /\ Scanned /\ Attempts /\ NothingYet /\ AnswerInv)'
  BY NextTyped, NextKeeps, NextNothing, NextAnswer
<1>3. AnswerInv => ResponseIsTheStream
  BY DEF AnswerInv
<1>4. QED
  BY <1>1, <1>2, <1>3, InitTyped, InitKeeps, PTL DEF Spec

=============================================================================
