------------------------------- MODULE Provider -------------------------------
(***************************************************************************)
(* One chat request: StreamingProvider of providers/openai/provider.go     *)
(* over the client of exoclaw/http/http.go.                                *)
(*                                                                         *)
(* Chat walks the fallback chain.  Each attempt sends a request, looks at  *)
(* the status and reads the answer as server-sent events: a goroutine      *)
(* scans lines into an unbuffered channel, the caller takes them out, with *)
(* a budget for the first one only.  Server, clock and the cancelling of   *)
(* the caller's context are actions that may happen at any time.           *)
(*                                                                         *)
(* A line is abstracted to what the parser makes of it, and a fragment of  *)
(* text or of arguments to the number of the line that brought it.  Token  *)
(* counts, finish reason and the request body are left out.                *)
(***************************************************************************)
EXTENDS Integers, Sequences

CONSTANTS Fallbacks,  \* how many models follow the one asked for in its chain
          Slot,       \* indexes of the tool calls of an answer
          MaxLines    \* bound: lines the server sends in one answer

ASSUME ProviderConstants ==
    /\ Fallbacks \in Nat
    /\ Slot \subseteq Nat
    /\ MaxLines \in Nat

VARIABLES
    op,         \* "chat" is Chat, "send" is SendStreamingBody
    stream,     \* ChatParams.Stream
    cancelled,  \* the caller's context is done
    attempt,    \* which model of the chain is being asked
    phase,      \* where chatOnce stands
    wire,       \* the lines of the answer the server has sent
    tail,       \* the body is "open", at its end ("eof") or "broken"
    seen,       \* how many lines the scanner has read
    producer,   \* IterLines' goroutine of each attempt
    errCh,      \* what it left in its error channel
    drainer,    \* drainAndReturn's goroutine runs
    budget,     \* the time to the first line is not used up
    timeout,    \* RequestTimeout has passed
    text,       \* contentParts
    slots,      \* toolSlots
    outcome,    \* what the call returned
    overBudget  \* history: attempts given up while waiting for the first line

connection == <<wire, tail, seen, errCh, drainer, budget, timeout, text, slots>>
vars == <<op, stream, cancelled, attempt, phase, connection, producer, outcome,
          overBudget>>

\* append([]string{resolved}, p.fallbacks[resolved]...)
Attempt == 1..(Fallbacks + 1)

\* noise: blank, a comment, undecodable, or nothing the response keeps
Line == [kind : {"text", "noise", "done"}]
        \cup [kind : {"call"}, slot : Slot, named : BOOLEAN]

Closed == /\ wire = <<>> /\ tail = "open" /\ seen = 0
          /\ errCh = "empty" /\ drainer = FALSE
          /\ budget = TRUE /\ timeout = FALSE
          /\ text = <<>> /\ slots = <<>>

Init ==
    /\ op \in {"chat", "send"} /\ stream \in BOOLEAN /\ (op = "send" => stream)
    /\ cancelled = FALSE /\ attempt = 1 /\ phase = "next"
    /\ Closed
    /\ producer = [k \in Attempt |-> "off"]
    /\ outcome = "none" /\ overBudget = {}

-----------------------------------------------------------------------------
(* How an attempt ends.                                                    *)

\* The caller gets class, and what text and slots hold if that is "ok".
Return(class) ==
    /\ phase' = "returned" /\ outcome' = class
    /\ UNCHANGED <<attempt, connection>>

\* Defect: the chain is walked one model too far.
GiveUpLate(class) ==
    IF class = "retry" /\ op = "chat" /\ attempt <= Fallbacks + 1
    THEN /\ attempt' = attempt + 1 /\ phase' = "next"
         /\ UNCHANGED <<connection, outcome>>
    ELSE Return(class)

\* cleanup, then the next model of the chain if there is one and the error
\* is a retryableError.  SendStreamingBody has no chain.
GiveUp(class) ==
    IF class = "retry" /\ op = "chat" /\ attempt <= Fallbacks
    THEN /\ attempt' = attempt + 1 /\ phase' = "next"
         /\ wire' = <<>> /\ tail' = "open" /\ seen' = 0
         /\ errCh' = "empty" /\ drainer' = FALSE
         /\ budget' = TRUE /\ timeout' = FALSE
         /\ text' = <<>> /\ slots' = <<>>
         /\ UNCHANGED outcome
    ELSE Return(class)

calling == <<op, stream, cancelled>>

-----------------------------------------------------------------------------
(* chatOnce, up to the body of the answer.                                 *)

\* Every fallback has a deployment, or the provider is not constructed; the
\* model asked for may have none.
Request ==
    /\ phase = "next"
    /\ \/ phase' = "connecting" /\ UNCHANGED <<attempt, connection, outcome>>
       \/ attempt = 1 /\ Return("error")
    /\ UNCHANGED <<calling, producer, overBudget>>

\* No connection, a timeout or a cancelled context: net/http's error becomes
\* an HTTPConnectError or HTTPReadTimeout, both of them retryable in chatOnce.
ConnectFails ==
    /\ phase = "connecting"
    /\ GiveUp(IF op = "chat" THEN "retry" ELSE "error")
    /\ UNCHANGED <<calling, producer, overBudget>>

\* 408, 425, 429 and 5xx are retryable, a 400 that names the context window
\* is an overflow, every other status from 400 on is final.
BadStatus ==
    /\ phase = "connecting" /\ ~cancelled /\ ~timeout
    /\ \E class \in IF op = "chat" THEN {"retry", "overflow", "error"} ELSE {"error"} :
          GiveUp(class)
    /\ UNCHANGED <<calling, producer, overBudget>>

NotEvents ==
    /\ phase = "connecting" /\ ~cancelled /\ ~timeout /\ stream
    /\ GiveUp("retry")
    /\ UNCHANGED <<calling, producer, overBudget>>

StreamBegins ==
    /\ phase = "connecting" /\ ~cancelled /\ ~timeout /\ stream
    /\ phase' = "first"
    /\ producer' = [producer EXCEPT ![attempt] = "scanning"]
    /\ UNCHANGED <<calling, attempt, connection, outcome, overBudget>>

\* consumeOneShot: a foreign content type and a failed read are retryable,
\* a body that is no JSON is not.
ConsumeOneShot ==
    /\ phase = "connecting" /\ ~cancelled /\ ~timeout /\ ~stream
    /\ \E class \in {"ok", "retry", "error"} : GiveUp(class)
    /\ UNCHANGED <<calling, producer, overBudget>>

-----------------------------------------------------------------------------
(* The server, the clock and the caller.                                   *)

Streaming == phase \in {"first", "reading", "draining"}

ServerSends ==
    /\ Streaming /\ tail = "open" /\ Len(wire) < MaxLines
    /\ \E line \in Line : wire' = Append(wire, line)
    /\ UNCHANGED <<calling, attempt, phase, tail, seen, errCh, drainer, budget,
                   timeout, text, slots, producer, outcome, overBudget>>

ServerEnds ==
    /\ Streaming /\ tail = "open"
    /\ tail' \in {"eof", "broken"}
    /\ UNCHANGED <<calling, attempt, phase, wire, seen, errCh, drainer, budget,
                   timeout, text, slots, producer, outcome, overBudget>>

BudgetRunsOut ==
    /\ phase = "first" /\ budget
    /\ budget' = FALSE
    /\ UNCHANGED <<calling, attempt, phase, wire, tail, seen, errCh, drainer,
                   timeout, text, slots, producer, outcome, overBudget>>

RequestTimesOut ==
    /\ phase = "connecting" \/ Streaming
    /\ ~timeout
    /\ timeout' = TRUE
    /\ UNCHANGED <<calling, attempt, phase, wire, tail, seen, errCh, drainer,
                   budget, text, slots, producer, outcome, overBudget>>

Cancel ==
    /\ ~cancelled /\ phase # "returned"
    /\ cancelled' = TRUE
    /\ UNCHANGED <<op, stream, attempt, phase, connection, producer, outcome,
                   overBudget>>

-----------------------------------------------------------------------------
(* IterLines' goroutine.                                                   *)

Producer(from, to) == /\ Streaming
                      /\ producer[attempt] = from
                      /\ producer' = [producer EXCEPT ![attempt] = to]

ScanLine ==
    /\ seen < Len(wire)
    /\ Producer("scanning", "sending")
    /\ seen' = seen + 1
    /\ UNCHANGED <<calling, attempt, phase, wire, tail, errCh, drainer, budget,
                   timeout, text, slots, outcome, overBudget>>

\* The error goes into the buffered errCh before the lines are closed.
ScanEnds ==
    /\ Producer("scanning", "done")
    /\ \/ /\ tail # "open" /\ seen = Len(wire)
          /\ errCh' = IF tail = "eof" THEN "ok" ELSE "broken"
       \/ timeout   /\ errCh' = "broken"
       \/ cancelled /\ errCh' = "cancelled"
    /\ UNCHANGED <<calling, attempt, phase, wire, tail, seen, drainer, budget,
                   timeout, text, slots, outcome, overBudget>>

-----------------------------------------------------------------------------
(* consumeSSEStream.                                                       *)

\* Defect: a fragment replaces the call's arguments, as in consumeOneShot.
ParsedWhole(n) ==
    LET line == wire[n]
    IN CASE line.kind = "text" -> text' = Append(text, n) /\ UNCHANGED slots
         [] line.kind = "call" ->
              /\ slots' = [s \in DOMAIN slots \cup {line.slot} |->
                             IF s # line.slot THEN slots[s]
                             ELSE [named |-> line.named, args |-> <<n>>]]
              /\ UNCHANGED text
         [] OTHER -> UNCHANGED <<text, slots>>

\* processLine
Parsed(n) ==
    LET line == wire[n]
        old  == IF line.slot \in DOMAIN slots THEN slots[line.slot]
                ELSE [named |-> FALSE, args |-> <<>>]
    IN CASE line.kind = "text" -> text' = Append(text, n) /\ UNCHANGED slots
         [] line.kind = "call" ->
              /\ slots' = [s \in DOMAIN slots \cup {line.slot} |->
                             IF s # line.slot THEN slots[s]
                             ELSE [named |-> old.named \/ line.named,
                                   args  |-> Append(old.args, n)]]
              /\ UNCHANGED text
         [] OTHER -> UNCHANGED <<text, slots>>

\* Defect: [DONE] ends the answer at once.
TakeAndLeave ==
    /\ Producer("sending", "scanning")
    /\ IF wire[seen].kind = "done"
       THEN /\ phase' = "returned" /\ outcome' = "ok"
            /\ UNCHANGED <<text, slots>>
       ELSE phase' = "reading" /\ Parsed(seen) /\ UNCHANGED outcome
    /\ UNCHANGED <<calling, attempt, wire, tail, seen, errCh, drainer, budget,
                   timeout, overBudget>>

\* Defect: after [DONE] the error is awaited and nobody takes the lines.
TakeAndWait ==
    /\ Producer("sending", "scanning")
    /\ IF wire[seen].kind = "done"
       THEN phase' = "draining" /\ UNCHANGED <<text, slots>>
       ELSE phase' = "reading" /\ Parsed(seen)
    /\ UNCHANGED <<calling, attempt, wire, tail, seen, errCh, drainer, budget,
                   timeout, outcome, overBudget>>

\* After [DONE] somebody has to take the rest, or the producer blocks.
Take ==
    /\ Producer("sending", "scanning")
    /\ IF wire[seen].kind = "done"
       THEN phase' = "draining" /\ drainer' = TRUE /\ UNCHANGED <<text, slots>>
       ELSE phase' = "reading" /\ Parsed(seen) /\ UNCHANGED drainer
    /\ UNCHANGED <<calling, attempt, wire, tail, seen, errCh, budget, timeout,
                   outcome, overBudget>>

FirstLine == phase = "first" /\ Take
NextLine  == phase = "reading" /\ Take

NothingSent ==
    /\ phase = "first" /\ producer[attempt] = "done"
    /\ GiveUp("retry")
    /\ UNCHANGED <<calling, producer, overBudget>>

\* ttftCtx is done.  The producer finds the body closed, but a line it holds,
\* or reads from its buffer first, nobody takes.
FirstLineLate ==
    /\ phase = "first" /\ (~budget \/ cancelled)
    /\ \E state \in IF producer[attempt] # "scanning" THEN {producer[attempt]}
                    ELSE IF seen < Len(wire) THEN {"sending", "done"} ELSE {"done"} :
          producer' = [producer EXCEPT ![attempt] = state]
    /\ overBudget' = overBudget \cup {attempt}
    /\ GiveUp("retry")
    /\ UNCHANGED calling

Drain ==
    /\ drainer
    /\ Producer("sending", "scanning")
    /\ UNCHANGED <<calling, attempt, phase, connection, outcome, overBudget>>

\* Defect: an answer that breaks off is asked of the next model.
StreamOverAgain ==
    /\ \/ phase = "reading" /\ producer[attempt] = "done"
       \/ phase = "draining" /\ errCh # "empty"
    /\ GiveUp(IF errCh = "broken" THEN "retry" ELSE errCh)
    /\ UNCHANGED <<calling, producer, overBudget>>

\* The lines are closed, or [DONE] was read: the error channel decides.
\* A scanner error is not retryable, and a cancelled context shows as itself.
StreamOver ==
    /\ \/ phase = "reading" /\ producer[attempt] = "done"
       \/ phase = "draining" /\ errCh # "empty"
    /\ GiveUp(IF errCh = "broken" THEN "error" ELSE errCh)
    /\ UNCHANGED <<calling, producer, overBudget>>

-----------------------------------------------------------------------------
Caller == \/ Request \/ ConnectFails \/ BadStatus \/ NotEvents \/ StreamBegins
          \/ ConsumeOneShot \/ FirstLine \/ NextLine \/ NothingSent
          \/ FirstLineLate \/ StreamOver
Scanner == ScanLine \/ ScanEnds
Environment == ServerSends \/ ServerEnds \/ Cancel

Next == \/ Caller \/ Scanner \/ Drain \/ Environment
        \/ BudgetRunsOut \/ RequestTimesOut

Spec == Init /\ [][Next]_vars

\* Goroutines run, timers go off; nothing is asked of the server.
FairSpec == /\ Spec
            /\ WF_vars(Caller) /\ WF_vars(Scanner) /\ WF_vars(Drain)
            /\ WF_vars(RequestTimesOut)

-----------------------------------------------------------------------------
(* Properties.                                                             *)

TypeOK ==
    /\ op \in {"chat", "send"} /\ stream \in BOOLEAN /\ cancelled \in BOOLEAN
    /\ attempt \in Attempt
    /\ phase \in {"next", "connecting", "first", "reading", "draining", "returned"}
    /\ wire \in Seq(Line) /\ seen \in 0..Len(wire)
    /\ tail \in {"open", "eof", "broken"}
    /\ errCh \in {"empty", "ok", "broken", "cancelled"}
    /\ drainer \in BOOLEAN /\ budget \in BOOLEAN /\ timeout \in BOOLEAN
    /\ text \in Seq(1..Len(wire))
    /\ DOMAIN slots \subseteq Slot
    /\ producer \in [Attempt -> {"off", "scanning", "sending", "done"}]
    /\ outcome \in {"none", "ok", "retry", "overflow", "error", "cancelled"}
    /\ overBudget \subseteq Attempt

\* buildResponse: a call whose name never came is dropped.
Response == [text  |-> text,
             calls |-> [s \in {t \in DOMAIN slots : slots[t].named} |-> slots[s].args]]

BeforeDone == {n \in DOMAIN wire : \A m \in 1..n : wire[m].kind # "done"}
TextLines    == {n \in BeforeDone : wire[n].kind = "text"}
CallLines(s) == {n \in BeforeDone : wire[n].kind = "call" /\ wire[n].slot = s}

\* numbers has each of lines once, in order.
InOrder(numbers, lines) ==
    /\ {numbers[i] : i \in DOMAIN numbers} = lines
    /\ \A i, j \in DOMAIN numbers : i < j => numbers[i] < numbers[j]

\* A streamed answer is handed on as it was sent, up to [DONE]: every piece of
\* text once and in order, and for each index the pieces of its arguments, however
\* the calls are interleaved and wherever among them the name stood.
ResponseIsTheStream ==
    outcome = "ok" /\ stream =>
        /\ InOrder(Response.text, TextLines)
        /\ DOMAIN Response.calls = {s \in Slot : \E n \in CallLines(s) : wire[n].named}
        /\ \A s \in DOMAIN Response.calls : InOrder(Response.calls[s], CallLines(s))

\* No model is asked once another one's output was read: what the fallback
\* chain gives up never includes a part of an answer.
NoRetryAfterOutput == [][attempt' # attempt => text = <<>> /\ slots = <<>>]_vars

\* A producer goroutine outlives its attempt only where the first line raced
\* the budget for it; on every other way out, [DONE] included, it has ended.
Over(k) == k < attempt \/ phase = "returned"
ProducerEnds == \A k \in Attempt : Over(k) => \/ producer[k] \in {"off", "done"}
                                              \/ k \in overBudget

\* Whatever the server does, the call returns: reading on after [DONE] never
\* waits for a producer that waits for it.
ChatReturns == <>(phase = "returned")
===============================================================================
