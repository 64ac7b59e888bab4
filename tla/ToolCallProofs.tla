---------------------------- MODULE ToolCallProofs ----------------------------
(***************************************************************************)
(* Theorems of ToolCall, for any capacity of the pipes and any number of   *)
(* chunks: the types of its variables, and that the result a streaming     *)
(* tool leaves is whole.                                                   *)
(***************************************************************************)
EXTENDS ToolCall, FiniteSetTheorems, TLAPS

-----------------------------------------------------------------------------
(***************************************************************************)
(* Where a call stands, in the parts that do not look at the stream: the   *)
(* body runs again only after an error, and the goroutines and the child   *)
(* start together.                                                         *)
(***************************************************************************)
RunsCounted ==
    /\ phase = "resolve" => runs = 0
    /\ phase \in {"streaming", "again"} => runs = 1

\* Before the tool is found nothing is under way.
NotBegun ==
    phase = "resolve" =>
        /\ waiter = "off" /\ child = "none" /\ ~expired /\ result = "none" /\ ~header
        /\ scratch = <<>>
        /\ \A p \in Pipe : drainer[p] = "off" /\ written[p] = 0 /\ pipe[p] = <<>>

\* What a child left behind is there only after it.
ChildFirst == child = "none" => ~kept

\* The drainers are there for a child; the one who closes the channel waits
\* for them first.
DrainersFirst ==
    /\ waiter \notin {"off", "draining"} => \A p \in Pipe : drainer[p] \in {"off", "done"}
    /\ waiter \in {"off", "reading", "error"} => \A p \in Pipe : drainer[p] = "off"
    /\ waiter = "draining" => \A p \in Pipe : drainer[p] # "off"
    /\ \A p \in Pipe : drainer[p] = "off" => child = "none" /\ pipe[p] = <<>>
    /\ expired => waiter \in {"draining", "waiting", "late", "closed"}
    /\ result = "file" => phase = "returned" /\ waiter = "closed"

(***************************************************************************)
(* What the scratch file holds while the executor still reads the channel. *)
(***************************************************************************)
Streams == phase = "streaming" \/ result = "file"

Got(p) == Received(p, Len(scratch))

\* The k-th line of a pipe is its k-th chunk.
LinesInPlace ==
    \A i \in 1..Len(scratch) : scratch[i].from \in Pipe =>
        /\ scratch[i].chunk = Received(scratch[i].from, i)
        /\ scratch[i].head <=> (scratch[i].chunk = 1 /\ scratch[i].from = "stderr")

\* What was written to a pipe is in the file, in the drainer's hand or in the
\* pipe, in this order; once the context is done its drainer may have dropped
\* the chunk it held and left, and so it may when a read failed.
PipeInOrder(p) ==
    /\ drainer[p] = "off" => \/ Got(p) = written[p]
                             \/ (waiter = "reading" /\ p = "stdout")
                             \/ cancelled \/ p \in broken
    /\ drainer[p] = "reading" =>
          /\ written[p] = Got(p) + Len(pipe[p])
          /\ \A k \in 1..Len(pipe[p]) : pipe[p][k] = Got(p) + k
    /\ drainer[p] = "holding" =>
          /\ held[p] = Got(p) + 1
          /\ written[p] = Got(p) + 1 + Len(pipe[p])
          /\ \A k \in 1..Len(pipe[p]) : pipe[p][k] = Got(p) + 1 + k
    /\ drainer[p] = "done" => \/ Done \/ p \in broken
                              \/ (Got(p) = written[p] /\ child # "running" /\ ~kept)

\* The header goes with the first piece of stderr.
HeaderOnce == drainer["stderr"] # "done" => (header <=> Got("stderr") > 0)

\* The file of read_file has nothing but its chunks.
OnlyRead == waiter = "reading" =>
    /\ \A i \in 1..Len(scratch) : scratch[i].from = "stdout"
    /\ written["stderr"] = 0

\* The line about the end comes last, and is there if time ran out.
EndLineLast ==
    /\ \A i \in 1..Len(scratch) :
          scratch[i].from \in Pipe \/ (i = Len(scratch) /\ waiter = "closed")
    /\ waiter = "closed" /\ expired => \E i \in 1..Len(scratch) : scratch[i].from = "late"

StreamInv ==
    Streams => /\ LinesInPlace
               /\ \A p \in Pipe : PipeInOrder(p)
               /\ HeaderOnce
               /\ OnlyRead
               /\ EndLineLast

\* The types, in three parts.
CallTyped ==
    /\ tool \in {"inline", "exec", "read"}
    /\ phase \in {"resolve", "streaming", "again", "returned"}
    /\ result \in {"none", "invalid", "text", "error", "file"}
    /\ runs \in 0..2

ChildTyped ==
    /\ expired \in BOOLEAN /\ cancelled \in BOOLEAN /\ broken \subseteq Pipe
    /\ child \in {"none", "running", "exited", "failed"} /\ kept \in BOOLEAN
    /\ waiter \in {"off", "reading", "draining", "waiting", "error", "late", "code", "closed"}

StreamTyped ==
    /\ written \in [Pipe -> 0..MaxChunks]
    /\ pipe \in [Pipe -> Seq(1..MaxChunks)] /\ \A p \in Pipe : Len(pipe[p]) <= PipeCap
    /\ drainer \in [Pipe -> {"off", "reading", "holding", "done"}]
    /\ held \in [Pipe -> 0..MaxChunks] /\ header \in BOOLEAN
    /\ scratch \in Seq(Chunk)

CallInv == TypeOK /\ RunsCounted /\ NotBegun /\ ChildFirst /\ DrainersFirst

WholeInv == CallInv /\ StreamInv

-----------------------------------------------------------------------------
(***************************************************************************)
(* The types, and where a call stands.                                     *)
(***************************************************************************)
LEMMA TypeParts == TypeOK <=> CallTyped /\ ChildTyped /\ StreamTyped
  BY DEF TypeOK, CallTyped, ChildTyped, StreamTyped

\* A call begins well typed.
LEMMA CallInvInit == Init => CallInv
<1> SUFFICES ASSUME Init PROVE CallInv
  OBVIOUS
<1>0. CallTyped
  BY DEF Init, CallTyped
<1>1. ChildTyped
  BY DEF Init, ChildTyped
<1>2. StreamTyped
  <2>1. pipe \in [Pipe -> Seq(1..MaxChunks)] /\ scratch \in Seq(Chunk)
    BY DEF Init
  <2>2. \A p \in Pipe : Len(pipe[p]) <= PipeCap
    BY ToolCallConstants DEF Init, ToolCallConstants
  <2>3. written \in [Pipe -> 0..MaxChunks] /\ held \in [Pipe -> 0..MaxChunks]
    BY ToolCallConstants DEF Init, ToolCallConstants
  <2>4. drainer \in [Pipe -> {"off", "reading", "holding", "done"}] /\ header \in BOOLEAN
    BY DEF Init
  <2>5. QED
    BY <2>1, <2>2, <2>3, <2>4 DEF StreamTyped
<1>3. RunsCounted /\ ChildFirst
  BY DEF Init, RunsCounted, ChildFirst
<1>4. NotBegun
  BY DEF Init, NotBegun
<1>5. DrainersFirst
  BY DEF Init, DrainersFirst
<1>6. QED
  BY <1>0, <1>1, <1>2, <1>3, <1>4, <1>5, TypeParts DEF CallInv

\* A last line is in the types, and so is a chunk.
LEMMA ReceiveTyped ==
    ASSUME StreamTyped, NEW from \in Pipe \cup {"error", "late", "code"},
           NEW chunk \in 0..MaxChunks, NEW head \in BOOLEAN,
           Receive(from, chunk, head)
    PROVE  /\ scratch' \in Seq(Chunk)
           /\ phase = "streaming" /\ phase' \in {"streaming", "again"}
           /\ UNCHANGED <<tool, result, runs>>
<1>1. [from |-> from, chunk |-> chunk, head |-> head] \in Chunk
  BY DEF Chunk
<1>2. scratch \in Seq(Chunk)
  BY DEF StreamTyped
<1>3. scratch' \in Seq(Chunk)
  BY <1>1, <1>2 DEF Receive
<1>4. QED
  BY <1>3 DEF Receive

\* One pass over the actions, shared by the proofs below.
LEMMA NextCases ==
    ASSUME [Next]_vars
    PROVE  \/ ResolveFails \/ RunInline \/ ReadBegins \/ ExecBegins
           \/ ScratchFails \/ StreamReturns \/ RunAgain
           \/ \E p \in Pipe : Read(p) \/ ReadEnds(p) \/ ReadFails(p) \/ Emit(p) \/ Write(p)
           \/ BothDrained \/ ChildEnded \/ SendLast \/ SendRead \/ ReadOver \/ FileFails
           \/ Kill \/ Exit \/ RestExits \/ Expire \/ Cancel
           \/ UNCHANGED vars
  BY DEF Next, Resolve, Executor, Drainer, Waiter, World

\* Which error led to the second run does not matter: there is none after it.
LEMMA CallTypedStep ==
    CallTyped /\ RunsCounted /\ [Next]_vars => CallTyped' /\ RunsCounted'
<1> SUFFICES ASSUME CallTyped, RunsCounted, [Next]_vars PROVE CallTyped' /\ RunsCounted'
  OBVIOUS
<1> USE DEF CallTyped, RunsCounted, call
<1>1. CASE ResolveFails
  BY <1>1 DEF ResolveFails
<1>2. CASE RunInline
  BY <1>2 DEF RunInline
<1>3. CASE ReadBegins
  BY <1>3 DEF ReadBegins
<1>4. CASE ExecBegins
  BY <1>4 DEF ExecBegins
<1>5. CASE ScratchFails
  BY <1>5 DEF ScratchFails
<1>6. CASE StreamReturns
  BY <1>6 DEF StreamReturns
<1>7. CASE RunAgain
  BY <1>7 DEF RunAgain
<1>8. CASE \/ \E p \in Pipe : Read(p) \/ ReadEnds(p) \/ ReadFails(p) \/ Write(p)
           \/ BothDrained \/ ChildEnded \/ ReadOver \/ FileFails
           \/ Kill \/ Exit \/ RestExits \/ Expire \/ Cancel \/ UNCHANGED vars
  <2>1. UNCHANGED call
    BY <1>8 DEF Read, ReadEnds, ReadFails, Write, BothDrained, ChildEnded, ReadOver,
                FileFails, Kill, Exit, RestExits, Expire, Cancel, vars
  <2>2. QED
    BY <2>1
<1>9. CASE \/ \E p \in Pipe : Emit(p)
           \/ SendLast \/ SendRead
  <2>1. \/ UNCHANGED call
        \/ /\ phase = "streaming" /\ phase' \in {"streaming", "again"}
           /\ UNCHANGED <<tool, result, runs>>
    BY <1>9 DEF Emit, SendLast, SendRead, Receive
  <2>2. QED
    BY <2>1
<1>10. QED
  BY <1>1, <1>2, <1>3, <1>4, <1>5, <1>6, <1>7, <1>8, <1>9, NextCases

\* The child runs once; a process it left behind comes after it.
LEMMA ChildTypedStep ==
    ChildTyped /\ ChildFirst /\ [Next]_vars => ChildTyped' /\ ChildFirst'
<1> SUFFICES ASSUME ChildTyped, ChildFirst, [Next]_vars PROVE ChildTyped' /\ ChildFirst'
  OBVIOUS
<1> USE DEF ChildTyped, ChildFirst, faults, process
<1>1. CASE ReadBegins
  BY <1>1 DEF ReadBegins
<1>2. CASE ExecBegins
  BY <1>2 DEF ExecBegins
<1>3. CASE \/ ResolveFails \/ RunInline \/ ScratchFails \/ StreamReturns \/ RunAgain
           \/ \E p \in Pipe : Read(p) \/ ReadEnds(p) \/ ReadFails(p) \/ Emit(p) \/ Write(p)
           \/ SendRead \/ UNCHANGED vars
  <2>1. UNCHANGED <<expired, cancelled, child, kept, waiter>> /\ broken' \subseteq Pipe
    BY <1>3 DEF ResolveFails, RunInline, ScratchFails, StreamReturns, RunAgain,
                Read, ReadEnds, ReadFails, Emit, Write, SendRead, vars
  <2>2. QED
    BY <2>1
<1>4. CASE BothDrained \/ ReadOver \/ FileFails \/ SendLast
  <2>1. /\ UNCHANGED <<expired, cancelled, child, kept>> /\ broken' \subseteq Pipe
        /\ waiter' \in {"waiting", "closed"}
    BY <1>4 DEF BothDrained, ReadOver, FileFails, SendLast, Waits, Pipe
  <2>2. QED
    BY <2>1
<1>5. CASE ChildEnded
  <2>1. waiter' \in {"late", "code", "closed"}
    BY <1>5 DEF ChildEnded, Waits
  <2>2. QED
    BY <1>5, <2>1 DEF ChildEnded
<1>6. CASE Kill \/ Exit
  <2>1. /\ child' \in {"exited", "failed"} /\ kept' \in BOOLEAN
        /\ UNCHANGED <<expired, cancelled, broken, waiter>>
    BY <1>6 DEF Kill, Exit
  <2>2. QED
    BY <2>1
<1>7. CASE RestExits
  BY <1>7 DEF RestExits
<1>8. CASE Expire
  BY <1>8 DEF Expire
<1>9. CASE Cancel
  BY <1>9 DEF Cancel
<1>10. QED
  BY <1>1, <1>2, <1>3, <1>4, <1>5, <1>6, <1>7, <1>8, <1>9, NextCases


\* What the pipes, the drainers and the file hold are chunks.
LEMMA StreamTypedStep ==
    StreamTyped /\ [Next]_vars => StreamTyped'
<1> SUFFICES ASSUME StreamTyped, [Next]_vars PROVE StreamTyped'
  OBVIOUS
<1>0. MaxChunks \in Nat /\ PipeCap \in Nat
  BY ToolCallConstants DEF ToolCallConstants
<1> USE DEF StreamTyped, process, drains
<1>1. CASE ReadBegins
  BY <1>0, <1>1 DEF ReadBegins
<1>2. CASE ExecBegins
  BY <1>2 DEF ExecBegins
<1>3. CASE \/ ResolveFails \/ RunInline \/ ScratchFails \/ StreamReturns \/ RunAgain
           \/ BothDrained \/ ChildEnded \/ ReadOver \/ FileFails
           \/ Kill \/ Exit \/ RestExits \/ Expire \/ Cancel \/ UNCHANGED vars
  <2>1. UNCHANGED <<written, pipe, drainer, held, header, scratch>>
    BY <1>3 DEF ResolveFails, RunInline, ScratchFails, StreamReturns, RunAgain, call,
                BothDrained, ChildEnded, ReadOver, FileFails, Kill, Exit, RestExits, Expire, Cancel, vars
  <2>2. QED
    BY <2>1
<1>4. ASSUME NEW p \in Pipe, Read(p) PROVE StreamTyped'
  <2>1. /\ pipe[p] \in Seq(1..MaxChunks) /\ pipe[p] # <<>> /\ Len(pipe[p]) <= PipeCap
        /\ held' = [held EXCEPT ![p] = Head(pipe[p])]
        /\ pipe' = [pipe EXCEPT ![p] = Tail(pipe[p])]
        /\ drainer' = [drainer EXCEPT ![p] = "holding"]
        /\ UNCHANGED <<written, header, scratch>>
    BY <1>4 DEF Read, Drains
  <2>2. /\ Head(pipe[p]) \in 0..MaxChunks
        /\ Tail(pipe[p]) \in Seq(1..MaxChunks)
        /\ Len(Tail(pipe[p])) <= PipeCap
    BY <1>0, <2>1
  <2>3. /\ held' \in [Pipe -> 0..MaxChunks]
        /\ drainer' \in [Pipe -> {"off", "reading", "holding", "done"}]
    BY <2>1, <2>2
  <2>4. pipe' \in [Pipe -> Seq(1..MaxChunks)] /\ \A q \in Pipe : Len(pipe'[q]) <= PipeCap
    BY <2>1, <2>2
  <2>5. QED
    BY <2>1, <2>3, <2>4
<1>5. ASSUME NEW p \in Pipe, ReadEnds(p) \/ ReadFails(p) PROVE StreamTyped'
  <2>1. CASE ReadEnds(p)
    BY <2>1 DEF ReadEnds, Drains
  <2>2. CASE ReadFails(p)
    <3>1. /\ drainer' = [drainer EXCEPT ![p] = "done"]
          /\ pipe' = [pipe EXCEPT ![p] = <<>>]
          /\ UNCHANGED <<written, held, header, scratch>>
      BY <2>2 DEF ReadFails, Drains
    <3>2. pipe' \in [Pipe -> Seq(1..MaxChunks)] /\ \A q \in Pipe : Len(pipe'[q]) <= PipeCap
      BY <1>0, <3>1
    <3>3. QED
      BY <3>1, <3>2
  <2>3. QED
    BY <1>5, <2>1, <2>2
<1>6. ASSUME NEW p \in Pipe, Emit(p) PROVE StreamTyped'
  <2>1. /\ drainer' = [drainer EXCEPT ![p] = IF Done THEN "done" ELSE "reading"]
        /\ held' = [held EXCEPT ![p] = 0]
        /\ header' = (header \/ p = "stderr")
        /\ UNCHANGED <<written, pipe>>
    BY <1>6 DEF Emit, Drains
  <2>2. scratch' \in Seq(Chunk)
    <3>1. CASE UNCHANGED scratch
      BY <3>1
    <3>2. CASE Receive(p, held[p], p = "stderr" /\ ~header)
      BY <3>2, ReceiveTyped
    <3>3. QED
      BY <1>6, <3>1, <3>2 DEF Emit
  <2>3. held' \in [Pipe -> 0..MaxChunks]
    BY <1>0, <2>1
  <2>4. header' \in BOOLEAN
    BY <2>1
  <2>5. drainer' \in [Pipe -> {"off", "reading", "holding", "done"}]
    BY <2>1
  <2>6. QED
    BY <2>1, <2>2, <2>3, <2>4, <2>5
<1>7. ASSUME NEW p \in Pipe, Write(p) PROVE StreamTyped'
  <2>1. /\ written[p] + 1 \in 1..MaxChunks /\ written[p] \in Nat
        /\ pipe[p] \in Seq(1..MaxChunks) /\ Len(pipe[p]) < PipeCap
        /\ written' = [written EXCEPT ![p] = written[p] + 1]
        /\ UNCHANGED <<drainer, held, header, scratch>>
    BY <1>0, <1>7 DEF Write
  <2>2. pipe' = [pipe EXCEPT ![p] = Append(pipe[p], written[p] + 1)]
    BY <1>7, <2>1 DEF Write
  <2>3. /\ Append(pipe[p], written[p] + 1) \in Seq(1..MaxChunks)
        /\ Len(Append(pipe[p], written[p] + 1)) <= PipeCap
    BY <1>0, <2>1
  <2>4. pipe' \in [Pipe -> Seq(1..MaxChunks)] /\ \A q \in Pipe : Len(pipe'[q]) <= PipeCap
    BY <2>2, <2>3
  <2>5. written' \in [Pipe -> 0..MaxChunks]
    BY <2>1
  <2>6. QED
    BY <2>1, <2>4, <2>5
<1>8. CASE SendLast
  <2>1. scratch' \in Seq(Chunk)
    <3>1. waiter \in Pipe \cup {"error", "late", "code"} /\ Receive(waiter, 0, FALSE)
      BY <1>8 DEF SendLast
    <3>2. 0 \in 0..MaxChunks /\ FALSE \in BOOLEAN
      BY <1>0
    <3>3. QED
      BY <3>1, <3>2, ReceiveTyped
  <2>2. QED
    BY <1>8, <2>1 DEF SendLast
<1>9. CASE SendRead
  <2>1. written["stdout"] \in 0..MaxChunks /\ Len(scratch) \in Nat
    BY <1>0 DEF Pipe
  <2>2. Len(scratch) + 1 \in 0..MaxChunks
    BY <1>0, <1>9, <2>1 DEF SendRead
  <2>3. scratch' \in Seq(Chunk)
    BY <1>9, <2>2, ReceiveTyped DEF SendRead, Pipe
  <2>4. QED
    BY <1>9, <2>3 DEF SendRead
<1>10. QED
  BY <1>1, <1>2, <1>3, <1>4, <1>5, <1>6, <1>7, <1>8, <1>9, NextCases

\* Nothing but the tool's own beginning leaves the first phase.
LEMMA NotBegunStep ==
    NotBegun /\ DrainersFirst /\ ChildFirst /\ [Next]_vars => NotBegun'
<1> SUFFICES ASSUME NotBegun, DrainersFirst, ChildFirst, [Next]_vars,
                    phase' = "resolve"
             PROVE  NotBegun'
  BY DEF NotBegun
<1>1. phase = "resolve"
  BY DEF Next, Resolve, Executor, Drainer, Waiter, World, ResolveFails, RunInline,
         ReadBegins, ExecBegins, ScratchFails, StreamReturns, RunAgain, Read, ReadEnds,
         ReadFails, Emit, Receive, Write, BothDrained, ChildEnded, SendLast, SendRead,
         ReadOver, FileFails, Kill, Exit, RestExits, Expire, Cancel, vars, call
<1>2. /\ waiter = "off" /\ child = "none" /\ ~expired /\ result = "none" /\ ~kept /\ ~header
      /\ scratch = <<>>
      /\ \A p \in Pipe : drainer[p] = "off" /\ written[p] = 0 /\ pipe[p] = <<>>
  BY <1>1 DEF NotBegun, ChildFirst
<1>3. Cancel \/ UNCHANGED vars
  <2>1. ~ \E p \in Pipe : Read(p) \/ ReadEnds(p) \/ ReadFails(p) \/ Emit(p) \/ Write(p)
    BY <1>2 DEF Read, ReadEnds, ReadFails, Emit, Write, Drains
  <2>2. ~ (BothDrained \/ ChildEnded \/ SendLast \/ SendRead \/ ReadOver \/ FileFails)
    BY <1>2 DEF BothDrained, ChildEnded, SendLast, SendRead, ReadOver, FileFails, Waits
  <2>3. ~ (Kill \/ Exit \/ RestExits \/ Expire)
    BY <1>2 DEF Kill, Exit, RestExits, Expire
  <2>4. ~ (ResolveFails \/ RunInline \/ ReadBegins \/ ExecBegins)
    BY <1>1 DEF ResolveFails, RunInline, ReadBegins, ExecBegins
  <2>5. ~ (ScratchFails \/ StreamReturns \/ RunAgain)
    BY <1>1 DEF ScratchFails, StreamReturns, RunAgain
  <2>6. QED
    BY <2>1, <2>2, <2>3, <2>4, <2>5, NextCases
<1>4. UNCHANGED <<waiter, child, expired, result, header, scratch, drainer, written, pipe>>
  BY <1>3 DEF Cancel, vars, call, process, drains, faults
<1>5. QED
  BY <1>2, <1>4 DEF NotBegun


\* The channel is closed after the drainers are done, and these are there
\* only with a child.
LEMMA DrainersFirstStep ==
    CallTyped /\ ChildTyped /\ StreamTyped /\ NotBegun /\ ChildFirst /\ DrainersFirst
        /\ [Next]_vars => DrainersFirst'
<1> SUFFICES ASSUME CallTyped, ChildTyped, StreamTyped, NotBegun, ChildFirst,
                    DrainersFirst, [Next]_vars
             PROVE  DrainersFirst'
  OBVIOUS
<1>0. /\ drainer \in [Pipe -> {"off", "reading", "holding", "done"}]
      /\ DOMAIN pipe = Pipe
      /\ "stdout" \in Pipe /\ "stderr" \in Pipe
  BY DEF StreamTyped, Pipe
<1>1. CASE \/ ResolveFails \/ RunInline
  <2>1. /\ UNCHANGED <<expired, child, waiter, drainer, pipe>> /\ result' # "file"
    BY <1>1 DEF ResolveFails, RunInline, NotBegun, faults, process, drains
  <2>2. QED
    BY <2>1 DEF DrainersFirst
<1>2. CASE ReadBegins
  <2>1. /\ UNCHANGED <<expired, child, drainer, pipe, result>>
        /\ waiter' \in {"error", "reading"} /\ phase = "resolve" /\ phase' = "streaming"
    BY <1>2 DEF ReadBegins, faults, drains
  <2>2. QED
    BY <2>1 DEF DrainersFirst, NotBegun
<1>3. CASE ExecBegins
  <2>1. /\ UNCHANGED <<expired, pipe, result>> /\ phase = "resolve" /\ phase' = "streaming"
        /\ \/ waiter' = "error" /\ UNCHANGED <<child, drainer>>
           \/ /\ waiter' = "draining"
              /\ drainer' = [p \in Pipe |-> "reading"]
    BY <1>3 DEF ExecBegins, faults
  <2>2. QED
    BY <2>1 DEF DrainersFirst, NotBegun
<1>4. CASE ScratchFails \/ RunAgain
  <2>1. /\ UNCHANGED <<expired, child, waiter, drainer, pipe>>
        /\ result' # "file"
    BY <1>4 DEF ScratchFails, RunAgain, faults, process, drains, DrainersFirst
  <2>2. QED
    BY <2>1 DEF DrainersFirst
<1>5. CASE StreamReturns
  <2>1. UNCHANGED <<expired, child, waiter, drainer, pipe>>
    BY <1>5 DEF StreamReturns, faults, process, drains
  <2>2. phase' = "returned" /\ waiter' = "closed"
    BY <1>5 DEF StreamReturns
  <2>3. QED
    BY <2>1, <2>2 DEF DrainersFirst
<1>6. ASSUME NEW p \in Pipe, Read(p) \/ ReadEnds(p) \/ ReadFails(p) \/ Emit(p)
      PROVE  DrainersFirst'
  <2>1. /\ drainer[p] \in {"reading", "holding"}
        /\ \E to \in {"reading", "holding", "done"} : drainer' = [drainer EXCEPT ![p] = to]
        /\ \E s : pipe' = [pipe EXCEPT ![p] = s]
        /\ UNCHANGED <<expired, child, waiter>>
        /\ phase' # phase => phase = "streaming"
        /\ UNCHANGED result
    <3>1. CASE Read(p)
      BY <1>0, <3>1 DEF Read, Drains, faults, process, call
    <3>2. CASE ReadEnds(p)
      <4>1. pipe' = [pipe EXCEPT ![p] = pipe[p]]
        BY <1>0, <3>2 DEF ReadEnds, StreamTyped
      <4>2. QED
        BY <1>0, <3>2, <4>1 DEF ReadEnds, Drains, faults, process, call
    <3>3. CASE Emit(p)
      <4>1. pipe' = [pipe EXCEPT ![p] = pipe[p]]
        BY <1>0, <3>3 DEF Emit, StreamTyped
      <4>2. QED
        BY <1>0, <3>3, <4>1 DEF Emit, Drains, faults, process, call, Receive
    <3>4. CASE ReadFails(p)
      BY <1>0, <3>4 DEF ReadFails, Drains, process, call
    <3>5. QED
      BY <1>6, <3>1, <3>2, <3>3, <3>4
  <2>2. waiter = "draining"
    BY <2>1 DEF DrainersFirst, ChildTyped, NotBegun
  <2>3. result' # "file"
    BY <2>1, <2>2 DEF DrainersFirst
  <2>4. \A q \in Pipe : drainer'[q] # "off"
    BY <1>0, <2>1, <2>2 DEF DrainersFirst
  <2>5. QED
    BY <2>1, <2>2, <2>3, <2>4 DEF DrainersFirst
<1>7. ASSUME NEW p \in Pipe, Write(p) PROVE DrainersFirst'
  <2>1. /\ UNCHANGED <<expired, child, waiter, drainer, result, phase>>
        /\ \A q \in Pipe : q # p => pipe'[q] = pipe[q]
    BY <1>0, <1>7 DEF Write, call, faults, drains
  <2>2. drainer[p] # "off"
    BY <1>7 DEF Write, ChildFirst, DrainersFirst
  <2>3. QED
    BY <2>1, <2>2 DEF DrainersFirst
<1>8. CASE BothDrained
  <2>1. /\ UNCHANGED <<expired, child, drainer, pipe, result, phase>>
        /\ waiter = "draining" /\ waiter' = "waiting" /\ \A p \in Pipe : drainer[p] = "done"
    BY <1>8 DEF BothDrained, Waits, call, faults, process, drains
  <2>2. QED
    BY <2>1 DEF DrainersFirst
<1>9. CASE ChildEnded
  <2>1. /\ UNCHANGED <<expired, child, drainer, pipe, result, phase>>
        /\ waiter = "waiting" /\ waiter' \in {"late", "code", "closed"}
        /\ expired => waiter' = "late"
    BY <1>9 DEF ChildEnded, Waits, call, faults, process, drains
  <2>2. QED
    BY <2>1 DEF DrainersFirst
<1>10. CASE SendLast \/ ReadOver \/ FileFails
  <2>1. /\ UNCHANGED <<expired, child, drainer, pipe, result>>
        /\ waiter \in {"error", "late", "code", "reading"} /\ waiter' = "closed"
    BY <1>10 DEF SendLast, ReadOver, FileFails, Receive, Waits, call, faults, process, drains
  <2>2. QED
    BY <2>1 DEF DrainersFirst
<1>11. CASE SendRead
  <2>1. /\ UNCHANGED <<expired, child, drainer, pipe, result, waiter>> /\ waiter = "reading"
    BY <1>11 DEF SendRead, Receive, call, faults, process, drains
  <2>2. QED
    BY <2>1 DEF DrainersFirst
<1>12. CASE Kill \/ Exit
  <2>1. /\ UNCHANGED <<expired, waiter, drainer, pipe, result, phase>> /\ child = "running"
    BY <1>12 DEF Kill, Exit, call, faults, drains
  <2>2. QED
    BY <2>1 DEF DrainersFirst
<1>13. CASE RestExits \/ Cancel \/ UNCHANGED vars
  <2>1. /\ UNCHANGED <<expired, waiter, drainer, pipe, result, phase, child>>
    BY <1>13 DEF RestExits, Cancel, vars, call, faults, drains, process
  <2>2. QED
    BY <2>1 DEF DrainersFirst
<1>14. CASE Expire
  <2>1. /\ UNCHANGED <<waiter, drainer, pipe, result, phase, child>>
        /\ waiter \in {"draining", "waiting"}
    BY <1>14 DEF Expire, call, drains, process
  <2>2. QED
    BY <2>1 DEF DrainersFirst
<1>15. QED
  BY <1>1, <1>2, <1>3, <1>4, <1>5, <1>6, <1>7, <1>8, <1>9, <1>10, <1>11, <1>12,
     <1>13, <1>14, NextCases

\* The parts together.
LEMMA CallInvStep == CallInv /\ [Next]_vars => CallInv'
<1>1. CallInv <=> /\ CallTyped /\ ChildTyped /\ StreamTyped
                  /\ RunsCounted /\ NotBegun /\ ChildFirst /\ DrainersFirst
  BY TypeParts DEF CallInv
<1>2. CallTyped' /\ ChildTyped' /\ StreamTyped' => TypeOK'
  BY DEF TypeOK, CallTyped, ChildTyped, StreamTyped
<1>3. QED
  BY <1>1, <1>2, CallTypedStep, ChildTypedStep, StreamTypedStep, NotBegunStep,
     DrainersFirstStep DEF CallInv

\* Every variable of a tool call has its type: in particular a tool's body
\* runs at most twice, whatever fails.
THEOREM TypeCorrect == Spec => []TypeOK
<1>1. CallInv => TypeOK
  BY DEF CallInv
<1>2. QED
  BY <1>1, CallInvInit, CallInvStep, PTL DEF Spec

-----------------------------------------------------------------------------
(***************************************************************************)
(* Counting lines.                                                         *)
(***************************************************************************)

\* A count is a natural number, at most that of the lines looked at.
LEMMA ReceivedIsNat ==
    ASSUME NEW p, NEW n \in Nat
    PROVE  Received(p, n) \in 0..n
<1> DEFINE S == {i \in 1..n : scratch[i].from = p}
<1>1. IsFiniteSet(1..n) /\ Cardinality(1..n) = n
  BY FS_Interval
<1>2. IsFiniteSet(S) /\ Cardinality(S) <= Cardinality(1..n)
  BY <1>1, FS_Subset, S \subseteq 1..n
<1>3. Cardinality(S) \in Nat
  BY <1>2, FS_CardinalityType
<1>4. QED
  BY <1>1, <1>2, <1>3 DEF Received

\* No lines, no count.
LEMMA ReceivedNone == ASSUME NEW p PROVE Received(p, 0) = 0
  BY ReceivedIsNat, 0 \in Nat

\* Lines of one pipe only count for that pipe.
LEMMA ReceivedAll ==
    ASSUME NEW p, NEW q, p # q, scratch \in Seq(Chunk),
           \A i \in 1..Len(scratch) : scratch[i].from = p
    PROVE  Got(p) = Len(scratch) /\ Got(q) = 0
<1>1. Len(scratch) \in Nat
  OBVIOUS
<1>2. {i \in 1..Len(scratch) : scratch[i].from = p} = 1..Len(scratch)
  OBVIOUS
<1>3. {i \in 1..Len(scratch) : scratch[i].from = q} = {}
  OBVIOUS
<1>4. Cardinality(1..Len(scratch)) = Len(scratch)
  BY <1>1, FS_Interval
<1>5. QED
  BY <1>2, <1>3, <1>4, FS_EmptySet DEF Got, Received

\* While the file does not change neither do the counts.
LEMMA ReceivedSame ==
    ASSUME scratch' = scratch
    PROVE  /\ \A p, n : Received(p, n)' = Received(p, n)
           /\ \A p : Got(p)' = Got(p)
  BY DEF Got, Received

\* Received, of any sequence of lines.
Count(s, p, n) == Cardinality({i \in 1..n : s[i].from = p})

\* An append does not change the count of what was there.
LEMMA CountBefore ==
    ASSUME NEW s \in Seq(Chunk), NEW c \in Chunk, NEW p, NEW k \in Nat, k <= Len(s)
    PROVE  Count(Append(s, c), p, k) = Count(s, p, k)
<1>1. {i \in 1..k : Append(s, c)[i].from = p} = {i \in 1..k : s[i].from = p}
  OBVIOUS
<1>2. QED
  BY <1>1 DEF Count

\* It adds one to the count of its own pipe.
LEMMA CountLast ==
    ASSUME NEW s \in Seq(Chunk), NEW c \in Chunk, NEW p
    PROVE  Count(Append(s, c), p, Len(s) + 1)
             = Count(s, p, Len(s)) + (IF c.from = p THEN 1 ELSE 0)
<1> DEFINE n == Len(s)
           t == Append(s, c)
           S == {i \in 1..n : s[i].from = p}
           T == {i \in 1..(n + 1) : t[i].from = p}
<1>1. n \in Nat /\ t[n + 1] = c /\ \A i \in 1..n : t[i] = s[i]
  OBVIOUS
<1> HIDE DEF n, t
<1>2. IsFiniteSet(S) /\ Cardinality(S) \in Nat
  <2>1. IsFiniteSet(1..n) /\ S \subseteq 1..n
    BY <1>1, FS_Interval
  <2>2. IsFiniteSet(S)
    BY <2>1, FS_Subset
  <2>3. QED
    BY <2>2, FS_CardinalityType
<1>3. Cardinality(T) = Cardinality(S) + (IF c.from = p THEN 1 ELSE 0)
  <2>1. CASE c.from = p
    <3>1. T = S \cup {n + 1} /\ n + 1 \notin S
      BY <1>1, <2>1
    <3>2. QED
      BY <1>2, <2>1, <3>1, FS_AddElement
  <2>2. CASE c.from # p
    <3>1. T = S
      BY <1>1, <2>2
    <3>2. Cardinality(T) = Cardinality(S)
      BY <3>1
    <3>3. QED
      BY <1>2, <2>2, <3>2
  <2>3. QED
    BY <2>1, <2>2
<1>4. QED
  BY <1>3 DEF Count, n, t

\* A line is added in its place: the lines before it keep theirs.
LEMMA LineAdded ==
    ASSUME scratch \in Seq(Chunk), NEW c \in Chunk, scratch' = Append(scratch, c),
           LinesInPlace,
           c.from \in Pipe => /\ c.chunk = Got(c.from) + 1
                              /\ c.head <=> (c.chunk = 1 /\ c.from = "stderr")
    PROVE  /\ LinesInPlace'
           /\ \A p : Got(p)' = Got(p) + (IF c.from = p THEN 1 ELSE 0)
           /\ Len(scratch') = Len(scratch) + 1
           /\ \A i \in 1..Len(scratch) : scratch'[i] = scratch[i]
           /\ scratch'[Len(scratch) + 1] = c
<1>0. PICK n \in Nat : n = Len(scratch)
  OBVIOUS
<1>1. /\ Len(scratch') = n + 1 /\ scratch'[n + 1] = c
      /\ \A i \in 1..n : scratch'[i] = scratch[i]
  BY <1>0
<1>2. \A p, k : /\ Received(p, k) = Count(scratch, p, k)
                /\ Received(p, k)' = Count(scratch', p, k)
  BY DEF Received, Count
<1>3. ASSUME NEW p
      PROVE  /\ \A k \in 0..n : Count(scratch', p, k) = Count(scratch, p, k)
             /\ Count(scratch', p, n + 1) = Count(scratch, p, n) + (IF c.from = p THEN 1 ELSE 0)
  <2>1. scratch \in Seq(Chunk) /\ c \in Chunk
    OBVIOUS
  <2>2. ASSUME NEW k \in 0..n PROVE Count(scratch', p, k) = Count(scratch, p, k)
    <3>1. k \in Nat /\ k <= Len(scratch)
      BY <1>0
    <3>2. Count(Append(scratch, c), p, k) = Count(scratch, p, k)
      BY <2>1, <3>1, CountBefore
    <3>3. QED
      BY <3>2
  <2>3. Count(Append(scratch, c), p, Len(scratch) + 1)
             = Count(scratch, p, Len(scratch)) + (IF c.from = p THEN 1 ELSE 0)
    BY <2>1, CountLast
  <2>4. QED
    BY <1>0, <2>2, <2>3
<1>4. ASSUME NEW p
      PROVE  Got(p) = Count(scratch, p, n) /\ Got(p)' = Count(scratch', p, n + 1)
  BY <1>0, <1>1 DEF Got, Received, Count
<1>5. ASSUME NEW i \in 1..(n + 1), scratch'[i].from \in Pipe
      PROVE  /\ scratch'[i].chunk = Count(scratch', scratch'[i].from, i)
             /\ scratch'[i].head <=> (scratch'[i].chunk = 1 /\ scratch'[i].from = "stderr")
  <2>1. CASE i = n + 1
    BY <1>1, <1>3, <1>4, <1>5, <2>1
  <2>2. CASE i \in 1..n
    <3>1. scratch'[i] = scratch[i] /\ scratch[i].from \in Pipe /\ i \in 0..n
      BY <1>1, <1>5, <2>2
    <3>2. /\ scratch[i].chunk = Count(scratch, scratch[i].from, i)
          /\ scratch[i].head <=> (scratch[i].chunk = 1 /\ scratch[i].from = "stderr")
      BY <1>0, <1>2, <2>2, <3>1 DEF LinesInPlace
    <3>3. Count(scratch', scratch[i].from, i) = Count(scratch, scratch[i].from, i)
      BY <1>3, <3>1
    <3>4. QED
      BY <3>1, <3>2, <3>3
  <2>3. QED
    BY <1>0, <2>1, <2>2
<1>6. LinesInPlace'
  BY <1>1, <1>5 DEF LinesInPlace, Received, Count
<1>7. QED
  BY <1>0, <1>1, <1>3, <1>4, <1>6

-----------------------------------------------------------------------------
(***************************************************************************)
(* The file, action by action.  Whole is what StreamInv says while the     *)
(* executor reads the channel.                                             *)
(***************************************************************************)
Whole == /\ LinesInPlace
         /\ \A p \in Pipe : PipeInOrder(p)
         /\ HeaderOnce
         /\ OnlyRead
         /\ EndLineLast

\* A stream that goes on had begun, unless it begins now.
LEMMA StreamsBefore ==
    ASSUME CallInv, [Next]_vars, Streams'
    PROVE  \/ ReadBegins \/ ExecBegins
           \/ /\ Streams
              /\ \/ StreamReturns
                 \/ \E p \in Pipe : \/ Read(p) \/ ReadEnds(p) \/ ReadFails(p)
                                  \/ Emit(p) \/ Write(p)
                 \/ BothDrained \/ ChildEnded \/ SendLast \/ SendRead
                 \/ ReadOver \/ FileFails
                 \/ Kill \/ Exit \/ RestExits \/ Expire \/ Cancel
                 \/ UNCHANGED vars
<1>1. CASE ResolveFails \/ RunInline
  BY <1>1 DEF ResolveFails, RunInline, Streams, CallInv, NotBegun
<1>2. CASE ScratchFails \/ RunAgain
  BY <1>2 DEF ScratchFails, RunAgain, Streams, CallInv, DrainersFirst
<1>3. CASE StreamReturns
  BY <1>3 DEF StreamReturns, Streams
<1>4. ASSUME NEW p \in Pipe,
             Read(p) \/ ReadEnds(p) \/ ReadFails(p) \/ Emit(p) \/ Write(p)
      PROVE  Streams
  BY <1>4 DEF Read, ReadEnds, ReadFails, Emit, Write, Receive, Streams, call
<1>5. CASE BothDrained \/ ChildEnded \/ SendLast \/ SendRead \/ ReadOver \/ FileFails
  BY <1>5 DEF BothDrained, ChildEnded, SendLast, SendRead, ReadOver, FileFails, Receive,
              Streams, call
<1>6. CASE Kill \/ Exit \/ RestExits \/ Expire \/ Cancel \/ UNCHANGED vars
  BY <1>6 DEF Kill, Exit, RestExits, Expire, Cancel, vars, Streams, call
<1>7. QED
  BY <1>1, <1>2, <1>3, <1>4, <1>5, <1>6, NextCases

\* Nothing has been received when the body begins.
LEMMA WholeBegins == CallInv /\ (ReadBegins \/ ExecBegins) => Whole'
<1> SUFFICES ASSUME CallInv, ReadBegins \/ ExecBegins PROVE Whole'
  OBVIOUS
<1>1. /\ phase = "resolve" /\ scratch = <<>> /\ ~header /\ Pipe = {"stdout", "stderr"}
      /\ UNCHANGED <<scratch, pipe, header>>
      /\ \A p \in Pipe : drainer[p] = "off" /\ written[p] = 0 /\ pipe[p] = <<>>
      /\ written \in [Pipe -> 0..MaxChunks]
  BY DEF CallInv, TypeOK, NotBegun, ReadBegins, ExecBegins, faults, drains, Pipe
<1>2. Len(scratch') = 0 /\ scratch' = scratch
  BY <1>1
<1>3. \A p : Got(p)' = 0
  BY <1>1, <1>2, ReceivedSame, ReceivedNone DEF Got
<1>4. LinesInPlace'
  BY <1>2 DEF LinesInPlace
<1>5. HeaderOnce'
  BY <1>1, <1>3 DEF HeaderOnce
<1>6. CASE ReadBegins
  <2>1. \/ waiter' = "error" /\ written' = written
        \/ waiter' = "reading" /\ \E n \in 0..MaxChunks : written' = [written EXCEPT !["stdout"] = n]
    BY <1>6 DEF ReadBegins
  <2>2. drainer' = drainer
    BY <1>6 DEF ReadBegins, drains
  <2>3. EndLineLast' /\ OnlyRead'
    BY <1>1, <1>2, <2>1 DEF EndLineLast, OnlyRead
  <2>4. \A p \in Pipe : PipeInOrder(p)'
    BY <1>1, <1>3, <2>1, <2>2 DEF PipeInOrder
  <2>5. QED
    BY <1>4, <1>5, <2>3, <2>4 DEF Whole
<1>7. CASE ExecBegins
  <2>1. /\ written' = written
        /\ \/ waiter' = "error" /\ drainer' = drainer
           \/ waiter' = "draining" /\ drainer' = [p \in Pipe |-> "reading"]
    BY <1>7 DEF ExecBegins
  <2>2. EndLineLast' /\ OnlyRead'
    BY <1>1, <1>2, <2>1 DEF EndLineLast, OnlyRead
  <2>3. \A p \in Pipe : PipeInOrder(p)'
    BY <1>1, <1>3, <2>1 DEF PipeInOrder
  <2>4. QED
    BY <1>4, <1>5, <2>2, <2>3 DEF Whole
<1>8. QED
  BY <1>6, <1>7

\* The child, the contexts and the channel's closing leave the file alone.
LEMMA WholeAround ==
    ASSUME CallInv, Whole, [Next]_vars,
           \/ StreamReturns \/ BothDrained \/ ChildEnded \/ ReadOver \/ FileFails
           \/ Kill \/ Exit \/ RestExits \/ Expire \/ Cancel \/ UNCHANGED vars
    PROVE  Whole'
<1>1. /\ UNCHANGED <<scratch, written, pipe, drainer, held, header>>
      /\ cancelled => cancelled'
      /\ expired => expired'
      /\ broken \subseteq broken'
      /\ kept' => kept \/ child = "running"
      /\ child' = "running" => child = "running"
  BY DEF StreamReturns, BothDrained, ChildEnded, ReadOver, FileFails, Kill, Exit, RestExits, Expire,
         Cancel, vars, call, faults, process, drains
<1>2. /\ \A p, n : Received(p, n)' = Received(p, n)
      /\ \A p : Got(p)' = Got(p)
  BY <1>1, ReceivedSame
<1>3. LinesInPlace' /\ HeaderOnce'
  BY <1>1, <1>2 DEF Whole, LinesInPlace, HeaderOnce, Received, Got
<1>4. CASE \/ StreamReturns \/ Kill \/ Exit \/ RestExits \/ Expire \/ Cancel
           \/ UNCHANGED vars
  <2>1. /\ waiter' = waiter
        /\ expired' # expired => waiter \in {"draining", "waiting"}
    BY <1>4 DEF StreamReturns, Kill, Exit, RestExits, Expire, Cancel, vars, faults
  <2>2. \A p \in Pipe : PipeInOrder(p)'
    BY <1>1, <1>2, <2>1 DEF Whole, PipeInOrder, Done
  <2>3. OnlyRead'
    BY <1>1, <2>1 DEF Whole, OnlyRead
  <2>4. EndLineLast'
    BY <1>1, <2>1 DEF Whole, EndLineLast
  <2>5. QED
    BY <1>3, <2>2, <2>3, <2>4 DEF Whole
<1>5. CASE BothDrained \/ ChildEnded
  <2>1. /\ waiter \in {"draining", "waiting"} /\ waiter' \in {"waiting", "late", "code", "closed"}
        /\ waiter' = "closed" => ~expired'
    BY <1>5 DEF BothDrained, ChildEnded, Waits, faults
  <2>2. \A p \in Pipe : PipeInOrder(p)'
    BY <1>1, <1>2, <2>1 DEF Whole, PipeInOrder, Done
  <2>3. OnlyRead'
    BY <2>1 DEF OnlyRead
  <2>4. EndLineLast'
    BY <1>1, <2>1 DEF Whole, EndLineLast
  <2>5. QED
    BY <1>3, <2>2, <2>3, <2>4 DEF Whole
<1>6. CASE ReadOver \/ FileFails
  <2>1. /\ waiter = "reading" /\ waiter' = "closed" /\ ~expired'
        /\ cancelled' \/ Len(scratch) = written["stdout"] \/ "stdout" \in broken'
    BY <1>6 DEF ReadOver, FileFails, Waits, faults, CallInv, DrainersFirst
  <2>2. /\ scratch \in Seq(Chunk) /\ written \in [Pipe -> 0..MaxChunks]
        /\ Pipe = {"stdout", "stderr"}
    BY DEF CallInv, TypeOK, Pipe
  <2>3. /\ \A i \in 1..Len(scratch) : scratch[i].from = "stdout"
        /\ written["stderr"] = 0
    BY <2>1 DEF Whole, OnlyRead
  <2>4. Got("stdout") = Len(scratch) /\ Got("stderr") = 0
    BY <2>2, <2>3, ReceivedAll
  <2>5. \A p \in Pipe : drainer[p] = "off"
    BY <2>1 DEF CallInv, DrainersFirst
  <2>6. ASSUME NEW p \in Pipe PROVE PipeInOrder(p)'
    <3>1. drainer'[p] = "off" /\ Got(p)' = Got(p) /\ written' = written
      BY <1>1, <1>2, <2>5
    <3>2. cancelled' \/ Got(p) = written[p] \/ p \in broken'
      BY <2>1, <2>2, <2>3, <2>4
    <3>3. QED
      BY <3>1, <3>2 DEF PipeInOrder
  <2>7. OnlyRead'
    BY <2>1 DEF OnlyRead
  <2>8. EndLineLast'
    BY <1>1, <2>1, <2>3 DEF EndLineLast, Pipe
  <2>9. QED
    BY <1>3, <2>6, <2>7, <2>8 DEF Whole
<1>7. QED
  BY <1>4, <1>5, <1>6

\* The numbers of s follow g without a gap.
Follows(s, g) == \A k \in 1..Len(s) : s[k] = g + k

\* They still do when the next number is added.
LEMMA RunGrows ==
    ASSUME NEW s \in Seq(Nat), NEW g \in Nat, Follows(s, g),
           NEW c, c = g + Len(s) + 1, NEW t, t = Append(s, c)
    PROVE  Len(t) = Len(s) + 1 /\ Follows(t, g)
<1>1. PICK n \in Nat : n = Len(s)
  OBVIOUS
<1>2. Len(t) = n + 1 /\ t[n + 1] = g + n + 1 /\ \A k \in 1..n : t[k] = s[k]
  BY <1>1
<1>3. \A k \in 1..(n + 1) : t[k] = g + k
  <2> SUFFICES ASSUME NEW k \in 1..(n + 1) PROVE t[k] = g + k
    OBVIOUS
  <2>1. CASE k = n + 1
    BY <1>2, <2>1
  <2>2. CASE k \in 1..n
    <3>1. k \in 1..Len(s)
      BY <1>1, <2>2
    <3>2. s[k] = g + k
      BY <3>1 DEF Follows
    <3>3. QED
      BY <1>2, <2>2, <3>2
  <2>3. k = n + 1 \/ k \in 1..n
    BY <1>1
  <2>4. QED
    BY <2>1, <2>2, <2>3
<1>4. QED
  BY <1>1, <1>2, <1>3 DEF Follows

\* ... and when its head is taken.
LEMMA RunShrinks ==
    ASSUME NEW s \in Seq(Nat), NEW g \in Nat, \A k \in 1..Len(s) : s[k] = g + k, s # <<>>
    PROVE  /\ Head(s) = g + 1 /\ Len(s) = Len(Tail(s)) + 1
           /\ \A k \in 1..Len(Tail(s)) : Tail(s)[k] = g + 1 + k
<1>1. PICK n \in Nat : n = Len(s)
  OBVIOUS
<1>2. Head(s) = s[1] /\ n >= 1 /\ Len(Tail(s)) = n - 1
  BY <1>1
<1>3. \A k \in 1..(n - 1) : Tail(s)[k] = s[k + 1]
  BY <1>1
<1>4. \A k \in 1..(n - 1) : k + 1 \in 1..n /\ g + (k + 1) = g + 1 + k
  BY <1>1
<1>5. Head(s) = g + 1
  BY <1>1, <1>2
<1>6. ASSUME NEW k \in 1..(n - 1) PROVE Tail(s)[k] = g + 1 + k
  BY <1>1, <1>3, <1>4
<1>7. QED
  BY <1>1, <1>2, <1>5, <1>6

\* The drainers move chunks on, in order.
LEMMA WholeDrains ==
    ASSUME CallInv, Whole, NEW p \in Pipe,
           Read(p) \/ ReadEnds(p) \/ ReadFails(p) \/ Write(p)
    PROVE  Whole'
<1>0. /\ drainer \in [Pipe -> {"off", "reading", "holding", "done"}]
      /\ held \in [Pipe -> 0..MaxChunks] /\ written \in [Pipe -> 0..MaxChunks]
      /\ pipe \in [Pipe -> Seq(1..MaxChunks)] /\ MaxChunks \in Nat
      /\ drainer[p] # "off"
  BY ToolCallConstants
     DEF CallInv, TypeOK, ToolCallConstants, Read, ReadEnds, ReadFails, Write, Drains, ChildFirst,
         DrainersFirst
<1>1. /\ UNCHANGED <<scratch, header, waiter, expired, cancelled, child, kept>>
      /\ \A q \in Pipe \ {p} : /\ drainer'[q] = drainer[q] /\ held'[q] = held[q]
                               /\ pipe'[q] = pipe[q] /\ written'[q] = written[q]
      /\ drainer'[p] = "done" <=> drainer[p] = "done" \/ ReadEnds(p) \/ ReadFails(p)
      /\ broken \subseteq broken'
  BY <1>0 DEF Read, ReadEnds, ReadFails, Write, Drains, call, faults, process, drains
<1>2. /\ \A q, n : Received(q, n)' = Received(q, n)
      /\ \A q : Got(q)' = Got(q)
  BY <1>1, ReceivedSame
<1>3. Got(p) \in Nat
  <2>1. Len(scratch) \in Nat
    BY DEF CallInv, TypeOK
  <2>2. QED
    BY <2>1, ReceivedIsNat DEF Got
<1>4. LinesInPlace' /\ EndLineLast'
  BY <1>1, <1>2 DEF Whole, LinesInPlace, EndLineLast, Received
<1>5. HeaderOnce'
  BY <1>1, <1>2 DEF Whole, HeaderOnce, Pipe
<1>6. waiter # "reading"
  BY <1>0 DEF CallInv, DrainersFirst
<1>7. OnlyRead'
  BY <1>1, <1>6 DEF OnlyRead
<1>8. \A q \in Pipe \ {p} : PipeInOrder(q)'
  BY <1>1, <1>2 DEF Whole, PipeInOrder, Done
<1>9. PipeInOrder(p)'
  <2>0. PICK g \in Nat : g = Got(p)
    BY <1>3
  <2>a. PICK w \in Seq(Nat) : w = pipe[p]
    BY <1>0
  <2>b. PICK n \in Nat : n = written[p]
    BY <1>0
  <2>c. /\ PipeInOrder(p) /\ Len(w) \in Nat
        /\ Got(p)' = g
    BY <1>2, <2>0 DEF Whole
  <2>1. CASE Read(p)
    <3>1. /\ drainer[p] = "reading" /\ drainer'[p] = "holding" /\ w # <<>>
          /\ held'[p] = Head(w) /\ pipe'[p] = Tail(w) /\ written'[p] = n
      BY <1>0, <2>1, <2>a, <2>b DEF Read, Drains, process
    <3>2. n = g + Len(w) /\ \A k \in 1..Len(w) : w[k] = g + k
      BY <2>0, <2>a, <2>b, <2>c, <3>1 DEF PipeInOrder
    <3>3. /\ Head(w) = g + 1 /\ Len(w) = Len(Tail(w)) + 1
          /\ \A k \in 1..Len(Tail(w)) : Tail(w)[k] = g + 1 + k
      BY <3>1, <3>2, RunShrinks
    <3>4. n = g + 1 + Len(Tail(w))
      <4>0. Len(Tail(w)) \in Nat
        BY <3>1
      <4>1. PICK m \in Nat : m = Len(Tail(w))
        BY <4>0
      <4>2. Len(w) = m + 1 /\ n = g + Len(w)
        BY <3>2, <3>3, <4>1
      <4>3. n = g + 1 + m
        BY <4>2
      <4>4. QED
        BY <4>1, <4>3, Zenon
    <3>5. QED
      BY <2>c, <3>1, <3>3, <3>4 DEF PipeInOrder
  <2>2. CASE ReadEnds(p)
    <3>1. /\ drainer[p] = "reading" /\ drainer'[p] = "done" /\ Len(w) = 0
          /\ child # "running" /\ ~kept /\ written'[p] = n
      BY <1>0, <2>2, <2>a, <2>b DEF ReadEnds, Drains, process
    <3>2. g = n
      BY <2>0, <2>a, <2>b, <2>c, <3>1 DEF PipeInOrder
    <3>3. QED
      BY <1>1, <2>c, <3>1, <3>2 DEF PipeInOrder
  <2>3. CASE Write(p)
    <3>1. /\ drainer[p] \in {"reading", "holding"} /\ drainer'[p] = drainer[p]
          /\ held'[p] = held[p] /\ written'[p] = n + 1 /\ pipe'[p] = Append(w, n + 1)
      BY <1>0, <2>3, <2>a, <2>b DEF Write, drains
    <3>2. PICK t : t = Append(w, n + 1)
      OBVIOUS
    <3>3. CASE drainer[p] = "reading"
      <4>1. n = g + Len(w) /\ \A k \in 1..Len(w) : w[k] = g + k
        BY <2>0, <2>a, <2>b, <2>c, <3>3 DEF PipeInOrder
      <4>2. Len(t) = Len(w) + 1 /\ \A k \in 1..Len(t) : t[k] = g + k
        <5>1. PICK h \in Nat : h = g
          OBVIOUS
        <5>2. n + 1 = h + Len(w) + 1 /\ Follows(w, h)
          BY <2>c, <4>1, <5>1 DEF Follows
        <5>c. PICK c : c = n + 1
          OBVIOUS
        <5>d. c = h + Len(w) + 1 /\ t = Append(w, c)
          BY <3>2, <5>2, <5>c
        <5>3. Len(t) = Len(w) + 1 /\ Follows(t, h)
          BY <5>2, <5>d, RunGrows
        <5>4. QED
          BY <5>1, <5>3 DEF Follows
      <4>3. n + 1 = g + Len(t)
        BY <2>c, <4>1, <4>2
      <4>4. QED
        BY <2>c, <3>1, <3>2, <3>3, <4>2, <4>3 DEF PipeInOrder
    <3>4. CASE drainer[p] = "holding"
      <4>1. /\ held[p] = g + 1 /\ n = g + 1 + Len(w)
            /\ \A k \in 1..Len(w) : w[k] = g + 1 + k
        BY <2>0, <2>a, <2>b, <2>c, <3>4 DEF PipeInOrder
      <4>2. Len(t) = Len(w) + 1 /\ \A k \in 1..Len(t) : t[k] = g + 1 + k
        <5>1. PICK h \in Nat : h = g + 1
          OBVIOUS
        <5>2. n + 1 = h + Len(w) + 1 /\ Follows(w, h)
          BY <2>c, <4>1, <5>1 DEF Follows
        <5>c. PICK c : c = n + 1
          OBVIOUS
        <5>d. c = h + Len(w) + 1 /\ t = Append(w, c)
          BY <3>2, <5>2, <5>c
        <5>3. Len(t) = Len(w) + 1 /\ Follows(t, h)
          BY <5>2, <5>d, RunGrows
        <5>4. QED
          BY <5>1, <5>3 DEF Follows
      <4>3. n + 1 = g + 1 + Len(t)
        BY <2>c, <4>1, <4>2
      <4>4. QED
        BY <2>c, <3>1, <3>2, <3>4, <4>1, <4>2, <4>3 DEF PipeInOrder
    <3>5. QED
      BY <3>1, <3>3, <3>4
  <2>4. CASE ReadFails(p)
    <3>1. drainer'[p] = "done" /\ p \in broken'
      BY <1>0, <2>4 DEF ReadFails, Drains
    <3>2. QED
      BY <3>1 DEF PipeInOrder
  <2>5. QED
    BY <2>1, <2>2, <2>3, <2>4
<1>10. QED
  BY <1>4, <1>5, <1>7, <1>8, <1>9 DEF Whole

\* A chunk of a pipe is received after those before it, or its drainer ends.
LEMMA WholeEmits ==
    ASSUME CallInv, Whole, Streams', NEW p \in Pipe, Emit(p)
    PROVE  Whole'
<1>0. /\ drainer \in [Pipe -> {"off", "reading", "holding", "done"}]
      /\ scratch \in Seq(Chunk) /\ held \in [Pipe -> 0..MaxChunks]
      /\ drainer[p] = "holding" /\ waiter # "reading" /\ waiter # "closed"
      /\ "stderr" \in Pipe /\ p \notin {"error", "late", "code"}
  BY DEF CallInv, TypeOK, Emit, Drains, DrainersFirst, Pipe
<1>1. /\ UNCHANGED <<pipe, waiter, expired, cancelled, broken, child, kept, written>>
      /\ \A q \in Pipe \ {p} : drainer'[q] = drainer[q] /\ held'[q] = held[q]
      /\ drainer'[p] = IF Done THEN "done" ELSE "reading"
      /\ header' = (header \/ p = "stderr")
      /\ Done' = Done
  BY <1>0 DEF Emit, Drains, faults, process, Done
<1>2. OnlyRead'
  BY <1>0, <1>1 DEF OnlyRead
<1>g. \A q \in Pipe : Got(q) \in Nat
  <2>1. Len(scratch) \in Nat
    BY <1>0
  <2>2. QED
    BY <2>1, ReceivedIsNat DEF Got
<1>3. CASE Receive(p, held[p], p = "stderr" /\ ~header)
  <2>1. PICK h \in BOOLEAN : h <=> (p = "stderr" /\ ~header)
    OBVIOUS
  <2>2. PICK g \in Nat : g = Got(p)
    BY <1>g
  <2>3. PICK k \in 0..MaxChunks : k = held[p]
    BY <1>0
  <2>4. PICK c \in Chunk : c.from = p /\ c.chunk = k /\ c.head = h
                           /\ c = [from |-> p, chunk |-> k, head |-> h]
    BY DEF Chunk
  <2>5. scratch' = Append(scratch, c)
    <3>1. phase' = "streaming"
      BY <1>3 DEF Receive, Streams, CallInv, DrainersFirst
    <3>2. h = (p = "stderr" /\ ~header)
      BY <2>1
    <3>3. QED
      BY <1>3, <2>3, <2>4, <3>1, <3>2 DEF Receive
  <2>6. /\ PipeInOrder(p) /\ k = g + 1 /\ written[p] = g + 1 + Len(pipe[p])
        /\ \A i \in 1..Len(pipe[p]) : pipe[p][i] = g + 1 + i
    BY <1>0, <2>2, <2>3 DEF Whole, PipeInOrder
  <2>7. h <=> (k = 1 /\ p = "stderr")
    BY <1>0, <2>1, <2>2, <2>6 DEF Whole, HeaderOnce
  <2>8. /\ LinesInPlace'
        /\ \A q : Got(q)' = Got(q) + (IF p = q THEN 1 ELSE 0)
        /\ Len(scratch') = Len(scratch) + 1
        /\ \A i \in 1..Len(scratch) : scratch'[i] = scratch[i]
        /\ scratch'[Len(scratch) + 1] = c
    <3>1. scratch \in Seq(Chunk) /\ c \in Chunk /\ LinesInPlace
      BY <1>0 DEF Whole
    <3>2. /\ c.chunk = Got(c.from) + 1
          /\ c.head <=> (c.chunk = 1 /\ c.from = "stderr")
      BY <2>2, <2>4, <2>6, <2>7
    <3>3. /\ LinesInPlace'
          /\ \A q : Got(q)' = Got(q) + (IF c.from = q THEN 1 ELSE 0)
          /\ Len(scratch') = Len(scratch) + 1
          /\ \A i \in 1..Len(scratch) : scratch'[i] = scratch[i]
          /\ scratch'[Len(scratch) + 1] = c
      BY <2>5, <3>1, <3>2, LineAdded, Zenon
    <3>4. QED
      BY <2>4, <3>3, Zenon
  <2>9. ASSUME NEW q \in Pipe PROVE PipeInOrder(q)'
    <3>1. CASE q = p
      <4>1. Got(p)' = g + 1
        BY <2>2, <2>8
      <4>2. CASE Done
        BY <1>1, <3>1, <4>2 DEF PipeInOrder
      <4>3. CASE ~Done
        BY <1>1, <2>6, <3>1, <4>1, <4>3 DEF PipeInOrder
      <4>4. QED
        BY <4>2, <4>3
    <3>2. CASE q # p
      <4>1. Got(q)' = Got(q)
        BY <1>g, <2>8, <3>2
      <4>2. QED
        BY <1>1, <3>2, <4>1 DEF Whole, PipeInOrder
    <3>3. QED
      BY <3>1, <3>2
  <2>10. HeaderOnce'
    <3>1. CASE p = "stderr"
      <4>1. header'
        BY <1>1, <3>1, Zenon
      <4>2. Got("stderr")' = g + 1
        BY <2>2, <2>8, <3>1
      <4>3. Got("stderr")' > 0
        BY <4>2
      <4>4. QED
        BY <4>1, <4>3, Zenon DEF HeaderOnce
    <3>2. CASE p # "stderr"
      <4>a. Got("stderr")' = Got("stderr")
        BY <1>0, <1>g, <2>8, <3>2
      <4>b. header' <=> header
        BY <1>1, <3>2, Zenon
      <4>1. Got("stderr")' = Got("stderr") /\ (header' <=> header)
        BY <4>a, <4>b
      <4>2. QED
        BY <1>0, <1>1, <3>2, <4>1 DEF Whole, HeaderOnce
    <3>3. QED
      BY <3>1, <3>2
  <2>11. EndLineLast'
    <3>1. \A i \in 1..Len(scratch) : scratch[i].from \in Pipe
      BY <1>0 DEF Whole, EndLineLast
    <3>2. Len(scratch) \in Nat
      BY <1>0
    <3>3. \A i \in 1..Len(scratch') : scratch'[i].from \in Pipe
      BY <2>4, <2>8, <3>1, <3>2
    <3>4. QED
      BY <1>0, <1>1, <3>3 DEF EndLineLast
  <2>12. QED
    BY <1>2, <2>8, <2>9, <2>10, <2>11 DEF Whole
<1>4. CASE UNCHANGED scratch /\ Done
  <2>1. /\ \A q, n : Received(q, n)' = Received(q, n)
        /\ \A q : Got(q)' = Got(q)
    BY <1>4, ReceivedSame
  <2>2. LinesInPlace' /\ EndLineLast'
    BY <1>1, <1>4, <2>1 DEF Whole, LinesInPlace, EndLineLast, Received
  <2>3. HeaderOnce'
    BY <1>0, <1>1, <1>4, <2>1 DEF Whole, HeaderOnce
  <2>4. ASSUME NEW q \in Pipe PROVE PipeInOrder(q)'
    <3>1. CASE q = p
      BY <1>0, <1>1, <1>4, <3>1 DEF PipeInOrder
    <3>2. CASE q # p
      BY <1>1, <2>1, <3>2 DEF Whole, PipeInOrder
    <3>3. QED
      BY <3>1, <3>2
  <2>5. QED
    BY <1>2, <2>2, <2>3, <2>4 DEF Whole
<1>5. QED
  BY <1>3, <1>4 DEF Emit

\* The line about the end comes when both drainers have ended.
LEMMA WholeSendLast ==
    ASSUME CallInv, Whole, Streams', SendLast
    PROVE  Whole'
<1>0. /\ scratch \in Seq(Chunk) /\ waiter \in {"error", "late", "code"} /\ waiter' = "closed"
      /\ \A p \in Pipe : drainer[p] \in {"off", "done"}
      /\ expired => waiter = "late"
      /\ UNCHANGED <<faults, process, pipe, drains>>
  BY DEF CallInv, TypeOK, DrainersFirst, SendLast
<1>1. /\ UNCHANGED <<pipe, expired, cancelled, broken, child, kept, written, drainer, held, header>>
      /\ Done' = Done
  BY <1>0 DEF faults, process, drains, Done
<1>2. PICK w \in {"error", "late", "code"} : w = waiter
  BY <1>0
<1>3. w \notin Pipe
  BY <1>2 DEF Pipe
<1>4. PICK c \in Chunk : c.from = w /\ c = [from |-> w, chunk |-> 0, head |-> FALSE]
  <2>1. 0 \in 0..MaxChunks
    BY ToolCallConstants DEF ToolCallConstants
  <2>2. [from |-> w, chunk |-> 0, head |-> FALSE] \in Chunk
    BY <2>1 DEF Chunk
  <2>3. QED
    BY <2>2
<1>5. scratch' = Append(scratch, c)
  <2>1. phase' = "streaming"
    BY DEF SendLast, Receive, Streams, CallInv, DrainersFirst
  <2>2. QED
    BY <1>2, <1>4, <2>1 DEF SendLast, Receive
<1>6. /\ LinesInPlace'
      /\ \A q : Got(q)' = Got(q) + (IF c.from = q THEN 1 ELSE 0)
      /\ Len(scratch') = Len(scratch) + 1
      /\ \A i \in 1..Len(scratch) : scratch'[i] = scratch[i]
      /\ scratch'[Len(scratch) + 1] = c
  <2>1. c.from \notin Pipe /\ LinesInPlace /\ scratch \in Seq(Chunk)
    BY <1>0, <1>3, <1>4 DEF Whole
  <2>2. QED
    BY <1>5, <2>1, LineAdded, Zenon
<1>7. \A p \in Pipe : Got(p)' = Got(p)
  <2>1. Len(scratch) \in Nat
    BY <1>0
  <2>2. \A p \in Pipe : Got(p) \in Nat
    BY <2>1, ReceivedIsNat DEF Got
  <2>3. QED
    BY <1>3, <1>4, <1>6, <2>2
<1>8. ASSUME NEW p \in Pipe PROVE PipeInOrder(p)'
  BY <1>0, <1>1, <1>7 DEF Whole, PipeInOrder
<1>9. HeaderOnce'
  <2>1. Got("stderr")' = Got("stderr")
    BY <1>7 DEF Pipe
  <2>2. QED
    BY <1>1, <2>1 DEF Whole, HeaderOnce
<1>10. OnlyRead'
  BY <1>0 DEF OnlyRead
<1>11. EndLineLast'
  <2>1. PICK n \in Nat : n = Len(scratch)
    BY <1>0
  <2>2. \A i \in 1..n : scratch[i].from \in Pipe
    BY <1>0, <2>1 DEF Whole, EndLineLast
  <2>3. /\ Len(scratch') = n + 1 /\ scratch'[n + 1].from = w
        /\ \A i \in 1..n : scratch'[i].from \in Pipe
    BY <1>4, <1>6, <2>1, <2>2
  <2>4. expired' => w = "late"
    BY <1>0, <1>1, <1>2
  <2>5. QED
    BY <1>0, <2>3, <2>4 DEF EndLineLast
<1>12. QED
  BY <1>6, <1>8, <1>9, <1>10, <1>11 DEF Whole

\* A chunk of a file is received after those before it.
LEMMA WholeSendRead ==
    ASSUME CallInv, Whole, Streams', SendRead
    PROVE  Whole'
<1>0. /\ scratch \in Seq(Chunk) /\ written \in [Pipe -> 0..MaxChunks]
      /\ waiter = "reading" /\ Len(scratch) < written["stdout"]
      /\ \A p \in Pipe : drainer[p] = "off"
      /\ "stdout" \in Pipe /\ "stderr" \in Pipe
      /\ UNCHANGED <<faults, process, pipe, drains, waiter>>
  BY DEF CallInv, TypeOK, DrainersFirst, SendRead, Pipe
<1>1. /\ UNCHANGED <<pipe, expired, cancelled, broken, child, kept, written, drainer, held, header,
                   waiter>>
      /\ Done' = Done
  BY <1>0 DEF faults, process, drains, Done
<1>2. PICK n \in Nat : n = Len(scratch)
  BY <1>0
<1>3. /\ \A i \in 1..n : scratch[i].from = "stdout"
      /\ written["stderr"] = 0 /\ Got("stdout") = n /\ Got("stderr") = 0
  <2>1. /\ \A i \in 1..Len(scratch) : scratch[i].from = "stdout"
        /\ written["stderr"] = 0
    BY <1>0 DEF Whole, OnlyRead
  <2>2. QED
    BY <1>0, <1>2, <2>1, ReceivedAll
<1>4. PICK c \in Chunk : /\ c.from = "stdout" /\ c.chunk = n + 1 /\ c.head = FALSE
                         /\ c = [from |-> "stdout", chunk |-> n + 1, head |-> FALSE]
  <2>1. written["stdout"] \in 0..MaxChunks /\ MaxChunks \in Nat
    BY <1>0, ToolCallConstants DEF ToolCallConstants
  <2>2. n + 1 \in 0..MaxChunks
    BY <1>0, <1>2, <2>1
  <2>3. [from |-> "stdout", chunk |-> n + 1, head |-> FALSE] \in Chunk
    BY <2>2, <1>0 DEF Chunk
  <2>4. QED
    BY <2>3
<1>5. scratch' = Append(scratch, c)
  <2>1. phase' = "streaming"
    BY DEF SendRead, Receive, Streams, CallInv, DrainersFirst
  <2>2. QED
    BY <1>2, <1>4, <2>1 DEF SendRead, Receive
<1>6. /\ LinesInPlace'
      /\ \A q : Got(q)' = Got(q) + (IF c.from = q THEN 1 ELSE 0)
      /\ Len(scratch') = Len(scratch) + 1
      /\ \A i \in 1..Len(scratch) : scratch'[i] = scratch[i]
      /\ scratch'[Len(scratch) + 1] = c
  <2>1. scratch \in Seq(Chunk) /\ LinesInPlace
    BY <1>0 DEF Whole
  <2>2. /\ c.chunk = Got(c.from) + 1
        /\ c.head <=> (c.chunk = 1 /\ c.from = "stderr")
    BY <1>3, <1>4
  <2>3. QED
    BY <1>5, <2>1, <2>2, LineAdded, Zenon
<1>7. Got("stdout")' = n + 1 /\ Got("stderr")' = 0
  BY <1>3, <1>4, <1>6
<1>8. ASSUME NEW p \in Pipe PROVE PipeInOrder(p)'
  <2>1. p = "stdout" \/ p = "stderr"
    BY DEF Pipe
  <2>2. drainer'[p] = "off" /\ waiter' = "reading" /\ written'["stderr"] = 0
    BY <1>0, <1>1, <1>3
  <2>3. QED
    BY <1>7, <2>1, <2>2 DEF PipeInOrder
<1>9. HeaderOnce'
  BY <1>0, <1>1, <1>3, <1>7 DEF Whole, HeaderOnce
<1>10. Len(scratch') = n + 1 /\ \A i \in 1..(n + 1) : scratch'[i].from = "stdout"
  BY <1>2, <1>3, <1>4, <1>6
<1>11. OnlyRead'
  BY <1>1, <1>3, <1>10 DEF OnlyRead
<1>12. EndLineLast'
  BY <1>0, <1>1, <1>10 DEF EndLineLast
<1>13. QED
  BY <1>6, <1>8, <1>9, <1>11, <1>12 DEF Whole

\* Every step of a call keeps the file and what is under way consistent.
LEMMA StreamInvStep == CallInv /\ StreamInv /\ [Next]_vars => StreamInv'
<1> SUFFICES ASSUME CallInv, StreamInv, [Next]_vars, Streams' PROVE Whole'
  BY DEF StreamInv, Whole
<1>1. CASE ReadBegins \/ ExecBegins
  BY <1>1, WholeBegins
<1>2. CASE Streams
  <2>1. Whole
    BY <1>2 DEF StreamInv, Whole
  <2>2. CASE \/ StreamReturns \/ BothDrained \/ ChildEnded \/ ReadOver \/ FileFails
             \/ Kill \/ Exit \/ RestExits \/ Expire \/ Cancel \/ UNCHANGED vars
    BY <2>1, <2>2, WholeAround
  <2>3. ASSUME NEW p \in Pipe, Read(p) \/ ReadEnds(p) \/ ReadFails(p) \/ Write(p)
        PROVE  Whole'
    BY <2>1, <2>3, WholeDrains
  <2>4. ASSUME NEW p \in Pipe, Emit(p) PROVE Whole'
    BY <2>1, <2>4, WholeEmits
  <2>5. CASE SendLast
    BY <2>1, <2>5, WholeSendLast
  <2>6. CASE SendRead
    BY <2>1, <2>6, WholeSendRead
  <2>7. QED
    BY <1>1, <2>2, <2>3, <2>4, <2>5, <2>6, StreamsBefore
<1>3. QED
  BY <1>1, <1>2, StreamsBefore

\* What a call returns as a file was received while the channel was open, and
\* the channel closes behind both drainers.
LEMMA WholeWhenReturned == CallInv /\ StreamInv => StreamIsWhole
<1> SUFFICES ASSUME CallInv, StreamInv, result = "file" PROVE StreamIsWhole
  BY DEF StreamIsWhole
<1>1. /\ Whole /\ waiter = "closed" /\ scratch \in Seq(Chunk)
      /\ \A p \in Pipe : drainer[p] \in {"off", "done"}
  BY DEF StreamInv, Streams, Whole, CallInv, TypeOK, DrainersFirst
<1>2. PICK n \in Nat : n = Len(scratch) /\ DOMAIN scratch = 1..n
  BY <1>1
<1>3. \A i \in 1..n : scratch[i].from \in Pipe =>
          /\ scratch[i].chunk = Received(scratch[i].from, i)
          /\ scratch[i].head <=> (scratch[i].chunk = 1 /\ scratch[i].from = "stderr")
  BY <1>1, <1>2 DEF Whole, LinesInPlace
<1>4. ASSUME NEW p \in Pipe
      PROVE  \/ Received(p, n) = written[p]
             \/ p \in broken \/ cancelled \/ \E i \in 1..n : scratch[i].from = "late"
  <2>1. Got(p) = written[p] \/ p \in broken \/ cancelled \/ expired
    BY <1>1 DEF Whole, PipeInOrder, Done
  <2>2. expired => \E i \in 1..n : scratch[i].from = "late"
    BY <1>1, <1>2 DEF Whole, EndLineLast
  <2>3. QED
    BY <1>2, <2>1, <2>2 DEF Got
<1>5. \A i \in 1..n : i < n => scratch[i].from \in Pipe
  BY <1>1, <1>2 DEF Whole, EndLineLast
<1>6. QED
  BY <1>2, <1>3, <1>4, <1>5 DEF StreamIsWhole

(***************************************************************************)
(* The text a streaming tool leaves in its scratch file is a prefix of     *)
(* what was written to each pipe, in order, with the header in its place,  *)
(* and all of it unless a read of that pipe failed, the last line says     *)
(* time ran out or the caller has left: for any capacity of a pipe and any *)
(* number of chunks.                                                       *)
(***************************************************************************)
THEOREM StreamWhole == Spec => []StreamIsWhole
<1>1. Init => WholeInv
  BY CallInvInit DEF WholeInv, Init, StreamInv, Streams
<1>2. WholeInv /\ [Next]_vars => WholeInv'
  BY CallInvStep, StreamInvStep DEF WholeInv
<1>3. WholeInv => StreamIsWhole
  BY WholeWhenReturned DEF WholeInv
<1>4. QED
  BY <1>1, <1>2, <1>3, PTL DEF Spec

===============================================================================
