------------------------------- MODULE ToolCall -------------------------------
(***************************************************************************)
(* One tool call: invokeTool of agent/loop.go, ExecuteToolWithHandle of    *)
(* executor/direct.go, the registry, and the two tools that stream:        *)
(* exec (tools/workspace/shell.go) and read_file (filesystem.go).          *)
(*                                                                         *)
(* exec runs a child with a pipe for each of stdout and stderr.  A drainer *)
(* per pipe takes what is there and hands it to the executor through one   *)
(* unbuffered channel; a third goroutine waits for both and for the child, *)
(* adds a last line and closes the channel.  The executor writes what it   *)
(* receives to a scratch file.  A deadline and the caller's context end    *)
(* the child; a process the child left behind may keep the pipes open.  A  *)
(* read that fails ends its loop as the end of the input does.             *)
(*                                                                         *)
(* A chunk is the number of the write that produced it.  Preview, path and *)
(* environment are left out.                                               *)
(***************************************************************************)
EXTENDS Naturals, Sequences, FiniteSets

CONSTANTS PipeCap,    \* what a pipe of the system holds
          MaxChunks   \* bound: what is written to one pipe; a file's length

ASSUME ToolCallConstants == PipeCap \in Nat \ {0} /\ MaxChunks \in Nat

Pipe == {"stdout", "stderr"}

VARIABLES
    tool,       \* the kind of the tool that was asked for
    phase,      \* where invokeTool stands
    result,     \* what it returned
    runs,       \* history: how often the tool's body was begun
    expired,    \* runCtx is past its deadline
    cancelled,  \* the caller's context is done
    broken,     \* history: where a read failed; a file counts as stdout
    child,      \* the shell
    kept,       \* a process it left behind has the pipes open
    written,    \* how many chunks went into each pipe, or stand in the file read
    pipe,       \* those not read yet
    drainer,    \* drainPipe of each pipe
    held,       \* the chunk it has read
    header,     \* drainedFirstStderr
    waiter,     \* the goroutine that ExecuteStreaming leaves behind
    scratch     \* what the scratch file holds

process == <<child, kept, written>>
drains  == <<drainer, held, header>>
faults  == <<expired, cancelled, broken>>
call    == <<tool, phase, result, runs>>
vars    == <<call, faults, process, pipe, drains, waiter, scratch>>

Done == expired \/ cancelled

Init ==
    /\ tool \in {"inline", "exec", "read"}
    /\ phase = "resolve" /\ result = "none" /\ runs = 0
    /\ expired = FALSE /\ cancelled = FALSE /\ broken = {}
    /\ child = "none" /\ kept = FALSE
    /\ written = [p \in Pipe |-> 0] /\ pipe = [p \in Pipe |-> <<>>]
    /\ drainer = [p \in Pipe |-> "off"] /\ held = [p \in Pipe |-> 0]
    /\ header = FALSE
    /\ waiter = "off" /\ scratch = <<>>

-----------------------------------------------------------------------------
(* invokeTool and ExecuteToolWithHandle.                                   *)

\* No such tool, or parameters that do not validate: the text says so.
ResolveFails ==
    /\ phase = "resolve"
    /\ phase' = "returned" /\ result' = "invalid"
    /\ UNCHANGED <<tool, runs, faults, process, pipe, drains, waiter, scratch>>

RunInline ==
    /\ phase = "resolve" /\ tool = "inline"
    /\ runs' = runs + 1
    /\ \/ phase' = "returned" /\ result' = "text"
       \/ phase' = "again" /\ UNCHANGED result
    /\ UNCHANGED <<tool, faults, process, pipe, drains, waiter, scratch>>

\* The file is read from a goroutine, or cannot be and a text says so.
ReadBegins ==
    /\ phase = "resolve" /\ tool = "read"
    /\ phase' = "streaming" /\ runs' = runs + 1
    /\ \/ waiter' = "error" /\ UNCHANGED written
       \/ /\ waiter' = "reading"
          /\ \E n \in 0..MaxChunks : written' = [written EXCEPT !["stdout"] = n]
    /\ UNCHANGED <<tool, result, faults, child, kept, pipe, drains, scratch>>

\* The guard refuses the command or the child cannot be started, and a
\* goroutine sends a text; or the child runs.
ExecBegins ==
    /\ phase = "resolve" /\ tool = "exec"
    /\ phase' = "streaming" /\ runs' = runs + 1
    /\ \/ waiter' = "error" /\ UNCHANGED <<child, drainer>>
       \/ /\ ~cancelled
          /\ waiter' = "draining" /\ child' = "running"
          /\ drainer' = [p \in Pipe |-> "reading"]
    /\ UNCHANGED <<tool, result, faults, kept, written, pipe, held, header, scratch>>

\* The scratch file cannot be created, or closed at the end.
ScratchFails ==
    /\ phase = "streaming" /\ (scratch = <<>> \/ waiter = "closed")
    /\ phase' = "again"
    /\ UNCHANGED <<tool, result, runs, faults, process, pipe, drains, waiter, scratch>>

\* The channel is closed.
StreamReturns ==
    /\ phase = "streaming" /\ waiter = "closed"
    /\ phase' = "returned" /\ result' = "file"
    /\ UNCHANGED <<tool, runs, faults, process, pipe, drains, waiter, scratch>>

\* Defect: it is run again until it works.
RunAgainAndAgain ==
    /\ phase = "again"
    /\ runs' = runs + 1
    /\ \/ phase' = "returned" /\ result' = "text"
       \/ UNCHANGED <<phase, result>>
    /\ UNCHANGED <<tool, faults, process, pipe, drains, waiter, scratch>>

\* On any error invokeTool runs the tool again, through ExecuteTool.  How
\* that run goes, with a deadline of its own, is not looked at.
RunAgain ==
    /\ phase = "again"
    /\ phase' = "returned" /\ runs' = runs + 1
    /\ result' \in {"text", "error"}
    /\ UNCHANGED <<tool, faults, process, pipe, drains, waiter, scratch>>

\* The executor takes a chunk off the channel and writes it; when it cannot,
\* it leaves the channel.
Receive(from, chunk, head) ==
    /\ phase = "streaming"
    /\ \/ /\ scratch' = Append(scratch, [from |-> from, chunk |-> chunk, head |-> head])
          /\ UNCHANGED phase
       \/ phase' = "again" /\ UNCHANGED scratch
    /\ UNCHANGED <<tool, result, runs>>

-----------------------------------------------------------------------------
(* The child and what it leaves behind; the deadline; the caller.          *)

Write(p) ==
    /\ child = "running" \/ kept
    /\ drainer[p] # "done"
    /\ written[p] < MaxChunks /\ Len(pipe[p]) < PipeCap
    /\ written' = [written EXCEPT ![p] = @ + 1]
    /\ pipe' = [pipe EXCEPT ![p] = Append(@, written'[p])]
    /\ UNCHANGED <<call, faults, child, kept, drains, waiter, scratch>>

Exit ==
    /\ child = "running"
    /\ child' \in {"exited", "failed"} /\ kept' \in BOOLEAN
    /\ UNCHANGED <<call, faults, written, pipe, drains, waiter, scratch>>

RestExits ==
    /\ kept
    /\ kept' = FALSE
    /\ UNCHANGED <<call, faults, child, written, pipe, drains, waiter, scratch>>

\* Defect: exec.Command instead of exec.CommandContext.
KillNobody == FALSE

\* CommandContext kills the shell, not what it left behind.
Kill ==
    /\ child = "running" /\ Done
    /\ child' = "failed" /\ kept' \in BOOLEAN
    /\ UNCHANGED <<call, faults, written, pipe, drains, waiter, scratch>>

Expire ==
    /\ waiter \in {"draining", "waiting"} /\ ~Done
    /\ expired' = TRUE
    /\ UNCHANGED <<call, cancelled, broken, process, pipe, drains, waiter, scratch>>

Cancel ==
    /\ ~cancelled /\ phase # "returned"
    /\ cancelled' = TRUE
    /\ UNCHANGED <<call, expired, broken, process, pipe, drains, waiter, scratch>>

-----------------------------------------------------------------------------
(* drainPipe.  emitMu keeps one drainer out while the other waits for the  *)
(* executor: Emit, which is both at once, needs no lock.                   *)

Drains(p, from, to) == /\ drainer[p] = from
                       /\ drainer' = [drainer EXCEPT ![p] = to]

\* Defect: stderr is read when stdout has ended.
ReadInTurn(p) ==
    /\ p = "stderr" => drainer["stdout"] = "done"
    /\ Drains(p, "reading", "holding")
    /\ pipe[p] # <<>>
    /\ held' = [held EXCEPT ![p] = Head(pipe[p])]
    /\ pipe' = [pipe EXCEPT ![p] = Tail(@)]
    /\ UNCHANGED <<call, faults, process, header, waiter, scratch>>

Read(p) ==
    /\ Drains(p, "reading", "holding")
    /\ pipe[p] # <<>>
    /\ held' = [held EXCEPT ![p] = Head(pipe[p])]
    /\ pipe' = [pipe EXCEPT ![p] = Tail(@)]
    /\ UNCHANGED <<call, faults, process, header, waiter, scratch>>

\* Nobody has the pipe open for writing any more.
ReadEnds(p) ==
    /\ Drains(p, "reading", "done")
    /\ pipe[p] = <<>> /\ child # "running" /\ ~kept
    /\ UNCHANGED <<call, faults, process, pipe, held, header, waiter, scratch>>

\* Any other error ends the loop without a word: drainPipe closes its end of the
\* pipe, with what is left in it.
ReadFails(p) ==
    /\ Drains(p, "reading", "done")
    /\ broken' = broken \cup {p}
    /\ pipe' = [pipe EXCEPT ![p] = <<>>]
    /\ UNCHANGED <<call, expired, cancelled, process, held, header, waiter, scratch>>

\* The chunk is received, or dropped if the context is done, and the loop
\* looks at the context.  The first one of stderr has the header.
Emit(p) ==
    /\ Drains(p, "holding", IF Done THEN "done" ELSE "reading")
    /\ held' = [held EXCEPT ![p] = 0]
    /\ header' = (header \/ p = "stderr")
    /\ \/ Receive(p, held[p], p = "stderr" /\ ~header)
       \/ Done /\ UNCHANGED <<call, scratch>>
    /\ UNCHANGED <<faults, process, pipe, waiter>>

-----------------------------------------------------------------------------
(* The goroutine that closes the channel.                                  *)

Waits(from, to) == waiter = from /\ waiter' = to

\* Defect: wg.Wait is left when the first drainer is done.
FirstDrained ==
    /\ Waits("draining", "waiting")
    /\ \E p \in Pipe : drainer[p] = "done"
    /\ UNCHANGED <<call, faults, process, pipe, drains, scratch>>

BothDrained ==
    /\ Waits("draining", "waiting")
    /\ \A p \in Pipe : drainer[p] = "done"
    /\ UNCHANGED <<call, faults, process, pipe, drains, scratch>>

\* cmd.Wait: the deadline is reported before the exit code.
ChildEnded ==
    /\ child # "running"
    /\ Waits("waiting", IF expired THEN "late"
                        ELSE IF child = "failed" THEN "code" ELSE "closed")
    /\ UNCHANGED <<call, faults, process, pipe, drains, scratch>>

\* A send that nothing interrupts.
SendLast ==
    /\ waiter \in {"error", "late", "code"}
    /\ Receive(waiter, 0, FALSE)
    /\ waiter' = "closed"
    /\ UNCHANGED <<faults, process, pipe, drains>>

\* read_file's loop looks at the context before it reads a chunk; one it already
\* holds is sent even so.
SendRead ==
    /\ waiter = "reading" /\ Len(scratch) < written["stdout"]
    /\ Receive("stdout", Len(scratch) + 1, FALSE)
    /\ UNCHANGED <<faults, process, pipe, drains, waiter>>

ReadOver ==
    /\ Waits("reading", "closed")
    /\ cancelled \/ (phase = "streaming" /\ Len(scratch) = written["stdout"])
    /\ UNCHANGED <<call, faults, process, pipe, drains, scratch>>

\* Any other error is taken for the end of the file.
FileFails ==
    /\ Waits("reading", "closed")
    /\ broken' = broken \cup {"stdout"}
    /\ UNCHANGED <<call, expired, cancelled, process, pipe, drains, scratch>>

-----------------------------------------------------------------------------
Resolve  == ResolveFails \/ RunInline \/ ReadBegins \/ ExecBegins
Executor == ScratchFails \/ StreamReturns \/ RunAgain
Drainer(p) == Read(p) \/ ReadEnds(p) \/ Emit(p)
Waiter   == BothDrained \/ ChildEnded \/ SendLast \/ SendRead \/ ReadOver
World    == \/ \E p \in Pipe : Write(p) \/ ReadFails(p)
            \/ FileFails \/ Exit \/ RestExits \/ Expire \/ Cancel

Next == Resolve \/ Executor \/ (\E p \in Pipe : Drainer(p)) \/ Waiter \/ Kill \/ World

Spec == Init /\ [][Next]_vars

\* Goroutines run, and the kernel kills; no child is expected to end, no read to
\* fail, and what follows the deadline is said in CallReturns.
FairSpec == /\ Spec
            /\ WF_vars(Resolve) /\ WF_vars(Executor)
            /\ \A p \in Pipe : WF_vars(Drainer(p))
            /\ WF_vars(Waiter) /\ WF_vars(Kill)

-----------------------------------------------------------------------------
(* Properties.                                                             *)

Chunk == [from  : Pipe \cup {"error", "late", "code"},
          chunk : 0..MaxChunks, head : BOOLEAN]

TypeOK ==
    /\ tool \in {"inline", "exec", "read"}
    /\ phase \in {"resolve", "streaming", "again", "returned"}
    /\ result \in {"none", "invalid", "text", "error", "file"}
    /\ runs \in 0..2
    /\ expired \in BOOLEAN /\ cancelled \in BOOLEAN /\ broken \subseteq Pipe
    /\ child \in {"none", "running", "exited", "failed"} /\ kept \in BOOLEAN
    /\ written \in [Pipe -> 0..MaxChunks]
    /\ pipe \in [Pipe -> Seq(1..MaxChunks)] /\ \A p \in Pipe : Len(pipe[p]) <= PipeCap
    /\ drainer \in [Pipe -> {"off", "reading", "holding", "done"}]
    /\ held \in [Pipe -> 0..MaxChunks] /\ header \in BOOLEAN
    /\ waiter \in {"off", "reading", "draining", "waiting", "error", "late", "code", "closed"}
    /\ scratch \in Seq(Chunk)

\* How many of the first n lines of the scratch file came from p.
Received(p, n) == Cardinality({i \in 1..n : scratch[i].from = p})

\* Of each pipe the result has a prefix of what was written, in order, the
\* header before the first piece of stderr only, and all of it unless a read of
\* that pipe failed, the last line says that time ran out, or the caller no
\* longer wants it.  A failed read is told by nothing in the result; it takes
\* nothing from the other pipe.  The line about the child's end comes after
\* everything else.
StreamIsWhole ==
    result = "file" =>
        /\ \A i \in DOMAIN scratch : scratch[i].from \in Pipe =>
              /\ scratch[i].chunk = Received(scratch[i].from, i)
              /\ scratch[i].head <=> (scratch[i].chunk = 1 /\ scratch[i].from = "stderr")
        /\ \A p \in Pipe : \/ Received(p, Len(scratch)) = written[p]
                           \/ p \in broken \/ cancelled
                           \/ \E i \in DOMAIN scratch : scratch[i].from = "late"
        /\ \A i \in DOMAIN scratch : i < Len(scratch) => scratch[i].from \in Pipe

\* A child that floods one pipe while it says nothing on the other is read all
\* the same: it never waits until the deadline for room.
FloodDrains ==
    \A p \in Pipe : Len(pipe[p]) = PipeCap ~> \/ Len(pipe[p]) < PipeCap
                                              \/ Done \/ phase # "streaming"

\* Once the child has ended, time has run out or the caller has left, the call
\* returns, unless a process left behind keeps a pipe open: the deadline does
\* not bound that.  A second run, after an error, is taken to return.
CallReturns == (Done \/ child \in {"exited", "failed"}) ~> (phase = "returned" \/ []kept)
===============================================================================
