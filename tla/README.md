# Verification of exoclaw-go

TLA+ specifications of the parts of exoclaw-go in which order, interleaving and
failure matter: the agent loop and its message bus, the turn engine, a tool call
and what it streams, the request to the model, the prompt and the tools offered
with it, the session log with its background summaries, the cron scheduler, and
the life of the whole process with its channels. TLC checks them on small
instances and TLAPS proves the central invariants for every instance.

Paths below are relative to `src/`. `PROJECT.json` maps every definition to the
lines it models, lists the hazards of the code at their lines, the runs, the
mutants (plausible bugs, each of which makes a checked property fail) and the
theorems.

## 1. Inventory

### Components, their state and their operations

| component | files | state | operations |
|---|---|---|---|
| message bus | `exoclaw/bus/queue.go` | two bounded channels, inbound and outbound | publish (blocks on a full queue until there is room or the context ends), consume (Run polls with a timeout of one second) |
| agent loop | `exoclaw/agent/loop.go` | `running`, `activeTasks` (cancel handles by session key), `processingMu`, `currentTCtx` | `Run`, `handleStop`, `dispatch`, `processMessage`, `ProcessDirect`, `Stop` |
| turn engine | `exoclaw/agent/loop.go` | locals of a turn: iteration, recovery attempts, pending tool calls, the request | `processTurnInline`, `runAgentLoop`, `invokeTool` |
| executor | `exoclaw/executor/direct.go` | a message buffer per turn context, one fallback buffer, scratch files | `BuildPrompt`, `LoadMessages`, `AppendMessages`, `SetMessages`, `ExecuteToolWithHandle`, `PostTurn` |
| lifecycle hooks | `exoclaw/agent/hooks.go`, `exoclaw/agent/loop.go` | deciders by event | `before_tool`, `before_finish`, `agent_end` |
| conversation | `conversation-file/conversation.go` | `consolidating`, `turnChannel`, goroutines of maintenance | `BuildPrompt`, `Append`, `PostTurn`, `Clear`, `RecoverFromOverflow`, `scheduleMaintenance`, `runMaintenance`, `fireAgentHooks` |
| session manager | `conversation-file/session/manager.go` | the log (a JSONL file per session), the cache of sessions with their totals | `GetOrCreate`, `SaveAppend`, `Save`, `Clear`, `Count`, `RepairAndProject` |
| summarizing policy | `conversation-file/summarizing_policy.go`, `consolidation_state.go` | the sidecar: a summary and the index it reaches to | `Transform`, `OnTurnComplete`, `RecoverFromOverflow`, `repairBoundary`, `LoadState`, `SaveState`, `DeleteState` |
| prompt context, skills | `conversation-file/context.go`, `skills.go` | `activeOptionalTools`, one set for all turns; skills on disk, a cache of their metadata | `BuildMessages`, `BuildSystemPrompt`, `CompactToolResults`, `ActiveTools`, the skills' allow-list, requirements and tools |
| cron service | `tools/cron/service.go` | the store, its JSON file and last mtime, one timer, the deferred queue, `mu` | `Start`, `Stop`, `AddJob`, `RemoveJob`, `UpdateJob`, `EnableJob`, `RunJob`, `ListJobs`, `onTimer`, `heartbeatLoop`, `FlushDeferred` |
| cron tool | `tools/cron/tool.go` | none; a context flag `keyInCron` | one call per action of the service |
| channel manager | `exoclaw/channels/manager.go` | channels by name, the dispatcher's cancel function and its done channel | `StartAll`, `StopAll`, `dispatchOutbound` |
| stdin channel | `channels/stdin/stdin.go` | a reader goroutine, its cancel function | `Start`, `Stop`, `Send`, `readLoop` |
| app, main | `exoclaw/app/app.go`, `cmd/exoclaw/main.go` | the goroutines and the context of the process | `run`, `Exoclaw.Run` and what both defer |
| tool registry | `exoclaw/agent/tools/registry.go`, `protocol.go` | the registered tools | `GetDefinitions`, `Execute`, `StreamDispatch`; casting and validating parameters |
| streaming tools | `tools/workspace/shell.go`, `filesystem.go` | of a call: a child with two pipes, two drainers, a goroutine that closes the stream | `ExecuteStreaming` of `exec` and of `read_file` |
| provider, http client | `providers/openai/provider.go`, `exoclaw/http/http.go` | of a call: the model being asked, the body, the goroutine that scans it, what was collected | `Chat`, `chatOnce`, `SendStreamingBody`, `consumeSSEStream`, `consumeOneShot`; `StreamPost`, `IterLines` |
| memory, web tools, utilities | `conversation-file/memory.go`, `tools/workspace/web.go`, `exoclaw/utils` | none that outlives a call | text and I/O |

### Interactions

A channel publishes an inbound message. `Run` takes it from the bus and starts a
goroutine, `dispatch`, which waits for `processingMu` and runs the turn. The turn
asks the conversation for a prompt, the provider for responses, runs tools, and
appends every message to the executor's buffer and to the session's log. Progress
and the reply go to the outbound queue, which `dispatchOutbound` drains into the
channels. `/stop` is handled by `Run` itself. When a turn ends, the conversation
may publish `agent_end` hook messages to the *inbound* queue, from inside the
lock, and may start a goroutine that summarises old messages. The cron service
fires jobs, from its timer's goroutine or its heartbeat's, into a callback that
publishes an inbound message, while it holds the service's lock; a turn that calls
the cron tool needs the same lock. `ProcessDirect` runs a turn on the goroutine of
its caller, without `processingMu`. All turns share one `ContextBuilder`, whose
active tools the next system prompt replaces. A tool that streams hands its output
to the executor through an unbuffered channel, and the provider reads lines from
a goroutine the same way: whoever leaves early leaves somebody waiting. One
context, cancelled by a signal, tells everybody to end.

### What is hard

- *Interleavings.* Tasks of several sessions, `/stop`, `Run`'s clean-up and a
  task's own epilogue all change `activeTasks`; `ProcessDirect` and dispatched
  turns share `currentTCtx` and the executor's fallback buffer; maintenance
  goroutines, a turn's overflow recovery and `Clear` share one sidecar; direct and
  dispatched turns share the builder's active tools.
- *Blocking.* Publishers block on full queues while holding `processingMu` (hooks,
  replies) or the cron service's lock (due jobs), or on `Run`'s own goroutine (the
  reply to `/stop`). A reader of standard input cannot be interrupted. Pipes fill,
  and a process that inherited one outlives the shell.
- *Streams.* A server may send anything, break off or fall silent at any point;
  [DONE] need not be the end of the body; fragments of calls are interleaved; a
  budget and a timeout race the lines. Two pipes end in one channel.
- *Crashes.* The log, the sidecar and the cron file are all a restart has. A turn
  breaks off between a tool call and its result; `onTimer` fires before it saves;
  a one-shot job held back for the heartbeat is only in memory; `Clear` takes two
  steps.
- *Stale reads.* The cached total of a session, the pointers in the deferred
  queue, the mtime of the cron file, the cancel handle compared by its address.
- *Time.* A timer that goes off while an operation re-arms it, moments that pass
  while the service is down.

### What makes each component correct

- *Bus and loop*: every message taken is settled exactly once, without a reply
  only if its turn replied itself or somebody withdrew it; `/stop` reaches all of
  its session's tasks and no others; a live task stays stoppable; a turn's tools
  see that turn's session; a shutdown leaves no goroutine.
- *Turn engine and executor*: a request is one a provider accepts; a turn never
  runs ahead of the log, which keeps excerpts of results; limits hold; scratch files live as long as their turn.
- *Conversation*: one consolidation at a time; a sidecar describes the log beside
  it, splits no call from its result, and never hides the turn in progress.
- *Cron*: no scheduled job is overslept; a one-shot schedule fires once, and does
  fire; the file holds what memory holds.
- *Provider*: the answer is the stream, up to [DONE]; no model is asked once
  another has begun to answer; no goroutine is left; the call returns.
- *Tool call*: a streamed result is in order, and whole unless time ran out, the
  caller left or a read failed; a flood on one pipe does not stop a child; the call returns.
- *Prompt*: no more is compacted than has to be, and what was stays so; a turn is
  offered the tools of its own skills.
- *Process*: no ring of locks and full queues forms; at the end nothing that was
  waited for is cut off, and the end comes.

## 2. Modules

| module | models | used by |
|---|---|---|
| `MessageService` | the promise of the loop, without threads, locks or queues | `AgentLoop` (refinement) |
| `AgentLoop` | the bus, `Run`, tasks, the lock, stop, shutdown, the outbound dispatcher | `MCAgentLoop`, `AgentLoopProofs` |
| `History` | well-formed histories and `RepairAndProject` | `TurnEngine`, `Conversation` |
| `TurnEngine` | turns with their executor buffer and session logs | `MCTurnEngine`, `TurnEngineProofs` |
| `Conversation` | one session's log, cache, sidecar and consolidations | `MCConversation`, `ConversationProofs` |
| `CronService` | the scheduler and its file | `MCCronService`, `CronServiceProofs` |
| `Provider` | a request to the model: chain, stream, scanner, budget and timeout | `MCProvider.cfg`, `ProviderProofs` |
| `ToolCall` | a tool call: the executor, `exec` and `read_file` with their streams | `MCToolCall.cfg`, `ToolCallProofs` |
| `Prompt` | the prompt of a turn, its compaction, and the tools it is offered | `MCPrompt`, `PromptProofs` |
| `App` | the process: `run`, `Exoclaw.Run`, channels, dispatcher, loop, turns and due jobs on one bus | `MCApp.cfg`, `AppProofs` |

`App` is the composition: the loop, its turns, the channels and the cron service
meet in the two queues and the two locks. It keeps of each what the others can
wait for, and leaves the rest to the module of that part.

Definitions marked "Defect" beside a definition are its mutants; no behaviour
uses them.

### AgentLoop

`loop` is the program counter of `Run`: `"top"` (the check of the context and of
`running`), `"consume"` (inside the polling consume), `"stopping"` (inside
`handleStop`, about to publish), `"exited"`. `task[r]` is the place of each
message and each `ProcessDirect` call:

| `task` | code |
|---|---|
| `unsent`, `queued` | not published yet; in `MessageBus.inbound` |
| `handling` | `/stop`, in `handleStop` |
| `waiting` | the goroutine of `dispatch`, before or at `processingMu.Lock` |
| `entered`, `prompting`, `turn`, `posting` | in `processMessage`: before `currentTCtx` is set, before the prompt is built (which sets `turnChannel`), in the model and tool loop, in the firing of hooks |
| `reply` | back in `dispatch`, before the final publish |
| `done` | the goroutine has returned |

Each action is one step between two points at which another goroutine can act.
`SpawnTask` registers the handle and spawns (loop.go holds `activeTasksMu` for
it); `HandleStop` takes and cancels the handles of its key; `ReplyToStop` is a
separate step because it can block. A publish under a context that is done may
deliver or drop, as Go's `select` may take either ready branch. At a
shutdown, `RunExits` cancels what is registered and returns, waiting for nobody. What happens inside a turn is `TurnEngine`'s business; here a turn may
emit progress, end, fail, or notice its cancellation, at any time.

The refinement mapping `StatusOf` reads the abstract status off `task`,
`cancelled` and `answers`; the abstract `down` is `ctxDone \/ loop = "exited"`.

### TurnEngine

`pc` has one value per point of `processTurnInline` and `runAgentLoop` at which
the turn calls out or may break off: `prompt`, `user` (persist the user's
message), `iterate` (the loop head), `chat`, `tools`, `finish` (before-finish
hooks), `post`, `return`. `Emit` is the loop's append: buffer first, then log; a
log that fails ends the turn with the buffer ahead of the log. A response of `n`
calls becomes `n` steps in order, each a rejection, an execution or a streamed
result. `Recover` replaces the buffer's prior by any shorter tail of the log,
repaired, the outcomes `RecoverFromOverflow` can have; `Conversation` says which
of them it picks.

Messages carry the turn, the kind, the iteration and the ids of the calls they
make or answer. `bare` is an assistant message with calls and without text,
`empty` one with neither: `prepareTurn` drops both (finding below). `file` is a
streamed result: the request names a scratch file with its text, which `PostTurn`
removes; the provider falls back to the preview when the file is gone. The log has
no result in full: `Logged` makes an `excerpt` of it, because `prepareTurn` cuts an
inline result after 500 bytes, and of a streamed one the loop persists the preview
(256 bytes at most) without the path. A compaction takes the buffer from the log, so
that the turn's own results become excerpts too.

The prompt is built into the buffer bound to the turn's context, `prompt`;
requests are loaded from the executor's own, `prior \o delta`, as the code does
(finding below). `DirectExecutor`'s lazy prior needs a conversation with
`LoadPersistedHistory`, which `DefaultConversation` does not have.

### Conversation

`log` and `sidecar` are the files, `cached` the total in the manager's cache
(`NotCached` when the session is not loaded), `job[p]` what consolidation `p` has
loaded, and `consolidating` the mark in the conversation. `Worker` are the
goroutines of maintenance; `Recovery` is the turn's own consolidation. A
consolidation is scheduled, looks again and loads the sidecar (`Begin`, or
`StartRecovery`), reads the count and the chunk (`ReadChunk`), waits for the model,
and saves what it loaded, advanced (`Advance`). Only these points matter: between
them it touches nothing shared. A summary is the set of messages folded into it.

`SaveAppend` leaves the cached total as it was when the session was loaded; the
model has it so, and `Count` with it. In the process in which a session began,
maintenance therefore never finds a full window and an overflow finds nothing to
shorten; consolidation happens after a restart. That also keeps a recovery from
folding away the messages of the turn it serves: `InFlightTurnShown` depends on
the stale total, and the mutant that counts appends breaks it. Whoever repairs
the total has to bound the chunk by the start of the turn.

A `Clear` that is interrupted, whose `Save` or `DeleteState` fails, or that meets a
summary already in the making can leave a sidecar about messages that are gone.
The code has nothing against that, so the properties about sidecar and log hold
until the first such clear; `disturbed` remembers it. Clears that race with a
consolidation at any earlier stage are within the properties.

### CronService

Every operation of the API holds `Service.mu` from beginning to end and is one
action. `onTimer` and `FlushDeferred` hold it too, but call `OnJob` before they
save, so they are split, with `lock` saying who holds the mutex; `Crash` can come
between any two of their steps. `TimerGoesOff` starts the goroutine (`late`) and
`OnTimer` is its getting the lock, with any number of operations in between.
`tick` is a heartbeat that has looked at `running` and not flushed yet. `fresh`
stands for "the store is loaded and the file's mtime is the one last written";
an edit by hand ends it, and pointers in `deferred` then no longer point into the
store (`live`). A save can fail, up to `MaxFailures` times; the code then returns
before arming the timer, which `unarmed` remembers.

Times are ticks; a recurring schedule is a fixed period (the arithmetic of cron
expressions belongs to a library).

### Provider

`phase` is where `chatOnce` stands: `connecting`, `first` (waiting for the first line
under its budget), `reading`, `draining` (after [DONE], waiting for the error of the
scanner, while a goroutine takes what is left). `wire` is what the server has sent
of this answer and `seen` how much of it the goroutine of `IterLines` has read;
`producer[k]` is that goroutine of attempt `k`, which may outlive it. Server, clock
and cancellation are actions without fairness, but for the request timeout, which
is a timer.

A line is what the parser makes of it: text, a fragment of a call with or without
its name, [DONE], or noise. A fragment's content is the number of its line, so that
a lost, repeated or misplaced one shows.

The code as it is, and the model with it: an answer that ends without [DONE] is
taken as complete; any line, a comment included, satisfies the budget (the comment
at `provider.go:495` speaks of the first event); a caller that cancels before the
first line gets a retryable error, and the chain is walked on; a line that arrives
as the budget runs out leaves the goroutine that holds it for ever.

### ToolCall

`phase` is `invokeTool`, `drainer[p]` the goroutine that drains a pipe, `waiter` the
one that waits for both and for the child, adds a last line and closes the
channel. A send on the unbuffered channel and its receipt are one step, `Receive`;
the executor may fail to write and leave. `kept` is a process the child left
behind with the pipes open: the deadline kills the shell only.

`invokeTool` answers any error of `ExecuteToolWithHandle` by running the tool once
more, without a stream. A scratch file that cannot be written makes a command run
twice that has already acted. That last goroutine sends its line without looking
at any context: left by the executor, it stays. `read_file` streams a whole file
past the limit its other path has.

`drainPipe` and `read_file`'s loop take any read error for the end of the input:
`ReadFails` and `FileFails` end them at any read, with what is left unread lost and
no line about it. `broken` is history, the pipes (a file counts as stdout) where
that happened.

### Prompt

`active` is `activeOptionalTools`, which `BuildSystemPrompt` replaces; requests are
offered what is active when they are made, not what was active when their turn's
prompt was built. `Direct` turns take no lock and may ask for skills (nothing
published on the bus can). `own` and `others` are history: what a turn's own prompt
activated, and the prompts built since. `RecoverFromOverflow` builds a prompt without the
turn's skills, so that the turn goes on without their tools, although
`conversation.go:369` speaks of the "current turn's skills"; nor does it compact.

A message is a role and a size. The log is what the policy shows of the session;
`Shortened` are the views it may show once more was summarised. `load_skill` is not in
the model: `context.go:361` says that the command line wires it, but nothing calls
`NewLoadSkillTool`.

### App

`main` follows `run` and `Exoclaw.Run` to the exit; `starter`, `dispatcher`, `reader` and `loop`
are the goroutines they wait for, `waiting` and `turn` the ones they do not. A due job
holds the cron lock (`cron = "firing"`) until it is published, under a context that
is never done. A turn may call the cron tool, and holds `processingMu` meanwhile.
Actions of the world (typing, Ctrl-D, the signal, a due job) have no fairness.

The code as it is: after the signal, `Stop` of the terminal waits for `Scan`, which
only returns when the user presses Enter or closes the input (`AwaitsInput`); a due
job that found the inbound queue full waits for room that nobody makes any more,
and `Service.Stop` waits for its lock (`AwaitsRoom`). Ctrl-D, which `main.go:136`
announces as the exit, ends the reader only. Turns are not waited for, and replies
still queued are lost. Without channels there is no dispatcher, and nobody takes
replies off the outbound queue.

## 3. Runs

| run | asks | bounds |
|---|---|---|
| `agent_dispatch` | are tasks stoppable, is the tool context a turn's own, is `/stop` exact, is `MessageService` implemented | a chat, a command and a `/stop` of one session, a hook, a direct call of another; queues of one place |
| `agent_liveness` | is every message settled, does a shutdown complete | a system message, a `/stop`, a hook; queues of one place |
| `cron_schedule` | overslept jobs, repeated one-shots, file against memory | two jobs with moments 1 and 2, clock to 2, a failed save, a stop or crash |
| `cron_liveness` | does a one-shot job fire | one job, clock to 3, an edit by hand, a failed save, two restarts |
| `turn_protocol` | does every request pair calls and results, also after a turn that broke off; buffer against log; scratch files | two turns of one session: one of a single iteration, one of three with two calls each; two compactions |
| `turn_buffer` | *violation:* does a turn see its own buffer | two turns of two sessions |
| `conversation` | one consolidation, sidecar against log, the turn in progress, the view | two workers and the turn's recovery, window 2, up to two calls, seven messages, a clear, two restarts |
| `conversation_forgets` | *violation:* is every message shown or summarised | the same |
| `provider` | is the answer the stream, is a begun answer final, do goroutines end, does the call return | one fallback, two indexes of calls, three lines per answer |
| `tool_call` | is a streamed result in order and whole but for the known cuts, does a flood drain, does the call return | pipes of one place, three chunks on each |
| `prompt` | how much is compacted and for how long, whose tools a turn is offered | nine messages, results of 4 and a marker of 1 under a budget of 13, three skills, a dispatched and a direct turn |
| `app` | is the shutdown in order and does it end, is all work finished until then | one terminal with a line to type, two due jobs, queues of one place |

*Why the bounds are enough.* Queues of one place make every publish block that can
block. Two runners of one session and one of another are what `/stop`, the lock
and the tool context can tell apart: their code compares keys and holders only;
the proofs of section 5 remove this bound. Two jobs make the earliest next run
differ from another's; three ticks allow before, at and after a moment. A second
restart allows a start after a crash in the start's aftermath. Two calls in a
response are the least with which one is answered and the other not; three
iterations allow a tool round, a compaction or a nudge, and another tool round, and
the first turn need only break off, for which one iteration is enough
(`FirstIsShort`). In `conversation`, a window of two and seven messages allow two
consolidations, one of which ends between a call and its results; two restarts
allow a total to be cached, become stale and be read anew. Symmetry is used in
`conversation` only, over workers, none of which is named in a property.

Three lines allow a call in two pieces with one of another call between them,
[DONE] with a line behind it, and a break after output; one fallback has a first
and a last model. With three chunks a pipe of one place is full while its drainer
holds another, on both sides. Nine messages hold two long results older than the
last four, so that one may be replaced and the other not, and a later prompt may
have to replace the second; skills that are plain, always on and not allowed
differ in every set the code forms. Two jobs fill the inbound queue and block on
it; a line and a job compete for it, and a turn may wait for the cron lock. More
than one terminal adds nothing the others can see but the order of `StopAll`, which
the theorem about `App` covers.

*Deadlock* is checked where the system never rests for good. `conversation` (an idle
session with its budget of messages used up), `provider` and `tool_call` (the call has
returned) and `app` (the process has exited, or waits for its user) turn the check
off; their liveness properties say where they may rest. `AgentLoop` may rest when
shut down (`Terminated`), `TurnEngine` when all turns are over (`AllOver`), `CronService`
where the model's clock ends (`ClockStops`); these are explicit stutters, so that any
other stop is an error.

*Fairness.* `AgentLoop!Fairness`: goroutines are scheduled (WF of `Run` and of the
dispatcher); a turn ends, because of the iteration limit and of clients' timeouts
(SF of each message's steps); Go serves the waiters of a mutex and the senders of
a channel in turn, so what is enabled again and again happens (SF of `Acquire`,
`ReplyToStop`, the publishing steps); a message that is there when a poll begins
loses to its timer of one second only rarely (SF of `SpawnTask` or `HandleStop`).
Nothing makes anybody publish a message or cancel the context.
`CronService!Fairness`: time passes, the runtime's timers go off, their goroutines
get the lock (SF, as above), and the heartbeat ticks, which assumes it is
configured (`CRON_HEARTBEAT_MS`; its default is none). Nothing makes anybody call
the API, restart the service or write the file.
`Provider!FairSpec`: the caller and the two goroutines run (WF), and the request's
timeout goes off; the server, the caller's context and the budget owe nothing.
`ToolCall!FairSpec`: goroutines run, and the kernel kills a child whose context is
done; no child has to write, end or let go of its pipes, and no read has to fail. `App!FairSpec`: each
goroutine runs (WF), which includes that a turn ends and that a terminal takes
what is written to it; no user types, no signal and no job has to come. WF is
enough there: of two publishers that compete for a place each finds room again
only if the loop goes on, and no property asks that one of them wins.

## 4. What the runs show

*Holds.* A live task is registered under its session and `Run` is there to reach
it; `/stop` cancels exactly its session's earlier tasks, at whatever stage; a turn's
tools see that turn's session, unless a `ProcessDirect` call came between; each
message gets at most one final reply, and one without a reply was quiet or
withdrawn; nobody hangs on a full queue or at a shutdown. The timer always covers
the earliest next run; a one-shot schedule fires once despite deferral, crashes
and late goroutines; the file holds what memory holds; an undisturbed one-shot job
fires. Whatever a turn does, its calls and results match in every request as long
as no direct turn runs beside it, its buffer is on record (but for responses
without text, and with results as excerpts: a crash takes the rest of them), and the next prompt is accepted wherever it broke off. Background consolidations exclude each other; the
sidecar is about its log and splits no pair, although a recovery does not
exclude a background consolidation.

A chat returns whatever the server does; its answer is the stream up to [DONE]; no
fallback is asked once output was read; a goroutine outlives its attempt only where
the first line raced the budget. A tool's streamed result has each pipe's output in
order, and in full unless the line about the timeout is there, the caller has left or
a read of that pipe failed, which nothing in the result tells; a flood on one pipe does not wait
for the other; the call returns, unless a process left behind keeps a pipe open.
Compaction replaces the oldest results, as few as fit the budget, and keeps what it
replaced. A turn is offered its skills' tools unless another prompt was built
meanwhile. Until the signal no ring of locks and queues stops the process; after it
everything waited for ends in order, or one of two waits goes on for ever (section
2, App).

*Does not hold* (`findings` in PROJECT.json):

1. `turn_buffer`. The loop loads and appends without the turn's context: requests
   lack the prompt, and hold other sessions' messages.
2. `conversation_forgets`. `repairBoundary` moves the boundary past messages that
   were not in the chunk: they are neither in the summary nor in the view.

*Refuted as well*, by configurations kept beside the modules and run by hand
(`tlc -config MCAgentLoopStopCount.cfg MCAgentLoop`, and so on):

- `StopCountsLiveTasks` (`MCAgentLoopStopCount.cfg`). `dispatch` compares the addresses of
  two variables to find its own handle and never finds it: handles of finished
  tasks stay, and `/stop` counts them.
- `NoMidTurnWorkLost` (`MCTurnEngineLost.cfg`). A response with calls and no text is not
  written to the log, as `prepareTurn` looks for `tool_calls` under a type the loop
  does not use.
- `OneShotNotLost` (`MCCronServiceLost.cfg`). A one-shot job whose moment passes while
  the service is stopped never fires and never goes away; one held back for the
  heartbeat is lost by a restart.

Seen while modelling and not the subject of a run: a hook turn fires hooks itself
if a direct call overwrites `turnChannel` in between (in `AgentLoop`, by `hookTurn`);
`ListJobs` and its like load an edited file without arming the timer; the cron tool
refuses to add jobs from inside a job by a context flag, `keyInCron`, which only a
test sets, since jobs reach their turn through the bus; optional parameters given
as null are refused by validation; and what section 2 says of the code as it is.

## 5. Proofs

TLAPS checks them for all values of the constants that satisfy the named
assumptions (`ConstantsOK`, `TurnConstants`, `ConversationConstants`,
`CronConstants`, `ProviderConstants`, `ToolCallConstants`, `PromptConstants`,
`AppConstants`), which TLC evaluates in
every run.

*AgentLoopProofs.* `NextCases` lists the actions once; each invariant has a step for
each of them.

- `TypeCorrect`. `TypeOK` is inductive; the queues stay within their capacities
  because every publish is guarded by room.
- `LiveTasksStayStoppable`. `LiveTasksStoppable` alone is not inductive: a `/stop`
  that empties the handles of its key must be known to hold no live task of
  another. The strengthening `StoppableInv` adds that handles are filed under the
  key of their message.
- `StopCorrect` (an action property) follows: a live, uncancelled message of the
  key is registered, so it is cancelled; whatever is registered has that key.
- `ToolContextCorrect` and `OneTurnAtATime`. `LockHeld` (whoever is past the lock
  holds it) is inductive with types; on top of it `ContextPublished`, that
  `currentTCtx` is the holder's unless a direct call has started.
- `LoopImplementsService`. Under the mapping `StatusOf` each of the loop's steps is a
  step of `MessageService` or a stutter. It needs `StoppableInv`, that what is in the
  queue is distinct and `queued`, that `handling` goes with `loop = "stopping"`, that
  a stop has no handle, and that a message has no answer before it is done:
  otherwise a step could answer twice, or cancel what the service has settled.

*TurnEngineProofs*, for any number of turns, side by side or not:

- `TypeCorrect` and `TurnsAreBounded`. Iterations and recoveries stay within their
  limits, whatever model, tools and hooks do; what `RepairAndProject` makes of a
  history is one.
- `DurableBuffer`. `DurableInv` strengthens `BufferIsDurable` by turns that have not
  begun, which have nothing in the buffer; logs only grow. The property asks for an
  entry of the same calls, of a result an excerpt, without using `Prepared`:
  `EntryOnRecord` shows that what is flushed is one.
- `NoScratchLeft`. Files of a turn exist only while the turn is active or after it
  has failed.
- `PromptsAreWellFormed`. A history is `Sound` when each id is called by one message,
  answered by one that answers nothing else, and answered after the call. Every
  end of a sound history is sound (`SuffixIsSound`), and so is what
  `RepairAndProject` keeps of it, in which no call is open (`KeptIsSound`); such a
  history is well-formed (`SoundIsWellFormed`). The comment of `RepairAndProject`
  speaks of calls "earlier in the list"; its code does not look at the order, and
  need not, because logs are sound. That the logs and the buffer stay sound is
  `HistoryInv`: a new call has an id that no message has, and a result answers a
  call nobody has answered. `Known` and `Fits` say why: ids name their turn and
  iteration, and a message is never ahead of where its turn is.
- `CallsAnswered`, if no turn is direct. Then turns do not overlap (`Alone`), and what
  the buffer has of the one at work lacks only the results of the calls in `todo`
  (`Balanced`), also behind a compaction. The hypothesis is needed: turns share
  the executor's buffer, and a compaction by a direct turn between a call and its
  result takes the call away and leaves the result to come (TLC shows it when
  `Direct` is `{second}` in `MCTurnEngine.cfg`).
- `StreamedStaysReadable`, for direct turns too. `Streamed`: what the buffer has of an
  active turn's streamed results is in files, a compacted history names none, and
  a file of another turn has another name.

*CronServiceProofs*, for any jobs and schedules. `Committed` puts all operations of the
API under one name: each replaces the store by another, saves it and arms the
timer, and schedules no one-shot entry except for a moment to come (`ApiCommits`).

- `TypeCorrect`. `Typed` adds to `TypeOK` that what `onTimer` still has to do is in the
  store, without which firing it would not be typed.
- `NothingOverslept`. `TimerCoversStore` speaks of the times the lock is free. The
  timer also covers the store while a flush holds the lock, and that is needed,
  because a flush does not arm it: `Covered`.
- `FileFollowsStore`. `FileMatchesStore` is inductive: whoever frees the lock has saved, or
  a save has failed, or somebody wrote to the file (`fresh`).
- `OneShotsFireOnce`. As long as nobody edits the file (`OnceInv`): a one-shot entry
  with a next run has its own moment for it; once fired or held back, that moment is
  past and the entry has no next run in the store, so that no operation or restart
  schedules it again; it has at most one handle in each queue, and none once fired.
  That needs the store to be the one in memory whenever a heartbeat may load it
  (`KeepsFresh`).

*ConversationProofs*, for any window and any number of goroutines.

- `TypeCorrect`. The boundary that `repairBoundary` looks for exists: the last
  candidate, the count, always stops it, and a set of naturals has a least element.
- `OneAtATime`. `BusyInv`: whoever is past its second look has the mark, is the only
  one, and somebody has it when it is set.
- `SidecarAboutLog` and `TurnStaysInView`, both from `CleanInv`. `SidecarMatchesLog` alone
  is not inductive, since a consolidation saves what it loaded long before. What it
  loaded is about the log, or the log was cleared since and the count is zero, so
  that it finds nothing to do; what is in the making lies within its count; that count
  is within the log, and within what was there when the turn in progress began,
  because the cached total stays behind. `Exclusive` (a clear comes between turns)
  is inductive beside it.
- `PairsStayTogether`. Results follow their calls without a gap (`PairInv`), so that a
  boundary with no result right behind it divides no pair; and the count, where
  `repairBoundary` gives up, was taken between two turns and divides none either
  (`CutInv`).
- `ViewIsAccepted`. The log is sound (`LogInv`, on top of `PairInv`), and so is what any
  boundary leaves of it, also one that a disturbed clear left behind; the rest is
  `RepairAndProject`'s, by the same lemmas on histories as in *TurnEngineProofs*.

*ProviderProofs*, for a chain of any length and any answers.

- `TypeCorrect`. `TypeOK` is inductive together with `Scanned`, how far the scanner can
  be ahead of the parser.
- `ResponseWhole`. What has been put together of an answer is, in order, the lines of
  text and of each call among those taken so far (`AnswerInv`); a line is taken once
  and next to the last; and an answer is returned only when the stream is over,
  at [DONE] or at its end.
- `ProducersEnd`. `ProducerEnds` says nothing of the attempt under way; `Attempts` adds
  that attempts to come have no goroutine, that the current one has none before
  its answer begins, and that only a goroutine that has ended fills the error
  channel, so that whoever leaves on account of it leaves nobody.
- `OutputIsFinal` (an action property). Every `GiveUp` that leads to another model happens
  before the first line, and before it nothing has been kept: `NothingYet`.

*ToolCallProofs*, for any numbers of chunks and any capacities.

- `TypeCorrect`. The type invariant is inductive.
- `StreamWhole`. Of each pipe, the chunks in the scratch file, then the one its drainer
  or the consumer holds, then those in the pipe, are numbered without a gap, and the
  line about the child's end comes last. So a file that ends without the line about
  the deadline has all that was written to a pipe whose reads did not fail, each pipe's
  part in order. `PipeInOrder` claims the numbering while the drainer is at work;
  of a `broken` pipe only the order of what was received is left.

*PromptProofs*, for any skills, tools and turns.

- `OfferedTools`. What a turn was offered depends on what is active at that moment:
  `Builder` says that for every turn under way, the active tools are its own, if no
  prompt was built during it, or those of one that was.
- `CompactedAsNeeded`. `SessionInv`: what is replaced is what `CompactToolResults` says of
  the last prompt's messages. A result goes if the prompt was too large at its turn
  and at each before; the first one that stays is therefore the one at whose turn
  the prompt fitted.
- `CompactedStays` (an action property). In a prompt that continues another, what was
  eligible still is, with the same older ones before it, and no text is shorter.

*AppProofs*, for any channels, capacities, lines and jobs.

- `TypeCorrect`. `Typed` adds that there is no dispatcher before `StartAll` made one.
- `OrderlyShutdown`. `Ended` says at each point of `main` who has ended by then: loop and
  starter when `Run` begins to stop, then the dispatcher, then the channels stopped
  so far; and that none of them begins again.

*How the model helps.* What a recursion, a fold or a filter over a sequence computes
is known only by induction, which the provers cannot use. Three definitions
therefore say what they mean without one: `WithoutGaps` numbers the messages that
are kept by their rank, `Text` is a set of places and `Size` its cardinality, and
`CompactToolResults` is the set of results whose turn came.

*Only model-checked.* Liveness, which rests on fairness (`EveryMessageSettled`, the
`ShutdownCompletes` of `AgentLoop` and `App`, `OneShotRuns`, `ChatReturns`, `FloodDrains`,
`CallReturns`, `WorkIsFinished`). Every invariant and every action property of the
passing runs is also a theorem.

## 6. Not modelled

- Of the loop: the translation of session keys and the text of replies.
- Of the turn engine: `IterationPolicy`, executors that are a `TurnRunner`, the
  rewriting of parameters by a `before_tool` decider, uuid7 ids, and the path of a
  conversation that records whole turns (`Record`): `DefaultConversation` appends.
- Of the conversation: turns of one session side by side (through `ProcessDirect`),
  `AwaitMaintenance`, the migration of old session headers, `LoadRange` and
  `ListSessions`, which only read.
- Of the prompt: its wording, isolated prompts, the repair of a history in
  `BuildMessages`, memory files, `load_skill`, and `DropOldestHalf`, `TruncateOldestToolResults` and
  `SummarizeOldChunks`, which only tests call.
- Of the provider: request bodies, token counts, finish reasons, `Close`; a chunk
  boundary inside a UTF-8 character.
- Of tools: casting and validating parameters, pure functions of the schema, are
  an outcome (`ResolveFails`), as are the guard of `exec` and the resolution of paths;
  tools that do not stream are one call.
- Of cron: the arithmetic of expressions, several timers (there is one), the parsing
  of the tool's arguments.
- Iteration policies, utilities and test helpers: interfaces without state.

## 7. Plan

Done: `MessageService`, `AgentLoop` and the refinement between them; `CronService`;
`TurnEngine` with `History`; `Conversation`; `Provider`; `ToolCall`; `Prompt`; `App`; and
proofs of all their safety properties. Left, in order of importance:

1. The promise of a session as a specification of its own (messages appended, shown
   or summarised, accepted by the provider), and `Conversation` shown to implement it.
2. What holds of two turns that do share the buffer: which requests `CallsAnswered`
   could still promise a direct turn that is never compacted.
3. Isolated prompts in `Prompt`, and the session of a direct turn.
4. Casting and validation of tool parameters as pure operators against a reference
   definition.
