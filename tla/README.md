# turtlemap: a verification project

turtlemap is a Python framework for conversations between a user, language
models and tools. A *session* holds a stack of agents that have control, a queue
of inputs, the tasks of every agent and the history. A *run* drives one session:
it takes an input, asks the model, executes the tools the model calls, and goes
on until nothing is left to advance. Tasks pause for a human or a slow system,
and go on in a later run; a run may raise, its process may die, and the next run
starts from what the store holds.

This directory holds TLA+ models of that program, TLC configurations that check
them on small instances, and proofs checked by TLAPS. Paths are relative to the
repository; `K` is `src/turtlemap/kernel`, `O` is `src/turtlemap/os`.

## 1. Inventory

### 1.1 Runtime loop (`K/runtime.py`, `O/runtime.py`)

*State.* `session_state` (frames, input queue, per-agent task lists, history),
`runtime_input_queue` (an `asyncio.Queue`, the in-memory mirror of the durable
queue), `last_session_state` (the snapshot of the last checkpoint).

*Operations.* `init_session`, `run` (queue alignment, arrival of the input, first
checkpoint, loop), `_advance_completed_task`, `_advance_running_message_task`,
`_advance_running_tool_task`, `_process_new_input` (`_start_new_task`,
`_resume_runtime`), `_change_agent_frame`, `_pause_task_after_exception`, `finish`.

*Interaction.* One coroutine per run. Each handler changes the live session
synchronously and then awaits a checkpoint; the model, tools and listeners are
awaited too, and each await may raise. Everything else reaches the loop by
appending an input to the queue.

*Hard.* What a rollback to the last checkpoint or a crash leaves; answers that
arrive late, twice, or for a task of an agent that is not on top; the order of
inputs against wake-up inputs; a frame stack that changed while a task was paused.

*Correct when.* No input is processed twice or lost inside a run; a session always
has an owner; the stack matches the changes recorded in the history; paused tasks
survive and only their own answer wakes them; every run ends.

### 1.2 Tool service (`O/tool/service.py`, `O/tool/build_in/`)

*State.* Per tool task a list of execution units (`PENDING`/`FINISHED`, result).
*Operations.* `build_tool_execution_units`, `_filter_runtime_available_tools`, the
execution of each kind of unit: synchronous, with confirmation (preceded by an
HITL unit), asynchronous, handoff, `handoff_return`, `resume_task`, and the LLM
unit that closes a list and may append further units.
*Hard.* A unit is executed in another run, under another stack and after other
answers, than the one that built it.
*Correct when.* A finished unit is not executed again; a tool that needs approval
runs only after its own request was approved.

### 1.3 OS service (`O/service.py`)

*State.* None of its own. *Operations.* `load_session_state` (clean, repair, keep
five paused tasks per agent), `save_session_state` with the filter of buffered
events, `checkpoint_for_run_finish`, `perform_interruption_request`, background
compression. *Hard.* The background compression works on a snapshot while the run
changes, rolls back or hard-compresses the history.

### 1.4 Context building and compression (`O/context/provider.py`, `O/context/compress.py`, `O/store/memory.py`)

*State.* The session's history and mid-term memory (a summary), the compression
task record with its owner and lease, and, per background worker, a snapshot.
*Operations.* `build_llm_context` with the levels NORMAL, DISCARD_MID_TERM_MEMORY
and DROP_HISTORY of the hard limit; after an answer, the scheduling of a background
worker on the soft limit; `merge_compacted_result` into the session of the run and
into the latest stored one; create, take over and finish a compression task.
*Hard.* A worker waits for the model while the run grows, hard-compresses, saves or
rolls back the history, or ends; the same result is merged twice; leases expire.
*Correct when.* A session tells its history once and in order, what was stored is
not lost, a task belongs to one worker, a build and a compression end.

### 1.5 Event bus and collector (`O/event_bus/`)

*State.* Channels with listeners, a lock that knows the task that holds it, a
sequence counter shared by all channels; the collector's events by id.
*Operations.* `publish`, `subscribe`, `unsubscribe`, `close_event_bus`; `collect`,
`finalize_outputs`, which publishes a FINAL from the completion callback of a publish.
*Interaction.* The run, the tools it gathers and background compressions publish on
one channel; page, server and collector listen.
*Hard.* A publish inside a publish, without the lock it already has; listeners that
subscribe, leave or close the channel meanwhile; the order of publishers that wait.
*Correct when.* Sequence order is delivery order, the END of a collected chain is
answered by its FINAL before anybody else's event, no publisher waits for ever.

### 1.6 Message publisher and interceptors (`O/event_bus/message_publisher.py`, `O/interceptor/`)

*State.* Per event id and choice: text held back, and snapshots of what was shown
and of what the model's context got.
*Operations.* A chunk is passed, held or released, and released text may be
replaced by a replay of all of it; before END the rest is released.
*Hard.* A marker cut anywhere; content and reasoning that start, stop and are held
separately; a replay that covers what was already seen; FINAL built from increments.
*Correct when.* The context gets what the model said, the user sees the body
without the marker, the snapshots are what the listeners have.

### 1.7 Task event buffers (`O/models.py`, `O/runtime.py`, `O/service.py`)

*State.* Per task `event_buffer` with `did_replay`, which is not stored; per session
`finished_task_events`.
*Operations.* `ProcessingTask.publish` tells what the buffer holds before the first
event of a run, `_write_buffer` adds to it, saving folds it to FINAL events,
`_replay_finished_task_events_if_needed` tells what finished and was not told, at the
start and at the end of a run; `clean_state` forgets.
*Hard.* A run that fails goes back to the buffers of a checkpoint after the listeners
heard more; a run that dies leaves what a client may or may not have seen; the store
decides what a buffer knows of itself.
*Correct when.* The outputs of a run can be made, a task is told whole, in order and
once, what is stored can be told again.

### 1.8 Context projection (`O/context/projector.py`, `O/context/provider.py`)

*State.* None of its own; it reads the history, the current task, the stack, the
tools on offer and the clock.
*Operations.* Split the history into rounds, keep the latest round of each input,
group the rounds by agent, tell those of the called agent as messages and those of
the others as group input of the next round or the current input; drop or shorten
rounds whose tool is withdrawn or whose result has expired.
*Hard.* Any order of pauses, answers, retries, handoffs and wake-ups leaves some
history, and each agent reads it another way.
*Correct when.* Each call of a message is answered in place, nothing is lost, told
twice or out of order, no conclusion outlives the result it rests on.

### 1.9 LLM clients (`O/llm/`), shared helpers

Streaming conversion is I/O. The outcome of a model call matters to control and is in
the models, as is the size of a context against its budget.

### 1.10 Examples

`examples/mysql_store`: the session is saved by an optimistic update of one version,
or by an insert of the next one, retried on an integrity error; the messages of the
history are inserted once per run.

`examples/server`, over MySQL and Redis. *State.* Sessions, history, the index of
active runs, a stream of records per run, the requests being served. *Operations.* A
completion follows the active run of its message, or says that the page should be
loaded, or runs; loading a page follows the stored run or runs what it left; a run
writes records and heartbeats, saves the history, finishes the session, says
complete, leaves the index. *Hard.* Equal requests at a time, failures between those
steps, streams that expire, followers of a run that died. *Correct when.* A request
ends, an answered message is in the history once, a client hears a run without gap.

`web/` is a user interface and stays out.

## 2. Modules

| module | what it is |
|---|---|
| `SessionRuntime` | the session, the loop, the tool units, load, checkpoints, rollback, crash, caller; its properties |
| `InputLedger` | abstract: what the store promises about inputs |
| `SessionLedger` | the refinement mapping from `SessionRuntime` to `InputLedger` |
| `MCSession` | agent graphs and their symmetry for TLC |
| `SessionProofs` | type correctness, the control stack, agreement and order of the two input queues, the order every session keeps (one place per input, one request per paused task, approval, frames), what the store shows from checkpoint to checkpoint, and the refinement of `InputLedger`, proved |
| `HistoryCompression` | the history of a session, context build, hard limit, background workers, the memory and the MySQL store; its properties |
| `MCCompression` | the agents for TLC |
| `CompressionProofs` | a session tells its history once and in order, and in the memory store loses nothing; leases; proved |
| `Events` | the kinds, phases and chains of events, and which the collector follows |
| `EventStream` | abstract: what the bus promises a listener of one channel |
| `EventBus` | the channel with its lock, publishers, listeners, the callback of the collector; its properties and the refinement mapping to `EventStream` |
| `MCBus` | the publishers for TLC |
| `EventBusProofs` | order, answered ENDs and the refinement, proved |
| `MessageStream` | a streamed message: publisher, default interceptor, listeners; its properties |
| `MCStream` | the lengths of the texts for TLC |
| `MessageStreamProofs` | all the properties of `MessageStream`, for every text and every way to cut it, proved |
| `HistoryProjection` | from the history of a session to the messages of a model call, and the session that leaves the history; its properties |
| `Selections` | what a filter leaves of a list |
| `SelectionProofs` | the lemmas on filters and flattened lists of every length: members, order, cutting and joining, and what a list tells of which each element tells a list |
| `ProjectionProofs` | all the properties of `HistoryProjection`, for sessions of every length, proved |
| `TaskEvents` | the events of tasks over runs: buffers, replay, rollback, outputs, rows of the history; its properties |
| `TaskEventProofs` | all the properties of `TaskEvents`, proved |
| `ServerRequests` | requests on one session of the example server, over MySQL and Redis; its properties |
| `RequestProofs` | the safety properties of `ServerRequests`, proved |
| `MCProjection`, `MCTaskEvents`, `MCRequests` | their instances for TLC |

The two groups meet in the session: `SessionRuntime` has every handler of the loop
and a history that only grows; `HistoryCompression` keeps of the loop what touches
the history (close a task, checkpoint, roll back, finish) and adds what shrinks it.
The event modules meet in the chain of a message: `EventBus` shows that the events of
a chain reach every listener in order and that its FINAL follows, `MessageStream`
what those events carry and what the FINAL is made of, `TaskEvents` what becomes of the
FINALs over several runs, and `ServerRequests` what the server does with the records
made of them. `HistoryProjection` reads the history that `SessionRuntime` writes; it
has the artifacts of a task one by one, where `SessionRuntime` needs only one of each.

### 2.1 How SessionRuntime corresponds to the code

| variable | code |
|---|---|
| `live` | `Runtime.session_state` |
| `last` | `Runtime.last_session_state`, the deep copy taken by a checkpoint and by `init_session` |
| `stored` | the record in the state store, the only thing that survives the process |
| `rtQueue` | `runtime_input_queue` |
| `pc` | `idle` between runs; `starting` until the first checkpoint of `run`; `loop` at the head of the loop; `saving` while a handler awaits its checkpoint; `finishing` between the loop (or the pause after an exception) and the end of `finish` |
| `nextInput`, `nextReq` | fresh identifiers |
| `approved` | a history variable: requests to which a positive answer was applied |
| `used` | how much of each bound is used up |

One action is one handler up to its checkpoint. Inside a handler the code awaits
only calls that do not change the session (model, tools, listeners), so the
handler's change is one step and the checkpoint a second one
(`CommitRuntimeCheckpoint`); `Fail` may strike before, between and after,
`Crash` anywhere. A failure inside a handler and one before it differ only in
`live`, which the rollback throws away, so `Fail` stands for both.

A task is a record: start input, owner, message or tool state, status, tool calls
of its message, units, and its interruption request. The per-agent lists are one
set; the numbering of inputs gives back the order of each list, because a task is
appended to its agent's list when its start input leaves the queue, in order.
`history` keeps one artifact per saved exchange and per frame change.

`BeginRun` is `init_session` with the head of `run`. The caller is free: it starts
with nothing, a user message, a response to any request ever issued, or an event
of an unknown type; it resumes or not. The model is free: any list of at most
`MaxCalls` offered calls, any CONTINUE tag; tools and confirmed tools succeed or
fail, and an asynchronous result may be negative.

### 2.2 How HistoryCompression corresponds to the code

| variable | code |
|---|---|
| `live`, `safe` | `Runtime.session_state`, `last_session_state`; of the history each artifact's id and whether it opens a round; `mid` is the number of the text in `mid_term_memory`, 0 the empty one |
| `rows` | the session's rows in the store: one, or in MySQL one per version |
| `lease` | per agent the running `context_compression_task` |
| `object` | the identity of the live session object: a rollback and a new run make a new one, and a worker holds on to the one it started from |
| `pc`, `level`, `tokens`, `snap` | where the run is: saving, ready, building a context, in a level, waiting for a synchronous summary, in the model call; and the locals of `build_llm_context` |
| `workers` | `_run_background_compression` coroutines: snapshot and result, and between its awaits where each is |
| `work` | the size of the current task, which no compression can reduce |
| `told`, `acked`, `gone` | history variables: what a text tells of, what a checkpoint stored, what a hard limit threw away on purpose |

A step ends where the code awaits something that lets another coroutine change the
session or the store: the STARTED event of a level, the summary, the answer, each
call of the store. With the memory store the merge of a worker (callback, load,
merge, save) has no await in it that suspends, so `MergeInMemory` is one step; with
MySQL it is three (`MergeThenLoad`, `LoadLatest`, `SaveMerged`). A save is one
transaction: it moves the row of the caller's version, or appends after the latest;
where the unique key refuses, the retries meet the same row and the save raises.

`Cut` and `Absorbed` are the two reductions of the code: which prefix leaves the
history, and which rounds of it the model is shown.

### 2.3 How EventBus corresponds to the code

| variable | code |
|---|---|
| `holder`, `waiters` | the channel's `asyncio.Lock` and `locked_task` |
| `at`, `sending`, `number` | per publisher its place in `publish`, the event, its sequence number |
| `next` | `_next_sequence` |
| `open`, `listeners` | the channel's registration, its subscriptions besides the collector |
| `counted`, `raised` | the size of the subscriptions when the loop over them began, and who met `RuntimeError` for its change |
| `log`, `order` | the channel as a listener sees it that stays subscribed |
| `closedAt` | a history variable: what was delivered before the close |

An action is what a coroutine does between two suspensions: get the lock or queue
for it (`Publish`, `Wake`), hand the event to the listeners (`Deliver`), run the
completion callbacks (`Complete`), leave (`Return`). The collector's callback
publishes its FINAL in the same task: `locked_task` is that task, so the nested
publish takes a number but not the lock. `MayPublish` is the callers' discipline,
which `validate_stream_phases` checks when a FINAL is built: a chain has one
publisher and goes from STARTED over its deltas to END. A listener that publishes on
its own channel would wait for the publisher that waits for it (`gather` runs it in
a task of its own); none in the repository does, and none is modelled.

### 2.4 How MessageStream corresponds to the code

| variable | code |
|---|---|
| `contexts` | `_event_id2choice_index2interception_context` of the message: `held` the intercepted text, `shown` and `kept` the display and context snapshots |
| `outbox` | the events that `publish` still has to send for the chunk |
| `message` | what a listener, or the collector for the FINAL, has put together per choice |
| `sub` | is the publisher's agent a subagent (only those have the marker)? |
| `phase`, `said` | where the stream is; a history variable: what the model said |

A text is a sequence of tokens, and the marker `<#CONTINUE#>` two of them, which is
enough to cut it in the middle, to begin it twice and to give it up. `NoText` is
`None`, which is not the empty text: a part without a text of its own falls back on
the raw one. After the chunk with the usage no text follows
(`docs/架构设计/5.2_Agent运行期拦截机制设计.md:183`). A stream that breaks ends without END.

### 2.5 How HistoryProjection corresponds to the code

| variable | code |
|---|---|
| `history` | `SessionState.history`: artifacts with kind, owner, input, calls |
| `frames`, `queue`, `paused` | the control stack, the input queue, the tasks that wait for a response |
| `task` | the task that runs: its input and the artifacts `build_task_artifacts` makes of it |
| `offered`, `expired` | the tools the providers offer; calls whose result has passed `expires_at` |

The actions are those of `SessionRuntime` as far as the history sees them. The
continuation after a message whose last call is `resume_task` is asked for without
tools (`NoToolCall`), so its context folds or drops every earlier round of the agent
with a call, and it makes no call itself. `Messages`
is `build_messages_from_source` without the system and the memory message: a message
has its role, the place of the artifact it tells (`src`), its calls, and the places
that were told before it as group input. The properties speak of the contexts of a
model call (`Built`), every one that can be reached.

### 2.6 How TaskEvents corresponds to the code

| variable | code |
|---|---|
| `stored`, `live`, `last` | the session in the store, in the run, and its last checkpoint |
| `heard` | what collector and server have heard on the channel of this run |
| `pc` | between runs, before a checkpoint, in the loop, inside a chain, before `get_outputs`, after a failure |

A task has what it does next (`left`), its request, its `events` and `replayed`
(`did_replay`). A chain is told in two steps, so that a failure finds it open. `Kept`
says whether the store hands out copies that keep `did_replay` (the memory store) or
reads what was serialized. `ToldOf`, `Row` and `Builds` are what the collector and the
server make of `heard`: the outputs of a task, its row in the history, and whether
`get_outputs` raises. Agents are left out, a message makes one call, and chains of
compressions are left out, as is the flag for events before an interruption.

### 2.7 How ServerRequests corresponds to the code

| variable | code |
|---|---|
| `rows` | `session_state`: versions with the run id, the input queue, the running and the paused tasks, and the finished tasks that would be told again (`told`) |
| `history`, `written` | `message_projection` and `message_projection_run` |
| `active`, `stream` | the hash of active runs and the stream of each run, in Redis |
| `req` | per request where its coroutine is, the session of its run, the tasks its handler saw (`seen`), whether its response found no task (`late`), what its client heard |

A step ends where the code awaits a call that others can see. A request is a
completion with its `client_event_id`, perhaps with the number of the last record the
client had (any it can have heard), or a page load. A run tells one record per task, with
heartbeats between; `Writes` is what a reader can tell by waiting: a run that lives
says something every 15 s, a reader waits 30. A client that goes away is one that has
heard less than it is told here, and asks again.

A message is an input or the response to an interruption request (`Responses`,
`RequestOf`), and the two go different ways. An input makes a task. A response wakes
the task that is paused for its request, if there is one (`Taken`): the buffer of that
task is told first, from its *first* input on, and the row that the history gets has
the `client_event_id` of that input, not the one of the response
(`examples/server/service.py:960`). A task therefore has two ids, `row`, that of its
first input, and `by`, that of what it was last given; `Known`, the lookup in the
history, compares rows and so never finds a response. A response for which no task
waits (answered before, dropped by the limit or by a new run, or never asked for) is
taken from the queue without any record (`K/runtime.py:229`); if nothing else happens
in that run the handler has seen nothing and saves nothing
(`examples/server/service.py:647`), and the client is told complete all the same.
Responses come from clients, and from `resume_task` inside a task, as wake-ups do after
a handoff (`Leaves`).

Creating, listing, titling and deleting sessions are left out.

### 2.8 Abstractions

- An artifact counts one token and a summary one; the artifacts of a task are one
  artifact, and a change of control another. `Absorbed` does not drop expired tool
  results and repeated rounds of one input from what the model is shown.
- A checkpoint and its deep copy are one step (the run awaits it). A session has
  one run at a time; several processes meet as a run and the workers of earlier
  runs. The database answers; a crash takes a run and its workers together.
- Compression has its own module; `SessionRuntime` does not shorten the history.
- `ServerRequests` does not tell agents apart: a task that a response wakes goes on in
  this run, where the code leaves one of an agent that is not on top for later; and
  `PausedLimit` counts all paused tasks, where the code keeps five of each agent. What a
  task leaves in the queue is there when it ends.
- Text, arguments, token counts and identifiers carry no data. Argument errors
  and unknown tools appear as a failed unit.
- A call list is decided by its first and last call (`BuildUnits`); lists of two
  are enough to have two units with requests in one task.
- A caller that calls `run` twice without `init_session` is not modelled; the
  facade and the examples call them in pairs.
- Agents that vanish from the code between two deployments are not modelled:
  the frames of a stored session name agents that exist.

## 3. Runs

The runs use the `MC` modules and set `CHECK_DEADLOCK FALSE`: when the caller
has used its runs, or an instance its artifacts, the system stops, rightly.

| run | instance | shows |
|---|---|---|
| `session_tasks` | one agent; `async`, `confirm`, `resume`; two calls per message; 3 runs, 1 exception, 1 crash; one paused task kept | pauses, answers, approval, finished units |
| `session_frames` | three agents that hand off to each other; `handoff`, `return`, `async`; 3 runs, 1 exception, 1 crash | control stack, queues, history, no input twice or lost; refinement of `InputLedger` |
| `session_liveness` | two agents, every arrival, handoffs, confirmed tools and `resume_task`; 2 runs | every run ends |
| `compress_memory` | memory store; two agents, 3 artifacts, 2 workers, 2 texts, 2 runs; limits on tokens and on rounds | history told once, in order, nothing lost; builds and compressions end |
| `compress_mysql` | MySQL; the same with 3 workers, limits on tokens, crashes, expiring leases, 5 versions | versions, types, ownership of leases |
| `event_bus` | three publishers, two chains, a listener that comes and goes, a close | order, answered ENDs, everybody served; refinement of `EventStream` |
| `message_stream` | two choices of 3 and 1 tokens, chunks of at most 2 per choice | what is shown, kept and tagged |
| `projection` | three agents, 4 inputs, 3 calls (`resume_task` among them), 1 pause or failure, 1 withdrawn tool, any result expired | what a model is told |
| `task_events` | a store that serializes; 3 runs, 3 inputs, 2 calls, 2 failures or crashes | outputs, rows, replays |
| `server_requests` | 2 requests at a time, an input and a response; any 2 of: pause, wake-up or response that a task leaves, heartbeat, expired stream or index, failure, crash | requests end; history, records, order of the finish |
| `memory_replay`, `history_once` | expected violations | section 4 |

Safety properties:

- `PausedAwaitsResponse`: a task is paused exactly while its request is
  unanswered, and no two tasks share a request.
- `ApprovedBeforeRun`: a confirmed tool succeeds only after the request of its
  own HITL unit was answered positively. Requests are replaced by exceptions and
  by later units, so this is about which answer is taken for which unit.
- `FinishedUnitsStay`: a checkpointed result is never overwritten or re-executed.
- `OnlyResponseWakes`, `PausedTaskSurvives`: a stored paused task changes only by
  its answer, and disappears only by the limit when a session is loaded.
- `QueueMirror`, `RootAtBottom`, `FramesFollowHistory`, `OnePlace`, `NoInputLost`:
  consistency of the parts of a session across rollback and restart.
- `ImplementsLedger`: inputs are taken in order and once, paused work is woken
  only through a queued input, and what is done is never undone.

- `ToldOnce`: the history is in order of creation and everything a summary tells
  of, or a hard limit threw away, is older than all of it; nothing thrown away is
  told again. A snapshot merged into the wrong session breaks it.
- `NothingLost`: a round that a checkpoint stored is in the latest stored session's
  history or summary, unless a hard limit threw it away. It holds for the memory
  store; for MySQL see section 4.
- `LeaseKept`, `LeaseEnds`: a compression task ends by its owner's hand or is taken
  over after its lease has expired, and it does end.
- `BuildEnds`: the levels of a build come to a call or to an error.

- `FinalFollowsEnd`, `InSequence`: the END of a collected chain is answered at once,
  and numbers grow along what is delivered, although nested publishes and other
  channels take numbers between.
- `Served`: a publisher that waits gets out, also behind one that raised.
- `ImplementsStream`: what a listener sees is one stream with at most one answer owed.
- `ShownIsClean`, `TagMeansMarker`: however the text is cut, the body that was shown
  is what the model said without the marker, with the interceptor's replacement, and
  the tag is there exactly when the marker was.
- `ContextIsWhole`, `SnapshotsAgree`: nothing is lost, doubled or moved on the way
  to the next model call, and the publisher's snapshots are what the listeners have.

- `CallsAnsweredToSwitch`: in every context that is built the calls of a message are
  followed by their results, up to the first call that changes control.
- `ToldOnce` (of `HistoryProjection`): an agent is told all that the others did in the
  rounds that still count, once and as group input, and its own rounds as messages,
  once, and up to the current input all of it in the order of the session.
- `NoStaleConclusion`: what rests on an expired result is read after the note on it.
- `OutputsBuild`: a run that got through can make its outputs, whatever earlier runs
  left in the buffers.
- `ToldWhole`: a task that a run goes on with is told from its first event to its last,
  in order and once, and what finished is told in the run or the next one.
- `RowsInOrder`: the row of a task in the history begins with an input, ends with its
  complete event and has its events once and in order, also after a failure.
- `StoredCanBeTold`: what is saved begins with its input, is folded, and ends with the
  request of a task that waits.
- `AnsweredIsSaved`: who is told that an input is answered finds it in the history, and
  who is told so of a response finds it in the row of the task it woke, whether the
  request ran it or followed another run. Excepted is a response for which no task
  waited when its run took it (`late`): the code drops it and says complete.
- `HeardWhole`: records are heard without gap or repetition; who is told that the
  response has ended has heard its run to the last.
- `CompleteIsClosed`: a run that said it is complete says nothing more, and no stored
  session names it.
- `EveryRequestEnds`: a request is answered, or told to load the page, or of an error.

Every property has a seeded fault: operators marked *Seeded fault* in
the modules are mutated forms of the definition after them (a missing
dequeue, a dropped guard, a kept task...). They are used by no action; replacing
the definition by its mutant makes the named run fail, which shows that the
property depends on the code it is about.

### 3.1 Bounds

`MaxCalls` (calls in a message), `MaxRuns`, `MaxRounds` (messages with calls),
`MaxFaults`, `MaxCrashes` are the only bounds of `SessionRuntime`, all guards on what
the environment does; nothing inside the runtime is cut off. Three runs are the shortest
history in which a task is paused by one run, meets a fault in a second and is answered
in a third; two calls in a message build a task of several units, and a second task
beside it; three rounds in the frames instance give a handoff, a handoff of the target
and a return. One fault and one crash already meet every state of the loop; a second
fault adds only repetition of a rollback to a checkpoint. `PausedLimit` is 5 in the code
and 1 in the runs about paused tasks, so that the limit is met.

In `session_frames` and `projection` the two subagents are interchangeable, since agents
are only compared and the graph of handoffs is the same for both: TLC explores one of
each two states that differ by swapping them. The properties of both runs are safety
properties.

In `HistoryCompression` a bound of 0 is none. `MaxArtifacts` = 3 with
`KeepRounds` = 1 gives a summary, a history that grows during it and a second
summary on top of the first; `MaxTexts` = 2 lets a synchronous
summary and a background one overlap, 3 with `MaxWorkers` = 3 (MySQL) one more of the
other agent; `MaxRuns` = 2 lets a
worker outlive its run; `MaxVersion` = 5 lets a run and two merges save in turn;
`MaxWork` lets a context exceed the hard limit with and without history. The version
of the memory store is not used (0).

In `EventBus` `MaxLog` = 4 with two ids gives a STARTED, an END with its FINAL and a
second chain that is published beside it; of three publishers one holds the lock and
two wait in order; one listener besides the collector is enough to change the number
of subscriptions during a loop over them. In `MessageStream` a choice of 3 tokens
holds a marker, cut in two or not, with a false start or a word before or behind it; the
one token of the second choice may be held as well, and shows that the text of one is
not held or replayed with the other's. The theorems are for every length.

In `HistoryProjection` four inputs give a handoff, its wake-up, a return and a further
input; three calls a message with two calls and a continuation with a third; one pause
and one withdrawn tool change a round after it was told, and the pause offers `resume_task`
to an agent that has earlier rounds with calls. In `TaskEvents` three runs let
a task pause, fail in the run that goes on with it, and be told again in a third; two
faults let a retry fail.

In `ServerRequests` two requests are enough for a message asked for twice, a follower, a
page loaded after a crash, and a task that pauses in the run of one request and is
answered by the other. `MaxEvents` bounds together what may happen beside the requests:
a pause, a wake-up or response that a task leaves, a heartbeat, a stream or an index that
expires, a failure, a crash; any two of them are explored in every order. The code
keeps five paused tasks of an agent; the instance has `PausedLimit` 0, that is, a load
may drop any paused task, so that a response whose task was dropped is met with two
requests. Two requests with three events, and three requests of which one is served at a
time, were checked once with the invariants of section 5; the run of the finding
`history_once` has three requests.

### 3.2 Fairness

`FairSpec` adds weak fairness of the runtime's own steps: a coroutine that is
runnable is scheduled again. Nothing obliges the caller, an exception or a crash.
Model rounds and `resume_task` calls are bounded by `MaxRounds`: a model that asks
for tools for ever keeps a run alive for ever, in the code as well. `RunTerminates`
says that the runtime adds no loop of its own.

For `LeaseEnds` and `BuildEnds` the steps of every worker, of a context build, and the
expiry of a lease (the clock) are weakly fair: a model request ends in an answer or
in an exception because the client has a timeout, and a coroutine that waits for
nothing is scheduled. Nothing obliges the run to continue, to save or to end.

`BusSpec` has weak fairness of a publisher's steps inside `publish`: listeners
return (a listener that never does would stop the channel in the code as well) and a
lock that is free goes to the first that waits. Nobody has to publish.

`ServerRequests` has weak fairness of each request's own coroutine: calls of MySQL and
Redis return or raise, the model answers or raises within its timeout, and a blocking
read gives up after 30 s. Nothing obliges a client to ask, a heartbeat, a fault, a
crash or the expiry of a key to happen.

## 4. Findings

Each is a run that expects a violation. The property says what a document or a
comment of the repository says; TLC finds the behaviour of the code that differs.

| run | claim | what happens |
|---|---|---|
| `history_once` | a retry or a resume does not project a message twice | only the run id is unique: two equal completions that both look for an active run before one registers, a page loaded between the first checkpoint of a run and its first record, or a crash between saving the history and finishing the session give the message a second run and a second row |
| `memory_replay` | the memory store behaves like a store that serializes; a run that goes on with a task tells its past first | a `deepcopy` keeps `did_replay`: a task that is answered in the next run is told from the response on, without its input and first message |

Behaviours of the code that the models contain and a reader should know of, without
a run of their own.

Session and loop:

- A run that does not resume inherits a running task of an agent below the top:
  `clean_state` looks at the top agent only (`K/models/models.py:607`).
- An exception between the checkpoint of an answer and the unit that waits for it
  replaces the answered request, and the tool asks again (`O/service.py:468`).
- A response may wake a task of an agent that is not on top; the run ends without
  advancing it (`K/runtime.py:248`).
- An exception pauses the first unpaused task in list order, which need not be the
  one that was being advanced (`O/runtime.py:690`).
- The wake-up input of a handoff queues behind inputs that waited: the target
  reports first and its parent takes the wake-up (`K/runtime.py:939`).
- The stack is looked at when tools are offered (`O/tool/service.py:409`), not when the
  unit of a handoff runs, perhaps after a pause: an agent that has entered the stack
  since is pushed a second time. `docs/架构设计/5.0_Handoff控制权转移设计.md:187` excludes it.
- An event of an unknown type is popped and raises; the rollback puts it back at the
  head of the queue, until a run finishes or starts clean (`K/runtime.py:180`).
- After an exception `finish` clears the queue: inputs that waited behind the failed
  task are dropped (`O/runtime.py:299`).

Compression and stores:

- A running compression keeps others out for the same session *and agent*
  (`O/store/memory.py:154`): after a handoff two agents summarise the same history.
  `docs/架构设计/5.1_统一上下文模型设计.md:178` says per session.
- When a background merge comes first, the level of a build is refused its own merge
  and keeps the old token count (`O/context/provider.py:144`); the next level throws
  a fresh summary of a fitting context away.
  `docs/架构设计/3.0_Context构建与Token预算设计.md:632` says that tokens are counted again.
- A checkpoint between the load and the save of a background merge is superseded by a
  version without it (`examples/mysql_store/state_store.py:219`), which
  `docs/架构设计/3.1_后台压缩任务设计.md:52` excludes; `NothingLost` is about the memory store.
- `keep_recent_history_rounds` may be as large as `hard_limit_rounds` (`config.py:110`):
  every build over that limit then discards its summary and drops the history.
- With a row of version v+1 in the MySQL table the update of row v violates the
  unique key, and so do the retries (`examples/mysql_store/repository.py:176`):
  the save raises.

Events and messages:

- A channel that was closed drops events silently (`O/event_bus/event_bus.py:219`); a
  FINAL of a chain whose END was being delivered is lost with it.
- Who subscribes or leaves while a FINAL is published makes the outer publish raise:
  the loop runs over a dictionary that changed (`O/event_bus/event_bus.py:306`).
- A FINAL has a number of its own (`O/event_bus/event_bus.py:186`), not its END's.
- Only the tail of the body is looked at before text is released
  (`O/interceptor/agent_interceptor.py:58`): a marker that two chunks of the reasoning
  spell out is shown, which `docs/架构设计/5.0_Handoff控制权转移设计.md:155` excludes.
- Whether a marker in the reasoning sets the tag depends on the chunks: it is looked
  for in one release at a time (`O/interceptor/agent_interceptor.py:79`);
  `TagMeansMarker` therefore speaks of messages without one.
- A model message without text is a successful, empty summary, which replaces what
  it was to tell of (`O/context/compress.py:419`): `NothingLost` is checked with
  `EmptyAnswers` FALSE, the properties of `compress_mysql` with TRUE.

Task events:

- A completed task that is resumed after a crash is told only at the end of the run; if
  that run fails it is never told, since `finish` drops it (`O/runtime.py:280`).
- A resumed task that fails before its first new event has only the request in the
  history of that run, so its row is dropped until the response tells it again
  (`O/runtime.py:702`, `examples/server/service.py:1006`).

Projection:

- Calls after a handoff or return in one message get no unit
  (`O/tool/service.py:280`) but stay in the message, so they have no result;
  `CallsAnsweredToSwitch` speaks of the calls before.
- Group input that no later round of the agent carries is told with the current input,
  behind group input that is newer (`O/context/projector.py:440`).
  `docs/架构设计/5.1_统一上下文模型设计.md:146` says that the elements of the container
  stand in the order of the session, for the current input too; the order that
  `ToldOnce` claims ends before it.
- A round is dropped for a withdrawn tool by its tool calls only, not by its results
  (`O/context/projector.py:609`).
- The instruction for a delegated task is also given for an input of the user that
  waited while a subagent had control (`O/context/projector.py:276`).

Server:

- A follower that times out stores the session *it loaded* under a new run id
  (`examples/server/service.py:555`), over what the run has saved since if that was
  another version row.
- The row of a resumed task has the `client_event_id` of its first input
  (`examples/server/service.py:960`), so the lookup in the history
  (`examples/server/service.py:430`) never finds a response. One that is sent again
  after its run has ended is run again: no task waits any more, it is dropped without
  a record, nothing is saved, and the client is told complete. `examples/server/schemas.py:402`
  calls the id idempotent, to be kept in a retry.
- A new message after a crash cleans the session: what had finished and was not saved
  is forgotten.
- Two runs of one session meet on the version key; the loser's checkpoint raises.
- `_put_cached_records` answers TRUE for a stream that is incomplete, so a completion
  that met a dead run tells the page to load and does not run.
- The history shows the first 100 messages (`examples/server/service.py:195`).

## 5. Proofs

TLAPS proves, for every agent graph, every set of tools and every bound of
`SessionRuntime`:

- `TypeCorrect`: `Spec => []TypeOK`.
- `RootStaysAtBottom`: `Spec => []RootAtBottom`, so `resolve_owner_agent` always
  finds an owner.
- `QueuesAgree`: `Spec => []QueueMirror`, and with it the order of every queue.
- `PlacedOnce`, `PausedTasksAwait`, `ConfirmedFirst`, `FramesExplained`: `[]OnePlace`,
  `[]PausedAwaitsResponse`, `[]ApprovedBeforeRun`, `[]FramesFollowHistory`.
- `FinishedStays`, `AnswerWakes`, `PausedSurvives`, `InputsKept`: the action properties
  `FinishedUnitsStay`, `OnlyResponseWakes`, `PausedTaskSurvives`, `NoInputLost`.
- `LedgerImplemented`: `Spec => ImplementsLedger`.

and, for every set of agents, both stores, with and without empty summaries, and
every bound of `HistoryCompression`:

- `CompressionTypeCorrect`: `Spec => []TypeOK`, and with it that the store never
  holds two rows of one version.
- `StoryToldOnce`: `Spec => []ToldOnce`.
- `LeasesKept`: `Spec => LeaseKept`.
- `NothingIsLost`: `Spec => []NothingLost`, for the memory store (`Mysql` is `FALSE`) and a
  model that answers every summary request with a text (`EmptyAnswers` is `FALSE`).
  Without either it is false, as section 4 tells.

and, for every set of publishers, event ids and tasks and every bound of `EventBus`:

- `BusTypeCorrect`: `BusSpec => []BusTypeOK`.
- `EndsAreAnswered`: `BusSpec => []FinalFollowsEnd`.
- `DeliveredInSequence`: `BusSpec => []InSequence`.
- `BusImplementsStream`: `BusSpec => ImplementsStream`.

for every set of choices and every length of text and chunk of `MessageStream`:

- `ShownClean`, `ContextWhole`, `SnapshotsFollow`, `TagIsMarker`: `[]ShownIsClean`,
  `[]ContextIsWhole`, `[]SnapshotsAgree`, `[]TagMeansMarker`.

and, for every set of requests, inputs and responses, every limit of paused tasks and
every number of events of `ServerRequests`:

- `AnsweredSaved`, `HeardAll`, `CompleteClosed`: `[]AnsweredIsSaved`, `[]HeardWhole`,
  `[]CompleteIsClosed`.

and, for every number of runs, inputs, calls and faults of `TaskEvents`:

- `SavedEventsCanBeTold`, `RowsAlwaysInOrder`: `[]StoredCanBeTold`, `[]RowsInOrder`, for
  both kinds of store.
- `OutputsAlwaysBuild`, `TasksToldWhole`: `[]OutputsBuild`, `[]ToldWhole`, for a store that
  serializes (`Kept` is `FALSE`). Without that `ToldWhole` is false, as the run
  `memory_replay` shows, and `OutputsBuild` for the same reason: a task told from its
  response on may be one whose first event is no input.

and, for every set of agents and plain tools and every bound of `HistoryProjection`:

- `EveryCallAnswered`, `EverythingToldOnce`, `NoConclusionStale`:
  `[]CallsAnsweredToSwitch`, `[]ToldOnce`, `[]NoStaleConclusion`.

*Assumptions.* `BudgetAssumption` types the constants of `HistoryCompression`, a
bound of 0 being none. `SessionRuntime`: the root is an agent, the handoffs are a graph
on the agents, the choices of the environment are of their types. `EventBus`: `Nobody`
is no publisher, and there are ids and tasks. `MessageStream`: `None` is not a text
(`NoTextIsNoText`), as in the code, which tells it apart by `is None`.
`ServerRequests`: requests are numbered, a page load and a wake-up are no messages, a
response has the number of the request it answers.
`HistoryProjection`: the root is an agent, and the tools that the runtime adds are none of the
plain ones. No
assumption bounds the number of agents, inputs, runs or faults.

*Argument for the stack.* `RootAtBottom` is not inductive: a handoff pushes the
target its unit names, a return pops, and both were decided long before, perhaps
in an earlier run. The invariant `IInv` therefore carries three facts along in
every stored, live and snapshot task: a handoff call or unit never names the root
(it is in every stack, and the stack is filtered when calls are offered); a
return that succeeded belongs to an agent other than the root (the stack had two
frames when it ran, and the owner was on top); a tool task has a unit. A pop is
then always made by the task of a non-root agent on top of the stack, so at least
two frames are there. That a *repeated* frame can occur (section 4) does not disturb this: only the root must not repeat.

*Argument for the queues.* `_pop_input` takes the head of one queue and removes an
input from the other *by id*. They lose the same input because ids grow along
every queue, which is part of `QueueInv` for all three sessions, since a rollback
or a restart can bring back any of them.

*Argument for the tasks.* `StepInv` says of all three sessions, the live one, the one a
rollback goes back to and the stored one: an input that is queued, taken or done is so
once and only that; no two tasks hold one request; the pushes and pops in the history
add up to the frames (`Orderly`); whatever it knows of is numbered below `nextInput`;
and each of its tasks is paused exactly while its request is open, and has its tool
results behind its approvals (`Held`). All three sessions, because a rollback or a
load makes any of them the next live one; the numbering, because a new input must not
be one a stored session still holds. The properties of tasks follow at once. That it is
kept has three parts: a handler changes a session in one of four ways (`Handled`: it
advances a task, pauses one, closes one, or pops an input), each way keeps a session
orderly, and each handler of the loop is one of the four. Approval needs most: a
confirmed unit directly follows its HITL unit (`Paired`), and only the answer to the
request *that unit issued* gives it a positive result, so no later edit, failure or
other answer can.

*Argument for the store.* What the store promises is about two of its states, and the
handler in between works on another session. `CheckpointInv` ties them: in the loop
the live session, the rollback copy and the store are equal; while a handler awaits its
checkpoint the live one is one `Handled` step ahead; before the first checkpoint it is
what a load makes of the store, perhaps with one input more. So each step that writes
the store writes a load, one handler, one pause after an exception, or the clean-up
(`Written`), and each action property is a fact about those four. The refinement maps
a session to the inputs that are queued, active, asleep and done; each of the ways is a
step of `InputLedger` or a stutter, and the order in which the ledger takes inputs is
the order of the queue.

*Argument for the history.* `ToldOnce` speaks of sessions; what a merge does to one
depends on a result that was begun any number of steps earlier, from a session
that may be gone. The invariant of `CompressionProofs` says of every result, in the
run or in a worker, that its text tells of nothing but what the snapshot's summary
told and of what stood in the snapshot before its cut. The guard of the merge then
gives the rest: the session has that summary and that history at its front, so the
text is older than all that stays and nothing is told twice. A text once written
never changes and artifacts are numbered as they are made, so every other step
keeps the facts of the results it does not touch. Rows keep pairwise different
versions and a latest one; that every row is in order is what makes a load, a
rollback, a save over a version and a crash harmless. The proof nowhere uses who
holds a lease: two compressions of one history (section 4) waste a
summary but cannot repeat or disorder what is told.

`NothingLost` says the opposite, that the text tells *enough*, and needs `KeptInv`. The
row, the live session and the one a rollback goes back to know of every acknowledged
round; where such a round still stands in a history it opens it, so a summary that
cuts it off was shown it (`Absorbed` leaves out what stands before the first input);
and a result that waits to be merged tells of all that its merge takes away (`Whole`).
The lemma `MergeKeeps` is then the whole argument; a checkpoint is the only step that
acknowledges more, and it stores the session that has it.

*Argument for the bus.* That an END is answered *next* is a matter of who is where.
`BusInv` says: the publisher between its lock and its release is the holder
(`LockOK`); an END that is delivered and unanswered on an open channel is the event
of the holder, in front of its callback or in its nested publish (`OwedByHolder`);
what a nested publish sends is a FINAL, which owes nothing (`Answering`); and the
holder's number is above all delivered ones and below `next` (`Numbered`). A close
forgets the debt only for what comes later, which `closedAt` records. The
refinement maps the debt of the holder to `owed`; a publish, a wake-up and a return
are stutters, `Deliver` is `Tell` or `Answer`.

*Argument for the message.* The publisher decides on its snapshots before the listeners
have heard the chunk's events, so nothing simple holds while events are under way.
`StreamInv` speaks of what the listeners *will* have of a choice once they have heard
them (`Rest`): that and the held text are what the model said (`Sound`); what is shown
is what is kept, cleaned; the snapshots are what the listeners have (`Follows`); and,
while text may still come, what they have does not end in `<` (`CutClean`). The last
fact is the one that is not obvious. It makes cleaning go through a cut: the marker
stands in one half or the other, never across, so removing it from both halves removes
it from the whole (`CutTexts`). Removing is defined by the places that are kept, each
found by its rank, so the lemma is about counting places of a set, without induction on
the text. A choice passes its text on, holds it, or releases it, with a replay or
without; each of the three keeps the invariant, the replay because renaming twice is
renaming once.

*Argument for the requests.* Three facts carry `RequestsInv`. A run has one owner, the
request that began it, and only the owner writes into its stream, so a record's number
is its place. The owner is the only one that stores the run, and while it works it
holds the version of every row that names it, so the save that closes the session
removes them all and nobody's later save brings the run back. And whoever comes to a
run by a message comes, through the index of active runs, to a run *of that message*,
so the record that ends it answers that message. That a client is told the end only
after it has heard everything follows from the first, that the message is then in the
history from the third with the order of the owner's steps: when the owner has taken its
message from the head of the queue it has seen a task of it or was late (`Done`), a task
it saw stays seen until it saves, and what is saved or late stays so (`Settled`). For a
response this needs no fact on who pauses or answers what: the task that is woken takes
its id, whichever it is. A step of the system is one of
six ways to change it: a request waits, begins a run, works or leaves, requests stop,
or what Redis kept fades.

*Argument for the events.* What a task was told is compared with its buffer, and neither
is simple while a chain is open, after a failure, or across runs. `EventsInv` says of the
session and of what was heard, between two chains (`RunInv`): a buffer begins with its
input, is in order, and ends with the request of a task that waits; what was heard is in
order, has every chain closed, and between two events of one chain only that chain's
task was heard; a task that was not replayed has a folded buffer and was
not heard, and (`ToldInv`, only if the store serializes) the FINAL events heard of one
that was replayed are those of its buffer. While a chain is open the same holds of both
without the STARTED event that opened it (`OpenInv`), so a step that closes a chain
counts as one that tells all of it. After a failure the buffers are those of the
checkpoint while more was heard; only the order is left (`InOrder`), which is all that
`RowsInOrder` needs, because a retry is told with a number of its own and without the
past. The stored session and the checkpoint are folded and in order (`SavedInv`), so a
load begins a run with nothing heard and nothing replayed. `ToldInv` is what a store that
keeps `did_replay` breaks: then a task counts as replayed that nobody heard in this run.

*Argument for the contexts.* The three properties speak of messages that were cut out of a
history, filtered, cut again and joined; what the session has to provide is little.
The invariant (`Session`) says of the history that it is `Lawful`: it begins with an
input, a change of the frames stands at the end of its round, and it is `Paired`, that is,
each result stands behind the message of its call at the place of that call. This is not
inductive, because a task adds its artifacts when it ends, and what it then adds was
made by many steps before. So the invariant follows the tasks (`Busy`): the artifacts of
a task are an exchange of messages and results in which only the last message may
lack results, and those it has are the first ones, in the order of its calls. A task that
closes has none waiting up to a handoff or a return, so what it leaves is paired; one that
pauses leaves its input and its request and nothing that could be torn apart.

From a lawful history the rest goes from the parts to the whole, in three lines that use
the same lemmas on joined lists. *Pairing*: a round is cut where an input stands, and no
result is an input, so a paired list falls into paired rounds; a round is told whole, or
as its input and its last response without calls, or not at all; joined paired lists
are paired. *Places*: the rounds cut the history into intervals, the latest rounds of each input
are `Current`, and the groups are runs of rounds of one owner; a group tells the places of
its rounds, and the group inputs of a context, each handed on to the next round of the
agent, or to the current input, partition the groups of the others, so everything is
told and nothing twice. That is why `ToldOnce` needs no fact on the session beyond its
lawful history: any list of rounds is told once, whoever wrote it. *Notes*: an expired
result is told as a note before all that follows it in its round, in the messages of its own
agent and in the group input of the others, and joining keeps "before".

*Filters.* A filter (`Keep`) and a flattened list are folds in the community modules, that
is, recursive functions on the length. `SelectionProofs` proves what they do for lists of
every length: the members and their order, and that a filter of a joined list is the
join of the filtered parts. The induction is on the length, and is brought
down to a theorem of the library without an operator parameter, that a well-founded
relation has minimal elements: a claim that fails for some list fails for one of least
length.

The proofs are laid out as lemmas on the operators of the model (a session stays
sound when a task is put, dropped, logged, ...), one lemma per action, and the
theorem.

## 6. Model-checked only

- `RunTerminates`, `LeaseEnds`, `BuildEnds`, `Served` and `EveryRequestEnds`: liveness
  under fairness is out of the prover's reach.
- The two findings (section 4), which are violations.

## 7. Plan

Done: the session and its loop, compression, bus, stream of a message, task events,
server, projection, and the theorems on the safety properties of all of them. Left, in
this order:

1. Abstract specifications: a history of which a prefix is replaced by its summary,
   for `HistoryCompression`; a message that is asked for, worked on and saved, for
   `ServerRequests`.
2. Extensions: chains of several interceptors and a listener's errors; pure operators
   (unit building against a reference definition, retry delays).

*Not modelled.* The wording of prompts and exact token counts, the streaming formats
of providers and their retry delays, configuration, logging and identifiers: data and
I/O without behaviour over time. The search of earlier rounds (`recollection`), which
is a tool like another to the runtime. The layout of the server's business events, its
HTTP layer and the statements that create, list, title and delete sessions, each a
single statement of the database. The repair of a session whose agents are gone from
the code. The web client.
