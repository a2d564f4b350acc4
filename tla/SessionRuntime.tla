--------------------------- MODULE SessionRuntime ---------------------------
(***************************************************************************)
(* One conversation session driven by turtlemap's Runtime: the kernel loop *)
(* of BaseRuntime with the overrides of the os Runtime, its checkpoints in *)
(* the state store, the rollback after an exception, a crash of the        *)
(* process, and the caller that starts one run after another.              *)
(*                                                                         *)
(* Control is kept whole.  Data is reduced to what decides control: a      *)
(* message is the list of its tool calls and its CONTINUE tag, a result is *)
(* success or failure, history keeps one artifact per saved group.         *)
(***************************************************************************)
EXTENDS Integers, Sequences, FiniteSets

CONSTANTS
  Agents,        \* the agents reachable from the root agent
  Root,          \* the root agent
  NoAgent,       \* "no agent" (an empty field)
  Handoffs,      \* agent -> the agents it declares as handoffs
  Tools,         \* the kinds of tool the agents offer in this instance
  Arrivals,      \* the kinds of input a run may start with in this instance
  Answers,       \* whether responses approve: a subset of BOOLEAN
  Resumes,       \* whether a run may resume the last one: a subset of BOOLEAN
  PausedLimit,   \* paused tasks kept per agent when a session is loaded (5 in the code)
  MaxCalls,      \* bound: tool calls in one assistant message, 1 or 2
  MaxRuns,       \* bound: runs the caller starts
  MaxRounds,     \* bound: assistant messages that carry tool calls
  MaxFaults,     \* bound: exceptions raised inside runs
  MaxCrashes     \* bound: crashes of the process

ToolKinds == {"sync", "async", "confirm", "handoff", "return", "resume"}

ArrivalKinds == {"none", "user", "response", "unsupported"}

ASSUME RootIsAgent     == Root \in Agents /\ NoAgent \notin Agents
ASSUME HandoffsIsGraph == Handoffs \in [Agents -> SUBSET Agents]
ASSUME ToolsAreKinds   == Tools \subseteq ToolKinds
ASSUME ArrivalsAreKinds == Arrivals \subseteq ArrivalKinds
ASSUME ChoicesAreBoolean == Answers \in (SUBSET BOOLEAN) \ {{}} /\ Resumes \subseteq BOOLEAN
ASSUME BoundsAreNat    == /\ PausedLimit \in Nat
                          /\ MaxCalls \in {1, 2}
                          /\ {MaxRuns, MaxRounds, MaxFaults, MaxCrashes} \subseteq Nat

VARIABLES
  live,       \* the SessionState object the runtime works on
  last,       \* last_session_state, the snapshot of the last checkpoint
  stored,     \* the SessionState the store holds
  rtQueue,    \* runtime_input_queue, the in-memory mirror of input_queue
  pc,         \* where the run is
  nextInput,  \* the next unused input id
  nextReq,    \* the next unused interruption request id
  approved,   \* history variable: requests to which a positive response was given
  used        \* how much of each bound is used up

vars == <<live, last, stored, rtQueue, pc, nextInput, nextReq, approved, used>>
-----------------------------------------------------------------------------
(* Data.                                                                   *)

\* BaseSessionState.input_queue holds these: `to` is the agent whose frame a
\* handoff or handoff return made the top one when it queued the input.
Input == [id : Nat, kind : {"user", "handoff", "response", "unsupported"},
          req : Nat, ok : BOOLEAN, to : Agents \cup {NoAgent}]

Call == [tool : ToolKinds, target : Agents \cup {NoAgent}, req : Nat]

\* `req` names the request the unit issued (async, hitl) or answers (resume).
Unit == [tool : ToolKinds \cup {"hitl", "llm"}, target : Agents \cup {NoAgent},
         req : Nat, status : {"PENDING", "FINISHED"}, ok : BOOLEAN,
         noTools : BOOLEAN, cont : BOOLEAN]

TaskStatus == {"RUNNING", "COMPLETED", "PAUSED"}

Request == [id : Nat, origin : TaskStatus, answered : BOOLEAN, ok : BOOLEAN]

Task == [start : Input, owner : Agents, kind : {"MESSAGE", "TOOL"},
         status : TaskStatus, calls : Seq(Call), cont : BOOLEAN,
         units : Seq(Unit), request : Request]

Artifact == [kind : {"done", "paused", "push", "pop"}, task : Nat]

Session == [frames : Seq(Agents), queue : Seq(Input), tasks : SUBSET Task,
            history : Seq(Artifact)]

NoRequest == [id |-> 0, origin |-> "RUNNING", answered |-> FALSE, ok |-> FALSE]

NewSession == [frames |-> <<>>, queue |-> <<>>, tasks |-> {}, history |-> <<>>]

-----------------------------------------------------------------------------
(* Reading a session.  processing_tasks are lists in creation order; inputs*)
(* are numbered in queue order, so a task's place in the list is the       *)
(* number of its start input and the lists are kept as one set.            *)

Id(t) == t.start.id

Top(s) == s.frames[Len(s.frames)]

FrameAgents(s) == {s.frames[i] : i \in DOMAIN s.frames}

OwnerTasks(s) == {t \in s.tasks : t.owner = Top(s)}

IsFirst(t, S) == t \in S /\ \A u \in S : Id(t) <= Id(u)

Pending(t) == {k \in DOMAIN t.units : t.units[k].status = "PENDING"}

CompletedTasks(s) == {t \in OwnerTasks(s) : t.status = "COMPLETED"}

AvailableRunning(s) == {t \in OwnerTasks(s) : /\ t.status = "RUNNING"
                                              /\ t.kind = "MESSAGE" \/ Pending(t) # {}}

NothingToAdvance(s) == CompletedTasks(s) = {} /\ AvailableRunning(s) = {}
-----------------------------------------------------------------------------
(* Writing a session.                                                      *)

PutTask(s, t) == [s EXCEPT !.tasks = {u \in @ : Id(u) # Id(t)} \cup {t}]

\* Seeded fault: the finished task stays in its agent.
DropTaskKept(s, t) == s

DropTask(s, t) == [s EXCEPT !.tasks = {u \in @ : Id(u) # Id(t)}]

Log(s, kind, t) == [s EXCEPT !.history = Append(@, [kind |-> kind, task |-> Id(t)])]

\* Seeded fault: a finished tool task leaves nothing in the history.
SaveMessageHistoryOnly(s, t) ==
  IF t.kind = "TOOL" /\ t.status # "PAUSED" THEN s
  ELSE Log(s, IF t.status = "PAUSED" THEN "paused" ELSE "done", t)

\* build_task_artifacts: a paused task leaves its start input and its request,
\* any other task its whole exchange.
SaveTaskHistory(s, t) == Log(s, IF t.status = "PAUSED" THEN "paused" ELSE "done", t)

Enqueue(s, in) == [s EXCEPT !.queue = Append(@, in)]

Without(q, id) ==
  IF \E i \in DOMAIN q : q[i].id = id
  THEN LET i == CHOOSE j \in DOMAIN q : q[j].id = id
       IN  SubSeq(q, 1, i - 1) \o SubSeq(q, i + 1, Len(q))
  ELSE q

\* Seeded fault: only the runtime queue is popped.
DequeueRuntimeOnly(s, in) == s

\* _pop_input: the runtime queue's head leaves the durable queue by its id.
Dequeue(s, in) == [s EXCEPT !.queue = Without(@, in.id)]

\* Seeded fault: the paused tasks of the top agent are cleaned with the others.
CleanPausedToo(s) == [s EXCEPT !.queue = <<>>, !.tasks = {t \in @ : t.owner # Top(s)}]

\* clean_state: the queue and the tasks of the top agent that are not paused.
CleanState(s) ==
  [s EXCEPT !.queue = <<>>,
            !.tasks = {t \in @ : t.owner = Top(s) => t.status = "PAUSED"}]

PausedAfter(s, t) == {u \in s.tasks : u.owner = t.owner /\ u.status = "PAUSED" /\ Id(u) > Id(t)}

KeepRecentPaused(s) ==
  [s EXCEPT !.tasks =
     {t \in @ : t.status = "PAUSED" => Cardinality(PausedAfter(s, t)) < PausedLimit}]

\* A stack that is empty sends the session back to its root, without its tasks
\* and its queue.
SanitizeFrames(s) ==
  IF s.frames = <<>> THEN [s EXCEPT !.frames = <<Root>>, !.queue = <<>>, !.tasks = {}]
                     ELSE s

LoadSession(s, resume) ==
  LET loaded == KeepRecentPaused(SanitizeFrames(s))
  IN  IF resume THEN loaded ELSE CleanState(loaded)

-----------------------------------------------------------------------------
(* What the model may answer, and the execution units of its tool calls.   *)

PlainCall(tool) == [tool |-> tool, target |-> NoAgent, req |-> 0]

\* get_tools after _filter_runtime_available_tools: no handoff to an agent of
\* the stack, no return without a parent, no resume without a paused task of
\* the agent.  A call of an unknown tool fails like a synchronous one.
AvailableCalls(s) ==
  {PlainCall(tool) : tool \in Tools \cap {"sync", "async", "confirm"}}
  \cup {[tool |-> "handoff", target |-> a, req |-> 0] :
          a \in IF "handoff" \in Tools THEN Handoffs[Top(s)] \ FrameAgents(s) ELSE {}}
  \cup {PlainCall(tool) :
          tool \in IF Len(s.frames) > 1 THEN Tools \cap {"return"} ELSE {}}
  \cup {[tool |-> "resume", target |-> NoAgent, req |-> r] :
          r \in IF "resume" \in Tools /\ \E t \in OwnerTasks(s) : t.status = "PAUSED"
                THEN 1..(nextReq - 1) ELSE {}}

\* The tool calls of one assistant message; without tools they are discarded.
Messages(s, noTools) ==
  IF noTools \/ used.rounds = MaxRounds
  THEN {<<>>}
  ELSE LET C == AvailableCalls(s)
       IN  {<<>>} \cup {<<c>> : c \in C}
           \cup (IF MaxCalls = 2 THEN {<<c, d>> : c \in C, d \in C} ELSE {})

\* The CONTINUE tag of a message, which is only read for a subagent.
ContinueTags(s) == IF Len(s.frames) > 1 THEN BOOLEAN ELSE {FALSE}

\* Seeded fault: the unit of a handoff forgets its target.
NewUnitWithoutTarget(tool, target, req) ==
  [tool |-> tool, target |-> NoAgent, req |-> req, status |-> "PENDING", ok |-> FALSE,
   noTools |-> FALSE, cont |-> FALSE]

NewUnit(tool, target, req) ==
  [tool |-> tool, target |-> target, req |-> req, status |-> "PENDING", ok |-> FALSE,
   noTools |-> FALSE, cont |-> FALSE]

\* A tool that needs confirmation is preceded by its HITL unit.
UnitsOfCall(c) ==
  IF c.tool = "confirm"
  THEN <<NewUnit("hitl", NoAgent, 0), NewUnit("confirm", NoAgent, 0)>>
  ELSE <<NewUnit(c.tool, c.target, c.req)>>

ChangesControl(c) == c.tool \in {"handoff", "return"}

LLMUnit(lastCall) ==
  [NewUnit("llm", NoAgent, 0) EXCEPT !.noTools = lastCall.tool = "resume"]

\* build_tool_execution_units: a change of control ends the list; otherwise one
\* LLM call closes it.
BuildUnits(calls) ==
  LET first == calls[1]
      final == calls[Len(calls)]
      close(c) == IF ChangesControl(c) THEN <<>> ELSE <<LLMUnit(c)>>
  IN  IF Len(calls) = 1 \/ ChangesControl(first)
      THEN UnitsOfCall(first) \o close(first)
      ELSE UnitsOfCall(first) \o UnitsOfCall(final) \o close(final)

-----------------------------------------------------------------------------
(* The caller.                                                             *)

NewInput(kind, req, ok, to) ==
  [id |-> nextInput, kind |-> kind, req |-> req, ok |-> ok, to |-> to]

\* What a run may start with: nothing, a user message, a response to a request
\* issued before, or an event the runtime does not know.
ArrivingInputs ==
  {NewInput(kind, 0, FALSE, NoAgent) : kind \in Arrivals \cap {"user", "unsupported"}}
  \cup {NewInput("response", r, ok, NoAgent) :
          r \in IF "response" \in Arrivals THEN 1..(nextReq - 1) ELSE {}, ok \in Answers}

\* init_session and the head of run: the stored session is loaded, the queues
\* are aligned, the input of this run is appended to both.
StartRun(resume, arriving) ==
  LET loaded == LoadSession(stored, resume)
  IN  /\ pc = "idle"
      /\ used.runs < MaxRuns
      /\ used' = [used EXCEPT !.runs = @ + 1]
      /\ last' = loaded
      /\ \/ /\ arriving = {}
            /\ live' = loaded
            /\ UNCHANGED nextInput
         \/ \E in \in arriving :
              /\ live' = Enqueue(loaded, in)
              /\ nextInput' = nextInput + 1
      /\ rtQueue' = live'.queue
      /\ pc' = "starting"
      /\ UNCHANGED <<stored, nextReq, approved>>

BeginRun ==
  \E resume \in Resumes :
    \/ "none" \in Arrivals /\ StartRun(resume, {})
    \/ ArrivingInputs # {} /\ StartRun(resume, ArrivingInputs)

-----------------------------------------------------------------------------
(* The runtime loop.  A handler changes the live session and then awaits its*)
(* checkpoint: pc is "saving" until CommitRuntimeCheckpoint.               *)

\* resolve_owner_agent: the agent of the top frame, which RootAtBottom provides.
InLoop == pc = "loop"

AwaitCheckpoint(s) == live' = s /\ pc' = "saving" /\ UNCHANGED <<last, stored>>

CommitRuntimeCheckpoint ==
  /\ pc \in {"starting", "saving"}
  /\ stored' = live
  /\ last' = live
  /\ pc' = "loop"
  /\ UNCHANGED <<live, rtQueue, nextInput, nextReq, approved, used>>

\* _advance_completed_message_task with tool calls: a new ToolState, running.
AdvanceCompletedMessage ==
  /\ InLoop
  /\ \E t \in CompletedTasks(live) :
       /\ IsFirst(t, CompletedTasks(live))
       /\ t.kind = "MESSAGE" /\ t.calls # <<>>
       /\ AwaitCheckpoint(PutTask(live, [t EXCEPT !.kind = "TOOL", !.status = "RUNNING",
                                                  !.calls = <<>>, !.cont = FALSE,
                                                  !.units = BuildUnits(t.calls),
                                                  !.request = NoRequest]))
  /\ UNCHANGED <<rtQueue, nextInput, nextReq, approved, used>>

LastUnit(t) == t.units[Len(t.units)]

HandsOff(t) == t.kind = "TOOL" /\ LastUnit(t).tool = "handoff" /\ LastUnit(t).ok

HandsBack(t) == t.kind = "TOOL" /\ LastUnit(t).tool = "return" /\ LastUnit(t).ok

\* Seeded fault: no look at the depth of the stack before a report.
ReportsFromRoot(s, t) ==
  /\ ~HandsOff(t) /\ ~HandsBack(t)
  /\ \/ t.kind = "MESSAGE" /\ ~t.cont
     \/ t.kind = "TOOL" /\ LastUnit(t).tool = "llm" /\ ~LastUnit(t).cont

\* The task of a subagent that ends with a message that does not ask to go on.
Reports(s, t) ==
  /\ ~HandsOff(t) /\ ~HandsBack(t)
  /\ Len(s.frames) > 1
  /\ \/ t.kind = "MESSAGE" /\ ~t.cont
     \/ t.kind = "TOOL" /\ LastUnit(t).tool = "llm" /\ ~LastUnit(t).cont

FramesAfter(s, t) ==
  CASE HandsOff(t)                     -> Append(s.frames, LastUnit(t).target)
    [] HandsBack(t) \/ Reports(s, t)  -> SubSeq(s.frames, 1, Len(s.frames) - 1)
    [] OTHER                           -> s.frames

\* Seeded fault: the pop after a plain report is not recorded.
LogToolChangesOnly(s, t) ==
  CASE HandsOff(t)  -> Log(s, "push", t)
    [] HandsBack(t) -> Log(s, "pop", t)
    [] OTHER        -> s

LogFrameChange(s, t) ==
  CASE HandsOff(t)                     -> Log(s, "push", t)
    [] HandsBack(t) \/ Reports(s, t)  -> Log(s, "pop", t)
    [] OTHER                           -> s

ChangeFrames(s, t) == [LogFrameChange(s, t) EXCEPT !.frames = FramesAfter(s, t)]

\* _change_agent_frame wakes the agent that takes over after a handoff or a
\* handoff return with an empty input; a plain report wakes nobody.
WakeInput(s) == NewInput("handoff", 0, FALSE, Top(s))

AdvanceCompletedTask ==
  /\ InLoop
  /\ \E t \in CompletedTasks(live) :
       /\ IsFirst(t, CompletedTasks(live))
       /\ t.kind = "TOOL" \/ t.calls = <<>>
       /\ LET s == ChangeFrames(SaveTaskHistory(live, t), t)
          IN IF HandsOff(t) \/ HandsBack(t)
             THEN /\ AwaitCheckpoint(DropTask(Enqueue(s, WakeInput(s)), t))
                  /\ rtQueue' = Append(rtQueue, WakeInput(s))
                  /\ nextInput' = nextInput + 1
             ELSE AwaitCheckpoint(DropTask(s, t)) /\ UNCHANGED <<rtQueue, nextInput>>
  /\ UNCHANGED <<nextReq, approved, used>>

\* The first running task is advanced when no task is completed.
NextRunning(t) ==
  /\ InLoop
  /\ CompletedTasks(live) = {}
  /\ IsFirst(t, AvailableRunning(live))

CountRound(calls) ==
  used' = [used EXCEPT !.rounds = IF calls = <<>> THEN @ ELSE @ + 1]

\* The model answers; a failure of the model is an exception (Fail).
AdvanceRunningMessage ==
  \E t \in AvailableRunning(live) :
    /\ NextRunning(t)
    /\ t.kind = "MESSAGE"
    /\ \E calls \in Messages(live, FALSE), cont \in ContinueTags(live) :
         /\ AwaitCheckpoint(PutTask(live, [t EXCEPT !.status = "COMPLETED", !.calls = calls,
                                                    !.cont = cont, !.request = NoRequest]))
         /\ CountRound(calls)
    /\ UNCHANGED <<rtQueue, nextInput, nextReq, approved>>

\* _pick_next_execution_unit: the first unit that is still pending.
NextUnit(t, k) == NextRunning(t) /\ k \in Pending(t) /\ \A j \in Pending(t) : k <= j

\* The unit at k is finished with that outcome and the new units appended; the
\* task is completed when nothing is pending.  A running task that was advanced
\* gives up its interruption request.
AfterUnit(t, k, ok, appended) ==
  LET units == [t.units EXCEPT ![k].status = "FINISHED", ![k].ok = ok] \o appended
  IN  [t EXCEPT !.units = units, !.request = NoRequest,
                !.status = IF \A j \in DOMAIN units : units[j].status = "FINISHED"
                           THEN "COMPLETED" ELSE "RUNNING"]

FinishUnit(t, k, ok) == AwaitCheckpoint(PutTask(live, AfterUnit(t, k, ok, <<>>)))

ExecuteSyncTool(t, k) ==
  /\ t.units[k].tool = "sync"
  /\ \E ok \in BOOLEAN : FinishUnit(t, k, ok)
  /\ UNCHANGED <<rtQueue, nextInput, nextReq, approved, used>>

\* Seeded fault: a refused tool is never answered for.
ExecuteApprovedToolOnly(t, k) ==
  /\ t.units[k].tool = "confirm" /\ t.units[k - 1].ok
  /\ \E ok \in BOOLEAN : FinishUnit(t, k, ok)
  /\ UNCHANGED <<rtQueue, nextInput, nextReq, approved, used>>

\* _resolve_confirmation reads the result of the HITL unit just before it.
ExecuteConfirmedTool(t, k) ==
  /\ t.units[k].tool = "confirm"
  /\ \E ok \in IF t.units[k - 1].ok THEN BOOLEAN ELSE {FALSE} : FinishUnit(t, k, ok)
  /\ UNCHANGED <<rtQueue, nextInput, nextReq, approved, used>>

ExecuteHandoff(t, k) ==
  /\ t.units[k].tool = "handoff"
  /\ FinishUnit(t, k, TRUE)
  /\ UNCHANGED <<rtQueue, nextInput, nextReq, approved, used>>

ExecuteHandoffReturn(t, k) ==
  /\ t.units[k].tool = "return"
  /\ FinishUnit(t, k, Len(live.frames) >= 2)
  /\ UNCHANGED <<rtQueue, nextInput, nextReq, approved, used>>

\* resume_task queues a response to the request the model named when some task
\* still carries that request; it fails otherwise.
ExecuteResumeTask(t, k) ==
  LET r == t.units[k].req IN
  /\ t.units[k].tool = "resume"
  /\ IF \E u \in live.tasks : u.request.id = r
     THEN \E ok \in Answers :
            LET in == NewInput("response", r, ok, NoAgent) IN
            /\ AwaitCheckpoint(Enqueue(PutTask(live, AfterUnit(t, k, TRUE, <<>>)), in))
            /\ rtQueue' = Append(rtQueue, in)
            /\ nextInput' = nextInput + 1
     ELSE FinishUnit(t, k, FALSE) /\ UNCHANGED <<rtQueue, nextInput>>
  /\ UNCHANGED <<nextReq, approved, used>>

\* Seeded fault: an interrupted tool loop starts over.
InterruptedFromStart(t) ==
  [t EXCEPT !.status = "PAUSED",
            !.units = [k \in DOMAIN t.units |-> [t.units[k] EXCEPT !.status = "PENDING"]],
            !.request = [id |-> nextReq, origin |-> t.status,
                         answered |-> FALSE, ok |-> FALSE]]

\* perform_interruption_request, and the status its callers set.
Interrupted(t) ==
  [t EXCEPT !.status = "PAUSED",
            !.request = [id |-> nextReq, origin |-> t.status,
                         answered |-> FALSE, ok |-> FALSE]]

\* Seeded fault: any answered request of the task counts for the unit.
HasAnyResponse(t, k) == t.request.answered

\* The response the task carries for the request this unit issued.
HasResponse(t, k) ==
  t.request.answered /\ t.request.id = t.units[k].req

\* An asynchronous tool, or the HITL tool, takes the answer to its request ...
ConsumeAsyncResponse(t, k) ==
  /\ t.units[k].tool \in {"async", "hitl"}
  /\ HasResponse(t, k)
  /\ FinishUnit(t, k, t.request.ok)
  /\ UNCHANGED <<rtQueue, nextInput, nextReq, approved, used>>

\* ... and without one it issues a request and pauses its task.
IssueAsyncRequest(t, k) ==
  /\ t.units[k].tool \in {"async", "hitl"}
  /\ ~HasResponse(t, k)
  /\ LET paused == Interrupted([t EXCEPT !.units[k].req = nextReq])
     IN AwaitCheckpoint(SaveTaskHistory(PutTask(live, paused), paused))
  /\ nextReq' = nextReq + 1
  /\ UNCHANGED <<rtQueue, nextInput, approved, used>>

\* The continuation: the model answers, its tool calls become further units.
ExecuteLLMCall(t, k) ==
  /\ t.units[k].tool = "llm"
  /\ \E calls \in Messages(live, t.units[k].noTools), cont \in ContinueTags(live) :
       /\ LET asked == [t EXCEPT !.units[k].cont = cont]
              appended == IF calls = <<>> THEN <<>> ELSE BuildUnits(calls)
          IN AwaitCheckpoint(PutTask(live, AfterUnit(asked, k, TRUE, appended)))
       /\ CountRound(calls)
  /\ UNCHANGED <<rtQueue, nextInput, nextReq, approved>>

AdvanceRunningTool ==
  \E t \in AvailableRunning(live) : \E k \in Pending(t) :
    /\ t.kind = "TOOL"
    /\ NextUnit(t, k)
    /\ \/ ExecuteSyncTool(t, k)
       \/ ExecuteConfirmedTool(t, k)
       \/ ExecuteHandoff(t, k)
       \/ ExecuteHandoffReturn(t, k)
       \/ ExecuteResumeTask(t, k)
       \/ ConsumeAsyncResponse(t, k)
       \/ IssueAsyncRequest(t, k)
       \/ ExecuteLLMCall(t, k)

\* Seeded fault: the newest input is taken first.
NextNewest(in) ==
  InLoop /\ NothingToAdvance(live) /\ rtQueue # <<>> /\ in = rtQueue[Len(rtQueue)]

\* The head of the runtime queue, when there is nothing to advance.
NextQueued(in) ==
  InLoop /\ NothingToAdvance(live) /\ rtQueue # <<>> /\ in = Head(rtQueue)

NewTask(in, owner) ==
  [start |-> in, owner |-> owner, kind |-> "MESSAGE", status |-> "RUNNING",
   calls |-> <<>>, cont |-> FALSE, units |-> <<>>, request |-> NoRequest]

StartNewTask ==
  \E in \in {rtQueue[i] : i \in DOMAIN rtQueue} :
    /\ NextQueued(in)
    /\ in.kind \in {"user", "handoff"}
    /\ AwaitCheckpoint(PutTask(Dequeue(live, in), NewTask(in, Top(live))))
    /\ rtQueue' = Tail(rtQueue)
    /\ UNCHANGED <<nextInput, nextReq, approved, used>>

\* _find_interruption_request: the paused task of any agent with that request.
Awaiting(s, r) == {t \in s.tasks : t.status = "PAUSED" /\ t.request.id = r}

\* Seeded fault: the response is not attached to the request.
AnsweredWithoutResponse(t, in) == [t EXCEPT !.status = t.request.origin]

\* Seeded fault: the task goes on running, whatever status it had.
AnsweredAsRunning(t, in) ==
  [t EXCEPT !.status = "RUNNING", !.request.answered = TRUE, !.request.ok = in.ok]

Answered(t, in) ==
  [t EXCEPT !.status = t.request.origin, !.request.answered = TRUE, !.request.ok = in.ok]

\* The task goes back to the status it had; a response that no paused task
\* awaits, or that comes second, is only taken off the queue.
ApplyInterruptionResponse ==
  \E in \in {rtQueue[i] : i \in DOMAIN rtQueue} :
    /\ NextQueued(in)
    /\ in.kind = "response"
    /\ LET s == Dequeue(live, in) IN
       \/ /\ \A t \in Awaiting(s, in.req) : t.request.answered
          /\ AwaitCheckpoint(s)
          /\ UNCHANGED approved
       \/ \E t \in Awaiting(s, in.req) :
            /\ ~t.request.answered
            /\ AwaitCheckpoint(PutTask(s, Answered(t, in)))
            /\ approved' = IF in.ok THEN approved \cup {in.req} ELSE approved
    /\ rtQueue' = Tail(rtQueue)
    /\ UNCHANGED <<nextInput, nextReq, used>>

LeaveLoop ==
  /\ InLoop
  /\ NothingToAdvance(live) /\ rtQueue = <<>>
  /\ pc' = "finishing"
  /\ UNCHANGED <<live, last, stored, rtQueue, nextInput, nextReq, approved, used>>

\* checkpoint_for_run_finish: the rest of the run is dropped and stored.
FinishRun ==
  /\ pc = "finishing"
  /\ stored' = CleanState(live)
  /\ live' = stored' /\ last' = stored'
  /\ rtQueue' = <<>>
  /\ pc' = "idle"
  /\ UNCHANGED <<nextInput, nextReq, approved, used>>

-----------------------------------------------------------------------------
(* Exceptions and crashes.                                                 *)

\* The runtime object is gone; only the store is read again.
Forget(s) == live' = s /\ last' = s /\ stored' = s /\ rtQueue' = <<>> /\ pc' = "idle"

Unpaused(s) == {t \in OwnerTasks(s) : t.status # "PAUSED"}

\* _pause_task_after_exception: back to the last checkpoint, where the first
\* task of the top agent that is not paused is paused under a new request; with
\* no such task the exception leaves run.
PauseTaskAfterException ==
  \/ /\ Unpaused(last) = {}
     /\ Forget(stored)
     /\ UNCHANGED nextReq
  \/ \E t \in Unpaused(last) :
       /\ IsFirst(t, Unpaused(last))
       /\ live' = SaveTaskHistory(PutTask(last, Interrupted(t)), Interrupted(t))
       /\ last' = live' /\ stored' = live'
       /\ rtQueue' = <<>>
       /\ pc' = "finishing"
       /\ nextReq' = nextReq + 1

\* Something the handlers await raises: the model, a listener, the store.
Fail ==
  /\ pc \in {"starting", "loop", "saving"}
  /\ used.faults < MaxFaults
  /\ used' = [used EXCEPT !.faults = @ + 1]
  /\ PauseTaskAfterException
  /\ UNCHANGED <<nextInput, approved>>

\* _process_new_input raises for an event it does not know, after it was popped.
ProcessUnsupportedInput ==
  /\ \E i \in DOMAIN rtQueue : NextQueued(rtQueue[i]) /\ rtQueue[i].kind = "unsupported"
  /\ PauseTaskAfterException
  /\ UNCHANGED <<nextInput, approved, used>>

\* The process dies, or the run is cancelled, anywhere.
Crash ==
  /\ pc # "idle"
  /\ used.crashes < MaxCrashes
  /\ used' = [used EXCEPT !.crashes = @ + 1]
  /\ Forget(stored)
  /\ UNCHANGED <<nextInput, nextReq, approved>>

-----------------------------------------------------------------------------
Init ==
  /\ live = NewSession /\ last = NewSession /\ stored = NewSession
  /\ rtQueue = <<>>
  /\ pc = "idle"
  /\ nextInput = 1 /\ nextReq = 1
  /\ approved = {}
  /\ used = [runs |-> 0, rounds |-> 0, faults |-> 0, crashes |-> 0]

RuntimeStep ==
  \/ CommitRuntimeCheckpoint
  \/ AdvanceCompletedMessage
  \/ AdvanceCompletedTask
  \/ AdvanceRunningMessage
  \/ AdvanceRunningTool
  \/ StartNewTask
  \/ ApplyInterruptionResponse
  \/ LeaveLoop
  \/ ProcessUnsupportedInput
  \/ FinishRun

Next == BeginRun \/ RuntimeStep \/ Fail \/ Crash

Spec == Init /\ [][Next]_vars

\* A started run keeps being scheduled by the event loop; nothing obliges the
\* caller to start a run, or an exception or a crash to happen.
FairSpec == Spec /\ WF_vars(RuntimeStep)
-----------------------------------------------------------------------------
(* Properties.                                                             *)

\* Every variable keeps its type: no handler builds a malformed session.
TypeOK ==
  /\ live \in Session /\ last \in Session /\ stored \in Session
  /\ rtQueue \in Seq(Input)
  /\ pc \in {"idle", "starting", "loop", "saving", "finishing"}
  /\ nextInput \in Nat \ {0} /\ nextReq \in Nat \ {0}
  /\ approved \subseteq Nat
  /\ used \in [runs : Nat, rounds : Nat, faults : Nat, crashes : Nat]

\* While the loop runs, the in-memory queue it pops and the durable queue that
\* is checkpointed hold the same inputs in the same order, although _push_input
\* and _pop_input write them one after the other.
QueueMirror == pc \in {"starting", "loop", "saving"} => rtQueue = live.queue

Sessions == {live, last, stored}

\* resolve_owner_agent always finds an owner: a session that was loaded once has
\* the root agent at the bottom of its frames and nowhere else, whatever order
\* handoffs, returns, pauses and rollbacks come in.
RootAtBottom ==
  \A s \in Sessions :
    \/ s = NewSession
    \/ s.frames # <<>> /\ \A i \in DOMAIN s.frames : s.frames[i] = Root <=> i = 1

Count(s, kind) == Cardinality({i \in DOMAIN s.history : s.history[i].kind = kind})

\* The frame changes recorded in the history explain the frame stack: a rollback
\* or a crash never keeps one without the other.
FramesFollowHistory ==
  \A s \in Sessions :
    s.frames # <<>> => Len(s.frames) = 1 + Count(s, "push") - Count(s, "pop")

\* A task is paused exactly while its request waits for an answer, and no two
\* tasks wait for the same request; so a response wakes at most one task.
PausedAwaitsResponse ==
  \A s \in Sessions : \A t \in s.tasks :
    /\ t.status = "PAUSED" => t.request.id > 0 /\ ~t.request.answered
    /\ t.status # "PAUSED" /\ t.request.id > 0 => t.request.answered
    /\ \A u \in s.tasks : t.request.id > 0 /\ u.request.id = t.request.id => u = t

Done(s) == {s.history[i].task : i \in {j \in DOMAIN s.history : s.history[j].kind = "done"}}

Queued(s) == {s.queue[i].id : i \in DOMAIN s.queue}

Taken(s) == {Id(t) : t \in s.tasks}

\* An input is in one place only: waiting in the queue, held by one task, or
\* finished in the history; a finished one is recorded once.  So no rollback,
\* crash or restart of a run makes the runtime process an input twice.
OnePlace ==
  \A s \in Sessions :
    /\ Queued(s) \cap Taken(s) = {} /\ Queued(s) \cap Done(s) = {} /\ Taken(s) \cap Done(s) = {}
    /\ Cardinality(Taken(s)) = Cardinality(s.tasks)
    /\ Cardinality(Done(s)) = Count(s, "done")
    /\ Cardinality(Queued(s)) = Len(s.queue)

\* A tool that requires confirmation succeeds only after the request its own HITL
\* unit issued was answered positively, whatever other responses came in between.
ApprovedBeforeRun ==
  \A t \in live.tasks : \A k \in DOMAIN t.units :
    t.units[k].tool = "confirm" /\ t.units[k].ok =>
      k > 1 /\ t.units[k - 1].tool = "hitl" /\ t.units[k - 1].req \in approved

Finished(t) == {k \in DOMAIN t.units : t.units[k].status = "FINISHED"}

\* A unit whose result was checkpointed is never executed again: it keeps its
\* result in every later checkpoint of its task, across exceptions, pauses,
\* crashes and resumed runs (docs 2.0, "a finished unit is not executed again").
FinishedUnitsStay ==
  [][\A t \in stored.tasks, u \in stored'.tasks :
       Id(u) = Id(t) => \A k \in Finished(t) : k \in Finished(u) /\ u.units[k] = t.units[k]]_vars

Inputs(s) ==
  {Id(t) : t \in s.tasks} \cup Done(s)
  \cup {s.queue[i].id : i \in {j \in DOMAIN s.queue : s.queue[j].kind # "response"}}

\* Between the first checkpoint of a run and its end no stored input disappears:
\* it stays queued, is taken by a task or is finished in the history.
NoInputLost ==
  [][(pc \in {"loop", "saving"}) => (Inputs(stored) \subseteq Inputs(stored'))]_vars

\* A stored paused task goes on only by the answer to its own request, and then
\* from the status it had when it was paused, with nothing else changed.
OnlyResponseWakes ==
  [][\A t \in stored.tasks, u \in stored'.tasks :
       Id(u) = Id(t) /\ t.status = "PAUSED" /\ u # t =>
         \E ok \in BOOLEAN :
           u = [t EXCEPT !.status = t.request.origin,
                         !.request.answered = TRUE, !.request.ok = ok]]_vars

\* A stored paused task is only dropped when a session is loaded and its agent has
\* PausedLimit newer paused tasks; a run, its end, a failure or a crash keep it.
PausedTaskSurvives ==
  [][\A t \in stored.tasks :
       t.status = "PAUSED" /\ Id(t) \notin Taken(stored') =>
         pc = "starting" /\ Cardinality(PausedAfter(stored, t)) >= PausedLimit]_vars

\* Every run that is started ends: it leaves the loop, raises, or its process dies.
RunTerminates == pc # "idle" ~> pc = "idle"
=============================================================================
