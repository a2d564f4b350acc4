------------------------------- MODULE TaskEvents -------------------------------
(***************************************************************************)
(* The events of tasks over runs that pause, fail and stop.  A task keeps   *)
(* the events it published in a buffer that is saved with it, folded to the *)
(* FINAL event of each chain; when a later run goes on with the task the    *)
(* buffer is told again before the first new event, and what a stopped run  *)
(* had finished is told when the next one starts.  The result collector     *)
(* makes the outputs of the run from what it heard, and the server the rows *)
(* of the history, one for each task.                                       *)
(* Sources: os/models.py, os/runtime.py, os/service.py, os/event_bus/       *)
(* collector.py and the example server's projector.py,                      *)
(* runtime_event_handler.py and service.py.                                 *)
(*                                                                          *)
(* A chain is told as STARTED, then END and the FINAL that the collector    *)
(* answers with; EventBus shows that nothing comes between those two.       *)
(* Agents are left out: SessionRuntime has the tasks that wait below.       *)
(***************************************************************************)
EXTENDS Naturals, Sequences, FiniteSets, Selections

CONSTANTS
    Kept,        \* the store hands out copies that know what was replayed
    MaxRuns, MaxInputs, MaxCalls, MaxFaults   \* bounds of the checked instances

ASSUME EventAssumption ==
    /\ Kept \in BOOLEAN
    /\ {MaxRuns, MaxInputs, MaxCalls, MaxFaults} \subseteq Nat

VARIABLES
    stored,    \* the session in the store
    live,      \* the session of the run
    last,      \* its last checkpoint, to which a failure goes back
    heard,     \* what the listeners of the run have heard
    pc,        \* where the run is; "idle" when there is none
    used       \* runs, inputs, tasks, events, calls and faults so far

vars == <<stored, live, last, heard, pc, used>>

-----------------------------------------------------------------------------
(* Events, tasks and sessions.                                              *)

\* An event of a task, and one of the server's history, which has another kind.
Kinds  == {"input", "response", "message", "call", "result", "interrupted", "frame"}
Events == [task : Nat, id : Nat, kind : Kinds, phase : {"started", "end", "final"}]
Rows   == [task : Nat, id : Nat, kind : Kinds \cup {"complete"}, phase : {"started", "end", "final"}]
Finals == {e \in Events : e.phase = "final"}
Of(id) == {e \in Rows : e.task = id}

Event(t, id, kind, phase) == [task |-> t.id, id |-> id, kind |-> kind, phase |-> phase]
Final(t, id, kind) == <<Event(t, id, kind, "final")>>
Chain(t, id, kind) == <<Event(t, id, kind, "end"), Event(t, id, kind, "final")>>

\* An input of the queue: a user's message, or the response to a paused task.
Input(kind, of) == [kind |-> kind, of |-> of]

\* `left` is what the task does next: its "message", "build" the units of the
\* calls it made, its "tool", the "answer" to that; a task that has finished has
\* "none" left, or the "switch" to the agent it handed the control to.
\* `asked` is its request, `answered` says that the response has come.
NewTask(id) ==
    [id |-> id, left |-> "message", paused |-> FALSE, asked |-> "none",
     answered |-> FALSE, events |-> <<>>, replayed |-> FALSE]

NewSession == [tasks |-> <<>>, done |-> <<>>, queue |-> <<>>]

Running(t)  == ~t.paused /\ t.left \in {"message", "tool", "answer"}
Complete(t) == ~t.paused /\ t.left \in {"build", "none", "switch"}

Changed(tasks, t) == [k \in DOMAIN tasks |-> IF tasks[k].id = t.id THEN t ELSE tasks[k]]
Without(tasks, t) == Keep(tasks, {u \in Range(tasks) : u.id # t.id})

\* The first of the tasks at these places.
First(tasks, at) == IF at = {} THEN {} ELSE {tasks[Min(at)]}
RunningAt(tasks)  == {k \in DOMAIN tasks : Running(tasks[k])}
CompleteAt(tasks) == {k \in DOMAIN tasks : Complete(tasks[k])}

\* Completed tasks before running ones, before the inputs that wait.
Picked(s) ==
    First(s.tasks, IF CompleteAt(s.tasks) # {} THEN CompleteAt(s.tasks) ELSE RunningAt(s.tasks))

\* _filter_runtime_events_before_save: a chain with a FINAL is only that.
\* Seeded fault: the chains are saved as they were told.
Unfolded(events) == events
Folded(events) ==
    Keep(events, {e \in Events :
        e.phase = "final" \/ ~\E k \in DOMAIN events :
                                 events[k].id = e.id /\ events[k].phase = "final"})

FoldedTask(t)  == [t EXCEPT !.events = Folded(@)]
FoldedTasks(s) == [s EXCEPT !.tasks = [k \in DOMAIN s.tasks |-> FoldedTask(s.tasks[k])]]

\* clean_state: the running tasks, what was told and the queue go.
Cleaned(s) ==
    [s EXCEPT !.tasks = Keep(@, {t \in Range(@) : ~Running(t)}), !.done = <<>>, !.queue = <<>>]

\* What the store hands out: did_replay is not serialized.
Fresh(b) == IF Kept THEN b ELSE [b EXCEPT !.replayed = FALSE]
Restored(s) ==
    [s EXCEPT !.tasks = [k \in DOMAIN s.tasks |-> Fresh(s.tasks[k])],
              !.done  = [k \in DOMAIN s.done |-> Fresh(s.done[k])]]

\* load_session_state drops a task whose buffer does not begin with its input.
Loaded(s, resume) ==
    LET valid == [Restored(s) EXCEPT !.tasks = Keep(@, {t \in Range(@) :
                     t.events # <<>> /\ t.events[1].kind = "input"})]
    IN  IF resume THEN valid ELSE Cleaned(valid)

-----------------------------------------------------------------------------
(* Telling.                                                                 *)

\* ProcessingTask.publish and _write_buffer: the first event of a task in a run
\* is told after all that its buffer holds, and only new events are buffered.
\* Seeded fault: what a task told in an earlier run is not told again.
PublishNew(s, t, new) ==
    /\ heard' = heard \o new
    /\ live' = [s EXCEPT !.tasks = Changed(@,
                    [t EXCEPT !.replayed = TRUE, !.events = @ \o new])]
Publish(s, t, new) ==
    /\ heard' = heard \o (IF t.replayed THEN <<>> ELSE t.events) \o new
    /\ live' = [s EXCEPT !.tasks = Changed(@,
                    [t EXCEPT !.replayed = TRUE, !.events = @ \o new])]

\* _replay_finished_task_events_if_needed.
Unreplayed(s) ==
    FlattenSeq([k \in DOMAIN s.done |->
        IF s.done[k].replayed THEN <<>> ELSE s.done[k].events])
Replayed(s) ==
    [s EXCEPT !.done = [k \in DOMAIN s.done |-> [s.done[k] EXCEPT !.replayed = TRUE]]]

Id == used.events + 1
NextId == [used EXCEPT !.events = @ + 1]

-----------------------------------------------------------------------------
(* A run.                                                                   *)

Init ==
    /\ stored = NewSession /\ live = NewSession /\ last = NewSession
    /\ heard = <<>> /\ pc = "idle"
    /\ used = [runs |-> 0, inputs |-> 0, tasks |-> 0, events |-> 0, calls |-> 0, faults |-> 0]

Inputs == {Input("user", 0)} \cup {Input("response", of) : of \in 1..used.tasks}
Given  == {<<>>} \cup {<<i>> : i \in Inputs}

\* Runtime.create and Runtime.run: with a new input, or only to go on.
Begin(resume, given) ==
    LET s == Loaded(stored, resume)
    IN  /\ pc = "idle" /\ used.runs < MaxRuns /\ used.inputs + Len(given) <= MaxInputs
        /\ heard' = Unreplayed(s)
        /\ live' = [Replayed(s) EXCEPT !.queue = @ \o given]
        /\ last' = s /\ pc' = "save"
        /\ used' = [used EXCEPT !.runs = @ + 1, !.inputs = @ + Len(given)]
        /\ UNCHANGED stored

\* Every step of the loop ends with a checkpoint.
Saves == pc' = "save" /\ UNCHANGED <<stored, last>>

Checkpoint ==
    /\ pc = "save"
    /\ live' = FoldedTasks(live) /\ stored' = live' /\ last' = live' /\ pc' = "loop"
    /\ UNCHANGED <<heard, used>>

\* _clear_interruption_request: a task that went on has no request.
WentOn(t, left) == [t EXCEPT !.left = left, !.asked = "none", !.answered = FALSE]

Popped == [live EXCEPT !.queue = Tail(@)]
Waits(kind) ==
    pc = "loop" /\ Picked(live) = {} /\ live.queue # <<>> /\ Head(live.queue).kind = kind

StartTask ==
    LET t == NewTask(used.tasks + 1)
        s == [Popped EXCEPT !.tasks = Append(@, t)]
    IN  /\ Waits("user")
        /\ Publish(s, t, Final(t, Id, "input"))
        /\ used' = [NextId EXCEPT !.tasks = @ + 1]
        /\ Saves

\* A response wakes the task that waits for it; one that nobody waits for is lost.
ResumeTask ==
    LET woken == {t \in Range(live.tasks) :
                     t.paused /\ ~t.answered /\ t.id = Head(live.queue).of}
    IN  /\ Waits("response")
        /\ IF woken = {}
           THEN live' = Popped /\ UNCHANGED <<heard, used>>
           ELSE \E t \in woken :
                    /\ Publish(Popped, [t EXCEPT !.paused = FALSE, !.answered = TRUE],
                               Final(t, Id, "response"))
                    /\ used' = NextId
        /\ Saves

\* The task that the loop goes on with, while its chain is open or not.
Goes(t, at, left) == pc = at /\ t \in Picked(live) /\ t.left = left

\* A message is told from its first chunk to its last; what comes of it is known
\* at the end.  The first one may make calls, as may the answer to a tool.
Open(t, kind) ==
    /\ Publish(live, t, <<Event(t, Id, kind, "started")>>)
    /\ pc' = "open" /\ UNCHANGED <<stored, last, used>>

OpenMessage(t) ==
    /\ Goes(t, "loop", "message") \/ Goes(t, "loop", "answer")
    /\ Open(t, "message")

\* The calls of an answer are told with it, those of the first message in a step
\* of their own.
CloseMessage(t, left) ==
    LET told == Chain(t, Id, "message")
                \o (IF left = "tool" THEN Final(t, Id + 1, "call") ELSE <<>>)
    IN  /\ \/ Goes(t, "open", "message") /\ left \in {"none", "build"}
           \/ Goes(t, "open", "answer") /\ left \in {"none", "tool"}
        /\ left # "none" => used.calls < MaxCalls
        /\ Publish(live, WentOn(t, left), told)
        /\ used' = [used EXCEPT !.events = @ + Len(told) - 1,
                                !.calls = @ + (IF left = "none" THEN 0 ELSE 1)]
        /\ Saves

\* build_tool_execution_units.
BuildCalls(t) ==
    /\ Goes(t, "loop", "build")
    /\ Publish(live, WentOn(t, "tool"), Final(t, Id, "call"))
    /\ used' = NextId /\ Saves

\* A tool that runs here, or one whose result is the response.
OpenTool(t) == Goes(t, "loop", "tool") /\ Open(t, "result")

\* resume_task pushes a response for a task that waits; handoff closes the loop.
Pushed == {<<>>} \cup {<<Input("response", u.id)>> : u \in {u \in Range(live.tasks) : u.asked # "none"}}
CloseTool(t, left, pushed) ==
    /\ Goes(t, "open", "tool")
    /\ pushed # <<>> => left = "answer" /\ used.inputs < MaxInputs
    /\ Publish([live EXCEPT !.queue = @ \o pushed], WentOn(t, left), Chain(t, Id, "result"))
    /\ used' = [NextId EXCEPT !.inputs = @ + Len(pushed)]
    /\ Saves

\* An asynchronous tool, or a confirmation: the task waits for the response.
AskTool(t) ==
    /\ Goes(t, "loop", "tool") /\ ~(t.asked = "tool" /\ t.answered)
    /\ used.calls < MaxCalls
    /\ Publish(live, [t EXCEPT !.paused = TRUE, !.asked = "tool", !.answered = FALSE],
               Final(t, Id, "interrupted"))
    /\ used' = [NextId EXCEPT !.calls = @ + 1]
    /\ Saves

\* An answered confirmation is not told; the tool it was for is next.
Confirm(t) ==
    /\ Goes(t, "loop", "tool") /\ t.asked = "tool" /\ t.answered
    /\ live' = [live EXCEPT !.tasks = Changed(@, WentOn(t, "tool"))]
    /\ UNCHANGED <<heard, used>> /\ Saves

\* A finished task: its change of agents is told, and its events are kept until
\* the session is finished.  A handoff wakes the agent, a report does not.
Close(t, reports) ==
    LET switch == t.left = "switch"
        told   == IF switch \/ reports THEN Final(t, Id, "frame") ELSE <<>>
        past   == IF t.replayed \/ told = <<>> THEN <<>> ELSE t.events
    IN  /\ Goes(t, "loop", "none") \/ Goes(t, "loop", "switch")
        /\ switch => ~reports /\ used.inputs < MaxInputs
        /\ heard' = heard \o past \o told
        /\ live' = [live EXCEPT
              !.tasks = Without(@, t),
              !.queue = @ \o (IF switch THEN <<Input("user", 0)>> ELSE <<>>),
              !.done  = Append(@, [id |-> t.id, events |-> Folded(t.events \o told),
                                   replayed |-> t.replayed \/ told # <<>>])]
        /\ used' = [used EXCEPT !.events = @ + Len(told),
                                !.inputs = @ + (IF switch THEN 1 ELSE 0)]
        /\ Saves

\* Nothing to go on with: what finished and was not told is told now.
\* Seeded fault: it is not.
EndLoopSilent ==
    /\ pc = "loop" /\ Picked(live) = {} /\ live.queue = <<>>
    /\ pc' = "outputs" /\ UNCHANGED <<stored, live, last, heard, used>>
EndLoop ==
    /\ pc = "loop" /\ Picked(live) = {} /\ live.queue = <<>>
    /\ heard' = heard \o Unreplayed(live)
    /\ live' = Replayed(live) /\ pc' = "outputs"
    /\ UNCHANGED <<stored, last, used>>

\* Runtime.finish, after the server has saved the rows.
Finish ==
    /\ pc \in {"outputs", "failed"}
    /\ stored' = FoldedTasks(Cleaned(live)) /\ pc' = "idle"
    /\ live' = NewSession /\ last' = NewSession /\ heard' = <<>>
    /\ UNCHANGED used

\* _pause_task_after_exception: back to the checkpoint, where the first running
\* task asks whether it should be tried again.  Without one the run raises.
Gone ==
    /\ pc' = "idle" /\ live' = NewSession /\ last' = NewSession /\ heard' = <<>>
Asks(t)      == [t EXCEPT !.paused = TRUE, !.asked = "error", !.answered = FALSE]
\* Seeded fault: the past of the task is told again.
RetriedAnew(t) == [Asks(t) EXCEPT !.replayed = FALSE]
Retried(t)     == [Asks(t) EXCEPT !.replayed = TRUE]

Fail ==
    LET running == First(last.tasks, RunningAt(last.tasks))
    IN  /\ pc \in {"save", "loop", "open"} /\ used.faults < MaxFaults
        /\ IF running = {}
           THEN Gone /\ UNCHANGED stored /\ used' = [used EXCEPT !.faults = @ + 1]
           ELSE /\ \E t \in running : Publish(last, Retried(t), Final(t, Id + 1, "interrupted"))
                /\ stored' = FoldedTasks(live') /\ pc' = "failed"
                /\ used' = [used EXCEPT !.events = @ + 2, !.faults = @ + 1]
                /\ UNCHANGED last

\* The run is cancelled, or its process ends.
Crash ==
    /\ pc # "idle" /\ used.faults < MaxFaults
    /\ Gone /\ UNCHANGED stored /\ used' = [used EXCEPT !.faults = @ + 1]

Step(t) ==
    \/ OpenMessage(t) \/ \E left \in {"none", "build", "tool"} : CloseMessage(t, left)
    \/ BuildCalls(t) \/ OpenTool(t) \/ AskTool(t) \/ Confirm(t)
    \/ \E left \in {"answer", "switch"}, pushed \in Pushed : CloseTool(t, left, pushed)
    \/ \E reports \in BOOLEAN : Close(t, reports)

Next ==
    \/ \E resume \in BOOLEAN, given \in Given : Begin(resume, given)
    \/ Checkpoint \/ StartTask \/ ResumeTask
    \/ \E t \in Range(live.tasks) : Step(t)
    \/ EndLoop \/ Finish \/ Fail \/ Crash

Spec == Init /\ [][Next]_vars

-----------------------------------------------------------------------------
(* What is made of the events that were heard.                              *)

OfTask(events, id) == Keep(events, Of(id))
ToldOf(id) == Keep(OfTask(heard, id), Finals)
Heard == {e.task : e \in Range(heard)}

IsInput(e) == e.kind \in {"input", "response"}

\* ResultCollector.get_outputs: the chains of a task, without changes of agents.
Collected(id) == Keep(OfTask(heard, id), {e \in Events : e.kind # "frame"})
ChainOf(id, of) == Keep(Collected(id), {e \in Events : e.id = of})
\* create_final_event_from_events: a chain is built from its FINAL event, or from
\* STARTED to END.
Builds(chain) ==
    Last(chain).phase = "final" \/ (Head(chain).phase = "started" /\ Last(chain).phase = "end")

\* RuntimeEventHandler.listen: the stable events, and `complete` where the task
\* changes and at the end.
Stable == {e \in Events : e.phase = "final" \/ (e.phase = "started" /\ e.kind = "result")}
CompleteOf(e) == [task |-> e.task, id |-> e.id, kind |-> "complete", phase |-> "final"]
WithComplete(seen) ==
    FlattenSeq([k \in DOMAIN seen |->
        IF k = Len(seen) \/ seen[k + 1].task # seen[k].task
        THEN <<seen[k], CompleteOf(seen[k])>> ELSE <<seen[k]>>])
History == WithComplete(Keep(heard, Stable))

\* _group_history_events_by_task_id: a row begins with the input of its task.
Row(id) ==
    LET own == OfTask(History, id)
        inputs == {k \in DOMAIN own : IsInput(own[k])}
    IN  IF inputs = {} THEN <<>>
        ELSE SubSeq(own, CHOOSE k \in inputs : \A j \in inputs : k <= j, Len(own))

-----------------------------------------------------------------------------
(* Properties.                                                              *)

\* OutputsBuild: when a run ends without an error the collector can make its
\* outputs: what it heard of a task begins with the task's input and every chain
\* is closed, whatever the runs before left (collector.py get_outputs raises
\* otherwise, and the run with it).
OutputsBuild ==
    pc = "outputs" =>
        \A id \in Heard :
            /\ ToldOf(id) # <<>> /\ IsInput(Head(ToldOf(id)))
            /\ \A e \in Range(Collected(id)) : Builds(ChainOf(id, e.id))

\* ToldWhole: when a run ends without an error, each task it went on with has
\* been told from its first event to its last, in order and once, and each task
\* that finished since the session was last closed has been told.
ToldWhole ==
    pc = "outputs" =>
        /\ \A d \in Range(live.done) : ToldOf(d.id) = d.events
        /\ \A t \in Range(live.tasks) : ToldOf(t.id) \in {<<>>, Folded(t.events)}

\* RowsInOrder: a row of the history begins with an input and ends with its
\* complete event, and holds the events of the task in the order they happened,
\* each once, whether they were told again or not and also if the run failed
\* (service.py _group_history_events_by_task_id, runtime.py 711).
Before(e, f) ==
    \/ e.id < f.id
    \/ e.id = f.id /\ e.phase = "started" /\ f.phase = "final"
    \/ e.id = f.id /\ e.kind # "complete" /\ f.kind = "complete"
RowsInOrder ==
    pc \in {"outputs", "failed"} =>
        \A id \in Heard :
            LET row == Row(id)
            IN  row # <<>> => /\ Last(row).kind = "complete"
                              /\ \A k \in 1..(Len(row) - 1) : Before(row[k], row[k + 1])

\* StoredCanBeTold: what is saved of a task can be told again as it is: it begins
\* with the input, holds only FINAL events in order, and if the task waits it
\* ends with the request (os/service.py _filter_runtime_events_before_save).
StoredCanBeTold ==
    \A t \in Range(stored.tasks) \cup Range(stored.done) :
        /\ t.events # <<>> /\ t.events[1].kind = "input"
        /\ \A k \in DOMAIN t.events : t.events[k].phase = "final"
        /\ \A k \in 1..(Len(t.events) - 1) : t.events[k].id < t.events[k + 1].id
        /\ t \in Range(stored.tasks) /\ t.paused => Last(t.events).kind = "interrupted"
=============================================================================
