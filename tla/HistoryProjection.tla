-------------------------- MODULE HistoryProjection --------------------------
(***************************************************************************)
(* What a model is told of a session.  Tasks leave artifacts in the history *)
(* of the session when they finish and when they pause; before every model  *)
(* call the context builder cuts that history into rounds, keeps the latest *)
(* round of each input, tells the rounds of the agent that is called as      *)
(* messages of its own and the rounds of the other agents as group input of *)
(* the user message that follows them, and drops or shortens rounds whose   *)
(* tools are gone and whose results are out of date.                        *)
(* Sources: os/context/projector.py, os/context/provider.py, os/runtime.py  *)
(* and os/tool/service.py.                                                  *)
(*                                                                          *)
(* An artifact is known by its place in the history (src).  Texts are left  *)
(* out: a message without tool calls has a text, one with tool calls none.  *)
(* The system and the memory message stand before what is modelled here.    *)
(***************************************************************************)
EXTENDS Naturals, Sequences, FiniteSets, Selections

CONSTANTS
    Agents, Root,             \* the agents, the one that owns the session first
    Plain,                    \* names of the tools that only return a result
    MaxInputs, MaxCalls, MaxPauses, MaxWithdrawn  \* bounds of the checked instances

ASSUME ProjectionAssumption ==
    /\ Root \in Agents
    /\ {"handoff", "return", "resume"} \cap Plain = {}
    /\ {MaxInputs, MaxCalls, MaxPauses, MaxWithdrawn} \subseteq Nat

VARIABLES
    history,   \* artifacts of the session
    frames,    \* control stack; its last agent is the one that is called
    queue,     \* inputs that wait
    task,      \* the running task, in a set of at most one
    paused,    \* tasks that wait for a response
    offered,   \* plain tools the providers offer now
    expired,   \* calls whose result is out of date
    used       \* inputs, calls, pauses and withdrawn tools so far

vars == <<history, frames, queue, task, paused, offered, expired, used>>

sessionVars == <<history, frames, queue, paused>>
toolVars    == <<offered, expired>>

-----------------------------------------------------------------------------
(* Artifacts and tasks.                                                    *)

\* A tool is its name, and for a handoff the agent it goes to.
Tool(name, to) == [name |-> name, to |-> to]
Call(id, tool) == [id |-> id, tool |-> tool]

\* `wake`: the empty input that wakes the agent after a change of control.
\* `why`: what changed the control stack.
Artifact(kind, owner) ==
    [kind |-> kind, owner |-> owner, src |-> 0, input |-> 0, wake |-> FALSE,
     calls |-> <<>>, call |-> 0, why |-> "none"]

InputArtifact(t) ==
    [Artifact("input", t.owner) EXCEPT !.input = t.input, !.wake = t.wake]

Switches(call) == call.tool.name \in {"handoff", "return"}

\* build_tool_execution_units: the calls after a change of control get no unit.
Executed(calls) ==
    {k \in DOMAIN calls : \A j \in 1..(k - 1) : ~Switches(calls[j])}

\* build_task_artifacts: a task that finished leaves its input and what it
\* exchanged with the model and its tools, a paused one its input and request.
TaskArtifacts(t) == <<InputArtifact(t)>> \o t.artifacts
\* Seeded fault: a paused task leaves its unfinished exchange as well.
PausedArtifactsWithLoop(t) == Append(TaskArtifacts(t), Artifact("request", t.owner))
PausedArtifacts(t) == <<InputArtifact(t), Artifact("request", t.owner)>>

Top       == frames[Len(frames)]
Subagent  == Len(frames) > 1
LastOf(s) == s[Len(s)]

\* The last message of the model in the running task and its calls that wait.
\* _collect_tool_loop_artifacts appends a result per finished unit.
Asked(t)    == LastOf(Keep(t.artifacts, {a \in Range(t.artifacts) : a.kind # "result"})).calls
Results(t)  == {t.artifacts[i].call : i \in DOMAIN t.artifacts}
Waiting(t)  == IF t.artifacts = <<>> THEN {}
               ELSE {k \in Executed(Asked(t)) : Asked(t)[k].id \notin Results(t)}
Switching(t) == /\ t.artifacts # <<>>
                /\ \E k \in Executed(Asked(t)) : Switches(Asked(t)[k])

\* A task whose message or continuation the model is to write next.
AsksModel(t) == Waiting(t) = {} /\ ~Switching(t)

\* get_tools_with_inputs and _filter_runtime_available_tools.
OfferedTools ==
    {Tool(name, Root) : name \in offered}
    \cup {Tool("handoff", a) : a \in Agents \ Range(frames)}
    \cup (IF Subagent THEN {Tool("return", Root)} ELSE {})
    \cup (IF \E t \in paused : t.owner = Top THEN {Tool("resume", Root)} ELSE {})

\* The continuation after a message whose last call resumes a task has no tools.
NoToolCall(t) ==
    /\ t.artifacts # <<>> /\ Asked(t) # <<>>
    /\ LastOf(Asked(t)).tool.name = "resume"

AvailableTools(t) == IF NoToolCall(t) THEN {} ELSE OfferedTools

-----------------------------------------------------------------------------
(* The projection of a history for one agent.                              *)

\* The places of a sequence that are in S, in order.
PlacesIn(seq, S) == Keep([i \in DOMAIN seq |-> i], S)

\* A sequence cut at the places S, without what stands before the first.
CutAt(seq, S) ==
    LET o == PlacesIn(seq, S)
    IN  [k \in DOMAIN o |-> SubSeq(seq, o[k], IF k = Len(o) THEN Len(seq)
                                              ELSE o[k + 1] - 1)]

SplitHistoryRounds(h) == CutAt(h, {i \in DOMAIN h : h[i].kind = "input"})

\* The latest round of every input but the one that is being processed.
FilterLatestHistoryRounds(rounds, current) ==
    LET kept == {k \in DOMAIN rounds :
                   /\ rounds[k][1].input # current
                   /\ \A j \in (k + 1)..Len(rounds) :
                        rounds[j][1].input # rounds[k][1].input}
        o == PlacesIn(rounds, kept)
    IN  [k \in DOMAIN o |-> rounds[o[k]]]

\* Consecutive rounds of one agent form a group.
BuildHistoryRoundGroups(rounds) ==
    CutAt(rounds, {k \in DOMAIN rounds :
                     k = 1 \/ rounds[k][1].owner # rounds[k - 1][1].owner})

Message(role, a) ==
    [role |-> role, src |-> a.src, calls |-> a.calls, call |-> a.call,
     group |-> <<>>, stale |-> FALSE]

\* _artifact_to_llm_messages.  The text of an expired result is replaced by a
\* note; a change of control is told when it broke the loop of the tools.
ArtifactToMessages(a) ==
    CASE a.kind = "input" -> <<Message("user", a)>>
      [] a.kind = "result" -> <<[Message("tool", a) EXCEPT !.stale = a.call \in expired]>>
      [] a.kind = "change" /\ a.why = "report" -> <<>>
      [] OTHER -> <<Message("assistant", a)>>

Element(m, call) == [src |-> m.src, call |-> call, stale |-> m.stale]

MessageToElements(m) ==
    (IF m.role = "tool" \/ m.calls = <<>> THEN <<Element(m, m.call)>> ELSE <<>>)
    \o [k \in DOMAIN m.calls |-> Element(m, m.calls[k].id)]

\* What a round of another agent tells: not the empty input that woke it, but
\* every change of control.
RoundToElements(round) ==
    FlattenSeq([i \in DOMAIN round |->
        CASE round[i].kind = "input" /\ round[i].wake -> <<>>
          [] round[i].kind = "change" -> <<Element(Message("assistant", round[i]), 0)>>
          [] OTHER -> FlattenSeq([j \in DOMAIN ArtifactToMessages(round[i]) |->
                        MessageToElements(ArtifactToMessages(round[i])[j])])])

GroupInputContent(group) == FlattenSeq([k \in DOMAIN group |-> RoundToElements(group[k])])

\* Only the calls of the first message of a tool loop are looked at.
HasUnavailableCall(round, tools) ==
    \E i \in DOMAIN round : /\ round[i].kind = "tool_call"
                            /\ \E k \in DOMAIN round[i].calls :
                                 round[i].calls[k].tool \notin tools

HasExpiredResult(round) ==
    \E i \in DOMAIN round : round[i].kind = "result" /\ round[i].call \in expired

\* The last continuation of the round, without its calls.
LastResponse(round) ==
    LET r == Keep(round, {a \in Range(round) : a.kind = "response"})
    IN  IF r = <<>> THEN <<>>
        ELSE <<[Message("assistant", LastOf(r)) EXCEPT !.calls = <<>>]>>

InputToMessages(a, group) == <<[Message("user", a) EXCEPT !.group = group]>>

\* Seeded fault: the conclusion of a round is told whatever it rests on.
RoundToMessagesOfAnyAge(round, tools, group) ==
    IF HasUnavailableCall(round, tools)
    THEN InputToMessages(round[1], group) \o LastResponse(round)
    ELSE InputToMessages(round[1], group)
         \o FlattenSeq([i \in 1..(Len(round) - 1) |-> ArtifactToMessages(round[i + 1])])

RoundToMessages(round, tools, group) ==
    IF HasUnavailableCall(round, tools)
    THEN IF HasExpiredResult(round) THEN <<>>
         ELSE InputToMessages(round[1], group) \o LastResponse(round)
    ELSE InputToMessages(round[1], group)
         \o FlattenSeq([i \in 1..(Len(round) - 1) |-> ArtifactToMessages(round[i + 1])])

Told(round, tools) == RoundToMessages(round, tools, <<>>) # <<>>

\* The first round of the group that is told carries the group input.
GroupToMessages(group, tools, input) ==
    FlattenSeq([k \in DOMAIN group |->
        RoundToMessages(group[k], tools,
            IF \E j \in 1..(k - 1) : Told(group[j], tools) THEN <<>> ELSE input)])

\* _merge_group_input_to_normal_history_round_groups: a group of the agent gets
\* what the groups of others since its last group tell.
OwnGroups(groups, me)  == {g \in DOMAIN groups : groups[g][1][1].owner = me}
Pieces(groups, lo, hi) ==
    FlattenSeq([i \in 1..(hi - lo - 1) |-> GroupInputContent(groups[lo + i])])

MergedGroupInput(groups, me, g) ==
    LET before == {0} \cup {f \in OwnGroups(groups, me) : f < g}
    IN  Pieces(groups, CHOOSE f \in before : \A e \in before : e <= f, g)

\* Seeded fault: what no round of the agent could carry is forgotten.
GroupInputAtEnd(groups, me, tools) ==
    MergedGroupInput(groups, me, Len(groups) + 1)

\* What follows the agent's last group goes to the current input, and after it
\* what no round of an earlier group could carry.
CurrentGroupInput(groups, me, tools) ==
    LET own == PlacesIn(groups, OwnGroups(groups, me))
        leftOver(g) == IF \E k \in DOMAIN groups[g] : Told(groups[g][k], tools)
                       THEN <<>> ELSE MergedGroupInput(groups, me, g)
    IN  MergedGroupInput(groups, me, Len(groups) + 1)
        \o FlattenSeq([k \in DOMAIN own |-> leftOver(own[k])])

\* Artifacts in the order they are told: those of the history, then the
\* current input and what its task has produced.
Stamped(s) == [i \in DOMAIN s |-> [s[i] EXCEPT !.src = i]]

GroupsFor(t) ==
    BuildHistoryRoundGroups(FilterLatestHistoryRounds(
        SplitHistoryRounds(Stamped(history)), t.input))

HistoryMessages(t) ==
    LET groups == GroupsFor(t)
        own    == PlacesIn(groups, OwnGroups(groups, t.owner))
    IN  FlattenSeq([k \in DOMAIN own |->
            GroupToMessages(groups[own[k]], AvailableTools(t),
                            MergedGroupInput(groups, t.owner, own[k]))])

\* _build_current_input_llm_message and the artifacts of the task.
TaskMessages(t) ==
    LET s == Stamped(history \o TaskArtifacts(t))
        n == Len(history) + 1
    IN  InputToMessages(s[n], CurrentGroupInput(GroupsFor(t), t.owner, AvailableTools(t)))
        \o FlattenSeq([i \in 1..(Len(s) - n) |-> ArtifactToMessages(s[n + i])])

\* build_messages_from_source.
Messages(t) == HistoryMessages(t) \o TaskMessages(t)

-----------------------------------------------------------------------------
(* The session.                                                            *)

Init ==
    /\ history = <<>> /\ frames = <<Root>> /\ queue = <<>>
    /\ task = {} /\ paused = {}
    /\ offered = Plain /\ expired = {}
    /\ used = [inputs |-> 0, calls |-> 0, pauses |-> 0, withdrawn |-> 0]

NewInput(wake) == [id |-> used.inputs + 1, wake |-> wake]

Submit ==
    /\ used.inputs < MaxInputs /\ queue = <<>>
    /\ queue' = Append(queue, NewInput(FALSE))
    /\ used' = [used EXCEPT !.inputs = @ + 1]
    /\ UNCHANGED <<history, frames, task, paused, toolVars>>

StartTask ==
    /\ task = {} /\ queue # <<>>
    /\ task' = {[input |-> Head(queue).id, wake |-> Head(queue).wake,
                 owner |-> Top, artifacts |-> <<>>]}
    /\ queue' = Tail(queue)
    /\ UNCHANGED <<history, frames, paused, toolVars, used>>

\* A response to its request: the task runs again when its agent is called.
ResumeTask ==
    /\ task = {}
    /\ \E t \in paused : /\ t.owner = Top
                         /\ task' = {t}
                         /\ paused' = paused \ {t}
    /\ UNCHANGED <<history, frames, queue, toolVars, used>>

\* An asynchronous tool, a confirmation or an exception pauses the task.
PauseTask ==
    \E t \in task :
      /\ used.pauses < MaxPauses
      /\ history' = history \o PausedArtifacts(t)
      /\ paused' = paused \cup {t}
      /\ task' = {}
      /\ used' = [used EXCEPT !.pauses = @ + 1]
      /\ UNCHANGED <<frames, queue, toolVars>>

\* The calls of one message: none, one, or two different tools.
NewCalls(t) ==
    LET id == used.calls + 1
        one == IF id <= MaxCalls
               THEN {<<Call(id, x)>> : x \in AvailableTools(t)} ELSE {}
        two == IF id + 1 <= MaxCalls
               THEN {<<Call(id, x), Call(id + 1, y)>> :
                       x \in AvailableTools(t), y \in AvailableTools(t)} ELSE {}
    IN  one \cup {p \in two : p[1].tool # p[2].tool}

\* The model asks for tools, in its first message or in a continuation.
AnswerWithCalls ==
    \E t \in task : \E calls \in NewCalls(t) :
      /\ AsksModel(t)
      /\ task' = {[t EXCEPT !.artifacts = Append(@,
                     [Artifact(IF @ = <<>> THEN "tool_call" ELSE "response", t.owner)
                        EXCEPT !.calls = calls])]}
      /\ used' = [used EXCEPT !.calls = @ + Len(calls)]
      /\ UNCHANGED <<sessionVars, toolVars>>

ExecuteTool ==
    \E t \in task : \E k \in Waiting(t) :
      /\ \A j \in Waiting(t) : k <= j
      /\ task' = {[t EXCEPT !.artifacts = Append(@,
                     [Artifact("result", t.owner) EXCEPT !.call = Asked(t)[k].id])]}
      /\ UNCHANGED <<sessionVars, toolVars, used>>

Change(t, why) == [Artifact("change", t.owner) EXCEPT !.why = why]

\* The model answers without calls; the task of a subagent reports to the
\* agent below unless the message says that it goes on.
AnswerAndClose ==
    \E t \in task, goesOn \in IF Subagent THEN BOOLEAN ELSE {TRUE} :
      LET said == Append(t.artifacts, Artifact(
                    IF t.artifacts = <<>> THEN "assistant" ELSE "response", t.owner))
          done == history \o TaskArtifacts([t EXCEPT !.artifacts = said])
      IN /\ AsksModel(t)
         /\ history' = IF goesOn THEN done ELSE Append(done, Change(t, "report"))
         /\ frames' = IF goesOn THEN frames ELSE Front(frames)
         /\ task' = {}
         /\ UNCHANGED <<queue, paused, toolVars, used>>

\* A handoff or a return ends its task and wakes the agent that takes over.
\* A return without an agent below fails and changes nothing.
SwitchAndClose ==
    \E t \in task :
      LET made == Asked(t)
          last == made[CHOOSE k \in Executed(made) : Switches(made[k])].tool
          done == history \o TaskArtifacts(t)
          takenOver == queue' = Append(queue, NewInput(TRUE))
                       /\ used' = [used EXCEPT !.inputs = @ + 1]
      IN /\ Switching(t) /\ Waiting(t) = {}
         /\ used.inputs < MaxInputs
         /\ CASE last.name = "handoff" ->
                   /\ history' = Append(done, Change(t, "handoff"))
                   /\ frames' = Append(frames, last.to)
                   /\ takenOver
              [] last.name = "return" /\ Subagent ->
                   /\ history' = Append(done, Change(t, "return"))
                   /\ frames' = Front(frames)
                   /\ takenOver
              [] OTHER -> history' = done /\ UNCHANGED <<frames, queue, used>>
         /\ task' = {}
         /\ UNCHANGED <<paused, toolVars>>

\* A provider stops offering a tool.
WithdrawTool ==
    /\ used.withdrawn < MaxWithdrawn
    /\ \E x \in offered : offered' = offered \ {x}
    /\ used' = [used EXCEPT !.withdrawn = @ + 1]
    /\ UNCHANGED <<sessionVars, task, expired>>

\* A result whose tool set expires_at gets out of date.
Expire ==
    /\ \E i \in DOMAIN history : /\ history[i].kind = "result"
                                 /\ history[i].call \notin expired
                                 /\ expired' = expired \cup {history[i].call}
    /\ UNCHANGED <<sessionVars, task, offered, used>>

Next ==
    \/ Submit \/ StartTask \/ ResumeTask \/ PauseTask
    \/ AnswerWithCalls \/ ExecuteTool \/ AnswerAndClose \/ SwitchAndClose
    \/ WithdrawTool \/ Expire

Spec == Init /\ [][Next]_vars

-----------------------------------------------------------------------------
(* Properties.  They are about the contexts that are built: those of a task *)
(* whose next message the model writes.                                     *)

Built == {t \in task : AsksModel(t)}

\* The places of the history that belong to the round of place i.
RoundStart(i) == CHOOSE j \in 1..i : /\ history[j].kind = "input"
                                     /\ \A k \in (j + 1)..i : history[k].kind # "input"
SameRound(i, j) == RoundStart(i) = RoundStart(j)

\* The places whose round is the latest of an input other than the one of t.
Current(t) ==
    {i \in DOMAIN history :
       LET r == RoundStart(i) IN
       /\ history[r].input # t.input
       /\ \A j \in (r + 1)..Len(history) :
            history[j].kind = "input" => history[j].input # history[r].input}

\* What a sequence of messages tells, in the order it is read: the group input
\* of a message before the message.
Reading(ms) ==
    FlattenSeq([i \in DOMAIN ms |->
        Append(ms[i].group, [src |-> ms[i].src, call |-> ms[i].call, stale |-> ms[i].stale])])

\* Every call of an assistant message is answered by the results that follow it,
\* in the order of the calls, up to the first call that changes control; and
\* no result stands anywhere else (the message protocol of the model, for which
\* _artifact_to_llm_messages closes broken tool loops).
CallsAnsweredToSwitch ==
    \A t \in Built :
      LET ms == Messages(t)
          answers(i) == Executed(ms[i].calls)
      IN /\ \A i \in DOMAIN ms : \A k \in answers(i) :
              /\ i + k <= Len(ms)
              /\ ms[i + k].role = "tool" /\ ms[i + k].call = ms[i].calls[k].id
         /\ \A j \in DOMAIN ms : ms[j].role = "tool" =>
              \E i \in 1..(j - 1) : j - i \in answers(i)

\* What the history tells is read in the order of the session: the group input of
\* a message is what happened between the agent's round before and this one
\* (_build_history_round_groups keeps the session's order).
InOrder(told) == \A i, j \in DOMAIN told : i < j => told[i].src <= told[j].src

\* Whatever agent is called, it is told all that the other agents did in the
\* rounds that still count, once, as group input, and none of its own rounds
\* that way; of its own rounds nothing is told twice, the latest one of every
\* input is told or was given up for its expired results, the input that is being
\* processed is not told from the history, and what stands before it is in order.
ToldOnce ==
    \A t \in Built :
      LET ms       == Messages(t)
          elements == FlattenSeq([i \in DOMAIN ms |-> ms[i].group])
          own(i)   == history[RoundStart(i)].owner = t.owner
          others   == {i \in Current(t) : ~own(i)}
          native   == {ms[i].src : i \in DOMAIN ms} \cap DOMAIN history
      IN /\ IsInjective(elements)
         /\ {elements[k].src : k \in DOMAIN elements}
              = {i \in others : ~(history[i].kind = "input" /\ history[i].wake)}
         /\ Cardinality({ms[i].src : i \in DOMAIN ms}) = Len(ms)
         /\ native \subseteq {i \in Current(t) : own(i)}
         /\ \A i \in Current(t) :
              own(i) /\ history[i].kind = "input" /\ i \notin native =>
                \E j \in Current(t) : SameRound(i, j) /\ history[j].call \in expired
         /\ InOrder(Reading(HistoryMessages(t)))

\* No conclusion is told without the note on the expired results it rests on:
\* whatever follows an expired result in its round is read after the note
\* (_build_history_round_llm_messages).
NoStaleConclusion ==
    \A t \in Built :
      LET told == Reading(Messages(t))
      IN  \A i \in DOMAIN told : \A r \in 1..(told[i].src - 1) :
            /\ told[i].src <= Len(history)
            /\ SameRound(r, told[i].src) /\ history[r].call \in expired
            => \E j \in 1..(i - 1) : told[j].src = r /\ told[j].stale

=============================================================================
